----------------------------- MODULE RelayProofs -----------------------------
(***************************************************************************)
(* Proofs about the relay, for any devices, requests and bounds: the map   *)
(* of Hubs names the connection that registered last, and no Hub comes     *)
(* back with another key than the one its device id is bound to.           *)
(*                                                                         *)
(* A registration is judged by its frame, some time after the client has   *)
(* signed it.  The invariant therefore follows the key from the file to    *)
(* the running client, to the frames on their way to the relay, and from   *)
(* the relay's binding back to the file; and it says that a connection     *)
(* that is not registered yet carries nothing but Register frames, since   *)
(* no request can have gone down it.                                       *)
(***************************************************************************)
EXTENDS Relay, TLAPS

UpFrame ==
  [type : {"register"}, key : Nat, ts : Nat]
    \cup [type : {"response"}, id : Requests \cup {"none"}, status : {"hub", "403"}]

DownFrame ==
  [type : {"registered"}, ok : BOOLEAN] \cup [type : {"request"}, id : Requests]

Connection ==
  [dev : Devices, srv : {"new", "checked", "registered", "closed"},
   up : Seq(UpFrame), down : Seq(DownFrame), out : Seq(Requests), cut : BOOLEAN]

Client ==
  [st : Running \cup {"off"}, conn : Nat, key : Nat, req : Requests \cup {"none"}]

File == [st : {"absent", "torn", "saved"}, key : Nat]

Types ==
  /\ now \in Nat
  /\ file \in [Devices -> File]
  /\ cli \in [Devices -> Client]
  /\ conn \in Seq(Connection)
  /\ hubs \in [Devices -> Nat] /\ boundKey \in [Devices -> Nat]
  /\ lastReg \in [Devices -> Nat]

Registering == {"new", "checked"}

\* What a connection k may carry before it is registered: the key of the file,
\* and a frame at least while it is being judged.
CarriesKey(k) ==
  k.srv \in Registering =>
    /\ k.srv = "checked" => k.up # <<>>
    /\ \A i \in 1..Len(k.up) : file[k.dev].st = "saved" /\ k.up[i].key = file[k.dev].key
    /\ \A i \in 1..Len(k.down) : k.down[i].type # "request"

ConnsOK == \A c \in Conns : CarriesKey(conn[c])

ClientOK(d) ==
  /\ cli[d].st \in Running => file[d].st = "saved" /\ cli[d].key = file[d].key
  /\ cli[d].st \in {"opening", "open", "busy"} =>
       cli[d].conn \in Conns /\ conn[cli[d].conn].dev = d
  /\ cli[d].st = "busy" => conn[cli[d].conn].srv \notin Registering

ClientsOK == \A d \in Devices : ClientOK(d)

KeysOK == \A d \in Devices :
            boundKey[d] # 0 => file[d].st = "saved" /\ boundKey[d] = file[d].key

ServedOK ==
  /\ LastRegisteredServed
  /\ \A d \in Devices :
       lastReg[d] # 0 => lastReg[d] \in Conns /\ conn[lastReg[d]].dev = d

RelayInv == Types /\ ConnsOK /\ ClientsOK /\ KeysOK /\ ServedOK /\ NeverLockedOut

\* It holds when the relay and the Hubs have not started yet.
LEMMA RelayInit == Init => RelayInv
  BY SMTT(40) DEF Init, RelayInv, Types, ConnsOK, ClientsOK, ClientOK, KeysOK, ServedOK,
     LastRegisteredServed, NeverLockedOut, Conns, NoFile, Off, File, Client, Running

\* The fields of a connection, and what replacing its sequences gives.
LEMMA Fields ==
  ASSUME NEW k \in Connection
  PROVE  /\ k.dev \in Devices /\ k.srv \in {"new", "checked", "registered", "closed"}
         /\ k.up \in Seq(UpFrame) /\ k.down \in Seq(DownFrame) /\ k.out \in Seq(Requests)
         /\ \A s \in Seq(UpFrame) :
              LET n == [k EXCEPT !.up = s] IN
              n \in Connection /\ n.dev = k.dev /\ n.srv = k.srv /\ n.down = k.down /\ n.up = s
         /\ \A s \in Seq(DownFrame) :
              LET n == [k EXCEPT !.down = s] IN
              n \in Connection /\ n.dev = k.dev /\ n.srv = k.srv /\ n.up = k.up /\ n.down = s
         /\ \A s \in Seq(Requests) :
              LET n == [k EXCEPT !.out = s] IN
              n \in Connection /\ n.dev = k.dev /\ n.srv = k.srv /\ n.up = k.up /\ n.down = k.down
  BY Zenon DEF Connection

\* A connection of the relay is one, of a device.
LEMMA AConnection ==
  ASSUME conn \in Seq(Connection), NEW c \in Conns
  PROVE  conn[c] \in Connection /\ conn[c].dev \in Devices
<1>1. conn[c] \in Connection
  BY DEF Conns
<1> QED
  BY <1>1, Fields, Zenon

\* A step that changes one connection, which stays with its device and carries
\* what it may, keeps the connections in order; and the clients, unless it goes
\* back to registering.
LEMMA ConnStep ==
  ASSUME conn \in Seq(Connection), ConnsOK, NEW c \in Conns, NEW k \in Connection,
         conn' = [conn EXCEPT ![c] = k], UNCHANGED file,
         k.dev = conn[c].dev, CarriesKey(k)
  PROVE  /\ conn' \in Seq(Connection) /\ Conns' = Conns
         /\ conn'[c] = k /\ \A b \in Conns \ {c} : conn'[b] = conn[b]
         /\ \A b \in Conns : conn'[b].dev = conn[b].dev
         /\ ConnsOK'
<1>1. Len(conn) \in Nat /\ Conns = 1..Len(conn) /\ DOMAIN conn = 1..Len(conn)
  BY DEF Conns
<1>2. conn' \in [1..Len(conn) -> Connection]
  BY <1>1
<1>3. conn' \in Seq(Connection) /\ Len(conn') = Len(conn)
  BY <1>1, <1>2
<1>4. Conns' = Conns
  BY <1>3, Zenon DEF Conns
<1>5. conn'[c] = k /\ \A b \in Conns \ {c} : conn'[b] = conn[b]
  BY <1>1, Zenon
<1>6. ConnsOK'
  BY <1>4, <1>5 DEF ConnsOK, CarriesKey
<1> QED
  BY <1>3, <1>4, <1>5, <1>6, Zenon

\* Such a step keeps what is known of the clients, when it leaves them alone,
\* and of the map, when it neither begins nor ends a registration.
LEMMA ClientsKept ==
  ASSUME ClientsOK, UNCHANGED <<file, cli>>, Conns' = Conns,
         \A b \in Conns : conn'[b].dev = conn[b].dev,
         \A b \in Conns : conn'[b].srv \in Registering => conn[b].srv \in Registering
  PROVE  ClientsOK'
  BY Zenon DEF ClientsOK, ClientOK, Running

\* The same for the map of Hubs.
LEMMA ServedKept ==
  ASSUME ServedOK, UNCHANGED <<hubs, lastReg>>, Conns \subseteq Conns',
         \A b \in Conns : conn'[b].dev = conn[b].dev,
         \A b \in Conns : (conn'[b].srv = "registered") <=> (conn[b].srv = "registered")
  PROVE  ServedOK'
  BY Zenon DEF ServedOK, LastRegisteredServed

-----------------------------------------------------------------------------
(* The Hub process and its client *)

\* load_or_create and the end of the Hub: a file is written only when there is
\* none, and then neither the relay nor a frame knows a key of this device.
LEMMA ProcessKeeps ==
  ASSUME RelayInv, NEW d \in Devices, load_or_create(d) \/ HubEnds(d)
  PROVE  RelayInv'
<1>1. UNCHANGED <<now, conn, hubs, boundKey, lastReg, refusedKey>> /\ Conns' = Conns
  BY Zenon DEF load_or_create, HubEnds, netVars, regVars, Conns
<1>2. Types
  BY Zenon DEF RelayInv
<1>3. ServedOK' /\ NeverLockedOut'
  BY <1>1, Zenon DEF RelayInv, ServedOK, LastRegisteredServed, NeverLockedOut
<1>4. CASE HubEnds(d)
  <2>1. file' = file /\ cli' = [cli EXCEPT ![d] = Off]
    BY <1>4, Zenon DEF HubEnds
  <2>2. Types'
    BY <1>1, <1>2, <2>1, Zenon DEF Types, Off, Client
  <2>3. ClientsOK'
    BY <1>1, <1>2, <2>1 DEF RelayInv, Types, ClientsOK, ClientOK, Off, Running
  <2> QED
    BY <1>1, <1>3, <2>1, <2>2, <2>3, Zenon DEF RelayInv, ConnsOK, CarriesKey, KeysOK
<1>5. CASE load_or_create(d) /\ Loaded(d)
  <2>1. /\ file' = file /\ file[d].st = "saved"
        /\ cli' = [cli EXCEPT ![d] = [Off EXCEPT !.st = "backoff", !.key = file[d].key]]
    BY <1>5, Zenon DEF Loaded, Identity
  <2>2. Types'
    BY <1>1, <1>2, <2>1, Zenon DEF Types, Off, Client, Running, File
  <2>3. ClientsOK'
    BY <1>1, <1>2, <2>1 DEF RelayInv, Types, ClientsOK, ClientOK, Off, Running
  <2> QED
    BY <1>1, <1>3, <2>1, <2>2, <2>3, Zenon DEF RelayInv, ConnsOK, CarriesKey, KeysOK
<1>6. CASE load_or_create(d) /\ (Created(d) \/ SaveFails(d))
  <2>1. file[d].st = "absent" /\ cli[d].st = "off"
    BY <1>6, Zenon DEF load_or_create, Created, SaveFails
  <2>2. boundKey[d] = 0
    BY <2>1, Zenon DEF RelayInv, KeysOK
  <2>3. PICK f \in File : file' = [file EXCEPT ![d] = f]
    <3>1. CASE Created(d)
      <4>1. [st |-> "saved", key |-> NewKey(d)] \in File
        BY <2>2 DEF NewKey, File
      <4> QED
        BY <3>1, <4>1, Zenon DEF Created
    <3>2. CASE SaveFails(d)
      <4>1. PICK left \in {"absent", "torn"} : file' = [file EXCEPT ![d].st = left]
        BY <3>2, Zenon DEF SaveFails
      <4>2. [file[d] EXCEPT !.st = left] \in File
        BY <1>2, Zenon DEF Types, File
      <4> QED
        BY <4>1, <4>2, Zenon
    <3> QED
      BY <1>6, <3>1, <3>2, Zenon
  <2>4. file'[d] = f /\ \A e \in Devices \ {d} : file'[e] = file[e]
    BY <2>3, <1>2, Zenon DEF Types
  <2>5. /\ cli' \in [Devices -> Client]
        /\ \A e \in Devices \ {d} : cli'[e] = cli[e]
        /\ cli'[d].st = "off" \/ (cli'[d].st = "backoff" /\ f.st = "saved" /\ cli'[d].key = f.key)
    <3>1. CASE Created(d)
      <4>1. /\ f.st = "saved" /\ f.key = NewKey(d) /\ NewKey(d) \in Nat
            /\ cli' = [cli EXCEPT ![d] = [Off EXCEPT !.st = "backoff", !.key = NewKey(d)]]
        BY <3>1, <2>2, <2>4, <1>2 DEF Created, Identity, Types, NewKey
      <4> QED
        BY <4>1, <1>2, Zenon DEF Types, Client, Off, Running
    <3>2. CASE SaveFails(d)
      BY <3>2, <2>1, <1>2, Zenon DEF SaveFails, Types
    <3> QED
      BY <1>6, <3>1, <3>2, Zenon
  <2>6. Types'
    BY <1>1, <1>2, <2>3, <2>5, Zenon DEF Types
  <2>7. ClientsOK'
    BY <1>1, <2>4, <2>5, SMTT(40) DEF RelayInv, ClientsOK, ClientOK, Running
  <2>8. ConnsOK'
    <3> SUFFICES ASSUME NEW c \in Conns PROVE CarriesKey(conn[c])'
      BY <1>1, Zenon DEF ConnsOK
    <3>1. CarriesKey(conn[c]) /\ conn[c].dev \in Devices
      BY <1>2, AConnection, Zenon DEF RelayInv, ConnsOK, Types
    <3> QED
      BY <1>1, <2>1, <2>4, <3>1, Zenon DEF CarriesKey
  <2>9. KeysOK'
    BY <1>1, <2>2, <2>4, Zenon DEF RelayInv, KeysOK
  <2> QED
    BY <1>3, <2>6, <2>7, <2>8, <2>9, Zenon DEF RelayInv
<1> QED
  BY <1>4, <1>5, <1>6, Zenon DEF load_or_create

\* connect_async: the new connection carries nothing yet.
LEMMA ConnectKeeps ==
  ASSUME RelayInv, NEW d \in Devices, Connect(d)
  PROVE  RelayInv'
<1> DEFINE k == [dev |-> d, srv |-> "new", up |-> <<>>, down |-> <<>>,
                 out |-> <<>>, cut |-> FALSE]
           n == Len(conn) + 1
<1>1. /\ conn' = Append(conn, k) /\ cli[d].st = "backoff"
      /\ cli' = [cli EXCEPT ![d].st = "opening", ![d].conn = n]
      /\ UNCHANGED <<now, file, hubs, boundKey, lastReg, refusedKey>>
  BY Zenon DEF Connect, regVars
<1>2. Types
  BY Zenon DEF RelayInv
<1>3. k \in Connection
  BY DEF Connection
<1>4. /\ conn' \in Seq(Connection) /\ Conns' = Conns \cup {n}
      /\ conn'[n] = k /\ \A b \in Conns : conn'[b] = conn[b]
  BY <1>1, <1>2, <1>3 DEF Types, Conns
<1>5. /\ cli' \in [Devices -> Client] /\ \A e \in Devices \ {d} : cli'[e] = cli[e]
      /\ cli'[d].st = "opening" /\ cli'[d].conn = n /\ cli'[d].key = cli[d].key
  <2>1. n \in Nat /\ cli[d] \in Client /\ cli \in [Devices -> Client]
    BY <1>2 DEF Types
  <2>2. cli' = [cli EXCEPT ![d] = [cli[d] EXCEPT !.st = "opening", !.conn = n]]
    BY <1>1, Zenon
  <2> HIDE DEF n
  <2>3. LET m == [cli[d] EXCEPT !.st = "opening", !.conn = n]
        IN  m \in Client /\ m.st = "opening" /\ m.conn = n /\ m.key = cli[d].key
    BY <2>1, Zenon DEF Client, Running
  <2> QED
    BY <2>1, <2>2, <2>3, Zenon
<1>6. ConnsOK'
  <2>1. CarriesKey(k)'
    BY SMTT(40) DEF CarriesKey
  <2>2. \A b \in Conns : CarriesKey(conn[b])'
    <3> SUFFICES ASSUME NEW b \in Conns PROVE CarriesKey(conn[b])'
      OBVIOUS
    <3>1. CarriesKey(conn[b]) /\ conn'[b] = conn[b] /\ file' = file
      BY <1>1, <1>4, Zenon DEF RelayInv, ConnsOK
    <3> QED
      BY <3>1, Zenon DEF CarriesKey
  <2> QED
    BY <1>4, <2>1, <2>2, Zenon DEF ConnsOK
<1>7. ClientsOK'
  <2> HIDE DEF k, n
  <2>1. k.dev = d
    BY Zenon DEF k
  <2> QED
    <3>1. ClientOK(d)'
      <4>1. cli[d].st = "backoff" /\ file' = file /\ ClientOK(d)
        BY <1>1, Zenon DEF RelayInv, ClientsOK
      <4>2. n \in Conns' /\ conn'[n].dev = d
        BY <1>4, <2>1, Zenon
      <4> QED
        BY <1>5, <4>1, <4>2, Zenon DEF ClientOK, Running
    <3>2. ASSUME NEW e \in Devices \ {d} PROVE ClientOK(e)'
      <4>1. ClientOK(e) /\ cli'[e] = cli[e] /\ file' = file
        BY <1>1, <1>5, Zenon DEF RelayInv, ClientsOK
      <4> QED
        BY <1>4, <4>1, Zenon DEF ClientOK
    <3> QED
      BY <3>1, <3>2, Zenon DEF ClientsOK
<1>8. ServedOK'
  BY <1>1, <1>4, ServedKept, Zenon DEF RelayInv
<1> QED
  BY <1>1, <1>2, <1>4, <1>5, <1>6, <1>7, <1>8, Zenon DEF RelayInv, Types, KeysOK, NeverLockedOut

\* A client that changes its state only, and not to one that asks for more.
LEMMA ClientMoves ==
  ASSUME Types, ClientsOK, NEW d \in Devices, NEW st \in Running,
         NEW r \in Requests \cup {"none"}, client(d, st, r), cli[d].st \in Running,
         st # "backoff" => cli[d].st # "backoff",
         st = "busy" => conn'[cli[d].conn].srv \notin Registering,
         UNCHANGED file, Conns' = Conns,
         \A b \in Conns : conn'[b].dev = conn[b].dev,
         \A b \in Conns : conn'[b].srv = conn[b].srv
  PROVE  cli' \in [Devices -> Client] /\ ClientsOK'
<1>1. /\ cli'[d].st = st /\ cli'[d].conn = cli[d].conn /\ cli'[d].key = cli[d].key
      /\ \A e \in Devices \ {d} : cli'[e] = cli[e]
      /\ cli' \in [Devices -> Client]
  <2>1. cli \in [Devices -> Client] /\ cli[d] \in Client
    BY Zenon DEF Types
  <2>2. LET m == [cli[d] EXCEPT !.st = st, !.req = r]
        IN  m \in Client /\ m.st = st /\ m.conn = cli[d].conn /\ m.key = cli[d].key
    BY <2>1, Zenon DEF Client
  <2>3. cli' = [cli EXCEPT ![d] = [cli[d] EXCEPT !.st = st, !.req = r]]
    BY ZenonT(40) DEF client
  <2> QED
    BY <2>1, <2>2, <2>3, Zenon
<1> QED
  BY <1>1 DEF ClientsOK, ClientOK, Running

\* The client sends a frame, which a cut connection loses.
LEMMA SendKeeps ==
  ASSUME RelayInv, NEW c \in Conns, NEW f \in UpFrame, conn' = SendUp(c, f),
         UNCHANGED file,
         conn[c].srv \in Registering =>
             file[conn[c].dev].st = "saved" /\ f.key = file[conn[c].dev].key
  PROVE  /\ conn' \in Seq(Connection) /\ Conns' = Conns /\ ConnsOK'
         /\ \A b \in Conns : conn'[b].dev = conn[b].dev
         /\ \A b \in Conns : conn'[b].srv = conn[b].srv
<1>1. CASE conn[c].cut
  BY <1>1, SMTT(40) DEF SendUp, RelayInv, Types, Conns, ConnsOK, CarriesKey
<1>2. CASE ~conn[c].cut
  <2> DEFINE k == [conn[c] EXCEPT !.up = Append(@, f)]
  <2>1. conn[c] \in Connection /\ conn \in Seq(Connection) /\ ConnsOK
    BY AConnection, Zenon DEF RelayInv, Types
  <2>2. conn' = [conn EXCEPT ![c] = k]
    BY <1>2, Zenon DEF SendUp
  <2>3. k \in Connection /\ k.dev = conn[c].dev /\ k.srv = conn[c].srv
        /\ k.down = conn[c].down /\ k.up = Append(conn[c].up, f)
    <3>1. Append(conn[c].up, f) \in Seq(UpFrame)
      BY <2>1, Fields
    <3> QED
      BY <2>1, <3>1, Fields, ZenonT(40)
  <2>4. CarriesKey(k)
    <3>1. CarriesKey(conn[c]) /\ conn[c].up \in Seq(UpFrame)
      BY <2>1, Zenon DEF ConnsOK, Connection
    <3> QED
      BY <2>3, <3>1, SMTT(40) DEF CarriesKey
  <2>5. PICK m : m = k
    BY ZenonT(40)
  <2>6. /\ m \in Connection /\ m.dev = conn[c].dev /\ m.srv = conn[c].srv
        /\ conn' = [conn EXCEPT ![c] = m] /\ CarriesKey(m)
    BY <2>2, <2>3, <2>4, <2>5, Zenon
  <2>7. /\ conn' \in Seq(Connection) /\ Conns' = Conns /\ ConnsOK'
        /\ conn'[c] = m /\ \A b \in Conns \ {c} : conn'[b] = conn[b]
    BY <2>1, <2>6, ConnStep, Zenon
  <2> QED
    BY <2>6, <2>7, Zenon
<1> QED
  BY <1>1, <1>2, Zenon

\* The steps of run_session.
LEMMA SessionKeeps ==
  ASSUME RelayInv, NEW d \in Devices,
         SendRegister(d) \/ ClientReads(d) \/ ClientReplies(d) \/ SessionEnds(d)
  PROVE  RelayInv'
<1> DEFINE c == cli[d].conn
<1>1. /\ UNCHANGED <<now, file, hubs, boundKey, lastReg, refusedKey>>
      /\ cli[d].st \in {"opening", "open", "busy"}
  BY Zenon DEF SendRegister, ClientReads, ClientReplies, SessionEnds, netVars, regVars
<1>2. /\ Types /\ ConnsOK /\ ClientsOK /\ ClientOK(d)
      /\ c \in Conns /\ conn[c].dev = d /\ conn[c] \in Connection
      /\ cli[d].st \in Running /\ cli[d].st # "backoff"
      /\ file[d].st = "saved" /\ cli[d].key = file[d].key
  BY <1>1, SMTT(40) DEF RelayInv, Types, ClientsOK, ClientOK, Conns, Running
<1>3. SUFFICES /\ conn' \in Seq(Connection) /\ Conns' = Conns /\ ConnsOK'
               /\ \A b \in Conns : conn'[b].dev = conn[b].dev
               /\ \A b \in Conns : conn'[b].srv = conn[b].srv
               /\ cli' \in [Devices -> Client] /\ ClientsOK'
  BY <1>1, <1>2, ServedKept, Zenon DEF RelayInv, Types, KeysOK, NeverLockedOut
<1>4. CASE SendRegister(d)
  <2>1. sign_register(d) \in UpFrame /\ sign_register(d).key = file[d].key
    BY <1>2, Zenon DEF sign_register, UpFrame, Types, Client
  <2>2. conn' = SendUp(c, sign_register(d)) /\ client(d, "open", "none")
    BY <1>4, Zenon DEF SendRegister
  <2> QED
    BY <1>1, <1>2, <2>1, <2>2, SendKeeps, ClientMoves, Zenon DEF Running
<1>5. CASE ClientReplies(d)
  <2>1. PICK status \in {"hub", "403"} :
           conn' = SendUp(c, [type |-> "response", id |-> cli[d].req, status |-> status])
    BY <1>5, Zenon DEF ClientReplies, Forwarded, Forbidden
  <2>2. [type |-> "response", id |-> cli[d].req, status |-> status] \in UpFrame
    BY <1>2, Zenon DEF UpFrame, Types, Client
  <2>3. client(d, "open", "none") /\ conn[c].srv \notin Registering
    BY <1>2, <1>5, Zenon DEF ClientReplies, ClientOK
  <2> QED
    BY <1>1, <1>2, <2>1, <2>2, <2>3, SendKeeps, ClientMoves, Zenon DEF Running
<1>6. CASE ClientReads(d)
  <2> DEFINE frame == Head(conn[c].down)
             k == [conn[c] EXCEPT !.down = Tail(@)]
  <2>1. /\ conn' = [conn EXCEPT ![c] = k] /\ conn[c].down # <<>>
        /\ \/ frame.type = "registered" /\ client(d, IF frame.ok THEN "open" ELSE "backoff", "none")
           \/ frame.type = "request" /\ client(d, "busy", frame.id)
    BY <1>6, Zenon DEF ClientReads, ReadFrame
  <2>2. /\ conn[c].down \in Seq(DownFrame) /\ frame \in DownFrame
        /\ k \in Connection /\ k.dev = d /\ k.srv = conn[c].srv /\ k.up = conn[c].up
        /\ k.down = Tail(conn[c].down)
    <3>1. conn[c].down \in Seq(DownFrame)
      BY <1>2, Fields, Zenon
    <3>2. frame \in DownFrame /\ Tail(conn[c].down) \in Seq(DownFrame)
      BY SMTT(40), <2>1, <3>1
    <3> QED
      BY ZenonT(40), <1>2, <3>1, <3>2, Fields
  <2>3. CarriesKey(conn[c])
    BY <1>2, Zenon DEF ConnsOK
  <2>4. CarriesKey(k)
    <3> HIDE DEF k
    <3>1. \A i \in 1..Len(k.down) : i + 1 \in 1..Len(conn[c].down)
                                    /\ k.down[i] = conn[c].down[i + 1]
      BY <2>1, <2>2
    <3> QED
      BY ZenonT(40), <1>2, <2>2, <2>3, <3>1 DEF CarriesKey
  <2>5. /\ conn' \in Seq(Connection) /\ Conns' = Conns /\ ConnsOK' /\ conn'[c] = k
        /\ \A b \in Conns : conn'[b].dev = conn[b].dev
        /\ \A b \in Conns : conn'[b].srv = conn[b].srv
    <3> HIDE DEF k, c
    <3>1. /\ conn \in Seq(Connection) /\ conn' = [conn EXCEPT ![c] = k]
          /\ k \in Connection /\ k.dev = conn[c].dev /\ k.srv = conn[c].srv
          /\ ConnsOK /\ c \in Conns /\ UNCHANGED file
      BY <1>1, <1>2, <2>1, <2>2, Zenon DEF Types
    <3>2. PICK m, b : m = k /\ b = c
      OBVIOUS
    <3>3. /\ m \in Connection /\ b \in Conns /\ m.dev = conn[b].dev /\ m.srv = conn[b].srv
          /\ conn' = [conn EXCEPT ![b] = m] /\ CarriesKey(m)
      BY <2>4, <3>1, <3>2, Zenon
    <3>4. /\ conn' \in Seq(Connection) /\ Conns' = Conns /\ ConnsOK'
          /\ conn'[b] = m /\ \A a \in Conns \ {b} : conn'[a] = conn[a]
      BY <3>1, <3>3, ConnStep, Zenon
    <3> QED
      BY <3>2, <3>3, <3>4, Zenon
  <2>6. frame.type = "request" => frame.id \in Requests /\ conn[c].srv \notin Registering
    <3>1. frame.type = "request" => frame.id \in Requests
      BY <2>2, Zenon DEF DownFrame
    <3>2. 1 \in 1..Len(conn[c].down) /\ frame = conn[c].down[1]
      BY <2>1, <2>2
    <3> QED
      BY <2>3, <3>1, <3>2, Zenon DEF CarriesKey
  <2>7. cli' \in [Devices -> Client] /\ ClientsOK'
    <3>1. CASE frame.type = "request" /\ client(d, "busy", frame.id)
      BY <1>1, <1>2, <2>5, <2>6, <3>1, ClientMoves, Zenon DEF Running
    <3>2. ASSUME NEW st \in {"open", "backoff"}, client(d, st, "none")
          PROVE  cli' \in [Devices -> Client] /\ ClientsOK'
      BY <1>1, <1>2, <2>5, <3>2, ClientMoves DEF Running
    <3> QED
      BY <2>1, <3>1, <3>2, Zenon
  <2> QED
    BY <2>5, <2>7, Zenon
<1>7. CASE SessionEnds(d)
  <2>1. conn' = conn /\ Conns' = Conns /\ client(d, "backoff", "none")
    BY <1>7, Zenon DEF SessionEnds, netVars, Conns
  <2>2. ConnsOK'
    BY <1>1, <1>2, <2>1, Zenon DEF ConnsOK, CarriesKey
  <2> QED
    BY <1>1, <1>2, <2>1, <2>2, ClientMoves, Zenon DEF Running, Types
<1> QED
  BY <1>4, <1>5, <1>6, <1>7, Zenon

-----------------------------------------------------------------------------
(* The relay *)

\* A step of the relay on one connection: it registers nothing, and either
\* leaves the map alone or closes the connection and evicts it.
LEMMA RelayStep ==
  ASSUME RelayInv, NEW c \in Conns, NEW k \in Connection,
         conn' = [conn EXCEPT ![c] = k],
         UNCHANGED <<now, file, cli, boundKey, lastReg, refusedKey>>,
         k.dev = conn[c].dev, CarriesKey(k),
         k.srv \in Registering => conn[c].srv \in Registering,
         \/ UNCHANGED hubs /\ ((k.srv = "registered") <=> (conn[c].srv = "registered"))
         \/ hubs' = Evict(c) /\ k.srv = "closed"
  PROVE  RelayInv'
<1>1. Types /\ ConnsOK /\ ClientsOK /\ ServedOK
  BY Zenon DEF RelayInv
<1>2. /\ conn' \in Seq(Connection) /\ Conns' = Conns
      /\ conn'[c] = k /\ \A b \in Conns \ {c} : conn'[b] = conn[b]
      /\ \A b \in Conns : conn'[b].dev = conn[b].dev
      /\ ConnsOK'
  BY <1>1, ConnStep, Zenon DEF Types
<1>3. ClientsOK'
  BY <1>1, <1>2, ClientsKept, Zenon
<1>4. ServedOK' /\ hubs' \in [Devices -> Nat]
  <2>1. CASE UNCHANGED hubs /\ ((k.srv = "registered") <=> (conn[c].srv = "registered"))
    BY <1>1, <1>2, <2>1, ServedKept, Zenon DEF Types
  <2>2. CASE hubs' = Evict(c) /\ k.srv = "closed"
    <3> DEFINE d == conn[c].dev
    <3>1. d \in Devices /\ hubs \in [Devices -> Nat] /\ c # 0
      BY <1>1, AConnection DEF Types, Conns
    <3>2. /\ hubs' \in [Devices -> Nat]
          /\ hubs'[d] = IF hubs[d] = c THEN 0 ELSE hubs[d]
          /\ \A e \in Devices \ {d} : hubs'[e] = hubs[e]
      BY <2>2, <3>1, Zenon DEF Evict
    <3> HIDE DEF d
    <3>3. \A e \in Devices : lastReg[e] = c => e = d
      BY <1>1, <3>1, Zenon DEF ServedOK, d
    <3>4. LastRegisteredServed'
      <4> SUFFICES ASSUME NEW e \in Devices
                   PROVE  /\ hubs'[e] # 0 => hubs'[e] = lastReg[e]
                          /\ lastReg[e] # 0 =>
                               ((hubs'[e] # 0) <=> (conn'[lastReg[e]].srv = "registered"))
        BY Zenon DEF LastRegisteredServed
      <4>1. /\ hubs[e] # 0 => hubs[e] = lastReg[e]
            /\ lastReg[e] # 0 => ((hubs[e] # 0) <=> (conn[lastReg[e]].srv = "registered"))
            /\ lastReg[e] # 0 => lastReg[e] \in Conns
        BY <1>1, Zenon DEF ServedOK, LastRegisteredServed
      <4>2. CASE lastReg[e] = c
        BY <1>2, <2>2, <3>1, <3>2, <3>3, <4>1, <4>2, Zenon
      <4>3. CASE lastReg[e] # c
        BY <1>2, <3>1, <3>2, <4>1, <4>3, Zenon
      <4> QED
        BY <4>2, <4>3, Zenon
    <3> QED
      BY <1>1, <1>2, <3>2, <3>4 DEF ServedOK
  <2> QED
    BY <2>1, <2>2, Zenon
<1> QED
  BY <1>1, <1>2, <1>3, <1>4, Zenon DEF RelayInv, Types, KeysOK, NeverLockedOut

\* A frame pushed down a connection appears there or is lost.
LEMMA PushStep ==
  ASSUME conn \in Seq(Connection), NEW c \in Conns, NEW fr \in DownFrame
  PROVE  \E k \in Connection :
           /\ Push(conn, c, fr) = [conn EXCEPT ![c] = k]
           /\ k.dev = conn[c].dev /\ k.srv = conn[c].srv /\ k.up = conn[c].up
<1>1. conn[c] \in Connection /\ conn = [conn EXCEPT ![c] = conn[c]]
  BY AConnection DEF Conns
<1>2. CASE conn[c].cut \/ ~Attached(c)
  BY <1>1, <1>2, Zenon DEF Push
<1>3. CASE ~(conn[c].cut \/ ~Attached(c))
  <2>1. Append(conn[c].down, fr) \in Seq(DownFrame)
    BY <1>1, Fields
  <2>2. PICK k : k = [conn[c] EXCEPT !.down = Append(conn[c].down, fr)]
    BY Zenon
  <2>3. k \in Connection /\ k.dev = conn[c].dev /\ k.srv = conn[c].srv /\ k.up = conn[c].up
    BY Zenon, <1>1, <2>1, <2>2, Fields
  <2>4. Push(conn, c, fr) = [conn EXCEPT ![c] = k]
    BY <1>3, <2>2, Zenon DEF Push
  <2> QED
    BY <2>3, <2>4, Zenon
<1> QED
  BY <1>2, <1>3, Zenon

\* Nothing on its way is a sequence of frames, and of requests.
LEMMA EmptySeqs == <<>> \in Seq(UpFrame) /\ <<>> \in Seq(DownFrame) /\ <<>> \in Seq(Requests)
  OBVIOUS

\* break closes the connection, whatever was sent last.
LEMMA BreakStep ==
  ASSUME conn \in Seq(Connection), NEW c \in Conns,
         Break(c, conn) \/ Break(c, Push(conn, c, Refused))
  PROVE  /\ hubs' = Evict(c)
         /\ \E k \in Connection :
              /\ conn' = [conn EXCEPT ![c] = k]
              /\ k.dev = conn[c].dev /\ k.srv = "closed" /\ CarriesKey(k)
<1>1. Refused \in DownFrame
  BY Zenon DEF Refused, DownFrame
<1>2. conn[c] \in Connection /\ conn = [conn EXCEPT ![c] = conn[c]]
  BY AConnection DEF Conns
<1>3. PICK f : (f = conn \/ f = Push(conn, c, Refused)) /\ Break(c, f)
  OBVIOUS
<1>4. PICK k \in Connection : f = [conn EXCEPT ![c] = k] /\ k.dev = conn[c].dev
  BY <1>1, <1>2, <1>3, PushStep
<1> DEFINE m == [k EXCEPT !.srv = "closed", !.up = <<>>, !.out = <<>>]
<1>5. m \in Connection /\ m.dev = k.dev /\ m.srv = "closed"
  BY EmptySeqs, Zenon DEF Connection
<1>6. conn' = [conn EXCEPT ![c] = m] /\ hubs' = Evict(c)
  <2>1. c \in DOMAIN conn
    BY DEF Conns
  <2> QED
    BY <1>3, <1>4, <2>1, Zenon DEF Break
<1>7. CarriesKey(m)
  BY <1>5, Zenon DEF CarriesKey, Registering
<1> HIDE DEF m
<1> QED
  BY <1>4, <1>5, <1>6, <1>7, Zenon

\* What the relay's task for a connection does before and after registering.
LEMMA SocketKeeps ==
  ASSUME RelayInv, NEW c \in Conns,
         SocketEnds(c) \/ ReadRegister(c) \/ ReadResponse(c) \/ WriteOut(c) \/ Cut(c)
  PROVE  RelayInv'
<1>1. UNCHANGED <<now, file, cli, boundKey, lastReg, refusedKey>>
  BY Zenon DEF SocketEnds, ReadRegister, ReadResponse, WriteOut, Cut, regVars
<1>2. /\ conn \in Seq(Connection) /\ conn[c] \in Connection /\ CarriesKey(conn[c])
  BY AConnection, Zenon DEF RelayInv, Types, ConnsOK
<1>3. CASE Break(c, conn) \/ Break(c, Push(conn, c, Refused))
  <2>1. PICK k \in Connection :
           /\ conn' = [conn EXCEPT ![c] = k] /\ hubs' = Evict(c)
           /\ k.dev = conn[c].dev /\ k.srv = "closed" /\ CarriesKey(k)
    BY <1>2, <1>3, BreakStep, Zenon
  <2> QED
    BY <1>1, <2>1, RelayStep, Zenon DEF Registering
<1>4. CASE /\ conn' = [conn EXCEPT ![c].srv = "checked"] /\ UNCHANGED hubs
           /\ conn[c].srv = "new" /\ conn[c].up # <<>>
  <2>1. PICK k : k = [conn[c] EXCEPT !.srv = "checked"]
    BY Zenon
  <2>2. /\ k \in Connection /\ k.dev = conn[c].dev /\ k.srv = "checked"
        /\ k.up = conn[c].up /\ k.down = conn[c].down /\ conn' = [conn EXCEPT ![c] = k]
    BY <1>2, <1>4, <2>1, Zenon DEF Connection
  <2>3. CarriesKey(k)
    BY <1>2, <1>4, <2>2 DEF CarriesKey, Registering
  <2> QED
    BY <1>1, <1>4, <2>2, <2>3, RelayStep, Zenon DEF Registering
<1>5. CASE ReadResponse(c)
  <2>1. conn[c].srv = "registered" /\ conn[c].up # <<>> /\ UNCHANGED hubs
    BY <1>5, Zenon DEF ReadResponse
  <2>2. PICK k : k = [conn[c] EXCEPT !.up = Tail(conn[c].up)]
    BY Zenon
  <2>3. Tail(conn[c].up) \in Seq(UpFrame)
    BY <1>2, <2>1, Fields
  <2>4. k \in Connection /\ k.dev = conn[c].dev /\ k.srv = conn[c].srv
    BY Zenon, <1>2, <2>2, <2>3, Fields
  <2>5. conn' = [conn EXCEPT ![c] = k]
    BY <1>5, <2>2, Zenon DEF ReadResponse, Shift
  <2>6. CarriesKey(k)
    BY <2>1, <2>4, Zenon DEF CarriesKey, Registering
  <2> QED
    BY <1>1, <2>1, <2>4, <2>5, <2>6, RelayStep, Zenon
<1>6. CASE WriteOut(c)
  <2>1. conn[c].srv = "registered" /\ conn[c].out # <<>> /\ UNCHANGED hubs
    BY <1>6, Zenon DEF WriteOut
  <2>2. /\ Tail(conn[c].out) \in Seq(Requests) /\ Head(conn[c].out) \in Requests
        /\ conn[c].down \in Seq(DownFrame)
    BY <1>2, <2>1, Fields
  <2>3. PICK r \in Requests : r = Head(conn[c].out)
    BY <2>2, Zenon
  <2>4. PICK k : k = [conn[c] EXCEPT !.out = Tail(conn[c].out)]
    BY Zenon
  <2>5. k \in Connection /\ k.dev = conn[c].dev /\ k.srv = conn[c].srv /\ k.down = conn[c].down
    BY ZenonT(40), <1>2, <2>2, <2>4, Fields
  <2>6. [type |-> "request", id |-> r] \in DownFrame
    BY Zenon DEF DownFrame
  <2>7. Append(k.down, [type |-> "request", id |-> r]) \in Seq(DownFrame)
    BY <2>2, <2>5, <2>6
  <2>8. PICK m : m = [k EXCEPT !.down = Append(k.down, [type |-> "request", id |-> r])]
    BY Zenon
  <2>9. m \in Connection /\ m.dev = conn[c].dev /\ m.srv = conn[c].srv
    BY Zenon, <2>5, <2>7, <2>8, Fields
  <2>10. conn' = [conn EXCEPT ![c] = k] \/ conn' = [conn EXCEPT ![c] = m]
    <3>1. conn' = Push([conn EXCEPT ![c] = k], c, [type |-> "request", id |-> r])
      BY <1>6, <2>3, <2>4, Zenon DEF WriteOut
    <3>2. [conn EXCEPT ![c] = k][c] = k
      BY <1>2 DEF Conns
    <3>3. [[conn EXCEPT ![c] = k] EXCEPT ![c] = m] = [conn EXCEPT ![c] = m]
      BY <1>2, Zenon DEF Conns
    <3> QED
      BY <3>1, <3>2, <3>3, <2>8, Zenon DEF Push
  <2>11. CarriesKey(k) /\ CarriesKey(m)
    BY <2>1, <2>5, <2>9, Zenon DEF CarriesKey, Registering
  <2> QED
    BY <1>1, <2>1, <2>5, <2>9, <2>10, <2>11, RelayStep, Zenon
<1>7. CASE Cut(c)
  <2>1. PICK k : k = [conn[c] EXCEPT !.cut = TRUE, !.down = <<>>]
    OBVIOUS
  <2>2. /\ k \in Connection /\ k.dev = conn[c].dev /\ k.srv = conn[c].srv
        /\ k.up = conn[c].up /\ k.down = <<>>
    BY <1>2, <2>1, EmptySeqs, Zenon DEF Connection
  <2>3. conn' = [conn EXCEPT ![c] = k] /\ UNCHANGED hubs
    BY <1>7, <2>1, Zenon DEF Cut
  <2>4. CarriesKey(k)
    BY <1>2, <2>2 DEF CarriesKey
  <2> QED
    BY <1>1, <2>2, <2>3, <2>4, RelayStep, Zenon
<1> QED
  BY <1>3, <1>4, <1>5, <1>6, <1>7, Zenon DEF SocketEnds, ReadRegister

\* A registration is judged by a frame that carries the key of the file: it
\* is never refused because of the key, and what it binds is that key.
LEMMA AcceptKeeps ==
  ASSUME RelayInv, NEW c \in Conns, Accept(c)
  PROVE  RelayInv'
<1> DEFINE d == conn[c].dev
           frame == Head(conn[c].up)
           good == verify_register(frame) /\ Fresh(d, frame) /\ OwnKey(d, frame)
<1>1. /\ UNCHANGED <<now, file, cli>> /\ conn[c].srv = "checked"
      /\ accept_registration(d, frame)
  BY Zenon DEF Accept
<1>2. /\ Types /\ ConnsOK /\ ClientsOK /\ KeysOK /\ ServedOK /\ refusedKey = {}
      /\ conn \in Seq(Connection) /\ conn[c] \in Connection /\ CarriesKey(conn[c])
      /\ d \in Devices /\ conn[c].up \in Seq(UpFrame) /\ c # 0
  BY AConnection, Fields DEF RelayInv, Types, ConnsOK, NeverLockedOut, Conns
<1>3. conn[c].up # <<>>
  BY <1>1, <1>2, Zenon DEF CarriesKey, Registering
<1>4. RelayInv'
  <2>1. 1 \in 1..Len(conn[c].up) /\ frame = conn[c].up[1]
    BY <1>2, <1>3
  <2>2. file[d].st = "saved" /\ frame.key = file[d].key
    BY <1>1, <1>2, <2>1, Zenon DEF CarriesKey, Registering
  <2>3. OwnKey(d, frame)
    BY <1>2, <2>2, Zenon DEF OwnKey, KeysOK
  <2>4. refusedKey' = refusedKey
    BY <1>1, <2>3, Zenon DEF accept_registration
  <2>5. CASE ~good
    <3>1. Break(c, Push(conn, c, Refused)) /\ UNCHANGED <<boundKey, lastReg>>
      BY <2>5, Zenon DEF Accept
    <3>2. PICK k \in Connection :
             /\ conn' = [conn EXCEPT ![c] = k] /\ hubs' = Evict(c)
             /\ k.dev = conn[c].dev /\ k.srv = "closed" /\ CarriesKey(k)
      BY <1>2, <3>1, BreakStep, Zenon
    <3> QED
      BY <1>1, <2>4, <3>1, <3>2, RelayStep, Zenon DEF Registering
  <2>6. CASE good
    <3>1. /\ boundKey' = [boundKey EXCEPT ![d] = frame.key]
          /\ hubs' = [hubs EXCEPT ![d] = c] /\ lastReg' = [lastReg EXCEPT ![d] = c]
          /\ conn' = [Push(Shift(c), c, [type |-> "registered", ok |-> TRUE])
                        EXCEPT ![c].srv = "registered"]
      BY <2>6, Zenon DEF Accept
    <3>2. PICK k \in Connection :
             conn' = [conn EXCEPT ![c] = k] /\ k.dev = d /\ k.srv = "registered"
      <4>1. Tail(conn[c].up) \in Seq(UpFrame)
        BY <1>2, <1>3
      <4>2. PICK k : k = [conn[c] EXCEPT !.up = Tail(conn[c].up)]
        BY Zenon
      <4>3. k \in Connection /\ k.dev = d /\ k.down = conn[c].down /\ k.down \in Seq(DownFrame)
        BY Zenon, <1>2, <4>1, <4>2, Fields
      <4>4. PICK fr \in DownFrame : fr = [type |-> "registered", ok |-> TRUE]
        BY Zenon DEF DownFrame
      <4>5. Append(k.down, fr) \in Seq(DownFrame)
        BY <4>3, <4>4
      <4>6. PICK m : m = [k EXCEPT !.down = Append(k.down, fr)]
        BY Zenon
      <4>7. m \in Connection /\ m.dev = d
        BY Zenon, <4>3, <4>5, <4>6, Fields
      <4>8. c \in DOMAIN conn
        BY <1>2 DEF Conns
      <4>9. PICK n \in {k, m} : Push(Shift(c), c, fr) = [conn EXCEPT ![c] = n]
        <5>1. Shift(c) = [conn EXCEPT ![c] = k] /\ Shift(c)[c] = k
          BY <4>2, <4>8, Zenon DEF Shift
        <5>2. [[conn EXCEPT ![c] = k] EXCEPT ![c] = m] = [conn EXCEPT ![c] = m]
          BY <4>8, Zenon
        <5>3. \/ Push(Shift(c), c, fr) = Shift(c)
              \/ Push(Shift(c), c, fr) = [Shift(c) EXCEPT ![c] = m]
          BY <5>1, <4>6, Zenon DEF Push
        <5> QED
          BY <5>1, <5>2, <5>3, Zenon
      <4>10. PICK q : q = [n EXCEPT !.srv = "registered"]
        BY Zenon
      <4>11. q \in Connection /\ q.dev = d /\ q.srv = "registered"
        BY <4>3, <4>7, <4>10, Zenon DEF Connection
      <4>12. conn' = [conn EXCEPT ![c] = q]
        BY <3>1, <4>4, <4>8, <4>9, <4>10, Zenon
      <4> QED
        BY <4>11, <4>12, Zenon
    <3>3. CarriesKey(k)
      BY <3>2, Zenon DEF CarriesKey, Registering
    <3>4. /\ conn' \in Seq(Connection) /\ Conns' = Conns
          /\ conn'[c] = k /\ \A b \in Conns \ {c} : conn'[b] = conn[b]
          /\ \A b \in Conns : conn'[b].dev = conn[b].dev
          /\ ConnsOK'
      BY <1>1, <1>2, <3>2, <3>3, ConnStep, Zenon
    <3>5. PICK e \in Devices, key \in Nat : e = d /\ key = frame.key
      BY <1>2, <2>2, Zenon DEF Types, File
    <3> HIDE DEF d, frame, good
    <3>6. /\ boundKey' = [boundKey EXCEPT ![e] = key] /\ hubs' = [hubs EXCEPT ![e] = c]
          /\ lastReg' = [lastReg EXCEPT ![e] = c]
          /\ file[e].st = "saved" /\ key = file[e].key /\ conn'[c].dev = e
      BY <2>2, <3>1, <3>2, <3>4, <3>5, Zenon
    <3>7. c \in Nat
      BY DEF Conns
    <3>8. Types'
      BY <1>1, <1>2, <3>4, <3>5, <3>6, <3>7, Zenon DEF Types
    <3>9. ClientsOK'
      BY <1>1, <1>2, <3>2, <3>4, ClientsKept, Zenon DEF Registering
    <3>10. KeysOK'
      BY <1>1, <1>2, <3>5, <3>6, Zenon DEF Types, KeysOK
    <3>11. ServedOK'
      <4>1. hubs'[e] = c /\ lastReg'[e] = c /\ conn'[c].srv = "registered"
        BY <1>2, <3>2, <3>4, <3>6, Zenon DEF Types
      <4>2. ASSUME NEW x \in Devices \ {e}
            PROVE  /\ hubs'[x] = hubs[x] /\ lastReg'[x] = lastReg[x]
                   /\ lastReg[x] # 0 => conn'[lastReg[x]] = conn[lastReg[x]]
        <5>1. hubs'[x] = hubs[x] /\ lastReg'[x] = lastReg[x]
          BY <1>2, <3>6, Zenon DEF Types
        <5>2. lastReg[x] # 0 => lastReg[x] \in Conns /\ conn[lastReg[x]].dev = x
          BY <1>2, Zenon DEF ServedOK
        <5>3. conn[c].dev = e
          BY <3>4, <3>6, Zenon
        <5> QED
          BY <3>4, <5>1, <5>2, <5>3, Zenon
      <4>3. LastRegisteredServed'
        <5>1. ASSUME NEW x \in Devices \ {e}
              PROVE  /\ hubs'[x] # 0 => hubs'[x] = lastReg'[x]
                     /\ lastReg'[x] # 0 =>
                          ((hubs'[x] # 0) <=> (conn'[lastReg'[x]].srv = "registered"))
          <6>1. /\ hubs[x] # 0 => hubs[x] = lastReg[x]
                /\ lastReg[x] # 0 => ((hubs[x] # 0) <=> (conn[lastReg[x]].srv = "registered"))
            BY <1>2, Zenon DEF ServedOK, LastRegisteredServed
          <6> QED
            BY <4>2, <6>1, Zenon
        <5> QED
          BY <1>2, <4>1, <5>1, Zenon DEF LastRegisteredServed
      <4>4. ASSUME NEW x \in Devices, lastReg'[x] # 0
            PROVE  lastReg'[x] \in Conns' /\ conn'[lastReg'[x]].dev = x
        <5>1. CASE x = e
          BY <3>4, <3>6, <4>1, <5>1
        <5>2. CASE x # e
          <6>1. lastReg[x] # 0 => lastReg[x] \in Conns /\ conn[lastReg[x]].dev = x
            BY <1>2, Zenon DEF ServedOK
          <6> QED
            BY <3>4, <4>2, <4>4, <5>2, <6>1
        <5> QED
          BY <5>1, <5>2, Zenon
      <4> QED
        BY <4>3, <4>4, Zenon DEF ServedOK
    <3> QED
      BY <1>2, <2>4, <3>4, <3>8, <3>9, <3>10, <3>11, Zenon DEF RelayInv, NeverLockedOut
  <2> QED
    BY <2>5, <2>6, Zenon
<1> QED
  BY <1>4, Zenon

\* A request is queued: no frame moves.
LEMMA TrySendKeeps ==
  ASSUME RelayInv, NEW r \in Requests, TrySend(r)
  PROVE  RelayInv'
<1> DEFINE c == req[r].conn
<1>1. /\ UNCHANGED <<now, file, cli, hubs, boundKey, lastReg, refusedKey>>
      /\ conn' = conn \/ conn' = [conn EXCEPT ![c].out = Append(@, r)]
  BY Zenon DEF TrySend, regVars
<1>2. CASE conn' = conn
  BY <1>1, <1>2 DEF RelayInv, Types, ConnsOK, CarriesKey, ClientsOK, ClientOK, KeysOK, ServedOK,
     LastRegisteredServed, NeverLockedOut, Conns
<1>3. CASE c \in Conns /\ conn' = [conn EXCEPT ![c].out = Append(@, r)]
  <2>1. PICK b \in Conns : b = c
    BY <1>3, Zenon
  <2>2. conn[b] \in Connection /\ conn[b].out \in Seq(Requests) /\ CarriesKey(conn[b])
    BY AConnection, Fields, Zenon DEF RelayInv, Types, ConnsOK
  <2>3. PICK k : k = [conn[b] EXCEPT !.out = Append(conn[b].out, r)]
    BY ZenonT(40)
  <2>4. Append(conn[b].out, r) \in Seq(Requests)
    BY <2>2
  <2>5. /\ k \in Connection /\ k.dev = conn[b].dev /\ k.srv = conn[b].srv
        /\ k.up = conn[b].up /\ k.down = conn[b].down
    BY ZenonT(40), <2>2, <2>3, <2>4, Fields
  <2>6. CarriesKey(k) /\ conn' = [conn EXCEPT ![b] = k]
    BY Zenon, <1>3, <2>1, <2>2, <2>3, <2>5 DEF CarriesKey
  <2> QED
    BY <1>1, <2>5, <2>6, RelayStep, Zenon
<1>4. CASE c \notin Conns /\ conn' = [conn EXCEPT ![c].out = Append(@, r)]
  <2>1. conn' = conn
    BY <1>4 DEF RelayInv, Types, Conns
  <2> QED
    BY <1>2, <2>1, Zenon
<1> QED
  BY <1>1, <1>2, <1>3, <1>4, Zenon

\* The relay starts again: every connection is closed and the map is empty.
LEMMA RestartKeeps ==
  ASSUME RelayInv, RelayRestarts
  PROVE  RelayInv'
<1> DEFINE closed(b) == [conn[b] EXCEPT !.srv = "closed", !.up = <<>>, !.out = <<>>]
<1>1. /\ conn' = [c \in Conns |-> closed(c)]
      /\ hubs' = [d \in Devices |-> 0] /\ boundKey' = [d \in Devices |-> 0]
      /\ UNCHANGED <<now, file, cli, lastReg, refusedKey>>
  BY Zenon DEF RelayRestarts
<1>2. Types /\ conn \in Seq(Connection)
  BY Zenon DEF RelayInv, Types
<1>3. \A b \in Conns : closed(b) \in Connection /\ closed(b).dev = conn[b].dev
                       /\ closed(b).srv = "closed"
  <2> SUFFICES ASSUME NEW b \in Conns
               PROVE  closed(b) \in Connection /\ closed(b).dev = conn[b].dev
                      /\ closed(b).srv = "closed"
    BY Zenon
  <2>1. conn[b] \in Connection
    BY <1>2, AConnection, Zenon
  <2> QED
    BY <2>1, EmptySeqs, Zenon DEF Connection
<1> HIDE DEF closed
<1>4. /\ conn' \in Seq(Connection) /\ Conns' = Conns
      /\ \A b \in Conns : conn'[b].dev = conn[b].dev /\ conn'[b].srv = "closed"
  <2>1. Len(conn) \in Nat /\ conn' \in [1..Len(conn) -> Connection]
    BY <1>1, <1>2, <1>3 DEF Conns
  <2>2. conn' \in Seq(Connection) /\ Len(conn') = Len(conn)
    BY <2>1
  <2> QED
    BY <1>1, <1>3, <2>2, Zenon DEF Conns
<1>5. Types' /\ KeysOK' /\ NeverLockedOut'
  BY <1>1, <1>2, <1>4, Zenon DEF RelayInv, Types, KeysOK, NeverLockedOut
<1>6. ConnsOK'
  BY <1>4, Zenon DEF ConnsOK, CarriesKey, Registering
<1>7. ClientsOK'
  BY <1>1, <1>4, ClientsKept, Zenon DEF RelayInv, Registering
<1>8. ServedOK'
  BY SMTT(40), <1>1, <1>4 DEF RelayInv, ServedOK, LastRegisteredServed
<1> QED
  BY <1>5, <1>6, <1>7, <1>8, Zenon DEF RelayInv

\* The clock, the limiter's window and the phones leave all of this alone.
LEMMA OthersKeep ==
  ASSUME RelayInv, UNCHANGED <<file, cli, conn, hubs, boundKey, lastReg, refusedKey>>,
         now' \in Nat
  PROVE  RelayInv'
  BY Zenon DEF RelayInv, Types, ConnsOK, CarriesKey, ClientsOK, ClientOK, KeysOK, ServedOK,
     LastRegisteredServed, NeverLockedOut, Conns

\* The invariant holds in every reachable state.
THEOREM RelayInvariance == Spec => []RelayInv
<1>1. RelayInv /\ [Next]_vars => RelayInv'
  <2> SUFFICES ASSUME RelayInv, [Next]_vars PROVE RelayInv'
    OBVIOUS
  <2>1. now \in Nat
    BY Zenon DEF RelayInv, Types
  <2>2. CASE Tick
    BY <2>1, <2>2, OthersKeep DEF Tick, netVars, regVars
  <2>3. CASE NewWindow \/ UNCHANGED vars
    BY <2>1, <2>3, OthersKeep, Zenon DEF NewWindow, vars, netVars, regVars
  <2>4. ASSUME NEW r \in Requests, Abandon(r) \/ \E d \in Devices : PairRequest(r, d)
        PROVE  RelayInv'
    BY <2>1, <2>4, OthersKeep, Zenon DEF Abandon, PairRequest, regVars
  <2> QED
    BY <2>2, <2>3, <2>4, ProcessKeeps, ConnectKeeps, SessionKeeps, SocketKeeps, AcceptKeeps,
       TrySendKeeps, RestartKeeps, Zenon DEF Next
<1> QED
  BY RelayInit, <1>1, PTL DEF Spec

\* The map of Hubs names the connection that registered last, as long as it is
\* open, and no other (handle_hub_socket).
THEOREM NewestServed == Spec => []LastRegisteredServed
<1>1. RelayInv => LastRegisteredServed
  BY Zenon DEF RelayInv, ServedOK
<1> QED
  BY RelayInvariance, <1>1, PTL

\* No Hub is refused because of its key, however its starts failed before
\* (load_or_create, accept_registration).
THEOREM KeyNeverRefused == Spec => []NeverLockedOut
<1>1. RelayInv => NeverLockedOut
  BY Zenon DEF RelayInv
<1> QED
  BY RelayInvariance, <1>1, PTL

-----------------------------------------------------------------------------
(* Requests.  A request that waits may be in four places, and a step moves *)
(* it from one to the next or takes the connection out of work.  That the  *)
(* head of what a registered connection sends up is an answer, and not a   *)
(* second Register, follows from the client sending one per connection,    *)
(* before anything else; that no old request can wait on a connection that *)
(* registers only now follows from the map naming none that has not.       *)

Request ==
  [st : {"idle", "found", "wait", "done"}, dev : Devices \cup {"none"}, conn : Nat,
   answer : {"none", "429", "503", "504", "hub", "403"}, from : Requests \cup {"none"}]

Counters == now \in 0..MaxTime /\ faults \in 0..MaxFaults /\ pairCount \in 0..PairMax

\* What connection k carries: one Register until it is registered, and after
\* that answers only.
Carries(k) ==
  /\ Len(k.out) <= OutCap
  /\ k.up \in Seq(RelayMessage) /\ k.down \in Seq(RelayMessage)
  /\ k.srv \in Registering => Len(k.up) <= 1
  /\ k.srv = "registered" => \A f \in Range(k.up) : f.type = "response"

Carriage == Len(conn) <= MaxConns /\ \A c \in Conns : Carries(conn[c])

\* A client holds a request exactly while it is busy with it, and has sent
\* nothing while it opens its connection.
HoldsRequest(d) ==
  /\ cli[d].conn <= Len(conn)
  /\ IF cli[d].st = "busy" THEN cli[d].req \in Requests ELSE cli[d].req = "none"
  /\ cli[d].st = "opening" =>
       conn[cli[d].conn].up = <<>> /\ conn[cli[d].conn].srv \in {"new", "closed"}

Holding == \A d \in Devices : HoldsRequest(d)

\* A request is directed to a connection that has registered.
Directed ==
  \A r \in Requests : req[r].st \in {"found", "wait"} =>
    req[r].conn \in Conns /\ conn[req[r].conn].srv \notin Registering

Asked(r, s) == \E f \in Range(s) : f.type = "request" /\ f.id = r
Replied(r, s) == \E f \in Range(s) : f.type = "response" /\ f.id = r

Works(c) == Attached(c) /\ ~conn[c].cut /\ conn[c].srv = "registered"

OnItsWay(r, c) == \/ r \in Range(conn[c].out)
                  \/ Asked(r, conn[c].down)
                  \/ cli[conn[c].dev].req = r
                  \/ Replied(r, conn[c].up)

Moving == \A r \in pending : Works(req[r].conn) => OnItsWay(r, req[r].conn)

Forwarding ==
  /\ Carriage /\ Holding
  /\ req \in [Requests -> Request] /\ PendingExact /\ OwnAnswer /\ Directed /\ Moving

RequestInv == Counters /\ Forwarding

\* What a sequence holds after something is put at its end.
LEMMA RangeAppend ==
  ASSUME NEW S, NEW s \in Seq(S), NEW e \in S
  PROVE  Range(Append(s, e)) = Range(s) \cup {e}
<1>1. PICK t, n : t = Append(s, e) /\ n = Len(s)
  BY Zenon
<1>2. /\ n \in Nat /\ DOMAIN s = 1..n /\ DOMAIN t = 1..(n + 1)
      /\ t[n + 1] = e /\ \A i \in 1..n : t[i] = s[i]
  BY <1>1
<1>3. ASSUME NEW x \in Range(t) PROVE x \in Range(s) \cup {e}
  <2>1. PICK i \in 1..(n + 1) : x = t[i]
    BY <1>2, Zenon DEF Range
  <2>2. i \in 1..n \/ i = n + 1
    BY <1>2
  <2> QED
    BY <1>2, <2>1, <2>2, Zenon DEF Range
<1>4. ASSUME NEW x \in Range(s) \cup {e} PROVE x \in Range(t)
  <2>1. n + 1 \in 1..(n + 1) /\ \A i \in 1..n : i \in 1..(n + 1)
    BY <1>2
  <2> QED
    BY <1>2, <2>1, Zenon DEF Range
<1> QED
  BY <1>1, <1>3, <1>4, Zenon

\* A sequence holds its head and what its tail holds.
LEMMA RangeTail ==
  ASSUME NEW S, NEW s \in Seq(S), s # <<>>
  PROVE  Range(s) = {Head(s)} \cup Range(Tail(s))
<1>1. Len(s) \in Nat /\ Len(s) > 0 /\ Head(s) = s[1] /\ DOMAIN s = 1..Len(s)
  OBVIOUS
<1>2. /\ DOMAIN Tail(s) = 1..(Len(s) - 1)
      /\ \A i \in 1..(Len(s) - 1) : Tail(s)[i] = s[i + 1]
  BY <1>1
<1>3. ASSUME NEW x \in Range(s) PROVE x \in {Head(s)} \cup Range(Tail(s))
  <2>1. PICK i \in 1..Len(s) : x = s[i]
    BY <1>1, Zenon DEF Range
  <2>2. CASE i = 1
    BY <1>1, <2>1, <2>2, Zenon
  <2>3. CASE i # 1
    <3>1. i - 1 \in 1..(Len(s) - 1) /\ Tail(s)[i - 1] = s[i]
      BY <1>1, <1>2, <2>3
    <3> QED
      BY <1>2, <2>1, <3>1, Zenon DEF Range
  <2> QED
    BY <2>2, <2>3, Zenon
<1>4. ASSUME NEW x \in {Head(s)} \cup Range(Tail(s)) PROVE x \in Range(s)
  <2>1. CASE x = Head(s)
    BY <1>1, <2>1 DEF Range
  <2>2. CASE x \in Range(Tail(s))
    <3>1. PICK i \in 1..(Len(s) - 1) : x = Tail(s)[i]
      BY <1>2, <2>2, Zenon DEF Range
    <3>2. i + 1 \in 1..Len(s) /\ x = s[i + 1]
      BY <1>1, <1>2, <3>1
    <3> QED
      BY <1>1, <3>2, Zenon DEF Range
  <2> QED
    BY <2>1, <2>2, Zenon
<1> QED
  BY <1>3, <1>4, Zenon

\* Nothing is in the empty sequence.
LEMMA RangeEmpty == Range(<<>>) = {} /\ <<>> \in Seq(RelayMessage) /\ Len(<<>>) = 0
  BY DEF Range

\* Nothing is left of a single frame that was read.
LEMMA TailOfOne ==
  ASSUME NEW S, NEW s \in Seq(S), s # <<>>, Len(s) <= 1
  PROVE  Tail(s) = <<>>
<1>1. PICK t, n : t = Tail(s) /\ n = Len(s)
  BY Zenon
<1>2. n \in Nat /\ n > 0 /\ t \in Seq(S) /\ Len(t) = n - 1
  BY <1>1
<1>3. Len(t) = 0
  BY <1>1, <1>2
<1> QED
  BY <1>1, <1>2, <1>3

-----------------------------------------------------------------------------
(* How each step changes the connection it is about *)

\* All but connection c stay as they are, and c stays with its device.
OnlyConn(c) ==
  /\ Conns' = Conns /\ Len(conn') = Len(conn)
  /\ \A b \in Conns \ {c} : conn'[b] = conn[b]
  /\ conn'[c].dev = conn[c].dev

\* The fields of connection c after the step.
Becomes(c, srv, up, down, out, cut) ==
  /\ OnlyConn(c)
  /\ conn'[c].srv = srv /\ conn'[c].up = up /\ conn'[c].down = down /\ conn'[c].out = out
  /\ conn'[c].cut = cut

\* A step that replaces connection c by one of the same device.
LEMMA Replaced ==
  ASSUME conn \in Seq(Connection), NEW c \in Conns, NEW k, k.dev = conn[c].dev,
         conn' = [conn EXCEPT ![c] = k]
  PROVE  OnlyConn(c) /\ conn'[c] = k
<1>1. Len(conn) \in Nat /\ Conns = 1..Len(conn) /\ DOMAIN conn = 1..Len(conn)
  BY DEF Conns
<1>2. conn'[c] = k /\ \A b \in Conns \ {c} : conn'[b] = conn[b]
  BY <1>1, Zenon
<1>3. DOMAIN conn' = 1..Len(conn)
  BY <1>1, Zenon
<1>4. Len(conn') = Len(conn)
  BY <1>1, <1>3
<1>5. Conns' = Conns
  BY <1>4, Zenon DEF Conns
<1> QED
  BY <1>2, <1>4, <1>5, Zenon DEF OnlyConn

\* The client sends a frame.
LEMMA SendShape ==
  ASSUME conn \in Seq(Connection), NEW c \in Conns, NEW f, conn' = SendUp(c, f)
  PROVE  LET k == conn[c] IN
         Becomes(c, k.srv, IF k.cut THEN k.up ELSE Append(k.up, f), k.down, k.out, k.cut)
<1>1. conn[c] \in Connection
  BY AConnection, Zenon
<1>2. CASE conn[c].cut
  BY <1>2, Zenon DEF SendUp, Becomes, OnlyConn, Conns
<1>3. CASE ~conn[c].cut
  <2>1. PICK k : k = [conn[c] EXCEPT !.up = Append(conn[c].up, f)]
    BY Zenon
  <2>2. /\ k.dev = conn[c].dev /\ k.srv = conn[c].srv /\ k.up = Append(conn[c].up, f)
        /\ k.down = conn[c].down /\ k.out = conn[c].out /\ k.cut = conn[c].cut
    BY <1>1, <2>1, Zenon DEF Connection
  <2>3. conn' = [conn EXCEPT ![c] = k]
    BY <1>3, <2>1 DEF SendUp
  <2>4. OnlyConn(c) /\ conn'[c] = k
    BY <2>2, <2>3, Replaced, Zenon
  <2> QED
    BY <1>3, <2>2, <2>4, Zenon DEF Becomes
<1> QED
  BY <1>2, <1>3, Zenon

\* The client reads a frame.
LEMMA ReadShape ==
  ASSUME conn \in Seq(Connection), NEW c \in Conns, conn' = ReadFrame(c)
  PROVE  LET k == conn[c] IN Becomes(c, k.srv, k.up, Tail(k.down), k.out, k.cut)
<1>1. conn[c] \in Connection
  BY AConnection, Zenon
<1>2. PICK k : k = [conn[c] EXCEPT !.down = Tail(conn[c].down)]
  BY Zenon
<1>3. /\ k.dev = conn[c].dev /\ k.srv = conn[c].srv /\ k.up = conn[c].up
      /\ k.down = Tail(conn[c].down) /\ k.out = conn[c].out /\ k.cut = conn[c].cut
  BY <1>1, <1>2, Zenon DEF Connection
<1>4. conn' = [conn EXCEPT ![c] = k]
  BY <1>2, Zenon DEF ReadFrame
<1>5. OnlyConn(c) /\ conn'[c] = k
  BY <1>3, <1>4, Replaced, Zenon
<1> QED
  BY <1>3, <1>5, Zenon DEF Becomes

\* The relay reads an answer.
LEMMA ShiftShape ==
  ASSUME conn \in Seq(Connection), NEW c \in Conns, conn' = Shift(c)
  PROVE  LET k == conn[c] IN Becomes(c, k.srv, Tail(k.up), k.down, k.out, k.cut)
<1>1. conn[c] \in Connection
  BY AConnection, Zenon
<1>2. PICK k : k = [conn[c] EXCEPT !.up = Tail(conn[c].up)]
  BY Zenon
<1>3. /\ k.dev = conn[c].dev /\ k.srv = conn[c].srv /\ k.up = Tail(conn[c].up)
      /\ k.down = conn[c].down /\ k.out = conn[c].out /\ k.cut = conn[c].cut
  BY <1>1, <1>2, Zenon DEF Connection
<1>4. conn' = [conn EXCEPT ![c] = k]
  BY <1>2, Zenon DEF Shift
<1>5. OnlyConn(c) /\ conn'[c] = k
  BY <1>3, <1>4, Replaced, Zenon
<1> QED
  BY <1>3, <1>5, Zenon DEF Becomes

\* A request is put into the queue of its Hub.
LEMMA QueueShape ==
  ASSUME conn \in Seq(Connection), NEW c \in Conns, NEW r,
         conn' = [conn EXCEPT ![c].out = Append(@, r)]
  PROVE  LET k == conn[c] IN Becomes(c, k.srv, k.up, k.down, Append(k.out, r), k.cut)
<1>1. conn[c] \in Connection
  BY AConnection, Zenon
<1>2. PICK k : k = [conn[c] EXCEPT !.out = Append(conn[c].out, r)]
  BY Zenon
<1>3. /\ k.dev = conn[c].dev /\ k.srv = conn[c].srv /\ k.up = conn[c].up
      /\ k.down = conn[c].down /\ k.out = Append(conn[c].out, r) /\ k.cut = conn[c].cut
  BY <1>1, <1>2, Zenon DEF Connection
<1>4. conn' = [conn EXCEPT ![c] = k]
  BY <1>2, Zenon
<1>5. OnlyConn(c) /\ conn'[c] = k
  BY <1>3, <1>4, Replaced, Zenon
<1> QED
  BY <1>3, <1>5, Zenon DEF Becomes

\* The network cuts the connection.
LEMMA CutShape ==
  ASSUME conn \in Seq(Connection), NEW c \in Conns, Cut(c)
  PROVE  LET k == conn[c] IN Becomes(c, k.srv, k.up, <<>>, k.out, TRUE)
<1>1. conn[c] \in Connection
  BY AConnection, Zenon
<1>2. PICK k : k = [conn[c] EXCEPT !.cut = TRUE, !.down = <<>>]
  OBVIOUS
<1>3. /\ k.dev = conn[c].dev /\ k.srv = conn[c].srv /\ k.up = conn[c].up
      /\ k.down = <<>> /\ k.out = conn[c].out
  BY <1>1, <1>2, Zenon DEF Connection
<1>4. k.cut = TRUE
  BY <1>1, <1>2, Zenon DEF Connection
<1>5. conn' = [conn EXCEPT ![c] = k]
  BY <1>2, Zenon DEF Cut
<1>6. OnlyConn(c) /\ conn'[c] = k
  BY <1>3, <1>5, Replaced, Zenon
<1> QED
  BY <1>3, <1>4, <1>6, Zenon DEF Becomes

\* The relay has looked at a Register frame, which it has still to verify.
LEMMA CheckedShape ==
  ASSUME conn \in Seq(Connection), NEW c \in Conns, conn' = [conn EXCEPT ![c].srv = "checked"]
  PROVE  LET k == conn[c] IN Becomes(c, "checked", k.up, k.down, k.out, k.cut)
<1>1. conn[c] \in Connection
  BY AConnection, Zenon
<1>2. PICK k : k = [conn[c] EXCEPT !.srv = "checked"]
  BY Zenon
<1>3. /\ k.dev = conn[c].dev /\ k.srv = "checked" /\ k.up = conn[c].up
      /\ k.down = conn[c].down /\ k.out = conn[c].out /\ k.cut = conn[c].cut
  BY <1>1, <1>2, Zenon DEF Connection
<1>4. conn' = [conn EXCEPT ![c] = k]
  BY <1>2, Zenon
<1>5. OnlyConn(c) /\ conn'[c] = k
  BY <1>3, <1>4, Replaced, Zenon
<1> QED
  BY <1>3, <1>5, Zenon DEF Becomes

\* What the other end has to read after fr is pushed down connection c.
Pushed(c, fr) == IF conn[c].cut \/ ~Attached(c) THEN conn[c].down ELSE Append(conn[c].down, fr)

\* fr pushed down connection c, once it is k, leaves all else as it is.
PushesTo(cs, c, k, fr) ==
  \E m \in Connection :
    /\ Push(cs, c, fr) = [conn EXCEPT ![c] = m]
    /\ m.dev = k.dev /\ m.srv = k.srv /\ m.up = k.up /\ m.out = k.out /\ m.cut = k.cut
    /\ m.down = Pushed(c, fr)

\* A frame pushed down connection c, after it has been replaced by k.
LEMMA PushShape ==
  ASSUME conn \in Seq(Connection), NEW c \in Conns, NEW k \in Connection, k.down = conn[c].down,
         NEW fr \in DownFrame, NEW cs, cs = [conn EXCEPT ![c] = k]
  PROVE  PushesTo(cs, c, k, fr)
<1>1. c \in DOMAIN conn /\ k.down \in Seq(DownFrame)
  BY Fields DEF Conns
<1>2. CASE conn[c].cut \/ ~Attached(c)
  BY <1>2, Zenon DEF Push, Pushed, PushesTo
<1>3. CASE ~(conn[c].cut \/ ~Attached(c))
  <2>1. Append(k.down, fr) \in Seq(DownFrame) /\ Pushed(c, fr) = Append(k.down, fr)
    BY <1>1, <1>3 DEF Pushed
  <2>2. PICK m : m = [k EXCEPT !.down = Append(k.down, fr)]
    BY Zenon
  <2>3. /\ m \in Connection /\ m.dev = k.dev /\ m.srv = k.srv /\ m.up = k.up /\ m.out = k.out
        /\ m.cut = k.cut /\ m.down = Append(k.down, fr)
    BY <2>1, <2>2, Zenon DEF Connection
  <2>4. [conn EXCEPT ![c] = k][c] = k /\ [[conn EXCEPT ![c] = k] EXCEPT ![c] = m] = [conn EXCEPT ![c] = m]
    BY <1>1, Zenon
  <2>5. Push(cs, c, fr) = [conn EXCEPT ![c] = m]
    BY <1>3, <2>2, <2>4, Zenon DEF Push
  <2> QED
    BY <2>1, <2>3, <2>5, Zenon DEF PushesTo
<1> QED
  BY <1>2, <1>3, Zenon

\* A request leaves the queue for the socket.
LEMMA WriteShape ==
  ASSUME conn \in Seq(Connection), NEW c \in Conns, WriteOut(c)
  PROVE  LET k == conn[c] IN
         Becomes(c, k.srv, k.up, Pushed(c, [type |-> "request", id |-> Head(k.out)]), Tail(k.out), k.cut)
<1>1. /\ conn[c] \in Connection /\ conn[c].out # <<>>
      /\ conn' = Push([conn EXCEPT ![c].out = Tail(@)], c, [type |-> "request", id |-> Head(conn[c].out)])
  BY AConnection, Zenon DEF WriteOut
<1>2. Head(conn[c].out) \in Requests /\ Tail(conn[c].out) \in Seq(Requests)
  BY <1>1, Fields
<1>3. PICK fr \in DownFrame : fr = [type |-> "request", id |-> Head(conn[c].out)]
  BY <1>2, Zenon DEF DownFrame
<1>4. PICK k : k = [conn[c] EXCEPT !.out = Tail(conn[c].out)]
  BY Zenon
<1>5. /\ k \in Connection /\ k.dev = conn[c].dev /\ k.srv = conn[c].srv /\ k.up = conn[c].up
      /\ k.down = conn[c].down /\ k.out = Tail(conn[c].out) /\ k.cut = conn[c].cut
  BY <1>1, <1>2, <1>4, Zenon DEF Connection
<1>6. /\ conn' = Push([conn EXCEPT ![c] = k], c, fr)
      /\ PushesTo([conn EXCEPT ![c] = k], c, k, fr)
  BY <1>1, <1>3, <1>4, <1>5, PushShape, Zenon
<1>7. PICK m \in Connection :
         /\ conn' = [conn EXCEPT ![c] = m]
         /\ m.dev = k.dev /\ m.srv = k.srv /\ m.up = k.up /\ m.out = k.out /\ m.cut = k.cut
         /\ m.down = Pushed(c, fr)
  BY <1>6, Zenon DEF PushesTo
<1>8. OnlyConn(c) /\ conn'[c] = m
  BY <1>5, <1>7, Replaced, Zenon
<1> QED
  BY <1>3, <1>5, <1>7, <1>8, Zenon DEF Becomes

\* break closes the connection and drops what it carried.
LEMMA BreakShape ==
  ASSUME conn \in Seq(Connection), NEW c \in Conns,
         Break(c, conn) \/ Break(c, Push(conn, c, Refused))
  PROVE  \E down \in {conn[c].down, Pushed(c, Refused)} :
           Becomes(c, "closed", <<>>, down, <<>>, conn[c].cut)
<1>1. conn[c] \in Connection /\ conn = [conn EXCEPT ![c] = conn[c]] /\ c \in DOMAIN conn
  BY AConnection DEF Conns
<1>2. Refused \in DownFrame
  BY Zenon DEF Refused, DownFrame
<1>3. PICK k \in Connection :
         /\ Break(c, [conn EXCEPT ![c] = k])
         /\ k.dev = conn[c].dev /\ k.cut = conn[c].cut
         /\ k.down \in {conn[c].down, Pushed(c, Refused)}
  <2>1. CASE Break(c, conn)
    BY <1>1, <2>1, Zenon
  <2>2. CASE Break(c, Push(conn, c, Refused))
    <3>1. PushesTo(conn, c, conn[c], Refused)
      BY <1>1, <1>2, PushShape, Zenon
    <3>2. PICK m \in Connection :
             /\ Push(conn, c, Refused) = [conn EXCEPT ![c] = m]
             /\ m.dev = conn[c].dev /\ m.cut = conn[c].cut /\ m.down = Pushed(c, Refused)
      BY <3>1, Zenon DEF PushesTo
    <3> QED
      BY <2>2, <3>2, Zenon
  <2> QED
    BY <2>1, <2>2, Zenon
<1>4. PICK m : m = [k EXCEPT !.srv = "closed", !.up = <<>>, !.out = <<>>]
  OBVIOUS
<1>5. /\ m.dev = conn[c].dev /\ m.srv = "closed" /\ m.up = <<>> /\ m.out = <<>>
      /\ m.down = k.down /\ m.cut = conn[c].cut
  BY <1>3, <1>4, Zenon DEF Connection
<1>6. conn' = [conn EXCEPT ![c] = m]
  BY <1>1, <1>3, <1>4, ZenonT(40) DEF Break
<1>7. OnlyConn(c) /\ conn'[c] = m
  BY <1>5, <1>6, Replaced, Zenon
<1> QED
  BY <1>3, <1>5, <1>7, Zenon DEF Becomes

\* A registration that is accepted.
LEMMA AcceptShape ==
  ASSUME conn \in Seq(Connection), NEW c \in Conns, conn[c].up # <<>>,
         conn' = [Push(Shift(c), c, [type |-> "registered", ok |-> TRUE])
                    EXCEPT ![c].srv = "registered"]
  PROVE  LET k == conn[c] IN
         Becomes(c, "registered", Tail(k.up), Pushed(c, [type |-> "registered", ok |-> TRUE]), k.out, k.cut)
<1>1. conn[c] \in Connection /\ c \in DOMAIN conn
  BY AConnection DEF Conns
<1>2. PICK fr \in DownFrame : fr = [type |-> "registered", ok |-> TRUE]
  BY Zenon DEF DownFrame
<1>3. PICK k : k = [conn[c] EXCEPT !.up = Tail(conn[c].up)]
  BY Zenon
<1>4. Tail(conn[c].up) \in Seq(UpFrame)
  BY <1>1, Fields
<1>5. /\ k \in Connection /\ k.dev = conn[c].dev /\ k.srv = conn[c].srv /\ k.up = Tail(conn[c].up)
      /\ k.down = conn[c].down /\ k.out = conn[c].out /\ k.cut = conn[c].cut
  BY <1>1, <1>3, <1>4, Zenon DEF Connection
<1>6. Shift(c) = [conn EXCEPT ![c] = k] /\ PushesTo([conn EXCEPT ![c] = k], c, k, fr)
  BY <1>3, <1>5, PushShape, Zenon DEF Shift
<1>7. PICK m \in Connection :
         /\ Push(Shift(c), c, fr) = [conn EXCEPT ![c] = m]
         /\ m.dev = k.dev /\ m.srv = k.srv /\ m.up = k.up /\ m.out = k.out /\ m.cut = k.cut
         /\ m.down = Pushed(c, fr)
  BY <1>6, Zenon DEF PushesTo
<1>8. PICK n : n = [m EXCEPT !.srv = "registered"]
  BY Zenon
<1>9. /\ n.dev = conn[c].dev /\ n.srv = "registered" /\ n.up = Tail(conn[c].up)
      /\ n.down = Pushed(c, fr) /\ n.out = conn[c].out /\ n.cut = conn[c].cut
  BY <1>5, <1>7, <1>8, Zenon DEF Connection
<1>10. conn' = [conn EXCEPT ![c] = n]
  BY <1>1, <1>2, <1>7, <1>8, Zenon
<1>11. OnlyConn(c) /\ conn'[c] = n
  BY <1>9, <1>10, Replaced, ZenonT(40)
<1> QED
  BY <1>2, <1>9, <1>11, Zenon DEF Becomes

-----------------------------------------------------------------------------
(* Steps on one connection *)

\* The clock, the faults and the limiter stay within their bounds.
LEMMA CountersNext ==
  ASSUME Counters, [Next]_vars
  PROVE  Counters'
<1>1. now \in 0..MaxTime /\ faults \in 0..MaxFaults /\ pairCount \in 0..PairMax
      /\ MaxTime \in Nat /\ MaxFaults \in Nat /\ PairMax \in Nat
  BY RelayConstants, Zenon DEF Counters
<1>2. /\ now' = now \/ (now < MaxTime /\ now' = now + 1)
      /\ faults' = faults \/ (faults < MaxFaults /\ faults' = faults + 1)
      /\ pairCount' \in {pairCount, 0} \/ (~(pairCount >= PairMax) /\ pairCount' = pairCount + 1)
  <2>1. CASE Tick \/ NewWindow \/ RelayRestarts \/ UNCHANGED vars
    BY <2>1, Zenon DEF Tick, NewWindow, RelayRestarts, vars, Fault, NoFault
  <2>2. ASSUME NEW d \in Devices,
               load_or_create(d) \/ HubEnds(d) \/ Connect(d) \/ SendRegister(d)
                 \/ ClientReads(d) \/ ClientReplies(d) \/ SessionEnds(d)
        PROVE  /\ now' = now /\ pairCount' = pairCount
               /\ faults' = faults \/ (faults < MaxFaults /\ faults' = faults + 1)
    BY <2>2, Zenon DEF load_or_create, HubEnds, Connect, SendRegister, ClientReads, ClientReplies,
       SessionEnds, Fault, NoFault
  <2>3. ASSUME NEW d \in Devices, NEW r \in Requests, PairRequest(r, d)
        PROVE  /\ now' = now /\ faults' = faults
               /\ pairCount' = pairCount \/ (~(pairCount >= PairMax) /\ pairCount' = pairCount + 1)
    BY <2>3, Zenon DEF PairRequest, NoFault
  <2>4. ASSUME NEW c \in Conns, SocketEnds(c) \/ ReadRegister(c) \/ Accept(c) \/ ReadResponse(c)
                                   \/ WriteOut(c) \/ Cut(c)
        PROVE  /\ now' = now /\ pairCount' = pairCount
               /\ faults' = faults \/ (faults < MaxFaults /\ faults' = faults + 1)
    BY <2>4, Zenon DEF SocketEnds, ReadRegister, Accept, ReadResponse, WriteOut, Cut, Fault, NoFault
  <2>5. ASSUME NEW r \in Requests, TrySend(r) \/ Abandon(r)
        PROVE  now' = now /\ faults' = faults /\ pairCount' = pairCount
    BY <2>5, Zenon DEF TrySend, Abandon, NoFault
  <2> QED
    BY <2>1, <2>2, <2>3, <2>4, <2>5, Zenon DEF Next
<1> QED
  BY <1>1, <1>2 DEF Counters

\* The connections keep carrying what they may when the one that changed does.
LEMMA CarriageStep ==
  ASSUME Carriage, NEW c \in Conns, OnlyConn(c), Carries(conn'[c])
  PROVE  Carriage'
<1>1. ASSUME NEW b \in Conns PROVE Carries(conn'[b])
  BY Zenon DEF Carriage, OnlyConn
<1>2. \A b \in Conns : Carries(conn[b])'
  BY <1>1, Zenon DEF Carries
<1> QED
  BY <1>2, Zenon DEF Carriage, OnlyConn

\* The clients keep holding what they hold when the relay, the network or a
\* phone changes a connection, unless one that is being opened is disturbed.
LEMMA HoldingStep ==
  ASSUME RelayInv, Holding, NEW c \in Conns, OnlyConn(c), cli' = cli,
         conn[c].up = <<>> /\ conn[c].srv \in {"new", "closed"} =>
             conn'[c].up = <<>> /\ conn'[c].srv \in {"new", "closed"}
  PROVE  Holding'
<1> SUFFICES ASSUME NEW d \in Devices PROVE HoldsRequest(d)'
  BY Zenon DEF Holding
<1>1. HoldsRequest(d) /\ (cli[d].st = "opening" => cli[d].conn \in Conns)
  BY Zenon DEF Holding, RelayInv, ClientsOK, ClientOK
<1>2. ASSUME cli[d].st = "opening"
      PROVE  conn'[cli[d].conn].up = <<>> /\ conn'[cli[d].conn].srv \in {"new", "closed"}
  BY <1>1, <1>2, Zenon DEF HoldsRequest, OnlyConn
<1> QED
  BY <1>1, <1>2, Zenon DEF HoldsRequest, OnlyConn

\* A request stays directed to a connection that has registered.
LEMMA DirectedStep ==
  ASSUME Directed, Conns \subseteq Conns',
         \A b \in Conns : conn'[b].srv \in Registering => conn[b].srv \in Registering,
         \A r \in Requests : req'[r].st \in {"found", "wait"} =>
            req[r].st \in {"found", "wait"} /\ req'[r].conn = req[r].conn
  PROVE  Directed'
<1> SUFFICES ASSUME NEW r \in Requests, req'[r].st \in {"found", "wait"}
             PROVE  req'[r].conn \in Conns' /\ conn'[req'[r].conn].srv \notin Registering
  BY Zenon DEF Directed
<1>1. /\ req'[r].conn = req[r].conn /\ req[r].conn \in Conns
      /\ conn[req[r].conn].srv \notin Registering
  BY Zenon DEF Directed
<1> QED
  BY <1>1, Zenon

\* The same when only connection c changes and the requests do not.
LEMMA DirectedConn ==
  ASSUME Directed, NEW c \in Conns, OnlyConn(c), req' = req,
         conn'[c].srv \in Registering => conn[c].srv \in Registering
  PROVE  Directed'
<1>1. /\ Conns' = Conns
      /\ \A b \in Conns : conn'[b].srv \in Registering => conn[b].srv \in Registering
  BY Zenon DEF OnlyConn
<1> QED
  BY <1>1, DirectedStep, Zenon

\* The requests that wait keep moving when the client of the connection that
\* changed stays as it is.
LEMMA MovingStep ==
  ASSUME RelayInv, Forwarding, NEW c \in Conns, OnlyConn(c), cli' = cli,
         \A r \in pending' : \/ r \in pending /\ req'[r].conn = req[r].conn
                             \/ req'[r].conn = c /\ OnItsWay(r, c)',
         Works(c)' => Works(c),
         \A r \in pending' : Works(c)' /\ OnItsWay(r, c) => OnItsWay(r, c)'
  PROVE  Moving'
<1> SUFFICES ASSUME NEW r \in pending', Works(req[r].conn)'
             PROVE  OnItsWay(r, req[r].conn)'
  BY Zenon DEF Moving
<1>0. CASE req'[r].conn = c /\ OnItsWay(r, c)'
  BY <1>0, Zenon DEF OnItsWay
<1>1. SUFFICES ASSUME r \in pending, req'[r].conn = req[r].conn
               PROVE  OnItsWay(r, req[r].conn)'
  BY <1>0, Zenon
<1>2. PICK b : b = req[r].conn
  OBVIOUS
<1>3. b \in Conns
  BY <1>1, <1>2, Zenon DEF Forwarding, PendingExact, Directed
<1>4. Works(b)'
  BY <1>1, <1>2, Zenon DEF Works, Attached
<1>5. Works(b) => OnItsWay(r, b)
  BY <1>1, <1>2, Zenon DEF Forwarding, Moving
<1>6. CASE b = c
  <2>1. OnItsWay(r, b)'
    BY <1>4, <1>5, <1>6, Zenon
  <2> QED
    BY <1>1, <1>2, <2>1, Zenon DEF OnItsWay
<1>7. CASE b # c
  <2>1. conn'[b] = conn[b]
    BY <1>3, <1>7, Zenon DEF OnlyConn
  <2>2. Works(b)
    BY <1>4, <2>1, Zenon DEF Works, Attached
  <2>3. OnItsWay(r, b)'
    BY <1>5, <2>1, <2>2, Zenon DEF OnItsWay
  <2> QED
    BY <1>1, <1>2, <2>3, Zenon DEF OnItsWay
<1> QED
  BY <1>6, <1>7, Zenon

\* They keep moving when client d takes a step on its own connection.
LEMMA SessionMoving ==
  ASSUME RelayInv, Forwarding, NEW d \in Devices, NEW c \in Conns, c = cli[d].conn, conn[c].dev = d,
         OnlyConn(c), cli' \in [Devices -> Client], \A e \in Devices \ {d} : cli'[e] = cli[e],
         cli'[d].conn = c, pending' = pending, req' = req,
         Works(c)' => Works(c),
         \A r \in pending : Works(c)' /\ OnItsWay(r, c) => OnItsWay(r, c)'
  PROVE  Moving'
<1> SUFFICES ASSUME NEW r \in pending, Works(req[r].conn)'
             PROVE  OnItsWay(r, req[r].conn)'
  BY Zenon DEF Moving, Works, Attached, OnItsWay
<1>1. PICK b : b = req[r].conn
  BY Zenon
<1>2. b \in Conns /\ conn[b].dev \in Devices
  BY <1>1, AConnection, ZenonT(40) DEF Forwarding, PendingExact, Directed, RelayInv, Types
<1>3. Works(b)'
  BY <1>1, Zenon DEF Works, Attached
<1>4. Works(b) => OnItsWay(r, b)
  BY <1>1, Zenon DEF Forwarding, Moving
<1>5. CASE b = c
  <2>1. OnItsWay(r, b)'
    BY <1>3, <1>4, <1>5, Zenon
  <2> QED
    BY <1>1, <2>1, Zenon DEF OnItsWay
<1>6. CASE b # c
  <2>1. conn'[b] = conn[b]
    BY <1>2, <1>6, Zenon DEF OnlyConn
  <2>2. conn[b].dev # d
    BY <1>3, <1>6, <2>1, ZenonT(40) DEF Works, Attached
  <2>3. cli'[conn[b].dev] = cli[conn[b].dev]
    BY <1>2, <2>2, Zenon
  <2>4. Works(b)
    BY <1>3, <2>1, <2>3, ZenonT(40) DEF Works, Attached
  <2>5. OnItsWay(r, b)'
    BY <1>4, <2>1, <2>3, <2>4, Zenon DEF OnItsWay
  <2> QED
    BY <1>1, <2>5, Zenon DEF OnItsWay
<1> QED
  BY <1>5, <1>6, Zenon

-----------------------------------------------------------------------------
(* The relay's task and the network *)

\* A step of the relay or of the network that leaves clients and requests alone.
LEMMA WireKeeps ==
  ASSUME RelayInv, Forwarding, NEW c \in Conns, OnlyConn(c), UNCHANGED <<cli, pending, req>>,
         Carries(conn'[c]),
         conn[c].up = <<>> /\ conn[c].srv \in {"new", "closed"} =>
             conn'[c].up = <<>> /\ conn'[c].srv \in {"new", "closed"},
         conn'[c].srv \in Registering => conn[c].srv \in Registering,
         Works(c)' => Works(c),
         \A r \in pending : Works(c)' /\ OnItsWay(r, c) => OnItsWay(r, c)'
  PROVE  Forwarding'
<1>1. Carriage' /\ Holding'
  BY CarriageStep, HoldingStep, Zenon DEF Forwarding
<1>2. Directed'
  BY DirectedConn, Zenon DEF Forwarding
<1>3. Moving'
  <2>1. \A r \in pending' : r \in pending /\ req'[r].conn = req[r].conn
    OBVIOUS
  <2> QED
    BY <2>1, MovingStep, Zenon
<1>4. req' \in [Requests -> Request] /\ PendingExact' /\ OwnAnswer'
  BY Zenon DEF Forwarding, PendingExact, OwnAnswer
<1> QED
  BY <1>1, <1>2, <1>3, <1>4, Zenon DEF Forwarding

\* A frame pushed down is one of the protocol.
LEMMA PushedFacts ==
  ASSUME NEW c, conn[c].down \in Seq(RelayMessage), NEW fr \in RelayMessage
  PROVE  /\ Pushed(c, fr) \in Seq(RelayMessage)
         /\ Range(conn[c].down) \subseteq Range(Pushed(c, fr))
         /\ Attached(c) /\ ~conn[c].cut => fr \in Range(Pushed(c, fr))
<1>1. CASE conn[c].cut \/ ~Attached(c)
  BY <1>1, Zenon DEF Pushed
<1>2. CASE ~(conn[c].cut \/ ~Attached(c))
  <2>1. Pushed(c, fr) = Append(conn[c].down, fr)
    BY <1>2, Zenon DEF Pushed
  <2> QED
    BY <2>1, RangeAppend
<1> QED
  BY <1>1, <1>2, Zenon

\* A connection that is closed carries nothing up and has no queue.
LEMMA BreakForwards ==
  ASSUME RelayInv, Forwarding, NEW c \in Conns,
         Break(c, conn) \/ Break(c, Push(conn, c, Refused)), UNCHANGED <<cli, pending, req>>
  PROVE  Forwarding'
<1>1. conn \in Seq(Connection) /\ Carries(conn[c])
  BY Zenon DEF RelayInv, Types, Forwarding, Carriage
<1>2. PICK down \in {conn[c].down, Pushed(c, Refused)} :
         Becomes(c, "closed", <<>>, down, <<>>, conn[c].cut)
  BY <1>1, BreakShape, Zenon
<1>3. OnlyConn(c) /\ conn'[c].srv = "closed" /\ conn'[c].up = <<>> /\ conn'[c].out = <<>>
      /\ conn'[c].down = down
  BY <1>2, Zenon DEF Becomes
<1>4. Refused \in RelayMessage
  BY Zenon DEF Refused, RelayMessage
<1>5. conn[c].down \in Seq(RelayMessage)
  BY <1>1, Zenon DEF Carries
<1>6. down \in Seq(RelayMessage)
  BY <1>2, <1>4, <1>5, PushedFacts, Zenon
<1>7. Carries(conn'[c])
  BY <1>3, <1>6, RelayConstants DEF Carries, Registering
<1>8. ~Works(c)'
  BY <1>3, Zenon DEF Works
<1> QED
  BY <1>3, <1>7, <1>8, WireKeeps, Zenon DEF Registering

\* The socket ends, a Register is looked at, a request is written, or the
\* connection is cut.
LEMMA SocketForwards ==
  ASSUME RelayInv, Forwarding, NEW c \in Conns,
         SocketEnds(c) \/ ReadRegister(c) \/ WriteOut(c) \/ Cut(c)
  PROVE  Forwarding'
<1>1. UNCHANGED <<cli, pending, req>>
  BY Zenon DEF SocketEnds, ReadRegister, WriteOut, Cut
<1>2. conn \in Seq(Connection) /\ conn[c] \in Connection /\ Carries(conn[c])
  BY AConnection, Zenon DEF RelayInv, Types, Forwarding, Carriage
<1>3. CASE Break(c, conn) \/ Break(c, Push(conn, c, Refused))
  BY <1>1, <1>3, BreakForwards, Zenon
<1>4. CASE /\ conn' = [conn EXCEPT ![c].srv = "checked"]
           /\ conn[c].srv = "new" /\ conn[c].up # <<>>
  <2>1. Becomes(c, "checked", conn[c].up, conn[c].down, conn[c].out, conn[c].cut)
    BY <1>2, <1>4, CheckedShape, Zenon
  <2>2. OnlyConn(c) /\ conn'[c].srv = "checked" /\ conn'[c].up = conn[c].up
        /\ conn'[c].down = conn[c].down /\ conn'[c].out = conn[c].out
    BY <2>1, Zenon DEF Becomes
  <2>3. Carries(conn'[c])
    BY <1>2, <1>4, <2>2, Zenon DEF Carries, Registering
  <2>4. ~Works(c)'
    BY <2>2, Zenon DEF Works
  <2> QED
    BY <1>1, <1>4, <2>2, <2>3, <2>4, WireKeeps, Zenon DEF Registering
<1>5. CASE WriteOut(c)
  <2>1. conn[c].srv = "registered" /\ conn[c].out # <<>> /\ conn[c].out \in Seq(Requests)
    BY <1>2, <1>5, Fields, Zenon DEF WriteOut
  <2>2. PICK fr : fr = [type |-> "request", id |-> Head(conn[c].out)]
    BY Zenon
  <2>3. Becomes(c, conn[c].srv, conn[c].up, Pushed(c, fr), Tail(conn[c].out), conn[c].cut)
    BY <1>2, <1>5, <2>2, WriteShape, Zenon
  <2>4. OnlyConn(c) /\ conn'[c].srv = conn[c].srv /\ conn'[c].up = conn[c].up
        /\ conn'[c].down = Pushed(c, fr) /\ conn'[c].out = Tail(conn[c].out)
        /\ conn'[c].cut = conn[c].cut
    BY <2>3 DEF Becomes
  <2>5. Head(conn[c].out) \in Requests /\ Len(Tail(conn[c].out)) <= Len(conn[c].out)
        /\ Len(conn[c].out) \in Nat /\ Len(Tail(conn[c].out)) \in Nat
    BY <2>1
  <2>6. fr \in RelayMessage /\ fr.type = "request" /\ fr.id = Head(conn[c].out)
    BY <2>2, <2>5, Zenon DEF RelayMessage
  <2>7. conn[c].down \in Seq(RelayMessage) /\ Len(conn[c].out) <= OutCap
    BY <1>2, Zenon DEF Carries
  <2>8. /\ Pushed(c, fr) \in Seq(RelayMessage) /\ Range(conn[c].down) \subseteq Range(Pushed(c, fr))
        /\ Attached(c) /\ ~conn[c].cut => fr \in Range(Pushed(c, fr))
    BY <2>6, <2>7, PushedFacts, Zenon
  <2>9. Carries(conn'[c])
    <3>1. Len(conn'[c].out) <= OutCap
      BY <2>4, <2>5, <2>7, RelayConstants, SMTT(40)
    <3> QED
      BY <1>2, <2>4, <2>8, <3>1, Zenon DEF Carries
  <2>10. Works(c)' => Works(c)
    BY <1>1, <2>4, Zenon DEF Works, Attached, OnlyConn
  <2>11. ASSUME NEW r \in pending, Works(c)', OnItsWay(r, c) PROVE OnItsWay(r, c)'
    <3>1. Range(conn[c].out) = {Head(conn[c].out)} \cup Range(conn'[c].out)
      BY <2>1, <2>4, RangeTail, Zenon
    <3>2. conn'[c].dev = conn[c].dev
      BY <2>4, Zenon DEF OnlyConn
    <3>3. CASE r = Head(conn[c].out)
      <4>1. fr \in Range(conn'[c].down)
        BY <2>4, <2>8, <2>10, <2>11, Zenon DEF Works
      <4>2. Asked(r, conn'[c].down)
        BY <2>6, <3>3, <4>1, Zenon DEF Asked
      <4> QED
        BY <4>2, Zenon DEF OnItsWay, Asked
    <3>4. CASE r \in Range(conn'[c].out)
      BY <3>4, Zenon DEF OnItsWay
    <3>5. CASE Asked(r, conn[c].down)
      <4>1. Asked(r, conn'[c].down)
        BY <2>4, <2>8, <3>5, Zenon DEF Asked
      <4> QED
        BY <4>1, Zenon DEF OnItsWay, Asked
    <3>6. CASE cli[conn[c].dev].req = r \/ Replied(r, conn[c].up)
      BY <1>1, <2>4, <3>2, <3>6, Zenon DEF OnItsWay, Replied
    <3> QED
      BY <2>11, <3>1, <3>3, <3>4, <3>5, <3>6, Zenon DEF OnItsWay
  <2> QED
    BY <1>1, <2>1, <2>4, <2>9, <2>10, <2>11, WireKeeps, Zenon DEF Registering
<1>6. CASE Cut(c)
  <2>1. Becomes(c, conn[c].srv, conn[c].up, <<>>, conn[c].out, TRUE)
    BY <1>2, <1>6, CutShape, Zenon
  <2>2. OnlyConn(c) /\ conn'[c].srv = conn[c].srv /\ conn'[c].up = conn[c].up
        /\ conn'[c].down = <<>> /\ conn'[c].out = conn[c].out /\ conn'[c].cut
    BY <2>1, Zenon DEF Becomes
  <2>3. Carries(conn'[c])
    BY <1>2, <2>2, SMTT(40) DEF Carries
  <2>4. ~Works(c)'
    BY <2>2, Zenon DEF Works
  <2> QED
    BY <1>1, <2>2, <2>3, <2>4, WireKeeps, Zenon
<1> QED
  BY <1>3, <1>4, <1>5, <1>6, Zenon DEF SocketEnds, ReadRegister

\* A registration is judged: no request can wait on this connection yet.
LEMMA AcceptForwards ==
  ASSUME RelayInv, Forwarding, NEW c \in Conns, Accept(c)
  PROVE  Forwarding'
<1>1. UNCHANGED <<cli, pending, req>> /\ conn[c].srv = "checked"
  BY Zenon DEF Accept
<1>2. conn \in Seq(Connection) /\ conn[c] \in Connection /\ Carries(conn[c]) /\ CarriesKey(conn[c])
  BY AConnection, Zenon DEF RelayInv, Types, ConnsOK, Forwarding, Carriage
<1>3. CASE Break(c, Push(conn, c, Refused))
  BY <1>1, <1>3, BreakForwards, Zenon
<1>4. CASE conn' = [Push(Shift(c), c, [type |-> "registered", ok |-> TRUE])
                      EXCEPT ![c].srv = "registered"]
  <2>1. conn[c].up # <<>> /\ conn[c].up \in Seq(UpFrame) /\ Len(conn[c].up) <= 1
    BY <1>1, <1>2, Fields, Zenon DEF CarriesKey, Carries, Registering
  <2>2. PICK fr : fr = [type |-> "registered", ok |-> TRUE]
    BY Zenon
  <2>3. Becomes(c, "registered", Tail(conn[c].up), Pushed(c, fr), conn[c].out, conn[c].cut)
    BY <1>2, <1>4, <2>1, <2>2, AcceptShape, Zenon
  <2>4. OnlyConn(c) /\ conn'[c].srv = "registered" /\ conn'[c].up = Tail(conn[c].up)
        /\ conn'[c].down = Pushed(c, fr) /\ conn'[c].out = conn[c].out
    BY <2>3, Zenon DEF Becomes
  <2>5. conn'[c].up = <<>>
    BY <2>1, <2>4, TailOfOne, Zenon
  <2>6. fr \in RelayMessage
    BY <2>2, Zenon DEF RelayMessage
  <2>7. Pushed(c, fr) \in Seq(RelayMessage) /\ Len(conn[c].out) <= OutCap
    BY <1>2, <2>6, PushedFacts, Zenon DEF Carries
  <2>8. Carries(conn'[c])
    <3>1. PICK k : k = conn'[c]
      OBVIOUS
    <3>2. /\ Len(k.out) <= OutCap /\ k.up = <<>> /\ k.down \in Seq(RelayMessage)
          /\ k.srv \notin Registering
      BY <2>4, <2>5, <2>7, <3>1, Zenon DEF Registering
    <3>3. Carries(k)
      BY <3>2, RangeEmpty, Zenon DEF Carries
    <3> QED
      BY <3>1, <3>3, Zenon
  <2>9. ASSUME NEW r \in pending PROVE req[r].conn # c
    BY <1>1, Zenon DEF Forwarding, PendingExact, Directed, Registering
  <2>10. Carriage' /\ Holding' /\ Directed'
    BY <1>1, <2>4, <2>8, CarriageStep, HoldingStep, DirectedConn, Zenon DEF Forwarding, Registering
  <2>11. Moving'
    <3> SUFFICES ASSUME NEW r \in pending, Works(req[r].conn)' PROVE OnItsWay(r, req[r].conn)'
      BY <1>1, Zenon DEF Moving, Works, Attached, OnItsWay
    <3>1. PICK b : b = req[r].conn
      OBVIOUS
    <3>2. b \in Conns /\ b # c
      BY <2>9, <3>1, Zenon DEF Forwarding, PendingExact, Directed
    <3>3. conn'[b] = conn[b]
      BY <2>4, <3>2, Zenon DEF OnlyConn
    <3>4. Works(b)
      BY <1>1, <3>1, <3>3, Zenon DEF Works, Attached
    <3>5. OnItsWay(r, b)
      BY <3>1, <3>4, Zenon DEF Forwarding, Moving
    <3>6. OnItsWay(r, b)'
      BY <1>1, <3>3, <3>5, Zenon DEF OnItsWay
    <3> QED
      BY <1>1, <3>1, <3>6, Zenon DEF OnItsWay
  <2>12. req' \in [Requests -> Request] /\ PendingExact' /\ OwnAnswer'
    BY <1>1, Zenon DEF Forwarding, PendingExact, OwnAnswer
  <2> QED
    BY <2>10, <2>11, <2>12, Zenon DEF Forwarding
<1> QED
  BY <1>3, <1>4, Zenon DEF Accept

-----------------------------------------------------------------------------
(* Answers and phones *)

\* An answer is read: it completes the request of its id, and no other.
LEMMA ResponseForwards ==
  ASSUME RelayInv, Forwarding, NEW c \in Conns, ReadResponse(c)
  PROVE  Forwarding'
<1> DEFINE frame == Head(conn[c].up)
<1>1. /\ cli' = cli /\ conn[c].srv = "registered" /\ conn[c].up # <<>> /\ conn' = Shift(c)
      /\ pending' = pending \ {frame.id}
      /\ req' = IF frame.id \notin pending THEN req
                ELSE [req EXCEPT ![frame.id] = Done(frame.status, frame.id)]
  BY Zenon DEF ReadResponse
<1>2. conn \in Seq(Connection) /\ Carries(conn[c]) /\ conn[c].up \in Seq(RelayMessage)
  BY Zenon DEF RelayInv, Types, Forwarding, Carriage, Carries
<1>3. /\ Range(conn[c].up) = {frame} \cup Range(Tail(conn[c].up))
      /\ Tail(conn[c].up) \in Seq(RelayMessage) /\ frame \in RelayMessage
  BY <1>1, <1>2, RangeTail
<1>4. frame.type = "response"
  BY <1>1, <1>2, <1>3, Zenon DEF Carries
<1>5. PICK i \in Requests, s \in {"hub", "403"} : i = frame.id /\ s = frame.status
  BY <1>3, <1>4, Zenon DEF RelayMessage
<1> HIDE DEF frame
<1>6. Becomes(c, conn[c].srv, Tail(conn[c].up), conn[c].down, conn[c].out, conn[c].cut)
  BY <1>1, <1>2, ShiftShape, Zenon
<1>7. /\ OnlyConn(c) /\ conn'[c].srv = conn[c].srv /\ conn'[c].up = Tail(conn[c].up)
      /\ conn'[c].down = conn[c].down /\ conn'[c].out = conn[c].out /\ conn'[c].cut = conn[c].cut
  BY <1>6, Zenon DEF Becomes
<1>8. Carries(conn'[c])
  BY <1>1, <1>2, <1>3, <1>7, Zenon DEF Carries, Registering
<1>9. Carriage' /\ Holding'
  BY <1>1, <1>7, <1>8, CarriageStep, HoldingStep, Zenon DEF Forwarding
<1>10. /\ Done(s, i) \in Request /\ Done(s, i).st = "done" /\ Done(s, i).from = i
  BY Zenon DEF Done, NoReq, Request
<1>11. /\ pending' = pending \ {i} /\ req \in [Requests -> Request]
       /\ req' = IF i \notin pending THEN req ELSE [req EXCEPT ![i] = Done(s, i)]
  BY <1>1, <1>5, Zenon DEF Forwarding
<1>12. /\ req' \in [Requests -> Request] /\ \A r \in Requests \ {i} : req'[r] = req[r]
       /\ i \notin pending => req'[i] = req[i]
       /\ i \in pending => req'[i].st = "done" /\ req'[i].from = i
  BY <1>10, <1>11, Zenon
<1>13. PendingExact' /\ OwnAnswer'
  BY <1>11, <1>12, Zenon DEF Forwarding, PendingExact, OwnAnswer
<1>14. Directed'
  <2>1. /\ Conns' = Conns
        /\ \A b \in Conns : conn'[b].srv \in Registering => conn[b].srv \in Registering
    BY <1>7, Zenon DEF OnlyConn
  <2>2. \A r \in Requests : req'[r].st \in {"found", "wait"} =>
            req[r].st \in {"found", "wait"} /\ req'[r].conn = req[r].conn
    BY <1>12, Zenon
  <2> QED
    BY <2>1, <2>2, DirectedStep, Zenon DEF Forwarding
<1>15. Moving'
  <2>1. \A r \in pending' : r \in pending /\ r # i /\ req'[r].conn = req[r].conn
    BY <1>11, <1>12, Zenon DEF Forwarding, PendingExact
  <2>2. Works(c)' => Works(c)
    BY <1>1, <1>7, Zenon DEF Works, Attached, OnlyConn
  <2>3. ASSUME NEW r \in pending', OnItsWay(r, c) PROVE OnItsWay(r, c)'
    <3>1. conn'[c].dev = conn[c].dev
      BY <1>7, Zenon DEF OnlyConn
    <3>2. Replied(r, conn[c].up) => Replied(r, conn'[c].up)
      BY <1>3, <1>5, <1>7, <2>1, Zenon DEF Replied
    <3> QED
      BY <1>1, <1>7, <2>3, <3>1, <3>2, Zenon DEF OnItsWay
  <2> QED
    BY <1>1, <1>7, <2>1, <2>2, <2>3, MovingStep, Zenon
<1> QED
  BY <1>9, <1>12, <1>13, <1>14, <1>15, Zenon DEF Forwarding

\* A step of a phone that touches no connection and no client.
LEMMA PhoneKeeps ==
  ASSUME RelayInv, Forwarding, UNCHANGED <<cli, conn>>,
         \A r \in pending' : r \in pending /\ req'[r].conn = req[r].conn
  PROVE  Carriage' /\ Holding' /\ Moving'
<1>1. Carriage' /\ Holding'
  BY Zenon DEF Forwarding, Carriage, Carries, Holding, HoldsRequest, Conns
<1>2. ASSUME NEW r \in pending', Works(req[r].conn)' PROVE OnItsWay(r, req[r].conn)'
  <2>1. r \in pending /\ req'[r].conn = req[r].conn
    BY Zenon
  <2>2. Works(req[r].conn)
    BY <1>2, <2>1, Zenon DEF Works, Attached
  <2>3. OnItsWay(r, req[r].conn)
    BY <2>1, <2>2, Zenon DEF Forwarding, Moving
  <2> QED
    BY <2>1, <2>3, Zenon DEF OnItsWay
<1> QED
  BY <1>1, <1>2, Zenon DEF Moving

\* A request is done, with the status the relay gives it itself.
LEMMA DoneFacts ==
  ASSUME Forwarding, NEW r \in Requests, NEW s \in {"429", "503", "504"}, Answer(r, s),
         pending' = pending \ {r}
  PROVE  /\ req' \in [Requests -> Request] /\ PendingExact' /\ OwnAnswer'
         /\ req'[r].st = "done" /\ \A q \in Requests \ {r} : req'[q] = req[q]
<1>1. /\ Done(s, "none") \in Request /\ Done(s, "none").st = "done"
      /\ Done(s, "none").from = "none"
  BY Zenon DEF Done, NoReq, Request
<1>2. req' = [req EXCEPT ![r] = Done(s, "none")] /\ req \in [Requests -> Request]
  BY Zenon DEF Answer, Forwarding
<1>3. /\ req' \in [Requests -> Request] /\ req'[r].st = "done" /\ req'[r].from = "none"
      /\ \A q \in Requests \ {r} : req'[q] = req[q]
  BY <1>1, <1>2, Zenon
<1>4. PendingExact' /\ OwnAnswer'
  BY <1>3, Zenon DEF Forwarding, PendingExact, OwnAnswer
<1> QED
  BY <1>3, <1>4, Zenon

\* Such an answer touches nothing else.
LEMMA AnswerForwards ==
  ASSUME RelayInv, Forwarding, NEW r \in Requests, NEW s \in {"429", "503", "504"}, Answer(r, s),
         pending' = pending \ {r}, UNCHANGED <<cli, conn>>
  PROVE  Forwarding'
<1>1. /\ req' \in [Requests -> Request] /\ PendingExact' /\ OwnAnswer'
      /\ req'[r].st = "done" /\ \A q \in Requests \ {r} : req'[q] = req[q]
  BY DoneFacts, Zenon
<1>2. Directed'
  <2>1. Conns' = Conns
    BY Zenon DEF Conns
  <2>2. \A q \in Requests : req'[q].st \in {"found", "wait"} =>
           req[q].st \in {"found", "wait"} /\ req'[q].conn = req[q].conn
    BY <1>1, Zenon
  <2> QED
    BY <2>1, <2>2, DirectedStep, Zenon DEF Forwarding
<1>3. \A q \in pending' : q \in pending /\ req'[q].conn = req[q].conn
  BY <1>1, Zenon DEF Forwarding, PendingExact
<1> QED
  BY <1>1, <1>2, <1>3, PhoneKeeps, Zenon DEF Forwarding

\* A phone's request finds the Hub's connection, or is refused.
LEMMA PairForwards ==
  ASSUME RelayInv, Forwarding, NEW r \in Requests, NEW d \in Devices, PairRequest(r, d)
  PROVE  Forwarding'
<1>1. /\ req[r].st = "idle" /\ UNCHANGED <<cli, conn, pending>>
      /\ req[r] \in Request /\ req \in [Requests -> Request]
  BY Zenon DEF PairRequest, Forwarding
<1>2. r \notin pending
  BY <1>1, Zenon DEF Forwarding, PendingExact
<1>3. CASE Answer(r, "429") \/ Answer(r, "503")
  <2>1. pending' = pending \ {r}
    BY <1>1, <1>2, Zenon
  <2> QED
    BY <1>1, <1>3, <2>1, AnswerForwards, Zenon
<1>4. CASE /\ hubs[d] # 0
           /\ req' = [req EXCEPT ![r].st = "found", ![r].dev = d, ![r].conn = hubs[d]]
  <2>1. hubs[d] \in Conns /\ conn[hubs[d]].srv = "registered" /\ hubs[d] \in Nat
    BY <1>4, Zenon DEF RelayInv, Types, ServedOK, LastRegisteredServed
  <2>2. PICK h \in Nat : h = hubs[d]
    BY <2>1, Zenon
  <2>3. PICK k : k = [req[r] EXCEPT !.st = "found", !.dev = d, !.conn = h]
    OBVIOUS
  <2>4. k \in Request /\ k.st = "found" /\ k.conn = h /\ k.from = req[r].from
    BY <1>1, <2>3, Zenon DEF Request
  <2>5. req' = [req EXCEPT ![r] = k]
    BY <1>4, <2>2, <2>3, Zenon
  <2>6. /\ req' \in [Requests -> Request] /\ req'[r] = k
        /\ \A q \in Requests \ {r} : req'[q] = req[q]
    BY <1>1, <2>4, <2>5, Zenon
  <2>7. PendingExact' /\ OwnAnswer'
    BY <1>1, <1>2, <2>4, <2>6 DEF Forwarding, PendingExact, OwnAnswer
  <2>8. Directed'
    <3> SUFFICES ASSUME NEW q \in Requests, req'[q].st \in {"found", "wait"}
                 PROVE  req'[q].conn \in Conns /\ conn[req'[q].conn].srv \notin Registering
      BY <1>1, Zenon DEF Directed, Conns
    <3>1. CASE q = r
      BY <2>1, <2>2, <2>4, <2>6, <3>1, Zenon DEF Registering
    <3>2. CASE q # r
      BY <2>6, <3>2, Zenon DEF Forwarding, Directed
    <3> QED
      BY <3>1, <3>2, Zenon
  <2>9. \A q \in pending' : q \in pending /\ req'[q].conn = req[q].conn
    BY <1>1, <1>2, <2>6, Zenon DEF Forwarding, PendingExact
  <2> QED
    BY <1>1, <2>6, <2>7, <2>8, <2>9, PhoneKeeps, Zenon DEF Forwarding
<1> QED
  BY <1>3, <1>4, Zenon DEF PairRequest

\* A request becomes pending and is queued, or it is refused.
LEMMA TrySendForwards ==
  ASSUME RelayInv, Forwarding, NEW r \in Requests, TrySend(r)
  PROVE  Forwarding'
<1>1. /\ req[r].st = "found" /\ cli' = cli
      /\ req[r] \in Request /\ req \in [Requests -> Request]
  BY Zenon DEF TrySend, Forwarding
<1>2. PICK c \in Conns : c = req[r].conn
  BY <1>1, Zenon DEF Forwarding, Directed
<1>3. r \notin pending
  BY <1>1, Zenon DEF Forwarding, PendingExact
<1>4. CASE Answer(r, "503") /\ UNCHANGED <<conn, pending>>
  <2>1. pending' = pending \ {r}
    BY <1>3, <1>4, Zenon
  <2> QED
    BY <1>1, <1>4, <2>1, AnswerForwards, Zenon
<1>5. CASE /\ ~(conn[c].srv = "closed" \/ Len(conn[c].out) >= OutCap)
           /\ conn' = [conn EXCEPT ![c].out = Append(@, r)]
           /\ req' = [req EXCEPT ![r].st = "wait"]
           /\ pending' = pending \cup {r}
  <2>1. conn \in Seq(Connection) /\ conn[c] \in Connection /\ Carries(conn[c])
        /\ conn[c].out \in Seq(Requests)
    BY AConnection, Fields, Zenon DEF RelayInv, Types, Forwarding, Carriage
  <2>2. Becomes(c, conn[c].srv, conn[c].up, conn[c].down, Append(conn[c].out, r), conn[c].cut)
    BY <1>5, <2>1, QueueShape, Zenon
  <2>3. /\ OnlyConn(c) /\ conn'[c].srv = conn[c].srv /\ conn'[c].up = conn[c].up
        /\ conn'[c].down = conn[c].down /\ conn'[c].out = Append(conn[c].out, r)
        /\ conn'[c].cut = conn[c].cut
    BY <2>2, Zenon DEF Becomes
  <2>4. Len(conn'[c].out) <= OutCap
    BY <1>5, <2>1, <2>3, RelayConstants, SMTT(40)
  <2>5. Carries(conn'[c])
    BY <2>1, <2>3, <2>4, Zenon DEF Carries
  <2>6. Carriage' /\ Holding'
    BY <1>1, <2>3, <2>5, CarriageStep, HoldingStep, Zenon DEF Forwarding
  <2>7. PICK k : k = [req[r] EXCEPT !.st = "wait"]
    BY Zenon
  <2>8. k \in Request /\ k.st = "wait" /\ k.conn = c /\ k.from = req[r].from
    BY <1>1, <1>2, <2>7, Zenon DEF Request
  <2>9. /\ req' \in [Requests -> Request] /\ req'[r] = k
        /\ \A q \in Requests \ {r} : req'[q] = req[q]
    BY <1>1, <1>5, <2>7, <2>8, Zenon
  <2>10. PendingExact' /\ OwnAnswer'
    BY <1>5, <2>8, <2>9, Zenon DEF Forwarding, PendingExact, OwnAnswer
  <2>11. Directed'
    <3>1. /\ Conns' = Conns
          /\ \A b \in Conns : conn'[b].srv \in Registering => conn[b].srv \in Registering
      BY <2>3, Zenon DEF OnlyConn
    <3>2. \A q \in Requests : req'[q].st \in {"found", "wait"} =>
             req[q].st \in {"found", "wait"} /\ req'[q].conn = req[q].conn
      BY <1>1, <1>2, <2>8, <2>9, Zenon
    <3> QED
      BY <3>1, <3>2, DirectedStep, Zenon DEF Forwarding
  <2>12. Moving'
    <3>1. Range(conn'[c].out) = Range(conn[c].out) \cup {r}
      BY <2>1, <2>3, RangeAppend
    <3>2. OnItsWay(r, c)'
      BY <3>1, Zenon DEF OnItsWay
    <3>3. \A q \in pending' : \/ q \in pending /\ req'[q].conn = req[q].conn
                              \/ req'[q].conn = c /\ OnItsWay(q, c)'
      BY <1>5, <2>8, <2>9, <3>2, Zenon DEF Forwarding, PendingExact
    <3>4. Works(c)' => Works(c)
      BY <1>1, <2>3, Zenon DEF Works, Attached, OnlyConn
    <3>5. \A q \in pending' : OnItsWay(q, c) => OnItsWay(q, c)'
      BY <1>1, <2>3, <3>1, Zenon DEF OnItsWay, OnlyConn, Asked, Replied
    <3> QED
      BY <1>1, <2>3, <3>3, <3>4, <3>5, MovingStep, Zenon
  <2> QED
    BY <2>6, <2>9, <2>10, <2>11, <2>12, Zenon DEF Forwarding
<1> QED
  BY <1>2, <1>4, <1>5, Zenon DEF TrySend

\* The relay starts again: nobody waits any more.
LEMMA RestartForwards ==
  ASSUME RelayInv, Forwarding, RelayRestarts
  PROVE  Forwarding'
<1>1. /\ conn' = [c \in Conns |-> [conn[c] EXCEPT !.srv = "closed", !.up = <<>>, !.out = <<>>]]
      /\ pending' = {} /\ cli' = cli
      /\ req' = [r \in Requests |-> IF req[r].st \in {"found", "wait"}
                                    THEN Done("504", "none") ELSE req[r]]
  BY Zenon DEF RelayRestarts
<1>2. conn \in Seq(Connection) /\ req \in [Requests -> Request]
  BY Zenon DEF RelayInv, Types, Forwarding
<1>3. DOMAIN conn' = Conns
  BY <1>1, Zenon
<1>4. Len(conn') = Len(conn) /\ Conns' = Conns
  <2>1. Len(conn) \in Nat /\ DOMAIN conn' = 1..Len(conn)
    BY <1>2, <1>3 DEF Conns
  <2>2. Len(conn') = Len(conn)
    BY <2>1
  <2> QED
    BY <2>2, Zenon DEF Conns
<1>5. ASSUME NEW c \in Conns
      PROVE  /\ conn'[c].srv = "closed" /\ conn'[c].up = <<>> /\ conn'[c].out = <<>>
             /\ conn'[c].down = conn[c].down
  <2>1. conn[c] \in Connection
    BY <1>2, AConnection, Zenon
  <2>2. conn'[c] = [conn[c] EXCEPT !.srv = "closed", !.up = <<>>, !.out = <<>>]
    BY <1>1, Zenon
  <2> QED
    BY <2>1, <2>2, Zenon DEF Connection
<1>6. Carriage'
  <2>1. ASSUME NEW c \in Conns PROVE Carries(conn[c])'
    <3>1. PICK k : k = conn'[c]
      OBVIOUS
    <3>2. k.srv = "closed" /\ k.up = <<>> /\ k.out = <<>> /\ k.down \in Seq(RelayMessage)
      BY <1>5, <3>1, Zenon DEF Forwarding, Carriage, Carries
    <3>3. Carries(k)
      BY <3>2, RangeEmpty, RelayConstants DEF Carries, Registering
    <3> QED
      BY <3>1, <3>3, Zenon
  <2> QED
    BY <1>4, <2>1, Zenon DEF Forwarding, Carriage
<1>7. Holding'
  <2> SUFFICES ASSUME NEW d \in Devices PROVE HoldsRequest(d)'
    BY Zenon DEF Holding
  <2>1. HoldsRequest(d) /\ (cli[d].st = "opening" => cli[d].conn \in Conns)
    BY Zenon DEF Forwarding, Holding, RelayInv, ClientsOK, ClientOK
  <2> QED
    BY <1>1, <1>4, <1>5, <2>1, Zenon DEF HoldsRequest
<1>8. /\ Done("504", "none") \in Request /\ Done("504", "none").st = "done"
      /\ Done("504", "none").from = "none"
  BY Zenon DEF Done, NoReq, Request
<1>9. /\ req' \in [Requests -> Request]
      /\ \A r \in Requests : req'[r].st \notin {"found", "wait"} /\ req'[r].from \in {"none", req[r].from}
  BY <1>1, <1>2, <1>8, Zenon
<1>10. PendingExact' /\ OwnAnswer' /\ Directed' /\ Moving'
  BY <1>1, <1>9, Zenon DEF Forwarding, PendingExact, OwnAnswer, Directed, Moving
<1> QED
  BY <1>6, <1>7, <1>9, <1>10, Zenon DEF Forwarding

-----------------------------------------------------------------------------
(* The clients *)

\* A client that is not connected any more: whatever waits on its connection
\* is the phone's timeout to settle.
LEMMA DetachedForwards ==
  ASSUME RelayInv, Forwarding, NEW d \in Devices, UNCHANGED <<conn, pending, req>>,
         \A e \in Devices \ {d} : cli'[e] = cli[e],
         cli'[d].st \in {"off", "backoff"}, cli'[d].conn <= Len(conn), cli'[d].req = "none"
  PROVE  Forwarding'
<1>1. Conns' = Conns
  BY Zenon DEF Conns
<1>2. Carriage' /\ req' \in [Requests -> Request] /\ PendingExact' /\ OwnAnswer'
  BY <1>1, Zenon DEF Forwarding, Carriage, Carries, PendingExact, OwnAnswer
<1>3. Directed'
  BY <1>1, Zenon DEF Forwarding, Directed
<1>4. Holding'
  BY SMTT(40) DEF Forwarding, Holding, HoldsRequest
<1>5. Moving'
  <2> SUFFICES ASSUME NEW r \in pending, Works(req[r].conn)' PROVE OnItsWay(r, req[r].conn)'
    BY Zenon DEF Moving, Works, Attached, OnItsWay
  <2>1. PICK b : b = req[r].conn
    OBVIOUS
  <2>2. b \in Conns /\ conn[b].dev \in Devices
    BY <2>1, AConnection, Zenon DEF Forwarding, PendingExact, Directed, RelayInv, Types
  <2>3. cli'[conn[b].dev].st \in {"opening", "open", "busy"}
    BY <2>1, Zenon DEF Works, Attached
  <2>4. cli'[conn[b].dev] = cli[conn[b].dev]
    BY <2>2, <2>3, Zenon
  <2>5. Works(b)
    BY <2>1, <2>4, Zenon DEF Works, Attached
  <2>6. OnItsWay(r, b)
    BY <2>1, <2>5, Zenon DEF Forwarding, Moving
  <2> QED
    BY <2>1, <2>4, <2>6, Zenon DEF OnItsWay
<1> QED
  BY <1>2, <1>3, <1>4, <1>5, Zenon DEF Forwarding

\* A step that touches neither connections nor clients nor requests.
LEMMA NothingForwards ==
  ASSUME RelayInv, Forwarding, UNCHANGED <<conn, cli, pending, req>>
  PROVE  Forwarding'
<1>1. Carriage' /\ Holding' /\ Moving'
  BY PhoneKeeps, Zenon
<1> QED
  BY <1>1, Zenon DEF Forwarding, PendingExact, OwnAnswer, Directed, Conns

\* The start and the end of a Hub process.
LEMMA ProcessForwards ==
  ASSUME RelayInv, Forwarding, NEW d \in Devices, load_or_create(d) \/ HubEnds(d)
  PROVE  Forwarding'
<1>1. UNCHANGED <<conn, pending, req>> /\ cli \in [Devices -> Client]
  BY DEF load_or_create, HubEnds, netVars, RelayInv, Types
<1>2. CASE cli' = cli
  BY <1>1, <1>2, NothingForwards, Zenon
<1> DEFINE Detaches(m) == /\ m.st \in {"off", "backoff"} /\ m.conn = 0 /\ m.req = "none"
                          /\ cli' = [cli EXCEPT ![d] = m]
<1>3. ASSUME NEW m, Detaches(m) PROVE Forwarding'
  <2>1. /\ \A e \in Devices \ {d} : cli'[e] = cli[e]
        /\ cli'[d].st \in {"off", "backoff"} /\ cli'[d].conn = 0 /\ cli'[d].req = "none"
    BY <1>1, <1>3, Zenon
  <2>2. 0 <= Len(conn)
    BY DEF RelayInv, Types
  <2> QED
    BY <1>1, <2>1, <2>2, DetachedForwards, Zenon
<1>4. CASE HubEnds(d)
  <2>1. Off.st = "off" /\ Off.conn = 0 /\ Off.req = "none"
    BY Zenon DEF Off
  <2>2. Detaches(Off)
    BY <1>4, <2>1, Zenon DEF HubEnds
  <2> HIDE DEF Detaches
  <2> QED
    BY <1>3, <2>2, Zenon
<1>5. ASSUME NEW key, Identity(d, key) PROVE Forwarding'
  <2>1. PICK m : m = [Off EXCEPT !.st = "backoff", !.key = key]
    OBVIOUS
  <2>2. m.st = "backoff" /\ m.conn = 0 /\ m.req = "none"
    BY <2>1, Zenon DEF Off
  <2>3. cli' = [cli EXCEPT ![d] = m]
    BY <1>5, <2>1, Zenon DEF Identity
  <2>4. Detaches(m)
    BY <2>2, <2>3, Zenon
  <2> HIDE DEF Detaches
  <2> QED
    BY <1>3, <2>4, Zenon
<1> QED
  BY <1>2, <1>4, <1>5, Zenon DEF load_or_create, Loaded, Created, SaveFails

\* A new connection: nothing waits on it, and nothing is attached to the old one.
LEMMA ConnectForwards ==
  ASSUME RelayInv, Forwarding, NEW d \in Devices, Connect(d)
  PROVE  Forwarding'
<1> DEFINE k == [dev |-> d, srv |-> "new", up |-> <<>>, down |-> <<>>,
                 out |-> <<>>, cut |-> FALSE]
           n == Len(conn) + 1
<1>1. /\ conn' = Append(conn, k) /\ Len(conn) < MaxConns /\ cli[d].st = "backoff"
      /\ cli' = [cli EXCEPT ![d].st = "opening", ![d].conn = n]
      /\ UNCHANGED <<pending, req>>
  BY Zenon DEF Connect
<1>2. conn \in Seq(Connection) /\ cli \in [Devices -> Client] /\ cli[d] \in Client /\ Len(conn) \in Nat
  BY DEF RelayInv, Types
<1>3. k.srv = "new" /\ k.up = <<>> /\ k.down = <<>> /\ k.out = <<>>
  OBVIOUS
<1>4. k \in Connection
  BY DEF Connection
<1> HIDE DEF k
<1>5. /\ Len(conn') = n /\ Conns' = Conns \cup {n} /\ n \notin Conns
      /\ conn'[n] = k /\ \A b \in Conns : conn'[b] = conn[b]
  BY <1>1, <1>2, <1>4 DEF Conns
<1>6. /\ \A e \in Devices \ {d} : cli'[e] = cli[e]
      /\ cli'[d].st = "opening" /\ cli'[d].conn = n /\ cli'[d].req = cli[d].req
  <2> HIDE DEF n
  <2>1. LET m == [cli[d] EXCEPT !.st = "opening", !.conn = n]
        IN  m.st = "opening" /\ m.conn = n /\ m.req = cli[d].req
    BY <1>2, Zenon DEF Client
  <2>2. cli' = [cli EXCEPT ![d] = [cli[d] EXCEPT !.st = "opening", !.conn = n]]
    BY <1>1, Zenon
  <2> QED
    BY <1>2, <2>1, <2>2, Zenon
<1>7. n <= MaxConns
  BY <1>1, <1>2, RelayConstants
<1>8. Carriage'
  <2>1. Carries(k)
    BY <1>3, RelayConstants DEF Carries
  <2>2. \A b \in Conns' : Carries(conn'[b])
    BY <1>5, <2>1, Zenon DEF Forwarding, Carriage
  <2>3. \A b \in Conns' : Carries(conn[b])'
    BY <2>2, Zenon DEF Carries
  <2> QED
    BY <1>5, <1>7, <2>3, Zenon DEF Carriage
<1>9. Holding'
  <2> SUFFICES ASSUME NEW e \in Devices PROVE HoldsRequest(e)'
    BY Zenon DEF Holding
  <2>1. HoldsRequest(e) /\ (cli[e].st = "opening" => cli[e].conn \in Conns) /\ cli[e].conn \in Nat
    BY <1>2, Zenon DEF Forwarding, Holding, RelayInv, ClientsOK, ClientOK, Client
  <2>2. CASE e = d
    BY SMTT(40), <1>1, <1>2, <1>3, <1>5, <1>6, <2>1, <2>2 DEF HoldsRequest
  <2>3. CASE e # d
    BY <1>2, <1>5, <1>6, <2>1, <2>3 DEF HoldsRequest
  <2> QED
    BY <2>2, <2>3, Zenon
<1>10. Directed'
  BY <1>1, <1>5, DirectedStep, Zenon DEF Forwarding
<1>11. Moving'
  <2> SUFFICES ASSUME NEW r \in pending, Works(req[r].conn)' PROVE OnItsWay(r, req[r].conn)'
    BY <1>1, Zenon DEF Moving, Works, Attached, OnItsWay
  <2>1. PICK b : b = req[r].conn
    OBVIOUS
  <2>2. b \in Conns /\ conn[b].dev \in Devices
    BY <1>2, <2>1, AConnection, Zenon DEF Forwarding, PendingExact, Directed
  <2>3. conn'[b] = conn[b] /\ b # n
    BY <1>5, <2>2, Zenon
  <2>4. cli'[conn[b].dev].conn = b
    BY <1>1, <2>1, <2>3, Zenon DEF Works, Attached
  <2>5. cli'[conn[b].dev] = cli[conn[b].dev]
    BY <1>6, <2>2, <2>3, <2>4, Zenon
  <2>6. Works(b)
    BY <1>1, <2>1, <2>3, <2>5, Zenon DEF Works, Attached
  <2>7. OnItsWay(r, b)
    BY <2>1, <2>6, Zenon DEF Forwarding, Moving
  <2> QED
    BY <1>1, <2>1, <2>3, <2>5, <2>7, Zenon DEF OnItsWay
<1> QED
  BY <1>1, <1>8, <1>9, <1>10, <1>11, Zenon DEF Forwarding, PendingExact, OwnAnswer

\* A step of client d on its connection c.
LEMMA ClientKeeps ==
  ASSUME RelayInv, Forwarding, NEW d \in Devices, NEW c \in Conns, c = cli[d].conn, conn[c].dev = d,
         OnlyConn(c), Carries(conn'[c]), conn'[c].srv = conn[c].srv,
         cli' \in [Devices -> Client], \A e \in Devices \ {d} : cli'[e] = cli[e],
         cli'[d].conn = c, cli'[d].st # "opening",
         IF cli'[d].st = "busy" THEN cli'[d].req \in Requests ELSE cli'[d].req = "none",
         UNCHANGED <<pending, req>>,
         Works(c)' => Works(c),
         \A r \in pending : Works(c)' /\ OnItsWay(r, c) => OnItsWay(r, c)'
  PROVE  Forwarding'
<1>1. Carriage'
  BY CarriageStep, Zenon DEF Forwarding
<1>2. Holding'
  <2> SUFFICES ASSUME NEW e \in Devices PROVE HoldsRequest(e)'
    BY Zenon DEF Holding
  <2>1. /\ HoldsRequest(e)
        /\ cli[e].st = "opening" => cli[e].conn \in Conns /\ conn[cli[e].conn].dev = e
    BY Zenon DEF Forwarding, Holding, RelayInv, ClientsOK, ClientOK
  <2>2. CASE e = d
    BY <2>1, <2>2, Zenon DEF HoldsRequest, OnlyConn
  <2>3. CASE e # d
    <3>1. cli'[e] = cli[e] /\ (cli[e].st = "opening" => conn'[cli[e].conn] = conn[cli[e].conn])
      BY <2>1, <2>3, Zenon DEF OnlyConn
    <3> QED
      BY <2>1, <3>1, Zenon DEF HoldsRequest, OnlyConn
  <2> QED
    BY <2>2, <2>3, Zenon
<1>3. Directed'
  BY DirectedConn, Zenon DEF Forwarding
<1>4. Moving'
  BY SessionMoving, Zenon
<1> QED
  BY <1>1, <1>2, <1>3, <1>4, Zenon DEF Forwarding, PendingExact, OwnAnswer

\* What client changes.
LEMMA ClientSets ==
  ASSUME cli \in [Devices -> Client], NEW d \in Devices, NEW st \in Running,
         NEW r \in Requests \cup {"none"}, client(d, st, r)
  PROVE  /\ cli' \in [Devices -> Client] /\ \A e \in Devices \ {d} : cli'[e] = cli[e]
         /\ cli'[d].st = st /\ cli'[d].req = r /\ cli'[d].conn = cli[d].conn
<1>1. cli[d] \in Client
  OBVIOUS
<1>2. LET m == [cli[d] EXCEPT !.st = st, !.req = r]
      IN  m \in Client /\ m.st = st /\ m.req = r /\ m.conn = cli[d].conn
  BY <1>1, Zenon DEF Client
<1>3. cli' = [cli EXCEPT ![d] = [cli[d] EXCEPT !.st = st, !.req = r]]
  BY Zenon DEF client
<1> QED
  BY <1>2, <1>3, Zenon

\* What is known of a client in a session.
LEMMA InSession ==
  ASSUME RelayInv, Forwarding, NEW d \in Devices, cli[d].st \in {"opening", "open", "busy"}
  PROVE  /\ cli[d].conn \in Conns /\ conn[cli[d].conn].dev = d
         /\ conn \in Seq(Connection) /\ conn[cli[d].conn] \in Connection /\ Carries(conn[cli[d].conn])
         /\ cli \in [Devices -> Client] /\ HoldsRequest(d)
<1>1. cli[d].conn \in Conns /\ conn[cli[d].conn].dev = d
  BY Zenon DEF RelayInv, ClientsOK, ClientOK
<1>2. PICK c \in Conns : c = cli[d].conn
  BY <1>1, Zenon
<1>3. conn \in Seq(Connection) /\ cli \in [Devices -> Client]
  BY Zenon DEF RelayInv, Types
<1>4. conn[c] \in Connection /\ Carries(conn[c])
  BY <1>3, AConnection, Zenon DEF Forwarding, Carriage
<1> QED
  BY <1>1, <1>2, <1>3, <1>4, Zenon DEF Forwarding, Holding

\* The client signs its registration and sends it, the first frame on this connection.
LEMMA RegisterForwards ==
  ASSUME RelayInv, Counters, Forwarding, NEW d \in Devices, SendRegister(d)
  PROVE  Forwarding'
<1>1. cli[d].st = "opening" /\ client(d, "open", "none") /\ UNCHANGED <<pending, req>>
  BY Zenon DEF SendRegister
<1>2. PICK c \in Conns : c = cli[d].conn
  BY <1>1, InSession, Zenon
<1>3. /\ conn[c].dev = d /\ conn \in Seq(Connection) /\ Carries(conn[c]) /\ cli \in [Devices -> Client]
      /\ conn[c].up = <<>> /\ conn[c].srv \in {"new", "closed"}
  BY <1>1, <1>2, InSession, Zenon DEF HoldsRequest
<1>4. PICK f : f = sign_register(d)
  OBVIOUS
<1>5. f \in RelayMessage
  <2>1. cli[d].key \in Nat /\ now \in 0..MaxTime
    BY <1>3, Zenon DEF Client, Counters
  <2> QED
    BY <1>4, <2>1, Zenon DEF sign_register, RelayMessage
<1>6. Becomes(c, conn[c].srv, IF conn[c].cut THEN conn[c].up ELSE Append(conn[c].up, f), conn[c].down,
              conn[c].out, conn[c].cut)
  BY <1>2, <1>3, <1>4, SendShape, Zenon DEF SendRegister
<1>7. /\ OnlyConn(c) /\ conn'[c].srv = conn[c].srv
      /\ conn'[c].down = conn[c].down /\ conn'[c].out = conn[c].out
      /\ conn'[c].up = <<>> \/ conn'[c].up = Append(<<>>, f)
  BY <1>3, <1>6, Zenon DEF Becomes
<1>8. conn'[c].up \in Seq(RelayMessage) /\ Len(conn'[c].up) <= 1
  <2>1. PICK t : t = Append(<<>>, f)
    BY Zenon
  <2>2. t \in Seq(RelayMessage) /\ Len(t) = 1
    BY <1>5, <2>1
  <2>3. CASE conn'[c].up = <<>>
    <3>1. Len(conn'[c].up) = 0 /\ conn'[c].up \in Seq(RelayMessage)
      BY <2>3, RangeEmpty, Zenon
    <3> QED
      BY <3>1
  <2>4. CASE conn'[c].up = t
    BY <2>2, <2>4
  <2> QED
    BY <1>7, <2>1, <2>3, <2>4, Zenon
<1>9. Carries(conn'[c])
  BY <1>3, <1>7, <1>8, Zenon DEF Carries
<1>10. ~Works(c)'
  BY <1>3, <1>7, Zenon DEF Works
<1>11. /\ cli' \in [Devices -> Client] /\ \A e \in Devices \ {d} : cli'[e] = cli[e]
       /\ cli'[d].st = "open" /\ cli'[d].req = "none" /\ cli'[d].conn = c
  BY <1>1, <1>2, <1>3, ClientSets, Zenon DEF Running
<1> QED
  BY <1>1, <1>2, <1>3, <1>7, <1>9, <1>10, <1>11, ClientKeeps, Zenon

\* The answer goes up the connection the request came on.
LEMMA ReplyForwards ==
  ASSUME RelayInv, Forwarding, NEW d \in Devices, ClientReplies(d)
  PROVE  Forwarding'
<1>1. cli[d].st = "busy" /\ client(d, "open", "none") /\ UNCHANGED <<pending, req>>
  BY Zenon DEF ClientReplies
<1>2. PICK c \in Conns : c = cli[d].conn
  BY <1>1, InSession, Zenon
<1>3. /\ conn[c].dev = d /\ conn \in Seq(Connection) /\ Carries(conn[c]) /\ cli \in [Devices -> Client]
      /\ cli[d].req \in Requests /\ conn[c].srv \notin Registering
  BY <1>1, <1>2, InSession, Zenon DEF HoldsRequest, RelayInv, ClientsOK, ClientOK
<1>4. PICK status \in {"hub", "403"} :
         conn' = SendUp(c, [type |-> "response", id |-> cli[d].req, status |-> status])
  BY <1>2, Zenon DEF ClientReplies, Forwarded, Forbidden
<1>5. PICK f : f = [type |-> "response", id |-> cli[d].req, status |-> status]
  BY Zenon
<1>6. f \in RelayMessage /\ f.type = "response" /\ f.id = cli[d].req
  BY <1>3, <1>5, Zenon DEF RelayMessage
<1>7. Becomes(c, conn[c].srv, IF conn[c].cut THEN conn[c].up ELSE Append(conn[c].up, f), conn[c].down,
              conn[c].out, conn[c].cut)
  BY <1>3, <1>4, <1>5, SendShape, Zenon
<1>8. /\ OnlyConn(c) /\ conn'[c].srv = conn[c].srv /\ conn'[c].down = conn[c].down
      /\ conn'[c].out = conn[c].out /\ conn'[c].cut = conn[c].cut
      /\ conn'[c].up = IF conn[c].cut THEN conn[c].up ELSE Append(conn[c].up, f)
  BY <1>7, Zenon DEF Becomes
<1>9. conn[c].up \in Seq(RelayMessage)
  BY <1>3, Zenon DEF Carries
<1>10. Range(Append(conn[c].up, f)) = Range(conn[c].up) \cup {f} /\ Append(conn[c].up, f) \in Seq(RelayMessage)
  BY <1>6, <1>9, RangeAppend, SMTT(40)
<1>11. Carries(conn'[c])
  BY <1>3, <1>6, <1>8, <1>9, <1>10, Zenon DEF Carries
<1>12. /\ cli' \in [Devices -> Client] /\ \A e \in Devices \ {d} : cli'[e] = cli[e]
       /\ cli'[d].st = "open" /\ cli'[d].req = "none" /\ cli'[d].conn = c
  BY <1>1, <1>2, <1>3, ClientSets, Zenon DEF Running
<1>13. conn'[c].dev = d
  BY <1>3, <1>8, Zenon DEF OnlyConn
<1>14. Works(c)' => Works(c)
  BY <1>1, <1>2, <1>3, <1>8, ZenonT(40) DEF Works, Attached
<1>15. ASSUME NEW r \in pending, Works(c)', OnItsWay(r, c) PROVE OnItsWay(r, c)'
  <2>1. conn'[c].up = Append(conn[c].up, f)
    BY <1>8, <1>15, Zenon DEF Works
  <2>2. Replied(r, conn[c].up) \/ cli[d].req = r => Replied(r, conn'[c].up)
    BY <1>6, <1>10, <2>1, Zenon DEF Replied
  <2> QED
    BY <1>3, <1>8, <1>15, <2>2, Zenon DEF OnItsWay
<1> QED
  BY <1>1, <1>2, <1>3, <1>8, <1>11, <1>12, <1>14, <1>15, ClientKeeps, ZenonT(40)

\* A frame is read: a request is taken on, a registration is noted or gives up
\* the session.
LEMMA ReadForwards ==
  ASSUME RelayInv, Forwarding, NEW d \in Devices, ClientReads(d)
  PROVE  Forwarding'
<1>1. cli[d].st = "open" /\ UNCHANGED <<pending, req>>
  BY Zenon DEF ClientReads
<1>2. PICK c \in Conns : c = cli[d].conn
  BY <1>1, InSession, Zenon
<1>3. /\ conn[c].dev = d /\ conn \in Seq(Connection) /\ Carries(conn[c]) /\ cli \in [Devices -> Client]
      /\ cli[d].req = "none"
  BY <1>1, <1>2, InSession, Zenon DEF HoldsRequest
<1>4. PICK frame : frame = Head(conn[c].down)
  OBVIOUS
<1>5. /\ conn[c].down # <<>> /\ conn' = ReadFrame(c)
      /\ \/ frame.type = "registered" /\ client(d, IF frame.ok THEN "open" ELSE "backoff", "none")
         \/ frame.type = "request" /\ client(d, "busy", frame.id)
  BY <1>2, <1>4, ZenonT(40) DEF ClientReads
<1>6. conn[c].down \in Seq(RelayMessage)
  BY <1>3, Zenon DEF Carries
<1>7. /\ Range(conn[c].down) = {frame} \cup Range(Tail(conn[c].down))
      /\ frame \in RelayMessage /\ Tail(conn[c].down) \in Seq(RelayMessage)
  BY <1>4, <1>5, <1>6, RangeTail
<1>8. frame.type = "request" => frame.id \in Requests
  BY <1>7, Zenon DEF RelayMessage
<1>9. Becomes(c, conn[c].srv, conn[c].up, Tail(conn[c].down), conn[c].out, conn[c].cut)
  BY <1>3, <1>5, ReadShape, Zenon
<1>10. /\ OnlyConn(c) /\ conn'[c].srv = conn[c].srv /\ conn'[c].up = conn[c].up
       /\ conn'[c].down = Tail(conn[c].down) /\ conn'[c].out = conn[c].out
       /\ conn'[c].cut = conn[c].cut
  BY <1>9, Zenon DEF Becomes
<1>11. Carries(conn'[c])
  BY <1>3, <1>7, <1>10, Zenon DEF Carries
<1>12. PICK st \in Running, r \in Requests \cup {"none"} :
          /\ client(d, st, r)
          /\ \/ frame.type = "registered" /\ st \in {"open", "backoff"} /\ r = "none"
             \/ frame.type = "request" /\ st = "busy" /\ r = frame.id /\ r \in Requests
  BY <1>5, <1>8, Zenon DEF Running
<1>13. /\ cli' \in [Devices -> Client] /\ \A e \in Devices \ {d} : cli'[e] = cli[e]
       /\ cli'[d].st = st /\ cli'[d].req = r /\ cli'[d].conn = c
  BY <1>2, <1>3, <1>12, ClientSets, SMTT(40)
<1>14. conn'[c].dev = d
  BY <1>3, <1>10, Zenon DEF OnlyConn
<1>15. Works(c)' => Works(c)
  BY <1>1, <1>2, <1>3, <1>10, Zenon DEF Works, Attached
<1>16. ASSUME NEW q \in pending, OnItsWay(q, c) PROVE OnItsWay(q, c)'
  <2>1. q # "none"
    BY RelayConstants, Zenon DEF Forwarding, PendingExact
  <2>2. Asked(q, conn[c].down) => Asked(q, conn'[c].down) \/ (frame.type = "request" /\ frame.id = q)
    BY <1>7, <1>10, Zenon DEF Asked
  <2>3. Asked(q, conn[c].down) => Asked(q, conn'[c].down) \/ cli'[d].req = q
    BY <1>12, <1>13, <2>2, Zenon
  <2> QED
    BY <1>3, <1>10, <1>14, <1>16, <2>1, <2>3, Zenon DEF OnItsWay, Replied
<1> QED
  BY <1>1, <1>2, <1>3, <1>10, <1>11, <1>12, <1>13, <1>15, <1>16, ClientKeeps, Zenon

\* The session is over.
LEMMA EndForwards ==
  ASSUME RelayInv, Forwarding, NEW d \in Devices, SessionEnds(d)
  PROVE  Forwarding'
<1>1. /\ cli[d].st = "open" /\ client(d, "backoff", "none") /\ UNCHANGED <<conn, pending, req>>
  BY Zenon DEF SessionEnds, netVars
<1>2. cli \in [Devices -> Client] /\ HoldsRequest(d)
  BY <1>1, InSession, Zenon
<1>3. /\ \A e \in Devices \ {d} : cli'[e] = cli[e]
      /\ cli'[d].st = "backoff" /\ cli'[d].req = "none" /\ cli'[d].conn = cli[d].conn
  BY <1>1, <1>2, ClientSets, Zenon DEF Running
<1> QED
  BY <1>1, <1>2, <1>3, DetachedForwards, Zenon DEF HoldsRequest

-----------------------------------------------------------------------------
(* The theorem *)

\* It holds when no phone has asked yet.
LEMMA RequestInit == Init => RequestInv
<1> SUFFICES ASSUME Init PROVE RequestInv
  OBVIOUS
<1>1. Counters
  BY RelayConstants DEF Init, Counters
<1>2. Conns = {} /\ Len(conn) = 0
  BY SMTT(40) DEF Init, Conns
<1>3. Carriage /\ Directed
  BY <1>2, RelayConstants, SMTT(40) DEF Init, Carriage, Directed, NoReq
<1>4. Holding
  BY <1>2 DEF Init, Holding, HoldsRequest, Off
<1>5. NoReq \in Request /\ NoReq.st = "idle" /\ NoReq.from = "none"
  BY Zenon DEF NoReq, Request
<1>6. req \in [Requests -> Request] /\ PendingExact /\ OwnAnswer /\ Moving
  BY <1>5, Zenon DEF Init, PendingExact, OwnAnswer, Moving
<1> QED
  BY <1>1, <1>3, <1>4, <1>6, Zenon DEF RequestInv, Forwarding

\* Every step keeps the requests accounted for.
LEMMA RequestNext ==
  ASSUME RelayInv, RequestInv, [Next]_vars
  PROVE  RequestInv'
<1>1. Counters'
  BY CountersNext, Zenon DEF RequestInv
<1>2. Forwarding /\ Counters
  BY Zenon DEF RequestInv
<1>3. CASE Tick \/ NewWindow \/ UNCHANGED vars
  <2>1. UNCHANGED <<conn, cli, pending, req>>
    BY <1>3, Zenon DEF Tick, NewWindow, vars, netVars
  <2> QED
    BY <1>1, <1>2, <2>1, NothingForwards, Zenon DEF RequestInv
<1>4. CASE RelayRestarts
  BY <1>1, <1>2, <1>4, RestartForwards, Zenon DEF RequestInv
<1>5. ASSUME NEW d \in Devices,
             load_or_create(d) \/ HubEnds(d) \/ Connect(d) \/ SendRegister(d)
               \/ ClientReads(d) \/ ClientReplies(d) \/ SessionEnds(d)
      PROVE  Forwarding'
  BY <1>2, <1>5, ProcessForwards, ConnectForwards, RegisterForwards, ReadForwards, ReplyForwards,
     EndForwards, Zenon
<1>6. ASSUME NEW d \in Devices, NEW r \in Requests, PairRequest(r, d)
      PROVE  Forwarding'
  BY <1>2, <1>6, PairForwards, Zenon
<1>7. ASSUME NEW c \in Conns, SocketEnds(c) \/ ReadRegister(c) \/ Accept(c) \/ ReadResponse(c)
                                 \/ WriteOut(c) \/ Cut(c)
      PROVE  Forwarding'
  BY <1>2, <1>7, SocketForwards, AcceptForwards, ResponseForwards, Zenon
<1>8. ASSUME NEW r \in Requests, Abandon(r)
      PROVE  Forwarding'
  BY <1>2, <1>8, AnswerForwards, Zenon DEF Abandon
<1>9. ASSUME NEW r \in Requests, TrySend(r)
      PROVE  Forwarding'
  BY <1>2, <1>9, TrySendForwards, Zenon
<1> QED
  BY <1>1, <1>3, <1>4, <1>5, <1>6, <1>7, <1>8, <1>9, Zenon DEF Next, RequestInv

\* Every forwarded request is accounted for, for any number of Hubs, phones and
\* connections, wherever the relay, a Hub or the network fails: it is pending
\* exactly while a phone waits, on its way as long as its connection works, and
\* answered with its own answer (forward_to_hub, handle_hub_socket, run_session).
THEOREM RequestsAreAccounted == Spec => []RequestsAccounted
<1>1. RelayInv /\ RequestInv /\ [Next]_vars => RequestInv'
  BY RequestNext, Zenon
<1>2. RelayInv /\ RequestInv => RequestsAccounted
  <2> SUFFICES ASSUME RelayInv, RequestInv PROVE RequestsAccounted
    OBVIOUS
  <2>1. Forwarding /\ Counters /\ PendingExact /\ OwnAnswer
    BY Zenon DEF RequestInv, Forwarding
  <2>2. NothingSwallowed
    <3> SUFFICES ASSUME NEW r \in pending, Works(req[r].conn)
                 PROVE  LET c == req[r].conn IN
                        \/ r \in Range(conn[c].out)
                        \/ \E i \in DOMAIN conn[c].down :
                              conn[c].down[i].type = "request" /\ conn[c].down[i].id = r
                        \/ cli[conn[c].dev].req = r
                        \/ \E i \in DOMAIN conn[c].up :
                              conn[c].up[i].type = "response" /\ conn[c].up[i].id = r
      BY Zenon DEF NothingSwallowed, Works
    <3>1. OnItsWay(r, req[r].conn)
      BY <2>1, Zenon DEF Forwarding, Moving
    <3> QED
      BY <3>1, Zenon DEF OnItsWay, Asked, Replied, Range
  <2>3. TypeOK
    <3>1. ASSUME NEW d \in Devices
          PROVE  /\ file[d].st \in {"absent", "torn", "saved"}
                 /\ cli[d].st \in Running \cup {"off"}
                 /\ cli[d].conn \in 0..MaxConns
                 /\ hubs[d] \in 0..Len(conn) /\ lastReg[d] \in 0..Len(conn)
      <4>1. file[d] \in File /\ cli[d] \in Client /\ hubs[d] \in Nat /\ lastReg[d] \in Nat
            /\ Len(conn) \in Nat /\ Len(conn) <= MaxConns /\ cli[d].conn <= Len(conn)
        BY <2>1, SMTT(40) DEF RelayInv, Types, Forwarding, Carriage, Holding, HoldsRequest
      <4>2. file[d].st \in {"absent", "torn", "saved"} /\ cli[d].st \in Running \cup {"off"}
            /\ cli[d].conn \in Nat
        BY <4>1, Zenon DEF File, Client
      <4>3. lastReg[d] \in 0..Len(conn) /\ (hubs[d] # 0 => hubs[d] = lastReg[d])
        BY <4>1 DEF RelayInv, ServedOK, LastRegisteredServed, Conns
      <4> QED
        BY <4>1, <4>2, <4>3, RelayConstants, SMTT(40)
    <3>2. ASSUME NEW c \in Conns
          PROVE  /\ conn[c].srv \in {"new", "checked", "registered", "closed"}
                 /\ Len(conn[c].out) <= OutCap
                 /\ Range(conn[c].up \o conn[c].down) \subseteq RelayMessage
      <4>1. conn[c] \in Connection /\ Carries(conn[c])
        BY <2>1, AConnection, Zenon DEF RelayInv, Types, Forwarding, Carriage
      <4>2. PICK s : s = conn[c].up \o conn[c].down
        BY Zenon
      <4>3. s \in Seq(RelayMessage)
        BY <4>1, <4>2, SMTT(40) DEF Carries
      <4>4. \A i \in DOMAIN s : s[i] \in RelayMessage
        BY <4>3
      <4>5. Range(conn[c].up \o conn[c].down) \subseteq RelayMessage
        BY <4>2, <4>4, Zenon DEF Range
      <4> QED
        BY <4>1, <4>5, Fields, Zenon DEF Carries
    <3>3. \A r \in Requests : req[r].st \in {"idle", "found", "wait", "done"}
      BY <2>1, Zenon DEF Forwarding, Request
    <3>4. pending \subseteq Requests /\ refusedKey \subseteq Devices
      BY <2>1, Zenon DEF PendingExact, RelayInv, NeverLockedOut
    <3> QED
      BY <2>1, <3>1, <3>2, <3>3, <3>4, Zenon DEF TypeOK, Counters
  <2> QED
    BY <2>1, <2>2, <2>3, Zenon DEF RequestsAccounted
<1> QED
  BY RelayInvariance, RequestInit, <1>1, <1>2, PTL DEF Spec
=============================================================================
