------------------------------- MODULE Relay -------------------------------
(***************************************************************************)
(* The public pairing relay (relay/server.rs), the relay client of each    *)
(* Hub (relay/client.rs) and the identity a Hub registers with             *)
(* (relay/device.rs).  A Hub keeps one WebSocket to the relay; a phone's   *)
(* request travels down it and the Hub's answer travels back.  Connections *)
(* are numbered in the order the relay accepts them (NEXT_CONN_ID).        *)
(*                                                                         *)
(* A connection may be cut without either side being told: frames sent on  *)
(* it are lost, the Hub gives up after its idle timeout and the relay when *)
(* a write fails.  A Hub process may end and start again, and so may the   *)
(* relay, which keeps everything in memory.                                *)
(***************************************************************************)
EXTENDS Naturals, Sequences, FiniteSets, Functions

CONSTANTS
  Devices,      \* device ids, one per Hub
  Requests,     \* requests of phones; a request id is never used twice
  MaxHubs,      \* MAX_REGISTERED_HUBS
  OutCap,       \* HUB_OUTBOUND_CAPACITY
  PairMax,      \* PAIR_RATE_MAX, for the one address all phones share
  Skew,         \* REGISTER_MAX_SKEW_SECS
  MaxTime,      \* bound: last second of the clock
  MaxConns,     \* bound: connections the relay accepts
  MaxFaults     \* bound: cuts, ends of a Hub and of the relay

ASSUME RelayConstants ==
  /\ {MaxHubs, OutCap, PairMax, Skew, MaxTime, MaxConns, MaxFaults} \subseteq Nat
  /\ "none" \notin Requests    \* it stands for no request

VARIABLES
  now,        \* the clock (unix_now), the same for everyone
  faults,
  file,       \* device_identity.json and the key in it, per device
  cli,        \* the relay client of each Hub process
  conn,       \* the connections accepted so far
  hubs,       \* RelayState.hubs: device -> connection (0: no entry)
  boundKey,   \* RelayState.device_keys (0: not bound)
  nonces,     \* RelayState.used_register_nonces
  pairCount,  \* the pairing limiter's bucket
  pending,    \* RelayState.pending
  req,        \* the requests of phones
  lastReg,    \* history: the connection that registered last, per device
  refusedKey  \* history: devices refused because of their key

netVars   == <<conn, hubs, pending, req>>
regVars   == <<boundKey, nonces, lastReg, refusedKey>>
vars == <<now, faults, file, cli, netVars, regVars, pairCount>>

Conns   == 1..Len(conn)
Running == {"backoff", "opening", "open", "busy"}
Off     == [st |-> "off", conn |-> 0, key |-> 0, req |-> "none"]
NoFile  == [st |-> "absent", key |-> 0]
NoReq   == [st |-> "idle", dev |-> "none", conn |-> 0, answer |-> "none", from |-> "none"]

\* The frames of the protocol; pings are left out.
RelayMessage ==
  [type : {"register"}, key : Nat, ts : 0..MaxTime]
    \cup [type : {"registered"}, ok : BOOLEAN]
    \cup [type : {"request"}, id : Requests]
    \cup [type : {"response"}, id : Requests, status : {"hub", "403"}]

Init ==
  /\ now = 0 /\ faults = 0
  /\ file = [d \in Devices |-> NoFile]
  /\ cli = [d \in Devices |-> Off]
  /\ conn = <<>>
  /\ hubs = [d \in Devices |-> 0]
  /\ boundKey = [d \in Devices |-> 0]
  /\ nonces = {} /\ pairCount = 0 /\ pending = {}
  /\ req = [r \in Requests |-> NoReq]
  /\ lastReg = [d \in Devices |-> 0]
  /\ refusedKey = {}

Fault   == faults < MaxFaults /\ faults' = faults + 1
NoFault == UNCHANGED faults

\* The client of device d still holds its end of connection c.
Attached(c) == /\ cli[conn[c].dev].conn = c
               /\ cli[conn[c].dev].st \in {"opening", "open", "busy"}

Tick == /\ now < MaxTime /\ now' = now + 1
        /\ UNCHANGED <<faults, file, cli, netVars, regVars, pairCount>>

-----------------------------------------------------------------------------
(* The identity and the Hub process *)

Identity(d, key) == cli' = [cli EXCEPT ![d] = [Off EXCEPT !.st = "backoff", !.key = key]]

\* A generated key differs from the one the relay knows for this device.
NewKey(d) == boundKey[d] + 1

Loaded(d) == /\ file[d].st = "saved"
             /\ Identity(d, file[d].key)
             /\ UNCHANGED file

Created(d) == /\ file[d].st = "absent"
              /\ file' = [file EXCEPT ![d] = [st |-> "saved", key |-> NewKey(d)]]
              /\ Identity(d, NewKey(d))

\* Mutant: the result of save() is dropped, and the Hub runs with the key.
SaveFailsSilently(d) == /\ file[d].st = "absent"
                        /\ Identity(d, NewKey(d))
                        /\ UNCHANGED file

\* save() fails and the start with it: nothing is written, or the process ends
\* in the middle of the write.
SaveFails(d) == /\ file[d].st = "absent"
                /\ \E left \in {"absent", "torn"} : file' = [file EXCEPT ![d].st = left]
                /\ UNCHANGED cli

\* A Hub that starts reads the identity file, or makes a key and saves it.
\* A file that does not parse ends the start.
load_or_create(d) ==
  /\ cli[d].st = "off"
  /\ Loaded(d) \/ Created(d) \/ SaveFails(d)
  /\ NoFault
  /\ UNCHANGED <<now, netVars, regVars, pairCount>>

\* The Hub shuts down or is killed; its socket is closed either way.
HubEnds(d) == /\ cli[d].st \in Running
              /\ cli' = [cli EXCEPT ![d] = Off]
              /\ Fault
              /\ UNCHANGED <<now, file, netVars, regVars, pairCount>>

-----------------------------------------------------------------------------
(* The relay client: run_relay_loop and run_session *)

client(d, st, r) == cli' = [cli EXCEPT ![d].st = st, ![d].req = r]

\* connect_async: the relay accepts a socket and waits for a Register.
Connect(d) ==
  /\ cli[d].st = "backoff"
  /\ Len(conn) < MaxConns
  /\ conn' = Append(conn, [dev |-> d, srv |-> "new", up |-> <<>>, down |-> <<>>,
                           out |-> <<>>, cut |-> FALSE])
  /\ cli' = [cli EXCEPT ![d].st = "opening", ![d].conn = Len(conn) + 1]
  /\ NoFault
  /\ UNCHANGED <<now, file, hubs, pending, req, regVars, pairCount>>

\* The network: a frame sent on a cut connection, or to a side that is gone, is lost.
SendUp(c, frame) == IF conn[c].cut THEN conn ELSE [conn EXCEPT ![c].up = Append(@, frame)]
Push(f, c, frame) == IF conn[c].cut \/ ~Attached(c) THEN f
                     ELSE [f EXCEPT ![c].down = Append(@, frame)]

sign_register(d) == [type |-> "register", key |-> cli[d].key, ts |-> now]

SendRegister(d) ==
  /\ cli[d].st = "opening"
  /\ conn' = SendUp(cli[d].conn, sign_register(d))
  /\ client(d, "open", "none")
  /\ NoFault
  /\ UNCHANGED <<now, file, hubs, pending, req, regVars, pairCount>>

ReadFrame(c) == [conn EXCEPT ![c].down = Tail(@)]

\* A text frame from the relay.  A refused registration ends the session; a
\* request is handled before the next frame is read.
ClientReads(d) ==
  LET c == cli[d].conn IN
  /\ cli[d].st = "open" /\ conn[c].down # <<>> /\ ~conn[c].cut
  /\ LET frame == Head(conn[c].down) IN
     /\ conn' = ReadFrame(c)
     /\ \/ frame.type = "registered" /\ client(d, IF frame.ok THEN "open" ELSE "backoff", "none")
        \/ frame.type = "request"    /\ client(d, "busy", frame.id)
  /\ NoFault
  /\ UNCHANGED <<now, file, hubs, pending, req, regVars, pairCount>>

\* forward_to_hub: the status of the local Hub, or 502 when it does not answer.
Forwarded == "hub"
\* A request whose path is_allowed_relay_path refuses.
Forbidden == "403"

\* The reply goes back on the connection the request came on.
ClientReplies(d) ==
  LET c == cli[d].conn IN
  /\ cli[d].st = "busy"
  /\ \E status \in {Forwarded, Forbidden} :
       conn' = SendUp(c, [type |-> "response", id |-> cli[d].req, status |-> status])
  /\ client(d, "open", "none")
  /\ NoFault
  /\ UNCHANGED <<now, file, hubs, pending, req, regVars, pairCount>>

\* What ends a session: the relay closed the socket and all it sent is read, or
\* nothing came for WS_IDLE_TIMEOUT_SECS.  The relay pings an open connection
\* more often than that, so only a cut one is idle.
SessionOver(c) == \/ conn[c].cut
                  \/ conn[c].srv = "closed" /\ conn[c].down = <<>>

\* The loop reconnects after RECONNECT_SECS, whatever ended the session.
SessionEnds(d) ==
  /\ cli[d].st = "open"
  /\ SessionOver(cli[d].conn)
  /\ client(d, "backoff", "none")
  /\ NoFault
  /\ UNCHANGED <<now, file, netVars, regVars, pairCount>>

-----------------------------------------------------------------------------
(* The relay's task for one connection: handle_hub_socket *)

Done(status, from) == [NoReq EXCEPT !.st = "done", !.answer = status, !.from = from]
Answer(r, status) == req' = [req EXCEPT ![r] = Done(status, "none")]

\* Mutant: the entry is removed whichever connection it belongs to.
EvictAny(c) == IF conn[c].srv = "registered" THEN [hubs EXCEPT ![conn[c].dev] = 0] ELSE hubs

\* Only the entry that still belongs to this connection is removed.
Evict(c) == IF hubs[conn[c].dev] = c THEN [hubs EXCEPT ![conn[c].dev] = 0] ELSE hubs

\* break: the task drops its queue and cleans up, having sent the last frame.
Break(c, f) == /\ conn' = [f EXCEPT ![c].srv = "closed", ![c].up = <<>>, ![c].out = <<>>]
               /\ hubs' = Evict(c)

Refused == [type |-> "registered", ok |-> FALSE]

\* Nothing registered within REGISTER_TIMEOUT; or a ping or a frame cannot be
\* written; or the client's side is closed and everything it sent is read.
SocketEnds(c) ==
  /\ conn[c].srv \in {"new", "registered"}
  /\ \/ conn[c].srv = "new" /\ conn[c].up = <<>>
     \/ conn[c].srv = "registered" /\ (conn[c].cut \/ ~Attached(c))
  /\ Break(c, conn)
  /\ NoFault
  /\ UNCHANGED <<now, file, cli, pending, req, regVars, pairCount>>

Shift(c) == [conn EXCEPT ![c].up = Tail(@)]

\* A Register frame: the cap on Hubs is checked first, before the signature.
ReadRegister(c) ==
  LET d == conn[c].dev IN
  /\ conn[c].srv = "new" /\ conn[c].up # <<>>
  /\ IF hubs[d] = 0 /\ Cardinality({e \in Devices : hubs[e] # 0}) >= MaxHubs
     THEN Break(c, Push(conn, c, Refused))
     ELSE conn' = [conn EXCEPT ![c].srv = "checked"] /\ UNCHANGED hubs
  /\ NoFault
  /\ UNCHANGED <<now, file, cli, pending, req, regVars, pairCount>>

Abs(a, b) == IF a > b THEN a - b ELSE b - a

\* The time stamp is within the skew (signatures are taken to be valid).
verify_register(frame) == Abs(now, frame.ts) <= Skew

\* The nonces left after the eviction, and whether this one is among them.
Live == {n \in nonces : now - n.seen < Skew}
Fresh(d, frame) == ~\E n \in Live : n.dev = d /\ n.ts = frame.ts

\* The key is bound to the device by its first registration.
OwnKey(d, frame) == boundKey[d] \in {0, frame.key}

accept_registration(d, frame) ==
  /\ nonces' = CASE ~verify_register(frame) -> nonces
                 [] verify_register(frame) /\ ~Fresh(d, frame) -> Live
                 [] OTHER -> Live \cup {[dev |-> d, ts |-> frame.ts, seen |-> now]}
  /\ refusedKey' = IF verify_register(frame) /\ Fresh(d, frame) /\ ~OwnKey(d, frame)
                   THEN refusedKey \cup {d} ELSE refusedKey

\* The registration is verified outside the lock of the map, and the handle
\* inserted after it: other connections may have registered meanwhile.
Accept(c) ==
  LET d == conn[c].dev
      frame == Head(conn[c].up)
  IN
  /\ conn[c].srv = "checked"
  /\ accept_registration(d, frame)
  /\ IF verify_register(frame) /\ Fresh(d, frame) /\ OwnKey(d, frame)
     THEN /\ boundKey' = [boundKey EXCEPT ![d] = frame.key]
          /\ hubs' = [hubs EXCEPT ![d] = c]
          /\ lastReg' = [lastReg EXCEPT ![d] = c]
          /\ conn' = [Push(Shift(c), c, [type |-> "registered", ok |-> TRUE])
                        EXCEPT ![c].srv = "registered"]
     ELSE /\ Break(c, Push(conn, c, Refused))
          /\ UNCHANGED <<boundKey, lastReg>>
  /\ NoFault
  /\ UNCHANGED <<now, file, cli, pending, req, pairCount>>

\* A Response frame completes the pending request of its id, if it still waits.
ReadResponse(c) ==
  /\ conn[c].srv = "registered" /\ conn[c].up # <<>>
  /\ LET frame == Head(conn[c].up) IN
     /\ pending' = pending \ {frame.id}
     /\ req' = IF frame.id \notin pending THEN req
               ELSE [req EXCEPT ![frame.id] = Done(frame.status, frame.id)]
  /\ conn' = Shift(c)
  /\ NoFault
  /\ UNCHANGED <<now, file, cli, hubs, regVars, pairCount>>

\* A request leaves the Hub's queue for the socket.
WriteOut(c) ==
  /\ conn[c].srv = "registered" /\ conn[c].out # <<>>
  /\ conn' = Push([conn EXCEPT ![c].out = Tail(@)], c, [type |-> "request", id |-> Head(conn[c].out)])
  /\ NoFault
  /\ UNCHANGED <<now, file, cli, hubs, pending, req, regVars, pairCount>>

-----------------------------------------------------------------------------
(* The relay's HTTP side: pair_page, pair_confirm, forward_to_hub *)

\* The limiter first, then the handle of the Hub is copied out of the map.
PairRequest(r, d) ==
  /\ req[r].st = "idle"
  /\ IF pairCount >= PairMax THEN Answer(r, "429") /\ UNCHANGED pairCount
     ELSE /\ pairCount' = pairCount + 1
          /\ IF hubs[d] = 0 THEN Answer(r, "503")
             ELSE req' = [req EXCEPT ![r].st = "found", ![r].dev = d, ![r].conn = hubs[d]]
  /\ NoFault
  /\ UNCHANGED <<now, file, cli, conn, hubs, pending, regVars>>

\* The limiter's window (PAIR_RATE_WINDOW_SECS) is over.
NewWindow == /\ pairCount > 0 /\ pairCount' = 0 /\ NoFault
             /\ UNCHANGED <<now, file, cli, netVars, regVars>>

\* Mutant: the guard is made after the send, so that a refused send leaves the entry.
TrySendLeaks(r) ==
  LET c == req[r].conn IN
  /\ req[r].st = "found"
  /\ pending' = pending \cup {r}
  /\ IF conn[c].srv = "closed" \/ Len(conn[c].out) >= OutCap
     THEN Answer(r, "503") /\ UNCHANGED conn
     ELSE /\ conn' = [conn EXCEPT ![c].out = Append(@, r)]
          /\ req' = [req EXCEPT ![r].st = "wait"]
  /\ NoFault
  /\ UNCHANGED <<now, file, cli, hubs, regVars, pairCount>>

\* The request becomes pending and is queued; a queue that is full, or whose
\* connection has ended meanwhile, is a 503 and the guard clears the entry.
TrySend(r) ==
  LET c == req[r].conn IN
  /\ req[r].st = "found"
  /\ IF conn[c].srv = "closed" \/ Len(conn[c].out) >= OutCap
     THEN Answer(r, "503") /\ UNCHANGED <<conn, pending>>
     ELSE /\ conn' = [conn EXCEPT ![c].out = Append(@, r)]
          /\ req' = [req EXCEPT ![r].st = "wait"]
          /\ pending' = pending \cup {r}
  /\ NoFault
  /\ UNCHANGED <<now, file, cli, hubs, regVars, pairCount>>

\* REQUEST_TIMEOUT passes, or the phone goes away: the guard clears the entry.
Abandon(r) ==
  /\ req[r].st = "wait"
  /\ Answer(r, "504")
  /\ pending' = pending \ {r}
  /\ NoFault
  /\ UNCHANGED <<now, file, cli, conn, hubs, regVars, pairCount>>

-----------------------------------------------------------------------------
(* Faults *)

Cut(c) == /\ conn[c].srv # "closed" /\ ~conn[c].cut
          /\ conn' = [conn EXCEPT ![c].cut = TRUE, ![c].down = <<>>]
          /\ Fault
          /\ UNCHANGED <<now, file, cli, hubs, pending, req, regVars, pairCount>>

\* The relay process ends and starts again with nothing (RelayState).
RelayRestarts ==
  /\ Fault
  /\ conn' = [c \in Conns |-> [conn[c] EXCEPT !.srv = "closed", !.up = <<>>, !.out = <<>>]]
  /\ hubs' = [d \in Devices |-> 0]
  /\ boundKey' = [d \in Devices |-> 0]
  /\ nonces' = {} /\ pending' = {} /\ pairCount' = 0
  /\ req' = [r \in Requests |-> IF req[r].st \in {"found", "wait"}
                                THEN Done("504", "none") ELSE req[r]]
  /\ UNCHANGED <<now, file, cli, lastReg, refusedKey>>

Next ==
  \/ Tick \/ NewWindow \/ RelayRestarts
  \/ \E d \in Devices : \/ load_or_create(d) \/ HubEnds(d) \/ Connect(d) \/ SendRegister(d)
                        \/ ClientReads(d) \/ ClientReplies(d) \/ SessionEnds(d)
                        \/ \E r \in Requests : PairRequest(r, d)
  \/ \E c \in Conns : \/ SocketEnds(c) \/ ReadRegister(c) \/ Accept(c) \/ ReadResponse(c)
                      \/ WriteOut(c) \/ Cut(c)
  \/ \E r \in Requests : TrySend(r) \/ Abandon(r)

Spec == Init /\ [][Next]_vars

-----------------------------------------------------------------------------
(* Properties *)

\* The variables have the types of RelayState, the client and its files.
TypeOK ==
  /\ now \in 0..MaxTime /\ faults \in 0..MaxFaults /\ pairCount \in 0..PairMax
  /\ \A d \in Devices : /\ file[d].st \in {"absent", "torn", "saved"}
                         /\ cli[d].st \in Running \cup {"off"}
                         /\ cli[d].conn \in 0..MaxConns
                         /\ hubs[d] \in 0..Len(conn) /\ lastReg[d] \in 0..Len(conn)
  /\ \A c \in Conns : /\ conn[c].srv \in {"new", "checked", "registered", "closed"}
                       /\ Len(conn[c].out) <= OutCap
                       /\ Range(conn[c].up \o conn[c].down) \subseteq RelayMessage
  /\ \A r \in Requests : req[r].st \in {"idle", "found", "wait", "done"}
  /\ pending \subseteq Requests /\ refusedKey \subseteq Devices

\* The entry of a device is the connection that registered last, for as long
\* as that connection is open, and no entry outlives its connection: the end
\* of an older connection does not evict the newer one (handle_hub_socket).
LastRegisteredServed ==
  \A d \in Devices :
    /\ hubs[d] # 0 => hubs[d] = lastReg[d]
    /\ lastReg[d] # 0 => ((hubs[d] # 0) <=> (conn[lastReg[d]].srv = "registered"))

\* Exactly the requests that wait for their Hub are pending: refusals, late
\* answers, timeouts and phones that leave clear their entry (PendingRequestGuard).
PendingExact == pending = {r \in Requests : req[r].st = "wait"}

\* A phone gets the answer to its own request, also when an earlier request of
\* the same Hub was given up before its answer came.
OwnAnswer == \A r \in Requests : req[r].from \in {"none", r}

\* A request that waits on a working connection is on its way somewhere: in the
\* queue, on the wire, with the client, or answered and on the way back.
NothingSwallowed ==
  \A r \in pending :
    LET c == req[r].conn IN
    Attached(c) /\ ~conn[c].cut /\ conn[c].srv = "registered" =>
      \/ r \in Range(conn[c].out)
      \/ \E i \in DOMAIN conn[c].down : conn[c].down[i].type = "request" /\ conn[c].down[i].id = r
      \/ cli[conn[c].dev].req = r
      \/ \E i \in DOMAIN conn[c].up : conn[c].up[i].type = "response" /\ conn[c].up[i].id = r

\* However a start fails, no Hub comes back with a key other than the one its
\* device id is bound to at the relay (load_or_create, accept_registration).
NeverLockedOut == refusedKey = {}

\* Every forwarded request is accounted for: pending exactly while a phone
\* waits, on its way as long as its connection works, and answered with its own
\* answer (forward_to_hub, handle_hub_socket, PendingRequestGuard).
RequestsAccounted == TypeOK /\ PendingExact /\ OwnAnswer /\ NothingSwallowed
=============================================================================
