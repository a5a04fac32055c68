--------------------------- MODULE UpstreamProofs ---------------------------
(***************************************************************************)
(* Proofs about the connection to iLink, for any sizes of the channels and *)
(* any bounds: messages come in exactly once, the admin page tells the     *)
(* truth, and no renewal of the session is lost.                           *)
(*                                                                         *)
(* The invariant has a part for each.  Traffic follows the messages from   *)
(* iLink to the dispatcher: the batch is what the cursor ran ahead of.     *)
(* Tokens relates the token in use, the stored one and those issued.  Told *)
(* follows the events on their way to the page: what matters is not the    *)
(* code in the cache but the last one that is going to be there.  Control  *)
(* says where the polling loop and the login may be.                       *)
(***************************************************************************)
EXTENDS Upstream, TLAPS

LoginUnderWay ==
  [why : {"boot", "probe", "manual", "expired"}, at : {"code", "scan", "save", "use"},
   attempts : 0..MaxAttempts]

\* The last message that iLink will not give again to this process.
Reach == IF cursor > confirmed THEN cursor ELSE confirmed

Covered(m) == m \in handled \cup Elements(chan) \cup Elements(batch) \cup gone

\* The batch is what the cursor ran ahead of: in order, and not received yet.
BatchOK ==
  /\ batch \in Seq(Nat) /\ (batch # <<>> => pc = "deliver")
  /\ \A i \in 1..Len(batch) : last < batch[i] /\ batch[i] <= cursor
  /\ \A i, j \in 1..Len(batch) : i < j => batch[i] < batch[j]

Traffic ==
  /\ sent \in 0..MaxMsgs /\ confirmed \in 0..sent /\ cursor \in 0..sent
  /\ last \in 0..cursor
  /\ chan \in Seq(Nat) /\ Len(chan) <= ChannelSize
  /\ BatchOK
  /\ NoGap

\* The stored token is one of those issued, and ILINK_TOKEN the first of them.
Tokens ==
  /\ issued \in 0..MaxTokens /\ session \in 0..MaxTokens /\ token \in 0..MaxTokens
  /\ db \in 0..issued
  /\ env \in EnvTokens /\ (env = "good" => issued > 0)

Control ==
  /\ pc \in {"down", "probe", "top", "poll", "deliver", "sleep", "login", "exited"}
  /\ IF pc = "login" THEN login \in LoginUnderWay ELSE login = NoLogin
  /\ status \in {"unknown", "connected", "needs_login", "logging_in"}
  /\ clicks \in 0..ReloginCap
  /\ faults \in 0..MaxFaults

\* What the page is going to be told last.
LastEvent == IF events = <<>> THEN cache ELSE events[Len(events)]

Page ==
  /\ codes \in 0..MaxCodes
  /\ events \in Seq(0..MaxCodes) /\ cache \in 0..MaxCodes
  /\ sub \in [at : {"off", "read", "missed", "on", "behind"}, shown : Nat]
  /\ sub.at \in {"read", "on"} => sub.shown = cache

\* Before the loop runs, a login has no page.
Early == pc = "down" \/ (pc = "login" /\ login.why = "boot")

\* A login that is past its code, or that ended other than with an error.
Settled == IF pc = "login" THEN login.at \in {"save", "use"} ELSE outcome \in {"ok", "expired"}

\* Whoever settles a login tells the page that there is no code any more.
Told ==
  /\ Early => events = <<>> /\ cache = NoCode
  /\ Settled => LastEvent = NoCode

UpstreamInv == Traffic /\ Tokens /\ Control /\ Page /\ Told /\ ConnectedMeansAccepted

-----------------------------------------------------------------------------
(* Sequences *)

\* What is in a sequence after a message is put at its end.
LEMMA ElementsAppend ==
  ASSUME NEW s \in Seq(Nat), NEW e \in Nat
  PROVE  Elements(Append(s, e)) = Elements(s) \cup {e}
<1>1. PICK t : t = Append(s, e)
  BY Zenon
<1>2. /\ Len(s) \in Nat /\ DOMAIN s = 1..Len(s) /\ DOMAIN t = 1..(Len(s) + 1)
      /\ t[Len(s) + 1] = e /\ \A i \in 1..Len(s) : t[i] = s[i]
  BY <1>1
<1>3. ASSUME NEW x \in Elements(t) PROVE x \in Elements(s) \cup {e}
  <2>1. PICK i \in 1..(Len(s) + 1) : x = t[i]
    BY <1>2, Zenon DEF Elements
  <2>2. i \in 1..Len(s) \/ i = Len(s) + 1
    BY <1>2
  <2> QED
    BY <1>2, <2>1, <2>2, Zenon DEF Elements
<1>4. ASSUME NEW x \in Elements(s) \cup {e} PROVE x \in Elements(t)
  <2>1. \A i \in 1..Len(s) : i \in 1..(Len(s) + 1)
    BY <1>2
  <2>2. Len(s) + 1 \in 1..(Len(s) + 1)
    BY <1>2
  <2> QED
    BY <1>2, <2>1, <2>2, Zenon DEF Elements
<1> QED
  BY <1>1, <1>3, <1>4, Zenon

\* A sequence holds its head and what is in its tail.
LEMMA ElementsHead ==
  ASSUME NEW s \in Seq(Nat), s # <<>>
  PROVE  /\ Elements(s) = {Head(s)} \cup Elements(Tail(s))
         /\ Head(s) \in Nat /\ Tail(s) \in Seq(Nat)
         /\ Len(Tail(s)) = Len(s) - 1
         /\ \A i \in 1..Len(Tail(s)) : Tail(s)[i] = s[i + 1]
<1>1. /\ Len(s) \in Nat /\ Len(s) > 0 /\ Head(s) = s[1] /\ DOMAIN s = 1..Len(s)
      /\ \A i \in 1..Len(s) : s[i] \in Nat
  OBVIOUS
<1>2. /\ Tail(s) \in Seq(Nat) /\ Len(Tail(s)) = Len(s) - 1
      /\ DOMAIN Tail(s) = 1..(Len(s) - 1)
      /\ \A i \in 1..(Len(s) - 1) : Tail(s)[i] = s[i + 1]
  BY <1>1
<1>3. ASSUME NEW x \in Elements(s) PROVE x \in {Head(s)} \cup Elements(Tail(s))
  <2>1. PICK i \in 1..Len(s) : x = s[i]
    BY <1>1, Zenon DEF Elements
  <2>2. CASE i = 1
    BY <1>1, <2>1, <2>2, Zenon
  <2>3. CASE i # 1
    <3>1. i - 1 \in 1..(Len(s) - 1) /\ Tail(s)[i - 1] = s[i]
      BY <1>1, <1>2, <2>3
    <3> QED
      BY <1>2, <2>1, <3>1, Zenon DEF Elements
  <2> QED
    BY <2>2, <2>3, Zenon
<1>4. ASSUME NEW x \in {Head(s)} \cup Elements(Tail(s)) PROVE x \in Elements(s)
  <2>1. CASE x = Head(s)
    BY <1>1, <2>1 DEF Elements
  <2>2. CASE x \in Elements(Tail(s))
    <3>1. PICK i \in 1..(Len(s) - 1) : x = Tail(s)[i]
      BY <1>2, <2>2, Zenon DEF Elements
    <3>2. i + 1 \in 1..Len(s) /\ x = s[i + 1]
      BY <1>1, <1>2, <3>1
    <3> QED
      BY <1>1, <3>2, Zenon DEF Elements
  <2> QED
    BY <2>1, <2>2, Zenon
<1> QED
  BY <1>1, <1>2, <1>3, <1>4

\* An empty sequence holds nothing.
LEMMA ElementsEmpty == Elements(<<>>) = {}
  BY DEF Elements

-----------------------------------------------------------------------------
(* Messages *)

\* getupdates answers with the messages after its start, up to the last one.
LEMMA DeliveredFacts ==
  ASSUME Traffic
  PROVE  /\ Start \in 0..sent /\ Start <= Reach
         /\ last <= Start
         /\ Delivered \in Seq(Nat) /\ Len(Delivered) = sent - Start
         /\ \A i \in 1..Len(Delivered) : Delivered[i] = Start + i
         /\ \A m \in (Start + 1)..sent : m \in Elements(Delivered)
<1>1. /\ sent \in Nat /\ confirmed \in 0..sent /\ cursor \in 0..sent /\ last \in 0..cursor
  BY DEF Traffic
<1>2. Start \in 0..sent /\ Start <= Reach /\ last <= Start
  BY <1>1 DEF Start, Reach
<1> HIDE DEF Start
<1>3. PICK n \in Nat : n = sent - Start
  BY <1>1, <1>2
<1>4. Delivered = [i \in 1..n |-> Start + i]
  BY <1>3, Zenon DEF Delivered
<1>5. \A i \in 1..n : Start + i \in Nat
  BY <1>1, <1>2
<1>6. Delivered \in Seq(Nat) /\ Len(Delivered) = n /\ DOMAIN Delivered = 1..n
  BY <1>4, <1>5
<1>7. \A i \in 1..n : Delivered[i] = Start + i
  BY <1>4, Zenon
<1>8. ASSUME NEW m \in (Start + 1)..sent PROVE m \in Elements(Delivered)
  <2>1. m - Start \in 1..n /\ Start + (m - Start) = m
    BY <1>1, <1>2, <1>3
  <2> QED
    BY <1>6, <1>7, <2>1, Zenon DEF Elements
<1> QED
  BY <1>2, <1>3, <1>6, <1>7, <1>8, Zenon

\* No gap opens when every message that was covered still is, and so are those
\* that come within reach.
LEMMA GapStep ==
  ASSUME Traffic, Reach' \in Nat, \A m \in Nat : Covered(m) => Covered(m)',
         \A m \in 1..Reach' : m > Reach => Covered(m)'
  PROVE  NoGap'
<1>1. Reach \in Nat /\ \A m \in 1..Reach : Covered(m)
  BY DEF Traffic, NoGap, Reach, Covered
<1>2. \A m \in 1..Reach' : Covered(m)'
  BY <1>1
<1> QED
  BY <1>2, Zenon DEF NoGap, Reach, Covered

trafficVars == <<sent, confirmed, cursor, last, chan, batch, handled, gone>>

\* A step that leaves the messages alone and does not leave a batch behind.
LEMMA TrafficKept ==
  ASSUME Traffic, UNCHANGED trafficVars, pc = "deliver" => pc' = "deliver"
  PROVE  Traffic'
  BY Zenon DEF Traffic, trafficVars, BatchOK, NoGap, Elements

\* A message more at iLink is not within reach yet.
LEMMA UserSendsTraffic ==
  ASSUME Traffic, UserSends
  PROVE  Traffic'
<1>1. /\ sent < MaxMsgs /\ sent' = sent + 1
      /\ UNCHANGED <<confirmed, cursor, last, chan, batch, handled, gone, pc>>
  BY Zenon DEF UserSends, loop, task, past
<1>2. BatchOK' /\ NoGap'
  BY <1>1, Zenon DEF Traffic, BatchOK, NoGap, Elements
<1> QED
  BY <1>1, <1>2, UpstreamConstants DEF Traffic

\* The end of a process: what it held is lost, and counted as such.
LEMMA ProcessEndsTraffic ==
  ASSUME Traffic, ProcessEnds
  PROVE  Traffic'
<1>1. /\ cursor' = 0 /\ batch' = <<>> /\ chan' = <<>> /\ last' = 0
      /\ gone' = gone \cup Elements(chan) \cup Elements(batch)
      /\ UNCHANGED <<sent, confirmed, handled>>
  BY Zenon DEF ProcessEnds, conn
<1>2. BatchOK'
  BY <1>1 DEF BatchOK
<1>3. NoGap'
  <2>1. \A m \in Nat : Covered(m) => Covered(m)'
    BY <1>1, Zenon DEF Covered
  <2>2. Reach' \in Nat /\ Reach' <= Reach /\ Reach \in Nat
    BY <1>1 DEF Reach, Traffic
  <2> QED
    BY <2>1, <2>2, GapStep
<1> QED
  BY <1>1, <1>2, <1>3, UpstreamConstants DEF Traffic

\* The probe: it takes the cursor over, and drops what came with it.
LEMMA ProbeTraffic ==
  ASSUME Traffic, Probe
  PROVE  Traffic'
<1>1. pc = "probe" /\ batch = <<>> /\ UNCHANGED <<sent, confirmed, chan, batch, handled>>
  BY Zenon DEF Probe, Traffic, BatchOK, conn, task
<1>2. CASE /\ cursor' = sent /\ last' = sent
           /\ gone' = gone \cup Elements(Delivered)
  <2>1. BatchOK'
    BY <1>1, <1>2 DEF BatchOK
  <2>2. Reach' \in Nat /\ Reach' <= sent
    BY <1>1, <1>2 DEF Reach, Traffic
  <2>3. \A m \in Nat : Covered(m) => Covered(m)'
    BY <1>1, <1>2, Zenon DEF Covered
  <2>4. ASSUME NEW m \in 1..Reach', m > Reach PROVE Covered(m)'
    <3>1. Start \in 0..sent /\ Start <= Reach /\ Reach \in Nat /\ sent \in Nat
      BY DeliveredFacts DEF Traffic, Reach
    <3>2. m \in (Start + 1)..sent
      BY <2>2, <2>4, <3>1
    <3>3. m \in gone'
      BY <1>2, <3>2, DeliveredFacts, Zenon
    <3> QED
      BY <3>3, Zenon DEF Covered
  <2>5. NoGap'
    BY <2>2, <2>3, <2>4, GapStep, Zenon
  <2> QED
    BY <1>1, <1>2, <2>1, <2>5 DEF Traffic
<1>3. CASE UNCHANGED <<cursor, gone, last>>
  BY <1>1, <1>3, TrafficKept, Zenon DEF trafficVars
<1> QED
  BY <1>2, <1>3, Zenon DEF Probe

\* A long-poll that is answered: its cursor is confirmed, and what comes after
\* it is the batch.
LEMMA PollOkTraffic ==
  ASSUME Traffic, PollOk
  PROVE  Traffic'
<1>1. /\ pc = "poll" /\ pc' = "deliver" /\ batch = <<>>
      /\ confirmed' = Reach /\ batch' = Delivered /\ cursor' = sent
      /\ UNCHANGED <<sent, chan, handled, gone, last>>
  BY Zenon DEF PollOk, Traffic, BatchOK, task, Confirm, Reach
<1>2. /\ sent \in Nat /\ Start \in 0..sent /\ Start <= Reach /\ last <= Start
      /\ Reach \in 0..sent /\ last \in Nat
  BY DeliveredFacts DEF Traffic, Reach
<1>3. BatchOK'
  <2>1. /\ batch' \in Seq(Nat) /\ Len(batch') = sent - Start
        /\ \A i \in 1..Len(batch') : batch'[i] = Start + i
    BY <1>1, DeliveredFacts, Zenon
  <2>2. \A i \in 1..Len(batch') : last < batch'[i] /\ batch'[i] <= sent
    BY <1>2, <2>1
  <2>3. \A i, j \in 1..Len(batch') : i < j => batch'[i] < batch'[j]
    BY <1>2, <2>1
  <2> QED
    BY <1>1, <2>1, <2>2, <2>3, Zenon DEF BatchOK
<1>4. NoGap'
  <2>1. \A m \in Nat : Covered(m) => Covered(m)'
    BY <1>1, ElementsEmpty, Zenon DEF Covered
  <2>2. Reach' \in Nat /\ Reach' <= sent
    BY <1>1, <1>2 DEF Reach
  <2>3. ASSUME NEW m \in 1..Reach', m > Reach PROVE Covered(m)'
    <3>1. m \in (Start + 1)..sent
      BY <1>2, <2>2, <2>3
    <3>2. m \in Elements(batch')
      BY <1>1, <3>1, DeliveredFacts, Zenon
    <3>3. Elements(batch)' = Elements(batch')
      BY Zenon DEF Elements
    <3> QED
      BY <3>2, <3>3, Zenon DEF Covered
  <2> QED
    BY <2>1, <2>2, <2>3, GapStep, Zenon
<1>5. last' \in 0..cursor' /\ cursor' \in 0..sent'
  BY <1>1, <1>2
<1> QED
  BY <1>1, <1>2, <1>3, <1>4, <1>5, Zenon DEF Traffic

\* A response that is lost: at most the cursor is confirmed.
LEMMA PollFailsTraffic ==
  ASSUME Traffic, PollFails
  PROVE  Traffic'
<1>1. /\ pc = "poll" /\ batch = <<>> /\ confirmed' \in {confirmed, Reach}
      /\ UNCHANGED <<sent, cursor, batch, chan, handled, gone, last>>
  BY Zenon DEF PollFails, Traffic, BatchOK, task, past, Confirm, Reach
<1>2. BatchOK'
  BY <1>1, Zenon DEF BatchOK, Traffic
<1>3. Reach' = Reach /\ confirmed' \in 0..sent
  BY <1>1, Zenon DEF Reach, Traffic
<1>4. NoGap'
  <2>1. \A m \in Nat : Covered(m) => Covered(m)'
    BY <1>1, Zenon DEF Covered
  <2>2. Reach \in Nat
    BY DEF Traffic, Reach
  <2> QED
    BY <1>3, <2>1, <2>2, GapStep
<1> QED
  BY <1>1, <1>2, <1>3, <1>4, Zenon DEF Traffic

\* A message of the batch goes to the channel, or the batch is dropped because
\* the dispatcher is gone.
LEMMA DeliverTraffic ==
  ASSUME Traffic, Deliver
  PROVE  Traffic'
<1>1. /\ pc = "deliver" /\ UNCHANGED <<sent, confirmed, cursor, handled>>
      /\ batch \in Seq(Nat) /\ chan \in Seq(Nat)
  BY Zenon DEF Deliver, Traffic, BatchOK, conn
<1>2. Reach' = Reach /\ Reach \in Nat
  BY <1>1 DEF Reach, Traffic
<1>3. CASE batch = <<>> /\ UNCHANGED <<batch, chan, gone, last>>
  BY <1>1, <1>3, Zenon DEF Traffic, BatchOK, NoGap, Elements
<1>4. CASE /\ batch # <<>> /\ gone' = gone \cup Elements(batch) /\ batch' = <<>>
           /\ UNCHANGED <<chan, last>>
  <2>1. BatchOK'
    BY <1>4 DEF BatchOK
  <2>2. \A m \in Nat : Covered(m) => Covered(m)'
    BY <1>1, <1>4, Zenon DEF Covered
  <2>3. NoGap'
    BY <1>2, <2>2, GapStep
  <2> QED
    BY <1>1, <1>4, <2>1, <2>3, Zenon DEF Traffic
<1>5. CASE /\ batch # <<>> /\ Len(chan) < ChannelSize
           /\ chan' = Append(chan, Head(batch)) /\ batch' = Tail(batch)
           /\ last' = Head(batch) /\ UNCHANGED <<pc, gone>>
  <2>1. /\ Head(batch) \in Nat /\ Tail(batch) \in Seq(Nat) /\ Len(Tail(batch)) = Len(batch) - 1
        /\ \A i \in 1..Len(Tail(batch)) : Tail(batch)[i] = batch[i + 1]
        /\ Elements(batch) = {Head(batch)} \cup Elements(Tail(batch))
    BY <1>1, <1>5, ElementsHead, Zenon
  <2>2. Len(batch) \in Nat /\ 1 \in 1..Len(batch) /\ Head(batch) = batch[1]
    BY <1>1, <1>5
  <2>3. BatchOK'
    <3>1. \A i \in 1..Len(batch') :
             i + 1 \in 1..Len(batch) /\ batch'[i] = batch[i + 1]
      BY <1>5, <2>1, <2>2
    <3>2. /\ \A i \in 1..Len(batch) : batch[i] <= cursor
          /\ \A i, j \in 1..Len(batch) : i < j => batch[i] < batch[j]
      BY Zenon DEF Traffic, BatchOK
    <3>3. Len(batch') \in Nat
      BY <1>5, <2>1
    <3>4. ASSUME NEW i \in 1..Len(batch') PROVE last' < batch'[i] /\ batch'[i] <= cursor
      <4>1. 1 < i + 1 /\ i + 1 \in 1..Len(batch) /\ batch'[i] = batch[i + 1]
        BY <3>1, <3>3
      <4> QED
        BY <1>5, <2>2, <3>2, <4>1, Zenon
    <3>5. \A i, j \in 1..Len(batch') : i < j => batch'[i] < batch'[j]
      BY <2>2, <3>1, <3>2, <3>3
    <3> QED
      BY <1>1, <1>5, <2>1, <3>4, <3>5, Zenon DEF BatchOK
  <2>4. \A m \in Nat : Covered(m) => Covered(m)'
    <3>1. Elements(chan') = Elements(chan) \cup {Head(batch)}
      BY <1>1, <1>5, ElementsAppend
    <3>2. Elements(batch) = {Head(batch)} \cup Elements(batch')
      BY <1>5, <2>1, Zenon
    <3>3. Elements(chan)' = Elements(chan') /\ Elements(batch)' = Elements(batch')
      BY Zenon DEF Elements
    <3> QED
      BY <1>1, <1>5, <3>1, <3>2, <3>3, Zenon DEF Covered
  <2>5. NoGap'
    BY <1>2, <2>4, GapStep
  <2>6. last' \in 0..cursor'
    BY <1>1, <1>5, <2>1, <2>2 DEF Traffic, BatchOK
  <2>7. chan' \in Seq(Nat) /\ Len(chan') <= ChannelSize
    BY <1>1, <1>5, <2>1, UpstreamConstants
  <2> QED
    BY <1>1, <2>3, <2>5, <2>6, <2>7, Zenon DEF Traffic
<1> QED
  BY <1>3, <1>4, <1>5, Zenon DEF Deliver

\* The dispatcher takes a message, or goes and drops what is in the channel.
LEMMA DispatcherTraffic ==
  ASSUME Traffic, DispatcherStep
  PROVE  Traffic'
<1>1. /\ UNCHANGED <<sent, confirmed, cursor, last, batch, pc>> /\ chan \in Seq(Nat)
  BY Zenon DEF DispatcherStep, DispatcherTakes, DispatcherExits, Traffic, conn, loop
<1>2. Reach' = Reach /\ Reach \in Nat
  BY <1>1 DEF Reach, Traffic
<1>3. BatchOK'
  BY <1>1, Zenon DEF Traffic, BatchOK
<1>4. CASE DispatcherTakes
  <2>1. chan # <<>> /\ handled' = handled \cup {Head(chan)} /\ chan' = Tail(chan) /\ gone' = gone
    BY <1>4, Zenon DEF DispatcherTakes
  <2>2. /\ Tail(chan) \in Seq(Nat) /\ Len(Tail(chan)) = Len(chan) - 1
        /\ Elements(chan) = {Head(chan)} \cup Elements(Tail(chan))
    BY <1>1, <2>1, ElementsHead, Zenon
  <2>3. Elements(chan) = {Head(chan)} \cup Elements(chan)' /\ Elements(batch)' = Elements(batch)
    BY <1>1, <2>1, <2>2, Zenon DEF Elements
  <2>4. \A m \in Nat : Covered(m) => Covered(m)'
    BY <2>1, <2>3, Zenon DEF Covered
  <2>5. NoGap'
    BY <1>2, <2>4, GapStep
  <2>6. chan' \in Seq(Nat) /\ Len(chan') <= ChannelSize
    BY <1>1, <2>1, <2>2, UpstreamConstants DEF Traffic
  <2> QED
    BY <1>1, <1>3, <2>5, <2>6, Zenon DEF Traffic
<1>5. CASE DispatcherExits
  <2>1. chan' = <<>> /\ gone' = gone \cup Elements(chan) /\ handled' = handled
    BY <1>5, Zenon DEF DispatcherExits
  <2>2. \A m \in Nat : Covered(m) => Covered(m)'
    BY <1>1, <2>1, Zenon DEF Covered, Elements
  <2>3. NoGap'
    BY <1>2, <2>2, GapStep
  <2>4. chan' \in Seq(Nat) /\ Len(chan') <= ChannelSize
    BY <2>1, UpstreamConstants
  <2> QED
    BY <1>1, <1>3, <2>3, <2>4, Zenon DEF Traffic
<1> QED
  BY <1>4, <1>5, Zenon DEF DispatcherStep

\* A login that succeeds makes the cursor start over, with no batch left.
LEMMA UseTokenTraffic ==
  ASSUME Traffic, UseToken
  PROVE  Traffic'
<1>1. /\ pc = "login" /\ batch = <<>> /\ UNCHANGED <<sent, confirmed, chan, batch, handled, gone>>
  BY Zenon DEF UseToken, At, Traffic, BatchOK, conn
<1>2. CASE UNCHANGED <<cursor, last>>
  BY <1>1, <1>2, TrafficKept, Zenon DEF trafficVars
<1>3. CASE cursor' = 0 /\ last' = 0
  <2>1. BatchOK'
    BY <1>1 DEF BatchOK
  <2>2. \A m \in Nat : Covered(m) => Covered(m)'
    BY <1>1, Zenon DEF Covered
  <2>3. Reach' \in Nat /\ Reach' <= Reach /\ Reach \in Nat
    BY <1>1, <1>3 DEF Reach, Traffic
  <2>4. NoGap'
    BY <2>2, <2>3, GapStep
  <2> QED
    BY <1>1, <1>3, <2>1, <2>4 DEF Traffic
<1> QED
  BY <1>2, <1>3, Zenon DEF UseToken

\* Every step keeps the messages in order and accounted for.
LEMMA TrafficNext ==
  ASSUME Traffic, [Next]_vars
  PROVE  Traffic'
<1>1. CASE UserSends
  BY <1>1, UserSendsTraffic, Zenon
<1>2. CASE Crash \/ Stopped
  BY <1>2, ProcessEndsTraffic, Zenon DEF Crash, Stopped
<1>3. CASE Probe \/ PollOk \/ PollFails \/ Deliver
  BY <1>3, ProbeTraffic, PollOkTraffic, PollFailsTraffic, DeliverTraffic, Zenon
<1>4. CASE DispatcherStep
  BY <1>4, DispatcherTraffic, Zenon
<1>5. CASE UseToken
  BY <1>5, UseTokenTraffic, Zenon
<1>6. CASE SessionExpires \/ run_serve \/ ShutDown
  BY <1>6, TrafficKept, Zenon DEF SessionExpires, run_serve, ShutDown, trafficVars, conn, loop,
     task, past
<1>7. CASE Top \/ PollExpired \/ Interrupted \/ Awake
  BY <1>7, TrafficKept, Zenon DEF Top, PollExpired, Interrupted, Awake, trafficVars, conn, task, past
<1>8. CASE get_qrcode \/ StillWaiting \/ Confirmed
  BY <1>8, TrafficKept, Zenon DEF get_qrcode, StillWaiting, Confirmed, trafficVars, conn, loop, task, past
<1>9. CASE get_qrcodeFails \/ CodeExpires \/ CodeFails \/ save_credentials
  BY <1>9, TrafficKept, Zenon DEF get_qrcodeFails, CodeExpires, CodeFails, save_credentials, At,
     trafficVars, conn, task
<1>10. CASE PageStep
  BY <1>10, TrafficKept, Zenon DEF PageStep, admin_ilink_relogin, ForwardEvent, ReadCache, Subscribe,
     trafficVars, conn, loop, task, past
<1>11. CASE UNCHANGED vars
  BY <1>11, TrafficKept, Zenon DEF vars, trafficVars, conn, loop, task, past
<1> QED
  BY <1>1, <1>2, <1>3, <1>4, <1>5, <1>6, <1>7, <1>8, <1>9, <1>10, <1>11, Zenon
  DEF Next, LoginStep, LoopStep


-----------------------------------------------------------------------------
(* Tokens *)

\* The stored token is never newer than the last one issued.
LEMMA TokensNext ==
  ASSUME Tokens, [Next]_vars
  PROVE  Tokens'
<1> DEFINE tokenVars == <<issued, session, token, db, env>>
<1>1. CASE UNCHANGED tokenVars
  BY <1>1, Zenon DEF Tokens
<1>2. CASE run_serve
  <2>1. UNCHANGED <<issued, session, env>>
    BY <1>2, Zenon DEF run_serve
  <2>2. \/ token' = db /\ db' = db
        \/ env = "good" /\ token' = 1 /\ db' = 1
        \/ UNCHANGED <<token, db>>
    BY <1>2, Zenon DEF run_serve, resolve_token
  <2> QED
    BY <2>1, <2>2, UpstreamConstants DEF Tokens, MaxTokens
<1>3. CASE Crash \/ Stopped
  <2>1. token' = 0 /\ UNCHANGED <<issued, session, db, env>>
    BY <1>3, Zenon DEF Crash, Stopped, ProcessEnds, conn, NoToken
  <2> QED
    BY <2>1, UpstreamConstants DEF Tokens, MaxTokens
<1>4. CASE SessionExpires
  <2>1. session' = 0 /\ UNCHANGED <<issued, token, db, env>>
    BY <1>4, Zenon DEF SessionExpires, loop, NoToken
  <2> QED
    BY <2>1, UpstreamConstants DEF Tokens, MaxTokens
<1>5. CASE Confirmed
  <2>1. /\ issued < MaxTokens /\ issued' = issued + 1 /\ session' = issued + 1
        /\ UNCHANGED <<token, db, env>>
    BY <1>5, Zenon DEF Confirmed, loop
  <2> QED
    BY <2>1, UpstreamConstants DEF Tokens, MaxTokens
<1>6. CASE save_credentials
  <2>1. db' \in {db, issued} /\ UNCHANGED <<issued, session, token, env>>
    BY <1>6, Zenon DEF save_credentials
  <2> QED
    BY <2>1, UpstreamConstants DEF Tokens, MaxTokens
<1>7. CASE UseToken
  <2>1. token' = issued /\ UNCHANGED <<issued, session, db, env>>
    BY <1>7, Zenon DEF UseToken, conn
  <2> QED
    BY <2>1, UpstreamConstants, Zenon DEF Tokens, MaxTokens
<1>8. CASE UserSends \/ ShutDown \/ DispatcherStep \/ PageStep \/ UNCHANGED vars
  <2>1. UNCHANGED tokenVars
    BY <1>8, Zenon DEF UserSends, ShutDown, DispatcherStep, DispatcherTakes, DispatcherExits, PageStep,
       admin_ilink_relogin, ForwardEvent, ReadCache, Subscribe, vars, conn, loop
  <2> QED
    BY <1>1, <2>1, Zenon
<1>9. CASE LoopStep
  <2>1. UNCHANGED tokenVars
    BY <1>9, Zenon DEF LoopStep, Probe, Top, PollOk, PollExpired, PollFails, Interrupted, Awake, Deliver,
       conn
  <2> QED
    BY <1>1, <2>1, Zenon
<1>10. CASE get_qrcode \/ get_qrcodeFails \/ StillWaiting \/ CodeExpires \/ CodeFails
  <2>1. UNCHANGED tokenVars
    BY <1>10, Zenon DEF get_qrcode, get_qrcodeFails, StillWaiting, CodeExpires, CodeFails, conn, loop
  <2> QED
    BY <1>1, <2>1, Zenon
<1> QED
  BY <1>2, <1>3, <1>4, <1>5, <1>6, <1>7, <1>8, <1>9, <1>10, Zenon DEF Next, LoginStep

-----------------------------------------------------------------------------
(* Control *)

\* A step that changes neither the state of the loop nor what it waits for.
LEMMA ControlKept ==
  ASSUME Control, UNCHANGED <<pc, login, status, clicks>>, faults' \in 0..MaxFaults
  PROVE  Control'
  BY Zenon DEF Control

\* A step outside a login.
LEMMA ControlMoves ==
  ASSUME Control, pc' \in {"down", "probe", "top", "poll", "deliver", "sleep", "exited"},
         login' = NoLogin, clicks' \in 0..ReloginCap,
         status' \in {"unknown", "connected", "needs_login", "logging_in"},
         faults' \in 0..MaxFaults
  PROVE  Control'
  BY Zenon DEF Control

\* A step to a login or within one.
LEMMA ControlLogin ==
  ASSUME Control, pc' = "login", login' \in LoginUnderWay, clicks' \in 0..ReloginCap,
         status' \in {status, "logging_in"}, faults' \in 0..MaxFaults
  PROVE  Control'
  BY Zenon DEF Control

\* The number of faults stays within its bound.
LEMMA FaultsBounded ==
  ASSUME Control, Fault \/ NoFault
  PROVE  faults' \in 0..MaxFaults
  BY UpstreamConstants DEF Control, Fault, NoFault

\* A login begins with its code to be fetched.
LEMMA LoginBegins ==
  ASSUME NEW why \in {"boot", "probe", "manual", "expired"}
  PROVE  /\ Login(why) \in LoginUnderWay
         /\ Login(why).why = why /\ Login(why).at = "code"
  BY UpstreamConstants DEF Login, LoginUnderWay

\* A login goes on: it changes its step or counts an attempt.
LEMMA LoginGoesOn ==
  ASSUME NEW l \in LoginUnderWay, NEW step \in {"code", "scan", "save", "use"},
         NEW n \in 0..MaxAttempts
  PROVE  /\ [l EXCEPT !.at = step] \in LoginUnderWay
         /\ [l EXCEPT !.at = step].why = l.why /\ [l EXCEPT !.at = step].at = step
         /\ [l EXCEPT !.attempts = n] \in LoginUnderWay
         /\ [l EXCEPT !.attempts = n].why = l.why /\ [l EXCEPT !.attempts = n].at = l.at
  BY Zenon DEF LoginUnderWay

\* A login that fails leaves the loop somewhere else, or ends the process.
LEMMA LoginEnds ==
  ASSUME Control, NEW how, LoginFailed(how)
  PROVE  /\ pc' \in {"exited", "top", "sleep"} /\ login' = NoLogin /\ outcome' = how
         /\ status' \in {status, "needs_login"}
  BY Zenon DEF LoginFailed

\* Every step keeps the loop and its login in step with each other.
LEMMA ControlNext ==
  ASSUME Control, [Next]_vars
  PROVE  Control'
<1>1. CASE UserSends \/ ShutDown \/ DispatcherStep \/ UNCHANGED vars
  <2>1. UNCHANGED <<pc, login, status, clicks, faults>>
    BY <1>1, Zenon DEF UserSends, ShutDown, DispatcherStep, DispatcherTakes, DispatcherExits, vars, loop,
       relogin
  <2> QED
    BY <2>1, ControlKept, Zenon DEF Control
<1>2. CASE SessionExpires
  <2>1. UNCHANGED <<pc, login, status, clicks>> /\ Fault
    BY <1>2, Zenon DEF SessionExpires, loop, relogin
  <2> QED
    BY <2>1, ControlKept, FaultsBounded, Zenon
<1>3. CASE run_serve
  <2>1. /\ pc = "down" /\ NoFault /\ UNCHANGED <<status, clicks>>
        /\ \/ pc' = "probe" /\ login' = login
           \/ pc' = "login" /\ login' = Login("boot")
    BY <1>3, Zenon DEF run_serve, resolve_token, relogin
  <2>2. login = NoLogin /\ status' \in {"unknown", "connected", "needs_login", "logging_in"}
        /\ clicks' \in 0..ReloginCap
    BY <2>1, Zenon DEF Control
  <2> QED
    BY <2>1, <2>2, ControlMoves, ControlLogin, LoginBegins, FaultsBounded, Zenon
<1>4. CASE Crash \/ Stopped
  <2>1. /\ pc' = "down" /\ login' = NoLogin /\ status' = "unknown" /\ clicks' = 0
        /\ Fault \/ NoFault
    BY <1>4, Zenon DEF Crash, Stopped, ProcessEnds
  <2>2. clicks' \in 0..ReloginCap
    BY <2>1, UpstreamConstants
  <2> QED
    BY <2>1, <2>2, ControlMoves, FaultsBounded, Zenon
<1>5. CASE Probe
  <2>1. /\ pc = "probe" /\ clicks' = clicks /\ (Fault \/ NoFault)
        /\ \/ pc' = "top" /\ login' = login /\ status' \in {status, "connected"}
           \/ pc' = "login" /\ login' = Login("probe") /\ status' = "logging_in"
    BY <1>5, Zenon DEF Probe, Renew, relogin
  <2>2. login = NoLogin /\ clicks' \in 0..ReloginCap
        /\ status \in {"unknown", "connected", "needs_login", "logging_in"}
    BY <2>1, Zenon DEF Control
  <2> QED
    BY <2>1, <2>2, ControlMoves, ControlLogin, LoginBegins, FaultsBounded, Zenon
<1>6. CASE Top
  <2>1. /\ pc = "top" /\ NoFault
        /\ \/ pc' \in {"exited", "poll"} /\ UNCHANGED <<login, status, clicks>>
           \/ /\ pc' = "login" /\ login' = Login("manual") /\ status' = "logging_in"
              /\ clicks > 0 /\ clicks' = clicks - 1
    BY <1>6, Zenon DEF Top, Renew, NoFault
  <2>2. login = NoLogin /\ clicks' \in 0..ReloginCap
        /\ status \in {"unknown", "connected", "needs_login", "logging_in"}
    BY <2>1, UpstreamConstants DEF Control
  <2> QED
    BY <2>1, <2>2, ControlMoves, ControlLogin, LoginBegins, FaultsBounded, Zenon
<1>7. CASE PollExpired
  <2>1. /\ NoFault /\ clicks' = clicks
        /\ pc' = "login" /\ login' = Login("expired") /\ status' = "logging_in"
    BY <1>7, Zenon DEF PollExpired, Renew, NoFault, relogin
  <2>2. clicks' \in 0..ReloginCap
    BY <2>1, Zenon DEF Control
  <2> QED
    BY <2>1, <2>2, ControlLogin, LoginBegins, FaultsBounded, Zenon
<1>8. CASE PollOk \/ PollFails \/ Interrupted \/ Awake \/ Deliver
  <2>1. /\ pc \in {"poll", "sleep", "deliver"} /\ clicks' = clicks /\ (Fault \/ NoFault)
        /\ pc' \in {"top", "deliver", "sleep", "exited"}
        /\ login' = login /\ status' \in {status, "connected"}
    BY <1>8, Zenon DEF PollOk, PollFails, Interrupted, Awake, Deliver, NoFault, relogin
  <2>2. login = NoLogin /\ clicks' \in 0..ReloginCap
        /\ status \in {"unknown", "connected", "needs_login", "logging_in"}
    BY <2>1, Zenon DEF Control
  <2> QED
    BY <2>1, <2>2, ControlMoves, FaultsBounded, Zenon
<1>9. CASE LoginStep
  <2>1. /\ pc = "login" /\ login \in LoginUnderWay /\ clicks \in 0..ReloginCap /\ clicks' = clicks
        /\ status \in {"unknown", "connected", "needs_login", "logging_in"}
    BY <1>9, Zenon DEF LoginStep, get_qrcode, get_qrcodeFails, StillWaiting, CodeExpires, CodeFails,
       Confirmed, save_credentials, UseToken, At, relogin, Control
  <2>2. CASE get_qrcodeFails \/ CodeExpires \/ CodeFails \/ (save_credentials /\ pc' # pc)
    <3>1. (Fault \/ NoFault) /\ \E how \in {"error", "expired"} : LoginFailed(how)
      BY <2>2, Zenon DEF get_qrcodeFails, CodeExpires, CodeFails, save_credentials, NoFault
    <3>2. pc' \in {"exited", "top", "sleep"} /\ login' = NoLogin /\ status' \in {status, "needs_login"}
      BY <3>1, LoginEnds, Zenon
    <3> QED
      BY <2>1, <3>1, <3>2, ControlMoves, FaultsBounded, Zenon
  <2>3. CASE get_qrcode \/ Confirmed
    <3>1. NoFault /\ pc' = pc /\ status' = status
      BY <2>3, Zenon DEF get_qrcode, Confirmed, NoFault, loop
    <3>2. PICK step \in {"scan", "save"} : login' = [login EXCEPT !.at = step]
      BY <2>3, Zenon DEF get_qrcode, Confirmed
    <3>3. login' \in LoginUnderWay
      BY <2>1, <3>2, Zenon DEF LoginUnderWay
    <3> QED
      BY <2>1, <3>1, <3>3, ControlLogin, FaultsBounded, Zenon
  <2>4. CASE StillWaiting
    <3>1. /\ NoFault /\ pc' = pc /\ status' = status /\ login.attempts < MaxAttempts
          /\ login' = [login EXCEPT !.attempts = login.attempts + 1]
      BY <2>4, Zenon DEF StillWaiting, NoFault, loop
    <3>2. login.attempts + 1 \in 0..MaxAttempts
      BY <2>1, <3>1, UpstreamConstants DEF LoginUnderWay
    <3> QED
      BY <2>1, <3>1, <3>2, ControlLogin, LoginGoesOn, FaultsBounded, Zenon
  <2>5. CASE save_credentials /\ pc' = pc
    <3>1. /\ NoFault /\ pc' = "login" /\ status' = status
          /\ login' = [login EXCEPT !.at = "use"]
      BY <2>1, <2>5, LoginEnds, Zenon DEF save_credentials
    <3>2. 0 \in 0..MaxAttempts
      BY UpstreamConstants
    <3>3. login' \in LoginUnderWay
      BY <2>1, <3>1, <3>2, LoginGoesOn, Zenon
    <3> QED
      BY <2>1, <3>1, <3>3, ControlLogin, FaultsBounded, Zenon
  <2>6. CASE UseToken
    <3>1. /\ NoFault /\ pc' \in {"probe", "top"} /\ login' = NoLogin /\ status' \in {status, "connected"}
      BY <2>6, Zenon DEF UseToken, NoFault
    <3> QED
      BY <2>1, <3>1, ControlMoves, FaultsBounded, Zenon
  <2> QED
    BY <1>9, <2>2, <2>3, <2>4, <2>5, <2>6, Zenon DEF LoginStep
<1>10. CASE admin_ilink_relogin
  <2>1. /\ UNCHANGED <<pc, login, status, faults>>
        /\ clicks' \in {clicks, clicks + 1} /\ (clicks' # clicks => clicks < ReloginCap)
    BY <1>10, Zenon DEF admin_ilink_relogin, loop
  <2>2. clicks' \in 0..ReloginCap
    BY <2>1, UpstreamConstants DEF Control
  <2> QED
    BY <2>1, <2>2, Zenon DEF Control
<1>11. CASE ForwardEvent \/ ReadCache \/ Subscribe
  <2>1. UNCHANGED <<pc, login, status, clicks, faults>>
    BY <1>11, Zenon DEF ForwardEvent, ReadCache, Subscribe, loop, relogin
  <2> QED
    BY <2>1, ControlKept, Zenon DEF Control
<1> QED
  BY <1>1, <1>2, <1>3, <1>4, <1>5, <1>6, <1>7, <1>8, <1>9, <1>10, <1>11, Zenon
  DEF Next, LoopStep, PageStep

-----------------------------------------------------------------------------
(* The admin page *)

\* The tail of a sequence of events ends as the sequence does.
LEMMA TailEnds ==
  ASSUME NEW S, NEW s \in Seq(S), s # <<>>
  PROVE  /\ Tail(s) \in Seq(S) /\ Head(s) \in S /\ Head(s) = s[1]
         /\ Len(s) \in Nat /\ Len(s) > 0 /\ Len(Tail(s)) = Len(s) - 1
         /\ Len(s) = 1 => Tail(s) = <<>>
         /\ Len(s) > 1 => Tail(s) # <<>> /\ Tail(s)[Len(Tail(s))] = s[Len(s)]
<1>1. PICK t, n : t = Tail(s) /\ n = Len(s)
  BY Zenon
<1>2. /\ n \in Nat /\ n > 0 /\ Head(s) = s[1] /\ Head(s) \in S
      /\ t \in Seq(S) /\ Len(t) = n - 1
      /\ \A i \in 1..(n - 1) : t[i] = s[i + 1]
  BY <1>1
<1>3. n = 1 => t = <<>>
  BY <1>2
<1>4. n > 1 => t # <<>> /\ t[n - 1] = s[n]
  BY <1>2
<1> QED
  BY <1>1, <1>2, <1>3, <1>4, Zenon

\* An event sent to the page is the last one it is going to be told.
LEMMA EmitFacts ==
  ASSUME Page, NEW e \in 0..MaxCodes, Emit(e), UNCHANGED cache
  PROVE  /\ events' \in Seq(0..MaxCodes)
         /\ login.why = "boot" => events' = events
         /\ login.why # "boot" => LastEvent' = e
<1>1. CASE login.why = "boot"
  BY <1>1, Zenon DEF Emit, Page
<1>2. CASE login.why # "boot"
  <2>1. events' = Append(events, e) /\ events \in Seq(0..MaxCodes)
    BY <1>2, Zenon DEF Emit, Page
  <2>2. /\ events' \in Seq(0..MaxCodes) /\ events' # <<>>
        /\ events'[Len(events')] = e
    BY <2>1
  <2> QED
    BY <1>2, <2>2, Zenon DEF LastEvent
<1> QED
  BY <1>1, <1>2, Zenon

\* The bridge task passes an event on: the page is told nothing else.
LEMMA ForwardFacts ==
  ASSUME Page, ForwardEvent
  PROVE  /\ events' \in Seq(0..MaxCodes) /\ cache' \in 0..MaxCodes
         /\ LastEvent' = LastEvent
<1>1. events # <<>> /\ events' = Tail(events) /\ cache' = Head(events) /\ events \in Seq(0..MaxCodes)
  BY Zenon DEF ForwardEvent, Page
<1>2. PICK S : S = 0..MaxCodes
  OBVIOUS
<1>3. /\ events' \in Seq(S) /\ cache' \in S /\ cache' = events[1]
      /\ Len(events) \in Nat /\ Len(events) > 0
      /\ Len(events) = 1 => events' = <<>>
      /\ Len(events) > 1 => events' # <<>> /\ events'[Len(events')] = events[Len(events)]
  BY <1>1, <1>2, TailEnds, Zenon
<1>4. LastEvent' = LastEvent
  <2>1. LastEvent = events[Len(events)]
    BY <1>1, Zenon DEF LastEvent
  <2>2. CASE Len(events) = 1
    BY <1>3, <2>1, <2>2, Zenon DEF LastEvent
  <2>3. CASE Len(events) > 1
    BY <1>3, <2>1, <2>3, Zenon DEF LastEvent
  <2>4. PICK n \in Nat : n = Len(events) /\ n > 0
    BY <1>3, Zenon
  <2>5. n = 1 \/ n > 1
    BY <2>4
  <2> QED
    BY <2>2, <2>3, <2>4, <2>5, Zenon
<1> QED
  BY <1>2, <1>3, <1>4, Zenon

\* The code of a login is within the bound, and what the page shows is the
\* cached code unless it missed an event.
LEMMA PageNext ==
  ASSUME Page, [Next]_vars
  PROVE  Page'
<1> DEFINE pageVars == <<codes, events, cache, sub>>
<1>1. CASE UNCHANGED pageVars
  BY <1>1, Zenon DEF Page
<1>2. CASE Crash \/ Stopped
  <2>1. codes' = codes /\ events' = <<>> /\ cache' = 0 /\ sub' = [at |-> "off", shown |-> 0]
    BY <1>2, Zenon DEF Crash, Stopped, ProcessEnds, NoCode
  <2> QED
    BY <2>1, UpstreamConstants DEF Page
<1>3. CASE get_qrcode
  <2>1. codes < MaxCodes /\ codes' = codes + 1 /\ Emit(codes + 1) /\ UNCHANGED <<cache, sub>>
    BY <1>3, Zenon DEF get_qrcode, page
  <2>2. codes + 1 \in 0..MaxCodes
    BY <2>1, UpstreamConstants DEF Page
  <2>3. events' \in Seq(0..MaxCodes)
    BY <2>1, <2>2, EmitFacts, Zenon
  <2> QED
    BY <2>1, <2>2, <2>3, Zenon DEF Page
<1>4. CASE CodeExpires \/ Confirmed
  <2>1. Emit(0) /\ UNCHANGED <<codes, cache, sub>>
    BY <1>4, Zenon DEF CodeExpires, Confirmed, page, NoCode
  <2>2. 0 \in 0..MaxCodes
    BY UpstreamConstants
  <2>3. events' \in Seq(0..MaxCodes)
    BY <2>1, <2>2, EmitFacts, Zenon
  <2> QED
    BY <2>1, <2>3, Zenon DEF Page
<1>5. CASE ForwardEvent
  <2>1. cache' = Head(events) /\ sub' = Shown(Head(events)) /\ codes' = codes
    BY <1>5, Zenon DEF ForwardEvent
  <2>2. events' \in Seq(0..MaxCodes) /\ cache' \in 0..MaxCodes
    BY <1>5, ForwardFacts, Zenon
  <2>3. /\ sub' \in [at : {"off", "read", "missed", "on", "behind"}, shown : Nat]
        /\ sub'.at \in {"read", "on"} => sub'.shown = cache'
    <3>1. cache' \in Nat /\ sub \in [at : {"off", "read", "missed", "on", "behind"}, shown : Nat]
      BY <2>2, UpstreamConstants DEF Page
    <3>2. CASE sub.at \in {"on", "behind"}
      BY <2>1, <3>1, <3>2, Zenon DEF Shown
    <3>3. CASE sub.at \in {"read", "missed"}
      <4>1. sub' = [sub EXCEPT !.at = "missed"]
        BY <2>1, <3>3, Zenon DEF Shown
      <4> QED
        BY <3>1, <4>1, Zenon
    <3>4. CASE sub.at = "off"
      BY <2>1, <3>1, <3>4, Zenon DEF Shown
    <3> QED
      BY <3>1, <3>2, <3>3, <3>4, Zenon
  <2> QED
    BY <2>1, <2>2, <2>3, Zenon DEF Page
<1>6. CASE ReadCache
  <2>1. sub' = [at |-> "read", shown |-> cache] /\ UNCHANGED <<codes, events, cache>>
    BY <1>6, Zenon DEF ReadCache
  <2> QED
    BY <2>1, UpstreamConstants DEF Page
<1>7. CASE Subscribe
  <2>1. /\ sub.at \in {"read", "missed"} /\ UNCHANGED <<codes, events, cache>>
        /\ sub' = [sub EXCEPT !.at = IF sub.at = "read" THEN "on" ELSE "behind"]
    BY <1>7, Zenon DEF Subscribe
  <2> QED
    BY <2>1, Zenon DEF Page
<1>8. CASE UserSends \/ SessionExpires \/ run_serve \/ ShutDown \/ DispatcherStep \/ admin_ilink_relogin
             \/ UNCHANGED vars
  <2>1. UNCHANGED pageVars
    BY <1>8, Zenon DEF UserSends, SessionExpires, run_serve, ShutDown, DispatcherStep, DispatcherTakes,
       DispatcherExits, admin_ilink_relogin, vars, page
  <2> QED
    BY <1>1, <2>1, Zenon
<1>9. CASE LoopStep
  <2>1. UNCHANGED pageVars
    BY <1>9, Zenon DEF LoopStep, Probe, Top, PollOk, PollExpired, PollFails, Interrupted, Awake, Deliver,
       page
  <2> QED
    BY <1>1, <2>1, Zenon
<1>10. CASE get_qrcodeFails \/ StillWaiting \/ CodeFails \/ save_credentials \/ UseToken
  <2>1. UNCHANGED pageVars
    BY <1>10, Zenon DEF get_qrcodeFails, StillWaiting, CodeFails, save_credentials, UseToken, page
  <2> QED
    BY <1>1, <2>1, Zenon
<1> QED
  BY <1>2, <1>3, <1>4, <1>5, <1>6, <1>7, <1>8, <1>9, <1>10, Zenon DEF Next, LoginStep, PageStep

\* A step that sends the page nothing, and settles nothing.
LEMMA ToldKept ==
  ASSUME Told, UNCHANGED <<events, cache>>, Early' => Early, Settled' => Settled \/ Early
  PROVE  Told'
  BY Zenon DEF Told, LastEvent

\* A step of the loop outside a login that changes neither the outcome of the
\* last one nor what the page is told.
LEMMA ToldOutside ==
  ASSUME Told, UNCHANGED <<events, cache, outcome>>, pc # "login", pc' \notin {"down", "login"}
  PROVE  Told'
  BY ToldKept, Zenon DEF Early, Settled

\* A step that starts a login of the running Hub.
LEMMA ToldRenews ==
  ASSUME Told, UNCHANGED <<events, cache>>, pc' = "login", login'.why # "boot", login'.at = "code"
  PROVE  Told'
  BY ToldKept, Zenon DEF Early, Settled

\* A login that ends with an error tells the page nothing.
LEMMA ToldError ==
  ASSUME Told, UNCHANGED <<events, cache>>, pc' \in {"exited", "top", "sleep"}, outcome' = "error"
  PROVE  Told'
  BY ToldKept, Zenon DEF Early, Settled

\* Every step keeps the promise to the page.
LEMMA ToldNext ==
  ASSUME Told, Page, Control, [Next]_vars
  PROVE  Told'
<1>1. CASE UNCHANGED <<events, cache, pc, login, outcome>>
  BY <1>1, ToldKept, Zenon DEF Early, Settled
<1>2. CASE run_serve
  <2>1. /\ pc = "down" /\ UNCHANGED <<events, cache, outcome>>
        /\ pc' \in {"probe", "login"}
    BY <1>2, Zenon DEF run_serve, resolve_token, page, past
  <2> QED
    BY <2>1, ToldKept, Zenon DEF Early
<1>3. CASE Crash \/ Stopped
  BY <1>3, Zenon DEF Crash, Stopped, ProcessEnds, Told, LastEvent
<1>4. CASE Probe \/ Top \/ PollExpired
  <2>1. /\ pc \in {"probe", "top", "poll"} /\ UNCHANGED <<events, cache, outcome>>
        /\ \/ pc' \in {"top", "poll", "exited"}
           \/ pc' = "login" /\ \E why \in {"probe", "manual", "expired"} : login' = Login(why)
    BY <1>4, Zenon DEF Probe, Top, PollExpired, Renew, page, past
  <2>2. CASE pc' \in {"top", "poll", "exited"}
    BY <2>1, <2>2, ToldOutside, Zenon
  <2>3. CASE pc' = "login" /\ \E why \in {"probe", "manual", "expired"} : login' = Login(why)
    BY <2>1, <2>3, LoginBegins, ToldRenews, Zenon
  <2> QED
    BY <2>1, <2>2, <2>3, Zenon
<1>5. CASE PollOk \/ PollFails \/ Interrupted \/ Awake \/ Deliver
  <2>1. /\ pc \in {"poll", "sleep", "deliver"} /\ UNCHANGED <<events, cache, outcome>>
        /\ pc' \in {"top", "deliver", "sleep", "exited"}
    BY <1>5, Zenon DEF PollOk, PollFails, Interrupted, Awake, Deliver, page, past
  <2> QED
    BY <2>1, ToldOutside, Zenon
<1>6. CASE get_qrcodeFails \/ CodeFails \/ (save_credentials /\ pc' # pc)
  <2>1. LoginFailed("error") /\ UNCHANGED <<events, cache>>
    BY <1>6, Zenon DEF get_qrcodeFails, CodeFails, save_credentials, page
  <2> QED
    BY <2>1, LoginEnds, ToldError, Zenon
<1>7. CASE get_qrcode
  <2>1. /\ pc = "login" /\ pc' = "login" /\ cache' = cache /\ Emit(codes + 1)
        /\ codes < MaxCodes /\ login' = [login EXCEPT !.at = "scan"]
    BY <1>7, Zenon DEF get_qrcode, At, loop, page
  <2>2. login'.why = login.why /\ login'.at = "scan"
    BY <2>1, LoginGoesOn, UpstreamConstants DEF Control
  <2>3. codes + 1 \in 0..MaxCodes
    BY <2>1, UpstreamConstants DEF Page
  <2>4. login.why = "boot" => events' = events
    BY <2>1, <2>3, EmitFacts, Zenon
  <2> QED
    BY <2>1, <2>2, <2>4, Zenon DEF Told, Early, Settled
<1>8. CASE CodeExpires \/ Confirmed
  <2>1. /\ pc = "login" /\ cache' = cache /\ Emit(0) /\ pc' # "down"
        /\ pc' = "login" => login'.why = login.why
    <3>1. CASE CodeExpires
      BY <3>1, LoginEnds, Zenon DEF CodeExpires, At, page, NoCode
    <3>2. CASE Confirmed
      <4>1. login' = [login EXCEPT !.at = "save"] /\ pc = "login" /\ pc' = pc /\ cache' = cache /\ Emit(0)
        BY <3>2, Zenon DEF Confirmed, At, loop, page, NoCode
      <4> QED
        BY <4>1, LoginGoesOn, UpstreamConstants DEF Control
    <3> QED
      BY <1>8, <3>1, <3>2, Zenon
  <2>2. 0 \in 0..MaxCodes
    BY UpstreamConstants
  <2>3. /\ login.why = "boot" => events' = events
        /\ login.why # "boot" => LastEvent' = 0
    BY <2>1, <2>2, EmitFacts, Zenon
  <2>4. CASE login.why = "boot"
    <3>1. events' = <<>> /\ cache' = NoCode
      BY <2>1, <2>3, <2>4, Zenon DEF Told, Early
    <3> QED
      BY <3>1, Zenon DEF Told, LastEvent
  <2>5. CASE login.why # "boot"
    <3>1. ~Early'
      BY <2>1, <2>5, Zenon DEF Early
    <3> QED
      BY <2>3, <2>5, <3>1, Zenon DEF Told, NoCode
  <2> QED
    BY <2>4, <2>5, Zenon
<1>9. CASE StillWaiting \/ (save_credentials /\ pc' = pc)
  <2>1. /\ pc = "login" /\ pc' = "login" /\ UNCHANGED <<events, cache>>
        /\ login'.why = login.why /\ (login'.at \in {"save", "use"} => login.at \in {"save", "use"})
    <3>1. CASE StillWaiting
      <4>1. /\ pc = "login" /\ pc' = pc /\ UNCHANGED <<events, cache>> /\ login \in LoginUnderWay
            /\ login' = [login EXCEPT !.attempts = login.attempts + 1] /\ login.attempts < MaxAttempts
        BY <3>1, Zenon DEF StillWaiting, At, loop, page, Control
      <4>2. login.attempts + 1 \in 0..MaxAttempts
        BY <4>1, UpstreamConstants DEF LoginUnderWay
      <4> QED
        BY <4>1, <4>2, LoginGoesOn, Zenon
    <3>2. CASE save_credentials /\ pc' = pc
      <4>1. /\ pc = "login" /\ login.at = "save" /\ UNCHANGED <<events, cache>>
            /\ login' = [login EXCEPT !.at = "use"]
        BY <3>2, LoginEnds, Zenon DEF save_credentials, At, page
      <4> QED
        BY <3>2, <4>1, LoginGoesOn, UpstreamConstants DEF Control
    <3> QED
      BY <1>9, <3>1, <3>2, Zenon
  <2> QED
    BY <2>1, ToldKept, Zenon DEF Early, Settled
<1>10. CASE UseToken
  <2>1. /\ pc = "login" /\ login.at = "use" /\ UNCHANGED <<events, cache>> /\ pc' \in {"probe", "top"}
    BY <1>10, Zenon DEF UseToken, At, page
  <2> QED
    BY <2>1, ToldKept, Zenon DEF Early, Settled
<1>11. CASE ForwardEvent
  <2>1. events # <<>> /\ UNCHANGED <<pc, login, outcome>> /\ LastEvent' = LastEvent
    BY <1>11, ForwardFacts, Zenon DEF ForwardEvent, loop, past
  <2> QED
    BY <2>1, Zenon DEF Told, Early, Settled
<1>12. CASE UserSends \/ SessionExpires \/ ShutDown \/ DispatcherStep \/ admin_ilink_relogin
              \/ ReadCache \/ Subscribe \/ UNCHANGED vars
  <2>1. UNCHANGED <<events, cache, pc, login, outcome>>
    BY <1>12, Zenon DEF UserSends, SessionExpires, ShutDown, DispatcherStep, DispatcherTakes,
       DispatcherExits, admin_ilink_relogin, ReadCache, Subscribe, vars, loop, page, past
  <2> QED
    BY <1>1, <2>1, Zenon
<1> QED
  BY <1>2, <1>3, <1>4, <1>5, <1>6, <1>7, <1>8, <1>9, <1>10, <1>11, <1>12, Zenon
  DEF Next, LoginStep, LoopStep, PageStep

\* Connected is said only after an answer that was accepted, or after a login.
LEMMA AcceptedNext ==
  ASSUME ConnectedMeansAccepted, [Next]_vars
  PROVE  ConnectedMeansAccepted'
<1>1. CASE UNCHANGED <<status, refused>>
  BY <1>1, Zenon DEF ConnectedMeansAccepted
<1>2. CASE Crash \/ Stopped
  BY <1>2, Zenon DEF Crash, Stopped, ProcessEnds, ConnectedMeansAccepted
<1>3. CASE Probe \/ PollOk \/ PollExpired
  BY <1>3, Zenon DEF Probe, PollOk, PollExpired, Renew, ConnectedMeansAccepted
<1>4. CASE Top
  BY <1>4, Zenon DEF Top, Renew, ConnectedMeansAccepted, past
<1>5. CASE PollFails \/ Interrupted \/ Awake \/ Deliver
  BY <1>1, <1>5, Zenon DEF PollFails, Interrupted, Awake, Deliver, past
<1>6. CASE get_qrcodeFails \/ CodeExpires \/ CodeFails \/ save_credentials
  <2>1. refused' = refused /\ status' \in {status, "needs_login"}
    BY <1>6, Zenon DEF get_qrcodeFails, CodeExpires, CodeFails, save_credentials, LoginFailed
  <2> QED
    BY <2>1, Zenon DEF ConnectedMeansAccepted
<1>7. CASE UseToken
  BY <1>7, Zenon DEF UseToken, ConnectedMeansAccepted
<1>8. CASE get_qrcode \/ StillWaiting \/ Confirmed
  BY <1>1, <1>8, Zenon DEF get_qrcode, StillWaiting, Confirmed, loop, past
<1>9. CASE \/ UserSends \/ SessionExpires \/ run_serve \/ ShutDown \/ DispatcherStep \/ PageStep
           \/ UNCHANGED vars
  BY <1>1, <1>9, Zenon DEF UserSends, SessionExpires, run_serve, ShutDown, DispatcherStep, DispatcherTakes,
     DispatcherExits, PageStep, admin_ilink_relogin, ForwardEvent, ReadCache, Subscribe, vars, loop,
     past
<1> QED
  BY <1>2, <1>3, <1>4, <1>5, <1>6, <1>7, <1>8, <1>9, Zenon DEF Next, LoginStep, LoopStep

-----------------------------------------------------------------------------
(* The theorems *)

\* It holds before the first process starts.
LEMMA UpstreamInit == Init => UpstreamInv
<1> SUFFICES ASSUME Init PROVE UpstreamInv
  BY Zenon
<1>1. Traffic
  BY UpstreamConstants DEF Init, Traffic, BatchOK, NoGap
<1>2. Tokens
  BY UpstreamConstants DEF Init, Tokens, MaxTokens, NoToken
<1>3. Control
  BY UpstreamConstants DEF Init, Control
<1>4. Page
  BY UpstreamConstants DEF Init, Page, NoCode
<1>5. Told /\ ConnectedMeansAccepted
  BY Zenon DEF Init, Told, Settled, ConnectedMeansAccepted
<1> QED
  BY <1>1, <1>2, <1>3, <1>4, <1>5, Zenon DEF UpstreamInv

\* Every step of the Hub, of iLink, of a crash and of the administrator keeps
\* the invariant (run_serve, run_polling_loop, login_with_qr_ui, the bridge task).
THEOREM UpstreamInvariance == Spec => []UpstreamInv
<1>1. UpstreamInv /\ [Next]_vars => UpstreamInv'
  BY TrafficNext, TokensNext, ControlNext, PageNext, ToldNext, AcceptedNext, Zenon DEF UpstreamInv
<1> QED
  BY UpstreamInit, <1>1, PTL DEF Spec

\* Messages come in exactly once, whatever responses are lost, however small the
\* channel to the dispatcher is and wherever a process ends: run_polling_loop
\* takes the cursor over before it passes the batch on, and still skips none and
\* repeats none within a session.
THEOREM MessagesComeInOnce == Spec => []InboundExact
<1>1. UpstreamInv => InboundExact
  <2> SUFFICES ASSUME UpstreamInv PROVE InboundExact
    OBVIOUS
  <2>1. NoGap /\ InOrderOnce
    BY DEF UpstreamInv, Traffic, BatchOK, InOrderOnce
  <2>2. /\ sent \in 0..MaxMsgs /\ confirmed \in 0..sent /\ cursor \in 0..sent
        /\ Len(chan) <= ChannelSize /\ (batch # <<>> => pc = "deliver")
    BY Zenon DEF UpstreamInv, Traffic, BatchOK
  <2>3. {session, issued, db, token} \subseteq 0..MaxTokens /\ env \in EnvTokens
    BY UpstreamConstants DEF UpstreamInv, Tokens, MaxTokens
  <2>4. /\ pc = "login" <=> login # NoLogin
        /\ login = NoLogin \/ login.attempts \in 0..MaxAttempts
    <3>1. ASSUME login \in LoginUnderWay PROVE login # NoLogin /\ login.attempts \in 0..MaxAttempts
      <4>1. login.why # "none" /\ login.attempts \in 0..MaxAttempts
        BY <3>1, Zenon DEF LoginUnderWay
      <4>2. NoLogin.why = "none"
        BY Zenon DEF NoLogin
      <4> QED
        BY <4>1, <4>2, Zenon
    <3> QED
      BY <3>1, Zenon DEF UpstreamInv, Control
  <2>5. /\ pc \in {"down", "probe", "top", "poll", "deliver", "sleep", "login", "exited"}
        /\ status \in {"unknown", "connected", "needs_login", "logging_in"}
        /\ clicks \in 0..ReloginCap /\ faults \in 0..MaxFaults
    BY Zenon DEF UpstreamInv, Control
  <2>6. codes \in 0..MaxCodes /\ cache \in 0..MaxCodes
    BY Zenon DEF UpstreamInv, Page
  <2>7. TypeOK
    BY <2>2, <2>3, <2>4, <2>5, <2>6, Zenon DEF TypeOK
  <2> QED
    BY <2>1, <2>7, Zenon DEF InboundExact
<1> QED
  BY UpstreamInvariance, <1>1, PTL

\* The admin page tells the truth, however many events are on their way to it
\* and whenever a visitor comes: connected means accepted, no code outlives its
\* login, and an open page shows the code there is.
THEOREM PageIsTruthful == Spec => []LoginViewTruthful
<1>1. UpstreamInv => LoginViewTruthful
  BY Zenon DEF UpstreamInv, Page, Told, Settled, LastEvent, LoginViewTruthful, CodeNotStale,
     VisitorSeesCode
<1> QED
  BY UpstreamInvariance, <1>1, PTL

\* No process goes back to an older token, and only its login, or the end of the
\* process, takes a request of the administrator out of the channel.
THEOREM RenewalsAreKept == Spec => RenewalsKept
<1> DEFINE Step == /\ token' # token => token' = NoToken \/ token' >= db
                   /\ clicks' < clicks => pc' = "down" \/ login' = Login("manual")
<1>1. ASSUME UpstreamInv, Next PROVE Step
  <2>1. db \in Nat /\ issued \in Nat /\ issued >= db /\ clicks \in Nat
    BY <1>1, UpstreamConstants DEF UpstreamInv, Tokens, Control, MaxTokens
  <2>2. token' # token => token' = NoToken \/ token' >= db
    <3>1. CASE run_serve
      <4>1. token' \in {token, db} \/ (token' = 1 /\ db = 0)
        BY <3>1, Zenon DEF run_serve, resolve_token, NoToken
      <4> QED
        BY <2>1, <4>1
    <3>2. CASE Crash \/ Stopped
      BY <3>2, Zenon DEF Crash, Stopped, ProcessEnds
    <3>3. CASE UseToken
      BY <2>1, <3>3, Zenon DEF UseToken
    <3>4. CASE UserSends \/ SessionExpires \/ ShutDown \/ DispatcherStep \/ PageStep
      BY <3>4, Zenon DEF UserSends, SessionExpires, ShutDown, DispatcherStep, DispatcherTakes,
         DispatcherExits, PageStep, admin_ilink_relogin, ForwardEvent, ReadCache, Subscribe, loop
    <3>5. CASE LoopStep
      BY <3>5, Zenon DEF LoopStep, Probe, Top, PollOk, PollExpired, PollFails, Interrupted, Awake, Deliver
    <3>6. CASE \/ get_qrcode \/ get_qrcodeFails \/ StillWaiting \/ CodeExpires \/ CodeFails
               \/ Confirmed \/ save_credentials
      BY <3>6, Zenon DEF get_qrcode, get_qrcodeFails, StillWaiting, CodeExpires, CodeFails, Confirmed,
         save_credentials, loop
    <3> QED
      BY <1>1, <3>1, <3>2, <3>3, <3>4, <3>5, <3>6, Zenon DEF Next, LoginStep
  <2>3. clicks' < clicks => pc' = "down" \/ login' = Login("manual")
    <3>1. CASE Crash \/ Stopped
      BY <3>1, Zenon DEF Crash, Stopped, ProcessEnds
    <3>2. CASE Top
      <4>1. clicks' = clicks \/ login' = Login("manual")
        BY <3>2, Zenon DEF Top, Renew
      <4> QED
        BY <2>1, <4>1
    <3>3. CASE admin_ilink_relogin
      <4>1. clicks' \in {clicks, clicks + 1}
        BY <3>3, Zenon DEF admin_ilink_relogin
      <4> QED
        BY <2>1, <4>1
    <3>4. CASE UNCHANGED clicks
      BY <2>1, <3>4
    <3>5. CASE \/ UserSends \/ SessionExpires \/ run_serve \/ ShutDown \/ DispatcherStep
               \/ ForwardEvent \/ ReadCache \/ Subscribe
      BY <3>4, <3>5, Zenon DEF UserSends, SessionExpires, run_serve, ShutDown, DispatcherStep,
         DispatcherTakes, DispatcherExits, ForwardEvent, ReadCache, Subscribe, relogin
    <3>6. CASE Probe \/ PollOk \/ PollExpired \/ PollFails \/ Interrupted \/ Awake \/ Deliver
      BY <3>4, <3>6, Zenon DEF Probe, PollOk, PollExpired, PollFails, Interrupted, Awake, Deliver, relogin
    <3>7. CASE LoginStep
      BY <3>4, <3>7, Zenon DEF LoginStep, get_qrcode, get_qrcodeFails, StillWaiting, CodeExpires, CodeFails,
         Confirmed, save_credentials, UseToken, relogin
    <3> QED
      BY <1>1, <3>1, <3>2, <3>3, <3>5, <3>6, <3>7, Zenon DEF Next, LoopStep, PageStep
  <2> QED
    BY <2>2, <2>3, Zenon
<1>2. UpstreamInv /\ [Next]_vars => [Step]_vars
  BY <1>1, Zenon
<1> QED
  BY UpstreamInvariance, <1>2, PTL DEF Spec, RenewalsKept
=============================================================================
