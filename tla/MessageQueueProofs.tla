------------------------- MODULE MessageQueueProofs -------------------------
(***************************************************************************)
(* Proofs about MessageQueue, for any set of bridges and any bounds.       *)
(***************************************************************************)
EXTENDS MessageQueue, SequenceTheorems, TLAPS

\* How many of the accepted messages have left the queue.
Gone == Len(log) - Len(messages)

\* The queue is the end of the log, stamped with consecutive ids.
QueueIsSuffix ==
    /\ next_seq = Len(log) + 1
    /\ Len(messages) <= Len(log)
    /\ \A i \in 1 .. Len(messages) :
          messages[i].seq = Gone + i /\ messages[i].body = log[Gone + i]

\* A cursor that may safely be echoed: everything up to it has arrived.
Covered(n) == n <= Len(log) /\ \A s \in 1 .. n : log[s] \in Received

\* A reply whose cursor may safely be echoed once its batch has arrived.
ReplyCovered(r) ==
    /\ r.cursor <= Len(log)
    /\ \A s \in 1 .. r.cursor :
          log[s] \in Received \/ \E i \in 1 .. Len(r.msgs) : r.msgs[i].body = log[s]

CursorsCovered ==
    /\ \A s \in 1 .. Gone : log[s] \in Received
    /\ \A c \in Clients :
          /\ ~staleBuf[c] => Covered(buf[c])
          /\ (req[c].pc \in InHandler /\ ~req[c].stale) => Covered(req[c].ack)
          /\ req[c].pc = "replied" => ReplyCovered(req[c])

\* A message pushed since the last read is announced: by the stored permit or
\* by a request on its way to the slot; and nobody waits beside a permit.
Announced ==
    /\ permit => Waiting = {}
    /\ offered < next_seq - 1 =>
          permit \/ \E c \in Clients : req[c].pc \in {"woken", "polling"}

DeliveryInv ==
    /\ TypeOK
    /\ QueueIsSuffix
    /\ BatchIsRunOfLog
    /\ ~staleUsed => CursorsCovered
    /\ Announced
-----------------------------------------------------------------------------
(***************************************************************************)
(* The slot's poll.                                                        *)
(***************************************************************************)

\* The pop_front loop of poll removes exactly the messages at or below the
\* watermark when ids are consecutive from k + 1.
LEMMA RetiredIsPrefix ==
    ASSUME NEW ms \in Seq(Message), NEW k \in Nat, NEW w \in Int,
           \A i \in 1 .. Len(ms) : ms[i].seq = k + i
    PROVE  /\ Retired(ms, w) \in 0 .. Len(ms)
           /\ \A i \in 1 .. Retired(ms, w) : ms[i].seq <= w
           /\ Retired(ms, w) < Len(ms) => ms[Retired(ms, w) + 1].seq > w
<1> DEFINE P(n) == /\ \A i \in 1 .. n : ms[i].seq <= w
                   /\ n < Len(ms) => ms[n + 1].seq > w
<1> DEFINE n0 == IF w < k + 1 THEN 0
                 ELSE IF w - k <= Len(ms) THEN w - k ELSE Len(ms)
<1>1. Len(ms) \in Nat
  OBVIOUS
<1>2. n0 \in 0 .. Len(ms)
  BY <1>1
<1>3. P(n0)
  BY <1>1, <1>2
<1>4. \E n \in 0 .. Len(ms) : P(n)
  BY <1>2, <1>3, Zenon
<1>5. Retired(ms, w) = CHOOSE n \in 0 .. Len(ms) : P(n)
  BY Zenon DEF Retired
<1> HIDE DEF P, n0
<1>6. Retired(ms, w) \in 0 .. Len(ms) /\ P(Retired(ms, w))
  BY <1>4, <1>5, Zenon
<1> QED
  BY <1>6, Zenon DEF P

\* What a poll leaves in the slot: the rest of a sequence after its first n.
LEMMA RestOfQueue ==
    ASSUME NEW ms \in Seq(Message), NEW n \in 0 .. Len(ms)
    PROVE  LET rest == SubSeq(ms, n + 1, Len(ms)) IN
           /\ rest \in Seq(Message)
           /\ Len(rest) = Len(ms) - n
           /\ \A i \in 1 .. Len(rest) : rest[i] = ms[n + i]
<1>1. Len(ms) \in Nat
  OBVIOUS
<1>2. n + 1 \in 1 .. Len(ms) + 1
  BY <1>1
<1> QED
  BY <1>1, <1>2, SubSeqProperties
-----------------------------------------------------------------------------
(***************************************************************************)
(* What a step does to the requests, the queue and the log.                *)
(***************************************************************************)

\* Moving a request to another program counter keeps it a request.
LEMMA SetPc ==
    ASSUME NEW reqs \in [Clients -> Request], NEW c \in Clients,
           NEW p \in InHandler \cup {"idle", "replied"}
    PROVE  /\ [reqs EXCEPT ![c].pc = p] \in [Clients -> Request]
           /\ \A d \in Clients : [reqs EXCEPT ![c].pc = p][d] =
                 IF d = c THEN [reqs[c] EXCEPT !.pc = p] ELSE reqs[d]
  BY Zenon DEF Request

\* A request slot between two requests.
LEMMA IdleType == Idle \in Request
  BY DEF Idle, Request, InHandler

\* Waking a waiter or storing the permit keeps the types, and changes nothing
\* of a request but its program counter.
LEMMA NotifyOneType ==
    ASSUME NEW reqs \in [Clients -> Request], permit \in BOOLEAN,
           NotifyOne(reqs)
    PROVE  /\ permit' \in BOOLEAN
           /\ req' \in [Clients -> Request]
           /\ \A c \in Clients :
                 \/ req'[c] = reqs[c]
                 \/ /\ reqs[c].pc = "waiting"
                    /\ req'[c] = [reqs[c] EXCEPT !.pc = "woken"]
<1>1. CASE permit' = TRUE /\ req' = reqs
  BY <1>1, Zenon
<1>2. ASSUME NEW w \in Clients, reqs[w].pc = "waiting",
             req' = [reqs EXCEPT ![w].pc = "woken"], permit' = permit
      PROVE  /\ permit' \in BOOLEAN
             /\ req' \in [Clients -> Request]
             /\ \A c \in Clients :
                 \/ req'[c] = reqs[c]
                 \/ /\ reqs[c].pc = "waiting"
                    /\ req'[c] = [reqs[c] EXCEPT !.pc = "woken"]
  <2>1. "woken" \in InHandler \cup {"idle", "replied"}
    BY Zenon DEF InHandler
  <2> QED
    BY <1>2, <2>1, SetPc, Zenon
<1> QED
  BY <1>1, <1>2, Zenon DEF NotifyOne

\* A step that leaves the slot's buffer, ids and the log alone keeps the shape
\* of the queue.
LEMMA SuffixFrame ==
    ASSUME QueueIsSuffix, UNCHANGED <<messages, next_seq, log>>
    PROVE  QueueIsSuffix'
  BY Zenon DEF QueueIsSuffix, Gone

\* What poll does for the request of client c: it retires the first n messages,
\* those at or below watermark w, and answers with the rest.
PollOutcome(c, n, rest, w, cursor) ==
    /\ w = Watermark(req[c].ack, next_seq - 1)
    /\ \A i \in 1 .. n : messages[i].seq <= w
    /\ n < Len(messages) => messages[n + 1].seq > w
    /\ Len(rest) = Len(messages) - n
    /\ \A i \in 1 .. Len(rest) : rest[i] = messages[n + i]
    /\ cursor = IF Len(rest) > 0 THEN Len(log)
                ELSE IF w # NoAck THEN w ELSE Len(log)
    /\ messages' = rest
    /\ req' = [req EXCEPT ![c].pc = "replied", ![c].msgs = rest,
                          ![c].cursor = cursor]
    /\ staleUsed' = (staleUsed \/ (req[c].stale /\ n > 0))

\* PerClientSlot::poll retires the first n messages, at or below the watermark,
\* and answers with the rest and their cursor.
LEMMA PollFacts ==
    ASSUME TypeOK, QueueIsSuffix, NEW c \in Clients, SlotPoll(c)
    PROVE  \E n \in 0 .. Len(messages), rest \in Seq(Message), w \in Nat \cup {NoAck},
              cursor \in Nat :
              PollOutcome(c, n, rest, w, cursor)
<1> DEFINE w == Watermark(req[c].ack, next_seq - 1)
           n == Retired(messages, w)
           rest == SubSeq(messages, n + 1, Len(messages))
           cursor == Cursor(rest, w, next_seq - 1)
<1>1. req[c].ack \in Nat \cup {NoAck}
  BY Zenon DEF TypeOK, Request
<1>2. w \in Nat \cup {NoAck}
  BY <1>1 DEF TypeOK, QueueIsSuffix, Watermark, Smaller
<1>3. w \in Int
  BY <1>2 DEF NoAck
<1>4. /\ Len(messages) \in Nat /\ Len(log) \in Nat /\ Gone \in Nat
      /\ messages \in Seq(Message)
      /\ \A i \in 1 .. Len(messages) : messages[i].seq = Gone + i
  BY DEF TypeOK, QueueIsSuffix, Gone
<1>5. /\ n \in 0 .. Len(messages)
      /\ \A i \in 1 .. n : messages[i].seq <= w
      /\ n < Len(messages) => messages[n + 1].seq > w
  <2> HIDE DEF w
  <2> QED
    BY <1>3, <1>4, RetiredIsPrefix, Zenon
<1>6. /\ rest \in Seq(Message)
      /\ Len(rest) = Len(messages) - n
      /\ \A i \in 1 .. Len(rest) : rest[i] = messages[n + i]
  <2> HIDE DEF n
  <2> QED
    BY <1>4, <1>5, RestOfQueue, Zenon
<1>7. /\ messages' = rest
      /\ req' = [req EXCEPT ![c].pc = "replied", ![c].msgs = rest,
                            ![c].cursor = cursor]
      /\ staleUsed' = (staleUsed \/ (req[c].stale /\ n > 0))
  BY Zenon DEF SlotPoll
<1> HIDE DEF w, n, rest
<1>8. Len(rest) > 0 => rest[Len(rest)].seq = Len(log)
  BY <1>4, <1>5, <1>6 DEF Gone
<1>9. next_seq - 1 = Len(log)
  BY <1>4 DEF QueueIsSuffix
<1>10. cursor = IF Len(rest) > 0 THEN Len(log)
                ELSE IF w # NoAck THEN w ELSE Len(log)
  <2>1. CASE Len(rest) > 0
    <3>1. rest # << >>
      BY <2>1
    <3> QED
      BY <2>1, <3>1, <1>8, Zenon DEF Cursor
  <2>2. CASE ~(Len(rest) > 0)
    <3>1. rest = << >>
      BY <2>2, <1>6, EmptySeq
    <3> QED
      BY <2>2, <3>1, <1>9, Zenon DEF Cursor
  <2> QED
    BY <2>1, <2>2, Zenon
<1>11. cursor \in Nat
  BY <1>2, <1>4, <1>10, Zenon
<1> HIDE DEF cursor
<1> QED
  BY <1>2, <1>5, <1>6, <1>7, <1>10, <1>11, Zenon DEF w, PollOutcome

\* Every step keeps the types and the shape of the queue.
LEMMA SuffixStep ==
    ASSUME DeliveryInv, [Next]_vars
    PROVE  TypeOK' /\ QueueIsSuffix'
<1> USE DEF DeliveryInv
<1>0. /\ "arrived" \in InHandler /\ "waiting" \in InHandler
      /\ "woken" \in InHandler /\ "polling" \in InHandler
  BY Zenon DEF InHandler
<1>1. CASE Push
  <2>1. permit' \in BOOLEAN /\ req' \in [Clients -> Request]
    BY <1>1, NotifyOneType, Zenon DEF Push, TypeOK
  <2>2. TypeOK'
    BY <1>1, <2>1 DEF Push, TypeOK, client, Message
  <2>3. /\ Len(messages') = Len(messages) + 1 /\ Len(log') = Len(log) + 1
        /\ next_seq' = next_seq + 1
        /\ \A i \in 1 .. Len(messages) : messages'[i] = messages[i]
        /\ \A i \in 1 .. Len(log) : log'[i] = log[i]
        /\ messages'[Len(messages) + 1] = [seq |-> next_seq, body |-> arrivals']
        /\ log'[Len(log) + 1] = arrivals'
    BY <1>1 DEF Push, TypeOK
  <2>4. Len(messages) \in Nat /\ Len(log) \in Nat
    BY DEF TypeOK
  <2>5. next_seq' = Len(log') + 1 /\ Len(messages') <= Len(log') /\ Gone' = Gone
    BY <2>3, <2>4 DEF QueueIsSuffix, Gone
  <2>6. ASSUME NEW i \in 1 .. Len(messages')
        PROVE  messages'[i].seq = Gone + i /\ messages'[i].body = log'[Gone + i]
    <3>1. CASE i \in 1 .. Len(messages)
      <4>1. messages'[i] = messages[i]
        BY <2>3, <3>1, Zenon
      <4>2. messages[i].seq = Gone + i /\ messages[i].body = log[Gone + i]
        BY <3>1, Zenon DEF QueueIsSuffix
      <4>3. Gone + i \in 1 .. Len(log)
        BY <2>4, <3>1 DEF QueueIsSuffix, Gone
      <4>4. log'[Gone + i] = log[Gone + i]
        BY <2>3, <4>3, Zenon
      <4> QED
        BY <4>1, <4>2, <4>4, Zenon
    <3>2. CASE i = Len(messages) + 1
      BY <2>3, <2>4, <3>2 DEF QueueIsSuffix, Gone
    <3> QED
      BY <2>3, <2>4, <3>1, <3>2
  <2>7. QueueIsSuffix'
    BY <2>5, <2>6, Zenon DEF QueueIsSuffix
  <2> QED
    BY <2>2, <2>7, Zenon
<1>2. CASE PushFull
  BY <1>2, SuffixFrame DEF PushFull, TypeOK, client, slot
<1>3. ASSUME NEW c \in Clients, Send(c) PROVE TypeOK' /\ QueueIsSuffix'
  <2>1. PICK from_buf \in {NoAck, buf[c]}, from_field \in {NoAck} \cup 1 .. buf[c] :
          req' = [req EXCEPT ![c] =
                    [Idle EXCEPT !.pc = "arrived",
                                 !.ack = ack_watermark(from_buf, from_field),
                                 !.stale = staleBuf[c]]]
    BY <1>3, Zenon DEF Send
  <2>2. buf[c] \in Int /\ staleBuf[c] \in BOOLEAN
    BY DEF TypeOK, NoAck
  <2>3. ack_watermark(from_buf, from_field) \in Nat \cup {NoAck}
    BY <2>2 DEF ack_watermark, Larger, TypeOK, NoAck
  <2>4. [Idle EXCEPT !.pc = "arrived",
                     !.ack = ack_watermark(from_buf, from_field),
                     !.stale = staleBuf[c]] \in Request
    BY <2>2, <2>3, <1>0, IdleType, Zenon DEF Request
  <2>5. req' \in [Clients -> Request]
    BY <2>1, <2>4, Zenon DEF TypeOK
  <2> QED
    BY <1>3, <2>5, SuffixFrame, Zenon DEF Send, TypeOK, client, slot
<1>4. ASSUME NEW c \in Clients, BeginWait(c) PROVE TypeOK' /\ QueueIsSuffix'
  <2>1. PICK p \in {"polling", "waiting"} : req' = [req EXCEPT ![c].pc = p]
    BY <1>4, Zenon DEF BeginWait
  <2>2. p \in InHandler \cup {"idle", "replied"}
    BY <1>0, <2>1, Zenon
  <2>3. req' \in [Clients -> Request]
    BY <2>1, <2>2, SetPc, Zenon DEF TypeOK
  <2>4. permit' \in BOOLEAN
    BY <1>4, Zenon DEF BeginWait, TypeOK
  <2> QED
    BY <1>4, <2>3, <2>4, SuffixFrame, Zenon DEF BeginWait, TypeOK, client
<1>5. ASSUME NEW c \in Clients, Timeout(c) PROVE TypeOK' /\ QueueIsSuffix'
  <2>1. req' \in [Clients -> Request]
    BY <1>0, <1>5, SetPc, Zenon DEF Timeout, TypeOK
  <2> QED
    BY <1>5, <2>1, SuffixFrame, Zenon DEF Timeout, TypeOK, client, slot
<1>6. ASSUME NEW c \in Clients, ShutdownWake(c) PROVE TypeOK' /\ QueueIsSuffix'
  <2>1. [req EXCEPT ![c].pc = "polling"] \in [Clients -> Request]
    BY <1>0, SetPc, Zenon DEF TypeOK
  <2>2. req' \in [Clients -> Request] /\ permit' \in BOOLEAN
    BY <1>6, <2>1, NotifyOneType, Zenon DEF ShutdownWake, TypeOK
  <2> QED
    BY <1>6, <2>2, SuffixFrame, Zenon DEF ShutdownWake, TypeOK, client
<1>7. ASSUME NEW c \in Clients, SlotPoll(c) PROVE TypeOK' /\ QueueIsSuffix'
  <2>1. PICK n \in 0 .. Len(messages), rest \in Seq(Message), w \in Nat \cup {NoAck},
             cursor \in Nat :
           PollOutcome(c, n, rest, w, cursor)
    BY <1>7, PollFacts, Zenon
  <2>10. [req[c] EXCEPT !.pc = "replied", !.msgs = rest, !.cursor = cursor]
            \in Request
    <3>1. req[c] \in Request
      BY Zenon DEF TypeOK
    <3> QED
      BY <3>1, Zenon DEF Request
  <2>11. req' = [req EXCEPT ![c] = [req[c] EXCEPT !.pc = "replied", !.msgs = rest,
                                                 !.cursor = cursor]]
    BY <2>1, Zenon DEF TypeOK, PollOutcome
  <2>2. req' \in [Clients -> Request]
    BY <2>10, <2>11, Zenon DEF TypeOK
  <2>3. offered' \in Nat /\ staleUsed' \in BOOLEAN
    BY <1>7, <2>1 DEF SlotPoll, TypeOK, QueueIsSuffix, PollOutcome
  <2>4. TypeOK'
    BY <1>7, <2>1, <2>2, <2>3, Zenon DEF SlotPoll, TypeOK, client, PollOutcome
  <2>5. log' = log /\ next_seq' = next_seq
    BY <1>7, Zenon DEF SlotPoll
  <2>6. Len(messages) \in Nat /\ Len(log) \in Nat
    BY DEF TypeOK
  <2>12. /\ n \in 0 .. Len(messages) /\ Len(messages') = Len(messages) - n
         /\ \A i \in 1 .. Len(messages') : messages'[i] = messages[n + i]
    BY <2>1, Zenon DEF PollOutcome
  <2>7. Gone' = Gone + n /\ Len(messages') <= Len(log')
    BY <2>12, <2>5, <2>6 DEF QueueIsSuffix, Gone
  <2>8. ASSUME NEW i \in 1 .. Len(messages')
        PROVE  messages'[i].seq = Gone' + i /\ messages'[i].body = log'[Gone' + i]
    <3>2. n \in Nat /\ i \in Nat /\ i >= 1 /\ i <= Len(messages) - n
      BY <2>12, <2>6
    <3>1. n + i \in 1 .. Len(messages) /\ messages'[i] = messages[n + i]
      BY <2>12, <2>6, <3>2
    <3>3. messages[n + i].seq = Gone + (n + i) /\ messages[n + i].body = log[Gone + (n + i)]
      BY <3>1, Zenon DEF QueueIsSuffix
    <3>4. Gone' + i = Gone + (n + i)
      BY <2>6, <2>7, <3>2 DEF Gone
    <3> QED
      BY <2>5, <3>1, <3>3, <3>4, Zenon
  <2>9. QueueIsSuffix'
    BY <2>5, <2>7, <2>8, Zenon DEF QueueIsSuffix
  <2> QED
    BY <2>4, <2>9, Zenon
<1>8. ASSUME NEW c \in Clients, Receive(c) PROVE TypeOK' /\ QueueIsSuffix'
  <2>1. req[c].msgs \in Seq(Message) /\ req[c].cursor \in Nat
    BY Zenon DEF TypeOK, Request
  <2>2. {req[c].msgs[i].body : i \in 1 .. Len(req[c].msgs)} \subseteq Nat
    <3>1. \A i \in 1 .. Len(req[c].msgs) : req[c].msgs[i].body \in Nat
      <4>1. \A i \in 1 .. Len(req[c].msgs) : req[c].msgs[i] \in Message
        BY <2>1
      <4> QED
        BY <4>1, Zenon DEF Message
    <3> QED
      BY <3>1, Zenon
  <2>3. received' \in [Clients -> SUBSET Nat]
    BY <1>8, <2>2, Zenon DEF Receive, TypeOK
  <2>4. req' \in [Clients -> Request]
    BY <1>8, IdleType, Zenon DEF Receive, TypeOK
  <2> QED
    BY <1>8, <2>1, <2>3, <2>4, SuffixFrame, Zenon DEF Receive, TypeOK, slot
<1>9. ASSUME NEW c \in Clients, LoseResponse(c) PROVE TypeOK' /\ QueueIsSuffix'
  BY <1>9, IdleType, SuffixFrame DEF LoseResponse, TypeOK, client, slot
<1>10. ASSUME NEW c \in Clients, Disconnect(c) PROVE TypeOK' /\ QueueIsSuffix'
  <2>1. [req EXCEPT ![c] = Idle] \in [Clients -> Request]
    BY IdleType, Zenon DEF TypeOK
  <2>2. req' \in [Clients -> Request] /\ permit' \in BOOLEAN
    BY <1>10, <2>1, NotifyOneType, Zenon DEF Disconnect, TypeOK
  <2> QED
    BY <1>10, <2>2, SuffixFrame DEF Disconnect, TypeOK, client
<1>11. ASSUME NEW c \in Clients, ForgetCursor(c) PROVE TypeOK' /\ QueueIsSuffix'
  BY <1>11, SuffixFrame, Zenon DEF ForgetCursor, TypeOK, slot
<1>12. CASE BeginShutdown
  BY <1>12, SuffixFrame DEF BeginShutdown, TypeOK, client, slot
<1>13. CASE DrainEmpty
  BY <1>13, SuffixFrame, Zenon DEF DrainEmpty, TypeOK, client, slot
<1>14. CASE DrainTimeout
  BY <1>14, SuffixFrame, Zenon DEF DrainTimeout, TypeOK, client, slot
<1>15. CASE Restart
  BY <1>15, SuffixFrame, Zenon DEF Restart, TypeOK, client, slot
<1>16. ASSUME EndProcess, restarts' \in Nat PROVE TypeOK' /\ QueueIsSuffix'
  <2>3. staleBuf' \in [Clients -> BOOLEAN]
    BY <1>16, Zenon DEF EndProcess
  <2>4. req' \in [Clients -> Request] /\ received' \in [Clients -> SUBSET Nat]
    BY <1>16, IdleType, Zenon DEF EndProcess
  <2>5. messages' \in Seq(Message) /\ log' \in Seq(Nat)
    BY <1>16 DEF EndProcess
  <2>1. TypeOK'
    BY <1>16, <2>3, <2>4, <2>5, Zenon DEF EndProcess, TypeOK
  <2>2. QueueIsSuffix'
    BY <1>16 DEF EndProcess, QueueIsSuffix, Gone
  <2> QED
    BY <2>1, <2>2, Zenon
<1>17. CASE Exit \/ Crash
  BY <1>16, <1>17 DEF Exit, Crash, TypeOK
<1>18. CASE UNCHANGED vars
  BY <1>18, SuffixFrame, Zenon DEF vars, TypeOK
<1> QED
  BY <1>1, <1>2, <1>3, <1>4, <1>5, <1>6, <1>7, <1>8, <1>9, <1>10, <1>11, <1>12,
     <1>13, <1>14, <1>15, <1>17, <1>18, Zenon DEF Next

\* What one step can do to one request.
RequestStep(d) ==
    \/ req'[d] = req[d]
    \/ /\ req[d].pc \in InHandler /\ req'[d].pc \in InHandler
       /\ req'[d].ack = req[d].ack /\ req'[d].stale = req[d].stale
    \/ req'[d] = Idle
    \/ Send(d)
    \/ SlotPoll(d)

\* The log only grows while the process lives, and nothing received is
\* forgotten.
LogStep ==
    /\ Len(log') >= Len(log)
    /\ \A s \in 1 .. Len(log) : log'[s] = log[s]
    /\ \A c \in Clients : received[c] \subseteq received'[c]

\* What notify_one does to one request: nothing, or it wakes it.
LEMMA NotifyRequestStep ==
    ASSUME NEW reqs \in [Clients -> Request], permit \in BOOLEAN, NotifyOne(reqs),
           NEW d \in Clients
    PROVE  \/ req'[d] = reqs[d]
           \/ /\ reqs[d].pc \in InHandler /\ req'[d].pc \in InHandler
              /\ req'[d].ack = reqs[d].ack /\ req'[d].stale = reqs[d].stale
<1>1. \/ req'[d] = reqs[d]
      \/ reqs[d].pc = "waiting" /\ req'[d] = [reqs[d] EXCEPT !.pc = "woken"]
  BY NotifyOneType, Zenon
<1> QED
  BY <1>1, Zenon DEF Request, InHandler

\* Every step changes a request in one of the ways of RequestStep.
LEMMA RequestStepHolds ==
    ASSUME TypeOK, [Next]_vars, NEW d \in Clients
    PROVE  RequestStep(d)
<1>1. CASE Push
  BY <1>1, NotifyRequestStep, Zenon DEF Push, TypeOK, RequestStep
<1>2. ASSUME NEW c \in Clients, Send(c) PROVE RequestStep(d)
  BY <1>2, Zenon DEF Send, TypeOK, RequestStep
<1>3. ASSUME NEW c \in Clients, BeginWait(c) PROVE RequestStep(d)
  BY SMTT(40), <1>3 DEF BeginWait, TypeOK, RequestStep, Request, InHandler
<1>4. ASSUME NEW c \in Clients, Timeout(c) PROVE RequestStep(d)
  BY <1>4, Zenon DEF Timeout, TypeOK, RequestStep, Request, InHandler
<1>5. ASSUME NEW c \in Clients, ShutdownWake(c) PROVE RequestStep(d)
  <2> DEFINE reqs == [req EXCEPT ![c].pc = "polling"]
  <2>1. reqs \in [Clients -> Request]
    BY SetPc, Zenon DEF TypeOK, InHandler
  <2>2. /\ reqs[d].ack = req[d].ack /\ reqs[d].stale = req[d].stale
        /\ reqs[d] = req[d] \/ (req[d].pc \in InHandler /\ reqs[d].pc \in InHandler)
    BY <1>5, Zenon DEF ShutdownWake, TypeOK, Request, InHandler
  <2>3. CASE req' = reqs
    BY <2>2, <2>3, Zenon DEF RequestStep
  <2>4. CASE NotifyOne(reqs)
    <3> HIDE DEF reqs
    <3>1. \/ req'[d] = reqs[d]
          \/ /\ reqs[d].pc \in InHandler /\ req'[d].pc \in InHandler
             /\ req'[d].ack = reqs[d].ack /\ req'[d].stale = reqs[d].stale
      BY <2>1, <2>4, NotifyRequestStep, Zenon DEF TypeOK
    <3> QED
      BY <2>2, <3>1, Zenon DEF RequestStep
  <2> QED
    BY <1>5, <2>3, <2>4, Zenon DEF ShutdownWake
<1>6. ASSUME NEW c \in Clients, SlotPoll(c) PROVE RequestStep(d)
  BY <1>6, Zenon DEF SlotPoll, TypeOK, RequestStep
<1>7. ASSUME NEW c \in Clients, Receive(c) PROVE RequestStep(d)
  BY <1>7, Zenon DEF Receive, TypeOK, RequestStep
<1>8. ASSUME NEW c \in Clients, LoseResponse(c) PROVE RequestStep(d)
  BY <1>8, Zenon DEF LoseResponse, TypeOK, RequestStep
<1>9. ASSUME NEW c \in Clients, Disconnect(c) PROVE RequestStep(d)
  <2> DEFINE reqs == [req EXCEPT ![c] = Idle]
  <2>1. reqs \in [Clients -> Request] /\ (reqs[d] = req[d] \/ reqs[d] = Idle)
    BY IdleType, Zenon DEF TypeOK
  <2>2. CASE req' = reqs
    BY <2>1, <2>2, Zenon DEF RequestStep
  <2>3. CASE NotifyOne(reqs)
    <3> HIDE DEF reqs
    <3>1. \/ req'[d] = reqs[d]
          \/ /\ reqs[d].pc \in InHandler /\ req'[d].pc \in InHandler
             /\ req'[d].ack = reqs[d].ack /\ req'[d].stale = reqs[d].stale
      BY <2>1, <2>3, NotifyRequestStep, Zenon DEF TypeOK
    <3>2. reqs[d] = Idle => reqs[d].pc \notin InHandler
      BY DEF Idle, InHandler
    <3> QED
      BY <2>1, <3>1, <3>2, Zenon DEF RequestStep
  <2> QED
    BY <1>9, <2>2, <2>3, Zenon DEF Disconnect
<1>10. CASE Exit \/ Crash
  BY <1>10, Zenon DEF Exit, Crash, EndProcess, RequestStep
<1>11. CASE UNCHANGED req
  BY <1>11, Zenon DEF RequestStep
<1>12. PushFull \/ (\E c \in Clients : ForgetCursor(c)) \/ BeginShutdown
          \/ DrainEmpty \/ DrainTimeout \/ Restart \/ UNCHANGED vars
       => UNCHANGED req
  BY Zenon DEF PushFull, ForgetCursor, BeginShutdown, DrainEmpty, DrainTimeout, Restart, vars
<1> QED
  BY <1>1, <1>2, <1>3, <1>4, <1>5, <1>6, <1>7, <1>8, <1>9, <1>10, <1>11, <1>12, Zenon
     DEF Next

\* Outside the end of the process the log and what arrived only grow.
LEMMA LogStepHolds ==
    ASSUME TypeOK, [Next]_vars
    PROVE  LogStep \/ EndProcess
<1>1. CASE Push
  <2>1. Len(log') = Len(log) + 1 /\ \A s \in 1 .. Len(log) : log'[s] = log[s]
    BY <1>1 DEF Push, TypeOK
  <2>2. Len(log) \in Nat /\ received' = received
    BY <1>1 DEF Push, TypeOK, client
  <2> QED
    BY <2>1, <2>2 DEF LogStep
<1>2. ASSUME NEW c \in Clients, Receive(c) PROVE LogStep
  <2>1. log' = log /\ Len(log) \in Nat
    BY <1>2 DEF Receive, TypeOK
  <2>2. \A d \in Clients : received[d] \subseteq received'[d]
    BY <1>2, Zenon DEF Receive, TypeOK
  <2> QED
    BY <2>1, <2>2 DEF LogStep
<1>3. CASE UNCHANGED <<log, received>>
  <2>1. Len(log) \in Nat
    BY DEF TypeOK
  <2> QED
    BY <1>3, <2>1 DEF LogStep
<1>4. PushFull \/ BeginShutdown \/ DrainEmpty \/ DrainTimeout \/ Restart
         \/ UNCHANGED vars => UNCHANGED <<log, received>>
  BY Zenon DEF PushFull, BeginShutdown, DrainEmpty, DrainTimeout, Restart, vars, client
<1>5. ASSUME NEW c \in Clients,
             Send(c) \/ BeginWait(c) \/ Timeout(c) \/ ShutdownWake(c) \/ SlotPoll(c)
             \/ LoseResponse(c) \/ Disconnect(c) \/ ForgetCursor(c)
      PROVE  UNCHANGED <<log, received>>
  BY <1>5, Zenon DEF Send, BeginWait, Timeout, ShutdownWake, SlotPoll, LoseResponse,
     Disconnect, ForgetCursor, client
<1>6. Exit \/ Crash => EndProcess
  BY Zenon DEF Exit, Crash
<1> QED
  BY <1>1, <1>2, <1>3, <1>4, <1>5, <1>6, Zenon DEF Next

\* A batch stays a run of the log: replies are made by poll and never changed.
LEMMA BatchStep ==
    ASSUME DeliveryInv, [Next]_vars
    PROVE  BatchIsRunOfLog'
<1> SUFFICES ASSUME NEW d \in Clients, req'[d].pc = "replied",
                    NEW i \in 1 .. Len(req'[d].msgs)
             PROVE  /\ req'[d].msgs[i].seq = req'[d].msgs[1].seq + i - 1
                    /\ req'[d].msgs[i].seq \in 1 .. Len(log')
                    /\ log'[req'[d].msgs[i].seq] = req'[d].msgs[i].body
  BY Zenon DEF BatchIsRunOfLog
<1>1. TypeOK /\ QueueIsSuffix /\ BatchIsRunOfLog
  BY Zenon DEF DeliveryInv
<1>2. Len(log) \in Nat /\ Len(messages) \in Nat /\ Gone \in Nat
  BY <1>1 DEF TypeOK, QueueIsSuffix, Gone
<1>3. RequestStep(d)
  BY <1>1, RequestStepHolds, Zenon
<1>4. ~EndProcess
  BY DEF EndProcess, Idle
<1>5. LogStep
  BY <1>1, <1>4, LogStepHolds, Zenon
<1>6. CASE req'[d] = req[d]
  <2>1. /\ req[d].msgs[i].seq = req[d].msgs[1].seq + i - 1
        /\ req[d].msgs[i].seq \in 1 .. Len(log)
        /\ log[req[d].msgs[i].seq] = req[d].msgs[i].body
    BY <1>1, <1>6, Zenon DEF BatchIsRunOfLog
  <2>2. Len(log') \in Nat
    BY SuffixStep DEF TypeOK
  <2> QED
    BY <1>2, <1>5, <1>6, <2>1, <2>2, SMTT(40) DEF LogStep
<1>7. CASE SlotPoll(d)
  <2>9. PICK n \in 0 .. Len(messages), rest \in Seq(Message), w \in Nat \cup {NoAck},
             cursor \in Nat : PollOutcome(d, n, rest, w, cursor)
    BY <1>1, <1>7, PollFacts, Zenon
  <2>1. /\ Len(rest) = Len(messages) - n
        /\ \A j \in 1 .. Len(rest) : rest[j] = messages[n + j]
        /\ req' = [req EXCEPT ![d].pc = "replied", ![d].msgs = rest,
                              ![d].cursor = cursor]
    BY <2>9, Zenon DEF PollOutcome
  <2>2. req'[d].msgs = rest
    BY <2>1, <1>1 DEF TypeOK, Request
  <2>3. n \in Nat /\ i \in Nat /\ i >= 1 /\ i <= Len(messages) - n
    BY <1>2, <2>1, <2>2
  <2>4. /\ n + i \in 1 .. Len(messages) /\ n + 1 \in 1 .. Len(messages)
        /\ 1 \in 1 .. Len(rest)
    BY <1>2, <2>1, <2>3, SMTT(40)
  <2>5. rest[i] = messages[n + i] /\ rest[1] = messages[n + 1]
    BY <2>1, <2>2, <2>4, Zenon
  <2>6. /\ messages[n + i].seq = Gone + (n + i)
        /\ messages[n + i].body = log[Gone + (n + i)]
        /\ messages[n + 1].seq = Gone + (n + 1)
    BY <1>1, <2>4, Zenon DEF QueueIsSuffix
  <2>7. log' = log
    BY <1>7, Zenon DEF SlotPoll
  <2>8. Gone + (n + i) \in 1 .. Len(log)
    BY <1>2, <2>3 DEF Gone
  <2> QED
    BY <1>2, <2>2, <2>3, <2>5, <2>6, <2>7, <2>8
<1>8. ~(req'[d].pc \in InHandler)
  BY Zenon DEF InHandler
<1>9. req'[d] # Idle
  BY DEF Idle
<1>10. ~Send(d)
  BY <1>1, Zenon DEF Send, TypeOK, Idle
<1> QED
  BY <1>3, <1>6, <1>7, <1>8, <1>9, <1>10, Zenon DEF RequestStep

\* While the process lives, what is covered stays covered.
LEMMA CoveredMono ==
    ASSUME TypeOK, TypeOK', LogStep, NEW n \in Int, NEW m \in Int, Covered(m), n <= m
    PROVE  Covered(n)'
<1>1. Received \subseteq Received'
  BY Zenon DEF LogStep, Received
<1>2. /\ Len(log) \in Nat /\ Len(log') \in Nat
      /\ n <= Len(log) /\ Len(log) <= Len(log')
  BY DEF TypeOK, LogStep, Covered
<1>3. n <= Len(log')
  BY <1>2
<1>4. ASSUME NEW s \in 1 .. n PROVE log'[s] \in Received'
  <2>1. s \in 1 .. m /\ s \in 1 .. Len(log)
    BY <1>2
  <2> QED
    BY <1>1, <2>1, Zenon DEF LogStep, Covered
<1> QED
  BY <1>3, <1>4, Zenon DEF Covered

\* As long as no stale cursor retires a message, every cursor in play is
\* covered by what the bridges have received, or will be once the reply that
\* carries it arrives.
LEMMA CursorStep ==
    ASSUME DeliveryInv, [Next]_vars, ~staleUsed'
    PROVE  CursorsCovered'
<1>1. TypeOK /\ QueueIsSuffix /\ TypeOK' /\ QueueIsSuffix'
  BY SuffixStep, Zenon DEF DeliveryInv
<1>2. CASE EndProcess
  <2>1. Gone' = 0 /\ Len(log') = 0
    BY <1>2 DEF EndProcess, Gone
  <2>2. ASSUME NEW d \in Clients
        PROVE  /\ ~staleBuf'[d] => Covered(buf[d])'
               /\ req'[d].pc \notin InHandler /\ req'[d].pc # "replied"
    <3>1. req'[d].pc = "idle" /\ (~staleBuf'[d] => buf'[d] = NoAck)
      BY <1>2, Zenon DEF EndProcess, Idle
    <3>2. Covered(NoAck)'
      BY <2>1 DEF Covered, NoAck
    <3> QED
      BY <3>1, <3>2, Zenon DEF InHandler, Covered
  <2> QED
    BY <2>1, <2>2 DEF CursorsCovered
<1>3. CASE ~EndProcess
  <2>1. LogStep
    BY <1>1, <1>3, LogStepHolds, Zenon
  <2>2. ~staleUsed
    <3>1. ~staleUsed \/ UNCHANGED staleUsed \/ \E c \in Clients : SlotPoll(c)
      BY <1>3, Zenon DEF Next, Push, PushFull, Send, BeginWait, Timeout, ShutdownWake,
         Receive, LoseResponse, Disconnect, ForgetCursor, BeginShutdown,
         DrainEmpty, DrainTimeout, Exit, Crash, Restart, vars
    <3> QED
      BY <3>1, Zenon DEF SlotPoll
  <2>3. CursorsCovered
    BY <2>2, Zenon DEF DeliveryInv
  <2>4. \A s \in 1 .. Gone' : log'[s] \in Received'
    <3>1. Covered(Gone)
      BY <1>1, <2>3 DEF CursorsCovered, Covered, QueueIsSuffix, Gone, TypeOK
    <3>2. Gone \in Int /\ Gone' \in Int
      BY <1>1 DEF TypeOK, Gone
    <3>3. CASE Gone' = Gone
      BY <1>1, <2>1, <3>1, <3>2, <3>3, CoveredMono DEF Covered
    <3>4. ASSUME NEW c \in Clients, SlotPoll(c)
          PROVE  Gone' = Gone \/ Covered(Gone)'
      <4>1. PICK n \in 0 .. Len(messages), rest \in Seq(Message),
                 w \in Nat \cup {NoAck}, cursor \in Nat :
                    PollOutcome(c, n, rest, w, cursor)
        BY <1>1, <3>4, PollFacts, Zenon
      <4>2. log' = log
        BY <3>4, Zenon DEF SlotPoll
      <4>3. n \in Nat /\ Len(messages) \in Nat /\ Len(log) \in Nat
        <5>1. messages \in Seq(Message) /\ log \in Seq(Nat)
          BY <1>1, Zenon DEF TypeOK
        <5>2. Len(messages) \in Nat /\ Len(log) \in Nat
          BY <5>1
        <5> QED
          BY <5>2
      <4>4. Gone' = Gone + n
        BY <4>1, <4>2, <4>3 DEF Gone, PollOutcome
      <4>5. CASE n = 0
        BY <3>2, <4>4, <4>5
      <4>6. CASE n > 0
        <5>1. ~req[c].stale
          BY <4>1, <4>6, Zenon DEF PollOutcome
        <5>2. req[c].pc \in InHandler
          BY <3>4, Zenon DEF SlotPoll, InHandler
        <5>3. Covered(req[c].ack)
          BY <2>3, <5>1, <5>2, Zenon DEF CursorsCovered
        <5>4. messages[n].seq = Gone + n /\ messages[n].seq <= w
          BY <1>1, <4>1, <4>3, <4>6 DEF QueueIsSuffix, PollOutcome
        <5>5. /\ w = Watermark(req[c].ack, next_seq - 1) /\ w \in Int
              /\ next_seq \in Int
          BY <1>1, <4>1 DEF PollOutcome, TypeOK, NoAck
        <5>6. req[c].ack \in Nat \cup {NoAck}
          BY <1>1, Zenon DEF TypeOK, Request
        <5>7. req[c].ack \in Int
          BY <5>6 DEF NoAck
        <5>8. w <= req[c].ack
          BY <5>5, <5>7 DEF Watermark, Smaller, NoAck
        <5>9. Gone + n <= req[c].ack /\ Gone + n \in Int
          BY <3>2, <4>3, <5>4, <5>5, <5>7, <5>8
        <5>10. ASSUME NEW g \in Int, NEW a \in Int, g = Gone + n, a = req[c].ack
              PROVE  Covered(g)'
          BY <1>1, <2>1, <5>3, <5>9, <5>10, CoveredMono, Zenon
        <5> QED
          BY <4>4, <5>7, <5>9, <5>10, Zenon DEF Covered
      <4> QED
        BY <4>3, <4>5, <4>6
    <3>5. Gone' = Gone \/ \E c \in Clients : SlotPoll(c)
      <4>1. CASE Push
        BY <1>1, <4>1 DEF Push, TypeOK, Gone
      <4>2. UNCHANGED <<messages, log>> => Gone' = Gone
        BY Zenon DEF Gone
      <4> QED
        BY <1>3, <4>1, <4>2, Zenon DEF Next, PushFull, Send, BeginWait, Timeout, ShutdownWake,
         Receive, LoseResponse, Disconnect, ForgetCursor, BeginShutdown,
         DrainEmpty, DrainTimeout, Exit, Crash, Restart, vars, slot
    <3> QED
      BY <3>3, <3>4, <3>5, Zenon DEF Covered
  <2>5. ASSUME NEW d \in Clients, ~staleBuf'[d] PROVE Covered(buf[d])'
    <3>1. CASE buf'[d] = buf[d] /\ staleBuf'[d] = staleBuf[d]
      <4>1. Covered(buf[d]) /\ buf[d] \in Int
        BY <1>1, <2>3, <2>5, <3>1 DEF CursorsCovered, TypeOK, NoAck
      <4>2. \A n \in Int : n <= n
        OBVIOUS
      <4>3. ASSUME NEW n \in Int, n = buf[d] PROVE Covered(n)'
        BY <1>1, <2>1, <4>1, <4>2, <4>3, CoveredMono, Zenon
      <4> QED
        BY <3>1, <4>1, <4>3, Zenon DEF Covered
    <3>2. CASE buf'[d] = NoAck
      BY <1>1, <3>2, SMTT(40) DEF Covered, NoAck, TypeOK
    <3>3. CASE Receive(d)
      <4>1. ReplyCovered(req[d])
        BY <2>3, <3>3, Zenon DEF Receive, CursorsCovered
      <4>2. buf'[d] = req[d].cursor /\ log' = log
        BY <1>1, <3>3, Zenon DEF Receive, TypeOK
      <4>3. Received \subseteq Received'
        BY <2>1, Zenon DEF LogStep, Received
      <4>4. \A i \in 1 .. Len(req[d].msgs) : req[d].msgs[i].body \in Received'
        <5>1. received'[d] = received[d] \cup
                 {req[d].msgs[i].body : i \in 1 .. Len(req[d].msgs)}
          BY <1>1, <3>3, Zenon DEF Receive, TypeOK
        <5>2. received'[d] \subseteq Received'
          BY Zenon DEF Received
        <5> QED
          BY <5>1, <5>2, Zenon
      <4> QED
        BY <4>1, <4>2, <4>3, <4>4, Zenon DEF ReplyCovered, Covered
    <3>4. \/ buf'[d] = buf[d] /\ staleBuf'[d] = staleBuf[d]
          \/ buf'[d] = NoAck
          \/ Receive(d)
      <4>1. ASSUME NEW c \in Clients, Receive(c) PROVE
               (buf'[d] = buf[d] /\ staleBuf'[d] = staleBuf[d]) \/ Receive(d)
        <5>1. CASE c = d
          BY <4>1, <5>1, Zenon
        <5>2. CASE c # d
          BY <1>1, <4>1, <5>2, Zenon DEF Receive, TypeOK
        <5> QED
          BY <5>1, <5>2, Zenon
      <4>2. ASSUME NEW c \in Clients, ForgetCursor(c) PROVE
               (buf'[d] = buf[d] /\ staleBuf'[d] = staleBuf[d]) \/ buf'[d] = NoAck
        BY <1>1, <4>2, Zenon DEF ForgetCursor, TypeOK
      <4> QED
        BY <1>3, <4>1, <4>2, Zenon DEF Next, Push, PushFull, Send, BeginWait, Timeout, ShutdownWake,
         SlotPoll, LoseResponse, Disconnect, BeginShutdown,
         DrainEmpty, DrainTimeout, Exit, Crash, Restart, vars, client
    <3> QED
      BY <3>1, <3>2, <3>3, <3>4, Zenon
  <2>6. ASSUME NEW d \in Clients, req'[d].pc \in InHandler, ~req'[d].stale
        PROVE  Covered(req[d].ack)'
    <3>1. ASSUME NEW a \in Int, req[d].ack = a, req'[d].ack = a, Covered(a)
          PROVE  Covered(req[d].ack)'
      BY <1>1, <2>1, <3>1, CoveredMono DEF Covered
    <3>2. CASE /\ req[d].pc \in InHandler /\ req'[d].ack = req[d].ack
               /\ req'[d].stale = req[d].stale
      <4>1. Covered(req[d].ack) /\ req[d].ack \in Int
        <5>1. req[d] \in Request /\ ~req[d].stale
          BY <1>1, <2>6, <3>2, Zenon DEF TypeOK
        <5>2. req[d].ack \in Int
          BY <5>1 DEF Request, NoAck
        <5>3. Covered(req[d].ack)
          BY <1>1, <2>3, <3>2, <5>1, Zenon DEF CursorsCovered
        <5> QED
          BY <5>2, <5>3
      <4> QED
        BY <3>1, <3>2, <4>1, Zenon
    <3>3. CASE Send(d)
      <4>1. PICK from_buf \in {NoAck, buf[d]}, from_field \in {NoAck} \cup 1 .. buf[d] :
              req' = [req EXCEPT ![d] =
                    [Idle EXCEPT !.pc = "arrived",
                                 !.ack = ack_watermark(from_buf, from_field),
                                 !.stale = staleBuf[d]]]
        BY <3>3, Zenon DEF Send
      <4>2. /\ req'[d].ack = ack_watermark(from_buf, from_field)
            /\ req'[d].stale = staleBuf[d]
        BY <1>1, <4>1, Zenon DEF TypeOK, Idle
      <4>3. buf[d] \in Int /\ buf[d] >= NoAck
        BY <1>1 DEF TypeOK, NoAck
      <4>4. ack_watermark(from_buf, from_field) <= buf[d]
        BY <4>3 DEF ack_watermark, Larger, NoAck
      <4>5. ack_watermark(from_buf, from_field) \in Int
        BY <4>3 DEF ack_watermark, Larger, NoAck
      <4>6. Covered(buf[d])
        BY <2>3, <2>6, <4>2, Zenon DEF CursorsCovered
      <4>7. ASSUME NEW a \in Int, a = ack_watermark(from_buf, from_field)
            PROVE  Covered(a)'
        BY <1>1, <2>1, <4>3, <4>4, <4>6, <4>7, CoveredMono, Zenon
      <4> QED
        BY <4>2, <4>5, <4>7, Zenon DEF Covered
    <3>4. ~SlotPoll(d) /\ req'[d] # Idle
      <4>1. req'[d].pc \notin {"idle", "replied"}
        BY <2>6, Zenon DEF InHandler
      <4>2. SlotPoll(d) => req'[d].pc = "replied"
        BY <1>1 DEF SlotPoll, TypeOK, Request
      <4> QED
        BY <4>1, <4>2 DEF Idle
    <3> QED
      BY <1>1, <2>6, <3>2, <3>3, <3>4, RequestStepHolds, Zenon DEF RequestStep
  <2>7. ASSUME NEW d \in Clients, req'[d].pc = "replied"
        PROVE  ReplyCovered(req[d])'
    <3>1. CASE req'[d] = req[d]
      <4>1. ReplyCovered(req[d])
        BY <2>3, <2>7, <3>1, Zenon DEF CursorsCovered
      <4>2. Received \subseteq Received'
        BY <2>1, Zenon DEF LogStep, Received
      <4>3. /\ Len(log) \in Nat /\ Len(log') \in Nat /\ req[d].cursor \in Nat
            /\ Len(log) <= Len(log')
        <5>1. log \in Seq(Nat) /\ log' \in Seq(Nat)
          BY <1>1, Zenon DEF TypeOK
        <5>2. req[d] \in Request
          BY <1>1, Zenon DEF TypeOK
        <5>3. req[d].cursor \in Nat
          BY <5>2, Zenon DEF Request
        <5>4. Len(log) <= Len(log')
          BY <2>1, Zenon DEF LogStep
        <5> QED
          BY <5>1, <5>3, <5>4
      <4>3a. req[d].cursor <= Len(log)
        BY <4>1, Zenon DEF ReplyCovered
      <4>4. req[d].cursor <= Len(log')
        BY <4>3, <4>3a
      <4>5. ASSUME NEW s \in 1 .. req[d].cursor
            PROVE  log'[s] \in Received' \/ \E i \in 1 .. Len(req[d].msgs) :
                      req[d].msgs[i].body = log'[s]
        <5>1. s \in 1 .. Len(log)
          BY <4>3, <4>3a
        <5> QED
          BY <2>1, <4>1, <4>2, <5>1, Zenon DEF ReplyCovered, LogStep
      <4> QED
        BY <3>1, <4>4, <4>5, Zenon DEF ReplyCovered
    <3>2. CASE SlotPoll(d)
      <4>1. PICK n \in 0 .. Len(messages), rest \in Seq(Message),
                 w \in Nat \cup {NoAck}, cursor \in Nat :
                    PollOutcome(d, n, rest, w, cursor)
        BY <1>1, <3>2, PollFacts, Zenon
      <4>2. log' = log /\ received' = received
        BY <3>2, Zenon DEF SlotPoll, client
      <4>3. messages' = rest /\ req'[d].msgs = rest /\ req'[d].cursor = cursor
        <5>1. req \in [Clients -> Request] /\ req[d] \in Request
          BY <1>1, Zenon DEF TypeOK
        <5>2. messages' = rest /\ req' = [req EXCEPT ![d].pc = "replied",
                 ![d].msgs = rest, ![d].cursor = cursor]
          BY <4>1, Zenon DEF PollOutcome
        <5> QED
          BY <5>1, <5>2, Zenon DEF Request
      <4>4. cursor <= Len(log)
        BY <1>1, <4>1 DEF PollOutcome, Watermark, Smaller, TypeOK, Request, NoAck,
           QueueIsSuffix
      <4>5. ASSUME NEW s \in 1 .. cursor
            PROVE  log[s] \in Received' \/ \E i \in 1 .. Len(rest) : rest[i].body = log[s]
        <5>1. Len(log) \in Nat /\ Len(rest) \in Nat /\ Gone' = Len(log) - Len(rest)
          BY <1>1, <4>2, <4>3 DEF TypeOK, Gone
        <5>2. CASE s <= Gone'
          BY <2>4, <4>2, <5>1, <5>2
        <5>3. CASE s > Gone'
          <6> DEFINE i == s - Gone'
          <6>1. i \in 1 .. Len(rest) /\ Gone' + i = s
            BY <4>4, <5>1, <5>3
          <6>2. messages'[i].body = log'[Gone' + i]
            BY <1>1, <4>3, <6>1, Zenon DEF QueueIsSuffix
          <6> QED
            BY <4>2, <4>3, <6>1, <6>2, Zenon
        <5> QED
          BY <5>1, <5>2, <5>3
      <4> QED
        BY <4>2, <4>3, <4>4, <4>5, Zenon DEF ReplyCovered
    <3>3. ~(req'[d].pc \in InHandler) /\ req'[d] # Idle /\ ~Send(d)
      <4>1. Send(d) => req'[d].pc = "arrived"
        BY <1>1, Zenon DEF Send, TypeOK, Idle
      <4> QED
        BY <2>7, <4>1 DEF Idle, InHandler
    <3> QED
      BY <1>1, <3>1, <3>2, <3>3, RequestStepHolds, Zenon DEF RequestStep
  <2> QED
    BY <2>4, <2>5, <2>6, <2>7, Zenon DEF CursorsCovered
<1> QED
  BY <1>2, <1>3, Zenon

\* A message pushed since the slot was last read stays announced, and nobody
\* waits beside a stored permit.
LEMMA AnnouncedStep ==
    ASSUME DeliveryInv, [Next]_vars
    PROVE  Announced'
<1>1. TypeOK /\ Announced /\ next_seq \in Nat /\ offered \in Nat
      /\ permit \in BOOLEAN /\ req \in [Clients -> Request]
  BY Zenon DEF DeliveryInv, TypeOK
<1> DEFINE Reading == {"woken", "polling"}
\* A step that stores no permit, adds no waiter and keeps the requests that are
\* on their way to the slot.
<1>2. ASSUME UNCHANGED <<permit, next_seq, offered>>,
             \A d \in Clients : req'[d].pc = "waiting" => req[d].pc = "waiting",
             \A d \in Clients : req[d].pc \in Reading => req'[d].pc \in Reading
      PROVE  Announced'
  BY <1>1, <1>2, Zenon DEF Announced, Waiting
\* A step that puts a request on its way to the slot.
<1>3. ASSUME permit' => permit,
             \A d \in Clients : req'[d].pc = "waiting" => req[d].pc = "waiting",
             NEW c \in Clients, req'[c].pc \in Reading
      PROVE  Announced'
  BY <1>1, <1>3, Zenon DEF Announced, Waiting
\* A step that calls notify_one.
<1>4. ASSUME NEW reqs \in [Clients -> Request], NotifyOne(reqs),
             \A d \in Clients : reqs[d].pc = "waiting" => req[d].pc = "waiting"
      PROVE  Announced'
  <2>1. CASE {d \in Clients : reqs[d].pc = "waiting"} = {} /\ permit' = TRUE /\ req' = reqs
    <3>1. Waiting' = {}
      BY <2>1, Zenon DEF Waiting
    <3> QED
      BY <2>1, <3>1, Zenon DEF Announced
  <2>2. ASSUME NEW w \in Clients, reqs[w].pc = "waiting", permit' = permit,
               req' = [reqs EXCEPT ![w].pc = "woken"]
        PROVE  Announced'
    <3>1. req'[w].pc = "woken"
      BY <1>4, <2>2, Zenon DEF Request
    <3>2. \A d \in Clients : req'[d].pc = "waiting" => reqs[d].pc = "waiting"
      BY <1>4, <2>2, <3>1, Zenon
    <3> QED
      BY <1>3, <1>4, <2>2, <3>1, <3>2, Zenon
  <2> QED
    BY <1>4, <2>1, <2>2, Zenon DEF NotifyOne
<1>5. CASE EndProcess
  BY <1>5 DEF EndProcess, Announced
<1>6. CASE Push
  BY <1>1, <1>4, <1>6, Zenon DEF Push
<1>7. ASSUME NEW c \in Clients, Send(c) \/ Receive(c) \/ LoseResponse(c)
      PROVE  Announced'
  <2>1. req[c].pc \notin Reading /\ UNCHANGED <<permit, next_seq, offered>>
    BY <1>7, Zenon DEF Send, Receive, LoseResponse, slot
  <2>2. PICK r : r.pc # "waiting" /\ req' = [req EXCEPT ![c] = r]
    <3>1. CASE Send(c)
      BY <3>1, Zenon DEF Send, Idle
    <3>2. CASE Receive(c) \/ LoseResponse(c)
      BY <3>2, Zenon DEF Receive, LoseResponse, Idle
    <3> QED
      BY <1>7, <3>1, <3>2, Zenon
  <2>3. req'[c] = r /\ \A d \in Clients : d # c => req'[d] = req[d]
    BY <1>1, <2>2, Zenon
  <2> QED
    BY <1>2, <2>1, <2>2, <2>3, Zenon
<1>8. ASSUME NEW c \in Clients, BeginWait(c)
      PROVE  Announced'
  <2>1. /\ req'[c].pc = IF hub = "up" /\ ~permit THEN "waiting" ELSE "polling"
        /\ \A d \in Clients : d # c => req'[d] = req[d]
    BY <1>1, <1>8, Zenon DEF BeginWait, Request
  <2>2. CASE hub = "up" /\ ~permit
    <3>1. UNCHANGED <<next_seq, offered>> /\ permit' = FALSE /\ req[c].pc = "arrived"
      BY <1>8, <2>2, Zenon DEF BeginWait
    <3> QED
      BY <1>1, <2>1, <2>2, <3>1, Zenon DEF Announced
  <2>3. CASE ~(hub = "up" /\ ~permit)
    <3>1. permit' => permit
      BY <1>1, <1>8, <2>3, Zenon DEF BeginWait
    <3> QED
      BY <1>3, <2>1, <2>3, <3>1, Zenon
  <2> QED
    BY <2>2, <2>3, Zenon
<1>9. ASSUME NEW c \in Clients, Timeout(c)
      PROVE  Announced'
  <2>1. /\ req'[c].pc = "polling" /\ permit' = permit
        /\ \A d \in Clients : d # c => req'[d] = req[d]
    BY <1>1, <1>9, Zenon DEF Timeout, slot, Request
  <2> QED
    BY <1>3, <2>1, Zenon
<1>10. ASSUME NEW c \in Clients, ShutdownWake(c)
       PROVE  Announced'
  <2> DEFINE reqs == [req EXCEPT ![c].pc = "polling"]
  <2>1. reqs \in [Clients -> Request]
    BY <1>1, SetPc, Zenon DEF InHandler
  <2>2. reqs[c].pc = "polling" /\ \A d \in Clients : d # c => reqs[d] = req[d]
    BY <1>1, Zenon DEF Request
  <2>3. NotifyOne(reqs) \/ (req' = reqs /\ UNCHANGED permit)
    BY <1>10, Zenon DEF ShutdownWake
  <2> HIDE DEF reqs
  <2>4. CASE NotifyOne(reqs)
    BY <1>4, <2>1, <2>2, <2>4, Zenon
  <2>5. CASE req' = reqs /\ UNCHANGED permit
    BY <1>3, <2>2, <2>5, Zenon
  <2> QED
    BY <2>3, <2>4, <2>5, Zenon
<1>11. ASSUME NEW c \in Clients, SlotPoll(c)
       PROVE  Announced'
  <2>1. /\ req'[c].pc = "replied" /\ permit' = permit
        /\ next_seq' = next_seq /\ offered' = next_seq - 1
        /\ \A d \in Clients : d # c => req'[d] = req[d]
    BY <1>1, <1>11, Zenon DEF SlotPoll, Request
  <2> QED
    BY <1>1, <2>1 DEF Announced, Waiting
<1>12. ASSUME NEW c \in Clients, Disconnect(c)
       PROVE  Announced'
  <2> DEFINE reqs == [req EXCEPT ![c] = Idle]
  <2>1. reqs \in [Clients -> Request]
    BY <1>1, IdleType, Zenon
  <2>2. reqs[c].pc = "idle" /\ \A d \in Clients : d # c => reqs[d] = req[d]
    BY <1>1, Zenon DEF Idle
  <2>3. \/ NotifyOne(reqs)
        \/ req[c].pc \notin Reading /\ req' = reqs /\ UNCHANGED <<permit, next_seq, offered>>
    BY <1>12, Zenon DEF Disconnect
  <2> HIDE DEF reqs
  <2>4. CASE NotifyOne(reqs)
    BY <1>4, <2>1, <2>2, <2>4, Zenon
  <2>5. CASE req[c].pc \notin Reading /\ req' = reqs /\ UNCHANGED <<permit, next_seq, offered>>
    BY <1>2, <2>2, <2>5, Zenon
  <2> QED
    BY <2>3, <2>4, <2>5, Zenon
<1>13. CASE UNCHANGED <<permit, next_seq, offered, req>>
  BY <1>2, <1>13, Zenon
<1> QED
  <2>1. ASSUME NEW c \in Clients, ForgetCursor(c)
        PROVE  UNCHANGED <<permit, next_seq, offered, req>>
    BY <2>1, Zenon DEF ForgetCursor, slot
  <2>2. (PushFull \/ BeginShutdown \/ DrainEmpty \/ DrainTimeout \/ Restart
           \/ UNCHANGED vars) => UNCHANGED <<permit, next_seq, offered, req>>
    BY Zenon DEF PushFull, BeginShutdown, DrainEmpty, DrainTimeout, Restart, vars, slot
  <2>3. Exit \/ Crash => EndProcess
    BY Zenon DEF Exit, Crash
  <2> QED
    BY <1>5, <1>6, <1>7, <1>8, <1>9, <1>10, <1>11, <1>12, <1>13, <2>1, <2>2, <2>3, Zenon
       DEF Next
-----------------------------------------------------------------------------
(***************************************************************************)
(* The theorems.                                                           *)
(***************************************************************************)

\* The invariant holds of a fresh Hub process.
LEMMA DeliveryInit == Init => DeliveryInv
<1> SUFFICES ASSUME Init PROVE DeliveryInv
  OBVIOUS
<1>1. TypeOK
  <2>1. req \in [Clients -> Request]
    BY IdleType, Zenon DEF Init
  <2>2. buf \in [Clients -> Nat \cup {NoAck}] /\ staleBuf \in [Clients -> BOOLEAN]
    BY Zenon DEF Init
  <2>3. received \in [Clients -> SUBSET Nat]
    BY Zenon DEF Init
  <2>4. messages \in Seq(Message) /\ log \in Seq(Nat)
    BY DEF Init
  <2>5. /\ next_seq \in Nat /\ faults \in Nat /\ restarts \in Nat /\ arrivals \in Nat
        /\ dropped \in Nat /\ offered \in Nat
    BY Zenon DEF Init
  <2> QED
    BY <2>1, <2>2, <2>3, <2>4, <2>5, Zenon DEF Init, TypeOK
<1>2. QueueIsSuffix
  BY DEF Init, QueueIsSuffix, Gone
<1>3. BatchIsRunOfLog
  BY Zenon DEF Init, BatchIsRunOfLog, Idle
<1>4. CursorsCovered
  <2>1. Gone = 0 /\ Len(log) = 0
    BY DEF Init, Gone
  <2>2. Covered(-1)
    BY <2>1 DEF Covered
  <2>3. \A c \in Clients : buf[c] = -1 /\ req[c].pc = "idle"
    BY Zenon DEF Init, Idle, NoAck
  <2> QED
    BY <2>1, <2>2, <2>3 DEF CursorsCovered, InHandler
<1>5. Announced
  BY DEF Init, Announced
<1> QED
  BY <1>1, <1>2, <1>3, <1>4, <1>5, Zenon DEF DeliveryInv

\* The invariant is inductive: no action of the slot, the handler, a bridge or
\* the process breaks it.
LEMMA DeliveryStep == DeliveryInv /\ [Next]_vars => DeliveryInv'
<1> SUFFICES ASSUME DeliveryInv, [Next]_vars PROVE DeliveryInv'
  OBVIOUS
<1>1. TypeOK' /\ QueueIsSuffix'
  BY SuffixStep, Zenon
<1>2. BatchIsRunOfLog'
  BY BatchStep, Zenon
<1>3. (~staleUsed => CursorsCovered)'
  BY CursorStep, Zenon
<1>4. Announced'
  BY AnnouncedStep, Zenon
<1> QED
  BY <1>1, <1>2, <1>3, <1>4, Zenon DEF DeliveryInv

\* DeliveryInv holds in every reachable state of the slot, the handlers, the
\* bridges and the process.
THEOREM Invariance == Spec => []DeliveryInv
  BY DeliveryInit, DeliveryStep, PTL DEF Spec

\* Types, for every set of bridges and all bounds.
THEOREM TypeCorrect == Spec => []TypeOK
<1>1. DeliveryInv => TypeOK
  BY Zenon DEF DeliveryInv
<1> QED
  BY <1>1, Invariance, PTL

\* At-least-once delivery within a process: poll retires a message only when a
\* cursor at or above its id is echoed, and such a cursor was issued with, or
\* after, a batch that carried the message to a bridge.
THEOREM NoLoss == Spec => []NoLossWithinProcess
<1>1. DeliveryInv => NoLossWithinProcess
  <2> SUFFICES ASSUME DeliveryInv, ~staleUsed, NEW s \in 1 .. Len(log),
                      log[s] \notin Received
               PROVE  log[s] \in Queued
    BY Zenon DEF NoLossWithinProcess, Undelivered
  <2>1. /\ Len(log) \in Nat /\ Len(messages) \in Nat /\ QueueIsSuffix
        /\ CursorsCovered
    BY DEF DeliveryInv, TypeOK
  <2>2. ~(s <= Gone)
    BY <2>1 DEF CursorsCovered
  <2> DEFINE i == s - Gone
  <2>3. i \in 1 .. Len(messages) /\ Gone + i = s
    BY <2>1, <2>2 DEF Gone
  <2>4. messages[i].body = log[s]
    BY <2>1, <2>3, Zenon DEF QueueIsSuffix
  <2> QED
    BY <2>3, <2>4, Zenon DEF Queued
<1> QED
  BY <1>1, Invariance, PTL

\* Redelivery is in order and without a gap.
THEOREM InOrder == Spec => []BatchIsRunOfLog
<1>1. DeliveryInv => BatchIsRunOfLog
  BY Zenon DEF DeliveryInv
<1> QED
  BY <1>1, Invariance, PTL

\* No push is slept through: with a waiter there is no stored permit, so the
\* announcement of an unread message is a request about to read the slot.
THEOREM Wakeup == Spec => []NoLostWakeup
<1>1. DeliveryInv => NoLostWakeup
  BY Zenon DEF DeliveryInv, Announced, NoLostWakeup
<1> QED
  BY <1>1, Invariance, PTL

\* A drain that found the queue empty has nothing undelivered behind it.
THEOREM DrainDelivers == Spec => DrainedMeansDelivered
<1>1. DeliveryInv /\ [Next]_vars =>
        [(hub = "draining" /\ hub' = "closing" /\ DrainEmpty /\ ~staleUsed)
          => \A s \in 1 .. Len(log) : log[s] \in Received]_vars
  <2> SUFFICES ASSUME DeliveryInv, DrainEmpty, ~staleUsed
               PROVE  \A s \in 1 .. Len(log) : log[s] \in Received
    OBVIOUS
  <2>1. Gone = Len(log) /\ CursorsCovered
    BY DEF DeliveryInv, TypeOK, DrainEmpty, Gone
  <2> QED
    BY <2>1, Zenon DEF CursorsCovered
<1> QED
  BY <1>1, Invariance, PTL DEF Spec, DrainedMeansDelivered

\* A Hub process that is never stopped never meets a cursor of another one.
Uninterrupted ==
    /\ hub = "up" /\ ~staleUsed
    /\ \A c \in Clients : ~staleBuf[c] /\ ~req[c].stale

\* With no restart, the process stays up and every cursor is its own.
LEMMA UninterruptedStep ==
    ASSUME MaxRestarts = 0, TypeOK, QueueIsSuffix, Uninterrupted, [Next]_vars
    PROVE  Uninterrupted'
<1>1. hub' = "up" /\ ~EndProcess
  <2>1. ~BeginShutdown /\ ~Crash
    BY DEF BeginShutdown, Crash, TypeOK
  <2>2. ~DrainEmpty /\ ~DrainTimeout /\ ~Exit /\ ~Restart
    BY Zenon DEF DrainEmpty, DrainTimeout, Exit, Restart, Uninterrupted
  <2>3. hub' = hub
    BY <2>1, <2>2, Zenon DEF Next, Push, PushFull, Send, BeginWait, Timeout, ShutdownWake,
       SlotPoll, Receive, LoseResponse, Disconnect, ForgetCursor, vars
  <2> QED
    BY <2>3, Zenon DEF EndProcess, Uninterrupted
<1>2. ASSUME NEW d \in Clients PROVE ~staleBuf'[d]
  <2>1. ASSUME NEW c \in Clients, Receive(c) \/ ForgetCursor(c)
        PROVE  ~staleBuf'[d]
    BY <2>1, Zenon DEF Receive, ForgetCursor, TypeOK, Uninterrupted
  <2>2. staleBuf' = staleBuf \/ \E c \in Clients : Receive(c) \/ ForgetCursor(c)
    BY <1>1, Zenon DEF Next, Push, PushFull, Send, BeginWait, Timeout, ShutdownWake, SlotPoll,
     LoseResponse, Disconnect, BeginShutdown, DrainEmpty,
     DrainTimeout, Exit, Crash, Restart, vars, client
  <2> QED
    BY <2>1, <2>2, Zenon DEF Uninterrupted
<1>3. ASSUME NEW d \in Clients PROVE ~req'[d].stale
  <2>1. CASE Send(d)
    BY <2>1 DEF Send, TypeOK, Idle, Uninterrupted
  <2>2. CASE SlotPoll(d)
    BY <2>2, Zenon DEF SlotPoll, TypeOK, Request, Uninterrupted
  <2>3. CASE req'[d] = Idle
    BY <2>3 DEF Idle
  <2> QED
    BY <1>1, <2>1, <2>2, <2>3, RequestStepHolds, Zenon DEF RequestStep, Uninterrupted
<1>4. ~staleUsed'
  <2>1. ASSUME NEW c \in Clients, SlotPoll(c) PROVE ~staleUsed'
    BY <2>1, Zenon DEF SlotPoll, Uninterrupted
  <2>2. staleUsed' = staleUsed \/ \E c \in Clients : SlotPoll(c)
    BY <1>1, Zenon DEF Next, Push, PushFull, Send, BeginWait, Timeout, ShutdownWake, Receive,
     ForgetCursor, LoseResponse, Disconnect, BeginShutdown, DrainEmpty,
     DrainTimeout, Exit, Crash, Restart, vars
  <2> QED
    BY <2>1, <2>2, Zenon DEF Uninterrupted
<1> QED
  BY <1>1, <1>2, <1>3, <1>4, Zenon DEF Uninterrupted

\* Every step of an uninterrupted process is a step of the abstract queue, or
\* one it does not see: a push accepts, a poll retires a delivered prefix, a
\* response that arrives delivers a run of the accepted messages.
LEMMA RefinementStep ==
    ASSUME MaxRestarts = 0, DeliveryInv, Uninterrupted, [Next]_vars
    PROVE  [Promise!AbsNext]_(Promise!absVars)
<1>1. /\ TypeOK /\ QueueIsSuffix /\ BatchIsRunOfLog
      /\ TypeOK' /\ QueueIsSuffix'
  BY SuffixStep, Zenon DEF DeliveryInv
<1>2. Uninterrupted'
  BY <1>1, UninterruptedStep, Zenon
<1>3. CursorsCovered'
  BY <1>2, CursorStep, Zenon DEF Uninterrupted
<1>4. /\ Len(log) \in Nat /\ Len(log') \in Nat
      /\ Len(messages) \in Nat /\ Len(messages') \in Nat
      /\ Len(messages) <= Len(log) /\ Len(messages') <= Len(log')
  <2>1. log \in Seq(Nat) /\ messages \in Seq(Message)
    BY <1>1, Zenon DEF TypeOK
  <2>2. log' \in Seq(Nat) /\ messages' \in Seq(Message)
    BY <1>1, Zenon DEF TypeOK
  <2>3. Len(messages) <= Len(log) /\ Len(messages') <= Len(log')
    BY <1>1, Zenon DEF QueueIsSuffix
  <2> QED
    BY <2>1, <2>2, <2>3
<1>5. CASE Push
  <2>1. arrivals' \in 1 .. MaxArrivals
    BY <1>1, <1>5, QueueConstants DEF Push, TypeOK
  <2>2. log' = Append(log, arrivals') /\ Len(messages) < MaxQueueSize /\ received' = received
    BY <1>5, Zenon DEF Push, client
  <2>3. Len(log') - Len(messages') = Len(log) - Len(messages)
    BY <1>1, <1>5 DEF Push, TypeOK
  <2>4. Len(log) - (Len(log) - Len(messages)) < MaxQueueSize
    BY <1>4, <2>2
  <2> QED
    BY <2>1, <2>2, <2>3, <2>4, Zenon DEF Promise!AbsNext, Promise!Accept, Received
<1>6. ASSUME NEW c \in Clients, SlotPoll(c)
      PROVE  Promise!Retire
  <2>1. log' = log /\ received' = received
    BY <1>6, Zenon DEF SlotPoll, client
  <2>2. Len(messages') <= Len(messages)
    <3>1. PICK n \in 0 .. Len(messages), rest \in Seq(Message),
               w \in Nat \cup {NoAck}, cursor \in Nat :
                  PollOutcome(c, n, rest, w, cursor)
      BY <1>1, <1>6, PollFacts, Zenon
    <3>2. Len(messages') = Len(messages) - n /\ n \in Nat
      BY <3>1 DEF PollOutcome
    <3> QED
      BY <1>4, <3>2
  <2>3. Gone' = Len(log) - Len(messages') /\ Gone' \in (Len(log) - Len(messages)) .. Len(log)
    BY <1>4, <2>1, <2>2 DEF Gone
  <2>4. \A k \in 1 .. Gone' : log[k] \in Received
    BY <1>3, <2>1, Zenon DEF CursorsCovered, Received
  <2> QED
    BY <2>1, <2>3, <2>4, Zenon DEF Promise!Retire, Received
<1>7. ASSUME NEW c \in Clients, Receive(c)
      PROVE  Promise!Deliver \/ UNCHANGED Promise!absVars
  <2> DEFINE b == req[c].msgs
             B == {b[i].body : i \in 1 .. Len(b)}
  <2>1. log' = log /\ messages' = messages
    BY <1>7, Zenon DEF Receive, slot
  <2>2. Received' = Received \cup B
    <3>1. \A d \in Clients : received'[d] = IF d = c THEN received[c] \cup B
                                                     ELSE received[d]
      BY <1>1, <1>7, Zenon DEF Receive, TypeOK
    <3> HIDE DEF B
    <3> QED
      BY <3>1, Zenon DEF Received
  <2>3. Len(b) \in Nat
    BY <1>1, SMTT(40) DEF TypeOK, Request
  <2>4. \A i \in 1 .. Len(b) : /\ b[i].seq = b[1].seq + i - 1
                               /\ b[i].seq \in 1 .. Len(log)
                               /\ log[b[i].seq] = b[i].body
    BY <1>1, <1>7, Zenon DEF BatchIsRunOfLog, Receive
  <2> HIDE DEF b
  <2>5. CASE Len(b) = 0
    BY <2>1, <2>2, <2>5 DEF Promise!absVars
  <2>6. CASE Len(b) > 0
    <3>1. 1 \in 1 .. Len(b) /\ Len(b) \in 1 .. Len(b)
      BY <2>3, <2>6
    <3> DEFINE i == b[1].seq
               j == b[Len(b)].seq
    <3>2. i \in 1 .. Len(log) /\ j \in 1 .. Len(log) /\ j = i + Len(b) - 1
      BY <2>4, <3>1, Zenon
    <3>3. B = {log[k] : k \in i .. j}
      <4>1. ASSUME NEW p \in 1 .. Len(b)
            PROVE  b[p].body \in {log[k] : k \in i .. j}
        <5>1. b[p].seq = i + p - 1 /\ log[b[p].seq] = b[p].body
          BY <2>4, Zenon
        <5>2. i + p - 1 \in i .. j
          BY <1>4, <2>3, <3>2
        <5> QED
          BY <5>1, <5>2, Zenon
      <4>2. ASSUME NEW k \in i .. j
            PROVE  log[k] \in B
        <5> DEFINE p == k - i + 1
        <5>1. p \in 1 .. Len(b) /\ i + p - 1 = k
          <6> HIDE DEF i, j
          <6>1. i \in Nat /\ j = i + Len(b) - 1
            BY <1>4, <3>2
          <6> QED
            BY <2>3, <6>1
        <5>2. log[k] = b[p].body
          BY <2>4, <5>1, Zenon
        <5> QED
          BY <5>1, <5>2, Zenon
      <4> QED
        BY <4>1, <4>2, Zenon
    <3> HIDE DEF i, j, B
    <3> QED
      BY <2>1, <2>2, <3>2, <3>3, Zenon DEF Promise!Deliver
  <2> QED
    BY <2>3, <2>5, <2>6
<1>8. CASE UNCHANGED <<log, messages, received>>
  BY <1>8, Zenon DEF Promise!absVars, Received
<1>9. ~Exit /\ ~Crash
  BY <1>1 DEF Exit, Crash, Uninterrupted, TypeOK
<1> QED
  <2>1. \/ Push \/ UNCHANGED <<log, messages, received>>
        \/ \E c \in Clients : SlotPoll(c) \/ Receive(c)
    BY <1>9, Zenon DEF Next, PushFull, Send, BeginWait, Timeout, ShutdownWake, LoseResponse,
       Disconnect, ForgetCursor, BeginShutdown, DrainEmpty, DrainTimeout, Restart, vars,
       slot, client
  <2> QED
    BY <1>5, <1>6, <1>7, <1>8, <2>1, Zenon DEF Promise!AbsNext

\* While the Hub process runs, one client's slot with its long-polls and its
\* bridges implements the abstract at-least-once queue.
THEOREM Refinement ==
    ASSUME MaxRestarts = 0
    PROVE  Spec => ImplementsAtLeastOnce
<1>1. Init => Promise!AbsInit
  <2> SUFFICES ASSUME Init PROVE Promise!AbsInit
    OBVIOUS
  <2>1. Received = {}
    BY Zenon DEF Init, Received
  <2> QED
    BY <2>1 DEF Init, Promise!AbsInit
<1>2. Init => Uninterrupted
  BY DEF Init, Uninterrupted, Idle
<1>3. DeliveryInv /\ Uninterrupted /\ [Next]_vars => Uninterrupted'
  BY UninterruptedStep, Zenon DEF DeliveryInv
<1>4. DeliveryInv /\ Uninterrupted /\ [Next]_vars => [Promise!AbsNext]_(Promise!absVars)
  BY RefinementStep, Zenon
<1> QED
  BY <1>1, <1>2, <1>3, <1>4, Invariance, PTL DEF Spec, ImplementsAtLeastOnce
=============================================================================
