---------------------------- MODULE MessageQueue ----------------------------
(***************************************************************************)
(* Delivery of inbound messages to the bridges of one client (one vtoken): *)
(* the client's slot of InMemoryQueue (src/hub/queue.rs), the getupdates   *)
(* long-poll that reads it (src/server/routes/bot.rs, wait.rs), the bridge *)
(* processes that poll with that vtoken, and the life of the Hub process   *)
(* (graceful shutdown with its queue drain, crash, restart).               *)
(*                                                                         *)
(* A slot the map does not hold behaves as a fresh one: wait_notify        *)
(* creates it, push creates it, and poll on an unknown vtoken returns what *)
(* poll on a fresh slot returns (no message, cursor 0).                    *)
(*                                                                         *)
(* The bridges are external.  They send one request at a time, echo the    *)
(* cursor of the last response they received, or acknowledge less than     *)
(* that with last_ack_id, or nothing; they may lose their cursor.          *)
(***************************************************************************)
EXTENDS Integers, Sequences, FiniteSets

CONSTANTS
    Clients,        \* bridge processes that share the vtoken
    MaxQueueSize,   \* max_queue_size
    MaxArrivals,    \* bound: messages pushed to the slot
    MaxFaults,      \* bound: lost responses and dropped connections
    MaxRestarts     \* bound: ends of the Hub process

ASSUME QueueConstants ==
    /\ MaxQueueSize \in Nat \ {0}
    /\ MaxArrivals \in Nat
    /\ MaxFaults \in Nat
    /\ MaxRestarts \in Nat

VARIABLES
    hub,        \* "up", "draining", "closing" or "down"
    messages,   \* SlotState.messages: records [seq, body], oldest first
    next_seq,   \* SlotState.next_seq
    permit,     \* the permit stored in the slot's Notify
    req,        \* each client's getupdates request
    buf,        \* the cursor each client would echo (NoAck: none)
    staleBuf,   \* whether that cursor was issued by an earlier Hub process
    faults,     \* lost responses and dropped connections so far
    restarts,   \* shutdowns and crashes so far
    arrivals,   \* messages pushed so far; the body of a message is its number
    dropped,    \* metrics.messages_dropped
    log,        \* history: bodies accepted by this Hub process, in order
    offered,    \* history: highest seq allocated when the slot was last read
    received,   \* history: bodies each client received from this process
    staleUsed   \* history: a cursor of an earlier process retired a message

slot == <<messages, next_seq, permit>>
client == <<buf, staleBuf, received>>
vars == <<hub, messages, next_seq, permit, req, buf, staleBuf, faults,
          restarts, arrivals, dropped, log, offered, received, staleUsed>>

NoAck == -1

Message == [seq : Nat, body : Nat]
\* The handler is running and has not yet read the batch.
InHandler == {"arrived", "waiting", "woken", "polling"}
Request == [pc : InHandler \cup {"idle", "replied"}, ack : Nat \cup {NoAck},
            stale : BOOLEAN, msgs : Seq(Message), cursor : Nat]
Idle == [pc |-> "idle", ack |-> NoAck, stale |-> FALSE, msgs |-> << >>,
         cursor |-> 0]

Waiting == {c \in Clients : req[c].pc = "waiting"}

TypeOK ==
    /\ hub \in {"up", "draining", "closing", "down"}
    /\ messages \in Seq(Message)
    /\ next_seq \in Nat
    /\ permit \in BOOLEAN
    /\ req \in [Clients -> Request]
    /\ buf \in [Clients -> Nat \cup {NoAck}]
    /\ staleBuf \in [Clients -> BOOLEAN]
    /\ faults \in Nat /\ restarts \in Nat /\ arrivals \in Nat
    /\ dropped \in Nat
    /\ log \in Seq(Nat)
    /\ offered \in Nat
    /\ received \in [Clients -> SUBSET Nat]
    /\ staleUsed \in BOOLEAN

Init ==
    /\ hub = "up"
    /\ messages = << >> /\ next_seq = 1 /\ permit = FALSE
    /\ req = [c \in Clients |-> Idle]
    /\ buf = [c \in Clients |-> NoAck]
    /\ staleBuf = [c \in Clients |-> FALSE]
    /\ faults = 0 /\ restarts = 0 /\ arrivals = 0 /\ dropped = 0
    /\ log = << >> /\ offered = 0
    /\ received = [c \in Clients |-> {}]
    /\ staleUsed = FALSE
-----------------------------------------------------------------------------
(***************************************************************************)
(* Pure parts of the slot.                                                 *)
(***************************************************************************)
Smaller(a, b) == IF a <= b THEN a ELSE b
Larger(a, b) == IF a >= b THEN a ELSE b

\* The larger of get_updates_buf and last_ack_id, an absent, malformed or
\* negative one being NoAck.
ack_watermark(from_buf, from_field) == Larger(from_buf, from_field)

\* The watermark of a poll: ack clamped to the highest id handed out.
Watermark(ack, allocated_max) ==
    IF ack = NoAck THEN NoAck ELSE Smaller(ack, allocated_max)

\* Mutant: the whole buffer is drained by every poll.
RetiredAll(msgs, watermark) == Len(msgs)

\* How many messages the pop_front loop removes.
Retired(msgs, watermark) ==
    CHOOSE n \in 0 .. Len(msgs) :
        /\ \A i \in 1 .. n : msgs[i].seq <= watermark
        /\ n < Len(msgs) => msgs[n + 1].seq > watermark

\* The cursor of a batch.
Cursor(msgs, watermark, allocated_max) ==
    IF msgs # << >> THEN msgs[Len(msgs)].seq
    ELSE IF watermark # NoAck THEN watermark ELSE allocated_max

\* Notify::notify_one: wake one waiter, or store the permit.  reqs is req
\* after the step has taken its own request out of the waiters.
NotifyOne(reqs) ==
    LET waiters == {c \in Clients : reqs[c].pc = "waiting"} IN
    \/ /\ waiters = {}
       /\ permit' = TRUE
       /\ req' = reqs
    \/ \E w \in waiters :
          /\ req' = [reqs EXCEPT ![w].pc = "woken"]
          /\ UNCHANGED permit
-----------------------------------------------------------------------------
\* Mutant: a full queue makes room by discarding its oldest message.
PushFullDropsOldest ==
    /\ hub # "down" /\ arrivals < MaxArrivals
    /\ Len(messages) >= MaxQueueSize
    /\ arrivals' = arrivals + 1
    /\ dropped' = dropped + 1
    /\ messages' = Append(Tail(messages), [seq |-> next_seq, body |-> arrivals'])
    /\ next_seq' = next_seq + 1
    /\ NotifyOne(req)
    /\ log' = Append(log, arrivals')
    /\ UNCHANGED <<hub, client, faults, restarts, offered, staleUsed>>

(***************************************************************************)
(* PerClientSlot::push, from the dispatcher, a broadcast or an A2A call.   *)
(* Requests being served may still push while the Hub closes.              *)
(***************************************************************************)
PushFull ==
    /\ hub # "down" /\ arrivals < MaxArrivals
    /\ Len(messages) >= MaxQueueSize
    /\ arrivals' = arrivals + 1
    /\ dropped' = dropped + 1
    /\ UNCHANGED <<hub, slot, req, client, faults, restarts, log, offered,
                   staleUsed>>

\* Mutant: push puts a message at the front of the buffer.
PushFront ==
    /\ hub # "down" /\ arrivals < MaxArrivals
    /\ Len(messages) < MaxQueueSize
    /\ arrivals' = arrivals + 1
    /\ messages' = <<[seq |-> next_seq, body |-> arrivals']>> \o messages
    /\ next_seq' = next_seq + 1
    /\ NotifyOne(req)
    /\ log' = Append(log, arrivals')
    /\ UNCHANGED <<hub, client, faults, restarts, dropped, offered, staleUsed>>

\* Mutant: push notifies only when the queue was empty.
PushNotifiesFirst ==
    /\ hub # "down" /\ arrivals < MaxArrivals
    /\ Len(messages) < MaxQueueSize
    /\ arrivals' = arrivals + 1
    /\ messages' = Append(messages, [seq |-> next_seq, body |-> arrivals'])
    /\ next_seq' = next_seq + 1
    /\ IF messages = << >> THEN NotifyOne(req) ELSE UNCHANGED <<req, permit>>
    /\ log' = Append(log, arrivals')
    /\ UNCHANGED <<hub, client, faults, restarts, dropped, offered, staleUsed>>

Push ==
    /\ hub # "down" /\ arrivals < MaxArrivals
    /\ Len(messages) < MaxQueueSize
    /\ arrivals' = arrivals + 1
    /\ messages' = Append(messages, [seq |-> next_seq, body |-> arrivals'])
    /\ next_seq' = next_seq + 1
    /\ NotifyOne(req)
    /\ log' = Append(log, arrivals')
    /\ UNCHANGED <<hub, client, faults, restarts, dropped, offered, staleUsed>>
-----------------------------------------------------------------------------
(***************************************************************************)
(* One getupdates request of client c, from its arrival (admitted by the   *)
(* poll tracker and known to the registry) to its response.                *)
(***************************************************************************)
Send(c) ==
    /\ hub \in {"up", "draining"} /\ req[c].pc = "idle"
    /\ \E from_buf \in {NoAck, buf[c]}, from_field \in {NoAck} \cup 1 .. buf[c] :
          req' = [req EXCEPT ![c] =
                    [Idle EXCEPT !.pc = "arrived",
                                 !.ack = ack_watermark(from_buf, from_field),
                                 !.stale = staleBuf[c]]]
    /\ UNCHANGED <<hub, slot, client, faults, restarts, arrivals, dropped, log,
                   offered, staleUsed>>

\* The first poll of Notified takes a stored permit without suspending; a Hub
\* that is shutting down does not wait.
BeginWait(c) ==
    /\ req[c].pc = "arrived"
    /\ IF hub # "up"
       THEN req' = [req EXCEPT ![c].pc = "polling"] /\ UNCHANGED permit
       ELSE /\ req' = [req EXCEPT ![c].pc = IF permit THEN "polling" ELSE "waiting"]
            /\ permit' = FALSE
    /\ UNCHANGED <<hub, messages, next_seq, client, faults, restarts, arrivals,
                   dropped, log, offered, staleUsed>>

\* Mutant: a timeout answers with an empty batch and does not read the slot.
TimeoutRepliesEmpty(c) ==
    /\ req[c].pc = "waiting"
    /\ req' = [req EXCEPT ![c].pc = "replied", ![c].cursor = Larger(req[c].ack, 0)]
    /\ UNCHANGED <<hub, slot, client, faults, restarts, arrivals, dropped, log,
                   offered, staleUsed>>

Timeout(c) ==
    /\ req[c].pc = "waiting"
    /\ req' = [req EXCEPT ![c].pc = "polling"]
    /\ UNCHANGED <<hub, slot, client, faults, restarts, arrivals, dropped, log,
                   offered, staleUsed>>

\* The shutdown branch of the biased select.  Dropping a Notified that was
\* already woken passes its notification on.
ShutdownWake(c) ==
    /\ hub # "up" /\ req[c].pc \in {"waiting", "woken"}
    /\ LET reqs == [req EXCEPT ![c].pc = "polling"] IN
       IF req[c].pc = "woken" THEN NotifyOne(reqs)
                              ELSE req' = reqs /\ UNCHANGED permit
    /\ UNCHANGED <<hub, messages, next_seq, client, faults, restarts, arrivals,
                   dropped, log, offered, staleUsed>>

\* PerClientSlot::poll and the response made of its batch.
SlotPoll(c) ==
    /\ req[c].pc = "polling" \/ (req[c].pc = "woken" /\ hub = "up")
    /\ LET allocated_max == next_seq - 1
           watermark == Watermark(req[c].ack, allocated_max)
           n == Retired(messages, watermark)
           rest == SubSeq(messages, n + 1, Len(messages))
       IN  /\ messages' = rest
           /\ req' = [req EXCEPT ![c].pc = "replied", ![c].msgs = rest,
                        ![c].cursor = Cursor(rest, watermark, allocated_max)]
           /\ offered' = allocated_max
           /\ staleUsed' = (staleUsed \/ (req[c].stale /\ n > 0))
    /\ UNCHANGED <<hub, next_seq, permit, client, faults, restarts, arrivals,
                   dropped, log>>

Receive(c) ==
    /\ req[c].pc = "replied"
    /\ buf' = [buf EXCEPT ![c] = req[c].cursor]
    /\ staleBuf' = [staleBuf EXCEPT ![c] = FALSE]
    /\ received' = [received EXCEPT ![c] =
          @ \cup {req[c].msgs[i].body : i \in 1 .. Len(req[c].msgs)}]
    /\ req' = [req EXCEPT ![c] = Idle]
    /\ UNCHANGED <<hub, slot, faults, restarts, arrivals, dropped, log, offered,
                   staleUsed>>
-----------------------------------------------------------------------------
(***************************************************************************)
(* Faults of the connection and of the bridge.                             *)
(***************************************************************************)
LoseResponse(c) ==
    /\ req[c].pc = "replied" /\ faults < MaxFaults
    /\ faults' = faults + 1
    /\ req' = [req EXCEPT ![c] = Idle]
    /\ UNCHANGED <<hub, slot, client, restarts, arrivals, dropped, log, offered,
                   staleUsed>>

\* The connection closes while the handler is suspended: its future is dropped,
\* and a Notified that was already woken passes its notification on.
Disconnect(c) ==
    /\ req[c].pc \in {"arrived", "waiting", "woken"} /\ faults < MaxFaults
    /\ faults' = faults + 1
    /\ LET reqs == [req EXCEPT ![c] = Idle] IN
       IF req[c].pc = "woken" THEN NotifyOne(reqs)
                              ELSE req' = reqs /\ UNCHANGED permit
    /\ UNCHANGED <<hub, messages, next_seq, client, restarts, arrivals, dropped,
                   log, offered, staleUsed>>

\* A bridge restarts without its cursor.
ForgetCursor(c) ==
    /\ req[c].pc = "idle" /\ buf[c] # NoAck
    /\ buf' = [buf EXCEPT ![c] = NoAck]
    /\ staleBuf' = [staleBuf EXCEPT ![c] = FALSE]
    /\ UNCHANGED <<hub, slot, req, faults, restarts, arrivals, dropped, log,
                   offered, received, staleUsed>>
-----------------------------------------------------------------------------
(***************************************************************************)
(* The Hub process.                                                        *)
(***************************************************************************)
BeginShutdown ==
    /\ hub = "up" /\ restarts < MaxRestarts
    /\ hub' = "draining"
    /\ restarts' = restarts + 1
    /\ UNCHANGED <<slot, req, client, faults, arrivals, dropped, log, offered,
                   staleUsed>>

\* Mutant: the drain ends once every message was handed to some poll.
DrainHandedOut ==
    /\ hub = "draining" /\ offered = next_seq - 1
    /\ hub' = "closing"
    /\ UNCHANGED <<slot, req, client, faults, restarts, arrivals, dropped, log,
                   offered, staleUsed>>

\* drain_queues_before_shutdown finds no unacknowledged message.
DrainEmpty ==
    /\ hub = "draining" /\ Len(messages) = 0
    /\ hub' = "closing"
    /\ UNCHANGED <<slot, req, client, faults, restarts, arrivals, dropped, log,
                   offered, staleUsed>>

\* drain_queues_before_shutdown gives up at its deadline, or is disabled.
DrainTimeout ==
    /\ hub = "draining" /\ Len(messages) # 0
    /\ hub' = "closing"
    /\ UNCHANGED <<slot, req, client, faults, restarts, arrivals, dropped, log,
                   offered, staleUsed>>

\* The process ends and its memory with it; the bridges keep their cursors.
EndProcess ==
    /\ hub' = "down"
    /\ messages' = << >> /\ next_seq' = 1 /\ permit' = FALSE
    /\ req' = [c \in Clients |-> Idle]
    /\ staleBuf' = [c \in Clients |-> buf[c] # NoAck]
    /\ log' = << >> /\ offered' = 0
    /\ received' = [c \in Clients |-> {}]
    /\ staleUsed' = FALSE
    /\ UNCHANGED <<buf, faults, arrivals, dropped>>

\* Axum closes once the requests in flight are answered.
Exit ==
    /\ hub = "closing" /\ \A c \in Clients : req[c].pc = "idle"
    /\ EndProcess
    /\ UNCHANGED restarts

Crash ==
    /\ hub = "up" /\ restarts < MaxRestarts
    /\ restarts' = restarts + 1
    /\ EndProcess

Restart ==
    /\ hub = "down"
    /\ hub' = "up"
    /\ UNCHANGED <<slot, req, client, faults, restarts, arrivals, dropped, log,
                   offered, staleUsed>>
-----------------------------------------------------------------------------
Next ==
    \/ Push \/ PushFull
    \/ \E c \in Clients :
          \/ Send(c) \/ BeginWait(c) \/ Timeout(c) \/ ShutdownWake(c)
          \/ SlotPoll(c) \/ Receive(c)
          \/ LoseResponse(c) \/ Disconnect(c) \/ ForgetCursor(c)
    \/ BeginShutdown \/ DrainEmpty \/ DrainTimeout \/ Exit \/ Crash \/ Restart

Spec == Init /\ [][Next]_vars

(***************************************************************************)
(* Tokio runs ready tasks and fires timers; a bridge polls in a loop; the  *)
(* process ends once asked to.  Faults are finitely many (MaxFaults).      *)
(***************************************************************************)
Fairness ==
    /\ \A c \in Clients :
          /\ WF_vars(Send(c)) /\ WF_vars(BeginWait(c)) /\ WF_vars(Timeout(c))
          /\ WF_vars(ShutdownWake(c)) /\ WF_vars(SlotPoll(c))
          /\ WF_vars(Receive(c))
    /\ WF_vars(DrainEmpty \/ DrainTimeout) /\ WF_vars(Exit) /\ WF_vars(Restart)

FairSpec == Spec /\ Fairness
-----------------------------------------------------------------------------
(***************************************************************************)
(* Properties.                                                             *)
(***************************************************************************)
Received == UNION {received[c] : c \in Clients}
Queued == {messages[i].body : i \in 1 .. Len(messages)}
Undelivered == {s \in 1 .. Len(log) : log[s] \notin Queued \cup Received}

\* At-least-once delivery within one Hub process (PollBatch, poll): every
\* message the slot accepted is still queued or has reached a bridge, whatever
\* responses are lost, connections drop or bridges share the vtoken, as long
\* as no cursor of an earlier process has retired a message.
NoLossWithinProcess == ~staleUsed => Undelivered = {}

\* No lost wakeup (push, wait_notify): while a request is suspended on the
\* Notify and a message was pushed since the slot was last read, some other
\* request has been woken or is about to read the slot, so the message does
\* not sit until a timeout.
NoLostWakeup ==
    (Waiting # {} /\ offered < next_seq - 1)
        => \E c \in Clients : req[c].pc \in {"woken", "polling"}

\* A graceful shutdown whose drain ended because nothing was unacknowledged
\* (drain_queues_before_shutdown) leaves no accepted message that no bridge
\* ever received, unless a stale cursor retired one before.
DrainedMeansDelivered ==
    [][(hub = "draining" /\ hub' = "closing" /\ DrainEmpty /\ ~staleUsed)
          => \A s \in 1 .. Len(log) : log[s] \in Received]_vars

\* Redelivery is in order and without a gap (poll): the batch of a response
\* is a run of consecutively accepted messages with consecutive ids, however
\* many acknowledgements and rejected pushes came between.
BatchIsRunOfLog ==
    \A c \in Clients : req[c].pc = "replied" =>
        LET b == req[c].msgs IN
        \A i \in 1 .. Len(b) :
            /\ b[i].seq = b[1].seq + i - 1
            /\ b[i].seq \in 1 .. Len(log) /\ log[b[i].seq] = b[i].body

\* One client's queue in a Hub process that keeps running implements the
\* abstract at-least-once FIFO of AtLeastOnce (slot, getupdates and bridges
\* together implement what the MessageQueue trait documents).
Promise == INSTANCE AtLeastOnce WITH
              Capacity <- MaxQueueSize, Payloads <- 1 .. MaxArrivals,
              accepted <- log,
              retired <- Len(log) - Len(messages), delivered <- Received

ImplementsAtLeastOnce == Promise!AbsInit /\ [][Promise!AbsNext]_(Promise!absVars)

\* Every message accepted by a Hub that keeps running eventually reaches a
\* bridge (getupdates with its timeout and Notify).
AcceptedEventuallyDelivered ==
    \A b \in 1 .. MaxArrivals :
        (\E s \in 1 .. Len(log) : log[s] = b) ~> (b \in Received)
=============================================================================
