--------------------------- MODULE AgentCallProofs --------------------------
(***************************************************************************)
(* Proof that the depth limit of agent calls holds for any backends, any   *)
(* allowlist, limit and number of overlapping calls.                       *)
(*                                                                         *)
(* The limit is compared once, when a call begins; the depth it then read  *)
(* and the row it saw before its grant are written many steps later.  The  *)
(* invariant therefore bounds not only the rows but everything that a call *)
(* in progress has in hand and may still write.                            *)
(***************************************************************************)
EXTENDS AgentCall, TLAPS

AnyName == Names \cup {NoSession}

BoundedRow == [name : AnyName, depth : 0..MaxDepth, age : {0}]

\* A call in progress: its depth leaves room for the grant, which is one
\* deeper, and the row it may restore is within the limit.
BoundedCall ==
    [pc : Running, caller : Agents, target : Agents, depth : 0..(MaxDepth - 1),
     name : Names, prev : BoundedRow, pre : (SUBSET Names) \cup {NoSnapshot},
     alone : BOOLEAN]

AnyCall == {Free} \cup {Over(pc) : pc \in Ended} \cup BoundedCall

AnyHandOver == {[pc |-> "idle"]} \cup [pc : {"grant"}, to : Agents, name : Names]

DepthInv ==
    /\ active \in [Agents -> BoundedRow]
    /\ \A a \in Agents : DOMAIN backend[a] \subseteq Names
    /\ backend = [a \in Agents |-> backend[a]]
    /\ calls \in [Call -> AnyCall]
    /\ \A a \in Agents : \A h \in hold[a] : h.name \in Names
    /\ hold = [a \in Agents |-> hold[a]]
    /\ disp \in AnyHandOver

-----------------------------------------------------------------------------
\* A handler that is at one of its steps has a call in hand (call_agent).
LEMMA AtIsBounded ==
    ASSUME DepthInv, NEW c \in Call, NEW s \in Running, At(c, s)
    PROVE  calls[c] \in BoundedCall
  BY DEF DepthInv, At, AnyCall, Over, Ended, Running, Waiting, Releasing

\* The names of the model differ from the marks for a missing row and a
\* missing snapshot.
LEMMA NameFacts ==
    /\ Default \in Names /\ NoSession \notin Names
    /\ \A c \in Call : GrantKey(c) \in Names
    /\ NoRow \in BoundedRow
  BY AgentCallConstants
     DEF Names, Default, NoSession, GrantKey, NoRow, Row, BoundedRow, AnyName

\* Marking the calls that another writer disturbed keeps them well formed.
LEMMA DisturbedKeeps ==
    ASSUME DepthInv, NEW a, NEW but
    PROVE  Disturbed(a, but) \in [Call -> AnyCall]
<1> SUFFICES ASSUME NEW c \in Call, InFlight(c)
             PROVE  [calls[c] EXCEPT !.alone = FALSE] \in AnyCall
  BY Zenon DEF Disturbed, DepthInv
<1>1. calls[c] \in BoundedCall
  BY DEF DepthInv, InFlight, AnyCall, Over, Ended, Running, Waiting, Releasing
<1> QED
  BY <1>1, Zenon DEF BoundedCall, AnyCall

\* Whether or not others are marked, a call in hand stays the same but for
\* its mark.
LEMMA DisturbedOwn ==
    ASSUME DepthInv, NEW a, NEW c \in Call
    PROVE  Disturbed(a, c)[c] = calls[c]
  BY Zenon DEF Disturbed

\* A call that moves to another step stays well formed.
LEMMA Moves ==
    ASSUME NEW f \in [Call -> AnyCall], NEW c \in Call, f[c] \in BoundedCall,
           NEW s \in Running
    PROVE  [f EXCEPT ![c].pc = s] \in [Call -> AnyCall]
<1>1. [f[c] EXCEPT !.pc = s] \in BoundedCall
  BY Zenon DEF BoundedCall
<1> QED
  BY <1>1, Zenon DEF AnyCall

\* So does one whose statement failed on the way.
LEMMA FailsTo ==
    ASSUME NEW f \in [Call -> AnyCall], NEW c \in Call, f[c] \in BoundedCall,
           NEW s \in Running
    PROVE  [f EXCEPT ![c].pc = s, ![c].alone = FALSE] \in [Call -> AnyCall]
<1>1. [f[c] EXCEPT !.pc = s, !.alone = FALSE] \in BoundedCall
  BY Zenon DEF BoundedCall
<1> QED
  BY <1>1, Zenon DEF AnyCall

\* A grant within the limit keeps the table within the limit.
LEMMA GrantKeeps ==
    ASSUME DepthInv, NEW a \in Agents, NEW n \in AnyName, NEW d \in 0..MaxDepth
    PROVE  set_active_session_with_depth(active, a, n, d) \in [Agents -> BoundedRow]
  BY Zenon DEF DepthInv, set_active_session_with_depth, Row, BoundedRow
-----------------------------------------------------------------------------
\* It holds before the first message.
LEMMA DepthInit == Init => DepthInv
<1> SUFFICES ASSUME Init PROVE DepthInv
  OBVIOUS
<1>1. Row(Default, 0, 0) \in BoundedRow
  BY NameFacts, AgentCallConstants DEF Row, BoundedRow, AnyName
<1> QED
  BY <1>1, NameFacts DEF Init, DepthInv, AnyCall, AnyHandOver

\* call_agent compares the depth it read with the limit.
LEMMA BeginKeeps ==
    ASSUME DepthInv, NEW c \in Call, NEW caller \in Agents, NEW target \in Agents,
           NEW session \in Sessions, call_agent(c, caller, target, session)
    PROVE  DepthInv'
<1> DEFINE new == [pc |-> "snapshot", caller |-> caller, target |-> target,
                   depth |-> active[caller].depth,
                   name |-> IF session = NoSession THEN GrantKey(c) ELSE session,
                   prev |-> NoRow, pre |-> NoSnapshot, alone |-> TRUE]
<1>1. active[caller].depth \in 0..(MaxDepth - 1)
  BY AgentCallConstants DEF call_agent, MayCall, DepthInv, BoundedRow
<1>2. (IF session = NoSession THEN GrantKey(c) ELSE session) \in Names
  BY NameFacts, AgentCallConstants, Zenon
<1>3. new \in BoundedCall
  BY <1>1, <1>2, NameFacts, Zenon DEF BoundedCall, Running
<1>4. calls' \in [Call -> AnyCall]
  BY <1>3, Zenon DEF call_agent, DepthInv, AnyCall
<1> QED
  BY <1>4, Zenon DEF call_agent, DepthInv

\* The snapshot takes over a row that is within the limit.
LEMMA SnapshotKeeps ==
    ASSUME DepthInv, NEW c \in Call, Snapshot(c)
    PROVE  DepthInv'
<1> DEFINE a == calls[c].target
<1>1. calls[c] \in BoundedCall /\ a \in Agents
  BY AtIsBounded, Zenon DEF Snapshot, Running, BoundedCall
<1>2. active[a] \in BoundedRow /\ DOMAIN backend[a] \in SUBSET Names
  BY <1>1, Zenon DEF DepthInv
<1>3. calls' \in [Call -> AnyCall]
  <2>1. ASSUME NEW prev \in BoundedRow, NEW pre \in (SUBSET Names) \cup {NoSnapshot},
               NEW f, f = [calls[c] EXCEPT !.pc = "grant", !.prev = prev, !.pre = pre]
        PROVE  f \in BoundedCall /\ [f EXCEPT !.alone = FALSE] \in BoundedCall
    BY <1>1, <2>1, Zenon DEF BoundedCall, Running
  <2>2. CASE calls' = [calls EXCEPT ![c].pc = "grant", ![c].prev = active[a],
                                    ![c].pre = DOMAIN backend[a]]
    <3>1. [calls[c] EXCEPT !.pc = "grant", !.prev = active[a], !.pre = DOMAIN backend[a]]
            \in BoundedCall
      BY <1>2, <2>1, Zenon
    <3> QED
      BY <2>2, <3>1, Zenon DEF DepthInv, AnyCall
  <2>3. ASSUME NEW prev \in {NoRow, active[a]},
               NEW pre \in {NoSnapshot, DOMAIN backend[a]},
               calls' = [calls EXCEPT ![c].pc = "grant", ![c].prev = prev,
                                      ![c].pre = pre, ![c].alone = FALSE]
        PROVE  calls' \in [Call -> AnyCall]
    <3>1. prev \in BoundedRow /\ pre \in (SUBSET Names) \cup {NoSnapshot}
      BY <1>2, NameFacts, Zenon
    <3>2. [calls[c] EXCEPT !.pc = "grant", !.prev = prev, !.pre = pre, !.alone = FALSE]
            \in BoundedCall
      BY <1>1, <3>1, Zenon DEF BoundedCall, Running
    <3> QED
      BY <2>3, <3>2, Zenon DEF DepthInv, AnyCall
  <2> QED
    BY <2>2, <2>3, Zenon DEF Snapshot
<1> QED
  BY <1>3, Zenon DEF Snapshot, DepthInv

\* The grant is one deeper than its caller, who was below the limit.
LEMMA GrantCallKeeps ==
    ASSUME DepthInv, NEW c \in Call, GrantCall(c)
    PROVE  DepthInv'
<1> DEFINE a == calls[c].target
<1>1. calls[c] \in BoundedCall /\ a \in Agents
  BY AtIsBounded, Zenon DEF GrantCall, Running, BoundedCall
<1>2. calls[c].depth + 1 \in 0..MaxDepth
  BY <1>1, AgentCallConstants DEF BoundedCall
<1>3. active' \in [Agents -> BoundedRow]
  BY <1>1, <1>2, GrantKeeps, NameFacts DEF GrantCall, AnyName, DepthInv
<1>4. calls' \in [Call -> AnyCall]
  <2>1. "push" \in Running
    BY Zenon DEF Running
  <2>2. Disturbed(a, c) \in [Call -> AnyCall] /\ Disturbed(a, c)[c] \in BoundedCall
    BY <1>1, DisturbedKeeps, DisturbedOwn, Zenon
  <2>3. [Disturbed(a, c) EXCEPT ![c].pc = "push"] \in [Call -> AnyCall]
    BY <2>1, <2>2, Moves, Zenon
  <2>4. [calls EXCEPT ![c].pc = "push", ![c].alone = FALSE] \in [Call -> AnyCall]
    BY <1>1, <2>1, FailsTo, Zenon DEF DepthInv
  <2> QED
    BY <2>3, <2>4, Zenon DEF GrantCall, FailTo
<1> QED
  BY <1>3, <1>4, Zenon DEF GrantCall, DepthInv

\* Taking the grant back removes a row or leaves it.
LEMMA DropGrantKeeps ==
    ASSUME DepthInv, NEW c \in Call, DropGrant(c)
    PROVE  DepthInv'
<1> DEFINE a == calls[c].target
<1>1. calls[c] \in BoundedCall /\ a \in Agents
  BY AtIsBounded, Zenon DEF DropGrant, Running, Releasing, BoundedCall
<1>2. active' \in [Agents -> BoundedRow]
  BY <1>1, NameFacts, Zenon DEF DropGrant, delete_active_session_if_name, DepthInv
<1>3. calls' \in [Call -> AnyCall]
  <2>1. "look" \in Running
    BY Zenon DEF Running, Releasing
  <2>2. Disturbed(a, c) \in [Call -> AnyCall] /\ Disturbed(a, c)[c] \in BoundedCall
    BY <1>1, DisturbedKeeps, DisturbedOwn, Zenon
  <2>3. [Disturbed(a, c) EXCEPT ![c].pc = "look"] \in [Call -> AnyCall]
    BY <2>1, <2>2, Moves, Zenon
  <2>4. [calls EXCEPT ![c].pc = "look", ![c].alone = FALSE] \in [Call -> AnyCall]
    BY <1>1, <2>1, FailsTo, Zenon DEF DepthInv
  <2> QED
    BY <2>3, <2>4, Zenon DEF DropGrant, FailTo
<1> QED
  BY <1>2, <1>3, Zenon DEF DropGrant, DepthInv

\* The row that is written back was within the limit when it was read.
LEMMA RestoreKeeps ==
    ASSUME DepthInv, NEW c \in Call, RestoreGrant(c)
    PROVE  DepthInv'
<1> DEFINE a == calls[c].target
           prev == calls[c].prev
<1>1. calls[c] \in BoundedCall /\ a \in Agents
  BY AtIsBounded, Zenon DEF RestoreGrant, Running, Releasing, BoundedCall
<1>2. prev.name \in AnyName /\ prev.depth \in 0..MaxDepth
  BY <1>1, Zenon DEF BoundedCall, BoundedRow
<1>3. active' \in [Agents -> BoundedRow]
  BY <1>1, <1>2, GrantKeeps DEF RestoreGrant, DepthInv
<1>4. calls' \in [Call -> AnyCall]
  <2>1. "drop" \in Running
    BY Zenon DEF Running, Releasing
  <2>2. Disturbed(a, c) \in [Call -> AnyCall] /\ Disturbed(a, c)[c] \in BoundedCall
    BY <1>1, DisturbedKeeps, DisturbedOwn, Zenon
  <2>3. [Disturbed(a, c) EXCEPT ![c].pc = "drop"] \in [Call -> AnyCall]
    BY <2>1, <2>2, Moves, Zenon
  <2>4. [calls EXCEPT ![c].pc = "drop", ![c].alone = FALSE] \in [Call -> AnyCall]
    BY <1>1, <2>1, FailsTo, Zenon DEF DepthInv
  <2> QED
    BY <2>3, <2>4, Zenon DEF RestoreGrant, FailTo
<1> QED
  BY <1>3, <1>4, Zenon DEF RestoreGrant, DepthInv

\* A message is pushed under a name of the model.
LEMMA DeliverKeeps ==
    ASSUME DepthInv, NEW a \in Agents, NEW from, NEW n \in Names, Deliver(a, from, n)
    PROVE  /\ \A b \in Agents : \A h \in hold'[b] : h.name \in Names
           /\ hold' = [b \in Agents |-> hold'[b]]
<1> DEFINE m == [from |-> from, name |-> n, stage |-> "held"]
<1>1. hold' = [hold EXCEPT ![a] = @ \cup {m}]
  BY Zenon DEF Deliver
<1>2. m.name \in Names
  OBVIOUS
<1>3. hold = [b \in Agents |-> hold[b]]
  BY Zenon DEF DepthInv
<1>4. hold' = [b \in Agents |-> IF b = a THEN hold[b] \cup {m} ELSE hold[b]]
  BY <1>1, <1>3, Zenon
<1>5. ASSUME NEW b \in Agents, NEW h \in hold'[b] PROVE h.name \in Names
  BY <1>2, <1>4, <1>5, Zenon DEF DepthInv
<1> QED
  BY <1>4, <1>5, Zenon

\* The call goes into the queue of its target, or is refused by it.
LEMMA PushCallKeeps ==
    ASSUME DepthInv, NEW c \in Call, PushCall(c)
    PROVE  DepthInv'
<1>1. calls[c] \in BoundedCall
  BY AtIsBounded, Zenon DEF PushCall, Running
<1>2. calls' \in [Call -> AnyCall]
  BY <1>1, Moves, Zenon DEF PushCall, Goto, Running, Waiting, DepthInv
<1>3. (\A b \in Agents : \A h \in hold'[b] : h.name \in Names)
      /\ hold' = [b \in Agents |-> hold'[b]]
  <2>1. calls[c].target \in Agents /\ calls[c].name \in Names
    BY <1>1, Zenon DEF BoundedCall
  <2>2. CASE hold' = hold
    BY <2>2, Zenon DEF DepthInv
  <2>3. CASE Deliver(calls[c].target, <<"call", c>>, calls[c].name)
    BY <2>1, <2>3, DeliverKeeps, Zenon
  <2> QED
    BY <2>2, <2>3, Zenon DEF PushCall
<1> QED
  BY <1>2, <1>3, Zenon DEF PushCall, DepthInv

\* The steps of a call that change only where it is.
LEMMA WalkKeeps ==
    ASSUME DepthInv, NEW c \in Call,
           Expire(c) \/ TakeReply(c) \/ CallerGone(c) \/ LookForGrant(c)
    PROVE  DepthInv'
<1>1. calls' \in [Call -> AnyCall]
  <2>1. CASE Expire(c)
    <3>1. calls[c] \in BoundedCall
      BY <2>1, AtIsBounded, Zenon DEF Expire, Running, Waiting
    <3> QED
      BY <2>1, <3>1, Moves, Zenon DEF Expire, Goto, Running, Releasing, DepthInv
  <2>2. CASE TakeReply(c)
    <3>1. calls[c] \in BoundedCall
      BY <2>2, AtIsBounded, Zenon DEF TakeReply, Running, Waiting
    <3> QED
      BY <2>2, <3>1, Moves, Zenon DEF TakeReply, Goto, Running, Releasing, DepthInv
  <2>3. CASE CallerGone(c)
    BY <2>3, Zenon DEF CallerGone, DepthInv, AnyCall, Ended
  <2>4. CASE LookForGrant(c)
    <3>1. calls[c] \in BoundedCall
      BY <2>4, AtIsBounded, Zenon DEF LookForGrant, Running, Releasing
    <3>2. {"restore", "drop"} \subseteq Running
      BY Zenon DEF Running, Releasing
    <3>3. \A s \in {"restore", "drop"} :
            /\ [calls EXCEPT ![c].pc = s] \in [Call -> AnyCall]
            /\ [calls EXCEPT ![c].pc = s, ![c].alone = FALSE] \in [Call -> AnyCall]
      BY <3>1, <3>2, Moves, FailsTo, Zenon DEF DepthInv
    <3> QED
      BY <2>4, <3>3, Zenon DEF LookForGrant, Goto, FailTo
  <2> QED
    BY <2>1, <2>2, <2>3, <2>4, Zenon
<1>2. UNCHANGED <<active, backend, hold, disp>>
  BY Zenon DEF Expire, TakeReply, CallerGone, LookForGrant
<1> QED
  BY <1>1, <1>2, Zenon DEF DepthInv

\* The release deletes sessions and ends the call.
LEMMA DropSessionsKeeps ==
    ASSUME DepthInv, NEW c \in Call, DropSessions(c)
    PROVE  DepthInv'
<1> DEFINE a == calls[c].target
           made == IF calls[c].pre = NoSnapshot THEN {}
                   ELSE DOMAIN backend[a] \ calls[c].pre
<1>1. calls[c] \in BoundedCall /\ a \in Agents
  BY AtIsBounded, Zenon DEF DropSessions, Running, Releasing, BoundedCall
<1>2. calls' \in [Call -> AnyCall]
  <2>1. Over("done") \in AnyCall /\ Over("failed") \in AnyCall
    BY Zenon DEF AnyCall, Ended
  <2>2. Disturbed(a, c) \in [Call -> AnyCall] /\ calls \in [Call -> AnyCall]
    BY DisturbedKeeps, Zenon DEF DepthInv
  <2>3. \A f \in [Call -> AnyCall], e \in AnyCall : [f EXCEPT ![c] = e] \in [Call -> AnyCall]
    OBVIOUS
  <2> QED
    BY <2>1, <2>2, <2>3, Zenon DEF DropSessions
<1>3. (\A b \in Agents : DOMAIN backend'[b] \subseteq Names)
      /\ backend' = [b \in Agents |-> backend'[b]]
  <2>1. CASE backend' = backend
    BY <2>1, Zenon DEF DepthInv
  <2>2. CASE backend' = [backend EXCEPT ![a] = Restrict(@, DOMAIN @ \ made)]
    <3>1. DOMAIN Restrict(backend[a], DOMAIN backend[a] \ made) \subseteq DOMAIN backend[a]
      BY Zenon DEF Restrict
    <3>2. backend' = [b \in Agents |-> IF b = a
                        THEN Restrict(backend[a], DOMAIN backend[a] \ made) ELSE backend[b]]
      BY <1>1, <2>2, Zenon DEF DepthInv
    <3>3. \A b \in Agents : DOMAIN backend'[b] \subseteq DOMAIN backend[b]
      BY <3>1, <3>2, Zenon
    <3> QED
      BY <3>2, <3>3, Zenon DEF DepthInv
  <2> QED
    BY <2>1, <2>2, Zenon DEF DropSessions
<1> QED
  BY <1>2, <1>3, Zenon DEF DropSessions, DepthInv

\* The steps of an answer (sendmessage).
LEMMA AnswerKeeps ==
    ASSUME DepthInv, NEW a \in Agents, NEW h \in hold[a],
           SendCheck(a, h) \/ StoreSession(a, h) \/ SendOn(a, h)
    PROVE  DepthInv'
<1>1. h.name \in Names
  BY Zenon DEF DepthInv
<1>2. (\A b \in Agents : \A g \in hold'[b] : g.name \in Names)
      /\ hold' = [b \in Agents |-> hold'[b]]
  <2>1. CASE hold' = [hold EXCEPT ![a] = @ \ {h}]
    <3>1. hold' = [b \in Agents |-> IF b = a THEN hold[b] \ {h} ELSE hold[b]]
      BY <2>1, Zenon DEF DepthInv
    <3> QED
      BY <3>1, Zenon DEF DepthInv
  <2>2. ASSUME NEW s \in {"checked", "stored"}, Staged(a, h, s)
        PROVE  (\A b \in Agents : \A g \in hold'[b] : g.name \in Names)
               /\ hold' = [b \in Agents |-> hold'[b]]
    <3> DEFINE n == [h EXCEPT !.stage = s]
    <3>1. hold' = [b \in Agents |-> IF b = a THEN (hold[b] \ {h}) \cup {n} ELSE hold[b]]
      BY <2>2, Zenon DEF Staged, DepthInv
    <3>2. n.name = h.name \/ n.name \in Names
      BY <1>1
    <3> QED
      BY <1>1, <3>1, <3>2, Zenon DEF DepthInv
  <2> QED
    BY <2>1, <2>2, Zenon DEF SendCheck, StoreSession, SendOn
<1>3. calls' \in [Call -> AnyCall]
  <2>1. CASE calls' = calls
    BY <2>1, Zenon DEF DepthInv
  <2>2. CASE StoreSession(a, h)
    BY <2>2, DisturbedKeeps, Zenon DEF StoreSession
  <2>3. CASE calls' # calls /\ SendOn(a, h)
    <3> DEFINE c == h.from[2]
    <3>1. calls' = [calls EXCEPT ![c].pc = "replied"] /\ At(c, "wait")
      BY <2>3, Zenon DEF SendOn, resolve
    <3>2. c \in Call
      BY <2>3, <3>1, Zenon DEF DepthInv
    <3>3. calls[c] \in BoundedCall /\ "replied" \in Running
      BY <3>1, <3>2, AtIsBounded, Zenon DEF Running, Waiting
    <3> QED
      BY <3>1, <3>2, <3>3, Moves, Zenon DEF DepthInv
  <2> QED
    BY <2>1, <2>2, <2>3, Zenon DEF SendCheck
<1>4. (\A b \in Agents : DOMAIN backend'[b] \subseteq Names)
      /\ backend' = [b \in Agents |-> backend'[b]]
  <2>1. CASE backend' = backend
    BY <2>1, Zenon DEF DepthInv
  <2>2. CASE backend' = set_backend_session(backend, a, h.name, 1)
    <3>1. backend' = [b \in Agents |-> IF b = a
            THEN [s \in DOMAIN backend[b] \cup {h.name} |->
                    IF s = h.name THEN 1 ELSE backend[b][s]]
            ELSE backend[b]]
      BY <2>2, Zenon DEF set_backend_session, DepthInv
    <3> QED
      BY <1>1, <3>1, Zenon DEF DepthInv
  <2> QED
    BY <2>1, <2>2, Zenon DEF SendCheck, StoreSession, SendOn
<1>5. UNCHANGED <<active, disp>>
  BY Zenon DEF SendCheck, StoreSession, SendOn
<1> QED
  BY <1>2, <1>3, <1>4, <1>5, Zenon DEF DepthInv

\* The dispatcher keeps the session name of the row it read, and grants with
\* depth 0 (dispatch_message).
LEMMA DispatcherKeeps ==
    ASSUME DepthInv, Dispatch \/ HandOver
    PROVE  DepthInv'
<1>1. CASE Dispatch
  <2>1. Routed \in Agents
    BY AgentCallConstants, Zenon
  <2>2. get_active_session_name(active, Routed) \in Names
    BY <2>1, NameFacts, Zenon
       DEF get_active_session_name, HasRow, DepthInv, BoundedRow, AnyName
  <2>3. disp' \in AnyHandOver
    BY <1>1, <2>1, <2>2, Zenon DEF Dispatch, AnyHandOver
  <2> QED
    BY <1>1, <2>3, Zenon DEF Dispatch, DepthInv
<1>2. CASE HandOver
  <2>1. disp.to \in Agents /\ disp.name \in Names
    BY <1>2 DEF HandOver, DepthInv, AnyHandOver
  <2>2. active' \in [Agents -> BoundedRow]
    BY <1>2, <2>1, GrantKeeps, AgentCallConstants DEF HandOver, AnyName
  <2>3. calls' \in [Call -> AnyCall]
    BY <1>2, DisturbedKeeps, Zenon DEF HandOver
  <2>4. (\A b \in Agents : \A h \in hold'[b] : h.name \in Names)
        /\ hold' = [b \in Agents |-> hold'[b]]
    BY <1>2, <2>1, DeliverKeeps, Zenon DEF HandOver
  <2> QED
    BY <1>2, <2>2, <2>3, <2>4, Zenon DEF HandOver, DepthInv, AnyHandOver
<1> QED
  BY <1>1, <1>2, Zenon

-----------------------------------------------------------------------------
\* The invariant holds, whatever calls, answers and user messages interleave.
THEOREM DepthInvariance == Spec => []DepthInv
<1>1. DepthInv /\ [Next]_vars => DepthInv'
  <2> SUFFICES ASSUME DepthInv, [Next]_vars PROVE DepthInv'
    OBVIOUS
  <2>1. ASSUME NEW c \in Call, CallStep(c) \/ CallerGone(c) PROVE DepthInv'
    BY <2>1, SnapshotKeeps, GrantCallKeeps, PushCallKeeps, WalkKeeps, DropGrantKeeps,
       RestoreKeeps, DropSessionsKeeps, Zenon DEF CallStep
  <2>2. ASSUME NEW c \in Call, NEW caller \in Agents, NEW target \in Agents,
               NEW session \in Sessions, call_agent(c, caller, target, session)
        PROVE  DepthInv'
    BY <2>2, BeginKeeps, Zenon
  <2>3. ASSUME NEW a \in Agents, NEW h \in hold[a],
               SendCheck(a, h) \/ StoreSession(a, h) \/ SendOn(a, h)
        PROVE  DepthInv'
    BY <2>3, AnswerKeeps, Zenon
  <2>4. CASE Dispatch \/ HandOver
    BY <2>4, DispatcherKeeps, Zenon
  <2>5. CASE UNCHANGED vars
    BY <2>5, Zenon DEF vars, DepthInv
  <2> QED
    BY <2>1, <2>2, <2>3, <2>4, <2>5, Zenon DEF Next, Terminated
<1> QED
  BY <1>1, DepthInit, PTL DEF Spec

\* No grant is ever deeper than MAX_A2A_DEPTH.
THEOREM DepthLimited == Spec => []DepthBounded
<1>1. DepthInv => DepthBounded
  BY AgentCallConstants DEF DepthInv, DepthBounded, BoundedRow
<1> QED
  BY <1>1, DepthInvariance, PTL

-----------------------------------------------------------------------------
(***************************************************************************)
(* Calls are answered once and by their own target, and a call that has    *)
(* its target's rows to itself takes back exactly what it granted.         *)
(***************************************************************************)
\* A row of active_sessions, or none.
GoodRow == {NoRow} \cup [name : Names, depth : 0..MaxDepth, age : {0}]

\* A call in progress is one the allowlist has, and restores only a row that
\* was there.
GoodCall(c) ==
    calls[c] \in BoundedCall =>
        /\ <<calls[c].caller, calls[c].target>> \in Allowed
        /\ calls[c].prev \in GoodRow
        /\ calls[c].pc = "restore" => HasRow(calls[c].prev)

\* A message at a backend; only the answer to a call is stored and then sent
\* on in two steps.
GoodMessage == {h \in Held : h.stage = "stored" => h.from[1] = "call"}

TableInv ==
    /\ \A a \in Agents : active[a] \in GoodRow
    /\ \A c \in Call : GoodCall(c)
    /\ \A a \in Agents : hold[a] \subseteq GoodMessage
    /\ userMsgs \in 0..MaxUserMsgs
    /\ faults \in 0..MaxFaults
    /\ disp.pc = "grant" => userMsgs > 0

NoMessage(c) == \A a \in Agents : \A h \in hold[a] : h.from # <<"call", c>>

\* A call has one message at most, and none before its push or after its
\* reply.
MessageInv ==
    /\ \A c \in Call :
          calls[c].pc \in {"free", "snapshot", "grant", "push", "replied"} => NoMessage(c)
    /\ \A a, b \in Agents : \A h \in hold[a], g \in hold[b] :
          h.from = g.from /\ h.from[1] = "call" => a = b /\ h = g

\* Its waiter is there from the start until the reply or the timeout, and its
\* reply surfaces when the waiter is gone.
WaiterInv ==
    /\ pending \subseteq Call
    /\ \A c \in Call : calls[c].pc \in {"snapshot", "grant", "push", "wait"} => c \in pending
    /\ \A c \in pending : calls[c].pc \in {"snapshot", "grant", "push", "wait", "abandoned"}
    /\ surfaced \in [Call -> Nat]
    /\ \A c \in Call :
          surfaced[c] <= (IF calls[c].pc \in Releasing \cup Ended THEN 1 ELSE 0)

\* What a call that has its target's rows to itself finds in them: what it
\* saw before the grant, its grant until the release deletes it, nothing until
\* the row before is restored; and all the sessions that it saw.
LoneRows(c) ==
    calls[c] \in BoundedCall /\ calls[c].alone =>
        /\ calls[c].pc # "snapshot" =>
              /\ calls[c].pre \subseteq Names
              /\ calls[c].pre \subseteq DOMAIN backend[calls[c].target]
        /\ calls[c].pc \in {"grant", "drop"} => active[calls[c].target] = calls[c].prev
        /\ calls[c].pc \in {"push", "wait", "replied", "delete"} =>
              active[calls[c].target].name = GrantKey(c) /\ active[calls[c].target].age = 0
        /\ calls[c].pc \in {"look", "restore"} => active[calls[c].target] = NoRow

LoneInv == \A c \in Call : LoneRows(c)

CallInv == DepthInv /\ TableInv /\ MessageInv /\ WaiterInv /\ LoneInv

-----------------------------------------------------------------------------
\* A call that another writer may mark goes on as it was, and keeps its mark
\* of being alone only when the writer had to do with another backend.
Kept(d) ==
    /\ calls'[d].pc = calls[d].pc
    /\ calls'[d] \in BoundedCall => calls[d] \in BoundedCall
    /\ calls[d] \in BoundedCall =>
          /\ calls'[d].caller = calls[d].caller
          /\ calls'[d].target = calls[d].target
          /\ calls'[d].prev = calls[d].prev
          /\ calls'[d].pre = calls[d].pre
          /\ calls'[d].alone =>
                /\ calls[d].alone
                /\ active'[calls[d].target] = active[calls[d].target]
                /\ DOMAIN backend[calls[d].target] \subseteq DOMAIN backend'[calls[d].target]

\* Such a call keeps what is said of it.
LEMMA KeptStays ==
    ASSUME NEW d \in Call, Kept(d)
    PROVE  /\ GoodCall(d) => GoodCall(d)'
           /\ LoneRows(d) => LoneRows(d)'
<1>1. GoodCall(d) => GoodCall(d)'
  BY Zenon DEF Kept, GoodCall
<1>2. LoneRows(d) => LoneRows(d)'
  <2> SUFFICES ASSUME LoneRows(d), calls'[d] \in BoundedCall, calls'[d].alone
               PROVE  LoneRows(d)'
    BY Zenon DEF LoneRows
  <2>1. calls[d] \in BoundedCall
    BY Zenon DEF Kept
  <2> QED
    BY <2>1, Zenon DEF Kept, LoneRows
<1> QED
  BY <1>1, <1>2, Zenon

\* What is left of call d when the writer of backend a's rows marks the calls
\* to it.
MarkedBy(a, but, d, e) ==
    /\ e.pc = calls[d].pc
    /\ e \in BoundedCall => calls[d] \in BoundedCall
    /\ calls[d] \in BoundedCall =>
          /\ e \in BoundedCall
          /\ e.caller = calls[d].caller /\ e.target = calls[d].target
          /\ e.prev = calls[d].prev /\ e.pre = calls[d].pre
          /\ e.alone => calls[d].alone /\ (d = but \/ calls[d].target # a)

\* That is what Disturbed leaves.
LEMMA DisturbedMarks ==
    ASSUME DepthInv, NEW a, NEW but, NEW d \in Call
    PROVE  MarkedBy(a, but, d, Disturbed(a, but)[d])
<1> DEFINE e == Disturbed(a, but)[d]
<1> SUFFICES MarkedBy(a, but, d, e)
  OBVIOUS
<1>1. CASE d # but /\ InFlight(d) /\ calls[d].target = a
  <2>1. calls[d] \in BoundedCall
    BY <1>1 DEF DepthInv, InFlight, AnyCall, Over, Ended, Running, Waiting, Releasing
  <2>2. e = [calls[d] EXCEPT !.alone = FALSE]
    BY <1>1, Zenon DEF Disturbed
  <2> HIDE DEF e
  <2> QED
    BY <2>1, <2>2, Zenon DEF BoundedCall, MarkedBy
<1>2. CASE ~(d # but /\ InFlight(d) /\ calls[d].target = a)
  <2>1. e = calls[d]
    BY <1>2, Zenon DEF Disturbed
  <2> HIDE DEF e
  <2>2. calls[d] \in BoundedCall => InFlight(d)
    BY DEF BoundedCall, InFlight, Free, Running, Waiting, Releasing
  <2> QED
    BY <1>2, <2>1, <2>2, Zenon DEF MarkedBy
<1> QED
  BY <1>1, <1>2, Zenon

\* A write to the rows of backend a that marks the calls to it.
LEMMA DisturbedKept ==
    ASSUME DepthInv, NEW a, NEW but, NEW d \in Call, d # but,
           calls'[d] = Disturbed(a, but)[d],
           \A b \in Agents \ {a} : active'[b] = active[b] /\ backend'[b] = backend[b]
    PROVE  Kept(d)
<1>1. calls[d] \in BoundedCall => calls[d].target \in Agents
  BY Zenon DEF BoundedCall
<1>2. MarkedBy(a, but, d, calls'[d])
  BY DisturbedMarks, Zenon
<1> QED
  BY <1>1, <1>2, Zenon DEF Kept, MarkedBy

\* A step that writes no rows and leaves the call alone.
LEMMA UntouchedKept ==
    ASSUME NEW d \in Call, calls'[d] = calls[d], UNCHANGED <<active, backend>>
    PROVE  Kept(d)
  BY Zenon DEF Kept

\* A step of a call: where it goes on, and what it keeps.
MovedTo(c, s) ==
    /\ calls'[c] \in BoundedCall /\ calls'[c].pc = s
    /\ calls'[c].caller = calls[c].caller /\ calls'[c].target = calls[c].target
    /\ calls'[c].prev = calls[c].prev /\ calls'[c].pre = calls[c].pre
    /\ calls'[c].alone => calls[c].alone

\* A step of the call alone: whatever else the step did to the table of calls,
\* this call moves and the others are left as that made them.
LEMMA Advances ==
    ASSUME NEW f \in [Call -> AnyCall], NEW c \in Call, f[c] = calls[c],
           calls[c] \in BoundedCall, NEW s \in Running, calls' = [f EXCEPT ![c].pc = s]
    PROVE  MovedTo(c, s) /\ \A d \in Call \ {c} : calls'[d] = f[d]
<1>1. calls'[c] = [calls[c] EXCEPT !.pc = s]
  OBVIOUS
<1>2. calls'[c] \in BoundedCall /\ calls'[c].pc = s /\ calls'[c].alone = calls[c].alone
  BY <1>1, Zenon DEF BoundedCall
<1>3. /\ calls'[c].caller = calls[c].caller /\ calls'[c].target = calls[c].target
      /\ calls'[c].prev = calls[c].prev /\ calls'[c].pre = calls[c].pre
  BY <1>1, Zenon DEF BoundedCall
<1> QED
  BY <1>2, <1>3, Zenon DEF MovedTo

\* A step of a call in which a store operation fails: it moves and is marked.
LEMMA AdvancesMarked ==
    ASSUME calls \in [Call -> AnyCall], NEW c \in Call, calls[c] \in BoundedCall,
           NEW s \in Running, FailTo(c, s)
    PROVE  MovedTo(c, s) /\ ~calls'[c].alone /\ \A d \in Call \ {c} : calls'[d] = calls[d]
<1>1. calls'[c] = [calls[c] EXCEPT !.pc = s, !.alone = FALSE]
  BY Zenon DEF FailTo
<1>2. calls'[c] \in BoundedCall /\ calls'[c].pc = s /\ ~calls'[c].alone
  BY <1>1, Zenon DEF BoundedCall
<1>3. /\ calls'[c].caller = calls[c].caller /\ calls'[c].target = calls[c].target
      /\ calls'[c].prev = calls[c].prev /\ calls'[c].pre = calls[c].pre
  BY <1>1, Zenon DEF BoundedCall
<1> QED
  BY <1>2, <1>3, Zenon DEF MovedTo, FailTo

\* The steps of one call that write no queue keep the tables in order as soon
\* as they keep the call itself in order.
LEMMA TablesStay ==
    ASSUME CallInv, NEW c \in Call, \A d \in Call \ {c} : Kept(d),
           \A a \in Agents : active'[a] \in GoodRow, GoodCall(c)', LoneRows(c)',
           UNCHANGED <<hold, disp, userMsgs>>, faults' \in 0..MaxFaults
    PROVE  TableInv' /\ LoneInv'
<1>1. \A d \in Call : GoodCall(d)' /\ LoneRows(d)'
  BY KeptStays, Zenon DEF CallInv, TableInv, LoneInv
<1> QED
  BY <1>1, Zenon DEF CallInv, TableInv, LoneInv

\* Where a step may take a call that neither has its message pushed nor gets
\* its reply nor gives up its waiter.
GoesOn(s, t) ==
    \/ s \in {"snapshot", "grant"} /\ t \in {"grant", "push"}
    \/ s \in {"wait", "replied"} /\ t = "abandoned"
    \/ s \in Releasing /\ t \in {"look", "restore", "drop", "done", "failed"}

\* A call's reply is surfaced once at most, and only when the call is over:
\* what is known of it stays true as long as a call that is over stays over.
LEMMA SurfacedStays ==
    ASSUME WaiterInv, NEW d \in Call,
           calls[d].pc \in Releasing \cup Ended => calls'[d].pc \in Releasing \cup Ended
    PROVE  surfaced[d] <= (IF calls'[d].pc \in Releasing \cup Ended THEN 1 ELSE 0)
<1>1. surfaced[d] \in Nat
  BY Zenon DEF WaiterInv
<1>2. surfaced[d] <= (IF calls[d].pc \in Releasing \cup Ended THEN 1 ELSE 0)
  BY Zenon DEF WaiterInv
<1> QED
  BY <1>1, <1>2

\* They keep the messages and the waiters in order.
LEMMA WaitersStay ==
    ASSUME CallInv, NEW c \in Call, \A d \in Call \ {c} : calls'[d].pc = calls[d].pc,
           GoesOn(calls[c].pc, calls'[c].pc), UNCHANGED <<hold, pending, surfaced>>
    PROVE  MessageInv' /\ WaiterInv'
<1>1. MessageInv'
  BY DEF CallInv, MessageInv, NoMessage, GoesOn, Releasing
<1>2. ASSUME NEW d \in Call
      PROVE  /\ calls'[d].pc \in {"snapshot", "grant", "push", "wait"} => d \in pending
             /\ d \in pending =>
                   calls'[d].pc \in {"snapshot", "grant", "push", "wait", "abandoned"}
  BY Zenon DEF CallInv, WaiterInv, GoesOn, Releasing
<1>3. ASSUME NEW d \in Call
      PROVE  surfaced[d] <= (IF calls'[d].pc \in Releasing \cup Ended THEN 1 ELSE 0)
  <2>1. calls[d].pc \in Releasing \cup Ended => calls'[d].pc \in Releasing \cup Ended
    BY Zenon DEF GoesOn, Releasing, Ended
  <2> QED
    BY <2>1, SurfacedStays, Zenon DEF CallInv
<1> QED
  BY <1>1, <1>2, <1>3, Zenon DEF CallInv, WaiterInv

\* A call that is over is not in progress.
LEMMA EndedFacts ==
    \A s \in Ended : Over(s).pc = s /\ Over(s) \notin BoundedCall
<1> SUFFICES ASSUME NEW s \in Ended PROVE Over(s).pc = s /\ Over(s) \notin BoundedCall
  OBVIOUS
<1>1. Over(s).pc = s
  BY Zenon DEF Over
<1>2. s \notin Running
  BY Zenon DEF Ended, Running, Waiting, Releasing
<1>3. \A k \in BoundedCall : k.pc \in Running
  BY Zenon DEF BoundedCall
<1> QED
  BY <1>1, <1>2, <1>3, Zenon

\* A failed statement is counted, within the bound.
LEMMA FaultsBounded ==
    ASSUME TableInv, Fault \/ NoFault
    PROVE  faults' \in 0..MaxFaults
  BY AgentCallConstants DEF TableInv, Fault, NoFault

\* The rows that are written, and a missing one.
LEMMA RowFacts ==
    /\ NoRow \in GoodRow /\ ~HasRow(NoRow)
    /\ \A n \in Names, d \in 0..MaxDepth : Row(n, d, 0) \in GoodRow /\ HasRow(Row(n, d, 0))
    /\ \A r \in GoodRow : r.age = 0 /\ r \in BoundedRow
    /\ \A r \in GoodRow : HasRow(r) => r.name \in Names /\ r.depth \in 0..MaxDepth
                                       /\ r = Row(r.name, r.depth, 0)
    /\ \A r \in GoodRow : ~HasRow(r) => r = NoRow
<1>1. NoSession \notin Names /\ NoRow \in BoundedRow
  BY NameFacts, Zenon
<1>2. NoRow \in GoodRow /\ ~HasRow(NoRow) /\ NoRow.age = 0
  BY Zenon DEF GoodRow, HasRow, NoRow, Row
<1>3. ASSUME NEW n \in Names, NEW d \in 0..MaxDepth
      PROVE  Row(n, d, 0) \in GoodRow /\ HasRow(Row(n, d, 0))
  BY <1>1, Zenon DEF GoodRow, HasRow, Row
<1>4. ASSUME NEW r \in [name : Names, depth : 0..MaxDepth, age : {0}]
      PROVE  /\ r.age = 0 /\ r \in BoundedRow /\ HasRow(r)
             /\ r.name \in Names /\ r.depth \in 0..MaxDepth
             /\ r = Row(r.name, r.depth, 0)
  BY <1>1, Zenon DEF HasRow, Row, BoundedRow, AnyName
<1> QED
  BY <1>1, <1>2, <1>3, <1>4, Zenon DEF GoodRow

-----------------------------------------------------------------------------
\* A call begins (call_agent): its waiter is registered first.
LEMMA BeginKeepsCalls ==
    ASSUME CallInv, NEW c \in Call, NEW caller \in Agents, NEW target \in Agents,
           NEW session \in Sessions, call_agent(c, caller, target, session)
    PROVE  TableInv' /\ MessageInv' /\ WaiterInv' /\ LoneInv'
<1> DEFINE new == [pc |-> "snapshot", caller |-> caller, target |-> target,
                   depth |-> active[caller].depth,
                   name |-> IF session = NoSession THEN GrantKey(c) ELSE session,
                   prev |-> NoRow, pre |-> NoSnapshot, alone |-> TRUE]
<1>1. /\ calls[c] = Free /\ <<caller, target>> \in Allowed
      /\ calls' = [calls EXCEPT ![c] = new] /\ calls \in [Call -> AnyCall]
      /\ pending' = pending \cup {c}
      /\ UNCHANGED <<active, backend, disp, hold, surfaced, userMsgs, faults>>
  BY Zenon DEF call_agent, MayCall, CallInv, DepthInv
<1>2. /\ calls'[c] = new /\ \A d \in Call \ {c} : calls'[d] = calls[d]
      /\ calls[c].pc = "free"
  BY <1>1 DEF Free
<1> HIDE DEF new
<1>3. /\ calls'[c].pc = "snapshot" /\ calls'[c].prev = NoRow
      /\ calls'[c].caller = caller /\ calls'[c].target = target
  BY <1>2 DEF new
<1>4. \A d \in Call \ {c} : Kept(d)
  BY <1>1, <1>2, UntouchedKept, Zenon
<1>5. GoodCall(c)' /\ LoneRows(c)'
  BY <1>1, <1>3, RowFacts, Zenon DEF GoodCall, LoneRows
<1>6. TableInv' /\ LoneInv'
  <2>1. faults' \in 0..MaxFaults /\ \A a \in Agents : active'[a] \in GoodRow
    BY <1>1, Zenon DEF CallInv, TableInv
  <2> QED
    BY <1>1, <1>4, <1>5, <2>1, TablesStay, Zenon
<1>7. MessageInv'
  BY <1>1, <1>2, <1>3 DEF CallInv, MessageInv, NoMessage
<1>8. WaiterInv'
  <2>1. ASSUME NEW d \in Call
        PROVE  surfaced[d] <= (IF calls'[d].pc \in Releasing \cup Ended THEN 1 ELSE 0)
    <3>1. calls[d].pc \in Releasing \cup Ended => calls'[d].pc \in Releasing \cup Ended
      BY <1>2, Zenon DEF Releasing, Ended
    <3> QED
      BY <3>1, SurfacedStays, Zenon DEF CallInv
  <2>2. /\ pending' \subseteq Call
        /\ \A d \in Call :
              calls'[d].pc \in {"snapshot", "grant", "push", "wait"} => d \in pending'
        /\ \A d \in pending' :
              calls'[d].pc \in {"snapshot", "grant", "push", "wait", "abandoned"}
    BY <1>1, <1>2, <1>3, Zenon DEF CallInv, WaiterInv
  <2> QED
    BY <1>1, <2>1, <2>2, Zenon DEF CallInv, WaiterInv
<1> QED
  BY <1>6, <1>7, <1>8, Zenon

\* The snapshot keeps what the rows are now.
LEMMA SnapshotKeepsCalls ==
    ASSUME CallInv, NEW c \in Call, Snapshot(c)
    PROVE  TableInv' /\ MessageInv' /\ WaiterInv' /\ LoneInv'
<1> DEFINE a == calls[c].target
<1>1. /\ calls[c] \in BoundedCall /\ a \in Agents /\ calls[c].pc = "snapshot"
      /\ calls \in [Call -> AnyCall]
  BY AtIsBounded, Zenon DEF Snapshot, Running, BoundedCall, CallInv, At, DepthInv
<1>2. /\ active[a] \in GoodRow /\ DOMAIN backend[a] \subseteq Names
      /\ UNCHANGED <<active, backend, pending, disp, hold, surfaced, userMsgs>>
      /\ Fault \/ NoFault
  BY <1>1, Zenon DEF CallInv, DepthInv, TableInv, Snapshot
<1>3. /\ calls'[c].pc = "grant" /\ calls'[c].caller = calls[c].caller /\ calls'[c].target = a
      /\ calls'[c].prev \in {NoRow, active[a]}
      /\ calls'[c].alone => calls'[c].prev = active[a] /\ calls'[c].pre = DOMAIN backend[a]
      /\ \A d \in Call \ {c} : calls'[d] = calls[d]
  <2>1. CASE calls' = [calls EXCEPT ![c].pc = "grant", ![c].prev = active[a],
                                    ![c].pre = DOMAIN backend[a]]
    <3>1. calls'[c] = [calls[c] EXCEPT !.pc = "grant", !.prev = active[a],
                                       !.pre = DOMAIN backend[a]]
      BY <1>1, <2>1, Zenon
    <3>2. \A d \in Call \ {c} : calls'[d] = calls[d]
      BY <1>1, <2>1, Zenon
    <3> QED
      BY <1>1, <3>1, <3>2, Zenon DEF BoundedCall
  <2>2. ASSUME NEW prev \in {NoRow, active[a]},
               NEW pre \in {NoSnapshot, DOMAIN backend[a]},
               calls' = [calls EXCEPT ![c].pc = "grant", ![c].prev = prev,
                                      ![c].pre = pre, ![c].alone = FALSE]
        PROVE  /\ calls'[c].pc = "grant" /\ calls'[c].caller = calls[c].caller
               /\ calls'[c].target = a /\ calls'[c].prev \in {NoRow, active[a]} /\ ~calls'[c].alone
               /\ \A d \in Call \ {c} : calls'[d] = calls[d]
    <3>1. calls'[c] = [calls[c] EXCEPT !.pc = "grant", !.prev = prev, !.pre = pre,
                                       !.alone = FALSE]
      BY <1>1, <2>2, Zenon
    <3>2. \A d \in Call \ {c} : calls'[d] = calls[d]
      BY <1>1, <2>2, Zenon
    <3> QED
      BY <1>1, <2>2, <3>1, <3>2, Zenon DEF BoundedCall
  <2> QED
    BY <2>1, <2>2, Zenon DEF Snapshot
<1>4. \A d \in Call \ {c} : Kept(d)
  BY <1>2, <1>3, UntouchedKept, Zenon
<1>5. GoodCall(c)'
  BY <1>1, <1>2, <1>3, RowFacts, Zenon DEF GoodCall, CallInv, TableInv
<1>6. LoneRows(c)'
  BY <1>1, <1>2, <1>3, Zenon DEF LoneRows
<1>7. TableInv' /\ LoneInv'
  <2>1. faults' \in 0..MaxFaults /\ \A b \in Agents : active'[b] \in GoodRow
    BY <1>2, FaultsBounded, Zenon DEF CallInv, TableInv
  <2> QED
    BY <1>2, <1>4, <1>5, <1>6, <2>1, TablesStay, Zenon
<1>8. MessageInv' /\ WaiterInv'
  <2>1. GoesOn(calls[c].pc, calls'[c].pc)
    BY <1>1, <1>3, Zenon DEF GoesOn
  <2> QED
    BY <1>2, <1>3, <2>1, WaitersStay, Zenon
<1> QED
  BY <1>7, <1>8, Zenon

\* The grant replaces the row, and marks the other calls to this target.
LEMMA GrantCallKeepsCalls ==
    ASSUME CallInv, NEW c \in Call, GrantCall(c)
    PROVE  TableInv' /\ MessageInv' /\ WaiterInv' /\ LoneInv'
<1> DEFINE a == calls[c].target
<1>1. /\ calls[c] \in BoundedCall /\ a \in Agents /\ calls[c].pc = "grant"
      /\ calls \in [Call -> AnyCall] /\ DepthInv
      /\ UNCHANGED <<backend, pending, disp, hold, surfaced, userMsgs>>
      /\ Fault \/ NoFault
  BY AtIsBounded, Zenon DEF GrantCall, Running, BoundedCall, CallInv, At, DepthInv
<1>2. /\ Disturbed(a, c) \in [Call -> AnyCall] /\ Disturbed(a, c)[c] = calls[c]
      /\ "push" \in Running
  BY <1>1, DisturbedKeeps, DisturbedOwn, Zenon DEF Running
<1>3. /\ calls'[c] \in BoundedCall /\ calls'[c].pc = "push"
      /\ calls'[c].caller = calls[c].caller /\ calls'[c].target = a
      /\ calls'[c].prev = calls[c].prev /\ calls'[c].pre = calls[c].pre
      /\ calls'[c].alone => /\ calls[c].alone
                            /\ active'[a] = Row(GrantKey(c), calls[c].depth + 1, 0)
      /\ \A d \in Call \ {c} : Kept(d)
      /\ \A b \in Agents : active'[b] \in GoodRow
  <2>1. CASE /\ active' = set_active_session_with_depth(
                                active, a, GrantKey(c), calls[c].depth + 1)
             /\ calls' = [Disturbed(a, c) EXCEPT ![c].pc = "push"]
    <3>1. /\ active'[a] = Row(GrantKey(c), calls[c].depth + 1, 0)
          /\ \A b \in Agents \ {a} : active'[b] = active[b]
      BY <1>1, <2>1, Zenon DEF set_active_session_with_depth, DepthInv
    <3>2. Row(GrantKey(c), calls[c].depth + 1, 0) \in GoodRow
      <4>1. calls[c].depth + 1 \in 0..MaxDepth
        BY <1>1, AgentCallConstants DEF BoundedCall
      <4> QED
        BY <4>1, RowFacts, NameFacts, Zenon
    <3>3. MovedTo(c, "push") /\ \A d \in Call \ {c} : calls'[d] = Disturbed(a, c)[d]
      BY <1>1, <1>2, <2>1, Advances, Zenon
    <3>4. \A d \in Call \ {c} : Kept(d)
      BY <1>1, <3>1, <3>3, DisturbedKept, Zenon
    <3> QED
      BY <3>1, <3>2, <3>3, <3>4, Zenon DEF MovedTo, CallInv, TableInv
  <2>2. CASE active' = active /\ FailTo(c, "push")
    <3>1. /\ MovedTo(c, "push") /\ ~calls'[c].alone
          /\ \A d \in Call \ {c} : calls'[d] = calls[d]
      BY <1>1, <1>2, <2>2, AdvancesMarked, Zenon
    <3>2. \A d \in Call \ {c} : Kept(d)
      BY <1>1, <2>2, <3>1, UntouchedKept, Zenon
    <3> QED
      BY <2>2, <3>1, <3>2, Zenon DEF MovedTo, CallInv, TableInv
  <2> QED
    BY <2>1, <2>2, Zenon DEF GrantCall
<1>4. GoodCall(c)'
  BY <1>1, <1>3, Zenon DEF GoodCall, CallInv, TableInv
<1>5. LoneRows(c)'
  <2>1. LoneRows(c)
    BY Zenon DEF CallInv, LoneInv
  <2> QED
    BY <1>1, <1>3, <2>1 DEF LoneRows, Row
<1>6. TableInv' /\ LoneInv'
  <2>1. faults' \in 0..MaxFaults
    BY <1>1, FaultsBounded, Zenon DEF CallInv
  <2> QED
    BY <1>1, <1>3, <1>4, <1>5, <2>1, TablesStay, Zenon
<1>7. MessageInv' /\ WaiterInv'
  <2>1. GoesOn(calls[c].pc, calls'[c].pc) /\ \A d \in Call \ {c} : calls'[d].pc = calls[d].pc
    BY <1>1, <1>3, Zenon DEF GoesOn, Kept
  <2> QED
    BY <1>1, <2>1, WaitersStay, Zenon
<1> QED
  BY <1>6, <1>7, Zenon

\* The release deletes the row if it is this call's.
LEMMA DropGrantKeepsCalls ==
    ASSUME CallInv, NEW c \in Call, DropGrant(c)
    PROVE  TableInv' /\ MessageInv' /\ WaiterInv' /\ LoneInv'
<1> DEFINE a == calls[c].target
<1>1. /\ calls[c] \in BoundedCall /\ a \in Agents /\ calls[c].pc = "delete"
      /\ calls \in [Call -> AnyCall] /\ DepthInv
      /\ UNCHANGED <<backend, pending, disp, hold, surfaced, userMsgs>>
      /\ Fault \/ NoFault
  BY AtIsBounded, Zenon DEF DropGrant, Running, Releasing, BoundedCall, CallInv, At, DepthInv
<1>2. /\ Disturbed(a, c) \in [Call -> AnyCall] /\ Disturbed(a, c)[c] = calls[c]
      /\ "look" \in Running
  BY <1>1, DisturbedKeeps, DisturbedOwn, Zenon DEF Running, Releasing
<1>3. /\ calls'[c] \in BoundedCall /\ calls'[c].pc = "look"
      /\ calls'[c].caller = calls[c].caller /\ calls'[c].target = a
      /\ calls'[c].prev = calls[c].prev /\ calls'[c].pre = calls[c].pre
      /\ calls'[c].alone =>
            /\ calls[c].alone
            /\ active[a].name = GrantKey(c) => active'[a] = NoRow
      /\ \A d \in Call \ {c} : Kept(d)
      /\ \A b \in Agents : active'[b] \in GoodRow
  <2>1. CASE /\ active' = delete_active_session_if_name(active, a, GrantKey(c))
             /\ calls' = [Disturbed(a, c) EXCEPT ![c].pc = "look"]
    <3>1. /\ active'[a] = IF active[a].name = GrantKey(c) THEN NoRow ELSE active[a]
          /\ \A b \in Agents \ {a} : active'[b] = active[b]
      BY <1>1, <2>1, Zenon DEF delete_active_session_if_name, DepthInv
    <3>2. \A b \in Agents : active'[b] \in GoodRow
      BY <3>1, RowFacts, Zenon DEF CallInv, TableInv
    <3>3. MovedTo(c, "look") /\ \A d \in Call \ {c} : calls'[d] = Disturbed(a, c)[d]
      BY <1>1, <1>2, <2>1, Advances, Zenon
    <3>4. \A d \in Call \ {c} : Kept(d)
      BY <1>1, <3>1, <3>3, DisturbedKept, SMTT(40)
    <3> QED
      BY <3>1, <3>2, <3>3, <3>4, Zenon DEF MovedTo
  <2>2. CASE active' = active /\ FailTo(c, "look")
    <3>1. /\ MovedTo(c, "look") /\ ~calls'[c].alone
          /\ \A d \in Call \ {c} : calls'[d] = calls[d]
      BY <1>1, <1>2, <2>2, AdvancesMarked, Zenon
    <3>2. \A d \in Call \ {c} : Kept(d)
      BY <1>1, <2>2, <3>1, UntouchedKept, Zenon
    <3> QED
      BY <2>2, <3>1, <3>2, Zenon DEF MovedTo, CallInv, TableInv
  <2> QED
    BY <2>1, <2>2, Zenon DEF DropGrant
<1>4. GoodCall(c)'
  BY <1>1, <1>3, Zenon DEF GoodCall, CallInv, TableInv
<1>5. LoneRows(c)'
  <2>1. LoneRows(c)
    BY Zenon DEF CallInv, LoneInv
  <2> QED
    BY <1>1, <1>3, <2>1, Zenon DEF LoneRows
<1>6. TableInv' /\ LoneInv'
  <2>1. faults' \in 0..MaxFaults
    BY <1>1, FaultsBounded, Zenon DEF CallInv
  <2> QED
    BY <1>1, <1>3, <1>4, <1>5, <2>1, TablesStay, Zenon
<1>7. MessageInv' /\ WaiterInv'
  <2>1. GoesOn(calls[c].pc, calls'[c].pc) /\ \A d \in Call \ {c} : calls'[d].pc = calls[d].pc
    BY <1>1, <1>3, Zenon DEF GoesOn, Kept, Releasing
  <2> QED
    BY <1>1, <2>1, WaitersStay, Zenon
<1> QED
  BY <1>6, <1>7, Zenon

\* The row that was there before comes back as it was.
LEMMA RestoreKeepsCalls ==
    ASSUME CallInv, NEW c \in Call, RestoreGrant(c)
    PROVE  TableInv' /\ MessageInv' /\ WaiterInv' /\ LoneInv'
<1> DEFINE a == calls[c].target
           prev == calls[c].prev
<1>1. /\ calls[c] \in BoundedCall /\ a \in Agents /\ calls[c].pc = "restore"
      /\ calls \in [Call -> AnyCall] /\ DepthInv
      /\ UNCHANGED <<backend, pending, disp, hold, surfaced, userMsgs>>
      /\ Fault \/ NoFault
  BY AtIsBounded, Zenon DEF RestoreGrant, Running, Releasing, BoundedCall, CallInv, At, DepthInv
<1>2. /\ Disturbed(a, c) \in [Call -> AnyCall] /\ Disturbed(a, c)[c] = calls[c]
      /\ "drop" \in Running
  BY <1>1, DisturbedKeeps, DisturbedOwn, Zenon DEF Running, Releasing
<1>3. prev \in GoodRow /\ prev = Row(prev.name, prev.depth, 0)
  BY <1>1, RowFacts, Zenon DEF CallInv, TableInv, GoodCall
<1>4. /\ calls'[c] \in BoundedCall /\ calls'[c].pc = "drop"
      /\ calls'[c].caller = calls[c].caller /\ calls'[c].target = a
      /\ calls'[c].prev = prev /\ calls'[c].pre = calls[c].pre
      /\ calls'[c].alone => calls[c].alone /\ active'[a] = prev
      /\ \A d \in Call \ {c} : Kept(d)
      /\ \A b \in Agents : active'[b] \in GoodRow
  <2>1. CASE /\ active' = set_active_session_with_depth(active, a, prev.name, prev.depth)
             /\ calls' = [Disturbed(a, c) EXCEPT ![c].pc = "drop"]
    <3>1. active'[a] = prev /\ \A b \in Agents \ {a} : active'[b] = active[b]
      BY <1>1, <1>3, <2>1, Zenon DEF set_active_session_with_depth, DepthInv
    <3>2. \A b \in Agents : active'[b] \in GoodRow
      BY <1>3, <3>1, Zenon DEF CallInv, TableInv
    <3>3. MovedTo(c, "drop") /\ \A d \in Call \ {c} : calls'[d] = Disturbed(a, c)[d]
      BY <1>1, <1>2, <2>1, Advances, Zenon
    <3>4. \A d \in Call \ {c} : Kept(d)
      BY <1>1, <3>1, <3>3, DisturbedKept, Zenon
    <3> QED
      BY <1>3, <3>1, <3>2, <3>3, <3>4, Zenon DEF MovedTo
  <2>2. CASE active' = active /\ FailTo(c, "drop")
    <3>1. /\ MovedTo(c, "drop") /\ ~calls'[c].alone
          /\ \A d \in Call \ {c} : calls'[d] = calls[d]
      BY <1>1, <1>2, <2>2, AdvancesMarked, Zenon
    <3>2. \A d \in Call \ {c} : Kept(d)
      BY <1>1, <2>2, <3>1, UntouchedKept, Zenon
    <3> QED
      BY <2>2, <3>1, <3>2, Zenon DEF MovedTo, CallInv, TableInv
  <2> QED
    BY <2>1, <2>2, Zenon DEF RestoreGrant
<1>5. GoodCall(c)'
  BY <1>1, <1>4, Zenon DEF GoodCall, CallInv, TableInv
<1>6. LoneRows(c)'
  <2>1. LoneRows(c)
    BY Zenon DEF CallInv, LoneInv
  <2> QED
    BY <1>1, <1>4, <2>1, Zenon DEF LoneRows
<1>7. TableInv' /\ LoneInv'
  <2>1. faults' \in 0..MaxFaults
    BY <1>1, FaultsBounded, Zenon DEF CallInv
  <2> QED
    BY <1>1, <1>4, <1>5, <1>6, <2>1, TablesStay, Zenon
<1>8. MessageInv' /\ WaiterInv'
  <2>1. GoesOn(calls[c].pc, calls'[c].pc) /\ \A d \in Call \ {c} : calls'[d].pc = calls[d].pc
    BY <1>1, <1>4, Zenon DEF GoesOn, Kept, Releasing
  <2> QED
    BY <1>1, <2>1, WaitersStay, Zenon
<1> QED
  BY <1>7, <1>8, Zenon

\* What a step that only moves the call does to it and to the others.
LEMMA WalkFacts ==
    ASSUME CallInv, NEW c \in Call, NEW s \in Running, calls[c] \in BoundedCall,
           Goto(c, s) \/ FailTo(c, s), UNCHANGED <<active, backend>>
    PROVE  /\ MovedTo(c, s)
           /\ FailTo(c, s) => ~calls'[c].alone
           /\ \A d \in Call \ {c} : Kept(d)
           /\ \A a \in Agents : active'[a] \in GoodRow
<1>1. calls \in [Call -> AnyCall]
  BY Zenon DEF CallInv, DepthInv
<1>2. MovedTo(c, s) /\ \A d \in Call \ {c} : calls'[d] = calls[d]
  BY <1>1, Advances, AdvancesMarked, Zenon DEF Goto
<1>3. FailTo(c, s) => ~calls'[c].alone
  BY <1>1, AdvancesMarked, Zenon
<1>4. \A d \in Call \ {c} : Kept(d)
  BY <1>2, UntouchedKept, Zenon
<1> QED
  BY <1>2, <1>3, <1>4, Zenon DEF CallInv, TableInv

\* The release restores only a row that was there, and only over none.
LEMMA LookKeepsCalls ==
    ASSUME CallInv, NEW c \in Call, LookForGrant(c)
    PROVE  TableInv' /\ MessageInv' /\ WaiterInv' /\ LoneInv'
<1> DEFINE a == calls[c].target
           back == ~HasRow(active[a]) /\ HasRow(calls[c].prev)
<1>1. /\ calls[c] \in BoundedCall /\ a \in Agents /\ calls[c].pc = "look"
      /\ UNCHANGED <<active, backend, pending, disp, hold, surfaced, userMsgs>>
      /\ Fault \/ NoFault
      /\ "restore" \in Running /\ "drop" \in Running
  BY AtIsBounded, Zenon DEF LookForGrant, Running, Releasing, BoundedCall, CallInv, At
<1>2. LoneRows(c) /\ GoodCall(c)
  BY Zenon DEF CallInv, LoneInv, TableInv
<1>3. /\ MovedTo(c, calls'[c].pc) /\ calls'[c].pc \in {"restore", "drop"}
      /\ calls'[c].pc = "restore" => back
      /\ calls'[c].alone /\ calls'[c].pc # "restore" => ~back
      /\ \A d \in Call \ {c} : Kept(d)
      /\ \A b \in Agents : active'[b] \in GoodRow
  <2>1. CASE back /\ Goto(c, "restore")
    <3>1. /\ MovedTo(c, "restore")
          /\ FailTo(c, "restore") => ~calls'[c].alone
          /\ \A d \in Call \ {c} : Kept(d)
          /\ \A b \in Agents : active'[b] \in GoodRow
      BY <1>1, <2>1, WalkFacts, Zenon
    <3>2. calls'[c].pc = "restore"
      BY <3>1, Zenon DEF MovedTo
    <3> QED
      BY <2>1, <3>1, <3>2, Zenon
  <2>2. CASE ~back /\ Goto(c, "drop")
    <3>1. /\ MovedTo(c, "drop")
          /\ FailTo(c, "drop") => ~calls'[c].alone
          /\ \A d \in Call \ {c} : Kept(d)
          /\ \A b \in Agents : active'[b] \in GoodRow
      BY <1>1, <2>2, WalkFacts, Zenon
    <3>2. calls'[c].pc = "drop"
      BY <3>1, Zenon DEF MovedTo
    <3> QED
      BY <2>2, <3>1, <3>2, Zenon
  <2>3. CASE FailTo(c, "drop")
    <3>1. /\ MovedTo(c, "drop")
          /\ FailTo(c, "drop") => ~calls'[c].alone
          /\ \A d \in Call \ {c} : Kept(d)
          /\ \A b \in Agents : active'[b] \in GoodRow
      BY <1>1, <2>3, WalkFacts, Zenon
    <3>2. calls'[c].pc = "drop"
      BY <3>1, Zenon DEF MovedTo
    <3> QED
      BY <2>3, <3>1, <3>2, Zenon
  <2> QED
    BY <2>1, <2>2, <2>3, Zenon DEF LookForGrant
<1>4. GoodCall(c)'
  BY <1>1, <1>2, <1>3, Zenon DEF GoodCall, MovedTo
<1>5. LoneRows(c)'
  <2>1. calls'[c].alone => active[a] = NoRow /\ ~HasRow(active[a])
    BY <1>1, <1>2, <1>3, RowFacts, Zenon DEF LoneRows, MovedTo
  <2>2. calls'[c].alone /\ calls'[c].pc # "restore" => active[a] = calls[c].prev
    BY <1>1, <1>2, <1>3, <2>1, RowFacts, Zenon DEF GoodCall
  <2> QED
    BY <1>1, <1>2, <1>3, <2>1, <2>2, Zenon DEF LoneRows, MovedTo
<1>6. TableInv' /\ LoneInv'
  <2>1. faults' \in 0..MaxFaults
    BY <1>1, FaultsBounded, Zenon DEF CallInv
  <2> QED
    BY <1>1, <1>3, <1>4, <1>5, <2>1, TablesStay, Zenon
<1>7. MessageInv' /\ WaiterInv'
  <2>1. GoesOn(calls[c].pc, calls'[c].pc) /\ \A d \in Call \ {c} : calls'[d].pc = calls[d].pc
    BY <1>1, <1>3, Zenon DEF GoesOn, Kept, Releasing, MovedTo
  <2> QED
    BY <1>1, <2>1, WaitersStay, Zenon
<1> QED
  BY <1>6, <1>7, Zenon

\* A caller that disconnects leaves its waiter behind.
LEMMA GoneKeepsCalls ==
    ASSUME CallInv, NEW c \in Call, CallerGone(c)
    PROVE  TableInv' /\ MessageInv' /\ WaiterInv' /\ LoneInv'
<1>1. /\ calls[c].pc \in {"wait", "replied"} /\ calls'[c] = Over("abandoned")
      /\ \A d \in Call \ {c} : calls'[d] = calls[d]
      /\ UNCHANGED <<active, backend, pending, disp, hold, surfaced, userMsgs>>
      /\ Fault
  BY Zenon DEF CallerGone, At, CallInv, DepthInv
<1>2. calls'[c].pc = "abandoned" /\ calls'[c] \notin BoundedCall
  BY <1>1 DEF Over, BoundedCall, Running, Waiting, Releasing
<1>3. \A d \in Call \ {c} : Kept(d)
  BY <1>1, UntouchedKept, Zenon
<1>4. TableInv' /\ LoneInv'
  <2>1. faults' \in 0..MaxFaults /\ \A a \in Agents : active'[a] \in GoodRow
    BY <1>1, FaultsBounded, Zenon DEF CallInv, TableInv
  <2>2. GoodCall(c)' /\ LoneRows(c)'
    BY <1>2, Zenon DEF GoodCall, LoneRows
  <2> QED
    BY <1>1, <1>3, <2>1, <2>2, TablesStay, Zenon
<1>5. MessageInv' /\ WaiterInv'
  <2>1. GoesOn(calls[c].pc, calls'[c].pc)
    BY <1>1, <1>2, Zenon DEF GoesOn
  <2> QED
    BY <1>1, <2>1, WaitersStay, Zenon
<1> QED
  BY <1>4, <1>5, Zenon

\* The timeout takes the waiter back, and the reply is taken once.
LEMMA EndOfWaitKeepsCalls ==
    ASSUME CallInv, NEW c \in Call, Expire(c) \/ TakeReply(c)
    PROVE  TableInv' /\ MessageInv' /\ WaiterInv' /\ LoneInv'
<1>1. /\ calls[c] \in BoundedCall /\ Goto(c, "delete")
      /\ UNCHANGED <<active, backend, disp, hold, userMsgs, faults>>
      /\ "delete" \in Running
      /\ calls[c].pc \in {"wait", "replied"}
  BY AtIsBounded, Zenon DEF Expire, TakeReply, Running, Waiting, Releasing, CallInv, At
<1>2. /\ MovedTo(c, "delete") /\ \A d \in Call \ {c} : Kept(d)
      /\ \A a \in Agents : active'[a] \in GoodRow
  BY <1>1, WalkFacts, Zenon
<1>3. TableInv' /\ LoneInv'
  <2>1. faults' \in 0..MaxFaults
    BY <1>1, Zenon DEF CallInv, TableInv
  <2>2. GoodCall(c)' /\ LoneRows(c)'
    <3>1. GoodCall(c) /\ LoneRows(c)
      BY Zenon DEF CallInv, TableInv, LoneInv
    <3> QED
      BY <1>1, <1>2, <3>1, Zenon DEF GoodCall, LoneRows, MovedTo
  <2> QED
    BY <1>1, <1>2, <2>1, <2>2, TablesStay, Zenon
<1>4. calls'[c].pc = "delete" /\ \A d \in Call \ {c} : calls'[d].pc = calls[d].pc
  BY <1>2, Zenon DEF MovedTo, Kept
<1>5. MessageInv'
  BY <1>1, <1>4 DEF CallInv, MessageInv, NoMessage
<1>6. WaiterInv'
  <2>1. /\ pending \subseteq Call /\ surfaced \in [Call -> Nat]
        /\ surfaced[c] <= 0
        /\ calls[c].pc = "replied" => c \notin pending
    BY <1>1, Zenon DEF CallInv, WaiterInv, Releasing, Ended
  <2>2. CASE Expire(c)
    <3>1. pending' = pending \ {c} /\ surfaced' = surfaced
      BY <2>2, Zenon DEF Expire
    <3>2. ASSUME NEW d \in Call
          PROVE  surfaced[d] <= (IF calls'[d].pc \in Releasing \cup Ended THEN 1 ELSE 0)
      <4>1. calls[d].pc \in Releasing \cup Ended => calls'[d].pc \in Releasing \cup Ended
        BY <1>4, Zenon DEF Releasing, Ended
      <4> QED
        BY <4>1, SurfacedStays, Zenon DEF CallInv
    <3> QED
      BY <1>4, <3>1, <3>2, Zenon DEF CallInv, WaiterInv
  <2>3. CASE TakeReply(c)
    <3>1. /\ pending' = pending /\ surfaced' = [surfaced EXCEPT ![c] = @ + 1]
          /\ c \notin pending
      BY <2>1, <2>3, Zenon DEF TakeReply, At
    <3>2. surfaced' \in [Call -> Nat] /\ surfaced'[c] <= 1
          /\ \A d \in Call \ {c} : surfaced'[d] = surfaced[d]
      BY <2>1, <3>1
    <3>3. \A d \in Call :
            surfaced'[d] <= (IF calls'[d].pc \in Releasing \cup Ended THEN 1 ELSE 0)
      BY <1>4, <3>2, Zenon DEF CallInv, WaiterInv, Releasing, Ended
    <3> QED
      BY <1>4, <3>1, <3>2, <3>3, Zenon DEF CallInv, WaiterInv
  <2> QED
    BY <2>2, <2>3, Zenon
<1> QED
  BY <1>3, <1>5, <1>6, Zenon

\* A release that has its target's rows to itself ends with the row and the
\* sessions the call found.
LEMMA DropSessionsKeepsCalls ==
    ASSUME CallInv, NEW c \in Call, DropSessions(c)
    PROVE  /\ TableInv' /\ MessageInv' /\ WaiterInv' /\ LoneInv'
           /\ calls'[c].pc = "done" /\ calls[c].alone =>
                 /\ active'[calls[c].target] = calls[c].prev
                 /\ DOMAIN backend'[calls[c].target] = calls[c].pre
<1> DEFINE a == calls[c].target
           made == IF calls[c].pre = NoSnapshot THEN {}
                   ELSE DOMAIN backend[a] \ calls[c].pre
<1>1. /\ calls[c] \in BoundedCall /\ a \in Agents /\ calls[c].pc = "drop"
      /\ calls \in [Call -> AnyCall] /\ DepthInv
      /\ UNCHANGED <<active, pending, disp, hold, surfaced, userMsgs>>
      /\ Fault \/ NoFault
  BY AtIsBounded, Zenon DEF DropSessions, Running, Releasing, BoundedCall, CallInv, At, DepthInv
<1>2. Disturbed(a, c) \in [Call -> AnyCall]
  BY <1>1, DisturbedKeeps, Zenon
<1>3. /\ calls'[c] \in {Over("done"), Over("failed")}
      /\ calls'[c] = Over("done") => DOMAIN backend'[a] = DOMAIN backend[a] \ made
      /\ \A d \in Call \ {c} : Kept(d)
  <2>1. CASE /\ backend' = [backend EXCEPT ![a] = Restrict(@, DOMAIN @ \ made)]
             /\ calls' = [IF made = {} THEN calls ELSE Disturbed(a, c)
                                EXCEPT ![c] = Over("done")]
    <3>1. /\ backend'[a] = Restrict(backend[a], DOMAIN backend[a] \ made)
          /\ \A b \in Agents \ {a} : backend'[b] = backend[b]
      <4>1. backend = [b \in Agents |-> backend[b]]
        BY <1>1, Zenon DEF DepthInv
      <4> QED
        BY <1>1, <2>1, <4>1, Zenon
    <3>2. DOMAIN backend'[a] = DOMAIN backend[a] \ made
      BY <3>1, Zenon DEF Restrict
    <3>3. CASE made = {}
      <4>1. calls'[c] = Over("done") /\ \A d \in Call \ {c} : calls'[d] = calls[d]
        BY <1>1, <2>1, <3>3, Zenon
      <4>2. \A b \in Agents : DOMAIN backend[b] \subseteq DOMAIN backend'[b]
        BY <3>1, <3>2, <3>3, Zenon
      <4>3. \A d \in Call \ {c} : Kept(d)
        BY <1>1, <4>1, <4>2, Zenon DEF Kept, BoundedCall
      <4> QED
        BY <3>2, <4>1, <4>3, Zenon
    <3>4. CASE made # {}
      <4>1. calls'[c] = Over("done") /\ \A d \in Call \ {c} : calls'[d] = Disturbed(a, c)[d]
        BY <1>2, <2>1, <3>4, Zenon
      <4>2. \A d \in Call \ {c} : Kept(d)
        BY <1>1, <3>1, <4>1, DisturbedKept, SMTT(40)
      <4> QED
        BY <3>2, <4>1, <4>2, Zenon
    <3> QED
      BY <3>3, <3>4, Zenon
  <2>2. CASE backend' = backend /\ calls' = [calls EXCEPT ![c] = Over("failed")]
    <3>1. calls'[c] = Over("failed") /\ \A d \in Call \ {c} : calls'[d] = calls[d]
      BY <1>1, <2>2, Zenon
    <3>2. Over("failed") # Over("done")
      BY Zenon DEF Over
    <3> QED
      BY <1>1, <2>2, <3>1, <3>2, UntouchedKept, Zenon
  <2> QED
    BY <2>1, <2>2, Zenon DEF DropSessions
<1>4. calls'[c].pc \in {"done", "failed"} /\ calls'[c] \notin BoundedCall
  <2>1. CASE calls'[c] = Over("done")
    BY <2>1, EndedFacts, Zenon DEF Ended
  <2>2. CASE calls'[c] = Over("failed")
    BY <2>2, EndedFacts, Zenon DEF Ended
  <2> QED
    BY <1>3, <2>1, <2>2, Zenon
<1>5. TableInv' /\ LoneInv'
  <2>1. faults' \in 0..MaxFaults /\ \A b \in Agents : active'[b] \in GoodRow
    BY <1>1, FaultsBounded, Zenon DEF CallInv, TableInv
  <2>2. GoodCall(c)' /\ LoneRows(c)'
    BY <1>4, Zenon DEF GoodCall, LoneRows
  <2> QED
    BY <1>1, <1>3, <2>1, <2>2, TablesStay, Zenon
<1>6. MessageInv' /\ WaiterInv'
  <2>1. GoesOn(calls[c].pc, calls'[c].pc) /\ \A d \in Call \ {c} : calls'[d].pc = calls[d].pc
    BY <1>1, <1>3, <1>4, Zenon DEF GoesOn, Kept, Releasing
  <2> QED
    BY <1>1, <2>1, WaitersStay, Zenon
<1>7. ASSUME calls'[c].pc = "done", calls[c].alone
      PROVE  active'[a] = calls[c].prev /\ DOMAIN backend'[a] = calls[c].pre
  <2>1. /\ calls[c].pre \subseteq Names /\ calls[c].pre \subseteq DOMAIN backend[a]
        /\ active[a] = calls[c].prev
    BY <1>1, <1>7, Zenon DEF CallInv, LoneInv, LoneRows
  <2>2. calls[c].pre # NoSnapshot
    BY <2>1, NameFacts, Zenon DEF NoSnapshot
  <2>3. calls'[c] = Over("done")
    BY <1>3, <1>7, Zenon DEF Over
  <2> QED
    BY <1>1, <1>3, <2>1, <2>2, <2>3, Zenon
<1> QED
  BY <1>5, <1>6, <1>7, Zenon

\* What a push adds to the messages.
LEMMA DeliverAdds ==
    ASSUME DepthInv, NEW a \in Agents, NEW n \in Names,
           NEW from \in {"user"} \X (1..MaxUserMsgs) \cup {"call"} \X Call,
           Deliver(a, from, n)
    PROVE  \E m \in GoodMessage :
              /\ m.from = from
              /\ \A b \in Agents : \A h \in hold'[b] : h \in hold[b] \/ (h = m /\ b = a)
<1> DEFINE m == [from |-> from, name |-> n, stage |-> "held"]
<1>1. m \in GoodMessage /\ m.from = from
  BY Zenon DEF Held, GoodMessage
<1>2. hold' = [b \in Agents |-> IF b = a THEN hold[b] \cup {m} ELSE hold[b]]
  BY Zenon DEF Deliver, DepthInv
<1> HIDE DEF m
<1>3. \A b \in Agents : \A h \in hold'[b] : h \in hold[b] \/ (h = m /\ b = a)
  BY <1>2, Zenon
<1> QED
  BY <1>1, <1>3, Zenon

\* A message is pushed for a call that has none, or for the user.
LEMMA DeliverKeepsMessages ==
    ASSUME CallInv, NEW a \in Agents, NEW n \in Names,
           NEW from \in {"user"} \X (1..MaxUserMsgs) \cup {"call"} \X Call,
           Deliver(a, from, n),
           from[1] = "call" => \A b \in Agents : \A h \in hold[b] : h.from # from
    PROVE  /\ \A b \in Agents : hold'[b] \subseteq GoodMessage
           /\ \A c \in Call : NoMessage(c) /\ from # <<"call", c>> => NoMessage(c)'
           /\ \A b, d \in Agents : \A h \in hold'[b], g \in hold'[d] :
                 h.from = g.from /\ h.from[1] = "call" => b = d /\ h = g
<1>1. PICK m \in GoodMessage :
        /\ m.from = from
        /\ \A b \in Agents : \A h \in hold'[b] : h \in hold[b] \/ (h = m /\ b = a)
  BY DeliverAdds, Zenon DEF CallInv
<1>2. \A b \in Agents : hold'[b] \subseteq GoodMessage
  BY <1>1, Zenon DEF CallInv, TableInv
<1>3. ASSUME NEW c \in Call, NoMessage(c), from # <<"call", c>> PROVE NoMessage(c)'
  BY <1>1, <1>3, Zenon DEF NoMessage
<1>4. ASSUME NEW b \in Agents, NEW d \in Agents, NEW h \in hold'[b], NEW g \in hold'[d],
             h.from = g.from, h.from[1] = "call"
      PROVE  b = d /\ h = g
  <2>1. \A u, v \in Agents : \A x \in hold[u], y \in hold[v] :
          x.from = y.from /\ x.from[1] = "call" => u = v /\ x = y
    BY Zenon DEF CallInv, MessageInv
  <2> QED
    BY <1>1, <1>4, <2>1
<1> QED
  BY <1>2, <1>3, <1>4, SMTT(40)

\* The push gives the call its message, and the call waits.
LEMMA PushKeepsCalls ==
    ASSUME CallInv, NEW c \in Call, PushCall(c)
    PROVE  TableInv' /\ MessageInv' /\ WaiterInv' /\ LoneInv'
<1>1. /\ calls[c] \in BoundedCall /\ calls[c].pc = "push" /\ Goto(c, "wait")
      /\ UNCHANGED <<active, backend, pending, disp, surfaced, userMsgs>>
      /\ Fault \/ NoFault
      /\ "wait" \in Running
      /\ DepthInv /\ TableInv
  BY AtIsBounded, Zenon DEF PushCall, Running, Waiting, CallInv, At
<1>2. /\ MovedTo(c, "wait") /\ \A d \in Call \ {c} : Kept(d)
      /\ \A a \in Agents : active'[a] \in GoodRow
  BY <1>1, WalkFacts, Zenon
<1>3. calls'[c].pc = "wait" /\ \A d \in Call \ {c} : calls'[d].pc = calls[d].pc
  BY <1>2, Zenon DEF MovedTo, Kept
<1>4. NoMessage(c)
  BY <1>1, Zenon DEF CallInv, MessageInv
<1>5. (\A b \in Agents : hold'[b] \subseteq GoodMessage) /\ MessageInv'
  <2>1. CASE hold' = hold
    BY <1>1, <1>3, <2>1, SMTT(40) DEF CallInv, MessageInv, NoMessage, TableInv
  <2>2. CASE Deliver(calls[c].target, <<"call", c>>, calls[c].name)
    <3> DEFINE from == <<"call", c>>
    <3>0. Deliver(calls[c].target, from, calls[c].name)
      BY <2>2, Zenon
    <3>1. calls[c].target \in Agents /\ calls[c].name \in Names
      BY <1>1, Zenon DEF BoundedCall
    <3>2. /\ from \in {"user"} \X (1..MaxUserMsgs) \cup {"call"} \X Call
          /\ \A d \in Call \ {c} : from # <<"call", d>>
      OBVIOUS
    <3>3. \A b \in Agents : \A h \in hold[b] : h.from # from
      BY <1>4, Zenon DEF NoMessage
    <3> HIDE DEF from
    <3>4. /\ \A b \in Agents : hold'[b] \subseteq GoodMessage
          /\ \A d \in Call : NoMessage(d) /\ from # <<"call", d>> => NoMessage(d)'
          /\ \A b, d \in Agents : \A h \in hold'[b], g \in hold'[d] :
                h.from = g.from /\ h.from[1] = "call" => b = d /\ h = g
      BY <3>0, <3>1, <3>2, <3>3, DeliverKeepsMessages, Zenon
    <3> QED
      BY <1>3, <3>2, <3>4, Zenon DEF CallInv, MessageInv
  <2> QED
    BY <2>1, <2>2, Zenon DEF PushCall
<1>6. WaiterInv'
  <2>1. ASSUME NEW d \in Call
        PROVE  surfaced[d] <= (IF calls'[d].pc \in Releasing \cup Ended THEN 1 ELSE 0)
    <3>1. calls[d].pc \in Releasing \cup Ended => calls'[d].pc \in Releasing \cup Ended
      BY <1>1, <1>3, Zenon DEF Releasing, Ended
    <3> QED
      BY <3>1, SurfacedStays, Zenon DEF CallInv
  <2> QED
    BY <1>1, <1>3, <2>1, Zenon DEF CallInv, WaiterInv
<1>7. GoodCall(c)' /\ LoneRows(c)'
  <2>1. GoodCall(c) /\ LoneRows(c)
    BY Zenon DEF CallInv, TableInv, LoneInv
  <2> QED
    BY <1>1, <1>2, <2>1, Zenon DEF GoodCall, LoneRows, MovedTo
<1>8. \A d \in Call : GoodCall(d)' /\ LoneRows(d)'
  BY <1>2, <1>7, KeptStays, Zenon DEF CallInv, TableInv, LoneInv
<1>9. faults' \in 0..MaxFaults
  BY <1>1, FaultsBounded, Zenon
<1> QED
  BY <1>1, <1>2, <1>5, <1>6, <1>8, <1>9, Zenon DEF TableInv, LoneInv

\* A message moves to the next stage of its answer, or leaves.
LEMMA AnswerKeepsMessages ==
    ASSUME CallInv, NEW a \in Agents, NEW h \in hold[a], NEW s \in {"checked", "stored"},
           hold' = [hold EXCEPT ![a] = @ \ {h}] \/ Staged(a, h, s),
           s = "stored" => h.from[1] = "call",
           \A c \in Call : calls'[c].pc = calls[c].pc
    PROVE  MessageInv' /\ \A b \in Agents : hold'[b] \subseteq GoodMessage
<1> DEFINE n == [h EXCEPT !.stage = s]
<1>1. h \in Held
  BY Zenon DEF CallInv, TableInv, GoodMessage
<1>2. n \in GoodMessage /\ n.from = h.from
  BY <1>1, Zenon DEF Held, GoodMessage
<1> HIDE DEF n
<1>3. hold = [b \in Agents |-> hold[b]]
  BY Zenon DEF CallInv, DepthInv
<1>4. \A b \in Agents : \A g \in hold'[b] :
          \/ g \in hold[b] /\ ~(b = a /\ g = h)
          \/ b = a /\ g = n
  <2>1. CASE hold' = [hold EXCEPT ![a] = @ \ {h}]
    <3>1. hold' = [b \in Agents |-> IF b = a THEN hold[b] \ {h} ELSE hold[b]]
      BY <1>3, <2>1, Zenon
    <3> QED
      BY <3>1, Zenon
  <2>2. CASE Staged(a, h, s)
    <3>1. hold' = [b \in Agents |-> IF b = a THEN (hold[b] \ {h}) \cup {n} ELSE hold[b]]
      BY <1>3, <2>2, Zenon DEF Staged, n
    <3> QED
      BY <3>1, Zenon
  <2> QED
    BY <2>1, <2>2, Zenon
<1>5. \A b \in Agents : hold'[b] \subseteq GoodMessage
  BY <1>2, <1>4, Zenon DEF CallInv, TableInv
<1>6. ASSUME NEW c \in Call, NoMessage(c) PROVE NoMessage(c)'
  BY <1>2, <1>4, <1>6, Zenon DEF NoMessage
<1>7. ASSUME NEW b \in Agents, NEW d \in Agents, NEW g \in hold'[b], NEW k \in hold'[d],
             g.from = k.from, g.from[1] = "call"
      PROVE  b = d /\ g = k
  <2>1. \A u, v \in Agents : \A x \in hold[u], y \in hold[v] :
          x.from = y.from /\ x.from[1] = "call" => u = v /\ x = y
    BY Zenon DEF CallInv, MessageInv
  <2> QED
    BY <1>2, <1>4, <1>7, <2>1, SMTT(40)
<1> QED
  BY <1>5, <1>6, <1>7 DEF CallInv, MessageInv

\* An answer is checked against the grants, and refused without one.
LEMMA CheckKeepsCalls ==
    ASSUME CallInv, NEW a \in Agents, NEW h \in hold[a], SendCheck(a, h)
    PROVE  TableInv' /\ MessageInv' /\ WaiterInv' /\ LoneInv'
<1>1. /\ UNCHANGED <<active, backend, calls, pending, disp, surfaced, userMsgs, faults>>
      /\ hold' = [hold EXCEPT ![a] = @ \ {h}] \/ Staged(a, h, "checked")
  BY Zenon DEF SendCheck
<1>2. MessageInv' /\ \A b \in Agents : hold'[b] \subseteq GoodMessage
  BY <1>1, AnswerKeepsMessages, Zenon
<1>3. \A c \in Call : GoodCall(c)' /\ LoneRows(c)'
  BY <1>1, Zenon DEF CallInv, TableInv, LoneInv, GoodCall, LoneRows
<1> QED
  BY <1>1, <1>2, <1>3, Zenon DEF CallInv, TableInv, WaiterInv, LoneInv

\* The session of an answer is stored: sessions are only added, and the calls
\* to this backend are marked but for the one that is answered.
LEMMA StoreKeepsCalls ==
    ASSUME CallInv, NEW a \in Agents, NEW h \in hold[a], StoreSession(a, h)
    PROVE  TableInv' /\ MessageInv' /\ WaiterInv' /\ LoneInv'
<1> DEFINE but == Within(h)
<1>1. /\ UNCHANGED <<active, pending, disp, surfaced, userMsgs, faults>>
      /\ \/ hold' = [hold EXCEPT ![a] = @ \ {h}]
         \/ Staged(a, h, "stored") /\ h.from[1] = "call"
      /\ backend' = set_backend_session(backend, a, h.name, 1)
      /\ calls' = Disturbed(a, but)
      /\ DepthInv
  BY Zenon DEF StoreSession, CallInv
<1>2. \A b \in Agents : DOMAIN backend[b] \subseteq DOMAIN backend'[b]
  <2>1. backend' = [b \in Agents |-> IF b = a
            THEN [s \in DOMAIN backend[b] \cup {h.name} |->
                    IF s = h.name THEN 1 ELSE backend[b][s]]
            ELSE backend[b]]
    BY <1>1, Zenon DEF set_backend_session, DepthInv
  <2> QED
    BY <2>1, Zenon
<1>3. \A d \in Call : Kept(d)
  <2> SUFFICES ASSUME NEW d \in Call PROVE Kept(d)
    OBVIOUS
  <2>1. calls[d] \in BoundedCall => calls[d].target \in Agents
    BY Zenon DEF BoundedCall
  <2>2. calls'[d] = Disturbed(a, but)[d]
    BY <1>1, Zenon
  <2>3. MarkedBy(a, but, d, calls'[d])
    BY <1>1, <2>2, DisturbedMarks, Zenon
  <2>4. active' = active
    BY <1>1, Zenon
  <2> QED
    BY <1>2, <2>1, <2>3, <2>4, Zenon DEF Kept, MarkedBy
<1>4. \A d \in Call : calls'[d].pc = calls[d].pc
  BY <1>3, Zenon DEF Kept
<1>5. MessageInv' /\ \A b \in Agents : hold'[b] \subseteq GoodMessage
  <2>1. CASE hold' = [hold EXCEPT ![a] = @ \ {h}]
    BY <1>4, <2>1, AnswerKeepsMessages, Zenon
  <2>2. CASE Staged(a, h, "stored") /\ h.from[1] = "call"
    BY <1>4, <2>2, AnswerKeepsMessages, Zenon
  <2> QED
    BY <1>1, <2>1, <2>2, Zenon
<1>6. \A d \in Call : GoodCall(d)' /\ LoneRows(d)'
  BY <1>3, KeptStays, Zenon DEF CallInv, TableInv, LoneInv
<1>7. WaiterInv'
  BY <1>1, <1>4, Zenon DEF CallInv, WaiterInv
<1> QED
  BY <1>1, <1>5, <1>6, <1>7, Zenon DEF CallInv, TableInv, LoneInv

\* The reply goes to the caller that waits for it, if it still does.
LEMMA SendOnKeepsCalls ==
    ASSUME CallInv, NEW a \in Agents, NEW h \in hold[a], SendOn(a, h)
    PROVE  TableInv' /\ MessageInv' /\ WaiterInv' /\ LoneInv'
<1> DEFINE c == h.from[2]
<1>1. /\ UNCHANGED <<active, backend, disp, surfaced, userMsgs, faults>>
      /\ hold' = [hold EXCEPT ![a] = @ \ {h}] /\ h.stage = "stored"
      /\ pending' = pending \ {c}
      /\ calls' = IF c \in pending /\ At(c, "wait")
                  THEN [calls EXCEPT ![c].pc = "replied"] ELSE calls
      /\ calls \in [Call -> AnyCall]
  BY Zenon DEF SendOn, resolve, CallInv, DepthInv
<1>2. c \in Call /\ h.from = <<"call", c>>
  <2>1. h \in Held /\ h.from[1] = "call"
    BY <1>1, Zenon DEF CallInv, TableInv, GoodMessage
  <2>2. h.from \in {"user"} \X (1..MaxUserMsgs) \cup {"call"} \X Call
    BY <2>1, Zenon DEF Held
  <2> QED
    BY <2>1, <2>2
<1> HIDE DEF c
<1>3. calls[c].pc \notin {"free", "snapshot", "grant", "push", "replied"}
  BY <1>2, Zenon DEF CallInv, MessageInv, NoMessage
<1>4. hold' = [b \in Agents |-> IF b = a THEN hold[b] \ {h} ELSE hold[b]]
  BY <1>1, Zenon DEF CallInv, DepthInv
<1>5. \A b \in Agents : \A g \in hold'[b] : g \in hold[b] /\ ~(b = a /\ g = h)
  BY <1>4, Zenon
<1>6. NoMessage(c)'
  BY <1>2, <1>5, SMTT(40) DEF NoMessage, CallInv, MessageInv
<1>7. /\ calls'[c].pc = IF calls[c].pc = "wait" THEN "replied" ELSE calls[c].pc
      /\ \A d \in Call \ {c} : Kept(d)
      /\ GoodCall(c)' /\ LoneRows(c)'
  <2>1. GoodCall(c) /\ LoneRows(c)
    BY <1>2, Zenon DEF CallInv, TableInv, LoneInv
  <2>2. CASE c \in pending /\ At(c, "wait")
    <3>1. calls[c] \in BoundedCall /\ "replied" \in Running /\ calls[c].pc = "wait"
      BY <1>2, <2>2, AtIsBounded, Zenon DEF Running, Waiting, CallInv, At
    <3>2. /\ MovedTo(c, "replied") /\ \A d \in Call \ {c} : Kept(d)
      BY <1>1, <1>2, <2>2, <3>1, WalkFacts, Zenon DEF Goto
    <3>3. GoodCall(c)' /\ LoneRows(c)'
      BY <1>1, <2>1, <3>1, <3>2, Zenon DEF GoodCall, LoneRows, MovedTo
    <3> QED
      BY <3>1, <3>2, <3>3, Zenon DEF MovedTo
  <2>3. CASE ~(c \in pending /\ At(c, "wait"))
    <3>1. calls[c].pc # "wait"
      BY <1>2, <2>3 DEF CallInv, WaiterInv, At, Free
    <3>2. calls' = calls
      BY <1>1, <2>3, Zenon
    <3> QED
      BY <1>1, <2>1, <3>1, <3>2, UntouchedKept, Zenon DEF GoodCall, LoneRows
  <2> QED
    BY <2>2, <2>3, Zenon
<1>8. \A d \in Call \ {c} : calls'[d].pc = calls[d].pc
  BY <1>7, Zenon DEF Kept
<1>9. TableInv' /\ LoneInv'
  <2>1. \A d \in Call : GoodCall(d)' /\ LoneRows(d)'
    BY <1>7, KeptStays, Zenon DEF CallInv, TableInv, LoneInv
  <2>2. \A b \in Agents : hold'[b] \subseteq GoodMessage
    BY <1>5, Zenon DEF CallInv, TableInv
  <2> QED
    BY <1>1, <2>1, <2>2, Zenon DEF CallInv, TableInv, LoneInv
<1>10. MessageInv'
  <2>1. \A d \in Call : NoMessage(d) => NoMessage(d)'
    BY <1>5, Zenon DEF NoMessage
  <2> QED
    BY <1>5, <1>6, <1>8, <2>1, SMTT(40) DEF CallInv, MessageInv
<1>11. WaiterInv'
  <2>1. ASSUME NEW d \in Call
        PROVE  surfaced[d] <= (IF calls'[d].pc \in Releasing \cup Ended THEN 1 ELSE 0)
    <3>1. calls[d].pc \in Releasing \cup Ended => calls'[d].pc \in Releasing \cup Ended
      BY <1>2, <1>7, <1>8, Zenon DEF Releasing, Ended
    <3> QED
      BY <3>1, SurfacedStays, Zenon DEF CallInv
  <2>2. \A d \in Call :
          calls'[d].pc \in {"snapshot", "grant", "push", "wait"} => d \in pending'
    BY <1>1, <1>2, <1>3, <1>7, <1>8 DEF CallInv, WaiterInv
  <2>3. \A d \in pending' :
          calls'[d].pc \in {"snapshot", "grant", "push", "wait", "abandoned"}
    BY <1>1, <1>8, Zenon DEF CallInv, WaiterInv
  <2> QED
    BY <1>1, <2>1, <2>2, <2>3, Zenon DEF CallInv, WaiterInv
<1> QED
  BY <1>9, <1>10, <1>11, Zenon

\* The dispatcher grants and pushes in the same conversation, and marks the
\* calls to the backend it writes to.
LEMMA DispatcherKeepsCalls ==
    ASSUME CallInv, Dispatch \/ HandOver
    PROVE  TableInv' /\ MessageInv' /\ WaiterInv' /\ LoneInv'
<1>1. CASE Dispatch
  <2>1. UNCHANGED <<active, backend, calls, pending, hold, surfaced, faults>>
    BY <1>1, Zenon DEF Dispatch
  <2>2. userMsgs' \in 0..MaxUserMsgs /\ userMsgs' > 0
    BY <1>1, AgentCallConstants DEF Dispatch, CallInv, TableInv
  <2>3. \A c \in Call : GoodCall(c)' /\ LoneRows(c)'
    BY <2>1, Zenon DEF CallInv, TableInv, LoneInv, GoodCall, LoneRows
  <2>4. TableInv' /\ LoneInv'
    BY <2>1, <2>2, <2>3, Zenon DEF CallInv, TableInv, LoneInv
  <2>5. MessageInv' /\ WaiterInv'
    BY <2>1, SMTT(40) DEF CallInv, MessageInv, NoMessage, WaiterInv
  <2> QED
    BY <2>4, <2>5, Zenon
<1>2. CASE HandOver
  <2> DEFINE a == disp.to
             from == <<"user", userMsgs>>
  <2>1. /\ UNCHANGED <<backend, pending, surfaced, userMsgs, faults>>
        /\ active' = set_active_session_with_depth(active, a, disp.name, 0)
        /\ calls' = Disturbed(a, 0) /\ Deliver(a, from, disp.name)
        /\ disp' = [pc |-> "idle"] /\ disp.pc = "grant"
        /\ DepthInv /\ TableInv
    BY <1>2, Zenon DEF HandOver, CallInv
  <2>2. a \in Agents /\ disp.name \in Names
    BY <2>1, SMTT(40) DEF DepthInv, AnyHandOver
  <2>3. /\ active'[a] = Row(disp.name, 0, 0) /\ Row(disp.name, 0, 0) \in GoodRow
        /\ \A b \in Agents \ {a} : active'[b] = active[b]
    <3>1. 0 \in 0..MaxDepth
      BY AgentCallConstants, SMTT(40)
    <3>2. Row(disp.name, 0, 0) \in GoodRow
      BY <2>2, <3>1, RowFacts, Zenon
    <3> QED
      BY <2>1, <2>2, <3>2, Zenon DEF set_active_session_with_depth, DepthInv
  <2>4. \A d \in Call : Kept(d)
    BY <2>1, <2>3, DisturbedKept DEF Call
  <2>5. \A d \in Call : GoodCall(d)' /\ LoneRows(d)' /\ calls'[d].pc = calls[d].pc
    BY <2>4, KeptStays, Zenon DEF CallInv, TableInv, LoneInv, Kept
  <2>6. /\ from \in {"user"} \X (1..MaxUserMsgs) \cup {"call"} \X Call
        /\ from[1] # "call" /\ \A d \in Call : from # <<"call", d>>
    <3>1. userMsgs \in 1..MaxUserMsgs
      BY <2>1, AgentCallConstants DEF TableInv
    <3> QED
      BY <3>1, Zenon
  <2>7. /\ \A b \in Agents : hold'[b] \subseteq GoodMessage
        /\ \A d \in Call : NoMessage(d) => NoMessage(d)'
        /\ \A b, d \in Agents : \A h \in hold'[b], g \in hold'[d] :
              h.from = g.from /\ h.from[1] = "call" => b = d /\ h = g
    <3> HIDE DEF from
    <3> QED
      BY <2>1, <2>2, <2>6, DeliverKeepsMessages, Zenon
  <2>8. TableInv' /\ LoneInv'
    <3>1. disp'.pc # "grant" /\ \A b \in Agents : active'[b] \in GoodRow
      BY <2>1, <2>3, Zenon DEF TableInv
    <3> QED
      BY <2>1, <2>5, <2>7, <3>1, Zenon DEF TableInv, LoneInv
  <2>9. MessageInv' /\ WaiterInv'
    BY <2>1, <2>5, <2>7, Zenon DEF CallInv, MessageInv, WaiterInv
  <2> QED
    BY <2>8, <2>9, Zenon
<1> QED
  BY <1>1, <1>2, Zenon

\* It holds before the first call.
LEMMA CallInit == Init => CallInv
<1> SUFFICES ASSUME Init PROVE CallInv
  OBVIOUS
<1>1. \A a \in Agents : active[a] \in GoodRow /\ hold[a] = {}
  <2>1. 0 \in 0..MaxDepth
    BY AgentCallConstants
  <2> QED
    BY <2>1, RowFacts, NameFacts, Zenon DEF Init
<1>2. \A c \in Call : calls[c].pc = "free" /\ calls[c] \notin BoundedCall /\ surfaced[c] = 0
  BY Zenon DEF Init, Free, BoundedCall, Running, Waiting, Releasing
<1>3. TableInv
  BY <1>1, <1>2, AgentCallConstants, SMTT(40) DEF Init, TableInv, GoodCall
<1>4. MessageInv /\ LoneInv
  BY <1>1, <1>2, Zenon DEF MessageInv, NoMessage, LoneInv, LoneRows
<1>5. WaiterInv
  BY <1>2 DEF Init, WaiterInv
<1> QED
  BY <1>3, <1>4, <1>5, DepthInit, Zenon DEF CallInv

-----------------------------------------------------------------------------
\* Every step of the system keeps it.
LEMMA CallNext ==
    ASSUME CallInv, [Next]_vars
    PROVE  TableInv' /\ MessageInv' /\ WaiterInv' /\ LoneInv'
<1>1. ASSUME NEW c \in Call, CallStep(c) \/ CallerGone(c)
      PROVE  TableInv' /\ MessageInv' /\ WaiterInv' /\ LoneInv'
  BY Zenon, <1>1, SnapshotKeepsCalls, GrantCallKeepsCalls, PushKeepsCalls, EndOfWaitKeepsCalls,
     GoneKeepsCalls, DropGrantKeepsCalls, LookKeepsCalls, RestoreKeepsCalls,
     DropSessionsKeepsCalls DEF CallStep
<1>2. ASSUME NEW c \in Call, NEW caller \in Agents, NEW target \in Agents,
             NEW session \in Sessions, call_agent(c, caller, target, session)
      PROVE  TableInv' /\ MessageInv' /\ WaiterInv' /\ LoneInv'
  BY <1>2, BeginKeepsCalls, Zenon
<1>3. ASSUME NEW a \in Agents, NEW h \in hold[a],
             SendCheck(a, h) \/ StoreSession(a, h) \/ SendOn(a, h)
      PROVE  TableInv' /\ MessageInv' /\ WaiterInv' /\ LoneInv'
  BY <1>3, CheckKeepsCalls, StoreKeepsCalls, SendOnKeepsCalls, Zenon
<1>4. CASE Dispatch \/ HandOver
  BY <1>4, DispatcherKeepsCalls, Zenon
<1>5. CASE UNCHANGED vars
  <2>1. \A c \in Call : GoodCall(c)' /\ LoneRows(c)'
    BY <1>5, Zenon DEF vars, CallInv, TableInv, LoneInv, GoodCall, LoneRows
  <2>2. TableInv' /\ LoneInv'
    BY <1>5, <2>1, Zenon DEF vars, CallInv, TableInv, LoneInv
  <2>3. MessageInv' /\ WaiterInv'
    BY <1>5 DEF vars, CallInv, MessageInv, NoMessage, WaiterInv
  <2> QED
    BY <2>2, <2>3, Zenon
<1> QED
  BY <1>1, <1>2, <1>3, <1>4, <1>5, Zenon DEF Next, Terminated

\* The invariant holds, whatever calls, answers and user messages interleave.
THEOREM CallInvariance == Spec => []CallInv
<1>1. CallInv /\ DepthInv' /\ [Next]_vars => CallInv'
  BY CallNext, Zenon DEF CallInv
<1> QED
  BY <1>1, CallInit, DepthInvariance, PTL DEF Spec

\* A call is answered at most once and by its own target, its waiter exists
\* exactly while it waits, and a call that has its target's rows to itself may
\* be answered.
THEOREM CallsAnsweredOnce == Spec => []CallsAnswered
<1>1. CallInv => CallsAnswered
  <2> SUFFICES ASSUME CallInv PROVE CallsAnswered
    BY Zenon
  <2>1. TypeOK
    <3>1. \A r \in GoodRow : r \in Rows
      <4>1. ASSUME NEW r \in [name : Names, depth : 0..MaxDepth, age : {0}]
            PROVE  r \in Rows
        <5>1. r.name \in Names /\ r.depth \in 0..255 /\ r = Row(r.name, r.depth, 0)
          BY AgentCallConstants DEF Row
        <5> QED
          BY <5>1, SMTT(40) DEF Rows
      <4> QED
        BY <4>1 DEF GoodRow, Rows
    <3>2. active \in [Agents -> Rows]
      BY <3>1, Zenon DEF CallInv, DepthInv, TableInv
    <3>3. ASSUME NEW c \in Call
          PROVE  calls[c] \in {Free} \cup {Over(pc) : pc \in Ended} \/
                    /\ calls[c].pc \in Running
                    /\ <<calls[c].caller, calls[c].target>> \in Allowed
                    /\ calls[c].prev \in Rows
                    /\ calls[c].pre \in (SUBSET Names) \cup {NoSnapshot}
      <4>1. calls[c] \in AnyCall /\ GoodCall(c)
        BY Zenon DEF CallInv, DepthInv, TableInv
      <4>2. CASE calls[c] \in BoundedCall
        BY <3>1, <4>1, <4>2, Zenon DEF GoodCall, BoundedCall
      <4> QED
        BY <4>1, <4>2, Zenon DEF AnyCall
    <3> QED
      BY <3>2, <3>3, Zenon DEF CallInv, DepthInv, TableInv, GoodMessage, WaiterInv, TypeOK
  <2>2. \A c \in Call : NoMessage(c) => CallMessage(c) = {}
    BY Zenon DEF NoMessage, CallMessage
  <2>3. OwnReply
    BY <2>2, Zenon DEF OwnReply, At, CallInv, MessageInv
  <2>4. WaiterReclaimed
    BY Zenon DEF WaiterReclaimed, At, CallInv, WaiterInv
  <2>5. SurfacedOnce
    <3>1. "free" \notin Releasing \cup Ended
      BY Zenon DEF Releasing, Ended
    <3> QED
      BY <3>1 DEF SurfacedOnce, CallInv, WaiterInv, Free
  <2>6. LoneCallMayAnswer
    <3> SUFFICES ASSUME NEW c \in Call, At(c, "wait"), calls[c].alone
                 PROVE  Owns(calls[c].target)
      BY Zenon DEF LoneCallMayAnswer
    <3>1. calls[c] \in BoundedCall /\ calls[c].pc = "wait"
      BY AtIsBounded, Zenon DEF CallInv, At, Running, Waiting
    <3>2. /\ active[calls[c].target].name = GrantKey(c)
          /\ active[calls[c].target].age = 0
      BY <3>1, Zenon DEF CallInv, LoneInv, LoneRows
    <3> QED
      BY <3>2, NameFacts, GrantTtlAssumption
         DEF Owns, vtoken_owns_vctx, Unexpired, HasRow
  <2> QED
    BY <2>1, <2>3, <2>4, <2>5, <2>6, Zenon DEF CallsAnswered
<1> QED
  BY <1>1, CallInvariance, PTL

\* A call that had its target's rows to itself leaves them as it found them:
\* release_a2a_grant puts back the row and drops the sessions made meanwhile.
THEOREM ReleaseRollsBack == Spec => RolledBack
<1> DEFINE Left(c) == At(c, "drop") /\ calls'[c].pc = "done" /\ calls[c].alone
                        => /\ active'[calls[c].target] = calls[c].prev
                           /\ DOMAIN backend'[calls[c].target] = calls[c].pre
<1>1. CallInv /\ [Next]_vars => [\A c \in Call : Left(c)]_vars
  <2> SUFFICES ASSUME CallInv, Next, NEW c \in Call, At(c, "drop"),
                      calls'[c].pc = "done", calls[c].alone
               PROVE  /\ active'[calls[c].target] = calls[c].prev
                      /\ DOMAIN backend'[calls[c].target] = calls[c].pre
    BY Zenon
  <2>1. /\ calls[c].pc = "drop" /\ calls[c] # Free
        /\ DepthInv /\ calls \in [Call -> AnyCall]
    BY Zenon DEF At, CallInv, DepthInv
  <2>2. CASE DropSessions(c)
    BY <2>2, DropSessionsKeepsCalls, Zenon
  <2>3. ASSUME NEW d \in Call, d # c, CallStep(d) \/ CallerGone(d)
        PROVE  calls'[c].pc = calls[c].pc
    <3>1. Disturbed(calls[d].target, d) \in [Call -> AnyCall]
          /\ Disturbed(calls[d].target, d)[c].pc = calls[c].pc
      BY <2>1, DisturbedKeeps, DisturbedMarks, SMTT(40) DEF MarkedBy
    <3>2. CASE Snapshot(d) \/ PushCall(d) \/ Expire(d) \/ TakeReply(d) \/ LookForGrant(d)
               \/ CallerGone(d)
      BY <2>1, <2>3, <3>2, Zenon
         DEF Snapshot, PushCall, Expire, TakeReply, LookForGrant, CallerGone, Goto, FailTo
    <3>3. CASE GrantCall(d) \/ DropGrant(d) \/ RestoreGrant(d)
      BY <2>1, <2>3, <3>1, <3>3, Zenon DEF GrantCall, DropGrant, RestoreGrant, FailTo
    <3>4. CASE DropSessions(d)
      BY <2>1, <2>3, <3>1, <3>4, Zenon DEF DropSessions
    <3> QED
      BY <2>3, <3>2, <3>3, <3>4, Zenon DEF CallStep
  <2>4. ASSUME CallStep(c) \/ CallerGone(c), ~DropSessions(c) PROVE FALSE
    BY <2>1, <2>4, Zenon DEF CallStep, CallerGone, Snapshot, GrantCall, PushCall, Expire, TakeReply,
                      DropGrant, LookForGrant, RestoreGrant, At
  <2>5. ASSUME NEW d \in Call, NEW caller \in Agents, NEW target \in Agents,
               NEW session \in Sessions, call_agent(d, caller, target, session)
        PROVE  calls'[c].pc = calls[c].pc
    BY <2>1, <2>5, Zenon DEF call_agent
  <2>6. ASSUME NEW a \in Agents, NEW h \in hold[a],
               SendCheck(a, h) \/ StoreSession(a, h) \/ SendOn(a, h)
        PROVE  calls'[c].pc # "done"
    <3>1. CASE SendCheck(a, h)
      BY <2>1, <3>1, Zenon DEF SendCheck
    <3>2. CASE StoreSession(a, h)
      <4>1. calls'[c] = Disturbed(a, Within(h))[c]
        BY <3>2, Zenon DEF StoreSession
      <4>2. MarkedBy(a, Within(h), c, calls'[c])
        BY <2>1, <4>1, DisturbedMarks, Zenon
      <4> QED
        BY <2>1, <4>2, Zenon DEF MarkedBy
    <3>3. CASE SendOn(a, h)
      BY <2>1, <3>3, Zenon DEF SendOn, resolve, At
    <3> QED
      BY <2>6, <3>1, <3>2, <3>3, Zenon
  <2>7. CASE Dispatch \/ HandOver \/ Terminated
    <3>1. CASE Dispatch \/ Terminated
      BY <2>1, <3>1, Zenon DEF Dispatch, Terminated, vars
    <3>2. CASE HandOver
      <4>1. calls'[c] = Disturbed(disp.to, 0)[c]
        BY <3>2, Zenon DEF HandOver
      <4>2. MarkedBy(disp.to, 0, c, calls'[c])
        BY <2>1, <4>1, DisturbedMarks, Zenon
      <4> QED
        BY <2>1, <4>2, Zenon DEF MarkedBy
    <3> QED
      BY <2>7, <3>1, <3>2, Zenon
  <2> QED
    BY <2>1, <2>2, <2>3, <2>4, <2>5, <2>6, <2>7, Zenon DEF Next
<1> QED
  BY <1>1, CallInvariance, PTL DEF Spec, RolledBack
=============================================================================
