------------------------------ MODULE AgentCall -----------------------------
(***************************************************************************)
(* Calls between backends: the MCP tool call_agent (src/mcp/tools.rs,      *)
(* src/mcp/router.rs), the table of callers that wait for a reply          *)
(* (src/mcp/waiter.rs) and the part of sendmessage that answers them       *)
(* (src/server/routes/bot.rs), while the dispatcher hands user messages to *)
(* the same backends in the same conversation.                             *)
(*                                                                         *)
(* A call grants its target the conversation for as long as it lasts and   *)
(* takes the grant back by what it saw before.  Each database statement is *)
(* a step.  Calls refused for the rate limit, the allowlist, the depth or  *)
(* a missing conversation end before any side effect and are left out.     *)
(* Grants expire much later than calls do; that is in Conversation.        *)
(***************************************************************************)
EXTENDS SessionStore, FiniteSets

CONSTANTS
    Agents,         \* registered backends
    Serving,        \* those the user has talked to before
    Routed,         \* the backend the user's messages are routed to
    Allowed,        \* the A2A edges of the allowlist: pairs of backends
    Sessions,       \* session names a caller asks for, NoSession for none
    MaxDepth,       \* MAX_A2A_DEPTH
    MaxCalls,       \* bound: calls ever made
    MaxUserMsgs,    \* bound: messages of the user
    MaxFaults       \* bound: failed statements, rejected pushes and callers
                    \* that disconnect

ASSUME AgentCallConstants ==
    /\ Allowed \subseteq Agents \X Agents
    /\ Serving \subseteq Agents
    /\ Routed \in Agents
    /\ Sessions \subseteq {NoSession, Default}
    /\ MaxDepth \in 0..255     \* a u8
    /\ MaxCalls \in Nat /\ MaxUserMsgs \in Nat
    /\ MaxFaults \in Nat

VARIABLES
    active,         \* active_sessions
    backend,        \* backend_sessions_v2; which session ids does not matter
    calls,          \* each call_agent handler
    pending,        \* A2aWaiter.pending
    disp,           \* the dispatcher
    hold,           \* messages a backend works on, with how far its answer is
    surfaced,       \* history: how often a call's reply was sent to the user
    userMsgs,       \* number of user messages
    faults

vars == <<active, backend, calls, pending, disp, hold, surfaced, userMsgs, faults>>

Call == 1..MaxCalls
GrantKey(c) == <<"a2a", c>>
Names == {Default} \cup {GrantKey(c) : c \in Call}
Rows == {NoRow} \cup {Row(n, d, 0) : n \in Names, d \in 0..255}  \* a u8
NoSnapshot == {NoSession}

\* What the handler of a call does next.
Releasing == {"delete", "look", "restore", "drop"}
Waiting == {"wait", "replied"}
Ended == {"done", "failed", "abandoned"}
Running == {"snapshot", "grant", "push"}
            \cup Waiting \cup Releasing

Free == [pc |-> "free"]
Over(pc) == [pc |-> pc]

\* A message at a backend: stage counts the steps of its answer.
Held == [from : {"user"} \X (1..MaxUserMsgs) \cup {"call"} \X Call,
         name : Names, stage : {"held", "checked", "stored"}]

TypeOK ==
    /\ active \in [Agents -> Rows]
    /\ \A a \in Agents : DOMAIN backend[a] \subseteq Names
    /\ \A c \in Call : calls[c] \in {Free} \cup {Over(pc) : pc \in Ended} \/
        /\ calls[c].pc \in Running
        /\ <<calls[c].caller, calls[c].target>> \in Allowed
        /\ calls[c].prev \in Rows
        /\ calls[c].pre \in (SUBSET Names) \cup {NoSnapshot}
    /\ pending \subseteq Call
    /\ \A a \in Agents : hold[a] \subseteq Held
    /\ surfaced \in [Call -> Nat]
    /\ userMsgs \in 0..MaxUserMsgs /\ faults \in 0..MaxFaults

Init ==
    /\ active = [a \in Agents |-> IF a \in Serving THEN Row(Default, 0, 0) ELSE NoRow]
    /\ backend = [a \in Agents |-> <<>>]
    /\ calls = [c \in Call |-> Free]
    /\ pending = {}
    /\ disp = [pc |-> "idle"]
    /\ hold = [a \in Agents |-> {}]
    /\ surfaced = [c \in Call |-> 0]
    /\ userMsgs = 0 /\ faults = 0

Fault == faults < MaxFaults /\ faults' = faults + 1
NoFault == UNCHANGED faults

At(c, pc) == calls[c] # Free /\ calls[c].pc = pc
InFlight(c) == calls[c] # Free /\ calls[c].pc \in Running

\* History: another writer touched the rows of backend a; the calls to it that
\* are running no longer have them to themselves.
Disturbed(a, but) ==
    [c \in Call |-> IF c # but /\ InFlight(c) /\ calls[c].target = a
                    THEN [calls[c] EXCEPT !.alone = FALSE] ELSE calls[c]]

(***************************************************************************)
(* call_agent.                                                             *)
(***************************************************************************)
\* handle_tools_call finds the caller's conversation and depth, call_agent
\* checks the allowlist and registers a waiter before anything else.
\* Mutant: the depth guard lets one more level through.
MayCallDeeper(caller, target) ==
    /\ Unexpired(active[caller]) /\ active[caller].depth <= MaxDepth
    /\ <<caller, target>> \in Allowed

MayCall(caller, target) ==
    /\ Unexpired(active[caller]) /\ active[caller].depth < MaxDepth
    /\ <<caller, target>> \in Allowed

call_agent(c, caller, target, session) ==
    /\ calls[c] = Free /\ \A b \in 1..(c - 1) : calls[b] # Free
    /\ MayCall(caller, target)
    /\ calls' = [calls EXCEPT ![c] =
            [pc |-> "snapshot", caller |-> caller, target |-> target,
             depth |-> active[caller].depth,
             name |-> IF session = NoSession THEN GrantKey(c) ELSE session,
             prev |-> NoRow, pre |-> NoSnapshot, alone |-> TRUE]]
    /\ pending' = pending \cup {c}
    /\ UNCHANGED <<active, backend, disp, hold, surfaced, userMsgs, faults>>

Goto(c, pc) == calls' = [calls EXCEPT ![c].pc = pc]
FailTo(c, pc) == calls' = [calls EXCEPT ![c].pc = pc, ![c].alone = FALSE]

\* The target's rows before the call; either read may fail.
Snapshot(c) ==
    LET a == calls[c].target
    IN  /\ At(c, "snapshot")
        /\ \/ /\ NoFault
              /\ calls' = [calls EXCEPT ![c].pc = "grant", ![c].prev = active[a],
                                        ![c].pre = DOMAIN backend[a]]
           \/ /\ Fault
              /\ \E prev \in {NoRow, active[a]}, pre \in {NoSnapshot, DOMAIN backend[a]} :
                    calls' = [calls EXCEPT ![c].pc = "grant", ![c].prev = prev,
                                            ![c].pre = pre, ![c].alone = FALSE]
        /\ UNCHANGED <<active, backend, pending, disp, hold, surfaced, userMsgs>>

\* The grant carries the depth of the target's own calls.
GrantCall(c) ==
    LET a == calls[c].target
    IN  /\ At(c, "grant")
        /\ \/ /\ NoFault
              /\ active' = set_active_session_with_depth(
                                active, a, GrantKey(c), calls[c].depth + 1)
              /\ calls' = [Disturbed(a, c) EXCEPT ![c].pc = "push"]
           \/ Fault /\ active' = active /\ FailTo(c, "push")
        /\ UNCHANGED <<backend, pending, disp, hold, surfaced, userMsgs>>

Deliver(a, from, name) ==
    hold' = [hold EXCEPT ![a] =
                @ \cup {[from |-> from, name |-> name, stage |-> "held"]}]

\* The queue may be full; the caller waits all the same.
PushCall(c) ==
    /\ At(c, "push") /\ Goto(c, "wait")
    /\ \/ NoFault /\ Deliver(calls[c].target, <<"call", c>>, calls[c].name)
       \/ Fault /\ hold' = hold
    /\ UNCHANGED <<active, backend, pending, disp, surfaced, userMsgs>>

\* CALL_AGENT_TIMEOUT runs out while no reply is there, and the call is
\* cancelled.
Expire(c) ==
    /\ At(c, "wait") /\ Goto(c, "delete")
    /\ pending' = pending \ {c}
    /\ UNCHANGED <<active, backend, disp, hold, surfaced, userMsgs, faults>>

\* The reply wakes the caller; once its grant is released it sends it to the
\* user and returns it.
TakeReply(c) ==
    /\ At(c, "replied") /\ Goto(c, "delete")
    /\ surfaced' = [surfaced EXCEPT ![c] = @ + 1]
    /\ UNCHANGED <<active, backend, pending, disp, hold, userMsgs, faults>>

\* The caller's connection closes: the handler is dropped where it waits.
CallerGone(c) ==
    /\ At(c, "wait") \/ At(c, "replied")
    /\ Fault /\ calls' = [calls EXCEPT ![c] = Over("abandoned")]
    /\ UNCHANGED <<active, backend, pending, disp, hold, surfaced, userMsgs>>

(***************************************************************************)
(* release_a2a_grant: best effort, a failed statement is skipped.          *)
(***************************************************************************)
DropGrant(c) ==
    LET a == calls[c].target
    IN  /\ At(c, "delete")
        /\ \/ /\ NoFault
              /\ active' = delete_active_session_if_name(active, a, GrantKey(c))
              /\ calls' = [Disturbed(a, c) EXCEPT ![c].pc = "look"]
           \/ Fault /\ active' = active /\ FailTo(c, "look")
        /\ UNCHANGED <<backend, pending, disp, hold, surfaced, userMsgs>>

\* Mutant: the grant the target had before is not restored.
LookForNothing(c) ==
    /\ At(c, "look") /\ NoFault /\ Goto(c, "drop")
    /\ UNCHANGED <<active, backend, pending, disp, hold, surfaced, userMsgs>>

LookForGrant(c) ==
    /\ At(c, "look")
    /\ \/ /\ NoFault
          /\ Goto(c, IF ~HasRow(active[calls[c].target]) /\ HasRow(calls[c].prev)
                     THEN "restore" ELSE "drop")
       \/ Fault /\ FailTo(c, "drop")
    /\ UNCHANGED <<active, backend, pending, disp, hold, surfaced, userMsgs>>

RestoreGrant(c) ==
    LET a == calls[c].target
        prev == calls[c].prev
    IN  /\ At(c, "restore")
        /\ \/ /\ NoFault
              /\ active' = set_active_session_with_depth(active, a, prev.name, prev.depth)
              /\ calls' = [Disturbed(a, c) EXCEPT ![c].pc = "drop"]
           \/ Fault /\ active' = active /\ FailTo(c, "drop")
        /\ UNCHANGED <<backend, pending, disp, hold, surfaced, userMsgs>>

\* The sessions that were not there before the call are deleted one by one,
\* which is one step here: nobody reads two of them.  None is deleted without
\* a snapshot to compare with, and a statement that fails keeps some.
DropSessions(c) ==
    LET a == calls[c].target
        made == IF calls[c].pre = NoSnapshot THEN {}
                ELSE DOMAIN backend[a] \ calls[c].pre
    IN  /\ At(c, "drop")
        /\ \/ /\ NoFault
              /\ backend' = [backend EXCEPT ![a] = Restrict(@, DOMAIN @ \ made)]
              /\ calls' = [IF made = {} THEN calls ELSE Disturbed(a, c)
                                EXCEPT ![c] = Over("done")]
           \/ Fault /\ backend' = backend /\ calls' = [calls EXCEPT ![c] = Over("failed")]
        /\ UNCHANGED <<active, pending, disp, hold, surfaced, userMsgs>>

(***************************************************************************)
(* sendmessage.                                                            *)
(***************************************************************************)
Owns(a) == vtoken_owns_vctx(active, backend, a)

Staged(a, h, stage) == hold' = [hold EXCEPT ![a] = (@ \ {h}) \cup {[h EXCEPT !.stage = stage]}]

\* An answer without a grant is refused and lost.
SendCheck(a, h) ==
    /\ h.stage = "held"
    /\ IF Owns(a) THEN Staged(a, h, "checked")
                  ELSE hold' = [hold EXCEPT ![a] = @ \ {h}]
    /\ UNCHANGED <<active, backend, calls, pending, disp, surfaced, userMsgs, faults>>

\* The answer's own call, unless that is being released already: then its
\* write disturbs it as any other does.
Within(h) ==
    IF h.from[1] = "call" /\ calls[h.from[2]].pc \in Waiting THEN h.from[2] ELSE 0

\* The answer carries a session id, which is stored under its session name.
\* An answer to the user is then sent on, which this module has no part in.
StoreSession(a, h) ==
    /\ h.stage = "checked"
    /\ IF h.from[1] = "call" THEN Staged(a, h, "stored")
                             ELSE hold' = [hold EXCEPT ![a] = @ \ {h}]
    /\ backend' = set_backend_session(backend, a, h.name, 1)
    /\ calls' = Disturbed(a, Within(h))
    /\ UNCHANGED <<active, pending, disp, surfaced, userMsgs, faults>>

\* A2aWaiter::resolve.
\* Mutant: the reply goes to some caller that waits.
resolveAny(c) ==
    LET waiting == {d \in pending : InFlight(d)}
    IN  IF waiting = {} THEN UNCHANGED <<pending, calls>>
        ELSE LET d == CHOOSE d \in waiting : TRUE
             IN  /\ pending' = pending \ {d}
                 /\ calls' = IF At(d, "wait") THEN [calls EXCEPT ![d].pc = "replied"]
                                              ELSE calls

resolve(c) ==
    /\ pending' = pending \ {c}
    /\ calls' = IF c \in pending /\ At(c, "wait")
                THEN [calls EXCEPT ![c].pc = "replied"] ELSE calls

\* The reply to a call goes to its caller, and not to the user.
SendOn(a, h) ==
    /\ h.stage = "stored" /\ resolve(h.from[2])
    /\ hold' = [hold EXCEPT ![a] = @ \ {h}]
    /\ UNCHANGED <<active, backend, disp, surfaced, userMsgs, faults>>

(***************************************************************************)
(* dispatch_message, for a message that is routed to a backend.            *)
(***************************************************************************)
Dispatch ==
    /\ disp.pc = "idle" /\ userMsgs < MaxUserMsgs
    /\ userMsgs' = userMsgs + 1
    /\ disp' = [pc |-> "grant", to |-> Routed,
                name |-> get_active_session_name(active, Routed)]
    /\ UNCHANGED <<active, backend, calls, pending, hold, surfaced, faults>>

\* The grant, and the push that follows it.
HandOver ==
    /\ disp.pc = "grant"
    /\ active' = set_active_session_with_depth(active, disp.to, disp.name, 0)
    /\ calls' = Disturbed(disp.to, 0)
    /\ Deliver(disp.to, <<"user", userMsgs>>, disp.name)
    /\ disp' = [pc |-> "idle"]
    /\ UNCHANGED <<backend, pending, surfaced, userMsgs, faults>>

CallStep(c) ==
    \/ Snapshot(c) \/ GrantCall(c) \/ PushCall(c)
    \/ Expire(c) \/ TakeReply(c)
    \/ DropGrant(c) \/ LookForGrant(c) \/ RestoreGrant(c) \/ DropSessions(c)

\* Nothing is left to do: no call is in progress, every message has been
\* answered and the dispatcher waits.  A run may stop here and nowhere else:
\* each call returns whatever its target does and whatever fails on the way.
Terminated ==
    /\ \A c \in Call : ~InFlight(c)
    /\ \A a \in Agents : hold[a] = {}
    /\ disp.pc = "idle"
    /\ UNCHANGED vars

Next ==
    \/ \E c \in Call :
        \/ CallStep(c) \/ CallerGone(c)
        \/ \E caller, target \in Agents, session \in Sessions :
              call_agent(c, caller, target, session)
    \/ \E a \in Agents : \E h \in hold[a] :
          SendCheck(a, h) \/ StoreSession(a, h) \/ SendOn(a, h)
    \/ Dispatch \/ HandOver
    \/ Terminated

Spec == Init /\ [][Next]_vars

(***************************************************************************)
(* Properties.                                                             *)
(***************************************************************************)
CallMessage(c) == {h \in UNION {hold[a] : a \in Agents} : h.from = <<"call", c>>}

\* A call ends with the reply its own target gave to this very call, which has
\* left the target's hands by then: concurrent callers of one target never get
\* each other's replies.
OwnReply == \A c \in Call : At(c, "replied") => CallMessage(c) = {}

\* The table of waiting callers holds exactly the calls that still wait for a
\* reply; a call that ended in a reply or a timeout leaves nothing behind.  (A
\* caller that disconnects does, until its target answers.)
WaiterReclaimed ==
    /\ \A c \in pending : ~At(c, "replied") /\ ~At(c, "done")
    /\ \A c \in Call : At(c, "wait") => c \in pending

\* No grant is ever deeper than the limit, although the depth is read when the
\* call begins and written, and written back, long after.
DepthBounded == \A a \in Agents : active[a].depth <= MaxDepth

\* The user sees the reply of a call at most once, and only through its caller.
SurfacedOnce ==
    \A c \in Call : surfaced[c] <= (IF calls[c] # Free /\ calls[c].pc \in Releasing \cup Ended
                                    THEN 1 ELSE 0)

\* As long as nobody else touches the target's rows, the target of a waiting
\* call may answer it: the grant is written before the message is pushed.
LoneCallMayAnswer ==
    \A c \in Call : At(c, "wait") /\ calls[c].alone /\ CallMessage(c) # {}
        => Owns(calls[c].target)

\* A call that had its target's rows to itself leaves them exactly as it found
\* them: the grant the target had before, and the sessions.
RolledBack ==
    [][\A c \in Call :
        At(c, "drop") /\ calls'[c].pc = "done" /\ calls[c].alone
            => /\ active'[calls[c].target] = calls[c].prev
               /\ DOMAIN backend'[calls[c].target] = calls[c].pre]_vars

\* A call is answered once and by its own target: its reply is its own and
\* surfaces at most once, its waiter exists exactly while it waits, and its
\* target may answer it (call_agent).
CallsAnswered ==
    TypeOK /\ OwnReply /\ WaiterReclaimed /\ SurfacedOnce /\ LoneCallMayAnswer
=============================================================================
