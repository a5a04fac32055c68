---------------------------- MODULE Conversation ----------------------------
(***************************************************************************)
(* One conversation of a WeChat user with the backends: the dispatcher     *)
(* (src/hub/dispatch/), the user's commands (src/hub/commands.rs), and the *)
(* answers of the backends (sendmessage in src/server/routes/bot.rs).      *)
(*                                                                         *)
(* The dispatcher is one task that handles one message at a time; each of  *)
(* its database statements is a step, and the backends' steps fall between *)
(* them.  /list, /status, /help and /session list only read, and           *)
(* messages without a context token or authored by the bot are skipped;    *)
(* they leave no trace and are left out, as are the history rows of the    *)
(* user's own messages, which no lookup reads.                             *)
(***************************************************************************)
EXTENDS SessionStore, Sequences, FiniteSets

CONSTANTS
    Agents,         \* registered backends, all online and visible to the user
    Legacy,         \* the backends whose bridge does not echo session_name
    Named,          \* numbers of the session names the user gives
    NoAgent,
    DefaultClient,  \* the router's default client when the user first writes
    MaxMsgs,        \* bound: messages the user sends
    MaxFaults       \* bound: failed statements

ASSUME ConversationConstants ==
    /\ Legacy \subseteq Agents /\ NoAgent \notin Agents
    /\ DefaultClient \in Agents \cup {NoAgent}
    /\ Named \subseteq Nat /\ MaxMsgs \in Nat /\ MaxFaults \in Nat

VARIABLES
    active,         \* active_sessions
    backend,        \* backend_sessions_v2
    route,          \* the user's route, or else the default: get_route
    disp,           \* the dispatcher and the message it handles
    queue,          \* each backend's queue
    hold,           \* messages a backend works on, with how far its answer is
    replies,        \* answers sent to the user and their history rows
    sent,           \* number of messages the user has sent
    started,        \* history: the session each message was handed over in
    faults

conversationVars == <<active, backend, route, disp, queue, hold, replies,
                      sent, started, faults>>

Msg == 1..MaxMsgs
UserNames == {Default} \cup {<<"named", n>> : n \in Named}
Names == UserNames \cup {<<"at", m>> : m \in Msg}
Given == MaxMsgs + 1    \* the session id given with /session new
Sid == 0..Given

\* kind: how the message came to the backend; ctx: FALSE when its virtual
\* context is the ephemeral one, which no row maps; excused: a statement failed
\* on its way, or the user deleted the @mention's session.
Message == [id : Msg, kind : {"forward", "mention", "broadcast"}, name : Names,
            sid : Sid, age : 0..GrantTtl, ctx : BOOLEAN, excused : BOOLEAN]

Idle == [pc |-> "idle"]
Work(pc, to, msg, quoted) ==
    [pc |-> pc, to |-> to, msg |-> msg, quoted |-> quoted]
NotQuoted == <<0, NoAgent>>

Pcs == {"ext", "grant", "push", "slot", "create", "switch", "broadcast"}
SavedStates == {"pending", "saved", "dropped"}
Answer == Msg \X Agents

ConversationTypeOK ==
    /\ active \in [Agents -> {NoRow} \cup
            [name : Names, depth : {0}, age : 0..GrantTtl]]
    /\ \A a \in Agents : /\ DOMAIN backend[a] \subseteq Names
                         /\ \A s \in DOMAIN backend[a] : backend[a][s] \in Sid
    /\ route \in Agents \cup {NoAgent}
    /\ disp = Idle \/ /\ disp.pc \in Pcs
                      /\ disp.quoted \in Answer \cup {NotQuoted}
    /\ \A a \in Agents :
        /\ \A i \in DOMAIN queue[a] : queue[a][i] \in Message
        /\ \A h \in hold[a] : h.msg \in Message /\ h.name \in Names \cup {NoSession}
    /\ DOMAIN replies \subseteq Answer
    /\ \A r \in DOMAIN replies : replies[r] \in [name : Names, row : SavedStates]
    /\ DOMAIN started \subseteq Answer
    /\ sent \in 0..MaxMsgs /\ faults \in 0..MaxFaults

ConversationInit ==
    /\ active = [a \in Agents |-> NoRow]
    /\ backend = [a \in Agents |-> <<>>]
    /\ route = DefaultClient
    /\ disp = Idle
    /\ queue = [a \in Agents |-> <<>>]
    /\ hold = [a \in Agents |-> {}]
    /\ replies = <<>> /\ started = <<>>
    /\ sent = 0 /\ faults = 0

Fault == faults < MaxFaults /\ faults' = faults + 1
NoFault == UNCHANGED faults
Failed == faults' # faults

(***************************************************************************)
(* Receiving a message: the decision of the router and of the quote        *)
(* resolvers.                                                              *)
(***************************************************************************)
Next1 == sent + 1

Receive == disp = Idle /\ sent < MaxMsgs /\ sent' = Next1

NewMessage(kind, name, ctx) ==
    [id |-> Next1, kind |-> kind, name |-> name, sid |-> NoSid, age |-> 0,
     ctx |-> ctx, excused |-> Failed]

\* The message with the session it is pinned to, NoSession when to none.  A
\* failed find_or_create_vctx gives it an ephemeral context.
Forward(to, pinned, quoted) ==
    disp' = Work("ext", to, NewMessage("forward", pinned, ~Failed), quoted)

\* The fields a quote may carry of the message it quotes.
QuoteFields == {{"msg_id", "time"}, {"time"}, {"text"}}

Saved == {r \in DOMAIN replies : replies[r].row = "saved"}
Origin(to, name) == [to |-> to, name |-> name]
NoOrigin == Origin(NoAgent, NoSession)
RowOrigin(r) == Origin(r[2], replies[r].name)

\* resolve_quote_from_msg_id: the row with the quoted message's id.
FromMsgId(r, has) == IF "msg_id" \in has /\ r \in Saved THEN {RowOrigin(r)} ELSE {}

\* resolve_quote_from_timestamp and resolve_quote_from_db: a row saved in the
\* same seconds, or the latest one that begins like the quoted text.  Which
\* rows those are is left open.
FromNearbyRow(has) ==
    IF has \cap {"time", "text"} # {} THEN {RowOrigin(x) : x \in Saved} ELSE {}

\* parse_footer_from_quoted_text: the last part of the footer is taken for a
\* session only if it looks like a generated one.
FooterSession(r) == IF replies[r].name[1] = "at" THEN replies[r].name ELSE NoSession

\* resolve_quote_from_footer: by the backend's name, or by the session alone.
FromFooter(r, has) ==
    LET name == FooterSession(r)
        generated == name # NoSession
    IN  IF "text" \notin has THEN {}
        ELSE {Origin(r[2], name)}
                \cup {Origin(a, name) : a \in
                        {b \in Agents : generated /\ name \in DOMAIN backend[b]}}

\* Where a quote of reply r may lead, by the fields the quote carries.  An
\* exact match ends the search; the other layers may each miss.
\* Mutant: the nearby row is looked up before the exact one.
QuoteOriginsNearbyFirst(r, has) ==
    IF FromNearbyRow(has) # {} THEN FromNearbyRow(has)
    ELSE FromMsgId(r, has) \cup FromFooter(r, has) \cup {NoOrigin}

QuoteOrigins(r, has) ==
    IF FromMsgId(r, has) # {} THEN FromMsgId(r, has)
    ELSE FromNearbyRow(has) \cup FromFooter(r, has) \cup {NoOrigin}

\* merge_routing_with_quote: a hub command keeps its way, and a message that
\* finds no route is one (/help).
merge_routing_with_quote(r, origin, exact) ==
    IF route = NoAgent THEN disp' = Idle
    ELSE IF origin = NoOrigin THEN Forward(route, NoSession, NotQuoted)
    ELSE Forward(origin.to, origin.name, IF exact THEN r ELSE NotQuoted)

PlainMessage ==
    /\ Receive /\ (NoFault \/ Fault)
    /\ IF route = NoAgent THEN disp' = Idle
                          ELSE Forward(route, NoSession, NotQuoted)
    /\ UNCHANGED <<active, backend, route, queue, hold, replies, started>>

QuoteReply(r, has) ==
    /\ Receive /\ NoFault
    /\ \E origin \in QuoteOrigins(r, has) :
          merge_routing_with_quote(r, origin, "msg_id" \in has /\ r \in Saved)
    /\ UNCHANGED <<active, backend, route, queue, hold, replies, started>>

(***************************************************************************)
(* Handing a message over: the rest of dispatch_message, and               *)
(* handle_at_mention.                                                      *)
(***************************************************************************)
PinnedOrActive(to, msg) ==
    CASE ~msg.ctx -> [name |-> Default, sid |-> NoSid]
      [] msg.ctx /\ msg.name # NoSession ->
            [name |-> msg.name, sid |-> get_backend_session(backend, to, msg.name)]
      [] OTHER -> get_hub_ext_single(active, backend, to)

\* A failed lookup: the pinned session without its id, or else "default".
Fallback(msg) == IF msg.name = NoSession THEN Default ELSE msg.name

\* Mutant: the message goes to the queue without a grant.
build_hub_ext_for_vctxNoGrant ==
    /\ disp # Idle /\ disp.pc = "ext" /\ NoFault
    /\ LET ext == PinnedOrActive(disp.to, disp.msg)
       IN  disp' = [disp EXCEPT !.pc = "push", !.msg.name = ext.name,
                                !.msg.sid = ext.sid]
    /\ UNCHANGED <<active, backend, route, queue, hold, replies, sent, started>>

build_hub_ext_for_vctx ==
    /\ disp # Idle /\ disp.pc = "ext"
    /\ LET next == IF disp.msg.kind = "mention" THEN "push" ELSE "grant"
           ext == PinnedOrActive(disp.to, disp.msg)
       IN  \/ /\ NoFault
              /\ disp' = [disp EXCEPT !.pc = next, !.msg.name = ext.name,
                                      !.msg.sid = ext.sid]
           \/ /\ Fault
              /\ disp' = [disp EXCEPT !.pc = next, !.msg.excused = TRUE,
                                      !.msg.name = Fallback(disp.msg)]
    /\ UNCHANGED <<active, backend, route, queue, hold, replies, sent, started>>

\* A failed grant is only logged.
Grant ==
    /\ disp # Idle /\ disp.pc = "grant"
    /\ \/ /\ NoFault
          /\ active' = IF disp.msg.ctx
                       THEN set_active_session_with_depth(
                                active, disp.to, disp.msg.name, 0)
                       ELSE active
          /\ disp' = [disp EXCEPT !.pc = "push"]
       \/ /\ Fault
          /\ active' = active
          /\ disp' = [disp EXCEPT !.pc = "push", !.msg.excused = TRUE]
    /\ UNCHANGED <<backend, route, queue, hold, replies, sent, started>>

Push ==
    /\ disp # Idle /\ disp.pc = "push"
    /\ queue' = [queue EXCEPT ![disp.to] = Append(@, disp.msg)]
    /\ started' = [k \in DOMAIN started \cup {<<disp.msg.id, disp.to>>} |->
                    IF k \in DOMAIN started THEN started[k] ELSE disp.msg.name]
    /\ disp' = Idle
    /\ UNCHANGED <<active, backend, route, hold, replies, sent, faults>>

Mention(a) ==
    /\ Receive /\ (NoFault \/ Fault)
    /\ disp' = Work("slot", a, NewMessage("mention", <<"at", Next1>>, ~Failed),
                    NotQuoted)
    /\ UNCHANGED <<active, backend, route, queue, hold, replies, started>>

\* The @mention's session is created before it is handed over; a failure is
\* only logged.
CreateMentionSlot ==
    /\ disp # Idle /\ disp.pc = "slot"
    /\ \/ /\ NoFault
          /\ backend' = IF disp.msg.ctx
                        THEN set_backend_session(backend, disp.to, disp.msg.name, NoSid)
                        ELSE backend
          /\ disp' = [disp EXCEPT !.pc = "ext"]
       \/ /\ Fault
          /\ backend' = backend
          /\ disp' = [disp EXCEPT !.pc = "ext", !.msg.excused = TRUE]
    /\ UNCHANGED <<active, route, queue, hold, replies, sent, started>>

(***************************************************************************)
(* Commands.                                                               *)
(***************************************************************************)
\* The route is stored first; if that fails nothing changes.
handle_cmd_use(a) ==
    /\ Receive
    /\ \/ NoFault /\ route' = a
       \/ Fault /\ route' = route
    /\ UNCHANGED <<active, backend, disp, queue, hold, replies, started>>

\* A session command goes to the routed backend; without one, or when its
\* first statement fails, it changes nothing.
SessionCommand == Receive /\ route # NoAgent

Switching(pc, name) == Work(pc, route, NewMessage("forward", name, TRUE), NotQuoted)

handle_cmd_session_new(name, uuid) ==
    /\ SessionCommand /\ NoFault
    /\ backend' = set_backend_session(backend, route, name, uuid)
    /\ disp' = Switching("switch", name)
    /\ UNCHANGED <<active, route, queue, hold, replies, started>>

handle_cmd_session_use(name) ==
    /\ SessionCommand /\ NoFault
    /\ disp' = Switching(IF name \in DOMAIN backend[route] THEN "switch" ELSE "create",
                         name)
    /\ UNCHANGED <<active, backend, route, queue, hold, replies, started>>

CreateSlot ==
    /\ disp # Idle /\ disp.pc = "create"
    /\ \/ /\ NoFault
          /\ backend' = set_backend_session(backend, disp.to, disp.msg.name, NoSid)
          /\ disp' = [disp EXCEPT !.pc = "switch"]
       \/ Fault /\ backend' = backend /\ disp' = Idle
    /\ UNCHANGED <<active, route, queue, hold, replies, sent, started>>

SwitchSession ==
    /\ disp # Idle /\ disp.pc = "switch"
    /\ \/ NoFault /\ active' = set_active_session_name(active, disp.to, disp.msg.name)
       \/ Fault /\ active' = active
    /\ disp' = Idle
    /\ UNCHANGED <<backend, route, queue, hold, replies, sent, started>>

\* Messages on their way in the deleted session lose what let them answer.
Excuse(m, name) == IF m.name = name THEN [m EXCEPT !.excused = TRUE] ELSE m

handle_cmd_session_delete(name) ==
    /\ SessionCommand /\ NoFault
    /\ name # get_active_session_name(active, route)
    /\ backend' = delete_backend_session(backend, route, name)
    /\ queue' = [queue EXCEPT ![route] =
                    [i \in DOMAIN @ |-> Excuse(@[i], name)]]
    /\ hold' = [hold EXCEPT ![route] =
                    {[h EXCEPT !.msg = Excuse(@, name)] : h \in @}]
    /\ UNCHANGED <<active, route, disp, replies, started>>

\* /broadcast: each online backend gets the message in its active session.
handle_cmd_broadcast ==
    /\ Receive /\ NoFault
    /\ disp' = [pc |-> "broadcast", todo |-> Agents, quoted |-> NotQuoted]
    /\ UNCHANGED <<active, backend, route, queue, hold, replies, started>>

BroadcastTo(a) ==
    /\ disp # Idle /\ disp.pc = "broadcast" /\ a \in disp.todo
    /\ LET ext == get_hub_ext_single(active, backend, a)
           msg == [id |-> sent, kind |-> "broadcast", name |-> ext.name,
                   sid |-> ext.sid, age |-> 0, ctx |-> TRUE, excused |-> FALSE]
       IN  /\ queue' = [queue EXCEPT ![a] = Append(@, msg)]
           /\ started' = [k \in DOMAIN started \cup {<<sent, a>>} |->
                            IF k \in DOMAIN started THEN started[k] ELSE ext.name]
    /\ disp' = IF disp.todo = {a} THEN Idle ELSE [disp EXCEPT !.todo = @ \ {a}]
    /\ UNCHANGED <<active, backend, route, hold, replies, sent, faults>>

(***************************************************************************)
(* The backends.                                                           *)
(***************************************************************************)
\* The bridge takes the next message from its queue.
Take(a) ==
    /\ queue[a] # <<>>
    /\ queue' = [queue EXCEPT ![a] = Tail(@)]
    /\ hold' = [hold EXCEPT ![a] = @ \cup {[msg |-> Head(queue[a]), name |-> NoSession]}]
    /\ UNCHANGED <<active, backend, route, disp, replies, sent, started, faults>>

Owns(a, msg) == msg.ctx /\ vtoken_owns_vctx(active, backend, a)

\* sendmessage looks up the context and with it the session the answer is
\* filed under: the one the bridge echoes, or else the active one.
\* Mutant: the active session, whatever the bridge echoes.
AnswerSessionFromDb(a, msg) == resolve_send_context(active, a)

AnswerSession(a, msg) ==
    IF a \in Legacy THEN resolve_send_context(active, a) ELSE msg.name

\* An answer that is refused, or whose lookup fails, is lost.
SendCheck(a, h) ==
    /\ h \in hold[a] /\ h.name = NoSession
    /\ \/ /\ NoFault
          /\ hold' = [hold EXCEPT ![a] = (@ \ {h}) \cup
                (IF Owns(a, h.msg)
                 THEN {[h EXCEPT !.name = AnswerSession(a, h.msg)]} ELSE {})]
       \/ Fault /\ hold' = [hold EXCEPT ![a] = @ \ {h}]
    /\ UNCHANGED <<active, backend, route, disp, queue, replies, sent, started>>

\* The command-line tool resumes the session id it was given, or starts a
\* session named after the message.
CliSession(msg) == IF msg.sid # NoSid THEN msg.sid ELSE msg.id

\* The rest of sendmessage: the session id is stored (when that fails it is as
\* if the answer had none), then the text, if there is one, is sent and its
\* history row is left to a task of its own.
SendAnswer(a, h, text) ==
    /\ h \in hold[a] /\ h.name # NoSession
    /\ hold' = [hold EXCEPT ![a] = @ \ {h}]
    /\ \/ /\ NoFault
          /\ backend' = set_backend_session(backend, a, h.name, CliSession(h.msg))
       \/ Fault /\ backend' = backend
    /\ replies' = IF text
                  THEN [r \in DOMAIN replies \cup {<<h.msg.id, a>>} |->
                        IF r = <<h.msg.id, a>> THEN [name |-> h.name, row |-> "pending"]
                                               ELSE replies[r]]
                  ELSE replies
    /\ UNCHANGED <<active, route, disp, queue, sent, started>>

\* The history task: it gives up when the semaphore has no permit left or the
\* statement fails.
SaveReply(r) ==
    /\ replies[r].row = "pending"
    /\ \E row \in {"saved", "dropped"} : replies' = [replies EXCEPT ![r].row = row]
    /\ UNCHANGED <<active, backend, route, disp, queue, hold, sent, started, faults>>

OlderMsg(m) == [m EXCEPT !.age = IF @ < GrantTtl THEN @ + 1 ELSE @]

Tick ==
    /\ \E a \in Agents : Unexpired(active[a])
    /\ active' = AgedRows(active)
    /\ queue' = [a \in Agents |-> [i \in DOMAIN queue[a] |-> OlderMsg(queue[a][i])]]
    /\ hold' = [a \in Agents |-> {[h EXCEPT !.msg = OlderMsg(@)] : h \in hold[a]}]
    /\ disp' = IF disp # Idle /\ disp.pc = "push"
               THEN [disp EXCEPT !.msg = OlderMsg(@)] ELSE disp
    /\ UNCHANGED <<backend, route, replies, sent, started, faults>>

UserStep ==
    \/ PlainMessage \/ handle_cmd_broadcast
    \/ \E r \in DOMAIN replies :
          \E has \in QuoteFields : QuoteReply(r, has)
    \/ \E a \in Agents : Mention(a) \/ handle_cmd_use(a)
    \/ \E name \in UserNames :
          \/ \E uuid \in {NoSid, Given} : handle_cmd_session_new(name, uuid)
          \/ handle_cmd_session_use(name)
    \/ \E name \in Names : handle_cmd_session_delete(name)

DispatcherStep ==
    \/ build_hub_ext_for_vctx \/ Grant \/ Push
    \/ CreateMentionSlot \/ CreateSlot \/ SwitchSession
    \/ \E a \in Agents : BroadcastTo(a)

AgentStep ==
    \/ \E a \in Agents :
          \/ Take(a)
          \/ \E h \in hold[a] :
                SendCheck(a, h) \/ \E text \in BOOLEAN : SendAnswer(a, h, text)
    \/ \E r \in DOMAIN replies : SaveReply(r)

ConversationNext == UserStep \/ DispatcherStep \/ AgentStep \/ Tick

ConversationSpec == ConversationInit /\ [][ConversationNext]_conversationVars

(***************************************************************************)
(* Properties.                                                             *)
(***************************************************************************)
InHand(a) == {queue[a][i] : i \in DOMAIN queue[a]} \cup {h.msg : h \in hold[a]}

\* Whoever is handed a message by the dispatcher may answer it until the grant
\* runs out: the grant (or, for an @mention, the session slot) is written
\* before the message is pushed, and nothing but an expiry, a failed statement
\* or the user's own /session delete takes it away.
MayAnswer ==
    \A a \in Agents : \A m \in InHand(a) :
        m.kind \in {"forward", "mention"} /\ ~m.excused /\ m.age < GrantTtl
            => Owns(a, m)

\* A command-line session id is stored under the session whose message started
\* it, even if the user switched, created or deleted sessions while the backend
\* worked: sendmessage files the id under the name the bridge echoes.
SidInOwnSession ==
    \A a \in Agents \ Legacy : \A s \in DOMAIN backend[a] :
        backend[a][s] \in Msg => started[<<backend[a][s], a>>] = s

\* A quote-reply to an answer whose history row is saved goes to the backend
\* that gave it, in the session of the question it answered.
QuoteReachesAuthor ==
    disp # Idle /\ disp.quoted # NotQuoted /\ disp.quoted[2] \notin Legacy
        => /\ disp.to = disp.quoted[2]
           /\ disp.msg.excused \/ disp.msg.name = started[disp.quoted]

\* The session tables are well formed, and every id in them is in the session
\* that earned it (set_backend_session, delete_backend_session).
SessionsCoherent == ConversationTypeOK /\ SidInOwnSession
=============================================================================
