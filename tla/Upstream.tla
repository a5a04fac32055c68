------------------------------ MODULE Upstream ------------------------------
(***************************************************************************)
(* The Hub's connection to iLink: how a process starts and finds its token *)
(* (src/runtime/serve.rs), the polling loop with its start-up probe and    *)
(* the renewal of an expired session (src/ilink/upstream.rs), the QR login *)
(* (src/ilink/login.rs), the channel to the dispatcher and its end         *)
(* (src/hub/dispatch/pipeline.rs), and the admin page that shows the code  *)
(* (src/server/routes/admin.rs).                                           *)
(*                                                                         *)
(* iLink is external: it numbers the messages of all users, a cursor is    *)
(* the number of the last message delivered with it (0 for the empty one), *)
(* presenting it confirms them, and the empty cursor asks for all that are *)
(* not confirmed.  Tokens are numbered as they are issued.  notifystart    *)
(* has no effect the Hub depends on and is left out.  So is the flag       *)
(* renewing, which only this one task uses.                                *)
(***************************************************************************)
EXTENDS Integers, Sequences, FiniteSets

CONSTANTS
    EnvTokens,      \* what ILINK_TOKEN may be: "none", "malformed", "good"
    ChannelSize,    \* dispatch_channel_size
    MaxAttempts,    \* MAX_ATTEMPTS of poll_qrcode_status
    ReloginCap,     \* capacity of relogin_tx
    MaxMsgs,        \* bound: messages of the users
    MaxCodes,       \* bound: QR codes iLink gives
    MaxClicks,      \* bound: re-logins the administrator asks for
    MaxFaults       \* bound: sessions that expire, lost responses, failed
                    \* statements and crashes

ASSUME UpstreamConstants ==
    /\ EnvTokens \subseteq {"none", "malformed", "good"}
    /\ {ChannelSize, MaxAttempts, ReloginCap} \subseteq Nat \ {0}
    /\ {MaxMsgs, MaxCodes, MaxClicks, MaxFaults} \subseteq Nat

VARIABLES
    sent,           \* iLink: number of messages sent to the bot
    confirmed,      \* iLink: the messages up to this one are not repeated
    session,        \* iLink: the token of the live session
    issued,         \* iLink: number of tokens issued
    env,            \* ILINK_TOKEN
    db,             \* bot_credentials
    token,          \* UpstreamClient.token
    pc,             \* where the polling loop is
    cursor,         \* get_updates_buf
    batch,          \* received messages not yet in the channel
    chan,           \* the channel to the dispatcher
    dispatcher,     \* whether its task runs
    shutdown,
    status,         \* ilink_status
    login,          \* the QR login under way
    codes,          \* number of QR codes shown
    clicks, lagged, \* relogin_rx: waiting requests, and whether it overflowed
    clicked,        \* number of requests
    events,         \* the channel of the bridge task: a code, or NoCode for
                    \* Done and Expired
    cache,          \* qr_last_ready
    sub,            \* the admin page's event stream
    handled,        \* history: messages the dispatcher has taken
    gone,           \* history: messages dropped by a probe or with a process
    last,           \* history: last message received since the cursor was empty
    refused,        \* history: iLink said -14 and no login came since
    outcome,        \* history: how the last login ended
    faults

conn == <<sent, confirmed, session, issued, env, db>>
loop == <<token, pc, cursor, batch, status>>
task == <<chan, dispatcher, shutdown>>
relogin == <<clicks, lagged, clicked>>
page == <<cache, sub>>
past == <<handled, gone, last, refused, outcome>>
vars == <<conn, loop, task, login, codes, relogin, events, page, past, faults>>

NoToken == 0
NoCode == 0

NoLogin == [why |-> "none"]
Login(why) == [why |-> why, at |-> "code", attempts |-> 0]

Elements(s) == {s[i] : i \in DOMAIN s}
MaxTokens == MaxCodes + 1

TypeOK ==
    /\ sent \in 0..MaxMsgs /\ confirmed \in 0..sent /\ cursor \in 0..sent
    /\ {session, issued, db, token} \subseteq 0..MaxTokens
    /\ env \in EnvTokens
    /\ pc \in {"down", "probe", "top", "poll", "deliver", "sleep", "login",
               "exited"}
    /\ pc = "login" <=> login # NoLogin
    /\ login = NoLogin \/ login.attempts \in 0..MaxAttempts
    /\ Len(chan) <= ChannelSize
    /\ batch # <<>> => pc = "deliver"
    /\ status \in {"unknown", "connected", "needs_login", "logging_in"}
    /\ codes \in 0..MaxCodes /\ clicks \in 0..ReloginCap
    /\ cache \in 0..MaxCodes
    /\ faults \in 0..MaxFaults

Init ==
    /\ env \in EnvTokens
    /\ issued = (IF env = "good" THEN 1 ELSE 0)
    /\ session = issued
    /\ sent = 0 /\ confirmed = 0 /\ db = NoToken /\ token = NoToken
    /\ pc = "down" /\ cursor = 0 /\ batch = <<>> /\ status = "unknown"
    /\ chan = <<>> /\ dispatcher = FALSE /\ shutdown = FALSE
    /\ login = NoLogin /\ codes = 0
    /\ clicks = 0 /\ lagged = FALSE /\ clicked = 0
    /\ events = <<>> /\ cache = NoCode
    /\ sub = [at |-> "off", shown |-> NoCode]
    /\ handled = {} /\ gone = {} /\ last = 0 /\ refused = FALSE /\ outcome = "none"
    /\ faults = 0

Fault == faults < MaxFaults /\ faults' = faults + 1
NoFault == UNCHANGED faults

(***************************************************************************)
(* iLink.                                                                  *)
(***************************************************************************)
UserSends ==
    /\ sent < MaxMsgs /\ sent' = sent + 1
    /\ UNCHANGED <<confirmed, session, issued, env, db, loop, task, login, codes,
                   relogin, events, page, past, faults>>

SessionExpires ==
    /\ session # NoToken /\ Fault /\ session' = NoToken
    /\ UNCHANGED <<sent, confirmed, issued, env, db, loop, task, login, codes,
                   relogin, events, page, past>>

Accepted == token = session

\* What getupdates does for the cursor it is given.
Start == IF cursor = 0 THEN confirmed ELSE cursor
Confirm == confirmed' = (IF cursor > confirmed THEN cursor ELSE confirmed)
Delivered == [i \in 1..(sent - Start) |-> Start + i]

(***************************************************************************)
(* run_serve: everything up to the polling loop.                           *)
(***************************************************************************)
\* The token of the database goes first; ILINK_TOKEN only fills an empty one.
\* Mutant: ILINK_TOKEN goes first.
resolve_tokenFromEnv ==
    CASE env = "good"  -> /\ token' = 1 /\ db' = 1 /\ NoFault
                          /\ pc' = "probe" /\ dispatcher' = TRUE /\ login' = login
      [] db # NoToken  -> /\ token' = db /\ db' = db /\ NoFault
                          /\ pc' = "probe" /\ dispatcher' = TRUE /\ login' = login
      [] OTHER         -> /\ pc' = "login" /\ login' = Login("boot") /\ NoFault
                          /\ UNCHANGED <<token, db, dispatcher>>

resolve_token ==
    CASE db # NoToken  -> /\ token' = db /\ db' = db /\ NoFault
                          /\ pc' = "probe" /\ dispatcher' = TRUE /\ login' = login
      [] db = NoToken /\ env = "good" ->
                          /\ token' = 1 /\ db' = 1 /\ NoFault
                          /\ pc' = "probe" /\ dispatcher' = TRUE /\ login' = login
      [] OTHER         -> /\ pc' = "login" /\ login' = Login("boot") /\ NoFault
                          /\ UNCHANGED <<token, db, dispatcher>>

\* A step that fails ends the process; it may be started again.
run_serve ==
    /\ pc = "down" /\ resolve_token
    /\ UNCHANGED <<sent, confirmed, session, issued, env, cursor, batch, status, chan,
                   shutdown, codes, relogin, events, page, past>>

\* Everything in memory is lost: the messages on their way to the dispatcher,
\* the requests of the administrator and their page's stream.
ProcessEnds ==
    /\ pc' = "down" /\ token' = NoToken /\ cursor' = 0 /\ batch' = <<>>
    /\ status' = "unknown" /\ chan' = <<>> /\ dispatcher' = FALSE
    /\ shutdown' = FALSE /\ login' = NoLogin
    /\ clicks' = 0 /\ lagged' = FALSE /\ events' = <<>>
    /\ cache' = NoCode /\ sub' = [at |-> "off", shown |-> NoCode]
    /\ gone' = gone \cup Elements(chan) \cup Elements(batch)
    /\ last' = 0 /\ refused' = FALSE /\ outcome' = "none"
    /\ UNCHANGED <<conn, codes, clicked, handled>>

Crash == pc # "down" /\ Fault /\ ProcessEnds

Stopped == pc = "exited" /\ ~dispatcher /\ NoFault /\ ProcessEnds

ShutDown ==
    /\ pc \notin {"down", "exited"} /\ ~shutdown /\ shutdown' = TRUE
    /\ UNCHANGED <<conn, loop, chan, dispatcher, login, codes, relogin, events, page,
                   past, faults>>

(***************************************************************************)
(* run_polling_loop.                                                       *)
(***************************************************************************)
Renew(why) == pc' = "login" /\ login' = Login(why) /\ status' = "logging_in"

\* The probe takes the cursor over and drops the messages that came with it.
Probe ==
    /\ pc = "probe"
    /\ \/ /\ Accepted /\ NoFault
          /\ status' = "connected" /\ cursor' = sent /\ pc' = "top" /\ login' = login
          /\ gone' = gone \cup Elements(Delivered) /\ last' = sent /\ refused' = FALSE
       \/ /\ ~Accepted /\ NoFault
          /\ Renew("probe") /\ refused' = TRUE /\ UNCHANGED <<cursor, gone, last>>
       \/ Fault /\ pc' = "top" /\ UNCHANGED <<status, cursor, login, gone, last, refused>>
    /\ UNCHANGED <<conn, token, batch, task, codes, relogin, events, page, handled,
                   outcome>>

\* The top of the loop: shutdown, then a waiting request for a re-login.  A
\* receiver that was overrun is told so first, and that counts as no request.
Top ==
    /\ pc = "top"
    /\ CASE shutdown -> pc' = "exited" /\ UNCHANGED <<login, status, clicks, lagged>>
         [] ~shutdown /\ lagged -> /\ pc' = "poll" /\ lagged' = FALSE
                                   /\ UNCHANGED <<login, status, clicks>>
         [] ~shutdown /\ ~lagged /\ clicks > 0 ->
                Renew("manual") /\ clicks' = clicks - 1 /\ lagged' = lagged
         [] OTHER -> pc' = "poll" /\ UNCHANGED <<login, status, clicks, lagged>>
    /\ UNCHANGED <<conn, token, cursor, batch, task, codes, clicked, events, page, past,
                   faults>>

\* A long-poll that is answered: the cursor is taken over before the messages
\* are passed on.
PollOk ==
    /\ pc = "poll" /\ ~shutdown /\ Accepted
    /\ Confirm /\ batch' = Delivered /\ cursor' = sent
    /\ status' = "connected" /\ pc' = "deliver" /\ refused' = FALSE
    /\ UNCHANGED <<sent, session, issued, env, db, token, task, login, codes, relogin,
                   events, page, handled, gone, last, outcome, faults>>

\* errcode -14.
PollExpired ==
    /\ pc = "poll" /\ ~shutdown /\ ~Accepted
    /\ Renew("expired") /\ refused' = TRUE
    /\ UNCHANGED <<conn, token, cursor, batch, task, codes, relogin, events, page,
                   handled, gone, last, outcome, faults>>

\* The request fails, or its response is lost after iLink has seen the cursor.
PollFails ==
    /\ pc = "poll" /\ ~shutdown /\ Fault
    /\ \/ Accepted /\ Confirm
       \/ confirmed' = confirmed
    /\ pc' = "sleep"
    /\ UNCHANGED <<sent, session, issued, env, db, token, cursor, batch, status, task,
                   login, codes, relogin, events, page, past>>

\* The long-poll and the sleeps are raced against shutdown.
Interrupted ==
    /\ pc \in {"poll", "sleep"} /\ shutdown /\ pc' = "exited"
    /\ UNCHANGED <<conn, token, cursor, batch, status, task, login, codes, relogin,
                   events, page, past, faults>>

Awake ==
    /\ pc = "sleep" /\ ~shutdown /\ pc' = "top"
    /\ UNCHANGED <<conn, token, cursor, batch, status, task, login, codes, relogin,
                   events, page, past, faults>>

\* The messages of a batch go to the channel, one by one; a full channel
\* blocks.  Once the dispatcher is gone the loop ends.
\* Mutant: the loop does not notice that the dispatcher is gone.
DeliverForever ==
    /\ pc = "deliver" /\ Len(chan) < ChannelSize
    /\ IF batch = <<>>
       THEN pc' = "top" /\ UNCHANGED <<batch, chan, gone, last>>
       ELSE /\ chan' = Append(chan, Head(batch)) /\ batch' = Tail(batch)
            /\ last' = Head(batch) /\ UNCHANGED <<pc, gone>>
    /\ UNCHANGED <<conn, token, cursor, status, dispatcher, shutdown, login, codes,
                   relogin, events, page, handled, refused, outcome, faults>>

\* Mutant: a full channel drops the message instead of blocking.
DeliverDrops ==
    /\ pc = "deliver"
    /\ IF batch = <<>>
       THEN pc' = "top" /\ UNCHANGED <<batch, chan, gone, last>>
       ELSE /\ chan' = (IF Len(chan) < ChannelSize THEN Append(chan, Head(batch))
                                                   ELSE chan)
            /\ batch' = Tail(batch) /\ last' = Head(batch) /\ UNCHANGED <<pc, gone>>
    /\ UNCHANGED <<conn, token, cursor, status, dispatcher, shutdown, login, codes,
                   relogin, events, page, handled, refused, outcome, faults>>

Deliver ==
    /\ pc = "deliver"
    /\ CASE batch = <<>> -> pc' = "top" /\ UNCHANGED <<batch, chan, gone, last>>
         [] batch # <<>> /\ ~dispatcher ->
                /\ pc' = "exited" /\ gone' = gone \cup Elements(batch)
                /\ batch' = <<>> /\ UNCHANGED <<chan, last>>
         [] OTHER ->
                /\ Len(chan) < ChannelSize
                /\ chan' = Append(chan, Head(batch)) /\ batch' = Tail(batch)
                /\ last' = Head(batch) /\ UNCHANGED <<pc, gone>>
    /\ UNCHANGED <<conn, token, cursor, status, dispatcher, shutdown, login, codes,
                   relogin, events, page, handled, refused, outcome, faults>>

(***************************************************************************)
(* spawn_dispatcher.                                                       *)
(***************************************************************************)
DispatcherTakes ==
    /\ dispatcher /\ ~shutdown /\ chan # <<>>
    /\ handled' = handled \cup {Head(chan)} /\ chan' = Tail(chan)
    /\ UNCHANGED <<conn, loop, dispatcher, shutdown, login, codes, relogin, events, page,
                   gone, last, refused, outcome, faults>>

\* Shutdown goes first; what is in the channel is dropped with it.
DispatcherExits ==
    /\ dispatcher /\ shutdown
    /\ dispatcher' = FALSE /\ chan' = <<>> /\ gone' = gone \cup Elements(chan)
    /\ UNCHANGED <<conn, loop, shutdown, login, codes, relogin, events, page,
                   handled, last, refused, outcome, faults>>

(***************************************************************************)
(* renew_expired_session and login_with_qr_ui.  The login at start-up has  *)
(* no page and prints its code.                                            *)
(***************************************************************************)
At(step) == pc = "login" /\ login.at = step

Emit(e) == events' = IF login.why = "boot" THEN events ELSE Append(events, e)

\* What each place that starts a login does when it fails.
LoginFailed(how) ==
    /\ login' = NoLogin /\ outcome' = how
    /\ pc' = CASE login.why = "boot"                -> "exited"
               [] login.why \in {"probe", "manual"} -> "top"
               [] OTHER                             -> "sleep"
    /\ status' = IF login.why = "manual" THEN "needs_login" ELSE status

get_qrcode ==
    /\ At("code") /\ codes < MaxCodes
    /\ codes' = codes + 1 /\ Emit(codes + 1)
    /\ login' = [login EXCEPT !.at = "scan"]
    /\ UNCHANGED <<conn, loop, task, relogin, page, past, faults>>

\* Nothing tells the page.
get_qrcodeFails ==
    /\ At("code") /\ LoginFailed("error")
    /\ UNCHANGED <<conn, token, cursor, batch, task, codes, relogin, events, page,
                   handled, gone, last, refused, faults>>

\* One attempt of poll_qrcode_status that does not settle it: not scanned or
\* not confirmed yet, a network error or an unreadable response.
StillWaiting ==
    /\ At("scan") /\ login.attempts < MaxAttempts
    /\ login' = [login EXCEPT !.attempts = @ + 1]
    /\ UNCHANGED <<conn, loop, task, codes, relogin, events, page, past, faults>>

\* The code has expired, or the attempts are used up.
CodeExpires ==
    /\ At("scan") /\ LoginFailed("expired") /\ Emit(NoCode)
    /\ UNCHANGED <<conn, token, cursor, batch, task, codes, relogin, page,
                   handled, gone, last, refused, faults>>

\* iLink reports an error, or confirms without a token.
CodeFails ==
    /\ At("scan") /\ login.attempts < MaxAttempts /\ LoginFailed("error")
    /\ UNCHANGED <<conn, token, cursor, batch, task, codes, relogin, events, page,
                   handled, gone, last, refused, faults>>

Confirmed ==
    /\ At("scan") /\ login.attempts < MaxAttempts /\ issued < MaxTokens
    /\ issued' = issued + 1 /\ session' = issued + 1
    /\ login' = [login EXCEPT !.at = "save"] /\ Emit(NoCode)
    /\ UNCHANGED <<sent, confirmed, env, db, loop, task, codes, relogin, page, past,
                   faults>>

\* The token is stored first; when that fails it is not used either.
save_credentials ==
    /\ At("save")
    /\ \/ /\ NoFault /\ db' = issued /\ login' = [login EXCEPT !.at = "use"]
          /\ UNCHANGED <<pc, status, outcome>>
       \/ Fault /\ LoginFailed("error") /\ db' = db
    /\ UNCHANGED <<sent, confirmed, session, issued, env, token, cursor, batch, task,
                   codes, relogin, events, page, handled, gone, last, refused>>

\* The session is another one, the cursor starts over.
UseToken ==
    /\ At("use")
    /\ token' = issued /\ login' = NoLogin /\ outcome' = "ok" /\ refused' = FALSE
    /\ IF login.why = "boot"
       THEN /\ pc' = "probe" /\ dispatcher' = TRUE
            /\ UNCHANGED <<cursor, status, last>>
       ELSE /\ pc' = "top" /\ status' = "connected" /\ cursor' = 0 /\ last' = 0
            /\ UNCHANGED dispatcher
    /\ UNCHANGED <<conn, batch, chan, shutdown, codes, relogin, events, page, handled,
                   gone, faults>>

(***************************************************************************)
(* The admin page: re-login requests and the stream of QR events.          *)
(***************************************************************************)
Running == pc \notin {"down", "exited"} /\ ~(pc = "login" /\ login.why = "boot")

admin_ilink_relogin ==
    /\ Running /\ clicked < MaxClicks /\ clicked' = clicked + 1
    /\ IF clicks < ReloginCap THEN clicks' = clicks + 1 /\ lagged' = lagged
                              ELSE lagged' = TRUE /\ clicks' = clicks
    /\ UNCHANGED <<conn, loop, task, login, codes, events, page, past, faults>>

\* What a forwarded event does to a visitor's stream: it reaches a subscriber,
\* and a visitor that has read the cache but not subscribed yet misses it.
Shown(e) ==
    CASE sub.at \in {"on", "behind"}   -> [at |-> "on", shown |-> e]
      [] sub.at \in {"read", "missed"} -> [sub EXCEPT !.at = "missed"]
      [] OTHER                         -> sub

\* The bridge task writes the cache and sends the event on: one step here, as
\* a visitor in between would only see the code twice.
ForwardEvent ==
    /\ events # <<>> /\ events' = Tail(events)
    /\ cache' = Head(events)
    /\ sub' = Shown(Head(events))
    /\ UNCHANGED <<conn, loop, task, login, codes, relogin, past, faults>>

\* Mutant: the stream starts without the cached code.
ReadNoCache ==
    /\ Running /\ sub.at = "off" /\ sub' = [at |-> "read", shown |-> NoCode]
    /\ UNCHANGED <<conn, loop, task, login, codes, relogin, events, cache, past,
                   faults>>

\* admin_ilink_qr_stream reads the cache, and then subscribes.
ReadCache ==
    /\ Running /\ sub.at = "off" /\ sub' = [at |-> "read", shown |-> cache]
    /\ UNCHANGED <<conn, loop, task, login, codes, relogin, events, cache, past,
                   faults>>

Subscribe ==
    /\ sub.at \in {"read", "missed"}
    /\ sub' = [sub EXCEPT !.at = IF sub.at = "read" THEN "on" ELSE "behind"]
    /\ UNCHANGED <<conn, loop, task, login, codes, relogin, events, cache, past,
                   faults>>

LoginStep ==
    \/ get_qrcode \/ get_qrcodeFails \/ StillWaiting \/ CodeExpires \/ CodeFails
    \/ Confirmed \/ save_credentials \/ UseToken

LoopStep ==
    \/ Probe \/ Top \/ PollOk \/ PollExpired \/ PollFails \/ Interrupted \/ Awake
    \/ Deliver

DispatcherStep == DispatcherTakes \/ DispatcherExits

PageStep ==
    \/ admin_ilink_relogin \/ ForwardEvent \/ ReadCache \/ Subscribe

Next ==
    \/ UserSends \/ SessionExpires \/ run_serve \/ Crash \/ Stopped \/ ShutDown
    \/ LoginStep \/ LoopStep \/ DispatcherStep \/ PageStep

Spec == Init /\ [][Next]_vars

(***************************************************************************)
(* Properties.                                                             *)
(***************************************************************************)
\* Until its process ends, the Hub loses no message it was given: the cursor,
\* which is taken over before a batch is passed on, never covers a message
\* other than those the dispatcher has, those on their way to it, and those
\* dropped by a probe or with an earlier process.
NoGap ==
    \A m \in 1..(IF cursor > confirmed THEN cursor ELSE confirmed) :
        m \in handled \cup Elements(chan) \cup Elements(batch) \cup gone

\* The dispatcher is given every message once, in order, as long as the session
\* lasts: lost responses and backpressure repeat none.
InOrderOnce == \A i \in DOMAIN batch : batch[i] > last

\* The Hub does not call itself connected when iLink has refused its token and
\* nobody has logged in since.
ConnectedMeansAccepted == status = "connected" => ~refused

\* After a login that succeeded, or whose code expired, the page of a late
\* visitor shows no code, once the bridge task has caught up.
CodeNotStale ==
    pc # "login" /\ outcome \in {"ok", "expired"} /\ events = <<>> => cache = NoCode

\* A page that opens while a login is under way shows its code, from the cache
\* or from the stream, unless an event fell between its reading the cache and
\* its subscribing, and then only until the next event (admin_ilink_qr_stream).
VisitorSeesCode == sub.at = "on" => sub.shown = cache

\* The polling loop is never stuck after a shutdown: whether it is in a
\* long-poll, in a login that nobody confirms or blocked on a full channel, it
\* or the dispatcher can go on until it has ended.
ShutdownNotStuck ==
    shutdown /\ pc # "exited" => ENABLED (LoopStep \/ LoginStep \/ DispatcherStep)

\* Messages come in exactly once: within a process none is skipped and none is
\* repeated or overtaken, although the cursor moves before the batch does
\* (run_polling_loop, the channel to the dispatcher).
InboundExact == TypeOK /\ NoGap /\ InOrderOnce

\* What the admin page says is true: connected means accepted, no stale login
\* code is kept, and a page that is open shows the code there is (the relogin
\* bridge task, admin_ilink_qr_stream).
LoginViewTruthful == ConnectedMeansAccepted /\ CodeNotStale /\ VisitorSeesCode

\* No renewal is lost.  No process ever goes back to an older token: a restart
\* finds the token of the last renewal, whatever ILINK_TOKEN says and wherever
\* the last process ended (resolve_token).  And a re-login the administrator
\* asks for is never forgotten, even if requests overflow their channel: only
\* its login, or the end of the process, takes it out of the channel.
RenewalsKept ==
    [][/\ token' # token => token' = NoToken \/ token' >= db
       /\ clicks' < clicks => pc' = "down" \/ login' = Login("manual")]_vars
=============================================================================
