------------------------------- MODULE Pairing ------------------------------
(***************************************************************************)
(* Pairing a client with the Hub: the sessions of PairingRegistry          *)
(* (src/hub/pairing.rs), the QR endpoints, the page and the confirm        *)
(* request (src/server/pairing.rs), and the command-line client that waits *)
(* for its vtoken (src/client/pairing.rs).                                 *)
(*                                                                         *)
(* Time passes in Tick; every entry carries its age, which stops growing   *)
(* once it is past all limits.  Each critical section of the pairing lock  *)
(* or the registry lock is a step.  A session is scanned exactly when it   *)
(* has a CSRF token, so the token is not a field of its own: a confirm     *)
(* request is one that carries it.  Requests refused for their name,       *)
(* origin or token leave no trace and are left out.                        *)
(***************************************************************************)
EXTENDS Integers, FiniteSets, Functions

CONSTANTS
    Clients,        \* command-line clients
    ConfirmRequests, \* confirm requests that may be in flight at once
    Names,          \* client names
    PairingTtl, ScannedTtl, ConfirmedTtl, ClaimWindow,  \* hub/pairing.rs
    PairingDeadline, MaxQrRefresh,                      \* client/pairing.rs
    MaxSessions,    \* MAX_PAIRING_SESSIONS
    MaxCodes,       \* bound: pairing codes ever made
    MaxFaults       \* bound: lost responses, dropped requests, failed
                    \* statements and restarts

ASSUME PairingConstants ==
    /\ PairingTtl \in Nat /\ ScannedTtl \in Nat /\ ConfirmedTtl \in Nat
    /\ ClaimWindow \in Nat /\ PairingDeadline \in Nat
    /\ MaxQrRefresh \in Nat \ {0} /\ MaxSessions \in Nat
    /\ MaxCodes \in Nat  /\ MaxFaults \in Nat
    /\ IsFiniteSet(Clients) /\ IsFiniteSet(ConfirmRequests)

VARIABLES
    sessions,       \* PairingRegistry.sessions
    confirmed,      \* PairingRegistry.confirmed_sessions
    registry,       \* the vtoken of each name
    stored,         \* table clients: the vtoken of each name
    cli,            \* each command-line client
    req,            \* each confirm request
    codes,          \* number of codes made so far
    confirms,       \* history: the pairs of code and vtoken confirmed
    orphans,        \* history: vtokens whose request ended unregistered, or
                    \* whose registration a restart forgot
    faults

pairingVars == <<sessions, confirmed, registry, stored, cli, req, codes,
                 confirms, orphans, faults>>

NoToken == 0
Code == 1..MaxCodes
Token == 1..MaxCodes

Session == [status : {"wait", "scanned"}, age : 0..(PairingTtl + 1),
            scan : 0..(ScannedTtl + 1)]
Confirmed == [vtoken : Token \cup {NoToken}, age : 0..ConfirmedTtl]

\* A client: about to fetch a QR code with POST or, if that fails, with GET;
\* about to poll; its poll at the Hub (before a look at the session, after it,
\* asleep, and before the last look);
\* the response under way; paired or given up.
Answers == [status : {"wait", "scanned", "confirmed", "expired"},
            token : Token \cup {NoToken}]
Cli == [pc : {"fetch", "refetch", "next", "asked", "checked", "waiting",
              "final", "replied", "paired", "failed"},
        code : Code \cup {0}, refresh : 1..MaxQrRefresh,
        waited : 0..PairingDeadline, notified : BOOLEAN, answer : Answers]
\* A confirm request: between pre_check_confirm and confirm, between confirm
\* and the registry, before the row is written, before the roll-back.
Req == [pc : {"idle", "checked", "confirmed", "registered", "rollback"},
        code : Code \cup {0}, name : Names \cup {0}, token : Token \cup {NoToken}]

Waiting == [status |-> "wait", token |-> NoToken]
NewCli == [pc |-> "fetch", code |-> 0, refresh |-> 1, waited |-> 0,
           notified |-> FALSE, answer |-> Waiting]
IdleReq == [pc |-> "idle", code |-> 0, name |-> 0, token |-> NoToken]

Partial(f, S, T) == DOMAIN f \subseteq S /\ f \in [DOMAIN f -> T]

PairingTypeOK ==
    /\ Partial(sessions, Code, Session) /\ Partial(confirmed, Code, Confirmed)
    /\ Partial(registry, Names, Token) /\ Partial(stored, Names, Token)
    /\ cli \in [Clients -> Cli] /\ req \in [ConfirmRequests -> Req]
    /\ codes \in 0..MaxCodes /\ confirms \subseteq Code \X Token
    /\ orphans \subseteq Token /\ faults \in 0..MaxFaults

Empty == [x \in {} |-> 0]

PairingInit ==
    /\ sessions = Empty /\ confirmed = Empty
    /\ registry = Empty /\ stored = Empty
    /\ cli = [k \in Clients |-> NewCli]
    /\ req = [r \in ConfirmRequests |-> IdleReq]
    /\ codes = 0 /\ confirms = {} /\ orphans = {} /\ faults = 0

Put(f, k, v) == [x \in DOMAIN f \cup {k} |-> IF x = k THEN v ELSE f[x]]
Without(f, k) == Restrict(f, DOMAIN f \ {k})
Fault == faults < MaxFaults /\ faults' = faults + 1
-----------------------------------------------------------------------------
(***************************************************************************)
(* PairingRegistry.                                                        *)
(***************************************************************************)
\* should_evict, and is_expired: a scanned session lives by its scan time.
should_evict(s) == IF s.status = "scanned" THEN s.scan > ScannedTtl
                   ELSE s.age > PairingTtl

\* purge_expired, called first by every operation that changes a session.
LiveSessions ==
    Restrict(sessions, {c \in DOMAIN sessions : ~should_evict(sessions[c])})
LiveConfirmed ==
    Restrict(confirmed, {c \in DOMAIN confirmed : confirmed[c].age < ConfirmedTtl})

\* create refuses: TooManySessions.
Full == Cardinality(DOMAIN LiveSessions) + Cardinality(DOMAIN LiveConfirmed)
            >= MaxSessions

\* create: a session with a fresh code.
create(code) ==
    /\ ~Full /\ codes < MaxCodes
    /\ code = codes + 1 /\ codes' = code
    /\ sessions' = Put(LiveSessions, code, [status |-> "wait", age |-> 0, scan |-> 0])
    /\ confirmed' = LiveConfirmed

\* mark_scanned: the first scan of a session starts its short time limit.
mark_scanned(code) ==
    /\ sessions' = IF code \in DOMAIN LiveSessions
                      /\ LiveSessions[code].status = "wait"
                   THEN [LiveSessions EXCEPT ![code].status = "scanned",
                                             ![code].scan = 0]
                   ELSE LiveSessions
    /\ confirmed' = LiveConfirmed

\* What claim_confirmed_vtoken answers: the vtoken of a confirmed session
\* within the claim window, any number of times, and never after it.
ClaimAnswer(code) ==
    IF code \in DOMAIN LiveConfirmed
    THEN [status |-> "confirmed",
          token |-> IF LiveConfirmed[code].age < ClaimWindow
                    THEN LiveConfirmed[code].vtoken ELSE NoToken]
    ELSE [status |-> IF code \in DOMAIN LiveSessions
                     THEN LiveSessions[code].status ELSE "expired",
          token |-> NoToken]

\* claim_confirmed_vtoken: a claim after the window takes the vtoken away.
claim_confirmed_vtoken(code) ==
    /\ sessions' = LiveSessions
    /\ confirmed' = IF code \in DOMAIN LiveConfirmed
                       /\ LiveConfirmed[code].age >= ClaimWindow
                    THEN [LiveConfirmed EXCEPT ![code].vtoken = NoToken]
                    ELSE LiveConfirmed

\* What pre_check_confirm demands of the session, and confirm once more: an
\* unconfirmed live session that was scanned.
Confirmable(code) ==
    /\ code \notin DOMAIN LiveConfirmed
    /\ code \in DOMAIN LiveSessions
    /\ LiveSessions[code].status = "scanned"
-----------------------------------------------------------------------------
(***************************************************************************)
(* The Hub's endpoints.                                                    *)
(***************************************************************************)
\* Mutant: only polls that already sleep are notified.
NotifiedSleepers ==
    [k \in Clients |->
        IF cli[k].pc = "waiting" THEN [cli[k] EXCEPT !.notified = TRUE] ELSE cli[k]]

\* notify_waiters reaches every status poll that has made its Notified.
NotifiedClis ==
    [k \in Clients |->
        IF cli[k].pc \in {"asked", "checked", "waiting", "final"}
        THEN [cli[k] EXCEPT !.notified = TRUE] ELSE cli[k]]

\* notify_waiters, as the endpoints call it.
notify_waiters == cli' = NotifiedClis

\* pair_page: the phone opens the page of a code the Hub knows.
pair_page(code) ==
    /\ code \in DOMAIN sessions \cup DOMAIN confirmed
    /\ mark_scanned(code)
    /\ notify_waiters
    /\ UNCHANGED <<registry, stored, req, codes, confirms, orphans, faults>>

\* pair_confirm up to pre_check_confirm.
PreCheck(r, code, name) ==
    /\ req[r].pc = "idle" /\ code <= codes
    /\ sessions' = LiveSessions /\ confirmed' = LiveConfirmed
    /\ req' = IF Confirmable(code)
              THEN [req EXCEPT ![r] = [IdleReq EXCEPT !.pc = "checked",
                                          !.code = code, !.name = name]]
              ELSE req
    /\ UNCHANGED <<registry, stored, cli, codes, confirms, orphans, faults>>

\* Mutant: a request that lost a race confirms the code again.
ConfirmAgain(r) ==
    /\ req[r].pc = "checked"
    /\ LET code == req[r].code
           token == Cardinality(confirms) + 1
       IN  /\ code \in DOMAIN LiveConfirmed \/ Confirmable(code)
           /\ sessions' = Without(LiveSessions, code)
           /\ confirmed' = Put(LiveConfirmed, code, [vtoken |-> token, age |-> 0])
           /\ confirms' = confirms \cup {<<code, token>>}
           /\ req' = [req EXCEPT ![r].pc = "confirmed", ![r].token = token]
    /\ UNCHANGED <<registry, stored, cli, codes, orphans, faults>>

\* pair_confirm: confirm under the pairing lock, with a fresh vtoken.
Confirm(r) ==
    /\ req[r].pc = "checked"
    /\ LET code == req[r].code
           token == Cardinality(confirms) + 1
       IN  IF Confirmable(code)
           THEN /\ sessions' = Without(LiveSessions, code)
                /\ confirmed' = Put(LiveConfirmed, code, [vtoken |-> token, age |-> 0])
                /\ confirms' = confirms \cup {<<code, token>>}
                /\ req' = [req EXCEPT ![r].pc = "confirmed", ![r].token = token]
           ELSE /\ sessions' = IF code \in DOMAIN LiveConfirmed THEN LiveSessions
                               ELSE Without(LiveSessions, code)
                /\ confirmed' = LiveConfirmed
                /\ req' = [req EXCEPT ![r] = IdleReq]
                /\ UNCHANGED confirms
    /\ UNCHANGED <<registry, stored, cli, codes, orphans, faults>>

\* register_confirmed_client_in_hub: a name already taken is refused.
Register(r) ==
    /\ req[r].pc = "confirmed"
    /\ IF req[r].name \in DOMAIN registry
       THEN req' = [req EXCEPT ![r].pc = "rollback"] /\ UNCHANGED registry
       ELSE /\ registry' = Put(registry, req[r].name, req[r].token)
            /\ req' = [req EXCEPT ![r].pc = "registered"]
    /\ UNCHANGED <<sessions, confirmed, stored, cli, codes, confirms, orphans, faults>>

\* upsert_client, which may fail, and the end of a successful pair_confirm.
Upsert(r) ==
    /\ req[r].pc = "registered"
    /\ \/ stored' = Put(stored, req[r].name, req[r].token) /\ UNCHANGED faults
       \/ Fault /\ UNCHANGED stored
    /\ notify_waiters
    /\ req' = [req EXCEPT ![r] = IdleReq]
    /\ UNCHANGED <<sessions, confirmed, registry, codes, confirms, orphans>>

\* pair_confirm after NameCollision: remove_confirmed.
RollBackConfirm(r) ==
    /\ req[r].pc = "rollback"
    /\ confirmed' = Without(confirmed, req[r].code)
    /\ orphans' = orphans \cup {req[r].token}
    /\ req' = [req EXCEPT ![r] = IdleReq]
    /\ UNCHANGED <<sessions, registry, stored, cli, codes, confirms, faults>>

\* The phone's connection closes: its handler is dropped where it stands.
RequestDropped(r) ==
    /\ req[r].pc # "idle" /\ Fault
    /\ orphans' = IF req[r].pc \in {"confirmed", "rollback"}
                  THEN orphans \cup {req[r].token} ELSE orphans
    /\ req' = [req EXCEPT ![r] = IdleReq]
    /\ UNCHANGED <<sessions, confirmed, registry, stored, cli, codes, confirms>>

\* The Hub restarts: sessions are gone, clients come from the table, and
\* polls in flight fail.
Restart ==
    /\ Fault
    /\ sessions' = Empty /\ confirmed' = Empty
    /\ registry' = stored /\ UNCHANGED stored
    /\ orphans' = orphans \cup (Range(registry) \ Range(stored))
                     \cup ({req[r].token : r \in ConfirmRequests}
                              \ (Range(stored) \cup {NoToken}))
    /\ req' = [r \in ConfirmRequests |-> IdleReq]
    /\ cli' = [k \in Clients |->
          IF cli[k].pc \in {"asked", "checked", "waiting", "final", "replied"}
          THEN [cli[k] EXCEPT !.pc = "next", !.answer = Waiting,
                              !.notified = FALSE] ELSE cli[k]]
    /\ UNCHANGED <<codes, confirms>>
-----------------------------------------------------------------------------
(***************************************************************************)
(* The command-line client and the status poll that serves it.             *)
(***************************************************************************)
MoveCli(k, step) == cli' = [cli EXCEPT ![k].pc = step]
GiveUp == [NewCli EXCEPT !.pc = "failed"]

\* fetch_qrcode: a session is made and its code arrives.
FetchQr(k) ==
    /\ cli[k].pc \in {"fetch", "refetch"}
    /\ \E code \in Code :
          /\ create(code)
          /\ cli' = [cli EXCEPT ![k].pc = "next", ![k].code = code,
                                ![k].waited = 0]
    /\ UNCHANGED <<registry, stored, req, confirms, orphans, faults>>

\* fetch_qrcode: the Hub has no room, which ends the pairing.
FetchRefused(k) ==
    /\ cli[k].pc \in {"fetch", "refetch"} /\ Full
    /\ sessions' = LiveSessions /\ confirmed' = LiveConfirmed
    /\ cli' = [cli EXCEPT ![k] = GiveUp]
    /\ UNCHANGED <<registry, stored, req, codes, confirms, orphans, faults>>

\* fetch_qrcode: the response of the POST is lost and the session with it; the
\* GET that follows makes another one.  A lost GET ends the pairing.
FetchLost(k) ==
    /\ cli[k].pc \in {"fetch", "refetch"} /\ Fault
    /\ \E code \in Code : create(code)
    /\ IF cli[k].pc = "fetch" THEN MoveCli(k, "refetch")
       ELSE cli' = [cli EXCEPT ![k] = GiveUp]
    /\ UNCHANGED <<registry, stored, req, confirms, orphans>>

\* poll_until_confirmed: the next request, unless the deadline is over.
AskStatus(k) ==
    /\ cli[k].pc = "next"
    /\ cli' = IF cli[k].waited >= PairingDeadline
              THEN [cli EXCEPT ![k] = GiveUp]
              ELSE [cli EXCEPT ![k].pc = "asked", ![k].notified = FALSE]
    /\ UNCHANGED <<sessions, confirmed, registry, stored, req, codes, confirms,
                   orphans, faults>>

\* get_qrcode_status: one turn of the loop; anything but "wait" is answered.
Claim(k) ==
    /\ cli[k].pc \in {"asked", "final"}
    /\ LET answer == ClaimAnswer(cli[k].code)
           over == answer.status # "wait" \/ cli[k].pc = "final"
       IN  cli' = [cli EXCEPT ![k].pc = IF over THEN "replied" ELSE "checked",
                              ![k].answer = IF over THEN answer ELSE Waiting,
                              ![k].notified = IF over THEN FALSE ELSE @]
    /\ claim_confirmed_vtoken(cli[k].code)
    /\ UNCHANGED <<registry, stored, req, codes, confirms, orphans, faults>>

\* get_qrcode_status: the select begins to wait.
Park(k) ==
    /\ cli[k].pc = "checked"
    /\ MoveCli(k, "waiting")
    /\ UNCHANGED <<sessions, confirmed, registry, stored, req, codes, confirms,
                   orphans, faults>>

\* Mutant: the select has no deadline.
WakePollNotifiedOnly(k) ==
    /\ cli[k].pc = "waiting" /\ cli[k].notified
    /\ cli' = [cli EXCEPT ![k].pc = "asked", ![k].notified = FALSE]
    /\ UNCHANGED <<sessions, confirmed, registry, stored, req, codes, confirms,
                   orphans, faults>>

\* get_qrcode_status: the select wakes by notification or at the deadline.
WakePoll(k) ==
    /\ cli[k].pc = "waiting"
    /\ \/ /\ cli[k].notified
          /\ cli' = [cli EXCEPT ![k].pc = "asked", ![k].notified = FALSE]
       \/ MoveCli(k, "final")
    /\ UNCHANGED <<sessions, confirmed, registry, stored, req, codes, confirms,
                   orphans, faults>>

\* poll_until_confirmed and pair_with_qr: where an answer leads.  A confirmed
\* answer needs its token; an expired code is replaced MAX_QR_REFRESH times.
AfterAnswer(c) ==
    CASE c.answer.status \in {"wait", "scanned"} -> "next"
      [] c.answer.status = "confirmed" ->
            IF c.answer.token # NoToken THEN "paired" ELSE "failed"
      [] OTHER -> IF c.refresh = MaxQrRefresh THEN "failed" ELSE "fetch"

Receive(k) ==
    /\ cli[k].pc = "replied"
    /\ LET c == cli[k]
           step == AfterAnswer(c)
       IN  cli' = [cli EXCEPT ![k] =
              CASE step = "failed" -> GiveUp
                [] step = "paired" -> [NewCli EXCEPT !.pc = "paired",
                                          !.code = c.code, !.answer = c.answer]
                [] step = "fetch" -> [NewCli EXCEPT !.refresh = c.refresh + 1]
                [] OTHER -> [c EXCEPT !.pc = step, !.answer = Waiting]]
    /\ UNCHANGED <<sessions, confirmed, registry, stored, req, codes, confirms,
                   orphans, faults>>

\* The response is lost: the client tries again.
LoseAnswer(k) ==
    /\ cli[k].pc = "replied" /\ Fault
    /\ cli' = [cli EXCEPT ![k].pc = "next", ![k].answer = Waiting]
    /\ UNCHANGED <<sessions, confirmed, registry, stored, req, codes, confirms,
                   orphans>>

Older(age, limit) == IF age < limit THEN age + 1 ELSE age

\* Time passes for everybody.
Tick ==
    /\ sessions' = [c \in DOMAIN sessions |-> [sessions[c] EXCEPT
          !.age = Older(@, PairingTtl + 1),
          !.scan = IF sessions[c].status = "scanned"
                   THEN Older(@, ScannedTtl + 1) ELSE @]]
    /\ confirmed' = [c \in DOMAIN confirmed |->
          [confirmed[c] EXCEPT !.age = Older(@, ConfirmedTtl)]]
    /\ cli' = [k \in Clients |->
          IF cli[k].pc \in {"next", "asked", "checked", "waiting", "final",
                           "replied"}
          THEN [cli[k] EXCEPT !.waited = Older(@, PairingDeadline)] ELSE cli[k]]
    /\ UNCHANGED <<registry, stored, req, codes, confirms, orphans, faults>>

CliStep(k) == FetchQr(k) \/ FetchRefused(k) \/ AskStatus(k) \/ Claim(k)
                 \/ Park(k) \/ WakePoll(k) \/ Receive(k)

PairingNext ==
    \/ \E k \in Clients : CliStep(k) \/ FetchLost(k) \/ LoseAnswer(k)
    \/ \E code \in Code : pair_page(code)
    \/ \E r \in ConfirmRequests :
          \/ \E code \in Code, name \in Names : PreCheck(r, code, name)
          \/ Confirm(r) \/ Register(r) \/ Upsert(r) \/ RollBackConfirm(r)
          \/ RequestDropped(r)
    \/ Restart
    \/ Tick

\* Time passes and the tasks of the client and of its polls are scheduled;
\* nothing is assumed of the phone.
PairingFairness == WF_pairingVars(Tick) /\ \A k \in Clients : WF_pairingVars(CliStep(k))

PairingSpec == PairingInit /\ [][PairingNext]_pairingVars /\ PairingFairness
-----------------------------------------------------------------------------
(***************************************************************************)
(* Properties.                                                             *)
(***************************************************************************)
\* The session maps stay within MAX_PAIRING_SESSIONS together, although only
\* create looks at the cap and confirm moves sessions from one to the other.
SessionsBounded ==
    /\ Cardinality(DOMAIN sessions) + Cardinality(DOMAIN confirmed) <= MaxSessions
    /\ DOMAIN sessions \cap DOMAIN confirmed = {}

\* No status poll sleeps through the scan of its code (get_qrcode_status makes
\* its Notified before it looks at the session).
NoLostScan ==
    \A k \in Clients :
        (cli[k].pc = "waiting" /\ cli[k].code \in DOMAIN sessions
            /\ sessions[cli[k].code].status # "wait")
        => cli[k].notified

\* Of the requests that race to confirm a code one wins, and a client is
\* paired with the vtoken of that request and no other.
PairedWithOwnCode ==
    \A k \in Clients : cli[k].pc = "paired" =>
        {p \in confirms : p[1] = cli[k].code}
            = {<<cli[k].code, cli[k].answer.token>>}

\* A client's vtoken is registered, or its request is still at work, or the
\* request ended without registering it, or a restart forgot it.
PairedAccountedFor ==
    \A k \in Clients : cli[k].pc = "paired" =>
        \/ cli[k].answer.token \in Range(registry) \cup orphans
        \/ \E r \in ConfirmRequests : req[r].token = cli[k].answer.token

\* Every pairing ends: the client is paired or gives up, whatever is lost and
\* however the phone behaves (pair_with_qr, poll_until_confirmed).
PairingEnds == \A k \in Clients : <>(cli[k].pc \in {"paired", "failed"})

\* A pairing comes out right whatever races, expires or fails: the session maps
\* are well formed and within their cap, one request wins each code, and the
\* vtoken of a paired client is accounted for (create, confirm, pair_confirm).
PairingSound == PairingTypeOK /\ SessionsBounded /\ PairedWithOwnCode /\ PairedAccountedFor
=============================================================================
