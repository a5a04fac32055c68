------------------------------ MODULE Limiters ------------------------------
(***************************************************************************)
(* The in-memory tables the Hub keeps per key and moment: the token        *)
(* buckets of the outbound bot routes (src/hub/rate_limit.rs), the windows *)
(* of pairing confirmations and QR creations (src/server/pairing.rs), and  *)
(* the tickets of the admin event stream (src/server/sse_ticket.rs).       *)
(*                                                                         *)
(* A thread reads the clock before it takes the table's lock, so moments   *)
(* may reach the table out of order.  Moments are kept as ages; an age     *)
(* stops growing where it decides nothing any more.  Each behaviour is     *)
(* about one of the four tables.                                           *)
(***************************************************************************)
EXTENDS Integers, Sequences, FiniteSets, FiniteSetsExt, SequencesExt

CONSTANTS
    Threads,
    Keys,       \* vtokens, (code, ip) pairs, addresses or tickets
    Capacity,   \* BOT_RATE_LIMIT_MAX_ENTRIES and the like
    Rates,      \* configured rates; 0 stands for zero, negative and not finite
    Bursts,     \* configured bursts
    One,        \* one token, in the unit of the rates
    Second,     \* milliseconds in a second
    Window,     \* length of a window, life of a ticket
    QrMax,      \* QR_CREATE_RATE_LIMIT_MAX
    MaxDelay,   \* bound: how long a thread waits for the lock
    MaxOverdraft, \* bound: what a bucket was credited twice before it rests
    Tables      \* the tables explored

VARIABLES
    kind,       \* the table this behaviour is about
    policy,     \* rate_per_sec and burst, as sanitised
    table,      \* key |-> its bucket, or the ages of its attempts
    poisoned,   \* the mutex of the buckets is poisoned
    undrawn,    \* tickets not drawn yet
    thread,     \* what each thread is about to do, and how old its stamp is
    eager,      \* history: a bucket refilled at every tick, charged alike
    exact,      \* history: no request of the bucket waited for the lock
    log,        \* history: ages of the admitted attempts, younger than Window
    accepts,    \* history: how often each ticket was accepted
    lost        \* history: tickets refused although valid and unused

histVars == <<eager, exact, log, accepts, lost>>
vars == <<kind, policy, table, poisoned, undrawn, thread, histVars>>

Idle == [op |-> "idle", key |-> "none", age |-> 0]

\* A zero or non-finite rate becomes 0.001 per second: slow, but not zero.
sanitize_rate(rate) == IF rate > 0 THEN rate ELSE 1

\* At least one token.
sanitize_burst(burst) == IF burst >= One THEN burst ELSE One

\* An age after which a bucket is full and an attempt is out of every window.
MaxAge == Max({policy.burst \div policy.rate + 1, Window}) + MaxDelay

\* set_limits at the start, before the listener accepts.
Init ==
    /\ kind \in Tables
    /\ \E r \in (IF kind = "bucket" THEN Rates ELSE {1}),
          b \in (IF kind = "bucket" THEN Bursts ELSE {One}) :
          policy = [rate |-> sanitize_rate(r), burst |-> sanitize_burst(b)]
    /\ table = << >>
    /\ poisoned = FALSE
    /\ undrawn = Keys
    /\ thread = [t \in Threads |-> Idle]
    /\ eager = [k \in Keys |-> policy.burst]
    /\ exact = [k \in Keys |-> TRUE]
    /\ log = [k \in Keys |-> << >>]
    /\ accepts = [k \in Keys |-> 0]
    /\ lost = {}
-----------------------------------------------------------------------------
(***************************************************************************)
(* Reading the clock.                                                      *)
(***************************************************************************)
Stamp(t, op, k) ==
    /\ thread[t] = Idle
    /\ thread' = [thread EXCEPT ![t] = [op |-> op, key |-> k, age |-> 0]]
    /\ UNCHANGED <<kind, policy, table, poisoned, undrawn, histVars>>

\* An outbound route with a vtoken of the registry (any other is answered with
\* 401 before the limiter is asked); an upstream call follows if admitted.
Outbound(t, k) ==
    /\ kind = "bucket" /\ eager[k] >= -MaxOverdraft
    /\ Stamp(t, "bot", k)

SendTyping(t, k)   == Outbound(t, k)
GetConfig(t, k)    == Outbound(t, k)
GetUploadUrl(t, k) == Outbound(t, k)

\* pair_confirm, get_bot_qrcode and the two admin routes of the stream.
PairConfirm(t, k) == kind = "confirm" /\ Stamp(t, "confirm", k)
GetBotQrcode(t, k) == kind = "qr" /\ Stamp(t, "qr", k)
IssueTicket(t, k) ==
    /\ kind = "ticket" /\ k \in undrawn
    /\ thread[t] = Idle
    /\ thread' = [thread EXCEPT ![t] = [op |-> "issue", key |-> k, age |-> 0]]
    /\ undrawn' = undrawn \ {k}  \* a ticket is drawn once
    /\ UNCHANGED <<kind, policy, table, poisoned, histVars>>
RedeemTicket(t, k) ==
    /\ kind = "ticket" /\ k \notin undrawn
    /\ Stamp(t, "consume", k)
-----------------------------------------------------------------------------
(***************************************************************************)
(* The critical sections.                                                  *)
(***************************************************************************)
Without(f, k) == [j \in DOMAIN f \ {k} |-> f[j]]
With(f, k, v) == [j \in DOMAIN f \cup {k} |-> IF j = k THEN v ELSE f[j]]

\* How long ago, seen from a stamp of age a, an instant of age e was.
Since(e, a) == Max({0, e - a})

\* The age that eviction goes by: of the last request, or of the first attempt.
EntryAge(entry) == IF kind = "bucket" THEN entry.age ELSE entry[1]

\* The table with room for k: at its capacity, it loses one of its oldest
\* entries (any of them: the map has no order).
MakeRoom(tab, k) ==
    IF Cardinality(DOMAIN tab) < Capacity \/ k \in DOMAIN tab THEN {tab}
    ELSE {Without(tab, j) : j \in {i \in DOMAIN tab :
                \A h \in DOMAIN tab : EntryAge(tab[h]) <= EntryAge(tab[i])}}

Refilled(b, a) ==
    Min({policy.burst, b.tokens + Since(b.age, a) * policy.rate})

\* Mutant: a denied request forfeits what the bucket has collected.
ChargedForfeits(b, a) ==
    IF Refilled(b, a) >= One THEN [tokens |-> Refilled(b, a) - One, age |-> a]
    ELSE [tokens |-> 0, age |-> a]

\* The bucket after a request stamped a ago.
Charged(b, a) ==
    IF Refilled(b, a) >= One THEN [tokens |-> Refilled(b, a) - One, age |-> a]
    ELSE [tokens |-> Refilled(b, a), age |-> a]

\* VtokenRateLimiter::check_at.  A bucket that was evicted or is new starts
\* full, and so does its eager twin.
check_at(t) ==
    /\ thread[t].op = "bot" /\ ~poisoned
    /\ LET k == thread[t].key  a == thread[t].age
           known == k \in DOMAIN table
           b == IF known THEN table[k] ELSE [tokens |-> policy.burst, age |-> a]
           e == IF known THEN eager[k] ELSE policy.burst
       IN /\ \E tab \in MakeRoom(table, k) :
                 table' = With(tab, k, Charged(b, a))
          /\ eager' = [j \in Keys |->
                          IF j = k THEN IF Refilled(b, a) >= One THEN e - One ELSE e
                          ELSE IF j \in DOMAIN table' THEN eager[j] ELSE policy.burst]
          /\ exact' = [j \in Keys |->
                          IF j = k THEN (known => exact[k]) /\ a = 0
                          ELSE j \in DOMAIN table' => exact[j]]
    /\ thread' = [thread EXCEPT ![t] = Idle]
    /\ UNCHANGED <<kind, policy, poisoned, undrawn, log, accepts, lost>>

\* A thread panics inside the critical section; the limiter then admits all,
\* and nobody reads the buckets any more.
Poison ==
    /\ kind = "bucket" /\ ~poisoned
    /\ poisoned' = TRUE /\ table' = << >>
    /\ eager' = [k \in Keys |-> policy.burst] /\ exact' = [k \in Keys |-> TRUE]
    /\ UNCHANGED <<kind, policy, undrawn, thread, log, accepts, lost>>

FailOpen(t) ==
    /\ thread[t].op = "bot" /\ poisoned
    /\ thread' = [thread EXCEPT ![t] = Idle]
    /\ UNCHANGED <<kind, policy, table, poisoned, undrawn, histVars>>

\* The attempts of every key that a stamp of age a still sees in the window.
Retained(a) ==
    LET young(s) == SelectSeq(s, LAMBDA e : Since(e, a) < Window)
        kept == [k \in DOMAIN table |-> young(table[k])]
    IN  [k \in {j \in DOMAIN table : kept[j] # << >>} |-> kept[k]]

\* An attempt stamped a ago is recorded, with the entry that made room for it
\* forgotten by the history as well.
Record(tab, k, a) ==
    \E room \in MakeRoom(tab, k) :
        /\ table' = With(room, k, (IF k \in DOMAIN room THEN room[k] ELSE << >>) \o <<a>>)
        /\ log' = [j \in Keys |->
                      IF j \in DOMAIN tab \ DOMAIN room THEN << >>
                      ELSE IF j = k /\ a < Window THEN Append(log[j], a) ELSE log[j]]

\* PairConfirmRateLimiter::check_and_record: one attempt per window.
ConfirmCheck(t) ==
    /\ thread[t].op = "confirm"
    /\ LET k == thread[t].key  a == thread[t].age  kept == Retained(a) IN
       IF k \in DOMAIN kept THEN table' = kept /\ UNCHANGED log
       ELSE Record(kept, k, a)
    /\ thread' = [thread EXCEPT ![t] = Idle]
    /\ UNCHANGED <<kind, policy, poisoned, undrawn, eager, exact, accepts, lost>>

\* Mutant: one creation too many is let through.
QrCheckOffByOne(t) ==
    /\ thread[t].op = "qr"
    /\ LET k == thread[t].key  a == thread[t].age  kept == Retained(a) IN
       IF k \in DOMAIN kept /\ Len(kept[k]) > QrMax THEN table' = kept /\ UNCHANGED log
       ELSE Record(kept, k, a)
    /\ thread' = [thread EXCEPT ![t] = Idle]
    /\ UNCHANGED <<kind, policy, poisoned, undrawn, eager, exact, accepts, lost>>

\* QrCreateRateLimiter::check_and_record: QrMax attempts per window.
QrCheck(t) ==
    /\ thread[t].op = "qr"
    /\ LET k == thread[t].key  a == thread[t].age  kept == Retained(a) IN
       IF k \in DOMAIN kept /\ Len(kept[k]) >= QrMax THEN table' = kept /\ UNCHANGED log
       ELSE Record(kept, k, a)
    /\ thread' = [thread EXCEPT ![t] = Idle]
    /\ UNCHANGED <<kind, policy, poisoned, undrawn, eager, exact, accepts, lost>>

\* SseTicketStore::issue: the expired tickets are dropped, the new one kept.
Issue(t) ==
    /\ thread[t].op = "issue"
    /\ LET k == thread[t].key  a == thread[t].age IN
       /\ table' = With(Retained(a), k, <<a>>)
       /\ log' = [log EXCEPT ![k] = IF a < Window THEN <<a>> ELSE << >>]
    /\ thread' = [thread EXCEPT ![t] = Idle]
    /\ UNCHANGED <<kind, policy, poisoned, undrawn, eager, exact, accepts, lost>>

\* Mutant: the ticket is looked up and left in the map.
ConsumeKeeps(t) ==
    /\ thread[t].op = "consume"
    /\ LET k == thread[t].key  a == thread[t].age
           accepted == k \in DOMAIN table /\ Since(table[k][1], a) < Window
       IN accepts' = [accepts EXCEPT ![k] = IF accepted THEN @ + 1 ELSE @]
    /\ thread' = [thread EXCEPT ![t] = Idle]
    /\ UNCHANGED <<kind, policy, table, poisoned, undrawn, eager, exact, log, lost>>

\* SseTicketStore::consume: the ticket is taken out of the map in any case.
Consume(t) ==
    /\ thread[t].op = "consume"
    /\ LET k == thread[t].key  a == thread[t].age
           accepted == k \in DOMAIN table /\ Since(table[k][1], a) < Window
       IN /\ table' = Without(table, k)
          /\ accepts' = [accepts EXCEPT ![k] = IF accepted THEN @ + 1 ELSE @]
          /\ lost' = IF ~accepted /\ accepts[k] = 0 /\ log[k] # << >> THEN lost \cup {k} ELSE lost
    /\ thread' = [thread EXCEPT ![t] = Idle]
    /\ UNCHANGED <<kind, policy, poisoned, undrawn, eager, exact, log>>
-----------------------------------------------------------------------------
Older(age) == Min({age + 1, MaxAge})

\* A millisecond passes.
Tick ==
    /\ \A t \in Threads : thread[t] # Idle => thread[t].age < MaxDelay
    /\ thread' = [t \in Threads |-> IF thread[t] = Idle THEN Idle
                                    ELSE [thread[t] EXCEPT !.age = @ + 1]]
    /\ table' = [k \in DOMAIN table |->
                    IF kind = "bucket" THEN [table[k] EXCEPT !.age = Older(@)]
                    ELSE [i \in DOMAIN table[k] |-> Older(table[k][i])]]
    /\ eager' = [k \in Keys |-> Min({policy.burst, eager[k] + policy.rate})]
    /\ log' = [k \in Keys |->
                  SelectSeq([i \in DOMAIN log[k] |-> log[k][i] + 1], LAMBDA e : e < Window)]
    /\ UNCHANGED <<kind, policy, poisoned, undrawn, exact, accepts, lost>>

Next ==
    \/ \E t \in Threads, k \in Keys :
          \/ SendTyping(t, k) \/ GetConfig(t, k) \/ GetUploadUrl(t, k)
          \/ PairConfirm(t, k) \/ GetBotQrcode(t, k)
          \/ IssueTicket(t, k) \/ RedeemTicket(t, k)
    \/ \E t \in Threads :
          \/ check_at(t) \/ FailOpen(t) \/ ConfirmCheck(t) \/ QrCheck(t)
          \/ Issue(t) \/ Consume(t)
    \/ Poison \/ Tick

Spec == Init /\ [][Next]_vars
-----------------------------------------------------------------------------
(***************************************************************************)
(* Properties.                                                             *)
(***************************************************************************)
TypeOK ==
    /\ kind \in Tables
    /\ policy \in [rate : Nat \ {0}, burst : Nat]
    /\ DOMAIN table \subseteq Keys
    /\ poisoned \in BOOLEAN
    /\ undrawn \subseteq Keys
    /\ \A t \in Threads : thread[t].age \in 0..MaxDelay
    /\ exact \in [Keys -> BOOLEAN]

\* No table outgrows its capacity, whatever keys arrive and however the stamps
\* are ordered (MakeRoom in the three limiters); tickets have no capacity.
TableBounded == kind # "ticket" => Cardinality(DOMAIN table) <= Capacity

\* The tokens the lazy bucket of k would show now.
Effective(k) == Refilled(table[k], 0)

\* A vtoken is never held to less than its rate: the lazily refilled bucket
\* (check_at) holds at least what one refilled at every tick would, whatever
\* denials lie in between, and exactly that as long as no request of its vtoken
\* had to wait for the lock with its stamp already taken.
RateKept ==
    kind = "bucket" =>
        \A k \in DOMAIN table : /\ Effective(k) >= eager[k]
                                /\ exact[k] => Effective(k) = eager[k]

\* retry_after_secs: milliseconds, rounded up to seconds, at least one.
retry_after_secs(tokens) ==
    LET millis == (One - tokens) \div policy.rate IN
    Max({1, (millis + Second - 1) \div Second})

\* A denied client that waits for the advertised seconds, and one millisecond
\* for the truncation of retry_after, finds a token, whatever limits were
\* configured (sanitize_rate, sanitize_burst, check_at, retry_after_secs).
AdvertisedWait ==
    kind = "bucket" =>
        \A k \in DOMAIN table :
            table[k].tokens < One =>
                Refilled([tokens |-> table[k].tokens,
                          age |-> retry_after_secs(table[k].tokens) * Second + 1], 0) >= One

\* No key has more attempts admitted within a window than its limit, although
\* threads purge the table by stamps that are out of order (ConfirmCheck,
\* QrCheck); a key whose entry was evicted starts anew.
WindowKept ==
    \A k \in Keys : /\ kind = "confirm" => Len(log[k]) <= 1
                    /\ kind = "qr" => Len(log[k]) <= QrMax

\* A ticket opens at most one stream (consume).
TicketOnce == \A k \in Keys : accepts[k] <= 1

\* A ticket that has not expired and was not used is accepted: neither another
\* ticket nor a purge by a late thread takes it away (issue, consume).
TicketHonoured == lost = {}

\* The message bucket keeps both its promises, the rate and the wait (check_at).
BucketKept == RateKept /\ AdvertisedWait

\* The bounded tables and windows of the limiters keep to their limits (the
\* three check functions and their purges).
WindowsKept == TypeOK /\ TableBounded /\ WindowKept

\* A ticket is good for one stream, and it is good for that one (issue, consume).
TicketsKept == TicketOnce /\ TicketHonoured
=============================================================================
