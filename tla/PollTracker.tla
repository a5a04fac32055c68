----------------------------- MODULE PollTracker ----------------------------
(***************************************************************************)
(* The concurrency gate of getupdates: PollTracker and its PollGuard       *)
(* (src/hub/state.rs) as the handler uses them (src/server/routes/bot.rs). *)
(* Requests run on several threads; every atomic operation on total and    *)
(* every critical section on counts is a step of its own.                  *)
(***************************************************************************)
EXTENDS Integers, FiniteSets

CONSTANTS
    Requests,       \* requests that may be in flight at the same time
    Vtokens,
    HubCap,         \* hub_cap
    MaxPerVtoken    \* MAX_CONCURRENT_POLLS_PER_VTOKEN

ASSUME TrackerConstants ==
    /\ IsFiniteSet(Requests)
    /\ HubCap \in Nat
    /\ MaxPerVtoken \in Nat

VARIABLES
    total,      \* PollTracker.total
    counts,     \* PollTracker.counts, a function on the vtokens it holds
    poisoned,   \* whether the mutex around counts is poisoned
    pc,         \* where each request is
    vtoken,     \* the vtoken each request polls with
    counted     \* whether counts includes the request

vars == <<total, counts, poisoned, pc, vtoken, counted>>

\* "idle": no request; "refused": over the Hub-wide cap, total not yet rolled
\* back; "entered": counted in total; "over": over the per-vtoken cap;
\* "serving": in the handler; "dropping": the guard has decremented total.
States == {"idle", "refused", "entered", "over", "serving", "dropping"}

TypeOK ==
    /\ total \in Nat
    /\ DOMAIN counts \subseteq Vtokens /\ counts \in [DOMAIN counts -> Nat]
    /\ poisoned \in BOOLEAN
    /\ pc \in [Requests -> States]
    /\ vtoken \in [Requests -> Vtokens]
    /\ counted \in [Requests -> BOOLEAN]

Init ==
    /\ total = 0
    /\ counts = [v \in {} |-> 0]
    /\ poisoned = FALSE
    /\ pc = [r \in Requests |-> "idle"]
    /\ vtoken \in [Requests -> Vtokens]
    /\ counted = [r \in Requests |-> FALSE]
-----------------------------------------------------------------------------
\* Mutant: the cap is compared with > instead of >=.
EnterOffByOne(r) ==
    /\ pc[r] = "idle"
    /\ \E v \in Vtokens : vtoken' = [vtoken EXCEPT ![r] = v]
    /\ pc' = [pc EXCEPT ![r] = IF total > HubCap THEN "refused" ELSE "entered"]
    /\ total' = total + 1
    /\ UNCHANGED <<counts, poisoned, counted>>

\* enter: fetch_add and the comparison of the previous total with the cap.
Enter(r) ==
    /\ pc[r] = "idle"
    /\ \E v \in Vtokens : vtoken' = [vtoken EXCEPT ![r] = v]
    /\ pc' = [pc EXCEPT ![r] = IF total >= HubCap THEN "refused" ELSE "entered"]
    /\ total' = total + 1
    /\ UNCHANGED <<counts, poisoned, counted>>

\* enter: the rollback of a refused request, answered with 503.
RollBack(r) ==
    /\ pc[r] = "refused"
    /\ total' = total - 1
    /\ pc' = [pc EXCEPT ![r] = "idle"]
    /\ UNCHANGED <<counts, poisoned, vtoken, counted>>

\* enter on a poisoned mutex: served with the count 0.
EnterPoisoned(r) ==
    /\ pc[r] = "entered" /\ poisoned
    /\ pc' = [pc EXCEPT ![r] = "serving"]
    /\ UNCHANGED <<total, counts, poisoned, vtoken, counted>>

\* The count of v after one more request entered.
Incremented(v) == IF v \in DOMAIN counts THEN counts[v] + 1 ELSE 1

\* enter: the critical section that counts the request under its vtoken, and
\* the handler's comparison of the result with the per-vtoken cap.
Count(r) ==
    /\ pc[r] = "entered" /\ ~poisoned
    /\ LET v == vtoken[r] IN
       /\ counts' = [u \in DOMAIN counts \cup {v} |->
                        IF u = v THEN Incremented(v) ELSE counts[u]]
       /\ pc' = [pc EXCEPT ![r] = IF Incremented(v) > MaxPerVtoken
                                  THEN "over" ELSE "serving"]
    /\ counted' = [counted EXCEPT ![r] = TRUE]
    /\ UNCHANGED <<total, poisoned, vtoken>>

\* The guard is dropped, first half: a request over the cap is answered with
\* 429, a served one returns or its connection closes.
Leave(r) ==
    /\ pc[r] \in {"over", "serving"}
    /\ total' = total - 1
    /\ pc' = [pc EXCEPT ![r] = "dropping"]
    /\ UNCHANGED <<counts, poisoned, vtoken, counted>>

\* Mutant: an entry that reaches 0 stays in the map.
DecrementedKeepsZero(v) ==
    IF v \notin DOMAIN counts THEN counts
    ELSE [counts EXCEPT ![v] = @ - 1]

\* counts after a guard of v was dropped: an entry that reaches 0 is removed.
Decremented(v) ==
    IF v \notin DOMAIN counts THEN counts
    ELSE IF counts[v] <= 1 THEN [u \in DOMAIN counts \ {v} |-> counts[u]]
    ELSE [counts EXCEPT ![v] = @ - 1]

\* The guard is dropped, second half: the critical section on counts.
Uncount(r) ==
    /\ pc[r] = "dropping"
    /\ counts' = IF poisoned THEN counts ELSE Decremented(vtoken[r])
    /\ pc' = [pc EXCEPT ![r] = "idle"]
    /\ counted' = [counted EXCEPT ![r] = FALSE]
    /\ UNCHANGED <<total, poisoned, vtoken>>

\* A thread panics inside a critical section on counts.
Poison ==
    /\ ~poisoned
    /\ poisoned' = TRUE
    /\ UNCHANGED <<total, counts, pc, vtoken, counted>>

Next ==
    \/ \E r \in Requests :
          \/ Enter(r) \/ RollBack(r) \/ EnterPoisoned(r) \/ Count(r)
          \/ Leave(r) \/ Uncount(r)
    \/ Poison

Spec == Init /\ [][Next]_vars
-----------------------------------------------------------------------------
(***************************************************************************)
(* Properties.                                                             *)
(***************************************************************************)
Serving == {r \in Requests : pc[r] = "serving"}
\* Requests whose increment of total has not been undone yet.
Holding == {r \in Requests : pc[r] \in {"refused", "entered", "over", "serving"}}
CountedFor(v) == {r \in Requests : counted[r] /\ vtoken[r] = v}

\* No more than hub_cap long-polls are served at once, although total is
\* incremented before it is compared and rolled back later (enter).
HubCapHolds == Cardinality(Serving) <= HubCap

\* No vtoken has more than MAX_CONCURRENT_POLLS_PER_VTOKEN counted long-polls
\* in service, although total and counts change in separate steps; requests
\* let through on a poisoned mutex are not counted.
VtokenCapHolds ==
    \A v \in Vtokens :
        Cardinality({r \in Serving : counted[r] /\ vtoken[r] = v}) <= MaxPerVtoken

\* Neither counter drifts (enter, PollGuard::drop): total is the number of
\* increments not yet undone whether or not the mutex is poisoned, and counts
\* holds exactly the vtokens with requests, with their number, until it is.
CountersExact ==
    /\ total = Cardinality(Holding)
    /\ ~poisoned =>
          /\ DOMAIN counts = {v \in Vtokens : CountedFor(v) # {}}
          /\ \A v \in DOMAIN counts : counts[v] = Cardinality(CountedFor(v))

\* Both caps hold together, whatever the threads do between the two counters
\* (enter, PollGuard::drop, getupdates).
CapsHold == HubCapHolds /\ VtokenCapHolds
=============================================================================
