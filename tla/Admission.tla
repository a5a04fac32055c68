----------------------------- MODULE Admission ------------------------------
(***************************************************************************)
(* What a long-poll passes before it is served: the concurrency gate of    *)
(* getupdates (PollTracker), the registry, and the presence of the client  *)
(* (last_seen and the online flag); with the health checker and the        *)
(* removals around them (src/server/routes/bot.rs, src/hub/health.rs,      *)
(* src/server/pairing.rs).                                                 *)
(*                                                                         *)
(* A vtoken is minted once, so one that is registered later is one that    *)
(* is registered here from the start and not used before.  A long-poll     *)
(* lasts at most 55 s, less than the 90 s after which a client counts as   *)
(* gone, so the last_seen of a client does not become stale while one of   *)
(* its polls waits.                                                        *)
(***************************************************************************)
EXTENDS PollTracker

VARIABLES
    registered, \* the vtokens in the registry
    online,     \* ClientInfo.online
    seen,       \* ClientState.last_seen: "none", "fresh" or "stale"
    step,       \* where the handler of a served request is
    already,    \* already_online, as the handler read it
    checker,    \* the health checker: the vtokens it is about to mark
    removing,   \* vtokens that left the registry, their last_seen not yet
    offline     \* history: the client was offline ever since the handler read it

trackerVars  == vars
presenceVars == <<registered, online, seen, step, already, checker, removing, offline>>
admissionVars == <<trackerVars, presenceVars>>

AdmissionInit ==
    /\ Init
    /\ registered = Vtokens
    /\ online = {}
    /\ seen = [v \in Vtokens |-> "none"]
    /\ step = [r \in Requests |-> "none"]
    /\ already = [r \in Requests |-> FALSE]
    /\ checker = {} /\ removing = {}
    /\ offline = [r \in Requests |-> FALSE]
-----------------------------------------------------------------------------
\* The handler runs while its request is in service, and stops when the
\* guard is dropped: at its end, or with the connection at any await.
StepAfter(r) == IF pc'[r] # "serving" THEN "none"
                ELSE IF pc[r] # "serving" THEN "check" ELSE step[r]

Gate == /\ Next
        /\ step' = [r \in Requests |-> StepAfter(r)]
        /\ already' = [r \in Requests |-> already[r] /\ pc'[r] = "serving"]
        /\ offline' = [r \in Requests |-> offline[r] /\ pc'[r] = "serving"]
        /\ UNCHANGED <<registered, online, seen, checker, removing>>

\* getupdates, the existence check: an unknown vtoken is answered with 401.
Check(r) ==
    /\ step[r] = "check"
    /\ LET v == vtoken[r] IN
       IF v \notin registered
       THEN step' = [step EXCEPT ![r] = "answered"] /\ UNCHANGED <<already, offline>>
       ELSE /\ already' = [already EXCEPT ![r] = v \in online]
            /\ offline' = [offline EXCEPT ![r] = v \notin online]
            /\ step' = [step EXCEPT ![r] = "seen"]
    /\ UNCHANGED <<trackerVars, registered, online, seen, checker, removing>>

\* getupdates, the lock-free timestamp.
Bump(r) ==
    /\ step[r] = "seen"
    /\ seen' = [seen EXCEPT ![vtoken[r]] = "fresh"]
    /\ step' = [step EXCEPT ![r] = IF already[r] THEN "wait" ELSE "online"]
    /\ already' = [already EXCEPT ![r] = FALSE]
    /\ UNCHANGED <<trackerVars, registered, online, checker, removing, offline>>

\* The requests of v whose client has been offline since they read its flag.
Noticed(v) == [r \in Requests |-> offline[r] /\ vtoken[r] # v]

\* mark_online, under the write lock; a vtoken that has left is ignored.
MarkOnline(r) ==
    /\ step[r] = "online"
    /\ LET v == vtoken[r] IN
       IF v \in registered THEN online' = online \cup {v} /\ offline' = Noticed(v)
       ELSE UNCHANGED <<online, offline>>
    /\ step' = [step EXCEPT ![r] = "wait"]
    /\ UNCHANGED <<trackerVars, registered, seen, already, checker, removing>>
-----------------------------------------------------------------------------
\* The client has not polled for OFFLINE_THRESHOLD_SECS.
FallsSilent(v) ==
    /\ seen[v] = "fresh"
    /\ ~\E r \in Requests : vtoken[r] = v /\ step[r] \in {"online", "wait"}
    /\ seen' = [seen EXCEPT ![v] = "stale"]
    /\ UNCHANGED <<trackerVars, registered, online, step, already, checker, removing, offline>>

\* The health checker reads the timestamps without a lock.
Collect ==
    /\ checker = {}
    /\ \E v \in Vtokens : seen[v] = "stale"
    /\ checker' = {v \in Vtokens : seen[v] = "stale"}
    /\ UNCHANGED <<trackerVars, registered, online, seen, step, already, removing, offline>>

\* It then takes the write lock and marks the ones it has found.
MarkOffline ==
    /\ checker # {}
    /\ online' = online \ checker
    /\ checker' = {}
    /\ UNCHANGED <<trackerVars, registered, seen, step, already, removing, offline>>
-----------------------------------------------------------------------------
\* Mutant: the timestamp is dropped first, and the registry entry after it.
RemoveSeenFirst(v) ==
    /\ v \in registered
    /\ \/ seen[v] # "none" /\ seen' = [seen EXCEPT ![v] = "none"] /\ UNCHANGED <<registered, online, removing>>
       \/ /\ seen[v] = "none" /\ registered' = registered \ {v} /\ online' = online \ {v}
          /\ removing' = removing \cup {v} /\ UNCHANGED seen
    /\ UNCHANGED <<trackerVars, step, already, checker, offline>>

\* A client is unregistered (with force, also while it is online), its vtoken
\* rotated, or its pairing rolled back: the registry entry goes first.
Remove(v) ==
    /\ v \in registered
    /\ registered' = registered \ {v} /\ online' = online \ {v}
    /\ removing' = removing \cup {v}
    /\ UNCHANGED <<trackerVars, seen, step, already, checker, offline>>

\* The timestamp is dropped after the registry lock.
ForgetSeen(v) ==
    /\ v \in removing
    /\ seen' = [seen EXCEPT ![v] = "none"]
    /\ removing' = removing \ {v}
    /\ UNCHANGED <<trackerVars, registered, online, step, already, checker, offline>>

AdmissionNext ==
    \/ Gate
    \/ \E r \in Requests : Check(r) \/ Bump(r) \/ MarkOnline(r)
    \/ \E v \in Vtokens : FallsSilent(v) \/ Remove(v) \/ ForgetSeen(v)
    \/ Collect \/ MarkOffline

AdmissionSpec == AdmissionInit /\ [][AdmissionNext]_admissionVars
-----------------------------------------------------------------------------
(***************************************************************************)
(* Properties.                                                             *)
(***************************************************************************)

\* An online client has a last_seen timestamp, or the health checker would
\* never find it: getupdates, removals and the checker keep the two in step
\* although they change them under different locks.
OnlineIsTracked == \A v \in online : v \in registered /\ seen[v] # "none"

\* A client is not offline through a whole poll: a checker that took an old
\* timestamp for the truth may mark it offline during the poll, and the next
\* poll brings it back (getupdates reads the flag, mark_online sets it).
OnlineDuringPoll ==
    \A r \in Requests : step[r] = "wait" /\ vtoken[r] \in registered => ~offline[r]

\* Presence follows the polls: online clients are tracked, and a client that
\* polls is brought back (getupdates, spawn_health_checker).
PresenceKept == TypeOK /\ OnlineIsTracked /\ OnlineDuringPoll
=============================================================================
