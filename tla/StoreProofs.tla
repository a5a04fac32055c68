----------------------------- MODULE StoreProofs ----------------------------
(***************************************************************************)
(* Proofs for any processes on one database, whatever they find and        *)
(* wherever they die: the instance guard is held by the one hub that runs, *)
(* the migrations leave a database migrated as a whole, and the retention  *)
(* sweep removes the expired rows and no others.                           *)
(*                                                                         *)
(* GuardExact is not inductive: that two hubs do not run past the guard    *)
(* follows from there being one lock only if whoever is past the guard     *)
(* still holds it, which in turn fails once a connection is lost.          *)
(*                                                                         *)
(* Nor is MigrationsComplete: what a commit publishes was built step by    *)
(* step in the writer's copy, so that copy must be sound at every version, *)
(* for which the versions recorded must be an initial segment, every walk  *)
(* must have seen the versions it has passed, a client that was found must *)
(* still be there in the clear before v8, and the oldest row of a peer     *)
(* must survive v6 before v7 chooses it.  SweepExact needs in addition     *)
(* that the copy holds the rows of the committed database, since a commit  *)
(* replaces them, and that no sweep looks ahead of the clock.              *)
(***************************************************************************)
EXTENDS StoreLifecycle, FiniteSetTheorems, NaturalsInduction, WellFoundedInduction, TLAPS

PastGuard(p) == pc[p] \in {"token", "scan", "serving"} /\ role[p] = "serve"

GuardInv ==
  /\ pc \in [Procs -> {"down", "create", "walk", "guard", "token", "scan", "serving"}]
  /\ role \in [Procs -> {"serve", "login"}]
  /\ guard \subseteq Procs
  /\ lost \in Nat
  /\ \A p \in Procs : pc[p] \in {"guard", "token", "serving"} => role[p] = "serve"
  /\ \A p \in guard : PastGuard(p)
  /\ \A p, q \in guard : p = q
  /\ lost = 0 => \A p \in Procs : PastGuard(p) => p \in guard

\* It holds before the first process starts.
LEMMA GuardInit == Init => GuardInv
<1> SUFFICES ASSUME Init PROVE GuardInv
  OBVIOUS
<1>1. /\ pc = [p \in Procs |-> "down"] /\ role = [p \in Procs |-> "serve"]
      /\ guard = {} /\ lost = 0
  BY Zenon DEF Init
<1> QED
  BY <1>1, Zenon DEF GuardInv, PastGuard

\* A process that ends gives its lock back (the kernel, or the database, does).
LEMMA EndsKeeps ==
  ASSUME GuardInv, NEW p \in Procs, Ends(p), lost' = lost
  PROVE  GuardInv'
  BY Zenon DEF GuardInv, PastGuard, Ends

\* The steps up to the guard, and those of resolve_token behind it.
LEMMA StartupKeeps ==
  ASSUME GuardInv, NEW p \in Procs, Startup(p)
  PROVE  GuardInv'
<1>1. CASE Start(p)
  BY <1>1 DEF Start, GuardInv, PastGuard, faultVars
<1>2. CASE ensure_sqlite_file(p)
  BY <1>2, Zenon DEF ensure_sqlite_file, GuardInv, PastGuard, faultVars
<1>3. CASE LockForClaim(p) \/ SkipVersions(p) \/ ApplyVersion(p)
  <2>1. UNCHANGED <<pc, role, guard, lost>>
    BY <1>3, Zenon DEF LockForClaim, SkipVersions, ApplyVersion, procVars, faultVars
  <2> QED
    BY <2>1, Zenon DEF GuardInv, PastGuard
<1>4. CASE CommitWalk(p)
  BY <1>4, Zenon DEF CommitWalk, GuardInv, PastGuard, faultVars
<1>5. CASE AcquireGuard(p)
  BY <1>5 DEF AcquireGuard, LockFree, GuardInv, PastGuard, faultVars
<1>6. CASE LoadToken(p)
  BY <1>6, Zenon DEF LoadToken, GuardInv, PastGuard, faultVars
<1>7. CASE Busy(p) \/ GuardConflict(p) \/ TokenUnreadable(p)
  <2>1. Ends(p) /\ lost' = lost
    BY <1>7, Zenon DEF Busy, GuardConflict, TokenUnreadable, faultVars
  <2> QED
    BY <2>1, EndsKeeps, Zenon
<1>8. CASE save_credentials(p)
  <2>1. CASE Ends(p)
    BY <1>8, <2>1, EndsKeeps, Zenon DEF save_credentials, faultVars
  <2>2. CASE ~Ends(p)
    BY <1>8, <2>2, Zenon DEF save_credentials, GuardInv, PastGuard, faultVars
  <2> QED
    BY <2>1, <2>2, Zenon
<1> QED
  BY <1>1, <1>2, <1>3, <1>4, <1>5, <1>6, <1>7, <1>8, Zenon DEF Startup

\* A lost connection frees the lock while its hub runs on.
LEMMA LoseGuardKeeps ==
  ASSUME GuardInv, NEW p \in Procs, LoseGuard(p)
  PROVE  GuardInv'
<1>1. /\ guard' = guard \ {p} /\ lost' = lost + 1
      /\ UNCHANGED <<pc, role>>
  BY Zenon DEF LoseGuard, procVars
<1>2. lost' \in Nat /\ lost' # 0
  <2>1. lost \in Nat
    BY Zenon DEF GuardInv
  <2> QED
    BY <1>1, <2>1
<1> QED
  BY <1>1, <1>2, Zenon DEF GuardInv, PastGuard

\* The inductive invariant of the guard.
THEOREM GuardInvariance == Spec => []GuardInv
<1>1. GuardInv /\ [Next]_vars => GuardInv'
  <2> SUFFICES ASSUME GuardInv, [Next]_vars PROVE GuardInv'
    OBVIOUS
  <2>1. ASSUME NEW p \in Procs, Startup(p) PROVE GuardInv'
    BY <2>1, StartupKeeps, Zenon
  <2>2. ASSUME NEW p \in Procs, LoseGuard(p) PROVE GuardInv'
    BY <2>2, LoseGuardKeeps, Zenon
  <2>3. ASSUME NEW p \in Procs, Stop(p) \/ Dies(p) PROVE GuardInv'
    <3>1. Ends(p) /\ lost' = lost
      BY <2>3, Zenon DEF Stop, Dies, faultVars
    <3> QED
      BY <3>1, EndsKeeps, Zenon
  <2>4. ASSUME UNCHANGED <<pc, role, guard, lost>> PROVE GuardInv'
    BY <2>4, Zenon DEF GuardInv, PastGuard
  <2>5. ASSUME NEW p \in Procs,
               save_message(p) \/ set_active_session(p) \/ BeginSweep(p)
                 \/ sweep_expired(p) \/ SweepFails(p)
        PROVE  GuardInv'
    <3>1. UNCHANGED <<pc, role, guard, lost>>
      BY <2>5, Zenon DEF save_message, set_active_session, BeginSweep, sweep_expired,
                  SweepFails, procVars, faultVars
    <3> QED
      BY <3>1, <2>4, Zenon
  <2>6. CASE Tick \/ UNCHANGED vars
    <3>1. UNCHANGED <<pc, role, guard, lost>>
      BY <2>6, Zenon DEF Tick, vars, procVars, faultVars
    <3> QED
      BY <3>1, <2>4, Zenon
  <2> QED
    BY <2>1, <2>2, <2>3, <2>5, <2>6, Zenon DEF Next
<1> QED
  BY <1>1, GuardInit, PTL DEF Spec

\* As long as no lock connection is lost one hub at most is past
\* acquire_instance_guard, and a lock is never left behind by one that ended.
THEOREM GuardHeldByRunner == Spec => []GuardExact
<1>1. GuardInv => GuardExact
  <2> SUFFICES ASSUME GuardInv PROVE OneHub /\ LockHolderRuns
    BY Zenon DEF GuardExact
  <2>1. LockHolderRuns
    BY Zenon DEF GuardInv, LockHolderRuns, PastGuard
  <2>2. OneHub
    BY Zenon DEF GuardInv, OneHub, PastGuard
  <2> QED
    BY <2>1, <2>2, Zenon
<1> QED
  BY <1>1, GuardInvariance, PTL

-----------------------------------------------------------------------------
(* The inductive invariant of the migrations and of the sweep. *)

IsDatabase(d) ==
  d = [versions |-> d.versions, schema |-> d.schema, clients |-> d.clients,
       routing |-> d.routing, peers |-> d.peers, cred |-> d.cred,
       messages |-> d.messages, sessions |-> d.sessions]

Forms == {"bare", "peer", "group", "empty"}

RowsTyped(d) ==
  /\ IsDatabase(d)
  /\ d.cred \in {"none", "plain", "sealed"}
  /\ DOMAIN d.peers \subseteq Nat
  /\ d.peers \in [DOMAIN d.peers -> Users \X Forms]
  /\ IsFiniteSet(d.messages) /\ IsFiniteSet(d.sessions)
  /\ \A m \in d.messages :
        /\ m = [id |-> m.id, vt |-> m.vt, at |-> m.at]
        /\ m.id \in MessageIds /\ m.at \in 0..MaxNow
  /\ \A s \in d.sessions : s.key \in SessionKeys /\ s.at \in 0..MaxNow

\* The versions recorded are an initial segment and the schema is theirs.
Segment(d) ==
  /\ \E n \in 0..Latest : d.versions = 1..n
  /\ d.schema = SchemaOf(d.versions)

\* The oldest conversation of a peer is that of the database found, and from
\* v7 on it is the only one.
PeersKept(d, o) ==
  /\ 6 \in d.versions => \A r \in DOMAIN d.peers : d.peers[r][2] # "bare"
  /\ 7 \notin d.versions => \A u \in Users : Oldest(d.peers, u) = o.oldest[u]
  /\ 7 \in d.versions =>
       \A u \in Users : {r \in DOMAIN d.peers : d.peers[r] = <<u, "peer">>} = o.oldest[u]

\* Until v8 a client that was found is there in the clear, so that v8 converts.
SecretsKept(d, o) ==
  o.client =>
    /\ 8 \notin d.versions => \E t \in d.clients : ~is_vtoken_hash(t)
    /\ 8 \in d.versions =>
         /\ \A t \in d.clients \cup d.routing \cup {m.vt : m \in d.messages} : is_vtoken_hash(t)
         /\ d.cred # "plain"

Sound(d, o) == RowsTyped(d) /\ Segment(d) /\ PeersKept(d, o) /\ SecretsKept(d, o)

Stamps(d) == {<<m.id, m.at>> : m \in d.messages}

\* The walk of the writer has lost no row, and every walk has seen the versions
\* it has passed.
WalkInv ==
  /\ writer \in Procs \cup {None}
  /\ pc \in [Procs -> {"down", "create", "walk", "guard", "token", "scan", "serving"}]
  /\ next \in [Procs -> 1..(Latest + 1)]
  /\ Sound(db, origin)
  /\ writer = None => work = EmptyDatabase
  /\ writer # None =>
       /\ Sound(work, origin)
       /\ Stamps(work) = Stamps(db)
       /\ work.sessions = db.sessions
  /\ \A p \in Procs : 1..(next[p] - 1) \subseteq Seen(p).versions

\* A sweep never looks ahead of the clock, and only a serving hub has one.
\* A row that is stored goes into a converted database.
SweepInv ==
  /\ kind \in Kinds /\ file \in BOOLEAN
  /\ role \in [Procs -> {"serve", "login"}]
  /\ conf \in [Procs -> Settings \cup {NoSettings}]
  /\ now \in 0..MaxNow
  /\ sweep \in [Procs -> [phase : Phases, cutoff : 0..MaxNow]]
  /\ \A p \in Procs :
       /\ sweep[p].cutoff <= now
       /\ pc[p] # "serving" => sweep[p] = IdleSweep
       /\ pc[p] \in {"guard", "token", "scan", "serving"} => db.versions = 1..Latest
  /\ SweptClean

-----------------------------------------------------------------------------
(* The migrations, one version at a time. *)

\* The tables that later versions extend exist once their version is recorded.
LEMMA TablesExist ==
  ASSUME NEW n \in 0..Latest
  PROVE  /\ n >= 1 => "clients" \in SchemaOf(1..n)
         /\ n >= 2 => {"active_sessions", "backend_sessions_v2"} \subseteq SchemaOf(1..n)
         /\ n >= 5 => "messages" \in SchemaOf(1..n)
<1>1. n >= 1 => 1 \in 1..n /\ "clients" \in ObjectsOf[1]
  BY DEF ObjectsOf, Latest
<1>2. n >= 2 => 2 \in 1..n /\ {"active_sessions", "backend_sessions_v2"} \subseteq ObjectsOf[2]
  BY DEF ObjectsOf, Latest
<1>3. n >= 5 => 5 \in 1..n /\ "messages" \in ObjectsOf[5]
  BY DEF ObjectsOf, Latest
<1> QED
  BY <1>1, <1>2, <1>3, Zenon DEF SchemaOf

\* One more version adds its objects.
LEMMA SchemaGrows ==
  ASSUME NEW v \in 1..Latest
  PROVE  SchemaOf((1..(v - 1)) \cup {v}) = SchemaOf(1..(v - 1)) \cup ObjectsOf[v]
  BY Zenon DEF SchemaOf

\* A version that only adds tables, columns or indexes adds all of its objects
\* and touches no row.
LEMMA SchemaVersion ==
  ASSUME NEW v \in 1..Latest, v \notin {6, 7, 8},
         NEW d, IsDatabase(d), d.schema = SchemaOf(1..(v - 1))
  PROVE  Migrated(v, d) = [d EXCEPT !.schema = @ \cup ObjectsOf[v]]
<1>1. CASE v = 1
  BY <1>1 DEF Migrated, MigrateToV1, Create, ObjectsOf, Latest
<1>2. CASE v = 2
  BY <1>2 DEF Migrated, MigrateToV2, Create, ObjectsOf, Latest
<1>3. CASE v = 3
  BY <1>3 DEF Migrated, MigrateToV3, Create, ObjectsOf, Latest
<1>4. CASE v = 4
  BY <1>4 DEF Migrated, MigrateToV4, Create, ObjectsOf, Latest
<1>5. CASE v = 5
  BY <1>5 DEF Migrated, MigrateToV5, Create, ObjectsOf, Latest
<1>6. ASSUME NEW t, NEW o, t \in d.schema, ObjectsOf[v] = {o}, Migrated(v, d) = AddTo(d, t, o)
      PROVE  Migrated(v, d) = [d EXCEPT !.schema = @ \cup ObjectsOf[v]]
  BY <1>6, Zenon DEF AddTo, Create
<1>9. CASE v = 9
  <2>1. "messages" \in d.schema
    BY <1>9, TablesExist DEF Latest
  <2>2. ObjectsOf[v] = {"idx_messages_lookup"}
    BY <1>9 DEF ObjectsOf, Latest
  <2>3. Migrated(v, d) = AddTo(d, "messages", "idx_messages_lookup")
    BY <1>9 DEF Migrated, MigrateToV9
  <2> QED
    BY <1>6, <2>1, <2>2, <2>3, Zenon
<1>10. CASE v = 10
  <2>1. "clients" \in d.schema
    BY <1>10, TablesExist DEF Latest
  <2>2. ObjectsOf[v] = {"clients.persona"}
    BY <1>10 DEF ObjectsOf, Latest
  <2>3. Migrated(v, d) = AddTo(d, "clients", "clients.persona")
    BY <1>10 DEF Migrated, MigrateToV10
  <2> QED
    BY <1>6, <2>1, <2>2, <2>3, Zenon
<1>11. CASE v = 11
  <2>1. "active_sessions" \in d.schema
    BY <1>11, TablesExist DEF Latest
  <2>2. ObjectsOf[v] = {"active_sessions.a2a_depth"}
    BY <1>11 DEF ObjectsOf, Latest
  <2>3. Migrated(v, d) = AddTo(d, "active_sessions", "active_sessions.a2a_depth")
    BY <1>11 DEF Migrated, MigrateToV11
  <2> QED
    BY <1>6, <2>1, <2>2, <2>3, Zenon
<1>12. CASE v = 12
  <2>1. "clients" \in d.schema
    BY <1>12, TablesExist DEF Latest
  <2>2. ObjectsOf[v] = {"clients.description"}
    BY <1>12 DEF ObjectsOf, Latest
  <2>3. Migrated(v, d) = AddTo(d, "clients", "clients.description")
    BY <1>12 DEF Migrated, MigrateToV12
  <2> QED
    BY <1>6, <2>1, <2>2, <2>3, Zenon
<1>13. CASE v = 13
  <2>1. "messages" \in d.schema
    BY <1>13, TablesExist DEF Latest
  <2>2. ObjectsOf[v] = {"messages.ilink_msg_id"}
    BY <1>13 DEF ObjectsOf, Latest
  <2>3. Migrated(v, d) = AddTo(d, "messages", "messages.ilink_msg_id")
    BY <1>13 DEF Migrated, MigrateToV13
  <2> QED
    BY <1>6, <2>1, <2>2, <2>3, Zenon
<1>14. CASE v = 14
  <2>1. "backend_sessions_v2" \in d.schema
    BY <1>14, TablesExist DEF Latest
  <2>2. ObjectsOf[v] = {"backend_sessions_v2.last_usage_json"}
    BY <1>14 DEF ObjectsOf, Latest
  <2>3. Migrated(v, d) = AddTo(d, "backend_sessions_v2", "backend_sessions_v2.last_usage_json")
    BY <1>14 DEF Migrated, MigrateToV14
  <2> QED
    BY <1>6, <2>1, <2>2, <2>3, Zenon
<1>15. CASE v = 15
  <2>1. "active_sessions" \in d.schema
    BY <1>15, TablesExist DEF Latest
  <2>2. ObjectsOf[v] = {"active_sessions.expires_at"}
    BY <1>15 DEF ObjectsOf, Latest
  <2>3. Migrated(v, d) = AddTo(d, "active_sessions", "active_sessions.expires_at")
    BY <1>15 DEF Migrated, MigrateToV15
  <2> QED
    BY <1>6, <2>1, <2>2, <2>3, Zenon
<1> QED
  BY <1>1, <1>2, <1>3, <1>4, <1>5, <1>9, <1>10, <1>11, <1>12, <1>13, <1>14, <1>15 DEF Latest

\* The oldest row exists.
LEMMA MinOfRows ==
  ASSUME NEW S, S \subseteq Nat, S # {}
  PROVE  Min(S) \in S /\ \A y \in S : Min(S) <= y
<1> DEFINE R == {ss \in Nat \X Nat : ss[1] < ss[2]}
<1>1. IsWellFoundedOn(R, Nat)
  BY NatLessThanWellFounded, Zenon DEF OpToRel
<1>2. \E x \in S : \A y \in S : <<y, x>> \notin R
  <2> HIDE DEF R
  <2> QED
    BY <1>1, WFMin, Zenon
<1>3. \A x, y \in Nat : <<y, x>> \notin R => x <= y
  OBVIOUS
<1>4. \E x \in S : \A y \in S : x <= y
  BY <1>2, <1>3, Zenon
<1> QED
  BY <1>4, Zenon DEF Min

\* v6 gives the bare peers their prefix and keeps the oldest row of each.
LEMMA CanonicalPeers ==
  ASSUME NEW d, RowsTyped(d), NEW o, PeersKept(d, o), 6 \notin d.versions, 7 \notin d.versions,
         NEW e, e = Claimed(6, MigrateToV6(d))
  PROVE  /\ PeersKept(e, o)
         /\ DOMAIN e.peers \subseteq Nat
         /\ e.peers \in [DOMAIN e.peers -> Users \X Forms]
<1> DEFINE peers == [r \in DOMAIN d.peers |->
                       IF d.peers[r][2] = "bare" THEN <<d.peers[r][1], "peer">> ELSE d.peers[r]]
<1>1. e.peers = peers /\ e.versions = d.versions \cup {6}
  BY Zenon DEF Claimed, MigrateToV6, RowsTyped, IsDatabase
<1>2. d.peers \in [DOMAIN d.peers -> Users \X Forms] /\ DOMAIN d.peers \subseteq Nat
  BY Zenon DEF RowsTyped
<1>3. \A r \in DOMAIN d.peers : peers[r] \in Users \X Forms /\ peers[r][2] # "bare"
  BY <1>2, Zenon DEF Forms
<1>4. ASSUME NEW u \in Users
      PROVE  Oldest(peers, u) = Oldest(d.peers, u)
  <2>1. \A r \in DOMAIN d.peers : peers[r] \in {<<u, "bare">>, <<u, "peer">>}
                                    <=> d.peers[r] \in {<<u, "bare">>, <<u, "peer">>}
    BY <1>2 DEF Forms
  <2> DEFINE after == {r \in DOMAIN peers : peers[r] \in {<<u, "bare">>, <<u, "peer">>}}
             before == {r \in DOMAIN d.peers : d.peers[r] \in {<<u, "bare">>, <<u, "peer">>}}
  <2>2. after = before
    BY <2>1, Zenon
  <2>3. /\ Oldest(peers, u) = IF after = {} THEN {} ELSE {Min(after)}
        /\ Oldest(d.peers, u) = IF before = {} THEN {} ELSE {Min(before)}
    BY Zenon DEF Oldest
  <2> QED
    BY ONLY <2>2, <2>3, Zenon
<1>5. \A u \in Users : Oldest(e.peers, u) = o.oldest[u]
  BY <1>1, <1>4, Zenon DEF PeersKept
<1>6. 7 \notin e.versions
  BY <1>1
<1>7. \A r \in DOMAIN e.peers : e.peers[r][2] # "bare"
  BY <1>1, <1>3, Zenon
<1>8. PeersKept(e, o)
  BY <1>5, <1>6, <1>7, Zenon DEF PeersKept
<1>9. DOMAIN e.peers \subseteq Nat /\ e.peers \in [DOMAIN e.peers -> Users \X Forms]
  BY <1>1, <1>2, <1>3, Zenon
<1> QED
  BY <1>8, <1>9, Zenon

\* v7 leaves each peer its oldest row and no other.
LEMMA OneRowPerPeer ==
  ASSUME NEW peers, DOMAIN peers \subseteq Nat,
         peers \in [DOMAIN peers -> Users \X Forms],
         \A r \in DOMAIN peers : peers[r][2] # "bare",
         NEW u \in Users
  PROVE  {r \in DOMAIN peers \ Duplicates(peers) : peers[r] = <<u, "peer">>} = Oldest(peers, u)
<1> DEFINE rows == {r \in DOMAIN peers : peers[r] = <<u, "peer">>}
           left == {r \in DOMAIN peers \ Duplicates(peers) : peers[r] = <<u, "peer">>}
<1>1. rows = {r \in DOMAIN peers : peers[r] \in {<<u, "bare">>, <<u, "peer">>}}
  OBVIOUS
<1>2. Oldest(peers, u) = IF rows = {} THEN {} ELSE {Min(rows)}
  BY <1>1, Zenon DEF Oldest
<1>3. \A r \in rows : r \in NonEmpty(peers)
  BY DEF NonEmpty
<1>4. \A r \in rows : {q \in NonEmpty(peers) : peers[q] = peers[r]} = rows
  BY <1>3, Zenon DEF NonEmpty
<1>5. \A r \in rows : r \in Duplicates(peers) <=> r # Min(rows)
  BY <1>3, <1>4, Zenon DEF Duplicates
<1>6. left = {r \in rows : r = Min(rows)}
  BY <1>5, Zenon
<1>7. rows # {} => Min(rows) \in rows
  BY MinOfRows, Zenon
<1> QED
  BY <1>2, <1>6, <1>7, Zenon

\* What a version that is not v6, v7 or v8 leaves alone.
LEMMA SchemaVersionSound ==
  ASSUME NEW v \in 1..Latest, v \notin {6, 7, 8}, NEW o, NEW d, Sound(d, o),
         d.versions = 1..(v - 1),
         NEW e, e = Claimed(v, Migrated(v, d))
  PROVE  /\ Sound(e, o) /\ Stamps(e) = Stamps(d) /\ e.sessions = d.sessions
         /\ e.versions = d.versions \cup {v}
<1>1. IsDatabase(d) /\ d.schema = SchemaOf(1..(v - 1))
  BY Zenon DEF Sound, RowsTyped, Segment
<1>2. e = [d EXCEPT !.schema = @ \cup ObjectsOf[v], !.versions = @ \cup {v}]
  <2>1. Migrated(v, d) = [d EXCEPT !.schema = @ \cup ObjectsOf[v]]
    BY <1>1, SchemaVersion, Zenon
  <2> QED
    BY <1>1, <2>1, Zenon DEF Claimed, IsDatabase
<1>3. /\ IsDatabase(e)
      /\ e.versions = (1..(v - 1)) \cup {v} /\ e.schema = d.schema \cup ObjectsOf[v]
      /\ e.clients = d.clients /\ e.routing = d.routing /\ e.peers = d.peers
      /\ e.cred = d.cred /\ e.messages = d.messages /\ e.sessions = d.sessions
  BY <1>1, <1>2, Zenon DEF IsDatabase
<1> HIDE DEF IsDatabase
<1>4. RowsTyped(e)
  BY <1>3, Zenon DEF Sound, RowsTyped
<1>5. Segment(e)
  <2>1. (1..(v - 1)) \cup {v} = 1..v
    OBVIOUS
  <2> QED
    BY <1>1, <1>3, <2>1, SchemaGrows, Zenon DEF Segment, Latest
<1>6. /\ 6 \in e.versions <=> 6 \in d.versions
      /\ 7 \in e.versions <=> 7 \in d.versions
      /\ 8 \in e.versions <=> 8 \in d.versions
  BY <1>3, Zenon
<1>7. PeersKept(e, o)
  BY <1>3, <1>6, SMTT(40) DEF Sound, PeersKept
<1>8. SecretsKept(e, o)
  BY <1>3, <1>6, Zenon DEF Sound, SecretsKept
<1>9. Stamps(e) = Stamps(d)
  BY <1>3, Zenon DEF Stamps
<1> QED
  BY <1>3, <1>4, <1>5, <1>7, <1>8, <1>9, Zenon DEF Sound

\* v6 changes the peers only.
LEMMA CanonicalPeersSound ==
  ASSUME NEW o, NEW d, Sound(d, o), d.versions = 1..5,
         NEW e, e = Claimed(6, Migrated(6, d))
  PROVE  /\ Sound(e, o) /\ Stamps(e) = Stamps(d) /\ e.sessions = d.sessions
         /\ e.versions = d.versions \cup {6}
<1>1. e = Claimed(6, MigrateToV6(d))
  BY DEF Migrated
<1>2. RowsTyped(d) /\ IsDatabase(d) /\ PeersKept(d, o) /\ d.schema = SchemaOf(1..5)
  BY Zenon DEF Sound, RowsTyped, Segment
<1>3. /\ IsDatabase(e)
      /\ e.versions = (1..5) \cup {6} /\ e.schema = d.schema
      /\ e.clients = d.clients /\ e.routing = d.routing
      /\ e.cred = d.cred /\ e.messages = d.messages /\ e.sessions = d.sessions
  BY <1>1, <1>2, Zenon DEF IsDatabase, Claimed, MigrateToV6
<1>4. /\ PeersKept(e, o)
      /\ DOMAIN e.peers \subseteq Nat
      /\ e.peers \in [DOMAIN e.peers -> Users \X Forms]
  BY <1>1, <1>2, CanonicalPeers
<1>5. RowsTyped(e)
  BY <1>2, <1>3, <1>4, Zenon DEF RowsTyped
<1>6. Segment(e)
  <2>1. (1..5) \cup {6} = 1..6 /\ 6 \in 1..Latest
    BY DEF Latest
  <2>2. ObjectsOf[6] = {}
    BY DEF ObjectsOf, Latest
  <2>3. SchemaOf((1..(6 - 1)) \cup {6}) = SchemaOf(1..(6 - 1)) \cup ObjectsOf[6]
    BY <2>1, SchemaGrows, Zenon
  <2> QED
    BY <1>2, <1>3, <2>1, <2>2, <2>3 DEF Segment, Latest
<1>7. SecretsKept(e, o)
  <2>1. 8 \notin e.versions /\ 8 \notin d.versions
    BY <1>3
  <2> QED
    BY <1>3, <2>1, Zenon DEF Sound, SecretsKept
<1>8. Stamps(e) = Stamps(d)
  BY <1>3, Zenon DEF Stamps
<1> QED
  BY <1>3, <1>4, <1>5, <1>6, <1>7, <1>8, Zenon DEF Sound

\* v7 deletes rows of context_token_map only, and adds the unique index.
LEMMA OneRowPerPeerSound ==
  ASSUME NEW o, NEW d, Sound(d, o), d.versions = 1..6,
         NEW e, e = Claimed(7, Migrated(7, d))
  PROVE  /\ Sound(e, o) /\ Stamps(e) = Stamps(d) /\ e.sessions = d.sessions
         /\ e.versions = d.versions \cup {7}
<1> DEFINE kept == DOMAIN d.peers \ Duplicates(d.peers)
<1>1. e = Claimed(7, MigrateToV7(d))
  BY DEF Migrated
<1>2. RowsTyped(d) /\ IsDatabase(d) /\ PeersKept(d, o) /\ d.schema = SchemaOf(1..6)
  BY Zenon DEF Sound, RowsTyped, Segment
<1>3. /\ IsDatabase(e)
      /\ e.versions = (1..6) \cup {7} /\ e.schema = d.schema \cup {"uniq_peer_user_id"}
      /\ e.clients = d.clients /\ e.routing = d.routing
      /\ e.peers = [r \in kept |-> d.peers[r]]
      /\ e.cred = d.cred /\ e.messages = d.messages /\ e.sessions = d.sessions
  <2> HIDE DEF kept
  <2>1. e = Claimed(7, Create([d EXCEPT !.peers = [r \in kept |-> d.peers[r]]],
                              {"uniq_peer_user_id"}))
    BY <1>1, <1>2, Zenon DEF MigrateToV7, kept, IsDatabase
  <2> QED
    BY <1>2, <2>1, Zenon DEF IsDatabase, Claimed, Create
<1>4. /\ DOMAIN e.peers \subseteq Nat
      /\ e.peers \in [DOMAIN e.peers -> Users \X Forms]
  BY <1>2, <1>3 DEF RowsTyped
<1>5. RowsTyped(e)
  BY <1>2, <1>3, <1>4, Zenon DEF RowsTyped
<1>6. Segment(e)
  <2>1. (1..6) \cup {7} = 1..7 /\ 7 \in 1..Latest
    BY DEF Latest
  <2>2. ObjectsOf[7] = {"uniq_peer_user_id"}
    BY DEF ObjectsOf, Latest
  <2>3. SchemaOf((1..(7 - 1)) \cup {7}) = SchemaOf(1..(7 - 1)) \cup ObjectsOf[7]
    BY <2>1, SchemaGrows, Zenon
  <2> QED
    BY <1>2, <1>3, <2>1, <2>2, <2>3 DEF Segment, Latest
<1>7. PeersKept(e, o)
  <2>1. 7 \in e.versions /\ 7 \notin d.versions /\ 6 \in d.versions
    BY <1>3
  <2>2. \A r \in DOMAIN d.peers : d.peers[r][2] # "bare"
    BY <1>2, <2>1, Zenon DEF PeersKept
  <2>3. ASSUME NEW u \in Users
        PROVE  {r \in DOMAIN e.peers : e.peers[r] = <<u, "peer">>} = o.oldest[u]
    <3>1. {r \in kept : d.peers[r] = <<u, "peer">>} = Oldest(d.peers, u)
      BY <1>2, <2>2, OneRowPerPeer, Zenon DEF RowsTyped
    <3>2. {r \in DOMAIN e.peers : e.peers[r] = <<u, "peer">>}
            = {r \in kept : d.peers[r] = <<u, "peer">>}
      BY <1>3, Zenon
    <3> QED
      BY <1>2, <2>1, <3>1, <3>2, Zenon DEF PeersKept
  <2>4. \A r \in DOMAIN e.peers : e.peers[r][2] # "bare"
    BY <1>3, <2>2, Zenon
  <2> QED
    BY <2>1, <2>3, <2>4, Zenon DEF PeersKept
<1>8. SecretsKept(e, o)
  <2>1. 8 \notin e.versions /\ 8 \notin d.versions
    BY <1>3
  <2> QED
    BY <1>3, <2>1, Zenon DEF Sound, SecretsKept
<1>9. Stamps(e) = Stamps(d)
  BY <1>3, Zenon DEF Stamps
<1> QED
  BY <1>3, <1>5, <1>6, <1>7, <1>8, <1>9, Zenon DEF Sound

\* What v8 does to a database with a client: every vtoken becomes its hash.
LEMMA HashVtokensConverts ==
  ASSUME NEW d, RowsTyped(d), NEW e, e = HashVtokens(d)
  PROVE  /\ IsDatabase(e)
         /\ e.versions = d.versions /\ e.schema = d.schema /\ e.peers = d.peers
         /\ e.cred = d.cred /\ e.sessions = d.sessions
         /\ \A t \in e.clients \cup e.routing \cup {m.vt : m \in e.messages} : is_vtoken_hash(t)
         /\ Stamps(e) = Stamps(d)
         /\ IsFiniteSet(e.messages)
         /\ \A m \in e.messages :
              /\ m = [id |-> m.id, vt |-> m.vt, at |-> m.at]
              /\ m.id \in MessageIds /\ m.at \in 0..MaxNow
<1> DEFINE found  == {t \in d.clients \cup d.routing \cup {m.vt : m \in d.messages} :
                        ~is_vtoken_hash(t)}
           new(t) == IF t \in found THEN hash_vtoken(t) ELSE t
           msg(m) == [m EXCEPT !.vt = new(m.vt)]
           messages == {msg(m) : m \in d.messages}
<1>1. IsDatabase(d)
  BY Zenon DEF RowsTyped
<1>2. e = [d EXCEPT !.clients = {new(t) : t \in d.clients},
                    !.routing = {new(t) : t \in d.routing},
                    !.messages = messages]
  BY <1>1, Zenon DEF HashVtokens, IsDatabase
<1>3. /\ IsDatabase(e)
      /\ e.versions = d.versions /\ e.schema = d.schema /\ e.peers = d.peers
      /\ e.cred = d.cred /\ e.sessions = d.sessions
      /\ e.clients = {new(t) : t \in d.clients} /\ e.routing = {new(t) : t \in d.routing}
      /\ e.messages = messages
  <2> HIDE DEF found, new, messages
  <2> QED
    BY <1>1, <1>2, Zenon DEF IsDatabase
<1>4. \A t \in d.clients \cup d.routing \cup {m.vt : m \in d.messages} : is_vtoken_hash(new(t))
  <2>1. \A t : is_vtoken_hash(hash_vtoken(t))
    BY Zenon DEF is_vtoken_hash, hash_vtoken
  <2> QED
    BY <2>1, Zenon
<1>5. \A m \in d.messages :
        /\ msg(m) = [id |-> m.id, vt |-> new(m.vt), at |-> m.at]
        /\ m.id \in MessageIds /\ m.at \in 0..MaxNow
  <2> HIDE DEF found, new
  <2> QED
    BY DEF RowsTyped
<1> HIDE DEF found, new, msg
<1>6. \A m \in messages :
        /\ m = [id |-> m.id, vt |-> m.vt, at |-> m.at]
        /\ m.id \in MessageIds /\ m.at \in 0..MaxNow
        /\ is_vtoken_hash(m.vt)
        /\ \E x \in d.messages : m.id = x.id /\ m.at = x.at
  <2> SUFFICES ASSUME NEW x \in d.messages, NEW m, m = msg(x)
               PROVE  /\ m = [id |-> m.id, vt |-> m.vt, at |-> m.at]
                      /\ m.id \in MessageIds /\ m.at \in 0..MaxNow
                      /\ is_vtoken_hash(m.vt)
                      /\ m.id = x.id /\ m.at = x.at
    OBVIOUS
  <2>1. m = [id |-> x.id, vt |-> new(x.vt), at |-> x.at]
    BY <1>5, Zenon
  <2>2. is_vtoken_hash(new(x.vt))
    BY <1>4, Zenon
  <2> QED
    BY <1>5, <2>1, <2>2
<1>7. Stamps(e) = Stamps(d)
  <2>1. \A x \in d.messages : \E m \in messages : m.id = x.id /\ m.at = x.at
    BY <1>5
  <2> HIDE DEF messages
  <2> QED
    BY <1>3, <1>6, <2>1 DEF Stamps
<1>8. IsFiniteSet(messages)
  <2> DEFINE f == [m \in d.messages |-> msg(m)]
  <2>1. f \in Surjection(d.messages, messages)
    BY Zenon DEF Surjection
  <2>2. IsFiniteSet(d.messages)
    BY Zenon DEF RowsTyped
  <2> QED
    BY <2>1, <2>2, FS_Surjection, Zenon
<1>9. \A t \in e.clients \cup e.routing \cup {m.vt : m \in e.messages} : is_vtoken_hash(t)
  <2>1. \A t \in e.clients \cup e.routing : is_vtoken_hash(t)
    BY <1>3, <1>4, Zenon
  <2>2. \A t \in {m.vt : m \in e.messages} : is_vtoken_hash(t)
    <3> HIDE DEF messages
    <3> QED
      BY <1>3, <1>6, Zenon
  <2> QED
    BY <2>1, <2>2, Zenon
<1> HIDE DEF messages
<1> QED
  BY <1>3, <1>6, <1>7, <1>8, <1>9, Zenon

\* v8 converts when a client is found, and otherwise changes nothing.
LEMMA ConversionSound ==
  ASSUME NEW o, NEW d, Sound(d, o), d.versions = 1..7,
         NEW e, e = Claimed(8, Migrated(8, d))
  PROVE  /\ Sound(e, o) /\ Stamps(e) = Stamps(d) /\ e.sessions = d.sessions
         /\ e.versions = d.versions \cup {8}
<1>1. e = Claimed(8, MigrateToV8(d))
  BY DEF Migrated
<1>2. RowsTyped(d) /\ IsDatabase(d) /\ d.schema = SchemaOf(1..7)
  BY Zenon DEF Sound, RowsTyped, Segment
<1>3. ASSUME e.versions = (1..7) \cup {8}, e.schema = d.schema
      PROVE  Segment(e)
  <2>1. (1..7) \cup {8} = 1..8 /\ 8 \in 1..Latest
    BY DEF Latest
  <2>2. ObjectsOf[8] = {}
    BY DEF ObjectsOf, Latest
  <2>3. SchemaOf((1..(8 - 1)) \cup {8}) = SchemaOf(1..(8 - 1)) \cup ObjectsOf[8]
    BY <2>1, SchemaGrows, Zenon
  <2> QED
    BY <1>2, <1>3, <2>1, <2>2, <2>3 DEF Segment, Latest
<1>4. ASSUME e.versions = (1..7) \cup {8}, e.peers = d.peers
      PROVE  PeersKept(e, o)
  <2>1. 7 \in e.versions /\ 7 \in d.versions /\ 6 \in d.versions
    BY <1>4, SMTT(40)
  <2> QED
    BY <1>4, <2>1 DEF Sound, PeersKept
<1>5. CASE \E t \in d.clients : ~is_vtoken_hash(t)
  <2> DEFINE h == HashVtokens(d)
             c == IF h.cred = "none" \/ Opens(h.cred) THEN h.cred ELSE Sealed
  <2>1. e = Claimed(8, EncryptCredential(h))
    BY <1>1, <1>5, Zenon DEF MigrateToV8
  <2>2. /\ IsDatabase(h)
        /\ h.versions = d.versions /\ h.schema = d.schema /\ h.peers = d.peers
        /\ h.cred = d.cred /\ h.sessions = d.sessions
        /\ \A t \in h.clients \cup h.routing \cup {m.vt : m \in h.messages} : is_vtoken_hash(t)
        /\ Stamps(h) = Stamps(d)
        /\ IsFiniteSet(h.messages)
        /\ \A m \in h.messages :
             /\ m = [id |-> m.id, vt |-> m.vt, at |-> m.at]
             /\ m.id \in MessageIds /\ m.at \in 0..MaxNow
    BY <1>2, HashVtokensConverts, Zenon
  <2> HIDE DEF h
  <2>3. /\ IsDatabase(e)
        /\ e.versions = (1..7) \cup {8} /\ e.schema = d.schema /\ e.peers = d.peers
        /\ e.cred = c /\ e.sessions = d.sessions
        /\ e.clients = h.clients /\ e.routing = h.routing /\ e.messages = h.messages
    <3> HIDE DEF c
    <3>1. /\ IsDatabase(h) /\ h.versions = 1..7 /\ h.schema = d.schema
          /\ h.peers = d.peers /\ h.sessions = d.sessions
      BY <2>2, Zenon
    <3>2. EncryptCredential(h) = [h EXCEPT !.cred = c]
      BY <2>2, Zenon DEF EncryptCredential, IsDatabase, c
    <3> QED
      BY <2>1, <3>1, <3>2, Zenon DEF Claimed, IsDatabase
  <2>4. e.cred \in {"none", "sealed"}
    BY <2>2, <2>3, <1>2, Zenon DEF RowsTyped, Opens, Sealed
  <2>5. RowsTyped(e)
    BY <1>2, <2>2, <2>3, <2>4, Zenon DEF RowsTyped
  <2>6. SecretsKept(e, o)
    BY <2>2, <2>3, <2>4, Zenon DEF SecretsKept
  <2>7. Stamps(e) = Stamps(d)
    BY <2>2, <2>3, Zenon DEF Stamps
  <2> QED
    BY <1>3, <1>4, <2>3, <2>5, <2>6, <2>7, Zenon DEF Sound
<1>6. CASE ~ \E t \in d.clients : ~is_vtoken_hash(t)
  <2>1. e = Claimed(8, d)
    BY <1>1, <1>6, Zenon DEF MigrateToV8
  <2>2. /\ IsDatabase(e)
        /\ e.versions = (1..7) \cup {8} /\ e.schema = d.schema
        /\ e.clients = d.clients /\ e.routing = d.routing /\ e.peers = d.peers
        /\ e.cred = d.cred /\ e.messages = d.messages /\ e.sessions = d.sessions
    BY <1>2, <2>1, Zenon DEF Claimed, IsDatabase
  <2>3. RowsTyped(e)
    BY <1>2, <2>2, Zenon DEF RowsTyped
  <2>4. ~o.client
    <3>1. 8 \notin d.versions
      OBVIOUS
    <3> QED
      BY <1>6, <3>1, Zenon DEF Sound, SecretsKept
  <2>5. Stamps(e) = Stamps(d)
    BY <2>2, Zenon DEF Stamps
  <2> QED
    BY <1>3, <1>4, <2>2, <2>3, <2>4, <2>5, Zenon DEF Sound, SecretsKept
<1> QED
  BY <1>5, <1>6, Zenon

\* Every version keeps a database sound, and its rows.
LEMMA VersionSound ==
  ASSUME NEW v \in 1..Latest, NEW o, NEW d, Sound(d, o), d.versions = 1..(v - 1),
         NEW e, e = Claimed(v, Migrated(v, d))
  PROVE  /\ Sound(e, o) /\ Stamps(e) = Stamps(d) /\ e.sessions = d.sessions
         /\ e.versions = d.versions \cup {v}
<1>1. CASE v \notin {6, 7, 8}
  BY <1>1, SchemaVersionSound
<1>2. CASE v = 6
  <2>1. d.versions = 1..5
    BY <1>2
  <2> QED
    BY <1>2, <2>1, CanonicalPeersSound, Zenon
<1>3. CASE v = 7
  <2>1. d.versions = 1..6
    BY <1>3
  <2> QED
    BY <1>3, <2>1, OneRowPerPeerSound, Zenon
<1>4. CASE v = 8
  <2>1. d.versions = 1..7
    BY <1>4
  <2> QED
    BY <1>4, <2>1, ConversionSound, Zenon
<1> QED
  BY <1>1, <1>2, <1>3, <1>4, Zenon

-----------------------------------------------------------------------------
(* The walk, its crashes, and the writes beside it. *)

\* The databases found at the start are sound.
LEMMA FoundSound ==
  ASSUME NEW d \in Databases, NEW o,
         o = [client |-> d.clients # {} /\ 8 \notin d.versions,
              oldest |-> [u \in Users |-> Oldest(d.peers, u)]]
  PROVE  Sound(d, o)
<1>1. LeftByRelease(d) /\ MaxNow \in Nat
  BY StoreConstants, Zenon
<1>2. RowsTyped(d)
  <2>1. IsDatabase(d)
    BY <1>1, Zenon DEF LeftByRelease, IsDatabase
  <2>2. 0 \in 0..MaxNow
    BY <1>1
  <2>3. /\ d.cred \in {"none", "plain", "sealed"}
        /\ DOMAIN d.peers \subseteq Nat
        /\ d.peers \in [DOMAIN d.peers -> Users \X Forms]
        /\ IsFiniteSet(d.messages) /\ IsFiniteSet(d.sessions)
    BY <1>1, Zenon DEF LeftByRelease, Forms
  <2>4. \A m \in d.messages :
          /\ m = [id |-> m.id, vt |-> m.vt, at |-> m.at]
          /\ m.id \in MessageIds /\ m.at \in 0..MaxNow
    BY <1>1, <2>2, Zenon DEF LeftByRelease
  <2>5. \A s \in d.sessions : s.key \in SessionKeys /\ s.at \in 0..MaxNow
    BY <1>1, <2>2, Zenon DEF LeftByRelease
  <2> QED
    BY <2>1, <2>3, <2>4, <2>5, Zenon DEF RowsTyped
<1>3. Segment(d)
  BY <1>1, Zenon DEF LeftByRelease, Segment
<1>4. PeersKept(d, o)
  <2>1. 6 \in d.versions => \A r \in DOMAIN d.peers : d.peers[r][2] # "bare"
    BY <1>1, Zenon DEF LeftByRelease
  <2>2. \A u \in Users : o.oldest[u] = Oldest(d.peers, u)
    OBVIOUS
  <2>3. ASSUME 7 \in d.versions, NEW u \in Users
        PROVE  {r \in DOMAIN d.peers : d.peers[r] = <<u, "peer">>} = o.oldest[u]
    <3>1. 6 \in d.versions
      BY <1>3, <2>3 DEF Segment, Latest
    <3>2. Duplicates(d.peers) = {}
      BY <1>1, <2>3, Zenon DEF LeftByRelease
    <3>3. {r \in DOMAIN d.peers \ Duplicates(d.peers) : d.peers[r] = <<u, "peer">>}
            = Oldest(d.peers, u)
      BY <1>2, <2>1, <3>1, OneRowPerPeer, Zenon DEF RowsTyped
    <3> QED
      BY <2>2, <3>2, <3>3, Zenon
  <2> QED
    BY <2>1, <2>2, <2>3, Zenon DEF PeersKept
<1>5. SecretsKept(d, o)
  <2>1. o.client => d.clients # {} /\ 8 \notin d.versions
    BY Zenon
  <2>2. 8 \notin d.versions => \A t \in d.clients : ~is_vtoken_hash(t)
    BY <1>1, Zenon DEF LeftByRelease
  <2> QED
    BY <2>1, <2>2, Zenon DEF SecretsKept
<1> QED
  BY <1>2, <1>3, <1>4, <1>5, Zenon DEF Sound

\* The walk starts from what it finds.
LEMMA WalkInit == Init => WalkInv
<1> SUFFICES ASSUME Init PROVE WalkInv
  OBVIOUS
<1>1. Sound(db, origin)
  BY FoundSound, Zenon DEF Init
<1>2. /\ writer = None /\ work = EmptyDatabase
      /\ pc = [p \in Procs |-> "down"] /\ next = [p \in Procs |-> 1]
  BY Zenon DEF Init
<1>3. \A p \in Procs : 1..(next[p] - 1) \subseteq Seen(p).versions
  BY <1>2
<1> QED
  BY <1>1, <1>2, <1>3 DEF WalkInv, Latest

\* A step beside the walk.
LEMMA WalkUntouched ==
  ASSUME WalkInv, UNCHANGED <<db, writer, work, next, origin>>,
         pc' \in [Procs -> {"down", "create", "walk", "guard", "token", "scan", "serving"}]
  PROVE  WalkInv'
<1>1. \A p \in Procs : Seen(p)' = Seen(p)
  BY Zenon DEF Seen
<1> QED
  BY <1>1, Zenon DEF WalkInv

\* Whatever a process had claimed and not committed goes with it.
LEMMA WalkEnds ==
  ASSUME WalkInv, NEW p \in Procs, Ends(p), UNCHANGED <<db, origin>>
  PROVE  WalkInv'
<1>1. /\ next' = [next EXCEPT ![p] = 1]
      /\ pc' = [pc EXCEPT ![p] = "down"]
      /\ writer' = IF writer = p THEN None ELSE writer
      /\ work' = IF writer = p THEN EmptyDatabase ELSE work
  BY Zenon DEF Ends
<1>2. \A q \in Procs : 1..(next'[q] - 1) \subseteq Seen(q)'.versions
  <2> TAKE q \in Procs
  <2>1. CASE q = p
    BY <1>1, <2>1 DEF WalkInv, Latest
  <2>2. CASE q # p
    <3>1. next'[q] = next[q]
      BY <1>1, <2>2, Zenon DEF WalkInv
    <3>2. Seen(q)' = Seen(q)
      BY <1>1, <2>2, StoreConstants, Zenon DEF Seen
    <3> QED
      BY <3>1, <3>2, Zenon DEF WalkInv
  <2> QED
    BY <2>1, <2>2, Zenon
<1>3. /\ next' \in [Procs -> 1..(Latest + 1)]
      /\ pc' \in [Procs -> {"down", "create", "walk", "guard", "token", "scan", "serving"}]
      /\ writer' \in Procs \cup {None}
  BY <1>1, SMTT(40) DEF WalkInv, Latest
<1>4. Sound(db', origin')
  BY Zenon DEF WalkInv
<1>5. CASE writer = p
  BY <1>1, <1>2, <1>3, <1>4, <1>5, Zenon DEF WalkInv
<1>6. CASE writer # p
  BY <1>1, <1>2, <1>3, <1>4, <1>6, Zenon DEF WalkInv
<1> QED
  BY <1>5, <1>6, Zenon

\* The writer begins with the committed database.
LEMMA LockForClaimKeeps ==
  ASSUME WalkInv, NEW p \in Procs, LockForClaim(p)
  PROVE  WalkInv'
<1>1. /\ writer = None /\ writer' = p /\ work' = db
      /\ UNCHANGED <<db, origin, pc, next>>
  BY Zenon DEF LockForClaim, procVars, faultVars
<1>2. None \notin Procs
  BY StoreConstants, Zenon
<1>3. \A q \in Procs : Seen(q)' = Seen(q)
  BY <1>1, <1>2, Zenon DEF Seen
<1> QED
  BY <1>1, <1>2, <1>3, Zenon DEF WalkInv

\* What a process sees is an initial segment.
LEMMA SeenSound ==
  ASSUME WalkInv, NEW p \in Procs
  PROVE  /\ Sound(Seen(p), origin)
         /\ \E n \in 0..Latest : Seen(p).versions = 1..n
<1>1. Sound(Seen(p), origin)
  <2>1. None \notin Procs
    BY StoreConstants, Zenon
  <2> QED
    BY <2>1, Zenon DEF WalkInv, Seen
<1> QED
  BY <1>1, Zenon DEF Sound, Segment

\* The versions passed over are recorded.
LEMMA SkipVersionsKeeps ==
  ASSUME WalkInv, NEW p \in Procs, SkipVersions(p)
  PROVE  WalkInv'
<1> DEFINE rest == (next[p]..(Latest + 1)) \ Seen(p).versions
<1>1. /\ next' = [next EXCEPT ![p] = Min(rest)]
      /\ UNCHANGED <<db, origin, pc, writer, work>>
      /\ next[p] \in Seen(p).versions
  BY Zenon DEF SkipVersions, dbVars, faultVars, WalkInv
<1>2. PICK n \in 0..Latest : Seen(p).versions = 1..n
  BY SeenSound, Zenon
<1>3. next \in [Procs -> 1..(Latest + 1)]
  BY Zenon DEF WalkInv
<1>4. next[p] \in Int /\ next[p] >= 1 /\ next[p] <= n
  BY <1>1, <1>2, <1>3 DEF Latest
<1>5. Min(rest) = n + 1
  <2>1. rest \subseteq Nat /\ n + 1 \in rest
    BY <1>2, <1>4 DEF Latest
  <2>2. \A y \in rest : y >= n + 1
    BY <1>2, <1>4 DEF Latest
  <2>3. Min(rest) \in rest /\ Min(rest) <= n + 1
    BY <2>1, MinOfRows, Zenon
  <2> QED
    BY <2>1, <2>2, <2>3
<1> HIDE DEF rest
<1>6. /\ next' = [next EXCEPT ![p] = n + 1]
      /\ next' \in [Procs -> 1..(Latest + 1)]
  BY <1>1, <1>3, <1>5 DEF Latest
<1>7. \A q \in Procs : Seen(q)' = Seen(q)
  BY <1>1, Zenon DEF Seen
<1>8. \A q \in Procs : 1..(next'[q] - 1) \subseteq Seen(q)'.versions
  <2> TAKE q \in Procs
  <2>1. CASE q = p
    <3>1. next'[q] - 1 = n
      BY <1>6, <1>3, <2>1
    <3> QED
      BY <1>2, <1>7, <2>1, <3>1, Zenon
  <2>2. CASE q # p
    BY <1>6, <1>7, <2>2, Zenon DEF WalkInv
  <2> QED
    BY <2>1, <2>2, Zenon
<1> QED
  BY <1>1, <1>6, <1>8, Zenon DEF WalkInv

\* A version applied to the writer's copy.
LEMMA ApplyVersionKeeps ==
  ASSUME WalkInv, NEW p \in Procs, ApplyVersion(p)
  PROVE  WalkInv'
<1> DEFINE v == next[p]
<1>1. /\ writer = p /\ v <= Latest /\ v \notin work.versions
      /\ db' = db /\ work' = Claimed(v, Migrated(v, work))
      /\ next' = [next EXCEPT ![p] = v + 1]
      /\ UNCHANGED <<writer, origin, pc>>
  BY Zenon DEF ApplyVersion, ClaimInTx, faultVars, WalkInv
<1>2. next \in [Procs -> 1..(Latest + 1)] /\ v \in 1..Latest
  BY <1>1 DEF WalkInv, Latest
<1>3. work.versions = 1..(v - 1)
  <2>1. PICK n \in 0..Latest : work.versions = 1..n
    BY <1>1, SeenSound, Zenon DEF Seen
  <2>2. 1..(v - 1) \subseteq 1..n
    BY <1>1, <2>1, Zenon DEF WalkInv, Seen
  <2>3. v = n + 1
    <3> HIDE DEF v
    <3>1. v > n /\ v - 1 \in Nat
      BY <1>1, <1>2, <2>1 DEF Latest
    <3>2. v - 1 > 0 => v - 1 \in 1..n
      BY <2>2, <3>1, SMTT(40)
    <3> QED
      BY <1>2, <3>1, <3>2 DEF Latest
  <2> QED
    BY <2>1, <2>3, SMTT(40)
<1>4. /\ Sound(work, origin) /\ Stamps(work) = Stamps(db) /\ work.sessions = db.sessions
  BY <1>1, StoreConstants, Zenon DEF WalkInv
<1>5. /\ Sound(work', origin) /\ Stamps(work') = Stamps(work)
      /\ work'.sessions = work.sessions
      /\ work'.versions = work.versions \cup {v}
  BY <1>1, <1>2, <1>3, <1>4, VersionSound
<1>6. \A q \in Procs : 1..(next'[q] - 1) \subseteq Seen(q)'.versions
  <2> TAKE q \in Procs
  <2>1. CASE q = p
    <3>1. next'[q] - 1 = v
      BY <1>1, <1>2, <2>1
    <3>2. Seen(q)' = work'
      BY <1>1, <2>1, Zenon DEF Seen
    <3> QED
      BY <1>2, <1>3, <1>5, <3>1, <3>2
  <2>2. CASE q # p
    BY <1>1, <2>2, Zenon DEF WalkInv, Seen
  <2> QED
    BY <2>1, <2>2, Zenon
<1>7. next' \in [Procs -> 1..(Latest + 1)]
  BY <1>1, <1>2, SMTT(40) DEF Latest
<1>8. writer' # None
  BY <1>1, StoreConstants, Zenon
<1>9. Sound(db', origin') /\ Sound(work', origin') /\ Stamps(work') = Stamps(db')
      /\ work'.sessions = db'.sessions
  BY <1>1, <1>4, <1>5, Zenon DEF WalkInv
<1> QED
  BY <1>1, <1>6, <1>7, <1>8, <1>9, Zenon DEF WalkInv

\* A commit publishes a complete walk.
LEMMA CommitWalkKeeps ==
  ASSUME WalkInv, NEW p \in Procs, CommitWalk(p)
  PROVE  /\ WalkInv'
         /\ db'.versions = 1..Latest
         /\ Stamps(db') = Stamps(db) /\ db'.sessions = db.sessions
<1>1. /\ next[p] > Latest
      /\ db' = Seen(p)
      /\ writer' = IF writer = p THEN None ELSE writer
      /\ work' = IF writer = p THEN EmptyDatabase ELSE work
      /\ next' = [next EXCEPT ![p] = 1]
      /\ UNCHANGED origin
      /\ pc' = [pc EXCEPT ![p] = IF role[p] = "serve" THEN "guard" ELSE "scan"]
  BY Zenon DEF CommitWalk, faultVars
<1>2. Seen(p).versions = 1..Latest
  <2>1. PICK n \in 0..Latest : Seen(p).versions = 1..n
    BY SeenSound, Zenon
  <2>2. next[p] = Latest + 1
    BY <1>1 DEF WalkInv, Latest
  <2>3. 1..Latest \subseteq 1..n
    <3>1. next[p] - 1 = Latest
      BY <2>2 DEF Latest
    <3> QED
      BY <2>1, <3>1, Zenon DEF WalkInv
  <2>4. n = Latest
    BY <2>3 DEF Latest
  <2> QED
    BY <2>1, <2>4, Zenon
<1>3. Sound(db', origin')
  BY <1>1, SeenSound, Zenon
<1>4. Stamps(db') = Stamps(db) /\ db'.sessions = db.sessions
  BY <1>1, StoreConstants, Zenon DEF WalkInv, Seen
<1>5. \A q \in Procs : 1..(next'[q] - 1) \subseteq Seen(q)'.versions
  <2> TAKE q \in Procs
  <2>1. CASE q = p
    BY <1>1, <2>1 DEF WalkInv, Latest
  <2>2. CASE q # p
    <3>1. next'[q] = next[q] /\ next[q] \in 1..(Latest + 1)
      BY <1>1, <2>2, Zenon DEF WalkInv
    <3>2. CASE writer = q
      <4>1. Seen(q)' = Seen(q)
        BY <1>1, <2>2, <3>2, Zenon DEF Seen
      <4> QED
        BY <3>1, <4>1, Zenon DEF WalkInv
    <3>3. CASE writer # q
      <4>1. Seen(q)' = db'
        BY <1>1, <2>2, <3>3, StoreConstants, Zenon DEF Seen
      <4> QED
        BY <1>1, <1>2, <3>1, <4>1 DEF Latest
    <3> QED
      BY <3>2, <3>3, Zenon
  <2> QED
    BY <2>1, <2>2, Zenon
<1>6. /\ next' \in [Procs -> 1..(Latest + 1)]
      /\ pc' \in [Procs -> {"down", "create", "walk", "guard", "token", "scan", "serving"}]
      /\ writer' \in Procs \cup {None}
  BY <1>1 DEF WalkInv, Latest
<1>7. CASE writer = p
  <2>1. writer' = None /\ work' = EmptyDatabase
    BY <1>1, <1>7, Zenon
  <2>2. WalkInv'
    BY <1>3, <1>5, <1>6, <2>1, Zenon DEF WalkInv
  <2> QED
    BY <1>1, <1>2, <1>4, <2>2, Zenon
<1>8. CASE writer # p
  <2>1. writer' = writer /\ work' = work /\ db' = db
    BY <1>1, <1>8, Zenon DEF Seen
  <2>2. WalkInv'
    BY <1>1, <1>3, <1>5, <1>6, <2>1, Zenon DEF WalkInv
  <2> QED
    BY <1>1, <1>2, <1>4, <2>2, Zenon
<1> QED
  BY <1>7, <1>8, Zenon

\* A write of a process outside the walk, which holds nobody's lock.
LEMMA DbWriteKeeps ==
  ASSUME WalkInv, writer = None, UNCHANGED <<writer, work, origin>>,
         Sound(db', origin), db'.versions = db.versions,
         pc' \in [Procs -> {"down", "create", "walk", "guard", "token", "scan", "serving"}],
         next' = next \/ \E p \in Procs : next' = [next EXCEPT ![p] = 1]
  PROVE  WalkInv'
<1>1. \A p \in Procs : Seen(p) = db /\ Seen(p)' = db'
  BY StoreConstants, Zenon DEF Seen
<1>2. next' \in [Procs -> 1..(Latest + 1)] /\ \A p \in Procs : next'[p] \in {1, next[p]}
  BY DEF WalkInv, Latest
<1>3. \A p \in Procs : 1..(next'[p] - 1) \subseteq db'.versions
  <2> TAKE p \in Procs
  <2>1. CASE next'[p] = 1
    BY <2>1, SMTT(40)
  <2>2. CASE next'[p] = next[p]
    BY <1>1, <2>2, Zenon DEF WalkInv
  <2> QED
    BY <1>2, <2>1, <2>2, Zenon
<1> QED
  BY <1>1, <1>2, <1>3, Zenon DEF WalkInv

\* Rows stored or deleted in messages.
LEMMA MessagesSound ==
  ASSUME NEW d, NEW o, Sound(d, o), NEW M, IsFiniteSet(M),
         \A m \in M : \/ m \in d.messages
                      \/ /\ m = [id |-> m.id, vt |-> m.vt, at |-> m.at]
                         /\ m.id \in MessageIds /\ m.at \in 0..MaxNow
                         /\ is_vtoken_hash(m.vt),
         NEW e, e = [d EXCEPT !.messages = M]
  PROVE  /\ Sound(e, o) /\ e.versions = d.versions
         /\ e.messages = M /\ e.sessions = d.sessions
<1>1. IsDatabase(d)
  BY Zenon DEF Sound, RowsTyped
<1>2. /\ IsDatabase(e)
      /\ e.versions = d.versions /\ e.schema = d.schema
      /\ e.clients = d.clients /\ e.routing = d.routing /\ e.peers = d.peers
      /\ e.cred = d.cred /\ e.messages = M /\ e.sessions = d.sessions
  BY <1>1, Zenon DEF IsDatabase
<1>3. RowsTyped(e)
  BY <1>2, Zenon DEF Sound, RowsTyped
<1>4. Segment(e) /\ PeersKept(e, o)
  BY <1>2 DEF Sound, Segment, PeersKept
<1>5. SecretsKept(e, o)
  BY <1>2 DEF Sound, SecretsKept
<1> QED
  BY <1>2, <1>3, <1>4, <1>5, Zenon DEF Sound

\* Rows stored or deleted in active_sessions.
LEMMA SessionsSound ==
  ASSUME NEW d, NEW o, Sound(d, o), NEW S, IsFiniteSet(S),
         \A s \in S : s.key \in SessionKeys /\ s.at \in 0..MaxNow,
         NEW e, e = [d EXCEPT !.sessions = S]
  PROVE  /\ Sound(e, o) /\ e.versions = d.versions
         /\ e.messages = d.messages /\ e.sessions = S
<1>1. IsDatabase(d)
  BY Zenon DEF Sound, RowsTyped
<1>2. /\ IsDatabase(e)
      /\ e.versions = d.versions /\ e.schema = d.schema
      /\ e.clients = d.clients /\ e.routing = d.routing /\ e.peers = d.peers
      /\ e.cred = d.cred /\ e.messages = d.messages /\ e.sessions = S
  BY <1>1, Zenon DEF IsDatabase
<1>3. RowsTyped(e)
  BY <1>2, Zenon DEF Sound, RowsTyped
<1>4. Segment(e) /\ PeersKept(e, o) /\ SecretsKept(e, o)
  BY <1>2 DEF Sound, Segment, PeersKept, SecretsKept
<1> QED
  BY <1>2, <1>3, <1>4, Zenon DEF Sound

\* A token stored by save_credentials.
LEMMA SavedCredentialsSound ==
  ASSUME NEW d, NEW o, Sound(d, o), NEW e, e = [d EXCEPT !.cred = Sealed]
  PROVE  /\ Sound(e, o) /\ e.versions = d.versions
         /\ e.messages = d.messages /\ e.sessions = d.sessions
<1>1. IsDatabase(d)
  BY Zenon DEF Sound, RowsTyped
<1>2. /\ IsDatabase(e)
      /\ e.versions = d.versions /\ e.schema = d.schema
      /\ e.clients = d.clients /\ e.routing = d.routing /\ e.peers = d.peers
      /\ e.cred = "sealed" /\ e.messages = d.messages /\ e.sessions = d.sessions
  BY <1>1, Zenon DEF IsDatabase, Sealed
<1>3. RowsTyped(e)
  BY <1>2, Zenon DEF Sound, RowsTyped
<1>4. Segment(e) /\ PeersKept(e, o) /\ SecretsKept(e, o)
  BY <1>2, SMTT(40) DEF Sound, Segment, PeersKept, SecretsKept
<1> QED
  BY <1>2, <1>3, <1>4, Zenon DEF Sound

-----------------------------------------------------------------------------
(* The sweep, and the steps beside it. *)

StoreInv == WalkInv /\ SweepInv

Walked == {"guard", "token", "scan", "serving"}

\* No step removes a row that is within its TTL.
OnlyExpiredGo ==
  /\ \A m \in db.messages :
       m.id \notin {x.id : x \in db'.messages} => m.at < now - MessagesTtl
  /\ \A s \in db.sessions :
       s.key \notin {x.key : x \in db'.sessions} => s.at < now - SessionsTtl

\* A step that only adds rows, stamped with the clock, and does not move any
\* sweep on.
Beside ==
  /\ kind' = kind /\ file' \in BOOLEAN
  /\ role' \in [Procs -> {"serve", "login"}]
  /\ conf' \in [Procs -> Settings \cup {NoSettings}]
  /\ now' \in 0..MaxNow /\ now <= now'
  /\ sweep' \in [Procs -> [phase : Phases, cutoff : 0..MaxNow]]
  /\ \A q \in Procs :
       \/ sweep'[q] = IdleSweep
       \/ /\ sweep'[q] = sweep[q] /\ conf'[q] = conf[q]
          /\ pc[q] = "serving" => pc'[q] = "serving"
  /\ \A q \in Procs : pc'[q] \in Walked => pc[q] \in Walked \/ db'.versions = 1..Latest
  /\ db'.versions = db.versions \/ db'.versions = 1..Latest
  /\ \A m \in db'.messages : m.at = now \/ \E x \in db.messages : x.at = m.at
  /\ \A s \in db'.sessions : s.at = now \/ s \in db.sessions

\* Such a step leaves the finished sweeps clean.
LEMMA BesideKeeps ==
  ASSUME StoreInv, WalkInv', Beside
  PROVE  SweepInv'
<1>1. RowsTyped(db)' /\ MessagesTtl \in Nat /\ SessionsTtl \in Nat /\ MaxNow \in Nat
  BY StoreConstants, Zenon DEF WalkInv, Sound
<1>2. ASSUME NEW q \in Procs
      PROVE  \/ sweep'[q] = IdleSweep
             \/ /\ sweep'[q] = sweep[q] /\ conf'[q] = conf[q]
                /\ pc[q] = "serving" /\ pc'[q] = "serving"
  BY Zenon DEF StoreInv, SweepInv, Beside
<1>3. ASSUME NEW q \in Procs
      PROVE  sweep'[q].cutoff \in 0..MaxNow /\ sweep'[q].cutoff <= now'
  <2>1. sweep'[q].cutoff \in 0..MaxNow /\ now' \in 0..MaxNow
    BY Zenon DEF Beside
  <2>2. CASE sweep'[q] = IdleSweep
    BY <1>1, <2>1, <2>2 DEF IdleSweep
  <2>3. CASE sweep'[q] = sweep[q]
    <3>1. sweep[q].cutoff <= now /\ now <= now' /\ now \in 0..MaxNow
      BY Zenon DEF StoreInv, SweepInv, Beside
    <3> QED
      BY <1>1, <2>1, <2>3, <3>1, SMTT(40)
  <2> QED
    BY <1>2, <2>1, <2>2, <2>3, Zenon
<1>4. ASSUME NEW q \in Procs, pc'[q] = "serving", ~conf'[q].dry, MessagesTtl > 0,
             sweep'[q].phase \in {"sessions", "idle"}, NEW m \in db'.messages
      PROVE  m.at >= sweep'[q].cutoff - MessagesTtl
  <2>1. m.at \in 0..MaxNow
    BY <1>1, Zenon DEF RowsTyped
  <2>2. CASE sweep'[q] = IdleSweep
    BY <1>1, <2>1, <2>2 DEF IdleSweep
  <2>3. CASE /\ sweep'[q] = sweep[q] /\ conf'[q] = conf[q]
             /\ pc[q] = "serving" /\ pc'[q] = "serving"
    <3>1. m.at = now \/ \E x \in db.messages : x.at = m.at
      BY Zenon DEF Beside
    <3>2. sweep[q].cutoff \in 0..MaxNow /\ sweep[q].cutoff <= now /\ now \in 0..MaxNow
      BY Zenon DEF StoreInv, SweepInv
    <3>3. CASE m.at = now
      BY <1>1, <2>3, <3>2, <3>3, SMTT(40)
    <3>4. CASE \E x \in db.messages : x.at = m.at
      BY <1>4, <2>3, <3>4, Zenon DEF StoreInv, SweepInv, SweptClean
    <3> QED
      BY <3>1, <3>3, <3>4, Zenon
  <2> QED
    BY <1>2, <2>2, <2>3, Zenon
<1>5. ASSUME NEW q \in Procs, pc'[q] = "serving", ~conf'[q].dry, SessionsTtl > 0,
             sweep'[q].phase = "idle", NEW s \in db'.sessions
      PROVE  s.at >= sweep'[q].cutoff - SessionsTtl
  <2>1. s.at \in 0..MaxNow
    BY <1>1, Zenon DEF RowsTyped
  <2>2. CASE sweep'[q] = IdleSweep
    BY <1>1, <2>1, <2>2 DEF IdleSweep
  <2>3. CASE /\ sweep'[q] = sweep[q] /\ conf'[q] = conf[q]
             /\ pc[q] = "serving" /\ pc'[q] = "serving"
    <3>1. s.at = now \/ s \in db.sessions
      BY Zenon DEF Beside
    <3>2. sweep[q].cutoff \in 0..MaxNow /\ sweep[q].cutoff <= now /\ now \in 0..MaxNow
      BY Zenon DEF StoreInv, SweepInv
    <3>3. CASE s.at = now
      BY <1>1, <2>3, <3>2, <3>3, SMTT(40)
    <3>4. CASE s \in db.sessions
      BY <1>5, <2>3, <3>4, Zenon DEF StoreInv, SweepInv, SweptClean
    <3> QED
      BY <3>1, <3>3, <3>4, Zenon
  <2> QED
    BY <1>2, <2>2, <2>3, Zenon
<1>6. SweptClean'
  BY <1>4, <1>5, Zenon DEF SweptClean
<1>7. \A q \in Procs :
        /\ pc'[q] # "serving" => sweep'[q] = IdleSweep
        /\ pc'[q] \in {"guard", "token", "scan", "serving"} => db'.versions = 1..Latest
  <2> TAKE q \in Procs
  <2>1. pc'[q] # "serving" => sweep'[q] = IdleSweep
    BY <1>2, Zenon
  <2>2. pc'[q] \in Walked => db'.versions = 1..Latest
    BY Zenon DEF StoreInv, SweepInv, Beside, Walked
  <2> QED
    BY <2>1, <2>2, Zenon DEF Walked
<1> QED
  BY <1>3, <1>6, <1>7, Zenon DEF StoreInv, SweepInv, Beside

\* A step that changes no row of the two tables loses none.
LEMMA SameRowsKept ==
  ASSUME Stamps(db') = Stamps(db), db'.sessions = db.sessions
  PROVE  /\ OnlyExpiredGo
         /\ \A m \in db'.messages : \E x \in db.messages : x.at = m.at
<1>1. ASSUME NEW m \in db.messages PROVE \E x \in db'.messages : x.id = m.id
  <2>1. <<m.id, m.at>> \in Stamps(db')
    BY Zenon DEF Stamps
  <2> QED
    BY <2>1, Zenon DEF Stamps
<1>2. ASSUME NEW m \in db'.messages PROVE \E x \in db.messages : x.at = m.at
  <2>1. <<m.id, m.at>> \in Stamps(db)
    BY Zenon DEF Stamps
  <2> QED
    BY <2>1, Zenon DEF Stamps
<1> QED
  BY <1>1, <1>2, Zenon DEF OnlyExpiredGo

\* A process that ends takes its sweep with it.
LEMMA EndsKeepsStore ==
  ASSUME StoreInv, NEW p \in Procs, Ends(p), UNCHANGED <<kind, file, db, now, origin>>
  PROVE  StoreInv' /\ OnlyExpiredGo
<1>1. WalkInv'
  BY WalkEnds, Zenon DEF StoreInv
<1>2. OnlyExpiredGo /\ \A m \in db'.messages : \E x \in db.messages : x.at = m.at
  BY SameRowsKept, Zenon
<1>3. Beside
  <2>1. /\ pc' = [pc EXCEPT ![p] = "down"] /\ role' = [role EXCEPT ![p] = "serve"]
        /\ conf' = [conf EXCEPT ![p] = NoSettings]
        /\ sweep' = [sweep EXCEPT ![p] = IdleSweep]
    BY Zenon DEF Ends
  <2>2. 0 \in 0..MaxNow
    BY StoreConstants, SMTT(40)
  <2>3. sweep' \in [Procs -> [phase : Phases, cutoff : 0..MaxNow]]
    BY <2>1, <2>2, Zenon DEF StoreInv, SweepInv, IdleSweep, Phases
  <2>4. conf' \in [Procs -> Settings \cup {NoSettings}]
        /\ role' \in [Procs -> {"serve", "login"}]
    BY <2>1, Zenon DEF StoreInv, SweepInv
  <2>5. \A q \in Procs :
          \/ sweep'[q] = IdleSweep
          \/ /\ sweep'[q] = sweep[q] /\ conf'[q] = conf[q]
             /\ pc[q] = "serving" => pc'[q] = "serving"
    BY <2>1, Zenon DEF StoreInv, SweepInv, WalkInv
  <2>6. \A q \in Procs : pc'[q] \in Walked => pc[q] \in Walked
    BY <2>1, Zenon DEF StoreInv, WalkInv, Walked
  <2>7. kind' = kind /\ file' \in BOOLEAN
    BY Zenon DEF StoreInv, SweepInv
  <2>8. now' \in 0..MaxNow /\ now <= now'
    BY DEF StoreInv, SweepInv
  <2> QED
    BY <1>2, <2>3, <2>4, <2>5, <2>6, <2>7, <2>8, Zenon DEF Beside
<1> QED
  BY <1>1, <1>2, <1>3, BesideKeeps, Zenon DEF StoreInv

\* A step of one process up to the guard, or of resolve_token: it has no sweep
\* yet.
LEMMA StepBeside ==
  ASSUME StoreInv, WalkInv', NEW p \in Procs, NEW a, NEW c \in Settings \cup {NoSettings},
         NEW r \in {"serve", "login"},
         pc[p] # "serving", pc' = [pc EXCEPT ![p] = a],
         a \in Walked => pc[p] \in Walked \/ db'.versions = 1..Latest,
         role' = [role EXCEPT ![p] = r], conf' = [conf EXCEPT ![p] = c],
         UNCHANGED <<kind, now, sweep>>, file' \in BOOLEAN,
         db'.versions = db.versions \/ db'.versions = 1..Latest,
         Stamps(db') = Stamps(db), db'.sessions = db.sessions
  PROVE  StoreInv' /\ OnlyExpiredGo
<1>1. OnlyExpiredGo /\ \A m \in db'.messages : \E x \in db.messages : x.at = m.at
  BY SameRowsKept, Zenon
<1>2. Beside
  <2>1. /\ sweep' \in [Procs -> [phase : Phases, cutoff : 0..MaxNow]]
        /\ conf' \in [Procs -> Settings \cup {NoSettings}]
        /\ role' \in [Procs -> {"serve", "login"}]
    BY Zenon DEF StoreInv, SweepInv
  <2>2. \A q \in Procs :
          \/ sweep'[q] = IdleSweep
          \/ /\ sweep'[q] = sweep[q] /\ conf'[q] = conf[q]
             /\ pc[q] = "serving" => pc'[q] = "serving"
    BY Zenon DEF StoreInv, SweepInv, WalkInv
  <2>3. \A q \in Procs : pc'[q] \in Walked => pc[q] \in Walked \/ db'.versions = 1..Latest
    BY Zenon DEF StoreInv, WalkInv
  <2>4. now' \in 0..MaxNow /\ now <= now' /\ kind' = kind
    BY SMTT(40) DEF StoreInv, SweepInv
  <2> QED
    BY <1>1, <2>1, <2>2, <2>3, <2>4, Zenon DEF Beside
<1> QED
  BY <1>1, <1>2, BesideKeeps, Zenon DEF StoreInv

\* The steps up to the guard, and those of resolve_token behind it.
LEMMA StartupKeepsStore ==
  ASSUME StoreInv, NEW p \in Procs, Startup(p)
  PROVE  StoreInv' /\ OnlyExpiredGo
<1> USE DEF StoreInv
<1>1. /\ pc \in [Procs -> {"down", "create", "walk", "guard", "token", "scan", "serving"}]
      /\ role[p] \in {"serve", "login"} /\ role = [role EXCEPT ![p] = role[p]]
      /\ conf[p] \in Settings \cup {NoSettings} /\ conf = [conf EXCEPT ![p] = conf[p]]
      /\ pc = [pc EXCEPT ![p] = pc[p]]
      /\ file \in BOOLEAN /\ now \in 0..MaxNow
  BY Zenon DEF WalkInv, SweepInv
<1>2. CASE Start(p)
  <2>1. PICK r \in {"serve", "login"}, s \in Settings :
          role' = [role EXCEPT ![p] = r] /\ conf' = [conf EXCEPT ![p] = s]
    BY <1>2, Zenon DEF Start
  <2>2. /\ pc[p] = "down" /\ pc' = [pc EXCEPT ![p] = IF file THEN "walk" ELSE "create"]
        /\ UNCHANGED <<kind, file, db, writer, work, next, sweep, now, origin>>
    BY <1>2, Zenon DEF Start, fileVars, dbVars, faultVars
  <2>3. WalkInv'
    BY <1>1, <2>2, WalkUntouched, Zenon
  <2> QED
    BY <1>1, <2>1, <2>2, <2>3, StepBeside, Zenon DEF Walked
<1>3. CASE ensure_sqlite_file(p)
  <2>1. /\ pc[p] = "create" /\ pc' = [pc EXCEPT ![p] = "walk"] /\ file' = TRUE
        /\ UNCHANGED <<kind, db, writer, work, next, role, conf, sweep, now, origin>>
    BY <1>3, Zenon DEF ensure_sqlite_file, dbVars, faultVars
  <2>2. WalkInv'
    BY <1>1, <2>1, WalkUntouched, Zenon
  <2> QED
    BY <1>1, <2>1, <2>2, StepBeside, Zenon DEF Walked
<1>4. CASE LockForClaim(p) \/ SkipVersions(p) \/ ApplyVersion(p)
  <2>1. WalkInv'
    BY <1>4, LockForClaimKeeps, SkipVersionsKeeps, ApplyVersionKeeps, Zenon
  <2>2. /\ pc[p] = "walk"
        /\ UNCHANGED <<kind, file, db, pc, role, conf, sweep, now, origin>>
    BY <1>4, Zenon DEF LockForClaim, SkipVersions, ApplyVersion, ClaimInTx, fileVars, dbVars,
                procVars, faultVars
  <2> QED
    BY <1>1, <2>1, <2>2, StepBeside DEF Walked
<1>5. CASE CommitWalk(p)
  <2>1. /\ WalkInv' /\ db'.versions = 1..Latest
        /\ Stamps(db') = Stamps(db) /\ db'.sessions = db.sessions
    BY <1>5, CommitWalkKeeps, Zenon
  <2>2. /\ pc[p] = "walk"
        /\ pc' = [pc EXCEPT ![p] = IF role[p] = "serve" THEN "guard" ELSE "scan"]
        /\ UNCHANGED <<kind, file, role, conf, sweep, now>>
    BY <1>5, Zenon DEF CommitWalk, fileVars
  <2> QED
    BY <1>1, <2>1, <2>2, StepBeside, Zenon
<1>6. CASE AcquireGuard(p)
  <2>1. /\ pc[p] = "guard" /\ pc' = [pc EXCEPT ![p] = "token"]
        /\ UNCHANGED <<kind, file, db, writer, work, next, role, conf, sweep, now, origin>>
    BY <1>6, Zenon DEF AcquireGuard, fileVars, dbVars, faultVars
  <2>2. WalkInv'
    BY <1>1, <2>1, WalkUntouched, Zenon
  <2> QED
    BY <1>1, <2>1, <2>2, StepBeside, Zenon DEF Walked
<1>7. CASE LoadToken(p)
  <2>1. /\ pc[p] = "token"
        /\ UNCHANGED <<kind, file, db, writer, work, next, role, conf, sweep, now, origin>>
    BY <1>7, Zenon DEF LoadToken, fileVars, dbVars, faultVars
  <2>2. PICK a \in {"scan", "serving"} : pc' = [pc EXCEPT ![p] = a]
    BY <1>7, Zenon DEF LoadToken
  <2>3. WalkInv'
    BY <1>1, <2>1, <2>2, WalkUntouched, Zenon
  <2> QED
    BY <1>1, <2>1, <2>2, <2>3, StepBeside, Zenon DEF Walked
<1>8. CASE Busy(p) \/ GuardConflict(p) \/ TokenUnreadable(p)
  <2>1. Ends(p) /\ UNCHANGED <<kind, file, db, now, origin>>
    BY <1>8, Zenon DEF Busy, GuardConflict, TokenUnreadable, fileVars, faultVars
  <2> QED
    BY <2>1, EndsKeepsStore, Zenon
<1>9. CASE save_credentials(p)
  <2>1. /\ pc[p] = "scan" /\ writer = None
        /\ db' = [db EXCEPT !.cred = Sealed]
        /\ UNCHANGED <<kind, file, now, origin>>
    BY <1>9, Zenon DEF save_credentials, fileVars, faultVars
  <2>2. /\ Sound(db', origin) /\ db'.versions = db.versions
        /\ db'.messages = db.messages /\ db'.sessions = db.sessions
    BY <2>1, SavedCredentialsSound, Zenon DEF WalkInv
  <2>3. Stamps(db') = Stamps(db)
    BY <2>2, Zenon DEF Stamps
  <2>4. CASE role[p] = "login" /\ Ends(p)
    <3>1. /\ pc' = [pc EXCEPT ![p] = "down"] /\ role' = [role EXCEPT ![p] = "serve"]
          /\ next' = [next EXCEPT ![p] = 1] /\ conf' = [conf EXCEPT ![p] = NoSettings]
          /\ sweep' = [sweep EXCEPT ![p] = IdleSweep]
          /\ UNCHANGED <<writer, work>>
      BY <2>1, <2>4, StoreConstants, Zenon DEF Ends
    <3>2. WalkInv'
      BY <1>1, <2>1, <2>2, <3>1, DbWriteKeeps, Zenon
    <3>3. sweep' = sweep
      BY <2>1, <3>1, Zenon DEF SweepInv
    <3> QED
      BY <1>1, <2>1, <2>2, <2>3, <3>1, <3>2, <3>3, StepBeside, Zenon DEF Walked
  <2>5. CASE /\ pc' = [pc EXCEPT ![p] = "serving"]
             /\ UNCHANGED <<writer, work, role, next, conf, guard, sweep>>
    <3>1. WalkInv'
      BY <1>1, <2>1, <2>2, <2>5, DbWriteKeeps, Zenon
    <3> QED
      BY <1>1, <2>1, <2>2, <2>3, <2>5, <3>1, StepBeside, Zenon DEF Walked
  <2> QED
    BY <1>9, <2>4, <2>5, Zenon DEF save_credentials
<1> QED
  BY <1>2, <1>3, <1>4, <1>5, <1>6, <1>7, <1>8, <1>9, Zenon DEF Startup

\* The rows the handlers of a serving hub store are stamped with the clock.
LEMMA HandlersKeepStore ==
  ASSUME StoreInv, NEW p \in Procs, save_message(p) \/ set_active_session(p)
  PROVE  StoreInv' /\ OnlyExpiredGo
<1>1. /\ writer = None
      /\ UNCHANGED <<kind, file, writer, work, pc, role, next, conf, sweep, now, origin>>
  BY Zenon DEF save_message, set_active_session, fileVars, procVars, faultVars
<1>2. /\ Sound(db, origin) /\ RowsTyped(db) /\ now \in 0..MaxNow
      /\ pc \in [Procs -> {"down", "create", "walk", "guard", "token", "scan", "serving"}]
  BY Zenon DEF StoreInv, WalkInv, SweepInv, Sound
<1>3. ASSUME Sound(db', origin), db'.versions = db.versions,
             \A m \in db'.messages : m.at = now \/ m \in db.messages,
             \A s \in db'.sessions : s.at = now \/ s \in db.sessions
      PROVE  StoreInv'
  <2>1. WalkInv'
    BY <1>1, <1>2, <1>3, DbWriteKeeps, Zenon DEF StoreInv
  <2>2. Beside
    BY <1>1, <1>3 DEF StoreInv, SweepInv, Beside
  <2> QED
    BY <2>1, <2>2, BesideKeeps, Zenon DEF StoreInv
<1>4. CASE save_message(p)
  <2> DEFINE free == MessageIds \ {m.id : m \in db.messages}
  <2>1. PICK v \in Vtokens :
          /\ free # {}
          /\ db' = [db EXCEPT !.messages =
                      @ \cup {[id |-> Min(free), vt |-> <<v, "hash">>, at |-> now]}]
    BY <1>4, Zenon DEF save_message
  <2>2. Min(free) \in MessageIds
    BY <2>1, MinOfRows, StoreConstants, Zenon
  <2> HIDE DEF free
  <2> DEFINE row == [id |-> Min(free), vt |-> <<v, "hash">>, at |-> now]
             M == db.messages \cup {row}
  <2>3. /\ row = [id |-> row.id, vt |-> row.vt, at |-> row.at]
        /\ row.id \in MessageIds /\ row.at = now /\ is_vtoken_hash(row.vt)
    BY <2>2, Zenon DEF is_vtoken_hash
  <2>4. db' = [db EXCEPT !.messages = M]
    BY <2>1, <1>2, Zenon DEF RowsTyped, IsDatabase
  <2>5. IsFiniteSet(M)
    <3> HIDE DEF row
    <3> QED
      BY <1>2, FS_AddElement, Zenon DEF RowsTyped
  <2> HIDE DEF row
  <2>6. \A m \in M : m \in db.messages \/ m = row
    BY Zenon
  <2>7. db.messages \subseteq M
    OBVIOUS
  <2> HIDE DEF M
  <2>8. /\ Sound(db', origin) /\ db'.versions = db.versions
        /\ db'.messages = M /\ db'.sessions = db.sessions
    BY <1>2, <2>3, <2>4, <2>5, <2>6, MessagesSound
  <2>9. StoreInv'
    BY <1>3, <2>3, <2>6, <2>8, Zenon
  <2>10. OnlyExpiredGo
    BY <2>7, <2>8, Zenon DEF OnlyExpiredGo
  <2> QED
    BY <2>9, <2>10, Zenon
<1>5. CASE set_active_session(p)
  <2>1. PICK k \in SessionKeys :
          db' = [db EXCEPT !.sessions = {s \in @ : s.key # k} \cup {[key |-> k, at |-> now]}]
    BY <1>5, Zenon DEF set_active_session
  <2> DEFINE others == {s \in db.sessions : s.key # k}
             S == others \cup {[key |-> k, at |-> now]}
  <2>2. db' = [db EXCEPT !.sessions = S]
    BY <2>1, <1>2, Zenon DEF RowsTyped, IsDatabase
  <2>3. IsFiniteSet(S)
    <3>1. IsFiniteSet(others)
      BY <1>2, FS_Subset, Zenon DEF RowsTyped
    <3> HIDE DEF others
    <3> QED
      BY <3>1, FS_AddElement, Zenon
  <2>4. \A s \in S : s.key \in SessionKeys /\ s.at \in 0..MaxNow /\ (s.at = now \/ s \in db.sessions)
    BY <1>2, SMTT(40) DEF RowsTyped
  <2>5. ASSUME NEW s \in db.sessions PROVE \E x \in S : x.key = s.key
    <3>1. CASE s.key = k
      <4>1. [key |-> k, at |-> now] \in S /\ [key |-> k, at |-> now].key = k
        OBVIOUS
      <4> QED
        BY <3>1, <4>1, Zenon
    <3>2. CASE s.key # k
      <4>1. s \in S
        BY <3>2, Zenon
      <4> QED
        BY <4>1, Zenon
    <3> QED
      BY <3>1, <3>2, Zenon
  <2> HIDE DEF S
  <2>6. /\ Sound(db', origin) /\ db'.versions = db.versions
        /\ db'.messages = db.messages /\ db'.sessions = S
    BY <1>2, <2>2, <2>3, <2>4, SessionsSound
  <2>7. StoreInv'
    BY <1>3, <2>4, <2>6, Zenon
  <2>8. OnlyExpiredGo
    BY <2>5, <2>6, Zenon DEF OnlyExpiredGo
  <2> QED
    BY <2>7, <2>8, Zenon
<1> QED
  BY <1>4, <1>5, Zenon

\* A sweep starts from the clock and with a table it is to sweep.
LEMMA BeginSweepKeeps ==
  ASSUME StoreInv, NEW p \in Procs, BeginSweep(p)
  PROVE  StoreInv' /\ OnlyExpiredGo
<1>1. /\ pc[p] = "serving"
      /\ sweep' = [sweep EXCEPT ![p] = [phase |-> FirstPhase, cutoff |-> now]]
      /\ UNCHANGED <<kind, file, db, writer, work, pc, role, next, conf, now, origin>>
  BY Zenon DEF BeginSweep, fileVars, dbVars, procVars, faultVars
<1>2. WalkInv'
  BY <1>1, WalkUntouched, Zenon DEF StoreInv, WalkInv
<1>3. OnlyExpiredGo
  BY <1>1, SameRowsKept, Zenon
<1>4. FirstPhase \in Phases
  BY Zenon DEF FirstPhase, Phases
<1>5. /\ FirstPhase \in {"sessions", "idle"} => ~(MessagesTtl > 0)
      /\ FirstPhase = "idle" => ~(SessionsTtl > 0)
  BY Zenon DEF FirstPhase
<1> HIDE DEF FirstPhase
<1>6. /\ sweep' \in [Procs -> [phase : Phases, cutoff : 0..MaxNow]]
      /\ \A q \in Procs : sweep'[q].cutoff <= now
      /\ sweep'[p].phase = FirstPhase
      /\ \A q \in Procs \ {p} : sweep'[q] = sweep[q]
  BY <1>1, <1>4, SMTT(40) DEF StoreInv, SweepInv
<1>7. SweptClean'
  BY <1>1, <1>5, <1>6, Zenon DEF StoreInv, SweepInv, SweptClean
<1>8. \A q \in Procs : pc[q] # "serving" => sweep'[q] = IdleSweep
  BY <1>1, <1>6, Zenon DEF StoreInv, SweepInv
<1>9. SweepInv'
  BY <1>1, <1>6, <1>7, <1>8, Zenon DEF StoreInv, SweepInv
<1> QED
  BY <1>2, <1>3, <1>9, Zenon DEF StoreInv

\* Batch sizes are natural numbers.
LEMMA BatchIsNatural ==
  ASSUME NEW c \in Settings \cup {NoSettings}
  PROVE  c.batch \in Nat
<1>1. CASE c \in Settings
  <2>1. c.batch \in BatchSizes
    BY <1>1, Zenon DEF Settings
  <2> QED
    BY <2>1, StoreConstants, Zenon
<1>2. CASE c = NoSettings
  <2>1. c.batch = 1
    BY <1>2, Zenon DEF NoSettings
  <2> QED
    BY <2>1
<1> QED
  BY <1>1, <1>2, Zenon

\* A batch that is not full has taken every expired row.
LEMMA LastBatchTakesAll ==
  ASSUME NEW E, IsFiniteSet(E), NEW rows \in SUBSET E, NEW b \in Nat,
         Cardinality(rows) = Min({b, Cardinality(E)}), LastBatch(Cardinality(rows), b)
  PROVE  rows = E
<1>1. Cardinality(E) \in Nat
  BY FS_CardinalityType, Zenon
<1>2. Min({b, Cardinality(E)}) \in {b, Cardinality(E)}
  BY <1>1, MinOfRows, Zenon
<1>3. Cardinality(rows) = Cardinality(E)
  BY <1>1, <1>2 DEF LastBatch
<1> QED
  BY <1>3, FS_Subset, Zenon

\* The state after a step of the sweep of p: what the other sweeps have cleaned
\* stays clean, since rows only go, and p's own is shown case by case.
LEMMA SweepStepKeeps ==
  ASSUME StoreInv, WalkInv', NEW p \in Procs, pc[p] = "serving",
         UNCHANGED <<kind, file, pc, role, conf, now>>,
         db'.versions = db.versions,
         db'.messages \subseteq db.messages, db'.sessions \subseteq db.sessions,
         NEW ph \in Phases,
         sweep' = [sweep EXCEPT ![p].phase = ph],
         ~conf[p].dry =>
           /\ MessagesTtl > 0 /\ ph \in {"sessions", "idle"} =>
                \A m \in db'.messages : m.at >= sweep[p].cutoff - MessagesTtl
           /\ SessionsTtl > 0 /\ ph = "idle" =>
                \A s \in db'.sessions : s.at >= sweep[p].cutoff - SessionsTtl
  PROVE  SweepInv'
<1>1. /\ sweep' \in [Procs -> [phase : Phases, cutoff : 0..MaxNow]]
      /\ \A q \in Procs : sweep'[q].cutoff = sweep[q].cutoff
      /\ sweep'[p].phase = ph
      /\ \A q \in Procs \ {p} : sweep'[q] = sweep[q]
  BY Zenon DEF StoreInv, SweepInv
<1>2. ASSUME NEW q \in Procs, pc'[q] = "serving", ~conf'[q].dry
      PROVE  /\ MessagesTtl > 0 /\ sweep'[q].phase \in {"sessions", "idle"} =>
                  \A m \in db'.messages : m.at >= sweep'[q].cutoff - MessagesTtl
             /\ SessionsTtl > 0 /\ sweep'[q].phase = "idle" =>
                  \A s \in db'.sessions : s.at >= sweep'[q].cutoff - SessionsTtl
  <2>1. CASE q = p
    BY <1>1, <1>2, <2>1, Zenon
  <2>2. CASE q # p
    BY <1>1, <1>2, <2>2, Zenon DEF StoreInv, SweepInv, SweptClean
  <2> QED
    BY <2>1, <2>2, Zenon
<1>3. SweptClean'
  BY <1>2, Zenon DEF SweptClean
<1>4. \A q \in Procs : sweep'[q].cutoff <= now /\ (pc[q] # "serving" => sweep'[q] = IdleSweep)
  BY <1>1, Zenon DEF StoreInv, SweepInv
<1> QED
  BY <1>1, <1>3, <1>4, Zenon DEF StoreInv, SweepInv

\* A dry run counts rows, a batch deletes some that have expired, and the loop
\* ends at a batch that is not full.
LEMMA SweepKeeps ==
  ASSUME StoreInv, NEW p \in Procs, sweep_expired(p)
  PROVE  StoreInv' /\ OnlyExpiredGo
<1> DEFINE phase == sweep[p].phase
           E == Expired(phase, sweep[p].cutoff)
<1>1. /\ pc[p] = "serving" /\ phase # "idle"
      /\ UNCHANGED <<kind, file, writer, work, pc, role, next, conf, now, origin>>
  BY Zenon DEF sweep_expired, fileVars, procVars, faultVars
<1>2. /\ Sound(db, origin) /\ RowsTyped(db) /\ now \in 0..MaxNow
      /\ pc \in [Procs -> {"down", "create", "walk", "guard", "token", "scan", "serving"}]
      /\ sweep \in [Procs -> [phase : Phases, cutoff : 0..MaxNow]]
      /\ sweep[p].cutoff <= now /\ sweep[p].cutoff \in 0..MaxNow
      /\ MessagesTtl \in Nat /\ SessionsTtl \in Nat /\ MaxNow \in Nat
  BY StoreConstants, Zenon DEF StoreInv, WalkInv, SweepInv, Sound
<1>3. phase \in {"messages", "sessions"} /\ PhaseAfter(phase) \in {"sessions", "idle"}
  BY <1>1, <1>2, Zenon DEF Phases, PhaseAfter
<1>4. CASE conf[p].dry /\ db' = db /\ sweep' = [sweep EXCEPT ![p].phase = PhaseAfter(phase)]
  <2>1. WalkInv'
    BY <1>1, <1>2, <1>4, WalkUntouched, Zenon DEF StoreInv
  <2>2. SweepInv'
    BY <1>1, <1>3, <1>4, <2>1, SweepStepKeeps, Zenon DEF Phases
  <2>3. OnlyExpiredGo
    BY <1>4, SameRowsKept, Zenon
  <2> QED
    BY <2>1, <2>2, <2>3, Zenon DEF StoreInv
<1>5. ASSUME ~conf[p].dry, writer = None, NEW rows \in SUBSET E,
             Cardinality(rows) = Min({conf[p].batch, Cardinality(E)}),
             db' = IF phase = "messages"
                   THEN [db EXCEPT !.messages = @ \ rows]
                   ELSE [db EXCEPT !.sessions = @ \ rows],
             sweep' = IF LastBatch(Cardinality(rows), conf[p].batch)
                      THEN [sweep EXCEPT ![p].phase = PhaseAfter(phase)]
                      ELSE sweep
      PROVE  StoreInv' /\ OnlyExpiredGo
  <2>1. conf[p].batch \in Nat
    <3>1. conf[p] \in Settings \cup {NoSettings}
      BY Zenon DEF StoreInv, SweepInv
    <3> QED
      BY <3>1, BatchIsNatural, Zenon
  <2>2. CASE phase = "messages"
    <3> DEFINE M == db.messages \ rows
    <3>1. E = {m \in db.messages : m.at < sweep[p].cutoff - MessagesTtl}
      BY <2>2, Zenon DEF Expired, Cutoff, cutoff_epoch_secs
    <3>2. IsFiniteSet(E) /\ IsFiniteSet(M)
      BY <1>2, <3>1, FS_Subset, Zenon DEF RowsTyped
    <3>3. db' = [db EXCEPT !.messages = M]
      BY <1>2, <1>5, <2>2, Zenon DEF RowsTyped, IsDatabase
    <3> HIDE DEF E
    <3>4. /\ Sound(db', origin) /\ db'.versions = db.versions
          /\ db'.messages = M /\ db'.sessions = db.sessions
      <4>1. \A m \in M : m \in db.messages
        OBVIOUS
      <4>2. Sound(db, origin)
        BY <1>2, Zenon
      <4> HIDE DEF M, phase
      <4> QED
        BY <4>2, <3>2, <3>3, <4>1, MessagesSound
    <3>5. WalkInv'
      BY <1>1, <1>2, <1>5, <3>4, DbWriteKeeps, Zenon DEF StoreInv
    <3>6. OnlyExpiredGo
      <4>1. ASSUME NEW m \in db.messages, m.id \notin {x.id : x \in db'.messages}
            PROVE  m.at < now - MessagesTtl
        <5>1. m \in E /\ m.at \in 0..MaxNow
          BY <1>2, <3>4, <4>1, Zenon DEF RowsTyped
        <5> QED
          BY <1>2, <3>1, <5>1, SMTT(40)
      <4> QED
        BY <3>4, <4>1, Zenon DEF OnlyExpiredGo
    <3>7. CASE LastBatch(Cardinality(rows), conf[p].batch)
      <4>1. rows = E
        BY <1>5, <2>1, <3>2, <3>7, LastBatchTakesAll, Zenon
      <4>2. \A m \in db'.messages : m.at >= sweep[p].cutoff - MessagesTtl
        <5> TAKE m \in db'.messages
        <5>1. m \notin E /\ m \in db.messages /\ m.at \in 0..MaxNow
          BY <1>2, <3>4, <4>1, Zenon DEF RowsTyped
        <5> QED
          BY <1>2, <3>1, <5>1, SMTT(40)
      <4>3. PhaseAfter(phase) = "idle" => ~(SessionsTtl > 0)
        BY <2>2, Zenon DEF PhaseAfter
      <4>4. sweep' = [sweep EXCEPT ![p].phase = PhaseAfter(phase)]
        BY <1>5, <3>7, Zenon
      <4>5. PhaseAfter(phase) \in Phases
        BY <1>3, Zenon DEF Phases
      <4>6. db'.messages \subseteq db.messages /\ db'.sessions \subseteq db.sessions
        BY <3>4, Zenon
      <4>7. SweepInv'
        BY <1>1, <3>4, <3>5, <4>2, <4>3, <4>4, <4>5, <4>6, SweepStepKeeps, Zenon
      <4> QED
        BY <3>5, <3>6, <4>7, Zenon DEF StoreInv
    <3>8. CASE ~LastBatch(Cardinality(rows), conf[p].batch)
      <4>1. sweep' = [sweep EXCEPT ![p].phase = "messages"]
        BY <1>2, <1>5, <2>2, <3>8, Zenon
      <4>2. db'.messages \subseteq db.messages /\ db'.sessions \subseteq db.sessions
        BY <3>4, Zenon
      <4>3. SweepInv'
        BY <1>1, <3>4, <3>5, <4>1, <4>2, SweepStepKeeps, Zenon DEF Phases
      <4> QED
        BY <3>5, <3>6, <4>3, Zenon DEF StoreInv
    <3> QED
      BY <3>7, <3>8, Zenon
  <2>3. CASE phase = "sessions"
    <3> DEFINE S == db.sessions \ rows
    <3>1. E = {s \in db.sessions : s.at < sweep[p].cutoff - SessionsTtl}
      BY <2>3, Zenon DEF Expired, Cutoff, cutoff_epoch_secs
    <3>2. IsFiniteSet(E) /\ IsFiniteSet(S)
      BY <1>2, <3>1, FS_Subset, Zenon DEF RowsTyped
    <3>3. db' = [db EXCEPT !.sessions = S]
      BY <1>2, <1>5, <2>3, Zenon DEF RowsTyped, IsDatabase
    <3> HIDE DEF E
    <3>4. /\ Sound(db', origin) /\ db'.versions = db.versions
          /\ db'.messages = db.messages /\ db'.sessions = S
      <4>1. \A s \in S : s.key \in SessionKeys /\ s.at \in 0..MaxNow
        BY <1>2, Zenon DEF RowsTyped
      <4> HIDE DEF S
      <4> QED
        BY <1>2, <3>2, <3>3, <4>1, SessionsSound, SMTT(40)
    <3>5. WalkInv'
      BY <1>1, <1>2, <1>5, <3>4, DbWriteKeeps, Zenon DEF StoreInv
    <3>6. OnlyExpiredGo
      <4>1. ASSUME NEW s \in db.sessions, s.key \notin {x.key : x \in db'.sessions}
            PROVE  s.at < now - SessionsTtl
        <5>1. s \in E /\ s.at \in 0..MaxNow
          BY <1>2, <3>4, <4>1, Zenon DEF RowsTyped
        <5> QED
          BY <1>2, <3>1, <5>1, SMTT(40)
      <4> QED
        BY <3>4, <4>1, Zenon DEF OnlyExpiredGo
    <3>7. MessagesTtl > 0 => \A m \in db'.messages : m.at >= sweep[p].cutoff - MessagesTtl
      BY <1>1, <1>5, <2>3, <3>4, Zenon DEF StoreInv, SweepInv, SweptClean
    <3>8. CASE LastBatch(Cardinality(rows), conf[p].batch)
      <4>1. rows = E
        BY <1>5, <2>1, <3>2, <3>8, LastBatchTakesAll, Zenon
      <4>2. \A s \in db'.sessions : s.at >= sweep[p].cutoff - SessionsTtl
        <5> TAKE s \in db'.sessions
        <5>1. s \notin E /\ s \in db.sessions /\ s.at \in 0..MaxNow
          BY <1>2, <3>4, <4>1, Zenon DEF RowsTyped
        <5> QED
          BY <1>2, <3>1, <5>1
      <4>3. sweep' = [sweep EXCEPT ![p].phase = PhaseAfter(phase)]
        BY <1>5, <3>8, Zenon
      <4>4. PhaseAfter(phase) \in Phases
        BY <1>3, Zenon DEF Phases
      <4>5. db'.messages \subseteq db.messages /\ db'.sessions \subseteq db.sessions
        BY <3>4, Zenon
      <4>6. SweepInv'
        BY <1>1, <3>4, <3>5, <3>7, <4>2, <4>3, <4>4, <4>5, SweepStepKeeps, Zenon
      <4> QED
        BY <3>5, <3>6, <4>6, Zenon DEF StoreInv
    <3>9. CASE ~LastBatch(Cardinality(rows), conf[p].batch)
      <4>1. sweep' = [sweep EXCEPT ![p].phase = "sessions"]
        BY <1>2, <1>5, <2>3, <3>9, Zenon
      <4>2. db'.messages \subseteq db.messages /\ db'.sessions \subseteq db.sessions
        BY <3>4, Zenon
      <4>3. SweepInv'
        BY <1>1, <3>4, <3>5, <3>7, <4>1, <4>2, SweepStepKeeps, Zenon DEF Phases
      <4> QED
        BY <3>5, <3>6, <4>3, Zenon DEF StoreInv
    <3> QED
      BY <3>8, <3>9, Zenon
  <2> QED
    BY <1>3, <2>2, <2>3, Zenon
<1> QED
  BY <1>4, <1>5, Zenon DEF sweep_expired

\* The inductive invariant, and with it what a step may do to the rows.
LEMMA StoreStep ==
  ASSUME StoreInv, [Next]_vars
  PROVE  StoreInv' /\ OnlyExpiredGo
<1>1. ASSUME NEW p \in Procs, Startup(p) PROVE StoreInv' /\ OnlyExpiredGo
  BY <1>1, StartupKeepsStore, Zenon
<1>2. ASSUME NEW p \in Procs, save_message(p) \/ set_active_session(p)
      PROVE  StoreInv' /\ OnlyExpiredGo
  BY <1>2, HandlersKeepStore, Zenon
<1>3. ASSUME NEW p \in Procs, BeginSweep(p) PROVE StoreInv' /\ OnlyExpiredGo
  BY <1>3, BeginSweepKeeps, Zenon
<1>4. ASSUME NEW p \in Procs, sweep_expired(p) PROVE StoreInv' /\ OnlyExpiredGo
  BY <1>4, SweepKeeps, Zenon
<1>5. ASSUME NEW p \in Procs, Stop(p) \/ Dies(p) PROVE StoreInv' /\ OnlyExpiredGo
  <2>1. Ends(p) /\ UNCHANGED <<kind, file, db, now, origin>>
    BY <1>5, Zenon DEF Stop, Dies, fileVars, faultVars
  <2> QED
    BY <2>1, EndsKeepsStore, Zenon
<1>6. ASSUME UNCHANGED <<kind, file, db, writer, work, pc, role, next, conf, origin>>,
             now' \in 0..MaxNow, now <= now',
             sweep' \in [Procs -> [phase : Phases, cutoff : 0..MaxNow]],
             \A q \in Procs : sweep'[q] = IdleSweep \/ sweep'[q] = sweep[q]
      PROVE  StoreInv' /\ OnlyExpiredGo
  <2>1. WalkInv'
    BY <1>6, WalkUntouched, Zenon DEF StoreInv, WalkInv
  <2>2. OnlyExpiredGo /\ \A m \in db'.messages : \E x \in db.messages : x.at = m.at
    BY <1>6, SameRowsKept, Zenon
  <2>3. Beside
    BY <1>6, <2>2, Zenon DEF StoreInv, SweepInv, Beside
  <2> QED
    BY <2>1, <2>2, <2>3, BesideKeeps, Zenon DEF StoreInv
<1>7. now \in 0..MaxNow /\ MaxNow \in Nat
      /\ sweep \in [Procs -> [phase : Phases, cutoff : 0..MaxNow]]
  BY StoreConstants, Zenon DEF StoreInv, SweepInv
<1>8. ASSUME NEW p \in Procs, SweepFails(p) PROVE StoreInv' /\ OnlyExpiredGo
  <2>1. /\ sweep' = [sweep EXCEPT ![p] = IdleSweep]
        /\ UNCHANGED <<kind, file, db, writer, work, pc, role, next, conf, now, origin>>
    BY <1>8, Zenon DEF SweepFails, fileVars, dbVars, procVars, faultVars
  <2>2. IdleSweep \in [phase : Phases, cutoff : 0..MaxNow]
    BY <1>7 DEF IdleSweep, Phases
  <2> HIDE DEF IdleSweep
  <2>3. /\ sweep' \in [Procs -> [phase : Phases, cutoff : 0..MaxNow]]
        /\ \A q \in Procs : sweep'[q] = IdleSweep \/ sweep'[q] = sweep[q]
    BY <1>7, <2>1, <2>2, Zenon
  <2> QED
    BY <1>6, <1>7, <2>1, <2>3
<1>9. ASSUME NEW p \in Procs, LoseGuard(p) PROVE StoreInv' /\ OnlyExpiredGo
  <2>1. UNCHANGED <<kind, file, db, writer, work, pc, role, next, conf, sweep, now, origin>>
    BY <1>9, Zenon DEF LoseGuard, fileVars, dbVars, procVars
  <2> QED
    BY <1>6, <1>7, <2>1
<1>10. CASE Tick
  <2>1. /\ now < MaxNow /\ now' = now + 1
        /\ UNCHANGED <<kind, file, db, writer, work, pc, role, next, conf, sweep, origin>>
    BY <1>10, Zenon DEF Tick, fileVars, dbVars, procVars, faultVars
  <2> QED
    BY <1>6, <1>7, <2>1
<1>11. CASE UNCHANGED vars
  <2>1. UNCHANGED <<kind, file, db, writer, work, pc, role, next, conf, sweep, now, origin>>
    BY <1>11, Zenon DEF vars, fileVars, dbVars, procVars, faultVars
  <2> QED
    BY <1>6, <1>7, <2>1
<1> QED
  BY <1>1, <1>2, <1>3, <1>4, <1>5, <1>8, <1>9, <1>10, <1>11, Zenon DEF Next

\* It holds before the first process starts.
LEMMA StoreInit == Init => StoreInv
<1> SUFFICES ASSUME Init PROVE StoreInv
  OBVIOUS
<1>1. WalkInv
  BY WalkInit, Zenon
<1>2. 0 \in 0..MaxNow
  BY StoreConstants, SMTT(40)
<1>3. /\ kind \in Kinds /\ pc = [p \in Procs |-> "down"] /\ role = [p \in Procs |-> "serve"]
      /\ conf = [p \in Procs |-> NoSettings] /\ sweep = [p \in Procs |-> IdleSweep] /\ now = 0
  BY Zenon DEF Init
<1>4. file \in BOOLEAN
  BY Zenon DEF Init
<1>5. SweptClean
  BY <1>3, Zenon DEF SweptClean
<1>6. SweepInv
  BY <1>2, <1>3, <1>4, <1>5 DEF SweepInv, IdleSweep, Phases
<1> QED
  BY <1>1, <1>6, Zenon DEF StoreInv

\* The inductive invariant of the walk and of the sweep.
THEOREM StoreInvariance == Spec => []StoreInv
<1>1. StoreInv /\ [Next]_vars => StoreInv'
  BY StoreStep, Zenon
<1> QED
  BY <1>1, StoreInit, PTL DEF Spec

\* However often run_migrations dies and whichever processes walk at once, a
\* committed database has the schema of its versions, the secrets of the
\* clients it held converted, and the oldest conversation with each peer kept.
THEOREM MigratedAsAWhole == Spec => []MigrationsComplete
<1>1. StoreInv /\ GuardInv => MigrationsComplete
  <2> SUFFICES ASSUME StoreInv, GuardInv PROVE MigrationsComplete
    OBVIOUS
  <2>1. Sound(db, origin)
    BY Zenon DEF StoreInv, WalkInv
  <2>2. SchemaMatchesVersions
    BY <2>1, Zenon DEF Sound, Segment, SchemaMatchesVersions
  <2>3. SecretsConverted
    BY <2>1, Zenon DEF Sound, SecretsKept, SecretsConverted
  <2>4. ConversationsKept
    BY <2>1, Zenon DEF Sound, PeersKept, ConversationsKept
  <2>5. ASSUME NEW d, Sound(d, origin)
        PROVE  /\ d.versions \subseteq 1..Latest
               /\ d.cred \in {"none", "plain", "sealed"}
               /\ DOMAIN d.peers \subseteq Nat
               /\ \A m \in d.messages : m.id \in MessageIds /\ m.at \in 0..MaxNow
               /\ \A s \in d.sessions : s.key \in SessionKeys /\ s.at \in 0..MaxNow
    BY <2>5, SMTT(40) DEF Sound, RowsTyped, Segment, Latest
  <2>6. \A d \in {db, work} :
          /\ d.versions \subseteq 1..Latest
          /\ d.cred \in {"none", "plain", "sealed"}
          /\ DOMAIN d.peers \subseteq Nat
          /\ \A m \in d.messages : m.id \in MessageIds /\ m.at \in 0..MaxNow
          /\ \A s \in d.sessions : s.key \in SessionKeys /\ s.at \in 0..MaxNow
    <3>1. CASE writer # None
      BY <2>1, <2>5, <3>1, Zenon DEF StoreInv, WalkInv
    <3>2. CASE writer = None
      <4>1. work = EmptyDatabase
        BY <3>2, Zenon DEF StoreInv, WalkInv
      <4>2. /\ work.versions = {} /\ work.cred = "none" /\ DOMAIN work.peers = {}
            /\ work.messages = {} /\ work.sessions = {}
        BY <4>1, Zenon DEF EmptyDatabase
      <4> QED
        BY <2>1, <2>5, <4>2, Zenon
    <3> QED
      BY <3>1, <3>2, Zenon
  <2>7. TypeOK
    BY <2>6, Zenon DEF StoreInv, WalkInv, SweepInv, GuardInv, TypeOK
  <2> QED
    BY <2>2, <2>3, <2>4, <2>7, Zenon DEF MigrationsComplete
<1> QED
  BY <1>1, StoreInvariance, GuardInvariance, PTL

\* sweep_expired deletes rows beyond their TTL and no others, whatever is
\* renewed while it runs, and it ends only with none of them left.
THEOREM SweepRemovesTheExpired == Spec => SweepExact
<1>1. StoreInv /\ [Next]_vars =>
        [/\ \A m \in db.messages :
              m.id \notin {x.id : x \in db'.messages} => m.at < now - MessagesTtl
         /\ \A s \in db.sessions :
              s.key \notin {x.key : x \in db'.sessions} => s.at < now - SessionsTtl
         /\ SweptClean']_vars
  <2> SUFFICES ASSUME StoreInv, [Next]_vars
               PROVE  OnlyExpiredGo /\ SweptClean'
    BY Zenon DEF OnlyExpiredGo
  <2> QED
    BY StoreStep, Zenon DEF StoreInv, SweepInv
<1> QED
  BY <1>1, StoreInvariance, PTL DEF Spec, SweepExact
=============================================================================
