--------------------------- MODULE StoreLifecycle ---------------------------
(***************************************************************************)
(* Processes that open one database: `ilink-hub serve` and                 *)
(* `ilink-hub login`.  Each loads its configuration and its master key,    *)
(* creates the SQLite file when it is missing, connects, and walks the     *)
(* migrations in one transaction (Store::connect).  A server then takes    *)
(* the instance guard, resolves its bot token and serves, and the          *)
(* retention sweeper deletes expired rows batch by batch beside the        *)
(* handlers that write.  A login takes no guard: it waits for the scan and *)
(* stores the token.                                                       *)
(*                                                                         *)
(* A transaction works on `work`, its own copy, and becomes visible at     *)
(* commit; `writer` holds SQLite's write lock, or in PostgreSQL the row    *)
(* locks of the versions claimed and not committed.  A process may die or  *)
(* fail between any two steps.  MySQL, which the code does not support at  *)
(* runtime and which has no transactional DDL, is left out.                *)
(***************************************************************************)
EXTENDS Migrations

CONSTANTS
  Procs,         \* processes
  None,          \* no process
  Kinds,         \* database kinds tried: a subset of {"sqlite", "postgres"}
  Databases,     \* databases as earlier releases or runs left them
  Vtokens,       \* vtokens of clients and messages
  Users,         \* peers of conversations
  MessageIds,    \* rows the messages table may hold
  SessionKeys,   \* (vctx, vtoken) pairs of active_sessions
  BatchSizes,    \* ILINK_RETENTION_BATCH_SIZE values tried
  MessagesTtl,   \* ILINK_RETENTION_MESSAGES_TTL_SECS
  SessionsTtl,   \* ILINK_RETENTION_ACTIVE_SESSIONS_TTL_SECS
  MaxNow,        \* bound: ticks of the clock
  MaxLost        \* bound: guard connections lost

\* A database as a release with versions 1 to n left it: the objects of its
\* versions, canonical peers from v6 on, one row for each from v7 on, and only
\* plaintext vtokens in clients before v8.
LeftByRelease(d) ==
  /\ d = [versions |-> d.versions, schema |-> d.schema, clients |-> d.clients,
          routing |-> d.routing, peers |-> d.peers, cred |-> d.cred,
          messages |-> d.messages, sessions |-> d.sessions]
  /\ \E n \in 0..Latest : d.versions = 1..n
  /\ d.schema = SchemaOf(d.versions)
  /\ d.cred \in {"none", "plain", "sealed"}
  /\ DOMAIN d.peers \subseteq Nat
  /\ d.peers \in [DOMAIN d.peers -> Users \X {"bare", "peer", "group", "empty"}]
  /\ IsFiniteSet(d.messages) /\ IsFiniteSet(d.sessions)
  /\ \A m \in d.messages :
        /\ m = [id |-> m.id, vt |-> m.vt, at |-> m.at]
        /\ m.id \in MessageIds /\ m.at = 0
  /\ \A s \in d.sessions : s.key \in SessionKeys /\ s.at = 0
  /\ 6 \in d.versions => \A r \in DOMAIN d.peers : d.peers[r][2] # "bare"
  /\ 7 \in d.versions => Duplicates(d.peers) = {}
  /\ 8 \notin d.versions => \A t \in d.clients : ~is_vtoken_hash(t)

ASSUME StoreConstants ==
  /\ None \notin Procs
  /\ MessageIds \subseteq Nat /\ BatchSizes \subseteq Nat
  /\ MessagesTtl \in Nat /\ SessionsTtl \in Nat
  /\ MaxNow \in Nat /\ MaxLost \in Nat
  /\ \A d \in Databases : LeftByRelease(d)

VARIABLES
  kind,      \* DatabaseKind
  file,      \* whether the SQLite file exists
  db,        \* the committed database
  writer,    \* the process whose transaction holds the write lock, or None
  work,      \* the database as that transaction sees it
  pc,        \* where each process is
  role,      \* "serve" or "login"
  next,      \* the version each process claims next
  conf,      \* retention settings of each process
  guard,     \* processes that hold the instance lock
  sweep,     \* the sweep of each process: its phase and its cutoff time
  now,       \* the clock, in seconds
  origin,    \* history: whether the database found at the start had clients
             \* to convert, and its oldest conversation with each user
  lost       \* guard connections lost so far

fileVars  == <<kind, file>>
dbVars    == <<db, writer, work>>
procVars  == <<pc, role, next, conf>>
faultVars == <<origin, lost>>
vars == <<fileVars, dbVars, procVars, guard, sweep, now, faultVars>>

Phases == {"idle", "messages", "sessions"}

IdleSweep == [phase |-> "idle", cutoff |-> 0]

Settings == [dry : BOOLEAN, batch : BatchSizes]

NoSettings == [dry |-> TRUE, batch |-> 1]

\* The oldest row of a peer, before or after it got its prefix.
Oldest(peers, u) ==
  LET rows == {r \in DOMAIN peers : peers[r] \in {<<u, "bare">>, <<u, "peer">>}}
  IN  IF rows = {} THEN {} ELSE {Min(rows)}

Init ==
  /\ kind \in Kinds
  /\ db \in Databases
  /\ file = (kind = "sqlite" => db # EmptyDatabase)
  /\ origin = [client |-> db.clients # {} /\ 8 \notin db.versions,
               oldest |-> [u \in Users |-> Oldest(db.peers, u)]]
  /\ writer = None
  /\ work = EmptyDatabase
  /\ pc = [p \in Procs |-> "down"]
  /\ role = [p \in Procs |-> "serve"]
  /\ next = [p \in Procs |-> 1]
  /\ conf = [p \in Procs |-> NoSettings]
  /\ guard = {}
  /\ sweep = [p \in Procs |-> IdleSweep]
  /\ now = 0
  /\ lost = 0

\* What a process that ends leaves behind: its transaction is rolled back and
\* the kernel, or the database, drops its lock.
\* Mutant: the lock file counts as the lock and stays.
EndsLeavingLock(p) ==
  /\ pc' = [pc EXCEPT ![p] = "down"]
  /\ role' = [role EXCEPT ![p] = "serve"]
  /\ next' = [next EXCEPT ![p] = 1]
  /\ conf' = [conf EXCEPT ![p] = NoSettings]
  /\ sweep' = [sweep EXCEPT ![p] = IdleSweep]
  /\ guard' = guard
  /\ writer' = IF writer = p THEN None ELSE writer
  /\ work' = IF writer = p THEN EmptyDatabase ELSE work

Ends(p) ==
  /\ pc' = [pc EXCEPT ![p] = "down"]
  /\ role' = [role EXCEPT ![p] = "serve"]
  /\ next' = [next EXCEPT ![p] = 1]
  /\ conf' = [conf EXCEPT ![p] = NoSettings]
  /\ sweep' = [sweep EXCEPT ![p] = IdleSweep]
  /\ guard' = guard \ {p}
  /\ writer' = IF writer = p THEN None ELSE writer
  /\ work' = IF writer = p THEN EmptyDatabase ELSE work

\* RuntimeConfig::from_env refuses an enabled sweeper with empty batches.
\* Mutant: the check is dropped.
AcceptsAnySettings(s) == TRUE

AcceptsSettings(s) == s.batch > 0

Start(p) ==
  /\ pc[p] = "down"
  /\ \E r \in {"serve", "login"}, s \in Settings :
       /\ r = "serve" => AcceptsSettings(s)
       /\ r = "login" => s = NoSettings
       /\ role' = [role EXCEPT ![p] = r]
       /\ conf' = [conf EXCEPT ![p] = s]
  /\ pc' = [pc EXCEPT ![p] = IF file THEN "walk" ELSE "create"]
  /\ UNCHANGED <<fileVars, dbVars, next, guard, sweep, now, faultVars>>

\* create_new after exists() said no: a file made meanwhile is left alone.
ensure_sqlite_file(p) ==
  /\ pc[p] = "create"
  /\ file' = TRUE
  /\ pc' = [pc EXCEPT ![p] = "walk"]
  /\ UNCHANGED <<kind, dbVars, role, next, conf, guard, sweep, now, faultVars>>

Seen(p) == IF writer = p THEN work ELSE db

\* The first claim waits for the write lock: any claim in SQLite, the claim
\* of a version nobody has committed in PostgreSQL.
LockForClaim(p) ==
  /\ pc[p] = "walk"
  /\ next[p] <= Latest
  /\ writer = None
  /\ kind = "sqlite" \/ next[p] \notin db.versions
  /\ writer' = p
  /\ work' = db
  /\ UNCHANGED <<fileVars, db, procVars, guard, sweep, now, faultVars>>

\* The lock is not obtained within the busy timeout, or the snapshot is stale.
Busy(p) ==
  /\ pc[p] = "walk"
  /\ writer \notin {None, p}
  /\ Ends(p)
  /\ UNCHANGED <<fileVars, db, now, faultVars>>

\* Versions that are recorded already are passed over.
SkipVersions(p) ==
  /\ pc[p] = "walk"
  /\ next[p] \in Seen(p).versions
  /\ kind = "sqlite" => writer = p
  /\ next' = [next EXCEPT ![p] = Min((@..(Latest + 1)) \ Seen(p).versions)]
  /\ UNCHANGED <<fileVars, dbVars, pc, role, conf, guard, sweep, now, faultVars>>

\* try_claim_migration_in_tx: the claim is part of the transaction.
\* Mutant: the claim goes through the pool and commits by itself.
ClaimThroughPool(v) ==
  /\ db' = Claimed(v, db)
  /\ work' = Claimed(v, Migrated(v, work))

ClaimInTx(v) ==
  /\ db' = db
  /\ work' = Claimed(v, Migrated(v, work))

ApplyVersion(p) ==
  /\ pc[p] = "walk"
  /\ next[p] <= Latest
  /\ writer = p
  /\ next[p] \notin work.versions
  /\ Accepts(next[p], work)
  /\ ClaimInTx(next[p])
  /\ next' = [next EXCEPT ![p] = @ + 1]
  /\ UNCHANGED <<fileVars, writer, pc, role, conf, guard, sweep, now, faultVars>>

CommitWalk(p) ==
  /\ pc[p] = "walk"
  /\ next[p] > Latest
  /\ db' = Seen(p)
  /\ writer' = IF writer = p THEN None ELSE writer
  /\ work' = IF writer = p THEN EmptyDatabase ELSE work
  /\ next' = [next EXCEPT ![p] = 1]
  /\ pc' = [pc EXCEPT ![p] = IF role[p] = "serve" THEN "guard" ELSE "scan"]
  /\ UNCHANGED <<fileVars, role, conf, guard, sweep, now, faultVars>>

\* flock(LOCK_EX | LOCK_NB), or pg_try_advisory_lock.
LockFree == guard = {}

AcquireGuard(p) ==
  /\ pc[p] = "guard"
  /\ LockFree
  /\ guard' = guard \cup {p}
  /\ pc' = [pc EXCEPT ![p] = "token"]
  /\ UNCHANGED <<fileVars, dbVars, role, next, conf, sweep, now, faultVars>>

GuardConflict(p) ==
  /\ pc[p] = "guard"
  /\ ~LockFree
  /\ Ends(p)
  /\ UNCHANGED <<fileVars, db, now, faultVars>>

\* The connection that holds the advisory lock drops; nothing watches it.
LoseGuard(p) ==
  /\ kind = "postgres"
  /\ lost < MaxLost
  /\ p \in guard
  /\ guard' = guard \ {p}
  /\ lost' = lost + 1
  /\ UNCHANGED <<fileVars, dbVars, procVars, sweep, now, origin>>

\* resolve_token: the stored token, which must open with the master key; else
\* ILINK_TOKEN or a scan, both of which end in save_credentials.
LoadToken(p) ==
  /\ pc[p] = "token"
  /\ \/ db.cred = "none" /\ pc' = [pc EXCEPT ![p] = "scan"]
     \/ Opens(db.cred) /\ pc' = [pc EXCEPT ![p] = "serving"]
     \/ Opens(db.cred) /\ pc' = [pc EXCEPT ![p] = "scan"] \* malformed
  /\ UNCHANGED <<fileVars, dbVars, role, next, conf, guard, sweep, now, faultVars>>

TokenUnreadable(p) ==
  /\ pc[p] = "token"
  /\ db.cred # "none"
  /\ ~Opens(db.cred)
  /\ Ends(p)
  /\ UNCHANGED <<fileVars, db, now, faultVars>>

\* A write of a process outside the walk waits for the write lock.
save_credentials(p) ==
  /\ pc[p] = "scan"
  /\ writer = None
  /\ db' = [db EXCEPT !.cred = Sealed]
  /\ \/ role[p] = "login" /\ Ends(p)
     \/ /\ role[p] = "serve"
        /\ pc' = [pc EXCEPT ![p] = "serving"]
        /\ UNCHANGED <<writer, work, role, next, conf, guard, sweep>>
  /\ UNCHANGED <<fileVars, now, faultVars>>

\* Handlers of a serving hub: a message is stored, a session pointer renewed.
save_message(p) ==
  /\ pc[p] = "serving"
  /\ writer = None
  /\ \E v \in Vtokens :
       LET free == MessageIds \ {m.id : m \in db.messages}
       IN  /\ free # {}
           /\ db' = [db EXCEPT !.messages =
                       @ \cup {[id |-> Min(free), vt |-> <<v, "hash">>, at |-> now]}]
  /\ UNCHANGED <<fileVars, writer, work, procVars, guard, sweep, now, faultVars>>

set_active_session(p) ==
  /\ pc[p] = "serving"
  /\ writer = None
  /\ \E k \in SessionKeys :
       db' = [db EXCEPT !.sessions = {s \in @ : s.key # k} \cup {[key |-> k, at |-> now]}]
  /\ db' # db
  /\ UNCHANGED <<fileVars, writer, work, procVars, guard, sweep, now, faultVars>>

-----------------------------------------------------------------------------
(* The retention sweeper of a serving hub. *)

cutoff_epoch_secs(ttl, at) == at - ttl

FirstPhase == IF MessagesTtl > 0 THEN "messages"
              ELSE IF SessionsTtl > 0 THEN "sessions" ELSE "idle"

PhaseAfter(phase) ==
  IF phase = "messages" /\ SessionsTtl > 0 THEN "sessions" ELSE "idle"

Cutoff(phase, started) ==
  cutoff_epoch_secs(IF phase = "messages" THEN MessagesTtl ELSE SessionsTtl, started)

\* One interval has passed: the clock is read once for the whole sweep.
BeginSweep(p) ==
  /\ pc[p] = "serving"
  /\ sweep[p].phase = "idle"
  /\ sweep[p].cutoff < now
  /\ sweep' = [sweep EXCEPT ![p] = [phase |-> FirstPhase, cutoff |-> now]]
  /\ UNCHANGED <<fileVars, dbVars, procVars, guard, now, faultVars>>

\* The rows a batch may take, chosen as it deletes them.
\* Mutant: a row as old as the TTL, and one second younger, goes too.
ExpiredEarly(phase, started) ==
  IF phase = "messages"
  THEN {m \in db.messages : m.at <= Cutoff(phase, started)}
  ELSE {s \in db.sessions : s.at <= Cutoff(phase, started)}

Expired(phase, started) ==
  IF phase = "messages"
  THEN {m \in db.messages : m.at < Cutoff(phase, started)}
  ELSE {s \in db.sessions : s.at < Cutoff(phase, started)}

\* The loop ends at a batch that is not full.
LastBatch(affected, batch) == affected < batch

sweep_expired(p) ==
  LET phase   == sweep[p].phase
      expired == Expired(phase, sweep[p].cutoff)
  IN  /\ pc[p] = "serving"
      /\ phase # "idle"
      /\ \/ /\ conf[p].dry
            /\ db' = db
            /\ sweep' = [sweep EXCEPT ![p].phase = PhaseAfter(phase)]
         \/ /\ ~conf[p].dry
            /\ writer = None
            /\ \E rows \in SUBSET expired :
                 /\ Cardinality(rows) = Min({conf[p].batch, Cardinality(expired)})
                 /\ db' = IF phase = "messages"
                          THEN [db EXCEPT !.messages = @ \ rows]
                          ELSE [db EXCEPT !.sessions = @ \ rows]
                 /\ sweep' = IF LastBatch(Cardinality(rows), conf[p].batch)
                             THEN [sweep EXCEPT ![p].phase = PhaseAfter(phase)]
                             ELSE sweep
      /\ UNCHANGED <<fileVars, writer, work, procVars, guard, now, faultVars>>

\* A batch that does not get the write lock in time ends the sweep with an
\* error; the next interval starts another.
SweepFails(p) ==
  /\ sweep[p].phase # "idle"
  /\ writer # None
  /\ sweep' = [sweep EXCEPT ![p] = IdleSweep]
  /\ UNCHANGED <<fileVars, dbVars, procVars, guard, now, faultVars>>

-----------------------------------------------------------------------------
\* Only a serving hub looks at the clock.
Tick ==
  /\ now < MaxNow
  /\ \E p \in Procs : pc[p] = "serving"
  /\ now' = now + 1
  /\ UNCHANGED <<fileVars, dbVars, procVars, guard, sweep, faultVars>>

\* The shutdown flag ends a hub.
Stop(p) ==
  /\ pc[p] = "serving"
  /\ Ends(p)
  /\ UNCHANGED <<fileVars, db, now, faultVars>>

\* A process dies, or a step of it fails and the error ends it.
Dies(p) ==
  /\ pc[p] # "down"
  /\ Ends(p)
  /\ UNCHANGED <<fileVars, db, now, faultVars>>

Startup(p) ==
  \/ Start(p) \/ ensure_sqlite_file(p)
  \/ LockForClaim(p) \/ Busy(p) \/ SkipVersions(p) \/ ApplyVersion(p) \/ CommitWalk(p)
  \/ AcquireGuard(p) \/ GuardConflict(p) \/ LoadToken(p) \/ TokenUnreadable(p)
  \/ save_credentials(p)

Next ==
  \/ \E p \in Procs :
       \/ Startup(p)
       \/ save_message(p) \/ set_active_session(p)
       \/ BeginSweep(p) \/ sweep_expired(p) \/ SweepFails(p)
       \/ LoseGuard(p) \/ Stop(p) \/ Dies(p)
  \/ Tick

\* The sweeper's task, once it has begun a sweep, keeps being scheduled.
Fairness == \A p \in Procs : WF_vars(sweep_expired(p) \/ SweepFails(p))

Spec == Init /\ [][Next]_vars /\ Fairness

-----------------------------------------------------------------------------
TypeOK ==
  /\ kind \in Kinds
  /\ file \in BOOLEAN
  /\ \A d \in {db, work} :
       /\ d.versions \subseteq 1..Latest
       /\ d.cred \in {"none", "plain", "sealed"}
       /\ DOMAIN d.peers \subseteq Nat
       /\ \A m \in d.messages : m.id \in MessageIds /\ m.at \in 0..MaxNow
       /\ \A s \in d.sessions : s.key \in SessionKeys /\ s.at \in 0..MaxNow
  /\ writer \in Procs \cup {None}
  /\ pc \in [Procs -> {"down", "create", "walk", "guard", "token", "scan", "serving"}]
  /\ role \in [Procs -> {"serve", "login"}]
  /\ next \in [Procs -> 1..(Latest + 1)]
  /\ conf \in [Procs -> Settings \cup {NoSettings}]
  /\ guard \subseteq Procs
  /\ \A p \in Procs : sweep[p].phase \in Phases /\ sweep[p].cutoff \in 0..MaxNow
  /\ now \in 0..MaxNow

\* Every committed version has its schema, and only committed versions have:
\* a walk that dies between a claim and its DDL (run_migrations) leaves no
\* trace, whichever process walks first.
SchemaMatchesVersions == db.schema = SchemaOf(db.versions)

\* The conversion of v8 misses nothing: once it is committed on a database
\* that held a client, no vtoken is stored in the clear in clients,
\* routing_state or messages, and the bot token opens with the master key.
SecretsConverted ==
  8 \in db.versions /\ origin.client =>
    /\ \A t \in db.clients \cup db.routing \cup {m.vt : m \in db.messages} : is_vtoken_hash(t)
    /\ db.cred # "plain"

\* v6 and v7 keep one conversation for each peer, the oldest: no peer the
\* database knew is forgotten, and find_or_create_vctx finds one row for it.
ConversationsKept ==
  7 \in db.versions =>
    \A u \in Users :
      {r \in DOMAIN db.peers : db.peers[r] = <<u, "peer">>} = origin.oldest[u]

\* However often the walk dies and whoever walks with it, a database comes out
\* migrated as a whole: the schema its versions stand for, its secrets
\* converted and its conversations kept (run_migrations and the statements of
\* v6, v7 and v8).
MigrationsComplete ==
  TypeOK /\ SchemaMatchesVersions /\ SecretsConverted /\ ConversationsKept

\* acquire_instance_guard: two hubs never serve one database, unless the
\* connection that held the lock was lost.
OneHub ==
  lost = 0 => \A p, q \in Procs :
    {pc[p], pc[q]} \subseteq {"token", "scan", "serving"} /\ role[p] = "serve" /\ role[q] = "serve" => p = q

\* A lock is never left over: whoever holds it is a running hub, so that a
\* restart after a crash is not refused (instance_guard.rs).
LockHolderRuns == \A p \in guard : pc[p] \in {"token", "scan", "serving"} /\ role[p] = "serve"

\* The instance guard is held exactly by the one hub that runs
\* (acquire_instance_guard).
GuardExact == OneHub /\ LockHolderRuns

\* A finished sweep has left no row that had expired when it began, however
\* many batches that took; a TTL of zero turns the sweep of its table off.
SweptClean ==
  \A p \in Procs :
    pc[p] = "serving" /\ ~conf[p].dry =>
      /\ MessagesTtl > 0 /\ sweep[p].phase \in {"sessions", "idle"} =>
           \A m \in db.messages : m.at >= sweep[p].cutoff - MessagesTtl
      /\ SessionsTtl > 0 /\ sweep[p].phase = "idle" =>
           \A s \in db.sessions : s.at >= sweep[p].cutoff - SessionsTtl

\* The sweep removes the expired rows and no others.  No step removes a row
\* that is still within its TTL, also when it was renewed after the sweep had
\* read its clock, and no step ends a sweep that has left one (sweep_expired).
SweepExact ==
  [][/\ \A m \in db.messages :
          m.id \notin {x.id : x \in db'.messages} => m.at < now - MessagesTtl
     /\ \A s \in db.sessions :
          s.key \notin {x.key : x \in db'.sessions} => s.at < now - SessionsTtl
     /\ SweptClean']_vars

\* A sweep ends, or its process does (sweep_expired's loop).
SweepEnds == \A p \in Procs : sweep[p].phase # "idle" ~> sweep[p].phase = "idle"
=============================================================================
