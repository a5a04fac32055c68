--------------------------- MODULE ClientDirectory --------------------------
(***************************************************************************)
(* Who the clients of the Hub are and where messages go: ClientRegistry    *)
(* (src/hub/registry.rs), Router (src/hub/router.rs), the tables clients   *)
(* and routing_state that outlive the process (src/store/clients.rs), the  *)
(* admin operations on them (src/server/pairing.rs), the /use command      *)
(* (src/hub/commands.rs) and the loader (src/runtime/serve.rs).            *)
(*                                                                         *)
(* Every critical section of a lock and every statement or transaction of  *)
(* the store is a step; other tasks run between the steps of an operation. *)
(* A vtoken stands for its hash.  Names are numbers because the loader     *)
(* orders clients by name.  Labels, descriptions and personas are left     *)
(* out: no step tests them.  So are the last_seen entry and the queue slot *)
(* that unregister and revoke drop as well: nothing here reads them.       *)
(***************************************************************************)
EXTENDS Integers, FiniteSets, Functions

CONSTANTS
    Names,          \* client names
    Vtokens,        \* hashes of the vtokens that may be minted
    Users,          \* WeChat users with a route of their own
    Tasks,          \* operations that may be in flight at the same time
    None,           \* no vtoken
    MaxFaults,      \* bound: failed statements and dropped requests
    MaxCrashes      \* bound: ends of the process with an operation in flight

ASSUME DirectoryConstants ==
    /\ Names \subseteq Nat \ {0}
    /\ None \notin Vtokens
    /\ "__hub_default__" \notin Users     \* no WeChat id has this form
    /\ MaxFaults \in Nat /\ MaxCrashes \in Nat

VARIABLES
    by_name,        \* ClientRegistry.by_name
    by_vtoken,      \* ClientRegistry.by_vtoken: name and online flag
    default_client, \* Router.default_client
    active_routes,  \* Router.active_routes
    clients,        \* table clients: the vtoken of each name
    routing_state,  \* table routing_state: the vtoken of each user
    task,           \* what each task is doing
    minted,         \* history: vtokens generated so far
    dead,           \* history: vtokens removed by an operation that succeeded
    faults,         \* failed statements and dropped requests so far
    crashes         \* crashes with an operation in flight so far

memory == <<by_name, by_vtoken, default_client, active_routes>>
store == <<clients, routing_state>>
vars == <<by_name, by_vtoken, default_client, active_routes, clients,
          routing_state, task, minted, dead, faults, crashes>>

HUB_DEFAULT_SENTINEL == "__hub_default__"
RouteKeys == Users \cup {HUB_DEFAULT_SENTINEL}

ClientInfo == [name : Names, online : BOOLEAN]
Operations == {"none", "register", "confirm", "unregister", "revoke", "update",
               "use"}
Steps == {"idle", "set_default", "persist_default", "upsert", "remove",
          "drop_routes", "clear_routes", "delete", "update_name",
          "persist_route", "set_route"}
Task == [op : Operations, pc : Steps,
         name : Names \cup {0},                  \* the client's (new) name
         vtoken : Vtokens \cup {None},           \* the vtoken to write
         old : Vtokens \cup {None},              \* the vtoken to remove
         new_default : Vtokens \cup {None},
         user : RouteKeys, force : BOOLEAN]
Idle == [op |-> "none", pc |-> "idle", name |-> 0, vtoken |-> None, old |-> None,
         new_default |-> None, user |-> HUB_DEFAULT_SENTINEL, force |-> FALSE]

Partial(f, S, T) == DOMAIN f \subseteq S /\ f \in [DOMAIN f -> T]

TypeOK ==
    /\ Partial(by_name, Names, Vtokens)
    /\ Partial(by_vtoken, Vtokens, ClientInfo)
    /\ default_client \in Vtokens \cup {None}
    /\ Partial(active_routes, Users, Vtokens)
    /\ Partial(clients, Names, Vtokens)
    /\ Partial(routing_state, RouteKeys, Vtokens)
    /\ task \in [Tasks -> Task]
    /\ minted \subseteq Vtokens /\ dead \subseteq minted
    /\ faults \in Nat /\ crashes \in Nat

Empty == [x \in {} |-> None]

Init ==
    /\ by_name = Empty /\ by_vtoken = Empty
    /\ default_client = None /\ active_routes = Empty
    /\ clients = Empty /\ routing_state = Empty
    /\ task = [t \in Tasks |-> Idle]
    /\ minted = {} /\ dead = {} /\ faults = 0 /\ crashes = 0
-----------------------------------------------------------------------------
Put(f, k, v) == [x \in DOMAIN f \cup {k} |-> IF x = k THEN v ELSE f[x]]
Without(f, k) == Restrict(f, DOMAIN f \ {k})

\* The vtokens pick_default_after_remove may return: HashMap order is free.
pick_default_after_remove(infos, removed) ==
    LET others == DOMAIN infos \ {removed}
        online == {v \in others : infos[v].online}
    IN  IF online # {} THEN online ELSE IF others # {} THEN others ELSE {None}

Goto(t, step) == task' = [task EXCEPT ![t].pc = step]
Finish(t) == task' = [task EXCEPT ![t] = Idle]

(***************************************************************************)
(* The first step of each operation, under the registry lock.              *)
(***************************************************************************)
\* Mutant: a vtoken that was in use before may be issued again.
AdmitReuses(t, n, op) ==
    /\ task[t].pc = "idle" /\ n \notin DOMAIN by_name
    /\ \E v \in Vtokens \ DOMAIN by_vtoken :
          /\ minted' = minted \cup {v}
          /\ by_name' = Put(by_name, n, v)
          /\ by_vtoken' = Put(by_vtoken, v, [name |-> n, online |-> FALSE])
          /\ task' = [task EXCEPT ![t] =
                [Idle EXCEPT !.op = op, !.name = n, !.vtoken = v,
                    !.pc = IF DOMAIN by_vtoken = {} THEN "set_default" ELSE "upsert"]]
    /\ UNCHANGED <<default_client, active_routes, store, dead, faults, crashes>>

\* A name the registry does not hold gets a fresh vtoken.
Admit(t, n, op) ==
    /\ task[t].pc = "idle" /\ n \notin DOMAIN by_name
    /\ \E v \in Vtokens \ minted :
          /\ minted' = minted \cup {v}
          /\ by_name' = Put(by_name, n, v)
          /\ by_vtoken' = Put(by_vtoken, v, [name |-> n, online |-> FALSE])
          /\ task' = [task EXCEPT ![t] =
                [Idle EXCEPT !.op = op, !.name = n, !.vtoken = v,
                    !.pc = IF DOMAIN by_vtoken = {} THEN "set_default" ELSE "upsert"]]
    /\ UNCHANGED <<default_client, active_routes, store, dead, faults, crashes>>

\* register_client_in_hub of a name the registry holds: nothing is minted.
RegisterExisting(t, n) ==
    /\ task[t].pc = "idle" /\ n \in DOMAIN by_name
    /\ by_vtoken' = [by_vtoken EXCEPT ![by_name[n]].online = TRUE]
    /\ task' = [task EXCEPT ![t] = [Idle EXCEPT !.op = "register", !.name = n,
                                        !.vtoken = by_name[n], !.pc = "upsert"]]
    /\ UNCHANGED <<by_name, default_client, active_routes, store, minted, dead,
                   faults, crashes>>

Register(t, n) == Admit(t, n, "register") \/ RegisterExisting(t, n)

RegisterConfirmed(t, n) == Admit(t, n, "confirm")

\* unregister_client_in_hub: the look-up, under a read lock of its own.
UnregisterLookUp(t, n) ==
    /\ task[t].pc = "idle" /\ n \in DOMAIN by_name
    /\ \E force \in BOOLEAN :
          /\ by_vtoken[by_name[n]].online => force
          /\ task' = [task EXCEPT ![t] =
                [Idle EXCEPT !.op = "unregister", !.name = n, !.old = by_name[n],
                             !.force = force, !.pc = "remove"]]
    /\ UNCHANGED <<memory, store, minted, dead, faults, crashes>>

\* unregister_client_in_hub: the removal, by name.
Remove(t) ==
    /\ task[t].pc = "remove"
    /\ LET n == task[t].name IN
       IF n \notin DOMAIN by_name
       THEN Finish(t) /\ UNCHANGED <<by_name, by_vtoken>>
       ELSE /\ by_name' = Without(by_name, n)
            /\ by_vtoken' = Without(by_vtoken, by_name[n])
            /\ \E d \in pick_default_after_remove(by_vtoken', task[t].old) :
                  task' = [task EXCEPT ![t].new_default = d,
                                       ![t].pc = "drop_routes"]
    /\ UNCHANGED <<default_client, active_routes, store, minted, dead, faults,
                   crashes>>

\* Mutant: the entry of the old vtoken stays in by_vtoken.
rotate_keeps_old(n, v) ==
    /\ by_name' = Put(by_name, n, v)
    /\ by_vtoken' = Put(by_vtoken, v, [by_vtoken[by_name[n]] EXCEPT !.online = FALSE])

\* The entry of name n moves to the fresh vtoken v, offline.
rotate_vtoken(n, v) ==
    /\ by_name' = Put(by_name, n, v)
    /\ by_vtoken' = Put(Without(by_vtoken, by_name[n]), v,
                        [by_vtoken[by_name[n]] EXCEPT !.online = FALSE])

\* revoke_client_in_hub: the rotation and the choice of another default.
Revoke(t, n) ==
    /\ task[t].pc = "idle" /\ n \in DOMAIN by_name
    /\ \E v \in Vtokens \ minted :
          /\ minted' = minted \cup {v}
          /\ rotate_vtoken(n, v)
          /\ \E d \in pick_default_after_remove(by_vtoken', by_name[n]) :
                task' = [task EXCEPT ![t] =
                   [Idle EXCEPT !.op = "revoke", !.name = n, !.vtoken = v,
                                !.old = by_name[n], !.new_default = d,
                                !.pc = "drop_routes"]]
    /\ UNCHANGED <<default_client, active_routes, store, dead, faults, crashes>>

\* The entry of name n is renamed to m, which may be n itself, unless m is taken.
update_client(n, m) ==
    /\ m = n \/ m \notin DOMAIN by_name
    /\ by_name' = Put(Without(by_name, n), m, by_name[n])
    /\ by_vtoken' = [by_vtoken EXCEPT ![by_name[n]].name = m]

\* update_client_in_hub: the registry first, then the row.
Update(t, n, m) ==
    /\ task[t].pc = "idle" /\ n \in DOMAIN by_name
    /\ update_client(n, m)
    /\ task' = [task EXCEPT ![t] = [Idle EXCEPT !.op = "update", !.name = m,
                                        !.vtoken = by_name[n], !.pc = "update_name"]]
    /\ UNCHANGED <<default_client, active_routes, store, minted, dead, faults,
                   crashes>>

\* handle_cmd_use; the dispatcher runs one command at a time.
Use(t, u, n) ==
    /\ task[t].pc = "idle" /\ n \in DOMAIN by_name
    /\ \A s \in Tasks : task[s].op # "use"
    /\ task' = [task EXCEPT ![t] = [Idle EXCEPT !.op = "use", !.user = u,
                                        !.vtoken = by_name[n], !.pc = "persist_route"]]
    /\ UNCHANGED <<memory, store, minted, dead, faults, crashes>>
-----------------------------------------------------------------------------
(***************************************************************************)
(* The later steps: the router under its lock, then the store.             *)
(***************************************************************************)
SetDefault(t) ==
    /\ task[t].pc = "set_default"
    /\ default_client' = task[t].vtoken
    /\ Goto(t, IF task[t].op = "register" THEN "persist_default" ELSE "upsert")
    /\ UNCHANGED <<by_name, by_vtoken, active_routes, store, minted, dead,
                   faults, crashes>>

PersistDefault(t) ==
    /\ task[t].pc = "persist_default"
    /\ routing_state' = Put(routing_state, HUB_DEFAULT_SENTINEL, task[t].vtoken)
    /\ Goto(t, "upsert")
    /\ UNCHANGED <<memory, clients, minted, dead, faults, crashes>>

\* Routes to the vtoken the row of name n holds follow it to vtoken v.
Moved(n, v) ==
    [k \in DOMAIN routing_state |->
        IF n \in DOMAIN clients /\ routing_state[k] = clients[n]
        THEN v ELSE routing_state[k]]

\* Store::upsert_client; another name with that vtoken fails the transaction.
Upsert(t) ==
    /\ task[t].pc = "upsert"
    /\ LET n == task[t].name
           v == task[t].vtoken
           conflict == \E m \in DOMAIN clients \ {n} : clients[m] = v
       IN  /\ clients' = IF conflict THEN clients ELSE Put(clients, n, v)
           /\ routing_state' = IF conflict THEN routing_state ELSE Moved(n, v)
           /\ dead' = IF task[t].op = "revoke" /\ ~conflict
                      THEN dead \cup {task[t].old} ELSE dead
    /\ Finish(t)
    /\ UNCHANGED <<memory, minted, faults, crashes>>

\* Router::remove_routes_for_vtoken.
DropRoutes(t) ==
    /\ task[t].pc = "drop_routes"
    /\ default_client' = IF default_client = task[t].old
                         THEN task[t].new_default ELSE default_client
    /\ active_routes' = RestrictValues(active_routes, LAMBDA v : v # task[t].old)
    /\ Goto(t, "clear_routes")
    /\ UNCHANGED <<by_name, by_vtoken, store, minted, dead, faults, crashes>>

\* Mutant: revoking leaves the rows of routing_state to upsert_client.
ClearRoutesUnlessRevoke(t) ==
    /\ task[t].pc = "clear_routes"
    /\ routing_state' = IF task[t].op = "revoke" THEN routing_state
          ELSE RestrictValues(routing_state, LAMBDA v : v # task[t].old)
    /\ Goto(t, IF task[t].op = "revoke" THEN "upsert" ELSE "delete")
    /\ UNCHANGED <<memory, clients, minted, dead, faults, crashes>>

\* clear_routes_for_vtoken, or revoke_authorizations_for_vtoken.
ClearRoutes(t) ==
    /\ task[t].pc = "clear_routes"
    /\ routing_state' = RestrictValues(routing_state, LAMBDA v : v # task[t].old)
    /\ Goto(t, IF task[t].op = "revoke" THEN "upsert" ELSE "delete")
    /\ UNCHANGED <<memory, clients, minted, dead, faults, crashes>>

\* delete_client_by_name.
DeleteClient(t) ==
    /\ task[t].pc = "delete"
    /\ clients' = Without(clients, task[t].name)
    /\ dead' = dead \cup {task[t].old}
    /\ Finish(t)
    /\ UNCHANGED <<memory, routing_state, minted, faults, crashes>>

\* Mutant: the rename reaches the registry alone.
UpdateNameSkipped(t) ==
    /\ task[t].pc = "update_name"
    /\ Finish(t)
    /\ UNCHANGED <<memory, store, minted, dead, faults, crashes>>

\* update_client_by_vtoken; a row with the new name fails the statement.
UpdateName(t) ==
    /\ task[t].pc = "update_name"
    /\ LET rows == {n \in DOMAIN clients : clients[n] = task[t].vtoken}
           taken == task[t].name \in DOMAIN clients \ rows
       IN  clients' = IF taken \/ rows = {} THEN clients
                      ELSE Put(Restrict(clients, DOMAIN clients \ rows),
                               task[t].name, task[t].vtoken)
    /\ Finish(t)
    /\ UNCHANGED <<memory, routing_state, minted, dead, faults, crashes>>

PersistRoute(t) ==
    /\ task[t].pc = "persist_route"
    /\ routing_state' = Put(routing_state, task[t].user, task[t].vtoken)
    /\ Goto(t, "set_route")
    /\ UNCHANGED <<memory, clients, minted, dead, faults, crashes>>

SetRoute(t) ==
    /\ task[t].pc = "set_route"
    /\ active_routes' = Put(active_routes, task[t].user, task[t].vtoken)
    /\ Finish(t)
    /\ UNCHANGED <<by_name, by_vtoken, default_client, store, minted, dead,
                   faults, crashes>>
-----------------------------------------------------------------------------
(***************************************************************************)
(* What goes wrong, and the rest of the Hub.                               *)
(***************************************************************************)
\* A statement fails: only registration goes on after its first one.
StatementFails(t) ==
    /\ task[t].pc \in {"persist_default", "upsert", "clear_routes", "delete",
                       "update_name", "persist_route"}
    /\ faults < MaxFaults
    /\ faults' = faults + 1
    /\ IF task[t].pc = "persist_default" THEN Goto(t, "upsert") ELSE Finish(t)
    /\ UNCHANGED <<memory, store, minted, dead, crashes>>

\* The connection of an HTTP request closes: its handler is dropped.
RequestDropped(t) ==
    /\ task[t].pc # "idle" /\ task[t].op # "use"
    /\ faults < MaxFaults
    /\ faults' = faults + 1
    /\ Finish(t)
    /\ UNCHANGED <<memory, store, minted, dead, crashes>>

\* getupdates, and the health checker, change the online flag.
MarkPresence(v) ==
    /\ by_vtoken' = [by_vtoken EXCEPT ![v].online = ~@]
    /\ UNCHANGED <<by_name, default_client, active_routes, store, task, minted,
                   dead, faults, crashes>>

PersistedDefault == IF HUB_DEFAULT_SENTINEL \in DOMAIN routing_state
                    THEN routing_state[HUB_DEFAULT_SENTINEL] ELSE None
FirstByName == IF DOMAIN clients = {} THEN None
               ELSE clients[CHOOSE n \in DOMAIN clients :
                               \A m \in DOMAIN clients : n <= m]

\* load_clients_from_db: the persisted default as read, unchecked, or else
\* the first client; of the users' routes those to known clients.
LoadClients(persisted, written) ==
    LET default == IF persisted # None THEN persisted ELSE FirstByName
        known == RestrictValues(routing_state, LAMBDA v : v \in Range(clients))
    IN  /\ by_name' = clients
        /\ by_vtoken' = [v \in Range(clients) |->
              [name |-> AntiFunction(clients)[v], online |-> FALSE]]
        /\ default_client' = default
        /\ active_routes' = Restrict(known, DOMAIN known \ {HUB_DEFAULT_SENTINEL})
        /\ routing_state' = IF default = None \/ ~written THEN routing_state
                            ELSE Put(routing_state, HUB_DEFAULT_SENTINEL, default)

\* load_clients_from_db when the clients cannot be read: the Hub starts empty.
LoadNothing ==
    /\ by_name' = Empty /\ by_vtoken' = Empty
    /\ default_client' = None /\ active_routes' = Empty
    /\ UNCHANGED routing_state

\* The process ends, at any point, and the next one loads the tables; reading
\* the clients or the default, or writing the default, may fail.
Restart ==
    /\ \/ (\A t \in Tasks : task[t].pc = "idle") /\ UNCHANGED crashes
       \/ /\ \E t \in Tasks : task[t].pc # "idle"
          /\ crashes < MaxCrashes /\ crashes' = crashes + 1
    /\ task' = [t \in Tasks |-> Idle]
    /\ \/ LoadClients(PersistedDefault, TRUE) /\ UNCHANGED faults
       \/ /\ faults < MaxFaults /\ faults' = faults + 1
          /\ \/ LoadClients(None, TRUE)
             \/ LoadClients(PersistedDefault, FALSE)
             \/ LoadNothing
    /\ UNCHANGED <<clients, minted, dead>>

Next ==
    \/ \E t \in Tasks, n \in Names :
          \/ Register(t, n) \/ RegisterConfirmed(t, n) \/ UnregisterLookUp(t, n)
          \/ Revoke(t, n)
          \/ \E m \in Names : Update(t, n, m)
          \/ \E u \in Users : Use(t, u, n)
    \/ \E t \in Tasks :
          \/ Remove(t) \/ SetDefault(t) \/ PersistDefault(t) \/ Upsert(t)
          \/ DropRoutes(t) \/ ClearRoutes(t) \/ DeleteClient(t) \/ UpdateName(t)
          \/ PersistRoute(t) \/ SetRoute(t)
          \/ StatementFails(t) \/ RequestDropped(t)
    \/ \E v \in DOMAIN by_vtoken : MarkPresence(v)
    \/ Restart

Spec == Init /\ [][Next]_vars
-----------------------------------------------------------------------------
(***************************************************************************)
(* Properties.                                                             *)
(***************************************************************************)
Quiet == \A t \in Tasks : task[t].pc = "idle"
Undisturbed == Quiet /\ faults = 0

\* The two maps of ClientRegistry are inverse to each other at every moment:
\* register, rotate_vtoken, update_client, remove and the loader keep exactly
\* one vtoken per name, whatever operations interleave, fail or are cut short.
RegistryOneToOne ==
    /\ \A n \in DOMAIN by_name : by_name[n] \in DOMAIN by_vtoken
                                   /\ by_vtoken[by_name[n]].name = n
    /\ \A v \in DOMAIN by_vtoken : by_vtoken[v].name \in DOMAIN by_name
                                   /\ by_name[by_vtoken[v].name] = v

\* Once unregister or revoke has answered with success, no later operation,
\* crash or restart brings the removed vtoken back into the registry, as long
\* as no statement failed and no request was dropped.
RemovedStaysRemoved == faults = 0 => dead \cap DOMAIN by_vtoken = {}

\* Between operations the table clients says what the registry says, so a
\* restart loads the clients that were there (upsert_client, delete and
\* update_client_by_vtoken follow every change of the registry).
TableMatchesRegistry == Undisturbed => clients = by_name

\* Between operations no route, in memory or in routing_state, leads to a
\* vtoken the registry does not hold (remove_routes_for_vtoken and
\* clear_routes_for_vtoken follow every removal).
RoutesKnown ==
    Undisturbed =>
        /\ Range(active_routes) \subseteq DOMAIN by_vtoken
        /\ \A u \in DOMAIN routing_state \ {HUB_DEFAULT_SENTINEL} :
              routing_state[u] \in DOMAIN by_vtoken

\* Between operations the default client is one the registry holds, and there
\* is one whenever there is a client (set_default on the first registration,
\* pick_default_after_remove, the loader).
DefaultKnown ==
    (Undisturbed /\ crashes = 0) =>
        IF DOMAIN by_vtoken = {} THEN default_client = None
                                 ELSE default_client \in DOMAIN by_vtoken

\* Revoking takes a client's routes away for good: when it answers, no user's
\* route has followed the client to the new vtoken (the order of the last two
\* statements of revoke_client_in_hub).
RevokedRoutesGone ==
    [][\A t \in Tasks :
          (task[t].op = "revoke" /\ task[t].pc = "upsert" /\ task'[t].pc = "idle"
             /\ faults' = 0 /\ crashes' = crashes)
          => \A u \in Users \cap DOMAIN routing_state' :
                routing_state'[u] # task[t].vtoken]_vars

\* Between operations the registry, the router and the tables tell one story:
\* the rows are the registered clients, and every route and the default lead
\* to one of them.
StoresAgree == TableMatchesRegistry /\ RoutesKnown /\ DefaultKnown
=============================================================================
