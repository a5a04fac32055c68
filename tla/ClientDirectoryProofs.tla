------------------------ MODULE ClientDirectoryProofs -----------------------
(***************************************************************************)
(* Proofs about ClientDirectory: types, and the registry's two maps, for   *)
(* any names, vtokens and number of operations in flight, with any number  *)
(* of failures, dropped requests and crashes; then, for operations that do *)
(* not overlap, that the registry, the router and the tables tell one      *)
(* story.                                                                  *)
(***************************************************************************)
EXTENDS ClientDirectory, WellFoundedInduction, TLAPS

\* What an operation has in hand at each of its steps; m: the minted vtokens.
TaskFits(tk, m) ==
    /\ tk \in Task
    /\ \/ tk.op = "none" /\ tk.pc = "idle"
       \/ /\ tk.op \in {"register", "confirm"}
          /\ tk.pc \in {"set_default", "persist_default", "upsert"}
          /\ tk.name \in Names /\ tk.vtoken \in m
       \/ /\ tk.op = "update" /\ tk.pc = "update_name"
          /\ tk.name \in Names /\ tk.vtoken \in m
       \/ /\ tk.op = "unregister"
          /\ tk.pc \in {"remove", "drop_routes", "clear_routes", "delete"}
          /\ tk.name \in Names /\ tk.old \in m
       \/ /\ tk.op = "revoke"
          /\ tk.pc \in {"drop_routes", "clear_routes", "upsert"}
          /\ tk.name \in Names /\ tk.vtoken \in m /\ tk.old \in m
       \/ /\ tk.op = "use" /\ tk.pc \in {"persist_route", "set_route"}
          /\ tk.user \in Users /\ tk.vtoken \in m

TasksFit == \A t \in Tasks : TaskFits(task[t], minted)

\* What the registry holds was minted.
RegistryMinted == DOMAIN by_vtoken \subseteq minted

\* The unique index on the hash: no two rows of clients share a vtoken.
TableOneToOne ==
    /\ \A n \in DOMAIN clients : clients[n] \in minted
    /\ \A m, n \in DOMAIN clients : clients[m] = clients[n] => m = n

DirectoryInv ==
    /\ TypeOK
    /\ TasksFit
    /\ RegistryMinted
    /\ RegistryOneToOne
    /\ TableOneToOne

RegistryInv == RegistryMinted /\ RegistryOneToOne
RegistryTypes ==
    /\ Partial(by_name, Names, Vtokens)
    /\ Partial(by_vtoken, Vtokens, ClientInfo)
RouteTypes ==
    /\ default_client \in Vtokens \cup {None}
    /\ Partial(active_routes, Users, Vtokens)
TableTypes ==
    /\ Partial(clients, Names, Vtokens)
    /\ Partial(routing_state, RouteKeys, Vtokens)
TaskTypes == task \in [Tasks -> Task]
HistoryTypes ==
    /\ minted \subseteq Vtokens /\ dead \subseteq minted
    /\ faults \in Nat /\ crashes \in Nat
-----------------------------------------------------------------------------
(***************************************************************************)
(* Partial functions.                                                      *)
(***************************************************************************)

\* Inserting into a map keeps its type.
LEMMA PutPartial ==
    ASSUME NEW S, NEW T, NEW f, Partial(f, S, T), NEW k \in S, NEW v \in T
    PROVE  Partial(Put(f, k, v), S, T)
  BY Zenon DEF Partial, Put

\* Removing entries from a map keeps its type and the other entries.
LEMMA RestrictPartial ==
    ASSUME NEW S, NEW T, NEW f, Partial(f, S, T), NEW R, R \subseteq DOMAIN f
    PROVE  /\ Partial(Restrict(f, R), S, T)
           /\ DOMAIN Restrict(f, R) = R
           /\ \A x \in R : Restrict(f, R)[x] = f[x]
  BY Zenon DEF Partial, Restrict

\* Deleting the entry of one key.
LEMMA WithoutPartial ==
    ASSUME NEW S, NEW T, NEW f, Partial(f, S, T), NEW k
    PROVE  /\ Partial(Without(f, k), S, T)
           /\ DOMAIN Without(f, k) = DOMAIN f \ {k}
           /\ \A x \in DOMAIN f \ {k} : Without(f, k)[x] = f[x]
  BY RestrictPartial DEF Without

\* Dropping the routes to one vtoken keeps the type.
LEMMA FilterPartial ==
    ASSUME NEW S, NEW T, NEW f, Partial(f, S, T), NEW w
    PROVE  Partial(Restrict(f, {x \in DOMAIN f : f[x] # w}), S, T)
  BY RestrictPartial, Zenon

\* The empty map has every type.
LEMMA EmptyPartial ==
    ASSUME NEW S, NEW T
    PROVE  Partial(Empty, S, T) /\ DOMAIN Empty = {}
  BY Zenon DEF Partial, Empty

\* A set of names has a first one, so the loader's first client exists.
LEMMA FirstName ==
    ASSUME NEW S, S \subseteq Nat, S # {}
    PROVE  (CHOOSE n \in S : \A m \in S : n <= m) \in S
<1>1. /\ IsWellFoundedOn(OpToRel(<, Nat), Nat)
      /\ \A a, b \in Nat : a < b => <<a, b>> \in OpToRel(<, Nat)
  BY NatLessThanWellFounded, Zenon DEF OpToRel
<1>2. PICK R : /\ IsWellFoundedOn(R, Nat)
               /\ \A a, b \in Nat : a < b => <<a, b>> \in R
  BY <1>1, Zenon
<1>3. IsWellFoundedOn(R, Nat)
  BY <1>2, Zenon
<1>4. \A a, b \in Nat : a < b => <<a, b>> \in R
  BY <1>2, Zenon
<1>5. \E n \in S : \A m \in S : ~ (<<m, n>> \in R)
  BY <1>3, WFMin, Zenon
<1>6. PICK n \in S : \A m \in S : ~ (<<m, n>> \in R)
  BY <1>5, Zenon
<1>7. \A m \in S : n \in Nat /\ m \in Nat /\ ~ (m < n)
  BY <1>4, <1>6, Zenon
<1>8. \A m \in S : n <= m
  BY <1>7
<1> QED
  BY <1>8, Zenon
-----------------------------------------------------------------------------
(***************************************************************************)
(* The operations in flight.                                               *)
(***************************************************************************)

\* A task that has nothing to do fits.
LEMMA IdleFits == \A m : TaskFits(Idle, m)
  BY Zenon DEF TaskFits, Idle, Task, Operations, Steps, RouteKeys

\* Replacing one task keeps the others fit, as nothing is ever un-minted.
LEMMA TaskReplaced ==
    ASSUME DirectoryInv, NEW t \in Tasks, NEW tk, TaskFits(tk, minted'),
           minted \subseteq minted', task' = [task EXCEPT ![t] = tk]
    PROVE  TaskTypes' /\ TasksFit'
<1>1. task \in [Tasks -> Task] /\ tk \in Task
  BY Zenon DEF DirectoryInv, TypeOK, TaskFits
<1>2. \A s \in Tasks : task'[s] = IF s = t THEN tk ELSE task[s]
  BY <1>1, Zenon
<1>3. \A s \in Tasks : TaskFits(task[s], minted')
  BY DEF DirectoryInv, TasksFit, TaskFits
<1> QED
  BY <1>1, <1>2, <1>3, Zenon DEF TaskTypes, TasksFit

\* An operation ends.
LEMMA TaskFinished ==
    ASSUME DirectoryInv, NEW t \in Tasks, Finish(t), UNCHANGED minted
    PROVE  TaskTypes' /\ TasksFit'
  BY TaskReplaced, IdleFits, Zenon DEF Finish

\* An operation goes on to another step that fits what it has in hand.
LEMMA TaskMoves ==
    ASSUME DirectoryInv, NEW t \in Tasks, NEW step, Goto(t, step),
           UNCHANGED minted, TaskFits([task[t] EXCEPT !.pc = step], minted)
    PROVE  TaskTypes' /\ TasksFit'
<1>1. task' = [task EXCEPT ![t] = [task[t] EXCEPT !.pc = step]]
  BY Zenon DEF Goto
<1> QED
  BY <1>1, TaskReplaced, Zenon

\* What the invariant says of one task.
LEMMA TaskOf ==
    ASSUME DirectoryInv, NEW t \in Tasks
    PROVE  task[t] \in Task /\ TaskFits(task[t], minted)
  BY Zenon DEF DirectoryInv, TypeOK, TasksFit
-----------------------------------------------------------------------------
(***************************************************************************)
(* ClientRegistry: each of its methods keeps the two maps inverse.         *)
(***************************************************************************)

\* register and register_confirmed of a new name.
LEMMA RegistryAdmits ==
    ASSUME DirectoryInv, NEW n \in Names, n \notin DOMAIN by_name,
           NEW v \in Vtokens \ minted, minted' = minted \cup {v},
           by_name' = Put(by_name, n, v),
           by_vtoken' = Put(by_vtoken, v, [name |-> n, online |-> FALSE])
    PROVE  RegistryTypes' /\ RegistryInv'
<1> DEFINE info == [name |-> n, online |-> FALSE]
<1>1. Partial(by_name, Names, Vtokens) /\ Partial(by_vtoken, Vtokens, ClientInfo)
  BY Zenon DEF DirectoryInv, TypeOK
<1>2. info \in ClientInfo /\ info.name = n
  BY Zenon DEF ClientInfo
<1> HIDE DEF info
<1>3. /\ Partial(by_name', Names, Vtokens) /\ DOMAIN by_name' = DOMAIN by_name \cup {n}
      /\ by_name'[n] = v /\ \A x \in DOMAIN by_name \ {n} : by_name'[x] = by_name[x]
  BY <1>1, Zenon DEF Partial, Put
<1>4. /\ Partial(by_vtoken', Vtokens, ClientInfo)
      /\ DOMAIN by_vtoken' = DOMAIN by_vtoken \cup {v}
      /\ by_vtoken'[v] = info
      /\ \A x \in DOMAIN by_vtoken \ {v} : by_vtoken'[x] = by_vtoken[x]
  <2>1. by_vtoken' = Put(by_vtoken, v, info)
    BY Zenon DEF info
  <2> QED
    BY <1>1, <1>2, <2>1, Zenon DEF Partial, Put
<1>5. v \notin DOMAIN by_vtoken
  BY Zenon DEF DirectoryInv, RegistryMinted
<1>6. RegistryOneToOne'
  <2>1. ASSUME NEW x \in DOMAIN by_name'
        PROVE  by_name'[x] \in DOMAIN by_vtoken' /\ by_vtoken'[by_name'[x]].name = x
    <3>1. CASE x = n
      BY <1>2, <1>3, <1>4, <3>1, Zenon
    <3>2. CASE x # n
      <4>1. x \in DOMAIN by_name \ {n} /\ by_name'[x] = by_name[x]
        BY <1>3, <3>2, Zenon
      <4>2. by_name[x] \in DOMAIN by_vtoken /\ by_vtoken[by_name[x]].name = x
        BY <4>1, Zenon DEF DirectoryInv, RegistryOneToOne
      <4>3. by_name[x] # v /\ by_vtoken'[by_name[x]] = by_vtoken[by_name[x]]
        BY <1>4, <1>5, <4>2, Zenon
      <4> QED
        BY <1>4, <4>1, <4>2, <4>3, Zenon
    <3> QED
      BY <3>1, <3>2, Zenon
  <2>2. ASSUME NEW x \in DOMAIN by_vtoken'
        PROVE  by_vtoken'[x].name \in DOMAIN by_name' /\ by_name'[by_vtoken'[x].name] = x
    <3>1. CASE x = v
      BY <1>2, <1>3, <1>4, <3>1, Zenon
    <3>2. CASE x # v
      <4>1. x \in DOMAIN by_vtoken \ {v} /\ by_vtoken'[x] = by_vtoken[x]
        BY <1>4, <3>2, Zenon
      <4>2. by_vtoken[x].name \in DOMAIN by_name /\ by_name[by_vtoken[x].name] = x
        BY <4>1, Zenon DEF DirectoryInv, RegistryOneToOne
      <4>3. by_vtoken[x].name # n
        BY <4>2, Zenon
      <4> QED
        BY <1>3, <4>1, <4>2, <4>3, Zenon
    <3> QED
      BY <3>1, <3>2, Zenon
  <2> QED
    BY <2>1, <2>2, Zenon DEF RegistryOneToOne
<1>7. RegistryMinted'
  BY <1>4, Zenon DEF DirectoryInv, RegistryMinted
<1> QED
  BY <1>3, <1>4, <1>6, <1>7, Zenon DEF RegistryTypes, RegistryInv

\* mark_online and mark_offline.
LEMMA RegistryMarks ==
    ASSUME DirectoryInv, NEW v \in DOMAIN by_vtoken, NEW b \in BOOLEAN,
           by_vtoken' = [by_vtoken EXCEPT ![v].online = b],
           UNCHANGED <<by_name, minted>>
    PROVE  RegistryTypes' /\ RegistryInv'
<1>1. Partial(by_vtoken, Vtokens, ClientInfo)
  BY Zenon DEF DirectoryInv, TypeOK
<1>2. /\ DOMAIN by_vtoken' = DOMAIN by_vtoken
      /\ \A x \in DOMAIN by_vtoken : /\ by_vtoken'[x] \in ClientInfo
                                     /\ by_vtoken'[x].name = by_vtoken[x].name
  BY <1>1, Zenon DEF Partial, ClientInfo
<1>3. by_vtoken' \in [DOMAIN by_vtoken' -> ClientInfo]
  BY <1>2, Zenon
<1>4. RegistryOneToOne'
  BY <1>2 DEF DirectoryInv, RegistryOneToOne
<1> QED
  BY <1>1, <1>2, <1>3, <1>4, Zenon
  DEF DirectoryInv, TypeOK, RegistryTypes, RegistryInv, RegistryMinted, Partial

\* remove.
LEMMA RegistryRemoves ==
    ASSUME DirectoryInv, NEW n \in DOMAIN by_name,
           by_name' = Without(by_name, n),
           by_vtoken' = Without(by_vtoken, by_name[n]),
           UNCHANGED minted
    PROVE  RegistryTypes' /\ RegistryInv'
<1>1. Partial(by_name, Names, Vtokens) /\ Partial(by_vtoken, Vtokens, ClientInfo)
  BY Zenon DEF DirectoryInv, TypeOK
<1>2. /\ Partial(by_name', Names, Vtokens) /\ DOMAIN by_name' = DOMAIN by_name \ {n}
      /\ \A x \in DOMAIN by_name \ {n} : by_name'[x] = by_name[x]
  BY <1>1, Zenon DEF Partial, Without, Restrict
<1>3. /\ Partial(by_vtoken', Vtokens, ClientInfo)
      /\ DOMAIN by_vtoken' = DOMAIN by_vtoken \ {by_name[n]}
      /\ \A x \in DOMAIN by_vtoken \ {by_name[n]} : by_vtoken'[x] = by_vtoken[x]
  BY <1>1, Zenon DEF Partial, Without, Restrict
<1>4. RegistryOneToOne'
  <2>1. \A x \in DOMAIN by_name' : by_name'[x] \in DOMAIN by_vtoken'
                                    /\ by_vtoken'[by_name'[x]].name = x
    BY <1>2, <1>3 DEF DirectoryInv, RegistryOneToOne
  <2>2. \A x \in DOMAIN by_vtoken' : by_vtoken'[x].name \in DOMAIN by_name'
                                    /\ by_name'[by_vtoken'[x].name] = x
    BY <1>2, <1>3 DEF DirectoryInv, RegistryOneToOne
  <2> QED
    BY <2>1, <2>2, Zenon DEF RegistryOneToOne
<1> QED
  BY <1>2, <1>3, <1>4, Zenon DEF DirectoryInv, RegistryTypes, RegistryInv, RegistryMinted

\* rotate_vtoken.
LEMMA RegistryRotates ==
    ASSUME DirectoryInv, NEW n \in DOMAIN by_name,
           NEW v \in Vtokens \ minted, minted' = minted \cup {v},
           by_name' = Put(by_name, n, v),
           by_vtoken' = Put(Without(by_vtoken, by_name[n]), v,
                            [by_vtoken[by_name[n]] EXCEPT !.online = FALSE])
    PROVE  RegistryTypes' /\ RegistryInv'
<1> DEFINE old == by_name[n]
           info == [by_vtoken[old] EXCEPT !.online = FALSE]
           rest == Without(by_vtoken, old)
<1>1. Partial(by_name, Names, Vtokens) /\ Partial(by_vtoken, Vtokens, ClientInfo)
  BY Zenon DEF DirectoryInv, TypeOK
<1>2. old \in DOMAIN by_vtoken /\ by_vtoken[old].name = n
  BY Zenon DEF DirectoryInv, RegistryOneToOne
<1>3. info \in ClientInfo /\ info.name = n
  BY <1>1, <1>2, Zenon DEF ClientInfo, Partial
<1>4. /\ Partial(rest, Vtokens, ClientInfo) /\ DOMAIN rest = DOMAIN by_vtoken \ {old}
      /\ \A x \in DOMAIN by_vtoken \ {old} : rest[x] = by_vtoken[x]
  BY <1>1, Zenon DEF Partial, Without, Restrict
<1>5. by_vtoken' = Put(rest, v, info)
  OBVIOUS
<1> HIDE DEF info, rest
<1>6. /\ Partial(by_name', Names, Vtokens) /\ DOMAIN by_name' = DOMAIN by_name
      /\ by_name'[n] = v /\ \A x \in DOMAIN by_name \ {n} : by_name'[x] = by_name[x]
  BY <1>1, Zenon DEF Partial, Put
<1>7. /\ Partial(by_vtoken', Vtokens, ClientInfo)
      /\ DOMAIN by_vtoken' = (DOMAIN by_vtoken \ {old}) \cup {v}
      /\ by_vtoken'[v] = info
      /\ \A x \in DOMAIN by_vtoken \ {old, v} : by_vtoken'[x] = by_vtoken[x]
  <2>1. Partial(rest, Vtokens, ClientInfo) /\ v \in Vtokens /\ info \in ClientInfo
    BY <1>3, <1>4, Zenon
  <2>2. Partial(Put(rest, v, info), Vtokens, ClientInfo)
    BY <2>1, PutPartial, Zenon
  <2>3. /\ DOMAIN Put(rest, v, info) = DOMAIN rest \cup {v}
        /\ Put(rest, v, info)[v] = info
        /\ \A x \in DOMAIN rest \ {v} : Put(rest, v, info)[x] = rest[x]
    BY Zenon DEF Put
  <2>4. Partial(by_vtoken', Vtokens, ClientInfo) /\ by_vtoken'[v] = info
    BY <1>5, <2>2, <2>3, Zenon
  <2>5. DOMAIN by_vtoken' = DOMAIN rest \cup {v}
    BY <1>5, <2>3, Zenon
  <2>6. \A x \in DOMAIN rest \ {v} : by_vtoken'[x] = rest[x]
    BY <1>5, <2>3, Zenon
  <2>7. \A x \in DOMAIN by_vtoken \ {old, v} : by_vtoken'[x] = by_vtoken[x]
    BY <1>4, <2>6, Zenon
  <2> QED
    BY <1>4, <2>4, <2>5, <2>7, Zenon
<1>8. v \notin DOMAIN by_vtoken
  BY Zenon DEF DirectoryInv, RegistryMinted
<1>9. RegistryOneToOne'
  <2>1. ASSUME NEW x \in DOMAIN by_name'
        PROVE  by_name'[x] \in DOMAIN by_vtoken' /\ by_vtoken'[by_name'[x]].name = x
    <3>1. CASE x = n
      BY <1>3, <1>6, <1>7, <3>1, Zenon
    <3>2. CASE x # n
      <4>1. x \in DOMAIN by_name /\ by_name'[x] = by_name[x]
        BY <1>6, <3>2, Zenon
      <4>2. by_name[x] \in DOMAIN by_vtoken /\ by_vtoken[by_name[x]].name = x
        BY <4>1, Zenon DEF DirectoryInv, RegistryOneToOne
      <4>3. by_name[x] # v /\ by_name[x] # old
        BY <1>2, <1>8, <3>2, <4>2, Zenon
      <4> QED
        BY <1>7, <4>1, <4>2, <4>3, Zenon
    <3> QED
      BY <3>1, <3>2, Zenon
  <2>2. ASSUME NEW x \in DOMAIN by_vtoken'
        PROVE  by_vtoken'[x].name \in DOMAIN by_name' /\ by_name'[by_vtoken'[x].name] = x
    <3>1. CASE x = v
      BY <1>3, <1>6, <1>7, <3>1, Zenon
    <3>2. CASE x # v
      <4>1. x \in DOMAIN by_vtoken /\ x # old /\ by_vtoken'[x] = by_vtoken[x]
        BY <1>7, <3>2, Zenon
      <4>2. by_vtoken[x].name \in DOMAIN by_name /\ by_name[by_vtoken[x].name] = x
        BY <4>1, Zenon DEF DirectoryInv, RegistryOneToOne
      <4>3. by_vtoken[x].name # n
        BY <4>1, <4>2, Zenon
      <4> QED
        BY <1>6, <4>1, <4>2, <4>3, Zenon
    <3> QED
      BY <3>1, <3>2, Zenon
  <2> QED
    BY <2>1, <2>2, Zenon DEF RegistryOneToOne
<1>10. RegistryMinted'
  BY <1>7, Zenon DEF DirectoryInv, RegistryMinted
<1> QED
  BY <1>6, <1>7, <1>9, <1>10, Zenon DEF RegistryTypes, RegistryInv

\* update_client, to a free name or to the client's own.
LEMMA RegistryRenames ==
    ASSUME DirectoryInv, NEW n \in DOMAIN by_name, NEW m \in Names,
           m = n \/ m \notin DOMAIN by_name,
           by_name' = Put(Without(by_name, n), m, by_name[n]),
           by_vtoken' = [by_vtoken EXCEPT ![by_name[n]].name = m],
           UNCHANGED minted
    PROVE  RegistryTypes' /\ RegistryInv'
<1> DEFINE v == by_name[n]
           rest == Without(by_name, n)
<1>1. Partial(by_name, Names, Vtokens) /\ Partial(by_vtoken, Vtokens, ClientInfo)
  BY Zenon DEF DirectoryInv, TypeOK
<1>2. v \in DOMAIN by_vtoken /\ v \in Vtokens /\ by_vtoken[v].name = n
  BY <1>1, Zenon DEF DirectoryInv, RegistryOneToOne, Partial
<1>3. /\ Partial(rest, Names, Vtokens) /\ DOMAIN rest = DOMAIN by_name \ {n}
      /\ \A x \in DOMAIN by_name \ {n} : rest[x] = by_name[x]
  BY <1>1, Zenon DEF Partial, Without, Restrict
<1>4. by_name' = Put(rest, m, v)
  OBVIOUS
<1>5. /\ DOMAIN by_vtoken' = DOMAIN by_vtoken
      /\ by_vtoken'[v] \in ClientInfo /\ by_vtoken'[v].name = m
      /\ \A x \in DOMAIN by_vtoken \ {v} : by_vtoken'[x] = by_vtoken[x]
  BY <1>1, <1>2, Zenon DEF Partial, ClientInfo
<1> HIDE DEF rest
<1>6. /\ Partial(by_name', Names, Vtokens)
      /\ DOMAIN by_name' = (DOMAIN by_name \ {n}) \cup {m}
      /\ by_name'[m] = v
      /\ \A x \in DOMAIN by_name \ {n} : x # m /\ by_name'[x] = by_name[x]
  BY <1>2, <1>3, <1>4 DEF Partial, Put
<1>7. Partial(by_vtoken', Vtokens, ClientInfo)
  <2>1. \A x \in DOMAIN by_vtoken' : by_vtoken'[x] \in ClientInfo
    BY <1>1, <1>5, Zenon DEF Partial
  <2> QED
    BY <1>1, <1>5, <2>1, Zenon DEF Partial
<1>8. RegistryOneToOne'
  <2>1. ASSUME NEW x \in DOMAIN by_name'
        PROVE  by_name'[x] \in DOMAIN by_vtoken' /\ by_vtoken'[by_name'[x]].name = x
    <3>1. CASE x = m
      BY <1>2, <1>5, <1>6, <3>1, Zenon
    <3>2. CASE x # m
      <4>1. x \in DOMAIN by_name /\ x # n /\ by_name'[x] = by_name[x]
        BY <1>6, <3>2, Zenon
      <4>2. by_name[x] \in DOMAIN by_vtoken /\ by_vtoken[by_name[x]].name = x
        BY <4>1, Zenon DEF DirectoryInv, RegistryOneToOne
      <4>3. by_name[x] # v
        BY <1>2, <4>1, <4>2, Zenon
      <4> QED
        BY <1>5, <4>1, <4>2, <4>3, Zenon
    <3> QED
      BY <3>1, <3>2, Zenon
  <2>2. ASSUME NEW x \in DOMAIN by_vtoken'
        PROVE  by_vtoken'[x].name \in DOMAIN by_name' /\ by_name'[by_vtoken'[x].name] = x
    <3>1. CASE x = v
      BY <1>2, <1>5, <1>6, <3>1, Zenon
    <3>2. CASE x # v
      <4>1. x \in DOMAIN by_vtoken /\ by_vtoken'[x] = by_vtoken[x]
        BY <1>5, <3>2, Zenon
      <4>2. by_vtoken[x].name \in DOMAIN by_name /\ by_name[by_vtoken[x].name] = x
        BY <4>1, Zenon DEF DirectoryInv, RegistryOneToOne
      <4>3. by_vtoken[x].name # n
        BY <3>2, <4>2, Zenon
      <4> QED
        BY <1>6, <4>1, <4>2, <4>3, Zenon
    <3> QED
      BY <3>1, <3>2, Zenon
  <2> QED
    BY <2>1, <2>2, Zenon DEF RegistryOneToOne
<1> QED
  BY <1>5, <1>6, <1>7, <1>8, Zenon
  DEF DirectoryInv, RegistryTypes, RegistryInv, RegistryMinted

\* load_clients_from_db: the registry becomes the table and its inverse.
LEMMA RegistryLoads ==
    ASSUME DirectoryInv, UNCHANGED minted, by_name' = clients,
           by_vtoken' = [v \in Range(clients) |->
              [name |-> AntiFunction(clients)[v], online |-> FALSE]]
    PROVE  RegistryTypes' /\ RegistryInv'
<1>1. Partial(clients, Names, Vtokens)
  BY Zenon DEF DirectoryInv, TypeOK
<1>2. ASSUME NEW v \in Range(clients)
      PROVE  /\ AntiFunction(clients)[v] \in DOMAIN clients
             /\ clients[AntiFunction(clients)[v]] = v
  <2>1. AntiFunction(clients)[v]
           = CHOOSE s \in DOMAIN clients : v \in Range(clients) => clients[s] = v
    BY Zenon DEF AntiFunction, Inverse
  <2>2. \E s \in DOMAIN clients : v \in Range(clients) => clients[s] = v
    BY Zenon DEF Range
  <2> QED
    BY <2>1, <2>2, Zenon
<1>3. /\ DOMAIN by_vtoken' = Range(clients)
      /\ \A v \in Range(clients) :
            /\ by_vtoken'[v].name = AntiFunction(clients)[v]
            /\ by_vtoken'[v].online = FALSE
            /\ by_vtoken'[v]
                  = [name |-> AntiFunction(clients)[v], online |-> FALSE]
  OBVIOUS
<1>4. /\ \A n \in DOMAIN clients : clients[n] \in Range(clients)
      /\ Range(clients) \subseteq Vtokens /\ Range(clients) \subseteq minted
  BY <1>1, Zenon DEF Range, Partial, DirectoryInv, TableOneToOne
<1>5. \A v \in Range(clients) : AntiFunction(clients)[v] \in Names
  BY <1>1, <1>2, Zenon DEF Partial
<1>6. \A v \in Range(clients) : by_vtoken'[v] \in ClientInfo
  BY <1>3, <1>5, Zenon DEF ClientInfo
<1>7. Partial(by_vtoken', Vtokens, ClientInfo)
  BY <1>3, <1>4, <1>6, Zenon DEF Partial
<1>8. \A n \in DOMAIN clients : AntiFunction(clients)[clients[n]] = n
  BY <1>2, <1>4, Zenon DEF DirectoryInv, TableOneToOne
<1>9. RegistryOneToOne'
  BY <1>2, <1>3, <1>4, <1>8, Zenon DEF RegistryOneToOne
<1> QED
  BY <1>1, <1>3, <1>4, <1>7, <1>9, Zenon DEF RegistryTypes, RegistryInv, RegistryMinted

\* A start that cannot read the clients has an empty registry.
LEMMA RegistryEmpty ==
    ASSUME by_name' = Empty, by_vtoken' = Empty
    PROVE  RegistryTypes' /\ RegistryInv'
<1>1. DOMAIN by_name' = {} /\ DOMAIN by_vtoken' = {}
  BY EmptyPartial, Zenon
<1>2. RegistryTypes'
  BY EmptyPartial, Zenon DEF RegistryTypes
<1> QED
  BY <1>1, <1>2, Zenon DEF RegistryInv, RegistryMinted, RegistryOneToOne

\* A step that leaves the registry alone.
LEMMA RegistryKept ==
    ASSUME DirectoryInv, UNCHANGED <<by_name, by_vtoken>>, minted \subseteq minted'
    PROVE  RegistryTypes' /\ RegistryInv'
  BY Zenon DEF DirectoryInv, TypeOK, RegistryTypes, RegistryInv, RegistryMinted,
         RegistryOneToOne
-----------------------------------------------------------------------------
(***************************************************************************)
(* The table clients keeps its unique index.                               *)
(***************************************************************************)

\* A step that leaves the tables alone.
LEMMA TablesKept ==
    ASSUME DirectoryInv, UNCHANGED store, minted \subseteq minted'
    PROVE  TableTypes' /\ TableOneToOne'
  BY Zenon DEF DirectoryInv, TypeOK, TableTypes, TableOneToOne, store

\* A statement on routing_state alone.
LEMMA RoutesWritten ==
    ASSUME DirectoryInv, UNCHANGED <<clients, minted>>,
           Partial(routing_state', RouteKeys, Vtokens)
    PROVE  TableTypes' /\ TableOneToOne'
  BY Zenon DEF DirectoryInv, TypeOK, TableTypes, TableOneToOne

\* A row is written under a vtoken no other row has, and others may go.
LEMMA RowWritten ==
    ASSUME DirectoryInv, UNCHANGED minted, NEW R, R \subseteq DOMAIN clients,
           NEW n \in Names, NEW v \in minted,
           \A m \in R \ {n} : clients[m] # v,
           clients' = Put(Restrict(clients, R), n, v),
           Partial(routing_state', RouteKeys, Vtokens)
    PROVE  TableTypes' /\ TableOneToOne'
<1>1. Partial(clients, Names, Vtokens) /\ v \in Vtokens
  BY Zenon DEF DirectoryInv, TypeOK
<1>2. /\ Partial(Restrict(clients, R), Names, Vtokens)
      /\ DOMAIN Restrict(clients, R) = R
      /\ \A x \in R : Restrict(clients, R)[x] = clients[x]
  BY <1>1, Zenon DEF Partial, Restrict
<1>3. /\ Partial(clients', Names, Vtokens)
      /\ DOMAIN clients' = R \cup {n}
      /\ clients'[n] = v /\ \A x \in R \ {n} : clients'[x] = clients[x]
  BY <1>1, <1>2, Zenon DEF Partial, Put
<1>4. \A x \in DOMAIN clients' : clients'[x] \in minted
  BY <1>3, Zenon DEF DirectoryInv, TableOneToOne
<1>5. ASSUME NEW x \in DOMAIN clients', NEW y \in DOMAIN clients',
             clients'[x] = clients'[y]
      PROVE  x = y
  BY <1>3, <1>5, Zenon DEF DirectoryInv, TableOneToOne
<1> QED
  BY <1>3, <1>4, <1>5, Zenon DEF TableTypes, TableOneToOne

\* Store::upsert_client inserts or replaces one row, or fails.
LEMMA UpsertKeepsTable ==
    ASSUME DirectoryInv, NEW t \in Tasks, Upsert(t)
    PROVE  TableTypes' /\ TableOneToOne'
<1> DEFINE n == task[t].name
           v == task[t].vtoken
           conflict == \E m \in DOMAIN clients \ {n} : clients[m] = v
<1>1. n \in Names /\ v \in minted /\ v \in Vtokens
  BY TaskOf, Zenon DEF Upsert, TaskFits, DirectoryInv, TypeOK
<1>2. /\ clients' = IF conflict THEN clients ELSE Put(clients, n, v)
      /\ routing_state' = IF conflict THEN routing_state ELSE Moved(n, v)
      /\ UNCHANGED minted
  BY Zenon DEF Upsert
<1>3. Partial(clients, Names, Vtokens) /\ Partial(routing_state, RouteKeys, Vtokens)
  BY Zenon DEF DirectoryInv, TypeOK
<1>4. Partial(routing_state', RouteKeys, Vtokens)
  BY <1>1, <1>2, <1>3, Zenon DEF Moved, Partial
<1>5. CASE conflict
  BY <1>2, <1>4, <1>5, RoutesWritten, Zenon
<1>6. CASE ~conflict
  <2>1. Restrict(clients, DOMAIN clients) = clients
    BY <1>3, Zenon DEF Restrict, Partial
  <2>2. /\ clients' = Put(Restrict(clients, DOMAIN clients), n, v)
        /\ \A m \in DOMAIN clients \ {n} : clients[m] # v
    BY <1>2, <1>6, <2>1, Zenon
  <2> HIDE DEF n, v
  <2> QED
    BY <1>1, <1>2, <1>4, <2>2, RowWritten
<1> QED
  BY <1>5, <1>6, Zenon

\* update_client_by_vtoken moves the row of a vtoken to another name, or fails.
LEMMA UpdateKeepsTable ==
    ASSUME DirectoryInv, NEW t \in Tasks, UpdateName(t)
    PROVE  TableTypes' /\ TableOneToOne'
<1> DEFINE n == task[t].name
           v == task[t].vtoken
           rows == {m \in DOMAIN clients : clients[m] = v}
           R == DOMAIN clients \ rows
<1>1. n \in Names /\ v \in minted
  BY TaskOf, Zenon DEF UpdateName, TaskFits
<1>2. /\ clients' = IF n \in R \/ rows = {} THEN clients
                    ELSE Put(Restrict(clients, R), n, v)
      /\ UNCHANGED <<minted, routing_state>>
  BY Zenon DEF UpdateName
<1>3. Partial(routing_state', RouteKeys, Vtokens)
  BY <1>2, Zenon DEF DirectoryInv, TypeOK
<1>4. R \subseteq DOMAIN clients /\ \A m \in R \ {n} : clients[m] # v
  OBVIOUS
<1>5. CASE n \in R \/ rows = {}
  BY <1>2, <1>3, <1>5, RoutesWritten, Zenon
<1>6. CASE ~(n \in R \/ rows = {})
  <2>1. clients' = Put(Restrict(clients, R), n, v)
    BY <1>2, <1>6, Zenon
  <2> HIDE DEF n, v, R
  <2> QED
    BY <1>1, <1>2, <1>3, <1>4, <2>1, RowWritten
<1> QED
  BY <1>5, <1>6, Zenon

\* delete_client_by_name.
LEMMA DeleteKeepsTable ==
    ASSUME DirectoryInv, NEW t \in Tasks, DeleteClient(t)
    PROVE  TableTypes' /\ TableOneToOne'
<1>1. Partial(clients, Names, Vtokens) /\ Partial(routing_state, RouteKeys, Vtokens)
  BY Zenon DEF DirectoryInv, TypeOK
<1>2. clients' = Without(clients, task[t].name) /\ UNCHANGED <<minted, routing_state>>
  BY Zenon DEF DeleteClient
<1>3. /\ Partial(clients', Names, Vtokens)
      /\ DOMAIN clients' = DOMAIN clients \ {task[t].name}
      /\ \A x \in DOMAIN clients \ {task[t].name} : clients'[x] = clients[x]
  BY <1>1, <1>2, Zenon DEF Partial, Without, Restrict
<1>4. TableOneToOne'
  BY <1>2, <1>3 DEF DirectoryInv, TableOneToOne
<1> QED
  BY <1>1, <1>2, <1>3, <1>4, Zenon DEF TableTypes
-----------------------------------------------------------------------------
(***************************************************************************)
(* The steps of the operations.                                            *)
(***************************************************************************)

\* The parts of the invariant, put together again.
LEMMA Assemble ==
    ASSUME RegistryTypes', RegistryInv', RouteTypes', TableTypes',
           TableOneToOne', TaskTypes', TasksFit', HistoryTypes'
    PROVE  DirectoryInv'
  BY Zenon DEF DirectoryInv, TypeOK, RegistryTypes, RegistryInv, RouteTypes,
         TableTypes, TaskTypes, HistoryTypes

\* A step that leaves the router alone.
LEMMA RouterKept ==
    ASSUME DirectoryInv, UNCHANGED <<default_client, active_routes>>
    PROVE  RouteTypes'
  BY Zenon DEF DirectoryInv, TypeOK, RouteTypes

\* The default picked after a removal is a vtoken of the registry, or none.
LEMMA PickedType ==
    ASSUME NEW infos, DOMAIN infos \subseteq Vtokens, NEW removed,
           NEW d \in pick_default_after_remove(infos, removed)
    PROVE  d \in Vtokens \cup {None}
  BY Zenon DEF pick_default_after_remove

\* register and register_confirmed of a new name keep the invariant.
LEMMA AdmitStep ==
    ASSUME DirectoryInv, NEW t \in Tasks, NEW n \in Names,
           NEW op \in {"register", "confirm"}, Admit(t, n, op)
    PROVE  DirectoryInv'
<1>1. PICK v \in Vtokens \ minted :
         /\ minted' = minted \cup {v}
         /\ by_name' = Put(by_name, n, v)
         /\ by_vtoken' = Put(by_vtoken, v, [name |-> n, online |-> FALSE])
         /\ task' = [task EXCEPT ![t] =
               [Idle EXCEPT !.op = op, !.name = n, !.vtoken = v,
                   !.pc = IF DOMAIN by_vtoken = {} THEN "set_default" ELSE "upsert"]]
  BY Zenon DEF Admit
<1>2. /\ n \notin DOMAIN by_name
      /\ UNCHANGED <<default_client, active_routes, store, dead, faults, crashes>>
  BY Zenon DEF Admit
<1>3. RegistryTypes' /\ RegistryInv'
  BY <1>1, <1>2, RegistryAdmits, Zenon
<1>4. PICK pc \in {"set_default", "upsert"} :
         task' = [task EXCEPT ![t] = [Idle EXCEPT !.op = op, !.name = n,
                                          !.vtoken = v, !.pc = pc]]
  BY <1>1, Zenon
<1>5. TaskFits([Idle EXCEPT !.op = op, !.name = n, !.vtoken = v, !.pc = pc], minted')
  BY <1>1, Zenon DEF TaskFits, Idle, Task, Operations, Steps, RouteKeys
<1>6. TaskTypes' /\ TasksFit'
  BY <1>1, <1>4, <1>5, TaskReplaced, Zenon
<1>7. TableTypes' /\ TableOneToOne' /\ RouteTypes'
  BY <1>1, <1>2, TablesKept, RouterKept, Zenon
<1>8. HistoryTypes'
  BY <1>1, <1>2, Zenon DEF DirectoryInv, TypeOK, HistoryTypes
<1> QED
  BY <1>3, <1>6, <1>7, <1>8, Assemble, Zenon

\* rotate_vtoken, the first step of revoke, keeps the invariant.
LEMMA RevokeStep ==
    ASSUME DirectoryInv, NEW t \in Tasks, NEW n \in Names, Revoke(t, n)
    PROVE  DirectoryInv'
<1>1. PICK v \in Vtokens \ minted :
         /\ minted' = minted \cup {v}
         /\ by_name' = Put(by_name, n, v)
         /\ by_vtoken' = Put(Without(by_vtoken, by_name[n]), v,
                             [by_vtoken[by_name[n]] EXCEPT !.online = FALSE])
         /\ \E d \in pick_default_after_remove(by_vtoken', by_name[n]) :
               task' = [task EXCEPT ![t] =
                  [Idle EXCEPT !.op = "revoke", !.name = n, !.vtoken = v,
                               !.old = by_name[n], !.new_default = d,
                               !.pc = "drop_routes"]]
  BY Zenon DEF Revoke, rotate_vtoken
<1>2. /\ n \in DOMAIN by_name
      /\ UNCHANGED <<default_client, active_routes, store, dead, faults, crashes>>
  BY Zenon DEF Revoke, rotate_vtoken
<1>3. RegistryTypes' /\ RegistryInv'
  BY <1>1, <1>2, RegistryRotates, Zenon
<1>4. PICK d \in pick_default_after_remove(by_vtoken', by_name[n]) :
         task' = [task EXCEPT ![t] =
            [Idle EXCEPT !.op = "revoke", !.name = n, !.vtoken = v,
                         !.old = by_name[n], !.new_default = d,
                         !.pc = "drop_routes"]]
  BY <1>1, Zenon
<1>5. d \in Vtokens \cup {None}
  BY <1>3, <1>4, PickedType, Zenon DEF RegistryTypes, Partial
<1>6. by_name[n] \in minted /\ by_name[n] \in Vtokens
  BY <1>2, Zenon DEF DirectoryInv, RegistryOneToOne, RegistryMinted, TypeOK
<1>7. TaskFits([Idle EXCEPT !.op = "revoke", !.name = n, !.vtoken = v,
                            !.old = by_name[n], !.new_default = d,
                            !.pc = "drop_routes"], minted')
  BY <1>1, <1>5, <1>6, Zenon DEF TaskFits, Idle, Task, Operations, Steps, RouteKeys
<1>8. TaskTypes' /\ TasksFit'
  BY <1>1, <1>4, <1>7, TaskReplaced, Zenon
<1>9. TableTypes' /\ TableOneToOne' /\ RouteTypes'
  BY <1>1, <1>2, TablesKept, RouterKept, Zenon
<1>10. HistoryTypes'
  BY <1>1, <1>2, Zenon DEF DirectoryInv, TypeOK, HistoryTypes
<1> QED
  BY <1>3, <1>8, <1>9, <1>10, Assemble, Zenon

\* The first step of the operations that mint nothing keeps the invariant.
LEMMA LookUpStep ==
    ASSUME DirectoryInv, NEW t \in Tasks, NEW n \in Names,
           \/ RegisterExisting(t, n) \/ UnregisterLookUp(t, n)
           \/ \E m \in Names : Update(t, n, m)
           \/ \E u \in Users : Use(t, u, n)
    PROVE  DirectoryInv'
<1>1. /\ n \in DOMAIN by_name
      /\ UNCHANGED <<default_client, active_routes, store, minted, dead, faults,
                     crashes>>
  BY Zenon DEF RegisterExisting, UnregisterLookUp, Update, update_client, Use, memory
<1>2. PICK v \in Vtokens : v = by_name[n] /\ v \in minted /\ v \in DOMAIN by_vtoken
  BY <1>1, Zenon DEF DirectoryInv, RegistryOneToOne, RegistryMinted, TypeOK
<1>3. TableTypes' /\ TableOneToOne' /\ RouteTypes'
  BY <1>1, TablesKept, RouterKept, Zenon
<1>4. HistoryTypes'
  BY <1>1, Zenon DEF DirectoryInv, TypeOK, HistoryTypes
<1>5. RegistryTypes' /\ RegistryInv'
  <2>1. CASE RegisterExisting(t, n)
    BY <1>1, <1>2, <2>1, RegistryMarks, Zenon DEF RegisterExisting
  <2>2. CASE UnregisterLookUp(t, n) \/ \E u \in Users : Use(t, u, n)
    BY <1>1, <2>2, RegistryKept, Zenon DEF UnregisterLookUp, Use, memory
  <2>3. ASSUME NEW m \in Names, Update(t, n, m)
        PROVE  RegistryTypes' /\ RegistryInv'
    BY <1>1, <2>3, RegistryRenames, Zenon DEF Update, update_client
  <2> QED
    BY <2>1, <2>2, <2>3, Zenon
<1>6. TaskTypes' /\ TasksFit'
  <2> SUFFICES \E tk : TaskFits(tk, minted) /\ task' = [task EXCEPT ![t] = tk]
    BY <1>1, TaskReplaced, Zenon
  <2> USE DEF TaskFits, Idle, Task, Operations, Steps, RouteKeys
  <2>1. CASE RegisterExisting(t, n)
    <3> DEFINE tk == [Idle EXCEPT !.op = "register", !.name = n, !.vtoken = v,
                                  !.pc = "upsert"]
    <3>1. TaskFits(tk, minted)
      BY <1>2, Zenon
    <3>2. task' = [task EXCEPT ![t] = tk]
      BY <1>2, <2>1, Zenon DEF RegisterExisting
    <3> QED
      BY <3>1, <3>2, Zenon
  <2>2. CASE UnregisterLookUp(t, n)
    <3>1. PICK force \in BOOLEAN : task' = [task EXCEPT ![t] =
                [Idle EXCEPT !.op = "unregister", !.name = n, !.old = v,
                             !.force = force, !.pc = "remove"]]
      BY <1>2, <2>2, Zenon DEF UnregisterLookUp
    <3> DEFINE tk == [Idle EXCEPT !.op = "unregister", !.name = n, !.old = v,
                                  !.force = force, !.pc = "remove"]
    <3>2. TaskFits(tk, minted)
      BY <1>2, Zenon
    <3> QED
      BY <3>1, <3>2, Zenon
  <2>3. ASSUME NEW m \in Names, Update(t, n, m)
        PROVE  \E tk : TaskFits(tk, minted) /\ task' = [task EXCEPT ![t] = tk]
    <3> DEFINE tk == [Idle EXCEPT !.op = "update", !.name = m, !.vtoken = v,
                                  !.pc = "update_name"]
    <3>1. TaskFits(tk, minted)
      BY <1>2, Zenon
    <3>2. task' = [task EXCEPT ![t] = tk]
      BY <1>2, <2>3, Zenon DEF Update, update_client
    <3> QED
      BY <3>1, <3>2, Zenon
  <2>4. ASSUME NEW u \in Users, Use(t, u, n)
        PROVE  \E tk : TaskFits(tk, minted) /\ task' = [task EXCEPT ![t] = tk]
    <3> DEFINE tk == [Idle EXCEPT !.op = "use", !.user = u, !.vtoken = v,
                                  !.pc = "persist_route"]
    <3>1. TaskFits(tk, minted)
      BY <1>2, <2>4, Zenon
    <3>2. task' = [task EXCEPT ![t] = tk]
      BY <1>2, <2>4, Zenon DEF Use
    <3> QED
      BY <3>1, <3>2, Zenon
  <2> QED
    BY <2>1, <2>2, <2>3, <2>4, Zenon
<1> QED
  BY <1>3, <1>4, <1>5, <1>6, Assemble, Zenon

\* The steps that write the router, or nothing but the task, keep the invariant.
LEMMA RouterStep ==
    ASSUME DirectoryInv, NEW t \in Tasks,
           SetDefault(t) \/ DropRoutes(t) \/ SetRoute(t)
    PROVE  DirectoryInv'
<1>1. UNCHANGED <<by_name, by_vtoken, store, minted, dead, faults, crashes>>
  BY Zenon DEF SetDefault, DropRoutes, SetRoute
<1>2. RegistryTypes' /\ RegistryInv' /\ TableTypes' /\ TableOneToOne'
  BY <1>1, RegistryKept, TablesKept, Zenon
<1>3. HistoryTypes'
  BY <1>1, Zenon DEF DirectoryInv, TypeOK, HistoryTypes
<1>4. task[t] \in Task /\ TaskFits(task[t], minted)
  BY TaskOf, Zenon
<1>5. /\ default_client \in Vtokens \cup {None}
      /\ Partial(active_routes, Users, Vtokens) /\ minted \subseteq Vtokens
  BY Zenon DEF DirectoryInv, TypeOK
<1>6. CASE SetDefault(t)
  <2>1. RouteTypes'
    BY <1>4, <1>5, <1>6, Zenon DEF SetDefault, RouteTypes, TaskFits
  <2>2. PICK step \in {"persist_default", "upsert"} : Goto(t, step)
    BY <1>6, Zenon DEF SetDefault
  <2>3. TaskFits([task[t] EXCEPT !.pc = step], minted)
    BY <1>4, <1>6, Zenon DEF SetDefault, TaskFits, Task, Steps
  <2> QED
    BY <1>1, <1>2, <1>3, <2>1, <2>2, <2>3, TaskMoves, Assemble, Zenon
<1>7. CASE DropRoutes(t)
  <2>1. Partial(active_routes', Users, Vtokens)
    <3>1. active_routes' = Restrict(active_routes,
             {x \in DOMAIN active_routes : active_routes[x] # task[t].old})
      BY <1>7, Zenon DEF DropRoutes, RestrictValues
    <3> QED
      BY <1>5, <3>1, FilterPartial, Zenon
  <2>2. RouteTypes'
    BY <1>4, <1>5, <1>7, <2>1, Zenon DEF DropRoutes, RouteTypes, Task
  <2>3. TaskFits([task[t] EXCEPT !.pc = "clear_routes"], minted)
    BY <1>4, <1>7, Zenon DEF DropRoutes, TaskFits, Task, Steps
  <2>4. TaskTypes' /\ TasksFit'
    BY <1>1, <1>7, <2>3, TaskMoves, Zenon DEF DropRoutes
  <2> QED
    BY <1>2, <1>3, <2>2, <2>4, Assemble, Zenon
<1>8. CASE SetRoute(t)
  <2>1. task[t].user \in Users /\ task[t].vtoken \in Vtokens
    BY <1>4, <1>5, <1>8, Zenon DEF SetRoute, TaskFits
  <2>2. Partial(active_routes', Users, Vtokens)
    BY <1>5, <1>8, <2>1, PutPartial, Zenon DEF SetRoute
  <2>3. RouteTypes'
    BY <1>5, <1>8, <2>2, Zenon DEF SetRoute, RouteTypes
  <2>4. TaskTypes' /\ TasksFit'
    BY <1>1, <1>8, TaskFinished, Zenon DEF SetRoute
  <2> QED
    BY <1>2, <1>3, <2>3, <2>4, Assemble, Zenon
<1> QED
  BY <1>6, <1>7, <1>8, Zenon

\* The statements on the table clients keep the invariant.
LEMMA ClientsStep ==
    ASSUME DirectoryInv, NEW t \in Tasks,
           Upsert(t) \/ DeleteClient(t) \/ UpdateName(t)
    PROVE  DirectoryInv'
<1>1. UNCHANGED <<by_name, by_vtoken, default_client, active_routes, minted,
                  faults, crashes>> /\ Finish(t)
  BY Zenon DEF Upsert, DeleteClient, UpdateName, memory
<1>2. RegistryTypes' /\ RegistryInv' /\ RouteTypes' /\ TaskTypes' /\ TasksFit'
  BY <1>1, RegistryKept, RouterKept, TaskFinished, Zenon
<1>3. TableTypes' /\ TableOneToOne'
  BY UpsertKeepsTable, DeleteKeepsTable, UpdateKeepsTable, Zenon
<1>4. dead' \subseteq minted
  <2>1. TaskFits(task[t], minted) /\ dead \subseteq minted
    BY TaskOf, Zenon DEF DirectoryInv, TypeOK
  <2>2. CASE Upsert(t)
    BY <2>1, <2>2, Zenon DEF Upsert, TaskFits
  <2>3. CASE DeleteClient(t)
    BY <2>1, <2>3, Zenon DEF DeleteClient, TaskFits
  <2>4. CASE UpdateName(t)
    BY <2>1, <2>4, Zenon DEF UpdateName
  <2> QED
    BY <2>2, <2>3, <2>4, Zenon
<1>5. HistoryTypes'
  BY <1>1, <1>4, Zenon DEF DirectoryInv, TypeOK, HistoryTypes
<1> QED
  BY <1>2, <1>3, <1>5, Assemble, Zenon

\* The statements on the table routing_state keep the invariant.
LEMMA RoutingStateStep ==
    ASSUME DirectoryInv, NEW t \in Tasks,
           PersistDefault(t) \/ PersistRoute(t) \/ ClearRoutes(t)
    PROVE  DirectoryInv'
<1>1. UNCHANGED <<by_name, by_vtoken, default_client, active_routes, clients,
                  minted, dead, faults, crashes>>
  BY Zenon DEF PersistDefault, PersistRoute, ClearRoutes, memory
<1>2. RegistryTypes' /\ RegistryInv' /\ RouteTypes'
  BY <1>1, RegistryKept, RouterKept, Zenon
<1>3. HistoryTypes'
  BY <1>1, Zenon DEF DirectoryInv, TypeOK, HistoryTypes
<1>4. task[t] \in Task /\ TaskFits(task[t], minted)
  BY TaskOf, Zenon
<1>5. Partial(routing_state, RouteKeys, Vtokens) /\ minted \subseteq Vtokens
  BY Zenon DEF DirectoryInv, TypeOK
<1>6. Partial(routing_state', RouteKeys, Vtokens)
  <2>1. CASE PersistDefault(t)
    <3>1. task[t].vtoken \in Vtokens /\ HUB_DEFAULT_SENTINEL \in RouteKeys
      BY <1>4, <1>5, <2>1, Zenon DEF PersistDefault, TaskFits, RouteKeys
    <3> QED
      BY <1>5, <2>1, <3>1, PutPartial, Zenon DEF PersistDefault
  <2>2. CASE PersistRoute(t)
    <3>1. task[t].vtoken \in Vtokens /\ task[t].user \in RouteKeys
      BY <1>4, <1>5, <2>2, Zenon DEF PersistRoute, TaskFits, RouteKeys
    <3> QED
      BY <1>5, <2>2, <3>1, PutPartial, Zenon DEF PersistRoute
  <2>3. CASE ClearRoutes(t)
    <3>1. routing_state' = Restrict(routing_state,
             {x \in DOMAIN routing_state : routing_state[x] # task[t].old})
      BY <2>3, Zenon DEF ClearRoutes, RestrictValues
    <3> QED
      BY <1>5, <3>1, FilterPartial, Zenon
  <2> QED
    BY <2>1, <2>2, <2>3, Zenon
<1>7. TableTypes' /\ TableOneToOne'
  BY <1>1, <1>6, RoutesWritten, Zenon
<1>8. PICK step \in Steps : Goto(t, step) /\ TaskFits([task[t] EXCEPT !.pc = step], minted)
  <2>1. CASE PersistDefault(t)
    <3>1. TaskFits([task[t] EXCEPT !.pc = "upsert"], minted)
      BY <1>4, <2>1, Zenon DEF PersistDefault, TaskFits, Task, Steps
    <3> QED
      BY <2>1, <3>1, Zenon DEF PersistDefault, Steps
  <2>2. CASE PersistRoute(t)
    <3>1. TaskFits([task[t] EXCEPT !.pc = "set_route"], minted)
      BY <1>4, <2>2, Zenon DEF PersistRoute, TaskFits, Task, Steps
    <3> QED
      BY <2>2, <3>1, Zenon DEF PersistRoute, Steps
  <2>3. CASE ClearRoutes(t)
    <3>1. CASE task[t].op = "revoke"
      <4>1. TaskFits([task[t] EXCEPT !.pc = "upsert"], minted)
        BY <1>4, <3>1, Zenon DEF TaskFits, Task, Steps
      <4> QED
        BY <2>3, <3>1, <4>1, Zenon DEF ClearRoutes, Steps
    <3>2. CASE task[t].op # "revoke"
      <4>1. TaskFits([task[t] EXCEPT !.pc = "delete"], minted)
        BY <1>4, <2>3, <3>2, Zenon DEF ClearRoutes, TaskFits, Task, Steps
      <4> QED
        BY <2>3, <3>2, <4>1, Zenon DEF ClearRoutes, Steps
    <3> QED
      BY <3>1, <3>2, Zenon
  <2> QED
    BY <2>1, <2>2, <2>3, Zenon
<1>9. TaskTypes' /\ TasksFit'
  BY <1>1, <1>8, TaskMoves, Zenon
<1> QED
  BY <1>2, <1>3, <1>7, <1>9, Assemble, Zenon

\* The removal from the registry, the second step of unregister.
LEMMA RemoveStep ==
    ASSUME DirectoryInv, NEW t \in Tasks, Remove(t)
    PROVE  DirectoryInv'
<1> DEFINE n == task[t].name
<1>1. /\ task[t].pc = "remove"
      /\ UNCHANGED <<default_client, active_routes, store, minted, dead, faults,
                     crashes>>
  BY Zenon DEF Remove
<1>2. TableTypes' /\ TableOneToOne' /\ RouteTypes'
  BY <1>1, TablesKept, RouterKept, Zenon
<1>3. HistoryTypes'
  BY <1>1, Zenon DEF DirectoryInv, TypeOK, HistoryTypes
<1>4. CASE n \notin DOMAIN by_name
  <2>1. Finish(t) /\ UNCHANGED <<by_name, by_vtoken>>
    BY <1>4, Zenon DEF Remove
  <2> QED
    BY <1>1, <1>2, <1>3, <2>1, TaskFinished, RegistryKept, Assemble, Zenon
<1>5. CASE n \in DOMAIN by_name
  <2>1. /\ by_name' = Without(by_name, n)
        /\ by_vtoken' = Without(by_vtoken, by_name[n])
        /\ \E d \in pick_default_after_remove(by_vtoken', task[t].old) :
              task' = [task EXCEPT ![t].new_default = d, ![t].pc = "drop_routes"]
    BY <1>5, Zenon DEF Remove
  <2>2. RegistryTypes' /\ RegistryInv'
    BY <1>1, <1>5, <2>1, RegistryRemoves, Zenon
  <2>3. PICK d \in pick_default_after_remove(by_vtoken', task[t].old) :
           task' = [task EXCEPT ![t].new_default = d, ![t].pc = "drop_routes"]
    BY <2>1, Zenon
  <2>4. d \in Vtokens \cup {None}
    BY <2>2, <2>3, PickedType, Zenon DEF RegistryTypes, Partial
  <2>5. task[t] \in Task /\ TaskFits(task[t], minted)
    BY TaskOf, Zenon
  <2> DEFINE tk == [task[t] EXCEPT !.new_default = d, !.pc = "drop_routes"]
  <2>6. TaskFits(tk, minted)
    BY <1>1, <2>4, <2>5, Zenon DEF TaskFits, Task, Steps
  <2>7. task' = [task EXCEPT ![t] = tk]
    BY <2>3, Zenon DEF DirectoryInv, TypeOK
  <2> HIDE DEF tk
  <2>8. TaskTypes' /\ TasksFit'
    BY <1>1, <2>6, <2>7, TaskReplaced, Zenon
  <2> QED
    BY <1>2, <1>3, <2>2, <2>8, Assemble, Zenon
<1> QED
  BY <1>4, <1>5, Zenon

\* A failed statement, or a request that is dropped between two steps.
LEMMA FaultStep ==
    ASSUME DirectoryInv, NEW t \in Tasks, StatementFails(t) \/ RequestDropped(t)
    PROVE  DirectoryInv'
<1>1. UNCHANGED <<by_name, by_vtoken, default_client, active_routes, store,
                  minted, dead, crashes>> /\ faults' = faults + 1
  BY Zenon DEF StatementFails, RequestDropped, memory
<1>2. RegistryTypes' /\ RegistryInv' /\ RouteTypes' /\ TableTypes' /\ TableOneToOne'
  BY <1>1, RegistryKept, RouterKept, TablesKept, Zenon
<1>3. HistoryTypes'
  BY <1>1 DEF DirectoryInv, TypeOK, HistoryTypes
<1>4. Finish(t) \/ (task[t].pc = "persist_default" /\ Goto(t, "upsert"))
  BY Zenon DEF StatementFails, RequestDropped
<1>5. TaskTypes' /\ TasksFit'
  <2>1. CASE Finish(t)
    BY <1>1, <2>1, TaskFinished, Zenon
  <2>2. CASE task[t].pc = "persist_default" /\ Goto(t, "upsert")
    <3>1. TaskFits([task[t] EXCEPT !.pc = "upsert"], minted)
      BY <2>2, TaskOf, Zenon DEF TaskFits, Task, Steps
    <3> QED
      BY <1>1, <2>2, <3>1, TaskMoves, Zenon
  <2> QED
    BY <1>4, <2>1, <2>2, Zenon
<1> QED
  BY <1>2, <1>3, <1>5, Assemble, Zenon

\* mark_online and mark_offline keep the invariant.
LEMMA PresenceStep ==
    ASSUME DirectoryInv, NEW v \in DOMAIN by_vtoken, MarkPresence(v)
    PROVE  DirectoryInv'
<1>1. UNCHANGED <<by_name, default_client, active_routes, store, task, minted,
                  dead, faults, crashes>>
  BY Zenon DEF MarkPresence
<1>2. by_vtoken[v].online \in BOOLEAN
  BY Zenon DEF DirectoryInv, TypeOK, Partial, ClientInfo
<1>3. by_vtoken' = [by_vtoken EXCEPT ![v].online = ~by_vtoken[v].online]
  BY Zenon DEF MarkPresence
<1>4. RegistryTypes' /\ RegistryInv'
  BY <1>1, <1>2, <1>3, RegistryMarks, Zenon
<1>5. RouteTypes' /\ TableTypes' /\ TableOneToOne'
  BY <1>1, RouterKept, TablesKept, Zenon
<1>6. TaskTypes' /\ TasksFit' /\ HistoryTypes'
  BY <1>1, Zenon DEF DirectoryInv, TypeOK, TaskTypes, TasksFit, HistoryTypes
<1> QED
  BY <1>4, <1>5, <1>6, Assemble, Zenon
-----------------------------------------------------------------------------
(***************************************************************************)
(* The loader.                                                             *)
(***************************************************************************)

\* The default the loader takes is a vtoken, or none.
LEMMA DefaultTypes ==
    ASSUME DirectoryInv
    PROVE  PersistedDefault \in Vtokens \cup {None} /\ FirstByName \in Vtokens \cup {None}
<1>1. /\ Partial(clients, Names, Vtokens)
      /\ Partial(routing_state, RouteKeys, Vtokens)
  BY Zenon DEF DirectoryInv, TypeOK
<1>2. PersistedDefault \in Vtokens \cup {None}
  BY <1>1, Zenon DEF PersistedDefault, Partial
<1>3. FirstByName \in Vtokens \cup {None}
  <2>1. CASE DOMAIN clients = {}
    BY <2>1, Zenon DEF FirstByName
  <2>2. CASE DOMAIN clients # {}
    <3>1. DOMAIN clients \subseteq Nat
      BY <1>1, DirectoryConstants, Zenon DEF Partial
    <3>2. (CHOOSE n \in DOMAIN clients : \A m \in DOMAIN clients : n <= m)
             \in DOMAIN clients
      BY <2>2, <3>1, FirstName, Zenon
    <3> DEFINE first == CHOOSE n \in DOMAIN clients :
                           \A m \in DOMAIN clients : n <= m
    <3>3. FirstByName = clients[first]
      BY <2>2, Zenon DEF FirstByName
    <3>4. first \in DOMAIN clients
      BY <3>2, Zenon
    <3> HIDE DEF first
    <3> QED
      BY <1>1, <3>3, <3>4, Zenon DEF Partial
  <2> QED
    BY <2>1, <2>2, Zenon
<1> QED
  BY <1>2, <1>3, Zenon

\* What load_clients_from_db makes of the tables.
LEMMA LoadTypes ==
    ASSUME DirectoryInv, UNCHANGED <<clients, minted>>,
           NEW persisted \in Vtokens \cup {None}, NEW written \in BOOLEAN,
           LoadClients(persisted, written)
    PROVE  /\ RegistryTypes' /\ RegistryInv' /\ RouteTypes'
           /\ TableTypes' /\ TableOneToOne'
<1> DEFINE default == IF persisted # None THEN persisted ELSE FirstByName
           K == {x \in DOMAIN routing_state : routing_state[x] \in Range(clients)}
           known == Restrict(routing_state, K)
<1>1. Partial(routing_state, RouteKeys, Vtokens)
  BY Zenon DEF DirectoryInv, TypeOK
<1>2. default \in Vtokens \cup {None}
  BY DefaultTypes, Zenon
<1>3. /\ default_client' = default
      /\ active_routes' = Restrict(known, DOMAIN known \ {HUB_DEFAULT_SENTINEL})
      /\ routing_state' = IF default = None \/ ~written THEN routing_state
                          ELSE Put(routing_state, HUB_DEFAULT_SENTINEL, default)
  BY Zenon DEF LoadClients, RestrictValues
<1>4. RegistryTypes' /\ RegistryInv'
  BY RegistryLoads, Zenon DEF LoadClients
<1> HIDE DEF default
<1>5. Partial(routing_state', RouteKeys, Vtokens)
  <2>1. CASE default = None \/ ~written
    BY <1>1, <1>3, <2>1, Zenon
  <2>2. CASE ~(default = None \/ ~written)
    <3>1. default \in Vtokens /\ HUB_DEFAULT_SENTINEL \in RouteKeys
      BY <1>2, <2>2, Zenon DEF RouteKeys
    <3>2. routing_state' = Put(routing_state, HUB_DEFAULT_SENTINEL, default)
      BY <1>3, <2>2, Zenon
    <3> QED
      BY <1>1, <3>1, <3>2, PutPartial, Zenon
  <2> QED
    BY <2>1, <2>2, Zenon
<1>6. Partial(active_routes', Users, Vtokens)
  <2>1. /\ Partial(known, RouteKeys, Vtokens) /\ DOMAIN known = K
    BY <1>1, RestrictPartial
  <2> HIDE DEF known, K
  <2>2. /\ DOMAIN active_routes' = DOMAIN known \ {HUB_DEFAULT_SENTINEL}
        /\ Partial(active_routes', RouteKeys, Vtokens)
    BY <1>3, <2>1, Zenon DEF Partial, Restrict
  <2> QED
    BY <2>1, <2>2, Zenon DEF Partial, RouteKeys
<1>7. RouteTypes'
  BY <1>2, <1>3, <1>6, Zenon DEF RouteTypes
<1>8. TableTypes' /\ TableOneToOne'
  BY <1>5, RoutesWritten, Zenon
<1> QED
  BY <1>4, <1>7, <1>8, Zenon

\* A restart, after a crash or not, keeps the invariant.
LEMMA RestartStep ==
    ASSUME DirectoryInv, Restart
    PROVE  DirectoryInv'
<1>1. /\ UNCHANGED <<clients, minted, dead>>
      /\ task' = [t \in Tasks |-> Idle]
      /\ crashes' \in Nat /\ faults' \in Nat
  <2>1. faults \in Nat /\ crashes \in Nat
    BY Zenon DEF DirectoryInv, TypeOK
  <2>2. /\ UNCHANGED crashes \/ crashes' = crashes + 1
        /\ UNCHANGED faults \/ faults' = faults + 1
        /\ UNCHANGED <<clients, minted, dead>>
        /\ task' = [t \in Tasks |-> Idle]
    BY Zenon DEF Restart
  <2> QED
    BY <2>1, <2>2
<1>2. TaskTypes' /\ TasksFit'
  <2>1. Idle \in Task /\ TaskFits(Idle, minted')
    BY IdleFits, Zenon DEF TaskFits
  <2> QED
    BY <1>1, <2>1, Zenon DEF TaskTypes, TasksFit
<1>3. HistoryTypes'
  BY <1>1, Zenon DEF DirectoryInv, TypeOK, HistoryTypes
<1>4. \/ LoadClients(PersistedDefault, TRUE) \/ LoadClients(None, TRUE)
      \/ LoadClients(PersistedDefault, FALSE) \/ LoadNothing
  BY Zenon DEF Restart
<1>5. CASE LoadNothing
  <2>1. RegistryTypes' /\ RegistryInv'
    BY <1>5, RegistryEmpty, Zenon DEF LoadNothing
  <2>2. RouteTypes'
    BY <1>5, EmptyPartial, Zenon DEF LoadNothing, RouteTypes
  <2>3. TableTypes' /\ TableOneToOne'
    BY <1>1, <1>5, TablesKept, Zenon DEF LoadNothing, store
  <2> QED
    BY <1>2, <1>3, <2>1, <2>2, <2>3, Assemble, Zenon
<1>6. CASE ~LoadNothing
  <2>1. PICK persisted \in Vtokens \cup {None}, written \in BOOLEAN :
           LoadClients(persisted, written)
    <3>1. CASE LoadClients(PersistedDefault, TRUE)
      BY <3>1, DefaultTypes, Zenon
    <3>2. CASE LoadClients(None, TRUE)
      BY <3>2, Zenon
    <3>3. CASE LoadClients(PersistedDefault, FALSE)
      BY <3>3, DefaultTypes, Zenon
    <3> QED
      BY <1>4, <1>6, <3>1, <3>2, <3>3, Zenon
  <2> QED
    BY <1>1, <1>2, <1>3, <2>1, LoadTypes, Assemble, Zenon
<1> QED
  BY <1>5, <1>6, Zenon
-----------------------------------------------------------------------------
\* The invariant holds in every state: whatever operations interleave, fail,
\* are dropped or are cut short by a crash, types, minted vtokens, the
\* registry's two maps and the table's index stay as they should be.
THEOREM DirectoryInvariance == Spec => []DirectoryInv
<1>1. Init => DirectoryInv
  <2> SUFFICES ASSUME Init PROVE DirectoryInv
    OBVIOUS
  <2>1. DOMAIN Empty = {}
    BY EmptyPartial, Zenon
  <2>2. TypeOK
    BY EmptyPartial, IdleFits, Zenon DEF Init, TypeOK, TaskFits
  <2>3. TasksFit
    BY IdleFits, Zenon DEF Init, TasksFit
  <2> QED
    BY <2>1, <2>2, <2>3, Zenon
    DEF Init, DirectoryInv, RegistryMinted, RegistryOneToOne, TableOneToOne
<1>2. DirectoryInv /\ [Next]_vars => DirectoryInv'
  <2> SUFFICES ASSUME DirectoryInv, [Next]_vars PROVE DirectoryInv'
    OBVIOUS
  <2>1. ASSUME NEW t \in Tasks, NEW n \in Names,
               Register(t, n) \/ RegisterConfirmed(t, n)
        PROVE  DirectoryInv'
    BY <2>1, AdmitStep, LookUpStep, Zenon DEF Register, RegisterConfirmed
  <2>2. ASSUME NEW t \in Tasks, NEW n \in Names,
               UnregisterLookUp(t, n) \/ Revoke(t, n)
        PROVE  DirectoryInv'
    BY <2>2, LookUpStep, RevokeStep, Zenon
  <2>3. ASSUME NEW t \in Tasks, NEW n \in Names, NEW m \in Names, Update(t, n, m)
        PROVE  DirectoryInv'
    BY <2>3, LookUpStep, Zenon
  <2>4. ASSUME NEW t \in Tasks, NEW n \in Names, NEW u \in Users, Use(t, u, n)
        PROVE  DirectoryInv'
    BY <2>4, LookUpStep, Zenon
  <2>5. ASSUME NEW t \in Tasks,
               \/ Remove(t) \/ SetDefault(t) \/ PersistDefault(t) \/ Upsert(t)
               \/ DropRoutes(t) \/ ClearRoutes(t) \/ DeleteClient(t) \/ UpdateName(t)
               \/ PersistRoute(t) \/ SetRoute(t)
               \/ StatementFails(t) \/ RequestDropped(t)
        PROVE  DirectoryInv'
    BY <2>5, RemoveStep, RouterStep, ClientsStep, RoutingStateStep, FaultStep, Zenon
  <2>6. CASE UNCHANGED vars
    BY <2>6, Zenon DEF vars, DirectoryInv, TypeOK, TasksFit, RegistryMinted,
                RegistryOneToOne, TableOneToOne
  <2> QED
    BY <2>1, <2>2, <2>3, <2>4, <2>5, <2>6, PresenceStep, RestartStep, Zenon DEF Next
<1> QED
  BY <1>1, <1>2, PTL DEF Spec

\* Every variable of the directory keeps its type (all operations, the loader).
THEOREM DirectoryTypes == Spec => []TypeOK
<1>1. DirectoryInv => TypeOK
  BY Zenon DEF DirectoryInv
<1> QED
  BY <1>1, DirectoryInvariance, PTL

\* by_name and by_vtoken of ClientRegistry are inverse to each other in every
\* state, for any number of concurrent operations, failures and crashes.
THEOREM RegistryInverse == Spec => []RegistryOneToOne
<1>1. DirectoryInv => RegistryOneToOne
  BY Zenon DEF DirectoryInv
<1> QED
  BY <1>1, DirectoryInvariance, PTL
-----------------------------------------------------------------------------
(***************************************************************************)
(* One operation at a time: what the registry, the router and the tables   *)
(* say of each other at each of its steps, as long as nothing failed.      *)
(***************************************************************************)
Rows == Range(clients)
Known == DOMAIN by_vtoken

InRegistry(n, v) == n \in DOMAIN by_name /\ by_name[n] = v
InTable(n, v) == n \in DOMAIN clients /\ clients[n] = v

\* The registry and the table say the same of every name outside X.
AgreeBut(X) ==
    \A n \in Names \ X :
        /\ n \in DOMAIN clients <=> n \in DOMAIN by_name
        /\ n \in DOMAIN clients => clients[n] = by_name[n]

\* What the operation k has still to do to the table.
TablesOf(k) ==
    /\ k.op \in {"none", "use"} => AgreeBut({})
    /\ k.pc = "remove" => AgreeBut({}) /\ InRegistry(k.name, k.old)
    /\ k.op \in {"register", "confirm"} =>
          /\ AgreeBut({k.name}) /\ InRegistry(k.name, k.vtoken)
          /\ k.name \in DOMAIN clients => clients[k.name] = k.vtoken
    /\ k.op = "update" =>
          \E n \in Names :
             /\ InTable(n, k.vtoken) /\ InRegistry(k.name, k.vtoken)
             /\ AgreeBut({n, k.name})
             /\ n # k.name => n \notin DOMAIN by_name /\ k.name \notin DOMAIN clients
    /\ (k.op = "unregister" /\ k.pc # "remove") =>
          /\ AgreeBut({k.name}) /\ InTable(k.name, k.old)
          /\ k.name \notin DOMAIN by_name
    /\ k.op = "revoke" =>
          /\ AgreeBut({k.name}) /\ InTable(k.name, k.old)
          /\ InRegistry(k.name, k.vtoken) /\ k.vtoken \notin Rows

\* The routes lead to rows, and no longer to one that is about to go.
RoutesOf(k) ==
    /\ Range(active_routes) \subseteq Rows
    /\ \A u \in DOMAIN routing_state \ {HUB_DEFAULT_SENTINEL} : routing_state[u] \in Rows
    /\ k.op = "use" => k.vtoken \in Rows
    /\ (k.pc \in {"clear_routes", "delete"} \/ (k.op = "revoke" /\ k.pc = "upsert"))
          => k.old \notin Range(active_routes)
    /\ (k.pc = "delete" \/ (k.op = "revoke" /\ k.pc = "upsert"))
          => k.old \notin Range(routing_state)

\* What was removed is in neither.
Buried == dead \cap Rows = {} /\ dead \cap Known = {}

\* d: a default the registry justifies.
GoodDefault(d) == IF Known = {} THEN d = None ELSE d \in Known

\* The default, in memory and persisted, leads to a client.
DefaultOf(k) ==
    /\ HUB_DEFAULT_SENTINEL \in DOMAIN routing_state =>
          \/ routing_state[HUB_DEFAULT_SENTINEL] \in Rows
          \/ /\ k.op \in {"register", "confirm"} /\ k.pc = "upsert"
             /\ routing_state[HUB_DEFAULT_SENTINEL] = k.vtoken
    /\ k.pc = "drop_routes" => /\ default_client \in Known \cup {k.old}
                               /\ GoodDefault(k.new_default)
    /\ k.pc \notin {"set_default", "drop_routes"} => GoodDefault(default_client)

Together(k) ==
    /\ TablesOf(k)
    /\ RoutesOf(k)
    /\ Buried
    /\ crashes = 0 => DefaultOf(k)

\* The inductive invariant, for operations that do not overlap.
StoreInv == faults = 0 => \A t \in Tasks : Together(task[t])
OneAtATime == \E t : Tasks = {t}

\* The vtokens the registry holds are those of its names.
LEMMA KnownNames ==
    ASSUME DirectoryInv
    PROVE  /\ \A n \in DOMAIN by_name : n \in Names /\ by_name[n] \in Known
           /\ \A v \in Known : \E n \in DOMAIN by_name : by_name[n] = v
           /\ \A m, n \in DOMAIN by_name : by_name[m] = by_name[n] => m = n
           /\ Known \subseteq minted
<1>1. RegistryOneToOne /\ RegistryMinted /\ DOMAIN by_name \subseteq Names
  BY Zenon DEF DirectoryInv, TypeOK, Partial
<1> QED
  BY <1>1, Zenon DEF RegistryOneToOne, RegistryMinted, Known

\* The rows are those of the table's names.
LEMMA RowNames ==
    ASSUME DirectoryInv
    PROVE  /\ \A n \in DOMAIN clients : n \in Names /\ clients[n] \in Rows
           /\ \A v \in Rows : \E n \in DOMAIN clients : clients[n] = v
           /\ \A m, n \in DOMAIN clients : clients[m] = clients[n] => m = n
           /\ Rows \subseteq minted
<1>1. TableOneToOne /\ DOMAIN clients \subseteq Names
  BY Zenon DEF DirectoryInv, TypeOK, Partial
<1> QED
  BY <1>1, Zenon DEF TableOneToOne, Rows, Range

\* A task that has nothing to do before the first step of an operation.
LEMMA IdleTask ==
    ASSUME DirectoryInv, NEW t \in Tasks, task[t].pc = "idle"
    PROVE  task[t].op = "none"
  BY TaskOf, Zenon DEF TaskFits

\* The task an operation starts.
LEMMA TaskBecomes ==
    ASSUME DirectoryInv, NEW t \in Tasks, NEW tk, task' = [task EXCEPT ![t] = tk]
    PROVE  task'[t] = tk
  BY Zenon DEF DirectoryInv, TypeOK

\* A step within an operation changes nothing the operation has in hand.
LEMMA TaskGoesOn ==
    ASSUME DirectoryInv, NEW t \in Tasks, NEW step, Goto(t, step)
    PROVE  /\ task'[t].pc = step /\ task'[t].op = task[t].op
           /\ task'[t].name = task[t].name /\ task'[t].vtoken = task[t].vtoken
           /\ task'[t].old = task[t].old /\ task'[t].user = task[t].user
           /\ task'[t].new_default = task[t].new_default
<1>1. task \in [Tasks -> Task] /\ task[t] \in Task
  BY Zenon DEF DirectoryInv, TypeOK
<1>2. task' = [task EXCEPT ![t] = [task[t] EXCEPT !.pc = step]]
  BY Zenon DEF Goto
<1>3. task'[t] = [task[t] EXCEPT !.pc = step]
  BY <1>1, <1>2, Zenon
<1> QED
  BY <1>1, <1>3, Zenon DEF Task

\* The end of an operation.
LEMMA TaskEnds ==
    ASSUME DirectoryInv, NEW t \in Tasks, Finish(t)
    PROVE  task'[t].op = "none" /\ task'[t].pc = "idle"
<1>1. task'[t] = Idle
  BY TaskBecomes, Zenon DEF Finish
<1> QED
  BY <1>1 DEF Idle

\* A step within an operation that touches neither registry nor table.
LEMMA TablesGoOn ==
    ASSUME DirectoryInv, NEW t \in Tasks, NEW step, Goto(t, step),
           UNCHANGED <<by_name, clients>>, TablesOf(task[t]),
           task[t].pc # "remove", step # "remove"
    PROVE  TablesOf(task[t])'
<1>1. /\ task'[t].pc = step /\ task'[t].op = task[t].op
      /\ task'[t].name = task[t].name /\ task'[t].vtoken = task[t].vtoken
      /\ task'[t].old = task[t].old
  BY TaskGoesOn, Zenon
<1> QED
  BY <1>1, Zenon DEF TablesOf, AgreeBut, InRegistry, InTable, Rows

\* The parts of the invariant after a step, put together.
LEMMA StillTogether ==
    ASSUME NEW t \in Tasks, TablesOf(task[t])', RoutesOf(task[t])', Buried',
           crashes' = 0 => DefaultOf(task[t])'
    PROVE  Together(task[t])'
  BY Zenon DEF Together

\* A step that leaves the rows and the routes alone, at a point where the
\* operation has removed nothing yet.
LEMMA RoutesGoOn ==
    ASSUME NEW t \in Tasks, RoutesOf(task[t]),
           UNCHANGED <<active_routes, routing_state, clients>>,
           task'[t].pc \notin {"clear_routes", "delete"},
           ~(task'[t].op = "revoke" /\ task'[t].pc = "upsert"),
           task'[t].op = "use" => task'[t].vtoken \in Rows
    PROVE  RoutesOf(task[t])'
  BY Zenon DEF RoutesOf, Rows

\* Where the routes lead, at every step.
LEMMA RoutesLead ==
    ASSUME NEW t \in Tasks, Together(task[t])
    PROVE  /\ Range(active_routes) \subseteq Rows
           /\ \A u \in DOMAIN routing_state \ {HUB_DEFAULT_SENTINEL} :
                 routing_state[u] \in Rows
<1>1. RoutesOf(task[t])
  BY Zenon DEF Together
<1> QED
  BY <1>1, Zenon DEF RoutesOf

\* What was removed, at every step.
LEMMA DeadAreGone ==
    ASSUME NEW t \in Tasks, Together(task[t])
    PROVE  dead \cap Rows = {} /\ dead \cap Known = {}
<1>1. Buried
  BY Zenon DEF Together
<1> QED
  BY <1>1, Zenon DEF Buried

\* The default before the last step of an operation.
LEMMA DefaultLeads ==
    ASSUME NEW t \in Tasks, Together(task[t]), crashes = 0,
           task[t].pc \notin {"set_default", "drop_routes"}
    PROVE  /\ GoodDefault(default_client)
           /\ HUB_DEFAULT_SENTINEL \in DOMAIN routing_state =>
                 \/ routing_state[HUB_DEFAULT_SENTINEL] \in Rows
                 \/ /\ task[t].op \in {"register", "confirm"}
                    /\ routing_state[HUB_DEFAULT_SENTINEL] = task[t].vtoken
<1>1. DefaultOf(task[t])
  BY Zenon DEF Together
<1> QED
  BY <1>1, Zenon DEF DefaultOf

\* A new name in the registry, before its row is written.
LEMMA AdmitTogether ==
    ASSUME DirectoryInv, NEW t \in Tasks, Together(task[t]), NEW n \in Names,
           NEW op \in {"register", "confirm"}, Admit(t, n, op)
    PROVE  Together(task[t])'
<1>1. PICK v \in Vtokens \ minted :
         /\ by_name' = Put(by_name, n, v)
         /\ by_vtoken' = Put(by_vtoken, v, [name |-> n, online |-> FALSE])
         /\ task' = [task EXCEPT ![t] =
               [Idle EXCEPT !.op = op, !.name = n, !.vtoken = v,
                   !.pc = IF DOMAIN by_vtoken = {} THEN "set_default" ELSE "upsert"]]
  BY Zenon DEF Admit
<1>2. /\ n \notin DOMAIN by_name /\ task[t].pc = "idle"
      /\ UNCHANGED <<default_client, active_routes, clients, routing_state, dead, crashes>>
  BY Zenon DEF Admit, store
<1>3. /\ task'[t].op = op /\ task'[t].name = n /\ task'[t].vtoken = v
      /\ task'[t].pc = IF Known = {} THEN "set_default" ELSE "upsert"
  <2>1. task'[t] = [Idle EXCEPT !.op = op, !.name = n, !.vtoken = v,
                   !.pc = IF DOMAIN by_vtoken = {} THEN "set_default" ELSE "upsert"]
    BY <1>1, TaskBecomes, Zenon
  <2> QED
    BY <2>1, Zenon DEF Idle, Known
<1>4. task[t].op = "none" /\ AgreeBut({})
  BY <1>2, IdleTask, Zenon DEF Together, TablesOf
<1>5. /\ DOMAIN by_name' = DOMAIN by_name \cup {n} /\ by_name'[n] = v
      /\ \A x \in DOMAIN by_name \ {n} : by_name'[x] = by_name[x]
  BY <1>1, Zenon DEF Put
<1>6. Known' = Known \cup {v}
  BY <1>1, Zenon DEF Known, Put
<1>7. AgreeBut({n})' /\ InRegistry(n, v)' /\ n \notin DOMAIN clients'
  BY <1>2, <1>4, <1>5, Zenon DEF AgreeBut, InRegistry
<1>8. TablesOf(task[t])'
  BY <1>3, <1>7, Zenon DEF TablesOf
<1>9. RoutesOf(task[t])'
  BY <1>2, <1>3, RoutesGoOn, Zenon DEF Together
<1>10. Buried'
  <2>1. dead \subseteq minted
    BY Zenon DEF DirectoryInv, TypeOK
  <2> QED
    BY <1>2, <1>6, <2>1, Zenon DEF Together, Buried, Rows
<1>11. ASSUME crashes' = 0
       PROVE  DefaultOf(task[t])'
  <2>1. DefaultOf(task[t])
    BY <1>2, <1>11, Zenon DEF Together
  <2> QED
    BY <1>2, <1>3, <1>4, <1>6, <2>1, Zenon DEF DefaultOf, GoodDefault, Rows
<1> QED
  BY <1>8, <1>9, <1>10, <1>11, StillTogether, Zenon

\* A new vtoken in the registry, before the old one's row is rewritten.
LEMMA RevokeTogether ==
    ASSUME DirectoryInv, NEW t \in Tasks, Together(task[t]), NEW n \in Names,
           Revoke(t, n)
    PROVE  Together(task[t])'
<1>1. PICK v \in Vtokens \ minted :
         /\ by_name' = Put(by_name, n, v)
         /\ by_vtoken' = Put(Without(by_vtoken, by_name[n]), v,
                             [by_vtoken[by_name[n]] EXCEPT !.online = FALSE])
         /\ \E d \in pick_default_after_remove(by_vtoken', by_name[n]) :
               task' = [task EXCEPT ![t] =
                  [Idle EXCEPT !.op = "revoke", !.name = n, !.vtoken = v,
                               !.old = by_name[n], !.new_default = d,
                               !.pc = "drop_routes"]]
  BY Zenon DEF Revoke, rotate_vtoken
<1>2. /\ n \in DOMAIN by_name /\ task[t].pc = "idle"
      /\ UNCHANGED <<default_client, active_routes, clients, routing_state, dead, crashes>>
  BY Zenon DEF Revoke, rotate_vtoken, store
<1>3. PICK d \in pick_default_after_remove(by_vtoken', by_name[n]) :
         task' = [task EXCEPT ![t] =
            [Idle EXCEPT !.op = "revoke", !.name = n, !.vtoken = v,
                         !.old = by_name[n], !.new_default = d,
                         !.pc = "drop_routes"]]
  BY <1>1, Zenon
<1>4. /\ task'[t].op = "revoke" /\ task'[t].name = n /\ task'[t].vtoken = v
      /\ task'[t].old = by_name[n] /\ task'[t].new_default = d
      /\ task'[t].pc = "drop_routes"
  <2>1. task'[t] = [Idle EXCEPT !.op = "revoke", !.name = n, !.vtoken = v,
                                !.old = by_name[n], !.new_default = d,
                                !.pc = "drop_routes"]
    BY <1>3, TaskBecomes, Zenon
  <2> QED
    BY <2>1, Zenon DEF Idle
<1>5. task[t].op = "none" /\ AgreeBut({})
  BY <1>2, IdleTask, Zenon DEF Together, TablesOf
<1>6. /\ DOMAIN by_name' = DOMAIN by_name /\ by_name'[n] = v
      /\ \A x \in DOMAIN by_name \ {n} : by_name'[x] = by_name[x]
  BY <1>1, <1>2, Zenon DEF Put
<1>7. Known' = (Known \ {by_name[n]}) \cup {v} /\ v \notin Known /\ v \notin Rows
  <2>1. DOMAIN Without(by_vtoken, by_name[n]) = Known \ {by_name[n]}
    BY Zenon DEF Without, Restrict, Known
  <2>2. v \notin Known /\ v \notin Rows
    BY KnownNames, RowNames, Zenon
  <2> QED
    BY <1>1, <2>1, <2>2, Zenon DEF Known, Put
<1>8. by_name[n] \in Known
  BY <1>2, KnownNames, Zenon
<1>9. TablesOf(task[t])'
  <2>1. InTable(n, by_name[n]) /\ InRegistry(n, v)' /\ v \notin Rows'
    BY <1>2, <1>5, <1>6, <1>7, Zenon DEF AgreeBut, InTable, InRegistry, Rows
  <2>2. AgreeBut({n})'
    BY <1>2, <1>5, <1>6, Zenon DEF AgreeBut
  <2>3. InTable(task[t].name, task[t].old)'
    BY <1>2, <1>4, <2>1, Zenon DEF InTable
  <2> QED
    BY <1>4, <2>1, <2>2, <2>3, Zenon DEF TablesOf
<1>10. RoutesOf(task[t])'
  BY <1>2, <1>4, RoutesGoOn, Zenon DEF Together
<1>11. Buried'
  <2>1. dead \subseteq minted
    BY Zenon DEF DirectoryInv, TypeOK
  <2> QED
    BY <1>2, <1>7, <2>1, Zenon DEF Together, Buried, Rows
<1>12. ASSUME crashes' = 0
       PROVE  DefaultOf(task[t])'
  <2>1. DefaultOf(task[t])
    BY <1>2, <1>12, Zenon DEF Together
  <2>2. default_client \in Known
    BY <1>2, <1>8, <2>1, Zenon DEF DefaultOf, GoodDefault
  <2>3. d \in Known'
    BY <1>3, <1>7, <1>8, Zenon DEF pick_default_after_remove, Known
  <2> QED
    BY <1>2, <1>4, <1>5, <1>7, <2>1, <2>2, <2>3, Zenon DEF DefaultOf, GoodDefault, Rows
<1> QED
  BY <1>9, <1>10, <1>11, <1>12, StillTogether, Zenon

\* The first step of the operations that mint nothing.
LEMMA LookUpTogether ==
    ASSUME DirectoryInv, NEW t \in Tasks, Together(task[t]), NEW n \in Names,
           \/ RegisterExisting(t, n) \/ UnregisterLookUp(t, n)
           \/ \E m \in Names : Update(t, n, m)
           \/ \E u \in Users : Use(t, u, n)
    PROVE  Together(task[t])'
<1>1. /\ n \in DOMAIN by_name /\ task[t].pc = "idle"
      /\ UNCHANGED <<default_client, active_routes, clients, routing_state, dead, crashes>>
  BY Zenon DEF RegisterExisting, UnregisterLookUp, Update, update_client, Use, memory,
               store
<1>2. task[t].op = "none" /\ AgreeBut({})
  BY <1>1, IdleTask, Zenon DEF Together, TablesOf
<1>3. PICK v : v = by_name[n]
  OBVIOUS
<1>4. InRegistry(n, v) /\ InTable(n, v) /\ v \in Rows
  <2>1. InRegistry(n, v) /\ InTable(n, v)
    BY <1>1, <1>2, <1>3, Zenon DEF InRegistry, InTable, AgreeBut
  <2> QED
    BY <2>1, RowNames, Zenon DEF InTable
<1>5. SUFFICES /\ TablesOf(task[t])' /\ Known' = Known
               /\ task'[t].op \in {"register", "unregister", "update", "use"}
               /\ task'[t].pc \notin {"clear_routes", "delete", "drop_routes",
                                      "set_default"}
               /\ task'[t].op = "use" => task'[t].vtoken = v
  <2>1. RoutesOf(task[t])'
    BY <1>1, <1>4, <1>5, RoutesGoOn, Zenon DEF Together
  <2>2. Buried'
    BY <1>1, <1>5, Zenon DEF Together, Buried, Rows
  <2>3. ASSUME crashes' = 0
        PROVE  DefaultOf(task[t])'
    <3>1. DefaultOf(task[t])
      BY <1>1, <2>3, Zenon DEF Together
    <3> QED
      BY <1>1, <1>2, <1>5, <3>1, Zenon DEF DefaultOf, GoodDefault, Rows
  <2> QED
    BY <1>5, <2>1, <2>2, <2>3, StillTogether, Zenon
<1>6. CASE RegisterExisting(t, n)
  <2>1. UNCHANGED by_name /\ Known' = Known
    BY <1>6, Zenon DEF RegisterExisting, Known
  <2>2. task'[t] = [Idle EXCEPT !.op = "register", !.name = n, !.vtoken = v,
                                !.pc = "upsert"]
    BY <1>3, <1>6, TaskBecomes, Zenon DEF RegisterExisting
  <2>3. /\ task'[t].op = "register" /\ task'[t].name = n /\ task'[t].vtoken = v
        /\ task'[t].pc = "upsert"
    BY <2>2, Zenon DEF Idle
  <2>4. TablesOf(task[t])'
    <3>1. AgreeBut({n})' /\ InRegistry(n, v)' /\ InTable(n, v)'
      BY <1>1, <1>2, <1>4, <2>1, Zenon DEF AgreeBut, InRegistry, InTable
    <3> QED
      BY <2>3, <3>1, Zenon DEF TablesOf, InTable
  <2> QED
    BY <2>1, <2>3, <2>4, Zenon
<1>7. CASE UnregisterLookUp(t, n)
  <2>1. UNCHANGED by_name /\ Known' = Known
    BY <1>7, Zenon DEF UnregisterLookUp, Known, memory
  <2>2. PICK force \in BOOLEAN :
           task' = [task EXCEPT ![t] = [Idle EXCEPT !.op = "unregister", !.name = n,
                       !.old = v, !.force = force, !.pc = "remove"]]
    BY <1>3, <1>7, Zenon DEF UnregisterLookUp
  <2>3. task'[t] = [Idle EXCEPT !.op = "unregister", !.name = n,
                                !.old = v, !.force = force, !.pc = "remove"]
    BY <2>2, TaskBecomes, Zenon
  <2>4. /\ task'[t].op = "unregister" /\ task'[t].name = n /\ task'[t].old = v
        /\ task'[t].pc = "remove"
    BY <2>3, Zenon DEF Idle
  <2>5. TablesOf(task[t])'
    <3>1. AgreeBut({})' /\ InRegistry(n, v)'
      BY <1>1, <1>2, <1>4, <2>1, Zenon DEF AgreeBut, InRegistry
    <3> QED
      BY <2>4, <3>1, Zenon DEF TablesOf
  <2> QED
    BY <2>1, <2>4, <2>5, Zenon
<1>8. ASSUME NEW m \in Names, Update(t, n, m)
      PROVE  /\ TablesOf(task[t])' /\ Known' = Known
             /\ task'[t].op = "update" /\ task'[t].pc = "update_name"
  <2>1. /\ by_name' = Put(Without(by_name, n), m, v) /\ Known' = Known
        /\ m = n \/ m \notin DOMAIN by_name
    BY <1>3, <1>8, Zenon DEF Update, update_client, Known
  <2>2. /\ DOMAIN Without(by_name, n) = DOMAIN by_name \ {n}
        /\ \A x \in DOMAIN by_name \ {n} : Without(by_name, n)[x] = by_name[x]
    BY Zenon DEF Without, Restrict
  <2>3. /\ DOMAIN by_name' = (DOMAIN by_name \ {n}) \cup {m} /\ by_name'[m] = v
        /\ \A x \in DOMAIN by_name \ {n} : x # m => by_name'[x] = by_name[x]
    BY <2>1, <2>2, Zenon DEF Put
  <2>4. task'[t] = [Idle EXCEPT !.op = "update", !.name = m, !.vtoken = v,
                                !.pc = "update_name"]
    BY <1>3, <1>8, TaskBecomes, Zenon DEF Update
  <2>5. /\ task'[t].op = "update" /\ task'[t].name = m /\ task'[t].vtoken = v
        /\ task'[t].pc = "update_name"
    BY <2>4, Zenon DEF Idle
  <2>6. /\ InTable(n, v)' /\ InRegistry(m, v)' /\ AgreeBut({n, m})'
        /\ n # m => n \notin DOMAIN by_name' /\ m \notin DOMAIN clients'
    BY <1>1, <1>2, <1>4, <2>1, <2>3, Zenon DEF InTable, InRegistry, AgreeBut
  <2> QED
    BY <2>1, <2>5, <2>6, Zenon DEF TablesOf
<1>9. ASSUME NEW u \in Users, Use(t, u, n)
      PROVE  /\ TablesOf(task[t])' /\ Known' = Known
             /\ task'[t].op = "use" /\ task'[t].pc = "persist_route"
             /\ task'[t].vtoken = v
  <2>1. UNCHANGED by_name /\ Known' = Known
    BY <1>9, Zenon DEF Use, Known, memory
  <2>2. task'[t] = [Idle EXCEPT !.op = "use", !.user = u, !.vtoken = v,
                                !.pc = "persist_route"]
    BY <1>3, <1>9, TaskBecomes, Zenon DEF Use
  <2>3. task'[t].op = "use" /\ task'[t].vtoken = v /\ task'[t].pc = "persist_route"
    BY <2>2, Zenon DEF Idle
  <2>4. AgreeBut({})'
    BY <1>1, <1>2, <2>1, Zenon DEF AgreeBut
  <2> QED
    BY <2>1, <2>3, <2>4, Zenon DEF TablesOf
<1> QED
  BY <1>6, <1>7, <1>8, <1>9, Zenon

\* The removal from the registry, before the routes and the row go.
LEMMA RemoveTogether ==
    ASSUME DirectoryInv, NEW t \in Tasks, Together(task[t]), Remove(t)
    PROVE  Together(task[t])'
<1>1. /\ task[t].pc = "remove" /\ task[t].op = "unregister"
      /\ UNCHANGED <<default_client, active_routes, clients, routing_state, dead, crashes>>
  BY TaskOf, Zenon DEF Remove, store, TaskFits
<1>2. PICK n, old : n = task[t].name /\ old = task[t].old
  OBVIOUS
<1>3. AgreeBut({}) /\ InRegistry(n, old) /\ n \in Names
  BY <1>1, <1>2, KnownNames, Zenon DEF Together, TablesOf, InRegistry
<1>4. /\ by_name' = Without(by_name, n) /\ by_vtoken' = Without(by_vtoken, old)
      /\ \E d \in pick_default_after_remove(by_vtoken', old) :
            task' = [task EXCEPT ![t].new_default = d, ![t].pc = "drop_routes"]
  BY <1>2, <1>3, Zenon DEF Remove, InRegistry
<1>5. PICK d \in pick_default_after_remove(by_vtoken', old) :
         task' = [task EXCEPT ![t].new_default = d, ![t].pc = "drop_routes"]
  BY <1>4, Zenon
<1>6. /\ task'[t].op = "unregister" /\ task'[t].name = n /\ task'[t].old = old
      /\ task'[t].new_default = d /\ task'[t].pc = "drop_routes"
  <2>1. task \in [Tasks -> Task] /\ task[t] \in Task
    BY Zenon DEF DirectoryInv, TypeOK
  <2>2. task'[t] = [task[t] EXCEPT !.new_default = d, !.pc = "drop_routes"]
    BY <1>5, <2>1, Zenon
  <2> QED
    BY <1>1, <1>2, <2>1, <2>2, Zenon DEF Task
<1>7. /\ DOMAIN by_name' = DOMAIN by_name \ {n}
      /\ \A x \in DOMAIN by_name \ {n} : by_name'[x] = by_name[x]
  BY <1>4, Zenon DEF Without, Restrict
<1>8. Known' = Known \ {old} /\ old \in Known
  <2>1. old \in Known
    BY <1>3, KnownNames, Zenon DEF InRegistry
  <2> QED
    BY <1>4, <2>1, Zenon DEF Without, Restrict, Known
<1>9. TablesOf(task[t])'
  <2>1. InTable(n, old)' /\ AgreeBut({n})' /\ n \notin DOMAIN by_name'
    BY <1>1, <1>3, <1>7, Zenon DEF InTable, InRegistry, AgreeBut
  <2> QED
    BY <1>6, <2>1, Zenon DEF TablesOf
<1>10. RoutesOf(task[t])'
  BY <1>1, <1>6, RoutesGoOn, Zenon DEF Together
<1>11. Buried'
  BY <1>1, <1>8, Zenon DEF Together, Buried, Rows
<1>12. ASSUME crashes' = 0
       PROVE  DefaultOf(task[t])'
  <2>1. DefaultOf(task[t])
    BY <1>1, <1>12, Zenon DEF Together
  <2>2. default_client \in Known
    BY <1>1, <1>8, <2>1, Zenon DEF DefaultOf, GoodDefault
  <2>3. GoodDefault(d)'
    BY <1>5, <1>8, Zenon DEF pick_default_after_remove, GoodDefault, Known
  <2>4. GoodDefault(task[t].new_default)'
    BY <1>6, <2>3, Zenon DEF GoodDefault
  <2> QED
    BY <1>1, <1>6, <1>8, <2>1, <2>2, <2>4, Zenon DEF DefaultOf, Rows
<1> QED
  BY <1>9, <1>10, <1>11, <1>12, StillTogether, Zenon

\* The default is set to the client that was registered first.
LEMMA SetDefaultTogether ==
    ASSUME DirectoryInv, NEW t \in Tasks, Together(task[t]),
           SetDefault(t) \/ PersistDefault(t)
    PROVE  Together(task[t])'
<1>1. /\ task[t].op \in {"register", "confirm"}
      /\ task[t].pc \in {"set_default", "persist_default"}
      /\ UNCHANGED <<by_name, by_vtoken, active_routes, clients, dead, crashes>>
  BY TaskOf, Zenon DEF SetDefault, PersistDefault, store, memory, TaskFits
<1>2. PICK step \in {"persist_default", "upsert"} : Goto(t, step)
  BY Zenon DEF SetDefault, PersistDefault
<1>3. /\ task'[t].op = task[t].op /\ task'[t].pc = step
      /\ task'[t].vtoken = task[t].vtoken
  BY <1>2, TaskGoesOn, Zenon
<1>4. TablesOf(task[t])'
  BY <1>1, <1>2, TablesGoOn, Zenon DEF Together
<1>5. Buried'
  BY <1>1, Zenon DEF Together, Buried, Rows, Known
<1>6. task[t].vtoken \in Known
  BY <1>1, KnownNames, Zenon DEF Together, TablesOf, InRegistry
<1>7. CASE SetDefault(t)
  <2>1. default_client' = task[t].vtoken /\ UNCHANGED routing_state
    BY <1>7, Zenon DEF SetDefault, store
  <2>2. RoutesOf(task[t])'
    BY <1>1, <1>3, <2>1, RoutesGoOn, Zenon DEF Together
  <2>3. crashes' = 0 => DefaultOf(task[t])'
    <3>1. task[t].pc = "set_default"
      BY <1>7, Zenon DEF SetDefault
    <3> QED
      BY <1>1, <1>3, <1>6, <2>1, <3>1, Zenon DEF Together, DefaultOf, GoodDefault, Rows, Known
  <2> QED
    BY <1>4, <1>5, <2>2, <2>3, StillTogether, Zenon
<1>8. CASE PersistDefault(t)
  <2>1. /\ routing_state' = Put(routing_state, HUB_DEFAULT_SENTINEL, task[t].vtoken)
        /\ UNCHANGED default_client /\ task[t].pc = "persist_default"
        /\ Goto(t, "upsert")
    BY <1>8, Zenon DEF PersistDefault, memory
  <2>2. /\ routing_state'[HUB_DEFAULT_SENTINEL] = task[t].vtoken
        /\ DOMAIN routing_state' = DOMAIN routing_state \cup {HUB_DEFAULT_SENTINEL}
        /\ \A u \in DOMAIN routing_state \ {HUB_DEFAULT_SENTINEL} :
              routing_state'[u] = routing_state[u]
    BY <2>1, Zenon DEF Put
  <2>3. task'[t].pc = "upsert"
    BY <2>1, TaskGoesOn, Zenon
  <2>4. RoutesOf(task[t])'
    BY <1>1, <1>3, <2>2, <2>3, Zenon DEF Together, RoutesOf, Rows
  <2>5. crashes' = 0 => DefaultOf(task[t])'
    BY <1>1, <1>3, <2>1, <2>2, <2>3, Zenon DEF Together, DefaultOf, GoodDefault, Known
  <2> QED
    BY <1>4, <1>5, <2>4, <2>5, StillTogether, Zenon
<1> QED
  BY <1>7, <1>8, Zenon

\* The routes to the vtoken that goes are dropped, first in memory.
LEMMA DropTogether ==
    ASSUME DirectoryInv, NEW t \in Tasks, Together(task[t]), DropRoutes(t)
    PROVE  Together(task[t])'
<1>1. /\ task[t].pc = "drop_routes" /\ task[t].op \in {"unregister", "revoke"}
      /\ UNCHANGED <<by_name, by_vtoken, clients, routing_state, dead, crashes>>
      /\ Goto(t, "clear_routes")
      /\ default_client' = IF default_client = task[t].old
                           THEN task[t].new_default ELSE default_client
      /\ active_routes' = Restrict(active_routes,
             {x \in DOMAIN active_routes : active_routes[x] # task[t].old})
  BY TaskOf, Zenon DEF DropRoutes, store, TaskFits, RestrictValues
<1>2. /\ task'[t].op = task[t].op /\ task'[t].pc = "clear_routes"
      /\ task'[t].old = task[t].old
  BY <1>1, TaskGoesOn, Zenon
<1>3. TablesOf(task[t])'
  BY <1>1, TablesGoOn, Zenon DEF Together
<1>4. Buried'
  BY <1>1, Zenon DEF Together, Buried, Rows, Known
<1>5. /\ task[t].old \notin Range(active_routes')
      /\ Range(active_routes') \subseteq Range(active_routes)
  <2>1. PICK f, g, w : f = active_routes /\ g = active_routes' /\ w = task[t].old
    OBVIOUS
  <2>2. g = Restrict(f, {x \in DOMAIN f : f[x] # w})
    BY <1>1, <2>1, Zenon
  <2>3. w \notin Range(g) /\ Range(g) \subseteq Range(f)
    <3>1. DOMAIN g = {x \in DOMAIN f : f[x] # w} /\ \A x \in DOMAIN g : g[x] = f[x]
      BY <2>2, Zenon DEF Restrict
    <3> QED
      BY <3>1, Zenon DEF Range
  <2> QED
    BY <2>1, <2>3, Zenon
<1>6. RoutesOf(task[t])'
  BY <1>1, <1>2, <1>5, Zenon DEF Together, RoutesOf, Rows
<1>7. crashes' = 0 => DefaultOf(task[t])'
  BY <1>1, <1>2, Zenon DEF Together, DefaultOf, GoodDefault, Rows, Known
<1> QED
  BY <1>3, <1>4, <1>6, <1>7, StillTogether, Zenon

\* Then in the table routing_state, before the row itself goes.
LEMMA ClearTogether ==
    ASSUME DirectoryInv, NEW t \in Tasks, Together(task[t]), ClearRoutes(t)
    PROVE  Together(task[t])'
<1>1. /\ task[t].pc = "clear_routes" /\ task[t].op \in {"unregister", "revoke"}
      /\ UNCHANGED <<by_name, by_vtoken, default_client, active_routes, clients, dead,
                     crashes>>
      /\ routing_state' = Restrict(routing_state,
             {x \in DOMAIN routing_state : routing_state[x] # task[t].old})
  BY TaskOf, Zenon DEF ClearRoutes, memory, TaskFits, RestrictValues
<1>2. PICK step \in {"upsert", "delete"} :
         Goto(t, step) /\ (step = "upsert" => task[t].op = "revoke")
  BY Zenon DEF ClearRoutes
<1>3. /\ task'[t].op = task[t].op /\ task'[t].pc = step
      /\ task'[t].old = task[t].old
  BY <1>2, TaskGoesOn, Zenon
<1>4. TablesOf(task[t])'
  BY <1>1, <1>2, TablesGoOn, Zenon DEF Together
<1>5. Buried'
  BY <1>1, Zenon DEF Together, Buried, Rows, Known
<1>6. /\ task[t].old \notin Range(routing_state')
      /\ \A x \in DOMAIN routing_state' : /\ x \in DOMAIN routing_state
                                          /\ routing_state'[x] = routing_state[x]
  <2>1. PICK f, g, w : f = routing_state /\ g = routing_state' /\ w = task[t].old
    OBVIOUS
  <2>2. g = Restrict(f, {x \in DOMAIN f : f[x] # w})
    BY <1>1, <2>1, Zenon
  <2>3. w \notin Range(g) /\ \A x \in DOMAIN g : x \in DOMAIN f /\ g[x] = f[x]
    <3>1. DOMAIN g = {x \in DOMAIN f : f[x] # w} /\ \A x \in DOMAIN g : g[x] = f[x]
      BY <2>2, Zenon DEF Restrict
    <3> QED
      BY <3>1, Zenon DEF Range
  <2> QED
    BY <2>1, <2>3, Zenon
<1>7. RoutesOf(task[t])'
  BY <1>1, <1>3, <1>6, Zenon DEF Together, RoutesOf, Rows
<1>8. crashes' = 0 => DefaultOf(task[t])'
  BY <1>1, <1>2, <1>3, <1>6, Zenon DEF Together, DefaultOf, GoodDefault, Rows, Known
<1> QED
  BY <1>4, <1>5, <1>7, <1>8, StillTogether, Zenon

\* The user's route, to a client that has a row.
LEMMA UseTogether ==
    ASSUME DirectoryInv, NEW t \in Tasks, Together(task[t]),
           PersistRoute(t) \/ SetRoute(t)
    PROVE  Together(task[t])'
<1>1. /\ task[t].op = "use" /\ task[t].pc \in {"persist_route", "set_route"}
      /\ UNCHANGED <<by_name, by_vtoken, default_client, clients, dead, crashes>>
      /\ task[t].user \in Users
  BY TaskOf, Zenon DEF PersistRoute, SetRoute, memory, store, TaskFits
<1>2. AgreeBut({}) /\ task[t].vtoken \in Rows
  BY <1>1, Zenon DEF Together, TablesOf, RoutesOf
<1>3. Buried'
  BY <1>1, Zenon DEF Together, Buried, Rows, Known
<1>4. AgreeBut({})'
  BY <1>1, <1>2, Zenon DEF AgreeBut
<1>5. HUB_DEFAULT_SENTINEL # task[t].user
  BY <1>1, DirectoryConstants, Zenon DEF HUB_DEFAULT_SENTINEL
<1>6. CASE PersistRoute(t)
  <2>1. /\ routing_state' = Put(routing_state, task[t].user, task[t].vtoken)
        /\ UNCHANGED active_routes /\ Goto(t, "set_route")
    BY <1>6, Zenon DEF PersistRoute, memory
  <2>2. /\ routing_state'[task[t].user] = task[t].vtoken
        /\ DOMAIN routing_state' = DOMAIN routing_state \cup {task[t].user}
        /\ \A u \in DOMAIN routing_state \ {task[t].user} :
              routing_state'[u] = routing_state[u]
    BY <2>1, Zenon DEF Put
  <2>3. /\ task'[t].pc = "set_route" /\ task'[t].op = "use"
        /\ task'[t].vtoken = task[t].vtoken
    BY <1>1, <2>1, TaskGoesOn, Zenon
  <2>4. TablesOf(task[t])'
    BY <1>4, <2>3, Zenon DEF TablesOf
  <2>5. RoutesOf(task[t])'
    <3>1. Rows' = Rows
      BY <1>1, Zenon DEF Rows
    <3> QED
      BY <1>2, <2>1, <2>2, <2>3, <3>1, RoutesLead, Zenon DEF RoutesOf
  <2>6. crashes' = 0 => DefaultOf(task[t])'
    BY <1>1, <1>5, <2>2, <2>3, Zenon DEF Together, DefaultOf, GoodDefault, Rows, Known
  <2> QED
    BY <1>3, <2>4, <2>5, <2>6, StillTogether, Zenon
<1>7. CASE SetRoute(t)
  <2>1. /\ active_routes' = Put(active_routes, task[t].user, task[t].vtoken)
        /\ UNCHANGED routing_state /\ Finish(t)
    BY <1>7, Zenon DEF SetRoute, store
  <2>2. Range(active_routes') \subseteq Range(active_routes) \cup {task[t].vtoken}
    <3>1. /\ active_routes'[task[t].user] = task[t].vtoken
          /\ DOMAIN active_routes' = DOMAIN active_routes \cup {task[t].user}
          /\ \A u \in DOMAIN active_routes \ {task[t].user} :
                active_routes'[u] = active_routes[u]
      BY <2>1, Zenon DEF Put
    <3> QED
      BY <3>1, SMTT(40) DEF Range
  <2>3. task'[t].op = "none" /\ task'[t].pc = "idle"
    BY <2>1, TaskEnds, Zenon
  <2>4. TablesOf(task[t])'
    BY <1>4, <2>3, Zenon DEF TablesOf
  <2>5. RoutesOf(task[t])'
    <3>1. Rows' = Rows
      BY <1>1, Zenon DEF Rows
    <3> QED
      BY <1>2, <2>1, <2>2, <2>3, <3>1, RoutesLead, Zenon DEF RoutesOf
  <2>6. crashes' = 0 => DefaultOf(task[t])'
    BY <1>1, <2>1, <2>3, Zenon DEF Together, DefaultOf, GoodDefault, Rows, Known
  <2> QED
    BY <1>3, <2>4, <2>5, <2>6, StillTogether, Zenon
<1> QED
  BY <1>6, <1>7, Zenon

\* The end of an operation whose last step has brought the table level with
\* the registry, with routes and default to the rows that are left.
LEMMA EndsTogether ==
    ASSUME DirectoryInv, NEW t \in Tasks, Finish(t), AgreeBut({})', Buried',
           UNCHANGED <<active_routes, default_client, by_vtoken, crashes>>,
           Range(active_routes) \subseteq Rows',
           \A u \in DOMAIN routing_state' \ {HUB_DEFAULT_SENTINEL} :
              routing_state'[u] \in Rows',
           (crashes = 0 /\ HUB_DEFAULT_SENTINEL \in DOMAIN routing_state')
              => routing_state'[HUB_DEFAULT_SENTINEL] \in Rows',
           crashes = 0 => GoodDefault(default_client)
    PROVE  Together(task[t])'
<1>1. task'[t].op = "none" /\ task'[t].pc = "idle"
  BY TaskEnds, Zenon
<1>2. TablesOf(task[t])'
  BY <1>1, Zenon DEF TablesOf
<1>3. RoutesOf(task[t])'
  BY <1>1, Zenon DEF RoutesOf
<1>4. crashes' = 0 => DefaultOf(task[t])'
  BY <1>1, Zenon DEF DefaultOf, GoodDefault, Known
<1> QED
  BY <1>2, <1>3, <1>4, StillTogether, Zenon

\* upsert_client finds no other name with the vtoken, and moves no route: the
\* row is new, or it holds this vtoken already, or no route leads to the old one.
LEMMA UpsertMeans ==
    ASSUME DirectoryInv, NEW t \in Tasks, Together(task[t]), Upsert(t)
    PROVE  /\ clients' = Put(clients, task[t].name, task[t].vtoken)
           /\ UNCHANGED <<by_name, by_vtoken, default_client, active_routes, crashes>>
           /\ Finish(t)
           /\ dead' = IF task[t].op = "revoke" THEN dead \cup {task[t].old} ELSE dead
           /\ DOMAIN routing_state' = DOMAIN routing_state
           /\ \A u \in DOMAIN routing_state : routing_state'[u] = routing_state[u]
<1>1. PICK n, v : n = task[t].name /\ v = task[t].vtoken
  OBVIOUS
<1>2. /\ task[t].pc = "upsert" /\ task[t].op \in {"register", "confirm", "revoke"}
      /\ UNCHANGED <<by_name, by_vtoken, default_client, active_routes, crashes>>
      /\ Finish(t)
  BY TaskOf, ZenonT(40) DEF Upsert, memory, TaskFits
<1>3. AgreeBut({n}) /\ InRegistry(n, v)
  BY <1>1, <1>2, Zenon DEF Together, TablesOf
<1>4. ASSUME NEW m \in DOMAIN clients \ {n}, clients[m] = v
      PROVE  FALSE
  BY <1>3, <1>4, KnownNames, RowNames, Zenon DEF AgreeBut, InRegistry
<1>5. /\ clients' = Put(clients, n, v) /\ routing_state' = Moved(n, v)
      /\ dead' = IF task[t].op = "revoke" THEN dead \cup {task[t].old} ELSE dead
  BY <1>1, <1>4, Zenon DEF Upsert
<1>6. ASSUME NEW u \in DOMAIN routing_state
      PROVE  Moved(n, v)[u] = routing_state[u]
  <2>1. CASE task[t].op = "revoke"
    <3>1. InTable(n, task[t].old) /\ task[t].old \notin Range(routing_state)
      BY <1>1, <1>2, <2>1, Zenon DEF Together, TablesOf, RoutesOf
    <3> QED
      BY <3>1, Zenon DEF InTable, Range, Moved
  <2>2. CASE task[t].op # "revoke"
    <3>1. n \in DOMAIN clients => clients[n] = v
      BY <1>1, <1>2, <2>2, Zenon DEF Together, TablesOf
    <3> QED
      BY <3>1, Zenon DEF Moved
  <2> QED
    BY <2>1, <2>2, Zenon
<1>7. DOMAIN Moved(n, v) = DOMAIN routing_state
  BY Zenon DEF Moved
<1> QED
  BY <1>1, <1>2, <1>5, <1>6, <1>7, Zenon

\* The row of a registration, or of a revocation, is written.
LEMMA UpsertTogether ==
    ASSUME DirectoryInv, NEW t \in Tasks, Together(task[t]), Upsert(t)
    PROVE  Together(task[t])'
<1>1. PICK n, v, old : n = task[t].name /\ v = task[t].vtoken /\ old = task[t].old
  OBVIOUS
<1>2. /\ clients' = Put(clients, n, v)
      /\ UNCHANGED <<by_name, by_vtoken, default_client, active_routes, crashes>>
      /\ Finish(t)
      /\ dead' = IF task[t].op = "revoke" THEN dead \cup {old} ELSE dead
      /\ DOMAIN routing_state' = DOMAIN routing_state
      /\ \A u \in DOMAIN routing_state : routing_state'[u] = routing_state[u]
  BY <1>1, UpsertMeans, Zenon
<1>3. task[t].pc = "upsert" /\ task[t].op \in {"register", "confirm", "revoke"}
  BY TaskOf, Zenon DEF Upsert, TaskFits
<1>4. AgreeBut({n}) /\ InRegistry(n, v) /\ v \in Known /\ n \in Names
  <2>1. AgreeBut({n}) /\ InRegistry(n, v)
    BY <1>1, <1>3, Zenon DEF Together, TablesOf
  <2> QED
    BY <2>1, KnownNames, Zenon DEF InRegistry
<1>5. /\ DOMAIN clients' = DOMAIN clients \cup {n} /\ clients'[n] = v
      /\ \A x \in DOMAIN clients \ {n} : clients'[x] = clients[x]
  BY <1>2, Zenon DEF Put
<1>6. AgreeBut({})'
  BY <1>2, <1>4, <1>5, Zenon DEF AgreeBut, InRegistry
<1>7. CASE task[t].op = "revoke"
  <2>1. /\ InTable(n, old) /\ v \notin Rows /\ old \in Rows
        /\ old \notin Range(active_routes) /\ old \notin Range(routing_state)
    <3>1. InTable(n, old)
      BY <1>1, <1>7, Zenon DEF Together, TablesOf
    <3> QED
      BY <1>1, <1>3, <1>7, <3>1, RowNames, SMTT(40) DEF Together, TablesOf, RoutesOf, InTable
  <2>2. Rows' = (Rows \ {old}) \cup {v}
    <3>1. \A x \in DOMAIN clients \ {n} : clients[x] # old
      BY <2>1, RowNames, Zenon DEF InTable
    <3> QED
      BY <1>5, <2>1, <3>1 DEF Rows, Range, InTable
  <2>3. old \notin Known
    <3> SUFFICES ASSUME NEW m \in DOMAIN by_name, by_name[m] = old
                 PROVE  FALSE
      BY KnownNames, Zenon
    <3>1. m # n
      BY <1>4, <2>1, Zenon DEF InRegistry
    <3>2. m \in DOMAIN clients /\ clients[m] = old
      BY <1>4, <3>1, KnownNames, Zenon DEF AgreeBut
    <3> QED
      BY <2>1, <3>1, <3>2, RowNames, Zenon DEF InTable
  <2>4. Buried'
    <3>1. Known' = Known /\ dead' = dead \cup {old} /\ v \notin dead
      BY <1>2, <1>4, <1>7, DeadAreGone, Zenon DEF Known
    <3>2. v # old
      BY <2>1, Zenon
    <3> QED
      BY <2>2, <2>3, <3>1, <3>2, DeadAreGone, Zenon DEF Buried
  <2>5. Range(active_routes) \subseteq Rows'
    BY <2>1, <2>2, RoutesLead, Zenon
  <2>6. ASSUME NEW u \in DOMAIN routing_state, routing_state[u] \in Rows
        PROVE  routing_state'[u] \in Rows'
    BY <1>2, <2>1, <2>2, <2>6, Zenon DEF Range
  <2>7. \A u \in DOMAIN routing_state' \ {HUB_DEFAULT_SENTINEL} : routing_state'[u] \in Rows'
    BY <1>2, <2>6, RoutesLead, Zenon
  <2>8. (crashes = 0 /\ HUB_DEFAULT_SENTINEL \in DOMAIN routing_state')
           => routing_state'[HUB_DEFAULT_SENTINEL] \in Rows'
    BY <1>2, <1>3, <1>7, <2>6, DefaultLeads, Zenon
  <2>9. crashes = 0 => GoodDefault(default_client)
    BY <1>3, DefaultLeads, Zenon
  <2> QED
    BY <1>2, <1>6, <2>4, <2>5, <2>7, <2>8, <2>9, EndsTogether, Zenon
<1>8. CASE task[t].op # "revoke"
  <2>1. n \in DOMAIN clients => clients[n] = v
    BY <1>1, <1>3, <1>8, Zenon DEF Together, TablesOf
  <2>2. Rows' = Rows \cup {v}
    BY <1>5, <2>1, SMTT(40) DEF Rows, Range
  <2>3. Buried'
    <3>1. Known' = Known /\ dead' = dead /\ v \notin dead
      BY <1>2, <1>4, <1>8, DeadAreGone, Zenon DEF Known
    <3> QED
      BY <2>2, <3>1, DeadAreGone, Zenon DEF Buried
  <2>4. /\ Range(active_routes) \subseteq Rows'
        /\ \A u \in DOMAIN routing_state' \ {HUB_DEFAULT_SENTINEL} :
              routing_state'[u] \in Rows'
    BY <1>2, <2>2, RoutesLead, Zenon
  <2>5. (crashes = 0 /\ HUB_DEFAULT_SENTINEL \in DOMAIN routing_state')
           => routing_state'[HUB_DEFAULT_SENTINEL] \in Rows'
    BY <1>1, <1>2, <1>3, <2>2, DefaultLeads, Zenon
  <2>6. crashes = 0 => GoodDefault(default_client)
    BY <1>3, DefaultLeads, Zenon
  <2> QED
    BY <1>2, <1>6, <2>3, <2>4, <2>5, <2>6, EndsTogether, Zenon
<1> QED
  BY <1>7, <1>8, Zenon

\* The row of a client that was unregistered is deleted.
LEMMA DeleteTogether ==
    ASSUME DirectoryInv, NEW t \in Tasks, Together(task[t]), DeleteClient(t)
    PROVE  Together(task[t])'
<1>1. PICK n, old : n = task[t].name /\ old = task[t].old
  OBVIOUS
<1>2. /\ clients' = Without(clients, n)
      /\ UNCHANGED <<by_name, by_vtoken, default_client, active_routes, routing_state,
                     crashes>>
      /\ Finish(t) /\ dead' = dead \cup {old}
      /\ task[t].pc = "delete" /\ task[t].op = "unregister"
  BY <1>1, TaskOf, Zenon DEF DeleteClient, memory, TaskFits
<1>3. /\ AgreeBut({n}) /\ InTable(n, old) /\ n \notin DOMAIN by_name
      /\ old \notin Range(active_routes) /\ old \notin Range(routing_state)
  BY <1>1, <1>2, Zenon DEF Together, TablesOf, RoutesOf
<1>4. /\ DOMAIN clients' = DOMAIN clients \ {n}
      /\ \A x \in DOMAIN clients \ {n} : clients'[x] = clients[x]
  BY <1>2, Zenon DEF Without, Restrict
<1>5. AgreeBut({})'
  BY <1>2, <1>3, <1>4, ZenonT(40) DEF AgreeBut
<1>6. Rows' = Rows \ {old}
  <2>1. \A x \in DOMAIN clients \ {n} : clients[x] # old
    BY <1>3, RowNames, Zenon DEF InTable
  <2> QED
    BY <1>3, <1>4, <2>1, Zenon DEF Rows, Range, InTable
<1>7. old \notin Known
  <2> SUFFICES ASSUME NEW m \in DOMAIN by_name, by_name[m] = old
               PROVE  FALSE
    BY KnownNames, Zenon
  <2>1. m # n /\ m \in DOMAIN clients /\ clients[m] = old
    BY <1>3, KnownNames, Zenon DEF AgreeBut
  <2> QED
    BY <1>3, <2>1, RowNames, Zenon DEF InTable
<1>8. Buried'
  <2>1. Known' = Known
    BY <1>2, Zenon DEF Known
  <2> QED
    BY <1>2, <1>6, <1>7, <2>1, DeadAreGone, Zenon DEF Buried
<1>9. Range(active_routes) \subseteq Rows'
  BY <1>3, <1>6, RoutesLead, Zenon
<1>10. \A u \in DOMAIN routing_state : routing_state[u] # old
  BY <1>3, Zenon DEF Range
<1>11. \A u \in DOMAIN routing_state' \ {HUB_DEFAULT_SENTINEL} : routing_state'[u] \in Rows'
  BY <1>2, <1>6, <1>10, RoutesLead, Zenon
<1>12. (crashes = 0 /\ HUB_DEFAULT_SENTINEL \in DOMAIN routing_state')
          => routing_state'[HUB_DEFAULT_SENTINEL] \in Rows'
  BY <1>2, <1>6, <1>10, DefaultLeads, Zenon
<1>13. crashes = 0 => GoodDefault(default_client)
  BY <1>2, DefaultLeads, Zenon
<1> QED
  BY <1>2, <1>5, <1>8, <1>9, <1>11, <1>12, <1>13, EndsTogether, Zenon

\* The row of a client that was renamed takes its new name.
LEMMA UpdateTogether ==
    ASSUME DirectoryInv, NEW t \in Tasks, Together(task[t]), UpdateName(t)
    PROVE  Together(task[t])'
<1>1. PICK m, v : m = task[t].name /\ v = task[t].vtoken
  OBVIOUS
<1>2. /\ UNCHANGED <<by_name, by_vtoken, default_client, active_routes, routing_state,
                     dead, crashes>>
      /\ Finish(t) /\ task[t].pc = "update_name" /\ task[t].op = "update"
  BY TaskOf, Zenon DEF UpdateName, memory, TaskFits
<1>3. PICK n \in Names :
         /\ InTable(n, v) /\ InRegistry(m, v) /\ AgreeBut({n, m})
         /\ n # m => n \notin DOMAIN by_name /\ m \notin DOMAIN clients
  BY <1>1, <1>2, Zenon DEF Together, TablesOf
<1>4. {x \in DOMAIN clients : clients[x] = v} = {n}
  BY <1>3, RowNames, SMTT(40) DEF InTable
<1>5. clients' = Put(Restrict(clients, DOMAIN clients \ {n}), m, v)
  BY <1>1, <1>3, <1>4, Zenon DEF UpdateName
<1>6. /\ DOMAIN clients' = (DOMAIN clients \ {n}) \cup {m} /\ clients'[m] = v
      /\ \A x \in (DOMAIN clients \ {n}) \ {m} : clients'[x] = clients[x]
  <2>1. /\ DOMAIN Restrict(clients, DOMAIN clients \ {n}) = DOMAIN clients \ {n}
        /\ \A x \in DOMAIN clients \ {n} :
              Restrict(clients, DOMAIN clients \ {n})[x] = clients[x]
    BY Zenon DEF Restrict
  <2> QED
    BY <1>5, <2>1, Zenon DEF Put
<1>7. AgreeBut({})'
  BY <1>2, <1>3, <1>6, Zenon DEF AgreeBut, InRegistry
<1>8. Rows' = Rows
  <2>1. \A x \in DOMAIN clients' : clients'[x] \in Rows
    <3>1. v \in Rows
      BY <1>3, RowNames, Zenon DEF InTable
    <3>2. \A x \in DOMAIN clients : clients[x] \in Rows
      BY RowNames, Zenon
    <3> QED
      BY <1>6, <3>1, <3>2, Zenon
  <2>2. \A x \in DOMAIN clients : \E y \in DOMAIN clients' : clients'[y] = clients[x]
    BY <1>3, <1>6, Zenon DEF InTable
  <2> QED
    BY <2>1, <2>2, Zenon DEF Rows, Range
<1>9. Buried'
  <2>1. Known' = Known
    BY <1>2, Zenon DEF Known
  <2> QED
    BY <1>2, <1>8, <2>1, DeadAreGone, Zenon DEF Buried
<1>10. /\ Range(active_routes) \subseteq Rows'
       /\ \A u \in DOMAIN routing_state' \ {HUB_DEFAULT_SENTINEL} :
              routing_state'[u] \in Rows'
  BY <1>2, <1>8, RoutesLead, Zenon
<1>11. /\ (crashes = 0 /\ HUB_DEFAULT_SENTINEL \in DOMAIN routing_state')
             => routing_state'[HUB_DEFAULT_SENTINEL] \in Rows'
       /\ crashes = 0 => GoodDefault(default_client)
  BY <1>2, <1>8, DefaultLeads, Zenon
<1> QED
  BY <1>2, <1>7, <1>9, <1>10, <1>11, EndsTogether, Zenon

\* A step that leaves all of it alone.
LEMMA NothingMoves ==
    ASSUME NEW t \in Tasks, Together(task[t]), Known' = Known,
           UNCHANGED <<by_name, default_client, active_routes, clients, routing_state,
                       task, dead, crashes>>
    PROVE  Together(task[t])'
<1>1. TablesOf(task[t])'
  BY ZenonT(40) DEF Together, TablesOf, AgreeBut, InRegistry, InTable, Rows
<1>2. RoutesOf(task[t])'
  BY Zenon DEF Together, RoutesOf, Rows
<1>3. Buried'
  BY Zenon DEF Together, Buried, Rows
<1>4. crashes' = 0 => DefaultOf(task[t])'
  BY Zenon DEF Together, DefaultOf, GoodDefault, Rows
<1> QED
  BY <1>1, <1>2, <1>3, <1>4, StillTogether, Zenon

\* The online flags matter to none of it.
LEMMA PresenceTogether ==
    ASSUME NEW t \in Tasks, Together(task[t]), NEW v \in DOMAIN by_vtoken,
           MarkPresence(v)
    PROVE  Together(task[t])'
<1>1. /\ UNCHANGED <<by_name, default_client, active_routes, clients, routing_state,
                     task, dead, crashes>>
      /\ Known' = Known
  BY Zenon DEF MarkPresence, store, Known
<1> QED
  BY <1>1, NothingMoves, Zenon

\* A restart that reads and writes the tables brings the registry level with
\* them, wherever the operation was cut short.
LEMMA RestartTogether ==
    ASSUME DirectoryInv, NEW t \in Tasks, Together(task[t]), Restart,
           UNCHANGED faults
    PROVE  Together(task[t])'
<1>1. /\ UNCHANGED <<clients, dead>> /\ task' = [s \in Tasks |-> Idle]
      /\ LoadClients(PersistedDefault, TRUE)
  <2>1. faults' # faults + 1
    BY DEF DirectoryInv, TypeOK
  <2> QED
    BY <2>1, Zenon DEF Restart
<1>2. task'[t].op = "none" /\ task'[t].pc = "idle"
  BY <1>1, Zenon DEF Idle
<1>3. PICK default : default = IF PersistedDefault # None THEN PersistedDefault
                                                         ELSE FirstByName
  OBVIOUS
<1>4. /\ by_name' = clients /\ Known' = Rows
      /\ default_client' = default
      /\ routing_state' = IF default = None THEN routing_state
                          ELSE Put(routing_state, HUB_DEFAULT_SENTINEL, default)
  BY <1>1, <1>3, Zenon DEF LoadClients, Known, Rows
<1>5. Range(active_routes') \subseteq Rows
  <2> DEFINE K == {x \in DOMAIN routing_state : routing_state[x] \in Rows}
             known == Restrict(routing_state, K)
  <2>1. active_routes' = Restrict(known, DOMAIN known \ {HUB_DEFAULT_SENTINEL})
    BY <1>1, Zenon DEF LoadClients, RestrictValues, Rows
  <2>2. DOMAIN known = K /\ \A x \in K : known[x] \in Rows
    BY Zenon DEF Restrict
  <2> HIDE DEF known, K
  <2> QED
    BY <2>1, <2>2, Zenon DEF Restrict, Range
<1>6. \A u \in DOMAIN routing_state' \ {HUB_DEFAULT_SENTINEL} :
         u \in DOMAIN routing_state /\ routing_state'[u] = routing_state[u]
  BY <1>4, Zenon DEF Put
<1>7. TablesOf(task[t])'
  BY <1>1, <1>2, <1>4, Zenon DEF TablesOf, AgreeBut
<1>8. Rows' = Rows
  BY <1>1, Zenon DEF Rows
<1>9. RoutesOf(task[t])'
  BY <1>2, <1>5, <1>6, <1>8, Zenon DEF Together, RoutesOf
<1>10. Buried'
  BY <1>1, <1>4, <1>8, Zenon DEF Together, Buried
<1>11. ASSUME crashes' = 0
       PROVE  DefaultOf(task[t])'
  <2>1. crashes = 0 /\ task[t].pc = "idle"
    <3>1. crashes \in Nat
      BY Zenon DEF DirectoryInv, TypeOK
    <3>2. \/ (\A s \in Tasks : task[s].pc = "idle") /\ UNCHANGED crashes
          \/ crashes' = crashes + 1
      BY Zenon DEF Restart
    <3> QED
      BY <1>11, <3>1, <3>2
  <2>2. DefaultOf(task[t]) /\ task[t].op = "none"
    BY <2>1, IdleTask, Zenon DEF Together
  <2>3. PersistedDefault \in Rows \cup {None}
    BY <2>2, Zenon DEF DefaultOf, PersistedDefault
  <2>4. IF Rows = {} THEN FirstByName = None ELSE FirstByName \in Rows
    <3>1. CASE DOMAIN clients = {}
      BY <3>1, Zenon DEF FirstByName, Rows, Range
    <3>2. CASE DOMAIN clients # {}
      <4>1. DOMAIN clients \subseteq Nat
        BY DirectoryConstants, Zenon DEF DirectoryInv, TypeOK, Partial
      <4> DEFINE first == CHOOSE n \in DOMAIN clients :
                             \A m \in DOMAIN clients : n <= m
      <4>2. first \in DOMAIN clients /\ FirstByName = clients[first]
        BY <3>2, <4>1, FirstName, Zenon DEF FirstByName
      <4> HIDE DEF first
      <4> QED
        BY <4>2, Zenon DEF Rows, Range
    <3> QED
      BY <3>1, <3>2, Zenon
  <2>5. IF Rows = {} THEN default = None ELSE default \in Rows
    BY <1>3, <2>3, <2>4, Zenon
  <2>6. None \notin Rows
    BY RowNames, DirectoryConstants, Zenon DEF DirectoryInv, TypeOK
  <2>7. HUB_DEFAULT_SENTINEL \in DOMAIN routing_state' =>
           routing_state'[HUB_DEFAULT_SENTINEL] \in Rows
    <3>1. CASE default = None
      <4>1. Rows = {} /\ routing_state' = routing_state
        BY <1>4, <2>5, <2>6, <3>1, Zenon
      <4> QED
        BY <2>2, <4>1, Zenon DEF DefaultOf
    <3>2. CASE default # None
      <4>1. routing_state' = Put(routing_state, HUB_DEFAULT_SENTINEL, default)
        BY <1>4, <3>2, Zenon
      <4>2. routing_state'[HUB_DEFAULT_SENTINEL] = default
        BY <4>1, Zenon DEF Put
      <4> QED
        BY <2>5, <3>2, <4>2, Zenon
    <3> QED
      BY <3>1, <3>2, Zenon
  <2> QED
    BY <1>2, <1>4, <1>8, <2>5, <2>7, Zenon DEF DefaultOf, GoodDefault
<1> QED
  BY <1>7, <1>9, <1>10, <1>11, StillTogether, Zenon

\* Every step of the only task keeps the stores together, as long as nothing
\* fails.
LEMMA StoreStep ==
    ASSUME OneAtATime, DirectoryInv, StoreInv, [Next]_vars
    PROVE  StoreInv'
<1> PICK t : Tasks = {t}
  BY Zenon DEF OneAtATime
<1> SUFFICES ASSUME faults' = 0 PROVE Together(task[t])'
  BY Zenon DEF StoreInv
<1>1. faults \in Nat /\ t \in Tasks
  BY Zenon DEF DirectoryInv, TypeOK
<1>2. ASSUME faults = 0
      PROVE  Together(task[t])
  BY <1>2, Zenon DEF StoreInv
<1>3. ASSUME NEW s \in Tasks, NEW n \in Names,
             \/ Register(s, n) \/ RegisterConfirmed(s, n) \/ UnregisterLookUp(s, n)
             \/ Revoke(s, n)
             \/ \E m \in Names : Update(s, n, m)
             \/ \E u \in Users : Use(s, u, n)
      PROVE  Together(task[t])'
  <2>1. s = t /\ faults = 0
    BY <1>3, Zenon DEF Register, RegisterConfirmed, Admit, RegisterExisting,
       UnregisterLookUp, Revoke, rotate_vtoken, Update, update_client, Use
  <2>2. Together(task[t])
    BY <1>2, <2>1, Zenon
  <2>3. \/ Admit(t, n, "register") \/ Admit(t, n, "confirm") \/ Revoke(t, n)
        \/ RegisterExisting(t, n) \/ UnregisterLookUp(t, n)
        \/ (\E m \in Names : Update(t, n, m)) \/ (\E u \in Users : Use(t, u, n))
    BY <1>3, <2>1, Zenon DEF Register, RegisterConfirmed
  <2>4. CASE Admit(t, n, "register") \/ Admit(t, n, "confirm")
    BY <1>1, <2>2, <2>4, AdmitTogether, Zenon
  <2>5. CASE Revoke(t, n)
    BY <1>1, <2>2, <2>5, RevokeTogether, Zenon
  <2> QED
    BY <1>1, <2>2, <2>3, <2>4, <2>5, LookUpTogether, Zenon
<1>4. ASSUME NEW s \in Tasks,
             \/ Remove(s) \/ SetDefault(s) \/ PersistDefault(s) \/ Upsert(s)
             \/ DropRoutes(s) \/ ClearRoutes(s) \/ DeleteClient(s) \/ UpdateName(s)
             \/ PersistRoute(s) \/ SetRoute(s)
      PROVE  Together(task[t])'
  <2>1. s = t /\ faults = 0
    BY <1>4, Zenon DEF Remove, SetDefault, PersistDefault, Upsert, DropRoutes,
       ClearRoutes, DeleteClient, UpdateName, PersistRoute, SetRoute
  <2> QED
    BY <1>1, <1>2, <1>4, <2>1, RemoveTogether, SetDefaultTogether, UpsertTogether,
       DropTogether, ClearTogether, DeleteTogether, UpdateTogether, UseTogether, Zenon
<1>5. ASSUME NEW s \in Tasks, StatementFails(s) \/ RequestDropped(s)
      PROVE  FALSE
  BY <1>1, <1>5, SMTT(40) DEF StatementFails, RequestDropped
<1>6. ASSUME NEW v \in DOMAIN by_vtoken, MarkPresence(v)
      PROVE  Together(task[t])'
  <2>1. faults = 0
    BY <1>6, Zenon DEF MarkPresence
  <2> QED
    BY <1>1, <1>2, <1>6, <2>1, PresenceTogether, Zenon
<1>7. CASE Restart
  <2>1. UNCHANGED faults \/ faults' = faults + 1
    BY <1>7, Zenon DEF Restart
  <2>2. UNCHANGED faults /\ faults = 0
    BY <1>1, <2>1
  <2> QED
    BY <1>1, <1>2, <1>7, <2>2, RestartTogether, Zenon
<1>8. CASE UNCHANGED vars
  <2>1. faults = 0
    BY <1>8, Zenon DEF vars
  <2> QED
    BY <1>1, <1>2, <1>8, <2>1, NothingMoves, Zenon DEF vars, Known
<1> QED
  BY <1>3, <1>4, <1>5, <1>6, <1>7, <1>8, Zenon DEF Next

\* One operation at a time, and as long as no statement failed and no request
\* was dropped, registry, router and tables are at each step of register,
\* confirm, unregister, revoke, update and /use as far apart as that operation
\* has still to go, with a crash and a restart at any point.
THEOREM TogetherInvariance ==
    ASSUME OneAtATime
    PROVE  Spec => [](DirectoryInv /\ StoreInv)
<1>1. Init => StoreInv
  <2> SUFFICES ASSUME Init, NEW t \in Tasks PROVE Together(task[t])
    BY Zenon DEF StoreInv
  <2>1. DOMAIN Empty = {}
    BY EmptyPartial, Zenon
  <2>2. /\ DOMAIN by_name = {} /\ DOMAIN clients = {} /\ DOMAIN active_routes = {}
        /\ DOMAIN routing_state = {} /\ Known = {} /\ dead = {}
        /\ default_client = None /\ task[t].op = "none" /\ task[t].pc = "idle"
    BY <2>1, Zenon DEF Init, Idle, Known
  <2>3. Range(active_routes) = {}
    BY <2>2, Zenon DEF Range
  <2> QED
    BY Zenon, <2>2, <2>3 DEF Together, TablesOf, AgreeBut, RoutesOf, Buried, DefaultOf,
       GoodDefault
<1>2. DirectoryInv /\ StoreInv /\ [Next]_vars => StoreInv'
  BY StoreStep, Zenon
<1> QED
  BY <1>1, <1>2, DirectoryInvariance, PTL DEF Spec

\* Between operations the rows are the registered clients, and every route and
\* the default lead to one of them (upsert_client, delete_client_by_name,
\* remove_routes_for_vtoken, clear_routes_for_vtoken, the loader).
THEOREM StoresTellOneStory ==
    ASSUME OneAtATime
    PROVE  Spec => []StoresAgree
<1>1. DirectoryInv /\ StoreInv => StoresAgree
  <2> PICK t : Tasks = {t}
    BY Zenon DEF OneAtATime
  <2> SUFFICES ASSUME DirectoryInv, StoreInv, Undisturbed PROVE
                 /\ clients = by_name
                 /\ Range(active_routes) \subseteq DOMAIN by_vtoken
                 /\ \A u \in DOMAIN routing_state \ {HUB_DEFAULT_SENTINEL} :
                       routing_state[u] \in DOMAIN by_vtoken
                 /\ crashes = 0 =>
                       IF DOMAIN by_vtoken = {} THEN default_client = None
                                                ELSE default_client \in DOMAIN by_vtoken
    BY Zenon DEF StoresAgree, TableMatchesRegistry, RoutesKnown, DefaultKnown
  <2>1. task[t].op = "none" /\ task[t].pc = "idle" /\ Together(task[t])
    BY IdleTask, Zenon DEF Undisturbed, Quiet, StoreInv
  <2>2. AgreeBut({}) /\ RoutesOf(task[t])
    BY <2>1, Zenon DEF Together, TablesOf
  <2>3. clients = by_name
    <3>1. /\ DOMAIN clients \subseteq Names /\ DOMAIN by_name \subseteq Names
          /\ clients \in [DOMAIN clients -> Vtokens]
          /\ by_name \in [DOMAIN by_name -> Vtokens]
      BY Zenon DEF DirectoryInv, TypeOK, Partial
    <3>2. DOMAIN clients = DOMAIN by_name
      BY <2>2, <3>1, Zenon DEF AgreeBut
    <3>3. \A n \in DOMAIN clients : clients[n] = by_name[n]
      BY <2>2, <3>1, Zenon DEF AgreeBut
    <3> QED
      BY <3>1, <3>2, <3>3
  <2>4. Rows \subseteq Known
    BY <2>3, KnownNames, SMTT(40) DEF Rows, Range
  <2>5. crashes = 0 => GoodDefault(default_client)
    BY <2>1, Zenon DEF Together, DefaultOf
  <2> QED
    BY <2>2, <2>3, <2>4, <2>5, Zenon DEF RoutesOf, GoodDefault, Known
<1> QED
  BY <1>1, TogetherInvariance, PTL

\* A vtoken that unregister or revoke removed with success never comes back
\* into the registry, through later operations, crashes and restarts.
THEOREM RemovedIsGone ==
    ASSUME OneAtATime
    PROVE  Spec => []RemovedStaysRemoved
<1>1. StoreInv => RemovedStaysRemoved
  BY Zenon DEF OneAtATime, StoreInv, Together, Buried, Known, RemovedStaysRemoved
<1> QED
  BY <1>1, TogetherInvariance, PTL

\* When revoke_client_in_hub answers, no user's route leads to the new vtoken.
THEOREM RevokingDropsRoutes ==
    ASSUME OneAtATime
    PROVE  Spec => RevokedRoutesGone
<1> PICK one : Tasks = {one}
  BY Zenon DEF OneAtATime
<1> DEFINE Answers(s) == /\ task[s].op = "revoke" /\ task[s].pc = "upsert"
                         /\ task'[s].pc = "idle" /\ faults' = 0 /\ crashes' = crashes
           Gone(s) == \A u \in Users \cap DOMAIN routing_state' :
                         routing_state'[u] # task[s].vtoken
<1>1. ASSUME DirectoryInv, StoreInv, Next, Answers(one)
      PROVE  Gone(one)
  <2>1. one \in Tasks /\ faults \in Nat /\ crashes \in Nat /\ task \in [Tasks -> Task]
    BY <1>1, Zenon DEF DirectoryInv, TypeOK
  <2>2. Upsert(one)
    <3>1. ~Restart
      <4>1. ASSUME Restart PROVE (\A s \in Tasks : task[s].pc = "idle") \/ crashes' = crashes + 1
        BY <4>1, Zenon DEF Restart
      <4> QED
        BY <1>1, <2>1, <4>1
    <3>2. \A s \in Tasks : ~StatementFails(s) /\ ~RequestDropped(s)
      BY <1>1, <2>1 DEF StatementFails, RequestDropped
    <3>3. \A v \in DOMAIN by_vtoken : ~MarkPresence(v)
      BY <1>1, Zenon DEF MarkPresence
    <3>4. \A s \in Tasks, n \in Names :
             /\ ~Register(s, n) /\ ~RegisterConfirmed(s, n) /\ ~UnregisterLookUp(s, n)
             /\ ~Revoke(s, n)
             /\ \A m \in Names : ~Update(s, n, m)
             /\ \A u \in Users : ~Use(s, u, n)
      BY Zenon, <1>1 DEF Register, RegisterConfirmed, Admit, RegisterExisting,
                  UnregisterLookUp, Revoke, Update, Use
    <3>5. \A s \in Tasks : s = one
      OBVIOUS
    <3>6. /\ ~Remove(one) /\ ~SetDefault(one) /\ ~PersistDefault(one) /\ ~DropRoutes(one)
          /\ ~ClearRoutes(one) /\ ~DeleteClient(one) /\ ~UpdateName(one) /\ ~PersistRoute(one)
          /\ ~SetRoute(one)
      BY <1>1, Zenon DEF Remove, SetDefault, PersistDefault, DropRoutes, ClearRoutes,
                  DeleteClient, UpdateName, PersistRoute, SetRoute
    <3> QED
      BY <1>1, <3>1, <3>2, <3>3, <3>4, <3>5, <3>6, Zenon DEF Next
  <2>3. Together(task[one])
    <3>1. faults = 0
      BY <1>1, <2>2, Zenon DEF Upsert
    <3> QED
      BY <1>1, <3>1, Zenon DEF StoreInv
  <2>4. /\ DOMAIN routing_state' = DOMAIN routing_state
        /\ \A u \in DOMAIN routing_state : routing_state'[u] = routing_state[u]
    BY <1>1, <2>1, <2>2, <2>3, UpsertMeans, Zenon
  <2>5. task[one].vtoken \notin Rows
    BY <1>1, <2>3, ZenonT(40) DEF Together, TablesOf
  <2>6. \A u \in DOMAIN routing_state \ {HUB_DEFAULT_SENTINEL} : routing_state[u] \in Rows
    BY <2>3, Zenon DEF Together, RoutesOf
  <2>7. HUB_DEFAULT_SENTINEL \notin Users
    BY DirectoryConstants, Zenon DEF HUB_DEFAULT_SENTINEL
  <2> QED
    BY <2>4, <2>5, <2>6, <2>7, Zenon
<1>2. DirectoryInv /\ StoreInv /\ [Next]_vars
         => [\A t \in Tasks :
               (task[t].op = "revoke" /\ task[t].pc = "upsert" /\ task'[t].pc = "idle"
                  /\ faults' = 0 /\ crashes' = crashes)
               => \A u \in Users \cap DOMAIN routing_state' :
                     routing_state'[u] # task[t].vtoken]_vars
  BY <1>1, Zenon
<1> QED
  BY <1>2, TogetherInvariance, PTL DEF Spec, RevokedRoutesGone
=============================================================================
