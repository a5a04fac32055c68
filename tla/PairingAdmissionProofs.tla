----------------------- MODULE PairingAdmissionProofs -----------------------
(***************************************************************************)
(* Proofs about PollTracker, for any finite set of requests and any caps,  *)
(* and about Admission, which lets the handler, the health checker and the *)
(* removals run around it; and about Pairing, for any clients, requests,   *)
(* names, time limits and caps: a pairing comes out right, and no poll     *)
(* sleeps through a scan.                                                  *)
(*                                                                         *)
(* Every step of Admission is a step of the tracker or leaves it alone, so *)
(* what is proved of the gate by itself holds of the whole handler.        *)
(***************************************************************************)
EXTENDS Admission, Pairing, FiniteSetTheorems, TLAPS

\* A request is counted between its two critical sections.
InCounts == {"over", "serving", "dropping"}

CountedShape ==
    \A r \in Requests :
        /\ counted[r] => pc[r] \in InCounts
        /\ (~poisoned /\ pc[r] \in InCounts) => counted[r]

\* The requests that passed the Hub-wide gate.
Admitted == {r \in Requests : pc[r] \in {"entered", "over", "serving"}}

AdmittedWithinCap == Cardinality(Admitted) <= HubCap

TrackerInv ==
    /\ TypeOK
    /\ CountersExact
    /\ CountedShape
    /\ AdmittedWithinCap
    /\ VtokenCapHolds
-----------------------------------------------------------------------------
\* A set of requests and its number after one more request joins it.
LEMMA Grow ==
    ASSUME NEW S \in SUBSET Requests, NEW r \in Requests
    PROVE  /\ Cardinality(S) \in Nat /\ Cardinality(S \cup {r}) \in Nat
           /\ Cardinality(S \cup {r}) <= Cardinality(S) + 1
           /\ r \notin S => Cardinality(S \cup {r}) = Cardinality(S) + 1
<1>1. IsFiniteSet(S)
  BY TrackerConstants, FS_Subset, Zenon
<1>2. /\ IsFiniteSet(S \cup {r})
      /\ Cardinality(S \cup {r}) = IF r \in S THEN Cardinality(S) ELSE Cardinality(S) + 1
  BY <1>1, FS_AddElement, Zenon
<1>3. Cardinality(S) \in Nat /\ Cardinality(S \cup {r}) \in Nat
  BY <1>1, <1>2, FS_CardinalityType, Zenon
<1> QED
  BY <1>2, <1>3

\* A set of requests and its number after one of them leaves it.
LEMMA Shrink ==
    ASSUME NEW S \in SUBSET Requests, NEW r \in S
    PROVE  /\ Cardinality(S) \in Nat /\ Cardinality(S \ {r}) \in Nat
           /\ Cardinality(S \ {r}) = Cardinality(S) - 1
           /\ (S \ {r} = {}) <=> (Cardinality(S) = 1)
<1>1. IsFiniteSet(S) /\ IsFiniteSet(S \ {r})
  BY TrackerConstants, FS_Subset, FS_RemoveElement, Zenon
<1>2. Cardinality(S \ {r}) = 0 <=> S \ {r} = {}
  BY <1>1, FS_EmptySet, Zenon
<1>3. Cardinality(S \ {r}) = Cardinality(S) - 1 /\ Cardinality(S) \in Nat
      /\ Cardinality(S \ {r}) \in Nat
  BY <1>1, FS_RemoveElement, FS_CardinalityType, Zenon
<1> QED
  BY <1>2, <1>3

\* Fewer requests, a smaller number.
LEMMA Fewer ==
    ASSUME NEW S \in SUBSET Requests, NEW T \in SUBSET S
    PROVE  /\ Cardinality(S) \in Nat /\ Cardinality(T) \in Nat
           /\ Cardinality(T) <= Cardinality(S)
<1>1. IsFiniteSet(S)
  BY TrackerConstants, FS_Subset, Zenon
<1> QED
  BY <1>1, FS_Subset, FS_CardinalityType, Zenon
-----------------------------------------------------------------------------
\* What each action does to the set of requests that hold a place in total.
LEMMA HoldingStep ==
    ASSUME TypeOK, [Next]_vars
    PROVE  \/ \E r \in Requests : Enter(r) /\ r \notin Holding /\ Holding' = Holding \cup {r}
           \/ \E r \in Requests : /\ RollBack(r) \/ Leave(r)
                                  /\ r \in Holding /\ Holding' = Holding \ {r}
           \/ total' = total /\ Holding' = Holding
<1>1. ASSUME NEW r \in Requests, Enter(r)
      PROVE  r \notin Holding /\ Holding' = Holding \cup {r}
  BY <1>1, Zenon DEF Enter, Holding, TypeOK
<1>2. ASSUME NEW r \in Requests, RollBack(r) \/ Leave(r)
      PROVE  r \in Holding /\ Holding' = Holding \ {r}
  BY <1>2, Zenon DEF RollBack, Leave, Holding, TypeOK
<1>3. ASSUME NEW r \in Requests, EnterPoisoned(r) \/ Uncount(r)
      PROVE  total' = total /\ Holding' = Holding
  BY <1>3, Zenon DEF EnterPoisoned, Uncount, Holding, TypeOK
<1>4. ASSUME NEW r \in Requests, Count(r)
      PROVE  total' = total /\ Holding' = Holding
  <2>1. /\ pc[r] = "entered" /\ pc'[r] \in {"over", "serving"}
        /\ \A q \in Requests : q # r => pc'[q] = pc[q]
    BY <1>4, Zenon DEF Count, TypeOK
  <2> QED
    BY <1>4, <2>1, Zenon DEF Count, Holding
<1>5. CASE Poison \/ UNCHANGED vars
  BY <1>5, Zenon DEF Poison, vars, Holding
<1> QED
  BY <1>1, <1>2, <1>3, <1>4, <1>5, Zenon DEF Next

\* total counts the places held, whatever the order of the steps.
LEMMA TotalStep ==
    ASSUME TypeOK, total = Cardinality(Holding), [Next]_vars
    PROVE  total' \in Nat /\ total' = Cardinality(Holding')
<1>1. Holding \in SUBSET Requests
  BY Zenon DEF Holding
<1>2. ASSUME NEW r \in Requests, Enter(r), r \notin Holding, Holding' = Holding \cup {r}
      PROVE  total' \in Nat /\ total' = Cardinality(Holding')
  BY <1>1, <1>2, Grow, Zenon DEF Enter
<1>3. ASSUME NEW r \in Requests, RollBack(r) \/ Leave(r), r \in Holding,
             Holding' = Holding \ {r}
      PROVE  total' \in Nat /\ total' = Cardinality(Holding')
  <2>1. total' = total - 1
    BY <1>3, Zenon DEF RollBack, Leave
  <2> QED
    BY <1>1, <1>3, <2>1, Shrink, Zenon
<1> QED
  BY <1>2, <1>3, HoldingStep, Zenon DEF TypeOK

\* Types are kept; total does not go below zero because it counts Holding.
LEMMA TypeStep ==
    ASSUME TrackerInv, [Next]_vars
    PROVE  TypeOK'
<1> USE DEF TrackerInv
<1>1. total' \in Nat
  BY TotalStep, Zenon DEF CountersExact
<1>2. ASSUME NEW r \in Requests, Enter(r) PROVE TypeOK'
  BY <1>1, <1>2, Zenon DEF Enter, TypeOK, States
<1>3. ASSUME NEW r \in Requests, RollBack(r) \/ EnterPoisoned(r) \/ Leave(r) PROVE TypeOK'
  BY <1>1, <1>3, Zenon DEF RollBack, EnterPoisoned, Leave, TypeOK, States
<1>4. ASSUME NEW r \in Requests, Count(r) PROVE TypeOK'
  <2>1. Incremented(vtoken[r]) \in Nat /\ vtoken[r] \in Vtokens
    BY DEF TypeOK, Incremented
  <2>2. DOMAIN counts' \subseteq Vtokens /\ counts' \in [DOMAIN counts' -> Nat]
    BY <1>4, <2>1, Zenon DEF Count, TypeOK
  <2>3. pc' \in [Requests -> States]
    BY <1>4, Zenon DEF Count, TypeOK, States
  <2> QED
    BY <1>1, <1>4, <2>2, <2>3, Zenon DEF Count, TypeOK
<1>5. ASSUME NEW r \in Requests, Uncount(r) PROVE TypeOK'
  <2>1. ASSUME NEW v \in DOMAIN counts
        PROVE  /\ DOMAIN [counts EXCEPT ![v] = @ - 1] = DOMAIN counts
               /\ counts[v] > 1 =>
                    [counts EXCEPT ![v] = @ - 1] \in [DOMAIN counts -> Nat]
    BY DEF TypeOK
  <2>2. DOMAIN counts' \subseteq Vtokens /\ counts' \in [DOMAIN counts' -> Nat]
    BY <1>5, <2>1 DEF Uncount, Decremented, TypeOK
  <2>3. pc' \in [Requests -> States]
    BY <1>5, Zenon DEF Uncount, TypeOK, States
  <2> QED
    BY <1>1, <1>5, <2>2, <2>3, Zenon DEF Uncount, TypeOK
<1>6. CASE Poison \/ UNCHANGED vars
  BY <1>6, Zenon DEF Poison, vars, TypeOK
<1> QED
  BY <1>2, <1>3, <1>4, <1>5, <1>6, Zenon DEF Next

\* A request enters counts when it is counted and leaves it when its guard is
\* dropped.
LEMMA ShapeStep ==
    ASSUME TypeOK, CountedShape, [Next]_vars
    PROVE  CountedShape'
<1>1. ASSUME NEW r \in Requests, Enter(r) \/ RollBack(r) \/ EnterPoisoned(r)
      PROVE  CountedShape'
  BY <1>1, Zenon DEF Enter, RollBack, EnterPoisoned, TypeOK, CountedShape, InCounts
<1>2. ASSUME NEW r \in Requests, Count(r)
      PROVE  CountedShape'
  <2>1. /\ pc'[r] \in {"over", "serving"} /\ counted'[r]
        /\ \A q \in Requests : q # r => pc'[q] = pc[q] /\ counted'[q] = counted[q]
        /\ poisoned' = poisoned
    BY <1>2, Zenon DEF Count, TypeOK
  <2> QED
    BY <2>1, Zenon DEF CountedShape, InCounts
<1>3. ASSUME NEW r \in Requests, Leave(r) \/ Uncount(r)
      PROVE  CountedShape'
  BY <1>3, Zenon DEF Leave, Uncount, TypeOK, CountedShape, InCounts
<1>4. CASE Poison \/ UNCHANGED vars
  BY <1>4 DEF Poison, vars, CountedShape
<1> QED
  BY <1>1, <1>2, <1>3, <1>4, Zenon DEF Next

\* counts matches the requests between their two critical sections.
CountsExact ==
    /\ DOMAIN counts = {v \in Vtokens : CountedFor(v) # {}}
    /\ \A v \in DOMAIN counts : counts[v] = Cardinality(CountedFor(v))

\* What the second critical section leaves in counts.
LEMMA DecrementedExact ==
    ASSUME TypeOK, CountsExact, NEW r \in Requests, counted[r]
    PROVE  LET v == vtoken[r]
               rest == CountedFor(v) \ {r}
           IN  /\ DOMAIN Decremented(v) = IF rest = {} THEN DOMAIN counts \ {v}
                                          ELSE DOMAIN counts
               /\ \A u \in DOMAIN Decremented(v) :
                     Decremented(v)[u] = IF u = v THEN Cardinality(rest) ELSE counts[u]
<1> DEFINE v == vtoken[r]
           rest == CountedFor(v) \ {r}
<1>1. CountedFor(v) \in SUBSET Requests /\ r \in CountedFor(v) /\ v \in Vtokens
  BY Zenon DEF CountedFor, TypeOK
<1>2. /\ Cardinality(CountedFor(v)) \in Nat
      /\ Cardinality(rest) = Cardinality(CountedFor(v)) - 1
      /\ Cardinality(rest) \in Nat
      /\ rest = {} <=> Cardinality(CountedFor(v)) = 1
  BY <1>1, Shrink, Zenon
<1>3. v \in DOMAIN counts /\ counts[v] = Cardinality(CountedFor(v))
  BY <1>1, Zenon DEF CountsExact
<1> HIDE DEF v, rest
<1>4. CASE counts[v] <= 1
  <2>1. Decremented(v) = [u \in DOMAIN counts \ {v} |-> counts[u]]
    BY <1>3, <1>4, Zenon DEF Decremented
  <2>2. rest = {}
    BY <1>2, <1>3, <1>4
  <2> QED
    BY <2>1, <2>2, Zenon DEF v, rest
<1>5. CASE ~(counts[v] <= 1)
  <2>1. Decremented(v) = [counts EXCEPT ![v] = @ - 1]
    BY <1>3, <1>5, Zenon DEF Decremented
  <2>2. rest # {}
    BY <1>2, <1>3, <1>5
  <2>3. counts = [u \in DOMAIN counts |-> counts[u]]
    BY Zenon DEF TypeOK
  <2>4. /\ DOMAIN Decremented(v) = DOMAIN counts
        /\ \A u \in DOMAIN counts :
              Decremented(v)[u] = IF u = v THEN counts[v] - 1 ELSE counts[u]
    BY <1>3, <2>1, <2>3, Zenon
  <2> QED
    BY <1>2, <1>3, <2>2, <2>4, Zenon DEF v, rest
<1> QED
  BY <1>4, <1>5, Zenon

\* counts stays exact until the mutex is poisoned.
LEMMA CountsStep ==
    ASSUME TypeOK, CountedShape, ~poisoned => CountsExact, [Next]_vars, ~poisoned'
    PROVE  CountsExact'
<1>1. ~poisoned /\ CountsExact
  <2>1. poisoned' = poisoned \/ poisoned' = TRUE
    BY Zenon DEF Next, Enter, RollBack, EnterPoisoned, Count, Leave, Uncount, Poison, vars
  <2> QED
    BY <2>1, Zenon DEF TypeOK
<1>2. ASSUME NEW r \in Requests, Enter(r) PROVE CountsExact'
  <2>1. counted[r] = FALSE /\ counts' = counts /\ counted' = counted
    BY <1>2, Zenon DEF Enter, CountedShape, InCounts, TypeOK
  <2>2. \A q \in Requests : q # r => vtoken'[q] = vtoken[q]
    BY <1>2, Zenon DEF Enter, TypeOK
  <2>3. \A v \in Vtokens : CountedFor(v)' = CountedFor(v)
    BY <2>1, <2>2, Zenon DEF CountedFor
  <2> QED
    BY <1>1, <2>1, <2>3, Zenon DEF CountsExact
<1>3. ASSUME UNCHANGED <<counts, counted, vtoken>> PROVE CountsExact'
  BY <1>1, <1>3, Zenon DEF CountsExact, CountedFor
<1>4. ASSUME NEW r \in Requests, Count(r) PROVE CountsExact'
  <2>0. PICK v \in Vtokens : v = vtoken[r]
    BY Zenon DEF TypeOK
  <2>1. r \notin CountedFor(v) /\ CountedFor(v) \in SUBSET Requests
    BY <1>4, <2>0, Zenon DEF Count, CountedShape, InCounts, TypeOK, CountedFor
  <2>2. vtoken' = vtoken /\ counted'[r] /\ \A q \in Requests : q # r => counted'[q] = counted[q]
    BY <1>4, Zenon DEF Count, TypeOK
  <2>3. CountedFor(v)' = CountedFor(v) \cup {r}
    BY <2>0, <2>2, Zenon DEF CountedFor
  <2>4. \A u \in Vtokens : u # v => CountedFor(u)' = CountedFor(u)
    BY <2>0, <2>2, Zenon DEF CountedFor
  <2>5. Incremented(v) = Cardinality(CountedFor(v) \cup {r})
    <3>1. CASE v \in DOMAIN counts
      BY <1>1, <2>1, <3>1, Grow, Zenon DEF Incremented, CountsExact
    <3>2. CASE v \notin DOMAIN counts
      <4>1. CountedFor(v) = {}
        BY <1>1, <2>1, <3>2, Zenon DEF CountsExact
      <4>2. Cardinality(CountedFor(v)) = 0
        BY <4>1, FS_EmptySet, Zenon
      <4> QED
        BY <2>1, <3>2, <4>2, Grow DEF Incremented
    <3> QED
      BY <3>1, <3>2, Zenon
  <2>6. counts' = [u \in DOMAIN counts \cup {v} |-> IF u = v THEN Incremented(v) ELSE counts[u]]
    BY <1>4, <2>0, Zenon DEF Count
  <2>7. DOMAIN counts' = {u \in Vtokens : CountedFor(u)' # {}}
    BY <1>1, <2>1, <2>3, <2>4, <2>6, Zenon DEF CountsExact
  <2>8. ASSUME NEW u \in DOMAIN counts' PROVE counts'[u] = Cardinality(CountedFor(u)')
    <3>1. CASE u = v
      BY <2>3, <2>5, <2>6, <3>1, Zenon
    <3>2. CASE u # v
      BY <1>1, <2>4, <2>6, <3>2, Zenon DEF CountsExact
    <3> QED
      BY <3>1, <3>2, Zenon
  <2> QED
    BY <2>7, <2>8, Zenon DEF CountsExact
<1>5. ASSUME NEW r \in Requests, Uncount(r) PROVE CountsExact'
  <2>0. PICK v \in Vtokens : v = vtoken[r]
    BY Zenon DEF TypeOK
  <2> DEFINE rest == CountedFor(v) \ {r}
  <2>1. counted[r]
    BY <1>1, <1>5, Zenon DEF Uncount, CountedShape, InCounts, TypeOK
  <2>2. vtoken' = vtoken /\ ~counted'[r] /\ \A q \in Requests : q # r => counted'[q] = counted[q]
    BY <1>5, Zenon DEF Uncount, TypeOK
  <2>3. CountedFor(v)' = rest
    BY <2>0, <2>2, Zenon DEF CountedFor
  <2>4. \A u \in Vtokens : u # v => CountedFor(u)' = CountedFor(u)
    BY <2>0, <2>2, Zenon DEF CountedFor
  <2>5. counts' = Decremented(v)
    BY <1>1, <1>5, <2>0, Zenon DEF Uncount
  <2>6. /\ DOMAIN counts' = IF rest = {} THEN DOMAIN counts \ {v} ELSE DOMAIN counts
        /\ \A u \in DOMAIN counts' :
              counts'[u] = IF u = v THEN Cardinality(rest) ELSE counts[u]
    BY <1>1, <2>0, <2>1, <2>5, DecrementedExact
  <2>7. v \in DOMAIN counts
    BY <1>1, <2>0, <2>1, Zenon DEF CountsExact, CountedFor
  <2> HIDE DEF rest
  <2>8. DOMAIN counts' = {u \in Vtokens : CountedFor(u)' # {}}
    BY <1>1, <2>1, <2>3, <2>4, <2>6, <2>7, Zenon DEF CountsExact
  <2>9. ASSUME NEW u \in DOMAIN counts' PROVE counts'[u] = Cardinality(CountedFor(u)')
    <3>1. CASE u = v
      BY <2>3, <2>6, <3>1, Zenon
    <3>2. CASE u # v
      <4>1. u \in DOMAIN counts /\ u \in Vtokens
        BY <1>1, <2>6, Zenon DEF CountsExact
      <4> QED
        BY <1>1, <2>4, <2>6, <3>2, <4>1, Zenon DEF CountsExact
    <3> QED
      BY <3>1, <3>2, Zenon
  <2> QED
    BY <2>8, <2>9, Zenon DEF CountsExact
<1> QED
  <2>1. ASSUME NEW r \in Requests, RollBack(r) \/ EnterPoisoned(r) \/ Leave(r)
        PROVE  UNCHANGED <<counts, counted, vtoken>>
    BY <2>1, Zenon DEF RollBack, EnterPoisoned, Leave
  <2>2. Poison \/ UNCHANGED vars => UNCHANGED <<counts, counted, vtoken>>
    BY Zenon DEF Poison, vars
  <2> QED
    BY <1>2, <1>3, <1>4, <1>5, <2>1, <2>2, Zenon DEF Next

\* A request passes the Hub-wide gate only when fewer than hub_cap places are
\* held, refused requests included, so the gate never lets in too many.
LEMMA AdmittedStep ==
    ASSUME TypeOK, total = Cardinality(Holding), AdmittedWithinCap, [Next]_vars
    PROVE  AdmittedWithinCap'
<1>1. Admitted \in SUBSET Holding /\ Holding \in SUBSET Requests /\ Admitted \in SUBSET Requests
  BY Zenon DEF Admitted, Holding
<1>2. Cardinality(Admitted) \in Nat /\ Cardinality(Admitted) <= total
  BY <1>1, Fewer, Zenon
<1>3. ASSUME NEW r \in Requests, Enter(r) PROVE AdmittedWithinCap'
  <2>1. CASE total >= HubCap
    <3>1. Admitted' = Admitted
      BY <1>3, <2>1, Zenon DEF Enter, Admitted, TypeOK
    <3> QED
      BY <3>1, Zenon DEF AdmittedWithinCap
  <2>2. CASE ~(total >= HubCap)
    <3>1. Admitted' = Admitted \cup {r}
      BY <1>3, <2>2, Zenon DEF Enter, Admitted, TypeOK
    <3>2. total + 1 <= HubCap
      BY <2>2, TrackerConstants DEF TypeOK
    <3>3. Cardinality(Admitted') <= Cardinality(Admitted) + 1 /\ Cardinality(Admitted') \in Nat
      BY <1>1, <3>1, Grow, Zenon
    <3> QED
      BY <1>2, <3>2, <3>3, TrackerConstants DEF AdmittedWithinCap, TypeOK
  <2> QED
    BY <2>1, <2>2, Zenon
<1>4. ASSUME Admitted' \in SUBSET Admitted PROVE AdmittedWithinCap'
  <2>1. Cardinality(Admitted') <= Cardinality(Admitted) /\ Cardinality(Admitted') \in Nat
    BY <1>1, <1>4, Fewer, Zenon
  <2> QED
    BY <1>2, <2>1, TrackerConstants DEF AdmittedWithinCap
<1>5. ASSUME NEW r \in Requests, RollBack(r) \/ EnterPoisoned(r) \/ Leave(r) \/ Uncount(r)
      PROVE  Admitted' \in SUBSET Admitted
  BY <1>5, Zenon DEF RollBack, EnterPoisoned, Leave, Uncount, Admitted, TypeOK
<1>6. ASSUME NEW r \in Requests, Count(r)
      PROVE  Admitted' \in SUBSET Admitted
  <2>1. pc[r] = "entered" /\ \A q \in Requests : q # r => pc'[q] = pc[q]
    BY <1>6, Zenon DEF Count, TypeOK
  <2> QED
    BY <2>1, Zenon DEF Admitted
<1>7. Poison \/ UNCHANGED vars => Admitted' \in SUBSET Admitted
  BY Zenon DEF Poison, vars, Admitted
<1> QED
  BY <1>3, <1>4, <1>5, <1>6, <1>7, Zenon DEF Next

\* A request is served only when counts, which includes every counted request
\* in service, is within the cap.
LEMMA VtokenStep ==
    ASSUME TrackerInv, [Next]_vars
    PROVE  VtokenCapHolds'
<1> DEFINE Served(v) == {r \in Serving : counted[r] /\ vtoken[r] = v}
<1>1. TypeOK /\ CountedShape /\ MaxPerVtoken \in Nat
  BY TrackerConstants, Zenon DEF TrackerInv
<1>2. ASSUME NEW v \in Vtokens
      PROVE  /\ Served(v) \in SUBSET Requests
             /\ Cardinality(Served(v)) \in Nat /\ Cardinality(Served(v)) <= MaxPerVtoken
  <2>1. Served(v) \in SUBSET Requests
    BY Zenon DEF Serving
  <2> QED
    BY <2>1, Fewer, Zenon DEF TrackerInv, VtokenCapHolds
<1>3. ASSUME \A v \in Vtokens : Served(v)' \in SUBSET Served(v)
      PROVE  VtokenCapHolds'
  <2>1. ASSUME NEW v \in Vtokens PROVE Cardinality(Served(v)') <= MaxPerVtoken
    <3>1. Cardinality(Served(v)') \in Nat /\ Cardinality(Served(v)') <= Cardinality(Served(v))
      <4> HIDE DEF Served
      <4> QED
        BY <1>2, <1>3, Fewer, Zenon
    <3> QED
      BY <1>1, <1>2, <3>1
  <2> QED
    BY <2>1, Zenon DEF VtokenCapHolds
<1>4. ASSUME NEW r \in Requests, Enter(r) \/ RollBack(r) \/ EnterPoisoned(r) \/ Leave(r)
                                   \/ Uncount(r)
      PROVE  \A v \in Vtokens : Served(v)' \in SUBSET Served(v)
  <2>1. /\ \A q \in Requests : q # r => /\ pc'[q] = pc[q] /\ counted'[q] = counted[q]
                                        /\ vtoken'[q] = vtoken[q]
        /\ ~(pc'[r] = "serving" /\ counted'[r])
    BY <1>1, <1>4, Zenon DEF Enter, RollBack, EnterPoisoned, Leave, Uncount, TypeOK,
       CountedShape, InCounts
  <2> QED
    BY <2>1, Zenon DEF Serving
<1>5. ASSUME NEW r \in Requests, Count(r) PROVE VtokenCapHolds'
  <2>0. PICK w \in Vtokens : w = vtoken[r]
    BY <1>1, Zenon DEF TypeOK
  <2>1. /\ vtoken' = vtoken /\ counted'[r] /\ ~poisoned /\ ~poisoned'
        /\ pc'[r] = IF Incremented(w) > MaxPerVtoken THEN "over" ELSE "serving"
        /\ counts' = [u \in DOMAIN counts \cup {w} |->
                        IF u = w THEN Incremented(w) ELSE counts[u]]
        /\ \A q \in Requests : q # r => pc'[q] = pc[q] /\ counted'[q] = counted[q]
    BY <1>1, <1>5, <2>0, Zenon DEF Count, TypeOK
  <2>2. CASE pc'[r] # "serving"
    <3>1. \A v \in Vtokens : Served(v)' \in SUBSET Served(v)
      BY <2>1, <2>2, Zenon DEF Serving
    <3> QED
      BY <1>3, <3>1, Zenon
  <2>3. CASE pc'[r] = "serving"
    <3>1. Incremented(w) <= MaxPerVtoken /\ Incremented(w) \in Nat /\ w \in Vtokens
      BY <1>1, <2>1, <2>3 DEF Incremented, TypeOK
    <3>2. CountsExact'
      BY <2>1, CountsStep, Zenon DEF TrackerInv, CountersExact, CountsExact
    <3>3. w \in DOMAIN counts' /\ counts'[w] = Incremented(w)
      BY <2>1, Zenon
    <3>4. Cardinality(CountedFor(w)') = Incremented(w)
      BY <3>2, <3>3, Zenon DEF CountsExact
    <3>5. CountedFor(w)' \in SUBSET Requests /\ Served(w)' \in SUBSET CountedFor(w)'
      BY <2>1, Zenon DEF CountedFor, Serving
    <3>6. Cardinality(Served(w)') <= MaxPerVtoken
      <4>1. Cardinality(Served(w)') <= Incremented(w) /\ Cardinality(Served(w)') \in Nat
        <5> HIDE DEF Served
        <5> QED
          BY <3>4, <3>5, Fewer, Zenon
      <4> QED
        BY <1>1, <3>1, <4>1
    <3>7. ASSUME NEW v \in Vtokens, v # w PROVE Cardinality(Served(v)') <= MaxPerVtoken
      <4>1. Served(v)' = Served(v)
        BY <2>0, <2>1, <3>7, Zenon DEF Serving
      <4> QED
        BY <1>2, <4>1, Zenon
    <3> QED
      BY <3>6, <3>7, Zenon DEF VtokenCapHolds
  <2> QED
    BY <2>2, <2>3, Zenon
<1>6. Poison \/ UNCHANGED vars => \A v \in Vtokens : Served(v)' \in SUBSET Served(v)
  BY Zenon DEF Poison, vars, Serving
<1> QED
  <2> HIDE DEF Served
  <2> QED
    BY <1>3, <1>4, <1>5, <1>6, Zenon DEF Next
-----------------------------------------------------------------------------
\* The tracker's invariant holds before the first request.
LEMMA TrackerInit == Init => TrackerInv
<1> SUFFICES ASSUME Init PROVE TrackerInv
  OBVIOUS
<1>1. Holding = {} /\ Admitted = {} /\ Serving = {} /\ \A v \in Vtokens : CountedFor(v) = {}
  BY Zenon DEF Init, Holding, Admitted, Serving, CountedFor
<1>2. Cardinality({}) = 0
  BY FS_EmptySet, Zenon
<1>3. TypeOK
  BY Zenon DEF Init, TypeOK, States
<1>4. CountersExact
  BY <1>1, <1>2, Zenon DEF Init, CountersExact
<1>5. CountedShape
  BY Zenon DEF Init, CountedShape, InCounts
<1>6. AdmittedWithinCap
  BY <1>1, <1>2, TrackerConstants DEF AdmittedWithinCap
<1>7. VtokenCapHolds
  <2>1. \A v \in Vtokens : {r \in Serving : counted[r] /\ vtoken[r] = v} = {}
    BY <1>1, Zenon
  <2> QED
    BY <1>2, <2>1, TrackerConstants DEF VtokenCapHolds
<1> QED
  BY <1>3, <1>4, <1>5, <1>6, <1>7, Zenon DEF TrackerInv

\* Every step of the tracker keeps its invariant.
LEMMA TrackerStep ==
    ASSUME TrackerInv, [Next]_vars
    PROVE  TrackerInv'
<1>1. TypeOK /\ CountedShape /\ AdmittedWithinCap /\ total = Cardinality(Holding)
      /\ (~poisoned => CountsExact)
  BY Zenon DEF TrackerInv, CountersExact, CountsExact
<1>2. TypeOK' /\ CountedShape' /\ AdmittedWithinCap' /\ VtokenCapHolds'
  BY <1>1, TypeStep, ShapeStep, AdmittedStep, VtokenStep, Zenon
<1>3. CountersExact'
  <2>1. total' = Cardinality(Holding')
    BY <1>1, TotalStep, Zenon
  <2>2. ~poisoned' => CountsExact'
    BY <1>1, CountsStep, Zenon
  <2> QED
    BY <2>1, <2>2, Zenon DEF CountersExact, CountsExact
<1> QED
  BY <1>2, <1>3, Zenon DEF TrackerInv

\* The invariant holds of the tracker in every reachable state.
THEOREM TrackerInvariance == Spec => []TrackerInv
<1>1. TrackerInv /\ [Next]_vars => TrackerInv'
  BY TrackerStep, Zenon
<1> QED
  BY <1>1, TrackerInit, PTL DEF Spec

\* Neither counter of the tracker drifts, for any number of requests.
THEOREM NoDrift == Spec => []CountersExact
<1>1. TrackerInv => CountersExact
  BY Zenon DEF TrackerInv
<1> QED
  BY <1>1, TrackerInvariance, PTL

\* Never more than hub_cap long-polls are served at once.
THEOREM HubCapped == Spec => []HubCapHolds
<1>1. TrackerInv => HubCapHolds
  <2> SUFFICES ASSUME TrackerInv PROVE HubCapHolds
    OBVIOUS
  <2>1. Serving \in SUBSET Admitted /\ Admitted \in SUBSET Requests
    BY Zenon DEF Serving, Admitted
  <2>2. Cardinality(Serving) <= Cardinality(Admitted) /\ Cardinality(Serving) \in Nat
        /\ Cardinality(Admitted) \in Nat
    BY <2>1, Fewer, Zenon
  <2> QED
    BY <2>2, TrackerConstants DEF TrackerInv, AdmittedWithinCap, HubCapHolds
<1> QED
  BY <1>1, TrackerInvariance, PTL

\* Never more than the per-vtoken cap of counted long-polls are served at once.
THEOREM VtokenCapped == Spec => []VtokenCapHolds
<1>1. TrackerInv => VtokenCapHolds
  BY Zenon DEF TrackerInv
<1> QED
  BY <1>1, TrackerInvariance, PTL

\* Both caps of the gate hold, for any number of requests, vtokens and caps.
THEOREM Capped == Spec => []CapsHold
<1>1. HubCapHolds /\ VtokenCapHolds => CapsHold
  BY Zenon DEF CapsHold
<1> QED
  BY <1>1, HubCapped, VtokenCapped, PTL
-----------------------------------------------------------------------------
(***************************************************************************)
(* The handler around the gate.                                            *)
(***************************************************************************)
Steps == {"none", "check", "answered", "seen", "online", "wait"}

PresenceTypes ==
    /\ registered \subseteq Vtokens /\ removing \subseteq Vtokens
    /\ seen \in [Vtokens -> {"none", "fresh", "stale"}]
    /\ step \in [Requests -> Steps]
    /\ already \in [Requests -> BOOLEAN]
    /\ offline \in [Requests -> BOOLEAN]

\* OnlineIsTracked and OnlineDuringPoll with what carries them from one lock to
\* the next: only a served request is inside the handler; a timestamp is
\* dropped only after its vtoken left the registry, so one that mark_online is
\* about to rely on is still there; and a request that skips mark_online has
\* read the flag set.
PresenceInv ==
    /\ PresenceTypes
    /\ \A r \in Requests : step[r] # "none" => pc[r] = "serving"
    /\ registered \cap removing = {}
    /\ OnlineIsTracked
    /\ \A r \in Requests :
          step[r] = "online" /\ vtoken[r] \in registered => seen[vtoken[r]] # "none"
    /\ \A r \in Requests : step[r] = "seen" /\ already[r] => ~offline[r]
    /\ OnlineDuringPoll

\* Every step of the handler is one of the gate or leaves the gate alone.
LEMMA AdmissionStep == [AdmissionNext]_admissionVars => [Next]_vars
  BY Zenon DEF AdmissionNext, Gate, Check, Bump, MarkOnline, FallsSilent, Collect,
         MarkOffline, Remove, ForgetSeen, admissionVars, trackerVars

\* A request that is in the handler keeps its vtoken while the gate moves.
LEMMA ServedKeepsVtoken ==
    ASSUME TypeOK, Next, NEW r \in Requests, pc[r] = "serving"
    PROVE  vtoken'[r] = vtoken[r]
<1>1. ASSUME NEW q \in Requests, Enter(q) PROVE vtoken'[r] = vtoken[r]
  BY <1>1, Zenon DEF Enter, TypeOK
<1> QED
  BY <1>1, ZenonT(40) DEF Next, RollBack, EnterPoisoned, Count, Leave, Uncount, Poison

\* The gate starts a handler, ends one, or lets it be.
LEMMA GateKeeps ==
    ASSUME TypeOK, TypeOK', PresenceInv, Gate
    PROVE  PresenceInv'
<1> USE DEF PresenceInv, PresenceTypes
<1>1. /\ Next /\ UNCHANGED <<registered, online, seen, checker, removing>>
      /\ step' = [r \in Requests |-> StepAfter(r)]
      /\ already' = [r \in Requests |-> already[r] /\ pc'[r] = "serving"]
      /\ offline' = [r \in Requests |-> offline[r] /\ pc'[r] = "serving"]
  BY Zenon DEF Gate
<1>2. ASSUME NEW r \in Requests, step'[r] \in {"seen", "online", "wait"}
      PROVE  step'[r] = step[r] /\ vtoken'[r] = vtoken[r] /\ pc'[r] = "serving"
  <2>1. step'[r] = step[r] /\ pc[r] = "serving" /\ pc'[r] = "serving"
    BY <1>1, <1>2, Zenon DEF StepAfter
  <2> QED
    BY <1>1, <2>1, ServedKeepsVtoken, Zenon
<1>3. step' \in [Requests -> Steps] /\ \A r \in Requests : step'[r] # "none" => pc'[r] = "serving"
  BY <1>1, Zenon DEF StepAfter, Steps
<1>4. already' \in [Requests -> BOOLEAN] /\ offline' \in [Requests -> BOOLEAN]
  BY <1>1, Zenon
<1>5. OnlineIsTracked'
  BY <1>1, Zenon DEF OnlineIsTracked
<1>6. OnlineDuringPoll'
  BY <1>1, <1>2, Zenon DEF OnlineDuringPoll
<1>7. \A r \in Requests :
          step'[r] = "online" /\ vtoken'[r] \in registered' => seen'[vtoken'[r]] # "none"
  BY <1>1, <1>2
<1>8. \A r \in Requests : step'[r] = "seen" /\ already'[r] => ~offline'[r]
  BY <1>1, <1>2, Zenon
<1> QED
  BY <1>1, <1>3, <1>4, <1>5, <1>6, <1>7, <1>8, Zenon

\* The handler's own steps.
LEMMA HandlerKeeps ==
    ASSUME TypeOK, PresenceInv, NEW r \in Requests, Check(r) \/ Bump(r) \/ MarkOnline(r)
    PROVE  PresenceInv'
<1> USE DEF PresenceInv, PresenceTypes, Steps, OnlineIsTracked, OnlineDuringPoll, vars, trackerVars
<1>0. vtoken[r] \in Vtokens
  BY Zenon DEF TypeOK
<1>1. CASE Check(r)
  <2>1. UNCHANGED <<vars, registered, online, seen, checker, removing>> /\ step[r] = "check"
    BY <1>1, Zenon DEF Check
  <2>2. CASE vtoken[r] \notin registered
    <3>1. step' = [step EXCEPT ![r] = "answered"] /\ UNCHANGED <<already, offline>>
      BY <1>1, <2>2, Zenon DEF Check
    <3> QED
      BY <2>1, <3>1, Zenon
  <2>3. CASE vtoken[r] \in registered
    <3> DEFINE on == vtoken[r] \in online
    <3>1. /\ already' = [already EXCEPT ![r] = on] /\ offline' = [offline EXCEPT ![r] = ~on]
          /\ step' = [step EXCEPT ![r] = "seen"]
      BY <1>1, <2>3, Zenon DEF Check
    <3>2. on \in BOOLEAN
      OBVIOUS
    <3> HIDE DEF on
    <3>3. /\ already' \in [Requests -> BOOLEAN] /\ offline' \in [Requests -> BOOLEAN]
          /\ already'[r] => ~offline'[r]
      BY <3>1, <3>2, Zenon
    <3>4. \A q \in Requests : q # r => already'[q] = already[q] /\ offline'[q] = offline[q]
      BY <3>1, Zenon
    <3> QED
      BY <2>1, <3>1, <3>3, <3>4, SMTT(40)
  <2> QED
    BY <2>2, <2>3, Zenon
<1>2. CASE Bump(r)
  BY <1>0, <1>2, Zenon DEF Bump
<1>3. CASE MarkOnline(r)
  BY <1>0, <1>3, Zenon DEF MarkOnline, Noticed
<1> QED
  BY <1>1, <1>2, <1>3, Zenon

\* The health checker and the removals.
LEMMA AroundKeeps ==
    ASSUME TypeOK, PresenceInv,
           \/ \E v \in Vtokens : FallsSilent(v) \/ Remove(v) \/ ForgetSeen(v)
           \/ Collect \/ MarkOffline
    PROVE  PresenceInv'
<1> USE DEF PresenceInv, PresenceTypes, OnlineIsTracked, OnlineDuringPoll, vars, trackerVars
<1>1. ASSUME NEW v \in Vtokens, FallsSilent(v) PROVE PresenceInv'
  BY <1>1, Zenon DEF FallsSilent
<1>2. ASSUME NEW v \in Vtokens, Remove(v) PROVE PresenceInv'
  BY <1>2, Zenon DEF Remove
<1>3. ASSUME NEW v \in Vtokens, ForgetSeen(v) PROVE PresenceInv'
  BY <1>3, Zenon DEF ForgetSeen
<1>4. CASE Collect \/ MarkOffline
  BY <1>4, Zenon DEF Collect, MarkOffline
<1> QED
  BY <1>1, <1>2, <1>3, <1>4, Zenon

\* The gate and the handler keep their invariant together, for any number of
\* requests, clients, checks and removals.
THEOREM AdmissionInvariance == AdmissionSpec => [](TrackerInv /\ PresenceInv)
<1>1. AdmissionInit => TrackerInv /\ PresenceInv
  <2> SUFFICES ASSUME AdmissionInit PROVE TrackerInv /\ PresenceInv
    OBVIOUS
  <2>1. TrackerInv
    BY TrackerInit, Zenon DEF AdmissionInit
  <2>2. PresenceInv
    BY Zenon DEF AdmissionInit, PresenceInv, PresenceTypes, Steps, OnlineIsTracked, OnlineDuringPoll
  <2> QED
    BY <2>1, <2>2, Zenon
<1>2. TrackerInv /\ PresenceInv /\ [AdmissionNext]_admissionVars => TrackerInv' /\ PresenceInv'
  <2> SUFFICES ASSUME TrackerInv, PresenceInv, [AdmissionNext]_admissionVars
               PROVE  TrackerInv' /\ PresenceInv'
    OBVIOUS
  <2>1. TrackerInv'
    BY AdmissionStep, TrackerStep, Zenon
  <2>2. TypeOK /\ TypeOK'
    BY <2>1, Zenon DEF TrackerInv
  <2>3. PresenceInv'
    <3>1. CASE Gate
      BY <2>2, <3>1, GateKeeps, Zenon
    <3>2. CASE \E r \in Requests : Check(r) \/ Bump(r) \/ MarkOnline(r)
      BY <2>2, <3>2, HandlerKeeps, Zenon
    <3>3. CASE \/ \E v \in Vtokens : FallsSilent(v) \/ Remove(v) \/ ForgetSeen(v)
               \/ Collect \/ MarkOffline
      BY <2>2, <3>3, AroundKeeps, Zenon
    <3>4. CASE UNCHANGED admissionVars
      BY <3>4, Zenon DEF admissionVars, trackerVars, presenceVars, vars, PresenceInv,
                  PresenceTypes, OnlineIsTracked, OnlineDuringPoll
    <3> QED
      BY <3>1, <3>2, <3>3, <3>4, Zenon DEF AdmissionNext
  <2> QED
    BY <2>1, <2>3, Zenon
<1> QED
  BY <1>1, <1>2, PTL DEF AdmissionSpec

\* The gate inside the handler is the gate by itself: requests, checker and
\* removals together implement the tracker.
THEOREM AdmissionIsGated == AdmissionSpec => Spec
<1>1. AdmissionInit => Init
  BY Zenon DEF AdmissionInit
<1> QED
  BY <1>1, AdmissionStep, PTL DEF AdmissionSpec, Spec

\* Both caps hold of the long-polls in the whole handler.
THEOREM AdmissionCapped == AdmissionSpec => []CapsHold
  BY AdmissionIsGated, Capped, PTL

\* Neither counter drifts, whatever the rest of the handler does.
THEOREM AdmissionNoDrift == AdmissionSpec => []CountersExact
  BY AdmissionIsGated, NoDrift, PTL

\* An online client has a timestamp the health checker will find, and no client
\* stays marked offline through a whole poll.
THEOREM PresenceFollowsPolls == AdmissionSpec => []PresenceKept
<1>1. TrackerInv /\ PresenceInv => PresenceKept
  BY Zenon DEF TrackerInv, PresenceInv, PresenceKept
<1> QED
  BY <1>1, AdmissionInvariance, PTL
-----------------------------------------------------------------------------
(***************************************************************************)
(* Pairing: the session maps, what was confirmed, and the tasks at work on *)
(* them.                                                                   *)
(***************************************************************************)

\* The session maps: a code is fresh when it is made, it moves from one map to
\* the other, and once confirmed it is never a session again.
Maps ==
    /\ Partial(sessions, Code, Session) /\ Partial(confirmed, Code, Confirmed)
    /\ codes \in 0..MaxCodes
    /\ DOMAIN sessions \subseteq 1..codes /\ DOMAIN confirmed \subseteq 1..codes
    /\ SessionsBounded

\* The confirmed codes: each has one vtoken, and there are no more of them than
\* codes that have left the sessions.
History ==
    /\ confirms \subseteq Code \X Token /\ IsFiniteSet(confirms)
    /\ \A p \in confirms : p[1] \in (1..codes) \ DOMAIN sessions
    /\ \A p, q \in confirms : p[1] = q[1] => p = q
    /\ Cardinality(confirms) + Cardinality(DOMAIN sessions) <= codes

\* The vtoken that a session still shows is that of its code.
Shown ==
    \A c \in DOMAIN confirmed :
        confirmed[c].vtoken # NoToken => <<c, confirmed[c].vtoken>> \in confirms

\* What a request has in hand at each of its steps; g: the registry.
ReqOK(q, g) ==
    /\ q \in Req
    /\ q.pc \in {"idle", "checked"} => q.token = NoToken
    /\ q.pc # "idle" => q.code \in Code /\ q.name \in Names
    /\ q.pc \in {"confirmed", "registered", "rollback"} => q.token \in Token
    /\ q.pc = "registered" => q.token \in Range(g)

Reqs == req \in [ConfirmRequests -> Req] /\ \A r \in ConfirmRequests : ReqOK(req[r], registry)

\* Where a vtoken that was confirmed may be; g: the registry, o: the orphans,
\* q: the requests.
Accounted(v, g, o, q) ==
    v \in Range(g) \cup o \/ \E r \in ConfirmRequests : q[r].token = v

Books ==
    /\ Partial(registry, Names, Token) /\ Partial(stored, Names, Token)
    /\ orphans \subseteq Token /\ faults \in 0..MaxFaults
    /\ \A p \in confirms : Accounted(p[2], registry, orphans, req)

\* The vtoken a client was told is that of its code, and the poll of a code
\* that was scanned after it looked has been notified; s: the sessions, h: the
\* codes confirmed.
CliOK(c, s, h) ==
    /\ c \in Cli
    /\ c.answer.token # NoToken =>
          c.pc \in {"replied", "paired"} /\ <<c.code, c.answer.token>> \in h
    /\ c.pc = "paired" => c.answer.token # NoToken
    /\ (c.pc \in {"checked", "waiting"} /\ c.code \in DOMAIN s
           /\ s[c.code].status # "wait")
       => c.notified

Clis == cli \in [Clients -> Cli] /\ \A k \in Clients : CliOK(cli[k], sessions, confirms)

PairingInv == Maps /\ History /\ Shown /\ Reqs /\ Books /\ Clis

-----------------------------------------------------------------------------
(* The session maps *)

\* The maps are finite.
LEMMA MapsFinite ==
    ASSUME Maps
    PROVE  /\ IsFiniteSet(DOMAIN sessions) /\ Cardinality(DOMAIN sessions) \in Nat
           /\ IsFiniteSet(DOMAIN confirmed) /\ Cardinality(DOMAIN confirmed) \in Nat
<1>1. DOMAIN sessions \in SUBSET (1..codes) /\ DOMAIN confirmed \in SUBSET (1..codes)
  BY Zenon DEF Maps
<1>2. IsFiniteSet(1..codes)
  <2>1. 1 \in Int /\ codes \in Int
    BY PairingConstants DEF Maps
  <2> QED
    BY <2>1, FS_Interval, Zenon
<1>3. IsFiniteSet(DOMAIN sessions) /\ IsFiniteSet(DOMAIN confirmed)
  BY <1>1, <1>2, FS_Subset, Zenon
<1> QED
  BY <1>3, FS_CardinalityType, Zenon

\* A step after which the maps have no other codes than before.
LEMMA MapsShrink ==
    ASSUME Maps, History, UNCHANGED <<codes, confirms>>,
           Partial(sessions', Code, Session), Partial(confirmed', Code, Confirmed),
           DOMAIN sessions' \subseteq DOMAIN sessions,
           DOMAIN confirmed' \subseteq DOMAIN confirmed
    PROVE  Maps' /\ History'
<1> PICK s, c, s1, c1 : /\ s = DOMAIN sessions /\ c = DOMAIN confirmed
                        /\ s1 = DOMAIN sessions' /\ c1 = DOMAIN confirmed'
  OBVIOUS
<1>1. /\ IsFiniteSet(s) /\ Cardinality(s) \in Nat
      /\ IsFiniteSet(c) /\ Cardinality(c) \in Nat
  BY MapsFinite, Zenon
<1>2. s1 \in SUBSET s /\ c1 \in SUBSET c
  OBVIOUS
<1>3. /\ IsFiniteSet(s1) /\ Cardinality(s1) <= Cardinality(s)
      /\ IsFiniteSet(c1) /\ Cardinality(c1) <= Cardinality(c)
  BY <1>1, <1>2, FS_Subset, Zenon
<1>4. Cardinality(s1) \in Nat /\ Cardinality(c1) \in Nat
  BY <1>3, FS_CardinalityType, Zenon
<1>5. Cardinality(s) + Cardinality(c) <= MaxSessions /\ s \cap c = {}
  BY Zenon DEF Maps, SessionsBounded
<1>6. Cardinality(s1) + Cardinality(c1) <= MaxSessions /\ s1 \cap c1 = {}
  BY <1>1, <1>2, <1>3, <1>4, <1>5, PairingConstants
<1>7. SessionsBounded'
  BY <1>6, Zenon DEF SessionsBounded
<1>8. Maps'
  BY <1>2, <1>7, Zenon DEF Maps
<1>9. Cardinality(confirms) + Cardinality(s) <= codes /\ IsFiniteSet(confirms)
  BY Zenon DEF History
<1>10. Cardinality(confirms) \in Nat
  BY <1>9, FS_CardinalityType, Zenon
<1>11. Cardinality(confirms) + Cardinality(s1) <= codes
  BY <1>1, <1>3, <1>4, <1>9, <1>10, PairingConstants DEF Maps
<1> QED
  BY <1>2, <1>8, <1>11, Zenon DEF History

\* What purge_expired leaves.
LEMMA Purged ==
    ASSUME Maps
    PROVE  /\ Partial(LiveSessions, Code, Session)
           /\ Partial(LiveConfirmed, Code, Confirmed)
           /\ DOMAIN LiveSessions \subseteq DOMAIN sessions
           /\ \A c \in DOMAIN LiveSessions : LiveSessions[c] = sessions[c]
           /\ DOMAIN LiveConfirmed \subseteq DOMAIN confirmed
           /\ \A c \in DOMAIN LiveConfirmed : LiveConfirmed[c] = confirmed[c]
<1>1. /\ Partial(sessions, Code, Session) /\ Partial(confirmed, Code, Confirmed)
  BY Zenon DEF Maps
<1>2. /\ DOMAIN LiveSessions \subseteq DOMAIN sessions
      /\ LiveSessions = [c \in DOMAIN LiveSessions |-> sessions[c]]
  BY Zenon DEF LiveSessions, Restrict
<1>3. /\ DOMAIN LiveConfirmed \subseteq DOMAIN confirmed
      /\ LiveConfirmed = [c \in DOMAIN LiveConfirmed |-> confirmed[c]]
  BY Zenon DEF LiveConfirmed, Restrict
<1>4. \A c \in DOMAIN LiveSessions : LiveSessions[c] = sessions[c]
  BY <1>2, Zenon
<1>5. \A c \in DOMAIN LiveConfirmed : LiveConfirmed[c] = confirmed[c]
  BY <1>3, Zenon
<1> HIDE DEF LiveSessions, LiveConfirmed
<1>6. Partial(LiveSessions, Code, Session)
  BY <1>1, <1>2, <1>4, Zenon DEF Partial
<1>7. Partial(LiveConfirmed, Code, Confirmed)
  BY <1>1, <1>3, <1>5, Zenon DEF Partial
<1> QED
  BY <1>2, <1>3, <1>4, <1>5, <1>6, <1>7, Zenon

\* A new session.
LEMMA CreateKeeps ==
    ASSUME Maps, History, UNCHANGED confirms, NEW code, create(code)
    PROVE  Maps' /\ History'
<1> PICK s, c, s1, c1, n : /\ s = DOMAIN sessions /\ c = DOMAIN confirmed
                           /\ s1 = DOMAIN LiveSessions /\ c1 = DOMAIN LiveConfirmed
                           /\ n = code
  OBVIOUS
<1>1. /\ IsFiniteSet(s) /\ Cardinality(s) \in Nat
      /\ IsFiniteSet(c) /\ Cardinality(c) \in Nat
  BY MapsFinite, Zenon
<1>2. /\ s1 \in SUBSET s /\ c1 \in SUBSET c
      /\ Partial(LiveSessions, Code, Session) /\ Partial(LiveConfirmed, Code, Confirmed)
  BY Purged, Zenon
<1>3. /\ IsFiniteSet(s1) /\ Cardinality(s1) <= Cardinality(s)
      /\ IsFiniteSet(c1) /\ Cardinality(c1) <= Cardinality(c)
  BY <1>1, <1>2, FS_Subset, Zenon
<1>4. Cardinality(s1) \in Nat /\ Cardinality(c1) \in Nat
  BY <1>3, FS_CardinalityType, Zenon
<1>5. /\ n = codes + 1 /\ codes < MaxCodes /\ codes' = n /\ codes \in 0..MaxCodes
      /\ s \subseteq 1..codes /\ c \subseteq 1..codes
  BY Zenon DEF create, Maps
<1>6. n \in Code /\ n \notin s /\ n \notin c /\ codes' \in 0..MaxCodes /\ 1..codes \subseteq 1..n
  BY <1>5, PairingConstants DEF Code
<1>7. /\ sessions' = Put(LiveSessions, n, [status |-> "wait", age |-> 0, scan |-> 0])
      /\ confirmed' = LiveConfirmed
      /\ ~(Cardinality(s1) + Cardinality(c1) >= MaxSessions)
  BY Zenon DEF create, Full
<1>8. DOMAIN sessions' = s1 \cup {n} /\ Partial(sessions', Code, Session)
  <2>1. [status |-> "wait", age |-> 0, scan |-> 0] \in Session
    BY PairingConstants DEF Session
  <2> HIDE DEF LiveSessions
  <2> QED
    BY <1>2, <1>6, <1>7, <2>1, Zenon DEF Put, Partial
<1>9. n \notin s1 /\ s \cap c = {}
  BY <1>2, <1>6, Zenon DEF Maps, SessionsBounded
<1>10. Cardinality(s1 \cup {n}) = Cardinality(s1) + 1
  BY <1>3, <1>9, FS_AddElement, Zenon
<1>11. SessionsBounded'
  <2>1. Cardinality(s1 \cup {n}) + Cardinality(c1) <= MaxSessions
    BY <1>4, <1>7, <1>10, PairingConstants
  <2>2. (s1 \cup {n}) \cap c1 = {}
    BY <1>2, <1>6, <1>9, Zenon
  <2> QED
    BY <1>7, <1>8, <2>1, <2>2, Zenon DEF SessionsBounded
<1>12. Maps'
  <2>1. s1 \cup {n} \subseteq 1..n /\ c1 \subseteq 1..n
    BY <1>2, <1>5, <1>6
  <2> QED
    BY <1>2, <1>5, <1>6, <1>7, <1>8, <1>11, <2>1, Zenon DEF Maps
<1>13. /\ Cardinality(confirms) + Cardinality(s) <= codes /\ IsFiniteSet(confirms)
       /\ \A p \in confirms : p[1] \in (1..codes) \ s
  BY Zenon DEF History
<1>14. Cardinality(confirms) \in Nat
  BY <1>13, FS_CardinalityType, Zenon
<1>15. Cardinality(confirms) + Cardinality(s1 \cup {n}) <= codes'
  BY <1>1, <1>3, <1>4, <1>5, <1>10, <1>13, <1>14
<1>16. \A p \in confirms : p[1] \in (1..n) \ (s1 \cup {n})
  BY <1>2, <1>5, <1>6, <1>13
<1> QED
  BY <1>5, <1>8, <1>12, <1>15, <1>16, Zenon DEF History

\* A session becomes a confirmed one, with a vtoken of its own.
LEMMA ConfirmKeeps ==
    ASSUME Maps, History, UNCHANGED codes, NEW code, NEW token, Confirmable(code),
           token = Cardinality(confirms) + 1,
           sessions' = Without(LiveSessions, code),
           confirmed' = Put(LiveConfirmed, code, [vtoken |-> token, age |-> 0]),
           confirms' = confirms \cup {<<code, token>>}
    PROVE  /\ Maps' /\ History' /\ token \in Token /\ code \in Code
           /\ \A p \in confirms : p[1] # code
<1> PICK s, c, s1, c1 : /\ s = DOMAIN sessions /\ c = DOMAIN confirmed
                        /\ s1 = DOMAIN LiveSessions /\ c1 = DOMAIN LiveConfirmed
  OBVIOUS
<1>1. /\ IsFiniteSet(s) /\ Cardinality(s) \in Nat
      /\ IsFiniteSet(c) /\ Cardinality(c) \in Nat
  BY MapsFinite, Zenon
<1>2. /\ s1 \in SUBSET s /\ c1 \in SUBSET c
      /\ Partial(LiveSessions, Code, Session) /\ Partial(LiveConfirmed, Code, Confirmed)
  BY Purged, Zenon
<1>3. /\ IsFiniteSet(s1) /\ Cardinality(s1) <= Cardinality(s)
      /\ IsFiniteSet(c1) /\ Cardinality(c1) <= Cardinality(c)
  BY <1>1, <1>2, FS_Subset, Zenon
<1>4. Cardinality(s1) \in Nat /\ Cardinality(c1) \in Nat
  BY <1>3, FS_CardinalityType, Zenon
<1>5. code \in s1 /\ code \notin c1
  BY Zenon DEF Confirmable
<1>6. /\ codes \in 0..MaxCodes /\ s \subseteq 1..codes /\ c \subseteq 1..codes
      /\ Cardinality(s) + Cardinality(c) <= MaxSessions /\ s \cap c = {}
  BY Zenon DEF Maps, SessionsBounded
<1>7. /\ Cardinality(confirms) + Cardinality(s) <= codes /\ IsFiniteSet(confirms)
      /\ \A p \in confirms : p[1] \in (1..codes) \ s
      /\ \A p, q \in confirms : p[1] = q[1] => p = q
      /\ confirms \subseteq Code \X Token
  BY Zenon DEF History
<1>8. Cardinality(confirms) \in Nat
  BY <1>7, FS_CardinalityType, Zenon
<1>9. code \in Code /\ code \in 1..codes /\ code \notin c
  BY <1>2, <1>5, <1>6, PairingConstants DEF Code
<1>10. \A p \in confirms : p[1] # code
  BY <1>2, <1>5, <1>7, Zenon
<1>11. IsFiniteSet(s1 \ {code}) /\ Cardinality(s1 \ {code}) = Cardinality(s1) - 1
  BY <1>3, <1>5, FS_RemoveElement, Zenon
<1>12. IsFiniteSet(c1 \cup {code}) /\ Cardinality(c1 \cup {code}) = Cardinality(c1) + 1
  BY <1>3, <1>5, FS_AddElement, Zenon
<1>13. Cardinality(s1) > 0
  <2>1. s1 # {}
    BY <1>5, Zenon
  <2> QED
    BY <1>3, <1>4, <2>1, FS_EmptySet
<1>14. token \in Token
  BY <1>1, <1>3, <1>4, <1>6, <1>7, <1>8, <1>13, PairingConstants DEF Token
<1>15. DOMAIN sessions' = s1 \ {code} /\ Partial(sessions', Code, Session)
  <2> HIDE DEF LiveSessions
  <2> QED
    BY <1>2, Zenon DEF Without, Restrict, Partial
<1>16. DOMAIN confirmed' = c1 \cup {code} /\ Partial(confirmed', Code, Confirmed)
  <2>1. [vtoken |-> token, age |-> 0] \in Confirmed
    BY <1>14, PairingConstants DEF Confirmed
  <2> HIDE DEF LiveConfirmed
  <2> QED
    BY <1>2, <1>9, <2>1, Zenon DEF Put, Partial
<1>17. SessionsBounded'
  <2>1. Cardinality(s1 \ {code}) + Cardinality(c1 \cup {code}) <= MaxSessions
    BY <1>1, <1>3, <1>4, <1>6, <1>11, <1>12, PairingConstants
  <2>2. (s1 \ {code}) \cap (c1 \cup {code}) = {}
    BY <1>2, <1>6, Zenon
  <2> QED
    BY <1>15, <1>16, <2>1, <2>2, Zenon DEF SessionsBounded
<1>18. Maps'
  <2>1. s1 \ {code} \subseteq 1..codes /\ c1 \cup {code} \subseteq 1..codes
    BY <1>2, <1>6, <1>9, Zenon
  <2> QED
    BY <1>6, <1>15, <1>16, <1>17, <2>1, Zenon DEF Maps
<1>19. <<code, token>> \notin confirms
  BY <1>10, Zenon
<1>20. IsFiniteSet(confirms') /\ Cardinality(confirms') = Cardinality(confirms) + 1
  BY <1>7, <1>19, FS_AddElement, Zenon
<1>21. Cardinality(confirms') + Cardinality(s1 \ {code}) <= codes
  BY <1>1, <1>3, <1>4, <1>6, <1>7, <1>8, <1>11, <1>20
<1>22. confirms' \subseteq Code \X Token
  BY <1>7, <1>9, <1>14
<1>23. \A p \in confirms' : p[1] \in (1..codes) \ (s1 \ {code})
  BY <1>2, <1>7, <1>9
<1>24. \A p, q \in confirms' : p[1] = q[1] => p = q
  BY <1>7, <1>10
<1>25. History'
  BY <1>15, <1>20, <1>21, <1>22, <1>23, <1>24, Zenon DEF History
<1> QED
  BY <1>9, <1>10, <1>14, <1>18, <1>25, Zenon
-----------------------------------------------------------------------------
(* What a stage leaves alone *)

\* No session is scanned that was not scanned before.
NoNewScan ==
    \A c \in DOMAIN sessions' : sessions'[c].status # "wait" =>
        c \in DOMAIN sessions /\ sessions[c].status # "wait"

\* purge_expired alone.
LEMMA PurgeKeeps ==
    ASSUME Maps, History, Shown, UNCHANGED <<codes, confirms>>,
           sessions' = LiveSessions, confirmed' = LiveConfirmed
    PROVE  Maps' /\ History' /\ Shown' /\ NoNewScan
<1>1. /\ Partial(sessions', Code, Session) /\ Partial(confirmed', Code, Confirmed)
      /\ DOMAIN sessions' \subseteq DOMAIN sessions
      /\ \A c \in DOMAIN sessions' : sessions'[c] = sessions[c]
      /\ DOMAIN confirmed' \subseteq DOMAIN confirmed
      /\ \A c \in DOMAIN confirmed' : confirmed'[c] = confirmed[c]
  BY Purged, Zenon
<1>2. Maps' /\ History'
  BY <1>1, MapsShrink, Zenon
<1>3. Shown'
  BY <1>1, Zenon DEF Shown
<1>4. NoNewScan
  BY <1>1, Zenon DEF NoNewScan
<1> QED
  BY <1>2, <1>3, <1>4, Zenon

\* The maps are left alone.
LEMMA MapsStay ==
    ASSUME Maps, History, Shown, UNCHANGED <<codes, confirms, sessions, confirmed>>
    PROVE  Maps' /\ History' /\ Shown' /\ NoNewScan
<1>1. Maps' /\ Shown' /\ NoNewScan
  BY Zenon DEF Maps, SessionsBounded, Shown, NoNewScan
<1>2. History'
  BY Zenon DEF History
<1> QED
  BY <1>1, <1>2, Zenon

\* A client that does nothing.
LEMMA CliKept ==
    ASSUME NEW c, NoNewScan, confirms \subseteq confirms', CliOK(c, sessions, confirms)
    PROVE  CliOK(c, sessions', confirms')
  BY Zenon DEF CliOK, NoNewScan

\* No client does anything.
LEMMA ClisKept ==
    ASSUME Clis, NoNewScan, confirms \subseteq confirms', UNCHANGED cli
    PROVE  Clis'
  BY CliKept, Zenon DEF Clis

\* One client becomes c.
LEMMA CliMoves ==
    ASSUME Clis, NEW k \in Clients, NEW c, cli' = [cli EXCEPT ![k] = c],
           CliOK(c, sessions', confirms'), NoNewScan, confirms \subseteq confirms'
    PROVE  Clis'
<1>1. cli \in [Clients -> Cli] /\ c \in Cli
  BY Zenon DEF Clis, CliOK
<1>2. /\ cli' \in [Clients -> Cli] /\ cli'[k] = c
      /\ \A j \in Clients \ {k} : cli'[j] = cli[j]
  BY <1>1, Zenon
<1>3. \A j \in Clients : CliOK(cli'[j], sessions', confirms')
  BY <1>2, CliKept, Zenon DEF Clis
<1> QED
  BY <1>2, <1>3, Zenon DEF Clis

\* No request does anything.
LEMMA ReqsKept ==
    ASSUME Reqs, UNCHANGED <<req, registry>>
    PROVE  Reqs'
  BY Zenon DEF Reqs

\* One request becomes q.
LEMMA ReqMoves ==
    ASSUME Reqs, NEW r \in ConfirmRequests, NEW q, req' = [req EXCEPT ![r] = q],
           ReqOK(q, registry'), Range(registry) \subseteq Range(registry')
    PROVE  Reqs'
<1>1. req \in [ConfirmRequests -> Req] /\ q \in Req
  BY Zenon DEF Reqs, ReqOK
<1>2. /\ req' \in [ConfirmRequests -> Req] /\ req'[r] = q
      /\ \A j \in ConfirmRequests \ {r} : req'[j] = req[j]
  BY <1>1, Zenon
<1>3. \A j \in ConfirmRequests \ {r} : ReqOK(req[j], registry')
  BY Zenon DEF Reqs, ReqOK
<1>4. \A j \in ConfirmRequests : ReqOK(req'[j], registry')
  BY <1>2, <1>3, Zenon
<1> QED
  BY <1>2, <1>4, Zenon DEF Reqs

\* Nothing happens to vtokens.
LEMMA BooksKept ==
    ASSUME Books, UNCHANGED <<registry, stored, orphans, req, confirms>>,
           faults' \in 0..MaxFaults
    PROVE  Books'
  BY Zenon DEF Books

\* One request becomes q, and its vtoken is not lost by it.
LEMMA BooksMove ==
    ASSUME Books, Reqs, History, NEW r \in ConfirmRequests, NEW q,
           req' = [req EXCEPT ![r] = q],
           Partial(registry', Names, Token), Partial(stored', Names, Token),
           orphans' \subseteq Token, faults' \in 0..MaxFaults,
           Range(registry) \subseteq Range(registry'), orphans \subseteq orphans',
           req[r].token \in Token =>
              req[r].token = q.token \/ req[r].token \in Range(registry') \cup orphans',
           \A p \in confirms' : p \in confirms \/ p[2] = q.token
    PROVE  Books'
<1>1. /\ req'[r] = q /\ \A j \in ConfirmRequests \ {r} : req'[j] = req[j]
  BY Zenon DEF Reqs
<1>2. ASSUME NEW p \in confirms'
      PROVE  Accounted(p[2], registry', orphans', req')
  <2>1. CASE p[2] = q.token
    BY <1>1, <2>1, Zenon DEF Accounted
  <2>2. CASE p \in confirms
    <3>1. Accounted(p[2], registry, orphans, req) /\ p[2] \in Token
      BY <2>2, Zenon DEF Books, History
    <3>2. CASE p[2] \in Range(registry) \cup orphans
      BY <3>2, Zenon DEF Accounted
    <3>3. ASSUME NEW j \in ConfirmRequests, req[j].token = p[2]
          PROVE  Accounted(p[2], registry', orphans', req')
      <4>1. CASE j = r
        BY <1>1, <3>1, <3>3, <4>1, Zenon DEF Accounted
      <4>2. CASE j # r
        BY <1>1, <3>3, <4>2, Zenon DEF Accounted
      <4> QED
        BY <4>1, <4>2, Zenon
    <3> QED
      BY <3>1, <3>2, <3>3, Zenon DEF Accounted
  <2> QED
    BY <2>1, <2>2, Zenon
<1> QED
  BY <1>2, Zenon DEF Books

\* The next fault, if there is one more.
LEMMA FaultCounts ==
    ASSUME Books, Fault \/ UNCHANGED faults
    PROVE  faults' \in 0..MaxFaults
  BY PairingConstants DEF Books, Fault

\* A request that waits for the phone again.
LEMMA IdleReqOK ==
    ASSUME NEW g
    PROVE  ReqOK(IdleReq, g) /\ IdleReq.token = NoToken /\ NoToken \notin Token
  BY PairingConstants DEF ReqOK, IdleReq, Req, NoToken, Token

\* The answer and the client before the first code.
LEMMA NewCliIs ==
    /\ Waiting \in Answers /\ Waiting.token = NoToken
    /\ NewCli \in Cli /\ NewCli.pc = "fetch" /\ NewCli.answer = Waiting
<1>1. Waiting \in Answers /\ Waiting.token = NoToken
  BY Zenon DEF Waiting, Answers
<1> QED
  BY <1>1, PairingConstants DEF NewCli, Cli

\* The clients that start afresh or give up.
LEMMA NewCliOK ==
    ASSUME NEW s, NEW h, NEW n \in 1..MaxQrRefresh
    PROVE  CliOK([NewCli EXCEPT !.refresh = n], s, h) /\ CliOK(GiveUp, s, h)
<1>1. PICK b \in Cli : b = NewCli /\ b.pc = "fetch" /\ b.answer.token = NoToken
  BY NewCliIs, Zenon
<1>2. CliOK([b EXCEPT !.refresh = n], s, h)
  BY <1>1, Zenon DEF CliOK, Cli
<1>3. CliOK([b EXCEPT !.pc = "failed"], s, h)
  BY <1>1, Zenon DEF CliOK, Cli
<1> QED
  BY <1>1, <1>2, <1>3, Zenon DEF GiveUp

\* Most steps leave the requests and the books alone.
LEMMA OnlyClients ==
    ASSUME PairingInv, UNCHANGED <<registry, stored, req, confirms, orphans>>,
           Fault \/ UNCHANGED faults
    PROVE  Reqs' /\ Books'
<1>1. faults' \in 0..MaxFaults
  BY FaultCounts, Zenon DEF PairingInv
<1> QED
  BY <1>1, ReqsKept, BooksKept, Zenon DEF PairingInv

\* A client takes a step of its own, away from the sessions.
LEMMA ClientSteps ==
    ASSUME PairingInv, NEW k \in Clients, NEW c, cli' = [cli EXCEPT ![k] = c],
           CliOK(c, sessions, confirms),
           UNCHANGED <<sessions, confirmed, registry, stored, req, codes, confirms,
                       orphans>>,
           Fault \/ UNCHANGED faults
    PROVE  PairingInv'
<1>1. Maps' /\ History' /\ Shown' /\ NoNewScan
  BY MapsStay, Zenon DEF PairingInv
<1>2. Reqs' /\ Books'
  BY OnlyClients, Zenon
<1>3. CliOK(c, sessions', confirms')
  BY Zenon
<1>4. Clis'
  BY <1>1, <1>3, CliMoves, Zenon DEF PairingInv
<1> QED
  BY <1>1, <1>2, <1>4, Zenon DEF PairingInv
-----------------------------------------------------------------------------
(* The client *)

\* The refresh of a client is a number that NewCliOK takes.
LEMMA OneRefresh == 1 \in 1..MaxQrRefresh
  BY PairingConstants

\* poll_until_confirmed: the next request, or the deadline.
LEMMA AskStatusKeeps ==
    ASSUME PairingInv, NEW k \in Clients, AskStatus(k)
    PROVE  PairingInv'
<1>1. cli \in [Clients -> Cli] /\ CliOK(cli[k], sessions, confirms)
  BY Zenon DEF PairingInv, Clis
<1>2. CASE cli[k].waited >= PairingDeadline
  <2>1. CliOK(GiveUp, sessions, confirms)
    BY OneRefresh, NewCliOK, Zenon
  <2> QED
    BY <1>2, <2>1, ClientSteps, Zenon DEF AskStatus
<1>3. CASE ~(cli[k].waited >= PairingDeadline)
  <2> PICK b \in Cli : b = cli[k]
    BY <1>1, Zenon
  <2> PICK c \in Cli : c = [b EXCEPT !.pc = "asked", !.notified = FALSE]
    BY Zenon DEF Cli
  <2>1. b.pc = "next" /\ cli' = [cli EXCEPT ![k] = c]
    BY <1>1, <1>3, Zenon DEF AskStatus
  <2>2. CliOK(c, sessions, confirms)
    BY <1>1, <2>1, Zenon DEF CliOK, Cli
  <2> QED
    BY <2>1, <2>2, ClientSteps, Zenon DEF AskStatus
<1> QED
  BY <1>2, <1>3, Zenon

\* get_qrcode_status: the select begins to wait.
LEMMA ParkKeeps ==
    ASSUME PairingInv, NEW k \in Clients, Park(k)
    PROVE  PairingInv'
<1>1. cli \in [Clients -> Cli] /\ CliOK(cli[k], sessions, confirms)
  BY Zenon DEF PairingInv, Clis
<1> PICK b \in Cli : b = cli[k]
  BY <1>1, Zenon
<1> PICK c \in Cli : c = [b EXCEPT !.pc = "waiting"]
  BY Zenon DEF Cli
<1>2. b.pc = "checked" /\ cli' = [cli EXCEPT ![k] = c]
  BY <1>1, Zenon DEF Park, MoveCli
<1>3. CliOK(c, sessions, confirms)
  BY <1>1, <1>2, Zenon DEF CliOK, Cli
<1> QED
  BY <1>2, <1>3, ClientSteps, Zenon DEF Park

\* get_qrcode_status: the select wakes.
LEMMA WakePollKeeps ==
    ASSUME PairingInv, NEW k \in Clients, WakePoll(k)
    PROVE  PairingInv'
<1>1. cli \in [Clients -> Cli] /\ CliOK(cli[k], sessions, confirms)
  BY Zenon DEF PairingInv, Clis
<1> PICK b \in Cli : b = cli[k]
  BY <1>1, Zenon
<1>2. b.pc = "waiting"
  BY Zenon DEF WakePoll
<1>3. CASE cli' = [cli EXCEPT ![k].pc = "asked", ![k].notified = FALSE]
  <2> PICK c \in Cli : c = [b EXCEPT !.pc = "asked", !.notified = FALSE]
    BY Zenon DEF Cli
  <2>1. cli' = [cli EXCEPT ![k] = c]
    BY <1>1, <1>3, Zenon
  <2>2. CliOK(c, sessions, confirms)
    BY <1>1, <1>2, Zenon DEF CliOK, Cli
  <2> QED
    BY <2>1, <2>2, ClientSteps, Zenon DEF WakePoll
<1>4. CASE MoveCli(k, "final")
  <2> PICK c \in Cli : c = [b EXCEPT !.pc = "final"]
    BY Zenon DEF Cli
  <2>1. cli' = [cli EXCEPT ![k] = c]
    BY <1>1, <1>4, Zenon DEF MoveCli
  <2>2. CliOK(c, sessions, confirms)
    BY <1>1, <1>2, Zenon DEF CliOK, Cli
  <2> QED
    BY <2>1, <2>2, ClientSteps, Zenon DEF WakePoll
<1> QED
  BY <1>3, <1>4, Zenon DEF WakePoll

\* The response is lost.
LEMMA LoseAnswerKeeps ==
    ASSUME PairingInv, NEW k \in Clients, LoseAnswer(k)
    PROVE  PairingInv'
<1>1. cli \in [Clients -> Cli] /\ CliOK(cli[k], sessions, confirms)
  BY Zenon DEF PairingInv, Clis
<1> PICK b \in Cli : b = cli[k]
  BY <1>1, Zenon
<1> PICK w \in Answers : w = Waiting /\ w.token = NoToken
  BY NewCliIs, Zenon
<1> PICK c \in Cli : c = [b EXCEPT !.pc = "next", !.answer = w]
  BY Zenon DEF Cli
<1>2. b.pc = "replied" /\ cli' = [cli EXCEPT ![k] = c]
  BY <1>1, Zenon DEF LoseAnswer
<1>3. CliOK(c, sessions, confirms)
  BY <1>1, <1>2, Zenon DEF CliOK, Cli
<1> QED
  BY <1>2, <1>3, ClientSteps, Zenon DEF LoseAnswer

\* poll_until_confirmed and pair_with_qr take an answer.
LEMMA ReceiveKeeps ==
    ASSUME PairingInv, NEW k \in Clients, Receive(k)
    PROVE  PairingInv'
<1>1. cli \in [Clients -> Cli] /\ CliOK(cli[k], sessions, confirms)
  BY Zenon DEF PairingInv, Clis
<1> PICK b \in Cli : b = cli[k]
  BY <1>1, Zenon
<1> PICK w \in Answers : w = Waiting /\ w.token = NoToken
  BY NewCliIs, Zenon
<1> PICK n \in Cli : n = NewCli /\ n.pc = "fetch" /\ n.answer = w
  BY NewCliIs, Zenon
<1>2. CliOK(GiveUp, sessions, confirms)
  BY OneRefresh, NewCliOK, Zenon
<1>3. ASSUME NEW m \in 1..MaxQrRefresh
      PROVE  CliOK([n EXCEPT !.refresh = m], sessions, confirms)
  BY NewCliOK, Zenon
<1> PICK stage : stage = AfterAnswer(b)
  OBVIOUS
<1> PICK c : c = CASE stage = "failed" -> GiveUp
                   [] stage = "paired" -> [n EXCEPT !.pc = "paired",
                                             !.code = b.code, !.answer = b.answer]
                   [] stage = "fetch" -> [n EXCEPT !.refresh = b.refresh + 1]
                   [] OTHER -> [b EXCEPT !.pc = stage, !.answer = w]
  BY Zenon
<1>4. b.pc = "replied" /\ cli' = [cli EXCEPT ![k] = c]
  BY Zenon DEF Receive
<1>5. /\ b.answer \in Answers /\ b.code \in Code \cup {0} /\ b.refresh \in 1..MaxQrRefresh
      /\ b.answer.token # NoToken => <<b.code, b.answer.token>> \in confirms
  BY <1>1, Zenon DEF CliOK, Cli
<1>6. \/ stage \in {"next", "failed"} \/ (stage = "paired" /\ b.answer.token # NoToken)
      \/ (stage = "fetch" /\ b.refresh # MaxQrRefresh)
  BY Zenon DEF AfterAnswer
<1>7. CliOK(c, sessions, confirms)
  <2>1. CASE stage = "failed"
    <3>1. c = GiveUp
      BY <2>1, Zenon
    <3> QED
      BY <1>2, <3>1, Zenon
  <2>2. CASE stage = "paired"
    <3>1. c = [n EXCEPT !.pc = "paired", !.code = b.code, !.answer = b.answer]
      BY <2>2, Zenon
    <3> QED
      BY <1>5, <1>6, <2>2, <3>1, Zenon DEF CliOK, Cli
  <2>3. CASE stage = "fetch"
    <3>1. c = [n EXCEPT !.refresh = b.refresh + 1]
      BY <2>3, Zenon
    <3>2. b.refresh + 1 \in 1..MaxQrRefresh
      BY <1>5, <1>6, <2>3, PairingConstants
    <3> QED
      BY <1>3, <3>1, <3>2, Zenon
  <2>4. CASE stage = "next"
    <3>1. c = [b EXCEPT !.pc = "next", !.answer = w]
      BY <2>4, Zenon
    <3> QED
      BY <3>1, Zenon DEF CliOK, Cli
  <2> QED
    BY <1>6, <2>1, <2>2, <2>3, <2>4, Zenon
<1> QED
  BY <1>4, <1>7, ClientSteps, Zenon DEF Receive

\* A new session shows no vtoken and is not scanned.
LEMMA CreateShows ==
    ASSUME Maps, Shown, UNCHANGED confirms, NEW code, create(code)
    PROVE  Shown' /\ NoNewScan
<1>1. /\ DOMAIN LiveSessions \subseteq DOMAIN sessions
      /\ \A c \in DOMAIN LiveSessions : LiveSessions[c] = sessions[c]
      /\ DOMAIN LiveConfirmed \subseteq DOMAIN confirmed
      /\ \A c \in DOMAIN LiveConfirmed : LiveConfirmed[c] = confirmed[c]
  BY Purged, Zenon
<1>2. /\ sessions' = Put(LiveSessions, code, [status |-> "wait", age |-> 0, scan |-> 0])
      /\ confirmed' = LiveConfirmed
  BY Zenon DEF create
<1>3. Shown'
  BY <1>1, <1>2, Zenon DEF Shown
<1>4. NoNewScan
  <2> HIDE DEF LiveSessions
  <2> QED
    BY <1>1, <1>2, Zenon DEF NoNewScan, Put
<1> QED
  BY <1>3, <1>4, Zenon

\* fetch_qrcode: a session is made and its code arrives.
LEMMA FetchQrKeeps ==
    ASSUME PairingInv, NEW k \in Clients, FetchQr(k)
    PROVE  PairingInv'
<1>1. cli \in [Clients -> Cli] /\ CliOK(cli[k], sessions, confirms)
  BY Zenon DEF PairingInv, Clis
<1>2. PICK code \in Code :
          /\ create(code)
          /\ cli' = [cli EXCEPT ![k].pc = "next", ![k].code = code, ![k].waited = 0]
  BY Zenon DEF FetchQr
<1>3. UNCHANGED <<registry, stored, req, confirms, orphans, faults>>
  BY Zenon DEF FetchQr
<1>4. Maps' /\ History' /\ Shown' /\ NoNewScan
  BY <1>2, <1>3, CreateKeeps, CreateShows, Zenon DEF PairingInv
<1>5. Reqs' /\ Books'
  BY <1>3, OnlyClients, Zenon
<1> PICK b \in Cli : b = cli[k]
  BY <1>1, Zenon
<1>6. code \in Code \cup {0} /\ 0 \in 0..PairingDeadline
  BY PairingConstants
<1> PICK c \in Cli : c = [b EXCEPT !.pc = "next", !.code = code, !.waited = 0]
  BY <1>6, Zenon DEF Cli
<1>7. b.pc \in {"fetch", "refetch"} /\ cli' = [cli EXCEPT ![k] = c]
  BY <1>1, <1>2, Zenon DEF FetchQr
<1>8. CliOK(c, sessions', confirms')
  BY <1>1, <1>7, Zenon DEF CliOK, Cli
<1>9. Clis'
  BY <1>3, <1>4, <1>7, <1>8, CliMoves, Zenon DEF PairingInv
<1> QED
  BY <1>4, <1>5, <1>9, Zenon DEF PairingInv

\* fetch_qrcode: the Hub has no room.
LEMMA FetchRefusedKeeps ==
    ASSUME PairingInv, NEW k \in Clients, FetchRefused(k)
    PROVE  PairingInv'
<1>1. /\ UNCHANGED <<registry, stored, req, codes, confirms, orphans, faults>>
      /\ sessions' = LiveSessions /\ confirmed' = LiveConfirmed
      /\ cli' = [cli EXCEPT ![k] = GiveUp]
  BY Zenon DEF FetchRefused
<1>2. Maps' /\ History' /\ Shown' /\ NoNewScan
  BY <1>1, PurgeKeeps, Zenon DEF PairingInv
<1>3. Reqs' /\ Books'
  BY <1>1, OnlyClients, Zenon
<1>4. CliOK(GiveUp, sessions', confirms')
  BY OneRefresh, NewCliOK, Zenon
<1>5. Clis'
  BY <1>1, <1>2, <1>4, CliMoves, Zenon DEF PairingInv
<1> QED
  BY <1>2, <1>3, <1>5, Zenon DEF PairingInv

\* fetch_qrcode: the session is made and its code is lost.
LEMMA FetchLostKeeps ==
    ASSUME PairingInv, NEW k \in Clients, FetchLost(k)
    PROVE  PairingInv'
<1>1. cli \in [Clients -> Cli] /\ CliOK(cli[k], sessions, confirms)
  BY Zenon DEF PairingInv, Clis
<1>2. PICK code \in Code : create(code)
  BY Zenon DEF FetchLost
<1>3. UNCHANGED <<registry, stored, req, confirms, orphans>> /\ Fault
  BY Zenon DEF FetchLost
<1>4. Maps' /\ History' /\ Shown' /\ NoNewScan
  BY <1>2, <1>3, CreateKeeps, CreateShows, Zenon DEF PairingInv
<1>5. Reqs' /\ Books'
  BY <1>3, OnlyClients, Zenon
<1>6. Clis'
  <2>1. CASE cli[k].pc = "fetch"
    <3> PICK b \in Cli : b = cli[k]
      BY <1>1, Zenon
    <3> PICK c \in Cli : c = [b EXCEPT !.pc = "refetch"]
      BY Zenon DEF Cli
    <3>1. cli' = [cli EXCEPT ![k] = c]
      BY <1>1, <2>1, Zenon DEF FetchLost, MoveCli
    <3>2. CliOK(c, sessions', confirms')
      BY <1>1, <2>1, Zenon DEF CliOK, Cli
    <3> QED
      BY <1>3, <1>4, <3>1, <3>2, CliMoves, Zenon DEF PairingInv
  <2>2. CASE cli[k].pc # "fetch"
    <3>1. CliOK(GiveUp, sessions', confirms')
      BY OneRefresh, NewCliOK, Zenon
    <3>2. cli' = [cli EXCEPT ![k] = GiveUp]
      BY <2>2, Zenon DEF FetchLost
    <3> QED
      BY <1>3, <1>4, <3>1, <3>2, CliMoves, Zenon DEF PairingInv
  <2> QED
    BY <2>1, <2>2, Zenon
<1> QED
  BY <1>4, <1>5, <1>6, Zenon DEF PairingInv

\* A claim may take the vtoken of a code away and leaves the rest of the maps.
LEMMA ClaimMaps ==
    ASSUME Maps, History, Shown, UNCHANGED <<codes, confirms>>, NEW code,
           claim_confirmed_vtoken(code)
    PROVE  Maps' /\ History' /\ Shown' /\ NoNewScan
<1>1. /\ Partial(LiveSessions, Code, Session) /\ Partial(LiveConfirmed, Code, Confirmed)
      /\ DOMAIN LiveSessions \subseteq DOMAIN sessions
      /\ \A c \in DOMAIN LiveSessions : LiveSessions[c] = sessions[c]
      /\ DOMAIN LiveConfirmed \subseteq DOMAIN confirmed
      /\ \A c \in DOMAIN LiveConfirmed : LiveConfirmed[c] = confirmed[c]
  BY Purged, Zenon
<1>2. sessions' = LiveSessions
  BY Zenon DEF claim_confirmed_vtoken
<1>3. CASE confirmed' = LiveConfirmed
  BY <1>2, <1>3, PurgeKeeps, Zenon
<1>4. CASE /\ code \in DOMAIN LiveConfirmed
           /\ confirmed' = [LiveConfirmed EXCEPT ![code].vtoken = NoToken]
  <2> PICK f : f = LiveConfirmed
    OBVIOUS
  <2>1. /\ Partial(f, Code, Confirmed) /\ code \in DOMAIN f
        /\ confirmed' = [f EXCEPT ![code].vtoken = NoToken]
        /\ DOMAIN f \subseteq DOMAIN confirmed
        /\ \A c \in DOMAIN f : f[c] = confirmed[c]
    BY <1>1, <1>4, Zenon
  <2>2. /\ DOMAIN confirmed' = DOMAIN f /\ confirmed'[code].vtoken = NoToken
        /\ \A c \in DOMAIN f : confirmed'[c] \in Confirmed
        /\ \A c \in DOMAIN f \ {code} : confirmed'[c] = f[c]
    BY <2>1, Zenon DEF Partial, Confirmed
  <2>3. confirmed' = [c \in DOMAIN confirmed' |-> confirmed'[c]]
    BY <2>1, Zenon
  <2>4. Partial(confirmed', Code, Confirmed)
    BY <2>1, <2>2, <2>3, Zenon DEF Partial
  <2>5. DOMAIN confirmed' \subseteq DOMAIN confirmed
    BY <2>1, <2>2, Zenon
  <2>6. Maps' /\ History'
    BY <1>1, <1>2, <2>4, <2>5, MapsShrink, Zenon
  <2>7. Shown'
    BY <2>1, <2>2, Zenon DEF Shown
  <2>8. NoNewScan
    BY <1>1, <1>2, Zenon DEF NoNewScan
  <2> QED
    BY <2>6, <2>7, <2>8, Zenon
<1> QED
  BY <1>3, <1>4, Zenon DEF claim_confirmed_vtoken

\* What a claim answers.
LEMMA ClaimAnswers ==
    ASSUME Maps, Shown, NEW code
    PROVE  /\ ClaimAnswer(code) \in Answers
           /\ ClaimAnswer(code).token # NoToken =>
                 ClaimAnswer(code).status # "wait"
                 /\ <<code, ClaimAnswer(code).token>> \in confirms
           /\ (ClaimAnswer(code).status = "wait" /\ code \in DOMAIN LiveSessions)
                 => LiveSessions[code].status = "wait"
<1>1. /\ Partial(LiveSessions, Code, Session) /\ Partial(LiveConfirmed, Code, Confirmed)
      /\ DOMAIN LiveConfirmed \subseteq DOMAIN confirmed
      /\ \A c \in DOMAIN LiveConfirmed : LiveConfirmed[c] = confirmed[c]
  BY Purged, Zenon
<1> PICK s, f : s = LiveSessions /\ f = LiveConfirmed
  OBVIOUS
<1>2. CASE code \in DOMAIN f
  <2> PICK t : t = IF f[code].age < ClaimWindow THEN f[code].vtoken ELSE NoToken
    OBVIOUS
  <2>1. ClaimAnswer(code) = [status |-> "confirmed", token |-> t]
    BY <1>2, Zenon DEF ClaimAnswer
  <2>2. t \in Token \cup {NoToken} /\ (t # NoToken => t = f[code].vtoken)
    BY <1>1, <1>2, Zenon DEF Partial, Confirmed
  <2>3. t # NoToken => <<code, t>> \in confirms
    BY <1>1, <1>2, <2>2, Zenon DEF Shown
  <2> QED
    BY <2>1, <2>2, <2>3 DEF Answers
<1>3. CASE code \notin DOMAIN f
  <2> PICK t : t = IF code \in DOMAIN s THEN s[code].status ELSE "expired"
    OBVIOUS
  <2>1. ClaimAnswer(code) = [status |-> t, token |-> NoToken]
    BY <1>3, Zenon DEF ClaimAnswer
  <2>2. t \in {"wait", "scanned", "confirmed", "expired"}
    BY <1>1, Zenon DEF Partial, Session
  <2> QED
    BY <2>1, <2>2 DEF Answers
<1> QED
  BY <1>2, <1>3, Zenon

\* get_qrcode_status: one turn of the loop.
LEMMA ClaimKeeps ==
    ASSUME PairingInv, NEW k \in Clients, Claim(k)
    PROVE  PairingInv'
<1>1. cli \in [Clients -> Cli] /\ CliOK(cli[k], sessions, confirms)
  BY Zenon DEF PairingInv, Clis
<1>2. /\ UNCHANGED <<registry, stored, req, codes, confirms, orphans, faults>>
      /\ claim_confirmed_vtoken(cli[k].code)
  BY Zenon DEF Claim
<1>3. Maps' /\ History' /\ Shown' /\ NoNewScan
  BY <1>2, ClaimMaps, Zenon DEF PairingInv
<1>4. Reqs' /\ Books'
  BY <1>2, OnlyClients, Zenon
<1> PICK b \in Cli : b = cli[k]
  BY <1>1, Zenon
<1> PICK a : a = ClaimAnswer(b.code)
  OBVIOUS
<1>5. /\ a \in Answers
      /\ a.token # NoToken => a.status # "wait" /\ <<b.code, a.token>> \in confirms
      /\ (a.status = "wait" /\ b.code \in DOMAIN LiveSessions)
            => LiveSessions[b.code].status = "wait"
  BY ClaimAnswers, Zenon DEF PairingInv
<1> PICK w \in Answers : w = Waiting /\ w.token = NoToken
  BY NewCliIs, Zenon
<1>6. sessions' = LiveSessions
  BY <1>2, Zenon DEF claim_confirmed_vtoken
<1>7. b.code \in DOMAIN sessions' /\ a.status = "wait" => sessions'[b.code].status = "wait"
  BY <1>5, <1>6, Zenon
<1>8. CASE a.status # "wait" \/ b.pc = "final"
  <2> PICK c \in Cli : c = [b EXCEPT !.pc = "replied", !.answer = a, !.notified = FALSE]
    BY <1>5, Zenon DEF Cli
  <2>1. cli' = [cli EXCEPT ![k] = c]
    BY <1>1, <1>8, Zenon DEF Claim
  <2>2. CliOK(c, sessions', confirms')
    BY <1>2, <1>5 DEF CliOK, Cli
  <2>3. Clis'
    BY <1>2, <1>3, <2>1, <2>2, CliMoves, Zenon DEF PairingInv
  <2> QED
    BY <1>3, <1>4, <2>3, Zenon DEF PairingInv
<1>9. CASE ~(a.status # "wait" \/ b.pc = "final")
  <2> PICK c \in Cli : c = [b EXCEPT !.pc = "checked", !.answer = w]
    BY Zenon DEF Cli
  <2>1. cli' = [cli EXCEPT ![k] = c]
    BY <1>1, <1>9, Zenon DEF Claim, Cli
  <2>2. CliOK(c, sessions', confirms')
    BY <1>7, <1>9, Zenon DEF CliOK, Cli
  <2>3. Clis'
    BY <1>2, <1>3, <2>1, <2>2, CliMoves, Zenon DEF PairingInv
  <2> QED
    BY <1>3, <1>4, <2>3, Zenon DEF PairingInv
<1> QED
  BY <1>8, <1>9, Zenon
-----------------------------------------------------------------------------
(* The endpoints *)

\* After notify_waiters no poll can miss a scan, whatever the sessions are now.
LEMMA Notifies ==
    ASSUME Clis, notify_waiters, confirms \subseteq confirms'
    PROVE  Clis'
<1>1. cli \in [Clients -> Cli] /\ \A k \in Clients : CliOK(cli[k], sessions, confirms)
  BY Zenon DEF Clis
<1>2. ASSUME NEW k \in Clients
      PROVE  CliOK(cli'[k], sessions', confirms')
  <2> PICK b \in Cli : b = cli[k]
    BY <1>1, Zenon
  <2>1. CliOK(b, sessions, confirms)
    BY <1>1, Zenon
  <2>2. CASE b.pc \in {"asked", "checked", "waiting", "final"}
    <3>1. cli'[k] = [b EXCEPT !.notified = TRUE]
      BY <2>2, Zenon DEF notify_waiters, NotifiedClis
    <3> QED
      BY <2>1, <2>2, <3>1, Zenon DEF CliOK, Cli
  <2>3. CASE b.pc \notin {"asked", "checked", "waiting", "final"}
    <3>1. cli'[k] = b
      BY <2>3, Zenon DEF notify_waiters, NotifiedClis
    <3> QED
      BY <2>1, <2>3, <3>1, Zenon DEF CliOK
  <2> QED
    BY <2>2, <2>3, Zenon
<1>3. cli' = [k \in Clients |-> cli'[k]]
  BY Zenon DEF notify_waiters, NotifiedClis
<1>4. cli' \in [Clients -> Cli]
  BY <1>2, <1>3, Zenon DEF CliOK
<1> QED
  BY <1>2, <1>4, Zenon DEF Clis

\* mark_scanned leaves the maps sound.
LEMMA ScanMaps ==
    ASSUME Maps, History, Shown, UNCHANGED <<codes, confirms>>, NEW code,
           mark_scanned(code)
    PROVE  Maps' /\ History' /\ Shown'
<1>1. /\ Partial(LiveSessions, Code, Session) /\ Partial(LiveConfirmed, Code, Confirmed)
      /\ DOMAIN LiveSessions \subseteq DOMAIN sessions
      /\ DOMAIN LiveConfirmed \subseteq DOMAIN confirmed
      /\ \A c \in DOMAIN LiveConfirmed : LiveConfirmed[c] = confirmed[c]
  BY Purged, Zenon
<1>2. confirmed' = LiveConfirmed
  BY Zenon DEF mark_scanned
<1>3. Shown'
  BY <1>1, <1>2, Zenon DEF Shown
<1> PICK f : f = LiveSessions
  OBVIOUS
<1>4. CASE sessions' = f
  BY <1>1, <1>2, <1>3, <1>4, PurgeKeeps, Zenon
<1>5. CASE /\ code \in DOMAIN f
           /\ sessions' = [f EXCEPT ![code].status = "scanned", ![code].scan = 0]
  <2>1. DOMAIN sessions' = DOMAIN f
    BY <1>5, Zenon
  <2> PICK x \in Session : x = f[code]
    BY <1>1, <1>5, Zenon DEF Partial
  <2>2. 0 \in 0..(ScannedTtl + 1)
    BY PairingConstants
  <2> PICK y \in Session : y = [x EXCEPT !.status = "scanned", !.scan = 0]
    BY <2>2, Zenon DEF Session
  <2>3. sessions' = [f EXCEPT ![code] = y]
    BY <1>5, Zenon
  <2>4. f \in [DOMAIN f -> Session] /\ DOMAIN f \subseteq Code
    BY <1>1, Zenon DEF Partial
  <2>5. Partial(sessions', Code, Session)
    BY <1>5, <2>3, <2>4 DEF Partial
  <2>6. Maps' /\ History'
    BY <1>1, <1>2, <2>1, <2>5, MapsShrink, Zenon
  <2> QED
    BY <1>3, <2>6, Zenon
<1> QED
  BY <1>4, <1>5, Zenon DEF mark_scanned

\* pair_page: the phone opens the page.
LEMMA PairPageKeeps ==
    ASSUME PairingInv, NEW code, pair_page(code)
    PROVE  PairingInv'
<1>1. /\ UNCHANGED <<registry, stored, req, codes, confirms, orphans, faults>>
      /\ mark_scanned(code) /\ notify_waiters
  BY Zenon DEF pair_page
<1>2. Maps' /\ History' /\ Shown'
  BY <1>1, ScanMaps, Zenon DEF PairingInv
<1>3. Reqs' /\ Books'
  BY <1>1, OnlyClients, Zenon
<1>4. Clis'
  BY <1>1, Notifies, Zenon DEF PairingInv
<1> QED
  BY <1>2, <1>3, <1>4, Zenon DEF PairingInv

\* pair_confirm up to pre_check_confirm.
LEMMA PreCheckKeeps ==
    ASSUME PairingInv, NEW r \in ConfirmRequests, NEW code \in Code, NEW name \in Names,
           PreCheck(r, code, name)
    PROVE  PairingInv'
<1>1. /\ UNCHANGED <<registry, stored, cli, codes, confirms, orphans, faults>>
      /\ sessions' = LiveSessions /\ confirmed' = LiveConfirmed
      /\ req[r].pc = "idle"
  BY Zenon DEF PreCheck
<1>2. Maps' /\ History' /\ Shown' /\ NoNewScan
  BY <1>1, PurgeKeeps, Zenon DEF PairingInv
<1>3. Clis'
  BY <1>1, <1>2, ClisKept, Zenon DEF PairingInv
<1>4. CASE UNCHANGED req
  <2>1. Reqs' /\ Books'
    BY <1>1, <1>4, OnlyClients, Zenon
  <2> QED
    BY <1>2, <1>3, <2>1, Zenon DEF PairingInv
<1>5. CASE req' = [req EXCEPT ![r] = [IdleReq EXCEPT !.pc = "checked",
                                         !.code = code, !.name = name]]
  <2>1. PICK i \in Req : i = IdleReq /\ i.token = NoToken
    BY IdleReqOK, Zenon DEF ReqOK
  <2>2. PICK q : q = [i EXCEPT !.pc = "checked", !.code = code, !.name = name]
    OBVIOUS
  <2>3. q \in Req
    BY <2>1, <2>2, Zenon DEF Req
  <2>4. q.pc = "checked" /\ q.code = code /\ q.name = name /\ q.token = NoToken
    BY <2>1, <2>2, Zenon DEF Req
  <2>5. ReqOK(q, registry') /\ req' = [req EXCEPT ![r] = q]
    BY <1>5, <2>1, <2>2, <2>3, <2>4, Zenon DEF ReqOK
  <2>6. Range(registry) \subseteq Range(registry') /\ orphans \subseteq orphans'
    BY <1>1, Zenon
  <2>7. Reqs'
    BY <2>5, <2>6, ReqMoves, Zenon DEF PairingInv
  <2>8. req[r].token = q.token
    BY <1>1, <2>4, Zenon DEF PairingInv, Reqs, ReqOK
  <2>9. faults' \in 0..MaxFaults
    BY <1>1, FaultCounts, Zenon DEF PairingInv
  <2>10. /\ Partial(registry', Names, Token) /\ Partial(stored', Names, Token)
        /\ orphans' \subseteq Token /\ \A p \in confirms' : p \in confirms
    BY <1>1, Zenon DEF PairingInv, Books
  <2>11. Books'
    BY <2>5, <2>6, <2>8, <2>9, <2>10, BooksMove, Zenon DEF PairingInv
  <2> QED
    BY <1>2, <1>3, <2>7, <2>11, Zenon DEF PairingInv
<1> QED
  BY <1>4, <1>5, Zenon DEF PreCheck

\* A request ends, and its vtoken is in the registry or an orphan.
LEMMA ReqEnds ==
    ASSUME Books, Reqs, History, NEW r \in ConfirmRequests, req' = [req EXCEPT ![r] = IdleReq],
           UNCHANGED <<registry, confirms>>, Partial(stored', Names, Token),
           orphans \subseteq orphans', orphans' \subseteq Token, faults' \in 0..MaxFaults,
           req[r].token \in Token => req[r].token \in Range(registry) \cup orphans'
    PROVE  Reqs' /\ Books'
<1>1. ReqOK(IdleReq, registry')
  BY IdleReqOK, Zenon
<1>2. Range(registry) \subseteq Range(registry')
  BY Zenon
<1>3. Reqs'
  BY <1>1, <1>2, ReqMoves, Zenon
<1>4. /\ Partial(registry', Names, Token) /\ \A p \in confirms' : p \in confirms
      /\ req[r].token \in Token => req[r].token \in Range(registry') \cup orphans'
  BY Zenon DEF Books
<1>5. Books'
  BY <1>2, <1>4, BooksMove, Zenon
<1> QED
  BY <1>3, <1>5, Zenon

\* A code leaves the sessions with nothing gained.
LEMMA DropMaps ==
    ASSUME Maps, History, Shown, UNCHANGED <<codes, confirms>>, NEW code,
           sessions' = Without(LiveSessions, code), confirmed' = LiveConfirmed
    PROVE  Maps' /\ History' /\ Shown' /\ NoNewScan
<1>1. /\ Partial(LiveSessions, Code, Session) /\ Partial(LiveConfirmed, Code, Confirmed)
      /\ DOMAIN LiveSessions \subseteq DOMAIN sessions
      /\ \A c \in DOMAIN LiveSessions : LiveSessions[c] = sessions[c]
      /\ DOMAIN LiveConfirmed \subseteq DOMAIN confirmed
      /\ \A c \in DOMAIN LiveConfirmed : LiveConfirmed[c] = confirmed[c]
  BY Purged, Zenon
<1> PICK f : f = LiveSessions
  OBVIOUS
<1>2. sessions' = [c \in DOMAIN f \ {code} |-> f[c]]
  BY Zenon DEF Without, Restrict
<1>3. Partial(sessions', Code, Session)
  BY <1>1, <1>2, Zenon DEF Partial
<1>4. DOMAIN sessions' = DOMAIN f \ {code} /\ \A c \in DOMAIN sessions' : sessions'[c] = f[c]
  BY <1>2, Zenon
<1>5. Maps' /\ History'
  <2>1. DOMAIN sessions' \subseteq DOMAIN sessions
    BY <1>1, <1>4, Zenon
  <2> QED
    BY <1>1, <1>3, <2>1, MapsShrink, Zenon
<1>6. Shown'
  BY <1>1, Zenon DEF Shown
<1>7. NoNewScan
  BY <1>1, <1>4, Zenon DEF NoNewScan
<1> QED
  BY <1>5, <1>6, <1>7, Zenon

\* The code that is confirmed shows its own vtoken.
LEMMA ConfirmShows ==
    ASSUME Maps, Shown, NEW code, NEW token,
           sessions' = Without(LiveSessions, code),
           confirmed' = Put(LiveConfirmed, code, [vtoken |-> token, age |-> 0]),
           confirms' = confirms \cup {<<code, token>>}
    PROVE  Shown' /\ NoNewScan
<1>1. /\ DOMAIN LiveSessions \subseteq DOMAIN sessions
      /\ \A c \in DOMAIN LiveSessions : LiveSessions[c] = sessions[c]
      /\ DOMAIN LiveConfirmed \subseteq DOMAIN confirmed
      /\ \A c \in DOMAIN LiveConfirmed : LiveConfirmed[c] = confirmed[c]
  BY Purged, Zenon
<1> PICK f, g : f = LiveSessions /\ g = LiveConfirmed
  OBVIOUS
<1>2. sessions' = [c \in DOMAIN f \ {code} |-> f[c]]
  BY Zenon DEF Without, Restrict
<1>3. NoNewScan
  BY <1>1, <1>2, Zenon DEF NoNewScan
<1>4. confirmed' = Put(g, code, [vtoken |-> token, age |-> 0])
  BY Zenon
<1>5. /\ DOMAIN confirmed' = DOMAIN g \cup {code} /\ confirmed'[code].vtoken = token
      /\ \A c \in DOMAIN g \ {code} : confirmed'[c] = g[c]
  BY <1>4 DEF Put
<1>6. ASSUME NEW c \in DOMAIN confirmed', confirmed'[c].vtoken # NoToken
      PROVE  <<c, confirmed'[c].vtoken>> \in confirms'
  <2>1. CASE c = code
    BY <1>5, <2>1, Zenon
  <2>2. CASE c # code
    <3>1. c \in DOMAIN g /\ confirmed'[c] = g[c]
      BY <1>5, <2>2, Zenon
    <3>2. <<c, confirmed'[c].vtoken>> \in confirms
      BY <1>1, <1>6, <3>1, Zenon DEF Shown
    <3> QED
      BY <3>2, Zenon
  <2> QED
    BY <2>1, <2>2, Zenon
<1> QED
  BY <1>3, <1>6, Zenon DEF Shown

\* pair_confirm: confirm under the pairing lock.
LEMMA ConfirmsKeeps ==
    ASSUME PairingInv, NEW r \in ConfirmRequests, Confirm(r)
    PROVE  PairingInv'
<1>1. req \in [ConfirmRequests -> Req] /\ ReqOK(req[r], registry)
  BY Zenon DEF PairingInv, Reqs
<1>2. /\ UNCHANGED <<registry, stored, cli, codes, orphans, faults>>
      /\ req[r].pc = "checked"
  BY Zenon DEF Confirm
<1>3. /\ Range(registry) \subseteq Range(registry') /\ orphans \subseteq orphans'
      /\ Partial(registry', Names, Token) /\ Partial(stored', Names, Token)
      /\ orphans' \subseteq Token /\ faults' \in 0..MaxFaults
  BY <1>2, Zenon DEF PairingInv, Books
<1>4. req[r].token = NoToken /\ NoToken \notin Token
  BY <1>1, <1>2, IdleReqOK, Zenon DEF ReqOK
<1> PICK code, token : code = req[r].code /\ token = Cardinality(confirms) + 1
  OBVIOUS
<1>5. CASE Confirmable(code)
  <2>1. /\ sessions' = Without(LiveSessions, code)
        /\ confirmed' = Put(LiveConfirmed, code, [vtoken |-> token, age |-> 0])
        /\ confirms' = confirms \cup {<<code, token>>}
        /\ req' = [req EXCEPT ![r].pc = "confirmed", ![r].token = token]
    BY <1>5, Zenon DEF Confirm
  <2>2. Maps' /\ History' /\ token \in Token
    BY <1>2, <1>5, <2>1, ConfirmKeeps, Zenon DEF PairingInv
  <2>3. Shown' /\ NoNewScan
    BY <2>1, ConfirmShows, Zenon DEF PairingInv
  <2>4. confirms \subseteq confirms' /\ \A p \in confirms' : p \in confirms \/ p[2] = token
    BY <2>1
  <2>5. Clis'
    BY <1>2, <2>3, <2>4, ClisKept, Zenon DEF PairingInv
  <2> PICK b \in Req : b = req[r]
    BY <1>1, Zenon
  <2>6. PICK q : q = [b EXCEPT !.pc = "confirmed", !.token = token]
    OBVIOUS
  <2>7. q \in Req
    BY <2>2, <2>6, Zenon DEF Req
  <2>8. q.pc = "confirmed" /\ q.code = b.code /\ q.name = b.name /\ q.token = token
    BY <2>6, Zenon DEF Req
  <2>9. req' = [req EXCEPT ![r] = q]
    BY <1>1, <2>1, <2>6, Zenon
  <2>10. ReqOK(q, registry')
    BY <1>1, <1>2, <2>2, <2>7, <2>8, Zenon DEF ReqOK
  <2>11. Reqs'
    BY <1>3, <2>9, <2>10, ReqMoves, Zenon DEF PairingInv
  <2>12. Books'
    BY <1>3, <1>4, <2>4, <2>8, <2>9, BooksMove, Zenon DEF PairingInv
  <2> QED
    BY <2>2, <2>3, <2>5, <2>11, <2>12, Zenon DEF PairingInv
<1>6. CASE ~Confirmable(code)
  <2>1. /\ \/ sessions' = LiveSessions \/ sessions' = Without(LiveSessions, code)
        /\ confirmed' = LiveConfirmed /\ UNCHANGED confirms
        /\ req' = [req EXCEPT ![r] = IdleReq]
    BY <1>6, Zenon DEF Confirm
  <2>2. Maps' /\ History' /\ Shown' /\ NoNewScan
    BY <1>2, <2>1, PurgeKeeps, DropMaps, Zenon DEF PairingInv
  <2>3. Clis'
    BY <1>2, <2>1, <2>2, ClisKept, Zenon DEF PairingInv
  <2>4. Reqs' /\ Books'
    BY <1>2, <1>3, <1>4, <2>1, ReqEnds, Zenon DEF PairingInv
  <2> QED
    BY <2>2, <2>3, <2>4, Zenon DEF PairingInv
<1> QED
  BY <1>5, <1>6, Zenon

\* A request changes its step only.
LEMMA ReqSteps ==
    ASSUME req \in [ConfirmRequests -> Req], NEW r \in ConfirmRequests,
           NEW stage \in {"registered", "rollback"}, req' = [req EXCEPT ![r].pc = stage]
    PROVE  \E q \in Req : /\ req' = [req EXCEPT ![r] = q] /\ q.pc = stage
                          /\ q.code = req[r].code /\ q.name = req[r].name
                          /\ q.token = req[r].token
<1> PICK b \in Req : b = req[r]
  OBVIOUS
<1>1. PICK q : q = [b EXCEPT !.pc = stage]
  OBVIOUS
<1>2. q \in Req
  BY <1>1, Zenon DEF Req
<1>3. q.pc = stage /\ q.code = b.code /\ q.name = b.name /\ q.token = b.token
  BY <1>1, Zenon DEF Req
<1>4. req' = [req EXCEPT ![r] = q]
  BY <1>1, Zenon
<1> QED
  BY <1>2, <1>3, <1>4, Zenon

\* A name is registered.
LEMMA Registers ==
    ASSUME Partial(registry, Names, Token), NEW name \in Names, NEW token \in Token,
           name \notin DOMAIN registry, registry' = Put(registry, name, token)
    PROVE  /\ Partial(registry', Names, Token) /\ token \in Range(registry')
           /\ Range(registry) \subseteq Range(registry')
<1>1. /\ DOMAIN registry' = DOMAIN registry \cup {name} /\ registry'[name] = token
      /\ \A x \in DOMAIN registry : registry'[x] = registry[x]
  BY Zenon DEF Put
<1>2. Partial(registry', Names, Token)
  BY Zenon DEF Partial, Put
<1> QED
  BY <1>1, <1>2, Zenon DEF Range

\* register_confirmed_client_in_hub.
LEMMA RegisterKeeps ==
    ASSUME PairingInv, NEW r \in ConfirmRequests, Register(r)
    PROVE  PairingInv'
<1>1. req \in [ConfirmRequests -> Req] /\ ReqOK(req[r], registry)
  BY Zenon DEF PairingInv, Reqs
<1>2. /\ UNCHANGED <<sessions, confirmed, stored, cli, codes, confirms, orphans, faults>>
      /\ req[r].pc = "confirmed"
  BY Zenon DEF Register
<1>3. Maps' /\ History' /\ Shown' /\ NoNewScan
  BY <1>2, MapsStay, Zenon DEF PairingInv
<1>4. Clis'
  BY <1>2, <1>3, ClisKept, Zenon DEF PairingInv
<1>5. /\ Partial(registry, Names, Token) /\ Partial(stored', Names, Token)
      /\ orphans \subseteq orphans' /\ orphans' \subseteq Token
      /\ faults' \in 0..MaxFaults /\ \A p \in confirms' : p \in confirms
  BY <1>2, Zenon DEF PairingInv, Books
<1>6. req[r].code \in Code /\ req[r].name \in Names /\ req[r].token \in Token
  BY <1>1, <1>2, Zenon DEF ReqOK
<1>7. ASSUME NEW stage \in {"registered", "rollback"}, req' = [req EXCEPT ![r].pc = stage],
             Partial(registry', Names, Token),
             Range(registry) \subseteq Range(registry'),
             stage = "registered" => req[r].token \in Range(registry')
      PROVE  PairingInv'
  <2>1. PICK q \in Req : /\ req' = [req EXCEPT ![r] = q] /\ q.pc = stage
                         /\ q.code = req[r].code /\ q.name = req[r].name
                         /\ q.token = req[r].token
    BY <1>1, <1>7, ReqSteps, Zenon
  <2>2. ReqOK(q, registry')
    BY <1>6, <1>7, <2>1, Zenon DEF ReqOK
  <2>3. Reqs'
    BY <1>7, <2>1, <2>2, ReqMoves, Zenon DEF PairingInv
  <2>4. Books'
    BY <1>5, <1>7, <2>1, BooksMove, Zenon DEF PairingInv
  <2> QED
    BY <1>3, <1>4, <2>3, <2>4, Zenon DEF PairingInv
<1>8. CASE req[r].name \in DOMAIN registry
  <2>1. req' = [req EXCEPT ![r].pc = "rollback"] /\ UNCHANGED registry
    BY <1>8, Zenon DEF Register
  <2>2. Partial(registry', Names, Token) /\ Range(registry) \subseteq Range(registry')
    BY <1>5, <2>1, Zenon
  <2> QED
    BY <1>7, <2>1, <2>2, Zenon
<1>9. CASE req[r].name \notin DOMAIN registry
  <2>1. /\ req' = [req EXCEPT ![r].pc = "registered"]
        /\ registry' = Put(registry, req[r].name, req[r].token)
    BY <1>9, Zenon DEF Register
  <2>2. /\ Partial(registry', Names, Token) /\ Range(registry) \subseteq Range(registry')
        /\ req[r].token \in Range(registry')
    BY <1>5, <1>6, <1>9, <2>1, Registers, Zenon
  <2> QED
    BY <1>7, <2>1, <2>2, Zenon
<1> QED
  BY <1>8, <1>9, Zenon

\* upsert_client, and the end of a successful pair_confirm.
LEMMA UpsertKeeps ==
    ASSUME PairingInv, NEW r \in ConfirmRequests, Upsert(r)
    PROVE  PairingInv'
<1>1. ReqOK(req[r], registry) /\ req[r].pc = "registered"
  BY Zenon DEF PairingInv, Reqs, Upsert
<1>2. /\ UNCHANGED <<sessions, confirmed, registry, codes, confirms, orphans>>
      /\ req' = [req EXCEPT ![r] = IdleReq] /\ notify_waiters
      /\ Fault \/ UNCHANGED faults
  BY Zenon DEF Upsert
<1>3. Maps' /\ History' /\ Shown'
  BY <1>2, MapsStay, Zenon DEF PairingInv
<1>4. Clis'
  BY <1>2, Notifies, Zenon DEF PairingInv
<1>5. faults' \in 0..MaxFaults
  BY <1>2, FaultCounts, Zenon DEF PairingInv
<1>6. req[r].name \in Names /\ req[r].token \in Token /\ req[r].token \in Range(registry)
  BY <1>1, Zenon DEF ReqOK
<1>7. Partial(stored', Names, Token)
  <2>1. Partial(stored, Names, Token)
    BY Zenon DEF PairingInv, Books
  <2>2. CASE UNCHANGED stored
    BY <2>1, <2>2, Zenon
  <2>3. CASE stored' = Put(stored, req[r].name, req[r].token)
    BY <1>6, <2>1, <2>3, Zenon DEF Partial, Put
  <2> QED
    BY <2>2, <2>3, Zenon DEF Upsert
<1>8. orphans \subseteq orphans' /\ orphans' \subseteq Token
  BY <1>2, Zenon DEF PairingInv, Books
<1>9. Reqs' /\ Books'
  BY <1>2, <1>5, <1>6, <1>7, <1>8, ReqEnds, Zenon DEF PairingInv
<1> QED
  BY <1>3, <1>4, <1>9, Zenon DEF PairingInv

\* pair_confirm after NameCollision.
LEMMA RollBackKeeps ==
    ASSUME PairingInv, NEW r \in ConfirmRequests, RollBackConfirm(r)
    PROVE  PairingInv'
<1>1. ReqOK(req[r], registry) /\ req[r].pc = "rollback"
  BY Zenon DEF PairingInv, Reqs, RollBackConfirm
<1>2. /\ UNCHANGED <<sessions, registry, stored, cli, codes, confirms, faults>>
      /\ req' = [req EXCEPT ![r] = IdleReq]
      /\ orphans' = orphans \cup {req[r].token}
      /\ confirmed' = Without(confirmed, req[r].code)
  BY Zenon DEF RollBackConfirm
<1>3. req[r].token \in Token
  BY <1>1, Zenon DEF ReqOK
<1>4. /\ Partial(sessions, Code, Session) /\ Partial(confirmed, Code, Confirmed)
  BY Zenon DEF PairingInv, Maps
<1>5. confirmed' = [c \in DOMAIN confirmed \ {req[r].code} |-> confirmed[c]]
  BY <1>2, Zenon DEF Without, Restrict
<1>6. Partial(confirmed', Code, Confirmed)
  BY <1>4, <1>5, Zenon DEF Partial
<1>7. /\ DOMAIN confirmed' \subseteq DOMAIN confirmed
      /\ \A c \in DOMAIN confirmed' : confirmed'[c] = confirmed[c]
  BY <1>5, Zenon
<1>8. Partial(sessions', Code, Session) /\ DOMAIN sessions' \subseteq DOMAIN sessions
  BY <1>2, <1>4, Zenon
<1>9. Maps' /\ History'
  BY <1>2, <1>6, <1>7, <1>8, MapsShrink, Zenon DEF PairingInv
<1>10. Shown' /\ NoNewScan
  BY <1>2, <1>7, Zenon DEF Shown, NoNewScan, PairingInv
<1>11. Clis'
  BY <1>2, <1>10, ClisKept, Zenon DEF PairingInv
<1>12. /\ Partial(stored', Names, Token) /\ faults' \in 0..MaxFaults
       /\ orphans \subseteq Token
  BY <1>2, Zenon DEF PairingInv, Books
<1>13. /\ orphans \subseteq orphans' /\ orphans' \subseteq Token /\ req[r].token \in orphans'
  BY <1>2, <1>3, <1>12, Zenon
<1>14. Reqs' /\ Books'
  BY <1>2, <1>12, <1>13, ReqEnds, Zenon DEF PairingInv
<1> QED
  BY <1>9, <1>10, <1>11, <1>14, Zenon DEF PairingInv

\* The phone's connection closes.
LEMMA RequestDroppedKeeps ==
    ASSUME PairingInv, NEW r \in ConfirmRequests, RequestDropped(r)
    PROVE  PairingInv'
<1>1. ReqOK(req[r], registry) /\ req[r].pc # "idle"
  BY Zenon DEF PairingInv, Reqs, RequestDropped
<1>2. /\ UNCHANGED <<sessions, confirmed, registry, stored, cli, codes, confirms>>
      /\ req' = [req EXCEPT ![r] = IdleReq] /\ Fault
      /\ orphans' = IF req[r].pc \in {"confirmed", "rollback"}
                    THEN orphans \cup {req[r].token} ELSE orphans
  BY Zenon DEF RequestDropped
<1>3. Maps' /\ History' /\ Shown' /\ NoNewScan
  BY <1>2, MapsStay, Zenon DEF PairingInv
<1>4. Clis'
  BY <1>2, <1>3, ClisKept, Zenon DEF PairingInv
<1>5. faults' \in 0..MaxFaults
  BY <1>2, FaultCounts, Zenon DEF PairingInv
<1>6. Partial(stored', Names, Token) /\ orphans \subseteq Token
  BY <1>2, Zenon DEF PairingInv, Books
<1>7. /\ orphans \subseteq orphans' /\ orphans' \subseteq Token
      /\ req[r].token \in Token => req[r].token \in Range(registry) \cup orphans'
  <2>1. CASE req[r].pc \in {"confirmed", "rollback"}
    BY <1>1, <1>2, <1>6, <2>1, Zenon DEF ReqOK
  <2>2. CASE req[r].pc = "checked"
    <3>1. req[r].token \notin Token
      BY <1>1, <2>2, IdleReqOK, Zenon DEF ReqOK
    <3> QED
      BY <1>2, <1>6, <2>2, <3>1, Zenon
  <2>3. CASE req[r].pc = "registered"
    BY <1>1, <1>2, <1>6, <2>3, Zenon DEF ReqOK
  <2>4. req[r].pc \in {"idle", "checked", "confirmed", "registered", "rollback"}
    BY <1>1, Zenon DEF ReqOK, Req
  <2> QED
    BY <1>1, <2>1, <2>2, <2>3, <2>4, Zenon
<1>8. Reqs' /\ Books'
  BY <1>2, <1>5, <1>6, <1>7, ReqEnds, Zenon DEF PairingInv
<1> QED
  BY <1>3, <1>4, <1>8, Zenon DEF PairingInv

\* The Hub restarts.
LEMMA RestartKeeps ==
    ASSUME PairingInv, Restart
    PROVE  PairingInv'
<1>1. /\ UNCHANGED <<stored, codes, confirms>> /\ Fault
      /\ sessions' = Empty /\ confirmed' = Empty /\ registry' = stored
      /\ req' = [r \in ConfirmRequests |-> IdleReq]
  BY Zenon DEF Restart
<1>2. /\ Partial(sessions', Code, Session) /\ Partial(confirmed', Code, Confirmed)
      /\ DOMAIN sessions' = {} /\ DOMAIN confirmed' = {}
  BY <1>1, Zenon DEF Partial, Empty
<1>3. Maps' /\ History'
  <2>1. DOMAIN sessions' \subseteq DOMAIN sessions /\ DOMAIN confirmed' \subseteq DOMAIN confirmed
    BY <1>2, Zenon
  <2> QED
    BY <1>1, <1>2, <2>1, MapsShrink, Zenon DEF PairingInv
<1>4. Shown' /\ NoNewScan
  BY <1>2, Zenon DEF Shown, NoNewScan
<1>5. Reqs'
  <2>1. ReqOK(IdleReq, registry') /\ IdleReq \in Req
    BY IdleReqOK, Zenon DEF ReqOK
  <2>2. req' \in [ConfirmRequests -> Req] /\ \A r \in ConfirmRequests : req'[r] = IdleReq
    BY <1>1, <2>1, Zenon
  <2> QED
    BY <2>1, <2>2, Zenon DEF Reqs
<1>6. Books'
  <2>1. faults' \in 0..MaxFaults
    BY <1>1, FaultCounts, Zenon DEF PairingInv
  <2>2. /\ Partial(registry, Names, Token) /\ Partial(stored, Names, Token)
        /\ orphans \subseteq Token
        /\ \A p \in confirms : Accounted(p[2], registry, orphans, req)
    BY Zenon DEF PairingInv, Books
  <2>3. /\ \A v \in Range(registry) : v \in Token
        /\ \A r \in ConfirmRequests : req[r].token \in Token \cup {NoToken}
    <3>1. \A v \in Range(registry) : v \in Token
      BY <2>2, Zenon DEF Partial, Range
    <3>2. \A r \in ConfirmRequests : req[r].token \in Token \cup {NoToken}
      BY Zenon DEF PairingInv, Reqs, Req
    <3> QED
      BY <3>1, <3>2, Zenon
  <2>4. /\ orphans' \subseteq Token /\ orphans \subseteq orphans'
        /\ \A v \in Range(registry) : v \in Range(stored) \cup orphans'
        /\ \A r \in ConfirmRequests : req[r].token \in Token
              => req[r].token \in Range(stored) \cup orphans'
    <3> PICK A, B, C : /\ A = Range(registry) /\ B = Range(stored)
                       /\ C = {req[r].token : r \in ConfirmRequests}
      BY Zenon
    <3>1. orphans' = orphans \cup (A \ B) \cup (C \ (B \cup {NoToken}))
      BY Zenon DEF Restart
    <3>2. NoToken \notin Token
      BY IdleReqOK, Zenon
    <3>3. /\ A \subseteq Token /\ C \subseteq Token \cup {NoToken}
          /\ \A r \in ConfirmRequests : req[r].token \in C
      BY <2>3, Zenon
    <3> QED
      BY <2>2, <3>1, <3>2, <3>3, Zenon
  <2>5. ASSUME NEW p \in confirms
        PROVE  Accounted(p[2], stored, orphans', req')
    <3>1. p[2] \in Token /\ Accounted(p[2], registry, orphans, req)
      BY <2>2, Zenon DEF PairingInv, History
    <3> QED
      BY <2>4, <3>1, Zenon DEF Accounted
  <2> QED
    BY <1>1, <2>1, <2>2, <2>4, <2>5, Zenon DEF Books
<1>7. Clis'
  <2> PICK w \in Answers : w = Waiting /\ w.token = NoToken
    BY NewCliIs, Zenon
  <2>1. /\ cli \in [Clients -> Cli]
        /\ cli' = [k \in Clients |->
              IF cli[k].pc \in {"asked", "checked", "waiting", "final", "replied"}
              THEN [cli[k] EXCEPT !.pc = "next", !.answer = w, !.notified = FALSE]
              ELSE cli[k]]
    BY Zenon DEF PairingInv, Clis, Restart
  <2>2. ASSUME NEW k \in Clients
        PROVE  CliOK(cli'[k], sessions', confirms')
    <3> PICK b \in Cli : b = cli[k]
      BY <2>1, Zenon
    <3>1. CliOK(b, sessions, confirms)
      BY Zenon DEF PairingInv, Clis
    <3>2. CASE b.pc \in {"asked", "checked", "waiting", "final", "replied"}
      <4>1. cli'[k] = [b EXCEPT !.pc = "next", !.answer = w, !.notified = FALSE]
        BY <2>1, <3>2, Zenon
      <4> QED
        BY <4>1, Zenon DEF CliOK, Cli
    <3>3. CASE b.pc \notin {"asked", "checked", "waiting", "final", "replied"}
      <4>1. cli'[k] = b
        BY <2>1, <3>3, Zenon
      <4> QED
        BY <1>1, <1>2, <3>1, <4>1, Zenon DEF CliOK
    <3> QED
      BY <3>2, <3>3, Zenon
  <2>3. cli' = [k \in Clients |-> cli'[k]]
    BY <2>1, Zenon
  <2>4. cli' \in [Clients -> Cli]
    BY <2>2, <2>3, Zenon DEF CliOK
  <2> QED
    BY <2>2, <2>4, Zenon DEF Clis
<1> QED
  BY <1>3, <1>4, <1>5, <1>6, <1>7, Zenon DEF PairingInv

\* An age stays within its limit.
LEMMA OlderInRange ==
    ASSUME NEW limit \in Nat, NEW age \in 0..limit
    PROVE  Older(age, limit) \in 0..limit
  BY DEF Older

\* Time passes.
LEMMA TickKeeps ==
    ASSUME PairingInv, Tick
    PROVE  PairingInv'
<1>1. UNCHANGED <<registry, stored, req, codes, confirms, orphans, faults>>
  BY Zenon DEF Tick
<1>2. /\ Partial(sessions, Code, Session) /\ Partial(confirmed, Code, Confirmed)
      /\ PairingTtl + 1 \in Nat /\ ScannedTtl + 1 \in Nat
      /\ ConfirmedTtl \in Nat /\ PairingDeadline \in Nat
  BY PairingConstants DEF PairingInv, Maps
<1>3. ASSUME NEW c \in DOMAIN sessions
      PROVE  sessions'[c] \in Session /\ sessions'[c].status = sessions[c].status
  <2> PICK b \in Session : b = sessions[c]
    BY <1>2, Zenon DEF Partial
  <2>1. PICK x, y : /\ x = Older(b.age, PairingTtl + 1)
                    /\ y = IF b.status = "scanned" THEN Older(b.scan, ScannedTtl + 1)
                           ELSE b.scan
    OBVIOUS
  <2>2. x \in 0..(PairingTtl + 1) /\ y \in 0..(ScannedTtl + 1)
    BY <1>2, <2>1, OlderInRange, Zenon DEF Session
  <2>3. sessions'[c] = [b EXCEPT !.age = x, !.scan = y]
    BY <2>1, Zenon DEF Tick, Session
  <2> QED
    BY <2>2, <2>3, Zenon DEF Session
<1>4. sessions' = [c \in DOMAIN sessions |-> sessions'[c]]
  BY Zenon DEF Tick
<1>5. DOMAIN sessions' = DOMAIN sessions /\ Partial(sessions', Code, Session)
  BY <1>2, <1>3, <1>4, Zenon DEF Partial
<1>6. ASSUME NEW c \in DOMAIN confirmed
      PROVE  confirmed'[c] \in Confirmed /\ confirmed'[c].vtoken = confirmed[c].vtoken
  <2> PICK b \in Confirmed : b = confirmed[c]
    BY <1>2, Zenon DEF Partial
  <2>1. PICK x : x = Older(b.age, ConfirmedTtl)
    OBVIOUS
  <2>2. x \in 0..ConfirmedTtl
    BY <1>2, <2>1, OlderInRange, Zenon DEF Confirmed
  <2>3. confirmed'[c] = [b EXCEPT !.age = x]
    BY <2>1, Zenon DEF Tick, Confirmed
  <2> QED
    BY <2>2, <2>3, Zenon DEF Confirmed
<1>7. confirmed' = [c \in DOMAIN confirmed |-> confirmed'[c]]
  BY Zenon DEF Tick
<1>8. DOMAIN confirmed' = DOMAIN confirmed /\ Partial(confirmed', Code, Confirmed)
  BY <1>2, <1>6, <1>7, Zenon DEF Partial
<1>9. Maps' /\ History'
  <2>1. DOMAIN sessions' \subseteq DOMAIN sessions /\ DOMAIN confirmed' \subseteq DOMAIN confirmed
    BY <1>5, <1>8, Zenon
  <2> QED
    BY <1>1, <1>5, <1>8, <2>1, MapsShrink, Zenon DEF PairingInv
<1>10. Shown'
  BY <1>1, <1>6, <1>8, Zenon DEF PairingInv, Shown
<1>11. NoNewScan
  BY <1>3, <1>5, Zenon DEF NoNewScan
<1>12. Reqs' /\ Books'
  BY <1>1, OnlyClients, Zenon
<1>13. Clis'
  <2>1. cli \in [Clients -> Cli]
    BY Zenon DEF PairingInv, Clis
  <2>2. ASSUME NEW k \in Clients
        PROVE  CliOK(cli'[k], sessions', confirms')
    <3> PICK b \in Cli : b = cli[k]
      BY <2>1, Zenon
    <3>1. CliOK(b, sessions', confirms')
      BY <1>1, <1>11, CliKept, Zenon DEF PairingInv, Clis
    <3>2. PICK x : x = Older(b.waited, PairingDeadline)
      OBVIOUS
    <3>3. x \in 0..PairingDeadline
      BY <1>2, <3>2, OlderInRange, Zenon DEF Cli
    <3>4. cli'[k] = b \/ cli'[k] = [b EXCEPT !.waited = x]
      BY <3>2, Zenon DEF Tick, Cli
    <3>5. CliOK([b EXCEPT !.waited = x], sessions', confirms')
      BY <3>1, <3>3, Zenon DEF CliOK, Cli
    <3> QED
      BY <3>1, <3>4, <3>5, Zenon
  <2>3. cli' = [k \in Clients |-> cli'[k]]
    BY Zenon DEF Tick
  <2>4. cli' \in [Clients -> Cli]
    BY <2>2, <2>3, Zenon DEF CliOK
  <2> QED
    BY <2>2, <2>4, Zenon DEF Clis
<1> QED
  BY <1>9, <1>10, <1>12, <1>13, Zenon DEF PairingInv
-----------------------------------------------------------------------------
(* The invariant *)

\* The Hub starts with no session and every client with no code.
LEMMA PairingStarts ==
    ASSUME PairingInit
    PROVE  PairingInv
<1>1. /\ DOMAIN sessions = {} /\ DOMAIN confirmed = {}
      /\ DOMAIN registry = {} /\ DOMAIN stored = {}
      /\ Partial(sessions, Code, Session) /\ Partial(confirmed, Code, Confirmed)
      /\ Partial(registry, Names, Token) /\ Partial(stored, Names, Token)
  BY Zenon DEF PairingInit, Empty, Partial
<1>2. /\ codes = 0 /\ confirms = {} /\ orphans = {} /\ faults = 0
      /\ Cardinality({}) = 0 /\ IsFiniteSet({})
  BY FS_EmptySet, Zenon DEF PairingInit
<1>3. 0 \in 0..MaxCodes /\ 0 \in 0..MaxFaults /\ 0 + 0 <= MaxSessions /\ 0 + 0 <= 0
  BY PairingConstants
<1>4. Maps /\ Shown
  BY <1>1, <1>2, <1>3, Zenon DEF Maps, SessionsBounded, Shown
<1>5. History
  BY <1>1, <1>2, <1>3, Zenon DEF History
<1>6. Reqs
  <2>1. ReqOK(IdleReq, registry) /\ IdleReq \in Req
    BY IdleReqOK, Zenon DEF ReqOK
  <2> QED
    BY <2>1, Zenon DEF PairingInit, Reqs
<1>7. Books
  BY <1>1, <1>2, <1>3, Zenon DEF Books
<1>8. Clis
  <2>1. PICK b \in Cli : b = NewCli /\ b.pc = "fetch" /\ b.answer.token = NoToken
    BY NewCliIs, Zenon
  <2>2. CliOK(b, sessions, confirms)
    BY <2>1, Zenon DEF CliOK
  <2> QED
    BY <2>1, <2>2, Zenon DEF PairingInit, Clis
<1> QED
  BY <1>4, <1>5, <1>6, <1>7, <1>8, Zenon DEF PairingInv

\* PairingInv holds in every state of a pairing, whatever races, expires, is
\* lost or restarts (PairingRegistry, pair_confirm, get_qrcode_status,
\* pair_with_qr).
THEOREM PairingInvariance == PairingSpec => []PairingInv
<1>1. PairingInit => PairingInv
  BY PairingStarts, Zenon
<1>2. PairingInv /\ [PairingNext]_pairingVars => PairingInv'
  <2> SUFFICES ASSUME PairingInv, [PairingNext]_pairingVars
               PROVE  PairingInv'
    OBVIOUS
  <2>1. CASE UNCHANGED pairingVars
    <3>1. UNCHANGED <<sessions, confirmed, registry, stored, cli, req, codes,
                      confirms, orphans, faults>>
      BY <2>1, Zenon DEF pairingVars
    <3>2. Maps' /\ History' /\ Shown' /\ NoNewScan
      BY <3>1, MapsStay, Zenon DEF PairingInv
    <3>3. Reqs' /\ Books'
      BY <3>1, OnlyClients, Zenon
    <3>4. Clis'
      BY <3>1, <3>2, ClisKept, Zenon DEF PairingInv
    <3> QED
      BY <3>2, <3>3, <3>4, Zenon DEF PairingInv
  <2>2. ASSUME NEW k \in Clients, CliStep(k) \/ FetchLost(k) \/ LoseAnswer(k)
        PROVE  PairingInv'
    BY <2>2, FetchQrKeeps, FetchRefusedKeeps, AskStatusKeeps, ClaimKeeps, ParkKeeps,
       WakePollKeeps, ReceiveKeeps, FetchLostKeeps, LoseAnswerKeeps, Zenon DEF CliStep
  <2>3. ASSUME NEW code \in Code, pair_page(code)
        PROVE  PairingInv'
    BY <2>3, PairPageKeeps, Zenon
  <2>4. ASSUME NEW r \in ConfirmRequests, NEW code \in Code, NEW name \in Names,
               PreCheck(r, code, name)
        PROVE  PairingInv'
    BY <2>4, PreCheckKeeps, Zenon
  <2>5. ASSUME NEW r \in ConfirmRequests,
               Confirm(r) \/ Register(r) \/ Upsert(r) \/ RollBackConfirm(r) \/ RequestDropped(r)
        PROVE  PairingInv'
    BY <2>5, ConfirmsKeeps, RegisterKeeps, UpsertKeeps, RollBackKeeps,
       RequestDroppedKeeps, Zenon
  <2>6. CASE Restart
    BY <2>6, RestartKeeps, Zenon
  <2>7. CASE Tick
    BY <2>7, TickKeeps, Zenon
  <2> QED
    BY <2>1, <2>2, <2>3, <2>4, <2>5, <2>6, <2>7, Zenon DEF PairingNext
<1> QED
  BY <1>1, <1>2, PTL DEF PairingSpec

\* The maps are well formed and within their cap, one request wins each code,
\* and a client is paired with the vtoken of its own code, which is registered,
\* on its way there, or given up (create, confirm, pair_confirm).
THEOREM PairingIsSound == PairingSpec => []PairingSound
<1>1. PairingInv => PairingSound
  <2> SUFFICES ASSUME PairingInv
               PROVE  PairingSound
    OBVIOUS
  <2>1. PairingTypeOK /\ SessionsBounded
    BY Zenon DEF PairingInv, Maps, History, Reqs, Books, Clis, PairingTypeOK
  <2>2. ASSUME NEW k \in Clients, cli[k].pc = "paired"
        PROVE  /\ <<cli[k].code, cli[k].answer.token>> \in confirms
               /\ cli[k].answer.token # NoToken
    BY <2>2, Zenon DEF PairingInv, Clis, CliOK
  <2>3. PairedWithOwnCode
    <3> SUFFICES ASSUME NEW k \in Clients, cli[k].pc = "paired"
                 PROVE  {p \in confirms : p[1] = cli[k].code}
                           = {<<cli[k].code, cli[k].answer.token>>}
      BY Zenon DEF PairedWithOwnCode
    <3> PICK x, y : x = cli[k].code /\ y = cli[k].answer.token
      OBVIOUS
    <3>1. /\ <<x, y>> \in confirms
          /\ \A p, q \in confirms : p[1] = q[1] => p = q
      BY <2>2, Zenon DEF PairingInv, History
    <3> QED
      BY <3>1
  <2>4. PairedAccountedFor
    <3> SUFFICES ASSUME NEW k \in Clients, cli[k].pc = "paired"
                 PROVE  Accounted(cli[k].answer.token, registry, orphans, req)
      BY Zenon DEF PairedAccountedFor, Accounted
    <3> PICK x, y : x = cli[k].code /\ y = cli[k].answer.token
      OBVIOUS
    <3>1. PICK p \in confirms : p = <<x, y>>
      BY <2>2, Zenon
    <3>2. p[2] = y
      BY <3>1, Zenon
    <3> QED
      BY <3>2, Zenon DEF PairingInv, Books
  <2> QED
    BY <2>1, <2>3, <2>4, Zenon DEF PairingSound
<1> QED
  BY <1>1, PairingInvariance, PTL

\* No status poll sleeps through the scan of its code: the Notified it makes
\* before it looks at the session has been notified (get_qrcode_status,
\* notify_waiters).
THEOREM NoScanIsLost == PairingSpec => []NoLostScan
<1>1. PairingInv => NoLostScan
  BY Zenon DEF PairingInv, Clis, CliOK, NoLostScan
<1> QED
  BY <1>1, PairingInvariance, PTL
=============================================================================
