------------------------- MODULE BackpressureProofs -------------------------
(***************************************************************************)
(* Proofs about the semaphore of a QStash route, for any number of         *)
(* requests, any cap and any number of faults.                             *)
(*                                                                         *)
(* LeakGuard and the accounting of the counter are inductive together with *)
(* TypeOK and the fact that a missing key counts nothing; the cap follows  *)
(* from the accounting at each claim.                                      *)
(***************************************************************************)
EXTENDS Backpressure, TLAPS, FiniteSetTheorems

IInv == LeakGuard /\ CapExplained /\ (key = "missing" => count = 0)

\* What adding and removing a request does to the number of those counted.
LEMMA CountedFacts ==
  ASSUME TypeOK, NEW r \in Requests
  PROVE  /\ Cardinality(counted) \in Nat
         /\ Cardinality(counted \cup {r}) =
              IF r \in counted THEN Cardinality(counted) ELSE Cardinality(counted) + 1
         /\ Cardinality(counted \ {r}) =
              IF r \in counted THEN Cardinality(counted) - 1 ELSE Cardinality(counted)
<1>1. IsFiniteSet(counted)
  BY BackpressureAssumption, FS_Subset DEF TypeOK
<1> QED
  BY <1>1, FS_CardinalityType, FS_AddElement, FS_RemoveElement

\* The number of counted requests at work does not grow when the set does not.
LEMMA WorkShrinks ==
  ASSUME NEW S, NEW T, S \subseteq T, T \subseteq Requests
  PROVE  /\ Cardinality(S) \in Nat /\ Cardinality(T) \in Nat
         /\ Cardinality(S) <= Cardinality(T)
<1>1. IsFiniteSet(T) /\ IsFiniteSet(S)
  BY BackpressureAssumption, FS_Subset
<1> QED
  BY <1>1, FS_CardinalityType, FS_Subset

LEMMA BackpressureInit == Init => TypeOK /\ IInv
<1> SUFFICES ASSUME Init PROVE TypeOK /\ IInv
  OBVIOUS
<1>1. TypeOK
  BY DEF Init, TypeOK
<1>2. Running \cap counted = {} /\ counted = {}
  BY DEF Init, Running
<1>3. CapExplained
  BY <1>2, FS_EmptySet, BackpressureAssumption DEF Init, CapExplained, CountAccounts
<1> QED
  BY <1>1, <1>3 DEF Init, IInv, LeakGuard

\* The steps that touch the key keep the leak guard.
LEMMA KeyNext ==
  ASSUME TypeOK, LeakGuard, key = "missing" => count = 0, [Next]_vars
  PROVE  LeakGuard' /\ (key' = "missing" => count' = 0)
<1> USE DEF TypeOK, LeakGuard
<1>1. CASE Incr
  BY <1>1 DEF Incr, Armed
<1>2. CASE Decr
  BY <1>2 DEF Decr
<1>3. CASE UNCHANGED redis
  BY <1>3 DEF redis
<1>4. CASE Expire
  BY <1>4 DEF Expire
<1>5. ASSUME NEW r \in Requests, Claim(r) \/ ClaimFails(r) PROVE Incr \/ UNCHANGED redis
  BY <1>5 DEF Claim, ClaimFails, redis
<1>6. ASSUME NEW r \in Requests, Release(r) \/ ReleaseFails(r) PROVE Decr \/ UNCHANGED redis
  BY <1>6 DEF Release, ReleaseFails, TakenOut, LeftIn, redis
<1>7. ASSUME NEW r \in Requests, Leave(r) \/ Crash(r) PROVE UNCHANGED redis
  BY <1>7 DEF Leave, Crash, LeftIn, redis
<1>8. CASE UNCHANGED vars
  BY <1>8, <1>3 DEF vars
<1> QED
  BY <1>1, <1>2, <1>3, <1>4, <1>5, <1>6, <1>7, <1>8 DEF Next

LEMMA TypeNext ==
  ASSUME TypeOK, [Next]_vars
  PROVE  TypeOK'
<1> USE BackpressureAssumption DEF TypeOK, redis, history, Goto, Fault
<1>1. ASSUME NEW r \in Requests, Claim(r) PROVE TypeOK'
  BY <1>1 DEF Claim, Incr, Armed
<1>2. ASSUME NEW r \in Requests, ClaimFails(r) PROVE TypeOK'
  BY <1>2 DEF ClaimFails, Incr, Armed
<1>3. ASSUME NEW r \in Requests, Release(r) PROVE TypeOK'
  BY <1>3 DEF Release, TakenOut, Decr
<1>4. ASSUME NEW r \in Requests, ReleaseFails(r) PROVE TypeOK'
  BY <1>4 DEF ReleaseFails, TakenOut, LeftIn, Decr
<1>5. ASSUME NEW r \in Requests, Leave(r) PROVE TypeOK'
  BY <1>5 DEF Leave
<1>6. ASSUME NEW r \in Requests, Crash(r) PROVE TypeOK'
  BY <1>6 DEF Crash, LeftIn
<1>7. CASE Expire
  BY <1>7 DEF Expire
<1>8. CASE UNCHANGED vars
  BY <1>8 DEF vars
<1> QED
  BY <1>1, <1>2, <1>3, <1>4, <1>5, <1>6, <1>7, <1>8 DEF Next

\* Where no request at work becomes counted, the cap stays explained.
LEMMA CapShrinks ==
  ASSUME TypeOK, TypeOK', CapExplained, undue' >= undue,
         (Running \cap counted)' \subseteq Running \cap counted
  PROVE  Cardinality((Running \cap counted)') <= MaxConcurrent + undue'
<1>1. Running \cap counted \subseteq Requests
  BY DEF Running
<1>2. Cardinality((Running \cap counted)') <= Cardinality(Running \cap counted)
  BY <1>1, WorkShrinks
<1>3. /\ Cardinality((Running \cap counted)') \in Nat
      /\ Cardinality(Running \cap counted) \in Nat
  BY <1>1, WorkShrinks
<1> QED
  BY <1>2, <1>3, BackpressureAssumption DEF CapExplained, TypeOK

LEMMA CapNext ==
  ASSUME TypeOK, TypeOK', CapExplained, [Next]_vars
  PROVE  CapExplained'
<1>a. /\ count \in Int /\ orphans \in Nat /\ undue \in Nat /\ undue' \in Nat
      /\ DOMAIN at = Requests
      /\ \A r \in counted : r \in Requests /\ at[r] \in {"inside", "over"}
      /\ count = Cardinality(counted) + orphans - undue
      /\ MaxConcurrent \in Nat
  BY BackpressureAssumption DEF TypeOK, CapExplained, CountAccounts
<1>1. ASSUME NEW r \in Requests, Claim(r) PROVE CapExplained'
  <2>1. /\ at[r] = "waiting" /\ r \notin counted
        /\ count' = count + 1 /\ counted' = counted \cup {r}
        /\ UNCHANGED <<orphans, undue>>
    BY <1>1, <1>a DEF Claim, Incr
  <2>2. /\ Cardinality(counted) \in Nat
        /\ Cardinality(counted') = Cardinality(counted) + 1
    BY <2>1, CountedFacts
  <2>3. CountAccounts'
    BY <1>a, <2>1, <2>2 DEF CountAccounts
  <2>4. CASE Admitted(count + 1)
    <3>1. /\ Cardinality((Running \cap counted)') <= Cardinality(counted')
          /\ Cardinality((Running \cap counted)') \in Nat
      BY WorkShrinks DEF TypeOK
    <3>2. Cardinality(counted') <= MaxConcurrent + undue
      BY <1>a, <2>1, <2>2, <2>4 DEF Admitted
    <3>3. Cardinality((Running \cap counted)') <= MaxConcurrent + undue'
      BY <1>a, <2>1, <2>2, <3>1, <3>2
    <3> QED
      BY <2>3, <3>3 DEF CapExplained
  <2>5. CASE ~Admitted(count + 1)
    <3>1. at' = [at EXCEPT ![r] = "over"]
      BY <1>1, <2>5 DEF Claim, Goto
    <3>2. (Running \cap counted)' \subseteq Running \cap counted
      BY <1>a, <2>1, <3>1 DEF Running
    <3> QED
      BY <1>a, <2>1, <2>3, <3>2, CapShrinks DEF CapExplained
  <2> QED
    BY <2>4, <2>5
<1>2. ASSUME NEW r \in Requests, ClaimFails(r) PROVE CapExplained'
  <2>1. /\ at[r] = "waiting" /\ at' = [at EXCEPT ![r] = "open"]
        /\ UNCHANGED <<counted, undue>>
    BY <1>2 DEF ClaimFails, Goto
  <2>2. CountAccounts'
    <3>1. Cardinality(counted) \in Nat
      BY CountedFacts
    <3>2. CASE Incr /\ orphans' = orphans + 1
      BY <1>a, <2>1, <3>1, <3>2 DEF CountAccounts, Incr
    <3>3. CASE UNCHANGED <<redis, orphans>>
      BY <1>a, <2>1, <3>3 DEF CountAccounts, redis
    <3> QED
      BY <1>2, <3>2, <3>3 DEF ClaimFails
  <2>3. (Running \cap counted)' \subseteq Running \cap counted
    BY <1>a, <2>1 DEF Running
  <2> QED
    BY <1>a, <2>1, <2>2, <2>3, CapShrinks DEF CapExplained
<1>3. ASSUME NEW r \in Requests, Goto(r, "waiting"), TakenOut(r) \/ LeftIn(r)
      PROVE  CapExplained'
  <2>1. /\ Cardinality(counted) \in Nat
        /\ Cardinality(counted \ {r}) =
             IF r \in counted THEN Cardinality(counted) - 1 ELSE Cardinality(counted)
    BY CountedFacts
  <2>2. CountAccounts' /\ undue' >= undue /\ counted' = counted \ {r}
    <3>1. CASE TakenOut(r)
      BY <1>a, <2>1, <3>1 DEF TakenOut, Decr, CountAccounts
    <3>2. CASE LeftIn(r)
      BY <1>a, <2>1, <3>2 DEF LeftIn, redis, CountAccounts
    <3> QED
      BY <1>3, <3>1, <3>2
  <2>3. (Running \cap counted)' \subseteq Running \cap counted
    BY <1>3, <1>a, <2>2 DEF Running, Goto
  <2> QED
    BY <2>2, <2>3, CapShrinks DEF CapExplained
<1>4. ASSUME NEW r \in Requests, Release(r) \/ ReleaseFails(r) \/ Crash(r)
      PROVE  CapExplained'
  BY <1>4, <1>3 DEF Release, ReleaseFails, Crash
<1>5. ASSUME NEW r \in Requests, Leave(r) PROVE CapExplained'
  <2>1. /\ at[r] = "open" /\ at' = [at EXCEPT ![r] = "waiting"]
        /\ UNCHANGED <<count, counted, orphans, undue>>
    BY <1>5 DEF Leave, Goto, redis, history
  <2>2. (Running \cap counted)' \subseteq Running \cap counted
    BY <1>a, <2>1 DEF Running
  <2>3. CountAccounts'
    BY <1>a, <2>1 DEF CountAccounts
  <2> QED
    BY <1>a, <2>1, <2>2, <2>3, CapShrinks DEF CapExplained
<1>6. CASE Expire
  <2>1. counted' = {} /\ (Running \cap counted)' = {}
    BY <1>6 DEF Expire
  <2>2. Cardinality({}) = 0
    BY FS_EmptySet
  <2>3. count' = 0 /\ orphans' = 0 /\ undue' = 0
    BY <1>6 DEF Expire
  <2> QED
    BY <1>a, <2>1, <2>2, <2>3 DEF CapExplained, CountAccounts
<1>7. CASE UNCHANGED vars
  BY <1>7 DEF vars, redis, history, CapExplained, CountAccounts, Running
<1> QED
  BY <1>1, <1>2, <1>4, <1>5, <1>6, <1>7 DEF Next

LEMMA BackpressureInductive == Spec => [](TypeOK /\ IInv)
<1>1. Init => TypeOK /\ IInv
  BY BackpressureInit
<1>2. TypeOK /\ IInv /\ [Next]_vars => (TypeOK /\ IInv)'
  BY TypeNext, KeyNext, CapNext DEF IInv
<1> QED
  BY <1>1, <1>2, PTL DEF Spec
-----------------------------------------------------------------------------
(* Theorems. *)

\* Key, counter and requests have their types: withBackpressure.
THEOREM BackpressureTypeCorrect == Spec => []TypeOK
BY BackpressureInductive, PTL

\* The counter accounts for every claim, and the cap is exceeded only by the
\* requests the expiry of the key has made it forget: withBackpressure.
THEOREM OverloadIsExplained == Spec => []CapExplained
<1>1. IInv => CapExplained
  BY DEF IInv
<1> QED
  BY <1>1, BackpressureInductive, PTL

\* A counter that counts against the cap has an expiry, so no crash, lost call
\* or late DECR closes the route for good: ACQUIRE_SLOT_SCRIPT.
THEOREM PositiveCounterExpires == Spec => []LeakGuard
<1>1. IInv => LeakGuard
  BY DEF IInv
<1> QED
  BY <1>1, BackpressureInductive, PTL

\* Nobody is turned away while the others, and the slots nobody gives back, leave
\* room below the cap: withBackpressure.
THEOREM RefusalsAreDue == Spec => RefusedWhenFull
<1> DEFINE Due == \A r \in Requests :
                    at[r] = "waiting" /\ at'[r] = "over" =>
                       Cardinality(counted' \ {r}) + orphans' - undue' >= MaxConcurrent
<1>1. TypeOK /\ IInv /\ [Next]_vars => [Due]_vars
  <2> SUFFICES ASSUME TypeOK, IInv, [Next]_vars, NEW r \in Requests,
                      at[r] = "waiting", at'[r] = "over"
               PROVE  Cardinality(counted' \ {r}) + orphans' - undue' >= MaxConcurrent
    OBVIOUS
  <2>1. Claim(r)
    BY DEF Next, Claim, ClaimFails, Release, ReleaseFails, Leave, Crash, Expire, Goto,
           vars, history, redis, TypeOK
  <2>2. /\ ~Admitted(count + 1) /\ UNCHANGED <<orphans, undue>>
        /\ counted' = counted \cup {r} /\ r \notin counted
    BY <2>1 DEF Claim, Goto, TypeOK
  <2>3. counted' \ {r} = counted
    BY <2>2
  <2>4. count = Cardinality(counted) + orphans - undue
    BY DEF IInv, CapExplained, CountAccounts
  <2>5. Cardinality(counted) \in Nat
    BY CountedFacts
  <2> QED
    BY <2>2, <2>3, <2>4, <2>5, BackpressureAssumption DEF Admitted, TypeOK
<1>2. Spec => [][Due]_vars
  BY <1>1, BackpressureInductive, PTL DEF Spec
<1> QED
  BY <1>2 DEF RefusedWhenFull
=============================================================================
