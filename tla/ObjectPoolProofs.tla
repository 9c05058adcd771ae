-------------------------- MODULE ObjectPoolProofs --------------------------
(***************************************************************************)
(* Proofs about ObjectPool for every capacity N.  The argument: the free   *)
(* list is a chain that visits each slot that is not live exactly once     *)
(* (FreeListExact, inductive); everything else follows from it.            *)
(***************************************************************************)
EXTENDS ObjectPool, FiniteSetTheorems, TLAPS

(* The chain a freshly linked slab forms, bottom first.  It is stated of   *)
(* constants, so that it serves in the initial and in a primed state.      *)
LEMMA FreshListIsChain ==
  \E chain \in [1 .. N -> Slots] :
    /\ \A i, j \in 1 .. N : chain[i] = chain[j] => i = j
    /\ \A s \in Slots : \E i \in 1 .. N : chain[i] = s
    /\ \A i \in 1 .. N :
         FreshList[chain[i]] = IF i = 1 THEN Null ELSE chain[i - 1]
    /\ chain[N] = 0
PROOF
  <1> DEFINE chain == [i \in 1 .. N |-> N - i]
  <1>1. chain \in [1 .. N -> Slots]
    BY NAssumption DEF Slots
  <1>2. \A i, j \in 1 .. N : chain[i] = chain[j] => i = j
    BY NAssumption
  <1>3. ASSUME NEW s \in Slots
        PROVE  \E i \in 1 .. N : chain[i] = s
    <2>1. N - s \in 1 .. N /\ chain[N - s] = s
      BY NAssumption DEF Slots
    <2> QED BY <2>1
  <1>4. \A i \in 1 .. N :
          FreshList[chain[i]] = IF i = 1 THEN Null ELSE chain[i - 1]
    BY NAssumption DEF FreshList, Slots
  <1>5. chain[N] = 0
    BY NAssumption
  <1> QED BY <1>1, <1>2, <1>3, <1>4, <1>5

(* A chain that misses a slot is shorter than the slab (pigeonhole).       *)
LEMMA ChainMissesSlot ==
  ASSUME NEW k \in Nat, NEW chain \in [1 .. k -> Slots], NEW s \in Slots,
         \A i, j \in 1 .. k : chain[i] = chain[j] => i = j,
         \A i \in 1 .. k : chain[i] # s
  PROVE  k < N
PROOF
  <1>1. IsFiniteSet(1 .. k) /\ Cardinality(1 .. k) = k
    BY FS_Interval
  <1>2. IsFiniteSet(Slots) /\ Cardinality(Slots) = N
    BY FS_Interval, NAssumption DEF Slots
  <1>3. IsFiniteSet(Slots \ {s}) /\ Cardinality(Slots \ {s}) = N - 1
    BY <1>2, FS_RemoveElement
  <1>4. chain \in [1 .. k -> Slots \ {s}]
    OBVIOUS
  <1>5. ~(N - 1 < k)
    BY <1>1, <1>3, <1>4, FS_PigeonHole
  <1> QED BY <1>5, NAssumption

(* Popping the head of the chain shortens it by one.                       *)
LEMMA AcquireKeepsChain ==
  ASSUME TypeOK, FreeListExact, Acquire
  PROVE  FreeListExact'
PROOF
  <1>1. PICK k \in 0 .. N : \E c \in [1 .. k -> Slots] : IsFreeChain(k, c)
    BY DEF FreeListExact
  <1>2. PICK chain \in [1 .. k -> Slots] : IsFreeChain(k, chain)
    BY <1>1
  <1> DEFINE rest == [i \in 1 .. k - 1 |-> chain[i]]
  <1>3. k > 0 /\ free_head = chain[k] /\ k - 1 \in 0 .. N /\ k \in 1 .. k
    BY <1>2, NAssumption DEF Acquire, IsFreeChain
  <1>4. rest \in [1 .. k - 1 -> Slots]
    BY <1>3
  <1>5. \A i, j \in 1 .. k - 1 : rest[i] = rest[j] => i = j
    BY <1>2, <1>3 DEF IsFreeChain
  <1>6. ASSUME NEW s \in Slots
        PROVE  s \notin live' <=> \E i \in 1 .. k - 1 : rest[i] = s
    <2>1. s \notin live' <=> s \notin live /\ s # chain[k]
      BY <1>3 DEF Acquire
    <2>2. s \notin live <=> \E i \in 1 .. k : chain[i] = s
      BY <1>2 DEF IsFreeChain
    <2>3. \A i \in 1 .. k : chain[i] = chain[k] => i = k
      BY <1>2, <1>3 DEF IsFreeChain
    <2> QED BY <2>1, <2>2, <2>3, <1>3
  <1>7. \A i \in 1 .. k - 1 :
          next'[rest[i]] = IF i = 1 THEN Null ELSE rest[i - 1]
    <2> SUFFICES ASSUME NEW i \in 1 .. k - 1
                 PROVE  next'[rest[i]] = IF i = 1 THEN Null ELSE rest[i - 1]
      OBVIOUS
    <2>1. i \in 1 .. k /\ rest[i] = chain[i] /\ chain[i] \in Slots
      BY <1>3
    <2>2. chain[i] # chain[k]
      BY <1>2, <1>3, <2>1 DEF IsFreeChain
    <2>3. next'[chain[i]] = next[chain[i]]
      BY <1>3, <2>1, <2>2 DEF Acquire, TypeOK
    <2> QED BY <1>2, <1>3, <2>1, <2>3 DEF IsFreeChain
  <1>8. free_head' = IF k - 1 = 0 THEN Null ELSE rest[k - 1]
    BY <1>2, <1>3 DEF Acquire, IsFreeChain
  <1>9. IsFreeChain(k - 1, rest)'
    BY <1>4, <1>5, <1>6, <1>7, <1>8 DEF IsFreeChain
  <1> QED BY <1>3, <1>4, <1>9 DEF FreeListExact

(* Pushing a live slot extends the chain by one.                           *)
LEMMA ReleaseKeepsChain ==
  ASSUME TypeOK, FreeListExact, NEW s \in Slots, Release(s)
  PROVE  FreeListExact'
PROOF
  <1>1. PICK k \in 0 .. N : \E c \in [1 .. k -> Slots] : IsFreeChain(k, c)
    BY DEF FreeListExact
  <1>2. PICK chain \in [1 .. k -> Slots] : IsFreeChain(k, chain)
    BY <1>1
  <1> DEFINE longer == [i \in 1 .. k + 1 |-> IF i = k + 1 THEN s ELSE chain[i]]
  <1>3. \A i \in 1 .. k : chain[i] # s
    BY <1>2 DEF Release, IsFreeChain
  <1>4. k \in Nat /\ k + 1 \in 0 .. N
    BY <1>2, <1>3, ChainMissesSlot, NAssumption DEF IsFreeChain
  <1>5. longer \in [1 .. k + 1 -> Slots]
    BY <1>4
  <1>6. \A i, j \in 1 .. k + 1 : longer[i] = longer[j] => i = j
    BY <1>2, <1>3, <1>4 DEF IsFreeChain
  <1>7. ASSUME NEW t \in Slots
        PROVE  t \notin live' <=> \E i \in 1 .. k + 1 : longer[i] = t
    <2>1. t \notin live' <=> t \notin live \/ t = s
      BY DEF Release
    <2>2. t \notin live <=> \E i \in 1 .. k : chain[i] = t
      BY <1>2 DEF IsFreeChain
    <2>3. (\E i \in 1 .. k + 1 : longer[i] = t)
             <=> t = s \/ \E i \in 1 .. k : chain[i] = t
      BY <1>4
    <2> QED BY <2>1, <2>2, <2>3
  <1>8. \A i \in 1 .. k + 1 :
          next'[longer[i]] = IF i = 1 THEN Null ELSE longer[i - 1]
    <2> SUFFICES ASSUME NEW i \in 1 .. k + 1
                 PROVE  next'[longer[i]] = IF i = 1 THEN Null ELSE longer[i - 1]
      OBVIOUS
    <2>1. CASE i = k + 1
      <3>1. longer[i] = s /\ next'[s] = free_head
        BY <2>1 DEF Release, TypeOK
      <3> QED BY <3>1, <2>1, <1>2, <1>4 DEF IsFreeChain
    <2>2. CASE i # k + 1
      <3>1. i \in 1 .. k /\ longer[i] = chain[i] /\ chain[i] # s
        BY <2>2, <1>3, <1>4
      <3>2. next'[chain[i]] = next[chain[i]]
        BY <3>1 DEF Release, TypeOK
      <3>3. next[chain[i]] = IF i = 1 THEN Null ELSE chain[i - 1]
        BY <3>1, <1>2 DEF IsFreeChain
      <3>4. i # 1 => longer[i - 1] = chain[i - 1]
        BY <3>1, <1>4
      <3> QED BY <3>1, <3>2, <3>3, <3>4
    <2> QED BY <2>1, <2>2
  <1>9. free_head' = IF k + 1 = 0 THEN Null ELSE longer[k + 1]
    BY <1>4 DEF Release
  <1>10. IsFreeChain(k + 1, longer)'
    BY <1>5, <1>6, <1>7, <1>8, <1>9 DEF IsFreeChain
  <1> QED BY <1>4, <1>5, <1>10 DEF FreeListExact

-----------------------------------------------------------------------------
(* Every pointer the pool stores stays inside the slab or is nullptr.      *)
THEOREM TypeCorrect == Spec => []TypeOK
PROOF
  <1>1. Init => TypeOK
    BY NAssumption DEF Init, TypeOK, FreshList, Pointers, Slots, Null
  <1>2. TypeOK /\ [Next]_vars => TypeOK'
    <2> SUFFICES ASSUME TypeOK, [Next]_vars PROVE TypeOK'
      OBVIOUS
    <2>1. CASE Acquire
      BY <2>1 DEF TypeOK, Acquire, Pointers
    <2>2. CASE AcquireFails
      BY <2>2 DEF TypeOK, AcquireFails
    <2>3. ASSUME NEW s \in Slots, Release(s) PROVE TypeOK'
      BY <2>3 DEF TypeOK, Release, Pointers
    <2>4. CASE Reset
      BY <2>4, NAssumption DEF TypeOK, Reset, FreshList, Pointers, Slots, Null
    <2>5. CASE UNCHANGED vars
      BY <2>5 DEF TypeOK, vars
    <2> QED BY <2>1, <2>2, <2>3, <2>4, <2>5 DEF Next
  <1> QED BY <1>1, <1>2, PTL DEF Spec

(* The free list always holds exactly the slots that are not handed out,   *)
(* each once: acquire(), release() and reset() can be called in any order. *)
THEOREM FreeListCorrect == Spec => []FreeListExact
PROOF
  <1>1. Init => FreeListExact
    <2> SUFFICES ASSUME Init PROVE FreeListExact
      OBVIOUS
    <2>1. PICK chain \in [1 .. N -> Slots] :
            /\ \A i, j \in 1 .. N : chain[i] = chain[j] => i = j
            /\ \A s \in Slots : \E i \in 1 .. N : chain[i] = s
            /\ \A i \in 1 .. N :
                 FreshList[chain[i]] = IF i = 1 THEN Null ELSE chain[i - 1]
            /\ chain[N] = 0
      BY FreshListIsChain
    <2>2. IsFreeChain(N, chain) /\ N \in 0 .. N
      BY <2>1, NAssumption DEF Init, IsFreeChain
    <2> QED BY <2>2 DEF FreeListExact
  <1>2. TypeOK /\ FreeListExact /\ [Next]_vars => FreeListExact'
    <2> SUFFICES ASSUME TypeOK, FreeListExact, [Next]_vars
                 PROVE  FreeListExact'
      OBVIOUS
    <2>1. CASE Acquire
      BY <2>1, AcquireKeepsChain
    <2>2. CASE AcquireFails
      BY <2>2 DEF AcquireFails, FreeListExact, IsFreeChain
    <2>3. ASSUME NEW s \in Slots, Release(s) PROVE FreeListExact'
      BY <2>3, ReleaseKeepsChain
    <2>4. CASE Reset
      <3>1. PICK chain \in [1 .. N -> Slots] :
              /\ \A i, j \in 1 .. N : chain[i] = chain[j] => i = j
              /\ \A s \in Slots : \E i \in 1 .. N : chain[i] = s
              /\ \A i \in 1 .. N :
                   FreshList[chain[i]] = IF i = 1 THEN Null ELSE chain[i - 1]
              /\ chain[N] = 0
        BY FreshListIsChain
      <3>2. IsFreeChain(N, chain)' /\ N \in 0 .. N
        BY <2>4, <3>1, NAssumption DEF Reset, IsFreeChain
      <3> QED BY <3>2 DEF FreeListExact
    <2>5. CASE UNCHANGED vars
      BY <2>5 DEF vars, FreeListExact, IsFreeChain
    <2> QED BY <2>1, <2>2, <2>3, <2>4, <2>5 DEF Next
  <1> QED BY <1>1, <1>2, TypeCorrect, PTL DEF Spec

(* What the chain says of the two outcomes of acquire().                   *)
LEMMA ChainEnds ==
  ASSUME TypeOK, FreeListExact
  PROVE  NeverHandsOutLiveSlot /\ FailsOnlyWhenFull
PROOF
  <1>1. PICK k \in 0 .. N : \E c \in [1 .. k -> Slots] : IsFreeChain(k, c)
    BY DEF FreeListExact
  <1>2. PICK chain \in [1 .. k -> Slots] : IsFreeChain(k, chain)
    BY <1>1
  <1>3. CASE k = 0
    <2>1. free_head = Null /\ live = Slots
      BY <1>2, <1>3 DEF IsFreeChain, TypeOK
    <2> QED BY <2>1 DEF NeverHandsOutLiveSlot, FailsOnlyWhenFull, Null
  <1>4. CASE k # 0
    <2>1. free_head = chain[k] /\ k \in 1 .. k /\ chain[k] \in Slots
      BY <1>2, <1>4 DEF IsFreeChain
    <2>2. free_head \notin live /\ free_head # Null
      BY <1>2, <2>1 DEF IsFreeChain, Slots, Null
    <2> QED BY <2>2 DEF NeverHandsOutLiveSlot, FailsOnlyWhenFull
  <1> QED BY <1>3, <1>4

(* No object is ever handed out while it is still in use.                  *)
THEOREM NoLiveSlotHandedOut == Spec => []NeverHandsOutLiveSlot
  BY TypeCorrect, FreeListCorrect, ChainEnds, PTL

(* acquire() fails only when all N objects are in use.                     *)
THEOREM NoSlotLost == Spec => []FailsOnlyWhenFull
  BY TypeCorrect, FreeListCorrect, ChainEnds, PTL

(* No step lowers exhaustion_count_, so a shortage in any trial of a run   *)
(* is still visible at its end.                                            *)
THEOREM ExhaustionSticks == Spec => ExhaustionIsRemembered
PROOF
  <1>1. TypeOK /\ [Next]_vars => [exhaustion_count' >= exhaustion_count]_vars
    BY DEF TypeOK, Next, vars, Acquire, AcquireFails, Release, Reset
  <1> QED BY <1>1, TypeCorrect, PTL DEF Spec, ExhaustionIsRemembered

(* The linked free list implements the pool of SlotPool.tla.               *)
THEOREM Refinement == Spec => RefinesSlotPool
PROOF
  <1>1. Init => Abstract!Init
    BY DEF Init, Abstract!Init
  <1>2. TypeOK /\ NeverHandsOutLiveSlot /\ FailsOnlyWhenFull /\ [Next]_vars
          => [Abstract!Next]_Abstract!vars
    <2> SUFFICES ASSUME TypeOK, NeverHandsOutLiveSlot, FailsOnlyWhenFull,
                        [Next]_vars
                 PROVE  [Abstract!Next]_Abstract!vars
      OBVIOUS
    <2> USE DEF Abstract!Next, Abstract!vars
    <2>1. CASE Acquire
      <3>1. free_head \in Slots /\ free_head \notin live
        BY <2>1 DEF Acquire, TypeOK, Pointers, NeverHandsOutLiveSlot
      <3>2. Slots \ live' = (Slots \ live) \ {free_head}
        BY <2>1 DEF Acquire
      <3>3. Abstract!Acquire(free_head)
        BY <2>1, <3>1, <3>2 DEF Acquire, Abstract!Acquire
      <3> QED BY <3>1, <3>3
    <2>2. CASE AcquireFails
      <3>1. Slots \ live = {} /\ UNCHANGED (Slots \ live)
        BY <2>2 DEF AcquireFails, FailsOnlyWhenFull
      <3>2. exhaustion_count' > 0
        BY <2>2 DEF AcquireFails, TypeOK
      <3> QED BY <3>1, <3>2 DEF Abstract!AcquireFails
    <2>3. ASSUME NEW s \in Slots, Release(s)
          PROVE  [Abstract!Next]_Abstract!vars
      <3>1. s \in Slots \ (Slots \ live)
        BY <2>3 DEF Release
      <3>2. Slots \ live' = (Slots \ live) \cup {s}
        BY <2>3 DEF Release
      <3>3. Abstract!Release(s)
        BY <2>3, <3>1, <3>2 DEF Release, Abstract!Release
      <3> QED BY <3>3
    <2>4. CASE Reset
      BY <2>4 DEF Reset, Abstract!Reset
    <2>5. CASE UNCHANGED vars
      BY <2>5 DEF vars
    <2> QED BY <2>1, <2>2, <2>3, <2>4, <2>5 DEF Next
  <1> QED BY <1>1, <1>2, TypeCorrect, NoLiveSlotHandedOut, NoSlotLost, PTL
          DEF Spec, RefinesSlotPool, Abstract!Spec
=============================================================================
