----------------------------- MODULE ObjectPool -----------------------------
(***************************************************************************)
(* hydra::ObjectPool<T, N> (include/hydra/object_pool.hpp): a slab of N    *)
(* slots whose free ones are chained through the storage of the objects    *)
(* they will hold.  A slot is a union of the object and a next pointer, so *)
(* constructing an object in it destroys the link that was there.          *)
(*                                                                         *)
(* The slab's slots are 0..N-1 and Null is nullptr.  `live' is the set of  *)
(* pointers the owner has acquired and not released.  It is not state of   *)
(* the pool: it is the owner's side of the contract, kept so that what the *)
(* pool hands out can be compared with what the owner still uses.          *)
(***************************************************************************)
EXTENDS Integers

CONSTANTS
  N,              \* capacity of the pool
  MaxExhaustion   \* bound on exhaustion_count, for model checking

ASSUME NAssumption == N \in Nat \ {0}
ASSUME MaxExhaustionAssumption == MaxExhaustion \in Nat

Slots == 0 .. N - 1
Null == -1
Pointers == Slots \cup {Null}

VARIABLES
  next,              \* slab_[s].next; meaningless while the object is alive
  free_head,         \* free_head_
  exhaustion_count,  \* exhaustion_count_
  live               \* pointers held by the owner

vars == <<next, free_head, exhaustion_count, live>>

-----------------------------------------------------------------------------
(* The list the constructor and reset() build: slot i points at i + 1.     *)
FreshList == [s \in Slots |-> IF s = N - 1 THEN Null ELSE s + 1]

Init ==
  /\ next = FreshList
  /\ free_head = 0
  /\ exhaustion_count = 0
  /\ live = {}

(* acquire(), with a free slot: pop the head.  The new object overwrites   *)
(* the slot's link with bytes of its own, here any pointer value at all.   *)
Acquire ==
  /\ free_head # Null
  /\ free_head' = next[free_head]
  /\ \E garbage \in Pointers : next' = [next EXCEPT ![free_head] = garbage]
  /\ live' = live \cup {free_head}
  /\ UNCHANGED exhaustion_count

(* acquire(), with none left: count it and return nullptr.                 *)
AcquireFails ==
  /\ free_head = Null
  /\ exhaustion_count < MaxExhaustion
  /\ exhaustion_count' = exhaustion_count + 1
  /\ UNCHANGED <<next, free_head, live>>

(* A seeded mistake: the slot is made the head without being linked        *)
(* to the old one.                                                         *)
ReleaseWithoutLink(s) ==
  /\ s \in live
  /\ free_head' = s
  /\ live' = live \ {s}
  /\ UNCHANGED <<next, exhaustion_count>>

(* release(ptr): push the slot on the head.  The owner passes a pointer it *)
(* holds; the pool itself could not tell a second release of the same one. *)
Release(s) ==
  /\ s \in live
  /\ next' = [next EXCEPT ![s] = free_head]
  /\ free_head' = s
  /\ live' = live \ {s}
  /\ UNCHANGED exhaustion_count

(* A seeded mistake: reset() clears the shortage count too.                *)
ResetForgetsExhaustion ==
  /\ next' = FreshList
  /\ free_head' = 0
  /\ live' = {}
  /\ exhaustion_count' = 0

(* reset(): relink the whole slab, whatever was acquired; the owner drops  *)
(* every pointer at the same moment (OrderBook::reset).                    *)
Reset ==
  /\ next' = FreshList
  /\ free_head' = 0
  /\ live' = {}
  /\ UNCHANGED exhaustion_count

Next ==
  \/ Acquire
  \/ AcquireFails
  \/ \E s \in Slots : Release(s)
  \/ Reset

Spec == Init /\ [][Next]_vars

-----------------------------------------------------------------------------
(* Types only: every link of a free or live slot is a pointer of the slab. *)
TypeOK ==
  /\ next \in [Slots -> Pointers]
  /\ free_head \in Pointers
  /\ exhaustion_count \in Nat
  /\ live \in SUBSET Slots

(* chain[1..k] lists the free slots from the bottom of the free list to    *)
(* its head, so a push extends it and a pop shortens it.                   *)
IsFreeChain(k, chain) ==
  /\ chain \in [1 .. k -> Slots]
  /\ \A i, j \in 1 .. k : chain[i] = chain[j] => i = j
  /\ \A s \in Slots : s \notin live <=> \E i \in 1 .. k : chain[i] = s
  /\ \A i \in 1 .. k : next[chain[i]] = IF i = 1 THEN Null ELSE chain[i - 1]
  /\ free_head = IF k = 0 THEN Null ELSE chain[k]

(* The inductive invariant.  Following `next' from free_head_ visits every *)
(* slot that is not handed out exactly once and then ends in nullptr: no   *)
(* slot leaks, none is on the list twice, and none of them is alive.       *)
FreeListExact ==
  \E k \in 0 .. N : \E chain \in [1 .. k -> Slots] : IsFreeChain(k, chain)

(* acquire() never hands out a slot whose object is still in use.          *)
NeverHandsOutLiveSlot == free_head # Null => free_head \notin live

(* acquire() reports exhaustion only when all N objects really are in use: *)
(* the free list loses no slot over any sequence of calls.                 *)
FailsOnlyWhenFull == free_head = Null => live = Slots

(* exhaustion_count_ is cumulative: not even reset() lowers it.            *)
ExhaustionIsRemembered == [][exhaustion_count' >= exhaustion_count]_vars

(* The free list implements the pool of SlotPool.tla: its free slots are   *)
(* exactly the ones the owner does not hold.                               *)
Abstract == INSTANCE SlotPool WITH
  free <- Slots \ live, exhausted <- exhaustion_count > 0

RefinesSlotPool == Abstract!Spec
=============================================================================
