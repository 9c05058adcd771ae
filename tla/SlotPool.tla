------------------------------ MODULE SlotPool ------------------------------
(***************************************************************************)
(* What hydra::ObjectPool<T, N> promises its owner: a fixed set of slots,  *)
(* each either free or handed out, and a record of whether the pool ever   *)
(* ran dry.  ObjectPool.tla shows that the intrusive free list keeps this  *)
(* promise; OrderBook.tla takes its order and level pools from here.       *)
(*                                                                         *)
(* exhaustion_count_ is reduced to the only thing its readers test: is it  *)
(* zero (run_benchmark's validity gate, benchmark.cpp).                    *)
(***************************************************************************)
CONSTANT Slots

VARIABLES free, exhausted

vars == <<free, exhausted>>

TypeOK ==
  /\ free \in SUBSET Slots
  /\ exhausted \in BOOLEAN

Init ==
  /\ free = Slots
  /\ exhausted = FALSE

(* acquire() on a non-empty pool: some free slot becomes the caller's.     *)
Acquire(s) ==
  /\ s \in free
  /\ free' = free \ {s}
  /\ UNCHANGED exhausted

(* acquire() on an empty pool: nullptr, and the shortage is remembered.    *)
AcquireFails ==
  /\ free = {}
  /\ exhausted' = TRUE
  /\ UNCHANGED free

(* release(): a slot the caller holds goes back.                           *)
Release(s) ==
  /\ s \in Slots \ free
  /\ free' = free \cup {s}
  /\ UNCHANGED exhausted

(* reset(): every slot is free again; the shortage is not forgotten.       *)
Reset ==
  /\ free' = Slots
  /\ UNCHANGED exhausted

Next ==
  \/ \E s \in Slots : Acquire(s) \/ Release(s)
  \/ AcquireFails
  \/ Reset

Spec == Init /\ [][Next]_vars
=============================================================================
