---------------------------- MODULE MCOrderBook ----------------------------
(***************************************************************************)
(* Model-checking instance of OrderBook.  The queues of BookView are kept  *)
(* in a variable of their own, always equal to what the pointers show, so  *)
(* that TLC walks the lists once a state when it checks the refinement.    *)
(***************************************************************************)
EXTENDS BookView, TLC

VARIABLE queue

MCInit == BookInit /\ queue = Queue
MCNext == BookNext /\ queue' = Queue'
MCSpec == MCInit /\ [][MCNext]_<<bookVars, queue>>

Abstract == INSTANCE LimitOrderBook WITH
  OrderCapacity <- Cardinality(OrderSlots),
  LevelCapacity <- Cardinality(LevelSlots)

(* Appending, unlinking anywhere, filling and resizing in place are, seen  *)
(* as queues, exactly first-in first-out with removal: time priority is    *)
(* never disturbed by what happens to another order.                       *)
RefinesLimitOrderBook == Abstract!Spec

Symmetry ==
  Permutations(OrderSlots) \cup Permutations(LevelSlots) \cup Permutations(OrderIds)
=============================================================================
