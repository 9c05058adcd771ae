------------------------------ MODULE RxThread ------------------------------
(***************************************************************************)
(* rx_thread_fn (src/pipeline.cpp), which makes up orders and pushes them  *)
(* to the matching thread, and the bounded spin it shares with the AF_XDP  *)
(* receive thread.  A stop request reaches each thread when that thread    *)
(* next looks at its token; a look and the push attempt after it are one   *)
(* step, because nobody else can tell a stop request that came in between  *)
(* from one that came just after.                                          *)
(*                                                                         *)
(* Orders are numbered as they are generated or received; what else they   *)
(* say has no influence on these threads.                                  *)
(***************************************************************************)
EXTENDS MatchingThread

CONSTANTS
  Capacity,   \* SPSC_CAPACITY
  Attempts,   \* kBoundedSpinAttempts
  MaxOrders   \* bound on the orders generated, for model checking

ASSUME RxThreadAssumption == /\ Capacity \in Nat \ {0}
                             /\ Attempts \in Nat \ {0}
                             /\ MaxOrders \in Nat
                             /\ Events = 1 .. MaxOrders

VARIABLES
  rx_pc,      \* where the receive thread is
  rx_order,   \* the order it wants to push
  attempt,    \* failed attempts so far
  taken,      \* orders generated (next_order_id - 1), or frames `received'
  dropped     \* dropped_orders, or `dropped'

rxVars == <<rx_pc, rx_order, attempt, taken, dropped>>

RxInit ==
  /\ rx_pc = "pin" /\ rx_order = NoEvent /\ attempt = 0
  /\ taken = 0 /\ dropped = 0

(* pin_to_core and verify_affinity: what follows is the caller's.          *)
RxPin(next) ==
  /\ rx_pc = "pin"
  /\ rx_pc' \in {next, "failed"}
  /\ UNCHANGED <<matchingVars, rx_order, attempt, taken, dropped>>

(* The head of the loop of rx_thread_fn, and the order it makes up.        *)
RxSeeStop ==
  /\ rx_pc = "loop"
  /\ stop
  /\ rx_pc' = "ended"
  /\ UNCHANGED <<matchingVars, rx_order, attempt, taken, dropped>>

Generate ==
  /\ rx_pc = "loop"
  /\ ~stop
  /\ taken < MaxOrders
  /\ taken' = taken + 1
  /\ rx_order' = taken + 1
  /\ attempt' = 0
  /\ rx_pc' = "push"
  /\ UNCHANGED <<matchingVars, dropped>>

(* The bounded spin: an order is pushed, or dropped once the attempts have *)
(* been used up or a stop is seen, also before the first attempt.          *)
GoesOnSpinning == attempt < Attempts /\ ~stop

PushOrder(next) ==
  /\ rx_pc = "push"
  /\ GoesOnSpinning
  /\ Len(queue) < Capacity
  /\ queue' = Append(queue, rx_order)
  /\ rx_pc' = next
  /\ rx_order' = NoEvent /\ attempt' = 0
  /\ UNCHANGED <<book, exhaustion, sinkVars, stop, threadVars, taken, dropped>>

PushFails ==
  /\ rx_pc = "push"
  /\ GoesOnSpinning
  /\ Len(queue) = Capacity
  /\ attempt' = attempt + 1
  /\ UNCHANGED <<matchingVars, rx_pc, rx_order, taken, dropped>>

(* A seeded mistake: the spin goes on until the queue takes the order.     *)
NeverGiveUp(next) == FALSE

GiveUp(next) ==
  /\ rx_pc = "push"
  /\ ~GoesOnSpinning
  /\ dropped' = dropped + 1
  /\ rx_pc' = next
  /\ rx_order' = NoEvent /\ attempt' = 0
  /\ UNCHANGED <<matchingVars, taken>>

BoundedSpin(next) == PushOrder(next) \/ PushFails \/ GiveUp(next)

SyntheticRx ==
  \/ RxPin("loop")
  \/ RxSeeStop
  \/ Generate
  \/ BoundedSpin("loop")

RxOver == rx_pc \in {"ended", "failed"}
=============================================================================
