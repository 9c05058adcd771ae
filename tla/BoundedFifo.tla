---------------------------- MODULE BoundedFifo ----------------------------
(***************************************************************************)
(* What hydra::SpscQueue<T, N> promises its two threads: a first-in        *)
(* first-out queue of at most Capacity messages.  A refused push and an    *)
(* empty pop change nothing; either may be reported although it was true   *)
(* only a moment ago.  SpscQueue.tla implements this specification.        *)
(***************************************************************************)
EXTENDS Naturals, Sequences

CONSTANTS Messages, Capacity, NoMessage

VARIABLES
  queue,
  last     \* what the last successful pop() returned

vars == <<queue, last>>

Init ==
  /\ queue = <<>>
  /\ last = NoMessage

Push(m) ==
  /\ Len(queue) < Capacity
  /\ queue' = Append(queue, m)
  /\ UNCHANGED last

Pop ==
  /\ queue # <<>>
  /\ last' = Head(queue)
  /\ queue' = Tail(queue)

Next == (\E m \in Messages : Push(m)) \/ Pop

Spec == Init /\ [][Next]_vars
=============================================================================
