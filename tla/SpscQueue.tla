----------------------------- MODULE SpscQueue -----------------------------
(***************************************************************************)
(* hydra::SpscQueue<T, N> (include/hydra/spsc_queue.hpp), with the loads,  *)
(* slot accesses and stores of push() and pop() as steps of their own.     *)
(*                                                                         *)
(* Each counter is written by one thread, so that thread's relaxed load    *)
(* gives its value.  The other thread's acquire load may give any value    *)
(* not older than the one it saw before; having seen a value, it also sees *)
(* everything the writer did before the release store of it, and that is   *)
(* all it relies on.  A slot is an Order of two cache lines, written and   *)
(* copied one line at a time, so that a torn copy is a state of the model. *)
(***************************************************************************)
EXTENDS Integers, Sequences

CONSTANTS
  N,          \* number of slots
  Items,      \* what is pushed
  Nothing,    \* content of a line never written
  MaxPushes   \* bound on tail_, for model checking

ASSUME QueueAssumption == N \in Nat \ {0} /\ MaxPushes \in Nat /\ Nothing \notin Items

VARIABLES
  buffer,    \* buffer_
  tail_,     \* pushes published
  head_,     \* pops published
  p_pc,      \* producer: "idle", or in "write" with room found
  p_item,    \* push()'s argument
  p_head,    \* the head_ it last loaded
  p_todo,    \* lines of the slot not written yet
  c_pc,      \* consumer: "idle", or in "copy" with an element found
  c_tail,    \* the tail_ it last loaded
  c_todo,    \* lines of the slot not copied yet
  c_copy,    \* pop()'s `out', while it is written
  last       \* what the last successful pop() returned

producerVars == <<p_pc, p_item, p_head, p_todo>>
consumerVars == <<c_pc, c_tail, c_todo, c_copy, last>>
vars == <<buffer, tail_, head_, producerVars, consumerVars>>

Lines == {"hot", "cold"}
Slots == 0 .. N - 1

(* `& kMask', N being a power of two.                                      *)
Slot(counter) == counter % N

Whole(x) == [line \in Lines |-> x]

-----------------------------------------------------------------------------
Init ==
  /\ buffer = [s \in Slots |-> Whole(Nothing)]
  /\ tail_ = 0 /\ head_ = 0
  /\ p_pc = "idle" /\ p_item = Nothing /\ p_head = 0 /\ p_todo = {}
  /\ c_pc = "idle" /\ c_tail = 0 /\ c_todo = {}
  /\ c_copy = Whole(Nothing) /\ last = Whole(Nothing)

(* A seeded mistake: one element too many.                                 *)
RoomForOneMore(head) == tail_ - head <= N

HasRoom(head) == tail_ - head < N

(* push(): load head_ and find room.                                       *)
BeginPush(x) ==
  /\ p_pc = "idle"
  /\ tail_ < MaxPushes
  /\ \E head \in p_head .. head_ : HasRoom(head) /\ p_head' = head
  /\ p_pc' = "write"
  /\ p_item' = x
  /\ p_todo' = Lines
  /\ UNCHANGED <<buffer, tail_, head_, consumerVars>>

(* push() returning false.                                                 *)
PushFails ==
  /\ p_pc = "idle"
  /\ \E head \in p_head .. head_ : ~HasRoom(head) /\ p_head' = head
  /\ UNCHANGED <<buffer, tail_, head_, p_pc, p_item, p_todo, consumerVars>>

WriteLine(line) ==
  /\ p_pc = "write"
  /\ line \in p_todo
  /\ buffer' = [buffer EXCEPT ![Slot(tail_)][line] = p_item]
  /\ p_todo' = p_todo \ {line}
  /\ UNCHANGED <<tail_, head_, p_pc, p_item, p_head, consumerVars>>

(* A seeded mistake: tail_ is stored before the slot is written.           *)
WrittenInPart == p_todo # Lines

Written == p_todo = {}

(* The release store of tail_: push() returns true.                        *)
Publish ==
  /\ p_pc = "write"
  /\ Written
  /\ tail_' = tail_ + 1
  /\ p_pc' = "idle"
  /\ p_item' = Nothing
  /\ p_todo' = {}
  /\ UNCHANGED <<buffer, head_, p_head, consumerVars>>

(* pop(): load tail_ and find an element.                                  *)
BeginPop ==
  /\ c_pc = "idle"
  /\ \E tail \in c_tail .. tail_ : head_ < tail /\ c_tail' = tail
  /\ c_pc' = "copy"
  /\ c_todo' = Lines
  /\ UNCHANGED <<buffer, tail_, head_, producerVars, c_copy, last>>

(* pop() returning false: it saw the tail_ it had seen already.            *)
PopFails ==
  /\ c_pc = "idle"
  /\ \E tail \in c_tail .. tail_ : ~(head_ < tail) /\ c_tail' = tail
  /\ UNCHANGED <<buffer, tail_, head_, producerVars, c_pc, c_todo, c_copy, last>>

CopyLine(line) ==
  /\ c_pc = "copy"
  /\ line \in c_todo
  /\ c_copy' = [c_copy EXCEPT ![line] = buffer[Slot(head_)][line]]
  /\ c_todo' = c_todo \ {line}
  /\ UNCHANGED <<buffer, tail_, head_, producerVars, c_pc, c_tail, last>>

(* The release store of head_: pop() returns true.                         *)
FreeSlot ==
  /\ c_pc = "copy"
  /\ c_todo = {}
  /\ head_' = head_ + 1
  /\ last' = c_copy
  /\ c_copy' = Whole(Nothing)
  /\ c_pc' = "idle"
  /\ UNCHANGED <<buffer, tail_, producerVars, c_tail, c_todo>>

Producer ==
  \/ \E x \in Items : BeginPush(x)
  \/ PushFails
  \/ \E line \in Lines : WriteLine(line)
  \/ Publish

Consumer ==
  \/ BeginPop
  \/ PopFails
  \/ \E line \in Lines : CopyLine(line)
  \/ FreeSlot

Next == Producer \/ Consumer

Spec == Init /\ [][Next]_vars

-----------------------------------------------------------------------------
(* Types, and the order of the four counters: each thread has seen a past  *)
(* value of the other's counter, and never more than N elements are held.  *)
TypeOK ==
  /\ buffer \in [Slots -> [Lines -> Items \cup {Nothing}]]
  /\ tail_ \in Nat /\ head_ \in Nat /\ p_head \in Nat /\ c_tail \in Nat
  /\ p_head <= head_ /\ head_ <= tail_ /\ c_tail <= tail_
  /\ tail_ - head_ <= N
  /\ p_pc \in {"idle", "write"} /\ p_item \in Items \cup {Nothing}
  /\ p_todo \in SUBSET Lines
  /\ c_pc \in {"idle", "copy"} /\ c_todo \in SUBSET Lines
  /\ {c_copy, last} \subseteq [Lines -> Items \cup {Nothing}]

(* The producer never writes the slot that the consumer is copying from,   *)
(* however old the head_ and tail_ the two go by: no data race on a slot.  *)
SlotNotShared ==
  ~(p_pc = "write" /\ c_pc = "copy" /\ Slot(tail_) = Slot(head_))

(* The elements of the queue, oldest first.                                *)
Contents == [i \in 1 .. tail_ - head_ |-> buffer[Slot(head_ + i - 1)]]

(* Whatever the interleaving and however stale the loads, the queue is a   *)
(* first-in first-out queue of whole orders: none is lost, repeated,       *)
(* reordered, torn, or returned before it has been written completely.     *)
Fifo == INSTANCE BoundedFifo WITH
  queue <- Contents, Messages <- {Whole(x) : x \in Items}, Capacity <- N,
  NoMessage <- Whole(Nothing)

RefinesBoundedFifo == Fifo!Spec
=============================================================================
