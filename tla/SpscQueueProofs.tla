-------------------------- MODULE SpscQueueProofs --------------------------
(***************************************************************************)
(* The queue keeps its slots apart and implements a bounded first-in       *)
(* first-out queue, for every capacity N and every number of pushes.       *)
(***************************************************************************)
EXTENDS SpscQueue, SequenceTheorems, TLAPS

(* The producer found room in the head_ it loaded, which can only have     *)
(* grown since; what it has written so far is its item.                    *)
ProducerInv ==
  /\ p_pc = "write" =>
       /\ p_item \in Items
       /\ tail_ - p_head < N
       /\ \A line \in Lines \ p_todo : buffer[Slot(tail_)][line] = p_item
  /\ p_pc = "idle" => p_todo = {}

(* The consumer found an element; what it has copied so far is that one.   *)
ConsumerInv ==
  c_pc = "copy" =>
    /\ head_ < c_tail
    /\ \A line \in Lines \ c_todo : c_copy[line] = buffer[Slot(head_)][line]

(* Between head_ and tail_ every slot holds one whole item.                *)
ContentsInv ==
  \A k \in Nat : head_ <= k /\ k < tail_ =>
    \E x \in Items : buffer[Slot(k)] = Whole(x)

QueueInv == TypeOK /\ ProducerInv /\ ConsumerInv /\ ContentsInv

-----------------------------------------------------------------------------
(* Slots of counters less than N apart are different.                      *)
LEMMA SlotsDiffer ==
  ASSUME NEW a \in Nat, NEW b \in Nat, a < b, b - a < N
  PROVE  Slot(a) \in Slots /\ Slot(b) \in Slots /\ Slot(a) # Slot(b)
PROOF
<1> DEFINE da == a \div N
           db == b \div N
<1>1. N \in Nat /\ N > 0
  BY QueueAssumption
<1>2. /\ a = N * da + (a % N) /\ a % N \in 0 .. N - 1 /\ da \in Int
      /\ b = N * db + (b % N) /\ b % N \in 0 .. N - 1 /\ db \in Int
  BY <1>1
<1>3. ASSUME a % N = b % N PROVE FALSE
  <2> DEFINE d == db - da
  <2> HIDE DEF da, db
  <2>1. d \in Int
    BY <1>2
  <2>2. N * db - N * da = b - a
    BY <1>1, <1>2, <1>3
  <2>3. N * d = N * db - N * da
    BY <1>1, <1>2
  <2> HIDE DEF d
  <2>4. N * d > 0 /\ N * d < N
    BY <2>2, <2>3
  <2>5. CASE d <= 0
    <3>1. N * d <= 0
      BY <1>1, <2>1, <2>5
    <3> QED
      BY <3>1, <2>4, <2>1, <1>1
  <2>6. CASE d >= 1
    <3>1. N * d >= N
      BY <1>1, <2>1, <2>6
    <3> QED
      BY <3>1, <2>4, <2>1, <1>1
  <2> QED
    BY <2>1, <2>5, <2>6
<1> QED
  BY <1>2, <1>3 DEF Slot, Slots

LEMMA SlotInRange ==
  ASSUME NEW a \in Nat
  PROVE  Slot(a) \in Slots
BY QueueAssumption DEF Slot, Slots

-----------------------------------------------------------------------------
LEMMA InitKeeps == Init => QueueInv
BY QueueAssumption DEF Init, QueueInv, TypeOK, ProducerInv, ConsumerInv, ContentsInv,
   Whole, Lines

(* Writing a line touches no slot that holds an element.                   *)
LEMMA WriteElsewhere ==
  ASSUME QueueInv, NEW line \in Lines, WriteLine(line),
         NEW k \in Nat, head_ <= k, k < tail_
  PROVE  buffer'[Slot(k)] = buffer[Slot(k)]
PROOF
<1>1. tail_ - k < N
  BY QueueAssumption DEF QueueInv, TypeOK, ProducerInv, WriteLine
<1>2. Slot(k) \in Slots /\ Slot(k) # Slot(tail_)
  BY <1>1, SlotsDiffer DEF QueueInv, TypeOK
<1> QED
  BY <1>2 DEF WriteLine, QueueInv, TypeOK

LEMMA ProducerKeeps ==
  ASSUME QueueInv, Producer
  PROVE  QueueInv'
PROOF
<1> USE QueueAssumption DEF QueueInv
<1>1. ASSUME NEW x \in Items, BeginPush(x) PROVE QueueInv'
  <2>1. PICK head \in p_head .. head_ : HasRoom(head) /\ p_head' = head
    BY <1>1 DEF BeginPush
  <2>2. TypeOK'
    BY <1>1, <2>1 DEF BeginPush, TypeOK, consumerVars
  <2>3. ProducerInv'
    BY <1>1, <2>1 DEF BeginPush, ProducerInv, HasRoom
  <2>4. ConsumerInv'
    BY <1>1 DEF BeginPush, ConsumerInv, consumerVars
  <2>5. ContentsInv'
    BY <1>1 DEF BeginPush, ContentsInv
  <2> QED
    BY <2>2, <2>3, <2>4, <2>5
<1>2. CASE PushFails
  <2>1. PICK head \in p_head .. head_ : p_head' = head
    BY <1>2 DEF PushFails
  <2>2. TypeOK'
    BY <1>2, <2>1 DEF PushFails, TypeOK, consumerVars
  <2>3. ProducerInv' /\ ConsumerInv' /\ ContentsInv'
    BY <1>2 DEF PushFails, ProducerInv, ConsumerInv, ContentsInv, consumerVars
  <2> QED
    BY <2>2, <2>3
<1>3. ASSUME NEW line \in Lines, WriteLine(line) PROVE QueueInv'
  <2>1. Slot(tail_) \in Slots
    BY SlotInRange DEF TypeOK
  <2>2. TypeOK'
    BY <1>3, <2>1 DEF WriteLine, TypeOK, ProducerInv, consumerVars
  <2>3. ProducerInv'
    <3>1. \A l \in Lines \ p_todo' : buffer'[Slot(tail_)][l] = p_item
      BY <1>3, <2>1 DEF WriteLine, TypeOK, ProducerInv
    <3> QED
      BY <1>3, <3>1 DEF WriteLine, ProducerInv, Slot
  <2>4. ConsumerInv'
    <3>1. CASE c_pc = "copy"
      <4>1. buffer'[Slot(head_)] = buffer[Slot(head_)]
        BY <1>3, <3>1, WriteElsewhere DEF ConsumerInv, TypeOK
      <4> QED
        BY <1>3, <3>1, <4>1 DEF WriteLine, ConsumerInv, consumerVars, Slot
    <3> QED
      BY <1>3, <3>1 DEF WriteLine, ConsumerInv, consumerVars
  <2>5. ContentsInv'
    BY <1>3, WriteElsewhere DEF WriteLine, ContentsInv, Slot
  <2> QED
    BY <2>2, <2>3, <2>4, <2>5
<1>4. CASE Publish
  <2>1. TypeOK'
    BY <1>4 DEF Publish, TypeOK, ProducerInv, consumerVars
  <2>2. ProducerInv' /\ ConsumerInv'
    BY <1>4 DEF Publish, ProducerInv, ConsumerInv, consumerVars, Slot
  <2>3. buffer[Slot(tail_)] = Whole(p_item)
    <3>1. Slot(tail_) \in Slots
      BY SlotInRange DEF TypeOK
    <3> QED
      BY <1>4, <3>1 DEF Publish, Written, TypeOK, ProducerInv, Whole
  <2>4. ContentsInv'
    <3>1. ASSUME NEW k \in Nat, head_ <= k, k < tail_ + 1
          PROVE  \E x \in Items : buffer[Slot(k)] = Whole(x)
      <4>1. CASE k = tail_
        BY <1>4, <2>3, <4>1 DEF Publish, ProducerInv
      <4>2. CASE k < tail_
        BY <3>1, <4>2 DEF ContentsInv
      <4> QED
        BY <3>1, <4>1, <4>2 DEF TypeOK
    <3> QED
      BY <1>4, <3>1 DEF Publish, ContentsInv, Slot, Whole
  <2> QED
    BY <2>1, <2>2, <2>4
<1> QED
  BY <1>1, <1>2, <1>3, <1>4 DEF Producer

LEMMA ConsumerKeeps ==
  ASSUME QueueInv, Consumer
  PROVE  QueueInv'
PROOF
<1> USE QueueAssumption DEF QueueInv
<1>1. CASE BeginPop
  <2>1. PICK tail \in c_tail .. tail_ : head_ < tail /\ c_tail' = tail
    BY <1>1 DEF BeginPop
  <2>2. TypeOK'
    BY <1>1, <2>1 DEF BeginPop, TypeOK, producerVars
  <2>3. ConsumerInv'
    BY <1>1, <2>1 DEF BeginPop, ConsumerInv
  <2>4. ProducerInv' /\ ContentsInv'
    BY <1>1 DEF BeginPop, ProducerInv, ContentsInv, producerVars
  <2> QED
    BY <2>2, <2>3, <2>4
<1>2. CASE PopFails
  <2>1. PICK tail \in c_tail .. tail_ : c_tail' = tail
    BY <1>2 DEF PopFails
  <2>2. TypeOK'
    BY <1>2, <2>1 DEF PopFails, TypeOK, producerVars
  <2>3. ProducerInv' /\ ConsumerInv' /\ ContentsInv'
    BY <1>2 DEF PopFails, ProducerInv, ConsumerInv, ContentsInv, producerVars
  <2> QED
    BY <2>2, <2>3
<1>3. ASSUME NEW line \in Lines, CopyLine(line) PROVE QueueInv'
  <2>1. Slot(head_) \in Slots
    BY SlotInRange DEF TypeOK
  <2>2. TypeOK'
    BY <1>3, <2>1 DEF CopyLine, TypeOK, producerVars
  <2>3. ProducerInv' /\ ContentsInv'
    BY <1>3 DEF CopyLine, ProducerInv, ContentsInv, producerVars, Slot
  <2>4. ConsumerInv'
    BY <1>3 DEF CopyLine, TypeOK, ConsumerInv, Slot
  <2> QED
    BY <2>2, <2>3, <2>4
<1>4. CASE FreeSlot
  <2>1. TypeOK'
    BY <1>4 DEF FreeSlot, TypeOK, ConsumerInv, producerVars, Whole
  <2>2. ProducerInv' /\ ConsumerInv'
    BY <1>4 DEF FreeSlot, TypeOK, ProducerInv, ConsumerInv, producerVars, Slot
  <2>3. ContentsInv'
    <3>1. ASSUME NEW k \in Nat, head_ + 1 <= k, k < tail_
          PROVE  \E x \in Items : buffer[Slot(k)] = Whole(x)
      <4>1. head_ <= k
        BY <3>1 DEF TypeOK
      <4> QED
        BY <3>1, <4>1 DEF ContentsInv
    <3> QED
      BY <1>4, <3>1 DEF FreeSlot, ContentsInv, Slot, Whole
  <2> QED
    BY <2>1, <2>2, <2>3
<1> QED
  BY <1>1, <1>2, <1>3, <1>4 DEF Consumer

LEMMA Inductive == Spec => []QueueInv
PROOF
<1>1. ASSUME QueueInv, [Next]_vars PROVE QueueInv'
  <2>1. CASE UNCHANGED vars
    BY <1>1, <2>1 DEF QueueInv, TypeOK, ProducerInv, ConsumerInv, ContentsInv,
       vars, producerVars, consumerVars, Slot
  <2> QED
    BY <1>1, <2>1, ProducerKeeps, ConsumerKeeps DEF Next
<1> QED
  BY InitKeeps, <1>1, PTL DEF Spec

-----------------------------------------------------------------------------
(* The types, and that the counters stay in order and within N.            *)
THEOREM TypeCorrect == Spec => []TypeOK
BY Inductive, PTL DEF QueueInv

(* No slot is written while it is being copied, for any capacity: the two  *)
(* threads may go by old values of each other's counter, since an old      *)
(* head_ shows less room, and an old tail_ fewer elements, than there are. *)
THEOREM NoSlotShared == Spec => []SlotNotShared
PROOF
<1>1. QueueInv => SlotNotShared
  <2> SUFFICES ASSUME QueueInv, p_pc = "write", c_pc = "copy"
               PROVE  Slot(tail_) # Slot(head_)
    BY DEF SlotNotShared
  <2>1. head_ < tail_ /\ tail_ - head_ < N
    BY QueueAssumption DEF QueueInv, TypeOK, ProducerInv, ConsumerInv
  <2> QED
    BY <2>1, SlotsDiffer DEF QueueInv, TypeOK
<1> QED
  BY <1>1, Inductive, PTL

-----------------------------------------------------------------------------
(* The queue as a sequence.                                                *)
LEMMA ContentsIsSeq ==
  ASSUME QueueInv
  PROVE  /\ Contents \in Seq([Lines -> Items \cup {Nothing}])
         /\ Len(Contents) = tail_ - head_
         /\ \A i \in 1 .. tail_ - head_ : Contents[i] = buffer[Slot(head_ + i - 1)]
PROOF
<1>1. tail_ - head_ \in Nat
  BY DEF QueueInv, TypeOK
<1>2. \A i \in 1 .. tail_ - head_ :
         buffer[Slot(head_ + i - 1)] \in [Lines -> Items \cup {Nothing}]
  BY SlotInRange DEF QueueInv, TypeOK
<1> QED
  BY <1>1, <1>2 DEF Contents

(* A step that moves neither counter and writes no slot that holds an      *)
(* element is a step the reader of the queue does not see.                 *)
LEMMA Unseen ==
  ASSUME QueueInv, UNCHANGED <<tail_, head_, last>>,
         \A k \in Nat : head_ <= k /\ k < tail_ => buffer'[Slot(k)] = buffer[Slot(k)]
  PROVE  UNCHANGED Fifo!vars
PROOF
<1>1. \A i \in 1 .. tail_ - head_ :
         buffer'[Slot(head_ + i - 1)] = buffer[Slot(head_ + i - 1)]
  <2> SUFFICES ASSUME NEW i \in 1 .. tail_ - head_
               PROVE  buffer'[Slot(head_ + i - 1)] = buffer[Slot(head_ + i - 1)]
    OBVIOUS
  <2>1. head_ + i - 1 \in Nat /\ head_ <= head_ + i - 1 /\ head_ + i - 1 < tail_
    BY DEF QueueInv, TypeOK
  <2> QED
    BY <2>1
<1>2. Contents' = [i \in 1 .. tail_ - head_ |-> buffer'[Slot(head_ + i - 1)]]
  BY DEF Contents, Slot
<1>3. Contents' = Contents
  BY <1>1, <1>2 DEF Contents
<1> QED
  BY <1>3 DEF Fifo!vars

(* Storing tail_ appends the item of the push, whole.                      *)
LEMMA PublishIsPush ==
  ASSUME QueueInv, Publish
  PROVE  \E m \in {Whole(x) : x \in Items} : Fifo!Push(m)
PROOF
<1>1. p_item \in Items /\ tail_ - head_ < N /\ tail_ \in Nat /\ head_ \in Nat /\ head_ <= tail_
  BY QueueAssumption DEF QueueInv, TypeOK, ProducerInv, Publish
<1>2. buffer[Slot(tail_)] = Whole(p_item)
  <2>1. Slot(tail_) \in Slots
    BY SlotInRange, <1>1
  <2> QED
    BY <2>1 DEF Publish, Written, QueueInv, TypeOK, ProducerInv, Whole
<1> DEFINE S == [Lines -> Items \cup {Nothing}]
           s == Contents
           t == Contents'
<1>3. t = [i \in 1 .. (tail_ + 1) - head_ |-> buffer[Slot(head_ + i - 1)]]
  <2>1. tail_' = tail_ + 1 /\ head_' = head_ /\ buffer' = buffer
    BY DEF Publish
  <2> QED
    BY <2>1 DEF Contents, Slot
<1>4. Append(s, Whole(p_item)) = t
  <2>1. s \in Seq(S) /\ Len(s) = tail_ - head_
    BY ContentsIsSeq
  <2>2. \A i \in 1 .. tail_ - head_ : s[i] = buffer[Slot(head_ + i - 1)]
    BY ContentsIsSeq
  <2>3. Whole(p_item) \in S
    BY <1>1 DEF Whole
  <2> HIDE DEF S, s, t
  <2>4. /\ Append(s, Whole(p_item)) \in Seq(S)
        /\ Len(Append(s, Whole(p_item))) = (tail_ + 1) - head_
        /\ \A i \in 1 .. Len(s) : Append(s, Whole(p_item))[i] = s[i]
        /\ Append(s, Whole(p_item))[Len(s) + 1] = Whole(p_item)
    BY <1>1, <2>1, <2>3, AppendProperties
  <2>5. ASSUME NEW i \in 1 .. (tail_ + 1) - head_
        PROVE  Append(s, Whole(p_item))[i] = buffer[Slot(head_ + i - 1)]
    <3>1. CASE i = (tail_ + 1) - head_
      <4>1. i = Len(s) + 1 /\ head_ + i - 1 = tail_
        BY <3>1, <2>1, <1>1
      <4> QED
        BY <4>1, <1>2, <2>4
    <3>2. CASE i # (tail_ + 1) - head_
      <4>1. i \in 1 .. Len(s) /\ i \in 1 .. tail_ - head_
        BY <3>2, <2>1, <1>1
      <4> QED
        BY <4>1, <2>2, <2>4
    <3> QED
      BY <3>1, <3>2
  <2>6. (tail_ + 1) - head_ \in Nat
    BY <1>1
  <2>7. \A i \in 1 .. (tail_ + 1) - head_ : t[i] = buffer[Slot(head_ + i - 1)]
    BY <1>3
  <2>8. t \in Seq(S) /\ Len(t) = (tail_ + 1) - head_
    <3>1. \A i \in 1 .. (tail_ + 1) - head_ : buffer[Slot(head_ + i - 1)] \in S
      BY <2>4, <2>5, ElementOfSeq
    <3> QED
      BY <1>3, <2>6, <3>1
  <2> QED
    BY <2>4, <2>5, <2>7, <2>8, SeqEqual
<1>5. Len(Contents) < N
  BY <1>1, ContentsIsSeq
<1>6. last' = last
  BY DEF Publish, consumerVars
<1> QED
  BY <1>1, <1>4, <1>5, <1>6 DEF Fifo!Push

(* Storing head_ removes the oldest item, and pop() returns all of it.     *)
LEMMA FreeSlotIsPop ==
  ASSUME QueueInv, FreeSlot
  PROVE  Fifo!Pop
PROOF
<1>1. head_ < tail_ /\ tail_ \in Nat /\ head_ \in Nat
  BY DEF QueueInv, TypeOK, ConsumerInv, FreeSlot
<1> DEFINE S == [Lines -> Items \cup {Nothing}]
           s == Contents
<1>2. /\ s \in Seq(S) /\ Len(s) = tail_ - head_
      /\ \A i \in 1 .. tail_ - head_ : s[i] = buffer[Slot(head_ + i - 1)]
  BY ContentsIsSeq
<1>3. c_copy = buffer[Slot(head_)]
  <2>1. Slot(head_) \in Slots
    BY SlotInRange, <1>1
  <2> QED
    BY <2>1 DEF FreeSlot, QueueInv, TypeOK, ConsumerInv
<1>4. Contents' = [i \in 1 .. tail_ - (head_ + 1) |-> buffer[Slot(head_ + 1 + i - 1)]]
  BY DEF FreeSlot, Contents, Slot
<1> HIDE DEF S, s
<1>5. s # <<>> /\ Head(s) = s[1]
  BY <1>1, <1>2
<1>6. s[1] = c_copy
  <2>1. 1 \in 1 .. tail_ - head_ /\ head_ + 1 - 1 = head_
    BY <1>1
  <2> QED
    BY <2>1, <1>2, <1>3
<1>7. /\ Tail(s) \in Seq(S)
      /\ Len(Tail(s)) = tail_ - (head_ + 1)
      /\ \A i \in 1 .. Len(Tail(s)) : Tail(s)[i] = s[i + 1]
  BY <1>1, <1>2, <1>5, HeadTailProperties
<1>8. ASSUME NEW i \in 1 .. tail_ - (head_ + 1)
      PROVE  Tail(s)[i] = buffer[Slot(head_ + 1 + i - 1)]
  <2>1. i + 1 \in 1 .. tail_ - head_ /\ head_ + (i + 1) - 1 = head_ + 1 + i - 1
    BY <1>1
  <2> QED
    BY <2>1, <1>2, <1>7
<1>9. Tail(s) = Contents'
  <2> DEFINE t == Contents'
  <2> HIDE DEF t
  <2>1. t = [i \in 1 .. tail_ - (head_ + 1) |-> buffer[Slot(head_ + 1 + i - 1)]]
    BY <1>4 DEF t
  <2>2. t \in Seq(S) /\ Len(t) = tail_ - (head_ + 1)
    <3>1. \A i \in 1 .. tail_ - (head_ + 1) : buffer[Slot(head_ + 1 + i - 1)] \in S
      BY <1>7, <1>8, ElementOfSeq
    <3>2. tail_ - (head_ + 1) \in Nat
      BY <1>1
    <3> QED
      BY <2>1, <3>1, <3>2
  <2>3. \A i \in 1 .. Len(t) : t[i] = Tail(s)[i]
    BY <1>8, <2>1, <2>2
  <2>4. t = Tail(s)
    BY <1>7, <2>2, <2>3, SeqEqual
  <2> QED
    BY <2>4 DEF t
<1>10. last' = c_copy
  BY DEF FreeSlot
<1> QED
  BY <1>5, <1>6, <1>9, <1>10 DEF Fifo!Pop, s

(* The queue is a first-in first-out queue of N whole messages, for every  *)
(* capacity and every interleaving of the two threads.                     *)
THEOREM ImplementsFifo == Spec => RefinesBoundedFifo
PROOF
<1>1. Init => Fifo!Init
  <2> SUFFICES ASSUME Init PROVE Fifo!Init
    OBVIOUS
  <2>1. Contents = <<>>
    BY DEF Init, Contents
  <2> QED
    BY <2>1 DEF Init, Fifo!Init
<1>2. ASSUME QueueInv, [Next]_vars PROVE [Fifo!Next]_Fifo!vars
  <2>1. CASE Publish
    BY <1>2, <2>1, PublishIsPush DEF Fifo!Next
  <2>2. CASE FreeSlot
    BY <1>2, <2>2, FreeSlotIsPop DEF Fifo!Next
  <2>3. ASSUME NEW line \in Lines, WriteLine(line) PROVE UNCHANGED Fifo!vars
    <3>1. UNCHANGED <<tail_, head_, last>>
      BY <2>3 DEF WriteLine, consumerVars
    <3> QED
      BY <1>2, <2>3, <3>1, Unseen, WriteElsewhere
  <2>4. CASE \/ \E x \in Items : BeginPush(x)
             \/ PushFails \/ BeginPop \/ PopFails
             \/ \E line \in Lines : CopyLine(line)
             \/ UNCHANGED vars
    <3>1. UNCHANGED <<buffer, tail_, head_, last>>
      BY <2>4 DEF BeginPush, PushFails, BeginPop, PopFails, CopyLine, vars, consumerVars
    <3> QED
      BY <1>2, <3>1, Unseen
  <2> QED
    BY <1>2, <2>1, <2>2, <2>3, <2>4 DEF Next, Producer, Consumer
<1> QED
  BY <1>1, <1>2, Inductive, PTL DEF Spec, RefinesBoundedFifo, Fifo!Spec
=============================================================================
