-------------------------- MODULE OrderBookProofs --------------------------
(***************************************************************************)
(* Proofs about OrderBook for any finite slab of orders, any ids, prices   *)
(* and clients, and any bound on quantities.  The argument: the orders of  *)
(* each level can be numbered along the links (Numbers), and their         *)
(* quantities accumulated in that order up to the level's total (Sums);    *)
(* with the index and the price maps exact, both survive an append at the  *)
(* tail and an unlink anywhere.                                            *)
(*                                                                         *)
(* And the book, seen as queues, is the limit order book: under BookInv a  *)
(* queue is determined by the places of the orders that rest in it         *)
(* (Shows), and each call changes the places the way LimitOrderBook        *)
(* changes its queues.                                                     *)
(***************************************************************************)
EXTENDS MCOrderBook, Totals, SequenceTheorems

(* `cum' accumulates the quantities of each level's orders, head first, up *)
(* to the level's total.                                                   *)
Sums(pos, cum) ==
  /\ \A s, t \in Resting : LevelOf(s) = LevelOf(t) =>
       /\ pos[s] < pos[t] => cum[s] + qty[t] <= cum[t]
       /\ pos[t] = pos[s] + 1 => cum[t] = cum[s] + qty[t]
  /\ \A s \in Resting :
       /\ pos[s] = 1 => cum[s] = qty[s]
       /\ pos[s] = order_count[LevelOf(s)] => cum[s] = total_qty[LevelOf(s)]

Structured ==
  \E pos, cum \in [OrderSlots -> Nat] : Numbers(pos) /\ Sums(pos, cum)

BookInv == BookTypeOK /\ IndexExact /\ LevelsMapped /\ Structured

-----------------------------------------------------------------------------
(* An empty book satisfies the invariant.                                  *)
LEMMA EmptyBook == BookInit => BookInv
PROOF
  <1> SUFFICES ASSUME BookInit PROVE BookInv
    OBVIOUS
  <1> USE DEF BookInit, OrderPool!Init, LevelPool!Init
  <1>1. BookTypeOK
    <2>1. order_pool_dry \in BOOLEAN /\ level_pool_dry \in BOOLEAN
      BY Zenon
    <2> QED BY <2>1, BookAssumption DEF BookTypeOK
  <1>2. Resting = {} /\ InUse = {}
    BY DEF Resting, InUse
  <1>3. IndexExact
    BY <1>2 DEF IndexExact, Found
  <1>4. LevelsMapped
    BY <1>2 DEF LevelsMapped, Side
  <1>5. Structured
    <2> DEFINE zero == [s \in OrderSlots |-> 0]
    <2>1. zero \in [OrderSlots -> Nat]
      OBVIOUS
    <2>2. Numbers(zero) /\ Sums(zero, zero)
      BY <1>2 DEF Numbers, Sums
    <2> QED BY <2>1, <2>2 DEF Structured
  <1> QED BY <1>1, <1>3, <1>4, <1>5 DEF BookInv

(* So does a reset one.                                                    *)
LEMMA ResetBook == ASSUME Reset, BookTypeOK PROVE BookInv'
PROOF
  <1> USE DEF Reset, OrderPool!Reset, LevelPool!Reset
  <1>1. BookTypeOK'
    BY BookAssumption DEF BookTypeOK
  <1>2. Resting' = {} /\ InUse' = {}
    BY DEF Resting, InUse
  <1>3. IndexExact'
    BY <1>2 DEF IndexExact, Found
  <1>4. LevelsMapped'
    BY <1>2 DEF LevelsMapped, Side
  <1>5. Structured'
    <2> DEFINE zero == [s \in OrderSlots |-> 0]
    <2>1. zero \in [OrderSlots -> Nat]
      OBVIOUS
    <2>2. Numbers(zero)' /\ Sums(zero, zero)'
      BY <1>2 DEF Numbers, Sums
    <2> QED BY <2>1, <2>2 DEF Structured
  <1> QED BY <1>1, <1>3, <1>4, <1>5 DEF BookInv

-----------------------------------------------------------------------------
(* What the invariant says of a resting order and its level.               *)
LEMMA RestingOrder ==
  ASSUME BookTypeOK, IndexExact, NEW s \in Resting
  PROVE  /\ s \in OrderSlots
         /\ data[s] \in OrderData
         /\ Found(data[s].order_id)
         /\ FindOrder(data[s].order_id) = s
         /\ LevelOf(s) \in InUse
         /\ LevelOf(s) \in LevelSlots
         /\ price_map[data[s].side][data[s].price] = LevelOf(s)
PROOF
  <1>1. s \in OrderSlots /\ data[s] \in OrderData
    BY DEF Resting, IndexExact, BookTypeOK
  <1>2. data[s].order_id \in OrderIds
    BY <1>1 DEF OrderData
  <1>3. Found(data[s].order_id) /\ FindOrder(data[s].order_id) = s
    BY DEF IndexExact
  <1> QED BY <1>1, <1>2, <1>3 DEF IndexExact, FindOrder, LevelOf, InUse

(* The ends of a level's list.                                             *)
LEMMA LevelEnds ==
  ASSUME BookTypeOK, LevelsMapped, NEW pos \in [OrderSlots -> Nat], Numbers(pos),
         NEW l \in InUse
  PROVE  /\ order_count[l] \in Nat \ {0}
         /\ head_[l] \in OrdersAt(l) /\ pos[head_[l]] = 1
         /\ tail_[l] \in OrdersAt(l) /\ pos[tail_[l]] = order_count[l]
PROOF
  <1>1. order_count[l] \in Nat \ {0}
    BY DEF BookTypeOK, LevelsMapped, InUse
  <1>2. PICK h \in OrdersAt(l) : pos[h] = 1
    BY <1>1 DEF Numbers
  <1>3. PICK t \in OrdersAt(l) : pos[t] = order_count[l]
    BY <1>1 DEF Numbers
  <1>4. head_[l] = h /\ tail_[l] = t
    BY <1>2, <1>3 DEF Numbers, OrdersAt
  <1> QED BY <1>1, <1>2, <1>3, <1>4

(* The neighbours of a resting order.                                      *)
LEMMA Neighbours ==
  ASSUME BookTypeOK, IndexExact, NEW pos \in [OrderSlots -> Nat], Numbers(pos),
         NEW s \in Resting
  PROVE  /\ pos[s] \in 1 .. order_count[LevelOf(s)]
         /\ order_count[LevelOf(s)] \in Nat
         /\ pos[s] = 1 => prev_[s] = Null
         /\ pos[s] # 1 => /\ prev_[s] \in OrdersAt(LevelOf(s))
                         /\ pos[prev_[s]] = pos[s] - 1
         /\ pos[s] = order_count[LevelOf(s)] => next_[s] = Null
         /\ pos[s] # order_count[LevelOf(s)] =>
              /\ next_[s] \in OrdersAt(LevelOf(s))
              /\ pos[next_[s]] = pos[s] + 1
PROOF
  <1> DEFINE l == LevelOf(s)
  <1>1. l \in InUse /\ l \in LevelSlots /\ s \in OrderSlots
    BY RestingOrder
  <1>2. pos[s] \in 1 .. order_count[l] /\ order_count[l] \in Nat
    BY <1>1 DEF Numbers, BookTypeOK
  <1>3. ASSUME pos[s] # 1
        PROVE  prev_[s] \in OrdersAt(l) /\ pos[prev_[s]] = pos[s] - 1
    <2>1. pos[s] - 1 \in 1 .. order_count[l]
      BY <1>2, <1>3
    <2>2. PICK t \in OrdersAt(l) : pos[t] = pos[s] - 1
      BY <1>1, <2>1 DEF Numbers
    <2>3. prev_[s] = t
      BY <2>2, <1>2 DEF Numbers, OrdersAt
    <2> QED BY <2>2, <2>3
  <1>4. ASSUME pos[s] # order_count[l]
        PROVE  next_[s] \in OrdersAt(l) /\ pos[next_[s]] = pos[s] + 1
    <2>1. pos[s] + 1 \in 1 .. order_count[l]
      BY <1>2, <1>4
    <2>2. PICK t \in OrdersAt(l) : pos[t] = pos[s] + 1
      BY <1>1, <2>1 DEF Numbers
    <2>3. next_[s] = t
      BY <2>2, <1>2 DEF Numbers, OrdersAt
    <2> QED BY <2>2, <2>3
  <1> QED BY <1>2, <1>3, <1>4 DEF Numbers

(* There is only one way to number the resting orders, so that every order *)
(* has its place.                                                          *)
LEMMA OneNumbering ==
  ASSUME BookTypeOK, IndexExact, LevelsMapped,
         NEW pos \in [OrderSlots -> Nat], Numbers(pos),
         NEW pos1 \in [OrderSlots -> Nat], Numbers(pos1)
  PROVE  \A s \in Resting : pos[s] = pos1[s]
PROOF
  <1> DEFINE holds(n) == \A s \in Resting : pos[s] = n => pos1[s] = n
             N == {n \in Nat : holds(n)}
  <1>1. \A s \in Resting : pos[s] \in Nat /\ pos[s] >= 1 /\ pos1[s] \in Nat
    BY DEF Numbers, Resting
  <1>2. 0 \in N
    BY <1>1
  <1>3. ASSUME NEW n \in Nat, n \in N PROVE n + 1 \in N
    <2> SUFFICES ASSUME NEW s \in Resting, pos[s] = n + 1 PROVE pos1[s] = n + 1
      OBVIOUS
    <2>1. CASE n = 0
      <3>1. LevelOf(s) \in InUse /\ head_[LevelOf(s)] = s
        BY <2>1, RestingOrder DEF Numbers
      <3> QED BY <2>1, <3>1, LevelEnds
    <2>2. CASE n # 0
      <3>1. prev_[s] \in OrdersAt(LevelOf(s)) /\ pos[prev_[s]] = n
        BY <2>2, Neighbours
      <3>2. prev_[s] \in Resting /\ pos1[prev_[s]] = n
        BY <1>3, <3>1 DEF OrdersAt
      <3>3. prev_[s] # Null
        BY <3>2, BookAssumption DEF Resting
      <3>4. pos1[prev_[s]] = pos1[s] - 1
        BY <3>3, Neighbours
      <3> QED BY <1>1, <3>2, <3>4
    <2> QED BY <2>1, <2>2
  <1>4. Nat \subseteq N
    <2> HIDE DEF N
    <2> QED BY <1>2, <1>3, Induct
  <1> QED BY <1>1, <1>4

(* The place of a resting order in its level's list, from 1 at the head.   *)
Numbering == CHOOSE pos \in [OrderSlots -> Nat] : Numbers(pos)

Place(s) == Numbering[s]

(* Numbering is one of the numberings the invariant says exist.            *)
LEMMA NumberingNumbers == BookInv => Numbering \in [OrderSlots -> Nat] /\ Numbers(Numbering)
PROOF
  <1> SUFFICES ASSUME BookInv
               PROVE  Numbering \in [OrderSlots -> Nat] /\ Numbers(Numbering)
    OBVIOUS
  <1>1. \E pos \in [OrderSlots -> Nat] : Numbers(pos)
    BY DEF BookInv, Structured
  <1> QED BY <1>1, Zenon DEF Numbering

(* The orders of a level are finitely many, and each is worth something.   *)
LEMMA LevelOrders ==
  ASSUME BookTypeOK, IndexExact, NEW l
  PROVE  /\ OrdersAt(l) \subseteq OrderSlots
         /\ IsFiniteSet(OrdersAt(l))
         /\ IsFiniteSet(Resting)
         /\ \A s \in Resting : qty[s] \in Quantity /\ qty[s] \in Nat \ {0}
PROOF
  <1>1. OrdersAt(l) \subseteq OrderSlots /\ Resting \subseteq OrderSlots
    BY DEF OrdersAt, Resting
  <1>2. IsFiniteSet(OrdersAt(l)) /\ IsFiniteSet(Resting)
    BY <1>1, BookAssumption, FS_Subset
  <1>3. \A s \in Resting : qty[s] \in 0 .. MaxQty /\ qty[s] > 0
    BY <1>1 DEF BookTypeOK, IndexExact
  <1> QED BY <1>1, <1>2, <1>3, BookAssumption DEF Quantity

(* A level's total covers each of its orders: what is subtracted when one  *)
(* is filled or unlinked is there.                                         *)
LEMMA TotalCovers ==
  ASSUME BookTypeOK, IndexExact, LevelsMapped,
         NEW pos \in [OrderSlots -> Nat], NEW cum \in [OrderSlots -> Nat],
         Numbers(pos), Sums(pos, cum), NEW s \in Resting
  PROVE  /\ qty[s] \in Nat
         /\ total_qty[LevelOf(s)] \in Nat
         /\ qty[s] <= cum[s]
         /\ cum[s] <= total_qty[LevelOf(s)]
PROOF
  <1> DEFINE l == LevelOf(s)
  <1>1. l \in InUse /\ l \in LevelSlots /\ s \in OrderSlots
    BY RestingOrder
  <1>2. /\ pos[s] \in 1 .. order_count[l]
        /\ order_count[l] \in Nat
    BY Neighbours
  <1>3. /\ head_[l] \in OrdersAt(l) /\ pos[head_[l]] = 1
        /\ tail_[l] \in OrdersAt(l) /\ pos[tail_[l]] = order_count[l]
    BY <1>1, LevelEnds
  <1>4. \A t \in Resting : qty[t] \in Nat /\ cum[t] \in Nat
    BY BookAssumption DEF BookTypeOK, Resting
  <1>5. qty[s] <= cum[s]
    <2>1. CASE pos[s] = 1
      BY <1>4, <2>1 DEF Sums
    <2>2. CASE pos[s] # 1
      <3>1. cum[head_[l]] + qty[s] <= cum[s]
        BY <2>2, <1>2, <1>3 DEF Sums, OrdersAt
      <3> QED BY <3>1, <1>3, <1>4 DEF OrdersAt
    <2> QED BY <2>1, <2>2
  <1>6. cum[s] <= total_qty[l]
    <2>1. cum[tail_[l]] = total_qty[l]
      BY <1>3 DEF Sums, OrdersAt
    <2>2. CASE pos[s] = order_count[l]
      BY <1>4, <2>2 DEF Sums
    <2>3. CASE pos[s] # order_count[l]
      <3>1. cum[s] + qty[tail_[l]] <= cum[tail_[l]]
        BY <2>3, <1>2, <1>3 DEF Sums, OrdersAt
      <3> QED BY <3>1, <2>1, <1>3, <1>4 DEF OrdersAt
    <2> QED BY <2>2, <2>3
  <1> QED BY <1>1, <1>4, <1>5, <1>6 DEF BookTypeOK

-----------------------------------------------------------------------------
(* add_order() leaves every other order where it is and indexed as it was. *)
LEMMA AddView ==
  ASSUME BookTypeOK, IndexExact,
         NEW o \in RestableOrder, NEW s \in OrderSlots, NEW l \in LevelSlots,
         ~Found(o.order_id),
         OrderPool!Acquire(s),
         data' = [data EXCEPT ![s] = DataOf(o)],
         order_index' = [order_index EXCEPT ![o.order_id] =
                           [order |-> s, level |-> l]]
  PROVE  /\ s \notin Resting
         /\ Resting' = Resting \cup {s}
         /\ DataOf(o) \in OrderData
         /\ data'[s] = DataOf(o)
         /\ LevelOf(s)' = l
         /\ \A t \in Resting : data'[t] = data[t] /\ LevelOf(t)' = LevelOf(t)
         /\ order_index'[o.order_id] = [order |-> s, level |-> l]
         /\ \A id \in OrderIds \ {o.order_id} : order_index'[id] = order_index[id]
         /\ data' \in [OrderSlots -> OrderData \cup {Null}]
         /\ order_index' \in [OrderIds -> Entry \cup {Null}]
         /\ order_pool' \in SUBSET OrderSlots
         /\ order_pool_dry' = order_pool_dry
PROOF
  <1>1. /\ s \notin Resting
        /\ Resting' = Resting \cup {s}
        /\ order_pool' \in SUBSET OrderSlots
        /\ order_pool_dry' = order_pool_dry
    BY DEF Resting, OrderPool!Acquire, BookTypeOK
  <1>2. o.order_id \in OrderIds /\ DataOf(o) \in OrderData
    BY DEF RestableOrder, DataOf, OrderData, TimeInForce
  <1>3. data'[s] = DataOf(o) /\ data' \in [OrderSlots -> OrderData \cup {Null}]
    BY <1>2 DEF BookTypeOK
  <1>4. /\ order_index'[o.order_id] = [order |-> s, level |-> l]
        /\ order_index' \in [OrderIds -> Entry \cup {Null}]
        /\ \A id \in OrderIds \ {o.order_id} : order_index'[id] = order_index[id]
    BY <1>2 DEF BookTypeOK, Entry
  <1>5. data'[s].order_id = o.order_id
    BY <1>3 DEF DataOf
  <1>6. LevelOf(s)' = l
    BY <1>4, <1>5 DEF LevelOf
  <1>7. ASSUME NEW t \in Resting
        PROVE  data'[t] = data[t] /\ LevelOf(t)' = LevelOf(t)
    <2>1. t \in OrderSlots /\ t # s /\ data'[t] = data[t]
      BY <1>1 DEF Resting, BookTypeOK
    <2>2. data[t] \in OrderData /\ Found(data[t].order_id)
      BY RestingOrder
    <2>3. data[t].order_id \in OrderIds \ {o.order_id}
      BY <2>2 DEF OrderData
    <2> QED BY <2>1, <2>3, <1>4 DEF LevelOf
  <1> QED BY <1>1, <1>2, <1>3, <1>4, <1>6, <1>7

(* o comes to rest in slot s; no other order is touched,                   *)
Enters(o, s) ==
  /\ s \notin Resting /\ Resting' = Resting \cup {s}
  /\ data'[s] = DataOf(o) /\ qty'[s] = o.qty
  /\ \A t \in Resting :
       data'[t] = data[t] /\ qty'[t] = qty[t] /\ LevelOf(t)' = LevelOf(t)

(* and s takes the place behind the others of its level.                   *)
Joins(pos, pos1, s) ==
  \A t \in Resting :
    pos1[t] = pos[t] /\ (LevelOf(t) = LevelOf(s)' => pos[t] < pos1[s])

(* l is the level that o's side and price are mapped to.                   *)
LevelFor(o, l) == l = price_map[o.side][o.price]

(* An order is appended to the list of a level that is already there.      *)
LEMMA RestAtLevelKeeps ==
  ASSUME BookInv, NEW o \in RestableOrder, NEW s \in OrderSlots,
         NEW l, LevelFor(o, l),
         RestAtLevel(o, s)
  PROVE  /\ BookInv' /\ Enters(o, s)
         /\ \E pos, pos1 \in [OrderSlots -> Nat] :
              Numbers(pos) /\ Numbers(pos1)' /\ Joins(pos, pos1, s)
PROOF
  <1>1. /\ BookTypeOK /\ IndexExact /\ LevelsMapped
        /\ o.order_id \in OrderIds /\ o.price \in Prices /\ o.side \in Side
        /\ o.qty \in Quantity
        /\ ~Found(o.order_id)
    BY DEF BookInv, RestableOrder, RestAtLevel
  <1>2. l \in InUse /\ l \in LevelSlots
    BY <1>1 DEF RestAtLevel, LevelsMapped, InUse, LevelFor
  <1>3. /\ s \notin Resting
        /\ Resting' = Resting \cup {s}
        /\ DataOf(o) \in OrderData
        /\ data'[s] = DataOf(o)
        /\ LevelOf(s)' = l
        /\ \A t \in Resting : data'[t] = data[t] /\ LevelOf(t)' = LevelOf(t)
        /\ order_index'[o.order_id] = [order |-> s, level |-> l]
        /\ \A id \in OrderIds \ {o.order_id} : order_index'[id] = order_index[id]
        /\ data' \in [OrderSlots -> OrderData \cup {Null}]
        /\ order_index' \in [OrderIds -> Entry \cup {Null}]
        /\ order_pool' \in SUBSET OrderSlots
        /\ order_pool_dry' = order_pool_dry
    <2>1. /\ OrderPool!Acquire(s)
          /\ data' = [data EXCEPT ![s] = DataOf(o)]
          /\ order_index' = [order_index EXCEPT ![o.order_id] =
                               [order |-> s, level |-> l]]
      BY DEF RestAtLevel, LevelFor
    <2> QED BY <1>1, <1>2, <2>1, AddView
  <1>4. /\ UNCHANGED <<level_price, price_map, level_pool, level_pool_dry>>
        /\ qty' = [qty EXCEPT ![s] = o.qty]
        /\ total_qty' = [total_qty EXCEPT ![l] = @ + o.qty]
        /\ order_count' = [order_count EXCEPT ![l] = @ + 1]
        /\ prev_' = [prev_ EXCEPT ![s] = tail_[l]]
        /\ next_' = [next_ EXCEPT ![tail_[l]] = s, ![s] = Null]
        /\ head_' = [head_ EXCEPT ![l] = IF tail_[l] = Null THEN s ELSE @]
        /\ tail_' = [tail_ EXCEPT ![l] = s]
    BY DEF RestAtLevel, AppendToLevel, LevelFor
  <1>5. BookTypeOK'
    <2>1. order_pool_dry' \in BOOLEAN /\ level_pool_dry' \in BOOLEAN
      BY <1>1, <1>3, <1>4, Zenon DEF BookTypeOK
    <2>2. o.qty \in 0 .. MaxQty
      BY <1>1 DEF Quantity
    <2>3. qty' \in [OrderSlots -> 0 .. MaxQty]
      BY <2>2, <1>1, <1>4 DEF BookTypeOK
    <2>4. /\ prev_' \in [OrderSlots -> OrderSlots \cup {Null}]
          /\ next_' \in [OrderSlots -> OrderSlots \cup {Null}]
      BY <1>1, <1>2, <1>4 DEF BookTypeOK
    <2>5. total_qty[l] + o.qty \in Nat /\ order_count[l] + 1 \in Nat
      BY <1>1, <1>2 DEF BookTypeOK, Quantity
    <2>6. /\ total_qty' \in [LevelSlots -> Nat]
          /\ order_count' \in [LevelSlots -> Nat]
          /\ head_' \in [LevelSlots -> OrderSlots \cup {Null}]
          /\ tail_' \in [LevelSlots -> OrderSlots \cup {Null}]
      BY <2>5, <1>1, <1>2, <1>4 DEF BookTypeOK
    <2> QED BY <2>1, <2>3, <2>4, <2>6, <1>1, <1>3, <1>4 DEF BookTypeOK
  <1>6. IndexExact'
    <2>1. ASSUME NEW id \in OrderIds, Found(id)'
          PROVE  (LET e == order_index[id]
                  IN  /\ e.order \in Resting
                      /\ e.level \in InUse
                      /\ data[e.order] # Null
                      /\ data[e.order].order_id = id
                      /\ price_map[data[e.order].side][data[e.order].price] = e.level)'
      <3>1. CASE id = o.order_id
        BY <3>1, <1>2, <1>3, <1>4, BookAssumption DEF DataOf, InUse, LevelFor
      <3>2. CASE id # o.order_id
        <4>1. order_index'[id] = order_index[id] /\ Found(id)
          BY <3>2, <2>1, <1>3 DEF Found
        <4> QED BY <4>1, <1>1, <1>3, <1>4 DEF IndexExact, InUse
      <3> QED BY <3>1, <3>2
    <2>2. ASSUME NEW t \in Resting'
          PROVE  (/\ data[t] # Null
                  /\ Found(data[t].order_id)
                  /\ FindOrder(data[t].order_id) = t
                  /\ qty[t] > 0)'
      <3>1. CASE t = s
        <4>1. data'[s] # Null /\ data'[s].order_id = o.order_id /\ qty'[s] > 0
          BY <1>1, <1>3, <1>4, BookAssumption DEF DataOf, Quantity, BookTypeOK
        <4>2. [order |-> s, level |-> l] # Null
          BY <1>2, BookAssumption DEF Entry
        <4> QED BY <3>1, <4>1, <4>2, <1>3 DEF Found, FindOrder
      <3>2. CASE t # s
        <4>1. t \in Resting /\ data'[t] = data[t] /\ qty'[t] = qty[t]
          BY <3>2, <2>2, <1>1, <1>3, <1>4 DEF BookTypeOK, Resting
        <4>2. /\ data[t] \in OrderData
              /\ Found(data[t].order_id) /\ FindOrder(data[t].order_id) = t
          BY <4>1, <1>1, RestingOrder
        <4>3. data[t].order_id \in OrderIds \ {o.order_id}
          BY <4>2, <1>1 DEF OrderData
        <4> QED BY <4>1, <4>2, <4>3, <1>1, <1>3 DEF IndexExact, Found, FindOrder
      <3> QED BY <3>1, <3>2
    <2> QED BY <2>1, <2>2 DEF IndexExact
  <1>7. LevelsMapped'
    BY <1>1, <1>2, <1>4 DEF LevelsMapped, InUse, BookTypeOK
  <1>8. PICK pos, cum \in [OrderSlots -> Nat] : Numbers(pos) /\ Sums(pos, cum)
    BY DEF BookInv, Structured
  <1>9. /\ s \notin Resting
         /\ Resting' = Resting \cup {s}
         /\ LevelOf(s)' = l
         /\ \A t \in Resting : LevelOf(t)' = LevelOf(t)
    BY <1>3
  <1>10. PICK count : count = order_count[l]
    OBVIOUS
  <1>11. /\ count \in Nat \ {0} /\ total_qty[l] \in Nat
        /\ tail_[l] \in OrdersAt(l) /\ pos[tail_[l]] = count
        /\ head_[l] \in OrdersAt(l) /\ pos[head_[l]] = 1
    BY <1>1, <1>2, <1>8, <1>10, LevelEnds DEF BookTypeOK
  <1>12. /\ tail_[l] # Null /\ tail_[l] # s
         /\ tail_[l] \in Resting
    BY <1>11, <1>9, BookAssumption DEF OrdersAt, Resting
  <1>13. PICK pos1, cum1 :
           /\ pos1 = [pos EXCEPT ![s] = count + 1]
           /\ cum1 = [cum EXCEPT ![s] = total_qty[l] + o.qty]
    OBVIOUS
  <1>14. /\ pos1 \in [OrderSlots -> Nat] /\ cum1 \in [OrderSlots -> Nat]
         /\ pos1[s] = count + 1 /\ cum1[s] = total_qty[l] + o.qty
         /\ \A t \in Resting : /\ t \in OrderSlots /\ t # s
                               /\ pos1[t] = pos[t] /\ cum1[t] = cum[t]
    BY <1>1, <1>9, <1>11, <1>13 DEF Resting, Quantity
  <1>15. /\ order_count'[l] = count + 1
         /\ total_qty'[l] = total_qty[l] + o.qty
         /\ tail_'[l] = s /\ head_'[l] = head_[l]
         /\ \A m \in LevelSlots \ {l} :
              /\ order_count'[m] = order_count[m] /\ total_qty'[m] = total_qty[m]
              /\ head_'[m] = head_[m] /\ tail_'[m] = tail_[m]
    BY <1>1, <1>2, <1>4, <1>12, <1>10 DEF BookTypeOK
  <1>16. /\ prev_'[s] = tail_[l] /\ next_'[s] = Null /\ qty'[s] = o.qty
         /\ next_'[tail_[l]] = s
         /\ \A t \in Resting :
              /\ prev_'[t] = prev_[t] /\ qty'[t] = qty[t]
              /\ t # tail_[l] => next_'[t] = next_[t]
    BY <1>1, <1>9, <1>4, <1>12 DEF BookTypeOK, Resting
  <1>17. \A t \in Resting :
           /\ LevelOf(t) \in InUse /\ LevelOf(t) \in LevelSlots
           /\ pos[t] \in 1 .. order_count[LevelOf(t)]
           /\ order_count[LevelOf(t)] \in Nat
           /\ cum[t] <= total_qty[LevelOf(t)]
           /\ cum[t] \in Nat /\ qty[t] \in Nat
    BY <1>1, <1>8, RestingOrder, Neighbours, TotalCovers
  <1>18. Numbers(pos1)'
    <2>1. ASSUME NEW t \in Resting'
          PROVE  pos1[t] \in 1 .. order_count'[LevelOf(t)']
      <3>1. CASE t = s
        BY <3>1, <1>9, <1>11, <1>14, <1>15
      <3>2. CASE t \in Resting
        <4>1. LevelOf(t)' = LevelOf(t) /\ pos1[t] = pos[t]
          BY <3>2, <1>9, <1>14
        <4>2. order_count'[LevelOf(t)] \in {order_count[LevelOf(t)], order_count[LevelOf(t)] + 1}
          BY <3>2, <1>15, <1>17, <1>10
        <4> QED BY <3>2, <4>1, <4>2, <1>17
      <3> QED BY <3>1, <3>2, <1>9
    <2>2. ASSUME NEW m \in InUse', NEW k \in 1 .. order_count'[m]
          PROVE  \E t \in OrdersAt(m)' : pos1[t] = k
      <3>1. m \in InUse /\ m \in LevelSlots
        BY <1>4 DEF InUse
      <3>2. CASE m = l /\ k = count + 1
        BY <3>2, <1>9, <1>14 DEF OrdersAt
      <3>3. CASE ~(m = l /\ k = count + 1)
        <4>1. k \in 1 .. order_count[m]
          BY <3>1, <3>3, <1>11, <1>15, <1>10
        <4>2. PICK t \in OrdersAt(m) : pos[t] = k
          BY <3>1, <4>1, <1>8 DEF Numbers
        <4> QED BY <4>2, <1>9, <1>14 DEF OrdersAt
      <3> QED BY <3>2, <3>3
    <2>3. ASSUME NEW t \in Resting', NEW u \in Resting', LevelOf(t)' = LevelOf(u)'
          PROVE  /\ pos1[t] = pos1[u] => t = u
                 /\ pos1[u] = pos1[t] + 1 => next_'[t] = u /\ prev_'[u] = t
      <3>1. CASE t \in Resting /\ u \in Resting
        <4>1. LevelOf(t) = LevelOf(u) /\ pos1[t] = pos[t] /\ pos1[u] = pos[u]
          BY <3>1, <2>3, <1>9, <1>14
        <4>2. pos[u] = pos[t] + 1 => t # tail_[l]
          BY <3>1, <4>1, <1>11, <1>17, <1>10 DEF OrdersAt
        <4> QED BY <3>1, <4>1, <4>2, <1>8, <1>16 DEF Numbers
      <3>2. CASE t = s /\ u \in Resting
        <4>1. LevelOf(u) = l /\ pos1[u] = pos[u] /\ pos[u] \in 1 .. count
          BY <3>2, <2>3, <1>9, <1>10, <1>14, <1>17
        <4> QED BY <3>2, <4>1, <1>11, <1>14
      <3>3. CASE t \in Resting /\ u = s
        <4>1. LevelOf(t) = l /\ pos1[t] = pos[t] /\ pos[t] \in 1 .. count
          BY <3>3, <2>3, <1>9, <1>14, <1>17, <1>10
        <4>2. pos[t] = count => t = tail_[l]
          BY <3>3, <4>1, <1>8, <1>11 DEF Numbers, OrdersAt
        <4> QED BY <3>3, <4>1, <4>2, <1>11, <1>14, <1>16
      <3>4. CASE t = s /\ u = s
        BY <3>4, <1>11, <1>14
      <3> QED BY <3>1, <3>2, <3>3, <3>4, <1>9
    <2>4. ASSUME NEW t \in Resting'
          PROVE  /\ pos1[t] = 1 => prev_'[t] = Null /\ head_'[LevelOf(t)'] = t
                 /\ pos1[t] = order_count'[LevelOf(t)'] =>
                      next_'[t] = Null /\ tail_'[LevelOf(t)'] = t
      <3>1. CASE t = s
        BY <3>1, <1>9, <1>11, <1>14, <1>15, <1>16
      <3>2. CASE t \in Resting /\ LevelOf(t) = l
        <4>1. LevelOf(t)' = l /\ pos1[t] = pos[t] /\ pos[t] \in 1 .. count
          BY <3>2, <1>9, <1>14, <1>17, <1>10
        <4>2. pos[t] = 1 => prev_[t] = Null /\ head_[l] = t
          BY <3>2, <1>8 DEF Numbers
        <4> QED BY <3>2, <4>1, <4>2, <1>11, <1>15, <1>16
      <3>3. CASE t \in Resting /\ LevelOf(t) # l
        <4>1. t # tail_[l]
          BY <3>3, <1>11 DEF OrdersAt
        <4> QED BY <3>3, <4>1, <1>9, <1>8, <1>14, <1>15, <1>16, <1>17 DEF Numbers
      <3> QED BY <3>1, <3>2, <3>3, <1>9
    <2> QED BY <2>1, <2>2, <2>3, <2>4 DEF Numbers
  <1>19. Sums(pos1, cum1)'
    <2>1. ASSUME NEW t \in Resting', NEW u \in Resting', LevelOf(t)' = LevelOf(u)'
          PROVE  /\ pos1[t] < pos1[u] => cum1[t] + qty'[u] <= cum1[u]
                 /\ pos1[u] = pos1[t] + 1 => cum1[u] = cum1[t] + qty'[u]
      <3>1. CASE t \in Resting /\ u \in Resting
        BY <3>1, <2>1, <1>9, <1>8, <1>14, <1>16 DEF Sums
      <3>2. CASE t = s /\ u \in Resting
        <4>1. LevelOf(u) = l /\ pos1[u] = pos[u] /\ pos[u] \in 1 .. count
          BY <3>2, <2>1, <1>9, <1>10, <1>14, <1>17
        <4> QED BY <3>2, <4>1, <1>11, <1>14
      <3>3. CASE t \in Resting /\ u = s
        <4>1. LevelOf(t) = l /\ pos1[t] = pos[t] /\ cum1[t] = cum[t]
              /\ qty'[s] = o.qty
          BY <3>3, <2>1, <1>9, <1>14, <1>16
        <4>2. cum[t] <= total_qty[l] /\ cum[t] \in Nat /\ pos[t] \in 1 .. count
          BY <3>3, <4>1, <1>17, <1>10
        <4>3. pos[t] = count => cum[t] = total_qty[l]
          BY <3>3, <4>1, <1>8, <1>10 DEF Sums
        <4> QED BY <3>3, <4>1, <4>2, <4>3, <1>1, <1>11, <1>14 DEF Quantity
      <3>4. CASE t = s /\ u = s
        BY <3>4, <1>11, <1>14
      <3> QED BY <3>1, <3>2, <3>3, <3>4, <1>9
    <2>2. ASSUME NEW t \in Resting'
          PROVE  /\ pos1[t] = 1 => cum1[t] = qty'[t]
                 /\ pos1[t] = order_count'[LevelOf(t)'] =>
                      cum1[t] = total_qty'[LevelOf(t)']
      <3>1. CASE t = s
        BY <3>1, <1>9, <1>11, <1>14, <1>15
      <3>2. CASE t \in Resting /\ LevelOf(t) = l
        <4>1. /\ LevelOf(t)' = l /\ pos1[t] = pos[t] /\ cum1[t] = cum[t]
              /\ pos[t] \in 1 .. count
          BY <3>2, <1>9, <1>14, <1>17, <1>10
        <4>2. pos[t] = 1 => cum[t] = qty[t]
          BY <3>2, <1>8 DEF Sums
        <4> QED BY <3>2, <4>1, <4>2, <1>11, <1>15, <1>16
      <3>3. CASE t \in Resting /\ LevelOf(t) # l
        BY <3>3, <1>9, <1>8, <1>14, <1>15, <1>16, <1>17 DEF Sums
      <3> QED BY <3>1, <3>2, <3>3, <1>9
    <2> QED BY <2>1, <2>2 DEF Sums
  <1>20. Structured'
    BY <1>14, <1>18, <1>19 DEF Structured
  <1>21. Enters(o, s)
    BY <1>3, <1>16 DEF Enters
  <1>22. Joins(pos, pos1, s)
    BY <1>9, <1>10, <1>11, <1>14, <1>17 DEF Joins
  <1> QED BY <1>5, <1>6, <1>7, <1>8, <1>14, <1>18, <1>20, <1>21, <1>22 DEF BookInv

(* An order is rested alone at a new level.                                *)
LEMMA RestAtNewLevelKeeps ==
  ASSUME BookInv, NEW o \in RestableOrder, NEW s \in OrderSlots,
         NEW l \in LevelSlots, RestAtNewLevel(o, s, l)
  PROVE  /\ BookInv' /\ Enters(o, s)
         /\ \E pos, pos1 \in [OrderSlots -> Nat] :
              Numbers(pos) /\ Numbers(pos1)' /\ Joins(pos, pos1, s)
PROOF
  <1>1. /\ BookTypeOK /\ IndexExact /\ LevelsMapped
        /\ o.order_id \in OrderIds /\ o.price \in Prices /\ o.side \in Side
        /\ o.qty \in Quantity
        /\ ~Found(o.order_id)
    BY DEF BookInv, RestableOrder, RestAtNewLevel
  <1>2. /\ l \notin InUse
        /\ InUse' = InUse \cup {l}
        /\ level_pool' \in SUBSET LevelSlots
        /\ level_pool_dry' = level_pool_dry
    BY <1>1 DEF RestAtNewLevel, LevelPool!Acquire, InUse, BookTypeOK
  <1>3. /\ s \notin Resting
        /\ Resting' = Resting \cup {s}
        /\ DataOf(o) \in OrderData
        /\ data'[s] = DataOf(o)
        /\ LevelOf(s)' = l
        /\ \A t \in Resting : data'[t] = data[t] /\ LevelOf(t)' = LevelOf(t)
        /\ order_index'[o.order_id] = [order |-> s, level |-> l]
        /\ \A id \in OrderIds \ {o.order_id} : order_index'[id] = order_index[id]
        /\ data' \in [OrderSlots -> OrderData \cup {Null}]
        /\ order_index' \in [OrderIds -> Entry \cup {Null}]
        /\ order_pool' \in SUBSET OrderSlots
        /\ order_pool_dry' = order_pool_dry
    <2>1. /\ OrderPool!Acquire(s)
          /\ data' = [data EXCEPT ![s] = DataOf(o)]
          /\ order_index' = [order_index EXCEPT ![o.order_id] =
                               [order |-> s, level |-> l]]
      BY DEF RestAtNewLevel
    <2> QED BY <1>1, <2>1, AddView
  <1>4. /\ price_map' = [price_map EXCEPT ![o.side][o.price] = l]
        /\ price_map[o.side][o.price] = Null
        /\ level_price' = [level_price EXCEPT ![l] = o.price]
        /\ qty' = [qty EXCEPT ![s] = o.qty]
        /\ total_qty' = [total_qty EXCEPT ![l] = o.qty]
        /\ order_count' = [order_count EXCEPT ![l] = 1]
        /\ prev_' = [prev_ EXCEPT ![s] = Null]
        /\ next_' = [next_ EXCEPT ![s] = Null]
        /\ head_' = [head_ EXCEPT ![l] = s]
        /\ tail_' = [tail_ EXCEPT ![l] = s]
    BY DEF RestAtNewLevel
  <1>5. BookTypeOK'
    <2>1. order_pool_dry' \in BOOLEAN /\ level_pool_dry' \in BOOLEAN
      BY <1>1, <1>2, <1>3, Zenon DEF BookTypeOK
    <2>2. /\ qty' \in [OrderSlots -> 0 .. MaxQty]
          /\ prev_' \in [OrderSlots -> OrderSlots \cup {Null}]
          /\ next_' \in [OrderSlots -> OrderSlots \cup {Null}]
      BY <1>1, <1>4 DEF BookTypeOK, Quantity
    <2>3. /\ total_qty' \in [LevelSlots -> Nat]
          /\ order_count' \in [LevelSlots -> Nat]
          /\ level_price' \in [LevelSlots -> Prices \cup {Null}]
          /\ head_' \in [LevelSlots -> OrderSlots \cup {Null}]
          /\ tail_' \in [LevelSlots -> OrderSlots \cup {Null}]
      BY <1>1, <1>4 DEF BookTypeOK, Quantity
    <2>4. price_map' \in [Side -> [Prices -> LevelSlots \cup {Null}]]
      BY <1>1, <1>4 DEF BookTypeOK
    <2> QED BY <2>1, <2>2, <2>3, <2>4, <1>2, <1>3 DEF BookTypeOK
  <1>6. /\ price_map'[o.side][o.price] = l
        /\ \A side \in Side, p \in Prices :
             ~(side = o.side /\ p = o.price) => price_map'[side][p] = price_map[side][p]
        /\ l # Null
    BY <1>1, <1>4, BookAssumption DEF BookTypeOK
  <1>7. IndexExact'
    <2>1. ASSUME NEW id \in OrderIds, Found(id)'
          PROVE  (LET e == order_index[id]
                  IN  /\ e.order \in Resting
                      /\ e.level \in InUse
                      /\ data[e.order] # Null
                      /\ data[e.order].order_id = id
                      /\ price_map[data[e.order].side][data[e.order].price] = e.level)'
      <3>1. CASE id = o.order_id
        BY <3>1, <1>2, <1>3, <1>6, BookAssumption DEF DataOf
      <3>2. CASE id # o.order_id
        <4>1. order_index'[id] = order_index[id] /\ Found(id)
          BY <3>2, <2>1, <1>3 DEF Found
        <4> DEFINE t == order_index[id].order
        <4>2. /\ t \in Resting /\ data'[t] = data[t]
              /\ data[t] \in OrderData
              /\ data[t].side \in Side /\ data[t].price \in Prices
          BY <4>1, <1>1, <1>3, RestingOrder DEF IndexExact, OrderData
        <4>3. price_map[data[t].side][data[t].price] = order_index[id].level
              /\ order_index[id].level \in InUse
          BY <4>1, <1>1 DEF IndexExact
        <4>4. ~(data[t].side = o.side /\ data[t].price = o.price)
          BY <4>3, <1>4, BookAssumption DEF InUse
        <4>5. price_map'[data[t].side][data[t].price] = order_index[id].level
          BY <4>2, <4>3, <4>4, <1>6
        <4> QED BY <4>1, <4>2, <4>3, <4>5, <1>1, <1>2, <1>3 DEF IndexExact
      <3> QED BY <3>1, <3>2
    <2>2. ASSUME NEW t \in Resting'
          PROVE  (/\ data[t] # Null
                  /\ Found(data[t].order_id)
                  /\ FindOrder(data[t].order_id) = t
                  /\ qty[t] > 0)'
      <3>1. CASE t = s
        <4>1. data'[s] # Null /\ data'[s].order_id = o.order_id /\ qty'[s] > 0
          BY <1>1, <1>3, <1>4, BookAssumption DEF DataOf, Quantity, BookTypeOK
        <4>2. [order |-> s, level |-> l] # Null
          BY BookAssumption DEF Entry
        <4> QED BY <3>1, <4>1, <4>2, <1>3 DEF Found, FindOrder
      <3>2. CASE t # s
        <4>1. t \in Resting /\ data'[t] = data[t] /\ qty'[t] = qty[t]
          BY <3>2, <2>2, <1>1, <1>3, <1>4 DEF BookTypeOK, Resting
        <4>2. /\ data[t] \in OrderData
              /\ Found(data[t].order_id) /\ FindOrder(data[t].order_id) = t
          BY <4>1, <1>1, RestingOrder
        <4>3. data[t].order_id \in OrderIds \ {o.order_id}
          BY <4>2, <1>1 DEF OrderData
        <4> QED BY <4>1, <4>2, <4>3, <1>1, <1>3 DEF IndexExact, Found, FindOrder
      <3> QED BY <3>1, <3>2
    <2> QED BY <2>1, <2>2 DEF IndexExact
  <1>8. LevelsMapped'
    <2>1. \A side \in Side, p \in Prices : price_map'[side][p] # Null =>
            /\ price_map'[side][p] \in InUse'
            /\ level_price'[price_map'[side][p]] = p
      BY <1>1, <1>2, <1>4, <1>6 DEF LevelsMapped, BookTypeOK
    <2>2. \A m \in InUse' : \E side \in Side, p \in Prices : price_map'[side][p] = m
      <3>1. ASSUME NEW m \in InUse
            PROVE  \E side \in Side, p \in Prices : price_map'[side][p] = m
        <4>1. PICK side \in Side, p \in Prices : price_map[side][p] = m
          BY <1>1 DEF LevelsMapped
        <4>2. m # Null
          BY BookAssumption DEF InUse
        <4> QED BY <4>1, <4>2, <1>4, <1>6
      <3> QED BY <3>1, <1>1, <1>2, <1>6
    <2>3. \A p, q \in Prices :
            price_map'["BUY"][p] = price_map'["SELL"][q] => price_map'["BUY"][p] = Null
      <3>1. \A side \in Side, p \in Prices : price_map[side][p] # l
        BY <1>1, <1>2, <1>6 DEF LevelsMapped
      <3>2. "BUY" \in Side /\ "SELL" \in Side
        BY DEF Side
      <3> QED BY <3>1, <3>2, <1>1, <1>6 DEF LevelsMapped
    <2>4. \A m \in InUse' : order_count'[m] > 0
      BY <1>1, <1>2, <1>4 DEF LevelsMapped, BookTypeOK, InUse
    <2> QED BY <2>1, <2>2, <2>3, <2>4 DEF LevelsMapped
  <1>9. PICK pos, cum \in [OrderSlots -> Nat] : Numbers(pos) /\ Sums(pos, cum)
    BY DEF BookInv, Structured
  <1>10. PICK pos1, cum1 : /\ pos1 = [pos EXCEPT ![s] = 1]
                           /\ cum1 = [cum EXCEPT ![s] = o.qty]
    OBVIOUS
  <1>11. /\ pos1 \in [OrderSlots -> Nat] /\ cum1 \in [OrderSlots -> Nat]
         /\ pos1[s] = 1 /\ cum1[s] = o.qty
         /\ \A t \in Resting : pos1[t] = pos[t] /\ cum1[t] = cum[t]
    BY <1>1, <1>3, <1>10 DEF Resting, Quantity
  <1>12. /\ order_count'[l] = 1 /\ total_qty'[l] = o.qty
         /\ tail_'[l] = s /\ head_'[l] = s
         /\ prev_'[s] = Null /\ next_'[s] = Null /\ qty'[s] = o.qty
    BY <1>1, <1>4 DEF BookTypeOK
  <1>13. \A t \in Resting :
           /\ LevelOf(t) \in InUse /\ LevelOf(t) # l /\ LevelOf(t)' = LevelOf(t)
           /\ prev_'[t] = prev_[t] /\ next_'[t] = next_[t] /\ qty'[t] = qty[t]
           /\ order_count'[LevelOf(t)] = order_count[LevelOf(t)]
           /\ total_qty'[LevelOf(t)] = total_qty[LevelOf(t)]
           /\ head_'[LevelOf(t)] = head_[LevelOf(t)]
           /\ tail_'[LevelOf(t)] = tail_[LevelOf(t)]
    BY <1>1, <1>2, <1>3, <1>4, RestingOrder DEF BookTypeOK, Resting
  <1>14. Numbers(pos1)'
    <2>1. \A t \in Resting' : pos1[t] \in 1 .. order_count'[LevelOf(t)']
      BY <1>3, <1>9, <1>11, <1>12, <1>13 DEF Numbers
    <2>2. ASSUME NEW m \in InUse', NEW k \in 1 .. order_count'[m]
          PROVE  \E t \in OrdersAt(m)' : pos1[t] = k
      <3>1. CASE m = l
        BY <3>1, <1>3, <1>11, <1>12 DEF OrdersAt
      <3>2. CASE m # l
        <4>1. m \in InUse /\ order_count'[m] = order_count[m]
          BY <3>2, <1>1, <1>2, <1>4 DEF BookTypeOK, InUse
        <4>2. PICK t \in OrdersAt(m) : pos[t] = k
          BY <4>1, <1>9 DEF Numbers
        <4> QED BY <4>2, <1>3, <1>11 DEF OrdersAt
      <3> QED BY <3>1, <3>2
    <2>3. ASSUME NEW t \in Resting', NEW u \in Resting', LevelOf(t)' = LevelOf(u)'
          PROVE  /\ pos1[t] = pos1[u] => t = u
                 /\ pos1[u] = pos1[t] + 1 => next_'[t] = u /\ prev_'[u] = t
      BY <2>3, <1>3, <1>9, <1>11, <1>13 DEF Numbers
    <2>4. ASSUME NEW t \in Resting'
          PROVE  /\ pos1[t] = 1 => prev_'[t] = Null /\ head_'[LevelOf(t)'] = t
                 /\ pos1[t] = order_count'[LevelOf(t)'] =>
                      next_'[t] = Null /\ tail_'[LevelOf(t)'] = t
      BY <1>3, <1>9, <1>11, <1>12, <1>13 DEF Numbers
    <2> QED BY <2>1, <2>2, <2>3, <2>4 DEF Numbers
  <1>15. Sums(pos1, cum1)'
    <2>1. ASSUME NEW t \in Resting', NEW u \in Resting', LevelOf(t)' = LevelOf(u)'
          PROVE  /\ pos1[t] < pos1[u] => cum1[t] + qty'[u] <= cum1[u]
                 /\ pos1[u] = pos1[t] + 1 => cum1[u] = cum1[t] + qty'[u]
      BY <2>1, <1>3, <1>9, <1>11, <1>13 DEF Sums
    <2>2. ASSUME NEW t \in Resting'
          PROVE  /\ pos1[t] = 1 => cum1[t] = qty'[t]
                 /\ pos1[t] = order_count'[LevelOf(t)'] =>
                      cum1[t] = total_qty'[LevelOf(t)']
      BY <1>3, <1>9, <1>11, <1>12, <1>13 DEF Sums
    <2> QED BY <2>1, <2>2 DEF Sums
  <1>16. Structured'
    BY <1>11, <1>14, <1>15 DEF Structured
  <1>17. Enters(o, s)
    BY <1>3, <1>12, <1>13 DEF Enters
  <1>18. Joins(pos, pos1, s)
    BY <1>3, <1>11, <1>13 DEF Joins
  <1> QED BY <1>5, <1>7, <1>8, <1>9, <1>11, <1>14, <1>16, <1>17, <1>18 DEF BookInv

-----------------------------------------------------------------------------
(* The order and the level that the index holds for id.                    *)
EntryOf(id, s, l) == s = order_index[id].order /\ l = order_index[id].level

(* What a cancelled order was.                                             *)
LEMMA FoundOrder ==
  ASSUME BookTypeOK, IndexExact, NEW id \in OrderIds, Found(id),
         NEW s, NEW l, EntryOf(id, s, l)
  PROVE  /\ s \in Resting /\ s \in OrderSlots
         /\ l \in InUse /\ l \in LevelSlots
         /\ data[s] \in OrderData
         /\ data[s].order_id = id
         /\ data[s].side \in Side /\ data[s].price \in Prices
         /\ price_map[data[s].side][data[s].price] = l
         /\ LevelOf(s) = l
PROOF
  <1>1. /\ s \in Resting /\ l \in InUse
        /\ data[s].order_id = id
        /\ price_map[data[s].side][data[s].price] = l
    BY DEF IndexExact, EntryOf
  <1>2. data[s] \in OrderData /\ s \in OrderSlots
    BY <1>1, RestingOrder
  <1>3. data[s].side \in Side /\ data[s].price \in Prices
    BY <1>2 DEF OrderData
  <1> QED BY <1>1, <1>2, <1>3 DEF LevelOf, InUse, EntryOf

(* When s leaves, the later orders of its level move up by one place.      *)
MovesUp(pos, pos1, s) ==
  \A t \in Resting \ {s} :
    pos1[t] = IF LevelOf(t) = LevelOf(s) /\ pos[t] > pos[s] THEN pos[t] - 1 ELSE pos[t]

(* cancel_order() leaves every other order where it is and indexed as it   *)
(* was.                                                                    *)
LEMMA CancelView ==
  ASSUME BookTypeOK, IndexExact, NEW id \in OrderIds,
         NEW s, NEW l, EntryOf(id, s, l), NEW quantity, NEW totals,
         CancelWith(id, quantity, totals)
  PROVE  /\ Resting' = Resting \ {s}
         /\ \A t \in Resting' :
              /\ t \in Resting /\ t # s /\ t \in OrderSlots
              /\ data'[t] = data[t] /\ data[t] \in OrderData
              /\ data[t].order_id \in OrderIds \ {id}
              /\ LevelOf(t)' = LevelOf(t)
         /\ order_index'[id] = Null
         /\ \A i \in OrderIds \ {id} : order_index'[i] = order_index[i]
         /\ data' \in [OrderSlots -> OrderData \cup {Null}]
         /\ order_index' \in [OrderIds -> Entry \cup {Null}]
         /\ order_pool' \in SUBSET OrderSlots
         /\ order_pool_dry' = order_pool_dry
PROOF
  <1> /\ OrderPool!Release(s)
      /\ data' = [data EXCEPT ![s] = Null]
      /\ order_index' = [order_index EXCEPT ![id] = Null]
    BY DEF CancelWith, EntryOf
  <1>1. /\ Resting' = Resting \ {s}
        /\ order_pool' \in SUBSET OrderSlots
        /\ order_pool_dry' = order_pool_dry
    BY DEF Resting, OrderPool!Release, BookTypeOK
  <1>2. /\ order_index'[id] = Null
        /\ \A i \in OrderIds \ {id} : order_index'[i] = order_index[i]
        /\ data' \in [OrderSlots -> OrderData \cup {Null}]
        /\ order_index' \in [OrderIds -> Entry \cup {Null}]
    BY DEF BookTypeOK
  <1>3. ASSUME NEW t \in Resting'
        PROVE  /\ t \in Resting /\ t # s /\ t \in OrderSlots
               /\ data'[t] = data[t] /\ data[t] \in OrderData
               /\ data[t].order_id \in OrderIds \ {id}
               /\ LevelOf(t)' = LevelOf(t)
    <2>1. t \in Resting /\ t # s /\ t \in OrderSlots
      BY <1>1, <1>3 DEF Resting
    <2>2. data'[t] = data[t]
      BY <2>1 DEF BookTypeOK
    <2>3. data[t] \in OrderData /\ FindOrder(data[t].order_id) = t
      BY <2>1, RestingOrder
    <2>4. data[t].order_id \in OrderIds \ {id}
      BY <2>1, <2>3 DEF OrderData, FindOrder, EntryOf
    <2> QED BY <2>1, <2>2, <2>3, <2>4, <1>2 DEF LevelOf
  <1> QED BY <1>1, <1>2, <1>3

(* The index stays exact when an order leaves, provided the levels of the  *)
(* others stay mapped.                                                     *)
LEMMA CancelKeepsIndex ==
  ASSUME BookTypeOK, IndexExact, NEW id \in OrderIds, Found(id),
         NEW s, NEW l, EntryOf(id, s, l),
         Resting' = Resting \ {s},
         order_index'[id] = Null,
         \A i \in OrderIds \ {id} : order_index'[i] = order_index[i],
         \A t \in Resting' :
           /\ data'[t] = data[t]
           /\ data[t].order_id \in OrderIds \ {id}
           /\ LevelOf(t) \in InUse'
           /\ price_map'[data[t].side][data[t].price] = LevelOf(t)
           /\ qty'[t] = qty[t]
  PROVE  IndexExact'
PROOF
  <1>1. ASSUME NEW i \in OrderIds, Found(i)'
        PROVE  (LET e == order_index[i]
                IN  /\ e.order \in Resting
                    /\ e.level \in InUse
                    /\ data[e.order] # Null
                    /\ data[e.order].order_id = i
                    /\ price_map[data[e.order].side][data[e.order].price] = e.level)'
    <2>1. i # id /\ order_index'[i] = order_index[i] /\ Found(i)
      BY <1>1 DEF Found
    <2>2. PICK t : t = order_index[i].order
      OBVIOUS
    <2>3. t \in Resting /\ data[t] # Null /\ data[t].order_id = i
      BY <2>1, <2>2 DEF IndexExact
    <2>4. t # s
      BY <2>1, <2>3 DEF IndexExact
    <2>5. LevelOf(t) = order_index[i].level
      BY <2>3 DEF LevelOf
    <2>6. t \in Resting' /\ data'[t] = data[t]
      BY <2>3, <2>4
    <2> QED BY <2>1, <2>3, <2>5, <2>2, <2>6
  <1>2. ASSUME NEW t \in Resting'
        PROVE  (/\ data[t] # Null
                /\ Found(data[t].order_id)
                /\ FindOrder(data[t].order_id) = t
                /\ qty[t] > 0)'
    <2>1. t \in Resting /\ data'[t] = data[t] /\ qty'[t] = qty[t]
      BY <1>2
    <2>2. order_index'[data[t].order_id] = order_index[data[t].order_id]
      BY <1>2
    <2> QED BY <2>1, <2>2 DEF IndexExact, Found, FindOrder
  <1> QED BY <1>1, <1>2 DEF IndexExact

(* The last order of a level leaves, and the level with it.                *)
LEMMA CancelLastKeeps ==
  ASSUME BookInv, NEW id \in OrderIds,
         NEW s, NEW l, EntryOf(id, s, l),
         NEW quantity \in [OrderSlots -> 0 .. MaxQty],
         NEW totals \in [LevelSlots -> Nat],
         \A t \in OrderSlots \ {s} : quantity[t] = qty[t],
         \A m \in LevelSlots \ {l} : totals[m] = total_qty[m],
         CancelWith(id, quantity, totals), Emptied(l)
  PROVE  /\ BookInv'
         /\ \E pos, pos1 \in [OrderSlots -> Nat] :
              Numbers(pos) /\ Numbers(pos1)' /\ MovesUp(pos, pos1, s)
PROOF
  <1>1. BookTypeOK /\ IndexExact /\ LevelsMapped /\ Found(id)
    BY DEF BookInv, CancelWith
  <1>2. /\ s \in Resting /\ s \in OrderSlots
        /\ l \in InUse /\ l \in LevelSlots
        /\ data[s] \in OrderData
        /\ data[s].order_id = id
        /\ data[s].side \in Side /\ data[s].price \in Prices
        /\ price_map[data[s].side][data[s].price] = l
        /\ LevelOf(s) = l
    BY <1>1, FoundOrder
  <1>3. /\ Unlink(s)
        /\ order_index' = [order_index EXCEPT ![id] = Null]
        /\ OrderPool!Release(s)
        /\ data' = [data EXCEPT ![s] = Null]
        /\ qty' = [quantity EXCEPT ![s] = 0]
        /\ price_map' = [price_map EXCEPT ![data[s].side][level_price[l]] = Null]
        /\ LevelPool!Release(l)
        /\ level_price' = [level_price EXCEPT ![l] = Null]
        /\ total_qty' = [totals EXCEPT ![l] = 0]
        /\ order_count' = [order_count EXCEPT ![l] = 0]
        /\ head_' = [head_ EXCEPT ![l] = Null]
        /\ tail_' = [tail_ EXCEPT ![l] = Null]
    BY DEF CancelWith, EntryOf
  <1>4. /\ Resting' = Resting \ {s}
        /\ \A t \in Resting' :
             /\ t \in Resting /\ t # s /\ t \in OrderSlots
             /\ data'[t] = data[t] /\ data[t] \in OrderData
             /\ data[t].order_id \in OrderIds \ {id}
             /\ LevelOf(t)' = LevelOf(t)
        /\ order_index'[id] = Null
        /\ \A i \in OrderIds \ {id} : order_index'[i] = order_index[i]
        /\ data' \in [OrderSlots -> OrderData \cup {Null}]
        /\ order_index' \in [OrderIds -> Entry \cup {Null}]
        /\ order_pool' \in SUBSET OrderSlots
        /\ order_pool_dry' = order_pool_dry
    BY <1>1, CancelView
  <1>5. /\ InUse' = InUse \ {l}
        /\ level_pool' \in SUBSET LevelSlots
        /\ level_pool_dry' = level_pool_dry
    BY <1>1, <1>3 DEF LevelPool!Release, InUse, BookTypeOK
  <1>6. BookTypeOK'
    <2>1. order_pool_dry' \in BOOLEAN /\ level_pool_dry' \in BOOLEAN
      BY <1>1, <1>4, <1>5, Zenon DEF BookTypeOK
    <2>2. /\ prev_' \in [OrderSlots -> OrderSlots \cup {Null}]
          /\ next_' \in [OrderSlots -> OrderSlots \cup {Null}]
      BY <1>1, <1>2, <1>3 DEF BookTypeOK, Unlink
    <2>3. price_map' \in [Side -> [Prices -> LevelSlots \cup {Null}]]
      BY <1>1, <1>2, <1>3 DEF BookTypeOK
    <2>4. /\ qty' \in [OrderSlots -> 0 .. MaxQty]
          /\ total_qty' \in [LevelSlots -> Nat]
      <3>1. 0 \in 0 .. MaxQty
        BY BookAssumption
      <3> QED BY <3>1, <1>2, <1>3
    <2>5. /\ level_price' \in [LevelSlots -> Prices \cup {Null}]
          /\ order_count' \in [LevelSlots -> Nat]
          /\ head_' \in [LevelSlots -> OrderSlots \cup {Null}]
          /\ tail_' \in [LevelSlots -> OrderSlots \cup {Null}]
      BY <1>1, <1>2, <1>3 DEF BookTypeOK
    <2> QED BY <2>1, <2>2, <2>3, <2>4, <2>5, <1>4, <1>5 DEF BookTypeOK
  <1>7. PICK pos, cum \in [OrderSlots -> Nat] : Numbers(pos) /\ Sums(pos, cum)
    BY DEF BookInv, Structured
  <1>8. order_count[l] = 1
    BY <1>1, <1>2 DEF Emptied, BookTypeOK
  <1>9. \A t \in Resting : LevelOf(t) = l => t = s
    <2>1. \A t \in Resting : LevelOf(t) = l => pos[t] = 1
      BY <1>7, <1>8 DEF Numbers
    <2> QED BY <2>1, <1>2, <1>7 DEF Numbers
  <1>10. /\ level_price[l] = data[s].price
         /\ l # Null
         /\ price_map'[data[s].side][data[s].price] = Null
         /\ \A side \in Side, p \in Prices :
              ~(side = data[s].side /\ p = data[s].price)
                => price_map'[side][p] = price_map[side][p]
    <2>1. l # Null
      BY <1>2, BookAssumption
    <2>2. level_price[l] = data[s].price
      BY <2>1, <1>1, <1>2 DEF LevelsMapped
    <2>3. price_map' = [price_map EXCEPT ![data[s].side][data[s].price] = Null]
      BY <2>2, <1>3
    <2> QED BY <2>1, <2>2, <2>3, <1>1, <1>2 DEF BookTypeOK
  <1>11. \A side \in Side, p \in Prices : price_map'[side][p] # l
    <2>1. ASSUME NEW side \in Side, NEW p \in Prices, price_map[side][p] = l
          PROVE  side = data[s].side /\ p = data[s].price
      <3>1. p = data[s].price
        BY <2>1, <1>1, <1>10 DEF LevelsMapped
      <3>2. side = data[s].side
        BY <2>1, <1>1, <1>2, <1>10 DEF LevelsMapped, Side
      <3> QED BY <3>1, <3>2
    <2> QED BY <2>1, <1>10
  <1>12. \A t \in Resting' :
           /\ LevelOf(t) \in InUse /\ LevelOf(t) # l
           /\ qty'[t] = qty[t]
           /\ data[t].side \in Side /\ data[t].price \in Prices
           /\ price_map[data[t].side][data[t].price] = LevelOf(t)
    <2>1. ASSUME NEW t \in Resting'
          PROVE  /\ LevelOf(t) \in InUse /\ LevelOf(t) # l
                 /\ qty'[t] = qty[t]
                 /\ data[t].side \in Side /\ data[t].price \in Prices
                 /\ price_map[data[t].side][data[t].price] = LevelOf(t)
      <3>1. t \in Resting /\ t # s /\ t \in OrderSlots /\ data[t] \in OrderData
        BY <2>1, <1>4
      <3>2. LevelOf(t) \in InUse /\ price_map[data[t].side][data[t].price] = LevelOf(t)
        BY <3>1, <1>1, RestingOrder
      <3> QED BY <3>1, <3>2, <1>3, <1>9 DEF OrderData
    <2> QED BY <2>1
  <1>13. IndexExact'
    <2>1. \A t \in Resting' :
            /\ data'[t] = data[t]
            /\ data[t].order_id \in OrderIds \ {id}
            /\ LevelOf(t) \in InUse'
            /\ price_map'[data[t].side][data[t].price] = LevelOf(t)
            /\ qty'[t] = qty[t]
      BY <1>2, <1>4, <1>5, <1>10, <1>12
    <2> QED BY <2>1, <1>1, <1>4, CancelKeepsIndex
  <1>14. LevelsMapped'
    <2>1. \A side \in Side, p \in Prices : price_map'[side][p] # Null =>
            /\ price_map'[side][p] \in InUse'
            /\ level_price'[price_map'[side][p]] = p
      <3>1. ASSUME NEW side \in Side, NEW p \in Prices, price_map'[side][p] # Null
            PROVE  /\ price_map'[side][p] \in InUse'
                   /\ level_price'[price_map'[side][p]] = p
        <4>1. price_map'[side][p] = price_map[side][p]
          BY <3>1, <1>10
        <4>2. price_map[side][p] \in InUse \ {l} /\ level_price[price_map[side][p]] = p
          BY <3>1, <4>1, <1>1, <1>11 DEF LevelsMapped
        <4> QED BY <4>1, <4>2, <1>1, <1>3, <1>5 DEF InUse, BookTypeOK
      <3> QED BY <3>1
    <2>2. \A m \in InUse' : \E side \in Side, p \in Prices : price_map'[side][p] = m
      <3>1. ASSUME NEW m \in InUse \ {l}
            PROVE  \E side \in Side, p \in Prices : price_map'[side][p] = m
        <4>1. PICK side \in Side, p \in Prices : price_map[side][p] = m
          BY <1>1 DEF LevelsMapped
        <4>2. ~(side = data[s].side /\ p = data[s].price)
          BY <4>1, <1>2
        <4> QED BY <4>1, <4>2, <1>10
      <3> QED BY <3>1, <1>5
    <2>3. \A p, q \in Prices :
            price_map'["BUY"][p] = price_map'["SELL"][q] => price_map'["BUY"][p] = Null
      <3>1. "BUY" \in Side /\ "SELL" \in Side
        BY DEF Side
      <3> QED BY <3>1, <1>1, <1>10 DEF LevelsMapped
    <2>4. \A m \in InUse' : order_count'[m] > 0
      BY <1>1, <1>3, <1>5 DEF LevelsMapped, BookTypeOK, InUse
    <2> QED BY <2>1, <2>2, <2>3, <2>4 DEF LevelsMapped
  <1>15. \A t \in Resting' :
           /\ order_count'[LevelOf(t)] = order_count[LevelOf(t)]
           /\ total_qty'[LevelOf(t)] = total_qty[LevelOf(t)]
           /\ head_'[LevelOf(t)] = head_[LevelOf(t)]
           /\ tail_'[LevelOf(t)] = tail_[LevelOf(t)]
    BY <1>1, <1>3, <1>12 DEF BookTypeOK, InUse
  <1>16. \A t \in Resting' : prev_'[t] = prev_[t] /\ next_'[t] = next_[t]
    <2>1. prev_[s] = Null /\ next_[s] = Null
      BY <1>1, <1>2, <1>7, <1>8, <1>9, Neighbours
    <2> QED BY <2>1, <1>3, <1>4, BookAssumption DEF Unlink
  <1>17. Numbers(pos)'
    <2>1. \A t \in Resting' : pos[t] \in 1 .. order_count'[LevelOf(t)']
      BY <1>4, <1>7, <1>15 DEF Numbers
    <2>2. ASSUME NEW m \in InUse', NEW k \in 1 .. order_count'[m]
          PROVE  \E t \in OrdersAt(m)' : pos[t] = k
      <3>1. m \in InUse /\ m # l /\ order_count'[m] = order_count[m]
        BY <1>1, <1>3, <1>5 DEF BookTypeOK, InUse
      <3>2. PICK t \in OrdersAt(m) : pos[t] = k
        BY <3>1, <1>7 DEF Numbers
      <3> QED BY <3>1, <3>2, <1>2, <1>4 DEF OrdersAt
    <2>3. ASSUME NEW t \in Resting', NEW u \in Resting', LevelOf(t)' = LevelOf(u)'
          PROVE  /\ pos[t] = pos[u] => t = u
                 /\ pos[u] = pos[t] + 1 => next_'[t] = u /\ prev_'[u] = t
      BY <2>3, <1>4, <1>7, <1>16 DEF Numbers
    <2>4. ASSUME NEW t \in Resting'
          PROVE  /\ pos[t] = 1 => prev_'[t] = Null /\ head_'[LevelOf(t)'] = t
                 /\ pos[t] = order_count'[LevelOf(t)'] =>
                      next_'[t] = Null /\ tail_'[LevelOf(t)'] = t
      BY <2>4, <1>4, <1>7, <1>15, <1>16 DEF Numbers
    <2> QED BY <2>1, <2>2, <2>3, <2>4 DEF Numbers
  <1>18. Sums(pos, cum)'
    BY <1>4, <1>7, <1>12, <1>15 DEF Sums
  <1>19. Structured'
    BY <1>17, <1>18 DEF Structured
  <1>20. MovesUp(pos, pos, s)
    BY <1>2, <1>9 DEF MovesUp
  <1> QED BY <1>6, <1>7, <1>13, <1>14, <1>17, <1>19, <1>20 DEF BookInv

(* An order leaves a level on which others stay: its neighbours are joined *)
(* and the later orders move up by one place.                              *)
LEMMA CancelAmongOthersKeeps ==
  ASSUME BookInv, NEW id \in OrderIds,
         NEW s, NEW l, EntryOf(id, s, l),
         NEW quantity \in [OrderSlots -> 0 .. MaxQty],
         NEW totals \in [LevelSlots -> Nat],
         \A t \in OrderSlots \ {s} : quantity[t] = qty[t],
         \A m \in LevelSlots \ {l} : totals[m] = total_qty[m],
         totals[l] - quantity[s] = total_qty[l] - qty[s],
         CancelWith(id, quantity, totals), ~Emptied(l)
  PROVE  /\ BookInv'
         /\ \E pos, pos1 \in [OrderSlots -> Nat] :
              Numbers(pos) /\ Numbers(pos1)' /\ MovesUp(pos, pos1, s)
PROOF
  <1>1. BookTypeOK /\ IndexExact /\ LevelsMapped /\ Found(id)
    BY DEF BookInv, CancelWith
  <1>2. /\ s \in Resting /\ s \in OrderSlots
        /\ l \in InUse /\ l \in LevelSlots
        /\ LevelOf(s) = l
    BY <1>1, FoundOrder
  <1>3. /\ Unlink(s)
        /\ qty' = [quantity EXCEPT ![s] = 0]
        /\ total_qty' = [totals EXCEPT ![l] = @ - quantity[s]]
        /\ order_count' = [order_count EXCEPT ![l] = @ - 1]
        /\ head_' = [head_ EXCEPT ![l] = IF prev_[s] = Null THEN next_[s] ELSE @]
        /\ tail_' = [tail_ EXCEPT ![l] = IF next_[s] = Null THEN prev_[s] ELSE @]
        /\ UNCHANGED <<level_price, price_map, level_pool, level_pool_dry>>
    BY DEF CancelWith, EntryOf
  <1>4. /\ Resting' = Resting \ {s}
        /\ \A t \in Resting' :
             /\ t \in Resting /\ t # s /\ t \in OrderSlots
             /\ data'[t] = data[t] /\ data[t] \in OrderData
             /\ data[t].order_id \in OrderIds \ {id}
             /\ LevelOf(t)' = LevelOf(t)
        /\ order_index'[id] = Null
        /\ \A i \in OrderIds \ {id} : order_index'[i] = order_index[i]
        /\ data' \in [OrderSlots -> OrderData \cup {Null}]
        /\ order_index' \in [OrderIds -> Entry \cup {Null}]
        /\ order_pool' \in SUBSET OrderSlots
        /\ order_pool_dry' = order_pool_dry
    BY <1>1, CancelView
  <1>5. InUse' = InUse
    BY <1>3 DEF InUse
  <1>6. PICK pos, cum \in [OrderSlots -> Nat] : Numbers(pos) /\ Sums(pos, cum)
    BY DEF BookInv, Structured
  <1>7. PICK n, k, q : n = order_count[l] /\ k = pos[s] /\ q = qty[s]
    OBVIOUS
  <1>8. /\ n \in Nat /\ n > 1 /\ k \in 1 .. n /\ q \in Nat
        /\ total_qty[l] \in Nat /\ q <= cum[s] /\ cum[s] <= total_qty[l]
        /\ cum[s] \in Nat
    <2>1. n \in Nat \ {0} /\ n # 1
      BY <1>1, <1>2, <1>7 DEF Emptied, LevelsMapped, BookTypeOK
    <2>2. k \in 1 .. n
      BY <1>1, <1>2, <1>6, <1>7, Neighbours
    <2>3. q \in Nat /\ q <= cum[s] /\ cum[s] <= total_qty[l] /\ total_qty[l] \in Nat
      BY <1>1, <1>2, <1>6, <1>7, TotalCovers
    <2> QED BY <2>1, <2>2, <2>3, <1>2
  <1>9. /\ order_count'[l] = n - 1
        /\ total_qty'[l] = total_qty[l] - q
        /\ head_'[l] = IF prev_[s] = Null THEN next_[s] ELSE head_[l]
        /\ tail_'[l] = IF next_[s] = Null THEN prev_[s] ELSE tail_[l]
        /\ \A m \in LevelSlots \ {l} :
             /\ order_count'[m] = order_count[m] /\ total_qty'[m] = total_qty[m]
             /\ head_'[m] = head_[m] /\ tail_'[m] = tail_[m]
        /\ \A t \in Resting' : qty'[t] = qty[t]
    BY <1>1, <1>2, <1>3, <1>4, <1>7 DEF BookTypeOK
  <1>10. BookTypeOK'
    <2>1. order_pool_dry' \in BOOLEAN /\ level_pool_dry' \in BOOLEAN
      BY <1>1, <1>3, <1>4, Zenon DEF BookTypeOK
    <2>2. /\ prev_' \in [OrderSlots -> OrderSlots \cup {Null}]
          /\ next_' \in [OrderSlots -> OrderSlots \cup {Null}]
      BY <1>1, <1>2, <1>3 DEF BookTypeOK, Unlink
    <2>3. qty' \in [OrderSlots -> 0 .. MaxQty]
      <3>1. 0 \in 0 .. MaxQty
        BY BookAssumption
      <3> QED BY <3>1, <1>2, <1>3
    <2>4. total_qty[l] - q \in Nat /\ n - 1 \in Nat
      BY <1>8
    <2>5. total_qty' \in [LevelSlots -> Nat]
      BY <2>4, <1>2, <1>3, <1>7
    <2>6. order_count' \in [LevelSlots -> Nat]
      BY <2>4, <1>1, <1>2, <1>3, <1>7 DEF BookTypeOK
    <2>7. /\ head_' \in [LevelSlots -> OrderSlots \cup {Null}]
          /\ tail_' \in [LevelSlots -> OrderSlots \cup {Null}]
      BY <1>1, <1>2, <1>3 DEF BookTypeOK
    <2> QED BY <2>1, <2>2, <2>3, <2>5, <2>6, <2>7, <1>1, <1>3, <1>4 DEF BookTypeOK
  <1>11. IndexExact'
    <2>1. \A t \in Resting' :
            /\ data'[t] = data[t]
            /\ data[t].order_id \in OrderIds \ {id}
            /\ LevelOf(t) \in InUse'
            /\ price_map'[data[t].side][data[t].price] = LevelOf(t)
            /\ qty'[t] = qty[t]
      BY <1>1, <1>3, <1>4, <1>5, <1>9, RestingOrder
    <2> QED BY <2>1, <1>1, <1>4, CancelKeepsIndex
  <1>12. LevelsMapped'
    <2>1. \A m \in InUse' : order_count'[m] > 0
      BY <1>1, <1>5, <1>8, <1>9 DEF LevelsMapped, InUse
    <2> QED BY <2>1, <1>1, <1>3, <1>5 DEF LevelsMapped
  <1>13. PICK pos1, cum1 :
           /\ pos1 = [t \in OrderSlots |->
                        IF t \in OrdersAt(l) /\ pos[t] > k THEN pos[t] - 1 ELSE pos[t]]
           /\ cum1 = [t \in OrderSlots |->
                        IF t \in OrdersAt(l) /\ pos[t] > k THEN cum[t] - q ELSE cum[t]]
    OBVIOUS
  <1>14. \A t \in Resting :
           /\ t \in OrderSlots /\ LevelOf(t) \in InUse /\ LevelOf(t) \in LevelSlots
           /\ pos[t] \in 1 .. order_count[LevelOf(t)]
           /\ order_count[LevelOf(t)] \in Nat
           /\ pos[t] \in Nat /\ cum[t] \in Nat /\ qty[t] \in Nat
           /\ qty[t] <= cum[t]
    <2> TAKE t \in Resting
    <2>1. /\ t \in OrderSlots /\ LevelOf(t) \in InUse /\ LevelOf(t) \in LevelSlots
      BY <1>1, RestingOrder
    <2>2. pos[t] \in 1 .. order_count[LevelOf(t)] /\ order_count[LevelOf(t)] \in Nat
      BY <1>1, <1>6, Neighbours
    <2>3. qty[t] \in Nat /\ qty[t] <= cum[t]
      BY <1>1, <1>6, TotalCovers
    <2> QED BY <2>1, <2>2, <2>3
  <1>15. \A t \in Resting' : LevelOf(t) = l =>
           /\ pos[t] \in 1 .. n /\ pos[t] # k
           /\ t = prev_[s] <=> pos[t] = k - 1
           /\ t = next_[s] <=> pos[t] = k + 1
           /\ pos[t] < k => pos1[t] = pos[t] /\ cum1[t] = cum[t]
           /\ pos[t] > k => /\ pos1[t] = pos[t] - 1 /\ cum1[t] = cum[t] - q
                           /\ cum[s] + qty[t] <= cum[t]
    <2>1. ASSUME NEW t \in Resting', LevelOf(t) = l
          PROVE  /\ t \in Resting /\ t # s /\ pos[t] \in 1 .. n /\ pos[t] # k
                 /\ pos[t] > k => cum[s] + qty[t] <= cum[t]
                 /\ pos[t] = k - 1 => prev_[s] = t
                 /\ pos[t] = k + 1 => next_[s] = t
      BY <2>1, <1>2, <1>4, <1>6, <1>7, <1>8, <1>14 DEF Numbers, Sums
    <2>2. /\ prev_[s] = Null \/ pos[prev_[s]] = k - 1
          /\ next_[s] = Null \/ pos[next_[s]] = k + 1
      BY <1>1, <1>2, <1>6, <1>7, Neighbours
    <2>3. ASSUME NEW t \in Resting', LevelOf(t) = l
          PROVE  /\ t = prev_[s] => pos[t] = k - 1
                 /\ t = next_[s] => pos[t] = k + 1
      BY <2>2, <2>3, <1>4, BookAssumption
    <2>4. ASSUME NEW t \in Resting', LevelOf(t) = l
          PROVE  /\ pos[t] < k => pos1[t] = pos[t] /\ cum1[t] = cum[t]
                 /\ pos[t] > k => pos1[t] = pos[t] - 1 /\ cum1[t] = cum[t] - q
      BY <2>4, <2>1, <1>8, <1>13, <1>14 DEF OrdersAt
    <2> QED BY <2>1, <2>3, <2>4
  <1>16. \A t \in Resting' : LevelOf(t) # l =>
           /\ pos1[t] = pos[t] /\ cum1[t] = cum[t]
           /\ t # prev_[s] /\ t # next_[s]
    <2>1. /\ prev_[s] = Null \/ LevelOf(prev_[s]) = l
          /\ next_[s] = Null \/ LevelOf(next_[s]) = l
      BY <1>1, <1>2, <1>6, Neighbours DEF OrdersAt
    <2> QED BY <2>1, <1>4, <1>13, BookAssumption DEF OrdersAt
  <1>17. \A t \in Resting' :
           /\ next_'[t] = IF t = prev_[s] THEN next_[s] ELSE next_[t]
           /\ prev_'[t] = IF t = next_[s] THEN prev_[s] ELSE prev_[t]
    BY <1>3, <1>4 DEF Unlink
  <1>18. pos1 \in [OrderSlots -> Nat] /\ cum1 \in [OrderSlots -> Nat]
    <2>1. ASSUME NEW t \in OrderSlots PROVE pos1[t] \in Nat /\ cum1[t] \in Nat
      <3>1. CASE t \in OrdersAt(l) /\ pos[t] > k
        <4>1. t \in Resting /\ cum[s] + qty[t] <= cum[t]
          BY <3>1, <1>2, <1>6, <1>7 DEF OrdersAt, Sums
        <4> QED BY <3>1, <4>1, <1>8, <1>13, <1>14
      <3>2. CASE ~(t \in OrdersAt(l) /\ pos[t] > k)
        BY <3>2, <1>13
      <3> QED BY <3>1, <3>2
    <2> QED BY <2>1, <1>13
  <1>19. Numbers(pos1)'
    <2>1. ASSUME NEW t \in Resting'
          PROVE  pos1[t] \in 1 .. order_count'[LevelOf(t)']
      <3>1. CASE LevelOf(t) = l
        <4>1. /\ pos[t] \in 1 .. n /\ pos[t] # k
              /\ pos[t] < k => pos1[t] = pos[t]
              /\ pos[t] > k => pos1[t] = pos[t] - 1
          BY <3>1, <1>15
        <4>2. pos1[t] \in 1 .. n - 1
          BY <4>1, <1>8
        <4> QED BY <3>1, <4>2, <1>4, <1>9
      <3>2. CASE LevelOf(t) # l
        BY <3>2, <1>4, <1>9, <1>14, <1>16
      <3> QED BY <3>1, <3>2
    <2>2. ASSUME NEW m \in InUse', NEW j \in 1 .. order_count'[m]
          PROVE  \E t \in OrdersAt(m)' : pos1[t] = j
      <3>1. CASE m = l
        <4>1. j \in 1 .. n - 1
          BY <3>1, <1>9
        <4>2. CASE j < k
          <5>1. PICK t \in OrdersAt(l) : pos[t] = j
            BY <4>1, <1>2, <1>6, <1>7, <1>8 DEF Numbers
          <5>2. t \in Resting' /\ LevelOf(t) = l
            BY <4>2, <5>1, <1>4, <1>7 DEF OrdersAt
          <5> QED BY <3>1, <4>2, <5>1, <5>2, <1>4, <1>15 DEF OrdersAt
        <4>3. CASE j >= k
          <5>1. j + 1 \in 1 .. n /\ j + 1 > k
            BY <4>1, <4>3, <1>8
          <5>2. PICK t \in OrdersAt(l) : pos[t] = j + 1
            BY <5>1, <1>2, <1>6, <1>7 DEF Numbers
          <5>3. t \in Resting' /\ LevelOf(t) = l
            BY <5>1, <5>2, <1>4, <1>7, <1>8 DEF OrdersAt
          <5>4. pos1[t] = j
            <6>1. pos[t] > k
              BY <5>1, <5>2
            <6>2. pos1[t] = pos[t] - 1
              BY <5>3, <6>1, <1>15
            <6>3. j \in Nat
              BY <4>1
            <6> QED BY <5>2, <6>2, <6>3
          <5> QED BY <3>1, <5>3, <5>4, <1>4 DEF OrdersAt
        <4> QED BY <4>1, <4>2, <4>3, <1>8
      <3>2. CASE m # l
        <4>1. m \in InUse /\ order_count'[m] = order_count[m]
          BY <3>2, <1>5, <1>9 DEF InUse
        <4>2. PICK t \in OrdersAt(m) : pos[t] = j
          BY <4>1, <1>6 DEF Numbers
        <4>3. t \in Resting' /\ LevelOf(t) = m
          BY <3>2, <4>2, <1>2, <1>4 DEF OrdersAt
        <4> QED BY <3>2, <4>2, <4>3, <1>4, <1>16 DEF OrdersAt
      <3> QED BY <3>1, <3>2
    <2>3. ASSUME NEW t \in Resting', NEW u \in Resting', LevelOf(t)' = LevelOf(u)'
          PROVE  /\ pos1[t] = pos1[u] => t = u
                 /\ pos1[u] = pos1[t] + 1 => next_'[t] = u /\ prev_'[u] = t
      <3>1. /\ LevelOf(t) = LevelOf(u)
            /\ pos[t] = pos[u] => t = u
            /\ pos[u] = pos[t] + 1 => next_[t] = u /\ prev_[u] = t
        BY <2>3, <1>4, <1>6 DEF Numbers
      <3>2. CASE LevelOf(t) # l
        BY <3>1, <3>2, <1>16, <1>17
      <3>3. CASE LevelOf(t) = l
        <4>1. /\ pos[t] \in 1 .. n /\ pos[t] # k /\ pos[u] \in 1 .. n /\ pos[u] # k
              /\ (t = prev_[s] <=> pos[t] = k - 1)
              /\ (u = next_[s] <=> pos[u] = k + 1)
              /\ pos[t] < k => pos1[t] = pos[t]
              /\ pos[t] > k => pos1[t] = pos[t] - 1
              /\ pos[u] < k => pos1[u] = pos[u]
              /\ pos[u] > k => pos1[u] = pos[u] - 1
              /\ (t = next_[s] <=> pos[t] = k + 1)
              /\ (u = prev_[s] <=> pos[u] = k - 1)
          BY <3>1, <3>3, <1>15
        <4>2. pos1[t] = pos1[u] => pos[t] = pos[u]
          BY <4>1, <1>8
        <4>3. ASSUME pos1[u] = pos1[t] + 1
              PROVE  \/ /\ pos[u] = pos[t] + 1
                        /\ t # prev_[s] /\ u # next_[s]
                     \/ t = prev_[s] /\ u = next_[s]
          BY <4>1, <4>3, <1>8
        <4> QED BY <3>1, <4>2, <4>3, <1>17
      <3> QED BY <3>2, <3>3
    <2>4. ASSUME NEW t \in Resting'
          PROVE  /\ pos1[t] = 1 => prev_'[t] = Null /\ head_'[LevelOf(t)'] = t
                 /\ pos1[t] = order_count'[LevelOf(t)'] =>
                      next_'[t] = Null /\ tail_'[LevelOf(t)'] = t
      <3>1. /\ pos[t] = 1 => prev_[t] = Null /\ head_[LevelOf(t)] = t
            /\ pos[t] = order_count[LevelOf(t)] =>
                 next_[t] = Null /\ tail_[LevelOf(t)] = t
            /\ LevelOf(t)' = LevelOf(t) /\ LevelOf(t) \in LevelSlots
        BY <2>4, <1>4, <1>6, <1>14 DEF Numbers
      <3>2. CASE LevelOf(t) # l
        BY <3>1, <3>2, <1>9, <1>16, <1>17
      <3>3. CASE LevelOf(t) = l
        <4>1. /\ pos[t] \in 1 .. n /\ pos[t] # k
              /\ (t = prev_[s] <=> pos[t] = k - 1)
              /\ (t = next_[s] <=> pos[t] = k + 1)
              /\ pos[t] < k => pos1[t] = pos[t]
              /\ pos[t] > k => pos1[t] = pos[t] - 1
          BY <3>3, <1>15
        <4>2. /\ prev_[s] = Null <=> k = 1
              /\ next_[s] = Null <=> k = n
          BY <1>1, <1>2, <1>6, <1>7, Neighbours, BookAssumption DEF OrdersAt, Resting
        <4>3. ASSUME pos1[t] = 1
              PROVE  prev_'[t] = Null /\ head_'[l] = t
          <5>1. \/ pos[t] = 1 /\ k > 1
                \/ pos[t] = 2 /\ k = 1
            BY <4>1, <4>3, <1>8
          <5>2. pos[t] = k + 1 <=> t = next_[s]
            BY <4>1
          <5> QED BY <3>1, <3>3, <4>2, <5>1, <5>2, <1>8, <1>9, <1>17
        <4>4. ASSUME pos1[t] = n - 1
              PROVE  next_'[t] = Null /\ tail_'[l] = t
          <5>1. \/ pos[t] = n /\ k < n /\ t # prev_[s]
                \/ pos[t] = n - 1 /\ k = n /\ t = prev_[s]
            BY <4>1, <4>4, <1>8
          <5> QED BY <3>1, <3>3, <4>2, <5>1, <1>7, <1>8, <1>9, <1>17
        <4> QED BY <3>1, <3>3, <4>3, <4>4, <1>9
      <3> QED BY <3>2, <3>3
    <2> QED BY <2>1, <2>2, <2>3, <2>4 DEF Numbers
  <1>20. Sums(pos1, cum1)'
    <2>1. ASSUME NEW t \in Resting', NEW u \in Resting', LevelOf(t)' = LevelOf(u)'
          PROVE  /\ pos1[t] < pos1[u] => cum1[t] + qty'[u] <= cum1[u]
                 /\ pos1[u] = pos1[t] + 1 => cum1[u] = cum1[t] + qty'[u]
      <3>1. /\ LevelOf(t) = LevelOf(u)
            /\ pos[t] < pos[u] => cum[t] + qty[u] <= cum[u]
            /\ pos[u] = pos[t] + 1 => cum[u] = cum[t] + qty[u]
            /\ qty'[u] = qty[u]
            /\ cum[t] \in Nat /\ cum[u] \in Nat /\ qty[u] \in Nat
        BY <2>1, <1>4, <1>6, <1>9, <1>14 DEF Sums
      <3>2. CASE LevelOf(t) # l
        BY <3>1, <3>2, <1>16
      <3>3. CASE LevelOf(t) = l
        <4>1. /\ pos[t] \in 1 .. n /\ pos[t] # k /\ pos[u] \in 1 .. n /\ pos[u] # k
              /\ pos[t] < k => pos1[t] = pos[t] /\ cum1[t] = cum[t]
              /\ pos[t] > k => pos1[t] = pos[t] - 1 /\ cum1[t] = cum[t] - q
              /\ pos[u] < k => pos1[u] = pos[u] /\ cum1[u] = cum[u]
              /\ pos[u] > k => /\ pos1[u] = pos[u] - 1 /\ cum1[u] = cum[u] - q
                              /\ cum[s] + qty[u] <= cum[u]
          BY <3>1, <3>3, <1>15
        <4>2. /\ pos[t] < k => cum[t] + q <= cum[s]
              /\ pos[t] = k - 1 => cum[s] = cum[t] + q
              /\ pos[u] = k + 1 => cum[u] = cum[s] + qty[u]
          <5>1. t \in Resting /\ u \in Resting /\ LevelOf(u) = l
            BY <2>1, <3>1, <3>3, <1>4
          <5>2. /\ pos[t] < pos[s] => cum[t] + qty[s] <= cum[s]
                /\ pos[s] = pos[t] + 1 => cum[s] = cum[t] + qty[s]
                /\ pos[u] = pos[s] + 1 => cum[u] = cum[s] + qty[u]
            BY <3>3, <5>1, <1>2, <1>6 DEF Sums
          <5> QED BY <4>1, <5>2, <1>7, <1>8
        <4>3. CASE pos[t] < k /\ pos[u] > k
          BY <3>1, <4>1, <4>2, <4>3, <1>8
        <4>4. CASE pos[t] < k /\ pos[u] < k
          BY <3>1, <4>1, <4>4
        <4>5. CASE pos[t] > k /\ pos[u] > k
          BY <3>1, <4>1, <4>5, <1>8
        <4>6. CASE pos[t] > k /\ pos[u] < k
          BY <4>1, <4>6, <1>8
        <4> QED BY <4>1, <4>3, <4>4, <4>5, <4>6, <1>8
      <3> QED BY <3>2, <3>3
    <2>2. ASSUME NEW t \in Resting'
          PROVE  /\ pos1[t] = 1 => cum1[t] = qty'[t]
                 /\ pos1[t] = order_count'[LevelOf(t)'] =>
                      cum1[t] = total_qty'[LevelOf(t)']
      <3>1. /\ pos[t] = 1 => cum[t] = qty[t]
            /\ pos[t] = order_count[LevelOf(t)] => cum[t] = total_qty[LevelOf(t)]
            /\ LevelOf(t)' = LevelOf(t) /\ LevelOf(t) \in LevelSlots
            /\ qty'[t] = qty[t] /\ cum[t] \in Nat /\ qty[t] \in Nat
        BY <2>2, <1>4, <1>6, <1>9, <1>14 DEF Sums
      <3>2. CASE LevelOf(t) # l
        BY <3>1, <3>2, <1>9, <1>16
      <3>3. CASE LevelOf(t) = l
        <4>1. /\ pos[t] \in 1 .. n /\ pos[t] # k
              /\ pos[t] < k => pos1[t] = pos[t] /\ cum1[t] = cum[t]
              /\ pos[t] > k => pos1[t] = pos[t] - 1 /\ cum1[t] = cum[t] - q
          BY <3>3, <1>15
        <4>2. /\ k = 1 => cum[s] = q
              /\ k = n => cum[s] = total_qty[l]
              /\ pos[t] = k + 1 => cum[t] = cum[s] + qty[t]
              /\ pos[t] = k - 1 => cum[s] = cum[t] + q
          <5>1. t \in Resting
            BY <2>2, <1>4
          <5>2. /\ pos[s] = 1 => cum[s] = qty[s]
                /\ pos[s] = order_count[l] => cum[s] = total_qty[l]
                /\ pos[t] = pos[s] + 1 => cum[t] = cum[s] + qty[t]
                /\ pos[s] = pos[t] + 1 => cum[s] = cum[t] + qty[s]
            BY <3>3, <5>1, <1>2, <1>6 DEF Sums
          <5> QED BY <4>1, <5>2, <1>7, <1>8
        <4>3. ASSUME pos1[t] = 1 PROVE cum1[t] = qty[t]
          <5>1. CASE pos[t] < k
            BY <3>1, <4>1, <4>3, <5>1
          <5>2. CASE pos[t] > k
            <6>1. pos[t] = k + 1 /\ k = 1
              BY <4>1, <4>3, <5>2, <1>8
            <6>2. cum[t] = q + qty[t] /\ cum1[t] = cum[t] - q
              BY <4>1, <4>2, <5>2, <6>1
            <6> QED BY <3>1, <6>2, <1>8
          <5> QED BY <4>1, <5>1, <5>2, <1>8
        <4>4. ASSUME pos1[t] = n - 1 PROVE cum1[t] = total_qty[l] - q
          <5>1. CASE pos[t] < k
            <6>1. pos[t] = k - 1 /\ k = n
              BY <4>1, <4>4, <5>1, <1>8
            <6>2. total_qty[l] = cum[t] + q /\ cum1[t] = cum[t]
              BY <4>1, <4>2, <5>1, <6>1
            <6> QED BY <3>1, <6>2, <1>8
          <5>2. CASE pos[t] > k
            <6>1. pos[t] = n
              BY <4>1, <4>4, <5>2, <1>8
            <6> QED BY <3>1, <3>3, <4>1, <5>2, <6>1, <1>7
          <5> QED BY <4>1, <5>1, <5>2, <1>8
        <4> QED BY <3>1, <3>3, <4>3, <4>4, <1>9
      <3> QED BY <3>2, <3>3
    <2> QED BY <2>1, <2>2 DEF Sums
  <1>21. Structured'
    BY <1>18, <1>19, <1>20 DEF Structured
  <1>22. MovesUp(pos, pos1, s)
    BY <1>2, <1>7, <1>13, <1>14 DEF MovesUp, OrdersAt
  <1> QED BY <1>6, <1>10, <1>11, <1>12, <1>18, <1>19, <1>21, <1>22 DEF BookInv

(* cancel_order() on a book whose quantities are as a fill left them.      *)
LEMMA CancelWithKeeps ==
  ASSUME BookInv, NEW id \in OrderIds,
         NEW s, NEW l, EntryOf(id, s, l),
         NEW quantity \in [OrderSlots -> 0 .. MaxQty],
         NEW totals \in [LevelSlots -> Nat],
         \A t \in OrderSlots \ {s} : quantity[t] = qty[t],
         \A m \in LevelSlots \ {l} : totals[m] = total_qty[m],
         totals[l] - quantity[s] = total_qty[l] - qty[s],
         CancelWith(id, quantity, totals)
  PROVE  /\ BookInv'
         /\ \E pos, pos1 \in [OrderSlots -> Nat] :
              Numbers(pos) /\ Numbers(pos1)' /\ MovesUp(pos, pos1, s)
PROOF
  <1>1. CASE Emptied(l)
    BY <1>1, CancelLastKeeps
  <1>2. CASE ~Emptied(l)
    BY <1>2, CancelAmongOthersKeeps
  <1> QED BY <1>1, <1>2

(* An order that stays gives up part of its quantity, and its level's      *)
(* total the same amount.                                                  *)
LEMMA ShrinkKeeps ==
  ASSUME BookInv, NEW s \in Resting, NEW l, l = LevelOf(s),
         NEW new_qty \in 1 .. MaxQty, new_qty <= qty[s],
         qty' = [qty EXCEPT ![s] = new_qty],
         total_qty' = [total_qty EXCEPT ![l] = @ - (qty[s] - new_qty)],
         UNCHANGED <<data, prev_, next_, level_price, order_count, head_, tail_,
                     mapVars, poolVars>>
  PROVE  BookInv'
PROOF
  <1>1. BookTypeOK /\ IndexExact /\ LevelsMapped
    BY DEF BookInv
  <1>2. s \in OrderSlots /\ l \in InUse /\ l \in LevelSlots
    BY <1>1, RestingOrder
  <1>3. /\ Resting' = Resting /\ InUse' = InUse
        /\ \A id : Found(id)' = Found(id) /\ FindOrder(id)' = FindOrder(id)
        /\ \A t : LevelOf(t)' = LevelOf(t)
        /\ \A m : OrdersAt(m)' = OrdersAt(m)
        /\ UNCHANGED <<data, prev_, next_, level_price, order_count, head_, tail_,
                       price_map, order_index, order_pool, level_pool,
                       order_pool_dry, level_pool_dry>>
    BY DEF Resting, InUse, Found, FindOrder, LevelOf, OrdersAt, mapVars, poolVars
  <1>4. PICK pos, cum \in [OrderSlots -> Nat] : Numbers(pos) /\ Sums(pos, cum)
    BY DEF BookInv, Structured
  <1>5. PICK d, k : d = qty[s] - new_qty /\ k = pos[s]
    OBVIOUS
  <1>6. /\ d \in Nat /\ k \in Nat /\ d <= qty[s]
        /\ qty[s] \in Nat /\ total_qty[l] \in Nat
        /\ qty[s] <= cum[s] /\ cum[s] <= total_qty[l] /\ cum[s] \in Nat
    BY <1>1, <1>2, <1>4, <1>5, TotalCovers
  <1>7. /\ qty'[s] = qty[s] - d
        /\ total_qty'[l] = total_qty[l] - d
        /\ \A t \in OrderSlots \ {s} : qty'[t] = qty[t]
        /\ \A m \in LevelSlots \ {l} : total_qty'[m] = total_qty[m]
    BY <1>1, <1>2, <1>5, <1>6 DEF BookTypeOK
  <1>8. BookTypeOK'
    <2>1. order_pool_dry' \in BOOLEAN /\ level_pool_dry' \in BOOLEAN
      BY <1>1, <1>3, Zenon DEF BookTypeOK
    <2>2. total_qty[l] - d \in Nat
      BY <1>6
    <2>3. total_qty' \in [LevelSlots -> Nat]
      BY <2>2, <1>1, <1>2, <1>5 DEF BookTypeOK
    <2>4. qty' \in [OrderSlots -> 0 .. MaxQty]
      BY <1>1, <1>2, BookAssumption DEF BookTypeOK
    <2> QED BY <2>1, <2>3, <2>4, <1>1, <1>3 DEF BookTypeOK
  <1>9. IndexExact'
    <2>1. \A t \in Resting : qty'[t] > 0
      BY <1>1, <1>2 DEF IndexExact, BookTypeOK, Resting
    <2> QED BY <2>1, <1>1, <1>3 DEF IndexExact
  <1>10. LevelsMapped'
    BY <1>1, <1>3 DEF LevelsMapped
  <1>11. Numbers(pos)'
    BY <1>3, <1>4 DEF Numbers
  <1>12. PICK cum1 : cum1 = [t \in OrderSlots |->
             IF t \in OrdersAt(l) /\ pos[t] >= k THEN cum[t] - d ELSE cum[t]]
    OBVIOUS
  <1>13. \A t \in Resting :
           /\ t \in OrderSlots /\ LevelOf(t) \in LevelSlots
           /\ pos[t] \in Nat /\ cum[t] \in Nat /\ qty[t] \in Nat /\ qty[t] <= cum[t]
           /\ LevelOf(t) = l =>
                /\ pos[t] = k => t = s /\ cum1[t] = cum[t] - d
                /\ pos[t] < k => cum1[t] = cum[t]
                /\ pos[t] > k => cum1[t] = cum[t] - d /\ cum[s] + qty[t] <= cum[t]
           /\ LevelOf(t) # l => cum1[t] = cum[t] /\ t # s
    <2> TAKE t \in Resting
    <2>1. t \in OrderSlots /\ LevelOf(t) \in LevelSlots
      BY <1>1, RestingOrder
    <2>2. qty[t] \in Nat /\ qty[t] <= cum[t] /\ pos[t] \in Nat /\ cum[t] \in Nat
      BY <2>1, <1>1, <1>4, TotalCovers
    <2>3. LevelOf(t) = l =>
            /\ pos[t] = k => t = s
            /\ pos[t] > k => cum[s] + qty[t] <= cum[t]
      BY <2>2, <1>4, <1>5, <1>6 DEF Numbers, Sums
    <2>4. cum1[t] = IF t \in OrdersAt(l) /\ pos[t] >= k THEN cum[t] - d ELSE cum[t]
      BY <2>1, <1>12
    <2> QED BY <2>1, <2>2, <2>3, <2>4, <1>6 DEF OrdersAt
  <1>14. cum1 \in [OrderSlots -> Nat]
    <2>1. ASSUME NEW t \in OrderSlots PROVE cum1[t] \in Nat
      <3>1. CASE t \in OrdersAt(l) /\ pos[t] >= k
        <4>1. t \in Resting /\ LevelOf(t) = l /\ cum1[t] = cum[t] - d
          BY <3>1, <1>12 DEF OrdersAt
        <4>2. cum[t] \in Nat /\ cum[t] >= d
          <5>1. CASE pos[t] = k
            BY <4>1, <5>1, <1>6, <1>13
          <5>2. CASE pos[t] # k
            <6>1. pos[t] > k /\ cum[s] + qty[t] <= cum[t]
              BY <3>1, <4>1, <5>2, <1>6, <1>13
            <6> QED BY <4>1, <6>1, <1>6, <1>13
          <5> QED BY <5>1, <5>2
        <4> QED BY <4>1, <4>2, <1>6
      <3>2. CASE ~(t \in OrdersAt(l) /\ pos[t] >= k)
        BY <3>2, <1>12
      <3> QED BY <3>1, <3>2
    <2> QED BY <2>1, <1>12
  <1>15. Sums(pos, cum1)'
    <2>1. ASSUME NEW t \in Resting, NEW u \in Resting, LevelOf(t) = LevelOf(u)
          PROVE  /\ pos[t] < pos[u] => cum1[t] + qty'[u] <= cum1[u]
                 /\ pos[u] = pos[t] + 1 => cum1[u] = cum1[t] + qty'[u]
      <3>1. /\ pos[t] < pos[u] => cum[t] + qty[u] <= cum[u]
            /\ pos[u] = pos[t] + 1 => cum[u] = cum[t] + qty[u]
            /\ pos[t] \in Nat /\ pos[u] \in Nat
            /\ cum[t] \in Nat /\ cum[u] \in Nat /\ qty[u] \in Nat
            /\ u = s => qty'[u] = qty[u] - d
            /\ u # s => qty'[u] = qty[u]
        <4>1. /\ pos[t] < pos[u] => cum[t] + qty[u] <= cum[u]
              /\ pos[u] = pos[t] + 1 => cum[u] = cum[t] + qty[u]
          BY <2>1, <1>4 DEF Sums
        <4>2. /\ u = s => qty'[u] = qty[u] - d
              /\ u # s => qty'[u] = qty[u]
          BY <1>7, <1>13
        <4> QED BY <4>1, <4>2, <1>13
      <3>2. CASE LevelOf(t) # l
        BY <2>1, <3>1, <3>2, <1>13
      <3>3. CASE LevelOf(t) = l
        <4>1. /\ pos[t] < k => cum1[t] = cum[t]
              /\ pos[t] >= k => cum1[t] = cum[t] - d
              /\ pos[u] < k => cum1[u] = cum[u]
              /\ pos[u] >= k => cum1[u] = cum[u] - d
              /\ u = s <=> pos[u] = k
          <5>1. /\ pos[t] = k => cum1[t] = cum[t] - d
                /\ pos[t] > k => cum1[t] = cum[t] - d
                /\ pos[t] < k => cum1[t] = cum[t]
            BY <2>1, <3>3, <1>13
          <5>2. /\ pos[u] = k => u = s /\ cum1[u] = cum[u] - d
                /\ pos[u] > k => cum1[u] = cum[u] - d
                /\ pos[u] < k => cum1[u] = cum[u]
            BY <2>1, <3>3, <1>13
          <5> QED BY <3>1, <5>1, <5>2, <1>5, <1>6
        <4>2. CASE u = s
          BY <3>1, <4>1, <4>2, <1>6
        <4>3. CASE u # s
          <5>1. CASE pos[t] < k /\ pos[u] > k
            <6>1. cum[t] + qty[s] <= cum[s] /\ cum[s] + qty[u] <= cum[u]
              BY <2>1, <3>1, <3>3, <5>1, <1>4, <1>5, <1>6, <1>13 DEF Sums
            <6> QED BY <3>1, <4>1, <4>3, <5>1, <6>1, <1>6
          <5>2. CASE pos[t] < k /\ pos[u] < k
            BY <3>1, <4>1, <4>3, <5>2
          <5>3. CASE pos[t] >= k /\ pos[u] > k
            BY <3>1, <4>1, <4>3, <5>3, <1>6
          <5>4. CASE pos[t] >= k /\ pos[u] < k
            BY <3>1, <5>4, <1>6
          <5> QED BY <3>1, <4>1, <4>3, <5>1, <5>2, <5>3, <5>4, <1>6
        <4> QED BY <4>2, <4>3
      <3> QED BY <3>2, <3>3
    <2>2. ASSUME NEW t \in Resting
          PROVE  /\ pos[t] = 1 => cum1[t] = qty'[t]
                 /\ pos[t] = order_count[LevelOf(t)] => cum1[t] = total_qty'[LevelOf(t)]
      <3>1. /\ pos[t] = 1 => cum[t] = qty[t]
            /\ pos[t] = order_count[LevelOf(t)] => cum[t] = total_qty[LevelOf(t)]
            /\ pos[t] \in Nat /\ cum[t] \in Nat /\ qty[t] \in Nat
            /\ t = s => qty'[t] = qty[t] - d
            /\ t # s => qty'[t] = qty[t]
        <4>1. /\ pos[t] = 1 => cum[t] = qty[t]
              /\ pos[t] = order_count[LevelOf(t)] => cum[t] = total_qty[LevelOf(t)]
          BY <1>4 DEF Sums
        <4> QED BY <4>1, <1>7, <1>13
      <3>2. CASE LevelOf(t) # l
        BY <3>1, <3>2, <1>7, <1>13
      <3>3. CASE LevelOf(t) = l
        <4>1. /\ pos[t] < k => cum1[t] = cum[t]
              /\ pos[t] >= k => cum1[t] = cum[t] - d
              /\ t = s <=> pos[t] = k
          BY <3>1, <3>3, <1>5, <1>6, <1>13
        <4>2. k \in 1 .. order_count[l] /\ order_count[l] \in Nat
          BY <1>1, <1>4, <1>5, Neighbours
        <4>3. pos[t] = 1 => cum1[t] = qty'[t]
          BY <3>1, <4>1, <4>2, <1>6
        <4>4. pos[t] = order_count[l] => cum1[t] = total_qty[l] - d
          BY <3>1, <3>3, <4>1, <4>2, <1>6
        <4> QED BY <3>3, <4>3, <4>4, <1>7
      <3> QED BY <3>2, <3>3
    <2> QED BY <2>1, <2>2, <1>3 DEF Sums
  <1>16. Structured'
    BY <1>4, <1>11, <1>14, <1>15 DEF Structured
  <1> QED BY <1>8, <1>9, <1>10, <1>16 DEF BookInv

(* A call that only touches what the pools remember of their shortages.    *)
LEMMA SameBookKeeps ==
  ASSUME BookInv,
         UNCHANGED <<orderVars, levelVars, mapVars, order_pool, level_pool>>,
         order_pool_dry' \in {TRUE, order_pool_dry},
         level_pool_dry' \in {TRUE, level_pool_dry}
  PROVE  BookInv'
PROOF
  <1>1. BookTypeOK'
    <2>1. order_pool_dry' \in BOOLEAN /\ level_pool_dry' \in BOOLEAN
      BY Zenon DEF BookInv, BookTypeOK
    <2> QED BY <2>1 DEF BookInv, BookTypeOK, orderVars, levelVars, mapVars
  <1>2. /\ Resting' = Resting /\ InUse' = InUse
        /\ \A id : Found(id)' = Found(id) /\ FindOrder(id)' = FindOrder(id)
        /\ \A t : LevelOf(t)' = LevelOf(t)
        /\ \A m : OrdersAt(m)' = OrdersAt(m)
        /\ UNCHANGED <<data, qty, prev_, next_, level_price, total_qty, order_count,
                       head_, tail_, price_map, order_index>>
    BY DEF Resting, InUse, Found, FindOrder, LevelOf, OrdersAt, orderVars,
           levelVars, mapVars
  <1>3. IndexExact' /\ LevelsMapped'
    BY <1>2 DEF BookInv, IndexExact, LevelsMapped
  <1>4. PICK pos, cum \in [OrderSlots -> Nat] : Numbers(pos) /\ Sums(pos, cum)
    BY DEF BookInv, Structured
  <1>5. Numbers(pos)' /\ Sums(pos, cum)'
    BY <1>2, <1>4 DEF Numbers, Sums
  <1>6. Structured'
    BY <1>4, <1>5 DEF Structured
  <1> QED BY <1>1, <1>3, <1>6 DEF BookInv

(* The invariant survives a step that leaves the book alone.               *)
LEMMA StutterKeeps == ASSUME BookInv, UNCHANGED bookVars PROVE BookInv'
PROOF
  BY SameBookKeeps DEF bookVars, poolVars

(* An order or a level pool with nothing left changes nothing the          *)
(* invariant speaks of: add_order() returns before it touches the book.    *)
LEMMA ShortageKeeps ==
  ASSUME BookInv, NEW o \in RestableOrder, NoOrderSlot(o) \/ NoLevelSlot(o)
  PROVE  BookInv'
PROOF
  BY SameBookKeeps
  DEF NoOrderSlot, NoLevelSlot, OrderPool!AcquireFails, LevelPool!AcquireFails

-----------------------------------------------------------------------------
(* The book as its orders show it.  What is known of a resting order;      *)
OrdersSeen ==
  \A s \in Resting :
    /\ s \in OrderSlots /\ s # Null
    /\ data[s] \in OrderData
    /\ qty[s] \in Quantity /\ qty[s] \in Nat \ {0}
    /\ LevelOf(s) \in InUse
    /\ level_price[LevelOf(s)] = data[s].price
    /\ price_map[data[s].side][data[s].price] = LevelOf(s)
    /\ Found(data[s].order_id) /\ FindOrder(data[s].order_id) = s

(* What the orders' pointers say under the invariant, as one named fact.   *)
LEMMA OrdersView == BookInv => OrdersSeen
PROOF
  <1> SUFFICES ASSUME BookInv, NEW s \in Resting
               PROVE  /\ s \in OrderSlots /\ s # Null
                      /\ data[s] \in OrderData
                      /\ qty[s] \in Quantity /\ qty[s] \in Nat \ {0}
                      /\ LevelOf(s) \in InUse
                      /\ level_price[LevelOf(s)] = data[s].price
                      /\ price_map[data[s].side][data[s].price] = LevelOf(s)
                      /\ Found(data[s].order_id) /\ FindOrder(data[s].order_id) = s
    BY DEF OrdersSeen
  <1>1. BookTypeOK /\ IndexExact /\ LevelsMapped
    BY DEF BookInv
  <1>2. /\ s \in OrderSlots
        /\ data[s] \in OrderData
        /\ Found(data[s].order_id) /\ FindOrder(data[s].order_id) = s
        /\ LevelOf(s) \in InUse /\ LevelOf(s) \in LevelSlots
        /\ price_map[data[s].side][data[s].price] = LevelOf(s)
    BY <1>1, RestingOrder
  <1>3. s # Null /\ LevelOf(s) # Null
    BY <1>2, BookAssumption
  <1>4. level_price[LevelOf(s)] = data[s].price
    BY <1>1, <1>2, <1>3 DEF OrderData, LevelsMapped
  <1> QED BY <1>1, <1>2, <1>3, <1>4, LevelOrders

(* Levels, ids and mapped prices are those of the resting orders.          *)
LevelsSeen ==
  /\ \A l : l \in InUse <=> \E s \in Resting : LevelOf(s) = l
  /\ \A l \in InUse : l # Null /\ level_price[l] \in Prices
  /\ \A s, t \in Resting :
       LevelOf(s) = LevelOf(t) <=>
         data[s].side = data[t].side /\ data[s].price = data[t].price
  /\ \A side \in Side, p \in Prices :
       price_map[side][p] # Null <=>
         \E s \in Resting : data[s].side = side /\ data[s].price = p
  /\ \A id \in OrderIds : Found(id) <=> \E s \in Resting : data[s].order_id = id
  /\ \A s, t \in Resting : data[s].order_id = data[t].order_id => s = t

(* What the levels' pointers say under the invariant, as one named fact.   *)
LEMMA LevelsView == BookInv => LevelsSeen
PROOF
  <1> SUFFICES ASSUME BookInv PROVE LevelsSeen
    OBVIOUS
  <1>1. BookTypeOK /\ IndexExact /\ LevelsMapped
    BY DEF BookInv
  <1>2. PICK pos \in [OrderSlots -> Nat] : Numbers(pos)
    BY DEF BookInv, Structured
  <1>3. \A l \in InUse : \E s \in Resting : LevelOf(s) = l
    BY <1>1, <1>2, LevelEnds DEF OrdersAt
  <1>4. \A l : l \in InUse <=> \E s \in Resting : LevelOf(s) = l
    BY <1>3, OrdersView DEF OrdersSeen
  <1>5. \A l \in InUse : l # Null /\ level_price[l] \in Prices
    <2> TAKE l \in InUse
    <2>1. PICK s \in Resting : LevelOf(s) = l
      BY <1>3
    <2>2. level_price[l] = data[s].price /\ data[s] \in OrderData
      BY <2>1, OrdersView DEF OrdersSeen
    <2>3. l # Null
      BY BookAssumption DEF InUse
    <2> QED BY <2>2, <2>3 DEF OrderData
  <1>6. \A s \in Resting : data[s].side \in {"BUY", "SELL"} /\ data[s].price \in Prices
                           /\ data[s].order_id \in OrderIds
    BY OrdersView DEF OrdersSeen, OrderData, Side
  <1>7. \A s, t \in Resting :
          LevelOf(s) = LevelOf(t) <=>
            data[s].side = data[t].side /\ data[s].price = data[t].price
    <2> TAKE s, t \in Resting
    <2>1. /\ price_map[data[s].side][data[s].price] = LevelOf(s)
          /\ price_map[data[t].side][data[t].price] = LevelOf(t)
          /\ level_price[LevelOf(s)] = data[s].price
          /\ level_price[LevelOf(t)] = data[t].price
          /\ LevelOf(s) # Null
      BY <1>5, OrdersView DEF OrdersSeen
    <2>2. ASSUME LevelOf(s) = LevelOf(t) PROVE data[s].side = data[t].side
      BY <2>1, <2>2, <1>1, <1>6 DEF LevelsMapped
    <2> QED BY <2>1, <2>2
  <1>8. \A side \in Side, p \in Prices :
          price_map[side][p] # Null <=>
            \E s \in Resting : data[s].side = side /\ data[s].price = p
    <2> TAKE side \in Side, p \in Prices
    <2>1. ASSUME price_map[side][p] # Null
          PROVE  \E s \in Resting : data[s].side = side /\ data[s].price = p
      <3>1. price_map[side][p] \in InUse /\ level_price[price_map[side][p]] = p
        BY <2>1, <1>1 DEF LevelsMapped
      <3>2. PICK s \in Resting : LevelOf(s) = price_map[side][p]
        BY <3>1, <1>3
      <3>3. data[s].price = p
        BY <3>1, <3>2, OrdersView DEF OrdersSeen
      <3>4. price_map[data[s].side][p] = price_map[side][p]
        BY <3>2, <3>3, OrdersView DEF OrdersSeen
      <3>5. data[s].side = side
        BY <3>4, <2>1, <1>1, <1>6 DEF LevelsMapped, Side
      <3> QED BY <3>3, <3>5
    <2>2. ASSUME NEW s \in Resting, data[s].side = side, data[s].price = p
          PROVE  price_map[side][p] # Null
      BY <2>2, <1>5, OrdersView DEF OrdersSeen
    <2> QED BY <2>1, <2>2
  <1>9. \A id \in OrderIds : Found(id) <=> \E s \in Resting : data[s].order_id = id
    BY <1>1, OrdersView DEF OrdersSeen, IndexExact
  <1>10. \A s, t \in Resting : data[s].order_id = data[t].order_id => s = t
    BY OrdersView DEF OrdersSeen
  <1> QED BY <1>4, <1>5, <1>7, <1>8, <1>9, <1>10 DEF LevelsSeen

(* The places of a level's orders, and what its pointers say of them.      *)
PlacesSeen ==
  /\ \A s \in Resting :
       /\ Place(s) \in Nat \ {0}
       /\ \/ next_[s] = Null /\ \A t \in OrdersAt(LevelOf(s)) : Place(t) <= Place(s)
          \/ next_[s] \in OrdersAt(LevelOf(s)) /\ Place(next_[s]) = Place(s) + 1
       /\ \A k \in 1 .. Place(s) : \E t \in OrdersAt(LevelOf(s)) : Place(t) = k
  /\ \A s, t \in Resting : LevelOf(s) = LevelOf(t) /\ Place(s) = Place(t) => s = t
  /\ \A l \in InUse : head_[l] \in OrdersAt(l) /\ Place(head_[l]) = 1

(* The places of the orders in their lists under the invariant, as one     *)
(* named fact.                                                             *)
LEMMA PlacesView == BookInv => PlacesSeen
PROOF
  <1> SUFFICES ASSUME BookInv PROVE PlacesSeen
    OBVIOUS
  <1>1. BookTypeOK /\ IndexExact /\ LevelsMapped
    BY DEF BookInv
  <1>2. PICK pos \in [OrderSlots -> Nat] : pos = Numbering /\ Numbers(pos)
    BY NumberingNumbers
  <1>3. \A s : Place(s) = pos[s]
    BY <1>2 DEF Place
  <1>4. ASSUME NEW s \in Resting
        PROVE  /\ pos[s] \in Nat \ {0}
               /\ \/ next_[s] = Null /\ \A t \in OrdersAt(LevelOf(s)) : pos[t] <= pos[s]
                  \/ next_[s] \in OrdersAt(LevelOf(s)) /\ pos[next_[s]] = pos[s] + 1
               /\ \A k \in 1 .. pos[s] : \E t \in OrdersAt(LevelOf(s)) : pos[t] = k
    <2> DEFINE l == LevelOf(s)
    <2>1. l \in InUse
      BY OrdersView DEF OrdersSeen
    <2>2. \A t \in OrdersAt(l) : pos[t] \in 1 .. order_count[l] /\ order_count[l] \in Nat
      BY <1>1, <1>2, Neighbours DEF OrdersAt
    <2>3. s \in OrdersAt(l)
      BY DEF OrdersAt
    <2>4. \A k \in 1 .. pos[s] : \E t \in OrdersAt(l) : pos[t] = k
      BY <1>2, <2>1, <2>2, <2>3 DEF Numbers
    <2>5. \/ next_[s] = Null /\ \A t \in OrdersAt(l) : pos[t] <= pos[s]
          \/ next_[s] \in OrdersAt(l) /\ pos[next_[s]] = pos[s] + 1
      <3>1. CASE pos[s] = order_count[l]
        BY <3>1, <1>1, <1>2, <2>2, Neighbours
      <3>2. CASE pos[s] # order_count[l]
        BY <3>2, <1>1, <1>2, Neighbours
      <3> QED BY <3>1, <3>2
    <2> QED BY <2>2, <2>3, <2>4, <2>5
  <1>5. \A s, t \in Resting : LevelOf(s) = LevelOf(t) /\ pos[s] = pos[t] => s = t
    BY <1>2 DEF Numbers
  <1>6. \A l \in InUse : head_[l] \in OrdersAt(l) /\ pos[head_[l]] = 1
    BY <1>1, <1>2, LevelEnds
  <1> QED BY <1>3, <1>4, <1>5, <1>6 DEF PlacesSeen

(* Any numbering gives the orders their places.                            *)
PlacesAgree ==
  \A pos \in [OrderSlots -> Nat] : Numbers(pos) =>
    \A s \in Resting : Place(s) = pos[s]

(* An order's place is determined by the list: the first has place 0 and   *)
(* each next one has one more, so any two numberings agree.                *)
LEMMA PlacesDetermined == BookInv => PlacesAgree
PROOF
  BY NumberingNumbers, OneNumbering DEF BookInv, Place, PlacesAgree

(* All of this holds after a step that keeps the invariant as well.        *)
LEMMA ViewAfter ==
  BookInv' => OrdersSeen' /\ LevelsSeen' /\ PlacesSeen' /\ PlacesAgree'
PROOF
  <1>1. BookInv => OrdersSeen /\ LevelsSeen /\ PlacesSeen /\ PlacesAgree
    BY OrdersView, LevelsView, PlacesView, PlacesDetermined
  <1> QED BY <1>1, PTL

-----------------------------------------------------------------------------
(* s leaves the book; nothing else changes but the places behind it.       *)
Leaves(s) ==
  /\ Resting' = Resting \ {s}
  /\ \A t \in Resting' :
       /\ data'[t] = data[t] /\ LevelOf(t)' = LevelOf(t) /\ qty'[t] = qty[t]
       /\ Place(t)' = IF LevelOf(t) = LevelOf(s) /\ Place(t) > Place(s)
                      THEN Place(t) - 1 ELSE Place(t)

(* cancel_order(), on a book whose quantities are as a fill left them,     *)
(* takes one order out;                                                    *)
LEMMA CancelLeaves ==
  ASSUME BookInv, NEW id \in OrderIds,
         NEW s, NEW l, EntryOf(id, s, l),
         NEW quantity \in [OrderSlots -> 0 .. MaxQty],
         NEW totals \in [LevelSlots -> Nat],
         \A t \in OrderSlots \ {s} : quantity[t] = qty[t],
         \A m \in LevelSlots \ {l} : totals[m] = total_qty[m],
         totals[l] - quantity[s] = total_qty[l] - qty[s],
         CancelWith(id, quantity, totals)
  PROVE  BookInv' /\ s \in Resting /\ LevelOf(s) = l /\ Leaves(s)
PROOF
  <1>1. BookTypeOK /\ IndexExact /\ Found(id)
    BY DEF BookInv, CancelWith
  <1>2. s \in Resting /\ LevelOf(s) = l /\ s \in OrderSlots
    BY <1>1, FoundOrder
  <1>3. /\ Resting' = Resting \ {s}
        /\ \A t \in Resting' : t \in OrderSlots /\ data'[t] = data[t] /\ LevelOf(t)' = LevelOf(t)
    BY <1>1, CancelView
  <1>4. \A t \in Resting' : qty'[t] = qty[t]
    BY <1>1, <1>2, <1>3 DEF CancelWith, EntryOf
  <1>5. BookInv'
    BY CancelWithKeeps
  <1>6. PICK pos, pos1 \in [OrderSlots -> Nat] :
          Numbers(pos) /\ Numbers(pos1)' /\ MovesUp(pos, pos1, s)
    BY CancelWithKeeps
  <1>7. \A t \in Resting : Place(t) = pos[t]
    BY <1>6, PlacesDetermined DEF PlacesAgree
  <1>8. \A t \in Resting' : Place(t)' = pos1[t]
    BY <1>5, <1>6, ViewAfter DEF PlacesAgree
  <1> QED BY <1>2, <1>3, <1>4, <1>5, <1>6, <1>7, <1>8 DEF Leaves, MovesUp

(* s stays where it is with another quantity.                              *)
Shrinks(s, new_qty) ==
  /\ Resting' = Resting /\ data' = data
  /\ qty' = [qty EXCEPT ![s] = new_qty]
  /\ next_' = next_ /\ price_map' = price_map /\ level_price' = level_price
  /\ \A t \in Resting : LevelOf(t)' = LevelOf(t) /\ Place(t)' = Place(t)

(* o comes to rest, in slot s, behind the others of its level.             *)
Rests(o, s) ==
  /\ Enters(o, s)
  /\ \A t \in Resting :
       Place(t)' = Place(t) /\ (LevelOf(t) = LevelOf(s)' => Place(t) < Place(s)')

(* so does cancel_order() on the book as it stands,                        *)
LEMMA CancelOrderLeaves ==
  ASSUME BookInv, NEW id \in OrderIds, CancelOrder(id)
  PROVE  /\ BookInv' /\ Found(id) /\ FindOrder(id) \in Resting
         /\ Leaves(FindOrder(id))
PROOF
  <1>1. BookTypeOK /\ IndexExact /\ Found(id)
    BY DEF BookInv, CancelOrder, CancelWith
  <1>2. PICK s, l, quantity, totals :
          EntryOf(id, s, l) /\ quantity = qty /\ totals = total_qty
    BY DEF EntryOf
  <1>3. /\ quantity \in [OrderSlots -> 0 .. MaxQty]
        /\ totals \in [LevelSlots -> Nat]
        /\ \A t \in OrderSlots \ {s} : quantity[t] = qty[t]
        /\ \A m \in LevelSlots \ {l} : totals[m] = total_qty[m]
        /\ totals[l] - quantity[s] = total_qty[l] - qty[s]
    BY <1>1, <1>2 DEF BookTypeOK
  <1>4. CancelWith(id, quantity, totals)
    BY <1>2 DEF CancelOrder
  <1>5. BookInv' /\ s \in Resting /\ Leaves(s)
    BY <1>2, <1>3, <1>4, CancelLeaves
  <1>6. FindOrder(id) = s
    BY <1>2 DEF FindOrder, EntryOf
  <1> QED BY <1>1, <1>5, <1>6

(* An order that gives up part of its quantity changes nothing else that   *)
(* can be seen,                                                            *)
LEMMA ShrinkShrinks ==
  ASSUME BookInv, NEW s \in Resting, NEW l, l = LevelOf(s),
         NEW new_qty \in 1 .. MaxQty, new_qty <= qty[s],
         qty' = [qty EXCEPT ![s] = new_qty],
         total_qty' = [total_qty EXCEPT ![l] = @ - (qty[s] - new_qty)],
         UNCHANGED <<data, prev_, next_, level_price, order_count, head_, tail_,
                     mapVars, poolVars>>
  PROVE  BookInv' /\ Shrinks(s, new_qty)
PROOF
  <1>1. BookInv'
    BY ShrinkKeeps
  <1>2. PICK pos \in [OrderSlots -> Nat] : Numbers(pos)
    BY NumberingNumbers
  <1>3. /\ Resting' = Resting /\ InUse' = InUse
        /\ \A t : LevelOf(t)' = LevelOf(t)
        /\ \A m : OrdersAt(m)' = OrdersAt(m)
        /\ UNCHANGED <<data, prev_, next_, level_price, order_count, head_, tail_,
                       price_map>>
    BY DEF Resting, InUse, LevelOf, OrdersAt, mapVars, poolVars
  <1>4. Numbers(pos)'
    BY <1>2, <1>3 DEF Numbers
  <1>5. \A t \in Resting : Place(t) = pos[t] /\ Place(t)' = pos[t]
    BY <1>1, <1>2, <1>3, <1>4, PlacesDetermined, ViewAfter DEF PlacesAgree
  <1> QED BY <1>1, <1>3, <1>5 DEF Shrinks

(* which is what replace_order_in_place() does,                            *)
LEMMA ReplaceShrinks ==
  ASSUME BookInv, NEW id \in OrderIds, NEW new_qty \in Quantity, Found(id),
         new_qty <= qty[FindOrder(id)], ReplaceOrderInPlace(id, new_qty)
  PROVE  /\ BookInv' /\ FindOrder(id) \in Resting
         /\ Shrinks(FindOrder(id), new_qty)
PROOF
  <1>1. BookTypeOK /\ IndexExact
    BY DEF BookInv
  <1>2. PICK s, l : EntryOf(id, s, l)
    BY DEF EntryOf
  <1>3. s \in Resting /\ LevelOf(s) = l /\ new_qty <= qty[s] /\ FindOrder(id) = s
    BY <1>1, <1>2, FoundOrder DEF FindOrder, EntryOf
  <1>4. /\ qty' = [qty EXCEPT ![s] = new_qty]
        /\ total_qty' = [total_qty EXCEPT ![l] = @ - (qty[s] - new_qty)]
        /\ UNCHANGED <<data, prev_, next_, level_price, order_count, head_, tail_,
                       mapVars, poolVars>>
    BY <1>2 DEF ReplaceOrderInPlace, EntryOf
  <1>5. new_qty \in 1 .. MaxQty
    BY DEF Quantity
  <1> QED BY <1>3, <1>4, <1>5, ShrinkShrinks

(* and apply_fill(), unless it takes the order out.                        *)
LEMMA FillLeavesOrShrinks ==
  ASSUME BookInv, NEW s \in Resting, NEW fill_qty \in Quantity,
         fill_qty <= qty[s], ApplyFill(s, LevelOf(s), fill_qty)
  PROVE  /\ BookInv'
         /\ \/ fill_qty = qty[s] /\ Leaves(s)
            \/ fill_qty < qty[s] /\ Shrinks(s, qty[s] - fill_qty)
PROOF
  <1>1. BookTypeOK /\ IndexExact /\ LevelsMapped
    BY DEF BookInv
  <1>2. PICK l, quantity, totals :
          /\ l = LevelOf(s)
          /\ quantity = [qty EXCEPT ![s] = @ - fill_qty]
          /\ totals = [total_qty EXCEPT ![l] = @ - fill_qty]
    OBVIOUS
  <1>3. PICK pos, cum \in [OrderSlots -> Nat] : Numbers(pos) /\ Sums(pos, cum)
    BY DEF BookInv, Structured
  <1>4. /\ s \in OrderSlots /\ l \in InUse /\ l \in LevelSlots
        /\ data[s] \in OrderData
        /\ Found(data[s].order_id) /\ FindOrder(data[s].order_id) = s
    BY <1>1, <1>2, RestingOrder
  <1>5. /\ qty[s] \in Nat /\ qty[s] <= total_qty[l] /\ total_qty[l] \in Nat
        /\ qty[s] <= MaxQty /\ fill_qty \in Nat /\ fill_qty > 0
    <2>1. qty[s] \in 0 .. MaxQty /\ fill_qty \in 1 .. MaxQty
      BY <1>1, <1>4 DEF BookTypeOK, Quantity
    <2>2. cum[s] \in Nat /\ qty[s] <= cum[s] /\ cum[s] <= total_qty[l]
          /\ total_qty[l] \in Nat
      BY <1>1, <1>2, <1>3, <1>4, TotalCovers
    <2> QED BY <2>1, <2>2, BookAssumption
  <1>6. /\ quantity[s] = qty[s] - fill_qty
        /\ totals[l] = total_qty[l] - fill_qty
        /\ \A t \in OrderSlots \ {s} : quantity[t] = qty[t]
        /\ \A m \in LevelSlots \ {l} : totals[m] = total_qty[m]
    BY <1>1, <1>2, <1>4 DEF BookTypeOK
  <1>7. CASE quantity[s] = 0
    <2>1. PICK id : id = data[s].order_id
      OBVIOUS
    <2>2. /\ id \in OrderIds
          /\ EntryOf(id, s, l)
      BY <2>1, <1>2, <1>4 DEF OrderData, FindOrder, LevelOf, EntryOf
    <2>3. CancelWith(id, quantity, totals)
      BY <2>1, <1>2, <1>7 DEF ApplyFill
    <2>4. qty[s] - fill_qty \in 0 .. MaxQty /\ total_qty[l] - fill_qty \in Nat
      BY <1>5, BookAssumption
    <2>5. quantity \in [OrderSlots -> 0 .. MaxQty]
      BY <2>4, <1>1, <1>2, <1>4 DEF BookTypeOK
    <2>6. totals \in [LevelSlots -> Nat]
      BY <2>4, <1>1, <1>2, <1>4 DEF BookTypeOK
    <2>7. totals[l] - quantity[s] = total_qty[l] - qty[s]
      BY <1>5, <1>6, <1>7
    <2>8. fill_qty = qty[s]
      BY <1>5, <1>6, <1>7
    <2> QED BY <2>2, <2>3, <2>5, <2>6, <2>7, <2>8, <1>6, CancelLeaves
  <1>8. CASE quantity[s] # 0
    <2>1. PICK new_qty : new_qty = qty[s] - fill_qty
      OBVIOUS
    <2>2. /\ new_qty \in 1 .. MaxQty /\ new_qty <= qty[s] /\ fill_qty < qty[s]
          /\ qty[s] - new_qty = fill_qty
      BY <2>1, <1>5, <1>6, <1>8, BookAssumption
    <2>3. /\ qty' = quantity /\ total_qty' = totals
          /\ UNCHANGED <<data, prev_, next_, level_price, order_count, head_, tail_,
                         mapVars, poolVars>>
      BY <1>2, <1>8 DEF ApplyFill
    <2>4. /\ qty' = [qty EXCEPT ![s] = new_qty]
          /\ total_qty' = [total_qty EXCEPT ![l] = @ - (qty[s] - new_qty)]
      BY <2>1, <2>2, <2>3, <1>2
    <2> QED BY <2>1, <2>2, <2>3, <2>4, <1>2, ShrinkShrinks
  <1> QED BY <1>7, <1>8

(* add_order() refuses an order for one of three reasons, and then leaves  *)
(* the book as it was.                                                     *)
Refuses(o) ==
  /\ UNCHANGED <<orderVars, levelVars, mapVars, order_pool, level_pool>>
  /\ \/ Found(o.order_id)
     \/ order_pool = {} /\ order_pool_dry' = TRUE
     \/ level_pool = {} /\ level_pool_dry' = TRUE

(* add_order() rests the order or leaves the book as it was.               *)
LEMMA AddOrderRests ==
  ASSUME BookInv, NEW o \in RestableOrder, AddOrder(o)
  PROVE  /\ BookInv'
         /\ (\E s \in OrderSlots : Rests(o, s)) \/ Refuses(o)
PROOF
  <1>1. ASSUME NEW s \in OrderSlots, RestAtLevel(o, s) PROVE BookInv' /\ Rests(o, s)
    <2>1. PICK l : LevelFor(o, l)
      BY DEF LevelFor
    <2>2. /\ BookInv' /\ Enters(o, s)
          /\ \E pos, pos1 \in [OrderSlots -> Nat] :
               Numbers(pos) /\ Numbers(pos1)' /\ Joins(pos, pos1, s)
      BY <1>1, <2>1, RestAtLevelKeeps
    <2> QED BY <2>2, PlacesDetermined, ViewAfter DEF PlacesAgree, Rests, Joins, Enters
  <1>2. ASSUME NEW s \in OrderSlots, NEW l \in LevelSlots, RestAtNewLevel(o, s, l)
        PROVE  BookInv' /\ Rests(o, s)
    <2>1. /\ BookInv' /\ Enters(o, s)
          /\ \E pos, pos1 \in [OrderSlots -> Nat] :
               Numbers(pos) /\ Numbers(pos1)' /\ Joins(pos, pos1, s)
      BY <1>2, RestAtNewLevelKeeps
    <2> QED BY <2>1, PlacesDetermined, ViewAfter DEF PlacesAgree, Rests, Joins, Enters
  <1>3. CASE RejectDuplicate(o) \/ NoOrderSlot(o) \/ NoLevelSlot(o)
    <2>1. BookInv'
      BY <1>3, StutterKeeps, ShortageKeeps DEF RejectDuplicate
    <2>2. Refuses(o)
      BY <1>3 DEF RejectDuplicate, NoOrderSlot, NoLevelSlot, OrderPool!AcquireFails,
           LevelPool!AcquireFails, bookVars, poolVars, Refuses
    <2> QED BY <2>1, <2>2
  <1> QED BY <1>1, <1>2, <1>3 DEF AddOrder

(* Every call keeps the invariant.                                         *)
LEMMA StepKeeps == ASSUME BookInv, [BookNext]_bookVars PROVE BookInv'
PROOF
  <1>1. ASSUME NEW o \in RestableOrder, AddOrder(o) PROVE BookInv'
    BY <1>1, AddOrderRests
  <1>2. ASSUME NEW id \in OrderIds, CancelOrder(id) PROVE BookInv'
    BY <1>2, CancelOrderLeaves
  <1>3. ASSUME NEW id \in OrderIds, UnknownOrder(id) PROVE BookInv'
    BY <1>3, StutterKeeps DEF UnknownOrder
  <1>4. ASSUME NEW id \in OrderIds, NEW new_qty \in Quantity,
               Found(id), new_qty <= qty[FindOrder(id)],
               ReplaceOrderInPlace(id, new_qty)
        PROVE  BookInv'
    BY <1>4, ReplaceShrinks
  <1>5. ASSUME NEW s \in Resting, NEW fill_qty \in Quantity,
               fill_qty <= qty[s], ApplyFill(s, LevelOf(s), fill_qty)
        PROVE  BookInv'
    BY <1>5, FillLeavesOrShrinks
  <1>6. CASE Reset
    BY <1>6, ResetBook DEF BookInv
  <1>7. CASE UNCHANGED bookVars
    BY <1>7, StutterKeeps
  <1> QED BY <1>1, <1>2, <1>3, <1>4, <1>5, <1>6, <1>7 DEF BookNext

-----------------------------------------------------------------------------
(* A numbering of the orders never exceeds the slab (pigeonhole).          *)
LEMMA NumberingFits ==
  ASSUME BookTypeOK, IndexExact, NEW pos \in [OrderSlots -> Nat], Numbers(pos),
         NEW s \in Resting
  PROVE  pos[s] \in 0 .. Cardinality(OrderSlots)
PROOF
  <1>1. PICK n, l : l = LevelOf(s) /\ n = order_count[l]
    OBVIOUS
  <1>2. n \in Nat /\ pos[s] \in 1 .. n /\ l \in InUse
    BY <1>1, Neighbours, RestingOrder
  <1>3. \A k \in 1 .. n : \E t \in OrdersAt(l) : pos[t] = k
    BY <1>1, <1>2 DEF Numbers
  <1>4. PICK f : f = [k \in 1 .. n |-> CHOOSE t \in OrdersAt(l) : pos[t] = k]
    OBVIOUS
  <1>5. \A k \in 1 .. n : f[k] \in OrdersAt(l) /\ pos[f[k]] = k
    BY <1>3, <1>4
  <1>6. f \in [1 .. n -> OrderSlots] /\ \A j, k \in 1 .. n : f[j] = f[k] => j = k
    BY <1>4, <1>5 DEF OrdersAt, Resting
  <1>7. f \in Injection(1 .. n, OrderSlots)
    BY <1>6 DEF Injection, IsInjective
  <1>8. Cardinality(1 .. n) <= Cardinality(OrderSlots)
    BY <1>7, BookAssumption, FS_Injection
  <1>9. Cardinality(1 .. n) = n
    BY <1>2, FS_Interval
  <1>10. Cardinality(OrderSlots) \in Nat
    BY BookAssumption, FS_CardinalityType
  <1> QED BY <1>2, <1>8, <1>9, <1>10

(* The invariant implies that the lists of every level are linked both     *)
(* ways.                                                                   *)
LEMMA InvImpliesListsLinked == BookInv => ListsLinked
PROOF
  <1> SUFFICES ASSUME BookInv PROVE ListsLinked
    OBVIOUS
  <1>1. PICK pos, cum \in [OrderSlots -> Nat] : Numbers(pos) /\ Sums(pos, cum)
    BY DEF BookInv, Structured
  <1>2. PICK pos1 : pos1 = [s \in OrderSlots |-> IF s \in Resting THEN pos[s] ELSE 0]
    OBVIOUS
  <1>3. \A s \in Resting : pos1[s] = pos[s]
    BY <1>2 DEF Resting
  <1>4. 0 \in 0 .. Cardinality(OrderSlots)
    BY BookAssumption, FS_CardinalityType
  <1>5. pos1 \in [OrderSlots -> 0 .. Cardinality(OrderSlots)]
    BY <1>1, <1>2, <1>4, NumberingFits DEF BookInv
  <1>6. Numbers(pos1)
    BY <1>1, <1>3 DEF Numbers, OrdersAt
  <1> QED BY <1>5, <1>6 DEF ListsLinked

(* The table behind Walk: row k holds the walks cut off after k orders.    *)
Walks(w) ==
  w = [k \in 0 .. Cardinality(OrderSlots) |->
         [s \in OrderSlots \cup {Null} |->
            IF k = 0 \/ s = Null THEN <<>> ELSE <<s>> \o w[k - 1][next_[s]]]]

(* There is such a table, and Walk is its last row.                        *)
LEMMA WalksExist ==
  ASSUME next_ \in [OrderSlots -> OrderSlots \cup {Null}]
  PROVE  \E w : Walks(w) /\ Walk = w[Cardinality(OrderSlots)]
PROOF
  <1> DEFINE Slots == OrderSlots \cup {Null}
             row(w, k) == [s \in Slots |->
                             IF k = 0 \/ s = Null THEN <<>> ELSE <<s>> \o w[k - 1][next_[s]]]
             table(w, n) == w = [k \in 0 .. n |-> row(w, k)]
             T == {n \in Nat : \E w : table(w, n)}
  <1>1. 0 \in T
    <2> DEFINE w == [k \in 0 .. 0 |-> [s \in Slots |-> <<>>]]
    <2>1. \A k \in 0 .. 0 : w[k] = row(w, k)
      OBVIOUS
    <2>2. table(w, 0)
      BY <2>1
    <2> QED BY <2>2
  <1>2. ASSUME NEW n \in Nat, n \in T PROVE n + 1 \in T
    <2>1. PICK w : table(w, n)
      BY <1>2
    <2> DEFINE v == [k \in 0 .. n + 1 |-> row(w, k)]
    <2>2. ASSUME NEW k \in 0 .. n PROVE v[k] = w[k]
      <3>1. k \in 0 .. n + 1
        OBVIOUS
      <3>2. v[k] = row(w, k)
        BY <3>1
      <3>3. w[k] = row(w, k)
        BY <2>1
      <3> QED BY <3>2, <3>3
    <2>3. ASSUME NEW k \in 0 .. n + 1 PROVE row(w, k) = row(v, k)
      <3>1. CASE k = 0
        BY <3>1
      <3>2. CASE k # 0
        <4>1. k - 1 \in 0 .. n
          BY <3>2
        <4>2. v[k - 1] = w[k - 1]
          BY <4>1, <2>2
        <4> HIDE DEF v
        <4> QED BY <4>2
      <3> QED BY <3>1, <3>2
    <2>4. table(v, n + 1)
      BY <2>3
    <2>5. n + 1 \in Nat
      OBVIOUS
    <2> HIDE DEF v, table
    <2> QED BY <2>4, <2>5
  <1>3. Nat \subseteq T
    <2> HIDE DEF T
    <2> QED BY <1>1, <1>2, Induct
  <1>4. \E w : Walks(w)
    <2>1. Cardinality(OrderSlots) \in T
      BY <1>3, BookAssumption, FS_CardinalityType
    <2> QED BY <2>1 DEF Walks
  <1>5. Walk = (CHOOSE w : Walks(w))[Cardinality(OrderSlots)]
    BY Zenon DEF Walk, Walks
  <1> QED BY <1>4, <1>5

(* What a walk along the links finds: the orders of the level from where   *)
(* it starts, each at its place.                                           *)
WalksSeen ==
  /\ Walk[Null] = <<>>
  /\ \A l \in InUse : \A s \in OrdersAt(l) :
       /\ Walk[s] \in Seq(OrdersAt(l))
       /\ Len(Walk[s]) = order_count[l] - Place(s) + 1
       /\ \A i \in 1 .. Len(Walk[s]) : Place(Walk[s][i]) = Place(s) + i - 1

(* The walks from the orders of a level.                                   *)
LEMMA WalksAtLevel ==
  ASSUME BookInv, NEW l \in InUse
  PROVE  \A s \in OrdersAt(l) :
           /\ Walk[s] \in Seq(OrdersAt(l))
           /\ Len(Walk[s]) = order_count[l] - Place(s) + 1
           /\ \A i \in 1 .. Len(Walk[s]) : Place(Walk[s][i]) = Place(s) + i - 1
PROOF
  <1>1. BookTypeOK /\ IndexExact /\ LevelsMapped
    BY DEF BookInv
  <1>2. PICK pos \in [OrderSlots -> Nat] : pos = Numbering /\ Numbers(pos)
    BY NumberingNumbers
  <1>3. PICK w : Walks(w) /\ Walk = w[Cardinality(OrderSlots)]
    BY <1>1, WalksExist DEF BookTypeOK
  <1>4. PICK m, n : m = Cardinality(OrderSlots) /\ n = order_count[l]
    OBVIOUS
  <1>5. /\ m \in Nat /\ n \in Nat \ {0} /\ n <= m
        /\ head_[l] \in OrdersAt(l) /\ pos[head_[l]] = 1
        /\ tail_[l] \in OrdersAt(l) /\ pos[tail_[l]] = n
    <2>1. n \in Nat \ {0} /\ tail_[l] \in OrdersAt(l) /\ pos[tail_[l]] = n
          /\ head_[l] \in OrdersAt(l) /\ pos[head_[l]] = 1
      BY <1>1, <1>2, <1>4, LevelEnds
    <2>2. n \in 0 .. m
      BY <2>1, <1>1, <1>2, <1>4, NumberingFits DEF OrdersAt
    <2> QED BY <2>1, <2>2, <1>4, BookAssumption, FS_CardinalityType
  <1>6. \A s \in OrdersAt(l) :
          /\ s \in OrderSlots /\ s # Null
          /\ pos[s] \in 1 .. n
          /\ pos[s] = n => next_[s] = Null
          /\ pos[s] # n => next_[s] \in OrdersAt(l) /\ pos[next_[s]] = pos[s] + 1
    <2> TAKE s \in OrdersAt(l)
    <2>1. s \in Resting /\ LevelOf(s) = l
      BY DEF OrdersAt
    <2>2. s \in OrderSlots /\ s # Null
      BY <2>1, BookAssumption DEF Resting
    <2>3. /\ pos[s] \in 1 .. n
          /\ pos[s] = n => next_[s] = Null
          /\ pos[s] # n => next_[s] \in OrdersAt(l) /\ pos[next_[s]] = pos[s] + 1
      BY <2>1, <1>1, <1>2, <1>4, Neighbours
    <2> QED BY <2>2, <2>3
  <1> DEFINE from(q, s) == /\ q \in Seq(OrdersAt(l))
                           /\ Len(q) = n - pos[s] + 1
                           /\ \A i \in 1 .. Len(q) : pos[q[i]] = pos[s] + i - 1
             holds(k) == k <= m => \A s \in OrdersAt(l) : n - pos[s] < k => from(w[k][s], s)
             T == {k \in Nat : holds(k)}
  <1>7. 0 \in T
    BY <1>5, <1>6
  <1>8. ASSUME NEW k \in Nat, k \in T PROVE k + 1 \in T
    <2> SUFFICES ASSUME k + 1 <= m, NEW s \in OrdersAt(l), n - pos[s] < k + 1
                 PROVE  from(w[k + 1][s], s)
      OBVIOUS
    <2>1. w[k + 1][s] = <<s>> \o w[k][next_[s]]
      <3>1. k + 1 \in 0 .. Cardinality(OrderSlots) /\ k + 1 # 0 /\ (k + 1) - 1 = k
        BY <1>4
      <3>2. s \in OrderSlots \cup {Null} /\ s # Null
        BY <1>6
      <3>3. \A j \in 0 .. Cardinality(OrderSlots) :
              w[j] = [t \in OrderSlots \cup {Null} |->
                        IF j = 0 \/ t = Null THEN <<>> ELSE <<t>> \o w[j - 1][next_[t]]]
        BY <1>3 DEF Walks
      <3>4. w[k + 1] = [t \in OrderSlots \cup {Null} |->
                          IF k + 1 = 0 \/ t = Null THEN <<>>
                          ELSE <<t>> \o w[(k + 1) - 1][next_[t]]]
        BY <3>1, <3>3, Zenon
      <3>5. w[k + 1][s] = <<s>> \o w[(k + 1) - 1][next_[s]]
        BY <3>1, <3>2, <3>4, Zenon
      <3> QED BY <3>1, <3>5
    <2>2. CASE pos[s] = n
      <3>1. next_[s] = Null
        BY <2>2, <1>6
      <3>2. w[k][Null] = <<>>
        <4>1. k \in 0 .. Cardinality(OrderSlots)
          BY <1>4, <1>5
        <4> QED BY <4>1, <1>3 DEF Walks
      <3>3. w[k + 1][s] = <<s>>
        BY <2>1, <3>1, <3>2
      <3>4. /\ <<s>> \in Seq(OrdersAt(l)) /\ Len(<<s>>) = 1
            /\ \A i \in 1 .. 1 : pos[<<s>>[i]] = n
        BY <2>2
      <3>5. n - pos[s] + 1 = 1 /\ \A i \in 1 .. 1 : pos[s] + i - 1 = n
        BY <2>2, <1>5
      <3> HIDE DEF holds
      <3> QED BY <3>3, <3>4, <3>5
    <2>3. CASE pos[s] # n
      <3>1. next_[s] \in OrdersAt(l) /\ pos[next_[s]] = pos[s] + 1
        BY <2>3, <1>6
      <3>2. pos[s] \in 1 .. n
        BY <1>6
      <3>3. n - pos[next_[s]] < k /\ k <= m
        BY <3>1, <3>2, <1>5
      <3>4. from(w[k][next_[s]], next_[s])
        BY <1>8, <3>1, <3>3
      <3>5. PICK q : q = w[k][next_[s]]
        OBVIOUS
      <3>6. /\ q \in Seq(OrdersAt(l)) /\ Len(q) = n - pos[s]
            /\ \A i \in 1 .. Len(q) : pos[q[i]] = pos[s] + i
        <4>1. /\ q \in Seq(OrdersAt(l)) /\ Len(q) = n - pos[next_[s]] + 1
              /\ \A i \in 1 .. Len(q) : pos[q[i]] = pos[next_[s]] + i - 1
          BY <3>4, <3>5
        <4> HIDE DEF from, holds
        <4>2. Len(q) = n - pos[s]
          BY <4>1, <3>1, <3>2, <1>5
        <4>3. ASSUME NEW i \in 1 .. Len(q) PROVE pos[q[i]] = pos[s] + i
          <5>1. pos[q[i]] = pos[next_[s]] + i - 1 /\ i \in Int
            BY <4>1, <4>2, <3>2, <1>5
          <5> QED BY <5>1, <3>1, <3>2
        <4> QED BY <4>1, <4>2, <4>3
      <3>7. <<s>> \o q \in Seq(OrdersAt(l)) /\ Len(<<s>> \o q) = n - pos[s] + 1
        <4>1. <<s>> \in Seq(OrdersAt(l)) /\ Len(<<s>>) = 1
          OBVIOUS
        <4>3. <<s>> \o q \in Seq(OrdersAt(l))
          BY <4>1, <3>6
        <4>4. Len(<<s>> \o q) = Len(<<s>>) + Len(q)
          BY <4>1, <3>6
        <4>2. <<s>> \o q \in Seq(OrdersAt(l)) /\ Len(<<s>> \o q) = 1 + Len(q)
          BY <4>1, <4>3, <4>4
        <4> HIDE DEF holds
        <4> QED BY <4>2, <3>2, <3>6, <1>5
      <3>8. ASSUME NEW i \in 1 .. Len(<<s>> \o q)
            PROVE  pos[(<<s>> \o q)[i]] = pos[s] + i - 1
        <4>1. CASE i = 1
          <5>1. (<<s>> \o q)[i] = s
            BY <4>1, <3>6
          <5> QED BY <5>1, <4>1, <3>2
        <4>2. CASE i # 1
          <5>1. i - 1 \in 1 .. Len(q)
            BY <4>2, <3>2, <3>6, <3>7, <1>5
          <5>2. (<<s>> \o q)[i] = q[i - 1]
            BY <5>1, <3>6
          <5> QED BY <5>1, <5>2, <3>2, <3>6
        <4> QED BY <4>1, <4>2
      <3> QED BY <2>1, <3>5, <3>7, <3>8
    <2> QED BY <2>2, <2>3
  <1>9. Nat \subseteq T
    <2> HIDE DEF T
    <2> QED BY <1>7, <1>8, Induct
  <1>10. ASSUME NEW s \in OrdersAt(l) PROVE from(w[m][s], s)
    <2>1. n - pos[s] < m /\ m \in T
      BY <1>5, <1>6, <1>9
    <2> QED BY <1>5, <2>1
  <1>11. \A s : Place(s) = pos[s]
    BY <1>2 DEF Place
  <1> QED BY <1>3, <1>4, <1>10, <1>11

(* What the walks find under the invariant, as one named fact.             *)
LEMMA WalksView == BookInv => WalksSeen
PROOF
  <1> SUFFICES ASSUME BookInv PROVE Walk[Null] = <<>>
    BY WalksAtLevel DEF WalksSeen
  <1>1. PICK w : Walks(w) /\ Walk = w[Cardinality(OrderSlots)]
    BY WalksExist DEF BookInv, BookTypeOK
  <1>2. Cardinality(OrderSlots) \in 0 .. Cardinality(OrderSlots)
    BY BookAssumption, FS_CardinalityType
  <1> QED BY <1>1, <1>2 DEF Walks

(* The same after a step: the lemma for the primed book.                   *)
LEMMA WalksAfter == BookInv' => WalksSeen'
PROOF
  BY WalksView, PTL

(* The queue that a reader of the links sees at a level: its orders, each  *)
(* at its place.                                                           *)
ChainsSeen ==
  \A l \in InUse :
    /\ Chain(l) \in Seq(OrdersAt(l))
    /\ \A i \in 1 .. Len(Chain(l)) : Place(Chain(l)[i]) = i
    /\ \A s \in OrdersAt(l) :
         Place(s) \in 1 .. Len(Chain(l)) /\ Chain(l)[Place(s)] = s

(* What the walks along the lists find under the invariant, as one named   *)
(* fact.                                                                   *)
LEMMA ChainsView == BookInv => ChainsSeen
PROOF
  <1> SUFFICES ASSUME BookInv, NEW l \in InUse
               PROVE  /\ Chain(l) \in Seq(OrdersAt(l))
                      /\ \A i \in 1 .. Len(Chain(l)) : Place(Chain(l)[i]) = i
                      /\ \A s \in OrdersAt(l) :
                           Place(s) \in 1 .. Len(Chain(l)) /\ Chain(l)[Place(s)] = s
    BY DEF ChainsSeen
  <1>1. BookTypeOK /\ IndexExact /\ LevelsMapped
    BY DEF BookInv
  <1>2. PICK pos \in [OrderSlots -> Nat] : pos = Numbering /\ Numbers(pos)
    BY NumberingNumbers
  <1>3. PICK n : n = order_count[l]
    OBVIOUS
  <1>4. n \in Nat \ {0} /\ head_[l] \in OrdersAt(l) /\ pos[head_[l]] = 1
    BY <1>1, <1>2, <1>3, LevelEnds
  <1>5. \A s \in OrdersAt(l) : pos[s] \in 1 .. n
    BY <1>1, <1>2, <1>3, Neighbours DEF OrdersAt
  <1>6. \A s : Place(s) = pos[s]
    BY <1>2 DEF Place
  <1>7. Chain(l) = Walk[head_[l]] /\ l # Null
    <2>1. l # Null
      BY BookAssumption DEF InUse
    <2> QED BY <2>1 DEF Chain
  <1>8. /\ Chain(l) \in Seq(OrdersAt(l)) /\ Len(Chain(l)) = n
        /\ \A i \in 1 .. n : pos[Chain(l)[i]] = i
    <2>1. PICK q : q = Walk[head_[l]]
      OBVIOUS
    <2>2. /\ q \in Seq(OrdersAt(l)) /\ Len(q) = n - 1 + 1
          /\ \A i \in 1 .. Len(q) : pos[q[i]] = 1 + i - 1
      BY <1>3, <1>4, <1>6, <2>1, WalksView DEF WalksSeen
    <2> QED BY <1>4, <1>7, <2>1, <2>2
  <1>9. ASSUME NEW s \in OrdersAt(l) PROVE Chain(l)[pos[s]] = s
    <2>1. pos[s] \in 1 .. n
      BY <1>5
    <2>2. Chain(l)[pos[s]] \in OrdersAt(l) /\ pos[Chain(l)[pos[s]]] = pos[s]
      BY <2>1, <1>8
    <2> QED BY <2>2, <1>2 DEF Numbers, OrdersAt
  <1> QED BY <1>5, <1>6, <1>8, <1>9

(* The same after a step: the lemma for the primed book.                   *)
LEMMA ChainsAfter == BookInv' => ChainsSeen'
PROOF
  BY ChainsView, PTL

(* The queues of the book: each order at its place, and nothing else.      *)
QueuesSeen ==
  /\ \A s \in Resting :
       /\ Place(s) \in 1 .. Len(Queue[data[s].side][data[s].price])
       /\ Queue[data[s].side][data[s].price][Place(s)] = OrderAt(s)
  /\ \A side \in Side, p \in Prices :
       /\ Len(Queue[side][p]) \in Nat
       /\ \A i \in 1 .. Len(Queue[side][p]) :
            \E s \in Resting : /\ data[s].side = side /\ data[s].price = p
                               /\ Place(s) = i /\ Queue[side][p][i] = OrderAt(s)

(* What queues() reads under the invariant, as one named fact.             *)
LEMMA QueuesView == BookInv => QueuesSeen
PROOF
  <1> SUFFICES ASSUME BookInv PROVE QueuesSeen
    OBVIOUS
  <1>1. \A side \in Side, p \in Prices :
          Queue[side][p] = [i \in 1 .. Len(Chain(price_map[side][p])) |->
                              OrderAt(Chain(price_map[side][p])[i])]
    BY DEF Queue
  <1>2. \A side \in Side, p \in Prices :
          price_map[side][p] # Null =>
            /\ price_map[side][p] \in InUse
            /\ \A s \in Resting : s \in OrdersAt(price_map[side][p]) <=>
                 data[s].side = side /\ data[s].price = p
    <2> SUFFICES ASSUME NEW side \in Side, NEW p \in Prices, price_map[side][p] # Null
                 PROVE  /\ price_map[side][p] \in InUse
                        /\ \A s \in Resting : s \in OrdersAt(price_map[side][p]) <=>
                             data[s].side = side /\ data[s].price = p
      OBVIOUS
    <2>1. PICK t \in Resting : data[t].side = side /\ data[t].price = p
      BY LevelsView DEF LevelsSeen
    <2>2. price_map[side][p] = LevelOf(t) /\ LevelOf(t) \in InUse
      BY <2>1, OrdersView DEF OrdersSeen
    <2> QED BY <2>1, <2>2, LevelsView DEF LevelsSeen, OrdersAt
  <1>3. ASSUME NEW side \in Side, NEW p \in Prices
        PROVE  /\ Len(Chain(price_map[side][p])) \in Nat
               /\ Len(Queue[side][p]) = Len(Chain(price_map[side][p]))
               /\ \A i \in 1 .. Len(Queue[side][p]) :
                    /\ Queue[side][p][i] = OrderAt(Chain(price_map[side][p])[i])
                    /\ Chain(price_map[side][p])[i] \in OrdersAt(price_map[side][p])
                    /\ price_map[side][p] # Null
                    /\ Place(Chain(price_map[side][p])[i]) = i
    <2>1. PICK l : l = price_map[side][p]
      OBVIOUS
    <2>2. /\ Len(Chain(l)) \in Nat
          /\ \A i \in 1 .. Len(Chain(l)) :
               Chain(l)[i] \in OrdersAt(l) /\ l # Null /\ Place(Chain(l)[i]) = i
      <3>1. CASE l = Null
        <4>1. Chain(l) = <<>>
          BY <3>1 DEF Chain
        <4> QED BY <4>1
      <3>2. CASE l # Null
        <4>1. l \in InUse
          BY <1>2, <2>1, <3>2
        <4>2. /\ Chain(l) \in Seq(OrdersAt(l))
              /\ \A i \in 1 .. Len(Chain(l)) : Place(Chain(l)[i]) = i
          BY <4>1, ChainsView DEF ChainsSeen
        <4> QED BY <3>2, <4>2
      <3> QED BY <3>1, <3>2
    <2>3. Queue[side][p] = [i \in 1 .. Len(Chain(l)) |-> OrderAt(Chain(l)[i])]
      BY <1>1, <2>1
    <2>4. Len(Queue[side][p]) = Len(Chain(l))
      BY <2>2, <2>3
    <2> QED BY <2>1, <2>2, <2>3, <2>4
  <1>4. ASSUME NEW s \in Resting
        PROVE  /\ Place(s) \in 1 .. Len(Queue[data[s].side][data[s].price])
               /\ Queue[data[s].side][data[s].price][Place(s)] = OrderAt(s)
    <2>1. PICK side \in Side, p \in Prices : side = data[s].side /\ p = data[s].price
      BY OrdersView DEF OrdersSeen, OrderData
    <2>2. PICK l : l = price_map[side][p] /\ l \in InUse /\ s \in OrdersAt(l)
      BY <2>1, OrdersView DEF OrdersSeen, OrdersAt
    <2>3. Place(s) \in 1 .. Len(Chain(l)) /\ Chain(l)[Place(s)] = s
      BY <2>2, ChainsView DEF ChainsSeen
    <2> QED BY <1>3, <2>1, <2>2, <2>3
  <1>5. ASSUME NEW side \in Side, NEW p \in Prices, NEW i \in 1 .. Len(Queue[side][p])
        PROVE  \E s \in Resting : /\ data[s].side = side /\ data[s].price = p
                                  /\ Place(s) = i /\ Queue[side][p][i] = OrderAt(s)
    <2>1. PICK s : s = Chain(price_map[side][p])[i]
      OBVIOUS
    <2>2. /\ Queue[side][p][i] = OrderAt(s) /\ s \in OrdersAt(price_map[side][p])
          /\ price_map[side][p] # Null /\ Place(s) = i
      BY <1>3, <1>5, <2>1
    <2>3. s \in Resting
      BY <2>2 DEF OrdersAt
    <2> QED BY <1>2, <2>2, <2>3
  <1> QED BY <1>3, <1>4, <1>5 DEF QueuesSeen

(* The same after a step: the lemma for the primed book.                   *)
LEMMA QueuesAfter == BookInv' => QueuesSeen'
PROOF
  BY QueuesView, PTL

(* An unchanged book shows the same queues.                                *)
LEMMA SameQueue ==
  ASSUME UNCHANGED bookVars PROVE Queue' = Queue
PROOF
  <1>1. UNCHANGED <<data, qty, next_, head_, price_map>>
    BY DEF bookVars, orderVars, levelVars, mapVars
  <1> QED BY <1>1 DEF Queue, Chain, Walk, OrderAt

(* A level's total is the sum its orders accumulate.                       *)
LEMMA InvImpliesLevelTotals == BookInv => LevelTotals
PROOF
  <1> SUFFICES ASSUME BookInv, NEW l \in InUse
               PROVE  total_qty[l] = MapThenSumSet(LAMBDA s : qty[s], OrdersAt(l))
    BY DEF LevelTotals
  <1>1. BookTypeOK /\ IndexExact /\ LevelsMapped
    BY DEF BookInv
  <1>2. PICK pos, cum \in [OrderSlots -> Nat] : Numbers(pos) /\ Sums(pos, cum)
    BY DEF BookInv, Structured
  <1>3. /\ OrdersAt(l) \subseteq OrderSlots
        /\ IsFiniteSet(OrdersAt(l))
        /\ \A s \in OrdersAt(l) : qty[s] \in Nat
    BY <1>1, LevelOrders DEF OrdersAt
  <1>4. /\ order_count[l] \in Nat \ {0}
        /\ tail_[l] \in OrdersAt(l) /\ pos[tail_[l]] = order_count[l]
    BY <1>1, <1>2, LevelEnds
  <1>5. \A s \in OrdersAt(l) :
          pos[s] \in Nat /\ 1 <= pos[s] /\ pos[s] <= order_count[l] /\ cum[s] \in Nat
    BY <1>2, <1>3, <1>4 DEF Numbers, OrdersAt
  <1> DEFINE upTo(k) == {s \in OrdersAt(l) : pos[s] <= k}
             holds(k) == \A s \in OrdersAt(l) : pos[s] = k => Total(qty, upTo(k)) = cum[s]
             N == {k \in Nat : k = 0 \/ holds(k)}
  <1>6. 0 \in N
    OBVIOUS
  <1>7. ASSUME NEW k \in Nat, k \in N PROVE k + 1 \in N
    <2> SUFFICES ASSUME NEW s \in OrdersAt(l), pos[s] = k + 1
                 PROVE  Total(qty, upTo(k + 1)) = cum[s]
      OBVIOUS
    <2>1. upTo(k + 1) = upTo(k) \cup {s} /\ s \notin upTo(k)
      <3>1. \A t \in OrdersAt(l) : pos[t] = k + 1 => t = s
        BY <1>2 DEF Numbers, OrdersAt
      <3>2. \A t \in OrdersAt(l) : pos[t] <= k + 1 <=> pos[t] <= k \/ pos[t] = k + 1
        BY <1>5
      <3> QED BY <3>1, <3>2
    <2>2. Total(qty, upTo(k + 1)) = qty[s] + Total(qty, upTo(k))
      <3>1. upTo(k) \in SUBSET OrdersAt(l) /\ s \in OrdersAt(l) \ upTo(k)
        BY <2>1
      <3> HIDE DEF upTo
      <3>2. \A x \in OrdersAt(l) : qty[x] \in Int
        BY <1>3
      <3> QED BY <2>1, <3>1, <3>2, <1>3, TotalAdd
    <2>3. CASE k = 0
      <3>1. upTo(0) = {}
        BY <1>5
      <3>2. cum[s] = qty[s]
        BY <2>3, <1>2 DEF Sums, OrdersAt
      <3> QED BY <2>2, <2>3, <3>1, <3>2, <1>3, TotalEmpty
    <2>4. CASE k # 0
      <3>1. k \in 1 .. order_count[l]
        BY <2>4, <1>4, <1>5
      <3>2. PICK t \in OrdersAt(l) : pos[t] = k
        BY <1>2, <3>1 DEF Numbers
      <3>3. Total(qty, upTo(k)) = cum[t]
        BY <1>7, <2>4, <3>2
      <3>4. cum[s] = cum[t] + qty[s]
        BY <1>2, <3>2 DEF Sums, OrdersAt
      <3> QED BY <2>2, <3>3, <3>4, <1>3, <1>5
    <2> QED BY <2>3, <2>4
  <1>8. Nat \subseteq N
    <2> HIDE DEF N
    <2> QED BY <1>6, <1>7, Induct
  <1>9. Total(qty, upTo(order_count[l])) = cum[tail_[l]]
    BY <1>4, <1>8
  <1>10. upTo(order_count[l]) = OrdersAt(l)
    BY <1>5
  <1>11. cum[tail_[l]] = total_qty[l]
    BY <1>2, <1>4 DEF Sums, OrdersAt
  <1>12. MapThenSumSet(LAMBDA s : qty[s], OrdersAt(l)) = Total(qty, OrdersAt(l))
    BY <1>3, SumIsTotal
  <1> QED BY <1>9, <1>10, <1>11, <1>12

(* The inductive invariant: the conjunction holds of an empty book, and    *)
(* every operation keeps it.                                               *)
THEOREM Inductive == BookSpec => []BookInv
PROOF
  <1>1. BookInit => BookInv
    BY EmptyBook
  <1>2. BookInv /\ [BookNext]_bookVars => BookInv'
    BY StepKeeps
  <1> QED BY <1>1, <1>2, PTL DEF BookSpec

(* Every pointer field is a slot of its slab or null, and no unsigned      *)
(* total or count ever goes below zero: unlink_from_level() and            *)
(* apply_fill() never subtract what is not there.                          *)
THEOREM TypeCorrect == BookSpec => []BookTypeOK
PROOF
  <1>1. BookInv => BookTypeOK
    BY DEF BookInv
  <1> QED BY <1>1, Inductive, PTL

(* The index finds exactly the orders that hold a slot: add_order() and    *)
(* cancel_order() leave no stale entry and leak no slot on any path.       *)
THEOREM IndexCorrect == BookSpec => []IndexExact
PROOF
  <1>1. BookInv => IndexExact
    BY DEF BookInv
  <1> QED BY <1>1, Inductive, PTL

(* The price maps hold exactly the levels in use, none of them empty:      *)
(* a level is mapped when its first order rests and unmapped with its last.*)
THEOREM LevelsCorrect == BookSpec => []LevelsMapped
PROOF
  <1>1. BookInv => LevelsMapped
    BY DEF BookInv
  <1> QED BY <1>1, Inductive, PTL

(* append_to_level() and unlink_from_level() keep every level's list a     *)
(* proper doubly linked list, wherever orders leave it.                    *)
THEOREM ListsCorrect == BookSpec => []ListsLinked
PROOF
  <1>1. BookInv => ListsLinked
    BY InvImpliesListsLinked
  <1> QED BY <1>1, Inductive, PTL

(* A level's total is the sum of what its orders still offer: append,      *)
(* unlink, replace and fill add and subtract each quantity exactly once.   *)
THEOREM TotalsCorrect == BookSpec => []LevelTotals
PROOF
  <1>1. BookInv => LevelTotals
    BY InvImpliesLevelTotals
  <1> QED BY <1>1, Inductive, PTL

-----------------------------------------------------------------------------
(* q holds the orders of this side and price, each at its place.           *)
Shows(q, side, p) ==
  /\ q \in Seq(Abstract!Order)
  /\ \A s \in Resting : data[s].side = side /\ data[s].price = p =>
       Place(s) \in 1 .. Len(q) /\ q[Place(s)] = OrderAt(s)
  /\ \A i \in 1 .. Len(q) : \E s \in Resting :
       data[s].side = side /\ data[s].price = p /\ Place(s) = i

AllShown ==
  /\ Queue = [side \in Side |-> [p \in Prices |-> Queue[side][p]]]
  /\ \A side \in Side, p \in Prices : Shows(Queue[side][p], side, p)

(* Nothing else can be seen in this place.                                 *)
OneShown ==
  \A side \in Side, p \in Prices : \A q : Shows(q, side, p) => Queue[side][p] = q

(* What a resting order looks like in a queue.                             *)
LEMMA OrderAtIs == ASSUME BookInv, NEW s \in Resting PROVE OrderAt(s) \in Abstract!Order
PROOF
  BY OrdersView DEF OrdersSeen, OrderAt, Abstract!Order, OrderData, Quantity

(* The queues show the places, and are determined by them.                 *)
LEMMA QueuesDetermined == BookInv => AllShown /\ OneShown
PROOF
  <1> SUFFICES ASSUME BookInv PROVE AllShown /\ OneShown
    OBVIOUS
  <1>1. Queue = [side \in Side |-> [p \in Prices |-> Queue[side][p]]]
    BY DEF Queue
  <1>2. ASSUME NEW side \in Side, NEW p \in Prices
        PROVE  Shows(Queue[side][p], side, p)
    <2>1. PICK q : q = Queue[side][p]
      OBVIOUS
    <2>2. /\ Len(q) \in Nat
          /\ \A i \in 1 .. Len(q) :
               \E s \in Resting : /\ data[s].side = side /\ data[s].price = p
                                  /\ Place(s) = i /\ q[i] = OrderAt(s)
          /\ \A s \in Resting : data[s].side = side /\ data[s].price = p =>
               Place(s) \in 1 .. Len(q) /\ q[Place(s)] = OrderAt(s)
      BY <2>1, QueuesView DEF QueuesSeen
    <2>3. PICK n : q = [i \in 1 .. n |-> q[i]] /\ n \in Nat
      <3>1. PICK c : c = Chain(price_map[side][p])
        OBVIOUS
      <3>2. q = [i \in 1 .. Len(c) |-> OrderAt(c[i])]
        BY <2>1, <3>1 DEF Queue
      <3>3. Len(c) \in Nat
        <4>1. CASE price_map[side][p] = Null
          BY <3>1, <4>1 DEF Chain
        <4>2. CASE price_map[side][p] # Null
          <5>1. price_map[side][p] \in InUse
            BY <4>2 DEF BookInv, LevelsMapped
          <5> QED BY <3>1, <5>1, ChainsView DEF ChainsSeen
        <4> QED BY <4>1, <4>2
      <3> QED BY <3>2, <3>3
    <2>4. Len(q) = n
      BY <2>3
    <2>5. \A i \in 1 .. n : q[i] \in Abstract!Order
      BY <2>2, <2>4, OrderAtIs
    <2>6. q \in Seq(Abstract!Order)
      BY <2>3, <2>5
    <2> QED BY <2>1, <2>2, <2>6 DEF Shows
  <1>3. ASSUME NEW side \in Side, NEW p \in Prices, NEW q, Shows(q, side, p)
        PROVE  Queue[side][p] = q
    <2>1. PICK r : r = Queue[side][p]
      OBVIOUS
    <2>2. Shows(r, side, p)
      BY <1>2, <2>1
    <2>3. r \in Seq(Abstract!Order) /\ q \in Seq(Abstract!Order)
          /\ Len(r) \in Nat /\ Len(q) \in Nat
      BY <1>3, <2>2 DEF Shows
    <2>4. ASSUME NEW i \in 1 .. Len(q) PROVE i \in 1 .. Len(r) /\ r[i] = q[i]
      BY <1>3, <2>2 DEF Shows
    <2>5. ASSUME NEW i \in 1 .. Len(r) PROVE i \in 1 .. Len(q)
      BY <1>3, <2>2 DEF Shows
    <2>6. Len(q) = Len(r)
      <3>1. CASE Len(q) = 0
        BY <2>3, <2>5, <3>1
      <3>2. CASE Len(q) # 0
        BY <2>3, <2>4, <2>5, <3>2
      <3> QED BY <3>1, <3>2
    <2> QED BY <2>1, <2>3, <2>4, <2>6, SeqEqual
  <1> QED BY <1>1, <1>2, <1>3 DEF AllShown, OneShown

(* The same after a step.                                                  *)
LEMMA QueuesDeterminedAfter == BookInv' => AllShown' /\ OneShown'
PROOF
  BY QueuesDetermined, PTL

(* The places fit the capacity of the book.                                *)
LEMMA PlacesFit ==
  ASSUME BookInv, NEW s \in Resting
  PROVE  Place(s) \in 1 .. Cardinality(OrderSlots)
PROOF
  <1>1. Place(s) \in 0 .. Cardinality(OrderSlots)
    BY NumberingNumbers, NumberingFits DEF BookInv, Place
  <1>2. Place(s) \in Nat \ {0}
    BY PlacesView DEF PlacesSeen
  <1> QED BY <1>1, <1>2

(* A queue without its i-th order.                                         *)
LEMMA WithoutIs ==
  ASSUME NEW S, NEW q \in Seq(S), NEW i \in 1 .. Len(q)
  PROVE  /\ Abstract!Without(q, i) \in Seq(S)
         /\ Len(Abstract!Without(q, i)) = Len(q) - 1
         /\ \A j \in 1 .. Len(q) - 1 :
              Abstract!Without(q, i)[j] = IF j < i THEN q[j] ELSE q[j + 1]
PROOF
  <1>1. Len(q) \in Nat /\ i \in Nat /\ 1 <= i /\ i <= Len(q)
    OBVIOUS
  <1>2. PICK a, b : a = SubSeq(q, 1, i - 1) /\ b = SubSeq(q, i + 1, Len(q))
    OBVIOUS
  <1>3. /\ a \in Seq(S) /\ Len(a) = i - 1
        /\ \A j \in 1 .. i - 1 : a[j] = q[j]
    <2>1. /\ SubSeq(q, 1, i - 1) \in Seq(S)
          /\ Len(SubSeq(q, 1, i - 1)) = IF 1 <= i - 1 THEN (i - 1) - 1 + 1 ELSE 0
          /\ \A j \in 1 .. (i - 1) - 1 + 1 : SubSeq(q, 1, i - 1)[j] = q[1 + j - 1]
      BY <1>1, SubSeqProperties
    <2> QED BY <1>1, <1>2, <2>1
  <1>4. /\ b \in Seq(S) /\ Len(b) = Len(q) - i
        /\ \A j \in 1 .. Len(q) - i : b[j] = q[i + j]
    <2>1. /\ SubSeq(q, i + 1, Len(q)) \in Seq(S)
          /\ Len(SubSeq(q, i + 1, Len(q))) =
               IF i + 1 <= Len(q) THEN Len(q) - (i + 1) + 1 ELSE 0
          /\ \A j \in 1 .. Len(q) - (i + 1) + 1 :
               SubSeq(q, i + 1, Len(q))[j] = q[(i + 1) + j - 1]
      BY <1>1, SubSeqProperties
    <2> QED BY <1>1, <1>2, <2>1
  <1>5. /\ a \o b \in Seq(S)
        /\ Len(a \o b) = Len(a) + Len(b)
        /\ \A j \in 1 .. Len(a) + Len(b) :
             (a \o b)[j] = IF j <= Len(a) THEN a[j] ELSE b[j - Len(a)]
    BY <1>3, <1>4, ConcatProperties
  <1>6. PICK w : w = a \o b /\ Abstract!Without(q, i) = w
    BY <1>2 DEF Abstract!Without
  <1>7. /\ w \in Seq(S) /\ Len(w) = Len(q) - 1
        /\ \A j \in 1 .. Len(q) - 1 : w[j] = IF j <= i - 1 THEN a[j] ELSE b[j - (i - 1)]
    <2>1. Len(a) = i - 1 /\ Len(a) + Len(b) = Len(q) - 1
      BY <1>1, <1>3, <1>4
    <2>2. /\ w \in Seq(S) /\ Len(w) = Len(a) + Len(b)
          /\ \A j \in 1 .. Len(a) + Len(b) :
               w[j] = IF j <= Len(a) THEN a[j] ELSE b[j - Len(a)]
      BY <1>5, <1>6, Zenon
    <2> HIDE <1>1
    <2> QED BY <2>1, <2>2, Zenon
  <1>8. ASSUME NEW j \in 1 .. Len(q) - 1
        PROVE  w[j] = IF j < i THEN q[j] ELSE q[j + 1]
    <2>1. CASE j < i
      BY <1>1, <1>3, <1>7, <2>1
    <2>2. CASE ~(j < i)
      <3>1. PICK k \in 1 .. Len(q) - i : k = j - (i - 1) /\ i + k = j + 1
        BY <1>1, <2>2
      <3>2. ~(j <= i - 1)
        BY <1>1, <2>2
      <3>3. w[j] = b[k]
        BY <1>7, <3>1, <3>2, Zenon
      <3> QED BY <1>4, <2>2, <3>1, <3>3
    <2> QED BY <2>1, <2>2
  <1> QED BY <1>6, <1>7, <1>8

(* One queue changes, and no other.                                        *)
LEMMA OneQueueChanges ==
  ASSUME BookInv, BookInv', NEW side \in Side, NEW p \in Prices, NEW w, Shows(w, side, p)',
         \A t \in Resting : ~(data[t].side = side /\ data[t].price = p) => t \in Resting',
         \A t \in Resting' : ~(data'[t].side = side /\ data'[t].price = p) =>
           /\ t \in Resting /\ data'[t] = data[t] /\ qty'[t] = qty[t]
           /\ Place(t)' = Place(t),
         \A t \in Resting : t \in Resting' => data'[t] = data[t]
  PROVE  Queue' = [Queue EXCEPT ![side][p] = w]
PROOF
  <1>1. AllShown /\ OneShown /\ AllShown' /\ OneShown'
    BY QueuesDetermined, QueuesDeterminedAfter
  <1>2. ASSUME NEW sd \in Side, NEW pr \in Prices, ~(sd = side /\ pr = p)
        PROVE  Queue'[sd][pr] = Queue[sd][pr]
    <2>1. PICK r : r = Queue[sd][pr]
      OBVIOUS
    <2>2. Shows(r, sd, pr)
      BY <1>1, <2>1 DEF AllShown
    <2>3. \A t : /\ t \in Resting /\ data[t].side = sd /\ data[t].price = pr <=>
                    t \in Resting' /\ data'[t].side = sd /\ data'[t].price = pr
                 /\ t \in Resting' /\ data'[t].side = sd /\ data'[t].price = pr =>
                    Place(t)' = Place(t) /\ OrderAt(t)' = OrderAt(t)
      BY <1>2 DEF OrderAt
    <2>4. Shows(r, sd, pr)'
      BY <2>2, <2>3 DEF Shows
    <2> QED BY <1>1, <2>1, <2>4 DEF OneShown
  <1>3. Queue'[side][p] = w
    BY <1>1 DEF OneShown
  <1>4. Queue' = [sd \in Side |-> [pr \in Prices |-> Queue'[sd][pr]]]
    BY <1>1 DEF AllShown
  <1>5. Queue = [sd \in Side |-> [pr \in Prices |-> Queue[sd][pr]]]
    BY <1>1 DEF AllShown
  <1> QED BY <1>2, <1>3, <1>4, <1>5

(* An order leaves its queue, and the others keep their order;             *)
LEMMA LeavesQueue ==
  ASSUME BookInv, BookInv', NEW s \in Resting, Leaves(s),
         NEW side, side = data[s].side, NEW p, p = data[s].price, NEW i, i = Place(s)
  PROVE  Queue' = [Queue EXCEPT ![side][p] = Abstract!Without(@, i)]
PROOF
  <1>1. /\ side \in Side /\ p \in Prices /\ AllShown /\ OneShown /\ AllShown' /\ OneShown'
        /\ i \in Nat \ {0}
    BY OrdersView, QueuesDetermined, QueuesDeterminedAfter, PlacesView
    DEF OrdersSeen, OrderData, PlacesSeen
  <1>2. PICK q : q = Queue[side][p]
    OBVIOUS
  <1>3. Shows(q, side, p) /\ i \in 1 .. Len(q) /\ Len(q) \in Nat
    <2>1. Shows(q, side, p)
      BY <1>1, <1>2 DEF AllShown
    <2> QED BY <2>1 DEF Shows
  <1>4. PICK w : w = Abstract!Without(q, i)
    OBVIOUS
  <1>5. /\ w \in Seq(Abstract!Order) /\ Len(w) = Len(q) - 1
        /\ \A j \in 1 .. Len(q) - 1 : w[j] = IF j < i THEN q[j] ELSE q[j + 1]
    BY <1>3, <1>4, WithoutIs DEF Shows
  <1>6. \A t \in Resting' :
          /\ t \in Resting /\ t # s
          /\ data'[t].side = data[t].side /\ data'[t].price = data[t].price
          /\ OrderAt(t)' = OrderAt(t)
          /\ Place(t) \in Nat \ {0} /\ Place(t)' \in Nat \ {0}
    BY ViewAfter, PlacesView DEF Leaves, OrderAt, PlacesSeen
  <1>7. ASSUME NEW t \in Resting', data[t].side = side, data[t].price = p
        PROVE  /\ Place(t) # i
               /\ Place(t)' = IF Place(t) > i THEN Place(t) - 1 ELSE Place(t)
    BY <1>6, <1>7, PlacesView, LevelsView DEF Leaves, PlacesSeen, LevelsSeen
  <1>8. Shows(w, side, p)'
    <2>1. ASSUME NEW t \in Resting', data'[t].side = side, data'[t].price = p
          PROVE  Place(t)' \in 1 .. Len(w) /\ w[Place(t)'] = OrderAt(t)'
      <3>1. PICK j \in Nat \ {0} : j = Place(t)
        BY <1>6
      <3>2. j \in 1 .. Len(q) /\ q[j] = OrderAt(t)'
        BY <1>3, <1>6, <2>1, <3>1 DEF Shows
      <3>3. j # i /\ Place(t)' = IF j > i THEN j - 1 ELSE j
        BY <1>6, <1>7, <2>1, <3>1
      <3>4. PICK k \in Nat : k = Place(t)' /\ k = IF j > i THEN j - 1 ELSE j
        BY <1>6, <3>3
      <3>5. k \in 1 .. Len(q) - 1 /\ w[k] = q[j]
        <4>1. CASE j > i
          BY <1>1, <1>3, <1>5, <3>2, <3>4, <4>1
        <4>2. CASE j < i
          BY <1>1, <1>3, <1>5, <3>2, <3>4, <4>2
        <4> QED BY <1>1, <3>1, <3>3, <4>1, <4>2
      <3> QED BY <1>5, <3>2, <3>4, <3>5
    <2>2. ASSUME NEW k \in 1 .. Len(w)
          PROVE  \E t \in Resting' : /\ data'[t].side = side /\ data'[t].price = p
                                     /\ Place(t)' = k
      <3>1. PICK j \in 1 .. Len(q) : /\ j = IF k < i THEN k ELSE k + 1
                                     /\ j # i
                                     /\ k = IF j > i THEN j - 1 ELSE j
        BY <1>1, <1>3, <1>5
      <3>2. PICK t \in Resting : data[t].side = side /\ data[t].price = p /\ Place(t) = j
        BY <1>3 DEF Shows
      <3>3. t \in Resting'
        BY <3>1, <3>2 DEF Leaves
      <3> QED BY <1>6, <1>7, <3>1, <3>2, <3>3
    <2>3. \A t \in Resting' : data'[t].side = side /\ data'[t].price = p =>
            Place(t)' \in 1 .. Len(w) /\ w[Place(t)'] = OrderAt(t)'
      BY <2>1
    <2> QED BY <1>5, <2>2, <2>3 DEF Shows
  <1>9. Queue' = [Queue EXCEPT ![side][p] = w]
    <2>1. \A t \in Resting : ~(data[t].side = side /\ data[t].price = p) =>
            t \in Resting' /\ data'[t] = data[t] /\ qty'[t] = qty[t] /\ Place(t)' = Place(t)
      BY LevelsView DEF Leaves, LevelsSeen
    <2>2. \A t \in Resting : t \in Resting' => data'[t] = data[t]
      BY DEF Leaves
    <2> QED BY <1>1, <1>6, <1>8, <2>1, <2>2, OneQueueChanges
  <1> QED BY <1>2, <1>4, <1>9

(* an order that shrinks keeps its place;                                  *)
QueueShrinks(side, p, i, n) == Queue' = [Queue EXCEPT ![side][p][i].qty = n]

(* Only its quantity changes.                                              *)
LEMMA ShrinksQueue ==
  ASSUME BookInv, BookInv', NEW s \in Resting, NEW n \in 1 .. MaxQty, Shrinks(s, n),
         NEW side, side = data[s].side, NEW p, p = data[s].price, NEW i, i = Place(s)
  PROVE  QueueShrinks(side, p, i, n)
PROOF
  <1>1. side \in Side /\ p \in Prices /\ AllShown
    BY OrdersView, QueuesDetermined DEF OrdersSeen, OrderData
  <1>2. PICK q : q = Queue[side][p] /\ Shows(q, side, p)
    BY <1>1 DEF AllShown
  <1>3. /\ q \in Seq(Abstract!Order) /\ Len(q) \in Nat
        /\ i \in 1 .. Len(q) /\ q[i] = OrderAt(s)
    BY <1>2 DEF Shows
  <1>4. PICK e : e = [q[i] EXCEPT !.qty = n]
    OBVIOUS
  <1>5. e \in Abstract!Order /\ OrderAt(s) \in Abstract!Order
    BY <1>3, <1>4, OrderAtIs DEF Abstract!Order
  <1>6. PICK w : w = [q EXCEPT ![i] = e]
    OBVIOUS
  <1>7. /\ w \in Seq(Abstract!Order) /\ Len(w) = Len(q)
        /\ \A j \in 1 .. Len(q) : w[j] = IF j = i THEN e ELSE q[j]
    BY <1>3, <1>5, <1>6, ExceptSeq
  <1>8. qty'[s] = n /\ \A t \in Resting \ {s} : qty'[t] = qty[t]
    <2>1. s \in OrderSlots /\ Resting \subseteq OrderSlots /\ DOMAIN qty = OrderSlots
      BY DEF BookInv, BookTypeOK, Resting
    <2> QED BY <2>1 DEF Shrinks
  <1>9. OrderAt(s)' = e /\ \A t \in Resting \ {s} : OrderAt(t)' = OrderAt(t)
    <2>1. OrderAt(s)' = e
      BY <1>3, <1>4, <1>8 DEF OrderAt, Shrinks
    <2> QED BY <2>1, <1>8 DEF OrderAt, Shrinks
  <1>10. \A t \in Resting : data[t].side = side /\ data[t].price = p /\ Place(t) = i => t = s
    BY PlacesView, LevelsView DEF PlacesSeen, LevelsSeen
  <1>11. Shows(w, side, p)'
    <2>1. ASSUME NEW t \in Resting', data'[t].side = side, data'[t].price = p
          PROVE  Place(t)' \in 1 .. Len(w) /\ w[Place(t)'] = OrderAt(t)'
      <3>1. /\ t \in Resting /\ data[t].side = side /\ data[t].price = p
            /\ Place(t)' = Place(t)
        BY <2>1 DEF Shrinks
      <3>2. PICK k : k = Place(t) /\ k \in 1 .. Len(q) /\ q[k] = OrderAt(t)
        BY <1>2, <3>1 DEF Shows
      <3>3. k = i <=> t = s
        BY <1>10, <3>1, <3>2
      <3> QED BY <1>7, <1>9, <3>1, <3>2, <3>3
    <2>2. ASSUME NEW k \in 1 .. Len(w)
          PROVE  \E t \in Resting' : /\ data'[t].side = side /\ data'[t].price = p
                                     /\ Place(t)' = k
      BY <1>2, <1>7 DEF Shows, Shrinks
    <2>3. \A t \in Resting' : data'[t].side = side /\ data'[t].price = p =>
            Place(t)' \in 1 .. Len(w) /\ w[Place(t)'] = OrderAt(t)'
      BY <2>1
    <2> QED BY <1>7, <2>2, <2>3 DEF Shows
  <1>12. Queue' = [Queue EXCEPT ![side][p] = w]
    BY <1>1, <1>8, <1>11, OneQueueChanges DEF Shrinks
  <1>13. w = [q EXCEPT ![i].qty = n]
    BY <1>4, <1>6
  <1>14. [Queue EXCEPT ![side][p][i].qty = n] = [Queue EXCEPT ![side][p] = w]
    BY <1>2, <1>13, Zenon
  <1> QED BY <1>12, <1>14 DEF QueueShrinks

(* an order that comes to rest is the last of its queue.                   *)
QueueGrows(side, p, e) == Queue' = [Queue EXCEPT ![side][p] = Append(@, e)]

(* It is appended as it was given.                                         *)
LEMMA RestsQueue ==
  ASSUME BookInv, BookInv', NEW o \in RestableOrder, NEW s, Rests(o, s),
         NEW side, side = o.side, NEW p, p = o.price, NEW e, e = OrderAt(s)'
  PROVE  /\ QueueGrows(side, p, e)
         /\ e \in Abstract!Order /\ side \in Side /\ p \in Prices
PROOF
  <1>1. /\ side \in Side /\ p \in Prices /\ AllShown
        /\ s \notin Resting /\ Resting' = Resting \cup {s}
        /\ data'[s].side = side /\ data'[s].price = p
        /\ \A t \in Resting : /\ data'[t] = data[t] /\ qty'[t] = qty[t]
                              /\ LevelOf(t)' = LevelOf(t) /\ Place(t)' = Place(t)
                              /\ OrderAt(t)' = OrderAt(t)
    BY QueuesDetermined DEF RestableOrder, Rests, Enters, DataOf, OrderAt
  <1>2. PICK q : q = Queue[side][p] /\ Shows(q, side, p)
    BY <1>1 DEF AllShown
  <1>3. q \in Seq(Abstract!Order) /\ Len(q) \in Nat
    BY <1>2 DEF Shows
  <1>4. e \in Abstract!Order
    <2>1. s \in Resting' /\ data'[s] \in OrderData /\ qty'[s] \in Quantity
      BY <1>1, ViewAfter DEF OrdersSeen
    <2>2. e = [order_id |-> data'[s].order_id, qty |-> qty'[s],
               client_id |-> data'[s].client_id]
      BY DEF OrderAt
    <2> QED BY <2>1, <2>2 DEF Abstract!Order, OrderData, Quantity
  <1>5. PICK w : w = Append(q, e)
    OBVIOUS
  <1>6. /\ w \in Seq(Abstract!Order) /\ Len(w) = Len(q) + 1 /\ w[Len(q) + 1] = e
        /\ \A j \in 1 .. Len(q) : w[j] = q[j]
    BY <1>3, <1>4, <1>5
  <1>7. \A t \in Resting : data[t].side = side /\ data[t].price = p => Place(t) < Place(s)'
    BY <1>1, ViewAfter DEF Rests, LevelsSeen
  <1>8. Place(s)' = Len(q) + 1
    <2>1. PICK k \in Nat \ {0} : k = Place(s)'
      BY <1>1, ViewAfter DEF PlacesSeen
    <2>2. ASSUME Len(q) # 0 PROVE Len(q) < k
      <3>1. Len(q) \in 1 .. Len(q)
        BY <1>3, <2>2
      <3> QED BY <1>2, <1>7, <2>1, <3>1 DEF Shows
    <2>3. ASSUME k # 1 PROVE k - 1 <= Len(q)
      <3>1. PICK j : j = k - 1 /\ j \in 1 .. k /\ j # k
        BY <2>1, <2>3
      <3>2. PICK t \in Resting' : LevelOf(t)' = LevelOf(s)' /\ Place(t)' = j
        BY <1>1, <2>1, <3>1, ViewAfter DEF PlacesSeen, OrdersAt
      <3>3. t \in Resting /\ data[t].side = side /\ data[t].price = p /\ Place(t) = j
        BY <1>1, <2>1, <3>1, <3>2, ViewAfter DEF LevelsSeen
      <3>4. j \in 1 .. Len(q)
        BY <1>2, <3>3 DEF Shows
      <3> QED BY <3>1, <3>4
    <2> QED BY <1>3, <2>1, <2>2, <2>3
  <1>9. Shows(w, side, p)'
    <2>1. ASSUME NEW t \in Resting', data'[t].side = side, data'[t].price = p
          PROVE  Place(t)' \in 1 .. Len(w) /\ w[Place(t)'] = OrderAt(t)'
      <3>1. CASE t = s
        BY <1>3, <1>6, <1>8, <3>1
      <3>2. CASE t # s
        <4>1. t \in Resting /\ data[t].side = side /\ data[t].price = p
          BY <1>1, <2>1, <3>2
        <4>2. Place(t) \in 1 .. Len(q) /\ q[Place(t)] = OrderAt(t)
          BY <1>2, <4>1 DEF Shows
        <4> QED BY <1>1, <1>3, <1>6, <4>1, <4>2
      <3> QED BY <3>1, <3>2
    <2>2. ASSUME NEW k \in 1 .. Len(w)
          PROVE  \E t \in Resting' : /\ data'[t].side = side /\ data'[t].price = p
                                     /\ Place(t)' = k
      <3>1. CASE k \in 1 .. Len(q)
        BY <1>1, <1>2, <3>1 DEF Shows
      <3>2. CASE k \notin 1 .. Len(q)
        <4>1. k = Len(q) + 1
          BY <1>3, <1>6, <3>2
        <4> QED BY <1>1, <1>8, <4>1
      <3> QED BY <3>1, <3>2
    <2>3. \A t \in Resting' : data'[t].side = side /\ data'[t].price = p =>
            Place(t)' \in 1 .. Len(w) /\ w[Place(t)'] = OrderAt(t)'
      BY <2>1
    <2> QED BY <1>6, <2>2, <2>3 DEF Shows
  <1>10. Queue' = [Queue EXCEPT ![side][p] = w]
    BY <1>1, <1>9, OneQueueChanges
  <1> QED BY <1>1, <1>2, <1>4, <1>5, <1>10 DEF QueueGrows

-----------------------------------------------------------------------------
(* The variable of LimitOrderBook is what the pointers show.               *)
Shown == queue = Queue

(* Each resting order is found in its place;                               *)
LEMMA RestingFound ==
  ASSUME BookInv, Shown, NEW s \in Resting,
         NEW side, side = data[s].side, NEW p, p = data[s].price, NEW i, i = Place(s)
  PROVE  /\ <<<<side, p>>, i>> \in Abstract!Positions(data[s].order_id)
         /\ queue[side][p][i] = OrderAt(s) /\ data[s].order_id \in OrderIds
PROOF
  <1>1. side \in Side /\ p \in Prices /\ AllShown /\ data[s].order_id \in OrderIds
    BY OrdersView, QueuesDetermined DEF OrdersSeen, OrderData
  <1>2. PICK q : q = queue[side][p] /\ Shows(q, side, p)
    BY <1>1 DEF AllShown, Shown
  <1>3. i \in 1 .. Len(q) /\ q[i] = OrderAt(s) /\ Len(q) \in Nat
    BY <1>2 DEF Shows
  <1>4. i \in 1 .. Cardinality(OrderSlots)
    BY PlacesFit
  <1>5. <<side, p>> \in Abstract!Places
    BY <1>1 DEF Abstract!Places, Abstract!Side, Side
  <1>6. q[i].order_id = data[s].order_id
    BY <1>3 DEF OrderAt
  <1>7. i <= Len(q)
    BY <1>3
  <1> QED BY <1>1, <1>2, <1>3, <1>4, <1>5, <1>6, <1>7 DEF Abstract!Positions

(* and whatever is found is a resting order.                               *)
LEMMA FoundRests ==
  ASSUME BookInv, Shown
  PROVE  /\ \A id \in Abstract!Held : \E s \in Resting : data[s].order_id = id
         /\ \A pl \in Abstract!Occupied :
              /\ pl = <<pl[1], pl[2]>> /\ pl[1] \in Side /\ pl[2] \in Prices
              /\ \E s \in Resting : data[s].side = pl[1] /\ data[s].price = pl[2]
PROOF
  <1>1. QueuesSeen /\ AllShown
    BY QueuesView, QueuesDetermined
  <1>2. \A pl \in Abstract!Places : /\ pl = <<pl[1], pl[2]>>
                                    /\ pl[1] \in Side /\ pl[2] \in Prices
    BY DEF Abstract!Places, Abstract!Side, Side
  <1>3. ASSUME NEW id \in Abstract!Held
        PROVE  \E s \in Resting : data[s].order_id = id
    <2>1. PICK pos \in Abstract!Places \X (1 .. Cardinality(OrderSlots)) :
            /\ pos[2] <= Len(queue[pos[1][1]][pos[1][2]])
            /\ queue[pos[1][1]][pos[1][2]][pos[2]].order_id = id
      BY DEF Abstract!Held, Abstract!Positions
    <2>2. PICK side \in Side, p \in Prices : side = pos[1][1] /\ p = pos[1][2]
      BY <1>2, <2>1
    <2>3. PICK i : i = pos[2]
      OBVIOUS
    <2>4. /\ i \in 1 .. Cardinality(OrderSlots) /\ i <= Len(Queue[side][p])
          /\ Queue[side][p][i].order_id = id
      BY <2>1, <2>2, <2>3 DEF Shown
    <2>5. i \in 1 .. Len(Queue[side][p])
      BY <1>1, <2>4 DEF QueuesSeen
    <2>6. PICK s \in Resting : Queue[side][p][i] = OrderAt(s)
      BY <1>1, <2>5 DEF QueuesSeen
    <2> QED BY <2>4, <2>6 DEF OrderAt
  <1>4. ASSUME NEW pl \in Abstract!Occupied
        PROVE  \E s \in Resting : data[s].side = pl[1] /\ data[s].price = pl[2]
    <2>1. /\ pl[1] \in Side /\ pl[2] \in Prices /\ queue[pl[1]][pl[2]] # <<>>
      BY <1>2 DEF Abstract!Occupied
    <2>2. PICK q : q = queue[pl[1]][pl[2]] /\ Shows(q, pl[1], pl[2])
      BY <1>1, <2>1 DEF AllShown, Shown
    <2>3. q \in Seq(Abstract!Order) /\ q # <<>>
      BY <2>1, <2>2 DEF Shows
    <2>4. Len(q) \in 1 .. Len(q)
      BY <2>3, EmptySeq
    <2> QED BY <2>2, <2>4 DEF Shows
  <1> QED BY <1>2, <1>3, <1>4 DEF Abstract!Occupied

(* While an order slot is free, the book holds fewer ids than it has       *)
(* slots;                                                                  *)
LEMMA HeldFits ==
  ASSUME BookInv, Shown, NEW s \in OrderSlots, s \notin Resting
  PROVE  Cardinality(Abstract!Held) < Cardinality(OrderSlots)
PROOF
  <1>1. \A id \in Abstract!Held : \E t \in Resting : data[t].order_id = id
    BY FoundRests
  <1>2. PICK f : f = [id \in Abstract!Held |-> CHOOSE t \in Resting : data[t].order_id = id]
    OBVIOUS
  <1>3. \A id \in Abstract!Held : f[id] \in Resting /\ data[f[id]].order_id = id
    BY <1>1, <1>2
  <1>4. f \in Injection(Abstract!Held, OrderSlots \ {s})
    <2>1. f \in [Abstract!Held -> OrderSlots \ {s}]
      BY <1>2, <1>3 DEF Resting
    <2> QED BY <1>3, <2>1 DEF Injection, IsInjective
  <1>5. /\ IsFiniteSet(OrderSlots \ {s}) /\ Cardinality(OrderSlots) \in Nat
        /\ Cardinality(OrderSlots \ {s}) = Cardinality(OrderSlots) - 1
    BY BookAssumption, FS_CardinalityType, FS_RemoveElement
  <1>6. /\ Cardinality(Abstract!Held) \in Nat
        /\ Cardinality(Abstract!Held) <= Cardinality(OrderSlots \ {s})
    BY <1>4, <1>5, FS_Injection, FS_CardinalityType
  <1> QED BY <1>5, <1>6

(* while a level is free, it holds fewer prices than it has levels.        *)
LEMMA OccupiedFits ==
  ASSUME BookInv, Shown, NEW l \in LevelSlots,
         \A t \in Resting : LevelOf(t) # l
  PROVE  Cardinality(Abstract!Occupied) < Cardinality(LevelSlots)
PROOF
  <1>1. \A pl \in Abstract!Occupied :
          /\ pl = <<pl[1], pl[2]>>
          /\ \E t \in Resting : data[t].side = pl[1] /\ data[t].price = pl[2]
    BY FoundRests
  <1>2. PICK g : g = [pl \in Abstract!Occupied |->
                        CHOOSE t \in Resting : data[t].side = pl[1] /\ data[t].price = pl[2]]
    OBVIOUS
  <1>3. \A pl \in Abstract!Occupied :
          g[pl] \in Resting /\ data[g[pl]].side = pl[1] /\ data[g[pl]].price = pl[2]
    BY <1>1, <1>2
  <1>4. PICK f : f = [pl \in Abstract!Occupied |-> LevelOf(g[pl])]
    OBVIOUS
  <1>5. \A pl \in Abstract!Occupied : f[pl] \in LevelSlots \ {l}
    BY <1>3, <1>4, OrdersView DEF OrdersSeen, InUse
  <1>6. \A x, y \in Abstract!Occupied : f[x] = f[y] => x = y
    <2> SUFFICES ASSUME NEW x \in Abstract!Occupied, NEW y \in Abstract!Occupied, f[x] = f[y]
                 PROVE  x = y
      OBVIOUS
    <2>1. LevelOf(g[x]) = LevelOf(g[y])
      BY <1>4
    <2>2. x[1] = y[1] /\ x[2] = y[2]
      BY <1>3, <2>1, LevelsView DEF LevelsSeen
    <2> QED BY <1>1, <2>2
  <1>7. f \in Injection(Abstract!Occupied, LevelSlots \ {l})
    <2>1. f \in [Abstract!Occupied -> LevelSlots \ {l}]
      BY <1>4, <1>5
    <2> QED BY <1>6, <2>1 DEF Injection, IsInjective
  <1>8. /\ IsFiniteSet(LevelSlots \ {l}) /\ Cardinality(LevelSlots) \in Nat
        /\ Cardinality(LevelSlots \ {l}) = Cardinality(LevelSlots) - 1
    BY BookAssumption, FS_CardinalityType, FS_RemoveElement
  <1>9. /\ Cardinality(Abstract!Occupied) \in Nat
        /\ Cardinality(Abstract!Occupied) <= Cardinality(LevelSlots \ {l})
    BY <1>7, <1>8, FS_Injection, FS_CardinalityType
  <1> QED BY <1>8, <1>9

-----------------------------------------------------------------------------
(* Each call of the book is a step of the limit order book, or none: an    *)
(* order is added at the back of its queue, with room for it;              *)
LEMMA RestsAdds ==
  ASSUME BookInv, BookInv', Shown, Shown', NEW o \in RestableOrder, NEW s, Rests(o, s)
  PROVE  Abstract!Next
PROOF
  <1>1. PICK e, side, p : e = OrderAt(s)' /\ side = o.side /\ p = o.price
    OBVIOUS
  <1>2. /\ queue' = [queue EXCEPT ![side][p] = Append(@, e)]
        /\ e \in Abstract!Order /\ side \in Abstract!Side /\ p \in Prices
    <2>1. /\ QueueGrows(side, p, e)
          /\ e \in Abstract!Order /\ side \in Side /\ p \in Prices
      BY <1>1, RestsQueue
    <2> QED BY <2>1, Zenon DEF Shown, QueueGrows, Side, Abstract!Side
  <1>3. /\ s \notin Resting /\ s \in Resting' /\ Resting' = Resting \cup {s}
        /\ data'[s].side = side /\ data'[s].price = p /\ data'[s].order_id = o.order_id
        /\ e.order_id = o.order_id
        /\ \A t \in Resting : /\ data'[t] = data[t] /\ LevelOf(t)' = LevelOf(t)
    BY <1>1 DEF Rests, Enters, DataOf, OrderAt
  <1>4. s \in OrderSlots /\ OrdersSeen' /\ LevelsSeen' /\ AllShown
    BY <1>3, ViewAfter, QueuesDetermined DEF OrdersSeen
  <1>5. e.order_id \notin Abstract!Held
    <2> SUFFICES ASSUME e.order_id \in Abstract!Held PROVE FALSE
      OBVIOUS
    <2>1. PICK t \in Resting : data[t].order_id = o.order_id
      BY <1>3, FoundRests
    <2> QED BY <1>3, <1>4, <2>1 DEF LevelsSeen
  <1>6. Cardinality(Abstract!Held) < Cardinality(OrderSlots)
    BY <1>3, <1>4, HeldFits
  <1>7. ASSUME queue[side][p] = <<>>
        PROVE  Cardinality(Abstract!Occupied) < Cardinality(LevelSlots)
    <2>1. PICK l : l = LevelOf(s)' /\ l \in LevelSlots
      BY <1>3, <1>4 DEF OrdersSeen, InUse
    <2>2. ASSUME NEW t \in Resting, LevelOf(t) = l PROVE FALSE
      <3>1. data[t].side = side /\ data[t].price = p
        BY <1>3, <1>4, <2>1, <2>2 DEF LevelsSeen
      <3>2. Shows(<<>>, side, p)
        BY <1>2, <1>4, <1>7 DEF AllShown, Shown, Side, Abstract!Side
      <3>3. Place(t) \in 1 .. Len(<<>>)
        BY <3>1, <3>2 DEF Shows
      <3> QED BY <3>3
    <2> QED BY <2>1, <2>2, OccupiedFits
  <1>8. \A S : Abstract!Cardinality(S) = Cardinality(S)
    BY DEF Abstract!Cardinality, Cardinality
  <1>9. Abstract!Add(e, side, p)
    BY <1>2, <1>5, <1>6, <1>7, <1>8 DEF Abstract!Add
  <1> QED BY <1>2, <1>9 DEF Abstract!Next

(* an order is taken out of its queue;                                     *)
LEMMA LeavesRemoves ==
  ASSUME BookInv, BookInv', Shown, Shown', NEW s \in Resting, Leaves(s)
  PROVE  Abstract!Next
PROOF
  <1>1. PICK id, side, p, i :
          id = data[s].order_id /\ side = data[s].side /\ p = data[s].price /\ i = Place(s)
    OBVIOUS
  <1>2. queue' = [queue EXCEPT ![side][p] = Abstract!Without(@, i)]
    <2>1. Queue' = [Queue EXCEPT ![side][p] = Abstract!Without(@, i)]
      BY <1>1, LeavesQueue, SMTT(60)
    <2> QED BY <2>1, Zenon DEF Shown
  <1>3. PICK pos : pos = <<<<side, p>>, i>>
    OBVIOUS
  <1>4. pos \in Abstract!Positions(id) /\ id \in OrderIds
    BY <1>1, <1>3, RestingFound
  <1>5. pos[1][1] = side /\ pos[1][2] = p /\ pos[2] = i
    BY <1>3
  <1>6. Abstract!Remove(id)
    BY <1>2, <1>4, <1>5 DEF Abstract!Remove
  <1> QED BY <1>4, <1>6 DEF Abstract!Next

(* an order shrinks in its place.                                          *)
LEMMA ShrinksShrinks ==
  ASSUME BookInv, BookInv', Shown, Shown', NEW s \in Resting, NEW n \in 1 .. MaxQty,
         n <= qty[s], Shrinks(s, n)
  PROVE  Abstract!Next
PROOF
  <1>1. PICK id, side, p, i :
          id = data[s].order_id /\ side = data[s].side /\ p = data[s].price /\ i = Place(s)
    OBVIOUS
  <1>2. queue' = [queue EXCEPT ![side][p][i].qty = n]
    <2>1. QueueShrinks(side, p, i, n)
      BY <1>1, ShrinksQueue
    <2> QED BY <2>1, Zenon DEF Shown, QueueShrinks
  <1>3. PICK pos : pos = <<<<side, p>>, i>>
    OBVIOUS
  <1>4. /\ pos \in Abstract!Positions(id) /\ id \in OrderIds
        /\ queue[side][p][i] = OrderAt(s)
    BY <1>1, <1>3, RestingFound
  <1>5. n <= queue[side][p][i].qty
    BY <1>4 DEF OrderAt
  <1>6. pos[1][1] = side /\ pos[1][2] = p /\ pos[2] = i
    BY <1>3
  <1>7. Abstract!Shrink(id, n)
    BY <1>2, <1>4, <1>5, <1>6 DEF Abstract!Shrink
  <1> QED BY <1>4, <1>7 DEF Abstract!Next

(* With no price mapped, every queue is empty.                             *)
LEMMA NothingMapped ==
  ASSUME price_map = [side \in Side |-> [p \in Prices |-> Null]]
  PROVE  Queue = [side \in Side |-> [p \in Prices |-> <<>>]]
PROOF
  <1>1. ASSUME NEW side \in Side, NEW p \in Prices PROVE Queue[side][p] = <<>>
    <2>1. Chain(price_map[side][p]) = <<>>
      BY DEF Chain
    <2>2. PICK c : c = <<>> /\ Chain(price_map[side][p]) = c
      BY <2>1
    <2>3. Queue[side][p] = [i \in 1 .. Len(c) |-> OrderAt(c[i])]
      BY <2>2 DEF Queue
    <2>4. Len(c) = 0
      BY <2>2
    <2> QED BY <2>3, <2>4
  <1>2. Queue = [side \in Side |-> [p \in Prices |-> Queue[side][p]]]
    BY DEF Queue
  <1> QED BY <1>1, <1>2

NoneMapped == price_map = [side \in Side |-> [p \in Prices |-> Null]]
NoQueues == Queue = [side \in Side |-> [p \in Prices |-> <<>>]]

(* The same after a step.                                                  *)
LEMMA NothingMappedAfter == NoneMapped' => NoQueues'
PROOF
  <1>1. NoneMapped => NoQueues
    BY NothingMapped DEF NoneMapped, NoQueues
  <1> QED BY <1>1, PTL

(* So is every step.                                                       *)
LEMMA BookStepMaps ==
  ASSUME BookInv, BookInv', Shown, Shown', [BookNext]_bookVars
  PROVE  [Abstract!Next]_queue
PROOF
  <1>1. ASSUME UNCHANGED <<orderVars, levelVars, mapVars>> PROVE UNCHANGED queue
    <2>1. UNCHANGED <<data, qty, next_, head_, price_map>>
      BY <1>1 DEF orderVars, levelVars, mapVars
    <2>2. Queue' = Queue
      BY <2>1 DEF Queue, Chain, Walk, OrderAt
    <2> QED BY <2>2 DEF Shown
  <1>2. ASSUME NEW o \in RestableOrder, AddOrder(o) PROVE [Abstract!Next]_queue
    <2>1. CASE \E s \in OrderSlots : Rests(o, s)
      BY <2>1, RestsAdds
    <2>2. CASE Refuses(o)
      BY <2>2, <1>1 DEF Refuses
    <2> QED BY <1>2, <2>1, <2>2, AddOrderRests
  <1>3. ASSUME NEW id \in OrderIds, CancelOrder(id) PROVE Abstract!Next
    BY <1>3, CancelOrderLeaves, LeavesRemoves
  <1>4. ASSUME NEW id \in OrderIds, NEW n \in Quantity, Found(id),
               n <= qty[FindOrder(id)], ReplaceOrderInPlace(id, n)
        PROVE  Abstract!Next
    BY <1>4, ReplaceShrinks, ShrinksShrinks DEF Quantity
  <1>5. ASSUME NEW s \in Resting, NEW fill_qty \in Quantity,
               fill_qty <= qty[s], ApplyFill(s, LevelOf(s), fill_qty)
        PROVE  Abstract!Next
    <2>1. CASE Leaves(s)
      BY <2>1, LeavesRemoves
    <2>2. CASE fill_qty < qty[s] /\ Shrinks(s, qty[s] - fill_qty)
      <3>1. qty[s] \in 1 .. MaxQty /\ fill_qty \in 1 .. MaxQty
        BY OrdersView DEF OrdersSeen, Quantity
      <3>2. PICK n \in 1 .. MaxQty : n = qty[s] - fill_qty /\ n <= qty[s]
        BY <2>2, <3>1, BookAssumption
      <3> QED BY <2>2, <3>2, ShrinksShrinks
    <2> QED BY <1>5, <2>1, <2>2, FillLeavesOrShrinks
  <1>6. CASE Reset
    <2>1. NoneMapped'
      BY <1>6 DEF Reset, NoneMapped
    <2>2. queue' = [side \in Side |-> [p \in Prices |-> <<>>]]
      BY <2>1, NothingMappedAfter DEF NoQueues, Shown
    <2> QED BY <2>2 DEF Abstract!Next, Abstract!Clear, Abstract!Side, Side
  <1>7. CASE UNCHANGED bookVars \/ \E id \in OrderIds : UnknownOrder(id)
    <2>1. UNCHANGED <<orderVars, levelVars, mapVars>>
      BY <1>7 DEF UnknownOrder, bookVars
    <2> QED BY <1>1, <2>1
  <1> QED BY <1>2, <1>3, <1>4, <1>5, <1>6, <1>7 DEF BookNext

(* The book implements the limit order book: to whoever walks the lists,   *)
(* add_order(), cancel_order(), replace_order_in_place() and the fills     *)
(* append to, take out of, and shrink within first-in first-out queues,    *)
(* and nothing but.                                                        *)
THEOREM BookRefinesQueues == MCSpec => RefinesLimitOrderBook
PROOF
  <1>1. MCInit => BookInv /\ Shown
    BY EmptyBook DEF MCInit, Shown
  <1>2. BookInv /\ Shown /\ [MCNext]_<<bookVars, queue>> => BookInv' /\ Shown'
    <2> SUFFICES ASSUME BookInv, Shown, [MCNext]_<<bookVars, queue>>
                 PROVE  BookInv' /\ Shown'
      OBVIOUS
    <2>1. CASE MCNext
      BY <2>1, StepKeeps DEF MCNext, Shown
    <2>2. CASE UNCHANGED <<bookVars, queue>>
      BY <2>2, StutterKeeps, SameQueue DEF Shown
    <2> QED BY <2>1, <2>2
  <1>3. MCInit => Abstract!Init
    BY NothingMapped DEF MCInit, BookInit, Abstract!Init, Abstract!Side, Side
  <1>4. BookInv /\ BookInv' /\ Shown /\ Shown' /\ [MCNext]_<<bookVars, queue>>
        => [Abstract!Next]_queue
    BY BookStepMaps DEF MCNext
  <1> QED BY <1>1, <1>2, <1>3, <1>4, PTL DEF MCSpec, RefinesLimitOrderBook, Abstract!Spec
=============================================================================
