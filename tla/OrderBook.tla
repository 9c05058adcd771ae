----------------------------- MODULE OrderBook -----------------------------
(***************************************************************************)
(* hydra::OrderBook (include/hydra/order_book.hpp) at the level of its     *)
(* pointers: orders in intrusive doubly linked FIFO lists, one list per    *)
(* price level, levels found through a price map per side, orders found    *)
(* through order_index_, and both kinds of object taken from fixed pools.  *)
(*                                                                         *)
(* A field of a slab object is a function from slots: qty[s] is s->qty.    *)
(* Null is nullptr, and absence from a map.  Which free slot acquire()     *)
(* pops is the pool's affair (ObjectPool.tla), so it is any one here.      *)
(* Released storage is never read again; the model blanks it so that two   *)
(* books that differ only in garbage are the same state.                   *)
(***************************************************************************)
EXTENDS Integers, FiniteSetsExt

CONSTANTS
  OrderIds, Prices, Clients,
  MaxQty,                    \* orders carry 1..MaxQty
  OrderSlots, LevelSlots,    \* the slabs of order_pool_ and level_pool_
  Null

Side == {"BUY", "SELL"}
TimeInForce == {"GTC", "IOC", "FOK"}
Quantity == 1 .. MaxQty

(* The fields of Order that never change while it rests.                   *)
OrderData == [order_id : OrderIds, price : Prices, side : Side,
              tif : TimeInForce, client_id : Clients]

Entry == [order : OrderSlots, level : LevelSlots]

ASSUME BookAssumption ==
  /\ Prices \subseteq Int
  /\ MaxQty \in Nat \ {0}
  /\ IsFiniteSet(OrderSlots) /\ IsFiniteSet(LevelSlots)
  /\ Null \notin OrderSlots \cup LevelSlots \cup Prices \cup Entry \cup OrderData

VARIABLES
  data, qty, prev_, next_,                               \* Order fields
  level_price, total_qty, order_count, head_, tail_,     \* Level fields
  price_map,        \* "BUY" |-> bids_, "SELL" |-> asks_
  order_index,      \* order_index_
  order_pool, level_pool,         \* free slots
  order_pool_dry, level_pool_dry  \* exhaustion_count_ > 0

orderVars == <<data, qty, prev_, next_>>
levelVars == <<level_price, total_qty, order_count, head_, tail_>>
mapVars == <<price_map, order_index>>
poolVars == <<order_pool, level_pool, order_pool_dry, level_pool_dry>>
bookVars == <<orderVars, levelVars, mapVars, poolVars>>

OrderPool == INSTANCE SlotPool WITH
  Slots <- OrderSlots, free <- order_pool, exhausted <- order_pool_dry
LevelPool == INSTANCE SlotPool WITH
  Slots <- LevelSlots, free <- level_pool, exhausted <- level_pool_dry

-----------------------------------------------------------------------------
(* What the readers of the book compute.                                   *)

Opposite(side) == IF side = "BUY" THEN "SELL" ELSE "BUY"

(* bids_ is sorted by std::greater, asks_ by the default std::less.        *)
Better(side, p, q) == IF side = "BUY" THEN p > q ELSE p < q

Mapped(side) == {p \in Prices : price_map[side][p] # Null}

(* A seeded mistake: the maps are sorted the wrong way round.              *)
WorstOf(side, ps) == CHOOSE p \in ps : \A q \in ps : q = p \/ Better(side, q, p)

(* begin() of the sorted map.                                              *)
BestOf(side, ps) == CHOOSE p \in ps : \A q \in ps : q = p \/ Better(side, p, q)

(* best_bid_level() and best_ask_level().                                  *)
BestLevel(side) ==
  IF Mapped(side) = {} THEN Null
  ELSE price_map[side][BestOf(side, Mapped(side))]

(* next_bid_level() and next_ask_level().                                  *)
NextLevel(side, after_price) ==
  LET worse == {p \in Mapped(side) : Better(side, after_price, p)}
  IN  IF after_price \notin Mapped(side) \/ worse = {} THEN Null
      ELSE price_map[side][BestOf(side, worse)]

(* find_order().                                                           *)
Found(order_id) == order_index[order_id] # Null
FindOrder(order_id) == order_index[order_id].order

Resting == OrderSlots \ order_pool
InUse == LevelSlots \ level_pool

LevelOf(s) == order_index[data[s].order_id].level
OrdersAt(l) == {s \in Resting : LevelOf(s) = l}

-----------------------------------------------------------------------------
BookInit ==
  /\ data = [s \in OrderSlots |-> Null]
  /\ qty = [s \in OrderSlots |-> 0]
  /\ prev_ = [s \in OrderSlots |-> Null]
  /\ next_ = [s \in OrderSlots |-> Null]
  /\ level_price = [l \in LevelSlots |-> Null]
  /\ total_qty = [l \in LevelSlots |-> 0]
  /\ order_count = [l \in LevelSlots |-> 0]
  /\ head_ = [l \in LevelSlots |-> Null]
  /\ tail_ = [l \in LevelSlots |-> Null]
  /\ price_map = [side \in Side |-> [p \in Prices |-> Null]]
  /\ order_index = [id \in OrderIds |-> Null]
  /\ OrderPool!Init
  /\ LevelPool!Init

(* `*resting = incoming', the quantity aside.                              *)
DataOf(o) == [order_id |-> o.order_id, price |-> o.price, side |-> o.side,
              tif |-> o.tif, client_id |-> o.client_id]

(* A seeded mistake: the new order goes to the front of the list.          *)
PrependToLevel(l, s) ==
  /\ prev_' = [prev_ EXCEPT ![head_[l]] = s, ![s] = Null]
  /\ next_' = [next_ EXCEPT ![s] = head_[l]]
  /\ head_' = [head_ EXCEPT ![l] = s]
  /\ UNCHANGED tail_

(* append_to_level(), on the link fields: s becomes the tail of l's list.  *)
AppendToLevel(l, s) ==
  /\ prev_' = [prev_ EXCEPT ![s] = tail_[l]]
  /\ next_' = [next_ EXCEPT ![tail_[l]] = s, ![s] = Null]
  /\ head_' = [head_ EXCEPT ![l] = IF tail_[l] = Null THEN s ELSE @]
  /\ tail_' = [tail_ EXCEPT ![l] = s]

(* add_order() of an order whose price already has a level.                *)
RestAtLevel(o, s) ==
  LET l == price_map[o.side][o.price]
  IN  /\ ~Found(o.order_id)
      /\ l # Null
      /\ OrderPool!Acquire(s)
      /\ data' = [data EXCEPT ![s] = DataOf(o)]
      /\ qty' = [qty EXCEPT ![s] = o.qty]
      /\ AppendToLevel(l, s)
      /\ total_qty' = [total_qty EXCEPT ![l] = @ + o.qty]
      /\ order_count' = [order_count EXCEPT ![l] = @ + 1]
      /\ order_index' = [order_index EXCEPT ![o.order_id] =
                           [order |-> s, level |-> l]]
      /\ UNCHANGED <<level_price, price_map, level_pool, level_pool_dry>>

(* add_order() of the first order at its price: a level is taken from the  *)
(* pool, initialised, mapped, and starts with this one order.              *)
RestAtNewLevel(o, s, l) ==
  /\ ~Found(o.order_id)
  /\ price_map[o.side][o.price] = Null
  /\ OrderPool!Acquire(s)
  /\ LevelPool!Acquire(l)
  /\ data' = [data EXCEPT ![s] = DataOf(o)]
  /\ qty' = [qty EXCEPT ![s] = o.qty]
  /\ prev_' = [prev_ EXCEPT ![s] = Null]
  /\ next_' = [next_ EXCEPT ![s] = Null]
  /\ level_price' = [level_price EXCEPT ![l] = o.price]
  /\ head_' = [head_ EXCEPT ![l] = s]
  /\ tail_' = [tail_ EXCEPT ![l] = s]
  /\ total_qty' = [total_qty EXCEPT ![l] = o.qty]
  /\ order_count' = [order_count EXCEPT ![l] = 1]
  /\ price_map' = [price_map EXCEPT ![o.side][o.price] = l]
  /\ order_index' = [order_index EXCEPT ![o.order_id] =
                       [order |-> s, level |-> l]]

(* add_order() returning nullptr: the id is already resting, there is no   *)
(* order slot, or there is no level for a new price (and the order slot    *)
(* acquired a moment before is released again).                            *)
RejectDuplicate(o) == Found(o.order_id) /\ UNCHANGED bookVars

NoOrderSlot(o) ==
  /\ ~Found(o.order_id)
  /\ OrderPool!AcquireFails
  /\ UNCHANGED <<orderVars, levelVars, mapVars, level_pool, level_pool_dry>>

(* A seeded mistake: the order slot is not given back.                     *)
NoLevelSlotLeaks(o) ==
  /\ ~Found(o.order_id)
  /\ price_map[o.side][o.price] = Null
  /\ \E s \in OrderSlots : OrderPool!Acquire(s)
  /\ LevelPool!AcquireFails
  /\ UNCHANGED <<orderVars, levelVars, mapVars>>

NoLevelSlot(o) ==
  /\ ~Found(o.order_id)
  /\ order_pool # {}
  /\ price_map[o.side][o.price] = Null
  /\ LevelPool!AcquireFails
  /\ UNCHANGED <<orderVars, levelVars, mapVars, order_pool, order_pool_dry>>

AddOrder(o) ==
  \/ \E s \in OrderSlots : RestAtLevel(o, s)
  \/ \E s \in OrderSlots, l \in LevelSlots : RestAtNewLevel(o, s, l)
  \/ RejectDuplicate(o)
  \/ NoOrderSlot(o)
  \/ NoLevelSlot(o)

(* A seeded mistake: the successor keeps its link to the order.            *)
UnlinkForwardOnly(s) ==
  /\ next_' = [t \in OrderSlots |->
                 IF t = s THEN Null ELSE IF t = prev_[s] THEN next_[s] ELSE next_[t]]
  /\ prev_' = [prev_ EXCEPT ![s] = Null]

(* unlink_from_level(), on the link fields of the orders.                  *)
Unlink(s) ==
  /\ next_' = [t \in OrderSlots |->
                 IF t = s THEN Null ELSE IF t = prev_[s] THEN next_[s] ELSE next_[t]]
  /\ prev_' = [t \in OrderSlots |->
                 IF t = s THEN Null ELSE IF t = next_[s] THEN prev_[s] ELSE prev_[t]]

(* A seeded mistake: the count is tested before it is decremented.         *)
EmptiedTooLate(l) == order_count[l] = 0

(* `level->order_count == 0', once unlink_from_level() has decremented it. *)
Emptied(l) == order_count[l] - 1 = 0

(* cancel_order() of a resting order, on a book whose quantities are       *)
(* `quantity' and whose level totals are `totals': the caller may have     *)
(* changed both just before (ApplyFill).  An emptied level is unmapped and *)
(* released.                                                               *)
CancelWith(order_id, quantity, totals) ==
  LET s == order_index[order_id].order
      l == order_index[order_id].level
  IN  /\ Found(order_id)
      /\ Unlink(s)
      /\ order_index' = [order_index EXCEPT ![order_id] = Null]
      /\ OrderPool!Release(s)
      /\ data' = [data EXCEPT ![s] = Null]
      /\ qty' = [quantity EXCEPT ![s] = 0]
      /\ \/ /\ Emptied(l)
            /\ price_map' =
                 [price_map EXCEPT ![data[s].side][level_price[l]] = Null]
            /\ LevelPool!Release(l)
            /\ level_price' = [level_price EXCEPT ![l] = Null]
            /\ total_qty' = [totals EXCEPT ![l] = 0]
            /\ order_count' = [order_count EXCEPT ![l] = 0]
            /\ head_' = [head_ EXCEPT ![l] = Null]
            /\ tail_' = [tail_ EXCEPT ![l] = Null]
         \/ /\ ~Emptied(l)
            /\ total_qty' = [totals EXCEPT ![l] = @ - quantity[s]]
            /\ order_count' = [order_count EXCEPT ![l] = @ - 1]
            /\ head_' = [head_ EXCEPT ![l] = IF prev_[s] = Null THEN next_[s] ELSE @]
            /\ tail_' = [tail_ EXCEPT ![l] = IF next_[s] = Null THEN prev_[s] ELSE @]
            /\ UNCHANGED <<level_price, price_map, level_pool, level_pool_dry>>

CancelOrder(order_id) == CancelWith(order_id, qty, total_qty)

(* cancel_order() and replace_order_in_place() returning false.            *)
UnknownOrder(order_id) == ~Found(order_id) /\ UNCHANGED bookVars

(* A seeded mistake: the level's total is forgotten.                       *)
ReplaceWithoutTotal(order_id, new_qty) ==
  /\ Found(order_id)
  /\ qty' = [qty EXCEPT ![order_index[order_id].order] = new_qty]
  /\ UNCHANGED <<data, prev_, next_, levelVars, mapVars, poolVars>>

(* replace_order_in_place(): the order keeps its place in the list.        *)
ReplaceOrderInPlace(order_id, new_qty) ==
  LET s == order_index[order_id].order
      l == order_index[order_id].level
  IN  /\ Found(order_id)
      /\ qty' = [qty EXCEPT ![s] = new_qty]
      /\ total_qty' = [total_qty EXCEPT ![l] = @ - (qty[s] - new_qty)]
      /\ UNCHANGED <<data, prev_, next_, level_price, order_count, head_, tail_,
                     mapVars, poolVars>>

(* A seeded mistake: the order is cancelled with its quantity not          *)
(* yet reduced, so that unlink_from_level() subtracts it a second time.    *)
ApplyFillTwice(s, l, fill_qty) ==
  LET totals == [total_qty EXCEPT ![l] = @ - fill_qty]
  IN  \/ /\ qty[s] = fill_qty
         /\ CancelWith(data[s].order_id, qty, totals)
      \/ /\ qty[s] # fill_qty
         /\ qty' = [qty EXCEPT ![s] = @ - fill_qty]
         /\ total_qty' = totals
         /\ UNCHANGED <<data, prev_, next_, level_price, order_count, head_,
                        tail_, mapVars, poolVars>>

(* Matcher::apply_fill() as far as the book is concerned: the fill leaves  *)
(* the order's quantity and its level's total, and an order filled         *)
(* completely is then cancelled, its quantity being 0 by that time.        *)
ApplyFill(s, l, fill_qty) ==
  LET quantity == [qty EXCEPT ![s] = @ - fill_qty]
      totals == [total_qty EXCEPT ![l] = @ - fill_qty]
  IN  \/ /\ quantity[s] = 0
         /\ CancelWith(data[s].order_id, quantity, totals)
      \/ /\ quantity[s] # 0
         /\ qty' = quantity
         /\ total_qty' = totals
         /\ UNCHANGED <<data, prev_, next_, level_price, order_count, head_,
                        tail_, mapVars, poolVars>>

(* reset() of the book and then of both pools, the only way it is called   *)
(* (run_benchmark, between two trials).                                    *)
Reset ==
  /\ data' = [s \in OrderSlots |-> Null]
  /\ qty' = [s \in OrderSlots |-> 0]
  /\ prev_' = [s \in OrderSlots |-> Null]
  /\ next_' = [s \in OrderSlots |-> Null]
  /\ level_price' = [l \in LevelSlots |-> Null]
  /\ total_qty' = [l \in LevelSlots |-> 0]
  /\ order_count' = [l \in LevelSlots |-> 0]
  /\ head_' = [l \in LevelSlots |-> Null]
  /\ tail_' = [l \in LevelSlots |-> Null]
  /\ price_map' = [side \in Side |-> [p \in Prices |-> Null]]
  /\ order_index' = [id \in OrderIds |-> Null]
  /\ OrderPool!Reset
  /\ LevelPool!Reset

(* The orders add_order() is called with: the remainders of GTC orders,    *)
(* its only caller being Matcher::match().                                 *)
RestableOrder == [order_id : OrderIds, price : Prices, qty : Quantity,
                  side : Side, tif : {"GTC"}, client_id : Clients]

(* The book under every sequence of calls its callers may make.  A         *)
(* replacement in place never grows the order nor empties it, and a fill   *)
(* never exceeds what is left of it (Matcher::replace, Matcher::match).    *)
BookNext ==
  \/ \E o \in RestableOrder : AddOrder(o)
  \/ \E id \in OrderIds : CancelOrder(id)
  \/ \E id \in OrderIds : UnknownOrder(id)
  \/ \E id \in OrderIds, new_qty \in Quantity :
       Found(id) /\ new_qty <= qty[FindOrder(id)] /\ ReplaceOrderInPlace(id, new_qty)
  \/ \E s \in Resting, fill_qty \in Quantity :
       fill_qty <= qty[s] /\ ApplyFill(s, LevelOf(s), fill_qty)
  \/ Reset

BookSpec == BookInit /\ [][BookNext]_bookVars

-----------------------------------------------------------------------------
(* Types: every pointer field is a slot of its slab or Null, and no        *)
(* unsigned total has gone below zero.                                     *)
BookTypeOK ==
  /\ data \in [OrderSlots -> OrderData \cup {Null}]
  /\ qty \in [OrderSlots -> 0 .. MaxQty]
  /\ prev_ \in [OrderSlots -> OrderSlots \cup {Null}]
  /\ next_ \in [OrderSlots -> OrderSlots \cup {Null}]
  /\ level_price \in [LevelSlots -> Prices \cup {Null}]
  /\ total_qty \in [LevelSlots -> Nat]
  /\ order_count \in [LevelSlots -> Nat]
  /\ head_ \in [LevelSlots -> OrderSlots \cup {Null}]
  /\ tail_ \in [LevelSlots -> OrderSlots \cup {Null}]
  /\ price_map \in [Side -> [Prices -> LevelSlots \cup {Null}]]
  /\ order_index \in [OrderIds -> Entry \cup {Null}]
  /\ order_pool \in SUBSET OrderSlots
  /\ level_pool \in SUBSET LevelSlots
  /\ order_pool_dry \in BOOLEAN
  /\ level_pool_dry \in BOOLEAN

(* Every id maps to a live order of that id and to the level its price map *)
(* holds for that order's side and price; and every order slot taken from  *)
(* the pool is found under its id.  So no id is stale, no order is indexed *)
(* twice, and no failure path leaks a slot.                                *)
IndexExact ==
  /\ \A id \in OrderIds : Found(id) =>
       LET e == order_index[id]
       IN  /\ e.order \in Resting
           /\ e.level \in InUse
           /\ data[e.order] # Null
           /\ data[e.order].order_id = id
           /\ price_map[data[e.order].side][data[e.order].price] = e.level
  /\ \A s \in Resting :
       /\ data[s] # Null
       /\ Found(data[s].order_id)
       /\ FindOrder(data[s].order_id) = s
       /\ qty[s] > 0

(* The price maps hold exactly the levels taken from the pool, each once,  *)
(* under its own price; and no such level is empty.                        *)
LevelsMapped ==
  /\ \A side \in Side, p \in Prices : price_map[side][p] # Null =>
       /\ price_map[side][p] \in InUse
       /\ level_price[price_map[side][p]] = p
  /\ \A l \in InUse : \E side \in Side, p \in Prices : price_map[side][p] = l
  /\ \A p, q \in Prices :
       price_map["BUY"][p] = price_map["SELL"][q] => price_map["BUY"][p] = Null
  /\ \A l \in InUse : order_count[l] > 0

(* `pos' numbers the orders of each level from 1 to order_count, each      *)
(* number once; next_ and prev_ lead from each number to the one after and *)
(* the one before, and end at tail_ and head_.                             *)
Numbers(pos) ==
  /\ \A s \in Resting : pos[s] \in 1 .. order_count[LevelOf(s)]
  /\ \A l \in InUse : \A k \in 1 .. order_count[l] :
       \E s \in OrdersAt(l) : pos[s] = k
  /\ \A s, t \in Resting : LevelOf(s) = LevelOf(t) =>
       /\ pos[s] = pos[t] => s = t
       /\ pos[t] = pos[s] + 1 => next_[s] = t /\ prev_[t] = s
  /\ \A s \in Resting :
       /\ pos[s] = 1 => prev_[s] = Null /\ head_[LevelOf(s)] = s
       /\ pos[s] = order_count[LevelOf(s)] =>
            next_[s] = Null /\ tail_[LevelOf(s)] = s

(* Each level's list is a proper doubly linked list of order_count orders, *)
(* with head_ and tail_ at its ends: no dangling link, no cycle, no order  *)
(* cut off, whatever is appended and unlinked and where.                   *)
ListsLinked ==
  \E pos \in [OrderSlots -> 0 .. Cardinality(OrderSlots)] : Numbers(pos)

(* total_qty is the sum of what the level's orders still offer: in         *)
(* particular no fill is subtracted twice (apply_fill() zeroes the order's *)
(* quantity before unlink_from_level() subtracts it).                      *)
LevelTotals ==
  \A l \in InUse : total_qty[l] = MapThenSumSet(LAMBDA s : qty[s], OrdersAt(l))
=============================================================================
