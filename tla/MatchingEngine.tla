--------------------------- MODULE MatchingEngine ---------------------------
(***************************************************************************)
(* What a matching engine is, without sweeps or pointers: a limit order    *)
(* book on which an order is matched in one step.  Given the queues, the   *)
(* order and the mode, the outcome is one calculation: what the order      *)
(* wants is poured over the prices it reaches, the best first, and what    *)
(* each price receives over the orders that rest there.  Matcher.tla       *)
(* implements this specification.                                          *)
(***************************************************************************)
EXTENDS LimitOrderBook, FiniteSetsExt

CONSTANTS Modes, Null

VARIABLE order  \* the order that has been submitted and not matched, or Null

engineVars == <<queue, order>>

Incoming == [order_id : OrderIds, price : Prices, qty : 0 .. MaxQty, side : Side,
             tif : {"GTC", "IOC", "FOK"}, client_id : Clients]

Opposite(side) == IF side = "BUY" THEN "SELL" ELSE "BUY"

Better(side, p, q) == IF side = "BUY" THEN p > q ELSE p < q

Crosses(p, o) == IF o.side = "BUY" THEN p <= o.price ELSE p >= o.price

Total(f, S) == MapThenSumSet(LAMBDA x : f[x], S)

-----------------------------------------------------------------------------
(* What the order may trade with: what other clients offer at the prices   *)
(* it reaches.  <<p, i>> is the i-th order of the other side at price p.   *)
MakerAt(m) == queue[Opposite(order.side)][m[1]][m[2]]

Tradable ==
  {m \in Prices \X (1 .. OrderCapacity) :
     /\ m[2] <= Len(queue[Opposite(order.side)][m[1]])
     /\ Crosses(m[1], order)
     /\ MakerAt(m).client_id # order.client_id}

Offer == [m \in Tradable |-> MakerAt(m).qty]

At(p) == {m \in Tradable : m[1] = p}

Ahead(p) == {m \in Tradable : Better(Opposite(order.side), m[1], p)}

Duplicate == Positions(order.order_id) # {}

(* An id that rests already trades nothing, nor does a FOK order that      *)
(* could not be filled completely.                                         *)
Wanted ==
  IF Duplicate \/ (order.tif = "FOK" /\ Total(Offer, Tradable) < order.qty)
    THEN 0
    ELSE order.qty

(* What reaches a vessel with this much room when an amount is poured over *)
(* a row of them, and those ahead of it hold so much.                      *)
Poured(amount, ahead, room) ==
  LET rest == IF ahead < amount THEN amount - ahead ELSE 0
  IN  IF rest < room THEN rest ELSE room

TradedAt(p) == Poured(Wanted, Total(Offer, Ahead(p)), Total(Offer, At(p)))

(* In pro-rata mode an order is sure of its share, rounded down; what that *)
(* leaves is poured over the orders of the price, the first of the largest *)
(* ahead of the others.  In price-time mode everything is, by age alone.   *)
Share(mode) ==
  [m \in Tradable |->
     IF mode = "PRO_RATA"
       THEN (TradedAt(m[1]) * Offer[m]) \div Total(Offer, At(m[1]))
       ELSE 0]

Room(mode) == [m \in Tradable |-> Offer[m] - Share(mode)[m]]

First(m) == \A n \in At(m[1]) : \/ Offer[n] < Offer[m]
                                \/ Offer[n] = Offer[m] /\ m[2] <= n[2]

InFront(mode, m) ==
  {n \in At(m[1]) :
     /\ n # m
     /\ IF mode = "PRO_RATA" THEN First(n) \/ (~First(m) /\ n[2] < m[2])
                             ELSE n[2] < m[2]}

Traded(mode) ==
  [m \in Tradable |->
     Share(mode)[m]
       + Poured(TradedAt(m[1]) - Total(Share(mode), At(m[1])),
                Total(Room(mode), InFront(mode, m)),
                Room(mode)[m])]

-----------------------------------------------------------------------------
(* The book that is left: the i-th order at a place keeps what has not     *)
(* been traded, and leaves when that is nothing.                           *)
Left(mode, pl, i) ==
  IF pl[1] = Opposite(order.side) /\ <<pl[2], i>> \in Tradable
    THEN Offer[<<pl[2], i>>] - Traded(mode)[<<pl[2], i>>]
    ELSE queue[pl[1]][pl[2]][i].qty

Staying(mode) ==
  {pos \in Places \X (1 .. OrderCapacity) :
     /\ pos[2] <= Len(queue[pos[1][1]][pos[1][2]])
     /\ Left(mode, pos[1], pos[2]) > 0}

(* `line' is what is left at a place, in the order it had.                 *)
Thinned(mode, pl, line) ==
  LET old == queue[pl[1]][pl[2]]
  IN  \E kept \in [DOMAIN line -> DOMAIN old] :
        /\ \A j, k \in DOMAIN line : j < k => kept[j] < kept[k]
        /\ \A i \in DOMAIN old :
             Left(mode, pl, i) > 0 <=> \E j \in DOMAIN line : kept[j] = i
        /\ \A j \in DOMAIN line :
             line[j] = [old[kept[j]] EXCEPT !.qty = Left(mode, pl, kept[j])]

Remainder(mode) ==
  [order_id |-> order.order_id,
   qty |-> Wanted - Total(Traded(mode), Tradable),
   client_id |-> order.client_id]

(* What a GTC order still wants rests, unless orders of its own client are *)
(* in the way, or the book is full.                                        *)
Rests(mode) ==
  LET occupied == {pos[1] : pos \in Staying(mode)}
  IN  /\ order.tif = "GTC"
      /\ Remainder(mode).qty > 0
      /\ \A pl \in occupied : pl[1] = Opposite(order.side) => ~Crosses(pl[2], order)
      /\ Cardinality(Staying(mode)) < OrderCapacity
      /\ \/ <<order.side, order.price>> \in occupied
         \/ Cardinality(occupied) < LevelCapacity

-----------------------------------------------------------------------------
EngineInit == Init /\ order = Null

Submit(o) ==
  /\ order = Null
  /\ order' = o
  /\ UNCHANGED queue

Cancel(id) ==
  /\ order = Null
  /\ Remove(id)
  /\ UNCHANGED order

Reduce(id, new_qty) ==
  /\ order = Null
  /\ Shrink(id, new_qty)
  /\ UNCHANGED order

(* A replacement that asks for more or for another price: the resting      *)
(* order is taken out and one of the same id, side and client submitted.   *)
Resubmit(o) ==
  /\ order = Null
  /\ o.qty > 0
  /\ Remove(o.order_id)
  /\ \E pos \in Positions(o.order_id) :
       LET old == queue[pos[1][1]][pos[1][2]][pos[2]]
       IN  /\ o.side = pos[1][1]
           /\ o.client_id = old.client_id
           /\ o.price = pos[1][2] => o.qty > old.qty
  /\ order' = o

Match(mode) ==
  /\ order # Null
  /\ order' = Null
  /\ queue' \in [Side -> [Prices -> Seq(Order)]]
  /\ \A side \in Side, p \in Prices :
       IF Rests(mode) /\ side = order.side /\ p = order.price
         THEN queue'[side][p] = Append(queue[side][p], Remainder(mode))
         ELSE Thinned(mode, <<side, p>>, queue'[side][p])

EngineNext ==
  \/ \E o \in Incoming : Submit(o)
  \/ \E id \in OrderIds : Cancel(id)
  \/ \E id \in OrderIds, new_qty \in 1 .. MaxQty : Reduce(id, new_qty)
  \/ \E o \in Incoming : Resubmit(o)
  \/ \E mode \in Modes : Match(mode)

EngineSpec == EngineInit /\ [][EngineNext]_engineVars
=============================================================================
