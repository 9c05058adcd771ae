--------------------------- MODULE LimitOrderBook ---------------------------
(***************************************************************************)
(* What an order book is, without pointers: for each side and price, the   *)
(* queue of the orders resting there, oldest first.  An order keeps its    *)
(* place until it leaves, and only ever shrinks.  The book holds at most   *)
(* OrderCapacity orders at LevelCapacity prices.  OrderBook.tla implements *)
(* this specification (BookView.tla gives the mapping).                    *)
(***************************************************************************)
EXTENDS Integers, Sequences, FiniteSets

CONSTANTS OrderIds, Prices, Clients, MaxQty, OrderCapacity, LevelCapacity

VARIABLE queue

Side == {"BUY", "SELL"}
Places == {<<side, p>> : side \in Side, p \in Prices}

Order == [order_id : OrderIds, qty : 1 .. MaxQty, client_id : Clients]

Occupied == {pl \in Places : queue[pl[1]][pl[2]] # <<>>}

(* Where an id rests: the places and indices at which it is found.         *)
Positions(id) ==
  {pos \in Places \X (1 .. OrderCapacity) :
     LET line == queue[pos[1][1]][pos[1][2]]
     IN  pos[2] <= Len(line) /\ line[pos[2]].order_id = id}

Held == {id \in OrderIds : Positions(id) # {}}

Without(seq, i) == SubSeq(seq, 1, i - 1) \o SubSeq(seq, i + 1, Len(seq))

Init == queue = [side \in Side |-> [p \in Prices |-> <<>>]]

(* A new order goes to the back of the queue at its price.                 *)
Add(o, side, p) ==
  /\ queue' = [queue EXCEPT ![side][p] = Append(@, o)]
  /\ o.order_id \notin Held
  /\ Cardinality(Held) < OrderCapacity
  /\ queue[side][p] = <<>> => Cardinality(Occupied) < LevelCapacity

(* A cancelled or completely filled order leaves; the others keep their    *)
(* order.                                                                  *)
Remove(id) ==
  \E pos \in Positions(id) :
    queue' = [queue EXCEPT ![pos[1][1]][pos[1][2]] = Without(@, pos[2])]

(* A partial fill or a replacement to a smaller quantity keeps the place.  *)
Shrink(id, new_qty) ==
  \E pos \in Positions(id) :
    /\ new_qty <= queue[pos[1][1]][pos[1][2]][pos[2]].qty
    /\ queue' = [queue EXCEPT ![pos[1][1]][pos[1][2]][pos[2]].qty = new_qty]

Clear == queue' = [side \in Side |-> [p \in Prices |-> <<>>]]

Next ==
  \/ \E o \in Order, side \in Side, p \in Prices : Add(o, side, p)
  \/ \E id \in OrderIds : Remove(id)
  \/ \E id \in OrderIds, new_qty \in 1 .. MaxQty : Shrink(id, new_qty)
  \/ Clear

Spec == Init /\ [][Next]_queue
=============================================================================
