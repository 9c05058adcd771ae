------------------------------ MODULE BookView ------------------------------
(***************************************************************************)
(* The queues a reader of the pointers sees: walking next_ from head_ of   *)
(* each mapped level.                                                      *)
(***************************************************************************)
EXTENDS OrderBook, Sequences

(* The slots on the list that starts at s, in order.  A walk of more steps *)
(* than there are slots is cut off, so that a cycle still has a value.     *)
Walk ==
  LET w[k \in 0 .. Cardinality(OrderSlots)] ==
        [s \in OrderSlots \cup {Null} |->
           IF k = 0 \/ s = Null THEN <<>> ELSE <<s>> \o w[k - 1][next_[s]]]
  IN  w[Cardinality(OrderSlots)]

Chain(l) == IF l = Null THEN <<>> ELSE Walk[head_[l]]

OrderAt(s) == [order_id |-> data[s].order_id, qty |-> qty[s],
               client_id |-> data[s].client_id]

Queue ==
  [side \in Side |-> [p \in Prices |->
     LET chain == Chain(price_map[side][p])
     IN  [i \in 1 .. Len(chain) |-> OrderAt(chain[i])]]]
=============================================================================
