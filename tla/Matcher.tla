------------------------------ MODULE Matcher ------------------------------
(***************************************************************************)
(* hydra::Matcher (include/hydra/matcher.hpp) on the pointer-level book.   *)
(* match() is modelled one visited order at a time, with the pointers it   *)
(* keeps in local variables while apply_fill() unlinks and releases orders *)
(* and levels under it: the current and the next level, the current order, *)
(* and, in pro-rata mode, the largest order, filled last.                  *)
(*                                                                         *)
(* The matching thread is the only one that calls these functions, so an   *)
(* operation starts only when the one before it has returned.  set_mode()  *)
(* may be called by any thread: match() loads the mode once, and the load  *)
(* may give any mode in Modes.                                             *)
(*                                                                         *)
(* MatchStats is reduced to remaining_qty and to the fills themselves,     *)
(* which on_fill receives; the other counters are not modelled.            *)
(***************************************************************************)
EXTENDS BookView

CONSTANT Modes  \* the modes ever set

VARIABLES
  pc,          \* where match() is; "idle" between two operations
  incoming,    \* the order being matched
  mode,        \* the mode this match() loaded
  remaining,   \* quantity not filled yet; in the end stats.remaining_qty
  level, next_level, resting,   \* the sweep's pointers
  share,       \* pro_rata_at_level()'s numbers, for the current level
  fills,       \* what on_fill has been called with
  before       \* the queues when match() began: not state of the program

localVars == <<incoming, mode, remaining, level, next_level, resting, share,
               fills, before>>
vars == <<bookVars, pc, localVars>>

Order == [order_id : OrderIds, price : Prices, qty : 0 .. MaxQty, side : Side,
          tif : TimeInForce, client_id : Clients]

ASSUME MatcherAssumption ==
  /\ Modes \subseteq {"PRICE_TIME", "PRO_RATA"}
  /\ Null \notin Order

-----------------------------------------------------------------------------
Smaller(m, n) == IF m < n THEN m ELSE n

(* crosses(): the order's limit reaches this price of the opposite side.   *)
Crosses(p, o) == IF o.side = "BUY" THEN p <= o.price ELSE p >= o.price

(* is_self_trade().                                                        *)
IsSelfTrade(s, o) == data[s].client_id = o.client_id

SumQty(slots) == MapThenSumSet(LAMBDA s : qty[s], slots)

Eligible(l) == {s \in OrdersAt(l) : ~IsSelfTrade(s, incoming)}

(* A seeded mistake: the dry run counts the client's own orders.           *)
AvailableWithOwn(o) ==
  Smaller(o.qty, SumQty({s \in Resting : /\ data[s].side = Opposite(o.side)
                                         /\ Crosses(data[s].price, o)}))

(* available_price_time() and available_pro_rata(): both dry runs walk the *)
(* crossing levels and stop once the quantity is covered, so both find the *)
(* sum of what other clients offer there, capped by the order's quantity.  *)
Available(o) ==
  Smaller(o.qty,
    SumQty({s \in Resting : /\ data[s].side = Opposite(o.side)
                            /\ Crosses(data[s].price, o)
                            /\ ~IsSelfTrade(s, o)}))

(* Seeded mistakes: the level is swept again, or is the only one.          *)
SameLevel(l) == BestLevel(Opposite(incoming.side))
NoLevel(l) == Null

(* The level the sweep goes on to after level l.                           *)
Following(l) == NextLevel(Opposite(incoming.side), level_price[l])

(* The head of both sweeps' loops.                                         *)
SweepGoesOn == level # Null /\ remaining > 0 /\ Crosses(level_price[level], incoming)

NoShare == [fill_qty |-> 0, eligible_total |-> 0, residual |-> 0,
            largest |-> Null, largest_share |-> 0]

-----------------------------------------------------------------------------
Init ==
  /\ BookInit
  /\ pc = "idle"
  /\ incoming = Null
  /\ mode = Null
  /\ remaining = 0
  /\ level = Null /\ next_level = Null /\ resting = Null
  /\ share = NoShare
  /\ fills = <<>>
  /\ before = Null

(* match(incoming), called with a new order.                               *)
Submit(o) ==
  /\ pc = "idle"
  /\ pc' = "match"
  /\ incoming' = o
  /\ UNCHANGED <<bookVars, mode, remaining, level, next_level, resting, share,
                 fills, before>>

(* cancel_order(), called by the matching thread for a cancel event.       *)
Cancel(order_id) ==
  /\ pc = "idle"
  /\ CancelOrder(order_id)
  /\ UNCHANGED <<pc, localVars>>

(* replace(): quantity 0 cancels; the same price and no more than the      *)
(* present quantity changes the order in place; anything else cancels it   *)
(* and submits it again.  An unknown id changes nothing.                   *)
Replace(order_id, new_price, new_qty) ==
  LET s == FindOrder(order_id)
      shrinks == new_price = data[s].price /\ new_qty <= qty[s]
  IN  /\ pc = "idle"
      /\ Found(order_id)
      /\ \/ /\ new_qty = 0
            /\ CancelOrder(order_id)
            /\ UNCHANGED <<pc, localVars>>
         \/ /\ new_qty # 0 /\ shrinks
            /\ ReplaceOrderInPlace(order_id, new_qty)
            /\ UNCHANGED <<pc, localVars>>
         \/ /\ new_qty # 0 /\ ~shrinks
            /\ CancelOrder(order_id)
            /\ pc' = "match"
            /\ incoming' = [order_id |-> order_id, price |-> new_price,
                            qty |-> new_qty, side |-> data[s].side,
                            tif |-> data[s].tif, client_id |-> data[s].client_id]
            /\ UNCHANGED <<mode, remaining, level, next_level, resting, share,
                           fills, before>>

(* match() up to its sweep: an id that already rests is refused, and so is *)
(* a FOK order that the book cannot fill completely; neither touches the   *)
(* book.                                                                   *)
Refused == \/ Found(incoming.order_id)
           \/ incoming.tif = "FOK" /\ Available(incoming) < incoming.qty

BeginMatch ==
  /\ pc = "match"
  /\ remaining' = incoming.qty
  /\ before' = Queue
  /\ \E m \in Modes : mode' = m
  /\ \/ /\ Refused
        /\ pc' = "returned"
        /\ UNCHANGED level
     \/ /\ ~Refused
        /\ pc' = "level"
        /\ level' = BestLevel(Opposite(incoming.side))
  /\ UNCHANGED <<bookVars, incoming, next_level, resting, share, fills>>

(* One round of the sweep's outer loop: the next level is looked up now,   *)
(* before the current one can be emptied and released.                     *)
EnterLevel ==
  /\ pc = "level"
  /\ mode = "PRICE_TIME"
  /\ SweepGoesOn
  /\ next_level' = Following(level)
  /\ resting' = head_[level]
  /\ pc' = "visit"
  /\ UNCHANGED <<bookVars, incoming, mode, remaining, level, share, fills, before>>

EndSweep ==
  /\ pc = "level"
  /\ ~SweepGoesOn
  /\ pc' = "rest"
  /\ level' = Null /\ next_level' = Null
  /\ UNCHANGED <<bookVars, incoming, mode, remaining, resting, share, fills, before>>

(* A seeded mistake: the whole order is reported as filled.                *)
FillReportsWhole(s, fill_qty) ==
  /\ fills' = Append(fills, [maker |-> data[s].order_id, qty |-> qty[s]])
  /\ remaining' = remaining - fill_qty
  /\ ApplyFill(s, level, fill_qty)

(* apply_fill(): the handler is told, and the book changed.                *)
Fill(s, fill_qty) ==
  /\ fills' = Append(fills, [maker |-> data[s].order_id, qty |-> fill_qty])
  /\ remaining' = remaining - fill_qty
  /\ ApplyFill(s, level, fill_qty)

(* One round of the inner loop of sweep_price_time(); next_resting is read *)
(* before the fill.                                                        *)
SkipSelf ==
  /\ pc = "visit"
  /\ resting # Null /\ remaining > 0
  /\ IsSelfTrade(resting, incoming)
  /\ resting' = next_[resting]
  /\ UNCHANGED <<bookVars, pc, incoming, mode, remaining, level, next_level,
                 share, fills, before>>

FillResting ==
  /\ pc = "visit"
  /\ resting # Null /\ remaining > 0
  /\ ~IsSelfTrade(resting, incoming)
  /\ Fill(resting, Smaller(remaining, qty[resting]))
  /\ resting' = next_[resting]
  /\ UNCHANGED <<pc, incoming, mode, level, next_level, share, before>>

LeaveLevel ==
  /\ pc = "visit"
  /\ resting = Null \/ remaining = 0
  /\ resting' = Null
  /\ level' = next_level
  /\ pc' = "level"
  /\ UNCHANGED <<bookVars, incoming, mode, remaining, next_level, share, fills,
                 before>>

-----------------------------------------------------------------------------
(* pro_rata_at_level() up to its apply pass.  `largest' is the first order *)
(* in the list of the greatest eligible quantity; the residual left by the *)
(* rounded-down shares goes to it first, as far as it still has quantity.  *)
FloorShare(s, fill_qty, eligible_total) == (fill_qty * qty[s]) \div eligible_total

(* A seeded mistake: the last of the largest orders is taken.              *)
LargestLast(l) ==
  LET chain == Chain(l)
      most(i) == /\ chain[i] \in Eligible(l)
                 /\ \A s \in Eligible(l) : qty[s] <= qty[chain[i]]
  IN  chain[CHOOSE i \in 1 .. Len(chain) :
              most(i) /\ \A j \in i + 1 .. Len(chain) : ~most(j)]

Largest(l) ==
  LET chain == Chain(l)
      most(i) == /\ chain[i] \in Eligible(l)
                 /\ \A s \in Eligible(l) : qty[s] <= qty[chain[i]]
  IN  chain[CHOOSE i \in 1 .. Len(chain) :
              most(i) /\ \A j \in 1 .. i - 1 : ~most(j)]

Shares(l) ==
  LET eligible_total == SumQty(Eligible(l))
      fill_qty == Smaller(remaining, eligible_total)
      floors == MapThenSumSet(LAMBDA s : FloorShare(s, fill_qty, eligible_total),
                              Eligible(l))
      residual == fill_qty - floors
      largest == Largest(l)
      floor_share == FloorShare(largest, fill_qty, eligible_total)
      extra == Smaller(residual, qty[largest] - floor_share)
  IN  [fill_qty |-> fill_qty, eligible_total |-> eligible_total,
       residual |-> residual - extra,
       largest |-> largest, largest_share |-> floor_share + extra]

(* One round of pro_rata_sweep(): a level where only the client's own      *)
(* orders rest is passed over.                                             *)
EnterLevelProRata ==
  /\ pc = "level"
  /\ mode = "PRO_RATA"
  /\ SweepGoesOn
  /\ \/ /\ Eligible(level) = {}
        /\ level' = Following(level)
        /\ UNCHANGED <<pc, next_level, resting, share>>
     \/ /\ Eligible(level) # {}
        /\ next_level' = Following(level)
        /\ share' = Shares(level)
        /\ resting' = head_[level]
        /\ pc' = "share"
        /\ UNCHANGED level
  /\ UNCHANGED <<bookVars, incoming, mode, remaining, fills, before>>

(* A seeded mistake: the largest order is not left for the end.            *)
NothingDeferred(s) == FALSE

Deferred(s) == s = share.largest

(* One round of the apply pass, over every order but the largest.          *)
PassOver ==
  /\ pc = "share"
  /\ resting # Null
  /\ Deferred(resting) \/ IsSelfTrade(resting, incoming)
  /\ resting' = next_[resting]
  /\ UNCHANGED <<bookVars, pc, incoming, mode, remaining, level, next_level,
                 share, fills, before>>

FillShare ==
  LET floor_share == FloorShare(resting, share.fill_qty, share.eligible_total)
      extra == Smaller(share.residual, qty[resting] - floor_share)
      total_share == floor_share + extra
  IN  /\ pc = "share"
      /\ resting # Null
      /\ ~Deferred(resting) /\ ~IsSelfTrade(resting, incoming)
      /\ share' = [share EXCEPT !.residual = @ - extra]
      /\ \/ /\ total_share > 0
            /\ Fill(resting, total_share)
         \/ /\ total_share = 0
            /\ UNCHANGED <<bookVars, remaining, fills>>
      /\ resting' = next_[resting]
      /\ UNCHANGED <<pc, incoming, mode, level, next_level, before>>

(* The largest order is filled last: its fill may release it and the level.*)
FillLargest ==
  /\ pc = "share"
  /\ resting = Null
  /\ \/ /\ share.largest_share > 0
        /\ Fill(share.largest, share.largest_share)
     \/ /\ share.largest_share = 0
        /\ UNCHANGED <<bookVars, remaining, fills>>
  /\ share' = NoShare
  /\ level' = next_level
  /\ pc' = "level"
  /\ UNCHANGED <<incoming, mode, next_level, resting, before>>

-----------------------------------------------------------------------------
(* Seeded mistakes: every remainder rests, or rests with the               *)
(* quantity the order came with.                                           *)
NeverCrosses == FALSE
WholeOrder == incoming

(* `resting_copy'.                                                         *)
Remainder == [incoming EXCEPT !.qty = remaining]

(* MATCH-01: the remainder of a GTC order rests unless its limit still     *)
(* reaches the opposite best, and is discarded otherwise, like that of any *)
(* other order.                                                            *)
WouldRestCrossed ==
  LET opp == BestLevel(Opposite(incoming.side))
  IN  opp # Null /\ Crosses(level_price[opp], incoming)

FinishMatch ==
  LET rests == incoming.tif = "GTC" /\ remaining > 0 /\ ~WouldRestCrossed
  IN  /\ pc = "rest"
      /\ \/ rests /\ AddOrder(Remainder)
         \/ ~rests /\ UNCHANGED bookVars
      /\ pc' = "returned"
      /\ UNCHANGED localVars

(* match() has returned; its caller goes on to the next operation.         *)
Return ==
  /\ pc = "returned"
  /\ pc' = "idle"
  /\ incoming' = Null
  /\ mode' = Null
  /\ remaining' = 0
  /\ level' = Null /\ next_level' = Null /\ resting' = Null
  /\ share' = NoShare
  /\ fills' = <<>>
  /\ before' = Null
  /\ UNCHANGED bookVars

Call ==
  \/ \E o \in Order : Submit(o)
  \/ \E id \in OrderIds : Cancel(id)
  \/ \E id \in OrderIds, p \in Prices, q \in 0 .. MaxQty : Replace(id, p, q)

Step ==
  \/ BeginMatch
  \/ EnterLevel \/ SkipSelf \/ FillResting \/ LeaveLevel
  \/ EnterLevelProRata \/ PassOver \/ FillShare \/ FillLargest
  \/ EndSweep
  \/ FinishMatch
  \/ Return

Next == Call \/ Step

Spec == Init /\ [][Next]_vars

-----------------------------------------------------------------------------
(* No pointer the sweep will still follow is to an order or a level that   *)
(* its own fills have released meanwhile, or to one of another level: what *)
(* saving next_level and next_resting early, and filling the largest order *)
(* last, are for.                                                          *)
PointersLive ==
  /\ pc = "level" => level \in InUse \cup {Null}
  /\ pc \in {"visit", "share"} => next_level \in InUse \cup {Null}
  /\ pc \in {"visit", "share"} /\ resting # Null =>
       level \in InUse /\ resting \in OrdersAt(level)
  /\ pc = "share" => level \in InUse /\ share.largest \in OrdersAt(level)

(* A bid never rests at or above an ask, whatever clients they are of and  *)
(* however the resting orders got there (MATCH-01).                        *)
NeverCrossed ==
  \A bid \in Mapped("BUY"), ask \in Mapped("SELL") : bid < ask

-----------------------------------------------------------------------------
(* What match() has done, when it returns, to the orders that rested when  *)
(* it began.  A resting order of the other side is known by its price and  *)
(* its place <<p, i>> in the queue at that price.                          *)

Returned == pc = "returned"

Duplicate == \E side \in Side, p \in Prices :
  \E i \in 1 .. Len(before[side][p]) :
    before[side][p][i].order_id = incoming.order_id

Makers(p) == before[Opposite(incoming.side)][p]
MakerAt(m) == Makers(m[1])[m[2]]

(* The orders the incoming one may trade with.                             *)
Tradable ==
  {m \in Prices \X (1 .. Cardinality(OrderSlots)) :
     /\ m[2] <= Len(Makers(m[1]))
     /\ Crosses(m[1], incoming)
     /\ MakerAt(m).client_id # incoming.client_id}

FilledOf(id) ==
  MapThenSumSet(LAMBDA i : fills[i].qty, {i \in DOMAIN fills : fills[i].maker = id})

Filled(m) == FilledOf(MakerAt(m).order_id)

(* Nothing is created or lost: the fills add up to what the order no       *)
(* longer wants, each went to an order it may trade with, and every order  *)
(* of the book is left with its quantity less what it was filled for.      *)
FillsAddUp ==
  Returned =>
    /\ incoming.qty = remaining
         + MapThenSumSet(LAMBDA i : fills[i].qty, DOMAIN fills)
    /\ \A i \in DOMAIN fills :
         \E m \in Tradable : MakerAt(m).order_id = fills[i].maker
    /\ \A side \in Side, p \in Prices : \A i \in 1 .. Len(before[side][p]) :
         LET o == before[side][p][i]
             left == o.qty - FilledOf(o.order_id)
         IN  IF left = 0 THEN ~Found(o.order_id)
             ELSE Found(o.order_id) /\ qty[FindOrder(o.order_id)] = left

(* A better price trades before a worse one; in price-time mode an older   *)
(* order trades before a newer one at the same price.                      *)
PriorityRespected ==
  Returned =>
    \A m, n \in Tradable :
      LET ahead == \/ Better(Opposite(incoming.side), m[1], n[1])
                   \/ mode = "PRICE_TIME" /\ m[1] = n[1] /\ m[2] < n[2]
      IN  ahead /\ Filled(n) > 0 => Filled(m) = MakerAt(m).qty

(* FOK: filled completely, or nothing at all has happened: the dry run     *)
(* promises exactly what the sweep then delivers.                          *)
FillOrKill ==
  Returned /\ incoming.tif = "FOK" =>
    remaining = 0 \/ (fills = <<>> /\ Queue = before)

(* A quantity is left only when nothing it could trade with is: what still *)
(* crosses is the client's own (the argument of MATCH-01).                 *)
NothingLeftToTrade ==
  Returned /\ remaining > 0 /\ ~Duplicate /\ incoming.tif # "FOK" =>
    \A s \in Resting :
      data[s].side = Opposite(incoming.side) /\ Crosses(data[s].price, incoming)
        => IsSelfTrade(s, incoming)

(* The remainder of a GTC order rests last in its queue with exactly what  *)
(* is left, unless an own order is in the way or a pool has run dry and    *)
(* says so; no other order ever rests.                                     *)
RemainderAccountedFor ==
  Returned /\ ~Duplicate =>
    LET id == incoming.order_id
        own == Queue[incoming.side][incoming.price]
    IN  IF incoming.tif = "GTC" /\ remaining > 0
        THEN \/ own # <<>> /\ own[Len(own)].order_id = id
                           /\ own[Len(own)].qty = remaining
             \/ ~Found(id) /\ WouldRestCrossed
             \/ ~Found(id) /\ order_pool = {} /\ order_pool_dry
             \/ ~Found(id) /\ level_pool = {} /\ level_pool_dry
        ELSE ~Found(id)

(* Pro-rata at each price: every order gets its share of what is traded    *)
(* there, rounded down, and the units lost to rounding go to the first of  *)
(* the largest orders until it is full, then to the others, oldest first.  *)
ProRataFair ==
  Returned /\ mode = "PRO_RATA" =>
    \A p \in Prices :
      LET at == {m \in Tradable : m[1] = p}
          total == MapThenSumSet(LAMBDA m : MakerAt(m).qty, at)
          traded == MapThenSumSet(Filled, at)
          floor(m) == (traded * MakerAt(m).qty) \div total
          full(m) == Filled(m) = MakerAt(m).qty
          first(m) == \A n \in at : \/ MakerAt(n).qty < MakerAt(m).qty
                                    \/ MakerAt(n).qty = MakerAt(m).qty /\ m[2] <= n[2]
          before_in_line(m, n) == first(m) \/ (~first(n) /\ m[2] < n[2])
      IN  /\ \A m \in at : Filled(m) >= floor(m)
          /\ \A m, n \in at :
               m # n /\ before_in_line(m, n) /\ Filled(n) > floor(n) => full(m)

(* How far match() is from its return: first the levels the sweep has not  *)
(* come to, then the orders of this level it has not, then the rest of the *)
(* call.                                                                   *)
LevelsAhead(l) ==
  IF l = Null THEN 0
  ELSE Cardinality({p \in Mapped(Opposite(incoming.side)) :
                      ~Better(Opposite(incoming.side), p, level_price[l])})

OrdersAhead(s) == Len(Walk[s])

Distance ==
  LET perLevel == Cardinality(OrderSlots) + 2
      inSweep(levels, orders) == 2 + levels * perLevel + orders
  IN  CASE pc = "match" -> inSweep(Cardinality(LevelSlots) + 1, 0)
        [] pc = "level" -> inSweep(LevelsAhead(level), 1)
        [] pc \in {"visit", "share"} -> inSweep(LevelsAhead(next_level), 2 + OrdersAhead(resting))
        [] pc = "rest" -> 2
        [] pc = "returned" -> 1
        [] pc = "idle" -> 0

(* match() always comes back to its caller, however many of the orders in  *)
(* its way are the client's own and however many it releases: every step   *)
(* brings it nearer to the return.                                         *)
SweepAdvances == [][Step => Distance' < Distance]_vars

(* ARCHITECTURE.md, section 5: "IOC is the only policy that reaches        *)
(* `Discarded` with a nonzero remainder".  With both pools still supplied, *)
(* a GTC remainder would then always rest.                                 *)
OnlyIocIsDiscarded ==
  Returned /\ ~Duplicate /\ incoming.tif = "GTC" /\ remaining > 0
    /\ ~order_pool_dry /\ ~level_pool_dry => Found(incoming.order_id)

-----------------------------------------------------------------------------
(* The queues and the call under way, as whoever looks at the book between *)
(* two calls knows them: a call that is matching has not happened yet.     *)
SeenQueue == IF pc \in {"level", "visit", "share", "rest"} THEN before ELSE Queue

SeenOrder == IF pc \in {"idle", "returned"} THEN Null ELSE incoming

Engine == INSTANCE MatchingEngine WITH
  queue <- SeenQueue,
  order <- SeenOrder,
  OrderCapacity <- Cardinality(OrderSlots),
  LevelCapacity <- Cardinality(LevelSlots)

(* match() is one step, whatever levels and orders it visits on the way:   *)
(* which orders trade, for how much, what becomes of the rest and in which *)
(* order the queues are left is calculated by MatchingEngine from the book *)
(* before the call, the order and the mode, and from nothing else.         *)
RefinesMatchingEngine == Engine!EngineSpec
=============================================================================
