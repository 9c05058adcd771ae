--------------------------- MODULE MatcherProofs ----------------------------
(***************************************************************************)
(* Proofs about Matcher, for any finite slab of orders, any ids, prices    *)
(* and clients, and any bound on quantities.                               *)
(*                                                                         *)
(* The argument: every step of match() is a step of the book, or leaves it *)
(* alone (MatcherUsesBook), so BookInv holds throughout; the sweep's       *)
(* pointers name live orders and levels (MatcherInv, inductive). Levels    *)
(* are swept best first, and each is left only when it offers nothing or   *)
(* nothing is left to fill (SweepInv, with the account of the pro-rata     *)
(* shares: what the floor shares still to be served and the residual add   *)
(* up to is what the level has still to hand out). From these, what        *)
(* match() promises when it returns (Promises), that every step of it      *)
(* brings it nearer to its return (SweepAdvances), and what the fills it   *)
(* reports say (LedgerInv, PriorityInv, ProRataInv).  Of these there is    *)
(* only one outcome (PourIs): the one MatchingEngine calculates, so that   *)
(* match() implements it, the sweep unseen (MatcherRefinesEngine).         *)
(***************************************************************************)
EXTENDS Matcher, OrderBookProofs, SequenceTheorems

-----------------------------------------------------------------------------
(* A finite, non-empty set of prices has a best one, on either side.       *)
LEMMA BestExists ==
  ASSUME NEW side \in Side, NEW S, IsFiniteSet(S), S \subseteq Int, S # {}
  PROVE  /\ BestOf(side, S) \in S
         /\ \A q \in S : q = BestOf(side, S) \/ Better(side, BestOf(side, S), q)
PROOF
  <1> DEFINE best(T, p) == \A q \in T : q = p \/ Better(side, p, q)
             G == {T \in SUBSET S : T = {} \/ \E p \in T : best(T, p)}
  <1>1. {} \in G
    OBVIOUS
  <1>2. ASSUME NEW T \in SUBSET S, NEW x \in S, T \in G, x \notin T
        PROVE  T \cup {x} \in G
    <2>1. CASE T = {}
      <3>1. x \in T \cup {x} /\ best(T \cup {x}, x)
        BY <2>1
      <3> QED BY <3>1
    <2>2. CASE T # {}
      <3>1. PICK p \in T : best(T, p)
        BY <1>2, <2>2
      <3>2. p \in Int /\ x \in Int /\ T \subseteq Int
        OBVIOUS
      <3>3. CASE Better(side, x, p)
        <4>1. \A q \in T : Better(side, x, q)
          BY <3>1, <3>2, <3>3 DEF Better
        <4>2. best(T \cup {x}, x)
          BY <4>1
        <4> QED BY <4>2
      <3>4. CASE ~Better(side, x, p)
        <4>1. Better(side, p, x)
          BY <1>2, <3>2, <3>4 DEF Better
        <4>2. best(T \cup {x}, p)
          BY <3>1, <4>1
        <4> QED BY <4>2
      <3> QED BY <3>3, <3>4
    <2> QED BY <2>1, <2>2
  <1>3. S \in G
    <2> HIDE DEF G
    <2> QED BY <1>1, <1>2, InductFinite
  <1>4. \E p \in S : \A q \in S : q = p \/ Better(side, p, q)
    BY <1>3
  <1> QED BY <1>4, Zenon DEF BestOf

(* The mapped prices are those of the resting orders, and finitely many.   *)
LEMMA MappedPrices ==
  ASSUME BookInv, NEW side \in Side
  PROVE  /\ \A p : p \in Mapped(side) <=>
               \E s \in Resting : data[s].side = side /\ data[s].price = p
         /\ Mapped(side) \subseteq Int
         /\ IsFiniteSet(Mapped(side))
PROOF
  <1>1. \A s \in Resting : data[s].price \in Prices
    BY OrdersView DEF OrdersSeen, OrderData
  <1>2. \A p : p \in Mapped(side) <=>
          \E s \in Resting : data[s].side = side /\ data[s].price = p
    BY <1>1, LevelsView DEF LevelsSeen, Mapped
  <1>3. Mapped(side) \subseteq Int
    BY BookAssumption DEF Mapped
  <1> DEFINE S == {s \in Resting : data[s].side = side}
             f == [s \in S |-> data[s].price]
  <1>4. IsFiniteSet(S)
    <2>1. S \subseteq OrderSlots
      BY DEF Resting
    <2> QED BY <2>1, BookAssumption, FS_Subset
  <1>5. f \in Surjection(S, Mapped(side))
    BY <1>2 DEF Surjection
  <1>6. IsFiniteSet(Mapped(side))
    <2> HIDE DEF S, f
    <2> QED BY <1>4, <1>5, FS_Surjection
  <1> QED BY <1>2, <1>3, <1>6

(* l is a level of this side.                                              *)
OfSide(l, side) == l \in InUse /\ \A s \in OrdersAt(l) : data[s].side = side

(* What the readers of the book return: no order of the side is better     *)
(* than those of the best level;                                           *)
LEMMA BestLevelIs ==
  ASSUME BookInv, NEW side \in Side
  PROVE  \/ /\ BestLevel(side) = Null
            /\ \A s \in Resting : data[s].side # side
         \/ /\ OfSide(BestLevel(side), side)
            /\ \A s \in Resting : data[s].side = side =>
                 \/ data[s].price = level_price[BestLevel(side)]
                 \/ Better(side, level_price[BestLevel(side)], data[s].price)
PROOF
  <1>1. CASE Mapped(side) = {}
    BY <1>1, MappedPrices DEF BestLevel
  <1>2. CASE Mapped(side) # {}
    <2>1. PICK p : /\ p = BestOf(side, Mapped(side))
                   /\ p \in Mapped(side)
                   /\ \A q \in Mapped(side) : q = p \/ Better(side, p, q)
      BY <1>2, MappedPrices, BestExists
    <2>2. BestLevel(side) = price_map[side][p]
      BY <1>2, <2>1 DEF BestLevel
    <2>3. PICK s \in Resting : data[s].side = side /\ data[s].price = p
      BY <2>1, MappedPrices
    <2>4. /\ LevelOf(s) = BestLevel(side) /\ LevelOf(s) \in InUse
          /\ level_price[BestLevel(side)] = p
      BY <2>2, <2>3, OrdersView DEF OrdersSeen
    <2>5. OfSide(BestLevel(side), side)
      BY <2>3, <2>4, LevelsView DEF LevelsSeen, OfSide, OrdersAt
    <2> QED BY <2>1, <2>4, <2>5, MappedPrices
  <1> QED BY <1>1, <1>2

(* and none lies between a level and the next.                             *)
LEMMA NextLevelIs ==
  ASSUME BookInv, NEW side \in Side, NEW l, OfSide(l, side),
         NEW n, n = NextLevel(side, level_price[l])
  PROVE  \/ /\ n = Null
            /\ \A s \in Resting : data[s].side = side =>
                 ~Better(side, level_price[l], data[s].price)
         \/ /\ OfSide(n, side) /\ n # l
            /\ Better(side, level_price[l], level_price[n])
            /\ \A s \in Resting :
                 data[s].side = side /\ Better(side, level_price[l], data[s].price) =>
                   \/ data[s].price = level_price[n]
                   \/ Better(side, level_price[n], data[s].price)
PROOF
  <1> DEFINE worse == {p \in Mapped(side) : Better(side, level_price[l], p)}
  <1>1. PICK t \in Resting : LevelOf(t) = l
    BY LevelsView DEF LevelsSeen, OfSide
  <1>2. data[t].side = side /\ data[t].price = level_price[l]
    BY <1>1, OrdersView DEF OrdersSeen, OfSide, OrdersAt
  <1>3. level_price[l] \in Mapped(side) /\ level_price[l] \in Int
    BY <1>1, <1>2, MappedPrices
  <1>4. n = IF worse = {} THEN Null ELSE price_map[side][BestOf(side, worse)]
    BY <1>3 DEF NextLevel
  <1>5. CASE worse = {}
    BY <1>4, <1>5, MappedPrices
  <1>6. CASE worse # {}
    <2>1. IsFiniteSet(worse) /\ worse \subseteq Int
      BY MappedPrices, FS_Subset
    <2>2. PICK p : /\ p = BestOf(side, worse)
                   /\ p \in worse
                   /\ \A q \in worse : q = p \/ Better(side, p, q)
      <3> HIDE DEF worse
      <3> QED BY <1>6, <2>1, BestExists
    <2>3. p \in Mapped(side) /\ Better(side, level_price[l], p) /\ p \in Int
      BY <2>1, <2>2
    <2>4. PICK s \in Resting : data[s].side = side /\ data[s].price = p
      BY <2>3, MappedPrices
    <2>5. /\ LevelOf(s) = n /\ LevelOf(s) \in InUse
          /\ level_price[n] = p
      BY <1>4, <1>6, <2>2, <2>4, OrdersView DEF OrdersSeen
    <2>6. OfSide(n, side)
      BY <2>4, <2>5, LevelsView DEF LevelsSeen, OfSide, OrdersAt
    <2>7. p # level_price[l]
      BY <1>3, <2>3 DEF Better
    <2>8. ASSUME NEW u \in Resting, data[u].side = side,
                 Better(side, level_price[l], data[u].price)
          PROVE  data[u].price = p \/ Better(side, p, data[u].price)
      <3>1. data[u].price \in worse
        BY <2>8, MappedPrices
      <3> QED BY <2>2, <3>1
    <2> QED BY <2>5, <2>6, <2>7, <2>8, <2>3
  <1> QED BY <1>5, <1>6

-----------------------------------------------------------------------------
(* The book does not change, and nothing that is read from it.             *)
LEMMA SameBook ==
  ASSUME BookInv, UNCHANGED bookVars
  PROVE  /\ BookInv'
         /\ Resting' = Resting /\ InUse' = InUse
         /\ \A s : LevelOf(s)' = LevelOf(s)
         /\ \A l : OrdersAt(l)' = OrdersAt(l)
         /\ UNCHANGED <<data, qty, next_, head_, level_price, price_map, order_index>>
         /\ \A l, side : OfSide(l, side)' = OfSide(l, side)
         /\ \A s \in Resting : Place(s)' = Place(s)
PROOF
  <1>1. BookInv'
    BY StutterKeeps
  <1>2. /\ Resting' = Resting /\ InUse' = InUse
        /\ \A s : LevelOf(s)' = LevelOf(s)
        /\ \A l : OrdersAt(l)' = OrdersAt(l)
        /\ UNCHANGED <<data, qty, prev_, next_, level_price, order_count, head_, tail_,
                       price_map, order_index>>
    BY DEF Resting, InUse, LevelOf, OrdersAt, bookVars, orderVars, levelVars,
           mapVars, poolVars
  <1>3. \A l, side : OfSide(l, side)' = OfSide(l, side)
    BY <1>2 DEF OfSide
  <1>4. PICK pos \in [OrderSlots -> Nat] : Numbers(pos)
    BY NumberingNumbers
  <1>5. Numbers(pos)'
    BY <1>2, <1>4 DEF Numbers
  <1>6. \A s \in Resting : Place(s) = pos[s] /\ Place(s)' = pos[s]
    BY <1>1, <1>2, <1>4, <1>5, PlacesDetermined, ViewAfter DEF PlacesAgree
  <1> QED BY <1>1, <1>2, <1>3, <1>6

(* When an order leaves or shrinks, the levels that still hold an order    *)
(* are what they were.                                                     *)
LEMMA OtherLevels ==
  ASSUME BookInv, BookInv', NEW s \in Resting,
         Leaves(s) \/ (\E n : Shrinks(s, n))
  PROVE  /\ Resting' \subseteq Resting /\ InUse' \subseteq InUse
         /\ \A t \in Resting : t # s => t \in Resting' /\ qty'[t] = qty[t]
         /\ \A t \in Resting' : data'[t] = data[t] /\ LevelOf(t)' = LevelOf(t)
         /\ \A l : OrdersAt(l)' \subseteq OrdersAt(l)
         /\ \A l : \A t \in OrdersAt(l) : t # s => t \in OrdersAt(l)'
         /\ \A l \in InUse : l # LevelOf(s) => l \in InUse'
         /\ \A l \in InUse' : level_price'[l] = level_price[l]
         /\ \A l, side : OfSide(l, side) /\ l \in InUse' => OfSide(l, side)'
PROOF
  <1>1. /\ Resting' \subseteq Resting
        /\ \A t \in Resting : t # s => t \in Resting' /\ qty'[t] = qty[t]
        /\ \A t \in Resting' : data'[t] = data[t] /\ LevelOf(t)' = LevelOf(t)
    <2>1. CASE Leaves(s)
      BY <2>1 DEF Leaves
    <2>2. ASSUME NEW n, Shrinks(s, n) PROVE <1>1!:
      BY <2>2, OrdersView DEF OrdersSeen, Shrinks, BookInv, BookTypeOK
    <2> QED BY <2>1, <2>2
  <1>2. /\ \A l : OrdersAt(l)' \subseteq OrdersAt(l)
        /\ \A l : \A t \in OrdersAt(l) : t # s => t \in OrdersAt(l)'
    BY <1>1 DEF OrdersAt
  <1>3. /\ \A l : l \in InUse <=> \E t \in Resting : LevelOf(t) = l
        /\ \A l : l \in InUse' <=> \E t \in Resting' : LevelOf(t)' = l
    BY LevelsView, ViewAfter DEF LevelsSeen
  <1>4. InUse' \subseteq InUse
    BY <1>1, <1>3
  <1>5. \A l \in InUse : l # LevelOf(s) => l \in InUse'
    BY <1>1, <1>3
  <1>6. \A l \in InUse' : level_price'[l] = level_price[l]
    <2> TAKE l \in InUse'
    <2>1. PICK t \in Resting' : LevelOf(t)' = l
      BY <1>3
    <2>2. t \in Resting /\ LevelOf(t) = l /\ data'[t] = data[t]
      BY <2>1, <1>1
    <2> QED BY <2>1, <2>2, OrdersView, ViewAfter DEF OrdersSeen
  <1>7. \A l, side : OfSide(l, side) /\ l \in InUse' => OfSide(l, side)'
    BY <1>1, <1>2 DEF OfSide, OrdersAt
  <1> QED BY <1>1, <1>2, <1>4, <1>5, <1>6, <1>7

(* The folds of the model are totals.                                      *)
LEMMA SumQtyIs ==
  ASSUME NEW S, IsFiniteSet(S) PROVE SumQty(S) = Total(qty, S)
PROOF
  BY SumIsTotal DEF SumQty

Floors(S, fill_qty, eligible_total) ==
  [s \in S |-> FloorShare(s, fill_qty, eligible_total)]

(* The sum of the floor shares that pro_rata_at_level() takes, as a Total. *)
LEMMA FloorSumIs ==
  ASSUME NEW S, IsFiniteSet(S), NEW f, NEW t
  PROVE  MapThenSumSet(LAMBDA s : FloorShare(s, f, t), S) = Total(Floors(S, f, t), S)
PROOF
  <1> DEFINE sums(g) ==
        g = [U \in SUBSET S |->
               IF U = {} THEN 0
               ELSE FloorShare(Chosen(U), f, t) + g[U \ {Chosen(U)}]]
  <1>1. MapThenSumSet(LAMBDA s : FloorShare(s, f, t), S) = (CHOOSE g : sums(g))[S]
    BY Zenon DEF MapThenSumSet, MapThenFoldSet, Chosen
  <1>2. \A U \in SUBSET S : U # {} => FloorShare(Chosen(U), f, t) = Floors(S, f, t)[Chosen(U)]
    BY DEF Chosen, Floors
  <1>3. \A g : sums(g) <=> Accumulates(g, Floors(S, f, t), S)
    BY <1>2 DEF Accumulates
  <1>4. PICK g : Accumulates(g, Floors(S, f, t), S)
    BY AccumulationExists
  <1>5. sums(CHOOSE h : sums(h))
    <2>1. \E h : sums(h)
      BY <1>3, <1>4
    <2> HIDE DEF sums
    <2> QED BY <2>1, Zenon
  <1>6. Accumulates(CHOOSE h : sums(h), Floors(S, f, t), S)
    BY <1>3, <1>5
  <1>7. S \in SUBSET S
    OBVIOUS
  <1> HIDE DEF sums
  <1> QED BY <1>1, <1>6, <1>7, TotalIs

(* pro_rata_at_level() finds the first of the largest orders.              *)
LEMMA LargestIs ==
  ASSUME BookInv, NEW l \in InUse, Eligible(l) # {}
  PROVE  /\ Largest(l) \in Eligible(l)
         /\ \A s \in Eligible(l) :
              \/ qty[s] < qty[Largest(l)]
              \/ qty[s] = qty[Largest(l)] /\ Place(Largest(l)) <= Place(s)
PROOF
  <1> DEFINE chain == Chain(l)
             most(i) == /\ chain[i] \in Eligible(l)
                        /\ \A s \in Eligible(l) : qty[s] <= qty[chain[i]]
             T == {i \in 1 .. Len(chain) : most(i)}
  <1>1. /\ Eligible(l) \subseteq OrdersAt(l)
        /\ IsFiniteSet(Eligible(l))
        /\ \A s \in Eligible(l) : qty[s] \in Nat /\ Place(s) \in Nat
    <2>1. Eligible(l) \subseteq OrdersAt(l)
      BY DEF Eligible
    <2>2. IsFiniteSet(Eligible(l))
      BY <2>1, LevelOrders, FS_Subset DEF BookInv
    <2> QED BY <2>1, <2>2, OrdersView, PlacesView DEF OrdersSeen, PlacesSeen, OrdersAt
  <1>2. PICK x \in Eligible(l) : \A y \in Eligible(l) : qty[y] <= qty[x]
    BY <1>1, GreatestExists
  <1>3. \A s \in OrdersAt(l) : Place(s) \in 1 .. Len(chain) /\ chain[Place(s)] = s
    BY ChainsView DEF ChainsSeen
  <1>4. Place(x) \in T
    BY <1>1, <1>2, <1>3
  <1>5. Len(chain) \in Nat /\ T \subseteq Nat
    BY ChainsView DEF ChainsSeen
  <1>6. PICK k \in T : \A j \in T : k <= j
    <2> HIDE DEF T
    <2> QED BY <1>4, <1>5, LeastOf
  <1>7. \E i \in 1 .. Len(chain) : most(i) /\ \A j \in 1 .. i - 1 : ~most(j)
    <2>1. k \in 1 .. Len(chain) /\ most(k)
      BY <1>6
    <2>2. \A j \in 1 .. k - 1 : j \in 1 .. Len(chain) /\ ~(k <= j)
      BY <1>5, <2>1
    <2>3. \A j \in 1 .. k - 1 : ~most(j)
      BY <1>6, <2>2
    <2> QED BY <2>1, <2>3
  <1>8. PICK i \in 1 .. Len(chain) : /\ most(i) /\ \A j \in 1 .. i - 1 : ~most(j)
                                     /\ Largest(l) = chain[i]
    <2> HIDE DEF most
    <2>1. PICK i : i = CHOOSE j \in 1 .. Len(chain) :
                         most(j) /\ \A n \in 1 .. j - 1 : ~most(n)
      OBVIOUS
    <2>2. i \in 1 .. Len(chain) /\ most(i) /\ \A j \in 1 .. i - 1 : ~most(j)
      BY <1>7, <2>1, Zenon
    <2>3. Largest(l) = chain[i]
      BY <2>1 DEF Largest, most
    <2> QED BY <2>2, <2>3
  <1>9. Largest(l) \in Eligible(l) /\ Place(Largest(l)) = i
    BY <1>8, ChainsView DEF ChainsSeen
  <1>10. ASSUME NEW s \in Eligible(l)
         PROVE  \/ qty[s] < qty[Largest(l)]
                \/ qty[s] = qty[Largest(l)] /\ i <= Place(s)
    <2>1. qty[s] <= qty[Largest(l)] /\ qty[s] \in Nat /\ qty[Largest(l)] \in Nat
      BY <1>1, <1>8, <1>9
    <2>2. ASSUME qty[s] = qty[Largest(l)] PROVE most(Place(s))
      BY <2>2, <1>1, <1>3, <1>8
    <2>3. Place(s) \in 1 .. Len(chain) /\ i \in 1 .. Len(chain)
      BY <1>1, <1>3
    <2>4. qty[s] = qty[Largest(l)] => i <= Place(s)
      <3> HIDE DEF most
      <3> QED BY <2>2, <2>3, <1>5, <1>8
    <2> QED BY <2>1, <2>4
  <1> QED BY <1>9, <1>10

(* What the pass over a level's eligible orders computes.                  *)
SharesComputed(l, sh) ==
  /\ sh.eligible_total = Total(qty, Eligible(l))
  /\ sh.eligible_total \in Nat \ {0}
  /\ sh.fill_qty = Smaller(remaining, sh.eligible_total)
  /\ sh.largest = Largest(l)
  /\ LET floors == Total(Floors(Eligible(l), sh.fill_qty, sh.eligible_total), Eligible(l))
         floor_share == FloorShare(Largest(l), sh.fill_qty, sh.eligible_total)
         extra == Smaller(sh.fill_qty - floors, qty[Largest(l)] - floor_share)
     IN  /\ floors \in Nat /\ floors <= sh.fill_qty
         /\ floor_share \in Nat /\ floor_share <= qty[Largest(l)]
         /\ sh.residual = sh.fill_qty - floors - extra
         /\ sh.largest_share = floor_share + extra

(* What the first pass of pro_rata_at_level() computes: the total, the     *)
(* quantity to fill, the largest order and the residual.                   *)
LEMMA SharesIs ==
  ASSUME BookInv, NEW l \in InUse, Eligible(l) # {}, remaining \in Nat \ {0}
  PROVE  SharesComputed(l, Shares(l))
PROOF
  <1> DEFINE E == Eligible(l)
  <1>1. /\ E \subseteq OrdersAt(l)
        /\ IsFiniteSet(E)
        /\ \A s \in E : qty[s] \in Nat \ {0}
    <2>1. E \subseteq OrdersAt(l)
      BY DEF Eligible
    <2>2. IsFiniteSet(E)
      BY <2>1, LevelOrders, FS_Subset DEF BookInv
    <2> QED BY <2>1, <2>2, OrdersView DEF OrdersSeen, OrdersAt
  <1>2. PICK t : t = Total(qty, E)
    OBVIOUS
  <1>3. t \in Nat \ {0}
    <2> DEFINE G == {U \in SUBSET E : /\ Total(qty, U) \in Nat
                                      /\ U # {} => Total(qty, U) > 0}
    <2>1. {} \in G
      BY TotalEmpty
    <2>2. ASSUME NEW U \in SUBSET E, NEW x \in E, U \in G, x \notin U
          PROVE  U \cup {x} \in G
      <3>1. Total(qty, U \cup {x}) = qty[x] + Total(qty, U)
        <4>1. x \in E \ U /\ \A y \in E : qty[y] \in Int
          BY <2>2, <1>1
        <4> HIDE DEF G
        <4> QED BY <4>1, <1>1, TotalAdd
      <3>2. qty[x] \in Nat \ {0} /\ Total(qty, U) \in Nat
        BY <1>1, <2>2
      <3> QED BY <3>1, <3>2
    <2>3. E \in G
      <3> HIDE DEF G, E
      <3> QED BY <2>1, <2>2, <1>1, InductFinite
    <2> QED BY <2>3, <1>2
  <1>4. PICK f : f = Smaller(remaining, t)
    OBVIOUS
  <1>5. f \in Nat /\ f <= t
    BY <1>3, <1>4 DEF Smaller
  <1>6. PICK floors : floors = Total(Floors(E, f, t), E)
    OBVIOUS
  <1>7. floors \in Nat /\ floors <= f
    <2>1. \A x \in E : Floors(E, f, t)[x] = (f * qty[x]) \div t
      BY DEF Floors, FloorShare
    <2> HIDE DEF E
    <2> QED BY <2>1, <1>1, <1>2, <1>3, <1>5, <1>6, FloorsFit
  <1>8. PICK x, q : x = Largest(l) /\ x \in E /\ q = qty[x]
    BY LargestIs
  <1>9. PICK floor_share : floor_share = FloorShare(x, f, t)
    OBVIOUS
  <1>10. floor_share \in Nat /\ floor_share <= q
    BY <1>1, <1>3, <1>5, <1>8, <1>9, FloorBounds DEF FloorShare
  <1>11. SumQty(E) = t
    BY <1>1, <1>2, SumQtyIs
  <1>12. MapThenSumSet(LAMBDA s : FloorShare(s, f, t), E) = floors
    BY <1>1, <1>6, FloorSumIs
  <1>13. PICK extra : extra = Smaller(f - floors, q - floor_share)
    OBVIOUS
  <1>14. Shares(l) = [fill_qty |-> f, eligible_total |-> t,
                      residual |-> f - floors - extra,
                      largest |-> x, largest_share |-> floor_share + extra]
    BY <1>4, <1>8, <1>9, <1>11, <1>12, <1>13 DEF Shares
  <1> QED
    BY <1>2, <1>3, <1>4, <1>6, <1>7, <1>8, <1>9, <1>10, <1>13, <1>14
    DEF SharesComputed

-----------------------------------------------------------------------------
Sweeping == {"level", "visit", "share", "rest", "returned"}

MatcherTypeOK ==
  /\ pc \in {"idle", "match"} \cup Sweeping
  /\ pc # "idle" => incoming \in Order
  /\ remaining \in Int
  /\ pc \in Sweeping => remaining <= incoming.qty
  /\ pc = "visit" => mode = "PRICE_TIME"
  /\ pc = "share" => mode = "PRO_RATA"

(* l is a level of the side the incoming order trades with.                *)
Reached(l) == OfSide(l, Opposite(incoming.side))

SharesBounded ==
  /\ share \in [fill_qty : Nat, eligible_total : Nat \ {0}, residual : Nat,
                largest : OrderSlots, largest_share : Nat]
  /\ share.fill_qty <= share.eligible_total
  /\ share.largest \in Eligible(level)
  /\ share.largest_share \in 0 .. qty[share.largest]

(* The sweep's pointers: no level it keeps for later is the one that its   *)
(* fills may release, and the order kept for the end holds its level.      *)
PointersSafe ==
  /\ pc = "level" => level = Null \/ Reached(level)
  /\ pc \in {"visit", "share"} =>
       /\ next_level = Null \/ (Reached(next_level) /\ next_level # level)
       /\ resting # Null => Reached(level) /\ resting \in OrdersAt(level)
  /\ pc = "share" => Reached(level) /\ SharesBounded

MatcherInv == BookInv /\ MatcherTypeOK /\ PointersSafe

(* A fill that the sweep makes is a step of the book.                      *)
LEMMA FillIs ==
  ASSUME BookInv, NEW s \in Resting, LevelOf(s) = level,
         NEW n \in Nat \ {0}, n <= qty[s], Fill(s, n)
  PROVE  /\ BookNext /\ BookInv'
         /\ \/ n = qty[s] /\ Leaves(s)
            \/ n < qty[s] /\ Shrinks(s, qty[s] - n)
PROOF
  <1>1. n \in Quantity
    <2>1. qty[s] \in Quantity
      BY OrdersView DEF OrdersSeen
    <2> QED BY <2>1, BookAssumption DEF Quantity
  <1>2. ApplyFill(s, LevelOf(s), n)
    BY DEF Fill
  <1>3. BookNext
    BY <1>1, <1>2 DEF BookNext
  <1> QED BY <1>1, <1>2, <1>3, FillLeavesOrShrinks

(* A step that leaves the book alone and goes on to another level.         *)
LEMMA SubmitStep ==
  ASSUME MatcherInv, NEW o \in Order, Submit(o)
  PROVE  UNCHANGED bookVars /\ MatcherInv'
PROOF
  <1> USE DEF Submit
  <1>1. BookInv'
    BY SameBook DEF MatcherInv
  <1> QED BY <1>1 DEF MatcherInv, MatcherTypeOK, PointersSafe, Sweeping

(* cancel() is a step of the book and keeps the invariant.                 *)
LEMMA CancelStep ==
  ASSUME MatcherInv, NEW id \in OrderIds, Cancel(id)
  PROVE  BookNext /\ MatcherInv'
PROOF
  <1> USE DEF Cancel
  <1>1. BookInv' /\ BookNext
    BY CancelOrderLeaves DEF MatcherInv, BookNext
  <1> QED BY <1>1 DEF MatcherInv, MatcherTypeOK, PointersSafe, Sweeping, localVars

(* replace() is a step of the book, or of a refused call, and keeps the    *)
(* invariant.                                                              *)
LEMMA ReplaceStep ==
  ASSUME MatcherInv, NEW id \in OrderIds, NEW p \in Prices, NEW q \in 0 .. MaxQty,
         Replace(id, p, q)
  PROVE  BookNext /\ MatcherInv'
PROOF
  <1>1. pc = "idle" /\ Found(id) /\ BookInv
    BY DEF Replace, MatcherInv
  <1>2. CASE q = 0 /\ CancelOrder(id) /\ UNCHANGED <<pc, localVars>>
    <2>1. Cancel(id)
      BY <1>1, <1>2 DEF Cancel
    <2> QED BY <2>1, CancelStep
  <1>3. CASE /\ q # 0 /\ q <= qty[FindOrder(id)] /\ ReplaceOrderInPlace(id, q)
             /\ UNCHANGED <<pc, localVars>>
    <2>1. q \in Quantity
      BY <1>3, BookAssumption DEF Quantity
    <2>2. BookInv' /\ BookNext
      BY <1>1, <1>3, <2>1, ReplaceShrinks DEF BookNext
    <2> QED BY <1>1, <1>3, <2>2
            DEF MatcherInv, MatcherTypeOK, PointersSafe, Sweeping, localVars
  <1>4. CASE /\ CancelOrder(id)
             /\ pc' = "match"
             /\ incoming' = [order_id |-> id, price |-> p, qty |-> q,
                             side |-> data[FindOrder(id)].side,
                             tif |-> data[FindOrder(id)].tif,
                             client_id |-> data[FindOrder(id)].client_id]
             /\ UNCHANGED <<mode, remaining, level, next_level, resting, share,
                            fills, before>>
    <2>1. BookInv' /\ BookNext /\ FindOrder(id) \in Resting
      BY <1>1, <1>4, CancelOrderLeaves DEF BookNext
    <2>2. data[FindOrder(id)] \in OrderData
      BY <1>1, <2>1, OrdersView DEF OrdersSeen
    <2>3. incoming' \in Order
      BY <1>4, <2>2 DEF Order, OrderData
    <2> QED BY <1>1, <1>4, <2>1, <2>3
            DEF MatcherInv, MatcherTypeOK, PointersSafe, Sweeping
  <1> QED BY <1>2, <1>3, <1>4 DEF Replace

(* Entering match(), or being refused by it, leaves the book alone and     *)
(* keeps the invariant.                                                    *)
LEMMA BeginMatchStep ==
  ASSUME MatcherInv, BeginMatch PROVE UNCHANGED bookVars /\ MatcherInv'
PROOF
  <1> USE DEF BeginMatch
  <1>1. BookInv' /\ \A l, side : OfSide(l, side)' = OfSide(l, side)
    BY SameBook DEF MatcherInv
  <1>2. incoming \in Order /\ incoming' = incoming
    BY DEF MatcherInv, MatcherTypeOK
  <1>3. Opposite(incoming.side) \in Side
    BY DEF Opposite, Side
  <1>4. MatcherTypeOK'
    BY <1>2 DEF MatcherTypeOK, Sweeping, Order
  <1>5. pc' = "level" => level' = Null \/ Reached(level)'
    BY <1>1, <1>2, <1>3, BestLevelIs DEF Reached, MatcherInv
  <1>6. pc' \notin {"visit", "share"}
    OBVIOUS
  <1> QED BY <1>1, <1>4, <1>5, <1>6 DEF MatcherInv, PointersSafe

(* The level after this one is another level of the same side, or none.    *)
NextLevelSafe == next_level = Null \/ (Reached(next_level) /\ next_level # level)

(* What a fill at the current level leaves of the sweep's pointers: the    *)
(* other orders, their level with them, and the level kept for later.      *)
LEMMA FillKeepsPointers ==
  ASSUME MatcherInv, Reached(level), NEW s \in OrdersAt(level),
         NEW n \in Nat \ {0}, n <= qty[s], Fill(s, n), pc # "idle",
         UNCHANGED <<incoming, level, next_level>>
  PROVE  /\ BookNext /\ BookInv'
         /\ NextLevelSafe => NextLevelSafe'
         /\ \A t \in OrdersAt(level) : t # s =>
              /\ Reached(level)' /\ t \in OrdersAt(level)'
              /\ qty'[t] = qty[t] /\ data'[t] = data[t]
PROOF
  <1>1. BookInv /\ s \in Resting /\ LevelOf(s) = level /\ level \in InUse
    BY DEF MatcherInv, OrdersAt, Reached, OfSide
  <1>2. BookNext /\ BookInv' /\ (Leaves(s) \/ \E k : Shrinks(s, k))
    BY <1>1, FillIs
  <1>3. /\ \A t \in Resting : t # s => t \in Resting' /\ qty'[t] = qty[t]
        /\ \A t \in Resting' : data'[t] = data[t] /\ LevelOf(t)' = LevelOf(t)
        /\ \A l : \A t \in OrdersAt(l) : t # s => t \in OrdersAt(l)'
        /\ \A l \in InUse : l # level => l \in InUse'
        /\ \A l, side : OfSide(l, side) /\ l \in InUse' => OfSide(l, side)'
    BY <1>1, <1>2, OtherLevels
  <1>4. NextLevelSafe => NextLevelSafe'
    BY <1>3 DEF NextLevelSafe, Reached, OfSide
  <1>5. ASSUME NEW t \in OrdersAt(level), t # s
        PROVE  /\ Reached(level)' /\ t \in OrdersAt(level)'
               /\ qty'[t] = qty[t] /\ data'[t] = data[t]
    <2>1. t \in Resting' /\ t \in OrdersAt(level)' /\ t \in Resting
      BY <1>3, <1>5 DEF OrdersAt
    <2>2. level \in InUse'
      BY <1>2, <2>1, ViewAfter DEF LevelsSeen, OrdersAt
    <2> QED BY <1>3, <1>5, <2>1, <2>2 DEF Reached
  <1> QED BY <1>2, <1>4, <1>5

(* The order behind the current one is another order of its level.         *)
LEMMA NextResting ==
  ASSUME BookInv, NEW l, NEW s \in OrdersAt(l)
  PROVE  next_[s] = Null \/ (next_[s] \in OrdersAt(l) /\ next_[s] # s)
PROOF
  BY PlacesView DEF PlacesSeen, OrdersAt

(* Taking up a level in price-time order: its successor is read before any *)
(* of its orders can be released.                                          *)
LEMMA EnterLevelStep ==
  ASSUME MatcherInv, EnterLevel PROVE UNCHANGED bookVars /\ MatcherInv'
PROOF
  <1> USE DEF EnterLevel
  <1>1. /\ BookInv' /\ \A l, side : OfSide(l, side)' = OfSide(l, side)
        /\ \A l : OrdersAt(l)' = OrdersAt(l)
    BY SameBook DEF MatcherInv
  <1>2. Reached(level) /\ Opposite(incoming.side) \in Side
    BY DEF MatcherInv, PointersSafe, SweepGoesOn, Opposite, Side
  <1>3. NextLevelSafe'
    BY <1>1, <1>2, NextLevelIs DEF MatcherInv, NextLevelSafe, Following, Reached
  <1>4. resting' \in OrdersAt(level)
    BY <1>2, PlacesView DEF MatcherInv, PlacesSeen, Reached, OfSide
  <1>5. Reached(level)' /\ resting' \in OrdersAt(level)'
    BY <1>1, <1>2, <1>4 DEF Reached
  <1> QED BY <1>1, <1>3, <1>5
          DEF MatcherInv, MatcherTypeOK, PointersSafe, NextLevelSafe, Sweeping

(* The sweep ends, on a level out of reach or with nothing left to fill.   *)
LEMMA EndSweepStep ==
  ASSUME MatcherInv, EndSweep PROVE UNCHANGED bookVars /\ MatcherInv'
PROOF
  <1> USE DEF EndSweep
  <1>1. BookInv'
    BY SameBook DEF MatcherInv
  <1> QED BY <1>1 DEF MatcherInv, MatcherTypeOK, PointersSafe, Sweeping

(* An order of the same client is passed over.                             *)
LEMMA SkipSelfStep ==
  ASSUME MatcherInv, SkipSelf PROVE UNCHANGED bookVars /\ MatcherInv'
PROOF
  <1> USE DEF SkipSelf
  <1>1. /\ BookInv' /\ \A l, side : OfSide(l, side)' = OfSide(l, side)
        /\ \A l : OrdersAt(l)' = OrdersAt(l)
    BY SameBook DEF MatcherInv
  <1>2. resting' # Null => resting' \in OrdersAt(level)
    BY NextResting DEF MatcherInv, PointersSafe
  <1> QED BY <1>1, <1>2 DEF MatcherInv, MatcherTypeOK, PointersSafe, Sweeping, Reached

(* A price-time fill: the book fills, shrinks or removes the order, and    *)
(* the pointer read before it still leads to an order of the level.        *)
LEMMA FillRestingStep ==
  ASSUME MatcherInv, FillResting PROVE BookNext /\ MatcherInv'
PROOF
  <1> USE DEF FillResting
  <1> DEFINE n == Smaller(remaining, qty[resting])
  <1>1. Reached(level) /\ resting \in OrdersAt(level) /\ NextLevelSafe
    BY DEF MatcherInv, PointersSafe, NextLevelSafe
  <1>2. qty[resting] \in Nat \ {0}
    BY <1>1, OrdersView DEF MatcherInv, OrdersSeen, OrdersAt
  <1>3. remaining \in Nat \ {0} /\ incoming \in Order /\ remaining <= incoming.qty
    BY DEF MatcherInv, MatcherTypeOK, Sweeping
  <1>4. n \in Nat \ {0} /\ n <= qty[resting] /\ n <= remaining
    BY <1>2, <1>3 DEF Smaller
  <1>5. Fill(resting, n)
    OBVIOUS
  <1> HIDE DEF n
  <1>6. /\ BookNext /\ BookInv' /\ NextLevelSafe'
        /\ \A t \in OrdersAt(level) : t # resting =>
             Reached(level)' /\ t \in OrdersAt(level)'
    BY <1>1, <1>4, <1>5, FillKeepsPointers
  <1>7. resting' = Null \/ (Reached(level)' /\ resting' \in OrdersAt(level)')
    BY <1>1, <1>6, NextResting DEF MatcherInv
  <1>8. remaining' = remaining - n
    BY <1>5 DEF Fill
  <1>9. remaining' \in Int /\ remaining' <= incoming.qty
    BY <1>3, <1>4, <1>8 DEF Order
  <1>10. MatcherTypeOK'
    BY <1>3, <1>9 DEF MatcherInv, MatcherTypeOK, Sweeping
  <1> QED BY <1>6, <1>7, <1>10 DEF MatcherInv, PointersSafe, NextLevelSafe

(* The level's orders are done: the sweep goes on with the level kept      *)
(* beforehand.                                                             *)
LEMMA LeaveLevelStep ==
  ASSUME MatcherInv, LeaveLevel PROVE UNCHANGED bookVars /\ MatcherInv'
PROOF
  <1> USE DEF LeaveLevel
  <1>1. /\ BookInv' /\ \A l, side : OfSide(l, side)' = OfSide(l, side)
    BY SameBook DEF MatcherInv
  <1> QED BY <1>1 DEF MatcherInv, MatcherTypeOK, PointersSafe, Sweeping, Reached

(* Taking up a level in pro-rata mode, with its shares computed.           *)
LEMMA EnterLevelProRataStep ==
  ASSUME MatcherInv, EnterLevelProRata PROVE UNCHANGED bookVars /\ MatcherInv'
PROOF
  <1>1. PICK n : n = Following(level)
    OBVIOUS
  <1>2. /\ pc = "level" /\ mode = "PRO_RATA" /\ SweepGoesOn
        /\ UNCHANGED <<bookVars, incoming, mode, remaining, fills, before>>
        /\ \/ Eligible(level) = {} /\ level' = n /\ UNCHANGED <<pc, next_level, resting, share>>
           \/ /\ Eligible(level) # {}
              /\ next_level' = n
              /\ share' = Shares(level)
              /\ resting' = head_[level]
              /\ pc' = "share"
              /\ UNCHANGED level
    BY <1>1 DEF EnterLevelProRata
  <1>3. /\ BookInv' /\ \A l, side : OfSide(l, side)' = OfSide(l, side)
        /\ \A l : OrdersAt(l)' = OrdersAt(l)
        /\ data' = data /\ qty' = qty
    BY <1>2, SameBook DEF MatcherInv
  <1>4. /\ Reached(level) /\ Opposite(incoming.side) \in Side
        /\ level \in InUse /\ BookInv /\ remaining \in Nat \ {0}
    BY <1>2 DEF MatcherInv, MatcherTypeOK, PointersSafe, SweepGoesOn, Opposite, Side, Reached,
           OfSide
  <1>5. n = Null \/ (Reached(n)' /\ n # level)
    BY <1>1, <1>2, <1>3, <1>4, NextLevelIs DEF Following, Reached
  <1>6. MatcherTypeOK'
    BY <1>2 DEF MatcherInv, MatcherTypeOK, Sweeping
  <1>7. CASE Eligible(level) = {}
    BY <1>2, <1>3, <1>5, <1>6, <1>7 DEF MatcherInv, PointersSafe
  <1>8. CASE Eligible(level) # {}
    <2>1. resting' \in OrdersAt(level)
      BY <1>2, <1>4, <1>8, PlacesView DEF PlacesSeen
    <2>2. SharesComputed(level, share')
      BY <1>2, <1>4, <1>8, SharesIs
    <2>3. Largest(level) \in Eligible(level)
      BY <1>4, <1>8, LargestIs
    <2>4. qty[Largest(level)] \in Nat
      BY <1>4, <2>3, OrdersView DEF OrdersSeen, Eligible, OrdersAt
    <2>5. /\ share'.eligible_total \in Nat \ {0}
          /\ share'.fill_qty \in 0 .. share'.eligible_total
          /\ share'.residual \in Nat
          /\ share'.largest = Largest(level)
          /\ share'.largest_share \in 0 .. qty[share'.largest]
      BY <1>4, <2>2, <2>4 DEF SharesComputed, Smaller
    <2>6. level' = level /\ incoming' = incoming
      BY <1>2, <1>8
    <2>7. Eligible(level)' = Eligible(level)
      BY <1>3, <2>6 DEF Eligible, IsSelfTrade
    <2>8. SharesBounded'
      <3>1. share' \in [fill_qty : Nat, eligible_total : Nat \ {0}, residual : Nat,
                        largest : OrderSlots, largest_share : Nat]
        <4>1. Largest(level) \in OrderSlots
          BY <2>3 DEF Eligible, OrdersAt, Resting
        <4>2. share' = [fill_qty |-> share'.fill_qty,
                        eligible_total |-> share'.eligible_total,
                        residual |-> share'.residual,
                        largest |-> share'.largest,
                        largest_share |-> share'.largest_share]
          <5>1. share' = Shares(level)
            BY <1>2, <1>8
          <5> QED BY <5>1 DEF Shares
        <4> QED BY <2>4, <2>5, <4>1, <4>2
      <3> QED BY <1>3, <2>3, <2>5, <2>7, <3>1 DEF SharesBounded
    <2>9. Reached(level)' /\ resting' \in OrdersAt(level)'
      BY <1>3, <1>4, <2>1, <2>6 DEF Reached
    <2>10. pc' = "share" /\ next_level' = n
      BY <1>2, <1>8
    <2> QED BY <1>2, <1>3, <1>5, <1>6, <2>6, <2>8, <2>9, <2>10 DEF MatcherInv, PointersSafe
  <1> QED BY <1>2, <1>7, <1>8

(* The second pass passes over an order: the client's own, or the largest, *)
(* or one whose floor share is zero.                                       *)
LEMMA PassOverStep ==
  ASSUME MatcherInv, PassOver PROVE UNCHANGED bookVars /\ MatcherInv'
PROOF
  <1> USE DEF PassOver
  <1>1. /\ BookInv' /\ \A l, side : OfSide(l, side)' = OfSide(l, side)
        /\ \A l : OrdersAt(l)' = OrdersAt(l)
        /\ data' = data /\ qty' = qty
    BY SameBook DEF MatcherInv
  <1>2. resting' # Null => resting' \in OrdersAt(level)
    BY NextResting DEF MatcherInv, PointersSafe
  <1>3. SharesBounded'
    <2>1. Eligible(level)' = Eligible(level)
      BY <1>1 DEF Eligible, IsSelfTrade
    <2> QED BY <1>1, <2>1 DEF SharesBounded, MatcherInv, PointersSafe
  <1> QED BY <1>1, <1>2, <1>3 DEF MatcherInv, MatcherTypeOK, PointersSafe, Sweeping, Reached

(* The second pass fills an order's floor share.                           *)
LEMMA FillShareStep ==
  ASSUME MatcherInv, FillShare PROVE [BookNext]_bookVars /\ MatcherInv'
PROOF
  <1> DEFINE floor_share == FloorShare(resting, share.fill_qty, share.eligible_total)
             extra == Smaller(share.residual, qty[resting] - floor_share)
             n == floor_share + extra
  <1>1. /\ BookInv /\ Reached(level) /\ resting \in OrdersAt(level) /\ NextLevelSafe
        /\ SharesBounded /\ resting # share.largest /\ level \in InUse
        /\ pc = "share" /\ pc' = pc /\ mode' = mode
        /\ incoming' = incoming /\ level' = level /\ next_level' = next_level
        /\ resting' = next_[resting]
        /\ share' = [share EXCEPT !.residual = @ - extra]
    BY DEF FillShare, Deferred, MatcherInv, PointersSafe, NextLevelSafe, Reached, OfSide
  <1>2. qty[resting] \in Nat \ {0}
    BY <1>1, OrdersView DEF OrdersSeen, OrdersAt
  <1>3. floor_share \in Nat /\ floor_share <= qty[resting]
    BY <1>1, <1>2, FloorBounds DEF SharesBounded, FloorShare
  <1>4. share.residual \in Nat
    BY <1>1 DEF SharesBounded
  <1>5. n \in Nat /\ n <= qty[resting] /\ extra \in Nat /\ extra <= share.residual
    <2> HIDE DEF floor_share
    <2> QED BY <1>2, <1>3, <1>4 DEF Smaller
  <1>6. /\ share'.eligible_total = share.eligible_total
        /\ share'.fill_qty = share.fill_qty
        /\ share'.largest = share.largest /\ share'.largest_share = share.largest_share
        /\ share'.residual = share.residual - extra
        /\ share' \in [fill_qty : Nat, eligible_total : Nat \ {0}, residual : Nat,
                       largest : OrderSlots, largest_share : Nat]
    <2> HIDE DEF extra
    <2>1. share.residual - extra \in Nat
      BY <1>4, <1>5
    <2> QED BY <1>1, <2>1 DEF SharesBounded
  <1>7. remaining \in Int /\ incoming \in Order /\ remaining <= incoming.qty
    BY <1>1 DEF MatcherInv, MatcherTypeOK, Sweeping
  <1>8. share.largest \in Eligible(level) /\ share.largest \in OrdersAt(level)
    BY <1>1 DEF SharesBounded, Eligible
  <1>9. \/ n > 0 /\ Fill(resting, n)
        \/ n = 0 /\ UNCHANGED <<bookVars, remaining, fills>>
    BY DEF FillShare
  <1> HIDE DEF n
  <1>10. CASE n > 0 /\ Fill(resting, n)
    <2>1. /\ BookNext /\ BookInv' /\ NextLevelSafe'
          /\ \A t \in OrdersAt(level) : t # resting =>
               /\ Reached(level)' /\ t \in OrdersAt(level)'
               /\ qty'[t] = qty[t] /\ data'[t] = data[t]
      BY <1>1, <1>5, <1>10, FillKeepsPointers
    <2>2. resting' = Null \/ (Reached(level)' /\ resting' \in OrdersAt(level)')
      BY <1>1, <2>1, NextResting
    <2>3. share.largest \in Eligible(level)' /\ Reached(level)'
      BY <1>1, <1>8, <2>1 DEF Eligible, IsSelfTrade
    <2>4. SharesBounded'
      BY <1>1, <1>6, <1>8, <2>1, <2>3 DEF SharesBounded
    <2>5. remaining' = remaining - n
      BY <1>10 DEF Fill
    <2>6. remaining' \in Int /\ remaining' <= incoming.qty
      BY <1>5, <1>7, <2>5 DEF Order
    <2>7. MatcherTypeOK'
      BY <1>1, <1>7, <2>6 DEF MatcherInv, MatcherTypeOK, Sweeping
    <2> QED BY <1>1, <2>1, <2>2, <2>3, <2>4, <2>7 DEF MatcherInv, PointersSafe, NextLevelSafe
  <1>11. CASE n = 0 /\ UNCHANGED <<bookVars, remaining, fills>>
    <2>1. /\ BookInv' /\ \A l, side : OfSide(l, side)' = OfSide(l, side)
          /\ \A l : OrdersAt(l)' = OrdersAt(l)
          /\ data' = data /\ qty' = qty
      BY <1>11, SameBook DEF MatcherInv
    <2>2. resting' # Null => resting' \in OrdersAt(level)
      BY <1>1, NextResting
    <2>3. Eligible(level)' = Eligible(level)
      BY <1>1, <2>1 DEF Eligible, IsSelfTrade
    <2>4. SharesBounded'
      BY <1>1, <1>6, <2>1, <2>3 DEF SharesBounded
    <2>5. MatcherTypeOK'
      BY <1>1, <1>7, <1>11 DEF MatcherInv, MatcherTypeOK, Sweeping
    <2> QED BY <1>1, <1>11, <2>1, <2>2, <2>4, <2>5
            DEF MatcherInv, PointersSafe, NextLevelSafe, Reached
  <1> QED BY <1>9, <1>10, <1>11

(* The residual goes to the largest order, which is still resting.         *)
LEMMA FillLargestStep ==
  ASSUME MatcherInv, FillLargest PROVE [BookNext]_bookVars /\ MatcherInv'
PROOF
  <1> USE DEF FillLargest
  <1> DEFINE s == share.largest
             n == share.largest_share
  <1>1. /\ BookInv /\ Reached(level) /\ NextLevelSafe /\ level \in InUse
        /\ s \in OrdersAt(level) /\ s \in Resting /\ LevelOf(s) = level
        /\ n \in Nat /\ n <= qty[s] /\ qty[s] \in Nat
    BY OrdersView DEF MatcherInv, PointersSafe, NextLevelSafe, Reached, OfSide,
      SharesBounded, Eligible, OrdersAt, OrdersSeen
  <1>2. remaining \in Int /\ incoming \in Order /\ remaining <= incoming.qty
    BY DEF MatcherInv, MatcherTypeOK, Sweeping
  <1>3. CASE n > 0 /\ Fill(s, n)
    <2>1. BookNext /\ BookInv' /\ (Leaves(s) \/ \E k : Shrinks(s, k))
      BY <1>1, <1>3, FillIs
    <2>2. \A l \in InUse : l # level => l \in InUse'
      BY <1>1, <2>1, OtherLevels
    <2>3. \A l, side : OfSide(l, side) /\ l \in InUse' => OfSide(l, side)'
      BY <1>1, <2>1, OtherLevels
    <2>4. next_level = Null \/ Reached(next_level)'
      BY <1>1, <2>2, <2>3 DEF NextLevelSafe, Reached, OfSide
    <2>5. remaining' = remaining - n
      BY <1>3 DEF Fill
    <2>6. remaining' \in Int /\ remaining' <= incoming.qty
      BY <1>1, <1>2, <2>5 DEF Order
    <2>7. MatcherTypeOK'
      BY <1>2, <2>6 DEF MatcherInv, MatcherTypeOK, Sweeping
    <2> QED BY <2>1, <2>4, <2>7 DEF MatcherInv, PointersSafe, Reached
  <1>4. CASE n = 0 /\ UNCHANGED <<bookVars, remaining, fills>>
    <2>1. BookInv' /\ \A l, side : OfSide(l, side)' = OfSide(l, side)
      BY <1>4, SameBook DEF MatcherInv
    <2>2. MatcherTypeOK'
      BY <1>2, <1>4 DEF MatcherInv, MatcherTypeOK, Sweeping
    <2> QED BY <1>1, <1>4, <2>1, <2>2 DEF MatcherInv, PointersSafe, NextLevelSafe, Reached
  <1> QED BY <1>3, <1>4

(* What is left of a limit order rests, or is dropped.                     *)
LEMMA FinishMatchStep ==
  ASSUME MatcherInv, FinishMatch PROVE [BookNext]_bookVars /\ MatcherInv'
PROOF
  <1> USE DEF FinishMatch
  <1>1. incoming \in Order /\ remaining \in Int /\ remaining <= incoming.qty
    BY DEF MatcherInv, MatcherTypeOK, Sweeping
  <1>2. BookInv' /\ [BookNext]_bookVars
    <2>1. CASE UNCHANGED bookVars
      BY <2>1, SameBook DEF MatcherInv
    <2>2. CASE incoming.tif = "GTC" /\ remaining > 0 /\ AddOrder(Remainder)
      <3>1. remaining \in Quantity
        BY <1>1, <2>2, BookAssumption DEF Order, Quantity
      <3>2. Remainder \in RestableOrder
        BY <1>1, <2>2, <3>1 DEF Order, Remainder, RestableOrder
      <3> QED BY <2>2, <3>2, AddOrderRests DEF MatcherInv, BookNext
    <2> QED BY <2>1, <2>2
  <1>3. MatcherTypeOK'
    BY <1>1 DEF MatcherInv, MatcherTypeOK, Sweeping, localVars
  <1> QED BY <1>2, <1>3 DEF MatcherInv, PointersSafe

(* match() returns; nothing in the book changes.                           *)
LEMMA ReturnStep ==
  ASSUME MatcherInv, Return PROVE UNCHANGED bookVars /\ MatcherInv'
PROOF
  <1> USE DEF Return
  <1>1. BookInv'
    BY SameBook DEF MatcherInv
  <1> QED BY <1>1 DEF MatcherInv, MatcherTypeOK, PointersSafe, Sweeping

(* The empty book, between two calls.                                      *)
LEMMA MatcherStart == Init => BookInit /\ MatcherInv
PROOF
  BY EmptyBook DEF Init, MatcherInv, MatcherTypeOK, PointersSafe, Sweeping

(* Every step of the matcher keeps its invariant, and changes the book only*)
(* as a caller of the book may.                                            *)
LEMMA MatcherStep ==
  ASSUME MatcherInv, [Next]_vars PROVE [BookNext]_bookVars /\ MatcherInv'
PROOF
  <1>1. CASE UNCHANGED vars
    <2>1. BookInv'
      BY <1>1, SameBook DEF MatcherInv, vars
    <2>2. UNCHANGED <<bookVars, pc, incoming, mode, remaining, level, next_level,
                      resting, share>>
      BY <1>1 DEF vars, localVars
    <2>3. /\ data' = data /\ qty' = qty
          /\ \A l, side : OfSide(l, side)' = OfSide(l, side)
          /\ \A l : OrdersAt(l)' = OrdersAt(l)
      BY <2>2, SameBook DEF MatcherInv
    <2>4. Eligible(level)' = Eligible(level)
      BY <2>2, <2>3 DEF Eligible, IsSelfTrade
    <2> QED BY <2>1, <2>2, <2>3, <2>4
            DEF MatcherInv, MatcherTypeOK, PointersSafe, SharesBounded, Reached
  <1>2. CASE Call
    BY <1>2, SubmitStep, CancelStep, ReplaceStep DEF Call
  <1>3. CASE Step
    BY <1>3, BeginMatchStep, EnterLevelStep, SkipSelfStep, FillRestingStep,
       LeaveLevelStep, EnterLevelProRataStep, PassOverStep, FillShareStep,
       FillLargestStep, EndSweepStep, FinishMatchStep, ReturnStep DEF Step
  <1> QED BY <1>1, <1>2, <1>3 DEF Next

(* The matcher's inductive invariant.                                      *)
THEOREM MatcherInductive == Spec => []MatcherInv
PROOF
  <1>1. Init => MatcherInv
    BY MatcherStart
  <1>2. MatcherInv /\ [Next]_vars => MatcherInv'
    BY MatcherStep
  <1> QED BY <1>1, <1>2, PTL DEF Spec

(* Whatever match(), cancel and replace do to the book, they do by calls   *)
(* that the book allows at that moment.                                    *)
THEOREM MatcherUsesBook == Spec => BookSpec
PROOF
  <1>1. Init => BookInit
    BY MatcherStart
  <1>2. MatcherInv /\ [Next]_vars => [BookNext]_bookVars
    BY MatcherStep
  <1> QED BY <1>1, <1>2, MatcherInductive, PTL DEF Spec, BookSpec

(* PointersLive: the pointers that match() keeps in its local variables    *)
(* while apply_fill() releases orders and levels (matcher.hpp, the sweep's *)
(* level, next level, resting and largest) always name an order or a level *)
(* that is in the book.                                                    *)
THEOREM PointersStayLive == Spec => []PointersLive
PROOF
  <1>1. MatcherInv => PointersLive
    BY DEF MatcherInv, PointersSafe, PointersLive, Reached, OfSide, SharesBounded,
           Eligible
  <1> QED BY <1>1, MatcherInductive, PTL

-----------------------------------------------------------------------------
(* The level that is swept is one the order reaches, and better than the   *)
(* one kept for later.                                                     *)
Entered ==
  /\ Crosses(level_price[level], incoming)
  /\ next_level # Null =>
       Better(Opposite(incoming.side), level_price[level], level_price[next_level])

LevelEntered ==
  pc = "share" \/ (pc = "visit" /\ resting # Null) => Entered

(* A trade at the swept level, with an order of another client.            *)
Trades(s, n) ==
  /\ s \in OrdersAt(level) /\ Reached(level)
  /\ Crosses(level_price[level], incoming)
  /\ ~IsSelfTrade(s, incoming)
  /\ n \in 1 .. qty[s]
  /\ Fill(s, n)

(* The sweep has come to s: in price-time mode it trades where it stands.  *)
Turn(s) == (pc = "visit" /\ s = resting /\ remaining > 0) \/ pc = "share"

(* A step that only moves the sweep's pointers.                            *)
Quiet == UNCHANGED <<bookVars, remaining, fills>>

Sweep == {"level", "visit", "share", "rest"}

SweepStep ==
  \/ EnterLevel \/ SkipSelf \/ FillResting \/ LeaveLevel
  \/ EnterLevelProRata \/ PassOver \/ FillShare \/ FillLargest
  \/ EndSweep

(* The sweep changes the book by trades only.                              *)
LEMMA SweepTrades ==
  ASSUME MatcherInv, LevelEntered, SweepStep
  PROVE  /\ pc \in Sweep /\ pc' \in Sweep /\ UNCHANGED <<incoming, mode, before>>
         /\ Quiet \/ \E s, n : Trades(s, n) /\ Turn(s)
PROOF
  <1>1. pc \in Sweep /\ pc' \in Sweep /\ UNCHANGED <<incoming, mode, before>>
    BY DEF SweepStep, Sweep, EnterLevel, SkipSelf, FillResting, LeaveLevel,
           EnterLevelProRata, PassOver, FillShare, FillLargest, EndSweep
  <1>2. CASE EnterLevel \/ SkipSelf \/ LeaveLevel \/ EnterLevelProRata \/ PassOver \/ EndSweep
    <2>1. UNCHANGED <<bookVars, remaining, fills>>
      BY <1>2 DEF EnterLevel, SkipSelf, LeaveLevel, EnterLevelProRata, PassOver, EndSweep
    <2> QED BY <1>1, <2>1 DEF Quiet
  <1>3. CASE FillResting
    <2> DEFINE n == Smaller(remaining, qty[resting])
    <2>1. resting \in OrdersAt(level) /\ Reached(level) /\ Entered
      BY <1>3 DEF FillResting, MatcherInv, PointersSafe, LevelEntered
    <2>2. qty[resting] \in Nat \ {0} /\ remaining \in Nat \ {0}
      BY <1>3, <2>1, OrdersView
      DEF FillResting, MatcherInv, MatcherTypeOK, OrdersSeen, OrdersAt
    <2>3. n \in 1 .. qty[resting]
      BY <2>2 DEF Smaller
    <2>4. Trades(resting, n)
      <3>1. Fill(resting, n) /\ ~IsSelfTrade(resting, incoming)
        BY <1>3 DEF FillResting
      <3> HIDE DEF n
      <3> QED BY <2>1, <2>3, <3>1 DEF Trades, Entered
    <2>5. Turn(resting)
      BY <1>3 DEF FillResting, Turn
    <2> QED BY <1>1, <2>4, <2>5
  <1>4. CASE FillShare
    <2> DEFINE floor_share == FloorShare(resting, share.fill_qty, share.eligible_total)
               extra == Smaller(share.residual, qty[resting] - floor_share)
               n == floor_share + extra
    <2>1. /\ resting \in OrdersAt(level) /\ Reached(level) /\ Entered /\ SharesBounded
          /\ BookInv
      BY <1>4 DEF FillShare, MatcherInv, PointersSafe, LevelEntered
    <2>2. qty[resting] \in Nat \ {0}
      BY <2>1, OrdersView DEF OrdersSeen, OrdersAt
    <2>3. floor_share \in Nat /\ floor_share <= qty[resting]
      <3>1. PICK f, t, q \in Nat : /\ f = share.fill_qty /\ t = share.eligible_total
                                   /\ q = qty[resting] /\ t # 0 /\ f <= t
        BY <2>1, <2>2 DEF SharesBounded
      <3>2. (f * q) \div t \in Nat /\ (f * q) \div t <= q
        BY <3>1, FloorBounds
      <3> QED BY <3>1, <3>2 DEF FloorShare
    <2>4. share.residual \in Nat
      BY <2>1 DEF SharesBounded
    <2>5. n \in 0 .. qty[resting]
      <3> HIDE DEF floor_share
      <3> QED BY <2>2, <2>3, <2>4 DEF Smaller
    <2>6. \/ n > 0 /\ Fill(resting, n)
          \/ n = 0 /\ UNCHANGED <<bookVars, remaining, fills>>
      BY <1>4 DEF FillShare
    <2>7. ~IsSelfTrade(resting, incoming)
      BY <1>4 DEF FillShare
    <2> HIDE DEF n
    <2>8. CASE n > 0 /\ Fill(resting, n)
      <3>1. n \in 1 .. qty[resting]
        BY <2>2, <2>5, <2>8
      <3>2. Trades(resting, n)
        BY <2>1, <2>7, <2>8, <3>1 DEF Trades, Entered
      <3>3. Turn(resting)
        BY <1>4 DEF FillShare, Turn
      <3> QED BY <1>1, <3>2, <3>3
    <2> QED BY <1>1, <2>6, <2>8 DEF Quiet
  <1>5. CASE FillLargest
    <2>1. /\ Reached(level) /\ Entered /\ SharesBounded /\ BookInv
      BY <1>5 DEF FillLargest, MatcherInv, PointersSafe, LevelEntered
    <2>2. /\ share.largest \in OrdersAt(level) /\ ~IsSelfTrade(share.largest, incoming)
          /\ share.largest_share \in 0 .. qty[share.largest]
      BY <2>1 DEF SharesBounded, Eligible
    <2>3. qty[share.largest] \in Nat \ {0}
      BY <2>1, <2>2, OrdersView DEF OrdersSeen, OrdersAt
    <2>4. CASE share.largest_share > 0 /\ Fill(share.largest, share.largest_share)
      <3>1. share.largest_share \in 1 .. qty[share.largest]
        BY <2>2, <2>3, <2>4
      <3>2. Trades(share.largest, share.largest_share)
        BY <2>1, <2>2, <2>4, <3>1 DEF Trades, Entered
      <3>3. Turn(share.largest)
        BY <1>5 DEF FillLargest, Turn
      <3> QED BY <1>1, <3>2, <3>3
    <2>5. CASE UNCHANGED <<bookVars, remaining, fills>>
      BY <1>1, <2>5 DEF Quiet
    <2> QED BY <1>5, <2>4, <2>5 DEF FillLargest
  <1> QED BY <1>1, <1>2, <1>3, <1>4, <1>5 DEF SweepStep

(* What a trade does to the book.                                          *)
LEMMA TradeIs ==
  ASSUME MatcherInv, NEW s, NEW n, Trades(s, n)
  PROVE  /\ BookInv /\ BookInv' /\ s \in Resting /\ LevelOf(s) = level /\ level \in InUse
         /\ n \in Nat \ {0} /\ n <= qty[s] /\ qty[s] \in Nat \ {0}
         /\ remaining' = remaining - n
         /\ fills' = Append(fills, [maker |-> data[s].order_id, qty |-> n])
         /\ \/ n = qty[s] /\ Leaves(s)
            \/ n < qty[s] /\ Shrinks(s, qty[s] - n)
PROOF
  <1>1. /\ BookInv /\ s \in Resting /\ LevelOf(s) = level /\ level \in InUse
        /\ Fill(s, n)
    BY DEF MatcherInv, Trades, OrdersAt, Reached, OfSide
  <1>2. qty[s] \in Nat \ {0}
    BY <1>1, OrdersView DEF OrdersSeen
  <1>3. n \in Nat \ {0} /\ n <= qty[s]
    BY <1>2 DEF Trades
  <1>4. /\ BookInv'
        /\ \/ n = qty[s] /\ Leaves(s)
           \/ n < qty[s] /\ Shrinks(s, qty[s] - n)
    BY <1>1, <1>3, FillIs
  <1> QED BY <1>1, <1>2, <1>3, <1>4 DEF Fill

(* Whatever is still in the book is what it was.                           *)
NothingMoves ==
  /\ Resting' \subseteq Resting /\ InUse' \subseteq InUse
  /\ \A t \in Resting' : data'[t] = data[t] /\ LevelOf(t)' = LevelOf(t)
  /\ \A l \in InUse' : level_price'[l] = level_price[l]

(* No step of the sweep moves a resting order to another level or changes  *)
(* a price.                                                                *)
LEMMA SweepMovesNothing ==
  ASSUME MatcherInv, LevelEntered, SweepStep PROVE NothingMoves
PROOF
  <1>1. BookInv
    BY DEF MatcherInv
  <1>2. CASE Quiet
    BY <1>1, <1>2, SameBook DEF Quiet, NothingMoves
  <1>3. ASSUME NEW s, NEW n, Trades(s, n) PROVE NothingMoves
    <2>1. /\ BookInv' /\ s \in Resting
          /\ Leaves(s) \/ \E k : Shrinks(s, k)
      BY <1>3, TradeIs
    <2> QED BY <1>1, <2>1, OtherLevels DEF NothingMoves
  <1> QED BY <1>2, <1>3, SweepTrades

(* LevelEntered is kept: the sweep only works on levels the order's limit  *)
(* reaches.                                                                *)
LEMMA LevelEnteredStep ==
  ASSUME MatcherInv, MatcherInv', LevelEntered, [Next]_vars PROVE LevelEntered'
PROOF
  <1>1. SUFFICES ASSUME (pc = "share" \/ (pc = "visit" /\ resting # Null))'
                 PROVE  Entered'
    BY DEF LevelEntered
  <1>2. /\ level' \in InUse'
        /\ next_level' = Null \/ next_level' \in InUse'
    BY <1>1 DEF MatcherInv, PointersSafe, Reached, OfSide
  <1>3. CASE UNCHANGED vars
    BY <1>1, <1>3 DEF vars, bookVars, levelVars, localVars, LevelEntered, Entered, Crosses
  <1>4. CASE Call
    BY <1>1, <1>4 DEF Call, Submit, Cancel, Replace, MatcherInv, localVars
  <1>5. CASE SkipSelf \/ FillResting \/ PassOver \/ FillShare
    <2>1. /\ Entered /\ UNCHANGED <<incoming, level, next_level>>
      BY <1>1, <1>5 DEF SkipSelf, FillResting, PassOver, FillShare, LevelEntered
    <2>2. \A l \in InUse' : level_price'[l] = level_price[l]
      BY <1>5, SweepMovesNothing DEF SweepStep, NothingMoves
    <2> QED BY <1>2, <2>1, <2>2 DEF Entered, Crosses
  <1>6. CASE EnterLevel \/ EnterLevelProRata
    <2>1. /\ UNCHANGED <<bookVars, incoming, level>> /\ next_level' = Following(level)
          /\ pc = "level" /\ SweepGoesOn
      BY <1>1, <1>6 DEF EnterLevel, EnterLevelProRata
    <2>2. Reached(level) /\ Opposite(incoming.side) \in Side
      BY <2>1 DEF MatcherInv, PointersSafe, SweepGoesOn, Opposite, Side
    <2>3. level_price' = level_price
      BY <2>1 DEF bookVars, levelVars
    <2>4. next_level' # Null =>
            Better(Opposite(incoming.side), level_price[level], level_price[next_level'])
      BY <2>1, <2>2, NextLevelIs DEF MatcherInv, Following, Reached
    <2> QED BY <2>1, <2>3, <2>4 DEF Entered, Crosses, SweepGoesOn
  <1>7. CASE LeaveLevel \/ FillLargest \/ EndSweep \/ BeginMatch \/ FinishMatch \/ Return
    BY <1>1, <1>7 DEF LeaveLevel, FillLargest, EndSweep, BeginMatch, FinishMatch, Return
  <1> QED BY <1>3, <1>4, <1>5, <1>6, <1>7 DEF Next, Step

-----------------------------------------------------------------------------
(* What the book offers to the incoming order.                             *)
Offered == {s \in Resting : /\ data[s].side = Opposite(incoming.side)
                            /\ Crosses(data[s].price, incoming)
                            /\ ~IsSelfTrade(s, incoming)}

(* What is offered is finitely many orders, each with a quantity left.     *)
LEMMA OfferedSize ==
  ASSUME BookInv PROVE IsFiniteSet(Offered) /\ \A s \in Offered : qty[s] \in Nat \ {0}
PROOF
  <1>1. Offered \subseteq OrderSlots /\ Offered \subseteq Resting
    BY DEF Offered, Resting
  <1> QED BY <1>1, BookAssumption, FS_Subset, OrdersView DEF OrdersSeen

(* A trade takes its quantity from what is offered.                        *)
LEMMA TradeTakes ==
  ASSUME MatcherInv, NEW s, NEW n, Trades(s, n), UNCHANGED incoming
  PROVE  /\ s \in Offered /\ Offered' \subseteq Offered
         /\ n = qty[s] => Offered' = Offered \ {s}
         /\ n < qty[s] => Offered' = Offered
         /\ \A t \in Offered' : t # s => qty'[t] = qty[t]
         /\ n < qty[s] => qty'[s] = qty[s] - n
PROOF
  <1>1. /\ BookInv /\ BookInv' /\ s \in Resting /\ LevelOf(s) = level
        /\ n \in Nat \ {0} /\ n <= qty[s] /\ qty[s] \in Nat \ {0}
        /\ \/ n = qty[s] /\ Leaves(s)
           \/ n < qty[s] /\ Shrinks(s, qty[s] - n)
    BY TradeIs
  <1>2. s \in Offered
    <2>1. data[s].price = level_price[level] /\ data[s].side = Opposite(incoming.side)
      BY <1>1, OrdersView DEF OrdersSeen, Trades, Reached, OfSide
    <2> QED BY <1>1, <2>1 DEF Offered, Trades
  <1>3. CASE n = qty[s]
    <2>1. Leaves(s)
      BY <1>1, <1>3
    <2>2. Offered' = Offered \ {s}
      BY <2>1 DEF Leaves, Offered, Crosses, IsSelfTrade
    <2> QED BY <1>1, <1>2, <1>3, <2>1, <2>2 DEF Leaves, Offered
  <1>4. CASE n < qty[s]
    <2>1. Shrinks(s, qty[s] - n)
      BY <1>1, <1>4
    <2>2. Offered' = Offered
      BY <2>1 DEF Shrinks, Offered, Crosses, IsSelfTrade
    <2>3. qty \in [OrderSlots -> 0 .. MaxQty] /\ s \in OrderSlots
      BY <1>1 DEF BookInv, BookTypeOK, Resting
    <2> QED BY <1>1, <1>2, <1>4, <2>1, <2>2, <2>3 DEF Shrinks
  <1> QED BY <1>1, <1>3, <1>4

-----------------------------------------------------------------------------
(* What a step of the whole matcher does to the book: nothing comes to     *)
(* rest, or a call ends by resting its remainder.                          *)
LEMMA StepMoves ==
  ASSUME MatcherInv, LevelEntered, [Next]_vars
  PROVE  \/ Resting' \subseteq Resting /\ \A t \in Resting' : data'[t] = data[t]
         \/ /\ pc = "rest" /\ pc' = "returned" /\ UNCHANGED localVars
            /\ incoming \in Order /\ incoming.tif = "GTC" /\ remaining > 0
            /\ ~WouldRestCrossed
            /\ \E s \in OrderSlots : Rests(Remainder, s)
PROOF
  <1>1. BookInv
    BY DEF MatcherInv
  <1>2. CASE UNCHANGED bookVars
    BY <1>1, <1>2, SameBook
  <1>3. CASE UNCHANGED <<orderVars, levelVars, mapVars, order_pool, level_pool>>
    BY <1>3 DEF orderVars, Resting
  <1>4. ASSUME NEW id \in OrderIds, CancelOrder(id)
        PROVE  Resting' \subseteq Resting /\ \A t \in Resting' : data'[t] = data[t]
    BY <1>1, <1>4, CancelOrderLeaves DEF Leaves
  <1>5. ASSUME NEW id \in OrderIds, NEW p \in Prices, NEW q \in 0 .. MaxQty,
               Replace(id, p, q)
        PROVE  Resting' \subseteq Resting /\ \A t \in Resting' : data'[t] = data[t]
    <2>1. CASE CancelOrder(id)
      BY <2>1, <1>4
    <2>2. CASE q # 0 /\ q <= qty[FindOrder(id)] /\ ReplaceOrderInPlace(id, q)
      <3>1. q \in Quantity /\ Found(id)
        BY <1>5, <2>2, BookAssumption DEF Quantity, Replace
      <3> QED BY <1>1, <2>2, <3>1, ReplaceShrinks DEF Shrinks
    <2> QED BY <1>5, <2>1, <2>2 DEF Replace
  <1>6. CASE SweepStep
    BY <1>6, SweepMovesNothing DEF NothingMoves
  <1>7. CASE FinishMatch
    <2>1. CASE UNCHANGED bookVars
      BY <2>1, <1>2
    <2>2. CASE /\ incoming.tif = "GTC" /\ remaining > 0 /\ ~WouldRestCrossed
               /\ AddOrder(Remainder)
      <3>1. incoming \in Order /\ remaining \in Int /\ remaining <= incoming.qty
        BY <1>7 DEF MatcherInv, MatcherTypeOK, Sweeping, FinishMatch
      <3>2. remaining \in Quantity
        BY <3>1, <2>2, BookAssumption DEF Order, Quantity
      <3>3. Remainder \in RestableOrder
        BY <2>2, <3>1, <3>2 DEF Order, Remainder, RestableOrder
      <3>4. \/ \E s \in OrderSlots : Rests(Remainder, s)
            \/ UNCHANGED <<orderVars, levelVars, mapVars, order_pool, level_pool>>
        BY <1>1, <2>2, <3>3, AddOrderRests DEF Refuses
      <3> QED BY <1>3, <1>7, <2>2, <3>1, <3>4 DEF FinishMatch
    <2> QED BY <1>7, <2>1, <2>2 DEF FinishMatch
  <1>8. CASE (\E o \in Order : Submit(o)) \/ BeginMatch \/ Return \/ UNCHANGED vars
    BY <1>2, <1>8 DEF Submit, BeginMatch, Return, vars
  <1> QED BY <1>4, <1>5, <1>6, <1>7, <1>8 DEF Next, Call, Step, SweepStep, Cancel

(* What NeverCrossed says of the resting orders.                           *)
Uncrossed ==
  \A s, t \in Resting :
    data[s].side = "BUY" /\ data[t].side = "SELL" => data[s].price < data[t].price

(* NeverCrossed, said of single orders instead of the best prices.         *)
LEMMA UncrossedIs == BookInv => (NeverCrossed <=> Uncrossed)
PROOF
  <1>1. "BUY" \in Side /\ "SELL" \in Side
    BY DEF Side
  <1> QED BY <1>1, MappedPrices DEF NeverCrossed, Uncrossed

(* No step leaves a bid at or above an ask: an order rests only when the   *)
(* sweep has nothing left that crosses it.                                 *)
LEMMA UncrossedStep ==
  ASSUME MatcherInv, LevelEntered, Uncrossed, [Next]_vars PROVE Uncrossed'
PROOF
  <1>1. CASE Resting' \subseteq Resting /\ \A t \in Resting' : data'[t] = data[t]
    BY <1>1 DEF Uncrossed
  <1>2. ASSUME NEW s \in OrderSlots, Rests(Remainder, s), ~WouldRestCrossed,
               incoming \in Order
        PROVE  Uncrossed'
    <2>1. /\ Resting' = Resting \cup {s} /\ \A t \in Resting : data'[t] = data[t]
          /\ data'[s].side = incoming.side /\ data'[s].price = incoming.price
          /\ s \notin Resting
      BY <1>2 DEF Rests, Enters, DataOf, Remainder
    <2>2. incoming.side \in Side /\ Opposite(incoming.side) \in Side
      BY <1>2 DEF Order, Opposite, Side
    <2>3. BookInv /\ \A t \in Resting : data[t].price \in Prices /\ data[t].side \in Side
      BY OrdersView DEF MatcherInv, OrdersSeen, OrderData
    <2>4. \A t \in Resting : data[t].side = Opposite(incoming.side) =>
            ~Crosses(data[t].price, incoming)
      <3>1. SUFFICES ASSUME NEW t \in Resting, data[t].side = Opposite(incoming.side)
                     PROVE  ~Crosses(data[t].price, incoming)
        OBVIOUS
      <3>2. PICK b : b = BestLevel(Opposite(incoming.side))
        OBVIOUS
      <3>3. /\ OfSide(b, Opposite(incoming.side))
            /\ \/ data[t].price = level_price[b]
               \/ Better(Opposite(incoming.side), level_price[b], data[t].price)
        BY <2>2, <2>3, <3>1, <3>2, BestLevelIs
      <3>4. b # Null /\ level_price[b] \in Prices
        BY <2>3, <3>3, LevelsView DEF LevelsSeen, OfSide
      <3>5. ~Crosses(level_price[b], incoming)
        BY <1>2, <3>2, <3>4 DEF WouldRestCrossed
      <3>6. /\ incoming.price \in Int /\ level_price[b] \in Int /\ data[t].price \in Int
        BY <1>2, <2>3, <3>4, BookAssumption DEF Order
      <3> QED BY <2>2, <3>3, <3>5, <3>6 DEF Crosses, Better, Opposite, Side
    <2>5. \A t \in Resting : data[t].price \in Int /\ incoming.price \in Int
      BY <1>2, <2>3, BookAssumption DEF Order
    <2> QED BY <2>1, <2>2, <2>3, <2>4, <2>5 DEF Uncrossed, Crosses, Opposite, Side
  <1> QED BY <1>1, <1>2, StepMoves

(* The empty book is not crossed.                                          *)
LEMMA UncrossedStart == Init => Uncrossed
PROOF
  BY DEF Init, BookInit, Uncrossed, Resting, OrderPool!Init

(* NeverCrossed: no bid ever rests at or above an ask, whatever clients    *)
(* they are of and however they got there: cancel() and replace() add no   *)
(* order, and match() rests a remainder only after its sweep has taken all *)
(* that crosses it (matcher.hpp, MATCH-01).                                *)
THEOREM BookNeverCrossed == Spec => []NeverCrossed
PROOF
  <1>1. Init => MatcherInv /\ LevelEntered /\ Uncrossed
    BY MatcherStart, UncrossedStart DEF Init, LevelEntered
  <1>2. MatcherInv /\ MatcherInv' /\ LevelEntered /\ Uncrossed /\ [Next]_vars
          => LevelEntered' /\ Uncrossed'
    BY LevelEnteredStep, UncrossedStep
  <1>3. MatcherInv /\ Uncrossed => NeverCrossed
    BY UncrossedIs DEF MatcherInv
  <1> QED BY <1>1, <1>2, <1>3, MatcherInductive, PTL DEF Spec

-----------------------------------------------------------------------------
(* The orders of the level that the sweep has yet to come to.              *)
Pending == {s \in OrdersAt(level) : resting # Null /\ Place(resting) <= Place(s)}

(* The orders still to be visited at the level are those from the current  *)
(* one on.                                                                 *)
LEMMA PendingIs ==
  ASSUME BookInv, NEW s \in Resting, LevelOf(s) = level
  PROVE  /\ \A t \in OrdersAt(level) : t # s /\ Place(s) <= Place(t) => Place(s) + 1 <= Place(t)
         /\ next_[s] = Null => \A t \in OrdersAt(level) : t # s => ~(Place(s) <= Place(t))
         /\ next_[s] # Null => next_[s] \in OrdersAt(level) /\ Place(next_[s]) = Place(s) + 1
PROOF
  <1>1. /\ Place(s) \in Nat /\ \A t \in OrdersAt(level) : Place(t) \in Nat
    BY PlacesView DEF PlacesSeen, OrdersAt
  <1>2. \A t \in OrdersAt(level) : t # s => Place(t) # Place(s)
    BY PlacesView DEF PlacesSeen, OrdersAt
  <1>3. \/ next_[s] = Null /\ \A t \in OrdersAt(level) : Place(t) <= Place(s)
        \/ next_[s] \in OrdersAt(level) /\ Place(next_[s]) = Place(s) + 1
    BY PlacesView DEF PlacesSeen
  <1>4. \A t \in OrdersAt(level) : t # s /\ Place(s) <= Place(t) => Place(s) + 1 <= Place(t)
    BY <1>1, <1>2
  <1>5. next_[s] = Null => \A t \in OrdersAt(level) : t # s => ~(Place(s) <= Place(t))
    <2>1. Null \notin OrdersAt(level)
      BY BookAssumption DEF OrdersAt, Resting
    <2> QED BY <1>1, <1>2, <1>3, <2>1
  <1> QED BY <1>3, <1>4, <1>5

(* Going on to the next order takes the current one off the pending ones.  *)
LEMMA PendingPasses ==
  ASSUME BookInv, resting \in Resting, LevelOf(resting) = level, UNCHANGED <<bookVars, level>>,
         resting' = next_[resting]
  PROVE  Pending' = Pending \ {resting}
PROOF
  <1>1. /\ OrdersAt(level)' = OrdersAt(level)
        /\ \A s \in Resting : Place(s)' = Place(s)
    BY SameBook DEF OrdersAt
  <1>2. OrdersAt(level) \subseteq Resting /\ resting # Null
    BY BookAssumption DEF OrdersAt, Resting
  <1>3. \A t \in OrdersAt(level) : Place(t) \in Nat /\ Place(resting) \in Nat
    BY <1>2, PlacesView DEF PlacesSeen
  <1>4. CASE next_[resting] = Null
    BY <1>1, <1>2, <1>4, PendingIs DEF Pending
  <1>5. CASE next_[resting] # Null
    <2>1. PICK n : n = next_[resting] /\ n \in OrdersAt(level) /\ Place(n) = Place(resting) + 1
      BY <1>5, PendingIs
    <2>2. Pending' = {s \in OrdersAt(level) : Place(n) <= Place(s)}
      <3>1. resting' = n /\ Place(resting)' = Place(n)
        <4>1. Place(n)' = Place(n)
          BY <1>1, <1>2, <2>1
        <4> QED BY <2>1, <4>1 DEF Place
      <3> QED BY <1>1, <1>2, <1>5, <2>1, <3>1 DEF Pending
    <2>3. \A t \in OrdersAt(level) :
            Place(n) <= Place(t) <=> Place(resting) <= Place(t) /\ t # resting
      BY <1>3, <2>1, PendingIs
    <2> QED BY <1>2, <2>2, <2>3 DEF Pending
  <1> QED BY <1>4, <1>5

(* So does filling it, even when the fill removes it from the list that is *)
(* being walked.                                                           *)
LEMMA PendingTrades ==
  ASSUME MatcherInv, NEW n, Trades(resting, n), UNCHANGED level,
         resting' = next_[resting]
  PROVE  Pending' = Pending \ {resting}
PROOF
  <1>1. /\ BookInv /\ BookInv' /\ resting \in Resting /\ LevelOf(resting) = level
        /\ level \in InUse
        /\ Leaves(resting) \/ (\E k : Shrinks(resting, k))
    BY TradeIs
  <1>2. OrdersAt(level) \subseteq Resting /\ resting # Null
    BY <1>1, BookAssumption DEF OrdersAt, Resting
  <1>3. Place(resting) \in Nat /\ \A t \in OrdersAt(level) : Place(t) \in Nat
    BY <1>1, <1>2, PlacesView DEF PlacesSeen
  <1>4. CASE Leaves(resting)
    <2>1. /\ OrdersAt(level)' = OrdersAt(level) \ {resting}
          /\ \A t \in OrdersAt(level) \ {resting} :
               Place(t)' = IF Place(t) > Place(resting) THEN Place(t) - 1 ELSE Place(t)
      BY <1>1, <1>2, <1>4 DEF Leaves, OrdersAt
    <2>2. CASE next_[resting] = Null
      BY <1>1, <1>2, <2>1, <2>2, PendingIs DEF Pending
    <2>3. CASE next_[resting] # Null
      <3>1. PICK m : m = next_[resting] /\ m \in OrdersAt(level) /\ Place(m) = Place(resting) + 1
        BY <1>1, <2>3, PendingIs
      <3>2. m # resting
        BY <1>3, <3>1
      <3>3. Place(m)' = Place(resting)
        BY <1>3, <2>1, <3>1, <3>2
      <3>4. resting' = m /\ Place(resting)' = Place(resting)
        <4>1. resting' = m
          BY <3>1
        <4> QED BY <3>3, <4>1 DEF Place
      <3>5. Pending' = {t \in OrdersAt(level) \ {resting} : Place(resting) <= Place(t)'}
        <4>1. resting' # Null
          BY <3>1, <3>4, <2>3
        <4> QED BY <2>1, <3>4, <4>1 DEF Pending
      <3>6. \A t \in OrdersAt(level) \ {resting} :
              Place(resting) <= Place(t)' <=> Place(resting) <= Place(t)
        <4>1. TAKE t \in OrdersAt(level) \ {resting}
        <4>2. Place(t) # Place(resting)
          BY <1>1, <1>2, PlacesView DEF PlacesSeen, OrdersAt
        <4> QED BY <1>3, <2>1, <4>2
      <3> QED BY <1>1, <1>2, <3>5, <3>6 DEF Pending
    <2> QED BY <2>2, <2>3
  <1>5. ASSUME NEW k, Shrinks(resting, k) PROVE Pending' = Pending \ {resting}
    <2>1. /\ OrdersAt(level)' = OrdersAt(level)
          /\ \A t \in OrdersAt(level) : Place(t)' = Place(t)
      BY <1>1, <1>2, <1>5 DEF Shrinks, OrdersAt
    <2>2. CASE next_[resting] = Null
      BY <1>1, <1>2, <2>1, <2>2, PendingIs DEF Pending
    <2>3. CASE next_[resting] # Null
      <3>1. PICK m : m = next_[resting] /\ m \in OrdersAt(level) /\ Place(m) = Place(resting) + 1
        BY <1>1, <2>3, PendingIs
      <3>2. resting' = m /\ Place(resting)' = Place(m)
        <4>1. resting' = m /\ Place(m)' = Place(m)
          BY <2>1, <3>1
        <4> QED BY <4>1 DEF Place
      <3>3. Pending' = {t \in OrdersAt(level) : Place(m) <= Place(t)}
        BY <2>1, <2>3, <3>1, <3>2 DEF Pending
      <3>4. \A t \in OrdersAt(level) :
              Place(m) <= Place(t) <=> Place(resting) <= Place(t) /\ t # resting
        BY <1>1, <1>3, <3>1, PendingIs
      <3> QED BY <1>2, <3>3, <3>4 DEF Pending
    <2> QED BY <2>2, <2>3
  <1> QED BY <1>1, <1>4, <1>5

-----------------------------------------------------------------------------
(* The eligible orders of the level, the largest apart, that the apply     *)
(* pass has yet to serve, and what the pass still means to trade.          *)
ToServe == {s \in Pending \cap Eligible(level) : s # share.largest}

FloorsLeft == Total(Floors(ToServe, share.fill_qty, share.eligible_total), ToServe)
QtyLeft == Total(qty, ToServe)
Todo == FloorsLeft + share.residual + share.largest_share

(* The accounts of a pass: what is left to trade there is what is left of  *)
(* the order, unless the level is taken whole; the residual never exceeds  *)
(* what the orders still to come can take.                                 *)
SharesAccount ==
  /\ FloorsLeft \in Nat /\ QtyLeft \in Nat
  /\ Todo <= remaining
  /\ share.fill_qty < share.eligible_total => remaining = Todo
  /\ share.residual <= QtyLeft - FloorsLeft
  /\ share.fill_qty = share.eligible_total =>
       /\ share.residual = 0
       /\ share.largest_share = qty[share.largest]
       /\ Eligible(level) \subseteq ToServe \cup {share.largest}

(* Taken whole, every share is the whole quantity.                         *)
LEMMA WholeShare ==
  ASSUME NEW t \in Nat \ {0}, NEW q \in Nat PROVE (t * q) \div t = q
PROOF
  <1>1. t * q \in Nat
    OBVIOUS
  <1>2. PICK d \in Nat : d = (t * q) \div t /\ t * d <= t * q /\ t * q < t * d + t
    BY <1>1, DivBounds
  <1>3. d <= q
    BY <1>2
  <1>4. ~(d < q)
    <2>1. SUFFICES ASSUME d < q PROVE FALSE
      OBVIOUS
    <2>2. d + 1 <= q
      BY <2>1
    <2>3. t * (d + 1) <= t * q
      BY <2>2
    <2> QED BY <1>2, <2>3
  <1> QED BY <1>2, <1>3, <1>4

(* The orders the second pass has still to serve: finitely many, all       *)
(* resting, each with a quantity left.                                     *)
LEMMA ToServeSize ==
  ASSUME BookInv
  PROVE  /\ IsFiniteSet(ToServe)
         /\ \A s \in ToServe : s \in Resting /\ qty[s] \in Nat \ {0}
PROOF
  <1>1. ToServe \subseteq Resting /\ Resting \subseteq OrderSlots
    BY DEF ToServe, Eligible, OrdersAt, Resting
  <1> QED BY <1>1, BookAssumption, FS_Subset, OrdersView DEF OrdersSeen

(* One order is served.                                                    *)
LEMMA ServeIs ==
  ASSUME MatcherInv, LevelEntered, FillShare
  PROVE  /\ resting \in ToServe /\ ToServe' = ToServe \ {resting}
         /\ \A s \in ToServe \ {resting} : qty'[s] = qty[s]
         /\ qty'[share.largest] = qty[share.largest]
         /\ share.largest # resting
         /\ LET floor == FloorShare(resting, share.fill_qty, share.eligible_total)
                extra == Smaller(share.residual, qty[resting] - floor)
            IN  /\ floor \in Nat /\ floor <= qty[resting]
                /\ share'.residual = share.residual - extra
                /\ remaining' = remaining - (floor + extra)
                /\ \/ floor + extra > 0 /\ Trades(resting, floor + extra)
                   \/ floor + extra = 0 /\ UNCHANGED <<bookVars, remaining, fills>>
         /\ share'.fill_qty = share.fill_qty
         /\ share'.eligible_total = share.eligible_total
         /\ share'.largest = share.largest /\ share'.largest_share = share.largest_share
PROOF
  <1>1. PICK floor, extra :
          /\ floor = FloorShare(resting, share.fill_qty, share.eligible_total)
          /\ extra = Smaller(share.residual, qty[resting] - floor)
    OBVIOUS
  <1>2. /\ resting \in OrdersAt(level) /\ Reached(level) /\ Entered /\ SharesBounded
        /\ BookInv /\ resting # Null /\ resting # share.largest
        /\ ~IsSelfTrade(resting, incoming)
        /\ UNCHANGED <<incoming, level>> /\ resting' = next_[resting]
        /\ share' = [share EXCEPT !.residual = @ - extra]
        /\ \/ floor + extra > 0 /\ Fill(resting, floor + extra)
           \/ floor + extra = 0 /\ UNCHANGED <<bookVars, remaining, fills>>
    BY <1>1 DEF FillShare, Deferred, MatcherInv, PointersSafe, LevelEntered
  <1>3. PICK f, t, q \in Nat : /\ f = share.fill_qty /\ t = share.eligible_total
                               /\ q = qty[resting] /\ t # 0 /\ f <= t /\ q # 0
    BY <1>2, OrdersView DEF SharesBounded, OrdersSeen, OrdersAt
  <1>4. floor \in Nat /\ floor <= q
    <2>1. (f * q) \div t \in Nat /\ (f * q) \div t <= q
      BY <1>3, FloorBounds
    <2> QED BY <1>1, <1>3, <2>1 DEF FloorShare
  <1>5. PICK r \in Nat : r = share.residual
    BY <1>2 DEF SharesBounded
  <1>6. extra \in Nat /\ floor + extra <= q
    BY <1>1, <1>3, <1>4, <1>5 DEF Smaller
  <1>7. share.largest \in Eligible(level) /\ share.largest \in OrdersAt(level)
    BY <1>2 DEF SharesBounded, Eligible
  <1>8. resting \in ToServe
    <2>1. Place(resting) \in Nat
      BY <1>2, PlacesView DEF PlacesSeen, OrdersAt
    <2> QED BY <1>2, <2>1 DEF ToServe, Pending, Eligible
  <1>9. /\ share'.fill_qty = share.fill_qty
        /\ share'.eligible_total = share.eligible_total
        /\ share'.largest = share.largest /\ share'.largest_share = share.largest_share
    BY <1>2
  <1>10. \/ floor + extra > 0 /\ Trades(resting, floor + extra)
         \/ floor + extra = 0 /\ UNCHANGED <<bookVars, remaining, fills>>
    <2>1. CASE floor + extra > 0 /\ Fill(resting, floor + extra)
      <3>1. floor + extra \in 1 .. qty[resting]
        BY <1>3, <1>4, <1>6, <2>1
      <3> QED BY <1>2, <2>1, <3>1 DEF Trades, Entered
    <2> QED BY <1>2, <2>1
  <1>11. /\ Pending' = Pending \ {resting}
         /\ \A s \in Pending : s # resting => (s \in Eligible(level)' <=> s \in Eligible(level))
         /\ \A s \in OrdersAt(level) : s # resting => qty'[s] = qty[s]
         /\ remaining' = remaining - (floor + extra)
    <2>1. CASE Trades(resting, floor + extra)
      <3>1. Pending' = Pending \ {resting}
        BY <1>2, <2>1, PendingTrades
      <3>2. /\ BookInv' /\ resting \in Resting
            /\ Leaves(resting) \/ \E k : Shrinks(resting, k)
            /\ remaining' = remaining - (floor + extra)
        BY <2>1, TradeIs
      <3>3. /\ \A s \in Resting : s # resting => s \in Resting' /\ qty'[s] = qty[s]
            /\ \A s \in Resting' : data'[s] = data[s] /\ LevelOf(s)' = LevelOf(s)
        BY <1>2, <3>2, OtherLevels
      <3> QED BY <1>2, <3>1, <3>2, <3>3 DEF Eligible, OrdersAt, IsSelfTrade, Pending
    <2>2. CASE floor + extra = 0 /\ UNCHANGED <<bookVars, remaining, fills>>
      <3>1. Pending' = Pending \ {resting}
        BY <1>2, <2>2, PendingPasses DEF OrdersAt
      <3>2. OrdersAt(level)' = OrdersAt(level) /\ data' = data /\ qty' = qty
        BY <1>2, <2>2, SameBook DEF OrdersAt
      <3>3. Eligible(level)' = Eligible(level)
        BY <1>2, <3>2 DEF Eligible, IsSelfTrade
      <3>4. remaining \in Int
        BY DEF MatcherInv, MatcherTypeOK
      <3> QED BY <2>2, <3>1, <3>2, <3>3, <3>4
    <2> QED BY <1>10, <2>1, <2>2
  <1>12. ToServe' = ToServe \ {resting}
    BY <1>9, <1>11 DEF ToServe
  <1>13. ToServe \subseteq OrdersAt(level)
    BY DEF ToServe, Eligible
  <1>14. share'.residual = share.residual - extra
    BY <1>2 DEF SharesBounded
  <1> QED BY <1>1, <1>2, <1>3, <1>4, <1>7, <1>8, <1>9, <1>10, <1>11, <1>12, <1>13, <1>14

(* The floors of the orders to serve, and their bounds.                    *)
LEMMA FloorsToServe ==
  ASSUME BookInv, share.fill_qty \in Nat, share.eligible_total \in Nat \ {0},
         share.fill_qty <= share.eligible_total
  PROVE  /\ FloorsLeft \in Nat /\ QtyLeft \in Nat /\ FloorsLeft <= QtyLeft
         /\ \A s \in ToServe :
              /\ Floors(ToServe, share.fill_qty, share.eligible_total)[s] \in Nat
              /\ Floors(ToServe, share.fill_qty, share.eligible_total)[s] <= qty[s]
              /\ Floors(ToServe, share.fill_qty, share.eligible_total)[s]
                   = FloorShare(s, share.fill_qty, share.eligible_total)
PROOF
  <1>1. IsFiniteSet(ToServe) /\ \A s \in ToServe : qty[s] \in Nat \ {0}
    BY ToServeSize
  <1>2. \A s \in ToServe :
          /\ Floors(ToServe, share.fill_qty, share.eligible_total)[s] \in Nat
          /\ Floors(ToServe, share.fill_qty, share.eligible_total)[s] <= qty[s]
          /\ Floors(ToServe, share.fill_qty, share.eligible_total)[s]
               = FloorShare(s, share.fill_qty, share.eligible_total)
    <2> TAKE s \in ToServe
    <2>1. PICK f, t, q \in Nat : f = share.fill_qty /\ t = share.eligible_total /\ q = qty[s]
                                   /\ t # 0 /\ f <= t
      BY <1>1
    <2>2. (f * q) \div t \in Nat /\ (f * q) \div t <= q
      BY <2>1, FloorBounds
    <2> QED BY <2>1, <2>2 DEF Floors, FloorShare
  <1>3. FloorsLeft \in Nat /\ QtyLeft \in Nat /\ FloorsLeft <= QtyLeft
    BY <1>1, <1>2, TotalsBelow DEF FloorsLeft, QtyLeft
  <1> QED BY <1>2, <1>3

SharesSane ==
  /\ share.fill_qty \in Nat /\ share.eligible_total \in Nat \ {0}
  /\ share.fill_qty <= share.eligible_total

FloorsSane == FloorsLeft \in Nat /\ QtyLeft \in Nat /\ FloorsLeft <= QtyLeft

(* FloorsToServe for the primed state.                                     *)
LEMMA FloorsToServeAfter == BookInv' /\ SharesSane' => FloorsSane'
PROOF
  <1>1. BookInv /\ SharesSane => FloorsSane
    BY FloorsToServe DEF SharesSane, FloorsSane
  <1> QED BY <1>1, PTL

(* What is left to serve after a step that does not disturb it.            *)
LEMMA LeftAfter ==
  ASSUME BookInv, NEW S, IsFiniteSet(S), ToServe' = S, \A s \in S : qty'[s] = qty[s],
         NEW f, NEW t, share'.fill_qty = f, share'.eligible_total = t
  PROVE  FloorsLeft' = Total(Floors(S, f, t), S) /\ QtyLeft' = Total(qty, S)
PROOF
  <1>1. \A s \in S :
          Floors(ToServe, share.fill_qty, share.eligible_total)'[s] = Floors(S, f, t)[s]
    BY DEF Floors, FloorShare
  <1>2. Total(Floors(ToServe, share.fill_qty, share.eligible_total)', S)
          = Total(Floors(S, f, t), S)
    BY <1>1, TotalSame
  <1>3. FloorsLeft' = Total(Floors(ToServe, share.fill_qty, share.eligible_total)', S)
    BY DEF FloorsLeft
  <1>4. Total(qty', S) = Total(qty, S)
    BY TotalSame
  <1> QED BY <1>2, <1>3, <1>4 DEF QtyLeft

(* When the shares are computed, what is to be handed out is the level's   *)
(* fill quantity, and every eligible order but the largest is to be        *)
(* served.                                                                 *)
LEMMA AccountOpens ==
  ASSUME MatcherInv, EnterLevelProRata, Eligible(level) # {}, BookInv'
  PROVE  /\ SharesAccount' /\ ToServe' = Eligible(level) \ {Largest(level)}
         /\ Todo' = share'.fill_qty
PROOF
  <1>1. /\ Reached(level) /\ level \in InUse /\ BookInv /\ remaining \in Nat \ {0}
        /\ UNCHANGED <<bookVars, incoming, level, remaining>>
        /\ share' = Shares(level) /\ resting' = head_[level] /\ pc' = "share"
    BY DEF MatcherInv, MatcherTypeOK, PointersSafe, SweepGoesOn, Reached, OfSide,
           EnterLevelProRata
  <1>2. SharesComputed(level, share')
    BY <1>1, SharesIs
  <1>3. PICK x, E : x = Largest(level) /\ E = Eligible(level)
    OBVIOUS
  <1>4. x \in E /\ E \subseteq OrdersAt(level) /\ E \subseteq Resting
    BY <1>1, <1>3, LargestIs DEF Eligible, OrdersAt
  <1>5. IsFiniteSet(E) /\ IsFiniteSet(E \ {x}) /\ \A s \in E : qty[s] \in Nat \ {0}
    <2>1. E \subseteq OrderSlots
      BY <1>4 DEF Resting
    <2> QED BY <1>1, <1>4, <2>1, BookAssumption, FS_Subset, OrdersView DEF OrdersSeen
  <1>6. ToServe' = E \ {x}
    <2>1. /\ OrdersAt(level)' = OrdersAt(level)
          /\ Eligible(level)' = Eligible(level)
          /\ \A s \in Resting : Place(s)' = Place(s)
      BY <1>1, SameBook DEF OrdersAt, Eligible, IsSelfTrade
    <2>2. /\ head_[level] \in OrdersAt(level) /\ Place(head_[level]) = 1
          /\ \A s \in OrdersAt(level) : Place(s) \in Nat \ {0}
      BY <1>1, PlacesView DEF PlacesSeen, OrdersAt
    <2>3. resting' # Null /\ Place(resting)' = 1
      <3>1. PICK h : h = head_[level]
        OBVIOUS
      <3>2. Place(h)' = 1 /\ h # Null
        BY <2>1, <2>2, <3>1, BookAssumption DEF OrdersAt, Resting
      <3> QED BY <1>1, <3>1, <3>2 DEF Place
    <2>4. Pending' = OrdersAt(level)
      BY <2>1, <2>2, <2>3 DEF Pending, OrdersAt
    <2>5. share'.largest = x
      BY <1>2, <1>3 DEF SharesComputed
    <2> QED BY <1>3, <1>4, <2>1, <2>4, <2>5 DEF ToServe
  <1>7. PICK f, t : f = share'.fill_qty /\ t = share'.eligible_total
    OBVIOUS
  <1>8. t = Total(qty, E) /\ t \in Nat \ {0} /\ f = Smaller(remaining, t)
    BY <1>2, <1>3, <1>7 DEF SharesComputed
  <1>9. PICK floors, fx, extra :
          /\ floors = Total(Floors(E, f, t), E)
          /\ fx = FloorShare(x, f, t)
          /\ extra = Smaller(f - floors, qty[x] - fx)
    OBVIOUS
  <1>10. /\ floors \in Nat /\ floors <= f /\ fx \in Nat /\ fx <= qty[x]
         /\ share'.residual = f - floors - extra
         /\ share'.largest_share = fx + extra
         /\ share'.largest = x
    BY <1>2, <1>3, <1>7, <1>9 DEF SharesComputed
  <1>11. f \in Nat /\ f <= t /\ f <= remaining /\ (f < t => f = remaining)
    BY <1>1, <1>8 DEF Smaller
  <1>12. FloorsLeft' = Total(Floors(E \ {x}, f, t), E \ {x})
         /\ QtyLeft' = Total(qty, E \ {x}) /\ qty' = qty
    <2>1. qty' = qty
      BY <1>1 DEF bookVars, orderVars
    <2> QED BY <2>1, <1>1, <1>5, <1>6, <1>7, LeftAfter
  <1>13. \A s \in E : /\ Floors(E, f, t)[s] = FloorShare(s, f, t)
                      /\ FloorShare(s, f, t) \in Nat
                      /\ FloorShare(s, f, t) <= qty[s]
    BY <1>5, <1>8, <1>11, FloorBounds DEF Floors, FloorShare
  <1>14. floors = fx + FloorsLeft'
    <2>1. floors = Floors(E, f, t)[x] + Total(Floors(E, f, t), E \ {x})
      <3>1. \A s \in E : Floors(E, f, t)[s] \in Int
        BY <1>13
      <3> QED BY <3>1, <1>4, <1>5, <1>9, TotalRemove
    <2>2. \A s \in E \ {x} : Floors(E, f, t)[s] = Floors(E \ {x}, f, t)[s]
      BY DEF Floors
    <2>3. Total(Floors(E, f, t), E \ {x}) = FloorsLeft'
      BY <1>5, <1>12, <2>2, TotalSame
    <2> QED BY <1>4, <1>9, <1>13, <2>1, <2>3
  <1>15. t = qty[x] + QtyLeft'
    BY <1>4, <1>5, <1>8, <1>12, TotalRemove
  <1>16. FloorsLeft' \in Nat /\ QtyLeft' \in Nat /\ FloorsLeft' <= QtyLeft'
    BY <1>7, <1>8, <1>11, FloorsToServeAfter DEF SharesSane, FloorsSane
  <1>17. PICK qx \in Nat : qx = qty[x]
    BY <1>4, <1>5
  <1>18. Todo' = f /\ share'.residual <= QtyLeft' - FloorsLeft' /\ extra \in Nat
    <2>1. PICK fl, ql \in Nat : fl = FloorsLeft' /\ ql = QtyLeft' /\ fl <= ql
      BY <1>16
    <2>2. extra = Smaller(f - floors, qx - fx) /\ floors = fx + fl /\ t = qx + ql
      BY <1>9, <1>14, <1>15, <1>17, <2>1
    <2>3. Todo' = fl + (f - floors - extra) + (fx + extra)
      BY <1>10, <2>1 DEF Todo
    <2>4. floors \in Nat /\ f \in Nat /\ fx \in Nat /\ t \in Nat
      BY <1>8, <1>10, <1>11
    <2>5. /\ extra \in Nat /\ f - floors - extra <= ql - fl
          /\ fl + (f - floors - extra) + (fx + extra) = f
      <3>1. floors <= f /\ f <= t /\ fx <= qx /\ fl <= ql
        BY <1>10, <1>11, <1>17, <2>1
      <3>2. f \in Nat /\ floors \in Nat /\ fx \in Nat /\ t \in Nat
        BY <2>4
      <3>3. qx \in Nat /\ fl \in Nat /\ ql \in Nat
        BY <1>17, <2>1
      <3>4. /\ extra = Smaller(f - floors, qx - fx)
            /\ floors = fx + fl /\ t = qx + ql
        BY <2>2
      <3> QED BY <3>1, <3>2, <3>3, <3>4 DEF Smaller
    <2> QED BY <1>10, <2>1, <2>3, <2>5
  <1>19. ASSUME f = t
         PROVE  /\ share'.residual = 0 /\ share'.largest_share = qty[x]
    <2>1. \A s \in E : Floors(E, f, t)[s] = qty[s]
      BY <1>5, <1>8, <1>13, <1>19, WholeShare DEF FloorShare
    <2>2. floors = t
      BY <1>5, <1>8, <1>9, <2>1, TotalSame
    <2>3. fx = qty[x]
      BY <1>4, <1>9, <1>13, <2>1
    <2>4. extra = 0
      BY <1>8, <1>9, <1>17, <1>19, <2>2, <2>3 DEF Smaller
    <2>5. t \in Nat /\ t - t - 0 = 0 /\ qx + 0 = qx
      BY <1>8, <1>17
    <2>6. share'.residual = t - t - 0
      BY <1>10, <1>19, <2>2, <2>4
    <2>7. share'.largest_share = qx + 0
      BY <1>10, <1>17, <2>3, <2>4
    <2> QED BY <1>17, <2>5, <2>6, <2>7
  <1>20. Eligible(level)' = E
    BY <1>1, <1>3, SameBook DEF Eligible, OrdersAt, IsSelfTrade
  <1> QED BY <1>1, <1>3, <1>6, <1>7, <1>10, <1>11, <1>12, <1>16, <1>18, <1>19, <1>20
          DEF SharesAccount

(* A floor share that is filled leaves the account even: what is to be     *)
(* handed out falls by what was filled.                                    *)
LEMMA AccountServes ==
  ASSUME MatcherInv, LevelEntered, FillShare, SharesAccount, BookInv', MatcherInv'
  PROVE  /\ SharesAccount'
         /\ Todo' = Todo - (remaining - remaining')
PROOF
  <1>1. /\ BookInv /\ SharesBounded /\ pc' = "share" /\ UNCHANGED <<incoming, level>>
        /\ resting \in OrdersAt(level)
    BY DEF FillShare, MatcherInv, PointersSafe
  <1>2. PICK f, t, r, ls \in Nat :
          /\ f = share.fill_qty /\ t = share.eligible_total /\ t # 0 /\ f <= t
          /\ r = share.residual /\ ls = share.largest_share
    BY <1>1 DEF SharesBounded
  <1>3. PICK floor, extra :
          /\ floor = FloorShare(resting, f, t)
          /\ extra = Smaller(r, qty[resting] - floor)
    OBVIOUS
  <1>4. /\ resting \in ToServe /\ ToServe' = ToServe \ {resting}
        /\ \A s \in ToServe \ {resting} : qty'[s] = qty[s]
        /\ qty'[share.largest] = qty[share.largest]
        /\ floor \in Nat /\ floor <= qty[resting]
        /\ share'.residual = r - extra
        /\ remaining' = remaining - (floor + extra)
        /\ \/ floor + extra > 0 /\ Trades(resting, floor + extra)
           \/ floor + extra = 0 /\ UNCHANGED <<bookVars, remaining, fills>>
        /\ share'.fill_qty = f /\ share'.eligible_total = t
        /\ share'.largest = share.largest /\ share'.largest_share = ls
    BY <1>2, <1>3, ServeIs
  <1>5. IsFiniteSet(ToServe) /\ \A s \in ToServe : qty[s] \in Nat \ {0}
    BY <1>1, ToServeSize
  <1>6. PICK q \in Nat : q = qty[resting] /\ q # 0
    BY <1>4, <1>5
  <1>7. extra \in Nat /\ extra <= r /\ extra <= q - floor /\ floor \in Nat /\ floor <= q
    BY <1>2, <1>3, <1>4, <1>6 DEF Smaller
  <1>8. /\ FloorsLeft' = Total(Floors(ToServe \ {resting}, f, t), ToServe \ {resting})
        /\ QtyLeft' = Total(qty, ToServe \ {resting})
    <2>1. IsFiniteSet(ToServe \ {resting})
      BY <1>5, FS_Subset
    <2> QED BY <1>1, <1>4, <2>1, LeftAfter
  <1>9. FloorsLeft' = FloorsLeft - floor /\ QtyLeft' = QtyLeft - q
    <2>1. \A s \in ToServe : Floors(ToServe, f, t)[s] \in Int
      BY <1>1, <1>2, FloorsToServe
    <2>2. FloorsLeft = floor + Total(Floors(ToServe, f, t), ToServe \ {resting})
      <3>1. FloorsLeft = Floors(ToServe, f, t)[resting]
                           + Total(Floors(ToServe, f, t), ToServe \ {resting})
        BY <1>2, <1>4, <1>5, <2>1, TotalRemove DEF FloorsLeft
      <3>2. Floors(ToServe, f, t)[resting] = floor
        BY <1>3, <1>4 DEF Floors
      <3> QED BY <3>1, <3>2
    <2>3. Total(Floors(ToServe, f, t), ToServe \ {resting})
            = Total(Floors(ToServe \ {resting}, f, t), ToServe \ {resting})
      <3>1. \A s \in ToServe \ {resting} :
              Floors(ToServe, f, t)[s] = Floors(ToServe \ {resting}, f, t)[s]
        BY DEF Floors
      <3>2. IsFiniteSet(ToServe \ {resting})
        BY <1>5, FS_Subset
      <3> QED BY <3>1, <3>2, TotalSame
    <2>4. QtyLeft = q + Total(qty, ToServe \ {resting})
      BY <1>4, <1>5, <1>6, TotalRemove DEF QtyLeft
    <2>5. Total(qty, ToServe \ {resting}) \in Int
      <3>1. IsFiniteSet(ToServe \ {resting})
        BY <1>5, FS_Subset
      <3> QED BY <1>5, <3>1, TotalRemove
    <2>6. FloorsLeft \in Nat /\ QtyLeft \in Nat
      BY DEF SharesAccount
    <2>7. Total(Floors(ToServe, f, t), ToServe \ {resting}) \in Int
      <3>1. IsFiniteSet(ToServe \ {resting})
        BY <1>5, FS_Subset
      <3> QED BY <2>1, <3>1, TotalRemove
    <2>8. FloorsLeft' = FloorsLeft - floor
      BY <1>7, <1>8, <2>2, <2>3, <2>6, <2>7
    <2>9. QtyLeft' = QtyLeft - q
      BY <1>6, <1>8, <2>4, <2>5, <2>6
    <2> QED BY <2>8, <2>9
  <1>10. FloorsLeft' \in Nat /\ QtyLeft' \in Nat /\ FloorsLeft' <= QtyLeft'
    BY <1>2, <1>4, FloorsToServeAfter DEF SharesSane, FloorsSane
  <1>11. PICK fl, ql, fl1, ql1 \in Nat :
          /\ fl = FloorsLeft /\ ql = QtyLeft /\ fl1 = FloorsLeft' /\ ql1 = QtyLeft'
          /\ fl1 = fl - floor /\ ql1 = ql - q /\ fl1 <= ql1
    BY <1>9, <1>10 DEF SharesAccount
  <1>12. PICK rem \in Int : rem = remaining /\ remaining' = rem - (floor + extra)
    BY <1>4 DEF MatcherInv, MatcherTypeOK
  <1>13. Todo = fl + r + ls /\ Todo' = fl1 + (r - extra) + ls
    BY <1>2, <1>4, <1>11 DEF Todo
  <1>14. /\ Todo' = Todo - (remaining - remaining')
         /\ Todo <= remaining => Todo' <= remaining'
         /\ remaining = Todo => remaining' = Todo'
    BY <1>2, <1>7, <1>11, <1>12, <1>13
  <1>15. share'.residual <= QtyLeft' - FloorsLeft'
    <2>1. r <= ql - fl
      BY <1>2, <1>11 DEF SharesAccount
    <2>2. extra = r \/ extra = q - floor
      BY <1>3, <1>6 DEF Smaller
    <2>3. CASE extra = r
      BY <1>2, <1>4, <1>11, <2>3
    <2>4. CASE extra = q - floor
      BY <1>2, <1>4, <1>6, <1>7, <1>11, <2>1, <2>4
    <2> QED BY <2>2, <2>3, <2>4
  <1>16. ASSUME f = t
         PROVE  /\ share'.residual = 0
                /\ Eligible(level)' \subseteq ToServe' \cup {share.largest}
    <2>1. r = 0 /\ Eligible(level) \subseteq ToServe \cup {share.largest}
      BY <1>2, <1>16 DEF SharesAccount
    <2>2. floor = q
      BY <1>2, <1>3, <1>6, <1>16, WholeShare DEF FloorShare
    <2>3. extra = 0
      BY <1>7, <2>1
    <2>4. Trades(resting, q)
      <3>1. floor + extra = q
        BY <1>6, <2>2, <2>3
      <3> QED BY <1>4, <1>6, <3>1
    <2>5. Leaves(resting)
      <3>1. (q = qty[resting] /\ Leaves(resting)) \/ q < qty[resting]
        BY <2>4, TradeIs
      <3> QED BY <1>6, <3>1
    <2>6. Eligible(level)' = Eligible(level) \ {resting}
      BY <1>1, <2>5 DEF Leaves, Eligible, OrdersAt, IsSelfTrade
    <2>7. share'.residual = 0
      BY <1>4, <2>1, <2>3
    <2> QED BY <1>4, <2>1, <2>6, <2>7
  <1> QED BY <1>2, <1>4, <1>10, <1>14, <1>15, <1>16 DEF SharesAccount

(* An order that is passed over leaves the account alone.                  *)
LEMMA AccountPasses ==
  ASSUME MatcherInv, PassOver, SharesAccount, BookInv'
  PROVE  SharesAccount' /\ ToServe' = ToServe /\ Todo' = Todo
PROOF
  <1>1. /\ BookInv /\ resting \in OrdersAt(level) /\ SharesBounded
        /\ resting \in Resting /\ LevelOf(resting) = level
        /\ UNCHANGED <<bookVars, incoming, level, share, remaining>>
        /\ resting' = next_[resting]
        /\ resting = share.largest \/ IsSelfTrade(resting, incoming)
    BY DEF PassOver, Deferred, MatcherInv, PointersSafe, OrdersAt
  <1>2. /\ Eligible(level)' = Eligible(level) /\ qty' = qty
    BY <1>1, SameBook DEF Eligible, OrdersAt, IsSelfTrade
  <1>3. Pending' = Pending \ {resting}
    BY <1>1, PendingPasses
  <1>4. ToServe' = ToServe
    BY <1>1, <1>2, <1>3 DEF ToServe, Eligible
  <1>5. FloorsLeft' = FloorsLeft /\ QtyLeft' = QtyLeft
    <2>1. IsFiniteSet(ToServe)
      BY <1>1, ToServeSize
    <2> QED BY <1>1, <1>2, <1>4, <2>1, LeftAfter DEF FloorsLeft, QtyLeft
  <1> QED BY <1>1, <1>2, <1>4, <1>5 DEF SharesAccount, Todo

-----------------------------------------------------------------------------
Ahead(s, l) == l = Null \/ Better(Opposite(incoming.side), data[s].price, level_price[l])

(* While there is quantity left, everything that other clients offer ahead *)
(* of the sweep has been taken.                                            *)
Swept ==
  /\ pc = "level" /\ remaining > 0 => \A s \in Offered : ~Ahead(s, level)
  /\ pc = "visit" /\ remaining > 0 =>
       \A s \in Offered : Ahead(s, next_level) => s \in Pending
  /\ pc = "share" => \A s \in Offered : Ahead(s, next_level) => s \in OrdersAt(level)
  /\ pc = "rest" /\ remaining > 0 => Offered = {}

(* A FOK order that is let through is covered by what is offered to it.    *)
Covered == incoming.tif = "FOK" => remaining <= Total(qty, Offered)

SweepInv ==
  /\ pc \in Sweep => remaining \in Nat /\ Covered
  /\ pc = "share" => SharesAccount
  /\ Swept

(* The sweep has come to this level: what is ahead of the next one rests   *)
(* here.                                                                   *)
LEMMA AheadOfFollowing ==
  ASSUME MatcherInv, SweepInv, pc = "level", SweepGoesOn,
         NEW s \in Offered, NEW n, n = Following(level), Ahead(s, n)
  PROVE  s \in OrdersAt(level)
PROOF
  <1>1. PICK opp : opp = Opposite(incoming.side) /\ opp \in Side
    BY DEF Opposite, Side
  <1>2. /\ BookInv /\ OfSide(level, opp) /\ remaining > 0 /\ level \in InUse
        /\ s \in Resting /\ data[s].side = opp
    BY <1>1 DEF MatcherInv, PointersSafe, SweepGoesOn, Reached, OfSide, Offered
  <1>3. ~Better(opp, data[s].price, level_price[level])
    BY <1>1, <1>2 DEF SweepInv, Swept, Ahead
  <1>4. ~Better(opp, level_price[level], data[s].price)
    <2>1. \/ n = Null /\ ~Better(opp, level_price[level], data[s].price)
          \/ /\ n # Null /\ OfSide(n, opp)
             /\ Better(opp, level_price[level], data[s].price) =>
                  \/ data[s].price = level_price[n]
                  \/ Better(opp, level_price[n], data[s].price)
      <3>1. n = NextLevel(opp, level_price[level])
        BY <1>1 DEF Following
      <3> QED BY <1>1, <1>2, <3>1, NextLevelIs, LevelsView DEF LevelsSeen, OfSide
    <2>2. n # Null => Better(opp, data[s].price, level_price[n])
      BY <1>1 DEF Ahead
    <2>3. data[s].price \in Int /\ (n # Null => level_price[n] \in Int)
      <3>1. n # Null => level_price[n] \in Prices
        BY <1>2, <2>1, LevelsView DEF LevelsSeen, OfSide
      <3>2. data[s].price \in Prices
        BY <1>2, OrdersView DEF OrdersSeen, OrderData
      <3> QED BY <3>1, <3>2, BookAssumption
    <2> QED BY <2>1, <2>2, <2>3 DEF Better
  <1>5. data[s].price = level_price[level]
    <2>1. data[s].price \in Prices /\ level_price[level] \in Prices
      BY <1>2, OrdersView, LevelsView DEF OrdersSeen, OrderData, LevelsSeen
    <2>2. data[s].price \in Int /\ level_price[level] \in Int
      BY <2>1, BookAssumption
    <2> QED BY <1>3, <1>4, <2>2 DEF Better
  <1>6. PICK u \in Resting : LevelOf(u) = level /\ data[u].side = opp
    BY <1>2, LevelsView DEF LevelsSeen, OfSide, OrdersAt
  <1>7. data[u].price = level_price[level]
    BY <1>2, <1>6, OrdersView DEF OrdersSeen
  <1>8. LevelOf(s) = level
    BY <1>2, <1>5, <1>6, <1>7, LevelsView DEF LevelsSeen
  <1> QED BY <1>2, <1>8 DEF OrdersAt

(* What is offered, and what is ahead of a level, when the book does not   *)
(* change.                                                                 *)
LEMMA OfferedSame ==
  ASSUME BookInv, UNCHANGED <<bookVars, incoming>>
  PROVE  /\ Offered' = Offered /\ qty' = qty
         /\ \A s, l : Ahead(s, l)' = Ahead(s, l)
PROOF
  <1>1. UNCHANGED <<data, qty, level_price, incoming>> /\ Resting' = Resting
    BY SameBook
  <1> QED BY <1>1 DEF Offered, Ahead, Crosses, IsSelfTrade

(* A step of the sweep only takes orders out of what is offered, and those *)
(* that stay are as far ahead as they were.                                *)
LEMMA OfferedAfter ==
  ASSUME MatcherInv, LevelEntered, SweepStep
  PROVE  /\ Offered' \subseteq Offered /\ NothingMoves
         /\ \A s \in Offered' : \A l : (l = Null \/ l \in InUse') => Ahead(s, l)' = Ahead(s, l)
PROOF
  <1>1. UNCHANGED incoming
    BY SweepTrades
  <1>2. NothingMoves
    BY SweepMovesNothing
  <1>3. Offered' \subseteq Offered
    BY <1>1, <1>2 DEF NothingMoves, Offered, Crosses, IsSelfTrade
  <1>4. \A s \in Offered' : \A l : (l = Null \/ l \in InUse') => Ahead(s, l)' = Ahead(s, l)
    BY <1>1, <1>2 DEF NothingMoves, Offered, Ahead
  <1> QED BY <1>2, <1>3, <1>4

(* A trade takes as much from what is offered as from what is left.        *)
LEMMA CoveredStep ==
  ASSUME MatcherInv, LevelEntered, SweepStep, Covered PROVE Covered'
PROOF
  <1>1. BookInv /\ incoming' = incoming /\ remaining \in Int
    BY SweepTrades DEF MatcherInv, MatcherTypeOK
  <1>2. IsFiniteSet(Offered) /\ \A s \in Offered : qty[s] \in Nat \ {0}
    BY <1>1, OfferedSize
  <1>3. CASE Quiet
    BY <1>1, <1>3, OfferedSame DEF Quiet, Covered
  <1>4. ASSUME NEW s, NEW n, Trades(s, n) PROVE Covered'
    <2>1. /\ s \in Offered /\ Offered' \subseteq Offered
          /\ n = qty[s] => Offered' = Offered \ {s}
          /\ n < qty[s] => Offered' = Offered
          /\ \A t \in Offered' : t # s => qty'[t] = qty[t]
          /\ n < qty[s] => qty'[s] = qty[s] - n
      BY <1>1, <1>4, TradeTakes
    <2>2. /\ n \in Nat /\ n <= qty[s] /\ qty[s] \in Nat \ {0}
          /\ remaining' = remaining - n
      BY <1>4, TradeIs
    <2>3. IsFiniteSet(Offered \ {s})
      BY <1>2, FS_Subset
    <2>4. /\ Total(qty, Offered) = qty[s] + Total(qty, Offered \ {s})
          /\ Total(qty, Offered \ {s}) \in Int
      BY <1>2, <2>1, <2>3, TotalRemove
    <2>5. Total(qty', Offered \ {s}) = Total(qty, Offered \ {s})
      <3>1. \A t \in Offered \ {s} : qty'[t] = qty[t]
        BY <2>1, <2>2
      <3> QED BY <2>3, <3>1, TotalSame
    <2>6. Total(qty', Offered') = Total(qty, Offered) - n
      <3>1. CASE n = qty[s]
        <4>1. Total(qty', Offered') = Total(qty, Offered \ {s})
          BY <2>1, <2>5, <3>1
        <4> QED BY <2>2, <2>4, <3>1, <4>1
      <3>2. CASE n < qty[s]
        <4>1. Total(qty', Offered) = qty'[s] + Total(qty', Offered \ {s})
          <5>1. \A t \in Offered : qty'[t] \in Int
            BY <1>2, <2>1, <2>2, <3>2
          <5> QED BY <1>2, <2>1, <5>1, TotalRemove
        <4> QED BY <2>1, <2>2, <2>4, <2>5, <3>2, <4>1
      <3> QED BY <2>2, <3>1, <3>2
    <2>7. Total(qty, Offered) \in Int
      BY <2>2, <2>4
    <2> QED BY <1>1, <2>2, <2>6, <2>7 DEF Covered
  <1> QED BY <1>3, <1>4, SweepTrades

(* Nothing happens, and the pass stays where it is.                        *)
LEMMA PassSame ==
  ASSUME MatcherInv, UNCHANGED vars
  PROVE  /\ pc \in {"visit", "share"} => Pending' = Pending
         /\ pc = "share" => /\ ToServe' = ToServe /\ Todo' = Todo
                            /\ FloorsLeft' = FloorsLeft /\ QtyLeft' = QtyLeft
PROOF
  <1>1. /\ BookInv
        /\ UNCHANGED <<bookVars, incoming, level, resting, share>>
    BY DEF MatcherInv, vars, localVars
  <1>2. /\ OrdersAt(level)' = OrdersAt(level) /\ Eligible(level)' = Eligible(level)
        /\ \A s \in Resting : Place(s)' = Place(s) /\ qty' = qty
    BY <1>1, SameBook DEF OrdersAt, Eligible, IsSelfTrade
  <1>3. pc \in {"visit", "share"} => Pending' = Pending
    <2>1. CASE resting = Null
      BY <1>1, <2>1 DEF Pending
    <2>2. CASE resting # Null /\ pc \in {"visit", "share"}
      <3>1. resting \in Resting /\ OrdersAt(level) \subseteq Resting
        BY <2>2 DEF MatcherInv, PointersSafe, OrdersAt
      <3>2. Place(resting)' = Place(resting)
        <4>1. PICK r : r = resting
          OBVIOUS
        <4>2. Place(r)' = Place(r)
          BY <1>2, <3>1, <4>1
        <4> QED BY <1>1, <4>1, <4>2 DEF Place
      <3> QED BY <1>1, <1>2, <3>1, <3>2 DEF Pending
    <2> QED BY <2>1, <2>2
  <1>4. pc = "share" => ToServe' = ToServe
    BY <1>1, <1>2, <1>3 DEF ToServe
  <1>5. ASSUME pc = "share" PROVE FloorsLeft' = FloorsLeft /\ QtyLeft' = QtyLeft
    <2>1. IsFiniteSet(ToServe) /\ \A s \in ToServe : qty'[s] = qty[s]
      BY <1>1, ToServeSize DEF bookVars, orderVars
    <2> QED BY <1>1, <1>4, <1>5, <2>1, LeftAfter DEF FloorsLeft, QtyLeft
  <1> QED BY <1>1, <1>3, <1>4, <1>5 DEF Todo

(* Nothing happens, and SweepInv stays true.                               *)
LEMMA SweepInvStutters ==
  ASSUME MatcherInv, SweepInv, UNCHANGED vars PROVE SweepInv'
PROOF
  <1>1. /\ BookInv
        /\ UNCHANGED <<bookVars, pc, incoming, mode, remaining, level, next_level,
                       resting, share>>
    BY DEF MatcherInv, vars, localVars
  <1>2. /\ Offered' = Offered /\ qty' = qty
        /\ \A s, l : Ahead(s, l)' = Ahead(s, l)
    BY <1>1, OfferedSame
  <1>3. OrdersAt(level)' = OrdersAt(level) /\ Eligible(level)' = Eligible(level)
    BY <1>1, SameBook DEF OrdersAt, Eligible, IsSelfTrade
  <1>4. /\ pc \in {"visit", "share"} => Pending' = Pending
        /\ pc = "share" => /\ ToServe' = ToServe /\ Todo' = Todo
                           /\ FloorsLeft' = FloorsLeft /\ QtyLeft' = QtyLeft
    BY PassSame
  <1>5. pc = "share" => SharesAccount'
    BY <1>1, <1>2, <1>3, <1>4 DEF SweepInv, SharesAccount
  <1>6. Covered => Covered'
    BY <1>1, <1>2 DEF Covered
  <1>7. Swept'
    BY <1>1, <1>2, <1>3, <1>4 DEF SweepInv, Swept
  <1> QED BY <1>1, <1>5, <1>6, <1>7 DEF SweepInv

(* match() starts with everything still offered, and with enough of it.    *)
LEMMA SweepInvBegins ==
  ASSUME MatcherInv, BeginMatch PROVE SweepInv'
PROOF
  <1>1. /\ BookInv /\ incoming \in Order /\ UNCHANGED <<bookVars, incoming>>
        /\ remaining' = incoming.qty
        /\ \/ pc' = "returned"
           \/ /\ pc' = "level" /\ level' = BestLevel(Opposite(incoming.side))
              /\ incoming.tif = "FOK" => ~(Available(incoming) < incoming.qty)
    BY DEF BeginMatch, Refused, MatcherInv, MatcherTypeOK
  <1>2. /\ Offered' = Offered /\ qty' = qty
        /\ \A s, l : Ahead(s, l)' = Ahead(s, l)
    BY <1>1, OfferedSame
  <1>3. CASE pc' = "returned"
    BY <1>3 DEF SweepInv, Swept, Sweep
  <1>4. CASE /\ pc' = "level" /\ level' = BestLevel(Opposite(incoming.side))
             /\ incoming.tif = "FOK" => ~(Available(incoming) < incoming.qty)
    <2>1. PICK opp, b : opp = Opposite(incoming.side) /\ opp \in Side /\ b = BestLevel(opp)
      BY DEF Opposite, Side
    <2>2. ASSUME NEW s \in Offered PROVE ~Ahead(s, b)
      <3>1. s \in Resting /\ data[s].side = opp
        BY <2>1 DEF Offered
      <3>2. /\ OfSide(b, opp)
            /\ data[s].price = level_price[b] \/ Better(opp, level_price[b], data[s].price)
        BY <1>1, <2>1, <3>1, BestLevelIs
      <3>3. b # Null /\ level_price[b] \in Int /\ data[s].price \in Int
        <4>1. data[s].price \in Prices
          BY <1>1, <3>1, OrdersView DEF OrdersSeen, OrderData
        <4>2. b # Null /\ level_price[b] \in Prices
          BY <1>1, <3>2, LevelsView DEF LevelsSeen, OfSide
        <4> QED BY <4>1, <4>2, BookAssumption
      <3> QED BY <2>1, <3>2, <3>3 DEF Ahead, Better
    <2>3. Swept'
      BY <1>2, <1>4, <2>1, <2>2 DEF Swept
    <2>4. remaining' \in Nat
      BY <1>1 DEF Order
    <2>5. Covered'
      <3>1. IsFiniteSet(Offered) /\ \A s \in Offered : qty[s] \in Int
        BY <1>1, OfferedSize
      <3>2. Total(qty, Offered) \in Int
        BY <3>1, TotalRemove
      <3>3. Available(incoming) = Smaller(incoming.qty, Total(qty, Offered))
        BY <3>1, SumQtyIs DEF Available, Offered
      <3> QED BY <1>1, <1>2, <1>4, <2>4, <3>2, <3>3 DEF Covered, Smaller
    <2> QED BY <1>4, <2>3, <2>4, <2>5 DEF SweepInv
  <1> QED BY <1>1, <1>3, <1>4

(* Entering a level, or passing it over.                                   *)
LEMMA SweepInvEnters ==
  ASSUME MatcherInv, MatcherInv', LevelEntered, SweepInv,
         EnterLevel \/ EnterLevelProRata \/ EndSweep
  PROVE  SweepInv'
PROOF
  <1>1. BookInv /\ BookInv' /\ UNCHANGED <<bookVars, incoming, remaining>>
        /\ pc = "level" /\ pc' \in Sweep
    BY DEF MatcherInv, EnterLevel, EnterLevelProRata, EndSweep, Sweep
  <1>2. /\ Offered' = Offered /\ qty' = qty
        /\ \A s, l : Ahead(s, l)' = Ahead(s, l)
    BY <1>1, OfferedSame
  <1>3. remaining' \in Nat /\ Covered'
    BY <1>1, CoveredStep DEF SweepInv, SweepStep, Sweep
  <1>4. PICK n : n = Following(level)
    OBVIOUS
  <1>5. SweepGoesOn => \A s \in Offered : Ahead(s, n) => s \in OrdersAt(level)
    BY <1>1, <1>4, AheadOfFollowing
  <1>6. OrdersAt(level)' = OrdersAt(level) \/ level' # level
    BY <1>1, SameBook DEF OrdersAt
  <1>7. CASE EnterLevel
    <2>1. /\ next_level' = n /\ pc' = "visit" /\ SweepGoesOn /\ resting' = head_[level]
          /\ level' = level
      BY <1>4, <1>7 DEF EnterLevel
    <2>2. \A s \in OrdersAt(level) : s \in Pending'
      <3>1. level \in InUse
        BY <1>1, <2>1 DEF MatcherInv, PointersSafe, SweepGoesOn, Reached, OfSide
      <3>2. PICK h : h = head_[level] /\ h \in OrdersAt(level) /\ Place(h) = 1
        BY <1>1, <3>1, PlacesView DEF PlacesSeen
      <3>3. \A s \in OrdersAt(level) : Place(s) \in Nat \ {0} /\ Place(s)' = Place(s)
        BY <1>1, PlacesView, SameBook DEF PlacesSeen, OrdersAt
      <3>4. resting' = h /\ Place(resting)' = 1
        <4>1. resting' = h /\ Place(h)' = 1
          BY <2>1, <3>2, <3>3
        <4> QED BY <4>1 DEF Place
      <3>5. h # Null
        BY <3>2, BookAssumption DEF OrdersAt, Resting
      <3> QED BY <1>6, <2>1, <3>3, <3>4, <3>5 DEF Pending
    <2>3. Swept'
      BY <1>2, <1>5, <2>1, <2>2 DEF Swept
    <2> QED BY <1>3, <2>1, <2>3 DEF SweepInv
  <1>8. CASE EnterLevelProRata /\ Eligible(level) = {}
    <2>1. SweepGoesOn /\ level' = n /\ pc' = "level"
      BY <1>4, <1>8, <1>1 DEF EnterLevelProRata
    <2>2. \A s \in Offered : s \notin OrdersAt(level)
      BY <1>8 DEF Offered, Eligible
    <2>3. Swept'
      BY <1>2, <1>5, <2>1, <2>2 DEF Swept
    <2> QED BY <1>3, <2>1, <2>3 DEF SweepInv
  <1>9. CASE EnterLevelProRata /\ Eligible(level) # {}
    <2>1. SweepGoesOn /\ level' = level /\ next_level' = n /\ pc' = "share"
      BY <1>4, <1>9, <1>1 DEF EnterLevelProRata
    <2>2. SharesAccount'
      BY <1>1, <1>9, AccountOpens
    <2>3. Swept'
      BY <1>2, <1>5, <1>6, <2>1 DEF Swept
    <2> QED BY <1>3, <2>1, <2>2, <2>3 DEF SweepInv
  <1>10. CASE EndSweep
    <2>1. pc' = "rest" /\ ~SweepGoesOn /\ remaining \in Nat
      BY <1>1, <1>10 DEF EndSweep, SweepInv, Sweep
    <2>2. ASSUME remaining > 0, NEW s \in Offered PROVE FALSE
      <3>1. ~Ahead(s, level)
        BY <1>1, <2>2 DEF SweepInv, Swept
      <3>2. level # Null /\ ~Crosses(level_price[level], incoming) /\ Reached(level)
        BY <1>1, <2>1, <2>2, <3>1 DEF SweepGoesOn, Ahead, MatcherInv, PointersSafe
      <3>3. data[s].price \in Int /\ level_price[level] \in Int /\ incoming.price \in Int
        <4>1. data[s].price \in Prices
          BY <1>1, OrdersView DEF OrdersSeen, OrderData, Offered
        <4>2. level_price[level] \in Prices
          BY <1>1, <3>2, LevelsView DEF LevelsSeen, Reached, OfSide
        <4>3. incoming.price \in Prices
          BY <1>1 DEF MatcherInv, MatcherTypeOK, Order
        <4> QED BY <4>1, <4>2, <4>3, BookAssumption
      <3>4. Crosses(data[s].price, incoming)
        BY DEF Offered
      <3>5. incoming.side \in {"BUY", "SELL"}
        BY <1>1 DEF MatcherInv, MatcherTypeOK, Order, Side
      <3> QED BY <3>1, <3>2, <3>3, <3>4, <3>5 DEF Ahead, Crosses, Better, Opposite
    <2>3. Swept'
      BY <1>1, <1>2, <2>1, <2>2 DEF Swept
    <2> QED BY <1>3, <2>1, <2>3 DEF SweepInv
  <1> QED BY <1>7, <1>8, <1>9, <1>10

(* The visit of an order in price-time mode keeps SweepInv: what lies      *)
(* behind the sweep has nothing left to offer.                             *)
LEMMA SweepInvVisits ==
  ASSUME MatcherInv, MatcherInv', LevelEntered, SweepInv, SkipSelf \/ FillResting
  PROVE  SweepInv'
PROOF
  <1>1. /\ BookInv /\ pc = "visit" /\ pc' = "visit" /\ resting # Null /\ remaining > 0
        /\ resting \in OrdersAt(level) /\ resting \in Resting /\ LevelOf(resting) = level
        /\ UNCHANGED <<incoming, level, next_level>> /\ resting' = next_[resting]
        /\ remaining \in Nat
    BY DEF SkipSelf, FillResting, MatcherInv, PointersSafe, OrdersAt, SweepInv, Sweep
  <1>2. /\ Offered' \subseteq Offered
        /\ \A s \in Offered' : \A l : (l = Null \/ l \in InUse') => Ahead(s, l)' = Ahead(s, l)
    BY OfferedAfter DEF SweepStep
  <1>3. next_level' = Null \/ next_level' \in InUse'
    BY <1>1 DEF MatcherInv, PointersSafe, Reached, OfSide
  <1>4. Covered'
    BY <1>1, CoveredStep DEF SweepInv, SweepStep, Sweep
  <1>5. \A s \in Offered : Ahead(s, next_level) => s \in Pending
    BY <1>1 DEF SweepInv, Swept
  <1>6. CASE SkipSelf
    <2>1. /\ UNCHANGED <<bookVars, remaining>> /\ resting \notin Offered
      BY <1>6 DEF SkipSelf, Offered
    <2>2. Pending' = Pending \ {resting}
      BY <1>1, <2>1, PendingPasses
    <2>3. Swept'
      BY <1>1, <1>2, <1>3, <1>5, <2>1, <2>2 DEF Swept
    <2> QED BY <1>1, <1>4, <2>1, <2>3 DEF SweepInv
  <1>7. CASE FillResting
    <2>1. PICK n : n = Smaller(remaining, qty[resting])
      OBVIOUS
    <2>2. qty[resting] \in Nat \ {0}
      BY <1>1, OrdersView DEF OrdersSeen
    <2>3. n \in 1 .. qty[resting] /\ n <= remaining /\ (n = remaining \/ n = qty[resting])
      BY <1>1, <2>1, <2>2 DEF Smaller
    <2>4. Trades(resting, n)
      <3>1. /\ Fill(resting, n) /\ ~IsSelfTrade(resting, incoming)
            /\ Reached(level) /\ Entered
        BY <1>1, <1>7, <2>1 DEF FillResting, MatcherInv, PointersSafe, LevelEntered
      <3> QED BY <1>1, <2>3, <3>1 DEF Trades, Entered
    <2>5. Pending' = Pending \ {resting}
      BY <1>1, <2>4, PendingTrades
    <2>6. remaining' = remaining - n
      BY <2>4, TradeIs
    <2>7. remaining' \in Nat
      BY <1>1, <2>2, <2>3, <2>6
    <2>8. remaining' > 0 => resting \notin Offered'
      <3>1. SUFFICES ASSUME remaining' > 0 PROVE resting \notin Offered'
        OBVIOUS
      <3>2. n = qty[resting]
        BY <1>1, <2>3, <2>6, <3>1
      <3> QED BY <1>1, <2>4, <3>2, TradeTakes
    <2>9. Swept'
      BY <1>1, <1>2, <1>3, <1>5, <2>5, <2>8 DEF Swept
    <2> QED BY <1>1, <1>4, <2>7, <2>9 DEF SweepInv
  <1> QED BY <1>6, <1>7

(* Leaving a level keeps SweepInv: the level has nothing left, or nothing  *)
(* is left to fill.                                                        *)
LEMMA SweepInvLeaves ==
  ASSUME MatcherInv, LevelEntered, SweepInv, LeaveLevel PROVE SweepInv'
PROOF
  <1>1. /\ BookInv /\ pc = "visit" /\ pc' = "level" /\ (resting = Null \/ remaining = 0)
        /\ UNCHANGED <<bookVars, incoming, remaining>> /\ level' = next_level
        /\ remaining \in Nat
    BY DEF LeaveLevel, MatcherInv, SweepInv, Sweep
  <1>2. /\ Offered' = Offered
        /\ \A s, l : Ahead(s, l)' = Ahead(s, l)
    BY <1>1, OfferedSame
  <1>3. Covered'
    BY <1>1, CoveredStep DEF SweepInv, SweepStep, Sweep
  <1>4. Swept'
    BY <1>1, <1>2 DEF SweepInv, Swept, Pending
  <1> QED BY <1>1, <1>3, <1>4 DEF SweepInv

(* The second pass over a level keeps SweepInv.                            *)
LEMMA SweepInvShares ==
  ASSUME MatcherInv, MatcherInv', LevelEntered, SweepInv, PassOver \/ FillShare
  PROVE  SweepInv'
PROOF
  <1>1. /\ BookInv /\ BookInv' /\ pc = "share" /\ pc' = "share"
        /\ resting \in OrdersAt(level) /\ UNCHANGED <<incoming, level, next_level>>
        /\ remaining \in Nat
    BY DEF PassOver, FillShare, MatcherInv, PointersSafe, SweepInv, Sweep
  <1>2. /\ Offered' \subseteq Offered /\ NothingMoves
        /\ \A s \in Offered' : \A l : (l = Null \/ l \in InUse') => Ahead(s, l)' = Ahead(s, l)
    BY OfferedAfter DEF SweepStep
  <1>3. next_level' = Null \/ next_level' \in InUse'
    BY <1>1 DEF MatcherInv, PointersSafe, Reached, OfSide
  <1>4. Covered'
    BY <1>1, CoveredStep DEF SweepInv, SweepStep, Sweep
  <1>5. SharesAccount'
    BY <1>1, AccountServes, AccountPasses DEF SweepInv
  <1>6. remaining' \in Nat
    <2>1. CASE PassOver
      BY <1>1, <2>1 DEF PassOver
    <2>2. CASE FillShare
      <3>1. Todo' <= remaining' /\ FloorsLeft' \in Nat
        BY <1>5 DEF SharesAccount
      <3>2. share'.residual \in Nat /\ share'.largest_share \in Nat
        BY <1>1 DEF MatcherInv, PointersSafe, SharesBounded
      <3>3. Todo' \in Nat
        <4>1. Todo' = FloorsLeft' + share'.residual + share'.largest_share
          BY DEF Todo
        <4> QED BY <3>1, <3>2, <4>1
      <3>4. remaining' \in Int
        BY DEF MatcherInv, MatcherTypeOK
      <3> QED BY <3>1, <3>3, <3>4
    <2> QED BY <2>1, <2>2
  <1>7. \A s \in Offered' : s \in Resting'
    BY DEF Offered
  <1>8. Swept'
    BY <1>1, <1>2, <1>3, <1>7 DEF SweepInv, Swept, NothingMoves, OrdersAt
  <1> QED BY <1>1, <1>4, <1>5, <1>6, <1>8 DEF SweepInv

(* When the largest order has had its share, nothing is left of the order, *)
(* or nothing of the level that it may trade with.                         *)
LEMMA SharesDone ==
  ASSUME MatcherInv, MatcherInv', LevelEntered, SweepInv, FillLargest
  PROVE  /\ remaining' \in Nat
         /\ remaining' > 0 => Eligible(level) \cap Resting' = {}
         /\ share.fill_qty < share.eligible_total => remaining' = 0
         /\ Todo = share.largest_share /\ ToServe = {}
PROOF
  <1>1. /\ BookInv /\ BookInv' /\ pc = "share" /\ resting = Null /\ SharesBounded
        /\ SharesAccount /\ remaining \in Nat /\ level \in InUse
    BY DEF FillLargest, MatcherInv, PointersSafe, SweepInv, Sweep, Reached, OfSide
  <1>2. ToServe = {}
    BY <1>1 DEF ToServe, Pending
  <1>3. FloorsLeft = 0 /\ QtyLeft = 0
    BY <1>2, TotalEmpty DEF FloorsLeft, QtyLeft
  <1>4. PICK r, ls, f, t \in Nat :
          /\ r = share.residual /\ ls = share.largest_share
          /\ f = share.fill_qty /\ t = share.eligible_total /\ f <= t
    BY <1>1 DEF SharesBounded
  <1>5. r = 0
    BY <1>1, <1>3, <1>4 DEF SharesAccount
  <1>6. Todo = ls
    BY <1>3, <1>4, <1>5 DEF Todo
  <1>7. remaining' = remaining - ls
    BY <1>1, <1>4 DEF FillLargest, Fill
  <1>8. ls <= remaining /\ (f < t => remaining = ls)
    BY <1>1, <1>4, <1>6 DEF SharesAccount
  <1>9. remaining' \in Nat /\ (f < t => remaining' = 0)
    BY <1>1, <1>4, <1>7, <1>8
  <1>10. ASSUME f = t PROVE Eligible(level) \cap Resting' = {}
    <2>1. /\ ls = qty[share.largest] /\ Eligible(level) \subseteq {share.largest}
      BY <1>1, <1>2, <1>4, <1>10 DEF SharesAccount
    <2>2. share.largest \in OrdersAt(level) /\ ~IsSelfTrade(share.largest, incoming)
      BY <1>1 DEF SharesBounded, Eligible
    <2>3. ls \in Nat \ {0}
      BY <1>1, <2>1, <2>2, OrdersView DEF OrdersSeen, OrdersAt
    <2>4. Fill(share.largest, ls)
      BY <1>4, <2>3 DEF FillLargest
    <2>5. Trades(share.largest, ls)
      <3>1. ls \in 1 .. qty[share.largest]
        BY <2>1, <2>3
      <3>2. Reached(level) /\ Crosses(level_price[level], incoming)
        BY <1>1 DEF MatcherInv, PointersSafe, LevelEntered, Entered
      <3> QED BY <2>2, <2>4, <3>1, <3>2 DEF Trades
    <2>6. \/ ls = qty[share.largest] /\ Leaves(share.largest)
          \/ ls < qty[share.largest]
      BY <2>5, TradeIs
    <2>7. Leaves(share.largest)
      BY <2>1, <2>3, <2>6
    <2> QED BY <2>1, <2>7 DEF Leaves
  <1>11. remaining' > 0 => f = t
    BY <1>4, <1>9
  <1> QED BY <1>2, <1>4, <1>6, <1>9, <1>10, <1>11

(* The residual fill keeps SweepInv: it ends the level with everything     *)
(* handed out.                                                             *)
LEMMA SweepInvLargest ==
  ASSUME MatcherInv, MatcherInv', LevelEntered, SweepInv, FillLargest
  PROVE  SweepInv'
PROOF
  <1>1. /\ BookInv /\ BookInv' /\ pc = "share" /\ pc' = "level" /\ level' = next_level
        /\ UNCHANGED <<incoming, next_level>>
    BY DEF FillLargest, MatcherInv
  <1>2. /\ Offered' \subseteq Offered /\ NothingMoves
        /\ \A s \in Offered' : \A l : (l = Null \/ l \in InUse') => Ahead(s, l)' = Ahead(s, l)
    BY OfferedAfter DEF SweepStep
  <1>3. next_level = Null \/ next_level \in InUse'
    BY <1>1 DEF MatcherInv, PointersSafe, Reached, OfSide
  <1>4. Covered'
    BY <1>1, CoveredStep DEF SweepInv, SweepStep, Sweep
  <1>5. /\ remaining' \in Nat
        /\ remaining' > 0 => Eligible(level) \cap Resting' = {}
    BY SharesDone
  <1>6. \A s \in Offered' : s \in Resting' /\ ~IsSelfTrade(s, incoming)
    BY <1>1, <1>2 DEF Offered, NothingMoves, IsSelfTrade
  <1>7. remaining' > 0 => \A s \in Offered' : ~Ahead(s, next_level)'
    <2>1. SUFFICES ASSUME remaining' > 0, NEW s \in Offered', Ahead(s, next_level)'
                   PROVE  FALSE
      OBVIOUS
    <2>2. PICK n : n = next_level /\ n = next_level'
      BY <1>1
    <2>3. Ahead(s, n)'
      BY <2>1, <2>2 DEF Ahead
    <2>4. Ahead(s, next_level) /\ s \in Offered
      BY <1>2, <1>3, <2>2, <2>3
    <2>5. s \in OrdersAt(level)
      BY <1>1, <2>4 DEF SweepInv, Swept
    <2>6. s \in Eligible(level)
      BY <2>4, <2>5 DEF Offered, Eligible
    <2> QED BY <1>5, <1>6, <2>1, <2>6
  <1>8. Swept'
    <2>1. \A s \in Offered' : Ahead(s, level)' <=> Ahead(s, next_level)'
      BY <1>1 DEF Ahead
    <2> QED BY <1>1, <1>7, <2>1 DEF Swept
  <1> QED BY <1>1, <1>4, <1>5, <1>8 DEF SweepInv

(* Every step keeps SweepInv.                                              *)
LEMMA SweepInvStep ==
  ASSUME MatcherInv, MatcherInv', LevelEntered, SweepInv, [Next]_vars
  PROVE  SweepInv'
PROOF
  <1>1. CASE UNCHANGED vars
    BY <1>1, SweepInvStutters
  <1>2. CASE Call
    <2>1. pc' \notin Sweep
      BY <1>2 DEF Call, Submit, Cancel, Replace, Sweep
    <2> QED BY <2>1 DEF SweepInv, Swept, Sweep
  <1>3. CASE FinishMatch \/ Return
    BY <1>3 DEF FinishMatch, Return, SweepInv, Swept, Sweep
  <1> QED BY <1>1, <1>2, <1>3, SweepInvBegins, SweepInvEnters, SweepInvVisits,
             SweepInvLeaves, SweepInvShares, SweepInvLargest DEF Next, Step

-----------------------------------------------------------------------------
(* Between two calls no fill has been reported; and while an order is      *)
(* matched, none of its id rests.                                          *)
CallClean ==
  /\ pc \in {"idle", "match"} => fills = <<>>
  /\ pc \in Sweep => ~Found(incoming.order_id)

(* An id that is not in the book does not appear in it during the sweep.   *)
LEMMA FoundMoves ==
  ASSUME BookInv, BookInv', NothingMoves, NEW id \in OrderIds, ~Found(id)
  PROVE  ~Found(id)'
PROOF
  <1>1. \A t \in Resting : data[t].order_id # id
    BY LevelsView DEF LevelsSeen
  <1>2. \A t \in Resting' : data'[t].order_id # id
    BY <1>1 DEF NothingMoves
  <1> QED BY <1>2, ViewAfter DEF LevelsSeen

(* Every step keeps CallClean.                                             *)
LEMMA CallCleanStep ==
  ASSUME MatcherInv, MatcherInv', LevelEntered, CallClean, [Next]_vars
  PROVE  CallClean'
PROOF
  <1>1. BookInv /\ BookInv'
    BY DEF MatcherInv
  <1>2. CASE UNCHANGED vars
    BY <1>2 DEF CallClean, Found, vars, localVars, bookVars, mapVars
  <1>3. CASE Call
    BY <1>3 DEF Call, Submit, Cancel, Replace, CallClean, Sweep, localVars
  <1>4. CASE BeginMatch
    BY <1>4 DEF BeginMatch, Refused, CallClean, Found, Sweep, bookVars, mapVars
  <1>5. CASE SweepStep
    <2>1. pc \in Sweep /\ pc' \in Sweep /\ incoming' = incoming /\ NothingMoves
      BY <1>5, SweepTrades, SweepMovesNothing
    <2>2. incoming.order_id \in OrderIds
      BY <2>1 DEF MatcherInv, MatcherTypeOK, Sweep, Order
    <2>3. PICK id : id = incoming.order_id /\ id = incoming'.order_id
      BY <2>1
    <2>4. ~Found(id)'
      BY <1>1, <2>1, <2>2, <2>3, FoundMoves DEF CallClean
    <2> QED BY <2>1, <2>3, <2>4 DEF CallClean, Found, Sweep
  <1>6. CASE FinishMatch \/ Return
    BY <1>6 DEF FinishMatch, Return, CallClean, Sweep
  <1> QED BY <1>2, <1>3, <1>4, <1>5, <1>6 DEF Next, Step, SweepStep

(* What is said of a call when it returns.                                 *)
Promises == NothingLeftToTrade /\ FillOrKill /\ RemainderAccountedFor

NoneOffered ==
  Returned /\ remaining > 0 /\ ~Duplicate /\ incoming.tif # "FOK" => Offered = {}

(* NothingLeftToTrade, said of single orders instead of a set.             *)
LEMMA NoneOfferedIs == NoneOffered <=> NothingLeftToTrade
PROOF
  BY DEF NoneOffered, NothingLeftToTrade, Offered

(* An order of an id that rests is seen to be a duplicate.                 *)
LEMMA DuplicateSeen ==
  ASSUME MatcherInv, BeginMatch, Found(incoming.order_id) PROVE Duplicate'
PROOF
  <1>1. BookInv /\ incoming.order_id \in OrderIds
    BY DEF MatcherInv, MatcherTypeOK, BeginMatch, Order
  <1>2. PICK s \in Resting : data[s].order_id = incoming.order_id
    BY <1>1, LevelsView DEF LevelsSeen
  <1>3. PICK side \in Side, p \in Prices : side = data[s].side /\ p = data[s].price
    BY <1>1, OrdersView DEF OrdersSeen, OrderData
  <1>4. /\ Place(s) \in 1 .. Len(Queue[side][p])
        /\ Queue[side][p][Place(s)].order_id = incoming.order_id
    <2>1. QueuesSeen
      BY <1>1, QueuesView
    <2>2. /\ Place(s) \in 1 .. Len(Queue[side][p])
          /\ Queue[side][p][Place(s)] = OrderAt(s)
      BY <1>3, <2>1 DEF QueuesSeen
    <2>3. OrderAt(s).order_id = incoming.order_id
      BY <1>2 DEF OrderAt
    <2> QED BY <2>2, <2>3
  <1>5. before' = Queue /\ incoming' = incoming
    BY DEF BeginMatch
  <1>6. \E i \in 1 .. Len(before'[side][p]) :
          before'[side][p][i].order_id = incoming'.order_id
    BY <1>4, <1>5
  <1> QED BY <1>6 DEF Duplicate

(* Nothing happens, and the promises stay true.                            *)
LEMMA PromisesStutter ==
  ASSUME MatcherInv, Promises, UNCHANGED vars PROVE Promises'
PROOF
  <1>1. /\ UNCHANGED <<data, qty, incoming, remaining, fills, before, pc, order_pool, level_pool,
                       order_pool_dry, level_pool_dry, order_index, price_map, level_price>>
        /\ Queue' = Queue
    BY SameQueue DEF vars, localVars, bookVars, orderVars, levelVars, mapVars, poolVars
  <1>2. Duplicate' <=> Duplicate
    BY <1>1 DEF Duplicate
  <1>3. NothingLeftToTrade'
    BY <1>1, <1>2 DEF Promises, NothingLeftToTrade, Returned, Resting, Crosses, IsSelfTrade
  <1>4. FillOrKill'
    BY <1>1 DEF Promises, FillOrKill, Returned
  <1>5. WouldRestCrossed' <=> WouldRestCrossed
    BY <1>1 DEF WouldRestCrossed, BestLevel, BestOf, Mapped, Crosses
  <1>6. RemainderAccountedFor'
    BY <1>1, <1>2, <1>5 DEF Promises, RemainderAccountedFor, Returned, Found
  <1> QED BY <1>3, <1>4, <1>6 DEF Promises

(* The promises when match() begins or refuses the order at once: a fill-  *)
(* or-kill order that cannot be filled, or one whose id is resting.        *)
LEMMA PromisesRefused ==
  ASSUME MatcherInv, CallClean, BeginMatch PROVE Promises'
PROOF
  <1>1. CASE pc' = "level"
    BY <1>1 DEF Promises, NothingLeftToTrade, FillOrKill, RemainderAccountedFor, Returned
  <1>2. CASE Refused /\ pc' = "returned"
    <2>1. /\ UNCHANGED <<bookVars, incoming, fills>> /\ before' = Queue /\ fills = <<>>
          /\ UNCHANGED mapVars
      BY DEF BeginMatch, CallClean, bookVars
    <2>2. Found(incoming.order_id) => Duplicate'
      BY DuplicateSeen
    <2>3. ~Duplicate' => incoming.tif = "FOK" /\ ~Found(incoming.order_id)
      BY <1>2, <2>2 DEF Refused
    <2>4. NothingLeftToTrade'
      BY <2>1, <2>3 DEF NothingLeftToTrade
    <2>5. FillOrKill'
      BY <2>1, SameQueue DEF FillOrKill
    <2>6. RemainderAccountedFor'
      BY <2>1, <2>3 DEF RemainderAccountedFor, Found, mapVars
    <2> QED BY <2>4, <2>5, <2>6 DEF Promises
  <1> QED BY <1>1, <1>2 DEF BeginMatch

(* An order that has come to rest is the last of its queue.                *)
LEMMA RestsLast ==
  ASSUME BookInv, BookInv', NEW o \in RestableOrder, NEW s \in OrderSlots, Rests(o, s),
         NEW own, own = Queue'[o.side][o.price]
  PROVE  /\ own # <<>>
         /\ own[Len(own)].order_id = o.order_id /\ own[Len(own)].qty = o.qty
PROOF
  <1>1. /\ Resting' = Resting \cup {s} /\ data'[s] = DataOf(o) /\ qty'[s] = o.qty
        /\ \A t \in Resting : LevelOf(t)' = LevelOf(s)' => Place(t)' < Place(s)'
    BY DEF Rests, Enters
  <1>2. o.side \in Side /\ o.price \in Prices
    BY DEF RestableOrder
  <1>3. data'[s].side = o.side /\ data'[s].price = o.price /\ data'[s].order_id = o.order_id
    BY <1>1 DEF DataOf
  <1>4. /\ Place(s)' \in 1 .. Len(own) /\ Len(own) \in Nat
        /\ own[Place(s)'] = OrderAt(s)'
        /\ \A i \in 1 .. Len(own) :
             \E t \in Resting' : /\ data'[t].side = o.side /\ data'[t].price = o.price
                                 /\ Place(t)' = i
    <2>1. QueuesSeen' /\ s \in Resting'
      BY <1>1, QueuesAfter
    <2>2. /\ Place(s)' \in 1 .. Len(own)
          /\ own[Place(s)'] = OrderAt(s)'
      BY <1>3, <2>1 DEF QueuesSeen
    <2>3. /\ Len(own) \in Nat
          /\ \A i \in 1 .. Len(own) :
               \E t \in Resting' : /\ data'[t].side = o.side /\ data'[t].price = o.price
                                   /\ Place(t)' = i
      BY <1>2, <2>1 DEF QueuesSeen
    <2> QED BY <2>2, <2>3
  <1>5. PICK t \in Resting' : /\ data'[t].side = o.side /\ data'[t].price = o.price
                              /\ Place(t)' = Len(own)
    BY <1>4
  <1>6. LevelOf(t)' = LevelOf(s)'
    BY <1>1, <1>3, <1>5, ViewAfter DEF LevelsSeen
  <1>7. t = s
    BY <1>1, <1>4, <1>5, <1>6
  <1>8. own[Len(own)] = OrderAt(s)'
    BY <1>4, <1>5, <1>7
  <1>9. own[Len(own)].order_id = o.order_id /\ own[Len(own)].qty = o.qty
    BY <1>1, <1>3, <1>8 DEF OrderAt
  <1>10. own # <<>>
    BY <1>4
  <1> QED BY <1>9, <1>10

(* The promises when the sweep is over: the remainder rests, is dropped,   *)
(* or finds the pool empty.                                                *)
LEMMA PromisesFinished ==
  ASSUME MatcherInv, MatcherInv', LevelEntered, SweepInv, CallClean, FinishMatch
  PROVE  Promises'
PROOF
  <1>1. /\ BookInv /\ BookInv' /\ pc = "rest" /\ UNCHANGED localVars
        /\ incoming \in Order /\ remaining \in Nat /\ Covered
        /\ remaining > 0 => Offered = {}
        /\ ~Found(incoming.order_id)
    BY DEF MatcherInv, MatcherTypeOK, FinishMatch, SweepInv, Swept, Sweep, CallClean, Sweeping
  <1>2. UNCHANGED <<incoming, remaining, fills, before>>
    BY <1>1 DEF localVars
  <1>3. CASE UNCHANGED bookVars /\ ~(incoming.tif = "GTC" /\ remaining > 0 /\ ~WouldRestCrossed)
    <2>1. /\ Offered' = Offered /\ Found(incoming.order_id)' = Found(incoming.order_id)
          /\ (WouldRestCrossed' <=> WouldRestCrossed)
      BY <1>1, <1>2, <1>3, SameBook, OfferedSame
         DEF WouldRestCrossed, BestLevel, BestOf, Mapped, Crosses, Found
    <2>2. NothingLeftToTrade'
      BY <1>1, <1>2, <2>1, NoneOfferedIs DEF NothingLeftToTrade, Offered
    <2>3. FillOrKill'
      <3>1. incoming.tif = "FOK" => remaining = 0
        <4>1. Total(qty, {}) = 0
          BY TotalEmpty
        <4> QED BY <1>1, <4>1 DEF Covered
      <3> QED BY <1>2, <3>1 DEF FillOrKill
    <2>4. RemainderAccountedFor'
      BY <1>1, <1>2, <1>3, <2>1 DEF RemainderAccountedFor
    <2> QED BY <2>2, <2>3, <2>4 DEF Promises
  <1>4. CASE /\ incoming.tif = "GTC" /\ remaining > 0 /\ ~WouldRestCrossed
             /\ AddOrder(Remainder)
    <2>1. Remainder \in RestableOrder
      <3>1. remaining \in Quantity
        <4>1. remaining <= incoming.qty
          BY <1>1 DEF MatcherInv, MatcherTypeOK, Sweeping
        <4> QED BY <1>1, <1>4, <4>1, BookAssumption DEF Order, Quantity
      <3> QED BY <1>1, <1>4, <3>1 DEF Order, Remainder, RestableOrder
    <2>2. PICK o : o = Remainder /\ o \in RestableOrder /\ AddOrder(o)
      BY <1>4, <2>1
    <2>3. /\ o.order_id = incoming.order_id /\ o.qty = remaining
          /\ o.side = incoming.side /\ o.price = incoming.price
      BY <1>1, <2>2 DEF Remainder, Order
    <2>4. FillOrKill'
      BY <1>2, <1>4 DEF FillOrKill
    <2>5. ASSUME NEW s \in OrderSlots, Rests(o, s) PROVE Promises'
      <3>1. NothingLeftToTrade'
        <4>1. /\ Resting' = Resting \cup {s} /\ data'[s].side = incoming.side
              /\ \A t \in Resting : data'[t] = data[t]
          BY <2>3, <2>5 DEF Rests, Enters, DataOf
        <4>2. Opposite(incoming.side) # incoming.side
          BY DEF Opposite
        <4> QED BY <1>1, <1>2, <1>4, <4>1, <4>2
                DEF NothingLeftToTrade, Offered, Crosses, IsSelfTrade
      <3>2. RemainderAccountedFor'
        <4>1. PICK own : own = Queue'[o.side][o.price]
          OBVIOUS
        <4>2. /\ own # <<>>
              /\ own[Len(own)].order_id = o.order_id /\ own[Len(own)].qty = o.qty
          BY <1>1, <2>2, <2>5, <4>1, RestsLast
        <4>3. own = Queue'[incoming'.side][incoming'.price]
          BY <1>2, <2>3, <4>1
        <4> QED BY <1>2, <1>4, <2>3, <4>2, <4>3 DEF RemainderAccountedFor
      <3> QED BY <2>4, <3>1, <3>2 DEF Promises
    <2>6. CASE Refuses(o)
      <3>1. /\ UNCHANGED <<data, order_index>> /\ Resting' = Resting
            /\ order_pool' = order_pool /\ level_pool' = level_pool
            /\ \/ order_pool = {} /\ order_pool_dry' = TRUE
               \/ level_pool = {} /\ level_pool_dry' = TRUE
        BY <1>1, <2>3, <2>6 DEF Refuses, orderVars, mapVars, Resting
      <3>2. NothingLeftToTrade'
        BY <1>1, <1>2, <1>4, <3>1 DEF NothingLeftToTrade, Offered, Crosses, IsSelfTrade
      <3>3. RemainderAccountedFor'
        BY <1>1, <1>2, <1>4, <3>1 DEF RemainderAccountedFor, Found
      <3> QED BY <2>4, <3>2, <3>3 DEF Promises
    <2> QED BY <1>1, <2>2, <2>5, <2>6, AddOrderRests
  <1> QED BY <1>3, <1>4 DEF FinishMatch

(* Every step keeps the promises.                                          *)
LEMMA PromisesStep ==
  ASSUME MatcherInv, MatcherInv', LevelEntered, SweepInv, CallClean, Promises, [Next]_vars
  PROVE  Promises'
PROOF
  <1>1. CASE UNCHANGED vars
    BY <1>1, PromisesStutter
  <1>2. CASE Call \/ SweepStep \/ Return
    <2>1. pc' # "returned"
      BY <1>2, SweepTrades DEF Call, Submit, Cancel, Replace, Return, Sweep
    <2> QED BY <2>1 DEF Promises, NothingLeftToTrade, FillOrKill, RemainderAccountedFor,
                        Returned
  <1> QED BY <1>1, <1>2, PromisesRefused, PromisesFinished DEF Next, Step, SweepStep

(* Nothing has been promised in the initial state.                         *)
LEMMA PromisesStart == Init => LevelEntered /\ SweepInv /\ CallClean /\ Promises
PROOF
  BY DEF Init, LevelEntered, SweepInv, Swept, Sweep, CallClean, Promises,
         NothingLeftToTrade, FillOrKill, RemainderAccountedFor, Returned

(* The invariants of match() that need no record of the past.              *)
THEOREM PromisesKept ==
  Spec => [](LevelEntered /\ SweepInv /\ CallClean /\ Promises)
PROOF
  <1>1. /\ MatcherInv /\ MatcherInv' /\ LevelEntered /\ SweepInv /\ CallClean /\ Promises
        /\ [Next]_vars
        => LevelEntered' /\ SweepInv' /\ CallClean' /\ Promises'
    BY LevelEnteredStep, SweepInvStep, CallCleanStep, PromisesStep
  <1> QED BY <1>1, PromisesStart, MatcherInductive, PTL DEF Spec

(* NothingLeftToTrade: when match() returns with a remainder, and was not  *)
(* refused as a fill-or-kill order or for its id, what still crosses in    *)
(* the book belongs to the client itself.                                  *)
THEOREM NothingLeft == Spec => []NothingLeftToTrade
PROOF
  BY PromisesKept, PTL DEF Promises

(* FillOrKill: a fill-or-kill order is filled in full or trades nothing,   *)
(* the dry run of available_qty() and the sweep after it agreeing in both  *)
(* modes.                                                                  *)
THEOREM FilledOrKilled == Spec => []FillOrKill
PROOF
  BY PromisesKept, PTL DEF Promises

(* RemainderAccountedFor: the remainder of a GTC order rests last in its   *)
(* queue, unless an own order is in the way or a pool has run dry and says *)
(* so; no other order ever rests.                                          *)
THEOREM RemainderAccounted == Spec => []RemainderAccountedFor
PROOF
  BY PromisesKept, PTL DEF Promises
-----------------------------------------------------------------------------
(* The sweep's progress: how many orders and levels are ahead of it.       *)

(* The walk from the current order passes each pending one once.           *)
AheadSeen ==
  resting \in OrdersAt(level) /\ level \in InUse =>
    /\ IsFiniteSet(Pending) /\ Cardinality(Pending) \in Nat
    /\ OrdersAhead(resting) = Cardinality(Pending)
    /\ OrdersAhead(resting) <= Cardinality(OrderSlots)
    /\ resting \in Pending

(* What is ahead in the level under the invariant, as one named fact.      *)
LEMMA AheadView == BookInv => AheadSeen
PROOF
  <1> SUFFICES ASSUME BookInv, resting \in OrdersAt(level), level \in InUse
               PROVE  /\ IsFiniteSet(Pending) /\ Cardinality(Pending) \in Nat
                      /\ OrdersAhead(resting) = Cardinality(Pending)
                      /\ OrdersAhead(resting) <= Cardinality(OrderSlots)
                      /\ resting \in Pending
    BY DEF AheadSeen
  <1>1. PICK q, n, p : q = Walk[resting] /\ n = order_count[level] /\ p = Place(resting)
    OBVIOUS
  <1>2. /\ q \in Seq(OrdersAt(level)) /\ Len(q) = n - p + 1
        /\ \A i \in 1 .. Len(q) : Place(q[i]) = p + i - 1
    BY <1>1, WalksView DEF WalksSeen
  <1>3. OrdersAt(level) \subseteq Resting /\ OrdersAt(level) \subseteq OrderSlots /\ resting # Null
    BY BookAssumption DEF OrdersAt, Resting
  <1>4. \A t \in OrdersAt(level) : Place(t) \in 1 .. n
    <2>1. BookTypeOK /\ IndexExact
      BY DEF BookInv
    <2>2. PICK pos \in [OrderSlots -> Nat] : pos = Numbering /\ Numbers(pos)
      BY NumberingNumbers
    <2> QED BY <1>1, <2>1, <2>2, Neighbours DEF Place, OrdersAt
  <1>5. n \in Nat /\ p \in 1 .. n /\ Len(q) \in Nat
    <2>1. n \in Nat
      BY <1>1 DEF BookInv, BookTypeOK, InUse
    <2> QED BY <1>1, <1>2, <1>4, <2>1, LenProperties
  <1>6. \A s, t \in OrdersAt(level) : Place(s) = Place(t) => s = t
    BY PlacesView DEF PlacesSeen, OrdersAt
  <1>7. Pending = {t \in OrdersAt(level) : p <= Place(t)}
    BY <1>1, <1>3 DEF Pending
  <1> DEFINE f == [i \in 1 .. Len(q) |-> q[i]]
  <1>8. f \in Bijection(1 .. Len(q), Pending)
    <2>1. \A i \in 1 .. Len(q) : q[i] \in OrdersAt(level) /\ Place(q[i]) = p + i - 1
      BY <1>2
    <2>2. f \in [1 .. Len(q) -> Pending]
      BY <1>5, <1>7, <2>1
    <2>3. \A i, j \in 1 .. Len(q) : f[i] = f[j] => i = j
      BY <1>5, <2>1
    <2>4. ASSUME NEW t \in Pending PROVE \E i \in 1 .. Len(q) : f[i] = t
      <3>1. t \in OrdersAt(level) /\ p <= Place(t) /\ Place(t) \in 1 .. n
        BY <1>4, <1>7
      <3>2. Place(t) - p + 1 \in 1 .. Len(q)
        BY <1>2, <1>5, <3>1
      <3>3. Place(q[Place(t) - p + 1]) = Place(t)
        BY <1>5, <2>1, <3>1, <3>2
      <3> QED BY <1>6, <2>1, <3>1, <3>2, <3>3
    <2> HIDE DEF f
    <2> QED BY <2>2, <2>3, <2>4 DEF Bijection, Injection, Surjection, IsInjective
  <1>9. IsFiniteSet(Pending) /\ Cardinality(Pending) = Len(q)
    <2> HIDE DEF f
    <2>1. IsFiniteSet(1 .. Len(q)) /\ Cardinality(1 .. Len(q)) = Len(q)
      <3>1. \A m \in Nat : IsFiniteSet(1 .. m) /\ Cardinality(1 .. m) = m
        BY FS_Interval
      <3> QED BY <1>5, <3>1, Zenon
    <2>2. ExistsBijection(1 .. Len(q), Pending)
      BY <1>8 DEF ExistsBijection
    <2> QED BY <2>1, <2>2, FS_Bijection
  <1>10. Cardinality(Pending) <= Cardinality(OrderSlots)
    <2>1. Pending \subseteq OrderSlots
      BY <1>3 DEF Pending
    <2> QED BY <2>1, BookAssumption, FS_Subset
  <1>11. resting \in Pending
    BY <1>1, <1>5, <1>7
  <1> QED BY <1>1, <1>5, <1>9, <1>10, <1>11 DEF OrdersAhead

(* The same after a step: the lemma for the primed state.                  *)
LEMMA AheadAfter == BookInv' => AheadSeen'
PROOF
  BY AheadView, PTL

(* Nothing is ahead of a walk that has come to its end.                    *)
LEMMA NoneAhead ==
  ASSUME BookInv PROVE OrdersAhead(Null) = 0
PROOF
  BY WalksView, EmptySeq DEF WalksSeen, OrdersAhead

(* The levels from l on are finitely many, no more than there are slots;   *)
(* the level the sweep goes on to has fewer.                               *)
LEMMA LevelsAheadIs ==
  ASSUME BookInv, Opposite(incoming.side) \in Side, NEW l
  PROVE  /\ LevelsAhead(l) \in Nat
         /\ LevelsAhead(l) <= Cardinality(LevelSlots)
         /\ Reached(l) => LevelsAhead(Following(l)) + 1 <= LevelsAhead(l)
PROOF
  <1>1. PICK opp : opp = Opposite(incoming.side) /\ opp \in Side
    OBVIOUS
  <1> DEFINE from(m) == {p \in Mapped(opp) : ~Better(opp, p, level_price[m])}
  <1>2. \A m : LevelsAhead(m) = IF m = Null THEN 0 ELSE Cardinality(from(m))
    BY <1>1 DEF LevelsAhead
  <1>3. IsFiniteSet(Mapped(opp)) /\ Mapped(opp) \subseteq Int
    BY <1>1, MappedPrices
  <1>4. /\ IsFiniteSet(LevelSlots) /\ Cardinality(LevelSlots) \in Nat
        /\ Cardinality(Mapped(opp)) <= Cardinality(LevelSlots)
    <2> DEFINE g == [p \in Mapped(opp) |-> price_map[opp][p]]
    <2>1. ASSUME NEW p \in Mapped(opp)
          PROVE  price_map[opp][p] \in LevelSlots /\ level_price[price_map[opp][p]] = p
      <3>1. PICK s \in Resting : data[s].side = opp /\ data[s].price = p
        BY <1>1, MappedPrices
      <3>2. price_map[opp][p] \in InUse /\ level_price[price_map[opp][p]] = p
        BY <3>1, OrdersView DEF OrdersSeen
      <3> QED BY <3>2 DEF InUse
    <2>2. g \in [Mapped(opp) -> LevelSlots]
      BY <2>1
    <2>3. \A p, r \in Mapped(opp) : g[p] = g[r] => p = r
      BY <2>1
    <2> HIDE DEF g
    <2>4. g \in Injection(Mapped(opp), LevelSlots)
      BY <2>2, <2>3 DEF Injection, IsInjective
    <2> QED BY <2>4, BookAssumption, FS_Injection, FS_CardinalityType
  <1>5. ASSUME NEW m PROVE /\ IsFiniteSet(from(m)) /\ Cardinality(from(m)) \in Nat
                           /\ Cardinality(from(m)) <= Cardinality(LevelSlots)
    <2>1. IsFiniteSet(from(m)) /\ Cardinality(from(m)) <= Cardinality(Mapped(opp))
      <3>1. from(m) \subseteq Mapped(opp)
        OBVIOUS
      <3> HIDE DEF from
      <3> QED BY <1>3, <3>1, FS_Subset
    <2>2. Cardinality(from(m)) \in Nat /\ Cardinality(Mapped(opp)) \in Nat
      BY <1>3, <2>1, FS_CardinalityType
    <2> HIDE DEF from
    <2> QED BY <1>4, <2>1, <2>2
  <1>6. ASSUME Reached(l) PROVE LevelsAhead(Following(l)) + 1 <= LevelsAhead(l)
    <2>1. PICK n : n = Following(l)
      OBVIOUS
    <2>2. OfSide(l, opp) /\ l # Null /\ l \in InUse
      BY <1>1, <1>6, LevelsView DEF Reached, OfSide, LevelsSeen
    <2>3. PICK t \in Resting : LevelOf(t) = l /\ data[t].side = opp
      BY <2>2, LevelsView DEF LevelsSeen, OfSide, OrdersAt
    <2>4. level_price[l] \in Mapped(opp) /\ level_price[l] \in Int
      BY <1>1, <1>3, <2>3, OrdersView, MappedPrices DEF OrdersSeen
    <2>5. level_price[l] \in from(l)
      BY <2>4 DEF Better
    <2>6. CASE n = Null
      <3>1. Cardinality(from(l)) # 0
        <4> HIDE DEF from
        <4> QED BY <1>5, <2>5, FS_EmptySet
      <3> HIDE DEF from
      <3> QED BY <1>2, <1>5, <2>1, <2>2, <2>6, <3>1
    <2>7. CASE n # Null
      <3>1. /\ OfSide(n, opp) /\ Better(opp, level_price[l], level_price[n])
        BY <1>1, <2>1, <2>2, <2>7, NextLevelIs DEF Following
      <3>2. level_price[n] \in Int
        BY <3>1, LevelsView, BookAssumption DEF LevelsSeen, OfSide
      <3>3. from(n) \subseteq from(l) \ {level_price[l]}
        BY <1>1, <1>3, <2>4, <3>1, <3>2 DEF Better, Side
      <3>4. Cardinality(from(l) \ {level_price[l]}) = Cardinality(from(l)) - 1
        <4> HIDE DEF from
        <4> QED BY <1>5, <2>5, FS_RemoveElement
      <3>5. Cardinality(from(n)) <= Cardinality(from(l) \ {level_price[l]})
        <4> HIDE DEF from
        <4>1. IsFiniteSet(from(l) \ {level_price[l]})
          BY <1>5, FS_RemoveElement
        <4> QED BY <3>3, <4>1, FS_Subset
      <3> HIDE DEF from
      <3> QED BY <1>2, <1>5, <2>1, <2>2, <2>7, <3>4, <3>5
    <2> QED BY <2>6, <2>7
  <1> HIDE DEF from
  <1> QED BY <1>2, <1>4, <1>5, <1>6

(* The levels ahead of one that is kept do not become more while the sweep *)
(* works on another.                                                       *)
LEMMA LevelsAheadKept ==
  ASSUME MatcherInv, MatcherInv', LevelEntered, SweepStep, NEW l, l = Null \/ l \in InUse'
  PROVE  LevelsAhead(l)' \in Nat /\ LevelsAhead(l)' <= LevelsAhead(l)
PROOF
  <1>1. /\ NothingMoves /\ incoming' = incoming /\ BookInv /\ BookInv'
        /\ incoming \in Order
    BY SweepMovesNothing, SweepTrades DEF MatcherInv, MatcherTypeOK, Sweep
  <1>2. PICK opp : opp = Opposite(incoming.side) /\ opp \in Side
    BY DEF Opposite, Side
  <1>3. CASE l = Null
    BY <1>3 DEF LevelsAhead
  <1>4. CASE l # Null
    <2>1. level_price'[l] = level_price[l]
      BY <1>1, <1>4 DEF NothingMoves
    <2>2. Mapped(opp)' \subseteq Mapped(opp)
      <3>1. ASSUME NEW p \in Mapped(opp)' PROVE p \in Mapped(opp)
        <4>1. p \in Prices /\ price_map'[opp][p] # Null
          BY <3>1 DEF Mapped
        <4>2. PICK s \in Resting' : data'[s].side = opp /\ data'[s].price = p
          BY <1>1, <1>2, <4>1, ViewAfter DEF LevelsSeen
        <4>3. s \in Resting /\ data[s].side = opp /\ data[s].price = p
          BY <1>1, <4>2 DEF NothingMoves
        <4> QED BY <1>1, <1>2, <4>3, MappedPrices
      <3> QED BY <3>1
    <2>3. IsFiniteSet(Mapped(opp))
      BY <1>1, <1>2, MappedPrices
    <2>4. PICK S, T : /\ S = {p \in Mapped(opp) : ~Better(opp, p, level_price[l])}
                      /\ T = {p \in Mapped(opp)' : ~Better(opp, p, level_price[l])}
      OBVIOUS
    <2>5. T \subseteq S /\ IsFiniteSet(S) /\ S \subseteq Mapped(opp)
      BY <2>2, <2>3, <2>4, FS_Subset
    <2>6. IsFiniteSet(T) /\ Cardinality(T) <= Cardinality(S) /\ Cardinality(T) \in Nat
      BY <2>5, FS_Subset, FS_CardinalityType
    <2>7. LevelsAhead(l) = Cardinality(S)
      BY <1>2, <1>4, <2>4 DEF LevelsAhead
    <2>8. LevelsAhead(l)' = Cardinality(T)
      BY <1>1, <1>2, <1>4, <2>1, <2>4 DEF LevelsAhead, Better
    <2> QED BY <2>6, <2>7, <2>8
  <1> QED BY <1>3, <1>4

(* One order fewer is ahead after each that has been visited.              *)
LEMMA OrderPassed ==
  ASSUME MatcherInv, MatcherInv', LevelEntered, SkipSelf \/ FillResting \/ PassOver \/ FillShare
  PROVE  /\ OrdersAhead(resting)' \in Nat
         /\ OrdersAhead(resting) = OrdersAhead(resting)' + 1
PROOF
  <1>1. /\ BookInv /\ BookInv' /\ resting # Null /\ resting \in OrdersAt(level)
        /\ level \in InUse /\ resting \in Resting /\ LevelOf(resting) = level
        /\ level' = level /\ resting' = next_[resting]
        /\ pc' \in {"visit", "share"}
    BY DEF SkipSelf, FillResting, PassOver, FillShare, MatcherInv, PointersSafe, Reached, OfSide,
           OrdersAt
  <1>2. Pending' = Pending \ {resting}
    <2>1. CASE SkipSelf \/ PassOver
      BY <1>1, <2>1, PendingPasses DEF SkipSelf, PassOver
    <2>2. CASE FillResting
      <3>1. CASE Quiet
        BY <1>1, <3>1, PendingPasses DEF Quiet
      <3>2. ASSUME NEW s, NEW n, Trades(s, n), Turn(s) PROVE <1>2!:
        <4>1. s = resting
          BY <2>2, <3>2 DEF Turn, FillResting
        <4> QED BY <1>1, <3>2, <4>1, PendingTrades
      <3> QED BY <2>2, <3>1, <3>2, SweepTrades DEF SweepStep
    <2>3. CASE FillShare
      <3>1. UNCHANGED bookVars \/ \E n : Trades(resting, n)
        BY <2>3, ServeIs
      <3> QED BY <1>1, <3>1, PendingPasses, PendingTrades
    <2> QED BY <2>1, <2>2, <2>3
  <1>3. /\ OrdersAhead(resting) = Cardinality(Pending)
        /\ IsFiniteSet(Pending) /\ Cardinality(Pending) \in Nat /\ resting \in Pending
    BY <1>1, AheadView DEF AheadSeen
  <1>4. Cardinality(Pending \ {resting}) = Cardinality(Pending) - 1
    BY <1>3, FS_RemoveElement
  <1>5. IsFiniteSet(Pending \ {resting}) /\ Cardinality(Pending \ {resting}) \in Nat
    BY <1>3, FS_RemoveElement, FS_CardinalityType
  <1>6. OrdersAhead(resting)' = Cardinality(Pending \ {resting})
    <2>1. CASE resting' = Null
      <3>1. Pending' = {}
        BY <2>1 DEF Pending
      <3>2. OrdersAhead(resting)' = 0
        BY <1>1, <2>1, WalksAfter, EmptySeq DEF WalksSeen, OrdersAhead
      <3> QED BY <1>2, <3>1, <3>2, FS_EmptySet
    <2>2. CASE resting' # Null
      <3>1. resting' \in OrdersAt(level)' /\ level' \in InUse'
        BY <1>1, <2>2 DEF MatcherInv, PointersSafe, Reached, OfSide
      <3> QED BY <1>1, <1>2, <3>1, AheadAfter DEF AheadSeen
    <2> QED BY <2>1, <2>2
  <1> QED BY <1>3, <1>4, <1>5, <1>6

(* Inside the sweep: a level weighs more than all its orders.              *)
InSweep(levels, orders) == 2 + levels * (Cardinality(OrderSlots) + 2) + orders

(* What the distance is, place by place.                                   *)
LEMMA DistanceIs ==
  /\ pc = "match" => Distance = InSweep(Cardinality(LevelSlots) + 1, 0)
  /\ pc = "level" => Distance = InSweep(LevelsAhead(level), 1)
  /\ pc \in {"visit", "share"} =>
       Distance = InSweep(LevelsAhead(next_level), 2 + OrdersAhead(resting))
  /\ pc = "rest" => Distance = 2
  /\ pc = "returned" => Distance = 1
  /\ pc = "idle" => Distance = 0
PROOF
  BY DEF Distance, InSweep

(* The same after a step: the lemma for the primed state.                  *)
LEMMA DistanceAfter ==
  /\ pc' = "level" => Distance' = InSweep(LevelsAhead(level)', 1)
  /\ pc' \in {"visit", "share"} =>
       Distance' = InSweep(LevelsAhead(next_level)', 2 + OrdersAhead(resting)')
  /\ pc' = "rest" => Distance' = 2
  /\ pc' = "returned" => Distance' = 1
  /\ pc' = "idle" => Distance' = 0
PROOF
  BY DEF Distance, InSweep, LevelsAhead, OrdersAhead

(* One level fewer outweighs the orders of the next; the same levels with  *)
(* fewer orders are nearer as well.                                        *)
LEMMA Nearer ==
  ASSUME NEW a \in Nat, NEW b \in Nat, NEW x \in Nat, NEW y \in Nat
  PROVE  /\ InSweep(a, x) \in Nat
         /\ a + 1 <= b /\ x <= Cardinality(OrderSlots) + 2 /\ y > 0
              => InSweep(a, x) < InSweep(b, y)
         /\ a + 1 <= b /\ x < Cardinality(OrderSlots) + 2 => InSweep(a, x) < InSweep(b, y)
         /\ a <= b /\ x < y => InSweep(a, x) < InSweep(b, y)
         /\ InSweep(a, x) >= 2 + x
PROOF
  <1>1. PICK c \in Nat : c = Cardinality(OrderSlots) + 2
    BY BookAssumption, FS_CardinalityType
  <1>2. a * c \in Nat /\ b * c \in Nat
    OBVIOUS
  <1>3. a <= b => a * c <= b * c
    OBVIOUS
  <1>4. a + 1 <= b => a * c + c <= b * c
    OBVIOUS
  <1>5. InSweep(a, x) = 2 + a * c + x /\ InSweep(b, y) = 2 + b * c + y
    BY <1>1 DEF InSweep
  <1> HIDE DEF InSweep
  <1>6. \A ac, bc \in Nat :
          /\ (a <= b => ac <= bc) /\ (a + 1 <= b => ac + c <= bc)
          => /\ 2 + ac + x \in Nat /\ 2 + ac + x >= 2 + x
             /\ a + 1 <= b /\ x <= c /\ y > 0 => 2 + ac + x < 2 + bc + y
             /\ a + 1 <= b /\ x < c => 2 + ac + x < 2 + bc + y
             /\ a <= b /\ x < y => 2 + ac + x < 2 + bc + y
    OBVIOUS
  <1> QED BY <1>1, <1>2, <1>3, <1>4, <1>5, <1>6

(* Every step of match() brings it nearer to its return.                   *)
LEMMA StepAdvances ==
  ASSUME MatcherInv, MatcherInv', LevelEntered, Step PROVE Distance' < Distance
PROOF
  <1>1. BookInv /\ BookInv'
    BY DEF MatcherInv
  <1>2. pc # "idle" => incoming \in Order /\ Opposite(incoming.side) \in Side
    BY DEF MatcherInv, MatcherTypeOK, Opposite, Side
  <1>3. Cardinality(OrderSlots) \in Nat /\ Cardinality(LevelSlots) \in Nat
    BY BookAssumption, FS_CardinalityType
  <1>4. CASE BeginMatch
    <2>1. pc = "match" /\ UNCHANGED <<bookVars, incoming>>
      BY <1>4 DEF BeginMatch
    <2>2. Distance = InSweep(Cardinality(LevelSlots) + 1, 0)
      BY <2>1, DistanceIs
    <2>3. CASE pc' = "level"
      <3>1. PICK n : n = LevelsAhead(level')
        OBVIOUS
      <3>2. n \in Nat /\ n <= Cardinality(LevelSlots)
        BY <1>1, <1>2, <2>1, <3>1, LevelsAheadIs
      <3>3. LevelsAhead(level)' = n
        BY <2>1, <3>1 DEF LevelsAhead, Mapped, Better, bookVars, levelVars, mapVars
      <3>4. Distance' = InSweep(n, 1)
        BY <2>3, <3>3, DistanceAfter
      <3>5. PICK c \in Nat : c = Cardinality(LevelSlots) + 1 /\ n + 1 <= c
        BY <1>3, <3>2
      <3>6. PICK y \in Nat : y = 1 /\ y < Cardinality(OrderSlots) + 2
        BY <1>3
      <3>7. PICK z \in Nat : z = 0
        OBVIOUS
      <3>8. InSweep(n, y) < InSweep(c, z)
        BY <3>2, <3>5, <3>6, <3>7, Nearer
      <3> QED BY <2>2, <3>4, <3>5, <3>6, <3>7, <3>8
    <2>4. CASE pc' = "returned"
      <3>1. Distance' = 1
        BY <2>4, DistanceAfter
      <3>2. PICK c \in Nat : c = Cardinality(LevelSlots) + 1
        BY <1>3
      <3>3. PICK z \in Nat : z = 0
        OBVIOUS
      <3>4. InSweep(c, z) \in Nat /\ InSweep(c, z) >= 2 + z
        BY <3>2, <3>3, Nearer
      <3> QED BY <2>2, <3>1, <3>2, <3>3, <3>4
    <2> QED BY <1>4, <2>3, <2>4 DEF BeginMatch
  <1>5. CASE EnterLevel \/ (EnterLevelProRata /\ pc' = "share")
    <2>1. /\ pc = "level" /\ SweepGoesOn /\ UNCHANGED <<bookVars, incoming, level>>
          /\ next_level' = Following(level) /\ pc' \in {"visit", "share"}
          /\ resting' # Null
      <3>1. /\ pc = "level" /\ SweepGoesOn /\ UNCHANGED <<bookVars, incoming, level>>
            /\ next_level' = Following(level) /\ pc' \in {"visit", "share"}
            /\ resting' = head_[level]
        BY <1>5 DEF EnterLevel, EnterLevelProRata
      <3>2. level \in InUse
        BY <3>1 DEF MatcherInv, PointersSafe, SweepGoesOn, Reached, OfSide
      <3>3. head_[level] # Null
        BY <1>1, <3>2, PlacesView, BookAssumption DEF PlacesSeen, OrdersAt, Resting
      <3> QED BY <3>1, <3>3
    <2>2. Reached(level)
      BY <2>1 DEF MatcherInv, PointersSafe, SweepGoesOn
    <2>3. PICK a, b : a = LevelsAhead(Following(level)) /\ b = LevelsAhead(level)
      OBVIOUS
    <2>4. a \in Nat /\ b \in Nat /\ a + 1 <= b
      BY <1>1, <1>2, <2>1, <2>2, <2>3, LevelsAheadIs
    <2>5. LevelsAhead(next_level)' = a
      BY <2>1, <2>3 DEF LevelsAhead, Mapped, Better, bookVars, levelVars, mapVars
    <2>6. OrdersAhead(resting)' \in Nat /\ OrdersAhead(resting)' <= Cardinality(OrderSlots)
      <3>1. resting' \in OrdersAt(level)' /\ level' \in InUse'
        BY <2>1 DEF MatcherInv, PointersSafe, Reached, OfSide
      <3> QED BY <1>1, <3>1, AheadAfter DEF AheadSeen
    <2>7. PICK x \in Nat : x = 2 + OrdersAhead(resting)' /\ x <= Cardinality(OrderSlots) + 2
      BY <1>3, <2>6
    <2>8. Distance' = InSweep(a, x) /\ Distance = InSweep(b, 1)
      BY <2>1, <2>3, <2>5, <2>7, DistanceIs, DistanceAfter
    <2> QED BY <2>4, <2>7, <2>8, Nearer
  <1>6. CASE EnterLevelProRata /\ pc' # "share"
    <2>1. /\ pc = "level" /\ pc' = "level" /\ SweepGoesOn /\ UNCHANGED <<bookVars, incoming>>
          /\ level' = Following(level)
      BY <1>6 DEF EnterLevelProRata
    <2>2. Reached(level)
      BY <2>1 DEF MatcherInv, PointersSafe, SweepGoesOn
    <2>3. PICK a, b : a = LevelsAhead(Following(level)) /\ b = LevelsAhead(level)
      OBVIOUS
    <2>4. a \in Nat /\ b \in Nat /\ a + 1 <= b
      BY <1>1, <1>2, <2>1, <2>2, <2>3, LevelsAheadIs
    <2>5. LevelsAhead(level)' = a
      BY <2>1, <2>3 DEF LevelsAhead, Mapped, Better, bookVars, levelVars, mapVars
    <2>6. Distance' = InSweep(a, 1) /\ Distance = InSweep(b, 1)
      BY <2>1, <2>3, <2>5, DistanceIs, DistanceAfter
    <2> QED BY <1>3, <2>4, <2>6, Nearer
  <1>7. CASE SkipSelf \/ FillResting \/ PassOver \/ FillShare
    <2>1. /\ pc \in {"visit", "share"} /\ pc' \in {"visit", "share"} /\ next_level' = next_level
      BY <1>7 DEF SkipSelf, FillResting, PassOver, FillShare
    <2>2. next_level' = Null \/ next_level' \in InUse'
      BY <2>1 DEF MatcherInv, PointersSafe, Reached, OfSide
    <2>3. PICK a, b : a = LevelsAhead(next_level)' /\ b = LevelsAhead(next_level)
      OBVIOUS
    <2>4. a \in Nat /\ b \in Nat /\ a <= b
      <3>1. b \in Nat
        BY <1>1, <1>2, <2>1, <2>3, LevelsAheadIs
      <3>2. LevelsAhead(next_level') = b
        BY <2>1, <2>3
      <3>3. PICK l : l = next_level'
        OBVIOUS
      <3>4. LevelsAhead(l)' \in Nat /\ LevelsAhead(l)' <= LevelsAhead(l)
        BY <1>7, <2>2, <3>3, LevelsAheadKept DEF SweepStep
      <3>5. LevelsAhead(l)' = a
        BY <2>3, <3>3 DEF LevelsAhead
      <3> QED BY <3>1, <3>2, <3>3, <3>4, <3>5
    <2>5. PICK x, y \in Nat : /\ x = 2 + OrdersAhead(resting)' /\ y = 2 + OrdersAhead(resting)
                             /\ x < y
      BY <1>7, OrderPassed
    <2>6. Distance' = InSweep(a, x) /\ Distance = InSweep(b, y)
      BY <2>1, <2>3, <2>5, DistanceIs, DistanceAfter
    <2> QED BY <2>4, <2>5, <2>6, Nearer
  <1>8. CASE LeaveLevel \/ FillLargest
    <2>1. /\ pc \in {"visit", "share"} /\ pc' = "level" /\ level' = next_level
          /\ next_level' = next_level
      BY <1>8 DEF LeaveLevel, FillLargest
    <2>2. level' = Null \/ level' \in InUse'
      BY <2>1 DEF MatcherInv, PointersSafe, Reached, OfSide
    <2>3. PICK a, b : a = LevelsAhead(level)' /\ b = LevelsAhead(next_level)
      OBVIOUS
    <2>4. a \in Nat /\ b \in Nat /\ a <= b
      <3>1. b \in Nat
        BY <1>1, <1>2, <2>1, <2>3, LevelsAheadIs
      <3>2. PICK l : l = next_level
        OBVIOUS
      <3>3. LevelsAhead(l)' \in Nat /\ LevelsAhead(l)' <= LevelsAhead(l)
        BY <1>8, <2>1, <2>2, <3>2, LevelsAheadKept DEF SweepStep
      <3>4. LevelsAhead(l)' = a
        BY <2>1, <2>3, <3>2 DEF LevelsAhead
      <3> QED BY <2>3, <3>1, <3>2, <3>3, <3>4
    <2>5. OrdersAhead(resting) \in Nat
      <3>1. CASE resting = Null
        BY <1>1, <3>1, NoneAhead
      <3>2. CASE resting # Null
        <4>1. resting \in OrdersAt(level) /\ level \in InUse
          BY <2>1, <3>2 DEF MatcherInv, PointersSafe, Reached, OfSide
        <4> QED BY <1>1, <4>1, AheadView DEF AheadSeen
      <3> QED BY <3>1, <3>2
    <2>6. PICK y \in Nat : y = 2 + OrdersAhead(resting) /\ 1 < y
      BY <2>5
    <2>7. Distance' = InSweep(a, 1) /\ Distance = InSweep(b, y)
      BY <2>1, <2>3, <2>6, DistanceIs, DistanceAfter
    <2> QED BY <2>4, <2>6, <2>7, Nearer
  <1>9. CASE EndSweep
    <2>1. pc = "level" /\ pc' = "rest"
      BY <1>9 DEF EndSweep
    <2>2. PICK b : b = LevelsAhead(level)
      OBVIOUS
    <2>3. b \in Nat
      BY <1>1, <1>2, <2>1, <2>2, LevelsAheadIs
    <2>4. Distance' = 2 /\ Distance = InSweep(b, 1)
      BY <2>1, <2>2, DistanceIs, DistanceAfter
    <2>5. InSweep(b, 1) \in Nat /\ InSweep(b, 1) >= 2 + 1
      BY <2>3, Nearer
    <2> QED BY <2>4, <2>5
  <1>10. CASE FinishMatch
    BY <1>10, DistanceIs, DistanceAfter DEF FinishMatch
  <1>11. CASE Return
    BY <1>11, DistanceIs, DistanceAfter DEF Return
  <1> QED BY <1>4, <1>5, <1>6, <1>7, <1>8, <1>9, <1>10, <1>11 DEF Step

(* SweepAdvances: match() always returns, after no more steps than its     *)
(* distance says: the sweep leaves each order and each level behind for    *)
(* good (matcher.hpp, the loops of sweep_price_time(), pro_rata_sweep()    *)
(* and pro_rata_at_level()).                                               *)
THEOREM SweepAlwaysAdvances == Spec => SweepAdvances
PROOF
  <1>1. Init => LevelEntered
    BY DEF Init, LevelEntered
  <1>2. MatcherInv /\ MatcherInv' /\ LevelEntered /\ [Next]_vars => LevelEntered'
    BY LevelEnteredStep
  <1>3. MatcherInv /\ MatcherInv' /\ LevelEntered /\ [Next]_vars
          => [Step => Distance' < Distance]_vars
    BY StepAdvances
  <1> QED BY <1>1, <1>2, <1>3, MatcherInductive, PTL DEF Spec, SweepAdvances
-----------------------------------------------------------------------------
(* The fills match() reports. LedgerInv ties each order that rested when   *)
(* the call began to what the fills say of it (its quantity is what it had *)
(* less what its fills took, it is still in its place, or it is full and   *)
(* gone), and the fills add up to what the incoming order was given. Every *)
(* trade is then the first, in price and then in time, of those still to   *)
(* be had (PriorityInv).                                                   *)
(*                                                                         *)
(* In pro-rata mode the same makers are counted price by price. At the     *)
(* level being served, the makers served so far have at least their floor  *)
(* shares, and more only when the largest order and all older ones are     *)
(* full, and what they have got and what is still to be handed out add up  *)
(* to the level's fill quantity (SharesInv); the residual fill closes the  *)
(* level. The prices behind the sweep are fair (FairInv) and those it has  *)
(* not reached untouched (UntouchedInv).                                   *)

(* What a sequence of fills adds up to, for one maker and for all.         *)
FillRecord == [maker : OrderIds, qty : Nat]

FillQty(F) == [i \in DOMAIN F |-> F[i].qty]
FillsOf(F, id) == {i \in DOMAIN F : F[i].maker = id}

(* The folded sum of the quantities of some fills, as a Total.             *)
LEMMA FillSumIs ==
  ASSUME NEW F, NEW S \in SUBSET DOMAIN F, IsFiniteSet(S)
  PROVE  MapThenSumSet(LAMBDA i : F[i].qty, S) = Total(FillQty(F), S)
PROOF
  <1> DEFINE sums(g) ==
        g = [U \in SUBSET S |->
               IF U = {} THEN 0 ELSE F[Chosen(U)].qty + g[U \ {Chosen(U)}]]
  <1>1. MapThenSumSet(LAMBDA i : F[i].qty, S) = (CHOOSE g : sums(g))[S]
    BY Zenon DEF MapThenSumSet, MapThenFoldSet, Chosen
  <1>2. \A U \in SUBSET S : U # {} => F[Chosen(U)].qty = FillQty(F)[Chosen(U)]
    BY DEF Chosen, FillQty
  <1>3. \A g : sums(g) <=> Accumulates(g, FillQty(F), S)
    BY <1>2 DEF Accumulates
  <1>4. PICK g : Accumulates(g, FillQty(F), S)
    BY AccumulationExists
  <1>5. sums(CHOOSE h : sums(h))
    <2>1. \E h : sums(h)
      BY <1>3, <1>4
    <2> HIDE DEF sums
    <2> QED BY <2>1, Zenon
  <1>6. Accumulates(CHOOSE h : sums(h), FillQty(F), S)
    <2> HIDE DEF sums
    <2> QED BY <1>3, <1>5
  <1>7. S \in SUBSET S
    OBVIOUS
  <1> HIDE DEF sums
  <1> QED BY <1>1, <1>6, <1>7, TotalIs

(* The folds over `fills' are totals.                                      *)
FillsRead ==
  /\ \A id : FilledOf(id) = Total(FillQty(fills), FillsOf(fills, id))
  /\ MapThenSumSet(LAMBDA i : fills[i].qty, DOMAIN fills)
       = Total(FillQty(fills), DOMAIN fills)

FillsTyped == fills \in Seq(FillRecord)

(* FilledOf, which folds a LAMBDA over the fills, as a Total.              *)
LEMMA FilledOfIs == FillsTyped => FillsRead
PROOF
  <1> SUFFICES ASSUME fills \in Seq(FillRecord) PROVE FillsRead
    BY DEF FillsTyped
  <1>1. PICK F : F = fills
    OBVIOUS
  <1>2. DOMAIN F = 1 .. Len(F) /\ Len(F) \in Nat
    BY <1>1
  <1>3. IsFiniteSet(DOMAIN F)
    BY <1>2, FS_Interval
  <1>4. \A id : FillsOf(F, id) \in SUBSET DOMAIN F /\ IsFiniteSet(FillsOf(F, id))
    BY <1>3, FS_Subset DEF FillsOf
  <1>5. ASSUME NEW id PROVE FilledOf(id) = Total(FillQty(fills), FillsOf(fills, id))
    BY <1>1, <1>4, FillSumIs DEF FilledOf, FillsOf
  <1>6. DOMAIN F \in SUBSET DOMAIN F
    OBVIOUS
  <1>7. MapThenSumSet(LAMBDA i : fills[i].qty, DOMAIN fills)
          = Total(FillQty(fills), DOMAIN fills)
    BY <1>1, <1>3, <1>6, FillSumIs
  <1> QED BY <1>5, <1>7 DEF FillsRead

(* The same after a step: the lemma for the primed fills.                  *)
LEMMA FilledOfAfter == FillsTyped' => FillsRead'
PROOF
  BY FilledOfIs, PTL

(* One fill more.                                                          *)
Appended(F, e, G) ==
  /\ G \in Seq(FillRecord)
  /\ DOMAIN G = DOMAIN F \cup {Len(F) + 1} /\ G[Len(F) + 1] = e
  /\ \A i \in DOMAIN F : G[i] = F[i]
  /\ Total(FillQty(F), DOMAIN F) \in Int
  /\ Total(FillQty(G), DOMAIN G) = Total(FillQty(F), DOMAIN F) + e.qty
  /\ \A id : /\ Total(FillQty(F), FillsOf(F, id)) \in Int
             /\ Total(FillQty(G), FillsOf(G, id)) =
                  Total(FillQty(F), FillsOf(F, id)) + (IF e.maker = id THEN e.qty ELSE 0)

(* on_fill() is called once more: what the fills add up to, for one maker  *)
(* and for all of them, grows by that fill.                                *)
LEMMA FillAppended ==
  ASSUME NEW F \in Seq(FillRecord), NEW e \in FillRecord, NEW G, G = Append(F, e)
  PROVE  Appended(F, e, G)
PROOF
  <1>1. PICK n : n = Len(F) + 1 /\ n \in Nat
    OBVIOUS
  <1>2. DOMAIN F = 1 .. n - 1 /\ DOMAIN G = 1 .. n
    BY <1>1
  <1>3. /\ G \in Seq(FillRecord)
        /\ DOMAIN G = DOMAIN F \cup {n} /\ n \notin DOMAIN F
        /\ G[n] = e /\ \A i \in DOMAIN F : G[i] = F[i]
    BY <1>1, <1>2
  <1>4. IsFiniteSet(DOMAIN G) /\ IsFiniteSet(DOMAIN F)
    BY <1>1, <1>2, FS_Interval
  <1>5. \A i \in DOMAIN G : FillQty(G)[i] \in Int
    <2>1. \A i \in DOMAIN G : G[i] \in FillRecord
      <3>1. \A i \in 1 .. Len(G) : G[i] \in FillRecord
        BY <1>3
      <3> QED BY <1>3, <3>1
    <2> QED BY <2>1 DEF FillQty, FillRecord
  <1>6. /\ \A i \in DOMAIN F : FillQty(F)[i] = FillQty(G)[i]
        /\ FillQty(G)[n] = e.qty
    BY <1>3 DEF FillQty
  <1>7. e.qty \in Int
    BY DEF FillRecord
  <1>8. ASSUME NEW S \in SUBSET DOMAIN F
        PROVE  /\ Total(FillQty(F), S) = Total(FillQty(G), S)
               /\ Total(FillQty(F), S) \in Int
               /\ Total(FillQty(G), S \cup {n}) = Total(FillQty(F), S) + e.qty
    <2>1. IsFiniteSet(S)
      BY <1>4, FS_Subset
    <2>2. Total(FillQty(F), S) = Total(FillQty(G), S)
      BY <1>6, <2>1, TotalSame
    <2>3. S \in SUBSET DOMAIN G /\ n \in DOMAIN G \ S
      BY <1>3
    <2>4. /\ Total(FillQty(G), S) \in Int
          /\ Total(FillQty(G), S \cup {n}) = FillQty(G)[n] + Total(FillQty(G), S)
      BY <1>4, <1>5, <2>3, TotalAdd
    <2> QED BY <1>6, <1>7, <2>2, <2>4
  <1>9. /\ Total(FillQty(F), DOMAIN F) \in Int
        /\ Total(FillQty(G), DOMAIN G) = Total(FillQty(F), DOMAIN F) + e.qty
    BY <1>3, <1>8
  <1>10. ASSUME NEW id
         PROVE  /\ Total(FillQty(F), FillsOf(F, id)) \in Int
                /\ Total(FillQty(G), FillsOf(G, id)) =
                     Total(FillQty(F), FillsOf(F, id)) + (IF e.maker = id THEN e.qty ELSE 0)
    <2>1. FillsOf(F, id) \in SUBSET DOMAIN F
      BY DEF FillsOf
    <2>2. FillsOf(G, id) = IF e.maker = id THEN FillsOf(F, id) \cup {n} ELSE FillsOf(F, id)
      BY <1>3 DEF FillsOf
    <2>3. /\ Total(FillQty(F), FillsOf(F, id)) = Total(FillQty(G), FillsOf(F, id))
          /\ Total(FillQty(F), FillsOf(F, id)) \in Int
          /\ Total(FillQty(G), FillsOf(F, id) \cup {n}) =
               Total(FillQty(F), FillsOf(F, id)) + e.qty
      BY <1>8, <2>1
    <2>4. CASE e.maker = id
      BY <2>2, <2>3, <2>4
    <2>5. CASE e.maker # id
      <3>1. FillsOf(G, id) = FillsOf(F, id)
        BY <2>2, <2>5
      <3> QED BY <2>3, <2>5, <3>1
    <2> QED BY <2>4, <2>5
  <1> QED BY <1>1, <1>3, <1>9, <1>10 DEF Appended

(* No fill adds up to nothing.                                             *)
LEMMA NoFills ==
  /\ <<>> \in Seq(FillRecord)
  /\ Total(FillQty(<<>>), DOMAIN <<>>) = 0
  /\ \A id : Total(FillQty(<<>>), FillsOf(<<>>, id)) = 0
PROOF
  <1>1. <<>> \in Seq(FillRecord)
    OBVIOUS
  <1>2. DOMAIN <<>> = {} /\ \A id : FillsOf(<<>>, id) = {}
    BY DEF FillsOf
  <1>3. Total(FillQty(<<>>), {}) = 0
    BY TotalEmpty
  <1> QED BY <1>1, <1>2, <1>3

-----------------------------------------------------------------------------
(* The orders that the queues showed when match() began, by side, price    *)
(* and place.                                                              *)
Record == {r \in [side : Side, price : Prices, place : Nat \ {0}] :
             r.place <= Len(before[r.side][r.price])}

Old(r) == before[r.side][r.price][r.place]

(* The resting order s is the one recorded there.                          *)
IsOf(s, r) ==
  /\ data[s].order_id = Old(r).order_id /\ data[s].client_id = Old(r).client_id
  /\ data[s].side = r.side /\ data[s].price = r.price

RecordsDistinct == \A q, r \in Record : Old(q).order_id = Old(r).order_id => q = r

RecordsTyped ==
  /\ \A side \in Side, p \in Prices : Len(before[side][p]) \in Nat
  /\ \A r \in Record : /\ Old(r).order_id \in OrderIds /\ Old(r).qty \in Nat \ {0}
                       /\ r.place <= Cardinality(OrderSlots)

(* The order rests with what its fills have left of it, if anything.       *)
Kept(r) ==
  LET id == Old(r).order_id
  IN  /\ FilledOf(id) \in Nat /\ FilledOf(id) <= Old(r).qty
      /\ FilledOf(id) = Old(r).qty => ~Found(id)
      /\ FilledOf(id) < Old(r).qty =>
           \E s \in Resting : IsOf(s, r) /\ qty[s] = Old(r).qty - FilledOf(id)

RecordsKept == \A r \in Record : Kept(r)

MayTrade(r) ==
  /\ r.side = Opposite(incoming.side) /\ Crosses(r.price, incoming)
  /\ Old(r).client_id # incoming.client_id

FillsFit ==
  /\ fills \in Seq(FillRecord)
  /\ incoming.qty = remaining + Total(FillQty(fills), DOMAIN fills)
  /\ \A i \in DOMAIN fills :
       \E r \in Record : MayTrade(r) /\ Old(r).order_id = fills[i].maker

(* Nothing else rests, and the orders of a level are in the order they     *)
(* were.                                                                   *)
AllRecorded == \A s \in Resting : \E r \in Record : IsOf(s, r)

OrderKept ==
  \A s, t \in Resting, q, r \in Record :
    /\ IsOf(s, q) /\ IsOf(t, r)
    /\ q.side = r.side /\ q.price = r.price /\ q.place < r.place
    => Place(s) < Place(t)

NotRecorded == \A r \in Record : Old(r).order_id # incoming.order_id

LedgerInv ==
  /\ pc \in Sweep \cup {"returned"} =>
       RecordsDistinct /\ RecordsTyped /\ RecordsKept /\ FillsFit
  /\ pc \in Sweep => AllRecorded /\ OrderKept /\ NotRecorded

(* When match() begins the ledger is even: nothing is filled, and every    *)
(* order is where it was.                                                  *)
LEMMA LedgerOpens ==
  ASSUME MatcherInv, CallClean, BeginMatch PROVE LedgerInv'
PROOF
  <1>1. /\ BookInv /\ UNCHANGED <<bookVars, incoming, fills>> /\ before' = Queue
        /\ fills' = <<>> /\ incoming \in Order /\ remaining' = incoming.qty
        /\ pc' \in {"returned", "level"}
        /\ pc' = "level" => ~Found(incoming.order_id)
    BY DEF MatcherInv, MatcherTypeOK, BeginMatch, Refused, CallClean
  <1>2. QueuesSeen /\ OrdersSeen /\ LevelsSeen
    BY <1>1, QueuesView, OrdersView, LevelsView
  <1>3. /\ Resting' = Resting /\ data' = data /\ qty' = qty /\ order_index' = order_index
        /\ \A s \in Resting : Place(s)' = Place(s)
    BY <1>1, SameBook
  <1>4. ASSUME NEW r \in Record'
        PROVE  \E s \in Resting : /\ data[s].side = r.side /\ data[s].price = r.price
                                  /\ Place(s) = r.place /\ Old(r)' = OrderAt(s)
    <2>1. /\ r.side \in Side /\ r.price \in Prices
          /\ r.place \in 1 .. Len(Queue[r.side][r.price])
          /\ Old(r)' = Queue[r.side][r.price][r.place]
      BY <1>1, <1>2 DEF Record, Old, QueuesSeen
    <2> QED BY <1>2, <2>1 DEF QueuesSeen
  <1>5. ASSUME NEW s \in Resting
        PROVE  \E r \in Record' : /\ data[s].side = r.side /\ data[s].price = r.price
                                  /\ Place(s) = r.place /\ Old(r)' = OrderAt(s)
    <2>1. PICK side \in Side, p \in Prices : side = data[s].side /\ p = data[s].price
      BY <1>2 DEF OrdersSeen, OrderData
    <2>2. /\ Place(s) \in 1 .. Len(Queue[side][p]) /\ Len(Queue[side][p]) \in Nat
          /\ Queue[side][p][Place(s)] = OrderAt(s)
      BY <1>2, <2>1 DEF QueuesSeen
    <2>3. PICK r : r = [side |-> side, price |-> p, place |-> Place(s)]
      OBVIOUS
    <2>4. r.side = side /\ r.price = p /\ r.place = Place(s)
      BY <2>3
    <2>5. Place(s) \in Nat \ {0} /\ Place(s) <= Len(Queue[side][p])
      BY <2>2
    <2>6. r \in [side : Side, price : Prices, place : Nat \ {0}]
      BY <2>3, <2>5
    <2>7. r \in Record' /\ Old(r)' = OrderAt(s)
      BY <1>1, <2>2, <2>4, <2>5, <2>6 DEF Record, Old
    <2> QED BY <2>1, <2>4, <2>7
  <1>6. \A s : OrderAt(s).order_id = data[s].order_id /\ OrderAt(s).qty = qty[s]
               /\ OrderAt(s).client_id = data[s].client_id
    BY DEF OrderAt
  <1>7. RecordsDistinct'
    <2>1. SUFFICES ASSUME NEW q \in Record', NEW r \in Record',
                          Old(q)'.order_id = Old(r)'.order_id
                   PROVE  q = r
      BY DEF RecordsDistinct
    <2>2. PICK s \in Resting : /\ data[s].side = q.side /\ data[s].price = q.price
                               /\ Place(s) = q.place /\ Old(q)' = OrderAt(s)
      BY <1>4
    <2>3. PICK t \in Resting : /\ data[t].side = r.side /\ data[t].price = r.price
                               /\ Place(t) = r.place /\ Old(r)' = OrderAt(t)
      BY <1>4
    <2>4. s = t
      BY <1>2, <1>6, <2>1, <2>2, <2>3 DEF LevelsSeen
    <2>5. q.side = r.side /\ q.price = r.price /\ q.place = r.place
      BY <2>2, <2>3, <2>4
    <2>6. /\ q \in [side : Side, price : Prices, place : Nat \ {0}]
          /\ r \in [side : Side, price : Prices, place : Nat \ {0}]
      BY DEF Record
    <2> QED BY <2>5, <2>6
  <1>8. RecordsTyped'
    <2>1. SUFFICES ASSUME NEW r \in Record'
                   PROVE  /\ Old(r)'.order_id \in OrderIds /\ Old(r)'.qty \in Nat \ {0}
                          /\ r.place <= Cardinality(OrderSlots)
      BY <1>1, <1>2 DEF RecordsTyped, QueuesSeen
    <2>2. PICK s \in Resting : Place(s) = r.place /\ Old(r)' = OrderAt(s)
      BY <1>4
    <2>3. Place(s) \in 1 .. Cardinality(OrderSlots) /\ Cardinality(OrderSlots) \in Nat
      <3>1. BookInv
        BY DEF MatcherInv
      <3> QED BY <2>2, <3>1, PlacesFit, FS_CardinalityType, BookAssumption
    <2>4. Place(s) <= Cardinality(OrderSlots)
      BY <2>3
    <2> QED BY <1>1, <1>2, <1>6, <2>2, <2>4 DEF OrdersSeen, OrderData
  <1>9. /\ fills' \in Seq(FillRecord) /\ \A id : FilledOf(id)' = 0
        /\ Total(FillQty(fills'), DOMAIN fills') = 0 /\ DOMAIN fills' = {}
    <2>1. PICK F : F = fills' /\ F = <<>>
      BY <1>1
    <2>2. /\ F \in Seq(FillRecord) /\ Total(FillQty(F), DOMAIN F) = 0
          /\ \A id : Total(FillQty(F), FillsOf(F, id)) = 0
      BY <2>1, NoFills
    <2>3. \A id : FilledOf(id)' = 0
      BY <2>1, <2>2, FilledOfAfter DEF FillsRead, FillsTyped
    <2>4. DOMAIN F = {}
      BY <2>1
    <2> QED BY <2>1, <2>2, <2>3, <2>4
  <1>10. RecordsKept'
    <2>1. SUFFICES ASSUME NEW r \in Record' PROVE Kept(r)'
      BY DEF RecordsKept
    <2>2. PICK s \in Resting : /\ data[s].side = r.side /\ data[s].price = r.price
                               /\ Old(r)' = OrderAt(s)
      BY <1>4
    <2>3. IsOf(s, r)' /\ Old(r)'.qty = qty[s] /\ qty[s] \in Nat \ {0}
      BY <1>2, <1>3, <1>6, <2>2 DEF IsOf, OrdersSeen
    <2>4. PICK id : id = Old(r)'.order_id
      OBVIOUS
    <2>5. FilledOf(id)' = 0
      BY <1>9
    <2>6. /\ FilledOf(Old(r).order_id)' = 0 /\ s \in Resting' /\ qty'[s] = qty[s]
      BY <1>3, <2>4, <2>5 DEF FilledOf
    <2> QED BY <2>3, <2>6 DEF Kept
  <1>11. FillsFit'
    BY <1>1, <1>9 DEF FillsFit, Order
  <1>12. AllRecorded'
    <2>1. SUFFICES ASSUME NEW s \in Resting PROVE \E r \in Record' : IsOf(s, r)'
      BY <1>3 DEF AllRecorded
    <2> QED BY <1>3, <1>5, <1>6 DEF IsOf
  <1>13. OrderKept'
    <2>1. SUFFICES ASSUME NEW s \in Resting, NEW t \in Resting, NEW q \in Record', NEW r \in Record',
                          IsOf(s, q)', IsOf(t, r)', q.place < r.place
                   PROVE  Place(s) < Place(t)
      BY <1>3 DEF OrderKept
    <2>2. PICK u \in Resting : Place(u) = q.place /\ Old(q)' = OrderAt(u)
      BY <1>4
    <2>3. PICK v \in Resting : Place(v) = r.place /\ Old(r)' = OrderAt(v)
      BY <1>4
    <2>4. u = s /\ v = t
      BY <1>2, <1>3, <1>6, <2>1, <2>2, <2>3 DEF LevelsSeen, IsOf
    <2> QED BY <2>1, <2>2, <2>3, <2>4
  <1>14. pc' = "level" => NotRecorded'
    <2>1. SUFFICES ASSUME pc' = "level", NEW r \in Record'
                   PROVE  Old(r)'.order_id # incoming.order_id
      BY <1>1 DEF NotRecorded
    <2>2. PICK s \in Resting : Old(r)' = OrderAt(s)
      BY <1>4
    <2> QED BY <1>1, <1>2, <1>6, <2>1, <2>2 DEF OrdersSeen
  <1> QED BY <1>1, <1>7, <1>8, <1>10, <1>11, <1>12, <1>13, <1>14 DEF LedgerInv, Sweep

(* FilledOf does not change while the fills do not.                        *)
LEMMA FilledOfSame ==
  ASSUME FillsTyped, fills' = fills PROVE \A id : FilledOf(id)' = FilledOf(id)
PROOF
  <1>1. FillsTyped'
    BY DEF FillsTyped
  <1>2. FillsRead /\ FillsRead'
    BY <1>1, FilledOfIs, FilledOfAfter
  <1> QED BY <1>2 DEF FillsRead

(* The records are of the time when match() began.                         *)
LEMMA RecordsSame ==
  ASSUME before' = before
  PROVE  Record' = Record /\ \A r : Old(r)' = Old(r)
PROOF
  BY DEF Record, Old

(* A trade moves no order before another.                                  *)
LEMMA PlacesOrdered ==
  ASSUME MatcherInv, NEW s, NEW n, Trades(s, n),
         NEW t \in Resting', NEW u \in Resting', LevelOf(t) = LevelOf(u), Place(t) < Place(u)
  PROVE  Place(t)' < Place(u)'
PROOF
  <1>1. /\ BookInv /\ s \in Resting /\ Resting' \subseteq Resting
        /\ Leaves(s) \/ \E k : Shrinks(s, k)
    BY TradeIs DEF Leaves, Shrinks
  <1>2. \A v \in Resting : Place(v) \in Nat
    BY <1>1, PlacesView DEF PlacesSeen
  <1>3. CASE \E k : Shrinks(s, k)
    <2>1. t \in Resting /\ u \in Resting /\ Place(t)' = Place(t) /\ Place(u)' = Place(u)
      BY <1>1, <1>3 DEF Shrinks
    <2> QED BY <2>1
  <1>4. CASE Leaves(s)
    <2>1. /\ t \in Resting /\ u \in Resting /\ t # s /\ u # s
          /\ Place(t)' = IF LevelOf(t) = LevelOf(s) /\ Place(t) > Place(s)
                         THEN Place(t) - 1 ELSE Place(t)
          /\ Place(u)' = IF LevelOf(u) = LevelOf(s) /\ Place(u) > Place(s)
                         THEN Place(u) - 1 ELSE Place(u)
      BY <1>4 DEF Leaves
    <2>2. LevelOf(t) = LevelOf(s) => Place(t) # Place(s)
      BY <1>1, <2>1, PlacesView DEF PlacesSeen
    <2>3. LevelOf(u) = LevelOf(s) => Place(u) # Place(s)
      BY <1>1, <2>1, PlacesView DEF PlacesSeen
    <2>4. Place(t) \in Nat /\ Place(u) \in Nat /\ Place(s) \in Nat
      BY <1>1, <1>2, <2>1
    <2> QED BY <2>1, <2>2, <2>3, <2>4
  <1> QED BY <1>1, <1>3, <1>4

(* What a trade adds to the fills.                                         *)
Counted(s, n) ==
  /\ fills' \in Seq(FillRecord)
  /\ Total(FillQty(fills), DOMAIN fills) \in Int
  /\ Total(FillQty(fills'), DOMAIN fills') = Total(FillQty(fills), DOMAIN fills) + n
  /\ \A id : FilledOf(id)' = FilledOf(id) + (IF data[s].order_id = id THEN n ELSE 0)
  /\ \A i \in DOMAIN fills' : \/ fills'[i].maker = data[s].order_id
                              \/ i \in DOMAIN fills /\ fills'[i] = fills[i]

(* A trade is reported by exactly one fill, and is counted for its maker   *)
(* alone.                                                                  *)
LEMMA FillCounted ==
  ASSUME MatcherInv, FillsTyped, NEW s, NEW n, Trades(s, n) PROVE Counted(s, n)
PROOF
  <1>1. /\ BookInv /\ s \in Resting /\ n \in Nat
        /\ fills' = Append(fills, [maker |-> data[s].order_id, qty |-> n])
    BY TradeIs
  <1>2. data[s].order_id \in OrderIds
    BY <1>1, OrdersView DEF OrdersSeen, OrderData
  <1>3. PICK e : e = [maker |-> data[s].order_id, qty |-> n]
    OBVIOUS
  <1>4. e \in FillRecord /\ e.maker = data[s].order_id /\ e.qty = n
    BY <1>1, <1>2, <1>3 DEF FillRecord
  <1>5. /\ fills \in Seq(FillRecord) /\ fills' \in Seq(FillRecord)
        /\ DOMAIN fills' = DOMAIN fills \cup {Len(fills) + 1} /\ fills'[Len(fills) + 1] = e
        /\ \A i \in DOMAIN fills : fills'[i] = fills[i]
        /\ Total(FillQty(fills), DOMAIN fills) \in Int
        /\ Total(FillQty(fills'), DOMAIN fills') = Total(FillQty(fills), DOMAIN fills) + n
        /\ \A id : FilledOf(id)' = FilledOf(id) + (IF e.maker = id THEN n ELSE 0)
    <2>1. PICK F, G : F \in Seq(FillRecord) /\ F = fills /\ G = fills' /\ G = Append(F, e)
      BY <1>1, <1>3 DEF FillsTyped
    <2>2. Appended(F, e, G)
      <3>1. e \in FillRecord /\ F \in Seq(FillRecord) /\ G = Append(F, e)
        BY <1>4, <2>1
      <3> QED BY <3>1, FillAppended
    <2>3. FillsRead /\ FillsRead'
      BY <2>1, <2>2, FilledOfIs, FilledOfAfter DEF FillsTyped, Appended
    <2>4. /\ \A id : FilledOf(id) = Total(FillQty(F), FillsOf(F, id))
          /\ \A id : FilledOf(id)' = Total(FillQty(G), FillsOf(G, id))
      BY <2>1, <2>3 DEF FillsRead
    <2> QED BY <1>4, <2>1, <2>2, <2>4 DEF Appended
  <1> QED BY <1>4, <1>5 DEF Counted

(* One trade keeps the books.                                              *)
LEMMA LedgerTrades ==
  ASSUME MatcherInv, RecordsDistinct, RecordsTyped, RecordsKept, FillsFit,
         AllRecorded, OrderKept, NotRecorded,
         NEW s, NEW n, Trades(s, n), UNCHANGED <<incoming, before>>
  PROVE  /\ RecordsDistinct' /\ RecordsTyped' /\ RecordsKept' /\ FillsFit'
         /\ AllRecorded' /\ OrderKept' /\ NotRecorded'
PROOF
  <1>1. /\ BookInv /\ BookInv' /\ s \in Resting /\ LevelOf(s) = level /\ level \in InUse
        /\ n \in Nat \ {0} /\ n <= qty[s] /\ qty[s] \in Nat \ {0}
        /\ remaining' = remaining - n
        /\ fills' = Append(fills, [maker |-> data[s].order_id, qty |-> n])
        /\ \/ n = qty[s] /\ Leaves(s)
           \/ n < qty[s] /\ Shrinks(s, qty[s] - n)
    BY TradeIs
  <1>2. Record' = Record /\ \A r : Old(r)' = Old(r)
    BY RecordsSame
  <1>3. /\ Resting' \subseteq Resting
        /\ \A t \in Resting' : data'[t] = data[t] /\ LevelOf(t)' = LevelOf(t)
        /\ \A t \in Resting : t # s => t \in Resting' /\ qty'[t] = qty[t]
    <2>1. Leaves(s) \/ \E k : Shrinks(s, k)
      BY <1>1
    <2> QED BY <1>1, <2>1, OtherLevels
  <1>4. \A t \in Resting' : \A r : IsOf(t, r)' <=> IsOf(t, r)
    BY <1>2, <1>3 DEF IsOf
  <1>5. \A t \in Resting : data[t].order_id \in OrderIds
    BY <1>1, OrdersView DEF OrdersSeen, OrderData
  <1>6. \A t, u \in Resting : data[t].order_id = data[u].order_id => t = u
    BY <1>1, LevelsView DEF LevelsSeen
  <1>7. Counted(s, n)
    BY FillCounted DEF FillsFit, FillsTyped
  <1>8. ASSUME NEW r \in Record PROVE Kept(r)'
    <2>1. PICK id, f, q : /\ id = Old(r).order_id /\ f = FilledOf(id) /\ q = Old(r).qty
                          /\ id \in OrderIds /\ q \in Nat \ {0}
      BY DEF RecordsTyped
    <2>2. /\ f \in Nat /\ f <= q
          /\ f = q => ~Found(id)
          /\ f < q => \E t \in Resting : IsOf(t, r) /\ qty[t] = q - f
      BY <2>1 DEF RecordsKept, Kept
    <2>3. Old(r)'.order_id = id /\ Old(r)'.qty = q
      BY <1>2, <2>1
    <2>4. ~Found(id) => ~Found(id)'
      <3>1. ~Found(id) => \A t \in Resting' : data'[t].order_id # id
        BY <1>1, <1>3, <2>1, LevelsView DEF LevelsSeen
      <3> QED BY <1>1, <2>1, <3>1, ViewAfter DEF LevelsSeen
    <2>5. ASSUME NEW f1, f1 = FilledOf(id)', f1 \in Nat, f1 <= q,
                 f1 = q => ~Found(id)',
                 f1 < q => \E t \in Resting' : IsOf(t, r) /\ qty'[t] = q - f1
          PROVE  Kept(r)'
      <3>1. FilledOf(Old(r).order_id)' = f1 /\ Found(Old(r).order_id)' = Found(id)'
        BY <2>3, <2>5 DEF FilledOf, Found
      <3> QED BY <1>4, <2>3, <2>5, <3>1 DEF Kept
    <2>6. CASE id # data[s].order_id
      <3>1. FilledOf(id)' = f
        BY <1>7, <2>1, <2>2, <2>6 DEF Counted
      <3>2. f < q => \E t \in Resting' : IsOf(t, r) /\ qty'[t] = q - f
        BY <1>3, <2>1, <2>2, <2>6 DEF IsOf
      <3> QED BY <2>2, <2>4, <2>5, <3>1, <3>2
    <2>7. CASE id = data[s].order_id
      <3>1. Found(id)
        BY <1>1, <2>7, OrdersView DEF OrdersSeen
      <3>2. f < q
        BY <2>1, <2>2, <3>1
      <3>3. IsOf(s, r) /\ qty[s] = q - f
        BY <1>1, <1>6, <2>1, <2>2, <2>7, <3>2 DEF IsOf
      <3>4. FilledOf(id)' = f + n
        BY <1>7, <2>1, <2>7 DEF Counted
      <3>5. f + n \in Nat /\ f + n <= q /\ (f + n = q <=> n = qty[s])
        BY <1>1, <2>1, <2>2, <3>3
      <3>6. CASE n = qty[s]
        <4>1. \A t \in Resting' : data'[t].order_id # id
          BY <1>1, <1>3, <1>6, <2>7, <3>6 DEF Leaves
        <4>2. ~Found(id)'
          BY <1>1, <2>1, <4>1, ViewAfter DEF LevelsSeen
        <4> QED BY <2>5, <3>4, <3>5, <3>6, <4>2
      <3>7. CASE n < qty[s]
        <4>1. Shrinks(s, qty[s] - n)
          BY <1>1, <3>7
        <4>2. s \in Resting' /\ qty'[s] = qty[s] - n
          <5>1. qty \in [OrderSlots -> 0 .. MaxQty] /\ s \in OrderSlots
            BY <1>1 DEF BookInv, BookTypeOK, Resting
          <5> QED BY <1>1, <4>1, <5>1 DEF Shrinks
        <4>3. qty'[s] = q - (f + n)
          BY <1>1, <2>1, <2>2, <3>3, <4>2
        <4>4. f + n # q
          BY <3>5, <3>7, <1>1
        <4> QED BY <2>5, <3>3, <3>4, <3>5, <4>2, <4>3, <4>4
      <3> QED BY <1>1, <3>6, <3>7
    <2> QED BY <2>6, <2>7
  <1>9. FillsFit'
    <2>1. incoming'.qty = remaining' + Total(FillQty(fills'), DOMAIN fills')
      <3>1. remaining \in Int
        BY DEF MatcherInv, MatcherTypeOK
      <3>2. incoming.qty = remaining + Total(FillQty(fills), DOMAIN fills)
        BY DEF FillsFit
      <3> QED BY <1>1, <1>7, <3>1, <3>2 DEF Counted
    <2>2. \A r \in Record : MayTrade(r)' <=> MayTrade(r)
      BY <1>2 DEF MayTrade, Crosses
    <2>3. \E r \in Record : MayTrade(r) /\ Old(r).order_id = data[s].order_id
      <3>1. PICK r \in Record : IsOf(s, r)
        BY <1>1 DEF AllRecorded
      <3>2. /\ data[s].side = Opposite(incoming.side) /\ data[s].price = level_price[level]
        BY <1>1, OrdersView DEF OrdersSeen, Trades, Reached, OfSide
      <3> QED BY <3>1, <3>2 DEF IsOf, MayTrade, Trades, IsSelfTrade
    <2>4. \A i \in DOMAIN fills' :
            \E r \in Record : MayTrade(r) /\ Old(r).order_id = fills'[i].maker
      BY <1>7, <2>3 DEF FillsFit, Counted
    <2> QED BY <1>2, <1>7, <2>1, <2>2, <2>4 DEF FillsFit, Counted
  <1>10. AllRecorded'
    BY <1>2, <1>3, <1>4 DEF AllRecorded
  <1>11. OrderKept'
    <2>1. SUFFICES ASSUME NEW t \in Resting', NEW u \in Resting', NEW q \in Record, NEW r \in Record,
                          IsOf(t, q), IsOf(u, r),
                          q.side = r.side, q.price = r.price, q.place < r.place
                   PROVE  Place(t)' < Place(u)'
      BY <1>2, <1>4 DEF OrderKept
    <2>2. t \in Resting /\ u \in Resting /\ Place(t) < Place(u)
      BY <1>3, <2>1 DEF OrderKept
    <2>3. LevelOf(t) = LevelOf(u)
      BY <1>1, <2>1, <2>2, LevelsView DEF LevelsSeen, IsOf
    <2> QED BY <2>2, <2>3, PlacesOrdered
  <1>12. RecordsDistinct' /\ RecordsTyped' /\ NotRecorded'
    BY <1>2 DEF RecordsDistinct, RecordsTyped, NotRecorded
  <1> QED BY <1>2, <1>8, <1>9, <1>10, <1>11, <1>12 DEF RecordsKept

(* A step that leaves the book and the fills alone.                        *)
LEMMA LedgerSame ==
  ASSUME BookInv, UNCHANGED <<bookVars, incoming, remaining, fills, before>>
  PROVE  /\ FillsFit => RecordsKept' = RecordsKept
         /\ FillsFit' = FillsFit
         /\ RecordsDistinct' = RecordsDistinct /\ RecordsTyped' = RecordsTyped
         /\ AllRecorded' = AllRecorded /\ OrderKept' = OrderKept
         /\ NotRecorded' = NotRecorded
PROOF
  <1>1. Record' = Record /\ \A r : Old(r)' = Old(r)
    BY RecordsSame
  <1>2. /\ Resting' = Resting /\ data' = data /\ qty' = qty /\ order_index' = order_index
        /\ \A s \in Resting : Place(s)' = Place(s)
    BY SameBook
  <1>3. \A s, r : IsOf(s, r)' = IsOf(s, r)
    BY <1>1, <1>2 DEF IsOf
  <1>4. ASSUME FillsFit PROVE RecordsKept' = RecordsKept
    <2>1. \A id : FilledOf(id)' = FilledOf(id)
      BY <1>4, FilledOfSame DEF FillsFit, FillsTyped
    <2>2. ASSUME NEW r PROVE Kept(r)' = Kept(r)
      <3>1. PICK id : id = Old(r).order_id /\ id = Old(r)'.order_id
        BY <1>1
      <3>2. FilledOf(Old(r).order_id)' = FilledOf(id) /\ Found(Old(r).order_id)' = Found(id)
        <4>1. FilledOf(Old(r).order_id)' = FilledOf(id)'
          BY <3>1 DEF FilledOf
        <4> QED BY <1>2, <2>1, <3>1, <4>1 DEF Found
      <3> QED BY <1>1, <1>2, <1>3, <3>1, <3>2 DEF Kept
    <2> QED BY <1>1, <2>2 DEF RecordsKept
  <1>5. FillsFit' = FillsFit
    <2>1. \A r : MayTrade(r)' = MayTrade(r)
      BY <1>1 DEF MayTrade, Crosses
    <2> QED BY <1>1, <2>1 DEF FillsFit
  <1>6. /\ RecordsDistinct' = RecordsDistinct /\ RecordsTyped' = RecordsTyped
        /\ NotRecorded' = NotRecorded
    BY <1>1 DEF RecordsDistinct, RecordsTyped, NotRecorded
  <1>7. AllRecorded' = AllRecorded /\ OrderKept' = OrderKept
    BY <1>1, <1>2, <1>3 DEF AllRecorded, OrderKept
  <1> QED BY <1>4, <1>5, <1>6, <1>7

(* The remainder that comes to rest is not of an id that was recorded.     *)
LEMMA LedgerFinishes ==
  ASSUME MatcherInv, MatcherInv', CallClean, LedgerInv, FinishMatch PROVE LedgerInv'
PROOF
  <1>1. /\ BookInv /\ BookInv' /\ pc = "rest" /\ pc' = "returned"
        /\ incoming \in Order /\ remaining \in Int /\ remaining <= incoming.qty
        /\ UNCHANGED <<incoming, remaining, fills, before>>
        /\ RecordsDistinct /\ RecordsTyped /\ RecordsKept /\ FillsFit /\ NotRecorded
    BY DEF MatcherInv, MatcherTypeOK, FinishMatch, LedgerInv, Sweep, Sweeping, localVars
  <1>2. Record' = Record /\ \A r : Old(r)' = Old(r)
    BY <1>1, RecordsSame
  <1>3. RecordsDistinct' /\ RecordsTyped'
    BY <1>1, <1>2 DEF RecordsDistinct, RecordsTyped
  <1>4. FillsFit'
    <2>1. \A r : MayTrade(r)' = MayTrade(r)
      BY <1>1, <1>2 DEF MayTrade, Crosses
    <2> QED BY <1>1, <1>2, <2>1 DEF FillsFit
  <1>5. ASSUME \A t \in Resting : t \in Resting' /\ data'[t] = data[t] /\ qty'[t] = qty[t],
               \A t \in Resting' : t \in Resting \/ data'[t].order_id = incoming.order_id
        PROVE  RecordsKept'
    <2>1. SUFFICES ASSUME NEW r \in Record PROVE Kept(r)'
      BY <1>2 DEF RecordsKept
    <2>2. PICK id : /\ id = Old(r).order_id /\ id = Old(r)'.order_id
                    /\ id \in OrderIds /\ id # incoming.order_id
      BY <1>1, <1>2 DEF RecordsTyped, NotRecorded
    <2>3. Found(id)' <=> Found(id)
      <3>1. Found(id) <=> \E t \in Resting : data[t].order_id = id
        BY <1>1, <2>2, LevelsView DEF LevelsSeen
      <3>2. Found(id)' <=> \E t \in Resting' : data'[t].order_id = id
        BY <1>1, <2>2, ViewAfter DEF LevelsSeen
      <3> QED BY <1>5, <2>2, <3>1, <3>2
    <2>4. FilledOf(id)' = FilledOf(id)
      BY <1>1, FilledOfSame DEF FillsFit, FillsTyped
    <2>5. FilledOf(Old(r).order_id)' = FilledOf(id)' /\ Found(Old(r).order_id)' = Found(id)'
      BY <2>2 DEF FilledOf, Found
    <2>6. \A t \in Resting : IsOf(t, r) => IsOf(t, r)'
      BY <1>2, <1>5 DEF IsOf
    <2>7. Kept(r)
      BY <1>1 DEF RecordsKept
    <2> QED BY <1>2, <1>5, <2>2, <2>3, <2>4, <2>5, <2>6, <2>7 DEF Kept
  <1>6. CASE UNCHANGED bookVars
    BY <1>1, <1>3, <1>4, <1>6, LedgerSame DEF LedgerInv, Sweep
  <1>7. CASE /\ incoming.tif = "GTC" /\ remaining > 0 /\ AddOrder(Remainder)
    <2>1. remaining \in Quantity
      BY <1>1, <1>7, BookAssumption DEF Order, Quantity
    <2>2. Remainder \in RestableOrder
      BY <1>1, <1>7, <2>1 DEF Order, Remainder, RestableOrder
    <2>3. PICK o : o = Remainder /\ o \in RestableOrder /\ o.order_id = incoming.order_id
      BY <1>1, <2>2 DEF Remainder, Order
    <2>4. (\E s \in OrderSlots : Rests(o, s)) \/ Refuses(o)
      BY <1>1, <1>7, <2>3, AddOrderRests
    <2>5. ASSUME NEW s \in OrderSlots, Rests(o, s) PROVE RecordsKept'
      <3>1. /\ Resting' = Resting \cup {s} /\ data'[s].order_id = incoming.order_id
            /\ \A t \in Resting : data'[t] = data[t] /\ qty'[t] = qty[t]
        BY <2>3, <2>5 DEF Rests, Enters, DataOf
      <3> QED BY <1>5, <3>1
    <2>6. ASSUME Refuses(o) PROVE RecordsKept'
      BY <1>5, <2>6 DEF Refuses, orderVars, Resting
    <2> QED BY <1>1, <1>3, <1>4, <2>4, <2>5, <2>6 DEF LedgerInv, Sweep
  <1> QED BY <1>6, <1>7 DEF FinishMatch

(* Every step keeps the ledger.                                            *)
LEMMA LedgerStep ==
  ASSUME MatcherInv, MatcherInv', LevelEntered, CallClean, LedgerInv, [Next]_vars
  PROVE  LedgerInv'
PROOF
  <1>1. BookInv
    BY DEF MatcherInv
  <1>2. CASE UNCHANGED vars
    <2>1. UNCHANGED <<bookVars, pc, incoming, remaining, fills, before>>
      BY <1>2 DEF vars, localVars
    <2> QED BY <1>1, <2>1, LedgerSame DEF LedgerInv
  <1>3. CASE Call \/ Return
    <2>1. pc' \in {"idle", "match"}
      BY <1>3 DEF Call, Submit, Cancel, Replace, Return
    <2> QED BY <2>1 DEF LedgerInv, Sweep
  <1>4. CASE SweepStep
    <2>1. /\ pc \in Sweep /\ pc' \in Sweep /\ UNCHANGED <<incoming, before>>
          /\ Quiet \/ \E s, n : Trades(s, n)
      BY <1>4, SweepTrades
    <2>2. /\ RecordsDistinct /\ RecordsTyped /\ RecordsKept /\ FillsFit
          /\ AllRecorded /\ OrderKept /\ NotRecorded
      BY <2>1 DEF LedgerInv
    <2>3. CASE Quiet
      BY <1>1, <2>1, <2>2, <2>3, LedgerSame DEF LedgerInv, Quiet
    <2>4. ASSUME NEW s, NEW n, Trades(s, n) PROVE LedgerInv'
      BY <2>1, <2>2, <2>4, LedgerTrades DEF LedgerInv
    <2> QED BY <2>1, <2>3, <2>4
  <1> QED BY <1>2, <1>3, <1>4, LedgerOpens, LedgerFinishes DEF Next, Step, SweepStep

(* What FillsAddUp says in terms of the records.                           *)
LEMMA LedgerAddsUp == BookInv /\ LedgerInv => FillsAddUp
PROOF
  <1> SUFFICES ASSUME BookInv, LedgerInv, Returned PROVE FillsAddUp
    BY DEF FillsAddUp
  <1>1. RecordsDistinct /\ RecordsTyped /\ RecordsKept /\ FillsFit /\ FillsRead
    BY FilledOfIs DEF LedgerInv, Returned, FillsFit, FillsTyped
  <1>2. incoming.qty = remaining + MapThenSumSet(LAMBDA i : fills[i].qty, DOMAIN fills)
    BY <1>1, Zenon DEF FillsFit, FillsRead
  <1>3. ASSUME NEW i \in DOMAIN fills
        PROVE  \E m \in Tradable : MakerAt(m).order_id = fills[i].maker
    <2>1. PICK r \in Record : MayTrade(r) /\ Old(r).order_id = fills[i].maker
      BY <1>1 DEF FillsFit
    <2>2. /\ r.price \in Prices /\ r.place \in Nat \ {0} /\ r.side = Opposite(incoming.side)
          /\ r.place <= Len(before[r.side][r.price]) /\ r.place <= Cardinality(OrderSlots)
      BY <1>1, <2>1 DEF Record, MayTrade, RecordsTyped
    <2>3. PICK m : m = <<r.price, r.place>>
      OBVIOUS
    <2>4. m[1] = r.price /\ m[2] = r.place
      BY <2>3
    <2>5. Makers(m[1]) = before[r.side][r.price] /\ MakerAt(m) = Old(r)
      BY <2>2, <2>4 DEF Makers, MakerAt, Old
    <2>6. Cardinality(OrderSlots) \in Nat
      BY BookAssumption, FS_CardinalityType
    <2>7. m \in Prices \X (1 .. Cardinality(OrderSlots))
      BY <2>2, <2>3, <2>6
    <2>8. m \in Tradable
      BY <2>1, <2>2, <2>4, <2>5, <2>7 DEF Tradable, MayTrade
    <2> QED BY <2>1, <2>5, <2>8
  <1>4. ASSUME NEW side \in Side, NEW p \in Prices, NEW i \in 1 .. Len(before[side][p]),
               NEW o, o = before[side][p][i], NEW left, left = o.qty - FilledOf(o.order_id)
        PROVE  IF left = 0 THEN ~Found(o.order_id)
               ELSE Found(o.order_id) /\ qty[FindOrder(o.order_id)] = left
    <2>1. PICK r : r = [side |-> side, price |-> p, place |-> i]
      OBVIOUS
    <2>2. i \in Nat \ {0} /\ i <= Len(before[side][p])
      BY <1>1, <1>4 DEF RecordsTyped
    <2>3. r \in Record /\ Old(r) = o
      BY <1>4, <2>1, <2>2 DEF Record, Old
    <2>4. Kept(r) /\ o.qty \in Nat
      BY <1>1, <2>3 DEF RecordsKept, RecordsTyped
    <2>5. CASE left = 0
      BY <1>4, <2>3, <2>4, <2>5 DEF Kept
    <2>6. CASE left # 0
      <3>1. PICK s \in Resting : IsOf(s, r) /\ qty[s] = left
        BY <1>4, <2>3, <2>4, <2>6 DEF Kept
      <3> QED BY <2>3, <2>6, <3>1, OrdersView DEF OrdersSeen, IsOf
    <2> QED BY <2>5, <2>6
  <1>5. \A side \in Side, p \in Prices : \A i \in 1 .. Len(before[side][p]) :
          LET o == before[side][p][i]
              left == o.qty - FilledOf(o.order_id)
          IN  IF left = 0 THEN ~Found(o.order_id)
              ELSE Found(o.order_id) /\ qty[FindOrder(o.order_id)] = left
    BY <1>4
  <1> QED BY <1>2, <1>3, <1>5, Zenon DEF FillsAddUp

(* The fills that are reported, what is left of the order and what they    *)
(* leave in the book add up.                                               *)
THEOREM FillsAddUpAlways == Spec => []FillsAddUp
PROOF
  <1>1. Init => LedgerInv
    BY DEF Init, LedgerInv, Sweep
  <1>2. /\ MatcherInv /\ MatcherInv' /\ LevelEntered /\ CallClean /\ LedgerInv /\ [Next]_vars
        => LedgerInv'
    BY LedgerStep
  <1>3. MatcherInv /\ LedgerInv => FillsAddUp
    BY LedgerAddsUp DEF MatcherInv
  <1> QED BY <1>1, <1>2, <1>3, MatcherInductive, PromisesKept, PTL DEF Spec

-----------------------------------------------------------------------------
(* The order whose turn it is: nothing that is still offered is at a better*)
(* price, or, in price-time mode, before it at its price.                  *)
LEMMA TurnIsFirst ==
  ASSUME MatcherInv, LevelEntered, SweepInv, NEW s, NEW n, Trades(s, n), Turn(s),
         NEW t \in Offered
  PROVE  /\ ~Better(Opposite(incoming.side), data[t].price, level_price[level])
         /\ mode = "PRICE_TIME" /\ LevelOf(t) = level => Place(s) <= Place(t)
PROOF
  <1>1. /\ BookInv /\ s \in OrdersAt(level) /\ level \in InUse /\ Entered
        /\ t \in Resting
    <2>1. s # Null
      BY BookAssumption DEF Trades, OrdersAt, Resting
    <2> QED BY <2>1 DEF MatcherInv, Trades, Turn, LevelEntered, Reached, OfSide, Offered
  <1>2. /\ level_price[level] \in Int /\ data[t].price \in Int
        /\ next_level # Null => level_price[next_level] \in Int
    <2>1. next_level # Null => next_level \in InUse
      BY DEF Turn, MatcherInv, PointersSafe, Reached, OfSide
    <2>2. \A l \in InUse : level_price[l] \in Int
      BY <1>1, LevelsView, BookAssumption DEF LevelsSeen
    <2>3. data[t].price \in Prices
      BY <1>1, OrdersView DEF OrdersSeen, OrderData
    <2> QED BY <1>1, <2>1, <2>2, <2>3, BookAssumption
  <1>3. LevelOf(t) = level => data[t].price = level_price[level]
    BY <1>1, OrdersView DEF OrdersSeen
  <1>4. CASE Better(Opposite(incoming.side), data[t].price, level_price[level])
    <2>1. Ahead(t, next_level)
      BY <1>1, <1>2, <1>4 DEF Ahead, Entered, Better
    <2>2. LevelOf(t) = level
      <3>1. CASE pc = "visit"
        BY <2>1, <3>1 DEF SweepInv, Swept, Turn, Pending, OrdersAt
      <3>2. CASE pc = "share"
        BY <2>1, <3>2 DEF SweepInv, Swept, OrdersAt
      <3> QED BY <3>1, <3>2 DEF Turn
    <2> QED BY <1>2, <1>3, <1>4, <2>2 DEF Better
  <1>5. ASSUME mode = "PRICE_TIME", LevelOf(t) = level PROVE Place(s) <= Place(t)
    <2>1. pc = "visit" /\ s = resting /\ remaining > 0
      BY <1>5 DEF Turn, MatcherInv, MatcherTypeOK
    <2>2. Ahead(t, next_level)
      BY <1>1, <1>3, <1>5 DEF Ahead, Entered
    <2>3. t \in Pending
      BY <2>1, <2>2 DEF SweepInv, Swept
    <2> QED BY <2>1, <2>3 DEF Pending
  <1> QED BY <1>4, <1>5

InFront(q, r) ==
  \/ Better(Opposite(incoming.side), q.price, r.price)
  \/ mode = "PRICE_TIME" /\ q.price = r.price /\ q.place < r.place

(* The orders in front of one that has traded are filled completely.       *)
PriorityKept ==
  \A q, r \in Record :
    /\ MayTrade(q) /\ MayTrade(r) /\ InFront(q, r)
    /\ FilledOf(Old(r).order_id) > 0
    => FilledOf(Old(q).order_id) = Old(q).qty

PriorityInv == pc \in Sweep \cup {"returned"} => PriorityKept

(* A trade keeps the priority: the order that trades is the first, in      *)
(* price and then in time, of those that still offer something.            *)
LEMMA PriorityTrades ==
  ASSUME MatcherInv, LevelEntered, SweepInv, RecordsDistinct, RecordsTyped, RecordsKept,
         FillsFit, AllRecorded, OrderKept, PriorityKept,
         NEW s, NEW n, Trades(s, n), Turn(s), UNCHANGED <<incoming, mode, before>>
  PROVE  PriorityKept'
PROOF
  <1>1. BookInv /\ s \in Resting /\ LevelOf(s) = level /\ n \in Nat
    BY TradeIs
  <1>2. Record' = Record /\ \A r : Old(r)' = Old(r)
    BY RecordsSame
  <1>3. \A r : MayTrade(r)' <=> MayTrade(r)
    BY <1>2 DEF MayTrade, Crosses
  <1>4. Counted(s, n)
    BY FillCounted DEF FillsFit, FillsTyped
  <1>5. \A r : FilledOf(Old(r).order_id)' = FilledOf(Old(r).order_id)
                 + (IF data[s].order_id = Old(r).order_id THEN n ELSE 0)
    <2>1. TAKE r
    <2>2. PICK id : id = Old(r).order_id /\ id = Old(r)'.order_id
      BY <1>2
    <2>3. FilledOf(Old(r).order_id)' = FilledOf(id)'
      BY <2>2 DEF FilledOf
    <2> QED BY <1>4, <2>2, <2>3 DEF Counted
  <1>6. SUFFICES ASSUME NEW q \in Record, NEW r \in Record, MayTrade(q), MayTrade(r),
                        InFront(q, r), FilledOf(Old(r).order_id)' > 0
                 PROVE  FilledOf(Old(q).order_id)' = Old(q).qty
    BY <1>2, <1>3 DEF PriorityKept, InFront
  <1>7. /\ Kept(q) /\ Kept(r) /\ Old(q).qty \in Nat
        /\ FilledOf(Old(q).order_id) \in Nat /\ FilledOf(Old(r).order_id) \in Nat
        /\ q.price \in Int /\ r.price \in Int /\ q.place \in Nat /\ r.place \in Nat
    BY BookAssumption DEF RecordsKept, Kept, RecordsTyped, Record
  <1>8. CASE data[s].order_id # Old(r).order_id
    <2>1. FilledOf(Old(q).order_id) = Old(q).qty
      BY <1>5, <1>6, <1>7, <1>8 DEF PriorityKept
    <2>2. ~Found(Old(q).order_id)
      BY <1>7, <2>1 DEF Kept
    <2>3. data[s].order_id # Old(q).order_id
      BY <1>1, <2>2, OrdersView DEF OrdersSeen
    <2> QED BY <1>5, <1>7, <2>1, <2>3
  <1>9. CASE data[s].order_id = Old(r).order_id
    <2>1. IsOf(s, r)
      <3>1. PICK p \in Record : IsOf(s, p)
        BY <1>1 DEF AllRecorded
      <3>2. p = r
        BY <1>9, <3>1 DEF RecordsDistinct, IsOf
      <3> QED BY <3>1, <3>2
    <2>2. q # r
      BY <1>6, <1>7 DEF InFront, Better
    <2>3. data[s].order_id # Old(q).order_id
      BY <1>9, <2>2 DEF RecordsDistinct
    <2>4. FilledOf(Old(q).order_id) = Old(q).qty
      <3>1. SUFFICES ASSUME FilledOf(Old(q).order_id) < Old(q).qty PROVE FALSE
        BY <1>7 DEF Kept
      <3>2. PICK t \in Resting : IsOf(t, q)
        BY <1>7, <3>1 DEF Kept
      <3>3. t \in Offered
        BY <1>6, <3>2 DEF Offered, MayTrade, IsOf, IsSelfTrade
      <3>4. /\ data[t].price = q.price /\ data[s].price = r.price /\ q.side = r.side
            /\ data[t].side = data[s].side /\ level_price[level] = r.price
        BY <1>1, <1>6, <2>1, <3>2, OrdersView DEF MayTrade, IsOf, OrdersSeen
      <3>5. /\ ~Better(Opposite(incoming.side), q.price, r.price)
            /\ mode = "PRICE_TIME" /\ LevelOf(t) = level => Place(s) <= Place(t)
        BY <3>3, <3>4, TurnIsFirst
      <3>6. mode = "PRICE_TIME" /\ q.price = r.price /\ q.place < r.place
        BY <1>6, <3>5 DEF InFront
      <3>7. LevelOf(t) = level
        BY <1>1, <3>2, <3>4, <3>6, LevelsView DEF LevelsSeen
      <3>8. Place(t) < Place(s)
        BY <1>1, <2>1, <3>2, <3>4, <3>6 DEF OrderKept
      <3>9. Place(t) \in Nat /\ Place(s) \in Nat
        BY <1>1, <3>2, PlacesView DEF PlacesSeen
      <3> QED BY <3>5, <3>6, <3>7, <3>8, <3>9
    <2> QED BY <1>5, <1>7, <2>3, <2>4
  <1> QED BY <1>8, <1>9

(* Without a fill nothing changes.                                         *)
LEMMA PrioritySame ==
  ASSUME FillsFit, PriorityKept, UNCHANGED <<incoming, mode, fills, before>>
  PROVE  PriorityKept'
PROOF
  <1>1. Record' = Record /\ \A r : Old(r)' = Old(r)
    BY RecordsSame
  <1>2. \A r : MayTrade(r)' <=> MayTrade(r)
    BY <1>1 DEF MayTrade, Crosses
  <1>3. \A r : FilledOf(Old(r).order_id)' = FilledOf(Old(r).order_id)
    <2>1. TAKE r
    <2>2. PICK id : id = Old(r).order_id /\ id = Old(r)'.order_id
      BY <1>1
    <2>3. FilledOf(Old(r).order_id)' = FilledOf(id)'
      BY <2>2 DEF FilledOf
    <2>4. FilledOf(id)' = FilledOf(id)
      BY FilledOfSame DEF FillsFit, FillsTyped
    <2> QED BY <2>2, <2>3, <2>4
  <1> QED BY <1>1, <1>2, <1>3 DEF PriorityKept, InFront

(* When match() begins nothing has been filled, and no order was passed    *)
(* over.                                                                   *)
LEMMA PriorityOpens ==
  ASSUME MatcherInv, CallClean, BeginMatch PROVE PriorityKept'
PROOF
  <1>1. PICK F : F = fills' /\ F = <<>>
    BY DEF BeginMatch, CallClean
  <1>2. F \in Seq(FillRecord) /\ \A id : Total(FillQty(F), FillsOf(F, id)) = 0
    BY <1>1, NoFills
  <1>3. \A id : FilledOf(id)' = 0
    BY <1>1, <1>2, FilledOfAfter DEF FillsRead, FillsTyped
  <1>4. \A r : FilledOf(Old(r).order_id)' = 0
    <2>1. TAKE r
    <2>2. PICK id : id = Old(r)'.order_id
      OBVIOUS
    <2>3. FilledOf(Old(r).order_id)' = FilledOf(id)'
      BY <2>2 DEF FilledOf
    <2> QED BY <1>3, <2>3
  <1> QED BY <1>4 DEF PriorityKept

(* Every step keeps the priority.                                          *)
LEMMA PriorityStep ==
  ASSUME MatcherInv, LevelEntered, SweepInv, CallClean, LedgerInv, PriorityInv, [Next]_vars
  PROVE  PriorityInv'
PROOF
  <1>1. CASE UNCHANGED vars \/ FinishMatch
    <2>1. UNCHANGED <<incoming, mode, fills, before>>
      BY <1>1 DEF vars, localVars, FinishMatch
    <2>2. pc' \in Sweep \cup {"returned"} => pc \in Sweep \cup {"returned"}
      BY <1>1 DEF vars, FinishMatch, Sweep
    <2> QED BY <2>1, <2>2, PrioritySame DEF PriorityInv, LedgerInv
  <1>2. CASE Call \/ Return
    BY <1>2 DEF Call, Submit, Cancel, Replace, Return, PriorityInv, Sweep, localVars
  <1>3. CASE BeginMatch
    BY <1>3, PriorityOpens DEF PriorityInv
  <1>4. CASE SweepStep
    <2>1. /\ pc \in Sweep /\ pc' \in Sweep /\ UNCHANGED <<incoming, mode, before>>
          /\ Quiet \/ \E s, n : Trades(s, n) /\ Turn(s)
      BY <1>4, SweepTrades
    <2>2. /\ RecordsDistinct /\ RecordsTyped /\ RecordsKept /\ FillsFit
          /\ AllRecorded /\ OrderKept /\ PriorityKept
      BY <2>1 DEF LedgerInv, PriorityInv
    <2>3. CASE Quiet
      BY <2>1, <2>2, <2>3, PrioritySame DEF PriorityInv, Quiet
    <2>4. ASSUME NEW s, NEW n, Trades(s, n), Turn(s) PROVE PriorityInv'
      BY <2>1, <2>2, <2>4, PriorityTrades DEF PriorityInv
    <2> QED BY <2>1, <2>3, <2>4
  <1> QED BY <1>1, <1>2, <1>3, <1>4 DEF Next, Step, SweepStep

(* An order of Tradable is a record.                                       *)
LEMMA TradableRecord ==
  ASSUME RecordsTyped, NEW m \in Tradable
  PROVE  \E r \in Record : /\ MayTrade(r) /\ r.price = m[1] /\ r.place = m[2]
                           /\ MakerAt(m) = Old(r)
PROOF
  <1>1. /\ m[1] \in Prices /\ m[2] \in Nat \ {0} /\ m[2] <= Len(Makers(m[1]))
        /\ Crosses(m[1], incoming) /\ MakerAt(m).client_id # incoming.client_id
    <2>1. Cardinality(OrderSlots) \in Nat
      BY BookAssumption, FS_CardinalityType
    <2> QED BY <2>1 DEF Tradable
  <1>2. PICK r : r = [side |-> Opposite(incoming.side), price |-> m[1], place |-> m[2]]
    OBVIOUS
  <1>3. r.side = Opposite(incoming.side) /\ r.price = m[1] /\ r.place = m[2]
    BY <1>2
  <1>4. r \in Record /\ MakerAt(m) = Old(r)
    BY <1>1, <1>2, <1>3 DEF Record, Old, MakerAt, Makers, Opposite, Side
  <1> QED BY <1>1, <1>3, <1>4 DEF MayTrade

(* The ledger and PriorityInv together say PriorityRespected.              *)
LEMMA PriorityIs == LedgerInv /\ PriorityInv => PriorityRespected
PROOF
  <1> SUFFICES ASSUME LedgerInv, PriorityInv, Returned, NEW m \in Tradable, NEW n \in Tradable,
                      Filled(n) > 0,
                      \/ Better(Opposite(incoming.side), m[1], n[1])
                      \/ mode = "PRICE_TIME" /\ m[1] = n[1] /\ m[2] < n[2]
               PROVE  Filled(m) = MakerAt(m).qty
    BY DEF PriorityRespected
  <1>1. RecordsTyped /\ PriorityKept
    BY DEF Returned, LedgerInv, PriorityInv
  <1>2. PICK q \in Record : /\ MayTrade(q) /\ q.price = m[1] /\ q.place = m[2]
                            /\ MakerAt(m) = Old(q)
    BY <1>1, TradableRecord
  <1>3. PICK r \in Record : /\ MayTrade(r) /\ r.price = n[1] /\ r.place = n[2]
                            /\ MakerAt(n) = Old(r)
    BY <1>1, TradableRecord
  <1>4. Filled(m) = FilledOf(Old(q).order_id) /\ Filled(n) = FilledOf(Old(r).order_id)
    BY <1>2, <1>3 DEF Filled
  <1>5. InFront(q, r)
    BY <1>2, <1>3 DEF InFront
  <1> QED BY <1>1, <1>2, <1>3, <1>4, <1>5 DEF PriorityKept

(* A better price trades before a worse one, and an older order before a   *)
(* newer one at the same price.                                            *)
THEOREM PriorityAlways == Spec => []PriorityRespected
PROOF
  <1>1. Init => LedgerInv /\ PriorityInv
    BY DEF Init, LedgerInv, PriorityInv, Sweep
  <1>2. /\ MatcherInv /\ MatcherInv' /\ LevelEntered /\ SweepInv /\ CallClean
        /\ LedgerInv /\ PriorityInv /\ [Next]_vars
        => LedgerInv' /\ PriorityInv'
    BY LedgerStep, PriorityStep
  <1> QED BY <1>1, <1>2, PriorityIs, MatcherInductive, PromisesKept, PTL DEF Spec

-----------------------------------------------------------------------------
(* The resting order s is the one of Tradable's maker m.                   *)
Made(s, m) == data[s].order_id = MakerAt(m).order_id /\ data[s].price = m[1]

(* The ledger, read of the orders the incoming one may trade with.         *)
MakersTyped ==
  /\ \A m \in Tradable :
       /\ m[1] \in Prices /\ m[2] \in Nat \ {0} /\ m = <<m[1], m[2]>>
       /\ m[2] <= Cardinality(OrderSlots)
       /\ MakerAt(m).order_id \in OrderIds /\ MakerAt(m).qty \in Nat \ {0}
       /\ Filled(m) \in Nat /\ Filled(m) <= MakerAt(m).qty
  /\ \A m, n \in Tradable : MakerAt(m).order_id = MakerAt(n).order_id => m = n

MakersRest ==
  /\ \A m \in Tradable :
       Filled(m) < MakerAt(m).qty =>
         \E s \in Offered : Made(s, m) /\ qty[s] = MakerAt(m).qty - Filled(m)
  /\ \A s \in Offered : \E m \in Tradable : Made(s, m)
  /\ \A s, t \in Offered, m, n \in Tradable :
       Made(s, m) /\ Made(t, n) /\ m[1] = n[1] /\ m[2] < n[2] => Place(s) < Place(t)

(* A record the incoming order may trade with is a maker of Tradable.      *)
LEMMA RecordTradable ==
  ASSUME RecordsTyped, NEW r \in Record, MayTrade(r)
  PROVE  \E m \in Tradable : m[1] = r.price /\ m[2] = r.place /\ MakerAt(m) = Old(r)
PROOF
  <1>1. /\ r.price \in Prices /\ r.place \in Nat \ {0} /\ r.place <= Cardinality(OrderSlots)
        /\ r.place <= Len(before[r.side][r.price]) /\ r.side = Opposite(incoming.side)
    BY DEF Record, RecordsTyped, MayTrade
  <1>2. Cardinality(OrderSlots) \in Nat
    BY BookAssumption, FS_CardinalityType
  <1>3. PICK m : m = <<r.price, r.place>>
    OBVIOUS
  <1>4. m[1] = r.price /\ m[2] = r.place
    BY <1>3
  <1>5. MakerAt(m) = Old(r)
    BY <1>1, <1>4 DEF MakerAt, Makers, Old
  <1>6. m \in Prices \X (1 .. Cardinality(OrderSlots))
    BY <1>1, <1>2, <1>3
  <1>7. m \in Tradable
    BY <1>1, <1>4, <1>5, <1>6 DEF Tradable, Makers, MayTrade
  <1> QED BY <1>4, <1>5, <1>7

(* What the records are, the makers are.                                   *)
LEMMA MakersTypedIs ==
  RecordsTyped /\ RecordsDistinct /\ RecordsKept => MakersTyped
PROOF
  <1> SUFFICES ASSUME RecordsTyped, RecordsDistinct, RecordsKept PROVE MakersTyped
    OBVIOUS
  <1>1. ASSUME NEW m \in Tradable
        PROVE  /\ m[1] \in Prices /\ m[2] \in Nat \ {0} /\ m = <<m[1], m[2]>>
               /\ m[2] <= Cardinality(OrderSlots)
               /\ MakerAt(m).order_id \in OrderIds /\ MakerAt(m).qty \in Nat \ {0}
               /\ Filled(m) \in Nat /\ Filled(m) <= MakerAt(m).qty
    <2>1. PICK r \in Record : r.price = m[1] /\ r.place = m[2] /\ MakerAt(m) = Old(r)
      BY TradableRecord
    <2>2. Kept(r) /\ Filled(m) = FilledOf(Old(r).order_id)
      BY <2>1 DEF RecordsKept, Filled
    <2>3. m = <<m[1], m[2]>> /\ m[1] \in Prices /\ m[2] \in 1 .. Cardinality(OrderSlots)
      BY DEF Tradable
    <2>4. Cardinality(OrderSlots) \in Nat
      BY BookAssumption, FS_CardinalityType
    <2> QED BY <2>1, <2>2, <2>3, <2>4 DEF Kept, RecordsTyped
  <1>2. ASSUME NEW m \in Tradable, NEW n \in Tradable,
               MakerAt(m).order_id = MakerAt(n).order_id
        PROVE  m = n
    <2>1. PICK q \in Record : q.price = m[1] /\ q.place = m[2] /\ MakerAt(m) = Old(q)
      BY TradableRecord
    <2>2. PICK r \in Record : r.price = n[1] /\ r.place = n[2] /\ MakerAt(n) = Old(r)
      BY TradableRecord
    <2>3. q = r
      BY <1>2, <2>1, <2>2 DEF RecordsDistinct
    <2> QED BY <1>1, <2>1, <2>2, <2>3
  <1> QED BY <1>1, <1>2 DEF MakersTyped

(* Under LedgerInv every maker that is not full still rests, in one place, *)
(* with what it has left.                                                  *)
LEMMA MakersRestIs ==
  /\ BookInv /\ RecordsTyped /\ RecordsDistinct /\ RecordsKept /\ AllRecorded /\ OrderKept
  => MakersRest
PROOF
  <1> SUFFICES ASSUME BookInv, RecordsTyped, RecordsDistinct, RecordsKept, AllRecorded,
                      OrderKept
               PROVE  MakersRest
    OBVIOUS
  <1>1. MakersTyped
    BY MakersTypedIs
  <1>2. ASSUME NEW m \in Tradable, Filled(m) < MakerAt(m).qty
        PROVE  \E s \in Offered : Made(s, m) /\ qty[s] = MakerAt(m).qty - Filled(m)
    <2>1. PICK r \in Record : MayTrade(r) /\ r.price = m[1] /\ MakerAt(m) = Old(r)
      BY TradableRecord
    <2>2. Kept(r) /\ Filled(m) = FilledOf(Old(r).order_id)
      BY <2>1 DEF RecordsKept, Filled
    <2>3. PICK s \in Resting : IsOf(s, r) /\ qty[s] = Old(r).qty - FilledOf(Old(r).order_id)
      BY <1>2, <2>1, <2>2 DEF Kept
    <2>4. s \in Offered
      BY <2>1, <2>3 DEF Offered, IsOf, MayTrade, IsSelfTrade
    <2> QED BY <2>1, <2>2, <2>3, <2>4 DEF Made, IsOf
  <1>3. ASSUME NEW s \in Offered
        PROVE  \E m \in Tradable, r \in Record :
                 m[1] = r.price /\ m[2] = r.place /\ MakerAt(m) = Old(r) /\ IsOf(s, r)
    <2>1. PICK r \in Record : IsOf(s, r)
      BY DEF Offered, AllRecorded
    <2>2. MayTrade(r)
      BY <2>1 DEF Offered, IsOf, MayTrade, IsSelfTrade
    <2> QED BY <2>1, <2>2, RecordTradable
  <1>4. ASSUME NEW s \in Offered PROVE \E m \in Tradable : Made(s, m)
    BY <1>3 DEF Made, IsOf
  <1>5. ASSUME NEW s \in Offered, NEW t \in Offered, NEW m \in Tradable, NEW n \in Tradable,
               Made(s, m), Made(t, n), m[1] = n[1], m[2] < n[2]
        PROVE  Place(s) < Place(t)
    <2>1. PICK k \in Tradable, q \in Record :
            k[1] = q.price /\ k[2] = q.place /\ MakerAt(k) = Old(q) /\ IsOf(s, q)
      BY <1>3
    <2>2. PICK l \in Tradable, r \in Record :
            l[1] = r.price /\ l[2] = r.place /\ MakerAt(l) = Old(r) /\ IsOf(t, r)
      BY <1>3
    <2>3. k = m /\ l = n
      BY <1>1, <1>5, <2>1, <2>2 DEF MakersTyped, Made, IsOf
    <2>4. q.side = r.side /\ q.price = r.price /\ q.place < r.place
      <3>1. q.side = data[s].side /\ r.side = data[t].side
        BY <2>1, <2>2 DEF IsOf
      <3> QED BY <1>5, <2>1, <2>2, <2>3, <3>1 DEF Offered
    <2> QED BY <2>1, <2>2, <2>4 DEF Offered, OrderKept
  <1> QED BY <1>2, <1>4, <1>5 DEF MakersRest

-----------------------------------------------------------------------------
(* A total may be taken over another set that corresponds one to one.      *)
Corresponds(g, S, R) ==
  /\ \A x, y \in S : g[x] = g[y] => x = y
  /\ R = {g[x] : x \in S}

Reads(h, f, g, S) == \A x \in S : h[x] = f[g[x]] /\ h[x] \in Int

(* Two totals over sets that correspond one to one, term for term, are     *)
(* equal.                                                                  *)
LEMMA TotalOver ==
  ASSUME NEW S, IsFiniteSet(S), NEW R, IsFiniteSet(R),
         NEW g, Corresponds(g, S, R), NEW f, NEW h, Reads(h, f, g, S)
  PROVE  Total(f, R) = Total(h, S)
PROOF
  <1> DEFINE image(T) == {g[x] : x \in T}
             G == {T \in SUBSET S : Total(f, image(T)) = Total(h, T)}
  <1>1. {} \in G
    <2>1. image({}) = {}
      OBVIOUS
    <2>2. Total(f, {}) = 0 /\ Total(h, {}) = 0
      BY TotalEmpty
    <2> QED BY <2>1, <2>2
  <1>2. ASSUME NEW T \in SUBSET S, NEW x \in S, T \in G, x \notin T
        PROVE  T \cup {x} \in G
    <2>1. image(T \cup {x}) = image(T) \cup {g[x]}
      OBVIOUS
    <2>2. PICK U, y : U = image(T) /\ y = g[x]
      OBVIOUS
    <2>3. U \in SUBSET R /\ y \in R \ U
      BY <1>2, <2>2 DEF Corresponds
    <2>4. \A z \in R : f[z] \in Int
      BY DEF Corresponds, Reads
    <2>5. Total(f, U) = Total(h, T)
      BY <1>2, <2>2
    <2> HIDE DEF image, G
    <2>6. Total(f, U) \in Int /\ Total(f, U \cup {y}) = f[y] + Total(f, U)
      BY <2>3, <2>4, TotalAdd
    <2>7. \A z \in S : h[z] \in Int
      BY DEF Reads
    <2>8. x \in S \ T
      BY <1>2
    <2>9. Total(h, T \cup {x}) = h[x] + Total(h, T)
      BY <2>7, <2>8, TotalAdd
    <2>10. h[x] = f[y]
      BY <2>2 DEF Reads
    <2>11. Total(f, image(T \cup {x})) = Total(h, T \cup {x})
      BY <2>1, <2>2, <2>5, <2>6, <2>9, <2>10
    <2> QED BY <2>11 DEF G
  <1>3. S \in G
    <2> HIDE DEF G
    <2> QED BY <1>1, <1>2, InductFinite
  <1> QED BY <1>3 DEF Corresponds

-----------------------------------------------------------------------------
(* A pro-rata level, in terms of its makers: what they offered, what has   *)
(* been traded with them, and the fairness of the two.                     *)
At(p) == {m \in Tradable : m[1] = p}
FilledAt(p) == [m \in At(p) |-> Filled(m)]
MadeQty(p) == [m \in At(p) |-> MakerAt(m).qty]
Traded(p) == Total(FilledAt(p), At(p))
Offering(p) == Total(MadeQty(p), At(p))

FloorAt(p, m) == (Traded(p) * MakerAt(m).qty) \div Offering(p)
Full(m) == Filled(m) = MakerAt(m).qty
First(m) ==
  \A n \in At(m[1]) : \/ MakerAt(n).qty < MakerAt(m).qty
                      \/ MakerAt(n).qty = MakerAt(m).qty /\ m[2] <= n[2]
InLine(m, n) == First(m) \/ (~First(n) /\ m[2] < n[2])

Fair(p) ==
  /\ \A m \in At(p) : Filled(m) >= FloorAt(p, m)
  /\ \A m, n \in At(p) : m # n /\ InLine(m, n) /\ Filled(n) > FloorAt(p, n) => Full(m)

(* The makers of a price are finitely many, at any time.                   *)
AtFinite == \A p : IsFiniteSet(At(p))

(* The makers at a price are finitely many.                                *)
LEMMA AtIsFinite == MakersTyped => AtFinite
PROOF
  <1> SUFFICES ASSUME MakersTyped, NEW p PROVE IsFiniteSet(At(p))
    BY DEF AtFinite
  <1>1. PICK c : c = 1 .. Cardinality(OrderSlots) /\ IsFiniteSet(c)
    BY BookAssumption, FS_CardinalityType, FS_Interval
  <1>2. PICK g : g = [i \in c |-> <<p, i>>]
    OBVIOUS
  <1>3. IsFiniteSet({g[i] : i \in c})
    <2>1. g \in Surjection(c, {g[i] : i \in c})
      BY <1>2 DEF Surjection
    <2> QED BY <1>1, <2>1, FS_Surjection
  <1>4. At(p) \subseteq {g[i] : i \in c}
    <2>1. ASSUME NEW m \in At(p) PROVE m[2] \in c /\ m = g[m[2]]
      <3>1. m = <<m[1], m[2]>> /\ m[1] = p
        BY DEF At, MakersTyped
      <3>2. m[2] \in c
        BY <1>1 DEF At, Tradable
      <3> QED BY <1>2, <3>1, <3>2
    <2> QED BY <2>1
  <1> QED BY <1>3, <1>4, FS_Subset

(* One term grows, and so does the total.                                  *)
LEMMA TotalGrows ==
  ASSUME NEW S, IsFiniteSet(S), NEW f, NEW h, NEW k \in S, NEW n \in Int,
         \A x \in S : f[x] \in Int, h[k] = f[k] + n, \A x \in S \ {k} : h[x] = f[x]
  PROVE  Total(f, S) \in Int /\ Total(h, S) = Total(f, S) + n
PROOF
  <1>1. \A x \in S : h[x] \in Int
    OBVIOUS
  <1>2. Total(f, S) \in Int /\ Total(f, S) = f[k] + Total(f, S \ {k})
    BY TotalRemove
  <1>3. Total(h, S) = h[k] + Total(h, S \ {k})
    BY <1>1, TotalRemove
  <1>4. IsFiniteSet(S \ {k})
    BY FS_Subset
  <1>5. Total(h, S \ {k}) = Total(f, S \ {k}) /\ Total(f, S \ {k}) \in Int
    BY <1>4, TotalSame, TotalRemove
  <1> QED BY <1>2, <1>3, <1>5

(* What is offered and traded at each price after a trade of n with the    *)
(* maker k; what is fair at another price stays so.                        *)
MakersTraded(k, n) ==
  /\ Filled(k)' = Filled(k) + n
  /\ \A m \in Tradable : m # k => Filled(m)' = Filled(m)

(* The makers are what they were as long as the call and the book before   *)
(* it are.                                                                 *)
LEMMA SameMakers ==
  ASSUME UNCHANGED <<incoming, before>>
  PROVE  /\ Tradable' = Tradable /\ \A m : MakerAt(m)' = MakerAt(m)
         /\ \A p : At(p)' = At(p) /\ MadeQty(p)' = MadeQty(p) /\ Offering(p)' = Offering(p)
         /\ \A m : First(m)' = First(m)
PROOF
  <1>1. \A m : MakerAt(m)' = MakerAt(m)
    BY DEF MakerAt, Makers
  <1>2. Tradable' = Tradable
    BY <1>1 DEF Tradable, Makers, Crosses
  <1>3. \A p : At(p)' = At(p)
    BY <1>2 DEF At
  <1>4. \A p : MadeQty(p)' = MadeQty(p)
    BY <1>1, <1>3 DEF MadeQty
  <1>5. \A p : Offering(p)' = Offering(p)
    BY <1>3, <1>4 DEF Offering
  <1>6. \A m : First(m)' = First(m)
    BY <1>1, <1>3 DEF First
  <1> QED BY <1>1, <1>2, <1>3, <1>4, <1>5, <1>6

(* What is traded at the maker's price grows by the trade, and nothing     *)
(* changes at the other prices, fairness included.                         *)
LEMMA TradedAfter ==
  ASSUME MakersTyped, UNCHANGED <<incoming, before>>,
         NEW k \in Tradable, NEW n \in Int, MakersTraded(k, n)
  PROVE  /\ Traded(k[1]) \in Int /\ Traded(k[1])' = Traded(k[1]) + n
         /\ \A p : p # k[1] => Traded(p)' = Traded(p) /\ (Fair(p) => Fair(p)')
PROOF
  <1>1. /\ Tradable' = Tradable /\ \A m : MakerAt(m)' = MakerAt(m)
        /\ \A p : At(p)' = At(p) /\ Offering(p)' = Offering(p)
        /\ \A m : First(m)' = First(m)
    BY SameMakers
  <1>2. \A p : IsFiniteSet(At(p))
    BY AtIsFinite DEF AtFinite
  <1>3. \A p : FilledAt(p)' = [m \in At(p) |-> Filled(m)']
    BY <1>1 DEF FilledAt
  <1>4. \A p : Traded(p)' = Total(FilledAt(p)', At(p))
    BY <1>1 DEF Traded
  <1>5. \A p : \A m \in At(p) : /\ FilledAt(p)[m] = Filled(m) /\ Filled(m) \in Int
                                /\ FilledAt(p)'[m] = Filled(m)'
    <2>1. ASSUME NEW p, NEW m \in At(p)
          PROVE  /\ FilledAt(p)[m] = Filled(m) /\ Filled(m) \in Int
                 /\ FilledAt(p)'[m] = Filled(m)'
      <3>1. FilledAt(p)[m] = Filled(m)
        BY DEF FilledAt
      <3>2. FilledAt(p)'[m] = Filled(m)'
        BY <1>3
      <3>3. Filled(m) \in Int
        BY DEF MakersTyped, At
      <3> QED BY <3>1, <3>2, <3>3
    <2> QED BY <2>1
  <1>6. Traded(k[1]) \in Int /\ Traded(k[1])' = Traded(k[1]) + n
    <2>1. PICK S, f, h : S = At(k[1]) /\ f = FilledAt(k[1]) /\ h = FilledAt(k[1])'
      OBVIOUS
    <2>2. k \in S /\ IsFiniteSet(S)
      BY <1>2, <2>1 DEF At
    <2>3. \A x \in S : f[x] \in Int
      BY <1>5, <2>1
    <2>4. h[k] = f[k] + n /\ \A x \in S \ {k} : h[x] = f[x]
      BY <1>5, <2>1, <2>2 DEF MakersTraded, At
    <2>5. Total(f, S) \in Int /\ Total(h, S) = Total(f, S) + n
      BY <2>2, <2>3, <2>4, TotalGrows
    <2> QED BY <1>4, <2>1, <2>5 DEF Traded
  <1>7. ASSUME NEW p, p # k[1]
        PROVE  Traded(p)' = Traded(p) /\ (Fair(p) => Fair(p)')
    <2>1. \A m \in At(p) : Filled(m)' = Filled(m)
      BY <1>7 DEF MakersTraded, At
    <2>2. Traded(p)' = Traded(p)
      <3>1. \A m \in At(p) : FilledAt(p)'[m] = FilledAt(p)[m]
        BY <1>5, <2>1
      <3> QED BY <1>2, <1>4, <3>1, TotalSame DEF Traded
    <2>3. \A m \in At(p) : FloorAt(p, m)' = FloorAt(p, m)
      BY <1>1, <2>2 DEF FloorAt
    <2>4. \A m, n_1 \in At(p) : InLine(m, n_1)' = InLine(m, n_1)
      BY <1>1 DEF InLine
    <2>5. \A m \in At(p) : Full(m)' = Full(m)
      BY <1>1, <2>1 DEF Full
    <2> QED BY <1>1, <2>1, <2>2, <2>3, <2>4, <2>5 DEF Fair
  <1> QED BY <1>6, <1>7

MakersSeen == MakersTyped /\ MakersRest

(* What LedgerInv says of the makers during a sweep, as one named fact.    *)
LEMMA MakersView ==
  ASSUME MatcherInv, LedgerInv, pc \in Sweep
  PROVE  MakersSeen /\ FillsTyped
PROOF
  <1>1. /\ BookInv /\ RecordsTyped /\ RecordsDistinct /\ RecordsKept /\ AllRecorded
        /\ OrderKept /\ FillsFit
    BY DEF MatcherInv, LedgerInv
  <1> QED BY <1>1, MakersTypedIs, MakersRestIs DEF MakersSeen, FillsFit, FillsTyped

(* A trade, seen from the maker's side.                                    *)
LEMMA CountedMakers ==
  ASSUME MatcherInv, LedgerInv, pc \in Sweep, UNCHANGED <<incoming, before>>,
         NEW s, NEW n, Trades(s, n)
  PROVE  /\ n \in Nat \ {0} /\ s \in Offered
         /\ \E k \in Tradable : /\ Made(s, k) /\ k[1] = level_price[level]
                                /\ MakersTraded(k, n)
PROOF
  <1>1. MakersSeen /\ FillsTyped
    BY MakersView
  <1>2. s \in Offered /\ s \in Resting /\ LevelOf(s) = level /\ n \in Nat \ {0} /\ BookInv
    BY TradeTakes, TradeIs
  <1>3. PICK k \in Tradable : Made(s, k)
    BY <1>1, <1>2 DEF MakersSeen, MakersRest
  <1>4. k[1] = level_price[level]
    BY <1>2, <1>3, OrdersView DEF OrdersSeen, Made
  <1>5. \A id : FilledOf(id)' = FilledOf(id) + (IF data[s].order_id = id THEN n ELSE 0)
    BY <1>1, FillCounted DEF Counted
  <1>6. \A m \in Tradable : Filled(m) \in Nat
    BY <1>1 DEF MakersSeen, MakersTyped
  <1>7. ASSUME NEW m \in Tradable
        PROVE  Filled(m)' = Filled(m) + (IF m = k THEN n ELSE 0)
    <2>1. m = k <=> data[s].order_id = MakerAt(m).order_id
      BY <1>1, <1>3 DEF MakersSeen, MakersTyped, Made
    <2>2. PICK id : id = MakerAt(m).order_id /\ id = MakerAt(m)'.order_id
      BY SameMakers
    <2>3. Filled(m) = FilledOf(id) /\ Filled(m)' = FilledOf(id)'
      BY <2>2 DEF Filled
    <2> QED BY <1>5, <2>1, <2>2, <2>3
  <1>8. \A m \in Tradable : Filled(m) + 0 = Filled(m)
    BY <1>6
  <1>9. MakersTraded(k, n)
    BY <1>7, <1>8 DEF MakersTraded
  <1> QED BY <1>2, <1>3, <1>4, <1>9

(* Without a fill nothing changes for the makers.                          *)
LEMMA SameFills ==
  ASSUME FillsTyped, UNCHANGED <<incoming, before, fills>>
  PROVE  /\ \A m : Filled(m)' = Filled(m)
         /\ \A p : Traded(p)' = Traded(p) /\ (Fair(p)' <=> Fair(p))
PROOF
  <1>1. /\ Tradable' = Tradable /\ \A m : MakerAt(m)' = MakerAt(m)
        /\ \A p : At(p)' = At(p) /\ Offering(p)' = Offering(p)
        /\ \A m : First(m)' = First(m)
    BY SameMakers
  <1>2. \A m : Filled(m)' = Filled(m)
    BY <1>1, FilledOfSame DEF Filled
  <1>3. \A p : FilledAt(p)' = FilledAt(p)
    BY <1>1, <1>2 DEF FilledAt
  <1>4. \A p : Traded(p)' = Traded(p)
    BY <1>1, <1>3 DEF Traded
  <1>5. /\ \A p, m : FloorAt(p, m)' = FloorAt(p, m)
        /\ \A m : Full(m)' = Full(m)
        /\ \A m, n : InLine(m, n)' = InLine(m, n)
    BY <1>1, <1>2, <1>4 DEF FloorAt, Full, InLine
  <1>6. \A p : Fair(p)' <=> Fair(p)
    BY <1>1, <1>2, <1>5 DEF Fair
  <1> QED BY <1>2, <1>4, <1>6

-----------------------------------------------------------------------------
(* The apply pass at a level, with the makers it has served so far.        *)
FloorOf(m) == (share.fill_qty * MakerAt(m).qty) \div share.eligible_total
LargestFull == share.largest_share = qty[share.largest]
Served(m) == \A s \in ToServe \cup {share.largest} : ~Made(s, m)
IsLargest(m) == Made(share.largest, m)

ServedFair(m) ==
  /\ Filled(m) >= FloorOf(m)
  /\ share.residual > 0 => Full(m)
  /\ Filled(m) > FloorOf(m) => LargestFull

(* Those that are served got their floors, and more only when all before   *)
(* them are full; those still to be served have got nothing, and come      *)
(* later.                                                                  *)
SharesFair(p) ==
  /\ \A m \in At(p) : IF Served(m) THEN ServedFair(m) ELSE Filled(m) = 0
  /\ \A m, n \in At(p) :
       Served(m) /\ Served(n) /\ m[2] < n[2] /\ Filled(n) > FloorOf(n) => Full(m)
  /\ \A m, n \in At(p) : Served(m) /\ ~Served(n) /\ ~IsLargest(n) => m[2] < n[2]

(* The sums of the pass are those of the makers, and what is kept for the  *)
(* largest order is at least its floor.                                    *)
SharesEven(p) ==
  /\ share.eligible_total = Offering(p)
  /\ Traded(p) \in Int /\ Traded(p) + Todo = share.fill_qty
  /\ share.residual > 0 => LargestFull
  /\ \A m \in At(p) : IsLargest(m) => First(m) /\ share.largest_share >= FloorOf(m)

SharesInv == pc = "share" => SharesEven(level_price[level]) /\ SharesFair(level_price[level])

(* Nothing at the prices the sweep has not come to has been traded, and    *)
(* what it has left behind is fair.                                        *)
Untouched(p) ==
  \A m \in Tradable : ~Better(Opposite(incoming.side), m[1], p) => Filled(m) = 0

UntouchedInv ==
  mode = "PRO_RATA" =>
    /\ pc = "level" /\ level # Null => Untouched(level_price[level])
    /\ pc = "share" /\ next_level # Null => Untouched(level_price[next_level])

FairInv ==
  pc \in Sweep \cup {"returned"} /\ mode = "PRO_RATA" =>
    \A p \in Prices : Fair(p) \/ (pc = "share" /\ p = level_price[level])

(* The orders of the level and their makers.                               *)
LEMMA LevelMakers ==
  ASSUME MatcherInv, MakersSeen, Reached(level), Crosses(level_price[level], incoming)
  PROVE  /\ \A s \in Offered : s \in Eligible(level) <=> data[s].price = level_price[level]
         /\ Eligible(level) \subseteq Offered
         /\ \A s \in Eligible(level) : \E m \in At(level_price[level]) : Made(s, m)
         /\ \A s \in Resting : \A m, n \in Tradable : Made(s, m) /\ Made(s, n) => m = n
         /\ \A s, t \in Resting : \A m : Made(s, m) /\ Made(t, m) => s = t
         /\ \A m \in At(level_price[level]) :
              Filled(m) = 0 => \E s \in Eligible(level) : Made(s, m) /\ qty[s] = MakerAt(m).qty
PROOF
  <1>1. BookInv /\ OfSide(level, Opposite(incoming.side)) /\ level \in InUse
    BY DEF MatcherInv, Reached, OfSide
  <1>2. Eligible(level) \subseteq Offered
    BY <1>1, OrdersView DEF Eligible, OrdersAt, Offered, OfSide, OrdersSeen
  <1>3. ASSUME NEW s \in Offered
        PROVE  s \in Eligible(level) <=> data[s].price = level_price[level]
    <2>1. s \in Eligible(level) => data[s].price = level_price[level]
      BY <1>1, OrdersView DEF OrdersSeen, Eligible, OrdersAt
    <2>2. ASSUME data[s].price = level_price[level] PROVE LevelOf(s) = level
      <3>1. PICK u \in Resting : LevelOf(u) = level /\ data[u].side = Opposite(incoming.side)
        BY <1>1, LevelsView DEF LevelsSeen, OfSide, OrdersAt
      <3>2. data[u].price = level_price[level]
        BY <1>1, <3>1, OrdersView DEF OrdersSeen
      <3> QED BY <1>1, <2>2, <3>1, <3>2, LevelsView DEF LevelsSeen, Offered
    <2> QED BY <2>1, <2>2 DEF Eligible, OrdersAt, Offered
  <1>4. ASSUME NEW s \in Eligible(level)
        PROVE  \E m \in At(level_price[level]) : Made(s, m)
    <2>1. s \in Offered /\ data[s].price = level_price[level]
      BY <1>2, <1>3
    <2> QED BY <2>1 DEF MakersSeen, MakersRest, Made, At
  <1>5. \A s \in Resting : \A m, n \in Tradable : Made(s, m) /\ Made(s, n) => m = n
    BY DEF MakersSeen, MakersTyped, Made
  <1>6. \A s, t \in Resting : \A m : Made(s, m) /\ Made(t, m) => s = t
    BY <1>1, LevelsView DEF LevelsSeen, Made
  <1>7. ASSUME NEW m \in At(level_price[level]), Filled(m) = 0
        PROVE  \E s \in Eligible(level) : Made(s, m) /\ qty[s] = MakerAt(m).qty
    <2>1. /\ m \in Tradable /\ m[1] = level_price[level]
          /\ MakerAt(m).qty \in Nat \ {0} /\ MakerAt(m).qty - 0 = MakerAt(m).qty
      BY DEF At, MakersSeen, MakersTyped
    <2>2. PICK s \in Offered : Made(s, m) /\ qty[s] = MakerAt(m).qty - Filled(m)
      BY <1>7, <2>1 DEF MakersSeen, MakersRest
    <2>3. s \in Eligible(level)
      BY <1>3, <2>1, <2>2 DEF Made
    <2> QED BY <1>7, <2>1, <2>2, <2>3
  <1> QED BY <1>2, <1>3, <1>4, <1>5, <1>6, <1>7

-----------------------------------------------------------------------------
(* One order more is served, and no other.                                 *)
LEMMA ServedAfter ==
  ASSUME MatcherInv, MakersSeen, Reached(level), Crosses(level_price[level], incoming),
         UNCHANGED <<incoming, before>>, share.largest \in Resting,
         resting \in ToServe, ToServe' = ToServe \ {resting},
         share'.largest = share.largest, share.largest # resting,
         \A s \in ToServe' \cup {share.largest} : data'[s] = data[s],
         NEW k \in At(level_price[level]), Made(resting, k)
  PROVE  /\ \A m \in At(level_price[level]) : /\ Served(m)' <=> Served(m) \/ m = k
                                              /\ IsLargest(m)' <=> IsLargest(m)
         /\ ~Served(k) /\ ~IsLargest(k)
PROOF
  <1>1. resting \in Resting /\ ToServe \subseteq Resting
    BY DEF ToServe, Pending, OrdersAt
  <1>2. /\ \A s \in Resting : \A m, n \in Tradable : Made(s, m) /\ Made(s, n) => m = n
        /\ \A s, t \in Resting : \A m : Made(s, m) /\ Made(t, m) => s = t
    BY LevelMakers
  <1>3. \A m : MakerAt(m)' = MakerAt(m)
    BY SameMakers
  <1>4. \A s \in ToServe' \cup {share.largest} : \A m : Made(s, m)' <=> Made(s, m)
    BY <1>3 DEF Made
  <1>5. ~Served(k) /\ ~IsLargest(k)
    BY <1>1, <1>2 DEF Served, IsLargest
  <1>6. ASSUME NEW m \in At(level_price[level])
        PROVE  Served(m)' <=> Served(m) \/ m = k
    <2>1. Served(m)' <=> \A s \in (ToServe \ {resting}) \cup {share.largest} : ~Made(s, m)
      BY <1>4 DEF Served
    <2>2. m = k <=> Made(resting, m)
      BY <1>1, <1>2 DEF At
    <2>3. \A s \in (ToServe \ {resting}) \cup {share.largest} : s \in Resting /\ s # resting
      BY <1>1
    <2>4. m = k => \A s \in (ToServe \ {resting}) \cup {share.largest} : ~Made(s, m)
      BY <1>1, <1>2, <2>2, <2>3
    <2> QED BY <2>1, <2>2, <2>4 DEF Served
  <1>7. \A m : IsLargest(m)' <=> IsLargest(m)
    BY <1>4 DEF IsLargest
  <1> QED BY <1>5, <1>6, <1>7

(* What the apply pass does for the maker whose turn it is.                *)
Gives(k, n) ==
  /\ k \in At(level_price[level]) /\ ~Served(k) /\ ~IsLargest(k)
  /\ \A m \in At(level_price[level]) : /\ Served(m)' <=> Served(m) \/ m = k
                                       /\ IsLargest(m)' <=> IsLargest(m)
  /\ \A m \in At(level_price[level]) : ~Served(m) /\ ~IsLargest(m) /\ m # k => k[2] < m[2]
  /\ MakersTraded(k, n) /\ n \in Nat
  /\ remaining' = remaining - n
  /\ n = FloorOf(k) + (share.residual - share'.residual)
  /\ FloorOf(k) \in Nat /\ share'.residual \in Nat /\ share'.residual <= share.residual
  /\ share'.residual > 0 => n = MakerAt(k).qty
  /\ qty'[share.largest] = qty[share.largest]
  /\ share'.fill_qty = share.fill_qty /\ share'.eligible_total = share.eligible_total
  /\ share'.largest = share.largest /\ share'.largest_share = share.largest_share

(* FillShare, seen from the makers' side.                                  *)
LEMMA GivesIs ==
  ASSUME MatcherInv, MatcherInv', LevelEntered, LedgerInv, SharesInv, FillShare
  PROVE  \E k, n : Gives(k, n)
PROOF
  <1>1. /\ pc = "share" /\ UNCHANGED <<incoming, before, level>>
        /\ BookInv /\ Reached(level) /\ SharesBounded
        /\ share' = [share EXCEPT !.residual = share'.residual]
    BY DEF FillShare, MatcherInv, PointersSafe
  <1>2. Crosses(level_price[level], incoming)
    BY <1>1 DEF LevelEntered, Entered
  <1>3. MakersSeen /\ FillsTyped
    BY <1>1, MakersView DEF Sweep
  <1>4. PICK r, L, floor, extra :
          /\ r = resting /\ L = share.largest
          /\ floor = FloorShare(resting, share.fill_qty, share.eligible_total)
          /\ extra = Smaller(share.residual, qty[resting] - floor)
    OBVIOUS
  <1>5. /\ r \in ToServe /\ ToServe' = ToServe \ {r} /\ L # r
        /\ qty'[L] = qty[L]
        /\ floor \in Nat /\ floor <= qty[r]
        /\ share'.residual = share.residual - extra
        /\ remaining' = remaining - (floor + extra)
        /\ \/ floor + extra > 0 /\ Trades(r, floor + extra)
           \/ floor + extra = 0 /\ UNCHANGED <<bookVars, remaining, fills>>
        /\ share'.fill_qty = share.fill_qty /\ share'.eligible_total = share.eligible_total
        /\ share'.largest = L /\ share'.largest_share = share.largest_share
    BY <1>4, ServeIs
  <1>6. /\ r \in Eligible(level) /\ L \in Eligible(level) /\ r \in Resting /\ L \in Resting
        /\ ToServe \subseteq Eligible(level) /\ LevelOf(r) = level
        /\ qty[r] \in Nat \ {0}
    BY <1>1, <1>4, <1>5, OrdersView DEF ToServe, SharesBounded, Eligible, OrdersAt, OrdersSeen
  <1>7. PICK k \in At(level_price[level]) : Made(r, k)
    BY <1>1, <1>2, <1>3, <1>6, LevelMakers
  <1>8. \A s \in ToServe' \cup {L} : data'[s] = data[s]
    <2>1. SweepStep /\ pc' = "share" /\ share'.largest = L
      BY <1>5 DEF SweepStep, FillShare
    <2>2. L \in Resting'
      BY <2>1 DEF MatcherInv, PointersSafe, SharesBounded, Eligible, OrdersAt
    <2>3. ToServe' \subseteq Resting'
      BY DEF ToServe, Pending, OrdersAt
    <2> QED BY <2>1, <2>2, <2>3, SweepMovesNothing DEF NothingMoves
  <1>9. /\ \A m \in At(level_price[level]) : /\ Served(m)' <=> Served(m) \/ m = k
                                             /\ IsLargest(m)' <=> IsLargest(m)
        /\ ~Served(k) /\ ~IsLargest(k)
    BY <1>1, <1>2, <1>3, <1>4, <1>5, <1>6, <1>7, <1>8, ServedAfter
  <1>10. Filled(k) = 0
    BY <1>1, <1>9 DEF SharesInv, SharesFair
  <1>11. qty[r] = MakerAt(k).qty
    <2>1. PICK s \in Eligible(level) : Made(s, k) /\ qty[s] = MakerAt(k).qty
      BY <1>1, <1>2, <1>3, <1>7, <1>10, LevelMakers
    <2>2. s = r
      BY <1>1, <1>2, <1>3, <1>6, <1>7, <2>1, LevelMakers DEF Eligible, OrdersAt
    <2> QED BY <2>1, <2>2
  <1>12. FloorOf(k) = floor
    BY <1>4, <1>11 DEF FloorOf, FloorShare
  <1>13. share.residual \in Nat
    BY <1>1 DEF SharesBounded
  <1>14. /\ extra \in Nat /\ extra <= share.residual
         /\ extra < share.residual => floor + extra = qty[r]
    <2>1. PICK res \in Nat, q \in Nat : res = share.residual /\ q = qty[r]
      BY <1>6, <1>13
    <2>2. extra = Smaller(res, q - floor)
      BY <1>4, <2>1
    <2> QED BY <1>5, <2>1, <2>2 DEF Smaller
  <1>15. MakersTraded(k, floor + extra)
    <2>1. CASE floor + extra > 0 /\ Trades(r, floor + extra)
      <3>1. PICK j \in Tradable : Made(r, j) /\ MakersTraded(j, floor + extra)
        BY <1>1, <2>1, CountedMakers DEF Sweep
      <3>2. j = k
        BY <1>1, <1>2, <1>3, <1>6, <1>7, <3>1, LevelMakers DEF At
      <3> QED BY <3>1, <3>2
    <2>2. CASE floor + extra = 0 /\ UNCHANGED <<bookVars, remaining, fills>>
      <3>1. \A m : Filled(m)' = Filled(m)
        BY <1>1, <1>3, <2>2, SameFills
      <3>2. Filled(k) + 0 = Filled(k)
        BY <1>10
      <3> QED BY <2>2, <3>1, <3>2 DEF MakersTraded
    <2> QED BY <1>5, <2>1, <2>2
  <1>16. ASSUME NEW m \in At(level_price[level]), ~Served(m), ~IsLargest(m), m # k
         PROVE  k[2] < m[2]
    <2>1. PICK s \in ToServe : Made(s, m)
      BY <1>16 DEF Served, IsLargest
    <2>2. s # r /\ s \in Resting /\ LevelOf(s) = level /\ Place(r) <= Place(s)
      BY <1>1, <1>2, <1>3, <1>4, <1>6, <1>7, <1>16, <2>1, LevelMakers
         DEF At, ToServe, Pending, OrdersAt
    <2>3. Place(r) # Place(s) /\ Place(r) \in Nat /\ Place(s) \in Nat
      BY <1>1, <1>6, <2>2, PlacesView DEF PlacesSeen
    <2>4. s \in Offered /\ r \in Offered
      BY <1>1, <1>2, <1>3, <1>6, <2>1, LevelMakers
    <2>5. m \in Tradable /\ k \in Tradable /\ m[1] = k[1]
      BY DEF At
    <2>6. ~(m[2] < k[2])
      BY <1>3, <1>7, <2>1, <2>2, <2>3, <2>4, <2>5 DEF MakersSeen, MakersRest
    <2>7. /\ m[2] \in Nat /\ k[2] \in Nat /\ m = <<m[1], m[2]>> /\ k = <<k[1], k[2]>>
      BY <1>3, <2>5 DEF MakersSeen, MakersTyped
    <2>8. m[2] # k[2]
      BY <1>16, <2>5, <2>7
    <2> QED BY <2>6, <2>7, <2>8
  <1>17. Gives(k, floor + extra)
    <2>1. /\ share'.residual \in Nat /\ share'.residual <= share.residual
          /\ share.residual - share'.residual = extra
          /\ share'.residual > 0 => floor + extra = MakerAt(k).qty
          /\ floor + extra \in Nat
      BY <1>5, <1>11, <1>13, <1>14
    <2> QED BY <1>4, <1>5, <1>9, <1>12, <1>15, <1>16, <2>1 DEF Gives
  <1> QED BY <1>17

(* What a maker's turn leaves of the sums and of the others.               *)
LEMMA GivesEven ==
  ASSUME MakersSeen, UNCHANGED <<incoming, before>>, SharesBounded,
         NEW p, p = level_price[level], NEW k, NEW n, Gives(k, n), SharesEven(p),
         Todo \in Int, Todo' = Todo - (remaining - remaining'), remaining \in Int
  PROVE  SharesEven(p)'
PROOF
  <1>1. k \in At(p) /\ k \in Tradable /\ k[1] = p /\ n \in Nat
    BY DEF Gives, At
  <1>2. /\ \A m : MakerAt(m)' = MakerAt(m) /\ First(m)' = First(m)
        /\ At(p)' = At(p) /\ Offering(p)' = Offering(p)
    BY SameMakers
  <1>3. Traded(p) \in Int /\ Traded(p)' = Traded(p) + n
    BY <1>1, TradedAfter DEF Gives, MakersSeen
  <1>4. Todo' = Todo - n
    <2>1. remaining' = remaining - n
      BY DEF Gives
    <2> QED BY <1>1, <2>1
  <1>5. Traded(p)' \in Int /\ Traded(p)' + Todo' = share'.fill_qty
    <2>1. Traded(p) + Todo = share.fill_qty /\ share'.fill_qty = share.fill_qty
      BY DEF SharesEven, Gives
    <2> QED BY <1>1, <1>3, <1>4, <2>1
  <1>6. share'.residual > 0 => LargestFull'
    <2>1. PICK r \in Nat, s \in Int : r = share'.residual /\ s = share.residual
      BY DEF Gives, SharesBounded
    <2>2. r <= s /\ (s > 0 => LargestFull)
      BY <2>1 DEF Gives, SharesEven
    <2>3. LargestFull' <=> LargestFull
      BY DEF Gives, LargestFull
    <2> QED BY <2>1, <2>2, <2>3
  <1>7. \A m \in At(p) : IsLargest(m)' => First(m)' /\ share'.largest_share >= FloorOf(m)'
    <2>1. \A m \in At(p) : IsLargest(m)' <=> IsLargest(m)
      BY DEF Gives
    <2>2. \A m \in At(p) : FloorOf(m)' = FloorOf(m)
      BY <1>2 DEF FloorOf, Gives
    <2>3. share'.largest_share = share.largest_share
      BY DEF Gives
    <2> QED BY <1>2, <2>1, <2>2, <2>3 DEF SharesEven
  <1>8. share'.eligible_total = Offering(p)'
    BY <1>2 DEF Gives, SharesEven
  <1> QED BY <1>2, <1>5, <1>6, <1>7, <1>8 DEF SharesEven

(* Serving a floor share leaves the shares fair: those served have at      *)
(* least their floors, and more only when the largest order and everyone   *)
(* older is full.                                                          *)
LEMMA GivesFair ==
  ASSUME MakersSeen, UNCHANGED <<incoming, before>>, SharesBounded,
         NEW p, p = level_price[level], NEW k, NEW n, Gives(k, n),
         SharesEven(p), SharesFair(p)
  PROVE  SharesFair(p)'
PROOF
  <1>1. k \in At(p) /\ k \in Tradable /\ n \in Nat /\ ~Served(k) /\ ~IsLargest(k)
    BY DEF Gives, At
  <1>2. /\ \A m : MakerAt(m)' = MakerAt(m)
        /\ At(p)' = At(p)
    BY SameMakers
  <1>3. /\ \A m \in At(p) : /\ Served(m)' <=> Served(m) \/ m = k
                            /\ IsLargest(m)' <=> IsLargest(m)
        /\ \A m \in At(p) : FloorOf(m)' = FloorOf(m)
        /\ LargestFull' <=> LargestFull
    BY <1>2 DEF Gives, FloorOf, LargestFull
  <1>4. Filled(k) = 0 /\ Filled(k)' = n
    <2>1. Filled(k) = 0
      BY <1>1 DEF SharesFair
    <2>2. Filled(k)' = Filled(k) + n
      BY DEF Gives, MakersTraded
    <2> QED BY <1>1, <2>1, <2>2
  <1>5. \A m \in At(p) : m # k => Filled(m)' = Filled(m) /\ (Full(m)' <=> Full(m))
    BY <1>2 DEF Gives, MakersTraded, Full, At
  <1>6. /\ share.residual \in Nat /\ share'.residual \in Nat
        /\ share'.residual <= share.residual
        /\ n = FloorOf(k) + (share.residual - share'.residual) /\ FloorOf(k) \in Nat
        /\ share'.residual > 0 => n = MakerAt(k).qty
        /\ share.residual > 0 => LargestFull
    BY DEF SharesBounded, Gives, SharesEven
  <1>7. ServedFair(k)'
    <2>1. n >= FloorOf(k) /\ (n > FloorOf(k) => share.residual > 0)
      BY <1>1, <1>6
    <2>2. share'.residual > 0 => Full(k)'
      BY <1>2, <1>4, <1>6 DEF Full
    <2>3. Filled(k)' >= FloorOf(k)' /\ (Filled(k)' > FloorOf(k)' => LargestFull')
      BY <1>1, <1>3, <1>4, <1>6, <2>1
    <2> QED BY <2>2, <2>3 DEF ServedFair
  <1>8. ASSUME NEW m \in At(p)
        PROVE  IF Served(m)' THEN ServedFair(m)' ELSE Filled(m)' = 0
    <2>1. CASE m = k
      BY <1>3, <1>7, <2>1
    <2>2. CASE m # k
      <3>1. Served(m)' <=> Served(m)
        BY <1>3, <2>2
      <3>2. CASE Served(m)
        <4>1. ServedFair(m)
          BY <3>2 DEF SharesFair
        <4>2. share'.residual > 0 => Full(m)'
          BY <1>5, <1>6, <2>2, <4>1 DEF ServedFair
        <4>3. Filled(m)' >= FloorOf(m)' /\ (Filled(m)' > FloorOf(m)' => LargestFull')
          BY <1>3, <1>5, <2>2, <4>1 DEF ServedFair
        <4>4. ServedFair(m)'
          BY <4>2, <4>3 DEF ServedFair
        <4> QED BY <3>1, <3>2, <4>4
      <3>3. CASE ~Served(m)
        BY <1>5, <2>2, <3>1, <3>3 DEF SharesFair
      <3> QED BY <3>2, <3>3
    <2> QED BY <2>1, <2>2
  <1>9. ASSUME NEW m \in At(p), NEW l \in At(p), Served(m)', Served(l)', m[2] < l[2],
               Filled(l)' > FloorOf(l)'
        PROVE  Full(m)'
    <2>1. m[2] \in Nat /\ l[2] \in Nat
      BY DEF At, MakersSeen, MakersTyped
    <2>2. m # l
      BY <1>9, <2>1
    <2>3. CASE l = k
      <3>1. m # k /\ Served(m)
        BY <1>3, <1>9, <2>2, <2>3
      <3>2. share.residual > 0
        <4>1. n > FloorOf(k)
          BY <1>3, <1>4, <1>9, <2>3
        <4> QED BY <1>6, <4>1
      <3>3. Full(m)
        BY <3>1, <3>2 DEF SharesFair, ServedFair
      <3> QED BY <1>5, <3>1, <3>3
    <2>4. CASE l # k /\ m = k
      <3>1. l[2] < k[2]
        BY <1>1, <1>3, <1>9, <2>4 DEF SharesFair
      <3> QED BY <1>9, <2>1, <2>4, <3>1
    <2>5. CASE l # k /\ m # k
      <3>1. Served(m) /\ Served(l) /\ Filled(l) > FloorOf(l)
        BY <1>3, <1>5, <1>9, <2>5
      <3>2. Full(m)
        BY <1>9, <3>1 DEF SharesFair
      <3> QED BY <1>5, <2>5, <3>2
    <2> QED BY <2>3, <2>4, <2>5
  <1>10. ASSUME NEW m \in At(p), NEW l \in At(p), Served(m)', ~Served(l)', ~IsLargest(l)'
         PROVE  m[2] < l[2]
    <2>1. l # k /\ ~Served(l) /\ ~IsLargest(l)
      BY <1>3, <1>10
    <2>2. CASE m = k
      BY <2>1, <2>2 DEF Gives
    <2>3. CASE m # k
      <3>1. Served(m)
        BY <1>3, <1>10, <2>3
      <3> QED BY <2>1, <3>1 DEF SharesFair
    <2> QED BY <2>2, <2>3
  <1> QED BY <1>2, <1>8, <1>9, <1>10 DEF SharesFair

-----------------------------------------------------------------------------
(* What a level offers is what its makers offered, while none of them has  *)
(* traded.                                                                 *)
LEMMA OfferingIs ==
  ASSUME MatcherInv, MakersSeen, Reached(level), Crosses(level_price[level], incoming),
         NEW p, p = level_price[level], \A m \in At(p) : Filled(m) = 0
  PROVE  Total(qty, Eligible(level)) = Offering(p) /\ Traded(p) = 0
PROOF
  <1>1. PICK E : E = Eligible(level)
    OBVIOUS
  <1>2. /\ \A s \in E : \E m \in At(p) : Made(s, m)
        /\ \A s \in Resting : \A m, n \in Tradable : Made(s, m) /\ Made(s, n) => m = n
        /\ \A s, t \in Resting : \A m : Made(s, m) /\ Made(t, m) => s = t
        /\ \A m \in At(p) : \E s \in E : Made(s, m) /\ qty[s] = MakerAt(m).qty
    BY <1>1, LevelMakers
  <1>3. E \subseteq Resting /\ E \subseteq OrderSlots /\ IsFiniteSet(E)
    <2>1. E \subseteq Resting
      BY <1>1 DEF Eligible, OrdersAt
    <2>2. E \subseteq OrderSlots
      BY <2>1, OrdersView DEF MatcherInv, OrdersSeen
    <2> QED BY <2>1, <2>2, BookAssumption, FS_Subset
  <1>4. PICK g : g = [m \in At(p) |-> CHOOSE s \in E : Made(s, m) /\ qty[s] = MakerAt(m).qty]
    OBVIOUS
  <1>5. \A m \in At(p) : g[m] \in E /\ Made(g[m], m) /\ qty[g[m]] = MakerAt(m).qty
    <2>1. ASSUME NEW m \in At(p)
          PROVE  g[m] \in E /\ Made(g[m], m) /\ qty[g[m]] = MakerAt(m).qty
      <3>1. g[m] = CHOOSE s \in E : Made(s, m) /\ qty[s] = MakerAt(m).qty
        BY <1>4
      <3> QED BY <1>2, <3>1
    <2> QED BY <2>1
  <1>6. Corresponds(g, At(p), E)
    <2>1. \A m, n \in At(p) : g[m] = g[n] => m = n
      BY <1>2, <1>3, <1>5 DEF At
    <2>2. \A s \in E : \E m \in At(p) : s = g[m]
      BY <1>2, <1>3, <1>5
    <2>3. E = {g[m] : m \in At(p)}
      BY <1>5, <2>2
    <2> QED BY <2>1, <2>3 DEF Corresponds
  <1>7. Reads(MadeQty(p), qty, g, At(p))
    BY <1>5 DEF Reads, MadeQty, MakersSeen, MakersTyped, At
  <1>8. IsFiniteSet(At(p))
    BY AtIsFinite DEF MakersSeen, AtFinite
  <1>9. Total(qty, E) = Total(MadeQty(p), At(p))
    BY <1>3, <1>6, <1>7, <1>8, TotalOver
  <1>10. Traded(p) = 0
    <2>1. \A m \in At(p) : FilledAt(p)[m] = 0
      BY DEF FilledAt
    <2> QED BY <1>8, <2>1, TotalZero DEF Traded
  <1> QED BY <1>1, <1>9, <1>10 DEF Offering

(* When the shares are computed nobody at the level has been served, and   *)
(* the account of offered and traded quantity is even.                     *)
LEMMA SharesOpen ==
  ASSUME MatcherInv, MatcherInv', LedgerInv, UntouchedInv, EnterLevelProRata,
         Eligible(level) # {}
  PROVE  SharesInv'
PROOF
  <1>1. /\ pc = "level" /\ mode = "PRO_RATA" /\ SweepGoesOn /\ level # Null
        /\ share' = Shares(level) /\ level' = level
        /\ UNCHANGED <<bookVars, incoming, before, fills, remaining>>
        /\ remaining \in Nat \ {0} /\ Crosses(level_price[level], incoming)
    BY DEF EnterLevelProRata, SweepGoesOn, MatcherInv, MatcherTypeOK
  <1>2. BookInv /\ BookInv' /\ Reached(level) /\ level \in InUse
    BY <1>1 DEF MatcherInv, PointersSafe, Reached, OfSide
  <1>3. MakersSeen /\ FillsTyped
    BY <1>1, MakersView DEF Sweep
  <1>4. PICK p, L : p = level_price[level] /\ L = Largest(level)
    OBVIOUS
  <1>5. \A m \in At(p) : Filled(m) = 0
    <2>1. p \in Int
      BY <1>2, <1>4, LevelsView, BookAssumption DEF LevelsSeen
    <2>2. ~Better(Opposite(incoming.side), p, p)
      BY <2>1 DEF Better
    <2> QED BY <1>1, <1>4, <2>2 DEF UntouchedInv, Untouched, At
  <1>6. Total(qty, Eligible(level)) = Offering(p) /\ Traded(p) = 0
    BY <1>1, <1>2, <1>3, <1>4, <1>5, OfferingIs
  <1>7. SharesComputed(level, share')
    BY <1>1, <1>2, SharesIs
  <1>8. ToServe' = Eligible(level) \ {L} /\ Todo' = share'.fill_qty
    BY <1>2, <1>4, AccountOpens
  <1>9. /\ L \in Eligible(level) /\ L \in Resting
        /\ \A s \in Eligible(level) :
             qty[s] < qty[L] \/ (qty[s] = qty[L] /\ Place(L) <= Place(s))
    BY <1>2, <1>4, LargestIs DEF Eligible, OrdersAt
  <1>10. /\ share'.largest = L /\ qty' = qty /\ data' = data
         /\ \A m : MakerAt(m)' = MakerAt(m)
         /\ At(p)' = At(p) /\ Offering(p)' = Offering(p)
         /\ \A m : First(m)' = First(m)
         /\ \A m : Filled(m)' = Filled(m)
         /\ Traded(p)' = Traded(p)
    BY <1>1, <1>3, <1>4, <1>7, SameMakers, SameFills DEF SharesComputed, bookVars, orderVars
  <1>11. /\ \A s \in Eligible(level) : \E m \in At(p) : Made(s, m)
         /\ \A s, t \in Resting : \A m : Made(s, m) /\ Made(t, m) => s = t
         /\ \A m \in At(p) : \E s \in Eligible(level) : Made(s, m) /\ qty[s] = MakerAt(m).qty
         /\ Eligible(level) \subseteq Offered
    BY <1>1, <1>2, <1>3, <1>4, <1>5, LevelMakers
  <1>12. \A s : \A m : Made(s, m)' <=> Made(s, m)
    BY <1>10 DEF Made
  <1>13. PICK f, t, floors, fx, extra :
           /\ f = share'.fill_qty /\ t = share'.eligible_total
           /\ floors = Total(Floors(Eligible(level), f, t), Eligible(level))
           /\ fx = FloorShare(L, f, t)
           /\ extra = Smaller(f - floors, qty[L] - fx)
    OBVIOUS
  <1>14. /\ floors \in Nat /\ floors <= f /\ fx \in Nat /\ fx <= qty[L]
         /\ share'.residual = f - floors - extra
         /\ share'.largest_share = fx + extra
         /\ t = Total(qty, Eligible(level)) /\ t \in Nat \ {0} /\ f = Smaller(remaining, t)
    BY <1>4, <1>7, <1>13 DEF SharesComputed
  <1>15. PICK q \in Nat : q = qty[L]
    BY <1>2, <1>9, OrdersView DEF OrdersSeen
  <1>16. f \in Nat /\ extra \in Nat /\ (f - floors - extra > 0 => fx + extra = q)
    <2>1. f \in Nat
      BY <1>1, <1>14 DEF Smaller
    <2>2. floors \in Nat /\ floors <= f /\ fx \in Nat /\ fx <= q /\ extra = Smaller(f - floors, q - fx)
      BY <1>13, <1>14, <1>15
    <2> QED BY <2>1, <2>2 DEF Smaller
  <1>17. share'.residual > 0 => LargestFull'
    BY <1>10, <1>14, <1>15, <1>16 DEF LargestFull
  <1>18. ASSUME NEW m \in At(p), IsLargest(m)'
         PROVE  First(m) /\ share'.largest_share >= FloorOf(m)'
    <2>1. Made(L, m)
      BY <1>10, <1>12, <1>18 DEF IsLargest
    <2>2. qty[L] = MakerAt(m).qty
      BY <1>9, <1>11, <2>1 DEF Eligible, OrdersAt
    <2>3. FloorOf(m)' = fx
      BY <1>10, <1>13, <2>2 DEF FloorOf, FloorShare
    <2>4. share'.largest_share >= fx
      BY <1>14, <1>16
    <2>5. ASSUME NEW n \in At(m[1])
          PROVE  \/ MakerAt(n).qty < MakerAt(m).qty
                 \/ MakerAt(n).qty = MakerAt(m).qty /\ m[2] <= n[2]
      <3>1. n \in At(p) /\ n \in Tradable /\ m \in Tradable /\ n[1] = m[1]
        BY DEF At
      <3>2. PICK t_1 \in Eligible(level) : Made(t_1, n) /\ qty[t_1] = MakerAt(n).qty
        BY <1>11, <3>1
      <3>3. ASSUME n[2] < m[2] PROVE Place(t_1) < Place(L)
        BY <1>3, <1>9, <1>11, <2>1, <3>1, <3>2, <3>3 DEF MakersSeen, MakersRest
      <3>4. m[2] \in Nat /\ n[2] \in Nat
        BY <1>3, <3>1 DEF MakersSeen, MakersTyped
      <3>5. Place(t_1) \in Nat /\ Place(L) \in Nat
        BY <1>2, <1>9, PlacesView DEF PlacesSeen, Eligible, OrdersAt
      <3> QED BY <1>9, <2>2, <3>2, <3>3, <3>4, <3>5
    <2>6. First(m)
      BY <2>5 DEF First
    <2> QED BY <2>3, <2>4, <2>6
  <1>19. SharesEven(p)'
    <2>1. Traded(p)' \in Int /\ Traded(p)' + Todo' = share'.fill_qty
      BY <1>6, <1>8, <1>10, <1>13, <1>16
    <2>2. share'.eligible_total = Offering(p)'
      BY <1>6, <1>10, <1>13, <1>14
    <2> QED BY <1>10, <1>17, <1>18, <2>1, <2>2 DEF SharesEven
  <1>20. \A m \in At(p) : ~Served(m)'
    <2>1. \A m \in At(p) : \E s \in ToServe' \cup {share'.largest} : Made(s, m)'
      BY <1>8, <1>10, <1>11, <1>12
    <2> QED BY <2>1 DEF Served
  <1>21. SharesFair(p)'
    BY <1>5, <1>10, <1>20 DEF SharesFair
  <1>22. level_price'[level'] = p
    BY <1>1, <1>4 DEF bookVars, levelVars
  <1> QED BY <1>19, <1>21, <1>22 DEF SharesInv

(* When the largest order has had its share too, the level is fair.        *)
LEMMA SharesClose ==
  ASSUME MatcherInv, MatcherInv', LevelEntered, SweepInv, LedgerInv, SharesInv,
         FillLargest, NEW p, p = level_price[level]
  PROVE  /\ Fair(p)'
         /\ \E k \in At(p), n \in Nat : MakersTraded(k, n)
PROOF
  <1>1. /\ pc = "share" /\ UNCHANGED <<incoming, before>>
        /\ BookInv /\ Reached(level) /\ SharesBounded /\ SharesEven(p) /\ SharesFair(p)
    BY DEF FillLargest, MatcherInv, PointersSafe, SharesInv
  <1>2. Crosses(level_price[level], incoming)
    BY <1>1 DEF LevelEntered, Entered
  <1>3. MakersSeen /\ FillsTyped
    BY <1>1, MakersView DEF Sweep
  <1>4. PICK L, n : L = share.largest /\ n = share.largest_share
    OBVIOUS
  <1>5. L \in Eligible(level) /\ L \in Resting /\ n \in Nat
    BY <1>1, <1>4 DEF SharesBounded, Eligible, OrdersAt
  <1>6. PICK k \in At(p) : Made(L, k)
    BY <1>1, <1>2, <1>3, <1>5, LevelMakers
  <1>7. k \in Tradable /\ k[1] = p /\ IsLargest(k) /\ ~Served(k)
    BY <1>4, <1>6 DEF At, IsLargest, Served
  <1>8. Filled(k) = 0 /\ qty[L] = MakerAt(k).qty
    <2>1. Filled(k) = 0
      BY <1>1, <1>7 DEF SharesFair
    <2>2. PICK s \in Eligible(level) : Made(s, k) /\ qty[s] = MakerAt(k).qty
      BY <1>1, <1>2, <1>3, <1>6, <2>1, LevelMakers
    <2>3. s = L
      BY <1>1, <1>2, <1>3, <1>5, <1>6, <2>2, LevelMakers DEF Eligible, OrdersAt
    <2> QED BY <2>1, <2>2, <2>3
  <1>9. MakersTraded(k, n)
    <2>1. CASE n > 0
      <3>1. Trades(L, n)
        BY <1>1, <1>2, <1>4, <1>5, <2>1 DEF Trades, FillLargest, SharesBounded, Eligible
      <3>2. PICK j \in Tradable : Made(L, j) /\ MakersTraded(j, n)
        BY <1>1, <3>1, CountedMakers DEF Sweep
      <3>3. j = k
        BY <1>1, <1>2, <1>3, <1>5, <1>6, <3>2, LevelMakers DEF At
      <3> QED BY <3>2, <3>3
    <2>2. CASE n = 0
      <3>1. fills' = fills
        BY <1>4, <2>2 DEF FillLargest
      <3>2. \A m : Filled(m)' = Filled(m)
        BY <1>1, <1>3, <3>1, SameFills
      <3>3. Filled(k) + 0 = Filled(k)
        BY <1>8
      <3> QED BY <2>2, <3>2, <3>3 DEF MakersTraded
    <2> QED BY <1>5, <2>1, <2>2
  <1>10. ToServe = {} /\ Todo = n
    BY <1>4, SharesDone
  <1>11. Traded(p)' = share.fill_qty
    <2>1. Traded(p) \in Int /\ Traded(p)' = Traded(p) + n
      BY <1>1, <1>3, <1>5, <1>7, <1>9, TradedAfter DEF MakersSeen
    <2> QED BY <1>1, <1>10, <2>1 DEF SharesEven
  <1>12. /\ \A m : MakerAt(m)' = MakerAt(m) /\ First(m)' = First(m)
         /\ At(p)' = At(p) /\ Offering(p)' = Offering(p)
    BY <1>1, SameMakers
  <1>13. \A m \in At(p) : FloorAt(p, m)' = FloorOf(m)
    BY <1>1, <1>11, <1>12 DEF FloorAt, FloorOf, SharesEven
  <1>14. Filled(k)' = n
    BY <1>5, <1>8, <1>9 DEF MakersTraded
  <1>15. ASSUME NEW m \in At(p), m # k
         PROVE  Served(m) /\ ServedFair(m) /\ Filled(m)' = Filled(m) /\ (Full(m)' <=> Full(m))
    <2>1. ~Made(L, m)
      BY <1>1, <1>2, <1>3, <1>5, <1>6, <1>15, LevelMakers DEF At
    <2>2. Served(m)
      BY <1>4, <1>10, <2>1 DEF Served
    <2>3. ServedFair(m)
      BY <1>1, <2>2 DEF SharesFair
    <2>4. Filled(m)' = Filled(m)
      BY <1>9, <1>15 DEF MakersTraded, At
    <2> QED BY <1>12, <2>2, <2>3, <2>4 DEF Full
  <1>16. \A m \in At(p) : Filled(m)' >= FloorAt(p, m)'
    <2>1. Filled(k)' >= FloorOf(k)
      BY <1>1, <1>4, <1>6, <1>7, <1>14 DEF SharesEven
    <2>2. \A m \in At(p) : m # k => Filled(m)' >= FloorOf(m)
      BY <1>15 DEF ServedFair
    <2> QED BY <1>13, <2>1, <2>2
  <1>17. First(k)
    BY <1>1, <1>6, <1>7 DEF SharesEven
  <1>18. ASSUME NEW m \in At(p), First(m) PROVE m = k
    <2>1. m \in At(k[1]) /\ k \in At(m[1])
      BY <1>6, <1>7 DEF At
    <2>2. /\ m[2] \in Nat /\ k[2] \in Nat /\ m = <<m[1], m[2]>> /\ k = <<k[1], k[2]>>
          /\ m[1] = k[1] /\ MakerAt(m).qty \in Nat /\ MakerAt(k).qty \in Nat
      BY <1>3, <1>7 DEF MakersSeen, MakersTyped, At
    <2>3. MakerAt(k).qty < MakerAt(m).qty \/ (MakerAt(k).qty = MakerAt(m).qty /\ m[2] <= k[2])
      BY <1>18, <2>1 DEF First
    <2>4. MakerAt(m).qty < MakerAt(k).qty \/ (MakerAt(m).qty = MakerAt(k).qty /\ k[2] <= m[2])
      BY <1>17, <2>1 DEF First
    <2>5. m[2] = k[2]
      BY <2>2, <2>3, <2>4
    <2> QED BY <2>2, <2>5
  <1>19. ASSUME NEW m \in At(p), NEW l \in At(p), m # l, InLine(m, l), Filled(l)' > FloorAt(p, l)'
         PROVE  Full(m)'
    <2>1. l # k
      BY <1>17, <1>18, <1>19 DEF InLine
    <2>2. Served(l) /\ ServedFair(l) /\ Filled(l) > FloorOf(l)
      BY <1>13, <1>15, <1>19, <2>1
    <2>3. CASE m = k
      <3>1. n = qty[L]
        BY <1>4, <2>2 DEF ServedFair, LargestFull
      <3> QED BY <1>8, <1>12, <1>14, <2>3, <3>1 DEF Full
    <2>4. CASE m # k
      <3>1. m[2] < l[2]
        BY <1>18, <1>19, <2>4 DEF InLine
      <3>2. Full(m)
        BY <1>1, <1>15, <2>2, <2>4, <3>1 DEF SharesFair
      <3> QED BY <1>15, <2>4, <3>2
    <2> QED BY <2>3, <2>4
  <1>20. \A m, l \in At(p) : InLine(m, l)' <=> InLine(m, l)
    BY <1>12 DEF InLine
  <1>21. Fair(p)'
    BY <1>12, <1>16, <1>19, <1>20 DEF Fair
  <1> QED BY <1>5, <1>9, <1>21

-----------------------------------------------------------------------------
(* While nothing has been traded, everything is fair.                      *)
NoneFilled == \A m \in Tradable : Filled(m) = 0

(* Where nothing is filled, every price is fair.                           *)
LEMMA NoneFilledFair == MakersTyped /\ NoneFilled => \A p : Fair(p)
PROOF
  <1> SUFFICES ASSUME MakersTyped, NoneFilled, NEW p PROVE Fair(p)
    OBVIOUS
  <1>1. IsFiniteSet(At(p)) /\ \A m \in At(p) : m \in Tradable /\ Filled(m) = 0
    BY AtIsFinite DEF AtFinite, At, NoneFilled
  <1>2. Traded(p) = 0
    <2>1. \A m \in At(p) : FilledAt(p)[m] = 0
      BY <1>1 DEF FilledAt
    <2> QED BY <1>1, <2>1, TotalZero DEF Traded
  <1>3. ASSUME NEW m \in At(p) PROVE FloorAt(p, m) = 0
    <2>1. PICK S, f : S = At(p) /\ f = MadeQty(p)
      OBVIOUS
    <2>2. \A x \in S : f[x] \in Nat \ {0}
      BY <1>1, <2>1 DEF MadeQty, MakersTyped
    <2>3. Total(f, S) = f[m] + Total(f, S \ {m})
      BY <1>1, <2>1, <2>2, TotalRemove
    <2>4. Total(f, S \ {m}) \in Nat
      <3>1. IsFiniteSet(S \ {m})
        BY <1>1, <2>1, FS_Subset
      <3> QED BY <2>2, <3>1, TotalsBelow
    <2>5. PICK t \in Nat \ {0}, q \in Nat : t = Offering(p) /\ q = MakerAt(m).qty
      BY <1>1, <2>1, <2>2, <2>3, <2>4 DEF Offering, MakersTyped
    <2>6. (0 * q) \div t = 0
      BY <2>5
    <2> QED BY <1>2, <2>5, <2>6 DEF FloorAt
  <1> QED BY <1>1, <1>3 DEF Fair

AllFair == \A p : Fair(p)

(* The same after a step.                                                  *)
LEMMA NoneFilledFairAfter == MakersTyped' /\ NoneFilled' => AllFair'
PROOF
  <1>1. MakersTyped /\ NoneFilled => AllFair
    BY NoneFilledFair DEF AllFair
  <1> QED BY <1>1, PTL

(* MakersTypedIs after a step.                                             *)
LEMMA MakersTypedAfter ==
  RecordsTyped' /\ RecordsDistinct' /\ RecordsKept' => MakersTyped'
PROOF
  BY MakersTypedIs, PTL

(* When match() begins, no maker has been filled.                          *)
LEMMA NoneFilledAtFirst ==
  ASSUME MatcherInv, CallClean, BeginMatch PROVE AllFair' /\ NoneFilled'
PROOF
  <1>1. LedgerInv' /\ pc' \in Sweep \cup {"returned"}
    BY LedgerOpens DEF BeginMatch, Sweep
  <1>2. MakersTyped'
    BY <1>1, MakersTypedAfter DEF LedgerInv
  <1>3. PICK F : F = fills' /\ F = <<>>
    BY DEF BeginMatch, CallClean
  <1>4. \A id : FilledOf(id)' = 0
    <2>1. F \in Seq(FillRecord) /\ \A id : Total(FillQty(F), FillsOf(F, id)) = 0
      BY <1>3, NoFills
    <2> QED BY <1>3, <2>1, FilledOfAfter DEF FillsRead, FillsTyped
  <1>5. \A m : Filled(m)' = 0
    <2>1. TAKE m
    <2>2. PICK id : id = MakerAt(m)'.order_id
      OBVIOUS
    <2>3. Filled(m)' = FilledOf(id)'
      BY <2>2 DEF Filled
    <2> QED BY <1>4, <2>3
  <1>6. NoneFilled'
    BY <1>5 DEF NoneFilled
  <1> QED BY <1>2, <1>6, NoneFilledFairAfter

(* The prices behind a level are those behind the next one.                *)
LEMMA UntouchedBehind ==
  ASSUME NEW p, NEW n, p \in Int, n \in Int, MakersTyped,
         Better(Opposite(incoming.side), p, n), Untouched(p)
  PROVE  Untouched(n)
PROOF
  <1>1. \A m \in Tradable : m[1] \in Int
    BY BookAssumption DEF MakersTyped
  <1> QED BY <1>1 DEF Untouched, Better

(* A trade at a better price does not touch them.                          *)
LEMMA UntouchedTraded ==
  ASSUME MakersTyped, UNCHANGED <<incoming, before>>,
         NEW p, NEW n, p \in Int, n \in Int, Better(Opposite(incoming.side), p, n),
         NEW k \in At(p), NEW x, MakersTraded(k, x), Untouched(n)
  PROVE  Untouched(n)'
PROOF
  <1>1. Tradable' = Tradable
    BY SameMakers
  <1>2. k[1] = p
    BY DEF At
  <1> QED BY <1>1, <1>2 DEF Untouched, MakersTraded

(* Without a new fill, an untouched price stays so.                        *)
LEMMA UntouchedSame ==
  ASSUME FillsTyped, UNCHANGED <<incoming, before, fills>>, NEW p, Untouched(p)
  PROVE  Untouched(p)'
PROOF
  <1>1. Tradable' = Tradable
    BY SameMakers
  <1> QED BY <1>1, SameFills DEF Untouched

(* The level the sweep goes on to is behind the one it is at.              *)
LEMMA FollowingBehind ==
  ASSUME MatcherInv, pc = "level", level # Null, NEW n, n = Following(level), n # Null
  PROVE  /\ level_price[level] \in Int /\ level_price[n] \in Int
         /\ Better(Opposite(incoming.side), level_price[level], level_price[n])
PROOF
  <1>1. Reached(level) /\ level \in InUse /\ BookInv /\ incoming \in Order
    BY DEF MatcherInv, MatcherTypeOK, PointersSafe, Reached, OfSide
  <1>2. /\ OfSide(n, Opposite(incoming.side))
        /\ Better(Opposite(incoming.side), level_price[level], level_price[n])
    BY <1>1, NextLevelIs DEF Following, Opposite, Side, Reached
  <1>3. level_price[level] \in Prices /\ level_price[n] \in Prices
    BY <1>1, <1>2, LevelsView DEF LevelsSeen, OfSide
  <1> QED BY <1>2, <1>3, BookAssumption

ProRataInv == SharesInv /\ UntouchedInv /\ FairInv

(* A step that leaves the book, the fills and the pass alone.              *)
LEMMA SharesSame ==
  ASSUME FillsTyped, UNCHANGED <<bookVars, incoming, before, fills, share>>,
         ToServe' = ToServe, Todo' = Todo, NEW p, SharesEven(p), SharesFair(p)
  PROVE  SharesEven(p)' /\ SharesFair(p)'
PROOF
  <1>1. /\ \A m : MakerAt(m)' = MakerAt(m) /\ First(m)' = First(m)
        /\ At(p)' = At(p) /\ Offering(p)' = Offering(p)
    BY SameMakers
  <1>2. /\ \A m : Filled(m)' = Filled(m)
        /\ Traded(p)' = Traded(p)
    BY SameFills
  <1>3. data' = data /\ qty' = qty /\ share' = share
    BY DEF bookVars, orderVars
  <1>4. /\ \A m : Served(m)' <=> Served(m)
        /\ \A m : IsLargest(m)' <=> IsLargest(m)
        /\ \A m : FloorOf(m)' = FloorOf(m)
        /\ \A m : Full(m)' <=> Full(m)
        /\ LargestFull' <=> LargestFull
    BY <1>1, <1>2, <1>3 DEF Served, IsLargest, Made, FloorOf, Full, LargestFull
  <1>5. \A m : ServedFair(m)' <=> ServedFair(m)
    BY <1>2, <1>3, <1>4 DEF ServedFair
  <1>6. SharesEven(p)'
    BY <1>1, <1>2, <1>3, <1>4 DEF SharesEven
  <1>7. SharesFair(p)'
    BY <1>1, <1>2, <1>4, <1>5 DEF SharesFair
  <1> QED BY <1>6, <1>7

(* When match() begins no price has been touched.                          *)
LEMMA ProRataOpens ==
  ASSUME MatcherInv, CallClean, BeginMatch PROVE ProRataInv'
PROOF
  <1>1. AllFair' /\ NoneFilled'
    BY NoneFilledAtFirst
  <1>2. pc' \in {"level", "returned"}
    BY DEF BeginMatch
  <1>3. SharesInv'
    BY <1>2 DEF SharesInv
  <1>4. UntouchedInv'
    BY <1>1, <1>2 DEF UntouchedInv, Untouched, NoneFilled
  <1>5. FairInv'
    BY <1>1 DEF FairInv, AllFair
  <1> QED BY <1>3, <1>4, <1>5 DEF ProRataInv

(* The sweep or the call is over, or nothing happens.                      *)
LEMMA ProRataQuiet ==
  ASSUME MatcherInv, LedgerInv, ProRataInv, pc \in Sweep \cup {"returned"},
         EndSweep \/ FinishMatch \/ UNCHANGED vars
  PROVE  ProRataInv'
PROOF
  <1>1. UNCHANGED <<incoming, mode, before, fills>>
    BY DEF EndSweep, FinishMatch, vars, localVars
  <1>2. FillsTyped
    BY DEF LedgerInv, FillsFit, FillsTyped
  <1>3. \A p : Fair(p)' <=> Fair(p)
    BY <1>1, <1>2, SameFills
  <1>4. CASE EndSweep \/ FinishMatch
    <2>1. pc \in {"level", "rest"} /\ pc' \in {"rest", "returned"}
      BY <1>4 DEF EndSweep, FinishMatch
    <2>2. FairInv'
      BY <1>1, <1>3, <2>1 DEF ProRataInv, FairInv, Sweep
    <2> QED BY <2>1, <2>2 DEF ProRataInv, SharesInv, UntouchedInv
  <1>5. CASE UNCHANGED vars
    <2>1. UNCHANGED <<bookVars, share, pc, level, next_level>> /\ level_price' = level_price
      BY <1>5 DEF vars, localVars, bookVars, levelVars
    <2>2. FairInv'
      BY <1>1, <1>3, <2>1 DEF ProRataInv, FairInv
    <2>3. UntouchedInv'
      <3>1. PICK x, y : x = level_price[level] /\ y = level_price[next_level]
        OBVIOUS
      <3>2. Untouched(x) => Untouched(x)'
        BY <1>1, <1>2, UntouchedSame
      <3>3. Untouched(y) => Untouched(y)'
        BY <1>1, <1>2, UntouchedSame
      <3> QED BY <1>1, <2>1, <3>1, <3>2, <3>3 DEF ProRataInv, UntouchedInv
    <2>4. SharesInv'
      <3>1. SUFFICES ASSUME pc = "share" PROVE SharesInv'
        BY <2>1 DEF SharesInv
      <3>2. ToServe' = ToServe /\ Todo' = Todo
        BY <1>5, <3>1, PassSame
      <3>3. PICK x : x = level_price[level]
        OBVIOUS
      <3>4. SharesEven(x)' /\ SharesFair(x)'
        BY <1>1, <1>2, <2>1, <3>1, <3>2, <3>3, SharesSame DEF ProRataInv, SharesInv
      <3> QED BY <2>1, <3>3, <3>4 DEF SharesInv
    <2> QED BY <2>2, <2>3, <2>4 DEF ProRataInv
  <1> QED BY <1>4, <1>5

(* Taking up a level in pro-rata mode: its shares are open, and the prices *)
(* behind it untouched.                                                    *)
LEMMA ProRataEnters ==
  ASSUME MatcherInv, MatcherInv', LedgerInv, ProRataInv, EnterLevelProRata
  PROVE  ProRataInv'
PROOF
  <1>1. /\ pc = "level" /\ mode = "PRO_RATA" /\ level # Null
        /\ UNCHANGED <<bookVars, incoming, mode, before, fills>>
        /\ level_price' = level_price
    BY DEF EnterLevelProRata, SweepGoesOn, bookVars, levelVars
  <1>2. MakersTyped /\ FillsTyped
    BY <1>1, MakersView DEF Sweep, MakersSeen
  <1>3. FairInv'
    <2>1. \A p : Fair(p)' <=> Fair(p)
      BY <1>1, <1>2, SameFills
    <2> QED BY <1>1, <2>1 DEF ProRataInv, FairInv, Sweep
  <1>4. PICK n : n = Following(level)
    OBVIOUS
  <1>5. n # Null => Untouched(level_price[n])'
    <2>1. SUFFICES ASSUME n # Null PROVE Untouched(level_price[n])'
      OBVIOUS
    <2>2. PICK x, y : x = level_price[level] /\ y = level_price[n]
      OBVIOUS
    <2>3. x \in Int /\ y \in Int /\ Better(Opposite(incoming.side), x, y)
      BY <1>1, <1>4, <2>1, <2>2, FollowingBehind
    <2>4. Untouched(x)
      BY <1>1, <2>2 DEF ProRataInv, UntouchedInv
    <2>5. Untouched(y)'
      BY <1>1, <1>2, <2>3, <2>4, UntouchedBehind, UntouchedSame
    <2> QED BY <1>1, <2>2, <2>5
  <1>6. CASE Eligible(level) = {}
    <2>1. pc' = "level" /\ level' = n
      BY <1>1, <1>4, <1>6 DEF EnterLevelProRata
    <2> QED BY <1>1, <1>3, <1>5, <2>1 DEF ProRataInv, SharesInv, UntouchedInv
  <1>7. CASE Eligible(level) # {}
    <2>1. pc' = "share" /\ next_level' = n
      BY <1>1, <1>4, <1>7 DEF EnterLevelProRata
    <2>2. SharesInv'
      BY <1>7, SharesOpen DEF ProRataInv
    <2> QED BY <1>1, <1>3, <1>5, <2>1, <2>2 DEF ProRataInv, UntouchedInv
  <1> QED BY <1>6, <1>7

(* Passing over an order in the second pass changes no share.              *)
LEMMA ProRataPasses ==
  ASSUME MatcherInv, MatcherInv', SweepInv, LedgerInv, ProRataInv, PassOver
  PROVE  ProRataInv'
PROOF
  <1>1. /\ pc = "share" /\ pc' = "share"
        /\ UNCHANGED <<bookVars, incoming, mode, before, fills, share, level, next_level>>
        /\ level_price' = level_price
    BY DEF PassOver, bookVars, levelVars
  <1>2. FillsTyped
    BY <1>1, MakersView DEF Sweep
  <1>3. FairInv'
    <2>1. \A p : Fair(p)' <=> Fair(p)
      BY <1>1, <1>2, SameFills
    <2> QED BY <1>1, <2>1 DEF ProRataInv, FairInv
  <1>4. PICK x, y : x = level_price[level] /\ y = level_price[next_level]
    OBVIOUS
  <1>5. UntouchedInv'
    <2>1. Untouched(y) => Untouched(y)'
      BY <1>1, <1>2, UntouchedSame
    <2> QED BY <1>1, <1>4, <2>1 DEF ProRataInv, UntouchedInv
  <1>6. SharesInv'
    <2>1. ToServe' = ToServe /\ Todo' = Todo
      BY <1>1, AccountPasses DEF SweepInv, MatcherInv
    <2>2. SharesEven(x)' /\ SharesFair(x)'
      BY <1>1, <1>2, <1>4, <2>1, SharesSame DEF ProRataInv, SharesInv
    <2> QED BY <1>1, <1>4, <2>2 DEF SharesInv
  <1> QED BY <1>3, <1>5, <1>6 DEF ProRataInv

(* A trade at the level that is shared out.                                *)
LEMMA ProRataElsewhere ==
  ASSUME MatcherInv, MatcherInv', LevelEntered, LedgerInv, ProRataInv,
         FillShare \/ FillLargest,
         NEW p, p = level_price[level], NEW k \in At(p), NEW n \in Nat, MakersTraded(k, n)
  PROVE  /\ \A q \in Prices : q # p => Fair(q)'
         /\ next_level # Null =>
              /\ level_price'[next_level] = level_price[next_level]
              /\ Untouched(level_price[next_level])'
         /\ FillShare => level_price'[level] = p
PROOF
  <1>1. /\ pc = "share" /\ mode = "PRO_RATA" /\ UNCHANGED <<incoming, mode, before>>
        /\ pc' \in {"share", "level"} /\ SweepStep
    BY DEF FillShare, FillLargest, MatcherInv, MatcherTypeOK, SweepStep
  <1>2. MakersTyped
    BY <1>1, MakersView DEF Sweep, MakersSeen
  <1>3. /\ \A l \in InUse' : level_price'[l] = level_price[l]
        /\ level \in InUse /\ (next_level # Null => next_level \in InUse)
    BY <1>1, SweepMovesNothing DEF NothingMoves, MatcherInv, PointersSafe, Reached, OfSide
  <1>4. k \in Tradable /\ k[1] = p
    BY DEF At
  <1>5. \A q \in Prices : q # p => Fair(q)'
    <2>1. ASSUME NEW q \in Prices, q # p PROVE Fair(q)'
      <3>1. Fair(q)
        BY <1>1, <2>1 DEF ProRataInv, FairInv, Sweep
      <3> QED BY <1>1, <1>2, <1>4, <2>1, <3>1, TradedAfter
    <2> QED BY <2>1
  <1>6. ASSUME next_level # Null
        PROVE  /\ level_price'[next_level] = level_price[next_level]
               /\ Untouched(level_price[next_level])'
    <2>1. next_level \in InUse'
      <3>1. FillShare => next_level' = next_level /\ pc' = "share"
        BY <1>1 DEF FillShare
      <3>2. FillLargest => level' = next_level /\ pc' = "level"
        BY DEF FillLargest
      <3> QED BY <1>6, <3>1, <3>2 DEF MatcherInv, PointersSafe, Reached, OfSide
    <2>2. PICK y : y = level_price[next_level]
      OBVIOUS
    <2>3. y = level_price'[next_level]
      BY <1>3, <2>1, <2>2
    <2>4. Better(Opposite(incoming.side), p, y)
      BY <1>1, <1>6, <2>2 DEF LevelEntered, Entered
    <2>5. p \in Int /\ y \in Int
      BY <1>3, <1>6, <2>2, LevelsView, BookAssumption DEF LevelsSeen, MatcherInv
    <2>6. Untouched(y)'
      BY <1>1, <1>2, <1>6, <2>2, <2>4, <2>5, UntouchedTraded DEF ProRataInv, UntouchedInv
    <2>7. next_level' = next_level \/ FillLargest
      BY DEF FillShare
    <2>8. next_level' = next_level
      BY <2>7 DEF FillLargest
    <2> QED BY <2>2, <2>3, <2>6, <2>8
  <1>7. FillShare => level_price'[level] = p
    <2>1. SUFFICES ASSUME FillShare PROVE level_price'[level] = p
      OBVIOUS
    <2>2. level' = level /\ pc' = "share"
      BY <1>1, <2>1 DEF FillShare
    <2>3. level \in InUse'
      BY <2>2 DEF MatcherInv, PointersSafe, Reached, OfSide
    <2> QED BY <1>3, <2>3
  <1> QED BY <1>5, <1>6, <1>7

(* Filling a floor share keeps the pro-rata invariant.                     *)
LEMMA ProRataServes ==
  ASSUME MatcherInv, MatcherInv', LevelEntered, SweepInv, LedgerInv, ProRataInv, FillShare
  PROVE  ProRataInv'
PROOF
  <1>1. /\ pc = "share" /\ pc' = "share" /\ SharesBounded /\ remaining \in Int
        /\ UNCHANGED <<incoming, mode, before, level, next_level>>
    BY DEF FillShare, MatcherInv, PointersSafe, MatcherTypeOK
  <1>2. MakersSeen
    BY <1>1, MakersView DEF Sweep
  <1>3. PICK p : p = level_price[level]
    OBVIOUS
  <1>4. SharesEven(p) /\ SharesFair(p)
    BY <1>1, <1>3 DEF ProRataInv, SharesInv
  <1>5. PICK k, n : Gives(k, n)
    BY GivesIs DEF ProRataInv
  <1>6. k \in At(p) /\ n \in Nat /\ MakersTraded(k, n)
    BY <1>3, <1>5 DEF Gives
  <1>7. /\ \A q \in Prices : q # p => Fair(q)'
        /\ next_level # Null =>
             /\ level_price'[next_level] = level_price[next_level]
             /\ Untouched(level_price[next_level])'
        /\ level_price'[level] = p
    BY <1>3, <1>6, ProRataElsewhere
  <1>8. Todo \in Int /\ Todo' = Todo - (remaining - remaining')
    <2>1. SharesAccount
      BY <1>1 DEF SweepInv
    <2>2. Todo \in Int
      BY <1>1, <2>1 DEF SharesAccount, SharesBounded, Todo
    <2> QED BY <2>1, <2>2, AccountServes DEF MatcherInv
  <1>9. SharesEven(p)'
    BY <1>1, <1>2, <1>3, <1>4, <1>5, <1>8, GivesEven
  <1>10. SharesFair(p)'
    BY <1>1, <1>2, <1>3, <1>4, <1>5, GivesFair
  <1>11. SharesInv'
    BY <1>1, <1>7, <1>9, <1>10 DEF SharesInv
  <1>12. UntouchedInv'
    BY <1>1, <1>7 DEF UntouchedInv
  <1>13. FairInv'
    BY <1>1, <1>7 DEF FairInv
  <1> QED BY <1>11, <1>12, <1>13 DEF ProRataInv

(* The residual fill closes the level: its price is fair, and the prices   *)
(* behind it are untouched.                                                *)
LEMMA ProRataCloses ==
  ASSUME MatcherInv, MatcherInv', LevelEntered, SweepInv, LedgerInv, ProRataInv, FillLargest
  PROVE  ProRataInv'
PROOF
  <1>1. /\ pc = "share" /\ pc' = "level" /\ level' = next_level
        /\ UNCHANGED <<incoming, mode, before, next_level>>
    BY DEF FillLargest
  <1>2. PICK p : p = level_price[level]
    OBVIOUS
  <1>3. Fair(p)' /\ \E k \in At(p), n \in Nat : MakersTraded(k, n)
    BY <1>2, SharesClose DEF ProRataInv
  <1>4. /\ \A q \in Prices : q # p => Fair(q)'
        /\ next_level # Null =>
             /\ level_price'[next_level] = level_price[next_level]
             /\ Untouched(level_price[next_level])'
    BY <1>2, <1>3, ProRataElsewhere
  <1>5. FairInv'
    BY <1>3, <1>4 DEF FairInv
  <1>6. UntouchedInv'
    BY <1>1, <1>4 DEF UntouchedInv
  <1> QED BY <1>1, <1>5, <1>6 DEF ProRataInv, SharesInv

(* Every step keeps the pro-rata invariant.                                *)
LEMMA ProRataStep ==
  ASSUME MatcherInv, MatcherInv', LevelEntered, SweepInv, CallClean, LedgerInv,
         ProRataInv, [Next]_vars
  PROVE  ProRataInv'
PROOF
  <1>1. CASE Call \/ Return
    <2>1. pc' \in {"idle", "match"}
      BY <1>1 DEF Call, Submit, Cancel, Replace, Return
    <2> QED BY <2>1 DEF ProRataInv, SharesInv, UntouchedInv, FairInv, Sweep
  <1>2. CASE BeginMatch
    BY <1>2, ProRataOpens
  <1>3. CASE EnterLevel \/ SkipSelf \/ FillResting \/ LeaveLevel
    <2>1. /\ mode' = mode /\ mode = "PRICE_TIME" /\ pc' \in {"visit", "level"}
      BY <1>3 DEF EnterLevel, SkipSelf, FillResting, LeaveLevel, MatcherInv, MatcherTypeOK
    <2> QED BY <2>1 DEF ProRataInv, SharesInv, UntouchedInv, FairInv
  <1>4. CASE EnterLevelProRata
    BY <1>4, ProRataEnters
  <1>5. CASE PassOver
    BY <1>5, ProRataPasses
  <1>6. CASE FillShare
    BY <1>6, ProRataServes
  <1>7. CASE FillLargest
    BY <1>7, ProRataCloses
  <1>8. CASE EndSweep \/ FinishMatch
    BY <1>8, ProRataQuiet DEF EndSweep, FinishMatch, Sweep
  <1>9. CASE UNCHANGED vars
    <2>1. CASE pc \in Sweep \cup {"returned"}
      BY <1>9, <2>1, ProRataQuiet
    <2>2. CASE pc \notin Sweep \cup {"returned"}
      BY <1>9, <2>2 DEF vars, ProRataInv, SharesInv, UntouchedInv, FairInv, Sweep
    <2> QED BY <2>1, <2>2
  <1> QED BY <1>1, <1>2, <1>3, <1>4, <1>5, <1>6, <1>7, <1>8, <1>9 DEF Next, Step

-----------------------------------------------------------------------------
(* The folded sums of ProRataFair are the totals used here.                *)
LEMMA AtSumsAre ==
  ASSUME NEW p, IsFiniteSet(At(p))
  PROVE  /\ MapThenSumSet(LAMBDA m : MakerAt(m).qty, At(p)) = Offering(p)
         /\ MapThenSumSet(Filled, At(p)) = Traded(p)
PROOF
  <1> DEFINE S == At(p)
             offers(g) ==
               g = [U \in SUBSET S |->
                      IF U = {} THEN 0 ELSE MakerAt(Chosen(U)).qty + g[U \ {Chosen(U)}]]
             trades(g) ==
               g = [U \in SUBSET S |->
                      IF U = {} THEN 0 ELSE Filled(Chosen(U)) + g[U \ {Chosen(U)}]]
  <1>1. /\ MapThenSumSet(LAMBDA m : MakerAt(m).qty, S) = (CHOOSE g : offers(g))[S]
        /\ MapThenSumSet(Filled, S) = (CHOOSE g : trades(g))[S]
    BY Zenon DEF MapThenSumSet, MapThenFoldSet, Chosen
  <1>2. \A U \in SUBSET S : U # {} =>
          /\ MakerAt(Chosen(U)).qty = MadeQty(p)[Chosen(U)]
          /\ Filled(Chosen(U)) = FilledAt(p)[Chosen(U)]
    BY DEF Chosen, MadeQty, FilledAt
  <1>3. \A g : /\ offers(g) <=> Accumulates(g, MadeQty(p), S)
               /\ trades(g) <=> Accumulates(g, FilledAt(p), S)
    BY <1>2 DEF Accumulates
  <1>4. (\E g : Accumulates(g, MadeQty(p), S)) /\ \E g : Accumulates(g, FilledAt(p), S)
    BY AccumulationExists
  <1>5. offers(CHOOSE g : offers(g)) /\ trades(CHOOSE g : trades(g))
    <2>1. (\E g : offers(g)) /\ \E g : trades(g)
      BY <1>3, <1>4
    <2> HIDE DEF offers, trades
    <2> QED BY <2>1, Zenon
  <1>6. /\ Accumulates(CHOOSE g : offers(g), MadeQty(p), S)
        /\ Accumulates(CHOOSE g : trades(g), FilledAt(p), S)
    <2> HIDE DEF offers, trades
    <2> QED BY <1>3, <1>5
  <1>7. S \in SUBSET S
    OBVIOUS
  <1> HIDE DEF offers, trades
  <1> QED BY <1>1, <1>6, <1>7, TotalIs DEF Offering, Traded

(* Fair at every price is what ProRataFair says.                           *)
LEMMA FairIsProRata == LedgerInv /\ FairInv => ProRataFair
PROOF
  <1> SUFFICES ASSUME LedgerInv, FairInv, Returned, mode = "PRO_RATA" PROVE ProRataFair
    BY DEF ProRataFair
  <1>1. pc = "returned" /\ MakersTyped
    BY MakersTypedIs DEF Returned, LedgerInv
  <1>2. ASSUME NEW p \in Prices
        PROVE  LET at == {m \in Tradable : m[1] = p}
                   total == MapThenSumSet(LAMBDA m : MakerAt(m).qty, at)
                   traded == MapThenSumSet(Filled, at)
                   floor(m) == (traded * MakerAt(m).qty) \div total
                   full(m) == Filled(m) = MakerAt(m).qty
                   first(m) == \A n \in at : \/ MakerAt(n).qty < MakerAt(m).qty
                                             \/ MakerAt(n).qty = MakerAt(m).qty /\ m[2] <= n[2]
                   before_in_line(m, n) == first(m) \/ (~first(n) /\ m[2] < n[2])
               IN  /\ \A m \in at : Filled(m) >= floor(m)
                   /\ \A m, n \in at :
                        m # n /\ before_in_line(m, n) /\ Filled(n) > floor(n) => full(m)
    <2> DEFINE at == {m \in Tradable : m[1] = p}
               total == MapThenSumSet(LAMBDA m : MakerAt(m).qty, at)
               traded == MapThenSumSet(Filled, at)
               first(m) == \A n \in at : \/ MakerAt(n).qty < MakerAt(m).qty
                                         \/ MakerAt(n).qty = MakerAt(m).qty /\ m[2] <= n[2]
    <2>1. Fair(p)
      BY <1>1 DEF FairInv
    <2>2. at = At(p) /\ IsFiniteSet(At(p))
      BY <1>1, AtIsFinite DEF At, AtFinite
    <2>3. total = Offering(p) /\ traded = Traded(p)
      BY <2>2, AtSumsAre DEF At
    <2>4. \A m \in At(p) : first(m) <=> First(m)
      BY <2>2 DEF First, At
    <2> HIDE DEF at, total, traded, first
    <2>5. \A m \in at : Filled(m) >= (traded * MakerAt(m).qty) \div total
      BY <2>1, <2>2, <2>3 DEF Fair, FloorAt
    <2>6. \A m, n \in at :
            /\ m # n /\ (first(m) \/ (~first(n) /\ m[2] < n[2]))
            /\ Filled(n) > (traded * MakerAt(n).qty) \div total
            => Filled(m) = MakerAt(m).qty
      BY <2>1, <2>2, <2>3, <2>4 DEF Fair, FloorAt, InLine, Full
    <2> USE DEF at, total, traded, first
    <2> QED BY <2>5, <2>6, Zenon
  <1> QED BY <1>2, Zenon DEF ProRataFair

(* In pro-rata mode each price is shared out fairly: nobody gets less than *)
(* its rounded-down share, and a unit lost to rounding goes to an order    *)
(* only when the first of the largest orders and all older ones are full.  *)
THEOREM ProRataAlwaysFair == Spec => []ProRataFair
PROOF
  <1>1. Init => LedgerInv /\ ProRataInv
    BY DEF Init, LedgerInv, ProRataInv, SharesInv, UntouchedInv, FairInv, Sweep
  <1>2. /\ MatcherInv /\ MatcherInv' /\ LevelEntered /\ SweepInv /\ CallClean
        /\ LedgerInv /\ ProRataInv /\ [Next]_vars
        => LedgerInv' /\ ProRataInv'
    BY LedgerStep, ProRataStep
  <1>3. LedgerInv /\ ProRataInv => ProRataFair
    BY FairIsProRata DEF ProRataInv
  <1> QED BY <1>1, <1>2, <1>3, MatcherInductive, PromisesKept, PTL DEF Spec

-----------------------------------------------------------------------------
(* A fold of MatchingEngine is a total.                                    *)
LEMMA EngineTotalIs ==
  ASSUME NEW S, IsFiniteSet(S), NEW f
  PROVE  Engine!Total(f, S) = Total(f, S)
PROOF
  <1>1. Engine!Total(f, S) = (CHOOSE g : Accumulates(g, f, S))[S]
    BY Zenon DEF Engine!Total, Engine!MapThenSumSet, Engine!MapThenFoldSet, Accumulates, Chosen
  <1> QED BY <1>1 DEF Total

(* Sets that correspond one to one are of one size.                        *)
LEMMA SameSize ==
  ASSUME NEW S, IsFiniteSet(S), NEW T, NEW f, f = [x \in S |-> f[x]],
         \A x \in S : f[x] \in T, \A x, y \in S : f[x] = f[y] => x = y,
         \A z \in T : \E x \in S : f[x] = z
  PROVE  IsFiniteSet(T) /\ Cardinality(T) = Cardinality(S)
PROOF
  <1>1. f \in [S -> T]
    OBVIOUS
  <1>2. f \in Bijection(S, T)
    BY <1>1 DEF Bijection, Injection, Surjection, IsInjective
  <1> QED BY <1>2, FS_Bijection DEF ExistsBijection

-----------------------------------------------------------------------------
(* match() as one step of MatchingEngine.  What each price and each order  *)
(* has traded when the sweep ends is determined: it is what reaches them   *)
(* when the order's quantity is poured over the prices, and what a price   *)
(* has traded over its orders (PourIs).                                    *)

(* What the ledger says of all the makers together.                        *)
FilledAll == [m \in Tradable |-> Filled(m)]
OfferedAll == [m \in Tradable |-> MakerAt(m).qty]

BetterThan(p) == {m \in Tradable : Better(Opposite(incoming.side), m[1], p)}

(* The mode is one of those set, what may be traded with is finite, and    *)
(* what was seen of the book is a book.                                    *)
CallSane ==
  pc \in Sweep =>
    /\ mode \in Modes /\ IsFiniteSet(Tradable)
    /\ \A side \in Side, p \in Prices : before[side][p] \in Seq(Abstract!Order)

(* The sweep is over: all that is known of it by then.                     *)
SweepOver ==
  /\ pc = "rest" /\ MatcherInv /\ SweepInv /\ CallClean /\ CallSane
  /\ LedgerInv /\ PriorityInv /\ ProRataInv

(* An order that is ahead of one that has traded is filled completely.     *)
LEMMA AheadIsFull ==
  ASSUME SweepOver, NEW m \in Tradable, NEW n \in Tradable, Filled(n) > 0,
         \/ Better(Opposite(incoming.side), m[1], n[1])
         \/ mode = "PRICE_TIME" /\ m[1] = n[1] /\ m[2] < n[2]
  PROVE  Full(m)
PROOF
  <1>1. RecordsTyped /\ PriorityKept
    BY DEF SweepOver, LedgerInv, PriorityInv, Sweep
  <1>2. PICK q \in Record : /\ MayTrade(q) /\ q.price = m[1] /\ q.place = m[2]
                            /\ MakerAt(m) = Old(q)
    BY <1>1, TradableRecord
  <1>3. PICK r \in Record : /\ MayTrade(r) /\ r.price = n[1] /\ r.place = n[2]
                            /\ MakerAt(n) = Old(r)
    BY <1>1, TradableRecord
  <1>4. Filled(m) = FilledOf(Old(q).order_id) /\ Filled(n) = FilledOf(Old(r).order_id)
    BY <1>2, <1>3 DEF Filled
  <1>5. InFront(q, r)
    BY <1>2, <1>3 DEF InFront
  <1> QED BY <1>1, <1>2, <1>3, <1>4, <1>5 DEF PriorityKept, Full

(* While a quantity is left, everything that could be traded with has been.*)
LEMMA LeftMeansFull ==
  ASSUME SweepOver, remaining > 0, NEW m \in Tradable PROVE Full(m)
PROOF
  <1>1. MakersTyped /\ MakersRest
    BY MakersView DEF SweepOver, MakersSeen, Sweep
  <1>2. Offered = {}
    BY DEF SweepOver, SweepInv, Swept
  <1>3. Filled(m) \in Nat /\ MakerAt(m).qty \in Nat /\ Filled(m) <= MakerAt(m).qty
    BY <1>1 DEF MakersTyped
  <1>4. ~(Filled(m) < MakerAt(m).qty)
    BY <1>1, <1>2 DEF MakersRest
  <1> QED BY <1>3, <1>4 DEF Full

(* What the makers have been filled for is what the order no longer wants. *)
LEMMA FilledTotal ==
  ASSUME SweepOver
  PROVE  /\ Total(FilledAll, Tradable) = incoming.qty - remaining
         /\ incoming.qty \in Nat /\ remaining \in Nat /\ remaining <= incoming.qty
PROOF
  <1>1. /\ RecordsTyped /\ FillsFit /\ FillsRead /\ MakersTyped /\ IsFiniteSet(Tradable)
        /\ remaining \in Nat /\ incoming \in Order
    BY MakersView, FilledOfIs
    DEF SweepOver, MakersSeen, LedgerInv, CallSane, SweepInv, Sweep, MatcherInv, MatcherTypeOK
  <1>2. incoming.qty \in Nat
    BY <1>1, BookAssumption DEF Order
  <1>3. PICK F : F = fills /\ F \in Seq(FillRecord)
    BY <1>1 DEF FillsFit
  <1>4. IsFiniteSet(DOMAIN F)
    BY <1>3, FS_Interval
  <1>5. \A i \in DOMAIN F : FillQty(F)[i] \in Nat
    <2>1. \A i \in DOMAIN F : F[i] \in FillRecord
      BY <1>3
    <2> QED BY <2>1 DEF FillQty, FillRecord
  <1>6. \A i \in DOMAIN F : \E m \in Tradable : MakerAt(m).order_id = F[i].maker
    <2>1. TAKE i \in DOMAIN F
    <2>2. PICK r \in Record : MayTrade(r) /\ Old(r).order_id = F[i].maker
      BY <1>1, <1>3 DEF FillsFit
    <2>3. PICK m \in Tradable : MakerAt(m) = Old(r)
      BY <1>1, <2>2, RecordTradable
    <2> QED BY <2>2, <2>3
  <1>7. PICK c : c = [i \in DOMAIN F |-> CHOOSE m \in Tradable : MakerAt(m).order_id = F[i].maker]
    OBVIOUS
  <1>8. \A i \in DOMAIN F : c[i] \in Tradable /\ MakerAt(c[i]).order_id = F[i].maker
    BY <1>6, <1>7
  <1>9. ASSUME NEW m \in Tradable
        PROVE  FilledAll[m] = Total(FillQty(F), Class(c, DOMAIN F, m))
    <2>1. Class(c, DOMAIN F, m) = FillsOf(F, MakerAt(m).order_id)
      BY <1>1, <1>8 DEF Class, FillsOf, MakersTyped
    <2>2. Filled(m) = Total(FillQty(F), FillsOf(F, MakerAt(m).order_id))
      BY <1>1, <1>3 DEF FillsRead, Filled
    <2> QED BY <2>1, <2>2 DEF FilledAll
  <1>10. Total(FilledAll, Tradable) = Total(FillQty(F), DOMAIN F)
    <2>1. PICK f, h, S, T : f = FillQty(F) /\ h = FilledAll /\ S = DOMAIN F /\ T = Tradable
      OBVIOUS
    <2>2. (\A i \in S : f[i] \in Int) /\ IsFiniteSet(S) /\ IsFiniteSet(T)
      BY <1>1, <1>4, <1>5, <2>1
    <2>3. \A i \in S : c[i] \in T
      BY <1>8, <2>1
    <2>4. \A t \in T : h[t] = Total(f, Class(c, S, t))
      BY <1>9, <2>1
    <2>5. Total(h, T) = Total(f, S)
      BY <2>2, <2>3, <2>4, TotalByClass
    <2> QED BY <2>1, <2>5
  <1>11. Total(FillQty(F), DOMAIN F) \in Nat
    BY <1>4, <1>5, TotalNat
  <1>12. incoming.qty = remaining + Total(FillQty(F), DOMAIN F)
    BY <1>1, <1>3 DEF FillsFit
  <1> QED BY <1>1, <1>2, <1>10, <1>11, <1>12

(* What a price has traded is what reaches it of the order's quantity.     *)
LEMMA PricePours ==
  ASSUME SweepOver, NEW p \in Int
  PROVE  /\ Traded(p) = Pour(incoming.qty, Total(OfferedAll, BetterThan(p)), Offering(p))
         /\ Traded(p) \in Nat /\ Offering(p) = Total(OfferedAll, At(p))
         /\ IsFiniteSet(At(p)) /\ IsFiniteSet(BetterThan(p))
         /\ Traded(p) <= Offering(p) /\ Offering(p) \in Nat
PROOF
  <1>1. MakersTyped /\ IsFiniteSet(Tradable)
    BY MakersView DEF SweepOver, MakersSeen, CallSane, Sweep
  <1>2. PICK S, got, room : S = Tradable /\ got = FilledAll /\ room = OfferedAll
    OBVIOUS
  <1>3. \A x \in S : /\ got[x] = Filled(x) /\ room[x] = MakerAt(x).qty
                     /\ got[x] \in Nat /\ room[x] \in Nat /\ got[x] <= room[x]
                     /\ x[1] \in Int
                     /\ got[x] = room[x] <=> Full(x)
    BY <1>1, <1>2, BookAssumption DEF MakersTyped, FilledAll, OfferedAll, Full
  <1>4. PICK amount \in Nat : amount = incoming.qty
    BY FilledTotal
  <1>5. /\ Total(got, S) <= amount
        /\ Total(got, S) < amount => \A x \in S : got[x] = room[x]
    <2>1. Total(got, S) = amount - remaining /\ remaining \in Nat
      BY <1>2, <1>4, FilledTotal
    <2>2. remaining > 0 => \A x \in S : Full(x)
      BY <1>2, LeftMeansFull
    <2> QED BY <1>3, <2>1, <2>2
  <1>6. PICK G, H : G = At(p) /\ H = BetterThan(p)
    OBVIOUS
  <1>7. /\ G \in SUBSET S /\ H \in SUBSET S /\ G \cap H = {}
        /\ \A x \in G : x[1] = p
        /\ \A y \in H : Better(Opposite(incoming.side), y[1], p)
        /\ \A y \in S \ (G \cup H) : Better(Opposite(incoming.side), p, y[1])
    BY <1>2, <1>3, <1>6 DEF At, BetterThan, Better
  <1>8. \A x \in G, y \in H : got[x] > 0 => got[y] = room[y]
    <2> SUFFICES ASSUME NEW x \in G, NEW y \in H, got[x] > 0 PROVE got[y] = room[y]
      OBVIOUS
    <2>1. x \in Tradable /\ y \in Tradable /\ Filled(x) > 0
      BY <1>2, <1>3, <1>7
    <2>2. Better(Opposite(incoming.side), y[1], x[1])
      BY <1>7
    <2>3. Full(y)
      BY <2>1, <2>2, AheadIsFull
    <2> QED BY <1>2, <1>3, <2>1, <2>3
  <1>9. \A x \in G, y \in S \ (G \cup H) : got[y] > 0 => got[x] = room[x]
    <2> SUFFICES ASSUME NEW x \in G, NEW y \in S \ (G \cup H), got[y] > 0
                 PROVE  got[x] = room[x]
      OBVIOUS
    <2>1. x \in Tradable /\ y \in Tradable /\ Filled(y) > 0
      BY <1>2, <1>3, <1>7
    <2>2. Better(Opposite(incoming.side), x[1], y[1])
      BY <1>7
    <2>3. Full(x)
      BY <2>1, <2>2, AheadIsFull
    <2> QED BY <1>2, <1>3, <2>1, <2>3
  <1>10. Total(got, G) = Pour(amount, Total(room, H), Total(room, G))
    <2>1. IsFiniteSet(S) /\ \A x \in S : got[x] \in Nat /\ room[x] \in Nat /\ got[x] <= room[x]
      BY <1>1, <1>2, <1>3
    <2>2. G \in SUBSET S /\ H \in SUBSET S /\ G \cap H = {}
      BY <1>7
    <2> HIDE <1>7, <1>3
    <2> QED BY <1>5, <1>8, <1>9, <2>1, <2>2, PourIs
  <1>11. IsFiniteSet(G) /\ IsFiniteSet(H)
    BY <1>1, <1>2, <1>7, FS_Subset
  <1>12. Total(got, G) = Traded(p) /\ Total(room, G) = Offering(p)
    <2>1. \A x \in G : got[x] = FilledAt(p)[x] /\ room[x] = MadeQty(p)[x]
      BY <1>3, <1>6, <1>7 DEF FilledAt, MadeQty
    <2> QED BY <1>6, <1>11, <2>1, TotalSame DEF Traded, Offering
  <1>13. Total(got, G) \in Nat /\ Total(room, G) \in Nat /\ Total(got, G) <= Total(room, G)
    BY <1>3, <1>7, <1>11, TotalsBelow
  <1> QED BY <1>2, <1>4, <1>6, <1>10, <1>11, <1>12, <1>13

(* What an order is sure of: in pro-rata mode its share, rounded down; and *)
(* what it got beyond that, and could have got.                            *)
Sure == [m \in Tradable |-> IF mode = "PRO_RATA" THEN FloorAt(m[1], m) ELSE 0]
Beyond == [m \in Tradable |-> Filled(m) - Sure[m]]
Spare == [m \in Tradable |-> OfferedAll[m] - Sure[m]]

(* Those at the price of m that what is not sure goes to before it.        *)
BeforeInLine(m) ==
  {n \in At(m[1]) :
     n # m /\ IF mode = "PRO_RATA" THEN InLine(n, m) ELSE n[2] < m[2]}

(* No order gets less than it is sure of.                                  *)
LEMMA SureGot ==
  ASSUME SweepOver, NEW m \in Tradable
  PROVE  /\ Sure[m] \in Nat /\ Beyond[m] \in Nat /\ Spare[m] \in Nat
         /\ Beyond[m] <= Spare[m]
         /\ Filled(m) = Sure[m] + Beyond[m] /\ OfferedAll[m] = Sure[m] + Spare[m]
         /\ (Beyond[m] = Spare[m] <=> Full(m))
         /\ mode = "PRO_RATA" => Sure[m] = FloorAt(m[1], m)
         /\ mode # "PRO_RATA" => Sure[m] = 0
PROOF
  <1>1. MakersTyped /\ (mode = "PRO_RATA" => \A p \in Prices : Fair(p))
    BY MakersView DEF SweepOver, MakersSeen, Sweep, ProRataInv, FairInv
  <1>2. PICK q, f \in Nat : /\ q = MakerAt(m).qty /\ f = Filled(m) /\ f <= q /\ q # 0
                            /\ OfferedAll[m] = q
    BY <1>1 DEF MakersTyped, OfferedAll
  <1>3. m[1] \in Prices /\ m[1] \in Int /\ m \in At(m[1])
    BY <1>1, BookAssumption DEF MakersTyped, At
  <1>4. CASE mode = "PRO_RATA"
    <2>1. Filled(m) >= FloorAt(m[1], m)
      BY <1>1, <1>3, <1>4 DEF Fair
    <2>2. PICK t, o \in Nat : t = Traded(m[1]) /\ o = Offering(m[1])
      BY <1>3, PricePours
    <2>3. o # 0
      <3>1. /\ IsFiniteSet(At(m[1])) /\ o = Total(OfferedAll, At(m[1]))
        BY <1>3, <2>2, PricePours
      <3>2. {m} \in SUBSET At(m[1]) /\ \A x \in At(m[1]) : OfferedAll[x] \in Nat
        BY <1>1, <1>3 DEF At, MakersTyped, OfferedAll
      <3>3. Total(OfferedAll, {m}) <= o
        BY <3>1, <3>2, TotalWithin
      <3>4. Total(OfferedAll, {m}) = OfferedAll[m]
        <4>1. OfferedAll[m] \in Int
          BY <1>2
        <4> QED BY <4>1, TotalOne
      <3> QED BY <1>2, <3>3, <3>4
    <2>4. FloorAt(m[1], m) = (t * q) \div o
      BY <1>2, <2>2 DEF FloorAt
    <2>5. (t * q) \div o \in Nat
      <3>1. t * q \in Nat
        OBVIOUS
      <3> QED BY <2>3, <3>1, DivBounds
    <2>6. Sure[m] = FloorAt(m[1], m)
      BY <1>4 DEF Sure
    <2>7. PICK b \in Nat : b = Sure[m] /\ b <= f
      BY <1>2, <2>1, <2>4, <2>5, <2>6
    <2>8. Beyond[m] = f - b /\ Spare[m] = q - b
      BY <1>2, <2>7 DEF Beyond, Spare
    <2> QED BY <1>2, <1>4, <2>6, <2>7, <2>8 DEF Full
  <1>5. CASE mode # "PRO_RATA"
    <2>1. Sure[m] = 0
      BY <1>5 DEF Sure
    <2>2. Beyond[m] = f /\ Spare[m] = q
      BY <1>2, <2>1 DEF Beyond, Spare
    <2> QED BY <1>2, <1>5, <2>1, <2>2 DEF Full
  <1> QED BY <1>4, <1>5

(* What an order gets beyond what it is sure of is what reaches it of what *)
(* its price has left to give.                                             *)
LEMMA MakerPours ==
  ASSUME SweepOver, NEW m \in Tradable
  PROVE  Filled(m) = Sure[m] + Pour(Traded(m[1]) - Total(Sure, At(m[1])),
                                    Total(Spare, BeforeInLine(m)), Spare[m])
PROOF
  <1>1. MakersTyped /\ (mode = "PRO_RATA" => \A p \in Prices : Fair(p))
    BY MakersView DEF SweepOver, MakersSeen, Sweep, ProRataInv, FairInv
  <1>2. mode = "PRO_RATA" \/ mode = "PRICE_TIME"
    BY MatcherAssumption DEF SweepOver, CallSane, Sweep
  <1>3. m[1] \in Prices /\ m[1] \in Int
    BY <1>1, BookAssumption DEF MakersTyped
  <1>4. PICK S, H, got, room : /\ S = At(m[1]) /\ H = BeforeInLine(m)
                               /\ got = Beyond /\ room = Spare
    OBVIOUS
  <1>5. IsFiniteSet(S) /\ m \in S /\ \A x \in S : x \in Tradable /\ x[1] = m[1]
    BY <1>3, <1>4, PricePours DEF At
  <1>6. \A x \in S : /\ got[x] \in Nat /\ room[x] \in Nat /\ got[x] <= room[x]
                     /\ (got[x] = room[x] <=> Full(x))
                     /\ Filled(x) = Sure[x] + got[x]
                     /\ Sure[x] \in Nat
    BY <1>4, <1>5, SureGot
  <1>7. PICK a \in Nat : /\ a = Traded(m[1]) - Total(Sure, At(m[1])) /\ Total(got, S) = a
    <2>1. Total(FilledAt(m[1]), S) = Total(Sure, S) + Total(got, S)
      <3>1. \A x \in S : /\ Sure[x] \in Int /\ got[x] \in Int
                         /\ FilledAt(m[1])[x] = Sure[x] + got[x]
        BY <1>4, <1>6 DEF FilledAt
      <3> QED BY <1>5, <3>1, TotalPlus
    <2>2. Total(got, S) \in Nat /\ Total(Sure, S) \in Nat
      BY <1>5, <1>6, TotalNat
    <2> QED BY <1>4, <2>1, <2>2 DEF Traded
  <1>8. {m} \in SUBSET S /\ H \in SUBSET S /\ {m} \cap H = {}
    BY <1>4, <1>5 DEF BeforeInLine
  <1>9. \A x \in {m}, y \in H : got[x] > 0 => got[y] = room[y]
    <2> SUFFICES ASSUME NEW y \in H, got[m] > 0 PROVE Full(y)
      BY <1>6, <1>8
    <2>1. y \in At(m[1]) /\ y \in Tradable /\ y # m /\ y[1] = m[1] /\ m \in At(m[1])
      BY <1>4, <1>5, <1>8 DEF BeforeInLine
    <2>2. CASE mode = "PRO_RATA"
      <3>1. InLine(y, m) /\ Fair(m[1])
        BY <1>1, <1>3, <1>4, <2>2 DEF BeforeInLine
      <3>2. Filled(m) > FloorAt(m[1], m)
        BY <1>4, <1>5, <1>6, <2>2, SureGot
      <3> QED BY <2>1, <3>1, <3>2 DEF Fair
    <2>3. CASE mode = "PRICE_TIME"
      <3>1. y[2] < m[2]
        BY <1>4, <2>3 DEF BeforeInLine
      <3>2. Filled(m) > 0
        BY <1>5, <1>6
      <3> QED BY <2>1, <2>3, <3>1, <3>2, AheadIsFull
    <2> QED BY <1>2, <2>2, <2>3
  <1>10. \A x \in {m}, y \in S \ ({m} \cup H) : got[y] > 0 => got[x] = room[x]
    <2> SUFFICES ASSUME NEW y \in S \ ({m} \cup H), got[y] > 0 PROVE Full(m)
      BY <1>5, <1>6
    <2>1. /\ y \in At(m[1]) /\ y \in Tradable /\ y # m /\ y[1] = m[1] /\ m \in At(m[1])
          /\ m = <<m[1], m[2]>> /\ y = <<y[1], y[2]>> /\ m[2] \in Nat /\ y[2] \in Nat
      BY <1>1, <1>4, <1>5 DEF MakersTyped
    <2>2. m[2] # y[2]
      BY <2>1
    <2>3. CASE mode = "PRO_RATA"
      <3>1. ~InLine(y, m) /\ Fair(m[1])
        BY <1>1, <1>3, <1>4, <2>1, <2>3 DEF BeforeInLine
      <3>2. InLine(m, y)
        BY <2>1, <2>2, <3>1 DEF InLine
      <3>3. Filled(y) > FloorAt(m[1], y)
        BY <1>4, <1>5, <1>6, <2>1, <2>3, SureGot
      <3> QED BY <2>1, <3>1, <3>2, <3>3 DEF Fair
    <2>4. CASE mode = "PRICE_TIME"
      <3>1. ~(y[2] < m[2])
        BY <1>4, <2>1, <2>4 DEF BeforeInLine
      <3>2. m[2] < y[2]
        BY <2>1, <2>2, <3>1
      <3>3. Filled(y) > 0
        BY <1>6
      <3> QED BY <2>1, <2>4, <3>2, <3>3, AheadIsFull
    <2> QED BY <1>2, <2>3, <2>4
  <1>11. Total(got, {m}) = Pour(a, Total(room, H), Total(room, {m}))
    <2>1. Total(got, S) <= a /\ ~(Total(got, S) < a)
      BY <1>7
    <2>2. \A x \in S : got[x] \in Nat /\ room[x] \in Nat /\ got[x] <= room[x]
      BY <1>6
    <2> HIDE <1>6
    <2> QED BY <1>5, <1>8, <1>9, <1>10, <2>1, <2>2, PourIs
  <1>12. Total(got, {m}) = got[m] /\ Total(room, {m}) = room[m]
    <2>1. got[m] \in Int /\ room[m] \in Int
      BY <1>5, <1>6
    <2>2. Total(got, {m}) = got[m]
      BY <2>1, TotalOne
    <2>3. Total(room, {m}) = room[m]
      BY <2>1, TotalOne
    <2> QED BY <2>2, <2>3
  <1> QED BY <1>4, <1>5, <1>6, <1>7, <1>11, <1>12

-----------------------------------------------------------------------------
(* At the end of the sweep MatchingEngine still sees the queues before the *)
(* call: its operators are those of Matcher.                               *)
LEMMA EngineSees ==
  ASSUME SweepOver
  PROVE  /\ SeenQueue = before /\ SeenOrder = incoming
         /\ Engine!Tradable = Tradable /\ Engine!Offer = OfferedAll
         /\ \A p : Engine!At(p) = At(p) /\ Engine!Ahead(p) = BetterThan(p)
         /\ \A m \in Tradable : Engine!First(m) <=> First(m)
PROOF
  <1>1. SeenQueue = before /\ SeenOrder = incoming
    BY DEF SweepOver, SeenQueue, SeenOrder
  <1>2. \A m : Engine!MakerAt(m) = MakerAt(m)
    BY <1>1 DEF Engine!MakerAt, Engine!Opposite, MakerAt, Makers, Opposite
  <1>3. Engine!Tradable = Tradable
    BY <1>1, <1>2
    DEF Engine!Tradable, Tradable, Engine!Crosses, Crosses, Makers, Engine!Opposite, Opposite
  <1>4. Engine!Offer = OfferedAll
    BY <1>2, <1>3 DEF Engine!Offer, OfferedAll
  <1>5. \A p : Engine!At(p) = At(p) /\ Engine!Ahead(p) = BetterThan(p)
    BY <1>1, <1>3
    DEF Engine!At, At, Engine!Ahead, BetterThan, Engine!Better, Better, Engine!Opposite, Opposite
  <1>6. ASSUME NEW m \in Tradable PROVE Engine!First(m) <=> First(m)
    <2>1. \A n \in At(m[1]) : n \in Tradable /\ OfferedAll[n] = MakerAt(n).qty
      BY DEF At, OfferedAll
    <2>2. OfferedAll[m] = MakerAt(m).qty
      BY DEF OfferedAll
    <2> QED BY <1>4, <1>5, <2>1, <2>2 DEF Engine!First, First
  <1> QED BY <1>1, <1>3, <1>4, <1>5, <1>6

(* What got as far as the sweep is neither a duplicate nor killed: it      *)
(* wants all of its quantity.                                              *)
LEMMA EngineWants ==
  ASSUME SweepOver PROVE Engine!Wanted = incoming.qty
PROOF
  <1>1. /\ RecordsTyped /\ NotRecorded /\ IsFiniteSet(Tradable) /\ MakersTyped
        /\ remaining \in Nat /\ Covered /\ (remaining > 0 => Offered = {})
        /\ incoming \in Order
    BY MakersView
    DEF SweepOver, LedgerInv, CallSane, Sweep, SweepInv, Swept, MakersSeen, MatcherInv,
        MatcherTypeOK
  <1>2. /\ SeenQueue = before /\ SeenOrder = incoming
        /\ Engine!Tradable = Tradable /\ Engine!Offer = OfferedAll
    BY EngineSees
  <1>3. ~Engine!Duplicate
    <2> SUFFICES ASSUME NEW pos \in Engine!Positions(incoming.order_id) PROVE FALSE
      BY <1>2 DEF Engine!Duplicate
    <2>1. PICK side \in Side, p \in Prices, i \in Nat :
            /\ pos = <<<<side, p>>, i>> /\ i \in Nat \ {0} /\ i <= Len(before[side][p])
            /\ before[side][p][i].order_id = incoming.order_id
      <3>1. Cardinality(OrderSlots) \in Nat
        BY BookAssumption, FS_CardinalityType
      <3>2. /\ pos \in Engine!Places \X (1 .. Cardinality(OrderSlots))
            /\ pos[2] <= Len(before[pos[1][1]][pos[1][2]])
            /\ before[pos[1][1]][pos[1][2]][pos[2]].order_id = incoming.order_id
        BY <1>2 DEF Engine!Positions
      <3>3. PICK side \in Side, p \in Prices : pos[1] = <<side, p>>
        BY <3>2 DEF Engine!Places, Engine!Side, Side
      <3>4. pos[2] \in Nat \ {0} /\ pos = <<pos[1], pos[2]>>
        BY <3>1, <3>2
      <3> QED BY <3>2, <3>3, <3>4
    <2>2. PICK r : r = [side |-> side, price |-> p, place |-> i]
      OBVIOUS
    <2>3. r \in Record /\ Old(r).order_id = incoming.order_id
      BY <2>1, <2>2 DEF Record, Old
    <2> QED BY <1>1, <2>3 DEF NotRecorded
  <1>4. ASSUME incoming.tif = "FOK" PROVE ~(Total(OfferedAll, Tradable) < incoming.qty)
    <2>1. remaining = 0
      <3>1. Total(qty, {}) = 0
        BY TotalEmpty
      <3> QED BY <1>1, <1>4, <3>1 DEF Covered
    <2>2. Total(FilledAll, Tradable) = incoming.qty /\ incoming.qty \in Nat
      BY <2>1, FilledTotal
    <2>3. \A m \in Tradable : /\ FilledAll[m] \in Nat /\ OfferedAll[m] \in Nat
                              /\ FilledAll[m] <= OfferedAll[m]
      BY <1>1 DEF MakersTyped, FilledAll, OfferedAll
    <2>4. Total(FilledAll, Tradable) <= Total(OfferedAll, Tradable)
          /\ Total(OfferedAll, Tradable) \in Nat
      BY <1>1, <2>3, TotalsBelow
    <2> QED BY <2>2, <2>4
  <1>5. Engine!Total(Engine!Offer, Engine!Tradable) = Total(OfferedAll, Tradable)
    BY <1>1, <1>2, EngineTotalIs
  <1> QED BY <1>2, <1>3, <1>4, <1>5 DEF Engine!Wanted

(* What MatchingEngine calculates for an order is what it has got.         *)
LEMMA EngineTrades ==
  ASSUME SweepOver
  PROVE  /\ \A m \in Tradable : Engine!Traded(mode)[m] = Filled(m)
         /\ Engine!Traded(mode) = FilledAll
         /\ Engine!Remainder(mode).qty = remaining
PROOF
  <1>1. /\ Engine!Tradable = Tradable /\ Engine!Offer = OfferedAll
        /\ \A p : Engine!At(p) = At(p) /\ Engine!Ahead(p) = BetterThan(p)
        /\ \A m \in Tradable : Engine!First(m) <=> First(m)
        /\ Engine!Wanted = incoming.qty
    BY EngineSees, EngineWants
  <1>2. IsFiniteSet(Tradable) /\ MakersTyped
    BY MakersView DEF SweepOver, CallSane, Sweep, MakersSeen
  <1>3. \A m \in Tradable : m[1] \in Int /\ m[1] \in Prices
    BY <1>2, BookAssumption DEF MakersTyped
  <1>4. \A p \in Int : Engine!TradedAt(p) = Traded(p)
    <2> TAKE p \in Int
    <2>1. /\ Engine!Total(OfferedAll, BetterThan(p)) = Total(OfferedAll, BetterThan(p))
          /\ Engine!Total(OfferedAll, At(p)) = Total(OfferedAll, At(p))
      BY PricePours, EngineTotalIs
    <2> QED BY <1>1, <2>1, PricePours DEF Engine!TradedAt, Engine!Poured, Pour
  <1>5. Engine!Share(mode) = Sure
    <2>1. ASSUME NEW m \in Tradable
          PROVE  (IF mode = "PRO_RATA"
                    THEN (Engine!TradedAt(m[1]) * Engine!Offer[m])
                           \div Engine!Total(Engine!Offer, Engine!At(m[1]))
                    ELSE 0)
                 = IF mode = "PRO_RATA" THEN FloorAt(m[1], m) ELSE 0
      <3>1. Engine!TradedAt(m[1]) = Traded(m[1])
        BY <1>3, <1>4
      <3>2. Engine!Total(Engine!Offer, Engine!At(m[1])) = Offering(m[1])
        <4>1. Engine!Total(OfferedAll, At(m[1])) = Total(OfferedAll, At(m[1]))
          BY <1>3, PricePours, EngineTotalIs
        <4> QED BY <1>1, <1>3, <4>1, PricePours
      <3>3. Engine!Offer[m] = MakerAt(m).qty
        BY <1>1 DEF OfferedAll
      <3> QED BY <3>1, <3>2, <3>3 DEF FloorAt
    <2> QED BY <1>1, <2>1, Zenon DEF Engine!Share, Sure
  <1>6. Engine!Room(mode) = Spare
    BY <1>1, <1>5, Zenon DEF Engine!Room, Spare
  <1>7. \A m \in Tradable : Engine!InFront(mode, m) = BeforeInLine(m)
    <2> TAKE m \in Tradable
    <2>1. \A n \in At(m[1]) : n \in Tradable
      BY DEF At
    <2> QED BY <1>1, <2>1 DEF Engine!InFront, BeforeInLine, InLine
  <1>8. ASSUME NEW m \in Tradable
        PROVE  Engine!Share(mode)[m]
                 + Engine!Poured(Engine!TradedAt(m[1])
                                   - Engine!Total(Engine!Share(mode), Engine!At(m[1])),
                                 Engine!Total(Engine!Room(mode), Engine!InFront(mode, m)),
                                 Engine!Room(mode)[m])
               = Filled(m)
    <2>1. Engine!TradedAt(m[1]) = Traded(m[1]) /\ IsFiniteSet(At(m[1]))
      BY <1>3, <1>4, PricePours
    <2>2. Engine!Total(Sure, At(m[1])) = Total(Sure, At(m[1]))
      BY <2>1, EngineTotalIs
    <2>3. Engine!Total(Spare, BeforeInLine(m)) = Total(Spare, BeforeInLine(m))
      <3>1. BeforeInLine(m) \in SUBSET At(m[1])
        BY DEF BeforeInLine
      <3>2. IsFiniteSet(BeforeInLine(m))
        BY <2>1, <3>1, FS_Subset
      <3> QED BY <3>2, EngineTotalIs
    <2>4. \A a, b, c : Engine!Poured(a, b, c) = Pour(a, b, c)
      BY DEF Engine!Poured, Pour
    <2> QED BY <1>1, <1>5, <1>6, <1>7, <2>1, <2>2, <2>3, <2>4, MakerPours
  <1>9. \A m \in Tradable : Engine!Traded(mode)[m] = Filled(m)
    BY <1>1, <1>8 DEF Engine!Traded
  <1>10. Engine!Traded(mode) = FilledAll
    BY <1>1, <1>8, Zenon DEF Engine!Traded, FilledAll
  <1>11. Engine!Remainder(mode).qty = remaining
    <2>1. Engine!Total(FilledAll, Tradable) = Total(FilledAll, Tradable)
      BY <1>2, EngineTotalIs
    <2>2. Engine!Remainder(mode).qty = incoming.qty - Total(FilledAll, Tradable)
      BY <1>1, <1>10, <2>1 DEF Engine!Remainder
    <2> QED BY <2>2, FilledTotal
  <1> QED BY <1>9, <1>10, <1>11

-----------------------------------------------------------------------------
(* What an order that was recorded has left, and where it was.             *)
LeftOf(r) == Old(r).qty - FilledOf(Old(r).order_id)

PosOf(r) == <<<<r.side, r.price>>, r.place>>

(* Two records of one place are the same.                                  *)
LEMMA OneRecord ==
  ASSUME NEW q \in Record, NEW r \in Record,
         q.side = r.side, q.price = r.price, q.place = r.place
  PROVE  q = r
PROOF
  <1>1. /\ q = [side |-> q.side, price |-> q.price, place |-> q.place]
        /\ r = [side |-> r.side, price |-> r.price, place |-> r.place]
    BY DEF Record
  <1> QED BY <1>1

(* MatchingEngine calculates for every order of the book, one that could   *)
(* not trade included, what the ledger says it has left.                   *)
LEMMA EngineLeaves ==
  ASSUME SweepOver, NEW r \in Record
  PROVE  Engine!Left(mode, <<r.side, r.price>>, r.place) = LeftOf(r)
PROOF
  <1>1. /\ RecordsTyped /\ RecordsDistinct /\ FillsFit /\ FillsRead /\ MakersTyped
    BY MakersView, FilledOfIs DEF SweepOver, LedgerInv, Sweep, MakersSeen
  <1>2. /\ SeenQueue = before /\ SeenOrder = incoming
        /\ Engine!Tradable = Tradable /\ Engine!Offer = OfferedAll
        /\ \A m \in Tradable : Engine!Traded(mode)[m] = Filled(m)
    BY EngineSees, EngineTrades
  <1>3. PICK side, p, i : side = r.side /\ p = r.price /\ i = r.place
    OBVIOUS
  <1>4. Engine!Opposite(incoming.side) = Opposite(incoming.side)
    BY DEF Engine!Opposite, Opposite
  <1>5. Engine!Left(mode, <<side, p>>, i)
          = IF side = Opposite(incoming.side) /\ <<p, i>> \in Tradable
              THEN OfferedAll[<<p, i>>] - Engine!Traded(mode)[<<p, i>>]
              ELSE before[side][p][i].qty
    BY <1>2, <1>4 DEF Engine!Left
  <1>6. CASE MayTrade(r)
    <2>1. PICK m \in Tradable : m[1] = r.price /\ m[2] = r.place /\ MakerAt(m) = Old(r)
      BY <1>1, <1>6, RecordTradable
    <2>2. m = <<p, i>> /\ side = Opposite(incoming.side)
      BY <1>1, <1>3, <1>6, <2>1 DEF MakersTyped, MayTrade
    <2>3. OfferedAll[m] = Old(r).qty /\ Engine!Traded(mode)[m] = FilledOf(Old(r).order_id)
      BY <1>2, <2>1 DEF OfferedAll, Filled
    <2> QED BY <1>3, <1>5, <2>2, <2>3 DEF LeftOf
  <1>7. CASE ~MayTrade(r)
    <2>1. ~(side = Opposite(incoming.side) /\ <<p, i>> \in Tradable)
      <3> SUFFICES ASSUME side = Opposite(incoming.side), <<p, i>> \in Tradable PROVE FALSE
        OBVIOUS
      <3>1. PICK q \in Record : MayTrade(q) /\ q.price = p /\ q.place = i
        BY <1>1, TradableRecord
      <3>2. q.side = side
        BY <3>1 DEF MayTrade
      <3> QED BY <1>3, <1>7, <3>1, <3>2, OneRecord
    <2>2. FillsOf(fills, Old(r).order_id) = {}
      <3> SUFFICES ASSUME NEW j \in DOMAIN fills, fills[j].maker = Old(r).order_id PROVE FALSE
        BY DEF FillsOf
      <3>1. PICK q \in Record : MayTrade(q) /\ Old(q).order_id = fills[j].maker
        BY <1>1 DEF FillsFit
      <3> QED BY <1>1, <1>7, <3>1 DEF RecordsDistinct
    <2>3. FilledOf(Old(r).order_id) = 0
      BY <1>1, <2>2, TotalEmpty DEF FillsRead
    <2>4. Old(r).qty \in Nat /\ before[side][p][i] = Old(r)
      BY <1>1, <1>3 DEF RecordsTyped, Old
    <2> QED BY <1>3, <1>5, <2>1, <2>3, <2>4 DEF LeftOf
  <1> QED BY <1>6, <1>7

(* Each order that rests is the one record of it, with what that has left; *)
(* and each record with something left still rests.                        *)
Matched ==
  /\ \A s \in Resting : \E r \in Record : IsOf(s, r) /\ qty[s] = LeftOf(r) /\ LeftOf(r) > 0
  /\ \A r \in Record : LeftOf(r) \in Nat /\ (LeftOf(r) > 0 => \E s \in Resting : IsOf(s, r))
  /\ \A s, t \in Resting, r \in Record : IsOf(s, r) /\ IsOf(t, r) => s = t
  /\ \A s \in Resting, q, r \in Record : IsOf(s, q) /\ IsOf(s, r) => q = r

(* The ledger at the end of the sweep says so.                             *)
LEMMA MatchedIs == SweepOver => Matched
PROOF
  <1> SUFFICES ASSUME SweepOver PROVE Matched
    OBVIOUS
  <1>1. /\ BookInv /\ RecordsDistinct /\ RecordsTyped /\ RecordsKept /\ AllRecorded
    BY DEF SweepOver, MatcherInv, LedgerInv, Sweep
  <1>2. OrdersSeen /\ LevelsSeen
    BY <1>1, OrdersView, LevelsView
  <1>3. \A r \in Record : /\ LeftOf(r) \in Nat
                          /\ LeftOf(r) > 0 => \E s \in Resting : IsOf(s, r) /\ qty[s] = LeftOf(r)
                          /\ LeftOf(r) = 0 => ~Found(Old(r).order_id)
    <2> TAKE r \in Record
    <2>1. PICK f, q \in Nat : f = FilledOf(Old(r).order_id) /\ q = Old(r).qty /\ f <= q
      BY <1>1 DEF RecordsTyped, RecordsKept, Kept
    <2>2. LeftOf(r) = q - f
      BY <2>1 DEF LeftOf
    <2>3. Kept(r)
      BY <1>1 DEF RecordsKept
    <2> QED BY <2>1, <2>2, <2>3 DEF Kept
  <1>4. \A s, t \in Resting, r \in Record : IsOf(s, r) /\ IsOf(t, r) => s = t
    BY <1>2 DEF IsOf, LevelsSeen
  <1>5. \A s \in Resting, q, r \in Record : IsOf(s, q) /\ IsOf(s, r) => q = r
    BY <1>1 DEF IsOf, RecordsDistinct
  <1>6. ASSUME NEW s \in Resting
        PROVE  \E r \in Record : IsOf(s, r) /\ qty[s] = LeftOf(r) /\ LeftOf(r) > 0
    <2>1. PICK r \in Record : IsOf(s, r)
      BY <1>1 DEF AllRecorded
    <2>2. Found(Old(r).order_id)
      BY <1>2, <2>1 DEF OrdersSeen, IsOf
    <2>3. LeftOf(r) > 0
      BY <1>3, <2>2
    <2>4. PICK t \in Resting : IsOf(t, r) /\ qty[t] = LeftOf(r)
      BY <1>3, <2>3
    <2> QED BY <1>4, <2>1, <2>3, <2>4
  <1> QED BY <1>3, <1>4, <1>5, <1>6 DEF Matched

(* What stays, for MatchingEngine, are the records with something left.    *)
LEMMA StayingRecords ==
  ASSUME SweepOver, NEW pos
  PROVE  pos \in Engine!Staying(mode) <=> \E r \in Record : pos = PosOf(r) /\ LeftOf(r) > 0
PROOF
  <1>1. RecordsTyped /\ SeenQueue = before
    BY EngineSees DEF SweepOver, LedgerInv, Sweep
  <1>2. ASSUME NEW r \in Record, pos = PosOf(r), LeftOf(r) > 0
        PROVE  pos \in Engine!Staying(mode)
    <2>1. /\ pos[1] = <<r.side, r.price>> /\ pos[2] = r.place
          /\ pos[1][1] = r.side /\ pos[1][2] = r.price
      BY <1>2 DEF PosOf
    <2>2. pos \in Engine!Places \X (1 .. Cardinality(OrderSlots))
      <3>1. r.side \in Side /\ r.price \in Prices /\ r.place \in Nat \ {0}
        BY DEF Record
      <3>2. r.place <= Cardinality(OrderSlots) /\ Cardinality(OrderSlots) \in Nat
        BY <1>1, BookAssumption, FS_CardinalityType DEF RecordsTyped
      <3> QED BY <1>2, <3>1, <3>2 DEF PosOf, Engine!Places, Engine!Side, Side
    <2>3. pos[2] <= Len(before[pos[1][1]][pos[1][2]])
      BY <2>1 DEF Record
    <2>4. Engine!Left(mode, pos[1], pos[2]) > 0
      BY <1>2, <2>1, EngineLeaves
    <2> QED BY <1>1, <2>2, <2>3, <2>4 DEF Engine!Staying
  <1>3. ASSUME pos \in Engine!Staying(mode)
        PROVE  \E r \in Record : pos = PosOf(r) /\ LeftOf(r) > 0
    <2>1. /\ pos \in Engine!Places \X (1 .. Cardinality(OrderSlots))
          /\ pos[2] <= Len(before[pos[1][1]][pos[1][2]])
          /\ Engine!Left(mode, pos[1], pos[2]) > 0
      BY <1>1, <1>3 DEF Engine!Staying
    <2>2. PICK side \in Side, p \in Prices : pos[1] = <<side, p>>
      BY <2>1 DEF Engine!Places, Engine!Side, Side
    <2>3. pos = <<pos[1], pos[2]>> /\ pos[2] \in Nat \ {0}
      <3>1. Cardinality(OrderSlots) \in Nat
        BY BookAssumption, FS_CardinalityType
      <3> QED BY <2>1, <3>1
    <2>4. PICK r : r = [side |-> side, price |-> p, place |-> pos[2]]
      OBVIOUS
    <2>5. r \in Record /\ pos = PosOf(r)
      BY <2>1, <2>2, <2>3, <2>4 DEF Record, PosOf
    <2>6. pos[1] = <<r.side, r.price>> /\ pos[2] = r.place
      BY <2>5 DEF PosOf
    <2> QED BY <2>1, <2>5, <2>6, EngineLeaves
  <1> QED BY <1>2, <1>3

(* As many orders rest as stay.                                            *)
LEMMA StayingSize ==
  ASSUME SweepOver
  PROVE  Cardinality(Engine!Staying(mode)) = Cardinality(Resting)
PROOF
  <1>1. Matched /\ IsFiniteSet(Resting)
    <2>1. Resting \in SUBSET OrderSlots
      BY DEF Resting
    <2> QED BY <2>1, MatchedIs, BookAssumption, FS_Subset
  <1>2. PICK f : f = [s \in Resting |-> PosOf(CHOOSE r \in Record : IsOf(s, r) /\ LeftOf(r) > 0)]
    OBVIOUS
  <1>3. \A s \in Resting : \E r \in Record : f[s] = PosOf(r) /\ IsOf(s, r) /\ LeftOf(r) > 0
    BY <1>1, <1>2 DEF Matched
  <1>4. \A s \in Resting : f[s] \in Engine!Staying(mode)
    BY <1>3, StayingRecords
  <1>5. \A q, r \in Record : PosOf(q) = PosOf(r) => q = r
    <2> SUFFICES ASSUME NEW q \in Record, NEW r \in Record, PosOf(q) = PosOf(r) PROVE q = r
      OBVIOUS
    <2>1. q.side = r.side /\ q.price = r.price /\ q.place = r.place
      BY DEF PosOf
    <2> QED BY <2>1, OneRecord
  <1>6. \A s, t \in Resting : f[s] = f[t] => s = t
    BY <1>1, <1>3, <1>5 DEF Matched
  <1>7. \A pos \in Engine!Staying(mode) : \E s \in Resting : f[s] = pos
    <2> TAKE pos \in Engine!Staying(mode)
    <2>1. PICK r \in Record : pos = PosOf(r) /\ LeftOf(r) > 0
      BY StayingRecords
    <2>2. PICK s \in Resting : IsOf(s, r)
      BY <1>1, <2>1 DEF Matched
    <2>3. PICK q \in Record : f[s] = PosOf(q) /\ IsOf(s, q)
      BY <1>3
    <2>4. q = r
      BY <1>1, <2>2, <2>3 DEF Matched
    <2> QED BY <2>1, <2>3, <2>4
  <1>8. f = [s \in Resting |-> f[s]]
    BY <1>2
  <1> QED BY <1>1, <1>4, <1>6, <1>7, <1>8, SameSize

(* The places where something stays.                                       *)
StillHeld == {pos[1] : pos \in Engine!Staying(mode)}

(* They are those where an order rests, one for each level in use.         *)
LEMMA StillHeldIs ==
  ASSUME SweepOver
  PROVE  /\ \A pl : pl \in StillHeld <=>
               \E s \in Resting : pl = <<data[s].side, data[s].price>>
         /\ Cardinality(StillHeld) = Cardinality(InUse)
PROOF
  <1>1. Matched /\ BookInv /\ OrdersSeen /\ LevelsSeen
    BY MatchedIs, OrdersView, LevelsView DEF SweepOver, MatcherInv
  <1>2. ASSUME NEW pl
        PROVE  pl \in StillHeld <=> \E s \in Resting : pl = <<data[s].side, data[s].price>>
    <2>1. ASSUME pl \in StillHeld
          PROVE  \E s \in Resting : pl = <<data[s].side, data[s].price>>
      <3>1. PICK pos \in Engine!Staying(mode) : pl = pos[1]
        BY <2>1 DEF StillHeld
      <3>2. PICK r \in Record : pos = PosOf(r) /\ LeftOf(r) > 0
        BY StayingRecords
      <3>3. PICK s \in Resting : IsOf(s, r)
        BY <1>1, <3>2 DEF Matched
      <3> QED BY <3>1, <3>2, <3>3 DEF PosOf, IsOf
    <2>2. ASSUME NEW s \in Resting, pl = <<data[s].side, data[s].price>>
          PROVE  pl \in StillHeld
      <3>1. PICK r \in Record : IsOf(s, r) /\ LeftOf(r) > 0
        BY <1>1 DEF Matched
      <3>2. PICK pos : pos = PosOf(r)
        OBVIOUS
      <3>3. pos \in Engine!Staying(mode)
        BY <3>1, <3>2, StayingRecords
      <3>4. pos[1] = pl
        BY <2>2, <3>1, <3>2 DEF PosOf, IsOf
      <3> QED BY <3>3, <3>4 DEF StillHeld
    <2> QED BY <2>1, <2>2
  <1>3. PICK f : f = [l \in InUse |-> LET s == CHOOSE s \in Resting : LevelOf(s) = l
                                      IN  <<data[s].side, data[s].price>>]
    OBVIOUS
  <1>4. \A l \in InUse : \E s \in Resting :
          LevelOf(s) = l /\ f[l] = <<data[s].side, data[s].price>>
    <2> TAKE l \in InUse
    <2>1. \E s \in Resting : LevelOf(s) = l
      BY <1>1 DEF LevelsSeen
    <2>2. PICK s : s = CHOOSE t \in Resting : LevelOf(t) = l
      OBVIOUS
    <2>3. s \in Resting /\ LevelOf(s) = l
      BY <2>1, <2>2
    <2> QED BY <1>3, <2>2, <2>3
  <1>5. \A l \in InUse : f[l] \in StillHeld
    BY <1>2, <1>4
  <1>6. \A k, l \in InUse : f[k] = f[l] => k = l
    <2> SUFFICES ASSUME NEW k \in InUse, NEW l \in InUse, f[k] = f[l] PROVE k = l
      OBVIOUS
    <2>1. PICK s \in Resting : LevelOf(s) = k /\ f[k] = <<data[s].side, data[s].price>>
      BY <1>4
    <2>2. PICK t \in Resting : LevelOf(t) = l /\ f[l] = <<data[t].side, data[t].price>>
      BY <1>4
    <2>3. <<data[s].side, data[s].price>> = <<data[t].side, data[t].price>>
      BY <2>1, <2>2
    <2>4. data[s].side = data[t].side /\ data[s].price = data[t].price
      BY <2>3
    <2> QED BY <1>1, <2>1, <2>2, <2>4 DEF LevelsSeen
  <1>7. \A pl \in StillHeld : \E l \in InUse : f[l] = pl
    <2> TAKE pl \in StillHeld
    <2>1. PICK s \in Resting : pl = <<data[s].side, data[s].price>>
      BY <1>2
    <2>2. LevelOf(s) \in InUse
      BY <1>1 DEF OrdersSeen
    <2>3. PICK t \in Resting : /\ LevelOf(t) = LevelOf(s)
                               /\ f[LevelOf(s)] = <<data[t].side, data[t].price>>
      BY <1>4, <2>2
    <2>4. data[s].side = data[t].side /\ data[s].price = data[t].price
      BY <1>1, <2>3 DEF LevelsSeen
    <2> QED BY <2>1, <2>2, <2>3, <2>4
  <1>8. f = [l \in InUse |-> f[l]] /\ IsFiniteSet(InUse)
    <2>1. InUse \in SUBSET LevelSlots
      BY DEF InUse
    <2> QED BY <1>3, <2>1, BookAssumption, FS_Subset
  <1>9. Cardinality(StillHeld) = Cardinality(InUse)
    BY <1>5, <1>6, <1>7, <1>8, SameSize
  <1> QED BY <1>2, <1>9

(* The best level of the other side is within reach if any of it is.       *)
LEMMA CrossedIs ==
  ASSUME BookInv, incoming \in Order
  PROVE  WouldRestCrossed <=>
           \E s \in Resting : /\ data[s].side = Opposite(incoming.side)
                              /\ Crosses(data[s].price, incoming)
PROOF
  <1>1. OrdersSeen /\ LevelsSeen
    BY OrdersView, LevelsView
  <1>2. PICK side \in Side : side = Opposite(incoming.side)
    BY DEF Order, Opposite, Side
  <1>3. PICK l : l = BestLevel(side)
    OBVIOUS
  <1>4. incoming.side \in Side /\ incoming.price \in Int
        /\ \A s \in Resting : data[s].price \in Int
    BY <1>1, BookAssumption DEF Order, OrdersSeen, OrderData
  <1>5. CASE l = Null /\ \A s \in Resting : data[s].side # side
    BY <1>2, <1>3, <1>5 DEF WouldRestCrossed
  <1>6. CASE OfSide(l, side) /\ \A s \in Resting : data[s].side = side =>
               data[s].price = level_price[l] \/ Better(side, level_price[l], data[s].price)
    <2>1. PICK t \in Resting : LevelOf(t) = l
      BY <1>1, <1>6 DEF OfSide, LevelsSeen
    <2>2. data[t].side = side /\ data[t].price = level_price[l]
      BY <1>1, <1>6, <2>1 DEF OfSide, OrdersSeen, OrdersAt
    <2>3. l # Null
      BY <1>1, <1>6 DEF OfSide, LevelsSeen
    <2>4. WouldRestCrossed <=> Crosses(level_price[l], incoming)
      BY <1>2, <1>3, <2>3 DEF WouldRestCrossed
    <2>5. ASSUME NEW s \in Resting, data[s].side = side, Crosses(data[s].price, incoming)
          PROVE  Crosses(level_price[l], incoming)
      <3>1. PICK p, q, x \in Int : /\ p = data[s].price /\ q = level_price[l] /\ x = incoming.price
        BY <1>4, <2>2
      <3>2. p = q \/ Better(side, q, p)
        BY <1>6, <2>5, <3>1
      <3>3. IF incoming.side = "BUY" THEN p <= x ELSE p >= x
        BY <2>5, <3>1 DEF Crosses
      <3>4. IF incoming.side = "BUY" THEN q <= x ELSE q >= x
        BY <1>2, <1>4, <3>2, <3>3 DEF Better, Opposite, Side
      <3> QED BY <3>1, <3>4 DEF Crosses
    <2> QED BY <1>2, <2>2, <2>4, <2>5
  <1> QED BY <1>3, <1>5, <1>6, BestLevelIs

(* A remainder rests, for MatchingEngine, when FinishMatch calls add_order *)
(* and neither pool is at its end.                                         *)
LEMMA EngineRests ==
  ASSUME SweepOver
  PROVE  Engine!Rests(mode) <=>
           /\ incoming.tif = "GTC" /\ remaining > 0 /\ ~WouldRestCrossed
           /\ order_pool # {}
           /\ price_map[incoming.side][incoming.price] # Null \/ level_pool # {}
PROOF
  <1>1. /\ BookInv /\ incoming \in Order /\ LevelsSeen
        /\ order_pool \in SUBSET OrderSlots /\ level_pool \in SUBSET LevelSlots
    BY LevelsView DEF SweepOver, MatcherInv, MatcherTypeOK, BookInv, BookTypeOK
  <1>2. /\ SeenOrder = incoming /\ Engine!Remainder(mode).qty = remaining
        /\ Cardinality(Engine!Staying(mode)) = Cardinality(Resting)
    BY EngineSees, EngineTrades, StayingSize
  <1>3. (\A pl \in StillHeld : pl[1] = Engine!Opposite(incoming.side) =>
                                 ~Engine!Crosses(pl[2], incoming))
          <=> ~WouldRestCrossed
    <2>1. ASSUME NEW pl \in StillHeld, pl[1] = Opposite(incoming.side), Crosses(pl[2], incoming)
          PROVE  WouldRestCrossed
      <3>1. PICK s \in Resting : pl = <<data[s].side, data[s].price>>
        BY StillHeldIs
      <3>2. data[s].side = Opposite(incoming.side) /\ Crosses(data[s].price, incoming)
        BY <2>1, <3>1
      <3> QED BY <1>1, <3>2, CrossedIs
    <2>2. ASSUME WouldRestCrossed
          PROVE  \E pl \in StillHeld : pl[1] = Opposite(incoming.side) /\ Crosses(pl[2], incoming)
      <3>1. PICK s \in Resting : /\ data[s].side = Opposite(incoming.side)
                                 /\ Crosses(data[s].price, incoming)
        BY <1>1, <2>2, CrossedIs
      <3>2. PICK pl : pl = <<data[s].side, data[s].price>>
        OBVIOUS
      <3>3. pl \in StillHeld
        BY <3>2, StillHeldIs
      <3> QED BY <3>1, <3>2, <3>3
    <2>3. /\ Engine!Opposite(incoming.side) = Opposite(incoming.side)
          /\ \A p : Engine!Crosses(p, incoming) <=> Crosses(p, incoming)
      BY DEF Engine!Opposite, Opposite, Engine!Crosses, Crosses
    <2> QED BY <2>1, <2>2, <2>3
  <1>4. Cardinality(Resting) < Cardinality(OrderSlots) <=> order_pool # {}
    <2>1. Resting \in SUBSET OrderSlots /\ (Resting = OrderSlots <=> order_pool = {})
      BY <1>1 DEF Resting
    <2>2. Cardinality(Resting) \in Nat /\ Cardinality(OrderSlots) \in Nat
      BY <2>1, BookAssumption, FS_Subset, FS_CardinalityType
    <2>3. /\ Cardinality(Resting) <= Cardinality(OrderSlots)
          /\ Cardinality(OrderSlots) = Cardinality(Resting) => OrderSlots = Resting
      BY <2>1, BookAssumption, FS_Subset
    <2> QED BY <2>1, <2>2, <2>3
  <1>5. Cardinality(StillHeld) < Cardinality(LevelSlots) <=> level_pool # {}
    <2>1. InUse \in SUBSET LevelSlots /\ (InUse = LevelSlots <=> level_pool = {})
      BY <1>1 DEF InUse
    <2>2. Cardinality(InUse) \in Nat /\ Cardinality(LevelSlots) \in Nat
      BY <2>1, BookAssumption, FS_Subset, FS_CardinalityType
    <2>3. /\ Cardinality(InUse) <= Cardinality(LevelSlots)
          /\ Cardinality(LevelSlots) = Cardinality(InUse) => LevelSlots = InUse
      BY <2>1, BookAssumption, FS_Subset
    <2> QED BY <2>1, <2>2, <2>3, StillHeldIs
  <1>6. <<incoming.side, incoming.price>> \in StillHeld
          <=> price_map[incoming.side][incoming.price] # Null
    <2>1. incoming.side \in Side /\ incoming.price \in Prices
      BY <1>1 DEF Order
    <2> QED BY <1>1, <2>1, StillHeldIs DEF LevelsSeen
  <1>7. \A S : Engine!Cardinality(S) = Cardinality(S)
    BY Zenon DEF Engine!Cardinality, Cardinality
  <1>8. Engine!Rests(mode) <=>
          /\ incoming.tif = "GTC" /\ remaining > 0
          /\ \A pl \in StillHeld : pl[1] = Engine!Opposite(incoming.side) =>
                                     ~Engine!Crosses(pl[2], incoming)
          /\ Cardinality(Engine!Staying(mode)) < Cardinality(OrderSlots)
          /\ \/ <<incoming.side, incoming.price>> \in StillHeld
             \/ Cardinality(StillHeld) < Cardinality(LevelSlots)
    BY <1>2, <1>7, Zenon DEF Engine!Rests, StillHeld
  <1> QED BY <1>2, <1>3, <1>4, <1>5, <1>6, <1>8

(* The order at index j of the queue is the one recorded at index i.       *)
Keeps(side, p, j, i) ==
  \E s \in Resting, r \in Record :
    /\ IsOf(s, r) /\ Place(s) = j
    /\ r.side = side /\ r.price = p /\ r.place = i
    /\ qty[s] = LeftOf(r) /\ LeftOf(r) > 0
    /\ Queue[side][p][j] = OrderAt(s)

(* Each queue that is left is the one before the call, less the orders     *)
(* that have nothing left, in the order they had.                          *)
LEMMA EngineThins ==
  ASSUME SweepOver, NEW side \in Side, NEW p \in Prices
  PROVE  Engine!Thinned(mode, <<side, p>>, Queue[side][p])
PROOF
  <1>1. /\ Matched /\ BookInv /\ OrderKept /\ QueuesSeen /\ LevelsSeen /\ PlacesSeen
        /\ SeenQueue = before /\ before[side][p] \in Seq(Abstract!Order)
    BY MatchedIs, EngineSees, QueuesView, LevelsView, PlacesView
    DEF SweepOver, MatcherInv, LedgerInv, CallSane, Sweep
  <1>2. PICK q, old, n, o : /\ q = Queue[side][p] /\ old = before[side][p]
                            /\ n = Len(q) /\ o = Len(old)
    OBVIOUS
  <1>3. /\ DOMAIN q = 1 .. n /\ n \in Nat /\ DOMAIN old = 1 .. o /\ o \in Nat
        /\ \A i \in 1 .. o : old[i] \in Abstract!Order
    <2>1. DOMAIN q = 1 .. n /\ n \in Nat
      <3>1. AllShown
        BY <1>1, QueuesDetermined
      <3>2. q \in Seq(Abstract!Order)
        BY <1>2, <3>1 DEF AllShown, Shows
      <3> QED BY <1>2, <3>2
    <2> QED BY <1>1, <1>2, <2>1
  <1>4. ASSUME NEW i \in 1 .. o
        PROVE  \E r \in Record : /\ r.side = side /\ r.price = p /\ r.place = i
                                 /\ Old(r) = old[i]
    <2>1. PICK r : r = [side |-> side, price |-> p, place |-> i]
      OBVIOUS
    <2>2. r \in Record /\ Old(r) = old[i]
      BY <1>2, <1>3, <2>1 DEF Record, Old
    <2> QED BY <2>1, <2>2
  <1>5. ASSUME NEW j \in 1 .. n PROVE \E i \in 1 .. o : Keeps(side, p, j, i)
    <2>1. PICK s \in Resting : /\ data[s].side = side /\ data[s].price = p /\ Place(s) = j
                               /\ Queue[side][p][j] = OrderAt(s)
      BY <1>1, <1>2 DEF QueuesSeen
    <2>2. PICK r \in Record : IsOf(s, r) /\ qty[s] = LeftOf(r) /\ LeftOf(r) > 0
      BY <1>1 DEF Matched
    <2>3. r.side = side /\ r.price = p
      BY <2>1, <2>2 DEF IsOf
    <2>4. r.place \in 1 .. o
      BY <1>2, <1>3, <2>3 DEF Record
    <2> QED BY <2>1, <2>2, <2>3, <2>4 DEF Keeps
  <1>6. PICK kept : kept = [j \in 1 .. n |-> CHOOSE i \in 1 .. o : Keeps(side, p, j, i)]
    OBVIOUS
  <1>7. \A j \in 1 .. n : kept[j] \in 1 .. o /\ Keeps(side, p, j, kept[j])
    BY <1>5, <1>6
  <1>8. kept \in [DOMAIN q -> DOMAIN old]
    BY <1>3, <1>6, <1>7
  <1>9. ASSUME NEW j \in 1 .. n, NEW k \in 1 .. n, j < k PROVE kept[j] < kept[k]
    <2>1. PICK s \in Resting, a \in Record :
            IsOf(s, a) /\ Place(s) = j /\ a.side = side /\ a.price = p /\ a.place = kept[j]
      BY <1>7 DEF Keeps
    <2>2. PICK t \in Resting, b \in Record :
            IsOf(t, b) /\ Place(t) = k /\ b.side = side /\ b.price = p /\ b.place = kept[k]
      BY <1>7 DEF Keeps
    <2>3. ~(kept[k] < kept[j])
      <3> SUFFICES ASSUME kept[k] < kept[j] PROVE FALSE
        OBVIOUS
      <3>1. Place(t) < Place(s)
        BY <1>1, <2>1, <2>2 DEF OrderKept
      <3> QED BY <1>3, <1>9, <2>1, <2>2, <3>1
    <2>4. kept[k] # kept[j]
      <3> SUFFICES ASSUME kept[k] = kept[j] PROVE FALSE
        OBVIOUS
      <3>1. a = b
        BY <2>1, <2>2, OneRecord
      <3>2. s = t
        BY <1>1, <2>1, <2>2, <3>1 DEF Matched
      <3> QED BY <1>3, <1>9, <2>1, <2>2, <3>2
    <2>5. kept[j] \in Nat /\ kept[k] \in Nat
      BY <1>3, <1>7
    <2> QED BY <2>3, <2>4, <2>5
  <1>10. ASSUME NEW i \in 1 .. o
         PROVE  Engine!Left(mode, <<side, p>>, i) > 0 <=> \E j \in 1 .. n : kept[j] = i
    <2>1. PICK r \in Record : r.side = side /\ r.price = p /\ r.place = i
      BY <1>4
    <2>2. Engine!Left(mode, <<side, p>>, i) = LeftOf(r)
      BY <2>1, EngineLeaves
    <2>3. ASSUME LeftOf(r) > 0 PROVE \E j \in 1 .. n : kept[j] = i
      <3>1. PICK s \in Resting : IsOf(s, r)
        BY <1>1, <2>3 DEF Matched
      <3>2. data[s].side = side /\ data[s].price = p
        BY <2>1, <3>1 DEF IsOf
      <3>3. Place(s) \in 1 .. n
        BY <1>1, <1>2, <3>2 DEF QueuesSeen
      <3>4. PICK t \in Resting, b \in Record :
              IsOf(t, b) /\ Place(t) = Place(s) /\ b.place = kept[Place(s)]
              /\ b.side = side /\ b.price = p
        BY <1>7, <3>3 DEF Keeps
      <3>5. data[t].side = side /\ data[t].price = p
        BY <3>4 DEF IsOf
      <3>6. t = s
        BY <1>1, <3>2, <3>4, <3>5 DEF LevelsSeen, PlacesSeen
      <3>7. b = r
        BY <1>1, <3>1, <3>4, <3>6 DEF Matched
      <3> QED BY <2>1, <3>3, <3>4, <3>7
    <2>4. ASSUME NEW j \in 1 .. n, kept[j] = i PROVE LeftOf(r) > 0
      <3>1. PICK b \in Record : /\ b.side = side /\ b.price = p /\ b.place = i
                                /\ LeftOf(b) > 0
        BY <1>7, <2>4 DEF Keeps
      <3>2. b = r
        BY <2>1, <3>1, OneRecord
      <3> QED BY <3>1, <3>2
    <2> QED BY <2>2, <2>3, <2>4
  <1>11. ASSUME NEW j \in 1 .. n
         PROVE  q[j] = [old[kept[j]] EXCEPT !.qty = Engine!Left(mode, <<side, p>>, kept[j])]
    <2>1. PICK s \in Resting, r \in Record :
            /\ IsOf(s, r) /\ r.side = side /\ r.price = p /\ r.place = kept[j]
            /\ qty[s] = LeftOf(r) /\ q[j] = OrderAt(s)
      BY <1>2, <1>7 DEF Keeps
    <2>2. PICK x : x = Engine!Left(mode, <<side, p>>, kept[j]) /\ x = qty[s]
      BY <2>1, EngineLeaves
    <2>3. PICK e : e = old[kept[j]] /\ e = Old(r) /\ e \in Abstract!Order
      BY <1>2, <1>3, <1>7, <2>1 DEF Old
    <2>4. [e EXCEPT !.qty = x] = [order_id |-> e.order_id, qty |-> x, client_id |-> e.client_id]
      BY <2>3 DEF Abstract!Order
    <2>5. OrderAt(s) = [order_id |-> e.order_id, qty |-> x, client_id |-> e.client_id]
      BY <2>1, <2>2, <2>3 DEF OrderAt, IsOf
    <2> QED BY <2>1, <2>2, <2>3, <2>4, <2>5
  <1>12. PICK pl, line : pl = <<side, p>> /\ line = q
    OBVIOUS
  <1>13. SeenQueue[pl[1]][pl[2]] = old
    BY <1>1, <1>2, <1>12
  <1> DEFINE seen == SeenQueue[pl[1]][pl[2]]
  <1>14. \A j, k \in DOMAIN line : j < k => kept[j] < kept[k]
    BY <1>3, <1>9, <1>12
  <1>15. \A i \in DOMAIN seen :
           Engine!Left(mode, pl, i) > 0 <=> \E j \in DOMAIN line : kept[j] = i
    BY <1>3, <1>10, <1>12, <1>13
  <1>16. \A j \in DOMAIN line :
           line[j] = [seen[kept[j]] EXCEPT !.qty = Engine!Left(mode, pl, kept[j])]
    BY <1>3, <1>11, <1>12, <1>13
  <1>17. kept \in [DOMAIN line -> DOMAIN seen]
    BY <1>8, <1>12, <1>13
  <1>18. Engine!Thinned(mode, pl, line)
    BY <1>14, <1>15, <1>16, <1>17, Zenon DEF Engine!Thinned
  <1> QED BY <1>2, <1>12, <1>18

-----------------------------------------------------------------------------
(* k goes up from 1 .. n through all of 1 .. m.                            *)
Climbs(k, n, m) ==
  /\ k \in [1 .. n -> 1 .. m]
  /\ \A i, j \in 1 .. n : i < j => k[i] < k[j]
  /\ \A x \in 1 .. m : \E j \in 1 .. n : k[j] = x

(* It then takes one after the other.                                      *)
LEMMA OntoUpward ==
  ASSUME NEW n \in Nat, NEW m \in Nat, NEW k, Climbs(k, n, m)
  PROVE  n = m /\ \A j \in 1 .. n : k[j] = j
PROOF
  <1> USE DEF Climbs
  <1>1. \A j \in 1 .. n : k[j] = j
    <2> SUFFICES ASSUME NEW x \in 1 .. n, k[x] # x PROVE FALSE
      OBVIOUS
    <2>1. PICK S : S = {j \in 1 .. n : k[j] # j}
      OBVIOUS
    <2>2. S \in SUBSET Nat /\ S # {}
      BY <2>1
    <2>3. PICK j \in S : \A i \in S : j <= i
      BY <2>2, LeastOf
    <2>4. j \in 1 .. n /\ k[j] # j /\ k[j] \in 1 .. m
      BY <2>1, <2>3
    <2>5. \A i \in 1 .. n : i < j => k[i] = i
      BY <2>1, <2>3, <2>4
    <2>6. ~(k[j] < j)
      <3> SUFFICES ASSUME k[j] < j PROVE FALSE
        OBVIOUS
      <3>1. PICK i \in 1 .. n : i = k[j] /\ i < j
        BY <2>4
      <3>2. k[i] = i /\ k[i] < k[j]
        BY <2>4, <2>5, <3>1
      <3> QED BY <3>1, <3>2
    <2>7. j \in 1 .. m /\ j < k[j]
      BY <2>4, <2>6
    <2>8. PICK i \in 1 .. n : k[i] = j
      BY <2>7
    <2>9. i < j \/ i = j \/ j < i
      BY <2>4
    <2>10. CASE i < j
      BY <2>5, <2>8, <2>10
    <2>11. CASE j < i
      <3>1. k[j] < k[i]
        BY <2>4, <2>11
      <3> QED BY <2>4, <2>7, <2>8, <3>1
    <2> QED BY <2>4, <2>8, <2>9, <2>10, <2>11
  <1>2. ~(m < n)
    <2> SUFFICES ASSUME m < n PROVE FALSE
      OBVIOUS
    <2>1. n \in 1 .. n /\ k[n] \in 1 .. m
      OBVIOUS
    <2>2. k[n] = n
      BY <1>1, <2>1
    <2> QED BY <2>1, <2>2
  <1>3. ~(n < m)
    <2> SUFFICES ASSUME n < m PROVE FALSE
      OBVIOUS
    <2>1. PICK j \in 1 .. n : k[j] = m
      OBVIOUS
    <2> QED BY <1>1, <2>1
  <1> QED BY <1>1, <1>2, <1>3

(* A queue of which every order keeps all it has, and it has something, is *)
(* left as it was.                                                         *)
LEMMA NothingThinned ==
  ASSUME NEW md, NEW pl, NEW old \in Seq(Abstract!Order), old = SeenQueue[pl[1]][pl[2]],
         \A i \in 1 .. Len(old) : Engine!Left(md, pl, i) = old[i].qty,
         NEW line \in Seq(Abstract!Order)
  PROVE  Engine!Thinned(md, pl, line) <=> line = old
PROOF
  <1>1. PICK n, m \in Nat : n = Len(line) /\ m = Len(old)
    OBVIOUS
  <1>2. /\ DOMAIN line = 1 .. n /\ DOMAIN old = 1 .. m
        /\ \A i \in 1 .. m : old[i] \in Abstract!Order
    BY <1>1
  <1>3. \A i \in 1 .. m : /\ Engine!Left(md, pl, i) > 0
                          /\ [old[i] EXCEPT !.qty = Engine!Left(md, pl, i)] = old[i]
    <2> TAKE i \in 1 .. m
    <2>1. PICK e \in Abstract!Order : e = old[i]
      BY <1>2
    <2>2. e.qty > 0 /\ [e EXCEPT !.qty = e.qty] = e
      BY BookAssumption DEF Abstract!Order
    <2>3. Engine!Left(md, pl, i) = e.qty
      BY <1>1, <2>1
    <2> QED BY <2>1, <2>2, <2>3
  <1> DEFINE seen == SeenQueue[pl[1]][pl[2]]
             thins(kept) ==
               /\ \A j, k \in DOMAIN line : j < k => kept[j] < kept[k]
               /\ \A i \in DOMAIN seen :
                    Engine!Left(md, pl, i) > 0 <=> \E j \in DOMAIN line : kept[j] = i
               /\ \A j \in DOMAIN line :
                    line[j] = [seen[kept[j]] EXCEPT !.qty = Engine!Left(md, pl, kept[j])]
  <1>4. Engine!Thinned(md, pl, line) <=> \E kept \in [DOMAIN line -> DOMAIN seen] : thins(kept)
    BY Zenon DEF Engine!Thinned
  <1>5. ASSUME Engine!Thinned(md, pl, line) PROVE line = old
    <2>1. PICK kept \in [DOMAIN line -> DOMAIN seen] : thins(kept)
      BY <1>4, <1>5
    <2>2. /\ kept \in [1 .. n -> 1 .. m]
          /\ \A j, k \in 1 .. n : j < k => kept[j] < kept[k]
          /\ \A i \in 1 .. m : \E j \in 1 .. n : kept[j] = i
      BY <1>2, <1>3, <2>1
    <2>3. n = m /\ \A j \in 1 .. n : kept[j] = j
      <3>1. Climbs(kept, n, m)
        BY <2>2 DEF Climbs
      <3> QED BY <3>1, OntoUpward
    <2>4. ASSUME NEW j \in 1 .. n PROVE line[j] = old[j]
      <3>1. PICK i \in 1 .. m : i = j /\ kept[j] = i
        BY <2>2, <2>3
      <3>2. line[j] = [old[i] EXCEPT !.qty = Engine!Left(md, pl, i)]
        BY <1>2, <2>1, <3>1
      <3>3. [old[i] EXCEPT !.qty = Engine!Left(md, pl, i)] = old[i]
        BY <1>3
      <3> QED BY <3>1, <3>2, <3>3
    <2>5. Len(line) = Len(old) /\ \A j \in 1 .. Len(line) : line[j] = old[j]
      BY <1>1, <2>3, <2>4
    <2> QED BY <2>5, SeqEqual
  <1>6. ASSUME line = old PROVE Engine!Thinned(md, pl, line)
    <2>1. PICK kept : kept = [j \in DOMAIN line |-> j]
      OBVIOUS
    <2>2. kept \in [DOMAIN line -> DOMAIN seen] /\ \A j \in DOMAIN line : kept[j] = j
      BY <1>6, <2>1
    <2>3. /\ \A j, k \in DOMAIN line : j < k => kept[j] < kept[k]
          /\ \A i \in DOMAIN seen : \E j \in DOMAIN line : kept[j] = i
      BY <1>6, <2>2
    <2>4. ASSUME NEW j \in DOMAIN line
          PROVE  line[j] = [seen[kept[j]] EXCEPT !.qty = Engine!Left(md, pl, kept[j])]
      <3>1. PICK i \in 1 .. m : i = j /\ kept[j] = i
        BY <1>2, <1>6, <2>2
      <3>2. [old[i] EXCEPT !.qty = Engine!Left(md, pl, i)] = old[i]
        BY <1>3
      <3> QED BY <1>6, <3>1, <3>2
    <2>5. thins(kept)
      BY <1>2, <1>3, <2>3, <2>4
    <2> QED BY <1>4, <2>2, <2>5
  <1> QED BY <1>5, <1>6

(* The order's own side of the book is left as it was.                     *)
LEMMA OwnQueueKept ==
  ASSUME SweepOver, NEW p \in Prices
  PROVE  Queue[incoming.side][p] = before[incoming.side][p]
PROOF
  <1>1. /\ BookInv /\ incoming.side \in Side /\ Opposite(incoming.side) # incoming.side
        /\ SeenQueue = before /\ SeenOrder = incoming
        /\ before[incoming.side][p] \in Seq(Abstract!Order)
    BY EngineSees DEF SweepOver, MatcherInv, MatcherTypeOK, CallSane, Sweep, Order, Opposite, Side
  <1>2. PICK old \in Seq(Abstract!Order) : old = before[incoming.side][p]
    BY <1>1
  <1>3. PICK line \in Seq(Abstract!Order) : line = Queue[incoming.side][p]
    BY <1>1, QueuesDetermined DEF AllShown, Shows
  <1>4. PICK pl : pl = <<incoming.side, p>>
    OBVIOUS
  <1>5. Engine!Opposite(incoming.side) = Opposite(incoming.side)
    BY DEF Engine!Opposite, Opposite
  <1>6. old = SeenQueue[pl[1]][pl[2]]
    BY <1>1, <1>2, <1>4
  <1>7. \A i \in 1 .. Len(old) : Engine!Left(mode, pl, i) = old[i].qty
    BY <1>1, <1>4, <1>5, <1>6 DEF Engine!Left
  <1>8. Engine!Thinned(mode, pl, line)
    BY <1>1, <1>3, <1>4, EngineThins
  <1>9. line = old
    BY <1>6, <1>7, <1>8, NothingThinned
  <1> QED BY <1>2, <1>3, <1>9

(* add_order() has room for an order of this side and price.               *)
HasRoom(o) == order_pool # {} /\ (price_map[o.side][o.price] # Null \/ level_pool # {})

(* It rests an order that is not in the book exactly when it has room.     *)
LEMMA AddOrderOutcome ==
  ASSUME BookInv, NEW o \in RestableOrder, ~Found(o.order_id), AddOrder(o)
  PROVE  \/ HasRoom(o) /\ \E s \in OrderSlots : Rests(o, s)
         \/ ~HasRoom(o) /\ Queue' = Queue
PROOF
  <1>1. (\E s \in OrderSlots : Rests(o, s)) \/ Refuses(o)
    BY AddOrderRests
  <1>2. ASSUME NEW s \in OrderSlots, OrderPool!Acquire(s)
        PROVE  order_pool # {} /\ ~Refuses(o)
    BY <1>2 DEF OrderPool!Acquire, Refuses
  <1>3. ASSUME NEW s \in OrderSlots, RestAtLevel(o, s) PROVE HasRoom(o) /\ ~Refuses(o)
    <2>1. OrderPool!Acquire(s) /\ price_map[o.side][o.price] # Null
      BY <1>3, Zenon DEF RestAtLevel
    <2> QED BY <1>2, <2>1 DEF HasRoom
  <1>4. ASSUME NEW s \in OrderSlots, NEW l \in LevelSlots, RestAtNewLevel(o, s, l)
        PROVE  HasRoom(o) /\ ~Refuses(o)
    <2>1. OrderPool!Acquire(s) /\ LevelPool!Acquire(l)
      BY <1>4 DEF RestAtNewLevel
    <2>2. level_pool # {}
      BY <2>1 DEF LevelPool!Acquire
    <2> QED BY <1>2, <2>1, <2>2 DEF HasRoom
  <1>5. CASE NoOrderSlot(o) \/ NoLevelSlot(o)
    <2>1. ~HasRoom(o)
      BY <1>5 DEF NoOrderSlot, NoLevelSlot, OrderPool!AcquireFails, LevelPool!AcquireFails, HasRoom
    <2>2. UNCHANGED <<data, qty, next_, head_, price_map>>
      BY <1>5 DEF NoOrderSlot, NoLevelSlot, orderVars, levelVars, mapVars
    <2>3. Queue' = Queue
      BY <2>2 DEF Queue, Chain, Walk, OrderAt
    <2> QED BY <2>1, <2>3
  <1> QED BY <1>1, <1>3, <1>4, <1>5 DEF AddOrder, RejectDuplicate

(* What MatchingEngine says of the queues when match() returns.            *)
Settled ==
  \A side \in Side, p \in Prices :
    IF Engine!Rests(mode) /\ side = incoming.side /\ p = incoming.price
      THEN Queue'[side][p] = Append(before[side][p], Engine!Remainder(mode))
      ELSE Engine!Thinned(mode, <<side, p>>, Queue'[side][p])

(* The remainder rests in its queue, in the book as the sweep has left it, *)
(* or nothing more happens.                                                *)
LEMMA FinishSettles ==
  ASSUME SweepOver, MatcherInv', FinishMatch PROVE Settled
PROOF
  <1>1. /\ BookInv /\ BookInv' /\ incoming \in Order
        /\ remaining \in Nat /\ remaining <= incoming.qty
        /\ ~Found(incoming.order_id) /\ SeenOrder = incoming
    BY EngineSees
    DEF SweepOver, MatcherInv, MatcherTypeOK, Sweeping, CallClean, Sweep, SweepInv
  <1>2. Engine!Rests(mode) <=>
          incoming.tif = "GTC" /\ remaining > 0 /\ ~WouldRestCrossed /\ HasRoom(incoming)
    BY EngineRests DEF HasRoom
  <1>3. \A side \in Side, p \in Prices : Engine!Thinned(mode, <<side, p>>, Queue[side][p])
    BY EngineThins
  <1>4. CASE Queue' = Queue /\ ~Engine!Rests(mode)
    BY <1>3, <1>4, Zenon DEF Settled
  <1>5. CASE ~(incoming.tif = "GTC" /\ remaining > 0 /\ ~WouldRestCrossed) /\ UNCHANGED bookVars
    <2>1. Queue' = Queue
      BY <1>5, SameQueue
    <2> QED BY <1>2, <1>4, <1>5, <2>1
  <1>6. CASE /\ incoming.tif = "GTC" /\ remaining > 0 /\ ~WouldRestCrossed
             /\ AddOrder(Remainder)
    <2>1. Remainder \in RestableOrder
      <3>1. remaining \in Quantity
        BY <1>1, <1>6, BookAssumption DEF Order, Quantity
      <3> QED BY <1>1, <1>6, <3>1 DEF Order, Remainder, RestableOrder
    <2>2. PICK o \in RestableOrder : o = Remainder /\ AddOrder(o)
      BY <1>6, <2>1
    <2>3. /\ o.order_id = incoming.order_id /\ o.qty = remaining
          /\ o.client_id = incoming.client_id
          /\ o.side = incoming.side /\ o.price = incoming.price
      BY <1>1, <2>2 DEF Remainder, Order
    <2>4. HasRoom(o) <=> HasRoom(incoming)
      BY <2>3 DEF HasRoom
    <2>5. CASE ~HasRoom(o) /\ Queue' = Queue
      BY <1>2, <1>4, <2>4, <2>5
    <2>6. ASSUME HasRoom(o), NEW s \in OrderSlots, Rests(o, s) PROVE Settled
      <3>1. PICK side \in Side, p \in Prices : side = incoming.side /\ p = incoming.price
        BY <1>1 DEF Order
      <3>2. PICK e : e = OrderAt(s)'
        OBVIOUS
      <3>3. QueueGrows(side, p, e)
        BY <1>1, <2>3, <2>6, <3>1, <3>2, RestsQueue
      <3>4. Queue' = [Queue EXCEPT ![side][p] = Append(@, e)]
        BY <3>3 DEF QueueGrows
      <3>5. e = Engine!Remainder(mode)
        <4>1. e = [order_id |-> incoming.order_id, qty |-> remaining,
                   client_id |-> incoming.client_id]
          BY <2>3, <2>6, <3>2 DEF Rests, Enters, DataOf, OrderAt
        <4>2. PICK q : q = Engine!Remainder(mode).qty /\ q = remaining
          BY EngineTrades
        <4>3. Engine!Remainder(mode) = [order_id |-> SeenOrder.order_id, qty |-> q,
                                        client_id |-> SeenOrder.client_id]
          BY <4>2 DEF Engine!Remainder
        <4> QED BY <1>1, <4>1, <4>2, <4>3
      <3>6. Queue = [sd \in Side |-> [pr \in Prices |-> Queue[sd][pr]]]
        BY <1>1, QueuesDetermined DEF AllShown
      <3>7. PICK w : w = Append(Queue[side][p], e)
        OBVIOUS
      <3>8. Queue' = [Queue EXCEPT ![side][p] = w]
        BY <3>4, <3>7
      <3>9. \A sd \in Side, pr \in Prices :
              Queue'[sd][pr] = IF sd = side /\ pr = p THEN w ELSE Queue[sd][pr]
        BY <3>6, <3>8
      <3>10. w = Append(before[side][p], Engine!Remainder(mode))
        <4>1. Queue[side][p] = before[side][p]
          BY <3>1, OwnQueueKept
        <4> QED BY <3>5, <3>7, <4>1
      <3> QED BY <1>2, <1>3, <1>6, <2>4, <2>6, <3>1, <3>9, <3>10, Zenon DEF Settled
    <2> QED BY <1>1, <2>2, <2>3, <2>5, <2>6, AddOrderOutcome
  <1> QED BY <1>5, <1>6, Zenon DEF FinishMatch

(* A matched order is matched in one step, the one MatchingEngine takes.   *)
LEMMA FinishMatches ==
  ASSUME SweepOver, MatcherInv', FinishMatch PROVE Engine!EngineNext
PROOF
  <1>1. /\ BookInv' /\ incoming \in Order /\ mode \in Modes
        /\ SeenQueue = before /\ SeenOrder = incoming /\ pc' = "returned"
    BY EngineSees DEF SweepOver, MatcherInv, MatcherTypeOK, CallSane, Sweep, FinishMatch, Sweeping
  <1>2. SeenQueue' = Queue' /\ SeenOrder' = Null
    BY <1>1 DEF SeenQueue, SeenOrder
  <1>3. incoming # Null
    BY <1>1, MatcherAssumption
  <1>4. Queue' \in [Side -> [Prices -> Seq(Abstract!Order)]]
    BY <1>1, QueuesDeterminedAfter DEF AllShown, Shows
  <1>5. Engine!Order = Abstract!Order /\ Engine!Side = Side
    BY DEF Engine!Order, Abstract!Order, Engine!Side, Side
  <1>6. \A side \in Engine!Side, p \in Prices :
          IF Engine!Rests(mode) /\ side = SeenOrder.side /\ p = SeenOrder.price
            THEN SeenQueue'[side][p] = Append(SeenQueue[side][p], Engine!Remainder(mode))
            ELSE Engine!Thinned(mode, <<side, p>>, SeenQueue'[side][p])
    BY <1>1, <1>2, <1>5, FinishSettles, Zenon DEF Settled
  <1>7. SeenQueue' \in [Engine!Side -> [Prices -> Seq(Engine!Order)]]
    BY <1>2, <1>4, <1>5
  <1>8. Engine!Match(mode)
    BY <1>1, <1>2, <1>3, <1>6, <1>7, Zenon DEF Engine!Match
  <1> QED BY <1>1, <1>8, Zenon DEF Engine!EngineNext

-----------------------------------------------------------------------------
(* The i-th order of a place has its position there.                       *)
LEMMA SlotPosition ==
  ASSUME BookInv, SeenQueue = Queue, NEW s \in Resting
  PROVE  \E side \in Side, p \in Prices, i \in 1 .. Cardinality(OrderSlots) :
           /\ side = data[s].side /\ p = data[s].price /\ i = Place(s)
           /\ <<<<side, p>>, i>> \in Engine!Positions(data[s].order_id)
           /\ Queue[side][p][i] = OrderAt(s) /\ data[s].order_id \in OrderIds
PROOF
  <1>1. QueuesSeen /\ OrdersSeen
    BY QueuesView, OrdersView
  <1>2. PICK side \in Side, p \in Prices, i \in 1 .. Cardinality(OrderSlots) :
          /\ side = data[s].side /\ p = data[s].price /\ i = Place(s)
          /\ data[s].order_id \in OrderIds
    BY <1>1, PlacesFit DEF OrdersSeen, OrderData
  <1>3. /\ i <= Len(Queue[side][p]) /\ Queue[side][p][i] = OrderAt(s)
        /\ Queue[side][p][i].order_id = data[s].order_id
    <2>1. /\ i \in 1 .. Len(Queue[side][p]) /\ Len(Queue[side][p]) \in Nat
          /\ Queue[side][p][i] = OrderAt(s)
      BY <1>1, <1>2 DEF QueuesSeen
    <2> QED BY <2>1 DEF OrderAt
  <1>4. PICK pos : pos = <<<<side, p>>, i>>
    OBVIOUS
  <1>5. /\ pos[1][1] = side /\ pos[1][2] = p /\ pos[2] = i
        /\ pos \in Engine!Places \X (1 .. Cardinality(OrderSlots))
    BY <1>4 DEF Engine!Places, Engine!Side, Side
  <1>6. pos \in Engine!Positions(data[s].order_id)
    BY <1>3, <1>5 DEF Engine!Positions
  <1> QED BY <1>2, <1>3, <1>4, <1>6

(* What MatchingEngine sees when match() begins: the book as it stands.    *)
OffersSeen ==
  /\ SeenQueue = Queue /\ SeenOrder = incoming
  /\ IsFiniteSet(Engine!Tradable)
  /\ \A m \in Engine!Tradable : Engine!Offer[m] \in Nat \ {0} /\ m \in Engine!At(m[1])
  /\ Engine!Total(Engine!Offer, Engine!Tradable) = Total(qty, Offered)
  /\ Found(incoming.order_id) => Engine!Duplicate

(* The orders it may trade with are those the book offers.                 *)
LEMMA OffersView ==
  ASSUME MatcherInv, pc = "match" PROVE OffersSeen
PROOF
  <1>1. /\ BookInv /\ incoming \in Order /\ OrdersSeen /\ LevelsSeen /\ PlacesSeen /\ QueuesSeen
        /\ SeenQueue = Queue /\ SeenOrder = incoming
        /\ Opposite(incoming.side) \in Side
    BY OrdersView, LevelsView, PlacesView, QueuesView
    DEF MatcherInv, MatcherTypeOK, SeenQueue, SeenOrder, Opposite, Side
  <1>2. PICK opp \in Side : opp = Opposite(incoming.side) /\ opp = Engine!Opposite(incoming.side)
    BY <1>1 DEF Engine!Opposite, Opposite
  <1>3. PICK g : g = [s \in Offered |-> <<data[s].price, Place(s)>>]
    OBVIOUS
  <1>4. /\ \A p : Engine!Crosses(p, incoming) <=> Crosses(p, incoming)
        /\ \A m : Engine!MakerAt(m) = Queue[opp][m[1]][m[2]]
    BY <1>1, <1>2 DEF Engine!Crosses, Crosses, Engine!MakerAt
  <1>5. \A m : m \in Engine!Tradable <=>
          /\ m \in Prices \X (1 .. Cardinality(OrderSlots))
          /\ m[2] <= Len(Queue[opp][m[1]]) /\ Crosses(m[1], incoming)
          /\ Queue[opp][m[1]][m[2]].client_id # incoming.client_id
    BY <1>1, <1>2, <1>4 DEF Engine!Tradable
  <1>6. ASSUME NEW s \in Offered
        PROVE  /\ g[s] \in Engine!Tradable /\ Engine!MakerAt(g[s]) = OrderAt(s)
               /\ g[s][1] = data[s].price /\ g[s][2] = Place(s)
    <2>1. /\ s \in Resting /\ data[s].side = opp /\ Crosses(data[s].price, incoming)
          /\ data[s].client_id # incoming.client_id
      BY <1>2 DEF Offered, IsSelfTrade
    <2>2. PICK p \in Prices : p = data[s].price
      BY <1>1, <2>1 DEF OrdersSeen, OrderData
    <2>3. PICK i \in 1 .. Cardinality(OrderSlots) : i = Place(s)
      BY <1>1, <2>1, PlacesFit
    <2>4. /\ Len(Queue[opp][p]) \in Nat
          /\ i \in 1 .. Len(Queue[opp][p]) /\ Queue[opp][p][i] = OrderAt(s)
      BY <1>1, <2>1, <2>2, <2>3 DEF QueuesSeen
    <2>5. PICK m : m = <<p, i>> /\ m = g[s]
      BY <1>3, <2>2, <2>3
    <2>6. m[1] = p /\ m[2] = i /\ m \in Prices \X (1 .. Cardinality(OrderSlots))
      BY <2>5
    <2>7. i <= Len(Queue[opp][p]) /\ OrderAt(s).client_id # incoming.client_id
      BY <2>1, <2>4 DEF OrderAt
    <2> QED BY <1>4, <1>5, <2>1, <2>2, <2>3, <2>4, <2>5, <2>6, <2>7
  <1>7. ASSUME NEW m \in Engine!Tradable
        PROVE  \E s \in Offered : g[s] = m
    <2>1. PICK p \in Prices, i \in 1 .. Cardinality(OrderSlots) :
            /\ m = <<p, i>> /\ i <= Len(Queue[opp][p]) /\ Crosses(p, incoming)
            /\ Queue[opp][p][i].client_id # incoming.client_id
      BY <1>5
    <2>2. i \in 1 .. Len(Queue[opp][p])
      <3>1. Cardinality(OrderSlots) \in Nat /\ Len(Queue[opp][p]) \in Nat
        BY <1>1, BookAssumption, FS_CardinalityType DEF QueuesSeen
      <3> QED BY <2>1, <3>1
    <2>3. PICK s \in Resting : /\ data[s].side = opp /\ data[s].price = p
                               /\ Place(s) = i /\ Queue[opp][p][i] = OrderAt(s)
      BY <1>1, <2>2 DEF QueuesSeen
    <2>4. s \in Offered
      BY <1>2, <2>1, <2>3 DEF Offered, IsSelfTrade, OrderAt
    <2> QED BY <1>3, <2>1, <2>3, <2>4
  <1>8. \A s, t \in Offered : g[s] = g[t] => s = t
    <2> SUFFICES ASSUME NEW s \in Offered, NEW t \in Offered, g[s] = g[t] PROVE s = t
      OBVIOUS
    <2>1. data[s].price = data[t].price /\ Place(s) = Place(t)
      BY <1>6
    <2> QED BY <1>1, <2>1 DEF Offered, LevelsSeen, PlacesSeen
  <1>9. IsFiniteSet(Offered) /\ \A s \in Offered : qty[s] \in Nat \ {0}
    BY <1>1, OfferedSize
  <1>10. IsFiniteSet(Engine!Tradable)
    <2>1. g = [s \in Offered |-> g[s]]
      BY <1>3
    <2> QED BY <1>6, <1>7, <1>8, <1>9, <2>1, SameSize
  <1>11. \A s \in Offered : Engine!Offer[g[s]] = qty[s]
    <2> TAKE s \in Offered
    <2>1. Engine!Offer[g[s]] = OrderAt(s).qty
      BY <1>6 DEF Engine!Offer
    <2> QED BY <2>1 DEF OrderAt
  <1>12. \A m \in Engine!Tradable : Engine!Offer[m] \in Nat \ {0} /\ m \in Engine!At(m[1])
    BY <1>7, <1>9, <1>11 DEF Engine!At
  <1>13. Engine!Total(Engine!Offer, Engine!Tradable) = Total(qty, Offered)
    <2>1. PICK f, R : f = Engine!Offer /\ R = Engine!Tradable
      OBVIOUS
    <2>2. Corresponds(g, Offered, R)
      BY <1>6, <1>7, <1>8, <2>1 DEF Corresponds
    <2>3. Reads(qty, f, g, Offered)
      BY <1>9, <1>11, <2>1 DEF Reads
    <2>4. Total(f, R) = Total(qty, Offered)
      BY <1>9, <1>10, <2>1, <2>2, <2>3, TotalOver
    <2> QED BY <1>10, <2>1, <2>4, EngineTotalIs
  <1>14. ASSUME Found(incoming.order_id) PROVE Engine!Duplicate
    <2>1. PICK s \in Resting : data[s].order_id = incoming.order_id
      BY <1>1, <1>14 DEF LevelsSeen, Order
    <2>2. Engine!Positions(incoming.order_id) # {}
      BY <1>1, <2>1, SlotPosition
    <2> QED BY <1>1, <2>2 DEF Engine!Duplicate
  <1> QED BY <1>1, <1>10, <1>12, <1>13, <1>14 DEF OffersSeen

(* A refused order wants nothing;                                          *)
LEMMA RefusedWants ==
  ASSUME MatcherInv, pc = "match", Refused PROVE Engine!Wanted = 0
PROOF
  <1>1. BookInv /\ OffersSeen /\ incoming \in Order
    BY OffersView DEF MatcherInv, MatcherTypeOK
  <1>2. CASE Found(incoming.order_id)
    BY <1>1, <1>2 DEF OffersSeen, Engine!Wanted
  <1>3. CASE incoming.tif = "FOK" /\ Available(incoming) < incoming.qty
    <2>1. Available(incoming) = Smaller(incoming.qty, Total(qty, Offered))
      BY <1>1, OfferedSize, SumQtyIs DEF Available, Offered
    <2>2. Total(qty, Offered) < incoming.qty
      <3>1. Total(qty, Offered) \in Nat /\ incoming.qty \in Nat
        BY <1>1, OfferedSize, TotalNat DEF Order
      <3> QED BY <1>3, <2>1, <3>1 DEF Smaller
    <2> QED BY <1>1, <1>3, <2>2 DEF OffersSeen, Engine!Wanted
  <1> QED BY <1>2, <1>3 DEF Refused

(* and what wants nothing trades nothing, and has no remainder.            *)
LEMMA NothingTraded ==
  ASSUME OffersSeen, Engine!Wanted = 0, NEW md
  PROVE  /\ \A m \in Engine!Tradable : Engine!Traded(md)[m] = 0
         /\ Engine!Remainder(md).qty = 0
PROOF
  <1>1. PICK T, f : T = Engine!Tradable /\ f = Engine!Offer
    OBVIOUS
  <1>2. /\ IsFiniteSet(T) /\ \A m \in T : f[m] \in Nat \ {0} /\ m \in Engine!At(m[1])
        /\ \A p : Engine!At(p) \in SUBSET T /\ Engine!Ahead(p) \in SUBSET T
    BY <1>1 DEF OffersSeen, Engine!At, Engine!Ahead
  <1>3. \A S \in SUBSET T : \A h : IsFiniteSet(S) /\ Engine!Total(h, S) = Total(h, S)
    BY <1>2, FS_Subset, EngineTotalIs
  <1>4. \A S \in SUBSET T : Engine!Total(f, S) \in Nat
    BY <1>2, <1>3, TotalNat
  <1>5. \A a, b \in Nat : Engine!Poured(0, a, b) = 0
    BY DEF Engine!Poured
  <1>6. \A p : Engine!TradedAt(p) = 0
    BY <1>1, <1>2, <1>4, <1>5 DEF Engine!TradedAt
  <1>7. \A m \in T : Engine!Total(f, Engine!At(m[1])) \in Nat \ {0}
    <2> TAKE m \in T
    <2>1. PICK S \in SUBSET T : S = Engine!At(m[1]) /\ m \in S
      BY <1>2
    <2>2. Total(f, S) = Total(f, {m}) + Total(f, S \ {m}) /\ Total(f, {m}) = f[m]
          /\ Total(f, S \ {m}) \in Nat
      <3>1. IsFiniteSet(S) /\ \A x \in S : f[x] \in Nat /\ f[x] \in Int
        BY <1>2, <1>3, <2>1
      <3>2. {m} \in SUBSET S /\ IsFiniteSet(S \ {m})
        BY <2>1, <3>1, FS_Subset
      <3>3. Total(f, S \ {m}) \in Nat
        BY <3>1, <3>2, TotalNat
      <3>4. Total(f, S) = Total(f, {m}) + Total(f, S \ {m})
        BY <3>1, <3>2, TotalSplit
      <3> QED BY <3>1, <3>3, <3>4, <2>1, TotalOne
    <2>3. Total(f, S) \in Nat \ {0}
      BY <1>2, <2>2
    <2> QED BY <1>3, <2>1, <2>3
  <1>8. \A t \in Nat \ {0} : \A q \in Nat : (0 * q) \div t = 0
    OBVIOUS
  <1>9. \A m \in T : Engine!Share(md)[m] = 0
    <2> TAKE m \in T
    <2>1. (Engine!TradedAt(m[1]) * f[m]) \div Engine!Total(f, Engine!At(m[1])) = 0
      BY <1>2, <1>6, <1>7, <1>8
    <2> QED BY <1>1, <2>1 DEF Engine!Share
  <1>10. \A m \in T : Engine!Room(md)[m] = f[m]
    BY <1>1, <1>2, <1>9 DEF Engine!Room
  <1>11. \A p : Engine!Total(Engine!Share(md), Engine!At(p)) = 0
    <2> TAKE p
    <2>1. PICK h, S : h = Engine!Share(md) /\ S = Engine!At(p)
      OBVIOUS
    <2>2. S \in SUBSET T /\ IsFiniteSet(S) /\ \A x \in S : h[x] = 0
      BY <1>2, <1>3, <1>9, <2>1
    <2>3. Total(h, S) = 0
      BY <2>2, TotalZero
    <2> QED BY <1>3, <2>1, <2>2, <2>3
  <1>12. \A m \in T : Engine!Total(Engine!Room(md), Engine!InFront(md, m)) \in Nat
    <2> TAKE m \in T
    <2>1. PICK h, S : h = Engine!Room(md) /\ S = Engine!InFront(md, m)
      OBVIOUS
    <2>2. S \in SUBSET Engine!At(m[1])
      BY <2>1 DEF Engine!InFront
    <2>3. S \in SUBSET T /\ IsFiniteSet(S) /\ \A x \in S : h[x] \in Nat
      BY <1>2, <1>3, <1>10, <2>1, <2>2
    <2>4. Total(h, S) \in Nat
      BY <2>3, TotalNat
    <2> QED BY <1>3, <2>1, <2>3, <2>4
  <1>13. \A m \in T : Engine!Traded(md)[m] = 0
    <2> TAKE m \in T
    <2>1. Engine!Poured(Engine!TradedAt(m[1]) - Engine!Total(Engine!Share(md), Engine!At(m[1])),
                        Engine!Total(Engine!Room(md), Engine!InFront(md, m)),
                        Engine!Room(md)[m]) = 0
      BY <1>2, <1>5, <1>6, <1>10, <1>11, <1>12
    <2> QED BY <1>1, <1>9, <2>1 DEF Engine!Traded
  <1>14. Engine!Remainder(md).qty = 0
    <2>1. PICK h : h = Engine!Traded(md)
      OBVIOUS
    <2>2. Total(h, T) = 0
      BY <1>2, <1>13, <2>1, TotalZero
    <2>3. Engine!Total(Engine!Traded(md), Engine!Tradable) = 0
      BY <1>1, <1>2, <2>1, <2>2, EngineTotalIs
    <2> QED BY <2>3 DEF Engine!Remainder
  <1> QED BY <1>1, <1>13, <1>14

(* A refused order is matched in one step as well, which only drops it.    *)
LEMMA RefusedMatches ==
  ASSUME MatcherInv, BeginMatch, pc' = "returned" PROVE Engine!EngineNext
PROOF
  <1>1. /\ BookInv /\ incoming \in Order /\ incoming # Null /\ pc = "match" /\ Refused
        /\ SeenQueue' = Queue' /\ SeenOrder' = Null /\ Queue' = Queue
    BY MatcherAssumption, SameQueue
    DEF BeginMatch, MatcherInv, MatcherTypeOK, SeenQueue, SeenOrder
  <1>2. OffersSeen /\ Engine!Wanted = 0 /\ AllShown
    BY <1>1, OffersView, RefusedWants, QueuesDetermined
  <1>3. SeenQueue = Queue /\ SeenOrder = incoming
    BY <1>2 DEF OffersSeen
  <1>4. PICK md \in Modes : mode' = md
    BY DEF BeginMatch
  <1>5. ~Engine!Rests(md)
    <2>1. PICK n : n = Engine!Remainder(md).qty /\ n = 0
      BY <1>2, NothingTraded
    <2>2. ~(Engine!Remainder(md).qty > 0)
      BY <2>1
    <2> QED BY <2>2, Zenon DEF Engine!Rests
  <1>6. ASSUME NEW side \in Side, NEW p \in Prices
        PROVE  Engine!Thinned(md, <<side, p>>, Queue[side][p])
    <2>1. PICK old \in Seq(Abstract!Order) : old = Queue[side][p]
      BY <1>2 DEF AllShown, Shows
    <2>2. PICK pl : pl = <<side, p>>
      OBVIOUS
    <2>3. pl[1] = side /\ pl[2] = p /\ old = SeenQueue[pl[1]][pl[2]]
      BY <1>3, <2>1, <2>2
    <2>4. ASSUME NEW i \in 1 .. Len(old) PROVE Engine!Left(md, pl, i) = old[i].qty
      <3>1. CASE side = Engine!Opposite(incoming.side) /\ <<p, i>> \in Engine!Tradable
        <4>1. PICK m \in Engine!Tradable : m = <<p, i>>
          BY <3>1
        <4>2. Engine!Left(md, pl, i) = Engine!Offer[m] - Engine!Traded(md)[m]
          BY <1>3, <2>3, <3>1, <4>1 DEF Engine!Left
        <4>3. Engine!Traded(md)[m] = 0 /\ Engine!Offer[m] \in Nat
          BY <1>2, NothingTraded DEF OffersSeen
        <4>4. Engine!Offer[m] = old[i].qty
          <5>1. Engine!Offer[m] = Engine!MakerAt(m).qty
            BY DEF Engine!Offer
          <5> QED BY <1>3, <2>1, <3>1, <4>1, <5>1 DEF Engine!MakerAt
        <4> QED BY <4>2, <4>3, <4>4
      <3>2. CASE ~(side = Engine!Opposite(incoming.side) /\ <<p, i>> \in Engine!Tradable)
        BY <1>3, <2>1, <2>3, <3>2 DEF Engine!Left
      <3> QED BY <3>1, <3>2
    <2>5. Engine!Thinned(md, pl, old)
      BY <2>3, <2>4, NothingThinned
    <2> QED BY <2>1, <2>2, <2>5
  <1>7. Engine!Order = Abstract!Order /\ Engine!Side = Side
    BY DEF Engine!Order, Abstract!Order, Engine!Side, Side
  <1>8. SeenQueue' \in [Engine!Side -> [Prices -> Seq(Engine!Order)]]
    <2>1. Queue \in [Side -> [Prices -> Seq(Abstract!Order)]]
      BY <1>2 DEF AllShown, Shows
    <2> QED BY <1>1, <1>7, <2>1
  <1>9. \A side \in Engine!Side, p \in Prices :
          Engine!Thinned(md, <<side, p>>, SeenQueue'[side][p])
    BY <1>1, <1>6, <1>7
  <1>10. Engine!Match(md)
    BY <1>1, <1>3, <1>5, <1>8, <1>9, Zenon DEF Engine!Match
  <1> QED BY <1>10, Zenon DEF Engine!EngineNext

(* A call that is not refused has not happened yet, for MatchingEngine.    *)
LEMMA BeginUnseen ==
  ASSUME MatcherInv, BeginMatch, pc' # "returned"
  PROVE  UNCHANGED <<SeenQueue, SeenOrder>> /\ IsFiniteSet(Tradable)'
PROOF
  <1>1. pc = "match" /\ pc' = "level" /\ before' = Queue /\ incoming' = incoming /\ OffersSeen
    BY OffersView DEF BeginMatch
  <1>2. UNCHANGED <<SeenQueue, SeenOrder>>
    BY <1>1 DEF SeenQueue, SeenOrder
  <1>3. Tradable' = Engine!Tradable
    <2>1. SeenQueue = Queue /\ SeenOrder = incoming
      BY <1>1 DEF OffersSeen
    <2>2. \A m : Engine!MakerAt(m) = MakerAt(m)'
      BY <1>1, <2>1 DEF Engine!MakerAt, Engine!Opposite, MakerAt, Makers, Opposite
    <2> QED BY <1>1, <2>1, <2>2
        DEF Engine!Tradable, Tradable, Engine!Crosses, Crosses, Makers, Engine!Opposite, Opposite
  <1> QED BY <1>1, <1>2, <1>3 DEF OffersSeen

(* Every step keeps what is known of the call.                             *)
LEMMA CallSaneStep ==
  ASSUME MatcherInv, MatcherInv', LevelEntered, CallSane, [Next]_vars
  PROVE  CallSane'
PROOF
  <1>1. CASE pc \in Sweep /\ UNCHANGED <<mode, incoming, before>>
    <2>1. Tradable' = Tradable
      BY <1>1, SameMakers
    <2> QED BY <1>1, <2>1 DEF CallSane
  <1>2. CASE BeginMatch
    <2>1. CASE pc' = "returned"
      BY <2>1 DEF CallSane, Sweep
    <2>2. CASE pc' # "returned"
      <3>1. BookInv /\ before' = Queue /\ mode' \in Modes
        BY <1>2 DEF MatcherInv, BeginMatch
      <3>2. \A side \in Side, p \in Prices : before'[side][p] \in Seq(Abstract!Order)
        BY <3>1, QueuesDetermined DEF AllShown, Shows
      <3> QED BY <1>2, <2>2, <3>1, <3>2, BeginUnseen DEF CallSane
    <2> QED BY <2>1, <2>2
  <1>3. CASE Call \/ FinishMatch \/ Return
    BY <1>3 DEF Call, Submit, Cancel, Replace, FinishMatch, Return, CallSane, Sweep
  <1>4. CASE SweepStep
    BY <1>1, <1>4, SweepTrades
  <1>5. CASE UNCHANGED vars
    <2>1. UNCHANGED <<pc, mode, incoming, before>>
      BY <1>5 DEF vars, localVars
    <2> QED BY <1>1, <2>1 DEF CallSane
  <1> QED BY <1>2, <1>3, <1>4, <1>5 DEF Next, Step, SweepStep

-----------------------------------------------------------------------------
(* Between two calls MatchingEngine sees the queues of the book.           *)
LEMMA IdleSeen ==
  ASSUME pc = "idle", incoming' = incoming
  PROVE  /\ SeenQueue = Queue /\ SeenOrder = Null
         /\ pc' = "idle" => SeenQueue' = Queue' /\ SeenOrder' = Null
PROOF
  BY DEF SeenQueue, SeenOrder

(* Taking an order out removes it from its queue.                          *)
LEMMA CancelRemoves ==
  ASSUME BookInv, SeenQueue = Queue, NEW id \in OrderIds, CancelOrder(id),
         SeenQueue' = Queue'
  PROVE  /\ Engine!Remove(id)
         /\ \E pos \in Engine!Positions(id) :
              /\ data[FindOrder(id)].side = pos[1][1]
              /\ data[FindOrder(id)].price = pos[1][2]
              /\ data[FindOrder(id)].client_id
                   = SeenQueue[pos[1][1]][pos[1][2]][pos[2]].client_id
              /\ qty[FindOrder(id)] = SeenQueue[pos[1][1]][pos[1][2]][pos[2]].qty
PROOF
  <1>1. BookInv' /\ Found(id) /\ FindOrder(id) \in Resting /\ Leaves(FindOrder(id))
    BY CancelOrderLeaves
  <1>2. PICK s \in Resting : s = FindOrder(id) /\ Leaves(s)
    BY <1>1
  <1>3. data[s].order_id = id
    <2>1. PICK t \in Resting : data[t].order_id = id
      BY <1>1, LevelsView DEF LevelsSeen
    <2>2. FindOrder(data[t].order_id) = t
      BY OrdersView DEF OrdersSeen
    <2> QED BY <1>2, <2>1, <2>2
  <1>4. PICK side \in Side, p \in Prices, i \in 1 .. Cardinality(OrderSlots) :
          /\ side = data[s].side /\ p = data[s].price /\ i = Place(s)
          /\ <<<<side, p>>, i>> \in Engine!Positions(id)
          /\ Queue[side][p][i] = OrderAt(s)
    BY <1>3, SlotPosition
  <1>5. Queue' = [Queue EXCEPT ![side][p] = Abstract!Without(@, i)]
    BY <1>1, <1>2, <1>4, LeavesQueue
  <1>6. \A q : Engine!Without(q, i) = Abstract!Without(q, i)
    BY Zenon DEF Engine!Without, Abstract!Without
  <1>7. Queue' = [Queue EXCEPT ![side][p] = Engine!Without(@, i)]
    BY <1>5, <1>6, Zenon
  <1>8. PICK pos \in Engine!Positions(id) : pos = <<<<side, p>>, i>>
    BY <1>4
  <1>9. pos[1][1] = side /\ pos[1][2] = p /\ pos[2] = i
    BY <1>8
  <1>10. SeenQueue' = [SeenQueue EXCEPT ![pos[1][1]][pos[1][2]] = Engine!Without(@, pos[2])]
    BY <1>7, <1>9, Zenon
  <1>11. OrderAt(s).client_id = data[s].client_id /\ OrderAt(s).qty = qty[s]
    BY DEF OrderAt
  <1>12. Engine!Remove(id)
    BY <1>10, Zenon DEF Engine!Remove
  <1> QED BY <1>2, <1>4, <1>9, <1>11, <1>12

(* Every call is one of MatchingEngine.                                    *)
LEMMA CallMaps ==
  ASSUME MatcherInv, MatcherInv', Call PROVE Engine!EngineNext
PROOF
  <1>1. pc = "idle" /\ BookInv /\ BookInv' /\ SeenQueue = Queue /\ SeenOrder = Null
    BY DEF Call, Submit, Cancel, Replace, MatcherInv, SeenQueue, SeenOrder
  <1>2. \A o \in Order : o \in Engine!Incoming
    BY DEF Order, TimeInForce, Side, Engine!Incoming, Engine!Side
  <1>3. ASSUME NEW o \in Order, Submit(o) PROVE Engine!EngineNext
    <2>1. pc' = "match" /\ incoming' = o /\ Queue' = Queue
      BY <1>3, SameQueue DEF Submit
    <2>2. SeenQueue' = Queue' /\ SeenOrder' = o
      BY <2>1 DEF SeenQueue, SeenOrder
    <2>3. Engine!Submit(o)
      BY <1>1, <2>1, <2>2 DEF Engine!Submit
    <2> QED BY <1>2, <2>3, Zenon DEF Engine!EngineNext
  <1>4. ASSUME NEW id \in OrderIds, CancelOrder(id), UNCHANGED <<pc, localVars>>
        PROVE  Engine!EngineNext
    <2>1. SeenQueue' = Queue' /\ SeenOrder' = Null
      BY <1>1, <1>4 DEF SeenQueue, SeenOrder
    <2>2. Engine!Remove(id)
      BY <1>1, <1>4, <2>1, CancelRemoves
    <2>3. Engine!Cancel(id)
      BY <1>1, <2>1, <2>2, Zenon DEF Engine!Cancel
    <2> QED BY <2>3, Zenon DEF Engine!EngineNext
  <1>5. ASSUME NEW id \in OrderIds, NEW n \in Quantity, Found(id),
               n <= qty[FindOrder(id)], ReplaceOrderInPlace(id, n), UNCHANGED <<pc, localVars>>
        PROVE  Engine!EngineNext
    <2>1. SeenQueue' = Queue' /\ SeenOrder' = Null
      BY <1>1, <1>5 DEF SeenQueue, SeenOrder
    <2>2. PICK s \in Resting : s = FindOrder(id) /\ Shrinks(s, n)
      BY <1>1, <1>5, ReplaceShrinks
    <2>3. data[s].order_id = id
      <3>1. PICK t \in Resting : data[t].order_id = id
        BY <1>1, <1>5, LevelsView DEF LevelsSeen
      <3>2. FindOrder(data[t].order_id) = t
        BY <1>1, OrdersView DEF OrdersSeen
      <3> QED BY <2>2, <3>1, <3>2
    <2>4. PICK side \in Side, p \in Prices, i \in 1 .. Cardinality(OrderSlots) :
            /\ side = data[s].side /\ p = data[s].price /\ i = Place(s)
            /\ <<<<side, p>>, i>> \in Engine!Positions(id)
            /\ Queue[side][p][i] = OrderAt(s)
      BY <1>1, <2>3, SlotPosition
    <2>5. n \in 1 .. MaxQty
      BY DEF Quantity
    <2>6. QueueShrinks(side, p, i, n)
      BY <1>1, <2>2, <2>4, <2>5, ShrinksQueue
    <2>7. Queue' = [Queue EXCEPT ![side][p][i].qty = n]
      BY <2>6, Zenon DEF QueueShrinks
    <2>8. PICK pos \in Engine!Positions(id) : pos = <<<<side, p>>, i>>
      BY <2>4
    <2>9. pos[1][1] = side /\ pos[1][2] = p /\ pos[2] = i
      BY <2>8
    <2>10. SeenQueue' = [SeenQueue EXCEPT ![pos[1][1]][pos[1][2]][pos[2]].qty = n]
      BY <1>1, <2>1, <2>7, <2>9, Zenon
    <2>11. n <= SeenQueue[pos[1][1]][pos[1][2]][pos[2]].qty
      <3>1. OrderAt(s).qty = qty[s]
        BY DEF OrderAt
      <3> QED BY <1>1, <1>5, <2>2, <2>4, <2>9, <3>1
    <2>12. Engine!Shrink(id, n)
      BY <2>10, <2>11, Zenon DEF Engine!Shrink
    <2>13. Engine!Reduce(id, n)
      BY <1>1, <2>1, <2>12, Zenon DEF Engine!Reduce
    <2> QED BY <2>5, <2>13, Zenon DEF Engine!EngineNext
  <1>6. ASSUME NEW id \in OrderIds, NEW o, o.order_id = id, CancelOrder(id),
               pc' = "match", incoming' = o, o \in Order, o.qty > 0,
               o.side = data[FindOrder(id)].side, o.client_id = data[FindOrder(id)].client_id,
               o.price = data[FindOrder(id)].price => o.qty > qty[FindOrder(id)]
        PROVE  Engine!EngineNext
    <2>1. SeenQueue' = Queue' /\ SeenOrder' = o
      BY <1>6 DEF SeenQueue, SeenOrder
    <2>2. /\ Engine!Remove(o.order_id)
          /\ \E pos \in Engine!Positions(o.order_id) :
               /\ o.side = pos[1][1]
               /\ o.client_id = SeenQueue[pos[1][1]][pos[1][2]][pos[2]].client_id
               /\ o.price = pos[1][2] => o.qty > SeenQueue[pos[1][1]][pos[1][2]][pos[2]].qty
      BY <1>1, <1>6, <2>1, CancelRemoves
    <2>3. Engine!Resubmit(o)
      BY <1>1, <1>6, <2>1, <2>2, Zenon DEF Engine!Resubmit
    <2> QED BY <1>2, <1>6, <2>3, Zenon DEF Engine!EngineNext
  <1>7. ASSUME NEW id \in OrderIds, NEW p \in Prices, NEW n \in 0 .. MaxQty, Replace(id, p, n)
        PROVE  Engine!EngineNext
    <2>1. PICK s : s = FindOrder(id)
      OBVIOUS
    <2>2. Found(id)
      BY <1>7 DEF Replace
    <2>3. CASE n = 0 /\ CancelOrder(id) /\ UNCHANGED <<pc, localVars>>
      BY <1>4, <2>3
    <2>4. CASE /\ n # 0 /\ p = data[s].price /\ n <= qty[s]
               /\ ReplaceOrderInPlace(id, n) /\ UNCHANGED <<pc, localVars>>
      <3>1. n \in Quantity
        BY <2>4, BookAssumption DEF Quantity
      <3> QED BY <1>5, <2>1, <2>2, <2>4, <3>1
    <2>5. ASSUME n # 0, ~(p = data[s].price /\ n <= qty[s]), CancelOrder(id), pc' = "match",
                 incoming' = [order_id |-> id, price |-> p, qty |-> n, side |-> data[s].side,
                              tif |-> data[s].tif, client_id |-> data[s].client_id]
          PROVE  Engine!EngineNext
      <3>1. PICK o : o = [order_id |-> id, price |-> p, qty |-> n, side |-> data[s].side,
                          tif |-> data[s].tif, client_id |-> data[s].client_id]
        OBVIOUS
      <3>2. s \in Resting
        BY <1>1, <2>1, <2>5, CancelOrderLeaves
      <3>3. data[s] \in OrderData
        BY <1>1, <3>2, OrdersView DEF OrdersSeen
      <3>4. o \in Order
        BY <3>1, <3>3 DEF Order, OrderData
      <3>5. /\ o.order_id = id /\ incoming' = o /\ o.price = p /\ o.qty = n
            /\ o.side = data[s].side /\ o.client_id = data[s].client_id
        BY <2>5, <3>1
      <3>6. qty[s] \in Int
        BY <1>1, <3>2, OrdersView DEF OrdersSeen
      <3>7. o.qty > 0 /\ (o.price = data[s].price => o.qty > qty[s])
        BY <2>5, <3>5, <3>6, BookAssumption
      <3> QED BY <1>6, <2>1, <2>5, <3>4, <3>5, <3>7
    <2> QED BY <1>7, <2>1, <2>3, <2>4, <2>5, Zenon DEF Replace
  <1> QED BY <1>3, <1>4, <1>7 DEF Call, Cancel

(* Every other step is unseen until match() returns.                       *)
LEMMA StepMaps ==
  ASSUME MatcherInv, MatcherInv', LevelEntered, SweepInv, CallClean, CallSane, LedgerInv,
         PriorityInv, ProRataInv, [Next]_vars
  PROVE  [Engine!EngineNext]_<<SeenQueue, SeenOrder>>
PROOF
  <1>1. CASE UNCHANGED vars
    <2>1. UNCHANGED <<pc, before, incoming>> /\ Queue' = Queue
      BY <1>1, SameQueue DEF vars, localVars
    <2> QED BY <2>1 DEF SeenQueue, SeenOrder
  <1>2. CASE SweepStep
    <2>1. pc \in Sweep /\ pc' \in Sweep /\ UNCHANGED <<incoming, before>>
      BY <1>2, SweepTrades
    <2> QED BY <2>1 DEF SeenQueue, SeenOrder, Sweep
  <1>3. CASE BeginMatch
    BY <1>3, RefusedMatches, BeginUnseen
  <1>4. CASE FinishMatch
    <2>1. SweepOver
      BY <1>4 DEF SweepOver, FinishMatch
    <2> QED BY <1>4, <2>1, FinishMatches
  <1>5. CASE Return
    <2>1. pc = "returned" /\ pc' = "idle" /\ Queue' = Queue
      BY <1>5, SameQueue DEF Return
    <2> QED BY <2>1 DEF SeenQueue, SeenOrder
  <1> QED BY <1>1, <1>2, <1>3, <1>4, <1>5, CallMaps DEF Next, Step, SweepStep

(* match() is one step, whatever levels and orders it visits on the way:   *)
(* which orders trade, for how much, in which order the queues are left    *)
(* and what becomes of the remainder is calculated by MatchingEngine from  *)
(* the book before the call, the order and the mode.                       *)
THEOREM MatcherRefinesEngine == Spec => RefinesMatchingEngine
PROOF
  <1>1. Init => CallSane /\ Engine!EngineInit
    <2> SUFFICES ASSUME Init PROVE CallSane /\ Engine!EngineInit
      OBVIOUS
    <2>1. pc = "idle" /\ NoneMapped
      BY DEF Init, BookInit, NoneMapped
    <2>2. SeenQueue = Queue /\ SeenOrder = Null
      BY <2>1 DEF SeenQueue, SeenOrder
    <2>3. Queue = [side \in Side |-> [p \in Prices |-> <<>>]]
      BY <2>1, NothingMapped DEF NoneMapped
    <2> QED BY <2>1, <2>2, <2>3
            DEF CallSane, Sweep, Engine!EngineInit, Engine!Init, Engine!Side, Side
  <1>2. Init => LedgerInv /\ PriorityInv /\ ProRataInv
    BY DEF Init, LedgerInv, PriorityInv, ProRataInv, SharesInv, UntouchedInv, FairInv, Sweep
  <1>3. /\ MatcherInv /\ MatcherInv' /\ LevelEntered /\ SweepInv /\ CallClean /\ CallSane
        /\ LedgerInv /\ PriorityInv /\ ProRataInv /\ [Next]_vars
        => CallSane' /\ LedgerInv' /\ PriorityInv' /\ ProRataInv'
    BY CallSaneStep, LedgerStep, PriorityStep, ProRataStep
  <1>4. /\ MatcherInv /\ MatcherInv' /\ LevelEntered /\ SweepInv /\ CallClean /\ CallSane
        /\ LedgerInv /\ PriorityInv /\ ProRataInv /\ [Next]_vars
        => [Engine!EngineNext]_<<SeenQueue, SeenOrder>>
    BY StepMaps
  <1> QED BY <1>1, <1>2, <1>3, <1>4, MatcherInductive, PromisesKept, PTL
          DEF Spec, RefinesMatchingEngine, Engine!EngineSpec, Engine!engineVars
=============================================================================
