-------------------------- MODULE ProRataAllocation --------------------------
(***************************************************************************)
(* The arithmetic of Matcher::pro_rata_at_level() (include/hydra/          *)
(* matcher.hpp) with the widths it is written in: Word stands for 2^32,    *)
(* so uint32_t values are taken modulo Word and uint64_t values modulo     *)
(* Word * Word.  Matcher.tla has the same allocation on the real lists,    *)
(* without widths; here the quantities go up to the largest uint32_t.      *)
(***************************************************************************)
EXTENDS Integers, SequencesExt

CONSTANTS
  Word,       \* number of values of a uint32_t
  MaxOrders   \* bound on the orders resting at the level

(* order_count is a uint32_t as well.                                      *)
ASSUME WordAssumption ==
  /\ Word \in Nat /\ Word > 1
  /\ MaxOrders \in Nat /\ MaxOrders <= Word

VARIABLES
  level,      \* the level's orders, head first: quantity, and whether own
  remaining,  \* what the incoming order still wants
  shares      \* what each order is filled for; <<>> before the call

allocationVars == <<level, remaining, shares>>

RestingOrder == [qty : 1 .. Word - 1, own : BOOLEAN]

-----------------------------------------------------------------------------
U32(x) == x % Word

(* A seeded mistake: a uint32_t accumulator (it used to be one).           *)
Narrow(x) == x % Word

U64(x) == x % (Word * Word)

Least(m, n) == IF m < n THEN m ELSE n

EligibleTotal ==
  FoldLeft(LAMBDA sum, o : U64(sum + IF o.own THEN 0 ELSE o.qty), 0, level)

LevelFillQty == U32(Least(remaining, EligibleTotal))

FloorShare(o) == U32(U64(LevelFillQty * o.qty) \div EligibleTotal)

TotalFloor ==
  FoldLeft(LAMBDA sum, o : U32(sum + IF o.own THEN 0 ELSE FloorShare(o)), 0, level)

(* A seeded mistake: `>=' for `>' in the search for the largest.           *)
LastLargest ==
  CHOOSE i \in DOMAIN level :
    /\ ~level[i].own
    /\ \A j \in DOMAIN level :
         \/ level[j].own
         \/ level[j].qty < level[i].qty
         \/ level[j].qty = level[i].qty /\ j <= i

(* The first order of the greatest eligible quantity.                      *)
LargestIndex ==
  CHOOSE i \in DOMAIN level :
    /\ ~level[i].own
    /\ \A j \in DOMAIN level :
         \/ level[j].own
         \/ level[j].qty < level[i].qty
         \/ level[j].qty = level[i].qty /\ i <= j

Headroom(o) == U32(o.qty - FloorShare(o))

(* The apply pass: what is left of the residual, and the shares so far.    *)
ApplyPass ==
  LET residual == U32(LevelFillQty - TotalFloor)
      largest_extra == Least(residual, Headroom(level[LargestIndex]))
      largest_share == U32(FloorShare(level[LargestIndex]) + largest_extra)
      visit(acc, i) ==
        LET extra == Least(acc.residual, Headroom(level[i]))
        IN  IF i = LargestIndex
            THEN [acc EXCEPT !.shares = Append(@, largest_share)]
            ELSE IF level[i].own THEN [acc EXCEPT !.shares = Append(@, 0)]
            ELSE [residual |-> acc.residual - extra,
                  shares |-> Append(acc.shares, U32(FloorShare(level[i]) + extra))]
  IN  FoldLeftDomain(visit,
        [residual |-> U32(residual - largest_extra), shares |-> <<>>], level)

(* The call: a level without eligible quantity is left alone.              *)
Allocate ==
  /\ level # <<>>
  /\ shares = <<>>
  /\ shares' = IF EligibleTotal = 0 THEN [i \in DOMAIN level |-> 0]
               ELSE ApplyPass.shares
  /\ UNCHANGED <<level, remaining>>

(* The matcher calls this on levels that hold an order and only while it   *)
(* wants something; the next call is about some other level and quantity.  *)
AnyInput ==
  /\ level \in UNION {[1 .. n -> RestingOrder] : n \in 1 .. MaxOrders}
  /\ remaining \in 1 .. Word - 1

AllocationInit == AnyInput /\ shares = <<>>

NoAllocation == level = <<>> /\ remaining = 0 /\ shares = <<>>

-----------------------------------------------------------------------------
Sum(f(_), S) == FoldSet(LAMBDA i, acc : f(i) + acc, 0, S)

Theirs == {i \in DOMAIN level : ~level[i].own}
Offered == Sum(LAMBDA i : level[i].qty, Theirs)
Share(i) == shares[i]

(* As much is traded as is wanted and offered, nobody is filled for more   *)
(* than rests, and the client's own orders get nothing: no sum or product  *)
(* on the way wraps, whatever the quantities.                              *)
AllocationComplete ==
  shares # <<>> =>
    /\ Sum(Share, DOMAIN level) = Least(remaining, Offered)
    /\ \A i \in DOMAIN level :
         shares[i] <= IF level[i].own THEN 0 ELSE level[i].qty

(* Nobody gets less than the exact proportion rounded down, and, but for   *)
(* the first of the largest orders, nobody gets a unit of the rounding     *)
(* residual while that order or an older one could still take it.          *)
AllocationFair ==
  shares # <<>> =>
    LET exact(i) == Least(remaining, Offered) * level[i].qty  \* times Offered
        favoured(i) == shares[i] * Offered > exact(i)
        first_largest(i) ==
          \A j \in Theirs :
            \/ level[j].qty < level[i].qty
            \/ level[j].qty = level[i].qty /\ i <= j
    IN  \A i \in Theirs :
          /\ (shares[i] + 1) * Offered > exact(i)
          /\ favoured(i) /\ ~first_largest(i) =>
               \A j \in Theirs : first_largest(j) \/ j < i =>
                 shares[j] = level[j].qty
=============================================================================
