-------------------------- MODULE AlgorithmsProofs --------------------------
(***************************************************************************)
(* Proofs about the pure algorithms: the two readers of a frame, for any   *)
(* sets of lengths; the verdict of the ablation script and the percentiles *)
(* of the latencies, for any finite set of latencies and any counts; and   *)
(* the pro-rata allocation, for any width of a word and any level of no    *)
(* more orders than a word counts. And about the life of a dataset, for    *)
(* any configuration, size and buffer.                                     *)
(*                                                                         *)
(* The call of an algorithm is one step, so the invariants say what its    *)
(* result is (FrameInv, VerdictInv, StatsInv, AllocationInv); the work is  *)
(* in the lemmas before them. The folds of the model are read as totals    *)
(* over sets (Totals), or followed index by index (FoldExists, PassRuns).  *)
(* For the allocation: nothing wraps (EligibleTotalIs, FloorIs,            *)
(* TotalFloorIs, PassQuantities), the floor shares add up to no more than  *)
(* is traded, and the pass over the level hands the residual to the        *)
(* largest order and then by age until none is left (Handed).              *)
(*                                                                         *)
(* For the dataset: the generator's list of ids holds exactly the orders   *)
(* that rest as far as it knows (ListExact), the file is never longer than *)
(* what was to be written (FileInv), and an event's quantity and time in   *)
(* force tell its type (Telling).                                          *)
(***************************************************************************)
EXTENDS MCAlgorithms, Totals, SequenceTheorems

-----------------------------------------------------------------------------
(* Who takes a frame.                                                      *)

FrameInv ==
  /\ frame = NoFrame \/ frame \in Frame
  /\ \/ verdict = "none" /\ accepted = FALSE
     \/ frame # NoFrame /\ verdict = Classify(frame) /\ accepted = Parses(frame)

(* How many tags the classifier skips, by the tags that are there.         *)
LEMMA SkippedIs ==
  ASSUME NEW f \in Frame, Eth + Tag * f.tags <= f.len
  PROVE  /\ f.tags = 0 => Skipped(f) = 0
         /\ f.tags = 1 => Skipped(f) = 1
PROOF
  <1>1. f.tags \in 0 .. 2 /\ f.len \in Nat
    BY FrameAssumption DEF Frame
  <1>2. \A n \in 0 .. VlanMaxDepth : n = 0 \/ n = 1
    BY DEF VlanMaxDepth
  <1> DEFINE ok(n) == /\ n <= f.tags /\ (n > 0 => Eth + Tag * n <= f.len)
                      /\ n < VlanMaxDepth => n = f.tags \/ Eth + Tag * (n + 1) > f.len
  <1>3. CASE f.tags = 0
    <2>1. 0 \in 0 .. VlanMaxDepth /\ ok(0) /\ ~ok(1)
      BY <1>1, <1>3 DEF VlanMaxDepth
    <2> HIDE DEF ok
    <2>2. (CHOOSE n \in 0 .. VlanMaxDepth : ok(n)) = 0
      BY <1>2, <2>1
    <2> QED BY <1>3, <2>2 DEF Skipped, ok
  <1>4. CASE f.tags = 1
    <2>1. 1 \in 0 .. VlanMaxDepth /\ ok(1) /\ ~ok(0)
      BY <1>1, <1>4 DEF VlanMaxDepth, Eth, Tag
    <2> HIDE DEF ok
    <2>2. (CHOOSE n \in 0 .. VlanMaxDepth : ok(n)) = 1
      BY <1>2, <2>1
    <2> QED BY <1>4, <2>2 DEF Skipped, ok
  <1> QED BY <1>3, <1>4

(* What the parser has found out by the time it takes a frame.             *)
LEMMA ParsesIs ==
  ASSUME NEW f \in Frame, Parses(f)
  PROVE  /\ f.tags \in {0, 1} /\ Skipped(f) = f.tags
         /\ ParserIpAt(f) = Eth + Tag * f.tags
         /\ 4 * f.ihl >= Ip /\ WireAt(f) + Order <= f.len
         /\ f.tot_len >= 4 * f.ihl + Udp + Order /\ ParserIpAt(f) + f.tot_len <= f.len
         /\ f.udp_len >= Udp + Order
         /\ Fine(f, {"ethertype"}) /\ Fine(f, {"protocol", "fragment"}) /\ Fine(f, {"port"})
PROOF
  <1>1. /\ f.tags \in 0 .. 2 /\ f.len \in Nat /\ f.ihl \in Nat /\ f.tot_len \in Nat
        /\ f.udp_len \in Nat
    BY FrameAssumption DEF Frame
  <1>2. PICK c : c = Checks(f)
    OBVIOUS
  <1>3. DOMAIN c = 1 .. 6
    BY <1>2 DEF Checks
  <1>4. \A i \in 1 .. 6 : ~(f.len < c[i].upto) /\ c[i].holds
    BY <1>2, <1>3 DEF Parses, Short
  <1>5. c[2].holds /\ c[3].holds /\ c[4].holds /\ c[5].holds
    BY <1>4
  <1>6. /\ c[2].holds = (Fine(f, {"ethertype"}) /\ f.tags <= 1)
         /\ c[3].holds = (Fine(f, {"version"}) /\ 4 * f.ihl >= Ip)
         /\ c[4].holds = (Fine(f, {"protocol", "fragment"}) /\ IpCoversOrder(f))
         /\ c[5].holds = (Fine(f, {"port"}) /\ UdpCoversOrder(f))
    BY <1>2 DEF Checks
  <1>7. f.tags <= 1 /\ Fine(f, {"ethertype"})
    BY <1>5, <1>6, Zenon
  <1>8. 4 * f.ihl >= Ip
    BY <1>5, <1>6, Zenon
  <1>9. Fine(f, {"protocol", "fragment"}) /\ IpCoversOrder(f)
    BY <1>5, <1>6, Zenon
  <1>10. Fine(f, {"port"}) /\ UdpCoversOrder(f)
    BY <1>5, <1>6, Zenon
  <1>11. ~(f.len < WireAt(f) + Order)
    BY <1>2, <1>4 DEF Checks
  <1>12. f.tags \in {0, 1} /\ ParserIpAt(f) = Eth + Tag * f.tags
    BY <1>1, <1>7 DEF ParserIpAt, Eth, Tag
  <1>13. WireAt(f) + Order <= f.len /\ Eth + Tag * f.tags <= f.len
    BY <1>1, <1>11, <1>12 DEF WireAt, ParserUdpAt, Eth, Tag, Udp, Order
  <1>14. Skipped(f) = f.tags
    BY <1>12, <1>13, SkippedIs
  <1> QED BY <1>7, <1>8, <1>9, <1>10, <1>12, <1>13, <1>14 DEF IpCoversOrder, UdpCoversOrder

(* What the parser would accept the classifier redirects.                  *)
LEMMA FrameInvImplies == FrameInv => NoOrderPassedBy /\ OrderInsidePayload
PROOF
  <1> SUFFICES ASSUME FrameInv, accepted PROVE NoOrderPassedBy /\ OrderInsidePayload
    BY DEF NoOrderPassedBy, OrderInsidePayload
  <1>1. frame \in Frame /\ verdict = Classify(frame) /\ Parses(frame)
    BY DEF FrameInv
  <1>2. PICK f \in Frame : f = frame
    BY <1>1
  <1>3. /\ f.tags \in {0, 1} /\ f.len \in Nat /\ f.ihl \in Nat /\ f.tot_len \in Nat
        /\ f.udp_len \in Nat
    BY <1>1, <1>2, ParsesIs, FrameAssumption DEF Frame
  <1>4. /\ Skipped(f) = f.tags
        /\ ParserIpAt(f) = Eth + Tag * f.tags
        /\ 4 * f.ihl >= Ip /\ WireAt(f) + Order <= f.len
        /\ f.tot_len >= 4 * f.ihl + Udp + Order /\ ParserIpAt(f) + f.tot_len <= f.len
        /\ f.udp_len >= Udp + Order
        /\ Fine(f, {"ethertype"}) /\ Fine(f, {"protocol", "fragment"}) /\ Fine(f, {"port"})
    BY <1>1, <1>2, ParsesIs
  <1>5. WireAt(f) = Eth + Tag * f.tags + 4 * f.ihl + Udp
    BY <1>4 DEF WireAt, ParserUdpAt
  <1>6. IsIpv4(f)
    BY <1>3, <1>4, <1>5 DEF IsIpv4, Eth, Tag, Udp, Order
  <1>7. Fine(f, {"protocol"}) /\ Fine(f, {"fragment"})
    BY <1>4 DEF Fine
  <1>8. IsUdp(f) /\ IsOrderEntry(f)
    BY <1>3, <1>4, <1>5, <1>7
       DEF IsUdp, IsOrderEntry, IpAt, UdpAt, PayloadAt, Eth, Tag, Ip, Udp, Order
  <1>9. Classify(f) = "redirected"
    BY <1>6, <1>7, <1>8 DEF Classify
  <1>10. OrderInsidePayload
    BY <1>2, <1>3, <1>4, <1>5 DEF OrderInsidePayload, Eth, Tag, Ip, Udp, Order
  <1> QED BY <1>1, <1>2, <1>9, <1>10 DEF NoOrderPassedBy

(* Before the frame is handled the invariant holds,                        *)
LEMMA FrameInvStart == Init => FrameInv
PROOF
  BY DEF Init, AllocationInit, NoFrames, FrameInit, FrameInv

(* and handling it keeps the invariant.                                    *)
LEMMA FrameInvStep == FrameInv /\ [Next]_vars => FrameInv'
PROOF
  <1> SUFFICES ASSUME FrameInv, [Next]_vars PROVE FrameInv'
    OBVIOUS
  <1>1. CASE UNCHANGED frameVars
    BY <1>1 DEF FrameInv, frameVars, Classify, Parses
  <1>2. CASE HandleFrame
    BY <1>2 DEF FrameInv, HandleFrame
  <1> QED BY <1>1, <1>2 DEF Next, vars, Returned

(* For any lengths, whatever the parser would accept the classifier        *)
(* redirects.                                                              *)
THEOREM NoOrderEverPassedBy == Spec => []NoOrderPassedBy
PROOF
  BY FrameInvStart, FrameInvStep, FrameInvImplies, PTL DEF Spec

(* For any lengths, an order is read out of its own UDP datagram.          *)
THEOREM OrderAlwaysInsidePayload == Spec => []OrderInsidePayload
PROOF
  BY FrameInvStart, FrameInvStep, FrameInvImplies, PTL DEF Spec

-----------------------------------------------------------------------------
(* The ablation verdict.                                                   *)

VerdictInv ==
  /\ ablation = NoResult \/ ablation \in AblationInput
  /\ \/ verdicts = NoResult
     \/ /\ ablation # NoResult
        /\ verdicts = [given |-> Classified(ablation),
                       swapped |-> Classified(Swapped(ablation))]

(* Why a comparison is invalid has nothing to do with the sides' order.    *)
Invalid(in) ==
  \/ ~in.correctness_ok \/ ~in.same_environment
  \/ in.optimized.dropped \/ in.handicapped.dropped

(* The verdict on the differences d and e of the percentiles, over a noise *)
(* floor of n halves.                                                      *)
Judged(n, d, e) ==
  IF d < 0 /\ e < 0 THEN "REGRESSION"
  ELSE IF 2 * d > n /\ e > 0 THEN "PROVEN"
  ELSE IF d <= 0 /\ e <= 0 THEN "NOT PROVEN"
  ELSE "INCONCLUSIVE"

(* Over a lower noise floor, greater differences are judged no worse.      *)
LEMMA JudgedMonotone ==
  ASSUME NEW n \in Nat, NEW d \in Int, NEW e \in Int,
         NEW m \in Nat, NEW b \in Int, NEW c \in Int, m <= n, d <= b, e <= c
  PROVE  NoBetter(Judged(n, d, e), Judged(m, b, c))
PROOF
  <1>1. PICK v, w : v = Judged(n, d, e) /\ w = Judged(m, b, c)
    OBVIOUS
  <1>2. w \in {"REGRESSION", "PROVEN", "NOT PROVEN", "INCONCLUSIVE"}
    BY <1>1 DEF Judged
  <1>3. CASE d < 0 /\ e < 0
    <2>1. v = "REGRESSION"
      BY <1>1, <1>3 DEF Judged
    <2> QED BY <1>1, <1>2, <2>1 DEF NoBetter
  <1>4. CASE ~(d < 0 /\ e < 0) /\ 2 * d > n /\ e > 0
    <2>1. ~(b < 0 /\ c < 0) /\ 2 * b > m /\ c > 0
      BY <1>4
    <2>2. v = "PROVEN" /\ w = "PROVEN"
      BY <1>1, <1>4, <2>1 DEF Judged
    <2> QED BY <1>1, <2>2 DEF NoBetter
  <1>5. CASE ~(d < 0 /\ e < 0) /\ ~(2 * d > n /\ e > 0) /\ d <= 0 /\ e <= 0
    <2>1. ~(b < 0 /\ c < 0)
      BY <1>5
    <2>2. v = "NOT PROVEN" /\ w # "REGRESSION"
      BY <1>1, <1>5, <2>1 DEF Judged
    <2> QED BY <1>1, <1>2, <2>2 DEF NoBetter
  <1>6. CASE ~(d < 0 /\ e < 0) /\ ~(2 * d > n /\ e > 0) /\ ~(d <= 0 /\ e <= 0)
    <2>1. ~(b < 0 /\ c < 0) /\ ~(b <= 0 /\ c <= 0)
      BY <1>6
    <2>2. v = "INCONCLUSIVE" /\ w \in {"PROVEN", "INCONCLUSIVE"}
      BY <1>1, <1>6, <2>1 DEF Judged
    <2> QED BY <1>1, <2>2 DEF NoBetter
  <1> QED BY <1>3, <1>4, <1>5, <1>6

(* Differences proven one way are a regression the other way, over any     *)
(* other noise floor.                                                      *)
LEMMA JudgedSwapped ==
  ASSUME NEW n \in Nat, NEW d \in Int, NEW e \in Int,
         NEW m \in Nat, NEW b \in Int, NEW c \in Int, b = 0 - d, c = 0 - e,
         Judged(n, d, e) = "PROVEN"
  PROVE  Judged(m, b, c) = "REGRESSION"
PROOF
  <1>1. 2 * d > n /\ e > 0
    BY DEF Judged
  <1>2. b < 0 /\ c < 0
    BY <1>1
  <1> QED BY <1>2 DEF Judged

(* The larger of two numbers, and how it follows them.                     *)
LEMMA LargerOfTwo ==
  ASSUME NEW a \in Nat, NEW b \in Nat
  PROVE  Max({a, b}) = IF a >= b THEN a ELSE b
PROOF
  <1>1. PICK S : S = {a, b}
    OBVIOUS
  <1>2. \E x \in S : \A y \in S : x >= y
    BY <1>1
  <1>3. Max(S) \in S /\ \A y \in S : Max(S) >= y
    BY <1>2 DEF Max
  <1> QED BY <1>1, <1>3

(* A product of greater factors is no smaller.                             *)
LEMMA ProductGrows ==
  ASSUME NEW a \in Nat, NEW b \in Nat, NEW c \in Nat, NEW d \in Nat, a <= c, b <= d
  PROVE  a * b \in Nat /\ a * b <= c * d
PROOF
  <1>1. PICK x, y \in Nat : c = a + x /\ d = b + y
    BY c - a \in Nat, d - b \in Nat, c = a + (c - a), d = b + (d - b)
  <1>2. c * d = a * b + a * y + x * b + x * y
    BY <1>1
  <1>3. a * b \in Nat /\ a * y \in Nat /\ x * b \in Nat /\ x * y \in Nat
    BY <1>1
  <1> QED BY <1>2, <1>3

(* What a valid comparison is judged by.                                   *)
Delta(in) == Improvement(in.handicapped.p99, in.optimized.p99)
DeltaTail(in) == Improvement(in.handicapped.p99_9, in.optimized.p99_9)

(* The verdict is INVALID, or the judgement on the deltas.                 *)
LEMMA VerdictIs ==
  ASSUME NEW in \in AblationInput
  PROVE  /\ NoiseFloor(in) \in Nat /\ Delta(in) \in Int /\ DeltaTail(in) \in Int
         /\ Classified(in) = IF Invalid(in) THEN "INVALID"
                             ELSE Judged(NoiseFloor(in), Delta(in), DeltaTail(in))
PROOF
  <1>1. PICK o, h \in AblationSide : o = in.optimized /\ h = in.handicapped
    BY DEF AblationInput
  <1>2. {o.p99, h.p99, o.p99_9, h.p99_9, o.cv, h.cv} \subseteq Nat
    BY StatsAssumption DEF AblationSide
  <1>3. PICK m \in Nat : m = Max({o.cv, h.cv})
    BY <1>2, LargerOfTwo
  <1>4. m * o.p99 \in Nat
    BY <1>2, ProductGrows
  <1>5. NoiseFloor(in) \in Nat
    BY <1>1, <1>3, <1>4 DEF NoiseFloor
  <1>6. Delta(in) \in Int /\ DeltaTail(in) \in Int
    BY <1>1, <1>2 DEF Delta, DeltaTail, Improvement
  <1>7. PICK n, d, e : n = NoiseFloor(in) /\ d = Delta(in) /\ e = DeltaTail(in)
    OBVIOUS
  <1>8. /\ d = Improvement(in.handicapped.p99, in.optimized.p99)
        /\ e = Improvement(in.handicapped.p99_9, in.optimized.p99_9)
    BY <1>7 DEF Delta, DeltaTail
  <1>9. Classified(in) = IF Invalid(in) THEN "INVALID" ELSE Judged(n, d, e)
    BY <1>7, <1>8 DEF Classified, Invalid, ClearsNoiseFloor, Judged
  <1> QED BY <1>5, <1>6, <1>7, <1>9

(* A kinder input is one of the inputs, as valid, with deltas no smaller   *)
(* over a noise floor no higher.                                           *)
LEMMA KinderIs ==
  ASSUME NEW in \in AblationInput, NEW k \in Kinder(in)
  PROVE  /\ k \in AblationInput
         /\ Invalid(k) <=> Invalid(in)
         /\ NoiseFloor(k) <= NoiseFloor(in)
         /\ Delta(in) <= Delta(k) /\ DeltaTail(in) <= DeltaTail(k)
PROOF
  <1>1. PICK o, h \in AblationSide : o = in.optimized /\ h = in.handicapped
    BY DEF AblationInput
  <1>2. PICK ko, kh : ko = k.optimized /\ kh = k.handicapped
    OBVIOUS
  <1>3. /\ ko \in AblationSide /\ kh \in AblationSide
        /\ ko.dropped = o.dropped /\ kh.dropped = h.dropped
        /\ k.correctness_ok = in.correctness_ok /\ k.same_environment = in.same_environment
        /\ ko.p99 <= o.p99 /\ ko.p99_9 <= o.p99_9 /\ ko.cv <= o.cv
        /\ kh.p99 >= h.p99 /\ kh.p99_9 >= h.p99_9 /\ kh.cv <= h.cv
        /\ k \in AblationInput
    BY <1>1, <1>2 DEF Kinder, AblationSide, AblationInput
  <1>4. /\ {o.p99, h.p99, o.p99_9, h.p99_9, o.cv, h.cv} \subseteq Nat
        /\ {ko.p99, kh.p99, ko.p99_9, kh.p99_9, ko.cv, kh.cv} \subseteq Nat
    BY <1>3, StatsAssumption DEF AblationSide
  <1>5. Invalid(k) <=> Invalid(in)
    BY <1>1, <1>2, <1>3, Zenon DEF Invalid
  <1>6. /\ Delta(in) = h.p99 - o.p99 /\ DeltaTail(in) = h.p99_9 - o.p99_9
        /\ Delta(k) = kh.p99 - ko.p99 /\ DeltaTail(k) = kh.p99_9 - ko.p99_9
    BY <1>1, <1>2 DEF Delta, DeltaTail, Improvement
  <1>7. Delta(in) <= Delta(k) /\ DeltaTail(in) <= DeltaTail(k)
    BY <1>3, <1>4, <1>6
  <1>8. NoiseFloor(k) <= NoiseFloor(in)
    <2>1. PICK m, n \in Nat : m = Max({ko.cv, kh.cv}) /\ n = Max({o.cv, h.cv}) /\ m <= n
      BY <1>3, <1>4, LargerOfTwo
    <2>2. m * ko.p99 <= n * o.p99
      BY <1>3, <1>4, <2>1, ProductGrows
    <2> QED BY <1>1, <1>2, <2>1, <2>2 DEF NoiseFloor
  <1> QED BY <1>3, <1>5, <1>7, <1>8

(* The comparison with its sides swapped is one of the inputs, as valid,   *)
(* with the deltas negated.                                                *)
LEMMA SwappedIs ==
  ASSUME NEW in \in AblationInput
  PROVE  /\ Swapped(in) \in AblationInput
         /\ Invalid(Swapped(in)) <=> Invalid(in)
         /\ Delta(Swapped(in)) = 0 - Delta(in)
         /\ DeltaTail(Swapped(in)) = 0 - DeltaTail(in)
PROOF
  <1>1. PICK o, h \in AblationSide : o = in.optimized /\ h = in.handicapped
    BY DEF AblationInput
  <1>2. PICK sw \in AblationInput :
          /\ sw = Swapped(in) /\ sw.optimized = h /\ sw.handicapped = o
          /\ sw.correctness_ok = in.correctness_ok
          /\ sw.same_environment = in.same_environment
    <2>1. Swapped(in) \in AblationInput
      BY DEF Swapped, AblationInput
    <2>2. PICK sw : sw = Swapped(in)
      OBVIOUS
    <2>3. /\ sw.optimized = h /\ sw.handicapped = o
          /\ sw.correctness_ok = in.correctness_ok
          /\ sw.same_environment = in.same_environment
      BY <1>1, <2>2 DEF Swapped, AblationInput
    <2> QED BY <2>1, <2>2, <2>3
  <1>3. {o.p99, h.p99, o.p99_9, h.p99_9} \subseteq Nat
    BY StatsAssumption DEF AblationSide
  <1>4. Invalid(sw) <=> Invalid(in)
    BY <1>1, <1>2, Zenon DEF Invalid
  <1>5. /\ Delta(in) = h.p99 - o.p99 /\ DeltaTail(in) = h.p99_9 - o.p99_9
        /\ Delta(sw) = o.p99 - h.p99 /\ DeltaTail(sw) = o.p99_9 - h.p99_9
    BY <1>1, <1>2 DEF Delta, DeltaTail, Improvement
  <1>6. Delta(sw) = 0 - Delta(in) /\ DeltaTail(sw) = 0 - DeltaTail(in)
    BY <1>3, <1>5
  <1> QED BY <1>2, <1>4, <1>6

(* The two verdicts follow the measurements.                               *)
LEMMA VerdictInvImplies == VerdictInv => VerdictMonotone
PROOF
  <1> SUFFICES ASSUME VerdictInv, verdicts # NoResult PROVE VerdictMonotone
    BY DEF VerdictMonotone
  <1>1. PICK in \in AblationInput :
          /\ in = ablation
          /\ verdicts.given = Classified(in) /\ verdicts.swapped = Classified(Swapped(in))
    BY DEF VerdictInv
  <1>2. ASSUME NEW k \in Kinder(in) PROVE NoBetter(Classified(in), Classified(k))
    <2>1. CASE Invalid(in)
      <3>1. Classified(in) = "INVALID" /\ Classified(k) = "INVALID"
        BY <2>1, VerdictIs, KinderIs
      <3> QED BY <3>1 DEF NoBetter
    <2>2. CASE ~Invalid(in)
      <3>1. /\ Classified(in) = Judged(NoiseFloor(in), Delta(in), DeltaTail(in))
            /\ Classified(k) = Judged(NoiseFloor(k), Delta(k), DeltaTail(k))
        BY <2>2, VerdictIs, KinderIs
      <3>2. NoBetter(Judged(NoiseFloor(in), Delta(in), DeltaTail(in)),
                     Judged(NoiseFloor(k), Delta(k), DeltaTail(k)))
        BY VerdictIs, KinderIs, JudgedMonotone
      <3> QED BY <3>1, <3>2
    <2> QED BY <2>1, <2>2
  <1>3. ASSUME Classified(in) = "PROVEN" PROVE Classified(Swapped(in)) = "REGRESSION"
    <2>1. ~Invalid(in) /\ ~Invalid(Swapped(in)) /\ Swapped(in) \in AblationInput
      BY <1>3, VerdictIs, SwappedIs
    <2>2. Judged(NoiseFloor(in), Delta(in), DeltaTail(in)) = "PROVEN"
      BY <1>3, <2>1, VerdictIs
    <2>3. Judged(NoiseFloor(Swapped(in)), Delta(Swapped(in)), DeltaTail(Swapped(in)))
            = "REGRESSION"
      BY <2>1, <2>2, VerdictIs, SwappedIs, JudgedSwapped
    <2> QED BY <2>1, <2>3, VerdictIs
  <1> QED BY <1>1, <1>2, <1>3 DEF VerdictMonotone

(* The invariant holds before the ablation is judged,                      *)
LEMMA VerdictInvStart == Init => VerdictInv
PROOF
  BY DEF Init, NoStats, SamplesInit, AblationInit, VerdictInv

(* and judging it keeps the invariant.                                     *)
LEMMA VerdictInvStep == VerdictInv /\ [Next]_vars => VerdictInv'
PROOF
  <1> SUFFICES ASSUME VerdictInv, [Next]_vars PROVE VerdictInv'
    OBVIOUS
  <1>1. CASE UNCHANGED <<ablation, verdicts>>
    BY <1>1 DEF VerdictInv
  <1>2. CASE ClassifyAblation
    BY <1>2 DEF VerdictInv, ClassifyAblation
  <1> QED BY <1>1, <1>2 DEF Next, vars, Returned, statsVars, ComputePercentiles

(* For any latencies, the verdict never gets worse for the optimization    *)
(* where the measurements get better for it, and a proven improvement is a *)
(* regression when the two sides are swapped.                              *)
THEOREM VerdictAlwaysMonotone == Spec => []VerdictMonotone
PROOF
  BY VerdictInvStart, VerdictInvStep, VerdictInvImplies, PTL DEF Spec

-----------------------------------------------------------------------------
(* The percentiles.                                                        *)

(* The sums, as totals.                                                    *)
SumsSeen ==
  /\ Size = Total(occurs, Latencies)
  /\ \A v \in Latencies : Below(v) = Total(occurs, {u \in Latencies : u < v})

(* The counts of samples are totals.                                       *)
LEMMA SumsView == SumsSeen
PROOF
  <1>1. \A T \in SUBSET Latencies :
          MapThenSumSet(LAMBDA u : occurs[u], T) = Total(occurs, T)
    <2> TAKE T \in SUBSET Latencies
    <2>1. IsFiniteSet(T)
      BY StatsAssumption, FS_Subset
    <2> QED BY <2>1, SumIsTotal
  <1>2. Size = Total(occurs, Latencies)
    BY <1>1 DEF Size
  <1>3. ASSUME NEW v \in Latencies PROVE Below(v) = Total(occurs, {u \in Latencies : u < v})
    <2>1. PICK T : T = {u \in Latencies : u < v}
      OBVIOUS
    <2>2. T \in SUBSET Latencies
      BY <2>1
    <2> QED BY <1>1, <2>1, <2>2 DEF Below
  <1> QED BY <1>2, <1>3 DEF SumsSeen

(* The same after a step: the lemma for the primed state.                  *)
LEMMA SumsAfter == SumsSeen'
PROOF
  BY SumsView, PTL

(* How often the latencies up to, and including, one occur: a step         *)
(* function, from 0 to the number of samples.                              *)
LEMMA SamplesBelow ==
  ASSUME occurs \in [Latencies -> Counts]
  PROVE  /\ Size \in Nat
         /\ \A v \in Latencies :
              /\ Below(v) \in Nat /\ occurs[v] \in Nat /\ AtMost(v) \in Nat
              /\ AtMost(v) = Total(occurs, {u \in Latencies : u <= v})
              /\ Below(v) = Total(occurs, {u \in Latencies : u < v})
         /\ Size = Total(occurs, Latencies)
PROOF
  <1>1. PICK f : f = occurs
    OBVIOUS
  <1>2. /\ IsFiniteSet(Latencies) /\ Latencies \subseteq Nat
        /\ \A v \in Latencies : f[v] \in Nat /\ f[v] \in Int
    <2>1. \A v \in Latencies : f[v] \in Counts
      BY <1>1
    <2>2. \A n \in Counts : n \in Nat /\ n \in Int
      BY StatsAssumption
    <2> QED BY <2>1, <2>2, StatsAssumption
  <1>3. Size = Total(f, Latencies) /\ Size \in Nat
    <2>1. Size = Total(f, Latencies)
      BY <1>1, SumsView DEF SumsSeen
    <2>2. Total(f, Latencies) \in Nat
      BY <1>2, TotalNat
    <2> QED BY <2>1, <2>2
  <1>4. ASSUME NEW v \in Latencies
        PROVE  /\ Below(v) \in Nat /\ AtMost(v) = Total(f, {u \in Latencies : u <= v})
               /\ AtMost(v) \in Nat
               /\ Below(v) = Total(f, {u \in Latencies : u < v})
    <2>1. PICK T : T = {u \in Latencies : u < v}
      OBVIOUS
    <2>2. IsFiniteSet(T) /\ T \in SUBSET Latencies
      BY <1>2, <2>1, FS_Subset
    <2>3. Below(v) = Total(f, T)
      BY <1>1, <2>1, SumsView DEF SumsSeen
    <2>4. Total(f, T) \in Nat
      BY <1>2, <2>2, TotalNat
    <2>5. {u \in Latencies : u <= v} = T \cup {v} /\ v \in Latencies \ T
      <3>1. v \in Nat /\ ~(v < v) /\ v <= v
        BY <1>2
      <3>2. \A u \in Latencies : (u <= v) <=> (u < v \/ u = v)
        BY <1>2, <3>1
      <3> QED BY <2>1, <3>1, <3>2
    <2>6. Total(f, T \cup {v}) = f[v] + Total(f, T)
      <3>1. IsFiniteSet(Latencies) /\ \A u \in Latencies : f[u] \in Int
        BY <1>2
      <3> QED BY <2>2, <2>5, <3>1, TotalAdd
    <2>7. AtMost(v) = Below(v) + f[v] /\ f[v] \in Nat
      BY <1>1, <1>2 DEF AtMost
    <2> QED BY <2>1, <2>3, <2>4, <2>5, <2>6, <2>7
  <1> QED BY <1>1, <1>2, <1>3, <1>4

(* Each index below the number of samples falls into one of its steps.     *)
LEMMA StepExists ==
  ASSUME occurs \in [Latencies -> Counts], NEW k \in Nat, k < Size
  PROVE  \E v \in Latencies : Below(v) <= k /\ k < AtMost(v)
PROOF
  <1>1. IsFiniteSet(Latencies) /\ Latencies \subseteq Nat
    BY StatsAssumption
  <1>2. PICK T : T = {u \in Latencies : k < AtMost(u)}
    OBVIOUS
  <1>3. Latencies # {}
    BY TotalEmpty, SamplesBelow
  <1>4. Max(Latencies) \in T
    <2>1. PICK v \in Latencies : v = Max(Latencies) /\ \A u \in Latencies : v >= u
      <3>1. Latencies \in SUBSET Int
        BY <1>1
      <3> QED BY <1>1, <1>3, <3>1, GreatestOf
    <2>2. {u \in Latencies : u <= v} = Latencies
      BY <1>1, <2>1
    <2>3. AtMost(v) = Size
      BY <2>2, SamplesBelow
    <2> QED BY <1>2, <2>1, <2>3
  <1>5. PICK v \in T : \A u \in T : v <= u
    <2>1. T \in SUBSET Nat
      BY <1>1, <1>2
    <2> QED BY <1>4, <2>1, LeastOf
  <1>6. v \in Latencies /\ k < AtMost(v)
    BY <1>2
  <1>7. ASSUME ~(Below(v) <= k) PROVE FALSE
    <2>1. PICK B : B = {u \in Latencies : u < v}
      OBVIOUS
    <2>2. B # {} /\ IsFiniteSet(B) /\ B \in SUBSET Int
      <3>1. Below(v) = Total(occurs, B) /\ Below(v) \in Nat
        BY <1>6, <2>1, SamplesBelow
      <3>2. B # {}
        BY <1>7, <3>1, TotalEmpty
      <3>3. B \subseteq Latencies
        BY <2>1
      <3>4. B \in SUBSET Int
        BY <1>1, <3>3
      <3> QED BY <1>1, <3>2, <3>3, <3>4, FS_Subset
    <2>3. PICK u \in B : \A w \in B : u >= w
      BY <2>2, GreatestOf
    <2>4. u \in Latencies /\ {w \in Latencies : w <= u} = B
      <3>1. u \in Nat /\ v \in Nat /\ u < v /\ u \in Latencies
        BY <1>1, <1>6, <2>1, <2>3
      <3>2. \A w \in Latencies : w <= u <=> w < v
        BY <1>1, <2>1, <2>3, <3>1
      <3> QED BY <2>1, <3>1, <3>2
    <2>5. AtMost(u) = Below(v) /\ Below(v) \in Nat
      BY <1>6, <2>1, <2>4, SamplesBelow
    <2>6. u \in T /\ u < v
      BY <1>2, <1>7, <2>1, <2>4, <2>5
    <2> QED BY <1>1, <1>5, <1>6, <2>4, <2>6
  <1> QED BY <1>6, <1>7

(* What percentile() returns for a share of the samples.                   *)
LEMMA PercentileIs ==
  ASSUME occurs \in [Latencies -> Counts], Size > 0, NEW p \in Nat, p < 1000
  PROVE  LET v == Percentile(p)
         IN  /\ v \in Latencies /\ occurs[v] > 0 /\ v <= Highest
             /\ 1000 * Below(v) <= p * Size
             /\ p * Size < 1000 * AtMost(v)
PROOF
  <1>1. Size \in Nat
    BY SamplesBelow
  <1>2. PICK k \in Nat : k = Idx(p) /\ 1000 * k <= p * Size /\ p * Size < 1000 * k + 1000
    <2>1. PICK n \in Nat : n = p * Size
      BY <1>1
    <2>2. n \div 1000 \in Nat /\ 1000 * (n \div 1000) <= n /\ n < 1000 * (n \div 1000) + 1000
      BY <2>1
    <2> QED BY <2>1, <2>2 DEF Idx
  <1>3. k < Size
    <2>1. p * Size < 1000 * Size
      BY <1>1
    <2>2. PICK n \in Nat : n = p * Size
      BY <1>1
    <2> QED BY <1>1, <1>2, <2>1, <2>2
  <1>4. PICK v : v = Percentile(p)
    OBVIOUS
  <1>5. v \in Latencies /\ Below(v) <= k /\ k < AtMost(v)
    BY <1>2, <1>3, <1>4, StepExists DEF Percentile
  <1>6. PICK b, c \in Nat : b = Below(v) /\ c = occurs[v] /\ AtMost(v) = b + c
    BY <1>5, SamplesBelow DEF AtMost
  <1>7. c > 0 /\ 1000 * b <= 1000 * k /\ 1000 * k + 1000 <= 1000 * (b + c)
    BY <1>5, <1>6
  <1>8. 1000 * b <= p * Size /\ p * Size < 1000 * (b + c)
    <2>1. PICK n \in Nat : n = p * Size
      BY <1>1
    <2> QED BY <1>2, <1>6, <1>7, <2>1
  <1>9. v <= Highest
    <2>1. PICK S : S = {u \in Latencies : occurs[u] > 0}
      OBVIOUS
    <2>2. S \subseteq Latencies /\ S \in SUBSET Int /\ v \in S
      <3>1. S \subseteq Latencies /\ v \in S
        BY <1>5, <1>6, <1>7, <2>1
      <3> QED BY <3>1, StatsAssumption
    <2>3. IsFiniteSet(S)
      BY <2>2, StatsAssumption, FS_Subset
    <2>4. Max(S) \in S /\ \A u \in S : Max(S) >= u
      BY <2>2, <2>3, GreatestOf
    <2>5. Max(S) = Highest /\ Max(S) \in Int /\ v \in Int
      BY <2>1, <2>2, <2>4 DEF Highest
    <2> QED BY <2>2, <2>4, <2>5
  <1> QED BY <1>4, <1>5, <1>6, <1>7, <1>8, <1>9

StatsInv ==
  /\ occurs = NoResult \/ occurs \in [Latencies -> Counts]
  /\ \/ percentiles = NoResult
     \/ /\ occurs # NoResult
        /\ Size > 0 =>
             percentiles = [p50 |-> Percentile(500), p90 |-> Percentile(900),
                            p99 |-> Percentile(990), p999 |-> Percentile(999), max |-> Highest]

(* Each percentile is what it has to be.                                   *)
LEMMA StatsInvImplies == StatsInv => PercentilesExact
PROOF
  <1> SUFFICES ASSUME StatsInv, percentiles # NoResult, Size > 0 PROVE PercentilesExact
    BY DEF PercentilesExact
  <1>1. /\ occurs \in [Latencies -> Counts]
        /\ percentiles.max = Highest
        /\ percentiles.p50 = Percentile(500) /\ percentiles.p90 = Percentile(900)
        /\ percentiles.p99 = Percentile(990) /\ percentiles.p999 = Percentile(999)
    BY DEF StatsInv
  <1> DEFINE exact(v, p) ==
               /\ occurs[v] > 0 /\ v <= percentiles.max
               /\ 1000 * Below(v) <= p * Size
               /\ p * Size < 1000 * AtMost(v)
  <1>2. ASSUME NEW p \in Nat, p < 1000 PROVE exact(Percentile(p), p)
    BY <1>1, <1>2, PercentileIs
  <1>3. exact(Percentile(500), 500) /\ exact(Percentile(900), 900)
    <2>1. 500 \in Nat /\ 500 < 1000 /\ 900 \in Nat /\ 900 < 1000
      OBVIOUS
    <2> HIDE DEF exact
    <2> QED BY <1>2, <2>1
  <1>4. exact(Percentile(990), 990) /\ exact(Percentile(999), 999)
    <2>1. 990 \in Nat /\ 990 < 1000 /\ 999 \in Nat /\ 999 < 1000
      OBVIOUS
    <2> HIDE DEF exact
    <2> QED BY <1>2, <2>1
  <1> QED BY <1>1, <1>3, <1>4 DEF PercentilesExact

(* The invariant holds before the percentiles are computed,                *)
LEMMA StatsInvStart == Init => StatsInv
PROOF
  BY DEF Init, NoStats, SamplesInit, AblationInit, StatsInv

(* and computing them keeps the invariant.                                 *)
LEMMA StatsInvStep == StatsInv /\ [Next]_vars => StatsInv'
PROOF
  <1> SUFFICES ASSUME StatsInv, [Next]_vars PROVE StatsInv'
    OBVIOUS
  <1>1. occurs' = occurs =>
          /\ Size' = Size /\ Highest' = Highest
          /\ Percentile(500)' = Percentile(500) /\ Percentile(900)' = Percentile(900)
          /\ Percentile(990)' = Percentile(990) /\ Percentile(999)' = Percentile(999)
    <2> SUFFICES ASSUME occurs' = occurs
                 PROVE  /\ Size' = Size /\ Highest' = Highest
                        /\ Percentile(500)' = Percentile(500) /\ Percentile(900)' = Percentile(900)
                        /\ Percentile(990)' = Percentile(990) /\ Percentile(999)' = Percentile(999)
      OBVIOUS
    <2>1. Size' = Size /\ Highest' = Highest
      BY SumsView, SumsAfter DEF SumsSeen, Highest
    <2>2. \A v \in Latencies : Below(v)' = Below(v)
      BY SumsView, SumsAfter DEF SumsSeen
    <2>3. \A v \in Latencies : AtMost(v)' = AtMost(v)
      BY <2>2 DEF AtMost
    <2> QED BY <2>1, <2>2, <2>3 DEF Percentile, Idx
  <1>2. CASE UNCHANGED <<occurs, percentiles>>
    BY <1>1, <1>2 DEF StatsInv
  <1>3. CASE ComputePercentiles
    BY <1>1, <1>3 DEF StatsInv, ComputePercentiles
  <1> QED BY <1>2, <1>3 DEF Next, vars, Returned, statsVars, ClassifyAblation

(* For any latencies and counts, each percentile is the sample it has to   *)
(* be.                                                                     *)
THEOREM PercentilesAlwaysExact == Spec => []PercentilesExact
PROOF
  BY StatsInvStart, StatsInvStep, StatsInvImplies, PTL DEF Spec

-----------------------------------------------------------------------------
(* The arithmetic of the pro-rata allocation.                              *)

(* A value that fits its width is not changed by it.                       *)
LEMMA ModSame ==
  ASSUME NEW x \in Nat, NEW m \in Nat \ {0}
  PROVE  x % m \in Nat /\ (x < m => x % m = x)
PROOF
  OBVIOUS

(* The indices up to the next one, and its place among them.               *)
LEMMA UpTo ==
  ASSUME NEW k \in Nat
  PROVE  /\ 1 .. k + 1 # {} /\ Max(1 .. k + 1) = k + 1
         /\ (1 .. k + 1) \ {k + 1} = 1 .. k /\ 1 .. k + 1 = (1 .. k) \cup {k + 1}
PROOF
  <1>1. PICK S : S = 1 .. k + 1
    OBVIOUS
  <1>2. S \in SUBSET Int /\ IsFiniteSet(S) /\ S # {} /\ k + 1 \in S
    <2>1. \A m \in Nat : IsFiniteSet(1 .. m)
      BY FS_Interval
    <2> QED BY <1>1, <2>1
  <1>3. Max(S) \in S /\ \A x \in S : Max(S) >= x
    BY <1>2, GreatestOf
  <1>4. Max(S) = k + 1
    BY <1>1, <1>2, <1>3
  <1> QED BY <1>1, <1>2, <1>4

(* The greatest index of a set of them is one of them.                     *)
LEMMA MaxIn ==
  ASSUME NEW n \in Nat, NEW s \in SUBSET (1 .. n), s # {} PROVE Max(s) \in s
PROOF
  <1>1. PICK S : S = 1 .. n
    OBVIOUS
  <1>2. IsFiniteSet(S) /\ s \in SUBSET S /\ s \in SUBSET Int
    <2>1. \A m \in Nat : IsFiniteSet(1 .. m)
      BY FS_Interval
    <2> QED BY <1>1, <2>1
  <1>3. IsFiniteSet(s)
    BY <1>2, FS_Subset
  <1> QED BY <1>2, <1>3, GreatestOf

(* g folds step along the indices in S, the way FoldLeft does.             *)
FoldsAlong(g, S, base, step) ==
  \A s \in SUBSET S :
    g[s] = IF s = {} THEN base ELSE step[<<Max(s), g[s \ {Max(s)}]>>]

(* A fold along a sequence of n elements, as the community modules define  *)
(* it, exists, with all its values in V.                                   *)
LEMMA FoldExists ==
  ASSUME NEW n \in Nat, NEW S, S = 1 .. n,
         NEW V, NEW base \in V, NEW step \in [S \X V -> V]
  PROVE  \E g \in [SUBSET S -> V] : FoldsAlong(g, S, base, step)
PROOF
  <1> DEFINE fold(g, s) == IF s = {} THEN base ELSE step[<<Max(s), g[s \ {Max(s)}]>>]
             Good(g, k) == \A s \in SUBSET S : Cardinality(s) <= k => g[s] = fold(g, s)
             T == {k \in Nat : \E g \in [SUBSET S -> V] : Good(g, k)}
  <1>1. IsFiniteSet(S) /\ S \in SUBSET Int
    <2>1. \A m \in Nat : IsFiniteSet(1 .. m)
      BY FS_Interval
    <2> QED BY <2>1
  <1>2. \A s \in SUBSET S : s # {} => Max(s) \in s /\ Max(s) \in S
    <2> TAKE s \in SUBSET S
    <2>1. IsFiniteSet(s) /\ s \in SUBSET Int
      BY <1>1, FS_Subset
    <2> QED BY <2>1, GreatestOf
  <1>3. \A s \in SUBSET S :
          /\ Cardinality(s) \in Nat
          /\ Cardinality(s) <= Cardinality(S)
          /\ Cardinality(s) <= 0 => s = {}
          /\ s # {} => Cardinality(s \ {Max(s)}) = Cardinality(s) - 1
    <2> QED BY <1>1, <1>2, SubsetSizes
  <1>4. \A g \in [SUBSET S -> V], s \in SUBSET S : fold(g, s) \in V
    BY <1>2
  <1>5. 0 \in T
    <2> DEFINE z == [s \in SUBSET S |-> base]
    <2>1. z \in [SUBSET S -> V] /\ Good(z, 0)
      BY <1>3
    <2> QED BY <2>1
  <1>6. ASSUME NEW k \in Nat, k \in T PROVE k + 1 \in T
    <2>1. PICK g \in [SUBSET S -> V] : Good(g, k)
      BY <1>6
    <2> DEFINE h == [s \in SUBSET S |-> fold(g, s)]
    <2>2. h \in [SUBSET S -> V]
      BY <1>4
    <2>3. \A s \in SUBSET S : Cardinality(s) <= k => h[s] = g[s]
      BY <2>1
    <2>4. ASSUME NEW s \in SUBSET S, Cardinality(s) <= k + 1 PROVE h[s] = fold(h, s)
      <3>1. CASE s = {}
        BY <3>1
      <3>2. CASE s # {}
        <4>1. s \ {Max(s)} \in SUBSET S /\ Cardinality(s \ {Max(s)}) <= k
          <5>1. /\ Cardinality(s) \in Nat
                /\ Cardinality(s \ {Max(s)}) = Cardinality(s) - 1
            BY <1>3, <3>2
          <5>2. \A m, l \in Nat : m <= l + 1 => m - 1 <= l
            OBVIOUS
          <5> QED BY <2>4, <5>1, <5>2
        <4>2. h[s \ {Max(s)}] = g[s \ {Max(s)}]
          BY <2>3, <4>1
        <4> QED BY <3>2, <4>2
      <3> QED BY <3>1, <3>2
    <2>5. Good(h, k + 1)
      BY <2>4
    <2> HIDE DEF h, Good
    <2> QED BY <2>2, <2>5
  <1>7. Nat \subseteq T
    <2> HIDE DEF T
    <2> QED BY <1>5, <1>6, Induct
  <1>8. Cardinality(S) \in T
    BY <1>1, <1>7, FS_CardinalityType
  <1>9. PICK g \in [SUBSET S -> V] : Good(g, Cardinality(S))
    BY <1>8
  <1>10. \A s \in SUBSET S : g[s] = fold(g, s)
    BY <1>3, <1>9
  <1> QED BY <1>10 DEF FoldsAlong

-----------------------------------------------------------------------------
(* The level as the call finds it.                                         *)

(* What each order offers the incoming one, and its share rounded down.    *)
Eligible == [i \in DOMAIN level |-> IF level[i].own THEN 0 ELSE level[i].qty]
Floors == [i \in DOMAIN level |-> IF level[i].own THEN 0 ELSE FloorShare(level[i])]

(* A level is a sequence of at most MaxOrders orders, and so no more than  *)
(* a uint32_t counts.                                                      *)
LEMMA InputIs ==
  ASSUME AnyInput
  PROVE  /\ level \in Seq(RestingOrder) /\ Len(level) \in Nat \ {0} /\ Len(level) <= Word
         /\ DOMAIN level = 1 .. Len(level) /\ IsFiniteSet(DOMAIN level) /\ level # <<>>
         /\ remaining \in Nat \ {0} /\ remaining < Word
         /\ Word \in Nat /\ Word > 1
         /\ \A i \in DOMAIN level :
              /\ level[i].qty \in Nat \ {0} /\ level[i].qty < Word /\ level[i].own \in BOOLEAN
              /\ Eligible[i] \in Nat /\ Eligible[i] < Word /\ Eligible[i] <= level[i].qty
              /\ Eligible[i] = IF level[i].own THEN 0 ELSE level[i].qty
PROOF
  <1>1. PICK n \in 1 .. MaxOrders : level \in [1 .. n -> RestingOrder]
    BY DEF AnyInput
  <1>2. /\ Word \in Nat /\ Word > 1 /\ n \in Nat \ {0} /\ n <= Word
        /\ remaining \in Nat \ {0} /\ remaining < Word
    BY WordAssumption DEF AnyInput
  <1>3. level \in Seq(RestingOrder) /\ Len(level) = n /\ DOMAIN level = 1 .. n
    BY <1>1, <1>2
  <1>4. IsFiniteSet(DOMAIN level)
    <2>1. \A m \in Nat : IsFiniteSet(1 .. m)
      BY FS_Interval
    <2> QED BY <1>2, <1>3, <2>1
  <1>5. level # <<>>
    <2>1. 1 \in DOMAIN level
      BY <1>2, <1>3
    <2> QED BY <2>1
  <1>6. ASSUME NEW i \in DOMAIN level
        PROVE  /\ level[i].qty \in Nat \ {0} /\ level[i].qty < Word /\ level[i].own \in BOOLEAN
               /\ Eligible[i] \in Nat /\ Eligible[i] < Word /\ Eligible[i] <= level[i].qty
               /\ Eligible[i] = IF level[i].own THEN 0 ELSE level[i].qty
    <2>1. level[i] \in RestingOrder
      BY <1>1, <1>3
    <2>2. level[i].qty \in 1 .. Word - 1 /\ level[i].own \in BOOLEAN
      BY <2>1 DEF RestingOrder
    <2>3. level[i].qty \in Nat \ {0} /\ level[i].qty < Word
      BY <1>2, <2>2
    <2> QED BY <1>2, <2>2, <2>3 DEF Eligible
  <1> QED BY <1>2, <1>3, <1>4, <1>5, <1>6

(* The uint64_t accumulator adds up what is eligible without wrapping.     *)
LEMMA EligibleTotalIs ==
  ASSUME AnyInput
  PROVE  EligibleTotal \in Nat /\ EligibleTotal = Total(Eligible, DOMAIN level)
PROOF
  <1>1. PICK n \in Nat : n = Len(level) /\ n <= Word /\ DOMAIN level = 1 .. n
    BY InputIs
  <1>2. PICK D : D = 1 .. n /\ D = DOMAIN level
    BY <1>1
  <1> DEFINE runs(g) ==
               g = [s \in SUBSET DOMAIN level |->
                      IF s = {} THEN 0
                      ELSE U64(g[s \ {Max(s)}]
                               + IF level[Max(s)].own THEN 0 ELSE level[Max(s)].qty)]
  <1>3. EligibleTotal = (CHOOSE g : runs(g))[DOMAIN level]
    BY Zenon DEF EligibleTotal, FoldLeft, MapThenFoldSet
  <1>4. \A x \in Nat : /\ x % (Word * Word) \in Nat
                       /\ x < Word * Word => x % (Word * Word) = x
    <2>1. Word * Word \in Nat \ {0}
      BY InputIs
    <2> QED BY <2>1, ModSame
  <1>5. \E g : runs(g)
    <2> DEFINE step == [a \in D \X Nat |-> U64(a[2] + Eligible[a[1]])]
    <2>1. step \in [D \X Nat -> Nat]
      <3>1. ASSUME NEW a \in D \X Nat PROVE U64(a[2] + Eligible[a[1]]) \in Nat
        <4>1. a[2] \in Nat /\ Eligible[a[1]] \in Nat
          BY <1>1, <1>2, InputIs
        <4>2. a[2] + Eligible[a[1]] \in Nat
          BY <4>1
        <4> QED BY <1>4, <4>2 DEF U64
      <3> QED BY <3>1
    <2>2. PICK g \in [SUBSET D -> Nat] : FoldsAlong(g, D, 0, step)
      <3> HIDE DEF step
      <3>1. 0 \in Nat
        OBVIOUS
      <3> QED BY <1>1, <1>2, <2>1, <3>1, FoldExists
    <2>3. ASSUME NEW s \in SUBSET D, s # {}
          PROVE  g[s] = U64(g[s \ {Max(s)}]
                            + IF level[Max(s)].own THEN 0 ELSE level[Max(s)].qty)
      <3>1. Max(s) \in s
        BY <1>2, <2>3, MaxIn
      <3>2. Max(s) \in D /\ g[s \ {Max(s)}] \in Nat
        BY <3>1
      <3>3. g[s] = U64(g[s \ {Max(s)}] + Eligible[Max(s)])
        BY <2>2, <2>3, <3>2 DEF FoldsAlong
      <3>4. Eligible[Max(s)] = IF level[Max(s)].own THEN 0 ELSE level[Max(s)].qty
        BY <1>2, <3>2, InputIs
      <3> QED BY <3>3, <3>4
    <2>4. runs(g)
      BY <1>2, <2>2, <2>3 DEF FoldsAlong
    <2> QED BY <2>4
  <1>6. PICK g : runs(g) /\ EligibleTotal = g[D]
    <2> HIDE DEF runs
    <2> QED BY <1>1, <1>2, <1>3, <1>5
  <1>7. PICK f : f = Eligible /\ \A i \in D : f[i] \in Nat /\ f[i] < Word
    BY <1>1, <1>2, InputIs
  <1> DEFINE T == {k \in Nat : k <= n =>
                     /\ g[1 .. k] = Total(f, 1 .. k) /\ g[1 .. k] \in Nat
                     /\ g[1 .. k] <= k * (Word - 1)}
  <1>8. 0 \in T
    <2>1. 1 .. 0 = {} /\ 0 * (Word - 1) = 0
      BY InputIs
    <2>2. g[{}] = 0
      BY <1>6
    <2> QED BY <2>1, <2>2, TotalEmpty
  <1>9. ASSUME NEW k \in Nat, k \in T PROVE k + 1 \in T
    <2> SUFFICES ASSUME k + 1 <= n
                 PROVE  /\ g[1 .. k + 1] = Total(f, 1 .. k + 1) /\ g[1 .. k + 1] \in Nat
                        /\ g[1 .. k + 1] <= (k + 1) * (Word - 1)
      OBVIOUS
    <2>1. /\ g[1 .. k] = Total(f, 1 .. k) /\ g[1 .. k] \in Nat
          /\ g[1 .. k] <= k * (Word - 1)
      BY <1>9
    <2>2. k + 1 \in D /\ 1 .. k + 1 \in SUBSET D /\ 1 .. k \in SUBSET D /\ k + 1 \notin 1 .. k
      BY <1>1, <1>2
    <2>3. g[1 .. k + 1] = U64(g[1 .. k] + f[k + 1])
      <3>1. f[k + 1] = IF level[k + 1].own THEN 0 ELSE level[k + 1].qty
        BY <1>1, <1>2, <1>7, <2>2, InputIs
      <3>2. Max(1 .. k + 1) = k + 1 /\ (1 .. k + 1) \ {k + 1} = 1 .. k /\ 1 .. k + 1 # {}
        BY UpTo
      <3> QED BY <1>1, <1>2, <1>6, <2>2, <3>1, <3>2
    <2>4. Total(f, 1 .. k + 1) = f[k + 1] + Total(f, 1 .. k)
      <3>1. IsFiniteSet(D) /\ \A i \in D : f[i] \in Int
        BY <1>1, <1>2, <1>7, InputIs
      <3>2. 1 .. k + 1 = (1 .. k) \cup {k + 1} /\ k + 1 \in D \ (1 .. k)
        BY <2>2, UpTo
      <3>3. PICK U, x : U = 1 .. k /\ x = k + 1
        OBVIOUS
      <3>4. U \in SUBSET D /\ x \in D \ U
        BY <2>2, <3>2, <3>3
      <3>5. Total(f, U \cup {x}) = f[x] + Total(f, U)
        BY <3>1, <3>4, TotalAdd
      <3> QED BY <3>2, <3>3, <3>5
    <2>5. PICK a, b \in Nat : a = g[1 .. k] /\ b = f[k + 1] /\ b < Word
      BY <1>7, <2>1, <2>2
    <2>6. a + b <= (k + 1) * (Word - 1) /\ a + b < Word * Word
      <3>1. PICK w \in Nat : w = Word /\ w > 1 /\ k + 1 <= w
        BY <1>1, <1>2, InputIs
      <3>2. a <= k * (w - 1) /\ b <= w - 1
        BY <2>1, <2>5, <3>1
      <3>3. (k + 1) * (w - 1) = k * (w - 1) + (w - 1)
        BY <3>1
      <3>4. a + b <= (k + 1) * (w - 1)
        BY <3>1, <3>2, <3>3
      <3>5. (k + 1) * (w - 1) <= w * (w - 1)
        BY <3>1
      <3>6. w * (w - 1) < w * w
        BY <3>1
      <3> QED BY <3>1, <3>4, <3>5, <3>6
    <2>7. U64(a + b) = a + b
      BY <1>4, <2>6 DEF U64
    <2> QED BY <2>1, <2>3, <2>4, <2>5, <2>6, <2>7
  <1>10. n \in T
    <2> HIDE DEF T
    <2> QED BY <1>8, <1>9, Induct
  <1> QED BY <1>1, <1>2, <1>6, <1>7, <1>10

(* What the call trades: as much as is wanted and offered.                 *)
LEMMA FillIs ==
  ASSUME AnyInput, EligibleTotal # 0
  PROVE  /\ EligibleTotal \in Nat \ {0}
         /\ LevelFillQty = Least(remaining, EligibleTotal)
         /\ LevelFillQty \in Nat \ {0} /\ LevelFillQty < Word
         /\ LevelFillQty <= EligibleTotal /\ LevelFillQty <= remaining
PROOF
  <1>1. EligibleTotal \in Nat \ {0}
    BY EligibleTotalIs
  <1>2. remaining \in Nat \ {0} /\ remaining < Word /\ Word \in Nat \ {0}
    BY InputIs
  <1>3. PICK x : x = Least(remaining, EligibleTotal)
    OBVIOUS
  <1>4. x \in Nat \ {0} /\ x < Word /\ x <= EligibleTotal /\ x <= remaining
    BY <1>1, <1>2, <1>3 DEF Least
  <1>5. x % Word = x
    BY <1>2, <1>4, ModSame
  <1> QED BY <1>1, <1>3, <1>4, <1>5 DEF LevelFillQty, U32

(* The shares rounded down, and the room they leave: no product wraps, and *)
(* no share exceeds its order.                                             *)
LEMMA FloorIs ==
  ASSUME AnyInput, EligibleTotal # 0
  PROVE  \A i \in DOMAIN level :
           /\ Floors[i] = (LevelFillQty * Eligible[i]) \div EligibleTotal
           /\ Floors[i] \in Nat /\ Floors[i] <= Eligible[i]
           /\ ~level[i].own => /\ FloorShare(level[i]) = Floors[i]
                               /\ Headroom(level[i]) = Eligible[i] - Floors[i]
PROOF
  <1> TAKE i \in DOMAIN level
  <1>1. PICK f, t, e, w \in Nat :
          f = LevelFillQty /\ t = EligibleTotal /\ e = Eligible[i] /\ w = Word
    BY FillIs, InputIs
  <1>2. t \in Nat \ {0} /\ f <= t /\ f < w /\ e < w /\ w \in Nat \ {0}
    BY <1>1, FillIs, InputIs
  <1>3. PICK d : d = (f * e) \div t
    OBVIOUS
  <1>4. d \in Nat /\ d <= e
    BY <1>2, <1>3, FloorBounds
  <1>5. CASE level[i].own
    <2>1. e = 0
      BY <1>1, <1>5, InputIs
    <2>2. d = 0
      BY <1>4, <2>1
    <2>3. Floors[i] = 0
      BY <1>5 DEF Floors
    <2> QED BY <1>1, <1>3, <1>4, <1>5, <2>2, <2>3
  <1>6. CASE ~level[i].own
    <2>1. e = level[i].qty
      BY <1>1, <1>6, InputIs
    <2>2. f * e \in Nat /\ f * e < w * w /\ w * w \in Nat \ {0}
      <3>1. f * e <= f * w /\ f * w < w * w
        BY <1>2
      <3> QED BY <1>2, <3>1
    <2>3. (f * e) % (w * w) = f * e
      BY <2>2, ModSame
    <2>4. d % w = d
      BY <1>2, <1>4, ModSame
    <2>5. FloorShare(level[i]) = d
      BY <1>1, <1>3, <2>1, <2>3, <2>4 DEF FloorShare, U32, U64
    <2>6. e - d \in Nat /\ e - d < w
      BY <1>2, <1>4
    <2>7. (e - d) % w = e - d
      BY <1>2, <2>6, ModSame
    <2>8. Headroom(level[i]) = e - d
      BY <1>1, <2>1, <2>5, <2>7 DEF Headroom, U32
    <2>9. Floors[i] = d
      BY <1>6, <2>5 DEF Floors
    <2> QED BY <1>1, <1>3, <1>4, <2>5, <2>8, <2>9
  <1> QED BY <1>5, <1>6

(* The shares rounded down add up to no more than the call trades, and the *)
(* uint32_t accumulator to just that.                                      *)
LEMMA TotalFloorIs ==
  ASSUME AnyInput, EligibleTotal # 0
  PROVE  /\ TotalFloor = Total(Floors, DOMAIN level)
         /\ TotalFloor \in Nat /\ TotalFloor <= LevelFillQty
PROOF
  <1>1. PICK n \in Nat : n = Len(level) /\ n <= Word /\ DOMAIN level = 1 .. n
    BY InputIs
  <1>2. PICK D : D = 1 .. n /\ D = DOMAIN level
    BY <1>1
  <1> DEFINE runs(g) ==
               g = [s \in SUBSET DOMAIN level |->
                      IF s = {} THEN 0
                      ELSE U32(g[s \ {Max(s)}]
                               + IF level[Max(s)].own THEN 0 ELSE FloorShare(level[Max(s)]))]
  <1>3. TotalFloor = (CHOOSE g : runs(g))[DOMAIN level]
    BY Zenon DEF TotalFloor, FoldLeft, MapThenFoldSet
  <1>4. \A x \in Nat : x % Word \in Nat /\ (x < Word => x % Word = x)
    <2>1. Word \in Nat \ {0}
      BY InputIs
    <2> QED BY <2>1, ModSame
  <1>5. \A i \in D : /\ Floors[i] \in Nat
                     /\ Floors[i] = IF level[i].own THEN 0 ELSE FloorShare(level[i])
    BY <1>2, FloorIs DEF Floors
  <1>6. \E g : runs(g)
    <2> DEFINE step == [a \in D \X Nat |-> U32(a[2] + Floors[a[1]])]
    <2>1. step \in [D \X Nat -> Nat]
      <3>1. ASSUME NEW a \in D \X Nat PROVE U32(a[2] + Floors[a[1]]) \in Nat
        <4>1. a[2] \in Nat /\ Floors[a[1]] \in Nat
          BY <1>5
        <4>2. a[2] + Floors[a[1]] \in Nat
          BY <4>1
        <4> QED BY <1>4, <4>2 DEF U32
      <3> QED BY <3>1
    <2>2. PICK g \in [SUBSET D -> Nat] : FoldsAlong(g, D, 0, step)
      <3> HIDE DEF step
      <3>1. 0 \in Nat
        OBVIOUS
      <3> QED BY <1>1, <1>2, <2>1, <3>1, FoldExists
    <2>3. ASSUME NEW s \in SUBSET D, s # {}
          PROVE  g[s] = U32(g[s \ {Max(s)}]
                            + IF level[Max(s)].own THEN 0 ELSE FloorShare(level[Max(s)]))
      <3>1. Max(s) \in s
        BY <1>2, <2>3, MaxIn
      <3>2. Max(s) \in D /\ g[s \ {Max(s)}] \in Nat
        BY <3>1
      <3>3. g[s] = U32(g[s \ {Max(s)}] + Floors[Max(s)])
        BY <2>2, <2>3, <3>2 DEF FoldsAlong
      <3> QED BY <1>5, <3>2, <3>3
    <2>4. runs(g)
      BY <1>2, <2>2, <2>3 DEF FoldsAlong
    <2> QED BY <2>4
  <1>7. PICK g : runs(g) /\ TotalFloor = g[D]
    <2> HIDE DEF runs
    <2> QED BY <1>1, <1>2, <1>3, <1>6
  <1>8. PICK f : f = Floors /\ \A i \in D : f[i] \in Nat
    BY <1>5
  <1>9. IsFiniteSet(D) /\ \A i \in D : f[i] \in Int
    BY <1>2, <1>8, InputIs
  <1>10. Total(f, D) \in Nat /\ Total(f, D) <= LevelFillQty
    <2>1. PICK t, q \in Nat : t = EligibleTotal /\ q = LevelFillQty
      BY FillIs
    <2>2. t \in Nat \ {0} /\ t = Total(Eligible, D)
      BY <1>2, <2>1, FillIs, EligibleTotalIs
    <2>3. \A i \in D : Eligible[i] \in Nat /\ f[i] = (q * Eligible[i]) \div t
      BY <1>2, <1>8, <2>1, FloorIs, InputIs
    <2> QED BY <1>9, <2>1, <2>2, <2>3, FloorsFit
  <1> DEFINE T == {k \in Nat : k <= n => g[1 .. k] = Total(f, 1 .. k)}
  <1>11. 0 \in T
    <2>1. 1 .. 0 = {}
      OBVIOUS
    <2>2. g[{}] = 0
      BY <1>7
    <2> QED BY <2>1, <2>2, TotalEmpty
  <1>12. ASSUME NEW k \in Nat, k \in T PROVE k + 1 \in T
    <2> SUFFICES ASSUME k + 1 <= n PROVE g[1 .. k + 1] = Total(f, 1 .. k + 1)
      OBVIOUS
    <2>1. PICK U, W, x : U = 1 .. k /\ W = 1 .. k + 1 /\ x = k + 1
      OBVIOUS
    <2>2. Max(W) = x /\ W \ {x} = U /\ W # {} /\ W = U \cup {x}
      BY <2>1, UpTo
    <2>3. x \in D \ U /\ U \in SUBSET D /\ W \in SUBSET D
      BY <1>1, <1>2, <2>1
    <2>4. g[W] = U32(g[U] + f[x])
      <3>1. f[x] = IF level[x].own THEN 0 ELSE FloorShare(level[x])
        BY <1>5, <1>8, <2>3
      <3> QED BY <1>2, <1>7, <2>2, <2>3, <3>1
    <2>5. Total(f, W) = f[x] + Total(f, U)
      BY <1>9, <2>2, <2>3, TotalAdd
    <2>6. g[U] = Total(f, U)
      BY <1>12, <2>1
    <2>7. Total(f, U) \in Nat /\ Total(f, W) \in Nat /\ Total(f, W) <= Total(f, D)
      BY <1>8, <1>9, <2>3, TotalWithin
    <2>8. Total(f, W) < Word
      BY <1>10, <2>7, FillIs, InputIs
    <2>9. U32(Total(f, W)) = Total(f, W)
      BY <1>4, <2>7, <2>8 DEF U32
    <2>10. f[x] + Total(f, U) = Total(f, U) + f[x]
      BY <1>8, <2>3, <2>7
    <2> QED BY <2>1, <2>4, <2>5, <2>6, <2>9, <2>10
  <1>13. n \in T
    <2> HIDE DEF T
    <2> QED BY <1>11, <1>12, Induct
  <1> QED BY <1>1, <1>2, <1>7, <1>8, <1>10, <1>13

(* The largest order is there, and is the first of the greatest.           *)
LEMMA LargestIs ==
  ASSUME AnyInput, EligibleTotal # 0
  PROVE  /\ LargestIndex \in DOMAIN level /\ ~level[LargestIndex].own
         /\ \A j \in DOMAIN level :
              \/ level[j].own
              \/ level[j].qty < level[LargestIndex].qty
              \/ level[j].qty = level[LargestIndex].qty /\ LargestIndex <= j
PROOF
  <1>1. PICK D : D = DOMAIN level /\ IsFiniteSet(D) /\ D \subseteq Nat
    <2>1. \A m \in Nat : 1 .. m \subseteq Nat
      OBVIOUS
    <2> QED BY <2>1, InputIs
  <1>2. PICK f : f = Eligible /\ \A i \in D : f[i] \in Nat /\ f[i] \in Int
    BY <1>1, InputIs
  <1>3. D # {} /\ Total(f, D) # 0
    BY <1>1, <1>2, EligibleTotalIs, InputIs, TotalEmpty
  <1>4. PICK x \in D : f[x] > 0
    <2>1. \E x \in D : f[x] # 0
      BY <1>1, <1>3, TotalZero
    <2> QED BY <1>2, <2>1
  <1>5. PICK y \in D : \A z \in D : f[z] <= f[y]
    BY <1>1, <1>2, <1>3, GreatestExists
  <1>6. PICK i \in {z \in D : f[z] = f[y]} : \A j \in {z \in D : f[z] = f[y]} : i <= j
    <2> DEFINE T == {z \in D : f[z] = f[y]}
    <2>1. T \in SUBSET Nat /\ T # {}
      BY <1>1
    <2> HIDE DEF T
    <2>2. \E i \in T : \A j \in T : i <= j
      BY <2>1, LeastOf
    <2> QED BY <2>2 DEF T
  <1>7. i \in D /\ f[i] > 0 /\ f[i] = f[y] /\ \A z \in D : f[z] <= f[i]
    BY <1>2, <1>4, <1>5, <1>6
  <1>8. ~level[i].own /\ f[i] = level[i].qty
    BY <1>1, <1>2, <1>7, InputIs
  <1>9. ASSUME NEW j \in D, ~level[j].own
        PROVE  \/ level[j].qty < level[i].qty
               \/ level[j].qty = level[i].qty /\ i <= j
    <2>1. f[j] = level[j].qty /\ f[j] <= f[i] /\ f[j] \in Nat /\ f[i] \in Nat
      BY <1>1, <1>2, <1>7, <1>9, InputIs
    <2>2. f[j] = f[i] => i <= j
      BY <1>6, <1>7
    <2> QED BY <1>8, <2>1, <2>2
  <1>10. \E k \in DOMAIN level :
           /\ ~level[k].own
           /\ \A j \in DOMAIN level :
                \/ level[j].own
                \/ level[j].qty < level[k].qty
                \/ level[j].qty = level[k].qty /\ k <= j
    BY <1>1, <1>7, <1>8, <1>9
  <1> QED BY <1>10 DEF LargestIndex

(* The pass over the level that hands out the residual: what the largest   *)
(* order takes of it first, what that leaves for the others, and what a    *)
(* visit of an order makes of the residual and of the shares so far.       *)
LargestExtra ==
  Least(LevelFillQty - TotalFloor, Eligible[LargestIndex] - Floors[LargestIndex])

Spare == LevelFillQty - TotalFloor - LargestExtra

Gain(i, residual) ==
  IF i = LargestIndex THEN 0 ELSE Least(residual, Eligible[i] - Floors[i])

Visit(acc, i) ==
  [residual |-> acc.residual - Gain(i, acc.residual),
   shares |-> Append(acc.shares,
                Floors[i] + IF i = LargestIndex THEN LargestExtra ELSE Gain(i, acc.residual))]

Pass == [residual : Nat, shares : Seq(Nat)]

(* The pass in the integers: nothing in it wraps, and an own order is      *)
(* visited like one that offers nothing.                                   *)
LEMMA PassQuantities ==
  ASSUME AnyInput, EligibleTotal # 0
  PROVE  /\ U32(LevelFillQty - TotalFloor) = LevelFillQty - TotalFloor
         /\ Headroom(level[LargestIndex]) = Eligible[LargestIndex] - Floors[LargestIndex]
         /\ LargestExtra \in Nat /\ Spare \in Nat
         /\ LargestExtra <= Eligible[LargestIndex] - Floors[LargestIndex]
         /\ Spare > 0 => LargestExtra = Eligible[LargestIndex] - Floors[LargestIndex]
         /\ U32(LevelFillQty - TotalFloor - LargestExtra) = Spare
         /\ U32(FloorShare(level[LargestIndex]) + LargestExtra) =
              Floors[LargestIndex] + LargestExtra
PROOF
  <1>1. PICK q, c, w \in Nat : q = LevelFillQty /\ c = TotalFloor /\ w = Word
    BY FillIs, TotalFloorIs, InputIs
  <1>2. c <= q /\ q < w /\ w \in Nat \ {0}
    BY <1>1, FillIs, TotalFloorIs, InputIs
  <1>3. PICK L \in DOMAIN level : L = LargestIndex /\ ~level[L].own
    BY LargestIs
  <1>4. PICK e, f \in Nat : e = Eligible[L] /\ f = Floors[L]
    BY FloorIs, InputIs
  <1>5. /\ f <= e /\ e < w /\ FloorShare(level[L]) = f /\ Headroom(level[L]) = e - f
    BY <1>1, <1>3, <1>4, FloorIs, InputIs
  <1>6. \A x \in Nat : x < w => x % w = x
    BY <1>2, ModSame
  <1>7. PICK x : x = LargestExtra /\ x = Least(q - c, e - f)
    BY <1>1, <1>3, <1>4 DEF LargestExtra
  <1>8. /\ x \in Nat /\ x <= e - f /\ q - c - x \in Nat /\ q - c - x < w
        /\ q - c \in Nat /\ q - c < w /\ f + x \in Nat /\ f + x < w
        /\ q - c - x > 0 => x = e - f
    BY <1>2, <1>5, <1>7 DEF Least
  <1>9. (q - c) % w = q - c /\ (q - c - x) % w = q - c - x /\ (f + x) % w = f + x
    BY <1>6, <1>8
  <1>10. Spare = q - c - x
    BY <1>1, <1>7 DEF Spare
  <1> QED BY <1>1, <1>3, <1>4, <1>5, <1>7, <1>8, <1>9, <1>10 DEF U32

(* An update of the shares of a pass.                                      *)
LEMMA Reshared ==
  ASSUME NEW acc, NEW r, NEW s, acc = [residual |-> r, shares |-> s], NEW z
  PROVE  [acc EXCEPT !.shares = z] = [residual |-> r, shares |-> z]
PROOF
  <1> DEFINE a == [acc EXCEPT !.shares = z]
             b == [residual |-> r, shares |-> z]
  <1>1. DOMAIN a = DOMAIN b /\ \A x \in DOMAIN a : a[x] = b[x]
    OBVIOUS
  <1>2. a = [x \in DOMAIN a |-> a[x]] /\ b = [x \in DOMAIN b |-> b[x]]
    OBVIOUS
  <1> HIDE DEF a, b
  <1>3. a = b
    BY <1>1, <1>2
  <1> QED BY <1>3 DEF a, b

(* A visit of an order that takes what it can.                             *)
LEMMA VisitIs ==
  ASSUME AnyInput, EligibleTotal # 0, NEW i \in DOMAIN level, NEW acc \in Pass
  PROVE  /\ Gain(i, acc.residual) \in Nat /\ Gain(i, acc.residual) <= acc.residual
         /\ Floors[i] + Gain(i, acc.residual) <= Eligible[i]
         /\ Visit(acc, i) \in Pass
         /\ i # LargestIndex /\ level[i].own =>
              Visit(acc, i) = [acc EXCEPT !.shares = Append(@, 0)]
         /\ i # LargestIndex /\ ~level[i].own =>
              /\ Gain(i, acc.residual) = Least(acc.residual, Headroom(level[i]))
              /\ Visit(acc, i) =
                   [residual |-> acc.residual - Least(acc.residual, Headroom(level[i])),
                    shares |-> Append(acc.shares, U32(FloorShare(level[i])
                                                  + Least(acc.residual, Headroom(level[i]))))]
         /\ i = LargestIndex =>
              Visit(acc, i) = [acc EXCEPT !.shares = Append(@, Floors[i] + LargestExtra)]
PROOF
  <1>1. PICK r \in Nat : r = acc.residual
    BY DEF Pass
  <1>2. PICK s \in Seq(Nat) : s = acc.shares
    BY DEF Pass
  <1>3. acc = [residual |-> r, shares |-> s]
    BY <1>1, <1>2 DEF Pass
  <1>4. PICK e, f, w \in Nat : e = Eligible[i] /\ f = Floors[i] /\ w = Word
    BY FloorIs, InputIs
  <1>5. f <= e /\ e < w /\ w \in Nat \ {0}
    BY <1>4, FloorIs, InputIs
  <1>6. level[i].own => e = 0 /\ f = 0
    <2>1. level[i].own => e = 0
      BY <1>4, InputIs
    <2> QED BY <1>5, <2>1
  <1>7. ~level[i].own => FloorShare(level[i]) = f /\ Headroom(level[i]) = e - f
    BY <1>4, FloorIs
  <1>8. PICK x : x = Gain(i, r)
    OBVIOUS
  <1>9. x = IF i = LargestIndex THEN 0 ELSE Least(r, e - f)
    BY <1>4, <1>8 DEF Gain
  <1>10. x \in Nat /\ x <= r /\ f + x <= e /\ r - x \in Nat /\ f + x \in Nat /\ (e = 0 => x = 0)
    BY <1>5, <1>9 DEF Least
  <1>11. (f + x) % w = f + x
    <2>1. f + x < w
      BY <1>5, <1>10
    <2> QED BY <1>5, <1>10, <2>1, ModSame
  <1>12. LargestExtra \in Nat
    BY PassQuantities
  <1>13. Visit(acc, i) = [residual |-> r - x,
                          shares |-> Append(s, f + IF i = LargestIndex THEN LargestExtra ELSE x)]
    BY <1>1, <1>2, <1>4, <1>8 DEF Visit
  <1>14. PICK y \in Nat : y = f + IF i = LargestIndex THEN LargestExtra ELSE x
    BY <1>10, <1>12
  <1>15. Append(s, y) \in Seq(Nat)
    BY <1>14
  <1>16. Visit(acc, i) \in Pass
    BY <1>10, <1>13, <1>14, <1>15 DEF Pass
  <1>17. CASE i = LargestIndex
    <2>1. r - x = r /\ y = Floors[i] + LargestExtra
      BY <1>4, <1>9, <1>14, <1>17
    <2>2. Visit(acc, i) = [acc EXCEPT !.shares = Append(@, y)]
      BY <1>3, <1>13, <1>14, <2>1
    <2> QED BY <1>1, <1>4, <1>8, <1>10, <1>16, <1>17, <2>1, <2>2
  <1>18. CASE i # LargestIndex /\ level[i].own
    <2>1. r - x = r /\ y = 0
      BY <1>6, <1>10, <1>14, <1>18
    <2>2. Visit(acc, i) = [acc EXCEPT !.shares = Append(@, 0)]
      <3>1. Visit(acc, i) = [residual |-> r, shares |-> Append(acc.shares, 0)]
        BY <1>2, <1>13, <1>14, <2>1
      <3>2. PICK z : z = Append(acc.shares, 0)
        OBVIOUS
      <3>3. [acc EXCEPT !.shares = z] = [residual |-> r, shares |-> z]
        BY <1>3, Reshared
      <3> QED BY <3>1, <3>2, <3>3, Zenon
    <2> QED BY <1>1, <1>4, <1>8, <1>10, <1>16, <1>18, <2>2
  <1>19. CASE i # LargestIndex /\ ~level[i].own
    <2>1. x = Least(acc.residual, Headroom(level[i]))
      BY <1>1, <1>7, <1>9, <1>19
    <2>2. y = U32(FloorShare(level[i]) + x)
      BY <1>4, <1>7, <1>11, <1>14, <1>19 DEF U32
    <2>3. Visit(acc, i) = [residual |-> acc.residual - x,
                           shares |-> Append(acc.shares, U32(FloorShare(level[i]) + x))]
      BY <1>1, <1>2, <1>13, <1>14, <2>2
    <2> QED BY <1>1, <1>4, <1>8, <1>10, <1>16, <1>19, <2>1, <2>3
  <1> QED BY <1>17, <1>18, <1>19


(* The pass is the fold of those visits.                                   *)
LEMMA PassRuns ==
  ASSUME AnyInput, EligibleTotal # 0
  PROVE  \E g : /\ ApplyPass = g[DOMAIN level]
                /\ g[{}] = [residual |-> Spare, shares |-> <<>>]
                /\ \A k \in Nat :
                     k < Len(level) /\ g[1 .. k] \in Pass =>
                       g[1 .. k + 1] = Visit(g[1 .. k], k + 1)
PROOF
  <1> DEFINE ids == [i \in DOMAIN level |-> i]
             residual == U32(LevelFillQty - TotalFloor)
             largest_extra == Least(residual, Headroom(level[LargestIndex]))
             largest_share == U32(FloorShare(level[LargestIndex]) + largest_extra)
             base == [residual |-> U32(residual - largest_extra), shares |-> <<>>]
             visit(acc, i) ==
               LET extra == Least(acc.residual, Headroom(level[i]))
               IN  IF i = LargestIndex
                   THEN [acc EXCEPT !.shares = Append(@, largest_share)]
                   ELSE IF level[i].own THEN [acc EXCEPT !.shares = Append(@, 0)]
                   ELSE [residual |-> acc.residual - extra,
                         shares |-> Append(acc.shares, U32(FloorShare(level[i]) + extra))]
             runs(g) == g = [s \in SUBSET DOMAIN ids |->
                               IF s = {} THEN base ELSE visit(g[s \ {Max(s)}], ids[Max(s)])]
  <1>1. ApplyPass = (CHOOSE g : runs(g))[DOMAIN ids]
    BY Zenon DEF ApplyPass, FoldLeftDomain, FoldLeft, MapThenFoldSet
  <1>2. PICK n \in Nat : n = Len(level) /\ DOMAIN level = 1 .. n
    BY InputIs
  <1>3. PICK D : D = 1 .. n /\ D = DOMAIN level
    BY <1>2
  <1>4. DOMAIN ids = D /\ \A i \in D : ids[i] = i
    BY <1>3
  <1>5. residual = LevelFillQty - TotalFloor
    BY PassQuantities
  <1>6. largest_extra = LargestExtra
    BY <1>5, PassQuantities DEF LargestExtra
  <1>7. base = [residual |-> Spare, shares |-> <<>>]
    <2>1. U32(residual - largest_extra) = Spare
      BY <1>5, <1>6, PassQuantities
    <2> HIDE DEF residual, largest_extra
    <2> QED BY <2>1
  <1>8. largest_share = Floors[LargestIndex] + LargestExtra
    BY <1>6, PassQuantities
  <1> HIDE DEF residual, largest_extra, largest_share, base, ids
  <1>9. ASSUME NEW i \in D, NEW acc \in Pass PROVE visit(acc, i) = Visit(acc, i)
    <2>1. i \in DOMAIN level
      BY <1>3
    <2>2. CASE i = LargestIndex
      BY <1>8, <2>1, <2>2, VisitIs
    <2>3. CASE i # LargestIndex /\ level[i].own
      BY <2>1, <2>3, VisitIs
    <2>4. CASE i # LargestIndex /\ ~level[i].own
      BY <2>1, <2>4, VisitIs
    <2> QED BY <2>2, <2>3, <2>4
  <1>10. base \in Pass
    <2>1. Spare \in Nat /\ <<>> \in Seq(Nat)
      BY PassQuantities
    <2> QED BY <1>7, <2>1 DEF Pass
  <1> HIDE DEF visit
  <1>11. \E g : runs(g)
    <2> DEFINE step == [a \in D \X Pass |-> Visit(a[2], a[1])]
    <2>1. step \in [D \X Pass -> Pass]
      <3>1. ASSUME NEW a \in D \X Pass PROVE Visit(a[2], a[1]) \in Pass
        <4>1. a[1] \in DOMAIN level /\ a[2] \in Pass
          BY <1>3
        <4> QED BY <4>1, VisitIs
      <3> QED BY <3>1
    <2>2. PICK g \in [SUBSET D -> Pass] : FoldsAlong(g, D, base, step)
      <3> HIDE DEF step
      <3> QED BY <1>2, <1>3, <1>10, <2>1, FoldExists
    <2>3. ASSUME NEW s \in SUBSET D, s # {}
          PROVE  g[s] = visit(g[s \ {Max(s)}], ids[Max(s)])
      <3>1. Max(s) \in s
        BY <1>2, <1>3, <2>3, MaxIn
      <3>2. Max(s) \in D /\ g[s \ {Max(s)}] \in Pass
        BY <2>2, <3>1
      <3>3. PICK i, acc : i = Max(s) /\ acc = g[s \ {Max(s)}]
        OBVIOUS
      <3>4. g[s] = step[<<i, acc>>]
        BY <2>2, <2>3, <3>3 DEF FoldsAlong
      <3>5. <<i, acc>> \in D \X Pass /\ step[<<i, acc>>] = Visit(acc, i)
        BY <3>2, <3>3
      <3>6. visit(acc, ids[i]) = Visit(acc, i)
        BY <1>4, <1>9, <3>2, <3>3
      <3> QED BY <3>3, <3>4, <3>5, <3>6
    <2>4. g = [s \in SUBSET D |-> g[s]] /\ g[{}] = base
      BY <2>2 DEF FoldsAlong
    <2> HIDE DEF step
    <2>5. runs(g)
      BY <1>4, <2>3, <2>4
    <2> QED BY <2>5
  <1>12. PICK g : runs(g) /\ ApplyPass = g[D]
    <2> HIDE DEF runs
    <2> QED BY <1>1, <1>4, <1>11
  <1>13. g[{}] = base
    BY <1>12
  <1>14. ASSUME NEW k \in Nat, k < Len(level), g[1 .. k] \in Pass
         PROVE  g[1 .. k + 1] = Visit(g[1 .. k], k + 1)
    <2>1. PICK U, W, x : U = 1 .. k /\ W = 1 .. k + 1 /\ x = k + 1
      OBVIOUS
    <2>2. Max(W) = x /\ W \ {x} = U /\ W # {}
      BY <2>1, UpTo
    <2>3. x \in D /\ W \in SUBSET D
      BY <1>2, <1>3, <1>14, <2>1
    <2>4. g[W] = visit(g[U], x)
      BY <1>4, <1>12, <2>2, <2>3
    <2>5. visit(g[U], x) = Visit(g[U], x)
      BY <1>9, <1>14, <2>1, <2>3
    <2> QED BY <2>1, <2>4, <2>5
  <1> QED BY <1>3, <1>7, <1>12, <1>13, <1>14

(* What the pass has done after k orders, with r of the residual left: the *)
(* largest order has its extra, another order has more than its floor only *)
(* when all before it are full, and the residual accounts for the sum.     *)
Handed(r, s, k) ==
  /\ Len(s) = k /\ r <= Spare
  /\ \A i \in 1 .. k :
       /\ Floors[i] <= s[i] /\ s[i] <= Eligible[i]
       /\ i = LargestIndex => s[i] = Floors[i] + LargestExtra
       /\ i # LargestIndex /\ r > 0 => s[i] = Eligible[i]
       /\ i # LargestIndex /\ s[i] > Floors[i] =>
            /\ Spare > 0
            /\ \A j \in 1 .. k : j < i /\ j # LargestIndex => s[j] = Eligible[j]
  /\ Total(s, 1 .. k) + r =
       Spare + Total(Floors, 1 .. k) + IF LargestIndex <= k THEN LargestExtra ELSE 0

(* One more visit.                                                         *)
LEMMA HandedStep ==
  ASSUME AnyInput, EligibleTotal # 0,
         NEW k \in Nat, k + 1 <= Len(level),
         NEW r \in Nat, NEW s \in Seq(Nat), Handed(r, s, k)
  PROVE  LET d == Gain(k + 1, r)
             y == Floors[k + 1] + IF k + 1 = LargestIndex THEN LargestExtra ELSE d
         IN  /\ d \in Nat /\ r - d \in Nat /\ y \in Nat
             /\ Handed(r - d, Append(s, y), k + 1)
PROOF
  <1>1. PICK D : D = DOMAIN level /\ D = 1 .. Len(level) /\ Len(level) \in Nat /\ IsFiniteSet(D)
    BY InputIs
  <1>2. PICK i : i = k + 1
    OBVIOUS
  <1>3. i \in D /\ 1 .. k \subseteq D /\ i \in Nat /\ i \notin 1 .. k
    BY <1>1, <1>2
  <1>4. PICK f, e : /\ f = Floors /\ e = Eligible
                    /\ \A j \in D : f[j] \in Nat /\ e[j] \in Nat /\ f[j] <= e[j]
    BY <1>1, FloorIs, InputIs
  <1>5. PICK L, x, R \in Nat : L = LargestIndex /\ x = LargestExtra /\ R = Spare
    <2>1. \A m \in Nat : 1 .. m \subseteq Nat
      OBVIOUS
    <2>2. LargestIndex \in Nat
      BY <1>1, <2>1, LargestIs
    <2> QED BY <2>2, PassQuantities
  <1>6. L \in D /\ f[L] + x <= e[L]
    <2>1. L \in D /\ x <= e[L] - f[L]
      BY <1>1, <1>4, <1>5, LargestIs, PassQuantities
    <2> QED BY <1>4, <1>5, <2>1
  <1>7. PICK d : d = Gain(i, r)
    OBVIOUS
  <1>8. d = IF i = L THEN 0 ELSE Least(r, e[i] - f[i])
    BY <1>4, <1>5, <1>7 DEF Gain
  <1>9. /\ d \in Nat /\ d <= r /\ r - d \in Nat /\ f[i] + d <= e[i]
        /\ i = L => d = 0
        /\ i # L /\ r - d > 0 => f[i] + d = e[i]
        /\ d > 0 => r > 0
    BY <1>3, <1>4, <1>8 DEF Least
  <1>10. PICK y \in Nat : y = f[i] + IF i = L THEN x ELSE d
    BY <1>3, <1>4, <1>5, <1>9
  <1>11. /\ Len(s) = k /\ r <= R
         /\ \A j \in 1 .. k :
              /\ f[j] <= s[j] /\ s[j] <= e[j]
              /\ j = L => s[j] = f[j] + x
              /\ j # L /\ r > 0 => s[j] = e[j]
              /\ j # L /\ s[j] > f[j] =>
                   /\ R > 0
                   /\ \A h \in 1 .. k : h < j /\ h # L => s[h] = e[h]
         /\ Total(s, 1 .. k) + r = R + Total(f, 1 .. k) + IF L <= k THEN x ELSE 0
    BY <1>4, <1>5 DEF Handed
  <1>12. PICK z : z = Append(s, y)
    OBVIOUS
  <1>13. Len(z) = k + 1 /\ z[i] = y /\ \A j \in 1 .. k : z[j] = s[j] /\ s[j] \in Nat
    BY <1>2, <1>10, <1>11, <1>12
  <1>14. 1 .. k + 1 = (1 .. k) \cup {i}
    BY <1>2, UpTo
  <1>15. ASSUME NEW j \in 1 .. k + 1
         PROVE  /\ f[j] <= z[j] /\ z[j] <= e[j]
                /\ j = L => z[j] = f[j] + x
                /\ j # L /\ r - d > 0 => z[j] = e[j]
                /\ j # L /\ z[j] > f[j] =>
                     /\ R > 0
                     /\ \A h \in 1 .. k + 1 : h < j /\ h # L => z[h] = e[h]
    <2>1. CASE j = i
      <3>1. z[j] = y /\ f[j] \in Nat /\ e[j] \in Nat /\ f[j] <= e[j]
        BY <1>3, <1>4, <1>13, <2>1
      <3>2. f[j] <= z[j] /\ z[j] <= e[j] /\ (j = L => z[j] = f[j] + x)
        BY <1>5, <1>6, <1>9, <1>10, <2>1, <3>1
      <3>3. j # L /\ r - d > 0 => z[j] = e[j]
        BY <1>9, <1>10, <2>1, <3>1
      <3>4. ASSUME j # L, z[j] > f[j]
            PROVE  R > 0 /\ \A h \in 1 .. k + 1 : h < j /\ h # L => z[h] = e[h]
        <4>1. d > 0 /\ r > 0 /\ R > 0
          BY <1>5, <1>9, <1>10, <1>11, <2>1, <3>1, <3>4
        <4>2. \A h \in 1 .. k + 1 : h < j => h \in 1 .. k
          BY <1>2, <2>1
        <4>3. \A h \in 1 .. k : h # L => z[h] = e[h]
          BY <1>11, <1>13, <4>1
        <4> QED BY <4>1, <4>2, <4>3
      <3> QED BY <3>2, <3>3, <3>4
    <2>2. CASE j # i
      <3>1. j \in 1 .. k /\ j \in D /\ z[j] = s[j] /\ s[j] \in Nat /\ j < i
        BY <1>2, <1>3, <1>13, <1>14, <2>2
      <3>2. f[j] <= z[j] /\ z[j] <= e[j] /\ (j = L => z[j] = f[j] + x)
        BY <1>11, <3>1
      <3>3. j # L /\ r - d > 0 => z[j] = e[j]
        BY <1>9, <1>11, <3>1
      <3>4. ASSUME j # L, z[j] > f[j]
            PROVE  R > 0 /\ \A h \in 1 .. k + 1 : h < j /\ h # L => z[h] = e[h]
        <4>1. R > 0 /\ \A h \in 1 .. k : h < j /\ h # L => s[h] = e[h]
          BY <1>11, <3>1, <3>4
        <4>2. \A h \in 1 .. k + 1 : h < j => h \in 1 .. k
          BY <1>2, <3>1
        <4> QED BY <1>13, <4>1, <4>2
      <3> QED BY <3>2, <3>3, <3>4
    <2> QED BY <2>1, <2>2
  <1>16. PICK U, W : U = 1 .. k /\ W = 1 .. k + 1 /\ W = U \cup {i}
    BY <1>14
  <1>17. /\ U \in SUBSET D /\ W \in SUBSET D /\ IsFiniteSet(U) /\ IsFiniteSet(W)
         /\ i \in W \ U /\ U \in SUBSET W
    <2>1. U \in SUBSET D /\ W \in SUBSET D /\ i \in W \ U /\ U \in SUBSET W
      BY <1>3, <1>16
    <2> QED BY <1>1, <2>1, FS_Subset
  <1>18. Total(z, W) = y + Total(s, U) /\ Total(s, U) \in Int
    <2>1. \A j \in W : z[j] \in Int
      BY <1>10, <1>13, <1>16
    <2>2. Total(z, U \cup {i}) = z[i] + Total(z, U) /\ Total(z, U) \in Int
      BY <1>17, <2>1, TotalAdd
    <2>3. Total(z, U) = Total(s, U)
      BY <1>13, <1>16, <1>17, TotalSame
    <2> QED BY <1>13, <1>16, <2>2, <2>3
  <1>19. Total(f, W) = f[i] + Total(f, U) /\ Total(f, U) \in Int
    <2>1. \A j \in W : f[j] \in Int
      BY <1>4, <1>17
    <2>2. Total(f, U \cup {i}) = f[i] + Total(f, U) /\ Total(f, U) \in Int
      BY <1>17, <2>1, TotalAdd
    <2> QED BY <1>16, <2>2
  <1>20. Total(z, W) + (r - d) = R + Total(f, W) + IF L <= k + 1 THEN x ELSE 0
    <2>1. PICK a, b \in Int : a = Total(s, U) /\ b = Total(f, U)
      BY <1>18, <1>19
    <2>2. PICK c \in Nat : c = f[i]
      BY <1>3, <1>4
    <2>3. a + r = R + b + IF L <= k THEN x ELSE 0
      BY <1>11, <1>16, <2>1
    <2>4. /\ a \in Int /\ b \in Int /\ c \in Int /\ x \in Int /\ R \in Int /\ d \in Int
          /\ L \in Int
      BY <1>5, <1>9, <2>1, <2>2
    <2>5. CASE i = L
      <3>1. y = c + x /\ d = 0 /\ ~(L <= k) /\ L <= k + 1
        BY <1>2, <1>5, <1>9, <1>10, <2>2, <2>5
      <3>2. (y + a) + (r - d) = R + (c + b) + x
        <4>1. a + r = R + b
          BY <2>3, <2>4, <3>1
        <4> QED BY <2>4, <3>1, <4>1
      <3> QED BY <1>18, <1>19, <2>1, <2>2, <3>1, <3>2
    <2>6. CASE i # L
      <3>1. y = c + d /\ (L <= k <=> L <= k + 1)
        BY <1>2, <1>5, <1>10, <2>2, <2>6
      <3>2. (y + a) + (r - d) = R + (c + b) + IF L <= k + 1 THEN x ELSE 0
        <4>1. PICK h \in Int : h = IF L <= k THEN x ELSE 0
          BY <2>4
        <4>2. h = IF L <= k + 1 THEN x ELSE 0
          BY <3>1, <4>1
        <4>3. a + r = R + b + h
          BY <2>3, <4>1
        <4>4. (y + a) + (r - d) = R + (c + b) + h
          BY <2>4, <3>1, <4>1, <4>3
        <4> QED BY <4>2, <4>4
      <3> QED BY <1>18, <1>19, <2>1, <2>2, <3>2
    <2> QED BY <2>5, <2>6
  <1>21. r - d <= R
    BY <1>5, <1>9, <1>11
  <1>22. Handed(r - d, z, k + 1)
    BY <1>4, <1>5, <1>13, <1>15, <1>16, <1>20, <1>21 DEF Handed
  <1>23. /\ d = Gain(k + 1, r)
         /\ y = Floors[k + 1] + IF k + 1 = LargestIndex THEN LargestExtra ELSE d
    BY <1>2, <1>4, <1>5, <1>7, <1>10
  <1> QED BY <1>9, <1>12, <1>22, <1>23

(* What each order is filled for, once the pass is over.                   *)
LEMMA PassFits ==
  ASSUME AnyInput, EligibleTotal # 0
  PROVE  \E s \in Seq(Nat) :
           /\ ApplyPass.shares = s /\ Len(s) = Len(level)
           /\ Total(s, DOMAIN level) = LevelFillQty
           /\ \A i \in DOMAIN level :
                /\ Floors[i] <= s[i] /\ s[i] <= Eligible[i]
                /\ i # LargestIndex /\ s[i] > Floors[i] =>
                     \A j \in DOMAIN level : j = LargestIndex \/ j < i => s[j] = Eligible[j]
PROOF
  <1>1. PICK n \in Nat : n = Len(level) /\ DOMAIN level = 1 .. n
    BY InputIs
  <1>2. PICK g : /\ ApplyPass = g[1 .. n]
                 /\ g[{}] = [residual |-> Spare, shares |-> <<>>]
                 /\ \A k \in Nat : k < n /\ g[1 .. k] \in Pass =>
                      g[1 .. k + 1] = Visit(g[1 .. k], k + 1)
    BY <1>1, PassRuns
  <1> DEFINE claim(k) ==
               \E r \in Nat, s \in Seq(Nat) :
                 g[1 .. k] = [residual |-> r, shares |-> s] /\ Handed(r, s, k)
             T == {k \in Nat : k <= n => claim(k)}
  <1>3. 0 \in T
    <2>1. PICK s \in Seq(Nat) : s = <<>> /\ Len(s) = 0
      <3>1. <<>> \in Seq(Nat) /\ Len(<<>>) = 0
        OBVIOUS
      <3> QED BY <3>1, Zenon
    <2>2. Spare \in Nat /\ LargestIndex \in Nat /\ ~(LargestIndex <= 0)
      <3>1. LargestIndex \in 1 .. n
        BY <1>1, LargestIs
      <3> QED BY <3>1, PassQuantities
    <2>3. 1 .. 0 = {}
      OBVIOUS
    <2>4. Total(s, 1 .. 0) = 0 /\ Total(Floors, 1 .. 0) = 0
      BY <2>3, TotalEmpty
    <2>5. Handed(Spare, s, 0)
      BY <2>1, <2>2, <2>3, <2>4 DEF Handed
    <2>6. g[1 .. 0] = [residual |-> Spare, shares |-> s]
      BY <1>2, <2>1, <2>3
    <2> QED BY <2>2, <2>5, <2>6
  <1>4. ASSUME NEW k \in Nat, k \in T PROVE k + 1 \in T
    <2> SUFFICES ASSUME k + 1 <= n PROVE claim(k + 1)
      <3> HIDE DEF claim
      <3> QED OBVIOUS
    <2>1. PICK r \in Nat, s \in Seq(Nat) :
            g[1 .. k] = [residual |-> r, shares |-> s] /\ Handed(r, s, k)
      BY <1>4
    <2>2. g[1 .. k] \in Pass
      BY <2>1 DEF Pass
    <2>3. g[1 .. k + 1] = Visit(g[1 .. k], k + 1)
      BY <1>2, <2>2
    <2>4. PICK d, y : /\ d = Gain(k + 1, r)
                      /\ y = Floors[k + 1] + IF k + 1 = LargestIndex THEN LargestExtra ELSE d
      OBVIOUS
    <2>5. /\ r - d \in Nat /\ y \in Nat
          /\ Handed(r - d, Append(s, y), k + 1)
      BY <1>1, <2>1, <2>4, HandedStep
    <2>6. g[1 .. k + 1] = [residual |-> r - d, shares |-> Append(s, y)]
      <3>1. g[1 .. k].residual = r /\ g[1 .. k].shares = s
        BY <2>1
      <3> QED BY <2>3, <2>4, <3>1 DEF Visit
    <2>7. Append(s, y) \in Seq(Nat)
      BY <2>1, <2>5
    <2> QED BY <2>5, <2>6, <2>7
  <1>5. n \in T
    <2> HIDE DEF T
    <2> QED BY <1>3, <1>4, Induct
  <1>6. PICK r \in Nat, s \in Seq(Nat) :
          g[1 .. n] = [residual |-> r, shares |-> s] /\ Handed(r, s, n)
    <2> HIDE DEF claim
    <2>1. n <= n
      BY <1>1
    <2>2. claim(n)
      BY <1>5, <2>1
    <2> QED BY <2>2 DEF claim
  <1>7. ApplyPass.shares = s /\ Len(s) = n
    BY <1>2, <1>6 DEF Handed
  <1>8. PICK D : D = DOMAIN level /\ D = 1 .. n /\ IsFiniteSet(D)
    BY <1>1, InputIs
  <1>9. PICK f, e : /\ f = Floors /\ e = Eligible
                    /\ \A i \in D : /\ f[i] \in Nat /\ e[i] \in Nat /\ f[i] <= e[i]
                                    /\ s[i] \in Nat
    <2>1. \A i \in D : s[i] \in Nat
      BY <1>6, <1>7, <1>8
    <2> QED BY <1>8, <2>1, FloorIs, InputIs
  <1>10. PICK L, x, R, c, q \in Nat :
           /\ L = LargestIndex /\ x = LargestExtra /\ R = Spare
           /\ c = Total(f, D) /\ q = LevelFillQty /\ R = q - c - x
           /\ L \in D /\ L <= n
           /\ R > 0 => x = e[L] - f[L]
    <2>1. LargestIndex \in D /\ LargestIndex \in Nat /\ LargestIndex <= n
      BY <1>8, LargestIs
    <2>2. Total(f, D) = TotalFloor /\ TotalFloor \in Nat /\ LevelFillQty \in Nat
      BY <1>8, <1>9, TotalFloorIs, FillIs
    <2> QED BY <1>9, <2>1, <2>2, PassQuantities DEF Spare
  <1>11. /\ r <= R
         /\ \A i \in D :
              /\ f[i] <= s[i] /\ s[i] <= e[i]
              /\ i = L => s[i] = f[i] + x
              /\ i # L /\ r > 0 => s[i] = e[i]
              /\ i # L /\ s[i] > f[i] =>
                   /\ R > 0
                   /\ \A j \in D : j < i /\ j # L => s[j] = e[j]
         /\ Total(s, D) + r = R + c + x
    BY <1>6, <1>8, <1>9, <1>10 DEF Handed
  <1>12. R > 0 => s[L] = e[L]
    <2>1. s[L] = f[L] + x /\ L \in D
      BY <1>10, <1>11
    <2>2. f[L] \in Nat /\ e[L] \in Nat
      BY <1>9, <2>1
    <2> QED BY <1>10, <2>1, <2>2
  <1>13. Total(s, D) \in Nat
    BY <1>8, <1>9, TotalNat
  <1>14. r = 0
    <2> SUFFICES ASSUME r > 0 PROVE FALSE
      BY <1>6
    <2>1. \A i \in D : s[i] = e[i]
      <3>1. R > 0
        BY <1>6, <1>10, <1>11
      <3>2. \A i \in D : i # L => s[i] = e[i]
        BY <1>11
      <3> QED BY <1>12, <3>1, <3>2
    <2>2. Total(s, D) = Total(e, D)
      BY <1>8, <2>1, TotalSame
    <2>3. Total(e, D) = EligibleTotal /\ q <= EligibleTotal /\ EligibleTotal \in Nat
      BY <1>8, <1>9, <1>10, EligibleTotalIs, FillIs
    <2>4. Total(s, D) + r = R + c + x
      BY <1>11
    <2>5. R = q - c - x
      BY <1>10
    <2>6. Total(s, D) >= q
      BY <2>2, <2>3
    <2> QED BY <1>13, <2>4, <2>5, <2>6
  <1>15. Total(s, D) = q
    <2>1. Total(s, D) + r = R + c + x
      BY <1>11
    <2>2. R = q - c - x
      BY <1>10
    <2> QED BY <1>13, <1>14, <2>1, <2>2
  <1>16. ASSUME NEW i \in D, i # L, s[i] > f[i], NEW j \in D, j = L \/ j < i
         PROVE  s[j] = e[j]
    BY <1>11, <1>12, <1>16
  <1> QED BY <1>1, <1>6, <1>7, <1>8, <1>9, <1>10, <1>11, <1>15, <1>16

-----------------------------------------------------------------------------
(* What the allocation promises, of a level, a quantity and the shares.    *)

Takes(lvl) == [i \in DOMAIN lvl |-> IF lvl[i].own THEN 0 ELSE lvl[i].qty]

FirstLargest(lvl, i) ==
  \A j \in DOMAIN lvl :
    ~lvl[j].own => \/ lvl[j].qty < lvl[i].qty
                   \/ lvl[j].qty = lvl[i].qty /\ i <= j

Fits(lvl, rem, sh) ==
  LET offered == Total(Takes(lvl), DOMAIN lvl)
      exact(i) == Least(rem, offered) * lvl[i].qty  \* times offered
  IN  /\ Total(sh, DOMAIN lvl) = Least(rem, offered)
      /\ \A i \in DOMAIN lvl : sh[i] \in Nat /\ sh[i] <= Takes(lvl)[i]
      /\ \A i \in DOMAIN lvl :
           ~lvl[i].own =>
             /\ (sh[i] + 1) * offered > exact(i)
             /\ sh[i] * offered > exact(i) /\ ~FirstLargest(lvl, i) =>
                  \A j \in DOMAIN lvl :
                    ~lvl[j].own /\ (FirstLargest(lvl, j) \/ j < i) =>
                      sh[j] = lvl[j].qty

(* At least the share rounded down is more than the share less one, and    *)
(* more than the exact share is more than the share rounded down.          *)
LEMMA RoundedDown ==
  ASSUME NEW p \in Nat, NEW t \in Nat \ {0}, NEW x \in Nat, NEW f \in Nat,
         f = p \div t, f <= x
  PROVE  (x + 1) * t > p /\ (x * t > p => x > f)
PROOF
  <1>1. t * f <= p /\ p < t * f + t
    BY DivBounds
  <1>2. t * f <= t * x
    OBVIOUS
  <1>3. (x + 1) * t = t * x + t /\ x * t = t * x
    OBVIOUS
  <1>4. t * x \in Nat /\ t * f \in Nat
    OBVIOUS
  <1>5. (x + 1) * t > p
    BY <1>1, <1>2, <1>3, <1>4
  <1>6. x = f => ~(x * t > p)
    BY <1>1, <1>3, <1>4
  <1> QED BY <1>5, <1>6

(* Of the orders of others, the first largest is the one the search finds. *)
LEMMA FirstLargestIs ==
  ASSUME AnyInput, EligibleTotal # 0, NEW i \in DOMAIN level, ~level[i].own
  PROVE  FirstLargest(level, i) <=> i = LargestIndex
PROOF
  <1>1. PICK L \in DOMAIN level : L = LargestIndex /\ ~level[L].own
    BY LargestIs
  <1>2. L \in Nat /\ i \in Nat
    <2>1. \A m \in Nat : 1 .. m \subseteq Nat
      OBVIOUS
    <2> QED BY <1>1, <2>1, InputIs
  <1>3. level[i].qty \in Nat /\ level[L].qty \in Nat
    BY <1>1, InputIs
  <1>4. FirstLargest(level, L)
    BY <1>1, LargestIs DEF FirstLargest
  <1>5. ASSUME FirstLargest(level, i) PROVE i = L
    <2>1. level[L].qty < level[i].qty \/ (level[L].qty = level[i].qty /\ i <= L)
      BY <1>1, <1>5 DEF FirstLargest
    <2>2. level[i].qty < level[L].qty \/ (level[i].qty = level[L].qty /\ L <= i)
      BY <1>4 DEF FirstLargest
    <2> QED BY <1>2, <1>3, <2>1, <2>2
  <1> QED BY <1>1, <1>4, <1>5

(* A level that offers nothing offers nothing at any order.                *)
LEMMA NothingEligible ==
  ASSUME AnyInput, EligibleTotal = 0
  PROVE  \A i \in DOMAIN level : Eligible[i] = 0 /\ level[i].own
PROOF
  <1> TAKE i \in DOMAIN level
  <1>1. PICK D : D = DOMAIN level /\ IsFiniteSet(D)
    BY InputIs
  <1>2. PICK e : e = Eligible /\ \A j \in D : e[j] \in Nat /\ e[j] \in Int
    BY <1>1, InputIs
  <1>3. Total(e, D) = e[i] + Total(e, D \ {i}) /\ Total(e, D) = 0
    BY <1>1, <1>2, EligibleTotalIs, TotalRemove
  <1>4. Total(e, D \ {i}) \in Nat
    <2>1. D \ {i} \in SUBSET D
      OBVIOUS
    <2> QED BY <1>1, <1>2, <2>1, TotalWithin
  <1>5. e[i] = 0
    BY <1>1, <1>2, <1>3, <1>4
  <1>6. level[i].own
    BY <1>2, <1>5, InputIs
  <1> QED BY <1>2, <1>5, <1>6

(* The shares of the call keep that promise.                               *)
LEMMA AllocatedFits ==
  ASSUME AnyInput
  PROVE  Fits(level, remaining,
              IF EligibleTotal = 0 THEN [i \in DOMAIN level |-> 0] ELSE ApplyPass.shares)
PROOF
  <1>1. PICK D : D = DOMAIN level /\ IsFiniteSet(D)
    BY InputIs
  <1>2. Takes(level) = Eligible
    BY DEF Takes, Eligible
  <1>3. PICK t \in Nat : t = EligibleTotal /\ t = Total(Takes(level), D)
    BY <1>1, <1>2, EligibleTotalIs
  <1>4. CASE t = 0
    <2>1. PICK sh : sh = [i \in DOMAIN level |-> 0]
      OBVIOUS
    <2>2. \A i \in D : sh[i] = 0 /\ Eligible[i] = 0 /\ level[i].own
      BY <1>1, <1>3, <1>4, <2>1, NothingEligible
    <2>3. Total(sh, D) = 0
      BY <1>1, <2>2, TotalZero
    <2>4. Least(remaining, t) = 0
      BY <1>4, InputIs DEF Least
    <2>5. Fits(level, remaining, sh)
      BY <1>1, <1>2, <1>3, <2>2, <2>3, <2>4 DEF Fits
    <2> QED BY <1>3, <1>4, <2>1, <2>5
  <1>5. CASE t # 0
    <2>1. PICK s \in Seq(Nat) :
            /\ ApplyPass.shares = s /\ Len(s) = Len(level)
            /\ Total(s, D) = LevelFillQty
            /\ \A i \in D :
                 /\ Floors[i] <= s[i] /\ s[i] <= Eligible[i]
                 /\ i # LargestIndex /\ s[i] > Floors[i] =>
                      \A j \in D : j = LargestIndex \/ j < i => s[j] = Eligible[j]
      BY <1>1, <1>3, <1>5, PassFits
    <2>2. PICK q \in Nat : q = LevelFillQty /\ q = Least(remaining, t)
      BY <1>3, <1>5, FillIs
    <2>3. \A i \in D : s[i] \in Nat
      BY <1>1, <2>1, InputIs
    <2>4. ASSUME NEW i \in D, ~level[i].own
          PROVE  /\ (s[i] + 1) * t > q * level[i].qty
                 /\ s[i] * t > q * level[i].qty => s[i] > Floors[i]
      <3>1. PICK e, f, x \in Nat : e = level[i].qty /\ f = Floors[i] /\ x = s[i]
        BY <1>1, <1>3, <1>5, <2>3, FloorIs, InputIs
      <3>2. e = Eligible[i] /\ f = (q * e) \div t /\ f <= x
        BY <1>1, <1>3, <1>5, <2>1, <2>2, <2>4, <3>1, FloorIs, InputIs
      <3>3. q * e \in Nat /\ t \in Nat \ {0}
        BY <1>3, <1>5, <2>2, <3>1
      <3>4. (x + 1) * t > q * e /\ (x * t > q * e => x > f)
        BY <3>1, <3>2, <3>3, RoundedDown
      <3> QED BY <3>1, <3>4
    <2>5. ASSUME NEW i \in D, ~level[i].own, ~FirstLargest(level, i),
                 s[i] * t > q * level[i].qty,
                 NEW j \in D, ~level[j].own, FirstLargest(level, j) \/ j < i
          PROVE  s[j] = level[j].qty
      <3>1. s[i] > Floors[i] /\ i # LargestIndex
        BY <1>1, <1>3, <1>5, <2>4, <2>5, FirstLargestIs
      <3>2. j = LargestIndex \/ j < i
        BY <1>1, <1>3, <1>5, <2>5, FirstLargestIs
      <3>3. s[j] = Eligible[j] /\ Eligible[j] = level[j].qty
        BY <1>1, <2>1, <2>5, <3>1, <3>2, InputIs
      <3> QED BY <3>3
    <2>6. Fits(level, remaining, s)
      BY <1>1, <1>2, <1>3, <2>1, <2>2, <2>3, <2>4, <2>5 DEF Fits
    <2> QED BY <1>3, <1>5, <2>1, <2>6
  <1> QED BY <1>4, <1>5

AllocationInv ==
  /\ level = <<>> \/ AnyInput
  /\ shares # <<>> => level # <<>> /\ Fits(level, remaining, shares)

(* The sums of the properties are totals.                                  *)
LEMMA SumsAre ==
  ASSUME AnyInput
  PROVE  /\ Sum(Share, DOMAIN level) = Total(shares, DOMAIN level)
         /\ Offered = Total(Takes(level), DOMAIN level)
PROOF
  <1>1. PICK D : D = DOMAIN level /\ IsFiniteSet(D)
    BY InputIs
  <1>2. Sum(Share, DOMAIN level) = Total(shares, DOMAIN level)
    <2>1. Sum(Share, DOMAIN level) =
            (CHOOSE g : Accumulates(g, shares, DOMAIN level))[DOMAIN level]
      BY Zenon DEF Sum, Share, FoldSet, MapThenFoldSet, Accumulates, Chosen
    <2> QED BY <2>1 DEF Total
  <1>3. Offered = Total(Takes(level), DOMAIN level)
    <2> DEFINE runs(g) ==
                 g = [s \in SUBSET Theirs |->
                        IF s = {} THEN 0 ELSE level[Chosen(s)].qty + g[s \ {Chosen(s)}]]
    <2>1. Offered = (CHOOSE g : runs(g))[Theirs]
      BY Zenon DEF Offered, Sum, FoldSet, MapThenFoldSet, Chosen
    <2>2. PICK S, f : /\ S = Theirs /\ f = Takes(level) /\ S \in SUBSET D
                      /\ \A i \in S : f[i] = level[i].qty
                      /\ \A i \in D : f[i] \in Int
                      /\ \A i \in D \ S : f[i] = 0
      <3>1. PICK S : S = Theirs
        OBVIOUS
      <3>2. PICK f : f = Takes(level)
        OBVIOUS
      <3>3. \A i \in D : level[i].qty \in Int /\ f[i] = IF level[i].own THEN 0 ELSE level[i].qty
        BY <1>1, <3>2, InputIs DEF Takes
      <3>4. S \in SUBSET D /\ \A i \in D : i \in S <=> ~level[i].own
        BY <1>1, <3>1 DEF Theirs
      <3>5. \A i \in D : f[i] \in Int
        BY <3>3
      <3>6. \A i \in S : f[i] = level[i].qty
        BY <3>3, <3>4
      <3>7. \A i \in D \ S : f[i] = 0
        BY <3>3, <3>4
      <3> QED BY <3>1, <3>2, <3>4, <3>5, <3>6, <3>7
    <2>3. IsFiniteSet(S) /\ IsFiniteSet(D \ S)
      BY <1>1, <2>2, FS_Subset
    <2>4. \A s \in SUBSET S : s # {} => Chosen(s) \in S
      <3>1. \A s : s # {} => Chosen(s) \in s
        BY DEF Chosen
      <3> QED BY <3>1
    <2>5. \A g : runs(g) <=> Accumulates(g, f, S)
      BY <2>2, <2>4 DEF Accumulates
    <2>6. PICK g : Accumulates(g, f, S) /\ Offered = g[S]
      <3>1. \E g : runs(g)
        BY <2>3, <2>5, AccumulationExists
      <3> HIDE DEF runs
      <3> QED BY <2>1, <2>2, <2>5, <3>1
    <2>7. Offered = Total(f, S)
      BY <2>3, <2>6, TotalIs
    <2>8. Total(f, D \ S) = 0
      BY <2>2, <2>3, TotalZero
    <2>9. Total(f, D) = Total(f, S) + Total(f, D \ S)
      BY <1>1, <2>2, TotalSplit
    <2>10. Total(f, S) \in Int
      BY <2>2, <2>3, TotalRemove
    <2> QED BY <1>1, <2>2, <2>7, <2>8, <2>9, <2>10
  <1> QED BY <1>2, <1>3

(* The promise is what the properties ask for.                             *)
LEMMA AllocationInvImplies == AllocationInv => AllocationComplete /\ AllocationFair
PROOF
  <1> SUFFICES ASSUME AnyInput, Fits(level, remaining, shares)
               PROVE  AllocationComplete /\ AllocationFair
    BY DEF AllocationInv, AllocationComplete, AllocationFair
  <1>1. PICK t : t = Offered /\ t = Total(Takes(level), DOMAIN level)
    BY SumsAre
  <1>2. /\ Total(shares, DOMAIN level) = Least(remaining, t)
        /\ \A i \in DOMAIN level : shares[i] \in Nat /\ shares[i] <= Takes(level)[i]
        /\ \A i \in DOMAIN level :
             ~level[i].own =>
               /\ (shares[i] + 1) * t > Least(remaining, t) * level[i].qty
               /\ shares[i] * t > Least(remaining, t) * level[i].qty /\ ~FirstLargest(level, i) =>
                    \A j \in DOMAIN level :
                      ~level[j].own /\ (FirstLargest(level, j) \/ j < i) =>
                        shares[j] = level[j].qty
    BY <1>1 DEF Fits
  <1>3. AllocationComplete
    <2>1. Sum(Share, DOMAIN level) = Least(remaining, Offered)
      BY <1>1, <1>2, SumsAre
    <2>2. \A i \in DOMAIN level : shares[i] <= IF level[i].own THEN 0 ELSE level[i].qty
      BY <1>2 DEF Takes
    <2> QED BY <2>1, <2>2 DEF AllocationComplete
  <1>4. AllocationFair
    <2> DEFINE first_largest(i) ==
                 \A j \in Theirs :
                   \/ level[j].qty < level[i].qty
                   \/ level[j].qty = level[i].qty /\ i <= j
    <2>1. \A i \in Theirs : first_largest(i) <=> FirstLargest(level, i)
      BY DEF FirstLargest, Theirs
    <2>2. \A i \in Theirs : i \in DOMAIN level /\ ~level[i].own
      BY DEF Theirs
    <2> HIDE DEF first_largest
    <2>3. \A i \in Theirs :
            /\ (shares[i] + 1) * t > Least(remaining, t) * level[i].qty
            /\ shares[i] * t > Least(remaining, t) * level[i].qty /\ ~first_largest(i) =>
                 \A j \in Theirs : first_largest(j) \/ j < i => shares[j] = level[j].qty
      BY <1>2, <2>1, <2>2
    <2> QED BY <1>1, <2>3 DEF AllocationFair, first_largest
  <1> QED BY <1>3, <1>4

(* It holds before the call,                                               *)
LEMMA AllocationInvStart == Init => AllocationInv
PROOF
  BY DEF Init, AllocationInit, NoAllocation, AllocationInv

(* and the call keeps it.                                                  *)
LEMMA AllocationInvStep == AllocationInv /\ [Next]_vars => AllocationInv'
PROOF
  <1> SUFFICES ASSUME AllocationInv, [Next]_vars PROVE AllocationInv'
    OBVIOUS
  <1>1. CASE UNCHANGED allocationVars
    BY <1>1 DEF allocationVars, AllocationInv, AnyInput
  <1>2. CASE Allocate
    <2>1. AnyInput /\ level # <<>> /\ level' = level /\ remaining' = remaining
      BY <1>2 DEF Allocate, AllocationInv
    <2>2. PICK sh : /\ sh = IF EligibleTotal = 0 THEN [i \in DOMAIN level |-> 0]
                            ELSE ApplyPass.shares
                    /\ shares' = sh
      BY <1>2 DEF Allocate
    <2>3. Fits(level, remaining, sh)
      BY <2>1, <2>2, AllocatedFits
    <2>4. AnyInput'
      BY <2>1 DEF AnyInput
    <2> QED BY <2>1, <2>2, <2>3, <2>4 DEF AllocationInv
  <1> QED BY <1>1, <1>2 DEF Next, vars, Returned

(* Whatever the quantities and however many the orders, the call trades as *)
(* much as is wanted and offered, fills nobody for more than rests and     *)
(* leaves the client's own orders alone: nothing on the way wraps.         *)
THEOREM AllocationAlwaysComplete == Spec => []AllocationComplete
PROOF
  BY AllocationInvStart, AllocationInvStep, AllocationInvImplies, PTL DEF Spec

(* And every order gets its proportion rounded down, and the units left    *)
(* over go to the largest first and then by age.                           *)
THEOREM AllocationAlwaysFair == Spec => []AllocationFair
PROOF
  BY AllocationInvStart, AllocationInvStep, AllocationInvImplies, PTL DEF Spec

-----------------------------------------------------------------------------
(* The dataset, from the generator to the matching thread.                 *)

EventRecord ==
  [type : {"NEW_ORDER", "CANCEL", "REPLACE"}, id : Int, qty : Int,
   tif : {"GTC", "IOC", "FOK"}]

(* What the quantity and the time in force of an event say of its type.    *)
Telling(ev) ==
  /\ ev.type = "NEW_ORDER" => ev.qty > 0
  /\ ev.type = "CANCEL" => ev.qty = 0 /\ ev.tif = "GTC"
  /\ ev.type = "REPLACE" => ev.tif = "GTC"

(* After the first n events, an order `id' rests as far as the generator   *)
(* knows.                                                                  *)
Sent(evs, id, n) ==
  \E j \in 1 .. n :
    /\ evs[j].type = "NEW_ORDER" /\ evs[j].tif = "GTC" /\ evs[j].id = id
    /\ \A k \in j .. n : evs[k].type = "CANCEL" => evs[k].id # id

Named(evs) ==
  \A n \in DOMAIN evs : evs[n].type # "NEW_ORDER" => Sent(evs, evs[n].id, n - 1)

(* The list of ids holds each resting order, once.                         *)
ListExact(ids, evs) ==
  /\ \A a, b \in DOMAIN ids : ids[a] = ids[b] => a = b
  /\ \A a \in DOMAIN ids : Sent(evs, ids[a], Len(evs))
  /\ \A id : Sent(evs, id, Len(evs)) => \E a \in DOMAIN ids : ids[a] = id

GeneratorInv ==
  /\ events \in Seq(EventRecord) /\ resting_ids \in Seq(Int) /\ next_order_id \in Int
  /\ tool \in {"configure", "generate"} => cfg \in DatasetConfig
  /\ tool = "generate" => cfg.min_qty > 0
  /\ tool = "configure" => events = <<>>
  /\ \A k \in DOMAIN events : Telling(events[k])
  /\ \A a \in DOMAIN resting_ids : resting_ids[a] < next_order_id
  /\ ListExact(resting_ids, events)
  /\ Named(events)

(* The file is never longer than what was to be written, and only a whole  *)
(* one is replayed.                                                        *)
FileInv ==
  /\ tool \in {"none", "configure", "generate", "write", "close", "wrote", "error",
               "killed"}
  /\ disk \in Int /\ disk <= FileSize
  /\ benchmark \in {"begin", "refused", "too short", "replay"}
  /\ benchmark # "begin" => ToolOver
  /\ benchmark \in {"replay", "too short"} => disk = FileSize /\ replayed = events
  /\ benchmark = "refused" => disk < FileSize
  /\ benchmark # "replay" => calls = <<>>
  /\ benchmark \in {"begin", "refused"} => replayed = <<>>

(* What has been replayed is what was read, from the start.                *)
ReplayInv ==
  /\ calls \in Seq(EventRecord) /\ Len(calls) <= Len(replayed)
  /\ benchmark = "replay" => Warmup + Measured <= Len(replayed)
  /\ \A k \in 1 .. Len(calls) : calls[k] = replayed[k]

DataInv == GeneratorInv /\ FileInv /\ ReplayInv

-----------------------------------------------------------------------------
(* An order that rests goes on resting through every event but its cancel. *)
LEMMA SentStays ==
  ASSUME NEW evs \in Seq(EventRecord), NEW ev \in EventRecord, NEW id
  PROVE  /\ \A n \in 0 .. Len(evs) :
              Sent(evs, id, n) => Sent(Append(evs, ev), id, n)
         /\ Sent(evs, id, Len(evs)) /\ ~(ev.type = "CANCEL" /\ ev.id = id) =>
              Sent(Append(evs, ev), id, Len(evs) + 1)
PROOF
  <1> DEFINE more == Append(evs, ev)
  <1>1. /\ Len(evs) \in Nat /\ more[Len(evs) + 1] = ev
        /\ \A k \in 1 .. Len(evs) : more[k] = evs[k]
    BY AppendProperties, LenProperties
  <1> HIDE DEF more
  <1>2. ASSUME NEW n \in 0 .. Len(evs), Sent(evs, id, n) PROVE Sent(more, id, n)
    <2>1. PICK j \in 1 .. n :
            /\ evs[j].type = "NEW_ORDER" /\ evs[j].tif = "GTC" /\ evs[j].id = id
            /\ \A k \in j .. n : evs[k].type = "CANCEL" => evs[k].id # id
      BY <1>2 DEF Sent
    <2>2. j \in 1 .. Len(evs) /\ \A k \in j .. n : k \in 1 .. Len(evs)
      BY <1>1
    <2> QED BY <1>1, <2>1, <2>2 DEF Sent
  <1>3. ASSUME Sent(evs, id, Len(evs)), ~(ev.type = "CANCEL" /\ ev.id = id)
        PROVE  Sent(more, id, Len(evs) + 1)
    <2>1. PICK j \in 1 .. Len(evs) :
            /\ more[j].type = "NEW_ORDER" /\ more[j].tif = "GTC" /\ more[j].id = id
            /\ \A k \in j .. Len(evs) : more[k].type = "CANCEL" => more[k].id # id
      <3>1. Len(evs) \in 0 .. Len(evs)
        BY <1>1
      <3> QED BY <1>2, <1>3, <3>1 DEF Sent
    <2>2. ASSUME NEW k \in j .. Len(evs) + 1 PROVE more[k].type = "CANCEL" => more[k].id # id
      <3>1. k \in j .. Len(evs) \/ k = Len(evs) + 1
        BY <1>1
      <3> QED BY <1>1, <1>3, <2>1, <3>1
    <2>3. j \in 1 .. Len(evs) + 1
      BY <1>1
    <2> QED BY <2>1, <2>2, <2>3 DEF Sent
  <1> QED BY <1>2, <1>3 DEF more

(* An order that rests after an event rested before it and is not the one  *)
(* cancelled, or has been sent by the event.                               *)
LEMMA SentBefore ==
  ASSUME NEW evs \in Seq(EventRecord), NEW ev \in EventRecord, NEW id,
         Sent(Append(evs, ev), id, Len(evs) + 1)
  PROVE  \/ ev.type = "NEW_ORDER" /\ ev.tif = "GTC" /\ ev.id = id
         \/ Sent(evs, id, Len(evs)) /\ ~(ev.type = "CANCEL" /\ ev.id = id)
PROOF
  <1> DEFINE more == Append(evs, ev)
  <1>1. /\ Len(evs) \in Nat /\ more[Len(evs) + 1] = ev
        /\ \A k \in 1 .. Len(evs) : more[k] = evs[k]
    BY AppendProperties, LenProperties
  <1> HIDE DEF more
  <1>2. PICK j \in 1 .. Len(evs) + 1 :
          /\ more[j].type = "NEW_ORDER" /\ more[j].tif = "GTC" /\ more[j].id = id
          /\ \A k \in j .. Len(evs) + 1 : more[k].type = "CANCEL" => more[k].id # id
    BY DEF Sent, more
  <1>3. CASE j = Len(evs) + 1
    BY <1>1, <1>2, <1>3
  <1>4. CASE j \in 1 .. Len(evs)
    <2>1. Len(evs) + 1 \in j .. Len(evs) + 1 /\ \A k \in j .. Len(evs) : k \in j .. Len(evs) + 1
      BY <1>1, <1>4
    <2>2. \A k \in j .. Len(evs) : k \in 1 .. Len(evs)
      BY <1>1, <1>4
    <2>3. ~(ev.type = "CANCEL" /\ ev.id = id)
      BY <1>1, <1>2, <2>1
    <2>4. Sent(evs, id, Len(evs))
      BY <1>1, <1>2, <1>4, <2>1, <2>2 DEF Sent
    <2> QED BY <2>3, <2>4
  <1> QED BY <1>1, <1>3, <1>4

(* An event that names a resting order, or none, may be added.             *)
LEMMA NamedStays ==
  ASSUME NEW evs \in Seq(EventRecord), NEW ev \in EventRecord, Named(evs),
         ev.type = "NEW_ORDER" \/ Sent(evs, ev.id, Len(evs))
  PROVE  Named(Append(evs, ev))
PROOF
  <1> DEFINE more == Append(evs, ev)
  <1>1. /\ Len(evs) \in Nat /\ more[Len(evs) + 1] = ev
        /\ \A k \in 1 .. Len(evs) : more[k] = evs[k]
        /\ DOMAIN more = 1 .. Len(evs) + 1 /\ DOMAIN evs = 1 .. Len(evs)
    BY AppendProperties, LenProperties
  <1>2. \A id : \A n \in 0 .. Len(evs) : Sent(evs, id, n) => Sent(more, id, n)
    BY SentStays
  <1> HIDE DEF more
  <1>3. ASSUME NEW n \in DOMAIN more, more[n].type # "NEW_ORDER"
        PROVE  Sent(more, more[n].id, n - 1)
    <2>1. CASE n \in 1 .. Len(evs)
      <3>1. Sent(evs, evs[n].id, n - 1)
        BY <1>1, <1>3, <2>1 DEF Named
      <3>2. n - 1 \in 0 .. Len(evs) /\ more[n] = evs[n]
        BY <1>1, <2>1
      <3> QED BY <1>2, <3>1, <3>2
    <2>2. CASE n = Len(evs) + 1
      <3>1. more[n] = ev /\ n - 1 = Len(evs) /\ Len(evs) \in 0 .. Len(evs)
        BY <1>1, <2>2
      <3> QED BY <1>2, <1>3, <3>1
    <2> QED BY <1>1, <2>1, <2>2
  <1> QED BY <1>3 DEF Named, more

(* The swap-remove keeps every other id, once.                             *)
LEMMA SwapRemove ==
  ASSUME resting_ids \in Seq(Int), NEW idx \in DOMAIN resting_ids,
         \A a, b \in DOMAIN resting_ids : resting_ids[a] = resting_ids[b] => a = b
  PROVE  LET ids == RemoveResting(idx)
         IN  /\ ids \in Seq(Int)
             /\ \A a \in DOMAIN ids : \E b \in DOMAIN resting_ids :
                  b # idx /\ ids[a] = resting_ids[b]
             /\ \A b \in DOMAIN resting_ids : b # idx =>
                  \E a \in DOMAIN ids : ids[a] = resting_ids[b]
             /\ \A a, b \in DOMAIN ids : ids[a] = ids[b] => a = b
PROOF
  <1> DEFINE ids == RemoveResting(idx)
             last == Len(resting_ids)
             from(a) == IF a = idx THEN last ELSE a
  <1>1. last \in Nat /\ DOMAIN resting_ids = 1 .. last /\ idx \in 1 .. last
    BY LenProperties
  <1>2. ids = [a \in 1 .. last - 1 |-> resting_ids[from(a)]]
    <2>1. CASE idx = last
      <3>1. ids = [a \in 1 .. last - 1 |-> resting_ids[a]]
        BY <2>1 DEF RemoveResting, Front
      <3>2. \A a \in 1 .. last - 1 : from(a) = a
        BY <1>1, <2>1
      <3> QED BY <3>1, <3>2
    <2>2. CASE idx # last
      <3> DEFINE moved == [resting_ids EXCEPT ![idx] = Last(resting_ids)]
      <3>1. Last(resting_ids) = resting_ids[last]
        BY DEF Last
      <3>2. /\ moved \in Seq(Int) /\ Len(moved) = last
            /\ \A a \in 1 .. last : moved[a] = IF a = idx THEN resting_ids[last] ELSE resting_ids[a]
        <4>1. resting_ids[last] \in Int /\ moved = [resting_ids EXCEPT ![idx] = resting_ids[last]]
          BY <1>1, <3>1
        <4> HIDE DEF moved
        <4> QED BY <1>1, <4>1, ExceptSeq
      <3>3. ids = SubSeq(moved, 1, Len(moved) - 1)
        BY <2>2 DEF RemoveResting, Front
      <3> HIDE DEF moved
      <3>4. \A a \in 1 .. last - 1 : moved[a] = resting_ids[from(a)]
        BY <1>1, <3>2
      <3> HIDE DEF from
      <3>5. ids = [a \in 1 .. last - 1 |-> moved[a]]
        <4>1. SubSeq(moved, 1, Len(moved) - 1) = [a \in 1 .. Len(moved) - 1 |-> moved[a]]
          BY <3>2
        <4> QED BY <3>2, <3>3, <4>1
      <3> QED BY <3>4, <3>5
    <2> QED BY <2>1, <2>2
  <1>3. DOMAIN ids = 1 .. last - 1 /\ \A a \in 1 .. last - 1 : ids[a] = resting_ids[from(a)]
    BY <1>2
  <1> HIDE DEF ids
  <1>4. ASSUME NEW a \in 1 .. last - 1
        PROVE  from(a) \in 1 .. last /\ from(a) # idx
    BY <1>1
  <1>5. ids \in Seq(Int)
    <2>1. \A a \in 1 .. last - 1 : resting_ids[from(a)] \in Int
      BY <1>1, <1>4, ElementOfSeq
    <2>2. last - 1 \in Nat
      BY <1>1
    <2> QED BY <1>2, <2>1, <2>2, IsASeq
  <1>6. ASSUME NEW a \in 1 .. last - 1, NEW b \in 1 .. last - 1, ids[a] = ids[b]
        PROVE  a = b
    <2>1. from(a) = from(b)
      BY <1>1, <1>3, <1>4, <1>6
    <2> QED BY <1>1, <2>1
  <1>7. ASSUME NEW a \in 1 .. last - 1
        PROVE  \E b \in DOMAIN resting_ids : b # idx /\ ids[a] = resting_ids[b]
    BY <1>1, <1>3, <1>4
  <1>8. ASSUME NEW b \in 1 .. last, b # idx
        PROVE  \E a \in 1 .. last - 1 : ids[a] = resting_ids[b]
    <2>1. CASE b = last
      <3>1. idx \in 1 .. last - 1 /\ from(idx) = b
        BY <1>1, <1>8, <2>1
      <3> QED BY <1>3, <3>1
    <2>2. CASE b # last
      <3>1. from(b) = b
        BY <1>8
      <3> HIDE DEF from, last
      <3>2. b \in 1 .. last - 1
        BY <1>1, <1>8, <2>2
      <3> QED BY <1>3, <3>1, <3>2
    <2> QED BY <2>1, <2>2
  <1> QED BY <1>1, <1>3, <1>5, <1>6, <1>7, <1>8 DEF ids

(* One more event.                                                         *)
LEMMA EventAdded ==
  ASSUME GeneratorInv, NEW ev \in EventRecord, Telling(ev), events' = Append(events, ev)
  PROVE  /\ events' \in Seq(EventRecord) /\ Len(events') = Len(events) + 1
         /\ Len(events) \in Nat /\ events'[Len(events) + 1] = ev
         /\ \A k \in DOMAIN events' : Telling(events'[k])
PROOF
  <1>1. events \in Seq(EventRecord) /\ \A k \in DOMAIN events : Telling(events[k])
    BY DEF GeneratorInv
  <1>2. /\ events' \in Seq(EventRecord) /\ Len(events') = Len(events) + 1
        /\ \A k \in 1 .. Len(events) : events'[k] = events[k]
        /\ events'[Len(events) + 1] = ev
    BY <1>1, AppendProperties
  <1>3. /\ Len(events) \in Nat /\ DOMAIN events = 1 .. Len(events)
        /\ DOMAIN events' = 1 .. Len(events')
    BY <1>1, <1>2, LenProperties
  <1>4. \A k \in DOMAIN events' : k \in DOMAIN events \/ k = Len(events) + 1
    BY <1>2, <1>3
  <1> QED BY <1>1, <1>2, <1>3, <1>4

(* The generator: a cancel takes its id off the list, a new order that may *)
(* rest puts one on it.                                                    *)
LEMMA GeneratorKeeps ==
  ASSUME GeneratorInv, FileInv, [DatasetNext]_datasetVars
  PROVE  GeneratorInv'
PROOF
  <1>1. CASE Configure
    <2>1. /\ UNCHANGED <<events, resting_ids, next_order_id>> /\ tool = "configure"
          /\ cfg \in DatasetConfig
          /\ tool' = "generate" => cfg' = cfg /\ cfg.min_qty # 0
          /\ tool' # "configure"
      BY <1>1 DEF Configure, Valid, GeneratorInv
    <2>2. cfg.min_qty \in Nat
      BY <2>1, DatasetAssumption DEF DatasetConfig
    <2> QED BY <2>1, <2>2 DEF GeneratorInv, Configure
  <1>2. CASE GenerateCancel
    <2>1. PICK idx \in DOMAIN resting_ids :
            /\ events' = Append(events, Event("CANCEL", resting_ids[idx], 0, "GTC"))
            /\ resting_ids' = RemoveResting(idx)
      BY <1>2 DEF GenerateCancel
    <2> DEFINE ev == Event("CANCEL", resting_ids[idx], 0, "GTC")
    <2>2. /\ UNCHANGED <<cfg, next_order_id, tool>> /\ tool = "generate"
      BY <1>2 DEF GenerateCancel, Generating, fileVars
    <2>3. events \in Seq(EventRecord) /\ resting_ids \in Seq(Int)
      BY DEF GeneratorInv
    <2>4. ev \in EventRecord /\ Telling(ev) /\ ev.type = "CANCEL" /\ ev.id = resting_ids[idx]
      <3>1. resting_ids[idx] \in Int
        BY <2>3
      <3> QED BY <3>1 DEF Event, EventRecord, Telling
    <2> HIDE DEF ev
    <2>5. /\ resting_ids' \in Seq(Int)
          /\ \A a \in DOMAIN resting_ids' : \E b \in DOMAIN resting_ids :
               b # idx /\ resting_ids'[a] = resting_ids[b]
          /\ \A b \in DOMAIN resting_ids : b # idx =>
               \E a \in DOMAIN resting_ids' : resting_ids'[a] = resting_ids[b]
          /\ \A a, b \in DOMAIN resting_ids' : resting_ids'[a] = resting_ids'[b] => a = b
      BY <2>1, <2>3, SwapRemove DEF GeneratorInv, ListExact
    <2>6. /\ events' \in Seq(EventRecord) /\ Len(events') = Len(events) + 1
          /\ \A k \in DOMAIN events' : Telling(events'[k])
      BY <2>1, <2>4, EventAdded DEF ev
    <2>8. ListExact(resting_ids', events')
      <3>1. ASSUME NEW a \in DOMAIN resting_ids'
            PROVE  Sent(events', resting_ids'[a], Len(events'))
        <4>1. PICK b \in DOMAIN resting_ids : b # idx /\ resting_ids'[a] = resting_ids[b]
          BY <2>5
        <4>2. Sent(events, resting_ids[b], Len(events)) /\ resting_ids[b] # resting_ids[idx]
          BY <4>1 DEF GeneratorInv, ListExact
        <4>3. Sent(Append(events, ev), resting_ids[b], Len(events) + 1)
          BY <2>3, <2>4, <4>2, SentStays
        <4> QED BY <2>1, <2>6, <4>1, <4>3 DEF ev
      <3>2. ASSUME NEW id, Sent(events', id, Len(events'))
            PROVE  \E a \in DOMAIN resting_ids' : resting_ids'[a] = id
        <4>1. Sent(Append(events, ev), id, Len(events) + 1)
          BY <2>1, <2>6, <3>2 DEF ev
        <4>2. Sent(events, id, Len(events)) /\ ev.id # id
          BY <2>3, <2>4, <4>1, SentBefore
        <4>3. PICK b \in DOMAIN resting_ids : resting_ids[b] = id
          BY <4>2 DEF GeneratorInv, ListExact
        <4> QED BY <2>4, <2>5, <4>2, <4>3
      <3> QED BY <2>5, <3>1, <3>2 DEF ListExact
    <2>9. \A a \in DOMAIN resting_ids' : resting_ids'[a] < next_order_id'
      BY <2>2, <2>5 DEF GeneratorInv
    <2>10. Named(events')
      <3>1. Sent(events, ev.id, Len(events))
        BY <2>4 DEF GeneratorInv, ListExact
      <3> QED BY <2>1, <2>3, <2>4, <3>1, NamedStays DEF GeneratorInv, ev
    <2> QED BY <2>2, <2>5, <2>6, <2>8, <2>9, <2>10 DEF GeneratorInv
  <1>3. CASE GenerateReplace
    <2>1. PICK idx \in DOMAIN resting_ids, qty \in cfg.min_qty .. cfg.max_qty :
            events' = Append(events, Event("REPLACE", resting_ids[idx], qty, "GTC"))
      BY <1>3 DEF GenerateReplace
    <2> DEFINE ev == Event("REPLACE", resting_ids[idx], qty, "GTC")
    <2>2. UNCHANGED <<cfg, resting_ids, next_order_id, tool>> /\ tool = "generate"
      BY <1>3 DEF GenerateReplace, Generating, fileVars
    <2>3. events \in Seq(EventRecord) /\ resting_ids \in Seq(Int)
      BY DEF GeneratorInv
    <2>4. ev \in EventRecord /\ Telling(ev) /\ ev.type = "REPLACE" /\ ev.id = resting_ids[idx]
      <3>1. resting_ids[idx] \in Int /\ qty \in Int
        BY <2>3
      <3> QED BY <3>1 DEF Event, EventRecord, Telling
    <2> HIDE DEF ev
    <2>6. /\ events' \in Seq(EventRecord) /\ Len(events') = Len(events) + 1
          /\ \A k \in DOMAIN events' : Telling(events'[k])
      BY <2>1, <2>4, EventAdded DEF ev
    <2>8. ListExact(resting_ids', events')
      <3>1. ASSUME NEW a \in DOMAIN resting_ids
            PROVE  Sent(events', resting_ids[a], Len(events'))
        <4>1. Sent(events, resting_ids[a], Len(events))
          BY DEF GeneratorInv, ListExact
        <4>2. Sent(Append(events, ev), resting_ids[a], Len(events) + 1)
          BY <2>3, <2>4, <4>1, SentStays
        <4> QED BY <2>1, <2>6, <4>2 DEF ev
      <3>2. ASSUME NEW id, Sent(events', id, Len(events'))
            PROVE  Sent(events, id, Len(events))
        <4>1. Sent(Append(events, ev), id, Len(events) + 1)
          BY <2>1, <2>6, <3>2 DEF ev
        <4> QED BY <2>3, <2>4, <4>1, SentBefore
      <3> QED BY <2>2, <3>1, <3>2 DEF ListExact, GeneratorInv
    <2>10. Named(events')
      <3>1. Sent(events, ev.id, Len(events))
        BY <2>4 DEF GeneratorInv, ListExact
      <3> QED BY <2>1, <2>3, <2>4, <3>1, NamedStays DEF GeneratorInv, ev
    <2> QED BY <2>2, <2>6, <2>8, <2>10 DEF GeneratorInv
  <1>4. CASE GenerateOrder
    <2>1. PICK v \in Unit, qty \in cfg.min_qty .. cfg.max_qty :
            /\ events' = Append(events, Event("NEW_ORDER", next_order_id, qty, TifOf(v)))
            /\ resting_ids' = IF TifOf(v) = "GTC" THEN Append(resting_ids, next_order_id)
                              ELSE resting_ids
      BY <1>4 DEF GenerateOrder
    <2> DEFINE tif == TifOf(v)
               ev == Event("NEW_ORDER", next_order_id, qty, tif)
    <2>2. /\ UNCHANGED <<cfg, tool>> /\ tool = "generate" /\ next_order_id' = next_order_id + 1
      BY <1>4 DEF GenerateOrder, Generating, fileVars
    <2>3. /\ events \in Seq(EventRecord) /\ resting_ids \in Seq(Int)
          /\ next_order_id \in Int
      BY DEF GeneratorInv
    <2>4. /\ ev \in EventRecord /\ Telling(ev) /\ ev.type = "NEW_ORDER"
          /\ ev.id = next_order_id /\ ev.tif = tif
      <3>1. qty \in Int /\ qty > 0
        <4>1. cfg.min_qty \in Nat /\ cfg.min_qty > 0
          BY <2>2, DatasetAssumption DEF GeneratorInv, DatasetConfig
        <4>2. cfg.max_qty \in Nat
          BY <2>2, DatasetAssumption DEF GeneratorInv, DatasetConfig
        <4> QED BY <4>1, <4>2
      <3>2. tif \in {"GTC", "IOC", "FOK"}
        BY DEF TifOf
      <3> HIDE DEF tif
      <3> QED BY <2>3, <3>1, <3>2 DEF Event, EventRecord, Telling
    <2> HIDE DEF ev, tif
    <2>6. /\ events' \in Seq(EventRecord) /\ Len(events') = Len(events) + 1
          /\ Len(events) \in Nat /\ events'[Len(events) + 1] = ev
          /\ \A k \in DOMAIN events' : Telling(events'[k])
      BY <2>1, <2>4, EventAdded DEF ev, tif
    <2>8. /\ resting_ids' \in Seq(Int)
          /\ \A a \in DOMAIN resting_ids' : resting_ids'[a] < next_order_id'
          /\ ListExact(resting_ids', events')
      <3>1. ASSUME NEW a \in DOMAIN resting_ids
            PROVE  /\ Sent(events', resting_ids[a], Len(events'))
                   /\ resting_ids[a] \in Int /\ resting_ids[a] < next_order_id
        <4>1. /\ Sent(events, resting_ids[a], Len(events))
              /\ resting_ids[a] < next_order_id
          BY DEF GeneratorInv, ListExact
        <4>2. Sent(Append(events, ev), resting_ids[a], Len(events) + 1)
          BY <2>3, <2>4, <4>1, SentStays
        <4> QED BY <2>1, <2>3, <2>6, <4>1, <4>2 DEF ev, tif
      <3>4. ASSUME NEW id, Sent(events', id, Len(events'))
            PROVE  \/ tif = "GTC" /\ id = next_order_id
                   \/ \E a \in DOMAIN resting_ids : resting_ids[a] = id
        <4>1. Sent(Append(events, ev), id, Len(events) + 1)
          BY <2>1, <2>6, <3>4 DEF ev, tif
        <4>2. (tif = "GTC" /\ id = next_order_id) \/ Sent(events, id, Len(events))
          BY <2>3, <2>4, <4>1, SentBefore
        <4> QED BY <4>2 DEF GeneratorInv, ListExact
      <3>2. CASE tif # "GTC"
        <4>1. resting_ids' = resting_ids
          BY <2>1, <3>2 DEF tif
        <4>2. \A id : Sent(events', id, Len(events')) =>
                \E a \in DOMAIN resting_ids' : resting_ids'[a] = id
          BY <3>2, <3>4, <4>1
        <4> QED BY <2>2, <2>3, <3>1, <4>1, <4>2 DEF ListExact, GeneratorInv
      <3>3. CASE tif = "GTC"
        <4>1. /\ resting_ids' \in Seq(Int) /\ Len(resting_ids) \in Nat
              /\ DOMAIN resting_ids' = 1 .. Len(resting_ids) + 1
              /\ DOMAIN resting_ids = 1 .. Len(resting_ids)
              /\ \A a \in DOMAIN resting_ids : resting_ids'[a] = resting_ids[a]
              /\ resting_ids'[Len(resting_ids) + 1] = next_order_id
          BY <2>1, <2>3, <3>3, AppendProperties, LenProperties DEF tif
        <4>2. Sent(events', next_order_id, Len(events'))
          <5>1. \A k \in Len(events') .. Len(events') : k = Len(events')
            BY <2>6
          <5>2. Len(events') \in 1 .. Len(events')
            BY <2>6
          <5> QED BY <2>4, <2>6, <3>3, <5>1, <5>2 DEF Sent
        <4>3. \A a \in DOMAIN resting_ids' :
                /\ Sent(events', resting_ids'[a], Len(events'))
                /\ resting_ids'[a] < next_order_id'
          <5>1. \A a \in DOMAIN resting_ids' : a \in DOMAIN resting_ids \/ a = Len(resting_ids) + 1
            BY <4>1
          <5>2. \A a \in DOMAIN resting_ids : resting_ids[a] < next_order_id'
            BY <2>2, <2>3, <3>1
          <5>3. next_order_id < next_order_id'
            BY <2>2, <2>3
          <5> QED BY <3>1, <4>1, <4>2, <5>1, <5>2, <5>3
        <4>4. \A a, b \in DOMAIN resting_ids' : resting_ids'[a] = resting_ids'[b] => a = b
          <5>1. \A a, b \in DOMAIN resting_ids : resting_ids[a] = resting_ids[b] => a = b
            BY DEF GeneratorInv, ListExact
          <5>2. \A a \in DOMAIN resting_ids : resting_ids[a] # next_order_id
            BY <2>3, <3>1
          <5> QED BY <4>1, <5>1, <5>2
        <4>5. \A id : Sent(events', id, Len(events')) =>
                \E a \in DOMAIN resting_ids' : resting_ids'[a] = id
          <5>1. Len(resting_ids) + 1 \in DOMAIN resting_ids'
            BY <4>1
          <5>2. \A a \in DOMAIN resting_ids : a \in DOMAIN resting_ids'
            BY <4>1
          <5> QED BY <3>4, <4>1, <5>1, <5>2
        <4> QED BY <4>1, <4>3, <4>4, <4>5 DEF ListExact
      <3> QED BY <3>2, <3>3
    <2>10. Named(events')
      BY <2>1, <2>3, <2>4, NamedStays DEF GeneratorInv, ev, tif
    <2> QED BY <2>2, <2>3, <2>6, <2>8, <2>10 DEF GeneratorInv
  <1>5. CASE /\ UNCHANGED <<events, resting_ids, next_order_id>>
             /\ tool' \notin {"configure", "generate"}
    BY <1>5 DEF GeneratorInv
  <1>6. CASE UNCHANGED <<cfg, events, resting_ids, next_order_id, tool>>
    BY <1>6 DEF GeneratorInv
  <1>7. CASE OpenFile \/ Flush \/ WriteFails \/ CheckStream
             \/ CloseFile \/ Killed
    <2>1. /\ UNCHANGED <<events, resting_ids, next_order_id>>
          /\ tool' \notin {"configure", "generate"}
      BY <1>7 DEF OpenFile, Flush, WriteFails, CheckStream,
                  CloseFile, Killed, generatorVars
    <2> QED BY <1>5, <2>1
  <1>8. CASE ReadFile \/ Replay \/ Done \/ UNCHANGED datasetVars
    <2>1. UNCHANGED <<cfg, events, resting_ids, next_order_id, tool>>
      BY <1>8 DEF ReadFile, Replay, Done, datasetVars,
                  generatorVars, fileVars
    <2> QED BY <1>6, <2>1
  <1> QED
    BY <1>1, <1>2, <1>3, <1>4, <1>7, <1>8 DEF DatasetNext

(* The file grows to its full size at most, and is replayed only then.     *)
LEMMA FileKeeps ==
  ASSUME GeneratorInv, FileInv, ReplayInv, [DatasetNext]_datasetVars
  PROVE  FileInv'
PROOF
  <1> DEFINE length == Len(events)
  <1>1. length \in Nat /\ FileSize = 2 + 2 * length
    BY LenProperties DEF GeneratorInv, FileSize
  <1>0. disk \in Int /\ FileSize \in Int /\ disk <= FileSize
    <2>1. FileSize \in Int
      BY <1>1
    <2>2. disk \in Int /\ disk <= FileSize
      BY Zenon DEF FileInv
    <2> QED BY <2>1, <2>2
  <1> HIDE DEF length
  <1>2. CASE Configure
    <2>1. /\ tool' \in {"generate", "error"} /\ tool = "configure"
          /\ UNCHANGED <<events, disk, benchmark, replayed, calls>>
      BY <1>2 DEF Configure, benchmarkVars
    <2> QED BY <2>1 DEF FileInv, FileSize, ToolOver
  <1>3. CASE GenerateCancel \/ GenerateReplace \/ GenerateOrder
    <2>1. /\ UNCHANGED <<tool, disk, benchmark, replayed, calls>> /\ tool = "generate"
      BY <1>3 DEF GenerateCancel, GenerateReplace, GenerateOrder,
                  Generating, fileVars, benchmarkVars
    <2>2. benchmark = "begin"
      BY <2>1 DEF FileInv, ToolOver
    <2>3. \E ev : events' = Append(events, ev)
      BY <1>3 DEF GenerateCancel, GenerateReplace, GenerateOrder
    <2>4. Len(events') = length + 1
      BY <2>3 DEF GeneratorInv, length
    <2>5. FileSize' = FileSize + 2
      BY <1>1, <2>4 DEF FileSize, length
    <2>6. disk \in Int /\ disk <= FileSize'
      BY <1>0, <2>1, <2>5
    <2> QED BY <2>1, <2>2, <2>6 DEF FileInv, ToolOver
  <1>4. CASE \/ OpenFile \/ Flush \/ WriteFails
             \/ CheckStream \/ CloseFile \/ Killed
    <2>1. /\ UNCHANGED <<events, benchmark, replayed, calls>>
          /\ tool \in {"generate", "write", "close"}
          /\ tool' \in {"write", "close", "wrote", "error", "killed"}
      BY <1>4 DEF OpenFile, Flush, WriteFails, CheckStream,
                  CloseFile, Killed, generatorVars, benchmarkVars
    <2>2. benchmark = "begin"
      BY <2>1 DEF FileInv, ToolOver
    <2>3. disk' = 0 \/ disk' = disk \/ disk' \in disk .. FileSize
      <3>1. CASE Flush
        <4>1. disk' \in disk + 1 .. FileSize
          BY <3>1 DEF Flush
        <4> QED BY <1>0, <4>1
      <3>2. CASE CloseFile
        BY <3>2 DEF CloseFile
      <3>3. CASE OpenFile \/ WriteFails \/ CheckStream \/ Killed
        BY <3>3 DEF OpenFile, WriteFails, CheckStream, Killed
      <3> QED BY <1>4, <3>1, <3>2, <3>3
    <2>4. FileSize' = FileSize
      BY <2>1 DEF FileSize
    <2>5. disk' \in Int /\ disk' <= FileSize
      <3>1. 0 \in Int /\ 0 <= FileSize
        BY <1>1
      <3> QED BY <1>0, <2>3, <3>1
    <2> QED BY <2>1, <2>2, <2>4, <2>5 DEF FileInv
  <1>5. CASE ReadFile
    <2>1. /\ UNCHANGED <<events, tool, disk, calls>> /\ ToolOver /\ benchmark = "begin"
          /\ calls = <<>> /\ replayed = <<>>
      BY <1>5 DEF ReadFile, generatorVars, fileVars, FileInv
    <2>2. FileSize' = FileSize /\ ToolOver'
      BY <2>1 DEF FileSize, ToolOver
    <2>3. CASE disk >= 2 /\ length <= (disk - 2) \div 2
      <3>1. disk = FileSize
        BY <1>0, <1>1, <2>3
      <3>2. /\ replayed' = SubSeq(events, 1, length)
            /\ benchmark' \in {"replay", "too short"}
        BY <1>5, <2>3 DEF ReadFile, RecordsToRead, MaxRecords, length
      <3>3. replayed' = events
        BY <3>2, SubSeqFull DEF GeneratorInv, length
      <3> QED BY <2>1, <2>2, <3>1, <3>2, <3>3 DEF FileInv
    <2>4. CASE ~(disk >= 2 /\ length <= (disk - 2) \div 2)
      <3>1. disk < FileSize
        BY <1>0, <1>1, <2>4
      <3>2. benchmark' = "refused" /\ replayed' = <<>>
        BY <1>5, <2>1, <2>4 DEF ReadFile, RecordsToRead, MaxRecords, length
      <3> QED BY <2>1, <2>2, <3>1, <3>2 DEF FileInv
    <2> QED BY <2>3, <2>4
  <1>6. CASE Replay
    <2>1. UNCHANGED <<events, tool, disk, benchmark, replayed>> /\ benchmark = "replay"
      BY <1>6 DEF Replay, generatorVars, fileVars
    <2> QED BY <2>1 DEF FileInv, FileSize, ToolOver
  <1>7. CASE Done \/ UNCHANGED datasetVars
    <2>1. UNCHANGED <<events, tool, disk, benchmark, replayed, calls>>
      BY <1>7 DEF Done, datasetVars, generatorVars, fileVars, benchmarkVars
    <2> QED BY <2>1 DEF FileInv, FileSize, ToolOver
  <1> QED
    BY <1>2, <1>3, <1>4, <1>5, <1>6, <1>7 DEF DatasetNext

(* What the matching thread makes of an encoded event is that event.       *)
LEMMA DispatchedIs ==
  ASSUME NEW ev \in EventRecord, Telling(ev)
  PROVE  Dispatched(Encoded(ev)) = ev
PROOF
  <1> DEFINE made(type, id, qty, tif) == [type |-> type, id |-> id, qty |-> qty, tif |-> tif]
  <1>1. ev = made(ev.type, ev.id, ev.qty, ev.tif)
    BY DEF EventRecord
  <1>2. ev.qty \in Int /\ ev.type \in {"NEW_ORDER", "CANCEL", "REPLACE"}
    BY DEF EventRecord
  <1>3. Dispatched(Encoded(ev)) =
          IF ev.type # "REPLACE" /\ ev.qty = 0 THEN made("CANCEL", ev.id, 0, "GTC")
          ELSE IF ev.type = "REPLACE" THEN made("REPLACE", ev.id, ev.qty, "GTC")
          ELSE made("NEW_ORDER", ev.id, ev.qty, ev.tif)
    BY DEF Dispatched, Encoded, Tagged, Event
  <1>4. CASE ev.type = "REPLACE"
    <2>1. ev.tif = "GTC"
      BY <1>4 DEF Telling
    <2> QED BY <1>1, <1>3, <1>4, <2>1
  <1>5. CASE ev.type = "CANCEL"
    <2>1. ev.tif = "GTC" /\ ev.qty = 0
      BY <1>5 DEF Telling
    <2> QED BY <1>1, <1>3, <1>5, <2>1
  <1>6. CASE ev.type = "NEW_ORDER"
    <2>1. ev.qty # 0
      BY <1>2, <1>6 DEF Telling
    <2> QED BY <1>1, <1>3, <1>6, <2>1
  <1> QED BY <1>2, <1>4, <1>5, <1>6

(* One event after the other is carried out as it was read.                *)
LEMMA ReplayKeeps ==
  ASSUME GeneratorInv, FileInv, ReplayInv, [DatasetNext]_datasetVars
  PROVE  ReplayInv'
PROOF
  <1>0. Warmup \in Nat /\ Measured \in Nat
    BY DatasetAssumption
  <1>1. CASE UNCHANGED <<benchmark, replayed, calls>>
    BY <1>1 DEF ReplayInv
  <1>2. CASE ReadFile
    <2>1. calls' = <<>> /\ benchmark = "begin"
      BY <1>2 DEF ReadFile, FileInv
    <2>2. Len(replayed') \in Nat
      <3>1. CASE replayed' = replayed
        BY <2>1, <3>1 DEF FileInv
      <3>2. CASE replayed' = SubSeq(events, 1, Len(events))
        BY <3>2, SubSeqFull DEF GeneratorInv
      <3> QED BY <1>2, <3>1, <3>2 DEF ReadFile, RecordsToRead
    <2>3. benchmark' = "replay" => Warmup + Measured <= Len(replayed')
      BY <1>0, <1>2, <2>2 DEF ReadFile
    <2> QED BY <2>1, <2>2, <2>3 DEF ReplayInv
  <1>3. CASE Replay
    <2> DEFINE n == Len(calls)
               ev == replayed[n + 1]
    <2>1. /\ benchmark = "replay" /\ n < Warmup + Measured
          /\ calls' = Append(calls, Dispatched(Encoded(ev)))
          /\ UNCHANGED <<benchmark, replayed>>
      BY <1>3 DEF Replay
    <2>2. /\ calls \in Seq(EventRecord) /\ n \in Nat /\ Warmup + Measured <= Len(replayed)
          /\ \A k \in 1 .. n : calls[k] = replayed[k]
      BY <2>1 DEF ReplayInv
    <2>3. replayed = events /\ events \in Seq(EventRecord)
      BY <2>1 DEF FileInv, GeneratorInv
    <2>4. Len(replayed) \in Nat /\ n + 1 \in 1 .. Len(replayed)
      BY <1>0, <2>1, <2>2, <2>3, LenProperties
    <2>5. ev \in EventRecord /\ Telling(ev)
      BY <2>3, <2>4 DEF GeneratorInv
    <2> HIDE DEF ev
    <2>6. calls' = Append(calls, ev)
      BY <2>1, <2>5, DispatchedIs
    <2>7. /\ calls' \in Seq(EventRecord) /\ Len(calls') = n + 1
          /\ \A k \in 1 .. n : calls'[k] = calls[k]
          /\ calls'[n + 1] = ev
      BY <2>2, <2>5, <2>6, AppendProperties
    <2>8. \A k \in 1 .. n + 1 : calls'[k] = replayed[k]
      <3>1. \A k \in 1 .. n + 1 : k \in 1 .. n \/ k = n + 1
        BY <2>2
      <3> QED BY <2>2, <2>7, <3>1 DEF ev
    <2> QED BY <2>1, <2>2, <2>4, <2>7, <2>8 DEF ReplayInv
  <1>4. CASE ~ReadFile /\ ~Replay
    <2>1. UNCHANGED <<benchmark, replayed, calls>>
      BY <1>4 DEF DatasetNext, Configure, GenerateCancel, GenerateReplace,
                  GenerateOrder, Generating, OpenFile, Flush,
                  WriteFails, CheckStream, CloseFile, Killed,
                  Done, datasetVars, benchmarkVars
    <2> QED BY <1>1, <2>1
  <1> QED BY <1>2, <1>3, <1>4

(* For any configuration, sizes and buffer: what the generator knows of    *)
(* its orders, what is on the disk and what has been replayed.             *)
THEOREM DatasetInductive == Spec => []DataInv
PROOF
  <1>1. Init => DataInv
    <2> SUFFICES ASSUME Init PROVE DataInv
      OBVIOUS
    <2>1. NothingYet /\ (tool = "none" \/ (tool = "configure" /\ cfg \in DatasetConfig))
      BY DEF Init, DatasetInit, NoDataset
    <2>2. GeneratorInv
      <3>1. \A id : ~Sent(<<>>, id, Len(<<>>))
        BY DEF Sent
      <3> QED BY <2>1, <3>1 DEF NothingYet, GeneratorInv, ListExact, Named
    <2>3. FileInv /\ ReplayInv
      BY <2>1 DEF NothingYet, FileInv, ReplayInv, FileSize, NoFile, ToolOver
    <2> QED BY <2>2, <2>3 DEF DataInv
  <1>2. DataInv /\ [Next]_vars => DataInv'
    <2> SUFFICES ASSUME DataInv, [Next]_vars PROVE DataInv'
      OBVIOUS
    <2>1. [DatasetNext]_datasetVars
      BY DEF Next, vars, Returned
    <2> QED BY <2>1, GeneratorKeeps, FileKeeps, ReplayKeeps DEF DataInv
  <1> QED BY <1>1, <1>2, PTL DEF Spec

(* A cancel or replace of the dataset names an order that an earlier event *)
(* has sent to rest and none before has cancelled, and the list they draw  *)
(* from holds those orders exactly.                                        *)
THEOREM TargetsAlwaysNamed == Spec => []TargetsNamed
PROOF
  <1>1. ASSUME DataInv PROVE TargetsNamed
    <2>1. \A id, n : RestsAfter(id, n) <=> Sent(events, id, n)
      BY DEF RestsAfter, Sent
    <2>2. /\ events \in Seq(EventRecord) /\ resting_ids \in Seq(Int)
          /\ ListExact(resting_ids, events) /\ Named(events)
      BY <1>1 DEF DataInv, GeneratorInv
    <2>3. \A i \in DOMAIN events :
            events[i].type # "NEW_ORDER" => RestsAfter(events[i].id, i - 1)
      BY <2>1, <2>2 DEF Named
    <2>4. IsInjective(resting_ids)
      BY <2>2 DEF ListExact, IsInjective
    <2>5. \A id : id \in Range(resting_ids) <=> RestsAfter(id, Len(events))
      BY <2>1, <2>2 DEF ListExact, Range
    <2>6. ASSUME NEW id, RestsAfter(id, Len(events))
          PROVE  \E i \in DOMAIN events : events[i].id = id
      <3>1. DOMAIN events = 1 .. Len(events)
        BY <2>2, LenProperties
      <3> QED BY <2>6, <3>1 DEF RestsAfter
    <2>7. Range(resting_ids) =
            {id \in {events[i].id : i \in DOMAIN events} : RestsAfter(id, Len(events))}
      BY <2>5, <2>6
    <2> QED BY <2>3, <2>4, <2>7 DEF TargetsNamed
  <1> QED BY <1>1, DatasetInductive, PTL

(* The benchmark replays whole datasets only, whatever became of the tool  *)
(* that wrote the file, and refuses none that is whole.                    *)
THEOREM AlwaysReadWhole == Spec => []ReadWhole
PROOF
  <1>1. DataInv => ReadWhole
    BY DEF DataInv, FileInv, ReadWhole
  <1> QED BY <1>1, DatasetInductive, PTL

(* Every event reaches the operation it stands for, and the composition    *)
(* reported for the dataset is that of the samples.                        *)
THEOREM AlwaysDispatchedAsMeant == Spec => []DispatchedAsMeant
PROOF
  <1>1. ASSUME DataInv PROVE DispatchedAsMeant
    <2> DEFINE n == Len(calls)
    <2>1. /\ calls \in Seq(EventRecord) /\ n \in Nat /\ n <= Len(replayed)
          /\ \A k \in 1 .. n : calls[k] = replayed[k]
      BY <1>1 DEF DataInv, ReplayInv
    <2>2. Warmup \in Nat /\ Measured \in Nat
      BY DatasetAssumption
    <2>3. calls = SubSeq(replayed, 1, n)
      <3>1. \A k \in 1 .. n : replayed[k] \in EventRecord
        BY <2>1, ElementOfSeq
      <3> DEFINE read == SubSeq(replayed, 1, n)
      <3>2. /\ read \in Seq(EventRecord)
            /\ Len(read) = IF 1 <= n THEN n - 1 + 1 ELSE 0
            /\ \A k \in 1 .. n - 1 + 1 : read[k] = replayed[1 + k - 1]
        BY <2>1, <3>1, SubSeqProperties
      <3> HIDE DEF read
      <3>3. Len(read) = n /\ \A k \in 1 .. n : read[k] = calls[k]
        <4>1. \A k \in 1 .. n : k \in 1 .. n - 1 + 1 /\ 1 + k - 1 = k
          BY <2>1
        <4> QED BY <2>1, <3>2, <4>1
      <3>4. calls = read
        BY <2>1, <3>2, <3>3, SeqEqual
      <3> QED BY <3>4 DEF read
    <2>4. ASSUME n = Warmup + Measured PROVE TrialStats = Composition
      <3>1. \A k \in Warmup + 1 .. Warmup + Measured : calls[k] = replayed[k]
        BY <2>1, <2>2, <2>4
      <3>2. /\ {k \in Warmup + 1 .. Warmup + Measured : IsCancel(calls[k])}
               = {k \in Warmup + 1 .. Warmup + Measured : IsCancel(replayed[k])}
            /\ {k \in Warmup + 1 .. Warmup + Measured : IsOrder(calls[k])}
               = {k \in Warmup + 1 .. Warmup + Measured : IsOrder(replayed[k])}
        BY <3>1 DEF IsCancel, IsOrder
      <3> QED BY <3>2 DEF TrialStats, Composition, CountOf
    <2> QED BY <2>3, <2>4 DEF DispatchedAsMeant
  <1>2. DataInv => DispatchedAsMeant
    BY <1>1
  <1> QED BY <1>2, DatasetInductive, PTL
=============================================================================
