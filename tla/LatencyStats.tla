---------------------------- MODULE LatencyStats ----------------------------
(***************************************************************************)
(* What is reported and decided from the samples (include/hydra/           *)
(* stats.hpp): the percentiles of a trial, and the verdict on an ablation, *)
(* which compares the optimized build with one that lacks an optimization. *)
(* Values are integers; p / 100.0 * N rounds down as the exact product     *)
(* does for the four percentiles the code asks for.  A sorted vector is    *)
(* represented by how often each latency occurs in it.                     *)
(***************************************************************************)
EXTENDS Integers, FiniteSetsExt

CONSTANTS
  Latencies,  \* the latencies there are
  Counts      \* how often a latency may occur

ASSUME StatsAssumption ==
  IsFiniteSet(Latencies) /\ Latencies \subseteq Nat /\ Counts \subseteq Nat

VARIABLES
  occurs,       \* the sorted samples: occurrences of each latency
  percentiles,  \* the PercentileSet, NoResult before the call
  ablation,     \* an AblationInput
  verdicts      \* the Verdict on it, and on it with the two sides swapped

statsVars == <<occurs, percentiles, ablation, verdicts>>

NoResult == <<>>

AblationSide == [p99 : Latencies, p99_9 : Latencies, cv : Latencies, dropped : BOOLEAN]
AblationInput == [optimized : AblationSide, handicapped : AblationSide,
                  correctness_ok : BOOLEAN, same_environment : BOOLEAN]

-----------------------------------------------------------------------------
Below(v) == MapThenSumSet(LAMBDA u : occurs[u], {u \in Latencies : u < v})
AtMost(v) == Below(v) + occurs[v]
Size == MapThenSumSet(LAMBDA u : occurs[u], Latencies)
Highest == Max({u \in Latencies : occurs[u] > 0})

(* A seeded mistake: a percentile is a whole number.                       *)
WholePercent(p) == ((p \div 10) * Size) \div 100

(* p is in tenths of a percent.                                            *)
Idx(p) == (p * Size) \div 1000

(* percentile(): the element at that index, counted from zero.             *)
Percentile(p) == CHOOSE u \in Latencies : Below(u) <= Idx(p) /\ Idx(p) < AtMost(u)

(* compute_percentiles(), without the mean.                                *)
ComputePercentiles ==
  /\ occurs # NoResult
  /\ percentiles = NoResult
  /\ percentiles' =
       IF Size = 0 THEN [p50 |-> 0, p90 |-> 0, p99 |-> 0, p999 |-> 0, max |-> 0]
       ELSE [p50 |-> Percentile(500), p90 |-> Percentile(900), p99 |-> Percentile(990),
             p999 |-> Percentile(999), max |-> Highest]
  /\ UNCHANGED <<occurs, ablation, verdicts>>

-----------------------------------------------------------------------------
(* A coefficient of variation counts halves.                               *)
NoiseFloor(in) ==
  Max({in.optimized.cv, in.handicapped.cv}) * in.optimized.p99

ClearsNoiseFloor(in, delta) == 2 * delta > NoiseFloor(in)

(* A seeded mistake: the two sides of a difference the wrong way round.    *)
Worsening(handicapped, optimized) == optimized - handicapped

(* A percentile's delta: positive when the optimization helps.             *)
Improvement(handicapped, optimized) == handicapped - optimized

(* classify_ablation().                                                    *)
Classified(in) ==
  LET delta_p99 == Improvement(in.handicapped.p99, in.optimized.p99)
      delta_p99_9 == Improvement(in.handicapped.p99_9, in.optimized.p99_9)
      invalid == \/ ~in.correctness_ok \/ ~in.same_environment
                 \/ in.optimized.dropped \/ in.handicapped.dropped
  IN  IF invalid THEN "INVALID"
      ELSE IF delta_p99 < 0 /\ delta_p99_9 < 0 THEN "REGRESSION"
      ELSE IF ClearsNoiseFloor(in, delta_p99) /\ delta_p99_9 > 0 THEN "PROVEN"
      ELSE IF delta_p99 <= 0 /\ delta_p99_9 <= 0 THEN "NOT PROVEN"
      ELSE "INCONCLUSIVE"

Swapped(in) == [in EXCEPT !.optimized = in.handicapped, !.handicapped = in.optimized]

ClassifyAblation ==
  /\ ablation # NoResult
  /\ verdicts = NoResult
  /\ verdicts' = [given |-> Classified(ablation), swapped |-> Classified(Swapped(ablation))]
  /\ UNCHANGED <<occurs, percentiles, ablation>>

-----------------------------------------------------------------------------
SamplesInit ==
  /\ occurs \in [Latencies -> Counts] /\ percentiles = NoResult
  /\ ablation = NoResult /\ verdicts = NoResult

AblationInit ==
  /\ occurs = NoResult /\ percentiles = NoResult
  /\ ablation \in AblationInput /\ verdicts = NoResult

NoStats ==
  /\ occurs = NoResult /\ percentiles = NoResult
  /\ ablation = NoResult /\ verdicts = NoResult

(* Each percentile is a latency that occurs, with at most p percent of the *)
(* samples below it and more than p percent not above it -- for vectors of *)
(* a few samples and of thousands, for the tail of one sample in a         *)
(* thousand, and where p percent is a whole number of samples.             *)
PercentilesExact ==
  percentiles # NoResult /\ Size > 0 =>
    LET exact(v, p) ==
          /\ occurs[v] > 0 /\ v <= percentiles.max
          /\ 1000 * Below(v) <= p * Size
          /\ p * Size < 1000 * AtMost(v)
    IN  /\ exact(percentiles.p50, 500) /\ exact(percentiles.p90, 900)
        /\ exact(percentiles.p99, 990) /\ exact(percentiles.p999, 999)

(* The inputs that speak at least as well for the optimization: its build  *)
(* no slower, the one without it no faster, and neither of them noisier.   *)
Kinder(in) ==
  LET below(v) == {u \in Latencies : u <= v}
      above(v) == {u \in Latencies : u >= v}
      o == in.optimized
      h == in.handicapped
  IN  [optimized : [p99 : below(o.p99), p99_9 : below(o.p99_9), cv : below(o.cv),
                    dropped : {o.dropped}],
       handicapped : [p99 : above(h.p99), p99_9 : above(h.p99_9), cv : below(h.cv),
                      dropped : {h.dropped}],
       correctness_ok : {in.correctness_ok}, same_environment : {in.same_environment}]

(* The verdict is the other one or a worse one for the optimization;       *)
(* INVALID compares with none.                                             *)
NoBetter(verdict, other) ==
  CASE verdict \in {"INVALID", "PROVEN"} -> other = verdict
    [] verdict = "INCONCLUSIVE" -> other \in {"INCONCLUSIVE", "PROVEN"}
    [] verdict = "NOT PROVEN" -> other \in {"NOT PROVEN", "INCONCLUSIVE", "PROVEN"}
    [] verdict = "REGRESSION" -> other # "INVALID"

(* The verdict follows the measurements in the right direction, across     *)
(* both percentiles and a noise floor that moves with three of the inputs: *)
(* where the optimized build measures no slower, the other no faster and   *)
(* both no noisier, the verdict is no worse.  And of two builds at most    *)
(* one is ever proven faster: with the two sides swapped the comparison is *)
(* a regression, on both percentiles.                                      *)
VerdictMonotone ==
  verdicts # NoResult =>
    /\ \A kinder \in Kinder(ablation) : NoBetter(verdicts.given, Classified(kinder))
    /\ verdicts.given = "PROVEN" => verdicts.swapped = "REGRESSION"
=============================================================================
