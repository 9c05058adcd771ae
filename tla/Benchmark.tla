----------------------------- MODULE Benchmark -----------------------------
(***************************************************************************)
(* The trial loop of run_benchmark() and replay_phase() (src/benchmark.cpp)*)
(* against the matching thread.  Each trial empties book and pools, pushes *)
(* the warmup events, publishes a sample sink, pushes the measured events, *)
(* waits for as many samples as events went in, and withdraws the sink.    *)
(* The verdict gathers drops, pool failures and differing trials.          *)
(*                                                                         *)
(* An event is its index in the dataset.  Nothing in the code makes the    *)
(* producer wait for the warmup events to be matched: between the last of  *)
(* them and the sink there is only the time it takes to allocate and clear *)
(* the sample vector.  The history variable lag, which is not in the code, *)
(* keeps how many warmup events were late.                                 *)
(***************************************************************************)
EXTENDS MatchingThread

CONSTANTS
  Capacity,       \* SPSC_CAPACITY
  Warmup,         \* WARMUP_ITERATIONS
  Measured,       \* MEASURED_ITERATIONS
  Trials          \* cfg.trials

ASSUME BenchmarkAssumption ==
  /\ {Capacity, Warmup, Measured, Trials} \subseteq Nat \ {0}
  /\ Null \notin Nat
  /\ Events = 0 .. Warmup + Measured - 1

VARIABLES
  main_pc,        \* where run_benchmark is
  trial,
  i,              \* replay_phase's next event
  pushed,         \* record.timestamps_unix.size()
  dropped,        \* total_dropped_events
  pool_before,    \* the pools' exhaustion counts when the trial began
  exhausted,      \* the pool_exhaustion_delta of all trials, added up
  outcomes,       \* per finished trial, its samples
  hashes,         \* per finished trial, its state_hash
  valid,          \* overall_valid
  lag             \* the largest Backlog a sink has been published with

trialVars == <<trial, i, pushed, dropped, pool_before, exhausted, outcomes, hashes, valid>>
vars == <<matchingVars, main_pc, trialVars, lag>>

Init ==
  /\ MatchingInit
  /\ main_pc = "begin"
  /\ trial = 0 /\ i = 0 /\ pushed = 0 /\ dropped = 0
  /\ pool_before = 0 /\ exhausted = 0
  /\ outcomes = <<>> /\ hashes = <<>> /\ valid = FALSE
  /\ lag = 0

BeginTrial ==
  /\ main_pc = "begin"
  /\ trial < Trials
  /\ main_pc' = IF trial > 0 THEN "reset" ELSE "count"
  /\ UNCHANGED <<matchingVars, trialVars>>

(* book.reset() and the reset() of both pools.                             *)
ResetBook ==
  /\ main_pc = "reset"
  /\ book' = <<>>
  /\ main_pc' = "count"
  /\ UNCHANGED <<queue, exhaustion, sinkVars, stop, threadVars, trialVars>>

StartWarmup ==
  /\ main_pc = "count"
  /\ pool_before' = exhaustion
  /\ i' = 0
  /\ pushed' = 0
  /\ main_pc' = "warmup"
  /\ UNCHANGED <<matchingVars, trial, dropped, exhausted, outcomes, hashes, valid>>

(* A seeded mistake: a dropped event gets a timestamp.                     *)
StampAll(ok) == IF main_pc = "measure" THEN pushed + 1 ELSE pushed

(* The `last' of the running replay_phase, and its on_push callback.       *)
PhaseEnd == IF main_pc = "warmup" THEN Warmup ELSE Warmup + Measured
Stamped(ok) == IF ok /\ main_pc = "measure" THEN pushed + 1 ELSE pushed

Replaying == main_pc \in {"warmup", "measure"} /\ i < PhaseEnd

PushEvent ==
  /\ Replaying
  /\ Len(queue) < Capacity
  /\ queue' = Append(queue, i)
  /\ i' = i + 1
  /\ pushed' = Stamped(TRUE)
  /\ UNCHANGED <<book, exhaustion, sinkVars, stop, threadVars, main_pc, trial, dropped,
                 pool_before, exhausted, outcomes, hashes, valid>>

(* A seeded mistake: warmup drops are not added to the total.              *)
DropsMeasured == IF main_pc = "measure" THEN dropped + 1 ELSE dropped

Drops == dropped + 1

(* kBoundedPushAttempts attempts have found the queue full.                *)
DropEvent ==
  /\ Replaying
  /\ Len(queue) = Capacity
  /\ i' = i + 1
  /\ pushed' = Stamped(FALSE)
  /\ dropped' = Drops
  /\ UNCHANGED <<matchingVars, main_pc, trial, pool_before, exhausted, outcomes, hashes,
                 valid>>

(* The events the matching thread has still to work off.                   *)
Backlog ==
  IF m_pc \in {"stopped", "failed"} THEN 0
  ELSE Len(queue) + (IF m_pc \in {"work", "report", "record"} THEN 1 ELSE 0)

(* A fresh sink with room for the measured events; the second replay.      *)
PublishSink ==
  /\ main_pc = "warmup"
  /\ i = PhaseEnd
  /\ sink' = trial
  /\ sink_capacity' = Measured
  /\ samples' = <<>>
  /\ raw_samples' = trial
  /\ lag' = IF Backlog > lag THEN Backlog ELSE lag
  /\ main_pc' = "measure"
  /\ UNCHANGED <<queue, book, exhaustion, stop, threadVars, trialVars>>

EndReplay ==
  /\ main_pc = "measure"
  /\ i = PhaseEnd
  /\ main_pc' = "drain"
  /\ UNCHANGED <<matchingVars, trialVars>>

(* A seeded mistake: the last sample is not waited for.                    *)
AlmostDrained == Len(samples) + 1 >= pushed

Drained == Len(samples) >= pushed

Yield ==
  /\ main_pc = "drain"
  /\ ~Drained
  /\ UNCHANGED vars

(* A seeded mistake: the sink goes out of scope while it is published.     *)
WithdrawLate ==
  /\ main_pc = "drain"
  /\ Drained
  /\ main_pc' = "evaluate"
  /\ UNCHANGED <<matchingVars, trialVars>>

WithdrawSink ==
  /\ main_pc = "drain"
  /\ Drained
  /\ raw_samples' = Null
  /\ main_pc' = "evaluate"
  /\ UNCHANGED <<queue, book, exhaustion, sink, sink_capacity, samples, stop, threadVars,
                 trialVars>>

(* sink_storage, value-initialised where nothing was recorded.             *)
StoredAt(k) == IF k <= Len(samples) THEN samples[k] ELSE NoSample

(* compute_trial_stats; the sink and its storage go out of scope.  The     *)
(* hash sums over the samples, so that their order does not matter to it.  *)
EndTrial ==
  /\ main_pc = "evaluate"
  /\ LET taken == [k \in 1 .. pushed |-> StoredAt(k)]
     IN  /\ outcomes' = Append(outcomes, taken)
         /\ hashes' = Append(hashes, <<{taken[k] : k \in 1 .. pushed}, book>>)
  /\ exhausted' = exhausted + (exhaustion - pool_before)
  /\ sink' = Null
  /\ sink_capacity' = 0
  /\ samples' = <<>>
  /\ trial' = trial + 1
  /\ main_pc' = "begin"
  /\ UNCHANGED <<queue, book, exhaustion, raw_samples, stop, threadVars, i, pushed, dropped,
                 pool_before, valid>>

Deterministic == \A t \in 1 .. Len(hashes) : hashes[t] = hashes[1]

(* The verdict, and the destructor of the std::jthread: stop, then join.   *)
Evaluate ==
  /\ main_pc = "begin"
  /\ trial = Trials
  /\ valid' = (Deterministic /\ dropped = 0 /\ exhausted = 0)
  /\ stop' = TRUE
  /\ main_pc' = "join"
  /\ UNCHANGED <<queue, book, exhaustion, sinkVars, threadVars, trial, i, pushed, dropped,
                 pool_before, exhausted, outcomes, hashes>>

Join ==
  /\ main_pc = "join"
  /\ m_pc \in {"stopped", "failed"}
  /\ main_pc' = "done"
  /\ UNCHANGED <<matchingVars, trialVars>>

Done ==
  /\ main_pc = "done"
  /\ UNCHANGED vars

Main ==
  \/ PublishSink
  \/ /\ \/ BeginTrial \/ ResetBook \/ StartWarmup \/ PushEvent \/ DropEvent
        \/ EndReplay \/ WithdrawSink \/ EndTrial \/ Evaluate \/ Join
     /\ UNCHANGED lag

MatchingStep == Matching /\ UNCHANGED <<main_pc, trialVars, lag>>

Next == Main \/ MatchingStep \/ Yield \/ Done

(* Two threads on cores of their own, none of which blocks.                *)
Spec == Init /\ [][Next]_vars /\ WF_vars(Main) /\ WF_vars(MatchingStep)

-----------------------------------------------------------------------------
(* What OrderBook::reset() and ObjectPool::reset() ask of their caller: no *)
(* other thread is working on the book or about to (order_book.hpp:235).   *)
ResetAlone == main_pc = "reset" => MatchingIdle

(* How far the benchmark can miss that: the book is reset with no more     *)
(* events still to be matched than were late when a sink was published.    *)
(* The sample count, on which main goes, cannot lose a measured event, and *)
(* if none was ever late it is as good as waiting for an idle thread.      *)
ResetLag == main_pc = "reset" => Backlog <= lag

(* Until a warmup event is late, the matching thread never follows a       *)
(* pointer to a sink that no longer exists.                                *)
SinkOutlivesUse == lag = 0 /\ m_pc = "record" => m_sink = sink

(* A run in which no warmup event was late is called valid only if every   *)
(* trial measured exactly the measured events, in order, each against the  *)
(* book that all events before it had left, and no pool ran dry and        *)
(* nothing was dropped at any time.                                        *)
Flawless(run) ==
  run = [k \in 1 .. Measured |->
           Sample(Warmup + k - 1, [j \in 1 .. Warmup + k - 1 |-> j - 1])]

VerdictSound ==
  main_pc = "done" /\ valid /\ lag = 0 =>
    /\ Len(outcomes) = Trials
    /\ \A t \in 1 .. Trials : Flawless(outcomes[t])
    /\ dropped = 0 /\ exhaustion = 0

(* The benchmark ends: the wait for the samples is not in vain, late       *)
(* events or not, unless the matching thread gave up because it could not  *)
(* be pinned.                                                              *)
BenchmarkEnds == [](m_pc # "failed") => <>(main_pc = "done")
=============================================================================
