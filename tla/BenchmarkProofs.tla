--------------------------- MODULE BenchmarkProofs ---------------------------
(***************************************************************************)
(* Proofs about Benchmark for any capacity of the queue, any numbers of    *)
(* trials and of warmup and measured events, and any number of pool        *)
(* failures.  What holds of every run comes first; the rest is about runs  *)
(* in which no warmup event was late, lag = 0, which the code does not     *)
(* ensure and which is the premise of the properties it is proved for.     *)
(***************************************************************************)
EXTENDS Benchmark, SequenceTheorems, TLAPS

(* Main has nothing in the queue or under way; it has a sink out.          *)
Resting == {"begin", "reset", "count", "evaluate", "join", "done"}
Sampling == {"measure", "drain"}

(* The matching thread has an event it has not reported yet.               *)
Busy == IF m_pc \in {"work", "report", "record"} THEN 1 ELSE 0

(* The book met by an event when none was dropped: the events before it.   *)
Fed(n) == [j \in 1 .. n |-> j - 1]
TrueSample(e) == Sample(e, Fed(e))
AllSamples == [event : Events, book : Seq(Events)]

Types ==
  /\ queue \in Seq(Events) /\ book \in Seq(Events) /\ samples \in Seq(AllSamples)
  /\ m_pc \in {"pin", "poll", "work", "report", "record", "stopped", "failed"}
  /\ m_pc = "work" => m_order \in Events
  /\ m_pc \in {"report", "record"} => m_sample \in AllSamples
  /\ main_pc \in Resting \cup Sampling \cup {"warmup"}
  /\ trial \in 0 .. Trials /\ i \in Nat /\ pushed \in Nat /\ dropped \in Nat
  /\ exhaustion \in Nat /\ pool_before \in Nat /\ exhausted \in Nat
  /\ outcomes \in Seq(Seq(AllSamples \cup {NoSample})) /\ Len(outcomes) = trial

(* Whose turn it is: while main works on the book or evaluates a trial the *)
(* matching thread has nothing to do, and a sink is used only while it is  *)
(* out.                                                                    *)
TurnInv ==
  /\ main_pc \in Resting => MatchingIdle
  /\ main_pc \notin Sampling => raw_samples = Null /\ m_pc # "record"
  /\ main_pc \notin Sampling \cup {"evaluate"} => samples = <<>>
  /\ m_pc \in {"pin", "failed"} => samples = <<>> /\ book = <<>>
  /\ m_pc = "record" => m_sink = trial
  /\ main_pc \in Sampling => sink = trial /\ raw_samples = trial /\ sink_capacity = Measured
  /\ stop => main_pc \in {"join", "done"}
  /\ m_pc = "stopped" => stop
  /\ main_pc \in {"warmup", "reset", "count", "evaluate"} \cup Sampling => trial < Trials

(* Every event stamped is a sample, or will be one.                        *)
CountInv ==
  /\ main_pc = "warmup" => pushed = 0 /\ i <= Warmup
  /\ main_pc \in Sampling =>
       /\ Warmup <= i /\ i <= Warmup + Measured /\ pushed <= i - Warmup
       /\ m_pc # "failed" => pushed = Len(samples) + Len(queue) + Busy
  /\ main_pc = "evaluate" => i = Warmup + Measured /\ Len(samples) >= pushed
  /\ main_pc = "drain" => i = Warmup + Measured

(* What the verdict is drawn from.                                         *)
PoolsInv ==
  /\ main_pc \in {"begin", "reset", "count", "join", "done"} => exhausted = exhaustion
  /\ main_pc \in {"warmup", "evaluate"} \cup Sampling =>
       exhausted = pool_before /\ pool_before <= exhaustion

(* As long as nothing has been dropped: the events of a trial reach the    *)
(* book in order and without a gap, and the samples are those of the       *)
(* measured ones.                                                          *)
Working == IF m_pc = "work" THEN 1 ELSE 0
Reporting == IF m_pc \in {"report", "record"} THEN 1 ELSE 0

EventsInv ==
  main_pc \in {"warmup"} \cup Sampling =>
    /\ book = Fed(Len(book))
    /\ m_pc = "work" => m_order = Len(book)
    /\ \A k \in 1 .. Len(queue) : queue[k] = Len(book) + Working + k - 1
    /\ i = Len(book) + Working + Len(queue)
    /\ Reporting = 1 => Len(book) > 0 /\ m_sample = TrueSample(Len(book) - 1)

SamplesInv ==
  /\ main_pc \in Sampling \cup {"evaluate"} =>
       /\ pushed = i - Warmup
       /\ \A k \in 1 .. Len(samples) : samples[k] = TrueSample(Warmup + k - 1)
  /\ main_pc \in Sampling /\ m_pc # "failed" =>
       Len(book) = Warmup + Len(samples) + Reporting
  /\ main_pc = "evaluate" => Len(samples) = Measured

FlawlessInv ==
  dropped = 0 =>
    /\ EventsInv /\ SamplesInv
    /\ main_pc \in {"begin", "reset", "count"} => queue = <<>>
    /\ main_pc = "begin" /\ trial = 0 => book = <<>>
    /\ main_pc = "count" => book = <<>>
    /\ \A t \in 1 .. trial : Flawless(outcomes[t])

VerdictInv ==
  main_pc \in {"join", "done"} => trial = Trials /\ (valid => dropped = 0 /\ exhausted = 0)

BenchmarkInv ==
  Types /\ TurnInv /\ CountInv /\ PoolsInv /\ FlawlessInv /\ VerdictInv

(* What holds whether events were late or not: the samples and what the    *)
(* matching thread has still to work off are not more than the stamped     *)
(* events and those that were late.                                        *)
LagTypes ==
  /\ queue \in Seq(Events) /\ book \in Seq(Events) /\ samples \in Seq(AllSamples)
  /\ m_pc \in {"pin", "poll", "work", "report", "record", "stopped", "failed"}
  /\ m_pc = "work" => m_order \in Events
  /\ m_pc \in {"report", "record"} => m_sample \in AllSamples
  /\ main_pc \in Resting \cup Sampling \cup {"warmup"}
  /\ i \in Nat /\ pushed \in Nat /\ lag \in Nat

LagInv ==
  /\ LagTypes
  /\ main_pc \in Sampling => Len(samples) + Backlog <= pushed + lag
  /\ main_pc \in Resting => Backlog <= lag

-----------------------------------------------------------------------------
(* The benchmark begins with nothing to do and nothing late.               *)
LEMMA LagStart == Init => LagInv
PROOF
  <1> SUFFICES ASSUME Init PROVE LagInv
    OBVIOUS
  <1>1. Len(<<>>) = 0 /\ \A S : <<>> \in Seq(S)
    BY EmptySeq
  <1> QED BY <1>1 DEF Init, MatchingInit, LagInv, LagTypes, Backlog, Resting, Sampling

(* A step of main: an event is stamped only if it is queued, a sink is     *)
(* published with what is late counted, and withdrawn with as many samples *)
(* as stamps.                                                              *)
LEMMA LagMainStep == ASSUME LagInv, Main PROVE LagInv'
PROOF
  <1> USE DEF LagInv, Resting, Sampling
  <1>1. Len(queue) \in Nat /\ Len(samples) \in Nat /\ Backlog \in Nat
    <2>1. Len(queue) \in Nat /\ Len(samples) \in Nat
      BY LenProperties DEF LagTypes
    <2> QED BY <2>1 DEF Backlog
  <1>2. CASE PushEvent /\ UNCHANGED lag
    <2>1. /\ main_pc \in {"warmup", "measure"} /\ i \in Nat /\ i \in Events
          /\ queue' = Append(queue, i) /\ i' = i + 1
          /\ pushed' = (IF main_pc = "measure" THEN pushed + 1 ELSE pushed)
          /\ UNCHANGED <<book, samples, m_pc, m_order, m_sample, main_pc, lag>>
      BY <1>2, BenchmarkAssumption DEF PushEvent, Replaying, PhaseEnd, Stamped, LagTypes, sinkVars,
         threadVars
    <2>2. queue' \in Seq(Events) /\ Len(queue') = Len(queue) + 1
      BY <2>1, AppendProperties DEF LagTypes
    <2>3. LagTypes'
      BY <2>1, <2>2 DEF LagTypes
    <2>4. Backlog' \in {Backlog, Backlog + 1}
      BY <1>1, <2>1, <2>2 DEF Backlog
    <2> QED BY <1>1, <2>1, <2>3, <2>4 DEF LagTypes
  <1>3. CASE DropEvent /\ UNCHANGED lag
    <2>1. /\ main_pc \in {"warmup", "measure"} /\ i' = i + 1 /\ pushed' = pushed
          /\ UNCHANGED <<queue, book, samples, m_pc, m_order, m_sample, main_pc, lag>>
      BY <1>3 DEF DropEvent, Replaying, Stamped, matchingVars, sinkVars, threadVars
    <2> QED BY <2>1 DEF LagTypes, Backlog
  <1>4. CASE PublishSink
    <2>1. /\ main_pc = "warmup" /\ main_pc' = "measure" /\ samples' = <<>>
          /\ lag' = (IF Backlog > lag THEN Backlog ELSE lag)
          /\ UNCHANGED <<queue, book, m_pc, m_order, m_sample, i, pushed>>
      BY <1>4 DEF PublishSink, threadVars, trialVars
    <2>2. <<>> \in Seq(AllSamples) /\ Len(samples') = 0
      BY <2>1, EmptySeq
    <2>3. Backlog' = Backlog
      BY <2>1 DEF Backlog
    <2>4. lag' \in Nat /\ Backlog <= lag'
      BY <1>1, <2>1 DEF LagTypes
    <2>5. LagTypes'
      BY <2>1, <2>2, <2>4 DEF LagTypes
    <2> QED BY <1>1, <2>1, <2>2, <2>3, <2>4, <2>5 DEF LagTypes
  <1>5. CASE WithdrawSink /\ UNCHANGED lag
    <2>1. /\ main_pc = "drain" /\ main_pc' = "evaluate" /\ Len(samples) >= pushed
          /\ UNCHANGED <<queue, book, samples, m_pc, m_order, m_sample, i, pushed, lag>>
      BY <1>5 DEF WithdrawSink, Drained, threadVars, trialVars
    <2>2. Backlog' = Backlog /\ Backlog <= lag
      BY <1>1, <2>1 DEF Backlog, LagTypes
    <2> QED BY <2>1, <2>2 DEF LagTypes
  <1>6. CASE (BeginTrial \/ StartWarmup \/ EndReplay \/ Evaluate \/ Join) /\ UNCHANGED lag
    <2>1. /\ UNCHANGED <<queue, book, samples, m_pc, m_order, m_sample, lag>>
          /\ i' \in {i, 0} /\ pushed' \in {pushed, 0}
          /\ \/ main_pc = "measure" /\ main_pc' = "drain" /\ pushed' = pushed
             \/ main_pc \in Resting /\ main_pc' \in Resting \cup {"warmup"}
      BY <1>6 DEF BeginTrial, StartWarmup, EndReplay, Evaluate, Join, matchingVars, sinkVars,
         threadVars, trialVars
    <2> QED BY <2>1 DEF LagTypes, Backlog
  <1>7. CASE (ResetBook \/ EndTrial) /\ UNCHANGED lag
    <2>1. /\ UNCHANGED <<queue, m_pc, m_order, m_sample, i, pushed, lag>>
          /\ book' \in {book, <<>>} /\ samples' \in {samples, <<>>}
          /\ main_pc \in Resting /\ main_pc' \in Resting
      BY <1>7 DEF ResetBook, EndTrial, sinkVars, threadVars, trialVars
    <2>2. book' \in Seq(Events) /\ samples' \in Seq(AllSamples)
      BY <2>1, EmptySeq DEF LagTypes
    <2> QED BY <2>1, <2>2 DEF LagTypes, Backlog
  <1> QED BY <1>2, <1>3, <1>4, <1>5, <1>6, <1>7 DEF Main

(* A step of the matching thread: every sample it records, or drops, was   *)
(* under way before.                                                       *)
LEMMA LagMatchingStep == ASSUME LagInv, MatchingStep PROVE LagInv'
PROOF
  <1> USE DEF LagInv, Resting, Sampling
  <1>1. /\ UNCHANGED <<main_pc, i, pushed, lag>> /\ Matching
        /\ Len(queue) \in Nat /\ Len(samples) \in Nat
    BY LenProperties DEF MatchingStep, trialVars, LagTypes
  <1>2. CASE Pinned \/ PinFails \/ SeeStop \/ LoadSink
    <2>1. /\ UNCHANGED <<queue, book, samples, m_order, m_sample>>
          /\ \/ m_pc \in {"pin", "poll"} /\ m_pc' \in {"poll", "failed", "stopped"}
             \/ m_pc = "report" /\ m_pc' \in {"poll", "record"}
      BY <1>2 DEF Pinned, PinFails, SeeStop, LoadSink, sinkVars
    <2>2. Backlog \in Nat /\ Backlog' \in Nat /\ Backlog' <= Backlog
      BY <1>1, <2>1 DEF Backlog
    <2> QED BY <1>1, <2>1, <2>2 DEF LagTypes
  <1>3. CASE PopOrder
    <2>1. /\ UNCHANGED <<book, samples, m_sample>> /\ m_pc = "poll" /\ m_pc' = "work"
          /\ queue # <<>> /\ m_order' = Head(queue) /\ queue' = Tail(queue)
      BY <1>3 DEF PopOrder, sinkVars
    <2>2. Head(queue) \in Events /\ Tail(queue) \in Seq(Events) /\ Len(Tail(queue)) = Len(queue) - 1
      BY <2>1, HeadTailProperties DEF LagTypes
    <2>3. Backlog' = Backlog
      BY <1>1, <2>1, <2>2 DEF Backlog
    <2> QED BY <1>1, <2>1, <2>2, <2>3 DEF LagTypes
  <1>4. CASE ProcessOrder
    <2>1. /\ UNCHANGED <<queue, samples, m_order>> /\ m_pc = "work" /\ m_pc' = "report"
          /\ book' = Append(book, m_order) /\ m_sample' = Sample(m_order, book)
      BY <1>4 DEF ProcessOrder, sinkVars
    <2>2. book' \in Seq(Events) /\ m_sample' \in AllSamples
      BY <2>1, AppendProperties DEF LagTypes, Sample, AllSamples
    <2>3. Backlog' = Backlog
      BY <2>1 DEF Backlog
    <2> QED BY <1>1, <2>1, <2>2, <2>3 DEF LagTypes
  <1>5. CASE RecordSample
    <2>1. /\ UNCHANGED <<queue, book, m_order, m_sample>> /\ m_pc = "record" /\ m_pc' = "poll"
          /\ samples' \in {samples, Append(samples, m_sample)}
      BY <1>5 DEF RecordSample
    <2>2. samples' \in Seq(AllSamples) /\ Len(samples') <= Len(samples) + 1 /\ Len(samples') \in Nat
      <3>1. samples \in Seq(AllSamples) /\ m_sample \in AllSamples
        BY <2>1 DEF LagTypes
      <3>2. /\ Append(samples, m_sample) \in Seq(AllSamples)
            /\ Len(Append(samples, m_sample)) = Len(samples) + 1
        BY <3>1, AppendProperties
      <3> QED BY <1>1, <2>1, <3>1, <3>2
    <2>3. Backlog = Backlog' + 1 /\ Backlog' \in Nat /\ Backlog \in Nat /\ Backlog' <= Backlog
      BY <1>1, <2>1 DEF Backlog
    <2>4. LagTypes'
      BY <1>1, <2>1, <2>2 DEF LagTypes
    <2>5. main_pc \in Sampling => Len(samples') + Backlog' <= pushed + lag
      BY <1>1, <2>2, <2>3 DEF LagTypes
    <2>6. main_pc \in Resting => Backlog' <= lag
      <3>1. PICK b, c, l \in Nat : b = Backlog /\ c = Backlog' /\ l = lag /\ c <= b
        BY <2>3 DEF LagTypes
      <3>2. main_pc \in Resting => b <= l
        BY <3>1
      <3> QED BY <3>1, <3>2
    <2> QED BY <1>1, <2>4, <2>5, <2>6
  <1> QED BY <1>1, <1>2, <1>3, <1>4, <1>5 DEF Matching

(* How many events are still to be matched, in every run.                  *)
THEOREM LagInductive == Spec => []LagInv
PROOF
  <1>1. ASSUME LagInv, [Next]_vars PROVE LagInv'
    <2>1. CASE UNCHANGED vars
      <3>1. UNCHANGED <<queue, book, samples, m_pc, m_order, m_sample, main_pc, i, pushed, lag>>
        BY <2>1 DEF vars, matchingVars, sinkVars, threadVars, trialVars
      <3>2. Backlog' = Backlog /\ LagTypes'
        BY <1>1, <3>1 DEF Backlog, LagInv, LagTypes
      <3> QED BY <1>1, <3>1, <3>2 DEF LagInv
    <2> QED BY <1>1, <2>1, LagMainStep, LagMatchingStep DEF Next, Yield, Done
  <1> QED BY LagStart, <1>1, PTL DEF Spec

(* In every run, late events or not, no more events meet a reset than were *)
(* late when a sink was published.                                         *)
THEOREM ResetLagBounded == Spec => []ResetLag
PROOF
  <1>1. LagInv => ResetLag
    BY DEF LagInv, ResetLag, Resting
  <1> QED BY <1>1, LagInductive, PTL

-----------------------------------------------------------------------------
(* The events before the n-th.                                             *)
LEMMA FedIs ==
  ASSUME NEW n \in Nat
  PROVE  /\ Fed(n) \in Seq(Int) /\ Len(Fed(n)) = n
         /\ \A b \in Seq(Events) : b = Fed(n) => Append(b, n) = Fed(n + 1)
PROOF
  <1>1. Fed(n) \in Seq(Int) /\ Len(Fed(n)) = n
    <2>1. \A j \in 1 .. n : j - 1 \in Int
      OBVIOUS
    <2>2. Fed(n) \in Seq(Int)
      BY <2>1, IsASeq DEF Fed
    <2>3. DOMAIN Fed(n) = 1 .. n
      BY DEF Fed
    <2> QED BY <2>2, <2>3, LenProperties
  <1>2. ASSUME NEW b \in Seq(Events), b = Fed(n) PROVE Append(b, n) = Fed(n + 1)
    <2>1. /\ Append(Fed(n), n) \in Seq(Int) /\ Len(Append(Fed(n), n)) = Len(Fed(n)) + 1
          /\ \A j \in 1 .. Len(Fed(n)) : Append(Fed(n), n)[j] = Fed(n)[j]
          /\ Append(Fed(n), n)[Len(Fed(n)) + 1] = n
      BY <1>1, AppendProperties
    <2>2. DOMAIN Append(Fed(n), n) = 1 .. n + 1
      BY <1>1, <2>1, LenProperties
    <2>3. \A j \in 1 .. n + 1 : Append(Fed(n), n)[j] = j - 1
      <3>1. \A j \in 1 .. n : Fed(n)[j] = j - 1
        BY DEF Fed
      <3>2. \A j \in 1 .. n + 1 : j \in 1 .. n \/ j = n + 1
        OBVIOUS
      <3> QED BY <1>1, <2>1, <3>1, <3>2
    <2>4. Append(Fed(n), n) = [j \in 1 .. n + 1 |-> Append(Fed(n), n)[j]]
      <3>1. Append(Fed(n), n) \in [1 .. n + 1 -> Int]
        BY <1>1, <2>1, LenProperties
      <3> QED BY <3>1
    <2>5. [j \in 1 .. n + 1 |-> Append(Fed(n), n)[j]] = Fed(n + 1)
      BY <2>3 DEF Fed
    <2> QED BY <1>2, <2>4, <2>5
  <1> QED BY <1>1, <1>2

(* Nothing has happened before the first event.                            *)
LEMMA FedNothing == Fed(0) = <<>>
PROOF
  BY DEF Fed

(* What MatchingIdle says of a thread that has not been stopped.           *)
LEMMA IdleIs ==
  ASSUME Types, TurnInv, MatchingIdle, m_pc # "failed", ~stop
  PROVE  queue = <<>> /\ Len(queue) = 0 /\ m_pc \in {"pin", "poll"} /\ Busy = 0 /\ Working = 0
           /\ Reporting = 0
PROOF
  <1>1. queue = <<>> /\ m_pc \in {"pin", "poll"}
    BY DEF TurnInv, MatchingIdle
  <1>2. Len(<<>>) = 0
    BY EmptySeq
  <1> QED BY <1>1, <1>2 DEF Busy, Working, Reporting

(* A benchmark that has just begun.                                        *)
LEMMA BenchmarkStart == Init => BenchmarkInv
PROOF
  <1> SUFFICES ASSUME Init PROVE BenchmarkInv
    OBVIOUS
  <1> USE DEF Init, MatchingInit
  <1>1. Len(<<>>) = 0 /\ \A S : <<>> \in Seq(S)
    BY EmptySeq
  <1>2. Types
    BY <1>1, BenchmarkAssumption DEF Types, Resting
  <1>3. TurnInv /\ CountInv /\ PoolsInv /\ VerdictInv
    BY DEF TurnInv, CountInv, PoolsInv, VerdictInv, Resting, Sampling, MatchingIdle
  <1>4. FlawlessInv
    BY DEF FlawlessInv, EventsInv, SamplesInv, Sampling
  <1> QED BY <1>2, <1>3, <1>4 DEF BenchmarkInv

(* The steps of main between two trials.                                   *)
LEMMA BeginTrialStep == ASSUME BenchmarkInv, BeginTrial PROVE BenchmarkInv'
PROOF
  <1> USE DEF BenchmarkInv, BeginTrial, matchingVars, sinkVars, threadVars, trialVars, Resting, Sampling
  <1>1. Types'
    BY DEF Types
  <1>2. TurnInv'
    BY DEF TurnInv, MatchingIdle, Types
  <1>3. CountInv' /\ PoolsInv' /\ VerdictInv'
    BY DEF CountInv, PoolsInv, VerdictInv
  <1>4. FlawlessInv'
    BY DEF FlawlessInv, EventsInv, SamplesInv, Types
  <1> QED BY <1>1, <1>2, <1>3, <1>4

(* The book is emptied while the matching thread has nothing to do with    *)
(* it.                                                                     *)
LEMMA ResetBookStep == ASSUME BenchmarkInv, ResetBook PROVE BenchmarkInv'
PROOF
  <1> USE DEF BenchmarkInv, ResetBook, sinkVars, threadVars, trialVars, Resting, Sampling
  <1>1. Types'
    BY EmptySeq DEF Types
  <1>2. TurnInv'
    BY DEF TurnInv, MatchingIdle
  <1>3. CountInv' /\ PoolsInv' /\ VerdictInv'
    BY DEF CountInv, PoolsInv, VerdictInv
  <1>4. FlawlessInv'
    BY DEF FlawlessInv, EventsInv, SamplesInv
  <1> QED BY <1>1, <1>2, <1>3, <1>4

(* The warmup begins with an empty book, and, unless something has been    *)
(* dropped before, an empty queue.                                         *)
LEMMA StartWarmupStep == ASSUME BenchmarkInv, StartWarmup PROVE BenchmarkInv'
PROOF
  <1> USE DEF BenchmarkInv, StartWarmup, matchingVars, sinkVars, threadVars, Resting, Sampling
  <1>1. Types'
    BY DEF Types
  <1>2. TurnInv'
    BY DEF TurnInv, MatchingIdle
  <1>3. CountInv'
    BY BenchmarkAssumption DEF CountInv
  <1>4. PoolsInv' /\ VerdictInv'
    BY DEF PoolsInv, VerdictInv, Types
  <1>5. ASSUME dropped = 0 PROVE EventsInv'
    <2>1. book' = <<>> /\ queue' = <<>>
      BY <1>5 DEF FlawlessInv
    <2>2. Len(book') = 0 /\ Len(queue') = 0
      BY <2>1, EmptySeq
    <2>3. Working' = 0 /\ Reporting' = 0
      BY DEF TurnInv, MatchingIdle, Working, Reporting
    <2>4. book' = Fed(Len(book'))
      BY <2>1, <2>2, FedNothing
    <2>5. \A k \in 1 .. Len(queue') : FALSE
      BY <2>2
    <2>6. m_pc' # "work"
      BY DEF TurnInv, MatchingIdle
    <2> QED BY <2>2, <2>3, <2>4, <2>5, <2>6 DEF EventsInv
  <1>6. FlawlessInv'
    BY <1>5 DEF FlawlessInv, SamplesInv
  <1> QED BY <1>1, <1>2, <1>3, <1>4, <1>6

(* replay_phase pushes an event, or drops it.                              *)
LEMMA PushEventStep == ASSUME BenchmarkInv, PushEvent PROVE BenchmarkInv'
PROOF
  <1> USE DEF BenchmarkInv, sinkVars, threadVars, Resting, Sampling
  <1>1. /\ main_pc \in {"warmup", "measure"} /\ i \in Nat /\ pushed \in Nat /\ i \in Events
        /\ queue \in Seq(Events)
        /\ main_pc = "warmup" => i < Warmup
        /\ main_pc = "measure" => i < Warmup + Measured
    BY BenchmarkAssumption DEF PushEvent, Replaying, PhaseEnd, Types
  <1>2. /\ queue' = Append(queue, i) /\ i' = i + 1
        /\ pushed' = (IF main_pc = "measure" THEN pushed + 1 ELSE pushed)
        /\ UNCHANGED <<book, exhaustion, raw_samples, sink, sink_capacity, samples, stop, m_pc,
                       m_order, m_sample, m_sink, main_pc, trial, dropped, pool_before,
                       exhausted, outcomes, hashes, valid>>
    BY DEF PushEvent, Stamped
  <1>3. /\ queue' \in Seq(Events) /\ Len(queue') = Len(queue) + 1 /\ Len(queue) \in Nat
        /\ \A k \in 1 .. Len(queue) : queue'[k] = queue[k]
        /\ queue'[Len(queue) + 1] = i
    BY <1>1, <1>2, AppendProperties, LenProperties
  <1>4. Types'
    BY <1>1, <1>2, <1>3 DEF Types
  <1>5. TurnInv'
    BY <1>1, <1>2 DEF TurnInv
  <1>6. CountInv'
    <2>1. Len(samples) \in Nat /\ Busy \in Nat /\ Busy' = Busy
      BY <1>2, LenProperties DEF Types, Busy
    <2>2. Warmup \in Nat /\ Measured \in Nat
      BY BenchmarkAssumption
    <2>3. CASE main_pc = "warmup"
      BY <1>1, <1>2, <2>2, <2>3 DEF CountInv
    <2>4. CASE main_pc = "measure"
      <3>1. /\ Warmup <= i /\ i < Warmup + Measured /\ pushed <= i - Warmup
            /\ m_pc # "failed" => pushed = Len(samples) + Len(queue) + Busy
        BY <1>1, <2>4 DEF CountInv
      <3>2. m_pc' # "failed" => pushed' = Len(samples') + Len(queue') + Busy'
        BY <1>1, <1>2, <1>3, <2>1, <2>4, <3>1
      <3>3. Warmup <= i' /\ i' <= Warmup + Measured /\ pushed' <= i' - Warmup
        BY <1>1, <1>2, <2>2, <2>4, <3>1
      <3> QED BY <1>2, <2>4, <3>2, <3>3 DEF CountInv
    <2> QED BY <1>1, <2>3, <2>4
  <1>7. PoolsInv' /\ VerdictInv'
    BY <1>1, <1>2 DEF PoolsInv, VerdictInv
  <1>8. ASSUME dropped = 0 PROVE EventsInv'
    <2>1. /\ book = Fed(Len(book)) /\ (m_pc = "work" => m_order = Len(book))
          /\ \A k \in 1 .. Len(queue) : queue[k] = Len(book) + Working + k - 1
          /\ i = Len(book) + Working + Len(queue)
          /\ Reporting = 1 => Len(book) > 0 /\ m_sample = TrueSample(Len(book) - 1)
      BY <1>1, <1>8 DEF FlawlessInv, EventsInv
    <2>2. Working' = Working /\ Reporting' = Reporting /\ Len(book) \in Nat /\ Working \in Nat
      BY <1>2, LenProperties DEF Working, Reporting, Types
    <2>3. \A k \in 1 .. Len(queue) + 1 : k \in 1 .. Len(queue) \/ k = Len(queue) + 1
      BY <1>3
    <2>4. \A k \in 1 .. Len(queue') : queue'[k] = Len(book) + Working + k - 1
      BY <1>3, <2>1, <2>2, <2>3
    <2>5. i' = Len(book) + Working + Len(queue')
      BY <1>2, <1>3, <2>1, <2>2
    <2> QED BY <1>2, <2>1, <2>2, <2>4, <2>5 DEF EventsInv
  <1>9. ASSUME dropped = 0 PROVE SamplesInv'
    <2>1. Reporting' = Reporting
      BY <1>2 DEF Reporting
    <2>2. main_pc = "measure" => pushed' = i' - Warmup
      BY <1>1, <1>2, <1>9, BenchmarkAssumption DEF FlawlessInv, SamplesInv
    <2> QED BY <1>1, <1>2, <1>9, <2>1, <2>2 DEF FlawlessInv, SamplesInv
  <1>10. FlawlessInv'
    BY <1>1, <1>2, <1>8, <1>9 DEF FlawlessInv
  <1> QED BY <1>4, <1>5, <1>6, <1>7, <1>10

(* A dropped event gets no timestamp, and the total is no longer 0.        *)
LEMMA DropEventStep == ASSUME BenchmarkInv, DropEvent PROVE BenchmarkInv'
PROOF
  <1> USE DEF BenchmarkInv, Resting, Sampling
  <1>1. /\ main_pc \in {"warmup", "measure"} /\ i \in Nat /\ pushed \in Nat /\ dropped \in Nat
        /\ main_pc = "warmup" => i < Warmup
        /\ main_pc = "measure" => i < Warmup + Measured
    BY DEF DropEvent, Replaying, PhaseEnd, Types
  <1>2. /\ i' = i + 1 /\ pushed' = pushed /\ dropped' = dropped + 1
        /\ UNCHANGED <<matchingVars, main_pc, trial, pool_before, exhausted, outcomes, hashes,
                       valid>>
    BY DEF DropEvent, Stamped, Drops
  <1>3. UNCHANGED <<queue, book, exhaustion, raw_samples, sink, sink_capacity, samples, stop, m_pc,
                    m_order, m_sample, m_sink>>
    BY <1>2 DEF matchingVars, sinkVars, threadVars
  <1>4. Types'
    BY <1>1, <1>2, <1>3 DEF Types
  <1>5. TurnInv'
    BY <1>1, <1>2, <1>3 DEF TurnInv
  <1>6. CountInv'
    BY <1>1, <1>2, <1>3, BenchmarkAssumption DEF CountInv, Busy
  <1>7. PoolsInv' /\ VerdictInv'
    BY <1>1, <1>2, <1>3 DEF PoolsInv, VerdictInv
  <1>8. FlawlessInv'
    BY <1>1, <1>2 DEF FlawlessInv
  <1> QED BY <1>4, <1>5, <1>6, <1>7, <1>8

(* The sink goes out to a thread that has caught up: from here on every    *)
(* sample is that of a measured event.                                     *)
LEMMA PublishSinkStep ==
  ASSUME BenchmarkInv, MatchingIdle, PublishSink PROVE BenchmarkInv'
PROOF
  <1> USE DEF BenchmarkInv, Resting, Sampling
  <1>1. /\ main_pc = "warmup" /\ main_pc' = "measure" /\ i = Warmup /\ MatchingIdle
        /\ sink' = trial /\ sink_capacity' = Measured /\ samples' = <<>> /\ raw_samples' = trial
        /\ UNCHANGED <<queue, book, exhaustion, stop, threadVars, trialVars>>
    BY DEF PublishSink, PhaseEnd
  <1>2. UNCHANGED <<m_pc, m_order, m_sample, m_sink, trial, i, pushed, dropped, pool_before,
                    exhausted, outcomes, hashes, valid>>
    BY <1>1 DEF threadVars, trialVars
  <1>3. <<>> \in Seq(AllSamples) /\ Len(samples') = 0
    BY <1>1, EmptySeq
  <1>4. Types'
    BY <1>1, <1>2, <1>3 DEF Types
  <1>5. TurnInv' /\ m_pc # "record" /\ ~stop
    BY <1>1, <1>2 DEF TurnInv
  <1>6. /\ m_pc # "failed" => Len(queue) = 0 /\ Busy = 0 /\ Working = 0 /\ Reporting = 0
        /\ Busy' = Busy /\ Working' = Working /\ Reporting' = Reporting
    BY <1>1, <1>2, <1>5, IdleIs DEF Busy, Working, Reporting
  <1>7. Warmup \in Nat /\ Measured \in Nat /\ pushed = 0
    BY <1>1, BenchmarkAssumption DEF CountInv
  <1>8. CountInv'
    BY <1>1, <1>2, <1>3, <1>6, <1>7 DEF CountInv
  <1>9. PoolsInv' /\ VerdictInv'
    BY <1>1, <1>2 DEF PoolsInv, VerdictInv
  <1>10. ASSUME dropped = 0 PROVE EventsInv'
    BY <1>1, <1>2, <1>6, <1>10 DEF FlawlessInv, EventsInv
  <1>11. ASSUME dropped = 0 PROVE SamplesInv'
    <2>1. m_pc # "failed" => Len(book) = Warmup
      <3>1. i = Len(book) + Working + Len(queue) /\ Len(book) \in Nat
        BY <1>1, <1>11, LenProperties DEF FlawlessInv, EventsInv, Types
      <3> QED BY <1>1, <1>6, <1>7, <3>1
    <2>2. \A k \in 1 .. Len(samples') : FALSE
      BY <1>3
    <2>3. m_pc' # "failed" => Len(book') = Warmup + Len(samples') + Reporting'
      BY <1>1, <1>2, <1>3, <1>6, <1>7, <2>1
    <2>4. pushed' = i' - Warmup
      BY <1>1, <1>2, <1>7
    <2> QED BY <1>1, <2>2, <2>3, <2>4 DEF SamplesInv
  <1>12. FlawlessInv'
    BY <1>1, <1>2, <1>10, <1>11 DEF FlawlessInv
  <1> QED BY <1>4, <1>5, <1>8, <1>9, <1>12

(* The last event of the second replay is in the queue, or dropped.        *)
LEMMA EndReplayStep == ASSUME BenchmarkInv, EndReplay PROVE BenchmarkInv'
PROOF
  <1> USE DEF BenchmarkInv, Resting, Sampling
  <1>1. /\ main_pc = "measure" /\ main_pc' = "drain" /\ i = Warmup + Measured
        /\ UNCHANGED <<matchingVars, trialVars>>
    BY DEF EndReplay, PhaseEnd
  <1> USE DEF matchingVars, sinkVars, threadVars, trialVars
  <1>2. Types'
    BY <1>1 DEF Types
  <1>3. TurnInv'
    BY <1>1 DEF TurnInv
  <1>4. CountInv'
    BY <1>1 DEF CountInv, Busy
  <1>5. PoolsInv' /\ VerdictInv'
    BY <1>1 DEF PoolsInv, VerdictInv
  <1>6. ASSUME dropped = 0 PROVE EventsInv' /\ SamplesInv'
    BY <1>1, <1>6 DEF FlawlessInv, EventsInv, SamplesInv, Working, Reporting
  <1>7. FlawlessInv'
    BY <1>1, <1>6 DEF FlawlessInv
  <1> QED BY <1>2, <1>3, <1>4, <1>5, <1>7

(* With as many samples as events stamped, nothing is left under way.      *)
LEMMA WithdrawSinkStep == ASSUME BenchmarkInv, WithdrawSink PROVE BenchmarkInv'
PROOF
  <1> USE DEF BenchmarkInv, Resting, Sampling
  <1>1. /\ main_pc = "drain" /\ main_pc' = "evaluate" /\ Len(samples) >= pushed
        /\ raw_samples' = Null
        /\ UNCHANGED <<queue, book, exhaustion, sink, sink_capacity, samples, stop, threadVars,
                       trialVars>>
    BY DEF WithdrawSink, Drained
  <1>2. UNCHANGED <<m_pc, m_order, m_sample, m_sink, trial, i, pushed, dropped, pool_before,
                    exhausted, outcomes, hashes, valid>>
    BY <1>1 DEF threadVars, trialVars
  <1>3. Len(samples) \in Nat /\ Len(queue) \in Nat /\ Busy \in {0, 1} /\ pushed \in Nat
    BY LenProperties DEF Types, Busy
  <1>4. m_pc # "failed" => Len(queue) = 0 /\ Busy = 0 /\ pushed = Len(samples)
    BY <1>1, <1>3 DEF CountInv
  <1>5. MatchingIdle
    <2>1. m_pc # "failed" => queue = <<>>
      BY <1>3, <1>4, EmptySeq DEF Types
    <2>2. m_pc # "failed" => m_pc \in {"pin", "poll", "stopped"}
      BY <1>4 DEF Busy, Types
    <2> QED BY <2>1, <2>2 DEF MatchingIdle
  <1>6. Types'
    BY <1>1, <1>2 DEF Types
  <1>7. TurnInv'
    <2>1. m_pc # "record"
      BY <1>5 DEF MatchingIdle
    <2>2. MatchingIdle'
      BY <1>1, <1>2, <1>5 DEF MatchingIdle
    <2> QED BY <1>1, <1>2, <2>1, <2>2 DEF TurnInv
  <1>8. CountInv'
    BY <1>1, <1>2 DEF CountInv
  <1>9. PoolsInv' /\ VerdictInv'
    BY <1>1, <1>2 DEF PoolsInv, VerdictInv
  <1>10. ASSUME dropped = 0 PROVE Len(samples) = Measured
    <2>1. Warmup \in Nat /\ Measured \in Nat /\ Measured > 0
      BY BenchmarkAssumption
    <2>2. pushed = i - Warmup /\ i = Warmup + Measured
      BY <1>1, <1>10 DEF FlawlessInv, SamplesInv, CountInv
    <2>3. m_pc = "failed" => Len(samples) = 0
      BY EmptySeq DEF TurnInv
    <2> QED BY <1>1, <1>4, <2>1, <2>2, <2>3
  <1>11. FlawlessInv'
    <2>1. ASSUME dropped = 0 PROVE EventsInv' /\ SamplesInv'
      BY <1>1, <1>2, <1>10, <2>1 DEF FlawlessInv, EventsInv, SamplesInv
    <2> QED BY <1>1, <1>2, <2>1 DEF FlawlessInv
  <1> QED BY <1>6, <1>7, <1>8, <1>9, <1>11

(* A trial's samples are taken down, and its share of pool failures added. *)
LEMMA EndTrialStep == ASSUME BenchmarkInv, EndTrial PROVE BenchmarkInv'
PROOF
  <1> USE DEF BenchmarkInv, Resting, Sampling
  <1> DEFINE taken == [k \in 1 .. pushed |-> StoredAt(k)]
  <1>1. /\ main_pc = "evaluate" /\ main_pc' = "begin"
        /\ outcomes' = Append(outcomes, taken)
        /\ exhausted' = exhausted + (exhaustion - pool_before)
        /\ samples' = <<>> /\ trial' = trial + 1
        /\ UNCHANGED <<queue, book, exhaustion, raw_samples, stop, i, pushed, dropped,
                       pool_before, valid>>
        /\ UNCHANGED <<m_pc, m_order, m_sample, m_sink>>
    BY DEF EndTrial, threadVars
  <1>2. /\ pushed \in Nat /\ trial \in Nat /\ trial < Trials /\ samples \in Seq(AllSamples)
        /\ outcomes \in Seq(Seq(AllSamples \cup {NoSample})) /\ Len(outcomes) = trial
        /\ exhaustion \in Nat /\ exhausted = pool_before /\ pool_before \in Nat
        /\ Trials \in Nat
    BY <1>1, BenchmarkAssumption DEF Types, TurnInv, PoolsInv
  <1>3. taken \in Seq(AllSamples \cup {NoSample})
    <2>1. \A k \in 1 .. pushed : StoredAt(k) \in AllSamples \cup {NoSample}
      <3> SUFFICES ASSUME NEW k \in 1 .. pushed PROVE StoredAt(k) \in AllSamples \cup {NoSample}
        OBVIOUS
      <3>1. Len(samples) \in Nat
        BY <1>2, LenProperties
      <3>2. CASE k <= Len(samples)
        <4>1. k \in 1 .. Len(samples)
          BY <1>2, <3>1, <3>2
        <4>2. samples[k] \in AllSamples
          BY <1>2, <4>1, ElementOfSeq
        <4> QED BY <3>2, <4>2 DEF StoredAt
      <3>3. CASE ~(k <= Len(samples))
        BY <3>3 DEF StoredAt
      <3> QED BY <3>2, <3>3
    <2> QED BY <1>2, <2>1, IsASeq
  <1>4. ASSUME dropped = 0 PROVE Flawless(taken)
    <2>1. /\ pushed = i - Warmup /\ i = Warmup + Measured /\ Len(samples) = Measured
          /\ \A k \in 1 .. Len(samples) : samples[k] = TrueSample(Warmup + k - 1)
      BY <1>1, <1>4 DEF FlawlessInv, SamplesInv, CountInv
    <2>2. Warmup \in Nat /\ Measured \in Nat
      BY BenchmarkAssumption
    <2>3. pushed = Measured
      BY <2>1, <2>2
    <2>4. \A k \in 1 .. Measured : k <= Len(samples) /\ samples[k] = TrueSample(Warmup + k - 1)
      BY <2>1, <2>2
    <2>5. \A k \in 1 .. Measured : StoredAt(k) = TrueSample(Warmup + k - 1)
      BY <2>4 DEF StoredAt
    <2>6. taken = [k \in 1 .. Measured |-> TrueSample(Warmup + k - 1)]
      BY <2>3, <2>5
    <2> QED BY <2>6 DEF Flawless, TrueSample, Fed
  <1> HIDE DEF taken
  <1>5. /\ outcomes' \in Seq(Seq(AllSamples \cup {NoSample})) /\ Len(outcomes') = trial'
        /\ \A t \in 1 .. trial : outcomes'[t] = outcomes[t]
        /\ outcomes'[trial + 1] = taken
    <2> DEFINE Outcomes == Seq(AllSamples \cup {NoSample})
    <2>1. outcomes \in Seq(Outcomes) /\ taken \in Outcomes
      BY <1>2, <1>3
    <2> HIDE DEF Outcomes
    <2>2. /\ Append(outcomes, taken) \in Seq(Outcomes)
          /\ Len(Append(outcomes, taken)) = Len(outcomes) + 1
          /\ \A t \in 1 .. Len(outcomes) : Append(outcomes, taken)[t] = outcomes[t]
          /\ Append(outcomes, taken)[Len(outcomes) + 1] = taken
      BY <2>1, AppendProperties
    <2> QED BY <1>1, <1>2, <2>2 DEF Outcomes
  <1>6. <<>> \in Seq(AllSamples)
    BY EmptySeq
  <1>7. exhausted' = exhaustion
    BY <1>1, <1>2
  <1>8. trial' \in 0 .. Trials /\ exhausted' \in Nat
    BY <1>1, <1>2, <1>7
  <1>9. Types'
    BY <1>1, <1>5, <1>6, <1>8 DEF Types
  <1>10. TurnInv'
    BY <1>1 DEF TurnInv, MatchingIdle
  <1>11. CountInv' /\ PoolsInv' /\ VerdictInv'
    BY <1>1, <1>7 DEF CountInv, PoolsInv, VerdictInv
  <1>12. ASSUME dropped = 0 PROVE queue = <<>>
    <2>1. Len(samples) = Measured /\ Measured \in Nat \ {0}
      BY <1>1, <1>12, BenchmarkAssumption DEF FlawlessInv, SamplesInv
    <2>2. m_pc # "failed"
      BY <2>1, EmptySeq DEF TurnInv
    <2> QED BY <1>1, <2>2, IdleIs DEF TurnInv
  <1>13. ASSUME dropped = 0 PROVE \A t \in 1 .. trial' : Flawless(outcomes'[t])
    <2>1. \A t \in 1 .. trial' : t \in 1 .. trial \/ t = trial + 1
      BY <1>1, <1>2
    <2>2. \A t \in 1 .. trial : Flawless(outcomes[t])
      BY <1>13 DEF FlawlessInv
    <2> QED BY <1>4, <1>5, <1>13, <2>1, <2>2
  <1>14. trial' # 0
    BY <1>1, <1>2
  <1>15. EventsInv' /\ SamplesInv'
    BY <1>1 DEF EventsInv, SamplesInv
  <1>16. FlawlessInv'
    BY <1>1, <1>12, <1>13, <1>14, <1>15 DEF FlawlessInv
  <1> QED BY <1>9, <1>10, <1>11, <1>16

(* The verdict is drawn when the last trial is over; the thread is joined. *)
LEMMA EvaluateStep == ASSUME BenchmarkInv, Evaluate \/ Join PROVE BenchmarkInv'
PROOF
  <1> USE DEF BenchmarkInv, Resting, Sampling, Evaluate, Join, matchingVars, sinkVars, threadVars, trialVars
  <1>1. Types'
    BY DEF Types
  <1>2. TurnInv'
    BY DEF TurnInv, MatchingIdle
  <1>3. CountInv' /\ PoolsInv'
    BY DEF CountInv, PoolsInv
  <1>4. VerdictInv'
    <2>1. CASE Evaluate
      BY <2>1 DEF VerdictInv
    <2>2. CASE Join
      BY <2>2 DEF VerdictInv
    <2> QED BY <2>1, <2>2
  <1>5. FlawlessInv'
    BY DEF FlawlessInv, EventsInv, SamplesInv
  <1> QED BY <1>1, <1>2, <1>3, <1>4, <1>5

(* The matching thread before its first and after its last event.          *)
LEMMA PinOrStopStep ==
  ASSUME BenchmarkInv, Pinned \/ PinFails \/ SeeStop, UNCHANGED <<main_pc, trialVars>>
  PROVE  BenchmarkInv'
PROOF
  <1> USE DEF BenchmarkInv, Resting, Sampling
  <1>1. /\ UNCHANGED <<queue, book, exhaustion, raw_samples, sink, sink_capacity, samples, stop>>
        /\ UNCHANGED <<m_order, m_sample, m_sink>>
        /\ UNCHANGED <<main_pc, trial, i, pushed, dropped, pool_before, exhausted, outcomes,
                       hashes, valid>>
        /\ \/ m_pc = "pin" /\ m_pc' \in {"poll", "failed"}
           \/ m_pc = "poll" /\ m_pc' = "stopped" /\ stop
    BY DEF Pinned, PinFails, SeeStop, sinkVars, trialVars
  <1>2. Types'
    BY <1>1 DEF Types
  <1>3. TurnInv'
    BY <1>1 DEF TurnInv, MatchingIdle
  <1>4. CountInv'
    BY <1>1 DEF CountInv, Busy
  <1>5. PoolsInv' /\ VerdictInv'
    BY <1>1 DEF PoolsInv, VerdictInv
  <1>6. ASSUME dropped = 0 PROVE EventsInv' /\ SamplesInv'
    BY <1>1, <1>6 DEF FlawlessInv, EventsInv, SamplesInv, Working, Reporting
  <1>7. FlawlessInv'
    BY <1>1, <1>6 DEF FlawlessInv
  <1> QED BY <1>2, <1>3, <1>4, <1>5, <1>7

(* It pops the event that is next for the book.                            *)
LEMMA PopOrderStep ==
  ASSUME BenchmarkInv, PopOrder, UNCHANGED <<main_pc, trialVars>> PROVE BenchmarkInv'
PROOF
  <1> USE DEF BenchmarkInv, Resting, Sampling
  <1>1. /\ UNCHANGED <<book, exhaustion, raw_samples, sink, sink_capacity, samples, stop>>
        /\ UNCHANGED <<m_sample, m_sink>>
        /\ UNCHANGED <<main_pc, trial, i, pushed, dropped, pool_before, exhausted, outcomes,
                       hashes, valid>>
        /\ m_pc = "poll" /\ m_pc' = "work" /\ queue # <<>>
        /\ m_order' = Head(queue) /\ queue' = Tail(queue)
    BY DEF PopOrder, sinkVars, trialVars
  <1>2. /\ queue \in Seq(Events) /\ Head(queue) \in Events /\ Tail(queue) \in Seq(Events)
        /\ Len(Tail(queue)) = Len(queue) - 1 /\ Len(queue) \in Nat \ {0}
        /\ Head(queue) = queue[1]
        /\ \A k \in 1 .. Len(Tail(queue)) : Tail(queue)[k] = queue[k + 1]
    BY <1>1, HeadTailProperties, EmptySeq DEF Types
  <1>3. main_pc \in {"warmup"} \cup Sampling
    BY <1>1 DEF Types, TurnInv, MatchingIdle
  <1>4. Types'
    BY <1>1, <1>2 DEF Types
  <1>5. TurnInv'
    BY <1>1, <1>3 DEF TurnInv
  <1>6. CountInv'
    <2>1. Busy = 0 /\ Busy' = 1 /\ Len(samples) \in Nat
      BY <1>1, LenProperties DEF Busy, Types
    <2>2. main_pc \in Sampling => pushed' = Len(samples') + Len(queue') + Busy'
      BY <1>1, <1>2, <2>1 DEF CountInv
    <2> QED BY <1>1, <1>3, <2>2 DEF CountInv
  <1>7. PoolsInv' /\ VerdictInv'
    BY <1>1 DEF PoolsInv, VerdictInv
  <1>8. ASSUME dropped = 0 PROVE EventsInv'
    <2>1. /\ book = Fed(Len(book))
          /\ \A k \in 1 .. Len(queue) : queue[k] = Len(book) + Working + k - 1
          /\ i = Len(book) + Working + Len(queue)
      BY <1>3, <1>8 DEF FlawlessInv, EventsInv
    <2>2. Working = 0 /\ Working' = 1 /\ Reporting' = 0 /\ Len(book) \in Nat
      BY <1>1, LenProperties DEF Working, Reporting, Types
    <2>3. Head(queue) = Len(book)
      BY <1>2, <2>1, <2>2
    <2>4. \A k \in 1 .. Len(Tail(queue)) : Tail(queue)[k] = Len(book) + 1 + k - 1
      <3>1. \A k \in 1 .. Len(Tail(queue)) : k + 1 \in 1 .. Len(queue)
        BY <1>2
      <3>2. \A k \in 1 .. Len(Tail(queue)) : queue[k + 1] = Len(book) + 0 + (k + 1) - 1
        BY <2>1, <2>2, <3>1
      <3> QED BY <1>2, <2>2, <3>2
    <2>5. i = Len(book) + 1 + Len(Tail(queue))
      BY <1>2, <2>1, <2>2
    <2> QED BY <1>1, <2>1, <2>2, <2>3, <2>4, <2>5 DEF EventsInv
  <1>9. ASSUME dropped = 0 PROVE SamplesInv'
    <2>1. Reporting' = Reporting
      BY <1>1 DEF Reporting
    <2> QED BY <1>1, <1>3, <1>9, <2>1 DEF FlawlessInv, SamplesInv
  <1>10. FlawlessInv'
    BY <1>1, <1>3, <1>8, <1>9 DEF FlawlessInv
  <1> QED BY <1>4, <1>5, <1>6, <1>7, <1>10

(* It applies it; the sample says which book it met.                       *)
LEMMA ProcessOrderStep ==
  ASSUME BenchmarkInv, ProcessOrder, UNCHANGED <<main_pc, trialVars>> PROVE BenchmarkInv'
PROOF
  <1> USE DEF BenchmarkInv, Resting, Sampling
  <1>1. /\ UNCHANGED <<queue, raw_samples, sink, sink_capacity, samples, stop, m_order, m_sink>>
        /\ UNCHANGED <<main_pc, trial, i, pushed, dropped, pool_before, exhausted, outcomes,
                       hashes, valid>>
        /\ m_pc = "work" /\ m_pc' = "report"
        /\ book' = Append(book, m_order) /\ m_sample' = Sample(m_order, book)
        /\ exhaustion' \in {exhaustion, exhaustion + 1}
    <2>1. exhaustion' \in {exhaustion, exhaustion + 1}
      BY DEF ProcessOrder, Types
    <2> QED BY <2>1 DEF ProcessOrder, sinkVars, trialVars
  <1>2. /\ book \in Seq(Events) /\ m_order \in Events /\ exhaustion \in Nat
        /\ book' \in Seq(Events) /\ Len(book') = Len(book) + 1 /\ Len(book) \in Nat
    BY <1>1, AppendProperties, LenProperties DEF Types
  <1>3. main_pc \in {"warmup"} \cup Sampling
    BY <1>1 DEF Types, TurnInv, MatchingIdle
  <1>4. m_sample' \in AllSamples
    BY <1>1, <1>2 DEF Sample, AllSamples
  <1>5. exhaustion' \in Nat /\ exhaustion <= exhaustion'
    BY <1>1, <1>2
  <1>6. Types'
    BY <1>1, <1>2, <1>4, <1>5 DEF Types
  <1>7. TurnInv'
    BY <1>1, <1>3 DEF TurnInv
  <1>8. CountInv'
    BY <1>1, <1>3 DEF CountInv, Busy
  <1>9. PoolsInv' /\ VerdictInv'
    BY <1>1, <1>2, <1>3, <1>5 DEF PoolsInv, VerdictInv, Types
  <1>10. Working = 1 /\ Working' = 0 /\ Reporting = 0 /\ Reporting' = 1
    BY <1>1 DEF Working, Reporting
  <1>11. ASSUME dropped = 0 PROVE EventsInv'
    <2>1. /\ book = Fed(Len(book)) /\ m_order = Len(book)
          /\ \A k \in 1 .. Len(queue) : queue[k] = Len(book) + 1 + k - 1
          /\ i = Len(book) + 1 + Len(queue)
      BY <1>1, <1>3, <1>10, <1>11 DEF FlawlessInv, EventsInv
    <2>2. book' = Fed(Len(book) + 1)
      BY <1>1, <1>2, <2>1, FedIs
    <2>3. m_sample' = TrueSample(Len(book))
      BY <1>1, <2>1 DEF TrueSample
    <2>4. Len(book') - 1 = Len(book) /\ Len(book') > 0
      BY <1>2
    <2>5. \A k \in 1 .. Len(queue) : queue[k] = Len(book') + 0 + k - 1
      BY <1>2, <2>1
    <2>6. i = Len(book') + 0 + Len(queue)
      BY <1>2, <2>1, LenProperties DEF Types
    <2>7. book' = Fed(Len(book'))
      BY <1>2, <2>2
    <2>8. m_sample' = TrueSample(Len(book') - 1)
      BY <2>3, <2>4
    <2> QED BY <1>1, <1>10, <2>4, <2>5, <2>6, <2>7, <2>8 DEF EventsInv
  <1>12. ASSUME dropped = 0 PROVE SamplesInv'
    <2>1. main_pc \in Sampling => Len(book') = Warmup + Len(samples) + 1
      <3>1. main_pc \in Sampling => Len(book) = Warmup + Len(samples) + 0
        BY <1>1, <1>10, <1>12 DEF FlawlessInv, SamplesInv
      <3>2. Warmup \in Nat /\ Len(samples) \in Nat
        BY BenchmarkAssumption, LenProperties DEF Types
      <3> QED BY <1>2, <3>1, <3>2
    <2> QED BY <1>1, <1>3, <1>10, <1>12, <2>1 DEF FlawlessInv, SamplesInv
  <1>13. FlawlessInv'
    BY <1>1, <1>3, <1>11, <1>12 DEF FlawlessInv
  <1> QED BY <1>6, <1>7, <1>8, <1>9, <1>13

(* It looks for a sink, which is the one that is out, if one is.           *)
LEMMA LoadSinkStep ==
  ASSUME BenchmarkInv, LoadSink, UNCHANGED <<main_pc, trialVars>> PROVE BenchmarkInv'
PROOF
  <1> USE DEF BenchmarkInv, Resting, Sampling
  <1>1. /\ UNCHANGED <<queue, book, exhaustion, raw_samples, sink, sink_capacity, samples, stop>>
        /\ UNCHANGED <<m_order, m_sample>>
        /\ UNCHANGED <<main_pc, trial, i, pushed, dropped, pool_before, exhausted, outcomes,
                       hashes, valid>>
        /\ m_pc = "report" /\ m_sink' = raw_samples
        /\ m_pc' = (IF raw_samples = Null THEN "poll" ELSE "record")
    BY DEF LoadSink, sinkVars, trialVars
  <1>2. main_pc \in {"warmup"} \cup Sampling
    BY <1>1 DEF Types, TurnInv, MatchingIdle
  <1>3. main_pc = "warmup" => m_pc' = "poll"
    BY <1>1 DEF TurnInv
  <1>4. main_pc \in Sampling => m_pc' = "record" /\ m_sink' = trial
    <2>1. trial # Null
      BY BenchmarkAssumption DEF Types
    <2> QED BY <1>1, <2>1 DEF TurnInv
  <1>5. m_pc' \in {"poll", "record"}
    BY <1>1
  <1>6. Types'
    BY <1>1, <1>5 DEF Types
  <1>7. TurnInv'
    BY <1>1, <1>2, <1>3, <1>4 DEF TurnInv
  <1>8. CountInv'
    BY <1>1, <1>2, <1>4 DEF CountInv, Busy
  <1>9. PoolsInv' /\ VerdictInv'
    BY <1>1 DEF PoolsInv, VerdictInv
  <1>10. Working' = Working /\ (main_pc \in Sampling => Reporting' = Reporting)
           /\ Reporting = 1
    BY <1>1, <1>4, <1>5 DEF Working, Reporting
  <1>11. ASSUME dropped = 0 PROVE EventsInv' /\ SamplesInv'
    <2>1. EventsInv'
      BY <1>1, <1>2, <1>5, <1>10, <1>11 DEF FlawlessInv, EventsInv
    <2>2. SamplesInv'
      BY <1>1, <1>2, <1>10, <1>11 DEF FlawlessInv, SamplesInv
    <2> QED BY <2>1, <2>2
  <1>12. FlawlessInv'
    BY <1>1, <1>2, <1>11 DEF FlawlessInv
  <1> QED BY <1>6, <1>7, <1>8, <1>9, <1>12

(* It records the sample, for which there is room.                         *)
LEMMA RecordSampleStep ==
  ASSUME BenchmarkInv, RecordSample, UNCHANGED <<main_pc, trialVars>> PROVE BenchmarkInv'
PROOF
  <1> USE DEF BenchmarkInv, Resting, Sampling
  <1>1. /\ UNCHANGED <<queue, book, exhaustion, raw_samples, sink, sink_capacity, stop>>
        /\ UNCHANGED <<m_order, m_sample>>
        /\ UNCHANGED <<main_pc, trial, i, pushed, dropped, pool_before, exhausted, outcomes,
                       hashes, valid>>
        /\ m_pc = "record" /\ m_pc' = "poll"
        /\ samples' = (IF Len(samples) < sink_capacity THEN Append(samples, m_sample) ELSE samples)
    BY DEF RecordSample, trialVars
  <1>2. main_pc \in Sampling /\ sink_capacity = Measured
    BY <1>1 DEF TurnInv
  <1>3. /\ samples \in Seq(AllSamples) /\ Len(samples) \in Nat /\ m_sample \in AllSamples
        /\ queue \in Seq(Events) /\ Len(queue) \in Nat /\ book \in Seq(Events)
        /\ Len(book) \in Nat /\ pushed \in Nat /\ i \in Nat
    BY <1>1, LenProperties DEF Types
  <1>4. Warmup \in Nat /\ Measured \in Nat
    BY BenchmarkAssumption
  <1>5. Busy = 1 /\ Busy' = 0 /\ Working = 0 /\ Working' = 0 /\ Reporting = 1 /\ Reporting' = 0
    BY <1>1 DEF Busy, Working, Reporting
  <1>6. /\ pushed = Len(samples) + Len(queue) + 1 /\ pushed <= i - Warmup
        /\ i <= Warmup + Measured
    BY <1>1, <1>2, <1>5 DEF CountInv
  <1>7. samples' = Append(samples, m_sample)
    BY <1>1, <1>2, <1>3, <1>4, <1>6
  <1>8. /\ samples' \in Seq(AllSamples) /\ Len(samples') = Len(samples) + 1
        /\ \A k \in 1 .. Len(samples) : samples'[k] = samples[k]
        /\ samples'[Len(samples) + 1] = m_sample
    BY <1>3, <1>7, AppendProperties
  <1>9. Types'
    BY <1>1, <1>8 DEF Types
  <1>10. TurnInv'
    BY <1>1, <1>2 DEF TurnInv
  <1>11. CountInv'
    <2>1. pushed = Len(samples') + Len(queue) + 0
      BY <1>3, <1>6, <1>8
    <2> QED BY <1>1, <1>2, <1>5, <2>1 DEF CountInv
  <1>12. PoolsInv' /\ VerdictInv'
    BY <1>1 DEF PoolsInv, VerdictInv
  <1>13. ASSUME dropped = 0 PROVE EventsInv'
    BY <1>1, <1>2, <1>5, <1>13 DEF FlawlessInv, EventsInv
  <1>14. ASSUME dropped = 0 PROVE SamplesInv'
    <2>1. /\ pushed = i - Warmup /\ Len(book) = Warmup + Len(samples) + 1
          /\ \A k \in 1 .. Len(samples) : samples[k] = TrueSample(Warmup + k - 1)
          /\ m_sample = TrueSample(Len(book) - 1)
      BY <1>1, <1>2, <1>5, <1>14 DEF FlawlessInv, SamplesInv, EventsInv
    <2>2. Len(book) - 1 = Warmup + (Len(samples) + 1) - 1
      BY <1>3, <1>4, <2>1
    <2>3. \A k \in 1 .. Len(samples) + 1 : k \in 1 .. Len(samples) \/ k = Len(samples) + 1
      BY <1>3
    <2>4. \A k \in 1 .. Len(samples') : samples'[k] = TrueSample(Warmup + k - 1)
      BY <1>8, <2>1, <2>2, <2>3
    <2>5. Len(book) = Warmup + Len(samples') + 0
      BY <1>3, <1>4, <1>8, <2>1
    <2> QED BY <1>1, <1>2, <1>5, <2>1, <2>4, <2>5 DEF SamplesInv
  <1>15. FlawlessInv'
    BY <1>1, <1>2, <1>13, <1>14 DEF FlawlessInv
  <1> QED BY <1>9, <1>10, <1>11, <1>12, <1>15

(* Waiting and having ended change nothing.                                *)
LEMMA BenchmarkRest == ASSUME BenchmarkInv, UNCHANGED vars PROVE BenchmarkInv'
PROOF
  <1> USE DEF BenchmarkInv, vars, matchingVars, sinkVars, threadVars, trialVars
  <1>1. Types' /\ TurnInv'
    BY DEF Types, TurnInv, MatchingIdle
  <1>2. CountInv' /\ PoolsInv' /\ VerdictInv'
    BY DEF CountInv, Busy, PoolsInv, VerdictInv
  <1>3. FlawlessInv'
    BY DEF FlawlessInv, EventsInv, SamplesInv, Working, Reporting
  <1> QED BY <1>1, <1>2, <1>3

(* What BenchmarkInv says holds as long as no event was late.              *)
OnTimeInv == lag = 0 => BenchmarkInv

(* A step keeps it: once an event was late it says nothing any more, and   *)
(* a sink that is published with lag still 0 goes to an idle thread.       *)
LEMMA OnTimeStep == ASSUME LagInv, OnTimeInv, [Next]_vars PROVE OnTimeInv'
PROOF
  <1> SUFFICES ASSUME lag' = 0 PROVE BenchmarkInv'
    BY DEF OnTimeInv
  <1>1. CASE PublishSink
    <2>1. Backlog \in Nat /\ (Backlog = 0 => MatchingIdle)
      <3>1. Len(queue) \in Nat /\ (Len(queue) = 0 => queue = <<>>)
        BY LenProperties, EmptySeq DEF LagInv, LagTypes
      <3> QED BY <3>1 DEF LagInv, LagTypes, Backlog, MatchingIdle
    <2>2. lag = 0 /\ Backlog = 0
      BY <1>1, <2>1 DEF PublishSink, LagInv, LagTypes
    <2> QED BY <1>1, <2>1, <2>2, PublishSinkStep DEF OnTimeInv
  <1>2. CASE ~PublishSink
    <2>1. lag = 0
      BY <1>2 DEF Next, Main, MatchingStep, Yield, Done, vars
    <2>2. BenchmarkInv
      BY <2>1 DEF OnTimeInv
    <2>3. CASE Main
      BY <1>2, <2>2, <2>3, BeginTrialStep, ResetBookStep, StartWarmupStep, PushEventStep,
         DropEventStep, EndReplayStep, WithdrawSinkStep, EndTrialStep, EvaluateStep DEF Main
    <2>4. CASE MatchingStep
      BY <2>2, <2>4, PinOrStopStep, PopOrderStep, ProcessOrderStep, LoadSinkStep,
         RecordSampleStep DEF MatchingStep, Matching
    <2>5. CASE UNCHANGED vars
      BY <2>2, <2>5, BenchmarkRest
    <2> QED BY <2>3, <2>4, <2>5 DEF Next, Yield, Done
  <1> QED BY <1>1, <1>2

(* Main and the matching thread, in any order of their steps, as long as   *)
(* no event was late.                                                      *)
THEOREM BenchmarkInductive == Spec => []OnTimeInv
PROOF
  <1>1. Init => OnTimeInv
    BY BenchmarkStart DEF OnTimeInv
  <1> QED BY <1>1, LagInductive, OnTimeStep, PTL DEF Spec

(* Until an event is late, book and pools are reset only while no other    *)
(* thread works on them or is about to: the previous trial's wait for its  *)
(* samples sees to that.                                                   *)
THEOREM ResetAlwaysAlone == Spec => [](lag = 0 => ResetAlone)
PROOF
  <1>1. OnTimeInv => (lag = 0 => ResetAlone)
    BY DEF OnTimeInv, BenchmarkInv, TurnInv, ResetAlone, Resting
  <1> QED BY <1>1, BenchmarkInductive, PTL

(* Until an event is late, the pointer the matching thread loaded is that  *)
(* of the sink that exists: no sample goes to the vector of an earlier     *)
(* trial.                                                                  *)
THEOREM SinkAlwaysOutlivesUse == Spec => []SinkOutlivesUse
PROOF
  <1>1. OnTimeInv => SinkOutlivesUse
    BY DEF OnTimeInv, BenchmarkInv, TurnInv, SinkOutlivesUse
  <1> QED BY <1>1, BenchmarkInductive, PTL

(* A run in which no event was late and that is called valid has dropped   *)
(* nothing, has run no pool dry and has in each of its trials measured the *)
(* measured events, in order, each against the book that all events before *)
(* it had left.                                                            *)
THEOREM VerdictAlwaysSound == Spec => []VerdictSound
PROOF
  <1>1. OnTimeInv => VerdictSound
    <2> SUFFICES ASSUME OnTimeInv, main_pc = "done", valid, lag = 0
                 PROVE  /\ Len(outcomes) = Trials
                        /\ \A t \in 1 .. Trials : Flawless(outcomes[t])
                        /\ dropped = 0 /\ exhaustion = 0
      BY DEF VerdictSound
    <2> USE DEF OnTimeInv
    <2>1. trial = Trials /\ dropped = 0 /\ exhausted = 0
      BY DEF BenchmarkInv, VerdictInv
    <2>2. exhaustion = 0
      BY <2>1 DEF BenchmarkInv, PoolsInv
    <2>3. Len(outcomes) = Trials
      BY <2>1 DEF BenchmarkInv, Types
    <2>4. \A t \in 1 .. Trials : Flawless(outcomes[t])
      BY <2>1 DEF BenchmarkInv, FlawlessInv
    <2> QED BY <2>1, <2>2, <2>3, <2>4
  <1> QED BY <1>1, BenchmarkInductive, PTL
=============================================================================
