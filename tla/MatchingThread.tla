-------------------------- MODULE MatchingThread --------------------------
(***************************************************************************)
(* matching_thread_fn (src/pipeline.cpp) and the sample sink it reports to *)
(* (RawSampleSink, include/hydra/pipeline.hpp).  The queue is the bounded  *)
(* FIFO that SpscQueue implements.  The book is the sequence of events     *)
(* applied to it since it was last empty, on which the outcome of the next *)
(* event depends and on nothing else; matching is a step.                  *)
(*                                                                         *)
(* A module that EXTENDS this one adds the producer and whoever publishes  *)
(* the sink, asks the thread to stop and resets the book.                  *)
(***************************************************************************)
EXTENDS Integers, Sequences

CONSTANTS
  Events,         \* what travels through the queue
  NoEvent,        \* content of `order' before the first pop
  Null,           \* nullptr
  MaxExhaustion   \* bound on pool failures, for model checking

ASSUME MatchingThreadAssumption == NoEvent \notin Events /\ MaxExhaustion \in Nat

VARIABLES
  queue,          \* ctx.queue
  book,           \* events applied to ctx.book since its last reset
  exhaustion,     \* exhaustion_count() of the two pools, added up
  raw_samples,    \* ctx.raw_samples: the id of the published sink, or Null
  sink,           \* the sink that exists: its id, or Null
  sink_capacity,  \* its capacity
  samples,        \* its samples, write_index of them
  stop,           \* the thread's stop token
  m_pc,           \* where the thread is
  m_order,        \* the order it popped
  m_sample,       \* the sample it measured
  m_sink          \* the sink pointer it loaded

threadVars == <<m_pc, m_order, m_sample, m_sink>>
sinkVars == <<raw_samples, sink, sink_capacity, samples>>
matchingVars == <<queue, book, exhaustion, sinkVars, stop, threadVars>>

(* What a sample says, times aside: the event and the book it met.         *)
Sample(e, b) == [event |-> e, book |-> b]
NoSample == Sample(NoEvent, <<>>)

MatchingInit ==
  /\ queue = <<>> /\ book = <<>> /\ exhaustion = 0
  /\ raw_samples = Null /\ sink = Null /\ sink_capacity = 0 /\ samples = <<>>
  /\ stop = FALSE
  /\ m_pc = "pin" /\ m_order = NoEvent /\ m_sample = NoSample /\ m_sink = Null

(* pin_to_core and verify_affinity.                                        *)
Pinned ==
  /\ m_pc = "pin"
  /\ m_pc' = "poll"
  /\ UNCHANGED <<queue, book, exhaustion, sinkVars, stop, m_order, m_sample, m_sink>>

PinFails ==
  /\ m_pc = "pin"
  /\ m_pc' = "failed"
  /\ UNCHANGED <<queue, book, exhaustion, sinkVars, stop, m_order, m_sample, m_sink>>

(* The stop token is looked at between two pops and nowhere else.          *)
SeeStop ==
  /\ m_pc = "poll"
  /\ stop
  /\ m_pc' = "stopped"
  /\ UNCHANGED <<queue, book, exhaustion, sinkVars, stop, m_order, m_sample, m_sink>>

(* A pop that succeeds; one that fails changes nothing.                    *)
PopOrder ==
  /\ m_pc = "poll"
  /\ queue # <<>>
  /\ m_order' = Head(queue)
  /\ queue' = Tail(queue)
  /\ m_pc' = "work"
  /\ UNCHANGED <<book, exhaustion, sinkVars, stop, m_sample, m_sink>>

(* cancel_order, replace or match; a pool may turn out to be empty.        *)
ProcessOrder ==
  /\ m_pc = "work"
  /\ book' = Append(book, m_order)
  /\ m_sample' = Sample(m_order, book)
  /\ \E dry \in {0, 1} :
       /\ exhaustion + dry <= MaxExhaustion
       /\ exhaustion' = exhaustion + dry
  /\ m_pc' = "report"
  /\ UNCHANGED <<queue, sinkVars, stop, m_order, m_sink>>

LoadSink ==
  /\ m_pc = "report"
  /\ m_sink' = raw_samples
  /\ m_pc' = IF raw_samples = Null THEN "poll" ELSE "record"
  /\ UNCHANGED <<queue, book, exhaustion, sinkVars, stop, m_order, m_sample>>

(* RawSampleSink::record, seen from the release store of write_index.      *)
RecordSample ==
  /\ m_pc = "record"
  /\ samples' = IF Len(samples) < sink_capacity THEN Append(samples, m_sample) ELSE samples
  /\ m_sink' = Null
  /\ m_pc' = "poll"
  /\ UNCHANGED <<queue, book, exhaustion, raw_samples, sink, sink_capacity, stop,
                 m_order, m_sample>>

Matching ==
  \/ Pinned \/ PinFails \/ SeeStop \/ PopOrder
  \/ ProcessOrder \/ LoadSink \/ RecordSample

(* Nothing left to do for the thread: it waits for the next order, or has  *)
(* ended.                                                                  *)
MatchingIdle ==
  \/ m_pc \in {"pin", "poll"} /\ queue = <<>>
  \/ m_pc \in {"stopped", "failed"}
=============================================================================
