# Blitz limit order book: TLA+ models and proofs

TLA+ specifications of the order book, the threads and the tools around it in this repository, the TLC
configurations that check them on small instances, and TLAPS proofs that hold
for every instance. Paths below are relative to the repository root
(`include/hydra/...`, `src/...`, `net/...`).

Run a configuration with `tlc -config Matcher.cfg MCMatcher.tla`, a proof
with `tlapm OrderBookProofs.tla`. `PROJECT.json` maps every definition to the
lines it models and lists runs, seeded mistakes, hazards and theorems.

## 1. The system

| component | state | operations | who calls it |
|---|---|---|---|
| `ObjectPool` (`object_pool.hpp`) | slab of N slots, free list chained through the free slots, exhaustion counter | `acquire`, `release`, `reset` | the order book; `run_benchmark` between trials |
| `OrderBook` (`order_book.hpp`) | two sorted price maps, an id index, one doubly linked FIFO of orders per level | `add_order`, `cancel_order`, `replace_order_in_place`, `best_*`, `next_*_level`, `reset` | the matcher; the matching thread for cancels |
| `Matcher` (`matcher.hpp`) | matching mode; during a call, pointers into the book | `match`, `replace`, `set_mode` | the matching thread |
| `SpscQueue` (`spsc_queue.hpp`) | ring of N slots, `head_`, `tail_` | `push` (RX thread), `pop` (matching thread) | the two pipeline threads |
| pipeline threads (`pipeline.hpp`, `src/pipeline.cpp`) | loop position, drop counts, the sample sink | `rx_thread_fn`, `afxdp_rx_thread_fn`, `matching_thread_fn` | `main.cpp`, `benchmark.cpp` |
| benchmark harness (`src/benchmark.cpp`) | trial, sink, counters, state hashes | `run_benchmark`, `replay_phase` | `main.cpp` |
| AF_XDP path (`net/`, `include/hydra/xdp/`) | UMEM frames, FILL and RX rings | `recv_batch`, `release_frame`, `refill_fill_ring`, attach and detach | the AF_XDP RX thread |
| eBPF classifier and wire parser | none | `hydra_xdp_redirect`, `parse_order_zero_copy` | the kernel; the RX thread |
| live mode (`src/main.cpp`) | stop source, threads | `run_live_pipeline`, SIGINT handler | the user |
| dataset generator, tools | RNG, set of live ids | `DatasetGenerator`, `blitz_gen_dataset` | offline |

How they interact: an RX thread (synthetic, AF_XDP, or the benchmark's replay)
pushes `Order` values into the SPSC queue, the only object both threads touch.
The matching thread pops them and calls `cancel_order` (quantity 0),
`Matcher::replace` or `Matcher::match`; the matcher reads and changes the book;
the book takes orders and levels from two pools and returns them. When a sample
sink is published, the matching thread writes one sample per event to it, and
the benchmark thread waits on the number of samples.

What is hard:

* the matcher fills orders while it walks the lists and maps that those fills
  change, and releases the objects it stands on;
* bookkeeping is spread over two files (`apply_fill` and `unlink_from_level`
  share the responsibility for `total_qty`), over the lists, the maps, the index
  and the pools, and every failure path must leave all of them in agreement;
* FOK is decided on a dry run and executed by another traversal;
* the queue, the sample sink and `reset()` are shared between threads on the
  strength of single-writer arguments;
* the benchmark relies on the matching thread being idle at moments it infers
  from a count;
* SIGINT may arrive on any thread and at any moment of the live mode's setup and
  teardown, and every setup call of the AF_XDP thread may fail half-way;
* UMEM frames are lent to the kernel and must all come back;
* kernel and user space decide separately what an order frame is, and generator,
  replay and matching thread what an event means.

What makes each component correct:

* `ObjectPool`: never hands out a slot in use, never loses a slot, never forgets
  that it ran dry.
* `OrderBook`: index, maps, lists, totals and pools describe the same set of
  orders; the lists are time-priority queues.
* `Matcher`: no dangling pointer; conservation of quantity; price and time
  priority or pro-rata shares; FOK all or nothing; never a crossed book; no
  order lost silently; termination.
* `SpscQueue`: first in, first out; a slot is never written and read at once.
* pipeline: every event is processed once and in order or counted as dropped;
  both threads stop when asked.
* benchmark: trials are independent; samples belong to measured events; the
  verdict is invalid whenever something was lost.
* AF_XDP: frames are conserved; what is taken down is no longer used; classifier
  and parser agree.
* live mode: a SIGINT ends the process and leaves nothing behind, save a program
  whose detach has failed.
* dataset: events refer to orders that exist; a cut file is never replayed.

## 2. Modules

| module | models |
|---|---|
| `SlotPool` | what a pool promises: a set of free slots and whether it ever ran dry |
| `ObjectPool` | the intrusive free list; implements `SlotPool` |
| `ObjectPoolProofs` | its theorems |
| `OrderBook` | the book's pointers, maps, index and pools (pools as `SlotPool`) |
| `BookView` | the queues one sees by walking the pointers |
| `LimitOrderBook` | the abstract book: a FIFO queue per side and price |
| `MCOrderBook` | model-checking instance, with the refinement to `LimitOrderBook` |
| `OrderBookProofs` | the book's inductive invariant and theorems, and the proof that it implements `LimitOrderBook` |
| `MatchingEngine` | what matching promises: on top of `LimitOrderBook`, an order is matched in one step |
| `Matcher` | `match` and `replace` step by step on the pointer-level book; implements `MatchingEngine` |
| `MCMatcher` | model-checking instance |
| `MatcherProofs` | its theorems, on top of `OrderBookProofs`, and the proof that it implements `MatchingEngine` |
| `ProRataAllocation` | the pro-rata arithmetic with the widths of its integer types |
| `BoundedFifo` | what the queue promises: a bounded first-in first-out queue |
| `SpscQueue` | `push` and `pop` load by load, slot access by slot access; implements `BoundedFifo` |
| `SpscQueueProofs` | its theorems |
| `MatchingThread` | `matching_thread_fn` and the sample sink |
| `Benchmark` | the trial loop of `run_benchmark`, on top of `MatchingThread` |
| `BenchmarkProofs` | its theorems |
| `RxThread` | `rx_thread_fn` and the bounded spin, on top of `MatchingThread` |
| `XdpSocket` | the UMEM frames and the resources of an AF_XDP socket, and the kernel's side |
| `AfXdpRx` | `afxdp_rx_thread_fn`, on `RxThread` and `XdpSocket` |
| `LivePipeline` | `run_live_pipeline` with SIGINT and both kinds of receive thread |
| `LivePipelineProofs` | its theorems, those about the UMEM frames among them |
| `OrderFrame` | the eBPF classifier and the wire parser over the same frames |
| `LatencyStats` | percentiles and the ablation verdict (`stats.hpp`) |
| `Dataset` | a dataset from its configuration to the operations replayed |
| `MCAlgorithms` | model-checking instance of what works alone: `ProRataAllocation`, `OrderFrame`, `LatencyStats` and `Dataset`, side by side |
| `AlgorithmsProofs` | theorems of these four modules |
| `Totals` | lemmas: induction, sums over finite sets, rounding down |

### ObjectPool

`next[s]` is `slab_[s].next`, `free_head` is `free_head_`. The slot is a union:
constructing an object destroys the link, so `Acquire` writes an arbitrary
pointer over it. `live` is the owner's side of the contract (the pointers it
holds) and not state of the pool. `MaxExhaustion` bounds the counter.

### OrderBook

A field of a slab object is a function from slots (`qty[s]` is `s->qty`), a
price map is a function from side and price to a level or `Null`, the id index
one from ids to entries. `add_order` is the disjunction of its outcomes: rest at
an existing level, rest at a new level, duplicate id, no order slot, no level
slot (where the order slot is acquired and released again). `CancelWith` is
`cancel_order` on a book whose quantities the caller has just changed, so that
`ApplyFill` is `apply_fill` and the cancel it may trigger as one step of the
matching thread. Which free slot a pool returns is left open. `Reset` is the
book's reset followed by both pools', the only way the code calls it.

### Matcher

`Submit` and `Replace` call the matcher; `BeginMatch` is `match` up to its sweep
(duplicate id, mode, FOK dry run), `EnterLevel`, `SkipSelf`, `FillResting`,
`LeaveLevel` the loops of `sweep_price_time`, `EnterLevelProRata`, `PassOver`,
`FillShare`, `FillLargest` those of `pro_rata_sweep` and `pro_rata_at_level`,
`FinishMatch` what becomes of the remainder. The pointers that live across a
fill (`level`, `next_level`, `resting`, `share.largest`) are variables, so that
`PointersLive` can say what a use after free would violate. `before` remembers
the queues at the start of the call; the properties compare the book with it at
the return. `SweepAdvances` is the termination argument: every step of a call
shortens `Distance`, which counts the levels and orders ahead, in both modes and
also when everything ahead is the client's own.

The FOK dry runs are written as the sum they compute. Of `MatchStats` only
`remaining_qty` and the fills are kept. The orders submitted have quantity 0 to
`MaxQty`, since `match` does not refuse 0. Prices are compared and never added,
so two of them on each side give every relation of limit and level.

### MatchingEngine

The engine as a client knows it: queues of orders, and an order that has been
submitted or none. `Match(mode)` is the whole of a `match()` call and one
calculation. What the order wants (nothing if its id rests already or it is FOK
and cannot be filled) is poured over the prices it reaches, the best first
(`TradedAt`), and what a price gets over the orders there: by age in price-time
mode; in pro-rata mode everybody's share rounded down, and what that leaves over
the first of the largest and then by age (`Traded`). The queues lose what has
been traded and keep their order (`Thinned`), and the remainder rests or does
not (`Rests`): MATCH-01, the two pools and the duplicate id as conditions on the
queues. `Cancel`, `Reduce` and `Resubmit` are the other calls, the last two being
the outcomes of `replace` that keep and lose time priority.

`Matcher` implements it with `SeenQueue` for the queues and `SeenOrder` for the
order: while a call sweeps, the queues seen are those of before the call, and
they change together, when it returns. Nobody can look in between, because the
matching thread is the only one that touches the book.

### ProRataAllocation

The same allocation with `Word` for 2^32, over every level of up to three
orders whose quantities take every value of a `uint32_t`. `U64` and `U32` stand
at the casts and declarations of the code. `Matcher` has the arithmetic without
widths and this module shows that the widths do not matter.

### SpscQueue

`push` is `BeginPush` (the loads and the test), one `WriteLine` for each cache
line of the order, and `Publish` (the release store); `pop` is `BeginPop`,
`CopyLine`, `FreeSlot` in the same way; `PushFails` and `PopFails` are the calls
that return false. A thread's own counter is exact. The acquire load of the
other one gives any value from the one it saw last (`p_head`, `c_tail`) to the
current one, which is what coherence allows; release and acquire order the slot
accesses before the counter that announces them, so a thread relies on nothing
else having happened. `Slot` is the counter modulo N, which `& kMask` is for a
power of two; the counters do not wrap (2^64 pushes).

### MatchingThread and Benchmark

`MatchingThread` composes what the other modules establish: the queue is the
bounded FIFO that `SpscQueue` implements, and an event's outcome is a function of
the events applied since the book was last empty, which is all `book` records.
Popping, processing, loading the sink pointer and recording are steps of their
own; whether a pool runs dry during an event is left open. `Benchmark` adds the
main thread: `BeginTrial`, `ResetBook`, `StartWarmup`, `PushEvent` and
`DropEvent` for both calls of `replay_phase`, `PublishSink`, `Yield` (the
spinning wait), `WithdrawSink`, `EndTrial`, `Evaluate`, and `Join` for the
destructor of the `jthread`. A sink is identified by its trial, so that a pointer
to a sink that has gone out of scope can be told from the current one. A
`state_hash` is taken to be the set of samples and the final book, the most that
its sums can depend on. The reset of the book and of the two pools is one step,
preceded by a state in which `ResetAlone` is checked.

Nothing in the code waits for the warmup events to be matched before the sink is
published. Between the two there is the allocation of the sample vector (8 MB,
cleared), in which the matching thread normally catches up; `PublishSink` has no
guard for it either. The history variable `lag`, which is not in the code, keeps
the largest number of events (`Backlog`) that were still to be matched when a
sink was published. `ResetLag` holds in every run: no more events than that are
still to be matched when the book is reset, so that main's count of samples is
as good as the warmup was, and no better. `BenchmarkEnds` holds in every run as
well. `SinkOutlivesUse` and `VerdictSound` have `lag = 0` as a premise, which the
code does not ensure; the run `EarlySink` shows a reset with `lag > 0`. After a
reset under the thread, or a sample written through a pointer to a sink that is
gone, the behaviour of the code is undefined; the model goes on as if memory were
intact, which is one of the outcomes. What it shows of `lag > 0` is therefore
shown up to that moment and, afterwards, for that outcome only.

### RxThread, XdpSocket, AfXdpRx and LivePipeline

`RxThread` is the producer of the live mode: `Generate` and the bounded spin
`PushOrder`, `PushFails`, `GiveUp`. The spin is shared: it takes as a parameter
the place where its thread goes on. Orders are numbers in the order they are made
or received.

`XdpSocket` keeps where each frame is: on the stack `free_frames_`, on the FILL
ring, on the RX ring, or in the batch of the receive thread. `PacketArrives` is
the kernel (external): it takes a frame from the FILL ring for a redirected
packet and drops the packet if it has none. `held` is the set of resources that
exist (program, area, UMEM, socket, map entry). `AfXdpRx` has one action for each
call of the setup, which succeeds or fails and then goes to the step of the
teardown that undoes what was there before, one for each part of the receive
loop, and one for each call of the teardown. Of the teardown calls, `Detach` may
fail: `detach_xdp_program` does nothing when `if_nametoindex()` no longer knows
the interface, and ignores what `xdp_program__detach` returns. The handle is gone
in either case, and what may stay is the kernel's attachment of the program to
the interface, which nobody in the process can reach any more. `held` then has
"attachment" (`Abandon`), and that is the one thing `CleanExit` allows to be left
when `main()` has returned.

`LivePipeline` adds the main thread, one action per statement that another thread
or the signal handler could tell from its neighbour, and SIGINT. `Sigint(thread)`
delivers it to any thread: by default the process is gone; with the handler
installed, that thread reads `g_stop_source` and is interrupted until
`RequestStop`, while the other threads go on. `stop_source` says whether the
local variable of that name exists, so that `HandlerSafe` can say that the
handler does not follow a dangling pointer. Starting a thread may fail: for the
first, the exception leaves `run_live_pipeline`; for the second, the destructor
of the first ends the process. A refused `--xdp-*` option exits at two places.

### OrderFrame

A frame is its length, its number of VLAN tags, the three lengths its headers
claim, and at most one field that is not that of an order. Both walks are
written with the offsets and the bounds checks of their source, in bytes, because
the off-by-one cases are the point. `Classify` is the classifier while a socket
is registered; `Checks` lists the parser's tests in their order, each with the
byte it needs, so that `RejectedAsShort` can name the test that fails.

### LatencyStats

A sorted vector of samples is how often each latency occurs, so that vectors of
thousands of samples are a handful of numbers and p99.9 differs from the maximum.
The rank `p / 100.0 * N` is a floating point product; for the four percentiles
that are asked for it truncates to the exact value, which was tried for every N
up to three million. `verdicts` holds `classify_ablation` of an input and of the
same input with its sides swapped. The verdict is not symmetric: PROVEN has to
clear a noise floor that is a share of the optimized build's p99, REGRESSION has
none, and a difference in one percentile only is INCONCLUSIVE or NOT PROVEN
depending on its sign. What it is, is monotone: `VerdictMonotone` compares the
verdict of every input with that of every input that is at least as good for the
optimization (`Kinder`), so that a difference taken the wrong way round, in one
percentile or in both, shows. And it never proves both builds faster.

### Dataset

The generator's draws are choices; ratios count halves and a draw is below a half
or not, which is what its comparisons can tell. `write_to_file` is a stream that
may hold back `Buffer` units: `Flush` puts some of it on the disk, `WriteFails`
is an error the stream notices, `CheckStream` is the test after which errors are
not noticed any more, `CloseFile` the destructor, which may lose the rest. The
tool may be killed at any point. A header or record is two units, so that a cut
may go through it. `ReadFile` is `read_from_file` with the size check of
`run_benchmark`; `Encoded` and `Dispatched` are the two ends of the queue. No tool
writes the file while the benchmark reads it.

## 3. Runs

| run | instance | states | shows |
|---|---|---|---|
| `ObjectPool` | 4 slots | 4 707 | `FreeListExact`, `RefinesSlotPool` |
| `OrderBook` | 3 order slots, 2 level slots, 4 ids, 2 prices a side, quantities to 3 | 2 140 | `BookTypeOK`, `IndexExact`, `LevelsMapped`, `ListsLinked`, `LevelTotals`, `RefinesLimitOrderBook` |
| `Matcher` | the same book, 2 clients, quantities to 2, both modes | 921 000 | the eight invariants of `match` and `replace`, and `SweepAdvances` |
| `MatchingEngine` | 2 order slots, 3 ids, 2 prices, 2 clients, quantities to 2, both modes | 124 000 | `RefinesMatchingEngine` |
| `Algorithms` | words of 3 bits and up to 3 orders; 24 300 frames; vectors of up to 3 000 samples; 3 latencies; datasets of 4 or 5 events, all halves as ratios, quantities to 2, a buffer of 3 units | 1 779 000 | two invariants for each of the three algorithms' modules (`VerdictMonotone` and `PercentilesExact` for `LatencyStats`); `TargetsNamed`, `ReadWhole`, `DispatchedAsMeant` |
| `SpscQueue` | 4 slots, 2 messages, 9 pushes | 52 000 | `SlotNotShared`, `RefinesBoundedFifo` |
| `Benchmark` | 2 trials of 2 warmup and 3 measured events, queue of 1 | 978 000 | `ResetLag`, `SinkOutlivesUse`, `VerdictSound`, `BenchmarkEnds` |
| `LivePipeline` | 3 orders or packets, queue of 1, 2 attempts, 3 frames, rings of 2, 2 SIGINTs | 231 000 | `Accounted`, `FramesOwnedOnce`, `TeardownInOrder`, `HandlerSafe`, `CleanExit`, `ShutdownCompletes`, `Replenished` |
| `EarlySink` | 3 trials of 2 and 3 events, queue of 5 | violation | section 6 |
| `Discarded` | 2 order slots | violation | section 6 |
| `DanglingStop` | 1 order or packet | violation | section 6 |
| `ShortFrame` | the frames of `Algorithms` | violation | section 6 |

Bounds. Three order slots with four ids let a list have a head, a middle and a
tail, let both pools run dry, and leave an id for an incoming order against a
full book. Two level slots against four places (two sides, two prices) make the
level pool run dry while order slots are free. A sweep needs two opposite levels
to pass from one to the next, and three resting orders to have one after the
largest. Two clients are enough because only equality with the incoming client
matters. Slots, ids and clients are symmetric: the code never compares them
except for equality.

`MatchingEngine` evaluates the whole calculation of a call in every state of its
last step, and so has two order slots. They are enough for two levels of one
order or one level of two, for a residual that goes to the first of two equal
orders, for an own order in front of another's and for both pools running dry;
`MatcherRefinesEngine` is for any number.

In `LivePipeline` a queue of one is full after one push, so that spins fail and
orders are dropped; two attempts give a retry. Three frames do not fit on a FILL
ring of two, so the stack, the rings and the batch are all in use at once; three
packets use every frame and starve the ring once. The second SIGINT arrives
during shutdown. The constants `Lengths`, `TotalLengths` and `UdpLengths` are the
values on both sides of every bound either program checks, for zero, one and two
tags and for IP headers of 16, 20 and 24 bytes. Five events let an id be moved by
the swap-remove and then be drawn; ratios from minus a half to one and a half
take every comparison of the constructor to both sides.

Every property of a passing run has a seeded mistake: a changed copy of a
definition (its comment begins "A seeded mistake"), under which TLC finds the
property violated. They are plausible slips in this code: a fill subtracted
twice, a slot not returned on a failure path, the largest order filled in its
place, a dry run that counts own orders, a 32-bit accumulator.

Fairness. `BenchmarkEnds` assumes weak fairness of the two threads of the
benchmark, which run on cores of their own, and holds unless the matching thread
gives up because it cannot be pinned to its core: then the queue takes what fits,
nobody pops it, and the wait for the samples never ends. `ShutdownCompletes` and
`Replenished` assume weak fairness of the three threads of the live mode and of a
signal handler that has begun: none of them waits for a lock, and the scheduler
runs them. Nothing is assumed of the user, the network or the kernel. A sweep's
termination needs no fairness: `SweepAdvances` bounds the steps of a call.

Deadlock is checked in all runs but `ShortFrame`, which ends with the frame it
finds. For a dataset a deadlock would be a draw from an empty list of ids: the
constructor's checks are what excludes it. Nine pushes take the
ring of `SpscQueue` around twice, so that every slot is written, freed and
written again while the other thread goes by old counters; the pushed messages
may be equal or different. Two trials have the one reset that may meet events of
the trial before, and the second trial shows what such events do to the next
one. A queue of one is shorter than either phase, so that events are dropped in
both; with the event the matching thread is working on it lets two warmup events
be late, which is every one of a trial. Three measured events are more than the
late ones can make up for, and fewer than there may be samples for, so the sink
runs full as well. The queue of `EarlySink` is long enough that its counterexample
needs no drop.

## 4. Proofs

Every safety invariant that a passing run checks, `SweepAdvances` and the four
refinements are theorems for all values of the constants; `PROJECT.json` lists
them. `ResetAlone`, which is false in general (`EarlySink`), is a theorem with
`lag = 0` as its premise. This section says along which argument.

**Assumptions.** The proofs use the named assumptions of the modules and nothing
else. `BookAssumption`: prices are integers, the slabs finite, `Null` is none of
the values it is compared with. `MatcherAssumption`: the modes are the two of
`MatchingMode`, and no order is `Null`, which stands for the absence of one. `QueueAssumption`, `NAssumption`,
`XdpSocketAssumption`: capacities are positive. `RxThreadAssumption` and
`BenchmarkAssumption`: what an event is, and that numbers of events, orders and
attempts are numbers. `WordAssumption`: a word has at least two values and no
level has more orders than a word counts (`ORDER_POOL_SIZE` is 65536).
`FrameAssumption`, `StatsAssumption`, `DatasetAssumption`: lengths, latencies,
counts, sizes and quantities are naturals, and the latencies finitely many.

**Induction over data** is out of the prover's reach in the form the library
offers it, as a theorem about any predicate. `Totals` goes back to the
well-foundedness theorem of the library, which is about sets: a set of naturals
has a least element (`LeastOf`), so a set with 0 and all successors is `Nat`
(`Induct`), and a family of subsets of a finite set that has the empty set and
grows by single elements has the whole (`InductFinite`). What is proved by
induction is therefore stated as membership in a set. A fold over a set is read
as the number that satisfies its one-element equation (`Total` and the lemmas
about it), and recursive functions are followed index by index.

**`ObjectPoolProofs`**, for every `N`. `FreeListExact` is the inductive
invariant: there is a sequence of distinct free slots, each linked to the one
before, that contains every slot not handed out. It is stated with a witness
chain, so that a push extends it and a pop shortens it. From it follow
`NoSlotLost`, `NoLiveSlotHandedOut` and the steps of `Refinement`.

**`OrderBookProofs`**, for any finite number of order slots and any ids, prices,
clients, quantities and levels. `BookInv` is the conjunction of `BookTypeOK`,
`IndexExact`, `LevelsMapped` and the existence of two witnesses: `pos`, which
numbers the orders of each level (`Numbers`), and `cum`, the running total of
their quantities in that order (`Sums`). `cum` states `LevelTotals` locally,
with `total_qty` at the last position, and is what shows that no unsigned total
goes below zero (`TypeCorrect`); `TotalsCorrect` then reads it as the fold TLC
evaluates. There is one lemma per operation, `CancelWithKeeps` serving both
cancels and full fills, with the two outcomes of a cancel (last order of its
level, or one among others) proved apart. `BookInv` is needed as a whole: the
lists depend on the index to say which orders a level has, the totals on the
lists, and the types on the totals.

`BookRefinesQueues`: the queues are obtained by walking the links (`BookView`).
Under `BookInv` a walk visits the orders of a level at places 1, 2, ... up to
`order_count`, so a queue is determined by the place of each order that rests in
it (`Shows`, `QueuesDetermined`). Each operation then only has to be shown to
change places the way the abstract book changes its queues: one order appended
(`Rests`), one removed and those behind it moved up (`Leaves`), one changed
where it stands, or all gone.

**`MatcherProofs`**, on top of it. `MatcherUsesBook`: every step of `match`,
`cancel` and `replace` is a step of the book or leaves it alone, so that
`BookInv` holds throughout; `MatcherInv` adds what the pointers of a sweep name
(`PointersSafe`: no level that is kept for later is the one a fill may release,
and the order kept for the end holds its level), which gives `PointersLive`.
`SweepInv` says where a sweep is: the levels behind it offer nothing to this
client (`Swept`), a FOK order is covered by what is still offered (`Covered`),
and in pro-rata mode what the floor shares still to be served and the residual
add up to is what the level has still to hand out (`SharesAccount`). It gives what a call promises
when it returns: `NeverCrossed`, `NothingLeftToTrade`, `FillOrKill`,
`RemainderAccountedFor`. `LedgerInv` compares the fills with the queues at the
start of the call (`FillsAddUp`), `PriorityInv` says that whoever stood in front
of an order that traded is filled (`PriorityRespected`), and `ProRataInv` that
the orders served so far got their floors and, of the residual, only what the
largest and older orders could not take, and that prices the sweep has not come
to are untouched (`ProRataFair`). `SweepAlwaysAdvances` needs no fairness: the
levels and orders ahead are finite, and each step takes one away or ends the
call.

`MatcherRefinesEngine` puts these invariants together. When the sweep is over
they determine what has been traded. With `LedgerInv` the fills are quantities of
the orders that rested before; with `PriorityInv`, `ProRataInv` and `SweepInv`
an order traded beyond its share only if everything in front of it is full, and
something is left only if nothing can be filled any more. Amounts over a row of
vessels with these two properties are the poured ones (`PourIs`), first price by
price and then at each price order by order, so the fills are `Traded`. The links
at that point, compared with those at the start, visit the orders that still have
quantity in their old order, which is `Thinned`, and `add_order`'s outcome is
decided by counting the orders and the occupied places of the queues, which is
`Rests`. A refused order changes nothing and trades nothing. All other steps of a
call are stutters, because what is seen is the book before it.

**`SpscQueueProofs`**, for every capacity `N` and every number of pushes.
`QueueInv` says what each thread may rely on in the middle of a call: a producer
that found room has `tail_ - p_head < N` for the `head_` it loaded, which only
understates the room (`ProducerInv`); a consumer that found an element has
`head_ < c_tail`, and its copy agrees with the slot (`ConsumerInv`); between
`head_` and `tail_` every slot holds one whole message (`ContentsInv`). That two
counters less than N apart have different slots is `SlotsDiffer`.
`ImplementsFifo` maps `Publish` to a push, `FreeSlot` to a pop and every other
step to a stutter.

**`LivePipelineProofs`**, for any sizes and any number of frames, orders,
packets, attempts and signals, in three layers. `ControlInv` is about control
alone: which resources are held at each place of the receive thread (`HeldInv`),
which threads run while main is where (`ThreadsInv`), and what an interrupted
thread's handler has read (`HandlerInv`); `TeardownInOrder`, `HandlerSafe` and
`CleanExit` follow. `HandlerSafe` says nothing of the way out through an
exception, where `DanglingStop` shows that it is false, and `CleanExit` allows for
a detach that has failed. `FramesInv` says where frames may be at each place of the
thread, with sequences without repetition for rings and batch; `FramesOwnedOnce`
needs it because a frame released in the wrong place would only show up twice a
round later. `TrailInv` follows the orders: the book's, then those in the hands of
either thread and in the queue form one ascending sequence, and with the dropped
and the rejected ones they are as many as were taken (`Accounted`).

**`BenchmarkProofs`**, for any capacity and numbers of trials and events, in two
layers. `LagInv` needs no premise: while main measures or drains, the samples
there are and the events still to be matched are at most the events pushed and
the late ones together. When the drain loop ends there are as many samples as
events were pushed, so what is still to be matched is at most `lag`
(`ResetLagBounded`). The second layer is about runs with `lag = 0`, and each of
its theorems says so: `TurnInv` says whose turn it is, `CountInv` that every
measured event pushed is a sample or in the queue or in the matching thread's
hands, and `FlawlessInv` that while nothing has been dropped the events of a
trial reach book and samples in order and without a gap; the verdict is drawn
from these. `lag` never falls, so a run with `lag = 0` at its end had it
throughout, and `OnTimeInv`, which is `lag = 0` implying the three, is inductive.

**`AlgorithmsProofs`**. One call of an algorithm is one step, so the invariants say what a result
is, and the work is in the lemmas. Frames: the parser's walk implies each bound
of the classifier's, for any lengths. Verdict: with better measurements both
deltas grow and the noise floor, a product of two falling factors, falls
(`KinderIs`), and the judgement on them is monotone (`JudgedMonotone`).
Percentiles: the cumulative counts read as totals. Pro-rata, for any `Word`: each share is
below a word because it is at most the order's quantity, the products are below
`Word` squared, so nothing wraps (`EligibleTotalIs`, `FloorIs`, `TotalFloorIs`,
`PassQuantities`); the rounding residual is less than the number of orders; and
the pass hands it out to the largest first and then by age (`Handed`), with
nothing left at the end because what is traded does not exceed what is offered.
The dataset does have a history: `GeneratorInv` (the ids on the list are
distinct, and they are just those sent to rest and not cancelled since), `FileInv` and
`ReplayInv` follow it from the configuration to the last event replayed.

**Only model-checked.** Liveness and deadlock: `BenchmarkEnds`,
`ShutdownCompletes`, `Replenished` (fairness and ENABLED are out of the proof
system's reach). The four findings of section 6 are counterexamples and need
no proof.

## 5. Abstractions

* Names, timestamps, client tags, statistics counters and logging are left out.
* The price maps are finite functions; `std::map` and `std::unordered_map` are
  taken to work, and their arenas are not modelled.
* Storage that was released is blanked, so that states that differ in garbage
  only are one. The code never reads it: that is what `PointersLive` shows.
* `assert` in `release` is compiled out in release builds and is not relied on;
  that the book releases only what it holds follows from `IndexExact` and
  `LevelsMapped`.

## 6. Findings

`Discarded`: ARCHITECTURE.md (section 5, line 312) says that IOC is the only
policy that reaches `Discarded` with a nonzero remainder, and the diagram there
gives a GTC order no way out of `Matching` but `Filled` and `Resting`. Since
MATCH-01 (`matcher.hpp:100-119`) the code discards a GTC remainder that would
rest across the same client's own order. The code's own comment explains why;
the document was not brought up to date.

`EarlySink`: `order_book.hpp:235-238` (and the same words at `ObjectPool::reset`)
ask the caller of `reset()` to be sure that the matching thread has drained and
is idle, and refer to the benchmark. The benchmark is sure only that as many
samples were recorded as measured events were pushed (`benchmark.cpp:1065`). If
warmup events were still queued when the sink was published (line 1049), their
samples count, the wait ends as many events early, and the next trial's reset
runs against a matching thread at work. Without their premise `lag = 0`,
`VerdictSound` and `SinkOutlivesUse` would be false as well: a late event may find
the sink's storage gone, and a pool failure after the last reading of the counters
is never seen by the validity gate. `ResetLag` bounds the damage: never more
events meet the reset than were late.

`DanglingStop`: if the receive thread cannot be started (`std::thread` throws
when the system is out of threads), the exception leaves `run_live_pipeline`
before it restores the default action and clears `g_stop_source`
(`main.cpp:425-426`). Until `main()` has reported the error and returned, a
SIGINT makes the handler call `request_stop()` on a `stop_source` that has been
destroyed; the comment at `main.cpp:295-298` says the handler never outlives it.
`HandlerSafe` shows that this is the only such moment.

`ShortFrame`: the classifier's test that the payload holds a full order message
(`xdp_prog.bpf.c:164`) looks at the length field of the UDP header. Unlike the
parser it compares neither that nor the IP total length with the end of the
frame, so a frame that was cut, or whose header announces more than there is, is
redirected and then rejected as too short, which the comment at
`xdp_prog.bpf.c:49-52` says never happens. The other direction holds:
`NoOrderPassedBy`. (The remark in `zero_copy_parser.hpp:161-163` that the
classifier accepts two tags is out of date as well: `VLAN_MAX_DEPTH` is 1.)

## 7. Not modelled, and plan

1. Proofs: all safety properties of the runs are proved. What could still be
   added: that the queue of `MatchingThread` is the FIFO that `SpscQueue`
   implements, and that the outcome of an event is a function of the events
   before it, are composition by argument (section 2), not by a theorem.
2. Left out for good: report formatting, means and deviations, which are sums of
   doubles; argument parsing; the byte layout of the dataset (that a file of the
   `flat_layout` ablation has the same magic and version is noted in its own
   header comment: only the file names tell them apart); random number
   generation; the clock; the preflight checks of the host; `send_test_orders`, a
   loop without state; and the ablation variants, which have the interfaces of
   the originals.
