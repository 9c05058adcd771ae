------------------------------ MODULE Dataset ------------------------------
(***************************************************************************)
(* The life of a dataset (include/hydra/dataset_generator.hpp): the tool   *)
(* blitz_gen_dataset generates events and writes them to a file, which     *)
(* takes time and may be cut short by a full disk or a kill; later the     *)
(* benchmark reads the file back and replays it, encoding each event for   *)
(* the queue, from which the matching thread tells the operations apart.   *)
(* Nobody reads the file while it is being written.                        *)
(*                                                                         *)
(* Draws from the random number generator are choices.  Ratios count       *)
(* halves; a draw between 0 and 1 is below a half or not.  Of an order     *)
(* there are its id, quantity and time in force: the rest travels with     *)
(* them.  A header or a record is two units on the disk, so that it may be *)
(* there in part.                                                          *)
(***************************************************************************)
EXTENDS Integers, SequencesExt, FiniteSetsExt

CONSTANTS
  MaxRatio,    \* bound on the ratios asked for, in halves
  Quantities,  \* the bounds on quantities that may be asked for
  Sizes,       \* the numbers of events that may be asked for
  Buffer,      \* units the file stream may hold back
  Warmup,      \* WARMUP_ITERATIONS
  Measured     \* MEASURED_ITERATIONS

ASSUME DatasetAssumption ==
  /\ {MaxRatio, Buffer, Warmup, Measured} \subseteq Nat
  /\ Quantities \subseteq Nat /\ Sizes \subseteq Nat

VARIABLES
  cfg,          \* the DatasetConfig, NoConfig once it has been used
  resting_ids,  \* ids a cancel or replace may name
  next_order_id,
  events,       \* the events generated
  tool,         \* where blitz_gen_dataset is, or how it has ended
  disk,         \* units of the file that are on the disk, NoFile without one
  benchmark,    \* where the benchmark is
  replayed,     \* the events it has read
  calls         \* the operations the matching thread has carried out

generatorVars == <<cfg, resting_ids, next_order_id, events>>
fileVars == <<tool, disk>>
benchmarkVars == <<benchmark, replayed, calls>>
datasetVars == <<generatorVars, fileVars, benchmarkVars>>

NoConfig == <<>>
NoFile == -1

Ratios == -1 .. MaxRatio

DatasetConfig ==
  [order_count : Sizes,
   cancel_ratio : Ratios, replace_ratio : Ratios, ioc_ratio : Ratios, fok_ratio : Ratios,
   min_qty : Quantities, max_qty : Quantities, rates_positive : BOOLEAN]

Event(type, id, qty, tif) == [type |-> type, id |-> id, qty |-> qty, tif |-> tif]

NothingYet ==
  /\ resting_ids = <<>> /\ next_order_id = 1 /\ events = <<>> /\ disk = NoFile
  /\ benchmark = "begin" /\ replayed = <<>> /\ calls = <<>>

DatasetInit == cfg \in DatasetConfig /\ tool = "configure" /\ NothingYet

NoDataset == cfg = NoConfig /\ tool = "none" /\ NothingYet

-----------------------------------------------------------------------------
(* The constructor; one comparison stands for arrival_rate_hz and          *)
(* client_id_count, which must be positive.                                *)
Valid ==
  /\ cfg.ioc_ratio + cfg.fok_ratio <= 2
  /\ \A r \in {cfg.ioc_ratio, cfg.fok_ratio, cfg.cancel_ratio, cfg.replace_ratio} : r >= 0
  /\ cfg.cancel_ratio <= 2
  /\ cfg.cancel_ratio + cfg.replace_ratio <= 2
  /\ cfg.min_qty # 0 /\ cfg.min_qty <= cfg.max_qty
  /\ cfg.rates_positive

Configure ==
  /\ tool = "configure"
  /\ tool' = IF Valid THEN "generate" ELSE "error"
  /\ cfg' = IF Valid THEN cfg ELSE NoConfig
  /\ UNCHANGED <<resting_ids, next_order_id, events, disk, benchmarkVars>>

(* A draw of unit_dist, and dispatch_u, which is 1 when nothing can be     *)
(* cancelled or replaced.                                                  *)
Unit == {0, 1}
DispatchUnit == IF resting_ids = <<>> THEN {2} ELSE Unit

(* A seeded mistake: the last id is dropped, whichever was taken.          *)
PopOnly(idx) == Front(resting_ids)

(* remove_resting().                                                       *)
RemoveResting(idx) ==
  IF idx = Len(resting_ids) THEN Front(resting_ids)
  ELSE Front([resting_ids EXCEPT ![idx] = Last(resting_ids)])

Generating ==
  /\ tool = "generate"
  /\ Len(events) < cfg.order_count
  /\ UNCHANGED <<cfg, fileVars, benchmarkVars>>

WantCancel(u) == u < cfg.cancel_ratio
WantReplace(u) == ~WantCancel(u) /\ u < cfg.cancel_ratio + cfg.replace_ratio

GenerateCancel ==
  /\ Generating
  /\ \E u \in DispatchUnit, idx \in DOMAIN resting_ids :
       /\ WantCancel(u)
       /\ events' = Append(events, Event("CANCEL", resting_ids[idx], 0, "GTC"))
       /\ resting_ids' = RemoveResting(idx)
       /\ UNCHANGED next_order_id

GenerateReplace ==
  /\ Generating
  /\ \E u \in DispatchUnit, idx \in DOMAIN resting_ids, qty \in cfg.min_qty .. cfg.max_qty :
       /\ WantReplace(u)
       /\ events' = Append(events, Event("REPLACE", resting_ids[idx], qty, "GTC"))
       /\ UNCHANGED <<resting_ids, next_order_id>>

TifOf(u) ==
  IF u < cfg.ioc_ratio THEN "IOC"
  ELSE IF u < cfg.ioc_ratio + cfg.fok_ratio THEN "FOK"
  ELSE "GTC"

GenerateOrder ==
  /\ Generating
  /\ \E u \in DispatchUnit, v \in Unit, qty \in cfg.min_qty .. cfg.max_qty :
       /\ ~WantCancel(u) /\ ~WantReplace(u)
       /\ events' = Append(events, Event("NEW_ORDER", next_order_id, qty, TifOf(v)))
       /\ next_order_id' = next_order_id + 1
       /\ resting_ids' = IF TifOf(v) = "GTC" THEN Append(resting_ids, next_order_id)
                         ELSE resting_ids

-----------------------------------------------------------------------------
(* write_to_file(): the size of the file it should come to.                *)
FileSize == 2 + 2 * Len(events)

OpenFile ==
  /\ tool = "generate"
  /\ Len(events) = cfg.order_count
  /\ \/ tool' = "write" /\ disk' = 0
     \/ tool' = "error" /\ UNCHANGED disk
  /\ cfg' = NoConfig
  /\ UNCHANGED <<resting_ids, next_order_id, events, benchmarkVars>>

Flush ==
  /\ tool = "write"
  /\ disk' \in disk + 1 .. FileSize
  /\ UNCHANGED <<generatorVars, tool, benchmarkVars>>

WriteFails ==
  /\ tool = "write"
  /\ tool' = "error"
  /\ UNCHANGED <<generatorVars, disk, benchmarkVars>>

(* The check of the stream, which may not have written everything yet.     *)
CheckStream ==
  /\ tool = "write"
  /\ FileSize - disk <= Buffer
  /\ tool' = "close"
  /\ UNCHANGED <<generatorVars, disk, benchmarkVars>>

(* The stream's destructor flushes the rest and tells nobody if it cannot. *)
CloseFile ==
  /\ tool = "close"
  /\ tool' = "wrote"
  /\ disk' \in disk .. FileSize
  /\ UNCHANGED <<generatorVars, benchmarkVars>>

Killed ==
  /\ tool \in {"write", "close"}
  /\ tool' = "killed"
  /\ UNCHANGED <<generatorVars, disk, benchmarkVars>>

ToolOver == tool \in {"wrote", "error", "killed"}

-----------------------------------------------------------------------------
(* read_from_file(): how many whole records there are after the header,    *)
(* and how many are read.                                                  *)
MaxRecords == (disk - 2) \div 2

(* A seeded mistake: what is not there is not read.                        *)
ReadWhatIsThere == Min({Len(events), MaxRecords})

(* The header says event_count, which must not exceed what is there.       *)
RecordsToRead == Len(events)

(* A dataset too short for the benchmark is refused as well.               *)
ReadFile ==
  /\ ToolOver
  /\ benchmark = "begin"
  /\ IF disk >= 2 /\ RecordsToRead <= MaxRecords
     THEN /\ replayed' = SubSeq(events, 1, RecordsToRead)
          /\ benchmark' = IF Len(replayed') < Warmup + Measured THEN "too short" ELSE "replay"
     ELSE benchmark' = "refused" /\ UNCHANGED replayed
  /\ UNCHANGED <<generatorVars, fileVars, calls>>

(* encode_as_queue_order().                                                *)
Tagged(order, tag) == [id |-> order.id, qty |-> order.qty, tif |-> order.tif, event_tag |-> tag]

(* A seeded mistake: a replace is not told from a new order.               *)
Untagged(ev) == Tagged(ev, "NEW_OR_CANCEL")

Encoded(ev) ==
  IF ev.type = "REPLACE" THEN Tagged(ev, "REPLACE") ELSE Tagged(ev, "NEW_OR_CANCEL")

(* What the matching thread does with it: the call, with its arguments, is *)
(* written as the event it carries out.                                    *)
Dispatched(order) ==
  IF order.event_tag = "NEW_OR_CANCEL" /\ order.qty = 0
  THEN Event("CANCEL", order.id, 0, "GTC")
  ELSE IF order.event_tag = "REPLACE" THEN Event("REPLACE", order.id, order.qty, "GTC")
  ELSE Event("NEW_ORDER", order.id, order.qty, order.tif)

Replay ==
  /\ benchmark = "replay"
  /\ Len(calls) < Warmup + Measured
  /\ calls' = Append(calls, Dispatched(Encoded(replayed[Len(calls) + 1])))
  /\ UNCHANGED <<generatorVars, fileVars, benchmark, replayed>>

CountOf(seq, Test(_)) ==
  Cardinality({i \in Warmup + 1 .. Warmup + Measured : Test(seq[i])})

IsCancel(ev) == ev.type = "CANCEL"
IsOrder(ev) == ev.type # "CANCEL"

(* compute_dataset_composition() over the measured window, and             *)
(* compute_trial_stats() over the samples, one for each call in it.        *)
Composition == [cancel_count |-> CountOf(replayed, IsCancel),
                order_count |-> CountOf(replayed, IsOrder)]
TrialStats == [cancel_count |-> CountOf(calls, IsCancel),
               order_count |-> CountOf(calls, IsOrder)]

Done == (benchmark \in {"refused", "too short"} \/ Len(calls) = Warmup + Measured)
        /\ UNCHANGED datasetVars

DatasetNext ==
  \/ Configure \/ GenerateCancel \/ GenerateReplace \/ GenerateOrder
  \/ OpenFile \/ Flush \/ WriteFails \/ CheckStream \/ CloseFile \/ Killed
  \/ ReadFile \/ Replay \/ Done

-----------------------------------------------------------------------------
(* After the first n events, an order `id' has been sent to rest and has   *)
(* not been cancelled.                                                     *)
RestsAfter(id, n) ==
  \E j \in 1 .. n :
    /\ events[j].type = "NEW_ORDER" /\ events[j].tif = "GTC" /\ events[j].id = id
    /\ \A k \in j .. n : events[k].type = "CANCEL" => events[k].id # id

(* A cancel or replace names an order that an earlier event has sent to    *)
(* rest and that no event before has cancelled; and the list they draw     *)
(* from holds just those orders, each once: the swap-remove neither loses  *)
(* an id nor leaves a cancelled one behind, however often it runs.         *)
TargetsNamed ==
  /\ \A i \in DOMAIN events :
       events[i].type # "NEW_ORDER" => RestsAfter(events[i].id, i - 1)
  /\ Range(resting_ids) =
       {id \in {events[i].id : i \in DOMAIN events} : RestsAfter(id, Len(events))}
  /\ IsInjective(resting_ids)

(* The benchmark never replays part of a dataset: a file that was cut      *)
(* short, in its header, in a record or between records, is refused, also  *)
(* when the tool has reported success; and no whole file is refused.       *)
ReadWhole ==
  /\ benchmark \in {"replay", "too short"} => disk = FileSize /\ replayed = events
  /\ benchmark = "refused" => disk < FileSize

(* Every event reaches the operation it stands for, although the queue     *)
(* carries no event type: quantity zero and the tag tell them apart.  The  *)
(* composition that is reported is therefore that of the samples.          *)
DispatchedAsMeant ==
  /\ calls = SubSeq(replayed, 1, Len(calls))
  /\ Len(calls) = Warmup + Measured /\ benchmark = "replay" => TrialStats = Composition
=============================================================================
