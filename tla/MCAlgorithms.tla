---------------------------- MODULE MCAlgorithms ----------------------------
(***************************************************************************)
(* What works by itself, with no other thread to meet: the pure            *)
(* algorithms, each called once on every one of its inputs, and the life   *)
(* of a dataset.  An initial state has the input of one of them.           *)
(***************************************************************************)
EXTENDS ProRataAllocation, OrderFrame, LatencyStats, Dataset

vars == <<allocationVars, frameVars, statsVars, datasetVars>>

Init ==
  \/ AllocationInit /\ NoFrames /\ NoStats /\ NoDataset
  \/ NoAllocation /\ FrameInit /\ NoStats /\ NoDataset
  \/ NoAllocation /\ NoFrames /\ (SamplesInit \/ AblationInit) /\ NoDataset
  \/ NoAllocation /\ NoFrames /\ NoStats /\ DatasetInit

(* An algorithm that has been called has returned and does nothing more.   *)
Returned ==
  /\ shares # <<>> \/ verdict # "none" \/ percentiles # NoResult \/ verdicts # NoResult
  /\ UNCHANGED vars

Next ==
  \/ Allocate /\ UNCHANGED <<frameVars, statsVars, datasetVars>>
  \/ HandleFrame /\ UNCHANGED <<allocationVars, statsVars, datasetVars>>
  \/ /\ ComputePercentiles \/ ClassifyAblation
     /\ UNCHANGED <<allocationVars, frameVars, datasetVars>>
  \/ DatasetNext /\ UNCHANGED <<allocationVars, frameVars, statsVars>>
  \/ Returned

Spec == Init /\ [][Next]_vars
=============================================================================
