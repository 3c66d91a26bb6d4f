----------------------------- MODULE PhasedRun -----------------------------
(***************************************************************************)
(* What the processing of a record promises, without the status row, its   *)
(* lock, the calls to models and the goroutines: the processors work, then *)
(* those that index what was made do, and the run ends with one outcome.   *)
(* A run that nobody cancels and that does not die ends only when every    *)
(* processor is done and every indexer has had its turn, though processors *)
(* may have failed; one that is canceled ends as stopped, wherever the     *)
(* cancel has met it, and never while a processor is at work.              *)
(*                                                                         *)
(* Several processors may move in one step: a fan-out, or a stop that      *)
(* leaves out what has not begun.                                          *)
(***************************************************************************)
CONSTANTS Procs, Indexers

VARIABLES stage,     \* where the run is
          work,      \* where each of its processors is
          indexed,   \* the indexers that have had their turn
          canceled,  \* the run is to stop
          trouble,   \* something of it has failed
          outcome    \* the status the last run has ended with

runVars == <<stage, work, indexed, canceled, trouble, outcome>>

InProgress == stage \in {"processing", "indexing"}
AtRest == [p \in Procs |-> "idle"]

Init == /\ stage \in {"idle", "processing"}
        /\ work = AtRest /\ indexed = {}
        /\ canceled = FALSE /\ trouble = FALSE
        /\ outcome = "none"

Start == /\ ~InProgress
         /\ stage' = "processing" /\ outcome' = "none"
         /\ UNCHANGED <<work, indexed, canceled, trouble>>

\* A processor that was left out is done without having been busy.
Forward(p) == \/ work'[p] = work[p]
              \/ work[p] = "idle" /\ work'[p] \in {"busy", "done"}
              \/ work[p] = "busy" /\ work'[p] = "done"

Work == /\ stage = "processing"
        /\ work' \in [Procs -> {"idle", "busy", "done"}]
        /\ \A p \in Procs : Forward(p)
        /\ trouble' \in BOOLEAN /\ (trouble => trouble')
        /\ UNCHANGED <<stage, indexed, canceled, outcome>>

Cancel == /\ InProgress
          /\ canceled' = TRUE
          /\ UNCHANGED <<stage, work, indexed, trouble, outcome>>

BeginIndexing == /\ stage = "processing" /\ ~canceled
                 /\ \A p \in Procs : work[p] = "done"
                 /\ stage' = "indexing"
                 /\ UNCHANGED <<work, indexed, canceled, trouble, outcome>>

Index == /\ stage = "indexing"
         /\ indexed' \subseteq Indexers /\ indexed \subseteq indexed'
         /\ UNCHANGED <<stage, work, canceled, trouble, outcome>>

Leave == /\ work' = AtRest /\ indexed' = {}
         /\ canceled' = FALSE /\ trouble' = FALSE

End == /\ \/ stage = "processing" /\ canceled /\ \A p \in Procs : work[p] # "busy"
          \/ stage = "indexing" /\ indexed = Indexers
       /\ stage' = "over"
       /\ outcome' = IF canceled THEN "stopped" ELSE IF trouble THEN "failed" ELSE "success"
       /\ Leave

\* The process dies, or shuts down before the run has begun to work.
Die == /\ InProgress
       /\ stage' = "dead" /\ outcome' = "none"
       /\ Leave

Next == Start \/ Work \/ Cancel \/ BeginIndexing \/ Index \/ End \/ Die

Spec == Init /\ [][Next]_runVars
============================================================================
