---------------------------- MODULE MCBatchedRun -----------------------------
(* A run with two batch processors, the first of them multi-pass, and two that *)
(* only have a step in Phase C, with the names the code makes them wait for.   *)
EXTENDS BatchedRun

CONSTANTS metrics, provisions, structure, normalize, entityRelation

MetricsFirst == <<metrics, provisions>>

\* PostProcessDependsOn of extract_product_structure and normalize_assertions.
Waits == [p \in Indexers |->
            CASE p = structure -> {entityRelation}
              [] p = normalize -> {metrics}
              [] OTHER -> {}]
============================================================================
