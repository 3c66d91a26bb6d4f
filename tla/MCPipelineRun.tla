---------------------------- MODULE MCPipelineRun ---------------------------
(* Instances of PipelineRun for TLC. *)
EXTENDS PipelineRun, TLC

CONSTANTS blocking, a1, b1, b2

OneSequential == <<blocking>>
TwoSequential == <<blocking, a1>>
Symmetry == Permutations({b1, b2})
============================================================================
