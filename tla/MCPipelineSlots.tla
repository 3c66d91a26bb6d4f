--------------------------- MODULE MCPipelineSlots --------------------------
(* Instances of PipelineSlots for TLC. *)
EXTENDS PipelineSlots, TLC

CONSTANTS d1, d2, d3, c1

\* One command with two documents, and a document that is an event of its own.
OneCommandDocs == {d1, d2, d3}
OneCommandParent == (d1 :> c1) @@ (d2 :> c1) @@ (d3 :> NoCommand)
OffPeakMode == (d1 :> "auto_offpeak") @@ (d2 :> "none") @@ (d3 :> "auto_offpeak")
============================================================================
