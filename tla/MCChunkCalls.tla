---------------------------- MODULE MCChunkCalls -----------------------------
(* Two documents share the permits of two models; one of them works on its     *)
(* chunks side by side, and the calls of the other may hang.                   *)
EXTENDS ChunkCalls

CONSTANTS parallel, hanging, primary, fallback

BothTasks == [d \in Docs |-> IF d = parallel THEN 2 ELSE 1]
WithFallback == <<primary, fallback>>
OnePermit == [m \in Models |-> 1]
============================================================================
