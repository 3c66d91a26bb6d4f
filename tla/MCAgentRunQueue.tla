-------------------------- MODULE MCAgentRunQueue --------------------------
(* Instances of AgentRunQueue for TLC. *)
EXTENDS AgentRunQueue, TLC

\* Runs, workers and cancel requests are interchangeable. Only runs without
\* liveness properties use it.
Symmetry == Permutations(Runs) \cup Permutations(Workers) \cup Permutations(Cancelers)
===========================================================================
