--------------------------- MODULE RunLifecycle ---------------------------
(***************************************************************************)
(* What the agent-platform run queue promises to the users who submit      *)
(* runs, without workers, leases, cancel requests or crashes: a submitted  *)
(* run waits, is open while somebody is responsible for it, and is settled *)
(* with one outcome that never changes afterwards.                         *)
(*                                                                         *)
(* Several runs may move in one step: one UPDATE of the lease sweeper, or  *)
(* the death of the server process, touches any number of them.            *)
(***************************************************************************)
CONSTANT Runs

VARIABLES phase,    \* where each run stands
          outcome   \* the final status of each settled run

lifecycleVars == <<phase, outcome>>

Phases == {"absent", "waiting", "open", "settled"}
Outcomes == {"succeeded", "failed", "canceled"}
NoOutcome == "none"

Init == /\ phase = [r \in Runs |-> "absent"]
        /\ outcome = [r \in Runs |-> NoOutcome]

Submitted(r) == phase[r] = "absent" /\ phase'[r] = "waiting" /\ outcome'[r] = NoOutcome

Taken(r) == phase[r] = "waiting" /\ phase'[r] = "open" /\ outcome'[r] = NoOutcome

Settled(r) == /\ phase[r] \in {"waiting", "open"}
              /\ phase'[r] = "settled"
              /\ outcome'[r] \in Outcomes

Kept(r) == phase'[r] = phase[r] /\ outcome'[r] = outcome[r]

Next == /\ phase' \in [Runs -> Phases]
        /\ outcome' \in [Runs -> Outcomes \cup {NoOutcome}]
        /\ \A r \in Runs : Submitted(r) \/ Taken(r) \/ Settled(r) \/ Kept(r)

SafeSpec == Init /\ [][Next]_lifecycleVars

\* Once submitted, a run keeps moving until it is settled.
Progress == \A r \in Runs : phase[r] = "waiting" ~> phase[r] = "settled"

Spec == SafeSpec /\ Progress
===========================================================================
