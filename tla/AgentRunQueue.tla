--------------------------- MODULE AgentRunQueue ---------------------------
(***************************************************************************)
(* The run queue of the agent platform (server/api/agentplatformhandler):  *)
(* the rows of ap_task_run, the workers of the pool that claim and execute *)
(* them, the HTTP cancel handler, the lease renewers and the lease         *)
(* sweeper, all of one server process over one database.                   *)
(*                                                                         *)
(* Time is abstract: a lease is "live" until LeaseLapses makes it          *)
(* "lapsed". One SQL statement is one step; whatever happens between two   *)
(* statements is interleaved.                                              *)
(***************************************************************************)
EXTENDS Naturals, Sequences, FiniteSets

CONSTANTS Runs,           \* the runs users may submit
          Workers,        \* the worker goroutines of the pool
          Cancelers,      \* concurrent HTTP cancel requests
          NoRun,          \* a worker or a cancel request without a run
          MaxCrashes,     \* bound: how often the server process dies
          DbMayFail,      \* may a worker's UPDATE or INSERT fail (it is only logged)?
          RenewalsKeepUp  \* does a working worker renew before its lease lapses?

ASSUME NoRunAssumption == NoRun \notin Runs
ASSUME CrashBoundAssumption == MaxCrashes \in Nat
ASSUME FlagAssumption == DbMayFail \in BOOLEAN /\ RenewalsKeepUp \in BOOLEAN

VARIABLES
  status,     \* ap_task_run.status of each run, "absent" before its INSERT
  lease,      \* ap_task_run.lease_expires_at
  arrival,    \* the runs in the order of queued_at
  lastEvent,  \* the payload of the last lifecycle event in ap_task_event
  pc,         \* where each worker is in runLoop / executeRun
  job,        \* the run each worker executes
  ctxDone,    \* has the worker's runCtx been canceled?
  cancelPc,   \* where each cancel request is in CancelTaskRun
  cancelRun,  \* the run it is about
  crashes,    \* how often the process died
  claims      \* history: how often each run was claimed

rowVars    == <<status, lease, arrival, lastEvent>>
workerVars == <<pc, job, ctxDone>>
cancelVars == <<cancelPc, cancelRun>>
historyVars == <<crashes, claims>>
vars == <<rowVars, workerVars, cancelVars, historyVars>>

Terminal == {"succeeded", "failed", "canceled"}
Active   == {"claimed", "running"}
Statuses == {"absent", "queued"} \cup Active \cup Terminal

\* A worker between claimNextRun and the UPDATE to 'running'.
BeforeMark == {"claimed", "registered"}
\* A worker that renewLease helps: from Prepare's return to the deferred leaseCancel.
Renewing == {"working", "ranOk", "ranErr", "finished"}
\* A worker whose cancel func is in the registry runCancels.
Registered == {"registered", "preparing"} \cup Renewing
WorkerPcs == {"idle", "claimed"} \cup Registered

Holds(w, r) == job[w] = r
Held(r) == \E w \in Workers : Holds(w, r)

TypeOK ==
  /\ status \in [Runs -> Statuses]
  /\ lease \in [Runs -> {"none", "live", "lapsed"}]
  /\ arrival \in Seq(Runs)
  /\ lastEvent \in [Runs -> {"none", "running"} \cup Terminal]
  /\ pc \in [Workers -> WorkerPcs]
  /\ job \in [Workers -> Runs \cup {NoRun}]
  /\ ctxDone \in [Workers -> BOOLEAN]
  /\ cancelPc \in [Cancelers -> {"idle", "read", "updated"}]
  /\ cancelRun \in [Cancelers -> Runs \cup {NoRun}]
  /\ crashes \in 0..MaxCrashes
  /\ claims \in [Runs -> Nat]

Init ==
  /\ status = [r \in Runs |-> "absent"]
  /\ lease = [r \in Runs |-> "none"]
  /\ arrival = <<>>
  /\ lastEvent = [r \in Runs |-> "none"]
  /\ pc = [w \in Workers |-> "idle"]
  /\ job = [w \in Workers |-> NoRun]
  /\ ctxDone = [w \in Workers |-> FALSE]
  /\ cancelPc = [h \in Cancelers |-> "idle"]
  /\ cancelRun = [h \in Cancelers |-> NoRun]
  /\ crashes = 0
  /\ claims = [r \in Runs |-> 0]

---------------------------------------------------------------------------
(* Users *)

\* RunIssue: INSERT ... status 'queued'.
RunIssue(r) ==
  /\ status[r] = "absent"
  /\ status' = [status EXCEPT ![r] = "queued"]
  /\ arrival' = Append(arrival, r)
  /\ UNCHANGED <<lease, lastEvent, workerVars, cancelVars, historyVars>>

\* CancelTaskRun reads the row; a terminal run is answered 409 (no step).
CancelRead(h, r) ==
  /\ cancelPc[h] = "idle"
  /\ status[r] \in {"queued"} \cup Active
  /\ cancelPc' = [cancelPc EXCEPT ![h] = "read"]
  /\ cancelRun' = [cancelRun EXCEPT ![h] = r]
  /\ UNCHANGED <<rowVars, workerVars, historyVars>>

\* Seeded fault: the UPDATE trusts the status read before.
UnguardedCancelUpdate(h) ==
  /\ cancelPc[h] = "read"
  /\ cancelPc' = [cancelPc EXCEPT ![h] = "updated"]
  /\ status' = [status EXCEPT ![cancelRun[h]] = "canceled"]
  /\ UNCHANGED <<lease, arrival, lastEvent, workerVars, cancelRun, historyVars>>

\* The conditional UPDATE: nothing if the run finished since it was read.
CancelUpdate(h) ==
  LET r == cancelRun[h] IN
  /\ cancelPc[h] = "read"
  /\ cancelPc' = [cancelPc EXCEPT ![h] = "updated"]
  /\ status' = IF status[r] \in {"queued"} \cup Active
               THEN [status EXCEPT ![r] = "canceled"]
               ELSE status
  /\ UNCHANGED <<lease, arrival, lastEvent, workerVars, cancelRun, historyVars>>

\* Seeded fault: the cancel func is registered only after Prepare.
LateCancelSignal(h) ==
  /\ cancelPc[h] = "updated"
  /\ ctxDone' = [w \in Workers |->
                   ctxDone[w] \/ (Holds(w, cancelRun[h]) /\ pc[w] \in Renewing)]
  /\ cancelPc' = [cancelPc EXCEPT ![h] = "idle"]
  /\ cancelRun' = [cancelRun EXCEPT ![h] = NoRun]
  /\ UNCHANGED <<rowVars, pc, job, historyVars>>

\* signalCancel: cancels the context found in the in-process registry, if any.
CancelSignal(h) ==
  /\ cancelPc[h] = "updated"
  /\ ctxDone' = [w \in Workers |->
                   ctxDone[w] \/ (Holds(w, cancelRun[h]) /\ pc[w] \in Registered)]
  /\ cancelPc' = [cancelPc EXCEPT ![h] = "idle"]
  /\ cancelRun' = [cancelRun EXCEPT ![h] = NoRun]
  /\ UNCHANGED <<rowVars, pc, job, historyVars>>

---------------------------------------------------------------------------
(* Workers *)

\* Seeded fault: no ORDER BY.
AnyQueued(r) == status[r] = "queued"

\* The oldest queued run: ORDER BY queued_at LIMIT 1.
Oldest(r) ==
  \E i \in 1..Len(arrival) :
    /\ arrival[i] = r
    /\ \A j \in 1..(i - 1) : status[arrival[j]] # "queued"

\* claimNextRun: one UPDATE claims the oldest queued row and starts its lease.
Claim(w, r) ==
  /\ pc[w] = "idle"
  /\ status[r] = "queued"
  /\ Oldest(r)
  /\ status' = [status EXCEPT ![r] = "claimed"]
  /\ lease' = [lease EXCEPT ![r] = "live"]
  /\ pc' = [pc EXCEPT ![w] = "claimed"]
  /\ job' = [job EXCEPT ![w] = r]
  /\ claims' = [claims EXCEPT ![r] = @ + 1]
  /\ UNCHANGED <<arrival, lastEvent, ctxDone, cancelVars, crashes>>

\* executeRun makes the run's context and registers its cancel func.
Register(w) ==
  /\ pc[w] = "claimed"
  /\ pc' = [pc EXCEPT ![w] = "registered"]
  /\ UNCHANGED <<rowVars, job, ctxDone, cancelVars, historyVars>>

\* insertEvent logs a failed INSERT and goes on.
EventInserted(r, payload) ==
  \/ lastEvent' = [lastEvent EXCEPT ![r] = payload]
  \/ DbMayFail /\ UNCHANGED lastEvent

\* finishRun: an UPDATE guarded by the status, then an unconditional event.
FinishRun(w, outcome) ==
  LET r == job[w] IN
  /\ \/ status' = IF status[r] \in Terminal THEN status
                  ELSE [status EXCEPT ![r] = outcome]
     \/ DbMayFail /\ UNCHANGED status
  /\ EventInserted(r, outcome)
  /\ pc' = [pc EXCEPT ![w] = "finished"]
  /\ UNCHANGED <<lease, arrival, job, ctxDone, cancelVars, historyVars>>

\* buildTaskSpec or NewRunnerByKind fails.
SetupFails(w) == pc[w] = "registered" /\ FinishRun(w, "failed")

\* The row is set to 'running' whatever its status is; an error is logged.
MarkRunning(w) ==
  LET r == job[w] IN
  /\ pc[w] = "registered"
  /\ \/ status' = [status EXCEPT ![r] = "running"]
     \/ DbMayFail /\ UNCHANGED status
  /\ EventInserted(r, "running")
  /\ pc' = [pc EXCEPT ![w] = "preparing"]
  /\ UNCHANGED <<lease, arrival, job, ctxDone, cancelVars, historyVars>>

\* runner.Prepare fails, for a reason of its own or because runCtx is done.
PrepareFails(w) == pc[w] = "preparing" /\ FinishRun(w, "failed")

\* runner.Prepare returns; only now does the lease renewer start.
PrepareDone(w) ==
  /\ pc[w] = "preparing"
  /\ pc' = [pc EXCEPT ![w] = "working"]
  /\ UNCHANGED <<rowVars, job, ctxDone, cancelVars, historyVars>>

\* runner.Run returns, with or without an error; artifacts and trace are stored.
RunReturns(w) ==
  /\ pc[w] = "working"
  /\ \E end \in {"ranOk", "ranErr"} : pc' = [pc EXCEPT ![w] = end]
  /\ UNCHANGED <<rowVars, job, ctxDone, cancelVars, historyVars>>

FinishSucceeded(w) == pc[w] = "ranOk" /\ FinishRun(w, "succeeded")

\* An error while runCtx is done counts as a cancel.
FinishCanceled(w) ==
  /\ pc[w] = "ranErr"
  /\ ctxDone[w]
  /\ IF status[job[w]] # "canceled"
     THEN FinishRun(w, "canceled")
     ELSE /\ pc' = [pc EXCEPT ![w] = "finished"]
          /\ UNCHANGED <<rowVars, job, ctxDone, cancelVars, historyVars>>

FinishFailed(w) == pc[w] = "ranErr" /\ ~ctxDone[w] /\ FinishRun(w, "failed")

\* executeRun returns: leaseCancel, unregisterCancel and cancel are deferred.
LetGo(w) ==
  /\ pc[w] = "finished"
  /\ pc' = [pc EXCEPT ![w] = "idle"]
  /\ job' = [job EXCEPT ![w] = NoRun]
  /\ ctxDone' = [ctxDone EXCEPT ![w] = FALSE]
  /\ UNCHANGED <<rowVars, cancelVars, historyVars>>

---------------------------------------------------------------------------
(* Leases *)

\* The ticker of renewLease fires, unless its context is done.
Renew(w) ==
  LET r == job[w] IN
  /\ pc[w] \in Renewing
  /\ ~ctxDone[w]
  /\ status[r] \in Active
  /\ lease[r] = "lapsed"
  /\ lease' = [lease EXCEPT ![r] = "live"]
  /\ UNCHANGED <<status, arrival, lastEvent, workerVars, cancelVars, historyVars>>

\* Sixty seconds pass without a renewal.
LeaseLapses(r) ==
  /\ lease[r] = "live"
  /\ RenewalsKeepUp => ~\E w \in Workers : Holds(w, r) /\ pc[w] \in Renewing /\ ~ctxDone[w]
  /\ lease' = [lease EXCEPT ![r] = "lapsed"]
  /\ UNCHANGED <<status, arrival, lastEvent, workerVars, cancelVars, historyVars>>

\* Seeded fault: only 'running' rows are reclaimed.
SweepableRunning == {r \in Runs : status[r] = "running" /\ lease[r] = "lapsed"}

\* What one UPDATE of leaseSweeper reclaims.
Sweepable == {r \in Runs : status[r] \in Active /\ lease[r] = "lapsed"}

\* Seeded fault: the sweeper writes a status the table does not know.
SweepToExpired ==
  /\ Sweepable # {}
  /\ status' = [r \in Runs |-> IF r \in Sweepable THEN "expired" ELSE status[r]]
  /\ UNCHANGED <<lease, arrival, lastEvent, workerVars, cancelVars, historyVars>>

\* Seeded fault: the sweeper gives the run to another worker.
SweepToQueue ==
  /\ Sweepable # {}
  /\ status' = [r \in Runs |-> IF r \in Sweepable THEN "queued" ELSE status[r]]
  /\ UNCHANGED <<lease, arrival, lastEvent, workerVars, cancelVars, historyVars>>

\* leaseSweeper fails them; it signals no worker.
Sweep ==
  /\ Sweepable # {}
  /\ status' = [r \in Runs |-> IF r \in Sweepable THEN "failed" ELSE status[r]]
  /\ UNCHANGED <<lease, arrival, lastEvent, workerVars, cancelVars, historyVars>>

---------------------------------------------------------------------------
\* The server process dies and is started again: StartWorkers repairs no row.
Crash ==
  /\ crashes < MaxCrashes
  /\ crashes' = crashes + 1
  /\ pc' = [w \in Workers |-> "idle"]
  /\ job' = [w \in Workers |-> NoRun]
  /\ ctxDone' = [w \in Workers |-> FALSE]
  /\ cancelPc' = [h \in Cancelers |-> "idle"]
  /\ cancelRun' = [h \in Cancelers |-> NoRun]
  /\ UNCHANGED <<rowVars, claims>>

Execute(w) ==
  \/ Register(w)
  \/ SetupFails(w)
  \/ MarkRunning(w)
  \/ PrepareFails(w)
  \/ PrepareDone(w)
  \/ RunReturns(w)
  \/ FinishSucceeded(w)
  \/ FinishCanceled(w)
  \/ FinishFailed(w)
  \/ LetGo(w)

Next ==
  \/ \E r \in Runs : RunIssue(r) \/ LeaseLapses(r)
  \/ \E h \in Cancelers : CancelUpdate(h) \/ CancelSignal(h)
  \/ \E h \in Cancelers, r \in Runs : CancelRead(h, r)
  \/ \E w \in Workers, r \in Runs : Claim(w, r)
  \/ \E w \in Workers : Execute(w) \/ Renew(w)
  \/ Sweep
  \/ Crash

Spec == Init /\ [][Next]_vars

(***************************************************************************)
(* Fairness: an idle worker polls again, a worker that executes a run goes *)
(* on (runner.Run is bounded by TaskSpec.Timeout), a lease nobody renews   *)
(* lapses, and the sweeper's ticker fires while there is something to      *)
(* reclaim. Users, cancel requests, renewals and crashes are not fair.     *)
(***************************************************************************)
Fairness ==
  /\ \A w \in Workers : WF_vars(\E r \in Runs : Claim(w, r))
  /\ \A w \in Workers : WF_vars(Execute(w))
  /\ \A r \in Runs : WF_vars(status[r] \in Active /\ LeaseLapses(r))
  /\ WF_vars(Sweep)

FairSpec == Spec /\ Fairness

---------------------------------------------------------------------------
(* Properties *)

\* No run is ever executed twice, whatever dies or lapses: a claimed row
\* never returns to the queue (claimNextRun, leaseSweeper, StartWorkers), so
\* no two workers ever work for the same row.
ExecutedOnce ==
  /\ \A r \in Runs : claims[r] <= 1
  /\ \A v, w \in Workers : job[v] = job[w] /\ job[v] # NoRun => v = w

\* No run is claimed while an older one still waits (ORDER BY queued_at).
NoOvertaking ==
  \A i, j \in 1..Len(arrival) :
    i < j /\ status[arrival[i]] = "queued" => claims[arrival[j]] = 0

\* A row the sweeper would have to rescue carries the lease it looks at: one
\* set back to 'running' after a cancel or a sweep still has one.
ActiveRowsHaveLease == \A r \in Runs : status[r] \in Active => lease[r] # "none"

\* A terminal status is final, except while a worker that claimed the run has
\* not yet passed the unguarded UPDATE to 'running' of executeRun.
FinalOutsideWindow ==
  [][\A r \in Runs :
       /\ status[r] \in Terminal
       /\ ~\E w \in Workers : Holds(w, r) /\ pc[w] \in BeforeMark
       => status'[r] = status[r]]_vars

\* While a worker prepares or runs a run whose row says 'canceled', its context
\* is done, or the cancel handler is about to signal it: a cancel is never
\* lost once the run is marked running (CancelTaskRun, the runCancels registry).
CanceledIsInterrupted ==
  \A w \in Workers :
    pc[w] \in {"preparing", "working"} /\ status[job[w]] = "canceled" =>
      \/ ctxDone[w]
      \/ \E h \in Cancelers : cancelPc[h] = "updated" /\ cancelRun[h] = job[w]

\* A run is open while its row is active or a worker still holds it.
PhaseOf(r) ==
  CASE status[r] = "absent" -> "absent"
    [] status[r] = "queued" -> "waiting"
    [] status[r] \in Active \/ (status[r] \in Terminal /\ Held(r)) -> "open"
    [] OTHER -> "settled"

phaseOf == [r \in Runs |-> PhaseOf(r)]

outcomeOf == [r \in Runs |-> IF phaseOf[r] = "settled" THEN status[r] ELSE "none"]

Lifecycle == INSTANCE RunLifecycle WITH phase <- phaseOf, outcome <- outcomeOf

\* The queue implements RunLifecycle: a submitted run waits, is open, and is settled
\* exactly once and for good when nobody works on it any more. It is settled in the end
\* though its worker may die or its final UPDATE fail (leaseSweeper is the backstop).
ImplementsLifecycle == Lifecycle!Spec

---------------------------------------------------------------------------
(* What comments in the code promise, and the code does not keep. *)

\* "Mark canceled. If still queued, this ends the story." (task.go): a run the
\* cancel handler marked canceled stays canceled.
CanceledIsFinal ==
  [][\A r \in Runs : status[r] = "canceled" => status'[r] = "canceled"]_vars
===========================================================================
