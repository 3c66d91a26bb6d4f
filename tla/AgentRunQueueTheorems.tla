----------------------- MODULE AgentRunQueueTheorems -----------------------
(***************************************************************************)
(* Theorems about AgentRunQueue, for every number of runs, workers, cancel *)
(* requests and crashes.                                                   *)
(*                                                                         *)
(* The claim of a run is what everything hangs on: Claimed says that a row *)
(* still waiting was never claimed, that a row any worker holds or any     *)
(* status that only a worker can write was claimed once, and that a claim  *)
(* left a lease behind. Queue says what queued_at orders.                  *)
(***************************************************************************)
EXTENDS AgentRunQueue, TLAPS

\* Workers and requests without a run are exactly the idle ones.
Idle ==
  /\ \A w \in Workers : pc[w] = "idle" <=> job[w] = NoRun
  /\ \A h \in Cancelers : cancelPc[h] # "idle" => cancelRun[h] \in Runs

Unshared == \A v, w \in Workers : job[v] = job[w] /\ job[v] # NoRun => v = w

Claimed ==
  /\ \A r \in Runs : claims[r] <= 1
  /\ \A r \in Runs : status[r] \in {"absent", "queued"} => claims[r] = 0
  /\ \A r \in Runs : status[r] \in Active => claims[r] = 1
  /\ \A w \in Workers : job[w] # NoRun => claims[job[w]] = 1
  /\ \A r \in Runs : claims[r] = 1 => lease[r] # "none"

Queue ==
  /\ \A i \in 1..Len(arrival) : status[arrival[i]] # "absent"
  /\ \A i, j \in 1..Len(arrival) : arrival[i] = arrival[j] => i = j

IInv == TypeOK /\ Idle /\ Unshared /\ Claimed

\* The steps of one worker, named one by one, so that a proof about a step
\* has one case for each.
LEMMA ExecuteCases ==
  ASSUME NEW w \in Workers, Execute(w)
  PROVE  \/ Register(w) \/ PrepareDone(w) \/ RunReturns(w) \/ LetGo(w) \/ MarkRunning(w)
         \/ (pc[w] \in {"registered", "preparing", "ranOk", "ranErr"}
             /\ \E o \in Terminal : FinishRun(w, o))
         \/ (/\ pc[w] = "ranErr"
             /\ pc' = [pc EXCEPT ![w] = "finished"]
             /\ UNCHANGED <<rowVars, job, ctxDone, cancelVars, historyVars>>)
BY DEF Execute, SetupFails, PrepareFails, FinishSucceeded, FinishCanceled, FinishFailed, Terminal

\* What the row of a run becomes when a worker finishes it.
LEMMA FinishRunRow ==
  ASSUME TypeOK, NEW w \in Workers, job[w] \in Runs, NEW o \in Terminal, FinishRun(w, o)
  PROVE  /\ status' \in [Runs -> Statuses]
         /\ \A r \in Runs : r # job[w] => status'[r] = status[r]
         /\ \A r \in Runs : status[r] \in Terminal => status'[r] = status[r]
         /\ status'[job[w]] \in Terminal \cup {status[job[w]]}
         /\ lastEvent' \in [Runs -> {"none", "running"} \cup Terminal]
BY DEF FinishRun, EventInserted, TypeOK, Statuses

LEMMA InitIInv == Init => IInv
BY CrashBoundAssumption DEF Init, IInv, TypeOK, Idle, Unshared, Claimed, Active, Terminal, Statuses,
   WorkerPcs, Registered, Renewing

\* The inductive invariant is preserved by every step.
LEMMA StepIInv == IInv /\ [Next]_vars => IInv'
<1> SUFFICES ASSUME IInv, [Next]_vars PROVE IInv'
  OBVIOUS
<1> USE NoRunAssumption DEF rowVars, workerVars, cancelVars, historyVars
<1>0. TypeOK /\ Idle /\ Unshared /\ Claimed
  BY DEF IInv
<1>1. ASSUME NEW r \in Runs, RunIssue(r) PROVE IInv'
  <2>1. TypeOK'
    BY <1>0, <1>1 DEF RunIssue, TypeOK, Statuses
  <2>2. Idle' /\ Unshared'
    BY <1>0, <1>1 DEF RunIssue, TypeOK, Idle, Unshared
  <2>3. Claimed'
    BY <1>0, <1>1 DEF RunIssue, TypeOK, Claimed, Active
  <2> QED BY <2>1, <2>2, <2>3 DEF IInv
<1>2. ASSUME NEW r \in Runs, LeaseLapses(r) PROVE IInv'
  <2>1. TypeOK'
    BY <1>0, <1>2 DEF LeaseLapses, TypeOK
  <2>2. Idle' /\ Unshared'
    BY <1>0, <1>2 DEF LeaseLapses, TypeOK, Idle, Unshared
  <2>3. Claimed'
    BY <1>0, <1>2 DEF LeaseLapses, TypeOK, Claimed, Active
  <2> QED BY <2>1, <2>2, <2>3 DEF IInv
<1>3. ASSUME NEW h \in Cancelers, CancelUpdate(h) PROVE IInv'
  <2>1. TypeOK'
    BY <1>0, <1>3 DEF CancelUpdate, TypeOK, Statuses, Terminal
  <2>2. Idle' /\ Unshared'
    BY <1>0, <1>3 DEF CancelUpdate, TypeOK, Idle, Unshared
  <2>3. Claimed'
    BY <1>0, <1>3 DEF CancelUpdate, TypeOK, Idle, Claimed, Active
  <2> QED BY <2>1, <2>2, <2>3 DEF IInv
<1>4. ASSUME NEW h \in Cancelers, CancelSignal(h) PROVE IInv'
  <2>1. TypeOK'
    BY <1>0, <1>4 DEF CancelSignal, TypeOK
  <2>2. Idle' /\ Unshared'
    BY <1>0, <1>4 DEF CancelSignal, TypeOK, Idle, Unshared
  <2>3. Claimed'
    BY <1>0, <1>4 DEF CancelSignal, TypeOK, Claimed, Active
  <2> QED BY <2>1, <2>2, <2>3 DEF IInv
<1>5. ASSUME NEW h \in Cancelers, NEW r \in Runs, CancelRead(h, r) PROVE IInv'
  <2>1. TypeOK'
    BY <1>0, <1>5 DEF CancelRead, TypeOK
  <2>2. Idle' /\ Unshared'
    BY <1>0, <1>5 DEF CancelRead, TypeOK, Idle, Unshared
  <2>3. Claimed'
    BY <1>0, <1>5 DEF CancelRead, TypeOK, Claimed, Active
  <2> QED BY <2>1, <2>2, <2>3 DEF IInv
<1>6. ASSUME NEW w \in Workers, NEW r \in Runs, Claim(w, r) PROVE IInv'
  <2>1. TypeOK'
    BY <1>0, <1>6 DEF Claim, TypeOK, Statuses, Active, WorkerPcs
  <2>2. claims[r] = 0 /\ \A v \in Workers : job[v] # r
    BY <1>0, <1>6 DEF Claim, Claimed, TypeOK
  <2>3. Idle' /\ Unshared'
    BY <1>0, <1>6, <2>2 DEF Claim, TypeOK, Idle, Unshared
  <2>4. Claimed'
    BY <1>0, <1>6, <2>2 DEF Claim, TypeOK, Claimed, Active
  <2> QED BY <2>1, <2>3, <2>4 DEF IInv
<1>7. ASSUME NEW w \in Workers, Execute(w) PROVE IInv'
  <2>1. pc[w] # "idle" /\ job[w] \in Runs /\ claims[job[w]] = 1
        /\ status[job[w]] \notin {"absent", "queued"}
    <3>1. pc[w] # "idle"
      BY <1>7, ExecuteCases DEF Register, PrepareDone, RunReturns, LetGo, MarkRunning
    <3> QED BY <3>1, <1>0 DEF Idle, TypeOK, Claimed
  <2>2. CASE Register(w) \/ PrepareDone(w) \/ RunReturns(w)
    <3>1. TypeOK'
      BY <1>0, <2>2 DEF Register, PrepareDone, RunReturns, TypeOK, WorkerPcs, Registered, Renewing
    <3>2. Idle' /\ Unshared'
      BY <1>0, <2>2 DEF Register, PrepareDone, RunReturns, TypeOK, Idle, Unshared
    <3>3. Claimed'
      BY <1>0, <2>2 DEF Register, PrepareDone, RunReturns, TypeOK, Claimed, Active
    <3> QED BY <3>1, <3>2, <3>3 DEF IInv
  <2>3. CASE LetGo(w)
    <3>1. TypeOK'
      BY <1>0, <2>3 DEF LetGo, TypeOK, WorkerPcs
    <3>2. Idle' /\ Unshared'
      BY <1>0, <2>3 DEF LetGo, TypeOK, Idle, Unshared
    <3>3. Claimed'
      BY <1>0, <2>3 DEF LetGo, TypeOK, Claimed, Active
    <3> QED BY <3>1, <3>2, <3>3 DEF IInv
  <2>4. CASE MarkRunning(w)
    <3>1. TypeOK'
      BY <1>0, <2>1, <2>4 DEF MarkRunning, EventInserted, TypeOK, Statuses, Active, WorkerPcs, Registered
    <3>2. Idle' /\ Unshared'
      BY <1>0, <2>4 DEF MarkRunning, TypeOK, Idle, Unshared
    <3>3. Claimed'
      BY <1>0, <2>1, <2>4 DEF MarkRunning, TypeOK, Claimed, Active
    <3> QED BY <3>1, <3>2, <3>3 DEF IInv
  <2>5. ASSUME NEW o \in Terminal, FinishRun(w, o) PROVE IInv'
    <3>1. TypeOK'
      BY <1>0, <2>1, <2>5, FinishRunRow DEF FinishRun, TypeOK, WorkerPcs, Registered, Renewing
    <3>2. Idle' /\ Unshared'
      BY <1>0, <2>1, <2>5 DEF FinishRun, TypeOK, Idle, Unshared
    <3>3. Claimed'
      BY <1>0, <2>1, <2>5, FinishRunRow DEF FinishRun, TypeOK, Claimed, Active, Terminal
    <3> QED BY <3>1, <3>2, <3>3 DEF IInv
  <2>6. ASSUME pc[w] = "ranErr", pc' = [pc EXCEPT ![w] = "finished"],
               UNCHANGED <<rowVars, job, ctxDone, cancelVars, historyVars>>
        PROVE IInv'
    <3>1. TypeOK'
      BY <1>0, <2>6 DEF TypeOK, WorkerPcs, Registered, Renewing
    <3>2. Idle' /\ Unshared' /\ Claimed'
      BY <1>0, <2>6 DEF TypeOK, Idle, Unshared, Claimed
    <3> QED BY <3>1, <3>2 DEF IInv
  <2> QED BY <1>7, ExecuteCases, <2>2, <2>3, <2>4, <2>5, <2>6
<1>8. ASSUME NEW w \in Workers, Renew(w) PROVE IInv'
  <2>1. TypeOK'
    BY <1>0, <1>8 DEF Renew, TypeOK
  <2>2. Idle' /\ Unshared'
    BY <1>0, <1>8 DEF Renew, TypeOK, Idle, Unshared
  <2>3. Claimed'
    BY <1>0, <1>8 DEF Renew, TypeOK, Claimed, Active
  <2> QED BY <2>1, <2>2, <2>3 DEF IInv
<1>9. ASSUME Sweep PROVE IInv'
  <2>1. TypeOK'
    BY <1>0, <1>9 DEF Sweep, TypeOK, Statuses, Terminal
  <2>2. Idle' /\ Unshared'
    BY <1>0, <1>9 DEF Sweep, TypeOK, Idle, Unshared
  <2>3. Claimed'
    BY <1>0, <1>9 DEF Sweep, Sweepable, TypeOK, Claimed, Active
  <2> QED BY <2>1, <2>2, <2>3 DEF IInv
<1>10. ASSUME Crash PROVE IInv'
  <2>1. TypeOK'
    BY <1>0, <1>10, CrashBoundAssumption DEF Crash, TypeOK, WorkerPcs
  <2>2. Idle' /\ Unshared' /\ Claimed'
    BY <1>0, <1>10 DEF Crash, TypeOK, Idle, Unshared, Claimed
  <2> QED BY <2>1, <2>2 DEF IInv
<1>11. CASE UNCHANGED vars
  BY <1>0, <1>11 DEF vars, IInv, TypeOK, Idle, Unshared, Claimed, Active
<1> QED BY <1>1, <1>2, <1>3, <1>4, <1>5, <1>6, <1>7, <1>8, <1>9, <1>10, <1>11 DEF Next

\* The inductive invariant holds in every state of every behaviour.
LEMMA InductiveInvariant == Spec => []IInv
BY InitIInv, StepIInv, PTL DEF Spec

\* Every variable always holds a value of its type.
THEOREM TypeCorrect == Spec => []TypeOK
<1>1. IInv => TypeOK
  BY DEF IInv
<1> QED BY <1>1, InductiveInvariant, PTL

\* No run is ever executed twice, by whatever worker and after whatever crash.
THEOREM RunsExecutedOnce == Spec => []ExecutedOnce
<1>1. IInv => ExecutedOnce
  BY DEF IInv, Unshared, Claimed, ExecutedOnce
<1> QED BY <1>1, InductiveInvariant, PTL

\* Every row the sweeper would have to rescue has a lease for it to look at.
THEOREM ActiveRowsAreReclaimable == Spec => []ActiveRowsHaveLease
<1>1. IInv => ActiveRowsHaveLease
  BY DEF IInv, Claimed, ActiveRowsHaveLease
<1> QED BY <1>1, InductiveInvariant, PTL

---------------------------------------------------------------------------
(* A terminal status is final outside the window before 'running'. *)

\* What each step may do to the row of a run: the only step that takes a row
\* out of a terminal status is MarkRunning of the worker that holds it.
LEMMA TerminalRowStep ==
  ASSUME IInv, [Next]_vars, NEW r \in Runs, status[r] \in Terminal,
         ~\E w \in Workers : Holds(w, r) /\ pc[w] \in BeforeMark
  PROVE  status'[r] = status[r]
<1> USE DEF rowVars, workerVars, cancelVars, historyVars
<1>0. TypeOK /\ Idle
  BY DEF IInv
<1>1. CASE \E s \in Runs : RunIssue(s) \/ LeaseLapses(s)
  BY <1>0, <1>1 DEF RunIssue, LeaseLapses, TypeOK, Terminal
<1>2. CASE \E h \in Cancelers : CancelUpdate(h) \/ CancelSignal(h)
  BY <1>0, <1>2 DEF CancelUpdate, CancelSignal, TypeOK, Idle, Terminal, Active
<1>3. CASE \E h \in Cancelers, s \in Runs : CancelRead(h, s)
  BY <1>3 DEF CancelRead
<1>4. CASE \E w \in Workers, s \in Runs : Claim(w, s)
  BY <1>0, <1>4 DEF Claim, TypeOK, Terminal
<1>5. ASSUME NEW w \in Workers, Execute(w) PROVE status'[r] = status[r]
  <2>1. CASE Register(w) \/ PrepareDone(w) \/ RunReturns(w) \/ LetGo(w)
    BY <2>1 DEF Register, PrepareDone, RunReturns, LetGo
  <2>2. CASE MarkRunning(w)
    BY <1>0, <2>2 DEF MarkRunning, TypeOK, Holds, BeforeMark
  <2>3. ASSUME NEW o \in Terminal, FinishRun(w, o), pc[w] # "idle" PROVE status'[r] = status[r]
    BY <1>0, <2>3, FinishRunRow DEF TypeOK, Idle
  <2> QED BY <1>5, <2>1, <2>2, <2>3, ExecuteCases
<1>6. CASE \E w \in Workers : Renew(w)
  BY <1>6 DEF Renew
<1>7. CASE Sweep
  BY <1>7 DEF Sweep, Sweepable, Terminal, Active
<1>8. CASE Crash
  BY <1>8 DEF Crash
<1>9. CASE UNCHANGED vars
  BY <1>9 DEF vars
<1> QED BY <1>1, <1>2, <1>3, <1>4, <1>5, <1>6, <1>7, <1>8, <1>9 DEF Next

\* A finished run changes its status only inside the window of executeRun.
THEOREM TerminalIsFinal == Spec => FinalOutsideWindow
<1>1. IInv /\ [Next]_vars =>
        [\A r \in Runs :
           /\ status[r] \in Terminal
           /\ ~\E w \in Workers : Holds(w, r) /\ pc[w] \in BeforeMark
           => status'[r] = status[r]]_vars
  BY TerminalRowStep
<1> QED BY <1>1, InductiveInvariant, PTL DEF Spec, FinalOutsideWindow

---------------------------------------------------------------------------
(* A cancel is not lost. *)

\* With a database that takes every write, a canceled run that is still being
\* prepared or run has been interrupted, or its cancel request is about to.
THEOREM CancelIsNotLost ==
  ASSUME ~DbMayFail
  PROVE  Spec => []CanceledIsInterrupted
<1> USE DEF rowVars, workerVars, cancelVars, historyVars
<1>1. Init => CanceledIsInterrupted
  BY DEF Init, CanceledIsInterrupted
<1>2. IInv /\ CanceledIsInterrupted /\ [Next]_vars => CanceledIsInterrupted'
  <2> SUFFICES ASSUME IInv, CanceledIsInterrupted, [Next]_vars,
                      NEW w \in Workers,
                      pc'[w] \in {"preparing", "working"}, status'[job'[w]] = "canceled"
               PROVE  \/ ctxDone'[w]
                      \/ \E h \in Cancelers : cancelPc'[h] = "updated" /\ cancelRun'[h] = job'[w]
    BY DEF CanceledIsInterrupted
  <2>0. TypeOK /\ Idle /\ Unshared /\ Claimed
    BY DEF IInv
  <2>1. CASE \E r \in Runs : RunIssue(r) \/ LeaseLapses(r)
    <3>1. UNCHANGED <<pc, job, ctxDone, cancelPc, cancelRun>> /\ job[w] \in Runs
      BY <2>0, <2>1, NoRunAssumption DEF RunIssue, LeaseLapses, Idle, TypeOK
    <3>2. status[job[w]] = "canceled"
      BY <2>0, <2>1, <3>1 DEF RunIssue, LeaseLapses, TypeOK
    <3> QED BY <3>1, <3>2 DEF CanceledIsInterrupted
  <2>2. ASSUME NEW h \in Cancelers, CancelUpdate(h)
        PROVE  \/ ctxDone'[w]
               \/ \E g \in Cancelers : cancelPc'[g] = "updated" /\ cancelRun'[g] = job'[w]
    <3>1. CASE cancelRun[h] = job[w]
      BY <2>0, <2>2, <3>1 DEF CancelUpdate, TypeOK
    <3>2. CASE cancelRun[h] # job[w]
      <4>1. status[job[w]] = "canceled"
        BY <2>0, <2>2, <3>2 DEF CancelUpdate, TypeOK, Idle
      <4> QED BY <2>0, <2>2, <4>1 DEF CancelUpdate, TypeOK, CanceledIsInterrupted
    <3> QED BY <3>1, <3>2
  <2>3. ASSUME NEW h \in Cancelers, CancelSignal(h)
        PROVE  \/ ctxDone'[w]
               \/ \E g \in Cancelers : cancelPc'[g] = "updated" /\ cancelRun'[g] = job'[w]
    <3>1. CASE cancelRun[h] = job[w]
      BY <2>0, <2>3, <3>1 DEF CancelSignal, TypeOK, Holds, Registered, Renewing
    <3>2. CASE cancelRun[h] # job[w]
      BY <2>0, <2>3, <3>2 DEF CancelSignal, TypeOK, CanceledIsInterrupted
    <3> QED BY <3>1, <3>2
  <2>4. CASE \E h \in Cancelers, r \in Runs : CancelRead(h, r)
    BY <2>0, <2>4 DEF CancelRead, TypeOK, CanceledIsInterrupted
  <2>5. CASE \E v \in Workers, r \in Runs : Claim(v, r)
    BY <2>0, <2>5 DEF Claim, TypeOK, Idle, CanceledIsInterrupted
  <2>6. ASSUME NEW v \in Workers, Execute(v)
        PROVE  \/ ctxDone'[w]
               \/ \E h \in Cancelers : cancelPc'[h] = "updated" /\ cancelRun'[h] = job'[w]
    <3>1. CASE Register(v) \/ PrepareDone(v) \/ RunReturns(v)
      BY <2>0, <3>1 DEF Register, PrepareDone, RunReturns, TypeOK, CanceledIsInterrupted
    <3>2. CASE LetGo(v)
      BY <2>0, <3>2 DEF LetGo, TypeOK, CanceledIsInterrupted
    <3>3. CASE MarkRunning(v)
      BY <2>0, <3>3 DEF MarkRunning, TypeOK, CanceledIsInterrupted, Idle, Unshared
    <3>4. ASSUME NEW o \in Terminal, FinishRun(v, o), pc[v] # "idle"
          PROVE  \/ ctxDone'[w]
                 \/ \E h \in Cancelers : cancelPc'[h] = "updated" /\ cancelRun'[h] = job'[w]
      <4>1. w # v /\ job' = job /\ ctxDone' = ctxDone /\ cancelVars' = cancelVars /\ pc'[w] = pc[w]
        BY <2>0, <3>4 DEF FinishRun, TypeOK
      <4>2. job[w] # job[v] /\ job[w] \in Runs /\ job[v] \in Runs
        BY <2>0, <3>4, <4>1 DEF Idle, Unshared, TypeOK
      <4>3. status'[job[w]] = status[job[w]]
        BY <2>0, <3>4, <4>2, FinishRunRow
      <4> QED BY <4>1, <4>2, <4>3 DEF CanceledIsInterrupted
    <3>5. CASE pc[v] = "ranErr" /\ pc' = [pc EXCEPT ![v] = "finished"]
               /\ UNCHANGED <<rowVars, job, ctxDone, cancelVars, historyVars>>
      BY <2>0, <3>5 DEF TypeOK, CanceledIsInterrupted
    <3> QED BY <2>6, <3>1, <3>2, <3>3, <3>4, <3>5, ExecuteCases
  <2>7. CASE \E v \in Workers : Renew(v)
    BY <2>0, <2>7 DEF Renew, TypeOK, CanceledIsInterrupted
  <2>8. CASE Sweep
    BY <2>0, <2>8, NoRunAssumption DEF Sweep, Sweepable, TypeOK, Idle, CanceledIsInterrupted
  <2>9. CASE Crash
    BY <2>0, <2>9 DEF Crash
  <2>10. CASE UNCHANGED vars
    BY <2>10 DEF vars, CanceledIsInterrupted
  <2> QED BY <2>1, <2>2, <2>3, <2>4, <2>5, <2>6, <2>7, <2>8, <2>9, <2>10 DEF Next
<1> QED BY <1>1, <1>2, InductiveInvariant, PTL DEF Spec

---------------------------------------------------------------------------
(* The queue is claimed in order. *)

\* Runs are claimed in the order of their submission.
THEOREM QueueIsOrdered == Spec => []NoOvertaking
<1> USE DEF rowVars, workerVars, cancelVars, historyVars
<1>1. Init => Queue /\ NoOvertaking
  BY DEF Init, Queue, NoOvertaking
<1>2. IInv /\ Queue /\ NoOvertaking /\ [Next]_vars => Queue' /\ NoOvertaking'
  <2> SUFFICES ASSUME IInv, Queue, NoOvertaking, [Next]_vars PROVE Queue' /\ NoOvertaking'
    OBVIOUS
  <2>0. TypeOK /\ Idle /\ Claimed
    BY DEF IInv
  <2>1. ASSUME NEW r \in Runs, RunIssue(r) PROVE Queue' /\ NoOvertaking'
    <3>1. /\ Len(arrival') = Len(arrival) + 1 /\ arrival'[Len(arrival) + 1] = r
          /\ \A i \in 1..Len(arrival) : arrival'[i] = arrival[i] /\ arrival[i] \in Runs
      BY <2>0, <2>1 DEF RunIssue, TypeOK
    <3>2. \A i \in 1..Len(arrival) : arrival[i] # r /\ status'[arrival[i]] = status[arrival[i]]
      BY <2>0, <2>1, <3>1 DEF RunIssue, TypeOK, Queue
    <3>3. status'[r] = "queued" /\ claims' = claims /\ claims[r] = 0
      BY <2>0, <2>1 DEF RunIssue, TypeOK, Claimed
    <3>4. Len(arrival) \in Nat
      BY <2>0 DEF TypeOK
    <3>5. \A i \in 1..(Len(arrival) + 1) : i \in 1..Len(arrival) \/ i = Len(arrival) + 1
      BY <3>4
    <3>6. Queue'
      BY <3>1, <3>2, <3>3, <3>5 DEF Queue
    <3>7. NoOvertaking'
      BY <3>1, <3>2, <3>3, <3>4, <3>5 DEF NoOvertaking
    <3> QED BY <3>6, <3>7
  <2>2. ASSUME arrival' = arrival, claims' = claims,
               \A r \in Runs : (status[r] # "absent" => status'[r] # "absent")
                              /\ (status'[r] = "queued" => status[r] = "queued")
        PROVE  Queue' /\ NoOvertaking'
    BY <2>0, <2>2 DEF Queue, NoOvertaking, TypeOK
  <2>3. ASSUME NEW w \in Workers, NEW r \in Runs, Claim(w, r) PROVE Queue' /\ NoOvertaking'
    <3>1. PICK k \in 1..Len(arrival) :
                 arrival[k] = r /\ \A j \in 1..(k - 1) : status[arrival[j]] # "queued"
      BY <2>3 DEF Claim, Oldest
    <3>2. \A i \in 1..Len(arrival) : arrival[i] \in Runs /\ (i # k => arrival[i] # r)
      BY <2>0, <3>1 DEF Queue, TypeOK
    <3>3. \A i \in 1..Len(arrival) :
            i # k => status'[arrival[i]] = status[arrival[i]] /\ claims'[arrival[i]] = claims[arrival[i]]
      BY <2>0, <2>3, <3>2 DEF Claim, TypeOK
    <3>4. status'[arrival[k]] = "claimed" /\ arrival' = arrival
      BY <2>0, <2>3, <3>1 DEF Claim, TypeOK
    <3>5. Queue'
      BY <3>3, <3>4 DEF Queue
    <3>6. Len(arrival) \in Nat
      BY <2>0 DEF TypeOK
    <3>7. NoOvertaking'
      BY <3>1, <3>3, <3>4, <3>6 DEF NoOvertaking
    <3> QED BY <3>5, <3>7
  <2>4. CASE \E r \in Runs : LeaseLapses(r)
    BY <2>2, <2>4 DEF LeaseLapses
  <2>5. CASE \E h \in Cancelers : CancelUpdate(h) \/ CancelSignal(h)
    BY <2>0, <2>2, <2>5 DEF CancelUpdate, CancelSignal, TypeOK
  <2>6. CASE \E h \in Cancelers, r \in Runs : CancelRead(h, r)
    BY <2>2, <2>6 DEF CancelRead
  <2>7. ASSUME NEW w \in Workers, Execute(w) PROVE Queue' /\ NoOvertaking'
    <3>1. CASE Register(w) \/ PrepareDone(w) \/ RunReturns(w) \/ LetGo(w)
      BY <2>2, <3>1 DEF Register, PrepareDone, RunReturns, LetGo
    <3>2. CASE MarkRunning(w)
      BY <2>0, <2>2, <3>2 DEF MarkRunning, TypeOK
    <3>3. ASSUME NEW o \in Terminal, FinishRun(w, o), pc[w] # "idle" PROVE Queue' /\ NoOvertaking'
      <4>1. job[w] \in Runs
        BY <2>0, <3>3 DEF Idle, TypeOK
      <4> QED BY <2>0, <2>2, <3>3, <4>1, FinishRunRow DEF FinishRun, Terminal
    <3>4. CASE UNCHANGED <<rowVars, job, ctxDone, cancelVars, historyVars>>
      BY <2>2, <3>4
    <3> QED BY <2>7, <3>1, <3>2, <3>3, <3>4, ExecuteCases
  <2>8. CASE \E w \in Workers : Renew(w)
    BY <2>2, <2>8 DEF Renew
  <2>9. CASE Sweep
    BY <2>2, <2>9 DEF Sweep, Sweepable
  <2>10. CASE Crash
    BY <2>2, <2>10 DEF Crash
  <2>11. CASE UNCHANGED vars
    BY <2>2, <2>11 DEF vars
  <2> QED BY <2>1, <2>3, <2>4, <2>5, <2>6, <2>7, <2>8, <2>9, <2>10, <2>11 DEF Next
<1> QED BY <1>1, <1>2, InductiveInvariant, PTL DEF Spec

---------------------------------------------------------------------------
(* The queue implements RunLifecycle. *)

\* A run is held only after it was claimed.
LEMMA WaitingIsNotHeld ==
  ASSUME IInv, NEW r \in Runs, status[r] \in {"absent", "queued"}
  PROVE  ~Held(r)
<1>1. claims[r] = 0 /\ r # NoRun
  BY NoRunAssumption DEF IInv, Claimed
<1>2. \A w \in Workers : job[w] # NoRun => claims[job[w]] = 1
  BY DEF IInv, Claimed
<1> QED BY <1>1, <1>2 DEF Held, Holds

\* How one step moves a row and the worker that holds it.
LEMMA RowStep ==
  ASSUME IInv, [Next]_vars, NEW r \in Runs
  PROVE  /\ status[r] = "absent" => status'[r] \in {"absent", "queued"}
         /\ status[r] = "queued" => status'[r] \in {"queued", "canceled", "claimed"}
         /\ status[r] \in Active \cup Terminal => status'[r] \in Active \cup Terminal
         /\ Held(r)' => Held(r) \/ (status[r] = "queued" /\ status'[r] = "claimed")
<1> USE DEF rowVars, workerVars, cancelVars, historyVars
<1>0. TypeOK /\ Idle /\ Claimed
  BY DEF IInv
<1>1. CASE \E s \in Runs : RunIssue(s) \/ LeaseLapses(s)
  BY <1>0, <1>1 DEF RunIssue, LeaseLapses, TypeOK, Statuses, Active, Terminal, Held, Holds
<1>2. CASE \E h \in Cancelers : CancelUpdate(h) \/ CancelSignal(h)
  BY <1>0, <1>2 DEF CancelUpdate, CancelSignal, TypeOK, Statuses, Active, Terminal, Held, Holds
<1>3. CASE \E h \in Cancelers, s \in Runs : CancelRead(h, s)
  BY <1>0, <1>3 DEF CancelRead, TypeOK, Statuses, Held, Holds
<1>4. CASE \E w \in Workers, s \in Runs : Claim(w, s)
  BY <1>0, <1>4 DEF Claim, TypeOK, Statuses, Active, Terminal, Held, Holds
<1>5. ASSUME NEW w \in Workers, Execute(w)
      PROVE  /\ status[r] = "absent" => status'[r] \in {"absent", "queued"}
             /\ status[r] = "queued" => status'[r] \in {"queued", "canceled", "claimed"}
             /\ status[r] \in Active \cup Terminal => status'[r] \in Active \cup Terminal
             /\ Held(r)' => Held(r) \/ (status[r] = "queued" /\ status'[r] = "claimed")
  <2>1. CASE Register(w) \/ PrepareDone(w) \/ RunReturns(w)
    BY <1>0, <2>1 DEF Register, PrepareDone, RunReturns, TypeOK, Statuses, Held, Holds
  <2>2. CASE LetGo(w)
    BY <1>0, <2>2, NoRunAssumption DEF LetGo, TypeOK, Statuses, Held, Holds
  <2>3. CASE MarkRunning(w)
    <3>0. pc[w] # "idle"
      BY <2>3 DEF MarkRunning
    <3>1. job[w] \in Runs /\ status[job[w]] \notin {"absent", "queued"}
      BY <1>0, <3>0 DEF TypeOK, Idle, Claimed
    <3> QED BY <1>0, <2>3, <3>1 DEF MarkRunning, TypeOK, Active, Terminal, Held, Holds
  <2>4. ASSUME NEW o \in Terminal, FinishRun(w, o), pc[w] # "idle"
        PROVE  /\ status[r] = "absent" => status'[r] \in {"absent", "queued"}
               /\ status[r] = "queued" => status'[r] \in {"queued", "canceled", "claimed"}
               /\ status[r] \in Active \cup Terminal => status'[r] \in Active \cup Terminal
               /\ Held(r)' => Held(r) \/ (status[r] = "queued" /\ status'[r] = "claimed")
    <3>1. job[w] \in Runs /\ status[job[w]] \notin {"absent", "queued"} /\ job' = job
      BY <1>0, <2>4 DEF FinishRun, TypeOK, Idle, Claimed
    <3>2. Held(r)' => Held(r)
      BY <3>1 DEF Held, Holds
    <3>3. r # job[w] => status'[r] = status[r]
      BY <1>0, <2>4, <3>1, FinishRunRow
    <3>4. r = job[w] => status'[r] \in Terminal \cup {status[r]}
      BY <1>0, <2>4, <3>1, FinishRunRow
    <3> QED BY <3>1, <3>2, <3>3, <3>4
  <2>5. CASE UNCHANGED <<rowVars, job, ctxDone, cancelVars, historyVars>>
    BY <2>5 DEF Held, Holds
  <2> QED BY <1>5, <2>1, <2>2, <2>3, <2>4, <2>5, ExecuteCases
<1>6. CASE \E w \in Workers : Renew(w)
  BY <1>6 DEF Renew, Held, Holds
<1>7. CASE Sweep
  BY <1>7 DEF Sweep, Sweepable, Active, Terminal, Held, Holds
<1>8. CASE Crash
  BY <1>0, <1>8, NoRunAssumption DEF Crash, Held, Holds
<1>9. CASE UNCHANGED vars
  BY <1>9 DEF vars, Held, Holds
<1> QED BY <1>1, <1>2, <1>3, <1>4, <1>5, <1>6, <1>7, <1>8, <1>9 DEF Next

\* The value of the refinement mapping at one run.
LEMMA MappedPhase ==
  ASSUME TypeOK, NEW r \in Runs
  PROVE  /\ status[r] = "absent" => PhaseOf(r) = "absent"
         /\ status[r] = "queued" => PhaseOf(r) = "waiting"
         /\ status[r] \in Active => PhaseOf(r) = "open"
         /\ status[r] \in Terminal /\ Held(r) => PhaseOf(r) = "open"
         /\ status[r] \in Terminal /\ ~Held(r) => PhaseOf(r) = "settled"
         /\ PhaseOf(r) \in Lifecycle!Phases
<1>1. status[r] \in {"absent", "queued"} \cup Active \cup Terminal
  BY DEF TypeOK, Statuses
<1> QED BY <1>1 DEF PhaseOf, Active, Terminal, Lifecycle!Phases

\* Every step of the queue is a step of RunLifecycle, or changes nothing there.
LEMMA LifecycleStep ==
  ASSUME IInv, IInv', [Next]_vars
  PROVE  Lifecycle!Next
<1>0. TypeOK /\ TypeOK'
  BY DEF IInv
<1>1. \A r \in Runs :
        /\ phaseOf[r] = PhaseOf(r) /\ phaseOf'[r] = PhaseOf(r)'
        /\ outcomeOf[r] = IF PhaseOf(r) = "settled" THEN status[r] ELSE "none"
        /\ outcomeOf'[r] = IF PhaseOf(r)' = "settled" THEN status'[r] ELSE "none"
  BY DEF phaseOf, outcomeOf
<1>2. \A r \in Runs : /\ status'[r] = "absent" => PhaseOf(r)' = "absent"
                      /\ status'[r] = "queued" => PhaseOf(r)' = "waiting"
                      /\ status'[r] \in Active => PhaseOf(r)' = "open"
                      /\ status'[r] \in Terminal /\ Held(r)' => PhaseOf(r)' = "open"
                      /\ status'[r] \in Terminal /\ ~Held(r)' => PhaseOf(r)' = "settled"
                      /\ PhaseOf(r)' \in Lifecycle!Phases
  <2>1. \A r \in Runs : status'[r] \in {"absent", "queued"} \cup Active \cup Terminal
    BY <1>0 DEF TypeOK, Statuses
  <2> QED BY <2>1 DEF PhaseOf, Active, Terminal, Lifecycle!Phases
<1>3. phaseOf' \in [Runs -> Lifecycle!Phases]
  BY <1>1, <1>2 DEF phaseOf
<1>4. \A r \in Runs : outcomeOf'[r] \in Lifecycle!Outcomes \cup {Lifecycle!NoOutcome}
  <2> SUFFICES ASSUME NEW r \in Runs, PhaseOf(r)' = "settled" PROVE status'[r] \in Terminal
    BY <1>1 DEF Lifecycle!Outcomes, Lifecycle!NoOutcome, Terminal
  <2>1. status'[r] \in {"absent", "queued"} \cup Active \cup Terminal
    BY <1>0 DEF TypeOK, Statuses
  <2> QED BY <2>1, <1>2
<1>5. outcomeOf' \in [Runs -> Lifecycle!Outcomes \cup {Lifecycle!NoOutcome}]
  BY <1>4 DEF outcomeOf
<1>6. ASSUME NEW r \in Runs
      PROVE  Lifecycle!Submitted(r) \/ Lifecycle!Taken(r) \/ Lifecycle!Settled(r) \/ Lifecycle!Kept(r)
  <2> USE DEF Lifecycle!Submitted, Lifecycle!Taken, Lifecycle!Settled, Lifecycle!Kept,
              Lifecycle!NoOutcome, Lifecycle!Outcomes
  <2>1. CASE status[r] = "absent"
    <3>1. PhaseOf(r) = "absent" /\ PhaseOf(r)' \in {"absent", "waiting"}
      BY <1>0, <1>2, <2>1, MappedPhase, RowStep
    <3> QED BY <1>1, <3>1
  <2>2. CASE status[r] = "queued"
    <3>1. PhaseOf(r) = "waiting" /\ ~Held(r)
      BY <1>0, <2>2, MappedPhase, WaitingIsNotHeld
    <3>2. CASE status'[r] = "queued"
      BY <1>1, <1>2, <3>1, <3>2
    <3>3. CASE status'[r] = "claimed"
      BY <1>1, <1>2, <3>1, <3>3 DEF Active
    <3>4. CASE status'[r] = "canceled"
      <4>1. ~Held(r)'
        BY <3>1, <3>4, RowStep
      <4> QED BY <1>1, <1>2, <3>1, <3>4, <4>1 DEF Terminal
    <3> QED BY <2>2, <3>2, <3>3, <3>4, RowStep
  <2>3. CASE status[r] \in Active \/ (status[r] \in Terminal /\ Held(r))
    <3>1. PhaseOf(r) = "open"
      BY <1>0, <2>3, MappedPhase
    <3>2. status'[r] \in Active \cup Terminal
      BY <2>3, RowStep
    <3>3. CASE status'[r] \in Terminal /\ ~Held(r)'
      BY <1>1, <1>2, <3>1, <3>3 DEF Terminal
    <3>4. CASE ~(status'[r] \in Terminal /\ ~Held(r)')
      BY <1>1, <1>2, <3>1, <3>2, <3>4
    <3> QED BY <3>3, <3>4
  <2>4. CASE status[r] \in Terminal /\ ~Held(r)
    <3>1. PhaseOf(r) = "settled"
      BY <1>0, <2>4, MappedPhase
    <3>2. status'[r] = status[r]
      BY <2>4, TerminalRowStep DEF Held
    <3>3. ~Held(r)'
      BY <2>4, RowStep DEF Terminal
    <3> QED BY <1>1, <1>2, <2>4, <3>1, <3>2, <3>3
  <2>5. status[r] \in {"absent", "queued"} \cup Active \cup Terminal
    BY <1>0 DEF TypeOK, Statuses
  <2> QED BY <2>1, <2>2, <2>3, <2>4, <2>5
<1> QED BY <1>3, <1>5, <1>6 DEF Lifecycle!Next

\* The safety part of ImplementsLifecycle, for every instance: each run waits,
\* is open, and is settled once and for good.
THEOREM QueueImplementsLifecycle == Spec => Lifecycle!SafeSpec
<1>1. Init => Lifecycle!Init
  <2> SUFFICES ASSUME Init PROVE Lifecycle!Init
    OBVIOUS
  <2>1. \A r \in Runs : PhaseOf(r) = "absent"
    BY InitIInv, MappedPhase DEF Init, IInv
  <2>2. phaseOf = [r \in Runs |-> "absent"]
    BY <2>1 DEF phaseOf
  <2>3. outcomeOf = [r \in Runs |-> "none"]
    BY <2>2 DEF outcomeOf
  <2> QED BY <2>2, <2>3 DEF Lifecycle!Init, Lifecycle!NoOutcome
<1>2. IInv /\ IInv' /\ [Next]_vars => [Lifecycle!Next]_(Lifecycle!lifecycleVars)
  BY LifecycleStep
<1> QED BY <1>1, <1>2, InductiveInvariant, PTL DEF Spec, Lifecycle!SafeSpec
===========================================================================
