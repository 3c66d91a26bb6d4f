--------------------------- MODULE SchedulerTheorems ---------------------------
(* For any schedules, intervals and limits: a run-once schedule is run once,   *)
(* whatever an admin writes and whatever crashes between its job and its       *)
(* advance.                                                                    *)
EXTENDS Scheduler, TLAPS

Taken(s) == s \in batch \/ s = current

\* The schedules a pass holds exist, and those it holds as run-once are among them.
PassHolds ==
  /\ batchOnce \subseteq batch \cup {current}
  /\ \A s \in Schedules : row[s] = "none" => ~Taken(s)

\* A schedule that may still begin a run has had no run but spoilt ones since it was
\* last edited: one that is enabled, or read by the pass (its advance may enable it
\* again), or not yet created. The exception is the run-once schedule that runs now.
MayStart(s) == row[s] \in {"none", "on"} \/ Taken(s)
Fresh ==
  \A s \in Schedules : MayStart(s) /\ ~(s = current /\ s \in batchOnce) => starts[s] <= spoilt[s]

IInv == TypeOK /\ PassHolds /\ Fresh /\ RunsOnce

LEMMA InitOK == Init => IInv
BY SchedulerAssumption DEF Init, IInv, TypeOK, PassHolds, Fresh, RunsOnce, Taken

----------------------------------------------------------------------------
(* A step keeps each part *)

LEMMA PassTyped == ASSUME TypeOK, BeginPass PROVE batch' \subseteq Due /\ batchOnce' \subseteq batch'
BY DEF BeginPass, Earliest

LEMMA TypeStep ==
  ASSUME TypeOK, [Next]_vars
  PROVE  TypeOK'
<1> USE SchedulerAssumption DEF TypeOK
<1>1. CASE Tick
  BY <1>1 DEF Tick, Idle
<1>2. CASE BeginPass
  BY <1>2, PassTyped DEF BeginPass, Idle, Due, rowVars
<1>3. CASE ReadFails
  BY <1>3 DEF ReadFails, Fault, rowVars
<1>4. ASSUME NEW s \in Schedules, StartRun(s) PROVE TypeOK'
  BY <1>4 DEF StartRun, Head, rowVars
<1>5. ASSUME NEW s \in Schedules, StartFails(s) PROVE TypeOK'
  BY <1>5 DEF StartFails, Head, Leave, Fault, rowVars
<1>6. CASE EndRun
  <2>1. current \in Schedules
    BY <1>6 DEF EndRun
  <2>2. row' \in [Schedules -> {"none", "on", "off", "gone"}] /\ wait' \in [Schedules -> Int]
    BY <1>6, <2>1 DEF EndRun, Advance
  <2>3. faults' \in 0..MaxFaults /\ spoilt' \in [Schedules -> Nat]
    BY <1>6, <2>1 DEF EndRun, Fault
  <2> QED BY <1>6, <2>1, <2>2, <2>3 DEF EndRun, Leave
<1>7. CASE Crash
  BY <1>7 DEF Crash, Fault, rowVars
<1>8. ASSUME NEW s \in Schedules, NEW on \in BOOLEAN, NEW once \in BOOLEAN, CreateSchedule(s, on, once)
      PROVE  TypeOK'
  BY <1>8 DEF CreateSchedule, passVars
<1>9. ASSUME NEW s \in Schedules, NEW on \in BOOLEAN, NEW once \in BOOLEAN, UpdateSchedule(s, on, once)
      PROVE  TypeOK'
  BY <1>9 DEF UpdateSchedule, passVars
<1>10. ASSUME NEW s \in Schedules, DeleteSchedule(s) PROVE TypeOK'
  BY <1>10 DEF DeleteSchedule, passVars
<1>11. CASE UNCHANGED vars
  BY <1>11 DEF vars, rowVars, passVars
<1> QED BY <1>1, <1>2, <1>3, <1>4, <1>5, <1>6, <1>7, <1>8, <1>9, <1>10, <1>11 DEF Next, RunPass

LEMMA PassStep ==
  ASSUME TypeOK, PassHolds, [Next]_vars
  PROVE  PassHolds'
<1> USE SchedulerAssumption DEF TypeOK, PassHolds, Taken
<1>1. CASE Tick
  BY <1>1 DEF Tick
<1>2. CASE BeginPass
  BY <1>2, PassTyped DEF BeginPass, Idle, Due, rowVars
<1>3. CASE ReadFails
  BY <1>3 DEF ReadFails, rowVars
<1>4. ASSUME NEW s \in Schedules, StartRun(s) PROVE PassHolds'
  BY <1>4 DEF StartRun, Head, rowVars
<1>5. ASSUME NEW s \in Schedules, StartFails(s) PROVE PassHolds'
  BY <1>5 DEF StartFails, Head, Leave, rowVars
<1>6. CASE EndRun
  <2>1. \A s \in Schedules : row'[s] = "none" => row[s] = "none"
    BY <1>6 DEF EndRun, Advance
  <2>2. batch' = batch /\ current' = None /\ batchOnce' = batchOnce \ {current}
    BY <1>6 DEF EndRun, Leave
  <2> QED BY <2>1, <2>2
<1>7. CASE Crash
  BY <1>7 DEF Crash, rowVars
<1>8. ASSUME NEW s \in Schedules, NEW on \in BOOLEAN, NEW once \in BOOLEAN,
             CreateSchedule(s, on, once) \/ UpdateSchedule(s, on, once) \/ DeleteSchedule(s)
      PROVE  PassHolds'
  BY <1>8 DEF CreateSchedule, UpdateSchedule, DeleteSchedule, passVars
<1>9. CASE UNCHANGED vars
  BY <1>9 DEF vars, rowVars, passVars
<1> QED BY <1>1, <1>2, <1>3, <1>4, <1>5, <1>6, <1>7, <1>8, <1>9 DEF Next, RunPass

LEMMA FreshStep ==
  ASSUME TypeOK, PassHolds, Fresh, RunsOnce, [Next]_vars
  PROVE  Fresh' /\ RunsOnce'
<1> USE SchedulerAssumption DEF TypeOK, PassHolds, Fresh, RunsOnce, MayStart, Taken
<1>1. CASE Tick
  BY <1>1 DEF Tick
<1>2. CASE BeginPass
  BY <1>2, PassTyped DEF BeginPass, Idle, Due, rowVars
<1>3. CASE ReadFails
  BY <1>3 DEF ReadFails, rowVars
<1>4. ASSUME NEW s \in Schedules, StartRun(s) PROVE Fresh' /\ RunsOnce'
  <2>1. starts[s] <= spoilt[s]
    BY <1>4 DEF StartRun, Head
  <2>2. \A t \in Schedules : t # s => starts'[t] = starts[t]
    BY <1>4 DEF StartRun
  <2>3. starts'[s] = IF s \in batchOnce THEN starts[s] + 1 ELSE starts[s]
    BY <1>4 DEF StartRun
  <2>4. UNCHANGED <<row, batchOnce, spoilt>> /\ current' = s /\ batch' = batch \ {s} /\ current = None
    BY <1>4 DEF StartRun, Head, rowVars
  <2> QED BY <2>1, <2>2, <2>3, <2>4
<1>5. ASSUME NEW s \in Schedules, StartFails(s) PROVE Fresh' /\ RunsOnce'
  BY <1>5 DEF StartFails, Head, Leave, rowVars
<1>6. CASE EndRun
  <2>1. current \in Schedules
    BY <1>6 DEF EndRun
  <2>2. batch' = batch /\ current' = None /\ batchOnce' = batchOnce \ {current} /\ starts' = starts
    BY <1>6 DEF EndRun, Leave
  <2>3. ASSUME Advance(current), spoilt' = spoilt PROVE Fresh' /\ RunsOnce'
    <3>1. \A t \in Schedules : t # current => row'[t] = row[t]
      BY <2>3 DEF Advance
    <3>2. current \in batchOnce => row'[current] \in {"off", "gone"}
      BY <2>3, <2>1 DEF Advance, StillEnabled
    <3> QED BY <2>1, <2>2, <2>3, <3>1, <3>2
  <2>4. ASSUME spoilt' = [spoilt EXCEPT ![current] = @ + 1], row' = row PROVE Fresh' /\ RunsOnce'
    <3>1. spoilt'[current] = spoilt[current] + 1 /\ \A t \in Schedules : t # current => spoilt'[t] = spoilt[t]
      BY <2>4, <2>1
    <3> QED BY <2>1, <2>2, <2>4, <3>1
  <2> QED BY <1>6, <2>3, <2>4 DEF EndRun
<1>7. CASE Crash
  <2>1. UNCHANGED <<row, starts>> /\ batch' = {} /\ current' = None
    BY <1>7 DEF Crash, rowVars
  <2>2. \A t \in Schedules : spoilt'[t] = IF t = current THEN spoilt[t] + 1 ELSE spoilt[t]
    BY <1>7 DEF Crash
  <2> QED BY <2>1, <2>2
<1>8. ASSUME NEW s \in Schedules, NEW on \in BOOLEAN, NEW once \in BOOLEAN, CreateSchedule(s, on, once)
      PROVE  Fresh' /\ RunsOnce'
  BY <1>8 DEF CreateSchedule, passVars
<1>9. ASSUME NEW s \in Schedules, NEW on \in BOOLEAN, NEW once \in BOOLEAN, UpdateSchedule(s, on, once)
      PROVE  Fresh' /\ RunsOnce'
  BY <1>9 DEF UpdateSchedule, passVars
<1>10. ASSUME NEW s \in Schedules, DeleteSchedule(s) PROVE Fresh' /\ RunsOnce'
  BY <1>10 DEF DeleteSchedule, passVars
<1>11. CASE UNCHANGED vars
  BY <1>11 DEF vars, rowVars, passVars
<1> QED BY <1>1, <1>2, <1>3, <1>4, <1>5, <1>6, <1>7, <1>8, <1>9, <1>10, <1>11 DEF Next, RunPass

----------------------------------------------------------------------------
(* The theorems *)

LEMMA Step == IInv /\ [Next]_vars => IInv'
BY TypeStep, PassStep, FreshStep DEF IInv

\* All of the invariant holds in every reachable state.
THEOREM Invariance == Spec => []IInv
BY InitOK, Step, PTL DEF Spec

\* The variables have their types.
THEOREM Typing == Spec => []TypeOK
<1>1. IInv => TypeOK
  BY DEF IInv
<1> QED BY <1>1, Invariance, PTL

\* A run-once schedule begins one run between two edits, and one more for each run that
\* a crash or a failed statement left unrecorded.
THEOREM OnceIsOnce == Spec => []RunsOnce
<1>1. IInv => RunsOnce
  BY DEF IInv
<1> QED BY <1>1, Invariance, PTL
============================================================================
