------------------------------- MODULE Scheduler ------------------------------
(* The schedule runner (server/api/scheduler: RunDueSchedules and              *)
(* StartScheduler of scheduler.go, the statements of scheduler_sql.go) and the *)
(* admin's edits (server/api/kbhandler/schedules_handler.go).                  *)
(*                                                                             *)
(* At every tick the schedules that are enabled and due are read, the earliest *)
(* first and no more than Limit of them, and their jobs are run one after      *)
(* another. After a job its schedule is advanced from the time of the tick     *)
(* that began the pass, with what was read of it then, whatever an admin has   *)
(* written since. While a pass goes on the ticker keeps the first tick it      *)
(* missed, with its time, and drops the others.                                *)
(*                                                                             *)
(* Time counts in ticks, and is kept relative to the present: a clock that     *)
(* grows is not needed. Statements take no time, jobs take a bounded one. The  *)
(* run history (kb.scheduled_job_runs) is left out: nothing reads it but the   *)
(* admin page.                                                                 *)
EXTENDS Integers, FiniteSets

CONSTANTS
  Schedules,  \* the schedules there are or that an admin may create
  Seeded,     \* those a migration has created: enabled, recurring and due
  Interval,   \* interval_seconds of each
  Limit,      \* how many are read in a pass (50)
  MaxJob,     \* the ticks a job may take
  MaxLate,    \* bound: schedules later than this count as equally late
  MaxEdits,   \* bound: updates and deletions
  MaxFaults,  \* bound: crashes and statements that fail
  None        \* no schedule

ASSUME SchedulerAssumption ==
  /\ IsFiniteSet(Schedules) /\ Seeded \subseteq Schedules /\ None \notin Schedules
  /\ Interval \in [Schedules -> Nat \ {0}]
  /\ Limit \in Nat \ {0}
  /\ {MaxJob, MaxLate, MaxEdits, MaxFaults} \subseteq Nat

VARIABLES
  row,        \* the row of a schedule: not yet created, enabled, disabled or deleted
  runOnce,    \* its run_once
  wait,       \* next_run_at - the present
  batch,      \* the schedules of the pass still to be run
  batchOnce,  \* those of the pass that were read with run_once set
  current,    \* the schedule whose job runs
  age,        \* the present - `now' of the pass
  spent,      \* the ticks the job has taken
  tick,       \* the age of the tick the loop has not taken yet, or -1
  edits, faults,
  starts,     \* the runs a schedule read as run-once has begun since it was last edited
  spoilt      \* those of its runs a crash cut short or whose advance failed

rowVars == <<row, runOnce, wait>>
passVars == <<batch, batchOnce, current, age, spent, tick>>
vars == <<rowVars, passVars, edits, faults, starts, spoilt>>

TypeOK ==
  /\ row \in [Schedules -> {"none", "on", "off", "gone"}]
  /\ runOnce \in [Schedules -> BOOLEAN]
  /\ wait \in [Schedules -> Int]
  /\ batch \subseteq Schedules /\ batchOnce \subseteq Schedules
  /\ current \in Schedules \cup {None} /\ current \notin batch
  /\ age \in Nat /\ spent \in 0..MaxJob /\ tick \in Nat \cup {-1}
  /\ edits \in 0..MaxEdits /\ faults \in 0..MaxFaults
  /\ starts \in [Schedules -> Nat] /\ spoilt \in [Schedules -> Nat]

Init ==
  /\ row = [s \in Schedules |-> IF s \in Seeded THEN "on" ELSE "none"]
  /\ runOnce = [s \in Schedules |-> FALSE]
  /\ wait = [s \in Schedules |-> 0]
  /\ batch = {} /\ batchOnce = {} /\ current = None
  /\ age = 0 /\ spent = 0 /\ tick = 0
  /\ edits = 0 /\ faults = 0
  /\ starts = [s \in Schedules |-> 0] /\ spoilt = [s \in Schedules |-> 0]

Idle == batch = {} /\ current = None

----------------------------------------------------------------------------
(* The loop *)

\* A tick of the clock, while the loop waits or a job runs.
Tick ==
  /\ \/ Idle /\ tick = -1
     \/ current # None /\ spent < MaxJob
  /\ wait' = [s \in Schedules |->
                IF row[s] # "none" /\ wait[s] > -MaxLate THEN wait[s] - 1 ELSE wait[s]]
  /\ tick' = tick + 1
  /\ age' = IF Idle THEN 0 ELSE age + 1
  /\ spent' = IF current = None THEN 0 ELSE spent + 1
  /\ UNCHANGED <<row, runOnce, batch, batchOnce, current, edits, faults, starts, spoilt>>

\* DueSchedules at the time of the tick.
Due == {s \in Schedules : row[s] = "on" /\ wait[s] + tick <= 0}

\* Seeded fault: the order is dropped, the limit stays.
AnyOf(S) == {T \in SUBSET S : Cardinality(T) = IF Cardinality(S) < Limit THEN Cardinality(S) ELSE Limit}

\* ORDER BY next_run_at LIMIT Limit.
Earliest(S) ==
  {T \in SUBSET S :
     /\ Cardinality(T) = IF Cardinality(S) < Limit THEN Cardinality(S) ELSE Limit
     /\ \A s \in T, t \in S \ T : wait[s] <= wait[t]}

\* The loop takes the tick and reads the schedules that are due by its time.
BeginPass ==
  /\ Idle /\ tick >= 0
  /\ batch' \in Earliest(Due)
  /\ batchOnce' = {s \in batch' : runOnce[s]}
  /\ age' = IF batch' = {} THEN 0 ELSE tick
  /\ tick' = -1
  /\ UNCHANGED <<rowVars, current, spent, edits, faults, starts, spoilt>>

Fault == faults < MaxFaults /\ faults' = faults + 1

\* They cannot be read: the tick is lost.
ReadFails ==
  /\ Idle /\ tick >= 0
  /\ Fault
  /\ tick' = -1
  /\ UNCHANGED <<rowVars, batch, batchOnce, current, age, spent, edits, starts, spoilt>>

\* The schedules of the pass are run in the order they were read.
Head(s) == current = None /\ s \in batch /\ \A t \in batch : wait[s] <= wait[t]

\* The pass goes on with the schedules left, its age being of no use after the last.
Leave(left) == batch' = left /\ age' = IF left = {} THEN 0 ELSE age

\* Seeded fault: the schedule stays in the pass while it runs.
StartRunKept(s) ==
  /\ Head(s) /\ row[s] # "gone"
  /\ current' = s
  /\ starts' = IF s \in batchOnce THEN [starts EXCEPT ![s] = @ + 1] ELSE starts
  /\ UNCHANGED <<rowVars, batch, batchOnce, age, spent, tick, edits, faults, spoilt>>

\* StartRun inserts the run, and the job begins.
StartRun(s) ==
  /\ Head(s) /\ row[s] # "gone"
  /\ current' = s /\ batch' = batch \ {s}
  /\ starts' = IF s \in batchOnce THEN [starts EXCEPT ![s] = @ + 1] ELSE starts
  /\ UNCHANGED <<rowVars, batchOnce, age, spent, tick, edits, faults, spoilt>>

\* The run cannot be inserted, for its schedule is deleted or else: it is passed over,
\* and not advanced.
StartFails(s) ==
  /\ Head(s)
  /\ \/ row[s] = "gone" /\ UNCHANGED faults
     \/ Fault
  /\ Leave(batch \ {s}) /\ batchOnce' = batchOnce \ {s}
  /\ UNCHANGED <<rowVars, current, spent, tick, edits, starts, spoilt>>

\* Seeded fault: run_once is not looked at.
AlwaysEnabled(s) == TRUE

StillEnabled(s) == s \notin batchOnce

\* AdvanceSchedule: enabled is what was read says, if the row is still there.
Advance(s) ==
  /\ row' = IF row[s] = "gone" THEN row
            ELSE [row EXCEPT ![s] = IF StillEnabled(s) THEN "on" ELSE "off"]
  /\ wait' = [wait EXCEPT ![s] = Interval[s] - age]

\* The job is over, well or not, and the schedule is advanced; a failure to do so is
\* only logged.
EndRun ==
  /\ current # None
  /\ current' = None /\ spent' = 0 /\ Leave(batch)
  /\ \/ Advance(current) /\ UNCHANGED <<faults, spoilt>>
     \/ /\ Fault
        /\ spoilt' = [spoilt EXCEPT ![current] = @ + 1]
        /\ UNCHANGED <<row, wait>>
  /\ batchOnce' = batchOnce \ {current}
  /\ UNCHANGED <<runOnce, tick, edits, starts>>

\* A job that panics is recovered by nobody. The process starts again with a new ticker.
Crash ==
  /\ Fault
  /\ batch' = {} /\ current' = None /\ batchOnce' = {}
  /\ age' = 0 /\ spent' = 0 /\ tick' = -1
  /\ spoilt' = IF current = None THEN spoilt ELSE [spoilt EXCEPT ![current] = @ + 1]
  /\ UNCHANGED <<rowVars, edits, starts>>

----------------------------------------------------------------------------
(* The admin *)

\* A recurring schedule is due at once, a run-once schedule after its interval.
CreateSchedule(s, on, once) ==
  /\ row[s] = "none"
  /\ row' = [row EXCEPT ![s] = IF on THEN "on" ELSE "off"]
  /\ runOnce' = [runOnce EXCEPT ![s] = once]
  /\ wait' = [wait EXCEPT ![s] = IF once THEN Interval[s] ELSE 0]
  /\ UNCHANGED <<passVars, edits, faults, starts, spoilt>>

\* An edit replaces both flags and leaves next_run_at alone.
UpdateSchedule(s, on, once) ==
  /\ row[s] \in {"on", "off"} /\ edits < MaxEdits
  /\ row' = [row EXCEPT ![s] = IF on THEN "on" ELSE "off"]
  /\ runOnce' = [runOnce EXCEPT ![s] = once]
  /\ edits' = edits + 1
  /\ starts' = [starts EXCEPT ![s] = 0] /\ spoilt' = [spoilt EXCEPT ![s] = 0]
  /\ UNCHANGED <<wait, passVars, faults>>

DeleteSchedule(s) ==
  /\ row[s] \in {"on", "off"} /\ edits < MaxEdits
  /\ row' = [row EXCEPT ![s] = "gone"]
  /\ edits' = edits + 1
  /\ UNCHANGED <<runOnce, wait, passVars, faults, starts, spoilt>>

RunPass == BeginPass \/ (\E s \in Schedules : StartRun(s) \/ StartFails(s)) \/ EndRun

Next ==
  \/ Tick \/ RunPass \/ ReadFails \/ Crash
  \/ \E s \in Schedules :
       \/ \E on, once \in BOOLEAN : CreateSchedule(s, on, once) \/ UpdateSchedule(s, on, once)
       \/ DeleteSchedule(s)

Spec == Init /\ [][Next]_vars

\* Time passes, the loop goes on and every job returns.
FairSpec == Spec /\ WF_vars(Tick) /\ WF_vars(RunPass)

----------------------------------------------------------------------------
(* Properties *)

\* A run-once schedule is run once: since it was last created or edited it has begun no
\* second run, unless a crash cut the first short or its advance was not written.
RunsOnce == \A s \in Schedules : starts[s] <= 1 + spoilt[s]

\* A schedule that is enabled and left alone is run, however many others are always due
\* and however few a pass takes; a recurring one again and again.
EnabledRuns ==
  \A s \in Schedules : row[s] = "on" ~> (current = s \/ row[s] # "on")

==============================================================================
