----------------------------- MODULE PipelineRun ----------------------------
(* The processing runs of one record and the row of kb.inputs whose status     *)
(* array they share with the web server (server/api/doc-processing: control.go,*)
(* status_lock.go and stop.go; kbhandler/stop_pipeline_handler.go).            *)
(*                                                                             *)
(* In the doc-processor, a coordinator (handleEvent) runs the sequential       *)
(* processors, then the Phase B processors concurrently, then Phase C. Each    *)
(* writes its own entry of the array, and the coordinator's doc_processing     *)
(* entry, by reading the row, changing it and writing it back under a lock     *)
(* that only this process knows. In the web server, a stop request and the     *)
(* auto-heal of stuck pipelines do the same without it.                        *)
(*                                                                             *)
(* A read and the write that follows are two steps. A write made with the task *)
(* context fails once the context is canceled: by a stop request, or by the    *)
(* cross-peak rule when the task's peak-hour span ends. One run is in progress at a     *)
(* time; the process may crash and the record be run again.                    *)
EXTENDS Integers, Sequences

CONSTANTS
  PhaseB,       \* processors run concurrently
  Sequential,   \* the blocking processor and those of Phase A, in order
  NoProc,       \* no processor name in the doc_processing entry
  MaxRuns, MaxStops, MaxHeals, MaxCrashes, MaxAborts,  \* bounds on what may happen to a record
  Panics        \* whether a Phase B processor may panic

SequentialProcs == {Sequential[i] : i \in DOMAIN Sequential}
Procs == PhaseB \cup SequentialProcs
Control == "control"
Writers == Procs \cup {Control}

\* selectRunProcessors takes each processor once.
ASSUME ProcsAssumption ==
  /\ Sequential \in Seq(SequentialProcs) /\ Sequential # <<>>
  /\ \A i, j \in DOMAIN Sequential : Sequential[i] = Sequential[j] => i = j
  /\ PhaseB \cap SequentialProcs = {}
  /\ NoProc \notin Procs /\ Control \notin Procs

ASSUME BoundsAssumption ==
  /\ {MaxRuns, MaxStops, MaxHeals, MaxCrashes, MaxAborts} \subseteq Nat
  /\ Panics \in BOOLEAN

VARIABLES
  row,        \* kb.inputs.status: entry per processor, doc_processing and its name, stop_requested
  lock, snap, \* the writers between their read and their write, and the row each has read
  cpc, idx,   \* the coordinator and its position in Sequential
  ppc,        \* the processors
  result,     \* procResult of each processor
  ctxDone,    \* the task context is canceled
  stopped,    \* requestStopped
  deadIn,     \* where the coordinator of the last run died or gave up, or "alive"
  web, seen,  \* the stop handler and the row it has read
  heal, sick, \* the auto-heal and the row it has read
  runs, stops, heals, crashes, aborts,
  touched     \* since this run began, or died, the web server was writing the row or the
              \* run was aborted

rowVars == <<row, lock, snap>>
controlVars == <<cpc, idx, stopped, deadIn>>
procVars == <<ppc, result>>
webVars == <<web, seen, stops>>
healVars == <<heal, sick, heals>>
countVars == <<runs, crashes, aborts>>
vars == <<rowVars, controlVars, procVars, ctxDone, webVars, healVars, countVars, touched>>

Final == {"success", "failed", "stopped"}
Rows == [entry : [Procs -> {"none", "active"} \cup Final],
         pipe  : {"none", "running"} \cup Final,
         name  : Procs \cup {NoProc},
         stop  : BOOLEAN]

ControlPcs == {"off", "clear", "routing", "waiting", "admitted", "reset", "announce", "sequential", "phaseB",
               "announceC", "enterC", "phaseC", "finish", "clearEnd"}
ProcPcs == {"idle", "activate", "name", "work", "ownStop", "settle", "over",
            "indexFail", "indexFailed", "indexed"}

EmptyRow == [entry |-> [p \in Procs |-> "none"], pipe |-> "none", name |-> NoProc, stop |-> FALSE]
NoSnaps == [w \in Writers |-> EmptyRow]

TypeOK ==
  /\ row \in Rows /\ snap \in [Writers -> Rows] /\ seen \in Rows /\ sick \in Rows
  /\ lock \subseteq Writers
  /\ cpc \in ControlPcs /\ deadIn \in ControlPcs \cup {"alive"}
  /\ idx \in 1..(Len(Sequential) + 1)
  /\ ppc \in [Procs -> ProcPcs]
  /\ result \in [Procs -> {"none", "panicked"} \cup Final]
  /\ ctxDone \in BOOLEAN /\ stopped \in BOOLEAN /\ touched \in BOOLEAN
  /\ web \in {"idle", "set", "marking", "mark"} /\ heal \in {"idle", "heal"}
  /\ runs \in 0..MaxRuns /\ stops \in 0..MaxStops
  /\ heals \in 0..MaxHeals /\ crashes \in 0..MaxCrashes /\ aborts \in 0..MaxAborts

Init ==
  /\ row = EmptyRow /\ snap = NoSnaps /\ seen = EmptyRow /\ sick = EmptyRow
  /\ lock = {}
  /\ cpc = "off" /\ deadIn = "alive" /\ idx = 1 /\ stopped = FALSE /\ ctxDone = FALSE
  /\ ppc = [p \in Procs |-> "idle"]
  /\ result = [p \in Procs |-> "none"]
  /\ web = "idle" /\ heal = "idle" /\ touched = FALSE
  /\ runs = 0 /\ stops = 0 /\ heals = 0 /\ crashes = 0 /\ aborts = 0

Live == cpc # "off"

\* appendPipelineStatus: the doc_processing entry is replaced.
WithPipeline(r, status, name) == [r EXCEPT !.pipe = status, !.name = name]
\* upsertProcessorRuntimeStatus.
WithEntry(r, p, status) == [r EXCEPT !.entry[p] = status]
\* ClearStopRequested and SetStopRequested.
WithStop(r, flag) == [r EXCEPT !.stop = flag]
\* resetRequestedProcessorStatuses: the blocking processor is not among them.
WithReset(r) ==
  [r EXCEPT !.entry = [p \in Procs |-> IF p = Sequential[1] THEN @[p] ELSE "none"]]

Outcome ==
  IF stopped THEN "stopped"
  ELSE IF \E p \in Procs : result[p] \in {"failed", "panicked"} THEN "failed" ELSE "success"

----------------------------------------------------------------------------
(* Reading and writing the row *)

\* What a writer in the process is about to do to the row.
Writing ==
  [w \in Writers |->
     IF w = Control
     THEN cpc \in {"clear", "waiting", "reset", "announce", "announceC", "finish", "clearEnd"}
     ELSE ppc[w] \in {"activate", "name", "ownStop", "settle", "indexFail"}]

\* These writes use context.Background: the others fail once the task's is done.
Background(w) == IF w = Control THEN cpc \in {"finish", "clearEnd"} ELSE ppc[w] = "ownStop"

Changed(w, r) ==
  IF w = Control
  THEN CASE cpc \in {"clear", "clearEnd"} -> WithStop(r, FALSE)
         [] cpc = "reset" -> WithReset(r)
         [] cpc \in {"waiting", "announce", "announceC"} -> WithPipeline(r, "running", NoProc)
         [] OTHER -> WithPipeline(r, Outcome, NoProc)
  ELSE CASE ppc[w] = "activate" -> WithEntry(r, w, "active")
         [] ppc[w] = "name" -> WithPipeline(r, "running", w)
         [] ppc[w] = "ownStop" -> WithEntry(r, w, "stopped")
         [] ppc[w] = "indexFail" -> WithEntry(r, w, "failed")
         [] OTHER -> WithEntry(r, w, result[w])

NextControl ==
  CASE cpc = "clear" -> "routing"
    [] cpc = "waiting" -> "admitted"
    [] cpc = "reset" -> "announce"
    [] cpc = "announce" -> "sequential"
    [] cpc = "announceC" -> "enterC"
    [] cpc = "finish" -> IF stopped THEN "clearEnd" ELSE "off"
    [] OTHER -> "off"

NextProc(p) ==
  CASE ppc[p] = "activate" -> "name"
    [] ppc[p] = "name" -> "work"
    [] ppc[p] = "ownStop" -> "settle"
    [] ppc[p] = "indexFail" -> "indexFailed"
    [] OTHER -> "over"

MoveOn(w) ==
  IF w = Control
  THEN cpc' = NextControl /\ UNCHANGED ppc
  ELSE ppc' = [ppc EXCEPT ![w] = NextProc(w)] /\ UNCHANGED cpc

\* Seeded fault: the row is read without the lock.
ReadUnlocked(w) ==
  /\ Writing[w] /\ w \notin lock
  /\ Background(w) \/ ~ctxDone
  /\ lock' = lock \cup {w} /\ snap' = [snap EXCEPT ![w] = row]
  /\ UNCHANGED <<row, controlVars, procVars, ctxDone, webVars, healVars, countVars, touched>>

\* updateInputStatusAtomic takes the lock and reads the row. (The clear of the stop
\* flag takes no lock, but the coordinator is alone in its process then.)
Read(w) ==
  /\ Writing[w] /\ lock = {}
  /\ Background(w) \/ ~ctxDone
  /\ lock' = {w} /\ snap' = [snap EXCEPT ![w] = row]
  /\ UNCHANGED <<row, controlVars, procVars, ctxDone, webVars, healVars, countVars, touched>>

\* It writes what it makes of the row it read and goes on.
Write(w) ==
  /\ Writing[w] /\ w \in lock
  /\ Background(w) \/ ~ctxDone
  /\ row' = Changed(w, snap[w])
  /\ lock' = lock \ {w} /\ snap' = [snap EXCEPT ![w] = EmptyRow]
  /\ MoveOn(w)
  /\ UNCHANGED <<idx, stopped, deadIn, result, ctxDone, webVars, healVars, countVars, touched>>

\* Seeded fault: the error path does not unlock.
WriteFailsLocked(w) ==
  /\ Writing[w] /\ lock \subseteq {w}
  /\ ctxDone /\ ~Background(w)
  /\ lock' = {w} /\ snap' = NoSnaps
  /\ MoveOn(w)
  /\ UNCHANGED <<row, idx, stopped, deadIn, result, ctxDone, webVars, healVars, countVars, touched>>

\* The context is done: the read or the write fails, which is only logged.
WriteFails(w) ==
  /\ Writing[w] /\ lock \subseteq {w}
  /\ ctxDone /\ ~Background(w)
  /\ lock' = {} /\ snap' = NoSnaps
  /\ MoveOn(w)
  /\ UNCHANGED <<row, idx, stopped, deadIn, result, ctxDone, webVars, healVars, countVars, touched>>

----------------------------------------------------------------------------
(* The coordinator *)

\* Someone in the web server has read the row and will write it.
WebWrites == web # "idle" \/ heal # "idle"

\* A run begins at label `first'.
BeginAt(first) ==
  /\ ~Live /\ runs < MaxRuns
  /\ runs' = runs + 1
  /\ cpc' = first /\ idx' = 1 /\ stopped' = FALSE
  /\ ppc' = [p \in Procs |-> "idle"]
  /\ result' = [p \in Procs |-> "none"]
  /\ ctxDone' = FALSE /\ touched' = WebWrites
  /\ deadIn' = "alive"
  /\ UNCHANGED <<rowVars, webVars, healVars, crashes, aborts>>

\* Seeded fault: a flag left by an earlier run is not cleared.
StartUncleared == BeginAt("routing")

\* An event for the record is handled; it begins by clearing the flag.
StartRun == BeginAt("clear")

\* pollForStop, once a second until the run returns.
Poll ==
  /\ cpc \notin {"off", "clear"}
  /\ row.stop /\ ~ctxDone
  /\ ctxDone' = TRUE
  /\ UNCHANGED <<rowVars, controlVars, procVars, webVars, healVars, countVars, touched>>

\* abortAtBoundary cancels an admitted task once its peak-hour mode is not permitted.
\* (A task aborted before it looks whether it must wait is one canceled while it waits:
\* it writes nothing either way.)
Abort ==
  /\ cpc \notin {"off", "clear", "waiting"}
  /\ ~ctxDone /\ aborts < MaxAborts
  /\ ctxDone' = TRUE /\ touched' = TRUE /\ aborts' = aborts + 1
  /\ UNCHANGED <<rowVars, controlVars, procVars, webVars, healVars, runs, crashes>>

\* Go on to `next', or finish as stopped if the context is done.
Boundary(next) ==
  /\ stopped' = ctxDone
  /\ cpc' = IF ctxDone THEN "finish" ELSE next
  /\ UNCHANGED <<rowVars, deadIn, result, ctxDone, webVars, healVars, countVars, touched>>

Routed ==
  /\ cpc \in {"routing", "admitted"}
  /\ Boundary("reset")
  /\ UNCHANGED <<idx, ppc>>

\* The task must wait for its span, and the row is to say running meanwhile.
Wait ==
  /\ cpc = "routing"
  /\ cpc' = "waiting"
  /\ UNCHANGED <<rowVars, idx, stopped, deadIn, procVars, ctxDone, webVars, healVars,
                 countVars, touched>>

\* The process shuts down while the task waits, or the processors cannot be built: the
\* run returns and writes nothing.
GiveUp ==
  /\ cpc \in {"routing", "admitted"}
  /\ cpc' = "off" /\ deadIn' = cpc
  /\ touched' = WebWrites
  /\ UNCHANGED <<rowVars, idx, stopped, procVars, ctxDone, webVars, healVars, countVars>>

\* The next sequential processor. Only after the first, the blocking one, does the
\* loop look at the context.
Launch ==
  /\ cpc = "sequential" /\ idx <= Len(Sequential)
  /\ idx > 1 => ppc[Sequential[idx - 1]] = "over"
  /\ IF idx > 1 /\ ctxDone
     THEN Boundary("finish") /\ UNCHANGED <<idx, ppc>>
     ELSE /\ idx' = idx + 1
          /\ ppc' = [ppc EXCEPT ![Sequential[idx]] = "activate"]
          /\ UNCHANGED <<rowVars, cpc, stopped, deadIn, result, ctxDone, webVars, healVars,
                         countVars, touched>>

\* Fan out Phase B.
FanOut ==
  /\ cpc = "sequential" /\ idx = Len(Sequential) + 1
  /\ ppc[Sequential[idx - 1]] = "over"
  /\ Boundary("phaseB")
  /\ ppc' = [p \in Procs |-> IF p \in PhaseB /\ ~ctxDone THEN "activate" ELSE ppc[p]]
  /\ UNCHANGED idx

\* wg.Wait returns.
Join ==
  /\ cpc = "phaseB" /\ \A p \in PhaseB : ppc[p] = "over"
  /\ Boundary("announceC")
  /\ UNCHANGED <<idx, ppc>>

\* The processors Phase C indexes.
Indexers == Procs \ {Sequential[1]}
IndexingOver == \A p \in Indexers : ppc[p] \in {"indexed", "indexFailed"}

\* Seeded fault: Phase C does not look at the context as it begins.
BeginUnchecked ==
  /\ cpc = "enterC"
  /\ cpc' = "phaseC"
  /\ UNCHANGED <<rowVars, idx, stopped, deadIn, procVars, ctxDone, webVars, healVars,
                 countVars, touched>>

\* Phase C begins, unless the context is done by then.
BeginPhaseC ==
  /\ cpc = "enterC"
  /\ Boundary("phaseC")
  /\ UNCHANGED <<idx, ppc>>

EndPhaseC ==
  /\ cpc = "phaseC" /\ IndexingOver
  /\ Boundary("finish")
  /\ UNCHANGED <<idx, ppc>>

----------------------------------------------------------------------------
(* A processor *)

GoTo(p, label, res) ==
  /\ ppc' = [ppc EXCEPT ![p] = label]
  /\ result' = [result EXCEPT ![p] = res]
  /\ UNCHANGED <<rowVars, controlVars, ctxDone, webVars, healVars, countVars, touched>>

\* HandleEvent returns. An error while the context is done counts as stopped, and the
\* processor may have written so itself (OnStopFunc).
Work(p) ==
  /\ ppc[p] = "work"
  /\ \/ GoTo(p, "settle", "success")
     \/ ~ctxDone /\ GoTo(p, "settle", "failed")
     \/ ctxDone /\ \E label \in {"ownStop", "settle"} : GoTo(p, label, "stopped")

\* Seeded fault: the recovered panic is written as the status.
PanicSettles(p) ==
  /\ Panics /\ p \in PhaseB /\ ppc[p] = "work"
  /\ GoTo(p, "settle", "panicked")

\* A panic is recovered by the goroutine of Phase B: the result is set, no status is.
Panic(p) ==
  /\ Panics /\ p \in PhaseB /\ ppc[p] = "work"
  /\ GoTo(p, "over", "panicked")

\* Its indexing in Phase C ends; a failure is written to its entry, and the outcome
\* of the run does not change.
Index(p) ==
  /\ cpc = "phaseC" /\ p \in Indexers /\ ppc[p] = "over"
  /\ \E label \in {"indexed", "indexFail"} : GoTo(p, label, result[p])

----------------------------------------------------------------------------
(* The web server and the crash *)

\* StopPipeline: SetStopRequested, then MarkDocProcessingStopped, each a read and a
\* write without the lock.
SetRead ==
  /\ web = "idle" /\ stops < MaxStops
  /\ seen' = row /\ web' = "set" /\ stops' = stops + 1 /\ touched' = TRUE
  /\ UNCHANGED <<rowVars, controlVars, procVars, ctxDone, healVars, countVars>>

SetWrite ==
  /\ web = "set"
  /\ row' = WithStop(seen, TRUE)
  /\ web' = "marking" /\ seen' = EmptyRow
  /\ UNCHANGED <<lock, snap, controlVars, procVars, ctxDone, stops, healVars, countVars, touched>>

\* Seeded fault: only the flag is set.
MarkNothing ==
  /\ web = "marking"
  /\ web' = "idle"
  /\ UNCHANGED <<rowVars, controlVars, procVars, ctxDone, seen, stops, healVars, countVars, touched>>

MarkRead ==
  /\ web = "marking"
  /\ IF row.pipe = "running" THEN web' = "mark" /\ seen' = row
                             ELSE web' = "idle" /\ UNCHANGED seen
  /\ UNCHANGED <<rowVars, controlVars, procVars, ctxDone, stops, healVars, countVars, touched>>

MarkWrite ==
  /\ web = "mark"
  /\ row' = WithPipeline(seen, "stopped", NoProc)
  /\ web' = "idle" /\ seen' = EmptyRow
  /\ UNCHANGED <<lock, snap, controlVars, procVars, ctxDone, stops, healVars, countVars, touched>>

\* isStuckPipeline.
Stuck(r) ==
  /\ r.pipe = "running" /\ r.name # NoProc
  /\ r.entry[r.name] # "none"
  /\ \A p \in Procs : r.entry[p] # "active"

\* FixStuckPipeline, when a user lists the running pipelines.
HealRead ==
  /\ heal = "idle" /\ heals < MaxHeals /\ Stuck(row)
  /\ sick' = row /\ heal' = "heal" /\ heals' = heals + 1 /\ touched' = TRUE
  /\ UNCHANGED <<rowVars, controlVars, procVars, ctxDone, webVars, countVars>>

HealWrite ==
  /\ heal = "heal"
  /\ row' = WithPipeline(sick, "success", NoProc)
  /\ heal' = "idle" /\ sick' = EmptyRow
  /\ UNCHANGED <<lock, snap, controlVars, procVars, ctxDone, webVars, heals, countVars, touched>>

\* The doc-processor dies. The row stays as it is.
Crash ==
  /\ Live /\ crashes < MaxCrashes
  /\ crashes' = crashes + 1
  /\ deadIn' = cpc /\ cpc' = "off"
  /\ ppc' = [p \in Procs |-> "idle"]
  /\ lock' = {} /\ snap' = NoSnaps
  /\ touched' = WebWrites
  /\ UNCHANGED <<row, idx, stopped, result, ctxDone, webVars, healVars, runs, aborts>>

ControlStep == Routed \/ GiveUp \/ Wait \/ Launch \/ FanOut \/ Join \/ BeginPhaseC \/ EndPhaseC
WriteStep(w) == Read(w) \/ Write(w) \/ WriteFails(w)
WebStep == SetWrite \/ MarkRead \/ MarkWrite \/ HealWrite

Next ==
  \/ StartRun \/ Poll \/ Abort \/ ControlStep
  \/ \E w \in Writers : WriteStep(w)
  \/ \E p \in Procs : Work(p) \/ Panic(p) \/ Index(p)
  \/ SetRead \/ HealRead \/ WebStep
  \/ Crash

Spec == Init /\ [][Next]_vars

\* Goroutines and handlers that have begun go on, and a mutex is handed on.
Fairness ==
  /\ WF_vars(ControlStep) /\ WF_vars(WebStep)
  /\ \A w \in Writers : SF_vars(WriteStep(w))
  /\ \A p \in Procs : WF_vars(Work(p)) /\ WF_vars(Index(p))

FairSpec == Spec /\ Fairness

----------------------------------------------------------------------------
(* Properties *)

\* What the entry of a processor must say when a run nobody interfered with is over.
\* A panic leaves it active.
Told(p) ==
  IF ppc[p] = "indexFailed" THEN "failed"
  ELSE IF result[p] = "panicked" THEN "active" ELSE result[p]

\* The lock keeps every entry: a run that nobody stopped, aborted or healed ends with the row
\* saying what each of its processors came to, none of the concurrent writes lost.
EntriesSurvive == cpc = "finish" /\ ~touched => \A p \in Procs : row.entry[p] = Told(p)

\* A run whose context is canceled before it ends is stopped, neither failed (its
\* processors return errors then) nor a success.
StopWins == [][cpc # "finish" /\ cpc' = "finish" /\ ctxDone => stopped']_vars

\* A stop request that was answered before a run began does not stop that run: the
\* flag is cleared at its start (a dead run and a restart may leave it), and a context is
\* done only when somebody asked for a stop, or the run was aborted, since.
OldStopsAreCleared == Live /\ ctxDone => touched

\* A record that nobody works on is not shown as running, unless its process died, or
\* the run gave up, and nobody asked for a stop since.
Settled ==
  ~Live /\ ~WebWrites /\ (deadIn = "alive" \/ touched) => row.pipe # "running"

\* A record that nobody stopped, or that was stopped once and never aborted.
OneStop == stops = 0 \/ (stops = 1 /\ aborts = 0)

\* So it is for a record with at most one stop request, whatever the race between the
\* stop handler, the end of a run, the next run, a crash and the auto-heal: a stop
\* request that overwrites the final status with the running row it has read mends it.
\* (It does not when the run was aborted as well: the last write of the run, which
\* clears the flag, can read that row and write it again after the stop request.)
OneStopSettles == OneStop => Settled

\* Every run ends, and with it, unless it gave up, such a record stops being shown as
\* running.
RunsSettle == Live ~> ~Live /\ (deadIn = "alive" /\ OneStop => row.pipe # "running")
----------------------------------------------------------------------------
(* What a run promises *)

\* A run ends where its outcome is known, though a write or two of the row are to come.
StageOf ==
  CASE cpc \in {"finish", "clearEnd"} -> "over"
    [] cpc = "phaseC" -> "indexing"
    [] cpc = "off" -> IF runs = 0 THEN "idle"
                      ELSE IF deadIn \in {"alive", "finish", "clearEnd"} THEN "over" ELSE "dead"
    [] OTHER -> "processing"

InRun == StageOf \in {"processing", "indexing"}

WorkOf(p) ==
  CASE ppc[p] = "idle" -> "idle"
    [] ppc[p] \in {"activate", "name", "work", "ownStop", "settle"} -> "busy"
    [] OTHER -> "done"

workOf == [p \in Procs |-> IF InRun THEN WorkOf(p) ELSE "idle"]
indexedOf == {p \in Indexers : InRun /\ ppc[p] \in {"indexed", "indexFailed"}}
canceledOf == InRun /\ ctxDone
troubleOf == InRun /\ \E p \in Procs : result[p] \in {"failed", "panicked"}
outcomeOf == IF StageOf = "over" THEN Outcome ELSE "none"

Phased == INSTANCE PhasedRun WITH
  stage <- StageOf, work <- workOf, indexed <- indexedOf, canceled <- canceledOf,
  trouble <- troubleOf, outcome <- outcomeOf

\* The runs of a record implement PhasedRun: Phase B ends before Phase C begins, and a
\* run that is not canceled ends after Phase C with what its processors came to.
ImplementsRun == Phased!Spec
============================================================================
