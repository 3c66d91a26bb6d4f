------------------------------ MODULE BatchedRun -----------------------------
(* Phases B and C of one processing run in chunk-batch mode                    *)
(* (server/api/doc-processing: chunk_batch_coordinator.go, chunk_batch.go and  *)
(* runPostProcessIndexing of control.go).                                      *)
(*                                                                             *)
(* The processors that can work chunk by chunk are initialised in order; then  *)
(* one of them, the seed, is called on the first chunk, after a pause on its   *)
(* other chunks, and after another pause every other processor is called on    *)
(* every chunk, a bounded number of calls at a time. When all calls are over,  *)
(* the processors are finalized in order. The other processors run beside. In  *)
(* Phase C the invoked processors index what they made, each once the ones it  *)
(* names have.                                                                 *)
(*                                                                             *)
(* The task context may be canceled at any time. A status written with it then *)
(* fails and is only logged. (The lock on the row and the doc_processing entry *)
(* are in PipelineRun.)                                                        *)
EXTENDS Integers, Sequences, FiniteSets

CONSTANTS
  Batch,       \* the processors that implement ChunkBatchProcessor, in order
  MultiPass,   \* those that call the model more than once for a chunk
  Positional,  \* those that take the i-th result for that of the i-th chunk
  Legacy,      \* the processors of Phase B that cannot work by chunks
  Indexers,    \* the processors with a step in Phase C
  DependsOn,   \* the names each of them waits for in Phase C
  NChunks,     \* the chunks of the document
  Cap          \* MAX_DOC_PROCESSOR_TASKS

Batched == {Batch[i] : i \in DOMAIN Batch}
Procs == Batched \cup Legacy
Chunks == 1..NChunks
Calls == Batched \X Chunks

ASSUME ProcsAssumption ==
  /\ Batch \in Seq(Batched) /\ Batch # <<>>
  /\ Batched \cap Legacy = {}
  /\ MultiPass \subseteq Batched /\ Positional \subseteq Batched
  /\ Indexers \subseteq Procs
  /\ DOMAIN DependsOn = Indexers

ASSUME NumbersAssumption == NChunks \in Nat \ {0} /\ Cap \in Nat \ {0}

VARIABLES
  phase, at,      \* the coordinator and its position in Batch
  ready,          \* initOK: the processors whose init succeeded
  call,           \* what became of each ProcessChunk
  holders,        \* the calls that hold a place in the semaphore
  results,        \* batchResults: the chunks in the order their results came
  saved,          \* which chunk each result was saved as
  schedErr,       \* the first error of scheduleChunkBatch
  batchErr,       \* batchFirstErr # nil
  failed, stopped,\* requestFailed and requestStopped
  legacy, index,  \* the other processors, and the indexing of each processor
  entry,          \* the entry of each processor in the status array
  ctxDone,        \* the task context is canceled
  outcome         \* the status the run ends with

batchVars == <<phase, at, ready, batchErr>>
callVars == <<call, holders, results, schedErr>>
flagVars == <<failed, stopped, outcome>>
vars == <<batchVars, callVars, saved, flagVars, legacy, index, entry, ctxDone>>

Phases == {"load", "activate", "init", "initialize", "seed", "stagger1", "stagger2", "abandon", "wait", "finalize",
           "save", "join", "phaseC", "over", "dead"}
CallStates == {"none", "queued", "started", "working", "done", "error", "skipped"}
Results == {"success", "failed", "stopped", "panicked"}

TypeOK ==
  /\ phase \in Phases /\ at \in 1..Len(Batch)
  /\ ready \subseteq Batched
  /\ call \in [Calls -> CallStates]
  /\ holders \subseteq Calls
  /\ results \in [Positional -> Seq(Chunks)]
  /\ saved \in [Positional -> SUBSET (Chunks \X Nat)]
  /\ schedErr \in {"none", "error", "stopped"}
  /\ {batchErr, failed, stopped, ctxDone} \subseteq BOOLEAN
  /\ legacy \in [Legacy -> {"launched", "working"} \cup Results]
  /\ index \in [Indexers -> {"none", "waiting", "indexing", "over"}]
  /\ entry \in [Procs -> {"none", "active", "success", "failed", "stopped"}]
  /\ outcome \in {"none", "success", "failed", "stopped"}

Init ==
  /\ phase = "load" /\ at = 1 /\ ready = {}
  /\ call = [c \in Calls |-> "none"] /\ holders = {}
  /\ results = [p \in Positional |-> <<>>] /\ saved = [p \in Positional |-> {}]
  /\ schedErr = "none" /\ batchErr = FALSE
  /\ failed = FALSE /\ stopped = FALSE /\ outcome = "none"
  /\ legacy = [p \in Legacy |-> "launched"]
  /\ index = [p \in Indexers |-> "none"]
  /\ entry = [p \in Procs |-> "none"]
  /\ ctxDone = FALSE

\* persistProcessorRuntimeStatus, with the task context.
Persist(p, status) == entry' = IF ctxDone THEN entry ELSE [entry EXCEPT ![p] = status]

Alive == phase \notin {"over", "dead"}
InFlight(c) == call[c] \in {"queued", "started", "working"}
CallsOver == \A c \in Calls : ~InFlight(c)
Current == Batch[at]

----------------------------------------------------------------------------
(* The coordinator *)

\* The record, its lines or its chunks cannot be loaded.
LoadFails ==
  /\ phase = "load"
  /\ phase' = "join" /\ failed' = TRUE
  /\ UNCHANGED <<at, ready, batchErr, callVars, saved, stopped, outcome, legacy, index, entry, ctxDone>>

Load ==
  /\ phase = "load"
  /\ phase' = "activate"
  /\ UNCHANGED <<at, ready, batchErr, callVars, saved, flagVars, legacy, index, entry, ctxDone>>

Activate ==
  /\ phase = "activate"
  /\ Persist(Current, "active")
  /\ phase' = "init"
  /\ UNCHANGED <<at, ready, batchErr, callVars, saved, flagVars, legacy, index, ctxDone>>

\* The coordinator leaves Phase B as stopped. (The "stopped" it writes for the current
\* processor fails, the context being done.)
StopBatch ==
  /\ phase' = "join" /\ stopped' = TRUE
  /\ UNCHANGED <<at, ready, batchErr, callVars, saved, failed, outcome, legacy, index, entry, ctxDone>>

\* After the init of the last processor the batch is scheduled, if any init succeeded.
AfterInit(ok) ==
  IF at < Len(Batch)
  THEN phase' = "activate" /\ at' = at + 1 /\ UNCHANGED failed
  ELSE /\ phase' = IF ok = {} THEN "join" ELSE "seed"
       /\ failed' = (ok = {})
       /\ at' = 1

\* InitChunkBatch of the current processor is called, unless the run is stopped.
BeginInit ==
  /\ phase = "init"
  /\ IF ctxDone THEN StopBatch
     ELSE /\ phase' = "initialize"
          /\ UNCHANGED <<at, ready, batchErr, callVars, saved, flagVars, legacy, index, entry, ctxDone>>

\* It returns.
InitBatch ==
  /\ phase = "initialize"
  /\ \/ ready' = ready \cup {Current} /\ UNCHANGED <<batchErr, entry>>
     \/ batchErr' = TRUE /\ Persist(Current, "failed") /\ UNCHANGED ready
  /\ AfterInit(ready')
  /\ UNCHANGED <<callVars, saved, stopped, outcome, legacy, index, ctxDone>>

\* orderBatchProcessorsSeedFirst: the first processor that makes one call for a chunk,
\* or else the first.
Seed ==
  LET clean == IF ready \subseteq MultiPass THEN ready ELSE ready \ MultiPass
      place(p) == CHOOSE i \in DOMAIN Batch : Batch[i] = p
  IN  CHOOSE p \in clean : \A q \in clean : place(p) <= place(q)

Others == {c \in Calls : c[1] \in ready \ {Seed}}

\* Go on to `next' with the calls of S launched in the given state.
Launch(S, state, next) ==
  /\ call' = [c \in Calls |-> IF c \in S THEN state ELSE call[c]]
  /\ phase' = next
  /\ UNCHANGED <<at, ready, batchErr, holders, results, schedErr, saved, flagVars, legacy, index,
                 entry, ctxDone>>

\* Phase 1a. There is no pause when nothing follows.
LaunchSeed ==
  /\ phase = "seed"
  /\ Launch({<<Seed, 1>>}, "started", IF NChunks = 1 /\ ready = {Seed} THEN "wait" ELSE "stagger1")

\* Phase 1c, when the pause is over.
LaunchSeedRest ==
  /\ phase = "stagger1"
  /\ Launch({Seed} \X (2..NChunks), "started", IF ready = {Seed} THEN "wait" ELSE "stagger2")

\* Seeded fault: the others skip the first chunk, as the seed's second launch does.
LaunchRestFromTwo ==
  /\ phase = "stagger2"
  /\ Launch({c \in Others : c[2] > 1}, "queued", "wait")

\* Phase 3, after another pause.
LaunchRest ==
  /\ phase = "stagger2"
  /\ Launch(Others, "queued", "wait")

\* Seeded fault: the stop returns without wg.Wait.
AbandonAtOnce ==
  /\ phase \in {"stagger1", "stagger2"} /\ ctxDone
  /\ StopBatch

\* The run is stopped during a pause: the calls in flight are waited for.
Abandon ==
  /\ phase \in {"stagger1", "stagger2"} /\ ctxDone
  /\ phase' = "abandon"
  /\ UNCHANGED <<at, ready, batchErr, callVars, saved, flagVars, legacy, index, entry, ctxDone>>

Abandoned == phase = "abandon" /\ CallsOver /\ StopBatch

\* Seeded fault: the error of a call is only logged.
CallsEndLosing ==
  /\ phase = "wait" /\ CallsOver
  /\ IF schedErr = "stopped" THEN StopBatch
     ELSE /\ phase' = "finalize"
          /\ UNCHANGED <<at, ready, batchErr, callVars, saved, flagVars, legacy, index, entry, ctxDone>>

\* wg.Wait returns. An error of a call is the batch's unless it has one.
CallsEnd ==
  /\ phase = "wait" /\ CallsOver
  /\ IF schedErr = "stopped" THEN StopBatch
     ELSE /\ phase' = "finalize"
          /\ batchErr' = (batchErr \/ schedErr = "error")
          /\ UNCHANGED <<at, ready, callVars, saved, flagVars, legacy, index, entry, ctxDone>>

\* Seeded fault: the loop goes past the last processor.
AfterFinalizePast(err) ==
  IF at <= Len(Batch)
  THEN phase' = "finalize" /\ at' = at + 1 /\ UNCHANGED failed
  ELSE phase' = "join" /\ failed' = err /\ UNCHANGED at

\* The next processor, or the end of the batch.
AfterFinalize(err) ==
  IF at < Len(Batch)
  THEN phase' = "finalize" /\ at' = at + 1 /\ UNCHANGED failed
  ELSE phase' = "join" /\ failed' = err /\ UNCHANGED at

\* A processor whose init failed is passed over.
Finalize ==
  /\ phase = "finalize"
  /\ IF Current \notin ready
     THEN /\ AfterFinalize(batchErr)
          /\ UNCHANGED <<ready, batchErr, callVars, saved, stopped, outcome, legacy, index, entry, ctxDone>>
     ELSE IF ctxDone THEN StopBatch
     ELSE /\ phase' = "save"
          /\ UNCHANGED <<at, ready, batchErr, callVars, saved, flagVars, legacy, index, entry, ctxDone>>

\* What FinalizeChunkBatch makes of the results: the i-th is read against the i-th chunk.
Paired(p) == {<<results[p][i], i>> : i \in DOMAIN results[p]}

\* FinalizeChunkBatch returns: saved, failed, or stopped.
Save ==
  /\ phase = "save"
  /\ \/ ctxDone /\ StopBatch
     \/ /\ saved' = [p \in Positional |-> IF p = Current THEN Paired(p) ELSE saved[p]]
        /\ Persist(Current, "success")
        /\ AfterFinalize(batchErr)
        /\ UNCHANGED <<ready, batchErr, callVars, stopped, outcome, legacy, index, ctxDone>>
     \/ /\ batchErr' = TRUE
        /\ Persist(Current, "failed")
        /\ AfterFinalize(TRUE)
        /\ UNCHANGED <<ready, callVars, saved, stopped, outcome, legacy, index, ctxDone>>

\* A panic in InitChunkBatch or FinalizeChunkBatch is recovered by nobody: the process
\* dies.
BatchPanics ==
  /\ phase \in {"initialize", "save"}
  /\ phase' = "dead"
  /\ UNCHANGED <<at, ready, batchErr, callVars, saved, flagVars, legacy, index, entry, ctxDone>>

----------------------------------------------------------------------------
(* A call of ProcessChunk *)

\* Only the first error is kept.
Record(e) == schedErr' = IF schedErr = "none" THEN e ELSE schedErr

\* The call moves on; it leaves the semaphore when it is over.
Set(c, state) ==
  /\ call' = [call EXCEPT ![c] = state]
  /\ holders' = IF state \in {"done", "error", "skipped"} THEN holders \ {c} ELSE holders
  /\ UNCHANGED <<batchVars, saved, flagVars, legacy, index, entry, ctxDone>>

\* A call of Phase 3 takes a place, or gives up if the run is stopped.
Enter(c) ==
  /\ call[c] = "queued" /\ Cardinality(holders) < Cap
  /\ call' = [call EXCEPT ![c] = "started"]
  /\ holders' = holders \cup {c}
  /\ UNCHANGED <<batchVars, results, schedErr, saved, flagVars, legacy, index, entry, ctxDone>>

GiveUp(c) ==
  /\ call[c] = "queued" /\ ctxDone
  /\ Set(c, "skipped") /\ Record("stopped")
  /\ UNCHANGED results

\* runOne looks at the context first.
Begin(c) ==
  /\ call[c] = "started"
  /\ IF ctxDone THEN Set(c, "skipped") /\ Record("stopped")
                ELSE Set(c, "working") /\ UNCHANGED schedErr
  /\ UNCHANGED results

\* ProcessChunk returns. Its result is appended under the processor's own lock.
Succeed(c) ==
  /\ call[c] = "working"
  /\ Set(c, "done")
  /\ results' = [p \in Positional |-> IF p = c[1] THEN Append(results[p], c[2]) ELSE results[p]]
  /\ UNCHANGED schedErr

\* Seeded fault: a call that fails keeps its place.
FailHolding(c) ==
  /\ call[c] = "working"
  /\ call' = [call EXCEPT ![c] = "error"]
  /\ Record("error")
  /\ UNCHANGED <<batchVars, holders, results, saved, flagVars, legacy, index, entry, ctxDone>>

Fail(c) ==
  /\ call[c] = "working"
  /\ Set(c, "error") /\ Record("error")
  /\ UNCHANGED results

\* It has noticed the stop.
Skip(c) ==
  /\ call[c] = "working" /\ ctxDone
  /\ Set(c, "skipped") /\ Record("stopped")
  /\ UNCHANGED results

\* Nor is a panic in a call.
Panic(c) ==
  /\ call[c] = "working"
  /\ phase' = "dead"
  /\ UNCHANGED <<at, ready, batchErr, callVars, saved, flagVars, legacy, index, entry, ctxDone>>

----------------------------------------------------------------------------
(* The other processors of Phase B *)

LegacyBegin(p) ==
  /\ legacy[p] = "launched"
  /\ legacy' = [legacy EXCEPT ![p] = "working"]
  /\ Persist(p, "active")
  /\ UNCHANGED <<batchVars, callVars, saved, flagVars, index, ctxDone>>

\* HandleEvent returns. An error while the context is done counts as stopped.
LegacyEnd(p) ==
  /\ legacy[p] = "working"
  /\ \E r \in {"success", IF ctxDone THEN "stopped" ELSE "failed"} :
       legacy' = [legacy EXCEPT ![p] = r] /\ Persist(p, r)
  /\ UNCHANGED <<batchVars, callVars, saved, flagVars, index, ctxDone>>

\* A panic is recovered: the result is set, the entry stays.
LegacyPanic(p) ==
  /\ legacy[p] = "working"
  /\ legacy' = [legacy EXCEPT ![p] = "panicked"]
  /\ UNCHANGED <<batchVars, callVars, saved, flagVars, index, entry, ctxDone>>

LegacyOver == \A p \in Legacy : legacy[p] \in Results

----------------------------------------------------------------------------
(* Phase C and the end *)

\* Seeded fault: a failure outranks the stop.
EndFailed(isStopped, isFailed) ==
  /\ phase' = "over"
  /\ stopped' = isStopped /\ failed' = isFailed
  /\ outcome' = IF isFailed THEN "failed" ELSE IF isStopped THEN "stopped" ELSE "success"

EndRun(isStopped, isFailed) ==
  /\ phase' = "over"
  /\ stopped' = isStopped /\ failed' = isFailed
  /\ outcome' = IF isStopped THEN "stopped" ELSE IF isFailed THEN "failed" ELSE "success"

\* The other processors are waited for. Unless the run is stopped, Phase C begins.
Join ==
  /\ phase = "join" /\ LegacyOver
  /\ LET isFailed == failed \/ \E p \in Legacy : legacy[p] # "success"
         isStopped == stopped \/ \E p \in Legacy : legacy[p] = "stopped"
     IN  IF isStopped \/ ctxDone
         THEN EndRun(TRUE, isFailed) /\ UNCHANGED index
         ELSE /\ phase' = "phaseC" /\ failed' = isFailed
              /\ index' = [p \in Indexers |-> "waiting"]
              /\ UNCHANGED <<stopped, outcome>>
  /\ UNCHANGED <<at, ready, batchErr, callVars, saved, legacy, entry, ctxDone>>

\* The names it waits for that are invoked in this run.
Awaited(p) == DependsOn[p] \cap Indexers

SetIndex(p, state) ==
  /\ index' = [index EXCEPT ![p] = state]
  /\ UNCHANGED <<batchVars, callVars, saved, flagVars, legacy, ctxDone>>

\* Seeded fault: it waits until they have begun.
IndexAfterOne(p) ==
  /\ phase = "phaseC" /\ index[p] = "waiting"
  /\ \A q \in Awaited(p) : index[q] \in {"indexing", "over"}
  /\ SetIndex(p, "indexing") /\ UNCHANGED entry

\* Its done channels are closed.
Index(p) ==
  /\ phase = "phaseC" /\ index[p] = "waiting"
  /\ \A q \in Awaited(p) : index[q] = "over"
  /\ SetIndex(p, "indexing") /\ UNCHANGED entry

\* The context is done while it waits.
IndexGivesUp(p) ==
  /\ phase = "phaseC" /\ index[p] = "waiting"
  /\ ctxDone /\ Awaited(p) # {}
  /\ SetIndex(p, "over") /\ UNCHANGED entry

\* PostProcessIndex returns or panics: its done channel is closed in any case.
IndexEnd(p) ==
  /\ phase = "phaseC" /\ index[p] = "indexing"
  /\ SetIndex(p, "over")
  /\ UNCHANGED entry \/ Persist(p, "failed")

EndPhaseC ==
  /\ phase = "phaseC" /\ \A p \in Indexers : index[p] = "over"
  /\ EndRun(ctxDone, failed)
  /\ UNCHANGED <<at, ready, batchErr, callVars, saved, legacy, index, entry, ctxDone>>

\* A stop, or an abort at the end of the span.
Cancel ==
  /\ Alive /\ ~ctxDone
  /\ ctxDone' = TRUE
  /\ UNCHANGED <<batchVars, callVars, saved, flagVars, legacy, index, entry>>

Finished == ~Alive /\ UNCHANGED vars

Coordinate ==
  \/ Load \/ LoadFails \/ Activate \/ BeginInit \/ InitBatch \/ LaunchSeed \/ LaunchSeedRest
  \/ LaunchRest \/ Abandon \/ Abandoned \/ CallsEnd \/ Finalize \/ Save \/ Join \/ EndPhaseC
RunCall(c) == Enter(c) \/ GiveUp(c) \/ Begin(c) \/ Succeed(c) \/ Fail(c) \/ Skip(c)
RunLegacy(p) == LegacyBegin(p) \/ LegacyEnd(p) \/ LegacyPanic(p)
RunIndex(p) == Index(p) \/ IndexGivesUp(p) \/ IndexEnd(p)

Next ==
  \/ Alive /\ \/ Coordinate \/ BatchPanics
              \/ \E c \in Calls : RunCall(c) \/ Panic(c)
              \/ \E p \in Legacy : RunLegacy(p)
              \/ \E p \in Indexers : RunIndex(p)
  \/ Cancel
  \/ Finished

Spec == Init /\ [][Next]_vars

\* Goroutines that can go on do, and a place in the semaphore is given in turn.
Fairness ==
  /\ WF_vars(Alive /\ Coordinate)
  /\ \A c \in Calls : SF_vars(Alive /\ RunCall(c))
  /\ \A p \in Legacy : WF_vars(Alive /\ RunLegacy(p))
  /\ \A p \in Indexers : WF_vars(Alive /\ RunIndex(p))

FairSpec == Spec /\ Fairness

----------------------------------------------------------------------------
(* Properties *)

\* No call of a batch outlives it: when the processors are finalized, when Phase C
\* indexes and when the run is over, none still works on its processor's state,
\* whichever of the pauses, the semaphore or the calls the stop has met.
NothingOutlives ==
  phase \in {"finalize", "save", "join", "phaseC", "over"} => CallsOver

\* A processor shown as a success had every chunk of the document handed to it, once.
SavedWhole ==
  \A p \in Batched : entry[p] = "success" =>
    \A k \in Chunks : call[<<p, k>>] \in {"done", "error"}

\* A run that left out a call because of a stop is stopped, not failed or a success,
\* though only the first error is kept and it may be another.
SkippedMeansStopped ==
  outcome \in {"success", "failed"} => \A c \in Calls : call[c] # "skipped"

\* A processor indexes in Phase C only when all of Phase B is over and the processors
\* it names that take part have indexed, failed or given up.
IndexersSeeAll ==
  \A p \in Indexers : index[p] = "indexing" =>
    /\ CallsOver /\ LegacyOver
    /\ \A q \in Awaited(p) : index[q] = "over"

\* Every run ends, stopped or not: nobody waits for a place, for a call or for an
\* indexer that never comes.
RunEnds == <>~Alive

\* The coordinator answers for its processors from the first call of each to the join,
\* each of the others for itself.
WorkOf(p) ==
  CASE p \in Batched /\ phase \notin {"join", "phaseC"} ->
         IF \A k \in Chunks : call[<<p, k>>] = "none" THEN "idle" ELSE "busy"
    [] p \in Batched /\ phase \in {"join", "phaseC"} ->
         IF \E k \in Chunks : InFlight(<<p, k>>) THEN "busy" ELSE "done"
    [] p \in Legacy /\ legacy[p] = "launched" -> "idle"
    [] p \in Legacy /\ legacy[p] = "working" -> "busy"
    [] OTHER -> "done"

StageOf ==
  CASE phase = "over" -> "over"
    [] phase = "dead" -> "dead"
    [] phase = "phaseC" -> "indexing"
    [] OTHER -> "processing"

workOf == [p \in Procs |-> IF Alive THEN WorkOf(p) ELSE "idle"]
indexedOf == {p \in Indexers : Alive /\ index[p] = "over"}
canceledOf == Alive /\ ctxDone
HasFailed ==
  \/ failed \/ batchErr \/ schedErr = "error"
  \/ \E p \in Legacy : legacy[p] \in {"failed", "panicked"}
troubleOf == Alive /\ HasFailed

Phased == INSTANCE PhasedRun WITH
  stage <- StageOf, work <- workOf, indexed <- indexedOf, canceled <- canceledOf,
  trouble <- troubleOf

\* Phases B and C in chunk-batch mode implement PhasedRun, as the runs of PipelineRun do:
\* whatever the pauses, the semaphore and the two lists of processors do, a stop ends
\* the run as stopped with no call in flight, and an error makes it failed.
ImplementsRun == Phased!Spec

\* The provisions of a chunk are read against the lines of that chunk.
ResultsKeepTheirChunk == \A p \in Positional : \A s \in saved[p] : s[1] = s[2]
============================================================================
