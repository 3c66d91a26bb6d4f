# A verification of the deepdoc server

TLA+ models of the parts of the deepdoc server (`src/server`) in which processes, goroutines,
HTTP handlers, the database and the message broker interleave, with what TLC checks of them on
small instances and what TLAPS proves of them for every instance. The code is the reference: each
definition that models code is listed in `PROJECT.json` ("map") with the lines it stands for.

## 1. The system

deepdoc ingests documents, parses them, extracts structured knowledge with LLM calls and serves
the result. The processes are the web server (`cmd/deepdoc`), the staging poller (`cmd/doc-service`),
the PDF parser service and the parser-result converter, and the `doc-processor`. They share a
Postgres database (`kb.*`, `ap_*`) and exchange events over NATS JetStream.

### Inventory

| Component | State | Operations | Hard because | Module |
|---|---|---|---|---|
| agent-platform run queue (`agentplatformhandler/worker.go`, `task.go`, `startup.go`) | rows of `ap_task_run`, a registry of cancel funcs, worker goroutines | submit, claim, execute, cancel, renew, sweep, restart | concurrent unguarded UPDATEs, leases, crashes | `AgentRunQueue`, `RunLifecycle` |
| doc-processing pipeline slots and peak-hour admission (`control.go`, `peak_window.go`, `task_engine_policy.go`) | a buffered channel, a lease per pipeline, the window | acquire, suspend, resume, release, start commands | waits of hours, stops during a wait, nested acquisition | `PipelineSlots` |
| doc-processing runs, status row, stop and auto-heal (`control.go`, `status_lock.go`, `stop.go`, `kbhandler/stop_pipeline_handler.go`) | `kb.inputs.status`, a JSON array rewritten as a whole | start, phases A to C, stop, heal, crash | two processes read, change and write one array; one of them under a lock the other does not know | `PipelineRun`, `PhasedRun` |
| event delivery and shutdown of the doc-processor (`file-converters/jetstream.go`, `cmd/doc-processor/main.go`) | stream, inbox, callbacks, two wait groups | deliver, acknowledge, redeliver, drain, crash | redelivery while a callback blocks; concurrent drains | `EventDelivery` |
| chunk-batch coordinator (`chunk_batch_coordinator.go`, `chunk_batch.go`) | wait group, semaphore and error slots of a batch | init, seed, two pauses, fan out, finalize | a stop at any of them, calls that share their processor's state | `BatchedRun`, `PhasedRun` |
| post-processing phase (`runPostProcessIndexing` of `control.go`) | a done channel per indexer | wait for the named ones, index, give up | everybody waits for somebody | `BatchedRun`, `PhasedRun` |
| LLM call controller (`llm_call_controller.go`) | a permit channel per model, timers | acquire, release, take back | the timer against the call; the client that is built today takes no permit (section 2) | `ChunkCalls` |
| document processors (`entity-relation-split.go`, `extract-entity-relation.go`, `chunk_summary_shared.go`, ...) | rows of what was extracted, a status entry | a job per chunk, fallback model, save, status | concurrent calls that hang, fail or are stopped; rows saved one by one | `ChunkCalls` (entity extraction) |
| document-review controller (`doc-reviews/controller.go`, `handler.go`, `jetstream.go`) | requests and runs in the database | submit, claim, stop, restart, recover | two processes that share two tables, without transactions | `DocReview` |
| schedule runner (`scheduler/scheduler.go`, `scheduler_sql.go`, `kbhandler/schedules_handler.go`) | `kb.scheduled_jobs`, a ticker | run due, advance, edit | edits during a run, crashes, a limit on what a pass takes | `Scheduler` |
| semantic retry queue | `kb.semantic_retry_queue` | claim with a lease, mark, reschedule | marks that ignore the lease | not modelled |
| semantic occurrences and outcomes | their tables | claim, materialise, supersede | one active outcome per key | not modelled |
| document generation worker | job channel | submit, process, requeue | duplicate jobs, full channel | not modelled |
| agent-platform event hub | subscriber sets | subscribe, publish, kick | publish against unsubscribe | not modelled |

What is not modelled is the subject of the last section.

### How the modelled parts interact

An event reaches a callback of the doc-processor (`EventDelivery`), which waits for a slot
(`PipelineSlots`), dispatches a pipeline and acknowledges the event; the pipeline may give its slot
back while it waits for its span, then runs (`PipelineRun`), while the web server reads and writes
the same status row. `EventDelivery` carries the part of `PipelineSlots` that matters to it (who owns
a slot, who is parked without one); `PipelineRun` has the wait for the span as one step.

Inside a run, `BatchedRun` is Phases B and C in chunk-batch mode: what `PipelineRun` takes as
processors that work concurrently and indexers that follow. There the lock on the row and the
`doc_processing` entry are left out, since `PipelineRun` has them; what both have is that a status
written after the stop fails. Both implement one abstract run, `PhasedRun`: that is in which sense
the one stands for the other. `ChunkCalls` is the inside of one processor, with the permits that the
processors of all runs share. `DocReview` uses the doc-processor and JetStream as `EventDelivery`
does, for a subscription of its own whose events need no slot.

The web server has two engines of its own: the agent-platform queue (`AgentRunQueue`) and the
schedule runner (`Scheduler`).

## 2. The modules

### RunLifecycle, AgentRunQueue, MCAgentRunQueue, AgentRunQueueTheorems

`RunLifecycle` is what a user is promised: a submitted run waits, is open, and is settled once and
for good. `AgentRunQueue` is the code. One SQL statement is one action; what executes between two
statements of a handler is interleaved.

| State | Code |
|---|---|
| `status`, `lease`, `arrival` | columns `status`, `lease_expires_at`, `queued_at` of `ap_task_run` |
| `lastEvent` | the last status event of the run in `ap_task_event` |
| `pc`, `job`, `ctxDone` | a worker in `runLoop`/`executeRun`, its run, its `runCtx` |
| `cancelPc`, `cancelRun` | a request in `CancelTaskRun` between its read, its UPDATE and its signal |
| `claims`, `crashes` | history |

`Claim` is `claimNextRun`, `MarkRunning` the UPDATE to `running` (unguarded in the code, hence here),
`FinishRun` is `finishRun` (guarded), `Renew`/`LeaseLapses`/`Sweep` the lease, `CancelRead`,
`CancelUpdate`, `CancelSignal` the three steps of the cancel handler. Time is abstract: a lease is
live until it lapses, and it may lapse at any time.

### PipelineSlots, MCPipelineSlots, PipelineSlotsTheorems

The channel `pipelineSlots` is its length `used`; a lease is whether its pipeline owns a slot
(`held`). `Acquire`, `Suspend`, `ResumeWithSlot`, `ResumeWithout` and `Release` are
`acquirePipelineSlot` and the methods of `pipelineSlotLease`; `Admit`, `WaitEnds` and `Abort` are
`admitTask` and the cross-peak watcher; `Spawn` and `Join` are the start command of dev mode, which
keeps its slot while its documents each take one. The peak window is a flag that changes at most
`MaxChanges` times; how it follows from the configuration and the clock is not modelled.

### PipelineRun, MCPipelineRun, PipelineRunTheorems

The row of one record: an entry per processor, the `doc_processing` status with the name of the
processor in progress, and the stop flag. A read of the row and the write that follows are two
steps (`Read`, `Write`): the processors and the coordinator take the lock of `status_lock.go`
between them, the stop request (`MarkRead`, `MarkWrite`; `SetRead`, `SetWrite`) and the auto-heal
(`HealRead`, `HealWrite`) of the web server do not. `cpc` follows `handleEvent` through routing,
admission, Phase A (in order), Phase B (concurrent), Phase C (indexers) and the final status; `Poll`
is `pollForStop`; `Abort` is the cross-peak rule, which cancels an admitted run at the end of its span
(`abortAtBoundary`); `WriteFails` is a write with a canceled context, whose error is only logged. The
coordinator looks at its context at each `Boundary`, once more as Phase C begins (`BeginPhaseC`).

`Sequential` names no processor twice: the code keeps the selected names in a set and takes each
processor once (`control.go:2051-2085`). What else is assumed: the web server's own statements
succeed, the doc-processor's fail only when its context is canceled (so the clear of the flag with
which a run begins, `control.go:736`, does not fail; if it did, an old flag would stop the run), one
run of a record is in progress at a time, handlers return. A shutdown of the process cancels the
context with another cause, which the run does not take for a stop; of it only what a waiting run does
(`GiveUp`) and the crash that may follow are here. Abstracted: names and aliases of operations, which processors a
run has, the wording of the entries. The chunk-batch mode and the order Phase C imposes on its
indexers are in `BatchedRun`.

### PhasedRun

What `PipelineRun` and `BatchedRun` both promise, without row, lock, calls and goroutines: processors
go from `idle` through `busy` to `done`, indexing begins when all of them are done and nobody has
canceled the run, and a run ends as `stopped`, `failed` or `success`, in this precedence, after every
indexer had its turn or, canceled, with no processor at work. It may die at any time. The refinement
mapping is at the end of each of the two modules:

| `PhasedRun` | in `PipelineRun` | in `BatchedRun` |
|---|---|---|
| `stage` | from `cpc`, indexing once Phase C has looked at the context; `over` where the outcome is known, before the last writes of the row | from `phase`, with `dead` |
| `work[p]` | from `ppc[p]` while the run is in progress | from the calls of `p` and `phase`, or `legacy[p]` |
| `indexed` | `ppc[p]` is `indexed` or `indexFailed` | `index[p]` is `over` |
| `canceled` | `ctxDone`, by a stop or an abort | `ctxDone` |
| `trouble`, `outcome` | from `result`, `Outcome` | from the error slots, `outcome` |

A processor without a call in flight that a stop leaves out goes from `idle` to `done`. The row and the
clearing of the flag at the end are stutters.

### EventDelivery, MCEventDelivery, EventDeliveryTheorems

`stream` is JetStream's knowledge of an event (external code: `Publish`, `Deliver`,
`AckWaitExpires`); `inbox` and `cb` are the client's pending copies and the one callback of a
subscription. `Enter` is the start of `HandleJetStreamEvent`, `Dispatch` and `Refuse` the two cases of
the select in `acquirePipelineSlot`, `Ack` and `Nak` the answers. An acknowledgement that is merely
late is bounded by `MaxExpiries` for each event; that of a lost copy is always allowed to expire.
`Signal`, `Unsubscribe`, `AwaitSubs`, `AwaitPipelines` and `End` are the shutdown of `main`. The
creation of streams and consumers is not modelled; the subscription of reviews is in `DocReview`.

### DocReview, DocReviewTheorems

`request` and `runStatus` are the status columns of `kb.doc_review_requests` and
`kb.doc_review_runs`; a run is named by its id, and `Latest` is what the code reads with
`ORDER BY id DESC`. `pc`, `target`, `chosen` are a handler between two statements of
`AcceptRequest`, `RestartRequest` or `StopRequest`; `sweep`, `todo`, `rearmed` the recovery of
`cmd/doc-processor`; `work[s][k]` the execution of run `k` by a JetStream callback, a goroutine of the
recovery or the goroutine of a handler whose publication failed. `ClaimRun` is the UPDATE guarded by
`pending` with which every execution begins; `work` then follows `RunReview` through the review, the
second look at the request, and the two UPDATEs of its end. `events` is JetStream (external): an
event stays until it is acknowledged, and may be delivered once more if the answer is late.

`Init` has two kinds of states: `Fresh`, in which there is no request yet, and `Restarted`, in which a
doc-processor starts again (`main.go:389-397`), the clients have had their answers, and a request was
left active with a run that waits, is claimed, or has just ended.

Faults are a crash of the doc-processor, a publication that fails and a client whose connection goes
away, which cancels the statements still to come. The statuses of single aspects, the report and the
findings edited by users are left out. All requests are about one document, the unit
`AcceptRequest` guards. That a document is gone or has no reviewer enabled
(`review-document.go:1285-1296`) is a review that finds nothing: `saved` means that all a run has found
is saved.

### BatchedRun, MCBatchedRun, BatchedRunTheorems

| State | Code |
|---|---|
| `phase`, `at` | the coordinator, and its position in the list of batch processors |
| `ready` | `initOK` |
| `call`, `holders` | each `ProcessChunk` goroutine, and the semaphore `MAX_DOC_PROCESSOR_TASKS` |
| `results`, `saved` | `batchResults` of the provisions, and what `FinalizeChunkBatch` takes for what |
| `schedErr`, `batchErr`, `failed`, `stopped` | the error slots that decide the outcome |
| `legacy`, `index` | the processors beside the batch, and the goroutines of Phase C |
| `entry`, `outcome` | what the row says of each processor and of the run |

A processor is its init, its calls and its finalize; what it extracts is not modelled, but that one
kind of processor calls the model several times for a chunk and may see the stop between two of the
calls (`MultiPass`), and that one keeps its results by position (`Positional`). A panic in a batch
call, init or finalize is recovered by nobody and ends the process (`dead`); one in the others fails
the run and leaves the entry of its processor as it was. The look at the context with which Phase C
begins is part of `Join` here.

### ChunkCalls, MCChunkCalls, ChunkCallsTheorems

What is said of permits here holds of a client that takes them. The OpenAI JSON client, which
`runtime.go:61` builds, takes none: `acquireLLMPermit` returns first
(`extract-entity-relation.go:976-978`), so in the server as it is configured today the permits are never
contended for. Everything else in the module is about every client.

`job` is a goroutine of `runConcurrent` (waiting for a task slot, for a permit, in the call), `try` the
model it is at, `result` what became of its chunk; `permit` and `tokens` are `LLMPermit` with its
`sync.Once`, and the channel of a model. `Expire` is the timer that takes a permit back while the call
goes on. `CallReturns` is the model (external): it answers, fails or, for `Hanging` extractions, may
never return. The rows of a chunk are one element of `saved`; the module starts once existing rows
were looked for, so the skip of a run that is not forced and the deletion of a forced one are left out.

### Scheduler, MCScheduler, SchedulerTheorems

`row`, `runOnce`, `wait` are the columns of `kb.scheduled_jobs` that anything depends on; `batch` and
`batchOnce` what `RunDueSchedules` read, `current` and `spent` the job that runs, `age` the time of the
pass it was called with. Time is relative: `wait` is `next_run_at` minus the present, so that no clock
grows. `tick` is the one tick a Go ticker keeps for a slow receiver, with its time. A schedule later
than `MaxLate` counts as equally late, and equally late ones are read in any order, which allows more
than the code. `starts` and `spoilt` are history. `Advance` is `AdvanceSchedule`, with what was read
before the job. An admin's edits keep the interval.

## 3. What is model-checked

Runs that pass (2 to 3 actors and small bounds, named in the cfg):

| Run | Module, cfg | Question | Properties |
|---|---|---|---|
| agent_queue_safe | MCAgentRunQueue, AgentRunQueueSafe.cfg | 2 runs, 2 workers, 2 cancel requests, 2 crashes | TypeOK, ExecutedOnce, NoOvertaking, CanceledIsInterrupted, FinalOutsideWindow |
| agent_queue_live | MCAgentRunQueue, AgentRunQueueLive.cfg | does every run end though writes fail and a process dies; does the queue implement RunLifecycle | ImplementsLifecycle |
| slots_live | MCPipelineSlots, PipelineSlotsLive.cfg | a start command with two documents, one of them off-peak, and an off-peak document of its own over 2 slots, the boundary aborting tasks | TypeOK, SlotsConserved, StartsPermitted, PlainTasksStart, PipelinesEnd |
| run_stop | MCPipelineRun, PipelineRunStop.cfg | two runs, two concurrent processors, one stop request, one crash | EntriesSurvive, OldStopsAreCleared, ImplementsRun |
| run_live | MCPipelineRun, PipelineRunLive.cfg | one run with a panic, a stop request, an abort, an auto-heal and a crash | TypeOK, OneStopSettles, RunsSettle |
| event_delivery | MCEventDelivery, EventDelivery.cfg | two events over one subscription and one slot, a late acknowledgement of each, a crash, a shutdown | TypeOK, AckedWasStarted, StartsAreCounted, CleanExitAwaited, EventsStart |
| doc_review | DocReview, DocReview.cfg | one request, new with two clients that submit, stop or restart it, or found active by a restarted doc-processor; three runs, one fault | TypeOK, ReviewedOnce, StopsAreHeeded, ReviewsSettle |
| batched_run | MCBatchedRun, BatchedRun.cfg | two batch processors on two chunks with one place for calls, two processors beside them, indexing that waits, a stop anywhere | TypeOK, NothingOutlives, SavedWhole, SkippedMeansStopped, IndexersSeeAll, RunEnds, ImplementsRun |
| chunk_calls | MCChunkCalls, ChunkCalls.cfg | two extractions of two chunks over two models with one permit each; the calls of one may hang | TypeOK, PermitsCounted, EntryTellsRows, ExtractionsEnd |
| scheduler | MCScheduler, Scheduler.cfg | three schedules, two of them always due, two read in a pass; one edit, one fault | TypeOK, RunsOnce, EnabledRuns |

Deadlock checking is on in `BatchedRun`, `ChunkCalls` and `Scheduler`: the first two have a `Finished`
step in which everything is over, so that whoever waits for a place, a call, a permit or an indexer
for ever would be found; in the third, time always passes. It is off elsewhere: a finite number of
runs, events and crashes ends, and an idle system really stops. That nothing gets stuck before is what
the liveness properties say.

Bounds. Two workers, two cancel requests and two runs are the fewest in which a claim, a cancel and
a sweep concern the same run while another overtakes. Two slots and three documents let a command
own one slot and its documents compete with a stranger for the other; three changes of the window
reach a full period. Two runs of a record are needed for a flag that outlives its run, two
concurrent processors for a lost update. One abort (`MaxAborts`) at any point beside the stop request
is in run_live; the state space of run_stop has no room for it, and there the theorems NoWriteIsLost,
FlagsAreCleared and RunsArePhased stand for any number of them. With two events over one slot a callback blocks for the
other's pipeline long enough for its AckWait to pass. Two clients are the fewest that stop and
restart the same request at a time, and three runs let a restarted request be re-armed once more. One
fault from a `Restarted` state is a crash in the middle of the sweep, after which the next sweep finds
what this one left; RequestsAreCaredFor has any number of crashes. One
place for two processors on two chunks makes the calls of one wait for those of the other. One permit
of each model makes the calls that hang starve the others unless the timer takes it back. Two of three
schedules in a pass is the fewest that could starve the third. Symmetry is used in safety runs only.

### Fairness, and why the code justifies it

- Goroutines make progress: weak fairness of a worker's, a coordinator's or a processor's own steps.
- The slot channel serves blocked senders in order, so a waiter that finds a slot free again and
  again gets it: strong fairness of `Acquire`, `ResumeWithSlot` and `Dispatch`.
- Tickers run: `Sweep`, `Poll`, and a lease nobody renews lapses.
- The window owes nobody a change: `PipelinesEnd` supposes that it comes to permit every document,
  `PlainTasksStart` does not.
- JetStream delivers what is ready, and an event no copy of which is alive is delivered again.
- A pipeline that works gives its slot back, in `EventDelivery`. Start commands can break this
  (below); that module has none.
- A place in the semaphore of a batch and a permit of a model are given to those that wait in turn,
  being buffered channels: strong fairness of `RunCall` and `RunJob`. The timer of a permit fires. A
  call returns, except the calls of `Hanging` extractions, of which nothing is assumed.
- Of a review, the handlers, the sweep, the callbacks and the goroutines of the recovery go on. The
  goroutine of a handler whose publication failed may die with its request, and does in the end.
- Time passes and the loop of the scheduler goes on; its jobs take at most `MaxJob` ticks.
- Nothing is assumed of users: submissions, stops, cancels, signals and crashes may never come.

### Where the code does not do what it says

Each of these runs checks one statement of a comment in the code and TLC refutes it.

- agent_cancel_undone (AgentRunQueue_CanceledIsFinal.cfg, `CanceledIsFinal`): `worker.go:139` marks a
  run running with no guard on its status. A run that was canceled after it was claimed goes back to
  running, and a cancel signal sent before the registration reached nobody.
- batched_results_mixed (BatchedRun_ResultsKeepTheirChunk.cfg, `ResultsKeepTheirChunk`):
  `extract-provisions.go:2117` reads the i-th result of a batch against the lines of the i-th chunk,
  though the results are appended as the concurrent calls return, and a failed call appends none.

Seen while modelling, visible in the models, without a run of their own:

- Agent platform. A terminal status event is logged though the guarded UPDATE changed no row
  (`worker.go:358`). A lease is renewed only after `Prepare` (`worker.go:149-158`), so a run that
  prepares for long is swept while alive.
- Slots. A start command waits, with its slot, for documents that wait for slots: as many commands as
  slots and nothing moves again. (With fewer, some slot always moves: theorem CommandsLeaveASlot.)
- Runs. A status write of the doc-processor that read the row before a stop request erases its flag.
  Between the last write of one processor and the first of the next, a live run looks stuck to the
  auto-heal. A stopped processor whose final write fails with the context stays `active`
  (`control.go:1309`). A process that dies in Phase C leaves a row that no auto-heal repairs
  (`control.go:1068-1072`). A second stop request after the end of a run may write back a `running` it
  read before. So may one stop request together with an abort: the last write of the aborted run, which
  clears the flag, reads the `running` that the stop request has just written back, and writes it again
  after the stop request has mended it. `OneStopSettles` is therefore stated for a record that was never
  stopped, or stopped once and not aborted as well.
- Shutdown. Subscriptions and pipelines are drained concurrently, so a callback still on its way
  dispatches a pipeline after none was found, and the exit is called clean.
- Reviews. Two handlers, or a handler and the sweep, at one request at a time may leave it `accepted`
  with no run alive; so may a client that goes away between the INSERT of the request and that of its
  run, and a publication that fails, whose fallback goroutine runs in the context of the HTTP request.
  `ReviewsSettle` excludes these and holds under crashes. Two submissions may both find no active
  request. After a restart the worker of the old run completes the request and the new run stays
  pending (`controller.go:247`; compare `docs/doc-review-restart-recovery.md:16`). A report written
  after a restart names the new run. A stop may overwrite `completed`.
- Chunk batches. A processor's status `stopped` is written with the canceled context and never
  arrives. An error of `ProcessChunk` fails the run though every entry says success, so a start of the
  failed processors only (`control.go:238-253`) selects nothing. The harvest of the product structure
  waits for `extract_entity_relation` (`extract-product-structure.go:24`), a name no processor of the
  runtime has once entities and relations are extracted apart, and may run before them. A batch init
  that fails for its model configuration returns nil without marking the processor as skipped
  (provisions, metrics, inventory), and its calls then fail.
- Chunk calls. Rows are inserted one by one without a transaction, and a run that is not forced takes
  any row for a finished extraction, so after a failure between two inserts the next run reports
  success with a part of them. `initEntityBatch` skips the entities if only relations exist
  (`extract-entity-relation.go:2205-2222`). The first error of `runConcurrent` may be the
  `context.Canceled` of a bystander, so provisions (`extract-provisions.go:548`) show a stopped
  extraction as failed.
- Schedules. Disabling or editing a schedule while its job runs is overwritten by `AdvanceSchedule`,
  which writes the flag read before. After a crash a run-once schedule runs again, against the comment
  at `scheduler.go:119`; that is the `spoilt` of `RunsOnce`.

## 4. What is proved

For every value of the constants that meets the ASSUMEs of the module. In each case the theorem
states a property of the runs above, or one that follows from the same invariant (`LeaseDiscipline`,
`ActiveRowsHaveLease`, `AtMostLimitRun`, `SomeSlotMoves`).

**AgentRunQueueTheorems.** `IInv` is `TypeOK` with three parts: an idle worker has no job (`Idle`), no
two workers share one (`Unshared`), and a run's claims and lease agree with its status (`Claimed`).
`ExecutedOnce` alone is not inductive: that a second claim is impossible needs that a claimed row
never returns to `queued`. The order of the queue needs `Queue`, and cancels need who is registered.
Theorems: TypeCorrect, RunsExecutedOnce, ActiveRowsAreReclaimable, QueueIsOrdered, TerminalIsFinal,
CancelIsNotLost (if writes succeed), and QueueImplementsLifecycle: initial states map to initial
states of `RunLifecycle` and every step to a step or a stutter (its liveness stays with TLC).

**PipelineSlotsTheorems.** `IInv` is `TypeOK`, `LeaseDiscipline` and `SlotsConserved` together: that a
release never finds the channel empty follows from the count, and the count from who holds what.
Theorems: SlotsTyped, SlotsNeverLeak, LeasesAreDisciplined, RunningIsBounded, CommandsLeaveASlot, and
StartsArePermitted, an action property that needs only the types: resuming leads back to the check.

**EventDeliveryTheorems.** `Shape` collects the parts that relate a copy to its subscription, a
dispatched callback and an acknowledged event to a started pipeline, and the wait of the shutdown to
the pipelines of the signal. `CopiesAreCounted` is the strengthening behind `StartsAreCounted`:
pipelines dispatched for an event plus the copies that could still be (at the server, in the inbox,
counted with multiplicity, in the callback) never exceed its publication plus its expiries.
EventsAreNeverForgotten says where an event without a pipeline is: at JetStream, which delivers it or
sends it again, or in an inbox or a callback that can go on (`Serving`: until the signal every
subscription is active). Theorems: DeliveryInvariant, DeliveryTyped, AcknowledgedIsStarted,
RedeliveryIsBounded, ShutdownAwaitsPipelines, EventsAreNeverForgotten.

**PipelineRunTheorems.** `IInv` is `TypeOK` with: the row has a status once a run has begun
(`HasStatus`), how far the processors of each phase are (`Stages`), who may hold the lock
(`Locked`), that the snapshot of a lock holder is the row as long as nobody else has written
(`Alone`), and what the entries owe to the processors that ended (`Entries`). `EntriesSurvive` alone
says nothing of the writer between its read and its write, where an entry could be lost; `Alone`
does. `OneStopSettles` needs two facts more: until the first stop request has written its flag
nobody has seen one and, without an abort, no run is stopped (`Unflagged`), so that the last write of a stopped run, which clears the flag,
comes after it and finds the final status in the row it has read (`Finished`). `StopWins`, that a
canceled run ends as stopped, is proved as an action property. RunsArePhased is the refinement of
`PhasedRun`, step by step; it needs `Begun` besides: who waits or works has no result yet, and the
sequential processors still to come are idle. RunIsNeverBlocked says that the lock is never left
behind: of a run in progress somebody can go on, the coordinator, a writer that has the lock or
finds it free, or a processor. Theorems: Typing, NoWriteIsLost, FlagsAreCleared, StoppedIsStopped,
StopSettles, RunsArePhased, RunIsNeverBlocked.

**DocReviewTheorems.** `IInv` is `TypeOK` with: a run has a request and an id below the next one
(`Born`), what a handler between two statements knows of its run (`Holds`), a claim is what took a
run out of `pending` (`Claimed`), a completed run has saved its findings (`Kept`), and an execution
that goes on past its second look has no stop to heed (`Heeded`). `Claimed` is what makes
`ReviewedOnce` inductive: no statement of any handler puts a run back to `pending`.
RequestsAreCaredFor is about what `ReviewsSettle` relies on: while nothing worse than crashes has
happened, every active request is cared for (`Cared`) by a handler that has it in hand, by the
sweep, by the owner of a run of it, or by a waiting run that an event, the sweep or an execution
will claim (`NobodyForgets`). Its strengthening says where handlers are (`Places`), that no two of
them have the same request (`Alone`), and that a run which is not yet published is untouched
(`Alert`); TLC found all four invariant on the instance of the run first. Theorems: Typing,
OneReviewPerRun, StopsStand, RequestsAreCaredFor.

**BatchedRunTheorems.** `IInv` is `TypeOK` with: at which point which calls have been launched
(`Launched`), that a call is skipped only by a stop and nothing is saved after one (`Skips`), that
entries, indexing and the outcome come in this order (`Order`), and the four properties. Theorems:
Typing, BatchIsOver, SuccessIsWhole, SkipsAreStops, IndexingIsOrdered, for every list of processors,
number of chunks, width of the semaphore and table of dependencies. BatchedRunsArePhased is the
refinement of `PhasedRun`; it needs to know which error slot an outcome comes from (`Reasons`).
RunIsNeverBlocked: whatever the coordinator waits for, a call, a processor or an indexer of it can go on
without a stop (`Places`: who holds a place works). It supposes a rank that puts each indexer above
those it awaits. `PostProcessDependsOn` has one: the structure waits for the entities, normalization for
the metrics, association for normalization, projection for association; a name no indexer has is not
waited for. With a cycle the code would wait for ever.

**ChunkCallsTheorems.** `IInv` is `TypeOK` with: who holds a permit is in a call or about to be
(`CallersHold`), the count of the tokens (`PermitsCounted`), what the state of a job says of its result
(`ResultsTell`), the order of an extraction (`Orderly`), and `EntryTellsRows`. ExtractionsAreNeverBlocked
follows from it: tokens that are counted belong to permits that are held, and their timers free them, so
that no extraction waits for a call of another. Theorems: Typing, PermitsAreCounted, StatusIsTrue,
ExtractionsAreNeverBlocked.

**SchedulerTheorems.** `IInv` is `TypeOK` with what a pass holds (`PassHolds`), `RunsOnce` and its
strengthening `Fresh`: whatever may still start was not begun since its last edit but for the runs that
were spoilt. Theorems: Typing, OnceIsOnce. The proof has no bound on time, jobs, edits or faults but
that they are numbers.

Only model-checked: every liveness property and the liveness half of `ImplementsLifecycle` (fairness
and ENABLED are out of the prover's reach). Of `RunEnds`, `RunsSettle`, `ReviewsSettle`,
`EventsStart` and `ExtractionsEnd` the part that needs no fairness is proved for every instance:
somebody is always responsible, and can go on (RunIsNeverBlocked, RequestsAreCaredFor,
EventsAreNeverForgotten, ExtractionsAreNeverBlocked). That those who can go on do so often enough is
what TLC checks, on small instances. Of `PlainTasksStart`, `PipelinesEnd` the like is
CommandsLeaveASlot; `EnabledRuns` has no such part: that the earliest schedules come first is what
one action says, and that the others become earliest is its liveness. `ResultsKeepTheirChunk` and
`CanceledIsFinal` do not hold of the code.

## 5. What is not modelled, and what could come next

- *Semantic retry queue, occurrences and outcomes.* The claims of both have no caller outside their
  tests, so no two workers meet there; the stores are written in one transaction each.
- *Document generation worker, event hub.* One channel and one mutex. A job that finds the
  channel full waits for the next restart (`handler_jobs.go:126-131`), and one submitted while the
  requeue of the start reads the table may be queued twice, and no worker claims a job.
- *Aspect reviewers, the other document processors, routing clearance and task-engine policy store,
  knowledge-base handlers.* Sequential code around LLM calls, configuration or SQL. The processors are
  run through one interface, which `PipelineRun` and `BatchedRun` model for any choice of them; what
  they extract is data. Their volume (extraction and chunking of texts) is most of the server.
- *File converters, PDF parsing, staging ingestion.* Data conversion, and a polling loop over a
  directory.
- *Ontology stores, reconciliation jobs and usage accounting, agent services, gateways and data
  synchronisation, product reviews, WPI, CDM, category tree, benchmarks.* Domain features that are
  mostly SQL and HTTP; not studied closely.
- *Web front end, command-line tools, migrations.* No state the server relies on, or one-shot.

Next would come a bound on how far a long pass of the scheduler delays the schedules of the next,
and the expansion of processor dependencies (`control.go:2342-2381`) as a function checked against
its closure. The number of runs is kept small: a disagreement gives way to a run of a new component
when its text above is enough.
