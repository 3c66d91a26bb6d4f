--------------------------- MODULE PipelineSlots ---------------------------
(* The slots that bound how many document pipelines the doc-processor runs  *)
(* (server/api/doc-processing: control.go, peak_window.go and               *)
(* task_engine_policy.go).                                                  *)
(*                                                                          *)
(* A pipeline is an event handled by the service: a document, or, in dev    *)
(* mode, a start command that launches one document pipeline per record.    *)
(* HandleJetStreamEvent takes a slot and runs the pipeline in a goroutine   *)
(* of its own; a document that arrives outside the span of its peak-hour    *)
(* mode gives its slot back while it waits and takes one again before it    *)
(* starts; a start command keeps its slot until all its documents are done, *)
(* and each of them takes one more.                                         *)
(*                                                                          *)
(* The slots are a buffered channel, so `used' is its length. A lease has   *)
(* one waiter, its own pipeline: suspend always releases, resume always     *)
(* re-acquires. The work itself is one step here.                           *)
EXTENDS Integers, FiniteSets

CONSTANTS
  Docs,        \* document pipelines
  Commands,    \* start commands of dev mode
  NoCommand,
  Parent,      \* the command that launches a document, or NoCommand: an event of its own
  Mode,        \* the peak-hour mode of a document's task (modeFor)
  CrossPeak,   \* the engine's cross_peak_mode; pause-llm keeps the slot, as ignore does
  Limit,       \* MAX_DOC_PROCESS_PIPELINES
  MaxChanges   \* bound on the changes of the peak window

ASSUME PipelinesAssumption ==
  /\ IsFiniteSet(Docs) /\ IsFiniteSet(Commands)
  /\ Docs \cap Commands = {}
  /\ NoCommand \notin Commands
  /\ Parent \in [Docs -> Commands \cup {NoCommand}]
  /\ Mode \in [Docs -> {"none", "auto_peak", "auto_offpeak"}]
  /\ CrossPeak \in {"ignore", "abort"}

ASSUME LimitAssumption == Limit \in Nat \ {0} /\ MaxChanges \in Nat

VARIABLES
  used,        \* length of the channel pipelineSlots
  held,        \* held[p]: lease.release # nil
  pc,          \* where each pipeline is
  ctxDone,     \* the task context of a document is canceled
  window,      \* the cached answer of PeakWindow.Active
  changes,     \* how often it changed
  shutdown     \* the process context is canceled

slotVars == <<used, held>>
windowVars == <<window, changes>>
vars == <<used, held, pc, ctxDone, window, changes, shutdown>>

Pipelines == Docs \cup Commands
Children(c) == {d \in Docs : Parent[d] = c}
TopLevel == Commands \cup Children(NoCommand)

\* A subscription runs its callbacks one at a time: start commands arrive on
\* the default subject, documents on the other one.
SameSubject(p, q) == (p \in Commands) = (q \in Commands)

(* published: not delivered; acquiring: in acquirePipelineSlot; admit: at the loop *)
(* of admitTask; waiting: in waitPermitted; resuming, returning: in lease.resume   *)
(* after waitPermitted returned nil or the cause; joining: in wg.Wait; ending: the *)
(* deferred Release is left; rejected: HandleJetStreamEvent returned the error.    *)
DocPcs == {"published", "acquiring", "start", "admit", "waiting", "resuming",
           "returning", "running", "ending", "done", "rejected"}
CommandPcs == {"published", "acquiring", "start", "joining", "ending", "done", "rejected"}
Ended == {"done", "rejected"}

\* Where a pipeline must own a slot, and where it must own none.
Working == {"start", "admit", "running", "joining"}
Slotless == {"published", "acquiring", "waiting", "resuming", "returning", "done", "rejected"}

TypeOK ==
  /\ used \in 0..Limit
  /\ held \in [Pipelines -> BOOLEAN]
  /\ pc \in [Pipelines -> DocPcs \cup CommandPcs]
  /\ \A c \in Commands : pc[c] \in CommandPcs
  /\ \A d \in Docs : pc[d] \in DocPcs
  /\ ctxDone \in [Docs -> BOOLEAN]
  /\ window \in {"active", "inactive", "error"}
  /\ changes \in 0..MaxChanges
  /\ shutdown \in BOOLEAN

Init ==
  /\ used = 0
  /\ held = [p \in Pipelines |-> FALSE]
  /\ pc = [p \in Pipelines |-> "published"]
  /\ ctxDone = [d \in Docs |-> FALSE]
  /\ window \in {"active", "inactive", "error"}
  /\ changes = 0
  /\ shutdown = FALSE

\* permitted: an evaluation error permits work in every mode.
Permitted(d) ==
  \/ Mode[d] = "none"
  \/ window = "error"
  \/ Mode[d] = "auto_peak" /\ window = "active"
  \/ Mode[d] = "auto_offpeak" /\ window = "inactive"

GoTo(p, label) == pc' = [pc EXCEPT ![p] = label]

\* Seeded fault: the channel is larger than the limit.
TakeExtraSlot(p) ==
  /\ used <= Limit
  /\ used' = used + 1
  /\ held' = [held EXCEPT ![p] = TRUE]

\* The send on the channel: it blocks while the channel is full.
TakeSlot(p) ==
  /\ used < Limit
  /\ used' = used + 1
  /\ held' = [held EXCEPT ![p] = TRUE]

\* lease.Release, and the release of suspend: nothing when the lease is empty.
GiveSlot(p) ==
  /\ used' = IF held[p] THEN used - 1 ELSE used
  /\ held' = [held EXCEPT ![p] = FALSE]

----------------------------------------------------------------------------
(* HandleJetStreamEvent *)

\* The subscription delivers the event; its callback handles one at a time.
Receive(p) ==
  /\ p \in TopLevel /\ pc[p] = "published"
  /\ \A q \in TopLevel \ {p} : SameSubject(p, q) => pc[q] # "acquiring"
  /\ GoTo(p, "acquiring")
  /\ UNCHANGED <<slotVars, ctxDone, windowVars, shutdown>>

\* The select of acquirePipelineSlot takes a slot; the pipeline gets its goroutine.
\* A document of a command does the same in the goroutine its command gave it.
Acquire(p) ==
  /\ pc[p] = "acquiring"
  /\ TakeSlot(p)
  /\ GoTo(p, "start")
  /\ UNCHANGED <<ctxDone, windowVars, shutdown>>

\* The same select takes ctx.Done. The documents of a command wait under
\* context.WithoutCancel and never come here.
Reject(p) ==
  /\ p \in TopLevel /\ pc[p] = "acquiring" /\ shutdown
  /\ GoTo(p, "rejected")
  /\ UNCHANGED <<slotVars, ctxDone, windowVars, shutdown>>

\* Seeded fault: a release that does not receive from the channel.
ReleaseForgetsSlot(p) ==
  /\ pc[p] = "ending"
  /\ held' = [held EXCEPT ![p] = FALSE]
  /\ GoTo(p, "done")
  /\ UNCHANGED <<used, ctxDone, windowVars, shutdown>>

\* The deferred lease.Release of the pipeline's goroutine.
Release(p) ==
  /\ pc[p] = "ending"
  /\ GiveSlot(p)
  /\ GoTo(p, "done")
  /\ UNCHANGED <<ctxDone, windowVars, shutdown>>

----------------------------------------------------------------------------
(* HandleStartDocProcessingEvent *)

\* The command cannot be parsed or its records cannot be listed; a document's
\* event is refused, skipped or fails its preflight.
Refuse(p) ==
  /\ pc[p] = "start"
  /\ GoTo(p, "ending")
  /\ UNCHANGED <<slotVars, ctxDone, windowVars, shutdown>>

\* Seeded fault: wg.Add before the records that are skipped are told apart.
SpawnCountsSkipped(c) ==
  /\ c \in Commands /\ pc[c] = "start"
  /\ \E S \in SUBSET Children(c) :
       pc' = [p \in Pipelines |-> IF p = c THEN "joining"
                                  ELSE IF p \in S THEN "acquiring" ELSE pc[p]]
  /\ UNCHANGED <<slotVars, ctxDone, windowVars, shutdown>>

\* One goroutine per record that is neither skipped nor without a payload.
Spawn(c) ==
  /\ c \in Commands /\ pc[c] = "start"
  /\ \E S \in SUBSET Children(c) :
       pc' = [p \in Pipelines |-> IF p = c THEN "joining"
                                  ELSE IF p \in S THEN "acquiring"
                                  ELSE IF p \in Children(c) THEN "done" ELSE pc[p]]
  /\ UNCHANGED <<slotVars, ctxDone, windowVars, shutdown>>

\* wg.Wait returns.
Join(c) ==
  /\ c \in Commands /\ pc[c] = "joining"
  /\ \A d \in Children(c) : pc[d] = "done"
  /\ GoTo(c, "ending")
  /\ UNCHANGED <<slotVars, ctxDone, windowVars, shutdown>>

----------------------------------------------------------------------------
(* handleEvent and admitTask *)

\* The task context, derived from the process context, and pollForStop are set up.
Prepare(d) ==
  /\ d \in Docs /\ pc[d] = "start"
  /\ ctxDone' = [ctxDone EXCEPT ![d] = shutdown]
  /\ GoTo(d, "admit")
  /\ UNCHANGED <<slotVars, windowVars, shutdown>>

Admit(d) ==
  /\ d \in Docs /\ pc[d] = "admit" /\ Permitted(d)
  /\ GoTo(d, "running")
  /\ UNCHANGED <<slotVars, ctxDone, windowVars, shutdown>>

\* Seeded fault: suspend leaves lease.release set.
SuspendKeepsRelease(d) ==
  /\ d \in Docs /\ pc[d] = "admit" /\ ~Permitted(d)
  /\ used' = used - 1
  /\ GoTo(d, "waiting")
  /\ UNCHANGED <<held, ctxDone, windowVars, shutdown>>

\* Seeded fault: a task waits for its span with its slot.
WaitWithSlot(d) ==
  /\ d \in Docs /\ pc[d] = "admit" /\ ~Permitted(d)
  /\ GoTo(d, "waiting")
  /\ UNCHANGED <<slotVars, ctxDone, windowVars, shutdown>>

\* Seeded fault: a task polls for its span where it stands.
PollWithSlot(d) ==
  /\ d \in Docs /\ pc[d] = "admit" /\ ~Permitted(d)
  /\ UNCHANGED vars

\* lease.suspend.
Suspend(d) ==
  /\ d \in Docs /\ pc[d] = "admit" /\ ~Permitted(d)
  /\ GiveSlot(d)
  /\ GoTo(d, "waiting")
  /\ UNCHANGED <<ctxDone, windowVars, shutdown>>

\* waitPermitted returns, the cause of the context if it has one.
WaitEnds(d) ==
  /\ d \in Docs /\ pc[d] = "waiting"
  /\ Permitted(d) \/ ctxDone[d]
  /\ GoTo(d, IF ctxDone[d] THEN "returning" ELSE "resuming")
  /\ UNCHANGED <<slotVars, ctxDone, windowVars, shutdown>>

\* Seeded fault: a task goes on with the span it saw before it waited for a slot.
ResumeAndRun(d) ==
  /\ d \in Docs /\ pc[d] \in {"resuming", "returning"}
  /\ TakeSlot(d)
  /\ GoTo(d, IF pc[d] = "resuming" THEN "running" ELSE "ending")
  /\ UNCHANGED <<ctxDone, windowVars, shutdown>>

\* lease.resume gets a slot. Without an error admitTask looks at the window again.
ResumeWithSlot(d) ==
  /\ d \in Docs /\ pc[d] \in {"resuming", "returning"}
  /\ TakeSlot(d)
  /\ GoTo(d, IF pc[d] = "resuming" THEN "admit" ELSE "ending")
  /\ UNCHANGED <<ctxDone, windowVars, shutdown>>

\* lease.resume fails: the select took ctx.Done, and the lease stays empty.
ResumeWithout(d) ==
  /\ d \in Docs /\ pc[d] \in {"resuming", "returning"} /\ ctxDone[d]
  /\ GoTo(d, "ending")
  /\ UNCHANGED <<slotVars, ctxDone, windowVars, shutdown>>

TaskEnds(d) ==
  /\ d \in Docs /\ pc[d] = "running"
  /\ GoTo(d, "ending")
  /\ UNCHANGED <<slotVars, ctxDone, windowVars, shutdown>>

\* pollForStop finds the flag a user set.
Stop(d) ==
  /\ d \in Docs /\ pc[d] \in {"admit", "waiting", "resuming", "returning", "running"}
  /\ ~ctxDone[d]
  /\ ctxDone' = [ctxDone EXCEPT ![d] = TRUE]
  /\ UNCHANGED <<slotVars, pc, windowVars, shutdown>>

\* abortAtBoundary, which is armed once the task is admitted.
Abort(d) ==
  /\ d \in Docs /\ pc[d] = "running" /\ ~ctxDone[d]
  /\ CrossPeak = "abort" /\ ~Permitted(d)
  /\ ctxDone' = [ctxDone EXCEPT ![d] = TRUE]
  /\ UNCHANGED <<slotVars, pc, windowVars, shutdown>>

----------------------------------------------------------------------------
(* Environment *)

\* A poll finds another answer. The last change the bound allows is to off-peak.
WindowChanges ==
  /\ changes < MaxChanges
  /\ \E w \in {"active", "inactive", "error"} \ {window} :
       /\ changes + 1 = MaxChanges => w = "inactive"
       /\ window' = w
  /\ changes' = changes + 1
  /\ UNCHANGED <<slotVars, pc, ctxDone, shutdown>>

\* SIGTERM cancels the process context and the contexts derived from it.
Shutdown ==
  /\ ~shutdown
  /\ shutdown' = TRUE
  /\ ctxDone' = [d \in Docs |-> pc[d] \notin {"published", "acquiring", "start"}]
  /\ UNCHANGED <<slotVars, pc, windowVars>>

Finish(p) == Reject(p) \/ Refuse(p) \/ Release(p)
CommandStep(c) == Spawn(c) \/ Join(c)
DocStep(d) ==
  Prepare(d) \/ Admit(d) \/ Suspend(d) \/ WaitEnds(d) \/ ResumeWithout(d) \/ TaskEnds(d)

Next ==
  \/ \E p \in Pipelines : Receive(p) \/ Acquire(p) \/ Finish(p)
  \/ \E c \in Commands : CommandStep(c)
  \/ \E d \in Docs : DocStep(d) \/ ResumeWithSlot(d) \/ Stop(d) \/ Abort(d)
  \/ WindowChanges
  \/ Shutdown

Spec == Init /\ [][Next]_vars

\* The scheduling the code gives: every goroutine runs, the work of a task ends,
\* and the channel serves its blocked senders in order.
Fairness ==
  /\ \A p \in Pipelines : SF_vars(Acquire(p)) /\ WF_vars(Finish(p))
  /\ \A c \in Commands : WF_vars(CommandStep(c))
  /\ \A d \in Docs : WF_vars(DocStep(d)) /\ SF_vars(ResumeWithSlot(d))

FairSpec == Spec /\ Fairness

----------------------------------------------------------------------------
(* Properties *)

Holders == {p \in Pipelines : held[p]}

\* No slot is lost or given back twice: the channel holds one token for each lease
\* that owns a slot, through suspend, resume, its failures and the final Release.
SlotsConserved == used = Cardinality(Holders)

\* Whatever works owns a slot, and whatever waits for its span, for a slot or
\* is over owns none.
LeaseDiscipline ==
  \A p \in Pipelines : /\ pc[p] \in Working => held[p]
                       /\ pc[p] \in Slotless => ~held[p]

\* What TestControlService_HandleJetStreamEvent_RespectsMaxDocProcessPipelines
\* asserts for one schedule, a consequence of the two above: at most Limit documents are processed at a time.
AtMostLimitRun == Cardinality({d \in Docs : pc[d] = "running"}) <= Limit

\* A task starts only inside its span, though its wait for a slot may have
\* crossed a boundary (admitTask checks again after resume).
StartsPermitted ==
  [][\A d \in Docs : pc[d] # "running" /\ pc'[d] = "running" => Permitted(d)]_vars

\* A document without a mode is not held up by documents that wait for their span,
\* even if that never comes.
PlainTasksStart ==
  \A d \in Docs : Mode[d] = "none" => (pc[d] = "acquiring" ~> pc[d] # "acquiring")

\* If the window comes to stay where every document is permitted, then every event
\* that was received is handled to its end and its slot is free again.
PipelinesEnd ==
  <>[](\A d \in Docs : Permitted(d)) =>
    \A p \in Pipelines : pc[p] = "acquiring" ~> pc[p] \in Ended

\* Some slot is free or in the hands of a pipeline that does not itself wait for a
\* slot. (The documents of a command wait for slots while the command owns one.)
SomeSlotMoves == used = Limit => \E p \in Pipelines : held[p] /\ pc[p] # "joining"
============================================================================
