---------------------------- MODULE EventDelivery ----------------------------
(* How an event reaches a processing pipeline of the doc-processor, and how    *)
(* the process shuts down (file-converters/jetstream.go, the event handler of  *)
(* doc-processing/control.go, cmd/doc-processor/main.go).                      *)
(*                                                                             *)
(* JetStream pushes an event to the subscription of its subject and waits for  *)
(* the acknowledgement; if none comes within AckWait it pushes the event       *)
(* again, though earlier copies may still lie in the inbox of the subscription *)
(* or in its one callback, which is blocked until a pipeline slot is free. The *)
(* callback dispatches the pipeline to a goroutine of its own and              *)
(* acknowledges the event then, long before the pipeline is over. A pipeline   *)
(* may give its slot back while it waits for its span (module PipelineSlots).  *)
(*                                                                             *)
(* On a signal the subscriptions and the pipelines are awaited concurrently,   *)
(* each for a grace period. The process may also crash and be started again;   *)
(* the durable consumer outlives that. JetStream itself is external.           *)
EXTENDS Integers, Sequences, SequencesExt, FiniteSets

CONSTANTS
  Events, Subjects,
  SubjectOf,    \* the subject each event is published to
  NoEvent,      \* no event in a callback
  Limit,        \* MaxDocProcessPipelines
  MaxExpiries,  \* bound: acknowledgements that may be late, for each event
  MaxCrashes    \* bound: crashes of the process

ASSUME SubjectsAssumption == SubjectOf \in [Events -> Subjects] /\ NoEvent \notin Events
ASSUME BoundsAssumption == Limit \in Nat \ {0} /\ MaxExpiries \in Nat /\ MaxCrashes \in Nat

VARIABLES
  stream,     \* each event at the server: ready for delivery, pending its acknowledgement, ...
  expiries,   \* how often its AckWait passed
  inbox, cb,  \* each subscription: the copies the client holds, and its callback
  sub,        \* Subscribe: active until the context is canceled, then it drains
  started,    \* the number of pipelines dispatched for each event
  working,    \* the pipelines that own a slot, as <<event, ordinal>>
  parked,     \* those that gave it back to wait for their span
  atSignal,   \* the pipelines that existed when the context was canceled
  ctxDone,    \* the signal handler canceled the context of the process
  subsDone, pipesDone, \* what the two waits of main came to
  ended,      \* main has returned
  crashes

serverVars == <<stream, expiries>>
clientVars == <<inbox, cb, sub>>
pipeVars == <<started, working, parked>>
mainVars == <<atSignal, ctxDone, subsDone, pipesDone, ended>>
vars == <<serverVars, clientVars, pipeVars, mainVars, crashes>>

Idle == [pc |-> "idle", event |-> NoEvent]
InFlight == {"slot", "dispatched", "refused"}   \* what the WaitGroup of Subscribe counts
Callbacks == {Idle} \cup [pc : {"popped"} \cup InFlight, event : Events]
Pipelines == working \cup parked
Waits == {"pending", "drained", "graceOver"}

TypeOK ==
  /\ stream \in [Events -> {"unpublished", "ready", "pending", "acked"}]
  /\ expiries \in [Events -> Nat] /\ started \in [Events -> Nat]
  /\ inbox \in [Subjects -> Seq(Events)] /\ cb \in [Subjects -> Callbacks]
  /\ sub \in [Subjects -> {"active", "draining", "returned"}]
  /\ Pipelines \cup atSignal \subseteq Events \X Nat
  /\ subsDone \in Waits /\ pipesDone \in Waits
  /\ ctxDone \in BOOLEAN /\ ended \in BOOLEAN
  /\ crashes \in 0..MaxCrashes

Init ==
  /\ stream = [e \in Events |-> "unpublished"]
  /\ expiries = [e \in Events |-> 0] /\ started = [e \in Events |-> 0]
  /\ inbox = [s \in Subjects |-> <<>>] /\ cb = [s \in Subjects |-> Idle]
  /\ sub = [s \in Subjects |-> "active"]
  /\ working = {} /\ parked = {} /\ atSignal = {}
  /\ ctxDone = FALSE /\ subsDone = "pending" /\ pipesDone = "pending" /\ ended = FALSE
  /\ crashes = 0

----------------------------------------------------------------------------
(* JetStream *)

\* The process holds no copy of the event that could still be acknowledged.
Lost(e) ==
  /\ ~Contains(inbox[SubjectOf[e]], e)
  /\ cb[SubjectOf[e]].event # e

Publish(e) ==
  /\ stream[e] = "unpublished"
  /\ stream' = [stream EXCEPT ![e] = "ready"]
  /\ UNCHANGED <<expiries, clientVars, pipeVars, mainVars, crashes>>

Deliver(e) ==
  /\ stream[e] = "ready" /\ sub[SubjectOf[e]] = "active" /\ ~ended
  /\ stream' = [stream EXCEPT ![e] = "pending"]
  /\ inbox' = [inbox EXCEPT ![SubjectOf[e]] = Append(@, e)]
  /\ UNCHANGED <<expiries, cb, sub, pipeVars, mainVars, crashes>>

ExpireIf(e, allowed) ==
  /\ stream[e] = "pending" /\ allowed
  /\ stream' = [stream EXCEPT ![e] = "ready"]
  /\ expiries' = [expiries EXCEPT ![e] = @ + 1]
  /\ UNCHANGED <<clientVars, pipeVars, mainVars, crashes>>

\* Seeded fault: the consumer is not durable and forgets what a dead process held.
ForgetIfLost(e) == ExpireIf(e, ~Lost(e) /\ expiries[e] < MaxExpiries)

AckWaitExpires(e) == ExpireIf(e, Lost(e) \/ expiries[e] < MaxExpiries)

----------------------------------------------------------------------------
(* The callback of a subscription: one event at a time *)

CallbackGoes(s, label) ==
  /\ cb' = [cb EXCEPT ![s].pc = label]
  /\ UNCHANGED <<inbox, sub>>

\* The client takes the next copy off the inbox and is about to call the callback.
Pop(s) ==
  /\ ~ended /\ sub[s] = "active" /\ cb[s] = Idle /\ inbox[s] # <<>>
  /\ cb' = [cb EXCEPT ![s] = [pc |-> "popped", event |-> Head(inbox[s])]]
  /\ inbox' = [inbox EXCEPT ![s] = Tail(@)]
  /\ UNCHANGED <<sub, serverVars, pipeVars, mainVars, crashes>>

\* Seeded fault: the callback acknowledges before it waits for a slot.
EnterAndAck(s) ==
  /\ ~ended /\ cb[s].pc = "popped"
  /\ CallbackGoes(s, "slot")
  /\ stream' = [stream EXCEPT ![cb[s].event] = "acked"]
  /\ UNCHANGED <<expiries, pipeVars, mainVars, crashes>>

\* inFlight.Add, and the event is recorded; a failure of that is only logged.
Enter(s) ==
  /\ ~ended /\ cb[s].pc = "popped"
  /\ CallbackGoes(s, "slot")
  /\ UNCHANGED <<serverVars, pipeVars, mainVars, crashes>>

DispatchTo(s, label) ==
  LET e == cb[s].event IN
  /\ ~ended /\ cb[s].pc = "slot" /\ Cardinality(working) < Limit
  /\ started' = [started EXCEPT ![e] = @ + 1]
  /\ working' = working \cup {<<e, started[e]>>}
  /\ CallbackGoes(s, label)
  /\ UNCHANGED <<parked, serverVars, mainVars, crashes>>

\* Seeded fault: the event is given back though its pipeline was dispatched.
DispatchRefused(s) == DispatchTo(s, "refused")

\* acquirePipelineSlot got a slot, maybe with the context done already, and the
\* pipeline is dispatched to inFlightPipelines.
Dispatch(s) == DispatchTo(s, "dispatched")

\* acquirePipelineSlot took ctx.Done.
Refuse(s) ==
  /\ ~ended /\ cb[s].pc = "slot" /\ ctxDone
  /\ CallbackGoes(s, "refused")
  /\ UNCHANGED <<serverVars, pipeVars, mainVars, crashes>>

CallbackReturns(s, from, answer) ==
  /\ ~ended /\ cb[s].pc = from
  /\ stream' = [stream EXCEPT ![cb[s].event] = IF @ = "acked" THEN @ ELSE answer]
  /\ cb' = [cb EXCEPT ![s] = Idle]
  /\ UNCHANGED <<inbox, sub, expiries, pipeVars, mainVars, crashes>>

\* Seeded fault: the callback is over and its event not cleared.
NakUncleared(s) ==
  /\ ~ended /\ cb[s].pc = "refused"
  /\ stream' = [stream EXCEPT ![cb[s].event] = IF @ = "acked" THEN @ ELSE "ready"]
  /\ CallbackGoes(s, "idle")
  /\ UNCHANGED <<expiries, pipeVars, mainVars, crashes>>

\* An acknowledgement counts for the event, whichever delivery it answers.
Ack(s) == CallbackReturns(s, "dispatched", "acked")
Nak(s) == CallbackReturns(s, "refused", "ready")

----------------------------------------------------------------------------
(* Pipelines *)

Suspend(p) ==
  /\ ~ended /\ p \in working
  /\ working' = working \ {p} /\ parked' = parked \cup {p}
  /\ UNCHANGED <<started, serverVars, clientVars, mainVars, crashes>>

Resume(p) ==
  /\ ~ended /\ p \in parked /\ Cardinality(working) < Limit
  /\ working' = working \cup {p} /\ parked' = parked \ {p}
  /\ UNCHANGED <<started, serverVars, clientVars, mainVars, crashes>>

\* A pipeline is over, maybe stopped while it waits for its span.
PipelineEnds(p) ==
  /\ ~ended /\ p \in Pipelines
  /\ working' = working \ {p} /\ parked' = parked \ {p}
  /\ UNCHANGED <<started, serverVars, clientVars, mainVars, crashes>>

----------------------------------------------------------------------------
(* Shutdown and crash *)

Signal ==
  /\ ~ctxDone
  /\ ctxDone' = TRUE /\ atSignal' = Pipelines
  /\ UNCHANGED <<subsDone, pipesDone, ended, serverVars, clientVars, pipeVars, crashes>>

SubGoes(s, label) ==
  /\ sub' = [sub EXCEPT ![s] = label]
  /\ UNCHANGED <<inbox, cb, serverVars, pipeVars, mainVars, crashes>>

\* ctx.Done: the copies left in the inbox are dropped.
Unsubscribe(s) ==
  /\ ~ended /\ ctxDone /\ sub[s] = "active"
  /\ sub' = [sub EXCEPT ![s] = "draining"]
  /\ inbox' = [inbox EXCEPT ![s] = <<>>]
  /\ UNCHANGED <<cb, serverVars, pipeVars, mainVars, crashes>>

\* Subscribe returns: no handler is in flight, or the grace period is over.
Unsubscribed(s) ==
  /\ ~ended /\ sub[s] = "draining" /\ cb[s].pc \notin InFlight
  /\ SubGoes(s, "returned")
SubscribeGrace(s) ==
  /\ ~ended /\ sub[s] = "draining" /\ cb[s].pc \in InFlight
  /\ SubGoes(s, "returned")

AwaitSubs ==
  /\ ctxDone /\ subsDone = "pending"
  /\ subsDone' = IF \A s \in Subjects : sub[s] = "returned" THEN "drained" ELSE "graceOver"
  /\ UNCHANGED <<atSignal, ctxDone, pipesDone, ended, serverVars, clientVars, pipeVars, crashes>>

\* Seeded fault: only the slots are awaited.
AwaitSlots ==
  /\ ctxDone /\ pipesDone = "pending"
  /\ pipesDone' = IF working = {} THEN "drained" ELSE "graceOver"
  /\ UNCHANGED <<atSignal, ctxDone, subsDone, ended, serverVars, clientVars, pipeVars, crashes>>

\* WaitForInFlightPipelines.
AwaitPipelines ==
  /\ ctxDone /\ pipesDone = "pending"
  /\ pipesDone' = IF Pipelines = {} THEN "drained" ELSE "graceOver"
  /\ UNCHANGED <<atSignal, ctxDone, subsDone, ended, serverVars, clientVars, pipeVars, crashes>>

End ==
  /\ ~ended /\ "pending" \notin {subsDone, pipesDone}
  /\ ended' = TRUE
  /\ UNCHANGED <<atSignal, ctxDone, subsDone, pipesDone, serverVars, clientVars, pipeVars, crashes>>

\* The process is killed and started again: copies, callbacks and pipelines are gone.
Crash ==
  /\ ~ended /\ crashes < MaxCrashes
  /\ crashes' = crashes + 1
  /\ inbox' = [s \in Subjects |-> <<>>] /\ cb' = [s \in Subjects |-> Idle]
  /\ sub' = [s \in Subjects |-> "active"]
  /\ working' = {} /\ parked' = {} /\ atSignal' = {}
  /\ ctxDone' = FALSE /\ subsDone' = "pending" /\ pipesDone' = "pending"
  /\ UNCHANGED <<started, ended, serverVars>>

Server(e) == Deliver(e) \/ AckWaitExpires(e)
Callback(s) == Pop(s) \/ Enter(s) \/ Refuse(s) \/ Ack(s) \/ Nak(s)
Pipeline(p) == Suspend(p) \/ Resume(p) \/ PipelineEnds(p)
Shutdown ==
  \/ \E s \in Subjects : Unsubscribe(s) \/ Unsubscribed(s) \/ SubscribeGrace(s)
  \/ AwaitSubs \/ AwaitPipelines \/ End

Next ==
  \/ \E e \in Events : Publish(e) \/ Server(e)
  \/ \E s \in Subjects : Callback(s) \/ Dispatch(s)
  \/ \E p \in Pipelines : Pipeline(p)
  \/ Signal \/ Shutdown \/ Crash

Spec == Init /\ [][Next]_vars

\* JetStream delivers and expires what it must, goroutines go on, and blocked senders
\* of the slot channel are served in order. A pipeline that works gives its slot back.
Fairness ==
  /\ \A e \in Events : WF_vars(Deliver(e)) /\ WF_vars(Lost(e) /\ AckWaitExpires(e))
  /\ \A s \in Subjects : WF_vars(Callback(s)) /\ SF_vars(Dispatch(s))
  /\ WF_vars(\E p \in working : Suspend(p) \/ PipelineEnds(p))

FairSpec == Spec /\ Fairness

----------------------------------------------------------------------------
(* Properties *)

\* An event is acknowledged only when a pipeline has been dispatched for it: one that
\* was refused a slot, or whose callback died, is delivered again.
AckedWasStarted == \A e \in Events : stream[e] = "acked" => started[e] > 0

\* An event is processed once more than its acknowledgement was late, at most: the
\* refusals of a shutdown and the crash before the dispatch add no pipeline.
StartsAreCounted == \A e \in Events : started[e] <= 1 + expiries[e]

\* A shutdown that reports all work finished has waited for every pipeline there was
\* when the signal came, those that wait for their span without a slot included.
CleanExitAwaited ==
  subsDone = "drained" /\ pipesDone = "drained" => atSignal \cap Pipelines = {}

\* Whatever callback blocks and whatever process dies, a published event is given to
\* a pipeline, unless the process shuts down.
EventsStart == \A e \in Events : stream[e] # "unpublished" ~> started[e] > 0 \/ ctxDone
============================================================================
