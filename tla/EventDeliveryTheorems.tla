----------------------- MODULE EventDeliveryTheorems ------------------------
(* What holds of EventDelivery for every set of events and subjects, every     *)
(* number of slots and every number of late acknowledgements and crashes.      *)
EXTENDS EventDelivery, FiniteSetTheorems, FunctionTheorems, TLAPS

\* Every copy lies with the subscription of its subject.
CopiesAreRouted ==
  \A s \in Subjects :
    /\ \A i \in DOMAIN inbox[s] : SubjectOf[inbox[s][i]] = s
    /\ cb[s].event # NoEvent => SubjectOf[cb[s].event] = s

\* The callback that acknowledges has dispatched a pipeline.
DispatchedIsStarted ==
  \A s \in Subjects : cb[s].pc = "dispatched" => started[cb[s].event] > 0

\* The pipelines of an event are numbered below the number it has started.
OrdinalsAreUsed == \A p \in atSignal \cup Pipelines : p[2] < started[p[1]]

\* Once the pipelines are awaited, none is left of those the signal found.
AwaitedPipelines ==
  /\ pipesDone # "pending" => ctxDone
  /\ pipesDone = "drained" => atSignal \cap Pipelines = {}

\* The copies of an event that may still start a pipeline: in the inbox, in the callback
\* before its dispatch, and the one that JetStream holds.
At(seq, e) == {i \in DOMAIN seq : seq[i] = e}
InCallback(e) ==
  IF cb[SubjectOf[e]].event = e /\ cb[SubjectOf[e]].pc # "dispatched" THEN 1 ELSE 0
AtServer(e) == IF stream[e] \in {"unpublished", "ready"} THEN 1 ELSE 0
Copies(e) == Cardinality(At(inbox[SubjectOf[e]], e)) + InCallback(e) + AtServer(e)

\* No copy is there that the publication or a late acknowledgement does not account for.
CopiesAreCounted == \A e \in Events : started[e] + Copies(e) <= 1 + expiries[e]

\* Everything of the invariant that does not count copies.
Shape ==
  /\ TypeOK /\ CopiesAreRouted /\ DispatchedIsStarted /\ AckedWasStarted
  /\ OrdinalsAreUsed /\ AwaitedPipelines

----------------------------------------------------------------------------
\* The positions of a value in a sequence are finitely many.
LEMMA AtFinite ==
  ASSUME NEW seq \in Seq(Events), NEW e
  PROVE  IsFiniteSet(At(seq, e)) /\ Cardinality(At(seq, e)) \in Nat
<1>1. At(seq, e) \subseteq 1..Len(seq) /\ Len(seq) \in Nat
  BY DEF At
<1>2. IsFiniteSet(1..Len(seq))
  BY <1>1, FS_Interval
<1> QED
  BY <1>1, <1>2, FS_Subset, FS_CardinalityType

\* An empty sequence has none.
LEMMA AtEmpty ==
  ASSUME NEW e
  PROVE  Cardinality(At(<<>>, e)) = 0
<1>1. At(<<>>, e) = {}
  BY DEF At
<1> QED
  BY <1>1, FS_EmptySet

\* Appending a value adds a position of it, and of nothing else.
LEMMA AtAppend ==
  ASSUME NEW seq \in Seq(Events), NEW x \in Events, NEW e
  PROVE  Cardinality(At(Append(seq, x), e)) =
           Cardinality(At(seq, e)) + (IF x = e THEN 1 ELSE 0)
<1>1. Len(seq) \in Nat /\ Len(seq) + 1 \notin At(seq, e)
  BY DEF At
<1>2. CASE x = e
  <2>1. At(Append(seq, x), e) = At(seq, e) \cup {Len(seq) + 1}
    BY <1>1, <1>2 DEF At
  <2> QED
    BY <1>1, <1>2, <2>1, AtFinite, FS_AddElement
<1>3. CASE x # e
  <2>1. At(Append(seq, x), e) = At(seq, e)
    BY <1>1, <1>3 DEF At
  <2>2. Cardinality(At(seq, e)) \in Nat
    BY AtFinite
  <2> QED
    BY <1>3, <2>1, <2>2
<1> QED
  BY <1>2, <1>3

\* Taking the head off removes a position of it, and of nothing else.
LEMMA AtTail ==
  ASSUME NEW seq \in Seq(Events), seq # <<>>, NEW e
  PROVE  Cardinality(At(Tail(seq), e)) =
           Cardinality(At(seq, e)) - (IF Head(seq) = e THEN 1 ELSE 0)
<1> DEFINE A == At(Tail(seq), e)
           B == At(seq, e) \ {1}
           f == [i \in A |-> i + 1]
<1>1. Len(seq) \in Nat \ {0} /\ Tail(seq) \in Seq(Events) /\ Len(Tail(seq)) = Len(seq) - 1
      /\ \A i \in 1..(Len(seq) - 1) : Tail(seq)[i] = seq[i + 1]
      /\ Head(seq) = seq[1]
  OBVIOUS
<1>2. A = {i \in 1..(Len(seq) - 1) : seq[i + 1] = e}
  BY <1>1 DEF At
<1>3. B = {i \in 2..Len(seq) : seq[i] = e}
  BY <1>1 DEF At
<1>4. f \in [A -> B]
  BY <1>1, <1>2, <1>3
<1>5. \A i, j \in A : f[i] = f[j] => i = j
  BY <1>2
<1>6. \A k \in B : \E i \in A : f[i] = k
  <2> SUFFICES ASSUME NEW k \in B PROVE k - 1 \in A /\ f[k - 1] = k
    OBVIOUS
  <2> QED
    BY <1>1, <1>2, <1>3
<1>7. f \in Bijection(A, B)
  BY <1>4, <1>5, <1>6, Fun_IsBij
<1>8. Cardinality(A) = Cardinality(B)
  <2>1. ExistsBijection(A, B)
    BY <1>7 DEF ExistsBijection
  <2> QED
    BY <1>1, <2>1, AtFinite, FS_Bijection
<1>9. 1 \in At(seq, e) <=> Head(seq) = e
  BY <1>1 DEF At
<1>10. IsFiniteSet(At(seq, e)) /\ Cardinality(At(seq, e)) \in Nat
  BY AtFinite
<1>11. CASE Head(seq) = e
  BY <1>8, <1>9, <1>10, <1>11, FS_RemoveElement
<1>12. CASE Head(seq) # e
  <2>1. B = At(seq, e)
    BY <1>9, <1>12
  <2>2. Cardinality(A) = Cardinality(At(seq, e))
    BY <1>8, <2>1
  <2> HIDE DEF A
  <2> QED
    BY <1>10, <1>12, <2>2 DEF A
<1> QED
  BY <1>11, <1>12

----------------------------------------------------------------------------
\* A callback that holds an event goes on and keeps it.
LEMMA CallbackKeepsEvent ==
  ASSUME TypeOK, NEW s \in Subjects, cb[s].pc # "idle", NEW label \in InFlight, CallbackGoes(s, label)
  PROVE  /\ cb' \in [Subjects -> Callbacks]
         /\ cb[s].event \in Events
         /\ cb'[s] = [pc |-> label, event |-> cb[s].event]
         /\ \A t \in Subjects \ {s} : cb'[t] = cb[t]
<1>1. cb[s] \in [pc : {"popped"} \cup InFlight, event : Events]
  BY DEF TypeOK, Callbacks, Idle
<1>2. cb \in [Subjects -> Callbacks] /\ cb' = [cb EXCEPT ![s].pc = label]
  BY DEF TypeOK, CallbackGoes
<1>3. [cb[s] EXCEPT !.pc = label] = [pc |-> label, event |-> cb[s].event]
  BY <1>1
<1>4. [pc |-> label, event |-> cb[s].event] \in Callbacks
  BY <1>1 DEF Callbacks
<1> QED
  BY <1>1, <1>2, <1>3, <1>4

\* Initially.
LEMMA InitShape == Init => Shape
<1> SUFFICES ASSUME Init PROVE Shape
  OBVIOUS
<1> USE DEF Init, Pipelines
<1>1. TypeOK
  <2>1. <<>> \in Seq(Events) /\ 0 \in 0..MaxCrashes
    BY BoundsAssumption
  <2> QED
    BY <2>1 DEF TypeOK, Callbacks, Waits
<1>2. CopiesAreRouted
  BY DEF CopiesAreRouted, Idle
<1> QED
  BY <1>1, <1>2 DEF Shape, DispatchedIsStarted, AckedWasStarted, OrdinalsAreUsed, AwaitedPipelines, Idle

\* A step of the server, of a callback, of a pipeline, of the shutdown, or a crash.
LEMMA StepShape ==
  ASSUME Shape, [Next]_vars
  PROVE  Shape'
<1> USE SubjectsAssumption DEF Shape, TypeOK, Pipelines, Callbacks, Idle, InFlight, Waits,
      serverVars, clientVars, pipeVars, mainVars
<1>1. ASSUME NEW e \in Events, Publish(e) PROVE Shape'
  <2>1. TypeOK'
    BY <1>1, BoundsAssumption DEF Publish
  <2>2. CopiesAreRouted'
    BY <1>1, BoundsAssumption DEF Publish, CopiesAreRouted
  <2>3. DispatchedIsStarted'
    BY <1>1, BoundsAssumption DEF Publish, DispatchedIsStarted
  <2>4. AckedWasStarted'
    BY <1>1, BoundsAssumption DEF Publish, AckedWasStarted
  <2>5. OrdinalsAreUsed'
    BY <1>1, BoundsAssumption DEF Publish, OrdinalsAreUsed
  <2>6. AwaitedPipelines'
    BY <1>1, BoundsAssumption DEF Publish, AwaitedPipelines
  <2> QED
    BY <2>1, <2>2, <2>3, <2>4, <2>5, <2>6
<1>2. ASSUME NEW e \in Events, Deliver(e) PROVE Shape'
  <2>1. TypeOK'
    BY <1>2, BoundsAssumption DEF Deliver
  <2>2. CopiesAreRouted'
    BY <1>2, BoundsAssumption DEF Deliver, CopiesAreRouted
  <2>3. DispatchedIsStarted'
    BY <1>2, BoundsAssumption DEF Deliver, DispatchedIsStarted
  <2>4. AckedWasStarted'
    BY <1>2, BoundsAssumption DEF Deliver, AckedWasStarted
  <2>5. OrdinalsAreUsed'
    BY <1>2, BoundsAssumption DEF Deliver, OrdinalsAreUsed
  <2>6. AwaitedPipelines'
    BY <1>2, BoundsAssumption DEF Deliver, AwaitedPipelines
  <2> QED
    BY <2>1, <2>2, <2>3, <2>4, <2>5, <2>6
<1>3. ASSUME NEW e \in Events, AckWaitExpires(e) PROVE Shape'
  <2>1. TypeOK'
    BY <1>3, BoundsAssumption DEF AckWaitExpires, ExpireIf
  <2>2. CopiesAreRouted'
    BY <1>3, BoundsAssumption DEF AckWaitExpires, ExpireIf, CopiesAreRouted
  <2>3. DispatchedIsStarted'
    BY <1>3, BoundsAssumption DEF AckWaitExpires, ExpireIf, DispatchedIsStarted
  <2>4. AckedWasStarted'
    BY <1>3, BoundsAssumption DEF AckWaitExpires, ExpireIf, AckedWasStarted
  <2>5. OrdinalsAreUsed'
    BY <1>3, BoundsAssumption DEF AckWaitExpires, ExpireIf, OrdinalsAreUsed
  <2>6. AwaitedPipelines'
    BY <1>3, BoundsAssumption DEF AckWaitExpires, ExpireIf, AwaitedPipelines
  <2> QED
    BY <2>1, <2>2, <2>3, <2>4, <2>5, <2>6
<1>4. ASSUME NEW s \in Subjects, Pop(s) PROVE Shape'
  <2>1. TypeOK'
    BY <1>4, BoundsAssumption DEF Pop
  <2>2. CopiesAreRouted'
    <3>1. inbox[s] \in Seq(Events) /\ inbox[s] # <<>> /\ inbox'[s] = Tail(inbox[s])
          /\ cb'[s] = [pc |-> "popped", event |-> Head(inbox[s])]
          /\ \A t \in Subjects \ {s} : inbox'[t] = inbox[t] /\ cb'[t] = cb[t]
      BY <1>4 DEF Pop
    <3>2. 1 \in DOMAIN inbox[s] /\ Head(inbox[s]) = inbox[s][1]
          /\ \A i \in DOMAIN inbox'[s] : i + 1 \in DOMAIN inbox[s] /\ inbox'[s][i] = inbox[s][i + 1]
      BY <3>1
    <3>3. SubjectOf[Head(inbox[s])] = s /\ \A i \in DOMAIN inbox'[s] : SubjectOf[inbox'[s][i]] = s
      BY <3>2 DEF CopiesAreRouted
    <3>4. ASSUME NEW t \in Subjects \ {s}
          PROVE  /\ \A i \in DOMAIN inbox'[t] : SubjectOf[inbox'[t][i]] = t
                 /\ cb'[t].event # NoEvent => SubjectOf[cb'[t].event] = t
      BY <3>1 DEF CopiesAreRouted
    <3>5. cb'[s].event = Head(inbox[s])
      BY <3>1
    <3> QED
      BY <3>3, <3>4, <3>5 DEF CopiesAreRouted
  <2>3. DispatchedIsStarted'
    BY <1>4, BoundsAssumption DEF Pop, DispatchedIsStarted
  <2>4. AckedWasStarted'
    BY <1>4, BoundsAssumption DEF Pop, AckedWasStarted
  <2>5. OrdinalsAreUsed'
    BY <1>4, BoundsAssumption DEF Pop, OrdinalsAreUsed
  <2>6. AwaitedPipelines'
    BY <1>4, BoundsAssumption DEF Pop, AwaitedPipelines
  <2> QED
    BY <2>1, <2>2, <2>3, <2>4, <2>5, <2>6
<1>5. ASSUME NEW s \in Subjects, Enter(s) PROVE Shape'
  <2>1. TypeOK'
    BY <1>5, CallbackKeepsEvent DEF Enter, CallbackGoes
  <2>2. CopiesAreRouted'
    BY <1>5, BoundsAssumption DEF Enter, CallbackGoes, CopiesAreRouted
  <2>3. DispatchedIsStarted'
    BY <1>5, BoundsAssumption DEF Enter, CallbackGoes, DispatchedIsStarted
  <2>4. AckedWasStarted'
    BY <1>5, BoundsAssumption DEF Enter, CallbackGoes, AckedWasStarted
  <2>5. OrdinalsAreUsed'
    BY <1>5, BoundsAssumption DEF Enter, CallbackGoes, OrdinalsAreUsed
  <2>6. AwaitedPipelines'
    BY <1>5, BoundsAssumption DEF Enter, CallbackGoes, AwaitedPipelines
  <2> QED
    BY <2>1, <2>2, <2>3, <2>4, <2>5, <2>6
<1>6. ASSUME NEW s \in Subjects, Dispatch(s) PROVE Shape'
  <2>1. TypeOK'
    <3>1. cb' \in [Subjects -> Callbacks] /\ cb[s].event \in Events
      BY <1>6, CallbackKeepsEvent DEF Dispatch, DispatchTo
    <3>2. <<cb[s].event, started[cb[s].event]>> \in Events \X Nat
      BY <3>1
    <3>3. started' \in [Events -> Nat] /\ (working \cup parked \cup atSignal)' \subseteq Events \X Nat
      BY <1>6, <3>1, <3>2 DEF Dispatch, DispatchTo
    <3> QED
      BY <1>6, <3>1, <3>3 DEF Dispatch, DispatchTo, CallbackGoes
  <2>2. CopiesAreRouted'
    BY <1>6, BoundsAssumption DEF Dispatch, DispatchTo, CallbackGoes, CopiesAreRouted
  <2>3. DispatchedIsStarted'
    BY <1>6, BoundsAssumption DEF Dispatch, DispatchTo, CallbackGoes, DispatchedIsStarted
  <2>4. AckedWasStarted'
    BY <1>6, BoundsAssumption DEF Dispatch, DispatchTo, CallbackGoes, AckedWasStarted
  <2>5. OrdinalsAreUsed'
    BY <1>6, BoundsAssumption DEF Dispatch, DispatchTo, CallbackGoes, OrdinalsAreUsed
  <2>6. AwaitedPipelines'
    BY <1>6, BoundsAssumption DEF Dispatch, DispatchTo, CallbackGoes, AwaitedPipelines, OrdinalsAreUsed
  <2> QED
    BY <2>1, <2>2, <2>3, <2>4, <2>5, <2>6
<1>7. ASSUME NEW s \in Subjects, Refuse(s) PROVE Shape'
  <2>1. TypeOK'
    BY <1>7, CallbackKeepsEvent DEF Refuse, CallbackGoes
  <2>2. CopiesAreRouted'
    BY <1>7, BoundsAssumption DEF Refuse, CallbackGoes, CopiesAreRouted
  <2>3. DispatchedIsStarted'
    BY <1>7, BoundsAssumption DEF Refuse, CallbackGoes, DispatchedIsStarted
  <2>4. AckedWasStarted'
    BY <1>7, BoundsAssumption DEF Refuse, CallbackGoes, AckedWasStarted
  <2>5. OrdinalsAreUsed'
    BY <1>7, BoundsAssumption DEF Refuse, CallbackGoes, OrdinalsAreUsed
  <2>6. AwaitedPipelines'
    BY <1>7, BoundsAssumption DEF Refuse, CallbackGoes, AwaitedPipelines
  <2> QED
    BY <2>1, <2>2, <2>3, <2>4, <2>5, <2>6
<1>8. ASSUME NEW s \in Subjects, Ack(s) PROVE Shape'
  <2>1. TypeOK'
    BY <1>8, BoundsAssumption DEF Ack, CallbackReturns
  <2>2. CopiesAreRouted'
    BY <1>8, BoundsAssumption DEF Ack, CallbackReturns, CopiesAreRouted
  <2>3. DispatchedIsStarted'
    BY <1>8, BoundsAssumption DEF Ack, CallbackReturns, DispatchedIsStarted
  <2>4. AckedWasStarted'
    BY <1>8 DEF Ack, CallbackReturns, AckedWasStarted, DispatchedIsStarted
  <2>5. OrdinalsAreUsed'
    BY <1>8, BoundsAssumption DEF Ack, CallbackReturns, OrdinalsAreUsed
  <2>6. AwaitedPipelines'
    BY <1>8, BoundsAssumption DEF Ack, CallbackReturns, AwaitedPipelines
  <2> QED
    BY <2>1, <2>2, <2>3, <2>4, <2>5, <2>6
<1>9. ASSUME NEW s \in Subjects, Nak(s) PROVE Shape'
  <2>1. TypeOK'
    BY <1>9, BoundsAssumption DEF Nak, CallbackReturns
  <2>2. CopiesAreRouted'
    BY <1>9, BoundsAssumption DEF Nak, CallbackReturns, CopiesAreRouted
  <2>3. DispatchedIsStarted'
    BY <1>9, BoundsAssumption DEF Nak, CallbackReturns, DispatchedIsStarted
  <2>4. AckedWasStarted'
    BY <1>9, BoundsAssumption DEF Nak, CallbackReturns, AckedWasStarted
  <2>5. OrdinalsAreUsed'
    BY <1>9, BoundsAssumption DEF Nak, CallbackReturns, OrdinalsAreUsed
  <2>6. AwaitedPipelines'
    BY <1>9, BoundsAssumption DEF Nak, CallbackReturns, AwaitedPipelines
  <2> QED
    BY <2>1, <2>2, <2>3, <2>4, <2>5, <2>6
<1>10. ASSUME NEW p \in Pipelines, Pipeline(p) PROVE Shape'
  <2>1. TypeOK'
    BY <1>10, BoundsAssumption DEF Pipeline, Suspend, Resume, PipelineEnds
  <2>2. CopiesAreRouted'
    BY <1>10, BoundsAssumption DEF Pipeline, Suspend, Resume, PipelineEnds, CopiesAreRouted
  <2>3. DispatchedIsStarted'
    BY <1>10, BoundsAssumption DEF Pipeline, Suspend, Resume, PipelineEnds, DispatchedIsStarted
  <2>4. AckedWasStarted'
    BY <1>10, BoundsAssumption DEF Pipeline, Suspend, Resume, PipelineEnds, AckedWasStarted
  <2>5. OrdinalsAreUsed'
    BY <1>10, BoundsAssumption DEF Pipeline, Suspend, Resume, PipelineEnds, OrdinalsAreUsed
  <2>6. AwaitedPipelines'
    BY <1>10, BoundsAssumption DEF Pipeline, Suspend, Resume, PipelineEnds, AwaitedPipelines
  <2> QED
    BY <2>1, <2>2, <2>3, <2>4, <2>5, <2>6
<1>11. ASSUME Signal PROVE Shape'
  <2>1. TypeOK'
    BY <1>11, BoundsAssumption DEF Signal
  <2>2. CopiesAreRouted'
    BY <1>11, BoundsAssumption DEF Signal, CopiesAreRouted
  <2>3. DispatchedIsStarted'
    BY <1>11, BoundsAssumption DEF Signal, DispatchedIsStarted
  <2>4. AckedWasStarted'
    BY <1>11, BoundsAssumption DEF Signal, AckedWasStarted
  <2>5. OrdinalsAreUsed'
    BY <1>11, BoundsAssumption DEF Signal, OrdinalsAreUsed
  <2>6. AwaitedPipelines'
    BY <1>11, BoundsAssumption DEF Signal, AwaitedPipelines
  <2> QED
    BY <2>1, <2>2, <2>3, <2>4, <2>5, <2>6
<1>12. ASSUME NEW s \in Subjects, Unsubscribe(s) \/ Unsubscribed(s) \/ SubscribeGrace(s) PROVE Shape'
  <2>1. TypeOK'
    <3>1. CASE Unsubscribe(s)
      <4>1. inbox' \in [Subjects -> Seq(Events)] /\ sub' \in [Subjects -> {"active", "draining", "returned"}]
        BY <3>1 DEF Unsubscribe
      <4> QED
        BY <3>1, <4>1 DEF Unsubscribe
    <3>2. CASE Unsubscribed(s) \/ SubscribeGrace(s)
      BY <3>2 DEF Unsubscribed, SubscribeGrace, SubGoes
    <3> QED
      BY <1>12, <3>1, <3>2
  <2>2. CopiesAreRouted'
    <3>1. CASE Unsubscribe(s)
      <4>1. inbox'[s] = <<>> /\ \A t \in Subjects \ {s} : inbox'[t] = inbox[t]
        BY <3>1 DEF Unsubscribe
      <4>2. cb' = cb /\ DOMAIN inbox'[s] = {}
        BY <3>1, <4>1 DEF Unsubscribe
      <4> QED
        BY <4>1, <4>2 DEF CopiesAreRouted
    <3>2. CASE Unsubscribed(s) \/ SubscribeGrace(s)
      BY <3>2 DEF Unsubscribed, SubscribeGrace, SubGoes, CopiesAreRouted
    <3> QED
      BY <1>12, <3>1, <3>2
  <2>3. DispatchedIsStarted'
    BY <1>12, BoundsAssumption DEF Unsubscribe, Unsubscribed, SubscribeGrace, SubGoes, DispatchedIsStarted
  <2>4. AckedWasStarted'
    BY <1>12, BoundsAssumption DEF Unsubscribe, Unsubscribed, SubscribeGrace, SubGoes, AckedWasStarted
  <2>5. OrdinalsAreUsed'
    BY <1>12, BoundsAssumption DEF Unsubscribe, Unsubscribed, SubscribeGrace, SubGoes, OrdinalsAreUsed
  <2>6. AwaitedPipelines'
    BY <1>12, BoundsAssumption DEF Unsubscribe, Unsubscribed, SubscribeGrace, SubGoes, AwaitedPipelines
  <2> QED
    BY <2>1, <2>2, <2>3, <2>4, <2>5, <2>6
<1>13. ASSUME AwaitSubs \/ AwaitPipelines \/ End PROVE Shape'
  <2>1. TypeOK'
    BY <1>13, BoundsAssumption DEF AwaitSubs, AwaitPipelines, End
  <2>2. CopiesAreRouted'
    BY <1>13, BoundsAssumption DEF AwaitSubs, AwaitPipelines, End, CopiesAreRouted
  <2>3. DispatchedIsStarted'
    BY <1>13, BoundsAssumption DEF AwaitSubs, AwaitPipelines, End, DispatchedIsStarted
  <2>4. AckedWasStarted'
    BY <1>13, BoundsAssumption DEF AwaitSubs, AwaitPipelines, End, AckedWasStarted
  <2>5. OrdinalsAreUsed'
    BY <1>13, BoundsAssumption DEF AwaitSubs, AwaitPipelines, End, OrdinalsAreUsed
  <2>6. AwaitedPipelines'
    BY <1>13, BoundsAssumption DEF AwaitSubs, AwaitPipelines, End, AwaitedPipelines
  <2> QED
    BY <2>1, <2>2, <2>3, <2>4, <2>5, <2>6
<1>14. ASSUME Crash PROVE Shape'
  <2>1. TypeOK'
    <3>1. <<>> \in Seq(Events) /\ crashes + 1 \in 0..MaxCrashes
      BY <1>14, BoundsAssumption DEF Crash
    <3> QED
      BY <1>14, <3>1 DEF Crash
  <2>2. CopiesAreRouted'
    BY <1>14, BoundsAssumption DEF Crash, CopiesAreRouted
  <2>3. DispatchedIsStarted'
    BY <1>14, BoundsAssumption DEF Crash, DispatchedIsStarted
  <2>4. AckedWasStarted'
    BY <1>14, BoundsAssumption DEF Crash, AckedWasStarted
  <2>5. OrdinalsAreUsed'
    BY <1>14, BoundsAssumption DEF Crash, OrdinalsAreUsed
  <2>6. AwaitedPipelines'
    BY <1>14, BoundsAssumption DEF Crash, AwaitedPipelines
  <2> QED
    BY <2>1, <2>2, <2>3, <2>4, <2>5, <2>6
<1>15. CASE UNCHANGED vars
  BY <1>15 DEF vars, CopiesAreRouted, DispatchedIsStarted, AckedWasStarted, OrdinalsAreUsed, AwaitedPipelines
<1> QED
  BY <1>1, <1>2, <1>3, <1>4, <1>5, <1>6, <1>7, <1>8, <1>9, <1>10, <1>11, <1>12, <1>13, <1>14, <1>15 DEF Next, Server, Callback, Shutdown

----------------------------------------------------------------------------
\* The number of copies is a number.
LEMMA CopiesAreNumbers ==
  ASSUME TypeOK, NEW e \in Events
  PROVE  /\ Cardinality(At(inbox[SubjectOf[e]], e)) \in Nat
         /\ InCallback(e) \in {0, 1} /\ AtServer(e) \in {0, 1} /\ Copies(e) \in Nat
         /\ started[e] \in Nat /\ expiries[e] \in Nat
<1>1. inbox[SubjectOf[e]] \in Seq(Events)
  BY SubjectsAssumption DEF TypeOK
<1>2. Cardinality(At(inbox[SubjectOf[e]], e)) \in Nat
  BY <1>1, AtFinite
<1> QED
  BY <1>2 DEF TypeOK, Copies, InCallback, AtServer

\* Initially the one copy is at the server.
LEMMA InitCopies == Init => CopiesAreCounted
<1> SUFFICES ASSUME Init, NEW e \in Events PROVE started[e] + Copies(e) <= 1 + expiries[e]
  BY DEF CopiesAreCounted
<1>1. SubjectOf[e] \in Subjects /\ e # NoEvent
  BY SubjectsAssumption
<1>2. Cardinality(At(inbox[SubjectOf[e]], e)) = 0
  BY <1>1, AtEmpty DEF Init
<1>3. InCallback(e) = 0 /\ AtServer(e) = 1
  BY <1>1 DEF Init, InCallback, AtServer, Idle
<1> QED
  BY <1>2, <1>3 DEF Init, Copies

\* Only a late acknowledgement makes a copy, and a dispatch uses one up.
LEMMA StepCopies ==
  ASSUME Shape, CopiesAreCounted, [Next]_vars
  PROVE  CopiesAreCounted'
<1> SUFFICES ASSUME NEW e \in Events PROVE started'[e] + Copies(e)' <= 1 + expiries'[e]
  BY DEF CopiesAreCounted
<1> DEFINE Inbox == Cardinality(At(inbox[SubjectOf[e]], e))
<1>a. TypeOK /\ TypeOK' /\ CopiesAreRouted
  BY StepShape DEF Shape
<1>b. /\ Inbox \in Nat /\ InCallback(e) \in {0, 1} /\ AtServer(e) \in {0, 1}
      /\ started[e] \in Nat /\ expiries[e] \in Nat
  BY <1>a, CopiesAreNumbers
<1>c. Inbox' \in Nat /\ InCallback(e)' \in {0, 1} /\ AtServer(e)' \in {0, 1}
  <2>1. SubjectOf[e] \in Subjects /\ inbox'[SubjectOf[e]] \in Seq(Events)
    BY <1>a, SubjectsAssumption DEF TypeOK
  <2>2. Inbox' \in Nat
    BY <2>1, AtFinite
  <2> QED
    BY <2>2 DEF InCallback, AtServer
<1>d. started[e] + Inbox + InCallback(e) + AtServer(e) <= 1 + expiries[e]
  BY <1>b DEF CopiesAreCounted, Copies
<1>e. SUFFICES started'[e] + Inbox' + InCallback(e)' + AtServer(e)' <= 1 + expiries'[e]
  <2>1. Copies(e)' = Inbox' + InCallback(e)' + AtServer(e)'
    BY DEF Copies
  <2>2. started'[e] \in Nat /\ expiries'[e] \in Nat
    BY <1>a DEF TypeOK
  <2> HIDE DEF Inbox
  <2> QED
    BY <1>c, <2>1, <2>2
<1>f. SubjectOf[e] \in Subjects /\ e # NoEvent
  BY SubjectsAssumption
<1> HIDE DEF Inbox
<1> DEFINE Goal == started'[e] + Inbox' + InCallback(e)' + AtServer(e)' <= 1 + expiries'[e]
<1>1. ASSUME NEW x \in Events, Publish(x) PROVE Goal
  <2>1. Inbox' = Inbox /\ InCallback(e)' = InCallback(e) /\ AtServer(e)' = AtServer(e)
    BY <1>1, <1>a DEF Publish, Inbox, InCallback, AtServer, clientVars, TypeOK
  <2> QED
    BY <1>1, <2>1, <1>d DEF Publish, pipeVars
<1>2. ASSUME NEW x \in Events, Deliver(x) PROVE Goal
  <2>1. Inbox' = Inbox + (IF x = e THEN 1 ELSE 0)
    <3>1. CASE SubjectOf[x] = SubjectOf[e]
      <4>1. inbox'[SubjectOf[e]] = Append(inbox[SubjectOf[e]], x) /\ inbox[SubjectOf[e]] \in Seq(Events)
        BY <1>2, <1>a, <1>f, <3>1 DEF Deliver, TypeOK
      <4> QED
        BY <4>1, AtAppend DEF Inbox
    <3>2. CASE SubjectOf[x] # SubjectOf[e]
      <4>1. inbox'[SubjectOf[e]] = inbox[SubjectOf[e]] /\ x # e
        BY <1>2, <1>a, <1>f, <3>2 DEF Deliver, TypeOK
      <4>2. Inbox' = Inbox
        BY <4>1 DEF Inbox
      <4> QED
        BY <4>1, <4>2, <1>b
    <3> QED
      BY <3>1, <3>2
  <2>2. InCallback(e)' = InCallback(e)
    BY <1>2 DEF Deliver, InCallback
  <2>3. AtServer(e)' = AtServer(e) - (IF x = e THEN 1 ELSE 0)
    BY <1>2, <1>a DEF Deliver, AtServer, TypeOK
  <2> QED
    BY <1>2, <1>b, <1>d, <2>1, <2>2, <2>3 DEF Deliver, pipeVars
<1>3. ASSUME NEW x \in Events, AckWaitExpires(x) PROVE Goal
  <2>1. Inbox' = Inbox /\ InCallback(e)' = InCallback(e) /\ started' = started
    BY <1>3 DEF AckWaitExpires, ExpireIf, Inbox, InCallback, clientVars, pipeVars
  <2>2. AtServer(e)' - AtServer(e) = expiries'[e] - expiries[e]
    BY <1>3, <1>a DEF AckWaitExpires, ExpireIf, AtServer, TypeOK
  <2>3. expiries'[e] \in Nat /\ started'[e] = started[e]
    BY <1>a, <2>1 DEF TypeOK
  <2> QED
    BY <1>b, <1>c, <1>d, <2>1, <2>2, <2>3
<1>4. ASSUME NEW s \in Subjects, Pop(s) PROVE Goal
  <2>1. /\ inbox[s] \in Seq(Events) /\ inbox[s] # <<>> /\ inbox'[s] = Tail(inbox[s])
        /\ cb[s].event = NoEvent /\ cb'[s] = [pc |-> "popped", event |-> Head(inbox[s])]
        /\ \A t \in Subjects \ {s} : inbox'[t] = inbox[t] /\ cb'[t] = cb[t]
    BY <1>4, <1>a DEF Pop, TypeOK, Idle
  <2>2. Inbox' + InCallback(e)' = Inbox + InCallback(e)
    <3>1. CASE SubjectOf[e] = s
      <4>1. Inbox' = Inbox - (IF Head(inbox[s]) = e THEN 1 ELSE 0)
        BY <2>1, <3>1, AtTail DEF Inbox
      <4>2. InCallback(e) = 0 /\ InCallback(e)' = IF Head(inbox[s]) = e THEN 1 ELSE 0
        BY <2>1, <3>1, <1>f DEF InCallback
      <4> QED
        BY <4>1, <4>2, <1>b
    <3>2. CASE SubjectOf[e] # s
      <4>1. Inbox' = Inbox /\ InCallback(e)' = InCallback(e)
        BY <2>1, <3>2, <1>f DEF Inbox, InCallback
      <4> QED
        BY <4>1
    <3> QED
      BY <3>1, <3>2
  <2>3. AtServer(e)' = AtServer(e) /\ started' = started /\ expiries' = expiries
    BY <1>4 DEF Pop, AtServer, serverVars, pipeVars
  <2> QED
    BY <1>b, <1>c, <1>d, <2>2, <2>3
<1>5. ASSUME NEW s \in Subjects, Enter(s) \/ Refuse(s) PROVE Goal
  <2>1. /\ cb'[s].pc \in {"slot", "refused"} /\ cb'[s].event = cb[s].event
        /\ cb[s].pc \in {"popped", "slot"}
        /\ \A t \in Subjects \ {s} : cb'[t] = cb[t]
    <3>1. CASE Enter(s)
      <4>1. cb[s].pc = "popped" /\ CallbackGoes(s, "slot") /\ "slot" \in InFlight
        BY <3>1 DEF Enter, InFlight
      <4>2. cb'[s] = [pc |-> "slot", event |-> cb[s].event] /\ \A t \in Subjects \ {s} : cb'[t] = cb[t]
        BY <1>a, <4>1, CallbackKeepsEvent
      <4> QED
        BY <4>1, <4>2
    <3>2. CASE Refuse(s)
      <4>1. cb[s].pc = "slot" /\ CallbackGoes(s, "refused") /\ "refused" \in InFlight
        BY <3>2 DEF Refuse, InFlight
      <4>2. cb'[s] = [pc |-> "refused", event |-> cb[s].event] /\ \A t \in Subjects \ {s} : cb'[t] = cb[t]
        BY <1>a, <4>1, CallbackKeepsEvent
      <4> QED
        BY <4>1, <4>2
    <3> QED
      BY <1>5, <3>1, <3>2
  <2>2. InCallback(e)' = InCallback(e)
    BY <2>1, <1>f DEF InCallback
  <2>3. Inbox' = Inbox /\ AtServer(e)' = AtServer(e) /\ started' = started /\ expiries' = expiries
    BY <1>5 DEF Enter, Refuse, CallbackGoes, Inbox, AtServer, serverVars, pipeVars
  <2> QED
    BY <1>b, <1>d, <2>2, <2>3
<1>6. ASSUME NEW s \in Subjects, Dispatch(s) PROVE Goal
  <2>1. /\ cb'[s].pc = "dispatched" /\ cb[s].pc = "slot" /\ cb'[s].event = cb[s].event
        /\ cb[s].event \in Events
        /\ \A t \in Subjects \ {s} : cb'[t] = cb[t]
    <3>1. cb[s].pc = "slot" /\ CallbackGoes(s, "dispatched") /\ "dispatched" \in InFlight
      BY <1>6 DEF Dispatch, DispatchTo, InFlight
    <3>2. /\ cb'[s] = [pc |-> "dispatched", event |-> cb[s].event] /\ cb[s].event \in Events
          /\ \A t \in Subjects \ {s} : cb'[t] = cb[t]
      BY <1>a, <3>1, CallbackKeepsEvent
    <3> QED
      BY <3>1, <3>2
  <2>2. SubjectOf[cb[s].event] = s
    BY <1>a, <2>1, SubjectsAssumption DEF CopiesAreRouted
  <2>3. started'[e] = started[e] + (IF cb[s].event = e THEN 1 ELSE 0)
    BY <1>6, <1>a, <1>b DEF Dispatch, DispatchTo, TypeOK
  <2>4. InCallback(e)' = InCallback(e) - (IF cb[s].event = e THEN 1 ELSE 0)
    BY <2>1, <2>2, <1>f DEF InCallback
  <2>5. Inbox' = Inbox /\ AtServer(e)' = AtServer(e) /\ expiries' = expiries
    BY <1>6 DEF Dispatch, DispatchTo, CallbackGoes, Inbox, AtServer, serverVars
  <2> QED
    BY <1>b, <1>d, <2>3, <2>4, <2>5
<1>7. ASSUME NEW s \in Subjects, Ack(s) \/ Nak(s) PROVE Goal
  <2>1. /\ cb[s].pc \in {"dispatched", "refused"} /\ cb'[s].event = NoEvent
        /\ \A t \in Subjects \ {s} : cb'[t] = cb[t]
        /\ \A x \in Events \ {cb[s].event} : stream'[x] = stream[x]
    BY <1>7, <1>a DEF Ack, Nak, CallbackReturns, TypeOK, Idle
  <2>2. cb[s].event \in Events /\ SubjectOf[cb[s].event] = s
    BY <1>a, <2>1, SubjectsAssumption DEF CopiesAreRouted, TypeOK, Callbacks, Idle, InFlight
  <2>3. InCallback(e)' + AtServer(e)' <= InCallback(e) + AtServer(e)
    <3>1. CASE cb[s].event = e
      <4>1. InCallback(e)' = 0
        BY <2>1, <2>2, <3>1, <1>f DEF InCallback
      <4>2. CASE Nak(s)
        BY <4>1, <4>2, <1>a, <1>b, <1>c, <2>2, <3>1 DEF Nak, CallbackReturns, InCallback
      <4>3. CASE Ack(s)
        BY <4>1, <4>3, <1>a, <1>b, <1>c, <3>1 DEF Ack, CallbackReturns, AtServer, TypeOK
      <4> QED
        BY <1>7, <4>2, <4>3
    <3>2. CASE cb[s].event # e
      <4>1. AtServer(e)' = AtServer(e)
        BY <2>1, <3>2 DEF AtServer
      <4>2. InCallback(e)' = InCallback(e)
        BY <2>1, <2>2, <3>2, <1>f DEF InCallback
      <4> QED
        BY <4>1, <4>2, <1>b
    <3> QED
      BY <3>1, <3>2
  <2>4. Inbox' = Inbox /\ started' = started /\ expiries' = expiries
    BY <1>7 DEF Ack, Nak, CallbackReturns, Inbox, pipeVars
  <2> QED
    BY <1>b, <1>c, <1>d, <2>3, <2>4
<1>8. ASSUME UNCHANGED <<started, serverVars, inbox, cb>> PROVE Goal
  <2>1. Inbox' = Inbox /\ InCallback(e)' = InCallback(e) /\ AtServer(e)' = AtServer(e)
    BY <1>8 DEF Inbox, InCallback, AtServer, serverVars
  <2> QED
    BY <1>8, <1>d, <2>1 DEF serverVars
<1>9. ASSUME NEW s \in Subjects, Unsubscribe(s) PROVE Goal
  <2>1. Inbox' <= Inbox
    <3>1. CASE SubjectOf[e] = s
      <4>1. inbox'[SubjectOf[e]] = <<>>
        BY <1>9, <1>a, <1>f, <3>1 DEF Unsubscribe, TypeOK
      <4> QED
        BY <4>1, <1>b, AtEmpty DEF Inbox
    <3>2. CASE SubjectOf[e] # s
      <4>1. inbox'[SubjectOf[e]] = inbox[SubjectOf[e]]
        BY <1>9, <1>a, <1>f, <3>2 DEF Unsubscribe, TypeOK
      <4> QED
        BY <4>1, <1>b DEF Inbox
    <3> QED
      BY <3>1, <3>2
  <2>2. InCallback(e)' = InCallback(e) /\ AtServer(e)' = AtServer(e)
        /\ started' = started /\ expiries' = expiries
    BY <1>9 DEF Unsubscribe, InCallback, AtServer, serverVars, pipeVars
  <2> QED
    BY <1>b, <1>c, <1>d, <2>1, <2>2
<1>10. CASE Crash
  <2>1. inbox'[SubjectOf[e]] = <<>> /\ cb'[SubjectOf[e]].event # e
    BY <1>10, <1>f DEF Crash, Idle
  <2>2. Inbox' = 0 /\ InCallback(e)' = 0
    BY <2>1, AtEmpty DEF Inbox, InCallback
  <2>3. AtServer(e)' = AtServer(e) /\ started' = started /\ expiries' = expiries
    BY <1>10 DEF Crash, AtServer, serverVars
  <2> QED
    BY <1>b, <1>d, <2>2, <2>3
<1> QED
  <2>1. ASSUME NEW p \in Pipelines, Pipeline(p) PROVE UNCHANGED <<started, serverVars, inbox, cb>>
    BY <2>1 DEF Pipeline, Suspend, Resume, PipelineEnds, clientVars
  <2>2. ASSUME NEW s \in Subjects, Unsubscribed(s) \/ SubscribeGrace(s)
        PROVE  UNCHANGED <<started, serverVars, inbox, cb>>
    BY <2>2 DEF Unsubscribed, SubscribeGrace, SubGoes, pipeVars
  <2>3. Signal \/ AwaitSubs \/ AwaitPipelines \/ End \/ UNCHANGED vars
          => UNCHANGED <<started, serverVars, inbox, cb>>
    BY DEF Signal, AwaitSubs, AwaitPipelines, End, vars, clientVars, pipeVars
  <2> QED
    BY <1>1, <1>2, <1>3, <1>4, <1>5, <1>6, <1>7, <1>8, <1>9, <1>10, <2>1, <2>2, <2>3
    DEF Next, Server, Callback, Shutdown

----------------------------------------------------------------------------
\* Every reachable state has the shape, and its copies are accounted for.
THEOREM DeliveryInvariant == Spec => [](Shape /\ CopiesAreCounted)
<1>1. Init => Shape /\ CopiesAreCounted
  BY InitShape, InitCopies
<1>2. Shape /\ CopiesAreCounted /\ [Next]_vars => (Shape /\ CopiesAreCounted)'
  BY StepShape, StepCopies
<1> QED
  BY <1>1, <1>2, PTL DEF Spec

\* The variables of JetStream, the client, the pipelines and main keep their types.
THEOREM DeliveryTyped == Spec => []TypeOK
<1>1. Shape => TypeOK
  BY DEF Shape
<1> QED
  BY <1>1, DeliveryInvariant, PTL

\* No event is acknowledged that has no pipeline, through every refusal, late
\* acknowledgement, shutdown and crash.
THEOREM AcknowledgedIsStarted == Spec => []AckedWasStarted
<1>1. Shape => AckedWasStarted
  BY DEF Shape
<1> QED
  BY <1>1, DeliveryInvariant, PTL

\* An event has no more pipelines than its publication and its late acknowledgements
\* account for.
THEOREM RedeliveryIsBounded == Spec => []StartsAreCounted
<1>1. Shape /\ CopiesAreCounted => StartsAreCounted
  <2> SUFFICES ASSUME Shape, CopiesAreCounted, NEW e \in Events PROVE started[e] <= 1 + expiries[e]
    BY DEF StartsAreCounted
  <2>1. started[e] + Copies(e) <= 1 + expiries[e]
    BY DEF CopiesAreCounted
  <2>2. Copies(e) \in Nat /\ started[e] \in Nat /\ expiries[e] \in Nat
    BY CopiesAreNumbers DEF Shape
  <2> QED
    BY <2>1, <2>2
<1> QED
  BY <1>1, DeliveryInvariant, PTL

\* A shutdown that reports all work finished leaves none of the pipelines that existed
\* when the signal came.
THEOREM ShutdownAwaitsPipelines == Spec => []CleanExitAwaited
<1>1. Shape => CleanExitAwaited
  BY DEF Shape, AwaitedPipelines, CleanExitAwaited
<1> QED
  BY <1>1, DeliveryInvariant, PTL

----------------------------------------------------------------------------
(* No event is forgotten *)

\* Until the context is canceled the process subscribes to everything and goes on.
Serving == ~ctxDone => /\ \A s \in Subjects : sub[s] = "active"
                       /\ subsDone = "pending" /\ pipesDone = "pending" /\ ~ended

\* The callback of a subscription can go on, or waits for a slot that a pipeline owns.
CallbackGoesOn(s) ==
  \/ cb[s] = Idle /\ inbox[s] # <<>> /\ sub[s] = "active"
  \/ cb[s].pc \in {"popped", "dispatched", "refused"}
  \/ cb[s].pc = "slot" /\ (Cardinality(working) < Limit \/ working # {})

\* An event that was published and has no pipeline is with JetStream, which delivers it
\* or sends it again, or in the inbox or the callback of a subscription that can go on.
\* No refusal, crash, expiry or acknowledgement of another copy loses it. This is the
\* part of EventsStart that needs no fairness.
NeverForgotten ==
  \A e \in Events :
    stream[e] # "unpublished" /\ started[e] = 0 /\ ~ctxDone =>
      /\ sub[SubjectOf[e]] = "active" /\ ~ended
      /\ \/ stream[e] = "ready"
         \/ stream[e] = "pending" /\ Lost(e)
         \/ /\ stream[e] = "pending" /\ CallbackGoesOn(SubjectOf[e])
            /\ cb[SubjectOf[e]].event = e => cb[SubjectOf[e]].pc # "dispatched"

LEMMA ServingStep == Serving /\ [Next]_vars => Serving'
<1> SUFFICES ASSUME Serving, [Next]_vars PROVE Serving'
  OBVIOUS
<1> USE DEF Serving, clientVars, mainVars
<1>1. ASSUME NEW e \in Events, Publish(e) \/ Server(e) PROVE Serving'
  BY <1>1 DEF Publish, Server, Deliver, AckWaitExpires, ExpireIf
<1>2. ASSUME NEW s \in Subjects, Callback(s) \/ Dispatch(s) PROVE Serving'
  BY <1>2 DEF Callback, Pop, Enter, Refuse, Ack, Nak, Dispatch, DispatchTo, CallbackGoes, CallbackReturns
<1>3. ASSUME NEW p \in Pipelines, Pipeline(p) PROVE Serving'
  BY <1>3 DEF Pipeline, Suspend, Resume, PipelineEnds
<1>4. ASSUME Signal PROVE Serving'
  BY <1>4 DEF Signal
<1>5. ASSUME Shutdown PROVE Serving'
  <2>1. ASSUME NEW s \in Subjects, Unsubscribe(s) \/ Unsubscribed(s) \/ SubscribeGrace(s) PROVE Serving'
    BY <2>1 DEF Unsubscribe, Unsubscribed, SubscribeGrace, SubGoes
  <2>2. ASSUME AwaitSubs \/ AwaitPipelines \/ End PROVE Serving'
    BY <2>2 DEF AwaitSubs, AwaitPipelines, End
  <2> QED BY <1>5, <2>1, <2>2 DEF Shutdown
<1>6. ASSUME Crash PROVE Serving'
  BY <1>6 DEF Crash
<1>7. CASE UNCHANGED vars
  BY <1>7 DEF vars
<1> QED BY <1>1, <1>2, <1>3, <1>4, <1>5, <1>6, <1>7 DEF Next

LEMMA NothingForgotten ==
  ASSUME TypeOK, DispatchedIsStarted, AckedWasStarted, Serving
  PROVE  NeverForgotten
<1> SUFFICES ASSUME NEW e \in Events, stream[e] # "unpublished", started[e] = 0, ~ctxDone,
                    stream[e] # "ready", ~(stream[e] = "pending" /\ Lost(e))
             PROVE  /\ stream[e] = "pending" /\ CallbackGoesOn(SubjectOf[e])
                    /\ cb[SubjectOf[e]].event = e => cb[SubjectOf[e]].pc # "dispatched"
  <2>1. \A e \in Events : ~ctxDone => sub[SubjectOf[e]] = "active" /\ ~ended
    BY SubjectsAssumption DEF Serving
  <2> QED BY <2>1 DEF NeverForgotten
<1> DEFINE s == SubjectOf[e]
<1>1. s \in Subjects /\ sub[s] = "active" /\ inbox[s] \in Seq(Events) /\ cb[s] \in Callbacks
  BY SubjectsAssumption DEF Serving, TypeOK
<1>2. stream[e] = "pending" /\ ~Lost(e)
  BY DEF TypeOK, AckedWasStarted
<1>3. cb[s].event = e => cb[s].pc # "dispatched"
  BY <1>1 DEF DispatchedIsStarted
<1>4. CallbackGoesOn(s)
  <2>1. CASE cb[s] = Idle
    <3>1. cb[s].event # e
      BY <2>1, SubjectsAssumption DEF Idle
    <3>2. inbox[s] # <<>>
      BY <1>2, <3>1 DEF Lost, Contains
    <3> QED BY <1>1, <2>1, <3>2 DEF CallbackGoesOn
  <2>2. CASE cb[s].pc = "slot"
    <3>1. Cardinality({}) = 0 /\ 0 < Limit
      BY FS_EmptySet, BoundsAssumption
    <3> QED BY <2>2, <3>1 DEF CallbackGoesOn
  <2>3. CASE cb[s] # Idle /\ cb[s].pc # "slot"
    BY <1>1, <2>3 DEF Callbacks, InFlight, CallbackGoesOn
  <2> QED BY <2>1, <2>2, <2>3
<1> QED BY <1>2, <1>3, <1>4

\* For any events, subjects, slots and bounds, a published event that no pipeline was
\* dispatched for is always on its way to one, unless the process shuts down.
THEOREM EventsAreNeverForgotten == Spec => []NeverForgotten
<1>1. Init => Serving
  BY DEF Init, Serving
<1>2. Spec => []Serving
  BY <1>1, ServingStep, PTL DEF Spec
<1>3. Shape /\ Serving => NeverForgotten
  BY NothingForgotten DEF Shape
<1> QED BY <1>2, <1>3, DeliveryInvariant, PTL
============================================================================
