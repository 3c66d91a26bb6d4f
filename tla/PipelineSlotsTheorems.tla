----------------------- MODULE PipelineSlotsTheorems ------------------------
(* What holds of PipelineSlots for every set of documents and commands, every  *)
(* limit and every schedule of stops, boundaries and shutdown.                 *)
EXTENDS PipelineSlots, FiniteSetTheorems, TLAPS

\* Until a command spawns its documents nothing of them has happened, so the
\* goroutines it launches start without a slot.
ChildrenUntouched ==
  \A c \in Commands, d \in Docs :
    Parent[d] = c /\ pc[c] \in {"published", "acquiring", "start", "rejected"}
      => pc[d] = "published"

IInv == TypeOK /\ LeaseDiscipline /\ SlotsConserved

----------------------------------------------------------------------------
\* The pipelines are finitely many.
LEMMA PipelinesFinite == IsFiniteSet(Pipelines)
  BY PipelinesAssumption, FS_Union DEF Pipelines

\* Any set of pipelines has a cardinality.
LEMMA HolderCount ==
  ASSUME NEW h \in [Pipelines -> BOOLEAN]
  PROVE  /\ IsFiniteSet({q \in Pipelines : h[q]})
         /\ Cardinality({q \in Pipelines : h[q]}) \in Nat
<1>1. {q \in Pipelines : h[q]} \subseteq Pipelines
  OBVIOUS
<1> QED
  BY <1>1, PipelinesFinite, FS_Subset, FS_CardinalityType

\* Filling an empty lease adds one to the slots in use.
LEMMA HoldersGrow ==
  ASSUME NEW h \in [Pipelines -> BOOLEAN], NEW p \in Pipelines, ~h[p]
  PROVE  Cardinality({q \in Pipelines : [h EXCEPT ![p] = TRUE][q]})
           = Cardinality({q \in Pipelines : h[q]}) + 1
<1> DEFINE H == {q \in Pipelines : h[q]}
<1>1. {q \in Pipelines : [h EXCEPT ![p] = TRUE][q]} = H \cup {p}
  OBVIOUS
<1>2. IsFiniteSet(H) /\ p \notin H
  BY HolderCount
<1> QED
  BY <1>1, <1>2, FS_AddElement

\* Emptying a lease takes one from them if it held a slot, and nothing otherwise.
LEMMA HoldersShrink ==
  ASSUME NEW h \in [Pipelines -> BOOLEAN], NEW p \in Pipelines
  PROVE  Cardinality({q \in Pipelines : [h EXCEPT ![p] = FALSE][q]})
           = IF h[p] THEN Cardinality({q \in Pipelines : h[q]}) - 1
                     ELSE Cardinality({q \in Pipelines : h[q]})
<1> DEFINE H == {q \in Pipelines : h[q]}
<1>1. {q \in Pipelines : [h EXCEPT ![p] = FALSE][q]} = H \ {p}
  OBVIOUS
<1>2. IsFiniteSet(H)
  BY HolderCount
<1>3. CASE h[p]
  BY <1>1, <1>2, <1>3, FS_RemoveElement
<1>4. CASE ~h[p]
  <2>1. H \ {p} = H
    BY <1>4
  <2> QED
    BY <1>1, <1>4, <2>1
<1> QED
  BY <1>3, <1>4

----------------------------------------------------------------------------
\* Taking a slot with an empty lease keeps the type and the conservation of slots.
LEMMA TakeSlotConserves ==
  ASSUME TypeOK, SlotsConserved, NEW p \in Pipelines, ~held[p], TakeSlot(p)
  PROVE  /\ used' \in 0..Limit
         /\ held' \in [Pipelines -> BOOLEAN]
         /\ \A q \in Pipelines : held'[q] = IF q = p THEN TRUE ELSE held[q]
         /\ SlotsConserved'
<1>1. /\ used \in 0..Limit /\ used < Limit /\ used' = used + 1
      /\ held \in [Pipelines -> BOOLEAN]
      /\ held' = [held EXCEPT ![p] = TRUE]
  BY DEF TypeOK, TakeSlot
<1>2. Cardinality(Holders') = Cardinality(Holders) + 1
  BY <1>1, HoldersGrow DEF Holders
<1> QED
  BY <1>1, <1>2, LimitAssumption DEF SlotsConserved

\* Giving it back does, whether the lease owns one or not.
LEMMA GiveSlotConserves ==
  ASSUME TypeOK, SlotsConserved, NEW p \in Pipelines, GiveSlot(p)
  PROVE  /\ used' \in 0..Limit
         /\ held' \in [Pipelines -> BOOLEAN]
         /\ \A q \in Pipelines : held'[q] = IF q = p THEN FALSE ELSE held[q]
         /\ SlotsConserved'
<1>1. /\ used \in 0..Limit /\ used' = IF held[p] THEN used - 1 ELSE used
      /\ held \in [Pipelines -> BOOLEAN]
      /\ held' = [held EXCEPT ![p] = FALSE]
  BY DEF TypeOK, GiveSlot
<1>2. Cardinality(Holders') = IF held[p] THEN Cardinality(Holders) - 1 ELSE Cardinality(Holders)
  BY <1>1, HoldersShrink DEF Holders
<1>3. Cardinality(Holders') \in Nat
  BY <1>1, HolderCount DEF Holders
<1> QED
  BY <1>1, <1>2, <1>3, LimitAssumption DEF SlotsConserved

\* A step that touches no slot conserves them.
LEMMA UntouchedSlots ==
  ASSUME SlotsConserved, UNCHANGED slotVars
  PROVE  SlotsConserved'
  BY DEF SlotsConserved, Holders, slotVars

----------------------------------------------------------------------------
\* Initially.
LEMMA InitInvariant == Init => IInv /\ ChildrenUntouched
<1> SUFFICES ASSUME Init PROVE IInv /\ ChildrenUntouched
  OBVIOUS
<1>1. TypeOK
  <2>1. used \in 0..Limit /\ changes \in 0..MaxChanges
    BY LimitAssumption DEF Init
  <2> QED
    BY <2>1 DEF Init, TypeOK, Pipelines, DocPcs, CommandPcs
<1>2. Holders = {}
  BY DEF Init, Holders
<1>3. SlotsConserved
  BY <1>2, FS_EmptySet DEF Init, SlotsConserved
<1> QED
  BY <1>1, <1>3 DEF Init, IInv, LeaseDiscipline, ChildrenUntouched, Working, Pipelines

\* Every step of every pipeline, of the window and of the process.
LEMMA StepInvariant ==
  ASSUME IInv, ChildrenUntouched, [Next]_vars
  PROVE  IInv' /\ ChildrenUntouched'
<1> USE DEF IInv
<1>1. ASSUME NEW p \in Pipelines, Receive(p) PROVE IInv' /\ ChildrenUntouched'
  <2>1. SlotsConserved'
    BY <1>1, UntouchedSlots DEF Receive
  <2> QED
    BY <1>1, <2>1, PipelinesAssumption DEF Receive, GoTo, TypeOK, LeaseDiscipline, ChildrenUntouched, Working, Slotless,
       DocPcs, CommandPcs, slotVars, windowVars, Pipelines, TopLevel, Children
<1>2. ASSUME NEW p \in Pipelines, Acquire(p) PROVE IInv' /\ ChildrenUntouched'
  <2>1. ~held[p]
    BY <1>2 DEF Acquire, LeaseDiscipline, Slotless
  <2>2. SlotsConserved' /\ used' \in 0..Limit /\ held' \in [Pipelines -> BOOLEAN]
        /\ \A q \in Pipelines : held'[q] = IF q = p THEN TRUE ELSE held[q]
    BY <1>2, <2>1, TakeSlotConserves DEF Acquire
  <2> QED
    BY <1>2, <2>2 DEF Acquire, GoTo, TypeOK, LeaseDiscipline, ChildrenUntouched, Working, Slotless,
       DocPcs, CommandPcs, windowVars, Pipelines
<1>3. ASSUME NEW p \in Pipelines, Reject(p) PROVE IInv' /\ ChildrenUntouched'
  <2>1. SlotsConserved'
    BY <1>3, UntouchedSlots DEF Reject
  <2> QED
    BY <1>3, <2>1 DEF Reject, GoTo, TypeOK, LeaseDiscipline, ChildrenUntouched, Working, Slotless,
       DocPcs, CommandPcs, slotVars, windowVars, Pipelines
<1>4. ASSUME NEW p \in Pipelines, Refuse(p) PROVE IInv' /\ ChildrenUntouched'
  <2>1. SlotsConserved'
    BY <1>4, UntouchedSlots DEF Refuse
  <2> QED
    BY <1>4, <2>1 DEF Refuse, GoTo, TypeOK, LeaseDiscipline, ChildrenUntouched, Working, Slotless,
       DocPcs, CommandPcs, slotVars, windowVars, Pipelines
<1>5. ASSUME NEW p \in Pipelines, Release(p) PROVE IInv' /\ ChildrenUntouched'
  <2>1. SlotsConserved' /\ used' \in 0..Limit /\ held' \in [Pipelines -> BOOLEAN]
        /\ \A q \in Pipelines : held'[q] = IF q = p THEN FALSE ELSE held[q]
    BY <1>5, GiveSlotConserves DEF Release
  <2> QED
    BY <1>5, <2>1 DEF Release, GoTo, TypeOK, LeaseDiscipline, ChildrenUntouched, Working, Slotless,
       DocPcs, CommandPcs, windowVars, Pipelines
<1>6. ASSUME NEW c \in Commands, Spawn(c) PROVE IInv' /\ ChildrenUntouched'
  <2>1. SlotsConserved'
    BY <1>6, UntouchedSlots DEF Spawn
  <2>2. \A d \in Children(c) : pc[d] = "published" /\ ~held[d]
    BY <1>6 DEF Spawn, ChildrenUntouched, LeaseDiscipline, Slotless, Children, Pipelines
  <2>3. held[c]
    BY <1>6 DEF Spawn, LeaseDiscipline, Working, Pipelines
  <2>4. PICK S \in SUBSET Children(c) :
          pc' = [p \in Pipelines |-> IF p = c THEN "joining"
                                     ELSE IF p \in S THEN "acquiring"
                                     ELSE IF p \in Children(c) THEN "done" ELSE pc[p]]
    BY <1>6 DEF Spawn
  <2>5. UNCHANGED <<used, held, ctxDone, window, changes, shutdown>>
    BY <1>6 DEF Spawn, slotVars, windowVars
  <2>6. c \in Pipelines /\ c \notin Docs /\ \A d \in Docs : d \in Pipelines /\ d \notin Commands
    BY PipelinesAssumption DEF Pipelines
  <2>7. TypeOK'
    BY <2>4, <2>5, <2>6 DEF TypeOK, DocPcs, CommandPcs, Children, Pipelines
  <2>8. LeaseDiscipline'
    BY <2>2, <2>3, <2>4, <2>5, <2>6 DEF LeaseDiscipline, Working, Slotless, Children
  <2>9. ChildrenUntouched'
    <3> SUFFICES ASSUME NEW e \in Commands, NEW d \in Docs, Parent[d] = e,
                        pc'[e] \in {"published", "acquiring", "start", "rejected"}
                 PROVE  pc'[d] = "published"
      BY DEF ChildrenUntouched
    <3>1. e # c /\ e \in Pipelines /\ e \notin Children(c)
      BY <2>4, <2>6 DEF Children, Pipelines
    <3>2. pc'[e] = pc[e]
      BY <2>4, <3>1
    <3>3. d \notin Children(c) /\ d # c
      BY <2>6, <3>1 DEF Children
    <3> QED
      BY <2>4, <2>6, <3>2, <3>3 DEF ChildrenUntouched
  <2> QED
    BY <2>1, <2>7, <2>8, <2>9
<1>7. ASSUME NEW c \in Commands, Join(c) PROVE IInv' /\ ChildrenUntouched'
  <2>1. SlotsConserved'
    BY <1>7, UntouchedSlots DEF Join
  <2> QED
    BY <1>7, <2>1 DEF Join, GoTo, TypeOK, LeaseDiscipline, ChildrenUntouched, Working, Slotless,
       DocPcs, CommandPcs, slotVars, windowVars, Pipelines
<1>8. ASSUME NEW d \in Docs, Suspend(d) PROVE IInv' /\ ChildrenUntouched'
  <2>1. SlotsConserved' /\ used' \in 0..Limit /\ held' \in [Pipelines -> BOOLEAN]
        /\ \A q \in Pipelines : held'[q] = IF q = d THEN FALSE ELSE held[q]
    BY <1>8, GiveSlotConserves DEF Suspend, Pipelines
  <2> QED
    BY <1>8, <2>1, PipelinesAssumption DEF Suspend, GoTo, TypeOK, LeaseDiscipline, ChildrenUntouched,
       Working, Slotless, DocPcs, CommandPcs, windowVars, Pipelines
<1>9. ASSUME NEW d \in Docs, ResumeWithSlot(d) PROVE IInv' /\ ChildrenUntouched'
  <2>1. ~held[d]
    BY <1>9 DEF ResumeWithSlot, LeaseDiscipline, Slotless, Pipelines
  <2>2. SlotsConserved' /\ used' \in 0..Limit /\ held' \in [Pipelines -> BOOLEAN]
        /\ \A q \in Pipelines : held'[q] = IF q = d THEN TRUE ELSE held[q]
    BY <1>9, <2>1, TakeSlotConserves DEF ResumeWithSlot, Pipelines
  <2> QED
    BY <1>9, <2>2, PipelinesAssumption DEF ResumeWithSlot, GoTo, TypeOK, LeaseDiscipline,
       ChildrenUntouched, Working, Slotless, DocPcs, CommandPcs, windowVars, Pipelines
<1>10. ASSUME NEW d \in Docs,
              Prepare(d) \/ Admit(d) \/ WaitEnds(d) \/ ResumeWithout(d) \/ TaskEnds(d)
       PROVE  IInv' /\ ChildrenUntouched'
  <2>1. UNCHANGED slotVars
    BY <1>10 DEF Prepare, Admit, WaitEnds, ResumeWithout, TaskEnds
  <2>2. SlotsConserved'
    BY <2>1, UntouchedSlots
  <2>3. PICK label \in {"admit", "running", "returning", "resuming", "ending"} :
          /\ GoTo(d, label)
          /\ label \in Working => held[d]
          /\ label \in Slotless => ~held[d]
    BY <1>10 DEF Prepare, Admit, WaitEnds, ResumeWithout, TaskEnds, LeaseDiscipline, Working,
       Slotless, Pipelines
  <2>4. ctxDone' \in [Docs -> BOOLEAN] /\ UNCHANGED <<window, changes, shutdown>>
    BY <1>10 DEF Prepare, Admit, WaitEnds, ResumeWithout, TaskEnds, TypeOK, windowVars
  <2>5. pc[d] # "published"
    BY <1>10 DEF Prepare, Admit, WaitEnds, ResumeWithout, TaskEnds
  <2> QED
    BY <2>1, <2>2, <2>3, <2>4, <2>5, PipelinesAssumption DEF GoTo, TypeOK, LeaseDiscipline,
       ChildrenUntouched, DocPcs, CommandPcs, slotVars, Pipelines
<1>11. ASSUME UNCHANGED <<used, held, pc>>, ctxDone' \in [Docs -> BOOLEAN],
              window' \in {"active", "inactive", "error"}, changes' \in 0..MaxChanges,
              shutdown' \in BOOLEAN
       PROVE  IInv' /\ ChildrenUntouched'
  BY <1>11 DEF TypeOK, LeaseDiscipline, SlotsConserved, Holders, ChildrenUntouched
<1>12. ASSUME NEW d \in Docs, Stop(d) \/ Abort(d) PROVE IInv' /\ ChildrenUntouched'
  BY <1>11, <1>12 DEF Stop, Abort, TypeOK, slotVars, windowVars
<1>13. CASE WindowChanges
  BY <1>11, <1>13, LimitAssumption DEF WindowChanges, TypeOK, slotVars
<1>14. CASE Shutdown
  BY <1>11, <1>14 DEF Shutdown, TypeOK, slotVars, windowVars
<1>15. CASE UNCHANGED vars
  BY <1>11, <1>15 DEF TypeOK, vars
<1> QED
  BY <1>1, <1>2, <1>3, <1>4, <1>5, <1>6, <1>7, <1>8, <1>9, <1>10, <1>12, <1>13, <1>14, <1>15
     DEF Next, Finish, CommandStep, DocStep

----------------------------------------------------------------------------
\* The inductive invariant.
LEMMA Invariant == Spec => [](IInv /\ ChildrenUntouched)
<1>1. Init => IInv /\ ChildrenUntouched
  BY InitInvariant
<1>2. IInv /\ ChildrenUntouched /\ [Next]_vars => IInv' /\ ChildrenUntouched'
  BY StepInvariant
<1> QED
  BY <1>1, <1>2, PTL DEF Spec

\* Every variable always has its type: in particular no more slots are in use
\* than the channel has, and no release receives from an empty channel.
THEOREM SlotsTyped == Spec => []TypeOK
  BY Invariant, PTL DEF IInv

\* No slot is lost or given back twice.
THEOREM SlotsNeverLeak == Spec => []SlotsConserved
  BY Invariant, PTL DEF IInv

\* Whatever works owns a slot, whatever waits or is over owns none.
THEOREM LeasesAreDisciplined == Spec => []LeaseDiscipline
  BY Invariant, PTL DEF IInv

\* At most MAX_DOC_PROCESS_PIPELINES documents are processed at a time.
THEOREM RunningIsBounded == Spec => []AtMostLimitRun
<1>1. IInv => AtMostLimitRun
  <2> SUFFICES ASSUME IInv PROVE AtMostLimitRun
    OBVIOUS
  <2> DEFINE Running == {d \in Docs : pc[d] = "running"}
  <2>1. Running \subseteq Holders
    BY DEF IInv, LeaseDiscipline, Working, Holders, Pipelines
  <2>2. IsFiniteSet(Holders) /\ Cardinality(Holders) \in Nat
    BY HolderCount DEF IInv, TypeOK, Holders
  <2>3. Cardinality(Running) \in Nat /\ Cardinality(Running) <= Cardinality(Holders)
    BY <2>1, <2>2, FS_Subset, FS_CardinalityType
  <2>4. used = Cardinality(Holders) /\ used \in 0..Limit
    BY DEF IInv, SlotsConserved, TypeOK
  <2> QED
    BY <2>3, <2>4, LimitAssumption DEF AtMostLimitRun
<1> QED
  BY <1>1, Invariant, PTL

\* With fewer start commands than slots, a full channel always has an owner that
\* does not itself wait for a slot: the commands alone cannot block the service.
THEOREM CommandsLeaveASlot ==
  ASSUME Cardinality(Commands) < Limit
  PROVE  Spec => []SomeSlotMoves
<1>1. IInv => SomeSlotMoves
  <2> SUFFICES ASSUME IInv, used = Limit, \A p \in Pipelines : held[p] => pc[p] = "joining"
               PROVE  FALSE
    BY DEF SomeSlotMoves
  <2>1. Holders \subseteq Commands
    BY DEF IInv, TypeOK, DocPcs, Holders, Pipelines
  <2>2. IsFiniteSet(Commands) /\ Cardinality(Commands) \in Nat
    BY PipelinesAssumption, FS_CardinalityType
  <2>3. Cardinality(Holders) <= Cardinality(Commands)
    BY <2>1, <2>2, FS_Subset
  <2>4. used = Cardinality(Holders) /\ used \in 0..Limit
    BY DEF IInv, SlotsConserved, TypeOK
  <2> QED
    BY <2>2, <2>3, <2>4, LimitAssumption
<1> QED
  BY <1>1, Invariant, PTL

\* A task starts only inside its span: resuming with a slot leads back to the
\* check of the window, and no other step starts a task.
THEOREM StartsArePermitted == Spec => StartsPermitted
<1>1. TypeOK /\ [Next]_vars =>
        [\A d \in Docs : pc[d] # "running" /\ pc'[d] = "running" => Permitted(d)]_vars
  <2> SUFFICES ASSUME TypeOK, [Next]_vars, NEW d \in Docs,
                      pc[d] # "running", pc'[d] = "running"
               PROVE  Permitted(d)
    OBVIOUS
  <2>1. pc \in [Pipelines -> DocPcs \cup CommandPcs] /\ Docs \subseteq Pipelines
    BY DEF TypeOK, Pipelines
  <2>2. \A p \in Pipelines : ~Receive(p) /\ ~Acquire(p) /\ ~Finish(p)
    BY <2>1 DEF Receive, Acquire, Finish, Reject, Refuse, Release, GoTo
  <2>3. \A c \in Commands : ~CommandStep(c)
    BY <2>1 DEF CommandStep, Spawn, Join, GoTo
  <2>4. \A e \in Docs : ~Stop(e) /\ ~Abort(e) /\ ~ResumeWithSlot(e)
    BY <2>1 DEF Stop, Abort, ResumeWithSlot, GoTo
  <2>5. ~WindowChanges /\ ~Shutdown /\ ~UNCHANGED vars
    BY DEF WindowChanges, Shutdown, vars
  <2>6. PICK e \in Docs : DocStep(e)
    BY <2>2, <2>3, <2>4, <2>5 DEF Next
  <2>7. e = d /\ Admit(e)
    BY <2>1, <2>6 DEF DocStep, Prepare, Admit, Suspend, WaitEnds, ResumeWithout, TaskEnds, GoTo
  <2> QED
    BY <2>7 DEF Admit
<1> QED
  BY <1>1, SlotsTyped, PTL DEF Spec, StartsPermitted
============================================================================
