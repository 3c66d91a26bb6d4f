-------------------------- MODULE BatchedRunTheorems -------------------------
(* For any processors, any number of chunks, any bound on the concurrent calls *)
(* and any names to wait for: no call outlives its batch, a success is whole,  *)
(* a skipped call makes the run stopped, and indexing follows its dependencies.*)
EXTENDS BatchedRun, FiniteSetTheorems, WellFoundedInduction, TLAPS

Early == {"load", "activate", "init", "initialize"}
Late == {"finalize", "save", "join", "phaseC", "over"}

\* What has been launched: nothing at first, then the seed's calls, then all of those
\* of the processors that were initialised.
Launched ==
  /\ phase \in Early => \A c \in Calls : call[c] = "none"
  /\ phase = "stagger1" => \A c \in Calls : c = <<Seed, 1>> => call[c] # "none"
  /\ phase = "stagger2" => \A c \in Calls : c[1] = Seed => call[c] # "none"
  /\ phase \in {"wait", "finalize", "save"} => \A c \in Calls : c[1] \in ready => call[c] # "none"

\* A call is skipped only by a stop, and no processor is saved once one is.
Skips ==
  /\ \A c \in Calls : call[c] = "skipped" => ctxDone
  /\ phase = "save" => Current \in ready /\ \A c \in Calls : call[c] # "skipped"

\* Nothing is a success before the processors are finalized, nothing is indexed before
\* Phase C, and there is an outcome only at the end.
Order ==
  /\ \A p \in Batched : entry[p] = "success" => phase \in Late \cup {"dead"}
  /\ \A p \in Indexers : index[p] # "none" => phase \in {"phaseC", "over"}
  /\ outcome # "none" => phase = "over"
  /\ phase \in {"phaseC", "over"} => LegacyOver

Safe == NothingOutlives /\ SavedWhole /\ SkippedMeansStopped /\ IndexersSeeAll
IInv == TypeOK /\ Launched /\ Skips /\ Order /\ Safe

USE DEF Phases, CallStates, Results

LEMMA CurrentBatched == TypeOK => Current \in Batched
BY ProcsAssumption DEF TypeOK, Current, Batched

\* What a status write does to the entries.
LEMMA PersistTypes ==
  ASSUME TypeOK, NEW p \in Procs, NEW s \in {"active", "success", "failed", "stopped"}, Persist(p, s)
  PROVE  /\ entry' \in [Procs -> {"none", "active", "success", "failed", "stopped"}]
         /\ \A q \in Procs : entry'[q] # entry[q] => q = p /\ entry'[q] = s /\ ~ctxDone
BY DEF TypeOK, Persist

\* The start of calls keeps the types.
LEMMA LaunchTyped ==
  ASSUME TypeOK, NEW S, NEW s \in CallStates, NEW next \in Phases, Launch(S, s, next)
  PROVE  TypeOK'
BY DEF TypeOK, Launch, flagVars

\* What a step of a call does: it was in flight, and only its own state changes.
LEMMA RunCallTypes ==
  ASSUME TypeOK, NEW d \in Calls, RunCall(d)
  PROVE  /\ call' \in [Calls -> CallStates] /\ holders' \subseteq Calls
         /\ results' \in [Positional -> Seq(Chunks)]
         /\ schedErr' \in {"none", "error", "stopped"}
         /\ InFlight(d) /\ call'[d] # "none" /\ (call'[d] = "skipped" => ctxDone)
         /\ \A c \in Calls : c # d => call'[c] = call[c]
         /\ UNCHANGED <<batchVars, saved, flagVars, legacy, index, entry, ctxDone>>
<1>0. d[2] \in Chunks
  BY DEF Calls
<1>1. CASE Enter(d)
  BY <1>1 DEF TypeOK, Enter, InFlight
<1>2. CASE GiveUp(d)
  BY <1>2 DEF TypeOK, GiveUp, Set, Record, InFlight
<1>3. CASE Begin(d)
  BY <1>3 DEF TypeOK, Begin, Set, Record, InFlight
<1>4. CASE Succeed(d)
  <2>1. \A p \in Positional : Append(results[p], d[2]) \in Seq(Chunks)
    BY <1>0 DEF TypeOK
  <2>2. results' \in [Positional -> Seq(Chunks)]
    BY <2>1, <1>4 DEF TypeOK, Succeed
  <2> QED BY <2>2, <1>4 DEF TypeOK, Succeed, Set, InFlight
<1>5. CASE Fail(d)
  BY <1>5 DEF TypeOK, Fail, Set, Record, InFlight
<1>6. CASE Skip(d)
  BY <1>6 DEF TypeOK, Skip, Set, Record, InFlight
<1> QED BY <1>1, <1>2, <1>3, <1>4, <1>5, <1>6 DEF RunCall

----------------------------------------------------------------------------
(* Types *)

LEMMA TypeInit == Init => TypeOK
<1>1. 1 \in 1..Len(Batch)
  BY ProcsAssumption
<1>2. <<>> \in Seq(Chunks)
  OBVIOUS
<1>3. ASSUME Init
      PROVE  /\ results \in [Positional -> Seq(Chunks)]
             /\ saved \in [Positional -> SUBSET (Chunks \X Nat)]
  BY <1>2, <1>3 DEF Init
<1>4. ASSUME Init
      PROVE  /\ legacy \in [Legacy -> {"launched", "working"} \cup Results]
             /\ index \in [Indexers -> {"none", "waiting", "indexing", "over"}]
             /\ entry \in [Procs -> {"none", "active", "success", "failed", "stopped"}]
             /\ call \in [Calls -> CallStates]
  BY <1>4 DEF Init
<1>5. ASSUME Init
      PROVE  {batchErr, failed, stopped, ctxDone} \subseteq BOOLEAN
  BY <1>5 DEF Init
<1> QED BY <1>1, <1>3, <1>4, <1>5 DEF Init, TypeOK

LEMMA TypeStep == TypeOK /\ [Next]_vars => TypeOK'
<1> SUFFICES ASSUME TypeOK, [Next]_vars PROVE TypeOK'
  OBVIOUS
<1> USE DEF batchVars, callVars, flagVars
<1>0. Current \in Procs /\ Current \in Batched /\ Len(Batch) \in Nat
  BY CurrentBatched, ProcsAssumption DEF Procs
<1>a. LoadFails => TypeOK'
  BY DEF TypeOK, LoadFails
<1>b. Load => TypeOK'
  BY DEF TypeOK, Load
<1>c. Activate => TypeOK'
  <2> SUFFICES ASSUME Activate PROVE TypeOK'
    OBVIOUS
  <2>1. entry' \in [Procs -> {"none", "active", "success", "failed", "stopped"}]
    BY <1>0, PersistTypes DEF Activate
  <2> QED BY <2>1 DEF TypeOK, Activate
<1>s. StopBatch => TypeOK'
  BY DEF TypeOK, StopBatch
<1>u. BeginInit => TypeOK'
  BY <1>s DEF TypeOK, BeginInit
<1>d. InitBatch => TypeOK'
  <2> SUFFICES ASSUME InitBatch PROVE TypeOK'
    OBVIOUS
  <2>1. entry' \in [Procs -> {"none", "active", "success", "failed", "stopped"}]
    BY <1>0, PersistTypes DEF InitBatch, TypeOK
  <2>2. ready' \subseteq Batched /\ batchErr' \in BOOLEAN
    BY <1>0 DEF InitBatch, TypeOK
  <2>3. phase' \in Phases /\ at' \in 1..Len(Batch) /\ failed' \in BOOLEAN
    <3>1. AfterInit(ready')
      BY DEF InitBatch
    <3>2. phase' \in Phases /\ at' \in 1..Len(Batch)
      BY <3>1, <1>0 DEF AfterInit, TypeOK
    <3>3. failed' \in BOOLEAN
      BY <3>1, Zenon DEF AfterInit, TypeOK
    <3> QED BY <3>2, <3>3
  <2> QED BY <2>1, <2>2, <2>3 DEF TypeOK, InitBatch
<1>e. LaunchSeed => TypeOK'
  <2> SUFFICES ASSUME LaunchSeed PROVE TypeOK'
    OBVIOUS
  <2>1. \E n \in Phases : Launch({<<Seed, 1>>}, "started", n)
    BY DEF LaunchSeed
  <2> QED BY <2>1, LaunchTyped
<1>f. LaunchSeedRest => TypeOK'
  <2> SUFFICES ASSUME LaunchSeedRest PROVE TypeOK'
    OBVIOUS
  <2>1. \E n \in Phases : Launch({Seed} \X (2..NChunks), "started", n)
    BY DEF LaunchSeedRest
  <2> QED BY <2>1, LaunchTyped
<1>g. LaunchRest => TypeOK'
  BY LaunchTyped DEF LaunchRest
<1>h. Abandon \/ Abandoned => TypeOK'
  BY <1>s DEF TypeOK, Abandon, Abandoned
<1>i. CallsEnd => TypeOK'
  BY <1>s DEF TypeOK, CallsEnd
<1>j. Finalize => TypeOK'
  BY <1>s, <1>0 DEF TypeOK, Finalize, AfterFinalize
<1>k. Save => TypeOK'
  <2> SUFFICES ASSUME Save, ~StopBatch PROVE TypeOK'
    BY <1>s
  <2>1. entry' \in [Procs -> {"none", "active", "success", "failed", "stopped"}]
    BY <1>0, PersistTypes DEF Save
  <2>2. \A p \in Positional : Paired(p) \subseteq Chunks \X Nat
    BY DEF Paired, TypeOK
  <2>3. saved' \in [Positional -> SUBSET (Chunks \X Nat)]
    BY <2>2 DEF Save, TypeOK
  <2>4. phase' \in Phases /\ at' \in 1..Len(Batch) /\ failed' \in BOOLEAN /\ batchErr' \in BOOLEAN
    <3>1. \E e \in BOOLEAN : AfterFinalize(e)
      BY DEF Save, TypeOK
    <3>2. batchErr' \in BOOLEAN
      BY DEF Save, TypeOK
    <3> QED BY <3>1, <3>2, <1>0 DEF AfterFinalize, TypeOK
  <2> QED BY <2>1, <2>3, <2>4 DEF TypeOK, Save
<1>l. Join => TypeOK'
  BY DEF TypeOK, Join, EndRun
<1>m. EndPhaseC => TypeOK'
  BY DEF TypeOK, EndPhaseC, EndRun
<1>n. ASSUME NEW c \in Calls, RunCall(c) PROVE TypeOK'
  BY <1>n, RunCallTypes DEF TypeOK
<1>o. ASSUME NEW c \in Calls, Panic(c) PROVE TypeOK'
  BY <1>o DEF TypeOK, Panic
<1>v. BatchPanics => TypeOK'
  BY DEF TypeOK, BatchPanics
<1>p. ASSUME NEW p \in Legacy, RunLegacy(p) PROVE TypeOK'
  <2>1. p \in Procs
    BY DEF Procs
  <2>2. entry' \in [Procs -> {"none", "active", "success", "failed", "stopped"}]
    BY <1>p, <2>1, PersistTypes DEF RunLegacy, LegacyBegin, LegacyEnd, LegacyPanic, TypeOK
  <2>3. legacy' \in [Legacy -> {"launched", "working"} \cup Results]
    BY <1>p DEF RunLegacy, LegacyBegin, LegacyEnd, LegacyPanic, TypeOK
  <2> QED BY <1>p, <2>2, <2>3 DEF RunLegacy, LegacyBegin, LegacyEnd, LegacyPanic, TypeOK
<1>q. ASSUME NEW p \in Indexers, RunIndex(p) PROVE TypeOK'
  <2>1. p \in Procs
    BY ProcsAssumption
  <2>2. entry' \in [Procs -> {"none", "active", "success", "failed", "stopped"}]
    BY <1>q, <2>1, PersistTypes DEF RunIndex, Index, IndexGivesUp, IndexEnd, TypeOK
  <2> QED BY <1>q, <2>2 DEF RunIndex, Index, IndexGivesUp, IndexEnd, SetIndex, TypeOK
<1>r. Cancel => TypeOK'
  BY DEF TypeOK, Cancel
<1>t. UNCHANGED vars => TypeOK'
  BY DEF TypeOK, vars
<1> QED
  BY <1>a, <1>b, <1>c, <1>d, <1>e, <1>f, <1>g, <1>h, <1>i, <1>j, <1>k, <1>l, <1>m, <1>n, <1>o,
     <1>p, <1>q, <1>r, <1>t, <1>u, <1>v DEF Next, Coordinate, Finished

\* Every variable keeps its type, for any processors and chunks.
THEOREM Typing == Spec => []TypeOK
BY TypeInit, TypeStep, PTL DEF Spec

----------------------------------------------------------------------------
(* Safety *)

LEMMA SafeInit == Init => IInv
<1> SUFFICES ASSUME Init PROVE IInv
  OBVIOUS
<1>1. TypeOK
  BY TypeInit
<1> QED BY <1>1 DEF Init, IInv, Launched, Skips, Order, Safe, Early, Late, NothingOutlives, SavedWhole,
          SkippedMeansStopped, IndexersSeeAll, Calls, Procs

\* A step from one label to another that leaves the calls, the indexing and the outcome
\* alone.
LEMMA SafeCalm ==
  ASSUME IInv, TypeOK', UNCHANGED <<call, index, outcome>>,
         ctxDone => ctxDone',
         phase' \in {"wait", "finalize"} => ready' = ready /\ phase \in {"wait", "finalize", "save"},
         phase' \notin {"stagger1", "stagger2", "save", "phaseC", "over"},
         phase \notin {"phaseC", "over"},
         phase' \in Early => phase \in Early,
         phase' \in Late => CallsOver,
         \A p \in Batched : entry'[p] = "success" => entry[p] = "success" /\ phase' \in Late
  PROVE  IInv'
BY DEF IInv, Launched, Skips, Order, Safe, Early, Late, NothingOutlives, SavedWhole,
       SkippedMeansStopped, IndexersSeeAll, CallsOver, InFlight, LegacyOver, Seed, Current

\* A step beside the coordinator that leaves the calls and the indexing alone.
LEMMA SafeFrame ==
  ASSUME IInv, TypeOK', UNCHANGED <<phase, at, ready, call, index, outcome>>,
         ctxDone => ctxDone', LegacyOver => LegacyOver',
         \A p \in Batched : entry'[p] = entry[p]
  PROVE  IInv'
BY DEF IInv, Launched, Skips, Order, Safe, Early, Late, NothingOutlives, SavedWhole,
       SkippedMeansStopped, IndexersSeeAll, CallsOver, InFlight, Seed, Current, Awaited

\* A launch of calls.
LEMMA SafeLaunch ==
  ASSUME IInv, NEW S, NEW s \in {"started", "queued"}, NEW next \in {"stagger1", "stagger2", "wait"},
         Launch(S, s, next), phase \in {"seed", "stagger1", "stagger2"}, Launched'
  PROVE  IInv'
<1>1. TypeOK'
  BY LaunchTyped DEF IInv
<1>2. \A c \in Calls : call'[c] = IF c \in S THEN s ELSE call[c]
  BY DEF Launch
<1>3. UNCHANGED <<at, ready, index, entry, legacy, outcome, ctxDone>> /\ phase' = next
  BY DEF Launch, flagVars
<1>4. (\A p \in Batched : entry[p] # "success") /\ (\A p \in Indexers : index[p] = "none") /\ outcome = "none"
  BY DEF IInv, Order, Late
<1>5. Order' /\ Safe'
  BY <1>3, <1>4 DEF Order, Safe, Late, NothingOutlives, SavedWhole, SkippedMeansStopped, IndexersSeeAll
<1>6. Skips'
  BY <1>2, <1>3 DEF Skips, IInv
<1> QED BY <1>1, <1>5, <1>6 DEF IInv

LEMMA SafeStep == IInv /\ [Next]_vars => IInv'
<1> SUFFICES ASSUME IInv, [Next]_vars PROVE IInv'
  OBVIOUS
<1> USE DEF batchVars, callVars, flagVars
<1>0. TypeOK /\ TypeOK' /\ Current \in Batched /\ Current \in Procs
  BY TypeStep, CurrentBatched DEF IInv, Procs
<1>s. ASSUME StopBatch, phase \notin {"phaseC", "over"}, CallsOver PROVE IInv'
  BY <1>s, <1>0, SafeCalm DEF StopBatch, IInv, Order, Early, Late
<1>a. LoadFails => IInv'
  BY <1>0, SafeCalm DEF LoadFails, IInv, Launched, Order, Early, Late, CallsOver, InFlight
<1>b. Load => IInv'
  BY <1>0, SafeCalm DEF Load, IInv, Order, Early, Late
<1>c. Activate => IInv'
  <2> SUFFICES ASSUME Activate PROVE IInv'
    OBVIOUS
  <2>1. \A p \in Batched : entry'[p] # "success"
    BY <1>0, PersistTypes DEF Activate, IInv, Order, Late, Procs
  <2> QED BY <2>1, <1>0, SafeCalm DEF Activate, Early, Late
<1>u. BeginInit => IInv'
  <2> SUFFICES ASSUME BeginInit PROVE IInv'
    OBVIOUS
  <2>1. CallsOver /\ phase = "init"
    BY DEF BeginInit, IInv, Launched, Early, CallsOver, InFlight
  <2>2. CASE StopBatch
    BY <2>1, <2>2, <1>s
  <2>3. CASE ~StopBatch
    <3>1. phase' = "initialize" /\ UNCHANGED <<call, index, outcome, entry, ctxDone>>
      BY <2>3 DEF BeginInit
    <3>2. \A p \in Batched : entry'[p] # "success"
      BY <2>1, <3>1 DEF IInv, Order, Late
    <3> QED BY <2>1, <3>1, <3>2, <1>0, SafeCalm DEF Early, Late
  <2> QED BY <2>2, <2>3
<1>d. InitBatch => IInv'
  <2> SUFFICES ASSUME InitBatch PROVE IInv'
    OBVIOUS
  <2>1. CallsOver /\ phase = "initialize"
    BY DEF InitBatch, IInv, Launched, Early, CallsOver, InFlight
  <2>2. \A p \in Batched : entry'[p] # "success"
    BY <1>0, PersistTypes DEF InitBatch, IInv, Order, Late, Procs
  <2>3. phase' \in {"activate", "seed", "join"} /\ UNCHANGED <<call, index, outcome, ctxDone>>
    BY DEF InitBatch, AfterInit
  <2> QED BY <2>1, <2>2, <2>3, <1>0, SafeCalm DEF Early, Late
<1>e. LaunchSeed => IInv'
  <2> SUFFICES ASSUME LaunchSeed PROVE IInv'
    OBVIOUS
  <2> DEFINE next == IF NChunks = 1 /\ ready = {Seed} THEN "wait" ELSE "stagger1"
  <2>1. Launch({<<Seed, 1>>}, "started", next) /\ phase = "seed"
    BY DEF LaunchSeed
  <2>2. \A c \in Calls : c = <<Seed, 1>> => call'[c] # "none"
    BY <2>1 DEF Launch
  <2>3. Seed' = Seed /\ ready' = ready /\ phase' = next
    BY <2>1 DEF Launch, Seed
  <2>4. ASSUME next = "wait", NEW c \in Calls, c[1] \in ready PROVE c = <<Seed, 1>>
    BY <2>4, NumbersAssumption DEF Calls, Chunks
  <2>5. Launched'
    BY <2>2, <2>3, <2>4 DEF Launched, Early
  <2> QED BY <2>1, <2>5, SafeLaunch
<1>f. LaunchSeedRest => IInv'
  <2> SUFFICES ASSUME LaunchSeedRest PROVE IInv'
    OBVIOUS
  <2> DEFINE next == IF ready = {Seed} THEN "wait" ELSE "stagger2"
  <2>1. Launch({Seed} \X (2..NChunks), "started", next) /\ phase = "stagger1"
    BY DEF LaunchSeedRest
  <2>2. ASSUME NEW c \in Calls, c[1] = Seed PROVE call'[c] # "none"
    <3>1. c = <<Seed, 1>> \/ c \in {Seed} \X (2..NChunks)
      BY <2>2, NumbersAssumption DEF Calls, Chunks
    <3> QED BY <3>1, <2>1 DEF Launch, IInv, Launched
  <2>3. Seed' = Seed /\ ready' = ready /\ phase' = next
    BY <2>1 DEF Launch, Seed
  <2>4. Launched'
    BY <2>2, <2>3 DEF Launched, Early
  <2> QED BY <2>1, <2>4, SafeLaunch
<1>g. LaunchRest => IInv'
  <2> SUFFICES ASSUME LaunchRest PROVE IInv'
    OBVIOUS
  <2>1. Launch(Others, "queued", "wait") /\ phase = "stagger2"
    BY DEF LaunchRest
  <2>2. ASSUME NEW c \in Calls, c[1] \in ready PROVE call'[c] # "none"
    <3>1. c[1] = Seed \/ c \in Others
      BY <2>2 DEF Others
    <3> QED BY <3>1, <2>1 DEF Launch, IInv, Launched
  <2>3. ready' = ready /\ phase' = "wait"
    BY <2>1 DEF Launch
  <2>4. Launched'
    BY <2>2, <2>3 DEF Launched, Early
  <2> QED BY <2>1, <2>4, SafeLaunch
<1>h. Abandon \/ Abandoned => IInv'
  BY <1>s, <1>0, SafeCalm DEF Abandon, Abandoned, IInv, Order, Early, Late
<1>i. CallsEnd => IInv'
  BY <1>s, <1>0, SafeCalm DEF CallsEnd, IInv, Order, Early, Late
<1>j. Finalize => IInv'
  <2> SUFFICES ASSUME Finalize PROVE IInv'
    OBVIOUS
  <2>1. CallsOver /\ phase = "finalize"
    BY DEF Finalize, IInv, Safe, NothingOutlives
  <2>2. CASE StopBatch
    BY <2>1, <2>2, <1>s
  <2>3. CASE phase' = "save" /\ ~StopBatch
    <3>1. Current \in ready /\ ~ctxDone
          /\ UNCHANGED <<at, ready, call, index, outcome, entry, legacy, ctxDone>>
      BY <2>3 DEF Finalize, AfterFinalize
    <3> QED BY <2>1, <2>3, <3>1, <1>0 DEF IInv, Launched, Skips, Order, Safe, Early, Late, NothingOutlives,
              SavedWhole, SkippedMeansStopped, IndexersSeeAll, CallsOver, InFlight, Current
  <2>4. CASE phase' # "save" /\ ~StopBatch
    <3>1. phase' \in {"finalize", "join"} /\ UNCHANGED <<ready, call, index, outcome, entry, ctxDone>>
      BY <2>4 DEF Finalize, AfterFinalize
    <3> QED BY <2>1, <3>1, <1>0, SafeCalm DEF Early, Late
  <2> QED BY <2>2, <2>3, <2>4
<1>k. Save => IInv'
  <2> SUFFICES ASSUME Save PROVE IInv'
    OBVIOUS
  <2>1. CallsOver /\ phase = "save"
    BY DEF Save, IInv, Safe, NothingOutlives
  <2>2. CASE StopBatch
    BY <2>1, <2>2, <1>s
  <2>3. CASE ~StopBatch
    <3>1. phase' \in {"finalize", "join"}
          /\ UNCHANGED <<ready, call, index, outcome, legacy, ctxDone>>
      BY <2>3 DEF Save, AfterFinalize
    <3>2. \A k \in Chunks : call[<<Current, k>>] \in {"done", "error"}
      BY <2>1, <1>0 DEF IInv, TypeOK, Launched, Skips, CallsOver, InFlight, Calls
    <3>3. \A p \in Batched : entry'[p] = "success" => entry[p] = "success" \/ p = Current
      BY <2>3, <1>0, PersistTypes DEF Save, Procs
    <3>4. SavedWhole'
      BY <3>1, <3>2, <3>3 DEF IInv, Safe, SavedWhole
    <3> QED BY <2>1, <3>1, <3>4, <1>0 DEF IInv, Launched, Skips, Order, Safe, Early, Late, NothingOutlives,
              SkippedMeansStopped, IndexersSeeAll, CallsOver, InFlight
  <2> QED BY <2>2, <2>3
<1>l. Join => IInv'
  <2> SUFFICES ASSUME Join PROVE IInv'
    OBVIOUS
  <2>1. CallsOver /\ LegacyOver /\ phase = "join" /\ UNCHANGED <<call, legacy, entry, ctxDone>>
    BY DEF Join, IInv, Safe, NothingOutlives
  <2>2. \/ phase' = "over" /\ outcome' = "stopped" /\ index' = index
        \/ phase' = "phaseC" /\ outcome' = outcome /\ index' = [p \in Indexers |-> "waiting"]
    BY DEF Join, EndRun
  <2> QED BY <2>1, <2>2, <1>0 DEF IInv, Launched, Skips, Order, Safe, Early, Late, NothingOutlives, SavedWhole,
            SkippedMeansStopped, IndexersSeeAll, CallsOver, InFlight, LegacyOver
<1>m. EndPhaseC => IInv'
  <2> SUFFICES ASSUME EndPhaseC PROVE IInv'
    OBVIOUS
  <2>1. CallsOver /\ LegacyOver /\ phase = "phaseC" /\ UNCHANGED <<call, legacy, entry, index, ctxDone>>
    BY DEF EndPhaseC, IInv, Safe, NothingOutlives, Order
  <2>2. phase' = "over" /\ (ctxDone => outcome' = "stopped") /\ \A p \in Indexers : index[p] = "over"
    BY DEF EndPhaseC, EndRun
  <2> QED BY <2>1, <2>2, <1>0 DEF IInv, Launched, Skips, Order, Safe, Early, Late, NothingOutlives, SavedWhole,
            SkippedMeansStopped, IndexersSeeAll, CallsOver, InFlight, LegacyOver
<1>n. ASSUME Alive, NEW d \in Calls, RunCall(d) PROVE IInv'
  <2>1. /\ InFlight(d) /\ call'[d] # "none" /\ (call'[d] = "skipped" => ctxDone)
        /\ \A c \in Calls : c # d => call'[c] = call[c]
        /\ UNCHANGED <<phase, at, ready, index, entry, legacy, outcome, ctxDone>>
    BY <1>n, <1>0, RunCallTypes
  <2>2. phase \notin Late /\ phase \notin Early
    BY <2>1 DEF IInv, Safe, NothingOutlives, CallsOver, Late, Launched, InFlight
  <2>3. Seed' = Seed
    BY <2>1 DEF Seed
  <2>4. Launched' /\ Skips'
    BY <2>1, <2>2, <2>3 DEF IInv, Launched, Skips, Late
  <2>5. (\A p \in Batched : entry[p] # "success") /\ (\A p \in Indexers : index[p] = "none") /\ outcome = "none"
    BY <1>n, <2>2 DEF IInv, Order, Late, Alive
  <2>6. Order' /\ Safe'
    BY <2>1, <2>2, <2>5 DEF Order, Safe, Late, NothingOutlives, SavedWhole, SkippedMeansStopped, IndexersSeeAll
  <2> QED BY <2>4, <2>6, <1>0 DEF IInv
<1>o. ASSUME Alive, NEW d \in Calls, Panic(d) PROVE IInv'
  <2>1. phase \notin Late /\ phase' = "dead" /\ UNCHANGED <<call, index, outcome, entry, ctxDone>>
    BY <1>o DEF Panic, IInv, Safe, NothingOutlives, CallsOver, InFlight, Late
  <2>2. \A p \in Batched : entry[p] # "success"
    BY <1>o, <2>1 DEF IInv, Order, Alive
  <2> QED BY <2>1, <2>2, <1>0, SafeCalm DEF Early, Late
<1>v. BatchPanics => IInv'
  <2> SUFFICES ASSUME BatchPanics PROVE IInv'
    OBVIOUS
  <2>1. /\ phase \in {"initialize", "save"} /\ phase' = "dead"
        /\ UNCHANGED <<call, index, outcome, entry, legacy, ctxDone>>
    BY DEF BatchPanics
  <2> QED BY <2>1, <1>0 DEF IInv, Launched, Skips, Order, Safe, Early, Late, NothingOutlives, SavedWhole,
            SkippedMeansStopped, IndexersSeeAll, CallsOver, InFlight
<1>p. ASSUME NEW p \in Legacy, RunLegacy(p) PROVE IInv'
  <2>1. p \in Procs /\ p \notin Batched
    BY ProcsAssumption DEF Procs
  <2>2. \A q \in Batched : entry'[q] = entry[q]
    BY <1>p, <2>1, <1>0, PersistTypes DEF RunLegacy, LegacyBegin, LegacyEnd, LegacyPanic, Procs
  <2>3. ~LegacyOver /\ UNCHANGED <<phase, at, ready, call, index, outcome, ctxDone>>
    BY <1>p DEF RunLegacy, LegacyBegin, LegacyEnd, LegacyPanic, LegacyOver
  <2> QED BY <2>2, <2>3, <1>0, SafeFrame
<1>q. ASSUME NEW p \in Indexers, RunIndex(p) PROVE IInv'
  <2>1. phase = "phaseC" /\ UNCHANGED <<phase, at, ready, call, legacy, outcome, ctxDone>>
    BY <1>q DEF RunIndex, Index, IndexGivesUp, IndexEnd, SetIndex
  <2>2. CallsOver /\ LegacyOver /\ CallsOver' /\ LegacyOver'
    BY <2>1 DEF IInv, Safe, NothingOutlives, Order, CallsOver, InFlight, LegacyOver
  <2>3. \A q \in Batched : entry'[q] = "success" => entry[q] = "success"
    BY <1>q, <1>0, PersistTypes, ProcsAssumption DEF RunIndex, Index, IndexGivesUp, IndexEnd, Procs
  <2>4. IndexersSeeAll'
    BY <1>q, <2>2, <1>0 DEF RunIndex, Index, IndexGivesUp, IndexEnd, SetIndex, IInv, Safe, IndexersSeeAll,
       Awaited, TypeOK
  <2> QED BY <2>1, <2>2, <2>3, <2>4, <1>0 DEF IInv, Launched, Skips, Order, Safe, Early, Late, NothingOutlives,
            SavedWhole, SkippedMeansStopped
<1>r. Cancel => IInv'
  BY <1>0, SafeFrame DEF Cancel, LegacyOver
<1>t. UNCHANGED vars => IInv'
  BY <1>0, SafeFrame DEF vars, LegacyOver
<1> QED
  BY <1>a, <1>b, <1>c, <1>d, <1>e, <1>f, <1>g, <1>h, <1>i, <1>j, <1>k, <1>l, <1>m, <1>n, <1>o,
     <1>p, <1>q, <1>r, <1>t, <1>u, <1>v DEF Next, Coordinate, Finished

\* The inductive invariant holds.
THEOREM Invariance == Spec => []IInv
BY SafeInit, SafeStep, PTL DEF Spec

\* No call works on a batch that has been finalized or left.
THEOREM BatchIsOver == Spec => []NothingOutlives
<1>1. IInv => NothingOutlives
  BY DEF IInv, Safe
<1> QED BY <1>1, Invariance, PTL

\* What is shown as a success had every chunk.
THEOREM SuccessIsWhole == Spec => []SavedWhole
<1>1. IInv => SavedWhole
  BY DEF IInv, Safe
<1> QED BY <1>1, Invariance, PTL

\* A call left out because of a stop makes the run stopped.
THEOREM SkipsAreStops == Spec => []SkippedMeansStopped
<1>1. IInv => SkippedMeansStopped
  BY DEF IInv, Safe
<1> QED BY <1>1, Invariance, PTL

\* Indexing sees all of Phase B and what it waits for.
THEOREM IndexingIsOrdered == Spec => []IndexersSeeAll
<1>1. IInv => IndexersSeeAll
  BY DEF IInv, Safe
<1> QED BY <1>1, Invariance, PTL

----------------------------------------------------------------------------
(* The run implements PhasedRun *)

\* Whatever calls itself stopped knows of the stop, and an error reaches the outcome.
Reasons ==
  /\ stopped \/ schedErr = "stopped" \/ phase = "abandon" => ctxDone
  /\ \A p \in Legacy : legacy[p] = "stopped" => ctxDone
  /\ phase \in {"finalize", "save"} /\ schedErr = "error" => batchErr
  /\ phase \in {"join", "phaseC"} /\ ~stopped /\ (batchErr \/ schedErr = "error") => failed
  /\ phase = "phaseC" => ~stopped /\ (HasFailed => failed)
  /\ failed => phase \in {"join", "phaseC", "over"}

LEMMA ReasonsStep ==
  ASSUME IInv, Reasons, [Next]_vars
  PROVE  Reasons'
<1> USE DEF batchVars, callVars, flagVars
<1>0. TypeOK
  BY DEF IInv
<1>s. ASSUME StopBatch, ctxDone PROVE Reasons'
  BY <1>s DEF StopBatch, Reasons
<1>a. CASE LoadFails \/ Load \/ Activate
  BY <1>a DEF LoadFails, Load, Activate, Reasons
<1>u. CASE BeginInit
  BY <1>u, <1>s DEF BeginInit, Reasons
<1>b. CASE InitBatch
  <2>1. phase = "initialize" /\ AfterInit(ready') /\ UNCHANGED <<schedErr, stopped, legacy, ctxDone>>
    BY <1>b DEF InitBatch
  <2>2. /\ phase' \in {"activate", "seed", "join"} /\ (phase' = "join" => failed')
        /\ phase' # "join" => ~failed'
    BY <2>1 DEF AfterInit, Reasons
  <2> QED BY <2>1, <2>2 DEF Reasons
<1>c. ASSUME NEW S, NEW t \in CallStates, NEW next \in {"stagger1", "stagger2", "wait"},
             phase \in {"seed", "stagger1", "stagger2"}, Launch(S, t, next)
      PROVE  Reasons'
  BY <1>c DEF Launch, Reasons
<1>d. CASE LaunchSeed \/ LaunchSeedRest \/ LaunchRest
  BY <1>c, <1>d DEF LaunchSeed, LaunchSeedRest, LaunchRest
<1>e. CASE Abandon \/ Abandoned \/ CallsEnd
  BY <1>e, <1>s, <1>0 DEF Abandon, Abandoned, CallsEnd, Reasons, TypeOK
<1>f. CASE Finalize
  <2>1. CASE StopBatch /\ ctxDone
    BY <1>s, <2>1
  <2>2. CASE ~(StopBatch /\ ctxDone)
    <3>1. /\ phase = "finalize" /\ phase' \in {"finalize", "save", "join"}
          /\ phase' = "join" => failed' = batchErr
          /\ phase' # "join" => failed' = failed
          /\ UNCHANGED <<batchErr, schedErr, stopped, legacy, ctxDone>>
      BY <1>f, <2>2 DEF Finalize, AfterFinalize
    <3> QED BY <3>1 DEF Reasons
  <2> QED BY <2>1, <2>2
<1>g. CASE Save
  <2>1. CASE StopBatch /\ ctxDone
    BY <1>s, <2>1
  <2>2. CASE ~(StopBatch /\ ctxDone)
    <3>1. /\ phase = "save" /\ phase' \in {"finalize", "join"}
          /\ phase' = "join" => failed' = batchErr'
          /\ phase' # "join" => failed' = failed
          /\ UNCHANGED batchErr \/ batchErr'
          /\ UNCHANGED <<schedErr, stopped, legacy, ctxDone>>
      BY <1>g, <2>2 DEF Save, AfterFinalize
    <3> QED BY <3>1 DEF Reasons
  <2> QED BY <2>1, <2>2
<1>h. CASE Join
  <2>1. /\ phase = "join" /\ LegacyOver /\ UNCHANGED <<batchErr, schedErr, legacy, ctxDone>>
        /\ \/ phase' = "over" /\ (stopped' => ctxDone)
           \/ /\ phase' = "phaseC" /\ ~stopped /\ stopped' = stopped
              /\ (failed => failed') /\ \A p \in Legacy : legacy[p] # "success" => failed'
    BY <1>h DEF Join, EndRun, Reasons
  <2> QED BY <2>1 DEF Reasons, HasFailed
<1>i. CASE EndPhaseC
  BY <1>i DEF EndPhaseC, EndRun, Reasons
<1>j. ASSUME NEW d \in Calls, RunCall(d) PROVE Reasons'
  <2>1. /\ phase \notin Late /\ UNCHANGED <<phase, batchErr, failed, stopped, legacy, ctxDone>>
    BY <1>j, <1>0, RunCallTypes DEF IInv, Safe, NothingOutlives, CallsOver, Late, InFlight
  <2>2. schedErr' = "stopped" => schedErr = "stopped" \/ ctxDone
    BY <1>j DEF RunCall, Enter, GiveUp, Begin, Succeed, Fail, Skip, Record
  <2> QED BY <2>1, <2>2 DEF Reasons, Late
<1>k. ASSUME NEW d \in Calls, Panic(d) PROVE Reasons'
  <2>1. phase \notin Late
    BY <1>k DEF Panic, IInv, Safe, NothingOutlives, CallsOver, Late, InFlight
  <2> QED BY <1>k, <2>1 DEF Panic, Reasons, Late
<1>v. CASE BatchPanics
  BY <1>v DEF BatchPanics, Reasons
<1>l. ASSUME NEW p \in Legacy, RunLegacy(p) PROVE Reasons'
  <2>1. /\ ~LegacyOver /\ UNCHANGED <<phase, batchErr, schedErr, failed, stopped, ctxDone>>
        /\ \A q \in Legacy : legacy'[q] = "stopped" => legacy[q] = "stopped" \/ ctxDone
    BY <1>l, <1>0 DEF RunLegacy, LegacyBegin, LegacyEnd, LegacyPanic, LegacyOver, TypeOK
  <2>2. phase # "phaseC"
    BY <2>1 DEF IInv, Order
  <2> QED BY <2>1, <2>2 DEF Reasons
<1>m. ASSUME NEW p \in Indexers, RunIndex(p) PROVE Reasons'
  BY <1>m DEF RunIndex, Index, IndexGivesUp, IndexEnd, SetIndex, Reasons, HasFailed
<1>n. CASE Cancel \/ UNCHANGED vars
  BY <1>n DEF Cancel, vars, Reasons, HasFailed
<1> QED
  BY <1>a, <1>b, <1>d, <1>e, <1>f, <1>g, <1>h, <1>i, <1>j, <1>k, <1>l, <1>m, <1>n, <1>u,
     <1>v DEF Next, Coordinate, Finished

\* Where the run and its processors are in PhasedRun, before and after a step.
LEMMA Mapped ==
  /\ Alive <=> StageOf \in {"processing", "indexing"}
  /\ Alive' <=> StageOf' \in {"processing", "indexing"}
  /\ StageOf = IF phase = "over" THEN "over" ELSE IF phase = "dead" THEN "dead"
               ELSE IF phase = "phaseC" THEN "indexing" ELSE "processing"
  /\ StageOf' = IF phase' = "over" THEN "over" ELSE IF phase' = "dead" THEN "dead"
                ELSE IF phase' = "phaseC" THEN "indexing" ELSE "processing"
BY DEF Alive, StageOf

LEMMA MappedWork ==
  ASSUME TypeOK
  PROVE  /\ \A p \in Procs : workOf[p] = IF Alive THEN WorkOf(p) ELSE "idle"
         /\ \A p \in Batched :
              /\ phase \notin {"join", "phaseC"} =>
                   WorkOf(p) = IF \A k \in Chunks : call[<<p, k>>] = "none" THEN "idle" ELSE "busy"
              /\ phase \in {"join", "phaseC"} /\ CallsOver => WorkOf(p) = "done"
         /\ \A p \in Legacy : /\ legacy[p] = "launched" => WorkOf(p) = "idle"
                              /\ legacy[p] = "working" => WorkOf(p) = "busy"
                              /\ legacy[p] \in Results => WorkOf(p) = "done"
<1>1. \A p \in Batched, k \in Chunks : <<p, k>> \in Calls
  BY DEF Calls
<1>2. \A p \in Legacy : p \notin Batched
  BY ProcsAssumption
<1> QED BY <1>1, <1>2 DEF workOf, WorkOf, CallsOver

LEMMA MappedWorkAfter ==
  ASSUME TypeOK'
  PROVE  /\ \A p \in Procs : workOf'[p] = IF Alive' THEN WorkOf(p)' ELSE "idle"
         /\ \A p \in Batched :
              /\ phase' \notin {"join", "phaseC"} =>
                   WorkOf(p)' = IF \A k \in Chunks : call'[<<p, k>>] = "none" THEN "idle" ELSE "busy"
              /\ phase' \in {"join", "phaseC"} /\ CallsOver' => WorkOf(p)' = "done"
         /\ \A p \in Legacy : /\ legacy'[p] = "launched" => WorkOf(p)' = "idle"
                              /\ legacy'[p] = "working" => WorkOf(p)' = "busy"
                              /\ legacy'[p] \in Results => WorkOf(p)' = "done"
<1>1. \A p \in Batched, k \in Chunks : <<p, k>> \in Calls
  BY DEF Calls
<1>2. \A p \in Legacy : p \notin Batched
  BY ProcsAssumption
<1> QED BY <1>1, <1>2 DEF workOf, WorkOf, CallsOver

\* What is left when the run is no longer in progress.
LEMMA Left == ~Alive' => Phased!Leave
BY DEF workOf, indexedOf, canceledOf, troubleOf, Phased!Leave, Phased!AtRest

\* A step before Phase C: calls that were launched stay so until the join, where all of
\* them are over.
LEMMA WorkMapped ==
  ASSUME TypeOK, TypeOK', Alive, phase # "phaseC", Alive', phase' # "phaseC",
         UNCHANGED <<index, outcome, ctxDone>>, HasFailed => HasFailed',
         phase = "join" => phase' = "join",
         phase' = "join" => CallsOver',
         \A c \in Calls : call[c] # "none" => call'[c] # "none",
         \A p \in Legacy : \/ legacy'[p] = legacy[p]
                           \/ legacy[p] = "launched" /\ legacy'[p] = "working"
                           \/ legacy[p] = "working" /\ legacy'[p] \in Results,
         phase = "join" => CallsOver
  PROVE  Phased!Work
<1>1. StageOf = "processing" /\ StageOf' = "processing"
  BY Mapped DEF Alive
<1>2. UNCHANGED <<indexedOf, canceledOf>>
  BY DEF indexedOf, canceledOf
<1>3. troubleOf' \in BOOLEAN /\ (troubleOf => troubleOf')
  BY DEF troubleOf
<1>4. ASSUME NEW p \in Procs PROVE workOf'[p] \in {"idle", "busy", "done"} /\ Phased!Forward(p)
  <2>1. workOf[p] = WorkOf(p) /\ workOf'[p] = WorkOf(p)'
    BY MappedWork, MappedWorkAfter
  <2>2. CASE p \in Legacy
    <3>1. legacy[p] \in {"launched", "working"} \cup Results
      BY <2>2 DEF TypeOK
    <3> QED BY <2>1, <2>2, <3>1, MappedWork, MappedWorkAfter DEF Phased!Forward
  <2>3. CASE p \in Batched
    <3>1. \A k \in Chunks : call[<<p, k>>] # "none" => call'[<<p, k>>] # "none"
      BY <2>3 DEF Calls
    <3> QED BY <2>1, <2>3, <3>1, MappedWork, MappedWorkAfter DEF Phased!Forward
  <2> QED BY <2>2, <2>3 DEF Procs
<1>5. workOf' \in [Procs -> {"idle", "busy", "done"}]
  BY <1>4 DEF workOf
<1> QED BY <1>1, <1>2, <1>3, <1>4, <1>5 DEF Phased!Work

LEMMA PhasedStep ==
  ASSUME IInv, IInv', Reasons, [Next]_vars
  PROVE  [Phased!Next]_(Phased!runVars)
<1> USE DEF batchVars, callVars, flagVars
<1>0. TypeOK /\ TypeOK' /\ (phase' = "join" => CallsOver') /\ (phase = "join" => CallsOver)
  BY DEF IInv, Safe, NothingOutlives
<1>1. ASSUME Alive, UNCHANGED <<call, legacy, index, outcome, ctxDone>>, HasFailed => HasFailed',
             phase \notin {"join", "phaseC"}, phase' \notin {"phaseC", "over", "dead"}
      PROVE  Phased!Next
  BY <1>0, <1>1, WorkMapped DEF Alive, Phased!Next
<1>s. ASSUME Alive, StopBatch, phase \notin {"join", "phaseC"} PROVE Phased!Next
  BY <1>1, <1>s DEF StopBatch, HasFailed
<1>a. CASE Alive /\ (LoadFails \/ Load \/ Activate)
  BY <1>1, <1>a DEF LoadFails, Load, Activate, HasFailed
<1>u. CASE Alive /\ BeginInit
  <2>1. CASE StopBatch
    BY <1>u, <1>s, <2>1 DEF BeginInit
  <2>2. CASE ~StopBatch
    BY <1>1, <1>u, <2>2 DEF BeginInit, HasFailed
  <2> QED BY <2>1, <2>2
<1>b. CASE Alive /\ InitBatch
  <2>1. /\ phase = "initialize" /\ AfterInit(ready')
        /\ UNCHANGED <<call, schedErr, legacy, index, outcome, ctxDone>>
        /\ batchErr => batchErr'
    BY <1>b DEF InitBatch
  <2>2. phase' \in {"activate", "seed", "join"} /\ ~failed
    BY <2>1 DEF AfterInit, Reasons
  <2> QED BY <1>1, <1>b, <2>1, <2>2 DEF HasFailed
<1>c. ASSUME Alive, NEW S, NEW t \in {"started", "queued"}, NEW next \in {"stagger1", "stagger2", "wait"},
             phase \in {"seed", "stagger1", "stagger2"}, Launch(S, t, next)
      PROVE  Phased!Next
  <2>1. /\ UNCHANGED <<index, outcome, ctxDone, legacy>> /\ (HasFailed => HasFailed') /\ phase' = next
        /\ \A d \in Calls : call[d] # "none" => call'[d] # "none"
    BY <1>c DEF Launch, HasFailed
  <2> QED BY <1>0, <1>c, <2>1, WorkMapped DEF Alive, Phased!Next
<1>d. CASE Alive /\ (LaunchSeed \/ LaunchSeedRest \/ LaunchRest)
  BY <1>c, <1>d DEF LaunchSeed, LaunchSeedRest, LaunchRest
<1>e. CASE Alive /\ (Abandon \/ Abandoned \/ CallsEnd)
  <2>1. CASE Abandon
    BY <1>e, <2>1, <1>1 DEF Abandon, HasFailed
  <2>2. CASE StopBatch
    BY <1>e, <1>s, <2>2 DEF Abandon, Abandoned, CallsEnd
  <2>3. CASE CallsEnd /\ ~StopBatch
    <3>1. /\ phase = "wait" /\ phase' = "finalize" /\ (batchErr => batchErr')
          /\ UNCHANGED <<call, schedErr, failed, legacy, index, outcome, ctxDone>>
      BY <2>3 DEF CallsEnd
    <3> QED BY <1>e, <1>1, <3>1 DEF HasFailed
  <2> QED BY <1>e, <2>1, <2>2, <2>3 DEF Abandoned
<1>f. CASE Alive /\ Finalize
  <2>1. CASE StopBatch
    BY <1>f, <1>s, <2>1 DEF Finalize
  <2>2. CASE ~StopBatch
    <3>1. /\ phase = "finalize" /\ phase' \in {"finalize", "save", "join"}
          /\ UNCHANGED <<call, batchErr, schedErr, legacy, index, outcome, ctxDone>>
      BY <1>f, <2>2 DEF Finalize, AfterFinalize
    <3> QED BY <1>1, <1>f, <3>1 DEF HasFailed, Reasons
  <2> QED BY <2>1, <2>2
<1>g. CASE Alive /\ Save
  <2>1. CASE StopBatch
    BY <1>g, <1>s, <2>1 DEF Save
  <2>2. CASE ~StopBatch
    <3>1. /\ phase = "save" /\ phase' \in {"finalize", "join"} /\ (batchErr => batchErr')
          /\ UNCHANGED <<call, schedErr, legacy, index, outcome, ctxDone>>
      BY <1>g, <2>2 DEF Save, AfterFinalize
    <3> QED BY <1>1, <1>g, <3>1 DEF HasFailed, Reasons
  <2> QED BY <2>1, <2>2
\* At the join every processor is done: the calls are over, and so are the others.
<1>w. ASSUME Alive, phase \in {"join", "phaseC"}, LegacyOver PROVE \A p \in Procs : workOf[p] = "done"
  <2>1. CallsOver
    BY <1>w DEF IInv, Safe, NothingOutlives
  <2>2. \A p \in Batched : workOf[p] = "done"
    BY <1>0, <1>w, <2>1, MappedWork DEF Procs
  <2>3. \A p \in Legacy : workOf[p] = "done"
    BY <1>0, <1>w, MappedWork DEF Procs, LegacyOver
  <2> QED BY <2>2, <2>3 DEF Procs
<1>h. CASE Alive /\ Join
  <2> DEFINE isFailed == failed \/ \E p \in Legacy : legacy[p] # "success"
  <2> DEFINE isStopped == stopped \/ \E p \in Legacy : legacy[p] = "stopped"
  <2>1. \A p \in Procs : workOf[p] = "done"
    BY <1>h, <1>w DEF Join
  <2>2. StageOf = "processing" /\ (canceledOf <=> ctxDone) /\ (isStopped => ctxDone)
        /\ (troubleOf <=> HasFailed)
    BY <1>h, Mapped DEF Join, canceledOf, troubleOf, Reasons
  <2>3. CASE isStopped \/ ctxDone
    <3>1. phase' = "over" /\ outcome' = "stopped"
      BY <1>h, <2>3 DEF Join, EndRun
    <3>2. StageOf' = "over" /\ Phased!Leave
      BY <3>1, Mapped, Left DEF Alive
    <3> QED BY <2>1, <2>2, <2>3, <3>1, <3>2 DEF Phased!End, Phased!Next
  <2>4. CASE ~(isStopped \/ ctxDone)
    <3>1. /\ phase = "join" /\ phase' = "phaseC" /\ (failed' <=> isFailed) /\ index' = [p \in Indexers |-> "waiting"]
          /\ UNCHANGED <<call, batchErr, schedErr, stopped, outcome, legacy, ctxDone>>
      BY <1>h, <2>4 DEF Join
    <3>2. StageOf' = "indexing"
      BY <3>1, Mapped
    <3>3. UNCHANGED workOf
      <4>1. CallsOver /\ CallsOver'
        BY <1>0, <3>1 DEF CallsOver, InFlight
      <4>2. \A p \in Procs : WorkOf(p)' = WorkOf(p)
        BY <3>1, <4>1 DEF WorkOf, InFlight
      <4> QED BY <1>h, <3>1, <4>2 DEF workOf, Alive
    <3>4. UNCHANGED <<indexedOf, canceledOf>>
      BY <3>1, <1>0 DEF indexedOf, canceledOf, Alive, IInv, Order
    <3>5. HasFailed' <=> HasFailed
      BY <2>4, <3>1, <1>h DEF HasFailed, Join, LegacyOver, Reasons
    <3>6. UNCHANGED troubleOf
      BY <3>1, <3>5 DEF troubleOf, Alive
    <3> QED BY <2>1, <2>2, <2>4, <3>1, <3>2, <3>3, <3>4, <3>6 DEF Phased!BeginIndexing, Phased!Next
  <2> QED BY <2>3, <2>4
<1>i. CASE Alive /\ EndPhaseC
  <2>1. /\ phase = "phaseC" /\ phase' = "over" /\ \A p \in Indexers : index[p] = "over"
        /\ outcome' = IF ctxDone THEN "stopped" ELSE IF failed THEN "failed" ELSE "success"
    BY <1>i DEF EndPhaseC, EndRun
  <2>2. StageOf = "indexing" /\ StageOf' = "over" /\ indexedOf = Indexers /\ Phased!Leave
    BY <1>i, <2>1, Mapped, Left DEF indexedOf, Alive
  <2>3. canceledOf <=> ctxDone
    BY <1>i DEF canceledOf
  <2>4. troubleOf <=> failed
    BY <1>i, <2>1 DEF troubleOf, HasFailed, Reasons
  <2> QED BY <2>1, <2>2, <2>3, <2>4 DEF Phased!End, Phased!Next
<1>j. ASSUME Alive, NEW d \in Calls, RunCall(d) PROVE Phased!Next
  <2>1. /\ InFlight(d) /\ call'[d] # "none" /\ \A c \in Calls : c # d => call'[c] = call[c]
        /\ UNCHANGED <<phase, batchErr, failed, legacy, index, outcome, ctxDone>>
    BY <1>j, <1>0, RunCallTypes
  <2>2. phase \notin Late
    BY <2>1 DEF IInv, Safe, NothingOutlives, CallsOver, Late
  <2>3. schedErr = "error" => schedErr' = "error"
    BY <1>j DEF RunCall, Enter, GiveUp, Begin, Succeed, Fail, Skip, Record
  <2>4. HasFailed => HasFailed'
    BY <2>1, <2>3 DEF HasFailed
  <2>5. \A c \in Calls : call[c] # "none" => call'[c] # "none"
    BY <2>1
  <2>6. phase \notin {"join", "phaseC", "over"} /\ phase' = phase
    BY <2>1, <2>2 DEF Late
  <2>7. Alive'
    BY <1>j, <2>6 DEF Alive
  <2> QED BY <1>0, <1>j, <2>1, <2>4, <2>5, <2>6, <2>7, WorkMapped DEF Phased!Next
<1>k. ASSUME Alive, BatchPanics \/ \E d \in Calls : Panic(d) PROVE Phased!Next
  <2>1. phase' = "dead" /\ outcome' = outcome /\ outcome = "none"
    BY <1>k, <1>0 DEF Panic, BatchPanics, IInv, Order, TypeOK, Alive
  <2>2. StageOf \in {"processing", "indexing"} /\ StageOf' = "dead" /\ Phased!Leave
    BY <1>k, <2>1, Mapped, Left DEF Alive
  <2> QED BY <2>1, <2>2 DEF Phased!InProgress, Phased!Die, Phased!Next
<1>l. ASSUME Alive, NEW p \in Legacy, RunLegacy(p) PROVE Phased!Next
  <2>1. ~LegacyOver /\ UNCHANGED <<phase, call, batchErr, schedErr, failed, index, outcome, ctxDone>>
    BY <1>l DEF RunLegacy, LegacyBegin, LegacyEnd, LegacyPanic, LegacyOver
  <2>2. phase # "phaseC" /\ phase' = phase /\ Alive'
    BY <1>l, <2>1 DEF IInv, Order, Alive
  <2>3. \A q \in Legacy : \/ legacy'[q] = legacy[q]
                          \/ legacy[q] = "launched" /\ legacy'[q] = "working"
                          \/ legacy[q] = "working" /\ legacy'[q] \in Results
    BY <1>l, <1>0 DEF RunLegacy, LegacyBegin, LegacyEnd, LegacyPanic, TypeOK
  <2>4. HasFailed => HasFailed'
    BY <2>1, <2>3 DEF HasFailed
  <2> QED BY <1>0, <1>l, <2>1, <2>2, <2>3, <2>4, WorkMapped DEF Phased!Next
<1>m. ASSUME Alive, NEW p \in Indexers, RunIndex(p) PROVE Phased!Next
  <2>1. /\ phase = "phaseC" /\ UNCHANGED <<phase, call, batchErr, schedErr, failed, legacy, outcome, ctxDone>>
        /\ \A q \in Indexers : index[q] = "over" => index'[q] = "over"
    BY <1>m, <1>0 DEF RunIndex, Index, IndexGivesUp, IndexEnd, SetIndex, TypeOK
  <2>2. StageOf = "indexing" /\ UNCHANGED StageOf
    BY <2>1, Mapped
  <2>3. indexedOf' \subseteq Indexers /\ indexedOf \subseteq indexedOf'
    BY <1>m, <2>1 DEF indexedOf, Alive
  <2>4. \A q \in Procs : WorkOf(q)' = WorkOf(q)
    BY <2>1 DEF WorkOf, InFlight
  <2>5. UNCHANGED <<workOf, canceledOf, troubleOf>>
    BY <2>1, <2>4 DEF workOf, canceledOf, troubleOf, HasFailed, Alive
  <2> QED BY <2>1, <2>2, <2>3, <2>5 DEF Phased!Index, Phased!Next
<1>n. CASE Cancel
  <2>1. Alive /\ UNCHANGED <<phase, call, batchErr, schedErr, failed, legacy, index, outcome>> /\ ctxDone'
    BY <1>n DEF Cancel
  <2>2. StageOf \in {"processing", "indexing"} /\ UNCHANGED StageOf
    BY <2>1, Mapped
  <2>3. \A q \in Procs : WorkOf(q)' = WorkOf(q)
    BY <2>1 DEF WorkOf, InFlight
  <2>4. UNCHANGED <<workOf, indexedOf, troubleOf>> /\ canceledOf' = TRUE
    BY <2>1, <2>3, <1>0 DEF workOf, indexedOf, canceledOf, troubleOf, HasFailed, Alive, TypeOK
  <2> QED BY <2>1, <2>2, <2>4 DEF Phased!InProgress, Phased!Cancel, Phased!Next
<1>o. CASE UNCHANGED vars
  <2>1. UNCHANGED <<phase, call, batchErr, schedErr, failed, legacy, index, outcome, ctxDone>>
    BY <1>o DEF vars
  <2>2. \A q \in Procs : WorkOf(q)' = WorkOf(q)
    BY <2>1 DEF WorkOf, InFlight
  <2>3. UNCHANGED <<StageOf, workOf, indexedOf, canceledOf, troubleOf>>
    BY <2>1, <2>2 DEF StageOf, workOf, indexedOf, canceledOf, troubleOf, HasFailed, Alive
  <2> QED BY <2>1, <2>3 DEF Phased!runVars
<1> QED
  BY <1>a, <1>b, <1>d, <1>e, <1>f, <1>g, <1>h, <1>i, <1>j, <1>k, <1>l, <1>m, <1>n, <1>o,
     <1>u DEF Next, Coordinate, Finished

\* Chunk-batch mode does what a run promises: a stop wherever it meets the coordinator
\* ends the run as stopped with no call in flight, an error of any call or processor
\* makes it failed, and Phase C begins only when all of Phase B is done.
THEOREM BatchedRunsArePhased == Spec => ImplementsRun
<1>1. Init => Reasons /\ Phased!Init
  <2> SUFFICES ASSUME Init PROVE Reasons /\ Phased!Init
    OBVIOUS
  <2>1. Reasons
    BY DEF Init, Reasons, HasFailed, batchVars
  <2>2. StageOf = "processing" /\ indexedOf = {} /\ canceledOf = FALSE /\ troubleOf = FALSE
    BY DEF Init, StageOf, indexedOf, canceledOf, troubleOf, HasFailed, Alive
  <2>3. \A p \in Procs : WorkOf(p) = "idle"
    BY DEF Init, WorkOf, Procs, Calls
  <2>4. workOf = [p \in Procs |-> "idle"]
    BY <2>3 DEF Init, workOf, Alive
  <2> QED BY <2>1, <2>2, <2>4 DEF Init, Phased!Init, Phased!AtRest
<1>2. IInv /\ Reasons /\ [Next]_vars => Reasons'
  BY ReasonsStep
<1>3. IInv /\ IInv' /\ Reasons /\ [Next]_vars => [Phased!Next]_(Phased!runVars)
  BY PhasedStep
<1> QED BY <1>1, <1>2, <1>3, Invariance, PTL DEF Spec, ImplementsRun, Phased!Spec

----------------------------------------------------------------------------
(* Nobody waits for ever *)

\* Before Phase 3 no call waits for a place or holds one, a call holds one only while it
\* goes on, and in Phase C every indexer has its turn before it.
Places ==
  /\ phase \in Early \cup {"seed", "stagger1", "stagger2"} =>
       holders = {} /\ \A c \in Calls : call[c] # "queued"
  /\ \A c \in holders : call[c] \in {"started", "working"}
  /\ phase = "phaseC" => \A p \in Indexers : index[p] # "none"

\* What the coordinator waits for has come.
CoordinatorGoesOn ==
  CASE phase \in {"abandon", "wait"} -> CallsOver
    [] phase = "join" -> LegacyOver
    [] phase = "phaseC" -> \A p \in Indexers : index[p] = "over"
    [] OTHER -> TRUE

CallGoesOn(c) ==
  \/ call[c] \in {"started", "working"}
  \/ call[c] = "queued" /\ Cardinality(holders) < Cap

IndexerGoesOn(p) ==
  \/ index[p] = "indexing"
  \/ index[p] = "waiting" /\ \A q \in Awaited(p) : index[q] = "over"

\* Whatever the coordinator waits for (the calls, the other processors, the indexers),
\* one of those it waits for can go on without a stop: the places of the semaphore are
\* not all lost, and the indexers do not wait for each other. This is the part of
\* RunEnds that needs no fairness.
NeverBlocked ==
  Alive => \/ CoordinatorGoesOn
           \/ phase \in {"abandon", "wait"} /\ \E c \in Calls : CallGoesOn(c)
           \/ phase = "join" /\ \E p \in Legacy : legacy[p] \in {"launched", "working"}
           \/ phase = "phaseC" /\ \E p \in Indexers : IndexerGoesOn(p)

LEMMA PlacesStep ==
  ASSUME TypeOK, NothingOutlives, Places, [Next]_vars
  PROVE  Places'
<1> USE DEF batchVars, callVars, flagVars
<1>1. ASSUME UNCHANGED <<call, holders, index>>, phase' = "phaseC" => phase = "phaseC",
             phase' \in Early \cup {"seed", "stagger1", "stagger2"} =>
               phase \in Early \cup {"seed", "stagger1", "stagger2"}
      PROVE  Places'
  BY <1>1 DEF Places
<1>s. ASSUME StopBatch PROVE Places'
  BY <1>1, <1>s DEF StopBatch, Early
<1>a. ASSUME LoadFails \/ Load \/ Activate \/ Abandon PROVE Places'
  BY <1>a, <1>1 DEF LoadFails, Load, Activate, Abandon, Early
<1>u. ASSUME BeginInit PROVE Places'
  <2>1. ASSUME ~StopBatch
        PROVE  UNCHANGED <<call, holders, index>> /\ phase = "init" /\ phase' = "initialize"
    BY <1>u, <2>1 DEF BeginInit
  <2> QED BY <1>1, <1>s, <2>1 DEF Early
<1>b. ASSUME InitBatch PROVE Places'
  <2>1. UNCHANGED <<call, holders, index>> /\ phase = "initialize" /\ phase' \in {"activate", "seed", "join"}
    BY <1>b DEF InitBatch, AfterInit
  <2> QED BY <1>1, <2>1 DEF Early
<1>c. ASSUME NEW S, NEW t \in {"started", "queued"}, NEW next \in {"stagger1", "stagger2", "wait"},
             Launch(S, t, next), next = "wait" \/ t = "started", phase \in {"seed", "stagger1", "stagger2"}
      PROVE  Places'
  <2>1. /\ holders' = {} /\ phase' = next /\ \A d \in Calls : call[d] # "queued"
        /\ \A d \in Calls : call'[d] \in {t, call[d]}
    BY <1>c DEF Launch, Places
  <2> QED BY <1>c, <2>1 DEF Places, Early
<1>d. ASSUME LaunchSeed \/ LaunchSeedRest \/ LaunchRest PROVE Places'
  BY <1>c, <1>d DEF LaunchSeed, LaunchSeedRest, LaunchRest
<1>e. ASSUME Abandoned \/ CallsEnd PROVE Places'
  BY <1>e, <1>1, <1>s DEF Abandoned, CallsEnd, Early
<1>f. ASSUME Finalize \/ Save PROVE Places'
  <2>1. ASSUME ~StopBatch
        PROVE  UNCHANGED <<call, holders, index>> /\ phase' \in {"finalize", "save", "join"}
    BY <1>f, <2>1 DEF Finalize, Save, AfterFinalize
  <2> QED BY <1>1, <1>s, <2>1 DEF Early
<1>g. ASSUME Join PROVE Places'
  <2>1. /\ UNCHANGED <<call, holders>>
        /\ phase' = "over" \/ (phase' = "phaseC" /\ index' = [p \in Indexers |-> "waiting"])
    BY <1>g DEF Join, EndRun
  <2> QED BY <2>1 DEF Places, Early
<1>h. ASSUME EndPhaseC PROVE Places'
  BY <1>h, <1>1 DEF EndPhaseC, EndRun, Early
<1>i. ASSUME NEW d \in Calls, RunCall(d) PROVE Places'
  <2>1. UNCHANGED <<phase, index>> /\ InFlight(d) /\ \A c \in Calls : c # d => call'[c] = call[c]
    BY <1>i, RunCallTypes
  <2>2. /\ call'[d] # "queued"
        /\ holders' \subseteq holders \cup {d}
        /\ d \in holders' => call'[d] \in {"started", "working"} \/ (d \in holders /\ call'[d] = call[d])
        /\ call[d] # "queued" => holders' \subseteq holders
        /\ holders \subseteq Calls
    BY <1>i DEF RunCall, Enter, GiveUp, Begin, Succeed, Fail, Skip, Set, TypeOK
  <2> QED BY <2>1, <2>2 DEF Places
<1>j. ASSUME BatchPanics \/ \E d \in Calls : Panic(d) PROVE Places'
  BY <1>j, <1>1 DEF Panic, BatchPanics, Early
<1>k. ASSUME NEW p \in Legacy, RunLegacy(p) PROVE Places'
  BY <1>k, <1>1 DEF RunLegacy, LegacyBegin, LegacyEnd, LegacyPanic
<1>l. ASSUME NEW p \in Indexers, RunIndex(p) PROVE Places'
  <2>1. UNCHANGED <<phase, call, holders>> /\ \E t \in {"indexing", "over"} : index' = [index EXCEPT ![p] = t]
    BY <1>l DEF RunIndex, Index, IndexGivesUp, IndexEnd, SetIndex
  <2> QED BY <2>1 DEF Places, TypeOK
<1>m. ASSUME Cancel \/ UNCHANGED vars PROVE Places'
  BY <1>m, <1>1 DEF Cancel, vars
<1> QED
  BY <1>a, <1>b, <1>d, <1>e, <1>f, <1>g, <1>h, <1>i, <1>j, <1>k, <1>l, <1>m, <1>u
     DEF Next, Coordinate, Finished

\* Of the indexers that have not had their turn, one waits for none of the others.
LEMMA FirstIndexer ==
  ASSUME NEW rank \in [Indexers -> Nat],
         \A p \in Indexers : \A q \in Awaited(p) : rank[q] < rank[p],
         NEW T, T \subseteq Indexers, T # {}
  PROVE  \E p \in T : Awaited(p) \cap T = {}
<1> DEFINE Less == OpToRel(<, Nat)
           R == {rank[p] : p \in T}
<1>1. R \subseteq Nat /\ R # {}
  OBVIOUS
<1>2. PICK x \in R : \A y \in R : ~(<<y, x>> \in Less)
  BY <1>1, NatLessThanWellFounded, WFMin
<1>3. \A y \in R : ~(y < x)
  BY <1>1, <1>2 DEF OpToRel
<1>4. PICK p \in T : x = rank[p]
  OBVIOUS
<1>5. ASSUME NEW q \in Awaited(p), q \in T PROVE FALSE
  BY <1>3, <1>4, <1>5
<1> QED BY <1>4, <1>5

\* For dependencies without a cycle (a rank that puts each indexer above those it names,
\* as there is for the names of PostProcessDependsOn), the run is never blocked.
THEOREM RunIsNeverBlocked ==
  ASSUME NEW rank \in [Indexers -> Nat],
         \A p \in Indexers : \A q \in Awaited(p) : rank[q] < rank[p]
  PROVE  Spec => []NeverBlocked
<1>1. Init => Places
  BY DEF Init, Places
<1>2. IInv /\ Places /\ [Next]_vars => Places'
  BY PlacesStep DEF IInv, Safe
<1>3. IInv /\ Places => NeverBlocked
  <2> SUFFICES ASSUME IInv, Places, ~CoordinatorGoesOn
               PROVE  \/ phase \in {"abandon", "wait"} /\ \E c \in Calls : CallGoesOn(c)
                      \/ phase = "join" /\ \E p \in Legacy : legacy[p] \in {"launched", "working"}
                      \/ phase = "phaseC" /\ \E p \in Indexers : IndexerGoesOn(p)
    BY DEF NeverBlocked
  <2>1. CASE phase \in {"abandon", "wait"}
    <3>1. PICK c \in Calls : InFlight(c)
      BY <2>1 DEF CoordinatorGoesOn, CallsOver
    <3>2. CASE holders = {}
      <4>1. Cardinality(holders) < Cap
        BY <3>2, FS_EmptySet, NumbersAssumption
      <4> QED BY <2>1, <3>1, <4>1 DEF CallGoesOn, InFlight
    <3>3. CASE holders # {}
      <4>1. PICK d \in holders : d \in Calls
        BY <3>3 DEF IInv, TypeOK
      <4> QED BY <2>1, <4>1 DEF CallGoesOn, Places
    <3> QED BY <3>2, <3>3
  <2>2. CASE phase = "join"
    BY <2>2 DEF CoordinatorGoesOn, LegacyOver, IInv, TypeOK
  <2>3. CASE phase = "phaseC"
    <3> DEFINE T == {p \in Indexers : index[p] # "over"}
    <3>1. T \subseteq Indexers /\ T # {}
      BY <2>3 DEF CoordinatorGoesOn
    <3>2. PICK p \in T : Awaited(p) \cap T = {}
      BY <3>1, FirstIndexer
    <3>3. \A q \in Awaited(p) : index[q] = "over"
      BY <3>2 DEF Awaited
    <3>4. index[p] \in {"waiting", "indexing"}
      BY <2>3, <3>2 DEF Places, IInv, TypeOK
    <3> QED BY <2>3, <3>2, <3>3, <3>4 DEF IndexerGoesOn
  <2> QED BY <2>1, <2>2, <2>3 DEF CoordinatorGoesOn
<1> QED BY <1>1, <1>2, <1>3, Invariance, PTL DEF Spec
============================================================================
