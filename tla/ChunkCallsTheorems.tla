-------------------------- MODULE ChunkCallsTheorems -------------------------
(* For any extractions, chunks, tasks, models and limits: the permits of a     *)
(* model are counted right, and the status of an extraction tells what rows it *)
(* has left.                                                                   *)
EXTENDS ChunkCalls, FiniteSetTheorems, WellFoundedInduction, TLAPS

\* A job has a permit, held or expired, only while it calls.
CallersHold == \A j \in Jobs : permit[j] # "none" => Calling(j)

\* A job that is over has a result; one that was cut or gave up has met the stop.
ResultsTell ==
  \A j \in Jobs : /\ job[j] = "over" => result[j] # "none"
                  /\ result[j] \in {"cut", "error"} => stopped[j[1]]

\* Rows are saved once all jobs are over; no stop came before the tables were there.
Orderly ==
  \A d \in Docs :
    /\ phase[d] # "extract" => \A j \in JobsOf(d) : job[j] = "over"
    /\ phase[d] \in {"tables", "save", "persist"} => \A j \in JobsOf(d) : result[j] # "error"
    /\ phase[d] \in {"save", "persist"} => \A j \in JobsOf(d) : result[j] \in {"ok", "failed"}
    /\ phase[d] \in {"extract", "tables"} => saved[d] = {}
    /\ phase[d] = "persist" => saved[d] = Extracted(d)
    /\ saved[d] \subseteq Extracted(d)
    /\ phase[d] # "over" => entry[d] = "active"

IInv == TypeOK /\ CallersHold /\ PermitsCounted /\ ResultsTell /\ Orderly /\ EntryTellsRows

USE DEF JobStates

LEMMA JobsFinite == IsFiniteSet(Jobs) /\ \A m : IsFiniteSet(Holding(m))
<1>1. IsFiniteSet(Chunks)
  BY CallsAssumption, FS_Interval DEF Chunks
<1>2. IsFiniteSet(Jobs)
  BY <1>1, CallsAssumption, FS_Product DEF Jobs
<1> QED BY <1>2, FS_Subset DEF Holding

LEMMA JobParts ==
  /\ \A j \in Jobs : Doc(j) = j[1] /\ j[1] \in Docs /\ j[2] \in Chunks /\ j = <<j[1], j[2]>>
  /\ \A d \in Docs : JobsOf(d) \subseteq Jobs /\ \A j \in Jobs : j \in JobsOf(d) <=> j[1] = d
BY DEF Jobs, Doc, JobsOf

LEMMA ModelTyped == ASSUME TypeOK, NEW j \in Jobs PROVE Model(j) \in Models
BY DEF TypeOK, Model, Models

\* What a step of a job does to the jobs.
LEMMA JobMoves ==
  ASSUME TypeOK, NEW j \in Jobs, RunJob(j) \/ CallReturns(j)
  PROVE  /\ job[j] # "over"
         /\ job' \in [Jobs -> JobStates] /\ try' \in [Jobs -> DOMAIN Attempts]
         /\ result' \in [Jobs -> {"none", "ok", "failed", "cut", "error"}]
         /\ \A i \in Jobs : i # j => job'[i] = job[i] /\ try'[i] = try[i] /\ result'[i] = result[i]
         /\ job'[j] = "over" => result'[j] # "none"
         /\ result'[j] # result[j] /\ result'[j] \in {"cut", "error"} => stopped[j[1]]
         /\ UNCHANGED <<stopped, docVars>>
<1>0. Doc(j) = j[1]
  BY DEF Doc
<1>1. ASSUME NEW r \in {"ok", "failed", "cut", "error"}, Over(j, r)
      PROVE  /\ job' = [job EXCEPT ![j] = "over"] /\ result' = [result EXCEPT ![j] = r] /\ try' = try
             /\ job' \in [Jobs -> JobStates] /\ try' \in [Jobs -> DOMAIN Attempts]
             /\ result' \in [Jobs -> {"none", "ok", "failed", "cut", "error"}]
  BY <1>1 DEF TypeOK, Over
<1>2. ASSUME NEW s \in JobStates, Move(j, s)
      PROVE  /\ job' = [job EXCEPT ![j] = s] /\ result' = result /\ try' = try
             /\ job' \in [Jobs -> JobStates] /\ try' \in [Jobs -> DOMAIN Attempts]
             /\ result' \in [Jobs -> {"none", "ok", "failed", "cut", "error"}]
  BY <1>2 DEF TypeOK, Move
<1>3. ASSUME AttemptFails(j)
      PROVE  /\ job' \in [Jobs -> JobStates] /\ try' \in [Jobs -> DOMAIN Attempts]
             /\ result' \in [Jobs -> {"none", "ok", "failed", "cut", "error"}]
             /\ \A i \in Jobs : i # j => job'[i] = job[i] /\ try'[i] = try[i] /\ result'[i] = result[i]
             /\ job'[j] = "over" => result'[j] # "none"
             /\ result'[j] # result[j] /\ result'[j] \in {"cut", "error"} => stopped[j[1]]
  <2>1. CASE try[j] < Len(Attempts)
    <3>1. try[j] + 1 \in DOMAIN Attempts
      BY <2>1, CallsAssumption DEF TypeOK
    <3> QED BY <3>1, <2>1, <1>3 DEF TypeOK, AttemptFails
  <2>2. CASE ~(try[j] < Len(Attempts))
    BY <2>2, <1>0, <1>1, <1>3 DEF TypeOK, AttemptFails, Over
  <2> QED BY <2>1, <2>2
<1>4. CASE Enter(j)
  <2>1. CASE stopped[Doc(j)]
    BY <2>1, <1>4, <1>1, <1>0 DEF Enter, TypeOK
  <2>2. CASE ~stopped[Doc(j)]
    BY <2>2, <1>4, <1>2 DEF Enter, TypeOK
  <2> QED BY <2>1, <2>2
<1>5. CASE GetSlot(j)
  BY <1>5, <1>2 DEF GetSlot, TypeOK
<1>6. CASE Begin(j)
  <2>1. CASE stopped[Doc(j)]
    BY <2>1, <1>6, <1>1, <1>0 DEF Begin, TypeOK
  <2>2. CASE ~stopped[Doc(j)]
    BY <2>2, <1>6, <1>2 DEF Begin, TypeOK
  <2> QED BY <2>1, <2>2
<1>7. CASE Acquire(j)
  BY <1>7, <1>2 DEF Acquire, TypeOK
<1>8. CASE AcquireCanceled(j)
  BY <1>8, <1>3 DEF AcquireCanceled
<1>9. CASE CallReturns(j)
  <2>1. job[j] # "over" /\ UNCHANGED <<stopped, docVars>>
    BY <1>9 DEF CallReturns, Calling
  <2>2. CASE Over(j, "ok")
    BY <2>1, <2>2, <1>1 DEF TypeOK
  <2> QED BY <2>1, <2>2, <1>3, <1>9 DEF CallReturns
<1> QED BY <1>4, <1>5, <1>6, <1>7, <1>8, <1>9 DEF RunJob

----------------------------------------------------------------------------
(* Permits *)

\* A permit more, or one less, is a token more or less.
LEMMA HoldingGrows ==
  ASSUME NEW m, NEW j \in Jobs, j \notin Holding(m)
  PROVE  Cardinality(Holding(m) \cup {j}) = Cardinality(Holding(m)) + 1
BY JobsFinite, FS_AddElement

LEMMA HoldingShrinks ==
  ASSUME NEW m, NEW j \in Holding(m)
  PROVE  Cardinality(Holding(m) \ {j}) = Cardinality(Holding(m)) - 1 /\ Cardinality(Holding(m)) \in Nat \ {0}
BY JobsFinite, FS_RemoveElement, FS_CardinalityType, FS_EmptySet

PermitTypes ==
  permit' \in [Jobs -> {"none", "held", "expired"}] /\ tokens' \in [Models -> Nat]

\* A permit of j is given back: only its model has a token less, if it was held.
LEMMA GivenBack ==
  ASSUME TypeOK, PermitsCounted, NEW j \in Jobs, NEW p \in {"none", "expired"},
         permit' = [permit EXCEPT ![j] = p],
         tokens' = IF permit[j] = "held" THEN [tokens EXCEPT ![Model(j)] = @ - 1] ELSE tokens,
         \A i \in Jobs : i # j => try'[i] = try[i]
  PROVE  PermitTypes /\ PermitsCounted'
<1>0. Model(j) \in Models
  BY ModelTyped
<1>1. \A m \in Models : Holding(m)' = Holding(m) \ {j}
  BY DEF TypeOK, Holding, Model
<1>2. \A m \in Models : j \in Holding(m) <=> permit[j] = "held" /\ m = Model(j)
  BY DEF Holding
<1>3. \A m \in Models : j \notin Holding(m) => Holding(m) \ {j} = Holding(m)
  OBVIOUS
<1>4. \A m \in Models :
        /\ tokens'[m] = (IF j \in Holding(m) THEN tokens[m] - 1 ELSE tokens[m])
        /\ tokens'[m] = Cardinality(Holding(m)') /\ tokens'[m] \in Nat /\ tokens'[m] <= Limit[m]
  <2> SUFFICES ASSUME NEW m \in Models
      PROVE /\ tokens'[m] = (IF j \in Holding(m) THEN tokens[m] - 1 ELSE tokens[m])
            /\ tokens'[m] = Cardinality(Holding(m)') /\ tokens'[m] \in Nat /\ tokens'[m] <= Limit[m]
    OBVIOUS
  <2>1. tokens[m] \in Nat /\ Limit[m] \in Nat /\ tokens[m] = Cardinality(Holding(m)) /\ tokens[m] <= Limit[m]
    BY CallsAssumption DEF TypeOK, PermitsCounted
  <2>2. tokens'[m] = (IF j \in Holding(m) THEN tokens[m] - 1 ELSE tokens[m])
    BY <1>0, <1>2 DEF TypeOK
  <2>3. CASE j \in Holding(m)
    <3>1. Cardinality(Holding(m) \ {j}) = Cardinality(Holding(m)) - 1 /\ Cardinality(Holding(m)) \in Nat \ {0}
      BY <2>3, HoldingShrinks
    <3>2. Cardinality(Holding(m)') = tokens[m] - 1 /\ tokens[m] \in Nat \ {0}
      BY <3>1, <2>1, <1>1
    <3> QED BY <3>2, <2>1, <2>2, <2>3
  <2>4. CASE j \notin Holding(m)
    BY <2>1, <2>2, <2>4, <1>1, <1>3
  <2> QED BY <2>2, <2>3, <2>4
<1>5. permit' \in [Jobs -> {"none", "held", "expired"}]
  BY DEF TypeOK
<1>6. tokens' \in [Models -> Nat]
  <2>1. tokens' = [m \in Models |-> tokens'[m]]
    BY DEF TypeOK
  <2> QED BY <2>1, <1>4
<1> QED BY <1>4, <1>5, <1>6 DEF PermitsCounted, PermitTypes

LEMMA PermitStep ==
  ASSUME TypeOK, CallersHold, PermitsCounted, [Next]_vars
  PROVE  PermitTypes /\ CallersHold' /\ PermitsCounted'
<1>1. CASE UNCHANGED <<permitVars, try, job>>
  BY <1>1 DEF permitVars, TypeOK, PermitTypes, CallersHold, Calling, PermitsCounted, Holding, Model
<1>2. ASSUME NEW j \in Jobs, Acquire(j) PROVE PermitTypes /\ CallersHold' /\ PermitsCounted'
  <2>0. Model(j) \in Models /\ permit[j] = "none" /\ try' = try
    BY <1>2, ModelTyped DEF Acquire, Move, CallersHold, Calling, TypeOK
  <2>1. PermitTypes
    BY <1>2, <2>0 DEF Acquire, TypeOK, PermitTypes
  <2>2. CallersHold'
    <3>1. job' = [job EXCEPT ![j] = IF stopped[Doc(j)] THEN "canceledCall" ELSE "call"]
      BY <1>2 DEF Acquire, Move
    <3> QED BY <3>1, <1>2 DEF Acquire, CallersHold, Calling, TypeOK
  <2>3. ASSUME NEW m \in Models
        PROVE  tokens'[m] = Cardinality(Holding(m)') /\ tokens'[m] <= Limit[m]
    <3>0. tokens[m] \in Nat /\ Limit[m] \in Nat /\ tokens[m] = Cardinality(Holding(m)) /\ tokens[m] <= Limit[m]
      BY CallsAssumption DEF TypeOK, PermitsCounted
    <3>1. CASE m = Model(j)
      <4>1. Holding(m)' = Holding(m) \cup {j} /\ j \notin Holding(m)
        BY <3>1, <2>0, <1>2 DEF Acquire, Holding, Model, TypeOK
      <4>2. tokens'[m] = tokens[m] + 1 /\ tokens[m] < Limit[m]
        BY <3>1, <1>2, <2>0 DEF Acquire, TypeOK
      <4> QED BY <3>0, <4>1, <4>2, HoldingGrows
    <3>2. CASE m # Model(j)
      <4>1. Holding(m)' = Holding(m)
        BY <3>2, <2>0, <1>2 DEF Acquire, Holding, Model, TypeOK
      <4>2. tokens'[m] = tokens[m]
        BY <3>2, <1>2, <2>0 DEF Acquire, TypeOK
      <4> QED BY <3>0, <4>1, <4>2
    <3> QED BY <3>1, <3>2
  <2> QED BY <2>1, <2>2, <2>3 DEF PermitsCounted
<1>3. ASSUME NEW j \in Jobs, CallReturns(j) PROVE PermitTypes /\ CallersHold' /\ PermitsCounted'
  <2>1. \A i \in Jobs : i # j => try'[i] = try[i] /\ job'[i] = job[i]
    BY <1>3, JobMoves
  <2>2. /\ permit' = [permit EXCEPT ![j] = "none"]
        /\ tokens' = IF permit[j] = "held" THEN [tokens EXCEPT ![Model(j)] = @ - 1] ELSE tokens
    BY <1>3 DEF CallReturns, Release
  <2>3. PermitTypes /\ PermitsCounted'
    BY <2>1, <2>2, GivenBack
  <2>4. CallersHold'
    BY <2>1, <2>2 DEF CallersHold, Calling, TypeOK
  <2> QED BY <2>3, <2>4
<1>4. ASSUME NEW j \in Jobs, Expire(j) PROVE PermitTypes /\ CallersHold' /\ PermitsCounted'
  <2>1. /\ permit' = [permit EXCEPT ![j] = "expired"] /\ permit[j] = "held"
        /\ tokens' = [tokens EXCEPT ![Model(j)] = @ - 1] /\ try' = try /\ job' = job
    BY <1>4 DEF Expire, LeaseMayExpire, jobVars
  <2>2. PermitTypes /\ PermitsCounted'
    BY <2>1, GivenBack
  <2>3. CallersHold'
    BY <2>1 DEF CallersHold, Calling, TypeOK
  <2> QED BY <2>2, <2>3
<1>5. ASSUME NEW j \in Jobs, Enter(j) \/ GetSlot(j) \/ Begin(j) \/ AcquireCanceled(j)
      PROVE  PermitTypes /\ CallersHold' /\ PermitsCounted'
  <2>1. \A i \in Jobs : i # j => try'[i] = try[i] /\ job'[i] = job[i]
    BY <1>5, JobMoves DEF RunJob
  <2>2. permit' = permit /\ tokens' = tokens /\ ~Calling(j)
    BY <1>5 DEF Enter, GetSlot, Begin, AcquireCanceled, Calling, permitVars
  <2>3. permit[j] = "none"
    BY <2>2 DEF CallersHold
  <2>4. PermitTypes /\ CallersHold'
    BY <2>1, <2>2, <2>3 DEF PermitTypes, TypeOK, CallersHold, Calling
  <2>5. \A m \in Models : Holding(m)' = Holding(m)
    BY <2>1, <2>2, <2>3 DEF Holding, Model
  <2> QED BY <2>2, <2>4, <2>5 DEF PermitsCounted
<1>6. ASSUME NEW d \in Docs, RunDoc(d) \/ Stop(d) PROVE UNCHANGED <<permitVars, try, job>>
  BY <1>6 DEF RunDoc, Stop, Gather, EnsureTables, SaveRows, SaveFails, Saved, Persist, jobVars
<1> QED BY <1>1, <1>2, <1>3, <1>4, <1>5, <1>6 DEF Next, RunJob, Finished, vars, jobVars

----------------------------------------------------------------------------
(* The initial states, and types *)

LEMMA InitOK == Init => IInv
<1> SUFFICES ASSUME Init PROVE IInv
  OBVIOUS
<1>1. TypeOK
  <2>1. 1 \in DOMAIN Attempts
    BY CallsAssumption
  <2> QED BY <2>1 DEF Init, TypeOK
<1>2. CallersHold
  BY DEF Init, CallersHold
<1>3. PermitsCounted
  <2>1. ASSUME NEW m \in Models PROVE tokens[m] = Cardinality(Holding(m)) /\ tokens[m] <= Limit[m]
    <3>1. Holding(m) = {}
      BY DEF Init, Holding
    <3>2. tokens[m] = 0 /\ Cardinality(Holding(m)) = 0
      BY <3>1, FS_EmptySet DEF Init
    <3> QED BY <3>2, CallsAssumption
  <2> QED BY <2>1 DEF PermitsCounted
<1>4. ResultsTell
  BY DEF Init, ResultsTell
<1>5. Orderly
  BY DEF Init, Orderly, Extracted
<1>6. EntryTellsRows
  BY DEF Init, EntryTellsRows
<1> QED BY <1>1, <1>2, <1>3, <1>4, <1>5, <1>6 DEF IInv

\* What a step of an extraction does to it and to what it has left.
LEMMA DocMoves ==
  ASSUME TypeOK, NEW d \in Docs, RunDoc(d)
  PROVE  /\ phase' \in [Docs -> {"extract", "tables", "save", "persist", "over"}]
         /\ saved' \in [Docs -> SUBSET Chunks]
         /\ entry' \in [Docs -> {"active", "success", "failed", "stopped"}]
         /\ \A e \in Docs : e # d => phase'[e] = phase[e] /\ saved'[e] = saved[e] /\ entry'[e] = entry[e]
         /\ UNCHANGED <<stopped, jobVars, permitVars>>
<1>1. CASE Gather(d)
  BY <1>1 DEF TypeOK, Gather, Finish
<1>2. CASE EnsureTables(d)
  BY <1>2 DEF TypeOK, EnsureTables
<1>3. CASE SaveRows(d)
  <2>1. PICK k \in Chunks : saved' = [saved EXCEPT ![d] = @ \cup {k}]
    BY <1>3 DEF SaveRows, Extracted
  <2> QED BY <2>1, <1>3 DEF TypeOK, SaveRows
<1>4. CASE SaveFails(d)
  BY <1>4 DEF TypeOK, SaveFails, Finish, WriteEntry
<1>5. CASE Saved(d)
  BY <1>5 DEF TypeOK, Saved
<1>6. CASE Persist(d)
  BY <1>6 DEF TypeOK, Persist, Finish, WriteEntry
<1> QED BY <1>1, <1>2, <1>3, <1>4, <1>5, <1>6 DEF RunDoc

LEMMA TypeStep ==
  ASSUME TypeOK, PermitTypes, [Next]_vars
  PROVE  TypeOK'
<1>1. ASSUME NEW j \in Jobs, RunJob(j) \/ CallReturns(j) PROVE TypeOK'
  BY <1>1, JobMoves DEF TypeOK, PermitTypes, docVars
<1>2. ASSUME NEW j \in Jobs, Expire(j) PROVE TypeOK'
  BY <1>2 DEF TypeOK, PermitTypes, Expire, docVars, jobVars
<1>3. ASSUME NEW d \in Docs, RunDoc(d) PROVE TypeOK'
  BY <1>3, DocMoves DEF TypeOK, jobVars, permitVars
<1>4. ASSUME NEW d \in Docs, Stop(d) PROVE TypeOK'
  BY <1>4 DEF TypeOK, Stop, docVars, jobVars, permitVars
<1>5. CASE UNCHANGED vars
  BY <1>5 DEF TypeOK, vars, docVars, jobVars, permitVars
<1> QED BY <1>1, <1>2, <1>3, <1>4, <1>5 DEF Next, Finished

----------------------------------------------------------------------------
(* Rows and status *)

LEMMA ResultsStep ==
  ASSUME TypeOK, ResultsTell, [Next]_vars
  PROVE  ResultsTell'
<1>1. ASSUME NEW j \in Jobs, RunJob(j) \/ CallReturns(j) PROVE ResultsTell'
  <2>1. stopped' = stopped
    BY <1>1, JobMoves
  <2> QED BY <1>1, <2>1, JobMoves DEF ResultsTell
<1>2. ASSUME NEW d \in Docs, Stop(d) PROVE ResultsTell'
  BY <1>2, JobParts DEF ResultsTell, Stop, jobVars, TypeOK
<1>3. ASSUME UNCHANGED <<stopped, job, result>> PROVE ResultsTell'
  BY <1>3 DEF ResultsTell
<1>4. ASSUME NEW d \in Docs, RunDoc(d) PROVE UNCHANGED <<stopped, job, result>>
  BY <1>4, DocMoves DEF jobVars
<1>5. ASSUME NEW j \in Jobs, Expire(j) PROVE UNCHANGED <<stopped, job, result>>
  BY <1>5 DEF Expire, jobVars
<1> QED BY <1>1, <1>2, <1>3, <1>4, <1>5 DEF Next, Finished, vars, jobVars

LEMMA OrderlyStep ==
  ASSUME TypeOK, ResultsTell, Orderly, EntryTellsRows, [Next]_vars
  PROVE  Orderly' /\ EntryTellsRows'
<1>1. ASSUME NEW j \in Jobs, RunJob(j) \/ CallReturns(j) PROVE Orderly' /\ EntryTellsRows'
  <2>0. UNCHANGED <<stopped, phase, saved, entry>> /\ job[j] # "over" /\ j[1] \in Docs /\ j \in JobsOf(j[1])
    BY <1>1, JobMoves, JobParts DEF docVars
  <2>1. phase[j[1]] = "extract" /\ saved[j[1]] = {} /\ entry[j[1]] = "active"
    BY <2>0 DEF Orderly, TypeOK
  <2>2. ASSUME NEW d \in Docs, d # j[1]
        PROVE  Extracted(d)' = Extracted(d) /\ \A i \in JobsOf(d) : job'[i] = job[i] /\ result'[i] = result[i]
    <3>1. \A i \in JobsOf(d) : i \in Jobs /\ i # j
      BY <2>2, JobParts
    <3>2. \A k \in Chunks : <<d, k>> \in JobsOf(d)
      BY DEF JobsOf
    <3>3. \A i \in JobsOf(d) : job'[i] = job[i] /\ result'[i] = result[i]
      BY <1>1, <3>1, JobMoves
    <3> QED BY <3>2, <3>3 DEF Extracted
  <2>3. Orderly'
    BY <2>0, <2>1, <2>2 DEF Orderly
  <2>4. EntryTellsRows'
    BY <2>0, <2>1, <2>2 DEF EntryTellsRows
  <2> QED BY <2>3, <2>4
<1>2. ASSUME NEW d \in Docs, RunDoc(d) PROVE Orderly' /\ EntryTellsRows'
  <2>0. /\ UNCHANGED <<stopped, job, result>>
        /\ \A e \in Docs : e # d => phase'[e] = phase[e] /\ saved'[e] = saved[e] /\ entry'[e] = entry[e]
        /\ \A e \in Docs : Extracted(e)' = Extracted(e)
    BY <1>2, DocMoves DEF jobVars, Extracted
  <2>1. \A i \in JobsOf(d) : i \in Jobs /\ i[1] = d
    BY JobParts
  <2> DEFINE Now == /\ phase'[d] # "extract" => \A i \in JobsOf(d) : job[i] = "over"
                    /\ phase'[d] \in {"tables", "save", "persist"} => \A i \in JobsOf(d) : result[i] # "error"
                    /\ phase'[d] \in {"save", "persist"} => \A i \in JobsOf(d) : result[i] \in {"ok", "failed"}
                    /\ phase'[d] \in {"extract", "tables"} => saved'[d] = {}
                    /\ phase'[d] = "persist" => saved'[d] = Extracted(d)
                    /\ saved'[d] \subseteq Extracted(d)
                    /\ phase'[d] # "over" => entry'[d] = "active"
             Tells == /\ entry'[d] = "success" => /\ saved'[d] = Extracted(d)
                                                  /\ \A i \in JobsOf(d) : result[i] \in {"ok", "failed"}
                      /\ entry'[d] = "stopped" => stopped[d] /\ saved'[d] = {}
  <2>2. ASSUME Gather(d) PROVE Now /\ Tells
    <3>1. \A i \in JobsOf(d) : job[i] = "over"
      BY <2>2 DEF Gather
    <3>2. phase[d] = "extract" /\ saved[d] = {} /\ saved' = saved /\ entry[d] = "active"
      BY <2>2 DEF Gather, Orderly
    <3>3. CASE \E i \in JobsOf(d) : result[i] = "error"
      <4>1. stopped[d]
        BY <3>3, <2>1 DEF ResultsTell
      <4>2. phase'[d] = "over" /\ entry'[d] \in {"active", "stopped"}
        BY <3>3, <3>2, <2>2 DEF Gather, Finish, TypeOK
      <4> QED BY <3>1, <3>2, <4>1, <4>2
    <3>4. CASE \A i \in JobsOf(d) : result[i] # "error"
      <4>1. phase'[d] = "tables" /\ entry'[d] = "active"
        BY <3>4, <3>2, <2>2 DEF Gather, TypeOK
      <4> QED BY <3>1, <3>2, <3>4, <4>1
    <3> QED BY <3>3, <3>4
  <2>3. ASSUME EnsureTables(d) PROVE Now /\ Tells
    <3>1. phase'[d] = "save" /\ phase[d] = "tables" /\ ~stopped[d] /\ saved' = saved /\ entry' = entry
      BY <2>3 DEF EnsureTables, TypeOK
    <3>2. \A i \in JobsOf(d) : job[i] = "over" /\ result[i] # "error"
      BY <3>1 DEF Orderly
    <3>3. \A i \in JobsOf(d) : result[i] \in {"ok", "failed"}
      BY <3>1, <3>2, <2>1 DEF ResultsTell, TypeOK
    <3> QED BY <3>1, <3>2, <3>3 DEF Orderly
  <2>4. ASSUME SaveRows(d) PROVE Now /\ Tells
    <3>1. PICK k \in Extracted(d) : saved' = [saved EXCEPT ![d] = @ \cup {k}]
      BY <2>4 DEF SaveRows
    <3>2. phase[d] = "save" /\ phase' = phase /\ entry' = entry
      BY <2>4 DEF SaveRows
    <3>3. saved'[d] = saved[d] \cup {k}
      BY <3>1 DEF TypeOK
    <3> QED BY <3>2, <3>3 DEF Orderly
  <2>5. ASSUME SaveFails(d) PROVE Now /\ Tells
    <3>1. phase'[d] = "over" /\ saved' = saved /\ entry'[d] \in {"active", "failed"} /\ phase[d] \in {"tables", "save"}
      BY <2>5 DEF SaveFails, Finish, WriteEntry, TypeOK, Orderly
    <3> QED BY <3>1 DEF Orderly
  <2>6. ASSUME Saved(d) PROVE Now /\ Tells
    <3>1. phase'[d] = "persist" /\ phase[d] = "save" /\ saved' = saved /\ entry' = entry /\ Extracted(d) \subseteq saved[d]
      BY <2>6 DEF Saved, TypeOK
    <3> QED BY <3>1 DEF Orderly
  <2>7. ASSUME Persist(d) PROVE Now /\ Tells
    <3>1. phase'[d] = "over" /\ phase[d] = "persist" /\ saved' = saved /\ entry'[d] \in {"active", "success"}
      BY <2>7 DEF Persist, Finish, WriteEntry, TypeOK, Orderly
    <3> QED BY <3>1 DEF Orderly
  <2>8. Now /\ Tells
    BY <1>2, <2>2, <2>3, <2>4, <2>5, <2>6, <2>7 DEF RunDoc
  <2>9. Orderly'
    BY <2>0, <2>8 DEF Orderly
  <2>10. EntryTellsRows'
    BY <2>0, <2>8 DEF EntryTellsRows
  <2> QED BY <2>9, <2>10
<1>3. ASSUME NEW d \in Docs, Stop(d) PROVE Orderly' /\ EntryTellsRows'
  <2>1. UNCHANGED <<job, result, phase, saved, entry>> /\ \A e \in Docs : stopped[e] => stopped'[e]
    BY <1>3 DEF Stop, jobVars, docVars, TypeOK
  <2> QED BY <2>1 DEF Orderly, EntryTellsRows, Extracted
<1>4. ASSUME UNCHANGED <<stopped, job, result, phase, saved, entry>> PROVE Orderly' /\ EntryTellsRows'
  BY <1>4 DEF Orderly, EntryTellsRows, Extracted
<1>5. ASSUME NEW j \in Jobs, Expire(j) PROVE UNCHANGED <<stopped, job, result, phase, saved, entry>>
  BY <1>5 DEF Expire, jobVars, docVars
<1> QED BY <1>1, <1>2, <1>3, <1>4, <1>5 DEF Next, Finished, vars, jobVars, docVars

----------------------------------------------------------------------------
(* The theorems *)

LEMMA Step == IInv /\ [Next]_vars => IInv'
<1> SUFFICES ASSUME IInv, [Next]_vars PROVE IInv'
  OBVIOUS
<1> USE DEF IInv
<1>1. PermitTypes /\ CallersHold' /\ PermitsCounted'
  BY PermitStep
<1>2. TypeOK'
  BY <1>1, TypeStep
<1>3. ResultsTell' /\ Orderly' /\ EntryTellsRows'
  BY ResultsStep, OrderlyStep
<1> QED BY <1>1, <1>2, <1>3

\* All of the invariant holds in every reachable state.
THEOREM Invariance == Spec => []IInv
BY InitOK, Step, PTL DEF Spec

\* The variables have their types.
THEOREM Typing == Spec => []TypeOK
<1>1. IInv => TypeOK
  BY DEF IInv
<1> QED BY <1>1, Invariance, PTL

\* A permit channel holds a token for each permit that is held, and no more than its
\* limit, though timers and calls both give permits back.
THEOREM PermitsAreCounted == Spec => []PermitsCounted
<1>1. IInv => PermitsCounted
  BY DEF IInv
<1> QED BY <1>1, Invariance, PTL

\* The status of an extraction tells what rows it has left.
THEOREM StatusIsTrue == Spec => []EntryTellsRows
<1>1. IInv => EntryTellsRows
  BY DEF IInv
<1> QED BY <1>1, Invariance, PTL

----------------------------------------------------------------------------
(* Nobody waits for ever *)

\* What a job waits for has come, is the answer to its own call, or is a permit that
\* the timer of another call may free.
JobGoesOn(j) ==
  \/ job[j] = "ready" /\ (Sequential(Doc(j)) =>
                             \A i \in JobsOf(Doc(j)) : i[2] < j[2] => job[i] = "over")
  \/ job[j] = "slot" /\ Cardinality(InSlot(Doc(j))) < Tasks[Doc(j)]
  \/ job[j] = "begin" \/ Calling(j)
  \/ job[j] = "permit" /\ (tokens[Model(j)] < Limit[Model(j)]
                              \/ \E i \in Holding(Model(j)) : LeaseMayExpire(i))

\* The next row to be inserted.
Insertable(d, k) ==
  k \in Extracted(d) \ saved[d] /\ \A i \in Extracted(d) : i < k => i \in saved[d]

\* An extraction whose jobs are not over has one that can go on, and waits for no call
\* of another extraction: the semaphore of its tasks and the permits of its models are
\* not lost, and its chunks are in order. One that saves has a row to insert unless all
\* are. This is the part of ExtractionsEnd that needs no fairness.
NeverBlocked ==
  \A d \in Docs :
    /\ \/ \A j \in JobsOf(d) : job[j] = "over"
       \/ \E j \in JobsOf(d) : JobGoesOn(j)
    /\ \/ Extracted(d) \subseteq saved[d]
       \/ \E k \in Chunks : Insertable(d, k)

\* Of some chunks one is the first.
LEMMA FirstChunk ==
  ASSUME NEW K, K \subseteq Chunks, K # {}
  PROVE  \E k \in K : \A i \in K : k <= i
<1>1. \A i \in K : i \in Int /\ 1 <= i
  BY CallsAssumption DEF Chunks
<1>2. K \subseteq Nat
  BY <1>1
<1> DEFINE Less == OpToRel(<, Nat)
<1>3. PICK k \in K : \A i \in K : ~(<<i, k>> \in Less)
  BY <1>2, NatLessThanWellFounded, WFMin
<1>4. \A i \in K : ~(i < k)
  BY <1>2, <1>3 DEF OpToRel
<1> QED BY <1>2, <1>4

\* Permits that are all taken are held, and a timer of theirs may expire.
LEMMA SomePermitExpires ==
  ASSUME TypeOK, PermitsCounted, NEW m \in Models, ~(tokens[m] < Limit[m])
  PROVE  \E i \in Holding(m) : LeaseMayExpire(i)
<1>1. Limit[m] \in Nat \ {0} /\ tokens[m] \in Nat /\ tokens[m] = Cardinality(Holding(m))
  BY CallsAssumption DEF TypeOK, PermitsCounted
<1>2. Holding(m) # {}
  BY <1>1, FS_EmptySet
<1> QED BY <1>2 DEF Holding, LeaseMayExpire

LEMMA JobsNotBlocked ==
  ASSUME TypeOK, PermitsCounted, NEW d \in Docs, NEW b \in JobsOf(d), job[b] # "over"
  PROVE  \E j \in JobsOf(d) : JobGoesOn(j)
<1>0. \A j \in JobsOf(d) : j \in Jobs /\ Doc(j) = d /\ j = <<d, j[2]>> /\ j[2] \in Chunks
  BY JobParts
<1>1. CASE InSlot(d) # {}
  <2>1. PICK j \in JobsOf(d) : job[j] \in {"begin", "permit", "call", "canceledCall"}
    BY <1>1 DEF InSlot
  <2>2. CASE job[j] = "permit" /\ ~(tokens[Model(j)] < Limit[Model(j)])
    <3>1. \E i \in Holding(Model(j)) : LeaseMayExpire(i)
      BY <1>0, <2>2, ModelTyped, SomePermitExpires
    <3> QED BY <2>2, <3>1 DEF JobGoesOn
  <2> QED BY <2>1, <2>2 DEF JobGoesOn, Calling
<1>2. CASE InSlot(d) = {} /\ \E j \in JobsOf(d) : job[j] = "slot"
  <2>1. PICK j \in JobsOf(d) : job[j] = "slot"
    BY <1>2
  <2>2. Cardinality({}) = 0 /\ 0 < Tasks[d]
    BY FS_EmptySet, CallsAssumption
  <2>3. Doc(j) = d /\ Cardinality(InSlot(Doc(j))) < Tasks[Doc(j)]
    BY <1>0, <1>2, <2>2
  <2> QED BY <2>1, <2>3 DEF JobGoesOn
<1>3. CASE InSlot(d) = {} /\ \A j \in JobsOf(d) : job[j] # "slot"
  <2> DEFINE K == {k \in Chunks : job[<<d, k>>] # "over"}
  <2>1. b[2] \in K
    BY <1>0
  <2>2. PICK k \in K : \A i \in K : k <= i
    BY <2>1, FirstChunk
  <2>3. <<d, k>> \in JobsOf(d) /\ <<d, k>>[2] = k /\ job[<<d, k>>] # "over"
    BY <2>2 DEF JobsOf
  <2>4. job[<<d, k>>] = "ready"
    BY <1>0, <1>3, <2>3 DEF InSlot, TypeOK
  <2>5. \A i \in JobsOf(d) : i[2] < k => job[i] = "over"
    <3> SUFFICES ASSUME NEW i \in JobsOf(d), i[2] < k, job[i] # "over" PROVE FALSE
      OBVIOUS
    <3>1. i[2] \in K /\ i[2] \in Int /\ k \in Int
      BY <1>0, <2>2, CallsAssumption DEF Chunks
    <3> QED BY <2>2, <3>1
  <2> QED BY <1>0, <2>3, <2>4, <2>5 DEF JobGoesOn
<1> QED BY <1>1, <1>2, <1>3

\* For any extractions, chunks, tasks, models and limits, no extraction waits for the
\* answer to a call that is not its own.
THEOREM ExtractionsAreNeverBlocked == Spec => []NeverBlocked
<1>1. IInv => NeverBlocked
  <2> SUFFICES ASSUME IInv, NEW d \in Docs
               PROVE  /\ \/ \A j \in JobsOf(d) : job[j] = "over"
                         \/ \E j \in JobsOf(d) : JobGoesOn(j)
                      /\ \/ Extracted(d) \subseteq saved[d]
                         \/ \E k \in Chunks : Insertable(d, k)
    BY DEF NeverBlocked
  <2>1. \/ \A j \in JobsOf(d) : job[j] = "over"
        \/ \E j \in JobsOf(d) : JobGoesOn(j)
    BY JobsNotBlocked DEF IInv
  <2>2. ASSUME ~(Extracted(d) \subseteq saved[d]) PROVE \E k \in Chunks : Insertable(d, k)
    <3>1. Extracted(d) \ saved[d] \subseteq Chunks /\ Extracted(d) \ saved[d] # {}
      BY <2>2 DEF Extracted
    <3>2. PICK k \in Extracted(d) \ saved[d] : \A i \in Extracted(d) \ saved[d] : k <= i
      BY <3>1, FirstChunk
    <3>3. \A i \in Chunks : i \in Int
      BY CallsAssumption DEF Chunks
    <3> QED BY <3>1, <3>2, <3>3 DEF Insertable, Extracted
  <2> QED BY <2>1, <2>2
<1> QED BY <1>1, Invariance, PTL
============================================================================
