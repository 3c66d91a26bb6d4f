------------------------------ MODULE ChunkCalls -----------------------------
(* Extractions that call a model once per chunk: entity extraction of the      *)
(* doc-processor (server/api/doc-processing: entity-relation-split.go,         *)
(* extract-entity-relation.go), over runConcurrent (chunk_summary_shared.go)   *)
(* and the permits per model (llm_call_controller.go).                         *)
(*                                                                             *)
(* An extraction runs a job per chunk, a bounded number at a time. A job calls *)
(* the primary model and, if that fails, the fallback model, each time with a  *)
(* permit of that model. A permit that is kept for too long is taken back by a *)
(* timer, the call going on. A chunk both models fail on is left out. When all *)
(* jobs are over the rows of the chunks are inserted one by one, and the       *)
(* status of the extraction is written. A stop of the run cancels the context  *)
(* of an extraction at any time.                                               *)
EXTENDS Integers, Sequences, FiniteSets

CONSTANTS
  Docs,      \* the extractions in progress
  NChunks,   \* the chunks of each document
  Tasks,     \* EXTRACT_ENTITY_RELATION_MAX_TASKS, for each extraction
  Attempts,  \* the models a chunk is tried on: the primary and perhaps a fallback
  Limit,     \* the permits of each model
  Hanging    \* the extractions whose calls may never return (only fairness tells them)

Models == {Attempts[i] : i \in DOMAIN Attempts}
Chunks == 1..NChunks
Jobs == Docs \X Chunks

ASSUME CallsAssumption ==
  /\ IsFiniteSet(Docs) /\ Hanging \subseteq Docs
  /\ NChunks \in Nat \ {0}
  /\ Tasks \in [Docs -> Nat \ {0}]
  /\ Attempts \in Seq(Models) /\ Attempts # <<>>
  /\ Limit \in [Models -> Nat \ {0}]

VARIABLES
  stopped,  \* the context of an extraction is canceled, by a stop
  phase,    \* where an extraction is
  job,      \* where a job is
  try,      \* which attempt of Attempts it is at
  result,   \* what became of its chunk
  permit,   \* the permit of its current attempt
  tokens,   \* the length of the permit channel of a model
  saved,    \* the chunks whose rows are in kb.entities
  entry     \* the status entry of an extraction

jobVars == <<job, try, result>>
permitVars == <<permit, tokens>>
docVars == <<phase, saved, entry>>
vars == <<stopped, jobVars, permitVars, docVars>>

JobStates == {"ready", "slot", "begin", "permit", "call", "canceledCall", "over"}

TypeOK ==
  /\ stopped \in [Docs -> BOOLEAN]
  /\ phase \in [Docs -> {"extract", "tables", "save", "persist", "over"}]
  /\ job \in [Jobs -> JobStates]
  /\ try \in [Jobs -> DOMAIN Attempts]
  /\ result \in [Jobs -> {"none", "ok", "failed", "cut", "error"}]
  /\ permit \in [Jobs -> {"none", "held", "expired"}]
  /\ tokens \in [Models -> Nat]
  /\ saved \in [Docs -> SUBSET Chunks]
  /\ entry \in [Docs -> {"active", "success", "failed", "stopped"}]

Init ==
  /\ stopped = [d \in Docs |-> FALSE]
  /\ phase = [d \in Docs |-> "extract"]
  /\ job = [j \in Jobs |-> "ready"] /\ try = [j \in Jobs |-> 1]
  /\ result = [j \in Jobs |-> "none"]
  /\ permit = [j \in Jobs |-> "none"] /\ tokens = [m \in Models |-> 0]
  /\ saved = [d \in Docs |-> {}]
  /\ entry = [d \in Docs |-> "active"]

Doc(j) == j[1]
Model(j) == Attempts[try[j]]
JobsOf(d) == {d} \X Chunks
Extracted(d) == {k \in Chunks : result[<<d, k>>] = "ok"}

----------------------------------------------------------------------------
(* A job of runConcurrent *)

\* With one task, or one chunk, runConcurrent is a plain loop.
Sequential(d) == Tasks[d] = 1 \/ NChunks = 1

\* The job is over, with this result.
Over(j, r) ==
  /\ job' = [job EXCEPT ![j] = "over"]
  /\ result' = [result EXCEPT ![j] = r]
  /\ UNCHANGED try

Move(j, state) == job' = [job EXCEPT ![j] = state] /\ UNCHANGED <<try, result>>

\* The context is looked at: by the loop before each chunk, or by each goroutine.
Enter(j) ==
  /\ job[j] = "ready"
  /\ Sequential(Doc(j)) => \A i \in JobsOf(Doc(j)) : i[2] < j[2] => job[i] = "over"
  /\ IF stopped[Doc(j)] THEN Over(j, "error")
     ELSE Move(j, IF Sequential(Doc(j)) THEN "begin" ELSE "slot")
  /\ UNCHANGED <<stopped, permitVars, docVars>>

InSlot(d) == {j \in JobsOf(d) : job[j] \in {"begin", "permit", "call", "canceledCall"}}

\* A place in the semaphore.
GetSlot(j) ==
  /\ job[j] = "slot" /\ Cardinality(InSlot(Doc(j))) < Tasks[Doc(j)]
  /\ Move(j, "begin")
  /\ UNCHANGED <<stopped, permitVars, docVars>>

\* The function of the job asks once more whether the run is stopped.
Begin(j) ==
  /\ job[j] = "begin"
  /\ IF stopped[Doc(j)] THEN Over(j, "error") ELSE Move(j, "permit")
  /\ UNCHANGED <<stopped, permitVars, docVars>>

----------------------------------------------------------------------------
(* Permits and calls *)

\* Acquire sends to the permit channel. The select may do so though the context is
\* done: the call that follows is then canceled from the start.
Acquire(j) ==
  /\ job[j] = "permit" /\ tokens[Model(j)] < Limit[Model(j)]
  /\ tokens' = [tokens EXCEPT ![Model(j)] = @ + 1]
  /\ permit' = [permit EXCEPT ![j] = "held"]
  /\ Move(j, IF stopped[Doc(j)] THEN "canceledCall" ELSE "call")
  /\ UNCHANGED <<stopped, docVars>>

\* The attempt has failed: the next model is tried, whether or not the run is stopped.
\* A chunk on which the last one fails is left out.
AttemptFails(j) ==
  IF try[j] < Len(Attempts)
  THEN /\ try' = [try EXCEPT ![j] = @ + 1]
       /\ job' = [job EXCEPT ![j] = "permit"]
       /\ UNCHANGED result
  ELSE Over(j, IF stopped[Doc(j)] THEN "cut" ELSE "failed")

\* The context is done while it waits for a permit.
AcquireCanceled(j) ==
  /\ job[j] = "permit" /\ stopped[Doc(j)]
  /\ AttemptFails(j)
  /\ UNCHANGED <<stopped, permitVars, docVars>>

\* Seeded fault: the permit is given back though the timer has done so.
ReleaseTwice(j) ==
  /\ tokens' = [tokens EXCEPT ![Model(j)] = IF @ > 0 THEN @ - 1 ELSE @]
  /\ permit' = [permit EXCEPT ![j] = "none"]

\* The deferred Release: it does nothing if the timer has given the permit back.
Release(j) ==
  /\ tokens' = IF permit[j] = "held" THEN [tokens EXCEPT ![Model(j)] = @ - 1] ELSE tokens
  /\ permit' = [permit EXCEPT ![j] = "none"]

Calling(j) == job[j] \in {"call", "canceledCall"}

CallReturns(j) ==
  /\ Calling(j)
  /\ \/ job[j] = "call" /\ Over(j, "ok")
     \/ AttemptFails(j)
  /\ Release(j)
  /\ UNCHANGED <<stopped, docVars>>

\* Seeded fault: a timer that never fires.
NoLease(j) == FALSE

\* Seeded fault: the timer takes back a permit that is already back.
LeaseOfAnyPermit(j) == permit[j] # "none"

LeaseMayExpire(j) == permit[j] = "held"

\* The timer of the permit: the call goes on without it.
Expire(j) ==
  /\ LeaseMayExpire(j)
  /\ tokens' = [tokens EXCEPT ![Model(j)] = @ - 1]
  /\ permit' = [permit EXCEPT ![j] = "expired"]
  /\ UNCHANGED <<stopped, jobVars, docVars>>

----------------------------------------------------------------------------
(* handleEntityExtraction, once the jobs are over *)

\* The status of the extraction is written with the context of the run: not once that
\* is done. A failure to write it is only logged.
WriteEntry(d, status) ==
  \/ UNCHANGED entry
  \/ ~stopped[d] /\ entry' = [entry EXCEPT ![d] = status]

Finish(d) == phase' = [phase EXCEPT ![d] = "over"]

\* A job that saw the stop makes the extraction a stopped one, which is written with a
\* context of its own. Otherwise what was extracted is saved.
Gather(d) ==
  /\ phase[d] = "extract" /\ \A j \in JobsOf(d) : job[j] = "over"
  /\ IF \E j \in JobsOf(d) : result[j] = "error"
     THEN /\ Finish(d)
          /\ UNCHANGED entry \/ entry' = [entry EXCEPT ![d] = "stopped"]
     ELSE /\ phase' = [phase EXCEPT ![d] = "tables"]
          /\ UNCHANGED entry
  /\ UNCHANGED <<stopped, jobVars, permitVars, saved>>

\* SaveEntities makes sure of the tables first.
EnsureTables(d) ==
  /\ phase[d] = "tables" /\ ~stopped[d]
  /\ phase' = [phase EXCEPT ![d] = "save"]
  /\ UNCHANGED <<stopped, jobVars, permitVars, saved, entry>>

\* It inserts the rows in the order of the chunks, each with a statement of its own.
SaveRows(d) ==
  /\ phase[d] = "save" /\ ~stopped[d]
  /\ \E k \in Extracted(d) \ saved[d] :
       /\ \A i \in Extracted(d) : i < k => i \in saved[d]
       /\ saved' = [saved EXCEPT ![d] = @ \cup {k}]
  /\ UNCHANGED <<stopped, jobVars, permitVars, phase, entry>>

\* Seeded fault: as for the file and the search index, a failure is logged and the
\* extraction goes on.
WarnSaveFails(d) ==
  /\ phase[d] \in {"tables", "save"}
  /\ phase' = [phase EXCEPT ![d] = "persist"]
  /\ UNCHANGED <<stopped, jobVars, permitVars, saved, entry>>

\* A statement fails, for the stop or by itself; the rows before it stay.
SaveFails(d) ==
  /\ phase[d] \in {"tables", "save"}
  /\ Finish(d)
  /\ WriteEntry(d, "failed")
  /\ UNCHANGED <<stopped, jobVars, permitVars, saved>>

Saved(d) ==
  /\ phase[d] = "save" /\ Extracted(d) \subseteq saved[d]
  /\ phase' = [phase EXCEPT ![d] = "persist"]
  /\ UNCHANGED <<stopped, jobVars, permitVars, saved, entry>>

Persist(d) ==
  /\ phase[d] = "persist"
  /\ Finish(d)
  /\ WriteEntry(d, "success")
  /\ UNCHANGED <<stopped, jobVars, permitVars, saved>>

Stop(d) ==
  /\ phase[d] # "over" /\ ~stopped[d]
  /\ stopped' = [stopped EXCEPT ![d] = TRUE]
  /\ UNCHANGED <<jobVars, permitVars, docVars>>

RunJob(j) == Enter(j) \/ GetSlot(j) \/ Begin(j) \/ Acquire(j) \/ AcquireCanceled(j)
RunDoc(d) ==
  \/ Gather(d) \/ EnsureTables(d) \/ SaveRows(d) \/ SaveFails(d) \/ Saved(d) \/ Persist(d)

AllOver == \A d \in Docs : phase[d] = "over"
Finished == AllOver /\ UNCHANGED vars

Next ==
  \/ \E j \in Jobs : RunJob(j) \/ CallReturns(j) \/ Expire(j)
  \/ \E d \in Docs : RunDoc(d) \/ Stop(d)
  \/ Finished

Spec == Init /\ [][Next]_vars

\* Goroutines and timers go on, and those that wait for a channel are served in turn;
\* a call returns except where it may hang.
Fairness ==
  /\ \A j \in Jobs : SF_vars(RunJob(j)) /\ WF_vars(Expire(j))
  /\ \A j \in (Docs \ Hanging) \X Chunks : WF_vars(CallReturns(j))
  /\ \A d \in Docs : WF_vars(RunDoc(d))

FairSpec == Spec /\ Fairness

----------------------------------------------------------------------------
(* Properties *)

Holding(m) == {j \in Jobs : permit[j] = "held" /\ Model(j) = m}

\* The permit channel of a model holds a token for each permit that is still held, and
\* never more than its limit: a call whose permit the timer took back gives back none,
\* though by then another call may have put its own token in the channel.
PermitsCounted ==
  \A m \in Models : tokens[m] = Cardinality(Holding(m)) /\ tokens[m] <= Limit[m]

\* The status of an extraction tells what is in kb.entities. A success has the rows of
\* every chunk but those the models themselves failed on, none left out for a stop;
\* a stopped extraction has none, whichever job saw the stop and whatever the others
\* were doing.
EntryTellsRows ==
  \A d \in Docs :
    /\ entry[d] = "success" =>
         /\ saved[d] = Extracted(d)
         /\ \A j \in JobsOf(d) : result[j] \in {"ok", "failed"}
    /\ entry[d] = "stopped" => stopped[d] /\ saved[d] = {}

\* An extraction ends though the calls of another one hang for ever with the permits of
\* the models it needs.
ExtractionsEnd == \A d \in Docs \ Hanging : <>(phase[d] = "over")
============================================================================
