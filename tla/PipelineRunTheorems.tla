-------------------------- MODULE PipelineRunTheorems ------------------------
(* For any processors and bounds: a run that nobody interferes with loses no   *)
(* status write, an old stop request does not stop a new run, and a stop wins  *)
(* over every other outcome.                                                   *)
EXTENDS PipelineRun, TLAPS

\* What a processor is about to write as its status is one.
HasStatus == \A p \in Procs : ppc[p] \in {"ownStop", "settle"} => result[p] \in Final

BeforeProcs == {"clear", "routing", "waiting", "admitted", "reset", "announce"}
Running == {"activate", "name", "work", "ownStop", "settle"}
Indexing == {"over", "indexFail", "indexed", "indexFailed"}

\* Where the processors are, as the coordinator goes along.
Stages ==
  /\ cpc \in {"off", "finish", "clearEnd"} => \A p \in Procs : ppc[p] \notin Running \cup {"indexFail"}
  /\ cpc = "finish" /\ ~stopped => \A p \in Procs : ppc[p] \in Indexing
  /\ cpc \in BeforeProcs => idx = 1 /\ \A p \in Procs : ppc[p] = "idle"
  /\ cpc = "sequential" =>
       /\ \A p \in Procs : ppc[p] \in {"idle", "over"}
                           \/ (idx > 1 /\ p = Sequential[idx - 1] /\ ppc[p] \in Running)
       /\ \A i \in 1..(idx - 1) : ppc[Sequential[i]] # "idle"
       /\ \A p \in PhaseB : ppc[p] = "idle"
  /\ cpc = "phaseB" => /\ \A p \in SequentialProcs : ppc[p] = "over"
                       /\ \A p \in PhaseB : ppc[p] \in Running \cup {"over"}
  /\ cpc \in {"announceC", "enterC"} => \A p \in Procs : ppc[p] = "over"
  /\ cpc = "phaseC" => /\ \A p \in Procs : ppc[p] \in Indexing
                       /\ ppc[Sequential[1]] = "over"

\* The lock is held by one writer, which is about to write.
Locked == (\A w \in lock : Writing[w]) /\ \A v, w \in lock : v = w

\* While the web server keeps away, the run is not stopped, its flag stays cleared, and
\* the row is what the holder of the lock has read.
Alone ==
  /\ cpc = "clear" => ~ctxDone
  /\ Live /\ ~touched =>
       /\ ~WebWrites /\ ~ctxDone /\ ~stopped
       /\ cpc # "clear" => ~row.stop
       /\ \A w \in lock : snap[w] = row

\* The entries of the row then tell where the processors are.
Entries ==
  Live /\ ~touched =>
    \A p \in Procs :
      /\ ppc[p] # "ownStop"
      /\ ppc[p] \in {"name", "work", "settle"} => row.entry[p] = "active"
      /\ ppc[p] \in {"over", "indexed", "indexFail"} =>
           row.entry[p] = IF result[p] = "panicked" THEN "active" ELSE result[p]
      /\ ppc[p] = "indexFailed" => row.entry[p] = "failed"

IInv == TypeOK /\ HasStatus /\ Stages /\ Locked /\ Alone /\ Entries

\* Until the first stop request has written its flag nobody has seen one, and only a
\* run that has seen one takes the step that clears the flag again.
NoFlagYet == stops = 0 \/ (stops = 1 /\ web = "set")
Unflagged ==
  /\ stops = 0 => web = "idle"
  /\ NoFlagYet => ~row.stop /\ ~sick.stop /\ \A w \in Writers : ~snap[w].stop
  /\ NoFlagYet /\ aborts = 0 => ~ctxDone
  /\ stopped => ctxDone
  /\ cpc = "clearEnd" => stopped

\* By then the row has its final status, which the last write of the run keeps.
Finished ==
  cpc = "clearEnd" /\ OneStop =>
    row.pipe # "running" /\ (Control \in lock => snap[Control].pipe # "running")

SInv == Unflagged /\ Finished /\ OneStopSettles

USE DEF ControlPcs, ProcPcs, Final, BeforeProcs, Running, Indexing, Live, OneStop

----------------------------------------------------------------------------
(* Rows and writes *)

LEMMA Names ==
  /\ Control \in Writers /\ Procs \subseteq Writers /\ \A w \in Writers : w = Control \/ w \in Procs
  /\ Control \notin Procs
  /\ Sequential[1] \in SequentialProcs /\ 1 \in DOMAIN Sequential
  /\ Procs = PhaseB \cup SequentialProcs
  /\ Len(Sequential) \in Nat /\ DOMAIN Sequential = 1..Len(Sequential)
  /\ \A i \in 1..Len(Sequential) : Sequential[i] \in SequentialProcs
BY ProcsAssumption DEF Writers, Procs, SequentialProcs

LEMMA EmptyTyped == EmptyRow \in Rows /\ NoSnaps \in [Writers -> Rows]
<1>1. EmptyRow \in Rows
  BY DEF EmptyRow, Rows
<1> QED BY <1>1 DEF NoSnaps

\* What each change of the row leaves alone.
LEMMA PipelineFields ==
  ASSUME NEW r \in Rows, NEW s \in {"none", "running"} \cup Final, NEW n \in Procs \cup {NoProc}
  PROVE  /\ WithPipeline(r, s, n) \in Rows
         /\ WithPipeline(r, s, n).entry = r.entry /\ WithPipeline(r, s, n).stop = r.stop
BY DEF WithPipeline, Rows

LEMMA EntryFields ==
  ASSUME NEW r \in Rows, NEW p \in Procs, NEW s \in {"none", "active"} \cup Final
  PROVE  /\ WithEntry(r, p, s) \in Rows
         /\ WithEntry(r, p, s).entry[p] = s /\ WithEntry(r, p, s).stop = r.stop
         /\ \A q \in Procs : q # p => WithEntry(r, p, s).entry[q] = r.entry[q]
BY DEF WithEntry, Rows

LEMMA StopFields ==
  ASSUME NEW r \in Rows, NEW f \in BOOLEAN
  PROVE  WithStop(r, f) \in Rows /\ WithStop(r, f).entry = r.entry /\ WithStop(r, f).stop = f
BY DEF WithStop, Rows

LEMMA ResetFields ==
  ASSUME NEW r \in Rows
  PROVE  WithReset(r) \in Rows /\ WithReset(r).stop = r.stop
BY DEF WithReset, Rows

\* What the coordinator makes of the row it has read.
LEMMA ControlChanges ==
  ASSUME TypeOK, Writing[Control], NEW r \in Rows
  PROVE  /\ cpc \in {"clear", "waiting", "reset", "announce", "announceC", "finish", "clearEnd"}
         /\ Changed(Control, r) \in Rows
         /\ cpc # "reset" => Changed(Control, r).entry = r.entry
         /\ Changed(Control, r).stop \in {r.stop, FALSE}
         /\ cpc = "clear" => Changed(Control, r).stop = FALSE
<1>1. cpc \in {"clear", "waiting", "reset", "announce", "announceC", "finish", "clearEnd"}
  BY Names DEF Writing
<1>2. Outcome \in Final
  BY DEF Outcome
<1>3. CASE cpc \in {"clear", "clearEnd"}
  <2>1. Changed(Control, r) = WithStop(r, FALSE)
    BY <1>3 DEF Changed
  <2>2. WithStop(r, FALSE) \in Rows /\ WithStop(r, FALSE).entry = r.entry /\ WithStop(r, FALSE).stop = FALSE
    BY StopFields
  <2> QED BY <1>1, <1>3, <2>1, <2>2
<1>4. CASE cpc = "reset"
  <2>1. Changed(Control, r) = WithReset(r)
    BY <1>4 DEF Changed
  <2>2. WithReset(r) \in Rows /\ WithReset(r).stop = r.stop
    BY ResetFields
  <2> QED BY <1>4, <2>1, <2>2
<1>5. CASE cpc \in {"waiting", "announce", "announceC"}
  <2>1. Changed(Control, r) = WithPipeline(r, "running", NoProc)
    BY <1>5 DEF Changed
  <2>2. /\ WithPipeline(r, "running", NoProc) \in Rows
        /\ WithPipeline(r, "running", NoProc).entry = r.entry
        /\ WithPipeline(r, "running", NoProc).stop = r.stop
    BY PipelineFields
  <2> QED BY <1>5, <2>1, <2>2
<1>6. CASE cpc = "finish"
  <2>1. Changed(Control, r) = WithPipeline(r, Outcome, NoProc)
    BY <1>6 DEF Changed
  <2>2. /\ WithPipeline(r, Outcome, NoProc) \in Rows
        /\ WithPipeline(r, Outcome, NoProc).entry = r.entry
        /\ WithPipeline(r, Outcome, NoProc).stop = r.stop
    BY <1>2, PipelineFields
  <2> QED BY <1>6, <2>1, <2>2
<1> QED BY <1>1, <1>3, <1>4, <1>5, <1>6

\* What a processor makes of it, and where it is then.
LEMMA ProcChanges ==
  ASSUME TypeOK, HasStatus, NEW p \in Procs, Writing[p], NEW r \in Rows
  PROVE  /\ ppc[p] \in {"activate", "name", "ownStop", "settle", "indexFail"}
         /\ Changed(p, r) \in Rows /\ Changed(p, r).stop = r.stop
         /\ \A q \in Procs : q # p => Changed(p, r).entry[q] = r.entry[q]
         /\ ppc[p] = "activate" => NextProc(p) = "name" /\ Changed(p, r).entry[p] = "active"
         /\ ppc[p] = "name" => NextProc(p) = "work" /\ Changed(p, r).entry[p] = r.entry[p]
         /\ ppc[p] = "ownStop" => NextProc(p) = "settle"
         /\ ppc[p] = "settle" => NextProc(p) = "over" /\ Changed(p, r).entry[p] = result[p]
         /\ ppc[p] = "indexFail" => NextProc(p) = "indexFailed" /\ Changed(p, r).entry[p] = "failed"
<1>0. p # Control
  BY Names
<1>1. ppc[p] \in {"activate", "name", "ownStop", "settle", "indexFail"}
  BY <1>0, Names DEF Writing
<1>2. CASE ppc[p] = "activate"
  <2>1. Changed(p, r) = WithEntry(r, p, "active") /\ NextProc(p) = "name"
    BY <1>0, <1>2 DEF Changed, NextProc
  <2>2. /\ WithEntry(r, p, "active") \in Rows
        /\ WithEntry(r, p, "active").entry[p] = "active" /\ WithEntry(r, p, "active").stop = r.stop
        /\ \A q \in Procs : q # p => WithEntry(r, p, "active").entry[q] = r.entry[q]
    BY EntryFields
  <2> QED BY <1>2, <2>1, <2>2
<1>3. CASE ppc[p] = "name"
  <2>1. Changed(p, r) = WithPipeline(r, "running", p) /\ NextProc(p) = "work"
    BY <1>0, <1>3 DEF Changed, NextProc
  <2>2. /\ WithPipeline(r, "running", p) \in Rows
        /\ WithPipeline(r, "running", p).entry = r.entry /\ WithPipeline(r, "running", p).stop = r.stop
    BY PipelineFields
  <2> QED BY <1>3, <2>1, <2>2
<1>4. CASE ppc[p] = "ownStop"
  <2>1. Changed(p, r) = WithEntry(r, p, "stopped") /\ NextProc(p) = "settle"
    BY <1>0, <1>4 DEF Changed, NextProc
  <2>2. /\ WithEntry(r, p, "stopped") \in Rows
        /\ WithEntry(r, p, "stopped").entry[p] = "stopped" /\ WithEntry(r, p, "stopped").stop = r.stop
        /\ \A q \in Procs : q # p => WithEntry(r, p, "stopped").entry[q] = r.entry[q]
    BY EntryFields
  <2> QED BY <1>4, <2>1, <2>2
<1>5. CASE ppc[p] = "settle"
  <2>1. Changed(p, r) = WithEntry(r, p, result[p]) /\ NextProc(p) = "over" /\ result[p] \in Final
    BY <1>0, <1>5 DEF Changed, NextProc, HasStatus
  <2>2. /\ WithEntry(r, p, result[p]) \in Rows
        /\ WithEntry(r, p, result[p]).entry[p] = result[p] /\ WithEntry(r, p, result[p]).stop = r.stop
        /\ \A q \in Procs : q # p => WithEntry(r, p, result[p]).entry[q] = r.entry[q]
    <3>1. PICK s \in {"none", "active"} \cup Final : s = result[p]
      BY <2>1
    <3>2. /\ WithEntry(r, p, s) \in Rows
          /\ WithEntry(r, p, s).entry[p] = s /\ WithEntry(r, p, s).stop = r.stop
          /\ \A q \in Procs : q # p => WithEntry(r, p, s).entry[q] = r.entry[q]
      BY EntryFields
    <3> QED BY <3>1, <3>2
  <2> QED BY <1>5, <2>1, <2>2
<1>6. CASE ppc[p] = "indexFail"
  <2>1. Changed(p, r) = WithEntry(r, p, "failed") /\ NextProc(p) = "indexFailed"
    BY <1>0, <1>6 DEF Changed, NextProc
  <2>2. /\ WithEntry(r, p, "failed") \in Rows
        /\ WithEntry(r, p, "failed").entry[p] = "failed" /\ WithEntry(r, p, "failed").stop = r.stop
        /\ \A q \in Procs : q # p => WithEntry(r, p, "failed").entry[q] = r.entry[q]
    BY EntryFields
  <2> QED BY <1>6, <2>1, <2>2
<1> QED BY <1>1, <1>2, <1>3, <1>4, <1>5, <1>6

\* Where the coordinator goes after a write.
LEMMA ControlGoesOn ==
  ASSUME TypeOK, Writing[Control]
  PROVE  /\ NextControl \in ControlPcs /\ NextControl \notin {"clear", "finish"}
         /\ cpc = "clear" => NextControl = "routing"
         /\ cpc = "waiting" => NextControl = "admitted"
         /\ cpc = "reset" => NextControl = "announce"
         /\ cpc = "announce" => NextControl = "sequential"
         /\ cpc = "announceC" => NextControl = "enterC"
         /\ cpc \in {"finish", "clearEnd"} => NextControl \in {"off", "clearEnd"}
<1>1. cpc \in {"clear", "waiting", "reset", "announce", "announceC", "finish", "clearEnd"}
  BY Names DEF Writing
<1> QED BY <1>1 DEF NextControl

LEMMA InitOK == Init => IInv
<1> SUFFICES ASSUME Init PROVE IInv
  OBVIOUS
<1>1. TypeOK
  <2>1. row \in Rows /\ snap \in [Writers -> Rows] /\ seen \in Rows /\ sick \in Rows
    BY EmptyTyped DEF Init
  <2>2. idx \in 1..(Len(Sequential) + 1)
    BY Names DEF Init
  <2>3. runs \in 0..MaxRuns /\ stops \in 0..MaxStops /\ heals \in 0..MaxHeals /\ crashes \in 0..MaxCrashes
        /\ aborts \in 0..MaxAborts
    BY BoundsAssumption DEF Init
  <2> QED BY <2>1, <2>2, <2>3 DEF Init, TypeOK
<1> QED BY <1>1 DEF Init, IInv, HasStatus, Stages, Locked, Alone, Entries

----------------------------------------------------------------------------
(* Types *)

\* What a write does.
LEMMA Writes ==
  ASSUME TypeOK, HasStatus, NEW w \in Writers, Write(w)
  PROVE  /\ Writing[w] /\ snap[w] \in Rows
         /\ row' = Changed(w, snap[w]) /\ row' \in Rows
         /\ lock' = lock \ {w} /\ snap' \in [Writers -> Rows]
         /\ \A v \in Writers : v # w => snap'[v] = snap[v]
         /\ w = Control => cpc' = NextControl /\ cpc' \in ControlPcs /\ ppc' = ppc
         /\ w \in Procs => /\ cpc' = cpc /\ ppc' = [ppc EXCEPT ![w] = NextProc(w)] /\ ppc'[w] = NextProc(w)
                           /\ ppc' \in [Procs -> ProcPcs]
                           /\ \A q \in Procs : q # w => ppc'[q] = ppc[q]
         /\ UNCHANGED <<idx, stopped, deadIn, result, ctxDone, webVars, healVars, countVars, touched>>
<1>1. Writing[w] /\ snap[w] \in Rows /\ row' = Changed(w, snap[w])
  BY DEF Write, TypeOK
<1>2. snap' = [snap EXCEPT ![w] = EmptyRow] /\ lock' = lock \ {w}
  BY DEF Write
<1>3. CASE w = Control
  <2>1. cpc' = NextControl /\ ppc' = ppc
    BY <1>3 DEF Write, MoveOn
  <2>2. row' \in Rows /\ NextControl \in ControlPcs
    BY <1>1, <1>3, ControlChanges, ControlGoesOn
  <2> QED BY <1>1, <1>2, <1>3, <2>1, <2>2, EmptyTyped, Names DEF Write, TypeOK
<1>4. CASE w \in Procs
  <2>1. cpc' = cpc /\ ppc' = [ppc EXCEPT ![w] = NextProc(w)]
    BY <1>4, Names DEF Write, MoveOn
  <2>2. row' \in Rows /\ NextProc(w) \in ProcPcs
    BY <1>1, <1>4, ProcChanges
  <2> QED BY <1>1, <1>2, <1>4, <2>1, <2>2, EmptyTyped, Names DEF Write, TypeOK
<1> QED BY <1>3, <1>4, Names

\* What a failed one does.
LEMMA FailedWrites ==
  ASSUME TypeOK, HasStatus, NEW w \in Writers, WriteFails(w)
  PROVE  /\ Writing[w] /\ ctxDone /\ ~Background(w) /\ lock' = {} /\ snap' = NoSnaps
         /\ w = Control => cpc' = NextControl /\ cpc' \in ControlPcs /\ ppc' = ppc
         /\ w \in Procs => /\ cpc' = cpc /\ ppc' = [ppc EXCEPT ![w] = NextProc(w)] /\ ppc'[w] = NextProc(w)
                           /\ ppc' \in [Procs -> ProcPcs]
                           /\ \A q \in Procs : q # w => ppc'[q] = ppc[q]
         /\ UNCHANGED <<row, idx, stopped, deadIn, result, ctxDone, webVars, healVars, countVars, touched>>
<1>1. Writing[w] /\ ctxDone /\ ~Background(w) /\ lock' = {} /\ snap' = NoSnaps
  BY DEF WriteFails
<1>3. CASE w = Control
  <2>1. cpc' = NextControl /\ ppc' = ppc
    BY <1>3 DEF WriteFails, MoveOn
  <2>2. NextControl \in ControlPcs
    BY <1>1, <1>3, ControlGoesOn
  <2> QED BY <1>1, <1>3, <2>1, <2>2, Names DEF WriteFails
<1>4. CASE w \in Procs
  <2>1. cpc' = cpc /\ ppc' = [ppc EXCEPT ![w] = NextProc(w)]
    BY <1>4, Names DEF WriteFails, MoveOn
  <2>2. NextProc(w) \in ProcPcs
    BY <1>1, <1>4, EmptyTyped, ProcChanges
  <2> QED BY <1>1, <1>4, <2>1, <2>2, Names DEF WriteFails, TypeOK
<1> QED BY <1>3, <1>4, Names

\* What a processor does between its writes.
LEMMA ProcMoves ==
  ASSUME TypeOK, NEW p \in Procs, Work(p) \/ Panic(p) \/ Index(p)
  PROVE  /\ ppc[p] \in {"work", "over"} /\ ppc' \in [Procs -> ProcPcs]
         /\ ppc[p] = "work" => \/ ppc'[p] \in {"ownStop", "settle"} /\ result'[p] \in Final
                               \/ ppc'[p] = "over" /\ result'[p] = "panicked"
         /\ ppc'[p] = "ownStop" => ctxDone
         /\ ppc[p] = "over" => cpc = "phaseC" /\ p # Sequential[1] /\ ppc'[p] \in {"indexed", "indexFail"} /\ result'[p] = result[p]
         /\ result' \in [Procs -> {"none", "panicked"} \cup Final]
         /\ \A q \in Procs : q # p => ppc'[q] = ppc[q] /\ result'[q] = result[q]
         /\ UNCHANGED <<rowVars, controlVars, ctxDone, webVars, healVars, countVars, touched>>
<1>1. ASSUME NEW label \in ProcPcs, NEW res \in {"none", "panicked"} \cup Final, GoTo(p, label, res)
      PROVE  /\ ppc'[p] = label /\ result'[p] = res
             /\ ppc' \in [Procs -> ProcPcs] /\ result' \in [Procs -> {"none", "panicked"} \cup Final]
             /\ \A q \in Procs : q # p => ppc'[q] = ppc[q] /\ result'[q] = result[q]
             /\ UNCHANGED <<rowVars, controlVars, ctxDone, webVars, healVars, countVars, touched>>
  BY <1>1 DEF GoTo, TypeOK
<1>2. CASE Work(p)
  <2>1. PICK label \in {"settle", "ownStop"}, res \in Final : GoTo(p, label, res) /\ (label = "ownStop" => ctxDone)
    BY <1>2 DEF Work
  <2> QED BY <1>1, <1>2, <2>1 DEF Work
<1>3. CASE Panic(p)
  BY <1>1, <1>3 DEF Panic
<1>4. CASE Index(p)
  <2>1. result[p] \in {"none", "panicked"} \cup Final
    BY DEF TypeOK
  <2>2. PICK label \in {"indexed", "indexFail"} : GoTo(p, label, result[p])
    BY <1>4 DEF Index
  <2> QED BY <1>1, <1>4, <2>1, <2>2 DEF Index, Indexers
<1> QED BY <1>2, <1>3, <1>4

LEMMA TypeStep ==
  ASSUME TypeOK, HasStatus, [Next]_vars
  PROVE  TypeOK'
<1> USE DEF TypeOK, rowVars, controlVars, procVars, webVars, healVars, countVars
<1>1. CASE StartRun
  <2>1. runs' \in 0..MaxRuns
    BY <1>1, BoundsAssumption DEF StartRun, BeginAt
  <2>2. touched' \in BOOLEAN /\ idx' \in 1..(Len(Sequential) + 1)
    BY <1>1, Names DEF StartRun, BeginAt, WebWrites
  <2> QED BY <1>1, <2>1, <2>2 DEF StartRun, BeginAt
<1>2. CASE Poll \/ Abort
  <2>1. CASE Poll
    BY <2>1 DEF Poll
  <2>2. CASE Abort
    <3>1. aborts' \in 0..MaxAborts
      BY <2>2, BoundsAssumption DEF Abort
    <3> QED BY <2>2, <3>1 DEF Abort
  <2> QED BY <1>2, <2>1, <2>2
<1>3. CASE Routed \/ Wait \/ Join \/ BeginPhaseC \/ EndPhaseC
  BY <1>3 DEF Routed, Wait, Join, BeginPhaseC, EndPhaseC, Boundary
<1>4. CASE GiveUp
  BY <1>4 DEF GiveUp, WebWrites
<1>5. CASE Launch
  <2>1. Sequential[idx] \in Procs /\ idx + 1 \in 1..(Len(Sequential) + 1)
    BY <1>5, Names DEF Launch
  <2> QED BY <1>5, <2>1 DEF Launch, Boundary
<1>6. CASE FanOut
  BY <1>6 DEF FanOut, Boundary
<1>7. ASSUME NEW w \in Writers, Read(w) PROVE TypeOK'
  BY <1>7 DEF Read
<1>8. ASSUME NEW w \in Writers, Write(w) PROVE TypeOK'
  <2>1. lock' \subseteq Writers /\ cpc' \in ControlPcs /\ ppc' \in [Procs -> ProcPcs]
    BY <1>8, Writes, Names
  <2> QED BY <1>8, <2>1, Writes
<1>9. ASSUME NEW w \in Writers, WriteFails(w) PROVE TypeOK'
  <2>1. cpc' \in ControlPcs /\ ppc' \in [Procs -> ProcPcs]
    BY <1>9, FailedWrites, Names
  <2> QED BY <1>9, <2>1, FailedWrites, EmptyTyped
<1>10. ASSUME NEW p \in Procs, Work(p) \/ Panic(p) \/ Index(p) PROVE TypeOK'
  BY <1>10, ProcMoves
<1>11. CASE SetRead
  BY <1>11, BoundsAssumption DEF SetRead
<1>12. CASE SetWrite
  <2>1. row' = [seen EXCEPT !.stop = TRUE]
    BY <1>12 DEF SetWrite, WithStop
  <2>2. row' \in Rows
    BY <2>1 DEF Rows
  <2>3. /\ web' = "marking" /\ seen' = EmptyRow
        /\ UNCHANGED <<lock, snap, controlVars, procVars, ctxDone, stops, healVars, countVars, touched>>
    BY <1>12 DEF SetWrite
  <2> QED BY <2>2, <2>3, EmptyTyped
<1>13. CASE MarkRead
  BY <1>13 DEF MarkRead
<1>14. CASE MarkWrite
  <2>1. WithPipeline(seen, "stopped", NoProc) \in Rows
    BY PipelineFields
  <2> QED BY <1>14, <2>1, EmptyTyped DEF MarkWrite
<1>15. CASE HealRead
  BY <1>15, BoundsAssumption DEF HealRead
<1>16. CASE HealWrite
  <2>1. WithPipeline(sick, "success", NoProc) \in Rows
    BY PipelineFields
  <2> QED BY <1>16, <2>1, EmptyTyped DEF HealWrite
<1>17. CASE Crash
  BY <1>17, BoundsAssumption, EmptyTyped DEF Crash, WebWrites
<1>18. CASE UNCHANGED vars
  BY <1>18 DEF vars
<1> QED
  BY <1>1, <1>2, <1>3, <1>4, <1>5, <1>6, <1>7, <1>8, <1>9, <1>10, <1>11, <1>12, <1>13, <1>14, <1>15, <1>16,
     <1>17, <1>18 DEF Next, ControlStep, WriteStep, WebStep

----------------------------------------------------------------------------
(* The coordinator and the processors *)

\* The web server leaves the process alone.
LEMMA WebSteps ==
  ASSUME TypeOK, SetRead \/ HealRead \/ WebStep
  PROVE  /\ UNCHANGED <<lock, snap, controlVars, procVars, ctxDone, countVars>>
         /\ touched' = (touched \/ SetRead \/ HealRead)
         /\ touched \/ WebWrites \/ touched'
         /\ row' # row => WebWrites
BY DEF SetRead, HealRead, WebStep, SetWrite, MarkRead, MarkWrite, HealWrite, rowVars, WebWrites, TypeOK

LEMMA HasStatusStep ==
  ASSUME TypeOK, HasStatus, [Next]_vars
  PROVE  HasStatus'
<1> USE DEF HasStatus, TypeOK, rowVars, controlVars, procVars, webVars, healVars, countVars
<1>1. ASSUME UNCHANGED result, \A p \in Procs : ppc'[p] \in {ppc[p], "idle", "activate"} PROVE HasStatus'
  BY <1>1
<1>2. CASE StartRun \/ Crash \/ Launch \/ FanOut
  BY <1>2, <1>1 DEF StartRun, BeginAt, Crash, Launch, FanOut, Boundary
<1>3. CASE Poll \/ Abort \/ Routed \/ GiveUp \/ Wait \/ Join \/ BeginPhaseC \/ EndPhaseC
  BY <1>3, <1>1 DEF Poll, Abort, Routed, GiveUp, Wait, Join, BeginPhaseC, EndPhaseC, Boundary
<1>4. ASSUME NEW w \in Writers, Read(w) PROVE HasStatus'
  BY <1>4, <1>1 DEF Read
<1>5. ASSUME NEW w \in Writers, Write(w) \/ WriteFails(w) PROVE HasStatus'
  <2>1. CASE w = Control
    BY <1>5, <2>1, Writes, FailedWrites
  <2>2. CASE w \in Procs
    <3>1. Writing[w] /\ ppc'[w] = NextProc(w) /\ \A q \in Procs : q # w => ppc'[q] = ppc[q]
      BY <1>5, <2>2, Writes, FailedWrites
    <3>2. ppc'[w] = "settle" => ppc[w] = "ownStop"
      BY <2>2, <3>1, EmptyTyped, ProcChanges
    <3>3. result' = result /\ ppc'[w] # "ownStop"
      BY <1>5, <2>2, <3>1, Writes, FailedWrites, EmptyTyped, ProcChanges
    <3> QED BY <2>2, <3>1, <3>2, <3>3
  <2> QED BY <2>1, <2>2, Names
<1>6. ASSUME NEW p \in Procs, Work(p) \/ Panic(p) \/ Index(p) PROVE HasStatus'
  <2>1. ppc'[p] \in {"ownStop", "settle"} => result'[p] \in Final
    BY <1>6, ProcMoves
  <2> QED BY <1>6, <2>1, ProcMoves
<1>7. CASE SetRead \/ HealRead \/ WebStep
  BY <1>7, <1>1, WebSteps
<1>8. CASE UNCHANGED vars
  BY <1>8, <1>1 DEF vars
<1> QED BY <1>2, <1>3, <1>4, <1>5, <1>6, <1>7, <1>8 DEF Next, ControlStep, WriteStep

LEMMA StagesStep ==
  ASSUME TypeOK, HasStatus, Stages, [Next]_vars
  PROVE  Stages'
<1> USE DEF TypeOK, rowVars, controlVars, procVars, webVars, healVars, countVars
<1>1. ASSUME UNCHANGED <<cpc, ppc, idx, stopped>> PROVE Stages'
  BY <1>1 DEF Stages
<1>2. CASE StartRun
  BY <1>2 DEF Stages, StartRun, BeginAt
<1>3. CASE Crash
  BY <1>3 DEF Stages, Crash
<1>4. CASE Routed \/ GiveUp \/ Wait
  BY <1>4 DEF Stages, Routed, GiveUp, Wait, Boundary
<1>5. CASE Launch
  <2>1. cpc = "sequential" /\ idx \in 1..Len(Sequential) /\ Sequential[idx] \in SequentialProcs
    BY <1>5, Names DEF Launch
  <2>2. \A p \in Procs : ppc[p] \in {"idle", "over"}
    BY <1>5, <2>1 DEF Launch, Stages
  <2>3. CASE idx > 1 /\ ctxDone
    BY <1>5, <2>1, <2>2, <2>3 DEF Launch, Boundary, Stages
  <2>4. CASE ~(idx > 1 /\ ctxDone)
    <3>1. idx' = idx + 1 /\ ppc' = [ppc EXCEPT ![Sequential[idx]] = "activate"] /\ cpc' = cpc
      BY <1>5, <2>4 DEF Launch
    <3>2. Sequential[idx] \in Procs /\ Sequential[idx] \notin PhaseB
      BY <2>1, Names, ProcsAssumption
    <3>3. \A p \in Procs : ppc'[p] = IF p = Sequential[idx] THEN "activate" ELSE ppc[p]
      BY <3>1, <3>2
    <3>4. \A i \in 1..idx : Sequential[i] \in Procs /\ (i = idx \/ i \in 1..(idx - 1))
      BY <2>1, Names
    <3>5. \A i \in 1..(idx' - 1) : ppc'[Sequential[i]] # "idle"
      BY <2>1, <3>1, <3>3, <3>4 DEF Stages
    <3>6. \A p \in PhaseB : ppc'[p] = "idle"
      BY <2>1, <3>2, <3>3, Names DEF Stages
    <3>7. \A p \in Procs : ppc'[p] \in {"idle", "over"}
                           \/ (idx' > 1 /\ p = Sequential[idx' - 1] /\ ppc'[p] \in Running)
      BY <2>1, <2>2, <3>1, <3>3
    <3> QED BY <2>1, <3>1, <3>5, <3>6, <3>7 DEF Stages
  <2> QED BY <2>3, <2>4
<1>6. CASE FanOut
  <2>1. cpc = "sequential" /\ idx = Len(Sequential) + 1 /\ ppc[Sequential[idx - 1]] = "over"
    BY <1>6 DEF FanOut
  <2>2. \A p \in Procs : ppc[p] \in {"idle", "over"}
    BY <2>1 DEF Stages
  <2>3. \A p \in SequentialProcs : ppc[p] = "over"
    <3>1. SUFFICES ASSUME NEW p \in SequentialProcs PROVE ppc[p] = "over"
      OBVIOUS
    <3>2. PICK i \in 1..Len(Sequential) : p = Sequential[i]
      BY Names DEF SequentialProcs
    <3>3. ppc[Sequential[i]] # "idle"
      BY <2>1, Names DEF Stages
    <3> QED BY <2>2, <3>2, <3>3, Names
  <2>4. \A p \in SequentialProcs : p \notin PhaseB
    BY ProcsAssumption
  <2>5. ppc' = [p \in Procs |-> IF p \in PhaseB /\ ~ctxDone THEN "activate" ELSE ppc[p]]
        /\ stopped' = ctxDone /\ cpc' = (IF ctxDone THEN "finish" ELSE "phaseB") /\ idx' = idx
    BY <1>6 DEF FanOut, Boundary
  <2>6. CASE ctxDone
    BY <2>2, <2>5, <2>6 DEF Stages
  <2>7. CASE ~ctxDone
    BY <2>3, <2>4, <2>5, <2>7, Names DEF Stages
  <2> QED BY <2>6, <2>7
<1>7. CASE Join
  <2>1. \A p \in Procs : ppc[p] = "over"
    BY <1>7, Names DEF Join, Stages
  <2> QED BY <1>7, <2>1 DEF Join, Boundary, Stages
<1>8. CASE EndPhaseC
  <2>1. cpc = "phaseC" /\ \A p \in Procs : ppc[p] \in {"over", "indexed", "indexFailed"}
    <3>1. \A p \in Indexers : ppc[p] \in {"indexed", "indexFailed"}
      BY <1>8 DEF EndPhaseC, IndexingOver
    <3>2. cpc = "phaseC"
      BY <1>8 DEF EndPhaseC
    <3>3. ppc[Sequential[1]] = "over"
      BY <3>2 DEF Stages
    <3> QED BY <3>1, <3>2, <3>3 DEF Indexers
  <2> QED BY <1>8, <2>1 DEF EndPhaseC, Boundary, Stages
<1>9. ASSUME NEW w \in Writers, Write(w) \/ WriteFails(w) PROVE Stages'
  <2>1. Writing[w] /\ UNCHANGED <<idx, stopped>>
    BY <1>9, Writes, FailedWrites
  <2>2. CASE w = Control
    <3>1. cpc' = NextControl /\ ppc' = ppc
      BY <1>9, <2>2, Writes, FailedWrites
    <3>2. cpc \in {"clear", "waiting", "reset", "announce", "announceC", "finish", "clearEnd"}
      BY <2>1, <2>2, Names DEF Writing
    <3>3. CASE cpc = "announce"
      <4>1. cpc' = "sequential"
        BY <3>1, <3>3, <2>1, <2>2, ControlGoesOn
      <4>2. idx = 1 /\ \A p \in Procs : ppc[p] = "idle"
        BY <3>3 DEF Stages
      <4> QED BY <2>1, <3>1, <4>1, <4>2, Names DEF Stages
    <3>4. CASE cpc # "announce"
      BY <2>1, <2>2, <3>1, <3>2, <3>4, ControlGoesOn, Names DEF Stages
    <3> QED BY <3>3, <3>4
  <2>3. CASE w \in Procs
    <3>1. cpc' = cpc /\ ppc'[w] = NextProc(w) /\ \A q \in Procs : q # w => ppc'[q] = ppc[q]
      BY <1>9, <2>3, Writes, FailedWrites
    <3>2. \/ ppc[w] \in Running /\ ppc'[w] \in Running \cup {"over"}
          \/ ppc[w] = "indexFail" /\ ppc'[w] = "indexFailed"
      BY <2>1, <2>3, <3>1, EmptyTyped, ProcChanges
    <3> QED BY <2>1, <2>3, <3>1, <3>2, Names DEF Stages
  <2> QED BY <2>2, <2>3, Names
<1>10. ASSUME NEW p \in Procs, Work(p) \/ Panic(p) \/ Index(p) PROVE Stages'
  <2>1. UNCHANGED <<cpc, idx, stopped>> /\ \A q \in Procs : q # p => ppc'[q] = ppc[q]
    BY <1>10, ProcMoves
  <2>2. \/ ppc[p] = "work" /\ ppc'[p] \in {"ownStop", "settle", "over"}
        \/ ppc[p] = "over" /\ cpc = "phaseC" /\ p # Sequential[1] /\ ppc'[p] \in {"indexed", "indexFail"}
    BY <1>10, ProcMoves
  <2> QED BY <2>1, <2>2, Names DEF Stages
<1>11. ASSUME NEW w \in Writers, Read(w) PROVE Stages'
  BY <1>11, <1>1 DEF Read
<1>12. CASE Poll \/ Abort
  BY <1>12, <1>1 DEF Poll, Abort
<1>13. CASE SetRead \/ HealRead \/ WebStep
  BY <1>13, <1>1, WebSteps
<1>14. CASE UNCHANGED vars
  BY <1>14, <1>1 DEF vars
<1>15. CASE BeginPhaseC
  BY <1>15, Names DEF BeginPhaseC, Boundary, Stages
<1> QED
  BY <1>2, <1>3, <1>4, <1>5, <1>6, <1>7, <1>8, <1>9, <1>10, <1>11, <1>12, <1>13, <1>14, <1>15
     DEF Next, ControlStep, WriteStep

----------------------------------------------------------------------------
(* The lock and the row *)

LEMMA LockedStep ==
  ASSUME TypeOK, HasStatus, Stages, Locked, [Next]_vars
  PROVE  Locked'
<1> USE DEF TypeOK, rowVars, controlVars, procVars, webVars, healVars, countVars
<1>0. \A v \in Writers : Writing[v] = (IF v = Control
        THEN cpc \in {"clear", "waiting", "reset", "announce", "announceC", "finish", "clearEnd"}
        ELSE ppc[v] \in {"activate", "name", "ownStop", "settle", "indexFail"})
  BY DEF Writing
<1>1. \A v \in Writers : Writing'[v] = (IF v = Control
        THEN cpc' \in {"clear", "waiting", "reset", "announce", "announceC", "finish", "clearEnd"}
        ELSE ppc'[v] \in {"activate", "name", "ownStop", "settle", "indexFail"})
  BY DEF Writing
<1>2. ASSUME UNCHANGED lock, \A v \in Writers : Writing[v] => Writing'[v] PROVE Locked'
  BY <1>2 DEF Locked
<1>3. CASE StartRun
  <2>1. lock = {} /\ lock' = lock
    <3>1. cpc = "off" /\ lock' = lock
      BY <1>3 DEF StartRun, BeginAt
    <3>2. \A p \in Procs : ppc[p] \notin Running \cup {"indexFail"}
      BY <3>1 DEF Stages
    <3>3. \A v \in Writers : ~Writing[v]
      BY <1>0, <3>1, <3>2, Names
    <3> QED BY <3>1, <3>3 DEF Locked
  <2> QED BY <2>1 DEF Locked
<1>4. CASE Crash
  BY <1>4 DEF Crash, Locked
<1>5. ASSUME cpc \in {"routing", "admitted", "sequential", "phaseB", "enterC", "phaseC"}, UNCHANGED lock,
             \A p \in Procs : ppc'[p] = ppc[p] \/ ppc[p] \in {"idle", "over", "work"}
      PROVE  Locked'
  <2>1. \A v \in Writers : Writing[v] => Writing'[v]
    BY <1>0, <1>1, <1>5, Names
  <2> QED BY <1>2, <1>5, <2>1
<1>6. CASE Routed \/ GiveUp \/ Wait \/ Join \/ BeginPhaseC \/ EndPhaseC
  BY <1>6, <1>5 DEF Routed, GiveUp, Wait, Join, BeginPhaseC, EndPhaseC, Boundary
<1>7. CASE Launch
  <2>1. \A p \in Procs : ppc[p] \in {"idle", "over"}
    <3>1. cpc = "sequential" /\ (idx > 1 => ppc[Sequential[idx - 1]] = "over")
      BY <1>7 DEF Launch
    <3> QED BY <3>1 DEF Stages
  <2>2. cpc = "sequential" /\ lock' = lock
    BY <1>7 DEF Launch, Boundary
  <2> QED BY <1>5, <2>1, <2>2
<1>8. CASE FanOut
  <2>1. \A p \in Procs : ppc[p] \in {"idle", "over"}
    <3>1. cpc = "sequential" /\ ppc[Sequential[idx - 1]] = "over"
      BY <1>8 DEF FanOut
    <3> QED BY <3>1 DEF Stages
  <2>2. cpc = "sequential" /\ lock' = lock
    BY <1>8 DEF FanOut, Boundary
  <2> QED BY <1>5, <2>1, <2>2
<1>9. ASSUME NEW w \in Writers, Read(w) PROVE Locked'
  <2>1. lock' = {w} /\ Writing[w] /\ UNCHANGED <<cpc, ppc>>
    BY <1>9 DEF Read
  <2> QED BY <1>0, <1>1, <2>1 DEF Locked
<1>10. ASSUME NEW w \in Writers, Write(w) PROVE Locked'
  <2>1. w \in lock /\ lock' = lock \ {w}
    BY <1>10 DEF Write
  <2>2. lock' = {}
    BY <2>1 DEF Locked
  <2> QED BY <2>2 DEF Locked
<1>11. ASSUME NEW w \in Writers, WriteFails(w) PROVE Locked'
  <2>1. lock' = {}
    BY <1>11 DEF WriteFails
  <2> QED BY <2>1 DEF Locked
<1>12. ASSUME NEW p \in Procs, Work(p) \/ Panic(p) \/ Index(p) PROVE Locked'
  <2>1. UNCHANGED <<lock, cpc>> /\ ppc[p] \in {"work", "over"} /\ \A q \in Procs : q # p => ppc'[q] = ppc[q]
    BY <1>12, ProcMoves
  <2>2. \A v \in Writers : Writing[v] => Writing'[v]
    BY <1>0, <1>1, <2>1, Names
  <2> QED BY <1>2, <2>1, <2>2
<1>13. ASSUME UNCHANGED <<lock, cpc, ppc>> PROVE Locked'
  BY <1>0, <1>1, <1>2, <1>13
<1>14. CASE Poll \/ Abort
  BY <1>13, <1>14 DEF Poll, Abort
<1>15. CASE SetRead \/ HealRead \/ WebStep
  BY <1>13, <1>15, WebSteps
<1>16. CASE UNCHANGED vars
  BY <1>13, <1>16 DEF vars
<1> QED
  BY <1>3, <1>4, <1>6, <1>7, <1>8, <1>9, <1>10, <1>11, <1>12, <1>14, <1>15, <1>16
     DEF Next, ControlStep, WriteStep

LEMMA AloneStep ==
  ASSUME TypeOK, HasStatus, Stages, Locked, Alone, [Next]_vars
  PROVE  Alone'
<1> USE DEF TypeOK, rowVars, controlVars, procVars, webVars, healVars, countVars, WebWrites
<1>1. CASE StartRun
  <2>1. lock = {}
    <3>1. cpc = "off"
      BY <1>1 DEF StartRun, BeginAt
    <3>2. \A v \in Writers : ~Writing[v]
      BY <3>1, Names DEF Stages, Writing
    <3> QED BY <3>2 DEF Locked
  <2> QED BY <1>1, <2>1 DEF StartRun, BeginAt, Alone
<1>2. CASE Crash
  BY <1>2 DEF Crash, Alone
<1>3. CASE Poll \/ Abort
  BY <1>3 DEF Poll, Abort, Alone
<1>4. CASE Routed \/ GiveUp \/ Wait \/ Join \/ BeginPhaseC \/ EndPhaseC \/ FanOut
  BY <1>4 DEF Routed, GiveUp, Wait, Join, BeginPhaseC, EndPhaseC, FanOut, Boundary, Alone
<1>5. CASE Launch
  BY <1>5 DEF Launch, Boundary, Alone
<1>6. ASSUME NEW w \in Writers, Read(w) PROVE Alone'
  BY <1>6 DEF Read, Alone
<1>7. ASSUME NEW w \in Writers, Write(w) PROVE Alone'
  <2>1. lock' = {} /\ w \in lock
    BY <1>7 DEF Write, Locked
  <2>2. UNCHANGED <<ctxDone, stopped, touched, web, heal>> /\ Writing[w] /\ snap[w] \in Rows
    BY <1>7, Writes
  <2>3. Live' => Live
    BY <1>7, <2>2, Writes, Names DEF Writing
  <2>4. cpc' = "clear" => cpc = "clear"
    BY <1>7, <2>2, Writes, ControlGoesOn, Names
  <2>5. ASSUME Live, ~touched, cpc' # "clear" PROVE ~row'.stop
    <3>1. snap[w] = row
      BY <2>1, <2>5 DEF Alone
    <3>2. CASE w = Control
      <4>1. row'.stop \in {row.stop, FALSE} /\ (cpc = "clear" => row'.stop = FALSE)
        <5>1. row' = Changed(Control, row) /\ Writing[Control] /\ row \in Rows
          BY <1>7, <2>2, <3>1, <3>2, Writes
        <5> QED BY <5>1, ControlChanges
      <4> QED BY <2>5, <4>1 DEF Alone
    <3>3. CASE w \in Procs
      <4>1. row'.stop = row.stop /\ cpc' = cpc
        BY <1>7, <2>2, <3>1, <3>3, Writes, ProcChanges
      <4> QED BY <2>5, <4>1 DEF Alone
    <3> QED BY <3>2, <3>3, Names
  <2> QED BY <2>1, <2>2, <2>3, <2>4, <2>5 DEF Alone
<1>8. ASSUME NEW w \in Writers, WriteFails(w) PROVE Alone'
  <2>1. ctxDone /\ UNCHANGED <<ctxDone, touched>> /\ Writing[w]
    BY <1>8, FailedWrites
  <2>2. Live' => Live
    BY <1>8, <2>1, FailedWrites, Names DEF Writing
  <2>3. cpc' = "clear" => cpc = "clear"
    BY <1>8, <2>1, FailedWrites, ControlGoesOn, Names
  <2> QED BY <2>1, <2>2, <2>3 DEF Alone
<1>9. ASSUME NEW p \in Procs, Work(p) \/ Panic(p) \/ Index(p) PROVE Alone'
  <2>1. UNCHANGED <<rowVars, controlVars, ctxDone, webVars, healVars, countVars, touched>>
    BY <1>9, ProcMoves
  <2> QED BY <2>1 DEF Alone
<1>10. CASE SetRead \/ HealRead \/ WebStep
  <2>1. UNCHANGED <<lock, snap, cpc, stopped, ctxDone>> /\ (touched => touched')
    BY <1>10, WebSteps
  <2>2. Live /\ ~touched' => row' = row /\ ~WebWrites'
    BY <1>10, <2>1 DEF SetRead, HealRead, WebStep, SetWrite, MarkRead, MarkWrite, HealWrite, Alone
  <2> QED BY <2>1, <2>2 DEF Alone
<1>11. CASE UNCHANGED vars
  BY <1>11 DEF vars, Alone
<1> QED
  BY <1>1, <1>2, <1>3, <1>4, <1>5, <1>6, <1>7, <1>8, <1>9, <1>10, <1>11 DEF Next, ControlStep, WriteStep

LEMMA EntriesStep ==
  ASSUME TypeOK, HasStatus, Stages, Locked, Alone, Entries, [Next]_vars
  PROVE  Entries'
<1> USE DEF TypeOK, rowVars, controlVars, procVars, webVars, healVars, countVars
<1>1. CASE StartRun
  BY <1>1 DEF StartRun, BeginAt, Entries
<1>2. CASE Crash
  BY <1>2 DEF Crash, Entries
<1>3. CASE Routed \/ GiveUp \/ Wait \/ Join \/ BeginPhaseC \/ EndPhaseC \/ Poll \/ Abort
  BY <1>3 DEF Routed, GiveUp, Wait, Join, BeginPhaseC, EndPhaseC, Poll, Abort, Boundary, Entries
<1>4. CASE Launch \/ FanOut
  <2>1. UNCHANGED <<row, touched, result>> /\ Live /\ \A p \in Procs : ppc'[p] \in {ppc[p], "activate"}
    BY <1>4 DEF Launch, FanOut, Boundary
  <2> QED BY <2>1 DEF Entries
<1>5. ASSUME NEW w \in Writers, Read(w) PROVE Entries'
  BY <1>5 DEF Read, Entries
<1>6. ASSUME NEW w \in Writers, Write(w) PROVE Entries'
  <2>1. UNCHANGED <<result, touched>> /\ Writing[w] /\ w \in lock
    BY <1>6, Writes DEF Write
  <2>2. Live' => Live
    BY <1>6, <2>1, Writes, Names DEF Writing
  <2>3. SUFFICES ASSUME Live, ~touched PROVE Entries'
    BY <2>1, <2>2 DEF Entries
  <2>4. snap[w] = row /\ row' = Changed(w, row)
    BY <1>6, <2>1, <2>3, Writes DEF Alone
  <2>5. CASE w = Control /\ cpc = "reset"
    <3>1. ppc' = ppc /\ \A p \in Procs : ppc[p] = "idle"
      BY <1>6, <2>5, Writes DEF Stages
    <3> QED BY <3>1 DEF Entries
  <2>6. CASE w = Control /\ cpc # "reset"
    <3>1. ppc' = ppc /\ row'.entry = row.entry
      BY <1>6, <2>1, <2>4, <2>6, Writes, ControlChanges
    <3> QED BY <2>1, <2>3, <3>1 DEF Entries
  <2>7. CASE w \in Procs
    <3>1. /\ ppc'[w] = NextProc(w) /\ \A q \in Procs : q # w => ppc'[q] = ppc[q]
          /\ \A q \in Procs : q # w => row'.entry[q] = row.entry[q]
      BY <1>6, <2>1, <2>4, <2>7, Writes, ProcChanges
    <3>2. ppc[w] # "ownStop"
      BY <2>3, <2>7 DEF Entries
    <3>3. /\ ppc[w] \in {"activate", "name", "settle", "indexFail"}
          /\ ppc[w] = "activate" => ppc'[w] = "name" /\ row'.entry[w] = "active"
          /\ ppc[w] = "name" => ppc'[w] = "work" /\ row'.entry[w] = row.entry[w]
          /\ ppc[w] = "settle" => ppc'[w] = "over" /\ row'.entry[w] = result[w]
          /\ ppc[w] = "indexFail" => ppc'[w] = "indexFailed" /\ row'.entry[w] = "failed"
      BY <2>1, <2>4, <2>7, <3>1, <3>2, ProcChanges
    <3>4. ppc[w] = "settle" => result[w] \in Final
      BY <2>7 DEF HasStatus
    <3> QED BY <2>1, <2>3, <2>7, <3>1, <3>3, <3>4 DEF Entries
  <2> QED BY <2>5, <2>6, <2>7, Names
<1>7. ASSUME NEW w \in Writers, WriteFails(w) PROVE Entries'
  <2>1. ctxDone /\ touched' = touched /\ Writing[w]
    BY <1>7, FailedWrites
  <2>2. Live' => Live
    BY <1>7, <2>1, FailedWrites, Names DEF Writing
  <2> QED BY <2>1, <2>2 DEF Entries, Alone
<1>8. ASSUME NEW p \in Procs, Work(p) \/ Panic(p) \/ Index(p) PROVE Entries'
  <2>1. SUFFICES ASSUME Live, ~touched PROVE Entries'
    BY <1>8, ProcMoves DEF Entries
  <2>2. row' = row /\ ~ctxDone /\ \A q \in Procs : q # p => ppc'[q] = ppc[q] /\ result'[q] = result[q]
    BY <1>8, <2>1, ProcMoves DEF Alone
  <2>3. CASE ppc[p] = "work"
    <3>1. ppc'[p] = "settle" \/ (ppc'[p] = "over" /\ result'[p] = "panicked")
      BY <1>8, <2>2, <2>3, ProcMoves
    <3>2. row.entry[p] = "active"
      BY <2>1, <2>3 DEF Entries
    <3> QED BY <2>1, <2>2, <3>1, <3>2 DEF Entries
  <2>4. CASE ppc[p] = "over"
    <3>1. ppc'[p] \in {"indexed", "indexFail"} /\ result'[p] = result[p]
      BY <1>8, <2>4, ProcMoves
    <3> QED BY <2>1, <2>2, <2>4, <3>1 DEF Entries
  <2> QED BY <1>8, <2>3, <2>4, ProcMoves
<1>9. CASE SetRead \/ HealRead \/ WebStep
  <2>1. UNCHANGED <<cpc, ppc, result>> /\ (touched => touched') /\ (touched \/ touched' \/ WebWrites)
        /\ (row' # row => WebWrites)
    BY <1>9, WebSteps
  <2> QED BY <2>1 DEF Entries, Alone
<1>10. CASE UNCHANGED vars
  BY <1>10 DEF vars, Entries
<1> QED
  BY <1>1, <1>2, <1>3, <1>4, <1>5, <1>6, <1>7, <1>8, <1>9, <1>10 DEF Next, ControlStep, WriteStep

----------------------------------------------------------------------------
(* The end of a run *)

\* What the last writes of a run leave in the row, and where the run goes from them.
LEMMA LastWrites ==
  ASSUME TypeOK, Writing[Control], NEW r \in Rows
  PROVE  /\ cpc = "finish" => /\ Changed(Control, r).pipe \in Final
                             /\ NextControl = IF stopped THEN "clearEnd" ELSE "off"
         /\ cpc = "clearEnd" => Changed(Control, r).pipe = r.pipe /\ NextControl = "off"
         /\ cpc \notin {"finish", "clearEnd"} => NextControl \notin {"off", "clearEnd"}
<1>1. cpc \in {"clear", "waiting", "reset", "announce", "announceC", "finish", "clearEnd"}
  BY Names DEF Writing
<1>2. CASE cpc = "finish"
  <2>1. Changed(Control, r) = WithPipeline(r, Outcome, NoProc) /\ Outcome \in Final
    BY <1>2 DEF Changed, Outcome
  <2>2. WithPipeline(r, Outcome, NoProc).pipe = Outcome
    BY DEF WithPipeline, Rows
  <2> QED BY <1>2, <2>1, <2>2 DEF NextControl
<1>3. CASE cpc = "clearEnd"
  <2>1. Changed(Control, r) = WithStop(r, FALSE)
    BY <1>3 DEF Changed
  <2>2. WithStop(r, FALSE).pipe = r.pipe
    BY DEF WithStop, Rows
  <2> QED BY <1>3, <2>1, <2>2 DEF NextControl
<1> QED BY <1>1, <1>2, <1>3 DEF NextControl

\* Once the run is at its last write, no processor writes.
LEMMA OnlyControl ==
  ASSUME Stages, cpc \in {"off", "finish", "clearEnd"}, NEW w \in Writers, Writing[w]
  PROVE  w = Control
BY Names DEF Stages, Writing

\* Every write of the web server sets the flag, or leaves a status that is not running.
LEMMA WebChanges ==
  ASSUME TypeOK
  PROVE  /\ SetWrite => row'.stop /\ web = "set" /\ web' = "marking"
         /\ MarkWrite => row'.pipe = "stopped" /\ web = "mark"
         /\ HealWrite => row'.pipe = "success" /\ row'.stop = sick.stop
BY DEF SetWrite, MarkWrite, HealWrite, WithStop, WithPipeline, Rows, TypeOK

LEMMA UnflaggedStep ==
  ASSUME TypeOK, HasStatus, Unflagged, [Next]_vars
  PROVE  Unflagged'
<1> USE DEF TypeOK, rowVars, controlVars, procVars, webVars, healVars, countVars, NoFlagYet
<1>1. CASE StartRun
  BY <1>1 DEF StartRun, BeginAt, Unflagged
<1>2. CASE Poll \/ Abort
  BY <1>2 DEF Poll, Abort, Unflagged
<1>3. CASE Routed \/ Wait \/ GiveUp \/ Launch \/ FanOut \/ Join \/ BeginPhaseC \/ EndPhaseC
  BY <1>3 DEF Routed, Wait, GiveUp, Launch, FanOut, Join, BeginPhaseC, EndPhaseC, Boundary, Unflagged
<1>4. ASSUME NEW w \in Writers, Read(w) PROVE Unflagged'
  BY <1>4 DEF Read, Unflagged
<1>5. ASSUME NEW w \in Writers, Write(w) PROVE Unflagged'
  <2>1. /\ Writing[w] /\ snap[w] \in Rows /\ row' = Changed(w, snap[w])
        /\ UNCHANGED <<stops, aborts, web, sick, ctxDone, stopped>>
    BY <1>5, Writes
  <2>2. row'.stop \in {snap[w].stop, FALSE}
    <3>1. CASE w = Control
      BY <2>1, <3>1, ControlChanges
    <3>2. CASE w \in Procs
      BY <2>1, <3>2, ProcChanges
    <3> QED BY <3>1, <3>2, Names
  <2>3. \A v \in Writers : snap'[v] \in {snap[v], EmptyRow}
    BY <1>5 DEF Write
  <2>4. ~EmptyRow.stop
    BY DEF EmptyRow
  <2>5. cpc' = "clearEnd" => stopped
    <3>1. CASE w = Control
      BY <1>5, <2>1, <3>1, Writes, LastWrites DEF Unflagged
    <3>2. CASE w \in Procs
      BY <1>5, <3>2, Writes DEF Unflagged
    <3> QED BY <3>1, <3>2, Names
  <2> QED BY <2>1, <2>2, <2>3, <2>4, <2>5 DEF Unflagged
<1>6. ASSUME NEW w \in Writers, WriteFails(w) PROVE Unflagged'
  <2>1. /\ Writing[w] /\ ctxDone /\ ~Background(w)
        /\ UNCHANGED <<stops, aborts, web, sick, ctxDone, stopped>>
    BY <1>6, FailedWrites
  <2>2. cpc' = "clearEnd" => stopped
    <3>1. CASE w = Control
      <4>1. cpc \notin {"finish", "clearEnd"}
        BY <2>1, <3>1 DEF Background
      <4> QED BY <1>6, <2>1, <3>1, <4>1, EmptyTyped, FailedWrites, LastWrites
    <3>2. CASE w \in Procs
      BY <1>6, <3>2, FailedWrites DEF Unflagged
    <3> QED BY <3>1, <3>2, Names
  <2>3. row' = row /\ \A v \in Writers : ~snap'[v].stop
    BY <1>6, FailedWrites DEF NoSnaps, EmptyRow
  <2> QED BY <2>1, <2>2, <2>3 DEF Unflagged
<1>7. ASSUME NEW p \in Procs, Work(p) \/ Panic(p) \/ Index(p) PROVE Unflagged'
  <2>1. UNCHANGED <<rowVars, controlVars, ctxDone, webVars, healVars, countVars, touched>>
    BY <1>7, ProcMoves
  <2> QED BY <2>1 DEF Unflagged
<1>8. CASE SetRead
  BY <1>8 DEF SetRead, Unflagged
<1>9. CASE HealRead
  BY <1>9 DEF HealRead, Unflagged
<1>10. CASE SetWrite
  BY <1>10 DEF SetWrite, Unflagged
<1>11. CASE MarkRead
  BY <1>11 DEF MarkRead, Unflagged
<1>12. CASE MarkWrite
  BY <1>12 DEF MarkWrite, Unflagged
<1>13. CASE HealWrite
  <2>1. row'.stop = sick.stop /\ sick' = EmptyRow
    BY <1>13, WebChanges DEF HealWrite
  <2>2. ~EmptyRow.stop
    BY DEF EmptyRow
  <2> QED BY <1>13, <2>1, <2>2 DEF HealWrite, Unflagged
<1>14. CASE Crash
  <2>1. \A w \in Writers : ~NoSnaps[w].stop
    BY DEF NoSnaps, EmptyRow
  <2> QED BY <1>14, <2>1 DEF Crash, Unflagged
<1>15. CASE UNCHANGED vars
  BY <1>15 DEF vars, Unflagged
<1> QED
  BY <1>1, <1>2, <1>3, <1>4, <1>5, <1>6, <1>7, <1>8, <1>9, <1>10, <1>11, <1>12, <1>13, <1>14, <1>15
     DEF Next, ControlStep, WriteStep, WebStep

\* While the last write is to come the flag has been written, so the stop request has
\* no running row left to write.
LEMMA FinishedStep ==
  ASSUME TypeOK, HasStatus, Stages, Unflagged, Finished, [Next]_vars
  PROVE  Finished'
<1> USE DEF TypeOK, rowVars, controlVars, procVars, webVars, healVars, countVars
<1>0. cpc = "clearEnd" /\ aborts = 0 => ~NoFlagYet
  BY DEF Unflagged
<1>1. CASE StartRun \/ Crash
  BY <1>1 DEF StartRun, BeginAt, Crash, Finished
<1>2. CASE Poll \/ Abort
  BY <1>2 DEF Poll, Abort, Finished
<1>3. CASE Routed \/ Wait \/ GiveUp \/ Launch \/ FanOut \/ Join \/ BeginPhaseC \/ EndPhaseC
  BY <1>3 DEF Routed, Wait, GiveUp, Launch, FanOut, Join, BeginPhaseC, EndPhaseC, Boundary, Finished
<1>4. ASSUME NEW w \in Writers, Read(w) PROVE Finished'
  BY <1>4, Names DEF Read, Finished
<1>5. ASSUME NEW w \in Writers, Write(w) \/ WriteFails(w) PROVE Finished'
  <2>1. SUFFICES ASSUME cpc' = "clearEnd" PROVE Finished'
    BY DEF Finished
  <2>2. Writing[w]
    BY <1>5, Writes, FailedWrites
  <2>3. w = Control
    <3>1. w \in Procs => cpc' = cpc
      BY <1>5, Writes, FailedWrites
    <3> QED BY <2>1, <2>2, <3>1, OnlyControl, Names
  <2>4. cpc' = NextControl
    BY <1>5, <2>3, Writes, FailedWrites
  <2>5. cpc = "finish"
    BY <2>1, <2>2, <2>3, <2>4, EmptyTyped, LastWrites
  <2>6. Write(w)
    BY <1>5, <2>3, <2>5 DEF WriteFails, Background
  <2>7. row' = Changed(Control, snap[w]) /\ snap[w] \in Rows /\ lock' = lock \ {Control}
    BY <2>3, <2>6, Writes
  <2>8. row'.pipe \in Final
    BY <2>2, <2>3, <2>5, <2>7, LastWrites
  <2> QED BY <2>7, <2>8 DEF Finished
<1>6. ASSUME NEW p \in Procs, Work(p) \/ Panic(p) \/ Index(p) PROVE Finished'
  <2>1. UNCHANGED <<rowVars, controlVars, ctxDone, webVars, healVars, countVars, touched>>
    BY <1>6, ProcMoves
  <2> QED BY <2>1 DEF Finished
<1>7. CASE SetRead \/ HealRead \/ MarkRead
  BY <1>7 DEF SetRead, HealRead, MarkRead, Finished
<1>8. CASE SetWrite
  <2>1. cpc = "clearEnd" /\ OneStop => stops = 0 \/ web # "set"
    BY <1>0 DEF NoFlagYet, OneStop
  <2> QED BY <1>8, <2>1 DEF SetWrite, Unflagged, Finished
<1>9. CASE MarkWrite \/ HealWrite
  <2>1. row'.pipe # "running" /\ UNCHANGED <<lock, snap, cpc, stops, aborts>>
    BY <1>9, WebChanges DEF MarkWrite, HealWrite
  <2> QED BY <2>1 DEF Finished
<1>10. CASE UNCHANGED vars
  BY <1>10 DEF vars, Finished
<1> QED
  BY <1>1, <1>2, <1>3, <1>4, <1>5, <1>6, <1>7, <1>8, <1>9, <1>10
     DEF Next, ControlStep, WriteStep, WebStep

\* A run leaves the row settled, and a stop request that finds no run makes it so.
LEMMA SettledStep ==
  ASSUME TypeOK, HasStatus, Stages, Unflagged, Finished, OneStopSettles, [Next]_vars
  PROVE  OneStopSettles'
<1> USE DEF TypeOK, rowVars, controlVars, procVars, webVars, healVars, countVars, WebWrites
<1>1. CASE StartRun
  BY <1>1 DEF StartRun, BeginAt, OneStopSettles, Settled
<1>2. CASE Poll \/ Abort
  BY <1>2 DEF Poll, Abort, OneStopSettles, Settled
<1>3. CASE Routed \/ Wait \/ Launch \/ FanOut \/ Join \/ BeginPhaseC \/ EndPhaseC
  BY <1>3 DEF Routed, Wait, Launch, FanOut, Join, BeginPhaseC, EndPhaseC, Boundary, OneStopSettles, Settled
<1>4. CASE GiveUp \/ Crash
  BY <1>4 DEF GiveUp, Crash, OneStopSettles, Settled
<1>5. ASSUME NEW w \in Writers, Read(w) PROVE OneStopSettles'
  BY <1>5 DEF Read, OneStopSettles, Settled
<1>6. ASSUME NEW w \in Writers, Write(w) \/ WriteFails(w) PROVE OneStopSettles'
  <2>1. SUFFICES ASSUME cpc' = "off", OneStop' PROVE row'.pipe # "running"
    BY DEF OneStopSettles, Settled
  <2>2. Writing[w] /\ UNCHANGED <<stops, aborts>>
    BY <1>6, Writes, FailedWrites
  <2>3. w = Control /\ cpc # "off"
    <3>1. w \in Procs => cpc' = cpc
      BY <1>6, Writes, FailedWrites
    <3>2. w = Control
      BY <2>1, <2>2, <3>1, OnlyControl, Names
    <3> QED BY <2>2, <3>2, Names DEF Writing
  <2>4. cpc' = NextControl
    BY <1>6, <2>3, Writes, FailedWrites
  <2>5. cpc \in {"finish", "clearEnd"}
    BY <2>1, <2>2, <2>3, <2>4, EmptyTyped, LastWrites
  <2>6. Write(w)
    BY <1>6, <2>3, <2>5 DEF WriteFails, Background
  <2>7. row' = Changed(Control, snap[w]) /\ snap[w] \in Rows /\ w \in lock
    BY <2>3, <2>6, Writes DEF Write
  <2>8. CASE cpc = "finish"
    BY <2>2, <2>3, <2>7, <2>8, LastWrites
  <2>9. CASE cpc = "clearEnd"
    <3>1. snap[w].pipe # "running"
      BY <2>1, <2>2, <2>3, <2>7, <2>9 DEF Finished
    <3> QED BY <2>2, <2>3, <2>7, <2>9, <3>1, LastWrites
  <2> QED BY <2>5, <2>8, <2>9
<1>7. ASSUME NEW p \in Procs, Work(p) \/ Panic(p) \/ Index(p) PROVE OneStopSettles'
  <2>1. UNCHANGED <<rowVars, controlVars, ctxDone, webVars, healVars, countVars, touched>>
    BY <1>7, ProcMoves
  <2> QED BY <2>1 DEF OneStopSettles, Settled
<1>8. CASE SetRead \/ HealRead \/ SetWrite
  BY <1>8 DEF SetRead, HealRead, SetWrite, OneStopSettles, Settled
<1>9. CASE MarkRead
  BY <1>9 DEF MarkRead, OneStopSettles, Settled
<1>10. CASE MarkWrite \/ HealWrite
  BY <1>10, WebChanges DEF OneStopSettles, Settled
<1>11. CASE UNCHANGED vars
  BY <1>11 DEF vars, OneStopSettles, Settled
<1> QED
  BY <1>1, <1>2, <1>3, <1>4, <1>5, <1>6, <1>7, <1>8, <1>9, <1>10, <1>11
     DEF Next, ControlStep, WriteStep, WebStep

----------------------------------------------------------------------------
(* The theorems *)

LEMMA Step == IInv /\ [Next]_vars => IInv'
BY TypeStep, HasStatusStep, StagesStep, LockedStep, AloneStep, EntriesStep DEF IInv

\* All of the invariant holds in every reachable state.
THEOREM Invariance == Spec => []IInv
BY InitOK, Step, PTL DEF Spec

\* The variables have their types.
THEOREM Typing == Spec => []TypeOK
<1>1. IInv => TypeOK
  BY DEF IInv
<1> QED BY <1>1, Invariance, PTL

\* None of the concurrent writes of a run that nobody stopped, aborted or healed
\* is lost.
THEOREM NoWriteIsLost == Spec => []EntriesSurvive
<1>1. IInv => EntriesSurvive
  <2> SUFFICES ASSUME IInv, cpc = "finish", ~touched, NEW p \in Procs PROVE row.entry[p] = Told(p)
    BY DEF EntriesSurvive
  <2>1. ~stopped
    BY DEF IInv, Alone
  <2>2. ppc[p] \in {"over", "indexed", "indexFailed"}
    BY <2>1 DEF IInv, Stages
  <2> QED BY <2>2 DEF IInv, Entries, Told
<1> QED BY <1>1, Invariance, PTL

\* A stop request that was answered before a run began does not stop it.
THEOREM FlagsAreCleared == Spec => []OldStopsAreCleared
<1>1. IInv => OldStopsAreCleared
  BY DEF IInv, Alone, OldStopsAreCleared
<1> QED BY <1>1, Invariance, PTL

\* A run whose context is canceled before it ends is stopped.
THEOREM StoppedIsStopped == Spec => StopWins
<1> DEFINE Wins == cpc # "finish" /\ cpc' = "finish" /\ ctxDone => stopped'
<1>1. TypeOK /\ HasStatus /\ [Next]_vars => [Wins]_vars
  <2> SUFFICES ASSUME TypeOK, HasStatus, Next, cpc # "finish", cpc' = "finish", ctxDone PROVE stopped'
    BY DEF Wins
  <2> USE DEF rowVars, controlVars, procVars, webVars, healVars, countVars
  <2>1. CASE ControlStep
    BY <2>1 DEF ControlStep, Routed, GiveUp, Wait, Launch, FanOut, Join, BeginPhaseC, EndPhaseC, Boundary
  <2>2. ASSUME NEW w \in Writers, Write(w) \/ WriteFails(w) PROVE cpc' \in {cpc, NextControl} /\ Writing[w]
                                                                  /\ (cpc' # cpc => w = Control)
    BY <2>2, Writes, FailedWrites, Names
  <2>3. ASSUME NEW w \in Writers, Write(w) \/ WriteFails(w) PROVE FALSE
    BY <2>2, <2>3, ControlGoesOn
  <2>4. ASSUME NEW p \in Procs, Work(p) \/ Panic(p) \/ Index(p) PROVE cpc' = cpc
    BY <2>4, ProcMoves
  <2>5. ASSUME StartRun \/ Poll \/ Abort \/ Crash \/ (\E w \in Writers : Read(w)) PROVE cpc' # "finish" \/ cpc' = cpc
    BY <2>5 DEF StartRun, BeginAt, Poll, Abort, Crash, Read
  <2>6. ASSUME SetRead \/ HealRead \/ WebStep PROVE cpc' = cpc
    BY <2>6, WebSteps
  <2> QED BY <2>1, <2>3, <2>4, <2>5, <2>6 DEF Next, WriteStep
<1>2. IInv => TypeOK /\ HasStatus
  BY DEF IInv
<1> QED BY <1>1, <1>2, Invariance, PTL DEF Spec, StopWins

\* A record that was never stopped, or was stopped once and not aborted as well, is not
\* left on running by whatever ends its runs: the stop handler, a crash, the auto-heal and
\* the end of a span may come in any order.
THEOREM StopSettles == Spec => []OneStopSettles
<1>1. Init => SInv
  BY DEF Init, SInv, Unflagged, Finished, OneStopSettles, Settled, NoFlagYet, EmptyRow, NoSnaps
<1>2. IInv /\ SInv /\ [Next]_vars => SInv'
  BY UnflaggedStep, FinishedStep, SettledStep DEF IInv, SInv
<1>3. SInv => OneStopSettles
  BY DEF SInv
<1> QED BY <1>1, <1>2, <1>3, Invariance, PTL DEF Spec

----------------------------------------------------------------------------
(* The runs implement PhasedRun *)

\* A run in progress is counted and alive, what is to be launched is idle, and only
\* processors that have worked have results.
Begun ==
  Live => /\ runs > 0 /\ deadIn = "alive"
          /\ cpc = "sequential" => \A i \in idx..Len(Sequential) : ppc[Sequential[i]] = "idle"
          /\ \A p \in Procs : ppc[p] \in {"idle", "activate", "name", "work"} => result[p] = "none"

LEMMA BegunStep ==
  ASSUME TypeOK, HasStatus, Stages, Begun, [Next]_vars
  PROVE  Begun'
<1> USE DEF TypeOK, rowVars, controlVars, procVars, webVars, healVars, countVars
<1>1. CASE StartRun
  <2>1. runs' = runs + 1 /\ runs \in Nat
    BY <1>1, BoundsAssumption DEF StartRun, BeginAt
  <2> QED BY <1>1, <2>1 DEF StartRun, BeginAt, Begun
<1>2. CASE Crash \/ GiveUp
  BY <1>2 DEF Crash, GiveUp, Begun
<1>3. ASSUME UNCHANGED <<result, runs, deadIn>>, Live, cpc' # "sequential",
             \A p \in Procs : ppc'[p] = ppc[p] \/ ppc[p] = "idle"
      PROVE  Begun'
  BY <1>3 DEF Begun
<1>4. CASE Routed \/ Wait \/ Join \/ BeginPhaseC \/ EndPhaseC
  BY <1>3, <1>4 DEF Routed, Wait, Join, BeginPhaseC, EndPhaseC, Boundary
<1>5. CASE Launch
  <2>1. CASE idx > 1 /\ ctxDone
    BY <1>3, <1>5, <2>1 DEF Launch, Boundary
  <2>2. CASE ~(idx > 1 /\ ctxDone)
    <3>1. /\ ppc' = [ppc EXCEPT ![Sequential[idx]] = "activate"] /\ idx' = idx + 1
          /\ cpc = "sequential" /\ idx \in 1..Len(Sequential)
          /\ UNCHANGED <<result, runs, deadIn, cpc>>
      BY <1>5, <2>2 DEF Launch
    <3>2. Sequential[idx] \in Procs /\ ppc[Sequential[idx]] = "idle"
      BY <3>1, Names DEF Begun
    <3>3. \A p \in Procs : ppc'[p] = IF p = Sequential[idx] THEN "activate" ELSE ppc[p]
      BY <3>1, <3>2
    <3>4. \A i \in (idx + 1)..Len(Sequential) : Sequential[i] \in Procs /\ Sequential[i] # Sequential[idx]
                                                 /\ i \in idx..Len(Sequential)
      BY <3>1, Names, ProcsAssumption
    <3> QED BY <3>1, <3>2, <3>3, <3>4 DEF Begun
  <2> QED BY <2>1, <2>2
<1>6. CASE FanOut
  <2>1. /\ cpc = "sequential" /\ cpc' # "sequential" /\ UNCHANGED <<result, runs, deadIn>>
        /\ ppc' = [p \in Procs |-> IF p \in PhaseB /\ ~ctxDone THEN "activate" ELSE ppc[p]]
    BY <1>6 DEF FanOut, Boundary
  <2>2. \A p \in PhaseB : ppc[p] = "idle"
    BY <2>1 DEF Stages
  <2> QED BY <1>3, <2>1, <2>2
<1>7. ASSUME NEW w \in Writers, Write(w) \/ WriteFails(w) PROVE Begun'
  <2>1. Writing[w] /\ UNCHANGED <<idx, result, runs, deadIn>>
    BY <1>7, Writes, FailedWrites
  <2>2. CASE w = Control
    <3>1. cpc' = NextControl /\ ppc' = ppc
      BY <1>7, <2>2, Writes, FailedWrites
    <3>2. Live
      BY <2>1, <2>2, Names DEF Writing
    <3>3. cpc' = "sequential" => cpc = "announce"
      BY <2>1, <2>2, <3>1, EmptyTyped, ControlChanges, ControlGoesOn
    <3>4. cpc = "announce" => \A p \in Procs : ppc[p] = "idle"
      BY DEF Stages
    <3>5. \A i \in idx..Len(Sequential) : Sequential[i] \in Procs
      BY Names
    <3> QED BY <2>1, <3>1, <3>2, <3>3, <3>4, <3>5 DEF Begun
  <2>3. CASE w \in Procs
    <3>1. cpc' = cpc /\ ppc'[w] = NextProc(w) /\ \A q \in Procs : q # w => ppc'[q] = ppc[q]
      BY <1>7, <2>3, Writes, FailedWrites
    <3>2. ppc[w] \in {"activate", "name", "ownStop", "settle", "indexFail"}
          /\ (ppc'[w] \in {"idle", "activate", "name", "work"} => ppc[w] \in {"activate", "name"})
      BY <2>1, <2>3, <3>1, EmptyTyped, ProcChanges
    <3>3. \A i \in idx..Len(Sequential) : Sequential[i] \in Procs
      BY Names
    <3> QED BY <2>1, <2>3, <3>1, <3>2, <3>3 DEF Begun
  <2> QED BY <2>2, <2>3, Names
<1>8. ASSUME NEW p \in Procs, Work(p) \/ Panic(p) \/ Index(p) PROVE Begun'
  <2>1. /\ ppc[p] \in {"work", "over"} /\ ppc'[p] \notin {"idle", "activate", "name", "work"}
        /\ \A q \in Procs : q # p => ppc'[q] = ppc[q] /\ result'[q] = result[q]
        /\ UNCHANGED <<cpc, idx, runs, deadIn>>
    BY <1>8, ProcMoves
  <2>2. \A i \in idx..Len(Sequential) : Sequential[i] \in Procs
    BY Names
  <2> QED BY <2>1, <2>2 DEF Begun
<1>9. ASSUME UNCHANGED <<cpc, idx, ppc, result, runs, deadIn>> PROVE Begun'
  BY <1>9 DEF Begun
<1>10. ASSUME NEW w \in Writers, Read(w) PROVE Begun'
  BY <1>9, <1>10 DEF Read
<1>11. CASE Poll \/ Abort
  BY <1>9, <1>11 DEF Poll, Abort
<1>12. CASE SetRead \/ HealRead \/ WebStep
  BY <1>9, <1>12, WebSteps
<1>13. CASE UNCHANGED vars
  BY <1>9, <1>13 DEF vars
<1> QED
  BY <1>1, <1>2, <1>4, <1>5, <1>6, <1>7, <1>8, <1>10, <1>11, <1>12, <1>13 DEF Next, ControlStep, WriteStep

\* Where the run and its processors are in PhasedRun, before and after a step.
LEMMA Mapped ==
  ASSUME TypeOK
  PROVE  /\ cpc \in {"finish", "clearEnd"} => StageOf = "over"
         /\ cpc = "phaseC" => StageOf = "indexing"
         /\ cpc = "off" => StageOf \in {"idle", "over", "dead"}
         /\ cpc = "off" /\ runs > 0 =>
              StageOf = IF deadIn \in {"alive", "finish", "clearEnd"} THEN "over" ELSE "dead"
         /\ cpc \in BeforeProcs \cup {"sequential", "phaseB", "announceC", "enterC"} => StageOf = "processing"
         /\ InRun <=> StageOf \in {"processing", "indexing"}
BY DEF StageOf, InRun, TypeOK

LEMMA MappedAfter ==
  ASSUME TypeOK'
  PROVE  /\ cpc' \in {"finish", "clearEnd"} => StageOf' = "over"
         /\ cpc' = "phaseC" => StageOf' = "indexing"
         /\ cpc' = "off" => StageOf' \in {"idle", "over", "dead"}
         /\ cpc' = "off" /\ runs' > 0 =>
              StageOf' = IF deadIn' \in {"alive", "finish", "clearEnd"} THEN "over" ELSE "dead"
         /\ cpc' \in BeforeProcs \cup {"sequential", "phaseB", "announceC", "enterC"} => StageOf' = "processing"
         /\ InRun' <=> StageOf' \in {"processing", "indexing"}
BY DEF StageOf, InRun, TypeOK

LEMMA MappedWork ==
  ASSUME TypeOK, NEW p \in Procs
  PROVE  /\ workOf[p] = IF InRun THEN WorkOf(p) ELSE "idle"
         /\ ppc[p] = "idle" => WorkOf(p) = "idle"
         /\ ppc[p] \in Running => WorkOf(p) = "busy"
         /\ ppc[p] \in Indexing => WorkOf(p) = "done"
BY DEF TypeOK, workOf, WorkOf

LEMMA MappedWorkAfter ==
  ASSUME TypeOK', NEW p \in Procs
  PROVE  /\ workOf'[p] = IF InRun' THEN WorkOf(p)' ELSE "idle"
         /\ ppc'[p] = "idle" => WorkOf(p)' = "idle"
         /\ ppc'[p] \in Running => WorkOf(p)' = "busy"
         /\ ppc'[p] \in Indexing => WorkOf(p)' = "done"
BY DEF TypeOK, workOf, WorkOf

\* Nothing of PhasedRun changes: while a run works, or when none does.
LEMMA KeptInRun ==
  ASSUME TypeOK, TypeOK', InRun, UNCHANGED <<StageOf, ctxDone, result>>,
         \A p \in Procs : \/ ppc'[p] = ppc[p]
                          \/ ppc[p] \in Running /\ ppc'[p] \in Running
  PROVE  UNCHANGED Phased!runVars
<1>1. InRun' /\ UNCHANGED <<canceledOf, troubleOf, outcomeOf>>
  BY DEF InRun, canceledOf, troubleOf, outcomeOf
<1>2. \A p \in Procs : WorkOf(p)' = WorkOf(p)
  BY MappedWork, MappedWorkAfter DEF WorkOf
<1>3. workOf' = workOf
  BY <1>1, <1>2 DEF workOf
<1>4. indexedOf' = indexedOf
  BY <1>1 DEF indexedOf, Indexers
<1> QED BY <1>1, <1>3, <1>4 DEF Phased!runVars

LEMMA KeptOutside ==
  ASSUME TypeOK, ~InRun, UNCHANGED <<StageOf, stopped, result>>
  PROVE  UNCHANGED Phased!runVars
<1>1. ~InRun' /\ UNCHANGED <<canceledOf, troubleOf, outcomeOf>>
  BY DEF InRun, canceledOf, troubleOf, outcomeOf, Outcome
<1>2. workOf' = workOf
  BY <1>1 DEF workOf
<1>3. indexedOf' = indexedOf
  BY <1>1 DEF indexedOf
<1> QED BY <1>1, <1>2, <1>3 DEF Phased!runVars

\* What is left when no run is in progress.
LEMMA Left ==
  /\ ~InRun => /\ workOf = Phased!AtRest /\ indexedOf = {}
               /\ canceledOf = FALSE /\ troubleOf = FALSE
  /\ ~InRun' => Phased!Leave
<1>1. ~InRun => /\ workOf = Phased!AtRest /\ indexedOf = {}
                /\ canceledOf = FALSE /\ troubleOf = FALSE
  BY DEF workOf, indexedOf, canceledOf, troubleOf, Phased!AtRest
<1>2. ~InRun' => Phased!Leave
  BY DEF workOf, indexedOf, canceledOf, troubleOf, Phased!Leave, Phased!AtRest
<1> QED BY <1>1, <1>2

\* A run works, begins to index, ends or dies.
LEMMA WorkMapped ==
  ASSUME TypeOK, TypeOK', StageOf = "processing", StageOf' = "processing", UNCHANGED ctxDone,
         \A p \in Procs : \/ ppc'[p] = ppc[p] /\ result'[p] = result[p]
                          \/ ppc[p] = "idle" /\ ppc'[p] \in Running /\ result'[p] = result[p]
                          \/ ppc[p] \in Running /\ ppc'[p] \in Running \cup {"over"}
                             /\ result[p] \in {"none", result'[p]}
  PROVE  Phased!Work
<1>1. InRun /\ InRun' /\ UNCHANGED <<StageOf, canceledOf, outcomeOf>>
  BY DEF InRun, canceledOf, outcomeOf
<1>2. \A p \in Procs : workOf'[p] \in {"idle", "busy", "done"} /\ Phased!Forward(p)
  BY <1>1, MappedWork, MappedWorkAfter DEF Phased!Forward, WorkOf
<1>3. workOf' \in [Procs -> {"idle", "busy", "done"}]
  BY <1>2 DEF workOf
<1>4. indexedOf' = indexedOf
  BY <1>1 DEF indexedOf, Indexers
<1>5. troubleOf' \in BOOLEAN /\ (troubleOf => troubleOf')
  <2>1. \A p \in Procs : result[p] \in {"failed", "panicked"} => result'[p] \in {"failed", "panicked"}
    OBVIOUS
  <2> QED BY <1>1, <2>1 DEF troubleOf
<1> QED BY <1>1, <1>2, <1>3, <1>4, <1>5 DEF Phased!Work

LEMMA EndMapped ==
  ASSUME TypeOK, TypeOK', InRun, cpc' = "finish", stopped' = ctxDone, UNCHANGED result,
         \/ StageOf = "processing" /\ ctxDone /\ \A p \in Procs : ppc[p] \notin Running
         \/ StageOf = "indexing" /\ IndexingOver
  PROVE  Phased!End
<1>1. StageOf' = "over" /\ ~InRun'
  BY MappedAfter DEF InRun
<1>2. outcomeOf' = IF canceledOf THEN "stopped" ELSE IF troubleOf THEN "failed" ELSE "success"
  BY <1>1 DEF outcomeOf, Outcome, canceledOf, troubleOf
<1>3. \/ StageOf = "processing" /\ canceledOf /\ \A p \in Procs : workOf[p] # "busy"
      \/ StageOf = "indexing" /\ indexedOf = Indexers
  <2>1. CASE StageOf = "processing"
    <3>1. canceledOf
      BY <2>1 DEF canceledOf
    <3>2. ASSUME NEW p \in Procs PROVE workOf[p] # "busy"
      <4>1. ppc[p] \in Indexing \cup {"idle"}
        BY <2>1 DEF TypeOK
      <4> QED BY <4>1, MappedWork
    <3> QED BY <2>1, <3>1, <3>2
  <2>2. CASE StageOf = "indexing"
    BY <2>2 DEF indexedOf, IndexingOver
  <2> QED BY <2>1, <2>2 DEF InRun
<1> QED BY <1>1, <1>2, <1>3, Left DEF Phased!End

LEMMA PhasedStep ==
  ASSUME IInv, IInv', Begun, [Next]_vars
  PROVE  [Phased!Next]_(Phased!runVars)
<1> USE DEF rowVars, controlVars, procVars, webVars, healVars, countVars
<1>0. TypeOK /\ TypeOK' /\ HasStatus /\ Stages
  BY DEF IInv
<1>1. CASE StartRun
  <2>1. /\ cpc = "off" /\ cpc' = "clear" /\ ~ctxDone'
        /\ ppc' = [p \in Procs |-> "idle"] /\ result' = [p \in Procs |-> "none"]
    BY <1>1 DEF StartRun, BeginAt
  <2>2. StageOf' = "processing" /\ InRun' /\ StageOf \notin {"processing", "indexing"} /\ ~InRun
    BY <1>0, <2>1, Mapped, MappedAfter
  <2>3. \A p \in Procs : workOf'[p] = "idle"
    BY <1>0, <2>1, <2>2, MappedWorkAfter
  <2>4. workOf' = Phased!AtRest
    BY <2>3 DEF workOf, Phased!AtRest
  <2>5. UNCHANGED <<indexedOf, canceledOf, troubleOf>> /\ outcomeOf' = "none"
    BY <2>1, <2>2 DEF indexedOf, Indexers, canceledOf, troubleOf, outcomeOf
  <2>6. workOf' = workOf
    BY <2>2, <2>4, Left
  <2> QED BY <2>2, <2>5, <2>6 DEF Phased!Next, Phased!Start, Phased!InProgress
<1>2. CASE Poll \/ Abort
  <2>1. /\ cpc \notin {"off", "clear"} /\ ctxDone'
        /\ UNCHANGED <<cpc, ppc, result, stopped, runs, deadIn>>
    BY <1>2 DEF Poll, Abort
  <2>2. StageOf' = StageOf /\ InRun' = InRun
    BY <2>1 DEF StageOf, InRun
  <2>3. CASE InRun
    <3>1. canceledOf' /\ UNCHANGED <<workOf, indexedOf, troubleOf, outcomeOf>>
      BY <2>1, <2>2, <2>3 DEF canceledOf, workOf, WorkOf, indexedOf, troubleOf, outcomeOf, InRun, Outcome
    <3> QED BY <2>2, <2>3, <3>1 DEF InRun, Phased!Next, Phased!Cancel, Phased!InProgress
  <2>4. CASE ~InRun
    BY <1>0, <2>1, <2>2, <2>4, KeptOutside
  <2> QED BY <2>3, <2>4
<1>3. CASE Routed \/ Wait \/ FanOut \/ Launch \/ Join \/ BeginPhaseC \/ EndPhaseC
  <2>1. ASSUME cpc' = "finish", stopped' = ctxDone, ctxDone, UNCHANGED result,
               cpc \in BeforeProcs \cup {"sequential", "phaseB", "enterC"},
               \A p \in Procs : ppc[p] \notin Running
        PROVE  Phased!Next
    BY <1>0, <2>1, Mapped, EndMapped DEF Phased!Next
  <2>2. ASSUME {cpc, cpc'} \subseteq BeforeProcs \cup {"sequential", "phaseB", "announceC"}, UNCHANGED <<ctxDone, result>>,
               \A p \in Procs : \/ ppc'[p] = ppc[p]
                                \/ ppc[p] = "idle" /\ ppc'[p] = "activate"
        PROVE  Phased!Next
    BY <1>0, <2>2, Mapped, MappedAfter, WorkMapped DEF Phased!Next
  <2>3. CASE Routed \/ Wait
    <3>1. cpc \in {"routing", "admitted"} /\ UNCHANGED <<ctxDone, result, ppc>>
      BY <2>3 DEF Routed, Wait, Boundary
    <3>2. \A p \in Procs : ppc[p] = "idle"
      BY <1>0, <3>1 DEF Stages
    <3>3. CASE cpc' = "finish"
      BY <2>1, <2>3, <3>1, <3>2, <3>3 DEF Routed, Wait, Boundary
    <3>4. CASE cpc' # "finish"
      BY <2>2, <2>3, <3>1, <3>4 DEF Routed, Wait, Boundary
    <3> QED BY <3>3, <3>4
  <2>4. CASE Launch
    <3>1. cpc = "sequential" /\ idx \in 1..Len(Sequential) /\ UNCHANGED <<ctxDone, result>>
      <4>1. cpc = "sequential" /\ idx <= Len(Sequential) /\ UNCHANGED <<ctxDone, result>>
        BY <2>4 DEF Launch, Boundary
      <4> QED BY <1>0, <4>1, Names DEF TypeOK
    <3>2. \A p \in Procs : ppc[p] \in {"idle", "over"}
      BY <1>0, <2>4, <3>1 DEF Launch, Stages
    <3>3. CASE idx > 1 /\ ctxDone
      BY <2>1, <2>4, <3>1, <3>2, <3>3 DEF Launch, Boundary
    <3>4. CASE ~(idx > 1 /\ ctxDone)
      <4>1. ppc' = [ppc EXCEPT ![Sequential[idx]] = "activate"] /\ cpc' = cpc
        BY <2>4, <3>4 DEF Launch
      <4>2. Sequential[idx] \in Procs /\ ppc[Sequential[idx]] = "idle"
        BY <3>1, Names DEF Begun
      <4>3. \A p \in Procs : ppc'[p] = ppc[p] \/ (ppc[p] = "idle" /\ ppc'[p] = "activate")
        BY <1>0, <4>1, <4>2 DEF TypeOK
      <4> QED BY <2>2, <3>1, <4>1, <4>3
    <3> QED BY <3>3, <3>4
  <2>5. CASE FanOut
    <3>1. /\ cpc = "sequential" /\ idx = Len(Sequential) + 1 /\ ppc[Sequential[idx - 1]] = "over"
          /\ UNCHANGED <<ctxDone, result>>
          /\ ppc' = [p \in Procs |-> IF p \in PhaseB /\ ~ctxDone THEN "activate" ELSE ppc[p]]
          /\ stopped' = ctxDone /\ cpc' = IF ctxDone THEN "finish" ELSE "phaseB"
      BY <2>5 DEF FanOut, Boundary
    <3>2. (\A p \in Procs : ppc[p] \in {"idle", "over"}) /\ \A p \in PhaseB : ppc[p] = "idle"
      BY <1>0, <3>1 DEF Stages
    <3>3. CASE ctxDone
      BY <2>1, <3>1, <3>2, <3>3
    <3>4. CASE ~ctxDone
      BY <2>2, <3>1, <3>2, <3>4
    <3> QED BY <3>3, <3>4
  <2>6. CASE Join
    <3>1. /\ cpc = "phaseB" /\ stopped' = ctxDone /\ cpc' = (IF ctxDone THEN "finish" ELSE "announceC")
          /\ UNCHANGED <<ctxDone, result, ppc>>
      BY <2>6 DEF Join, Boundary
    <3>2. \A p \in Procs : ppc[p] = "over"
      BY <1>0, <2>6, <3>1, Names DEF Join, Stages
    <3>3. CASE ctxDone
      BY <2>1, <3>1, <3>2, <3>3
    <3>4. CASE ~ctxDone
      BY <2>2, <3>1, <3>4
    <3> QED BY <3>3, <3>4
  <2>8. CASE BeginPhaseC
    <3>1. /\ cpc = "enterC" /\ stopped' = ctxDone /\ cpc' = (IF ctxDone THEN "finish" ELSE "phaseC")
          /\ UNCHANGED <<ctxDone, result, ppc>>
      BY <2>8 DEF BeginPhaseC, Boundary
    <3>2. \A p \in Procs : ppc[p] = "over"
      BY <1>0, <3>1 DEF Stages
    <3>3. CASE ctxDone
      BY <2>1, <3>1, <3>2, <3>3
    <3>4. CASE ~ctxDone
      <4>1. StageOf = "processing" /\ StageOf' = "indexing" /\ InRun /\ InRun'
        BY <1>0, <3>1, <3>4, Mapped, MappedAfter
      <4>2. \A p \in Procs : workOf[p] = "done"
        BY <1>0, <3>2, <4>1, MappedWork
      <4>3. UNCHANGED <<workOf, indexedOf, canceledOf, troubleOf, outcomeOf>>
        BY <3>1, <4>1 DEF workOf, WorkOf, indexedOf, canceledOf, troubleOf, outcomeOf
      <4>4. ~canceledOf
        BY <3>4 DEF canceledOf
      <4> QED BY <4>1, <4>2, <4>3, <4>4 DEF Phased!Next, Phased!BeginIndexing
    <3> QED BY <3>3, <3>4
  <2>7. CASE EndPhaseC
    <3>1. /\ cpc = "phaseC" /\ IndexingOver /\ stopped' = ctxDone /\ cpc' = "finish"
          /\ UNCHANGED result
      BY <2>7 DEF EndPhaseC, Boundary
    <3>2. StageOf = "indexing" /\ InRun
      BY <1>0, <3>1, Mapped
    <3> QED BY <1>0, <3>1, <3>2, EndMapped DEF Phased!Next
  <2> QED BY <1>3, <2>3, <2>4, <2>5, <2>6, <2>7, <2>8
<1>4. CASE GiveUp \/ Crash
  <2>1. /\ Live /\ cpc' = "off" /\ deadIn' = cpc /\ UNCHANGED <<stopped, result, runs>> /\ runs > 0
    BY <1>4 DEF GiveUp, Crash, Begun
  <2>2. CASE InRun
    <3>1. cpc \notin {"finish", "clearEnd", "off"}
      BY <1>0, <2>1, <2>2, Mapped
    <3>2. StageOf' = "dead" /\ ~InRun'
      BY <1>0, <2>1, <3>1, MappedAfter DEF TypeOK
    <3>3. outcomeOf' = "none"
      BY <3>2 DEF outcomeOf
    <3> QED BY <2>2, <3>2, <3>3, Left DEF InRun, Phased!Next, Phased!Die, Phased!InProgress
  <2>3. CASE ~InRun
    <3>1. cpc \in {"finish", "clearEnd"}
      BY <1>0, <2>1, <2>3, Mapped DEF TypeOK
    <3>2. StageOf = "over" /\ StageOf' = "over"
      BY <1>0, <2>1, <3>1, Mapped, MappedAfter
    <3> QED BY <1>0, <2>1, <2>3, <3>2, KeptOutside
  <2> QED BY <2>2, <2>3
<1>5. ASSUME NEW w \in Writers, Write(w) \/ WriteFails(w) PROVE [Phased!Next]_(Phased!runVars)
  <2>1. Writing[w] /\ UNCHANGED <<stopped, deadIn, result, ctxDone, runs>>
    BY <1>0, <1>5, Writes, FailedWrites
  <2>2. CASE w = Control
    <3>1. cpc' = NextControl /\ ppc' = ppc
      BY <1>0, <1>5, <2>2, Writes, FailedWrites
    <3>2. cpc \in {"clear", "waiting", "reset", "announce", "announceC", "finish", "clearEnd"} /\ runs > 0
          /\ deadIn = "alive"
      BY <2>1, <2>2, Names DEF Writing, Begun
    <3>3. StageOf' = StageOf
      BY <1>0, <2>1, <2>2, <3>1, <3>2, ControlGoesOn, Mapped, MappedAfter
    <3> QED BY <1>0, <2>1, <3>1, <3>3, KeptInRun, KeptOutside
  <2>3. CASE w \in Procs
    <3>1. cpc' = cpc /\ ppc'[w] = NextProc(w) /\ \A q \in Procs : q # w => ppc'[q] = ppc[q]
      BY <1>0, <1>5, <2>3, Writes, FailedWrites
    <3>2. \/ ppc[w] \in Running /\ ppc'[w] \in Running \cup {"over"}
          \/ ppc[w] = "indexFail" /\ ppc'[w] = "indexFailed"
      BY <1>0, <2>1, <2>3, <3>1, EmptyTyped, ProcChanges
    <3>3. CASE ppc[w] \in Running
      <4>1. cpc \in {"sequential", "phaseB"}
        BY <1>0, <2>3, <3>3 DEF Stages, TypeOK
      <4>2. StageOf = "processing" /\ StageOf' = "processing"
        BY <1>0, <3>1, <4>1, Mapped, MappedAfter
      <4> QED BY <1>0, <2>1, <3>1, <3>2, <3>3, <4>2, WorkMapped DEF Phased!Next
    <3>4. CASE ppc[w] = "indexFail"
      <4>1. cpc = "phaseC"
        BY <1>0, <2>3, <3>4, Names DEF Stages, TypeOK
      <4>2. StageOf = "indexing" /\ StageOf' = "indexing" /\ InRun /\ InRun'
        BY <1>0, <3>1, <4>1, Mapped, MappedAfter
      <4>3. indexedOf' \subseteq Indexers /\ indexedOf \subseteq indexedOf'
        BY <3>1, <3>2, <3>4, <4>2 DEF indexedOf, Indexers
      <4>4. \A p \in Procs : ppc[p] \in Indexing /\ ppc'[p] \in Indexing
        BY <1>0, <3>1, <3>2, <3>4, <4>1 DEF Stages
      <4>5. \A p \in Procs : WorkOf(p)' = WorkOf(p)
        BY <1>0, <4>4, MappedWork, MappedWorkAfter
      <4>6. UNCHANGED <<workOf, canceledOf, troubleOf, outcomeOf>>
        BY <2>1, <4>2, <4>5 DEF workOf, canceledOf, troubleOf, outcomeOf
      <4> QED BY <4>2, <4>3, <4>6 DEF Phased!Next, Phased!Index
    <3> QED BY <3>2, <3>3, <3>4
  <2> QED BY <2>2, <2>3, Names
<1>6. ASSUME NEW p \in Procs, Work(p) \/ Panic(p) \/ Index(p) PROVE Phased!Next
  <2>1. /\ ppc[p] \in {"work", "over"}
        /\ \A q \in Procs : q # p => ppc'[q] = ppc[q] /\ result'[q] = result[q]
        /\ UNCHANGED <<cpc, stopped, runs, deadIn, ctxDone>>
    BY <1>0, <1>6, ProcMoves
  <2>2. CASE ppc[p] = "work"
    <3>1. cpc \in {"sequential", "phaseB"}
      BY <1>0, <2>2 DEF Stages, TypeOK
    <3>2. StageOf = "processing" /\ StageOf' = "processing"
      BY <1>0, <2>1, <3>1, Mapped, MappedAfter
    <3>3. ppc'[p] \in Running \cup {"over"} /\ result[p] = "none"
      BY <1>0, <1>6, <2>2, <3>1, ProcMoves DEF Begun
    <3> QED BY <1>0, <2>1, <2>2, <3>2, <3>3, WorkMapped DEF Phased!Next
  <2>3. CASE ppc[p] = "over"
    <3>1. cpc = "phaseC" /\ ppc'[p] \in {"indexed", "indexFail"} /\ result'[p] = result[p]
      BY <1>0, <1>6, <2>3, ProcMoves
    <3>2. StageOf = "indexing" /\ StageOf' = "indexing" /\ InRun /\ InRun'
      BY <1>0, <2>1, <3>1, Mapped, MappedAfter
    <3>3. indexedOf' \subseteq Indexers /\ indexedOf \subseteq indexedOf'
      BY <2>1, <2>3, <3>2 DEF indexedOf, Indexers
    <3>4. \A q \in Procs : WorkOf(q)' = WorkOf(q)
      BY <1>0, <2>1, <2>3, <3>1, MappedWork, MappedWorkAfter DEF WorkOf
    <3>5. UNCHANGED <<workOf, canceledOf, troubleOf, outcomeOf>>
      BY <2>1, <3>1, <3>2, <3>4 DEF workOf, canceledOf, troubleOf, outcomeOf
    <3> QED BY <3>2, <3>3, <3>5 DEF Phased!Next, Phased!Index
  <2> QED BY <2>1, <2>2, <2>3
<1>7. ASSUME UNCHANGED <<cpc, ppc, result, ctxDone, stopped, runs, deadIn>>
      PROVE  UNCHANGED Phased!runVars
  <2>1. StageOf' = StageOf
    BY <1>7 DEF StageOf
  <2> QED BY <1>0, <1>7, <2>1, KeptInRun, KeptOutside
<1>8. ASSUME NEW w \in Writers, Read(w) PROVE UNCHANGED Phased!runVars
  BY <1>7, <1>8 DEF Read
<1>9. CASE SetRead \/ HealRead \/ WebStep
  BY <1>0, <1>7, <1>9, WebSteps
<1>10. CASE UNCHANGED vars
  BY <1>7, <1>10 DEF vars
<1> QED
  BY <1>1, <1>2, <1>3, <1>4, <1>5, <1>6, <1>8, <1>9, <1>10 DEF Next, ControlStep, WriteStep

\* The runs of a record implement PhasedRun, for every list of processors and whatever
\* the web server and the crashes do: Phase C begins when all of Phases A and B are over
\* and no stop is known, and a run ends with the outcome its processors call for.
THEOREM RunsArePhased == Spec => ImplementsRun
<1>1. Init => Begun /\ Phased!Init
  <2> SUFFICES ASSUME Init PROVE Begun /\ Phased!Init
    OBVIOUS
  <2>1. StageOf = "idle" /\ ~InRun /\ outcomeOf = "none"
    BY DEF Init, StageOf, InRun, outcomeOf
  <2>2. Begun
    BY DEF Init, Begun
  <2> QED BY <2>1, <2>2, Left DEF Phased!Init
<1>2. IInv /\ Begun /\ [Next]_vars => Begun'
  BY BegunStep DEF IInv
<1>3. IInv /\ IInv' /\ Begun /\ [Next]_vars => [Phased!Next]_(Phased!runVars)
  BY PhasedStep
<1> QED BY <1>1, <1>2, <1>3, Invariance, PTL DEF Spec, ImplementsRun, Phased!Spec

----------------------------------------------------------------------------
(* A run is never blocked *)

\* Where the coordinator neither waits for a processor nor writes the row.
CoordinatorGoesOn ==
  \/ cpc \in {"routing", "admitted", "enterC"}
  \/ cpc = "sequential" /\ (idx = 1 \/ ppc[Sequential[idx - 1]] = "over")
  \/ cpc = "phaseB" /\ \A p \in PhaseB : ppc[p] = "over"
  \/ cpc = "phaseC" /\ IndexingOver

\* A writer that has the lock, or finds it free.
WriterGoesOn(w) == Writing[w] /\ lock \subseteq {w}

ProcGoesOn(p) ==
  \/ ppc[p] = "work"
  \/ cpc = "phaseC" /\ p \in Indexers /\ ppc[p] = "over"

\* A run in progress always has somebody who can go on: the lock is never left behind
\* by a writer that has moved on, failed or died, and the coordinator waits only for
\* processors that are still at work. This is the part of RunsSettle that needs no
\* fairness.
NeverBlocked ==
  Live => \/ CoordinatorGoesOn
          \/ \E w \in Writers : WriterGoesOn(w)
          \/ \E p \in Procs : ProcGoesOn(p)

\* Whoever is to write can do so, or the holder of the lock can.
LEMMA SomeWriterGoesOn ==
  ASSUME TypeOK, Locked, NEW w \in Writers, Writing[w]
  PROVE  \E v \in Writers : WriterGoesOn(v)
<1>1. CASE lock = {}
  BY <1>1 DEF WriterGoesOn
<1>2. CASE lock # {}
  <2>1. PICK v \in lock : TRUE
    BY <1>2
  <2>2. v \in Writers /\ Writing[v] /\ lock \subseteq {v}
    BY <2>1 DEF TypeOK, Locked
  <2> QED BY <2>2 DEF WriterGoesOn
<1> QED BY <1>1, <1>2

\* A processor the coordinator waits for goes on, or is to write.
LEMMA SomebodyWorks ==
  ASSUME TypeOK, Locked, NEW p \in Procs, ppc[p] \in Running \cup {"indexFail"}
  PROVE  \/ \E w \in Writers : WriterGoesOn(w)
         \/ \E q \in Procs : ProcGoesOn(q)
<1>1. CASE ppc[p] = "work"
  BY <1>1 DEF ProcGoesOn
<1>2. CASE ppc[p] # "work"
  <2>1. p \in Writers /\ p # Control
    BY Names
  <2>2. Writing[p]
    BY <1>2, <2>1 DEF Writing
  <2> QED BY <2>1, <2>2, SomeWriterGoesOn
<1> QED BY <1>1, <1>2

\* For any processors and bounds, no run waits for ever on its lock or on a processor
\* that is over.
THEOREM RunIsNeverBlocked == Spec => []NeverBlocked
<1>1. IInv => NeverBlocked
  <2> SUFFICES ASSUME IInv, Live, ~CoordinatorGoesOn
               PROVE  \/ \E w \in Writers : WriterGoesOn(w)
                      \/ \E p \in Procs : ProcGoesOn(p)
    BY DEF NeverBlocked
  <2> USE DEF IInv
  <2>1. CASE cpc \in {"clear", "waiting", "reset", "announce", "announceC", "finish", "clearEnd"}
    <3>1. Control \in Writers /\ Writing[Control]
      BY <2>1, Names DEF Writing
    <3> QED BY <3>1, SomeWriterGoesOn
  <2>2. CASE cpc = "sequential"
    <3>1. idx \in 2..(Len(Sequential) + 1) /\ idx - 1 \in DOMAIN Sequential
          /\ ppc[Sequential[idx - 1]] # "over"
      BY <2>2, Names DEF TypeOK, CoordinatorGoesOn
    <3>2. Sequential[idx - 1] \in Procs
      BY <3>1, Names, ProcsAssumption
    <3>3. ppc[Sequential[idx - 1]] \in Running
      BY <2>2, <3>1, <3>2, Names DEF Stages
    <3> QED BY <3>2, <3>3, SomebodyWorks
  <2>3. CASE cpc = "phaseB"
    <3>1. PICK p \in PhaseB : ppc[p] # "over"
      BY <2>3 DEF CoordinatorGoesOn
    <3>2. p \in Procs /\ ppc[p] \in Running
      BY <2>3, <3>1, Names DEF Stages
    <3> QED BY <3>2, SomebodyWorks
  <2>4. CASE cpc = "phaseC"
    <3>1. PICK p \in Indexers : ppc[p] \notin {"indexed", "indexFailed"}
      BY <2>4 DEF CoordinatorGoesOn, IndexingOver
    <3>2. p \in Procs /\ ppc[p] \in {"over", "indexFail"}
      BY <2>4, <3>1 DEF Stages, Indexers
    <3>3. CASE ppc[p] = "over"
      BY <2>4, <3>1, <3>2, <3>3 DEF ProcGoesOn
    <3>4. CASE ppc[p] = "indexFail"
      BY <3>2, <3>4, SomebodyWorks
    <3> QED BY <3>2, <3>3, <3>4
  <2> QED BY <2>1, <2>2, <2>3, <2>4 DEF TypeOK, CoordinatorGoesOn
<1> QED BY <1>1, Invariance, PTL
============================================================================
