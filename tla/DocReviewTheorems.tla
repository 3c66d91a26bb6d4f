-------------------------- MODULE DocReviewTheorems --------------------------
(* For any requests, clients and numbers of runs and faults: a run is reviewed *)
(* once, and a stop that comes during its review is heeded.                    *)
EXTENDS DocReview, WellFoundedInduction, TLAPS

\* A run that is not yet inserted has left no trace; one that is belongs to a request.
Born ==
  /\ \A k \in RunIds : k < nextRun => runOf[k] \in Requests
  /\ \A k \in RunIds : k >= nextRun =>
       /\ runOf[k] = NoRequest /\ runStatus[k] = "absent" /\ claims[k] = 0
       /\ k \notin events /\ k \notin rearmed /\ k \notin stopped /\ k \notin saved
       /\ \A s \in Sources : work[s][k] = "none"

\* A handler that is at a request knows it, and holds a run that was inserted.
Holds ==
  \A p \in Armers :
    /\ pc[p] \notin {"idle", "done"} => target[p] \in Requests
    /\ pc[p] \in {"publish", "close", "accept", "seed", "stop"} => chosen[p] # 0
    /\ chosen[p] < nextRun

\* A run that waits was never claimed, and an execution past the claim is the only one.
Claimed ==
  \A k \in RunIds :
    /\ claims[k] <= 1
    /\ runStatus[k] \in {"absent", "pending"} => claims[k] = 0
    /\ \A s \in Sources : work[s][k] \in Owning => claims[k] = 1
    /\ \A s, t \in Sources : work[s][k] \in Owning /\ work[t][k] \in Owning => s = t

\* The findings are there from the end of the review on.
Kept ==
  \A k \in RunIds :
    /\ runStatus[k] = "completed" => k \in saved
    /\ \A s \in Sources : work[s][k] \in {"look", "endRun", "endRequest"} => k \in saved

\* A stop that was not overwritten is seen when the review looks again.
Heeded ==
  \A k \in RunIds :
    /\ \A s \in Sources : work[s][k] \in {"mark", "review", "look", "endRun", "failRun"} =>
                            runStatus[k] # "completed"
    /\ k \in stopped =>
         /\ runStatus[k] # "completed"
         /\ request[runOf[k]] = "stopped"
         /\ \A s \in Sources : work[s][k] # "endRun"

IInv == TypeOK /\ Born /\ Holds /\ Claimed /\ Kept /\ Heeded

USE DEF Active, Final, OpenRun, CallPcs, Owning, Steps, Sources, Armers

----------------------------------------------------------------------------
(* Operators *)

LEMMA LatestIsOne ==
  ASSUME NEW S, S \subseteq RunIds, S # {}
  PROVE  Latest(S) \in S
<1> DEFINE Less == OpToRel(<, Nat)
           T == {MaxRuns - k : k \in S}
<1>1. T \subseteq Nat /\ T # {}
  <2>1. \A k \in S : MaxRuns - k \in Nat
    BY ReviewAssumption DEF RunIds
  <2>2. T # {}
    OBVIOUS
  <2> QED BY <2>1, <2>2
<1>2. PICK x \in T : \A y \in T : ~(<<y, x>> \in Less)
  BY <1>1, NatLessThanWellFounded, WFMin
<1>3. \A y \in T : ~(y < x)
  BY <1>1, <1>2 DEF OpToRel
<1>4. PICK k \in S : x = MaxRuns - k
  BY <1>2
<1>5. \A j \in S : j <= k
  <2>1. SUFFICES ASSUME NEW j \in S PROVE j <= k
    OBVIOUS
  <2>2. ~(MaxRuns - j < MaxRuns - k)
    BY <1>3, <1>4
  <2> QED BY <2>2, ReviewAssumption DEF RunIds
<1> QED BY <1>5 DEF Latest

\* One execution moves.
LEMMA WorkMoves ==
  ASSUME work \in [Sources -> [RunIds -> Steps]], NEW s \in Sources, NEW k \in RunIds, NEW label \in Steps,
         work' = [work EXCEPT ![s][k] = label]
  PROVE  /\ work' \in [Sources -> [RunIds -> Steps]]
         /\ work'[s][k] = label
         /\ \A t \in Sources, j \in RunIds : t # s \/ j # k => work'[t][j] = work[t][j]
OBVIOUS

\* What the end of an execution does.
LEMMA Returns ==
  ASSUME TypeOK, NEW s \in Sources, NEW k \in RunIds, Return(s, k)
  PROVE  /\ work' = [work EXCEPT ![s][k] = "none"]
         /\ events' \subseteq events /\ late' \subseteq RunIds
BY DEF Return, TypeOK

\* The steps of an execution, and what each does beside moving it on.
LEMMA RunParts ==
  ASSUME TypeOK, NEW s \in Sources, NEW k \in RunIds, RunReview(s, k)
  PROVE  /\ UNCHANGED <<runOf, nextRun, callVars, sweepVars, faultVars>>
         /\ \E label \in Steps : work' = [work EXCEPT ![s][k] = label]
         /\ events' \subseteq events /\ late' \subseteq RunIds
         /\ work[s][k] # "none"
<1>1. CASE LoadRequest(s, k)
  BY <1>1, Returns DEF LoadRequest, StepTo, eventVars, rowVars, requestVars, TypeOK
<1>2. CASE ClaimRun(s, k)
  BY <1>2, Returns DEF ClaimRun, StepTo, eventVars, TypeOK
<1>3. CASE MarkRequest(s, k)
  BY <1>3 DEF MarkRequest, StepTo, eventVars, requestVars, TypeOK
<1>4. CASE Review(s, k)
  BY <1>4 DEF Review, StepTo, eventVars, rowVars, requestVars, TypeOK
<1>5. CASE LookAgain(s, k)
  BY <1>5, Returns DEF LookAgain, StepTo, eventVars, rowVars, requestVars, TypeOK
<1>6. CASE EndRun(s, k)
  BY <1>6 DEF EndRun, StepTo, eventVars, TypeOK
<1>7. CASE EndRequest(s, k)
  BY <1>7, Returns DEF EndRequest, requestVars, TypeOK
<1> QED BY <1>1, <1>2, <1>3, <1>4, <1>5, <1>6, <1>7 DEF RunReview

LEMMA InitOK == Init => IInv
<1> SUFFICES ASSUME Init PROVE IInv
  OBVIOUS
<1>1. CASE Fresh
  BY <1>1, ReviewAssumption DEF Fresh, Init, IInv, TypeOK, Born, Holds, Claimed, Kept, Heeded, RunIds
<1>2. ASSUME NEW r \in Requests, Restarted(r) PROVE IInv
  <2>1. PICK status \in OpenRun \cup {"completed", "failed"}, active \in Active :
          /\ request = [q \in Requests |-> IF q = r THEN active ELSE "absent"]
          /\ runStatus = [k \in RunIds |-> IF k = 1 THEN status ELSE "absent"]
          /\ claims = [k \in RunIds |-> IF k = 1 /\ status # "pending" THEN 1 ELSE 0]
          /\ saved = IF status = "completed" THEN {1} ELSE {}
    BY <1>2 DEF Restarted
  <2>2. /\ runOf = [k \in RunIds |-> IF k = 1 THEN r ELSE NoRequest] /\ nextRun = 2
        /\ pc = [p \in Armers |-> IF p = Sweeper THEN "idle" ELSE "done"]
        /\ sweep = "list" /\ events \subseteq {1} /\ 1 \in RunIds
    BY <1>2, ReviewAssumption DEF Restarted, RunIds
  <2>3. TypeOK
    BY <2>1, <2>2, ReviewAssumption DEF Init, TypeOK, RunIds
  <2>4. Born /\ Holds
    BY <2>1, <2>2, ReviewAssumption DEF Init, Born, Holds, RunIds
  <2>5. Claimed /\ Kept /\ Heeded
    BY <2>1, <2>2, ReviewAssumption DEF Init, Claimed, Kept, Heeded, RunIds
  <2> QED BY <2>3, <2>4, <2>5 DEF IInv
<1> QED BY <1>1, <1>2 DEF Init

----------------------------------------------------------------------------
(* Types *)

LEMMA LeaveTyped ==
  ASSUME TypeOK, NEW p \in Armers, Leave(p)
  PROVE  /\ pc' \in [Armers -> CallPcs] /\ target' \in [Armers -> Requests \cup {NoRequest}]
         /\ chosen' \in [Armers -> RunIds \cup {0}]
         /\ \A q \in Armers : q # p => pc'[q] = pc[q] /\ target'[q] = target[q] /\ chosen'[q] = chosen[q]
         /\ pc'[p] \in {"idle", "done"} /\ chosen'[p] = 0
BY DEF Leave, GoTo, TypeOK

LEMMA LoadTyped ==
  ASSUME TypeOK, Born, NEW p \in Armers, NEW r \in Requests, LoadLatest(p, r)
  PROVE  /\ chosen'[p] \in RunIds /\ runOf[chosen'[p]] = r /\ chosen'[p] < nextRun
         /\ pc' \in [Armers -> CallPcs] /\ pc'[p] \in {"close", "rerun"}
         /\ target' = [target EXCEPT ![p] = r] /\ target'[p] = r
         /\ \A q \in Armers : q # p => pc'[q] = pc[q] /\ chosen'[q] = chosen[q]
         /\ chosen' \in [Armers -> RunIds \cup {0}]
         /\ seen' \in {seen, seen \cup {"overlap"}}
<1> DEFINE k == Latest(RunsOf(r))
<1>1. k \in RunsOf(r)
  BY LatestIsOne DEF LoadLatest, RunsOf
<1>2. k \in RunIds /\ runOf[k] = r
  BY <1>1 DEF RunsOf
<1>3. k < nextRun
  BY <1>2, ReviewAssumption DEF Born, TypeOK, RunIds
<1>4. chosen' = [chosen EXCEPT ![p] = k] /\ chosen'[p] = k
  BY DEF LoadLatest, TypeOK
<1>5. pc' = [pc EXCEPT ![p] = IF runStatus[k] \in OpenRun THEN "close" ELSE "rerun"]
  BY DEF LoadLatest, GoTo
<1> HIDE DEF k
<1> QED BY <1>2, <1>3, <1>4, <1>5 DEF LoadLatest, Begin, TypeOK

LEMMA TypeStep ==
  ASSUME TypeOK, Born, Holds, [Next]_vars
  PROVE  TypeOK'
<1> USE ReviewAssumption DEF TypeOK, rowVars, requestVars, callVars, sweepVars, eventVars, reviewVars, faultVars
<1>1. ASSUME NEW c \in Clients, NEW r \in Requests, Submit(c, r) PROVE TypeOK'
  BY <1>1 DEF Submit, Begin, GoTo
<1>2. ASSUME NEW c \in Clients, NEW r \in Requests, Stop(c, r) PROVE TypeOK'
  BY <1>2 DEF Stop, Begin, GoTo, RunsOf
<1>3. ASSUME NEW c \in Clients, NEW r \in Requests, Restart(c, r) PROVE TypeOK'
  BY <1>3, LoadTyped DEF Restart, LoadLatest, Begin
<1>4. ASSUME NEW c \in Clients, Insert(c) PROVE TypeOK'
  BY <1>4 DEF Insert, SetRequest, GoTo
<1>5. ASSUME NEW p \in Armers, CreateRun(p) PROVE TypeOK'
  <2>1. nextRun \in RunIds /\ nextRun' \in 1..(MaxRuns + 1)
    BY <1>5 DEF CreateRun, RunIds
  <2>2. pc' \in [Armers -> CallPcs]
    BY <1>5 DEF CreateRun, GoTo
  <2> QED BY <1>5, <2>1, <2>2 DEF CreateRun
<1>6. ASSUME NEW c \in Clients, Publish(c) PROVE TypeOK'
  <2>1. chosen[c] \in RunIds
    BY <1>6 DEF Publish, Holds
  <2> QED BY <1>6, <2>1, LeaveTyped DEF Publish
<1>7. ASSUME NEW c \in Clients, PublishFails(c) PROVE TypeOK'
  <2>1. chosen[c] \in RunIds
    BY <1>7 DEF PublishFails, Holds
  <2>2. work' \in [Sources -> [RunIds -> Steps]]
    BY <1>7, <2>1, WorkMoves DEF PublishFails
  <2> QED BY <1>7, <2>2, LeaveTyped DEF PublishFails, Fault
<1>8. ASSUME NEW c \in Clients, Vanish(c) PROVE TypeOK'
  BY <1>8, LeaveTyped DEF Vanish, Fault
<1>9. ASSUME NEW p \in Armers, CloseSuperseded(p) PROVE TypeOK'
  BY <1>9 DEF CloseSuperseded, GoTo
<1>10. ASSUME NEW p \in Armers, AcceptAgain(p) PROVE TypeOK'
  BY <1>10 DEF AcceptAgain, SetRequest, GoTo
<1>11. ASSUME NEW p \in Armers, SeedAspects(p) PROVE TypeOK'
  <2>1. chosen[p] \in RunIds
    BY <1>11 DEF SeedAspects, Holds
  <2>2. CASE p = Sweeper
    BY <1>11, <2>1, <2>2, LeaveTyped DEF SeedAspects
  <2>3. CASE p # Sweeper
    BY <1>11, <2>3 DEF SeedAspects, GoTo
  <2> QED BY <2>2, <2>3
<1>12. CASE SweepList
  BY <1>12 DEF SweepList
<1>13. ASSUME NEW r \in Requests, SweepNext(r) PROVE TypeOK'
  BY <1>13, LoadTyped DEF SweepNext, LoadLatest, Begin
<1>14. ASSUME NEW r \in Requests, SweepSkips(r) PROVE TypeOK'
  BY <1>14 DEF SweepSkips
<1>15. CASE SweepStart
  BY <1>15 DEF SweepStart
<1>16. ASSUME NEW c \in Clients, FindOpenRun(c) PROVE TypeOK'
  <2> DEFINE open == {k \in RunsOf(target[c]) : runStatus[k] \in OpenRun}
  <2>1. CASE open = {}
    BY <1>16, <2>1, LeaveTyped DEF FindOpenRun
  <2>2. CASE open # {}
    <3>0. open \subseteq RunIds
      BY DEF RunsOf
    <3>1. Latest(open) \in RunIds
      BY <2>2, <3>0, LatestIsOne
    <3>2. chosen' = [chosen EXCEPT ![c] = Latest(open)] /\ pc' = [pc EXCEPT ![c] = "stop"] /\ target' = target
      BY <1>16, <2>2 DEF FindOpenRun, GoTo
    <3> HIDE DEF open
    <3> QED BY <1>16, <3>1, <3>2 DEF FindOpenRun
  <2> QED BY <2>1, <2>2
<1>17. ASSUME NEW c \in Clients, StopRun(c) PROVE TypeOK'
  BY <1>17, LeaveTyped DEF StopRun
<1>18. ASSUME NEW k \in RunIds, Deliver(k) PROVE TypeOK'
  BY <1>18, WorkMoves DEF Deliver, StepTo
<1>19. ASSUME NEW k \in RunIds, InlineDies(k) PROVE TypeOK'
  BY <1>19, WorkMoves DEF InlineDies, StepTo
<1>20. ASSUME NEW s \in Sources, NEW k \in RunIds, RunReview(s, k) PROVE TypeOK'
  <2>0. PICK label \in Steps : work' = [work EXCEPT ![s][k] = label]
    BY <1>20, RunParts
  <2>1. work' \in [Sources -> [RunIds -> Steps]]
    BY <2>0, WorkMoves
  <2>2. request' \in [Requests -> {"absent"} \cup Active \cup Final]
    BY <1>20 DEF RunReview, LoadRequest, ClaimRun, MarkRequest, Review, LookAgain, EndRun, EndRequest, SetRequest
  <2>3. runStatus' \in [RunIds -> {"absent"} \cup OpenRun \cup Final]
    BY <1>20 DEF RunReview, LoadRequest, ClaimRun, MarkRequest, Review, LookAgain, EndRun, EndRequest
  <2>4. claims' \in [RunIds -> Nat] /\ saved' \subseteq RunIds /\ stopped' \subseteq RunIds
    BY <1>20 DEF RunReview, LoadRequest, ClaimRun, MarkRequest, Review, LookAgain, EndRun, EndRequest, SetRequest
  <2> QED BY <1>20, <2>1, <2>2, <2>3, <2>4, RunParts
<1>21. CASE Crash
  <2>1. Sweeper \in Armers
    OBVIOUS
  <2> QED BY <1>21, <2>1, LeaveTyped DEF Crash, ProcessEnds, Fault
<1>22. CASE UNCHANGED vars
  BY <1>22 DEF vars
<1> QED
  BY <1>1, <1>2, <1>3, <1>4, <1>5, <1>6, <1>7, <1>8, <1>9, <1>10, <1>11, <1>12, <1>13, <1>14, <1>15, <1>16,
     <1>17, <1>18, <1>19, <1>20, <1>21, <1>22 DEF Next, Handle, Sweeping, Arm

----------------------------------------------------------------------------
(* Runs and handlers *)

LEMMA HoldsStep ==
  ASSUME TypeOK, Born, Holds, [Next]_vars
  PROVE  Holds'
<1> USE ReviewAssumption DEF TypeOK, Holds, rowVars, requestVars, callVars, sweepVars, eventVars, reviewVars, faultVars
<1>1. ASSUME NEW c \in Clients, NEW r \in Requests, Submit(c, r) \/ Stop(c, r) PROVE Holds'
  BY <1>1 DEF Submit, Stop, Begin, GoTo
<1>2. ASSUME NEW p \in Armers, NEW r \in Requests, LoadLatest(p, r) PROVE Holds'
  <2>1. nextRun' = nextRun
    BY <1>2 DEF LoadLatest
  <2>2. chosen'[p] # 0
    BY <1>2, LoadTyped DEF RunIds
  <2> QED BY <1>2, <2>1, <2>2, LoadTyped
<1>3. ASSUME NEW p \in Armers, Insert(p) \/ CloseSuperseded(p) \/ AcceptAgain(p) PROVE Holds'
  BY <1>3 DEF Insert, CloseSuperseded, AcceptAgain, GoTo
<1>4. ASSUME NEW p \in Armers, CreateRun(p) PROVE Holds'
  <2>1. nextRun # 0 /\ nextRun < nextRun' /\ chosen' = [chosen EXCEPT ![p] = nextRun] /\ target' = target
    BY <1>4 DEF CreateRun
  <2>2. pc[p] \in {"create", "rerun"} /\ pc' = [pc EXCEPT ![p] = IF pc[p] = "create" THEN "publish" ELSE "accept"]
    BY <1>4 DEF CreateRun, GoTo
  <2>3. ASSUME NEW q \in Armers PROVE chosen'[q] < nextRun'
    <3>1. chosen[q] \in Int /\ nextRun \in Int /\ nextRun' = nextRun + 1
      BY <1>4 DEF CreateRun, RunIds
    <3>2. chosen'[q] = chosen[q] \/ chosen'[q] = nextRun
      BY <2>1
    <3> QED BY <3>1, <3>2
  <2> QED BY <2>1, <2>2, <2>3
<1>5. ASSUME NEW p \in Armers, Leave(p), UNCHANGED nextRun PROVE Holds'
  <2>1. chosen'[p] < nextRun
    BY <1>5, LeaveTyped
  <2> QED BY <1>5, <2>1, LeaveTyped
<1>6. ASSUME NEW c \in Clients, Publish(c) \/ PublishFails(c) \/ Vanish(c) \/ StopRun(c)
      PROVE  Leave(c) /\ UNCHANGED nextRun
  BY <1>6 DEF Publish, PublishFails, Vanish, StopRun
<1>7. ASSUME NEW p \in Armers, SeedAspects(p) PROVE Holds'
  BY <1>7, <1>5 DEF SeedAspects, GoTo
<1>8. ASSUME NEW c \in Clients, FindOpenRun(c) PROVE Holds'
  <2> DEFINE open == {k \in RunsOf(target[c]) : runStatus[k] \in OpenRun}
  <2>1. CASE open = {}
    BY <1>8, <2>1, <1>5 DEF FindOpenRun
  <2>2. CASE open # {}
    <3>0. open \subseteq RunIds
      BY DEF RunsOf
    <3>1. Latest(open) \in open
      BY <2>2, <3>0, LatestIsOne
    <3>2. Latest(open) \in RunIds /\ runOf[Latest(open)] = target[c] /\ target[c] \in Requests
      BY <3>1, <1>8 DEF RunsOf, FindOpenRun
    <3>3. Latest(open) < nextRun /\ Latest(open) # 0
      BY <3>2 DEF Born, RunIds
    <3>4. chosen' = [chosen EXCEPT ![c] = Latest(open)] /\ pc' = [pc EXCEPT ![c] = "stop"]
          /\ target' = target /\ nextRun' = nextRun
      BY <1>8, <2>2 DEF FindOpenRun, GoTo
    <3> HIDE DEF open
    <3> QED BY <1>8, <3>2, <3>3, <3>4
  <2> QED BY <2>1, <2>2
<1>9. ASSUME UNCHANGED <<callVars, nextRun>> PROVE Holds'
  BY <1>9
<1>10. ASSUME NEW r \in Requests, SweepList \/ SweepSkips(r) \/ SweepStart PROVE UNCHANGED <<callVars, nextRun>>
  BY <1>10 DEF SweepList, SweepSkips, SweepStart
<1>11. ASSUME NEW s \in Sources, NEW k \in RunIds, Deliver(k) \/ InlineDies(k) \/ RunReview(s, k)
       PROVE  UNCHANGED <<callVars, nextRun>>
  BY <1>11, RunParts DEF Deliver, InlineDies
<1>12. CASE Crash
  BY <1>12, <1>5 DEF Crash, ProcessEnds
<1>13. CASE UNCHANGED vars
  BY <1>13, <1>9 DEF vars
<1>14. CASE Sweeping
  BY <1>14, <1>2, <1>3, <1>4, <1>7, <1>9, <1>10 DEF Sweeping, Arm, SweepNext, SweepStart, SweepList
<1> QED
  BY <1>1, <1>2, <1>3, <1>4, <1>5, <1>6, <1>7, <1>8, <1>9, <1>11, <1>12, <1>13, <1>14
     DEF Next, Handle, Arm, Restart

LEMMA BornStep ==
  ASSUME TypeOK, Born, Holds, [Next]_vars
  PROVE  Born'
<1> USE ReviewAssumption DEF TypeOK, Born, rowVars, requestVars, callVars, sweepVars, eventVars, reviewVars, faultVars
<1>1. ASSUME UNCHANGED <<runOf, runStatus, nextRun, claims, events, saved, work>>,
             rearmed' \subseteq rearmed, stopped' \subseteq stopped
      PROVE  Born'
  BY <1>1
<1>2. ASSUME NEW c \in Clients, NEW r \in Requests, Stop(c, r) PROVE Born'
  BY <1>2 DEF Stop
<1>3. ASSUME NEW p \in Armers, CreateRun(p) PROVE Born'
  <2>1. pc[p] \in {"create", "rerun"} /\ target[p] \in Requests
    BY <1>3 DEF CreateRun, Holds
  <2>2. nextRun \in RunIds
    BY <1>3 DEF CreateRun, RunIds
  <2>3. /\ runOf' = [runOf EXCEPT ![nextRun] = target[p]]
        /\ runStatus' = [runStatus EXCEPT ![nextRun] = "pending"]
        /\ nextRun' = nextRun + 1
        /\ UNCHANGED <<claims, events, saved, work, rearmed, stopped>>
    BY <1>3 DEF CreateRun
  <2>4. \A k \in RunIds : k < nextRun' => runOf'[k] \in Requests
    BY <2>1, <2>2, <2>3 DEF RunIds
  <2>5. \A k \in RunIds : k >= nextRun' => k # nextRun /\ k >= nextRun
    BY <2>3 DEF RunIds
  <2> QED BY <2>3, <2>4, <2>5
<1>4. ASSUME NEW p \in Armers, CloseSuperseded(p) \/ StopRun(p) PROVE Born'
  <2>1. chosen[p] < nextRun
    BY DEF Holds
  <2>2. runStatus' = [runStatus EXCEPT ![chosen[p]] = "stopped"]
        /\ UNCHANGED <<runOf, nextRun, claims, events, saved, work, rearmed, stopped>>
    BY <1>4 DEF CloseSuperseded, StopRun
  <2> QED BY <2>1, <2>2
<1>5. ASSUME NEW c \in Clients, Publish(c) \/ PublishFails(c) PROVE Born'
  <2>1. chosen[c] \in RunIds /\ chosen[c] < nextRun
    BY <1>5 DEF Publish, PublishFails, Holds
  <2>2. CASE Publish(c)
    BY <2>1, <2>2 DEF Publish
  <2>3. CASE PublishFails(c)
    <3>1. \A t \in Sources, j \in RunIds : j # chosen[c] => work'[t][j] = work[t][j]
      BY <2>1, <2>3 DEF PublishFails
    <3> QED BY <2>1, <2>3, <3>1 DEF PublishFails
  <2> QED BY <1>5, <2>2, <2>3
<1>6. ASSUME NEW p \in Armers, SeedAspects(p) PROVE Born'
  <2>1. rearmed' \subseteq rearmed \cup {chosen[p]} /\ chosen[p] < nextRun
    BY <1>6 DEF SeedAspects, Holds
  <2> QED BY <1>6, <2>1 DEF SeedAspects
<1>7. CASE SweepStart
  BY <1>7 DEF SweepStart
<1>8. ASSUME NEW k \in RunIds, Deliver(k) PROVE Born'
  <2>1. k < nextRun
    BY <1>8 DEF Deliver, RunIds
  <2>2. \A t \in Sources, j \in RunIds : j # k => work'[t][j] = work[t][j]
    BY <1>8 DEF Deliver, StepTo
  <2> QED BY <1>8, <2>1, <2>2 DEF Deliver, StepTo
<1>9. ASSUME NEW k \in RunIds, InlineDies(k) PROVE Born'
  <2>1. k < nextRun
    BY <1>9 DEF InlineDies, RunIds
  <2>2. \A t \in Sources, j \in RunIds : j # k => work'[t][j] = work[t][j]
    BY <1>9 DEF InlineDies, StepTo
  <2> QED BY <1>9, <2>1, <2>2 DEF InlineDies, StepTo
<1>10. ASSUME NEW s \in Sources, NEW k \in RunIds, RunReview(s, k) PROVE Born'
  <2>1. work[s][k] # "none" /\ events' \subseteq events /\ UNCHANGED <<runOf, nextRun, rearmed>>
    BY <1>10, RunParts
  <2>2. k < nextRun
    BY <2>1 DEF RunIds
  <2>3. PICK label \in Steps : work' = [work EXCEPT ![s][k] = label]
    BY <1>10, RunParts
  <2>4. \A t \in Sources, j \in RunIds : j # k => work'[t][j] = work[t][j]
    BY <2>3
  <2>5. /\ \A j \in RunIds : j # k => runStatus'[j] = runStatus[j] /\ claims'[j] = claims[j]
        /\ saved' \subseteq saved \cup {k} /\ stopped' \subseteq stopped
    BY <1>10 DEF RunReview, LoadRequest, ClaimRun, MarkRequest, Review, LookAgain, EndRun, EndRequest, SetRequest
  <2> QED BY <2>1, <2>2, <2>4, <2>5
<1>11. CASE Crash
  BY <1>11 DEF Crash, ProcessEnds
<1>12. ASSUME NEW p \in Armers, NEW r \in Requests,
              Submit(p, r) \/ LoadLatest(p, r) \/ SweepSkips(r)
       PROVE  Born'
  BY <1>12, <1>1 DEF Submit, LoadLatest, SweepSkips
<1>15. ASSUME NEW p \in Armers, Insert(p) \/ Vanish(p) \/ FindOpenRun(p) \/ AcceptAgain(p) PROVE Born'
  BY <1>15, <1>1 DEF Insert, Vanish, FindOpenRun, AcceptAgain, SetRequest
<1>16. CASE SweepList
  BY <1>16, <1>1 DEF SweepList
<1>13. CASE UNCHANGED vars
  BY <1>13, <1>1 DEF vars
<1>14. CASE Sweeping
  BY <1>14, <1>3, <1>4, <1>6, <1>7, <1>12, <1>15, <1>16 DEF Sweeping, Arm, SweepNext
<1> QED
  BY <1>2, <1>3, <1>4, <1>5, <1>6, <1>8, <1>9, <1>10, <1>11, <1>12, <1>13, <1>14,
     <1>15 DEF Next, Handle, Arm, Restart

----------------------------------------------------------------------------
(* Claims, findings and stops *)

\* What the steps outside RunReview may do to the runs and their executions.
Outside ==
  /\ UNCHANGED <<claims, saved>>
  /\ \A k \in RunIds, s \in Sources : work'[s][k] \in {work[s][k], "none", "load"}
  /\ \A k \in RunIds : runStatus'[k] \in {runStatus[k], "stopped"}
                       \/ (runStatus[k] = "absent" /\ runStatus'[k] = "pending")
  /\ \A k \in stopped' : /\ k \in stopped \/ \E s \in Sources : work[s][k] \in {"review", "look"}
                         /\ request'[runOf'[k]] = "stopped"

LEMMA OutsideSteps ==
  ASSUME TypeOK, Born, Holds, Heeded, [Next]_vars,
         ~\E s \in Sources, k \in RunIds : RunReview(s, k)
  PROVE  Outside
<1> USE ReviewAssumption DEF TypeOK, Outside, rowVars, requestVars, callVars, sweepVars, eventVars, reviewVars, faultVars
<1>0. \A k \in stopped : k \in RunIds /\ k < nextRun /\ runOf[k] \in Requests /\ request[runOf[k]] = "stopped"
  BY DEF Born, Heeded, RunIds
<1>1. ASSUME UNCHANGED <<rowVars, reviewVars, stopped, work>> PROVE Outside
  BY <1>0, <1>1
<1>2. ASSUME NEW c \in Clients, NEW r \in Requests, Stop(c, r) PROVE Outside
  BY <1>0, <1>2 DEF Stop, RunsOf
<1>3. ASSUME NEW p \in Armers, CreateRun(p) PROVE Outside
  <2>1. nextRun \in RunIds /\ runStatus[nextRun] = "absent"
    BY <1>3 DEF CreateRun, RunIds, Born
  <2>2. \A k \in stopped : runOf'[k] = runOf[k]
    BY <1>0, <1>3 DEF CreateRun
  <2>3. UNCHANGED <<request, claims, saved, work, stopped>> /\ runStatus' = [runStatus EXCEPT ![nextRun] = "pending"]
    BY <1>3 DEF CreateRun
  <2> QED BY <1>0, <2>1, <2>2, <2>3
<1>4. ASSUME NEW p \in Armers, CloseSuperseded(p) \/ StopRun(p) PROVE Outside
  BY <1>0, <1>4 DEF CloseSuperseded, StopRun
<1>5. ASSUME NEW p \in Armers, Insert(p) \/ AcceptAgain(p) PROVE Outside
  BY <1>0, <1>5 DEF Insert, AcceptAgain, SetRequest, RunsOf
<1>6. ASSUME NEW c \in Clients, PublishFails(c) PROVE Outside
  <2>1. chosen[c] \in RunIds /\ work' = [work EXCEPT !["inline"][chosen[c]] = "load"]
    BY <1>6 DEF PublishFails, Holds
  <2>2. \A k \in RunIds, s \in Sources : work'[s][k] \in {work[s][k], "load"}
    BY <2>1
  <2> QED BY <1>0, <1>6, <2>2 DEF PublishFails
<1>7. CASE SweepStart
  BY <1>0, <1>7 DEF SweepStart
<1>8. ASSUME NEW k \in RunIds, Deliver(k) \/ InlineDies(k) PROVE Outside
  <2>1. PICK s \in Sources, label \in {"none", "load"} : work' = [work EXCEPT ![s][k] = label]
    BY <1>8 DEF Deliver, InlineDies, StepTo
  <2>2. \A j \in RunIds, t \in Sources : work'[t][j] \in {work[t][j], label}
    BY <2>1
  <2>3. UNCHANGED <<rowVars, reviewVars, stopped>>
    BY <1>8 DEF Deliver, InlineDies
  <2> QED BY <1>0, <2>2, <2>3
<1>9. CASE Crash
  BY <1>0, <1>9 DEF Crash, ProcessEnds
<1>10. ASSUME NEW p \in Armers, NEW r \in Requests, Submit(p, r) \/ LoadLatest(p, r) \/ SweepSkips(r)
       PROVE  Outside
  BY <1>10, <1>1 DEF Submit, LoadLatest, SweepSkips
<1>11. ASSUME NEW p \in Armers, Publish(p) \/ Vanish(p) \/ FindOpenRun(p) \/ SeedAspects(p) PROVE Outside
  BY <1>11, <1>1 DEF Publish, Vanish, FindOpenRun, SeedAspects
<1>12. CASE SweepList
  BY <1>12, <1>1 DEF SweepList
<1>13. CASE UNCHANGED vars
  BY <1>13, <1>1 DEF vars
<1>14. CASE Sweeping
  BY <1>14, <1>3, <1>4, <1>5, <1>7, <1>10, <1>11, <1>12 DEF Sweeping, Arm, SweepNext
<1> QED
  BY <1>2, <1>3, <1>4, <1>5, <1>6, <1>8, <1>9, <1>10, <1>11, <1>13, <1>14 DEF Next, Handle, Arm, Restart

\* The execution that moves is the only one that moves.
LEMMA OneMoves ==
  ASSUME TypeOK, NEW s \in Sources, NEW k \in RunIds, RunReview(s, k)
  PROVE  \A t \in Sources, j \in RunIds : t # s \/ j # k => work'[t][j] = work[t][j]
<1>1. PICK label \in Steps : work' = [work EXCEPT ![s][k] = label]
  BY RunParts
<1> QED BY <1>1, WorkMoves DEF TypeOK

LEMMA ClaimedStep ==
  ASSUME TypeOK, Born, Holds, Claimed, Heeded, [Next]_vars
  PROVE  Claimed'
<1>1. ASSUME Outside PROVE Claimed'
  BY <1>1 DEF Outside, Claimed, TypeOK, Born
<1>2. ASSUME NEW s \in Sources, NEW k \in RunIds, RunReview(s, k) PROVE Claimed'
  <2> USE DEF TypeOK, Claimed
  <2>0. \A t \in Sources, j \in RunIds : t # s \/ j # k => work'[t][j] = work[t][j]
    BY <1>2, OneMoves
  <2>1. ASSUME UNCHANGED claims, work'[s][k] \in Owning => work[s][k] \in Owning,
               \A j \in RunIds : runStatus'[j] # runStatus[j] => runStatus'[j] \notin {"absent", "pending"}
        PROVE  Claimed'
    BY <2>0, <2>1
  <2>2. CASE LoadRequest(s, k)
    <3>1. work'[s][k] \in {"claim", "none"} /\ UNCHANGED <<claims, runStatus>>
      BY <2>2 DEF LoadRequest, StepTo, Return, rowVars, requestVars, reviewVars
    <3> QED BY <2>1, <3>1
  <2>3. CASE ClaimRun(s, k)
    <3>1. CASE runStatus[k] = "pending"
      <4>1. claims' = [claims EXCEPT ![k] = @ + 1] /\ runStatus' = [runStatus EXCEPT ![k] = "running"]
        BY <2>3, <3>1 DEF ClaimRun
      <4>2. claims[k] = 0 /\ claims'[k] = 1 /\ \A t \in Sources : work[t][k] \notin Owning
        BY <3>1, <4>1
      <4> QED BY <2>0, <4>1, <4>2
    <3>2. CASE runStatus[k] # "pending"
      <4>1. work'[s][k] = "none" /\ UNCHANGED <<claims, runStatus>>
        BY <2>3, <3>2 DEF ClaimRun, Return
      <4> QED BY <2>1, <4>1
    <3> QED BY <3>1, <3>2
  <2>4. CASE MarkRequest(s, k)
    BY <2>4, <2>1 DEF MarkRequest, requestVars, reviewVars
  <2>5. CASE Review(s, k)
    BY <2>5, <2>1 DEF Review, rowVars, requestVars
  <2>6. CASE LookAgain(s, k)
    BY <2>6, <2>1 DEF LookAgain, rowVars, requestVars, reviewVars
  <2>7. CASE EndRun(s, k)
    BY <2>7, <2>1 DEF EndRun, reviewVars
  <2>8. CASE EndRequest(s, k)
    BY <2>8, <2>1 DEF EndRequest, requestVars, reviewVars
  <2> QED BY <1>2, <2>2, <2>3, <2>4, <2>5, <2>6, <2>7, <2>8 DEF RunReview
<1> QED BY <1>1, <1>2, OutsideSteps

LEMMA KeptStep ==
  ASSUME TypeOK, Born, Holds, Kept, Heeded, [Next]_vars
  PROVE  Kept'
<1>1. ASSUME Outside PROVE Kept'
  BY <1>1 DEF Outside, Kept, TypeOK
<1>2. ASSUME NEW s \in Sources, NEW k \in RunIds, RunReview(s, k) PROVE Kept'
  <2> USE DEF TypeOK, Kept
  <2>0. \A t \in Sources, j \in RunIds : t # s \/ j # k => work'[t][j] = work[t][j]
    BY <1>2, OneMoves
  <2>1. ASSUME saved \subseteq saved', work'[s][k] \in {"look", "endRun", "endRequest"} => k \in saved',
               \A j \in RunIds : runStatus'[j] = "completed" => runStatus[j] = "completed" \/ j \in saved'
        PROVE  Kept'
    BY <2>0, <2>1
  <2>2. CASE LoadRequest(s, k)
    BY <2>2, <2>1 DEF LoadRequest, StepTo, Return, rowVars, requestVars, reviewVars
  <2>3. CASE ClaimRun(s, k)
    BY <2>3, <2>1 DEF ClaimRun, StepTo, Return
  <2>4. CASE MarkRequest(s, k)
    BY <2>4, <2>1 DEF MarkRequest, StepTo, requestVars, reviewVars
  <2>5. CASE Review(s, k)
    BY <2>5, <2>1 DEF Review, StepTo, rowVars, requestVars
  <2>6. CASE LookAgain(s, k)
    BY <2>6, <2>1 DEF LookAgain, StepTo, Return, rowVars, requestVars, reviewVars
  <2>7. CASE EndRun(s, k)
    BY <2>7, <2>1 DEF EndRun, StepTo, reviewVars
  <2>8. CASE EndRequest(s, k)
    BY <2>8, <2>1 DEF EndRequest, Return, requestVars, reviewVars
  <2> QED BY <1>2, <2>2, <2>3, <2>4, <2>5, <2>6, <2>7, <2>8 DEF RunReview
<1> QED BY <1>1, <1>2, OutsideSteps

LEMMA HeededStep ==
  ASSUME TypeOK, Born, Holds, Claimed, Heeded, [Next]_vars
  PROVE  Heeded'
<1>1. ASSUME Outside PROVE Heeded'
  <2>1. \A k \in stopped' : k \in RunIds /\ runStatus[k] # "completed" /\ \A s \in Sources : work[s][k] # "endRun"
    <3>1. SUFFICES ASSUME NEW k \in stopped', k \notin stopped
                   PROVE  k \in RunIds /\ runStatus[k] # "completed" /\ \A s \in Sources : work[s][k] # "endRun"
      BY DEF Heeded, TypeOK
    <3>2. k \in RunIds
      BY <3>1, TypeStep DEF TypeOK
    <3>3. PICK s \in Sources : work[s][k] \in {"review", "look"}
      BY <1>1, <3>1 DEF Outside
    <3> QED BY <3>2, <3>3 DEF Heeded, Claimed
  <2> QED BY <1>1, <2>1 DEF Outside, Heeded, TypeOK
<1>2. ASSUME NEW s \in Sources, NEW k \in RunIds, RunReview(s, k) PROVE Heeded'
  <2> USE DEF TypeOK, Heeded
  <2>0. /\ \A t \in Sources, j \in RunIds : t # s \/ j # k => work'[t][j] = work[t][j]
        /\ runOf' = runOf
    BY <1>2, OneMoves, RunParts
  <2>9. \A j \in stopped : runOf[j] \in Requests
    BY DEF Born, RunIds
  <2>1. ASSUME stopped' \subseteq stopped,
               \A j \in stopped' : request'[runOf[j]] = request[runOf[j]],
               work'[s][k] = "endRun" => work[s][k] = "look" /\ k \notin stopped,
               work'[s][k] \in {"mark", "review", "look", "endRun", "failRun"} =>
                 work[s][k] \in {"mark", "review", "look", "endRun", "failRun"} \/ runStatus'[k] # "completed",
               \A j \in RunIds : runStatus'[j] = "completed" => runStatus[j] = "completed"
        PROVE  Heeded'
    BY <2>0, <2>1
  <2>2. CASE LoadRequest(s, k)
    BY <2>2, <2>1 DEF LoadRequest, StepTo, Return, rowVars, requestVars, reviewVars
  <2>3. CASE ClaimRun(s, k)
    BY <2>3, <2>1 DEF ClaimRun, StepTo, Return
  <2>4. CASE MarkRequest(s, k)
    <3>1. stopped' \subseteq stopped /\ \A j \in stopped' : request'[runOf[j]] = request[runOf[j]]
      BY <2>4 DEF MarkRequest, SetRequest, RunsOf
    <3>2. work'[s][k] = "review" /\ work[s][k] = "mark" /\ runStatus' = runStatus
      BY <2>4 DEF MarkRequest, StepTo, requestVars
    <3> QED BY <2>1, <3>1, <3>2
  <2>5. CASE Review(s, k)
    <3>1. work'[s][k] \in {"look", "failRun"} /\ work[s][k] = "review"
      BY <2>5 DEF Review, StepTo
    <3>2. UNCHANGED <<stopped, request, runStatus>>
      BY <2>5 DEF Review, rowVars, requestVars
    <3> QED BY <2>1, <3>1, <3>2
  <2>6. CASE LookAgain(s, k)
    <3>1. UNCHANGED <<stopped, request, runStatus>> /\ work[s][k] = "look"
      BY <2>6 DEF LookAgain, rowVars, requestVars
    <3>2. CASE request[runOf[k]] = "stopped"
      <4>1. work'[s][k] = "none"
        BY <2>6, <3>2 DEF LookAgain, Return
      <4> QED BY <2>1, <3>1, <4>1
    <3>3. CASE request[runOf[k]] # "stopped"
      <4>1. k \notin stopped
        BY <3>3
      <4>2. work'[s][k] = "endRun"
        BY <2>6, <3>3 DEF LookAgain, StepTo
      <4> QED BY <2>1, <3>1, <4>1, <4>2
    <3> QED BY <3>2, <3>3
  <2>7. CASE EndRun(s, k)
    <3>1. UNCHANGED <<stopped, request>>
      BY <2>7 DEF EndRun
    <3>2. work[s][k] \in {"endRun", "failRun"} /\ work'[s][k] \in {"endRequest", "failRequest"}
          /\ \A j \in RunIds : j # k => runStatus'[j] = runStatus[j]
      BY <2>7 DEF EndRun, StepTo
    <3>3. \A t \in Sources : t # s => work'[t][k] \notin Owning
      BY <2>0, <3>2 DEF Claimed
    <3>4. k \in stopped => runStatus'[k] # "completed"
      BY <2>7, <3>2 DEF EndRun
    <3> QED BY <2>0, <3>1, <3>2, <3>3, <3>4
  <2>8. CASE EndRequest(s, k)
    <3>1. stopped' \subseteq stopped /\ \A j \in stopped' : request'[runOf[j]] = request[runOf[j]]
      BY <2>8 DEF EndRequest, SetRequest, RunsOf
    <3>2. work'[s][k] = "none" /\ runStatus' = runStatus
      BY <2>8 DEF EndRequest, Return, requestVars
    <3> QED BY <2>1, <3>1, <3>2
  <2> QED BY <1>2, <2>2, <2>3, <2>4, <2>5, <2>6, <2>7, <2>8 DEF RunReview
<1> QED BY <1>1, <1>2, OutsideSteps

----------------------------------------------------------------------------
(* The theorems *)

LEMMA Step == IInv /\ [Next]_vars => IInv'
BY TypeStep, BornStep, HoldsStep, ClaimedStep, KeptStep, HeededStep DEF IInv

\* All of the invariant holds in every reachable state.
THEOREM Invariance == Spec => []IInv
BY InitOK, Step, PTL DEF Spec

\* The variables have their types.
THEOREM Typing == Spec => []TypeOK
<1>1. IInv => TypeOK
  BY DEF IInv
<1> QED BY <1>1, Invariance, PTL

\* A run is claimed once and reviewed by one worker, and one that reads completed has
\* its findings saved, whatever is delivered twice, re-armed or recovered.
THEOREM OneReviewPerRun == Spec => []ReviewedOnce
<1>1. IInv => ReviewedOnce
  BY DEF IInv, ReviewedOnce, Claimed, Kept
<1> QED BY <1>1, Invariance, PTL

\* A review that was stopped before it looked again never completes its run.
THEOREM StopsStand == Spec => []StopsAreHeeded
<1>1. IInv => StopsAreHeeded
  BY DEF IInv, StopsAreHeeded, Heeded, TypeOK
<1> QED BY <1>1, Invariance, PTL

----------------------------------------------------------------------------
(* No active request is forgotten *)

\* Only crashes have happened of what may leave a request unsettled.
OnlyCrashes == seen \subseteq {"crash"}

\* p has the request in hand and will publish or re-arm a run of it.
AtIt(p, r) ==
  /\ target[p] = r
  /\ \/ pc[p] \in {"create", "close", "rerun", "accept"}
     \/ pc[p] \in {"seed", "publish"} /\ request[r] = "accepted"

\* The run may still be claimed, and an event, the sweep or an execution will try to.
Waits(k) ==
  /\ runStatus[k] = "pending"
  /\ \/ k \in events
     \/ sweep = "arm" /\ k \in rearmed
     \/ \E s \in Sources \ {"inline"} : work[s][k] \in {"load", "claim"}

Cared(r) ==
  \/ sweep = "list"
  \/ sweep = "arm" /\ r \in todo
  \/ \E p \in Armers : AtIt(p, r)
  \/ \E k \in RunsOf(r), s \in Sources \ {"inline"} : work[s][k] \in Owning
  \/ request[r] = "accepted" /\ \E k \in RunsOf(r) : Waits(k)

\* Somebody is responsible for every active request, in every interleaving of handlers,
\* events, executions and crashes: a handler that has it in hand, the sweep, a worker
\* that owns a run of it, or a waiting run that somebody will try to claim. This is the
\* part of ReviewsSettle that needs no fairness.
NobodyForgets == OnlyCrashes => \A r \in Requests : request[r] \in Active => Cared(r)

\* Each request is in the hands of one handler or of the sweep.
Alone == OnlyCrashes => \A p, q \in Armers : target[p] = target[q] /\ target[p] # NoRequest => p = q

\* Handlers and sweep are where they can be: the run they hold is of their request,
\* and the goroutines of the recovery begin when the sweep is over.
Places ==
  /\ \A p \in Armers :
       /\ pc[p] \in {"idle", "done"} => target[p] = NoRequest
       /\ pc[p] \in {"publish", "close", "accept", "seed", "stop"} => runOf[chosen[p]] = target[p]
       /\ pc[p] \in {"create", "close", "rerun", "accept"} => request[target[p]] # "absent"
  /\ pc[Sweeper] \in {"idle", "close", "rerun", "accept", "seed"}
  /\ \A k \in RunIds : k < nextRun => request[runOf[k]] # "absent"
  /\ sweep # "arm" => todo = {} /\ rearmed = {} /\ pc[Sweeper] = "idle"
  /\ sweep # "over" => \A k \in RunIds : work["recovery"][k] = "none"

\* A run that is not yet published waits untouched, a request that is being inserted
\* has no run, and one that is being stopped is not accepted.
Alert ==
  OnlyCrashes =>
    /\ \A k \in RunIds : work["inline"][k] = "none"
    /\ \A p \in Armers :
         /\ pc[p] \in {"accept", "seed", "publish"} =>
              /\ runStatus[chosen[p]] = "pending"
              /\ chosen[p] \notin events /\ chosen[p] \notin rearmed
              /\ \A s \in Sources : work[s][chosen[p]] = "none"
         /\ pc[p] = "insert" => request[target[p]] = "absent"
         /\ pc[p] = "create" => request[target[p]] = "accepted" /\ \A k \in RunIds : runOf[k] # target[p]
         /\ pc[p] \in {"find", "stop"} => request[target[p]] # "accepted"
    /\ \A r \in Requests : request[r] # "absent" /\ (\A k \in RunIds : runOf[k] # r) =>
         \E c \in Clients : target[c] = r /\ pc[c] = "create"

\* What is seen stays so.
LEMMA SeenStays ==
  ASSUME TypeOK, [Next]_vars, OnlyCrashes'
  PROVE  /\ OnlyCrashes
         /\ ~\E c \in Clients : PublishFails(c) \/ Vanish(c)
<1> USE DEF rowVars, requestVars, callVars, sweepVars, eventVars, reviewVars, faultVars
<1>1. seen \subseteq seen'
  <2>1. ASSUME NEW p \in Armers, NEW r \in Requests, Submit(p, r) \/ Stop(p, r) \/ LoadLatest(p, r)
        PROVE  seen \subseteq seen'
    BY <2>1 DEF Submit, Stop, LoadLatest, Begin
  <2>2. ASSUME NEW p \in Armers, Insert(p) \/ FindOpenRun(p) \/ StopRun(p) \/ Arm(p) \/ Publish(p)
        PROVE  seen \subseteq seen'
    BY <2>2 DEF Insert, FindOpenRun, StopRun, Arm, Publish, CreateRun, CloseSuperseded, AcceptAgain, SeedAspects
  <2>3. ASSUME NEW p \in Armers, PublishFails(p) \/ Vanish(p) \/ Crash PROVE seen \subseteq seen'
    BY <2>3 DEF PublishFails, Vanish, Crash, ProcessEnds, Fault
  <2>4. ASSUME NEW r \in Requests, SweepList \/ SweepSkips(r) \/ SweepStart PROVE seen \subseteq seen'
    BY <2>4 DEF SweepList, SweepSkips, SweepStart
  <2>5. ASSUME NEW s \in Sources, NEW k \in RunIds, RunReview(s, k) \/ Deliver(k) \/ InlineDies(k)
        PROVE  seen \subseteq seen'
    BY <2>5, RunParts DEF Deliver, InlineDies
  <2>6. CASE Sweeping
    BY <2>6, <2>1, <2>2, <2>4 DEF Sweeping, SweepNext, SweepList, SweepStart
  <2>7. CASE Crash
    BY <2>3, <2>7
  <2>8. CASE UNCHANGED vars
    BY <2>8 DEF vars
  <2> QED BY <2>1, <2>2, <2>3, <2>5, <2>6, <2>7, <2>8 DEF Next, Handle, Restart
<1>2. ASSUME NEW c \in Clients, PublishFails(c) \/ Vanish(c) PROVE FALSE
  <2>1. "unpublished" \in seen' \/ "vanished" \in seen'
    BY <1>2 DEF PublishFails, Vanish, Fault
  <2> QED BY <2>1 DEF OnlyCrashes
<1> QED BY <1>1, <1>2 DEF OnlyCrashes

LEMMA AloneStep ==
  ASSUME TypeOK, Places, Alone, [Next]_vars
  PROVE  Alone'
<1> USE ReviewAssumption DEF rowVars, requestVars, callVars, sweepVars, eventVars, reviewVars, faultVars
<1> SUFFICES ASSUME OnlyCrashes' PROVE \A p, q \in Armers : target'[p] = target'[q] /\ target'[p] # NoRequest => p = q
  BY DEF Alone
<1>0. OnlyCrashes /\ \A p, q \in Armers : target[p] = target[q] /\ target[p] # NoRequest => p = q
  BY SeenStays DEF Alone
<1>1. ASSUME NEW p \in Armers, NEW r \in Requests, Begin(p, r) PROVE Alone'
  <2>1. \A q \in Armers : target[q] # r
    BY <1>1 DEF Begin, OnlyCrashes
  <2> QED BY <1>0, <1>1, <2>1 DEF Begin, Alone, TypeOK
<1>2. ASSUME NEW p \in Armers, Leave(p) PROVE Alone'
  BY <1>0, <1>2 DEF Leave, Alone, TypeOK
<1>3. ASSUME UNCHANGED target PROVE Alone'
  BY <1>0, <1>3 DEF Alone
<1>4. ASSUME NEW p \in Armers, NEW r \in Requests, Submit(p, r) \/ Stop(p, r) \/ LoadLatest(p, r) PROVE Alone'
  BY <1>1, <1>4 DEF Submit, Stop, LoadLatest
<1>5. ASSUME NEW p \in Armers, Insert(p) \/ FindOpenRun(p) \/ StopRun(p) \/ Arm(p) \/ Publish(p) PROVE Alone'
  BY <1>5, <1>2, <1>3 DEF Insert, FindOpenRun, StopRun, Arm, Publish, CreateRun, CloseSuperseded, AcceptAgain,
     SeedAspects
<1>6. ASSUME SweepList \/ SweepStart \/ \E r \in Requests : SweepSkips(r) PROVE Alone'
  BY <1>6, <1>3 DEF SweepList, SweepSkips, SweepStart
<1>7. ASSUME NEW s \in Sources, NEW k \in RunIds, RunReview(s, k) \/ Deliver(k) \/ InlineDies(k) PROVE Alone'
  BY <1>7, <1>3, RunParts DEF Deliver, InlineDies
<1>8. CASE Sweeping
  BY <1>8, <1>4, <1>5, <1>6 DEF Sweeping, SweepNext, Alone
<1>9. CASE Crash
  BY <1>9, <1>2 DEF Crash, ProcessEnds, Alone
<1>10. CASE UNCHANGED vars
  BY <1>10, <1>3 DEF vars, Alone
<1> QED BY <1>4, <1>5, <1>7, <1>8, <1>9, <1>10, SeenStays DEF Next, Handle, Restart, Alone

\* No step makes a request that was inserted absent again.
LEMMA RequestsStay ==
  ASSUME TypeOK, [Next]_vars
  PROVE  \A r \in Requests : request[r] # "absent" => request'[r] # "absent"
<1> USE DEF TypeOK, rowVars, requestVars, callVars, sweepVars, eventVars, reviewVars, faultVars
<1> DEFINE Stays == \A r \in Requests : request[r] # "absent" => request'[r] # "absent"
<1>1. ASSUME UNCHANGED request PROVE Stays
  BY <1>1
<1>2. ASSUME NEW r \in Requests, NEW p \in Armers, Submit(p, r) \/ LoadLatest(p, r) \/ SweepSkips(r) PROVE Stays
  BY <1>2 DEF Submit, LoadLatest, SweepSkips
<1>3. ASSUME NEW r \in Requests, NEW p \in Armers, Stop(p, r) PROVE Stays
  BY <1>3 DEF Stop
<1>4. ASSUME NEW p \in Armers, Insert(p) \/ AcceptAgain(p) PROVE Stays
  BY <1>4 DEF Insert, AcceptAgain, SetRequest
<1>5. ASSUME NEW p \in Armers,
             FindOpenRun(p) \/ StopRun(p) \/ CreateRun(p) \/ CloseSuperseded(p) \/ SeedAspects(p) \/ Publish(p)
             \/ PublishFails(p) \/ Vanish(p)
      PROVE  Stays
  BY <1>5 DEF FindOpenRun, StopRun, CreateRun, CloseSuperseded, SeedAspects, Publish, PublishFails, Vanish
<1>6. ASSUME SweepList \/ SweepStart \/ Crash \/ UNCHANGED vars PROVE Stays
  BY <1>6 DEF SweepList, SweepStart, Crash, ProcessEnds, vars
<1>7. ASSUME NEW k \in RunIds, Deliver(k) \/ InlineDies(k) PROVE Stays
  BY <1>7 DEF Deliver, InlineDies
<1>8. ASSUME NEW s \in Sources, NEW k \in RunIds, RunReview(s, k) PROVE Stays
  BY <1>8 DEF RunReview, LoadRequest, ClaimRun, MarkRequest, Review, LookAgain, EndRun, EndRequest, SetRequest
<1> HIDE DEF Stays
<1>9. ASSUME Sweeping PROVE Stays
  BY <1>2, <1>4, <1>5, <1>6, <1>9 DEF Sweeping, Arm, SweepNext
<1>10. Stays
  BY <1>2, <1>3, <1>4, <1>5, <1>6, <1>7, <1>8, <1>9 DEF Next, Handle, Arm, Restart
<1> QED BY <1>10 DEF Stays

LEMMA PlacesStep ==
  ASSUME TypeOK, Born, Holds, Places, [Next]_vars
  PROVE  Places'
<1> USE ReviewAssumption DEF TypeOK, rowVars, requestVars, callVars, sweepVars, eventVars, reviewVars, faultVars
<1>0. \A r \in Requests : request[r] # "absent" => request'[r] # "absent"
  BY RequestsStay
<1>00. /\ \A k \in RunIds : k < nextRun => runOf[k] \in Requests
       /\ \A p \in Armers : pc[p] \notin {"idle", "done"} => target[p] \in Requests
  BY DEF Born, Holds
<1>1. ASSUME UNCHANGED <<callVars, runOf, nextRun, sweepVars>>,
             sweep # "over" => \A k \in RunIds : work'["recovery"][k] = "none"
      PROVE  Places'
  BY <1>0, <1>00, <1>1 DEF Places
<1>2. ASSUME NEW c \in Clients, NEW r \in Requests, Submit(c, r) \/ Stop(c, r) PROVE Places'
  <2>1. /\ UNCHANGED <<runOf, nextRun, chosen, sweepVars, work>>
        /\ target' = [target EXCEPT ![c] = r] /\ pc' \in {[pc EXCEPT ![c] = "insert"], [pc EXCEPT ![c] = "find"]}
    BY <1>2 DEF Submit, Stop, Begin, GoTo
  <2> QED BY <1>0, <1>00, <2>1 DEF Places
<1>3. ASSUME NEW p \in Armers, NEW r \in Requests, LoadLatest(p, r), p = Sweeper => sweep = "arm",
             todo' \subseteq todo
      PROVE  Places'
  <2>1. /\ UNCHANGED <<request, runOf, nextRun, sweep, rearmed, work>>
        /\ chosen'[p] \in RunIds /\ runOf[chosen'[p]] = r /\ chosen'[p] < nextRun
        /\ target' = [target EXCEPT ![p] = r] /\ pc'[p] \in {"close", "rerun"}
        /\ \A q \in Armers : q # p => pc'[q] = pc[q] /\ chosen'[q] = chosen[q]
    BY <1>3, LoadTyped DEF LoadLatest
  <2>2. request[r] # "absent"
    BY <2>1 DEF Places
  <2>3. p # Sweeper => pc'[Sweeper] = pc[Sweeper]
    BY <2>1
  <2> QED BY <1>3, <2>1, <2>2, <2>3 DEF Places
<1>4. ASSUME NEW c \in Clients, Insert(c) PROVE Places'
  <2>1. /\ UNCHANGED <<runOf, nextRun, target, chosen, sweepVars, work>>
        /\ request'[target[c]] = "accepted" /\ pc' = [pc EXCEPT ![c] = "create"]
    BY <1>4, <1>00 DEF Insert, SetRequest, GoTo
  <2> QED BY <1>0, <1>00, <2>1 DEF Places
<1>5. ASSUME NEW p \in Armers, CreateRun(p) PROVE Places'
  <2>1. /\ runOf' = [runOf EXCEPT ![nextRun] = target[p]] /\ nextRun' = nextRun + 1
        /\ chosen' = [chosen EXCEPT ![p] = nextRun] /\ UNCHANGED <<request, target, sweepVars, work>>
        /\ pc[p] \in {"create", "rerun"}
        /\ pc' = [pc EXCEPT ![p] = IF pc[p] = "create" THEN "publish" ELSE "accept"]
        /\ nextRun \in RunIds
    BY <1>5 DEF CreateRun, GoTo, RunIds
  <2>2. \A q \in Armers : chosen[q] # nextRun
    BY DEF Holds
  <2>3. \A q \in Armers : chosen[q] # 0 => runOf'[chosen[q]] = runOf[chosen[q]]
    BY <2>1, <2>2
  <2>4. \A k \in RunIds : k < nextRun' => k = nextRun \/ (k < nextRun /\ runOf'[k] = runOf[k])
    BY <2>1 DEF RunIds
  <2>5. p = Sweeper => pc[p] = "rerun"
    BY <2>1 DEF Places
  <2>6. request[target[p]] # "absent"
    BY <2>1 DEF Places
  <2>7. \A q \in Armers : pc'[q] \in {"publish", "close", "accept", "seed", "stop"} => runOf'[chosen'[q]] = target'[q]
    BY <2>1, <2>3 DEF Places, Holds
  <2> QED BY <2>1, <2>4, <2>5, <2>6, <2>7 DEF Places
<1>6. ASSUME NEW p \in Armers, CloseSuperseded(p) \/ AcceptAgain(p) PROVE Places'
  <2>1. /\ UNCHANGED <<runOf, nextRun, target, chosen, sweepVars, work>> /\ pc[p] \in {"close", "accept"}
        /\ pc' = [pc EXCEPT ![p] = IF pc[p] = "close" THEN "rerun" ELSE "seed"]
    BY <1>6 DEF CloseSuperseded, AcceptAgain, GoTo
  <2> QED BY <1>0, <1>00, <2>1 DEF Places
<1>7. ASSUME NEW p \in Armers, Leave(p), UNCHANGED <<runOf, nextRun, sweep, todo>>,
             p = Sweeper \/ rearmed' = rearmed, sweep # "arm" => rearmed' = {},
             sweep # "over" => \A k \in RunIds : work'["recovery"][k] = "none"
      PROVE  Places'
  <2>1. /\ target' = [target EXCEPT ![p] = NoRequest] /\ pc'[p] = IF p = Sweeper THEN "idle" ELSE "done"
        /\ \A q \in Armers : q # p => pc'[q] = pc[q] /\ chosen'[q] = chosen[q]
    BY <1>7, LeaveTyped DEF Leave, GoTo
  <2>2. pc'[Sweeper] \in {"idle", pc[Sweeper]}
    BY <2>1
  <2> QED BY <1>0, <1>00, <1>7, <2>1, <2>2 DEF Places
<1>8. ASSUME NEW c \in Clients, Publish(c) \/ Vanish(c) \/ StopRun(c) \/ PublishFails(c) PROVE Places'
  <2>1. Leave(c) /\ UNCHANGED <<runOf, nextRun, sweepVars>>
    BY <1>8 DEF Publish, Vanish, StopRun, PublishFails
  <2>2. \A k \in RunIds : work'["recovery"][k] = work["recovery"][k]
    BY <1>8 DEF Publish, Vanish, StopRun, PublishFails
  <2> QED BY <1>7, <2>1, <2>2 DEF Places
<1>9. ASSUME NEW p \in Armers, SeedAspects(p) PROVE Places'
  <2>1. CASE p = Sweeper
    BY <1>7, <1>9, <2>1 DEF SeedAspects, Places
  <2>2. CASE p # Sweeper
    <3>1. UNCHANGED <<runOf, nextRun, target, chosen, sweepVars, work>> /\ pc' = [pc EXCEPT ![p] = "publish"]
          /\ pc[p] = "seed"
      BY <1>9, <2>2 DEF SeedAspects, GoTo
    <3> QED BY <1>0, <1>00, <2>2, <3>1 DEF Places
  <2> QED BY <2>1, <2>2
<1>10. ASSUME NEW c \in Clients, FindOpenRun(c) PROVE Places'
  <2> DEFINE open == {k \in RunsOf(target[c]) : runStatus[k] \in OpenRun}
  <2>1. CASE open = {}
    <3>1. Leave(c) /\ UNCHANGED <<runOf, nextRun, sweepVars, work>>
      BY <1>10, <2>1 DEF FindOpenRun
    <3> QED BY <1>7, <3>1 DEF Places
  <2>2. CASE open # {}
    <3>1. Latest(open) \in open
      <4>1. open \subseteq RunIds
        BY DEF RunsOf
      <4> QED BY <2>2, <4>1, LatestIsOne
    <3>2. runOf[Latest(open)] = target[c]
      BY <3>1 DEF RunsOf
    <3>3. /\ chosen' = [chosen EXCEPT ![c] = Latest(open)] /\ pc' = [pc EXCEPT ![c] = "stop"]
          /\ UNCHANGED <<request, runOf, nextRun, target, sweepVars, work>>
      BY <1>10, <2>2 DEF FindOpenRun, GoTo
    <3> HIDE DEF open
    <3> QED BY <3>2, <3>3 DEF Places
  <2> QED BY <2>1, <2>2
<1>11. CASE SweepList
  BY <1>11 DEF SweepList, Places
<1>12. ASSUME NEW r \in Requests, SweepSkips(r) PROVE Places'
  BY <1>12 DEF SweepSkips, Places
<1>13. CASE SweepStart
  BY <1>13 DEF SweepStart, Places
<1>14. ASSUME NEW k \in RunIds, Deliver(k) \/ InlineDies(k) PROVE Places'
  <2>1. \A j \in RunIds : work'["recovery"][j] = work["recovery"][j]
    BY <1>14 DEF Deliver, InlineDies, StepTo
  <2> QED BY <1>1, <1>14, <2>1 DEF Deliver, InlineDies, Places
<1>15. ASSUME NEW s \in Sources, NEW k \in RunIds, RunReview(s, k) PROVE Places'
  <2>1. \A t \in Sources, j \in RunIds : t # s \/ j # k => work'[t][j] = work[t][j]
    BY <1>15, OneMoves
  <2>2. work[s][k] # "none" /\ UNCHANGED <<callVars, runOf, nextRun, sweepVars>>
    BY <1>15, RunParts
  <2> QED BY <1>1, <2>1, <2>2 DEF Places
<1>16. CASE Crash
  <2>1. /\ target' = [target EXCEPT ![Sweeper] = NoRequest] /\ pc' = [pc EXCEPT ![Sweeper] = "idle"]
        /\ UNCHANGED <<request, runOf, nextRun>> /\ todo' = {} /\ rearmed' = {}
        /\ \A k \in RunIds : work'["recovery"][k] = "none"
        /\ \A q \in Armers : q # Sweeper => chosen'[q] = chosen[q]
    BY <1>16 DEF Crash, ProcessEnds, Leave, GoTo
  <2> QED BY <2>1 DEF Places
<1>17. CASE UNCHANGED vars
  BY <1>1, <1>17 DEF vars, Places
<1>18. CASE Sweeping
  <2>1. ASSUME NEW r \in Requests, SweepNext(r) PROVE Places'
    BY <1>3, <2>1 DEF SweepNext
  <2> QED BY <1>18, <1>5, <1>6, <1>9, <1>11, <1>12, <1>13, <2>1 DEF Sweeping, Arm
<1>19. ASSUME NEW c \in Clients, NEW r \in Requests, Restart(c, r) PROVE Places'
  BY <1>3, <1>19 DEF Restart
<1> QED
  BY <1>2, <1>4, <1>5, <1>6, <1>8, <1>9, <1>10, <1>14, <1>15, <1>16, <1>17, <1>18, <1>19 DEF Next, Handle, Arm

\* What Alert says of one handler.
Untouched(k) ==
  /\ runStatus[k] = "pending" /\ k \notin events /\ k \notin rearmed
  /\ \A s \in Sources : work[s][k] = "none"
AlertAt(p) ==
  /\ pc[p] \in {"accept", "seed", "publish"} => Untouched(chosen[p])
  /\ pc[p] = "insert" => request[target[p]] = "absent"
  /\ pc[p] = "create" => request[target[p]] = "accepted" /\ \A k \in RunIds : runOf[k] # target[p]
  /\ pc[p] \in {"find", "stop"} => request[target[p]] # "accepted"
Expected(r) == request[r] # "absent" /\ (\A k \in RunIds : runOf[k] # r) =>
                 \E c \in Clients : target[c] = r /\ pc[c] = "create"

LEMMA AlertParts ==
  Alert <=> (OnlyCrashes => /\ \A k \in RunIds : work["inline"][k] = "none"
                            /\ \A p \in Armers : AlertAt(p)
                            /\ \A r \in Requests : Expected(r))
BY DEF Alert, AlertAt, Untouched, Expected

LEMMA AlertStep ==
  ASSUME TypeOK, Born, Holds, Places, Alone, Alert, [Next]_vars
  PROVE  Alert'
<1> USE ReviewAssumption DEF TypeOK, rowVars, requestVars, callVars, sweepVars, eventVars, reviewVars, faultVars
<1> DEFINE Goal == /\ \A k \in RunIds : work'["inline"][k] = "none"
                   /\ \A p \in Armers : AlertAt(p)'
                   /\ \A r \in Requests : Expected(r)'
<1>0. SUFFICES ASSUME OnlyCrashes' PROVE Goal
  BY AlertParts DEF Alert, AlertAt, Untouched, Expected, OnlyCrashes
<1>a. /\ \A k \in RunIds : work["inline"][k] = "none"
      /\ \A p \in Armers : AlertAt(p)
      /\ \A r \in Requests : Expected(r)
  BY <1>0, SeenStays, AlertParts
<1>b. /\ \A p, q \in Armers : target[p] = target[q] /\ target[p] # NoRequest => p = q
      /\ \A p \in Armers, r \in Requests : Begin(p, r) => \A q \in Armers : target[q] # r
  BY <1>0, SeenStays DEF Alone, Begin, OnlyCrashes
<1>c. /\ \A k \in RunIds : k < nextRun => runOf[k] \in Requests /\ request[runOf[k]] # "absent"
      /\ \A k \in RunIds : runOf[k] # NoRequest => k < nextRun
      /\ \A p \in Armers : pc[p] \notin {"idle", "done"} => target[p] \in Requests
      /\ \A p \in Armers : pc[p] \in {"publish", "close", "accept", "seed", "stop"} =>
           chosen[p] \in RunIds /\ chosen[p] < nextRun /\ runOf[chosen[p]] = target[p]
      /\ \A p \in Armers, q \in Armers :
           /\ pc[p] \in {"publish", "close", "accept", "seed", "stop"}
           /\ pc[q] \in {"publish", "close", "accept", "seed", "stop"}
           /\ chosen[p] = chosen[q]
           => p = q
  <2>1. /\ \A k \in RunIds : k < nextRun => runOf[k] \in Requests /\ request[runOf[k]] # "absent"
        /\ \A k \in RunIds : runOf[k] # NoRequest => k < nextRun
    BY DEF Born, Places, RunIds
  <2>2. \A p \in Armers : pc[p] \notin {"idle", "done"} => target[p] \in Requests
    BY DEF Holds
  <2>3. \A p \in Armers : pc[p] \in {"publish", "close", "accept", "seed", "stop"} =>
           chosen[p] \in RunIds /\ chosen[p] < nextRun /\ runOf[chosen[p]] = target[p]
    BY DEF Holds, Places
  <2> QED BY <1>b, <2>1, <2>2, <2>3
\* A step that leaves handlers, requests and the runs they hold alone.
<1>1. ASSUME UNCHANGED <<callVars, request, runOf>>, \A k \in RunIds : work'["inline"][k] = "none",
             \A k \in RunIds : Untouched(k) => Untouched(k)'
      PROVE  Goal
  <2>1. \A p \in Armers : AlertAt(p)'
    BY <1>1, <1>a, <1>c DEF AlertAt
  <2>2. \A r \in Requests : Expected(r)'
    BY <1>1, <1>a DEF Expected
  <2> QED BY <1>1, <2>1, <2>2
\* A step of p that leaves the requests and the executions alone, and does not touch
\* the run of another handler.
<1>2. ASSUME NEW p \in Armers, UNCHANGED <<request, runOf, work>>,
             \A q \in Armers : q # p => pc'[q] = pc[q] /\ target'[q] = target[q] /\ chosen'[q] = chosen[q],
             pc[p] # "create",
             \A q \in Armers : q # p /\ pc[q] \in {"accept", "seed", "publish"} => Untouched(chosen[q])',
             AlertAt(p)'
      PROVE  Goal
  <2>1. \A q \in Armers : AlertAt(q)'
    BY <1>2, <1>a DEF AlertAt
  <2>2. \A r \in Requests : Expected(r)'
    BY <1>2, <1>a DEF Expected
  <2> QED BY <1>2, <1>a, <2>1, <2>2
<1>3. ASSUME NEW c \in Clients, NEW r \in Requests, Submit(c, r) PROVE Goal
  <2>1. /\ UNCHANGED <<rowVars, chosen, sweepVars, work, eventVars>> /\ pc[c] = "idle" /\ request[r] = "absent"
        /\ pc' = [pc EXCEPT ![c] = "insert"] /\ target' = [target EXCEPT ![c] = r]
    BY <1>3 DEF Submit, GoTo, Begin
  <2> QED BY <1>2, <1>a, <2>1 DEF AlertAt, Untouched
<1>4. ASSUME NEW c \in Clients, NEW r \in Requests, Stop(c, r) PROVE Goal
  <2>1. /\ UNCHANGED <<requestVars, chosen, sweepVars, work, eventVars>> /\ pc[c] = "idle"
        /\ request[r] \in Active /\ request' = [request EXCEPT ![r] = "stopped"]
        /\ pc' = [pc EXCEPT ![c] = "find"] /\ target' = [target EXCEPT ![c] = r]
    BY <1>4 DEF Stop, GoTo, Begin
  <2>2. \A q \in Armers : target[q] # r
    BY <1>4, <1>b DEF Stop
  <2>3. \A q \in Armers : AlertAt(q)'
    BY <1>a, <1>c, <2>1, <2>2 DEF AlertAt, Untouched
  <2>4. \A q \in Requests : Expected(q)'
    BY <1>a, <2>1 DEF Expected
  <2> QED BY <1>a, <2>1, <2>3, <2>4
<1>5. ASSUME NEW p \in Armers, NEW r \in Requests, LoadLatest(p, r) PROVE Goal
  <2>1. UNCHANGED <<request, runOf, runStatus, work, events, rearmed>> /\ pc[p] = "idle"
    BY <1>5 DEF LoadLatest
  <2>2. /\ pc'[p] \in {"close", "rerun"} /\ target' = [target EXCEPT ![p] = r]
        /\ \A q \in Armers : q # p => pc'[q] = pc[q] /\ chosen'[q] = chosen[q]
    BY <1>5, LoadTyped
  <2> QED BY <1>2, <1>a, <2>1, <2>2 DEF AlertAt, Untouched
<1>6. ASSUME NEW c \in Clients, Insert(c) PROVE Goal
  <2>1. /\ UNCHANGED <<requestVars, target, chosen, sweepVars, work, eventVars>> /\ pc[c] = "insert"
        /\ request' = [request EXCEPT ![target[c]] = "accepted"] /\ pc' = [pc EXCEPT ![c] = "create"]
    BY <1>6 DEF Insert, SetRequest, GoTo
  <2>2. target[c] \in Requests /\ request[target[c]] = "absent" /\ \A k \in RunIds : runOf[k] # target[c]
    BY <1>a, <1>c, <2>1 DEF AlertAt
  <2>3. ASSUME NEW q \in Armers, q # c PROVE AlertAt(q)'
    <3>1. pc[q] \notin {"idle", "done"} => request'[target[q]] = request[target[q]]
      BY <1>b, <1>c, <2>1, <2>2, <2>3
    <3> QED BY <1>a, <2>1, <2>3, <3>1 DEF AlertAt, Untouched
  <2>4. AlertAt(c)'
    BY <2>1, <2>2 DEF AlertAt
  <2>5. \A r \in Requests : Expected(r)'
    BY <1>a, <2>1, <2>2 DEF Expected
  <2> QED BY <1>a, <2>1, <2>3, <2>4, <2>5
<1>7. ASSUME NEW p \in Armers, CreateRun(p) PROVE Goal
  <2>1. /\ runOf' = [runOf EXCEPT ![nextRun] = target[p]]
        /\ runStatus' = [runStatus EXCEPT ![nextRun] = "pending"]
        /\ chosen' = [chosen EXCEPT ![p] = nextRun] /\ UNCHANGED <<request, target, sweepVars, work, eventVars>>
        /\ pc[p] \in {"create", "rerun"}
        /\ pc' = [pc EXCEPT ![p] = IF pc[p] = "create" THEN "publish" ELSE "accept"]
        /\ nextRun \in RunIds
    BY <1>7 DEF CreateRun, GoTo, RunIds
  <2>2. nextRun \notin events /\ nextRun \notin rearmed /\ \A s \in Sources : work[s][nextRun] = "none"
    BY <2>1 DEF Born
  <2>3. AlertAt(p)'
    BY <2>1, <2>2 DEF AlertAt, Untouched
  <2>4. target[p] \in Requests
    BY <1>c, <2>1
  <2>5. ASSUME NEW q \in Armers, q # p PROVE AlertAt(q)'
    <3>1. pc[q] \notin {"idle", "done"} => target[q] # target[p]
      BY <1>b, <1>c, <2>4, <2>5
    <3>2. pc[q] \in {"accept", "seed", "publish"} => Untouched(chosen[q])'
      BY <1>a, <1>c, <2>1, <2>5 DEF AlertAt, Untouched
    <3> QED BY <1>a, <2>1, <2>5, <3>1, <3>2 DEF AlertAt
  <2>6. \A r \in Requests : Expected(r)'
    BY <1>a, <2>1, <2>2 DEF Expected, Born
  <2> QED BY <1>a, <2>1, <2>3, <2>5, <2>6
<1>8. ASSUME NEW p \in Armers, CloseSuperseded(p) PROVE Goal
  <2>1. /\ UNCHANGED <<request, runOf, target, chosen, sweepVars, work, eventVars>> /\ pc[p] = "close"
        /\ runStatus' = [runStatus EXCEPT ![chosen[p]] = "stopped"] /\ pc' = [pc EXCEPT ![p] = "rerun"]
    BY <1>8 DEF CloseSuperseded, GoTo
  <2>2. \A q \in Armers : q # p /\ pc[q] \in {"accept", "seed", "publish"} => Untouched(chosen[q])'
    BY <1>a, <1>c, <2>1 DEF AlertAt, Untouched
  <2>3. AlertAt(p)'
    BY <2>1 DEF AlertAt
  <2> QED BY <1>2, <2>1, <2>2, <2>3
<1>9. ASSUME NEW p \in Armers, AcceptAgain(p) PROVE Goal
  <2>1. /\ UNCHANGED <<requestVars, target, chosen, sweepVars, work, eventVars>> /\ pc[p] = "accept"
        /\ request' = [request EXCEPT ![target[p]] = "accepted"] /\ pc' = [pc EXCEPT ![p] = "seed"]
    BY <1>9 DEF AcceptAgain, SetRequest, GoTo
  <2>2. target[p] \in Requests /\ request[target[p]] # "absent"
    BY <1>c, <2>1 DEF Places
  <2>3. ASSUME NEW q \in Armers, q # p PROVE AlertAt(q)'
    <3>1. pc[q] \notin {"idle", "done"} => request'[target[q]] = request[target[q]]
      BY <1>b, <1>c, <2>1, <2>2, <2>3
    <3> QED BY <1>a, <2>1, <2>3, <3>1 DEF AlertAt, Untouched
  <2>4. AlertAt(p)'
    BY <1>a, <2>1, <2>2 DEF AlertAt, Untouched
  <2>5. \A r \in Requests : Expected(r)'
    BY <1>a, <2>1, <2>2 DEF Expected
  <2> QED BY <1>a, <2>1, <2>3, <2>4, <2>5
<1>10. ASSUME NEW p \in Armers, SeedAspects(p) PROVE Goal
  <2>1. UNCHANGED <<rowVars, events, work>> /\ rearmed' \subseteq rearmed \cup {chosen[p]} /\ pc[p] = "seed"
        /\ (p # Sweeper => rearmed' = rearmed)
    BY <1>10 DEF SeedAspects
  <2>2. \A q \in Armers : q # p => pc'[q] = pc[q] /\ target'[q] = target[q] /\ chosen'[q] = chosen[q]
    BY <1>10 DEF SeedAspects, Leave, GoTo
  <2>3. \A q \in Armers : q # p /\ pc[q] \in {"accept", "seed", "publish"} => Untouched(chosen[q])'
    BY <1>a, <1>c, <2>1, <2>2 DEF AlertAt, Untouched
  <2>4. AlertAt(p)'
    <3>1. CASE p = Sweeper
      BY <1>10, <3>1, LeaveTyped DEF SeedAspects, AlertAt
    <3>2. CASE p # Sweeper
      <4>1. pc'[p] = "publish" /\ UNCHANGED <<chosen, rearmed>>
        BY <1>10, <3>2 DEF SeedAspects, GoTo
      <4> QED BY <1>a, <2>1, <4>1 DEF AlertAt, Untouched
    <3> QED BY <3>1, <3>2
  <2> QED BY <1>2, <2>1, <2>2, <2>3, <2>4
<1>11. ASSUME NEW c \in Clients, Publish(c) \/ StopRun(c) PROVE Goal
  <2>1. /\ UNCHANGED <<request, runOf, work, rearmed>> /\ Leave(c) /\ pc[c] \in {"publish", "stop"}
        /\ events' \subseteq events \cup {chosen[c]}
        /\ \A k \in RunIds : k # chosen[c] => runStatus'[k] = runStatus[k]
    BY <1>11 DEF Publish, StopRun
  <2>2. \A q \in Armers : q # c => pc'[q] = pc[q] /\ target'[q] = target[q] /\ chosen'[q] = chosen[q]
    BY <2>1, LeaveTyped
  <2>3. \A q \in Armers : q # c /\ pc[q] \in {"accept", "seed", "publish"} => Untouched(chosen[q])'
    BY <1>a, <1>c, <2>1, <2>2 DEF AlertAt, Untouched
  <2>4. AlertAt(c)'
    BY <2>1, LeaveTyped DEF AlertAt
  <2> QED BY <1>2, <2>1, <2>2, <2>3, <2>4
<1>12. ASSUME NEW c \in Clients, FindOpenRun(c) PROVE Goal
  <2>1. /\ UNCHANGED <<rowVars, rearmed, work, events>> /\ pc[c] = "find"
        /\ (pc'[c] = "done" \/ (pc'[c] = "stop" /\ target'[c] = target[c]))
        /\ \A q \in Armers : q # c => pc'[q] = pc[q] /\ target'[q] = target[q] /\ chosen'[q] = chosen[q]
    BY <1>12 DEF FindOpenRun, Leave, GoTo
  <2>2. \A q \in Armers : q # c /\ pc[q] \in {"accept", "seed", "publish"} => Untouched(chosen[q])'
    BY <1>a, <2>1 DEF AlertAt, Untouched
  <2>3. AlertAt(c)'
    BY <1>a, <2>1 DEF AlertAt
  <2> QED BY <1>2, <2>1, <2>2, <2>3
<1>13. ASSUME SweepList \/ \E r \in Requests : SweepSkips(r) PROVE Goal
  BY <1>13, <1>1, <1>a DEF SweepList, SweepSkips, Untouched
<1>14. CASE SweepStart
  <2>1. /\ UNCHANGED <<rowVars, callVars, events>> /\ rearmed' = {}
        /\ \A s \in Sources, k \in RunIds : k \notin rearmed => work'[s][k] = work[s][k]
        /\ \A k \in RunIds : work'["inline"][k] = work["inline"][k]
    BY <1>14 DEF SweepStart
  <2> QED BY <1>1, <1>a, <2>1 DEF Untouched
<1>15. ASSUME NEW k \in RunIds, Deliver(k) \/ InlineDies(k) PROVE Goal
  <2>1. UNCHANGED <<rowVars, callVars, sweepVars, eventVars>> /\ (k \in events \/ work["inline"][k] # "none")
    BY <1>15 DEF Deliver, InlineDies, StepTo
  <2>2. k \in events /\ work' = [work EXCEPT !["callback"][k] = "load"]
    BY <1>15, <1>a DEF Deliver, InlineDies, StepTo
  <2>3. \A t \in Sources, j \in RunIds : t # "callback" \/ j # k => work'[t][j] = work[t][j]
    BY <2>2
  <2> QED BY <1>1, <1>a, <2>1, <2>2, <2>3 DEF Untouched
<1>16. ASSUME NEW s \in Sources, NEW k \in RunIds, RunReview(s, k) PROVE Goal
  <2>1. /\ \A t \in Sources, j \in RunIds : t # s \/ j # k => work'[t][j] = work[t][j]
        /\ UNCHANGED <<runOf, nextRun, callVars, sweepVars>> /\ events' \subseteq events /\ work[s][k] # "none"
    BY <1>16, RunParts, OneMoves
  <2>2. s # "inline" /\ \A j \in RunIds : work'["inline"][j] = "none"
    BY <1>a, <2>1
  <2>3. k < nextRun
    BY <2>1 DEF Born, RunIds
  <2>4. /\ \A r \in Requests : request'[r] # request[r] => r = runOf[k] /\ request'[r] # "accepted"
        /\ \A j \in RunIds : j # k => runStatus'[j] = runStatus[j]
    BY <1>16 DEF RunReview, LoadRequest, ClaimRun, MarkRequest, Review, LookAgain, EndRun, EndRequest, SetRequest
  <2>5. request[runOf[k]] # "absent"
    BY <1>c, <2>3
  <2>6. ASSUME NEW p \in Armers PROVE AlertAt(p)'
    <3>1. pc[p] \in {"accept", "seed", "publish"} => Untouched(chosen[p])'
      BY <1>a, <1>c, <2>1, <2>4 DEF AlertAt, Untouched
    <3> QED BY <1>a, <1>c, <2>1, <2>4, <2>5, <3>1 DEF AlertAt
  <2>7. \A r \in Requests : Expected(r)'
    BY <1>a, <2>1, <2>4, <2>5 DEF Expected
  <2> QED BY <2>2, <2>6, <2>7
<1>17. CASE Crash
  <2>1. /\ UNCHANGED rowVars /\ events' \subseteq events /\ rearmed' = {}
        /\ \A s \in Sources, k \in RunIds : work'[s][k] \in {work[s][k], "none"}
        /\ pc' = [pc EXCEPT ![Sweeper] = "idle"]
        /\ \A q \in Armers : q # Sweeper => target'[q] = target[q] /\ chosen'[q] = chosen[q]
    BY <1>17 DEF Crash, ProcessEnds, Leave, GoTo
  <2>2. \A q \in Armers : AlertAt(q)'
    BY <1>a, <1>c, <2>1 DEF AlertAt, Untouched
  <2>3. \A r \in Requests : Expected(r)'
    BY <1>a, <2>1 DEF Expected
  <2> QED BY <1>a, <2>1, <2>2, <2>3
<1>18. CASE UNCHANGED vars
  BY <1>18, <1>1, <1>a DEF vars, Untouched
<1> HIDE DEF Goal
<1>19. CASE Sweeping
  BY <1>19, <1>5, <1>7, <1>8, <1>9, <1>10, <1>13, <1>14 DEF Sweeping, Arm, SweepNext
<1> QED
  BY <1>0, <1>3, <1>4, <1>5, <1>6, <1>7, <1>8, <1>9, <1>10, <1>11, <1>12, <1>15, <1>16, <1>17, <1>18, <1>19,
     SeenStays DEF Next, Handle, Arm, Restart

LEMMA CaredStep ==
  ASSUME IInv, Places, Alone, Alert, NobodyForgets, [Next]_vars
  PROVE  NobodyForgets'
<1> USE ReviewAssumption DEF TypeOK, rowVars, requestVars, callVars, sweepVars, eventVars, reviewVars, faultVars
<1>0. SUFFICES ASSUME OnlyCrashes', NEW r \in Requests, request'[r] \in Active PROVE Cared(r)'
  BY DEF NobodyForgets, OnlyCrashes
<1>t. TypeOK
  BY DEF IInv
<1>a. /\ \A k \in RunIds : work["inline"][k] = "none"
      /\ \A p \in Armers : AlertAt(p)
      /\ \A q \in Requests : Expected(q)
  BY <1>0, <1>t, SeenStays, AlertParts
<1>b. /\ \A p, q \in Armers : target[p] = target[q] /\ target[p] # NoRequest => p = q
      /\ \A p \in Armers, q \in Requests : Begin(p, q) => \A o \in Armers : target[o] # q
  BY <1>0, <1>t, SeenStays DEF Alone, Begin, OnlyCrashes
<1>c. request[r] \in Active => Cared(r)
  BY <1>0, <1>t, SeenStays DEF NobodyForgets
\* A step that takes nothing away from those who care for the request.
<1>1. ASSUME request[r] \in Active, UNCHANGED <<runOf, sweep>>,
             r \in todo /\ sweep = "arm" => Cared(r)',
             \A p \in Armers : AtIt(p, r) => Cared(r)',
             \A k \in RunIds, s \in Sources \ {"inline"} : runOf[k] = r /\ work[s][k] \in Owning => Cared(r)',
             request[r] = "accepted" => \A k \in RunIds : runOf[k] = r /\ Waits(k) => Cared(r)'
      PROVE  Cared(r)'
  <2>1. sweep = "list" => Cared(r)'
    BY <1>1 DEF Cared
  <2> QED BY <1>1, <1>c, <2>1 DEF Cared, RunsOf
\* A step of handlers or events, which lets the executions go on.
<1>2. ASSUME request'[r] = request[r], UNCHANGED <<runOf, sweep>>, todo \subseteq todo',
             \A k \in RunIds, s \in Sources \ {"inline"} :
               runOf[k] = r /\ work[s][k] \in Owning => work'[s][k] \in Owning,
             \A p \in Armers : AtIt(p, r) => Cared(r)',
             request[r] = "accepted" => \A k \in RunIds : runOf[k] = r /\ Waits(k) => Cared(r)'
      PROVE  Cared(r)'
  <2>1. r \in todo /\ sweep = "arm" => Cared(r)'
    BY <1>2 DEF Cared
  <2>2. \A k \in RunIds, s \in Sources \ {"inline"} : runOf[k] = r /\ work[s][k] \in Owning => Cared(r)'
    BY <1>2 DEF Cared, RunsOf
  <2>3. request[r] \in Active
    BY <1>0, <1>2
  <2> QED BY <1>1, <1>2, <2>1, <2>2, <2>3
<1>w. ASSUME NEW k \in RunIds, runOf'[k] = r, request'[r] = "accepted", Waits(k)' PROVE Cared(r)'
  BY <1>w DEF Cared, RunsOf
<1>p. ASSUME NEW p \in Armers, AtIt(p, r)' PROVE Cared(r)'
  BY <1>p DEF Cared
<1>o. ASSUME NEW k \in RunIds, NEW s \in Sources \ {"inline"}, runOf'[k] = r, work'[s][k] \in Owning PROVE Cared(r)'
  BY <1>o DEF Cared, RunsOf
<1>3. ASSUME NEW c \in Clients, NEW q \in Requests, Submit(c, q) PROVE Cared(r)'
  <2>1. /\ UNCHANGED <<rowVars, chosen, sweepVars, work, eventVars>> /\ pc[c] = "idle"
        /\ \A p \in Armers : p # c => pc'[p] = pc[p] /\ target'[p] = target[p]
    BY <1>3, <1>t DEF Submit, GoTo, Begin
  <2>2. \A p \in Armers : AtIt(p, r) => AtIt(p, r)'
    BY <2>1 DEF AtIt
  <2>3. \A k \in RunIds : Waits(k) => Waits(k)'
    BY <2>1 DEF Waits
  <2> QED BY <1>2, <1>w, <1>p, <2>1, <2>2, <2>3
<1>4. ASSUME NEW c \in Clients, NEW q \in Requests, Stop(c, q) PROVE Cared(r)'
  <2>1. /\ UNCHANGED <<requestVars, chosen, sweepVars, work, eventVars>> /\ pc[c] = "idle"
        /\ request' = [request EXCEPT ![q] = "stopped"]
        /\ \A p \in Armers : p # c => pc'[p] = pc[p] /\ target'[p] = target[p]
    BY <1>4, <1>t DEF Stop, GoTo, Begin
  <2>2. request'[r] = request[r]
    BY <1>0, <1>t, <2>1
  <2>3. \A p \in Armers : AtIt(p, r) => AtIt(p, r)'
    BY <2>1, <2>2 DEF AtIt
  <2>4. \A k \in RunIds : Waits(k) => Waits(k)'
    BY <2>1 DEF Waits
  <2> QED BY <1>2, <1>w, <1>p, <2>1, <2>2, <2>3, <2>4
<1>5. ASSUME NEW p \in Armers, NEW q \in Requests, LoadLatest(p, q), todo \ {q} \subseteq todo' PROVE Cared(r)'
  <2>1. UNCHANGED <<rowVars, sweep, rearmed, work, eventVars>> /\ pc[p] = "idle"
    BY <1>5 DEF LoadLatest
  <2>2. /\ pc'[p] \in {"close", "rerun"} /\ target'[p] = q
        /\ \A o \in Armers : o # p => pc'[o] = pc[o] /\ target'[o] = target[o]
    BY <1>5, <1>t, LoadTyped DEF IInv
  <2>3. CASE q = r
    BY <1>p, <2>2, <2>3 DEF AtIt
  <2>4. CASE q # r
    <3>1. \A o \in Armers : AtIt(o, r) => AtIt(o, r)'
      BY <2>1, <2>2 DEF AtIt
    <3>2. \A k \in RunIds : Waits(k) => Waits(k)'
      BY <2>1 DEF Waits
    <3>3. r \in todo /\ sweep = "arm" => Cared(r)'
      BY <1>5, <2>1, <2>4 DEF Cared
    <3>4. request[r] \in Active
      BY <1>0, <2>1
    <3> QED BY <1>1, <1>w, <1>p, <1>o, <2>1, <3>1, <3>2, <3>3, <3>4
  <2> QED BY <2>3, <2>4
<1>6. ASSUME NEW p \in Armers, Insert(p) \/ AcceptAgain(p) PROVE Cared(r)'
  <2>1. /\ UNCHANGED <<requestVars, target, chosen, sweepVars, work, eventVars>> /\ pc[p] \in {"insert", "accept"}
        /\ request' = [request EXCEPT ![target[p]] = "accepted"]
        /\ pc' = [pc EXCEPT ![p] = IF pc[p] = "insert" THEN "create" ELSE "seed"]
    BY <1>6 DEF Insert, AcceptAgain, SetRequest, GoTo
  <2>2. CASE target[p] = r
    <3>1. AtIt(p, r)'
      BY <1>0, <1>t, <2>1, <2>2 DEF AtIt
    <3> QED BY <1>p, <3>1
  <2>3. CASE target[p] # r
    <3>1. request'[r] = request[r]
      BY <1>t, <2>1, <2>3
    <3>2. \A o \in Armers : AtIt(o, r) => AtIt(o, r)'
      BY <1>t, <2>1, <2>3, <3>1 DEF AtIt
    <3>3. \A k \in RunIds : Waits(k) => Waits(k)'
      BY <2>1 DEF Waits
    <3> QED BY <1>2, <1>w, <1>p, <2>1, <3>1, <3>2, <3>3
  <2> QED BY <2>2, <2>3
<1>7. ASSUME NEW p \in Armers, CreateRun(p) PROVE Cared(r)'
  <2>1. /\ runOf' = [runOf EXCEPT ![nextRun] = target[p]]
        /\ runStatus' = [runStatus EXCEPT ![nextRun] = "pending"]
        /\ UNCHANGED <<request, target, sweepVars, work, eventVars>>
        /\ pc[p] \in {"create", "rerun"}
        /\ pc' = [pc EXCEPT ![p] = IF pc[p] = "create" THEN "publish" ELSE "accept"]
    BY <1>7 DEF CreateRun, GoTo
  <2>2. \A o \in Armers : AtIt(o, r) => AtIt(o, r)'
    BY <1>a, <1>t, <2>1 DEF AtIt, AlertAt
  <2>3. \A k \in RunIds : runOf[k] = r => k # nextRun
    BY <1>t DEF IInv, Born
  <2>4. \A k \in RunIds : runOf[k] = r /\ Waits(k) => runOf'[k] = r /\ Waits(k)'
    BY <1>t, <2>1, <2>3 DEF Waits
  <2>5. \A k \in RunIds, s \in Sources \ {"inline"} : runOf[k] = r /\ work[s][k] \in Owning => Cared(r)'
    BY <1>o, <2>1, <2>3, <1>t
  <2>6. r \in todo /\ sweep = "arm" => Cared(r)'
    BY <2>1 DEF Cared
  <2>7. sweep = "list" => Cared(r)'
    BY <2>1 DEF Cared
  <2>8. request[r] \in Active
    BY <1>0, <2>1
  <2> QED BY <1>c, <1>w, <1>p, <2>1, <2>2, <2>4, <2>5, <2>6, <2>7, <2>8 DEF Cared, RunsOf
<1>8. ASSUME NEW p \in Armers, CloseSuperseded(p) PROVE Cared(r)'
  <2>1. /\ UNCHANGED <<request, runOf, target, chosen, sweepVars, work, eventVars>> /\ pc[p] = "close"
        /\ runStatus' = [runStatus EXCEPT ![chosen[p]] = "stopped"] /\ pc' = [pc EXCEPT ![p] = "rerun"]
    BY <1>8 DEF CloseSuperseded, GoTo
  <2>2. CASE target[p] = r
    BY <1>p, <1>t, <2>1, <2>2 DEF AtIt
  <2>3. CASE target[p] # r
    <3>1. runOf[chosen[p]] # r
      BY <2>1, <2>3 DEF Places
    <3>2. \A o \in Armers : AtIt(o, r) => AtIt(o, r)'
      BY <1>t, <2>1 DEF AtIt
    <3>3. \A k \in RunIds : runOf[k] = r /\ Waits(k) => Waits(k)'
      BY <1>t, <2>1, <3>1 DEF Waits
    <3> QED BY <1>2, <1>w, <1>p, <2>1, <3>2, <3>3
  <2> QED BY <2>2, <2>3
<1>9. ASSUME NEW p \in Armers, SeedAspects(p) PROVE Cared(r)'
  <2>1. UNCHANGED <<rowVars, sweep, todo, work, eventVars>> /\ pc[p] = "seed" /\ rearmed \subseteq rearmed'
    BY <1>9 DEF SeedAspects
  <2>2. \A o \in Armers : o # p => pc'[o] = pc[o] /\ target'[o] = target[o]
    BY <1>9, <1>t DEF SeedAspects, Leave, GoTo
  <2>3. \A k \in RunIds : Waits(k) => Waits(k)'
    BY <2>1 DEF Waits
  <2>4. ASSUME AtIt(p, r) PROVE Cared(r)'
    <3>1. target[p] = r /\ request[r] = "accepted"
      BY <2>1, <2>4 DEF AtIt
    <3>2. CASE p = Sweeper
      <4>1. rearmed' = rearmed \cup {chosen[p]} /\ sweep' = "arm"
        BY <1>9, <2>1, <3>2 DEF SeedAspects, Places
      <4>2. PICK k \in RunIds : k = chosen[p] /\ runOf[k] = r /\ runStatus[k] = "pending"
        BY <1>a, <1>t, <2>1, <3>1 DEF IInv, Holds, Places, AlertAt, Untouched
      <4>3. Waits(k)'
        BY <2>1, <4>1, <4>2 DEF Waits
      <4> QED BY <1>w, <2>1, <3>1, <4>2, <4>3
    <3>3. CASE p # Sweeper
      <4>1. pc'[p] = "publish" /\ target'[p] = r
        BY <1>9, <1>t, <3>1, <3>3 DEF SeedAspects, GoTo
      <4> QED BY <1>p, <2>1, <3>1, <4>1 DEF AtIt
    <3> QED BY <3>2, <3>3
  <2>5. \A o \in Armers : o # p /\ AtIt(o, r) => AtIt(o, r)'
    BY <2>1, <2>2 DEF AtIt
  <2> QED BY <1>2, <1>w, <1>p, <2>1, <2>3, <2>4, <2>5
<1>10. ASSUME NEW c \in Clients, Publish(c) PROVE Cared(r)'
  <2>1. /\ UNCHANGED <<rowVars, sweepVars, work>> /\ pc[c] = "publish" /\ events' = events \cup {chosen[c]}
        /\ \A o \in Armers : o # c => pc'[o] = pc[o] /\ target'[o] = target[o]
    BY <1>10, <1>t DEF Publish, Leave, GoTo
  <2>2. \A k \in RunIds : Waits(k) => Waits(k)'
    BY <2>1 DEF Waits
  <2>3. ASSUME AtIt(c, r) PROVE Cared(r)'
    <3>1. target[c] = r /\ request[r] = "accepted"
      BY <2>1, <2>3 DEF AtIt
    <3>2. PICK k \in RunIds : k = chosen[c] /\ runOf[k] = r /\ runStatus[k] = "pending"
      BY <1>a, <1>t, <2>1, <3>1 DEF IInv, Holds, Places, AlertAt, Untouched
    <3>3. Waits(k)'
      BY <2>1, <3>2 DEF Waits
    <3> QED BY <1>w, <2>1, <3>1, <3>2, <3>3
  <2>4. \A o \in Armers : o # c /\ AtIt(o, r) => AtIt(o, r)'
    BY <2>1 DEF AtIt
  <2> QED BY <1>2, <1>w, <1>p, <2>1, <2>2, <2>3, <2>4
<1>11. ASSUME NEW c \in Clients, FindOpenRun(c) PROVE Cared(r)'
  <2>1. /\ UNCHANGED <<rowVars, sweepVars, work, eventVars>> /\ pc[c] = "find"
        /\ \A o \in Armers : o # c => pc'[o] = pc[o] /\ target'[o] = target[o]
    BY <1>11, <1>t DEF FindOpenRun, Leave, GoTo
  <2>2. \A o \in Armers : AtIt(o, r) => AtIt(o, r)'
    BY <2>1 DEF AtIt
  <2>3. \A k \in RunIds : Waits(k) => Waits(k)'
    BY <2>1 DEF Waits
  <2> QED BY <1>2, <1>w, <1>p, <2>1, <2>2, <2>3
<1>12. ASSUME NEW c \in Clients, StopRun(c) PROVE Cared(r)'
  <2>1. /\ UNCHANGED <<request, runOf, nextRun, sweepVars, work, eventVars>> /\ pc[c] = "stop"
        /\ runStatus' = [runStatus EXCEPT ![chosen[c]] = "stopped"]
        /\ \A o \in Armers : o # c => pc'[o] = pc[o] /\ target'[o] = target[o]
    BY <1>12, <1>t DEF StopRun, Leave, GoTo
  <2>2. \A o \in Armers : AtIt(o, r) => AtIt(o, r)'
    BY <2>1 DEF AtIt
  <2>3. request[r] = "accepted" => runOf[chosen[c]] # r
    BY <1>a, <2>1 DEF AlertAt, Places
  <2>4. request[r] = "accepted" => \A k \in RunIds : runOf[k] = r /\ Waits(k) => Waits(k)'
    BY <1>t, <2>1, <2>3 DEF Waits
  <2> QED BY <1>2, <1>w, <1>p, <2>1, <2>2, <2>4
<1>13. CASE SweepList
  BY <1>0, <1>13 DEF SweepList, Cared
<1>14. ASSUME NEW q \in Requests, SweepSkips(q) PROVE Cared(r)'
  <2>1. /\ UNCHANGED <<rowVars, callVars, sweep, rearmed, work, eventVars>> /\ todo' = todo \ {q}
        /\ \A k \in RunIds : runOf[k] # q
    BY <1>14 DEF SweepSkips, RunsOf
  <2>2. request[r] \in Active
    BY <1>0, <2>1
  <2>3. r \in todo /\ sweep = "arm" => Cared(r)'
    <3>1. CASE q = r
      <4>1. PICK c \in Clients : target[c] = r /\ pc[c] = "create"
        BY <1>a, <2>1, <2>2, <3>1 DEF Expected
      <4> QED BY <1>p, <2>1, <4>1 DEF AtIt
    <3>2. CASE q # r
      BY <2>1, <3>2 DEF Cared
    <3> QED BY <3>1, <3>2
  <2>4. \A o \in Armers : AtIt(o, r) => AtIt(o, r)'
    BY <2>1 DEF AtIt
  <2>5. \A k \in RunIds : Waits(k) => Waits(k)'
    BY <2>1 DEF Waits
  <2> QED BY <1>1, <1>w, <1>p, <1>o, <2>1, <2>2, <2>3, <2>4, <2>5
<1>15. CASE SweepStart
  <2>1. /\ UNCHANGED <<rowVars, callVars, todo, eventVars>> /\ sweep = "arm" /\ todo = {}
        /\ work' = [work EXCEPT !["recovery"] = [k \in RunIds |-> IF k \in rearmed THEN "load" ELSE @[k]]]
    BY <1>15 DEF SweepStart
  <2>2. /\ \A k \in RunIds : k \in rearmed => work'["recovery"][k] = "load"
        /\ \A k \in RunIds : work["recovery"][k] = "none"
        /\ \A s \in Sources, k \in RunIds : s # "recovery" => work'[s][k] = work[s][k]
    BY <1>t, <2>1 DEF Places
  <2>3. \A o \in Armers : AtIt(o, r) => AtIt(o, r)'
    BY <2>1 DEF AtIt
  <2>4. \A k \in RunIds : Waits(k) => Waits(k)'
    BY <2>1, <2>2 DEF Waits
  <2>5. \A k \in RunIds, s \in Sources \ {"inline"} : runOf[k] = r /\ work[s][k] \in Owning => Cared(r)'
    BY <1>o, <2>1, <2>2
  <2>6. request[r] \in Active
    BY <1>0, <2>1
  <2> QED BY <1>c, <1>w, <1>p, <2>1, <2>3, <2>4, <2>5, <2>6 DEF Cared, RunsOf
<1>16. ASSUME NEW k \in RunIds, Deliver(k) \/ InlineDies(k) PROVE Cared(r)'
  <2>1. /\ UNCHANGED <<rowVars, callVars, sweepVars, eventVars>>
        /\ \A s \in Sources \ {"inline"}, j \in RunIds :
             work[s][j] # "none" => work'[s][j] = work[s][j]
    BY <1>16, <1>t DEF Deliver, InlineDies, StepTo
  <2>2. \A o \in Armers : AtIt(o, r) => AtIt(o, r)'
    BY <2>1 DEF AtIt
  <2>3. \A j \in RunIds : Waits(j) => Waits(j)'
    BY <2>1 DEF Waits
  <2>4. \A j \in RunIds, s \in Sources \ {"inline"} : work[s][j] \in Owning => work'[s][j] \in Owning
    BY <2>1
  <2> QED BY <1>2, <1>w, <1>p, <2>1, <2>2, <2>3, <2>4
<1>17. ASSUME NEW s \in Sources, NEW k \in RunIds, RunReview(s, k) PROVE Cared(r)'
  <2>1. /\ \A t \in Sources, j \in RunIds : t # s \/ j # k => work'[t][j] = work[t][j]
        /\ UNCHANGED <<runOf, nextRun, callVars, sweepVars>> /\ work[s][k] # "none"
    BY <1>17, <1>t, RunParts, OneMoves
  <2>2. s \in Sources \ {"inline"}
    BY <1>a, <2>1
\* A step that leaves the request alone, and keeps a waiting run waiting or claims it.
  <2>3. ASSUME request'[r] = request[r], \A j \in RunIds : j # k => runStatus'[j] = runStatus[j],
               events \ {k} \subseteq events',
               runOf[k] = r /\ work[s][k] \in Owning => work'[s][k] \in Owning,
               runOf[k] = r /\ request[r] = "accepted" /\ Waits(k) => Waits(k)' \/ work'[s][k] \in Owning
        PROVE  Cared(r)'
    <3>1. \A o \in Armers : AtIt(o, r) => AtIt(o, r)'
      BY <2>1, <2>3 DEF AtIt
    <3>2. \A j \in RunIds : j # k /\ Waits(j) => Waits(j)'
      BY <2>1, <2>3 DEF Waits
    <3>3. request[r] = "accepted" => \A j \in RunIds : runOf[j] = r /\ Waits(j) => Cared(r)'
      BY <1>w, <1>o, <2>1, <2>2, <2>3, <3>2
    <3>4. \A j \in RunIds, t \in Sources \ {"inline"} :
            runOf[j] = r /\ work[t][j] \in Owning => work'[t][j] \in Owning
      BY <2>1, <2>3
    <3> QED BY <1>2, <1>p, <2>1, <2>3, <3>1, <3>3, <3>4
  <2>4. CASE LoadRequest(s, k)
    <3>1. /\ UNCHANGED rowVars /\ work[s][k] = "load" /\ events \ {k} \subseteq events'
          /\ request[runOf[k]] = "accepted" => work'[s][k] = "claim" /\ events' = events
      BY <1>t, <2>4 DEF LoadRequest, StepTo, Return
    <3>2. runOf[k] = r /\ request[r] = "accepted" /\ Waits(k) => Waits(k)'
      BY <2>1, <2>2, <3>1 DEF Waits
    <3> QED BY <2>3, <3>1, <3>2
  <2>5. CASE ClaimRun(s, k)
    <3>1. /\ request' = request /\ work[s][k] = "claim" /\ events \ {k} \subseteq events'
          /\ \A j \in RunIds : j # k => runStatus'[j] = runStatus[j]
          /\ runStatus[k] = "pending" => work'[s][k] = "mark"
      BY <1>t, <2>5 DEF ClaimRun, StepTo, Return
    <3> QED BY <2>3, <3>1 DEF Waits
  <2>6. CASE MarkRequest(s, k)
    <3>1. /\ work'[s][k] = "review" /\ UNCHANGED <<runStatus, events>>
          /\ \A q \in Requests : q # runOf[k] => request'[q] = request[q]
      BY <1>t, <2>6 DEF MarkRequest, StepTo, SetRequest
    <3>2. CASE runOf[k] = r
      BY <1>o, <2>1, <2>2, <3>1, <3>2
    <3>3. CASE runOf[k] # r
      BY <2>3, <3>1, <3>3
    <3> QED BY <3>2, <3>3
  <2>7. CASE Review(s, k)
    <3>1. work'[s][k] \in {"look", "failRun"} /\ UNCHANGED <<request, runStatus, events>>
      BY <1>t, <2>7 DEF Review, StepTo
    <3> QED BY <2>3, <3>1
  <2>8. CASE LookAgain(s, k)
    <3>1. /\ UNCHANGED <<request, runStatus>> /\ events \ {k} \subseteq events'
          /\ request[runOf[k]] # "stopped" => work'[s][k] = "endRun" /\ work[s][k] = "look"
      BY <1>t, <2>8 DEF LookAgain, StepTo, Return
    <3>2. request[r] # "stopped"
      BY <1>0, <3>1
    <3> QED BY <2>3, <3>1, <3>2
  <2>9. CASE EndRun(s, k)
    <3>1. /\ work'[s][k] \in {"endRequest", "failRequest"} /\ UNCHANGED <<request, events>>
          /\ \A j \in RunIds : j # k => runStatus'[j] = runStatus[j]
      BY <1>t, <2>9 DEF EndRun, StepTo
    <3> QED BY <2>3, <3>1
  <2>10. CASE EndRequest(s, k)
    <3>1. /\ runStatus' = runStatus /\ events \ {k} \subseteq events'
          /\ \A q \in Requests : q # runOf[k] => request'[q] = request[q]
          /\ runOf[k] \in Requests => request'[runOf[k]] \in Final
      BY <1>t, <2>10 DEF EndRequest, Return, SetRequest
    <3>2. runOf[k] # r
      BY <1>0, <3>1
    <3> QED BY <2>3, <3>1, <3>2
  <2> QED BY <1>17, <2>4, <2>5, <2>6, <2>7, <2>8, <2>9, <2>10 DEF RunReview
<1>18. CASE Crash
  BY <1>18 DEF Crash, Cared
<1>19. CASE UNCHANGED vars
  <2>1. UNCHANGED <<rowVars, callVars, sweepVars, work, eventVars>>
    BY <1>19 DEF vars
  <2>2. \A o \in Armers : AtIt(o, r) => AtIt(o, r)'
    BY <2>1 DEF AtIt
  <2>3. \A k \in RunIds : Waits(k) => Waits(k)'
    BY <2>1 DEF Waits
  <2> QED BY <1>2, <1>w, <1>p, <2>1, <2>2, <2>3
<1>20. CASE Sweeping
  <2>1. ASSUME NEW q \in Requests, SweepNext(q) PROVE Cared(r)'
    BY <1>5, <2>1 DEF SweepNext
  <2> QED BY <1>20, <1>6, <1>7, <1>8, <1>9, <1>13, <1>14, <1>15, <2>1 DEF Sweeping, Arm
<1>21. ASSUME NEW c \in Clients, NEW q \in Requests, Restart(c, q) PROVE Cared(r)'
  BY <1>5, <1>21 DEF Restart
<1> QED
  BY <1>0, <1>t, <1>3, <1>4, <1>6, <1>7, <1>8, <1>9, <1>10, <1>11, <1>12, <1>16, <1>17, <1>18, <1>19, <1>20, <1>21,
     SeenStays DEF Next, Handle, Arm

\* With crashes at any point, but no two handlers at one request, no vanished client and
\* no failed publication, somebody is always responsible for an active request.
THEOREM RequestsAreCaredFor == Spec => []NobodyForgets
<1> DEFINE Inv == Places /\ Alone /\ Alert /\ NobodyForgets
<1>1. Init => Inv
  <2>1. CASE Init /\ Fresh
    BY <2>1, ReviewAssumption DEF Fresh, Init, Inv, Places, Alone, Alert, NobodyForgets, Cared, RunIds
  <2>2. ASSUME Init, NEW r \in Requests, Restarted(r) PROVE Inv
    <3>1. sweep = "list" /\ pc[Sweeper] = "idle" /\ \A p \in Armers : pc[p] \in {"idle", "done"}
      BY <2>2, ReviewAssumption DEF Restarted
    <3>2. ASSUME NEW k \in RunIds, k < nextRun PROVE request[runOf[k]] # "absent"
      <4>1. k = 1
        BY <2>2, <3>2 DEF Restarted, RunIds
      <4> QED BY <2>2, <4>1 DEF Restarted
    <3>3. Places
      BY <2>2, <3>1, <3>2 DEF Init, Places
    <3>4. Alone /\ NobodyForgets
      BY <2>2, <3>1 DEF Init, Alone, NobodyForgets, Cared
    <3>5. ASSUME NEW q \in Requests, request[q] # "absent" PROVE \E k \in RunIds : runOf[k] = q
      <4>1. q = r /\ 1 \in RunIds
        BY <2>2, <3>5, ReviewAssumption DEF Restarted, RunIds
      <4> QED BY <2>2, <4>1 DEF Restarted
    <3>6. Alert
      BY <2>2, <3>1, <3>5 DEF Init, Alert
    <3> QED BY <3>3, <3>4, <3>6 DEF Inv
  <2> QED BY <2>1, <2>2 DEF Init
<1>2. IInv /\ Inv /\ [Next]_vars => Inv'
  BY PlacesStep, AloneStep, AlertStep, CaredStep DEF IInv
<1> QED BY <1>1, <1>2, Invariance, PTL DEF Spec
============================================================================
