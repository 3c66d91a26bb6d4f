----------------------------- MODULE DocReview -----------------------------
(* Document-review requests and their runs (server/api/doc-reviews:         *)
(* controller.go, handler.go, jetstream.go, and cmd/doc-processor/main.go). *)
(*                                                                          *)
(* The HTTP handlers of the web server submit, stop and restart a request;  *)
(* the doc-processor executes its runs: one callback at a time for the      *)
(* events of JetStream, and one goroutine for each run that the recovery    *)
(* sweep re-armed at its start. They meet in two tables only, and nothing   *)
(* is done in a transaction: one SQL statement is one step.                 *)
(*                                                                          *)
(* The requests are all about one document, the unit that AcceptRequest     *)
(* guards. The statuses of the single aspects and the reports, which follow *)
(* the runs, are left out.                                                  *)
EXTENDS Naturals, FiniteSets

CONSTANTS
  Requests,    \* rows of kb.doc_review_requests that may be submitted
  Clients,     \* HTTP requests: each submits, stops or restarts once
  Sweeper,     \* the recovery sweep of the doc-processor
  NoRequest,
  MaxRuns,     \* bound on the rows of kb.doc_review_runs
  MaxFaults    \* bound on crashes, failed publications and vanished clients

ASSUME ReviewAssumption ==
  /\ Sweeper \notin Clients
  /\ NoRequest \notin Requests
  /\ MaxRuns \in Nat /\ MaxFaults \in Nat

\* Ids of runs, in the order of their INSERTs; 0 is no run.
RunIds == 1..MaxRuns

\* Who calls RunReviewAndReport: the JetStream callback, a goroutine of the
\* recovery, or the goroutine of a handler whose publication failed.
Sources == {"callback", "recovery", "inline"}
Armers == Clients \cup {Sweeper}

VARIABLES
  request,     \* status of each request
  runOf,       \* the request of each run
  runStatus,   \* status of each run
  nextRun,     \* the id the next INSERT gets
  pc,          \* where each client and the sweep are
  target,      \* the request each of them is about
  chosen,      \* the run each of them read or inserted
  sweep,       \* the sweep: "list", "arm" and "over"
  todo,        \* the requests it listed and has not yet re-armed
  rearmed,     \* the runs it re-armed and has not yet started
  work,        \* where each execution of a run is
  events,      \* runs whose event is not acknowledged
  late,        \* runs whose acknowledgement came too late once
  claims,      \* history: how often each run was claimed
  saved,       \* runs whose findings were saved
  stopped,     \* history: runs that have still to notice the stop of their request
  faults,      \* how many faults happened
  seen         \* history: what happened that may leave a request unsettled

requestVars == <<runOf, runStatus, nextRun>>
rowVars == <<request, requestVars>>
callVars == <<pc, target, chosen>>
sweepVars == <<sweep, todo, rearmed>>
eventVars == <<events, late>>
reviewVars == <<claims, saved>>
faultVars == <<faults, seen>>
vars == <<rowVars, callVars, sweepVars, work, eventVars, reviewVars, stopped, faultVars>>

Active == {"accepted", "running"}
Final == {"completed", "failed", "stopped"}
OpenRun == {"pending", "running"}
CallPcs == {"idle", "insert", "create", "publish",   \* AcceptRequest
            "close", "rerun", "accept", "seed",      \* RestartRequest
            "find", "stop", "done"}                  \* StopRequest
\* The steps of RunReview from the claim on.
Owning == {"mark", "review", "look", "endRun", "endRequest", "failRun", "failRequest"}
Steps == {"none", "load", "claim"} \cup Owning

TypeOK ==
  /\ request \in [Requests -> {"absent"} \cup Active \cup Final]
  /\ runOf \in [RunIds -> Requests \cup {NoRequest}]
  /\ runStatus \in [RunIds -> {"absent"} \cup OpenRun \cup Final]
  /\ nextRun \in 1..(MaxRuns + 1)
  /\ pc \in [Armers -> CallPcs]
  /\ target \in [Armers -> Requests \cup {NoRequest}]
  /\ chosen \in [Armers -> RunIds \cup {0}]
  /\ sweep \in {"list", "arm", "over"}
  /\ todo \subseteq Requests
  /\ rearmed \subseteq RunIds
  /\ work \in [Sources -> [RunIds -> Steps]]
  /\ events \subseteq RunIds /\ late \subseteq RunIds
  /\ claims \in [RunIds -> Nat]
  /\ saved \subseteq RunIds /\ stopped \subseteq RunIds
  /\ faults \in 0..MaxFaults
  /\ seen \subseteq {"overlap", "crash", "unpublished", "vanished"}

\* Nothing was ever requested, and the sweep of the doc-processor found nothing.
Fresh ==
  /\ request = [r \in Requests |-> "absent"]
  /\ runOf = [k \in RunIds |-> NoRequest]
  /\ runStatus = [k \in RunIds |-> "absent"]
  /\ nextRun = 1
  /\ pc = [p \in Armers |-> "idle"]
  /\ sweep = "over" /\ events = {} /\ saved = {}
  /\ claims = [k \in RunIds |-> 0]

\* The doc-processor starts again, and has left request r with a run that waits, is
\* claimed, or has just ended. The clients have had their answers.
Restarted(r) ==
  /\ MaxRuns > 0
  /\ \E status \in OpenRun \cup {"completed", "failed"}, active \in Active :
       /\ status = "pending" => active = "accepted"
       /\ status \in Final => active = "running"
       /\ request = [q \in Requests |-> IF q = r THEN active ELSE "absent"]
       /\ runStatus = [k \in RunIds |-> IF k = 1 THEN status ELSE "absent"]
       /\ claims = [k \in RunIds |-> IF k = 1 /\ status # "pending" THEN 1 ELSE 0]
       /\ saved = IF status = "completed" THEN {1} ELSE {}
  /\ runOf = [k \in RunIds |-> IF k = 1 THEN r ELSE NoRequest]
  /\ nextRun = 2
  /\ pc = [p \in Armers |-> IF p = Sweeper THEN "idle" ELSE "done"]
  /\ sweep = "list" /\ events \in {{}, {1}}

Init ==
  /\ Fresh \/ \E r \in Requests : Restarted(r)
  /\ target = [p \in Armers |-> NoRequest]
  /\ chosen = [p \in Armers |-> 0]
  /\ todo = {} /\ rearmed = {}
  /\ work = [s \in Sources |-> [k \in RunIds |-> "none"]]
  /\ late = {} /\ stopped = {}
  /\ faults = 0 /\ seen = {}

RunsOf(r) == {k \in RunIds : runOf[k] = r}
Latest(S) == CHOOSE k \in S : \A j \in S : j <= k

\* An UPDATE of a request; whoever overwrites a stop, no review can notice it.
SetRequest(r, status) ==
  /\ request' = [request EXCEPT ![r] = status]
  /\ stopped' = stopped \ RunsOf(r)

GoTo(p, label) == pc' = [pc EXCEPT ![p] = label]

\* The handler of a client returns, or the sweep turns to its next request.
Leave(p) ==
  /\ GoTo(p, IF p = Sweeper THEN "idle" ELSE "done")
  /\ target' = [target EXCEPT ![p] = NoRequest]
  /\ chosen' = [chosen EXCEPT ![p] = 0]

\* A handler or the sweep begins with a request; another one may be at it.
Begin(p, r) ==
  /\ target' = [target EXCEPT ![p] = r]
  /\ seen' = IF \E q \in Armers : target[q] = r THEN seen \cup {"overlap"} ELSE seen
  /\ UNCHANGED faults

Fault(kind) ==
  /\ faults < MaxFaults
  /\ faults' = faults + 1
  /\ seen' = seen \cup {kind}

----------------------------------------------------------------------------
(* AcceptRequest and the handler around it *)

\* The submission finds no active request of the document. (One that finds one is
\* answered 409: no step.)
Submit(c, r) ==
  /\ c \in Clients /\ pc[c] = "idle"
  /\ request[r] = "absent"
  /\ \A q \in Requests : request[q] \notin Active
  /\ \A d \in Clients : target[d] # r
  /\ GoTo(c, "insert")
  /\ Begin(c, r)
  /\ UNCHANGED <<rowVars, chosen, sweepVars, work, eventVars, reviewVars, stopped>>

Insert(c) ==
  /\ pc[c] = "insert"
  /\ SetRequest(target[c], "accepted")
  /\ GoTo(c, "create")
  /\ UNCHANGED <<requestVars, target, chosen, sweepVars, work, eventVars, reviewVars, faultVars>>

\* createRun inserts a pending run, for AcceptRequest and for RestartRequest.
CreateRun(p) ==
  /\ pc[p] \in {"create", "rerun"}
  /\ nextRun <= MaxRuns
  /\ runOf' = [runOf EXCEPT ![nextRun] = target[p]]
  /\ runStatus' = [runStatus EXCEPT ![nextRun] = "pending"]
  /\ nextRun' = nextRun + 1
  /\ chosen' = [chosen EXCEPT ![p] = nextRun]
  /\ GoTo(p, IF pc[p] = "create" THEN "publish" ELSE "accept")
  /\ UNCHANGED <<request, target, sweepVars, work, eventVars, reviewVars, stopped, faultVars>>

\* PublishReviewEvent succeeds.
Publish(c) ==
  /\ pc[c] = "publish"
  /\ events' = events \cup {chosen[c]}
  /\ Leave(c)
  /\ UNCHANGED <<rowVars, sweepVars, work, late, reviewVars, stopped, faultVars>>

\* It fails: the handler starts a goroutine, under the context of a request that is
\* canceled as soon as the handler returns.
PublishFails(c) ==
  /\ pc[c] = "publish"
  /\ Fault("unpublished")
  /\ work' = [work EXCEPT !["inline"][chosen[c]] = "load"]
  /\ Leave(c)
  /\ UNCHANGED <<rowVars, sweepVars, eventVars, reviewVars, stopped>>

\* The client goes away: the context of its request is canceled, so the next
\* statement fails and the handler returns. (The publication takes no context.)
Vanish(c) ==
  /\ pc[c] \notin {"idle", "publish", "done"}
  /\ Fault("vanished")
  /\ Leave(c)
  /\ UNCHANGED <<rowVars, sweepVars, work, eventVars, reviewVars, stopped>>

----------------------------------------------------------------------------
(* RestartRequest, called by its handler and by the sweep *)

\* The latest run of the request and its status are read.
LoadLatest(p, r) ==
  LET k == Latest(RunsOf(r)) IN
  /\ pc[p] = "idle"
  /\ RunsOf(r) # {}
  /\ GoTo(p, IF runStatus[k] \in OpenRun THEN "close" ELSE "rerun")
  /\ Begin(p, r)
  /\ chosen' = [chosen EXCEPT ![p] = k]
  /\ UNCHANGED <<rowVars, sweep, rearmed, work, eventVars, reviewVars, stopped>>

\* For a client. (A request without a run is answered 409: no step.)
Restart(c, r) == c \in Clients /\ LoadLatest(c, r) /\ UNCHANGED todo

\* The run it read is closed, whatever became of it meanwhile.
CloseSuperseded(p) ==
  /\ pc[p] = "close"
  /\ runStatus' = [runStatus EXCEPT ![chosen[p]] = "stopped"]
  /\ GoTo(p, "rerun")
  /\ UNCHANGED <<request, runOf, nextRun, target, chosen, sweepVars, work, eventVars, reviewVars,
                 stopped, faultVars>>

\* The request goes back to accepted.
AcceptAgain(p) ==
  /\ pc[p] = "accept"
  /\ SetRequest(target[p], "accepted")
  /\ GoTo(p, "seed")
  /\ UNCHANGED <<requestVars, target, chosen, sweepVars, work, eventVars, reviewVars, faultVars>>

\* The last statement seeds the statuses of the aspects. Then the handler publishes
\* the event of the new run; the sweep keeps the run for later.
SeedAspects(p) ==
  /\ pc[p] = "seed"
  /\ IF p = Sweeper
     THEN Leave(p) /\ rearmed' = rearmed \cup {chosen[p]}
     ELSE GoTo(p, "publish") /\ UNCHANGED <<target, chosen, rearmed>>
  /\ UNCHANGED <<rowVars, sweep, todo, work, eventVars, reviewVars, stopped, faultVars>>

----------------------------------------------------------------------------
(* RecoverStalledReviews *)

\* The sweep lists the unfinished requests; the subscription is already open.
SweepList ==
  /\ sweep = "list"
  /\ todo' = {r \in Requests : request[r] \in Active}
  /\ sweep' = "arm"
  /\ UNCHANGED <<rowVars, callVars, rearmed, work, eventVars, reviewVars, stopped, faultVars>>

SweepNext(r) ==
  /\ sweep = "arm" /\ r \in todo
  /\ LoadLatest(Sweeper, r)
  /\ todo' = todo \ {r}

\* A request without a run is logged and left as it is.
SweepSkips(r) ==
  /\ sweep = "arm" /\ pc[Sweeper] = "idle"
  /\ r \in todo /\ RunsOf(r) = {}
  /\ todo' = todo \ {r}
  /\ UNCHANGED <<rowVars, callVars, sweep, rearmed, work, eventVars, reviewVars, stopped, faultVars>>

\* Every listed request was re-armed: each new run gets a goroutine.
SweepStart ==
  /\ sweep = "arm" /\ todo = {} /\ pc[Sweeper] = "idle"
  /\ work' = [work EXCEPT !["recovery"] =
                [k \in RunIds |-> IF k \in rearmed THEN "load" ELSE @[k]]]
  /\ rearmed' = {}
  /\ sweep' = "over"
  /\ UNCHANGED <<rowVars, callVars, todo, eventVars, reviewVars, stopped, faultVars>>

----------------------------------------------------------------------------
(* StopRequest *)

\* The guarded UPDATE of the request. (Otherwise the client is answered 400.)
Stop(c, r) ==
  /\ c \in Clients /\ pc[c] = "idle"
  /\ request[r] \in Active
  /\ request' = [request EXCEPT ![r] = "stopped"]
  /\ stopped' = stopped \cup
       {k \in RunsOf(r) : \E s \in Sources : work[s][k] \in {"review", "look"}}
  /\ GoTo(c, "find")
  /\ Begin(c, r)
  /\ UNCHANGED <<requestVars, chosen, sweepVars, work, eventVars, reviewVars>>

\* The latest open run of the request is looked up.
FindOpenRun(c) ==
  LET open == {k \in RunsOf(target[c]) : runStatus[k] \in OpenRun} IN
  /\ pc[c] = "find"
  /\ IF open = {} THEN Leave(c)
     ELSE /\ GoTo(c, "stop")
          /\ chosen' = [chosen EXCEPT ![c] = Latest(open)]
          /\ UNCHANGED target
  /\ UNCHANGED <<rowVars, sweepVars, work, eventVars, reviewVars, stopped, faultVars>>

\* It is set to stopped, whatever became of it meanwhile.
StopRun(c) ==
  /\ pc[c] = "stop"
  /\ runStatus' = [runStatus EXCEPT ![chosen[c]] = "stopped"]
  /\ Leave(c)
  /\ UNCHANGED <<request, runOf, nextRun, sweepVars, work, eventVars, reviewVars, stopped, faultVars>>

----------------------------------------------------------------------------
(* RunReview, for the execution of run k by source s *)

StepTo(s, k, label) ==
  /\ work' = [work EXCEPT ![s][k] = label]
  /\ UNCHANGED eventVars

\* The execution is over. A callback acknowledges its event, which may have been
\* delivered once more because the review took longer than AckWait.
Return(s, k) ==
  /\ work' = [work EXCEPT ![s][k] = "none"]
  /\ \/ events' = (IF s = "callback" THEN events \ {k} ELSE events) /\ UNCHANGED late
     \/ s = "callback" /\ k \notin late /\ late' = late \cup {k} /\ UNCHANGED events

\* The subscription runs one callback at a time.
Deliver(k) ==
  /\ k \in events
  /\ \A j \in RunIds : work["callback"][j] = "none"
  /\ StepTo("callback", k, "load")
  /\ UNCHANGED <<rowVars, callVars, sweepVars, reviewVars, stopped, faultVars>>

\* The status of the request decides: only an accepted one is run.
LoadRequest(s, k) ==
  /\ work[s][k] = "load"
  /\ IF request[runOf[k]] = "accepted" THEN StepTo(s, k, "claim") ELSE Return(s, k)
  /\ UNCHANGED <<rowVars, callVars, sweepVars, reviewVars, stopped, faultVars>>

\* Seeded fault: the claim trusts the status of the request.
ClaimAnyRun(s, k) ==
  /\ work[s][k] = "claim"
  /\ runStatus' = [runStatus EXCEPT ![k] = "running"]
  /\ claims' = [claims EXCEPT ![k] = @ + 1]
  /\ StepTo(s, k, "mark")
  /\ UNCHANGED <<request, runOf, nextRun, callVars, sweepVars, saved, stopped, faultVars>>

\* UPDATE ... WHERE status IN ('pending', 'accepted'): one worker wins.
ClaimRun(s, k) ==
  /\ work[s][k] = "claim"
  /\ IF runStatus[k] = "pending"
     THEN /\ runStatus' = [runStatus EXCEPT ![k] = "running"]
          /\ claims' = [claims EXCEPT ![k] = @ + 1]
          /\ StepTo(s, k, "mark")
     ELSE Return(s, k) /\ UNCHANGED <<runStatus, claims>>
  /\ UNCHANGED <<request, runOf, nextRun, callVars, sweepVars, saved, stopped, faultVars>>

\* The request is set to running, whatever its status is.
MarkRequest(s, k) ==
  /\ work[s][k] = "mark"
  /\ SetRequest(runOf[k], "running")
  /\ StepTo(s, k, "review")
  /\ UNCHANGED <<requestVars, callVars, sweepVars, reviewVars, faultVars>>

\* PostProcessIndex: old findings of the run are deleted, the reviewers run, and
\* what they found is saved at the end, though some of them failed. The context of
\* an inline goroutine does not last that long. (A document that is gone, or has no
\* reviewer enabled, has nothing to find: it returns at once with no error, and a run
\* in `saved' is one of which everything found is saved.)
Review(s, k) ==
  /\ s # "inline" /\ work[s][k] = "review"
  /\ \/ saved' = saved \cup {k} /\ StepTo(s, k, "look")
     \/ saved' \in {saved, saved \cup {k}} /\ StepTo(s, k, "failRun")
  /\ UNCHANGED <<rowVars, callVars, sweepVars, claims, stopped, faultVars>>

\* Seeded fault: the request is not read again after the review.
LookNowhere(s, k) ==
  /\ work[s][k] = "look"
  /\ StepTo(s, k, "endRun")
  /\ UNCHANGED <<rowVars, callVars, sweepVars, reviewVars, stopped, faultVars>>

\* "If the request was stopped while running, do not override that terminal state."
LookAgain(s, k) ==
  /\ work[s][k] = "look"
  /\ IF request[runOf[k]] = "stopped" THEN Return(s, k) ELSE StepTo(s, k, "endRun")
  /\ UNCHANGED <<rowVars, callVars, sweepVars, reviewVars, stopped, faultVars>>

\* The run ends, then its request does; neither UPDATE looks at a status.
EndRun(s, k) ==
  /\ work[s][k] \in {"endRun", "failRun"}
  /\ runStatus' = [runStatus EXCEPT ![k] = IF work[s][k] = "endRun" THEN "completed" ELSE "failed"]
  /\ StepTo(s, k, IF work[s][k] = "endRun" THEN "endRequest" ELSE "failRequest")
  /\ UNCHANGED <<request, runOf, nextRun, callVars, sweepVars, reviewVars, stopped, faultVars>>

\* Seeded fault: the request gets a status no handler knows.
EndWithError(s, k) ==
  /\ work[s][k] \in {"endRequest", "failRequest"}
  /\ SetRequest(runOf[k], IF work[s][k] = "endRequest" THEN "completed" ELSE "error")
  /\ Return(s, k)
  /\ UNCHANGED <<requestVars, callVars, sweepVars, reviewVars, faultVars>>

EndRequest(s, k) ==
  /\ work[s][k] \in {"endRequest", "failRequest"}
  /\ SetRequest(runOf[k], IF work[s][k] = "endRequest" THEN "completed" ELSE "failed")
  /\ Return(s, k)
  /\ UNCHANGED <<requestVars, callVars, sweepVars, reviewVars, faultVars>>

\* The context of the inline goroutine is canceled: its statements fail from now on.
InlineDies(k) ==
  /\ work["inline"][k] # "none"
  /\ StepTo("inline", k, "none")
  /\ UNCHANGED <<rowVars, callVars, sweepVars, reviewVars, stopped, faultVars>>

----------------------------------------------------------------------------
\* What ends with the process. Killed, it leaves the event of its callback
\* unacknowledged; shut down, its statements fail under a canceled context, the
\* callback returns nil and the event is acknowledged.
ProcessEnds ==
  /\ Fault("crash")
  /\ work' = [s \in Sources |-> IF s = "inline" THEN work[s] ELSE [k \in RunIds |-> "none"]]
  /\ events' \in {events, {k \in events : work["callback"][k] = "none"}}
  /\ todo' = {} /\ rearmed' = {}
  /\ Leave(Sweeper)
  /\ UNCHANGED <<rowVars, late, reviewVars, stopped>>

\* Seeded fault: DOC_REVIEW_RECOVER_ON_START is off.
CrashUnswept == ProcessEnds /\ sweep' = "over"

\* The doc-processor ends and is started again.
Crash == ProcessEnds /\ sweep' = "list"

Arm(p) == CreateRun(p) \/ CloseSuperseded(p) \/ AcceptAgain(p) \/ SeedAspects(p)
Handle(c) == Insert(c) \/ FindOpenRun(c) \/ StopRun(c) \/ Arm(c) \/ Publish(c)
Sweeping ==
  \/ SweepList
  \/ \E r \in Requests : SweepNext(r) \/ SweepSkips(r)
  \/ Arm(Sweeper)
  \/ SweepStart
RunReview(s, k) ==
  \/ LoadRequest(s, k)
  \/ ClaimRun(s, k)
  \/ MarkRequest(s, k)
  \/ Review(s, k)
  \/ LookAgain(s, k)
  \/ EndRun(s, k)
  \/ EndRequest(s, k)

Next ==
  \/ \E c \in Clients, r \in Requests : Submit(c, r) \/ Stop(c, r) \/ Restart(c, r)
  \/ \E c \in Clients : Handle(c) \/ PublishFails(c) \/ Vanish(c)
  \/ Sweeping
  \/ \E k \in RunIds : Deliver(k) \/ InlineDies(k)
  \/ \E s \in Sources, k \in RunIds : RunReview(s, k)
  \/ Crash

Spec == Init /\ [][Next]_vars

(* Handlers, callbacks and goroutines go on, JetStream delivers, the context of an *)
(* inline goroutine is canceled. Users and faults may never come.                  *)
Fairness ==
  /\ \A c \in Clients : WF_vars(Handle(c))
  /\ WF_vars(Sweeping)
  /\ WF_vars(\E k \in RunIds : Deliver(k))
  /\ \A k \in RunIds : WF_vars(InlineDies(k))
  /\ \A s \in Sources \ {"inline"}, k \in RunIds : WF_vars(RunReview(s, k))

FairSpec == Spec /\ Fairness

----------------------------------------------------------------------------
(* Properties *)

\* A run is executed at most once, whatever is delivered twice, re-armed or
\* recovered: its findings are deleted and saved by one worker only, and a run
\* that reads completed has saved them. (The atomic claim of RunReview.)
ReviewedOnce ==
  /\ \A k \in RunIds : claims[k] <= 1
  /\ \A k \in RunIds, s, t \in Sources : work[s][k] \in Owning /\ work[t][k] \in Owning => s = t
  /\ \A k \in RunIds : runStatus[k] = "completed" => k \in saved

\* A run whose request was stopped during its review, before the review has looked
\* at the request again, never completes while the request stays stopped.
StopsAreHeeded == \A k \in stopped : runStatus[k] # "completed"

\* Every active request is settled in the end, though it is stopped or restarted
\* during a review and the doc-processor dies at any point. It need not be if two
\* handlers, or one and the sweep, are at the same request at a time, if a client
\* goes away or if a publication fails.
ReviewsSettle ==
  [](seen \subseteq {"crash"}) =>
    \A r \in Requests : request[r] \in Active ~> request[r] \in Final
============================================================================
