------------------------------ MODULE BffRuns ------------------------------
(***************************************************************************)
(* The run store of the BFF and the routes that fill and refresh it        *)
(* (services/c2c-bff/src: run-store.ts, and in server.ts the start routes, *)
(* GET run, GET workflow, the divergence decision, traceability and the    *)
(* routes that only forward a request for a run), and the loop with which  *)
(* the Studio polls a run it started (apps/c2c-studio/src/hooks:           *)
(* useRunPolling.ts).                                                      *)
(*                                                                         *)
(* Node runs one handler at a time, but a handler gives way at every await *)
(* on the orchestrator, so requests interleave there: what a handler read  *)
(* from the store before an await may be old when it writes after it, and  *)
(* answers may be applied in another order than they were computed in.     *)
(* The orchestrator is external: a run it accepted moves forward only, a   *)
(* call to it may be refused, time out, or be served and lose its answer.  *)
(* A request that the gate refuses (BffGate) changes nothing here.         *)
(***************************************************************************)
EXTENDS Naturals, FiniteSets

CONSTANTS Handlers,   \* requests in progress at the same time
          MaxRuns     \* bound: runs the orchestrator or the BFF ever makes

ASSUME RunBoundAssumption == MaxRuns \in Nat \ {0}

RunIds == 1 .. MaxRuns

VARIABLES
    enabled,    \* config: an orchestrator URL is set
    fixtures,   \* config: C2C_ENABLE_DIAGNOSTIC_FIXTURES
    store,      \* RunStore.runs
    orch,       \* external: the orchestrator's runs
    request,    \* what each handler is waiting for
    watch,      \* the Studio's polling loop on each run
    awaited     \* the handlers whose answer such a loop awaits

vars == <<enabled, fixtures, store, orch, request, watch, awaited>>

Statuses == <<"starting", "updating", "completed", "failed">>
StatusSet == {Statuses[i] : i \in 1 .. 4}
Terminal == {"completed", "failed"}
Rank(s) == IF s = "starting" THEN 0 ELSE IF s = "updating" THEN 1 ELSE 2
Classes == {"none", "success", "failed"}

\* The ids of the BFF's runs and of the orchestrator's are different: the BFF
\* makes up its own and keeps the other as liveRunId.
BffId(r) == <<"bff", r>>
LiveId(l) == <<"live", l>>

NoRun == [mode |-> "none", live |-> 0, status |-> "starting", class |-> "none",
          trust |-> 0, regions |-> FALSE]
\* StoredRun as far as something reads it back: trust is the version of the
\* cached trust summary (0 for none).
StoredRuns == [mode : {"none", "live", "diagnostic-fixture"}, live : 0 .. MaxRuns,
               status : StatusSet, class : Classes, trust : 0 .. 2, regions : BOOLEAN]
NoLive == [status |-> "none", class |-> "none", trust |-> 0, java |-> FALSE]
Accepted == [NoLive EXCEPT !.status = "starting"]

\* A loop that is not running ("off": not begun, or given up), that waits for its
\* timer or for an answer, or that has ended with a terminal answer.
Loops == {"off", "waiting", "asking"} \cup Terminal

Idle == [at |-> "idle"]
StartRoutes == {"transform", "generate", "runs"}
\* Routes that look the run up, forward the request under liveArtifactRunId and
\* hand the answer on without a word to the store.
ForwardRoutes == {"repair preview", "repair diagnose", "repair apply", "repair accept",
                  "repair reject", "parity export"}

Stored == {r \in RunIds : store[r].mode # "none"}
Known == {l \in RunIds : orch[l].status # "none"}
Unused(ids) == {i \in RunIds \ ids : \A j \in RunIds \ ids : i <= j}

Init ==
    /\ enabled \in BOOLEAN /\ fixtures \in BOOLEAN
    /\ store = [r \in RunIds |-> NoRun]
    /\ orch = [l \in RunIds |-> NoLive]
    /\ request = [h \in Handlers |-> Idle]
    /\ watch = [r \in RunIds |-> "off"] /\ awaited = {}

\* Of the stored run a handler goes on with, it uses the trust summary and the
\* status.
Ask(h, call, r, id, stored) ==
    request' = [request EXCEPT ![h] =
        [at |-> "asked", call |-> call, run |-> r, id |-> id,
         was |-> [status |-> stored.status, trust |-> stored.trust]]]
Finish(h) == request' = [request EXCEPT ![h] = Idle]
Answer(h, answer) ==
    request' = [request EXCEPT ![h] =
        [at |-> "answered", call |-> @.call, run |-> @.run, was |-> @.was,
         answer |-> answer]]
Waiting(h, call) == request[h].at = "asked" /\ request[h].call = call
Returned(h, call) == request[h].at = "answered" /\ request[h].call = call
Refused == [ok |-> FALSE]
config == <<enabled, fixtures>>
watching == <<watch, awaited>>

-----------------------------------------------------------------------------
(* Starting a run.                                                         *)

\* The three start routes once admitted, up to the await on the orchestrator.
SubmitStart(h, route) ==
    /\ request[h] = Idle /\ enabled
    /\ route \in StartRoutes
    /\ Ask(h, "start", 0, LiveId(0), NoRun)
    /\ UNCHANGED <<config, store, orch, watching>>

\* POST /runs without an orchestrator: the run is made and completed at once.
StartDiagnosticFixture(h) ==
    /\ request[h] = Idle /\ ~enabled /\ fixtures
    /\ \E r \in Unused(Stored) :
           store' = [store EXCEPT ![r] =
               [NoRun EXCEPT !.mode = "diagnostic-fixture", !.status = "completed"]]
    /\ UNCHANGED <<config, orch, request, watching>>

\* external: POST /v0/runs.  The run may have been made although the answer is
\* lost.
OrchestratorStarts(h) ==
    /\ Waiting(h, "start")
    /\ \/ \E l \in Unused(Known) :
              /\ orch' = [orch EXCEPT ![l] = Accepted]
              /\ \/ Answer(h, [ok |-> TRUE, live |-> l, status |-> "starting"])
                 \/ Answer(h, Refused)
       \/ Answer(h, Refused) /\ UNCHANGED orch
    /\ UNCHANGED <<config, store, watching>>

CoerceWithoutFailed(s) ==  \* mutant of the next: the list of statuses misses one
    IF s \in {"starting", "updating", "completed"} THEN s ELSE "updating"
\* coerceLiveStatus.
CoerceLiveStatus(s) == IF s \in StatusSet THEN s ELSE "updating"

\* After the await: 201 with a new stored run that applyLiveRunPayload has
\* refreshed, or 502 and nothing stored.  A Studio that gets the answer begins to
\* poll the run; another client, or a Studio that does not get it, does not.
FinishStart(h) ==
    /\ Returned(h, "start")
    /\ LET a == request[h].answer IN
           IF a.ok
           THEN \E r \in Unused(Stored), loop \in {"off", "waiting"} :
                    /\ store' = [store EXCEPT ![r] =
                           [NoRun EXCEPT !.mode = "live", !.live = a.live,
                                         !.status = CoerceLiveStatus(a.status)]]
                    /\ watch' = [watch EXCEPT ![r] = loop]
           ELSE UNCHANGED <<store, watch>>
    /\ Finish(h)
    /\ UNCHANGED <<config, orch, awaited>>

-----------------------------------------------------------------------------
(* Refreshing a run.                                                       *)

Refreshable(r) == store[r].mode = "live" /\ enabled /\ store[r].live # 0

\* GET run: the stored run is read before the first await.  A diagnostic run is
\* answered from the store.
GetRun(h, r) ==
    /\ request[h] = Idle
    /\ Refreshable(r)
    /\ Ask(h, "run", r, LiveId(store[r].live), store[r])
    /\ UNCHANGED <<config, store, orch>>

\* Any client: another tab, another Studio, a script.
PollRun(h, r) == GetRun(h, r) /\ UNCHANGED watching

\* The Studio's loop: one request at a time, and none after a terminal answer.
WatchRun(h, r) ==
    /\ watch[r] = "waiting"
    /\ GetRun(h, r)
    /\ watch' = [watch EXCEPT ![r] = "asking"]
    /\ awaited' = awaited \cup {h}

\* The loop gives up: 503, more than five errors in a row, another run on show, a
\* closed tab.  An answer still to come finds nobody.
Leave(r) ==
    /\ watch[r] \in {"waiting", "asking"}
    /\ watch' = [watch EXCEPT ![r] = "off"]
    /\ awaited' = {h \in awaited : request[h].run # r}
    /\ UNCHANGED <<config, store, orch, request>>

RunIsServed(h) ==
    /\ Waiting(h, "run")
    /\ LET l == request[h].id[2] IN
           Answer(h, [ok |-> TRUE, status |-> orch[l].status])
    /\ UNCHANGED <<config, store, orch, watching>>

ApplyRunOrFail(h) ==  \* mutant of the next: an unreachable orchestrator fails the run
    /\ Returned(h, "run")
    /\ LET a == request[h].answer
           r == request[h].run
           status == IF a.ok THEN a.status ELSE "failed"
           current == [store[r] EXCEPT !.status = status]
       IN  /\ store' = [store EXCEPT ![r] = current]
           /\ Ask(h, "workflow", r, LiveId(current.live), current)
    /\ UNCHANGED <<config, orch, watching>>
ApplyRunOrRestart(h) ==  \* mutant of the next: without an answer the run starts over
    /\ Returned(h, "run")
    /\ LET a == request[h].answer
           r == request[h].run
       IN  /\ store' = [store EXCEPT ![r].status = IF a.ok THEN a.status ELSE "starting"]
           /\ Ask(h, "workflow", r, LiveId(store[r].live), NoRun)
    /\ UNCHANGED <<config, orch, watching>>
\* applyLiveRunPayload patches the store's record of now; when the call failed
\* the last-known state stays and the handler goes on with what it read first.
\* Either way the workflow is asked for next.
ApplyRun(h) ==
    /\ Returned(h, "run")
    /\ LET a == request[h].answer
           r == request[h].run
           fresh == [store[r] EXCEPT !.status = CoerceLiveStatus(a.status)]
       IN  /\ store' = IF a.ok THEN [store EXCEPT ![r] = fresh] ELSE store
           /\ Ask(h, "workflow", r, LiveId(store[r].live),
                  IF a.ok THEN fresh ELSE request[h].was)
    /\ UNCHANGED <<config, orch, watching>>

\* GET workflow, the route of its own.
PollWorkflow(h, r) ==
    /\ request[h] = Idle
    /\ Refreshable(r)
    /\ Ask(h, "workflow", r, LiveId(store[r].live), [NoRun EXCEPT !.trust = store[r].trust])
    /\ UNCHANGED <<config, store, orch, watching>>

WorkflowIsServed(h) ==
    /\ Waiting(h, "workflow")
    /\ LET l == request[h].id[2] IN
           Answer(h, [ok |-> TRUE, class |-> orch[l].class, trust |-> orch[l].trust])
    /\ UNCHANGED <<config, store, orch, watching>>

\* snapshotFromContract and applyWorkflowSnapshotToStore.  A classification the
\* contract does not have clears the cached one; a trust summary it does not have
\* is replaced by the one the handler read before the await.
SnapshotPatch(stored, was, a) ==
    LET trust == IF a.trust # 0 THEN a.trust ELSE was.trust IN
    [stored EXCEPT !.class = a.class,
                   !.trust = IF trust # 0 THEN trust ELSE @]

ToldOrFailed(h) ==  \* mutant of the next: a workflow that is out is told as a failure
    IF request[h].answer.ok THEN store[request[h].run].status ELSE "failed"
\* runSummary: the status GET run answers with is the store's of now when the
\* snapshot was applied, else the one the handler was left with.
Told(h) ==
    IF request[h].answer.ok THEN store[request[h].run].status ELSE request[h].was.status

\* The answer to GET run or GET workflow, which may be lost.  The loop that awaits
\* it ends with a terminal status and goes on otherwise.
AnswerPoll(h, lost) ==
    /\ Returned(h, "workflow")
    /\ LET a == request[h].answer
           r == request[h].run
       IN  /\ store' = IF a.ok
                       THEN [store EXCEPT ![r] = SnapshotPatch(@, request[h].was, a)]
                       ELSE store
           /\ watch' = IF h \notin awaited THEN watch ELSE
                 [watch EXCEPT ![r] =
                     IF ~lost /\ Told(h) \in Terminal THEN Told(h) ELSE "waiting"]
    /\ awaited' = awaited \ {h}
    /\ Finish(h)
    /\ UNCHANGED <<config, orch>>

ApplyWorkflow(h) == \E lost \in BOOLEAN : AnswerPoll(h, lost)

\* GET traceability: only an answer that arrived replaces the cached regions.
PollTraceability(h, r) ==
    /\ request[h] = Idle
    /\ Refreshable(r)
    /\ Ask(h, "traceability", r, LiveId(store[r].live), NoRun)
    /\ UNCHANGED <<config, store, orch, watching>>

TraceabilityIsServed(h) ==
    /\ Waiting(h, "traceability")
    /\ Answer(h, [ok |-> TRUE, regions |-> orch[request[h].id[2]].java])
    /\ UNCHANGED <<config, store, orch, watching>>

ApplyTraceability(h) ==
    /\ Returned(h, "traceability")
    /\ LET a == request[h].answer IN
           store' = IF a.ok THEN [store EXCEPT ![request[h].run].regions = a.regions]
                            ELSE store
    /\ Finish(h)
    /\ UNCHANGED <<config, orch, watching>>

-----------------------------------------------------------------------------
(* Requests for a run that are forwarded.                                  *)

\* PUT intentional-divergence-decision: the call names the run by the BFF's id.
SubmitDecision(h, r) ==
    /\ request[h] = Idle /\ enabled
    /\ store[r].mode # "none"
    /\ Ask(h, "decision", r, BffId(r), NoRun)
    /\ UNCHANGED <<config, store, orch, watching>>

\* external: a decision is recorded only for a run the orchestrator has, and
\* only once the comparison of that run is known; it makes a new trust summary.
DecisionIsServed(h) ==
    /\ Waiting(h, "decision")
    /\ LET id == request[h].id
           takes == id[1] = "live" /\ orch[id[2]].trust # 0
       IN  /\ Answer(h, IF takes THEN [ok |-> TRUE, trust |-> 2] ELSE Refused)
           /\ orch' = IF takes THEN [orch EXCEPT ![id[2]].trust = 2] ELSE orch
    /\ UNCHANGED <<config, store, watching>>

ApplyDecision(h) ==
    /\ Returned(h, "decision")
    /\ LET a == request[h].answer IN
           store' = IF a.ok THEN [store EXCEPT ![request[h].run].trust = a.trust]
                            ELSE store
    /\ Finish(h)
    /\ UNCHANGED <<config, orch, watching>>

\* The forwarding routes need a run that the orchestrator has accepted.
Forward(h, route, r) ==
    /\ request[h] = Idle /\ enabled
    /\ store[r].live # 0
    /\ route \in ForwardRoutes
    /\ Ask(h, "forward", r, LiveId(store[r].live), NoRun)
    /\ UNCHANGED <<config, store, orch, watching>>

ForwardAnswered(h) ==
    /\ Waiting(h, "forward")
    /\ Finish(h)
    /\ UNCHANGED <<config, store, orch, watching>>

\* Any call but a start, where the orchestrator may have acted, can also be
\* answered with an error or time out.
CallFails(h) ==
    /\ request[h].at = "asked"
    /\ request[h].call \in {"run", "workflow", "traceability", "decision"}
    /\ Answer(h, Refused)
    /\ UNCHANGED <<config, store, orch, watching>>

-----------------------------------------------------------------------------
(* external: the run in the orchestrator goes on by itself.                *)

Progress(l, next) ==
    /\ orch' = [orch EXCEPT ![l] = next]
    /\ UNCHANGED <<config, store, request, watching>>
Begin(l) ==
    /\ orch[l].status = "starting"
    /\ Progress(l, [orch[l] EXCEPT !.status = "updating"])
Generate(l) ==
    /\ orch[l].status = "updating" /\ orch[l].class = "none" /\ ~orch[l].java
    /\ Progress(l, [orch[l] EXCEPT !.java = TRUE])
Seal(l, class) ==
    /\ orch[l].status = "updating" /\ orch[l].class = "none"
    /\ class = "success" => orch[l].java
    /\ Progress(l, [orch[l] EXCEPT !.class = class, !.trust = IF @ = 0 THEN 1 ELSE @])
Close(l) ==
    /\ orch[l].status = "updating" /\ orch[l].class # "none"
    /\ Progress(l, [orch[l] EXCEPT !.status =
                       IF orch[l].class = "success" THEN "completed" ELSE "failed"])

Serve(h) ==
    \/ OrchestratorStarts(h) \/ RunIsServed(h) \/ WorkflowIsServed(h)
    \/ TraceabilityIsServed(h) \/ DecisionIsServed(h) \/ ForwardAnswered(h)
    \/ CallFails(h)
Resume(h) ==
    \/ FinishStart(h) \/ ApplyRun(h) \/ ApplyWorkflow(h)
    \/ ApplyTraceability(h) \/ ApplyDecision(h)
Arrive(h) ==
    \/ \E route \in StartRoutes : SubmitStart(h, route)
    \/ StartDiagnosticFixture(h)
    \/ \E r \in Stored :
          \/ PollRun(h, r) \/ WatchRun(h, r) \/ PollWorkflow(h, r) \/ PollTraceability(h, r)
          \/ SubmitDecision(h, r)
          \/ \E route \in ForwardRoutes : Forward(h, route, r)
Work(l) ==
    Begin(l) \/ Generate(l) \/ (\E class \in {"success", "failed"} : Seal(l, class)) \/ Close(l)

Next ==
    \/ \E h \in Handlers : Arrive(h) \/ Serve(h) \/ Resume(h)
    \/ \E r \in RunIds : Leave(r)
    \/ \E l \in RunIds : Work(l)

\* The Studio's loop on r, and the two things it hangs on.
NextPoll(r) == \E h \in Handlers : WatchRun(h, r)
PollIsServed(r) == \E h \in awaited : request[h].run = r /\ RunIsServed(h)
PollIsHeard(r) == \E h \in awaited : request[h].run = r /\ AnswerPoll(h, FALSE)

\* A handler whose call was answered is resumed; a call is answered one way or
\* the other (the client has a timeout).  The timer of a loop that has neither
\* ended nor given up fires, strongly because the handlers of an instance may be
\* taken when it does.  Of the polls of one loop, not all find the orchestrator
\* out or lose their answer.  No other client polls, and no loop polls after its
\* end.
Fairness ==
    /\ \A h \in Handlers : WF_vars(Resume(h)) /\ WF_vars(Serve(h))
    /\ \A r \in RunIds :
          SF_vars(NextPoll(r)) /\ SF_vars(PollIsServed(r)) /\ SF_vars(PollIsHeard(r))

Spec == Init /\ [][Next]_vars /\ Fairness

-----------------------------------------------------------------------------
(* Properties.                                                             *)

Requests ==
    {Idle}
    \cup [at : {"asked"}, call : {"start", "run", "workflow", "traceability", "decision", "forward"},
          run : 0 .. MaxRuns, id : {"bff", "live"} \X (0 .. MaxRuns),
          was : [status : StatusSet, trust : 0 .. 2]]

\* Type correctness of the run store and of the waiting requests.
TypeOK ==
    /\ store \in [RunIds -> StoredRuns]
    /\ \A l \in RunIds : orch[l].status \in StatusSet \cup {"none"}
    /\ \A h \in Handlers : request[h].at # "answered" => request[h] \in Requests
    /\ watch \in [RunIds -> Loops] /\ awaited \subseteq Handlers

\* Whatever order answers are applied in and whichever calls fail, the store
\* never knows more than the orchestrator: a cached status, classification,
\* trust summary or region map was true of that very run at some time
\* (applyLiveRunPayload, applyWorkflowSnapshotToStore, GET traceability).
CacheNeverAhead ==
    \A r \in Stored : store[r].mode = "live" =>
        LET s == store[r]
            o == orch[s.live]
        IN  /\ o.status # "none"
            /\ Rank(s.status) <= Rank(o.status)
            /\ s.status \in Terminal => s.status = o.status
            /\ s.class # "none" => s.class = o.class
            /\ s.trust <= o.trust
            /\ s.regions => o.java

\* The cached status of a run goes back only when two polls of it overlapped:
\* the answer that sets it back was asked for before the other poll moved the
\* status forward (GET run applies answers without comparing them).
OnlyOverlapSetsBack ==
    [][\A r \in Stored :
          Rank(store'[r].status) < Rank(store[r].status) =>
              \E h \in Handlers :
                  /\ Returned(h, "run") /\ request[h].run = r
                  /\ Rank(request[h].was.status) < Rank(store[r].status)]_vars

\* A loop that ended was told how the run really ended, although the status came
\* from a record read before one or two awaits, or from one that other polls wrote
\* in between (GET run; useRunPolling.ts takes the answer for final).
LoopEndsWithTheRun ==
    \A r \in RunIds : watch[r] \in Terminal => watch[r] = orch[store[r].live].status

\* A Studio that keeps polling learns the end: when the orchestrator has closed a
\* run whose loop is going, the loop ends with that status or gives up, however
\* other clients' late answers set the store back meanwhile.  What the store
\* shows after the loop's end is not promised: nobody need poll any more.
LoopLearnsTheEnd ==
    \A r \in RunIds :
        watch[r] \in {"waiting", "asking"} /\ orch[store[r].live].status \in Terminal
            ~> watch[r] = "off" \/ watch[r] = orch[store[r].live].status

\* Every call for a stored run names that run by the id the orchestrator gave it
\* (services/c2c-bff/src/server.test.ts:2956 for the export route; broken by the
\* divergence decision, which is forwarded under the BFF's own id).
CallsNameTheLiveRun ==
    \A h \in Handlers :
        request[h].at = "asked" /\ request[h].run # 0 =>
            request[h].id = LiveId(store[request[h].run].live)
=============================================================================
