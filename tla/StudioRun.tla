------------------------------ MODULE StudioRun ------------------------------
(***************************************************************************)
(* The Studio's run store (apps/c2c-studio/src/stores/                     *)
(* transformationRun.tsx) with its polling (hooks/useRunPolling.ts) and    *)
(* the Java diff history (lib/editor/diffHistory.ts), composed with the    *)
(* views the BFF serves (BffViews) and the panels that read them           *)
(* (StudioPanels).  A user starts runs; every answer arrives in a step of  *)
(* its own, after whatever else happened.                                  *)
(*                                                                         *)
(* A run is known by its number, in the order the backend created them.    *)
(* The orchestrator's side of a run is one of Outcomes, fixed when it      *)
(* ends.  Calls fail in the groups of Outages: a set of calls and whether  *)
(* the orchestrator refuses them (the BFF answers 200, incomplete) or they *)
(* throw.                                                                  *)
(***************************************************************************)
EXTENDS StudioPanels, StudioText, StudioWire, TrustCatalog, EditorTelemetry

CONSTANTS MaxRuns,    \* bound on the runs the user starts
          MaxErrors,  \* consecutive poll errors that end the polling (5)
          MaxActs,    \* bound on exports, decisions and explanations
          Outcomes,   \* run -> the ways the orchestrator may end it
          Outages,    \* the groups of calls that fail together
          Outputs     \* program outputs: sequences of lines

ASSUME BoundsAssumption == MaxRuns \in Nat \ {0} /\ MaxErrors \in Nat /\ MaxActs \in Nat

\* An output is a sequence of lines, whatever a line is.
ASSUME OutputsAssumption ==
    \A output \in Outputs : output \in Seq({output[i] : i \in DOMAIN output})

VARIABLES
    orch,      \* run -> [status, art, asked]: the orchestrator's side of it
    s,         \* TransformationRunState, the state of the store
    active,    \* activeTransformRequestRef: the number of the last request
    starts,    \* requests whose answer has not arrived
    poller,    \* the poll loop of the current effect
    detached,  \* hydrations started by an answer, which nothing cancels
    calls,     \* exports and decisions on their way
    recording, \* runs whose content hash is being computed
    history,   \* the Java diff history of the entry file
    explained, \* OutputChangeExplanationPanel: its request and its answer
    acts       \* exports, decisions and questions so far

vars == <<orch, s, active, starts, poller, detached, calls, recording,
          history, explained, acts>>

Runs == 1 .. MaxRuns
Terminal == {"completed", "failed"}
Idle == [step |-> "off", errors |-> 0]

-----------------------------------------------------------------------------
(* The backend of a run *)

(* A run at work: a step is running, an agent is active, nothing is known  *)
(* of the outcome.                                                         *)
AtWork ==
    [stored   |-> [trust |-> Null, parity |-> TRUE, trustCase |-> 1,
                   profile |-> 1, policy |-> 1, normalized |-> Null,
                   repair |-> 0],
     gen      |-> Unserved, files |-> Unserved, bt |-> Unserved,
     ev       |-> Unserved, artifacts |-> Unserved,
     progress |-> [missing |-> {}, runStatus |-> "updating",
                   steps |-> {[id |-> 1, name |-> "parse-cobol",
                               status |-> "running"]}],
     workflow |-> [EmptyWorkflowSnapshot EXCEPT
                     !.agent = "transformation_agent"]]

(* Null is no number, and none of the words it stands in for: a verdict, a *)
(* product state or a reason.                                              *)
ASSUME NullAssumption ==
    /\ Null \notin Nat
    /\ Null \notin {"success", "unsupported", "generated-incomplete",
                    "generated-pending", "build-failed", "equivalence-mismatch",
                    "evidence-incomplete", "hash-mismatch"}
    /\ Null \notin {"same_run_not_allowed", "run_not_completed", "non_parity_run",
                    "missing_trust_summary", "missing_observed_output",
                    "missing_normalized_output", "evidence_incomplete",
                    "cobol_edit"}

(* The orchestrator ends a run one way or the other, and serves of it what  *)
(* it served while the run was at work.                                    *)
ASSUME OutcomeAssumption ==
    \A n \in Runs : \A outcome \in Outcomes[n] :
        /\ outcome.status \in Terminal
        /\ DOMAIN outcome.art = DOMAIN AtWork
        /\ DOMAIN outcome.art.workflow = DOMAIN AtWork.workflow

(* A run that is completed has a directory of artefacts to answer from.    *)
(* What it calls a success has its Java and the manifest of it stored,     *)
(* which comes before the build, and was built by a runner that knows no   *)
(* good status but a match.                                                *)
ASSUME SuccessAssumption ==
    \A n \in Runs : \A outcome \in Outcomes[n] :
        LET art == outcome.art
        IN  /\ outcome.status = "completed" => art.gen # Unserved
            /\ art.workflow.final = "success" =>
                  /\ art.gen.missing = {} /\ art.gen.ref # Null
                  /\ art.bt.status = "ok" /\ art.bt.classification = "match"

(* The record the BFF keeps of a run, and what a stage of it looks like    *)
(* from outside while it is at work.                                       *)
Stored(n) ==
    LET kept == orch[n].art.stored
    IN  [id |-> n, status |-> orch[n].status, trust |-> kept.trust,
         parity |-> kept.parity, trustCase |-> kept.trustCase,
         profile |-> kept.profile, policy |-> kept.policy,
         normalized |-> kept.normalized, repair |-> kept.repair]

(* The orchestrator's answer to a call, which an outage takes away. *)
Served(n, call, outage) ==
    IF call \in outage.calls THEN Unserved ELSE orch[n].art[call]

GeneratedOf(n, outage) ==
    LET v == LiveGeneratedView(Stored(n), Served(n, "gen", outage))
    IN  Accepted(v, IsGeneratedView(v))

FilesOf(n, outage) ==
    LET v == GeneratedFilesIndex(Stored(n), Served(n, "files", outage), outage.throws)
    IN  Accepted(v, IsGeneratedFilesIndex(v))

BuildTestOf(n, outage) ==
    LET v == LiveBuildTestView(Stored(n), Served(n, "bt", outage), <<>>)
    IN  Accepted(v, IsBuildTestView(v))

EvidenceOf(n, outage) ==
    LET v == LiveEvidenceView(Stored(n), Served(n, "ev", outage))
    IN  Accepted(v, IsEvidenceView(v))

ProgressOf(n, outage) ==
    LET v == LiveProgressView(Stored(n), Served(n, "progress", outage))
    IN  Accepted(v, IsRunProgressView(v))

WorkflowOf(n, outage) ==
    LET v == WorkflowView(Stored(n), Served(n, "workflow", outage), outage.throws)
    IN  Accepted(v, IsRunWorkflowView(v))

ArtifactsOf(n, outage) ==
    RunArtifactsView(Stored(n), Served(n, "artifacts", outage), outage.throws)

(* The summary the BFF answers a poll with. *)
SummaryOf(n) ==
    [status |-> orch[n].status, productMode |-> "live",
     final |-> orch[n].art.workflow.final,
     failure |-> orch[n].art.workflow.failure,
     trust |-> orch[n].art.stored.trust]

-----------------------------------------------------------------------------
(* The store *)

NoRunState ==
    [phase |-> "idle", run |-> Null, error |-> Null, summary |-> Null,
     gen |-> Null, files |-> Null, bt |-> Null, ev |-> Null,
     progress |-> Null, workflow |-> Null, artifacts |-> Null,
     artifactsError |-> FALSE, prev |-> Null]

(* A state with a summary only is not worth a snapshot: the last run with  *)
(* artefacts stays.                                                        *)
SnapshotHistoricalRun(t) ==
    IF t.run = Null \/ {t.gen, t.files, t.bt, t.ev} = {Null}
    THEN t.prev
    ELSE [run |-> t.run, phase |-> t.phase, summary |-> t.summary,
          gen |-> t.gen, files |-> t.files, bt |-> t.bt, ev |-> t.ev,
          progress |-> t.progress, workflow |-> t.workflow]

(* The poll effect follows the run and the phase: a change of either ends  *)
(* the loop, whose late answers are dropped, and a running run starts one. *)
PollEffect(t, u) ==
    IF t.run = u.run /\ t.phase = u.phase THEN poller
    ELSE IF u.run # Null /\ u.phase \in {"starting", "running"}
    THEN [step |-> "asking", errors |-> 0]
    ELSE Idle

(* Mutant of StillRecording: the late hash of an earlier run is kept. *)
AllRecording(pending, t) == pending

(* The hash of a run that is no longer on show is dropped when it comes. *)
StillRecording(pending, t) == pending \cap {DisplayedRun(t)}

(* Every change of the store, with the effects that follow it. *)
SetState(u) ==
    /\ s' = u
    /\ poller' = PollEffect(s, u)
    /\ recording' = StillRecording(recording, u)

Init ==
    /\ orch = [n \in Runs |-> [status |-> "none", art |-> Null, asked |-> 0]]
    /\ s = NoRunState
    /\ active = 0
    /\ starts = {}
    /\ poller = Idle
    /\ detached = {}
    /\ calls = {}
    /\ recording = {}
    /\ history = Null
    /\ explained = [asked |-> Null, data |-> Null]
    /\ acts = 0

(* startTransform: everything of the old run goes but the snapshot of it.  *)
StartTransform ==
    /\ active < MaxRuns
    /\ active' = active + 1
    /\ starts' = starts \cup {active + 1}
    /\ SetState([NoRunState EXCEPT !.phase = "starting",
                                   !.prev = SnapshotHistoricalRun(s)])
    /\ UNCHANGED <<orch, detached, calls, history, explained, acts>>

(* startGenerate mirrors it, on the same request counter; its answers are   *)
(* StartFails and StartAnswered too.                                       *)
StartGenerate == StartTransform

Created == {n \in Runs : orch[n].status # "none"}
NextRun == Cardinality(Created) + 1
RunOf(q) == CHOOSE n \in Created : orch[n].asked = q
IsCreated(q) == \E n \in Created : orch[n].asked = q

(* The backend creates the run a request asks for; it may be over before   *)
(* the answer is back.                                                     *)
BackendStarts(q) ==
    /\ q \in starts /\ ~IsCreated(q)
    /\ orch' = [orch EXCEPT ![NextRun] =
                  [status |-> "updating", art |-> AtWork, asked |-> q]]
    /\ UNCHANGED <<s, active, starts, poller, detached, calls, recording,
                   history, explained, acts>>

OrchestratorFinishes(n, outcome) ==
    /\ orch[n].status = "updating"
    /\ orch' = [orch EXCEPT ![n].status = outcome.status,
                            ![n].art = outcome.art]
    /\ UNCHANGED <<s, active, starts, poller, detached, calls, recording,
                   history, explained, acts>>

(* A start that fails, whether or not the backend created the run; the     *)
(* answer of a superseded request is dropped.                              *)
StartFails(q, error) ==
    /\ q \in starts
    /\ starts' = starts \ {q}
    /\ IF q = active
       THEN SetState([s EXCEPT !.phase = "failed", !.error = error])
       ELSE UNCHANGED <<s, poller, recording>>
    /\ UNCHANGED <<orch, active, detached, calls, history, explained, acts>>

(* A run that is over when its start is answered is hydrated at once, by a *)
(* promise no effect owns.                                                 *)
StartAnswered(q) ==
    LET n    == RunOf(q)
        over == orch[n].status \in Terminal
    IN  /\ q \in starts /\ IsCreated(q)
        /\ starts' = starts \ {q}
        /\ IF q = active
           THEN /\ SetState([s EXCEPT !.phase = IF over THEN orch[n].status
                                                ELSE "running",
                                      !.run = n, !.error = Null,
                                      !.summary = SummaryOf(n)])
                /\ detached' = IF over
                               THEN detached \cup {[run |-> n,
                                                    terminal |-> orch[n].status]}
                               ELSE detached
           ELSE UNCHANGED <<s, poller, recording, detached>>
        /\ UNCHANGED <<orch, active, calls, history, explained, acts>>

-----------------------------------------------------------------------------
(* Polling *)

(* A view that was not served keeps the one before it. *)
HydrateRunObservability(t, n, outage) ==
    [t EXCEPT !.progress = Or(ProgressOf(n, outage), @),
              !.workflow = Or(WorkflowOf(n, outage), @)]

(* The phase a hydration ends in. *)
HydratedPhase(t, terminal, views) ==
    CASE terminal = "failed" \/ (t.summary # Null /\ t.summary.status = "failed") ->
           "failed"
      [] terminal # "failed" /\ (t.summary = Null \/ t.summary.status # "failed")
         /\ Null \in views -> "incomplete"
      [] OTHER -> "completed"

(* The nine views of a finished run, fetched together. *)
HydratedViews(t, n, gen, files, bt, ev, arts, terminal, outage) ==
    [HydrateRunObservability(t, n, outage) EXCEPT
       !.gen = gen, !.files = files, !.bt = bt, !.ev = ev,
       !.artifacts = IF arts = Absent THEN Null ELSE arts,
       !.artifactsError = arts = Absent,
       !.phase = HydratedPhase(t, terminal, {gen, files, bt, ev})]

(* Mutant of HydrateRunArtifacts: the run is not compared again. *)
HydrateUnchecked(t, n, terminal, outage) ==
    HydratedViews(t, n, GeneratedOf(n, outage), FilesOf(n, outage),
                  BuildTestOf(n, outage), EvidenceOf(n, outage),
                  ArtifactsOf(n, outage), terminal, outage)

(* Mutant of HydrateRunArtifacts: an incomplete set of views is not final. *)
HydrateWithoutEnd(t, n, terminal, outage) ==
    IF t.run # n THEN t
    ELSE LET u == HydrateUnchecked(t, n, terminal, outage)
         IN  IF u.phase = "incomplete" THEN [u EXCEPT !.phase = t.phase] ELSE u

HydrateRunArtifacts(t, n, terminal, outage) ==
    IF t.run # n THEN t
    ELSE HydratedViews(t, n, GeneratedOf(n, outage), FilesOf(n, outage),
                       BuildTestOf(n, outage), EvidenceOf(n, outage),
                       ArtifactsOf(n, outage), terminal, outage)

(* A step of the loop that leaves the run and the phase as they are. *)
PollStep(step, errors, u) ==
    /\ poller.step = step.from
    /\ s' = u
    /\ poller' = [step |-> step.to, errors |-> errors]
    /\ recording' = StillRecording(recording, u)
    /\ UNCHANGED <<orch, active, starts, detached, calls, history, explained,
                   acts>>

(* A step of the loop after which the run is no longer polled. *)
PollEnds(from, u) ==
    /\ poller.step = from
    /\ s' = u
    /\ poller' = Idle
    /\ recording' = StillRecording(recording, u)
    /\ UNCHANGED <<orch, active, starts, detached, calls, history, explained,
                   acts>>

(* The first 503 ends the polling, whatever becomes of the run. *)
PollUnavailable ==
    PollEnds("asking", [s EXCEPT !.phase = "unavailable", !.error = "other"])

PollFails ==
    IF poller.errors < MaxErrors
    THEN PollStep([from |-> "asking", to |-> "waiting"], poller.errors + 1, s)
    ELSE PollEnds("asking", [s EXCEPT !.phase = "failed", !.error = "other"])

(* The BFF may answer with a status it could not refresh. *)
PollAnswered(fresh) ==
    LET over == fresh /\ orch[s.run].status \in Terminal
    IN  /\ poller.step = "asking"
        /\ PollStep([from |-> "asking",
                     to   |-> IF over THEN "hydrating" ELSE "observing"], 0,
                    [s EXCEPT !.summary =
                       IF fresh THEN SummaryOf(s.run)
                       ELSE [SummaryOf(s.run) EXCEPT !.status = "updating",
                                                     !.final = Null,
                                                     !.failure = Null]])

Observed(outage) ==
    /\ poller.step = "observing"
    /\ PollStep([from |-> "observing", to |-> "waiting"], poller.errors,
                HydrateRunObservability(s, s.run, outage))

Hydrated(outage) ==
    /\ poller.step = "hydrating"
    /\ PollEnds("hydrating",
                HydrateRunArtifacts(s, s.run, s.summary.status, outage))

Timer == PollStep([from |-> "waiting", to |-> "asking"], poller.errors, s)

DetachedHydrated(d, outage) ==
    /\ d \in detached
    /\ detached' = detached \ {d}
    /\ SetState(HydrateRunArtifacts(s, d.run, d.terminal, outage))
    /\ UNCHANGED <<orch, active, starts, calls, history, explained, acts>>

-----------------------------------------------------------------------------
(* What the user does with a run *)

Act ==
    /\ s.run # Null /\ acts < MaxActs
    /\ acts' = acts + 1

SendCall(kind) ==
    /\ Act
    /\ calls' = calls \cup {[kind |-> kind, run |-> s.run]}
    /\ UNCHANGED <<orch, s, active, starts, poller, detached, recording,
                   history, explained>>

ExportParityEvidenceScaffold ==
    /\ s.ev # Null /\ ~ShowingHistoricalBuildTest(s)
    /\ SendCall("export")

(* The decision names the current run, also when the form is there for the *)
(* verdict of the run before.                                              *)
SubmitIntentionalDivergenceDecision ==
    /\ DecisionFormVisible(s)
    /\ SendCall("decision")

(* The answer counts only while its run is the current one. *)
CallAnswered(call, u) ==
    /\ call \in calls
    /\ calls' = calls \ {call}
    /\ IF call.run = s.run THEN SetState(u) ELSE UNCHANGED <<s, poller, recording>>
    /\ UNCHANGED <<active, starts, detached, history, explained, acts>>

ExportAnswered(call) ==
    /\ call.kind = "export"
    /\ CallAnswered(call, IF s.ev = Null THEN s
                          ELSE [s EXCEPT !.ev.exportRef = "scaffold"])
    /\ UNCHANGED orch

(* A decision is recorded only for a parity mismatch. *)
Documentable(n) ==
    orch[n].art.stored.trust \in {"parity_failed", "intentional_divergence"}

DecisionAnswered(call) ==
    LET trust == "intentional_divergence"
        known == IF s.summary = Null THEN s
                 ELSE [s EXCEPT !.summary.trust = trust]
    IN  /\ call.kind = "decision" /\ Documentable(call.run)
        /\ orch' = [orch EXCEPT ![call.run].art.stored.trust = trust,
                                ![call.run].art.workflow.trust = trust]
        /\ CallAnswered(call, IF s.workflow = Null THEN known
                              ELSE [known EXCEPT !.workflow.trust = trust])

CallFails(call) == CallAnswered(call, s) /\ UNCHANGED orch

(* Why did the output change: the current run against the preserved one.   *)
AskExplanation ==
    /\ s.prev # Null /\ explained.asked = Null
    /\ Act
    /\ explained' = [asked |-> <<s.run, s.prev.run>>, data |-> Null]
    /\ UNCHANGED <<orch, s, active, starts, poller, detached, calls,
                   recording, history>>

ExplanationArtifacts(n, outage) ==
    LoadOutputChangeRunArtifacts(
        Stored(n),
        LiveGeneratedView(Stored(n), Served(n, "gen", outage)),
        LiveBuildTestView(Stored(n), Served(n, "bt", outage), <<>>),
        LiveEvidenceView(Stored(n), Served(n, "ev", outage)))

(* The answer is kept with what was asked, whatever run is current now. *)
ExplanationAnswered(current, previous) ==
    LET runs == explained.asked
    IN  /\ runs # Null
        /\ explained' =
             [asked |-> Null,
              data  |-> [runs |-> runs,
                         lost |-> <<current.calls \cap {"gen", "ev"},
                                    previous.calls \cap {"gen", "ev"}>>,
                         answer |-> BuildOutputChangeExplanation(
                            ExplanationArtifacts(runs[1], current),
                            ExplanationArtifacts(runs[2], previous))]]
        /\ UNCHANGED <<orch, s, active, starts, poller, detached, calls,
                       recording, history, acts>>

ExplanationFails ==
    /\ explained.asked # Null
    /\ explained' = [explained EXCEPT !.asked = Null]
    /\ UNCHANGED <<orch, s, active, starts, poller, detached, calls,
                   recording, history, acts>>

-----------------------------------------------------------------------------
(* The Java diff history *)

(* The entry file of the run on show is there: its hash is computed (again *)
(* for a run that is recorded, to no effect).                              *)
FileShown ==
    /\ history # Null => history.current # DisplayedRun(s)
    /\ ArtifactSource(s).files # Null
    /\ DisplayedRun(s) \notin recording
    /\ recording' = recording \cup {DisplayedRun(s)}
    /\ UNCHANGED <<orch, s, active, starts, poller, detached, calls, history,
                   explained, acts>>

AppendJavaSnapshot(entry, n) ==
    CASE entry = Null -> [previous |-> Null, current |-> n]
      [] entry # Null /\ entry.current = n -> entry
      [] OTHER -> [previous |-> entry.current, current |-> n]

HashComputed(n) ==
    /\ n \in recording
    /\ recording' = recording \ {n}
    /\ history' = AppendJavaSnapshot(history, n)
    /\ UNCHANGED <<orch, s, active, starts, poller, detached, calls,
                   explained, acts>>

-----------------------------------------------------------------------------
Polling ==
    \/ PollUnavailable
    \/ PollFails
    \/ \E fresh \in BOOLEAN : PollAnswered(fresh)
    \/ \E outage \in Outages : Observed(outage)
    \/ \E outage \in Outages : Hydrated(outage)
    \/ Timer
    \/ \E d \in detached, outage \in Outages : DetachedHydrated(d, outage)

Answers ==
    \/ \E call \in calls : ExportAnswered(call)
    \/ \E call \in calls : DecisionAnswered(call)
    \/ \E call \in calls : CallFails(call)
    \/ \E current, previous \in Outages : ExplanationAnswered(current, previous)
    \/ ExplanationFails

Backend ==
    \/ \E q \in starts : BackendStarts(q)
    \/ \E n \in Created : \E outcome \in Outcomes[n] :
          OrchestratorFinishes(n, outcome)
    \/ \E q \in starts, error \in {"503", "400"} : StartFails(q, error)
    \/ \E q \in starts : StartAnswered(q)

Next ==
    \/ StartTransform \/ StartGenerate
    \/ Backend
    \/ Polling
    \/ ExportParityEvidenceScaffold
    \/ SubmitIntentionalDivergenceDecision
    \/ AskExplanation
    \/ Answers
    \/ FileShown
    \/ \E n \in recording : HashComputed(n)

(* The browser runs its timers, a fetch ends, the orchestrator ends every  *)
(* run, and among the polls that can be answered fresh some are.           *)
Fairness ==
    /\ WF_vars(Timer)
    /\ WF_vars(\E outage \in Outages : Observed(outage))
    /\ WF_vars(\E outage \in Outages : Hydrated(outage))
    /\ SF_vars(PollAnswered(TRUE))
    /\ WF_vars(\E n \in Created : \E outcome \in Outcomes[n] :
                 OrchestratorFinishes(n, outcome))

Spec == Init /\ [][Next]_vars /\ Fairness

-----------------------------------------------------------------------------
(* Properties *)

Views == {"gen", "files", "bt", "ev", "progress", "workflow"}

(* The store keeps its types: a phase it knows, a run the backend created, *)
(* a poll loop only for a run that is running.                             *)
TypeOK ==
    /\ s.phase \in {"idle", "starting", "running", "completed", "failed",
                    "incomplete", "unavailable"}
    /\ s.run \in Created \cup {Null}
    /\ s.error \in {Null, "503", "400", "other"}
    /\ poller.step \in {"off", "asking", "waiting", "observing", "hydrating"}
    /\ poller.errors \in 0 .. MaxErrors
    /\ poller.step # "off" => s.phase = "running"
    /\ active \in 0 .. MaxRuns /\ starts \subseteq 1 .. active
    /\ recording \subseteq Created
    /\ acts \in 0 .. MaxActs

(* What the orchestrator itself holds of a run that deserves the green     *)
(* light: real Java, a build that matched, complete evidence, all of the   *)
(* same artefact.                                                          *)
Earned(art) ==
    /\ art.workflow.final = "success"
    /\ art.gen.missing = {} /\ ~art.gen.placeholder
    /\ art.bt.missing = {} /\ art.bt.status = "ok"
    /\ art.bt.classification = "match"
    /\ art.ev.missing = {}
    /\ {art.bt.ref, art.ev.ref} \subseteq {art.gen.ref, Null}

(* The Studio says "success", or shows the Java as verified, only for a    *)
(* run that earned it, whatever calls failed and whichever run is on show: *)
(* deriveProductState and useGeneratedArtifacts over the views of the BFF. *)
GreenIsEarned ==
    /\ DeriveProductState(s) = "success" =>
          s.run # Null /\ Earned(orch[s.run].art)
    /\ ArtifactState(s) = "verified" => Earned(orch[DisplayedRun(s)].art)

Objections == {"error", "blocked"}

(* The stages on which a build and test view says nothing of its own.      *)
LeftToTheSteps(bt) ==
    {id \in {"java-build", "java-execution"} :
       bt[IF id = "java-build" THEN "compileStatus" ELSE "executionStatus"] =
         "unknown"}

(* When the product state is "success" no panel contradicts it: the        *)
(* problems panel lists at most a failed artefact index, the result card   *)
(* is green and no two references disagree.  A stage objects only by a     *)
(* step the orchestrator itself recorded as failed: in the pipeline, which *)
(* shows the records, the step of that name, and in the timeline the last  *)
(* step of a stage on which the build and test view is silent              *)
(* (deriveRunProblems, describeBuildTestResult, buildPipelineStages,       *)
(* buildTimelineStages).                                                   *)
PanelsAgreeOnGreen ==
    DeriveProductState(s) = "success" =>
      /\ DeriveRunProblems(s) \subseteq {"Artifacts Fetch Error",
                                         "Missing Artifact"}
      /\ "Missing Artifact" \in DeriveRunProblems(s) =>
            s.artifacts # Null /\ s.artifacts.missing # {}
      /\ DescribeBuildTestResult(s.bt, IsIntentionalDivergence(s)) = "success"
      /\ Cardinality(BuildArtifactAlignment(s).shas) <= 1
      /\ \A stage \in PipelineStages(s.bt, FALSE, s.progress) :
            stage.status \in Objections =>
              \E step \in orch[s.run].art.progress.steps :
                 step.name = stage.stage /\ step.status = "failed"
      /\ LET timeline == BuildTimelineStages(s)
         IN  \A id \in TimelineStageIds :
               timeline[id] \in Objections =>
                 /\ id \in LeftToTheSteps(s.bt)
                 /\ StageFromSteps(s.progress, id) = "error"

(* Every view in the store is a view of the store's run, and every view of *)
(* the snapshot is of the snapshot's run, although hydrations nobody       *)
(* cancels may end after the user started another run.                     *)
ViewsBelongToTheRun ==
    /\ \A v \in Views : s[v] # Null => s[v].run = s.run
    /\ s.prev # Null => \A v \in Views : s.prev[v] # Null =>
                                            s.prev[v].run = s.prev.run

(* The diff history never shows a newer run as the previous one: a hash    *)
(* that is late does not come in after the hash of a later run.            *)
HistoryInOrder ==
    history # Null /\ history.previous # Null =>
        history.previous < history.current

(* The expected-against-actual table loses and invents no line: without    *)
(* the added rows it is the expected output, without the removed rows the  *)
(* actual one (buildOutputDiff, both ways of comparing).  It depends on    *)
(* no variable, and is evaluated for all texts of Outputs before the first *)
(* run.                                                                    *)
DiffIsFaithful ==
    active = 0 =>
      \A expected, actual \in Outputs :
        With(OutputDiff(expected, actual),
             LAMBDA rows : /\ TextWithout("added", rows) = expected
                           /\ TextWithout("removed", rows) = actual)

(* What the BFF makes of an object with up to two damaged fields is read   *)
(* by the Studio, except for the fractions, negative numbers and unknown   *)
(* words that the BFF lets through and the Studio refuses, which are named *)
(* one by one (runViews.ts and diagnostics.ts against apiClient.ts).  And  *)
(* the other way: every event the Studio's telemetry lets through passes   *)
(* the validator of the BFF, which refuses a whole batch for one event,    *)
(* and the Studio holds back none that would pass (editorTelemetry.ts of   *)
(* both).  It depends on no variable: evaluated before the first run.      *)
AnswersAreReadable ==
    active = 0 =>
      /\ RefsRead /\ DiagnosticsRead /\ ProgressReads
      /\ WorkflowReads /\ AnswersRead /\ ServicesRead /\ OverlaysRead
      /\ EventsAreAccepted

(* The trust cases and the fixtures behind them are served only as a whole *)
(* that fits together (trust-cases.ts, acceptance-fixtures.ts, and the     *)
(* routes of server.ts that answer from them); evaluated before the first  *)
(* run, like the one above.                                                *)
TrustCasesAreConsistent == active = 0 => CatalogIsConsistent

(* An output change is explained only from two completed runs whose        *)
(* evidence was served, and a COBOL edit is named as the single cause only *)
(* if the sources differ or one of the generated views was not served.     *)
ExplainedOnlyFromEvidence ==
    LET data == explained.data
    IN  data # Null /\ data.answer.status = "available" =>
          /\ \A i \in 1 .. 2 : /\ orch[data.runs[i]].status = "completed"
                               /\ "ev" \notin data.lost[i]
          /\ data.answer.primary = "cobol_edit" =>
               \/ \E i \in 1 .. 2 : "gen" \in data.lost[i]
               \/ orch[data.runs[1]].art.gen.source #
                  orch[data.runs[2]].art.gen.source

(* Polling always ends: a running run is left in some terminal phase,      *)
(* however many polls fail in between and whatever views are missing.      *)
PollingEnds == s.phase = "running" ~> s.phase # "running"
=============================================================================
