---------------------------- MODULE StudioPanels ----------------------------
(***************************************************************************)
(* What the Studio makes of the views it fetched: the contract checks of   *)
(* its API client (apps/c2c-studio/src/lib/apiClient.ts), the product      *)
(* state (types/state.ts), the state of the generated artefacts            *)
(* (hooks/useGeneratedArtifacts.ts) and the panels of a run                *)
(* (components/run/runPanelUtils.ts, types/design.ts).  Pure operators     *)
(* over the run state s the store keeps; a view that was not accepted is   *)
(* Null.                                                                   *)
(***************************************************************************)
EXTENDS BffViews

-----------------------------------------------------------------------------
(* The contract checks.  A reference may be Null but not Absent. *)

IsRunStatus(status) == status \in {"starting", "updating", "completed", "failed"}

IsGeneratedView(v) ==
    /\ v.status \in {"generated", "unsupported", "skipped", "incomplete"}
    /\ v.artifactRef # Absent

IsGeneratedFilesIndex(v) ==
    /\ v.status \in {"complete", "incomplete"}
    /\ v.fileCount # Absent
    /\ v.artifactRef # Absent

IsBuildTestView(v) ==
    /\ v.status \in AllowedStatus \cup {"incomplete"}
    /\ v.classification \in AllowedClassification
    /\ v.compileStatus \in {"ok", "failed", "skipped", "unknown"}
    /\ v.executionStatus \in {"ok", "failed", "skipped", "not-run", "unknown"}
    /\ v.generatedArtifactRef # Absent

IsEvidenceView(v) ==
    /\ v.status \in {"complete", "incomplete", "invalid"}
    /\ v.validationStatus \in {"valid", "invalid", "incomplete", "unknown"}
    /\ v.generatedArtifactRef # Absent

IsRunProgressView(v) ==
    /\ v.status \in {"complete", "incomplete"}
    /\ IsRunStatus(v.runStatus)
    /\ \A step \in v.steps : step.status \in PipelineStepStatuses

IsRunWorkflowView(v) ==
    /\ v.source \in {"live", "cached", "unavailable"}
    /\ v.final \in {Null, "success", "blocked", "failed", "cancelled",
                    "incomplete"}
    /\ v.agent \in {Null, "transformation_agent", "verification_repair_agent",
                    "build_test_runner", "evidence_service"}

(* A call that failed, was refused by the BFF or breaks the contract has   *)
(* no data.                                                                *)
Accepted(v, readable) == IF v # Absent /\ readable THEN v ELSE Null

-----------------------------------------------------------------------------
(* The product state *)

(* The first operand that is there. *)
Or(a, b) == IF a # Null THEN a ELSE b

Final(s)   == Or(IF s.workflow = Null THEN Null ELSE s.workflow.final,
                 IF s.summary = Null THEN Null ELSE s.summary.final)
Failure(s) == Or(IF s.workflow = Null THEN Null ELSE s.workflow.failure,
                 IF s.summary = Null THEN Null ELSE s.summary.failure)
TrustOf(s) == Or(IF s.summary = Null THEN Null ELSE s.summary.trust,
                 IF s.workflow = Null THEN Null ELSE s.workflow.trust)

IsIntentionalDivergence(s) == TrustOf(s) = "intentional_divergence"

FailureCodeToState(code) ==
    CASE code = "unsupported_cobol" -> "unsupported"
      [] code \in {"model_gateway_unavailable", "model_policy_denied"} ->
           "blocked"
      [] code \in {"java_compile_failed", "java_runtime_failed"} ->
           "build-failed"
      [] code = "oracle_mismatch"        -> "equivalence-mismatch"
      [] code = "evidence_incomplete"    -> "evidence-incomplete"
      [] code = "cancelled"              -> "cancelled"
      [] code = "generate_only_complete" -> "generated-pending"
      [] code = "service_unavailable"    -> "backend-unavailable"
      [] OTHER                           -> "failed"

ActiveAgentToState(agent) ==
    CASE agent = "transformation_agent"      -> "awaiting-agent"
      [] agent = "verification_repair_agent" -> "repairing"
      [] agent \in {"build_test_runner", "evidence_service"} -> "verifying"
      [] OTHER -> Null

RefOf(view, field) == IF view = Null THEN Null ELSE view[field]

HasUnavailableProductMode(s) ==
    \E v \in {s.summary, s.gen, s.files, s.bt, s.ev} \ {Null} :
       v.productMode = "unavailable"

(* A digest that is not there cannot disagree. *)
HashMismatch(s) ==
    LET generated == RefOf(s.gen, "artifactRef")
    IN  generated # Null
        /\ \/ RefOf(s.bt, "generatedArtifactRef") \notin {Null, generated}
           \/ RefOf(s.ev, "generatedArtifactRef") \notin {Null, generated}

GeneratedMissing(s) ==
    s.gen.missing \cup (IF s.files = Null THEN {} ELSE s.files.missing)

(* Mutant of ViewVerdict: missing artefacts are not looked at. *)
ViewVerdictWithoutMissing(s) ==
    IF s.phase = "incomplete" THEN "generated-incomplete" ELSE Null

(* The part of the verdict that reads the views, in the order of the      *)
(* checks; Null when no view objects.                                      *)
ViewVerdict(s) ==
    IF s.gen # Null /\ s.gen.status = "unsupported" THEN "unsupported"
    ELSE IF s.gen # Null /\ \/ s.gen.status = "incomplete"
                            \/ (s.files # Null /\ s.files.status = "incomplete")
                            \/ GeneratedMissing(s) # {}
    THEN "generated-incomplete"
    ELSE IF s.gen = Null /\ s.phase = "completed" THEN "generated-pending"
    ELSE IF s.phase = "incomplete" THEN "generated-incomplete"
    ELSE IF s.bt # Null /\ \/ s.bt.status \in {"compile-failed", "run-failed"}
                           \/ s.bt.classification \in {"compile-error", "run-error"}
    THEN "build-failed"
    ELSE IF s.bt # Null /\ s.bt.classification \in
                             {"divergence-known-w0-coverage-gap",
                              "divergence-unknown"}
    THEN "equivalence-mismatch"
    ELSE IF s.bt # Null /\ s.bt.status = "incomplete" THEN "build-failed"
    ELSE IF s.ev # Null /\ (s.ev.status = "incomplete" \/ s.ev.missing # {})
    THEN "evidence-incomplete"
    ELSE IF HashMismatch(s) THEN "hash-mismatch"
    ELSE Null

DeriveProductState(s) ==
    LET final == Final(s)
        code  == Failure(s)
    IN  IF s.error = "503" THEN "backend-unavailable"
        ELSE IF s.error = "400" THEN "validation-error"
        ELSE IF s.phase = "idle" THEN "empty"
        ELSE IF s.phase = "unavailable" THEN "backend-unavailable"
        ELSE IF "cancelled" \in {final, code} THEN "cancelled"
        ELSE IF final \in {"blocked", "failed", "incomplete"} /\ code # Null
        THEN FailureCodeToState(code)
        ELSE IF final = "incomplete" THEN "evidence-incomplete"
        ELSE IF final \in {"blocked", "failed"} THEN final
        ELSE IF /\ HasUnavailableProductMode(s)
                /\ s.phase \notin {"completed", "failed", "incomplete"}
        THEN "upstream-unavailable"
        ELSE IF s.phase \in {"starting", "running"}
        THEN Or(ActiveAgentToState(IF s.workflow = Null THEN Null
                                   ELSE s.workflow.agent),
                IF s.phase = "starting" THEN "submitting" ELSE "running")
        ELSE IF s.phase = "completed" /\ IsIntentionalDivergence(s)
        THEN "equivalence-mismatch"
        ELSE IF ViewVerdict(s) # Null THEN ViewVerdict(s)
        ELSE IF \/ s.phase = "failed"
                \/ (s.summary # Null /\ s.summary.status = "failed")
        THEN IF code # Null THEN FailureCodeToState(code) ELSE "failed"
        ELSE IF s.phase = "completed"
        THEN IF /\ final = "success"
                /\ s.bt # Null /\ s.bt.status = "ok"
                /\ s.ev # Null /\ s.ev.status = "complete"
             THEN "success" ELSE "failed"
        ELSE "empty"

-----------------------------------------------------------------------------
(* The generated artefacts on show *)

(* While a new run has nothing to show, the last run with artefacts is     *)
(* shown.                                                                  *)
ShowingHistoricalArtifacts(s) ==
    /\ s.prev # Null
    /\ s.gen = Null /\ s.files = Null
    /\ s.phase \in {"starting", "running", "failed", "unavailable"}

ArtifactSource(s) == IF ShowingHistoricalArtifacts(s) THEN s.prev ELSE s

DisplayedRun(s) == ArtifactSource(s).run

(* The build and test panel decides this for itself, by its own view. *)
ShowingHistoricalBuildTest(s) ==
    /\ s.prev # Null /\ s.prev.bt # Null
    /\ s.bt = Null
    /\ s.phase \in {"starting", "running", "failed", "unavailable"}

(* The form for a divergence decision is there for the verdict on show,    *)
(* which may be the one of the run before.                                 *)
DecisionFormVisible(s) ==
    LET shown == IF ShowingHistoricalBuildTest(s) THEN s.prev ELSE s
    IN  /\ shown.summary # Null
        /\ \/ TrustOf(shown) = "intentional_divergence"
           \/ /\ shown.bt # Null
              /\ shown.bt.classification \in
                   {"divergence-known-w0-coverage-gap", "divergence-unknown"}

(* The digests are compared as they are: two that are both missing agree. *)
ArtifactState(s) ==
    LET a    == ArtifactSource(s)
        live == ~ShowingHistoricalArtifacts(s)
    IN  IF s.phase = "idle" \/ a.run = Null THEN "idle"
        ELSE IF live /\ s.phase \in {"starting", "running"} THEN "pending"
        ELSE IF a.gen = Null THEN "pending"
        ELSE IF a.gen.status \in {"unsupported", "incomplete"} THEN a.gen.status
        ELSE IF a.files = Null THEN "pending"
        ELSE IF a.files.status = "incomplete" THEN "incomplete"
        ELSE IF live /\ s.phase = "incomplete" THEN "incomplete"
        ELSE IF live /\ s.phase \in {"failed", "unavailable"}
        THEN "failed-verification"
        ELSE IF Null \in {a.bt, a.ev} THEN "generated"
        ELSE IF /\ a.bt.status = "ok"
                /\ a.ev.status = "complete"
                /\ a.gen.artifactRef = a.bt.generatedArtifactRef
                /\ a.gen.artifactRef = a.ev.generatedArtifactRef
        THEN IF Final(a) = "success" THEN "verified" ELSE "generated"
        ELSE "failed-verification"

-----------------------------------------------------------------------------
(* The panels of a run.  Tones are success, warning, error, blocked,       *)
(* pending, neutral and incomplete.                                        *)

BuildTestClassificationVariant(classification) ==
    CASE classification = "match" -> "success"
      [] classification = "skipped-no-execution" -> "neutral"
      [] classification \in {"divergence-known-w0-coverage-gap",
                             "true-golden-master-reproduction-error",
                             "true-golden-master-mismatch"} -> "warning"
      [] OTHER -> "error"

(* The result card grades golden-master trouble harder than the chip. *)
DescribeBuildTestResult(bt, intentional) ==
    CASE bt = Null -> "pending"
      [] bt # Null /\ intentional -> "warning"
      [] OTHER ->
           CASE bt.classification = "match" -> "success"
             [] bt.classification \in {"divergence-known-w0-coverage-gap",
                                       "compile-error", "run-error"} -> "warning"
             [] bt.classification = "skipped-no-execution" -> "neutral"
             [] OTHER -> "error"

BuildArtifactAlignment(s) ==
    LET refs == {RefOf(s.gen, "artifactRef"),
                 RefOf(s.bt, "generatedArtifactRef"),
                 RefOf(s.ev, "generatedArtifactRef")}
    IN  [aligned |-> Null \notin refs /\ Cardinality(refs) = 1,
         shas    |-> refs \ {Null}]

ProgressStepStatus(status) ==
    CASE status = "ok"      -> "success"
      [] status = "failed"  -> "error"
      [] status = "skipped" -> "neutral"
      [] OTHER              -> "pending"

(* The four classic stages stand in until there is a step to show. *)
PipelineStages(bt, pending, progress) ==
    LET halted  == bt.status \in {"missing-golden-master", "skipped",
                                  "golden-master-reproduction-failed"}
        compile == "compile-failed" = bt.status
                   \/ bt.classification = "compile-error"
        runtime == "run-failed" = bt.status \/ bt.classification = "run-error"
    IN  CASE progress # Null /\ progress.steps # {} ->
               {[stage |-> step.name, status |-> ProgressStepStatus(step.status)] :
                   step \in progress.steps}
          [] (progress = Null \/ progress.steps = {}) /\ (pending \/ bt = Null) ->
               [stage : {"oracle", "compilation", "execution", "equivalence"},
                status : {"pending"}]
          [] OTHER ->
               {[stage |-> "oracle", status |->
                   CASE bt.status = "missing-golden-master" -> "blocked"
                     [] bt.status = "golden-master-reproduction-failed" -> "error"
                     [] OTHER -> "success"],
                [stage |-> "compilation", status |->
                   IF halted THEN "blocked"
                   ELSE IF compile THEN "error" ELSE "success"],
                [stage |-> "execution", status |->
                   IF halted \/ compile THEN "blocked"
                   ELSE IF runtime THEN "error" ELSE "success"],
                [stage |-> "equivalence", status |->
                   IF bt.classification \in {"compile-error", "run-error"}
                   THEN "blocked"
                   ELSE BuildTestClassificationVariant(bt.classification)]}

TimelineStageIds ==
    {"transform", "source-reference", "java-build", "java-execution",
     "output-normalization", "parity-comparison", "verification-repair",
     "evidence-capture"}

(* The code looks for parts of a name in this order: "oracle" and          *)
(* "source-reference" before "compile", "execution", "comparison",         *)
(* "repair" and "evidence".  These are the names a run's log can hold:     *)
(* java-build, transform and transformation-agent have no stage.           *)
ProgressStepStage(name) ==
    CASE name \in {"accepted", "parse-cobol", "generate-ir", "generate-java",
                   "model-guidance", "model-policy-skipped"} -> "transform"
      [] name = "source-reference-execution" -> "source-reference"
      [] name = "compile-test-java"          -> "java-build"
      [] name = "java-execution"             -> "java-execution"
      [] name = "parity-comparison"          -> "parity-comparison"
      [] name = "verification-repair-agent"  -> "verification-repair"
      [] name \in {"write-evidence", "parity-evidence-capture"} ->
           "evidence-capture"
      [] OTHER                               -> Null

(* What the steps alone say: the last step of a stage, by its number. *)
StageFromSteps(progress, id) ==
    LET steps == IF progress = Null THEN {}
                 ELSE {step \in progress.steps : ProgressStepStage(step.name) = id}
        last  == CHOOSE step \in steps : \A other \in steps : other.id <= step.id
    IN  IF steps = {} THEN "pending" ELSE ProgressStepStatus(last.status)

(* What the build and test view makes of a stage. *)
StageFromBuildTest(bt, id, known) ==
    LET barred == bt.classification \in {"compile-error", "run-error"}
    IN  CASE id = "java-build" ->
               CASE bt.compileStatus = "ok"      -> "success"
                 [] bt.compileStatus = "failed"  -> "error"
                 [] bt.compileStatus = "skipped" -> "blocked"
                 [] OTHER                        -> known
          [] id = "java-execution" ->
               CASE bt.executionStatus = "ok"     -> "success"
                 [] bt.executionStatus = "failed" -> "error"
                 [] bt.executionStatus \in {"skipped", "not-run"} -> "blocked"
                 [] OTHER                         -> known
          [] id = "output-normalization" ->
               IF bt.outputRefs # {} THEN "success"
               ELSE IF barred THEN "blocked" ELSE known
          [] id = "parity-comparison" ->
               IF barred THEN "blocked"
               ELSE BuildTestClassificationVariant(bt.classification)
          [] id = "source-reference" ->
               CASE bt.status = "missing-golden-master" -> known
                 [] bt.status = "golden-master-reproduction-failed" -> "error"
                 [] OTHER -> "success"
          [] OTHER -> known

StageFromWorkflow(workflow, known) ==
    CASE workflow.agent = "verification_repair_agent" -> "pending"
      [] workflow.agent # "verification_repair_agent" /\ workflow.repairs > 0 ->
           IF workflow.final = "success" THEN "success" ELSE "warning"
      [] OTHER -> IF workflow.final = "cancelled" THEN "neutral" ELSE known

StageFromEvidence(ev) ==
    CASE ev.status = "complete" -> "success"
      [] ev.status = "invalid"  -> "blocked"
      [] OTHER                  -> "warning"

(* A cancelled run leaves no stage waiting. *)
BuildTimelineStages(s) ==
    LET Stage(id) ==
          LET steps == StageFromSteps(s.progress, id)
              built == IF s.bt = Null THEN steps
                       ELSE StageFromBuildTest(s.bt, id, steps)
          IN  CASE id = "verification-repair" /\ s.workflow # Null ->
                     StageFromWorkflow(s.workflow, built)
                [] id = "evidence-capture" /\ s.ev # Null ->
                     StageFromEvidence(s.ev)
                [] OTHER -> built
        cancelled == s.workflow # Null /\ s.workflow.final = "cancelled"
    IN  [id \in TimelineStageIds |->
           IF cancelled /\ Stage(id) = "pending" THEN "neutral" ELSE Stage(id)]

(* Everything the problems panel lists. *)
DeriveRunProblems(s) ==
    LET Missing(v) == IF v = Null THEN {} ELSE v.missing
    IN  {"Unsupported Feature" : x \in IF s.gen = Null THEN {}
                                       ELSE s.gen.unsupported} \cup
        {"Missing Artifact" : x \in Missing(s.gen) \cup Missing(s.files)
                                    \cup Missing(s.ev) \cup Missing(s.artifacts)}
        \cup (IF s.bt # Null /\ s.bt.status # "ok"
              THEN {"Build/Test Failure"} ELSE {})
        \cup (IF s.bt # Null /\ s.bt.classification \in
                   {"divergence-known-w0-coverage-gap", "divergence-unknown",
                    "true-golden-master-reproduction-error",
                    "true-golden-master-mismatch"}
              THEN {"Mismatch"} ELSE {})
        \cup (IF s.ev # Null /\ s.ev.status # "complete"
              THEN {"Evidence"} ELSE {})
        \cup (IF s.artifactsError THEN {"Artifacts Fetch Error"} ELSE {})
        \cup (IF Cardinality(BuildArtifactAlignment(s).shas) > 1
              THEN {"Artifact Reference Mismatch"} ELSE {})
=============================================================================
