------------------------------ MODULE BffViews ------------------------------
(***************************************************************************)
(* The views the BFF serves of a run (services/c2c-bff/src: server.ts,     *)
(* runViews.ts, outputChangeExplanation.ts): what the browser is told when *)
(* the orchestrator answers with an envelope, and what it is told when the *)
(* run has no live id, the orchestrator is off, answers with an error or   *)
(* does not answer.  A reference to an artefact is its digest; a field a   *)
(* view does not have at all is Absent, which is not the same as Null to   *)
(* the Studio that reads it.                                               *)
(*                                                                         *)
(* A run r is [id, status, trust, digest] as the run store keeps it, an    *)
(* envelope is a record of the orchestrator's answer, or Unserved.         *)
(***************************************************************************)
EXTENDS Naturals, Sequences, FiniteSets

CONSTANTS Null, Absent, Unserved

-----------------------------------------------------------------------------
(* Generated Java *)

(* What a run that misses artefacts is called depends on how it ended. *)
ClassifyGeneratedStatus(missing, runStatus) ==
    IF missing = {} THEN "generated"
    ELSE IF runStatus = "failed" THEN "unsupported"
    ELSE "skipped"

(* What is told of a run without the artefact: incomplete, in a 200. *)
IncompleteGeneratedView(r) ==
    [run |-> r.id, productMode |-> "live", status |-> "incomplete",
     missing |-> {"generation-response"}, artifactRef |-> Absent,
     sourceHash |-> Absent, unsupported |-> {}]

(* Mutant of LiveGeneratedView: a placeholder passes for generated Java. *)
LiveGeneratedViewAsIs(r, up) ==
    IF up = Unserved
    THEN IncompleteGeneratedView(r)
    ELSE [run |-> r.id, productMode |-> "live",
          status |-> ClassifyGeneratedStatus(up.missing, up.runStatus),
          missing |-> up.missing, artifactRef |-> up.ref,
          sourceHash |-> up.source, unsupported |-> up.unsupported]

LiveGeneratedView(r, up) ==
    IF up = Unserved
    THEN IncompleteGeneratedView(r)
    ELSE LET status == ClassifyGeneratedStatus(up.missing, up.runStatus)
             hit    == status = "generated" /\ up.placeholder
         IN  [run         |-> r.id,
              productMode |-> IF status = "generated" /\ ~hit
                              THEN "live" ELSE "unavailable",
              status      |-> IF hit THEN "incomplete" ELSE status,
              missing     |-> up.missing \cup
                              IF hit THEN {"real-generated-java"} ELSE {},
              artifactRef |-> up.ref,
              sourceHash  |-> up.source,
              unsupported |-> up.unsupported]

(* The index is not served by the shared incomplete envelope: it says      *)
(* "unavailable", and an exception is a 502 (Absent for the whole view).   *)
GeneratedFilesIndex(r, up, throws) ==
    CASE up = Unserved /\ throws  -> Absent
      [] up = Unserved /\ ~throws ->
           [run |-> r.id, productMode |-> "unavailable",
            status |-> "incomplete", missing |-> {"generated-project"},
            files |-> {}, fileCount |-> Absent, artifactRef |-> Absent]
      [] OTHER ->
           [run |-> r.id, productMode |-> "live", status |-> up.status,
            missing |-> up.missing, files |-> up.files,
            fileCount |-> Cardinality(up.files), artifactRef |-> up.ref]

-----------------------------------------------------------------------------
(* Build and test *)

AllowedStatus ==
    {"ok", "compile-failed", "run-failed", "output-divergence",
     "golden-master-reproduction-failed", "missing-golden-master", "skipped"}

AllowedClassification ==
    {"match", "divergence-known-w0-coverage-gap", "divergence-unknown",
     "true-golden-master-reproduction-error", "true-golden-master-mismatch",
     "compile-error", "run-error", "skipped-no-execution"}

(* A status or a classification outside the lists reads as the good one. *)
ClassifyBuildTestStatus(missing, runStatus, status, classification) ==
    CASE missing # {} /\ runStatus = "failed" ->
           [status |-> "run-failed", classification |-> "run-error"]
      [] missing # {} /\ runStatus # "failed" ->
           [status |-> "skipped", classification |-> "skipped-no-execution"]
      [] OTHER ->
           [status |-> IF status \in AllowedStatus THEN status ELSE "ok",
            classification |-> IF classification \in AllowedClassification
                               THEN classification ELSE "match"]

(* The runner's own word on the build wins over the status. *)
DeriveCompileStatus(build, status) ==
    IF build # Null THEN build
    ELSE IF status = "compile-failed" THEN "failed"
    ELSE IF status = "skipped" THEN "skipped"
    ELSE "unknown"

DeriveExecutionStatus(execution, status) ==
    IF execution = "did-not-run"
    THEN IF status = "skipped" THEN "skipped" ELSE "not-run"
    ELSE IF execution \notin {"did-not-run", Null} THEN execution
    ELSE IF status = "run-failed" THEN "failed"
    ELSE IF status = "skipped" THEN "skipped"
    ELSE IF status = "compile-failed" THEN "not-run"
    ELSE "unknown"

(* A result without an output reads as the empty output, never as none. *)
DeriveActualOutput(data) == IF data.actual = Null THEN <<>> ELSE data.actual

(* Without an expected output of its own the sample's one stands in. *)
DeriveExpectedOutput(data, sample) ==
    IF data.expected = Null THEN sample ELSE data.expected

(* The legacy comparison record wins over the comparison result. *)
DeriveComparisonOutputRef(legacy, result) ==
    IF legacy # Null THEN legacy ELSE result

NormalizeParityComparison(up) ==
    IF up.matched = Null /\ up.diffRef = Null
    THEN Null
    ELSE [matched |-> up.matched, diffRef |-> up.diffRef]

LiveBuildTestView(r, up, sample) ==
    IF up = Unserved
    THEN [run |-> r.id, productMode |-> "live", status |-> "incomplete",
          missing |-> {"build-test-result"},
          classification |-> "skipped-no-execution",
          compileStatus |-> "unknown", executionStatus |-> "unknown",
          expected |-> sample, actual |-> <<>>, comparison |-> Absent,
          outputRefs |-> {}, generatedArtifactRef |-> Absent]
    ELSE LET c == ClassifyBuildTestStatus(up.missing, up.runStatus,
                                          up.status, up.classification)
         IN  [run             |-> r.id,
              productMode     |-> IF c.status = "ok" THEN "live"
                                  ELSE "unavailable",
              status          |-> c.status,
              missing         |-> up.missing,
              classification  |-> c.classification,
              compileStatus   |-> DeriveCompileStatus(up.build, c.status),
              executionStatus |-> DeriveExecutionStatus(up.execution, c.status),
              expected        |-> DeriveExpectedOutput(up, sample),
              actual          |-> DeriveActualOutput(up),
              comparison      |-> NormalizeParityComparison(up),
              outputRefs      |-> {DeriveComparisonOutputRef(up.legacyRef,
                                                             up.resultRef)}
                                  \ {Null},
              generatedArtifactRef |-> up.ref]

-----------------------------------------------------------------------------
(* Evidence *)

DeriveValidationStatus(up) ==
    CASE up.validation \in {"valid", "invalid", "incomplete"} -> up.validation
      [] up.validation = "unnamed" ->
           IF up.validationMissing # {} THEN "incomplete" ELSE "valid"
      [] OTHER -> \* no validation record: the manifest's own status
           CASE up.manifest = "complete" -> "valid"
             [] up.manifest \in {"invalid", "incomplete"} -> up.manifest
             [] OTHER -> "unknown"

(* Only a validation record can add to what is missing. *)
DeriveMissingFromValidation(up) ==
    IF up.validation = Null THEN {} ELSE up.validationMissing

(* The latest dated export wins; undated ones win only over undated ones. *)
DeriveExportRef(exports) ==
    LET Later(i, j) == \/ exports[i].at > exports[j].at
                       \/ exports[i].at = exports[j].at /\ exports[i].at = 0
                          /\ i > j
                       \/ exports[i].at = exports[j].at /\ exports[i].at # 0
                          /\ i < j
        best == {i \in DOMAIN exports :
                   \A j \in DOMAIN exports \ {i} : Later(i, j)}
    IN  IF best = {} THEN Null ELSE exports[CHOOSE i \in best : TRUE].ref

LiveEvidenceView(r, up) ==
    IF up = Unserved
    THEN [run |-> r.id, productMode |-> "live", status |-> "incomplete",
          missing |-> {"evidence-pack-manifest"},
          validationStatus |-> "unknown", exportRef |-> Null,
          generatedArtifactRef |-> Absent, carriedOver |-> FALSE, drift |-> 0]
    ELSE LET missing == up.missing \cup DeriveMissingFromValidation(up)
             valid   == DeriveValidationStatus(up)
             status  == CASE missing = {} /\ valid = "valid" -> "complete"
                          [] valid = "invalid"               -> "invalid"
                          [] OTHER                           -> "incomplete"
         IN  [run              |-> r.id,
              productMode      |-> IF status = "complete" THEN "live"
                                   ELSE "unavailable",
              status           |-> status,
              missing          |-> missing,
              validationStatus |-> valid,
              exportRef        |-> DeriveExportRef(up.exports),
              generatedArtifactRef |-> up.ref,
              carriedOver      |-> up.carriedOver,
              drift            |-> up.drift]

-----------------------------------------------------------------------------
(* Progress, events, learning, artefacts and the workflow contract.  These  *)
(* views have no reference a reader may miss, so their incomplete forms    *)
(* are as well formed as the complete ones.                                *)

PipelineStepStatuses == {"pending", "running", "ok", "failed", "skipped"}

(* A step without a name is dropped, an unknown status reads as pending. *)
NormalizePipelineStep(step) ==
    IF step.name = Null
    THEN {}
    ELSE {[step EXCEPT !.status = IF @ \in PipelineStepStatuses
                                  THEN @ ELSE "pending"]}

LiveProgressView(r, up) ==
    IF up = Unserved
    THEN [run |-> r.id, productMode |-> "live", status |-> "incomplete",
          runStatus |-> r.status, steps |-> {}, missing |-> {"run-progress"}]
    ELSE [run |-> r.id, productMode |-> "live",
          status |-> IF up.missing = {} THEN "complete" ELSE "incomplete",
          runStatus |-> IF up.runStatus = Null THEN r.status ELSE up.runStatus,
          steps |-> UNION {NormalizePipelineStep(step) : step \in up.steps},
          missing |-> up.missing]

(* The learning service is asked first; any failure of it falls through to *)
(* the copy the orchestrator caches.                                       *)
LiveLearningView(r, service, up) ==
    CASE service # Unserved ->
           [run |-> r.id, status |-> "complete", summary |-> service,
            source |-> "live"]
      [] service = Unserved /\ up = Unserved ->
           [run |-> r.id, status |-> "incomplete", summary |-> Null,
            source |-> "unavailable"]
      [] OTHER ->
           [run |-> r.id, summary |-> up.summary, source |-> "cached",
            status |-> IF up.missing = {} THEN "complete" ELSE "incomplete"]

(* Only a complete learning summary becomes an experience. *)
LiveExperienceView(r, service, up) ==
    LET view == LiveLearningView(r, service, up)
    IN  [run |-> r.id,
         summary |-> IF view.status = "complete" THEN view.summary ELSE Null]

LiveEventsView(r, up) ==
    IF up = Unserved
    THEN [run |-> r.id, events |-> <<>>, missing |-> {"trajectory-ledger"}]
    ELSE [run |-> r.id, missing |-> up.missing,
          events |-> SelectSeq(up.events, LAMBDA event : event # Null)]

RunArtifactsView(r, up, throws) ==
    CASE up = Unserved /\ throws  -> Absent
      [] up = Unserved /\ ~throws ->
           [run |-> r.id, productMode |-> "unavailable", artifacts |-> {},
            missing |-> {"artifacts-index"}]
      [] OTHER ->
           [run |-> r.id, productMode |-> "live", artifacts |-> up.artifacts,
            missing |-> {}]

EmptyWorkflowSnapshot ==
    [final |-> Null, failure |-> Null, agent |-> Null, repairs |-> 0,
     trust |-> Null]

WorkflowEnvelope(r, snapshot, source, trust) ==
    [run |-> r.id, source |-> source, final |-> snapshot.final,
     failure |-> snapshot.failure, agent |-> snapshot.agent,
     repairs |-> snapshot.repairs, trust |-> trust]

(* A workflow that cannot be fetched is a well-formed view of nothing.  The *)
(* stored trust summary stands in unless the orchestrator answered with an *)
(* error.                                                                   *)
WorkflowView(r, up, throws) ==
    CASE up = Unserved /\ throws ->
           WorkflowEnvelope(r, EmptyWorkflowSnapshot, "unavailable", r.trust)
      [] up = Unserved /\ ~throws ->
           WorkflowEnvelope(r, EmptyWorkflowSnapshot, "unavailable", Null)
      [] OTHER ->
           WorkflowEnvelope(r, up, "live", IF up.trust = Null THEN r.trust ELSE up.trust)

-----------------------------------------------------------------------------
(* Why did the output change? *)

(* What the explanation knows of a run: three views fetched one after the  *)
(* other, each of which may be the incomplete one.                         *)
LoadOutputChangeRunArtifacts(r, gen, bt, ev) ==
    [run        |-> r.id,
     status     |-> r.status,
     parity     |-> r.parity,
     trust      |-> r.trust,
     trustCase  |-> r.trustCase,
     profile    |-> r.profile,
     policy     |-> r.policy,
     normalized |-> r.normalized,
     repair     |-> r.repair,
     source     |-> IF gen.sourceHash = Absent THEN Null ELSE gen.sourceHash,
     generated  |-> IF gen.artifactRef = Absent THEN Null ELSE gen.artifactRef,
     actual     |-> bt.actual,
     evidence   |-> ev.status,
     manual     |-> <<ev.carriedOver, ev.drift>>]

(* Mutant of UnavailableReason: the evidence is not asked. *)
UnavailableWithoutEvidence(current, previous) ==
    IF current.run = previous.run THEN "same_run_not_allowed"
    ELSE IF {current.status, previous.status} # {"completed"}
    THEN "run_not_completed"
    ELSE IF ~(current.parity /\ previous.parity) THEN "non_parity_run"
    ELSE IF Null \in {current.trust, previous.trust}
    THEN "missing_trust_summary"
    ELSE IF Null \in {current.actual, previous.actual}
    THEN "missing_observed_output"
    ELSE Null

(* The first reason, in the order of the checks, not to explain. *)
UnavailableReason(current, previous) ==
    IF current.run = previous.run THEN "same_run_not_allowed"
    ELSE IF {current.status, previous.status} # {"completed"}
    THEN "run_not_completed"
    ELSE IF ~(current.parity /\ previous.parity) THEN "non_parity_run"
    ELSE IF Null \in {current.trust, previous.trust}
    THEN "missing_trust_summary"
    ELSE IF Null \in {current.actual, previous.actual}
    THEN "missing_observed_output"
    ELSE IF Null \in {current.normalized, previous.normalized}
    THEN "missing_normalized_output"
    ELSE IF "incomplete" \in {current.evidence, previous.evidence}
    THEN "evidence_incomplete"
    ELSE Null

(* The causes the evidence supports.  A configuration change counts only   *)
(* under the same trust case, a refreshed candidate only without any other *)
(* cause.                                                                  *)
ChangedCategories(current, previous) ==
    LET Differ(field) == current[field] # previous[field]
        strong ==
          (IF Differ("source") THEN {"cobol_edit"} ELSE {}) \cup
          (IF Differ("trustCase") THEN {"trust_case_change"}
           ELSE IF Differ("profile") THEN {"runtime_configuration_change"}
           ELSE {}) \cup
          (IF Differ("policy") THEN {"normalization_rule_change"} ELSE {}) \cup
          (IF Differ("manual") THEN {"manual_java_edit"} ELSE {}) \cup
          (IF Differ("repair") THEN {"repair_patch"} ELSE {})
    IN  IF strong = {} /\ Differ("generated")
        THEN {"generated_java_refresh"} ELSE strong

(* How many lines changed place by place, and a short excerpt between the  *)
(* common head and the common tail.                                        *)
OutputDelta(current, previous) ==
    LET old  == previous.actual
        new  == current.actual
        Line(text, i) == IF i \in DOMAIN text THEN text[i] ELSE Null
        rows == {i \in DOMAIN old \cup DOMAIN new : Line(old, i) # Line(new, i)}
        head == CHOOSE n \in 0 .. Len(old) :
                  /\ \A i \in 1 .. n : Line(old, i) = Line(new, i)
                  /\ Line(old, n + 1) # Line(new, n + 1) \/ n = Len(old)
    IN  [changed |-> old # new,
         removed |-> Cardinality(rows \cap DOMAIN old),
         added   |-> Cardinality(rows \cap DOMAIN new),
         from    |-> head]

BuildOutputChangeExplanation(current, previous) ==
    LET reason  == UnavailableReason(current, previous)
        changed == ChangedCategories(current, previous)
    IN  IF reason # Null
        THEN [status |-> "unavailable", reason |-> reason,
              determination |-> "not_determinable", primary |-> Null,
              delta |-> Null]
        ELSE [status |-> "available", reason |-> Null,
              determination |->
                CASE Cardinality(changed) = 1 -> "single_change"
                  [] Cardinality(changed) > 1 -> "multiple_changes"
                  [] OTHER                    -> "not_determinable",
              primary |-> IF Cardinality(changed) = 1
                          THEN CHOOSE c \in changed : TRUE ELSE Null,
              delta |-> OutputDelta(current, previous)]
=============================================================================
