----------------------------- MODULE StudioWire -----------------------------
(***************************************************************************)
(* The Studio's reading of what the BFF answers (apps/c2c-studio/src/lib/  *)
(* apiClient.ts, lib/editor/compileCheckClient.ts): the predicates every   *)
(* answer passes before a store sees it.  One field that does not pass     *)
(* refuses the whole answer.                                               *)
(***************************************************************************)
EXTENDS BffWire

-----------------------------------------------------------------------------
(* Fields *)

IsString(c) == c \in {"fine", "odd"}
OptString(c) == IsString(c) \/ c = "none"
NullableString(c) == IsString(c) \/ c = "null"
OptNullableString(c) == OptString(c) \/ c = "null"
IsCount(c) == c = "fine"
OptCount(c) == c \in {"fine", "none"}
IsKnown(c) == c = "fine"
IsStringArray(c) == c = "fine"

(* The words a field may be, one list for each group of fields. *)
IsDiagnosticWord(c) == IsKnown(c)
IsContractWord(c) == IsKnown(c)
IsTrustWord(c) == IsKnown(c)
IsAssistWord(c) == IsKnown(c)

-----------------------------------------------------------------------------
(* References, files and artefacts *)

IsOutputRef(p) == IsString(p.sha256) /\ OptCount(p.byteSize) /\ OptString(p.text)

OptRef(p) == p = Nothing \/ IsOutputRef(p)

IsWorkflowArtifactRef(p) ==
    IsString(p.sha256) /\ IsCount(p.byteSize) /\ IsString(p.text)

IsGeneratedFileRef(p) ==
    IsString(p.path) /\ OptCount(p.byteSize) /\ OptString(p.text)

IsRunArtifactMetadata(p) ==
    /\ IsString(p.sha256) /\ IsCount(p.byteSize) /\ IsString(p.text)
    /\ IsString(p.path)

IsFileContent(p) ==
    /\ IsString(p.path) /\ IsString(p.content) /\ IsString(p.sha256)
    /\ IsCount(p.byteSize)

-----------------------------------------------------------------------------
(* Diagnostics, progress, events, learning *)

IsDiagnostic(p) ==
    /\ IsDiagnosticWord(p.severity) /\ IsString(p.code) /\ IsString(p.message)
    /\ p.position \in {"fine", "null", "none"}
    /\ OptNullableString(p.filePath)
    /\ p.sourceKind \in {"fine", "null", "none"}
    /\ OptNullableString(p.originStep)
    /\ OptRef(p.artifactRef)

IsRunProgressStep(p) ==
    /\ IsCount(p.stepId) /\ IsString(p.name) /\ IsString(p.text)
    /\ IsKnown(p.status) /\ OptString(p.time) /\ OptString(p.diagnostic)
    /\ OptCount(p.latencyMs) /\ OptRef(p.ref)

IsRunEvent(p) == \A f \in EventFields : OptString(p[f])

IsLearningSignal(p) ==
    /\ IsString(p.key) /\ IsString(p.label) /\ IsKnown(p.status)
    /\ p.count \in Numbers /\ OptString(p.text)
    /\ p.evidenceRefs \in {"fine", "none"}

-----------------------------------------------------------------------------
(* The workflow view and the run summary *)

IsBudget(p) == IsCount(p.limit) /\ IsCount(p.used) /\ IsCount(p.remaining)

IsRepairAttempt(p) ==
    /\ IsCount(p.attemptNumber) /\ IsContractWord(p.repairDecision)
    /\ NullableString(p.failureCategory) /\ OptString(p.rationale)

IsAssistArtifactRef(p) ==
    OptString(p.sha256) /\ OptCount(p.byteSize) /\ OptString(p.text)

(* A required assist names an agent, one that is not required names none. *)
IsAssistDecision(p) ==
    /\ IsAssistWord(p.outcome) /\ IsAssistWord(p.reasonCode) /\ p.decidedAt = "fine"
    /\ p.role = IF p.required THEN "fine" ELSE "null"
    /\ p.affected = Nothing \/ IsAssistArtifactRef(p.affected)
    /\ p.budget = Nothing \/ IsBudget(p.budget)
    /\ NullableString(p.rationale)

IsTrustCase(p) == IsString(p.trustCaseId) /\ IsString(p.text)

(* The parts of a trust summary. *)
IsTrustSummaryTrustCase(p) == IsString(p.text)
IsTrustSummaryCobolResult(p) == IsTrustWord(p.status) /\ OptRef(p.ref)
IsTrustSummaryJavaResult(p) == IsTrustWord(p.status) /\ OptRef(p.ref)
IsTrustSummaryComparison(p) ==
    IsTrustWord(p.status) /\ IsString(p.text) /\ OptRef(p.ref)
IsTrustSummaryRepair(p) == IsTrustWord(p.status) /\ OptRef(p.ref)
IsTrustSummaryEvidence(p) ==
    IsTrustWord(p.status) /\ OptNullableString(p.optionalText) /\ OptRef(p.ref)

IsTrustSummary(p) ==
    /\ IsTrustWord(p.state) /\ IsTrustWord(p.repairStatus) /\ IsTrustWord(p.coverage)
    /\ IsTrustWord(p.disposition) /\ p.warningCodes = "fine"
    /\ IsTrustSummaryTrustCase(p.part)
    /\ IsTrustSummaryCobolResult(p.part)
    /\ IsTrustSummaryJavaResult(p.part)
    /\ IsTrustSummaryComparison(p.part)
    /\ IsTrustSummaryRepair(p.part)
    /\ IsTrustSummaryEvidence(p.part)
    /\ IsString(p.summaryDerivedAt) /\ OptNullableString(p.optionalAt)

(* Edits carried over and a count of none contradict each other. *)
HasManualEditSummaryFields(p) == p.carriedOver = p.drift

HasW02ContractFields(p) ==
    /\ NullableString(p.activeStep) /\ IsCount(p.agentAttemptCount)
    /\ p.budget = Nothing \/ IsBudget(p.budget)
    /\ \A c \in {p.final, p.failureCode} : IsContractWord(c) \/ c = "null"
    /\ NullableString(p.failureMessage)
    /\ HasManualEditSummaryFields(p)

(* The run summary a poll reads: the contract fields and the trust summary *)
(* of the last snapshot.                                                   *)
IsRunSummary(p) ==
    /\ HasW02ContractFields(p)
    /\ p.trust = Nothing \/ IsTrustSummary(p.trust)

(* The answer to a start has no trust summary to read. *)
IsTransformResponse(p) == HasW02ContractFields(p)

IsWorkflowView(p) ==
    /\ NullableString(p.state) /\ HasW02ContractFields(p)
    /\ p.attempt = Nothing \/ IsRepairAttempt(p.attempt)
    /\ p.assist = Nothing \/ IsAssistDecision(p.assist)
    /\ p.trust = Nothing \/ IsTrustSummary(p.trust)
    /\ p.case = Nothing \/ IsTrustCase(p.case)
    /\ p.ref = Nothing \/ IsWorkflowArtifactRef(p.ref)

-----------------------------------------------------------------------------
(* Answers to what the user asks for *)

(* parseVerifyResponse: words of any kind, a count, and an output          *)
(* reference that is dropped when it does not read as one.                 *)
ParseVerifyResponse(p) ==
    /\ IsString(p.status) /\ IsString(p.classification)
    /\ IsKnown(p.carriedOver) /\ IsCount(p.drift)

IsRepairFileChange(c) == c = "fine"

IsRepairDiagnosis(p) ==
    /\ IsString(p.runId) /\ OptString(p.text)
    /\ p.confidence \in {"fine", "none"} /\ OptRef(p.ref)

IsRepairProposal(p) ==
    /\ IsString(p.proposalId) /\ IsString(p.runId) /\ OptString(p.text)
    /\ IsRepairFileChange(p.files) /\ p.approval \in {"fine", "none"}
    /\ OptRef(p.ref)

IsRepairCandidateProject(c) == c = "fine"

(* The build result must be a build and test view: with the mode and the   *)
(* product mode of a run, and a generated artefact or null.                *)
IsRepairBuildTest(p) ==
    /\ IsString(p.ids) /\ IsKnown(p.words)
    /\ IsKnown(p.mode) /\ p.generated \in {"fine", "null"}

ParseRepairDiagnose(p) ==
    /\ p.diagnosis # Nothing /\ IsRepairDiagnosis(p.diagnosis)
    /\ p.proposal = Nothing \/ IsRepairProposal(p.proposal)
    /\ IsRepairCandidateProject(p.candidate) /\ IsRepairBuildTest(p.buildTest)

ParseRepairApply(p) ==
    /\ p.proposal # Nothing /\ IsRepairProposal(p.proposal)
    /\ IsRepairCandidateProject(p.candidate) /\ IsRepairBuildTest(p.buildTest)

ParseRepairAccept(p) ==
    /\ p.proposal # Nothing /\ IsRepairProposal(p.proposal)
    /\ IsRepairCandidateProject(p.candidate) /\ IsRepairBuildTest(p.buildTest)

ParseRepairReject(p) == p.proposal # Nothing /\ IsRepairProposal(p.proposal)

IsDivergenceDecision(p) ==
    /\ IsString(p.decisionId) /\ p.decisionRef # Nothing
    /\ IsOutputRef(p.decisionRef) /\ IsString(p.reviewer) /\ IsString(p.text)
    /\ IsStringArray(p.refs) /\ IsStringArray(p.outputs)

(* A decision is read only with a reference, and with a trust summary that *)
(* is null or whole; a missing one refuses the answer.                     *)
ParseDivergenceDecision(p) ==
    /\ IsDivergenceDecision(p.decision)
    /\ p.trust # Nothing /\ IsTrustSummary(p.trust)

-----------------------------------------------------------------------------
(* Views that are read beside the run, and the state of the services *)

(* A traceability that does not pass is left out of the view; so is a      *)
(* region.                                                                 *)
IsGeneratedTraceability(p) == \A f \in TraceFields : p[f] = "fine"

IsJavaRegionClassification(p) == \A f \in RegionFields : p[f] = "fine"

IsRunExperienceView(p) ==
    /\ OptString(p.summary) /\ OptString(p.observationPolicy)
    /\ p.signal = Nothing \/ IsLearningSignal(p.signal)
    /\ IsStringArray(p.detectedPatterns) /\ IsStringArray(p.artifactRefs)

(* Only the status is looked at. *)
ParseModelGatewayHealth(p) == IsKnown(p.status)
ParseModelGatewayModels(models) == TRUE
ParseHarnessReady(p) == IsKnown(p.status)

(* A compile check drops what it cannot read; it reports errors if one is  *)
(* left, and is clean otherwise.                                           *)
ParseDiagnostic(p) == IsKnown(p.severity) /\ p.message = "fine"
CompileCheck(answer) ==
    IF \E d \in answer : ParseDiagnostic(d) THEN "errors" ELSE "ok"

(* The overlay the editor computes says where an edit is and of what kind, *)
(* and nothing of who made it and when.                                    *)
EditorOverlay(file) ==
    [javaFile |-> file, regions |-> {[filePath |-> "none", provenance |-> "none"]}]

-----------------------------------------------------------------------------
(* The contract *)

(* Objects that are in order but for at most two fields. *)
Damaged(fields) ==
    {[f \in fields |-> IF f = g THEN c ELSE IF f = h THEN d ELSE "fine"] :
       g \in fields, h \in fields, c \in Classes, d \in Classes}

Whole(fields) == [f \in fields |-> "fine"]
WholeTrust ==
    WithField(Whole(TrustFields), "part",
              WithField(Whole(PartFields), "ref", Nothing))

Uneven(c) == c \in {"odd", "negative"}

RefsRead ==
    /\ \A raw \in Damaged(RefFields) :
         OptRef(NormalizeOutputRef(raw)) <=>
            (raw.sha256 = "fine" => ~Uneven(raw.byteSize))
    /\ \A raw \in Damaged(FileFields) :
         LET file == NormalizeGeneratedFileRef(raw)
         IN  (file = Nothing \/ IsGeneratedFileRef(file)) <=>
                (raw.path = "fine" => ~Uneven(raw.byteSize))
    /\ \A raw \in Damaged(ArtifactFields) :
         LET artifact == NormalizeRunArtifact(raw)
         IN  (artifact = Nothing \/ IsRunArtifactMetadata(artifact)) <=>
                (raw.sha256 = "fine" => raw = Whole(ArtifactFields))
    /\ \A raw \in Damaged(FileContentFields) :
         IsFileContent(NormalizeFileContent(raw)) <=> raw.byteSize # "odd"

DiagnosticsRead ==
    \A raw \in Damaged(DiagnosticFields), size \in Classes :
       LET d == NormalizeDiagnostic(raw, [Whole(RefFields) EXCEPT !.byteSize = size])
       IN  d = Nothing \/ IsDiagnostic(d)

ProgressReads ==
    /\ \A raw \in Damaged(StepFields) :
         LET step == NormalizeStep(raw, Nothing)
         IN  (step = Nothing \/ IsRunProgressStep(step)) <=>
                (raw.name = "fine" => ~Uneven(raw.stepId) /\ ~Uneven(raw.latencyMs))
    /\ \A raw \in Damaged(EventFields) :
         SanitizeUiRunEvent(raw) = Nothing \/ IsRunEvent(SanitizeUiRunEvent(raw))
    /\ \A raw \in Damaged(SignalFields) :
         LET signal == NormalizeLearningSignal(raw)
         IN  (signal = Nothing \/ IsLearningSignal(signal)) <=>
                ({raw.key, raw.label} = {"fine"} => raw.status # "odd")

Snapshot(raw, budget, attempt, trust) ==
    SnapshotFromContract(raw, budget, attempt,
        SanitizeAssistDecision(Whole(AssistFields), TRUE, Whole(RefFields), budget),
        <<Nothing, trust>>, Whole(CaseFields), Whole(RefFields))

BudgetReads(raw) == AsBudget(raw) = Nothing \/ IsBudget(AsBudget(raw))

WorkflowReads ==
    /\ \A raw \in Damaged(BudgetFields) :
         BudgetReads(raw) <=>
            (/\ {raw.limit, raw.used} \subseteq {"fine", "odd"}
             => "odd" \notin {raw.limit, raw.used} /\ ~Uneven(raw.remaining))
    /\ \A raw \in Damaged(ContractFields) :
         LET view == Snapshot(raw, Nothing, Whole(AttemptFields), WholeTrust)
         IN  /\ IsWorkflowView(view) <=> ~Uneven(raw.agentAttemptCount)
             /\ IsRunSummary(view) <=> IsTransformResponse(view)
    /\ \A raw \in Damaged(AssistFields), required \in BOOLEAN :
         LET d == SanitizeAssistDecision(raw, required, Whole(RefFields), Nothing)
         IN  d = Nothing \/ IsAssistDecision(d)
    /\ \A raw \in Damaged(AttemptFields), budget \in Damaged(BudgetFields) :
         LET view == Snapshot(Whole(ContractFields), budget, raw, Nothing)
         IN  IsWorkflowView(view) <=>
                /\ BudgetReads(budget)
                /\ raw.repairDecision = "fine" => raw.attemptNumber # "odd"
    /\ \A raw \in Damaged(TrustFields) :
         LET view == Snapshot(Whole(ContractFields), Nothing,
                              Whole(AttemptFields),
                              WithField(raw, "part", WholeTrust.part))
         IN  IsRunSummary(view) <=>
                /\ \A f \in TrustFields \ {"summaryDerivedAt", "optionalAt"} :
                      raw[f] = "fine"
                /\ raw.summaryDerivedAt = "fine"

(* The runner's result as the orchestrator forwards it has no mode. *)
RunnerResult == [ids |-> "fine", words |-> "fine", mode |-> "none",
                 generated |-> "none"]

AnswersRead ==
    /\ \A raw \in Damaged(VerifyFields) : ParseVerifyResponse(VerifyAnswer(raw))
    /\ \A proposal \in Damaged(ProposalFields), mode \in Classes :
         LET body == SanitizeManualRepairBody(
                       [diagnosis |-> Whole(DiagnosisFields),
                        proposal |-> proposal, candidate |-> "fine",
                        ref |-> Whole(RefFields),
                        buildTest |-> [RunnerResult EXCEPT
                                         !.mode = mode, !.generated = "null"]])
         IN  /\ ParseRepairApply(body) <=>
                   ParseRepairReject(body) /\ mode = "fine"
             /\ ParseRepairDiagnose(body) => ParseRepairAccept(body)
    /\ \A raw \in Damaged(DecisionFields), sha \in Classes, state \in Classes :
         ParseDivergenceDecision(
            [decision |-> SanitizeDivergenceDecision(
                            raw, [Whole(RefFields) EXCEPT !.sha256 = sha]),
             trust |-> NormalizeTrustSummary([WholeTrust EXCEPT !.state = state])])
         <=> sha = "fine" /\ state = "fine"

(* Gateways with a model in a role that is up or not. *)
Gateways ==
    [enabled : BOOLEAN, health : {"ok", "failed"}, active : 0 .. 1,
     capabilities : {"ok", "failed"},
     roles : SUBSET [role : {"transformation", "explain"},
                     status : {"ok", "unavailable"}, models : 0 .. 1]]

(* What stands beside the run is always read, whatever the services send,  *)
(* but for an unknown word in a learning signal.  A compile check is clean *)
(* only if no error diagnostic with a message was sent; and a start with   *)
(* AI assist rests on an active model or on what the capabilities say.     *)
ServicesRead ==
    /\ \A raw \in Damaged(TraceFields) :
         LET trace == NormalizeGeneratedTraceability(raw)
         IN  trace = Nothing \/ IsGeneratedTraceability(trace)
    /\ \A raw \in Damaged(RegionFields) :
         LET region == NormalizeJavaRegion(raw)
         IN  region = Nothing \/ IsJavaRegionClassification(region)
    /\ \A raw \in Damaged(ExperienceFields), signal \in Damaged(SignalFields) :
         IsRunExperienceView(NormalizeExperience(raw, signal)) <=>
            ({signal.key, signal.label} = {"fine"} => signal.status # "odd")
    /\ \A raw \in Damaged(GatewayFields), role \in Damaged(RoleFields) :
         ParseModelGatewayHealth(NormalizeGatewayHealth(raw, role))
    /\ \A raw \in Damaged(ModelFields) :
         ParseModelGatewayModels({NormalizeGatewayModel(raw)} \ {Nothing})
    /\ \A raw \in Damaged(ModelFields \cup {"status"}) :
         ParseHarnessReady(NormalizeHarnessReady(raw))
    /\ \A gateway \in Gateways :
         TransformationModelAvailable(gateway) =>
            gateway.active > 0 \/ gateway.capabilities = "ok"
    /\ \A raw \in Damaged(DiagnosticFields) :
         CompileCheck(CompileCheckAnswer({raw})) = "ok" <=> raw.message # "fine"

(* The overlay of an edited project, as a repair request carries it to the *)
(* orchestrator: it is taken only where it has no region, for no region    *)
(* the Studio makes says who edited it, and beyond one file not where.     *)
OverlaysRead ==
    \A files \in 0 .. 2, provenance \in {"fine", "none"} :
       LET overlay == [EditorOverlay("fine") EXCEPT
                         !.regions = {[r EXCEPT !.provenance = provenance] : r \in @}]
           envelope == ManualOverlayEnvelope([i \in 1 .. files |-> overlay])
       IN  OverlayIsTaken(envelope) <=>
              files = 0 \/ (files = 1 /\ provenance = "fine")
=============================================================================
