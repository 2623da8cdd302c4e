------------------------------- MODULE BffWire -------------------------------
(***************************************************************************)
(* What the BFF makes of the objects the services behind it send           *)
(* (services/c2c-bff/src: runViews.ts, diagnostics.ts, error-codes.ts,     *)
(* server.ts), field by field.  A field is known by its class:             *)
(*   fine      a value every reader knows (a non-empty text, a known word, *)
(*             a whole number, an array of such, an object in order)       *)
(*   odd       the right JSON type, but empty, an unknown word, a          *)
(*             fraction, or an array with a wrong entry in it              *)
(*   negative  a number below zero                                         *)
(*   wrong     another JSON type                                           *)
(*   null, none    null, and not there at all                              *)
(* Fields that both sides treat alike are one field.  An object is a       *)
(* record of classes, or Nothing where there is no object.                 *)
(***************************************************************************)
EXTENDS Integers, Sequences

CONSTANT Nothing

Classes == {"fine", "odd", "negative", "wrong", "null", "none"}
Numbers == {"fine", "odd", "negative"}

(* An object with a field more. *)
WithField(object, field, value) ==
    [f \in DOMAIN object \cup {field} |-> IF f = field THEN value ELSE object[f]]

-----------------------------------------------------------------------------
(* The coercions *)

(* asString: anything that is no text becomes the empty text. *)
AsString(c) == IF c \in {"fine", "odd"} THEN c ELSE "odd"

(* A text that is copied only when there is something in it. *)
CopiedText(c) == IF c = "fine" THEN "fine" ELSE "none"

(* asNumber: any finite number, fractions and negative ones too. *)
AsNumber(c) == IF c \in Numbers THEN c ELSE "none"

AsNumberOrZero(c) == IF c \in Numbers THEN c ELSE "fine"

(* asStringArray drops the entries that are no texts. *)
AsStringArray(c) == "fine"

(* asPositiveInteger and asNonNegativeInteger of the diagnostics. *)
AsWholeNumber(c) == IF c = "fine" THEN "fine" ELSE "none"

-----------------------------------------------------------------------------
(* References, files and artefacts *)

RefFields == {"sha256", "byteSize", "text"}

(* normalizeOutputRef; text stands for kind, path, name, mimeType,         *)
(* createdBy and createdAt.                                                *)
NormalizeOutputRef(raw) ==
    IF raw = Nothing \/ raw.sha256 # "fine" THEN Nothing
    ELSE [sha256 |-> "fine", byteSize |-> AsNumber(raw.byteSize),
          text |-> CopiedText(raw.text)]

(* safeArtifactRef: what a workflow snapshot tells of an artefact. *)
SafeArtifactRef(raw) ==
    IF raw = Nothing \/ raw.sha256 # "fine" THEN Nothing
    ELSE [sha256 |-> "fine", byteSize |-> AsNumberOrZero(raw.byteSize),
          text |-> AsString(raw.text)]

FileFields == {"path", "byteSize", "text"}

(* A path is safe when it is relative, has no empty, "." or ".." segment   *)
(* and no NUL: here, when it is fine.                                      *)
IsSafeGeneratedRelpath(c) == c = "fine"

(* A file with an unsafe path is dropped from the index. *)
NormalizeGeneratedFileRef(raw) ==
    IF ~IsSafeGeneratedRelpath(raw.path) THEN Nothing
    ELSE [path |-> "fine", byteSize |-> AsNumber(raw.byteSize),
          text |-> CopiedText(raw.text)]

ArtifactFields == {"sha256", "byteSize", "text", "path"}

(* An artefact with an unsafe path is kept, without the path. *)
NormalizeRunArtifact(raw) ==
    IF raw.sha256 # "fine" THEN Nothing
    ELSE [sha256 |-> "fine", byteSize |-> AsNumber(raw.byteSize),
          text |-> CopiedText(raw.text),
          path |-> IF IsSafeGeneratedRelpath(raw.path) THEN "fine" ELSE "none"]

(* The content of a file: the size is at least the one measured, so only a *)
(* declared fraction above it survives.                                    *)
FileContentFields == {"content", "sha256", "byteSize", "path"}

NormalizeFileContent(raw) ==
    [content |-> AsString(raw.content), sha256 |-> AsString(raw.sha256),
     byteSize |-> IF raw.byteSize = "odd" THEN "odd" ELSE "fine",
     path |-> "fine"]

-----------------------------------------------------------------------------
(* Diagnostics *)

DiagnosticFields == {"message", "severity", "code", "position", "filePath",
                     "sourceKind", "originStep"}

(* An unknown or missing severity is an information. *)
NormalizeSeverity(c) == "fine"

(* Mutant: an unknown kind of source is passed on. *)
SourceKindAsIs(c) == IF c \in {"fine", "odd"} THEN c ELSE "none"

(* An unknown kind of source is left out. *)
NormalizeSourceKind(c) == IF c = "fine" THEN "fine" ELSE "none"

NormalizeArtifactRef(raw) ==
    IF raw = Nothing \/ raw.sha256 # "fine" THEN Nothing
    ELSE [sha256 |-> "fine", byteSize |-> AsWholeNumber(raw.byteSize),
          text |-> CopiedText(raw.text)]

(* The default kind is given only to a diagnostic that names a file. *)
DefaultSourceKind(kind, filePath) ==
    IF kind = "none" /\ filePath = "fine" THEN "fine" ELSE kind

(* normalizeOne, with the repair of a range that ends before it starts     *)
(* (which only ever takes a coordinate away).                              *)
NormalizeDiagnostic(raw, ref) ==
    IF raw.message # "fine" THEN Nothing
    ELSE LET filePath == CopiedText(raw.filePath)
         IN  [message |-> "fine", severity |-> NormalizeSeverity(raw.severity),
              code |-> AsString(raw.code),
              position |-> AsWholeNumber(raw.position), filePath |-> filePath,
              sourceKind |-> DefaultSourceKind(
                               NormalizeSourceKind(raw.sourceKind), filePath),
              originStep |-> CopiedText(raw.originStep),
              artifactRef |-> NormalizeArtifactRef(ref)]

-----------------------------------------------------------------------------
(* Progress, events and learning *)

StepFields == {"name", "stepId", "text", "status", "time", "diagnostic",
               "latencyMs"}

(* A failed step that tells source text, a stack or nothing gets a stock   *)
(* sentence; every other diagnostic of a step is a text too.               *)
SanitizeProgressDiagnostic(c) == IF c = "fine" THEN "fine" ELSE "none"

NormalizeStep(raw, ref) ==
    IF raw.name # "fine" THEN Nothing
    ELSE [name |-> "fine", stepId |-> AsNumberOrZero(raw.stepId),
          text |-> AsString(raw.text), status |-> "fine",
          time |-> CopiedText(raw.time),
          diagnostic |-> SanitizeProgressDiagnostic(raw.diagnostic),
          latencyMs |-> AsNumber(raw.latencyMs),
          ref |-> NormalizeOutputRef(ref)]

EventFields == {"type", "status", "message", "createdAt"}

(* An event of which nothing is left is dropped. *)
SanitizeUiRunEvent(raw) ==
    LET event == [f \in EventFields |-> CopiedText(raw[f])]
    IN  IF \A f \in EventFields : event[f] = "none" THEN Nothing ELSE event

SignalFields == {"key", "label", "status", "count", "text", "evidenceRefs"}

(* Any word will do for the status of a learning signal: odd stands for a  *)
(* word the Studio does not know.                                          *)
NormalizeLearningSignal(raw) ==
    IF {raw.key, raw.label} # {"fine"} \/ raw.status \notin {"fine", "odd"}
    THEN Nothing
    ELSE [raw EXCEPT !.count = AsNumberOrZero(@), !.text = AsString(@),
                     !.evidenceRefs = AsStringArray(@)]

-----------------------------------------------------------------------------
(* The workflow contract *)

BudgetFields == {"limit", "used", "remaining"}

(* asRepairBudget, asAssistBudget and asModelInvocationBudget are alike:   *)
(* the limit and what is used may not be negative; what remains is taken   *)
(* as it is, or computed and never below zero.                             *)
AsBudget(raw) ==
    IF \/ raw = Nothing
       \/ AsNumber(raw.limit) \notin {"fine", "odd"}
       \/ AsNumber(raw.used) \notin {"fine", "odd"}
    THEN Nothing
    ELSE [limit |-> raw.limit, used |-> raw.used,
          remaining |-> IF raw.remaining \in Numbers THEN raw.remaining
                        ELSE IF "odd" \in {raw.limit, raw.used} THEN "odd"
                        ELSE "fine"]

AttemptFields == {"attemptNumber", "repairDecision", "failureCategory", "rationale"}

(* For an attempt number, negative stands for anything below one. *)
SanitizeRepairAttempt(raw) ==
    IF \/ AsNumber(raw.attemptNumber) \notin {"fine", "odd"}
       \/ raw.repairDecision # "fine"
    THEN Nothing
    ELSE [attemptNumber |-> raw.attemptNumber, repairDecision |-> "fine",
          failureCategory |-> IF raw.failureCategory = "fine" THEN "fine"
                              ELSE "null",
          rationale |-> IF raw.rationale = "fine" THEN "fine" ELSE "none"]

AssistFields == {"outcome", "reasonCode", "decidedAt", "role", "rationale"}

(* The artefacts an assist decision names: every field is optional, and    *)
(* only a size that is a fraction is passed on as it is.                   *)
SanitizeAssistArtifactRef(raw) ==
    LET ref == [sha256 |-> CopiedText(raw.sha256),
                byteSize |-> IF raw.byteSize \in {"fine", "odd"}
                             THEN raw.byteSize ELSE "none",
                text |-> CopiedText(raw.text)]
    IN  IF {ref.sha256, ref.byteSize, ref.text} = {"none"} THEN Nothing ELSE ref

(* An assist decision that contradicts itself is dropped: a required       *)
(* assist names an agent the BFF knows, one that is not required names     *)
(* none.                                                                   *)
SanitizeAssistDecision(raw, required, ref, budget) ==
    LET role == IF raw.role = "fine" THEN "fine" ELSE "null"
    IN  IF \/ {raw.outcome, raw.reasonCode, raw.decidedAt} # {"fine"}
           \/ required /\ role = "null"
           \/ ~required /\ role = "fine"
        THEN Nothing
        ELSE [outcome |-> "fine", reasonCode |-> "fine", decidedAt |-> "fine",
              role |-> role, required |-> required,
              affected |-> SanitizeAssistArtifactRef(ref),
              budget |-> AsBudget(budget),
              rationale |-> IF raw.rationale = "fine" THEN "fine" ELSE "null"]

CaseFields == {"trustCaseId", "text"}

(* A trust case without an id is none. *)
TrustCaseSnapshot(raw) ==
    IF raw.trustCaseId # "fine" THEN Nothing
    ELSE [trustCaseId |-> "fine", text |-> AsString(raw.text)]

TrustFields == {"state", "repairStatus", "coverage", "disposition",
                "warningCodes", "summaryDerivedAt", "optionalAt"}
PartFields == {"status", "text", "optionalText"}

(* The trust summary is copied, whatever words are in it; only times that  *)
(* are no texts are left out, and nothing is added that is missing.  Its   *)
(* parts (the trust case, the results, the repair and the evidence) are    *)
(* copied with it, references included.                                    *)
NormalizeTrustSummary(raw) ==
    IF raw = Nothing \/ \A f \in TrustFields : raw[f] = "none" THEN Nothing
    ELSE [raw EXCEPT !.summaryDerivedAt = CopiedText(@),
                     !.optionalAt = CopiedText(@)]

(* The first place that has a trust summary wins. *)
ExtractTrustSummary(places) ==
    LET found == {i \in DOMAIN places : NormalizeTrustSummary(places[i]) # Nothing}
    IN  IF found = {} THEN Nothing
        ELSE NormalizeTrustSummary(
               places[CHOOSE i \in found : \A j \in found : i <= j])

ContractFields == {"state", "activeStep", "agentAttemptCount", "final",
                   "failureCode", "failureMessage", "carriedOver", "drift"}

(* mapOrchestratorFailureCode: an unknown code is an internal error, no    *)
(* text at all is no code.                                                 *)
MapFailureCode(c) == IF c \in {"fine", "odd"} THEN "fine" ELSE "null"

(* Without a code, a verdict that is no success is an internal error (fine *)
(* stands for such a verdict).                                             *)
MapFailure(code, final) ==
    IF MapFailureCode(code) = "fine" THEN "fine"
    ELSE IF final = "fine" THEN "fine" ELSE "null"

OrNull(c) == IF c = "fine" THEN "fine" ELSE "null"

(* Edits are carried over only if there is a region to show for it. *)
SnapshotFromContract(raw, budget, attempt, assist, trust, case, ref) ==
    LET carried == raw.carriedOver = "fine" /\ raw.drift = "fine"
    IN  [state |-> OrNull(raw.state), activeStep |-> OrNull(raw.activeStep),
         agentAttemptCount |-> AsNumberOrZero(raw.agentAttemptCount),
         final |-> OrNull(raw.final),
         failureCode |-> MapFailure(raw.failureCode, raw.final),
         failureMessage |-> MapFailure(raw.failureCode, raw.final),
         carriedOver |-> carried, drift |-> carried,
         budget |-> AsBudget(budget), attempt |-> SanitizeRepairAttempt(attempt),
         assist |-> assist, trust |-> ExtractTrustSummary(trust),
         case |-> TrustCaseSnapshot(case), ref |-> SafeArtifactRef(ref)]

-----------------------------------------------------------------------------
(* Answers of the other services that are passed on *)

(* POST /api/v0/verify: the runner's word, or what stands for none. *)
VerifyFields == {"status", "classification", "outputRef"}

VerifyAnswer(raw) ==
    [status |-> "fine", classification |-> "fine", diagnostics |-> "fine",
     outputRef |-> IF raw.outputRef = "none" THEN "null" ELSE raw.outputRef,
     carriedOver |-> "fine", drift |-> "fine"]

(* POST /api/v0/compile-check: only the diagnostics of the runner are      *)
(* passed on, and a runner's answer without any is an empty list.          *)
CompileCheckAnswer(diagnostics) ==
    {NormalizeDiagnostic(d, Nothing) : d \in diagnostics} \ {Nothing}

DiagnosisFields == {"runId", "text", "confidence"}
ProposalFields == {"proposalId", "runId", "text", "files", "approval"}

(* The diagnosis and the proposal of a manual repair are copied, with      *)
(* their references rewritten; odd references inside a list are dropped.   *)
SanitizeManualRepairDiagnosis(raw, ref) ==
    WithField(raw, "ref", NormalizeOutputRef(ref))
SanitizeManualRepairProposal(raw, ref) ==
    WithField(raw, "ref", NormalizeOutputRef(ref))

(* The candidate project and the build result are passed on untouched. *)
SanitizeManualRepairBody(body) ==
    [body EXCEPT
       !.diagnosis = IF @ = Nothing THEN Nothing
                     ELSE SanitizeManualRepairDiagnosis(@, body.ref),
       !.proposal = IF @ = Nothing THEN Nothing
                    ELSE SanitizeManualRepairProposal(@, body.ref)]

DecisionFields == {"decisionId", "reviewer", "text", "refs", "outputs"}

(* The reviewer may be a name or a record with a name. *)
DecisionReviewerLabel(c) == AsString(c)

(* References may be texts, or records with an address or a digest. *)
DecisionStringRefs(c) == "fine"

(* The record of a divergence decision, from the copy in the trust summary *)
(* or from the answer.  AsString never yields "no value", so the first     *)
(* source is taken even when it is empty.                                  *)
SanitizeDivergenceDecision(raw, ref) ==
    [decisionId |-> AsString(raw.decisionId),
     reviewer |-> DecisionReviewerLabel(raw.reviewer),
     text |-> AsString(raw.text), refs |-> DecisionStringRefs(raw.refs),
     outputs |-> "fine", decisionRef |-> NormalizeOutputRef(ref)]

-----------------------------------------------------------------------------
(* Traceability, learning, and the services' own health *)

TraceFields == {"programId", "irId", "sourceHash"}

(* Without one of its three ids there is no traceability. *)
NormalizeGeneratedTraceability(raw) ==
    IF \E f \in TraceFields : raw[f] # "fine" THEN Nothing ELSE raw

RegionFields == {"startLine", "endLine", "originClass", "outcome", "mapping"}

(* A region is kept when its lines are whole numbers in order and its      *)
(* words are known; fine stands for lines in order.                        *)
NormalizeJavaRegion(raw) ==
    IF \E f \in RegionFields : raw[f] # "fine" THEN Nothing ELSE raw

ExperienceFields == {"count", "patterns", "policy", "events"}

(* The summary is a sentence whatever the counts are. *)
NormalizeExperience(raw, signal) ==
    [summary |-> "fine", observationPolicy |-> AsString(raw.policy),
     detectedPatterns |-> AsStringArray(raw.patterns),
     artifactRefs |-> AsStringArray(raw.events),
     signal |-> NormalizeLearningSignal(signal)]

RoleFields == {"role", "status", "models"}

(* A role without a name or a status is dropped. *)
NormalizeGatewayRole(raw) ==
    IF {raw.role, raw.status} # {"fine"} THEN Nothing
    ELSE [raw EXCEPT !.models = AsStringArray(@)]

GatewayFields == {"mode", "active", "policy"}

(* A gateway that answers is healthy, whatever it says. *)
NormalizeGatewayHealth(raw, role) ==
    [status |-> "fine", mode |-> AsString(raw.mode),
     active |-> AsNumberOrZero(raw.active), policy |-> AsString(raw.policy),
     role |-> NormalizeGatewayRole(role)]

(* A model can be called if any model at all is active, whatever its role, *)
(* or if the transformation role has one.                                  *)
HasCallableTransformationModel(active, roles) ==
    \/ active > 0
    \/ \E r \in roles : r.role = "transformation" /\ r.status = "ok" /\ r.models > 0

(* Before a start with AI assist: the gateway must answer its health call; *)
(* its capabilities are left out when they are not answered.               *)
TransformationModelAvailable(gateway) ==
    /\ gateway.enabled /\ gateway.health = "ok"
    /\ HasCallableTransformationModel(
         gateway.active,
         IF gateway.capabilities = "ok" THEN gateway.roles ELSE {})

ModelFields == {"id", "name", "provider"}

NormalizeGatewayModel(raw) ==
    IF \E f \in ModelFields : raw[f] # "fine" THEN Nothing ELSE raw

(* The Harness's own fields are kept, under a status of the BFF's. *)
NormalizeHarnessReady(raw) == [raw EXCEPT !.status = "fine"]

-----------------------------------------------------------------------------
(* The manual edits a repair request carries *)

(* One overlay is sent as it is, with its file; the regions of several are *)
(* put together, and which file they were in is lost.                      *)
ManualOverlayEnvelope(overlays) ==
    IF Len(overlays) = 1
    THEN [javaFile |-> overlays[1].javaFile, regions |-> overlays[1].regions]
    ELSE [javaFile |-> "none",
          regions |-> UNION {overlays[i].regions : i \in DOMAIN overlays}]

(* The orchestrator takes a region with a file of its own or of the        *)
(* overlay, and with its whole provenance.                                 *)
OverlayIsTaken(envelope) ==
    \A region \in envelope.regions :
       /\ "fine" \in {region.filePath, envelope.javaFile}
       /\ region.provenance = "fine"

-----------------------------------------------------------------------------
(* What stands for no object is none: neither one of the objects above nor *)
(* one with a part or a reference in it.                                   *)
Flat == Classes \cup {Nothing}
Nested == Flat \cup [RefFields -> Flat] \cup [PartFields \cup {"ref"} -> Flat]

ObjectFields ==
    {RefFields, FileFields, ArtifactFields, StepFields \cup {"ref"}, SignalFields,
     BudgetFields, AttemptFields, TrustFields \cup {"part"}, ProposalFields,
     ProposalFields \cup {"ref"}, DiagnosticFields \cup {"artifactRef"}}

ASSUME NothingAssumption == \A fields \in ObjectFields : Nothing \notin [fields -> Nested]
=============================================================================
