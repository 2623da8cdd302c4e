------------------------------ MODULE BffGate ------------------------------
(***************************************************************************)
(* What the BFF's handlers check before they act                           *)
(* (services/c2c-bff/src/server.ts, createApp).                            *)
(*                                                                         *)
(* A handler is a chain of early returns.  A request is described by the   *)
(* set of its defects: everything that one of those returns looks for, the *)
(* state of the service at that time (no orchestrator, an unknown run)     *)
(* included.  The chain of a route is the sequence of defects in the order *)
(* in which the handler looks for them, each with the HTTP status of its   *)
(* answer, and the request is refused for the first one it has.            *)
(***************************************************************************)
EXTENDS Naturals, Sequences, SequencesExt

\* rejectUnauthenticatedStudioJsonRequest: the origin, the content type, and
\* then the session cookie.
JsonGate == <<<<"origin", 403>>, <<"content type", 415>>, <<"session", 401>>>>
\* rejectUnauthenticatedStudioRequest, before every GET of a run.
ReadGate == <<<<"origin", 403>>, <<"session", 401>>>>
\* readJsonBody, and the check that it is an object; some routes answer a body
\* that is too large like one that does not parse.
Body(tooLarge) == <<<<"too large", tooLarge>>, <<"not json", 400>>, <<"not an object", 400>>>>

NoOrchestrator == <<<<"no orchestrator", 503>>>>
NoRunner == <<<<"no runner", 503>>>>
UnknownRun == <<<<"unknown run", 404>>>>
NoLiveRun == <<<<"no live run", 503>>>>
FieldTypes == <<<<"field", 400>>>>
\* verifyTransformationModelGatewayAvailable, when the agent is asked for.
NoModel == <<<<"no model", 503>>>>

-----------------------------------------------------------------------------
(* The start routes.                                                       *)

TransformFieldChecks == JsonGate \o Body(413) \o FieldTypes \o NoOrchestrator
\* A trust case comes from the catalogue, never with internals of its own, and
\* belongs to the program; a reference program must be supported.
TransformTrustChecks ==
    <<<<"trust case internals", 400>>, <<"catalogue", 500>>, <<"unknown trust case", 400>>,
      <<"other program", 400>>, <<"unsupported reference", 400>>>>
TransformChecks == TransformFieldChecks \o TransformTrustChecks \o NoModel
GenerateChecks == JsonGate \o Body(413) \o FieldTypes \o NoOrchestrator \o NoModel
\* POST /runs.  Parity needs a reference fixture; without an orchestrator it is
\* refused, and any run is unless diagnostic fixtures are switched on.
StartRunFieldChecks == JsonGate \o Body(400) \o FieldTypes
StartRunParityChecks ==
    <<<<"parity without fixture", 400>>, <<"unknown program", 404>>, <<"no orchestrator", 503>>>>
StartRunChecks == StartRunFieldChecks \o StartRunParityChecks

-----------------------------------------------------------------------------
(* Compiling and running Java that the editor sends.                       *)

\* javaFiles: how many, then for each a safe unique .java path and its text,
\* then all of them together, then the entry file.
JavaFileChecks ==
    <<<<"no files", 400>>, <<"too many files", 413>>, <<"unsafe path", 400>>,
      <<"not java", 400>>, <<"duplicate path", 400>>, <<"no content", 400>>,
      <<"too much", 413>>, <<"entry file", 400>>>>
CompileCheckChecks == JsonGate \o NoRunner \o Body(413) \o JavaFileChecks
VerifyChecks ==
    JsonGate \o NoRunner \o Body(413) \o <<<<"run id", 400>>>> \o JavaFileChecks
             \o <<<<"overlays", 400>>>>

-----------------------------------------------------------------------------
(* Requests for one run.                                                   *)

\* The manual compile repair routes, up to the fields of each.
RepairChecks ==
    JsonGate \o NoOrchestrator \o Body(400) \o <<<<"run id", 400>>>> \o UnknownRun \o NoLiveRun
PreviewChecks == RepairChecks \o <<<<"extra field", 400>>, <<"too many files", 413>>>>
DiagnoseChecks == RepairChecks \o <<<<"proposal ids", 400>>, <<"extra field", 400>>>>
ApplyChecks == RepairChecks \o <<<<"proposal ids", 400>>, <<"extra field", 400>>>>
AcceptChecks == RepairChecks \o <<<<"proposal ids", 400>>, <<"extra field", 400>>>>
RejectChecks == RepairChecks \o <<<<"proposal ids", 400>>, <<"extra field", 400>>>>
\* mapIntentionalDivergenceRequestBody is the check of the fields.
DecisionChecks ==
    JsonGate \o UnknownRun \o NoOrchestrator \o Body(400) \o FieldTypes
ExportChecks ==
    JsonGate \o UnknownRun \o <<<<"diagnostic run", 409>>>> \o NoLiveRun \o NoOrchestrator
             \o Body(400)
OutputChangeChecks == JsonGate \o Body(400) \o UnknownRun \o <<<<"previous run id", 400>>>>
\* The GET routes of a run.  The views are served from whatever there is: after
\* the run is found nothing is refused any more.
RunReadChecks == ReadGate \o UnknownRun
VerdictReadChecks == RunReadChecks
TimelineReadChecks == RunReadChecks
\* A file of a run: its path is decoded first, and what the orchestrator
\* answers is refused as well, for its size once by the reader and once by what
\* it declares or holds.
FileOfRunChecks ==
    ReadGate \o <<<<"run id", 400>>, <<"unsafe path", 400>>>> \o UnknownRun
             \o <<<<"diagnostic run", 404>>>> \o NoLiveRun \o NoOrchestrator
UpstreamFileChecks ==
    <<<<"no answer", 502>>, <<"truncated", 413>>, <<"no such file", 404>>,
      <<"path refused", 400>>, <<"upstream error", 502>>, <<"too large", 413>>>>
FileReadChecks == FileOfRunChecks \o UpstreamFileChecks
ArtifactReadChecks == FileOfRunChecks \o UpstreamFileChecks

-----------------------------------------------------------------------------
(* Routes that ask for no session: the services' health, and the catalogues *)
(* of samples and fixtures.                                                 *)

ServiceChecks == <<<<"switched off", 503>>, <<"upstream error", 503>>>>
GatewayChecks == ServiceChecks
HarnessChecks == ServiceChecks
SampleChecks == <<<<"unknown program", 404>>>>
FixtureChecks == <<<<"catalogue", 503>>, <<"unknown fixture", 404>>>>
OpenRoutes == {"gateway", "harness", "sample", "fixture"}

-----------------------------------------------------------------------------
(* The editor's routes and those of the session itself.                    *)

FormatChecks == JsonGate \o NoRunner \o Body(413) \o <<<<"content", 400>>, <<"too much", 413>>>>
\* handleEditorExplain looks for the session only when it knows the request is
\* well formed, and calls that a denied policy; a body it cannot read is to it
\* an invalid region.
ExplainChecks ==
    <<<<"origin", 403>>, <<"no gateway", 503>>, <<"content type", 415>>>> \o Body(400)
        \o <<<<"region", 400>>, <<"session", 403>>, <<"other identity", 403>>, <<"no ledger", 503>>>>
\* The budget's query is checked before the session too.
BudgetChecks ==
    <<<<"origin", 403>>, <<"session id", 400>>, <<"ids", 400>>, <<"session", 401>>,
      <<"other identity", 403>>>>
\* validateTelemetryBatch: an envelope, not too many events, each one valid.
TelemetryChecks ==
    JsonGate \o Body(413) \o <<<<"envelope", 400>>, <<"too many events", 413>>, <<"event", 400>>>>
CspReportChecks == <<<<"content type", 415>>, <<"too large", 413>>, <<"not json", 400>>, <<"report", 400>>>>
\* A fixture sign-in is counted by the limiter before its body is read.
SignInChecks ==
    <<<<"origin", 403>>, <<"fixtures off", 404>>, <<"rate", 429>>>> \o Body(413)
        \o <<<<"identity", 400>>>>
BootstrapChecks == ReadGate
\* PUT trust-case-preference asks the session store last, when it writes.
PreferenceChecks ==
    <<<<"origin", 403>>, <<"content type", 415>>, <<"cookie", 401>>>> \o Body(400) \o FieldTypes
        \o <<<<"catalogue", 500>>, <<"unknown trust case", 400>>, <<"other program", 400>>,
             <<"session", 401>>>>

Checks ==
    [transform |-> TransformChecks, generate |-> GenerateChecks, runs |-> StartRunChecks,
     compileCheck |-> CompileCheckChecks, verify |-> VerifyChecks,
     preview |-> PreviewChecks, diagnose |-> DiagnoseChecks, apply |-> ApplyChecks,
     accept |-> AcceptChecks, reject |-> RejectChecks, decision |-> DecisionChecks,
     export |-> ExportChecks, outputChange |-> OutputChangeChecks,
     runRead |-> RunReadChecks, verdictRead |-> VerdictReadChecks,
     timelineRead |-> TimelineReadChecks, fileRead |-> FileReadChecks,
     artifactRead |-> ArtifactReadChecks, gateway |-> GatewayChecks,
     harness |-> HarnessChecks, sample |-> SampleChecks, fixture |-> FixtureChecks,
     format |-> FormatChecks, explain |-> ExplainChecks, budget |-> BudgetChecks,
     telemetry |-> TelemetryChecks, csp |-> CspReportChecks, signIn |-> SignInChecks,
     bootstrap |-> BootstrapChecks, preference |-> PreferenceChecks]
Routes == DOMAIN Checks
DefectsOf(route) == {check[1] : check \in ToSet(Checks[route])}

\* The status of the answer: that of the first defect found, 0 if there is none.
Refusal(route, defects) ==
    LET found == {i \in DOMAIN Checks[route] : Checks[route][i][1] \in defects}
    IN  IF found = {} THEN 0 ELSE Checks[route][Min(found)][2]
=============================================================================
