--------------------------- MODULE EditorTelemetry ---------------------------
(***************************************************************************)
(* The vocabulary of the editor's telemetry, which is written down twice:  *)
(* as a table of rules in the Studio, which drops an event that does not   *)
(* fit (apps/c2c-studio/src/lib/editor/editorTelemetry.ts), and as a       *)
(* validator per event in the BFF, which refuses the whole batch for one   *)
(* event that does not (services/c2c-bff/src/editorTelemetry.ts).          *)
(*                                                                         *)
(* A payload is a function from the fields it has to their values; a       *)
(* boolean, a count, a code in capitals and a record of counts are told    *)
(* apart from words, and "bad" is anything else.                           *)
(***************************************************************************)
EXTENDS Naturals, Sequences, FiniteSets

Flag == {"<boolean>"}
Count == {"<count>"}
Code == {"<code>"}
Counts == {"<counts>"}

Kinds == {"cobol", "java"}

-----------------------------------------------------------------------------
(* The Studio: the words it knows, and a rule per event *)

StudioWords ==
    [severity  |-> {"error", "warning", "info", "hint"},
     mapping   |-> {"direct", "aggregated", "synthesized", "agent_originated"},
     construct |-> {"pic", "comp3", "usage", "occurs", "redefines", "value",
                    "section", "paragraph", "fixed-format-zone"},
     step      |-> {"next", "prev"},
     lineage   |-> {"java_to_cobol", "cobol_to_java"},
     unresolved |-> {"no_mapping", "stale_manual_edit", "manual_only"},
     assist    |-> {"success", "budget_exhausted", "policy_denied",
                    "gateway_unavailable", "timeout", "invalid_region"},
     drafts    |-> {"zero", "lt_10", "lt_100", "ge_100"},
     pick      |-> {"backend_sample", "local_draft", "last_run_input"},
     generate  |-> {"generate", "regenerate", "generate_and_verify"},
     generated |-> {"success", "merge_required", "failed", "cancelled"},
     generateTime |-> {"lt_2s", "lt_10s", "lt_60s", "ge_60s"},
     trigger   |-> {"toolbar", "shortcut"},
     diagnostics |-> {"zero", "lt_10", "lt_100", "ge_100"},
     compileTime |-> {"lt_1s", "lt_5s", "ge_5s"},
     compiled  |-> {"ok", "errors", "gateway_unavailable", "timeout"},
     verified  |-> {"success", "compile_failed", "run_failed",
                    "output_divergence", "blocked", "cancelled",
                    "gateway_unavailable"},
     regions   |-> {"lt_5", "lt_20", "ge_20"},
     origin    |-> {"manual_modified", "manual_edit"},
     format    |-> {"shortcut", "on_save"},
     lines     |-> {"lt_100", "lt_1000", "ge_1000"},
     formatted |-> {"success", "unavailable", "timeout", "noop"},
     formatTime |-> {"lt_500ms", "lt_1500ms", "ge_1500ms"},
     lint      |-> {"zero", "lt_10", "lt_50", "ge_50"}]

Rule(fields, optional) == [fields |-> fields, required |-> DOMAIN fields \ optional]

NavigationRules ==
    LET w == StudioWords
    IN  [marker_navigate |->
           Rule([direction |-> w.step, sourceKind |-> Kinds,
                 severity |-> w.severity, irCodeOrIRNodeKind |-> Code],
                {"irCodeOrIRNodeKind"}),
         hover_opened |-> Rule([constructKind |-> w.construct], {}),
         hover_expanded |-> Rule([constructKind |-> w.construct], {}),
         lineage_navigate |->
           Rule([direction |-> w.lineage, resolved |-> Flag,
                 mappingClass |-> w.mapping, unresolvedReason |-> w.unresolved],
                {"mappingClass", "unresolvedReason"}),
         stacktrace_frame_click |-> Rule([resolved |-> Flag], {}),
         diff_open |-> Rule([hasPrevious |-> Flag, lineageAvailable |-> Flag], {}),
         assist_invoked |->
           Rule([sourceKind |-> Kinds, regionLineCount |-> Count,
                 redactionApplied |-> Count], {}),
         assist_result |-> Rule([outcome |-> w.assist], {}),
         save_local |-> Rule([kind |-> Kinds, encrypted |-> Flag], {}),
         drafts_cleared |-> Rule([purgedCountBucket |-> w.drafts], {}),
         conflict_resolved |-> Rule([kind |-> Kinds, pick |-> w.pick], {})]

RunRules ==
    LET w == StudioWords
    IN  [generate_invoked |->
           Rule([trigger |-> w.generate, hadManualEdits |-> Flag], {}),
         generate_result |->
           Rule([outcome |-> w.generated, latencyBucket |-> w.generateTime], {}),
         compile_check_invoked |-> Rule([trigger |-> w.trigger], {}),
         compile_check_result |->
           Rule([outcome |-> w.compiled, diagnosticCountBucket |-> w.diagnostics,
                 latencyBucket |-> w.compileTime], {}),
         verify_invoked |->
           Rule([trigger |-> w.trigger, hadManualEdits |-> Flag], {}),
         verify_result |-> Rule([outcome |-> w.verified], {}),
         three_way_merge_opened |-> Rule([regionCountBucket |-> w.regions], {}),
         three_way_merge_resolved |->
           Rule([regionsPickedPerSource |-> Counts, cancelled |-> Flag], {}),
         manual_edit_region_classified |->
           Rule([originClass |-> w.origin, mappingClass |-> w.mapping],
                {"mappingClass"}),
         format_invoked |->
           Rule([trigger |-> w.format, fileLineCountBucket |-> w.lines], {}),
         format_result |->
           Rule([outcome |-> w.formatted, latencyBucket |-> w.formatTime], {}),
         lint_markers_changed |-> Rule([countBucket |-> w.lint], {})]

EventTypes == DOMAIN NavigationRules \cup DOMAIN RunRules
RuleOf(type) ==
    IF type \in DOMAIN NavigationRules THEN NavigationRules[type] ELSE RunRules[type]

HasOnlyKnownKeys(p, allowed) == DOMAIN p \subseteq allowed

(* emit drops an event that does not fit its rule. *)
ValidatePayloadShape(p, rule) ==
    /\ HasOnlyKnownKeys(p, DOMAIN rule.fields)
    /\ rule.required \subseteq DOMAIN p
    /\ \A f \in DOMAIN p : p[f] \in rule.fields[f]

(* What is sent: the input, with the version, the time and the session. *)
ToEnvelope(type, payload) ==
    [schemaVersion |-> "v0", eventType |-> type, occurredAt |-> "time",
     sessionId |-> "safe id", payload |-> payload]

-----------------------------------------------------------------------------
(* The BFF: the words it knows, and a validator per event *)

HoverConstructKinds ==
    {"pic", "comp3", "usage", "occurs", "redefines", "value", "section",
     "paragraph", "fixed-format-zone"}

MappingClasses == {"direct", "aggregated", "synthesized", "agent_originated"}
AssistResultOutcomes ==
    {"success", "budget_exhausted", "policy_denied", "gateway_unavailable",
     "timeout", "invalid_region"}
CompileOutcomes == {"ok", "errors", "gateway_unavailable", "timeout"}
VerifyOutcomes ==
    {"success", "compile_failed", "run_failed", "output_divergence", "blocked",
     "cancelled", "gateway_unavailable"}
CountBuckets == {"zero", "lt_10", "lt_100", "ge_100"}

(* A required field, and one that may be missing. *)
Has(p, f, values) == f \in DOMAIN p /\ p[f] \in values
May(p, f, values) == f \in DOMAIN p => p[f] \in values

ValidateMarkerNavigate(p) ==
    /\ HasOnlyKnownKeys(p, {"direction", "sourceKind", "severity",
                            "irCodeOrIRNodeKind"})
    /\ Has(p, "direction", {"next", "prev"}) /\ Has(p, "sourceKind", Kinds)
    /\ Has(p, "severity", {"error", "warning", "info", "hint"})
    /\ May(p, "irCodeOrIRNodeKind", Code)

ValidateHover(p) ==
    /\ HasOnlyKnownKeys(p, {"constructKind"})
    /\ Has(p, "constructKind", HoverConstructKinds)

ValidateLineageNavigate(p) ==
    /\ HasOnlyKnownKeys(p, {"direction", "resolved", "mappingClass",
                            "unresolvedReason"})
    /\ Has(p, "direction", {"java_to_cobol", "cobol_to_java"})
    /\ Has(p, "resolved", Flag) /\ May(p, "mappingClass", MappingClasses)
    /\ May(p, "unresolvedReason",
           {"no_mapping", "stale_manual_edit", "manual_only"})

ValidateFlags(p, flags) ==
    HasOnlyKnownKeys(p, flags) /\ \A f \in flags : Has(p, f, Flag)

ValidateAssist(type, p) ==
    IF type = "assist_invoked"
    THEN /\ HasOnlyKnownKeys(p, {"sourceKind", "regionLineCount", "redactionApplied"})
         /\ Has(p, "sourceKind", Kinds) /\ Has(p, "regionLineCount", Count)
         /\ Has(p, "redactionApplied", Count)
    ELSE /\ HasOnlyKnownKeys(p, {"outcome"})
         /\ Has(p, "outcome", AssistResultOutcomes)

ValidateDrafts(type, p) ==
    CASE type = "save_local" ->
           /\ HasOnlyKnownKeys(p, {"kind", "encrypted"})
           /\ Has(p, "kind", Kinds) /\ Has(p, "encrypted", Flag)
      [] type = "drafts_cleared" ->
           /\ HasOnlyKnownKeys(p, {"purgedCountBucket"})
           /\ Has(p, "purgedCountBucket", CountBuckets)
      [] type = "conflict_resolved" ->
           /\ HasOnlyKnownKeys(p, {"kind", "pick"}) /\ Has(p, "kind", Kinds)
           /\ Has(p, "pick", {"backend_sample", "local_draft", "last_run_input"})

ValidateGenerate(type, p) ==
    IF type = "generate_invoked"
    THEN /\ HasOnlyKnownKeys(p, {"trigger", "hadManualEdits"})
         /\ Has(p, "trigger", {"generate", "regenerate", "generate_and_verify"})
         /\ Has(p, "hadManualEdits", Flag)
    ELSE /\ HasOnlyKnownKeys(p, {"outcome", "latencyBucket"})
         /\ Has(p, "outcome", {"success", "merge_required", "failed", "cancelled"})
         /\ Has(p, "latencyBucket", {"lt_2s", "lt_10s", "lt_60s", "ge_60s"})

ValidateCompileCheck(type, p) ==
    IF type = "compile_check_invoked"
    THEN HasOnlyKnownKeys(p, {"trigger"}) /\ Has(p, "trigger", {"toolbar", "shortcut"})
    ELSE /\ HasOnlyKnownKeys(p, {"outcome", "diagnosticCountBucket", "latencyBucket"})
         /\ Has(p, "outcome", CompileOutcomes)
         /\ Has(p, "diagnosticCountBucket", CountBuckets)
         /\ Has(p, "latencyBucket", {"lt_1s", "lt_5s", "ge_5s"})

ValidateVerify(type, p) ==
    IF type = "verify_invoked"
    THEN /\ HasOnlyKnownKeys(p, {"trigger", "hadManualEdits"})
         /\ Has(p, "trigger", {"toolbar", "shortcut"}) /\ Has(p, "hadManualEdits", Flag)
    ELSE HasOnlyKnownKeys(p, {"outcome"}) /\ Has(p, "outcome", VerifyOutcomes)

ValidateMerge(type, p) ==
    IF type = "three_way_merge_opened"
    THEN /\ HasOnlyKnownKeys(p, {"regionCountBucket"})
         /\ Has(p, "regionCountBucket", {"lt_5", "lt_20", "ge_20"})
    ELSE /\ HasOnlyKnownKeys(p, {"regionsPickedPerSource", "cancelled"})
         /\ Has(p, "cancelled", Flag) /\ Has(p, "regionsPickedPerSource", Counts)

ValidateRegionClassified(p) ==
    /\ HasOnlyKnownKeys(p, {"originClass", "mappingClass"})
    /\ Has(p, "originClass", {"manual_modified", "manual_edit"})
    /\ May(p, "mappingClass", MappingClasses)

ValidateFormat(type, p) ==
    IF type = "format_invoked"
    THEN /\ HasOnlyKnownKeys(p, {"trigger", "fileLineCountBucket"})
         /\ Has(p, "trigger", {"shortcut", "on_save"})
         /\ Has(p, "fileLineCountBucket", {"lt_100", "lt_1000", "ge_1000"})
    ELSE /\ HasOnlyKnownKeys(p, {"outcome", "latencyBucket"})
         /\ Has(p, "outcome", {"success", "unavailable", "timeout", "noop"})
         /\ Has(p, "latencyBucket", {"lt_500ms", "lt_1500ms", "ge_1500ms"})

ValidateLint(p) ==
    /\ HasOnlyKnownKeys(p, {"countBucket"})
    /\ Has(p, "countBucket", {"zero", "lt_10", "lt_50", "ge_50"})

PayloadValid(type, p) ==
    CASE type = "marker_navigate" -> ValidateMarkerNavigate(p)
      [] type \in {"hover_opened", "hover_expanded"} -> ValidateHover(p)
      [] type = "lineage_navigate" -> ValidateLineageNavigate(p)
      [] type = "stacktrace_frame_click" -> ValidateFlags(p, {"resolved"})
      [] type = "diff_open" -> ValidateFlags(p, {"hasPrevious", "lineageAvailable"})
      [] type \in {"assist_invoked", "assist_result"} -> ValidateAssist(type, p)
      [] type \in {"save_local", "drafts_cleared", "conflict_resolved"} ->
           ValidateDrafts(type, p)
      [] type \in {"generate_invoked", "generate_result"} -> ValidateGenerate(type, p)
      [] type \in {"compile_check_invoked", "compile_check_result"} ->
           ValidateCompileCheck(type, p)
      [] type \in {"verify_invoked", "verify_result"} -> ValidateVerify(type, p)
      [] type \in {"three_way_merge_opened", "three_way_merge_resolved"} ->
           ValidateMerge(type, p)
      [] type = "manual_edit_region_classified" -> ValidateRegionClassified(p)
      [] type \in {"format_invoked", "format_result"} -> ValidateFormat(type, p)
      [] type = "lint_markers_changed" -> ValidateLint(p)
      [] OTHER -> FALSE

ValidateTelemetryEvent(event) ==
    /\ event.schemaVersion = "v0" /\ event.occurredAt = "time"
    /\ event.sessionId = "safe id"
    /\ PayloadValid(event.eventType, event.payload)

-----------------------------------------------------------------------------
(* Every payload over the fields of an event, known or not, with every     *)
(* value the Studio knows for the field, or a bad one.                     *)
Payloads(type) ==
    LET rule == RuleOf(type)
        values(f) == {"bad"} \cup IF f \in DOMAIN rule.fields THEN rule.fields[f] ELSE {}
        all == UNION {values(f) : f \in DOMAIN rule.fields}
    IN  UNION {{p \in [fields -> all] : \A f \in fields : p[f] \in values(f)} :
                 fields \in SUBSET (DOMAIN rule.fields \cup {"extra"})}

(* The two sides draw the same line: the Studio drops an event exactly if  *)
(* the BFF would refuse it, and with it the batch.                         *)
EventsAreAccepted ==
    \A type \in EventTypes : \A p \in Payloads(type) :
       ValidatePayloadShape(p, RuleOf(type))
         <=> ValidateTelemetryEvent(ToEnvelope(type, p))
=============================================================================
