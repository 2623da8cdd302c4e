---------------------------- MODULE RunContract ----------------------------
(***************************************************************************)
(* The constant part of the orchestrator's W0.2 run contract               *)
(* (orchestrator_service/run_contract.py) and the pure failure             *)
(* classification of the runner (orchestrator_service/workflow.py): the    *)
(* workflow states and the transitions between them, the failure codes,    *)
(* and the functions that turn an exception into a code and a code into a  *)
(* final classification.                                                   *)
(***************************************************************************)

\* The linear and branching states a run contract moves through.
WorkflowStates ==
    {"run_accepted", "source_normalized", "cobol_parse_attempted",
     "semantic_ir_ready", "semantic_ir_blocked",
     "baseline_generation_attempted", "transformation_agent_invoked",
     "java_candidate_persisted", "build_test_running",
     "verification_repair_invoked", "final_java_selected", "run_blocked",
     "evidence_materialized", "evidence_incomplete", "final_classification"}

\* _ALLOWED_TRANSITIONS: the targets the state machine accepts in each state.
AllowedTransitions ==
    [s \in WorkflowStates |->
        CASE s = "run_accepted" -> {"source_normalized", "run_blocked"}
          [] s = "source_normalized" -> {"cobol_parse_attempted", "run_blocked"}
          [] s = "cobol_parse_attempted" ->
                {"semantic_ir_ready", "semantic_ir_blocked", "run_blocked"}
          [] s = "semantic_ir_ready" ->
                {"baseline_generation_attempted",
                 "transformation_agent_invoked", "run_blocked"}
          [] s = "semantic_ir_blocked" -> {"run_blocked", "evidence_incomplete"}
          [] s = "baseline_generation_attempted" ->
                {"transformation_agent_invoked",
                 "java_candidate_persisted", "run_blocked"}
          [] s = "transformation_agent_invoked" ->
                {"java_candidate_persisted", "run_blocked"}
          [] s = "java_candidate_persisted" ->
                {"build_test_running", "run_blocked"}
          [] s = "build_test_running" ->
                {"final_java_selected", "verification_repair_invoked",
                 "run_blocked"}
          [] s = "verification_repair_invoked" ->
                {"transformation_agent_invoked", "java_candidate_persisted",
                 "build_test_running", "final_java_selected", "run_blocked"}
          [] s = "final_java_selected" ->
                {"evidence_materialized", "evidence_incomplete"}
          [] s = "run_blocked" ->
                {"evidence_incomplete", "evidence_materialized",
                 "final_classification"}
          [] s = "evidence_materialized" -> {"final_classification"}
          [] s = "evidence_incomplete" -> {"final_classification"}
          [] s = "final_classification" -> {}]

FailureCodes ==
    {"unsupported_cobol", "parse_failed", "semantic_ir_failed",
     "model_gateway_unavailable", "model_policy_denied", "agent_timeout",
     "agent_contract_invalid", "java_generation_failed",
     "source_reference_failed", "java_compile_failed", "java_runtime_failed",
     "oracle_mismatch", "evidence_incomplete", "cancelled",
     "generate_only_complete"}

FinalClassifications ==
    {"success", "blocked", "failed", "cancelled", "incomplete"}

\* Python's None, for a failure code, a classification or a step name.
None == "none"

\* build_test_outcome: the codes a failing build-test payload can map to.
\* Which one it is depends on the runner's payload, so a build is a choice
\* between success and one of these.
BuildFailureCodes ==
    {"source_reference_failed", "java_compile_failed", "java_runtime_failed",
     "oracle_mismatch"}

\* REFUSAL_TO_FAILURE_CODE, with the code escalations are given.
RepairRefusalCodes ==
    {"java_generation_failed", "unsupported_cobol", "model_policy_denied"}

\* _failure_code_for_repair_exception.
RepairExceptionCodes ==
    {"agent_contract_invalid", "model_policy_denied", "agent_timeout",
     "model_gateway_unavailable", "java_generation_failed"}

\* The codes a transformation-agent result without a candidate is let through
\* with; every other code is replaced by java_generation_failed.
AgentBlockCodes ==
    {"agent_contract_invalid", "model_policy_denied",
     "model_gateway_unavailable", "unsupported_cobol", "agent_timeout",
     "java_generation_failed"}

Steps ==
    {"parse-cobol", "generate-ir", "generate-java", "compile-test-java",
     "source-reference-execution", "model-guidance", "write-evidence",
     "transformation-agent"}

\* _failure_code_for_step_name over STEP_TO_FAILURE_CODE.
FailureCodeForStepName(step) ==
    CASE step = "parse-cobol" -> "parse_failed"
      [] step = "generate-ir" -> "semantic_ir_failed"
      [] step = "generate-java" -> "java_generation_failed"
      [] step = "compile-test-java" -> "java_compile_failed"
      [] step = "source-reference-execution" -> "source_reference_failed"
      [] step = "model-guidance" -> "model_gateway_unavailable"
      [] step = "write-evidence" -> "evidence_incomplete"
      [] step = "transformation-agent" -> "java_generation_failed"
      [] OTHER -> None

\* _fallback_failure_code_for_state.
FallbackFailureCodeForState(s) ==
    CASE s \in {"run_accepted", "source_normalized"} -> "parse_failed"
      [] s = "cobol_parse_attempted" -> "semantic_ir_failed"
      [] s = "build_test_running" -> "java_compile_failed"
      [] s \in {"final_java_selected", "evidence_materialized",
                "evidence_incomplete"} -> "evidence_incomplete"
      [] OTHER -> "java_generation_failed"

\* An exception that reaches run()'s handler: its kind, and the step its text
\* (or, for a missing capability, its step_name) names.
ExceptionKinds ==
    {"step", "unsupported", "policy_denied", "contract_invalid",
     "model_budget", "capability_missing", "illegal", "other"}

Exceptions == [kind : ExceptionKinds, step : Steps \cup {None}]

\* _failure_code_from_exception, with the code a CapabilityMissingError
\* carries from _capability_failure_context.
FailureCodeFromException(e, s) ==
    CASE e.kind = "model_budget" -> "model_gateway_unavailable"
      [] e.kind = "policy_denied" -> "model_policy_denied"
      [] e.kind = "contract_invalid" -> "agent_contract_invalid"
      [] e.kind = "unsupported" -> "unsupported_cobol"
      [] e.kind \in {"step", "capability_missing"} /\ e.step # None ->
            FailureCodeForStepName(e.step)
      [] OTHER -> FallbackFailureCodeForState(s)

\* _failed_step_from_exception; a missing capability reports the pseudo step
\* "missing-capability", which names no step.
FailedStep(e) == IF e.kind = "capability_missing" THEN None ELSE e.step

\* _final_classification_for_failure_code.
FinalClassificationForFailureCode(c) ==
    IF c \in {"agent_contract_invalid", "model_gateway_unavailable",
              "model_policy_denied", "unsupported_cobol"}
    THEN "blocked" ELSE "failed"

\* The classification run() gives a run that reached its evidence step, from
\* w02_blocked / w02_failure_code (None when the run is not blocked).
SuccessUnlessBuildFailed(block) ==  \* mutant of FinalClassification
    IF block \in BuildFailureCodes THEN "blocked" ELSE "success"
FinalClassification(block) ==
    IF block = None THEN "success"
    ELSE IF block = "evidence_incomplete" THEN "incomplete" ELSE "blocked"
=============================================================================
