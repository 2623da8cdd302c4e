---------------------------- MODULE WorkflowRun ----------------------------
(***************************************************************************)
(* One productive run of the orchestrator: W0WorkflowRunner.run() in       *)
(* orchestrator_service/workflow.py, executed by one daemon thread.  The   *)
(* runner drives the W0.2 run contract through its states, persists it     *)
(* after every move, calls the capabilities (each call may fail), spends   *)
(* the repair, assist and model-invocation budgets, and reports the        *)
(* outcome to the run summary, the step log and the Harness.               *)
(*                                                                         *)
(* A step of the thread is the code between two points at which the        *)
(* process may stop with different durable state behind it.  Every write   *)
(* to the artifact store may fail (OSError), every update_run call may     *)
(* fail before or after the Harness applied it, and the process may crash  *)
(* anywhere.  Candidates are numbered in the order they are produced: 1 is *)
(* the deterministic baseline.                                             *)
(***************************************************************************)
EXTENDS Naturals, RunContract

CONSTANTS RepairLimit,  \* repair_budget.limit
          AssistLimit,  \* assist_budget.limit
          ModelLimit    \* model_invocation_budget.limit

\* The budget classes refuse a limit below 1 (REPAIR_BUDGET_MIN and friends).
ASSUME LimitsAssumption ==
    /\ RepairLimit \in Nat \ {0}
    /\ AssistLimit \in Nat \ {0}
    /\ ModelLimit \in Nat \ {0}

VARIABLES
    request,     \* the switches of W0RunContext the control flow reads
    pc,          \* where the run thread is
    state,       \* contract.state_machine.current
    cls,         \* contract.final_classification
    code,        \* contract.failure_code
    javaRef,     \* contract.generated_java_ref, as a candidate number (0: none)
    saved,       \* w02-run-contract.json as last persisted
    writeFailed, \* history: some write of w02-run-contract.json raised
    repairUsed, assistUsed, modelUsed,   \* budget.used of the three budgets
    assist,      \* contract.assist_decision.reason_code
    calls,       \* productive Model Gateway calls made by the two agents
    project,     \* generated_project: the candidate the next build is given
    built,       \* the last build-test outcome and the candidate it is about
    blockCode,   \* w02_failure_code while w02_blocked, None otherwise
    evidence,    \* what write-evidence returned
    exc,         \* the exception caught by run()'s handler
    failure,     \* the handler's exc_failure_code and summary_status
    harness,     \* status of the run in the Harness core
    summary,     \* status in the run summary
    marker       \* terminal marker step in the progress log

contract == <<state, cls, code, javaRef, saved, writeFailed>>
budgets == <<repairUsed, assistUsed, modelUsed>>
locals == <<project, built, blockCode, evidence, assist>>
reports == <<harness, summary, marker>>
vars == <<request, pc, contract, budgets, calls, locals, exc, failure, reports>>

Requests == [parity : BOOLEAN, generateOnly : BOOLEAN, useAgent : BOOLEAN,
             prompt : BOOLEAN, manual : BOOLEAN]

AssistReasons == {None, "caller_explicit_opt_in", "deterministic_uncertainty",
                  "assist_budget_exhausted", "caller_did_not_opt_in"}

\* Thread positions.  The handler positions are those of run()'s except block.
MainPositions ==
    {"source", "announce", "capabilities", "parse", "ir", "baseline",
     "generate", "assist", "enter_agent", "pay_agent", "agent",
     "persist_candidate", "generate_only", "finalize_only", "route",
     "reference", "expected_output", "build", "parity_block", "repair",
     "pay_repair", "repair_agent", "enter_rebuild", "rebuild", "select",
     "guidance", "ledger", "evidence", "record_evidence", "finalize",
     "publish", "notify"}
HandlerPositions == {"handler", "handler_finalize", "handler_publish",
                     "handler_summary"}
Ended == {"done", "dead", "crashed"}

NoException == [kind |-> None, step |-> None]
NoBuild == [cand |-> 0, ok |-> FALSE, code |-> None]
NoFailure == [code |-> None, status |-> "failed"]
NoContract == [state |-> None, cls |-> None, code |-> None, javaRef |-> 0]

Init ==
    /\ request \in Requests
    /\ pc = "init"
    /\ state = "run_accepted"
    /\ cls = None /\ code = None /\ javaRef = 0
    /\ saved = NoContract /\ writeFailed = FALSE
    /\ repairUsed = 0 /\ assistUsed = 0 /\ modelUsed = 0 /\ calls = 0
    /\ assist = None
    /\ project = 0 /\ built = NoBuild /\ blockCode = None
    /\ evidence = None
    /\ exc = NoException /\ failure = NoFailure
    /\ harness = "starting" /\ summary = "open" /\ marker = "open"

-----------------------------------------------------------------------------
(* Building blocks                                                         *)

\* An exception leaves the try block: the thread continues in the handler.
Raise(e) == exc' = e /\ pc' = "handler"

\* A store write, or anything else without a step name, raises here.
Fault == /\ Raise([kind |-> "other", step |-> None])
         /\ UNCHANGED contract

\* _invoke_step gives up on a step after its retries, or finds that the
\* resolved capability carries no endpoint.
StepFault(step) ==
    /\ \E k \in {"step", "capability_missing"} : Raise([kind |-> k, step |-> step])
    /\ UNCHANGED contract

RaiseAgentError(kind) == /\ Raise([kind |-> kind, step |-> "transformation-agent"])
                         /\ UNCHANGED contract

Goto(next) == pc' = next /\ UNCHANGED exc

\* What w02-run-contract.json holds after a write of the contract (state s,
\* classification c, failure code f, and the Java reference as it is now).
Snapshot(s, c, f) == [state |-> s, cls |-> c, code |-> f, javaRef |-> javaRef']

\* _persist_w02_contract: the write succeeds and the thread continues at next
\* with exception e pending; or it raises, before the file is replaced or
\* between the file and the artifact index, and the thread is at onFault.
Persist(snapshot, next, e, onFault) ==
    \/ /\ saved' = snapshot
       /\ pc' = next /\ exc' = e
       /\ UNCHANGED writeFailed
    \/ /\ saved' \in {saved, snapshot}
       /\ writeFailed' = TRUE
       /\ pc' = onFault
       /\ exc' = IF onFault = "handler" THEN [kind |-> "other", step |-> None] ELSE exc

\* _advance_w02: WorkflowStateMachine.advance, then the persist.  The machine
\* has moved even when the persist raises.
AdvanceThen(target, next, e) ==
    /\ UNCHANGED <<cls, code>>
    /\ IF target \in AllowedTransitions[state]
       THEN /\ state' = target
            /\ Persist(Snapshot(target, cls, code), next, e, "handler")
       ELSE /\ UNCHANGED <<state, saved, writeFailed>>
            /\ Raise([kind |-> "illegal", step |-> None])

Advance(target, next) == AdvanceThen(target, next, exc)

\* _finalize_w02 over contract.finalize: classification and code are recorded
\* even if the machine refuses the last transition; then the persist.
Finalize(c, f, next, onFault) ==
    LET sealed == IF "final_classification" \in AllowedTransitions[state]
                  THEN "final_classification" ELSE state
    IN  /\ cls' = c /\ code' = f /\ state' = sealed
        /\ UNCHANGED javaRef
        /\ Persist(Snapshot(sealed, c, f), next, exc, onFault)

\* gateway.update_run: the Harness applies the status only to a run that is
\* not terminal (validateRunTransition); the caller may still see a failure,
\* whether or not the status was applied.
Applied(status) == IF harness \in {"starting", "updating"} THEN status ELSE harness

-----------------------------------------------------------------------------
(* Intake, parsing and the deterministic baseline                          *)

\* _init_w02_contract runs before the try block: if its store write raises,
\* the exception ends the thread and nothing reports it.
InitContract ==
    /\ pc = "init"
    /\ UNCHANGED <<state, cls, code, javaRef>>
    /\ Persist(Snapshot(state, cls, code), "source", exc, "dead")
    /\ UNCHANGED <<request, budgets, calls, locals, failure, reports>>

\* source.cbl, source-ref.json and the first summary, then source_normalized.
PersistSource ==
    /\ pc = "source"
    /\ UNCHANGED <<request, javaRef, budgets, calls, locals, failure, reports>>
    /\ Fault \/ Advance("source_normalized", "announce")

\* update_run("updating"), the summary and the skipped model policy.
Announce ==
    /\ pc = "announce"
    /\ \/ harness' = Applied("updating") /\ Goto("capabilities") /\ UNCHANGED contract
       \/ harness' \in {harness, Applied("updating")} /\ Fault
    /\ UNCHANGED <<request, budgets, calls, locals, failure, summary, marker>>

\* _require_capability for every step the run may take, before the first one.
RequireCapabilities ==
    /\ pc = "capabilities"
    /\ \/ Goto("parse")
       \/ \E step \in {"parse-cobol", "generate-ir", "generate-java",
                       "compile-test-java", "write-evidence"}
                      \cup (IF request.parity THEN {"source-reference-execution"} ELSE {}) :
             Raise([kind |-> "capability_missing", step |-> step])
    /\ UNCHANGED <<request, contract, budgets, calls, locals, failure, reports>>

ParseCobol ==
    /\ pc = "parse"
    /\ UNCHANGED <<request, javaRef, budgets, calls, locals, failure, reports>>
    /\ \/ StepFault("parse-cobol")
       \/ Raise([kind |-> "unsupported", step |-> "parse-cobol"]) /\ UNCHANGED contract
       \/ Fault
       \/ Advance("cobol_parse_attempted", "ir")

\* A failed step, an empty IR document or a failing IR status all move the
\* contract to semantic_ir_blocked before the exception goes on.
GenerateIr ==
    /\ pc = "ir"
    /\ UNCHANGED <<request, javaRef, budgets, calls, locals, failure, reports>>
    /\ \/ \E k \in {"step", "capability_missing"} :
             AdvanceThen("semantic_ir_blocked", "handler", [kind |-> k, step |-> "generate-ir"])
       \/ Fault
       \/ Advance("semantic_ir_ready", "baseline")

StartBaseline ==
    /\ pc = "baseline"
    /\ UNCHANGED <<request, javaRef, budgets, calls, locals, failure, reports>>
    /\ Advance("baseline_generation_attempted", "generate")

\* generate-java, the agent-shape guard on its payload, the project files and
\* the manifest.
GenerateJava ==
    /\ pc = "generate"
    /\ UNCHANGED <<request, contract, budgets, calls, built, blockCode, evidence,
                   assist, failure, reports>>
    /\ \/ project' = 1 /\ Goto("assist")
       \/ /\ UNCHANGED project
          /\ \/ StepFault("generate-java")
             \/ Raise([kind |-> "contract_invalid", step |-> "generate-java"])
             \/ Fault

-----------------------------------------------------------------------------
(* The assist gate and the transformation agent                            *)

\* _record_assist_decision: opting in spends one assist unit; the reason is
\* the most specific uncertainty marker of the baseline, if there is one.
AssistDecisions ==
    IF ~request.useAgent THEN {[reason |-> "caller_did_not_opt_in", used |-> assistUsed]}
    ELSE IF assistUsed >= AssistLimit
         THEN {[reason |-> "assist_budget_exhausted", used |-> assistUsed]}
         ELSE {[reason |-> r, used |-> assistUsed + 1] :
                  r \in {"caller_explicit_opt_in", "deterministic_uncertainty"}}

AssistAuthorised(reason) == reason \in {"caller_explicit_opt_in", "deterministic_uncertainty"}

DecideAssist ==
    /\ pc = "assist"
    /\ \E d \in AssistDecisions :
          /\ assist' = d.reason
          /\ assistUsed' = d.used
          /\ UNCHANGED <<state, cls, code, javaRef>>
          /\ Persist(Snapshot(state, cls, code),
                     IF request.useAgent /\ AssistAuthorised(d.reason) /\ ~request.parity
                     THEN "enter_agent" ELSE "persist_candidate",
                     exc, "handler")
    /\ UNCHANGED <<request, repairUsed, modelUsed, calls, project, built, blockCode,
                   evidence, failure, reports>>

EnterAgent ==
    /\ pc = "enter_agent"
    /\ UNCHANGED <<request, javaRef, budgets, calls, locals, failure, reports>>
    /\ Advance("transformation_agent_invoked", "pay_agent")

\* ModelInvocationBudget.exhausted.
ModelBudgetExhaustedLate == modelUsed > ModelLimit  \* mutant of the next
ModelBudgetExhausted == modelUsed >= ModelLimit

\* One model-invocation unit is spent before the gateway is contacted.
PayAgent ==
    /\ pc = "pay_agent"
    /\ IF ModelBudgetExhausted
       THEN /\ Raise([kind |-> "model_budget", step |-> "transformation-agent"])
            /\ UNCHANGED modelUsed
       ELSE modelUsed' = modelUsed + 1 /\ Goto("agent")
    /\ UNCHANGED <<request, contract, repairUsed, assistUsed, calls, locals, failure, reports>>

\* A transformation result without a candidate: the run is blocked and the
\* baseline is not built in its place.
AgentFallsBackToBaseline == UNCHANGED blockCode  \* mutant of the next
AgentBlocksRun == blockCode' \in AgentBlockCodes

\* _invoke_transformation_agent.  The capability lookup and the validation of
\* the request come before the gateway call; the call itself may be denied,
\* time out, fail or return output the contract rejects; a result without a
\* candidate blocks the run.
InvokeAgent ==
    /\ pc = "agent"
    /\ \/ /\ UNCHANGED <<calls, project, blockCode>>
          /\ \/ Raise([kind |-> "capability_missing", step |-> "model-guidance"])
             \/ RaiseAgentError("contract_invalid")
             \/ Fault
       \/ /\ calls' = calls + 1
          /\ \/ /\ UNCHANGED <<project, blockCode>>
                /\ \/ \E k \in {"policy_denied", "contract_invalid", "step"} : RaiseAgentError(k)
                   \/ Fault
             \/ project' = project + 1 /\ UNCHANGED blockCode /\ Goto("persist_candidate")
             \/ AgentBlocksRun /\ UNCHANGED project /\ Goto("persist_candidate")
    /\ UNCHANGED <<request, contract, budgets, built, evidence, assist, failure, reports>>

\* set_generated_java_ref and java_candidate_persisted.
PersistCandidate ==
    /\ pc = "persist_candidate"
    /\ javaRef' = project
    /\ Advance("java_candidate_persisted",
               IF request.generateOnly /\ blockCode = None THEN "generate_only" ELSE "route")
    /\ UNCHANGED <<request, budgets, calls, locals, failure, reports>>

\* generate_only stops here: run_blocked, then the sentinel classification.
StopWithoutBlocking ==  \* mutant of the next
    /\ pc = "generate_only"
    /\ Goto("finalize_only")
    /\ UNCHANGED <<request, contract, budgets, calls, locals, failure, reports>>

StopAfterGeneration ==
    /\ pc = "generate_only"
    /\ UNCHANGED <<request, javaRef, budgets, calls, locals, failure, reports>>
    /\ Advance("run_blocked", "finalize_only")

\* An agent that returned no candidate blocks the run before build/test.
Route ==
    /\ pc = "route"
    /\ UNCHANGED <<request, javaRef, budgets, calls, locals, failure, reports>>
    /\ IF blockCode # None
       THEN Advance("run_blocked", "guidance")
       ELSE Advance("build_test_running", IF request.parity THEN "reference" ELSE "build")

-----------------------------------------------------------------------------
(* Build, test and the verification/repair loop                            *)

\* w02_blocked is set, the contract moves to run_blocked and the run goes on
\* to its evidence.
Block(c) == blockCode' = c /\ Advance("run_blocked", "guidance")

\* Parity runs execute the source reference first; if it did not pass the run
\* is blocked, and the fixture's expected output is loaded all the same.
ExecuteSourceReference ==
    /\ pc = "reference"
    /\ UNCHANGED <<request, javaRef, budgets, calls, project, built, evidence, assist,
                   failure, reports>>
    /\ \/ UNCHANGED blockCode /\ (StepFault("source-reference-execution") \/ Fault)
       \/ UNCHANGED <<blockCode, contract>> /\ Goto("expected_output")
       \/ /\ blockCode' \in {"unsupported_cobol", "source_reference_failed"}
          /\ Advance("run_blocked", "expected_output")

LoadExpectedOutput ==
    /\ pc = "expected_output"
    /\ \/ Fault
       \/ Goto(IF blockCode = None THEN "build" ELSE "guidance") /\ UNCHANGED contract
    /\ UNCHANGED <<request, budgets, calls, locals, failure, reports>>

\* compile-test-java on the current project and build_test_outcome of its
\* payload.
BuildOutcomes == {[ok |-> TRUE, code |-> None]} \cup [ok : {FALSE}, code : BuildFailureCodes]

RunBuild ==
    /\ \/ UNCHANGED built /\ (StepFault("compile-test-java") \/ Fault)
       \/ \E o \in BuildOutcomes :
             /\ built' = [cand |-> project, ok |-> o.ok, code |-> o.code]
             /\ Goto(IF o.ok THEN "select" ELSE IF request.parity THEN "parity_block" ELSE "repair")
             /\ UNCHANGED contract
    /\ UNCHANGED <<request, budgets, calls, project, blockCode, evidence, assist, failure, reports>>

Build == pc = "build" /\ RunBuild

\* A parity run that fails verification is blocked without a repair.
BlockParity ==
    /\ pc = "parity_block"
    /\ UNCHANGED <<request, javaRef, budgets, calls, project, built, evidence, assist,
                   failure, reports>>
    /\ Block(built.code)

\* The head of the repair loop: exhausted budget, a baseline that surfaces no
\* files, or verification_repair_invoked.
EnterRepair ==
    /\ pc = "repair"
    /\ UNCHANGED <<request, javaRef, budgets, calls, project, built, evidence, assist,
                   failure, reports>>
    /\ IF repairUsed >= RepairLimit
       THEN Block(built.code)
       ELSE \/ project = 1 /\ Block(built.code)
            \/ UNCHANGED blockCode /\ Advance("verification_repair_invoked", "pay_repair")

\* should_manual_region_block_repair (ADR 0007): manual regions stop the agent
\* unless the caller opted in and the gate recorded exactly that reason.
ManualRegionBlocks == request.manual /\ assist # "caller_explicit_opt_in"

\* One repair unit and, unless the manual-region rule will stop the agent, one
\* model-invocation unit.
PayRepair ==
    /\ pc = "pay_repair"
    /\ UNCHANGED <<request, javaRef, assistUsed, calls, project, built, evidence, assist,
                   failure, reports>>
    /\ IF repairUsed >= RepairLimit
       THEN UNCHANGED <<repairUsed, modelUsed>> /\ Block(built.code)
       ELSE /\ repairUsed' = repairUsed + 1
            /\ IF ManualRegionBlocks
               THEN UNCHANGED <<modelUsed, blockCode, contract>> /\ Goto("repair_agent")
               ELSE IF ModelBudgetExhausted
                    THEN UNCHANGED modelUsed /\ Block(built.code)
                    ELSE /\ modelUsed' = modelUsed + 1
                         /\ UNCHANGED <<blockCode, contract>>
                         /\ Goto("repair_agent")

\* The proposed candidate becomes the project and the contract's Java.
ReplaceProjectOnly == project' = project + 1 /\ UNCHANGED javaRef  \* mutant of the next
ReplaceCandidate == project' = project + 1 /\ javaRef' = project'

\* _invoke_repair_agent and RepairAgent.invoke: the capability lookup, the
\* manual-region short circuit (no_change), the request validation, then the
\* gateway call and its failures, refusals, escalations and unchanged answers;
\* a proposed candidate replaces the project and is persisted.
InvokeRepair ==
    /\ pc = "repair_agent"
    /\ \/ /\ UNCHANGED <<calls, project, javaRef, blockCode, contract>>
          /\ Raise([kind |-> "capability_missing", step |-> "model-guidance"])
       \/ /\ ManualRegionBlocks
          /\ UNCHANGED <<calls, project, javaRef>>
          /\ Block("java_generation_failed")
       \/ /\ ~ManualRegionBlocks
          /\ UNCHANGED <<project, javaRef>>
          /\ \/ UNCHANGED calls /\ Block("agent_contract_invalid")
             \/ UNCHANGED <<calls, blockCode>> /\ Fault
             \/ calls' = calls + 1 /\ UNCHANGED blockCode /\ Fault
             \/ calls' = calls + 1 /\ \E c \in RepairExceptionCodes \cup RepairRefusalCodes : Block(c)
       \/ /\ ~ManualRegionBlocks
          /\ calls' = calls + 1
          /\ ReplaceCandidate
          /\ UNCHANGED blockCode
          /\ Advance("java_candidate_persisted", "enter_rebuild")
    /\ UNCHANGED <<request, budgets, built, evidence, assist, failure, reports>>

EnterRebuild ==
    /\ pc = "enter_rebuild"
    /\ UNCHANGED <<request, javaRef, budgets, calls, locals, failure, reports>>
    /\ Advance("build_test_running", "rebuild")

Rebuild == pc = "rebuild" /\ RunBuild

SelectFinalJava ==
    /\ pc = "select"
    /\ UNCHANGED <<request, javaRef, budgets, calls, locals, failure, reports>>
    /\ Advance("final_java_selected", "guidance")

-----------------------------------------------------------------------------
(* Guidance, evidence and the normal ending                                *)

\* model-guidance runs only for an unblocked, non-parity run with a prompt.
ModelGuidance ==
    /\ pc = "guidance"
    /\ \/ Goto("ledger") /\ UNCHANGED contract
       \/ Fault
       \/ /\ request.prompt /\ blockCode = None /\ ~request.parity
          /\ \/ StepFault("model-guidance")
             \/ Raise([kind |-> "policy_denied", step |-> "model-guidance"]) /\ UNCHANGED contract
    /\ UNCHANGED <<request, budgets, calls, locals, failure, reports>>

\* _fetch_trajectory_ledger and the persist of the ledger.
FetchLedger ==
    /\ pc = "ledger"
    /\ (Goto("evidence") /\ UNCHANGED contract) \/ Fault
    /\ UNCHANGED <<request, budgets, calls, locals, failure, reports>>

WriteEvidence ==
    /\ pc = "evidence"
    /\ \/ UNCHANGED evidence /\ (StepFault("write-evidence") \/ Fault)
       \/ /\ evidence' \in {"materialized", "incomplete"}
          /\ Goto("record_evidence") /\ UNCHANGED contract
    /\ UNCHANGED <<request, budgets, calls, project, built, blockCode, assist, failure, reports>>

\* An incomplete pack blocks a run that was on its way to success.
EvidenceNeverBlocks == blockCode  \* mutant of the next
BlockAfterIncompleteEvidence ==
    IF blockCode = None THEN "evidence_incomplete" ELSE blockCode

RecordEvidence ==
    /\ pc = "record_evidence"
    /\ UNCHANGED <<request, javaRef, budgets, calls, project, built, evidence, assist,
                   failure, reports>>
    /\ IF evidence = "materialized"
       THEN UNCHANGED blockCode /\ Advance("evidence_materialized", "finalize")
       ELSE /\ blockCode' = BlockAfterIncompleteEvidence
            /\ Advance("evidence_incomplete", "finalize")

FinalizeIgnoringStore ==  \* mutant of the next
    /\ pc = "finalize"
    /\ Finalize(FinalClassification(blockCode), blockCode, "publish", "publish")
    /\ UNCHANGED <<request, budgets, calls, locals, failure, reports>>

FinalizeRun ==
    /\ pc = "finalize"
    /\ Finalize(FinalClassification(blockCode), blockCode, "publish", "handler")
    /\ UNCHANGED <<request, budgets, calls, locals, failure, reports>>

FinalizeGenerateOnly ==
    /\ pc = "finalize_only"
    /\ Finalize("incomplete", "generate_only_complete", "publish", "handler")
    /\ UNCHANGED <<request, budgets, calls, locals, failure, reports>>

\* The terminal marker and the summary.
Publish ==
    /\ pc = "publish"
    /\ marker' = IF blockCode = None THEN "completed" ELSE "failed"
    /\ LET status == IF blockCode = None THEN "completed" ELSE "blocked" IN
          \/ summary' = status /\ Goto("notify") /\ UNCHANGED contract
          \/ summary' \in {summary, status} /\ Fault
    /\ UNCHANGED <<request, budgets, calls, locals, failure, harness>>

\* The failed notification is retried for as long as it fails.
NotifyForever ==  \* mutant of the next
    /\ pc = "notify"
    /\ \/ harness' = Applied("completed") /\ Goto("done")
       \/ UNCHANGED harness /\ Goto("publish")
    /\ UNCHANGED <<request, contract, budgets, calls, locals, failure, summary, marker>>

\* update_run with the terminal status, then the flush to experience learning
\* (best effort) and the return.
Notify ==
    /\ pc = "notify"
    /\ LET status == IF blockCode = None THEN "completed" ELSE "failed" IN
          \/ harness' = Applied(status) /\ Goto("done") /\ UNCHANGED contract
          \/ harness' \in {harness, Applied(status)} /\ Fault
    /\ UNCHANGED <<request, budgets, calls, locals, failure, summary, marker>>

-----------------------------------------------------------------------------
(* run()'s exception handler                                               *)

\* Where the handler drives a contract that is not final.
HandlerTargetBlockedOnly == "run_blocked"  \* mutant of the next
HandlerTarget ==
    IF FailedStep(exc) = "write-evidence" \/ state = "final_java_selected"
    THEN "evidence_incomplete" ELSE "run_blocked"

NeverFinal == FALSE  \* mutant of the next
AlreadyFinal == state = "final_classification"

\* The failure code is taken from the exception and the state it met; unless
\* the contract is already final, it is driven to evidence_incomplete or to
\* run_blocked.  An illegal move is swallowed; a store failure skips the
\* finalisation.
ClassifyFailure ==
    /\ pc = "handler"
    /\ UNCHANGED <<request, cls, code, javaRef, budgets, calls, locals, reports>>
    /\ failure' = [failure EXCEPT !.code = FailureCodeFromException(exc, state)]
    /\ LET target == HandlerTarget
           stays == state \in {"run_blocked", "evidence_incomplete", "evidence_materialized"}
                    /\ target = "run_blocked"
       IN  IF AlreadyFinal
           THEN Goto("handler_publish") /\ UNCHANGED <<state, saved, writeFailed>>
           ELSE IF stays \/ target \notin AllowedTransitions[state]
           THEN Goto("handler_finalize") /\ UNCHANGED <<state, saved, writeFailed>>
           ELSE /\ state' = target
                /\ Persist(Snapshot(target, cls, code), "handler_finalize", exc, "handler_publish")

FinalizeFailure ==
    /\ pc = "handler_finalize"
    /\ LET c == FinalClassificationForFailureCode(failure.code)
       IN  /\ failure' = [failure EXCEPT !.status = c]
           /\ Finalize(c, failure.code, "handler_publish", "handler_publish")
    /\ UNCHANGED <<request, budgets, calls, locals, reports>>

\* The failed marker, then update_run("failed"); both best effort.
PublishFailure ==
    /\ pc = "handler_publish"
    /\ marker' = "failed"
    /\ harness' \in {harness, Applied("failed")}
    /\ Goto("handler_summary")
    /\ UNCHANGED <<request, contract, budgets, calls, locals, failure, summary>>

\* The summary (best effort), the flush, and the exception ends the thread.
SummariseFailure ==
    /\ pc = "handler_summary"
    /\ summary' \in {summary, failure.status}
    /\ Goto("done")
    /\ UNCHANGED <<request, contract, budgets, calls, locals, failure, harness, marker>>

-----------------------------------------------------------------------------
\* The orchestrator process dies; its run threads are daemons and nothing
\* resumes a run after a restart.
Crash ==
    /\ pc \notin Ended
    /\ Goto("crashed")
    /\ UNCHANGED <<request, contract, budgets, calls, locals, failure, reports>>

\* The thread has ended.
Stopped == pc \in Ended /\ UNCHANGED vars

RunThread ==
    \/ InitContract \/ PersistSource \/ Announce \/ RequireCapabilities
    \/ ParseCobol \/ GenerateIr \/ StartBaseline \/ GenerateJava
    \/ DecideAssist \/ EnterAgent \/ PayAgent \/ InvokeAgent
    \/ PersistCandidate \/ StopAfterGeneration \/ Route
    \/ ExecuteSourceReference \/ LoadExpectedOutput \/ Build \/ BlockParity
    \/ EnterRepair \/ PayRepair \/ InvokeRepair \/ EnterRebuild \/ Rebuild
    \/ SelectFinalJava \/ ModelGuidance \/ FetchLedger \/ WriteEvidence
    \/ RecordEvidence \/ FinalizeRun \/ FinalizeGenerateOnly \/ Publish
    \/ Notify \/ ClassifyFailure \/ FinalizeFailure \/ PublishFailure
    \/ SummariseFailure

Next == RunThread \/ Crash \/ Stopped

Spec == Init /\ [][Next]_vars

\* Every remote call has a timeout and every retry loop a bound, so a live
\* process keeps running the thread.  Nothing is assumed of crashes.
FairSpec == Spec /\ WF_vars(RunThread)

-----------------------------------------------------------------------------
(* Properties                                                              *)

Sealed == state = "final_classification"

\* Every variable stays in the set of values the code can give it.
TypeOK ==
    /\ request \in Requests
    /\ pc \in {"init"} \cup MainPositions \cup HandlerPositions \cup Ended
    /\ state \in WorkflowStates
    /\ cls \in FinalClassifications \cup {None}
    /\ code \in FailureCodes \cup {None}
    /\ javaRef \in Nat
    /\ saved \in [state : WorkflowStates \cup {None}, cls : FinalClassifications \cup {None},
                  code : FailureCodes \cup {None}, javaRef : Nat]
    /\ writeFailed \in BOOLEAN
    /\ repairUsed \in Nat /\ assistUsed \in Nat /\ modelUsed \in Nat /\ calls \in Nat
    /\ assist \in AssistReasons
    /\ project \in Nat
    /\ built \in [cand : Nat, ok : BOOLEAN, code : BuildFailureCodes \cup {None}]
    /\ blockCode \in FailureCodes \cup {None}
    /\ evidence \in {None, "materialized", "incomplete"}
    /\ exc \in Exceptions \cup {NoException}
    /\ failure \in [code : FailureCodes \cup {None}, status : {"failed", "blocked"}]
    /\ harness \in {"starting", "updating", "completed", "failed"}
    /\ summary \in {"open", "completed", "blocked", "failed"}
    /\ marker \in {"open", "completed", "failed"}

\* A run is classified a success, in memory or in w02-run-contract.json, only
\* if the Java the contract refers to is the candidate the last build-test
\* verified, its evidence pack is complete and nothing blocked the run.
SuccessIsVerified ==
    /\ cls = "success" =>
          /\ built.ok /\ built.cand = javaRef /\ javaRef # 0
          /\ evidence = "materialized" /\ blockCode = None
    /\ saved.cls = "success" =>
          cls = "success" /\ saved.javaRef = built.cand

\* When the assist gate authorised the transformation agent, the baseline
\* never stands in for the agent's candidate: neither a success nor a
\* completed generate-only run refers to candidate 1.
BaselineNeverStandsIn ==
    (cls = "success" \/ code = "generate_only_complete") =>
        (AssistAuthorised(assist) /\ ~request.parity => javaRef > 1)

\* Every productive gateway call was paid before it was made, no budget is
\* overdrawn, every candidate beyond the baseline comes from a paid call, and
\* under the manual-region rule no repair call is made at all.
BudgetsHold ==
    /\ calls <= modelUsed /\ modelUsed <= ModelLimit
    /\ repairUsed <= RepairLimit /\ assistUsed <= AssistLimit
    /\ project <= 1 + calls
    /\ pc # "init" /\ assist # None /\ ManualRegionBlocks =>
          calls <= IF AssistAuthorised(assist) THEN 1 ELSE 0

\* "the runner only ever calls _advance_w02 with valid transitions": the state
\* machine refuses no move of the runner, and the contract can take its last
\* transition wherever the runner finalises it.
AdvanceAlwaysLegal ==
    /\ exc.kind # "illegal"
    /\ pc \in {"finalize", "finalize_only", "handler_finalize"} =>
          "final_classification" \in AllowedTransitions[state]

\* A non-success verdict carries the failure code contract.finalize insists
\* on, and a success carries none.
VerdictHasReason ==
    /\ Sealed => cls # None /\ (cls = "success" <=> code = None)
    /\ cls # None => Sealed

\* Once the contract is sealed, in memory or on disk, no later step of the
\* thread, the exception handler included, changes the verdict.
VerdictFrozen ==
    [][ /\ Sealed => UNCHANGED <<state, cls, code, javaRef>>
        /\ saved.cls # None => saved' = saved ]_vars

\* The Harness, the summary or the step log says "completed" only when the
\* contract on disk is sealed as a success or as a generate-only run.
CompletedIsDurable ==
    "completed" \in {harness, summary, marker} =>
        /\ saved.state = "final_classification"
        /\ saved.cls = "success" \/ saved.code = "generate_only_complete"

\* A thread that ends leaves the contract sealed, with the same contract on
\* disk, unless a write of the contract file failed.
SealedUnlessWriteFailed ==
    pc = "done" /\ ~writeFailed =>
        /\ Sealed
        /\ saved = [state |-> state, cls |-> cls, code |-> code, javaRef |-> javaRef]

\* When the repair loop is left with the code of the last failing build (the
\* budget is exhausted), the sealed contract is blocked with that code: "the
\* run is blocked with the LAST objective build-test failure code preserved".
LastBuildFailurePreserved ==
    (Sealed /\ ~writeFailed /\ ~request.parity /\ repairUsed = RepairLimit
       /\ blockCode \in BuildFailureCodes) =>
        cls = "blocked" /\ code = blockCode

\* The run thread ends, unless the process crashes.
Termination == <>(pc \in Ended)

\* The consumer's view of a run (refinement mapping to RunOutcome).
Outcome == INSTANCE RunOutcome WITH
    chosen <- javaRef,
    verified <- IF built.ok THEN built.cand ELSE 0,
    evidenced <- evidence = "materialized",
    verdict <- IF Sealed THEN <<cls, code>> ELSE <<>>,
    FailureVerdicts <- (FinalClassifications \ {"success"}) \X FailureCodes,
    SuccessVerdict <- <<"success", None>>,
    NoVerdict <- <<>>

\* The runner implements the abstract run outcome.
RefinesOutcome == Outcome!Spec
=============================================================================
