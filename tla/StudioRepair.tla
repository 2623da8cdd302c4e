---------------------------- MODULE StudioRepair ----------------------------
(***************************************************************************)
(* The governed repair in the Studio: manualCompileRepair in the store     *)
(* (apps/c2c-studio/src/stores/transformationRun.tsx), its panel           *)
(* (components/generated/ManualCompileRepairPanel.tsx) and the pane that   *)
(* asks for it (GeneratedJavaEditorPane.tsx).  What the orchestrator does  *)
(* with the requests is ManualCompileRepair; here each is a call that is   *)
(* answered, well or badly, in any order with the others.                  *)
(*                                                                         *)
(* A preview and a proposal are named by the number of the request that    *)
(* led to them.  candidateProject and diagnosis come with the proposal.    *)
(***************************************************************************)
EXTENDS Integers

CONSTANTS None, RepairRuns, MaxPresses  \* bound: what the user does in the panel

VARIABLES
    onRun,      \* state.runId
    open,       \* showManualCompileRepairPanel
    repair,     \* manualCompileRepair, or None
    request,    \* activeManualCompileRepairRequestRef
    asked,      \* the calls under way
    sandboxed,  \* the proposals whose sandbox application was acknowledged
    presses     \* what the user did so far

repairVars == <<onRun, open, repair, request, asked, sandboxed, presses>>

RepairInit ==
    /\ onRun = 1 /\ open = FALSE /\ repair = None /\ request = 0
    /\ asked = {} /\ sandboxed = {} /\ presses = 0

Press == presses < MaxPresses /\ presses' = presses + 1

Session(status, r, preview, proposal) ==
    [status |-> status, run |-> r, preview |-> preview, proposal |-> proposal]
\* A call with the request it is of, the preview and the proposal it names.
Call(kind, r, id, preview, proposal) ==
    [kind |-> kind, run |-> r, id |-> id, preview |-> preview, proposal |-> proposal]

\* manualCompileRepairPending, the panel's busy
Busy == repair # None /\ repair.status \in {"previewing", "loading", "applying",
                                            "accepting", "rejecting"}
\* setManualCompileRepair with a status only: nothing for a session that is gone.
WithStatus(status) == IF repair = None THEN None ELSE [repair EXCEPT !.status = status]
Answered(call, more) == call \in asked /\ asked' = (asked \ {call}) \cup more

-----------------------------------------------------------------------------
(* Preview and diagnosis                                                   *)

\* diagnoseManualCompileRepair of the pane, up to the first await: the panel
\* opens and startManualCompileRepairPreview starts a session.
AskCodingAgent ==
    /\ Press /\ ~Busy
    /\ open' = TRUE /\ request' = request + 1
    /\ repair' = Session("previewing", onRun, None, None)
    /\ asked' = asked \cup {Call("preview", onRun, request + 1, None, None)}
    /\ UNCHANGED <<onRun, sandboxed>>

\* startManualCompileRepairDiagnose from the state s.
DiagnoseCall(r, preview) == Call("diagnose", r, request + 1, preview, None)
Diagnosing(s, r) ==
    IF s = None THEN Session("loading", r, None, None) ELSE [s EXCEPT !.status = "loading"]

\* The preview is there.  The store keeps it unless another request was made;
\* the pane asks for the diagnosis all the same, also when the panel was closed.
PreviewReady(call) ==
    /\ call.kind = "preview" /\ Answered(call, {DiagnoseCall(call.run, call.id)})
    /\ repair' = Diagnosing(IF call.id = request
                            THEN Session("preview_ready", call.run, call.id, None)
                            ELSE repair, call.run)
    /\ request' = request + 1
    /\ UNCHANGED <<onRun, open, sandboxed, presses>>
DiagnosisReady(call) ==
    /\ call.kind = "diagnose" /\ Answered(call, {})
    /\ \E proposal \in {None, call.id} :
          repair' = IF call.id # request THEN repair
                    ELSE Session("ready", call.run,
                                 IF repair = None THEN None ELSE repair.preview, proposal)
    /\ UNCHANGED <<onRun, open, request, sandboxed, presses>>
RequestFails(call) ==
    /\ call.kind \in {"preview", "diagnose"} /\ Answered(call, {})
    /\ repair' = IF call.id # request THEN repair ELSE WithStatus("error")
    /\ UNCHANGED <<onRun, open, request, sandboxed, presses>>

\* startRepairAgent, "Retry diagnosis" in the panel.
StartRepairAgent ==
    /\ Press /\ open /\ repair # None /\ repair.status = "error" /\ repair.preview # None
    /\ request' = request + 1
    /\ repair' = Diagnosing(repair, repair.run)
    /\ asked' = asked \cup {DiagnoseCall(repair.run, repair.preview)}
    /\ UNCHANGED <<onRun, open, sandboxed>>

-----------------------------------------------------------------------------
(* The decision.  These calls have no request number.                      *)

Decide(kind, status) ==
    /\ repair' = [repair EXCEPT !.status = status]
    /\ asked' = asked \cup {Call(kind, repair.run, 0, repair.preview, repair.proposal)}
    /\ UNCHANGED <<onRun, open, request, sandboxed>>

\* applyManualCompileRepair
ApplyRepair ==
    /\ Press /\ open /\ repair # None
    /\ repair.status = "ready" /\ repair.proposal # None /\ repair.preview # None
    /\ Decide("apply", "applying")

\* Mutant: the panel's candidate is enough.
HasCandidate(s) == s.status \in {"ready", "sandbox_ready"} /\ s.proposal # None
\* What acceptManualCompileRepair asks of the session.
SandboxReady(s) == s.status = "sandbox_ready" /\ s.proposal # None
AcceptRepair ==
    /\ Press /\ open /\ repair # None /\ SandboxReady(repair)
    /\ Decide("accept", "accepting")

\* rejectManualCompileRepair
RejectRepair ==
    /\ Press /\ open /\ repair # None /\ ~Busy /\ repair.proposal # None
    /\ Decide("reject", "rejecting")

\* The answer of an application goes to whatever session is there by now.
SandboxAnswers(call) ==
    /\ call.kind = "apply" /\ Answered(call, {})
    /\ repair' = IF repair = None THEN None
                 ELSE [repair EXCEPT !.status = "sandbox_ready", !.proposal = call.proposal]
    /\ sandboxed' = sandboxed \cup {call.proposal}
    /\ UNCHANGED <<onRun, open, request, presses>>
\* Accepted (the files go to the buffers, AcceptCandidate in StudioJava) or
\* rejected: the session ends and the panel closes.
DecisionMade(call) ==
    /\ call.kind \in {"accept", "reject"} /\ Answered(call, {})
    /\ repair' = None /\ open' = FALSE
    /\ UNCHANGED <<onRun, request, sandboxed, presses>>
DecisionFails(call) ==
    /\ call.kind \in {"apply", "accept", "reject"} /\ Answered(call, {})
    /\ repair' = WithStatus("error")
    /\ UNCHANGED <<onRun, open, request, sandboxed, presses>>

\* onClose: clearManualCompileRepair leaves the request number as it is.
CloseRepair ==
    /\ Press /\ open /\ open' = FALSE /\ repair' = None
    /\ UNCHANGED <<onRun, request, asked, sandboxed>>

\* A new run does not touch the session.
RepairNextRun ==
    /\ onRun + 1 \in RepairRuns /\ onRun' = onRun + 1
    /\ UNCHANGED <<open, repair, request, asked, sandboxed, presses>>

RepairNext ==
    \/ AskCodingAgent \/ StartRepairAgent \/ ApplyRepair \/ AcceptRepair
    \/ RejectRepair \/ CloseRepair \/ RepairNextRun
    \/ \E call \in asked :
          \/ PreviewReady(call) \/ DiagnosisReady(call) \/ RequestFails(call)
          \/ SandboxAnswers(call) \/ DecisionMade(call) \/ DecisionFails(call)

-----------------------------------------------------------------------------
(* Properties                                                              *)

\* However previews, diagnoses and late answers of a closed panel replace each
\* other in the session, what the user accepts was applied to the sandbox
\* before ("Any accepted patch must first pass the sandbox rerun").
AcceptedWasSandboxed == \A call \in asked : call.kind = "accept" => call.proposal \in sandboxed

\* A panel that is busy has a call under way whose answer ends that: late
\* answers never leave it waiting for nothing.
BusyIsAnswered ==
    Busy => \E call \in asked :
        CASE repair.status = "previewing" -> call.kind = "preview" /\ call.id = request
          [] repair.status = "loading" -> call.kind = "diagnose" /\ call.id = request
          [] repair.status = "applying" -> call.kind = "apply"
          [] repair.status = "accepting" -> call.kind = "accept"
          [] repair.status = "rejecting" -> call.kind = "reject"
=============================================================================
