------------------------ MODULE ManualCompileRepair ------------------------
(***************************************************************************)
(* The developer-driven repair of one run (manual_compile_repair_preview,  *)
(* _diagnose, _apply, _accept and _reject in                               *)
(* orchestrator_service/workflow.py).  The developer previews the current  *)
(* Java, lets the repair agent diagnose it, applies a proposal to the      *)
(* sandbox, and accepts or rejects it.                                     *)
(*                                                                         *)
(* All five share one directory of the run: one snapshot, one context      *)
(* preview, one candidate, one sandbox and one sandbox build result,       *)
(* whatever the number of proposals; proposals and approval records have a *)
(* file per proposal.  The HTTP server handles one request at a time, so   *)
(* requests do not interleave, but a store write or the sandbox build may  *)
(* raise and leave a request half done.  A project is one value: the       *)
(* content of its files.  A slot is written file by file, its manifest     *)
(* last; a write that raises in between leaves a mixture of the old and    *)
(* the new project, which may be any content.                              *)
(***************************************************************************)
CONSTANTS Heads,      \* contents of the snapshot: the developer's Java, or a mixture
          Answers,    \* contents the repair agent leads to
          NoProject   \* nothing has been written yet

Projects == Heads \cup Answers

ASSUME NoProjectAssumption == NoProject \notin Projects

\* A patch is what its hash covers: the content it starts from and the content
\* it leads to.  A proposal without a changed file is not written.
Patches == {p \in [before : Heads, after : Answers] : p.before # p.after}

VARIABLES
    buildResult,   \* build-test-result.json of the run: "none", "failed", "ok"
    snapshot,      \* snapshot/: the developer's Java as of the last preview
    preview,       \* context-preview.json: the content its previewId hashes
    candidate,     \* candidate/: the snapshot with the agent's files over it
    sandbox,       \* sandbox/: the candidate last applied
    sandboxBuild,  \* sandbox-build-test-result.json: the content it is about
    proposals,     \* proposal-{id}.json, per patch
    approvals,     \* approval-{id}.json, per patch
    tested         \* history: contents the sandbox build returned a result for

slots == <<snapshot, preview, candidate, sandbox, sandboxBuild>>
vars == <<buildResult, slots, proposals, approvals, tested>>

\* applicationState, approvalState, sandboxCandidateRef.
Proposal(app, appr, ref) == [application |-> app, approval |-> appr, sandboxRef |-> ref]
NoProposal == Proposal("absent", "absent", NoProject)
Fresh == Proposal("review_pending", "pending", NoProject)

Init ==
    /\ buildResult = "none"
    /\ snapshot = NoProject /\ preview = NoProject /\ candidate = NoProject
    /\ sandbox = NoProject /\ sandboxBuild = NoProject
    /\ proposals = [p \in Patches |-> NoProposal]
    /\ approvals = [p \in Patches |-> "none"]
    /\ tested = {}

\* What a write of project new that raises may leave in a slot; a slot that was
\* never written has no manifest and stays unreadable.
Mixture(slot, new, contents) ==
    IF slot = NoProject THEN {NoProject} ELSE IF slot = new THEN {new} ELSE contents

\* The run thread writes its first build-test result, once.
RunBuilds ==
    /\ buildResult = "none"
    /\ buildResult' \in {"failed", "ok"}
    /\ UNCHANGED <<slots, proposals, approvals, tested>>

\* The snapshot is written first; the preview only if the run has a failed
\* build-test result, and only if no write raises in between.
Preview(head) ==
    /\ \/ /\ snapshot' = head
          /\ \/ buildResult = "failed" /\ preview' = head
             \/ UNCHANGED preview
       \/ snapshot' \in Mixture(snapshot, head, Heads) /\ UNCHANGED preview
    /\ UNCHANGED <<buildResult, candidate, sandbox, sandboxBuild, proposals, approvals,
                   tested>>

\* The agent works on the snapshot.  Its answer (the snapshot itself when it
\* returned no candidate) is written to the candidate slot; a changed project
\* becomes a proposal to review, also when that proposal was decided before.
\* The writes after the candidate may raise.
Diagnose(pv) ==
    /\ preview # NoProject /\ pv = preview
    /\ \E answer \in Answers \cup {snapshot} :
          \/ /\ candidate' = answer
             /\ \/ /\ answer # snapshot
                   /\ proposals' = [proposals EXCEPT ![[before |-> snapshot, after |-> answer]] = Fresh]
                \/ UNCHANGED proposals
          \/ candidate' \in Mixture(candidate, answer, Projects) /\ UNCHANGED proposals
    /\ UNCHANGED <<buildResult, snapshot, preview, sandbox, sandboxBuild, approvals, tested>>

\* _validate_manual_compile_apply_proposal: still undecided.
ApplicableUnlessApproved(p) ==  \* mutant of the next
    proposals[p].application # "absent" /\ proposals[p].approval # "approved"
Applicable(p) ==
    /\ proposals[p].approval = "pending"
    /\ proposals[p].application \in {"review_pending", "sandbox_applied"}

\* _validate_manual_compile_apply_candidate: the candidate slot is the snapshot
\* with exactly this patch applied.
OnlyBaseMatches(p) == snapshot = p.before  \* mutant of the next
CandidateMatches(p) == snapshot = p.before /\ candidate = p.after

\* manual_compile_repair_apply: the sandbox is overwritten before the build,
\* which may raise; the build result and the proposal follow, each a write
\* that may raise.
AppliedBeforeBuild(p) ==  \* mutant of the next
    /\ sandbox' = candidate
    /\ proposals' = [proposals EXCEPT ![p] = Proposal("sandbox_applied", "pending", candidate)]
    /\ UNCHANGED <<sandboxBuild, tested>>
BuildInSandbox(p) ==
    \/ /\ sandbox' \in {candidate} \cup Mixture(sandbox, candidate, Projects)
       /\ UNCHANGED <<sandboxBuild, tested, proposals>>
    \/ /\ sandbox' = candidate
       /\ sandboxBuild' = candidate /\ tested' = tested \cup {candidate}
       /\ \/ UNCHANGED proposals
          \/ proposals' = [proposals EXCEPT
                             ![p] = Proposal("sandbox_applied", "pending", candidate)]

Apply(pv, p) ==
    /\ preview # NoProject /\ pv = preview
    /\ Applicable(p)
    /\ CandidateMatches(p)
    /\ BuildInSandbox(p)
    /\ UNCHANGED <<buildResult, snapshot, preview, candidate, approvals>>

\* manual_compile_repair_accept: the proposal is checked, the sandbox and its
\* build result are read from their slots; the proposal is written, then the
\* approval record, then the slots' content is returned.
Accept(p) ==
    /\ proposals[p].application = "sandbox_applied" /\ proposals[p].approval = "pending"
    /\ sandbox # NoProject /\ sandboxBuild # NoProject
    /\ proposals' = [proposals EXCEPT
                        ![p] = Proposal("applied", "approved", proposals[p].sandboxRef)]
    /\ \/ approvals' = [approvals EXCEPT ![p] = "approved"]
       \/ UNCHANGED approvals
    /\ UNCHANGED <<buildResult, slots, tested>>

\* manual_compile_repair_reject: only before the sandbox was used.
Reject(p) ==
    /\ proposals[p].application = "review_pending" /\ proposals[p].approval = "pending"
    /\ proposals' = [proposals EXCEPT
                        ![p] = Proposal("rejected", "rejected", proposals[p].sandboxRef)]
    /\ \/ approvals' = [approvals EXCEPT ![p] = "rejected"]
       \/ UNCHANGED approvals
    /\ UNCHANGED <<buildResult, slots, tested>>

Next ==
    \/ RunBuilds
    \/ \E head \in Heads : Preview(head) \/ Diagnose(head)
    \/ \E p \in Patches : Accept(p) \/ Reject(p) \/ \E pv \in Heads : Apply(pv, p)

Spec == Init /\ [][Next]_vars

-----------------------------------------------------------------------------
(* Properties                                                              *)

Slot == Projects \cup {NoProject}

\* The states a proposal file can be in: a sandbox reference exactly when the
\* patch was applied, a decision exactly when it is no longer pending.
ProposalStates ==
    {NoProposal, Fresh, Proposal("rejected", "rejected", NoProject)}
       \cup {Proposal("sandbox_applied", "pending", c) : c \in Projects}
       \cup {Proposal("applied", "approved", c) : c \in Projects}

\* Every file of the repair directory has one of the shapes the code writes;
\* in particular a rejected proposal never carries a sandbox reference.
TypeOK ==
    /\ buildResult \in {"none", "failed", "ok"}
    /\ snapshot \in Slot /\ preview \in Slot /\ candidate \in Slot
    /\ sandbox \in Slot /\ sandboxBuild \in Slot
    /\ proposals \in [Patches -> ProposalStates]
    /\ approvals \in [Patches -> {"none", "approved", "rejected"}]
    /\ tested \subseteq Projects

\* The sandbox build is only ever given Java that a proposal showed to the
\* developer: what it returned a result for is the result of some persisted
\* proposal, although the candidate slot it is read from is overwritten by
\* every diagnosis and may hold a mixture.
TestedIsProposed ==
    \A c \in tested :
        \E p \in Patches : p.after = c /\ proposals[p].application # "absent"

\* The sandbox reference a proposal, and with it its approval record, carries
\* is the content the patch leads to, and the sandbox build returned a result
\* for exactly that content.
RecordedSandboxIsTested ==
    \A p \in Patches :
        proposals[p].application \in {"sandbox_applied", "applied"} =>
            proposals[p].sandboxRef = p.after /\ p.after \in tested

\* A developer's decision is final for a proposal until a new diagnosis makes
\* the same proposal again: no other step changes a decided proposal.
DecisionIsFinal ==
    [][ \A p \in Patches :
          proposals[p].approval \in {"approved", "rejected"}
             /\ proposals'[p] # proposals[p] => proposals'[p] = Fresh ]_vars

\* "Only an approved patch whose payload matches the recorded approval hash,
\* whose reviewed candidate/base-revision identity matches the recorded
\* immutable candidate identity ... may be applied": when accept records the
\* approval of a patch, the two slots whose content it returns hold the project
\* that patch leads to and the build result of that project.
AcceptedIsReviewed ==
    [][ \A p \in Patches :
          approvals[p] # "approved" /\ approvals'[p] = "approved" =>
              sandbox = p.after /\ sandboxBuild = p.after ]_vars
=============================================================================
