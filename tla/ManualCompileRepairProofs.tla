--------------------- MODULE ManualCompileRepairProofs ---------------------
(* Theorems about ManualCompileRepair, for any set of project contents.     *)
EXTENDS ManualCompileRepair, TLAPS

\* What the state of a proposal says of its fields.
LEMMA ProposalShape ==
    ASSUME NEW q \in ProposalStates
    PROVE  /\ q.application = "sandbox_applied" => q.sandboxRef \in Projects
           /\ q.application = "review_pending" => q.sandboxRef = NoProject
           /\ q.approval \in {"approved", "rejected"} => q.application \in {"applied", "rejected"}
           /\ q.approval = "absent" => q.application = "absent"
BY DEF ProposalStates, Proposal, NoProposal, Fresh

\* The states a proposal can be in, by its two fields.
LEMMA ProposalMembers ==
    /\ NoProposal \in ProposalStates /\ Fresh \in ProposalStates
    /\ Proposal("rejected", "rejected", NoProject) \in ProposalStates
    /\ \A c \in Projects : Proposal("sandbox_applied", "pending", c) \in ProposalStates
    /\ \A c \in Projects : Proposal("applied", "approved", c) \in ProposalStates
BY DEF ProposalStates

\* What a request does to the proposals, and what it leaves alone.
LEMMA DiagnoseProposals ==
    ASSUME NEW pv, Diagnose(pv)
    PROVE  \/ UNCHANGED proposals
           \/ \E q : proposals' = [proposals EXCEPT ![q] = Fresh]
BY DEF Diagnose

\* What apply does to the proposals, the sandbox and the builds.
LEMMA ApplyProposals ==
    ASSUME NEW pv, NEW p \in Patches, Apply(pv, p)
    PROVE  /\ candidate = p.after
           /\ proposals[p].approval = "pending" /\ proposals[p].application # "absent"
           /\ \/ UNCHANGED proposals /\ tested' \in {tested, tested \cup {p.after}}
              \/ /\ proposals' = [proposals EXCEPT
                                    ![p] = Proposal("sandbox_applied", "pending", p.after)]
                 /\ tested' = tested \cup {p.after}
BY DEF Apply, Applicable, CandidateMatches, BuildInSandbox

\* Every request keeps the types.
LEMMA TypeStep == TypeOK /\ [Next]_vars => TypeOK'
<1> SUFFICES ASSUME TypeOK, [Next]_vars PROVE TypeOK'
  OBVIOUS
<1> USE DEF TypeOK, Slot
<1>1. CASE RunBuilds
  BY <1>1 DEF RunBuilds, slots
<1>2. ASSUME NEW head \in Heads, Preview(head)
      PROVE  TypeOK'
  BY <1>2 DEF Preview, Mixture, Projects
<1>3. ASSUME NEW head \in Heads, Diagnose(head)
      PROVE  TypeOK'
  <2>1. proposals' \in [Patches -> ProposalStates]
    BY <1>3, DiagnoseProposals, ProposalMembers
  <2>2. candidate' \in Slot
    BY <1>3 DEF Diagnose, Mixture, Projects
  <2> QED BY <1>3, <2>1, <2>2 DEF Diagnose
<1>4. ASSUME NEW p \in Patches, Accept(p)
      PROVE  TypeOK'
  <2>1. proposals[p].sandboxRef \in Projects
    BY <1>4, ProposalShape DEF Accept
  <2>2. proposals' \in [Patches -> ProposalStates]
    BY <1>4, <2>1, ProposalMembers DEF Accept
  <2>3. approvals' \in [Patches -> {"none", "approved", "rejected"}]
    BY <1>4 DEF Accept
  <2> QED BY <1>4, <2>2, <2>3 DEF Accept, slots
<1>5. ASSUME NEW p \in Patches, Reject(p)
      PROVE  TypeOK'
  <2>1. proposals' \in [Patches -> ProposalStates]
    BY <1>5, ProposalShape, ProposalMembers DEF Reject
  <2>2. approvals' \in [Patches -> {"none", "approved", "rejected"}]
    BY <1>5 DEF Reject
  <2> QED BY <1>5, <2>1, <2>2 DEF Reject, slots
<1>6. ASSUME NEW p \in Patches, NEW pv \in Heads, Apply(pv, p)
      PROVE  TypeOK'
  <2>1. p.after \in Projects
    BY DEF Patches, Projects
  <2>2. proposals' \in [Patches -> ProposalStates]
    BY <1>6, <2>1, ApplyProposals, ProposalMembers
  <2>3. sandbox' \in Slot /\ sandboxBuild' \in Slot /\ tested' \subseteq Projects
    BY <1>6, <2>1, ApplyProposals DEF Apply, BuildInSandbox, Mixture
  <2> QED BY <1>6, <2>2, <2>3 DEF Apply
<1>7. CASE UNCHANGED vars
  BY <1>7 DEF vars, slots
<1> QED BY <1>1, <1>2, <1>3, <1>4, <1>5, <1>6, <1>7 DEF Next

\* Every file of the repair directory keeps one of the shapes the code writes,
\* whichever write or build raises.
THEOREM TypeCorrect == Spec => []TypeOK
<1>1. Init => TypeOK
  BY ProposalMembers DEF Init, TypeOK, Slot
<1> QED BY <1>1, TypeStep, PTL DEF Spec

\* A proposal is never unwritten.
LEMMA ProposalsStay ==
    ASSUME TypeOK, [Next]_vars, NEW q \in Patches, proposals[q].application # "absent"
    PROVE  proposals'[q].application # "absent"
<1> USE DEF TypeOK
<1>1. ASSUME NEW head \in Heads, Diagnose(head)
      PROVE  proposals'[q].application # "absent"
  BY <1>1, DiagnoseProposals DEF Fresh, Proposal
<1>2. ASSUME NEW p \in Patches, Accept(p) \/ Reject(p)
      PROVE  proposals'[q].application # "absent"
  BY <1>2 DEF Accept, Reject, Proposal
<1>3. ASSUME NEW p \in Patches, NEW pv \in Heads, Apply(pv, p)
      PROVE  proposals'[q].application # "absent"
  BY <1>3, ApplyProposals DEF Proposal
<1>4. ASSUME NEW head \in Heads, Preview(head)
      PROVE  UNCHANGED proposals
  BY <1>4 DEF Preview
<1>5. CASE RunBuilds
  BY <1>5 DEF RunBuilds
<1> QED BY <1>1, <1>2, <1>3, <1>4, <1>5 DEF Next, vars

\* The sandbox build is only ever given Java that a persisted proposal showed
\* to the developer, although every diagnosis overwrites the candidate slot it
\* is read from and a write that raises may leave any content there.
THEOREM TestedWasProposed == Spec => []TestedIsProposed
<1>1. Init => TestedIsProposed
  BY DEF Init, TestedIsProposed
<1>2. TypeOK /\ TestedIsProposed /\ [Next]_vars => TestedIsProposed'
  <2> SUFFICES ASSUME TypeOK, TestedIsProposed, [Next]_vars, NEW c \in tested'
               PROVE  \E q \in Patches : q.after = c /\ proposals'[q].application # "absent"
    BY DEF TestedIsProposed
  <2>1. CASE c \in tested
    BY <2>1, ProposalsStay DEF TestedIsProposed
  <2>2. ASSUME NEW p \in Patches, NEW pv \in Heads, Apply(pv, p), c \notin tested
        PROVE  \E q \in Patches : q.after = c /\ proposals'[q].application # "absent"
    <3>1. c = p.after
      BY <2>2, ApplyProposals
    <3>2. proposals'[p].application # "absent"
      BY <2>2, ApplyProposals, ProposalsStay
    <3> QED BY <3>1, <3>2
  <2>3. ASSUME NEW head \in Heads, Preview(head) \/ Diagnose(head)
        PROVE  UNCHANGED tested
    BY <2>3 DEF Preview, Diagnose
  <2>4. ASSUME NEW p \in Patches, Accept(p) \/ Reject(p)
        PROVE  UNCHANGED tested
    BY <2>4 DEF Accept, Reject
  <2> QED BY <2>1, <2>2, <2>3, <2>4 DEF Next, RunBuilds, vars
<1> QED BY <1>1, <1>2, TypeCorrect, PTL DEF Spec

\* The sandbox reference a proposal carries is the content its patch leads to,
\* and the sandbox build returned a result for exactly that content.
THEOREM RecordedSandboxWasTested == Spec => []RecordedSandboxIsTested
<1>1. Init => RecordedSandboxIsTested
  BY DEF Init, RecordedSandboxIsTested, NoProposal, Proposal
<1>2. TypeOK /\ RecordedSandboxIsTested /\ [Next]_vars => RecordedSandboxIsTested'
  <2> SUFFICES ASSUME TypeOK, RecordedSandboxIsTested, [Next]_vars
               PROVE  RecordedSandboxIsTested'
    OBVIOUS
  <2> USE DEF TypeOK, RecordedSandboxIsTested
  <2>1. ASSUME NEW head \in Heads, Diagnose(head)
        PROVE  RecordedSandboxIsTested'
    BY <2>1, DiagnoseProposals DEF Diagnose, Fresh, Proposal
  <2>2. ASSUME NEW p \in Patches, Accept(p)
        PROVE  RecordedSandboxIsTested'
    BY <2>2 DEF Accept, Proposal
  <2>3. ASSUME NEW p \in Patches, Reject(p)
        PROVE  RecordedSandboxIsTested'
    BY <2>3 DEF Reject, Proposal
  <2>4. ASSUME NEW p \in Patches, NEW pv \in Heads, Apply(pv, p)
        PROVE  RecordedSandboxIsTested'
    BY <2>4, ApplyProposals DEF Proposal
  <2>5. ASSUME NEW head \in Heads, Preview(head)
        PROVE  RecordedSandboxIsTested'
    BY <2>5 DEF Preview
  <2>6. CASE RunBuilds \/ UNCHANGED vars
    BY <2>6 DEF RunBuilds, vars
  <2> QED BY <2>1, <2>2, <2>3, <2>4, <2>5, <2>6 DEF Next
<1> QED BY <1>1, <1>2, TypeCorrect, PTL DEF Spec

\* A developer's decision on a proposal is only ever undone by a new diagnosis
\* that makes the same proposal again.
THEOREM DecisionsAreFinal == Spec => DecisionIsFinal
<1> DEFINE Kept == \A p \in Patches :
                      proposals[p].approval \in {"approved", "rejected"}
                         /\ proposals'[p] # proposals[p] => proposals'[p] = Fresh
<1>1. TypeOK /\ [Next]_vars => [Kept]_vars
  <2> SUFFICES ASSUME TypeOK, Next PROVE Kept
    OBVIOUS
  <2> USE DEF TypeOK
  <2>1. ASSUME NEW head \in Heads, Diagnose(head)
        PROVE  Kept
    BY <2>1, DiagnoseProposals
  <2>2. ASSUME NEW p \in Patches, Accept(p) \/ Reject(p)
        PROVE  Kept
    BY <2>2 DEF Accept, Reject
  <2>3. ASSUME NEW p \in Patches, NEW pv \in Heads, Apply(pv, p)
        PROVE  Kept
    BY <2>3, ApplyProposals
  <2>4. ASSUME NEW head \in Heads, Preview(head)
        PROVE  Kept
    BY <2>4 DEF Preview
  <2>5. CASE RunBuilds
    BY <2>5 DEF RunBuilds
  <2> QED BY <2>1, <2>2, <2>3, <2>4, <2>5 DEF Next
<1> QED BY <1>1, TypeCorrect, PTL DEF Spec, DecisionIsFinal
=============================================================================
