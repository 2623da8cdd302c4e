----------------------------- MODULE RunOutcome -----------------------------
(***************************************************************************)
(* What a consumer of a run contract (BFF, Studio, evidence readers) is    *)
(* promised, without the pipeline behind it: candidates replace one        *)
(* another while the run is open, only the current candidate can be        *)
(* verified, and the run is sealed once, as a success only if the current  *)
(* candidate is the verified one and its evidence is complete.             *)
(***************************************************************************)
EXTENDS Naturals

CONSTANTS FailureVerdicts,  \* the verdicts of a run that is not a success
          SuccessVerdict,   \* the verdict of a verified run
          NoVerdict         \* the run is open

VARIABLES chosen,     \* the candidate the contract refers to (0: none)
          verified,   \* the candidate that passed build and test (0: none)
          evidenced,  \* the evidence pack is complete
          verdict     \* the sealed outcome

vars == <<chosen, verified, evidenced, verdict>>

Init == chosen = 0 /\ verified = 0 /\ evidenced = FALSE /\ verdict = NoVerdict

\* A newer candidate replaces the current one; a verified one is not replaced.
Choose ==
    /\ verdict = NoVerdict /\ verified = 0
    /\ chosen' \in Nat /\ chosen' > chosen
    /\ UNCHANGED <<verified, evidenced, verdict>>

Verify ==
    /\ verdict = NoVerdict /\ chosen # 0
    /\ verified' = chosen
    /\ UNCHANGED <<chosen, evidenced, verdict>>

Collect ==
    /\ verdict = NoVerdict
    /\ evidenced' = TRUE
    /\ UNCHANGED <<chosen, verified, verdict>>

SealSuccess ==
    /\ verdict = NoVerdict
    /\ chosen # 0 /\ verified = chosen /\ evidenced
    /\ verdict' = SuccessVerdict
    /\ UNCHANGED <<chosen, verified, evidenced>>

SealFailure ==
    /\ verdict = NoVerdict
    /\ verdict' \in FailureVerdicts
    /\ UNCHANGED <<chosen, verified, evidenced>>

Next == Choose \/ Verify \/ Collect \/ SealSuccess \/ SealFailure

Spec == Init /\ [][Next]_vars
=============================================================================
