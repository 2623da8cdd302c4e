----------------------------- MODULE MCBffRuns -----------------------------
(* TLC instance of BffRuns.  Handlers are not reduced by symmetry, because   *)
(* the run also checks liveness.                                           *)
EXTENDS BffRuns

CONSTANTS h1, h2

MCHandlers == {h1, h2}

\* The switch for fixtures is read only where no orchestrator is set: with one,
\* the two values of the switch give the same behaviours twice.
MCInit == Init /\ (enabled => ~fixtures)
MCSpec == MCInit /\ [][Next]_vars /\ Fairness
=============================================================================
