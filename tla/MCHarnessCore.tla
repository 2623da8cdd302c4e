--------------------------- MODULE MCHarnessCore ---------------------------
(* TLC instance of HarnessCore: handlers are interchangeable model values.  *)
EXTENDS HarnessCore, TLC

CONSTANTS h1, h2

MCHandlers == {h1, h2}
Symmetry == Permutations(MCHandlers)
=============================================================================
