----------------------- MODULE MCManualCompileRepair -----------------------
(* TLC instance of ManualCompileRepair: project contents are model values.  *)
(* The developer's Java may be what the agent answered before (b), so that  *)
(* an accepted repair can be the start of the next one.                     *)
EXTENDS ManualCompileRepair

CONSTANTS a, b, c

MCHeads == {a, b}
MCAnswers == {b, c}
=============================================================================
