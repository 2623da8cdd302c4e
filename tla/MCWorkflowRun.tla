--------------------------- MODULE MCWorkflowRun ---------------------------
(* TLC instance of WorkflowRun; the limits are given by the configurations. *)
EXTENDS WorkflowRun
=============================================================================
