---------------------------- MODULE MCStudioAssist ----------------------------
(* The small instance of StudioAssist that TLC checks. *)
EXTENDS StudioAssist
=============================================================================
