------------------------------ MODULE MCLocalIntake ------------------------------
(* One issue and one merge request, which may or may not carry the marker of  *)
(* the issue.                                                                  *)
EXTENDS LocalIntake
=============================================================================
