------------------------------ MODULE MCStatusBoard ------------------------------
(* A vault of two notes, the second blocked by the first, or a project of one  *)
(* issue.                                                                       *)
EXTENDS StatusBoard

MCItems == [vault |-> 2, github |-> 1]
MCBlockers == <<{}, {1}>>
=============================================================================
