------------------------------ MODULE MCRetention ------------------------------
(* Small instances of retention for TLC. *)
EXTENDS Retention

CONSTANTS i1, i2, m1, m2
=============================================================================
