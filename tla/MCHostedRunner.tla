---------------------------- MODULE MCHostedRunner ----------------------------
(* A small instance of the runner for TLC. *)
EXTENDS HostedRunner

CONSTANTS j1
=============================================================================
