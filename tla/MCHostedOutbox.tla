---------------------------- MODULE MCHostedOutbox ----------------------------
(* Small instances of the publisher for TLC. *)
EXTENDS HostedOutbox
=============================================================================
