--------------------------- MODULE MCHostedDispatch ---------------------------
(* Small instances of the hosted poller for TLC. *)
EXTENDS HostedDispatch

CONSTANTS i1, i2, w1, w2

\* All comments on one issue.
OneIssue == [c \in 1..Comments |-> i1]

\* No comment, the last comment.
NoComment == {}
LastComment == {Comments}
=============================================================================
