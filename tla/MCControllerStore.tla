------------------------- MODULE MCControllerStore -------------------------
(* Small instances of the controller's store for TLC. *)
EXTENDS ControllerStore, TLC

CONSTANTS w1, w2, c1, e1, e2, r1, r2

\* Both events belong to one issue: the second job displaces the first.
OneIssue == [e \in Event |-> c1]

\* One job at a time, so that two jobs compete for the slot.
OneSlot == [w \in Workspace |-> 1]

\* Run ids are drawn at random and only compared.
RunSymmetry == Permutations(Run)
=============================================================================
