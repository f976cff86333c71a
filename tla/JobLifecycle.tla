---------------------------- MODULE JobLifecycle ----------------------------
(***************************************************************************)
(* What the controller promises about the work an event triggers, without  *)
(* leases, generations, clocks or retries: each event's work waits, is     *)
(* started at most once, ends at most once, and its end is announced once, *)
(* in the very step that ends it.  Work that waits may end without having  *)
(* been started (it failed before launch); work that was started never     *)
(* goes back to waiting.                                                   *)
(***************************************************************************)
EXTENDS Naturals

CONSTANT Work   \* the events that may trigger work

VARIABLES
    phase,       \* where each piece of work is
    starts,      \* how often it was handed to an agent
    announced    \* how often its end was announced

lifecycleVars == <<phase, starts, announced>>

Init ==
    /\ phase = [e \in Work |-> "none"]
    /\ starts = [e \in Work |-> 0]
    /\ announced = [e \in Work |-> 0]

Accept(e) ==
    /\ phase[e] = "none"
    /\ phase' = [phase EXCEPT ![e] = "waiting"]
    /\ UNCHANGED <<starts, announced>>

Start(e) ==
    /\ phase[e] = "waiting"
    /\ phase' = [phase EXCEPT ![e] = "started"]
    /\ starts' = [starts EXCEPT ![e] = @ + 1]
    /\ UNCHANGED announced

\* Several runners may be lost at once, so several ends may be one step.
End(S) ==
    /\ \A e \in S : phase[e] \in {"waiting", "started"}
    /\ phase' = [e \in Work |-> IF e \in S THEN "ended" ELSE phase[e]]
    /\ announced' = [e \in Work |-> IF e \in S THEN announced[e] + 1
                                               ELSE announced[e]]
    /\ UNCHANGED starts

Next ==
    \/ \E e \in Work : Accept(e) \/ Start(e)
    \/ \E S \in SUBSET Work : End(S)

Spec == Init /\ [][Next]_lifecycleVars
=============================================================================
