------------------------------ MODULE StatusBoard ------------------------------
(***************************************************************************)
(* Local mode on a board whose status is the command: a GitHub project, or *)
(* a vault of notes.  A drag into the trigger status starts an agent, the  *)
(* watcher moves the item through the rest of its life, and both write the *)
(* same field.  A cycle collects ended runs, compares the board with what  *)
(* it observed last, on GitHub restores items taken off the board and      *)
(* mirrors the status into labels, commits, and launches.                  *)
(*                                                                         *)
(* Status is one of the two forges' names for it:                          *)
(*   open      open; Triage, Needs-info, none                              *)
(*   ready     agent; Ready, Ready-research                                *)
(*   active    in-progress; Working, Researching                           *)
(*   parked    needs-input, also of a run that failed; Parked              *)
(*   failed    Failed                                                      *)
(*   review    review; Review, For-human                                   *)
(*   done      done, archived                                              *)
(* The item's id changes when it is put on the board anew, its version     *)
(* (updatedAt) with every write.  What a run does is LocalCycle's subject, *)
(* here it ends with an outcome.  The first cycle and the first sight of   *)
(* an item adopt what they find.                                           *)
(***************************************************************************)
EXTENDS Integers, FiniteSets

CONSTANTS
    Items,          \* per forge: the items are 1..Items[forge], visited in this order
    Blockers,       \* the items an item is blocked by (vault)
    MaxDrags,       \* bound: drags
    MaxPrunes,      \* bound: items taken off the board
    MaxTroubles,    \* bound: requests that fail, preparations that raise, cycles that die
                    \* or whose poll raises
    None

ASSUME BoardAssumption ==
    /\ Items \in [{"vault", "github"} -> Nat \ {0}]
    /\ Blockers \in [1..Items["vault"] -> SUBSET (1..Items["vault"])]
    /\ {MaxDrags, MaxPrunes, MaxTroubles} \subseteq Nat

VARIABLES
    forge,
    board,      \* per item: status, version, id
    flow,       \* items the workflow "Item added -> Triage" has still to touch
    shadow,     \* the item's label
    obs,        \* observations, in state.json
    conv,       \* per item: status, queued drags, outcome
    cyc,        \* the cycle under way
    hand,       \* history: the items whose status people set last
    owed,       \* history: per item, drags into ready less dispatches
    failed,     \* history: a request has failed
    again,      \* history: an item was taken off while it was being put back
    drags, prunes, troubles

boards == <<board, flow, shadow>>
history == <<hand, owed, failed, again>>
bounds == <<drags, prunes, troubles>>
vars == <<forge, boards, obs, conv, cyc, history, bounds>>

-----------------------------------------------------------------------------

Item == 1..Items[forge]
Outcome == {"review", "parked", "failed"}
Status == {"open", "ready", "active", "parked", "failed", "review", "done", "gone"}

DispatchFrom == IF forge = "vault" THEN Status \ {"ready"} ELSE {"open", "failed"}
Terminal == {"review", "parked", "failed"}
\* The status for a run's end: a vault has none for one that failed.
StatusOf(outcome) == IF forge = "vault" /\ outcome = "failed" THEN "parked" ELSE outcome
Tries == 3      \* what does not stick is written again

OnBoard(i) == board[i].status # "gone"

Init ==
    /\ forge \in {"vault", "github"}
    /\ board = [i \in Item |-> [status |-> "open", ver |-> 0, id |-> 0]]
    /\ flow = {}
    /\ shadow = [i \in Item |-> None]
    /\ obs = {}
    /\ conv = [i \in Item |-> [status |-> "absent", pending |-> 0, outcome |-> None]]
    /\ cyc = None
    /\ hand = {} /\ owed = [i \in Item |-> 0] /\ failed = FALSE /\ again = FALSE
    /\ drags = 0 /\ prunes = 0 /\ troubles = 0

Trouble == troubles < MaxTroubles /\ troubles' = troubles + 1 /\ UNCHANGED <<drags, prunes>>
Fail == Trouble /\ failed' = TRUE

At(step) == cyc # None /\ cyc.at = step
Writing == cyc # None /\ cyc.write # None
Idle(step) == At(step) /\ cyc.write = None
I == cyc.item

\* A write is for the item it began with, not for the one it was replaced by.
Reachable == OnBoard(I) /\ board[I].id = cyc.write.id

Touched(b, status) ==
    [status |-> status, ver |-> b.ver + (IF forge = "github" THEN 1 ELSE 0), id |-> b.id]

Put(i, status) == board' = [board EXCEPT ![i] = Touched(board[i], status)]

-----------------------------------------------------------------------------
(* People, and GitHub's workflow *)

Drag(i) ==
    /\ OnBoard(i) /\ drags < MaxDrags
    /\ \E status \in {"open", "ready"} \cup (IF forge = "vault" THEN {"done"} ELSE {}) :
         /\ status # board[i].status
         /\ Put(i, status)
         /\ owed' = IF status = "ready" THEN [owed EXCEPT ![i] = @ + 1] ELSE owed
    /\ hand' = hand \cup {i}
    /\ drags' = drags + 1
    /\ UNCHANGED <<forge, flow, shadow, obs, conv, cyc, failed, again, prunes, troubles>>

\* In this cycle the item is put back, or will be.
Restoring(i) ==
    /\ At("prune")
    /\ (\E o \in cyc.stale : o.item = i) \/ (Writing /\ I = i)

\* The item is taken off the project: its status is gone with it.
Prune(i) ==
    /\ forge = "github" /\ OnBoard(i) /\ prunes < MaxPrunes
    /\ board' = [board EXCEPT ![i] = [@ EXCEPT !.status = "gone"]]
    /\ flow' = flow \ {i}
    /\ prunes' = prunes + 1
    /\ again' = (again \/ Restoring(i))
    /\ UNCHANGED <<forge, shadow, obs, conv, cyc, hand, owed, failed, drags, troubles>>

Added(i) == [board EXCEPT ![i] = [status |-> "open", ver |-> @.ver + 1, id |-> @.id + 1]]

\* Somebody puts it back.
PutBack(i) ==
    /\ ~OnBoard(i)
    /\ board' = Added(i) /\ flow' = flow \cup {i} /\ hand' = hand \cup {i}
    /\ UNCHANGED <<forge, shadow, obs, conv, cyc, owed, failed, again, bounds>>

\* It counts as a person where the watcher writes no more.
Workflow(i) ==
    /\ i \in flow
    /\ Put(i, "open")
    /\ flow' = flow \ {i}
    /\ hand' = IF /\ Writing /\ cyc.write.step = "confirm" /\ cyc.write.tries < Tries
                  /\ I = i /\ Reachable
               THEN hand ELSE hand \cup {i}
    /\ UNCHANGED <<forge, shadow, obs, conv, cyc, owed, failed, again, bounds>>

RunEnds(i) ==
    /\ conv[i].status = "working"
    /\ \E o \in Outcome : conv' = [conv EXCEPT ![i] = [@ EXCEPT !.status = "ended", !.outcome = o]]
    /\ UNCHANGED <<forge, boards, obs, cyc, history, bounds>>

-----------------------------------------------------------------------------
(* The cycle *)

\* An item with something to do in a step, and the first from one on, or the
\* step after.
HasWork(c, convs, s, i) ==
    CASE s = "collect" -> convs[i].status = "ended"
      [] s = "prune"   -> \E o \in c.stale : o.item = i
      [] s = "shadow"  -> \E x \in c.changed : x[1] = i
      [] s = "launch"  -> \/ convs[i].status = "new"
                          \/ convs[i].status = "idle" /\ convs[i].pending > 0

Step(c, s, i) == [c EXCEPT !.at = s, !.item = i, !.write = None]

Enter(c, convs, s, from, otherwise) ==
    LET left == {i \in from..Items[forge] : HasWork(c, convs, s, i)}
    IN  IF left = {} THEN otherwise
        ELSE Step(c, s, CHOOSE i \in left : \A j \in left : i <= j)

ToCollect(c, convs, from) == Enter(c, convs, "collect", from, Step(c, "fetch", 1))
ToShadow(c, from) == Enter(c, conv, "shadow", from, Step(c, "commit", 1))
ToPrune(c, from) == Enter(c, conv, "prune", from, ToShadow(c, 1))
ToLaunch(c, convs, from) == Enter(c, convs, "launch", from, Step(c, "end", 1))

GoOn(c, convs) ==
    CASE c.at = "collect" -> ToCollect(c, convs, c.item + 1)
      [] c.at = "prune"   -> ToPrune(c, c.item)
      [] c.at = "shadow"  -> ToShadow(c, c.item + 1)
      [] c.at = "launch"  -> ToLaunch(c, convs, c.item + 1)

StartCycle ==
    /\ cyc = None
    /\ cyc' = ToCollect([at |-> "collect", item |-> 1, write |-> None, obs |-> obs,
                         stale |-> {}, changed |-> {}, fires |-> {}],
                        conv, 1)
    /\ UNCHANGED <<forge, boards, obs, conv, history, bounds>>

\* The process dies, or the poll raises: nothing of the poll is kept.
Abandon ==
    /\ cyc # None /\ Trouble
    /\ cyc' = None
    /\ UNCHANGED <<forge, boards, obs, conv, history>>

-----------------------------------------------------------------------------
(* Writing a status: a look, the write, and on GitHub its confirmation *)

\* What is done with the conversation when the write is over.  What is queued
\* when a run fails is dropped (mark_failed).
Settled ==
    LET left == IF conv[I].outcome = "failed" THEN 0 ELSE conv[I].pending
    IN  [conv EXCEPT ![I] = [@ EXCEPT !.status = "idle", !.pending = left]]
Launched == [conv EXCEPT ![I] = [@ EXCEPT !.status = "working", !.pending = 0]]
Concluded ==
    CASE cyc.at = "collect" -> Settled
      [] cyc.at = "launch"  -> Launched
      [] OTHER              -> conv

Observation(i, status, deferred) ==
    [item |-> i, id |-> board[i].id, status |-> status, ver |-> board[i].ver,
     deferred |-> deferred]

\* The restored item is observed under its id, as not seen yet.
Rekeyed ==
    {o \in cyc.obs : ~(o.item = I /\ o.id \in {cyc.write.old, cyc.write.id})}
    \cup {[item |-> I, id |-> cyc.write.id, status |-> cyc.write.status, ver |-> None,
           deferred |-> FALSE]}

WriteOver ==
    /\ conv' = Concluded
    /\ cyc' = GoOn(IF cyc.at = "prune" THEN [cyc EXCEPT !.obs = Rekeyed] ELSE cyc, conv')

\* A status of a run's end replaces only a status that says it is at work.
Refused(status, live) == status \in Terminal /\ live # "active"

Write(status, old) ==
    [status |-> status, step |-> "set", tries |-> 1, id |-> board'[I].id, old |-> old]

Begins(status) == cyc' = [cyc EXCEPT !.write = Write(status, None)]

\* github_write_status, vault_write_status: an item not on the project is put
\* on it; what is there already, or must not be replaced, is left.
Look(status) ==
    IF ~OnBoard(I)
    THEN /\ board' = Added(I) /\ flow' = flow \cup {I}
         /\ Begins(status)
         /\ UNCHANGED conv
    ELSE /\ UNCHANGED <<board, flow>>
         /\ IF \/ board[I].status = status
               \/ cyc.at = "collect" /\ Refused(status, board[I].status)
            THEN conv' = Concluded /\ cyc' = GoOn(cyc, conv')
            ELSE Begins(status) /\ UNCHANGED conv

Collect ==
    /\ Idle("collect")
    /\ Look(StatusOf(conv[I].outcome))
    /\ UNCHANGED <<forge, shadow, obs, history, bounds>>

Launch ==
    /\ Idle("launch")
    /\ Look("active")
    /\ UNCHANGED <<forge, shadow, obs, history, bounds>>

\* The concurrency cap is reached.
NotLaunched ==
    /\ Idle("launch")
    /\ cyc' = [cyc EXCEPT !.at = "end"]
    /\ UNCHANGED <<forge, boards, obs, conv, history, bounds>>

\* The preparation of a run raises: what was queued for it is gone, a new
\* conversation is launched in the next cycle.
Unprepared ==
    /\ Idle("launch") /\ Trouble
    /\ conv' = [conv EXCEPT ![I] = [@ EXCEPT !.pending = 0]]
    /\ cyc' = GoOn(cyc, conv')
    /\ UNCHANGED <<forge, boards, obs, history>>

\* What the watcher knows the item's status to be: its conversation's, else
\* the label's.
Restored(i) ==
    CASE conv[i].status = "new" -> "ready"
      [] conv[i].status \in {"working", "ended"} -> "active"
      [] conv[i].status = "idle" -> StatusOf(conv[i].outcome)
      [] OTHER -> IF shadow[i] = None THEN "open" ELSE shadow[i]

\* github_prune_recovery: the status is written whatever it is by now.
Restore ==
    /\ Idle("prune")
    /\ IF OnBoard(I) THEN UNCHANGED <<board, flow>>
       ELSE board' = Added(I) /\ flow' = flow \cup {I}
    /\ \E o \in cyc.stale :
         /\ o.item = I
         /\ cyc' = [cyc EXCEPT !.stale = @ \ {o}, !.write = Write(Restored(I), o.id)]
    /\ UNCHANGED <<forge, shadow, obs, conv, history, bounds>>

Set ==
    /\ Writing /\ cyc.write.step = "set" /\ Reachable
    /\ Put(I, cyc.write.status)
    /\ hand' = hand \ {I}
    /\ IF forge = "vault" THEN WriteOver
       ELSE cyc' = [cyc EXCEPT !.write = [@ EXCEPT !.step = "confirm"]] /\ UNCHANGED conv
    /\ UNCHANGED <<forge, flow, shadow, obs, owed, failed, again, bounds>>

\* Mutation: what is read back is not looked at.
StuckAlways == TRUE

Stuck == board[I].status = cyc.write.status

Retried(write) == [write EXCEPT !.step = "set", !.tries = @ + 1]

\* set_status_fenced: what does not stick is written again.
Confirm ==
    /\ Writing /\ cyc.write.step = "confirm" /\ Reachable
    /\ IF Stuck \/ cyc.write.tries = Tries THEN WriteOver
       ELSE cyc' = [cyc EXCEPT !.write = Retried(cyc.write)] /\ UNCHANGED conv
    /\ UNCHANGED <<forge, boards, obs, history, bounds>>

\* A write raises, as it does when the item is gone.  The run's end is kept
\* without its status, the launch is made again, the item restored in the next
\* cycle.
WriteFails ==
    /\ Writing /\ cyc.write.step # "label"
    /\ IF Reachable THEN Fail ELSE UNCHANGED <<failed, bounds>>
    /\ IF cyc.at = "collect" THEN conv' = Settled /\ cyc' = None
       ELSE cyc' = GoOn(cyc, conv) /\ UNCHANGED conv
    /\ UNCHANGED <<forge, boards, obs, hand, owed, again>>

-----------------------------------------------------------------------------
(* Comparing the board: poll_github_status, poll_vault_status *)

Moved(o) ==
    IF forge = "vault" THEN o.status # board[o.item].status ELSE o.ver # board[o.item].ver

Blocked(i) == forge = "vault" /\ \E b \in Blockers[i] : board[b].status \notin {"done", "gone"}

\* Mutation: any sight of the trigger status fires.
TransitionAny(o) == board[o.item].status = "ready"

Transition(o) ==
    board[o.item].status = "ready" /\ Moved(o) /\ o.status \in DispatchFrom

Due(o) == board[o.item].status = "ready" /\ ~Moved(o) /\ o.deferred

Now == {i \in Item : OnBoard(i)}
Known(i) == {o \in cyc.obs : o.item = i /\ o.id = board[i].id}
Fires == {i \in Now : ~Blocked(i) /\ \E o \in Known(i) : Transition(o) \/ Due(o)}

\* Mutation: a note that is blocked is not remembered.
DefersNone(o) == FALSE

Defers(o) == Blocked(o.item) /\ (Transition(o) \/ Due(o))

Seen(i) ==
    {o \in cyc.obs : o.item = i /\ o.id # board[i].id}
    \cup {Observation(i, board[i].status, \E o \in Known(i) : Defers(o))}

\* Mutation: only what is dispatched counts as changed.
ChangedIfFired == {<<i, board[i].id>> : i \in Fires}

Changed == {<<i, board[i].id>> : i \in {i \in Now : \E o \in Known(i) : Moved(o)}}

Fetch ==
    /\ Idle("fetch")
    /\ LET c == [cyc EXCEPT
                   !.obs = {o \in cyc.obs : o.item \notin Now} \cup UNION {Seen(i) : i \in Now},
                   !.stale = {o \in cyc.obs : ~OnBoard(o.item) \/ o.id # board[o.item].id},
                   !.fires = Fires,
                   !.changed = Changed]
       IN  cyc' = IF forge = "github" THEN ToPrune(c, 1) ELSE Step(c, "commit", 1)
    /\ UNCHANGED <<forge, boards, obs, conv, history, bounds>>

\* github_shadow_write: the label follows where the status is still the one
\* observed, looked up once more before.
Mirror ==
    /\ Idle("shadow")
    /\ LET seen == CHOOSE o \in cyc.obs : o.item = I /\ <<I, o.id>> \in cyc.changed
       IN  cyc' = IF OnBoard(I) /\ board[I].id = seen.id /\ board[I].status = seen.status
                  THEN [cyc EXCEPT !.write = [status |-> seen.status, step |-> "label",
                                              tries |-> 1, id |-> seen.id, old |-> None]]
                  ELSE GoOn(cyc, conv)
    /\ UNCHANGED <<forge, boards, obs, conv, history, bounds>>

SetLabel ==
    /\ Writing /\ cyc.write.step = "label"
    /\ shadow' = [shadow EXCEPT ![I] = cyc.write.status]
    /\ cyc' = GoOn(cyc, conv)
    /\ UNCHANGED <<forge, board, flow, obs, conv, history, bounds>>

LabelFails ==
    /\ Writing /\ cyc.write.step = "label" /\ Fail
    /\ cyc' = GoOn(cyc, conv)
    /\ UNCHANGED <<forge, boards, obs, conv, hand, owed, again>>

\* The observations, the commands and the conversations are one save.
Commit ==
    /\ Idle("commit")
    /\ obs' = cyc.obs
    /\ conv' = [i \in Item |->
         IF i \notin cyc.fires THEN conv[i]
         ELSE IF conv[i].status = "absent" THEN [conv[i] EXCEPT !.status = "new"]
         ELSE [conv[i] EXCEPT !.pending = @ + 1]]
    /\ owed' = [i \in Item |-> owed[i] - IF i \in cyc.fires THEN 1 ELSE 0]
    /\ cyc' = ToLaunch(cyc, conv', 1)
    /\ UNCHANGED <<forge, boards, hand, failed, again, bounds>>

EndCycle ==
    /\ Idle("end")
    /\ cyc' = None
    /\ UNCHANGED <<forge, boards, obs, conv, history, bounds>>

-----------------------------------------------------------------------------

Cycle ==
    \/ StartCycle \/ Collect \/ Fetch \/ Restore \/ Mirror \/ SetLabel
    \/ Commit \/ Launch \/ NotLaunched \/ Set \/ Confirm \/ EndCycle
    \/ Writing /\ ~Reachable /\ WriteFails

Next ==
    \/ Cycle \/ Abandon \/ WriteFails \/ LabelFails \/ Unprepared
    \/ \E i \in Item : Drag(i) \/ Prune(i) \/ PutBack(i) \/ Workflow(i) \/ RunEnds(i)

Spec == Init /\ [][Next]_vars

\* Cycles follow each other and end; of people, runs and GitHub's workflow
\* nothing is assumed.
FairSpec == Spec /\ WF_vars(Cycle)

-----------------------------------------------------------------------------
(* Properties *)

Live == Status \ {"gone"}
Observations ==
    [item : Nat, id : Nat, status : Live, ver : Nat \cup {None}, deferred : BOOLEAN]
Conversations ==
    [status : {"absent", "new", "working", "ended", "idle"}, pending : Nat,
     outcome : Terminal \cup {None}]
Writes ==
    [status : Live, step : {"set", "confirm", "label"}, tries : 1..Tries, id : Nat,
     old : Nat \cup {None}]
Cycles ==
    [at : {"collect", "fetch", "prune", "shadow", "commit", "launch", "end"}, item : Nat,
     write : Writes \cup {None}, obs : SUBSET Observations, stale : SUBSET Observations,
     changed : SUBSET (Nat \X Nat), fires : SUBSET Nat]

ASSUME NoneAssumption == None \notin Writes \cup Cycles

TypeOK ==
    /\ forge \in {"vault", "github"}
    /\ board \in [Item -> [status : Status, ver : Nat, id : Nat]]
    /\ flow \cup hand \subseteq Item
    /\ shadow \in [Item -> Live \cup {None}]
    /\ obs \subseteq Observations /\ \A o \in obs : o.item \in Item
    /\ conv \in [Item -> Conversations]
    /\ cyc \in Cycles \cup {None}
    /\ cyc # None =>
         /\ cyc.item \in Item /\ cyc.fires \subseteq Item
         /\ \A o \in cyc.obs : o.item \in Item
    /\ owed \in [Item -> Int] /\ {failed, again} \subseteq BOOLEAN
    /\ {drags, prunes, troubles} \subseteq Nat

\* Nothing runs that nobody asked for: an item is dispatched at most as often
\* as people dragged it into the trigger status, whatever was found there at
\* first sight, restored, written by the watcher itself, or polled twice.
\* (Where the read-back of a restore fails, or an item is taken off again in
\* the cycle that puts it back, it is.)
DispatchesWereAsked == ~failed /\ ~again => \A i \in Item : owed[i] >= 0

\* Between cycles the board shows how the last run ended, unless people moved
\* the item since, or a write failed or was cut short: also when the item was
\* taken off, and GitHub's workflow resets the status that was just written
\* while there is a try left to write it again.
OutcomeIsShown ==
    cyc = None /\ troubles = 0 =>
        \A i \in Item :
            /\ conv[i].status = "idle" /\ conv[i].pending = 0
            /\ i \notin hand /\ OnBoard(i)
            => board[i].status = StatusOf(conv[i].outcome)

Vault(i) == forge = "vault" /\ board[i].status = "ready"
FreeOfBlockers(i) == \A b \in Blockers[i] : board[b].status = "done"

\* A note that was seen elsewhere and is dragged into the trigger status is
\* dispatched, or moved again, or never free of its blockers: also when it
\* was blocked while the change was noticed, and cycles died in between.
BlockedNotesAreDispatched ==
    \A i \in 1..Items["vault"] :
        (Vault(i) /\ conv[i].status = "absent" /\ \E o \in obs : o.item = i /\ o.status # "ready")
        ~> \/ ~Vault(i) \/ conv[i].status # "absent"
           \/ []<>(Vault(i) => ~FreeOfBlockers(i))

\* The labels follow the status: where one was set it is the status's in the
\* end, also of items that moved on while the label was written.
LabelsFollow ==
    []~failed =>
        <>[](\A i \in Item : shadow[i] # None /\ OnBoard(i) => shadow[i] = board[i].status)

\* "A note dispatches when its status transitions into agent from any other
\* status": one whose run is over, and did not fail, and that somebody dragged
\* there is, or is moved on.
AgentDragsDispatch ==
    \A i \in 1..Items["vault"] :
        LET Asked == /\ Vault(i) /\ conv[i].status = "idle" /\ conv[i].pending = 0
                     /\ i \in hand /\ FreeOfBlockers(i) /\ conv[i].outcome # "failed"
        IN  Asked ~> ~Asked

\* "A newer human drag is never clobbered" by the status of a run's end.
DragsAreNeverClobbered ==
    [][At("collect") => hand \subseteq hand']_vars

=============================================================================
