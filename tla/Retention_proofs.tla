---------------------------- MODULE Retention_proofs ----------------------------
(***************************************************************************)
(* What cleanup may remove and what its audit records promise, for any     *)
(* issues, merge requests and bounds.                                      *)
(*                                                                         *)
(* A removal only looks at the database when its action is claimed, and    *)
(* works on files for as long as it takes: the invariant carries what the  *)
(* claim saw to the last step of the removal and to its report.            *)
(***************************************************************************)
EXTENDS Retention, TLAPS

Places == {"worktree", "directory", "session"}

\* The part of the type invariant the proofs use.
Types ==
    /\ forge \in [MergeRequest -> {"opened", "merged", "old", "gone"}]
    /\ latest \in [Issue -> 0..MaxRuns]
    /\ status \in [Issue -> {"idle", "active", "succeeded", "stopped", "archived",
                             "cleaning", "cleanup-failed"}]
    /\ claims \in [Run -> SUBSET MergeRequest]
    /\ record \in [Run -> {"none", "due", "compacted"}]
    /\ action \in [Run -> {"none", "pending", "leased", "done", "failed"}]
    /\ upserted \subseteq Issue /\ directories \subseteq Run
    /\ \A i \in Issue : status[i] = "active" => latest[i] > 0
    /\ \A i \in upserted : latest[i] < MaxRuns
    /\ races \in Nat
    /\ task # None =>
         task \in [run : Run, at : Places \cup {"lock", "removed", "raised"}]
    /\ human # None => human \in [run : Run, locked : BOOLEAN]

\* A run with an action was due when it was scheduled, and is for ever; the
\* issue may have moved on to a later run, but while it has not, it is at rest.
ScheduledRunsAreDue ==
    \A r \in Run : action[r] # "none" =>
        /\ claims[r] # {}
        /\ \A m \in claims[r] : forge[m] = "old"
        /\ r[2] <= latest[r[1]]
        /\ Current(r) => status[IssueOf(r)] # "active"

\* A removal that is not yet reported.
Unreported ==
    /\ task # None
    /\ \/ task.at \in Places \cup {"lock"}
       \/ task.at = "removed" /\ action[task.run] # "done"

\* Until it is reported, the claim's view of the row holds, and what the
\* removal left behind stays away.
RemovalKeepsItsClaim ==
    races = 0 /\ Unreported =>
        LET r == task.run
            i == IssueOf(r)
        IN  /\ action[r] # "none"
            /\ Current(r) /\ status[i] = "cleaning" /\ i \notin upserted
            /\ task.at \in {"directory", "session", "removed"} => i \notin worktrees
            /\ task.at \in {"session", "removed"} => r \notin directories
            /\ task.at = "removed" => i \notin sessions

\* Only a finished action compacts the record.
CompactedIsDone ==
    \A r \in Run : record[r] = "compacted" => action[r] = "done"

\* What a finished action removed does not come back.
DoneIsGone ==
    races = 0 =>
        \A r \in Run : action[r] = "done" =>
            /\ r \notin directories
            /\ Current(r) => IssueOf(r) \notin worktrees \cup sessions

IInv ==
    /\ Types
    /\ ScheduledRunsAreDue
    /\ RemovalKeepsItsClaim
    /\ CompactedIsDone
    /\ DoneIsGone
    /\ HumanUndisturbed

-----------------------------------------------------------------------------
(* Steps that need more than one leaf *)

\* A dispatch gives the issue a later run: no scheduled run of it stays current.
LEMMA InsertKeeps ==
    ASSUME IInv, NEW i \in Issue, Insert(i)
    PROVE  IInv'
<1>1. Types'
  BY RetentionAssumption DEF RetentionAssumption, IInv, Types, Insert, files, bounds
<1>2. ScheduledRunsAreDue'
  BY DEF IInv, Types, Run, Insert, ScheduledRunsAreDue, Current, IssueOf
<1>3. RemovalKeepsItsClaim'
  BY DEF IInv, Types, Run, Insert, files, bounds, RemovalKeepsItsClaim, Unreported,
         Current, IssueOf, Places
<1>4. CompactedIsDone'
  BY DEF IInv, Insert, CompactedIsDone
<1>5. DoneIsGone'
  BY DEF IInv, Types, Run, Insert, files, bounds, ScheduledRunsAreDue, DoneIsGone,
         Current, IssueOf
<1>6. HumanUndisturbed'
  BY DEF IInv, Insert, HumanUndisturbed, Removing, IssueOf
<1>. QED BY <1>1, <1>2, <1>3, <1>4, <1>5, <1>6 DEF IInv

\* The claims of a run are only written while it is current and active, when it
\* has no action yet.
LEMMA SettleKeeps ==
    ASSUME IInv, NEW i \in Issue, Settle(i)
    PROVE  IInv'
<1>. DEFINE r == <<i, latest[i]>>
<1>1. Types'
  <2>1. /\ status[i] = "active"
        /\ \E outcome \in {"succeeded", "stopped"} : status' = [status EXCEPT ![i] = outcome]
        /\ \/ claims' = claims
           \/ \E ms \in SUBSET MergeRequest : claims' = [claims EXCEPT ![r] = ms]
        /\ UNCHANGED <<forge, latest, record, action, upserted, task, directories, human,
                       races>>
    BY DEF Settle, files, bounds, Lose
  <2>2. r \in Run
    BY <2>1 DEF IInv, Types, Run
  <2>3. claims' \in [Run -> SUBSET MergeRequest]
    BY <2>1, <2>2 DEF IInv, Types
  <2>. QED BY <2>1, <2>3 DEF IInv, Types
<1>2. ScheduledRunsAreDue'
  BY DEF IInv, Types, Run, Settle, ScheduledRunsAreDue, Current, IssueOf
<1>3. RemovalKeepsItsClaim'
  BY DEF IInv, Types, Run, Settle, files, bounds, Lose, RemovalKeepsItsClaim,
         Unreported, Current, IssueOf, Places
<1>4. CompactedIsDone'
  BY DEF IInv, Settle, CompactedIsDone
<1>5. DoneIsGone'
  BY DEF IInv, Types, Run, Settle, files, bounds, Lose, ScheduledRunsAreDue, DoneIsGone,
         Current, IssueOf
<1>6. HumanUndisturbed'
  BY DEF IInv, Settle, HumanUndisturbed, Removing, IssueOf
<1>. QED BY <1>1, <1>2, <1>3, <1>4, <1>5, <1>6 DEF IInv

\* An outcome recorded once more changes the status of a conversation at rest;
\* over a cleanup, it counts.
LEMMA RedeliveredKeeps ==
    ASSUME IInv, NEW r \in Run, Redelivered(r)
    PROVE  IInv'
<1>1. /\ \E outcome \in {"succeeded", "stopped"} :
             status' = [status EXCEPT ![IssueOf(r)] = outcome]
      /\ IF status[IssueOf(r)] = "cleaning"
         THEN races' = races + 1 ELSE races' \in {races, races + 1}
      /\ UNCHANGED <<forge, latest, claims, record, action, upserted, task, files, human>>
  BY DEF Redelivered, Settling
<1>2. r[1] \in Issue
  BY DEF Run
<1>3. Types'
  BY <1>1, <1>2 DEF IInv, Types, files, IssueOf
<1>4. ScheduledRunsAreDue'
  BY <1>1, <1>2 DEF IInv, Types, Run, ScheduledRunsAreDue, Current, IssueOf
<1>5. RemovalKeepsItsClaim'
  BY <1>1, <1>2 DEF IInv, Types, Run, files, RemovalKeepsItsClaim, Unreported, Current,
         IssueOf
<1>6. CompactedIsDone' /\ DoneIsGone'
  BY <1>1 DEF IInv, Types, files, CompactedIsDone, DoneIsGone, Current
<1>7. HumanUndisturbed'
  BY <1>1 DEF IInv, HumanUndisturbed, Removing
<1>. QED BY <1>3, <1>4, <1>5, <1>6, <1>7 DEF IInv

\* A claim schedules and finishes nothing: lapsed leases are pending again, and
\* the run it leases, if any, is current and at rest.
LEMMA ClaimEffect ==
    ASSUME Types, Claim
    PROVE  /\ action' \in [Run -> {"none", "pending", "leased", "done", "failed"}]
           /\ \A s \in Run : /\ action'[s] = "none" <=> action[s] = "none"
                             /\ action'[s] = "done" <=> action[s] = "done"
           /\ \/ status' = status /\ races' = races /\ task' = None
              \/ \E r \in Run :
                   /\ action[r] # "none" /\ action'[r] = "leased"
                   /\ Claimable(r)
                   /\ status' = [status EXCEPT ![IssueOf(r)] = "cleaning"]
                   /\ task' = [run |-> r, at |-> "lock"] \/ task' = None
                   /\ IF IssueOf(r) \in upserted
                      THEN races' = races + 1 ELSE races' = races
<1>1. PICK r \in Heads :
        /\ ApplyClaim(r)
        /\ \/ task' = IF Claimable(r) THEN [run |-> r, at |-> "lock"] ELSE None
           \/ Claimable(r) /\ task' = task
  BY DEF Claim
<1>2. task = None
  BY DEF Claim
<1>3. r \in Run /\ Pending(r)
  BY DEF Heads
<1>. DEFINE requeued == [s \in Run |-> IF Pending(s) THEN "pending" ELSE action[s]]
<1>4. /\ requeued \in [Run -> {"none", "pending", "leased", "done", "failed"}]
      /\ requeued[r] = "pending" /\ action[r] \notin {"none", "done"}
      /\ \A s \in Run : /\ requeued[s] = "none" <=> action[s] = "none"
                        /\ requeued[s] = "done" <=> action[s] = "done"
  BY <1>3 DEF Types, Pending
<1>5. CASE Claimable(r)
  <2>1. /\ action' = [requeued EXCEPT ![r] = "leased"]
        /\ status' = [status EXCEPT ![IssueOf(r)] = "cleaning"]
        /\ IF IssueOf(r) \in upserted
           THEN races' = races + 1 ELSE races' = races
    BY <1>1, <1>5 DEF ApplyClaim
  <2>2. task' = [run |-> r, at |-> "lock"] \/ task' = None
    BY <1>1, <1>2, <1>5
  <2>. HIDE DEF requeued
  <2>. QED BY <1>3, <1>4, <1>5, <2>1, <2>2
<1>6. CASE ~Claimable(r)
  <2>1. action' = requeued /\ status' = status /\ races' = races
    BY <1>1, <1>6 DEF ApplyClaim
  <2>2. task' = None
    BY <1>1, <1>6
  <2>. QED BY <1>4, <2>1, <2>2
<1>. QED BY <1>5, <1>6

\* What the claim has looked at, the removal starts from.
LEMMA ClaimKeeps ==
    ASSUME IInv, Claim
    PROVE  IInv'
<1>. DEFINE Kept == <<forge, latest, claims, record, upserted, worktrees, sessions,
                      directories, human>>
<1>1. UNCHANGED Kept
  BY DEF Claim, files
<1>2. Types'
  BY <1>1, ClaimEffect DEF IInv, Types, Run, Claimable, IssueOf
<1>3. ScheduledRunsAreDue'
  BY <1>1, ClaimEffect DEF IInv, Types, Run, ScheduledRunsAreDue, Current, IssueOf
<1>4. RemovalKeepsItsClaim'
  BY <1>1, ClaimEffect DEF IInv, Types, Run, Claimable, RemovalKeepsItsClaim,
         Unreported, Current, IssueOf
<1>5. CompactedIsDone'
  BY <1>1, ClaimEffect DEF IInv, CompactedIsDone
<1>6. DoneIsGone'
  BY <1>1, ClaimEffect DEF IInv, Types, DoneIsGone, Current, IssueOf
<1>7. HumanUndisturbed'
  BY ClaimEffect DEF IInv, HumanUndisturbed, Removing
<1>. QED BY <1>2, <1>3, <1>4, <1>5, <1>6, <1>7 DEF IInv

\* The human's lock and the removal's exclude each other from either side.
LEMMA TakeLockKeeps ==
    ASSUME IInv, TakeLock
    PROVE  IInv'
<1>1. human' = None \/ human' = [human EXCEPT !.locked = TRUE]
  BY DEF TakeLock
<1>2. human \in [run : Run, locked : BOOLEAN]
  BY DEF IInv, Types, TakeLock
<1>3. human' # None => human' \in [run : Run, locked : BOOLEAN]
  BY <1>1, <1>2, Zenon
<1>4. Types'
  BY <1>3 DEF IInv, Types, TakeLock, database, files, bounds
<1>5. HumanUndisturbed'
  BY <1>2 DEF TakeLock, HumanUndisturbed, Removing, IssueOf
<1>6. /\ ScheduledRunsAreDue' /\ RemovalKeepsItsClaim'
      /\ CompactedIsDone' /\ DoneIsGone'
  BY DEF IInv, TakeLock, database, files, bounds, ScheduledRunsAreDue,
         RemovalKeepsItsClaim, Unreported, CompactedIsDone, DoneIsGone, Current,
         IssueOf
<1>. QED BY <1>4, <1>5, <1>6 DEF IInv

\* A report that is applied while the action is held finds what the claim saw,
\* and nothing left of what was removed.  Any other report changes nothing.
LEMMA FinishKeeps ==
    ASSUME IInv, NEW ok \in BOOLEAN, Reporting(ok), ApplyFinish(task.run, ok),
           UNCHANGED <<forge, upserted, files, human, races>>,
           task' = None \/ task' = task
    PROVE  IInv'
<1>. DEFINE r == task.run
<1>1. /\ r \in Run /\ r[1] \in Issue
      /\ ok => task.at = "removed"
  BY DEF IInv, Types, Run, Reporting, At
<1>2. CASE ~Held(r)
  <2>1. UNCHANGED <<forge, database, upserted, files, human, races>>
    BY <1>2 DEF ApplyFinish
  <2>. QED
    BY <2>1 DEF IInv, Types, database, files, ScheduledRunsAreDue,
         RemovalKeepsItsClaim, Unreported, CompactedIsDone, DoneIsGone,
         HumanUndisturbed, Removing, Current, IssueOf
<1>3. CASE Held(r)
  <2>. DEFINE end == IF ok THEN "done" ELSE "failed"
  <2>1. /\ action[r] = "leased"
        /\ action' = [action EXCEPT ![r] = end]
        /\ record' = IF ok THEN [record EXCEPT ![r] = "compacted"] ELSE record
        /\ status' = [status EXCEPT ![r[1]] =
                IF ok THEN "archived" ELSE "cleanup-failed"]
        /\ UNCHANGED <<latest, claims>>
    BY <1>3 DEF ApplyFinish, FinishedAs, Held, IssueOf
  <2>2. Types'
    BY <1>1, <2>1 DEF IInv, Types, files
  <2>3. ScheduledRunsAreDue'
    BY <1>1, <2>1 DEF IInv, Types, ScheduledRunsAreDue, Current, IssueOf
  <2>4. RemovalKeepsItsClaim'
    BY <1>1, <2>1 DEF IInv, Types, Reporting, At, RemovalKeepsItsClaim, Unreported,
         Places
  <2>5. CompactedIsDone'
    BY <1>1, <2>1 DEF IInv, Types, CompactedIsDone
  <2>6. DoneIsGone'
    <3>. SUFFICES ASSUME races = 0, NEW s \in Run, action'[s] = "done"
                  PROVE  /\ s \notin directories
                         /\ Current(s) => IssueOf(s) \notin worktrees \cup sessions
      BY <2>1 DEF DoneIsGone, files, Current
    <3>1. CASE s = r
      <4>1. ok
        BY <1>1, <2>1, <3>1 DEF IInv, Types
      <4>2. task.at = "removed" /\ Unreported
        BY <1>1, <2>1, <4>1 DEF Unreported, Reporting, At
      <4>. QED BY <3>1, <4>2 DEF IInv, RemovalKeepsItsClaim
    <3>2. CASE s # r
      <4>1. action[s] = "done"
        BY <1>1, <2>1, <3>2 DEF IInv, Types
      <4>. QED BY <4>1 DEF IInv, DoneIsGone
    <3>. QED BY <3>1, <3>2
  <2>7. HumanUndisturbed'
    BY DEF IInv, HumanUndisturbed, Removing, IssueOf
  <2>. QED BY <2>2, <2>3, <2>4, <2>5, <2>6, <2>7 DEF IInv
<1>. QED BY <1>2, <1>3

-----------------------------------------------------------------------------
(* The inductive invariant *)

\* Before the first dispatch there is nothing to remove.
LEMMA Initially == Init => IInv
<1>. SUFFICES ASSUME Init PROVE IInv
  OBVIOUS
<1>1. Types
  BY RetentionAssumption DEF RetentionAssumption, Init, Types
<1>2. ScheduledRunsAreDue /\ CompactedIsDone /\ DoneIsGone
  BY DEF Init, ScheduledRunsAreDue, CompactedIsDone, DoneIsGone
<1>3. RemovalKeepsItsClaim /\ HumanUndisturbed
  BY DEF Init, RemovalKeepsItsClaim, Unreported, HumanUndisturbed, Removing
<1>. QED BY <1>1, <1>2, <1>3 DEF IInv

\* Every step keeps the invariant.
LEMMA Preservation == IInv /\ [Next]_vars => IInv'
<1>. SUFFICES ASSUME IInv, [Next]_vars PROVE IInv'
  OBVIOUS
<1>1. ASSUME NEW m \in MergeRequest, ForgeStep(m) PROVE IInv'
  BY <1>1 DEF IInv, Types, ForgeStep, database, files, bounds, Removing,
         ScheduledRunsAreDue, RemovalKeepsItsClaim, Unreported,
         CompactedIsDone, DoneIsGone, HumanUndisturbed, Current
<1>2. ASSUME NEW i \in Issue, Upsert(i) PROVE IInv'
  BY <1>2 DEF IInv, Types, Upsert, database, files, bounds, Removing, Settling,
         ScheduledRunsAreDue, RemovalKeepsItsClaim, Unreported,
         CompactedIsDone, DoneIsGone, HumanUndisturbed, Current
<1>3. ASSUME NEW i \in Issue, Prepare(i) PROVE IInv'
  BY <1>3 DEF IInv, Types, Run, Prepare, database, bounds, Removing,
         ScheduledRunsAreDue, RemovalKeepsItsClaim, Unreported,
         CompactedIsDone, DoneIsGone, HumanUndisturbed, Current, IssueOf
<1>4. ASSUME RetentionPass PROVE IInv'
  BY <1>4 DEF IInv, Types, Run, RetentionPass, files, bounds, Removing, Mergeable,
         Ripe, Scheduled, ScheduledRunsAreDue, RemovalKeepsItsClaim,
         Unreported, CompactedIsDone, DoneIsGone, HumanUndisturbed, Current,
         IssueOf
<1>5. ASSUME NEW r \in Run, Lapse(r) PROVE IInv'
  BY <1>5 DEF IInv, Types, Lapse, files, Removing, ScheduledRunsAreDue,
         RemovalKeepsItsClaim, Unreported, CompactedIsDone, DoneIsGone,
         HumanUndisturbed, Current
<1>6. ASSUME NEW r \in Run, LookAtRow(r) PROVE IInv'
  BY <1>6 DEF IInv, Types, LookAtRow, database, files, bounds, ScheduledRunsAreDue,
         RemovalKeepsItsClaim, Unreported, CompactedIsDone, DoneIsGone,
         HumanUndisturbed, Current
<1>7. ASSUME Lock PROVE IInv'
  BY <1>7 DEF IInv, Types, Places, Lock, database, files, bounds, Removing, At,
         Goto, LockFree, ScheduledRunsAreDue, RemovalKeepsItsClaim,
         Unreported, CompactedIsDone, DoneIsGone, HumanUndisturbed, Current
<1>8. ASSUME RemoveWorktree PROVE IInv'
  BY <1>8 DEF IInv, Types, Places, RemoveWorktree, database, bounds, Removing, At,
         Goto, ScheduledRunsAreDue, RemovalKeepsItsClaim, Unreported,
         CompactedIsDone, DoneIsGone, HumanUndisturbed, Current
<1>9. ASSUME RemoveDirectory PROVE IInv'
  BY <1>9 DEF IInv, Types, Places, RemoveDirectory, database, bounds, Removing, At,
         Goto, ScheduledRunsAreDue, RemovalKeepsItsClaim, Unreported,
         CompactedIsDone, DoneIsGone, HumanUndisturbed, Current
<1>10. ASSUME RemoveSession PROVE IInv'
  BY <1>10 DEF IInv, Types, RemoveSession, database, bounds, Removing, At, Goto,
         ScheduledRunsAreDue, RemovalKeepsItsClaim, Unreported,
         CompactedIsDone, DoneIsGone, HumanUndisturbed, Current
<1>11. ASSUME NEW place \in Places, Raise(place) PROVE IInv'
  BY <1>11 DEF IInv, Types, Raise, database, files, Removing, At, Goto, Fail,
         ScheduledRunsAreDue, RemovalKeepsItsClaim, Unreported,
         CompactedIsDone, DoneIsGone, HumanUndisturbed, Current
<1>12. ASSUME NEW ok \in BOOLEAN, FinishAnswered(ok) PROVE IInv'
  BY <1>12, FinishKeeps DEF FinishAnswered, bounds
<1>13. ASSUME NEW ok \in BOOLEAN, FinishUnanswered(ok) PROVE IInv'
  BY <1>13, FinishKeeps DEF FinishUnanswered, Lose, bounds
<1>14. ASSUME NEW ok \in BOOLEAN, FinishGivenUp(ok) PROVE IInv'
  BY <1>14 DEF IInv, Types, FinishGivenUp, database, files, Removing, Lose,
         ScheduledRunsAreDue, RemovalKeepsItsClaim, Unreported,
         CompactedIsDone, DoneIsGone, HumanUndisturbed, Current
<1>15. ASSUME Restart PROVE IInv'
  BY <1>15 DEF IInv, Types, Restart, database, files, Removing, ScheduledRunsAreDue,
         RemovalKeepsItsClaim, Unreported, CompactedIsDone, DoneIsGone,
         HumanUndisturbed, Current
<1>16. ASSUME Leave PROVE IInv'
  BY <1>16 DEF IInv, Types, Leave, database, files, bounds, ScheduledRunsAreDue,
         RemovalKeepsItsClaim, Unreported, CompactedIsDone, DoneIsGone,
         HumanUndisturbed, Current
<1>17. ASSUME NEW r \in Run, Redelivered(r) PROVE IInv'
  BY <1>17, RedeliveredKeeps
<1>18. ASSUME UNCHANGED vars PROVE IInv'
  BY <1>18 DEF IInv, Types, vars, database, files, bounds, ScheduledRunsAreDue,
         RemovalKeepsItsClaim, Unreported, CompactedIsDone, DoneIsGone,
         HumanUndisturbed, Removing, Current, IssueOf
<1>. QED
  BY InsertKeeps, SettleKeeps, ClaimKeeps, TakeLockKeeps,
     <1>1, <1>2, <1>3, <1>4, <1>5, <1>6, <1>7, <1>8, <1>9, <1>10, <1>11, <1>12,
     <1>13, <1>14, <1>15, <1>16, <1>17, <1>18
  DEF Next, Maintenance, Places

\* The invariant holds of every state of every run of the system.
THEOREM Invariance == Spec => []IInv
BY Initially, Preservation, PTL DEF Spec

-----------------------------------------------------------------------------
(* What it says *)

\* While no claim falls between the two transactions of a dispatch
\* (claim_workspace_actions, store.py), and no outcome is recorded once more over
\* a cleanup (record_terminal, outbox.py), a removal works on a settled, current
\* run whose merge requests were all merged a week ago, and whose conversation
\* takes no dispatch.
THEOREM OnlyDueRunsAreRemoved == Spec => []RemovesOnlyDueRuns
<1>1. IInv => RemovesOnlyDueRuns
  BY DEF IInv, Types, ScheduledRunsAreDue, RemovalKeepsItsClaim, Unreported,
         RemovesOnlyDueRuns, Removing, Places, Settling
<1>. QED BY <1>1, Invariance, PTL

\* Nothing that a compacted audit record says is gone is there, or comes back
\* before the issue is dispatched again (finish_workspace_action, store.py).
THEOREM AuditRecordsAreTrue == Spec => []AuditedIsGone
<1>1. IInv => AuditedIsGone
  BY DEF IInv, CompactedIsDone, DoneIsGone, AuditedIsGone
<1>. QED BY <1>1, Invariance, PTL

\* CleanupExecutor.remove (cleanup.py) and the interactive resume (remote.py)
\* never hold the session of an issue at the same time.
THEOREM HumansAreUndisturbed == Spec => []HumanUndisturbed
<1>1. IInv => HumanUndisturbed
  BY DEF IInv
<1>. QED BY <1>1, Invariance, PTL

=================================================================================
