------------------------------- MODULE Retention -------------------------------
(***************************************************************************)
(* The end of a run: controller/retention.py schedules the cleanup of a    *)
(* run whose merge requests are merged, the runner's maintenance loop      *)
(* (runner/runtime.py) claims it, removes worktree, run directory and      *)
(* session under the chat lock (runner/cleanup.py), and the controller     *)
(* compacts the rows to an audit record (store.py).                        *)
(*                                                                         *)
(* One workspace.  The runs of an issue are numbered; the last one is the  *)
(* conversation's current job.  They share the issue's worktree and        *)
(* session, each has a run directory of its own.  How jobs are leased and  *)
(* their ends published are other modules' subjects: here a job is active  *)
(* until its outcome is settled.  Instead of a clock a lease lapses at any *)
(* moment, and a merge gets a week old at any moment.                      *)
(*                                                                         *)
(* Only the one maintenance thread of the workspace claims its actions,    *)
(* and not before it is done with the last one: the lease generation it    *)
(* reports always matches, and is left out.                                *)
(***************************************************************************)
EXTENDS Integers, FiniteSets

CONSTANTS
    Issue,
    MergeRequest,
    MaxRuns,        \* bound: runs per issue
    MaxSlow,        \* bound: leases that lapse under a removal at work
    MaxLost,        \* bound: requests of the runner, answers, or marks of the
                    \* publisher lost
    MaxFailures,    \* bound: removals that raise
    MaxRestarts,    \* bound: restarts of the workspace container
    MaxMishaps,     \* bound: of the four kinds above together
    MaxGone,        \* bound: merge requests GitLab stops returning
    MaxRaces,       \* bound: claims between the two transactions of a dispatch, and
                    \* outcomes recorded again over a cleanup
    None

ASSUME RetentionAssumption ==
    {MaxRuns, MaxSlow, MaxLost, MaxFailures, MaxRestarts, MaxMishaps, MaxGone,
     MaxRaces}
        \subseteq Nat

VARIABLES
    \* GitLab
    forge,          \* each merge request: opened, merged, old (a week), gone
    \* the database
    latest,         \* conversations.current_job_id, as the run's number
    status,         \* conversations.status
    claims,         \* merge_requests: those recorded for a run ...
    merged,         \* ... and those whose row says merged
    record,         \* retention_records: none, due, compacted
    action,         \* workspace_actions.state
    rank,           \* their created_at
    leased,         \* actions whose lease has not lapsed
    unmarked,       \* outbox: runs whose outcome was recorded, and the row not marked
    \* the poller's thread
    upserted,       \* issues between upsert_conversation and the job
    \* the maintenance thread
    task,           \* the claimed action and where its removal stands
    \* files, and the human
    worktrees, sessions, directories,
    human,          \* the run resumed interactively, and whether it is locked
    \* spent bounds
    lost, failures, restarts, slow, races

database == <<latest, status, claims, merged, record, action, rank, leased, unmarked>>
files == <<worktrees, sessions, directories>>
bounds == <<lost, failures, restarts, slow, races>>
vars == <<forge, database, upserted, task, files, human, bounds>>

-----------------------------------------------------------------------------

Run == Issue \X (1..MaxRuns)
IssueOf(r) == r[1]
Current(r) == latest[IssueOf(r)] = r[2]

\* The statuses a dispatch refuses (dispatch.py:236).
Settling == {"cleaning", "cleanup-failed"}

Init ==
    /\ forge = [m \in MergeRequest |-> "opened"]
    /\ latest = [i \in Issue |-> 0]
    /\ status = [i \in Issue |-> "idle"]
    /\ claims = [r \in Run |-> {}]
    /\ merged = [r \in Run |-> {}]
    /\ record = [r \in Run |-> "none"]
    /\ action = [r \in Run |-> "none"]
    /\ rank = [r \in Run |-> 0]
    /\ leased = {} /\ unmarked = {}
    /\ upserted = {}
    /\ task = None
    /\ worktrees = {} /\ sessions = {} /\ directories = {}
    /\ human = None
    /\ lost = 0 /\ failures = 0 /\ restarts = 0 /\ slow = 0 /\ races = 0

Mishap == lost + failures + restarts + slow < MaxMishaps

Lose ==
    /\ lost < MaxLost /\ Mishap /\ lost' = lost + 1
    /\ UNCHANGED <<failures, restarts, slow, races>>
Fail ==
    /\ failures < MaxFailures /\ Mishap /\ failures' = failures + 1
    /\ UNCHANGED <<lost, restarts, slow, races>>

-----------------------------------------------------------------------------
(* GitLab and the life of a run up to its settled outcome *)

\* A merge request is merged, a merge gets a week old, or an open one can no
\* longer be fetched (deleted, or its project moved).
ForgeStep(m) ==
    /\ \/ forge[m] = "opened" /\ forge' = [forge EXCEPT ![m] = "merged"]
       \/ forge[m] = "merged" /\ forge' = [forge EXCEPT ![m] = "old"]
       \/ /\ forge[m] = "opened"
          /\ Cardinality({n \in MergeRequest : forge[n] = "gone"}) < MaxGone
          /\ forge' = [forge EXCEPT ![m] = "gone"]
    /\ UNCHANGED <<database, upserted, task, files, human, bounds>>

\* The first transaction of a dispatch ...
Upsert(i) ==
    /\ latest[i] < MaxRuns /\ i \notin upserted
    /\ status[i] \notin Settling \cup {"active"}
    /\ upserted' = upserted \cup {i}
    /\ UNCHANGED <<forge, database, task, files, human, bounds>>

\* ... and the second, which does not look at the status again.  Outcomes of
\* earlier runs are not recorded any more.
Insert(i) ==
    /\ i \in upserted
    /\ upserted' = upserted \ {i}
    /\ latest' = [latest EXCEPT ![i] = @ + 1]
    /\ status' = [status EXCEPT ![i] = "active"]
    /\ unmarked' = {r \in unmarked : IssueOf(r) # i}
    /\ UNCHANGED <<forge, claims, merged, record, action, rank, leased, task, files,
                   human, bounds>>

\* The runner prepares what the run needs and does not exist.
Prepare(i) ==
    /\ status[i] = "active" /\ <<i, latest[i]>> \notin directories
    /\ worktrees' = worktrees \cup {i}
    /\ sessions' = sessions \cup {i}
    /\ directories' = directories \cup {<<i, latest[i]>>}
    /\ UNCHANGED <<forge, database, upserted, task, human, bounds>>

\* record_terminal: "stopped" stands for parked and failed.  Only a run that
\* implements an issue has claims; for the others completion_body drops them.
Settle(i) ==
    /\ status[i] = "active" /\ <<i, latest[i]>> \in directories
    /\ \/ /\ status' = [status EXCEPT ![i] = "succeeded"]
          /\ \E ms \in SUBSET {m \in MergeRequest : forge[m] # "gone"} :
               claims' = [claims EXCEPT ![<<i, latest[i]>>] = ms]
       \/ /\ status' = [status EXCEPT ![i] = "stopped"]
          /\ UNCHANGED claims
    /\ \/ UNCHANGED <<unmarked, bounds>>
       \/ Lose /\ unmarked' = unmarked \cup {<<i, latest[i]>>}
    /\ UNCHANGED <<forge, latest, merged, record, action, rank, leased,
                   upserted, task, files, human>>

\* A row that was not marked is delivered again: record_terminal looks whether
\* the job is current and not at the status.  A merge request that cannot be
\* fetched any more fails the run, and so does a result that was compacted
\* before it was read.
Redelivered(r) ==
    /\ r \in unmarked /\ Current(r)
    /\ unmarked' = unmarked \ {r}
    /\ \/ /\ status[IssueOf(r)] # "stopped" /\ \A m \in claims[r] : forge[m] # "gone"
          /\ status' = [status EXCEPT ![IssueOf(r)] = "succeeded"]
          /\ merged' = [merged EXCEPT ![r] = {}]
       \/ /\ \/ status[IssueOf(r)] \in {"stopped", "archived"}
             \/ \E m \in claims[r] : forge[m] = "gone"
          /\ status' = [status EXCEPT ![IssueOf(r)] = "stopped"]
          /\ UNCHANGED merged
    /\ IF status[IssueOf(r)] \in Settling \cup {"archived"}
       THEN races < MaxRaces /\ races' = races + 1
       ELSE UNCHANGED races
    /\ UNCHANGED <<forge, latest, claims, record, action, rank, leased, upserted,
                   task, files, human, lost, failures, restarts, slow>>

-----------------------------------------------------------------------------
(* The retention thread: refresh_merge_requests, then schedule_due *)

Unmerged == UNION {claims[r] \ merged[r] : r \in Run}

Refreshed(r) == {m \in claims[r] : m \in merged[r] \/ forge[m] \in {"merged", "old"}}

\* The run whose worktree would go is the issue's last word: settled as
\* succeeded, and every merge request it claims was merged.
Mergeable(r) ==
    Current(r) /\ status[IssueOf(r)] = "succeeded"
        /\ claims[r] # {} /\ merged'[r] = claims[r]

Ripe(r) == \A m \in claims[r] : forge[m] = "old"

\* INSERT OR IGNORE finds the action of the run.
Scheduled(r) == action[r] # "none"

NextRank == 1 + Cardinality({rank[r] : r \in Run} \ {0})

\* One pass.  A merge request that cannot be fetched ends it before anything
\* is written or scheduled.
RetentionPass ==
    /\ \A m \in Unmerged : forge[m] # "gone"
    /\ merged' = [r \in Run |-> Refreshed(r)]
    /\ LET mergeable == {r \in Run : Mergeable(r)}
           due == {r \in mergeable : Ripe(r) /\ ~Scheduled(r)}
       IN  /\ record' = [r \in Run |->
                  IF r \in mergeable /\ record[r] = "none" THEN "due" ELSE record[r]]
           /\ action' = [r \in Run |->
                  IF r \in due THEN "pending" ELSE action[r]]
           /\ rank' = [r \in Run |-> IF r \in due THEN NextRank ELSE rank[r]]
    /\ UNCHANGED <<forge, latest, status, claims, leased, unmarked, upserted, task,
                   files, human, bounds>>

-----------------------------------------------------------------------------
(* The maintenance thread's requests *)

AtWork(r) == task # None /\ task.run = r

\* The lease of an action lapses.
Lapse(r) ==
    /\ r \in leased
    /\ leased' = leased \ {r}
    /\ IF AtWork(r) THEN slow < MaxSlow /\ Mishap /\ slow' = slow + 1 ELSE UNCHANGED slow
    /\ UNCHANGED <<forge, latest, status, claims, merged, record, action, rank,
                   unmarked, upserted, task, files, human, lost, failures, restarts,
                   races>>

\* Mutation: a lapsed lease is not taken back.
PendingOnly(r) == action[r] = "pending"

Pending(r) ==
    action[r] = "pending" \/ (action[r] = "leased" /\ r \notin leased)

\* LIMIT 1 takes the oldest pending action, whether it can be claimed or not.
Heads == {r \in Run : Pending(r) /\ \A s \in Run : Pending(s) => rank[r] <= rank[s]}

\* Mutation: it is not looked whether the run is still current.
ClaimableAnyRun(r) == status[IssueOf(r)] # "active"

\* The job has ended and is still the conversation's current one.
Claimable(r) == Current(r) /\ status[IssueOf(r)] # "active"

\* claim_workspace_actions: lapsed leases are pending again, the head is
\* leased if it can be.
ApplyClaim(r) ==
    LET requeued == [s \in Run |->
            IF Pending(s) THEN "pending" ELSE action[s]]
    IN  IF Claimable(r)
        THEN /\ action' = [requeued EXCEPT ![r] = "leased"]
             /\ leased' = leased \cup {r}
             /\ status' = [status EXCEPT ![IssueOf(r)] = "cleaning"]
             /\ IF IssueOf(r) \in upserted
                THEN races < MaxRaces /\ races' = races + 1
                ELSE UNCHANGED races
        ELSE /\ action' = requeued
             /\ UNCHANGED <<leased, status, races>>

Claim ==
    /\ task = None
    /\ \E r \in Heads :
         /\ ApplyClaim(r)
         /\ \/ /\ task' = IF Claimable(r)
                    THEN [run |-> r, at |-> "lock"]
                    ELSE None
               /\ UNCHANGED lost
            \/ \* the answer is lost; a repeated claim takes the next action
               /\ Claimable(r) /\ lost < MaxLost /\ Mishap /\ lost' = lost + 1
               /\ UNCHANGED task
    /\ UNCHANGED <<forge, latest, claims, merged, record, rank, unmarked, upserted,
                   files, human, failures, restarts, slow>>

At(place) == task # None /\ task.at = place
Goto(place) == task' = [task EXCEPT !.at = place]

Held(r) == action[r] = "leased" /\ r \in leased

Released(r) == leased \ {r}

\* Mutation: a failed removal is reported as done.
FinishedDone(ok) == "done"

FinishedAs(ok) == IF ok THEN "done" ELSE "failed"

\* finish_workspace_action: success compacts the record and archives the
\* conversation; under another lease, a lapsed one, or when the action is
\* finished already, nothing changes.
ApplyFinish(r, ok) ==
    IF Held(r)
    THEN /\ action' = [action EXCEPT ![r] = FinishedAs(ok)]
         /\ leased' = Released(r)
         /\ record' = IF FinishedAs(ok) = "done"
                      THEN [record EXCEPT ![r] = "compacted"] ELSE record
         /\ status' = [status EXCEPT ![IssueOf(r)] =
                IF FinishedAs(ok) = "done" THEN "archived" ELSE "cleanup-failed"]
         /\ UNCHANGED <<latest, claims, merged, rank, unmarked>>
    ELSE UNCHANGED database

Reporting(ok) == At(IF ok THEN "removed" ELSE "raised")

FinishAnswered(ok) ==
    /\ Reporting(ok)
    /\ ApplyFinish(task.run, ok)
    /\ task' = None
    /\ UNCHANGED <<forge, upserted, files, human, bounds>>

\* Applied, but the runner does not learn of it and asks again.
FinishUnanswered(ok) ==
    /\ Reporting(ok) /\ Lose
    /\ ApplyFinish(task.run, ok)
    /\ UNCHANGED <<forge, upserted, task, files, human>>

\* After the last attempt the action is left to its lease.
FinishGivenUp(ok) ==
    /\ Reporting(ok) /\ Lose
    /\ task' = None
    /\ UNCHANGED <<forge, database, upserted, files, human>>

-----------------------------------------------------------------------------
(* CleanupExecutor.remove: the chat lock, then worktree, run directory and
   session; what is gone already is skipped, each removal may raise *)

\* Mutation: the human's lock is not looked at.
LockFreeAlways(i) == TRUE

\* Nobody resumes the session interactively (the chat lock of the session).
LockFree(i) == ~(human # None /\ human.locked /\ IssueOf(human.run) = i)

\* CleanupBusy: the action stays leased until its lease lapses.
Lock ==
    /\ At("lock")
    /\ IF LockFree(IssueOf(task.run)) THEN Goto("worktree") ELSE task' = None
    /\ UNCHANGED <<forge, database, upserted, files, human, bounds>>

Raise(place) ==
    /\ At(place) /\ Fail
    /\ Goto("raised")
    /\ UNCHANGED <<forge, database, upserted, files, human>>

RemoveWorktree ==
    /\ At("worktree")
    /\ worktrees' = worktrees \ {IssueOf(task.run)}
    /\ Goto("directory")
    /\ UNCHANGED <<forge, database, upserted, sessions, directories, human, bounds>>

RemoveDirectory ==
    /\ At("directory")
    /\ directories' = directories \ {task.run}
    /\ Goto("session")
    /\ UNCHANGED <<forge, database, upserted, worktrees, sessions, human, bounds>>

RemoveSession ==
    /\ At("session")
    /\ sessions' = sessions \ {IssueOf(task.run)}
    /\ Goto("removed")
    /\ UNCHANGED <<forge, database, upserted, worktrees, directories, human, bounds>>

\* Stopping the container ends the thread and gives up its lock.
Restart ==
    /\ task # None /\ restarts < MaxRestarts /\ Mishap
    /\ restarts' = restarts + 1
    /\ task' = None
    /\ UNCHANGED <<forge, database, upserted, files, human, lost, failures, slow, races>>

-----------------------------------------------------------------------------
(* Interactive resume (remote.py): the row is read, then the lock taken *)

Resumable(r) ==
    Current(r) /\ status[IssueOf(r)] \in {"succeeded", "stopped"}

LookAtRow(r) ==
    /\ human = None /\ Resumable(r)
    /\ human' = [run |-> r, locked |-> FALSE]
    /\ UNCHANGED <<forge, database, upserted, task, files, bounds>>

Removing == task # None /\ task.at \in {"worktree", "directory", "session"}

TakeLock ==
    /\ human # None /\ ~human.locked
    /\ human' = IF Removing /\ IssueOf(task.run) = IssueOf(human.run)
                THEN None ELSE [human EXCEPT !.locked = TRUE]
    /\ UNCHANGED <<forge, database, upserted, task, files, bounds>>

Leave ==
    /\ human # None /\ human.locked
    /\ human' = None
    /\ UNCHANGED <<forge, database, upserted, task, files, bounds>>

-----------------------------------------------------------------------------

Maintenance ==
    \/ Claim \/ Lock
    \/ RemoveWorktree \/ RemoveDirectory \/ RemoveSession
    \/ \E ok \in BOOLEAN : FinishAnswered(ok)

Next ==
    \/ \E m \in MergeRequest : ForgeStep(m)
    \/ \E i \in Issue : Upsert(i) \/ Insert(i) \/ Prepare(i) \/ Settle(i)
    \/ RetentionPass
    \/ \E r \in Run : Lapse(r) \/ LookAtRow(r) \/ Redelivered(r)
    \/ Maintenance
    \/ \E ok \in BOOLEAN : FinishUnanswered(ok) \/ FinishGivenUp(ok)
    \/ \E place \in {"worktree", "directory", "session"} : Raise(place)
    \/ Restart
    \/ TakeLock \/ Leave

Spec == Init /\ [][Next]_vars

(***************************************************************************)
(* The retention and maintenance threads repeat for ever, leases lapse     *)
(* with time, and a human closes the chat some day.                        *)
(***************************************************************************)
FairSpec ==
    /\ Spec
    /\ WF_vars(RetentionPass)
    /\ WF_vars(Maintenance)
    /\ \A r \in Run : WF_vars(Lapse(r))
    /\ WF_vars(TakeLock) /\ WF_vars(Leave)
    /\ \A i \in Issue : WF_vars(Insert(i))

-----------------------------------------------------------------------------
(* Properties *)

TypeOK ==
    /\ forge \in [MergeRequest -> {"opened", "merged", "old", "gone"}]
    /\ latest \in [Issue -> 0..MaxRuns]
    /\ status \in [Issue -> {"idle", "active", "succeeded", "stopped",
                             "archived"} \cup Settling]
    /\ claims \in [Run -> SUBSET MergeRequest]
    /\ \A r \in Run : merged[r] \subseteq claims[r]
    /\ record \in [Run -> {"none", "due", "compacted"}]
    /\ action \in [Run -> {"none", "pending", "leased", "done", "failed"}]
    /\ \A r \in Run : rank[r] > 0 <=> action[r] # "none"
    /\ \A r \in leased : action[r] = "leased"
    /\ upserted \subseteq Issue /\ unmarked \subseteq Run
    /\ task # None => task.run \in Run
    /\ worktrees \subseteq Issue /\ sessions \subseteq Issue /\ directories \subseteq Run

\* While no claim falls between the two transactions of a dispatch, and no
\* outcome is recorded once more over the cleanup of its run: what is being
\* removed belongs to a settled run that is still current, whose merge
\* requests were all merged a week ago, and the conversation takes no
\* dispatch, however often leases lapse, answers get lost or the container
\* restarts meanwhile.
RemovesOnlyDueRuns ==
    Removing /\ races = 0 =>
        LET r == task.run
        IN  /\ Current(r)
            /\ claims[r] # {} /\ \A m \in claims[r] : forge[m] = "old"
            /\ status[IssueOf(r)] \in Settling \cup {"archived"}

\* An audit record says the files are gone, and they are: nothing is left of
\* the run, and nothing of the issue until it is dispatched again.
AuditedIsGone ==
    \A r \in Run : record[r] = "compacted" /\ races = 0 =>
        /\ r \notin directories
        /\ Current(r) => IssueOf(r) \notin worktrees \cup sessions

\* "Cleanup takes the same chat flock as interactive resume, so it can't
\* race a human": nothing is removed under a locked session.
HumanUndisturbed ==
    Removing /\ human # None /\ human.locked => IssueOf(human.run) # IssueOf(task.run)

\* What a human has locked is there: the row that was read before the lock
\* was taken still describes it.
ResumesWhatExists ==
    human # None /\ human.locked =>
        IssueOf(human.run) \in worktrees \cap sessions

Due(r) ==
    /\ Current(r) /\ status[IssueOf(r)] = "succeeded"
    /\ claims[r] # {} /\ Ripe(r)

\* An older action that can never be claimed again is first in line.
Blocked == \E r \in Run : Pending(r) /\ ~Current(r)

Unfetchable == \E m \in Unmerged : forge[m] = "gone"

\* The cleanup of a due run is carried out and its outcome known, through lost
\* requests, lapsed leases and outcomes recorded again: unless a dispatch takes
\* the conversation, a merge request cannot be fetched, or the line is blocked.
DueRunsAreCleaned ==
    \A r \in Run : Due(r) ~>
        \/ action[r] \in {"done", "failed"}
        \/ status[IssueOf(r)] \in {"archived", "cleanup-failed"}
        \/ ~Current(r) \/ IssueOf(r) \in upserted
        \/ Unfetchable \/ Blocked

\* "Seven days after the latest merge, the runner removes its worktree, run
\* directory, and Pi session."
DueRunsAreAlwaysCleaned ==
    \A r \in Run : Due(r) ~>
        \/ status[IssueOf(r)] \in {"archived", "cleanup-failed"}
        \/ ~Current(r) \/ Unfetchable

=============================================================================
