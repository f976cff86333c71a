----------------------------- MODULE HostedOutbox -----------------------------
(***************************************************************************)
(* The publisher (controller/outbox.py): the one thread that writes notes  *)
(* and labels to GitLab, from the rows of the outbox table.  Everything a  *)
(* row causes concerns one issue, so one issue is modelled, with its jobs  *)
(* 1, 2, ... in the order they were dispatched; the newest is the          *)
(* conversation's current job.                                             *)
(*                                                                         *)
(* Every database transaction and every GitLab call is a step of its own.  *)
(* A call may fail before or after it took effect, and the controller may  *)
(* die between any two steps; meanwhile jobs start and end, a human adds   *)
(* the trigger label again, and the poller dispatches.                     *)
(*                                                                         *)
(* A delivered or failed item needs the lease generation its claim drew;   *)
(* only this thread claims, so the generations always match and are left   *)
(* out.                                                                    *)
(***************************************************************************)
EXTENDS Integers, Sequences, FiniteSetsExt

CONSTANTS
    MaxJobs,        \* bound: jobs dispatched for the issue
    MaxRejections,  \* bound: rejections written to the outbox
    MaxTriggers,    \* bound: how often a human adds the trigger label again
    MaxFailures,    \* bound: GitLab calls that fail
    MaxCrashes,     \* bound: restarts of the controller
    MaxTroubles     \* bound: all of these but the jobs together

ASSUME OutboxAssumption ==
    {MaxJobs, MaxRejections, MaxTriggers, MaxFailures, MaxCrashes,
     MaxTroubles} \subseteq Nat

VARIABLES
    \* GitLab
    label,          \* the issue's workflow label
    notes,          \* how many notes carry the marker of each row
    \* the database
    jobs,           \* the state of each job; the last one is current
    status,         \* conversations.status
    outbox,         \* the rows, in outbox_id order
    trigger,        \* a label-add event the poller has not handled yet
    \* the publisher's thread
    pc,             \* where deliver is
    batch,          \* the claimed rows still to deliver
    \* spent bounds
    rejections, triggers, failures, crashes

gitlab == <<label, notes>>
database == <<jobs, status, outbox, trigger>>
publisher == <<pc, batch>>
bounds == <<rejections, triggers, failures, crashes>>
vars == <<gitlab, database, publisher, bounds>>

Budget == rejections + triggers + failures + crashes < MaxTroubles

-----------------------------------------------------------------------------
(* Rows and labels *)

Current == Len(jobs)
Active == {"queued", "running"}

\* A job that failed, and what the reply of one that succeeded amounts to
\* once completion_body and validate_mrs have read it: a question, a valid
\* deliverable, or a failed validation.
Ended == {"failed", "parked", "done", "invalid"}
Settled == {"parked", "succeeded", "failed"}

\* "ready" is the trigger label; "done" is agent::mr-ready or
\* agent::for-human; "working" includes agent::researching.
Label == {"ready", "working", "parked", "done", "failed"}

\* A row names its job; a rejection names the job that was current when it
\* was written (rejected_at against created_at) and whether to set the label.
OutboxRow == [kind : {"job-started", "job-ended", "dispatch-rejected"},
              job : Nat,
              setFailed : BOOLEAN,
              state : {"pending", "delivering", "delivered", "backing-off"}]

NewRow(kind, n, setFailed) ==
    [kind |-> kind, job |-> n, setFailed |-> setFailed, state |-> "pending"]

Insert(row) ==
    /\ outbox' = Append(outbox, row)
    /\ notes' = Append(notes, 0)

TerminalLabel(ended) == IF ended = "invalid" THEN "failed" ELSE ended

TerminalStatus(ended) ==
    IF TerminalLabel(ended) = "done" THEN "succeeded" ELSE TerminalLabel(ended)

Init ==
    /\ label = "ready"
    /\ notes = <<>>
    /\ jobs = <<>>
    /\ status = "idle"
    /\ outbox = <<>>
    /\ trigger = TRUE
    /\ pc = "idle"
    /\ batch = {}
    /\ rejections = 0 /\ triggers = 0 /\ failures = 0 /\ crashes = 0

-----------------------------------------------------------------------------
(* The issue's jobs, and the poller *)

Busy == (jobs # <<>> /\ jobs[Current] \in Active) \/ status = "finishing"

Dispatch ==
    /\ Current < MaxJobs
    /\ jobs' = Append(jobs, "queued")
    /\ status' = "queued"
    /\ UNCHANGED <<label, notes, outbox, publisher, rejections, triggers,
                   failures, crashes>>

Rejects(setFailed) ==
    /\ rejections < MaxRejections /\ Budget
    /\ rejections' = rejections + 1
    /\ Insert(NewRow("dispatch-rejected", Current, setFailed))
    /\ UNCHANGED <<label, jobs, status, publisher, triggers, failures, crashes>>

\* A refusal for the actor, the assignees or the model hint sets the failed
\* label; one because a run is active or being finished does not.
Refuse ==
    \/ Rejects(TRUE)
    \/ Busy /\ Rejects(FALSE)

\* The poller finds the trigger label and its newest add event.
TakeTrigger ==
    /\ trigger /\ label = "ready"
    /\ trigger' = FALSE
    /\ \/ ~Busy /\ Dispatch
       \/ Refuse

\* A comment while a run is active is parked; its drain is the next comment.
TakeComment ==
    /\ \/ ~Busy /\ Dispatch
       \/ Refuse
    /\ UNCHANGED trigger

\* mark_started
Start ==
    /\ jobs # <<>> /\ jobs[Current] = "queued"
    /\ jobs' = [jobs EXCEPT ![Current] = "running"]
    /\ status' = "working"
    /\ Insert(NewRow("job-started", Current, FALSE))
    /\ UNCHANGED <<label, trigger, publisher, bounds>>

\* complete_job, fail_unstarted or reap_expired
End ==
    /\ jobs # <<>> /\ jobs[Current] \in Active
    /\ \E ended \in IF jobs[Current] = "queued" THEN {"failed"} ELSE Ended :
         jobs' = [jobs EXCEPT ![Current] = ended]
    /\ status' = "finishing"
    /\ Insert(NewRow("job-ended", Current, FALSE))
    /\ UNCHANGED <<label, trigger, publisher, bounds>>

\* A human removes the workflow label and adds the trigger label.
AddTrigger ==
    /\ triggers < MaxTriggers /\ Budget
    /\ triggers' = triggers + 1
    /\ label' = "ready" /\ trigger' = TRUE
    /\ UNCHANGED <<notes, jobs, status, outbox, publisher, rejections, failures,
                   crashes>>

-----------------------------------------------------------------------------
(* run_once: claim_outbox, then deliver row by row *)

\* Rows are delivered in the order of their outbox_id.
Item == Min(batch)
Row == outbox[Item]

SetRow(i, state) == outbox' = [outbox EXCEPT ![i].state = state]

\* Mutation: claimed rows are never claimed again.
ClaimableOnce == {i \in DOMAIN outbox : outbox[i].state = "pending"}

\* Rows left in "delivering" by a process that died are claimed again once
\* their lease has run out.
Claimable ==
    {i \in DOMAIN outbox : outbox[i].state \in {"pending", "delivering"}}

Claim ==
    LET taken == Claimable
    IN  /\ pc = "idle"
        /\ \E S \in SUBSET taken :
             /\ S # {}
             /\ \A i \in taken \ S : outbox[i].state = "delivering"
             /\ outbox' = [i \in DOMAIN outbox |->
                    IF i \in S THEN [outbox[i] EXCEPT !.state = "delivering"]
                               ELSE outbox[i]]
             /\ batch' = S
        /\ pc' = "read"
        /\ UNCHANGED <<gitlab, jobs, status, trigger, bounds>>

\* available_at of a failed row has come.
BackoffOver(i) ==
    /\ outbox[i].state = "backing-off"
    /\ SetRow(i, "pending")
    /\ UNCHANGED <<gitlab, jobs, status, trigger, publisher, bounds>>

\* Mutation: a start is published although its job has ended.
SupersededIfNotCurrent(row) == row.job # Current

\* The row's cause is out of date and it is marked delivered as it stands: the
\* job is no longer current, a start whose job has ended, a rejection
\* followed by a dispatch or met by an active run.
Superseded(row) ==
    CASE row.kind = "job-started" ->
             row.job # Current \/ jobs[row.job] \notin Active
      [] row.kind = "job-ended" -> row.job # Current
      [] row.kind = "dispatch-rejected" ->
             \/ jobs # <<>> /\ jobs[Current] \in Active
             \/ row.job < Current

Read ==
    /\ pc = "read"
    /\ pc' = IF Superseded(Row) THEN "delivered"
             ELSE IF Row.kind = "job-started" THEN "label" ELSE "note"
    /\ UNCHANGED <<gitlab, database, batch, bounds>>

\* Mutation: the marker is not looked for.
NotesWithoutLookup(i) == notes[i] + 1

\* ensure_note: the marker is looked for first.
NotesEnsured(i) == IF notes[i] = 0 THEN 1 ELSE notes[i]

EnsureNote ==
    /\ pc = "note"
    /\ notes' = [notes EXCEPT ![Item] = NotesEnsured(Item)]
    /\ pc' = IF Row.kind = "dispatch-rejected" /\ ~Row.setFailed
             THEN "delivered" ELSE "label"
    /\ UNCHANGED <<label, database, batch, bounds>>

RowLabel(row) ==
    CASE row.kind = "job-started" -> "working"
      [] row.kind = "job-ended" -> TerminalLabel(jobs[row.job])
      [] row.kind = "dispatch-rejected" -> "failed"

\* set_issue_agent_label: adds one workflow label and removes all others.
SetLabel ==
    /\ pc = "label"
    /\ label' = RowLabel(Row)
    /\ pc' = IF Row.kind = "job-ended" THEN "settle" ELSE "delivered"
    /\ UNCHANGED <<notes, database, batch, bounds>>

\* The call raises; GitLab may have carried it out.
GitLabFails ==
    /\ pc \in {"note", "label"}
    /\ failures < MaxFailures /\ Budget
    /\ failures' = failures + 1
    /\ pc' = "failed"
    /\ \/ UNCHANGED gitlab
       \/ pc = "note" /\ UNCHANGED label
          /\ notes' = [notes EXCEPT ![Item] = NotesEnsured(Item)]
       \/ pc = "label" /\ label' = RowLabel(Row) /\ UNCHANGED notes
    /\ UNCHANGED <<database, batch, rejections, triggers, crashes>>

\* Mutation: the conversation is settled for any of its jobs.
SettlesAnyJob(row) == TRUE

\* record_terminal updates the conversation only for its current job.
Settles(row) == row.job = Current

Settle ==
    /\ pc = "settle"
    /\ IF Settles(Row)
       THEN status' = TerminalStatus(jobs[Row.job]) /\ pc' = "delivered"
       ELSE pc' = "failed" /\ UNCHANGED status
    /\ UNCHANGED <<gitlab, jobs, outbox, trigger, batch, bounds>>

\* mark_outbox_delivered or mark_outbox_failed
FinishedAs == IF pc = "delivered" THEN "delivered" ELSE "backing-off"

Mark ==
    /\ pc \in {"delivered", "failed"}
    /\ SetRow(Item, FinishedAs)
    /\ batch' = batch \ {Item}
    /\ pc' = IF batch' = {} THEN "idle" ELSE "read"
    /\ UNCHANGED <<gitlab, jobs, status, trigger, bounds>>

\* The controller dies and comes back; claimed rows wait for their lease.
Crash ==
    /\ pc # "idle"
    /\ crashes < MaxCrashes /\ Budget
    /\ crashes' = crashes + 1
    /\ pc' = "idle" /\ batch' = {}
    /\ UNCHANGED <<gitlab, database, rejections, triggers, failures>>

Deliver == Read \/ EnsureNote \/ SetLabel \/ Settle \/ Mark

Next ==
    \/ TakeTrigger \/ TakeComment
    \/ Start \/ End
    \/ AddTrigger
    \/ Claim \/ Deliver \/ GitLabFails \/ Crash
    \/ \E i \in DOMAIN outbox : BackoffOver(i)

Spec == Init /\ [][Next]_vars

RowNumbers == 1..(2 * MaxJobs + MaxRejections)

\* The publisher's thread runs, backoffs end, leases run out; jobs and humans
\* are not obliged to do anything.
FairSpec ==
    /\ Spec
    /\ WF_vars(Claim) /\ WF_vars(Deliver)
    /\ \A i \in RowNumbers : WF_vars(i \in DOMAIN outbox /\ BackoffOver(i))

-----------------------------------------------------------------------------
(* Properties *)

TypeOK ==
    /\ label \in Label
    /\ notes \in Seq(Nat) /\ Len(notes) = Len(outbox)
    /\ jobs \in Seq(Active \cup Ended)
    /\ status \in {"idle", "queued", "working", "finishing"} \cup Settled
    /\ outbox \in Seq(OutboxRow)
    /\ trigger \in BOOLEAN
    /\ pc \in {"idle", "read", "note", "label", "settle", "delivered", "failed"}
    /\ batch \subseteq DOMAIN outbox /\ (batch = {} <=> pc = "idle")
    /\ {rejections, triggers, failures, crashes} \subseteq Nat

\* Redelivery is idempotent: however often a row is delivered, after crashes
\* and after calls whose outcome is unknown, it leaves one note.
OneNotePerRow == \A i \in DOMAIN notes : notes[i] <= 1

\* A conversation opens for the next dispatch only after the outcome of its
\* current job was posted, and under the status that job earned; a late
\* redelivery for an earlier job changes nothing.
SettledWithItsNote ==
    status \in Settled =>
        /\ status = TerminalStatus(jobs[Current])
        /\ \E i \in DOMAIN outbox :
             /\ outbox[i].kind = "job-ended" /\ outbox[i].job = Current
             /\ notes[i] = 1

\* Once every row is delivered, the board shows the state of the current job,
\* whatever was retried, redelivered or overtaken, unless a human or a
\* later rejection spoke last.
Quiet == pc = "idle" /\ \A i \in DOMAIN outbox : outbox[i].state = "delivered"

RejectedSince(n) ==
    \E i \in DOMAIN outbox :
        outbox[i].kind = "dispatch-rejected" /\ outbox[i].setFailed
        /\ outbox[i].job >= n

BoardShowsCurrentJob ==
    Quiet /\ jobs # <<>> /\ jobs[Current] # "queued" =>
        \/ label = IF jobs[Current] = "running" THEN "working"
                   ELSE TerminalLabel(jobs[Current])
        \/ label = "failed" /\ RejectedSince(Current)
        \/ label = "ready" /\ triggers > 0

\* Every row is delivered in the end, and every conversation whose job ended
\* opens again.
RowsAreDelivered ==
    \A i \in RowNumbers :
        (i \in DOMAIN outbox) ~> (i \in DOMAIN outbox /\ outbox[i].state = "delivered")

ConversationsReopen == (status = "finishing") ~> (status # "finishing")

\* "re-adding always re-triggers": an added trigger label stays until the
\* poller has handled its event.
TriggerStaysUntilTaken == trigger => label = "ready"

\* "rejects with a posted note when anything fails": a rejection that was
\* delivered left its note, or a later dispatch made it pointless.
RejectionsArePosted ==
    \A i \in DOMAIN outbox :
        outbox[i].kind = "dispatch-rejected" /\ outbox[i].state = "delivered" =>
            notes[i] = 1 \/ outbox[i].job < Current

=============================================================================
