---------------------------- MODULE HostedDispatch ----------------------------
(***************************************************************************)
(* The controller's poller: one cycle of watcher.hosted_cycle after the    *)
(* other, each handing what it finds on GitLab to HostedDispatcher.dispatch*)
(* (controller/dispatch.py).  The poller is the only thread that           *)
(* dispatches, but every database transaction and every GitLab call of it  *)
(* is a step of its own here, so that jobs end, outcomes are settled,      *)
(* cleanups are claimed, issues are reassigned and comments are posted     *)
(* between any two of them, and the process may die between any two.       *)
(*                                                                         *)
(* One project.  The lease protocol of ControllerStore is folded into one  *)
(* step, EndJob: the dispatcher treats queued, leased and running alike.   *)
(***************************************************************************)
EXTENDS Integers, Sequences, FiniteSets, SequencesExt

CONSTANTS
    Issue,            \* the issues of the project
    Workspace,        \* dispatch-ready workspaces
    NoOne,            \* no acceptable owner: dispatch answers with a rejection
    Comments,         \* bound: the comments 1..Comments are posted, in order
    IssueOf,          \* the issue a comment belongs to
    Plain,            \* the comments that are replies without an @agent mention
    Unapproved,       \* the comments whose model hint is not in the allowlist
    LabelEvents,      \* bound: how often the trigger label is added
    PageSize,         \* per_page of the events request
    MaxAborts,        \* bound: crashes and cycles ended by an exception
    MaxOutages,       \* bound: failed GitLab look-ups
    MaxReassigned,    \* bound: changes of an issue's assignee
    MaxCleanups,      \* bound: retention cleanups claimed
    MaxTroubles       \* bound: all of these together

ASSUME DispatchAssumption ==
    /\ Comments \in Nat /\ LabelEvents \in Nat /\ PageSize \in Nat
    /\ IssueOf \in [1..Comments -> Issue]
    /\ Plain \subseteq 1..Comments
    /\ Unapproved \subseteq 1..Comments
    /\ NoOne \notin Workspace

VARIABLES
    \* GitLab
    posted,           \* comments 1..posted exist
    label,            \* newest label-add event of the trigger label, 0 if absent
    labelEvents,      \* label-add events so far
    owner,            \* whose workspace the issue's assignee (or actor) owns
    \* the database
    cursor,           \* projects.last_event_id
    bootstrapped,     \* projects.bootstrapped
    receipts,         \* event_receipts: event key -> how it was consumed
    notices,          \* dispatch-rejected rows of the outbox
    jobs,             \* the jobs table, in creation order
    conversations,    \* status, workspace, current job and pending_json
    cleaning,         \* the issues whose cleanup action is leased
    \* the poller's locals
    pc,               \* where the cycle is
    cycle,            \* what the cycle fetched and still has to handle
    candidate,        \* the DispatchCandidate being dispatched
    \* spent bounds
    aborts, outages, reassigned, cleanups

gitlab == <<posted, label, labelEvents, owner>>
database == <<cursor, bootstrapped, receipts, notices, jobs, conversations, cleaning>>
poller == <<pc, cycle, candidate>>
bounds == <<aborts, outages, reassigned, cleanups>>
vars == <<gitlab, database, poller, bounds>>

Budget == aborts + outages + reassigned + cleanups < MaxTroubles

-----------------------------------------------------------------------------
(* Event keys, rows and the poller's records *)

CommentKey(c) == [kind |-> "comment", id |-> c, drains |-> 0]
LabelKey(l) == [kind |-> "label", id |-> l, drains |-> 0]

\* pending:<the key of the last queued entry>
DrainKey(entries) ==
    LET last == entries[Len(entries)].key
    IN  [last EXCEPT !.drains = @ + 1]

EventKey == [kind : {"comment", "label"}, id : Nat, drains : Nat]

Fate == {"adopted", "dispatched", "parked", "rejected", "skipped"}

Entry == [key : EventKey, messages : Seq(1..Comments)]

JobRow == [key : EventKey, issue : Issue, workspace : Workspace,
           messages : Seq(1..Comments),
           state : {"active", "succeeded", "failed"}]

ConversationRow ==
    [status : {"absent", "idle", "active", "finishing", "settled", "cleaning",
               "cleanup-failed", "archived"},
     workspace : Workspace \cup {NoOne},
     current : Nat,                       \* index into jobs, 0 for NULL
     pending : Seq(Entry)]

EmptyCycle == [comments |-> {}, labels |-> {}, next |-> 0, halted |-> 0,
               drains |-> {}]
NoCandidate == [from |-> "none"]

Init ==
    /\ posted = 0 /\ labelEvents = 0
    /\ label = [i \in Issue |-> 0]
    /\ owner \in [Issue -> Workspace]
    /\ cursor = 0 /\ bootstrapped = FALSE
    /\ receipts = <<>> /\ notices = {} /\ jobs = <<>> /\ cleaning = {}
    /\ conversations = [i \in Issue |->
          [status |-> "absent", workspace |-> NoOne, current |-> 0,
           pending |-> <<>>]]
    /\ pc = "idle" /\ cycle = EmptyCycle /\ candidate = NoCandidate
    /\ aborts = 0 /\ outages = 0 /\ reassigned = 0 /\ cleanups = 0

-----------------------------------------------------------------------------
(* Helpers *)

Receipted(key) == key \in DOMAIN receipts
HasJob(key) == \E n \in DOMAIN jobs : jobs[n].key = key
Consumed(key) == Receipted(key) \/ HasJob(key)

\* INSERT OR IGNORE INTO event_receipts
WithReceipt(key, fate) ==
    IF Receipted(key) THEN receipts
    ELSE [k \in DOMAIN receipts \cup {key} |->
             IF k = key THEN fate ELSE receipts[k]]

\* The state of the conversation's current job (a LEFT JOIN).
CurrentState(i) ==
    IF conversations[i].current = 0 THEN "none"
    ELSE jobs[conversations[i].current].state

\* Mutation: only the conversation's status is looked at.
BusyByStatusOnly(i) == conversations[i].status \in {"finishing", "cleaning"}

\* A run is active, or its terminal state is still being worked on.
Busy(i) == \/ CurrentState(i) = "active"
           \/ conversations[i].status \in {"finishing", "cleaning"}

\* hosted_comment_events: the newest page, from the cursor on.
FetchedComments == {c \in 1..posted : c > cursor /\ c > posted - PageSize}

\* hosted_label_fires: the newest add event of every labelled issue.
LabelFires == {<<i, label[i]>> : i \in {j \in Issue : label[j] # 0}}

\* hosted_candidate: the assignee is the one the issue has when it is fetched.
Candidate(from, key, issue, messages, approved, count) ==
    [from |-> from, key |-> key, issue |-> issue, owner |-> owner[issue],
     messages |-> messages, approved |-> approved, count |-> count]

\* Mutation: the cursor is saved behind the comment that has to be retried.
CursorPastHalt == IF cycle.halted # 0 THEN cycle.halted ELSE cycle.next

\* Where the next cycle resumes.
CursorAfter == IF cycle.halted # 0 THEN cycle.halted - 1 ELSE cycle.next

\* Mutation: only a successful run frees the queue.
DrainableAfterSuccess(i) ==
    /\ conversations[i].pending # <<>>
    /\ CurrentState(i) \in {"none", "succeeded"}
    /\ conversations[i].status \notin {"finishing", "cleaning", "cleanup-failed"}

\* pending_conversations
Drainable(i) ==
    /\ conversations[i].pending # <<>>
    /\ CurrentState(i) \in {"none", "succeeded", "failed"}
    /\ conversations[i].status \notin {"finishing", "cleaning", "cleanup-failed"}

Messages(entries) == FlattenSeq([n \in DOMAIN entries |-> entries[n].messages])

\* Mutation: the last entry that was handed over stays.
ClearedShort(i, count) ==
    [conversations EXCEPT ![i].pending = SubSeq(@, count, Len(@))]

\* clear_pending: drop the first `count' entries.
Cleared(i, count) ==
    [conversations EXCEPT ![i].pending = SubSeq(@, count + 1, Len(@))]

\* The caller of dispatch, once it has its result.
Return == pc' = candidate.from /\ candidate' = NoCandidate

-----------------------------------------------------------------------------
(* The cycle *)

\* The project row is read and GitLab is asked for comments and label fires.
BeginCycle ==
    /\ pc = "idle"
    /\ cycle' = [comments |-> FetchedComments,
                 labels |-> LabelFires,
                 next |-> IF posted > 0 THEN posted ELSE cursor,
                 halted |-> 0,
                 drains |-> {}]
    /\ pc' = IF bootstrapped THEN "labels" ELSE "adopt"
    /\ UNCHANGED <<gitlab, database, candidate, bounds>>

\* The first cycle adopts what is there without dispatching it.
AdoptLabel(fire) ==
    /\ pc = "adopt" /\ fire \in cycle.labels
    /\ receipts' = WithReceipt(LabelKey(fire[2]), "adopted")
    /\ cycle' = [cycle EXCEPT !.labels = @ \ {fire}]
    /\ UNCHANGED <<gitlab, cursor, bootstrapped, notices, jobs, conversations,
                   cleaning, pc, candidate, bounds>>

FinishAdoption ==
    /\ pc = "adopt" /\ cycle.labels = {}
    /\ cursor' = cycle.next /\ bootstrapped' = TRUE
    /\ pc' = "idle" /\ cycle' = EmptyCycle
    /\ UNCHANGED <<gitlab, receipts, notices, jobs, conversations, cleaning,
                   candidate, bounds>>

TakeLabel(fire) ==
    /\ pc = "labels" /\ fire \in cycle.labels
    /\ cycle' = [cycle EXCEPT !.labels = @ \ {fire}]
    /\ IF Consumed(LabelKey(fire[2]))
       THEN UNCHANGED <<pc, candidate>>
       ELSE /\ pc' = "decide"
            /\ candidate' = Candidate("labels", LabelKey(fire[2]), fire[1], <<>>,
                                      TRUE, 0)
    /\ UNCHANGED <<gitlab, database, bounds>>

LabelsDone ==
    /\ pc = "labels" /\ cycle.labels = {}
    /\ pc' = "comments"
    /\ UNCHANGED <<gitlab, database, cycle, candidate, bounds>>

\* Comments are handled oldest first.
NextComment(c) ==
    /\ pc = "comments" /\ c \in cycle.comments
    /\ \A d \in cycle.comments : c <= d

PassConsumed(c) ==
    /\ NextComment(c) /\ Consumed(CommentKey(c))
    /\ cycle' = [cycle EXCEPT !.comments = @ \ {c}]
    /\ UNCHANGED <<gitlab, database, pc, candidate, bounds>>

\* The issue (or merge request and issue) was fetched.
TakeComment(c) ==
    /\ NextComment(c) /\ ~Consumed(CommentKey(c))
    /\ cycle' = [cycle EXCEPT !.comments = @ \ {c}]
    /\ pc' = "decide"
    /\ candidate' = Candidate("comments", CommentKey(c), IssueOf[c], <<c>>,
                              c \notin Unapproved, 0)
    /\ UNCHANGED <<gitlab, database, bounds>>

\* Nothing to route it to, or GitLab kept failing for 15 minutes: a mention is
\* receipted, a plain reply that cannot be routed leaves no trace.
SkipComment(c, gaveUp) ==
    /\ NextComment(c) /\ ~Consumed(CommentKey(c))
    /\ outages < MaxOutages /\ Budget
    /\ outages' = outages + 1
    /\ cycle' = [cycle EXCEPT !.comments = @ \ {c}]
    /\ receipts' = IF gaveUp \/ c \notin Plain
                   THEN WithReceipt(CommentKey(c), "skipped") ELSE receipts
    /\ UNCHANGED <<gitlab, cursor, bootstrapped, notices, jobs, conversations,
                   cleaning, pc, candidate, aborts, reassigned, cleanups>>

\* Mutation: the comments behind the failed one are handled all the same.
HaltOneComment(c) ==
    /\ NextComment(c) /\ ~Consumed(CommentKey(c))
    /\ outages < MaxOutages /\ Budget
    /\ outages' = outages + 1
    /\ cycle' = [cycle EXCEPT !.comments = @ \ {c}, !.halted = c]
    /\ UNCHANGED <<gitlab, database, pc, candidate, aborts, reassigned, cleanups>>

\* A transient failure of a young comment: the later ones wait behind it.
HaltComments(c) ==
    /\ NextComment(c) /\ ~Consumed(CommentKey(c))
    /\ outages < MaxOutages /\ Budget
    /\ outages' = outages + 1
    /\ cycle' = [cycle EXCEPT !.comments = {}, !.halted = c]
    /\ UNCHANGED <<gitlab, database, pc, candidate, aborts, reassigned, cleanups>>

\* The cursor is saved; then the conversations to drain are listed.
SaveCursor ==
    /\ pc = "comments" /\ cycle.comments = {}
    /\ cursor' = CursorAfter
    /\ cycle' = [cycle EXCEPT !.drains =
           {<<i, conversations[i].pending>> : i \in {j \in Issue : Drainable(j)}}]
    /\ pc' = "drain"
    /\ UNCHANGED <<gitlab, bootstrapped, receipts, notices, jobs, conversations,
                   cleaning, candidate, bounds>>

DrainPending(row) ==
    /\ pc = "drain" /\ row \in cycle.drains
    /\ cycle' = [cycle EXCEPT !.drains = @ \ {row}]
    /\ pc' = "decide"
    /\ candidate' = Candidate("drain", DrainKey(row[2]), row[1],
                              Messages(row[2]), TRUE, Len(row[2]))
    /\ UNCHANGED <<gitlab, database, bounds>>

\* The issue could not be fetched: the queue waits for the next cycle.
SkipDrain(row) ==
    /\ pc = "drain" /\ row \in cycle.drains
    /\ outages < MaxOutages /\ Budget
    /\ outages' = outages + 1
    /\ cycle' = [cycle EXCEPT !.drains = @ \ {row}]
    /\ UNCHANGED <<gitlab, database, pc, candidate, aborts, reassigned, cleanups>>

EndCycle ==
    /\ pc = "drain" /\ cycle.drains = {}
    /\ pc' = "idle" /\ cycle' = EmptyCycle
    /\ UNCHANGED <<gitlab, database, candidate, bounds>>

-----------------------------------------------------------------------------
(* HostedDispatcher.dispatch *)

\* The reads of dispatch, up to its first write.  Their outcome is the label
\* of the step that writes.
Decision ==
    LET i == candidate.issue IN
    CASE candidate.owner = NoOne -> "reject"
      [] candidate.owner # NoOne /\ Busy(i) ->
            IF /\ conversations[i].workspace = candidate.owner
               /\ candidate.key.kind = "comment"
            THEN "park" ELSE "reject"
      [] OTHER -> IF candidate.approved THEN "upsert" ELSE "reject"

Decide ==
    /\ pc = "decide"
    /\ IF Consumed(candidate.key)
       THEN IF candidate.from = "drain"
            THEN pc' = "clear" /\ UNCHANGED candidate
            ELSE Return
       ELSE pc' = Decision /\ UNCHANGED candidate
    /\ UNCHANGED <<gitlab, database, cycle, bounds>>

\* _reject: the receipt and the notice are one transaction.
Reject ==
    /\ pc = "reject"
    /\ receipts' = WithReceipt(candidate.key, "rejected")
    /\ notices' = IF Receipted(candidate.key) THEN notices
                  ELSE notices \cup {candidate.key}
    /\ Return
    /\ UNCHANGED <<gitlab, cursor, bootstrapped, jobs, conversations, cleaning,
                   cycle, bounds>>

\* queue_pending appends only what was not receipted before.
Appended(i, entry) ==
    IF Receipted(entry.key) THEN conversations
    ELSE [conversations EXCEPT ![i].pending = Append(@, entry)]

Park ==
    /\ pc = "park"
    /\ receipts' = WithReceipt(candidate.key, "parked")
    /\ conversations' = Appended(candidate.issue,
           [key |-> candidate.key, messages |-> candidate.messages])
    /\ Return
    /\ UNCHANGED <<gitlab, cursor, bootstrapped, notices, jobs, cleaning, cycle,
                   bounds>>

\* _upsert_conversation
Upsert ==
    LET i == candidate.issue IN
    /\ pc = "upsert"
    /\ IF conversations[i].status \in {"finishing", "cleaning", "cleanup-failed"}
       THEN pc' = "reject" /\ UNCHANGED conversations
       ELSE /\ pc' = "record"
            /\ conversations' = [conversations EXCEPT
                  ![i].workspace = candidate.owner,
                  ![i].status = IF @ = "absent" THEN "idle" ELSE @]
    /\ UNCHANGED <<gitlab, cursor, bootstrapped, receipts, notices, jobs, cleaning,
                   cycle, candidate, bounds>>

\* record_dispatch_event; the job belongs to the conversation's workspace.
Record ==
    LET i == candidate.issue IN
    /\ pc = "record" /\ ~Consumed(candidate.key)
    /\ receipts' = WithReceipt(candidate.key, "dispatched")
    /\ jobs' = Append(jobs,
           [key |-> candidate.key, issue |-> i,
            workspace |-> conversations[i].workspace,
            messages |-> candidate.messages, state |-> "active"])
    /\ conversations' = [conversations EXCEPT ![i].current = Len(jobs) + 1,
                                              ![i].status = "active"]
    /\ IF candidate.from = "drain"
       THEN pc' = "clear" /\ UNCHANGED candidate
       ELSE Return
    /\ UNCHANGED <<gitlab, cursor, bootstrapped, notices, cleaning, cycle, bounds>>

\* The drain drops the entries it listed; later additions survive.
ClearPending ==
    /\ pc = "clear"
    /\ conversations' = Cleared(candidate.issue, candidate.count)
    /\ Return
    /\ UNCHANGED <<gitlab, cursor, bootstrapped, receipts, notices, jobs, cleaning,
                   cycle, bounds>>

\* The issue is gone or closed: the queue is dropped with a log line.
DropPending(row) ==
    /\ pc = "drain" /\ row \in cycle.drains
    /\ outages < MaxOutages /\ Budget
    /\ outages' = outages + 1
    /\ cycle' = [cycle EXCEPT !.drains = @ \ {row}]
    /\ conversations' = Cleared(row[1], Len(row[2]))
    /\ UNCHANGED <<gitlab, cursor, bootstrapped, receipts, notices, jobs, cleaning,
                   pc, candidate, aborts, reassigned, cleanups>>

\* The process dies, or an exception the loops do not catch ends the cycle.
Abort ==
    /\ pc # "idle" /\ aborts < MaxAborts /\ Budget
    /\ aborts' = aborts + 1
    /\ pc' = "idle" /\ cycle' = EmptyCycle /\ candidate' = NoCandidate
    /\ UNCHANGED <<gitlab, database, outages, reassigned, cleanups>>

-----------------------------------------------------------------------------
(* GitLab's users, and the controller's other threads *)

PostComment ==
    /\ posted < Comments
    /\ posted' = posted + 1
    /\ UNCHANGED <<label, labelEvents, owner, database, poller, bounds>>

AddLabel(i) ==
    /\ labelEvents < LabelEvents /\ label[i] = 0
    /\ labelEvents' = labelEvents + 1
    /\ label' = [label EXCEPT ![i] = labelEvents + 1]
    /\ UNCHANGED <<posted, owner, database, poller, bounds>>

\* By a user, or by the publisher when it moves the issue to another label.
RemoveLabel(i) ==
    /\ label[i] # 0
    /\ label' = [label EXCEPT ![i] = 0]
    /\ UNCHANGED <<posted, labelEvents, owner, database, poller, bounds>>

Reassign(i, o) ==
    /\ reassigned < MaxReassigned /\ Budget /\ o # owner[i]
    /\ reassigned' = reassigned + 1
    /\ owner' = [owner EXCEPT ![i] = o]
    /\ UNCHANGED <<posted, label, labelEvents, database, poller, aborts, outages,
                   cleanups>>

\* complete_job, fail_unstarted or reap_expired, seen from the dispatcher.
EndJob(n, result) ==
    /\ jobs[n].state = "active"
    /\ jobs' = [jobs EXCEPT ![n].state = result]
    /\ conversations' = [i \in Issue |->
           IF conversations[i].current = n
           THEN [conversations[i] EXCEPT !.status = "finishing"]
           ELSE conversations[i]]
    /\ UNCHANGED <<gitlab, cursor, bootstrapped, receipts, notices, cleaning,
                   poller, bounds>>

\* record_terminal
Settle(i) ==
    /\ conversations[i].status = "finishing"
    /\ conversations' = [conversations EXCEPT ![i].status = "settled"]
    /\ UNCHANGED <<gitlab, cursor, bootstrapped, receipts, notices, jobs, cleaning,
                   poller, bounds>>

\* claim_workspace_actions takes the cleanup of the conversation's current job.
StartCleanup(i) ==
    /\ cleanups < MaxCleanups /\ Budget /\ i \notin cleaning
    /\ CurrentState(i) = "succeeded" /\ conversations[i].status = "settled"
    /\ cleanups' = cleanups + 1
    /\ cleaning' = cleaning \cup {i}
    /\ conversations' = [conversations EXCEPT ![i].status = "cleaning"]
    /\ UNCHANGED <<gitlab, cursor, bootstrapped, receipts, notices, jobs, poller,
                   aborts, outages, reassigned>>

\* finish_workspace_action writes the status whatever it is by then.
FinishCleanup(i, success) ==
    /\ i \in cleaning
    /\ cleaning' = cleaning \ {i}
    /\ conversations' = [conversations EXCEPT ![i].status =
           IF success THEN "archived" ELSE "cleanup-failed"]
    /\ UNCHANGED <<gitlab, cursor, bootstrapped, receipts, notices, jobs, poller,
                   bounds>>

Poll ==
    \/ BeginCycle \/ FinishAdoption \/ LabelsDone \/ SaveCursor \/ EndCycle
    \/ \E fire \in cycle.labels : AdoptLabel(fire) \/ TakeLabel(fire)
    \/ \E c \in cycle.comments :
         \/ PassConsumed(c) \/ TakeComment(c) \/ HaltComments(c)
         \/ \E gaveUp \in BOOLEAN : SkipComment(c, gaveUp)
    \/ \E row \in cycle.drains :
         DrainPending(row) \/ SkipDrain(row) \/ DropPending(row)
    \/ Decide \/ Reject \/ Park \/ Upsert \/ Record \/ ClearPending

Elsewhere ==
    \/ PostComment
    \/ \E i \in Issue :
         \/ AddLabel(i) \/ RemoveLabel(i) \/ Settle(i) \/ StartCleanup(i)
         \/ \E o \in Workspace \cup {NoOne} : Reassign(i, o)
         \/ \E success \in BOOLEAN : FinishCleanup(i, success)
    \/ \E n \in DOMAIN jobs, result \in {"succeeded", "failed"} : EndJob(n, result)

Next == Poll \/ Abort \/ Elsewhere

Spec == Init /\ [][Next]_vars

\* The poller and the publisher run for ever and GitLab answers in the end,
\* a job ends (its runner reports it, times out, or loses its lease) and a
\* claimed cleanup is reported.
FairSpec ==
    /\ Spec
    /\ WF_vars(Poll)
    /\ WF_vars(\E n \in DOMAIN jobs, result \in {"succeeded", "failed"} :
                   EndJob(n, result))
    /\ WF_vars(\E i \in Issue : Settle(i))
    /\ WF_vars(\E i \in Issue, success \in BOOLEAN : FinishCleanup(i, success))

-----------------------------------------------------------------------------
(* Properties *)

Waiting(i) == ToSet(Messages(conversations[i].pending))

Deliveries(c) ==
    UNION {{<<n, k>> : k \in {j \in DOMAIN jobs[n].messages :
                                 jobs[n].messages[j] = c}} : n \in DOMAIN jobs}

Cycles ==
    [comments : SUBSET (1..Comments), labels : SUBSET (Issue \X (1..LabelEvents)),
     next : 0..Comments, halted : 0..Comments, drains : SUBSET (Issue \X Seq(Entry))]

Candidates ==
    [from : {"labels", "comments", "drain"}, key : EventKey, issue : Issue,
     owner : Workspace \cup {NoOne}, messages : Seq(1..Comments), approved : BOOLEAN,
     count : Nat]

TypeOK ==
    /\ posted \in 0..Comments
    /\ label \in [Issue -> 0..LabelEvents] /\ labelEvents \in 0..LabelEvents
    /\ owner \in [Issue -> Workspace \cup {NoOne}]
    /\ cursor \in 0..Comments /\ bootstrapped \in BOOLEAN
    /\ \A key \in DOMAIN receipts : key \in EventKey /\ receipts[key] \in Fate
    /\ notices \subseteq EventKey
    /\ jobs \in Seq(JobRow)
    /\ conversations \in [Issue -> ConversationRow]
    /\ cleaning \subseteq Issue
    /\ pc \in {"idle", "adopt", "labels", "comments", "drain", "decide", "reject", "park",
               "upsert", "record", "clear"}
    /\ cycle \in Cycles /\ candidate \in Candidates \cup {NoCandidate}
    /\ {aborts, outages, reassigned, cleanups} \subseteq Nat

\* A conversation never has two jobs that are not over, whatever ends,
\* settles or is cleaned between the dispatcher's look at the conversation
\* and its insertion of the job; and the one that is not over is the current
\* one and runs in the workspace the conversation is bound to.
OneActiveJob ==
    \A n \in DOMAIN jobs : jobs[n].state = "active" =>
        /\ conversations[jobs[n].issue].current = n
        /\ conversations[jobs[n].issue].workspace = jobs[n].workspace
        /\ jobs[n].workspace \in Workspace

\* Every consumed event has one fate, and the tables agree on it: a job row,
\* a rejection for the user to read, or neither - never two of them, never a
\* job or a rejection that a restarted poller could produce a second time.
FatesAgree ==
    /\ \A key \in DOMAIN receipts :
          /\ receipts[key] = "dispatched" <=> HasJob(key)
          /\ receipts[key] = "rejected" <=> key \in notices
    /\ \A key \in notices : Receipted(key)
    /\ \A m, n \in DOMAIN jobs :
          Receipted(jobs[n].key) /\ (jobs[m].key = jobs[n].key => m = n)

InOrder(queue) ==
    \A p, q \in DOMAIN queue : p < q => queue[p].key.id <= queue[q].key.id

\* Comments queue up in the order they were written, although a look-up may
\* fail, cycles may die half-way and a page may be fetched again.  Not so a
\* plain reply that nothing was found to route to: it leaves no trace, and may
\* be met again, and queued, when the cycle dies after a later one was queued.
QueueInOrder ==
    Plain = {} \/ aborts = 0 => \A i \in Issue : InOrder(conversations[i].pending)

\* The saved cursor never moves past a mention that was not consumed: what a
\* crash, a halt or an exception leaves unhandled is fetched again.
CursorLeavesNothingBehind ==
    [][\A c \in (1..Comments) \ Plain :
          bootstrapped /\ cursor < c /\ c <= cursor' => Consumed(CommentKey(c))]_vars

\* ... as long as a page holds all that is posted between two cycles. Of a burst
\* the comments that are not on the newest page are lost, and no others.
MovesOverHandled ==
    \A c \in (1..Comments) \ Plain :
        bootstrapped /\ cursor < c /\ c <= cursor' =>
            Consumed(CommentKey(c)) \/ c <= posted - PageSize

OnlyThePageIsLost == [][MovesOverHandled]_vars

\* A queued comment leaves the queue only after it was handed to a job, after
\* a rejection that covers it was put in the outbox, or because its issue is
\* closed; a comment queued behind a drain is never swept away with it.
QueueDropsAreAccounted ==
    [][\A i \in Issue : \A c \in Waiting(i) \ Waiting(i)' :
          \/ Deliveries(c) # {}
          \/ \E key \in notices : key.drains > 0 /\ key.id >= c
          \/ pc = "drain"]_vars

\* A comment reaches at most one job.
HandedOverOnce == \A c \in 1..Comments : Cardinality(Deliveries(c)) <= 1

\* ... as long as the poller does not die and no cleanup is claimed: pages
\* fetched again after a failed look-up and queues drained once more hand
\* nothing over twice.
HandedOverOnceUndisturbed == aborts = 0 /\ cleanups = 0 => HandedOverOnce

\* Comments reach the agent in the order they were written.
HandedOverInOrder ==
    \A c, d \in 1..Comments :
        c < d /\ IssueOf[c] = IssueOf[d] =>
            \A x \in Deliveries(c), y \in Deliveries(d) :
                x[1] < y[1] \/ (x[1] = y[1] /\ x[2] < y[2])

\* A queue the drain could not dispatch is kept for the next cycle: what the
\* drain is about to clear was handed to a job.
DrainRetriesUntilDispatched ==
    pc = "clear" => \A c \in ToSet(candidate.messages) : Deliveries(c) # {}

\* No run is active in a workspace directory that is being cleaned up.
CleanupExcludesRuns ==
    \A i \in cleaning : CurrentState(i) # "active"

\* Every mention that is posted after the adoption is consumed in the end,
\* although comments in front of it may fail or hold it up.
MentionsAreConsumed ==
    \A c \in (1..Comments) \ Plain :
        (bootstrapped /\ cursor < c /\ c <= posted) ~> Consumed(CommentKey(c))

\* A queue is emptied in the end: comments that land while a run is active,
\* finishing or being cleaned up get a run of their own or an answer, unless
\* the cleanup failed and waits for an operator.
QueuesAreDrained ==
    \A i \in Issue :
        conversations[i].pending # <<>> ~>
            \/ conversations[i].pending = <<>>
            \/ conversations[i].status = "cleanup-failed"
=============================================================================
