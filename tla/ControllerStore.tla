--------------------------- MODULE ControllerStore ---------------------------
(***************************************************************************)
(* The controller's durable job store (controller/store.py): the jobs,     *)
(* runs, conversations, event_receipts and outbox tables and the           *)
(* operations on them.  Every operation is one BEGIN IMMEDIATE             *)
(* transaction, so it is one atomic action here.  The callers are left     *)
(* completely general: any workspace may send any request, about any job   *)
(* and any lease generation, at any time, late or twice; a request the     *)
(* code answers with an error changes nothing and is no step of the model. *)
(*                                                                         *)
(* A jobs row is named by its trigger event: trigger_event_key is UNIQUE   *)
(* and job_id is a uuid drawn for the row, so the two names are            *)
(* interchangeable.  An outbox row is its dedupe_key: INSERT OR IGNORE     *)
(* into a UNIQUE column is set union.                                      *)
(*                                                                         *)
(* The code reads the clock before it waits for the database's write lock, *)
(* so the reading it uses may be older than the transaction: every action  *)
(* takes a reading `at' that lags `now' by at most ClockLag.               *)
(***************************************************************************)
EXTENDS Integers, FiniteSets

CONSTANTS
    Workspace,      \* workspace ids
    Conversation,   \* conversation keys, one per issue
    Event,          \* event keys; each names the job it may trigger
    Run,            \* run ids the runners draw (watcher.utc_run_id)
    ConversationOf, \* the issue an event belongs to
    Capacity,       \* workspaces.capacity, fixed when the row is created
    LeaseSeconds,   \* ApiSettings.lease_seconds
    ClockLag,       \* the oldest reading a transaction may still use
    MaxTime,        \* bound: the clock stops here
    None            \* SQL NULL in a reference column

ASSUME ConstantAssumption ==
    /\ IsFiniteSet(Event)
    /\ IsFiniteSet(Run)
    /\ ConversationOf \in [Event -> Conversation]
    /\ Capacity \in [Workspace -> Nat]
    /\ LeaseSeconds \in Nat
    /\ ClockLag \in Nat
    /\ MaxTime \in Nat
    /\ None \notin Workspace
    /\ None \notin Event

VARIABLES
    now,            \* the wall clock
    enabled,        \* the workspaces with enabled = 1
    receipts,       \* event_receipts: the consumed events
    conversations,  \* status, workspace and current job of each conversation
    jobs,           \* the jobs table, by trigger event
    runs,           \* the runs table, by run id
    outbox          \* the dedupe keys in the outbox

vars == <<now, enabled, receipts, conversations, jobs, runs, outbox>>

-----------------------------------------------------------------------------
(* The rows.  "absent" stands for a row that was never inserted.  *)

JobState == {"absent", "queued", "leased", "running", "succeeded", "failed"}
Held == {"leased", "running"}
Terminal == {"succeeded", "failed"}

\* "settled" is what the outbox records once the result is published
\* ("parked", "failed" or "succeeded").
ConversationStatus ==
    {"absent", "idle", "queued", "working", "finishing", "settled"}

NoLease == -1

JobRow == [state : JobState,
           workspace : Workspace \cup {None},
           generation : Nat,
           leaseUntil : Nat \cup {NoLease},
           createdAt : Nat]

ConversationRow == [status : ConversationStatus,
                    workspace : Workspace \cup {None},
                    current : Event \cup {None}]

RunRow == [state : {"absent", "running"} \cup Terminal,
           job : Event \cup {None},
           generation : Nat,
           session : BOOLEAN]

\* job-started:{job}, job-completed:{job}:{generation}, runner-lost:{job}
StartedNotice(e) == [kind |-> "job-started", job |-> e, generation |-> 0]
CompletedNotice(e, g) == [kind |-> "job-completed", job |-> e, generation |-> g]
LostNotice(e) == [kind |-> "runner-lost", job |-> e, generation |-> 0]

Notice == [kind : {"job-started", "job-completed", "runner-lost"},
           job : Event,
           generation : Nat]

TerminalNotices(e) ==
    {n \in outbox : n.job = e /\ n.kind \in {"job-completed", "runner-lost"}}

Init ==
    /\ now = 0
    /\ enabled = Workspace
    /\ receipts = {}
    /\ conversations = [c \in Conversation |->
           [status |-> "absent", workspace |-> None, current |-> None]]
    /\ jobs = [e \in Event |->
           [state |-> "absent", workspace |-> None, generation |-> 0,
            leaseUntil |-> NoLease, createdAt |-> 0]]
    /\ runs = [r \in Run |->
           [state |-> "absent", job |-> None, generation |-> 0,
            session |-> FALSE]]
    /\ outbox = {}

-----------------------------------------------------------------------------
(* Helpers *)

\* The values a transaction committing now may have read from the clock.
Readings == {t \in 0..now : now - t <= ClockLag}

HeldBy(w) == {e \in Event : jobs[e].workspace = w /\ jobs[e].state \in Held}
QueuedFor(w) == {e \in Event : jobs[e].workspace = w /\ jobs[e].state = "queued"}
Smaller(m, n) == IF m < n THEN m ELSE n

\* The row SELECTed by (job_id, workspace_id, lease_generation).
Leased(w, e, g) == jobs[e].workspace = w /\ jobs[e].generation = g

\* Its lease is still good for a request that read the clock at `at'.
LeaseLive(e, at) == jobs[e].leaseUntil # NoLease /\ jobs[e].leaseUntil >= at

\* ... and has run out.
LeaseExpired(e, at) == jobs[e].leaseUntil # NoLease /\ jobs[e].leaseUntil < at

\* Mutation: the held jobs are not subtracted.
RoomWithoutHeld(w) == Capacity[w]

\* How many more jobs the workspace may hold.
Room(w) == Capacity[w] - Cardinality(HeldBy(w))

\* A result is taken for a started job, and only under a live lease.
Completable(e, at) == jobs[e].state = "running" /\ LeaseLive(e, at)

\* UPDATE runs SET state = 'failed' for the jobs in S
LostRuns(S) ==
    [r \in Run |->
        IF runs[r].job \in S /\ runs[r].state = "running"
        THEN [runs[r] EXCEPT !.state = "failed"]
        ELSE runs[r]]

\* UPDATE conversations SET status = s WHERE current_job_id IN S
WithStatus(S, s) ==
    [c \in Conversation |->
        IF conversations[c].current \in S
        THEN [conversations[c] EXCEPT !.status = s]
        ELSE conversations[c]]

-----------------------------------------------------------------------------
(* Operations *)

Tick ==
    /\ now < MaxTime
    /\ now' = now + 1
    /\ UNCHANGED <<enabled, receipts, conversations, jobs, runs, outbox>>

\* create_workspace (admin.py) enables a workspace; an operator may disable it in
\* the database.
SetEnabled(w, on) ==
    /\ enabled' = IF on THEN enabled \cup {w} ELSE enabled \ {w}
    /\ UNCHANGED <<now, receipts, conversations, jobs, runs, outbox>>

\* An event is consumed without a job: adopted at bootstrap, skipped,
\* rejected, or parked in pending_json.
RecordEvent(e) ==
    /\ receipts' = receipts \cup {e}
    /\ UNCHANGED <<now, enabled, conversations, jobs, runs, outbox>>

\* HostedDispatcher._upsert_conversation
UpsertConversation(c, w) ==
    /\ conversations[c].status # "finishing"
    /\ conversations' = [conversations EXCEPT
           ![c].workspace = w,
           ![c].status = IF @ = "absent" THEN "idle" ELSE @]
    /\ UNCHANGED <<now, enabled, receipts, jobs, runs, outbox>>

\* record_dispatch_event with _job_owner and _insert_job.
RecordDispatchEvent(e, at) ==
    LET c == ConversationOf[e]
        w == conversations[c].workspace
    IN  /\ jobs[e].state = "absent"
        /\ w \in enabled
        /\ e \notin receipts
        /\ receipts' = receipts \cup {e}
        /\ jobs' = [jobs EXCEPT ![e] =
               [state |-> "queued", workspace |-> w, generation |-> 0,
                leaseUntil |-> NoLease, createdAt |-> at]]
        /\ conversations' = [conversations EXCEPT ![c].current = e,
                                                  ![c].status = "queued"]
        /\ UNCHANGED <<now, enabled, runs, outbox>>

\* The oldest queued jobs, as many as the workspace has room for.
ClaimJobs(w, limit, at) ==
    /\ w \in enabled
    /\ \E S \in SUBSET QueuedFor(w) :
         /\ S # {}
         /\ Cardinality(S) = Smaller(limit,
                Smaller(Room(w), Cardinality(QueuedFor(w))))
         /\ \A e \in S, f \in QueuedFor(w) \ S :
                jobs[e].createdAt <= jobs[f].createdAt
         /\ jobs' = [e \in Event |->
                IF e \in S
                THEN [jobs[e] EXCEPT !.state = "leased",
                                     !.generation = @ + 1,
                                     !.leaseUntil = at + LeaseSeconds]
                ELSE jobs[e]]
    /\ UNCHANGED <<now, enabled, receipts, conversations, runs, outbox>>

\* The first accepted start of a lease: the run row, the conversation's
\* status and the job-started notice are written with it.
MarkStarted(w, e, g, r, session, at) ==
    /\ Leased(w, e, g)
    /\ jobs[e].state = "leased"
    /\ LeaseLive(e, at)
    /\ runs[r].state = "absent"
    /\ jobs' = [jobs EXCEPT ![e].state = "running"]
    /\ runs' = [runs EXCEPT ![r] = [state |-> "running", job |-> e,
                                    generation |-> g, session |-> session]]
    /\ conversations' = WithStatus({e}, "working")
    /\ outbox' = outbox \cup {StartedNotice(e)}
    /\ UNCHANGED <<now, enabled, receipts>>

\* A repeated start of a running job may only fill in the session file.
UpgradeSession(w, e, g, r) ==
    /\ Leased(w, e, g)
    /\ jobs[e].state = "running"
    /\ runs[r].job = e
    /\ runs[r].generation = g
    /\ ~runs[r].session
    /\ runs' = [runs EXCEPT ![r].session = TRUE]
    /\ UNCHANGED <<now, enabled, receipts, conversations, jobs, outbox>>

\* One request may carry several leases; S is the ones that are still good,
\* the others are answered with 409 after the commit.
Heartbeat(w, S, at) ==
    /\ w \in enabled
    /\ \A e \in S : jobs[e].workspace = w /\ jobs[e].state \in Held
                    /\ LeaseLive(e, at)
    /\ jobs' = [e \in Event |->
           IF e \in S
           THEN [jobs[e] EXCEPT !.leaseUntil = at + LeaseSeconds]
           ELSE jobs[e]]
    /\ UNCHANGED <<now, enabled, receipts, conversations, runs, outbox>>

CompleteJob(w, e, g, result, at) ==
    /\ Leased(w, e, g)
    /\ Completable(e, at)
    /\ \E r \in Run :
         /\ runs[r].job = e
         /\ runs[r].generation = g
         /\ runs' = [runs EXCEPT ![r].state =
                        IF @ = "running" THEN result ELSE @]
    /\ jobs' = [jobs EXCEPT ![e].state = result, ![e].leaseUntil = NoLease]
    /\ conversations' = WithStatus({e}, "finishing")
    /\ outbox' = outbox \cup {CompletedNotice(e, g)}
    /\ UNCHANGED <<now, enabled, receipts>>

FailUnstarted(w, e, g, at) ==
    /\ Leased(w, e, g)
    /\ jobs[e].state = "leased"
    /\ LeaseLive(e, at)
    /\ jobs' = [jobs EXCEPT ![e].state = "failed", ![e].leaseUntil = NoLease]
    /\ conversations' = WithStatus({e}, "finishing")
    /\ outbox' = outbox \cup {CompletedNotice(e, g)}
    /\ UNCHANGED <<now, enabled, receipts, runs>>

\* Mutation: every expired lease goes back to the queue.
RequeuedIfHeld(at) == {e \in Event : jobs[e].state \in Held /\ LeaseExpired(e, at)}

Requeued(at) == {e \in Event : jobs[e].state = "leased" /\ LeaseExpired(e, at)}
Lost(at) == {e \in Event : jobs[e].state = "running" /\ LeaseExpired(e, at)}

\* Leases that ran out before the start go back to the queue; jobs whose
\* agent may already have acted fail and are never retried.
ReapExpired(at) ==
    /\ Requeued(at) \cup Lost(at) # {}
    /\ jobs' = [e \in Event |->
           IF e \in Requeued(at)
           THEN [jobs[e] EXCEPT !.state = "queued", !.leaseUntil = NoLease]
           ELSE IF e \in Lost(at)
           THEN [jobs[e] EXCEPT !.state = "failed", !.leaseUntil = NoLease]
           ELSE jobs[e]]
    /\ runs' = LostRuns(Lost(at))
    /\ conversations' = WithStatus(Lost(at), "finishing")
    /\ outbox' = outbox \cup {LostNotice(e) : e \in Lost(at)}
    /\ UNCHANGED <<now, enabled, receipts>>

\* The publisher closes the conversation's turn (HostedOutbox.record_terminal).
RecordTerminal(e) ==
    LET c == ConversationOf[e] IN
    /\ TerminalNotices(e) # {}
    /\ conversations[c].current = e
    /\ conversations' = [conversations EXCEPT ![c].status = "settled"]
    /\ UNCHANGED <<now, enabled, receipts, jobs, runs, outbox>>

\* The requests of a runner that holds, or once held, workspace w.
Request(w, e, g, at) ==
    \/ \E r \in Run, session \in BOOLEAN : MarkStarted(w, e, g, r, session, at)
    \/ \E r \in Run : UpgradeSession(w, e, g, r)
    \/ \E result \in Terminal : CompleteJob(w, e, g, result, at)
    \/ FailUnstarted(w, e, g, at)

Next ==
    \/ Tick
    \/ \E w \in Workspace, on \in BOOLEAN : SetEnabled(w, on)
    \/ \E e \in Event : RecordEvent(e) \/ RecordTerminal(e)
    \/ \E c \in Conversation, w \in Workspace : UpsertConversation(c, w)
    \/ \E at \in Readings :
         \/ ReapExpired(at)
         \/ \E e \in Event : RecordDispatchEvent(e, at)
         \/ \E w \in Workspace :
              \/ \E limit \in 1..Cardinality(Event) : ClaimJobs(w, limit, at)
              \/ \E S \in SUBSET Event : Heartbeat(w, S, at)
              \/ \E e \in Event : \E g \in 1..jobs[e].generation :
                     Request(w, e, g, at)

Spec == Init /\ [][Next]_vars

-----------------------------------------------------------------------------
(* Properties *)

TypeOK ==
    /\ now \in 0..MaxTime
    /\ enabled \subseteq Workspace
    /\ receipts \subseteq Event
    /\ conversations \in [Conversation -> ConversationRow]
    /\ jobs \in [Event -> JobRow]
    /\ runs \in [Run -> RunRow]
    /\ outbox \subseteq Notice

\* Started work is never started again: whatever the runners send and
\* however leases expire, a job is given at most one run row over its whole
\* life (not one per lease, which is all UNIQUE (job_id, lease_generation)
\* promises), that run belongs to the last lease, and a job with a run is
\* never queued or leased again.
StartedOnce ==
    /\ \A r, s \in Run :
          runs[r].job # None /\ runs[r].job = runs[s].job => r = s
    /\ \A r \in Run : runs[r].job # None =>
          /\ jobs[runs[r].job].state \in {"running"} \cup Terminal
          /\ jobs[runs[r].job].generation = runs[r].generation

\* A run row and its job row always tell the same story, although the reaper
\* and the runner update them through different predicates.
RunAgreesWithJob ==
    /\ \A r \in Run :
          runs[r].job # None => runs[r].state = jobs[runs[r].job].state
    /\ \A e \in Event :
          jobs[e].state = "running" => \E r \in Run : runs[r].job = e

\* A job that ended has exactly one terminal notice in the outbox and one
\* that has not ended has none: a lost runner, a late completion and a
\* repeated request never publish twice, and no end goes unpublished.
OneOutcomePerJob ==
    \A e \in Event :
        Cardinality(TerminalNotices(e)) =
            IF jobs[e].state \in Terminal THEN 1 ELSE 0

\* The controller never has more jobs leased or running in a workspace than
\* its capacity, through requeues, lost runners and disabled workspaces.
CapacityRespected ==
    \A w \in Workspace : Cardinality(HeldBy(w)) <= Capacity[w]

\* What the dispatcher decides on (the conversation's status) and what the
\* runner changes (the current job's state) never disagree: "queued" until
\* the job starts, "working" while it runs, then "finishing" until the
\* outcome is recorded; updates for a job that is no longer current leave
\* the conversation alone.
StatusTracksCurrentJob ==
    \A c \in Conversation :
        LET job == conversations[c].current
            status == conversations[c].status
        IN  IF job = None
            THEN status \in {"absent", "idle"}
            ELSE CASE jobs[job].state \in {"queued", "leased"} -> status = "queued"
                   [] jobs[job].state = "running" -> status = "working"
                   [] OTHER -> jobs[job].state \in Terminal
                               /\ status \in {"finishing", "settled"}

\* A job's end is never overwritten: no late result, reaper pass or new
\* claim changes the row of a job that succeeded or failed.
TerminalIsFinal ==
    [][\A e \in Event : jobs[e].state \in Terminal => jobs'[e] = jobs[e]]_vars

-----------------------------------------------------------------------------
(* The inductive invariant: the properties above and the links between rows *)
(* that make them inductive.                                                *)

\* A run row names its job from its insertion on, a job has a lease exactly
\* while it is held, and a conversation's current job is one of its own.
RowsLinked ==
    /\ \A r \in Run : runs[r].job = None <=> runs[r].state = "absent"
    /\ \A e \in Event : jobs[e].leaseUntil # NoLease <=> jobs[e].state \in Held
    /\ \A c \in Conversation : conversations[c].current # None =>
          ConversationOf[conversations[c].current] = c

\* The terminal notices of a job, as a set rather than a count.
OutcomeShape ==
    \A e \in Event :
        IF jobs[e].state \in Terminal
        THEN \E n \in Notice : TerminalNotices(e) = {n}
        ELSE TerminalNotices(e) = {}

StoreInvariant ==
    /\ TypeOK
    /\ RowsLinked
    /\ StartedOnce
    /\ RunAgreesWithJob
    /\ OutcomeShape
    /\ CapacityRespected
    /\ StatusTracksCurrentJob

-----------------------------------------------------------------------------
(* The promise, and how the tables keep it. *)

Phase(e) ==
    CASE jobs[e].state = "absent" -> "none"
      [] jobs[e].state \in {"queued", "leased"} -> "waiting"
      [] jobs[e].state = "running" -> "started"
      [] OTHER -> "ended"

RunsOf(e) == {r \in Run : runs[r].job = e}

Lifecycle == INSTANCE JobLifecycle WITH
    Work <- Event,
    phase <- [e \in Event |-> Phase(e)],
    starts <- [e \in Event |-> Cardinality(RunsOf(e))],
    announced <- [e \in Event |-> Cardinality(TerminalNotices(e))]

\* The store implements the lifecycle: leases, expiry, reclaiming, fencing
\* and duplicate requests are invisible except as one start and one
\* announced end per event.
ImplementsLifecycle == Lifecycle!Spec

=============================================================================
