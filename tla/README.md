# Verification of eastwatch

eastwatch lets people hand work to coding agents from an issue board: a label
or an `@agent` comment on a GitLab issue starts an agent in a workspace, and
its reply comes back as a note and a label. It runs in two forms. The *hosted*
form has a controller process (poller, dispatcher, job store, publisher,
retention) and one runner per workspace container. The *local* form is a
single-machine cycle over a JSON state file.

This directory holds TLA+ models of both forms, the configurations TLC checks
them with, and proofs that TLAPS checks. Every safety property that a run finds
to hold is also a theorem, for every value of the constants; liveness is
model-checked.

Paths below are relative to `src/` of the repository root; `store.py` etc.
stand for `src/eastwatch/controller/store.py` and its neighbours.

## 1. Inventory

| Part | State it keeps | Operations | Talks to |
|---|---|---|---|
| job store (`controller/store.py`) | SQLite tables: workspaces, projects, conversations, jobs, runs, event_receipts, outbox, workspace_actions, merge_requests, retention_records | one BEGIN IMMEDIATE transaction per operation: record event / dispatch, claim, start, heartbeat, complete, fail before start, reap, queue and clear pending, claim and finish outbox rows and cleanups | every thread of the controller |
| poller (`watcher.py` `hosted_cycle`) | cursor per project; locals of one cycle | adopt on the first cycle; label fires; comments; drain queues | GitLab, dispatcher, store |
| dispatcher (`controller/dispatch.py`) | none of its own | decide one candidate: reject, park on the conversation, or upsert the conversation and insert a job | store |
| controller process (`controller/main.py`) | threads | runs the poller every 5 s, the reaper every heartbeat, the publisher every 2 s, retention every minute; an exception ends one pass | - |
| controller API (`controller/api.py`) | none | HTTP handlers around the runner-facing transactions; 409 for a stale lease, 401 for an unknown or disabled workspace | runners |
| runner (`runner/daemon.py`, `executor.py`, `client.py`) | active leases, cancelled leases, run directories, tmux sessions | claim loop, heartbeat thread, one executor thread per lease | controller API, tmux; its workers start the agents |
| publisher (`controller/outbox.py`) | one claimed batch | deliver job-started, job-completed, runner-lost and dispatch-rejected rows: note, label, conversation status | GitLab, store |
| retention and cleanup (`controller/retention.py`, `runner/cleanup.py`, `runner/runtime.py`) | actions, session lock | refresh merge requests, schedule, claim, delete, report | GitLab, store, file system |
| local cycle (`watcher.py` `main`) | `state.json`, run directories, tmux sessions | under `cycle.lock`: heal and collect runs, fetch, commit, dispatch; sweep | GitLab, GitHub, vault, tmux |
| intake (`watcher.py` `poll_comments`, `poll_label`, `poll_awards`, `assemble`) | event cursor, consumed label ids, award snapshots, deferred gestures, merge-request index, conversations | read one page of events, diff labels and awards, decide each gesture: resume, open, defer, ignore | GitLab |
| status boards (`watcher.py`, `vault.py`) | observations and an outbox of fires inside the state; the board's status, the issue's shadow label | diff statuses, queue fires, restore pruned items, mirror labels, fenced status writes | GitHub, note files |
| worker (`watcher.py` `worker_main`, `collector.py`) | `pi.lock`, provider process group, session file, one deadline | run a provider under the launch lock, drain its output, retry, fall back to the next provider, report | providers, watcher |
| fleet commands that write (`fleet/dismiss.py`, `fleet/wipe_issue.py`) | `state.json` | kill the retained session of an ended run; forget an issue and its directories | local cycle, tmux |
| fleet views, `bw`, `remote.py`, `admin.py`, doctor, Jira, preflight, TUI | little or none | views and one-shot commands | - |

`PROJECT.json` lists the same parts with what is modelled of each.

**What is hard here.** Four controller threads and many runner threads work on
the same rows, each transaction on a snapshot the next one may find changed.
Every request to the controller and every call to GitLab may be lost before
or after it took effect, and is repeated. Leases expire while their holder
still works. The controller, a runner, or the link between them stops at any
point. In local form one cycle at a time works on one file, but it may die at
any statement, its workers are detached and answer through files whenever they
like, tmux answers late, and people and GitHub's own workflow write the fields
it writes. The hazards list in `PROJECT.json` names each place and the
properties that would catch it going wrong.

**What makes each part correct.**

* Store: work is started at most once, ends once, and its end is announced
  once; capacity holds; rows agree with one another.
* Poller and dispatcher: every event has exactly one fate; one active job per
  issue; nothing posted is forgotten; queued comments are handed over once
  and in order.
* Runner: one worker per job, watched as long as tmux works; work the
  controller gave up is abandoned; a success has a result behind it.
* Publisher: one note per row through any number of redeliveries; the board
  shows the current job; every conversation opens again.
* Retention: files are removed only of a settled, current run whose merge
  requests are a week merged; never under a person; what the audit calls gone
  is gone; what is due goes.
* Local cycle: what a save put behind the cursors is worked on once, by one
  worker, and answered once, wherever the cycle dies.
* Intake: every comment is decided once; replies go to the conversation they
  answer; a label or an approval starts one run.
* Status boards: only what people asked for is dispatched, and all of it;
  outcomes reach the board without undoing what people did.
* Worker: work is not repeated by a retry on another provider; launches do not
  overlap; what settled after a failure is no success; every request ends.

## 2. Modules

```
hosted   JobLifecycle          what the controller promises about one piece of work
            ^           ^
            | implements| implements
         ControllerStore  HostedRunner   HostedDispatch   HostedOutbox   Retention

local    LocalIntake  ->  LocalCycle  <-  ProviderRun        StatusBoard
         what a poll      the cycle       one run's worker   intake and write-back
         commits          over the file                      on GitHub and the vault

         MC<module>.tla + *.cfg: instances for TLC
         <module>_proofs.tla: theorems about each detailed module; those about
                              StatusBoard are the second part of LocalIntake_proofs
```

The detailed modules look at one system from several sides. Each models its
own part step by step and cuts its neighbours down to what that part can
observe of them: ControllerStore has the shared transactions in full with
completely general callers; a gesture is one atom in LocalCycle and a whole
decision in LocalIntake; a run is two actions in LocalIntake, a worker that
starts, ends or dies in LocalCycle, and everything in between in ProviderRun.

### ControllerStore (`controller/store.py`)

One action per transaction; any workspace may send any request about any job
and lease generation at any time, late or twice, which covers every runner.
A job is named by its trigger event (`trigger_event_key` is UNIQUE, `job_id` is
drawn for the row), an outbox row by its dedupe key. The code reads the clock
before it waits for the write lock, so an action uses a reading up to
`ClockLag` ticks old. Requests answered with an error change nothing and are
not steps.

| Variable | Code |
|---|---|
| `enabled` | `workspaces.enabled` |
| `receipts` | `event_receipts` |
| `conversations` | `conversations.status`, `workspace_id`, `current_job_id` |
| `jobs`, `runs` | the tables of these names |
| `outbox` | `outbox.dedupe_key` |

Actions: `RecordEvent`, `UpsertConversation`, `RecordDispatchEvent`,
`ClaimJobs`, `MarkStarted`, `UpgradeSession` (a repeated start that fills in
the session file), `Heartbeat`, `CompleteJob`, `FailUnstarted`, `ReapExpired`,
`RecordTerminal` (the publisher's transaction), `SetEnabled`, `Tick`.

### HostedDispatch (`hosted_cycle`, `controller/dispatch.py`)

One project. `pc` is the place in the cycle, `cycle` what was fetched and is
still to be handled, `candidate` the `DispatchCandidate` under way. Each
GitLab call and each transaction is a step, and between any two of them jobs
end, outcomes are settled, cleanups are claimed, issues change hands, comments
and labels appear, and the process may die (`Abort`, which also stands for an
exception that ends the cycle). An event key is its kind, its number and how
often it was wrapped as `pending:`. The lease protocol is one step, `EndJob`.
Who may act on an issue, and the look-ups that decide it, are the value of
`owner`; `NoOne` stands for every refusal.

### HostedRunner (`runner/`)

One workspace. `exec[k]` is where the executor thread of lease `k` stands in
`WorkspaceExecutor.execute`; `due` and `beat` are the heartbeat thread; `ttl`
counts down each lease. A request that the controller applied without the
runner learning of it is an action of its own (`StartUnanswered`,
`ReportUnanswered`, `LoseAnswer`, `HeartbeatLost`). `Pause`, `Disconnect` and
`StopRunner` are the three interruptions; each ends again. A stopped container takes
its tmux server along; its files stay. Time passes when the heartbeat thread
is on time (`Tick`); a late one is counted (`Late`).

What tmux holds is the *worker*, the wrapper of `worker_main` (`workers`). The
*agent*, a claude or pi process, is started by the worker in a session of its
own (`start_new_session=True`, `watcher.py:4337`, `4487`) and is in `agents`:
`AgentStarts` and `AgentEnds`. `Kill` is `tmux_kill_session`: it ends the worker
and never the agent, and a call that exceeds its 5 s or fails is swallowed, so
the worker lives on. A launch that times out may have made the session
(`AbortLaunch` then kills it), and a query that times out says that there is
none (`Probe`). Each of these failures counts in `tmuxFailures`.

### HostedOutbox (`controller/outbox.py`)

One issue, its jobs in order, the rows they and the dispatcher write, and the
publisher's thread: `Claim`, `Read` (what is superseded is dropped here),
`EnsureNote`, `SetLabel`, `Settle` (`record_terminal`), `Mark`. A GitLab call
may fail before or after it took effect; the controller may restart anywhere.
A job's end carries what its reply will amount to (parked, done, invalid) so
that validation is the same on every delivery.

### Retention (`controller/retention.py`, `runner/cleanup.py`, `runner/runtime.py`, `remote.py`)

One workspace. The runs of an issue share its worktree and session and have a
run directory each. `forge` is what GitLab says of a merge request, `claims` and
`merged` are the rows of `merge_requests`, `action`, `rank` and `leased` those
of `workspace_actions`, `record` is `retention_records`, `task` the claimed
action and the place its removal has reached, `human` a person in `bw resume`.
`RetentionPass` is `run_once` (refresh, then schedule; a merge request that
cannot be fetched raises before scheduling). `Claim`, `Lock`, `RemoveWorktree`,
`RemoveDirectory`, `RemoveSession` and the three ways a report may go
(`FinishAnswered`, `FinishUnanswered`, `FinishGivenUp`) are the maintenance
thread; `LookAtRow`, `TakeLock` and `Leave` the person; `Upsert` and `Insert`
the two transactions of a dispatch, between which a claim may fall. `Settle` is
the publisher's `record_terminal`, and `Redelivered` the same once more for a
row whose mark was lost (`unmarked`): it takes the merge requests back to opened
and sets the status without looking at it, also over a cleanup (counted in
`races`). Instead of clocks, a lease lapses and a merge gets a week old at any
moment.

### LocalCycle (`watcher.py` `main`, `fleet/dismiss.py`, `fleet/wipe_issue.py`)

`disk` is `state.json`, `mem` the copy a cycle works on; they meet in
`save_state`. `cyc` is the place in the cycle: phase, conversation, step. Each
forge call, each save, each launch and each look at a process is a step, and
`Crash` may come between any two. `Artifact`, `Reply`, `ReplyFails`, the probes,
`Expire`, `Recheck`, `Disappeared`, `FailRun` and `FailRunUnnoted` are
`collect_and_heal_runs` with what it calls; `RecoverLaunch` is
`recover_interrupted_launch`; `Commit` and `PollFails` end the poll; `Take` to
`Launched` are `start_one` under `dispatch_pending`, with every way it may
raise. Workers `Begin`, `End` or `Die` at any moment; `hosted` says whether
tmux holds them. `Sweep`, `Dismiss` and `Wipe` run between cycles, which
`cycle.lock` sees to.

### LocalIntake (`poll_comments`, `poll_label`, `poll_awards`, `assemble`)

`events` is what people did on GitLab, its index the event's id; `disk` is the
project's part of `state.json`, `mem` the staged copy of a poll. `PollComments`
reads one page behind the cursor and looks up each comment's discussion (or
fails to: `PollCommentsUnthreaded`), `PollLabels` compares the newest add
event with the consumed ids, `PollAwards` two snapshots. `Decide` takes the
next gesture and finds the conversation: the discussion's own, the index of
merge requests, the marker of the merge request, a conversation opened on the
merge request itself, or none; `Defer` puts it off when a look-up fails.
`disk.heard[e]` records what was decided for an event. Of a merge request's
own conversation only the last answer is an anchor (`find_mr_thread_conversation`),
so `RepliesGoHome` allows a reply to an earlier one to go to the conversation of
the merge request's issue (`MovedOn`).

### StatusBoard (`poll_github_status`, `poll_vault_status`, write-back)

One module for both boards, `forge` says which: they share the scheme of
observations and fires, and the module's comment maps their statuses onto each
other. `cyc` is the cycle with its staged observations; `cyc.write` a status
or label write under way (`Set`, `Confirm`, `SetLabel`), which is interleaved
with `Drag`, `Prune`, `PutBack` and GitHub's `Workflow`. A write is for the item
id it began with: an item that was taken off and put back has another one, and
the write to the old one fails. `cyc.stale` is what the cycle still has to
restore. `owed` counts drags against dispatches, and `again` remembers that an
item was taken off while a cycle was putting it back. `Fetch` is the whole
comparison, `Restore` prune recovery, `Mirror` the shadow writer, `Collect` and
`Launch` the writes at a run's end and start. A failed run drops the drags that
were queued meanwhile (`Settled`, `mark_failed`); a preparation that raises drops
the one it was for, and the cycle goes on with the next item (`Unprepared`);
at the cap everything stays queued (`NotLaunched`). A vault has no status for a
failed run and shows it as `parked` (`StatusOf`, `vault.py:49`).

### ProviderRun (`worker_main`, `collector.py`)

Each request has a worker (`worker[r].pc`: lock, launching, drain, over, and how
it ended), a provider process, what the collector saw of it, and one deadline
for all its attempts. Of the output the model keeps what decides something: a
tool started, a line could not be read, "No API key", how the last turn ended,
and how far Pi has come with ending its work; whether the session file changed
is compared with the snapshot taken before the first attempt. `seen[r].guard` is
the collector's guard: `EndsWork` (`agent_end` without a retry) makes it
"ended", `SettlesDown` (`agent_settled`) "armed", which is `collector.deadline`
being set, and any activity turns it off again and forgets the outcome
(`Resumed`, `GoesOn`). `TakeLock` and `ReleaseLock` are `pi.lock` and its launch
window; `Drained`, `DrainExpires` and, over two steps, `GuardExpires` and
`DrainSettles` the three ends of `drain_process`. Only with an armed guard does
a failed turn overrule exit code 0 (`Code`). A worker that dies gives up the
lock at once and leaves its provider (`Die`), until it ends or is ended when the
run is healed (`OrphanEnds`); `Retry`, `Fallback`, `GiveUp` and `Conclude` what
`run_pi_request` and `run_claude_request` make of it.

### JobLifecycle

The abstract promise: work waits, is started at most once, ends at most once,
and the step that ends it announces it. ControllerStore implements it (run
`store`, theorem `Implementation`), and so do the jobs as a runner drives them
through partitions and restarts (`RunnerKeepsLifecycle` in HostedRunner).

## 3. Runs

| Run | Bounds | Shows |
|---|---|---|
| `store` | 1 workspace with 1 slot, 1 issue, 2 events, 2 runs, leases of 1 tick, clock to 4, lag 1 | one start per job, capacity, JobLifecycle is implemented |
| `dispatch` | 1 issue, 2 owners, 2 comments, 1 label event; abort, outage, reassignment, cleanup, one of each, two in all | one active job, order, nothing twice; mentions are consumed, queues drained |
| `runner` | 1 job, a pool of 2, 3 leases; 2 mishaps, 2 interruptions of any kind, 1 tmux failure, two of these in all; Lease 3, Beat 1 | one worker per job, watched while tmux works; pool; one miss is harmless; lost work is abandoned, jobs worked off |
| `outbox` | 2 jobs, 1 rejection, 1 re-added trigger, 1 failed call, 1 restart, two of these in all | one note per row, right status, right board; every row is delivered |
| `retention` | 1 issue, 2 runs, 2 merge requests; a lost request or mark, a failed removal, a restart, a lapse, one of each and two in all; a vanished merge request, a race | what is removed, what the audit says, the person's lock; due runs are cleaned |
| `local` | 2 conversations, cap 1, 4 runs, 1 trouble of any kind | nothing lost, nothing twice, every worker accounted for, one verdict, results are replied to; gestures are worked off |
| `intake` | 1 issue, 1 merge request, page of 2, 2 ids kept, 3 events, 2 answers, 1 failure | each comment decided once, replies go home, labels fire once; deferred gestures are decided |
| `status` | vault: 2 notes, one blocked by the other; GitHub: 1 item; 2 drags, 1 item taken off, 1 trouble | dispatches were asked for, outcomes and labels shown, blocked notes dispatched |
| `provider` | a request on the chain of two providers, one of Claude, or two direct ones; 2 direct attempts, 1 death | safe fallback, serialized launches, no success after a settled failure, every request ends |
| `cleanup_race`, `intake_lost`, `board_redrag` | smallest instance that shows it | disagreements, section 5 |

*Why these bounds.* Every property relates at most two jobs, two comments, two
leases or two conversations, so two of each are there; what is lost, delayed or
broken happens once or twice, because one loss is the case the code handles and
a second one meets its recovery. In `store` four ticks are enough for a lease to
expire, the job to be leased again, and that lease to expire; a workspace gets
its second slot, and an issue its second workspace, only in the proofs, which
hold for any number. In `runner` there is one job, but the pool has a second
slot: a job whose lease expired can be claimed again while its first executor
still prepares, which one slot would exclude. It has three leases, one more than
the two things that go wrong can burn; with fewer the bound itself would strand
it. Of tmux one call fails: it may be the launch, a kill or a query. With a
third mishap and a fourth lease the run takes five times as long and shows the
same. A lease of three ticks with a beat of one is the smallest with two beats
inside a lease, which is what the check in `config.py:84` asks of the two
settings. Nothing ties a runner's own `BW_HEARTBEAT_SECONDS` to the lease, so
the module assumes nothing; section 4 proves `OneMissIsHarmless` for every lease
of two beats. In `local` the slot is the contended thing, so there is one for
two conversations, and four runs let each start again after a failure. `intake`
has pages and memories of two so that three events overflow both; a burst larger
than a page is exempted in `CommentsAreDecidedOnce`, since the code does lose
it, and so are, in `LabelsFireOnce`, labels that as many others push out of the
memory (`IsKept`). In `status` the second drag is the one that races the
watcher's write. In `provider` two direct attempts stand for the code's three:
one retry that succeeds or not.

*Type invariants and other invariants that are not in a run's list.* Every
module has a `TypeOK`. It holds on the instance of its run, as do
`QueueDropsAreAccounted` (HostedDispatch) and `ConversationsReopen`
(HostedOutbox). So do `FatesAgree` and `CursorLeavesNothingBehind`
(HostedDispatch), `SuccessHasAResult` and `RunnerKeepsLifecycle`
(HostedRunner), `NothingOutlivesItsRequest` (ProviderRun), and the store's
`RunAgreesWithJob`, `OneOutcomePerJob`, `StatusTracksCurrentJob` and
`TerminalIsFinal`, all of which section 4 proves, and so does
`OnlyThePageIsLost` (HostedDispatch) where comments do not fit on a page: four
on pages of three, one of them a plain reply. To check one, name it in the
configuration.

*Deadlock* is checked in `dispatch` and `runner`. In `store` the clock stops;
in the other runs all work may be done and all bounds spent.

*Symmetry*: run ids in `store` are only compared, and that run checks no
liveness property.

*Fairness.* HostedDispatch: the poller's loop and the publisher run for ever
(`main.py:18-26`), a job ends since a runner reports it, times out or loses
its lease, and a claimed cleanup is reported. HostedRunner: threads that can
run do, the three interruptions end, and time passes; nothing makes a worker
or an agent end or its timeout strike, hence `EveryJobIsWorkedOff` excepts a
worker that goes on. HostedOutbox: the publisher's loop runs, backoffs end, claimed
rows come back after their lease; jobs and humans owe nothing. Retention: the
retention pass and the maintenance loop repeat (`main.py`, `runtime.py:19`),
leases lapse, a started dispatch goes on, and a person leaves the chat some
day; nothing makes a merge request merge. LocalCycle: launchd starts a cycle a
minute and its steps follow each other; strong fairness, per conversation,
that a probe finds the deadline passed, since time passes and a run that does
not end is probed for ever; nothing makes a worker end. LocalIntake and
StatusBoard: cycles only. ProviderRun: each worker goes on and its deadline
passes; of providers nothing is assumed, not even that they exit, hence the
exception in `EveryRequestEnds` (`proc.wait` in `drain_process` has no limit).

## 4. Proofs

Each component has its theorems in `<module>_proofs`; those about StatusBoard
are in LocalIntake_proofs, which instantiates it (`Board`). All of them hold for
every value of the constants: any number of workspaces, issues, conversations,
comments, jobs, runs or requests, any capacity, lease, page size or cap, and any
bounds on crashes and failures. The bounds of section 3 are the runs' only.

| Module | Theorem | Property it proves |
|---|---|---|
| ControllerStore | `Invariance` | `StoreInvariant`, the inductive invariant |
| | `TypeCorrect`, `NeverStartedTwice`, `RunsAgree` | `TypeOK`, `StartedOnce`, `RunAgreesWithJob` |
| | `AnnouncedExactlyOnce`, `WithinCapacity`, `StatusFaithful` | `OneOutcomePerJob`, `CapacityRespected`, `StatusTracksCurrentJob` |
| | `EndsAreFinal` | `TerminalIsFinal` |
| | `Implementation` | `ImplementsLifecycle` |
| HostedDispatch | `Invariance`, `TypeCorrect` | `IInv`, `TypeOK` |
| | `OneRunPerIssue`, `EventsHaveOneFate` | `OneActiveJob`, `FatesAgree` |
| | `QueuesKeepOrder`, `NothingIsHandedOverTwice` | `QueueInOrder`, `HandedOverOnceUndisturbed` |
| | `OnlyThePageIsAtRisk` | `OnlyThePageIsLost` |
| | `CursorIsSafe` | `CursorLeavesNothingBehind`, if `Comments <= PageSize` |
| HostedRunner | `Invariance`, `TypeCorrect` | `IInv`, `TypeOK` |
| | `OneAgent`, `SuccessIsEarned` | `OneAgentPerJob`, `SuccessHasAResult` |
| | `PoolIsNeverExceeded` | `ExecutorsFitThePool` |
| | `WorkersKeepTheirExecutor` | `WorkersAreWatched` |
| | `LongLeasesBearOneMiss` | `OneMissIsHarmless`, if `2 * Beat <= Lease` |
| | `LifecycleIsKept` | `RunnerKeepsLifecycle` |
| HostedOutbox | `Invariance`, `TypeCorrect` | `IInv`, `TypeOK` |
| | `RowsAreNotedOnce`, `SettledAfterItsNote`, `BoardIsTruthful` | `OneNotePerRow`, `SettledWithItsNote`, `BoardShowsCurrentJob` |
| Retention | `Invariance` | `IInv` |
| | `OnlyDueRunsAreRemoved`, `AuditRecordsAreTrue`, `HumansAreUndisturbed` | `RemovesOnlyDueRuns`, `AuditedIsGone`, `HumanUndisturbed` |
| LocalCycle | `Invariance`, `TypeCorrect` | `IInv`, `TypeOK` |
| | `WorkIsKept`, `WorkIsNotDoubled` | `NothingSilentlyLost`, `NeverDoubleRun` |
| | `WorkersAreKnown` | `WorkersAreAccounted` |
| | `VerdictsAreFinal`, `ResultsArePosted` | `OneVerdict`, `ResultsAreReplied` |
| LocalIntake | `Invariance`, `TypeCorrect` | `IInv`, `TypeOK` |
| | `CommentsDecidedOnce`, `RepliesHome`, `LabelsOnce` | `CommentsAreDecidedOnce`, `RepliesGoHome`, `LabelsFireOnce` |
| StatusBoard | `BoardInvariance`, `BoardTypes` | `BoardInv`, `TypeOK` |
| | `OutcomesShown`, `NothingUnasked` | `OutcomeIsShown`, `DispatchesWereAsked` |
| ProviderRun | `Invariance`, `TypeCorrect` | `IInv`, `TypeOK` |
| | `OneLaunchAtATime`, `NothingIsLeftBehind` | `LaunchesAreSerialized`, `NothingOutlivesItsRequest` |
| | `SafeFallback`, `DoneOnlyAnswered` | `FallbackIsSafe`, `DoneMeansAnswered` |

### What is assumed

The assumption each module states about its constants, which TLC evaluates in
the module's run, and nothing else but the hypotheses below.
`ConstantAssumption` (ControllerStore): events and runs are finite sets, since
`Cardinality` needs it, the constants have their types, and NULL is neither a
workspace nor an event. `RunnerAssumption`: finitely many jobs, a capacity and
a beat of at least 1, natural bounds. `DispatchAssumption`: the comments belong
to issues, and `NoOne` is not a workspace. `LocalAssumption` and
`NoneAssumption`: gestures belong to conversations, and `None` is none of the
things it stands in for. `IntakeAssumption`: the number of an issue or of a
merge request is neither the other's nor an event's, as the code's keys have
prefixes (`mr:<iid>:note:<id>`). `BoardAssumption` and its `NoneAssumption`: each
forge has an item, blockers are notes, bounds are natural, and `None` is neither
a write nor a cycle; the theorems about `Board` have them as the hypothesis
`Assumed`. `OutboxAssumption`, `RetentionAssumption` and
`ProviderAssumption`: bounds are natural numbers, routes are routes, each
provider gets an attempt.

The hypotheses are in the theorems' statements, because the property is false
without them:

* `2 * Beat <= Lease`: `config.py:84` demands a little more, `<`, of a
  controller's two settings. With a shorter lease one late heartbeat may lose
  the job.
* `Comments <= PageSize`, for `CursorIsSafe` only: of a burst larger than a page
  the oldest comments are never seen (`watcher.py:2286`). `OnlyThePageIsLost`
  says for every page size that this is the only way to lose one.
* The conditions inside a property - `Undisturbed`, `races = 0`, `crashes = 0`,
  `tmuxFailures = 0`, `burst <= Page`, `IsKept`, `~failed /\ ~again`,
  `troubles = 0` - are explained at its definition; the runs reach both values of each but
  `IsKept` and `again`, whose other value takes a second issue and a second
  removal and is covered by the theorems only.

### How the arguments go

TLC found each inductive invariant to hold on the instances of the module's
passing runs, except the store's: `OutcomeShape` has a set over all
generations, which TLC cannot evaluate. In each proof one lemma per action, or per
action and part of the invariant, shows that the step keeps it; `Preservation`
joins them.

**ControllerStore.** `StartedOnce` is not inductive: to see that a start cannot
add a second run, one must know that a leased job has none, and that the row of
an existing run is running or ended under the job's last generation; the
requeue in `reap_expired` keeps this because it takes only jobs that were never
started. That a completion announces once needs to know that a running job
has no terminal notice yet. `StoreInvariant` therefore joins the properties
with `RowsLinked` (a run names its job, a job has a lease exactly while it is
held, a conversation's current job is one of its own) and with `OutcomeShape`,
which states the terminal notices of a job as a set, since counting is hard on
the provers; `AnnouncedExactlyOnce` derives the count. For each action an
*effect* lemma (`ReapEffect`, `ClaimEffect`, ...) says what it does to the rows
pointwise. `LifecycleStep` maps each step to an abstract step or a stutter:
claiming, expiry before the start, heartbeats and session upgrades are
invisible.

**HostedDispatch.** The cycle decides on what it read some steps ago. `CursorFits`
and `DrainsFit` say what stays true of the reading: what is still to be handled
lies between the cursor and the place it will be moved to, and a queue that was
read is what is queued, since only the poller's thread writes queues.
`CandidateFits` carries each guard of `dispatch` to the transaction that relies
on it: at the insertion the event has no receipt and the issue no active job,
because nobody else inserts. From it follow `OneActiveJob` and `FatesAgree`.
`NothingIsPassedOver` is the invariant behind the cursor: below the place the
cursor will move to, every mention is behind the old cursor, consumed, too far
back for the page, or still in hand. For the order of a queue one needs more than
its being sorted: whatever is fetched again after a halt or a crash must already
have a receipt if something later was queued (`QueueIsHandled`). For
`HandedOverOnceUndisturbed` the two transactions of a drain are the difficulty:
`HandedOver` allows what is handed over to be queued still, but only while the
drain that did it is about to clear it, and `DrainsAreFree` shows that an
undisturbed drain is never parked behind another job.

The proof found that `QueueInOrder`, first stated without a condition, is false.
A plain reply for which nothing was found to route to leaves no receipt. If a
later comment is queued, the poller dies before the cursor is saved, and by the
next cycle the reply does route, it is queued behind the later one. TLC shows it
with four comments on pages of three, the first a plain reply, one outage and
one abort, once the condition is taken away. The property now excepts crashes
where there are plain replies.

**HostedRunner.** `OneAgentPerJob` says of every lease that launched a worker
that it is the one of the job's run and the last one given out. That needs
`RowsAgree` (a run belongs to the generation it was started under, which no
later lease replaces), `StartsHaveRuns` (an executor past its start has the
job's run, although the answer may have been lost and the request repeated) and
`LeasesAreFresh` (until its executor launches, a lease has left nothing: it is
offered once, and its run directory is its own). `ArtifactsEndWorkers` and
`ReportsHaveArtifacts` are what `WorkersAreWatched` and `SuccessHasAResult` need
where an executor stops watching: it has read an artifact, which a worker leaves
as it ends and, if it is a result, after its agent. `WorkersAreWatched` has the
condition `tmuxFailures = 0` inside, since one failed kill, or one query that
times out, leaves a live worker without an executor; and it speaks of workers
only, since nothing of the kind holds of agents (section 5).
`ExecutorsFitThePool` counts: `ClaimFits` shows that a claim asks for no more
than the free slots. For `OneMissIsHarmless` the invariant `OnTimeInv` relates
each lease's remaining time to the beat: at least `Lease - Beat - Slack + beat`,
where the slack is what one missed round costs; two beats in a lease keep this
from becoming negative. `LifecycleIsKept` maps each step to JobLifecycle or a
stutter, as in the store.

**HostedOutbox.** A delivery is six steps and may be cut off and repeated between
any two. `SettlingIsNoted` says that the later steps of a delivery find the note
of its row posted, and once. The board is the hard part: a redelivered old row
may set its label after a newer one. `NothingToldAfterIt` says why this is
harmless: whenever a label is about to be set by a row that has fallen behind,
the row that tells of the current job is not yet delivered, and will overwrite
it; `ToldIsShown` says what the label is once that row was delivered.

**Retention.** The database is looked at when an action is claimed; the removal
and its report come later, with lapsed leases, lost answers and new dispatches
in between. `ScheduledRunsAreDue` says that an action never outlives the reason
for it: its run stays merged for a week, and is at rest as long as it is
current, because a dispatch (`InsertKeeps`) makes another run current.
`RemovalKeepsItsClaim` carries the claim's view of the row to the report, and
collects what the removal has taken away: "cleaning" keeps dispatches out, and
one maintenance thread keeps other claims out. It is stated for `races = 0`:
without that it is false, which is finding 1; an outcome recorded again over the
cleanup would break it the same way, and is counted there too. `DoneIsGone` and
`CompactedIsDone` hand it on to the audit record; a report repeated after a lost
answer finds the action finished and changes nothing (`FinishKeeps`). Lapse
needs nothing of its own: a lapsed action still belongs to the thread that is at
work.

**LocalCycle.** The cycle works on a copy of the file. `CopiesAgree` says how far
the copy may run ahead: nowhere but at a save, where it has ended one
conversation's run. `EndsAreTold` says that what such a save is about to forget
was told on the forge or given up in silence, which is all that
`NothingSilentlyLost` needs at the save; a crash throws the copy away and leaves
the file as it was. `OnePlace` is the invariant behind `NeverDoubleRun`: a gesture
is queued, or the request of one run that was, is or may still be worked on.
`RecoverLaunch` may put a request back in the queue, so `RunsAreFound` and
`LaunchesFit` say when a launch that was cut off is known to have no worker:
with tmux, when no session exists; without it, only if the cycle did not die.
`DyingAreDead` and `LivingAreCurrent` carry a look at a process to the verdict
several steps later, with `FailuresAreErrors` for `ResultsAreReplied`;
`CapIsKept` compares the workers with the number the dispatch loop counted.
`NotesAreFinal` strengthens `OneVerdict` to runs the file still calls current.

**ProviderRun.** `LockIsHeld` ties `pi.lock` to the one worker that is
launching, and `LaunchesHoldTheLock` is `LaunchesAreSerialized` in a form that
steps keep: a process in its window has a launching worker, since `ReleaseLock`
waits for the window to pass, the deadline, or a sign of the process, and
`StartsAreSilent` says that a process that is still starting has given none.
`ToolsLeaveTraces` is the invariant behind the fallback: of the provider that
has one, whatever started a tool is blocked from falling back, by an event seen,
by a line that could not be read, or by the session file; `CodesTell` relates
the exit code to the last turn, if Pi settled after it or had to be killed.

**LocalIntake.** A poll works on a copy of the record that a commit saves and any
failure forgets. `RecordIsSound` is therefore said of both, and of the copy with
what is still to be decided added to what waits (`DecidedOnce`). The difficulty
is that people go on writing while the copy is in use: whatever it says must be
of events up to its cursor, or be something later events cannot undo. So
`IsKept` is a condition that can only become false, `Past` (the label is
remembered, or another one of its issue follows) can only become true, and
`BotsArePlaced` speaks of answers that stay where they were given. The code
keeps sorted pages and a trimmed memory; the proof needs of them only how
many events lie between two, so `Rank` and `Nth` number the members of a finite
set in their order, and the lemmas on them (`RankIsBijective` and those after it)
replace all reasoning about sorted sequences. `LastIsKnown` ties the anchor of a
conversation to its last answer, which is what `RepliesGoHome` needs in the one
branch that looks it up.

The proof found that `RepliesGoHome`, as first stated, is false. A conversation
opened by a comment on a merge request answers there, and later in another
discussion of it; a reply to the first answer then finds no anchor and resumes
the conversation of the merge request's issue, which has no part in that
discussion. It takes four events and two failed look-ups, more than the run has.
The property now allows this (`MovedOn`), and the stronger one is in section 5.

**StatusBoard.** `Shown` is `OutcomeIsShown` in a form that steps keep: while no
write failed, the board shows of each item that nobody moved what its
conversation came to, or a write on it is under way that will find it, and that
sticks if it is the last try - GitHub's workflow touches an item once, and the
second of the three tries comes after it. For `DispatchesWereAsked` the drags and
the observations are accounts to be balanced (`Covered`): a drag is owed for each
dispatch that is staged, and one more for each observation, committed or staged,
from which the next comparison may fire. That balance needs every item to be
observed once (`OneObservation`), which is not so inside a cycle: the
observation that prune recovery is replacing stays beside the new one until the
commit. `Replaced` says that it is the only exception, `RestoresFit` that what is
replaced was committed, and `IdsFit` that no observation is ahead of the board.

Both parts corrected the module. It once let a write that was under way go on
to the item that had been put back under a new id, which the code's item id
excludes. And `DispatchesWereAsked` without `again` is false: see section 5.

### What is not proved

All liveness: it needs fairness and ENABLED, which are out of the prover's
reach. `LabelsFollow` (StatusBoard) is one of these, with the fates, drains and
ends the runs check. The invariants and step properties of the runs all have
their theorems. No module declares a recursive operator, so nothing stands in
the way of proofs about further ones.

## 5. Where code and documents disagree

With a run that shows it:

1. `cleanup_race` - a cleanup claimed between the dispatcher's two transactions
   deletes the directories of an active run.
2. `intake_lost` - a reply whose discussion cannot be looked up is captured
   without it (`watcher.py:1019`), belongs to no conversation's thread, and is
   dropped, where `find_mr_thread_conversation` promises deferral
   (`watcher.py:2986`).
3. `board_redrag` - a note the watcher moved on and a person dragged back to
   `agent` between two fetches has no transition in the eyes of
   `poll_vault_status` (`watcher.py:1665`) and lies there for ever
   (`docs/vault-provider.md:37`).

Stated in the modules and violated by the code, without a run of their own
(each was seen with TLC on the instance named). Hosted form:

* `HandedOverOnce` (HostedDispatch, one abort) - the drain dispatches a queue
  and clears it in two transactions. After a crash in between, a comment
  queued behind gives the next drain another key, and the old comments are
  handed over again (`docs/architecture.md:300`). It also fails without a
  crash, through a cleanup claimed while a queue is drained.
* `DrainRetriesUntilDispatched` (HostedDispatch) - a rejected drain is
  receipted, so the "retry next cycle" that the log announces finds it
  consumed and clears the queue (`watcher.py:2755-2763`).
* `HandedOverInOrder` (HostedDispatch): new comments are dispatched before
  queues are drained, so one that arrives after a run has settled overtakes
  those queued during it.
* `PauseLosesNothing` (HostedRunner, one pause) - "nothing is lost" when only
  the controller is stopped (`docs/server-admin.md:112`) holds for pauses
  shorter than the lease.
* `AgentsStopWithTheirLease` (HostedRunner, also with `MaxTmuxFailures = 0`;
  `docs/architecture.md:289`, "409 = stale, abort"): when a lease is lost or a
  job's time is over, the executor kills the tmux session (`executor.py:405-410`,
  `460-465`). The agent has a session of its own and goes on, with nobody to
  watch or stop it; the job may meanwhile be reported as failed and the
  conversation take its next dispatch, in the same worktree. In local form the
  watcher ends that process group when it heals the run (`watcher.py:5916-5942`).
* `DisappearedLeftNoResult` (HostedRunner): the executor looks at
  `result.json` before the pane, and a worker that finishes in between is
  reported as disappeared.
* `DisappearedPaneExited` (HostedRunner, `MaxTmuxFailures = 1`): a tmux query
  that times out does the same to a live worker, which then goes on unwatched.
  So does a worker whose kill timed out.
* `TriggerStaysUntilTaken` (HostedOutbox) - a trigger label re-added while an
  outcome waits to be published is removed with it and never fires
  (`RUNBOOK.md:124`).
* `RejectionsArePosted` (HostedOutbox): a rejection met by an active run is
  marked delivered without a note.
* `DueRunsAreAlwaysCleaned` (Retention; `RUNBOOK.md:686`): `claim_workspace_actions`
  applies its LIMIT before it skips actions that are no longer current, and the
  runner asks for one (`store.py:1006-1033`): an outdated one at the head
  starves the rest. One merge request GitLab does not return stops all
  scheduling.
* `RemovesOnlyDueRuns` without `races = 0` (Retention) is also violated by an
  outcome recorded twice: `record_terminal` (`outbox.py:158-171`) looks whether
  the job is current and not at the status. If the row's mark was lost, the run
  names a merge request that was merged more than a week ago, and the cleanup is
  claimed before the row comes back, the conversation is opened again while its
  files are being removed.
* `ResumesWhatExists` (Retention; `docs/architecture.md:322`): the server's
  resume looks at the row before it takes the lock (`remote.py:508-535`), and a
  cleanup in between leaves nothing to resume.

Local form:

* `WorkIsNeverSilentlyLost` (LocalCycle; `docs/architecture.md:122-125`):
  `start_one` empties the queue before it prepares the workspace, and
  `dispatch_pending` saves that when the preparation raises
  (`watcher.py:6002`,
  `6623-6632`), on a status board (`Unprepared`) as well as on GitLab; and a
  failure whose note cannot be posted ends its gestures without a word.
* `RepliesStayInTheirThread` (LocalIntake, four events, two failures;
  `ONBOARDING.md:23-25`): "just reply in any thread the agent has answered in -
  it resumes the same session". Only the last answer of a merge request's own
  conversation is its anchor (`watcher.py:3011`), so a reply to an earlier one
  resumes the conversation of the merge request's issue.
* `DispatchesWereAsked` without its `again` (StatusBoard, three removals, one
  drag, one crash): an item taken off between the fetch and the restore of one
  cycle is put back under a third id, and the observation of the second one
  stays. The next cycle replaces both; if it dies after it wrote "ready" for
  them and before it commits, the cycle after that takes its own write for a
  drag and dispatches.
* A drag made while an item's run is under way is forgotten when that run fails:
  `mark_failed` clears `pending` (`watcher.py:5638-5643`; `Settled` in
  StatusBoard).
* `DragsAreNeverClobbered` (StatusBoard; `watcher.py:5385`): look and write are
  two steps in `github_write_status` and in `VaultBoard.set_status_fenced`.
* `FailedTurnsFail` (ProviderRun; `tests/test_tmux_observability.py:576`): a run
  whose last turn failed and whose Pi exits with 0 before it has settled is
  reported as done, since exit code 0 is overruled only when the collector's
  deadline was set (`watcher.py:4262-4267`, `collector.py:443-459`).
* `PromptIsSentOnce` (ProviderRun; `RUNBOOK.md:247-249`): a direct run that
  fails with "No API key" is made again with the same prompt, although a tool
  may have been started before (`run_pi_attempt`).

## 6. Not modelled

Formatting of notes, prompts and logs; migrations and row deletion; request
validation; the session file of a hosted run beyond whether it is known; corrupt
artifacts in the hosted runner; artifacts written as an executor returns (nobody reads them). In local form: several projects in one state file
(their polls run in threads, but each is committed by one); provider hints and
Jira tickets in an intake; the text a vault note gets and its git commit; the
cap of 1000 on the deferred gestures of a project (`watcher.py:3422`), the
de-duplication of retried ones by their key (`3104-3116`) and what a 404 does to
them; the read that follows a kill (`watcher.py:4223-4234`), which blocks for as
long as a process outside the killed group holds the output, so that `EveryRequestEnds` is of requests without one; the
reassembly of
output lines from chunks, the pane's rendering and the statistics of a run; the
age thresholds of the sweep. Views, validation and command lines - the terminal
interface, fleet views, preflight, doctor, Jira, `bw`, `glab-board` - keep no
state whose interleavings could matter. External parties - users of GitLab and
GitHub, GitHub's workflow, the container engine, providers - are actions marked
external in the map.

## 7. Plan

1. *The collector's reassembly* of lines from chunks, as functions checked
   against a reference over bounded inputs.
2. *A composition of LocalIntake and LocalCycle* over one state file, with the
   abstract promise that a gesture is answered once.

## 8. Running

```
tlc -config MCHostedRunner.cfg MCHostedRunner
for m in *_proofs.tla; do tlapm $m; done
```
