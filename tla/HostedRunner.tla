----------------------------- MODULE HostedRunner -----------------------------
(***************************************************************************)
(* One workspace's runner (runner/daemon.py, executor.py, client.py) and   *)
(* the controller it works for.  The claim loop, the heartbeat thread, one *)
(* executor thread per lease, the workers in tmux and the controller's     *)
(* reaper all interleave; requests and answers get lost; the controller    *)
(* pauses, the link breaks and the container restarts.                     *)
(*                                                                         *)
(* What the executor launches and kills is a tmux session with a worker,   *)
(* the wrapper of watcher.worker_main.  The agent itself, a claude or pi   *)
(* process, is started by the worker in a session of its own: killing the  *)
(* tmux session ends the worker and leaves the agent.  tmux may fail to    *)
(* answer within its time limit, or at all.                                *)
(*                                                                         *)
(* ControllerStore has the transactions in full.  Here they are cut down   *)
(* to what a runner can observe, and the clock becomes one countdown per   *)
(* lease: ttl[j] is lease_until minus now, Expired once it is negative.    *)
(*                                                                         *)
(* client.post repeats a request up to four times, so a request may be     *)
(* applied without the runner learning of it: XUnanswered applies and      *)
(* stays, XGivenUp is the RunnerApiError after the last attempt.           *)
(***************************************************************************)
EXTENDS Integers, FiniteSets

CONSTANTS
    Job,            \* the jobs dispatched to this workspace
    Capacity,       \* workspaces.capacity and BW_RUNNER_CAPACITY
    Lease,          \* lease_seconds, in ticks
    Beat,           \* heartbeat_seconds, in ticks
    MaxGeneration,  \* bound: how often one job may be leased
    MaxMissed,      \* bound: requests or answers lost, or late by a tick
    MaxBreaks,      \* bound: interruptions of the kinds in Breaks
    Breaks,         \* which of "pause", "partition", "restart" happen
    MaxTmuxFailures,\* bound: tmux calls that fail or time out on a live session
    MaxMishaps      \* bound: of the three kinds above together

\* Nothing relates Beat to Lease: controller/config.py compares the lease with
\* the controller's own heartbeat_seconds, not with a runner's.
ASSUME RunnerAssumption ==
    /\ IsFiniteSet(Job)
    /\ Capacity \in Nat \ {0}
    /\ Lease \in Nat /\ Beat \in Nat \ {0}
    /\ MaxGeneration \in Nat /\ MaxMissed \in Nat
    /\ MaxBreaks \in Nat /\ MaxTmuxFailures \in Nat /\ MaxMishaps \in Nat
    /\ Breaks \subseteq {"pause", "partition", "restart"}

VARIABLES
    \* the controller
    job,            \* jobs.state; "lost" is failed with stage runner-lost
    generation,     \* jobs.lease_generation
    ttl,            \* what is left of the lease while the job is held
    run,            \* the generation of the job's runs row, 0 without one
    controllerUp,   \* the controller process serves requests
    \* between them
    linked,         \* the runner can reach and authenticate to the controller
    \* the runner
    runnerUp,       \* the container runs
    offered,        \* leases in a claim answer on its way
    exec,           \* where each lease's executor thread is
    cancelled,      \* leases a heartbeat found rejected (daemon.stale)
    due,            \* leases this heartbeat round has still to send
    beat,           \* ticks until the next round
    \* the workspace
    workers,        \* leases whose worker lives, in its tmux session
    agents,         \* leases whose claude or pi process lives
    launched,       \* leases a tmux session was ever started for
    artifacts,      \* the result.json and error.json of each lease's run
    verdicts,       \* leases whose executor wrote a "disappeared" error
    \* spent bounds
    missed, breaks, tmuxFailures

store == <<job, generation, ttl, run>>
threads == <<offered, exec, cancelled, due, beat>>
workspace == <<workers, agents, launched, artifacts, verdicts>>
power == <<controllerUp, linked, runnerUp>>
bounds == <<missed, breaks, tmuxFailures>>
vars == <<store, power, threads, workspace, bounds>>

-----------------------------------------------------------------------------

Leases == Job \X (1..MaxGeneration)
JobOf(k) == k[1]
Held == {"leased", "running"}
Terminal == {"succeeded", "failed", "lost"}
Expired == -1

\* An executor of this process that has not returned: it is in
\* daemon.active and its future is not done.
Active == {k \in Leases : exec[k] \notin {"none", "done"}}

\* Whether one more thing may go wrong.
Mishap == missed + breaks + tmuxFailures < MaxMishaps

Reachable == controllerUp /\ linked

Init ==
    /\ job = [j \in Job |-> "absent"]
    /\ generation = [j \in Job |-> 0]
    /\ ttl = [j \in Job |-> Expired]
    /\ run = [j \in Job |-> 0]
    /\ controllerUp = TRUE /\ linked = TRUE /\ runnerUp = TRUE
    /\ offered = {}
    /\ exec = [k \in Leases |-> "none"]
    /\ cancelled = {}
    /\ due = {}
    /\ beat = Beat
    /\ workers = {} /\ agents = {}
    /\ launched = {}
    /\ artifacts = [k \in Leases |-> {}]
    /\ verdicts = {}
    /\ missed = 0 /\ breaks = 0 /\ tmuxFailures = 0

-----------------------------------------------------------------------------
(* The store's transactions, as a runner sees them *)

\* Mutation: the generation is not compared.
UnfencedRow(k) == TRUE

\* The row is found: workspace and lease generation match.
Fenced(k) == generation[JobOf(k)] = k[2]

Live(k) == Fenced(k) /\ job[JobOf(k)] \in Held /\ ttl[JobOf(k)] >= 0

\* mark_started: the first accepted start, or a repetition of it.
Starts(k) == Live(k) /\ job[JobOf(k)] = "leased"
AlreadyStarted(k) ==
    Fenced(k) /\ job[JobOf(k)] = "running" /\ run[JobOf(k)] = k[2]

ApplyStart(k) ==
    IF Starts(k)
    THEN /\ job' = [job EXCEPT ![JobOf(k)] = "running"]
         /\ run' = [run EXCEPT ![JobOf(k)] = k[2]]
         /\ UNCHANGED <<generation, ttl>>
    ELSE UNCHANGED store

End(k, outcome) ==
    /\ job' = [job EXCEPT ![JobOf(k)] = outcome]
    /\ ttl' = [ttl EXCEPT ![JobOf(k)] = Expired]
    /\ UNCHANGED <<generation, run>>

\* complete_job ends a running job, fail_unstarted one not yet started; both
\* answer a repetition, or a job that ended otherwise, without an error.
ApplyComplete(k, outcome) ==
    IF Live(k) /\ job[JobOf(k)] = "running"
    THEN End(k, outcome)
    ELSE UNCHANGED store

ApplyFailUnstarted(k) ==
    IF Starts(k) THEN End(k, "failed") ELSE UNCHANGED store

ApplyHeartbeat(k) ==
    /\ ttl' = [ttl EXCEPT ![JobOf(k)] = IF Live(k) THEN Lease ELSE @]
    /\ UNCHANGED <<job, generation, run>>

\* A dispatched event queues its job.
Dispatch(j) ==
    /\ job[j] = "absent"
    /\ job' = [job EXCEPT ![j] = "queued"]
    /\ UNCHANGED <<generation, ttl, run, power, threads, workspace, bounds>>

\* Mutation: only started jobs are reaped.
ReapableWhenStarted(j) == job[j] = "running" /\ ttl[j] = Expired

Reapable(j) == job[j] \in Held /\ ttl[j] = Expired

ReapedState(j) == IF job[j] = "leased" THEN "queued" ELSE "lost"

\* The reaper thread; it starts with the controller and passes at once.
ReapExpired ==
    /\ controllerUp
    /\ \E j \in Job : Reapable(j)
    /\ job' = [j \in Job |-> IF Reapable(j) THEN ReapedState(j) ELSE job[j]]
    /\ UNCHANGED <<generation, ttl, run, power, threads, workspace, bounds>>

-----------------------------------------------------------------------------
(* The claim loop *)

Smallest(S) == CHOOSE n \in S : \A m \in S : n <= m

\* Mutation: leases whose executor still runs are not subtracted.
SlotsWithoutActive == Capacity

FreeSlots == Capacity - Cardinality(Active)

\* claim is sent once, never retried; the controller leases the jobs before
\* it answers.
Claim ==
    LET queued == {j \in Job : job[j] = "queued" /\ generation[j] < MaxGeneration}
        room == Capacity - Cardinality({j \in Job : job[j] \in Held})
    IN  /\ runnerUp /\ Reachable
        /\ offered = {}
        /\ FreeSlots > 0
        /\ \E S \in SUBSET queued :
             /\ S # {}
             /\ Cardinality(S) = Smallest({FreeSlots, room, Cardinality(queued)})
             /\ job' = [j \in Job |-> IF j \in S THEN "leased" ELSE job[j]]
             /\ generation' = [j \in Job |->
                    IF j \in S THEN generation[j] + 1 ELSE generation[j]]
             /\ ttl' = [j \in Job |-> IF j \in S THEN Lease ELSE ttl[j]]
             /\ offered' = {<<j, generation[j] + 1>> : j \in S}
        /\ UNCHANGED <<run, power, exec, cancelled, due, beat, workspace, bounds>>

\* The answer arrives: submit starts an executor for each lease.
Submit ==
    /\ offered # {}
    /\ exec' = [k \in Leases |-> IF k \in offered THEN "preparing" ELSE exec[k]]
    /\ offered' = {}
    /\ UNCHANGED <<store, power, cancelled, due, beat, workspace, bounds>>

\* It does not: nobody works on the leases until they expire.
LoseAnswer ==
    /\ offered # {}
    /\ missed < MaxMissed /\ Mishap
    /\ missed' = missed + 1
    /\ offered' = {}
    /\ UNCHANGED <<store, power, exec, cancelled, due, beat, workspace,
                   breaks, tmuxFailures>>

-----------------------------------------------------------------------------
(* The heartbeat thread: one request per lease, one after the other *)

\* Mutation: the wait is twice as long.
DoubledBeat == 2 * Beat

NextBeat == Beat

\* Mutation: the rejection is noticed and forgotten.
FlagIgnored(k) == cancelled

Flag(k) == cancelled \cup {k}

BeginRound ==
    /\ runnerUp /\ beat = 0 /\ due = {}
    /\ due' = Active \ cancelled
    /\ beat' = IF due' = {} THEN NextBeat ELSE 0
    /\ UNCHANGED <<store, power, offered, exec, cancelled, workspace, bounds>>

\* The round is over when its last request is; the wait starts then.
Sent(k) ==
    /\ due' = due \ {k}
    /\ beat' = IF due = {k} THEN NextBeat ELSE 0

\* Answered: the lease is renewed, or a 409 cancels the executor.
HeartbeatAnswered(k) ==
    /\ k \in due /\ Reachable
    /\ ApplyHeartbeat(k)
    /\ cancelled' = IF Live(k) THEN cancelled ELSE Flag(k)
    /\ Sent(k)
    /\ UNCHANGED <<power, offered, exec, workspace, bounds>>

\* RunnerApiError: the request, or only its answer, was lost.
HeartbeatLost(k) ==
    /\ k \in due
    /\ IF Reachable
       THEN /\ missed < MaxMissed /\ Mishap /\ missed' = missed + 1
            /\ \/ ApplyHeartbeat(k)
               \/ UNCHANGED store
       ELSE UNCHANGED <<missed, store>>
    /\ Sent(k)
    /\ UNCHANGED <<power, offered, exec, cancelled, workspace, breaks, tmuxFailures>>

-----------------------------------------------------------------------------
(* The executor of lease k, in the order of WorkspaceExecutor.execute *)

Goto(k, place) == exec' = [exec EXCEPT ![k] = place]

\* The errors an executor writes as it returns are for humans; only those it
\* reads itself, from the launch on, are modelled.
WriteError(k) == artifacts' = [artifacts EXCEPT ![k] = @ \cup {"error"}]

\* The flag is looked at before and after the workspace is prepared.
\* Preparing may fail; the failure is reported before the start.
Prepare(k) ==
    /\ exec[k] = "preparing"
    /\ \/ k \in cancelled /\ Goto(k, "done")
       \/ k \notin cancelled /\ Goto(k, "starting")
       \/ Goto(k, "failing")
    /\ UNCHANGED <<store, power, offered, cancelled, due, beat, workspace, bounds>>

StartAnswered(k) ==
    /\ exec[k] = "starting" /\ Reachable
    /\ ApplyStart(k)
    /\ Goto(k, IF Starts(k) \/ AlreadyStarted(k) THEN "started" ELSE "done")
    /\ UNCHANGED <<power, offered, cancelled, due, beat, workspace, bounds>>

StartUnanswered(k) ==
    /\ exec[k] = "starting" /\ Reachable
    /\ Starts(k) /\ missed < MaxMissed /\ Mishap
    /\ missed' = missed + 1
    /\ ApplyStart(k)
    /\ UNCHANGED <<power, threads, workspace, breaks, tmuxFailures>>

\* Whether the start was taken is unknown; no agent is launched.
StartGivenUp(k) ==
    /\ exec[k] = "starting"
    /\ IF Reachable
       THEN missed < MaxMissed /\ Mishap /\ missed' = missed + 1
       ELSE UNCHANGED missed
    /\ Goto(k, "failing")
    /\ UNCHANGED <<store, power, offered, cancelled, due, beat, workspace,
                   breaks, tmuxFailures>>

\* fail_before_start; whatever comes of it, the executor returns.
FailBeforeStart(k) ==
    /\ exec[k] = "failing"
    /\ \/ Reachable /\ ApplyFailUnstarted(k) /\ UNCHANGED missed
       \/ ~Reachable /\ UNCHANGED <<store, missed>>
       \/ Reachable /\ missed < MaxMissed /\ Mishap /\ missed' = missed + 1
          /\ UNCHANGED store
    /\ Goto(k, "done")
    /\ UNCHANGED <<power, offered, cancelled, due, beat, workspace, breaks, tmuxFailures>>

\* Mutation: the session is left alone.
NotKilled(k) == UNCHANGED <<workers, tmuxFailures>>

\* tmux_kill_session ends the worker, not its agent; a call that times out or
\* fails is not noticed, and the worker lives on.
Kill(k) ==
    \/ workers' = workers \ {k} /\ UNCHANGED tmuxFailures
    \/ /\ k \in workers /\ tmuxFailures < MaxTmuxFailures /\ Mishap
       /\ tmuxFailures' = tmuxFailures + 1
       /\ UNCHANGED workers

\* A lease cancelled after its start is dropped without a report.  A launch
\* that times out may have made the session.
Launch(k) ==
    /\ exec[k] = "started"
    /\ \/ /\ k \in cancelled
          /\ Goto(k, "done")
          /\ UNCHANGED <<workspace, tmuxFailures>>
       \/ /\ k \notin cancelled
          /\ \/ Goto(k, "watching") /\ UNCHANGED tmuxFailures
             \/ /\ tmuxFailures < MaxTmuxFailures /\ Mishap
                /\ tmuxFailures' = tmuxFailures + 1
                /\ Goto(k, "aborting")
          /\ workers' = workers \cup {k}
          /\ launched' = launched \cup {k}
          /\ UNCHANGED <<agents, artifacts, verdicts>>
       \/ /\ k \notin cancelled   \* tmux failed, and made none
          /\ Goto(k, "reporting")
          /\ WriteError(k)
          /\ UNCHANGED <<workers, agents, launched, verdicts, tmuxFailures>>
    /\ UNCHANGED <<store, power, offered, cancelled, due, beat, missed, breaks>>

\* What the launch may have left is killed before the failure is reported.
AbortLaunch(k) ==
    /\ exec[k] = "aborting"
    /\ Kill(k)
    /\ WriteError(k)
    /\ Goto(k, "reporting")
    /\ UNCHANGED <<store, power, offered, cancelled, due, beat,
                   agents, launched, verdicts, missed, breaks>>

\* The upper half of the watch loop: the flag, then error.json, then
\* result.json.
Look(k) ==
    /\ exec[k] = "watching"
    /\ IF k \in cancelled
       THEN Kill(k) /\ Goto(k, "done")
       ELSE /\ UNCHANGED <<workers, tmuxFailures>>
            /\ Goto(k, IF artifacts[k] = {} THEN "looked" ELSE "reporting")
    /\ UNCHANGED <<store, power, offered, cancelled, due, beat,
                   agents, launched, artifacts, verdicts, missed, breaks>>

\* The lower half: the deadline has passed, ...
TimeOut(k) ==
    /\ exec[k] = "looked"
    /\ Kill(k)
    /\ WriteError(k)
    /\ Goto(k, "watching")
    /\ UNCHANGED <<store, power, offered, cancelled, due, beat,
                   agents, launched, verdicts, missed, breaks>>

Disappeared(k) ==
    /\ WriteError(k)
    /\ verdicts' = verdicts \cup {k}

\* ... or tmux is asked for a live pane; a query that times out says no.
Probe(k) ==
    /\ exec[k] = "looked"
    /\ \/ k \in workers /\ UNCHANGED <<artifacts, verdicts, tmuxFailures>>
       \/ k \notin workers /\ Disappeared(k) /\ UNCHANGED tmuxFailures
       \/ k \in workers /\ tmuxFailures < MaxTmuxFailures /\ Mishap
          /\ tmuxFailures' = tmuxFailures + 1 /\ Disappeared(k)
    /\ Goto(k, "watching")
    /\ UNCHANGED <<store, power, offered, cancelled, due, beat,
                   workers, agents, launched, missed, breaks>>

\* error.json is looked at first.
Outcome(k) == IF "error" \in artifacts[k] THEN "failed" ELSE "succeeded"

\* upload_terminal repeats until the controller answers, 409 or not.
ReportAnswered(k) ==
    /\ exec[k] = "reporting" /\ Reachable
    /\ ApplyComplete(k, Outcome(k))
    /\ Goto(k, "done")
    /\ UNCHANGED <<power, offered, cancelled, due, beat, workspace, bounds>>

ReportUnanswered(k) ==
    /\ exec[k] = "reporting" /\ Reachable
    /\ missed < MaxMissed /\ Mishap
    /\ missed' = missed + 1
    /\ ApplyComplete(k, Outcome(k))
    /\ UNCHANGED <<power, threads, workspace, breaks, tmuxFailures>>

\* worker_main starts its agent, or the next attempt when one has ended.
AgentStarts(k) ==
    /\ k \in workers \ agents
    /\ agents' = agents \cup {k}
    /\ UNCHANGED <<store, power, threads, workers, launched, artifacts, verdicts,
                   bounds>>

AgentEnds(k) ==
    /\ k \in agents
    /\ agents' = agents \ {k}
    /\ UNCHANGED <<store, power, threads, workers, launched, artifacts, verdicts,
                   bounds>>

\* The worker writes a result, once its agent has ended, or an error, or
\* nothing, and is gone; a worker that dies leaves its agent.
WorkerEnds(k) ==
    /\ k \in workers
    /\ workers' = workers \ {k}
    /\ \E files \in {{"result"}, {"error"}, {}} :
         /\ files = {"result"} => k \notin agents
         /\ artifacts' = [artifacts EXCEPT ![k] = @ \cup files]
    /\ UNCHANGED <<store, power, threads, agents, launched, verdicts, bounds>>

-----------------------------------------------------------------------------
(* Time and interruptions *)

LeaseAfterTick(j) == IF ttl[j] = Expired THEN Expired ELSE ttl[j] - 1

Advance ==
    /\ ttl' = [j \in Job |-> LeaseAfterTick(j)]
    /\ beat' = IF beat = 0 THEN 0 ELSE beat - 1
    /\ UNCHANGED <<job, generation, run, power, offered, exec, cancelled, due,
                   workspace>>

\* The heartbeat thread and answers on their way are on time.
OnTime == runnerUp => beat > 0 /\ due = {} /\ offered = {}

Tick == OnTime /\ Advance /\ UNCHANGED bounds

\* They are late by a tick.
Late ==
    /\ ~OnTime /\ missed < MaxMissed /\ Mishap
    /\ missed' = missed + 1
    /\ Advance
    /\ UNCHANGED <<breaks, tmuxFailures>>

Break(kind) ==
    /\ kind \in Breaks /\ breaks < MaxBreaks /\ Mishap
    /\ breaks' = breaks + 1
    /\ UNCHANGED <<missed, tmuxFailures>>

\* The controller is stopped; claim answers under way are lost with it.
Pause ==
    /\ controllerUp /\ Break("pause")
    /\ controllerUp' = FALSE /\ offered' = {}
    /\ UNCHANGED <<store, linked, runnerUp, exec, cancelled, due, beat, workspace>>

Resume ==
    /\ ~controllerUp /\ controllerUp' = TRUE
    /\ UNCHANGED <<store, linked, runnerUp, threads, workspace, bounds>>

\* The runner is cut off, or its workspace is disabled: requests fail with
\* an error that is not 409, and the controller goes on without it.
Disconnect ==
    /\ linked /\ Break("partition")
    /\ linked' = FALSE /\ offered' = {}
    /\ UNCHANGED <<store, controllerUp, runnerUp, exec, cancelled, due, beat, workspace>>

Reconnect ==
    /\ ~linked /\ linked' = TRUE
    /\ UNCHANGED <<store, controllerUp, runnerUp, threads, workspace, bounds>>

\* Stopping the container ends the daemon, the tmux server and the agents; the
\* files stay, and the next daemon does not look at them.
StopRunner ==
    /\ runnerUp /\ Break("restart")
    /\ runnerUp' = FALSE
    /\ offered' = {} /\ cancelled' = {} /\ due' = {} /\ beat' = NextBeat
    /\ exec' = [k \in Leases |-> "none"]
    /\ workers' = {} /\ agents' = {}
    /\ UNCHANGED <<store, controllerUp, linked, launched, artifacts, verdicts>>

StartRunner ==
    /\ ~runnerUp /\ runnerUp' = TRUE /\ beat' = NextBeat
    /\ UNCHANGED <<store, controllerUp, linked, offered, exec, cancelled, due,
                   workspace, bounds>>

Executor(k) ==
    \/ Prepare(k)
    \/ StartAnswered(k) \/ StartGivenUp(k) \/ FailBeforeStart(k)
    \/ Launch(k) \/ AbortLaunch(k)
    \/ Look(k) \/ Probe(k)
    \/ ReportAnswered(k)

Next ==
    \/ \E j \in Job : Dispatch(j)
    \/ ReapExpired
    \/ Claim \/ Submit \/ LoseAnswer
    \/ BeginRound
    \/ \E k \in Leases :
         \/ HeartbeatAnswered(k) \/ HeartbeatLost(k)
         \/ Executor(k)
         \/ StartUnanswered(k) \/ ReportUnanswered(k)
         \/ TimeOut(k)
         \/ AgentStarts(k) \/ AgentEnds(k) \/ WorkerEnds(k)
    \/ Tick \/ Late
    \/ Pause \/ Resume \/ Disconnect \/ Reconnect \/ StopRunner \/ StartRunner

Spec == Init /\ [][Next]_vars

(***************************************************************************)
(* Threads that can run do run; a paused controller, a broken link and a   *)
(* stopped container come back.  Nothing obliges a worker, an agent or a   *)
(* job's time to end.                                                      *)
(***************************************************************************)
Fairness ==
    /\ WF_vars(ReapExpired)
    /\ WF_vars(Claim) /\ WF_vars(Submit)
    /\ WF_vars(BeginRound)
    /\ \A k \in Leases :
         /\ WF_vars(HeartbeatAnswered(k) \/ HeartbeatLost(k))
         /\ WF_vars(Executor(k))
    /\ WF_vars(Tick)
    /\ WF_vars(Resume) /\ WF_vars(Reconnect) /\ WF_vars(StartRunner)

FairSpec == Spec /\ Fairness

-----------------------------------------------------------------------------
(* Properties *)

TypeOK ==
    /\ job \in [Job -> {"absent", "queued"} \cup Held \cup Terminal]
    /\ generation \in [Job -> 0..MaxGeneration]
    /\ ttl \in [Job -> Expired..Lease]
    /\ run \in [Job -> 0..MaxGeneration]
    /\ {controllerUp, linked, runnerUp} \subseteq BOOLEAN
    /\ offered \subseteq Leases
    /\ exec \in [Leases -> {"none", "preparing", "starting", "failing", "started",
                            "aborting", "watching", "looked", "reporting", "done"}]
    /\ cancelled \subseteq Leases /\ due \subseteq Leases
    /\ beat \in 0..Beat
    /\ workers \cup agents \subseteq launched /\ launched \subseteq Leases
    /\ artifacts \in [Leases -> SUBSET {"result", "error"}]
    /\ verdicts \subseteq Leases
    /\ missed \in 0..MaxMissed
    /\ breaks \in 0..MaxBreaks
    /\ tmuxFailures \in 0..MaxTmuxFailures

\* A worker is launched only for a lease whose start the controller took, and
\* no later lease of the job exists: over its whole life, through lost
\* answers, expired leases, reclaims and restarts, a job gets one worker.
OneAgentPerJob ==
    \A k \in launched :
        run[JobOf(k)] = k[2] /\ generation[JobOf(k)] = k[2]

\* No live worker is without an executor that watches it, so that it can still
\* be cancelled and timed out, unless tmux has failed once.
WorkersAreWatched ==
    tmuxFailures = 0 => \A k \in workers : exec[k] \in {"watching", "looked"}

\* The executors in flight fit the thread pool although the controller may
\* already have given up on some of their jobs and leases new ones.
ExecutorsFitThePool == Cardinality(Active) + Cardinality(offered) <= Capacity

\* A job is reported as succeeded only if a worker wrote a result under the
\* lease the controller knows, and no agent of that lease is still at work.
SuccessHasAResult ==
    \A j \in Job : job[j] = "succeeded" =>
        LET k == <<j, run[j]>>
        IN  k \in launched /\ "result" \in artifacts[k] /\ k \notin agents

\* A heartbeat may be missed: with Beat less than half of Lease a job that was
\* started is lost only after two mishaps, or an interruption.
OneMissIsHarmless ==
    (\E j \in Job : job[j] = "lost") => missed >= 2 \/ breaks >= 1

\* The abstract promise holds of the jobs as the runner drives them.
Phase(j) ==
    CASE job[j] = "absent" -> "none"
      [] job[j] \in {"queued", "leased"} -> "waiting"
      [] job[j] = "running" -> "started"
      [] OTHER -> "ended"

Lifecycle == INSTANCE JobLifecycle WITH
    Work <- Job,
    phase <- [j \in Job |-> Phase(j)],
    starts <- [j \in Job |-> IF run[j] = 0 THEN 0 ELSE 1],
    announced <- [j \in Job |-> IF job[j] \in Terminal THEN 1 ELSE 0]

\* Leasing, losing answers, expiry and restarts of the runner are invisible
\* in the lifecycle of a job: it waits, is started at most once, ends once.
RunnerKeepsLifecycle == Lifecycle!Spec

\* Work on a job the controller has given up is abandoned: its executor
\* learns of it, wherever it is, and returns its slot to the pool, and it has
\* killed the worker, unless tmux failed.  (The agent is another matter:
\* AgentsStopWithTheirLease.)
LostWorkIsAbandoned ==
    \A k \in Leases :
        (k \in Active /\ job[JobOf(k)] = "lost") ~>
            (k \notin Active /\ (k \in workers => tmuxFailures > 0))

\* Every dispatched job is worked off, whatever was lost: it ends, unless a
\* worker, which nothing here obliges to end, goes on.
EveryJobIsWorkedOff ==
    \A j \in Job : (job[j] # "absent") ~> (job[j] \in Terminal \/ workers # {})

\* "Stopping only the controller is a soft pause: [...] nothing is lost."
PauseLosesNothing == \A j \in Job : job[j] # "lost"

\* "heartbeat extends lease (409 = stale, abort)": no agent goes on once its
\* lease is stale, its time is over or its worker has gone.
AgentsStopWithTheirLease ==
    \A k \in agents : k \in workers /\ exec[k] \in {"watching", "looked"}

\* "tmux pane exited without result or error artifact": it had exited ...
DisappearedPaneExited == \A k \in verdicts : k \notin workers

\* ... and there was no result.
DisappearedLeftNoResult == \A k \in verdicts : "result" \notin artifacts[k]

=============================================================================
