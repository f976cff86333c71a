-------------------------- MODULE HostedRunner_proofs --------------------------
(***************************************************************************)
(* What a runner and its controller keep true of each other, for any       *)
(* number of jobs, any capacity, lease and heartbeat, and any bounds on    *)
(* mishaps and interruptions.                                              *)
(***************************************************************************)
EXTENDS HostedRunner, FiniteSetTheorems, TLAPS

-----------------------------------------------------------------------------
(* The rows of the store: a run belongs to the generation it was started    *)
(* under, which no later lease replaces.                                    *)

RowsAgree ==
    \A j \in Job :
        /\ job[j] \in {"absent", "queued", "leased"} => run[j] = 0
        /\ job[j] = "running" => run[j] # 0
        /\ run[j] # 0 => run[j] = generation[j]

-----------------------------------------------------------------------------
(* The leases in the runner *)

BeforeLaunch == {"preparing", "starting", "failing", "started"}
AfterStart == {"started", "aborting", "watching", "looked", "reporting"}

\* Past the start, an executor has the one run of its job.
StartsHaveRuns ==
    \A k \in Leases : k \in launched \/ exec[k] \in AfterStart => run[JobOf(k)] = k[2]

\* A lease is handed out once: until its executor launches a worker, nothing
\* is there of it.
LeasesAreFresh ==
    \A k \in Leases :
        /\ k[2] > generation[JobOf(k)] => k \notin offered /\ exec[k] = "none"
        /\ k \in offered => exec[k] = "none"
        /\ k \in offered \/ k[2] > generation[JobOf(k)] =>
             k \notin cancelled \cup due
        /\ k \in offered \/ exec[k] \in BeforeLaunch \/ k[2] > generation[JobOf(k)] =>
             k \notin launched /\ artifacts[k] = {}

\* Until tmux fails, an artifact means that the worker is gone.
ArtifactsEndWorkers ==
    tmuxFailures = 0 => \A k \in workers : artifacts[k] = {}

\* Only workers write results, as the last thing they do and once their agent
\* has ended; an executor reports only what it has read.
ReportsHaveArtifacts ==
    \A k \in Leases :
        /\ "result" \in artifacts[k] => k \in launched \ (workers \cup agents)
        /\ exec[k] = "reporting" => artifacts[k] # {}

IInv ==
    /\ TypeOK
    /\ RowsAgree
    /\ StartsHaveRuns
    /\ LeasesAreFresh
    /\ ArtifactsEndWorkers
    /\ WorkersAreWatched
    /\ ReportsHaveArtifacts
    /\ SuccessHasAResult

-----------------------------------------------------------------------------
(* The invariant is inductive *)

\* Nothing is dispatched yet.
LEMMA Initially == Init => IInv
BY RunnerAssumption
DEF RunnerAssumption, Init, IInv, TypeOK, RowsAgree, StartsHaveRuns,
   LeasesAreFresh, ArtifactsEndWorkers, WorkersAreWatched, ReportsHaveArtifacts,
   SuccessHasAResult, Leases, JobOf, Held, Terminal, Expired, BeforeLaunch, AfterStart

\* What complete_job does with a report: it ends the running job of the lease,
\* with a result if it calls it a success, or changes nothing.
LEMMA CompleteEffect ==
    ASSUME IInv, NEW k \in Leases, exec[k] = "reporting",
           ApplyComplete(k, Outcome(k)), workspace' = workspace
    PROVE  /\ job' \in [Job -> {"absent", "queued"} \cup Held \cup Terminal]
           /\ ttl' \in [Job -> Expired..Lease]
           /\ UNCHANGED <<generation, run>>
           /\ RowsAgree' /\ SuccessHasAResult'
<1>1. /\ Outcome(k) \in {"succeeded", "failed"}
      /\ Outcome(k) = "succeeded" =>
           "result" \in artifacts[k] /\ k \in launched \ agents
  BY DEF Outcome, IInv, TypeOK, ReportsHaveArtifacts
<1>2. k = <<JobOf(k), run[JobOf(k)]>> /\ JobOf(k) \in Job
  BY DEF IInv, StartsHaveRuns, AfterStart, Leases, JobOf
<1>3. CASE Live(k) /\ job[JobOf(k)] = "running"
  <2>1. /\ job' = [job EXCEPT ![JobOf(k)] = Outcome(k)]
        /\ ttl' = [ttl EXCEPT ![JobOf(k)] = Expired]
        /\ UNCHANGED <<generation, run>>
    BY <1>3 DEF ApplyComplete, End
  <2>2. job' \in [Job -> {"absent", "queued"} \cup Held \cup Terminal]
    BY <1>1, <1>2, <2>1 DEF IInv, TypeOK, Terminal
  <2>3. ttl' \in [Job -> Expired..Lease]
    BY <1>2, <2>1, RunnerAssumption DEF RunnerAssumption, IInv, TypeOK, Expired
  <2>4. RowsAgree'
    BY <1>1, <1>2, <1>3, <2>1 DEF IInv, TypeOK, RowsAgree
  <2>5. SuccessHasAResult'
    BY <1>1, <1>2, <1>3, <2>1 DEF IInv, TypeOK, SuccessHasAResult, workspace
  <2>. QED BY <2>1, <2>2, <2>3, <2>4, <2>5
<1>4. CASE ~(Live(k) /\ job[JobOf(k)] = "running")
  <2>1. UNCHANGED store
    BY <1>4 DEF ApplyComplete
  <2>. QED BY <2>1 DEF IInv, TypeOK, RowsAgree, SuccessHasAResult, workspace, store
<1>. QED BY <1>3, <1>4

\* What mark_started does: a job leased under the generation, which has no run
\* yet, gets its run; or nothing changes.
LEMMA StartEffect ==
    ASSUME IInv, NEW k \in Leases, ApplyStart(k)
    PROVE  /\ job' \in [Job -> {"absent", "queued"} \cup Held \cup Terminal]
           /\ run' \in [Job -> 0..MaxGeneration]
           /\ UNCHANGED <<generation, ttl>>
           /\ RowsAgree'
           /\ \A j \in Job : /\ run[j] # 0 => run'[j] = run[j]
                             /\ job'[j] = "succeeded" => job[j] = "succeeded"
           /\ Starts(k) \/ AlreadyStarted(k) => run'[JobOf(k)] = k[2]
<1>1. JobOf(k) \in Job /\ k[2] \in 1..MaxGeneration
  BY DEF Leases, JobOf
<1>2. CASE Starts(k)
  <2>1. /\ job[JobOf(k)] = "leased" /\ generation[JobOf(k)] = k[2]
        /\ job' = [job EXCEPT ![JobOf(k)] = "running"]
        /\ run' = [run EXCEPT ![JobOf(k)] = k[2]]
        /\ UNCHANGED <<generation, ttl>>
    BY <1>2 DEF ApplyStart, Starts, Live, Fenced
  <2>2. RowsAgree'
    BY <1>1, <2>1, RunnerAssumption DEF RunnerAssumption, IInv, TypeOK, RowsAgree
  <2>. QED
    BY <1>1, <2>1, <2>2, RunnerAssumption
    DEF RunnerAssumption, IInv, TypeOK, RowsAgree, Held
<1>3. CASE ~Starts(k)
  <2>1. UNCHANGED store
    BY <1>3 DEF ApplyStart
  <2>2. RowsAgree'
    BY <2>1 DEF store, IInv, RowsAgree
  <2>. QED
    BY <1>3, <2>1, <2>2 DEF store, IInv, TypeOK, AlreadyStarted
<1>. QED BY <1>2, <1>3

\* A start is only taken of a leased job, which has no run, under its last lease.
LEMMA StartAnsweredKeeps ==
    ASSUME IInv, NEW k \in Leases, StartAnswered(k)
    PROVE  IInv'
<1>1. /\ exec[k] = "starting"
      /\ exec' = [exec EXCEPT ![k] =
            IF Starts(k) \/ AlreadyStarted(k) THEN "started" ELSE "done"]
      /\ ApplyStart(k)
      /\ UNCHANGED <<power, offered, cancelled, due, beat, workspace, bounds>>
  BY DEF StartAnswered, Goto
<1>2. TypeOK'
  BY <1>1, StartEffect DEF IInv, TypeOK, power, workspace, bounds
<1>3. StartsHaveRuns'
  <2>1. \A x \in Leases : run[JobOf(x)] = x[2] => run'[JobOf(x)] = x[2]
    BY <1>1, StartEffect, RunnerAssumption DEF RunnerAssumption, Leases, JobOf
  <2>. QED
    BY <1>1, <2>1, StartEffect DEF IInv, TypeOK, StartsHaveRuns, AfterStart, workspace
<1>4. LeasesAreFresh' /\ ReportsHaveArtifacts'
  BY <1>1, StartEffect DEF IInv, TypeOK, LeasesAreFresh, BeforeLaunch,
     ReportsHaveArtifacts, workspace
<1>5. ArtifactsEndWorkers' /\ WorkersAreWatched'
  BY <1>1 DEF IInv, TypeOK, ArtifactsEndWorkers, WorkersAreWatched, workspace, bounds
<1>6. SuccessHasAResult'
  <2>. SUFFICES ASSUME NEW j \in Job, job'[j] = "succeeded"
                PROVE  /\ <<j, run'[j]>> \in launched
                       /\ "result" \in artifacts[<<j, run'[j]>>]
                       /\ <<j, run'[j]>> \notin agents
    BY <1>1 DEF SuccessHasAResult, workspace
  <2>1. /\ <<j, run[j]>> \in launched \ agents
        /\ "result" \in artifacts[<<j, run[j]>>]
    BY <1>1, StartEffect DEF IInv, SuccessHasAResult
  <2>2. run'[j] = run[j]
    BY <1>1, <2>1, StartEffect DEF IInv, TypeOK, Leases
  <2>. QED BY <2>1, <2>2
<1>. QED BY <1>1, <1>2, <1>3, <1>4, <1>5, <1>6, StartEffect DEF IInv

\* The worker is started for the run of its job.
LEMMA LaunchKeeps ==
    ASSUME IInv, NEW k \in Leases, Launch(k)
    PROVE  IInv'
<1>. USE RunnerAssumption DEF RunnerAssumption, store, power, bounds, workspace
<1>1. /\ exec[k] = "started" /\ k \notin launched /\ artifacts[k] = {}
      /\ run[JobOf(k)] = k[2]
      /\ UNCHANGED <<store, power, offered, cancelled, due, beat, missed, breaks>>
  BY DEF Launch, IInv, LeasesAreFresh, BeforeLaunch, StartsHaveRuns, AfterStart
<1>2. CASE exec' = [exec EXCEPT ![k] = "done"] /\ UNCHANGED <<workspace, tmuxFailures>>
  BY <1>1, <1>2
  DEF IInv, TypeOK, RowsAgree, StartsHaveRuns, AfterStart, LeasesAreFresh,
     BeforeLaunch, ArtifactsEndWorkers, WorkersAreWatched, ReportsHaveArtifacts,
     SuccessHasAResult
<1>3. CASE /\ \/ exec' = [exec EXCEPT ![k] = "watching"] /\ UNCHANGED tmuxFailures
              \/ /\ tmuxFailures < MaxTmuxFailures /\ tmuxFailures' = tmuxFailures + 1
                 /\ exec' = [exec EXCEPT ![k] = "aborting"]
           /\ workers' = workers \cup {k} /\ launched' = launched \cup {k}
           /\ UNCHANGED <<agents, artifacts, verdicts>>
  <2>1. TypeOK' /\ RowsAgree' /\ StartsHaveRuns'
    BY <1>1, <1>3 DEF IInv, TypeOK, RowsAgree, StartsHaveRuns, AfterStart
  <2>2. LeasesAreFresh'
    BY <1>1, <1>3 DEF IInv, TypeOK, LeasesAreFresh, BeforeLaunch
  <2>3. ReportsHaveArtifacts' /\ SuccessHasAResult'
    BY <1>1, <1>3 DEF IInv, TypeOK, Leases, ReportsHaveArtifacts, SuccessHasAResult
  <2>4. ArtifactsEndWorkers' /\ WorkersAreWatched'
    BY <1>1, <1>3 DEF IInv, TypeOK, ArtifactsEndWorkers, WorkersAreWatched
  <2>. QED BY <2>1, <2>2, <2>3, <2>4 DEF IInv
<1>4. CASE /\ exec' = [exec EXCEPT ![k] = "reporting"]
           /\ artifacts' = [artifacts EXCEPT ![k] = {"error"}]
           /\ UNCHANGED <<workers, agents, launched, verdicts, tmuxFailures>>
  <2>1. TypeOK' /\ RowsAgree' /\ StartsHaveRuns'
    BY <1>1, <1>4 DEF IInv, TypeOK, RowsAgree, StartsHaveRuns, AfterStart
  <2>2. LeasesAreFresh'
    BY <1>1, <1>4 DEF IInv, TypeOK, LeasesAreFresh, BeforeLaunch
  <2>3. ReportsHaveArtifacts' /\ SuccessHasAResult'
    BY <1>1, <1>4 DEF IInv, TypeOK, Leases, ReportsHaveArtifacts, SuccessHasAResult
  <2>4. ArtifactsEndWorkers' /\ WorkersAreWatched'
    BY <1>1, <1>4 DEF IInv, TypeOK, ArtifactsEndWorkers, WorkersAreWatched
  <2>. QED BY <2>1, <2>2, <2>3, <2>4 DEF IInv
<1>5. [artifacts EXCEPT ![k] = @ \cup {"error"}] = [artifacts EXCEPT ![k] = {"error"}]
  BY <1>1 DEF IInv, TypeOK
<1>. QED BY <1>2, <1>3, <1>4, <1>5 DEF Launch, Goto, WriteError

\* Success is reported of a lease with a result, which its worker wrote.
LEMMA ReportAnsweredKeeps ==
    ASSUME IInv, NEW k \in Leases, ReportAnswered(k)
    PROVE  IInv'
<1>1. /\ exec[k] = "reporting" /\ exec' = [exec EXCEPT ![k] = "done"]
      /\ ApplyComplete(k, Outcome(k))
      /\ UNCHANGED <<power, offered, cancelled, due, beat, workspace, bounds>>
  BY DEF ReportAnswered, Goto
<1>2. /\ job' \in [Job -> {"absent", "queued"} \cup Held \cup Terminal]
      /\ ttl' \in [Job -> Expired..Lease]
      /\ UNCHANGED <<generation, run>>
      /\ RowsAgree' /\ SuccessHasAResult'
  BY <1>1, CompleteEffect
<1>. QED
  BY <1>1, <1>2 DEF IInv, TypeOK, StartsHaveRuns, AfterStart, LeasesAreFresh,
     BeforeLaunch, ArtifactsEndWorkers, WorkersAreWatched, ReportsHaveArtifacts,
     power, workspace, bounds

\* The same, where the runner is to ask again.
LEMMA ReportUnansweredKeeps ==
    ASSUME IInv, NEW k \in Leases, ReportUnanswered(k)
    PROVE  IInv'
<1>1. /\ exec[k] = "reporting"
      /\ ApplyComplete(k, Outcome(k))
      /\ UNCHANGED <<power, threads, workspace, breaks, tmuxFailures>>
      /\ missed < MaxMissed /\ missed' = missed + 1
  BY DEF ReportUnanswered
<1>2. /\ job' \in [Job -> {"absent", "queued"} \cup Held \cup Terminal]
      /\ ttl' \in [Job -> Expired..Lease]
      /\ UNCHANGED <<generation, run>>
      /\ RowsAgree' /\ SuccessHasAResult'
  BY <1>1, CompleteEffect
<1>. QED
  BY <1>1, <1>2, RunnerAssumption
  DEF RunnerAssumption, IInv, TypeOK, StartsHaveRuns, AfterStart, LeasesAreFresh,
     BeforeLaunch, ArtifactsEndWorkers, WorkersAreWatched, ReportsHaveArtifacts,
     power, workspace, threads

\* A worker leaves its artifact and is gone; with a result, its agent is too.
LEMMA WorkerEndsKeeps ==
    ASSUME IInv, NEW k \in Leases, WorkerEnds(k)
    PROVE  IInv'
<1>. USE DEF IInv, store, power, threads, bounds, WorkerEnds
<1>1. PICK files \in SUBSET {"result", "error"} :
        /\ files = {"result"} \/ "result" \notin files
        /\ files = {"result"} => k \notin agents
        /\ artifacts' = [artifacts EXCEPT ![k] = @ \cup files]
  OBVIOUS
<1>2. artifacts' \in [Leases -> SUBSET {"result", "error"}]
  BY <1>1, Zenon DEF TypeOK
<1>3. /\ \A x \in Leases : artifacts[x] \subseteq artifacts'[x]
      /\ \A x \in Leases : artifacts'[x] # artifacts[x] => x = k
      /\ "result" \in artifacts'[k] => "result" \in artifacts[k] \/ k \notin agents
      /\ k \in launched /\ workers' = workers \ {k}
  BY <1>1 DEF TypeOK
<1>4. TypeOK'
  BY <1>2, <1>3 DEF TypeOK
<1>5. RowsAgree' /\ StartsHaveRuns' /\ SuccessHasAResult'
  BY <1>3 DEF RowsAgree, StartsHaveRuns, SuccessHasAResult, TypeOK, Leases
<1>6. LeasesAreFresh'
  BY <1>3 DEF LeasesAreFresh
<1>7. ArtifactsEndWorkers' /\ WorkersAreWatched' /\ ReportsHaveArtifacts'
  BY <1>3 DEF ArtifactsEndWorkers, WorkersAreWatched, ReportsHaveArtifacts, TypeOK
<1>. QED BY <1>4, <1>5, <1>6, <1>7

\* A pause loses the claim answer under way.
LEMMA PauseKeeps ==
    ASSUME IInv, Pause
    PROVE  IInv'
<1>1. breaks' \in 0..MaxBreaks /\ UNCHANGED <<missed, tmuxFailures>>
  BY RunnerAssumption DEF RunnerAssumption, Pause, Break, IInv, TypeOK
<1>2. /\ controllerUp' = FALSE /\ offered' = {}
      /\ UNCHANGED <<store, linked, runnerUp, exec, cancelled, due, beat, workspace>>
  BY DEF Pause
<1>. QED
  BY <1>1, <1>2 DEF store, workspace, IInv, TypeOK, RowsAgree, StartsHaveRuns,
     LeasesAreFresh, ArtifactsEndWorkers, WorkersAreWatched, ReportsHaveArtifacts,
     SuccessHasAResult

\* So does a broken link.
LEMMA DisconnectKeeps ==
    ASSUME IInv, Disconnect
    PROVE  IInv'
<1>1. breaks' \in 0..MaxBreaks /\ UNCHANGED <<missed, tmuxFailures>>
  BY RunnerAssumption DEF RunnerAssumption, Disconnect, Break, IInv, TypeOK
<1>2. /\ linked' = FALSE /\ offered' = {}
      /\ UNCHANGED <<store, controllerUp, runnerUp, exec, cancelled, due, beat, workspace>>
  BY DEF Disconnect
<1>. QED
  BY <1>1, <1>2 DEF store, workspace, IInv, TypeOK, RowsAgree, StartsHaveRuns,
     LeasesAreFresh, ArtifactsEndWorkers, WorkersAreWatched, ReportsHaveArtifacts,
     SuccessHasAResult

\* A restart forgets every executor and ends every worker and agent.
LEMMA StopRunnerKeeps ==
    ASSUME IInv, StopRunner
    PROVE  IInv'
<1>1. breaks' \in 0..MaxBreaks /\ UNCHANGED <<missed, tmuxFailures>>
  BY RunnerAssumption DEF RunnerAssumption, StopRunner, Break, IInv, TypeOK
<1>2. /\ runnerUp' = FALSE /\ UNCHANGED <<store, controllerUp, linked, launched, artifacts>>
      /\ offered' = {} /\ cancelled' = {} /\ due' = {} /\ beat' = Beat
      /\ workers' = {} /\ agents' = {}
      /\ verdicts' = verdicts
      /\ exec' = [k \in Leases |-> "none"]
  BY DEF StopRunner, NextBeat
<1>3. TypeOK'
  <2>1. exec' \in [Leases -> {"none", "preparing", "starting", "failing", "started",
                              "aborting", "watching", "looked", "reporting", "done"}]
    BY <1>2
  <2>2. {controllerUp', linked', runnerUp'} \subseteq BOOLEAN
    BY <1>2 DEF IInv, TypeOK
  <2>. QED
    BY <1>1, <1>2, <2>1, <2>2, RunnerAssumption
    DEF RunnerAssumption, store, IInv, TypeOK
<1>4. RowsAgree' /\ SuccessHasAResult'
  BY <1>2 DEF store, IInv, RowsAgree, SuccessHasAResult
<1>5. StartsHaveRuns' /\ LeasesAreFresh'
  BY <1>2 DEF store, IInv, StartsHaveRuns, AfterStart, LeasesAreFresh, BeforeLaunch
<1>6. ArtifactsEndWorkers' /\ WorkersAreWatched' /\ ReportsHaveArtifacts'
  BY <1>2 DEF IInv, ArtifactsEndWorkers, WorkersAreWatched, ReportsHaveArtifacts
<1>. QED BY <1>3, <1>4, <1>5, <1>6 DEF IInv

\* Every step keeps the invariant.
LEMMA Preservation == IInv /\ [Next]_vars => IInv'
<1>. SUFFICES ASSUME IInv, [Next]_vars PROVE IInv'
  OBVIOUS
<1>. USE RunnerAssumption
  DEF RunnerAssumption, IInv, TypeOK, RowsAgree, StartsHaveRuns,
       LeasesAreFresh, ArtifactsEndWorkers, WorkersAreWatched, ReportsHaveArtifacts,
       SuccessHasAResult, store, threads, workspace, power, bounds, Leases, JobOf,
       Held, Terminal, Expired, BeforeLaunch, AfterStart
<1>1. ASSUME NEW j \in Job, Dispatch(j) PROVE IInv'
  BY <1>1 DEF Dispatch
<1>2. ASSUME ReapExpired PROVE IInv'
  BY <1>2 DEF Reapable, ReapedState, ReapExpired
<1>3. ASSUME Claim PROVE IInv'
  BY <1>3 DEF Active, Reachable, Smallest, FreeSlots, Claim
<1>4. ASSUME Submit PROVE IInv'
  BY <1>4 DEF Submit
<1>5. ASSUME LoseAnswer PROVE IInv'
  BY <1>5 DEF LoseAnswer
<1>6. ASSUME BeginRound PROVE IInv'
  BY <1>6 DEF Active, NextBeat, BeginRound
<1>7. ASSUME NEW k \in Leases, HeartbeatAnswered(k) PROVE IInv'
  BY <1>7 DEF Reachable, Fenced, Live, ApplyHeartbeat, NextBeat, Flag, Sent,
       HeartbeatAnswered
<1>8. ASSUME NEW k \in Leases, HeartbeatLost(k) PROVE IInv'
  BY <1>8 DEF Reachable, Fenced, Live, ApplyHeartbeat, NextBeat, Sent,
       HeartbeatLost
<1>9. ASSUME NEW k \in Leases, Prepare(k) PROVE IInv'
  BY <1>9 DEF Goto, Prepare
<1>10. ASSUME NEW k \in Leases, StartGivenUp(k) PROVE IInv'
  BY <1>10 DEF Reachable, Goto, StartGivenUp
<1>11. ASSUME NEW k \in Leases, FailBeforeStart(k) PROVE IInv'
  <2>1. /\ exec[k] = "failing" /\ exec' = [exec EXCEPT ![k] = "done"]
        /\ UNCHANGED <<power, offered, cancelled, due, beat, workspace, breaks,
                       tmuxFailures>>
        /\ missed' \in 0..MaxMissed
    BY <1>11 DEF FailBeforeStart, Goto
  <2>2. \/ UNCHANGED store
        \/ /\ job[JobOf(k)] = "leased"
           /\ job' = [job EXCEPT ![JobOf(k)] = "failed"]
           /\ ttl' = [ttl EXCEPT ![JobOf(k)] = Expired]
           /\ UNCHANGED <<generation, run>>
    BY <1>11 DEF FailBeforeStart, ApplyFailUnstarted, Starts, End
  <2>. QED
    BY <2>1, <2>2
<1>12. ASSUME NEW k \in Leases, Look(k) PROVE IInv'
  BY SMTT(30), <1>12 DEF Goto, Kill, Look
<1>13. ASSUME NEW k \in Leases, Probe(k) PROVE IInv'
  BY <1>13 DEF Goto, WriteError, Disappeared, Probe
<1>14. ASSUME NEW k \in Leases, StartUnanswered(k) PROVE IInv'
  BY SMTT(60), <1>14 DEF Reachable, Fenced, Live, Starts, ApplyStart, StartUnanswered
<1>15. ASSUME NEW k \in Leases, TimeOut(k) PROVE IInv'
  BY <1>15 DEF Goto, WriteError, Kill, TimeOut
<1>16. ASSUME Tick PROVE IInv'
  BY <1>16 DEF LeaseAfterTick, Advance, OnTime, Tick
<1>17. ASSUME Late PROVE IInv'
  BY <1>17 DEF LeaseAfterTick, Advance, OnTime, Late
<1>18. ASSUME Resume PROVE IInv'
  BY <1>18 DEF Resume
<1>19. ASSUME Reconnect PROVE IInv'
  BY <1>19 DEF Reconnect
<1>20. ASSUME StartRunner PROVE IInv'
  BY <1>20 DEF NextBeat, StartRunner
<1>21. ASSUME NEW k \in Leases, AbortLaunch(k) PROVE IInv'
  BY <1>21 DEF Goto, WriteError, Kill, AbortLaunch
<1>22. ASSUME NEW k \in Leases, AgentStarts(k) PROVE IInv'
  BY <1>22 DEF AgentStarts
<1>23. ASSUME NEW k \in Leases, AgentEnds(k) PROVE IInv'
  BY <1>23 DEF AgentEnds
<1>24. CASE UNCHANGED vars
  BY <1>24 DEF vars
<1>. QED
  BY StartAnsweredKeeps, LaunchKeeps, ReportAnsweredKeeps,
       ReportUnansweredKeeps, WorkerEndsKeeps, PauseKeeps, DisconnectKeeps,
       StopRunnerKeeps, <1>1, <1>2, <1>3, <1>4, <1>5, <1>6, <1>7, <1>8, <1>9,
       <1>10, <1>11, <1>12, <1>13, <1>14, <1>15, <1>16, <1>17, <1>18, <1>19,
       <1>20, <1>21, <1>22, <1>23, <1>24
  DEF Next, Executor

\* The invariant holds of every state.
THEOREM Invariance == Spec => []IInv
BY Initially, Preservation, PTL DEF Spec

-----------------------------------------------------------------------------
(* What it says *)

\* Every variable keeps its type, within the bounds.
THEOREM TypeCorrect == Spec => []TypeOK
<1>1. IInv => TypeOK
  BY DEF IInv
<1>. QED BY <1>1, Invariance, PTL

\* Through lost answers, expired leases, reclaims and restarts a job gets one
\* worker, and no lease after it (WorkspaceExecutor.execute, executor.py).
THEOREM OneAgent == Spec => []OneAgentPerJob
<1>1. IInv => OneAgentPerJob
  BY DEF IInv, TypeOK, RowsAgree, StartsHaveRuns, OneAgentPerJob, Leases, JobOf
<1>. QED BY <1>1, Invariance, PTL

\* No live worker is without the executor that watches it until tmux fails
\* for the first time (launch and watch loop, executor.py; tmux_kill_session,
\* watcher.py).  Of the agents nothing of the kind holds.
THEOREM WorkersKeepTheirExecutor == Spec => []WorkersAreWatched
<1>1. IInv => WorkersAreWatched
  BY DEF IInv
<1>. QED BY <1>1, Invariance, PTL

\* A job that succeeded has a result that its worker wrote under the lease the
\* controller knows, and no agent at work (upload_terminal, executor.py).
THEOREM SuccessIsEarned == Spec => []SuccessHasAResult
<1>1. IInv => SuccessHasAResult
  BY DEF IInv
<1>. QED BY <1>1, Invariance, PTL

-----------------------------------------------------------------------------
(* The pool *)

\* What occupies the pool can be counted.
LEMMA LeasesAreFinite ==
    IInv => /\ IsFiniteSet(Active) /\ IsFiniteSet(offered)
            /\ Cardinality(Active) \in Nat /\ Cardinality(offered) \in Nat
<1>1. IsFiniteSet(1..MaxGeneration) /\ IsFiniteSet(Job)
  BY FS_Interval, RunnerAssumption DEF RunnerAssumption
<1>2. IsFiniteSet(Leases)
  BY <1>1, FS_Product DEF Leases
<1>3. IInv => Active \in SUBSET Leases /\ offered \in SUBSET Leases
  BY DEF IInv, TypeOK, Active
<1>. QED BY <1>2, <1>3, FS_Subset, FS_CardinalityType

\* The least of three is not more than the first.
LEMMA SmallestOfThree ==
    ASSUME NEW a \in Int, NEW b \in Int, NEW c \in Int
    PROVE  Smallest({a, b, c}) <= a
<1>1. \E n \in {a, b, c} : \A m \in {a, b, c} : n <= m
  OBVIOUS
<1>. QED BY <1>1 DEF Smallest

\* A claim asks for no more leases than there are free slots.
LEMMA ClaimFits ==
    ASSUME IInv, Claim, ExecutorsFitThePool
    PROVE  ExecutorsFitThePool'
<1>. DEFINE queued == {j \in Job : job[j] = "queued" /\ generation[j] < MaxGeneration}
            held == {j \in Job : job[j] \in Held}
            room == Capacity - Cardinality(held)
<1>1. PICK S \in SUBSET queued :
        /\ Cardinality(S) = Smallest({FreeSlots, room, Cardinality(queued)})
        /\ offered' = {<<j, generation[j] + 1>> : j \in S}
  BY DEF Claim
<1>2. IsFiniteSet(Job) /\ IsFiniteSet(queued) /\ IsFiniteSet(held) /\ IsFiniteSet(S)
  BY FS_Subset, RunnerAssumption DEF RunnerAssumption
<1>3. FreeSlots \in Int /\ room \in Int /\ Cardinality(queued) \in Int
  BY <1>2, FS_CardinalityType, LeasesAreFinite, RunnerAssumption
  DEF RunnerAssumption, FreeSlots
<1>4. Cardinality(S) <= FreeSlots
  BY <1>1, <1>3, SmallestOfThree
<1>5. Cardinality(offered') <= Cardinality(S)
  <2>. DEFINE lease == [j \in S |-> <<j, generation[j] + 1>>]
  <2>1. lease \in Surjection(S, offered')
    BY <1>1 DEF Surjection
  <2>. QED BY <1>2, <2>1, FS_Surjection
<1>6. Active' = Active
  BY DEF Claim, Active
<1>7. IsFiniteSet(offered')
  <2>. DEFINE lease == [j \in S |-> <<j, generation[j] + 1>>]
  <2>1. lease \in Surjection(S, offered')
    BY <1>1 DEF Surjection
  <2>. QED BY <1>2, <2>1, FS_Surjection
<1>. HIDE DEF queued, held, room
<1>8. Cardinality(S) \in Nat /\ Cardinality(offered') \in Nat /\ Cardinality(Active) \in Nat
  BY <1>2, <1>7, FS_CardinalityType, LeasesAreFinite
<1>. QED
  BY <1>4, <1>5, <1>6, <1>8, RunnerAssumption
  DEF RunnerAssumption, ExecutorsFitThePool, FreeSlots

\* An executor for each lease of an answer takes the place of the lease.
LEMMA SubmitFits ==
    ASSUME IInv, Submit, ExecutorsFitThePool
    PROVE  ExecutorsFitThePool'
<1>1. Active' = Active \cup offered /\ offered' = {}
  BY DEF Submit, Active, IInv, TypeOK
<1>2. Cardinality(Active') <= Cardinality(Active) + Cardinality(offered)
  <2>1. IsFiniteSet(Active \cap offered)
    BY LeasesAreFinite, FS_Intersection
  <2>2. /\ Cardinality(Active \cup offered) =
            Cardinality(Active) + Cardinality(offered) - Cardinality(Active \cap offered)
        /\ Cardinality(Active \cap offered) \in Nat
    BY <2>1, LeasesAreFinite, FS_Union, FS_CardinalityType
  <2>. QED BY <1>1, <2>2, LeasesAreFinite
<1>3. Cardinality(offered') = 0 /\ Cardinality(Active') \in Nat
  BY <1>1, FS_EmptySet, FS_Union, FS_CardinalityType, LeasesAreFinite
<1>. QED BY <1>2, <1>3, LeasesAreFinite, RunnerAssumption
  DEF RunnerAssumption, ExecutorsFitThePool

\* Fewer leases fit as well.
LEMMA FewerFit ==
    ASSUME IInv, ExecutorsFitThePool, Active' \subseteq Active, offered' \subseteq offered
    PROVE  ExecutorsFitThePool'
<1>1. /\ Cardinality(Active') <= Cardinality(Active)
      /\ Cardinality(offered') <= Cardinality(offered)
      /\ IsFiniteSet(Active') /\ IsFiniteSet(offered')
  BY LeasesAreFinite, FS_Subset
<1>2. Cardinality(Active') \in Nat /\ Cardinality(offered') \in Nat
  BY <1>1, FS_CardinalityType
<1>. QED BY <1>1, <1>2, LeasesAreFinite, RunnerAssumption
  DEF RunnerAssumption, ExecutorsFitThePool

\* Only claims and submissions add leases.
LEMMA OthersTakeNoSlots ==
    ASSUME IInv, [Next]_vars, ~Claim, ~Submit
    PROVE  Active' \subseteq Active /\ offered' \subseteq offered
<1>1. CASE UNCHANGED <<exec, offered>>
  BY <1>1 DEF Active
<1>2. CASE offered' = {} /\ UNCHANGED exec
  BY <1>2 DEF Active
<1>3. ASSUME NEW k \in Leases, NEW place,
             exec[k] \notin {"none", "done"}, Goto(k, place), UNCHANGED offered
      PROVE  Active' \subseteq Active /\ offered' \subseteq offered
  BY <1>3 DEF Active, Goto, IInv, TypeOK
<1>4. CASE StopRunner
  BY <1>4 DEF StopRunner, Active
<1>5. ASSUME NEW k \in Leases, Executor(k) \/ TimeOut(k)
      PROVE  UNCHANGED offered /\ exec[k] \notin {"none", "done"} /\ \E place : Goto(k, place)
  BY <1>5 DEF Executor, Prepare, StartAnswered, StartGivenUp, FailBeforeStart, Launch,
     AbortLaunch, Look, Probe, ReportAnswered, TimeOut
<1>6. ASSUME NEW k \in Leases,
             \/ HeartbeatAnswered(k) \/ HeartbeatLost(k) \/ StartUnanswered(k)
             \/ ReportUnanswered(k) \/ AgentStarts(k) \/ AgentEnds(k) \/ WorkerEnds(k)
      PROVE  UNCHANGED <<exec, offered>>
  BY <1>6 DEF HeartbeatAnswered, HeartbeatLost, StartUnanswered, ReportUnanswered,
     AgentStarts, AgentEnds, WorkerEnds, threads
<1>. QED
  BY <1>1, <1>2, <1>3, <1>4, <1>5, <1>6
  DEF Next, vars, threads, Dispatch, ReapExpired, LoseAnswer, BeginRound, Tick, Late,
      Advance, Pause, Resume, Disconnect, Reconnect, StartRunner

\* The executors in flight and the leases on their way fit the pool, also
\* when the controller has given up some of them (daemon.py).
THEOREM PoolIsNeverExceeded == Spec => []ExecutorsFitThePool
<1>1. Init => ExecutorsFitThePool
  <2>. SUFFICES ASSUME Init PROVE ExecutorsFitThePool
    OBVIOUS
  <2>1. Active = {} /\ offered = {}
    BY DEF Init, Active
  <2>. QED
    BY <2>1, FS_EmptySet, RunnerAssumption DEF RunnerAssumption, ExecutorsFitThePool
<1>2. IInv /\ ExecutorsFitThePool /\ [Next]_vars => ExecutorsFitThePool'
  BY ClaimFits, SubmitFits, FewerFit, OthersTakeNoSlots
<1>. QED BY <1>1, <1>2, Invariance, PTL DEF Spec

-----------------------------------------------------------------------------
(* Time: how much of a lease is left when heartbeats are missed at most once *)

Disturbed == missed >= 2 \/ breaks >= 1

\* What one request lost, or late, may cost.
Slack == IF missed = 0 THEN 0 ELSE Beat

\* The lease that counts is held, and its executor does not return.
Running(k) == job[JobOf(k)] = "running" /\ generation[JobOf(k)] = k[2]
Current(k) == job[JobOf(k)] \in Held /\ generation[JobOf(k)] = k[2]

\* Between rounds at most Beat of a lease is gone, and what slack there was; in
\* a round, that holds of the leases still to be sent.
LeasesLast ==
    \A k \in Active \cup offered : Current(k) =>
        /\ k \notin cancelled
        /\ ttl[JobOf(k)] >= Lease - Beat - Slack + beat
        /\ k \in offered \/ (due # {} /\ k \notin due) => ttl[JobOf(k)] >= Lease - Slack

RunsAreWatched ==
    \A k \in Leases :
        /\ Running(k) => exec[k] \in AfterStart \cup {"starting"}
        /\ Running(k) /\ exec[k] = "starting" => missed >= 1

RoundsAreShort == due # {} => beat = 0

OnTimeInv ==
    \/ Disturbed
    \/ /\ controllerUp /\ linked /\ runnerUp
       /\ RoundsAreShort
       /\ LeasesLast
       /\ RunsAreWatched
       /\ \A j \in Job : job[j] # "lost"

\* At the start nothing has been missed.
LEMMA OnTimeInitially == Init => OnTimeInv
BY RunnerAssumption
DEF RunnerAssumption, Init, OnTimeInv, RoundsAreShort, LeasesLast, RunsAreWatched,
    Active, Current, Running, Slack, Leases, JobOf, Held, Expired

\* The reaper finds no job whose worker has started, so it loses none.
LEMMA ReaperLosesNone ==
    ASSUME 2 * Beat <= Lease, IInv, OnTimeInv, ReapExpired
    PROVE  OnTimeInv'
<1>. USE RunnerAssumption
  DEF RunnerAssumption, IInv, TypeOK, Leases, JobOf, Held, Expired
<1>1. UNCHANGED <<generation, ttl, run, power, threads, workspace, bounds>>
  BY DEF ReapExpired
<1>2. CASE Disturbed
  BY <1>1, <1>2 DEF OnTimeInv, Disturbed, bounds
<1>3. CASE ~Disturbed
  <2>1. ASSUME NEW j \in Job, job[j] = "running" PROVE ttl[j] >= 0
    <3>. DEFINE k == <<j, generation[j]>>
    <3>1. k \in Leases /\ Running(k) /\ Current(k)
      BY <2>1 DEF Running, Current, RowsAgree
    <3>2. k \in Active
      BY <1>3, <3>1 DEF OnTimeInv, RunsAreWatched, Active, AfterStart
    <3>3. ttl[j] >= Lease - Beat - Slack + beat
      BY <1>3, <3>1, <3>2 DEF OnTimeInv, LeasesLast
    <3>. QED BY <3>3 DEF Slack
  <2>2. \A j \in Job : /\ job[j] = "running" => job'[j] = "running"
                       /\ job'[j] \in Held => job[j] = job'[j]
                       /\ job'[j] = "lost" => job[j] = "lost"
    BY <2>1 DEF ReapExpired, Reapable, ReapedState
  <2>. QED
    BY <1>1, <1>3, <2>2
    DEF OnTimeInv, Disturbed, RoundsAreShort, LeasesLast, RunsAreWatched, Active,
        Current,
        Running, Slack, power, threads, bounds
<1>. QED BY <1>2, <1>3

\* While at most one request was missed and nothing was interrupted, every
\* step leaves enough of the leases.
LEMMA OnTimeStep ==
    ASSUME 2 * Beat <= Lease, IInv, OnTimeInv, [Next]_vars
    PROVE  OnTimeInv'
<1>. USE RunnerAssumption
  DEF RunnerAssumption, IInv, TypeOK, RowsAgree, StartsHaveRuns,
       LeasesAreFresh, ArtifactsEndWorkers, WorkersAreWatched, ReportsHaveArtifacts,
       SuccessHasAResult, store, threads, workspace, power, bounds, Leases, JobOf,
       Held, Terminal, Expired, BeforeLaunch, AfterStart, OnTimeInv, Disturbed, Slack,
       Running, Current, LeasesLast, RunsAreWatched, RoundsAreShort, Active
<1>1. ASSUME NEW j \in Job, Dispatch(j) PROVE OnTimeInv'
  BY <1>1 DEF Dispatch
<1>2. ASSUME Claim PROVE OnTimeInv'
  BY <1>2 DEF Reachable, Smallest, FreeSlots, Claim
<1>3. ASSUME Submit PROVE OnTimeInv'
  BY <1>3 DEF Submit
<1>4. ASSUME LoseAnswer PROVE OnTimeInv'
  BY <1>4 DEF LoseAnswer
<1>5. ASSUME BeginRound PROVE OnTimeInv'
  BY <1>5 DEF NextBeat, BeginRound
<1>6. ASSUME NEW k \in Leases, HeartbeatAnswered(k) PROVE OnTimeInv'
  BY <1>6 DEF Reachable, Fenced, Live, ApplyHeartbeat, NextBeat, Flag, Sent,
       HeartbeatAnswered
<1>7. ASSUME NEW k \in Leases, HeartbeatLost(k) PROVE OnTimeInv'
  BY <1>7 DEF Reachable, Fenced, Live, ApplyHeartbeat, NextBeat, Sent,
       HeartbeatLost
<1>8. ASSUME NEW k \in Leases, Prepare(k) PROVE OnTimeInv'
  BY <1>8 DEF Goto, Prepare
<1>9. ASSUME NEW k \in Leases, StartAnswered(k) PROVE OnTimeInv'
  BY SMTT(60), <1>9 DEF Reachable, Fenced, Live, Starts, AlreadyStarted, ApplyStart,
       Goto, StartAnswered
<1>10. ASSUME NEW k \in Leases, StartGivenUp(k) PROVE OnTimeInv'
  BY <1>10 DEF Reachable, Goto, StartGivenUp
<1>11. ASSUME NEW k \in Leases, FailBeforeStart(k) PROVE OnTimeInv'
  BY <1>11 DEF Reachable, Fenced, Live, Starts, End, ApplyFailUnstarted, Goto,
       FailBeforeStart
<1>12. ASSUME NEW k \in Leases, Launch(k) PROVE OnTimeInv'
  BY <1>12 DEF Goto, WriteError, Launch
<1>13. ASSUME NEW k \in Leases, Look(k) PROVE OnTimeInv'
  BY SMTT(30), <1>13 DEF Goto, Kill, Look
<1>14. ASSUME NEW k \in Leases, Probe(k) PROVE OnTimeInv'
  BY <1>14 DEF Goto, WriteError, Disappeared, Probe
<1>15. ASSUME NEW k \in Leases, ReportAnswered(k) PROVE OnTimeInv'
  BY <1>15 DEF Reachable, Fenced, Live, End, ApplyComplete, Goto, Outcome,
       ReportAnswered
<1>16. ASSUME NEW k \in Leases, StartUnanswered(k) PROVE OnTimeInv'
  BY SMTT(60), <1>16 DEF Reachable, Fenced, Live, Starts, ApplyStart, StartUnanswered
<1>17. ASSUME NEW k \in Leases, ReportUnanswered(k) PROVE OnTimeInv'
  BY <1>17 DEF Reachable, Fenced, Live, End, ApplyComplete, Outcome,
       ReportUnanswered
<1>18. ASSUME NEW k \in Leases, TimeOut(k) PROVE OnTimeInv'
  BY <1>18 DEF Goto, WriteError, Kill, TimeOut
<1>19. ASSUME NEW k \in Leases, AgentStarts(k) \/ AgentEnds(k) \/ WorkerEnds(k)
       PROVE  OnTimeInv'
  BY <1>19 DEF AgentStarts, AgentEnds, WorkerEnds
<1>20. ASSUME Tick PROVE OnTimeInv'
  BY <1>20 DEF LeaseAfterTick, Advance, OnTime, Tick
<1>21. ASSUME Late PROVE OnTimeInv'
  BY <1>21 DEF LeaseAfterTick, Advance, OnTime, Late
<1>22. ASSUME Pause PROVE OnTimeInv'
  BY <1>22 DEF Break, Pause
<1>23. ASSUME Resume PROVE OnTimeInv'
  BY <1>23 DEF Resume
<1>24. ASSUME Disconnect PROVE OnTimeInv'
  BY <1>24 DEF Break, Disconnect
<1>25. ASSUME Reconnect PROVE OnTimeInv'
  BY <1>25 DEF Reconnect
<1>26. ASSUME StopRunner PROVE OnTimeInv'
  BY <1>26 DEF NextBeat, Break, StopRunner
<1>27. ASSUME StartRunner PROVE OnTimeInv'
  BY <1>27 DEF NextBeat, StartRunner
<1>28. ASSUME NEW k \in Leases, AbortLaunch(k) PROVE OnTimeInv'
  BY <1>28 DEF Goto, WriteError, Kill, AbortLaunch
<1>29. CASE UNCHANGED vars
  BY <1>29 DEF vars
<1>. QED
  BY ReaperLosesNone, <1>1, <1>2, <1>3, <1>4, <1>5, <1>6, <1>7, <1>8, <1>9,
       <1>10, <1>11, <1>12, <1>13, <1>14, <1>15, <1>16, <1>17, <1>18, <1>19,
       <1>20, <1>21, <1>22, <1>23, <1>24, <1>25, <1>26, <1>27, <1>28, <1>29
  DEF Next, Executor

\* With a heartbeat in less than half of a lease, a job whose agent was
\* started is lost only after two mishaps or an interruption (the heartbeat
\* thread of daemon.py against Reaper, store.py).
THEOREM LongLeasesBearOneMiss ==
    ASSUME 2 * Beat <= Lease
    PROVE  Spec => []OneMissIsHarmless
<1>1. Init => OnTimeInv
  BY OnTimeInitially
<1>2. IInv /\ OnTimeInv /\ [Next]_vars => OnTimeInv'
  BY OnTimeStep
<1>3. OnTimeInv => OneMissIsHarmless
  BY DEF OnTimeInv, Disturbed, OneMissIsHarmless
<1>. QED BY <1>1, <1>2, <1>3, Invariance, PTL DEF Spec

-----------------------------------------------------------------------------
(* The runner keeps the lifecycle of JobLifecycle *)

\* Jobs that ended, at once; the others stay in their phase.
Ends(S) ==
    /\ UNCHANGED run
    /\ \A j \in S : job[j] \in Held /\ job'[j] \in Terminal
    /\ \A j \in Job \ S : Phase(j)' = Phase(j)

\* The jobs of S end in one step of the lifecycle.
LEMMA Ending ==
    ASSUME IInv, IInv', NEW S \in SUBSET Job, Ends(S)
    PROVE  Lifecycle!Next
<1>1. \A j \in S : Phase(j) \in {"waiting", "started"} /\ Phase(j)' = "ended"
  BY DEF Ends, Phase, Held, Terminal
<1>2. \A j \in S : job[j] \notin Terminal
  BY DEF Ends, Held, Terminal
<1>3. \A j \in Job \ S : job'[j] \in Terminal <=> job[j] \in Terminal
  BY DEF IInv, TypeOK, Ends, Phase, Held, Terminal
<1>4. [j \in Job |-> Phase(j)'] =
        [j \in Job |-> IF j \in S THEN "ended" ELSE [i \in Job |-> Phase(i)][j]]
  BY <1>1 DEF Ends
<1>5. [j \in Job |-> IF job'[j] \in Terminal THEN 1 ELSE 0] =
        [j \in Job |-> IF j \in S
           THEN [i \in Job |-> IF job[i] \in Terminal THEN 1 ELSE 0][j] + 1
           ELSE [i \in Job |-> IF job[i] \in Terminal THEN 1 ELSE 0][j]]
  BY <1>2, <1>3 DEF Ends
<1>6. Lifecycle!End(S)
  BY <1>1, <1>4, <1>5 DEF Lifecycle!End, Ends
<1>. QED BY <1>6 DEF Lifecycle!Next

\* A dispatched job starts to wait.
LEMMA Accepting ==
    ASSUME IInv, NEW j \in Job, Dispatch(j)
    PROVE  Lifecycle!Next
<1>1. Phase(j) = "none" /\ Phase(j)' = "waiting"
  BY DEF Dispatch, IInv, TypeOK, Phase
<1>2. \A i \in Job \ {j} : Phase(i)' = Phase(i)
  BY DEF Dispatch, IInv, TypeOK, Phase
<1>3. \A i \in Job : job'[i] \in Terminal <=> job[i] \in Terminal
  BY DEF Dispatch, IInv, TypeOK, Terminal
<1>4. [i \in Job |-> Phase(i)'] = [[i \in Job |-> Phase(i)] EXCEPT ![j] = "waiting"]
  BY <1>1, <1>2
<1>5. Lifecycle!Accept(j)
  BY <1>1, <1>3, <1>4 DEF Lifecycle!Accept, Dispatch
<1>. QED BY <1>5 DEF Lifecycle!Next

\* A start that is taken starts the job for the first time; any other leaves
\* it as it is.
LEMMA Starting ==
    ASSUME IInv, NEW k \in Leases, ApplyStart(k)
    PROVE  Lifecycle!Next \/ UNCHANGED <<job, run>>
<1>. DEFINE j == JobOf(k)
<1>1. CASE ~Starts(k)
  BY <1>1 DEF ApplyStart, store
<1>2. CASE Starts(k)
  <2>1. j \in Job /\ job[j] = "leased" /\ run[j] = 0 /\ k[2] # 0
    BY <1>2 DEF Starts, IInv, RowsAgree, Leases, JobOf
  <2>2. /\ job' = [job EXCEPT ![j] = "running"]
        /\ run' = [run EXCEPT ![j] = k[2]]
    BY <1>2 DEF ApplyStart
  <2>. HIDE DEF j
  <2>3. Phase(j) = "waiting" /\ Phase(j)' = "started"
    BY <2>1, <2>2 DEF IInv, TypeOK, Phase
  <2>4. \A i \in Job \ {j} : Phase(i)' = Phase(i) /\ run'[i] = run[i]
    BY <2>1, <2>2 DEF IInv, TypeOK, Phase
  <2>5. \A i \in Job : job'[i] \in Terminal <=> job[i] \in Terminal
    BY <2>1, <2>2 DEF IInv, TypeOK, Terminal
  <2>6. run'[j] # 0
    BY <2>1, <2>2 DEF IInv, TypeOK
  <2>7. [i \in Job |-> Phase(i)'] = [[i \in Job |-> Phase(i)] EXCEPT ![j] = "started"]
    BY <2>1, <2>3, <2>4
  <2>8. [i \in Job |-> IF run'[i] = 0 THEN 0 ELSE 1] =
          [[i \in Job |-> IF run[i] = 0 THEN 0 ELSE 1] EXCEPT ![j] = @ + 1]
    <3>. DEFINE starts == [i \in Job |-> IF run[i] = 0 THEN 0 ELSE 1]
    <3>1. starts[j] + 1 = 1
      BY <2>1
    <3>2. [starts EXCEPT ![j] = @ + 1] =
            [i \in Job |-> IF i = j THEN starts[j] + 1 ELSE starts[i]]
      BY <2>1, Zenon
    <3>3. \A i \in Job : (IF run'[i] = 0 THEN 0 ELSE 1) =
                          (IF i = j THEN starts[j] + 1 ELSE starts[i])
      BY <2>4, <2>6, <3>1
    <3>. QED BY <3>2, <3>3, Zenon
  <2>9. Lifecycle!Start(j)
    BY <2>1, <2>3, <2>5, <2>7, <2>8 DEF Lifecycle!Start
  <2>. QED BY <2>1, <2>9 DEF Lifecycle!Next
<1>. QED BY <1>1, <1>2

\* Every step is one of the lifecycle, or invisible there.
LEMMA LifecycleStep ==
    ASSUME IInv, [Next]_vars
    PROVE  Lifecycle!Next \/ UNCHANGED Lifecycle!lifecycleVars
<1>0. IInv'
  BY Preservation
<1>1. CASE UNCHANGED <<job, run>>
  BY <1>1 DEF Lifecycle!lifecycleVars, Phase
<1>2. CASE ReapExpired
  <2>1. Ends({j \in Job : job[j] = "running" /\ Reapable(j)})
    BY <1>2 DEF ReapExpired, Ends, Reapable, ReapedState, Held, Terminal, Phase,
       IInv, TypeOK
  <2>. QED BY <1>0, <2>1, Ending
<1>3. CASE Claim
  <2>1. \A j \in Job : job'[j] = job[j] \/ (job[j] = "queued" /\ job'[j] = "leased")
    BY <1>3 DEF Claim, IInv, TypeOK
  <2>2. Ends({})
    BY <1>3, <2>1 DEF Claim, Ends, Phase
  <2>. QED BY <1>0, <2>2, Ending
<1>4. ASSUME NEW k \in Leases, NEW outcome \in Terminal, End(k, outcome), Live(k)
      PROVE  Lifecycle!Next
  <2>1. JobOf(k) \in Job
    BY DEF Leases, JobOf
  <2>2. \A j \in Job : job'[j] = IF j = JobOf(k) THEN outcome ELSE job[j]
    BY <1>4, <2>1 DEF End, IInv, TypeOK
  <2>3. Ends({JobOf(k)})
    BY <1>4, <2>1, <2>2 DEF End, Ends, Live, Phase
  <2>. QED BY <1>0, <2>1, <2>3, Ending
<1>5. ASSUME NEW k \in Leases, \/ ApplyComplete(k, Outcome(k))
                               \/ ApplyFailUnstarted(k)
      PROVE  Lifecycle!Next \/ UNCHANGED <<job, run>>
  <2>1. Outcome(k) \in Terminal /\ "failed" \in Terminal
    BY DEF Outcome, Terminal
  <2>. QED
    BY <1>4, <1>5, <2>1 DEF ApplyComplete, ApplyFailUnstarted, Starts, store
<1>6. ASSUME NEW k \in Leases,
             \/ HeartbeatAnswered(k) \/ HeartbeatLost(k) \/ Executor(k)
             \/ StartUnanswered(k) \/ ReportUnanswered(k) \/ TimeOut(k)
             \/ AgentStarts(k) \/ AgentEnds(k) \/ WorkerEnds(k)
      PROVE  \/ UNCHANGED <<job, run>> \/ ApplyStart(k)
             \/ ApplyComplete(k, Outcome(k)) \/ ApplyFailUnstarted(k)
  BY <1>6
  DEF HeartbeatAnswered, HeartbeatLost, ApplyHeartbeat, Executor, Prepare,
      StartAnswered,
      StartGivenUp, FailBeforeStart, Launch, Look, Probe, ReportAnswered,
      StartUnanswered,
      ReportUnanswered, TimeOut, AbortLaunch, AgentStarts, AgentEnds, WorkerEnds, store
<1>. QED
  BY <1>1, <1>2, <1>3, <1>5, <1>6, Accepting, Starting
  DEF Next, vars, store, Submit, LoseAnswer, BeginRound, Tick, Late, Advance, Pause,
      Resume, Disconnect, Reconnect, StopRunner, StartRunner

\* What the runner drives is what JobLifecycle allows, leases, lost answers,
\* expiry and restarts included: a job waits, is started at most once and ends
\* once (store.claim, mark_started, complete_job and Reaper as daemon.py and
\* executor.py use them).
THEOREM LifecycleIsKept == Spec => RunnerKeepsLifecycle
<1>1. Init => Lifecycle!Init
  <2>. SUFFICES ASSUME Init PROVE Lifecycle!Init
    OBVIOUS
  <2>1. \A j \in Job : Phase(j) = "none" /\ run[j] = 0 /\ job[j] \notin Terminal
    BY DEF Init, Phase, Terminal
  <2>. QED BY <2>1 DEF Lifecycle!Init
<1>2. IInv /\ [Next]_vars => [Lifecycle!Next]_(Lifecycle!lifecycleVars)
  BY LifecycleStep
<1>. QED
  BY <1>1, <1>2, Invariance, PTL DEF Spec, RunnerKeepsLifecycle, Lifecycle!Spec

================================================================================
