------------------------------ MODULE ProviderRun ------------------------------
(***************************************************************************)
(* The worker: the wrapper process that carries out one request, by one or *)
(* more runs of a provider's command line program.  A Claude request is    *)
(* one run.  A Pi request for a gpt model goes to the Headroom proxy       *)
(* first, and after a failure directly to Copilot: with the prompt where   *)
(* nothing was done yet, else as a continuation of the session.  Direct    *)
(* runs that fail to authenticate are made again, three in all.  Pi runs   *)
(* of all workers are launched one at a time, under pi.lock, until the     *)
(* run is past its authentication.  One deadline holds for all runs of a   *)
(* request.                                                                *)
(*                                                                         *)
(* Of a run's output the model keeps what the collector decides by: a tool *)
(* was started, a line was unreadable, "No API key" was seen, how the last *)
(* turn ended, and whether Pi said that its work has ended and settled.    *)
(* What the watcher does with the result is LocalCycle's.                  *)
(***************************************************************************)
EXTENDS Integers, FiniteSets

CONSTANTS
    Request,    \* requests, each in a worker of its own
    Routes,     \* what they may be: the kind of their route ("none": there is no such
                \* request), whether they start a session
    Attempts,   \* bound: how often a direct run of a request is made; the code has 3
    MaxDeaths,  \* bound: workers that die
    None

ASSUME ProviderAssumption ==
    /\ Routes \subseteq [Request -> [kind : {"claude", "direct", "gpt", "none"}, new : BOOLEAN]]
    /\ Attempts \in [Request -> Nat \ {0}]
    /\ MaxDeaths \in Nat
    /\ None \notin Request \cup {"tool", "unsafe", "success", "failure"}

VARIABLES
    request,    \* the requests
    lock,       \* pi.lock
    worker,     \* the worker: where it is, and the attempt it makes
    proc,       \* the provider's process group
    seen,       \* what the collector saw of this attempt
    session,    \* the session file, next to the snapshot taken before the first run
    late,       \* the deadline is over
    worked,     \* history: a tool was started in answer to the original prompt, of a
                \* request with a fallback
    deaths

vars == <<request, lock, worker, proc, seen, session, late, worked, deaths>>

Pi(r) == request[r].kind \in {"gpt", "direct"}
Fallible(r) == request[r].kind = "gpt"
At(r, pc) == worker[r].pc = pc
Over(r) == worker[r].pc \in {"done", "failed", "dead"}
Alive(r) == proc[r].st \in {"starting", "working"}

Nothing == [activity |-> None, auth |-> FALSE, outcome |-> None, guard |-> "off"]
NoProcess == [st |-> "none", code |-> 0, pipe |-> FALSE, spoke |-> FALSE,
              slow |-> FALSE, wrote |-> FALSE, stale |-> FALSE]

Init ==
    /\ request \in Routes
    /\ lock = None
    /\ worker = [r \in Request |->
         [pc |-> CASE request[r].kind = "none" -> "dead"
                   [] request[r].kind = "claude" -> "launch"
                   [] OTHER -> "lock",
          provider |-> IF request[r].kind = "gpt" THEN "headroom" ELSE request[r].kind,
          try |-> 1, prompt |-> "original", fresh |-> request[r].new, code |-> 0]]
    /\ proc = [r \in Request |-> NoProcess]
    /\ seen = [r \in Request |-> Nothing]
    /\ session = [r \in Request |-> "same"]
    /\ late = [r \in Request |-> FALSE]
    /\ worked = [r \in Request |-> FALSE]
    /\ deaths = 0

-----------------------------------------------------------------------------
(* The provider's process, and time *)

Outside == <<request, lock, worker, deaths>>

Headroom(r) == worker[r].provider = "headroom"

Starts(r) == [NoProcess EXCEPT !.st = "starting", !.pipe = TRUE]
Past(r, st) == [proc[r] EXCEPT !.st = st, !.slow = FALSE, !.stale = FALSE]

Authenticates(r) ==
    /\ proc[r].st = "starting"
    /\ proc' = [proc EXCEPT ![r] = Past(r, "working")]
    /\ UNCHANGED <<Outside, seen, session, late, worked>>

\* That a process spoke, and wrote its session, is kept where it decides
\* something.
Speaks(r) ==
    /\ proc[r].st = "working" /\ At(r, "launching")
    /\ proc' = [proc EXCEPT ![r].spoke = TRUE]
    /\ UNCHANGED <<Outside, seen, session, late, worked>>

Writes(r) ==
    /\ proc[r].st = "working"
    /\ IF Headroom(r) \/ worker[r].fresh
       THEN session' = [session EXCEPT ![r] = "changed"]
       ELSE UNCHANGED session
    /\ proc' = [proc EXCEPT ![r].wrote = At(r, "launching") /\ ~worker[r].fresh]
    /\ UNCHANGED <<Outside, seen, late, worked>>

\* The worker reads an event; the process that wrote it may have ended since.
Event(r) ==
    /\ worker[r].pc \in {"drain", "settling"}
    /\ proc[r].st \in {"working", "ended"} /\ proc[r].pipe
    /\ UNCHANGED <<Outside, proc, session, late>>

\* cancel_guard, and what any activity does to a guard.
Cancelled(sight) == [sight EXCEPT !.guard = "off", !.outcome = None]
Resumed(sight) == IF sight.guard = "off" THEN sight ELSE Cancelled(sight)

\* A tool starts; its event may be on a line that cannot be read.
StartsTool(r) ==
    /\ Event(r)
    /\ \/ seen' = [seen EXCEPT ![r] =
            [Resumed(@) EXCEPT !.activity = IF Headroom(r) THEN "tool" ELSE None]]
       \/ seen' = [seen EXCEPT ![r].activity = IF Headroom(r) /\ @ = None THEN "unsafe" ELSE @]
    /\ worked' = [worked EXCEPT ![r] = @ \/ (Fallible(r) /\ worker[r].prompt = "original")]

\* Pi starts a turn or a message, a message grows, or agent_end says that it
\* will retry.
GoesOn(r) ==
    /\ Pi(r) /\ Event(r)
    /\ seen[r] # Cancelled(seen[r])
    /\ seen' = [seen EXCEPT ![r] = Cancelled(@)]
    /\ UNCHANGED worked

Outcomes == {None, "success", "failure"}

\* Pi's turn ended (a message_end), well or not or to be continued: until its
\* work has ended that decides nothing, agent_end tells it anew.  Claude's
\* result.
EndsTurn(r) ==
    /\ Event(r)
    /\ Pi(r) => seen[r].guard # "off" \/ At(r, "settling")
    /\ \E outcome \in IF Pi(r) THEN Outcomes ELSE {"success"} :
         seen' = [seen EXCEPT ![r].outcome = outcome]
    /\ UNCHANGED worked

\* agent_end without a retry: Pi's work has ended.
EndsWork(r) ==
    /\ Pi(r) /\ Event(r)
    /\ \E outcome \in Outcomes :
         seen' = [seen EXCEPT ![r].outcome = outcome,
                              ![r].guard = IF @ = "off" THEN "ended" ELSE @]
    /\ UNCHANGED worked

\* agent_settled, after which Pi is to exit: from now on it has the grace.
SettlesDown(r) ==
    /\ Pi(r) /\ Event(r) /\ seen[r].guard = "ended"
    /\ seen' = [seen EXCEPT ![r].guard = "armed"]
    /\ UNCHANGED worked

\* The process ends, maybe with "No API key", maybe leaving descendants that
\* keep its output open.
Exits(r) ==
    /\ Alive(r)
    /\ \E code \in IF proc[r].st = "working" THEN {0, 1} ELSE {1} :
       \E pipe \in IF proc[r].st = "working" THEN {FALSE, proc[r].pipe} ELSE {FALSE} :
         proc' = [proc EXCEPT ![r] = [Past(r, "ended") EXCEPT !.code = code, !.pipe = pipe]]
    /\ \E auth \in {FALSE, worker[r].provider = "direct" /\ worker[r].try < Attempts[r]} :
         seen' = [seen EXCEPT ![r].auth = auth]
    /\ UNCHANGED <<Outside, session, late, worked>>

\* The last holder of the output closes it.
Closes(r) ==
    /\ proc[r].st \in {"working", "ended"} /\ proc[r].pipe
    /\ proc' = [proc EXCEPT ![r].pipe = FALSE]
    /\ UNCHANGED <<Outside, seen, session, late, worked>>

\* PI_LAUNCH_LOCK_SECONDS pass.
WindowPasses(r) ==
    /\ proc[r].st = "starting" /\ ~proc[r].slow
    /\ proc' = [proc EXCEPT ![r].slow = TRUE]
    /\ UNCHANGED <<Outside, seen, session, late, worked>>

DeadlinePasses(r) ==
    /\ ~late[r] /\ ~Over(r)
    /\ late' = [late EXCEPT ![r] = TRUE]
    /\ UNCHANGED <<Outside, proc, seen, session, worked>>

-----------------------------------------------------------------------------
(* Launching *)

\* run_provider_command
LaunchClaude(r) ==
    /\ At(r, "launch")
    /\ proc' = [proc EXCEPT ![r] = Starts(r)]
    /\ worker' = [worker EXCEPT ![r].pc = "drain"]
    /\ UNCHANGED <<request, lock, seen, session, late, worked, deaths>>

\* run_pi_provider_command: a new session that is there already (an earlier
\* attempt made it) ends the launch window at once.
TakeLock(r) ==
    /\ At(r, "lock") /\ lock = None
    /\ lock' = r
    /\ proc' = [proc EXCEPT ![r] =
         [Starts(r) EXCEPT !.stale = worker[r].fresh /\ session[r] = "changed"]]
    /\ worker' = [worker EXCEPT ![r].pc = "launching"]
    /\ UNCHANGED <<request, seen, session, late, worked, deaths>>

\* The worker reports and ends; of the request nothing else is kept.
Report(r, outcome) ==
    /\ worker' = [worker EXCEPT ![r] =
         [pc |-> outcome, provider |-> @.provider, try |-> 1, prompt |-> "original",
          fresh |-> FALSE, code |-> 0]]
    /\ seen' = [seen EXCEPT ![r] = Nothing]
    /\ session' = [session EXCEPT ![r] = "same"]
    /\ late' = [late EXCEPT ![r] = FALSE]
    /\ worked' = [worked EXCEPT ![r] = FALSE]

Fail(r) == Report(r, "failed")

Another(r, attempt) ==
    /\ worker' = [worker EXCEPT ![r] = attempt]
    /\ seen' = [seen EXCEPT ![r] = Nothing]
    /\ UNCHANGED <<session, late, worked>>

GiveUpOnLock(r) ==
    /\ At(r, "lock") /\ lock # None /\ late[r]
    /\ Fail(r)
    /\ UNCHANGED <<request, lock, proc, deaths>>

\* Mutation: any session file that is there counts, also of a resumed session.
ObservedAnyFile(r) == session[r] = "changed" \/ ~request[r].new

\* pi_session_observed, of the argv's session (pi_launch_observation_request).
Observed(r) == IF worker[r].fresh THEN session[r] = "changed" ELSE proc[r].wrote

\* wait_for_pi_launch_window
ReleaseLock(r) ==
    /\ At(r, "launching")
    /\ Observed(r) \/ proc[r].spoke \/ ~Alive(r) \/ proc[r].slow \/ late[r]
    /\ lock' = None
    /\ proc' = [proc EXCEPT ![r].spoke = FALSE, ![r].wrote = FALSE]
    /\ worker' = [worker EXCEPT ![r].pc = "drain"]
    /\ UNCHANGED <<request, seen, session, late, worked, deaths>>

-----------------------------------------------------------------------------
(* Draining: drain_process *)

\* kill_process_group, of a process that has ended and of one that has not.
Buried(r) == [proc EXCEPT ![r] = [NoProcess EXCEPT !.st = "ended"]]
Killed(r) == [proc EXCEPT ![r] = [NoProcess EXCEPT !.st = "killed"]]

\* What a failed attempt's last turn was decides nothing any more: the next
\* attempt, if there is one, cancels the guard.
Ended(r, code) ==
    /\ worker' = [worker EXCEPT ![r].pc = "over", ![r].code = code]
    /\ seen' = IF code = 0 THEN seen ELSE [seen EXCEPT ![r] = Cancelled(@)]

Settled(r) == Pi(r) /\ seen[r].guard = "armed"

\* Mutation: the exit code is all that counts.
CodeOfExit(r) == proc[r].code

\* A turn that failed counts where Pi settled after it.
Code(r) == IF Settled(r) /\ seen[r].outcome = "failure" THEN 1 ELSE proc[r].code

\* The output ends; the wait for the process has no limit.
Drained(r) ==
    /\ At(r, "drain") /\ ~proc[r].pipe /\ ~Alive(r)
    /\ Ended(r, Code(r))
    /\ proc' = Buried(r)
    /\ UNCHANGED <<request, lock, session, late, worked, deaths>>

\* Mutation: an attempt that has settled is waited for.
OverdueUnlessSettled(r) == late[r] /\ ~Settled(r)

Overdue(r) == late[r]

DrainExpires(r) ==
    /\ At(r, "drain") /\ proc[r].pipe /\ Overdue(r)
    /\ proc' = Killed(r)
    /\ Fail(r)
    /\ UNCHANGED <<request, lock, deaths>>

\* Pi has settled, the grace is over, and still the output is open, ...
GuardExpires(r) ==
    /\ At(r, "drain") /\ proc[r].pipe /\ ~late[r] /\ Settled(r)
    /\ worker' = [worker EXCEPT ![r].pc = "settling"]
    /\ UNCHANGED <<request, lock, proc, seen, session, late, worked, deaths>>

\* ... so it is killed; what it said until then is read, and counts.
DrainSettles(r) ==
    /\ At(r, "settling")
    /\ proc' = Killed(r)
    /\ Ended(r, IF seen[r].outcome = "success" THEN 0 ELSE 1)
    /\ UNCHANGED <<request, lock, session, late, worked, deaths>>

-----------------------------------------------------------------------------
(* What follows an attempt: run_pi_attempt, run_pi_request, run_claude_request *)

Failed(r) == At(r, "over") /\ worker[r].code # 0

\* pi_result wants the session's file, run_claude_request the result.
Usable(r) ==
    IF Pi(r) THEN ~worker[r].fresh \/ session[r] = "changed"
    ELSE seen[r].outcome = "success"

Conclude(r) ==
    /\ At(r, "over") /\ worker[r].code = 0
    /\ Report(r, IF Usable(r) THEN "done" ELSE "failed")
    /\ UNCHANGED <<request, lock, proc, deaths>>

Retries(r) ==
    worker[r].provider = "direct" /\ seen[r].auth /\ worker[r].try < Attempts[r]

\* The same command line is run again, after 25 seconds.
Retry(r) ==
    /\ Failed(r) /\ Retries(r)
    /\ IF late[r] THEN Fail(r)
       ELSE Another(r, [worker[r] EXCEPT !.pc = "lock", !.try = @ + 1, !.code = 0])
    /\ UNCHANGED <<request, lock, proc, deaths>>

\* Mutation: lines that could not be read are not thought of.
BlockedByTool(r) == seen[r].activity = "tool"

Blocked(r) == seen[r].activity # None

Fallback(r) ==
    /\ Failed(r) /\ worker[r].provider = "headroom"
    /\ IF late[r] \/ (session[r] = "same" /\ Blocked(r)) THEN Fail(r)
       ELSE Another(r,
              [worker[r] EXCEPT !.pc = "lock", !.provider = "direct", !.code = 0,
                 !.prompt = IF session[r] = "changed" THEN "continue" ELSE "original",
                 !.fresh = @ /\ session[r] = "same"])
    /\ UNCHANGED <<request, lock, proc, deaths>>

GiveUp(r) ==
    /\ Failed(r) /\ worker[r].provider # "headroom" /\ ~Retries(r)
    /\ Fail(r)
    /\ UNCHANGED <<request, lock, proc, deaths>>

\* The worker is killed: the system takes its lock back.  Its provider lives
\* on, and nobody reads what it says, ...
Die(r) ==
    /\ ~Over(r) /\ deaths < MaxDeaths
    /\ deaths' = deaths + 1
    /\ Report(r, "dead")
    /\ lock' = IF lock = r THEN None ELSE lock
    /\ proc' = [proc EXCEPT ![r] =
         [NoProcess EXCEPT !.st = IF Alive(r) THEN "orphaned" ELSE @]]
    /\ UNCHANGED request

\* ... until it ends, or the watcher heals the run and ends the provider's
\* group; a hosted executor never does.
OrphanEnds(r) ==
    /\ proc[r].st = "orphaned"
    /\ proc' = [proc EXCEPT ![r] = NoProcess]
    /\ UNCHANGED <<Outside, seen, session, late, worked>>

-----------------------------------------------------------------------------

Work(r) ==
    \/ LaunchClaude(r) \/ TakeLock(r) \/ GiveUpOnLock(r) \/ ReleaseLock(r)
    \/ Drained(r) \/ DrainExpires(r) \/ GuardExpires(r) \/ DrainSettles(r)
    \/ Conclude(r) \/ Retry(r) \/ Fallback(r) \/ GiveUp(r)

Process(r) ==
    \/ Authenticates(r) \/ Speaks(r) \/ Writes(r)
    \/ StartsTool(r) \/ GoesOn(r) \/ EndsTurn(r) \/ EndsWork(r) \/ SettlesDown(r)
    \/ Exits(r) \/ Closes(r)

Next ==
    \E r \in Request :
        \/ Work(r) \/ Process(r)
        \/ WindowPasses(r) \/ DeadlinePasses(r)
        \/ Die(r) \/ OrphanEnds(r)

Spec == Init /\ [][Next]_vars

\* Workers go on and time passes; of the providers nothing is assumed.
FairSpec ==
    /\ Spec
    /\ \A r \in Request : WF_vars(Work(r)) /\ WF_vars(DeadlinePasses(r))

-----------------------------------------------------------------------------
(* Properties *)

Workers ==
    [pc : {"launch", "lock", "launching", "drain", "settling", "over",
           "done", "failed", "dead"},
     provider : {"headroom", "direct", "claude", "none"}, try : Nat \ {0},
     prompt : {"original", "continue"}, fresh : BOOLEAN, code : {0, 1}]

Processes ==
    [st : {"none", "starting", "working", "ended", "killed", "orphaned"},
     code : {0, 1}, pipe : BOOLEAN,
     spoke : BOOLEAN, slow : BOOLEAN, wrote : BOOLEAN, stale : BOOLEAN]

Sightings ==
    [activity : {None, "tool", "unsafe"}, auth : BOOLEAN,
     outcome : Outcomes, guard : {"off", "ended", "armed"}]

TypeOK ==
    /\ request \in Routes
    /\ lock \in Request \cup {None}
    /\ worker \in [Request -> Workers]
    /\ proc \in [Request -> Processes]
    /\ seen \in [Request -> Sightings]
    /\ session \in [Request -> {"same", "changed"}]
    /\ late \in [Request -> BOOLEAN] /\ worked \in [Request -> BOOLEAN]
    /\ deaths \in 0..MaxDeaths

\* The fallback gives the original prompt to the other provider only where no
\* tool was started in answer to it, also where the event that would have told
\* so was lost (RUNBOOK.md:245-256).
FallbackIsSafe ==
    [][\A r \in Request :
         worker[r].provider = "headroom" /\ worker'[r].provider = "direct" =>
             (worker'[r].prompt = "original" => ~worked[r])]_vars

Launching(r) ==
    Pi(r) /\ proc[r].st = "starting"
    /\ ~proc[r].slow /\ ~proc[r].stale /\ ~late[r]

\* No two Pi processes authenticate at a time, of whatever request, attempts
\* and sessions, within the window the lock is held for.  (An attempt under a
\* session id that an earlier one left a file of is not protected, nor is the
\* process of a worker that died, which lost the lock.)
LaunchesAreSerialized ==
    \A r, s \in Request : Launching(r) /\ Launching(s) => r = s

\* A worker that reports an outcome leaves no provider process behind, however
\* the last attempt ended.
NothingOutlivesItsRequest ==
    \A r \in Request : worker[r].pc \in {"done", "failed"} => ~Alive(r)

\* Success is never reported of an attempt that Pi settled after a failed turn,
\* nor of one that was killed unless its last turn went well, whatever was said
\* in between and until the end; nor without the session that the next request
\* resumes.
Answered(r) ==
    IF Pi(r)
    THEN /\ Settled(r) => seen[r].outcome # "failure"
         /\ proc[r].st = "killed" => seen[r].outcome = "success"
         /\ worker[r].fresh => session[r] = "changed"
    ELSE seen[r].outcome = "success"

DoneMeansAnswered ==
    [][\A r \in Request : ~At(r, "done") /\ worker'[r].pc = "done" => Answered(r)]_vars

\* Every request comes to an end, with as many providers, retries and workers
\* waiting for the lock as there are: unless a process closes its output and
\* lives on, which the worker waits for without limit.
EveryRequestEnds ==
    \A r \in Request :
        <>Over(r) \/ <>[](At(r, "drain") /\ ~proc[r].pipe /\ Alive(r))

\* "It reuses the unchanged existing session and sends the original prompt
\* once" (RUNBOOK.md:248-249).
PromptIsSentOnce ==
    [][\A r \in Request : At(r, "lock") /\ lock' = r =>
         (worker[r].prompt = "original" => ~worked[r])]_vars

\* A last turn that ended with an error is a failure of the request, as in
\* test_pi_settled_error_that_exits_cleanly_still_requests_recovery
\* (tests/test_tmux_observability.py:576), also where Pi exits without settling.
FailedTurnsFail ==
    [][\A r \in Request : ~At(r, "done") /\ worker'[r].pc = "done" =>
         seen[r].outcome # "failure"]_vars

=============================================================================
