--------------------------- MODULE ProviderRun_proofs ---------------------------
(***************************************************************************)
(* What the workers keep, for any number of requests of any kind, any      *)
(* numbers of attempts and any number of workers that die.                 *)
(***************************************************************************)
EXTENDS ProviderRun, TLAPS

-----------------------------------------------------------------------------
(* The inductive invariant *)

\* Who is launching holds pi.lock.
LockIsHeld == \A r \in Request : At(r, "launching") <=> lock = r

\* Only direct runs are made again.
AttemptsAreBounded ==
    \A r \in Request :
        worker[r].try > 1 =>
            worker[r].provider = "direct" /\ worker[r].try <= Attempts[r]

\* A worker that launches nothing and reads nothing has no process; Claude's
\* runs are launched without the lock.
ProcessesHaveWorkers ==
    \A r \in Request :
        /\ ~Alive(r) \/ worker[r].pc \in {"launching", "drain", "settling"}
        /\ At(r, "launch") => ~Pi(r)

\* A process that is still starting has neither spoken nor written; the
\* session file it may find is an earlier one.
StartsAreSilent ==
    \A r \in Request : proc[r].st = "starting" =>
        /\ ~proc[r].spoke /\ ~proc[r].wrote
        /\ Pi(r) /\ worker[r].fresh /\ session[r] = "changed" => proc[r].stale

\* The launch window is not left while the lock protects it.
LaunchesHoldTheLock ==
    \A r \in Request : Launching(r) => lock = r

\* The exit code of an attempt that is over tells how its last turn ended, if
\* Pi settled after it or had to be killed.
CodesTell ==
    \A r \in Request : At(r, "over") /\ Pi(r) /\ worker[r].code = 0 =>
        /\ Settled(r) => seen[r].outcome # "failure"
        /\ proc[r].st = "killed" => seen[r].outcome = "success"

\* Of the provider with a fallback every tool leaves a trace.
ToolsLeaveTraces ==
    \A r \in Request : Headroom(r) /\ worked[r] => Blocked(r)

IInv ==
    /\ TypeOK
    /\ LockIsHeld
    /\ AttemptsAreBounded
    /\ ProcessesHaveWorkers
    /\ StartsAreSilent
    /\ LaunchesHoldTheLock
    /\ CodesTell
    /\ ToolsLeaveTraces

-----------------------------------------------------------------------------
(* Every step keeps the invariant *)

\* The codes of other attempts are left alone, and so is what they tell.
LEMMA CodesStay ==
    ASSUME CodesTell, NEW r \in Request, UNCHANGED request,
           \A s \in Request \ {r} :
               worker'[s] = worker[s] /\ proc'[s] = proc[s] /\ seen'[s] = seen[s],
           worker'[r].pc = "over" /\ worker'[r].code = 0 /\ Pi(r) =>
               /\ seen'[r].guard = "armed" => seen'[r].outcome # "failure"
               /\ proc'[r].st = "killed" => seen'[r].outcome = "success"
    PROVE  CodesTell'
BY DEF CodesTell, At, Pi, Settled

\* A worker that fails between two attempts.
LEMMA FailKeeps ==
    ASSUME IInv, NEW r \in Request, At(r, "over"), Fail(r),
           UNCHANGED <<request, lock, proc, deaths>>
    PROVE  IInv'
<1>1. /\ TypeOK /\ LockIsHeld /\ AttemptsAreBounded /\ ProcessesHaveWorkers
      /\ StartsAreSilent /\ LaunchesHoldTheLock /\ CodesTell /\ ToolsLeaveTraces
  BY DEF IInv
<1>2. /\ worker[r] \in Workers /\ proc[r] \in Processes /\ seen[r] \in Sightings
      /\ None \notin {"tool", "unsafe", "success", "failure"}
  BY <1>1, ProviderAssumption DEF TypeOK, ProviderAssumption
<1>3. TypeOK'
  BY <1>1 DEF Nothing, Report, Fail, Workers, Sightings, Outcomes, TypeOK
<1>4. LockIsHeld'
  BY <1>1 DEF At, Report, Fail, LockIsHeld
<1>5. AttemptsAreBounded'
  BY <1>1 DEF Report, Fail, AttemptsAreBounded
<1>6. ProcessesHaveWorkers'
  BY <1>1 DEF Pi, At, Alive, Report, Fail, ProcessesHaveWorkers
<1>7. StartsAreSilent'
  BY <1>1 DEF Pi, Report, Fail, StartsAreSilent
<1>8. LaunchesHoldTheLock'
  BY <1>1
  DEF Pi, At, Alive, Report, Fail, Launching, LockIsHeld, ProcessesHaveWorkers,
      LaunchesHoldTheLock
<1>9. CodesTell'
  <2>1. worker'[r].pc # "over" /\ UNCHANGED request
    BY <1>1 DEF Report, Fail, TypeOK
  <2>2. \A s \in Request \ {r} :
          worker'[s] = worker[s] /\ proc'[s] = proc[s] /\ seen'[s] = seen[s]
    BY <1>1 DEF Report, Fail
  <2>. QED BY <1>1, <2>1, <2>2, CodesStay
<1>10. ToolsLeaveTraces'
  BY <1>1 DEF Headroom, Report, Fail, Blocked, TypeOK, ToolsLeaveTraces
<1>. QED
  BY <1>3, <1>4, <1>5, <1>6, <1>7, <1>8, <1>9, <1>10 DEF IInv

\* A worker that makes another attempt, directly, waits for the lock first.
LEMMA AnotherKeeps ==
    ASSUME IInv, NEW r \in Request, At(r, "over"),
           NEW attempt \in Workers, Another(r, attempt),
           attempt.pc = "lock", attempt.provider = "direct",
           attempt.try <= Attempts[r],
           UNCHANGED <<request, lock, proc, deaths>>
    PROVE  IInv'
<1>1. /\ TypeOK /\ LockIsHeld /\ AttemptsAreBounded /\ ProcessesHaveWorkers
      /\ StartsAreSilent /\ LaunchesHoldTheLock /\ CodesTell /\ ToolsLeaveTraces
  BY DEF IInv
<1>2. /\ worker[r] \in Workers /\ proc[r] \in Processes /\ seen[r] \in Sightings
      /\ None \notin {"tool", "unsafe", "success", "failure"}
  BY <1>1, ProviderAssumption DEF TypeOK, ProviderAssumption
<1>3. TypeOK'
  BY <1>1 DEF Nothing, Another, Sightings, Outcomes, TypeOK
<1>4. LockIsHeld'
  BY <1>1 DEF At, Another, LockIsHeld
<1>5. AttemptsAreBounded'
  BY <1>1 DEF Another, AttemptsAreBounded
<1>6. ProcessesHaveWorkers'
  BY <1>1 DEF Pi, At, Alive, Another, ProcessesHaveWorkers
<1>7. StartsAreSilent'
  BY <1>1
  DEF Pi, At, Alive, Another, LockIsHeld, ProcessesHaveWorkers, StartsAreSilent
<1>8. LaunchesHoldTheLock'
  BY <1>1 DEF Pi, At, Another, Launching, LaunchesHoldTheLock
<1>9. CodesTell'
  <2>1. worker'[r].pc # "over"
    BY <1>1 DEF Another, TypeOK
  <2>2. \A s \in Request \ {r} :
          worker'[s] = worker[s] /\ proc'[s] = proc[s] /\ seen'[s] = seen[s]
    BY <1>1 DEF Another
  <2>. QED BY <1>1, <2>1, <2>2, CodesStay
<1>10. ToolsLeaveTraces'
  BY <1>1 DEF Headroom, Another, Blocked, TypeOK, ToolsLeaveTraces
<1>. QED
  BY <1>3, <1>4, <1>5, <1>6, <1>7, <1>8, <1>9, <1>10 DEF IInv


\* What a process does for itself, once it is past the window or as it gets
\* there, may change its session and little else.
LEMMA ProcessKeeps ==
    ASSUME IInv, NEW r \in Request, NEW p \in Processes,
           proc' = [proc EXCEPT ![r] = p], p.st \in {"working", "ended"}, Alive(r),
           session' = session \/ session' = [session EXCEPT ![r] = "changed"],
           NEW sight \in Sightings, seen' = [seen EXCEPT ![r] = sight],
           sight.activity = seen[r].activity,
           UNCHANGED <<request, lock, worker, deaths, late, worked>>
    PROVE  IInv'
<1>1. /\ TypeOK /\ LockIsHeld /\ AttemptsAreBounded /\ ProcessesHaveWorkers
      /\ StartsAreSilent /\ LaunchesHoldTheLock /\ CodesTell /\ ToolsLeaveTraces
  BY DEF IInv
<1>2. /\ worker[r] \in Workers /\ proc[r] \in Processes /\ seen[r] \in Sightings
      /\ None \notin {"tool", "unsafe", "success", "failure"}
  BY <1>1, ProviderAssumption DEF TypeOK, ProviderAssumption
<1>3. /\ proc' \in [Request -> Processes] /\ proc'[r] = p
      /\ session' \in [Request -> {"same", "changed"}]
      /\ seen' \in [Request -> Sightings] /\ seen'[r] = sight
      /\ \A s \in Request \ {r} :
           proc'[s] = proc[s] /\ session'[s] = session[s] /\ seen'[s] = seen[s]
  BY <1>1 DEF TypeOK
<1>4. TypeOK'
  BY <1>1, <1>3 DEF TypeOK
<1>5. LockIsHeld' /\ AttemptsAreBounded'
  BY <1>1 DEF At, LockIsHeld, AttemptsAreBounded
<1>6. ProcessesHaveWorkers'
  BY <1>1, <1>3 DEF Pi, At, Alive, ProcessesHaveWorkers
<1>7. StartsAreSilent'
  BY <1>1, <1>3 DEF Pi, StartsAreSilent
<1>8. LaunchesHoldTheLock'
  BY <1>1, <1>3 DEF Pi, Launching, LaunchesHoldTheLock
<1>9. CodesTell'
  BY <1>1, <1>3 DEF Pi, At, Alive, Settled, ProcessesHaveWorkers, CodesTell
<1>10. ToolsLeaveTraces'
  BY <1>1, <1>3 DEF Headroom, Blocked, ToolsLeaveTraces
<1>. QED
  BY <1>4, <1>5, <1>6, <1>7, <1>8, <1>9, <1>10 DEF IInv

\* A process that has authenticated is past the window; then it speaks and
\* writes its session.
LEMMA WorkingKeeps ==
    ASSUME IInv, NEW r \in Request, Authenticates(r) \/ Speaks(r) \/ Writes(r)
    PROVE  IInv'
<1>1. TypeOK /\ proc[r] \in Processes /\ seen[r] \in Sightings
  BY DEF IInv, TypeOK
<1>. DEFINE authenticated == Past(r, "working")
            spoken == [proc[r] EXCEPT !.spoke = TRUE]
            written == [proc[r] EXCEPT !.wrote = At(r, "launching") /\ ~worker[r].fresh]
<1>2. (At(r, "launching") /\ ~worker[r].fresh) \in BOOLEAN
  BY DEF At
<1>3. /\ authenticated \in Processes /\ authenticated.st = "working"
      /\ spoken \in Processes /\ spoken.st = proc[r].st
      /\ written \in Processes /\ written.st = proc[r].st
  BY <1>1, <1>2 DEF Past, Processes
<1>4. seen' = [seen EXCEPT ![r] = seen[r]]
  BY <1>1 DEF TypeOK, Authenticates, Speaks, Writes
<1>5. /\ UNCHANGED <<request, lock, worker, deaths, late, worked>>
      /\ session' = session \/ session' = [session EXCEPT ![r] = "changed"]
      /\ Alive(r)
  BY DEF Authenticates, Speaks, Writes, Outside, Alive
<1>6. \/ proc' = [proc EXCEPT ![r] = authenticated]
      \/ proc' = [proc EXCEPT ![r] = spoken] /\ proc[r].st = "working"
      \/ proc' = [proc EXCEPT ![r] = written] /\ proc[r].st = "working"
  BY DEF Authenticates, Speaks, Writes
<1>. HIDE DEF authenticated, spoken, written
<1>. QED BY <1>1, <1>3, <1>4, <1>5, <1>6, ProcessKeeps

\* A process ends by itself.
LEMMA ExitsKeeps ==
    ASSUME IInv, NEW r \in Request, Exits(r)
    PROVE  IInv'
<1>1. TypeOK /\ proc[r] \in Processes /\ seen[r] \in Sightings
  BY DEF IInv, TypeOK
<1>2. PICK code \in {0, 1}, pipe \in BOOLEAN :
        proc' = [proc EXCEPT ![r] = [Past(r, "ended") EXCEPT !.code = code, !.pipe = pipe]]
  BY <1>1 DEF Exits, Processes
<1>3. PICK auth \in BOOLEAN : seen' = [seen EXCEPT ![r].auth = auth]
  BY DEF Exits
<1>. DEFINE p == [Past(r, "ended") EXCEPT !.code = code, !.pipe = pipe]
            sight == [seen[r] EXCEPT !.auth = auth]
<1>4. p \in Processes /\ p.st = "ended"
  BY <1>1 DEF Past, Processes
<1>5. sight \in Sightings /\ sight.activity = seen[r].activity
  BY <1>1 DEF Sightings
<1>6. proc' = [proc EXCEPT ![r] = p] /\ seen' = [seen EXCEPT ![r] = sight]
  BY <1>2, <1>3
<1>7. UNCHANGED <<request, lock, worker, deaths, late, worked, session>> /\ Alive(r)
  BY DEF Exits, Outside
<1>. HIDE DEF p, sight
<1>. QED BY <1>4, <1>5, <1>6, <1>7, ProcessKeeps

-----------------------------------------------------------------------------
(* What the worker reads *)

\* An event is read of an attempt that is not over; of the provider with a
\* fallback it leaves the trace there is of a tool.
LEMMA EventKeeps ==
    ASSUME IInv, NEW r \in Request, Event(r),
           NEW sight \in Sightings, seen' = [seen EXCEPT ![r] = sight],
           worked' \in [Request -> BOOLEAN],
           \A s \in Request \ {r} : worked'[s] = worked[s],
           Headroom(r) /\ worked'[r] => sight.activity # None
    PROVE  IInv'
<1>1. /\ TypeOK /\ LockIsHeld /\ AttemptsAreBounded /\ ProcessesHaveWorkers
      /\ StartsAreSilent /\ LaunchesHoldTheLock /\ CodesTell /\ ToolsLeaveTraces
  BY DEF IInv
<1>2. /\ worker[r] \in Workers /\ proc[r] \in Processes /\ seen[r] \in Sightings
      /\ None \notin {"tool", "unsafe", "success", "failure"}
  BY <1>1, ProviderAssumption DEF TypeOK, ProviderAssumption
<1>3. /\ seen' \in [Request -> Sightings] /\ seen'[r] = sight
      /\ \A s \in Request \ {r} : seen'[s] = seen[s]
  BY <1>1 DEF TypeOK
<1>4. /\ UNCHANGED <<request, lock, worker, deaths, proc, session, late>>
      /\ ~At(r, "over")
  BY DEF Event, Outside, At
<1>5. TypeOK'
  BY <1>1, <1>3, <1>4 DEF TypeOK
<1>6. LockIsHeld' /\ AttemptsAreBounded' /\ ProcessesHaveWorkers' /\ StartsAreSilent'
  BY <1>1, <1>4
  DEF At, Pi, Alive, LockIsHeld, AttemptsAreBounded, ProcessesHaveWorkers,
      StartsAreSilent
<1>7. LaunchesHoldTheLock'
  BY <1>1, <1>4 DEF Pi, Launching, LaunchesHoldTheLock
<1>8. CodesTell'
  BY <1>1, <1>3, <1>4 DEF Pi, At, Settled, CodesTell
<1>9. ToolsLeaveTraces'
  BY <1>1, <1>3, <1>4 DEF Headroom, Blocked, ToolsLeaveTraces
<1>. QED
  BY <1>5, <1>6, <1>7, <1>8, <1>9 DEF IInv

\* Of a tool at the provider with a fallback there is a trace.
LEMMA StartsToolKeeps ==
    ASSUME IInv, NEW r \in Request, StartsTool(r)
    PROVE  IInv'
<1>1. /\ seen[r] \in Sightings /\ worked \in [Request -> BOOLEAN]
      /\ None \notin {"tool", "unsafe"}
  BY ProviderAssumption DEF IInv, TypeOK, ProviderAssumption
<1>. DEFINE read == [Resumed(seen[r]) EXCEPT !.activity = IF Headroom(r) THEN "tool" ELSE None]
            unread == [seen[r] EXCEPT
               !.activity = IF Headroom(r) /\ @ = None THEN "unsafe" ELSE @]
<1>2. Resumed(seen[r]) \in Sightings
  BY <1>1 DEF Resumed, Cancelled, Sightings, Outcomes
<1>3. read \in Sightings /\ unread \in Sightings
  BY <1>1, <1>2 DEF Sightings
<1>4. Headroom(r) => read.activity # None /\ unread.activity # None
  BY <1>1, <1>2 DEF Sightings
<1>5. seen' = [seen EXCEPT ![r] = read] \/ seen' = [seen EXCEPT ![r] = unread]
  BY DEF StartsTool
<1>6. worked' \in [Request -> BOOLEAN] /\ \A s \in Request \ {r} : worked'[s] = worked[s]
  <2>1. (worked[r] \/ (Fallible(r) /\ worker[r].prompt = "original")) \in BOOLEAN
    BY DEF Fallible
  <2>. QED BY <1>1, <2>1 DEF StartsTool
<1>7. Event(r)
  BY DEF StartsTool
<1>. HIDE DEF read, unread
<1>. QED BY <1>3, <1>4, <1>5, <1>6, <1>7, EventKeeps

\* What Pi says of its turns and its work leaves the trace there is of a tool.
LEMMA TurnKeeps ==
    ASSUME IInv, NEW r \in Request,
           GoesOn(r) \/ EndsTurn(r) \/ EndsWork(r) \/ SettlesDown(r)
    PROVE  IInv'
<1>1. /\ seen[r] \in Sightings /\ worked \in [Request -> BOOLEAN]
      /\ Event(r) /\ UNCHANGED worked
  BY DEF IInv, TypeOK, GoesOn, EndsTurn, EndsWork, SettlesDown
<1>2. Headroom(r) /\ worked'[r] => seen[r].activity # None
  BY <1>1 DEF IInv, ToolsLeaveTraces, Blocked
<1>3. ASSUME NEW sight \in Sightings, seen' = [seen EXCEPT ![r] = sight],
             sight.activity = seen[r].activity
      PROVE  IInv'
  BY <1>1, <1>2, <1>3, EventKeeps
<1>4. CASE GoesOn(r)
  <2>. DEFINE sight == Cancelled(seen[r])
  <2>1. sight \in Sightings /\ sight.activity = seen[r].activity
    BY <1>1 DEF Cancelled, Sightings, Outcomes
  <2>2. seen' = [seen EXCEPT ![r] = sight]
    BY <1>4 DEF GoesOn
  <2>. HIDE DEF sight
  <2>. QED BY <1>3, <2>1, <2>2
<1>5. CASE EndsTurn(r)
  <2>1. PICK outcome \in Outcomes : seen' = [seen EXCEPT ![r].outcome = outcome]
    BY <1>5 DEF EndsTurn, Outcomes
  <2>. DEFINE sight == [seen[r] EXCEPT !.outcome = outcome]
  <2>2. sight \in Sightings /\ sight.activity = seen[r].activity
    BY <1>1 DEF Sightings
  <2>3. seen' = [seen EXCEPT ![r] = sight]
    BY <2>1
  <2>. HIDE DEF sight
  <2>. QED BY <1>3, <2>2, <2>3
<1>6. CASE EndsWork(r)
  <2>1. PICK outcome \in Outcomes :
          seen' = [seen EXCEPT ![r].outcome = outcome,
                               ![r].guard = IF @ = "off" THEN "ended" ELSE @]
    BY <1>6 DEF EndsWork
  <2>. DEFINE sight == [seen[r] EXCEPT !.outcome = outcome,
                                      !.guard = IF @ = "off" THEN "ended" ELSE @]
  <2>2. sight \in Sightings /\ sight.activity = seen[r].activity
    BY <1>1 DEF Sightings
  <2>3. seen' = [seen EXCEPT ![r] = sight]
    BY <1>1, <2>1 DEF IInv, TypeOK
  <2>. HIDE DEF sight
  <2>. QED BY <1>3, <2>2, <2>3
<1>7. CASE SettlesDown(r)
  <2>. DEFINE sight == [seen[r] EXCEPT !.guard = "armed"]
  <2>1. sight \in Sightings /\ sight.activity = seen[r].activity
    BY <1>1 DEF Sightings
  <2>2. seen' = [seen EXCEPT ![r] = sight]
    BY <1>7 DEF SettlesDown
  <2>. HIDE DEF sight
  <2>. QED BY <1>3, <2>1, <2>2
<1>. QED BY <1>4, <1>5, <1>6, <1>7

-----------------------------------------------------------------------------
(* The output, time and the launch *)

\* The output is closed.
LEMMA ClosesKeeps ==
    ASSUME IInv, NEW r \in Request, Closes(r)
    PROVE  IInv'
<1>1. /\ TypeOK /\ LockIsHeld /\ AttemptsAreBounded /\ ProcessesHaveWorkers
      /\ StartsAreSilent /\ LaunchesHoldTheLock /\ CodesTell /\ ToolsLeaveTraces
  BY DEF IInv
<1>2. /\ worker[r] \in Workers /\ proc[r] \in Processes /\ seen[r] \in Sightings
      /\ None \notin {"tool", "unsafe", "success", "failure"}
  BY <1>1, ProviderAssumption DEF TypeOK, ProviderAssumption
<1>3. TypeOK'
  <2>1. proc' \in [Request -> Processes]
    <3>. DEFINE new == [proc[r] EXCEPT !.pipe = FALSE]
    <3>1. new \in Processes
      BY <1>2 DEF Processes
    <3>2. proc' = [proc EXCEPT ![r] = new]
      BY DEF Closes
    <3>. HIDE DEF new
    <3>. QED BY <1>1, <3>1, <3>2 DEF TypeOK
  <2>. QED
    BY <1>1, <2>1 DEF Closes, TypeOK, Outside
<1>4. LockIsHeld'
  BY <1>1 DEF At, Outside, Closes, LockIsHeld
<1>5. AttemptsAreBounded'
  BY <1>1 DEF Outside, Closes, AttemptsAreBounded
<1>6. ProcessesHaveWorkers'
  BY <1>1 DEF Pi, At, Alive, Outside, Closes, ProcessesHaveWorkers
<1>7. StartsAreSilent'
  BY <1>1 DEF Pi, Outside, Closes, StartsAreSilent
<1>8. LaunchesHoldTheLock'
  BY <1>1 DEF Pi, At, Outside, Closes, Launching, LaunchesHoldTheLock
<1>9. CodesTell'
  BY <1>1 DEF Settled, Pi, At, Outside, Closes, CodesTell
<1>10. ToolsLeaveTraces'
  BY <1>1 DEF Outside, Headroom, Closes, Blocked, ToolsLeaveTraces
<1>. QED
  BY <1>3, <1>4, <1>5, <1>6, <1>7, <1>8, <1>9, <1>10 DEF IInv

\* The launch window passes.
LEMMA WindowPassesKeeps ==
    ASSUME IInv, NEW r \in Request, WindowPasses(r)
    PROVE  IInv'
<1>1. /\ TypeOK /\ LockIsHeld /\ AttemptsAreBounded /\ ProcessesHaveWorkers
      /\ StartsAreSilent /\ LaunchesHoldTheLock /\ CodesTell /\ ToolsLeaveTraces
  BY DEF IInv
<1>2. /\ worker[r] \in Workers /\ proc[r] \in Processes /\ seen[r] \in Sightings
      /\ None \notin {"tool", "unsafe", "success", "failure"}
  BY <1>1, ProviderAssumption DEF TypeOK, ProviderAssumption
<1>3. TypeOK'
  <2>1. proc' \in [Request -> Processes]
    <3>. DEFINE new == [proc[r] EXCEPT !.slow = TRUE]
    <3>1. new \in Processes
      BY <1>2 DEF Processes
    <3>2. proc' = [proc EXCEPT ![r] = new]
      BY DEF WindowPasses
    <3>. HIDE DEF new
    <3>. QED BY <1>1, <3>1, <3>2 DEF TypeOK
  <2>. QED
    BY <1>1, <2>1 DEF WindowPasses, TypeOK, Outside
<1>4. LockIsHeld'
  BY <1>1 DEF At, Outside, WindowPasses, LockIsHeld
<1>5. AttemptsAreBounded'
  BY <1>1 DEF Outside, WindowPasses, AttemptsAreBounded
<1>6. ProcessesHaveWorkers'
  BY <1>1 DEF Pi, At, Alive, Outside, WindowPasses, ProcessesHaveWorkers
<1>7. StartsAreSilent'
  BY <1>1 DEF Pi, Outside, WindowPasses, StartsAreSilent
<1>8. LaunchesHoldTheLock'
  BY <1>1 DEF Pi, At, Outside, WindowPasses, Launching, LaunchesHoldTheLock
<1>9. CodesTell'
  BY <1>1 DEF Settled, Pi, At, Outside, WindowPasses, CodesTell
<1>10. ToolsLeaveTraces'
  BY <1>1 DEF Outside, Headroom, WindowPasses, Blocked, ToolsLeaveTraces
<1>. QED
  BY <1>3, <1>4, <1>5, <1>6, <1>7, <1>8, <1>9, <1>10 DEF IInv

\* The deadline passes.
LEMMA DeadlinePassesKeeps ==
    ASSUME IInv, NEW r \in Request, DeadlinePasses(r)
    PROVE  IInv'
<1>1. /\ TypeOK /\ LockIsHeld /\ AttemptsAreBounded /\ ProcessesHaveWorkers
      /\ StartsAreSilent /\ LaunchesHoldTheLock /\ CodesTell /\ ToolsLeaveTraces
  BY DEF IInv
<1>2. /\ worker[r] \in Workers /\ proc[r] \in Processes /\ seen[r] \in Sightings
      /\ None \notin {"tool", "unsafe", "success", "failure"}
  BY <1>1, ProviderAssumption DEF TypeOK, ProviderAssumption
<1>3. TypeOK'
  BY <1>1 DEF Outside, DeadlinePasses, TypeOK
<1>4. LockIsHeld'
  BY <1>1 DEF At, Outside, DeadlinePasses, LockIsHeld
<1>5. AttemptsAreBounded'
  BY <1>1 DEF Outside, DeadlinePasses, AttemptsAreBounded
<1>6. ProcessesHaveWorkers'
  BY <1>1 DEF Pi, At, Alive, Outside, DeadlinePasses, ProcessesHaveWorkers
<1>7. StartsAreSilent'
  BY <1>1 DEF Pi, Outside, DeadlinePasses, StartsAreSilent
<1>8. LaunchesHoldTheLock'
  BY <1>1 DEF Pi, At, Outside, DeadlinePasses, Launching, LaunchesHoldTheLock
<1>9. CodesTell'
  BY <1>1 DEF Settled, Pi, At, Outside, DeadlinePasses, CodesTell
<1>10. ToolsLeaveTraces'
  BY <1>1 DEF Outside, Headroom, DeadlinePasses, Blocked, ToolsLeaveTraces
<1>. QED
  BY <1>3, <1>4, <1>5, <1>6, <1>7, <1>8, <1>9, <1>10 DEF IInv

\* A run of Claude needs no lock.
LEMMA LaunchClaudeKeeps ==
    ASSUME IInv, NEW r \in Request, LaunchClaude(r)
    PROVE  IInv'
<1>1. /\ TypeOK /\ LockIsHeld /\ AttemptsAreBounded /\ ProcessesHaveWorkers
      /\ StartsAreSilent /\ LaunchesHoldTheLock /\ CodesTell /\ ToolsLeaveTraces
  BY DEF IInv
<1>2. /\ worker[r] \in Workers /\ proc[r] \in Processes /\ seen[r] \in Sightings
      /\ None \notin {"tool", "unsafe", "success", "failure"}
  BY <1>1, ProviderAssumption DEF TypeOK, ProviderAssumption
<1>3. TypeOK'
  <2>1. proc' \in [Request -> Processes]
    <3>. DEFINE new == Starts(r)
    <3>1. new \in Processes
      BY <1>2 DEF Processes, Starts, NoProcess
    <3>2. proc' = [proc EXCEPT ![r] = new]
      BY DEF LaunchClaude
    <3>. HIDE DEF new
    <3>. QED BY <1>1, <3>1, <3>2 DEF TypeOK
  <2>2. worker' \in [Request -> Workers]
    <3>. DEFINE new == [worker[r] EXCEPT !.pc = "drain"]
    <3>1. new \in Workers
      BY <1>2 DEF Workers
    <3>2. worker' = [worker EXCEPT ![r] = new]
      BY DEF LaunchClaude
    <3>. HIDE DEF new
    <3>. QED BY <1>1, <3>1, <3>2 DEF TypeOK
  <2>. QED
    BY <1>1, <2>1, <2>2 DEF LaunchClaude, TypeOK
<1>4. LockIsHeld'
  BY <1>1 DEF At, LaunchClaude, LockIsHeld
<1>5. AttemptsAreBounded'
  BY <1>1 DEF LaunchClaude, AttemptsAreBounded
<1>6. ProcessesHaveWorkers'
  BY <1>1 DEF Pi, At, Alive, LaunchClaude, TypeOK, ProcessesHaveWorkers
<1>7. StartsAreSilent'
  BY <1>1
  DEF Pi, NoProcess, Starts, LaunchClaude, ProcessesHaveWorkers, StartsAreSilent
<1>8. LaunchesHoldTheLock'
  BY <1>1
  DEF Pi, At, LaunchClaude, Launching, ProcessesHaveWorkers, LaunchesHoldTheLock
<1>9. CodesTell'
  BY <1>1 DEF Settled, Pi, At, LaunchClaude, CodesTell
<1>10. ToolsLeaveTraces'
  BY <1>1 DEF Headroom, LaunchClaude, Blocked, ToolsLeaveTraces
<1>. QED
  BY <1>3, <1>4, <1>5, <1>6, <1>7, <1>8, <1>9, <1>10 DEF IInv

\* A run of Pi starts under the lock, without having spoken or written.
LEMMA TakeLockKeeps ==
    ASSUME IInv, NEW r \in Request, TakeLock(r)
    PROVE  IInv'
<1>1. /\ TypeOK /\ LockIsHeld /\ AttemptsAreBounded /\ ProcessesHaveWorkers
      /\ StartsAreSilent /\ LaunchesHoldTheLock /\ CodesTell /\ ToolsLeaveTraces
  BY DEF IInv
<1>2. /\ worker[r] \in Workers /\ proc[r] \in Processes /\ seen[r] \in Sightings
      /\ None \notin {"tool", "unsafe", "success", "failure"}
  BY <1>1, ProviderAssumption DEF TypeOK, ProviderAssumption
<1>3. TypeOK'
  <2>1. proc' \in [Request -> Processes]
    <3>. DEFINE new == [Starts(r) EXCEPT
                       !.stale = worker[r].fresh /\ session[r] = "changed"]
    <3>1. new \in Processes
      BY <1>2 DEF Processes, Starts, NoProcess
    <3>2. proc' = [proc EXCEPT ![r] = new]
      BY DEF TakeLock
    <3>. HIDE DEF new
    <3>. QED BY <1>1, <3>1, <3>2 DEF TypeOK
  <2>2. worker' \in [Request -> Workers]
    <3>. DEFINE new == [worker[r] EXCEPT !.pc = "launching"]
    <3>1. new \in Workers
      BY <1>2 DEF Workers
    <3>2. worker' = [worker EXCEPT ![r] = new]
      BY DEF TakeLock
    <3>. HIDE DEF new
    <3>. QED BY <1>1, <3>1, <3>2 DEF TypeOK
  <2>. QED
    BY <1>1, <2>1, <2>2 DEF TakeLock, TypeOK
<1>4. LockIsHeld'
  BY <1>1, ProviderAssumption DEF At, TakeLock, TypeOK, LockIsHeld
<1>5. AttemptsAreBounded'
  BY <1>1 DEF TakeLock, AttemptsAreBounded
<1>6. ProcessesHaveWorkers'
  BY <1>1 DEF Pi, At, Alive, TakeLock, TypeOK, ProcessesHaveWorkers
<1>7. StartsAreSilent'
  BY <1>1 DEF Pi, NoProcess, Starts, TakeLock, Workers, TypeOK, StartsAreSilent
<1>8. LaunchesHoldTheLock'
  BY <1>1, ProviderAssumption DEF Pi, At, TakeLock, Launching, LaunchesHoldTheLock
<1>9. CodesTell'
  BY <1>1 DEF Settled, Pi, At, TakeLock, CodesTell
<1>10. ToolsLeaveTraces'
  BY <1>1 DEF Headroom, TakeLock, Blocked, ToolsLeaveTraces
<1>. QED
  BY <1>3, <1>4, <1>5, <1>6, <1>7, <1>8, <1>9, <1>10 DEF IInv

\* A worker gives up on the lock.
LEMMA GiveUpOnLockKeeps ==
    ASSUME IInv, NEW r \in Request, GiveUpOnLock(r)
    PROVE  IInv'
<1>1. /\ TypeOK /\ LockIsHeld /\ AttemptsAreBounded /\ ProcessesHaveWorkers
      /\ StartsAreSilent /\ LaunchesHoldTheLock /\ CodesTell /\ ToolsLeaveTraces
  BY DEF IInv
<1>2. /\ worker[r] \in Workers /\ proc[r] \in Processes /\ seen[r] \in Sightings
      /\ None \notin {"tool", "unsafe", "success", "failure"}
  BY <1>1, ProviderAssumption DEF TypeOK, ProviderAssumption
<1>3. TypeOK'
  BY <1>1 DEF Nothing, Report, Fail, GiveUpOnLock, Workers, Sightings, Outcomes, TypeOK
<1>4. LockIsHeld'
  BY <1>1 DEF At, Report, Fail, GiveUpOnLock, LockIsHeld
<1>5. AttemptsAreBounded'
  BY <1>1 DEF Report, Fail, GiveUpOnLock, AttemptsAreBounded
<1>6. ProcessesHaveWorkers'
  BY <1>1 DEF Pi, At, Alive, Report, Fail, GiveUpOnLock, ProcessesHaveWorkers
<1>7. StartsAreSilent'
  BY <1>1 DEF Pi, Report, Fail, GiveUpOnLock, StartsAreSilent
<1>8. LaunchesHoldTheLock'
  BY <1>1
  DEF Pi, At, Alive, Report, Fail, GiveUpOnLock, Launching, LockIsHeld,
      ProcessesHaveWorkers, LaunchesHoldTheLock
<1>9. CodesTell'
  BY <1>1 DEF Settled, Pi, At, Report, Fail, GiveUpOnLock, CodesTell
<1>10. ToolsLeaveTraces'
  BY <1>1 DEF Headroom, Report, Fail, GiveUpOnLock, Blocked, TypeOK, ToolsLeaveTraces
<1>. QED
  BY <1>3, <1>4, <1>5, <1>6, <1>7, <1>8, <1>9, <1>10 DEF IInv

\* The lock is released for a run that is past the window.
LEMMA ReleaseLockKeeps ==
    ASSUME IInv, NEW r \in Request, ReleaseLock(r)
    PROVE  IInv'
<1>1. /\ TypeOK /\ LockIsHeld /\ AttemptsAreBounded /\ ProcessesHaveWorkers
      /\ StartsAreSilent /\ LaunchesHoldTheLock /\ CodesTell /\ ToolsLeaveTraces
  BY DEF IInv
<1>2. /\ worker[r] \in Workers /\ proc[r] \in Processes /\ seen[r] \in Sightings
      /\ None \notin {"tool", "unsafe", "success", "failure"}
  BY <1>1, ProviderAssumption DEF TypeOK, ProviderAssumption
<1>3. TypeOK'
  <2>1. proc' \in [Request -> Processes]
    <3>. DEFINE new == [proc[r] EXCEPT !.spoke = FALSE, !.wrote = FALSE]
    <3>1. new \in Processes
      BY <1>2 DEF Processes
    <3>2. proc' = [proc EXCEPT ![r] = new]
      BY DEF ReleaseLock
    <3>. HIDE DEF new
    <3>. QED BY <1>1, <3>1, <3>2 DEF TypeOK
  <2>2. worker' \in [Request -> Workers]
    <3>. DEFINE new == [worker[r] EXCEPT !.pc = "drain"]
    <3>1. new \in Workers
      BY <1>2 DEF Workers
    <3>2. worker' = [worker EXCEPT ![r] = new]
      BY DEF ReleaseLock
    <3>. HIDE DEF new
    <3>. QED BY <1>1, <3>1, <3>2 DEF TypeOK
  <2>. QED
    BY <1>1, <2>1, <2>2 DEF ReleaseLock, TypeOK
<1>4. LockIsHeld'
  BY <1>1, ProviderAssumption DEF At, ReleaseLock, TypeOK, LockIsHeld
<1>5. AttemptsAreBounded'
  BY <1>1 DEF ReleaseLock, AttemptsAreBounded
<1>6. ProcessesHaveWorkers'
  BY <1>1 DEF Pi, At, Alive, ReleaseLock, TypeOK, ProcessesHaveWorkers
<1>7. StartsAreSilent'
  BY <1>1 DEF Pi, ReleaseLock, TypeOK, StartsAreSilent
<1>8. LaunchesHoldTheLock'
  BY <1>1
  DEF Pi, At, Alive, Observed, ReleaseLock, TypeOK, Launching, LockIsHeld,
      StartsAreSilent, LaunchesHoldTheLock
<1>9. CodesTell'
  <2>1. worker'[r].pc # "over" /\ UNCHANGED request
    BY <1>1 DEF ReleaseLock, TypeOK
  <2>2. \A s \in Request \ {r} :
          worker'[s] = worker[s] /\ proc'[s] = proc[s] /\ seen'[s] = seen[s]
    BY <1>1 DEF ReleaseLock, TypeOK
  <2>. QED BY <1>1, <2>1, <2>2, CodesStay
<1>10. ToolsLeaveTraces'
  BY <1>1 DEF Headroom, ReleaseLock, Blocked, ToolsLeaveTraces
<1>. QED
  BY <1>3, <1>4, <1>5, <1>6, <1>7, <1>8, <1>9, <1>10 DEF IInv

\* A run that ended is collected.
LEMMA DrainedKeeps ==
    ASSUME IInv, NEW r \in Request, Drained(r)
    PROVE  IInv'
<1>1. /\ TypeOK /\ LockIsHeld /\ AttemptsAreBounded /\ ProcessesHaveWorkers
      /\ StartsAreSilent /\ LaunchesHoldTheLock /\ CodesTell /\ ToolsLeaveTraces
  BY DEF IInv
<1>2. /\ worker[r] \in Workers /\ proc[r] \in Processes /\ seen[r] \in Sightings
      /\ None \notin {"tool", "unsafe", "success", "failure"}
  BY <1>1, ProviderAssumption DEF TypeOK, ProviderAssumption
<1>3. TypeOK'
  <2>1. proc' \in [Request -> Processes]
    <3>. DEFINE new == [NoProcess EXCEPT !.st = "ended"]
    <3>1. new \in Processes
      BY <1>2 DEF Processes, NoProcess
    <3>2. proc' = [proc EXCEPT ![r] = new]
      BY DEF Drained, Buried
    <3>. HIDE DEF new
    <3>. QED BY <1>1, <3>1, <3>2 DEF TypeOK
  <2>2. worker' \in [Request -> Workers]
    <3>. DEFINE new == [worker[r] EXCEPT !.pc = "over", !.code = Code(r)]
    <3>1. new \in Workers
      BY <1>2 DEF Workers, Code, Processes
    <3>2. worker' = [worker EXCEPT ![r] = new]
      BY DEF Drained, Ended
    <3>. HIDE DEF new
    <3>. QED BY <1>1, <3>1, <3>2 DEF TypeOK
  <2>3. seen' \in [Request -> Sightings]
    <3>. DEFINE new == Cancelled(seen[r])
    <3>1. new \in Sightings
      BY <1>2 DEF Sightings, Cancelled, Outcomes
    <3>2. seen' = seen \/ seen' = [seen EXCEPT ![r] = new]
      BY DEF Drained, Ended
    <3>. HIDE DEF new
    <3>. QED BY <1>1, <3>1, <3>2 DEF TypeOK
  <2>. QED
    BY <1>1, <2>1, <2>2, <2>3 DEF Drained, TypeOK
<1>4. LockIsHeld'
  BY <1>1 DEF At, Ended, Drained, TypeOK, LockIsHeld
<1>5. AttemptsAreBounded'
  BY <1>1 DEF Ended, Drained, TypeOK, AttemptsAreBounded
<1>6. ProcessesHaveWorkers'
  BY <1>1
  DEF Pi, At, Alive, NoProcess, Buried, Ended, Drained, TypeOK, ProcessesHaveWorkers
<1>7. StartsAreSilent'
  BY <1>1 DEF Pi, Buried, Ended, Drained, TypeOK, StartsAreSilent
<1>8. LaunchesHoldTheLock'
  BY <1>1 DEF Pi, At, Buried, Ended, Drained, TypeOK, Launching, LaunchesHoldTheLock
<1>9. CodesTell'
  <2>1. \A s \in Request \ {r} :
          worker'[s] = worker[s] /\ proc'[s] = proc[s] /\ seen'[s] = seen[s]
    BY <1>1 DEF Ended, Cancelled, Buried, Drained, TypeOK
  <2>2. proc'[r].st = "ended" /\ UNCHANGED request
    BY <1>1 DEF Buried, NoProcess, Drained, TypeOK
  <2>3. ASSUME worker'[r].code = 0, Pi(r)
        PROVE  /\ seen'[r] = seen[r]
               /\ Code(r) = 0
    BY <1>1, <1>2, <2>3 DEF Ended, Drained, TypeOK, Workers
  <2>4. ASSUME worker'[r].code = 0, Pi(r)
        PROVE  /\ seen'[r].guard = "armed" => seen'[r].outcome # "failure"
               /\ proc'[r].st = "killed" => seen'[r].outcome = "success"
    BY <2>2, <2>3, <2>4 DEF Code, Settled
  <2>. QED BY <1>1, <2>1, <2>2, <2>4, CodesStay
<1>10. ToolsLeaveTraces'
  <2>1. \A s \in Request : seen'[s].activity = seen[s].activity
    BY <1>1, <1>2 DEF Ended, Cancelled, Sightings, Drained, TypeOK
  <2>. QED
    BY <1>1, <2>1 DEF Headroom, Ended, Drained, Blocked, TypeOK, ToolsLeaveTraces
<1>. QED
  BY <1>3, <1>4, <1>5, <1>6, <1>7, <1>8, <1>9, <1>10 DEF IInv

\* The process of an overdue run is killed.
LEMMA DrainExpiresKeeps ==
    ASSUME IInv, NEW r \in Request, DrainExpires(r)
    PROVE  IInv'
<1>1. /\ TypeOK /\ LockIsHeld /\ AttemptsAreBounded /\ ProcessesHaveWorkers
      /\ StartsAreSilent /\ LaunchesHoldTheLock /\ CodesTell /\ ToolsLeaveTraces
  BY DEF IInv
<1>2. /\ worker[r] \in Workers /\ proc[r] \in Processes /\ seen[r] \in Sightings
      /\ None \notin {"tool", "unsafe", "success", "failure"}
  BY <1>1, ProviderAssumption DEF TypeOK, ProviderAssumption
<1>3. TypeOK'
  <2>1. proc' \in [Request -> Processes]
    <3>. DEFINE new == [NoProcess EXCEPT !.st = "killed"]
    <3>1. new \in Processes
      BY <1>2 DEF Processes, NoProcess
    <3>2. proc' = [proc EXCEPT ![r] = new]
      BY DEF DrainExpires, Killed
    <3>. HIDE DEF new
    <3>. QED BY <1>1, <3>1, <3>2 DEF TypeOK
  <2>2. worker' \in [Request -> Workers]
    <3>. DEFINE new == [pc |-> "failed", provider |-> worker[r].provider, try |-> 1,
                       prompt |-> "original", fresh |-> FALSE, code |-> 0]
    <3>1. new \in Workers
      BY <1>2 DEF Workers
    <3>2. worker' = [worker EXCEPT ![r] = new]
      BY DEF DrainExpires, Fail, Report
    <3>. HIDE DEF new
    <3>. QED BY <1>1, <3>1, <3>2 DEF TypeOK
  <2>3. seen' \in [Request -> Sightings]
    <3>. DEFINE new == Nothing
    <3>1. new \in Sightings
      BY <1>2 DEF Sightings, Outcomes, Nothing
    <3>2. seen' = [seen EXCEPT ![r] = new]
      BY DEF DrainExpires, Fail, Report
    <3>. HIDE DEF new
    <3>. QED BY <1>1, <3>1, <3>2 DEF TypeOK
  <2>. QED
    BY <1>1, <2>1, <2>2, <2>3 DEF DrainExpires, TypeOK, Fail, Report
<1>4. LockIsHeld'
  BY <1>1 DEF At, Report, Fail, DrainExpires, LockIsHeld
<1>5. AttemptsAreBounded'
  BY <1>1 DEF Report, Fail, DrainExpires, AttemptsAreBounded
<1>6. ProcessesHaveWorkers'
  BY <1>1
  DEF Pi, At, Alive, Report, Fail, Killed, DrainExpires, TypeOK, ProcessesHaveWorkers
<1>7. StartsAreSilent'
  BY <1>1 DEF Pi, Report, Fail, Killed, DrainExpires, StartsAreSilent
<1>8. LaunchesHoldTheLock'
  BY <1>1
  DEF Pi, At, Report, Fail, Killed, DrainExpires, TypeOK, Launching,
      LaunchesHoldTheLock
<1>9. CodesTell'
  <2>1. worker'[r].pc # "over" /\ UNCHANGED request
    BY <1>1 DEF Report, Fail, Killed, DrainExpires, TypeOK
  <2>2. \A s \in Request \ {r} :
          worker'[s] = worker[s] /\ proc'[s] = proc[s] /\ seen'[s] = seen[s]
    BY <1>1 DEF Report, Fail, Killed, DrainExpires
  <2>. QED BY <1>1, <2>1, <2>2, CodesStay
<1>10. ToolsLeaveTraces'
  BY <1>1 DEF Headroom, Report, Fail, DrainExpires, Blocked, TypeOK, ToolsLeaveTraces
<1>. QED
  BY <1>3, <1>4, <1>5, <1>6, <1>7, <1>8, <1>9, <1>10 DEF IInv

\* The grace of a run that settled passes.
LEMMA GuardExpiresKeeps ==
    ASSUME IInv, NEW r \in Request, GuardExpires(r)
    PROVE  IInv'
<1>1. /\ TypeOK /\ LockIsHeld /\ AttemptsAreBounded /\ ProcessesHaveWorkers
      /\ StartsAreSilent /\ LaunchesHoldTheLock /\ CodesTell /\ ToolsLeaveTraces
  BY DEF IInv
<1>2. /\ worker[r] \in Workers /\ proc[r] \in Processes /\ seen[r] \in Sightings
      /\ None \notin {"tool", "unsafe", "success", "failure"}
  BY <1>1, ProviderAssumption DEF TypeOK, ProviderAssumption
<1>3. TypeOK'
  <2>. DEFINE new == [worker[r] EXCEPT !.pc = "settling"]
  <2>1. new \in Workers
    BY <1>2 DEF Workers
  <2>2. worker' = [worker EXCEPT ![r] = new]
    BY DEF GuardExpires
  <2>. HIDE DEF new
  <2>. QED BY <1>1, <2>1, <2>2 DEF GuardExpires, TypeOK
<1>4. LockIsHeld'
  BY <1>1 DEF At, GuardExpires, LockIsHeld
<1>5. AttemptsAreBounded'
  BY <1>1 DEF GuardExpires, AttemptsAreBounded
<1>6. ProcessesHaveWorkers'
  BY <1>1 DEF Pi, At, Alive, GuardExpires, TypeOK, ProcessesHaveWorkers
<1>7. StartsAreSilent'
  BY <1>1 DEF Pi, GuardExpires, TypeOK, StartsAreSilent
<1>8. LaunchesHoldTheLock'
  BY <1>1 DEF Pi, GuardExpires, Launching, LaunchesHoldTheLock
<1>9. CodesTell'
  BY <1>1 DEF Settled, Pi, At, GuardExpires, CodesTell
<1>10. ToolsLeaveTraces'
  BY <1>1 DEF Headroom, GuardExpires, Blocked, ToolsLeaveTraces
<1>. QED
  BY <1>3, <1>4, <1>5, <1>6, <1>7, <1>8, <1>9, <1>10 DEF IInv

\* So is a run that settled and stays.
LEMMA DrainSettlesKeeps ==
    ASSUME IInv, NEW r \in Request, DrainSettles(r)
    PROVE  IInv'
<1>1. /\ TypeOK /\ LockIsHeld /\ AttemptsAreBounded /\ ProcessesHaveWorkers
      /\ StartsAreSilent /\ LaunchesHoldTheLock /\ CodesTell /\ ToolsLeaveTraces
  BY DEF IInv
<1>2. /\ worker[r] \in Workers /\ proc[r] \in Processes /\ seen[r] \in Sightings
      /\ None \notin {"tool", "unsafe", "success", "failure"}
  BY <1>1, ProviderAssumption DEF TypeOK, ProviderAssumption
<1>3. TypeOK'
  <2>1. proc' \in [Request -> Processes]
    <3>. DEFINE new == [NoProcess EXCEPT !.st = "killed"]
    <3>1. new \in Processes
      BY <1>2 DEF Processes, NoProcess
    <3>2. proc' = [proc EXCEPT ![r] = new]
      BY DEF DrainSettles, Killed
    <3>. HIDE DEF new
    <3>. QED BY <1>1, <3>1, <3>2 DEF TypeOK
  <2>2. worker' \in [Request -> Workers]
    <3>. DEFINE new == [worker[r] EXCEPT !.pc = "over",
                       !.code = IF seen[r].outcome = "success" THEN 0 ELSE 1]
    <3>1. new \in Workers
      BY <1>2 DEF Workers
    <3>2. worker' = [worker EXCEPT ![r] = new]
      BY DEF DrainSettles, Ended
    <3>. HIDE DEF new
    <3>. QED BY <1>1, <3>1, <3>2 DEF TypeOK
  <2>3. seen' \in [Request -> Sightings]
    <3>. DEFINE new == Cancelled(seen[r])
    <3>1. new \in Sightings
      BY <1>2 DEF Sightings, Cancelled, Outcomes
    <3>2. seen' = seen \/ seen' = [seen EXCEPT ![r] = new]
      BY DEF DrainSettles, Ended
    <3>. HIDE DEF new
    <3>. QED BY <1>1, <3>1, <3>2 DEF TypeOK
  <2>. QED
    BY <1>1, <2>1, <2>2, <2>3 DEF DrainSettles, TypeOK
<1>4. LockIsHeld'
  BY <1>1 DEF At, Ended, DrainSettles, TypeOK, LockIsHeld
<1>5. AttemptsAreBounded'
  BY <1>1 DEF Ended, DrainSettles, TypeOK, AttemptsAreBounded
<1>6. ProcessesHaveWorkers'
  BY <1>1
  DEF Pi, At, Alive, NoProcess, Killed, Ended, DrainSettles, TypeOK,
      ProcessesHaveWorkers
<1>7. StartsAreSilent'
  BY <1>1 DEF Pi, Killed, Ended, DrainSettles, TypeOK, StartsAreSilent
<1>8. LaunchesHoldTheLock'
  BY <1>1
  DEF Pi, At, Killed, Ended, DrainSettles, TypeOK, Launching, LaunchesHoldTheLock
<1>9. CodesTell'
  <2>1. \A s \in Request \ {r} :
          worker'[s] = worker[s] /\ proc'[s] = proc[s] /\ seen'[s] = seen[s]
    BY <1>1 DEF Ended, Cancelled, Killed, DrainSettles, TypeOK
  <2>2. proc'[r].st = "killed" /\ UNCHANGED request
    BY <1>1 DEF Killed, NoProcess, DrainSettles, TypeOK
  <2>3. ASSUME worker'[r].code = 0, Pi(r)
        PROVE  /\ seen'[r] = seen[r]
               /\ (IF seen[r].outcome = "success" THEN 0 ELSE 1) = 0
    BY <1>1, <1>2, <2>3 DEF Ended, DrainSettles, TypeOK, Workers
  <2>4. ASSUME worker'[r].code = 0, Pi(r)
        PROVE  /\ seen'[r].guard = "armed" => seen'[r].outcome # "failure"
               /\ proc'[r].st = "killed" => seen'[r].outcome = "success"
    BY <2>2, <2>3, <2>4 DEF Code, Settled
  <2>. QED BY <1>1, <2>1, <2>2, <2>4, CodesStay
<1>10. ToolsLeaveTraces'
  <2>1. \A s \in Request : seen'[s].activity = seen[s].activity
    BY <1>1, <1>2 DEF Ended, Cancelled, Sightings, DrainSettles, TypeOK
  <2>. QED
    BY <1>1, <2>1 DEF Headroom, Ended, DrainSettles, Blocked, TypeOK, ToolsLeaveTraces
<1>. QED
  BY <1>3, <1>4, <1>5, <1>6, <1>7, <1>8, <1>9, <1>10 DEF IInv

\* The request is done.
LEMMA ConcludeKeeps ==
    ASSUME IInv, NEW r \in Request, Conclude(r)
    PROVE  IInv'
<1>1. /\ TypeOK /\ LockIsHeld /\ AttemptsAreBounded /\ ProcessesHaveWorkers
      /\ StartsAreSilent /\ LaunchesHoldTheLock /\ CodesTell /\ ToolsLeaveTraces
  BY DEF IInv
<1>2. /\ worker[r] \in Workers /\ proc[r] \in Processes /\ seen[r] \in Sightings
      /\ None \notin {"tool", "unsafe", "success", "failure"}
  BY <1>1, ProviderAssumption DEF TypeOK, ProviderAssumption
<1>3. TypeOK'
  BY <1>1 DEF Nothing, Report, Conclude, Workers, Sightings, Outcomes, TypeOK
<1>4. LockIsHeld'
  BY <1>1 DEF At, Report, Conclude, LockIsHeld
<1>5. AttemptsAreBounded'
  BY <1>1 DEF Report, Conclude, AttemptsAreBounded
<1>6. ProcessesHaveWorkers'
  BY <1>1 DEF Pi, At, Alive, Report, Conclude, ProcessesHaveWorkers
<1>7. StartsAreSilent'
  BY <1>1 DEF Pi, Report, Conclude, StartsAreSilent
<1>8. LaunchesHoldTheLock'
  BY <1>1
  DEF Pi, At, Alive, Report, Conclude, Launching, LockIsHeld, ProcessesHaveWorkers,
      LaunchesHoldTheLock
<1>9. CodesTell'
  <2>1. worker'[r].pc # "over" /\ UNCHANGED request
    BY <1>1 DEF Report, Conclude, TypeOK
  <2>2. \A s \in Request \ {r} :
          worker'[s] = worker[s] /\ proc'[s] = proc[s] /\ seen'[s] = seen[s]
    BY <1>1 DEF Report, Conclude
  <2>. QED BY <1>1, <2>1, <2>2, CodesStay
<1>10. ToolsLeaveTraces'
  BY <1>1 DEF Headroom, Report, Conclude, Blocked, TypeOK, ToolsLeaveTraces
<1>. QED
  BY <1>3, <1>4, <1>5, <1>6, <1>7, <1>8, <1>9, <1>10 DEF IInv

\* A direct run that failed to authenticate is made again: no limit is passed.
LEMMA RetryKeeps ==
    ASSUME IInv, NEW r \in Request, Retry(r)
    PROVE  IInv'
<1>1. /\ TypeOK /\ LockIsHeld /\ AttemptsAreBounded /\ ProcessesHaveWorkers
      /\ StartsAreSilent /\ LaunchesHoldTheLock /\ CodesTell /\ ToolsLeaveTraces
  BY DEF IInv
<1>2. /\ At(r, "over") /\ worker[r] \in Workers /\ request \in Routes
      /\ UNCHANGED <<request, lock, proc, deaths>>
  BY <1>1 DEF TypeOK, Retry, Failed
<1>3. CASE late[r]
  BY <1>2, <1>3, FailKeeps DEF Retry
<1>4. CASE ~late[r]
  <2>. DEFINE attempt == [worker[r] EXCEPT !.pc = "lock", !.try = @ + 1, !.code = 0]
  <2>1. Another(r, attempt) /\ worker[r].provider = "direct"
        /\ worker[r].try < Attempts[r]
    BY <1>4 DEF Retry, Retries
  <2>2. worker[r].try + 1 \in Nat \ {0}
    BY <1>2 DEF Workers
  <2>3. /\ attempt \in Workers /\ attempt.pc = "lock" /\ attempt.provider = "direct"
        /\ attempt.try = worker[r].try + 1
    BY <1>2, <2>2, <2>1 DEF Workers
  <2>4. attempt.try <= Attempts[r]
    BY <1>2, <2>1, ProviderAssumption DEF Workers
  <2>. HIDE DEF attempt
  <2>. QED BY <1>2, <2>1, <2>3, <2>4, AnotherKeeps
<1>. QED BY <1>3, <1>4

\* The fallback is to a provider whose first attempt it is; where the session
\* was changed it is not a new one any more.
LEMMA FallbackKeeps ==
    ASSUME IInv, NEW r \in Request, Fallback(r)
    PROVE  IInv'
<1>1. /\ TypeOK /\ LockIsHeld /\ AttemptsAreBounded /\ ProcessesHaveWorkers
      /\ StartsAreSilent /\ LaunchesHoldTheLock /\ CodesTell /\ ToolsLeaveTraces
  BY DEF IInv
<1>2. /\ At(r, "over") /\ worker[r] \in Workers /\ worker[r].provider = "headroom"
      /\ UNCHANGED <<request, lock, proc, deaths>>
  BY <1>1 DEF TypeOK, Fallback, Failed
<1>3. CASE late[r] \/ (session[r] = "same" /\ Blocked(r))
  BY <1>2, <1>3, FailKeeps DEF Fallback
<1>4. CASE ~(late[r] \/ (session[r] = "same" /\ Blocked(r)))
  <2>. DEFINE attempt ==
         [worker[r] EXCEPT !.pc = "lock", !.provider = "direct", !.code = 0,
            !.prompt = IF session[r] = "changed" THEN "continue" ELSE "original",
            !.fresh = @ /\ session[r] = "same"]
  <2>1. Another(r, attempt)
    BY <1>4 DEF Fallback
  <2>2. /\ attempt \in Workers /\ attempt.pc = "lock" /\ attempt.provider = "direct"
        /\ attempt.try = worker[r].try
    BY <1>2 DEF Workers
  <2>3. worker[r].try <= 1
    BY <1>1, <1>2 DEF AttemptsAreBounded, Workers
  <2>4. attempt.try <= Attempts[r]
    BY <1>2, <2>3, ProviderAssumption DEF Workers
  <2>. HIDE DEF attempt
  <2>. QED BY <1>2, <2>1, <2>2, <2>4, AnotherKeeps
<1>. QED BY <1>3, <1>4

\* The request fails.
LEMMA GiveUpKeeps ==
    ASSUME IInv, NEW r \in Request, GiveUp(r)
    PROVE  IInv'
<1>1. /\ TypeOK /\ LockIsHeld /\ AttemptsAreBounded /\ ProcessesHaveWorkers
      /\ StartsAreSilent /\ LaunchesHoldTheLock /\ CodesTell /\ ToolsLeaveTraces
  BY DEF IInv
<1>2. /\ worker[r] \in Workers /\ proc[r] \in Processes /\ seen[r] \in Sightings
      /\ None \notin {"tool", "unsafe", "success", "failure"}
  BY <1>1, ProviderAssumption DEF TypeOK, ProviderAssumption
<1>3. TypeOK'
  BY <1>1 DEF Nothing, Report, Fail, GiveUp, Workers, Sightings, Outcomes, TypeOK
<1>4. LockIsHeld'
  BY <1>1 DEF At, Report, Fail, Failed, GiveUp, LockIsHeld
<1>5. AttemptsAreBounded'
  BY <1>1 DEF Report, Fail, GiveUp, AttemptsAreBounded
<1>6. ProcessesHaveWorkers'
  BY <1>1 DEF Pi, At, Alive, Report, Fail, Failed, GiveUp, ProcessesHaveWorkers
<1>7. StartsAreSilent'
  BY <1>1 DEF Pi, Report, Fail, GiveUp, StartsAreSilent
<1>8. LaunchesHoldTheLock'
  BY <1>1
  DEF Pi, At, Alive, Report, Fail, Failed, GiveUp, Launching, LockIsHeld,
      ProcessesHaveWorkers, LaunchesHoldTheLock
<1>9. CodesTell'
  <2>1. worker'[r].pc # "over" /\ UNCHANGED request
    BY <1>1 DEF Report, Fail, GiveUp, TypeOK
  <2>2. \A s \in Request \ {r} :
          worker'[s] = worker[s] /\ proc'[s] = proc[s] /\ seen'[s] = seen[s]
    BY <1>1 DEF Report, Fail, GiveUp
  <2>. QED BY <1>1, <2>1, <2>2, CodesStay
<1>10. ToolsLeaveTraces'
  BY <1>1 DEF Headroom, Report, Fail, Blocked, GiveUp, ToolsLeaveTraces
<1>. QED
  BY <1>3, <1>4, <1>5, <1>6, <1>7, <1>8, <1>9, <1>10 DEF IInv

\* A worker that dies loses its lock and leaves its process.
LEMMA DieKeeps ==
    ASSUME IInv, NEW r \in Request, Die(r)
    PROVE  IInv'
<1>1. /\ TypeOK /\ LockIsHeld /\ AttemptsAreBounded /\ ProcessesHaveWorkers
      /\ StartsAreSilent /\ LaunchesHoldTheLock /\ CodesTell /\ ToolsLeaveTraces
  BY DEF IInv
<1>2. /\ worker[r] \in Workers /\ proc[r] \in Processes /\ seen[r] \in Sightings
      /\ None \notin {"tool", "unsafe", "success", "failure"}
  BY <1>1, ProviderAssumption DEF TypeOK, ProviderAssumption
<1>3. TypeOK'
  <2>1. proc' \in [Request -> Processes]
    <3>. DEFINE new == [NoProcess EXCEPT !.st = IF Alive(r) THEN "orphaned" ELSE "none"]
    <3>1. new \in Processes
      BY DEF NoProcess, Processes
    <3>2. proc' = [proc EXCEPT ![r] = IF Alive(r) THEN new ELSE NoProcess]
      BY <1>1 DEF Die, NoProcess
    <3>3. NoProcess \in Processes
      BY DEF NoProcess, Processes
    <3>. HIDE DEF new
    <3>. QED BY <1>1, <3>1, <3>2, <3>3 DEF TypeOK
  <2>2. worker' \in [Request -> Workers]
    <3>. DEFINE new == [pc |-> "dead", provider |-> worker[r].provider, try |-> 1,
                       prompt |-> "original", fresh |-> FALSE, code |-> 0]
    <3>1. new \in Workers
      BY <1>2 DEF Workers
    <3>2. worker' = [worker EXCEPT ![r] = new]
      BY DEF Die, Report
    <3>. HIDE DEF new
    <3>. QED BY <1>1, <3>1, <3>2 DEF TypeOK
  <2>3. Nothing \in Sightings
    BY DEF Nothing, Sightings, Outcomes
  <2>4. seen' \in [Request -> Sightings]
    BY <1>1, <2>3 DEF Die, Report, TypeOK
  <2>5. lock' \in Request \cup {None} /\ deaths' \in 0..MaxDeaths
    BY <1>1, ProviderAssumption DEF Die, TypeOK, ProviderAssumption
  <2>. QED
    BY <1>1, <2>1, <2>2, <2>4, <2>5 DEF Die, Report, TypeOK
<1>4. LockIsHeld'
  BY <1>1, ProviderAssumption DEF At, Report, Die, TypeOK, LockIsHeld
<1>5. AttemptsAreBounded'
  BY <1>1 DEF Report, Die, AttemptsAreBounded
<1>6. ProcessesHaveWorkers'
  BY <1>1 DEF Pi, At, Alive, NoProcess, Report, Die, TypeOK, ProcessesHaveWorkers
<1>7. StartsAreSilent'
  BY <1>1 DEF Pi, NoProcess, Report, Die, StartsAreSilent
<1>8. LaunchesHoldTheLock'
  <2>1. ~Launching(r)' /\ UNCHANGED request
    BY <1>1 DEF Die, NoProcess, Alive, Launching, TypeOK
  <2>2. ASSUME NEW s \in Request \ {r}, Launching(s)'
        PROVE  Launching(s) /\ (lock = s => lock' = s)
    <3>1. proc'[s] = proc[s] /\ late'[s] = late[s]
      BY DEF Die, Report
    <3>2. lock' = lock \/ lock = r
      BY DEF Die
    <3>. QED BY <2>1, <2>2, <3>1, <3>2 DEF Launching, Pi
  <2>. QED BY <1>1, <2>1, <2>2 DEF LaunchesHoldTheLock
<1>9. CodesTell'
  <2>1. worker'[r].pc # "over" /\ UNCHANGED request
    BY <1>1 DEF Report, Die, TypeOK
  <2>2. \A s \in Request \ {r} :
          worker'[s] = worker[s] /\ proc'[s] = proc[s] /\ seen'[s] = seen[s]
    BY <1>1 DEF Report, Die
  <2>. QED BY <1>1, <2>1, <2>2, CodesStay
<1>10. ToolsLeaveTraces'
  BY <1>1 DEF Headroom, Report, Blocked, Die, TypeOK, ToolsLeaveTraces
<1>. QED
  BY <1>3, <1>4, <1>5, <1>6, <1>7, <1>8, <1>9, <1>10 DEF IInv

\* An orphan ends.
LEMMA OrphanEndsKeeps ==
    ASSUME IInv, NEW r \in Request, OrphanEnds(r)
    PROVE  IInv'
<1>1. /\ TypeOK /\ LockIsHeld /\ AttemptsAreBounded /\ ProcessesHaveWorkers
      /\ StartsAreSilent /\ LaunchesHoldTheLock /\ CodesTell /\ ToolsLeaveTraces
  BY DEF IInv
<1>2. /\ worker[r] \in Workers /\ proc[r] \in Processes /\ seen[r] \in Sightings
      /\ None \notin {"tool", "unsafe", "success", "failure"}
  BY <1>1, ProviderAssumption DEF TypeOK, ProviderAssumption
<1>3. UNCHANGED <<request, lock, worker, deaths, seen, session, late, worked>>
  BY DEF OrphanEnds, Outside
<1>4. proc' \in [Request -> Processes]
  BY <1>1 DEF OrphanEnds, NoProcess, Processes, TypeOK
<1>5. TypeOK'
  BY <1>1, <1>3, <1>4 DEF TypeOK
<1>6. LockIsHeld' /\ AttemptsAreBounded' /\ ToolsLeaveTraces'
  BY <1>1, <1>3
  DEF At, Headroom, Blocked, LockIsHeld, AttemptsAreBounded, ToolsLeaveTraces
<1>7. ProcessesHaveWorkers'
  BY <1>1, <1>3 DEF Pi, At, Alive, OrphanEnds, NoProcess, TypeOK, ProcessesHaveWorkers
<1>8. StartsAreSilent'
  BY <1>1, <1>3 DEF Pi, OrphanEnds, NoProcess, TypeOK, StartsAreSilent
<1>9. LaunchesHoldTheLock'
  BY <1>1, <1>3 DEF Pi, OrphanEnds, NoProcess, TypeOK, Launching, LaunchesHoldTheLock
<1>10. CodesTell'
  BY <1>1, <1>3 DEF Settled, Pi, At, OrphanEnds, NoProcess, TypeOK, CodesTell
<1>. QED
  BY <1>5, <1>6, <1>7, <1>8, <1>9, <1>10 DEF IInv

\* What the module describes is typed to begin with: no request has started.
LEMMA Initially ==
    ASSUME Init
    PROVE  IInv
<1>1. request \in [Request -> [kind : {"claude", "direct", "gpt", "none"}, new : BOOLEAN]]
  BY ProviderAssumption DEF Init, ProviderAssumption
<1>2. NoProcess \in Processes /\ NoProcess.st = "none" /\ NoProcess.pipe = FALSE
  BY DEF NoProcess, Processes
<1>3. Nothing \in Sightings
  BY DEF Nothing, Sightings, Outcomes
<1>4. /\ proc \in [Request -> Processes] /\ seen \in [Request -> Sightings]
      /\ \A r \in Request : proc[r] = NoProcess
  BY <1>2, <1>3 DEF Init
<1>5. \A r \in Request :
        /\ worker[r] \in Workers /\ worker[r].try = 1
        /\ worker[r].pc \in {"dead", "launch", "lock"}
        /\ At(r, "launch") => ~Pi(r)
  BY <1>1 DEF Init, Workers, At, Pi
<1>6. worker \in [Request -> Workers]
  BY <1>5 DEF Init
<1>7. TypeOK
  BY <1>4, <1>6, ProviderAssumption DEF Init, TypeOK
<1>8. LockIsHeld
  BY ProviderAssumption DEF Init, LockIsHeld, At
<1>9. AttemptsAreBounded
  BY <1>5 DEF AttemptsAreBounded
<1>10. ProcessesHaveWorkers
  BY <1>2, <1>4, <1>5 DEF ProcessesHaveWorkers, Alive
<1>11. StartsAreSilent /\ LaunchesHoldTheLock
  BY <1>2, <1>4 DEF StartsAreSilent, LaunchesHoldTheLock, Launching
<1>12. CodesTell
  BY <1>5 DEF CodesTell, At
<1>13. ToolsLeaveTraces
  BY DEF Init, ToolsLeaveTraces
<1>. QED
  BY <1>7, <1>8, <1>9, <1>10, <1>11, <1>12, <1>13 DEF IInv

\* Every step keeps the invariant.
LEMMA Preservation ==
    ASSUME IInv, [Next]_vars
    PROVE  IInv'
<1>1. CASE UNCHANGED vars
  BY <1>1
  DEF vars, IInv, TypeOK, LockIsHeld, AttemptsAreBounded, ProcessesHaveWorkers,
      StartsAreSilent, LaunchesHoldTheLock, CodesTell, ToolsLeaveTraces, At, Pi,
      Settled, Alive, Launching, Headroom, Blocked
<1>2. CASE Next
  <2>1. PICK r \in Request :
          \/ Work(r) \/ Process(r)
          \/ WindowPasses(r) \/ DeadlinePasses(r)
          \/ Die(r) \/ OrphanEnds(r)
    BY <1>2 DEF Next
  <2>2. CASE Work(r)
    BY <2>2, LaunchClaudeKeeps, TakeLockKeeps, GiveUpOnLockKeeps, ReleaseLockKeeps,
       DrainedKeeps, DrainExpiresKeeps, GuardExpiresKeeps, DrainSettlesKeeps,
       ConcludeKeeps, RetryKeeps, FallbackKeeps, GiveUpKeeps
    DEF Work
  <2>3. CASE Process(r)
    BY <2>3, WorkingKeeps, StartsToolKeeps, TurnKeeps, ExitsKeeps, ClosesKeeps
    DEF Process
  <2>. QED
    BY <2>1, <2>2, <2>3, WindowPassesKeeps, DeadlinePassesKeeps, DieKeeps,
       OrphanEndsKeeps
<1>. QED BY <1>1, <1>2

-----------------------------------------------------------------------------
(* The theorems *)

\* The inductive invariant holds in every state of every behaviour.
THEOREM Invariance == Spec => []IInv
<1>1. Init => IInv
  BY Initially
<1>2. IInv /\ [Next]_vars => IInv'
  BY Preservation
<1>. QED BY <1>1, <1>2, PTL DEF Spec

\* Every variable keeps its type.
THEOREM TypeCorrect == Spec => []TypeOK
<1>1. IInv => TypeOK
  BY DEF IInv
<1>. QED BY <1>1, Invariance, PTL

\* No two Pi processes authenticate at a time within the window the lock is
\* held for: however many workers, attempts and deaths there are.
THEOREM OneLaunchAtATime == Spec => []LaunchesAreSerialized
<1>1. IInv => LaunchesAreSerialized
  BY DEF IInv, LaunchesHoldTheLock, LaunchesAreSerialized
<1>. QED BY <1>1, Invariance, PTL

\* A worker that reports an outcome leaves no provider process behind.
THEOREM NothingIsLeftBehind == Spec => []NothingOutlivesItsRequest
<1>1. IInv => NothingOutlivesItsRequest
  BY DEF IInv, ProcessesHaveWorkers, NothingOutlivesItsRequest
<1>. QED BY <1>1, Invariance, PTL

\* The steps that leave the provider of every worker as it is.
LEMMA ProvidersStay ==
    ASSUME IInv, NEW r \in Request, NEW s \in Request,
           \/ Work(r) \/ Process(r)
           \/ WindowPasses(r) \/ DeadlinePasses(r)
           \/ Die(r) \/ OrphanEnds(r),
           worker'[s].provider # worker[s].provider
    PROVE  s = r /\ Fallback(r)
<1>1. worker \in [Request -> Workers]
  BY DEF IInv, TypeOK
<1>2. ASSUME Process(r) \/ WindowPasses(r) \/ DeadlinePasses(r) \/ OrphanEnds(r)
      PROVE  FALSE
  BY <1>2
  DEF Process, Authenticates, Speaks, Writes, Event, StartsTool, GoesOn, EndsTurn,
      EndsWork, SettlesDown, Exits, Closes, WindowPasses, DeadlinePasses, OrphanEnds,
      Outside
<1>3. ASSUME NEW outcome, Report(r, outcome)
      PROVE  FALSE
  BY <1>1, <1>3 DEF Report, Workers
<1>4. ASSUME NEW pc, worker' = [worker EXCEPT ![r].pc = pc]
      PROVE  FALSE
  BY <1>1, <1>4 DEF Workers
<1>5. ASSUME NEW code, Ended(r, code)
      PROVE  FALSE
  BY <1>1, <1>5 DEF Ended, Workers
<1>6. ASSUME Retry(r)
      PROVE  FALSE
  <2>. DEFINE attempt == [worker[r] EXCEPT !.pc = "lock", !.try = @ + 1, !.code = 0]
  <2>1. Another(r, attempt)
    BY <1>3, <1>6 DEF Retry, Fail
  <2>2. attempt.provider = worker[r].provider
    BY <1>1 DEF Workers
  <2>. HIDE DEF attempt
  <2>. QED BY <1>1, <2>1, <2>2 DEF Another
<1>7. ASSUME Work(r), ~Retry(r), ~Fallback(r)
      PROVE  FALSE
  BY <1>3, <1>4, <1>5, <1>7
  DEF Work, LaunchClaude, TakeLock, GiveUpOnLock, ReleaseLock, Drained, DrainExpires,
      GuardExpires, DrainSettles, Conclude, GiveUp, Fail
<1>8. ASSUME Die(r)
      PROVE  FALSE
  BY <1>3, <1>8 DEF Die
<1>9. Fallback(r)
  BY <1>2, <1>6, <1>7, <1>8
<1>10. s = r
  BY <1>1, <1>9 DEF Fallback, Fail, Report, Another
<1>. QED BY <1>9, <1>10

\* The fallback gives the original prompt to the other provider only where no
\* tool was started in answer to it.
THEOREM SafeFallback == Spec => FallbackIsSafe
<1>. DEFINE Safe == \A r \in Request :
         worker[r].provider = "headroom" /\ worker'[r].provider = "direct" =>
             (worker'[r].prompt = "original" => ~worked[r])
<1>1. IInv /\ [Next]_vars => [Safe]_vars
  <2>. SUFFICES ASSUME IInv, Next, NEW r \in Request,
                       worker[r].provider = "headroom", worker'[r].provider = "direct",
                       worker'[r].prompt = "original"
                PROVE  ~worked[r]
    OBVIOUS
  <2>1. Fallback(r) /\ worker \in [Request -> Workers]
    BY ProvidersStay DEF Next, IInv, TypeOK
  <2>2. ~Fail(r)
    BY <2>1 DEF Fail, Report, Workers
  <2>3. /\ ~(session[r] = "same" /\ Blocked(r))
        /\ Another(r,
              [worker[r] EXCEPT !.pc = "lock", !.provider = "direct", !.code = 0,
                 !.prompt = IF session[r] = "changed" THEN "continue" ELSE "original",
                 !.fresh = @ /\ session[r] = "same"])
    BY <2>1, <2>2 DEF Fallback
  <2>4. session[r] # "changed" /\ session[r] \in {"same", "changed"}
    BY <2>3 DEF Another, IInv, TypeOK
  <2>. QED
    BY <2>3, <2>4 DEF IInv, ToolsLeaveTraces, Headroom
<1>. QED BY <1>1, Invariance, PTL DEF Spec, FallbackIsSafe

\* The only step by which a worker comes to be done.
LEMMA DoneByConclude ==
    ASSUME IInv, NEW r \in Request, NEW s \in Request,
           \/ Work(r) \/ Process(r)
           \/ WindowPasses(r) \/ DeadlinePasses(r)
           \/ Die(r) \/ OrphanEnds(r),
           ~At(s, "done"), worker'[s].pc = "done"
    PROVE  s = r /\ Conclude(r)
<1>1. worker \in [Request -> Workers]
  BY DEF IInv, TypeOK
<1>2. ASSUME Process(r) \/ WindowPasses(r) \/ DeadlinePasses(r) \/ OrphanEnds(r)
      PROVE  FALSE
  BY <1>2
  DEF Process, Authenticates, Speaks, Writes, Event, StartsTool, GoesOn, EndsTurn,
      EndsWork, SettlesDown, Exits, Closes, WindowPasses, DeadlinePasses, OrphanEnds,
      Outside, At
<1>3. ASSUME NEW outcome, outcome # "done", Report(r, outcome)
      PROVE  FALSE
  BY <1>3 DEF Report, At
<1>4. ASSUME NEW pc, pc # "done", worker' = [worker EXCEPT ![r].pc = pc]
      PROVE  FALSE
  BY <1>1, <1>4 DEF Workers, At
<1>5. ASSUME NEW code, Ended(r, code)
      PROVE  FALSE
  BY <1>1, <1>5 DEF Ended, At
<1>6. ASSUME NEW attempt, attempt.pc = "lock", Another(r, attempt)
      PROVE  FALSE
  BY <1>1, <1>6 DEF Another, At
<1>7. ASSUME Retry(r)
      PROVE  FALSE
  <2>1. CASE late[r]
    BY <1>3, <1>7, <2>1 DEF Retry, Fail
  <2>2. CASE ~late[r]
    <3>. DEFINE attempt == [worker[r] EXCEPT !.pc = "lock", !.try = @ + 1, !.code = 0]
    <3>1. attempt.pc = "lock"
      BY <1>1 DEF Workers
    <3>2. Another(r, attempt)
      BY <1>7, <2>2 DEF Retry
    <3>. QED BY <1>6, <3>1, <3>2
  <2>. QED BY <2>1, <2>2
<1>8. ASSUME Fallback(r)
      PROVE  FALSE
  BY <1>1, <1>3, <1>6, <1>8 DEF Fallback, Fail, Workers
<1>9. ASSUME Work(r), ~Retry(r), ~Fallback(r), ~Conclude(r)
      PROVE  FALSE
  BY <1>3, <1>4, <1>5, <1>9
  DEF Work, LaunchClaude, TakeLock, GiveUpOnLock, ReleaseLock, Drained, DrainExpires,
      GuardExpires, DrainSettles, GiveUp, Fail
<1>10. ASSUME Die(r)
      PROVE  FALSE
  BY <1>3, <1>10 DEF Die
<1>11. Conclude(r)
  BY <1>2, <1>7, <1>8, <1>9, <1>10
<1>12. s = r
  BY <1>11 DEF Conclude, Report, At
<1>. QED BY <1>11, <1>12

\* Success is never reported of an attempt that Pi settled after a failed turn,
\* nor of one that was killed unless its last turn went well, nor without the
\* session that the next request resumes (drain_process, watcher.py;
\* PiStreamCollector, collector.py).
THEOREM DoneOnlyAnswered == Spec => DoneMeansAnswered
<1>. DEFINE Concluded ==
       \A r \in Request : ~At(r, "done") /\ worker'[r].pc = "done" => Answered(r)
<1>1. IInv /\ [Next]_vars => [Concluded]_vars
  <2>. SUFFICES ASSUME IInv, Next, NEW r \in Request, ~At(r, "done"), worker'[r].pc = "done"
                PROVE  Answered(r)
    OBVIOUS
  <2>1. Conclude(r) /\ worker \in [Request -> Workers]
    BY DoneByConclude DEF Next, IInv, TypeOK
  <2>2. Usable(r)
    BY <2>1 DEF Conclude, Report, Workers
  <2>3. At(r, "over") /\ worker[r].code = 0
    BY <2>1 DEF Conclude
  <2>. QED
    BY <2>2, <2>3 DEF Usable, Answered, IInv, CodesTell
<1>. QED BY <1>1, Invariance, PTL DEF Spec, DoneMeansAnswered

================================================================================
