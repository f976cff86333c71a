------------------------------- MODULE LocalCycle -------------------------------
(***************************************************************************)
(* Local mode: watcher.py is started every minute, works through one cycle *)
(* under cycle.lock (heal the runs, poll the forge, commit what was found, *)
(* dispatch) and exits; detached workers answer through files.  The cycle  *)
(* may die between any two of its steps: what it knows then is state.json. *)
(*                                                                         *)
(* One project.  disk is state.json, mem the copy a cycle works on; they   *)
(* meet in save_state.  A gesture is a comment or a trigger label of an    *)
(* issue, what is in it and whether it counts is the subject of            *)
(* LocalIntake.  A run is a directory with request.json, and the worker    *)
(* started on it, in a tmux session named for the conversation (hosted) or *)
(* as a bare process.  done stands for parked too, an artifact "error" for *)
(* an unreadable one too.  A deadline may have passed at any probe.        *)
(***************************************************************************)
EXTENDS Integers, FiniteSets

CONSTANTS
    Conversations,  \* the issues are 1..Conversations, visited in this order
    Gesture,        \* pairs <<issue, number>>
    Label,          \* those that are trigger labels
    MaxRuns,        \* bound: run directories
    Cap,            \* concurrency_cap
    MaxTroubles,    \* bound: cycles that die, requests and preparations that
                    \* fail, tmux commands that time out, and operator's
                    \* commands, together
    None

ASSUME LocalAssumption ==
    /\ Conversations \in Nat \ {0}
    /\ Gesture \subseteq (1..Conversations) \X Nat /\ Label \subseteq Gesture
    /\ {MaxRuns, Cap, MaxTroubles} \subseteq Nat

VARIABLES
    hosted,     \* tmux is installed
    disk,       \* state.json: the conversations and the gestures behind the cursors
    mem,        \* the cycle's copy
    cyc,        \* the cycle: phase, conversation, step in it, runs counted active
    \* the run directories
    home,       \* the conversation whose run it is
    request, pidFile, artifact, dirs,
    worker,     \* none, starting, running, ended
    \* history: runs whose worker began, notes posted per run, gestures whose
    \* end was told in a note (or wiped by the operator), or was not
    began, replies, verdicts, told, silent,
    crashes, failures, hangs, commands

files == <<home, request, pidFile, artifact, dirs>>
history == <<replies, verdicts, told, silent>>
bounds == <<crashes, failures, hangs, commands>>
workers == <<worker, began>>
vars == <<hosted, disk, mem, cyc, files, workers, history, bounds>>

-----------------------------------------------------------------------------

Conv == 1..Conversations
Run == 1..MaxRuns
ConvOf(g) == g[1]

Absent == [status |-> "absent", pending |-> {}, task |-> {}, run |-> None, last |-> None]

Init ==
    /\ hosted \in BOOLEAN
    /\ disk = [conv |-> [c \in Conv |-> Absent], seen |-> {}]
    /\ mem = None /\ cyc = None
    /\ home = [r \in Run |-> None]
    /\ request = [r \in Run |-> {}]
    /\ pidFile = {} /\ dirs = {}
    /\ artifact = [r \in Run |-> "none"]
    /\ worker = [r \in Run |-> "none"]
    /\ began = {}
    /\ replies = [r \in Run |-> 0] /\ verdicts = [r \in Run |-> 0]
    /\ told = {} /\ silent = {}
    /\ crashes = 0 /\ failures = 0 /\ hangs = 0 /\ commands = 0

Live(r) == worker[r] \in {"starting", "running"}

\* The workers of a conversation that a tmux session holds.
InSession(c) == {r \in Run : Live(r) /\ hosted /\ home[r] = c}

Killed(rs) == [r \in Run |-> IF r \in rs /\ Live(r) THEN "ended" ELSE worker[r]]

Trouble == crashes + failures + hangs + commands < MaxTroubles
Fail ==
    Trouble /\ failures' = failures + 1 /\ UNCHANGED <<crashes, hangs, commands>>
Hang ==
    Trouble /\ hangs' = hangs + 1 /\ UNCHANGED <<crashes, failures, commands>>
Command ==
    Trouble /\ commands' = commands + 1 /\ UNCHANGED <<crashes, failures, hangs>>

-----------------------------------------------------------------------------
(* The workers *)

\* worker_main writes its pid before anything else ...
Begin(r) ==
    /\ worker[r] = "starting"
    /\ worker' = [worker EXCEPT ![r] = "running"]
    /\ pidFile' = pidFile \cup {r}
    /\ began' = began \cup {r}
    /\ UNCHANGED <<hosted, disk, mem, cyc, home, request, artifact, dirs, history, bounds>>

\* ... and ends with one artifact, written in one step, unless it dies.
End(r) ==
    /\ worker[r] = "running"
    /\ \E kind \in {"result", "error"} : artifact' = [artifact EXCEPT ![r] = kind]
    /\ worker' = [worker EXCEPT ![r] = "ended"]
    /\ UNCHANGED <<hosted, disk, mem, cyc, home, request, pidFile, dirs, began,
                   history, bounds>>

Die(r) ==
    /\ Live(r)
    /\ worker' = [worker EXCEPT ![r] = "ended"]
    /\ UNCHANGED <<hosted, disk, mem, cyc, files, began, history, bounds>>

-----------------------------------------------------------------------------
(* The cycle *)

At(phase, step) == cyc # None /\ cyc.phase = phase /\ cyc.at = step
Here == mem.conv[cyc.c]
MyRun == Here.run.id
GoTo(step) == cyc' = [cyc EXCEPT !.at = step]
Become(rec) == mem' = [mem EXCEPT !.conv[cyc.c] = rec]
Save == disk' = mem'

HasRun(rec) == rec.run # None
\* Mutation: only what is queued is dispatched.
WaitingQueued(rec) == rec.run = None /\ rec.pending # {}

Waiting(rec) == rec.run = None /\ (rec.pending # {} \/ rec.status = "new")

\* The next conversation, from c on, with anything to do in the phase; then
\* healing goes on to polling, and dispatching to the end.
From(phase, c, active, convs) ==
    LET busy == {d \in c..Conversations :
                   IF phase = "heal" THEN HasRun(convs[d]) ELSE Waiting(convs[d])}
    IN  IF busy # {}
        THEN [phase |-> phase, at |-> "start", active |-> active,
              c |-> CHOOSE d \in busy : \A e \in busy : d <= e]
        ELSE [phase |-> IF phase = "heal" THEN "poll" ELSE "final", at |-> "start",
              active |-> active, c |-> 1]
GoOn == cyc' = From(cyc.phase, cyc.c + 1, cyc.active, mem.conv)

\* cycle.lock is free; a cycle under way makes the next start exit.
StartCycle ==
    /\ cyc = None
    /\ mem' = disk
    /\ cyc' = From("heal", 1, 0, disk.conv)
    /\ UNCHANGED <<hosted, disk, files, workers, history, bounds>>

Crash ==
    /\ cyc # None /\ Trouble
    /\ crashes' = crashes + 1
    /\ cyc' = None /\ mem' = None
    /\ UNCHANGED <<hosted, disk, files, workers, history,
                   failures, hangs, commands>>

\* sweep_artifacts, at the start of a cycle or by command: directories no
\* record names as its current or last run, once they are old.
Names(run, r) == run # None /\ run.id = r
Orphans == {r \in dirs : \A c \in Conv :
    ~Names(disk.conv[c].last, r) /\ ~Names(disk.conv[c].run, r)}

Sweep ==
    /\ cyc = None /\ Orphans # {} /\ Command
    /\ dirs' = dirs \ Orphans
    /\ UNCHANGED <<hosted, disk, mem, cyc, home, request, pidFile, artifact,
                   workers, history>>

\* The session recorded for the last run is killed by its name.
KilledLast(c) ==
    LET last == disk.conv[c].last
    IN  IF last # None /\ last.tmux THEN Killed(InSession(c)) ELSE worker

\* fleet/dismiss.py forgets the last run of a conversation that is at rest.
Dismiss(c) ==
    /\ cyc = None /\ Command
    /\ disk.conv[c].run = None /\ disk.conv[c].last # None
    /\ disk.conv[c].status \in {"done", "failed"}
    /\ disk' = [disk EXCEPT !.conv[c].last = None]
    /\ worker' = KilledLast(c)
    /\ UNCHANGED <<hosted, mem, cyc, files, began, history>>

\* fleet/wipe_issue.py removes a conversation without a current run, and
\* everything in its directory.  The cursors stay.
Wipe(c) ==
    /\ cyc = None /\ Command
    /\ disk.conv[c].status # "absent" /\ disk.conv[c].run = None
    /\ disk' = [disk EXCEPT !.conv[c] = Absent]
    /\ dirs' = {r \in dirs : home[r] # c}
    /\ told' = told \cup disk.conv[c].pending \cup disk.conv[c].task
    /\ worker' = KilledLast(c)
    /\ UNCHANGED <<hosted, mem, cyc, home, request, pidFile, artifact, began,
                   replies, verdicts, silent>>

-----------------------------------------------------------------------------
(* Healing: collect_and_heal_runs *)

\* Mutation: the run stays the current one.
ArchivedButCurrent(rec, status) ==
    [rec EXCEPT !.status = status, !.last = [id |-> rec.run.id, tmux |-> rec.run.tmux]]

Archived(rec, status) ==
    [rec EXCEPT !.status = status, !.run = None,
                !.last = [id |-> rec.run.id, tmux |-> rec.run.tmux]]

\* An artifact is collected: a result is posted, an error ends the run.
Artifact ==
    /\ At("heal", "start") \/ At("heal", "recheck") \/ At("heal", "again")
    /\ artifact[MyRun] # "none"
    /\ GoTo(IF artifact[MyRun] = "result" THEN "post" ELSE "fail")
    /\ disk' = IF artifact[MyRun] = "result" THEN mem ELSE disk
    /\ UNCHANGED <<hosted, mem, files, workers, history, bounds>>

NoArtifact ==
    /\ At("heal", "start")
    /\ artifact[MyRun] = "none"
    /\ GoTo("probe")
    /\ UNCHANGED <<hosted, disk, mem, files, workers, history, bounds>>

\* collect_success: the note first, then the record, then the file.  When the
\* note cannot be posted the run stays as it is for the next cycle; the
\* forge may have taken it all the same.
Reply ==
    /\ At("heal", "post")
    /\ replies' = [replies EXCEPT ![MyRun] = @ + 1]
    /\ told' = told \cup request[MyRun]
    /\ \/ /\ Become(Archived(Here, "done"))
          /\ GoTo("save")
          /\ UNCHANGED bounds
       \/ /\ Fail
          /\ GoOn
          /\ UNCHANGED mem
    /\ UNCHANGED <<hosted, disk, files, workers, verdicts, silent>>

ReplyFails ==
    /\ At("heal", "post") /\ Fail
    /\ GoOn
    /\ UNCHANGED <<hosted, disk, mem, files, workers, history>>

\* Mutation: only a session the file records is asked for.
SessionAliveIfRecorded == Here.run.tmux /\ InSession(cyc.c) # {}

\* What the probe of a hosted run sees is a live pane of the session.
SessionAlive == InSession(cyc.c) # {}
Pid == MyRun \in pidFile

\* Mutation: the gestures of the interrupted launch are not queued again.
NotRequeued(rec) == rec.pending

\* The gestures of a launch that went no further are queued again; a task
\* comes back with the status.
Requeued(rec) == rec.pending \cup (request[rec.run.id] \ rec.task)

RecoverLaunch ==
    /\ Become([Archived(Here, Here.run.prev) EXCEPT !.pending = Requeued(Here)])
    /\ Save /\ GoOn

\* One look at session and pid, after the artifact was not there.
Probe(alive, expired) ==
    LET rec == [Here EXCEPT !.run.tmux = @ \/ alive,
                            !.run.pid = @ \/ Pid,
                            !.run.launching = @ /\ ~alive /\ (~Pid \/ Here.run.tmux)]
        lives == IF rec.run.tmux THEN alive ELSE rec.run.pid /\ Live(MyRun)
    IN  IF Here.run.launching /\ ~Pid /\ ~alive
        THEN RecoverLaunch
        ELSE /\ Become(rec)
             /\ disk' = IF rec # Here THEN mem' ELSE disk
             /\ IF expired THEN GoTo("expired")
                ELSE IF lives THEN GoOn ELSE GoTo("recheck")

ProbeSees ==
    /\ At("heal", "probe")
    /\ Probe(SessionAlive, FALSE)
    /\ UNCHANGED <<hosted, files, workers, history, bounds>>

ProbeExpired ==
    /\ At("heal", "probe")
    /\ Probe(SessionAlive, TRUE)
    /\ UNCHANGED <<hosted, files, workers, history, bounds>>

\* A tmux query that times out answers that there is no live pane.
ProbeHangs ==
    /\ At("heal", "probe") /\ SessionAlive /\ Hang
    /\ Probe(FALSE, FALSE)
    /\ UNCHANGED <<hosted, files, workers, history>>

\* Past the deadline everything the run started is terminated, then looked
\* for its artifact once more.
Expire ==
    /\ At("heal", "expired")
    /\ worker' = IF artifact[MyRun] # "none" THEN worker
                 ELSE Killed({r \in InSession(cyc.c) : Here.run.tmux}
                             \cup (IF Pid THEN {MyRun} ELSE {}))
    /\ GoTo("again")
    /\ UNCHANGED <<hosted, disk, mem, files, began, history, bounds>>

\* Mutation: no sign of life ends the run without another look.
RecheckNot ==
    /\ At("heal", "recheck")
    /\ GoTo("fail")
    /\ UNCHANGED <<hosted, disk, mem, files, workers, history, bounds>>

\* No sign of life, and still no artifact: the provider under the worker is
\* terminated, and the artifact looked for a last time.
Recheck ==
    /\ At("heal", "recheck") /\ artifact[MyRun] = "none"
    /\ GoTo("again")
    /\ UNCHANGED <<hosted, disk, mem, files, workers, history, bounds>>

Disappeared ==
    /\ At("heal", "again") /\ artifact[MyRun] = "none"
    /\ artifact' = [artifact EXCEPT ![MyRun] = "error"]
    /\ GoTo("fail")
    /\ UNCHANGED <<hosted, disk, mem, home, request, pidFile, dirs, workers,
                   history, bounds>>

\* collect_failure and mark_failed: the session is killed, what waited is
\* dropped and said so in the note, which may not be posted.
Failing(noted) ==
    LET dropped == Here.pending \cup request[MyRun]
    IN  /\ At(cyc.phase, "fail")
        /\ Become([Archived(Here, "failed") EXCEPT !.pending = {}])
        /\ verdicts' = [verdicts EXCEPT ![MyRun] = @ + (IF noted THEN 1 ELSE 0)]
        /\ told' = IF noted THEN told \cup dropped ELSE told
        /\ silent' = IF noted THEN silent ELSE silent \cup dropped
        /\ worker' = IF Here.run.tmux THEN Killed(InSession(cyc.c)) ELSE worker
        /\ GoTo("save")
        /\ UNCHANGED <<hosted, disk, files, began, replies>>

FailRun == cyc # None /\ Failing(TRUE) /\ UNCHANGED bounds
FailRunUnnoted == cyc # None /\ Failing(FALSE) /\ Fail

SaveRecord ==
    /\ cyc # None /\ cyc.at = "save"
    /\ disk' = mem
    /\ GoOn
    /\ UNCHANGED <<hosted, mem, files, workers, history, bounds>>

-----------------------------------------------------------------------------
(* Polling and committing: reconcile_projects *)

\* A label opens a conversation as new, its task is the issue; what comes for
\* a conversation that is there, or an @agent comment, is queued.
Assembled(rec, gs) ==
    [rec EXCEPT
        !.status = IF rec.status = "absent" THEN "new" ELSE @,
        !.task = IF rec.status = "absent" THEN gs \cap Label ELSE @,
        !.pending = IF rec.status = "absent" THEN gs \ Label ELSE @ \cup gs]

\* What is new on the forge may be anything not behind the cursors yet.  The
\* cursors and the conversations go into one save.
Committed(gs) ==
    [conv |-> [c \in Conv |->
        LET mine == {g \in gs : ConvOf(g) = c}
        IN  IF mine = {} THEN mem.conv[c] ELSE Assembled(mem.conv[c], mine)],
     seen |-> mem.seen \cup gs]

\* Mutation: runs of earlier cycles are not counted.
ActiveNone(convs) == 0

ActiveCount(convs) == Cardinality({c \in Conv : convs[c].run # None})

Commit ==
    /\ At("poll", "start")
    /\ \E gs \in SUBSET (Gesture \ mem.seen) : mem' = Committed(gs)
    /\ Save
    /\ cyc' = From("dispatch", 1, ActiveCount(mem.conv), mem'.conv)
    /\ UNCHANGED <<hosted, files, workers, history, bounds>>

\* The project is left out of this cycle, its dispatches too.
PollFails ==
    /\ At("poll", "start") /\ Fail
    /\ cyc' = [cyc EXCEPT !.phase = "final"]
    /\ UNCHANGED <<hosted, disk, mem, files, workers, history>>

-----------------------------------------------------------------------------
(* Dispatching: dispatch_pending and start_one *)

Defer ==
    /\ At("dispatch", "start") /\ cyc.active >= Cap
    /\ cyc' = [cyc EXCEPT !.phase = "final"]
    /\ UNCHANGED <<hosted, disk, mem, files, workers, history, bounds>>

NewRun == Cardinality({r \in Run : home[r] # None}) + 1
Work(rec) == rec.pending \cup (IF rec.status = "new" THEN rec.task ELSE {})

Launching(rec, r) ==
    [rec EXCEPT !.pending = {}, !.status = "working",
        !.run = [id |-> r, prev |-> rec.status, launching |-> TRUE,
                 tmux |-> FALSE, pid |-> FALSE]]

CanStart == At("dispatch", "start") /\ cyc.active < Cap

MakeRun ==
    /\ NewRun \in Run
    /\ home' = [home EXCEPT ![NewRun] = cyc.c]
    /\ request' = [request EXCEPT ![NewRun] = Work(Here)]
    /\ dirs' = dirs \cup {NewRun}
    /\ UNCHANGED <<pidFile, artifact>>

\* The request and the record of the launch are written before the launch.
Take ==
    /\ CanStart /\ MakeRun
    /\ Become(Launching(Here, NewRun)) /\ Save
    /\ GoTo("launch")
    /\ UNCHANGED <<hosted, workers, history, bounds>>

\* The label cannot be set: the record is saved as launching, and left.
TakeUnlabelled ==
    /\ CanStart /\ MakeRun /\ Fail
    /\ Become(Launching(Here, NewRun)) /\ Save
    /\ GoOn
    /\ UNCHANGED <<hosted, workers, history>>

\* The preparation raises: what was taken from the queue is saved as taken.
PrepareRaises ==
    /\ CanStart /\ Fail
    /\ Become([Here EXCEPT !.pending = {}]) /\ Save
    /\ silent' = silent \cup Here.pending
    /\ GoOn
    /\ UNCHANGED <<hosted, files, workers, replies, verdicts, told>>

\* A stale session of the name is killed, then the worker started.
Launch ==
    /\ At("dispatch", "launch")
    /\ worker' = [Killed(InSession(cyc.c)) EXCEPT ![MyRun] = "starting"]
    /\ GoTo("launched")
    /\ UNCHANGED <<hosted, disk, mem, files, began, history, bounds>>

LaunchFails ==
    /\ At("dispatch", "launch") /\ Fail
    /\ artifact' = [artifact EXCEPT ![MyRun] = "error"]
    /\ worker' = Killed(InSession(cyc.c))
    /\ GoTo("fail")
    /\ UNCHANGED <<hosted, disk, mem, home, request, pidFile, dirs, began, history>>

\* tmux starts the session, but does not answer in time.
LaunchHangs ==
    /\ At("dispatch", "launch") /\ hosted /\ Hang
    /\ artifact' = [artifact EXCEPT ![MyRun] = "error"]
    /\ worker' = [Killed(InSession(cyc.c)) EXCEPT ![MyRun] = "starting"]
    /\ GoTo("fail")
    /\ UNCHANGED <<hosted, disk, mem, home, request, pidFile, dirs, began, history>>

Launched ==
    /\ At("dispatch", "launched")
    /\ Become([Here EXCEPT !.run.launching = FALSE, !.run.tmux = hosted,
                           !.run.pid = ~hosted])
    /\ Save
    /\ pidFile' = IF hosted THEN pidFile ELSE pidFile \cup {MyRun}
    /\ cyc' = From("dispatch", cyc.c + 1, cyc.active + 1, mem.conv)
    /\ UNCHANGED <<hosted, home, request, artifact, dirs, workers, history, bounds>>

EndCycle ==
    /\ cyc # None /\ cyc.phase = "final"
    /\ disk' = mem
    /\ cyc' = None /\ mem' = None
    /\ UNCHANGED <<hosted, files, workers, history, bounds>>

-----------------------------------------------------------------------------

Healing ==
    \/ Artifact \/ NoArtifact \/ Reply \/ ReplyFails
    \/ ProbeSees \/ ProbeExpired \/ ProbeHangs
    \/ Expire \/ Recheck \/ Disappeared
    \/ FailRun \/ FailRunUnnoted \/ SaveRecord

Dispatching ==
    \/ Defer \/ Take \/ TakeUnlabelled \/ PrepareRaises
    \/ Launch \/ LaunchFails \/ LaunchHangs \/ Launched

Cycle ==
    \/ StartCycle
    \/ Healing \/ Commit \/ PollFails \/ Dispatching
    \/ EndCycle

Next ==
    \/ \E r \in Run : Begin(r) \/ End(r) \/ Die(r)
    \/ Cycle \/ Crash \/ Sweep
    \/ \E c \in Conv : Dismiss(c) \/ Wipe(c)

Spec == Init /\ [][Next]_vars

(***************************************************************************)
(* launchd starts cycles for ever and a cycle goes on until it ends.  Of a *)
(* worker nothing is assumed: a run that does not end meets its deadline,  *)
(* and every later probe of it finds the deadline passed.                  *)
(***************************************************************************)
FairSpec ==
    /\ Spec
    /\ WF_vars(Cycle)
    /\ \A c \in Conv : SF_vars(ProbeExpired /\ cyc.c = c)

-----------------------------------------------------------------------------
(* Properties *)

Undisturbed == hangs = 0 /\ (hosted \/ crashes = 0)

Statuses == {"absent", "new", "working", "done", "failed"}

RunRecords ==
    [id : Run, prev : {"new", "done", "failed"}, launching : BOOLEAN, tmux : BOOLEAN,
     pid : BOOLEAN]

Records ==
    [status : Statuses, pending : SUBSET Gesture, task : SUBSET Gesture,
     run : RunRecords \cup {None}, last : [id : Run, tmux : BOOLEAN] \cup {None}]

Files == [conv : [Conv -> Records], seen : SUBSET Gesture]

Cycles ==
    [phase : {"heal", "poll", "dispatch", "final"},
     at : {"start", "probe", "expired", "recheck", "again", "post", "fail", "save",
           "launch", "launched"},
     active : Nat, c : Conv]

ASSUME NoneAssumption ==
    None \notin Conv \cup RunRecords \cup [id : Run, tmux : BOOLEAN] \cup Files \cup Cycles

TypeOK ==
    /\ hosted \in BOOLEAN
    /\ disk \in Files
    /\ \A c \in Conv : LET rec == disk.conv[c] IN
         /\ rec.status = "working" <=> rec.run # None
         /\ rec.pending \cup rec.task \subseteq disk.seen
         /\ rec.run # None => rec.run.id \in dirs
    /\ mem \in Files \cup {None} /\ cyc \in Cycles \cup {None}
    /\ mem # None <=> cyc # None
    /\ home \in [Run -> Conv \cup {None}]
    /\ request \in [Run -> SUBSET Gesture]
    /\ artifact \in [Run -> {"none", "result", "error"}]
    /\ worker \in [Run -> {"none", "starting", "running", "ended"}]
    /\ began \subseteq pidFile /\ pidFile \subseteq Run /\ dirs \subseteq Run
    /\ replies \in [Run -> Nat] /\ verdicts \in [Run -> Nat]
    /\ told \subseteq Gesture /\ silent \subseteq Gesture
    /\ {crashes, failures, hangs, commands} \subseteq Nat

\* "Work is never silently lost": behind the cursors in the file every
\* gesture is queued there, in a run, or its end was told on the forge; it
\* is lost only where a preparation or a failure's own note failed.
NothingSilentlyLost ==
    \A g \in disk.seen :
        \/ \E c \in Conv :
             \/ g \in disk.conv[c].pending
             \/ g \in disk.conv[c].task /\ disk.conv[c].status = "new"
             \/ disk.conv[c].run # None /\ g \in request[disk.conv[c].run.id]
        \/ g \in told
        \/ g \in silent /\ failures > 0

\* "... and never double-run": no gesture is worked on by two workers,
\* whatever step a cycle dies at, when tmux holds the workers and answers.
NeverDoubleRun ==
    Undisturbed =>
        \A g \in disk.seen : Cardinality({r \in began : g \in request[r]}) <= 1

\* A live worker is the current run of its conversation in the file, with its
\* directory there, and there are no more of them than the cap allows.
WorkersAreAccounted ==
    Undisturbed =>
        /\ \A r \in Run : Live(r) =>
             r \in dirs /\ \E c \in Conv :
                 Names(disk.conv[c].run, r)
        /\ Cardinality({r \in Run : Live(r)}) <= Cap

\* A run gets one final note: no two replies, and none next to a failure,
\* unless a cycle died or a request failed between note and file.
OneVerdict ==
    crashes = 0 /\ failures = 0 => \A r \in Run : replies[r] + verdicts[r] <= 1

\* What a worker finished is not called a failure, also when it finishes
\* while the cycle looks for it or when the deadline passes.
ResultsAreReplied ==
    Undisturbed => \A r \in Run : artifact[r] = "result" => verdicts[r] = 0

Settled(g) == g \in told \cup silent

\* Every gesture is worked off some day, by workers that may hang or die and
\* cycles that may die: there is nothing a queue or a run keeps for ever.
GesturesAreWorkedOff == <>[](\A g \in disk.seen : Settled(g))

\* "Work is never silently lost", in so many words.
WorkIsNeverSilentlyLost == silent = {}

=============================================================================
