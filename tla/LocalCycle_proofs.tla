------------------------------ MODULE LocalCycle_proofs ------------------------------
(***************************************************************************)
(* What local mode keeps, for any number of conversations, gestures, runs  *)
(* and troubles, and any cap.                                              *)
(***************************************************************************)
EXTENDS LocalCycle, FiniteSetTheorems, WellFoundedInduction, TLAPS

-----------------------------------------------------------------------------
(* The inductive invariant *)

\* The cycle works on a copy that is the file, except at its "save".
Current(r) == \E c \in Conv : Names(disk.conv[c].run, r)

Steps ==
    [heal |-> {"start", "probe", "expired", "recheck", "again", "post", "fail", "save"},
     poll |-> {"start"},
     dispatch |-> {"start", "launch", "launched", "fail", "save"},
     final |-> {"start"}]

CopiesAgree ==
    cyc # None =>
        /\ cyc.at \in Steps[cyc.phase]
        /\ cyc.at # "save" => mem = disk
        /\ cyc.at = "save" =>
             /\ mem.seen = disk.seen
             /\ \A c \in Conv \ {cyc.c} : mem.conv[c] = disk.conv[c]
             /\ LET rec == disk.conv[cyc.c] new == mem.conv[cyc.c] IN
                  /\ new.run = None /\ new.status \in {"done", "failed"}
                  /\ new.task = rec.task /\ new.pending \in {rec.pending, {}}

\* What a phase works on is there to be worked on.
PhasesFit ==
    cyc # None =>
        /\ cyc.phase = "heal" => HasRun(disk.conv[cyc.c])
        /\ cyc.phase = "dispatch" =>
             IF cyc.at = "start" THEN Waiting(disk.conv[cyc.c])
             ELSE HasRun(disk.conv[cyc.c]) /\ disk.conv[cyc.c].run.launching

\* Runs are numbered in their order; of those to come there is nothing yet.
RunsAreNumbered ==
    \A r \in Run :
        /\ home[r] # None <=> r < NewRun
        /\ home[r] = None =>
             /\ worker[r] = "none" /\ artifact[r] = "none" /\ r \notin pidFile
             /\ request[r] = {} /\ replies[r] = 0 /\ verdicts[r] = 0

\* A run belongs to one conversation, and can be found again: by its record as
\* being launched, by its session, or by its pid.
RunsAreFound ==
    \A c \in Conv : HasRun(disk.conv[c]) => LET run == disk.conv[c].run IN
        /\ home[run.id] = c
        /\ run.launching \/ run.tmux \/ run.pid
        /\ run.tmux => hosted
        /\ run.pid => run.id \in pidFile

\* Gestures stay with their conversation, in the queue or as the task, and are
\* requested once they are behind the cursors; a run has the task where its
\* status before was the one that gives the task out.
GesturesStay ==
    /\ \A c \in Conv : LET rec == disk.conv[c] IN
         /\ \A g \in rec.pending \cup rec.task : ConvOf(g) = c
         /\ rec.pending \cap rec.task = {}
         /\ rec.status = "absent" => rec.pending = {} /\ rec.task = {}
         /\ HasRun(rec) => request[rec.run.id] \cap rec.task
                             = IF rec.run.prev = "new" THEN rec.task ELSE {}
    /\ \A r \in Run : request[r] \subseteq disk.seen /\ \A g \in request[r] : ConvOf(g) = home[r]

\* What is given up in silence had a request that failed; what the file is
\* about to forget was told, or was given up.
EndsAreTold ==
    /\ silent # {} => failures > 0
    /\ cyc # None /\ cyc.at = "save" =>
         request[disk.conv[cyc.c].run.id]
           \cup (disk.conv[cyc.c].pending \ mem.conv[cyc.c].pending) \subseteq told \cup silent

Queued(g) ==
    \E c \in Conv : \/ g \in disk.conv[c].pending
                    \/ g \in disk.conv[c].task /\ disk.conv[c].status = "new"

\* Runs that were worked on, or may be yet.
Effective(r) == r \in began \/ worker[r] = "starting" \/ Current(r)

\* A gesture is in one place: queued, or in one run of effect.
OnePlace ==
    Undisturbed =>
        \A r \in Run : Effective(r) =>
            \A g \in request[r] :
                ~Queued(g) /\ \A s \in Run \ {r} : Effective(s) => g \notin request[s]

\* A launch under way has no worker before it has one to answer for.
LaunchesFit ==
    /\ cyc # None /\ cyc.phase = "dispatch" /\ cyc.at = "launch" =>
         LET r == disk.conv[cyc.c].run.id IN
           worker[r] = "none" /\ artifact[r] = "none" /\ r \notin pidFile
    /\ Undisturbed /\ ~hosted =>
         \A c \in Conv : HasRun(disk.conv[c]) /\ disk.conv[c].run.launching =>
             \/ worker[disk.conv[c].run.id] = "none"
             \/ At("dispatch", "launched") /\ cyc.c = c

\* Who lives is on record, and has left no artifact.
LivingAreCurrent ==
    Undisturbed => \A r \in Run : Live(r) => Current(r) /\ artifact[r] = "none"

\* A run that is looked at for the last times is dead, or will be by then.
DyingAreDead ==
    Undisturbed /\ cyc # None /\ HasRun(disk.conv[cyc.c]) =>
        LET r == disk.conv[cyc.c].run.id IN
        /\ cyc.at \in {"recheck", "again", "post", "fail", "save"} => ~Live(r)
        /\ cyc.at = "expired" => disk.conv[cyc.c].run.tmux \/ ~Live(r) \/ r \in pidFile
        /\ cyc.at = "post" => artifact[r] = "result"
        /\ cyc.at = "fail" => artifact[r] = "error"

FailuresAreErrors ==
    Undisturbed => \A r \in Run : verdicts[r] > 0 => artifact[r] = "error"

Living == {r \in Run : Live(r)}

\* The cycle knows of every worker it has to count.
CapIsKept ==
    Undisturbed =>
        /\ Cardinality(Living) <= Cap
        /\ cyc # None /\ cyc.phase = "dispatch" =>
             /\ Cardinality(Living) <= cyc.active + (IF cyc.at = "launched" THEN 1 ELSE 0)
             /\ cyc.at # "start" => cyc.active < Cap

\* What the file calls current had no final note.
NotesAreFinal ==
    crashes = 0 /\ failures = 0 =>
        \A r \in Run :
            /\ replies[r] + verdicts[r] <= 1
            /\ Current(r) /\ ~(cyc # None /\ cyc.at = "save" /\ home[r] = cyc.c) =>
                 replies[r] + verdicts[r] = 0

IInv ==
    /\ TypeOK
    /\ CopiesAgree
    /\ PhasesFit
    /\ RunsAreNumbered
    /\ RunsAreFound
    /\ GesturesStay
    /\ EndsAreTold
    /\ NothingSilentlyLost
    /\ OnePlace
    /\ LaunchesFit
    /\ LivingAreCurrent
    /\ DyingAreDead
    /\ FailuresAreErrors
    /\ CapIsKept
    /\ NotesAreFinal

-----------------------------------------------------------------------------
(* What the operators of the cycle do *)

LEMMA LeastNumber ==
    ASSUME NEW S \in SUBSET Nat, S # {}
    PROVE  \E i \in S : \A k \in S : i <= k
<1>. DEFINE R == OpToRel(<, Nat)
<1>1. \A m, n \in Nat : m < n => <<m, n>> \in R
  BY SMT DEF OpToRel
<1>2. IsWellFoundedOn(R, Nat)
  BY NatLessThanWellFounded
<1>. HIDE DEF R
<1>3. PICK i \in S : \A k \in S : ~(<<k, i>> \in R)
  <2>1. \E x \in S : \A y \in S : ~(<<y, x>> \in R)
     BY <1>2, WFMin, Zenon
  <2>. QED BY <2>1
<1>4. ASSUME NEW k \in S PROVE i <= k
  <2>1. ~(k < i)
     BY <1>1, <1>3
  <2>. QED BY <2>1
<1>. QED BY <1>4

\* Where the cycle goes on: at the start of a conversation with anything to do
\* in the phase, or of the next phase.
LEMMA FromEffect ==
    ASSUME NEW phase \in {"heal", "dispatch"}, NEW c \in Nat \ {0}, NEW active \in Nat,
           NEW convs \in [Conv -> Records]
    PROVE  /\ From(phase, c, active, convs) \in Cycles
           /\ From(phase, c, active, convs).at = "start"
           /\ From(phase, c, active, convs).active = active
           /\ \/ /\ From(phase, c, active, convs).phase = phase
                 /\ From(phase, c, active, convs).c >= c
                 /\ IF phase = "heal" THEN HasRun(convs[From(phase, c, active, convs).c])
                    ELSE Waiting(convs[From(phase, c, active, convs).c])
              \/ From(phase, c, active, convs).phase = IF phase = "heal" THEN "poll" ELSE "final"
<1>. DEFINE busy == {d \in c..Conversations :
                       IF phase = "heal" THEN HasRun(convs[d]) ELSE Waiting(convs[d])}
            least == CHOOSE d \in busy : \A e \in busy : d <= e
<1>1. Conversations \in Nat \ {0}
  BY LocalAssumption DEF LocalAssumption
<1>2. busy \subseteq Conv /\ busy \subseteq Nat
  BY <1>1 DEF Conv
<1>3. CASE busy # {}
  <2>1. least \in busy
    BY <1>2, <1>3, LeastNumber
  <2>2. From(phase, c, active, convs)
          = [phase |-> phase, at |-> "start", active |-> active, c |-> least]
    BY <1>3 DEF From
  <2>3. IF phase = "heal" THEN HasRun(convs[least]) ELSE Waiting(convs[least])
    BY <2>1
  <2>4. least >= c
    BY <2>1
  <2>. HIDE DEF busy, least
  <2>. QED BY <1>2, <2>1, <2>2, <2>3, <2>4 DEF Cycles
<1>4. CASE busy = {}
  <2>1. From(phase, c, active, convs)
          = [phase |-> IF phase = "heal" THEN "poll" ELSE "final", at |-> "start",
             active |-> active, c |-> 1]
    BY <1>4 DEF From
  <2>. QED BY <1>1, <2>1 DEF Cycles, Conv
<1>. QED BY <1>3, <1>4

\* A run that is archived is no longer the current one.
LEMMA ArchivedEffect ==
    ASSUME NEW rec \in Records, HasRun(rec), NEW status \in Statuses
    PROVE  LET new == Archived(rec, status) IN
           /\ new \in Records /\ new.pending = rec.pending /\ new.run = None
           /\ new.status = status /\ new.task = rec.task
<1>1. rec.run \in RunRecords
  BY DEF Records, HasRun
<1>. DEFINE l == [id |-> rec.run.id, tmux |-> rec.run.tmux]
            a == [rec EXCEPT !.status = status, !.run = None, !.last = l]
<1>2. l \in [id : Run, tmux : BOOLEAN]
  BY <1>1 DEF RunRecords
<1>. HIDE DEF l
<1>3. a \in Records /\ a.pending = rec.pending /\ a.run = None /\ a.status = status /\ a.task = rec.task
  BY <1>2 DEF Records
<1>4. Archived(rec, status) = a
  BY DEF Archived, l
<1>. HIDE DEF a
<1>. QED BY <1>3, <1>4

\* ... also with another queue.
LEMMA ArchivedWith ==
    ASSUME NEW rec \in Records, HasRun(rec), NEW status \in Statuses,
           NEW pending \in SUBSET Gesture
    PROVE  LET new == [Archived(rec, status) EXCEPT !.pending = pending] IN
           /\ new \in Records /\ new.pending = pending /\ new.run = None
           /\ new.status = status /\ new.task = rec.task
<1>. DEFINE a == Archived(rec, status)
<1>1. a \in Records /\ a.run = None /\ a.status = status /\ a.task = rec.task
  BY ArchivedEffect
<1>. HIDE DEF a
<1>2. LET new == [a EXCEPT !.pending = pending] IN
      /\ new \in Records /\ new.pending = pending /\ new.run = None
      /\ new.status = status /\ new.task = rec.task
  BY <1>1 DEF Records
<1>. QED BY <1>2 DEF a

\* The copy differs in the one record.
LEMMA BecomeEffect ==
    ASSUME TypeOK, cyc # None, NEW rec \in Records, Become(rec)
    PROVE  /\ mem' \in Files /\ mem'.seen = mem.seen
           /\ mem'.conv[cyc.c] = rec
           /\ \A c \in Conv \ {cyc.c} : mem'.conv[c] = mem.conv[c]
<1>1. mem \in Files /\ cyc \in Cycles
  BY DEF TypeOK
<1>. QED BY <1>1 DEF Become, Files, Cycles

\* The fewer the workers the smaller their number.
LEMMA FewerLiving ==
    ASSUME LocalAssumption, Living' \subseteq Living
    PROVE  /\ Cardinality(Living) \in Nat /\ Cardinality(Living') \in Nat
           /\ Cardinality(Living') <= Cardinality(Living)
<1>1. IsFiniteSet(Run)
  BY FS_Interval DEF Run
<1>2. IsFiniteSet(Living)
  BY <1>1, FS_Subset DEF Living
<1>. QED
  BY <1>2, FS_Subset, FS_CardinalityType

\* Who is killed was alive and is no longer.
LEMMA KilledEffect ==
    ASSUME TypeOK, NEW S, worker' = Killed(S)
    PROVE  /\ worker' \in [Run -> {"none", "starting", "running", "ended"}]
           /\ \A s \in Run :
                /\ Live(s)' <=> Live(s) /\ s \notin S
                /\ worker'[s] = "none" <=> worker[s] = "none"
                /\ worker'[s] = "starting" => worker[s] = "starting"
           /\ Living' \subseteq Living
<1>1. worker \in [Run -> {"none", "starting", "running", "ended"}]
  BY DEF TypeOK
<1>2. \A s \in Run : worker'[s] = IF s \in S /\ Live(s) THEN "ended" ELSE worker[s]
  BY DEF Killed
<1>3. worker' \in [Run -> {"none", "starting", "running", "ended"}]
  BY <1>1 DEF Killed
<1>4. \A s \in Run :
        /\ Live(s)' <=> Live(s) /\ s \notin S
        /\ worker'[s] = "none" <=> worker[s] = "none"
        /\ worker'[s] = "starting" => worker[s] = "starting"
  BY <1>2 DEF Live
<1>. QED BY <1>3, <1>4 DEF Living

\* What the cycle has at hand, but where it is about to save.
LEMMA AtWork ==
    ASSUME IInv, cyc # None, cyc.at # "save"
    PROVE  /\ cyc \in Cycles /\ cyc.c \in Conv /\ cyc.c + 1 \in Nat \ {0}
           /\ mem = disk /\ disk \in Files /\ Here = disk.conv[cyc.c] /\ Here \in Records
<1>1. cyc \in Cycles /\ cyc.c \in Conv
  BY DEF IInv, TypeOK, Cycles
<1>2. mem = disk /\ disk \in Files
  BY DEF IInv, TypeOK, CopiesAgree
<1>3. cyc.c + 1 \in Nat \ {0}
  BY <1>1 DEF Conv
<1>. QED BY <1>1, <1>2, <1>3 DEF Here, Files

\* The run at hand.
LEMMA RunAtWork ==
    ASSUME IInv, cyc # None, cyc.at # "save", HasRun(disk.conv[cyc.c])
    PROVE  /\ MyRun \in Run /\ MyRun = disk.conv[cyc.c].run.id /\ home[MyRun] = cyc.c
           /\ Current(MyRun) /\ Here.run \in RunRecords /\ Here.run # None
           /\ \A c \in Conv : Names(disk.conv[c].run, MyRun) => c = cyc.c
<1>1. /\ cyc.c \in Conv /\ Here = disk.conv[cyc.c] /\ Here \in Records /\ disk \in Files
  BY AtWork
<1>2. /\ Here.run \in RunRecords /\ MyRun \in Run /\ MyRun = disk.conv[cyc.c].run.id
      /\ Here.run # None
  BY <1>1 DEF MyRun, HasRun, Records, RunRecords
<1>3. RunsAreFound
  BY DEF IInv
<1>4. \A c \in Conv : Names(disk.conv[c].run, MyRun) => home[MyRun] = c
  BY <1>3 DEF RunsAreFound, Names, HasRun
<1>5. Names(disk.conv[cyc.c].run, MyRun)
  BY <1>1, <1>2 DEF Names
<1>. QED BY <1>1, <1>2, <1>4, <1>5 DEF Current

\* The cycle goes on.
LEMMA GoesOn ==
    ASSUME IInv, cyc # None, cyc.phase \in {"heal", "dispatch"}, mem \in Files, GoOn
    PROVE  /\ cyc' \in Cycles /\ cyc' # None /\ cyc'.at = "start" /\ cyc'.active = cyc.active
           /\ cyc'.phase \in {cyc.phase, IF cyc.phase = "heal" THEN "poll" ELSE "final"}
           /\ cyc'.phase = cyc.phase => cyc'.c # cyc.c
           /\ cyc'.phase = "heal" => HasRun(mem.conv[cyc'.c])
           /\ cyc'.phase = "dispatch" => Waiting(mem.conv[cyc'.c])
<1>1. cyc \in Cycles /\ cyc.active \in Nat /\ cyc.c \in Conv
  BY DEF IInv, TypeOK, Cycles
<1>2. cyc.c + 1 \in Nat \ {0} /\ mem.conv \in [Conv -> Records]
  BY <1>1 DEF Conv, Files
<1>3. cyc' = From(cyc.phase, cyc.c + 1, cyc.active, mem.conv)
  BY DEF GoOn
<1>4. cyc.c \in Nat
  BY <1>1 DEF Conv
<1>. DEFINE next == From(cyc.phase, cyc.c + 1, cyc.active, mem.conv)
<1>5. /\ next \in Cycles /\ next.at = "start" /\ next.active = cyc.active
      /\ \/ /\ next.phase = cyc.phase /\ next.c >= cyc.c + 1
            /\ IF cyc.phase = "heal" THEN HasRun(mem.conv[next.c])
               ELSE Waiting(mem.conv[next.c])
         \/ next.phase = IF cyc.phase = "heal" THEN "poll" ELSE "final"
  BY <1>1, <1>2, FromEffect
<1>. HIDE DEF next
<1>6. next.c >= cyc.c + 1 => next.c # cyc.c
  BY <1>4
<1>7. cyc' = next
  BY <1>3 DEF next
<1>8. next # None
  BY <1>5, NoneAssumption
<1>. QED BY <1>5, <1>6, <1>7, <1>8

\* The cycle takes its next step.
LEMMA StepsOn ==
    ASSUME TypeOK, cyc # None, NEW step, GoTo(step),
           step \in {"start", "probe", "expired", "recheck", "again", "post", "fail",
                     "save", "launch", "launched"}
    PROVE  /\ cyc' \in Cycles /\ cyc' # None /\ cyc'.at = step
           /\ cyc'.phase = cyc.phase /\ cyc'.active = cyc.active /\ cyc'.c = cyc.c
<1>1. cyc \in Cycles
  BY DEF TypeOK
<1>2. cyc' = [cyc EXCEPT !.at = step]
  BY DEF GoTo
<1>3. /\ [cyc EXCEPT !.at = step] \in Cycles /\ [cyc EXCEPT !.at = step].at = step
      /\ [cyc EXCEPT !.at = step].phase = cyc.phase
      /\ [cyc EXCEPT !.at = step].active = cyc.active /\ [cyc EXCEPT !.at = step].c = cyc.c
  BY <1>1 DEF Cycles
<1>. QED BY <1>2, <1>3, NoneAssumption

\* Who is on record is a run.
LEMMA RecordsName ==
    ASSUME TypeOK
    PROVE  \A c \in Conv : HasRun(disk.conv[c]) =>
             disk.conv[c].run \in RunRecords /\ disk.conv[c].run.id \in Run
BY DEF TypeOK, Files, Records, HasRun

\* What a probe leaves in the record, and whether it takes the run for alive.
Seen(alive) ==
    [Here EXCEPT !.run.tmux = @ \/ alive,
                 !.run.pid = @ \/ Pid,
                 !.run.launching = @ /\ ~alive /\ (~Pid \/ Here.run.tmux)]
Lives(alive) ==
    IF Seen(alive).run.tmux THEN alive ELSE Seen(alive).run.pid /\ Live(MyRun)

LEMMA SeenEffect ==
    ASSUME Here \in Records, Here.run \in RunRecords, NEW alive \in BOOLEAN
    PROVE  /\ Seen(alive) \in Records
           /\ Seen(alive).status = Here.status /\ Seen(alive).pending = Here.pending
           /\ Seen(alive).task = Here.task
           /\ Seen(alive).run \in RunRecords
           /\ Seen(alive).run.id = Here.run.id /\ Seen(alive).run.prev = Here.run.prev
           /\ Seen(alive).run.tmux <=> Here.run.tmux \/ alive
           /\ Seen(alive).run.pid <=> Here.run.pid \/ Pid
           /\ Seen(alive).run.launching
                <=> Here.run.launching /\ ~alive /\ (~Pid \/ Here.run.tmux)
<1>. DEFINE run == [Here.run EXCEPT !.tmux = @ \/ alive,
                                    !.pid = @ \/ Pid,
                                    !.launching = @ /\ ~alive /\ (~Pid \/ Here.run.tmux)]
<1>1. Pid \in BOOLEAN
  BY DEF Pid
<1>2. /\ run \in RunRecords /\ run.id = Here.run.id /\ run.prev = Here.run.prev
      /\ run.tmux <=> Here.run.tmux \/ alive
      /\ run.pid <=> Here.run.pid \/ Pid
      /\ run.launching <=> Here.run.launching /\ ~alive /\ (~Pid \/ Here.run.tmux)
  BY <1>1 DEF RunRecords
<1>3. Seen(alive) = [Here EXCEPT !.run = run]
  BY DEF Seen, Records
<1>. HIDE DEF run
<1>4. /\ [Here EXCEPT !.run = run] \in Records
      /\ [Here EXCEPT !.run = run].status = Here.status
      /\ [Here EXCEPT !.run = run].pending = Here.pending
      /\ [Here EXCEPT !.run = run].task = Here.task
      /\ [Here EXCEPT !.run = run].run = run
  BY <1>2 DEF Records
<1>. QED BY <1>2, <1>3, <1>4

\* A probe takes a launch back, or brings the record up to date and goes on.
LEMMA ProbeCases ==
    ASSUME NEW alive \in BOOLEAN, NEW expired \in BOOLEAN, Probe(alive, expired)
    PROVE  \/ Here.run.launching /\ ~Pid /\ ~alive /\ RecoverLaunch
           \/ /\ Become(Seen(alive))
              /\ disk' = IF Seen(alive) # Here THEN mem' ELSE disk
              /\ \/ expired /\ GoTo("expired")
                 \/ ~expired /\ Lives(alive) /\ GoOn
                 \/ ~expired /\ ~Lives(alive) /\ GoTo("recheck")
BY DEF Probe, Seen, Lives

\* What a conversation has of a gesture.
Kept(g, c) ==
    \/ g \in disk.conv[c].pending
    \/ g \in disk.conv[c].task /\ disk.conv[c].status = "new"
    \/ disk.conv[c].run # None /\ g \in request[disk.conv[c].run.id]

\* Nothing is lost where every conversation keeps what it has, or its end is
\* told, or given up.
LEMMA KeptIsNotLost ==
    ASSUME NothingSilentlyLost,
           disk'.seen = disk.seen, told \subseteq told', silent \subseteq silent',
           failures > 0 => failures' > 0,
           \A g \in disk.seen, c \in Conv : Kept(g, c) =>
               Kept(g, c)' \/ g \in told' \/ (g \in silent' /\ failures' > 0)
    PROVE  NothingSilentlyLost'
<1>1. \A g \in disk.seen : \/ \E c \in Conv : Kept(g, c)
                           \/ g \in told
                           \/ g \in silent /\ failures > 0
  BY DEF NothingSilentlyLost, Kept
<1>2. \A g \in disk'.seen : \/ \E c \in Conv : Kept(g, c)'
                            \/ g \in told'
                            \/ g \in silent' /\ failures' > 0
  BY <1>1
<1>. QED BY DEF NothingSilentlyLost, Kept

\* Every worker that lives is counted by the cycle, as the run of a conversation.
LEMMA LivingAreCounted ==
    ASSUME LivingAreCurrent, RunsAreFound, Undisturbed
    PROVE  /\ Cardinality(Living) <= ActiveCount(disk.conv)
           /\ Cardinality(Living) \in Nat /\ ActiveCount(disk.conv) \in Nat
<1>. DEFINE counted == {c \in Conv : disk.conv[c].run # None}
            f == [r \in Living |-> home[r]]
<1>1. IsFiniteSet(Conv) /\ IsFiniteSet(Run)
  BY FS_Interval, LocalAssumption DEF Conv, Run
<1>2. IsFiniteSet(counted) /\ IsFiniteSet(Living)
  BY <1>1, FS_Subset DEF Living
<1>3. \A r \in Living : home[r] \in counted /\ disk.conv[home[r]].run.id = r
  BY DEF LivingAreCurrent, RunsAreFound, Living, Current, Names, HasRun
<1>4. f \in Injection(Living, counted)
  <2>1. f \in [Living -> counted]
    BY <1>3
  <2>2. \A a, b \in Living : f[a] = f[b] => a = b
    BY <1>3
  <2>. HIDE DEF f
  <2>. QED BY <2>1, <2>2 DEF Injection, IsInjective
<1>5. Cardinality(Living) <= Cardinality(counted)
  <2>. HIDE DEF f, counted
  <2>. QED BY <1>2, <1>4, FS_Injection
<1>. QED BY <1>2, <1>5, FS_CardinalityType DEF ActiveCount

\* What a commit makes of the conversations.
LEMMA CommittedEffect ==
    ASSUME NEW file \in Files, mem = file, NEW gs \in SUBSET (Gesture \ file.seen),
           \A c \in Conv : file.conv[c].status = "absent" =>
               file.conv[c].pending = {} /\ file.conv[c].task = {}
    PROVE  /\ Committed(gs) \in Files /\ Committed(gs).seen = file.seen \cup gs
           /\ \A c \in Conv :
                LET new == Committed(gs).conv[c]
                    rec == file.conv[c]
                    mine == {g \in gs : ConvOf(g) = c}
                IN  /\ new.run = rec.run
                    /\ new.status = IF rec.status = "absent" /\ mine # {} THEN "new"
                                    ELSE rec.status
                    /\ new.pending = IF rec.status = "absent" THEN mine \ Label
                                     ELSE rec.pending \cup mine
                    /\ new.task = IF rec.status = "absent" THEN mine \cap Label
                                  ELSE rec.task
<1>. DEFINE conv == [c \in Conv |->
                       LET mine == {g \in gs : ConvOf(g) = c}
                       IN  IF mine = {} THEN file.conv[c] ELSE Assembled(file.conv[c], mine)]
<1>1. Committed(gs) = [conv |-> conv, seen |-> file.seen \cup gs]
  BY DEF Committed
<1>2. \A c \in Conv :
        LET new == conv[c]
            rec == file.conv[c]
            mine == {g \in gs : ConvOf(g) = c}
        IN  /\ new \in Records
            /\ new.run = rec.run
            /\ new.status = IF rec.status = "absent" /\ mine # {} THEN "new"
                            ELSE rec.status
            /\ new.pending = IF rec.status = "absent" THEN mine \ Label
                             ELSE rec.pending \cup mine
            /\ new.task = IF rec.status = "absent" THEN mine \cap Label
                          ELSE rec.task
  <2>. TAKE c \in Conv
  <2>. DEFINE rec == file.conv[c]
              mine == {g \in gs : ConvOf(g) = c}
  <2>1. rec \in Records /\ mine \subseteq Gesture
    BY DEF Files
  <2>2. conv[c] = IF mine = {} THEN rec ELSE Assembled(rec, mine)
    OBVIOUS
  <2>3. rec.status = "absent" => rec.pending = {} /\ rec.task = {}
    OBVIOUS
  <2>. HIDE DEF rec, mine, conv
  <2>4. CASE mine = {}
    BY <2>1, <2>2, <2>3, <2>4 DEF rec, mine
  <2>5. CASE mine # {}
    <3>. DEFINE new == Assembled(rec, mine)
    <3>1. /\ new \in Records /\ new.run = rec.run
          /\ new.status = IF rec.status = "absent" THEN "new" ELSE rec.status
          /\ new.pending = IF rec.status = "absent" THEN mine \ Label
                           ELSE rec.pending \cup mine
          /\ new.task = IF rec.status = "absent" THEN mine \cap Label ELSE rec.task
      BY <2>1 DEF Assembled, Records, Statuses
    <3>. HIDE DEF new
    <3>2. conv[c] = new
      BY <2>2, <2>5 DEF new
    <3>. QED BY <2>5, <3>1, <3>2 DEF rec, mine
  <2>. QED BY <2>4, <2>5
<1>3. conv \in [Conv -> Records]
  <2>1. \A c \in Conv : conv[c] \in Records
    BY <1>2
  <2>. QED BY <2>1
<1>. HIDE DEF conv
<1>4. /\ Committed(gs) \in Files /\ Committed(gs).seen = file.seen \cup gs
      /\ Committed(gs).conv = conv
  BY <1>1, <1>3 DEF Files
<1>. QED BY <1>2, <1>4

\* A new directory takes the next number.
LEMMA NewRunIsNext ==
    ASSUME NewRun \in Run, home[NewRun] = None, NEW c, c # None,
           home \in [Run -> Conv \cup {None}], home' = [home EXCEPT ![NewRun] = c]
    PROVE  /\ NewRun \in Nat /\ NewRun' = NewRun + 1
           /\ home'[NewRun] = c /\ \A s \in Run \ {NewRun} : home'[s] = home[s]
<1>. DEFINE old == {r \in Run : home[r] # None}
            later == {r \in Run : home'[r] # None}
            n == NewRun
<1>1. IsFiniteSet(Run)
  BY FS_Interval, LocalAssumption DEF Run
<1>2. IsFiniteSet(old) /\ Cardinality(old) \in Nat /\ n \notin old
  BY <1>1, FS_Subset, FS_CardinalityType
<1>3. n = Cardinality(old) + 1
  BY DEF NewRun
<1>4. later = old \cup {n}
  BY DEF Run
<1>5. Cardinality(later) = Cardinality(old) + 1
  <2>. HIDE DEF old, later, n
  <2>. QED BY <1>2, <1>4, FS_AddElement
<1>6. NewRun' = Cardinality(later) + 1
  BY DEF NewRun, Run
<1>7. n \in Nat /\ NewRun' = n + 1
  <2>. HIDE DEF old, later, n
  <2>. QED BY <1>2, <1>3, <1>5, <1>6
<1>8. home'[n] = c /\ \A s \in Run \ {n} : home'[s] = home[s]
  OBVIOUS
<1>. QED BY <1>7, <1>8

\* What is taken from the record, and what the launch leaves of it.
LEMMA LaunchingEffect ==
    ASSUME NEW rec \in Records, rec.status \in {"new", "done", "failed"}, NEW r \in Run
    PROVE  LET new == Launching(rec, r) IN
           /\ new \in Records /\ new.pending = {} /\ new.status = "working"
           /\ new.task = rec.task /\ new.run \in RunRecords
           /\ new.run.id = r /\ new.run.prev = rec.status /\ new.run.launching
           /\ ~new.run.tmux /\ ~new.run.pid
<1>. DEFINE run == [id |-> r, prev |-> rec.status, launching |-> TRUE,
                    tmux |-> FALSE, pid |-> FALSE]
            new == [rec EXCEPT !.pending = {}, !.status = "working", !.run = run]
<1>1. /\ run \in RunRecords /\ run.id = r /\ run.prev = rec.status /\ run.launching
      /\ ~run.tmux /\ ~run.pid
  BY DEF RunRecords
<1>2. Launching(rec, r) = new
  BY DEF Launching
<1>. HIDE DEF run
<1>3. /\ new \in Records /\ new.pending = {} /\ new.status = "working"
      /\ new.task = rec.task /\ new.run = run
  BY <1>1 DEF Records, Statuses
<1>. HIDE DEF new
<1>. QED BY <1>1, <1>2, <1>3

\* One worker more is one more.
LEMMA OneMoreLiving ==
    ASSUME NEW r \in Run, Living' \subseteq Living \cup {r}
    PROVE  /\ Cardinality(Living) \in Nat /\ Cardinality(Living') \in Nat
           /\ Cardinality(Living') <= Cardinality(Living) + 1
<1>1. IsFiniteSet(Run)
  BY FS_Interval, LocalAssumption DEF Run
<1>2. IsFiniteSet(Living) /\ Cardinality(Living) \in Nat
  BY <1>1, FS_Subset, FS_CardinalityType DEF Living
<1>3. /\ IsFiniteSet(Living \cup {r})
      /\ Cardinality(Living \cup {r}) \in Nat
      /\ Cardinality(Living \cup {r}) <= Cardinality(Living) + 1
  BY SMTT(30), <1>2, FS_AddElement, FS_CardinalityType
<1>4. IsFiniteSet(Living') /\ Cardinality(Living') <= Cardinality(Living \cup {r})
  BY <1>3, FS_Subset
<1>. QED BY <1>2, <1>3, <1>4, FS_CardinalityType

-----------------------------------------------------------------------------
(* Every step keeps the invariant *)

\* A worker begins: it may have been waited for.
LEMMA BeginKeeps ==
    ASSUME IInv, NEW r \in Run, Begin(r)
    PROVE  IInv'
<1>1. /\ TypeOK /\ CopiesAgree /\ PhasesFit /\ RunsAreNumbered /\ RunsAreFound
      /\ GesturesStay /\ EndsAreTold /\ NothingSilentlyLost /\ OnePlace /\ LaunchesFit
      /\ LivingAreCurrent /\ DyingAreDead /\ FailuresAreErrors /\ CapIsKept /\ NotesAreFinal
  BY DEF IInv
<1>2. /\ worker \in [Run -> {"none", "starting", "running", "ended"}]
      /\ worker[r] = "starting"
      /\ worker' = [worker EXCEPT ![r] = "running"]
      /\ pidFile' = pidFile \cup {r} /\ began' = began \cup {r}
      /\ UNCHANGED <<disk, mem, cyc, hosted, home, request, dirs, replies, verdicts,
                  told, silent, crashes, failures, hangs, commands, artifact>>
      /\ NewRun' = NewRun
  BY <1>1 DEF Begin, history, bounds, TypeOK, NewRun
<1>3. \A s \in Run : Live(s)' <=> Live(s)
  BY <1>2 DEF Live
<1>4. TypeOK'
  BY <1>1, <1>2 DEF TypeOK
<1>5. CopiesAgree'
  BY <1>1, <1>2 DEF CopiesAgree
<1>6. PhasesFit'
  BY <1>1, <1>2 DEF PhasesFit
<1>7. RunsAreNumbered'
  BY <1>1, <1>2 DEF RunsAreNumbered
<1>8. RunsAreFound'
  BY <1>1, <1>2 DEF RunsAreFound
<1>9. GesturesStay'
  BY <1>1, <1>2 DEF GesturesStay
<1>10. EndsAreTold'
  BY <1>1, <1>2 DEF EndsAreTold
<1>11. NothingSilentlyLost'
  BY <1>1, <1>2 DEF NothingSilentlyLost
<1>12. OnePlace'
  BY <1>1, <1>2 DEF OnePlace, Undisturbed, Effective, Current, Queued
<1>13. LaunchesFit'
  BY <1>1, <1>2 DEF LaunchesFit, Undisturbed, At
<1>14. LivingAreCurrent'
  BY <1>1, <1>2 DEF LivingAreCurrent, Undisturbed, Live, Current
<1>15. DyingAreDead'
  BY SMTT(30), <1>1, <1>2, <1>3 DEF DyingAreDead, Undisturbed, Live
<1>16. FailuresAreErrors'
  BY <1>1, <1>2 DEF FailuresAreErrors, Undisturbed
<1>17. CapIsKept'
  BY <1>1, <1>2 DEF CapIsKept, Undisturbed, Living, Live
<1>18. NotesAreFinal'
  BY <1>1, <1>2 DEF NotesAreFinal, Current
<1>. QED
  BY <1>4, <1>5, <1>6, <1>7, <1>8, <1>9, <1>10, <1>11, <1>12, <1>13, <1>14, <1>15,
     <1>16, <1>17, <1>18
  DEF IInv

\* A worker ends with an artifact.
LEMMA EndKeeps ==
    ASSUME IInv, NEW r \in Run, End(r)
    PROVE  IInv'
<1>1. /\ TypeOK /\ CopiesAgree /\ PhasesFit /\ RunsAreNumbered /\ RunsAreFound
      /\ GesturesStay /\ EndsAreTold /\ NothingSilentlyLost /\ OnePlace /\ LaunchesFit
      /\ LivingAreCurrent /\ DyingAreDead /\ FailuresAreErrors /\ CapIsKept /\ NotesAreFinal
  BY DEF IInv
<1>2. /\ worker \in [Run -> {"none", "starting", "running", "ended"}]
      /\ worker[r] = "running"
      /\ worker' = [worker EXCEPT ![r] = "ended"]
      /\ UNCHANGED <<disk, mem, cyc, hosted, home, request, dirs, replies, verdicts,
                  told, silent, crashes, failures, hangs, commands, pidFile, began>>
      /\ NewRun' = NewRun
  BY <1>1 DEF End, history, bounds, TypeOK, NewRun
<1>3. PICK kind \in {"result", "error"} : artifact' = [artifact EXCEPT ![r] = kind]
  BY DEF End
<1>4. \A s \in Run : Live(s)' <=> Live(s) /\ s # r
  BY <1>2 DEF Live
<1>5. Living' \subseteq Living
  BY <1>4 DEF Living
<1>6. /\ Cardinality(Living) \in Nat /\ Cardinality(Living') \in Nat
      /\ Cardinality(Living') <= Cardinality(Living)
  BY <1>5, LocalAssumption, FewerLiving
<1>7. TypeOK'
  BY <1>1, <1>2, <1>3 DEF TypeOK
<1>8. CopiesAgree'
  BY <1>1, <1>2 DEF CopiesAgree
<1>9. PhasesFit'
  BY <1>1, <1>2 DEF PhasesFit
<1>10. RunsAreNumbered'
  BY <1>1, <1>2, <1>3 DEF RunsAreNumbered
<1>11. RunsAreFound'
  BY <1>1, <1>2 DEF RunsAreFound
<1>12. GesturesStay'
  BY <1>1, <1>2 DEF GesturesStay
<1>13. EndsAreTold'
  BY <1>1, <1>2 DEF EndsAreTold
<1>14. NothingSilentlyLost'
  BY <1>1, <1>2 DEF NothingSilentlyLost
<1>15. OnePlace'
  BY <1>1, <1>2 DEF OnePlace, Undisturbed, Effective, Current, Queued
<1>16. LaunchesFit'
  BY <1>1, <1>2, <1>3, <1>4, <1>5, <1>6 DEF LaunchesFit, Undisturbed, At
<1>17. LivingAreCurrent'
  BY <1>1, <1>2, <1>3, <1>4 DEF LivingAreCurrent, Undisturbed, Current
<1>18. DyingAreDead'
  BY SMTT(30), <1>1, <1>2, <1>3, <1>4, <1>5, <1>6 DEF DyingAreDead, Undisturbed, Live
<1>19. FailuresAreErrors'
  BY <1>1, <1>2, <1>3 DEF FailuresAreErrors, Undisturbed, LivingAreCurrent, Live
<1>20. CapIsKept'
  BY <1>1, <1>2, <1>6, LocalAssumption DEF CapIsKept, Undisturbed, TypeOK, Cycles
<1>21. NotesAreFinal'
  BY <1>1, <1>2 DEF NotesAreFinal, Current
<1>. QED
  BY <1>7, <1>8, <1>9, <1>10, <1>11, <1>12, <1>13, <1>14, <1>15, <1>16, <1>17, <1>18,
     <1>19, <1>20, <1>21
  DEF IInv

\* A worker dies.
LEMMA DieKeeps ==
    ASSUME IInv, NEW r \in Run, Die(r)
    PROVE  IInv'
<1>1. /\ TypeOK /\ CopiesAgree /\ PhasesFit /\ RunsAreNumbered /\ RunsAreFound
      /\ GesturesStay /\ EndsAreTold /\ NothingSilentlyLost /\ OnePlace /\ LaunchesFit
      /\ LivingAreCurrent /\ DyingAreDead /\ FailuresAreErrors /\ CapIsKept /\ NotesAreFinal
  BY DEF IInv
<1>2. /\ worker \in [Run -> {"none", "starting", "running", "ended"}]
      /\ worker[r] # "none" /\ Live(r)
      /\ worker' = [worker EXCEPT ![r] = "ended"]
      /\ UNCHANGED <<disk, mem, cyc, hosted, home, request, dirs, replies, verdicts,
                  told, silent, crashes, failures, hangs, commands, artifact, pidFile, began>>
      /\ NewRun' = NewRun
  BY <1>1 DEF Die, Live, files, history, bounds, TypeOK, NewRun
<1>4. \A s \in Run : Live(s)' <=> Live(s) /\ s # r
  BY <1>2 DEF Live
<1>5. Living' \subseteq Living
  BY <1>4 DEF Living
<1>6. /\ Cardinality(Living) \in Nat /\ Cardinality(Living') \in Nat
      /\ Cardinality(Living') <= Cardinality(Living)
  BY <1>5, LocalAssumption, FewerLiving
<1>7. TypeOK'
  BY <1>1, <1>2 DEF TypeOK
<1>8. CopiesAgree'
  BY <1>1, <1>2 DEF CopiesAgree
<1>9. PhasesFit'
  BY <1>1, <1>2 DEF PhasesFit
<1>10. RunsAreNumbered'
  BY <1>1, <1>2 DEF RunsAreNumbered
<1>11. RunsAreFound'
  BY <1>1, <1>2 DEF RunsAreFound
<1>12. GesturesStay'
  BY <1>1, <1>2 DEF GesturesStay
<1>13. EndsAreTold'
  BY <1>1, <1>2 DEF EndsAreTold
<1>14. NothingSilentlyLost'
  BY <1>1, <1>2 DEF NothingSilentlyLost
<1>15. OnePlace'
  BY <1>1, <1>2 DEF OnePlace, Undisturbed, Effective, Current, Queued
<1>16. LaunchesFit'
  BY <1>1, <1>2 DEF LaunchesFit, Undisturbed, At
<1>17. LivingAreCurrent'
  BY <1>1, <1>2 DEF LivingAreCurrent, Undisturbed, Live, Current
<1>18. DyingAreDead'
  BY SMTT(30), <1>1, <1>2, <1>4, <1>5, <1>6 DEF DyingAreDead, Undisturbed, Live
<1>19. FailuresAreErrors'
  BY <1>1, <1>2 DEF FailuresAreErrors, Undisturbed
<1>20. CapIsKept'
  BY <1>1, <1>2, <1>6, LocalAssumption DEF CapIsKept, Undisturbed, TypeOK, Cycles
<1>21. NotesAreFinal'
  BY <1>1, <1>2 DEF NotesAreFinal, Current
<1>. QED
  BY <1>7, <1>8, <1>9, <1>10, <1>11, <1>12, <1>13, <1>14, <1>15, <1>16, <1>17, <1>18,
     <1>19, <1>20, <1>21
  DEF IInv

\* A cycle starts, with the runs there are.
LEMMA StartCycleKeeps ==
    ASSUME IInv, StartCycle
    PROVE  IInv'
<1>1. /\ TypeOK /\ CopiesAgree /\ PhasesFit /\ RunsAreNumbered /\ RunsAreFound
      /\ GesturesStay /\ EndsAreTold /\ NothingSilentlyLost /\ OnePlace /\ LaunchesFit
      /\ LivingAreCurrent /\ DyingAreDead /\ FailuresAreErrors /\ CapIsKept /\ NotesAreFinal
  BY DEF IInv
<1>2. /\ UNCHANGED <<hosted, disk, home, request, pidFile, artifact, dirs, worker,
                  began, replies, verdicts, told, silent, crashes, failures, hangs, commands>>
      /\ NewRun' = NewRun
      /\ mem' = disk /\ cyc = None
      /\ cyc' = From("heal", 1, 0, disk.conv)
  BY DEF StartCycle, files, history, bounds, workers, NewRun
<1>3. disk \in Files /\ disk.conv \in [Conv -> Records]
  BY <1>1 DEF TypeOK, Files
<1>4. /\ cyc' \in Cycles /\ cyc'.at = "start" /\ cyc'.phase \in {"heal", "poll"}
      /\ cyc'.phase = "heal" => HasRun(disk.conv[cyc'.c])
  BY <1>2, <1>3, FromEffect
<1>5. cyc' # None /\ mem' # None
  BY <1>2, <1>3, <1>4, NoneAssumption
<1>6. TypeOK'
  BY <1>1, <1>2, <1>4, <1>5 DEF TypeOK
<1>7. CopiesAgree'
  BY <1>2, <1>4 DEF CopiesAgree, Steps
<1>8. PhasesFit'
  BY <1>2, <1>4 DEF PhasesFit
<1>9. RunsAreNumbered'
  BY <1>1, <1>2 DEF RunsAreNumbered
<1>10. RunsAreFound'
  BY <1>1, <1>2 DEF RunsAreFound
<1>11. GesturesStay'
  BY <1>1, <1>2 DEF GesturesStay
<1>12. EndsAreTold'
  BY <1>1, <1>2, <1>4 DEF EndsAreTold
<1>13. NothingSilentlyLost'
  BY <1>1, <1>2 DEF NothingSilentlyLost
<1>14. OnePlace'
  BY <1>1, <1>2 DEF OnePlace, Undisturbed, Effective, Current, Queued
<1>15. LaunchesFit'
  BY <1>1, <1>2, <1>3, <1>4, <1>5 DEF LaunchesFit, Undisturbed, At
<1>16. LivingAreCurrent'
  BY <1>1, <1>2 DEF LivingAreCurrent, Undisturbed, Live, Current
<1>17. DyingAreDead'
  BY <1>3, <1>4, <1>5 DEF DyingAreDead, Undisturbed, Live
<1>18. FailuresAreErrors'
  BY <1>1, <1>2 DEF FailuresAreErrors, Undisturbed
<1>19. CapIsKept'
  BY <1>1, <1>2, <1>4 DEF CapIsKept, Undisturbed, Living, Live
<1>20. NotesAreFinal'
  BY <1>1, <1>2 DEF NotesAreFinal, Current
<1>. QED
  BY <1>6, <1>7, <1>8, <1>9, <1>10, <1>11, <1>12, <1>13, <1>14, <1>15, <1>16, <1>17,
     <1>18, <1>19, <1>20
  DEF IInv

\* A cycle dies.
LEMMA CrashKeeps ==
    ASSUME IInv, Crash
    PROVE  IInv'
<1>1. /\ TypeOK /\ CopiesAgree /\ PhasesFit /\ RunsAreNumbered /\ RunsAreFound
      /\ GesturesStay /\ EndsAreTold /\ NothingSilentlyLost /\ OnePlace /\ LaunchesFit
      /\ LivingAreCurrent /\ DyingAreDead /\ FailuresAreErrors /\ CapIsKept /\ NotesAreFinal
  BY DEF IInv
<1>2. /\ UNCHANGED <<hosted, disk, home, request, pidFile, artifact, dirs, worker,
                  began, replies, verdicts, told, silent, failures, hangs, commands>>
      /\ NewRun' = NewRun
      /\ mem' = None /\ cyc' = None /\ crashes' = crashes + 1
  BY DEF Crash, files, history, workers, NewRun
<1>3. crashes \in Nat
  BY <1>1 DEF TypeOK
<1>4. TypeOK'
  BY <1>1, <1>2 DEF TypeOK
<1>5. CopiesAgree'
  BY <1>2 DEF CopiesAgree
<1>6. PhasesFit'
  BY <1>2 DEF PhasesFit
<1>7. RunsAreNumbered'
  BY <1>1, <1>2 DEF RunsAreNumbered
<1>8. RunsAreFound'
  BY <1>1, <1>2 DEF RunsAreFound
<1>9. GesturesStay'
  BY <1>1, <1>2 DEF GesturesStay
<1>10. EndsAreTold'
  BY <1>1, <1>2 DEF EndsAreTold
<1>11. NothingSilentlyLost'
  BY <1>1, <1>2 DEF NothingSilentlyLost
<1>12. OnePlace'
  BY <1>1, <1>2, <1>3 DEF OnePlace, Undisturbed, Effective, Current, Queued
<1>13. LaunchesFit'
  BY <1>2, <1>3 DEF LaunchesFit, Undisturbed
<1>14. LivingAreCurrent'
  BY <1>1, <1>2, <1>3 DEF LivingAreCurrent, Undisturbed, Live, Current
<1>15. DyingAreDead'
  BY <1>2 DEF DyingAreDead, Undisturbed
<1>16. FailuresAreErrors'
  BY <1>1, <1>2, <1>3 DEF FailuresAreErrors, Undisturbed
<1>17. CapIsKept'
  BY <1>1, <1>2, <1>3 DEF CapIsKept, Undisturbed, Living, Live
<1>18. NotesAreFinal'
  BY <1>2, <1>3 DEF NotesAreFinal
<1>. QED
  BY <1>4, <1>5, <1>6, <1>7, <1>8, <1>9, <1>10, <1>11, <1>12, <1>13, <1>14, <1>15,
     <1>16, <1>17, <1>18
  DEF IInv

\* Directories without a record go.
LEMMA SweepKeeps ==
    ASSUME IInv, Sweep
    PROVE  IInv'
<1>1. /\ TypeOK /\ CopiesAgree /\ PhasesFit /\ RunsAreNumbered /\ RunsAreFound
      /\ GesturesStay /\ EndsAreTold /\ NothingSilentlyLost /\ OnePlace /\ LaunchesFit
      /\ LivingAreCurrent /\ DyingAreDead /\ FailuresAreErrors /\ CapIsKept /\ NotesAreFinal
  BY DEF IInv
<1>2. /\ UNCHANGED <<hosted, disk, mem, cyc, home, request, pidFile, artifact,
                  worker, began, replies, verdicts, told, silent, crashes, failures, hangs>>
      /\ NewRun' = NewRun
      /\ dirs' = dirs \ Orphans /\ commands' = commands + 1
  BY DEF Sweep, history, workers, Command, NewRun
<1>3. \A c \in Conv : disk.conv[c].run # None => disk.conv[c].run.id \notin Orphans
  BY DEF Orphans, Names
<1>4. TypeOK'
  BY <1>1, <1>2, <1>3 DEF TypeOK
<1>5. CopiesAgree'
  BY <1>1, <1>2 DEF CopiesAgree
<1>6. PhasesFit'
  BY <1>1, <1>2 DEF PhasesFit
<1>7. RunsAreNumbered'
  BY <1>1, <1>2 DEF RunsAreNumbered
<1>8. RunsAreFound'
  BY <1>1, <1>2 DEF RunsAreFound
<1>9. GesturesStay'
  BY <1>1, <1>2 DEF GesturesStay
<1>10. EndsAreTold'
  BY <1>1, <1>2 DEF EndsAreTold
<1>11. NothingSilentlyLost'
  BY <1>1, <1>2 DEF NothingSilentlyLost
<1>12. OnePlace'
  BY <1>1, <1>2 DEF OnePlace, Undisturbed, Effective, Current, Queued
<1>13. LaunchesFit'
  BY <1>1, <1>2 DEF LaunchesFit, Undisturbed, At
<1>14. LivingAreCurrent'
  BY <1>1, <1>2 DEF LivingAreCurrent, Undisturbed, Live, Current
<1>15. DyingAreDead'
  BY <1>1, <1>2 DEF DyingAreDead, Undisturbed, Live
<1>16. FailuresAreErrors'
  BY <1>1, <1>2 DEF FailuresAreErrors, Undisturbed
<1>17. CapIsKept'
  BY <1>1, <1>2 DEF CapIsKept, Undisturbed, Living, Live
<1>18. NotesAreFinal'
  BY <1>1, <1>2 DEF NotesAreFinal, Current
<1>. QED
  BY <1>4, <1>5, <1>6, <1>7, <1>8, <1>9, <1>10, <1>11, <1>12, <1>13, <1>14, <1>15,
     <1>16, <1>17, <1>18
  DEF IInv

\* The last run of a conversation is forgotten.
LEMMA DismissKeeps ==
    ASSUME IInv, NEW c \in Conv, Dismiss(c)
    PROVE  IInv'
<1>1. /\ TypeOK /\ CopiesAgree /\ PhasesFit /\ RunsAreNumbered /\ RunsAreFound
      /\ GesturesStay /\ EndsAreTold /\ NothingSilentlyLost /\ OnePlace /\ LaunchesFit
      /\ LivingAreCurrent /\ DyingAreDead /\ FailuresAreErrors /\ CapIsKept /\ NotesAreFinal
  BY DEF IInv
<1>2. /\ UNCHANGED <<hosted, mem, cyc, home, request, pidFile, artifact, dirs,
                  began, replies, verdicts, told, silent, crashes, failures, hangs>>
      /\ NewRun' = NewRun
      /\ cyc = None /\ commands' = commands + 1
  BY DEF Dismiss, files, history, Command, NewRun
<1>3. /\ disk' \in Files /\ disk'.seen = disk.seen
      /\ \A d \in Conv :
           /\ disk'.conv[d].run = disk.conv[d].run
           /\ disk'.conv[d].status = disk.conv[d].status
           /\ disk'.conv[d].pending = disk.conv[d].pending
           /\ disk'.conv[d].task = disk.conv[d].task
  <2>1. disk \in Files /\ disk' = [disk EXCEPT !.conv[c].last = None]
    BY <1>1 DEF Dismiss, TypeOK
  <2>. QED BY SMTT(30), <2>1 DEF Files, Records
<1>4. /\ worker' \in [Run -> {"none", "starting", "running", "ended"}]
      /\ \A s \in Run :
           /\ Live(s)' => Live(s)
           /\ worker'[s] = "none" <=> worker[s] = "none"
           /\ worker'[s] = "starting" => worker[s] = "starting"
      /\ Living' \subseteq Living
  <2>1. worker' = worker \/ worker' = Killed(InSession(c))
    BY DEF Dismiss, KilledLast
  <2>2. CASE worker' = worker
    BY <1>1, <2>2 DEF Living, Live, TypeOK
  <2>3. CASE worker' = Killed(InSession(c))
    BY <1>1, <2>3, KilledEffect
  <2>. QED BY <2>1, <2>2, <2>3
<1>5. /\ Cardinality(Living) \in Nat /\ Cardinality(Living') \in Nat
      /\ Cardinality(Living') <= Cardinality(Living)
  BY <1>4, LocalAssumption, FewerLiving
<1>6. TypeOK'
  BY <1>1, <1>2, <1>3, <1>4 DEF TypeOK
<1>7. CopiesAgree'
  BY <1>2 DEF CopiesAgree
<1>8. PhasesFit'
  BY <1>2 DEF PhasesFit
<1>9. RunsAreNumbered'
  BY <1>1, <1>2, <1>4 DEF RunsAreNumbered
<1>10. RunsAreFound'
  BY <1>1, <1>2, <1>3 DEF RunsAreFound, HasRun
<1>11. GesturesStay'
  BY <1>1, <1>2, <1>3, <1>5 DEF GesturesStay, HasRun
<1>12. EndsAreTold'
  BY <1>1, <1>2 DEF EndsAreTold
<1>13. NothingSilentlyLost'
  BY <1>1, <1>2, <1>3 DEF NothingSilentlyLost
<1>14. OnePlace'
  BY <1>1, <1>2, <1>3, <1>4 DEF OnePlace, Undisturbed, Effective, Current, Queued
<1>15. LaunchesFit'
  BY <1>1, <1>2, <1>3, <1>4, RecordsName DEF LaunchesFit, Undisturbed, HasRun, At
<1>16. LivingAreCurrent'
  BY <1>1, <1>2, <1>3, <1>4 DEF LivingAreCurrent, Undisturbed, Current
<1>17. DyingAreDead'
  BY <1>2 DEF DyingAreDead
<1>18. FailuresAreErrors'
  BY <1>1, <1>2 DEF FailuresAreErrors, Undisturbed
<1>19. CapIsKept'
  BY <1>1, <1>2, <1>5, LocalAssumption DEF CapIsKept, Undisturbed
<1>20. NotesAreFinal'
  BY <1>1, <1>2, <1>3 DEF NotesAreFinal, Current
<1>. QED
  BY <1>6, <1>7, <1>8, <1>9, <1>10, <1>11, <1>12, <1>13, <1>14, <1>15, <1>16, <1>17,
     <1>18, <1>19, <1>20
  DEF IInv

\* A conversation at rest is wiped.
LEMMA WipeKeeps ==
    ASSUME IInv, NEW c \in Conv, Wipe(c)
    PROVE  IInv'
<1>1. /\ TypeOK /\ CopiesAgree /\ PhasesFit /\ RunsAreNumbered /\ RunsAreFound
      /\ GesturesStay /\ EndsAreTold /\ NothingSilentlyLost /\ OnePlace /\ LaunchesFit
      /\ LivingAreCurrent /\ DyingAreDead /\ FailuresAreErrors /\ CapIsKept /\ NotesAreFinal
  BY DEF IInv
<1>2. /\ UNCHANGED <<hosted, mem, cyc, home, request, pidFile, artifact, began,
                  replies, verdicts, silent, crashes, failures, hangs>>
      /\ NewRun' = NewRun
      /\ cyc = None /\ commands' = commands + 1 /\ disk.conv[c].run = None
      /\ dirs' = {r \in dirs : home[r] # c}
      /\ told' = told \cup disk.conv[c].pending \cup disk.conv[c].task
  BY DEF Wipe, Command, NewRun
<1>3. /\ disk' \in Files /\ disk'.seen = disk.seen
      /\ disk'.conv[c].run = None /\ disk'.conv[c].status = "absent"
      /\ disk'.conv[c].pending = {} /\ disk'.conv[c].task = {}
      /\ \A d \in Conv \ {c} : disk'.conv[d] = disk.conv[d]
  <2>1. disk \in Files /\ disk' = [disk EXCEPT !.conv[c] = Absent]
    BY <1>1 DEF Wipe, TypeOK
  <2>2. /\ Absent \in Records /\ Absent.run = None /\ Absent.status = "absent"
        /\ Absent.pending = {} /\ Absent.task = {}
    BY DEF Absent, Records, Statuses
  <2>. QED BY <2>1, <2>2 DEF Files
<1>4. /\ worker' \in [Run -> {"none", "starting", "running", "ended"}]
      /\ \A s \in Run :
           /\ Live(s)' => Live(s)
           /\ worker'[s] = "none" <=> worker[s] = "none"
           /\ worker'[s] = "starting" => worker[s] = "starting"
      /\ Living' \subseteq Living
  <2>1. worker' = worker \/ worker' = Killed(InSession(c))
    BY DEF Wipe, KilledLast
  <2>2. CASE worker' = worker
    BY <1>1, <2>2 DEF Living, Live, TypeOK
  <2>3. CASE worker' = Killed(InSession(c))
    BY <1>1, <2>3, KilledEffect
  <2>. QED BY <2>1, <2>2, <2>3
<1>5. /\ Cardinality(Living) \in Nat /\ Cardinality(Living') \in Nat
      /\ Cardinality(Living') <= Cardinality(Living)
  BY <1>4, LocalAssumption, FewerLiving
<1>6. TypeOK'
  BY <1>1, <1>2, <1>3, <1>4 DEF TypeOK, Files, RunsAreFound, HasRun
<1>7. CopiesAgree'
  BY <1>2 DEF CopiesAgree
<1>8. PhasesFit'
  BY <1>2 DEF PhasesFit
<1>9. RunsAreNumbered'
  BY <1>1, <1>2, <1>4 DEF RunsAreNumbered
<1>10. RunsAreFound'
  BY <1>1, <1>2, <1>3 DEF RunsAreFound, HasRun
<1>11. GesturesStay'
  BY <1>1, <1>2, <1>3 DEF GesturesStay
<1>12. EndsAreTold'
  BY <1>1, <1>2 DEF EndsAreTold
<1>13. NothingSilentlyLost'
  BY <1>1, <1>2, <1>3 DEF NothingSilentlyLost
<1>14. OnePlace'
  BY <1>1, <1>2, <1>3, <1>4 DEF OnePlace, Undisturbed, Effective, Current, Queued
<1>15. LaunchesFit'
  BY <1>1, <1>2, <1>3, <1>4, RecordsName DEF LaunchesFit, Undisturbed, HasRun, At
<1>16. LivingAreCurrent'
  BY <1>1, <1>2, <1>3, <1>4 DEF LivingAreCurrent, Undisturbed, Current
<1>17. DyingAreDead'
  BY <1>2 DEF DyingAreDead
<1>18. FailuresAreErrors'
  BY <1>1, <1>2 DEF FailuresAreErrors, Undisturbed
<1>19. CapIsKept'
  BY <1>1, <1>2, <1>5, LocalAssumption DEF CapIsKept, Undisturbed
<1>20. NotesAreFinal'
  BY <1>1, <1>2, <1>3 DEF NotesAreFinal, Current
<1>. QED
  BY <1>6, <1>7, <1>8, <1>9, <1>10, <1>11, <1>12, <1>13, <1>14, <1>15, <1>16, <1>17,
     <1>18, <1>19, <1>20
  DEF IInv

\* An artifact is looked at.
LEMMA ArtifactKeeps ==
    ASSUME IInv, Artifact
    PROVE  IInv'
<1>1. /\ TypeOK /\ CopiesAgree /\ PhasesFit /\ RunsAreNumbered /\ RunsAreFound
      /\ GesturesStay /\ EndsAreTold /\ NothingSilentlyLost /\ OnePlace /\ LaunchesFit
      /\ LivingAreCurrent /\ DyingAreDead /\ FailuresAreErrors /\ CapIsKept /\ NotesAreFinal
  BY DEF IInv
<1>2. /\ UNCHANGED <<hosted, mem, home, request, pidFile, artifact, dirs, worker,
                  began, replies, verdicts, told, silent, crashes, failures, hangs, commands>>
      /\ NewRun' = NewRun
      /\ cyc # None /\ cyc.phase = "heal" /\ cyc.at # "save" 
      /\ artifact[MyRun] # "none" /\ cyc.at \in {"start", "recheck", "again"}
  BY DEF Artifact, files, history, bounds, workers, At, NewRun
<1>3. /\ cyc \in Cycles /\ cyc.c \in Conv /\ mem = disk /\ mem \in Files /\ mem # None
      /\ Here = disk.conv[cyc.c] /\ Here \in Records /\ HasRun(disk.conv[cyc.c])
  BY <1>1, <1>2, AtWork, NoneAssumption DEF PhasesFit
<1>4. PICK r \in Run :
        /\ r = MyRun /\ r = disk.conv[cyc.c].run.id /\ home[r] = cyc.c
        /\ Current(r) /\ Here.run \in RunRecords
        /\ \A c \in Conv : Names(disk.conv[c].run, r) => c = cyc.c
  BY <1>2, <1>3, RunAtWork
<1>5. /\ cyc' \in Cycles /\ cyc' # None /\ cyc'.at = IF artifact[MyRun] = "result" THEN "post" ELSE "fail"
      /\ cyc'.phase = cyc.phase /\ cyc'.active = cyc.active /\ cyc'.c = cyc.c
  BY <1>1, <1>2, StepsOn DEF Artifact
<1>6. disk' = disk /\ artifact[r] \in {"none", "result", "error"}
  BY <1>1, <1>3 DEF Artifact, TypeOK
<1>7. TypeOK'
  BY <1>1, <1>2, <1>5, <1>6 DEF TypeOK
<1>8. CopiesAgree'
  BY <1>1, <1>2, <1>5, <1>6 DEF CopiesAgree, Steps
<1>9. PhasesFit'
  BY <1>1, <1>2, <1>5, <1>6 DEF PhasesFit
<1>10. RunsAreNumbered'
  BY <1>1, <1>2 DEF RunsAreNumbered
<1>11. RunsAreFound'
  BY <1>1, <1>2, <1>5, <1>6 DEF RunsAreFound
<1>12. GesturesStay'
  BY <1>1, <1>2, <1>5, <1>6 DEF GesturesStay
<1>13. EndsAreTold'
  BY <1>1, <1>2, <1>5, <1>6 DEF EndsAreTold
<1>14. NothingSilentlyLost'
  BY <1>1, <1>2, <1>5, <1>6 DEF NothingSilentlyLost
<1>15. OnePlace'
  BY <1>1, <1>2, <1>5, <1>6
  DEF OnePlace, Undisturbed, Effective, Current, Names, Queued
<1>16. LaunchesFit'
  BY <1>1, <1>2, <1>5, <1>6 DEF LaunchesFit, Undisturbed, At
<1>17. LivingAreCurrent'
  BY <1>1, <1>2, <1>5, <1>6 DEF LivingAreCurrent, Undisturbed, Live, Current, Names
<1>18. DyingAreDead'
  BY <1>1, <1>2, <1>3, <1>4, <1>5, <1>6
  DEF DyingAreDead, Undisturbed, Live, LivingAreCurrent
<1>19. FailuresAreErrors'
  BY <1>1, <1>2 DEF FailuresAreErrors, Undisturbed
<1>20. CapIsKept'
  BY <1>1, <1>2, <1>5, <1>6 DEF CapIsKept, Undisturbed, Living, Live
<1>21. NotesAreFinal'
  BY <1>1, <1>2, <1>5, <1>6 DEF NotesAreFinal, Current, Names
<1>. QED
  BY <1>7, <1>8, <1>9, <1>10, <1>11, <1>12, <1>13, <1>14, <1>15, <1>16, <1>17, <1>18,
     <1>19, <1>20, <1>21
  DEF IInv

\* There is no artifact yet.
LEMMA NoArtifactKeeps ==
    ASSUME IInv, NoArtifact
    PROVE  IInv'
<1>1. /\ TypeOK /\ CopiesAgree /\ PhasesFit /\ RunsAreNumbered /\ RunsAreFound
      /\ GesturesStay /\ EndsAreTold /\ NothingSilentlyLost /\ OnePlace /\ LaunchesFit
      /\ LivingAreCurrent /\ DyingAreDead /\ FailuresAreErrors /\ CapIsKept /\ NotesAreFinal
  BY DEF IInv
<1>2. /\ UNCHANGED <<hosted, disk, mem, home, request, pidFile, artifact, dirs,
                  worker, began, replies, verdicts, told, silent, crashes, failures, hangs,
                  commands>>
      /\ NewRun' = NewRun
      /\ cyc # None /\ cyc.phase = "heal" /\ cyc.at # "save" /\ cyc.at = "start"
  BY DEF NoArtifact, files, history, bounds, workers, At, NewRun
<1>3. /\ cyc \in Cycles /\ cyc.c \in Conv /\ mem = disk /\ mem \in Files /\ mem # None
      /\ Here = disk.conv[cyc.c] /\ Here \in Records /\ HasRun(disk.conv[cyc.c])
  BY <1>1, <1>2, AtWork, NoneAssumption DEF PhasesFit
<1>4. PICK r \in Run :
        /\ r = MyRun /\ r = disk.conv[cyc.c].run.id /\ home[r] = cyc.c
        /\ Current(r) /\ Here.run \in RunRecords
        /\ \A c \in Conv : Names(disk.conv[c].run, r) => c = cyc.c
  BY <1>2, <1>3, RunAtWork
<1>5. /\ cyc' \in Cycles /\ cyc' # None /\ cyc'.at = "probe"
      /\ cyc'.phase = cyc.phase /\ cyc'.active = cyc.active /\ cyc'.c = cyc.c
  BY <1>1, <1>2, StepsOn DEF NoArtifact
<1>6. TypeOK'
  BY <1>1, <1>2, <1>5 DEF TypeOK
<1>7. CopiesAgree'
  BY <1>1, <1>2, <1>5 DEF CopiesAgree, Steps
<1>8. PhasesFit'
  BY <1>1, <1>2, <1>5 DEF PhasesFit
<1>9. RunsAreNumbered'
  BY <1>1, <1>2 DEF RunsAreNumbered
<1>10. RunsAreFound'
  BY <1>1, <1>2 DEF RunsAreFound
<1>11. GesturesStay'
  BY <1>1, <1>2 DEF GesturesStay
<1>12. EndsAreTold'
  BY <1>1, <1>2, <1>5 DEF EndsAreTold
<1>13. NothingSilentlyLost'
  BY <1>1, <1>2 DEF NothingSilentlyLost
<1>14. OnePlace'
  BY <1>1, <1>2 DEF OnePlace, Undisturbed, Effective, Current, Queued
<1>15. LaunchesFit'
  BY <1>1, <1>2, <1>5 DEF LaunchesFit, Undisturbed, At
<1>16. LivingAreCurrent'
  BY <1>1, <1>2 DEF LivingAreCurrent, Undisturbed, Live, Current
<1>17. DyingAreDead'
  BY <1>2, <1>5 DEF DyingAreDead, Live
<1>18. FailuresAreErrors'
  BY <1>1, <1>2 DEF FailuresAreErrors, Undisturbed
<1>19. CapIsKept'
  BY <1>1, <1>2, <1>5 DEF CapIsKept, Undisturbed, Living, Live
<1>20. NotesAreFinal'
  BY <1>1, <1>2 DEF NotesAreFinal, Current
<1>. QED
  BY <1>6, <1>7, <1>8, <1>9, <1>10, <1>11, <1>12, <1>13, <1>14, <1>15, <1>16, <1>17,
     <1>18, <1>19, <1>20
  DEF IInv

\* A note cannot be posted: the run stays as it is.
LEMMA ReplyFailsKeeps ==
    ASSUME IInv, ReplyFails
    PROVE  IInv'
<1>1. /\ TypeOK /\ CopiesAgree /\ PhasesFit /\ RunsAreNumbered /\ RunsAreFound
      /\ GesturesStay /\ EndsAreTold /\ NothingSilentlyLost /\ OnePlace /\ LaunchesFit
      /\ LivingAreCurrent /\ DyingAreDead /\ FailuresAreErrors /\ CapIsKept /\ NotesAreFinal
  BY DEF IInv
<1>2. /\ UNCHANGED <<hosted, disk, mem, home, request, pidFile, artifact, dirs,
                  worker, began, replies, verdicts, told, silent, crashes, hangs, commands>>
      /\ NewRun' = NewRun
      /\ cyc # None /\ cyc.phase = "heal" /\ cyc.at # "save" 
      /\ failures' = failures + 1 /\ cyc.at = "post"
  BY DEF ReplyFails, files, history, workers, At, Fail, NewRun
<1>3. /\ cyc \in Cycles /\ cyc.c \in Conv /\ mem = disk /\ mem \in Files /\ mem # None
      /\ Here = disk.conv[cyc.c] /\ Here \in Records /\ HasRun(disk.conv[cyc.c])
  BY <1>1, <1>2, AtWork, NoneAssumption DEF PhasesFit
<1>4. PICK r \in Run :
        /\ r = MyRun /\ r = disk.conv[cyc.c].run.id /\ home[r] = cyc.c
        /\ Current(r) /\ Here.run \in RunRecords
        /\ \A c \in Conv : Names(disk.conv[c].run, r) => c = cyc.c
  BY <1>2, <1>3, RunAtWork
<1>5. /\ cyc' \in Cycles /\ cyc' # None /\ cyc'.at = "start" /\ cyc'.phase \in {"heal", "poll"}
      /\ cyc'.phase = "heal" => HasRun(mem.conv[cyc'.c])
  BY <1>2, <1>3, GoesOn DEF ReplyFails
<1>6. failures \in Nat /\ failures' \in Nat /\ failures' > 0
  BY <1>1, <1>2 DEF TypeOK
<1>7. TypeOK'
  BY <1>1, <1>2, <1>5, <1>6 DEF TypeOK
<1>8. CopiesAgree'
  BY <1>1, <1>2, <1>5, <1>6 DEF CopiesAgree, Steps
<1>9. PhasesFit'
  BY <1>2, <1>3, <1>5 DEF PhasesFit
<1>10. RunsAreNumbered'
  BY <1>1, <1>2 DEF RunsAreNumbered
<1>11. RunsAreFound'
  BY <1>1, <1>2 DEF RunsAreFound
<1>12. GesturesStay'
  BY <1>1, <1>2 DEF GesturesStay
<1>13. EndsAreTold'
  BY <1>5, <1>6 DEF EndsAreTold
<1>14. NothingSilentlyLost'
  BY <1>1, <1>2, <1>5, <1>6 DEF NothingSilentlyLost
<1>15. OnePlace'
  BY <1>1, <1>2 DEF OnePlace, Undisturbed, Effective, Current, Queued
<1>16. LaunchesFit'
  BY <1>1, <1>2, <1>5, <1>6 DEF LaunchesFit, Undisturbed, At
<1>17. LivingAreCurrent'
  BY <1>1, <1>2 DEF LivingAreCurrent, Undisturbed, Live, Current
<1>18. DyingAreDead'
  BY <1>2, <1>5, <1>6 DEF DyingAreDead, Undisturbed, Live
<1>19. FailuresAreErrors'
  BY <1>1, <1>2 DEF FailuresAreErrors, Undisturbed
<1>20. CapIsKept'
  BY <1>1, <1>2, <1>5 DEF CapIsKept, Undisturbed, Living, Live
<1>21. NotesAreFinal'
  BY <1>6 DEF NotesAreFinal, Names
<1>. QED
  BY <1>7, <1>8, <1>9, <1>10, <1>11, <1>12, <1>13, <1>14, <1>15, <1>16, <1>17, <1>18,
     <1>19, <1>20, <1>21
  DEF IInv

\* No artifact still: a last look follows.
LEMMA RecheckKeeps ==
    ASSUME IInv, Recheck
    PROVE  IInv'
<1>1. /\ TypeOK /\ CopiesAgree /\ PhasesFit /\ RunsAreNumbered /\ RunsAreFound
      /\ GesturesStay /\ EndsAreTold /\ NothingSilentlyLost /\ OnePlace /\ LaunchesFit
      /\ LivingAreCurrent /\ DyingAreDead /\ FailuresAreErrors /\ CapIsKept /\ NotesAreFinal
  BY DEF IInv
<1>2. /\ UNCHANGED <<hosted, disk, mem, home, request, pidFile, artifact, dirs,
                  worker, began, replies, verdicts, told, silent, crashes, failures, hangs,
                  commands>>
      /\ NewRun' = NewRun
      /\ cyc # None /\ cyc.phase = "heal" /\ cyc.at # "save" /\ cyc.at = "recheck"
  BY DEF Recheck, files, history, bounds, workers, At, NewRun
<1>3. /\ cyc \in Cycles /\ cyc.c \in Conv /\ mem = disk /\ mem \in Files /\ mem # None
      /\ Here = disk.conv[cyc.c] /\ Here \in Records /\ HasRun(disk.conv[cyc.c])
  BY <1>1, <1>2, AtWork, NoneAssumption DEF PhasesFit
<1>4. PICK r \in Run :
        /\ r = MyRun /\ r = disk.conv[cyc.c].run.id /\ home[r] = cyc.c
        /\ Current(r) /\ Here.run \in RunRecords
        /\ \A c \in Conv : Names(disk.conv[c].run, r) => c = cyc.c
  BY <1>2, <1>3, RunAtWork
<1>5. /\ cyc' \in Cycles /\ cyc' # None /\ cyc'.at = "again"
      /\ cyc'.phase = cyc.phase /\ cyc'.active = cyc.active /\ cyc'.c = cyc.c
  BY <1>1, <1>2, StepsOn DEF Recheck
<1>6. TypeOK'
  BY <1>1, <1>2, <1>5 DEF TypeOK
<1>7. CopiesAgree'
  BY <1>1, <1>2, <1>5 DEF CopiesAgree, Steps
<1>8. PhasesFit'
  BY <1>1, <1>2, <1>5 DEF PhasesFit
<1>9. RunsAreNumbered'
  BY <1>1, <1>2 DEF RunsAreNumbered
<1>10. RunsAreFound'
  BY <1>1, <1>2 DEF RunsAreFound
<1>11. GesturesStay'
  BY <1>1, <1>2 DEF GesturesStay
<1>12. EndsAreTold'
  BY <1>1, <1>2, <1>5 DEF EndsAreTold
<1>13. NothingSilentlyLost'
  BY <1>1, <1>2 DEF NothingSilentlyLost
<1>14. OnePlace'
  BY <1>1, <1>2 DEF OnePlace, Undisturbed, Effective, Current, Queued
<1>15. LaunchesFit'
  BY <1>1, <1>2, <1>5 DEF LaunchesFit, Undisturbed, At
<1>16. LivingAreCurrent'
  BY <1>1, <1>2 DEF LivingAreCurrent, Undisturbed, Live, Current
<1>17. DyingAreDead'
  BY <1>1, <1>2, <1>5 DEF DyingAreDead, Undisturbed, Live
<1>18. FailuresAreErrors'
  BY <1>1, <1>2 DEF FailuresAreErrors, Undisturbed
<1>19. CapIsKept'
  BY <1>1, <1>2, <1>5 DEF CapIsKept, Undisturbed, Living, Live
<1>20. NotesAreFinal'
  BY <1>1, <1>2 DEF NotesAreFinal, Current
<1>. QED
  BY <1>6, <1>7, <1>8, <1>9, <1>10, <1>11, <1>12, <1>13, <1>14, <1>15, <1>16, <1>17,
     <1>18, <1>19, <1>20
  DEF IInv

\* A run that left no artifact gets one.
LEMMA DisappearedKeeps ==
    ASSUME IInv, Disappeared
    PROVE  IInv'
<1>1. /\ TypeOK /\ CopiesAgree /\ PhasesFit /\ RunsAreNumbered /\ RunsAreFound
      /\ GesturesStay /\ EndsAreTold /\ NothingSilentlyLost /\ OnePlace /\ LaunchesFit
      /\ LivingAreCurrent /\ DyingAreDead /\ FailuresAreErrors /\ CapIsKept /\ NotesAreFinal
  BY DEF IInv
<1>2. /\ UNCHANGED <<hosted, disk, mem, home, request, pidFile, dirs, worker, began,
                  replies, verdicts, told, silent, crashes, failures, hangs, commands>>
      /\ NewRun' = NewRun
      /\ cyc # None /\ cyc.phase = "heal" /\ cyc.at # "save" 
      /\ artifact[MyRun] = "none" /\ cyc.at = "again"
      /\ artifact' = [artifact EXCEPT ![MyRun] = "error"]
  BY DEF Disappeared, history, bounds, workers, At, NewRun
<1>3. /\ cyc \in Cycles /\ cyc.c \in Conv /\ mem = disk /\ mem \in Files /\ mem # None
      /\ Here = disk.conv[cyc.c] /\ Here \in Records /\ HasRun(disk.conv[cyc.c])
  BY <1>1, <1>2, AtWork, NoneAssumption DEF PhasesFit
<1>4. PICK r \in Run :
        /\ r = MyRun /\ r = disk.conv[cyc.c].run.id /\ home[r] = cyc.c
        /\ Current(r) /\ Here.run \in RunRecords
        /\ \A c \in Conv : Names(disk.conv[c].run, r) => c = cyc.c
  BY <1>2, <1>3, RunAtWork
<1>5. /\ cyc' \in Cycles /\ cyc' # None /\ cyc'.at = "fail"
      /\ cyc'.phase = cyc.phase /\ cyc'.active = cyc.active /\ cyc'.c = cyc.c
  BY <1>1, <1>2, StepsOn DEF Disappeared
<1>6. /\ home[r] # None /\ artifact' = [artifact EXCEPT ![r] = "error"]
      /\ artifact' \in [Run -> {"none", "result", "error"}]
  BY <1>1, <1>2, <1>3, <1>4, NoneAssumption DEF NoneAssumption, TypeOK
<1>7. TypeOK'
  BY <1>1, <1>2, <1>5, <1>6 DEF TypeOK
<1>8. CopiesAgree'
  BY <1>1, <1>2, <1>5, <1>6 DEF CopiesAgree, Steps
<1>9. PhasesFit'
  BY <1>1, <1>2, <1>5, <1>6 DEF PhasesFit
<1>10. RunsAreNumbered'
  BY <1>1, <1>2, <1>5, <1>6 DEF RunsAreNumbered
<1>11. RunsAreFound'
  BY <1>1, <1>2 DEF RunsAreFound
<1>12. GesturesStay'
  BY <1>1, <1>2 DEF GesturesStay
<1>13. EndsAreTold'
  BY <1>1, <1>2, <1>5, <1>6 DEF EndsAreTold
<1>14. NothingSilentlyLost'
  BY <1>1, <1>2 DEF NothingSilentlyLost
<1>15. OnePlace'
  BY <1>1, <1>2 DEF OnePlace, Undisturbed, Effective, Current, Queued
<1>16. LaunchesFit'
  BY <1>1, <1>2, <1>5, <1>6 DEF LaunchesFit, Undisturbed, At
<1>17. LivingAreCurrent'
  BY ZenonT(40), <1>1, <1>2, <1>3, <1>4, <1>5, <1>6
  DEF LivingAreCurrent, Undisturbed, Live, Current, Names, DyingAreDead
<1>18. DyingAreDead'
  <2>1. Undisturbed' => ~Live(r)'
    BY <1>1, <1>2, <1>3, <1>4 DEF DyingAreDead, Undisturbed, Live
  <2>2. artifact'[r] = "error"
    BY <1>1, <1>6 DEF TypeOK
  <2> QED BY <1>2, <1>4, <1>5, <2>1, <2>2 DEF DyingAreDead, Undisturbed, Live
<1>19. FailuresAreErrors'
  BY <1>1, <1>2 DEF FailuresAreErrors, Undisturbed
<1>20. CapIsKept'
  BY <1>1, <1>2, <1>5, <1>6 DEF CapIsKept, Undisturbed, Living, Live
<1>21. NotesAreFinal'
  BY <1>1, <1>2 DEF NotesAreFinal, Current
<1>. QED
  BY <1>7, <1>8, <1>9, <1>10, <1>11, <1>12, <1>13, <1>14, <1>15, <1>16, <1>17, <1>18,
     <1>19, <1>20, <1>21
  DEF IInv

\* What the run started is killed, unless it has ended.
LEMMA ExpireKeeps ==
    ASSUME IInv, Expire
    PROVE  IInv'
<1>1. /\ TypeOK /\ CopiesAgree /\ PhasesFit /\ RunsAreNumbered /\ RunsAreFound
      /\ GesturesStay /\ EndsAreTold /\ NothingSilentlyLost /\ OnePlace /\ LaunchesFit
      /\ LivingAreCurrent /\ DyingAreDead /\ FailuresAreErrors /\ CapIsKept /\ NotesAreFinal
  BY DEF IInv
<1>2. /\ UNCHANGED <<hosted, disk, mem, home, request, pidFile, artifact, dirs,
                  began, replies, verdicts, told, silent, crashes, failures, hangs, commands>>
      /\ NewRun' = NewRun
      /\ cyc # None /\ cyc.phase = "heal" /\ cyc.at # "save" /\ cyc.at = "expired"
  BY DEF Expire, files, history, bounds, At, NewRun
<1>3. /\ cyc \in Cycles /\ cyc.c \in Conv /\ mem = disk /\ mem \in Files /\ mem # None
      /\ Here = disk.conv[cyc.c] /\ Here \in Records /\ HasRun(disk.conv[cyc.c])
  BY <1>1, <1>2, AtWork, NoneAssumption DEF PhasesFit
<1>4. PICK r \in Run :
        /\ r = MyRun /\ r = disk.conv[cyc.c].run.id /\ home[r] = cyc.c
        /\ Current(r) /\ Here.run \in RunRecords
        /\ \A c \in Conv : Names(disk.conv[c].run, r) => c = cyc.c
  BY <1>2, <1>3, RunAtWork
<1>5. /\ cyc' \in Cycles /\ cyc' # None /\ cyc'.at = "again"
      /\ cyc'.phase = cyc.phase /\ cyc'.active = cyc.active /\ cyc'.c = cyc.c
  BY <1>1, <1>2, StepsOn DEF Expire
<1>6. \/ /\ worker' = worker /\ artifact[r] # "none"
      \/ worker' = Killed({s \in InSession(cyc.c) : Here.run.tmux}
                              \cup (IF Pid THEN {r} ELSE {}))
  BY <1>4 DEF Expire
<1>7. /\ worker' \in [Run -> {"none", "starting", "running", "ended"}]
      /\ \A s \in Run :
           /\ Live(s)' => Live(s)
           /\ worker'[s] = "none" <=> worker[s] = "none"
           /\ worker'[s] = "starting" => worker[s] = "starting"
      /\ Living' \subseteq Living
  <2>1. CASE worker' = worker
    BY <1>1, <2>1 DEF Living, Live, TypeOK
  <2>2. CASE worker' # worker
    BY <1>1, <1>6, <2>2, KilledEffect
  <2>. QED BY <2>1, <2>2
<1>8. /\ Cardinality(Living) \in Nat /\ Cardinality(Living') \in Nat
      /\ Cardinality(Living') <= Cardinality(Living)
  BY <1>7, LocalAssumption, FewerLiving
<1>9. Undisturbed => ~Live(r)'
  <2>1. CASE worker' = worker /\ artifact[r] # "none"
    BY <1>1, <2>1 DEF LivingAreCurrent, Live
  <2>2. CASE worker' = Killed({s \in InSession(cyc.c) : Here.run.tmux}
                              \cup (IF Pid THEN {r} ELSE {}))
    <3>1. Live(r)' => Live(r) /\ (r \notin InSession(cyc.c) \/ ~Here.run.tmux) /\ ~Pid
      BY <1>1, <2>2, KilledEffect
    <3>2. Here.run.tmux /\ Live(r) => r \in InSession(cyc.c)
      BY <1>1, <1>3, <1>4 DEF RunsAreFound, InSession
    <3>3. Undisturbed => Here.run.tmux \/ ~Live(r) \/ Pid
      BY <1>1, <1>2, <1>3, <1>4 DEF DyingAreDead, Pid
    <3>. QED BY <3>1, <3>2, <3>3, <1>7
  <2>. QED BY <1>6, <2>1, <2>2
<1>10. TypeOK'
  BY <1>1, <1>2, <1>5, <1>6, <1>7, <1>8, <1>9 DEF TypeOK
<1>11. CopiesAgree'
  BY <1>1, <1>2, <1>5, <1>6, <1>7, <1>8, <1>9 DEF CopiesAgree, Steps
<1>12. PhasesFit'
  BY <1>1, <1>2, <1>5, <1>6, <1>7, <1>8, <1>9 DEF PhasesFit
<1>13. RunsAreNumbered'
  BY <1>1, <1>2, <1>5, <1>6, <1>7, <1>8, <1>9 DEF RunsAreNumbered
<1>14. RunsAreFound'
  BY <1>1, <1>2 DEF RunsAreFound
<1>15. GesturesStay'
  BY <1>1, <1>2 DEF GesturesStay
<1>16. EndsAreTold'
  BY <1>1, <1>2, <1>5, <1>6, <1>7, <1>8, <1>9 DEF EndsAreTold
<1>17. NothingSilentlyLost'
  BY <1>1, <1>2 DEF NothingSilentlyLost
<1>18. OnePlace'
  BY <1>1, <1>2, <1>5, <1>6, <1>7, <1>8, <1>9
  DEF OnePlace, Undisturbed, Effective, Current, Names, Queued
<1>19. LaunchesFit'
  BY <1>1, <1>2, <1>5, <1>7, RecordsName DEF LaunchesFit, Undisturbed, At
<1>20. LivingAreCurrent'
  BY <1>1, <1>2, <1>5, <1>6, <1>7, <1>8, <1>9
  DEF LivingAreCurrent, Undisturbed, Live, Current, Names
<1>21. DyingAreDead'
  BY <1>2, <1>4, <1>5, <1>9 DEF DyingAreDead, Undisturbed
<1>22. FailuresAreErrors'
  BY <1>1, <1>2 DEF FailuresAreErrors, Undisturbed
<1>23. CapIsKept'
  BY <1>1, <1>2, <1>5, <1>8, LocalAssumption DEF CapIsKept, Undisturbed
<1>24. NotesAreFinal'
  BY <1>1, <1>2 DEF NotesAreFinal, Current
<1>. QED
  BY <1>10, <1>11, <1>12, <1>13, <1>14, <1>15, <1>16, <1>17, <1>18, <1>19, <1>20,
     <1>21, <1>22, <1>23, <1>24
  DEF IInv

\* The project is left out of this cycle.
LEMMA PollFailsKeeps ==
    ASSUME IInv, PollFails
    PROVE  IInv'
<1>1. /\ TypeOK /\ CopiesAgree /\ PhasesFit /\ RunsAreNumbered /\ RunsAreFound
      /\ GesturesStay /\ EndsAreTold /\ NothingSilentlyLost /\ OnePlace /\ LaunchesFit
      /\ LivingAreCurrent /\ DyingAreDead /\ FailuresAreErrors /\ CapIsKept /\ NotesAreFinal
  BY DEF IInv
<1>2. /\ UNCHANGED <<hosted, disk, mem, home, request, pidFile, artifact, dirs,
                  worker, began, replies, verdicts, told, silent, crashes, hangs, commands>>
      /\ NewRun' = NewRun
      /\ cyc # None /\ cyc.at = "start" /\ cyc.phase = "poll"
      /\ failures' = failures + 1
      /\ cyc' = [cyc EXCEPT !.phase = "final"]
  BY DEF PollFails, files, history, workers, Fail, At, NewRun
<1>3. failures \in Nat /\ cyc \in Cycles
  BY <1>1, <1>2 DEF TypeOK
<1>4. /\ cyc' \in Cycles /\ cyc' # None /\ cyc'.at = "start" /\ cyc'.phase = "final"
      /\ cyc'.c = cyc.c /\ cyc'.active = cyc.active
  BY <1>2, <1>3, NoneAssumption DEF Cycles
<1>5. TypeOK'
  BY <1>1, <1>2, <1>4 DEF TypeOK
<1>6. CopiesAgree'
  BY <1>1, <1>2 DEF CopiesAgree, Steps
<1>7. PhasesFit'
  BY <1>2 DEF PhasesFit
<1>8. RunsAreNumbered'
  BY <1>1, <1>2 DEF RunsAreNumbered
<1>9. RunsAreFound'
  BY <1>1, <1>2 DEF RunsAreFound
<1>10. GesturesStay'
  BY <1>1, <1>2 DEF GesturesStay
<1>11. EndsAreTold'
  BY <1>2, <1>3 DEF EndsAreTold
<1>12. NothingSilentlyLost'
  BY <1>1, <1>2, <1>3 DEF NothingSilentlyLost
<1>13. OnePlace'
  BY <1>1, <1>2 DEF OnePlace, Undisturbed, Effective, Current, Queued
<1>14. LaunchesFit'
  BY <1>1, <1>2 DEF LaunchesFit, Undisturbed, At
<1>15. LivingAreCurrent'
  BY <1>1, <1>2 DEF LivingAreCurrent, Undisturbed, Live, Current
<1>16. DyingAreDead'
  BY <1>2 DEF DyingAreDead
<1>17. FailuresAreErrors'
  BY <1>1, <1>2 DEF FailuresAreErrors, Undisturbed
<1>18. CapIsKept'
  BY <1>1, <1>2 DEF CapIsKept, Undisturbed, Living, Live
<1>19. NotesAreFinal'
  BY <1>2, <1>3 DEF NotesAreFinal
<1>. QED
  BY <1>5, <1>6, <1>7, <1>8, <1>9, <1>10, <1>11, <1>12, <1>13, <1>14, <1>15, <1>16,
     <1>17, <1>18, <1>19
  DEF IInv

\* The cap is reached.
LEMMA DeferKeeps ==
    ASSUME IInv, Defer
    PROVE  IInv'
<1>1. /\ TypeOK /\ CopiesAgree /\ PhasesFit /\ RunsAreNumbered /\ RunsAreFound
      /\ GesturesStay /\ EndsAreTold /\ NothingSilentlyLost /\ OnePlace /\ LaunchesFit
      /\ LivingAreCurrent /\ DyingAreDead /\ FailuresAreErrors /\ CapIsKept /\ NotesAreFinal
  BY DEF IInv
<1>2. /\ UNCHANGED <<hosted, disk, mem, home, request, pidFile, artifact, dirs,
                  worker, began, replies, verdicts, told, silent, crashes, failures, hangs,
                  commands>>
      /\ NewRun' = NewRun
      /\ cyc # None /\ cyc.at = "start" /\ cyc.phase = "dispatch"
      /\ cyc' = [cyc EXCEPT !.phase = "final"]
  BY DEF Defer, files, history, bounds, workers, At, NewRun
<1>3. cyc \in Cycles
  BY <1>1, <1>2 DEF TypeOK
<1>4. /\ cyc' \in Cycles /\ cyc' # None /\ cyc'.at = "start" /\ cyc'.phase = "final"
      /\ cyc'.c = cyc.c /\ cyc'.active = cyc.active
  BY <1>2, <1>3, NoneAssumption DEF Cycles
<1>5. TypeOK'
  BY <1>1, <1>2, <1>4 DEF TypeOK
<1>6. CopiesAgree'
  BY <1>1, <1>2 DEF CopiesAgree, Steps
<1>7. PhasesFit'
  BY <1>2 DEF PhasesFit
<1>8. RunsAreNumbered'
  BY <1>1, <1>2 DEF RunsAreNumbered
<1>9. RunsAreFound'
  BY <1>1, <1>2 DEF RunsAreFound
<1>10. GesturesStay'
  BY <1>1, <1>2 DEF GesturesStay
<1>11. EndsAreTold'
  BY <1>1, <1>2 DEF EndsAreTold
<1>12. NothingSilentlyLost'
  BY <1>1, <1>2 DEF NothingSilentlyLost
<1>13. OnePlace'
  BY <1>1, <1>2 DEF OnePlace, Undisturbed, Effective, Current, Queued
<1>14. LaunchesFit'
  BY <1>1, <1>2 DEF LaunchesFit, Undisturbed, At
<1>15. LivingAreCurrent'
  BY <1>1, <1>2 DEF LivingAreCurrent, Undisturbed, Live, Current
<1>16. DyingAreDead'
  BY <1>2 DEF DyingAreDead
<1>17. FailuresAreErrors'
  BY <1>1, <1>2 DEF FailuresAreErrors, Undisturbed
<1>18. CapIsKept'
  BY <1>1, <1>2 DEF CapIsKept, Undisturbed, Living, Live
<1>19. NotesAreFinal'
  BY <1>1, <1>2 DEF NotesAreFinal, Current
<1>. QED
  BY <1>5, <1>6, <1>7, <1>8, <1>9, <1>10, <1>11, <1>12, <1>13, <1>14, <1>15, <1>16,
     <1>17, <1>18, <1>19
  DEF IInv

\* The cycle ends.
LEMMA EndCycleKeeps ==
    ASSUME IInv, EndCycle
    PROVE  IInv'
<1>1. /\ TypeOK /\ CopiesAgree /\ PhasesFit /\ RunsAreNumbered /\ RunsAreFound
      /\ GesturesStay /\ EndsAreTold /\ NothingSilentlyLost /\ OnePlace /\ LaunchesFit
      /\ LivingAreCurrent /\ DyingAreDead /\ FailuresAreErrors /\ CapIsKept /\ NotesAreFinal
  BY DEF IInv
<1>2. /\ UNCHANGED <<hosted, home, request, pidFile, artifact, dirs, worker, began,
                  replies, verdicts, told, silent, crashes, failures, hangs, commands>>
      /\ NewRun' = NewRun
      /\ cyc # None /\ cyc.phase = "final" /\ cyc' = None /\ mem' = None
  BY DEF EndCycle, files, history, bounds, workers, NewRun
<1>3. cyc.at # "save"
  BY <1>1, <1>2 DEF CopiesAgree, Steps
<1>4. disk' = disk
  BY <1>1, <1>3 DEF CopiesAgree, EndCycle
<1>5. TypeOK'
  BY <1>1, <1>2, <1>4 DEF TypeOK
<1>6. CopiesAgree'
  BY <1>2 DEF CopiesAgree
<1>7. PhasesFit'
  BY <1>2 DEF PhasesFit
<1>8. RunsAreNumbered'
  BY <1>1, <1>2 DEF RunsAreNumbered
<1>9. RunsAreFound'
  BY <1>1, <1>2, <1>4 DEF RunsAreFound
<1>10. GesturesStay'
  BY <1>1, <1>2, <1>4 DEF GesturesStay
<1>11. EndsAreTold'
  BY <1>1, <1>2 DEF EndsAreTold
<1>12. NothingSilentlyLost'
  BY <1>1, <1>2, <1>4 DEF NothingSilentlyLost
<1>13. OnePlace'
  BY <1>1, <1>2, <1>4 DEF OnePlace, Undisturbed, Effective, Current, Queued
<1>14. LaunchesFit'
  BY <1>1, <1>2, <1>4 DEF LaunchesFit, Undisturbed, At
<1>15. LivingAreCurrent'
  BY <1>1, <1>2, <1>4 DEF LivingAreCurrent, Undisturbed, Live, Current
<1>16. DyingAreDead'
  BY <1>2 DEF DyingAreDead
<1>17. FailuresAreErrors'
  BY <1>1, <1>2 DEF FailuresAreErrors, Undisturbed
<1>18. CapIsKept'
  BY <1>1, <1>2 DEF CapIsKept, Undisturbed, Living, Live
<1>19. NotesAreFinal'
  BY <1>1, <1>2, <1>3, <1>4 DEF NotesAreFinal, Current
<1>. QED
  BY <1>5, <1>6, <1>7, <1>8, <1>9, <1>10, <1>11, <1>12, <1>13, <1>14, <1>15, <1>16,
     <1>17, <1>18, <1>19
  DEF IInv

\* The note is posted, the run archived in the copy.
LEMMA ReplyEndsKeeps ==
    ASSUME IInv, Reply, Become(Archived(Here, "done")), GoTo("save"), UNCHANGED bounds
    PROVE  IInv'
<1>1. /\ TypeOK /\ CopiesAgree /\ PhasesFit /\ RunsAreNumbered /\ RunsAreFound
      /\ GesturesStay /\ EndsAreTold /\ NothingSilentlyLost /\ OnePlace /\ LaunchesFit
      /\ LivingAreCurrent /\ DyingAreDead /\ FailuresAreErrors /\ CapIsKept /\ NotesAreFinal
  BY DEF IInv
<1>2. /\ UNCHANGED <<hosted, disk, home, request, pidFile, artifact, dirs, worker,
                  began, verdicts, silent, crashes, failures, hangs, commands>>
      /\ NewRun' = NewRun
      /\ cyc # None /\ cyc.phase = "heal" /\ cyc.at = "post"
      /\ told' = told \cup request[MyRun]
  BY DEF Reply, files, bounds, workers, At, NewRun
<1>3. /\ cyc \in Cycles /\ cyc.c \in Conv /\ mem = disk /\ mem \in Files /\ mem # None
      /\ Here = disk.conv[cyc.c] /\ Here \in Records /\ HasRun(disk.conv[cyc.c])
  BY <1>1, <1>2, AtWork, NoneAssumption DEF PhasesFit
<1>4. PICK r \in Run :
        /\ r = MyRun /\ r = disk.conv[cyc.c].run.id /\ home[r] = cyc.c
        /\ Current(r) /\ Here.run \in RunRecords
        /\ \A c \in Conv : Names(disk.conv[c].run, r) => c = cyc.c
  BY <1>2, <1>3, RunAtWork
<1>5. /\ cyc' \in Cycles /\ cyc' # None /\ cyc'.at = "save"
      /\ cyc'.phase = cyc.phase /\ cyc'.active = cyc.active /\ cyc'.c = cyc.c
  BY <1>1, <1>2, StepsOn
<1>6. /\ mem' \in Files /\ mem' # None /\ mem'.seen = disk.seen
      /\ \A c \in Conv \ {cyc.c} : mem'.conv[c] = disk.conv[c]
      /\ mem'.conv[cyc.c].run = None /\ mem'.conv[cyc.c].status = "done"
      /\ mem'.conv[cyc.c].task = disk.conv[cyc.c].task
      /\ mem'.conv[cyc.c].pending = disk.conv[cyc.c].pending
  <2>. DEFINE new == Archived(Here, "done")
  <2>1. /\ new \in Records /\ new.pending = Here.pending /\ new.run = None
        /\ new.status = "done" /\ new.task = Here.task
    BY <1>3, ArchivedEffect DEF Statuses
  <2>. HIDE DEF new
  <2>2. Become(new)
    BY DEF new
  <2>. QED BY <1>1, <1>3, <2>1, <2>2, BecomeEffect, NoneAssumption
<1>7. /\ replies' \in [Run -> Nat] /\ replies'[r] = replies[r] + 1
      /\ \A s \in Run \ {r} : replies'[s] = replies[s]
  <2>1. replies' = [replies EXCEPT ![r] = replies[r] + 1]
    BY <1>4 DEF Reply
  <2>2. replies \in [Run -> Nat] /\ replies[r] + 1 \in Nat
    BY <1>1 DEF TypeOK
  <2>. QED BY <2>1, <2>2
<1>9. \A s \in Run : verdicts[s] \in Nat /\ replies[s] \in Nat
  BY <1>1 DEF TypeOK
<1>8. home[r] # None /\ request[r] \subseteq Gesture
  BY <1>1, <1>3, <1>4, NoneAssumption DEF TypeOK, NoneAssumption
<1>10. TypeOK'
  BY <1>1, <1>2, <1>3, <1>4, <1>5, <1>6, <1>7, <1>9, <1>8 DEF TypeOK, Files
<1>11. CopiesAgree'
  BY <1>2, <1>5, <1>6, <1>8 DEF CopiesAgree, Steps
<1>12. PhasesFit'
  BY <1>1, <1>2, <1>5, <1>6, <1>8 DEF PhasesFit
<1>13. RunsAreNumbered'
  BY <1>1, <1>2, <1>5, <1>6, <1>7, <1>9, <1>8 DEF RunsAreNumbered
<1>14. RunsAreFound'
  BY <1>1, <1>2 DEF RunsAreFound
<1>15. GesturesStay'
  BY <1>1, <1>2 DEF GesturesStay
<1>16. EndsAreTold'
  BY <1>1, <1>2, <1>3, <1>4, <1>5, <1>6, <1>8 DEF EndsAreTold
<1>17. NothingSilentlyLost'
  BY <1>1, <1>2 DEF NothingSilentlyLost
<1>18. OnePlace'
  BY <1>1, <1>2 DEF OnePlace, Undisturbed, Effective, Current, Queued
<1>19. LaunchesFit'
  BY <1>1, <1>2, <1>5, <1>6, <1>8 DEF LaunchesFit, Undisturbed, At
<1>20. LivingAreCurrent'
  BY <1>1, <1>2 DEF LivingAreCurrent, Undisturbed, Live, Current
<1>21. DyingAreDead'
  BY <1>1, <1>2, <1>5, <1>6, <1>8 DEF DyingAreDead, Undisturbed, Live
<1>22. FailuresAreErrors'
  BY <1>1, <1>2 DEF FailuresAreErrors, Undisturbed
<1>23. CapIsKept'
  BY <1>1, <1>2, <1>5, <1>6, <1>8 DEF CapIsKept, Undisturbed, Living, Live
<1>24. NotesAreFinal'
  <2>. SUFFICES ASSUME crashes = 0, failures = 0, NEW s \in Run
                PROVE  /\ replies'[s] + verdicts[s] <= 1
                       /\ Current(s) /\ home[s] # cyc.c => replies'[s] + verdicts[s] = 0
    BY <1>2, <1>5 DEF NotesAreFinal, Current
  <2>1. /\ replies[s] + verdicts[s] <= 1
        /\ Current(s) => replies[s] + verdicts[s] = 0
    BY <1>1, <1>2 DEF NotesAreFinal
  <2>2. CASE s = r
    <3>1. Current(s) /\ home[s] = cyc.c
      BY <1>4, <2>2
    <3>2. replies[r] + verdicts[r] = 0
      BY <2>1, <2>2, <3>1
    <3>3. replies'[r] + verdicts[r] = 1
      BY <1>7, <1>9, <3>2
    <3>. QED BY <2>2, <3>1, <3>3
  <2>3. CASE s # r
    BY <1>7, <2>1, <2>3
  <2>. QED BY <2>2, <2>3
<1>. QED
  BY <1>10, <1>11, <1>12, <1>13, <1>14, <1>15, <1>16, <1>17, <1>18, <1>19, <1>20,
     <1>21, <1>22, <1>23, <1>24
  DEF IInv

\* The note is posted, and the answer is lost.
LEMMA ReplyLostKeeps ==
    ASSUME IInv, Reply, Fail, GoOn, UNCHANGED mem
    PROVE  IInv'
<1>1. /\ TypeOK /\ CopiesAgree /\ PhasesFit /\ RunsAreNumbered /\ RunsAreFound
      /\ GesturesStay /\ EndsAreTold /\ NothingSilentlyLost /\ OnePlace /\ LaunchesFit
      /\ LivingAreCurrent /\ DyingAreDead /\ FailuresAreErrors /\ CapIsKept /\ NotesAreFinal
  BY DEF IInv
<1>2. /\ UNCHANGED <<hosted, disk, mem, home, request, pidFile, artifact, dirs,
                  worker, began, verdicts, silent, crashes, hangs, commands>>
      /\ NewRun' = NewRun
      /\ cyc # None /\ cyc.phase = "heal" /\ cyc.at = "post"
      /\ told' = told \cup request[MyRun] /\ failures' = failures + 1
  BY DEF Reply, files, workers, At, Fail, NewRun
<1>3. /\ cyc \in Cycles /\ cyc.c \in Conv /\ mem = disk /\ mem \in Files /\ mem # None
      /\ Here = disk.conv[cyc.c] /\ Here \in Records /\ HasRun(disk.conv[cyc.c])
  BY <1>1, <1>2, AtWork, NoneAssumption DEF PhasesFit
<1>4. PICK r \in Run :
        /\ r = MyRun /\ r = disk.conv[cyc.c].run.id /\ home[r] = cyc.c
        /\ Current(r) /\ Here.run \in RunRecords
        /\ \A c \in Conv : Names(disk.conv[c].run, r) => c = cyc.c
  BY <1>2, <1>3, RunAtWork
<1>5. /\ cyc' \in Cycles /\ cyc' # None /\ cyc'.at = "start" /\ cyc'.phase \in {"heal", "poll"}
      /\ cyc'.phase = "heal" => HasRun(mem.conv[cyc'.c])
  BY <1>2, <1>3, GoesOn
<1>6. failures \in Nat /\ failures' \in Nat /\ failures' > 0
  BY <1>1, <1>2 DEF TypeOK
<1>7. /\ replies' \in [Run -> Nat] /\ replies'[r] = replies[r] + 1
      /\ \A s \in Run \ {r} : replies'[s] = replies[s]
  <2>1. replies' = [replies EXCEPT ![r] = replies[r] + 1]
    BY <1>4 DEF Reply
  <2>2. replies \in [Run -> Nat] /\ replies[r] + 1 \in Nat
    BY <1>1 DEF TypeOK
  <2>. QED BY <2>1, <2>2
<1>9. \A s \in Run : verdicts[s] \in Nat /\ replies[s] \in Nat
  BY <1>1 DEF TypeOK
<1>8. home[r] # None /\ request[r] \subseteq Gesture
  BY <1>1, <1>3, <1>4, NoneAssumption DEF TypeOK, NoneAssumption
<1>10. TypeOK'
  BY ZenonT(40), <1>1, <1>2, <1>3, <1>4, <1>5, <1>6, <1>7, <1>9, <1>8 DEF TypeOK
<1>11. CopiesAgree'
  BY <1>1, <1>2, <1>5, <1>6, <1>8 DEF CopiesAgree, Steps
<1>12. PhasesFit'
  BY <1>2, <1>3, <1>5, <1>6, <1>8 DEF PhasesFit
<1>13. RunsAreNumbered'
  BY <1>1, <1>2, <1>5, <1>6, <1>7, <1>9, <1>8 DEF RunsAreNumbered
<1>14. RunsAreFound'
  BY <1>1, <1>2 DEF RunsAreFound
<1>15. GesturesStay'
  BY <1>1, <1>2 DEF GesturesStay
<1>16. EndsAreTold'
  BY <1>5, <1>6, <1>8 DEF EndsAreTold
<1>17. NothingSilentlyLost'
  BY <1>1, <1>2, <1>5, <1>6, <1>8 DEF NothingSilentlyLost
<1>18. OnePlace'
  BY <1>1, <1>2 DEF OnePlace, Undisturbed, Effective, Current, Queued
<1>19. LaunchesFit'
  BY <1>1, <1>2, <1>5, <1>6, <1>8 DEF LaunchesFit, Undisturbed, At
<1>20. LivingAreCurrent'
  BY <1>1, <1>2 DEF LivingAreCurrent, Undisturbed, Live, Current
<1>21. DyingAreDead'
  BY <1>5, <1>6, <1>8 DEF DyingAreDead, Undisturbed, Live
<1>22. FailuresAreErrors'
  BY <1>1, <1>2 DEF FailuresAreErrors, Undisturbed
<1>23. CapIsKept'
  BY <1>1, <1>2, <1>5, <1>6, <1>8 DEF CapIsKept, Undisturbed, Living, Live
<1>24. NotesAreFinal'
  BY <1>6 DEF NotesAreFinal
<1>. QED
  BY <1>10, <1>11, <1>12, <1>13, <1>14, <1>15, <1>16, <1>17, <1>18, <1>19, <1>20,
     <1>21, <1>22, <1>23, <1>24
  DEF IInv

\* A failure is noted, the run archived in the copy.
LEMMA FailRunKeeps ==
    ASSUME IInv, FailRun
    PROVE  IInv'
<1>1. /\ TypeOK /\ CopiesAgree /\ PhasesFit /\ RunsAreNumbered /\ RunsAreFound
      /\ GesturesStay /\ EndsAreTold /\ NothingSilentlyLost /\ OnePlace /\ LaunchesFit
      /\ LivingAreCurrent /\ DyingAreDead /\ FailuresAreErrors /\ CapIsKept /\ NotesAreFinal
  BY DEF IInv
<1>2. /\ UNCHANGED <<hosted, disk, home, request, pidFile, artifact, dirs, began,
                  replies, silent, crashes, failures, hangs, commands>>
      /\ NewRun' = NewRun
      /\ cyc # None /\ cyc.at = "fail"
      /\ told' = told \cup (Here.pending \cup request[MyRun])
  BY DEF FailRun, files, bounds, Failing, At, NewRun
<1>20. cyc.phase \in {"heal", "dispatch"}
  BY <1>1, <1>2 DEF CopiesAgree, TypeOK, Cycles, Steps
<1>3. /\ cyc \in Cycles /\ cyc.c \in Conv /\ mem = disk /\ mem \in Files /\ mem # None
      /\ Here = disk.conv[cyc.c] /\ Here \in Records /\ HasRun(disk.conv[cyc.c])
  BY <1>1, <1>2, <1>20, AtWork, NoneAssumption DEF PhasesFit
<1>4. PICK r \in Run :
        /\ r = MyRun /\ r = disk.conv[cyc.c].run.id /\ home[r] = cyc.c
        /\ Current(r) /\ Here.run \in RunRecords
        /\ \A c \in Conv : Names(disk.conv[c].run, r) => c = cyc.c
  BY <1>2, <1>3, RunAtWork
<1>5. /\ cyc' \in Cycles /\ cyc' # None /\ cyc'.at = "save"
      /\ cyc'.phase = cyc.phase /\ cyc'.active = cyc.active /\ cyc'.c = cyc.c
  BY <1>1, StepsOn DEF FailRun, Failing
<1>6. /\ mem' \in Files /\ mem' # None /\ mem'.seen = disk.seen
      /\ \A c \in Conv \ {cyc.c} : mem'.conv[c] = disk.conv[c]
      /\ mem'.conv[cyc.c].run = None /\ mem'.conv[cyc.c].status = "failed"
      /\ mem'.conv[cyc.c].task = disk.conv[cyc.c].task
      /\ mem'.conv[cyc.c].pending = {}
  <2>. DEFINE new == [Archived(Here, "failed") EXCEPT !.pending = {}]
  <2>1. /\ new \in Records /\ new.pending = {} /\ new.run = None
        /\ new.status = "failed" /\ new.task = Here.task
    BY <1>3, ArchivedWith DEF Statuses
  <2>2. Become(new)
    BY DEF FailRun, Failing
  <2>. HIDE DEF new
  <2>. QED BY <1>1, <1>3, <2>1, <2>2, BecomeEffect, NoneAssumption
<1>7. /\ \/ worker' = worker /\ ~Here.run.tmux
         \/ worker' = Killed(InSession(cyc.c))
  BY DEF FailRun, Failing
<1>8. /\ worker' \in [Run -> {"none", "starting", "running", "ended"}]
      /\ \A s \in Run :
           /\ Live(s)' => Live(s)
           /\ worker'[s] = "none" <=> worker[s] = "none"
           /\ worker'[s] = "starting" => worker[s] = "starting"
      /\ Living' \subseteq Living
  <2>1. CASE worker' = worker
    BY <1>1, <2>1 DEF Living, Live, TypeOK
  <2>2. CASE worker' # worker
    BY <1>1, <1>7, <2>2, KilledEffect
  <2>. QED BY <2>1, <2>2
<1>9. /\ Cardinality(Living) \in Nat /\ Cardinality(Living') \in Nat
      /\ Cardinality(Living') <= Cardinality(Living)
  BY <1>8, LocalAssumption, FewerLiving
<1>10. /\ verdicts' \in [Run -> Nat] /\ verdicts'[r] = verdicts[r] + 1
       /\ \A s \in Run \ {r} : verdicts'[s] = verdicts[s]
  <2>1. verdicts' = [verdicts EXCEPT ![r] = verdicts[r] + 1]
    BY <1>4 DEF FailRun, Failing
  <2>2. verdicts \in [Run -> Nat] /\ verdicts[r] + 1 \in Nat
    BY <1>1 DEF TypeOK
  <2>. QED BY <2>1, <2>2
<1>11. Undisturbed => ~Live(r) /\ artifact[r] = "error"
  BY <1>1, <1>2, <1>3, <1>4 DEF DyingAreDead
<1>12. request[r] \subseteq Gesture /\ failures \in Nat /\ failures' \in Nat
  BY <1>1, <1>2 DEF TypeOK
<1>13. home[r] # None
  BY <1>3, <1>4, NoneAssumption
<1>14. /\ cyc.active \in Nat /\ Cap \in Nat
       /\ \A s \in Run : verdicts[s] \in Nat /\ replies[s] \in Nat
  BY <1>1, <1>3, LocalAssumption DEF TypeOK, Cycles
<1>15. /\ Here.pending \subseteq Gesture /\ told' \subseteq Gesture /\ silent' \subseteq Gesture
       /\ silent' = silent /\ failures' = failures
  <2>1. silent' = silent /\ failures' = failures
    BY <1>2, <1>12
  <2>2. /\ Here.pending \subseteq Gesture /\ told \subseteq Gesture /\ silent \subseteq Gesture
    BY <1>1, <1>3 DEF TypeOK, Records
  <2>. QED BY <1>2, <1>4, <1>12, <2>1, <2>2
<1>21. TypeOK'
  BY <1>1, <1>2, <1>5, <1>6, <1>8, <1>10, <1>15 DEF TypeOK
<1>22. CopiesAgree'
  BY <1>2, <1>20, <1>5, <1>6 DEF CopiesAgree, Steps
<1>23. PhasesFit'
  BY <1>1, <1>2, <1>5 DEF PhasesFit
<1>24. RunsAreNumbered'
  BY <1>1, <1>2, <1>8, <1>10, <1>13 DEF RunsAreNumbered
<1>25. RunsAreFound'
  BY <1>1, <1>2 DEF RunsAreFound
<1>26. GesturesStay'
  BY <1>1, <1>2 DEF GesturesStay
<1>27. EndsAreTold'
  <2>1. silent' # {} => failures' > 0
    BY <1>1, <1>15 DEF EndsAreTold
  <2>2. (request[disk.conv[cyc.c].run.id]
           \cup (disk.conv[cyc.c].pending \ mem.conv[cyc.c].pending) \subseteq told \cup silent)'
    BY <1>2, <1>3, <1>4, <1>5
  <2>. QED BY <2>1, <2>2 DEF EndsAreTold
<1>28. NothingSilentlyLost'
  BY <1>1, <1>2 DEF NothingSilentlyLost
<1>29. OnePlace'
  BY <1>1, <1>2, <1>8 DEF OnePlace, Undisturbed, Effective, Current, Queued
<1>30. LaunchesFit'
  BY <1>1, <1>2, <1>5, <1>8, RecordsName DEF LaunchesFit, Undisturbed, At
<1>31. LivingAreCurrent'
  BY <1>1, <1>2, <1>8 DEF LivingAreCurrent, Undisturbed, Current
<1>32. DyingAreDead'
  BY <1>1, <1>2, <1>4, <1>5, <1>8, <1>11 DEF DyingAreDead, Undisturbed, Live
<1>33. FailuresAreErrors'
  BY <1>1, <1>2, <1>10, <1>11 DEF FailuresAreErrors, Undisturbed
<1>34. CapIsKept'
  BY <1>1, <1>2, <1>5, <1>9, <1>14 DEF CapIsKept, Undisturbed
<1>35. NotesAreFinal'
  <2>. SUFFICES ASSUME crashes = 0, failures = 0, NEW s \in Run
                PROVE  /\ replies[s] + verdicts'[s] <= 1
                       /\ Current(s) /\ home[s] # cyc.c => replies[s] + verdicts'[s] = 0
    BY <1>2, <1>5 DEF NotesAreFinal, Current
  <2>1. /\ replies[s] + verdicts[s] <= 1
        /\ Current(s) => replies[s] + verdicts[s] = 0
    BY <1>1, <1>2 DEF NotesAreFinal
  <2>2. CASE s = r
    <3>1. Current(s) /\ home[s] = cyc.c
      BY <1>4, <2>2 DEF Current
    <3>2. replies[r] + verdicts[r] = 0
      BY <2>1, <2>2, <3>1
    <3>3. replies[r] + verdicts'[r] = 1
      BY <1>10, <1>14, <3>2
    <3>. QED BY <2>2, <3>1, <3>3
  <2>3. CASE s # r
    BY <1>10, <2>1, <2>3
  <2>. QED BY <2>2, <2>3
<1>. QED
  BY <1>21, <1>22, <1>23, <1>24, <1>25, <1>26, <1>27, <1>28, <1>29, <1>30, <1>31,
     <1>32, <1>33, <1>34, <1>35
  DEF IInv

\* A failure that is not noted.
LEMMA FailRunUnnotedKeeps ==
    ASSUME IInv, FailRunUnnoted
    PROVE  IInv'
<1>1. /\ TypeOK /\ CopiesAgree /\ PhasesFit /\ RunsAreNumbered /\ RunsAreFound
      /\ GesturesStay /\ EndsAreTold /\ NothingSilentlyLost /\ OnePlace /\ LaunchesFit
      /\ LivingAreCurrent /\ DyingAreDead /\ FailuresAreErrors /\ CapIsKept /\ NotesAreFinal
  BY DEF IInv
<1>2. /\ UNCHANGED <<hosted, disk, home, request, pidFile, artifact, dirs, began,
                  replies, told, crashes, hangs, commands>>
      /\ NewRun' = NewRun
      /\ cyc # None /\ cyc.at = "fail" /\ failures' = failures + 1
      /\ silent' = silent \cup (Here.pending \cup request[MyRun])
  BY DEF FailRunUnnoted, files, Failing, At, Fail, NewRun
<1>20. cyc.phase \in {"heal", "dispatch"}
  BY <1>1, <1>2 DEF CopiesAgree, TypeOK, Cycles, Steps
<1>3. /\ cyc \in Cycles /\ cyc.c \in Conv /\ mem = disk /\ mem \in Files /\ mem # None
      /\ Here = disk.conv[cyc.c] /\ Here \in Records /\ HasRun(disk.conv[cyc.c])
  BY <1>1, <1>2, <1>20, AtWork, NoneAssumption DEF PhasesFit
<1>4. PICK r \in Run :
        /\ r = MyRun /\ r = disk.conv[cyc.c].run.id /\ home[r] = cyc.c
        /\ Current(r) /\ Here.run \in RunRecords
        /\ \A c \in Conv : Names(disk.conv[c].run, r) => c = cyc.c
  BY <1>2, <1>3, RunAtWork
<1>5. /\ cyc' \in Cycles /\ cyc' # None /\ cyc'.at = "save"
      /\ cyc'.phase = cyc.phase /\ cyc'.active = cyc.active /\ cyc'.c = cyc.c
  BY <1>1, StepsOn DEF FailRunUnnoted, Failing
<1>6. /\ mem' \in Files /\ mem' # None /\ mem'.seen = disk.seen
      /\ \A c \in Conv \ {cyc.c} : mem'.conv[c] = disk.conv[c]
      /\ mem'.conv[cyc.c].run = None /\ mem'.conv[cyc.c].status = "failed"
      /\ mem'.conv[cyc.c].task = disk.conv[cyc.c].task
      /\ mem'.conv[cyc.c].pending = {}
  <2>. DEFINE new == [Archived(Here, "failed") EXCEPT !.pending = {}]
  <2>1. /\ new \in Records /\ new.pending = {} /\ new.run = None
        /\ new.status = "failed" /\ new.task = Here.task
    BY <1>3, ArchivedWith DEF Statuses
  <2>2. Become(new)
    BY DEF FailRunUnnoted, Failing
  <2>. HIDE DEF new
  <2>. QED BY <1>1, <1>3, <2>1, <2>2, BecomeEffect, NoneAssumption
<1>7. /\ \/ worker' = worker /\ ~Here.run.tmux
         \/ worker' = Killed(InSession(cyc.c))
  BY DEF FailRunUnnoted, Failing
<1>8. /\ worker' \in [Run -> {"none", "starting", "running", "ended"}]
      /\ \A s \in Run :
           /\ Live(s)' => Live(s)
           /\ worker'[s] = "none" <=> worker[s] = "none"
           /\ worker'[s] = "starting" => worker[s] = "starting"
      /\ Living' \subseteq Living
  <2>1. CASE worker' = worker
    BY <1>1, <2>1 DEF Living, Live, TypeOK
  <2>2. CASE worker' # worker
    BY <1>1, <1>7, <2>2, KilledEffect
  <2>. QED BY <2>1, <2>2
<1>9. /\ Cardinality(Living) \in Nat /\ Cardinality(Living') \in Nat
      /\ Cardinality(Living') <= Cardinality(Living)
  BY <1>8, LocalAssumption, FewerLiving
<1>10. /\ verdicts' \in [Run -> Nat] /\ verdicts'[r] = verdicts[r]
       /\ \A s \in Run \ {r} : verdicts'[s] = verdicts[s]
  <2>0. verdicts[r] + 0 = verdicts[r]
    BY <1>1 DEF TypeOK
  <2>1. verdicts' = [verdicts EXCEPT ![r] = verdicts[r]]
    BY <1>4, <2>0 DEF FailRunUnnoted, Failing
  <2>2. verdicts \in [Run -> Nat] /\ verdicts[r] \in Nat
    BY <1>1 DEF TypeOK
  <2>. QED BY <2>1, <2>2
<1>11. Undisturbed => ~Live(r) /\ artifact[r] = "error"
  BY <1>1, <1>2, <1>3, <1>4 DEF DyingAreDead
<1>12. request[r] \subseteq Gesture /\ failures \in Nat /\ failures' \in Nat
  BY <1>1, <1>2 DEF TypeOK
<1>13. home[r] # None
  BY <1>3, <1>4, NoneAssumption
<1>14. /\ cyc.active \in Nat /\ Cap \in Nat
       /\ \A s \in Run : verdicts[s] \in Nat /\ replies[s] \in Nat
  BY <1>1, <1>3, LocalAssumption DEF TypeOK, Cycles
<1>15. /\ Here.pending \subseteq Gesture /\ told' \subseteq Gesture /\ silent' \subseteq Gesture
       /\ failures' > 0
  <2>1. failures' > 0
    BY <1>2, <1>12
  <2>2. /\ Here.pending \subseteq Gesture /\ told \subseteq Gesture /\ silent \subseteq Gesture
    BY <1>1, <1>3 DEF TypeOK, Records
  <2>. QED BY <1>2, <1>4, <1>12, <2>1, <2>2
<1>21. TypeOK'
  BY <1>1, <1>2, <1>5, <1>6, <1>8, <1>10, <1>15 DEF TypeOK
<1>22. CopiesAgree'
  BY <1>2, <1>20, <1>5, <1>6 DEF CopiesAgree, Steps
<1>23. PhasesFit'
  BY <1>1, <1>2, <1>5 DEF PhasesFit
<1>24. RunsAreNumbered'
  BY <1>1, <1>2, <1>8, <1>10, <1>13 DEF RunsAreNumbered
<1>25. RunsAreFound'
  BY <1>1, <1>2 DEF RunsAreFound
<1>26. GesturesStay'
  BY <1>1, <1>2 DEF GesturesStay
<1>27. EndsAreTold'
  <2>1. silent' # {} => failures' > 0
    BY <1>15
  <2>2. (request[disk.conv[cyc.c].run.id]
           \cup (disk.conv[cyc.c].pending \ mem.conv[cyc.c].pending) \subseteq told \cup silent)'
    BY <1>2, <1>3, <1>4, <1>5
  <2>. QED BY <2>1, <2>2 DEF EndsAreTold
<1>28. NothingSilentlyLost'
  BY <1>1, <1>2, <1>12 DEF NothingSilentlyLost
<1>29. OnePlace'
  BY <1>1, <1>2, <1>8 DEF OnePlace, Undisturbed, Effective, Current, Queued
<1>30. LaunchesFit'
  BY <1>1, <1>2, <1>5, <1>8, RecordsName DEF LaunchesFit, Undisturbed, At
<1>31. LivingAreCurrent'
  BY <1>1, <1>2, <1>8 DEF LivingAreCurrent, Undisturbed, Current
<1>32. DyingAreDead'
  BY <1>1, <1>2, <1>4, <1>5, <1>8, <1>11 DEF DyingAreDead, Undisturbed, Live
<1>33. FailuresAreErrors'
  BY <1>1, <1>2, <1>10, <1>11 DEF FailuresAreErrors, Undisturbed
<1>34. CapIsKept'
  BY <1>1, <1>2, <1>5, <1>9, <1>14 DEF CapIsKept, Undisturbed
<1>35. NotesAreFinal'
  BY <1>2, <1>12 DEF NotesAreFinal
<1>. QED
  BY <1>21, <1>22, <1>23, <1>24, <1>25, <1>26, <1>27, <1>28, <1>29, <1>30, <1>31,
     <1>32, <1>33, <1>34, <1>35
  DEF IInv

\* The file gets to know that the run is over.
LEMMA SaveRecordKeeps ==
    ASSUME IInv, SaveRecord
    PROVE  IInv'
<1>1. /\ TypeOK /\ CopiesAgree /\ PhasesFit /\ RunsAreNumbered /\ RunsAreFound
      /\ GesturesStay /\ EndsAreTold /\ NothingSilentlyLost /\ OnePlace /\ LaunchesFit
      /\ LivingAreCurrent /\ DyingAreDead /\ FailuresAreErrors /\ CapIsKept /\ NotesAreFinal
  BY DEF IInv
<1>2. /\ UNCHANGED <<hosted, mem, home, request, pidFile, artifact, dirs, worker,
                  began, replies, verdicts, told, silent, crashes, failures, hangs, commands>>
      /\ NewRun' = NewRun
      /\ cyc # None /\ cyc.at = "save" /\ disk' = mem
  BY DEF SaveRecord, files, history, bounds, workers, NewRun
<1>3. /\ cyc \in Cycles /\ cyc.c \in Conv /\ mem \in Files /\ mem # None
      /\ cyc.phase \in {"heal", "dispatch"} /\ HasRun(disk.conv[cyc.c])
  BY <1>1, <1>2 DEF CopiesAgree, PhasesFit, TypeOK, Cycles, Steps
<1>4. PICK r \in Run :
        /\ r = disk.conv[cyc.c].run.id /\ home[r] = cyc.c
        /\ \A c \in Conv : Names(disk.conv[c].run, r) => c = cyc.c
  <2>1. disk.conv[cyc.c].run.id \in Run
    BY <1>1, <1>3, RecordsName
  <2>. QED BY <1>1, <1>3, <2>1 DEF RunsAreFound, Names, HasRun
<1>5. /\ cyc' \in Cycles /\ cyc' # None /\ cyc'.at = "start"
      /\ cyc'.active = cyc.active
      /\ cyc'.phase \in {cyc.phase, IF cyc.phase = "heal" THEN "poll" ELSE "final"}
      /\ cyc'.phase = "heal" => HasRun(mem.conv[cyc'.c])
      /\ cyc'.phase = "dispatch" => Waiting(mem.conv[cyc'.c])
  BY <1>3, GoesOn DEF SaveRecord
<1>6. /\ mem.seen = disk.seen
      /\ \A c \in Conv \ {cyc.c} : mem.conv[c] = disk.conv[c]
      /\ mem.conv[cyc.c].run = None /\ mem.conv[cyc.c].status \in {"done", "failed"}
      /\ mem.conv[cyc.c].task = disk.conv[cyc.c].task
      /\ mem.conv[cyc.c].pending \in {disk.conv[cyc.c].pending, {}}
  BY <1>1, <1>2 DEF CopiesAgree
<1>7. Undisturbed => ~Live(r)
  BY <1>1, <1>2, <1>3, <1>4 DEF DyingAreDead
<1>8. disk.conv[cyc.c].status = "working"
  BY <1>1, <1>3 DEF TypeOK, HasRun
<1>9. TypeOK'
  BY SMTT(30), <1>1, <1>2, <1>3, <1>4, <1>5, <1>6, <1>7, <1>8 DEF TypeOK, HasRun
<1>10. CopiesAgree'
  BY <1>2, <1>3, <1>5, <1>7, <1>8 DEF CopiesAgree, Steps
<1>11. PhasesFit'
  BY <1>2, <1>5 DEF PhasesFit
<1>12. RunsAreNumbered'
  BY <1>1, <1>2 DEF RunsAreNumbered
<1>13. RunsAreFound'
  BY <1>1, <1>2, <1>3, <1>5, <1>6, <1>7, <1>8 DEF RunsAreFound, HasRun
<1>14. GesturesStay'
  BY SMTT(30), <1>1, <1>2, <1>3, <1>4, <1>5, <1>6, <1>7, <1>8 DEF GesturesStay, HasRun
<1>15. EndsAreTold'
  BY <1>1, <1>2, <1>5, <1>6, <1>7, <1>8 DEF EndsAreTold
<1>16. NothingSilentlyLost'
  BY SMTT(30), <1>1, <1>2, <1>3, <1>4, <1>5, <1>6, <1>7, <1>8
  DEF NothingSilentlyLost, EndsAreTold
<1>17. OnePlace'
  BY <1>1, <1>2, <1>5, <1>6, <1>7, <1>8
  DEF OnePlace, Undisturbed, Effective, Current, Names, Queued
<1>18. LaunchesFit'
  BY <1>1, <1>2, <1>5, <1>6, <1>7, <1>8 DEF LaunchesFit, Undisturbed, At, HasRun
<1>19. LivingAreCurrent'
  BY SMTT(30), <1>1, <1>2, <1>3, <1>4, <1>5, <1>6, <1>7, <1>8
  DEF LivingAreCurrent, Undisturbed, Live, Current, Names
<1>20. DyingAreDead'
  BY <1>5 DEF DyingAreDead, HasRun
<1>21. FailuresAreErrors'
  BY <1>1, <1>2 DEF FailuresAreErrors, Undisturbed
<1>22. CapIsKept'
  BY <1>1, <1>2, <1>5, <1>8 DEF CapIsKept, Undisturbed, Living, Live
<1>23. NotesAreFinal'
  BY <1>1, <1>2, <1>5, <1>6, <1>7, <1>8
  DEF NotesAreFinal, Current, Names, RunsAreFound, HasRun
<1>. QED
  BY <1>9, <1>10, <1>11, <1>12, <1>13, <1>14, <1>15, <1>16, <1>17, <1>18, <1>19,
     <1>20, <1>21, <1>22, <1>23
  DEF IInv

\* A launch that went no further is taken back.
LEMMA RecoverKeeps ==
    ASSUME IInv, At("heal", "probe"), Here.run.launching, ~Pid, RecoverLaunch,
           UNCHANGED <<hosted, files, workers, history, crashes, failures>>,
           {hangs', commands'} \subseteq Nat, hangs' = 0 => hangs = 0 /\ ~SessionAlive
    PROVE  IInv'
<1>1. /\ TypeOK /\ CopiesAgree /\ PhasesFit /\ RunsAreNumbered /\ RunsAreFound
      /\ GesturesStay /\ EndsAreTold /\ NothingSilentlyLost /\ OnePlace /\ LaunchesFit
      /\ LivingAreCurrent /\ DyingAreDead /\ FailuresAreErrors /\ CapIsKept /\ NotesAreFinal
  BY DEF IInv
<1>2. /\ UNCHANGED <<hosted, home, request, pidFile, artifact, dirs, worker, began,
                     replies, verdicts, told, silent, crashes, failures>>
      /\ NewRun' = NewRun /\ cyc # None /\ cyc.phase = "heal" /\ cyc.at = "probe"
  BY DEF files, workers, history, At, NewRun
<1>3. /\ cyc \in Cycles /\ cyc.c \in Conv /\ mem = disk /\ mem \in Files /\ mem # None
      /\ Here = disk.conv[cyc.c] /\ Here \in Records /\ HasRun(disk.conv[cyc.c])
  BY <1>1, <1>2, AtWork, NoneAssumption DEF PhasesFit
<1>4. PICK r \in Run :
        /\ r = MyRun /\ r = disk.conv[cyc.c].run.id /\ home[r] = cyc.c
        /\ Current(r) /\ Here.run \in RunRecords
        /\ \A c \in Conv : Names(disk.conv[c].run, r) => c = cyc.c
  BY <1>2, <1>3, RunAtWork
<1>5. /\ cyc' \in Cycles /\ cyc' # None /\ cyc'.at = "start" /\ cyc'.phase \in {"heal", "poll"}
      /\ cyc'.phase = "heal" => HasRun(mem.conv[cyc'.c]) /\ cyc'.c # cyc.c
      /\ cyc'.c \in Conv
  BY <1>2, <1>3, GoesOn DEF RecoverLaunch, Cycles
<1>6. /\ Here.run.prev \in {"new", "done", "failed"} /\ Here.run.launching
      /\ request[r] \subseteq Gesture
  BY <1>1, <1>4 DEF RunRecords, TypeOK
<1>7. /\ mem' \in Files /\ mem' # None /\ mem'.seen = disk.seen /\ disk' = mem'
      /\ \A c \in Conv \ {cyc.c} : mem'.conv[c] = disk.conv[c]
      /\ mem'.conv[cyc.c].run = None /\ mem'.conv[cyc.c].status = Here.run.prev
      /\ mem'.conv[cyc.c].task = Here.task
      /\ mem'.conv[cyc.c].pending = Here.pending \cup (request[r] \ Here.task)
  <2>. DEFINE queue == Requeued(Here)
              new == [Archived(Here, Here.run.prev) EXCEPT !.pending = queue]
  <2>1. queue = Here.pending \cup (request[r] \ Here.task) /\ queue \subseteq Gesture
    BY <1>3, <1>4, <1>6 DEF Requeued, Records
  <2>2. Become(new)
    BY DEF RecoverLaunch
  <2>. HIDE DEF queue
  <2>3. /\ new \in Records /\ new.pending = queue /\ new.run = None
        /\ new.status = Here.run.prev /\ new.task = Here.task
    <3>1. HasRun(Here) /\ Here.run.prev \in Statuses
      BY <1>3, <1>6 DEF Statuses
    <3>. QED BY SMTT(30), <1>3, <2>1, <3>1, ArchivedWith
  <2>. HIDE DEF new
  <2>4. /\ mem' \in Files /\ mem'.seen = mem.seen /\ mem'.conv[cyc.c] = new
        /\ \A c \in Conv \ {cyc.c} : mem'.conv[c] = mem.conv[c]
    BY <1>1, <1>2, <2>2, <2>3, BecomeEffect
  <2>5. mem' # None
    BY <2>4, NoneAssumption
  <2>6. disk' = mem'
    BY DEF RecoverLaunch, Save
  <2>. QED BY <1>3, <2>1, <2>3, <2>4, <2>5, <2>6
<1>8. disk.conv[cyc.c].status = "working"
  BY <1>1, <1>3 DEF TypeOK, HasRun
<1>9. Undisturbed' => Undisturbed /\ ~Live(r) /\ r \notin began
  <2>. SUFFICES ASSUME Undisturbed' PROVE ~Live(r) /\ r \notin began
    BY <1>2 DEF Undisturbed
  <2>1. Undisturbed
    BY <1>2 DEF Undisturbed
  <2>2. r \notin began
    BY <1>1, <1>4 DEF TypeOK, Pid
  <2>3. CASE hosted
    <3>1. InSession(cyc.c) = {}
      BY DEF Undisturbed, SessionAlive
    <3>. QED BY <1>4, <2>2, <2>3, <3>1 DEF InSession
  <2>4. CASE ~hosted
    BY <1>1, <1>2, <1>3, <1>4, <1>6, <2>1, <2>2, <2>4 DEF LaunchesFit, At, Live
  <2>. QED BY <2>3, <2>4
<1>10. \A s \in Run : Current(s)' <=> Current(s) /\ s # r
  <2>1. \A s \in Run, c \in Conv \ {cyc.c} :
          Names(disk'.conv[c].run, s) <=> Names(disk.conv[c].run, s)
    BY <1>7
  <2>2. \A s \in Run : /\ ~Names(disk'.conv[cyc.c].run, s)
                       /\ Names(disk.conv[cyc.c].run, s) <=> s = r
    BY <1>3, <1>4, <1>7 DEF Names, HasRun
  <2>. QED BY <1>3, <1>4, <2>1, <2>2 DEF Current
<1>11. /\ request[r] \subseteq disk.seen /\ \A g \in request[r] : ConvOf(g) = cyc.c
       /\ \A g \in Here.pending \cup Here.task : ConvOf(g) = cyc.c
       /\ Here.pending \cap Here.task = {}
       /\ request[r] \cap Here.task = IF Here.run.prev = "new" THEN Here.task ELSE {}
       /\ Here.pending \cup Here.task \subseteq disk.seen
  <2>1. LET rec == disk.conv[cyc.c] IN
        /\ \A g \in rec.pending \cup rec.task : ConvOf(g) = cyc.c
        /\ rec.pending \cap rec.task = {}
        /\ HasRun(rec) => request[rec.run.id] \cap rec.task
                            = IF rec.run.prev = "new" THEN rec.task ELSE {}
    BY <1>1, <1>3 DEF GesturesStay
  <2>2. request[r] \subseteq disk.seen /\ \A g \in request[r] : ConvOf(g) = home[r]
    BY <1>1 DEF GesturesStay
  <2>3. disk.conv[cyc.c].pending \cup disk.conv[cyc.c].task \subseteq disk.seen
    BY <1>1, <1>3 DEF TypeOK
  <2>. QED BY <1>3, <1>4, <2>1, <2>2, <2>3
<1>12. TypeOK'
  <2>1. \A c \in Conv : LET rec == disk'.conv[c] IN
          /\ rec.status = "working" <=> rec.run # None
          /\ rec.pending \cup rec.task \subseteq disk.seen
          /\ rec.run # None => rec.run.id \in dirs
    <3>. TAKE c \in Conv
    <3>1. CASE c = cyc.c
      BY <1>6, <1>7, <1>11, <3>1
    <3>2. CASE c # cyc.c
      BY <1>1, <1>7, <3>2 DEF TypeOK
    <3>. QED BY <3>1, <3>2
  <2>. QED BY <1>1, <1>2, <1>5, <1>7, <2>1 DEF TypeOK
<1>13. CopiesAgree'
  BY <1>5, <1>7 DEF CopiesAgree, Steps
<1>14. PhasesFit'
  BY <1>3, <1>5, <1>7 DEF PhasesFit
<1>15. RunsAreNumbered'
  BY <1>1, <1>2 DEF RunsAreNumbered
<1>16. RunsAreFound'
  BY <1>1, <1>2, <1>7 DEF RunsAreFound, HasRun
<1>17. GesturesStay'
  <2>1. \A c \in Conv : LET rec == disk'.conv[c] IN
          /\ \A g \in rec.pending \cup rec.task : ConvOf(g) = c
          /\ rec.pending \cap rec.task = {}
          /\ rec.status = "absent" => rec.pending = {} /\ rec.task = {}
          /\ HasRun(rec) => request[rec.run.id] \cap rec.task
                              = IF rec.run.prev = "new" THEN rec.task ELSE {}
    <3>. TAKE c \in Conv
    <3>1. CASE c = cyc.c
      BY <1>6, <1>7, <1>11, <3>1 DEF HasRun
    <3>2. CASE c # cyc.c
      BY <1>1, <1>7, <3>2 DEF GesturesStay
    <3>. QED BY <3>1, <3>2
  <2>. QED BY SMTT(30), <1>1, <1>2, <1>7, <2>1 DEF GesturesStay
<1>18. EndsAreTold'
  BY <1>1, <1>2, <1>3, <1>4, <1>5, <1>6, <1>7, <1>8, <1>9, <1>10, <1>11
  DEF EndsAreTold
<1>19. NothingSilentlyLost'
  <2>1. \A g \in request[r] :
          \/ g \in disk'.conv[cyc.c].pending
          \/ g \in disk'.conv[cyc.c].task /\ disk'.conv[cyc.c].status = "new"
    BY <1>7, <1>11
  <2>2. \A g \in disk.conv[cyc.c].pending : g \in disk'.conv[cyc.c].pending
    BY <1>3, <1>7
  <2>3. ASSUME NEW g \in disk.seen, NEW c \in Conv, Kept(g, c)
        PROVE  Kept(g, c)'
    <3>1. CASE c = cyc.c
      BY <1>3, <1>4, <1>8, <2>1, <2>2, <2>3, <3>1 DEF Kept
    <3>2. CASE c # cyc.c
      BY <1>2, <1>7, <2>3, <3>2 DEF Kept
    <3>. QED BY <3>1, <3>2
  <2>4. \A g \in disk.seen, c \in Conv : Kept(g, c) =>
          Kept(g, c)' \/ g \in told' \/ (g \in silent' /\ failures' > 0)
    BY <2>3
  <2>5. /\ disk'.seen = disk.seen /\ told \subseteq told' /\ silent \subseteq silent'
        /\ failures > 0 => failures' > 0
    BY <1>2, <1>7
  <2>. QED BY <1>1, <2>4, <2>5, KeptIsNotLost
<1>20. OnePlace'
  <2>. SUFFICES ASSUME Undisturbed', NEW s \in Run, Effective(s)', NEW g \in request[s]
                PROVE  ~Queued(g)' /\ \A q \in Run \ {s} : Effective(q)' => g \notin request[q]
    BY <1>2 DEF OnePlace
  <2>1. \A q \in Run : Effective(q)' <=> Effective(q) /\ q # r
    BY <1>2, <1>9, <1>10 DEF Effective, Live
  <2>2. /\ ~Queued(g) /\ g \notin request[r]
        /\ \A q \in Run \ {s} : Effective(q) => g \notin request[q]
    BY <1>1, <1>4, <1>9, <2>1 DEF OnePlace, Effective
  <2>3. Queued(g)' => Queued(g) \/ g \in request[r]
    <3>1. ASSUME g \in disk'.conv[cyc.c].task, disk'.conv[cyc.c].status = "new"
          PROVE  g \in request[r]
      BY <1>7, <1>11, <3>1
    <3>. QED BY <1>3, <1>7, <3>1 DEF Queued
  <2>. QED BY <2>1, <2>2, <2>3
<1>21. LaunchesFit'
  BY <1>1, <1>2, <1>5, <1>7, <1>9 DEF LaunchesFit, HasRun
<1>22. LivingAreCurrent'
  BY <1>1, <1>2, <1>3, <1>4, <1>5, <1>6, <1>7, <1>8, <1>9, <1>10, <1>11
  DEF LivingAreCurrent, Undisturbed, Live, Current, Names
<1>23. DyingAreDead'
  BY <1>1, <1>2, <1>3, <1>4, <1>5, <1>6, <1>7, <1>8, <1>9, <1>10, <1>11
  DEF DyingAreDead, Undisturbed, Live
<1>24. FailuresAreErrors'
  BY <1>1, <1>2 DEF FailuresAreErrors, Undisturbed
<1>25. CapIsKept'
  BY <1>1, <1>2, <1>3, <1>4, <1>5, <1>6, <1>7, <1>8, <1>9, <1>10, <1>11
  DEF CapIsKept, Undisturbed, Living, Live
<1>26. NotesAreFinal'
  BY <1>1, <1>2, <1>3, <1>4, <1>5, <1>6, <1>7, <1>8, <1>9, <1>10, <1>11
  DEF NotesAreFinal, Current, Names
<1>. QED
  BY <1>12, <1>13, <1>14, <1>15, <1>16, <1>17, <1>18, <1>19, <1>20, <1>21, <1>22,
     <1>23, <1>24, <1>25, <1>26
  DEF IInv

\* A probe brings the record up to date.
LEMMA RecordKeeps ==
    ASSUME IInv, NEW alive \in BOOLEAN, At("heal", "probe"), Become(Seen(alive)),
           disk' = IF Seen(alive) # Here THEN mem' ELSE disk,
           GoTo("expired") \/ GoOn \/ (GoTo("recheck") /\ ~Lives(alive)),
           alive => SessionAlive,
           UNCHANGED <<hosted, files, workers, history, crashes, failures>>,
           {hangs', commands'} \subseteq Nat, hangs' = 0 => hangs = 0 /\ (SessionAlive => alive)
    PROVE  IInv'
<1>1. /\ TypeOK /\ CopiesAgree /\ PhasesFit /\ RunsAreNumbered /\ RunsAreFound
      /\ GesturesStay /\ EndsAreTold /\ NothingSilentlyLost /\ OnePlace /\ LaunchesFit
      /\ LivingAreCurrent /\ DyingAreDead /\ FailuresAreErrors /\ CapIsKept /\ NotesAreFinal
  BY DEF IInv
<1>2. /\ UNCHANGED <<hosted, home, request, pidFile, artifact, dirs, worker, began,
                     replies, verdicts, told, silent, crashes, failures>>
      /\ NewRun' = NewRun /\ cyc # None /\ cyc.phase = "heal" /\ cyc.at = "probe"
  BY DEF files, workers, history, At, NewRun
<1>3. /\ cyc \in Cycles /\ cyc.c \in Conv /\ mem = disk /\ mem \in Files /\ mem # None
      /\ Here = disk.conv[cyc.c] /\ Here \in Records /\ HasRun(disk.conv[cyc.c])
  BY <1>1, <1>2, AtWork, NoneAssumption DEF PhasesFit
<1>4. PICK r \in Run :
        /\ r = MyRun /\ r = disk.conv[cyc.c].run.id /\ home[r] = cyc.c
        /\ Current(r) /\ Here.run \in RunRecords
        /\ \A c \in Conv : Names(disk.conv[c].run, r) => c = cyc.c
  BY <1>2, <1>3, RunAtWork
<1>6. /\ disk' \in Files /\ mem' = disk' /\ mem' # None /\ disk'.seen = disk.seen
      /\ \A c \in Conv \ {cyc.c} : disk'.conv[c] = disk.conv[c]
      /\ disk'.conv[cyc.c] = Seen(alive)
  <2>. DEFINE new == Seen(alive)
  <2>1. new \in Records
    BY <1>3, <1>4, SeenEffect
  <2>. HIDE DEF new
  <2>2. Become(new)
    BY DEF new
  <2>3. /\ mem' \in Files /\ mem'.seen = mem.seen /\ mem'.conv[cyc.c] = new
        /\ \A c \in Conv \ {cyc.c} : mem'.conv[c] = mem.conv[c]
    BY <1>1, <1>2, <2>1, <2>2, BecomeEffect
  <2>4. mem' # None
    BY <2>3, NoneAssumption
  <2>5. disk' = mem'
    <3>1. CASE new # Here
      BY <3>1 DEF new
    <3>2. CASE new = Here
      <4>1. mem' = [mem EXCEPT !.conv[cyc.c] = mem.conv[cyc.c]]
        BY <2>2, <3>2 DEF Become, Here
      <4>2. mem' = mem
        BY <1>3, <4>1 DEF Files
      <4>. QED BY <1>3, <4>2
    <3>. QED BY <3>1, <3>2
  <2>. QED BY <1>3, <2>3, <2>4, <2>5 DEF new
<1>7. /\ Seen(alive).status = Here.status /\ Seen(alive).pending = Here.pending
      /\ Seen(alive).task = Here.task
      /\ Seen(alive).run.id = r /\ Seen(alive).run.prev = Here.run.prev
      /\ Seen(alive).run # None /\ Seen(alive) \in Records
      /\ Seen(alive).run.tmux <=> Here.run.tmux \/ alive
      /\ Seen(alive).run.pid <=> Here.run.pid \/ r \in pidFile
      /\ Seen(alive).run.launching
           <=> Here.run.launching /\ ~alive /\ (r \notin pidFile \/ Here.run.tmux)
  <2>1. Here.run.id = r
    BY <1>3, <1>4
  <2>. QED BY <1>3, <1>4, <2>1, SeenEffect, NoneAssumption DEF NoneAssumption, Pid
<1>8. /\ cyc' \in Cycles /\ cyc' # None
      /\ \/ /\ cyc'.at \in {"expired", "recheck"} /\ cyc'.phase = "heal" /\ cyc'.c = cyc.c
            /\ cyc'.at = "recheck" => ~Lives(alive)
         \/ /\ cyc'.at = "start" /\ cyc'.phase \in {"heal", "poll"}
            /\ cyc'.phase = "heal" => HasRun(disk.conv[cyc'.c]) /\ cyc'.c # cyc.c
  <2>1. CASE GoOn
    BY <1>2, <1>3, <2>1, GoesOn
  <2>2. CASE GoTo("expired")
    BY <1>1, <1>2, <2>2, StepsOn
  <2>3. CASE GoTo("recheck") /\ ~Lives(alive)
    BY <1>1, <1>2, <2>3, StepsOn
  <2>. QED BY <2>1, <2>2, <2>3
<1>9. cyc'.c \in Conv
  BY <1>8 DEF Cycles
<1>10. \A s \in Run : Current(s)' <=> Current(s)
  <2>1. \A s \in Run, c \in Conv \ {cyc.c} :
          Names(disk'.conv[c].run, s) <=> Names(disk.conv[c].run, s)
    BY <1>6
  <2>2. \A s \in Run : Names(disk'.conv[cyc.c].run, s) <=> Names(disk.conv[cyc.c].run, s)
    BY <1>3, <1>4, <1>6, <1>7 DEF Names, HasRun
  <2>. QED BY <2>1, <2>2 DEF Current
<1>11. Undisturbed' => Undisturbed
  BY <1>2 DEF Undisturbed
<1>12. Undisturbed' /\ Live(r) =>
         /\ hosted => Seen(alive).run.tmux /\ alive
         /\ ~hosted => ~Here.run.tmux /\ ~alive /\ Seen(alive).run.pid /\ Lives(alive)
  <2>. SUFFICES ASSUME Undisturbed', Live(r)
                PROVE  /\ hosted => Seen(alive).run.tmux /\ alive
                       /\ ~hosted => /\ ~Here.run.tmux /\ ~alive
                                     /\ Seen(alive).run.pid /\ Lives(alive)
    OBVIOUS
  <2>1. CASE hosted
    <3>1. SessionAlive
      BY <1>4, <2>1 DEF SessionAlive, InSession
    <3>. QED BY <1>7, <2>1, <3>1 DEF Undisturbed
  <2>2. CASE ~hosted
    <3>1. ~Here.run.tmux /\ ~Here.run.launching
      BY <1>1, <1>2, <1>3, <1>4, <1>11, <2>2 DEF RunsAreFound, LaunchesFit, At, Live
    <3>2. Here.run.pid
      BY <1>1, <1>3, <3>1 DEF RunsAreFound
    <3>3. ~alive
      BY <2>2 DEF SessionAlive, InSession
    <3>. QED BY <1>4, <1>7, <2>2, <3>1, <3>2, <3>3 DEF Lives
  <2>. QED BY <2>1, <2>2
<1>13. /\ Here.status = "working" /\ Here.pending \cup Here.task \subseteq disk.seen
       /\ r \in dirs
       /\ Here.run.launching \/ Here.run.tmux \/ Here.run.pid
       /\ Here.run.tmux => hosted
       /\ Here.run.pid => r \in pidFile
  BY SMTT(30), <1>1, <1>3, <1>4 DEF TypeOK, RunsAreFound, HasRun
<1>14. /\ \A g \in Here.pending \cup Here.task : ConvOf(g) = cyc.c
       /\ Here.pending \cap Here.task = {}
       /\ request[r] \cap Here.task = IF Here.run.prev = "new" THEN Here.task ELSE {}
  <2>1. LET rec == disk.conv[cyc.c] IN
        /\ \A g \in rec.pending \cup rec.task : ConvOf(g) = cyc.c
        /\ rec.pending \cap rec.task = {}
        /\ HasRun(rec) => request[rec.run.id] \cap rec.task
                            = IF rec.run.prev = "new" THEN rec.task ELSE {}
    BY <1>1, <1>3 DEF GesturesStay
  <2>. QED BY <1>3, <1>4, <2>1
<1>15. TypeOK'
  <2>1. \A c \in Conv : LET rec == disk'.conv[c] IN
          /\ rec.status = "working" <=> rec.run # None
          /\ rec.pending \cup rec.task \subseteq disk.seen
          /\ rec.run # None => rec.run.id \in dirs
    <3>. TAKE c \in Conv
    <3>1. CASE c = cyc.c
      BY <1>6, <1>7, <1>13, <3>1
    <3>2. CASE c # cyc.c
      BY <1>1, <1>6, <3>2 DEF TypeOK
    <3>. QED BY <3>1, <3>2
  <2>. QED BY <1>1, <1>2, <1>6, <1>8, <2>1 DEF TypeOK
<1>16. CopiesAgree'
  BY <1>6, <1>8 DEF CopiesAgree, Steps
<1>17. PhasesFit'
  BY <1>6, <1>7, <1>8, <1>9 DEF PhasesFit, HasRun
<1>18. RunsAreNumbered'
  BY <1>1, <1>2 DEF RunsAreNumbered
<1>19. RunsAreFound'
  <2>. SUFFICES ASSUME NEW c \in Conv, HasRun(disk'.conv[c])
                PROVE  LET run == disk'.conv[c].run IN
                       /\ home[run.id] = c
                       /\ run.launching \/ run.tmux \/ run.pid
                       /\ run.tmux => hosted
                       /\ run.pid => run.id \in pidFile
    BY <1>2 DEF RunsAreFound
  <2>1. CASE c = cyc.c
    <3>1. alive => hosted
      BY DEF SessionAlive, InSession
    <3>. QED BY ZenonT(40), <1>3, <1>4, <1>6, <1>7, <1>13, <2>1, <3>1
  <2>2. CASE c # cyc.c
    BY <1>1, <1>6, <2>2 DEF RunsAreFound
  <2>. QED BY <2>1, <2>2
<1>20. GesturesStay'
  <2>1. \A c \in Conv : LET rec == disk'.conv[c] IN
          /\ \A g \in rec.pending \cup rec.task : ConvOf(g) = c
          /\ rec.pending \cap rec.task = {}
          /\ rec.status = "absent" => rec.pending = {} /\ rec.task = {}
          /\ HasRun(rec) => request[rec.run.id] \cap rec.task
                              = IF rec.run.prev = "new" THEN rec.task ELSE {}
    <3>. TAKE c \in Conv
    <3>1. CASE c = cyc.c
      BY SMTT(30), <1>6, <1>7, <1>13, <1>14, <3>1
    <3>2. CASE c # cyc.c
      BY SMTT(30), <1>1, <1>6, <3>2 DEF GesturesStay
    <3>. QED BY <3>1, <3>2
  <2>. QED BY <1>1, <1>2, <1>6, <2>1 DEF GesturesStay
<1>21. EndsAreTold'
  BY <1>1, <1>2, <1>8 DEF EndsAreTold
<1>22. NothingSilentlyLost'
  <2>3. ASSUME NEW g \in disk.seen, NEW c \in Conv, Kept(g, c)
        PROVE  Kept(g, c)'
    <3>1. CASE c = cyc.c
      BY ZenonT(40), <1>2, <1>3, <1>4, <1>6, <1>7, <2>3, <3>1 DEF Kept
    <3>2. CASE c # cyc.c
      BY <1>2, <1>6, <2>3, <3>2 DEF Kept
    <3>. QED BY <3>1, <3>2
  <2>4. \A g \in disk.seen, c \in Conv : Kept(g, c) =>
          Kept(g, c)' \/ g \in told' \/ (g \in silent' /\ failures' > 0)
    BY <2>3
  <2>5. /\ disk'.seen = disk.seen /\ told \subseteq told' /\ silent \subseteq silent'
        /\ failures > 0 => failures' > 0
    BY <1>2, <1>6
  <2>. QED BY <1>1, <2>4, <2>5, KeptIsNotLost
<1>23. OnePlace'
  <2>. SUFFICES ASSUME Undisturbed', NEW s \in Run, Effective(s)', NEW g \in request[s]
                PROVE  ~Queued(g)' /\ \A q \in Run \ {s} : Effective(q)' => g \notin request[q]
    BY <1>2 DEF OnePlace
  <2>1. \A q \in Run : Effective(q)' <=> Effective(q)
    BY <1>2, <1>10 DEF Effective
  <2>2. ~Queued(g) /\ \A q \in Run \ {s} : Effective(q) => g \notin request[q]
    BY <1>1, <1>11, <2>1 DEF OnePlace
  <2>3. Queued(g)' => Queued(g)
    BY <1>3, <1>6, <1>7 DEF Queued
  <2>. QED BY <2>1, <2>2, <2>3
<1>24. LaunchesFit'
  <2>1. Undisturbed' /\ ~hosted' =>
          \A c \in Conv : HasRun(disk'.conv[c]) /\ disk'.conv[c].run.launching =>
              worker[disk'.conv[c].run.id] = "none"
    <3>1. \A c \in Conv : HasRun(disk'.conv[c]) /\ disk'.conv[c].run.launching =>
            /\ HasRun(disk.conv[c]) /\ disk.conv[c].run.launching
            /\ disk'.conv[c].run.id = disk.conv[c].run.id
      BY SMTT(30), <1>3, <1>4, <1>6, <1>7
    <3>. QED BY <1>1, <1>11, <3>1 DEF LaunchesFit, At
  <2>. QED BY <1>2, <1>8, <2>1 DEF LaunchesFit
<1>25. LivingAreCurrent'
  BY <1>1, <1>2, <1>10, <1>11 DEF LivingAreCurrent, Live
<1>26. DyingAreDead'
  <2>1. CASE cyc'.at = "start"
    BY <2>1 DEF DyingAreDead
  <2>2. CASE cyc'.at # "start"
    <3>1. /\ cyc'.at \in {"expired", "recheck"} /\ cyc'.c = cyc.c
          /\ cyc'.at = "recheck" => ~Lives(alive)
          /\ disk'.conv[cyc.c].run.id = r
      BY <1>6, <1>7, <1>8, <2>2
    <3>2. Undisturbed' /\ Live(r) => disk'.conv[cyc.c].run.tmux \/ r \in pidFile
      BY <1>1, <1>3, <1>4, <1>6, <1>7, <1>12 DEF RunsAreFound
    <3>3. Undisturbed' /\ Live(r) => Lives(alive)
      BY <1>12 DEF Lives
    <3>. QED BY <1>2, <3>1, <3>2, <3>3 DEF DyingAreDead, Live
  <2>. QED BY <2>1, <2>2
<1>27. FailuresAreErrors'
  BY <1>1, <1>2, <1>11 DEF FailuresAreErrors
<1>28. CapIsKept'
  BY <1>1, <1>2, <1>8, <1>11 DEF CapIsKept, Living, Live
<1>29. NotesAreFinal'
  BY <1>1, <1>2, <1>10 DEF NotesAreFinal
<1>. QED
  BY <1>15, <1>16, <1>17, <1>18, <1>19, <1>20, <1>21, <1>22, <1>23, <1>24, <1>25,
     <1>26, <1>27, <1>28, <1>29
  DEF IInv

\* What is new on the forge goes into the file.
LEMMA CommitKeeps ==
    ASSUME IInv, Commit
    PROVE  IInv'
<1>1. /\ TypeOK /\ CopiesAgree /\ PhasesFit /\ RunsAreNumbered /\ RunsAreFound
      /\ GesturesStay /\ EndsAreTold /\ NothingSilentlyLost /\ OnePlace /\ LaunchesFit
      /\ LivingAreCurrent /\ DyingAreDead /\ FailuresAreErrors /\ CapIsKept /\ NotesAreFinal
  BY DEF IInv
<1>2. /\ UNCHANGED <<hosted, home, request, pidFile, artifact, dirs, worker, began,
                  replies, verdicts, told, silent, crashes, failures, hangs, commands>>
      /\ NewRun' = NewRun
      /\ cyc # None /\ cyc.at = "start" /\ cyc.phase = "poll"
  BY DEF Commit, files, history, bounds, workers, At, NewRun
<1>3. /\ cyc \in Cycles /\ cyc.c \in Conv /\ mem = disk /\ disk \in Files
      /\ disk.conv \in [Conv -> Records]
  BY <1>2, AtWork DEF Files
<1>4. PICK gs \in SUBSET (Gesture \ disk.seen) : mem' = Committed(gs)
  BY <1>3 DEF Commit
<1>. DEFINE Mine(c) == {g \in gs : ConvOf(g) = c}
<1>5. /\ disk' \in Files /\ mem' = disk' /\ mem' # None /\ disk'.seen = disk.seen \cup gs
      /\ \A c \in Conv :
           /\ disk'.conv[c].run = disk.conv[c].run
           /\ disk'.conv[c].status = IF disk.conv[c].status = "absent" /\ Mine(c) # {}
                                     THEN "new" ELSE disk.conv[c].status
           /\ disk'.conv[c].pending = IF disk.conv[c].status = "absent" THEN Mine(c) \ Label
                                      ELSE disk.conv[c].pending \cup Mine(c)
           /\ disk'.conv[c].task = IF disk.conv[c].status = "absent" THEN Mine(c) \cap Label
                                   ELSE disk.conv[c].task
  <2>1. \A c \in Conv : disk.conv[c].status = "absent" =>
          disk.conv[c].pending = {} /\ disk.conv[c].task = {}
    BY <1>1 DEF GesturesStay
  <2>2. disk' = mem'
    BY DEF Commit, Save
  <2>3. mem' \in Files => mem' # None
    BY NoneAssumption DEF NoneAssumption
  <2>4. /\ Committed(gs) \in Files /\ Committed(gs).seen = disk.seen \cup gs
        /\ \A c \in Conv :
             LET new == Committed(gs).conv[c]
                 rec == disk.conv[c]
                 mine == {g \in gs : ConvOf(g) = c}
             IN  /\ new.run = rec.run
                 /\ new.status = IF rec.status = "absent" /\ mine # {} THEN "new"
                                 ELSE rec.status
                 /\ new.pending = IF rec.status = "absent" THEN mine \ Label
                                  ELSE rec.pending \cup mine
                 /\ new.task = IF rec.status = "absent" THEN mine \cap Label
                               ELSE rec.task
    BY <1>3, <2>1, CommittedEffect
  <2>5. disk' = Committed(gs)
    BY <1>4, <2>2
  <2>. QED BY <2>2, <2>3, <2>4, <2>5
<1>. HIDE DEF Mine
<1>6. /\ ActiveCount(disk.conv) \in Nat
      /\ Undisturbed => Cardinality(Living) <= ActiveCount(disk.conv)
  <2>1. IsFiniteSet(Conv)
    <3>1. Conversations \in Int /\ 1 \in Int
      BY LocalAssumption DEF LocalAssumption
    <3>. QED BY <3>1, FS_Interval DEF Conv
  <2>2. ActiveCount(disk.conv) \in Nat
    BY <2>1, FS_Subset, FS_CardinalityType DEF ActiveCount
  <2>. QED BY <1>1, <2>2, LivingAreCounted
<1>7. /\ cyc' \in Cycles /\ cyc' # None /\ cyc'.at = "start" /\ cyc'.active = ActiveCount(disk.conv)
      /\ cyc'.phase \in {"dispatch", "final"} /\ cyc'.c \in Conv
      /\ cyc'.phase = "dispatch" => Waiting(disk'.conv[cyc'.c])
  <2>1. cyc' = From("dispatch", 1, ActiveCount(disk.conv), disk'.conv)
    BY <1>3, <1>5 DEF Commit
  <2>2. disk'.conv \in [Conv -> Records]
    BY <1>5 DEF Files
  <2>3. /\ cyc' \in Cycles /\ cyc'.at = "start" /\ cyc'.active = ActiveCount(disk.conv)
        /\ cyc'.phase \in {"dispatch", "final"}
        /\ cyc'.phase = "dispatch" => Waiting(disk'.conv[cyc'.c])
    BY <1>6, <2>1, <2>2, FromEffect
  <2>. QED BY <2>3, NoneAssumption DEF Cycles
<1>8. \A s \in Run : Current(s)' <=> Current(s)
  BY <1>5 DEF Current, Names
<1>9. \A c \in Conv : disk.conv[c].status = "absent" =>
        disk.conv[c].pending = {} /\ disk.conv[c].task = {} /\ disk.conv[c].run = None
  BY <1>1 DEF GesturesStay, TypeOK
<1>10. \A c \in Conv : Mine(c) \subseteq gs /\ Mine(c) \cap disk.seen = {} /\ \A g \in Mine(c) : ConvOf(g) = c
  BY DEF Mine
<1>11. \A r \in Run : request[r] \cap gs = {}
  BY <1>1 DEF GesturesStay
<1>12. \A c \in Conv : disk.conv[c].pending \cup disk.conv[c].task \subseteq disk.seen
  BY <1>1 DEF TypeOK
<1>13. TypeOK'
  <2>1. \A c \in Conv : LET rec == disk'.conv[c] IN
          /\ rec.status = "working" <=> rec.run # None
          /\ rec.pending \cup rec.task \subseteq disk'.seen
          /\ rec.run # None => rec.run.id \in dirs
    <3>. TAKE c \in Conv
    <3>1. /\ disk.conv[c].status = "working" <=> disk.conv[c].run # None
          /\ disk.conv[c].run # None => disk.conv[c].run.id \in dirs
      BY <1>1 DEF TypeOK
    <3>2. CASE disk.conv[c].status = "absent"
      BY <1>5, <1>9, <1>10, <3>1, <3>2
    <3>3. CASE disk.conv[c].status # "absent"
      BY ZenonT(40), <1>5, <1>10, <1>12, <3>1, <3>3
    <3>. QED BY <3>2, <3>3
  <2>. QED BY <1>1, <1>2, <1>5, <1>7, <2>1 DEF TypeOK
<1>14. CopiesAgree'
  BY <1>5, <1>7 DEF CopiesAgree, Steps
<1>15. PhasesFit'
  BY <1>7 DEF PhasesFit
<1>16. RunsAreNumbered'
  BY <1>1, <1>2 DEF RunsAreNumbered
<1>17. RunsAreFound'
  BY <1>1, <1>2, <1>5 DEF RunsAreFound, HasRun
<1>18. GesturesStay'
  <2>1. \A c \in Conv : LET rec == disk'.conv[c] IN
          /\ \A g \in rec.pending \cup rec.task : ConvOf(g) = c
          /\ rec.pending \cap rec.task = {}
          /\ rec.status = "absent" => rec.pending = {} /\ rec.task = {}
          /\ HasRun(rec) => request[rec.run.id] \cap rec.task
                              = IF rec.run.prev = "new" THEN rec.task ELSE {}
    <3>. TAKE c \in Conv
    <3>1. LET rec == disk.conv[c] IN
          /\ \A g \in rec.pending \cup rec.task : ConvOf(g) = c
          /\ rec.pending \cap rec.task = {}
          /\ HasRun(rec) => request[rec.run.id] \cap rec.task
                              = IF rec.run.prev = "new" THEN rec.task ELSE {}
      BY <1>1 DEF GesturesStay
    <3>2. CASE disk.conv[c].status = "absent"
      BY <1>5, <1>9, <1>10, <3>2 DEF HasRun
    <3>3. CASE disk.conv[c].status # "absent"
      <4>1. /\ disk'.conv[c].run = disk.conv[c].run
            /\ disk'.conv[c].status = disk.conv[c].status
            /\ disk'.conv[c].task = disk.conv[c].task
            /\ disk'.conv[c].pending = disk.conv[c].pending \cup Mine(c)
        BY <1>5, <3>3
      <4>2. Mine(c) \cap disk.conv[c].task = {}
        BY <1>10, <1>12
      <4>. QED BY <1>10, <3>1, <3>3, <4>1, <4>2 DEF HasRun
    <3>. QED BY <3>2, <3>3
  <2>. QED BY <1>1, <1>2, <1>5, <2>1 DEF GesturesStay
<1>19. EndsAreTold'
  BY <1>1, <1>2, <1>7 DEF EndsAreTold
<1>20. NothingSilentlyLost'
  <2>1. ASSUME NEW g \in disk.seen, NEW c \in Conv, Kept(g, c)
        PROVE  Kept(g, c)'
    <3>1. CASE disk.conv[c].status = "absent"
      BY <1>9, <2>1, <3>1 DEF Kept
    <3>2. CASE disk.conv[c].status # "absent"
      BY <1>2, <1>5, <2>1, <3>2 DEF Kept
    <3>. QED BY <3>1, <3>2
  <2>2. ASSUME NEW g \in gs
        PROVE  ConvOf(g) \in Conv /\ Kept(g, ConvOf(g))'
    <3>1. ConvOf(g) \in Conv
      BY LocalAssumption DEF Conv, ConvOf
    <3>2. g \in Mine(ConvOf(g))
      BY DEF Mine
    <3>. QED BY <1>5, <3>1, <3>2 DEF Kept
  <2>3. \A g \in disk.seen : \/ \E c \in Conv : Kept(g, c)
                             \/ g \in told
                             \/ g \in silent /\ failures > 0
    BY <1>1 DEF NothingSilentlyLost, Kept
  <2>4. \A g \in disk'.seen : \/ \E c \in Conv : Kept(g, c)'
                              \/ g \in told'
                              \/ g \in silent' /\ failures' > 0
    BY <1>2, <1>5, <2>1, <2>2, <2>3
  <2>. QED BY <2>4 DEF NothingSilentlyLost, Kept
<1>21. OnePlace'
  <2>. SUFFICES ASSUME Undisturbed', NEW s \in Run, Effective(s)', NEW g \in request[s]
                PROVE  ~Queued(g)' /\ \A q \in Run \ {s} : Effective(q)' => g \notin request[q]
    BY <1>2 DEF OnePlace
  <2>1. \A q \in Run : Effective(q)' <=> Effective(q)
    BY <1>2, <1>8 DEF Effective
  <2>2. ~Queued(g) /\ \A q \in Run \ {s} : Effective(q) => g \notin request[q]
    BY <1>1, <1>2, <2>1 DEF OnePlace, Undisturbed
  <2>3. Queued(g)' => Queued(g) \/ g \in gs
    BY <1>5, <1>10 DEF Queued
  <2>. QED BY <1>11, <2>1, <2>2, <2>3
<1>22. LaunchesFit'
  BY ZenonT(40), <1>1, <1>2, <1>5, <1>7 DEF LaunchesFit, HasRun, At, Undisturbed
<1>23. LivingAreCurrent'
  BY <1>1, <1>2, <1>8 DEF LivingAreCurrent, Live, Undisturbed
<1>24. DyingAreDead'
  BY <1>7 DEF DyingAreDead
<1>25. FailuresAreErrors'
  BY <1>1, <1>2 DEF FailuresAreErrors, Undisturbed
<1>26. CapIsKept'
  <2>1. Living' = Living
    BY <1>2 DEF Living, Live
  <2>. QED BY <1>1, <1>2, <1>6, <1>7, <2>1 DEF CapIsKept, Undisturbed
<1>27. NotesAreFinal'
  BY <1>1, <1>2, <1>8 DEF NotesAreFinal
<1>. QED
  BY <1>13, <1>14, <1>15, <1>16, <1>17, <1>18, <1>19, <1>20, <1>21, <1>22, <1>23,
     <1>24, <1>25, <1>26, <1>27
  DEF IInv

\* A run is made of what waits, and put on record before it is launched.
LEMMA TakeKeeps ==
    ASSUME IInv, CanStart, MakeRun, Become(Launching(Here, NewRun)), Save,
           \/ GoTo("launch") /\ UNCHANGED bounds
           \/ GoOn /\ Fail,
           UNCHANGED <<hosted, workers, history>>
    PROVE  IInv'
<1>1. /\ TypeOK /\ CopiesAgree /\ PhasesFit /\ RunsAreNumbered /\ RunsAreFound
      /\ GesturesStay /\ EndsAreTold /\ NothingSilentlyLost /\ OnePlace /\ LaunchesFit
      /\ LivingAreCurrent /\ DyingAreDead /\ FailuresAreErrors /\ CapIsKept /\ NotesAreFinal
  BY DEF IInv
<1>2. /\ UNCHANGED <<hosted, pidFile, artifact, worker, began,
                     replies, verdicts, told, silent, crashes, hangs, commands>>
      /\ cyc # None /\ cyc.phase = "dispatch" /\ cyc.at = "start" /\ cyc.active < Cap
      /\ failures \in Nat /\ failures' \in Nat
      /\ failures > 0 => failures' > 0
      /\ failures' = 0 => failures = 0
  BY <1>1 DEF MakeRun, CanStart, workers, history, bounds, At, Fail, TypeOK
<1>3. /\ cyc \in Cycles /\ cyc.c \in Conv /\ mem = disk /\ mem \in Files /\ mem # None
      /\ Here = disk.conv[cyc.c] /\ Here \in Records /\ Waiting(disk.conv[cyc.c])
  BY <1>1, <1>2, AtWork, NoneAssumption DEF PhasesFit
<1>4. PICK r \in Run : r = NewRun
  BY DEF MakeRun
<1>5. /\ home[r] = None /\ worker[r] = "none" /\ artifact[r] = "none" /\ r \notin pidFile
      /\ r \notin began /\ request[r] = {} /\ replies[r] = 0 /\ verdicts[r] = 0
  <2>1. r \in Nat
    BY DEF Run
  <2>2. home[r] = None
    BY <1>1, <1>4, <2>1 DEF RunsAreNumbered
  <2>. QED BY <1>1, <2>2 DEF RunsAreNumbered, TypeOK
<1>6. /\ r \in Nat /\ NewRun' = r + 1
      /\ home' \in [Run -> Conv \cup {None}]
      /\ home'[r] = cyc.c /\ \A s \in Run \ {r} : home'[s] = home[s]
  <2>1. home \in [Run -> Conv \cup {None}] /\ home' = [home EXCEPT ![r] = cyc.c]
    BY <1>1, <1>4 DEF MakeRun, TypeOK
  <2>2. cyc.c # None
    BY <1>3, NoneAssumption
  <2>3. NewRun \in Run /\ home[NewRun] = None /\ home' = [home EXCEPT ![NewRun] = cyc.c]
    BY <1>4, <1>5, <2>1
  <2>4. /\ NewRun \in Nat /\ NewRun' = NewRun + 1
        /\ home'[NewRun] = cyc.c /\ \A s \in Run \ {NewRun} : home'[s] = home[s]
    BY <2>1, <2>2, <2>3, NewRunIsNext
  <2>. QED BY <1>3, <1>4, <2>1, <2>4
<1>7. /\ Here.status \in {"new", "done", "failed"} /\ Here.run = None
      /\ Here.pending \cup Here.task \subseteq disk.seen
      /\ \A g \in Here.pending \cup Here.task : ConvOf(g) = cyc.c
      /\ Here.pending \cap Here.task = {}
  BY <1>1, <1>3 DEF TypeOK, GesturesStay, Waiting, Records, Statuses
<1>8. /\ disk' \in Files /\ mem' = disk' /\ mem' # None /\ disk'.seen = disk.seen
      /\ \A c \in Conv \ {cyc.c} : disk'.conv[c] = disk.conv[c]
      /\ disk'.conv[cyc.c].run # None /\ disk'.conv[cyc.c].run.id = r
      /\ disk'.conv[cyc.c].run.prev = Here.status /\ disk'.conv[cyc.c].run.launching
      /\ ~disk'.conv[cyc.c].run.tmux /\ ~disk'.conv[cyc.c].run.pid
      /\ disk'.conv[cyc.c].pending = {} /\ disk'.conv[cyc.c].status = "working"
      /\ disk'.conv[cyc.c].task = Here.task
  <2>. DEFINE new == Launching(Here, r)
  <2>1. /\ new \in Records /\ new.pending = {} /\ new.status = "working"
        /\ new.task = Here.task /\ new.run \in RunRecords
        /\ new.run.id = r /\ new.run.prev = Here.status /\ new.run.launching
        /\ ~new.run.tmux /\ ~new.run.pid
    BY <1>3, <1>7, LaunchingEffect
  <2>2. Become(new)
    BY <1>4
  <2>. HIDE DEF new
  <2>3. /\ mem' \in Files /\ mem'.seen = mem.seen /\ mem'.conv[cyc.c] = new
        /\ \A c \in Conv \ {cyc.c} : mem'.conv[c] = mem.conv[c]
    BY <1>1, <1>2, <2>1, <2>2, BecomeEffect
  <2>4. mem' # None /\ new.run # None
    BY <2>1, <2>3, NoneAssumption
  <2>. QED BY <1>3, <2>1, <2>3, <2>4 DEF Save
<1>. DEFINE work == Here.pending \cup (IF Here.status = "new" THEN Here.task ELSE {})
<1>9. /\ request' \in [Run -> SUBSET Gesture]
      /\ request'[r] = work /\ \A s \in Run \ {r} : request'[s] = request[s]
      /\ work \subseteq disk.seen /\ \A g \in work : ConvOf(g) = cyc.c
      /\ Here.pending \subseteq work
      /\ Here.status = "new" => Here.task \subseteq work
      /\ work \cap Here.task = IF Here.status = "new" THEN Here.task ELSE {}
      /\ \A g \in work : \/ g \in Here.pending
                         \/ g \in Here.task /\ Here.status = "new"
  <2>1. request \in [Run -> SUBSET Gesture] /\ request' = [request EXCEPT ![r] = work]
    BY <1>1, <1>4 DEF MakeRun, TypeOK, Work
  <2>2. work \subseteq Gesture
    BY <1>3 DEF Records
  <2>. QED BY <1>7, <2>1, <2>2
<1>. HIDE DEF work
<1>10. /\ cyc' \in Cycles /\ cyc' # None /\ cyc'.active = cyc.active
       /\ \/ cyc'.at = "launch" /\ cyc'.phase = "dispatch" /\ cyc'.c = cyc.c
          \/ /\ cyc'.at = "start" /\ cyc'.phase \in {"dispatch", "final"}
             /\ cyc'.phase = "dispatch" => Waiting(disk.conv[cyc'.c]) /\ cyc'.c # cyc.c
  <2>1. CASE GoOn
    BY <1>2, <1>3, <2>1, GoesOn
  <2>2. CASE GoTo("launch")
    BY <1>1, <1>2, <2>2, StepsOn
  <2>. QED BY <2>1, <2>2
<1>11. /\ cyc'.c \in Conv /\ cyc.active \in Nat /\ Cap \in Nat
       /\ dirs' = dirs \cup {r}
  BY <1>4, <1>10, LocalAssumption DEF Cycles, MakeRun
<1>12. \A s \in Run : Current(s)' <=> Current(s) \/ s = r
  <2>1. \A s \in Run, c \in Conv \ {cyc.c} :
          Names(disk'.conv[c].run, s) <=> Names(disk.conv[c].run, s)
    BY <1>8
  <2>2. \A s \in Run : /\ Names(disk'.conv[cyc.c].run, s) <=> s = r
                       /\ ~Names(disk.conv[cyc.c].run, s)
    BY <1>3, <1>7, <1>8 DEF Names
  <2>. QED BY <1>3, <2>1, <2>2 DEF Current
<1>13. \A c \in Conv : HasRun(disk.conv[c]) =>
         disk.conv[c].run.id \in Run \ {r} /\ c # cyc.c
  <2>1. \A c \in Conv : HasRun(disk.conv[c]) =>
          disk.conv[c].run.id \in Run /\ home[disk.conv[c].run.id] = c
    BY <1>1, RecordsName DEF RunsAreFound
  <2>. QED BY <1>3, <1>5, <1>7, <2>1, NoneAssumption DEF HasRun
<1>14. ~Effective(r)
  <2>1. ~Current(r)
    BY <1>13 DEF Current, Names, HasRun
  <2>. QED BY <1>5, <2>1 DEF Effective
<1>15. TypeOK'
  <2>1. \A c \in Conv : LET rec == disk'.conv[c] IN
          /\ rec.status = "working" <=> rec.run # None
          /\ rec.pending \cup rec.task \subseteq disk.seen
          /\ rec.run # None => rec.run.id \in dirs'
    <3>. TAKE c \in Conv
    <3>1. CASE c = cyc.c
      BY <1>7, <1>8, <1>11, <3>1
    <3>2. CASE c # cyc.c
      BY <1>1, <1>8, <1>11, <3>2 DEF TypeOK
    <3>. QED BY <3>1, <3>2
  <2>2. dirs' \subseteq Run
    BY <1>1, <1>11 DEF TypeOK
  <2>3. {crashes, failures, hangs, commands}' \subseteq Nat
    BY <1>1, <1>2 DEF TypeOK
  <2>. QED BY <1>1, <1>2, <1>6, <1>8, <1>9, <1>10, <2>1, <2>2, <2>3 DEF TypeOK
<1>16. CopiesAgree'
  BY <1>8, <1>10 DEF CopiesAgree, Steps
<1>17. PhasesFit'
  BY <1>8, <1>10, <1>11 DEF PhasesFit, HasRun
<1>18. RunsAreNumbered'
  <2>. SUFFICES ASSUME NEW s \in Run
                PROVE  /\ home'[s] # None <=> s < r + 1
                       /\ home'[s] = None =>
                            /\ worker[s] = "none" /\ artifact[s] = "none" /\ s \notin pidFile
                            /\ request'[s] = {} /\ replies[s] = 0 /\ verdicts[s] = 0
    BY <1>2, <1>6 DEF RunsAreNumbered
  <2>1. s \in Nat /\ cyc.c # None
    BY <1>3, NoneAssumption DEF Run
  <2>2. CASE s = r
    BY <1>6, <2>1, <2>2
  <2>3. CASE s # r
    <3>1. home[s] # None <=> s < r
      BY <1>1, <1>4 DEF RunsAreNumbered
    <3>. QED BY <1>1, <1>6, <1>9, <2>1, <3>1 DEF RunsAreNumbered
  <2>. QED BY <2>2, <2>3
<1>19. RunsAreFound'
  <2>. SUFFICES ASSUME NEW c \in Conv, HasRun(disk'.conv[c])
                PROVE  LET run == disk'.conv[c].run IN
                       /\ home'[run.id] = c
                       /\ run.launching \/ run.tmux \/ run.pid
                       /\ run.tmux => hosted
                       /\ run.pid => run.id \in pidFile
    BY <1>2 DEF RunsAreFound
  <2>1. CASE c = cyc.c
    BY <1>6, <1>8, <2>1
  <2>2. CASE c # cyc.c
    <3>1. disk'.conv[c] = disk.conv[c] /\ HasRun(disk.conv[c])
      BY <1>8, <2>2
    <3>2. home'[disk.conv[c].run.id] = home[disk.conv[c].run.id]
      BY <1>6, <1>13, <3>1
    <3>. QED BY <1>1, <3>1, <3>2 DEF RunsAreFound
  <2>. QED BY <2>1, <2>2
<1>20. GesturesStay'
  <2>1. \A c \in Conv : LET rec == disk'.conv[c] IN
          /\ \A g \in rec.pending \cup rec.task : ConvOf(g) = c
          /\ rec.pending \cap rec.task = {}
          /\ rec.status = "absent" => rec.pending = {} /\ rec.task = {}
          /\ HasRun(rec) => request'[rec.run.id] \cap rec.task
                              = IF rec.run.prev = "new" THEN rec.task ELSE {}
    <3>. TAKE c \in Conv
    <3>1. CASE c = cyc.c
      BY <1>7, <1>8, <1>9, <3>1
    <3>2. CASE c # cyc.c
      BY SMTT(30), <1>1, <1>8, <1>9, <1>13, <3>2 DEF GesturesStay
    <3>. QED BY <3>1, <3>2
  <2>2. \A s \in Run : request'[s] \subseteq disk.seen /\ \A g \in request'[s] : ConvOf(g) = home'[s]
    <3>. TAKE s \in Run
    <3>1. CASE s = r
      BY <1>6, <1>9, <3>1
    <3>2. CASE s # r
      BY <1>1, <1>6, <1>9 DEF GesturesStay
    <3>. QED BY <3>1, <3>2
  <2>. QED BY <1>8, <2>1, <2>2 DEF GesturesStay
<1>21. EndsAreTold'
  BY <1>1, <1>2, <1>10 DEF EndsAreTold
<1>22. NothingSilentlyLost'
  <2>3. ASSUME NEW g \in disk.seen, NEW c \in Conv, Kept(g, c)
        PROVE  Kept(g, c)'
    <3>1. CASE c = cyc.c
      BY <1>3, <1>7, <1>8, <1>9, <2>3, <3>1 DEF Kept
    <3>2. CASE c # cyc.c
      BY <1>8, <1>9, <1>13, <2>3, <3>2 DEF Kept, HasRun
    <3>. QED BY <3>1, <3>2
  <2>4. \A g \in disk.seen, c \in Conv : Kept(g, c) =>
          Kept(g, c)' \/ g \in told' \/ (g \in silent' /\ failures' > 0)
    BY <2>3
  <2>5. /\ disk'.seen = disk.seen /\ told \subseteq told' /\ silent \subseteq silent'
        /\ failures > 0 => failures' > 0
    BY <1>2, <1>8
  <2>. QED BY <1>1, <2>4, <2>5, KeptIsNotLost
<1>23. OnePlace'
  <2>. SUFFICES ASSUME Undisturbed', NEW s \in Run, Effective(s)', NEW g \in request'[s]
                PROVE  ~Queued(g)' /\ \A q \in Run \ {s} : Effective(q)' => g \notin request'[q]
    BY <1>2 DEF OnePlace
  <2>1. \A q \in Run : Effective(q)' <=> Effective(q) \/ q = r
    BY <1>2, <1>12 DEF Effective
  <2>2. Undisturbed
    BY <1>2 DEF Undisturbed
  <2>3. \A q \in Run : Effective(q) =>
          q # r /\ \A h \in request[q] :
             ~Queued(h) /\ \A p \in Run \ {q} : Effective(p) => h \notin request[p]
    BY <1>1, <1>14, <2>2 DEF OnePlace
  <2>4. \A h \in work : Queued(h)
    BY <1>3, <1>9 DEF Queued
  <2>5. ~Queued(g)'
    <3>1. CASE s = r
      <4>1. g \in work
        BY <1>9, <3>1
      <4>2. \A c \in Conv \ {cyc.c} : g \notin disk'.conv[c].pending \cup disk'.conv[c].task
        BY <1>1, <1>8, <1>9, <4>1 DEF GesturesStay
      <4>. QED BY <1>8, <4>2 DEF Queued
    <3>2. CASE s # r
      <4>1. ~Queued(g)
        BY <1>9, <2>1, <2>3, <3>2
      <4>. QED BY <1>8, <4>1 DEF Queued
    <3>. QED BY <3>1, <3>2
  <2>6. ASSUME NEW q \in Run \ {s}, Effective(q)'
        PROVE  g \notin request'[q]
    <3>1. CASE s = r
      BY <1>9, <2>1, <2>3, <2>4, <2>6
    <3>2. CASE q = r
      BY <1>9, <2>1, <2>3, <2>4, <2>6
    <3>3. CASE s # r /\ q # r
      BY <1>9, <2>1, <2>3, <2>6, <3>3
    <3>. QED BY <3>1, <3>2, <3>3
  <2>. QED BY <2>5, <2>6
<1>24. LaunchesFit'
  <2>1. Undisturbed' /\ ~hosted' =>
          \A c \in Conv : HasRun(disk'.conv[c]) /\ disk'.conv[c].run.launching =>
              worker[disk'.conv[c].run.id] = "none"
    <3>1. \A c \in Conv \ {cyc.c} : HasRun(disk'.conv[c]) /\ disk'.conv[c].run.launching =>
            /\ HasRun(disk.conv[c]) /\ disk.conv[c].run.launching
            /\ disk'.conv[c].run.id = disk.conv[c].run.id
      BY <1>8
    <3>. QED BY <1>1, <1>2, <1>5, <1>8 DEF LaunchesFit, Undisturbed
  <2>. QED BY <1>2, <1>5, <1>8, <1>10, <2>1 DEF LaunchesFit
<1>25. LivingAreCurrent'
  BY <1>1, <1>2, <1>12 DEF LivingAreCurrent, Live, Undisturbed
<1>26. DyingAreDead'
  BY <1>10 DEF DyingAreDead
<1>27. FailuresAreErrors'
  BY <1>1, <1>2 DEF FailuresAreErrors, Undisturbed
<1>28. CapIsKept'
  <2>1. Living' = Living
    BY <1>2 DEF Living, Live
  <2>. QED BY <1>1, <1>2, <1>10, <2>1 DEF CapIsKept, Undisturbed
<1>29. NotesAreFinal'
  BY <1>1, <1>2, <1>5, <1>12 DEF NotesAreFinal
<1>. QED
  BY <1>15, <1>16, <1>17, <1>18, <1>19, <1>20, <1>21, <1>22, <1>23, <1>24, <1>25,
     <1>26, <1>27, <1>28, <1>29
  DEF IInv

\* What a preparation took from the queue, and failed on, is gone.
LEMMA PrepareRaisesKeeps ==
    ASSUME IInv, PrepareRaises
    PROVE  IInv'
<1>1. /\ TypeOK /\ CopiesAgree /\ PhasesFit /\ RunsAreNumbered /\ RunsAreFound
      /\ GesturesStay /\ EndsAreTold /\ NothingSilentlyLost /\ OnePlace /\ LaunchesFit
      /\ LivingAreCurrent /\ DyingAreDead /\ FailuresAreErrors /\ CapIsKept /\ NotesAreFinal
  BY DEF IInv
<1>2. /\ UNCHANGED <<hosted, home, request, pidFile, artifact, dirs, worker, began,
                  replies, verdicts, told, crashes, hangs, commands>>
      /\ NewRun' = NewRun
      /\ cyc # None /\ cyc.phase = "dispatch" /\ cyc.at = "start"
      /\ silent' = silent \cup Here.pending /\ failures' = failures + 1
  BY DEF PrepareRaises, files, workers, CanStart, At, Fail, NewRun
<1>3. /\ cyc \in Cycles /\ cyc.c \in Conv /\ mem = disk /\ mem \in Files /\ mem # None
      /\ Here = disk.conv[cyc.c] /\ Here \in Records /\ Waiting(disk.conv[cyc.c])
  BY <1>1, <1>2, AtWork, NoneAssumption DEF PhasesFit
<1>4. /\ disk' \in Files /\ mem' = disk' /\ mem' # None /\ disk'.seen = disk.seen
      /\ \A c \in Conv \ {cyc.c} : disk'.conv[c] = disk.conv[c]
      /\ disk'.conv[cyc.c].run = Here.run
      /\ disk'.conv[cyc.c].pending = {} /\ disk'.conv[cyc.c].status = Here.status
      /\ disk'.conv[cyc.c].task = Here.task
  <2>. DEFINE new == [Here EXCEPT !.pending = {}]
  <2>1. /\ new \in Records /\ new.pending = {} /\ new.status = Here.status
        /\ new.task = Here.task /\ new.run = Here.run
    BY <1>3 DEF Records
  <2>2. Become(new)
    BY DEF PrepareRaises
  <2>. HIDE DEF new
  <2>3. /\ mem' \in Files /\ mem'.seen = mem.seen /\ mem'.conv[cyc.c] = new
        /\ \A c \in Conv \ {cyc.c} : mem'.conv[c] = mem.conv[c]
    BY <1>1, <1>2, <2>1, <2>2, BecomeEffect
  <2>4. mem' # None
    BY <2>3, NoneAssumption
  <2>5. disk' = mem'
    BY DEF PrepareRaises, Save
  <2>. QED BY <1>3, <2>1, <2>3, <2>4, <2>5
<1>5. /\ cyc' \in Cycles /\ cyc' # None /\ cyc'.active = cyc.active
      /\ cyc'.at = "start" /\ cyc'.phase \in {"dispatch", "final"}
      /\ cyc'.phase = "dispatch" => Waiting(disk.conv[cyc'.c]) /\ cyc'.c # cyc.c
  BY <1>2, <1>3, GoesOn DEF PrepareRaises
<1>6. /\ cyc'.c \in Conv /\ failures \in Nat /\ failures' \in Nat /\ failures' > 0
      /\ Here.pending \subseteq Gesture
  BY <1>1, <1>2, <1>3, <1>5 DEF Cycles, TypeOK, Records
<1>7. \A c \in Conv : /\ disk'.conv[c].run = disk.conv[c].run
                      /\ disk'.conv[c].status = disk.conv[c].status
                       /\ disk'.conv[c].pending \subseteq disk.conv[c].pending
                       /\ disk'.conv[c].task = disk.conv[c].task
  BY <1>3, <1>4
<1>8. \A s \in Run : Current(s)' <=> Current(s)
  BY <1>7 DEF Current
<1>9. TypeOK'
  <2>1. \A c \in Conv : LET rec == disk'.conv[c] IN
          /\ rec.status = "working" <=> rec.run # None
          /\ rec.pending \cup rec.task \subseteq disk.seen
          /\ rec.run # None => rec.run.id \in dirs
    BY <1>1, <1>7 DEF TypeOK
  <2>. QED BY <1>1, <1>2, <1>4, <1>5, <1>6, <2>1 DEF TypeOK
<1>10. CopiesAgree'
  BY <1>4, <1>5 DEF CopiesAgree, Steps
<1>11. PhasesFit'
  BY <1>4, <1>5, <1>6 DEF PhasesFit
<1>12. RunsAreNumbered'
  BY <1>1, <1>2 DEF RunsAreNumbered
<1>13. RunsAreFound'
  BY <1>1, <1>2, <1>7 DEF RunsAreFound, HasRun
<1>14. GesturesStay'
  <2>1. \A c \in Conv : LET rec == disk'.conv[c] IN
          /\ \A g \in rec.pending \cup rec.task : ConvOf(g) = c
          /\ rec.pending \cap rec.task = {}
          /\ rec.status = "absent" => rec.pending = {} /\ rec.task = {}
          /\ HasRun(rec) => request[rec.run.id] \cap rec.task
                              = IF rec.run.prev = "new" THEN rec.task ELSE {}
    <3>. TAKE c \in Conv
    <3>1. LET rec == disk.conv[c] IN
          /\ \A g \in rec.pending \cup rec.task : ConvOf(g) = c
          /\ rec.pending \cap rec.task = {}
          /\ rec.status = "absent" => rec.pending = {} /\ rec.task = {}
          /\ HasRun(rec) => request[rec.run.id] \cap rec.task
                              = IF rec.run.prev = "new" THEN rec.task ELSE {}
      BY <1>1 DEF GesturesStay
    <3>. QED BY <1>7, <3>1 DEF HasRun
  <2>. QED BY <1>1, <1>2, <1>4, <2>1 DEF GesturesStay
<1>15. EndsAreTold'
  BY <1>5, <1>6 DEF EndsAreTold
<1>16. NothingSilentlyLost'
  <2>3. ASSUME NEW g \in disk.seen, NEW c \in Conv, Kept(g, c)
        PROVE  Kept(g, c)' \/ (g \in silent' /\ failures' > 0)
    <3>1. CASE c = cyc.c
      BY <1>2, <1>3, <1>4, <1>6, <2>3 DEF Kept
    <3>2. CASE c # cyc.c
      BY <1>2, <1>4, <2>3, <3>2 DEF Kept
    <3>. QED BY <3>1, <3>2
  <2>4. \A g \in disk.seen, c \in Conv : Kept(g, c) =>
          Kept(g, c)' \/ g \in told' \/ (g \in silent' /\ failures' > 0)
    BY <2>3
  <2>5. /\ disk'.seen = disk.seen /\ told \subseteq told' /\ silent \subseteq silent'
        /\ failures > 0 => failures' > 0
    BY <1>2, <1>4, <1>6
  <2>. QED BY <1>1, <2>4, <2>5, KeptIsNotLost
<1>17. OnePlace'
  BY <1>1, <1>2, <1>7, <1>8 DEF OnePlace, Undisturbed, Effective, Queued
<1>18. LaunchesFit'
  BY <1>1, <1>2, <1>5, <1>7 DEF LaunchesFit, HasRun, At, Undisturbed
<1>19. LivingAreCurrent'
  BY <1>1, <1>2, <1>8 DEF LivingAreCurrent, Live, Undisturbed
<1>20. DyingAreDead'
  BY <1>5 DEF DyingAreDead
<1>21. FailuresAreErrors'
  BY <1>1, <1>2 DEF FailuresAreErrors, Undisturbed
<1>22. CapIsKept'
  BY <1>1, <1>2, <1>5 DEF CapIsKept, Undisturbed, Living, Live
<1>23. NotesAreFinal'
  BY <1>6 DEF NotesAreFinal
<1>. QED
  BY <1>9, <1>10, <1>11, <1>12, <1>13, <1>14, <1>15, <1>16, <1>17, <1>18, <1>19,
     <1>20, <1>21, <1>22, <1>23
  DEF IInv

\* The worker is started.
LEMMA LaunchKeeps ==
    ASSUME IInv, Launch
    PROVE  IInv'
<1>1. /\ TypeOK /\ CopiesAgree /\ PhasesFit /\ RunsAreNumbered /\ RunsAreFound
      /\ GesturesStay /\ EndsAreTold /\ NothingSilentlyLost /\ OnePlace /\ LaunchesFit
      /\ LivingAreCurrent /\ DyingAreDead /\ FailuresAreErrors /\ CapIsKept /\ NotesAreFinal
  BY DEF IInv
<1>2. /\ UNCHANGED <<hosted, disk, mem, home, request, pidFile, artifact, dirs,
                  began, replies, verdicts, told, silent, crashes, failures, hangs, commands>>
      /\ NewRun' = NewRun
      /\ cyc # None /\ cyc.phase = "dispatch" /\ cyc.at = "launch"
  BY DEF Launch, files, history, bounds, At, NewRun
<1>3. /\ cyc \in Cycles /\ cyc.c \in Conv /\ mem = disk /\ mem \in Files /\ mem # None
      /\ Here = disk.conv[cyc.c] /\ Here \in Records /\ HasRun(disk.conv[cyc.c])
      /\ disk.conv[cyc.c].run.launching
  BY <1>1, <1>2, AtWork, NoneAssumption DEF PhasesFit
<1>4. PICK r \in Run :
        /\ r = MyRun /\ r = disk.conv[cyc.c].run.id /\ home[r] = cyc.c
        /\ Current(r) /\ Here.run \in RunRecords
        /\ \A c \in Conv : Names(disk.conv[c].run, r) => c = cyc.c
  BY <1>2, <1>3, RunAtWork
<1>6. /\ worker[r] = "none" /\ artifact[r] = "none" /\ r \notin pidFile
  BY <1>1, <1>2, <1>4 DEF LaunchesFit
<1>7. /\ Killed(InSession(cyc.c)) \in [Run -> {"none", "starting", "running", "ended"}]
      /\ \A s \in Run :
           /\ Killed(InSession(cyc.c))[s] \in {"starting", "running"} => Live(s)
           /\ Killed(InSession(cyc.c))[s] = "none" <=> worker[s] = "none"
           /\ Killed(InSession(cyc.c))[s] = "starting" => worker[s] = "starting"
  <2>1. worker \in [Run -> {"none", "starting", "running", "ended"}]
    BY <1>1 DEF TypeOK
  <2>. QED BY <2>1 DEF Killed, Live
<1>8. home[r] # None
  BY <1>3, <1>4, NoneAssumption
<1>9. /\ worker' \in [Run -> {"none", "starting", "running", "ended"}]
      /\ worker'[r] = "starting"
      /\ \A s \in Run \ {r} :
           /\ Live(s)' => Live(s)
           /\ worker'[s] = "none" <=> worker[s] = "none"
           /\ worker'[s] = "starting" => worker[s] = "starting"
  <2>1. worker' = [Killed(InSession(cyc.c)) EXCEPT ![r] = "starting"]
    BY <1>4 DEF Launch
  <2>. QED BY <1>7, <2>1 DEF Live
<1>10. /\ cyc' \in Cycles /\ cyc' # None /\ cyc'.at = "launched"
       /\ cyc'.phase = cyc.phase /\ cyc'.active = cyc.active /\ cyc'.c = cyc.c
  BY <1>1, <1>2, StepsOn DEF Launch
<1>11. Living' \subseteq Living \cup {r}
  BY <1>9 DEF Living
<1>12. /\ Cardinality(Living) \in Nat /\ Cardinality(Living') \in Nat
       /\ Cardinality(Living') <= Cardinality(Living) + 1
  BY <1>11, OneMoreLiving
<1>13. cyc.active \in Nat /\ Cap \in Nat
  BY <1>3, LocalAssumption DEF Cycles
<1>14. TypeOK'
  BY <1>1, <1>2, <1>9, <1>10 DEF TypeOK
<1>15. CopiesAgree'
  BY <1>2, <1>3, <1>10 DEF CopiesAgree, Steps
<1>16. PhasesFit'
  BY <1>2, <1>3, <1>10 DEF PhasesFit
<1>17. RunsAreNumbered'
  BY <1>1, <1>2, <1>8, <1>9 DEF RunsAreNumbered
<1>18. RunsAreFound'
  BY <1>1, <1>2 DEF RunsAreFound
<1>19. GesturesStay'
  BY <1>1, <1>2 DEF GesturesStay
<1>20. EndsAreTold'
  BY <1>1, <1>2, <1>10 DEF EndsAreTold
<1>21. NothingSilentlyLost'
  BY <1>1, <1>2 DEF NothingSilentlyLost
<1>22. OnePlace'
  <2>1. \A q \in Run : Effective(q)' => Effective(q)
    BY <1>2, <1>4, <1>9 DEF Effective, Current
  <2>. QED BY <1>1, <1>2, <2>1 DEF OnePlace, Undisturbed, Queued
<1>23. LaunchesFit'
  <2>1. ASSUME Undisturbed', ~hosted, NEW c \in Conv, HasRun(disk.conv[c]),
               disk.conv[c].run.launching
        PROVE  worker'[disk.conv[c].run.id] = "none" \/ cyc.c = c
    <3>1. disk.conv[c].run.id \in Run /\ home[disk.conv[c].run.id] = c
      BY <1>1, <2>1, RecordsName DEF RunsAreFound
    <3>2. worker[disk.conv[c].run.id] = "none"
      BY <1>1, <1>2, <2>1 DEF LaunchesFit, Undisturbed
    <3>. QED BY <1>4, <1>9, <3>1, <3>2
  <2>. QED BY <1>2, <1>10, <2>1 DEF LaunchesFit, At
<1>24. LivingAreCurrent'
  <2>1. \A s \in Run : Current(s)' <=> Current(s)
    BY <1>2 DEF Current
  <2>2. \A s \in Run \ {r} : Live(s)' => Live(s)
    BY <1>9
  <2>. QED
    BY <1>1, <1>2, <1>4, <1>6, <2>1, <2>2
    DEF LivingAreCurrent, Undisturbed, Live
<1>25. DyingAreDead'
  BY <1>10 DEF DyingAreDead
<1>26. FailuresAreErrors'
  BY <1>1, <1>2 DEF FailuresAreErrors, Undisturbed
<1>27. CapIsKept'
  BY <1>1, <1>2, <1>10, <1>12, <1>13 DEF CapIsKept, Undisturbed
<1>28. NotesAreFinal'
  BY <1>1, <1>2 DEF NotesAreFinal, Current
<1>. QED
  BY <1>14, <1>15, <1>16, <1>17, <1>18, <1>19, <1>20, <1>21, <1>22, <1>23, <1>24,
     <1>25, <1>26, <1>27, <1>28
  DEF IInv

\* The launch fails, and says so.
LEMMA LaunchFailsKeeps ==
    ASSUME IInv, LaunchFails
    PROVE  IInv'
<1>1. /\ TypeOK /\ CopiesAgree /\ PhasesFit /\ RunsAreNumbered /\ RunsAreFound
      /\ GesturesStay /\ EndsAreTold /\ NothingSilentlyLost /\ OnePlace /\ LaunchesFit
      /\ LivingAreCurrent /\ DyingAreDead /\ FailuresAreErrors /\ CapIsKept /\ NotesAreFinal
  BY DEF IInv
<1>2. /\ UNCHANGED <<hosted, disk, mem, home, request, pidFile, dirs, began,
                  replies, verdicts, told, silent, crashes, hangs, commands>>
      /\ NewRun' = NewRun
      /\ cyc # None /\ cyc.phase = "dispatch" /\ cyc.at = "launch"
      /\ failures' = failures + 1
  BY DEF LaunchFails, history, At, Fail, NewRun
<1>3. /\ cyc \in Cycles /\ cyc.c \in Conv /\ mem = disk /\ mem \in Files /\ mem # None
      /\ Here = disk.conv[cyc.c] /\ Here \in Records /\ HasRun(disk.conv[cyc.c])
      /\ disk.conv[cyc.c].run.launching
  BY <1>1, <1>2, AtWork, NoneAssumption DEF PhasesFit
<1>4. PICK r \in Run :
        /\ r = MyRun /\ r = disk.conv[cyc.c].run.id /\ home[r] = cyc.c
        /\ Current(r) /\ Here.run \in RunRecords
        /\ \A c \in Conv : Names(disk.conv[c].run, r) => c = cyc.c
  BY <1>2, <1>3, RunAtWork
<1>6. /\ worker[r] = "none" /\ artifact[r] = "none" /\ r \notin pidFile
  BY <1>1, <1>2, <1>4 DEF LaunchesFit
<1>7. /\ Killed(InSession(cyc.c)) \in [Run -> {"none", "starting", "running", "ended"}]
      /\ \A s \in Run :
           /\ Killed(InSession(cyc.c))[s] \in {"starting", "running"} => Live(s)
           /\ Killed(InSession(cyc.c))[s] = "none" <=> worker[s] = "none"
           /\ Killed(InSession(cyc.c))[s] = "starting" => worker[s] = "starting"
  <2>1. worker \in [Run -> {"none", "starting", "running", "ended"}]
    BY <1>1 DEF TypeOK
  <2>. QED BY <2>1 DEF Killed, Live
<1>8. home[r] # None
  BY <1>3, <1>4, NoneAssumption
<1>9. /\ artifact' \in [Run -> {"none", "result", "error"}] /\ artifact'[r] = "error"
      /\ \A s \in Run \ {r} : artifact'[s] = artifact[s]
  <2>1. artifact' = [artifact EXCEPT ![r] = "error"] /\ artifact \in [Run -> {"none", "result", "error"}]
    BY <1>1, <1>4 DEF LaunchFails, TypeOK
  <2>. QED BY <1>4, <2>1
<1>10. /\ cyc' \in Cycles /\ cyc' # None /\ cyc'.at = "fail"
       /\ cyc'.phase = cyc.phase /\ cyc'.active = cyc.active /\ cyc'.c = cyc.c
  BY <1>1, <1>2, StepsOn DEF LaunchFails
<1>11. /\ worker' \in [Run -> {"none", "starting", "running", "ended"}]
       /\ \A s \in Run :
            /\ Live(s)' => Live(s)
            /\ worker'[s] = "none" <=> worker[s] = "none"
            /\ worker'[s] = "starting" => worker[s] = "starting"
       /\ Living' \subseteq Living
  <2>1. worker' = Killed(InSession(cyc.c))
    BY DEF LaunchFails
  <2>. QED BY <1>1, <2>1, KilledEffect
<1>12. /\ Cardinality(Living) \in Nat /\ Cardinality(Living') \in Nat
       /\ Cardinality(Living') <= Cardinality(Living)
  BY <1>11, LocalAssumption, FewerLiving
<1>13. /\ cyc.active \in Nat /\ Cap \in Nat /\ failures \in Nat
       /\ failures' \in Nat /\ failures' > 0
  BY <1>1, <1>2, LocalAssumption DEF Cycles, TypeOK
<1>14. TypeOK'
  BY <1>1, <1>2, <1>9, <1>10, <1>11 DEF TypeOK
<1>15. CopiesAgree'
  BY <1>2, <1>3, <1>10 DEF CopiesAgree, Steps
<1>16. PhasesFit'
  BY <1>2, <1>3, <1>10 DEF PhasesFit
<1>17. RunsAreNumbered'
  BY <1>1, <1>2, <1>8, <1>9, <1>11 DEF RunsAreNumbered
<1>18. RunsAreFound'
  BY <1>1, <1>2 DEF RunsAreFound
<1>19. GesturesStay'
  BY <1>1, <1>2 DEF GesturesStay
<1>20. EndsAreTold'
  BY <1>10, <1>13 DEF EndsAreTold
<1>21. NothingSilentlyLost'
  BY <1>1, <1>2, <1>13 DEF NothingSilentlyLost
<1>22. OnePlace'
  <2>1. \A q \in Run : Effective(q)' => Effective(q)
    BY <1>2, <1>11 DEF Effective, Current
  <2>. QED BY <1>1, <1>2, <2>1 DEF OnePlace, Undisturbed, Queued
<1>23. LaunchesFit'
  <2>1. \A c \in Conv : HasRun(disk.conv[c]) => disk.conv[c].run.id \in Run
    BY <1>1, RecordsName
  <2>. QED BY <1>1, <1>2, <1>10, <1>11, <2>1 DEF LaunchesFit, Undisturbed
<1>24. LivingAreCurrent'
  <2>1. \A s \in Run : Current(s)' <=> Current(s)
    BY <1>2 DEF Current
  <2>. QED
    BY <1>1, <1>2, <1>6, <1>9, <1>11, <2>1
    DEF LivingAreCurrent, Undisturbed, Live
<1>25. DyingAreDead'
  <2>1. disk'.conv[cyc'.c].run.id = r
    BY <1>2, <1>4, <1>10
  <2>2. worker'[r] = "none" /\ artifact'[r] = "error"
    BY <1>6, <1>9, <1>11
  <2>. QED BY <1>10, <2>1, <2>2 DEF DyingAreDead, Live
<1>26. FailuresAreErrors'
  BY <1>1, <1>2, <1>9 DEF FailuresAreErrors, Undisturbed
<1>27. CapIsKept'
  BY <1>1, <1>2, <1>10, <1>12, <1>13 DEF CapIsKept, Undisturbed
<1>28. NotesAreFinal'
  BY <1>13 DEF NotesAreFinal
<1>. QED
  BY <1>14, <1>15, <1>16, <1>17, <1>18, <1>19, <1>20, <1>21, <1>22, <1>23, <1>24,
     <1>25, <1>26, <1>27, <1>28
  DEF IInv

\* The worker is started, and taken for failed.
LEMMA LaunchHangsKeeps ==
    ASSUME IInv, LaunchHangs
    PROVE  IInv'
<1>1. /\ TypeOK /\ CopiesAgree /\ PhasesFit /\ RunsAreNumbered /\ RunsAreFound
      /\ GesturesStay /\ EndsAreTold /\ NothingSilentlyLost /\ OnePlace /\ LaunchesFit
      /\ LivingAreCurrent /\ DyingAreDead /\ FailuresAreErrors /\ CapIsKept /\ NotesAreFinal
  BY DEF IInv
<1>2. /\ UNCHANGED <<hosted, disk, mem, home, request, pidFile, dirs, began,
                  replies, verdicts, told, silent, crashes, failures, commands>>
      /\ NewRun' = NewRun
      /\ cyc # None /\ cyc.phase = "dispatch" /\ cyc.at = "launch"
      /\ hangs' = hangs + 1
  BY DEF LaunchHangs, history, At, Hang, NewRun
<1>3. /\ cyc \in Cycles /\ cyc.c \in Conv /\ mem = disk /\ mem \in Files /\ mem # None
      /\ Here = disk.conv[cyc.c] /\ Here \in Records /\ HasRun(disk.conv[cyc.c])
      /\ disk.conv[cyc.c].run.launching
  BY <1>1, <1>2, AtWork, NoneAssumption DEF PhasesFit
<1>4. PICK r \in Run :
        /\ r = MyRun /\ r = disk.conv[cyc.c].run.id /\ home[r] = cyc.c
        /\ Current(r) /\ Here.run \in RunRecords
        /\ \A c \in Conv : Names(disk.conv[c].run, r) => c = cyc.c
  BY <1>2, <1>3, RunAtWork
<1>6. /\ worker[r] = "none" /\ artifact[r] = "none" /\ r \notin pidFile
  BY <1>1, <1>2, <1>4 DEF LaunchesFit
<1>7. /\ Killed(InSession(cyc.c)) \in [Run -> {"none", "starting", "running", "ended"}]
      /\ \A s \in Run :
           /\ Killed(InSession(cyc.c))[s] \in {"starting", "running"} => Live(s)
           /\ Killed(InSession(cyc.c))[s] = "none" <=> worker[s] = "none"
           /\ Killed(InSession(cyc.c))[s] = "starting" => worker[s] = "starting"
  <2>1. worker \in [Run -> {"none", "starting", "running", "ended"}]
    BY <1>1 DEF TypeOK
  <2>. QED BY <2>1 DEF Killed, Live
<1>8. home[r] # None
  BY <1>3, <1>4, NoneAssumption
<1>9. /\ worker' \in [Run -> {"none", "starting", "running", "ended"}]
      /\ worker'[r] = "starting"
      /\ \A s \in Run \ {r} :
           /\ Live(s)' => Live(s)
           /\ worker'[s] = "none" <=> worker[s] = "none"
           /\ worker'[s] = "starting" => worker[s] = "starting"
  <2>1. worker' = [Killed(InSession(cyc.c)) EXCEPT ![r] = "starting"]
    BY <1>4 DEF LaunchHangs
  <2>. QED BY <1>7, <2>1 DEF Live
<1>10. /\ cyc' \in Cycles /\ cyc' # None /\ cyc'.at = "fail"
       /\ cyc'.phase = cyc.phase /\ cyc'.active = cyc.active /\ cyc'.c = cyc.c
  BY <1>1, <1>2, StepsOn DEF LaunchHangs
<1>11. /\ artifact' \in [Run -> {"none", "result", "error"}] /\ artifact'[r] = "error"
       /\ \A s \in Run \ {r} : artifact'[s] = artifact[s]
  <2>1. artifact' = [artifact EXCEPT ![r] = "error"] /\ artifact \in [Run -> {"none", "result", "error"}]
    BY <1>1, <1>4 DEF LaunchHangs, TypeOK
  <2>. QED BY <1>4, <2>1
<1>12. hangs' \in Nat /\ ~Undisturbed'
  <2>1. hangs \in Nat
    BY <1>1 DEF TypeOK
  <2>. QED BY <1>2, <2>1 DEF Undisturbed
<1>13. TypeOK'
  BY <1>1, <1>2, <1>9, <1>10, <1>11 DEF TypeOK
<1>14. CopiesAgree'
  BY <1>2, <1>3, <1>10 DEF CopiesAgree, Steps
<1>15. PhasesFit'
  BY <1>2, <1>3, <1>10 DEF PhasesFit
<1>16. RunsAreNumbered'
  BY <1>1, <1>2, <1>8, <1>9, <1>11 DEF RunsAreNumbered
<1>17. RunsAreFound'
  BY <1>1, <1>2 DEF RunsAreFound
<1>18. GesturesStay'
  BY <1>1, <1>2 DEF GesturesStay
<1>19. EndsAreTold'
  BY <1>1, <1>2, <1>10 DEF EndsAreTold
<1>20. NothingSilentlyLost'
  BY <1>1, <1>2 DEF NothingSilentlyLost
<1>21. OnePlace'
  BY <1>12 DEF OnePlace
<1>22. LaunchesFit'
  BY <1>10, <1>12 DEF LaunchesFit
<1>23. LivingAreCurrent'
  BY <1>12 DEF LivingAreCurrent
<1>24. DyingAreDead'
  BY <1>12 DEF DyingAreDead
<1>25. FailuresAreErrors'
  BY <1>12 DEF FailuresAreErrors
<1>26. CapIsKept'
  BY <1>12 DEF CapIsKept
<1>27. NotesAreFinal'
  BY <1>1, <1>2 DEF NotesAreFinal, Current
<1>. QED
  BY <1>13, <1>14, <1>15, <1>16, <1>17, <1>18, <1>19, <1>20, <1>21, <1>22, <1>23,
     <1>24, <1>25, <1>26, <1>27
  DEF IInv

\* The launch is put on record.
LEMMA LaunchedKeeps ==
    ASSUME IInv, Launched
    PROVE  IInv'
<1>1. /\ TypeOK /\ CopiesAgree /\ PhasesFit /\ RunsAreNumbered /\ RunsAreFound
      /\ GesturesStay /\ EndsAreTold /\ NothingSilentlyLost /\ OnePlace /\ LaunchesFit
      /\ LivingAreCurrent /\ DyingAreDead /\ FailuresAreErrors /\ CapIsKept /\ NotesAreFinal
  BY DEF IInv
<1>2. /\ UNCHANGED <<hosted, home, request, artifact, dirs, worker, began, replies,
                  verdicts, told, silent, crashes, failures, hangs, commands>>
      /\ NewRun' = NewRun
      /\ cyc # None /\ cyc.phase = "dispatch" /\ cyc.at = "launched"
  BY DEF Launched, history, bounds, workers, At, NewRun
<1>3. /\ cyc \in Cycles /\ cyc.c \in Conv /\ mem = disk /\ mem \in Files /\ mem # None
      /\ Here = disk.conv[cyc.c] /\ Here \in Records /\ HasRun(disk.conv[cyc.c])
      /\ disk.conv[cyc.c].run.launching
  BY <1>1, <1>2, AtWork, NoneAssumption DEF PhasesFit
<1>4. PICK r \in Run :
        /\ r = MyRun /\ r = disk.conv[cyc.c].run.id /\ home[r] = cyc.c
        /\ Current(r) /\ Here.run \in RunRecords
        /\ \A c \in Conv : Names(disk.conv[c].run, r) => c = cyc.c
  BY <1>2, <1>3, RunAtWork
<1>5. pidFile' = (IF hosted THEN pidFile ELSE pidFile \cup {r}) /\ home[r] # None
  BY <1>3, <1>4, NoneAssumption DEF Launched, NoneAssumption
<1>6. /\ disk' \in Files /\ mem' = disk' /\ mem' # None /\ disk'.seen = disk.seen
      /\ \A c \in Conv \ {cyc.c} : disk'.conv[c] = disk.conv[c]
      /\ disk'.conv[cyc.c].run # None /\ disk'.conv[cyc.c].run.id = r
      /\ disk'.conv[cyc.c].run.prev = Here.run.prev /\ ~disk'.conv[cyc.c].run.launching
      /\ disk'.conv[cyc.c].run.tmux = hosted /\ disk'.conv[cyc.c].run.pid = ~hosted
      /\ disk'.conv[cyc.c].pending = Here.pending /\ disk'.conv[cyc.c].status = Here.status
      /\ disk'.conv[cyc.c].task = Here.task
  <2>. DEFINE run == [Here.run EXCEPT !.launching = FALSE, !.tmux = hosted, !.pid = ~hosted]
              new == [Here EXCEPT !.run = run]
  <2>1. hosted \in BOOLEAN
    BY <1>1 DEF TypeOK
  <2>2. /\ run \in RunRecords /\ run.id = Here.run.id /\ run.prev = Here.run.prev
        /\ ~run.launching /\ run.tmux = hosted /\ run.pid = ~hosted
    BY <1>4, <2>1 DEF RunRecords
  <2>3. new = [Here EXCEPT !.run.launching = FALSE, !.run.tmux = hosted, !.run.pid = ~hosted]
    BY <1>3 DEF Records
  <2>. HIDE DEF run
  <2>4. /\ new \in Records /\ new.pending = Here.pending /\ new.status = Here.status
        /\ new.task = Here.task /\ new.run = run
    BY <1>3, <2>2 DEF Records
  <2>. HIDE DEF new
  <2>5. Become(new)
    BY <2>3 DEF Launched
  <2>6. /\ mem' \in Files /\ mem'.seen = mem.seen /\ mem'.conv[cyc.c] = new
        /\ \A c \in Conv \ {cyc.c} : mem'.conv[c] = mem.conv[c]
    BY <1>1, <1>2, <2>4, <2>5, BecomeEffect
  <2>7. mem' # None /\ run # None
    BY <2>2, <2>6, NoneAssumption
  <2>8. disk' = mem' /\ Here.run.id = r
    BY <1>3, <1>4 DEF Launched, Save
  <2>. QED BY <1>3, <2>2, <2>4, <2>6, <2>7, <2>8
<1>7. /\ cyc' \in Cycles /\ cyc' # None /\ cyc'.active = cyc.active + 1
      /\ cyc'.at = "start" /\ cyc'.phase \in {"dispatch", "final"} /\ cyc'.c \in Conv
      /\ cyc'.phase = "dispatch" => Waiting(disk.conv[cyc'.c]) /\ cyc'.c # cyc.c
  <2>1. cyc' = From("dispatch", cyc.c + 1, cyc.active + 1, disk.conv)
    BY <1>3 DEF Launched
  <2>2. /\ cyc.c \in Nat /\ cyc.c + 1 \in Nat \ {0} /\ cyc.active + 1 \in Nat
        /\ disk.conv \in [Conv -> Records]
    BY <1>3 DEF Conv, Cycles, Files
  <2>3. /\ cyc' \in Cycles /\ cyc'.at = "start" /\ cyc'.active = cyc.active + 1
        /\ cyc'.phase \in {"dispatch", "final"}
        /\ cyc'.phase = "dispatch" => Waiting(disk.conv[cyc'.c]) /\ cyc'.c >= cyc.c + 1
    BY <2>1, <2>2, FromEffect
  <2>4. cyc'.c >= cyc.c + 1 => cyc'.c # cyc.c
    BY <2>2
  <2>. QED BY <2>3, <2>4, NoneAssumption DEF Cycles
<1>8. /\ cyc.active \in Nat /\ Cap \in Nat /\ Cardinality(Living) \in Nat /\ Living' = Living
  <2>1. IsFiniteSet(Run)
    BY FS_Interval, LocalAssumption DEF Run
  <2>2. Cardinality(Living) \in Nat
    BY <2>1, FS_Subset, FS_CardinalityType DEF Living
  <2>. QED BY <1>2, <1>3, <2>2, LocalAssumption DEF Cycles, Living, Live
<1>9. \A c \in Conv :
        /\ disk'.conv[c].status = disk.conv[c].status
        /\ disk'.conv[c].pending = disk.conv[c].pending
        /\ disk'.conv[c].task = disk.conv[c].task
        /\ HasRun(disk'.conv[c]) <=> HasRun(disk.conv[c])
        /\ HasRun(disk.conv[c]) =>
             /\ disk'.conv[c].run.id = disk.conv[c].run.id
             /\ disk'.conv[c].run.prev = disk.conv[c].run.prev
             /\ disk'.conv[c].run.launching => disk.conv[c].run.launching /\ c # cyc.c
  BY SMTT(30), <1>3, <1>4, <1>6 DEF HasRun
<1>10. \A s \in Run : Current(s)' <=> Current(s)
  BY <1>9 DEF Current, Names, HasRun
<1>11. TypeOK'
  <2>1. \A c \in Conv : LET rec == disk'.conv[c] IN
          /\ rec.status = "working" <=> rec.run # None
          /\ rec.pending \cup rec.task \subseteq disk.seen
          /\ rec.run # None => rec.run.id \in dirs
    BY <1>1, <1>9 DEF TypeOK, HasRun
  <2>. QED BY <1>1, <1>2, <1>5, <1>6, <1>7, <2>1 DEF TypeOK
<1>12. CopiesAgree'
  BY <1>6, <1>7 DEF CopiesAgree, Steps
<1>13. PhasesFit'
  BY <1>6, <1>7 DEF PhasesFit
<1>14. RunsAreNumbered'
  BY <1>1, <1>2, <1>5 DEF RunsAreNumbered
<1>15. RunsAreFound'
  <2>. SUFFICES ASSUME NEW c \in Conv, HasRun(disk'.conv[c])
                PROVE  LET run == disk'.conv[c].run IN
                       /\ home[run.id] = c
                       /\ run.launching \/ run.tmux \/ run.pid
                       /\ run.tmux => hosted
                       /\ run.pid => run.id \in pidFile'
    BY <1>2 DEF RunsAreFound
  <2>1. CASE c = cyc.c
    BY <1>4, <1>5, <1>6, <2>1
  <2>2. CASE c # cyc.c
    BY <1>1, <1>5, <1>6, <2>2 DEF RunsAreFound
  <2>. QED BY <2>1, <2>2
<1>16. GesturesStay'
  <2>1. \A c \in Conv : LET rec == disk'.conv[c] IN
          /\ \A g \in rec.pending \cup rec.task : ConvOf(g) = c
          /\ rec.pending \cap rec.task = {}
          /\ rec.status = "absent" => rec.pending = {} /\ rec.task = {}
          /\ HasRun(rec) => request[rec.run.id] \cap rec.task
                              = IF rec.run.prev = "new" THEN rec.task ELSE {}
    <3>. TAKE c \in Conv
    <3>1. LET rec == disk.conv[c] IN
          /\ \A g \in rec.pending \cup rec.task : ConvOf(g) = c
          /\ rec.pending \cap rec.task = {}
          /\ rec.status = "absent" => rec.pending = {} /\ rec.task = {}
          /\ HasRun(rec) => request[rec.run.id] \cap rec.task
                              = IF rec.run.prev = "new" THEN rec.task ELSE {}
      BY <1>1 DEF GesturesStay
    <3>. QED BY <1>9, <3>1
  <2>. QED BY <1>1, <1>2, <1>6, <2>1 DEF GesturesStay
<1>17. EndsAreTold'
  BY <1>1, <1>2, <1>7 DEF EndsAreTold
<1>18. NothingSilentlyLost'
  BY SMTT(30), <1>1, <1>2, <1>6, <1>9 DEF NothingSilentlyLost, HasRun
<1>19. OnePlace'
  <2>1. \A q \in Run : Effective(q)' <=> Effective(q)
    BY <1>2, <1>10 DEF Effective
  <2>2. \A g \in Gesture : Queued(g)' <=> Queued(g)
    BY <1>9 DEF Queued
  <2>3. request \in [Run -> SUBSET Gesture]
    BY <1>1 DEF TypeOK
  <2>. QED BY <1>1, <1>2, <2>1, <2>2, <2>3 DEF OnePlace, Undisturbed
<1>20. LaunchesFit'
  <2>1. \A c \in Conv : HasRun(disk'.conv[c]) /\ disk'.conv[c].run.launching =>
          /\ HasRun(disk.conv[c]) /\ disk.conv[c].run.launching
          /\ c # cyc.c /\ disk'.conv[c].run.id = disk.conv[c].run.id
    BY <1>9
  <2>. QED BY <1>1, <1>2, <1>7, <2>1 DEF LaunchesFit, Undisturbed
<1>21. LivingAreCurrent'
  BY <1>1, <1>2, <1>10 DEF LivingAreCurrent, Live, Undisturbed
<1>22. DyingAreDead'
  BY <1>7 DEF DyingAreDead
<1>23. FailuresAreErrors'
  BY <1>1, <1>2 DEF FailuresAreErrors, Undisturbed
<1>24. CapIsKept'
  BY <1>1, <1>2, <1>7, <1>8 DEF CapIsKept, Undisturbed
<1>25. NotesAreFinal'
  BY <1>1, <1>2, <1>10 DEF NotesAreFinal
<1>. QED
  BY <1>11, <1>12, <1>13, <1>14, <1>15, <1>16, <1>17, <1>18, <1>19, <1>20, <1>21,
     <1>22, <1>23, <1>24, <1>25
  DEF IInv

\* What a probe says decides between the two; a session that lives is not seen
\* where tmux hangs only.
LEMMA ProbeKeeps ==
    ASSUME IInv, NEW alive \in BOOLEAN, NEW expired \in BOOLEAN, At("heal", "probe"),
           Probe(alive, expired), alive => SessionAlive,
           UNCHANGED <<hosted, files, workers, history, crashes, failures>>,
           {hangs', commands'} \subseteq Nat,
           hangs' = 0 => hangs = 0 /\ (SessionAlive => alive)
    PROVE  IInv'
<1>1. CASE Here.run.launching /\ ~Pid /\ ~alive /\ RecoverLaunch
  BY <1>1, RecoverKeeps
<1>2. CASE /\ Become(Seen(alive))
           /\ disk' = IF Seen(alive) # Here THEN mem' ELSE disk
           /\ \/ expired /\ GoTo("expired")
              \/ ~expired /\ Lives(alive) /\ GoOn
              \/ ~expired /\ ~Lives(alive) /\ GoTo("recheck")
  BY <1>2, RecordKeeps
<1>. QED BY <1>1, <1>2, ProbeCases

\* In the first state there is nothing.
LEMMA Initially == Init => IInv
<1>. SUFFICES ASSUME Init PROVE IInv
  OBVIOUS
<1>1. /\ Absent \in Records /\ Absent.run = None /\ Absent.status = "absent"
      /\ Absent.pending = {} /\ Absent.task = {}
  BY DEF Absent, Records, Statuses
<1>2. /\ disk \in Files /\ disk.seen = {}
      /\ \A c \in Conv : disk.conv[c] = Absent
  BY <1>1 DEF Init, Files
<1>3. TypeOK
  BY <1>1, <1>2 DEF Init, TypeOK
<1>4. Living = {} /\ Cardinality(Living) = 0
  BY FS_EmptySet DEF Living, Live, Init
<1>5. NewRun = 1
  <2>1. {r \in Run : home[r] # None} = {}
    BY DEF Init
  <2>. QED BY <2>1, FS_EmptySet DEF NewRun
<1>6. RunsAreNumbered
  <2>1. \A r \in Run : ~(r < 1)
    BY DEF Run
  <2>. QED BY <1>5, <2>1 DEF Init, RunsAreNumbered
<1>7. CopiesAgree /\ PhasesFit /\ EndsAreTold /\ DyingAreDead
  BY DEF Init, CopiesAgree, PhasesFit, EndsAreTold, DyingAreDead
<1>8. RunsAreFound /\ LaunchesFit
  BY <1>1 DEF Init, RunsAreFound, LaunchesFit, HasRun
<1>9. GesturesStay
  BY <1>1 DEF Init, GesturesStay
<1>10. NothingSilentlyLost
  BY <1>2 DEF NothingSilentlyLost
<1>11. OnePlace
  BY DEF Init, OnePlace
<1>12. LivingAreCurrent
  BY DEF Init, LivingAreCurrent, Live
<1>13. FailuresAreErrors /\ NotesAreFinal
  BY DEF Init, FailuresAreErrors, NotesAreFinal
<1>14. CapIsKept
  BY <1>4, LocalAssumption DEF Init, CapIsKept
<1>. QED
  BY <1>3, <1>6, <1>7, <1>8, <1>9, <1>10, <1>11, <1>12, <1>13, <1>14 DEF IInv

\* Nothing moves where the variables stay.
LEMMA Stutters ==
    ASSUME IInv, UNCHANGED vars
    PROVE  IInv'
<1>. UNCHANGED <<hosted, disk, mem, cyc, home, request, pidFile, artifact, dirs, worker,
                 began, replies, verdicts, told, silent, crashes, failures, hangs,
                 commands>>
  BY DEF vars, files, workers, history, bounds
<1>1. TypeOK' <=> TypeOK
  BY DEF TypeOK
<1>2. (CopiesAgree' <=> CopiesAgree) /\ (PhasesFit' <=> PhasesFit)
  BY DEF CopiesAgree, PhasesFit
<1>3. RunsAreNumbered' <=> RunsAreNumbered
  BY DEF RunsAreNumbered, NewRun
<1>4. (RunsAreFound' <=> RunsAreFound) /\ (GesturesStay' <=> GesturesStay)
  BY DEF RunsAreFound, GesturesStay
<1>5. (EndsAreTold' <=> EndsAreTold) /\ (NothingSilentlyLost' <=> NothingSilentlyLost)
  BY DEF EndsAreTold, NothingSilentlyLost
<1>6. OnePlace' <=> OnePlace
  BY DEF OnePlace, Undisturbed, Effective, Current, Queued
<1>7. (LaunchesFit' <=> LaunchesFit) /\ (LivingAreCurrent' <=> LivingAreCurrent)
  BY DEF LaunchesFit, Undisturbed, At, LivingAreCurrent, Live, Current
<1>8. (DyingAreDead' <=> DyingAreDead) /\ (FailuresAreErrors' <=> FailuresAreErrors)
  BY DEF DyingAreDead, Undisturbed, Live, FailuresAreErrors
<1>9. CapIsKept' <=> CapIsKept
  BY DEF CapIsKept, Undisturbed, Living, Live
<1>10. NotesAreFinal' <=> NotesAreFinal
  BY DEF NotesAreFinal, Current
<1>. QED BY <1>1, <1>2, <1>3, <1>4, <1>5, <1>6, <1>7, <1>8, <1>9, <1>10 DEF IInv

\* Every step keeps the invariant.
LEMMA Preservation == IInv /\ [Next]_vars => IInv'
<1>. SUFFICES ASSUME IInv, [Next]_vars PROVE IInv'
  OBVIOUS
<1>0. {crashes, failures, hangs, commands} \subseteq Nat
  BY DEF IInv, TypeOK
<1>1. CASE UNCHANGED vars
  BY <1>1, Stutters
<1>2. ASSUME NEW r \in Run, Begin(r) \/ End(r) \/ Die(r) PROVE IInv'
  BY <1>2, BeginKeeps, EndKeeps, DieKeeps
<1>3. ASSUME NEW c \in Conv, Dismiss(c) \/ Wipe(c) PROVE IInv'
  BY <1>3, DismissKeeps, WipeKeeps
<1>4. CASE StartCycle \/ Crash \/ Sweep \/ EndCycle
  BY <1>4, StartCycleKeeps, CrashKeeps, SweepKeeps, EndCycleKeeps
<1>5. CASE Artifact \/ NoArtifact \/ ReplyFails \/ Expire \/ Recheck \/ Disappeared
  BY <1>5, ArtifactKeeps, NoArtifactKeeps, ReplyFailsKeeps, ExpireKeeps, RecheckKeeps,
     DisappearedKeeps
<1>6. CASE Reply
  <2>1. CASE Become(Archived(Here, "done")) /\ GoTo("save") /\ UNCHANGED bounds
    BY <1>6, <2>1, ReplyEndsKeeps
  <2>2. CASE Fail /\ GoOn /\ UNCHANGED mem
    BY <1>6, <2>2, ReplyLostKeeps
  <2>. QED BY <1>6, <2>1, <2>2 DEF Reply
<1>7. CASE ProbeSees
  BY <1>0, <1>7, ProbeKeeps DEF ProbeSees, SessionAlive, bounds
<1>8. CASE ProbeExpired
  BY <1>0, <1>8, ProbeKeeps DEF ProbeExpired, SessionAlive, bounds
<1>9. CASE ProbeHangs
  <2>1. hangs' = hangs + 1 /\ UNCHANGED <<crashes, failures, commands>>
    BY <1>9 DEF ProbeHangs, Hang
  <2>2. {hangs', commands'} \subseteq Nat /\ hangs' # 0
    BY <1>0, <2>1
  <2>. QED BY <1>9, <2>1, <2>2, ProbeKeeps DEF ProbeHangs
<1>10. CASE FailRun \/ FailRunUnnoted \/ SaveRecord
  BY <1>10, FailRunKeeps, FailRunUnnotedKeeps, SaveRecordKeeps
<1>11. CASE Commit \/ PollFails \/ Defer
  BY <1>11, CommitKeeps, PollFailsKeeps, DeferKeeps
<1>12. CASE Take
  BY <1>12, TakeKeeps DEF Take
<1>13. CASE TakeUnlabelled
  BY <1>13, TakeKeeps DEF TakeUnlabelled
<1>14. CASE PrepareRaises \/ Launch \/ LaunchFails \/ LaunchHangs \/ Launched
  BY <1>14, PrepareRaisesKeeps, LaunchKeeps, LaunchFailsKeeps, LaunchHangsKeeps,
     LaunchedKeeps
<1>. QED
  BY <1>1, <1>2, <1>3, <1>4, <1>5, <1>6, <1>7, <1>8, <1>9, <1>10, <1>11, <1>12, <1>13,
     <1>14
  DEF Next, Cycle, Healing, Dispatching

-----------------------------------------------------------------------------
(* What it says *)

\* The invariant holds of every state.
THEOREM Invariance == Spec => []IInv
BY Initially, Preservation, PTL DEF Spec

\* Every variable keeps its type, and the file says of no conversation more than
\* there is: a status "working" exactly where there is a run, whose directory is
\* there, and gestures that are behind the cursors.
THEOREM TypeCorrect == Spec => []TypeOK
<1>1. IInv => TypeOK
  BY DEF IInv
<1>. QED BY <1>1, Invariance, PTL

\* "Work is never silently lost": whatever step a cycle dies at, a gesture behind
\* the cursors is queued, in a run, or told of, but where a request had failed
\* (save_state, dispatch_pending and collect_and_heal_runs, watcher.py).
THEOREM WorkIsKept == Spec => []NothingSilentlyLost
<1>1. IInv => NothingSilentlyLost
  BY DEF IInv
<1>. QED BY <1>1, Invariance, PTL

\* "... and never double-run": no two workers begin on one gesture, where tmux
\* answers, and holds the workers if a cycle dies (start_one and
\* recover_interrupted_launch, watcher.py).
THEOREM WorkIsNotDoubled == Spec => []NeverDoubleRun
<1>1. IInv => NeverDoubleRun
  <2>. SUFFICES ASSUME IInv, Undisturbed, NEW g \in disk.seen
                PROVE  Cardinality({r \in began : g \in request[r]}) <= 1
    BY DEF NeverDoubleRun
  <2>. DEFINE S == {r \in began : g \in request[r]}
  <2>1. S \subseteq Run
    BY DEF IInv, TypeOK
  <2>2. \A r, s \in S : r = s
    BY <2>1 DEF IInv, OnePlace, Effective
  <2>. HIDE DEF S
  <2>3. CASE S = {}
    BY <2>3, FS_EmptySet DEF S
  <2>4. CASE S # {}
    <3>1. PICK r : S = {r}
      BY <2>2, <2>4
    <3>2. Cardinality({r}) = 1
      BY FS_Singleton
    <3>. QED BY <3>1, <3>2 DEF S
  <2>. QED BY <2>3, <2>4
<1>. QED BY <1>1, Invariance, PTL

\* A live worker is on record in the file, with its directory, and no more of
\* them live than the cap allows (dispatch_pending and kill_tmux_session,
\* watcher.py).
THEOREM WorkersAreKnown == Spec => []WorkersAreAccounted
<1>1. IInv => WorkersAreAccounted
  <2>. SUFFICES ASSUME IInv, Undisturbed
                PROVE  /\ \A r \in Run : Live(r) =>
                            r \in dirs /\ \E c \in Conv : Names(disk.conv[c].run, r)
                       /\ Cardinality(Living) <= Cap
    BY DEF WorkersAreAccounted, Living
  <2>1. \A r \in Run : Live(r) => \E c \in Conv : Names(disk.conv[c].run, r)
    BY DEF IInv, LivingAreCurrent, Current
  <2>2. \A r \in Run, c \in Conv : Names(disk.conv[c].run, r) => r \in dirs
    BY DEF IInv, TypeOK, Names
  <2>3. Cardinality(Living) <= Cap
    BY DEF IInv, CapIsKept
  <2>. QED BY <2>1, <2>2, <2>3
<1>. QED BY <1>1, Invariance, PTL

\* A run gets one final note, where no cycle died and no request failed
\* (collect_success and collect_failure, watcher.py).
THEOREM VerdictsAreFinal == Spec => []OneVerdict
<1>1. IInv => OneVerdict
  BY DEF IInv, NotesAreFinal, OneVerdict
<1>. QED BY <1>1, Invariance, PTL

\* A result is never called a failure, also where the worker finishes between the
\* looks of the cycle or at its deadline (the last look in collect_and_heal_runs,
\* watcher.py).
THEOREM ResultsArePosted == Spec => []ResultsAreReplied
<1>1. IInv => ResultsAreReplied
  <2>. SUFFICES ASSUME IInv, Undisturbed, NEW r \in Run, artifact[r] = "result"
                PROVE  verdicts[r] = 0
    BY DEF ResultsAreReplied
  <2>1. verdicts[r] \in Nat
    BY DEF IInv, TypeOK
  <2>2. ~(verdicts[r] > 0)
    BY DEF IInv, FailuresAreErrors
  <2>. QED BY <2>1, <2>2
<1>. QED BY <1>1, Invariance, PTL

================================================================================
