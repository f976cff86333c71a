----------------------- MODULE ControllerStore_proofs -----------------------
(* Machine-checked proofs about the controller's job store. *)
EXTENDS ControllerStore, FiniteSetTheorems, TLAPS

-----------------------------------------------------------------------------
(* Type correctness.  A row stays a row when its columns are updated. *)

LEMMA JobStateLease ==
    ASSUME NEW x \in JobRow, NEW s \in JobState, NEW t \in Nat \cup {NoLease}
    PROVE  [x EXCEPT !.state = s, !.leaseUntil = t] \in JobRow
BY Zenon DEF JobRow

LEMMA JobStateOnly ==
    ASSUME NEW x \in JobRow, NEW s \in JobState
    PROVE  [x EXCEPT !.state = s] \in JobRow
BY Zenon DEF JobRow

LEMMA JobLeaseOnly ==
    ASSUME NEW x \in JobRow, NEW t \in Nat \cup {NoLease}
    PROVE  [x EXCEPT !.leaseUntil = t] \in JobRow
BY Zenon DEF JobRow

LEMMA JobClaim ==
    ASSUME NEW x \in JobRow, NEW s \in JobState, NEW g \in Nat,
           NEW t \in Nat \cup {NoLease}
    PROVE  [x EXCEPT !.state = s, !.generation = g, !.leaseUntil = t] \in JobRow
BY Zenon DEF JobRow

LEMMA RunStateOnly ==
    ASSUME NEW x \in RunRow, NEW s \in {"absent", "running"} \cup Terminal
    PROVE  [x EXCEPT !.state = s] \in RunRow
BY Zenon DEF RunRow

LEMMA RunSessionOnly ==
    ASSUME NEW x \in RunRow
    PROVE  [x EXCEPT !.session = TRUE] \in RunRow
BY Zenon DEF RunRow

LEMMA ConversationUpdate ==
    ASSUME NEW x \in ConversationRow, NEW s \in ConversationStatus,
           NEW w \in Workspace, NEW e \in Event
    PROVE  /\ [x EXCEPT !.status = s] \in ConversationRow
           /\ [x EXCEPT !.workspace = w, !.status = s] \in ConversationRow
           /\ [x EXCEPT !.current = e, !.status = s] \in ConversationRow
BY Zenon DEF ConversationRow

LEMMA JobRowFields ==
    ASSUME TypeOK, NEW e \in Event
    PROVE  /\ jobs[e].state \in JobState
           /\ jobs[e].workspace \in Workspace \cup {None}
           /\ jobs[e].generation \in Nat
           /\ jobs[e].leaseUntil \in Nat \cup {NoLease}
           /\ jobs[e].createdAt \in Nat
BY DEF TypeOK, JobRow

\* Bulk status updates keep the conversations typed.
LEMMA WithStatusType ==
    ASSUME TypeOK, NEW S, NEW s \in ConversationStatus
    PROVE  WithStatus(S, s) \in [Conversation -> ConversationRow]
<1>1. ASSUME NEW c \in Conversation
      PROVE  WithStatus(S, s)[c] \in ConversationRow
  <2>1. conversations[c] \in ConversationRow
    BY DEF TypeOK
  <2>2. [conversations[c] EXCEPT !.status = s] \in ConversationRow
    BY <2>1, Zenon DEF ConversationRow
  <2> QED BY <2>1, <2>2 DEF WithStatus
<1> QED BY <1>1 DEF WithStatus

LEMMA InitType == Init => TypeOK
BY ConstantAssumption
DEF Init, TypeOK, ConversationRow, JobRow, RunRow, JobState,
    ConversationStatus, NoLease

\* TypeOK is preserved by every operation of the store.
LEMMA NextType == TypeOK /\ [Next]_vars => TypeOK'
<1> SUFFICES ASSUME TypeOK, [Next]_vars PROVE TypeOK'
    OBVIOUS
<1> USE ConstantAssumption
<1>1. CASE Tick
  BY <1>1 DEF Tick, TypeOK
<1>2. ASSUME NEW w \in Workspace, NEW on \in BOOLEAN, SetEnabled(w, on)
      PROVE  TypeOK'
  BY <1>2 DEF SetEnabled, TypeOK
<1>3. ASSUME NEW e \in Event, RecordEvent(e)
      PROVE  TypeOK'
  BY <1>3 DEF RecordEvent, TypeOK
<1>4. ASSUME NEW e \in Event, RecordTerminal(e)
      PROVE  TypeOK'
  BY <1>4 DEF RecordTerminal, TypeOK, ConversationRow, ConversationStatus
<1>5. ASSUME NEW c \in Conversation, NEW w \in Workspace,
             UpsertConversation(c, w)
      PROVE  TypeOK'
  <2>1. ASSUME NEW d \in Conversation
        PROVE  conversations'[d] \in ConversationRow
    <3>1. CASE d = c
      BY <1>5, <3>1
      DEF UpsertConversation, TypeOK, ConversationRow, ConversationStatus
    <3>2. CASE d # c
      BY <1>5, <3>2 DEF UpsertConversation, TypeOK
    <3> QED BY <3>1, <3>2
  <2> QED BY <1>5, <2>1 DEF UpsertConversation, TypeOK
<1>6. ASSUME NEW at \in Readings, ReapExpired(at)
      PROVE  TypeOK'
  <2>1. ASSUME NEW e \in Event PROVE jobs'[e] \in JobRow
    <3>1. jobs[e] \in JobRow
      BY DEF TypeOK
    <3>2. /\ [jobs[e] EXCEPT !.state = "queued", !.leaseUntil = NoLease] \in JobRow
          /\ [jobs[e] EXCEPT !.state = "failed", !.leaseUntil = NoLease] \in JobRow
      BY <3>1, JobStateLease DEF JobState
    <3> QED BY <1>6, <3>1, <3>2 DEF ReapExpired
  <2>2. ASSUME NEW r \in Run PROVE runs'[r] \in RunRow
    <3>1. runs[r] \in RunRow
      BY DEF TypeOK
    <3>2. [runs[r] EXCEPT !.state = "failed"] \in RunRow
      BY <3>1, RunStateOnly DEF Terminal
    <3> QED BY <1>6, <3>1, <3>2 DEF ReapExpired, LostRuns
  <2>3. conversations' \in [Conversation -> ConversationRow]
    <3>1. conversations' = WithStatus(Lost(at), "finishing")
      BY <1>6 DEF ReapExpired
    <3>2. "finishing" \in ConversationStatus
      BY DEF ConversationStatus
    <3> QED BY <3>1, <3>2, WithStatusType
  <2>4. outbox' \subseteq Notice
    <3>1. \A e \in Lost(at) : LostNotice(e) \in Notice
      BY DEF Lost, LostNotice, Notice
    <3>2. outbox' = outbox \cup {LostNotice(e) : e \in Lost(at)}
      BY <1>6 DEF ReapExpired
    <3> QED BY <3>1, <3>2 DEF TypeOK
  <2>5. jobs' \in [Event -> JobRow] /\ runs' \in [Run -> RunRow]
    BY <1>6, <2>1, <2>2 DEF ReapExpired, LostRuns
  <2> QED BY <1>6, <2>3, <2>4, <2>5 DEF ReapExpired, TypeOK
<1>7. ASSUME NEW at \in Readings, NEW e \in Event, RecordDispatchEvent(e, at)
      PROVE  TypeOK'
  BY <1>7
  DEF RecordDispatchEvent, TypeOK, Readings, ConversationRow,
      ConversationStatus, JobRow, JobState
<1>8. ASSUME NEW at \in Readings, NEW w \in Workspace,
             NEW limit \in 1..Cardinality(Event), ClaimJobs(w, limit, at)
      PROVE  TypeOK'
  <2>1. at + LeaseSeconds \in Nat
    BY DEF Readings, TypeOK
  <2>2. ASSUME NEW e \in Event PROVE jobs'[e] \in JobRow
    <3>1. jobs[e] \in JobRow /\ jobs[e].generation + 1 \in Nat
      BY JobRowFields DEF TypeOK
    <3>2. [jobs[e] EXCEPT !.state = "leased", !.generation = jobs[e].generation + 1,
                          !.leaseUntil = at + LeaseSeconds] \in JobRow
      BY <2>1, <3>1, JobClaim DEF JobState
    <3> QED BY <1>8, <3>1, <3>2 DEF ClaimJobs
  <2>3. jobs' \in [Event -> JobRow]
    BY <1>8, <2>2 DEF ClaimJobs
  <2> QED BY <1>8, <2>3 DEF ClaimJobs, TypeOK
<1>9. ASSUME NEW at \in Readings, NEW w \in Workspace, NEW S \in SUBSET Event,
             Heartbeat(w, S, at)
      PROVE  TypeOK'
  <2>1. at + LeaseSeconds \in Nat
    BY DEF Readings, TypeOK
  <2>2. ASSUME NEW e \in Event PROVE jobs'[e] \in JobRow
    <3>1. jobs[e] \in JobRow
      BY DEF TypeOK
    <3>2. [jobs[e] EXCEPT !.leaseUntil = at + LeaseSeconds] \in JobRow
      BY <2>1, <3>1, JobLeaseOnly
    <3> QED BY <1>9, <3>1, <3>2 DEF Heartbeat
  <2>3. jobs' \in [Event -> JobRow]
    BY <1>9, <2>2 DEF Heartbeat
  <2> QED BY <1>9, <2>3 DEF Heartbeat, TypeOK
<1>10. ASSUME NEW at \in Readings, NEW w \in Workspace, NEW e \in Event,
              NEW g \in 1..jobs[e].generation, NEW r \in Run,
              NEW session \in BOOLEAN, MarkStarted(w, e, g, r, session, at)
       PROVE  TypeOK'
  <2>1. jobs' \in [Event -> JobRow]
    <3>1. [jobs[e] EXCEPT !.state = "running"] \in JobRow
      BY JobStateOnly DEF TypeOK, JobState
    <3> QED BY <1>10, <3>1 DEF MarkStarted, TypeOK
  <2>2. runs' \in [Run -> RunRow]
    <3>1. g \in Nat
      BY JobRowFields
    <3> QED BY <1>10, <3>1 DEF MarkStarted, TypeOK, RunRow
  <2>3. conversations' \in [Conversation -> ConversationRow]
    BY <1>10, WithStatusType DEF MarkStarted, ConversationStatus
  <2>4. outbox' \subseteq Notice
    BY <1>10 DEF MarkStarted, TypeOK, Notice, StartedNotice
  <2> QED BY <1>10, <2>1, <2>2, <2>3, <2>4 DEF MarkStarted, TypeOK
<1>11. ASSUME NEW w \in Workspace, NEW e \in Event,
              NEW g \in 1..jobs[e].generation, NEW r \in Run,
              UpgradeSession(w, e, g, r)
       PROVE  TypeOK'
  <2>1. [runs[r] EXCEPT !.session = TRUE] \in RunRow
    BY RunSessionOnly DEF TypeOK
  <2>2. runs' \in [Run -> RunRow]
    BY <1>11, <2>1 DEF UpgradeSession, TypeOK
  <2> QED BY <1>11, <2>2 DEF UpgradeSession, TypeOK
<1>12. ASSUME NEW at \in Readings, NEW w \in Workspace, NEW e \in Event,
              NEW g \in 1..jobs[e].generation, NEW result \in Terminal,
              CompleteJob(w, e, g, result, at)
       PROVE  TypeOK'
  <2>1. jobs' \in [Event -> JobRow]
    <3>1. [jobs[e] EXCEPT !.state = result, !.leaseUntil = NoLease] \in JobRow
      BY JobStateLease DEF TypeOK, JobState, Terminal
    <3> QED BY <1>12, <3>1 DEF CompleteJob, TypeOK
  <2>2. runs' \in [Run -> RunRow]
    <3>1. PICK r \in Run :
            runs' = [runs EXCEPT ![r].state = IF @ = "running" THEN result ELSE @]
      BY <1>12 DEF CompleteJob
    <3>2. /\ runs[r] \in RunRow
          /\ runs[r].state \in {"absent", "running"} \cup Terminal
      BY DEF TypeOK, RunRow
    <3>3. [runs[r] EXCEPT !.state = IF runs[r].state = "running" THEN result
                                    ELSE runs[r].state] \in RunRow
      BY <3>2, RunStateOnly DEF Terminal
    <3> QED BY <3>1, <3>3 DEF TypeOK
  <2>3. conversations' \in [Conversation -> ConversationRow]
    BY <1>12, WithStatusType DEF CompleteJob, ConversationStatus
  <2>4. outbox' \subseteq Notice
    <3>1. g \in Nat
      BY JobRowFields
    <3> QED BY <1>12, <3>1 DEF CompleteJob, TypeOK, Notice, CompletedNotice
  <2> QED BY <1>12, <2>1, <2>2, <2>3, <2>4 DEF CompleteJob, TypeOK
<1>13. ASSUME NEW at \in Readings, NEW w \in Workspace, NEW e \in Event,
              NEW g \in 1..jobs[e].generation, FailUnstarted(w, e, g, at)
       PROVE  TypeOK'
  <2>1. jobs' \in [Event -> JobRow]
    <3>1. [jobs[e] EXCEPT !.state = "failed", !.leaseUntil = NoLease] \in JobRow
      BY JobStateLease DEF TypeOK, JobState
    <3> QED BY <1>13, <3>1 DEF FailUnstarted, TypeOK
  <2>2. conversations' \in [Conversation -> ConversationRow]
    BY <1>13, WithStatusType DEF FailUnstarted, ConversationStatus
  <2>3. outbox' \subseteq Notice
    <3>1. g \in Nat
      BY JobRowFields
    <3> QED BY <1>13, <3>1 DEF FailUnstarted, TypeOK, Notice, CompletedNotice
  <2> QED BY <1>13, <2>1, <2>2, <2>3 DEF FailUnstarted, TypeOK
<1>14. CASE UNCHANGED vars
  BY <1>14 DEF vars, TypeOK
<1> QED
  BY <1>1, <1>2, <1>3, <1>4, <1>5, <1>6, <1>7, <1>8, <1>9, <1>10, <1>11,
     <1>12, <1>13, <1>14 DEF Next, Request

-----------------------------------------------------------------------------
(* What each operation does to the columns of every jobs row. *)

LEMMA UpdatedColumns ==
    ASSUME NEW x \in JobRow, NEW s, NEW g, NEW t
    PROVE  /\ LET y == [x EXCEPT !.state = s] IN
                 /\ y.state = s /\ y.leaseUntil = x.leaseUntil
                 /\ y.generation = x.generation /\ y.workspace = x.workspace
           /\ LET y == [x EXCEPT !.leaseUntil = t] IN
                 /\ y.state = x.state /\ y.leaseUntil = t
                 /\ y.generation = x.generation /\ y.workspace = x.workspace
           /\ LET y == [x EXCEPT !.state = s, !.leaseUntil = t] IN
                 /\ y.state = s /\ y.leaseUntil = t
                 /\ y.generation = x.generation /\ y.workspace = x.workspace
           /\ LET y == [x EXCEPT !.state = s, !.generation = g,
                                 !.leaseUntil = t] IN
                 /\ y.state = s /\ y.leaseUntil = t
                 /\ y.generation = g /\ y.workspace = x.workspace
BY DEF JobRow

\* The reaper requeues what was leased, fails what was running, and leaves
\* every other row alone.
LEMMA ReapEffect ==
    ASSUME TypeOK, NEW at \in Readings, ReapExpired(at), NEW e \in Event
    PROVE  /\ jobs'[e].generation = jobs[e].generation
           /\ jobs'[e].workspace = jobs[e].workspace
           /\ e \in Requeued(at) =>
                jobs'[e].state = "queued" /\ jobs'[e].leaseUntil = NoLease
           /\ e \in Lost(at) =>
                jobs'[e].state = "failed" /\ jobs'[e].leaseUntil = NoLease
           /\ e \notin Requeued(at) /\ e \notin Lost(at) => jobs'[e] = jobs[e]
<1>1. jobs[e] \in JobRow
  BY DEF TypeOK
<1>2. e \in Lost(at) => e \notin Requeued(at)
  BY DEF Lost, Requeued
<1>3. CASE e \in Requeued(at)
  <2>1. jobs'[e] = [jobs[e] EXCEPT !.state = "queued", !.leaseUntil = NoLease]
    BY <1>3 DEF ReapExpired
  <2> QED BY <1>1, <1>2, <1>3, <2>1, UpdatedColumns
<1>4. CASE e \in Lost(at)
  <2>1. jobs'[e] = [jobs[e] EXCEPT !.state = "failed", !.leaseUntil = NoLease]
    BY <1>2, <1>4 DEF ReapExpired
  <2> QED BY <1>1, <1>2, <1>4, <2>1, UpdatedColumns
<1>5. CASE e \notin Requeued(at) /\ e \notin Lost(at)
  <2>1. jobs'[e] = jobs[e]
    BY <1>5 DEF ReapExpired
  <2> QED BY <1>5, <2>1
<1> QED BY <1>3, <1>4, <1>5

\* A claim leases the rows it takes, under the next generation.
LEMMA ClaimEffect ==
    ASSUME TypeOK, NEW at \in Readings, NEW w \in Workspace, NEW limit,
           ClaimJobs(w, limit, at)
    PROVE  \E S \in SUBSET QueuedFor(w) :
             /\ Cardinality(S) = Smaller(limit,
                    Smaller(Capacity[w] - Cardinality(HeldBy(w)),
                            Cardinality(QueuedFor(w))))
             /\ \A e \in Event :
                  /\ jobs'[e].workspace = jobs[e].workspace
                  /\ e \in S => /\ jobs'[e].state = "leased"
                                /\ jobs'[e].generation = jobs[e].generation + 1
                                /\ jobs'[e].leaseUntil = at + LeaseSeconds
                  /\ e \notin S => jobs'[e] = jobs[e]
<1>1. PICK S \in SUBSET QueuedFor(w) :
        /\ Cardinality(S) = Smaller(limit,
               Smaller(Capacity[w] - Cardinality(HeldBy(w)),
                       Cardinality(QueuedFor(w))))
        /\ jobs' = [e \in Event |->
               IF e \in S
               THEN [jobs[e] EXCEPT !.state = "leased",
                                    !.generation = @ + 1,
                                    !.leaseUntil = at + LeaseSeconds]
               ELSE jobs[e]]
  BY DEF ClaimJobs, Room
<1>2. ASSUME NEW e \in Event
      PROVE  /\ jobs'[e].workspace = jobs[e].workspace
             /\ e \in S => /\ jobs'[e].state = "leased"
                           /\ jobs'[e].generation = jobs[e].generation + 1
                           /\ jobs'[e].leaseUntil = at + LeaseSeconds
             /\ e \notin S => jobs'[e] = jobs[e]
  <2>1. jobs[e] \in JobRow
    BY DEF TypeOK
  <2>2. CASE e \in S
    <3>1. jobs'[e] = [jobs[e] EXCEPT !.state = "leased",
                                     !.generation = jobs[e].generation + 1,
                                     !.leaseUntil = at + LeaseSeconds]
      BY <1>1, <2>2
    <3> QED BY <2>1, <2>2, <3>1, UpdatedColumns
  <2>3. CASE e \notin S
    BY <1>1, <2>3
  <2> QED BY <2>2, <2>3
<1> QED BY <1>1, <1>2

\* A heartbeat moves lease deadlines and nothing else.
LEMMA HeartbeatEffect ==
    ASSUME TypeOK, NEW at \in Readings, NEW w \in Workspace,
           NEW S \in SUBSET Event, Heartbeat(w, S, at), NEW e \in Event
    PROVE  /\ jobs'[e].state = jobs[e].state
           /\ jobs'[e].generation = jobs[e].generation
           /\ jobs'[e].workspace = jobs[e].workspace
           /\ jobs'[e].leaseUntil =
                IF e \in S THEN at + LeaseSeconds ELSE jobs[e].leaseUntil
<1>1. jobs[e] \in JobRow
  BY DEF TypeOK
<1>2. jobs'[e] = IF e \in S
                 THEN [jobs[e] EXCEPT !.leaseUntil = at + LeaseSeconds]
                 ELSE jobs[e]
  BY DEF Heartbeat
<1> QED BY <1>1, <1>2, UpdatedColumns

\* The three requests that end a lease or start a job touch only that row.
LEMMA StartEffect ==
    ASSUME TypeOK, NEW w, NEW e \in Event, NEW g, NEW r, NEW session, NEW at,
           MarkStarted(w, e, g, r, session, at), NEW f \in Event
    PROVE  /\ f # e => jobs'[f] = jobs[f]
           /\ jobs'[e].state = "running"
           /\ jobs'[f].generation = jobs[f].generation
           /\ jobs'[f].workspace = jobs[f].workspace
           /\ jobs'[f].leaseUntil = jobs[f].leaseUntil
<1>1. jobs \in [Event -> JobRow]
  BY DEF TypeOK
<1>2. jobs'[e] = [jobs[e] EXCEPT !.state = "running"]
  BY <1>1 DEF MarkStarted
<1>3. f # e => jobs'[f] = jobs[f]
  BY <1>1 DEF MarkStarted
<1>4. jobs[e] \in JobRow
  BY <1>1
<1>5. /\ jobs'[e].state = "running" /\ jobs'[e].leaseUntil = jobs[e].leaseUntil
      /\ jobs'[e].generation = jobs[e].generation
      /\ jobs'[e].workspace = jobs[e].workspace
  BY <1>2, <1>4, UpdatedColumns
<1> QED BY <1>3, <1>5

LEMMA CompleteEffect ==
    ASSUME TypeOK, NEW w, NEW e \in Event, NEW g, NEW result, NEW at,
           CompleteJob(w, e, g, result, at), NEW f \in Event
    PROVE  /\ f # e => jobs'[f] = jobs[f]
           /\ jobs'[e].state = result
           /\ jobs'[e].leaseUntil = NoLease
           /\ jobs'[f].generation = jobs[f].generation
           /\ jobs'[f].workspace = jobs[f].workspace
<1>1. jobs \in [Event -> JobRow]
  BY DEF TypeOK
<1>2. jobs'[e] = [jobs[e] EXCEPT !.state = result, !.leaseUntil = NoLease]
  BY <1>1 DEF CompleteJob
<1>3. f # e => jobs'[f] = jobs[f]
  BY <1>1 DEF CompleteJob
<1>4. jobs[e] \in JobRow
  BY <1>1
<1>5. /\ jobs'[e].state = result /\ jobs'[e].leaseUntil = NoLease
      /\ jobs'[e].generation = jobs[e].generation
      /\ jobs'[e].workspace = jobs[e].workspace
  BY <1>2, <1>4, UpdatedColumns
<1> QED BY <1>3, <1>5

LEMMA FailEffect ==
    ASSUME TypeOK, NEW w, NEW e \in Event, NEW g, NEW at,
           FailUnstarted(w, e, g, at), NEW f \in Event
    PROVE  /\ f # e => jobs'[f] = jobs[f]
           /\ jobs'[e].state = "failed"
           /\ jobs'[e].leaseUntil = NoLease
           /\ jobs'[f].generation = jobs[f].generation
           /\ jobs'[f].workspace = jobs[f].workspace
<1>1. jobs \in [Event -> JobRow]
  BY DEF TypeOK
<1>2. jobs'[e] = [jobs[e] EXCEPT !.state = "failed", !.leaseUntil = NoLease]
  BY <1>1 DEF FailUnstarted
<1>3. f # e => jobs'[f] = jobs[f]
  BY <1>1 DEF FailUnstarted
<1>4. jobs[e] \in JobRow
  BY <1>1
<1>5. /\ jobs'[e].state = "failed" /\ jobs'[e].leaseUntil = NoLease
      /\ jobs'[e].generation = jobs[e].generation
      /\ jobs'[e].workspace = jobs[e].workspace
  BY <1>2, <1>4, UpdatedColumns
<1> QED BY <1>3, <1>5

LEMMA DispatchEffect ==
    ASSUME TypeOK, NEW e \in Event, NEW at, RecordDispatchEvent(e, at),
           NEW f \in Event
    PROVE  /\ f # e => jobs'[f] = jobs[f]
           /\ jobs[e].state = "absent"
           /\ jobs'[e].state = "queued"
           /\ jobs'[e].leaseUntil = NoLease
BY DEF TypeOK, RecordDispatchEvent

\* A bulk status update changes the status of the conversations whose current
\* job is named, and nothing else about any of them.
LEMMA WithStatusEffect ==
    ASSUME TypeOK, NEW S, NEW s, NEW c \in Conversation
    PROVE  LET row == WithStatus(S, s)[c] IN
           /\ row.current = conversations[c].current
           /\ row.workspace = conversations[c].workspace
           /\ row.status = IF conversations[c].current \in S
                           THEN s ELSE conversations[c].status
<1>1. conversations[c] \in ConversationRow
  BY DEF TypeOK
<1>2. WithStatus(S, s)[c] = IF conversations[c].current \in S
                            THEN [conversations[c] EXCEPT !.status = s]
                            ELSE conversations[c]
  BY DEF WithStatus
<1> QED BY <1>1, <1>2 DEF ConversationRow

\* Run rows keep their identity; only their state moves.
LEMMA ReapRuns ==
    ASSUME TypeOK, NEW at, ReapExpired(at), NEW r \in Run
    PROVE  /\ runs'[r].job = runs[r].job
           /\ runs'[r].generation = runs[r].generation
           /\ runs'[r].state =
                IF runs[r].job \in Lost(at) /\ runs[r].state = "running"
                THEN "failed" ELSE runs[r].state
<1>1. runs[r] \in RunRow
  BY DEF TypeOK
<1>2. runs'[r] = IF runs[r].job \in Lost(at) /\ runs[r].state = "running"
                 THEN [runs[r] EXCEPT !.state = "failed"]
                 ELSE runs[r]
  BY DEF ReapExpired, LostRuns
<1> QED BY <1>1, <1>2 DEF RunRow

LEMMA CompleteRuns ==
    ASSUME TypeOK, NEW w, NEW e, NEW g, NEW result, NEW at,
           CompleteJob(w, e, g, result, at)
    PROVE  \E q \in Run :
             /\ runs[q].job = e
             /\ \A r \in Run :
                  /\ runs'[r].job = runs[r].job
                  /\ runs'[r].generation = runs[r].generation
                  /\ runs'[r].state = IF r = q /\ runs[r].state = "running"
                                      THEN result ELSE runs[r].state
<1>1. PICK q \in Run :
        /\ runs[q].job = e
        /\ runs' = [runs EXCEPT ![q].state = IF @ = "running" THEN result ELSE @]
  BY DEF CompleteJob
<1>2. ASSUME NEW r \in Run
      PROVE  /\ runs'[r].job = runs[r].job
             /\ runs'[r].generation = runs[r].generation
             /\ runs'[r].state = IF r = q /\ runs[r].state = "running"
                                 THEN result ELSE runs[r].state
  <2>1. runs \in [Run -> RunRow] /\ runs[r] \in RunRow
    BY DEF TypeOK
  <2>2. CASE r = q
    BY <1>1, <2>1, <2>2 DEF RunRow
  <2>3. CASE r # q
    BY <1>1, <2>1, <2>3
  <2> QED BY <2>2, <2>3
<1> QED BY <1>1, <1>2

LEMMA UpgradeRuns ==
    ASSUME TypeOK, NEW w, NEW e, NEW g, NEW q \in Run, UpgradeSession(w, e, g, q),
           NEW r \in Run
    PROVE  /\ runs'[r].job = runs[r].job
           /\ runs'[r].generation = runs[r].generation
           /\ runs'[r].state = runs[r].state
<1>1. runs \in [Run -> RunRow] /\ runs[r] \in RunRow
  BY DEF TypeOK
<1>2. CASE r = q
  BY <1>1, <1>2 DEF UpgradeSession, RunRow
<1>3. CASE r # q
  BY <1>1, <1>3 DEF UpgradeSession
<1> QED BY <1>2, <1>3

LEMMA StartRuns ==
    ASSUME TypeOK, NEW w, NEW e, NEW g, NEW q \in Run, NEW session, NEW at,
           MarkStarted(w, e, g, q, session, at), NEW r \in Run
    PROVE  /\ r # q => runs'[r] = runs[r]
           /\ runs'[q].job = e
           /\ runs'[q].generation = g
           /\ runs'[q].state = "running"
BY DEF MarkStarted, TypeOK

LEMMA DispatchConversations ==
    ASSUME TypeOK, NEW e \in Event, NEW at, RecordDispatchEvent(e, at),
           NEW c \in Conversation
    PROVE  /\ c # ConversationOf[e] => conversations'[c] = conversations[c]
           /\ c = ConversationOf[e] => /\ conversations'[c].current = e
                                      /\ conversations'[c].status = "queued"
<1>1. conversations \in [Conversation -> ConversationRow]
      /\ conversations[c] \in ConversationRow
  BY DEF TypeOK
<1>2. CASE c = ConversationOf[e]
  <2>1. conversations'[c] = [conversations[c] EXCEPT !.current = e,
                                                     !.status = "queued"]
    BY <1>1, <1>2 DEF RecordDispatchEvent
  <2> QED BY <1>1, <1>2, <2>1 DEF ConversationRow
<1>3. CASE c # ConversationOf[e]
  BY <1>1, <1>3 DEF RecordDispatchEvent
<1> QED BY <1>2, <1>3

-----------------------------------------------------------------------------
(* The inductive invariant, conjunct by conjunct. *)

LEMMA RowsLinkedStep == StoreInvariant /\ [Next]_vars => RowsLinked'
<1> SUFFICES ASSUME StoreInvariant, [Next]_vars PROVE RowsLinked'
    OBVIOUS
<1>1. TypeOK /\ RowsLinked
  BY DEF StoreInvariant
<1>2. CASE UNCHANGED <<conversations, jobs, runs, outbox>>
  BY <1>1, <1>2 DEF RowsLinked
<1>3. ASSUME NEW e \in Event, RecordTerminal(e)
      PROVE  RowsLinked'
  BY <1>1, <1>3 DEF RecordTerminal, RowsLinked, TypeOK, ConversationRow
<1>4. ASSUME NEW c \in Conversation, NEW w \in Workspace,
             UpsertConversation(c, w)
      PROVE  RowsLinked'
  BY <1>1, <1>4 DEF UpsertConversation, RowsLinked, TypeOK, ConversationRow
<1>5. ASSUME NEW at \in Readings, ReapExpired(at)
      PROVE  RowsLinked'
  <2>1. \A e \in Event : jobs'[e].leaseUntil # NoLease <=> jobs'[e].state \in Held
    BY <1>1, <1>5, ReapEffect DEF RowsLinked, Held
  <2>2. \A r \in Run : runs'[r].job = None <=> runs'[r].state = "absent"
    BY <1>1, <1>5, ReapRuns DEF RowsLinked
  <2>3. \A c \in Conversation :
          conversations'[c].current = conversations[c].current
    <3>1. conversations' = WithStatus(Lost(at), "finishing")
      BY <1>5 DEF ReapExpired
    <3> QED BY <1>1, <3>1, WithStatusEffect
  <2> QED BY <1>1, <2>1, <2>2, <2>3 DEF RowsLinked
<1>6. ASSUME NEW at \in Readings, NEW e \in Event, RecordDispatchEvent(e, at)
      PROVE  RowsLinked'
  <2>1. \A f \in Event : jobs'[f].leaseUntil # NoLease <=> jobs'[f].state \in Held
    BY <1>1, <1>6, DispatchEffect DEF RowsLinked, Held
  <2>2. \A c \in Conversation : conversations'[c].current # None =>
           ConversationOf[conversations'[c].current] = c
    BY <1>1, <1>6, DispatchConversations DEF RowsLinked
  <2> QED BY <1>1, <1>6, <2>1, <2>2 DEF RecordDispatchEvent, RowsLinked
<1>7. ASSUME NEW at \in Readings, NEW w \in Workspace,
             NEW limit \in 1..Cardinality(Event), ClaimJobs(w, limit, at)
      PROVE  RowsLinked'
  <2>1. at + LeaseSeconds # NoLease
    BY <1>1, ConstantAssumption DEF Readings, TypeOK, NoLease
  <2>2. \A e \in Event : jobs'[e].leaseUntil # NoLease <=> jobs'[e].state \in Held
    BY <1>1, <1>7, <2>1, ClaimEffect DEF RowsLinked, Held
  <2> QED BY <1>1, <1>7, <2>2 DEF ClaimJobs, RowsLinked
<1>8. ASSUME NEW at \in Readings, NEW w \in Workspace, NEW S \in SUBSET Event,
             Heartbeat(w, S, at)
      PROVE  RowsLinked'
  <2>1. at + LeaseSeconds # NoLease
    BY <1>1, ConstantAssumption DEF Readings, TypeOK, NoLease
  <2>2. \A e \in S : jobs[e].state \in Held
    BY <1>8 DEF Heartbeat
  <2>3. \A e \in Event : jobs'[e].leaseUntil # NoLease <=> jobs'[e].state \in Held
    BY <1>1, <1>8, <2>1, <2>2, HeartbeatEffect DEF RowsLinked
  <2> QED BY <1>1, <1>8, <2>3 DEF Heartbeat, RowsLinked
<1>9. ASSUME NEW at \in Readings, NEW w \in Workspace, NEW e \in Event,
             NEW g \in 1..jobs[e].generation, NEW r \in Run,
             NEW session \in BOOLEAN, MarkStarted(w, e, g, r, session, at)
      PROVE  RowsLinked'
  <2>1. jobs[e].state = "leased"
    BY <1>9 DEF MarkStarted
  <2>2. \A f \in Event : jobs'[f].leaseUntil # NoLease <=> jobs'[f].state \in Held
    BY <1>1, <1>9, <2>1, StartEffect DEF RowsLinked, Held
  <2>3. \A q \in Run : runs'[q].job = None <=> runs'[q].state = "absent"
    BY <1>1, <1>9, StartRuns, ConstantAssumption DEF RowsLinked
  <2>4. \A c \in Conversation :
          conversations'[c].current = conversations[c].current
    <3>1. conversations' = WithStatus({e}, "working")
      BY <1>9 DEF MarkStarted
    <3> QED BY <1>1, <3>1, WithStatusEffect
  <2> QED BY <1>1, <2>2, <2>3, <2>4 DEF RowsLinked
<1>10. ASSUME NEW w \in Workspace, NEW e \in Event,
              NEW g \in 1..jobs[e].generation, NEW r \in Run,
              UpgradeSession(w, e, g, r)
       PROVE  RowsLinked'
  <2>1. \A q \in Run : runs'[q].job = None <=> runs'[q].state = "absent"
    BY <1>1, <1>10, UpgradeRuns DEF RowsLinked
  <2> QED BY <1>1, <1>10, <2>1 DEF UpgradeSession, RowsLinked
<1>11. ASSUME NEW at \in Readings, NEW w \in Workspace, NEW e \in Event,
              NEW g \in 1..jobs[e].generation, NEW result \in Terminal,
              CompleteJob(w, e, g, result, at)
       PROVE  RowsLinked'
  <2>1. \A f \in Event : jobs'[f].leaseUntil # NoLease <=> jobs'[f].state \in Held
    BY <1>1, <1>11, CompleteEffect DEF RowsLinked, Held, Terminal
  <2>2. \A q \in Run : runs'[q].job = None <=> runs'[q].state = "absent"
    BY <1>1, <1>11, CompleteRuns DEF RowsLinked, Terminal
  <2>3. \A c \in Conversation :
          conversations'[c].current = conversations[c].current
    <3>1. conversations' = WithStatus({e}, "finishing")
      BY <1>11 DEF CompleteJob
    <3> QED BY <1>1, <3>1, WithStatusEffect
  <2> QED BY <1>1, <2>1, <2>2, <2>3 DEF RowsLinked
<1>12. ASSUME NEW at \in Readings, NEW w \in Workspace, NEW e \in Event,
              NEW g \in 1..jobs[e].generation, FailUnstarted(w, e, g, at)
       PROVE  RowsLinked'
  <2>1. \A f \in Event : jobs'[f].leaseUntil # NoLease <=> jobs'[f].state \in Held
    BY <1>1, <1>12, FailEffect DEF RowsLinked, Held
  <2>2. \A c \in Conversation :
          conversations'[c].current = conversations[c].current
    <3>1. conversations' = WithStatus({e}, "finishing")
      BY <1>12 DEF FailUnstarted
    <3> QED BY <1>1, <3>1, WithStatusEffect
  <2> QED BY <1>1, <1>12, <2>1, <2>2 DEF FailUnstarted, RowsLinked
<1>20. ASSUME NEW at \in Readings, NEW w \in Workspace, NEW e \in Event,
              NEW g \in 1..jobs[e].generation, Request(w, e, g, at)
       PROVE  RowsLinked'
  BY <1>20, <1>9, <1>10, <1>11, <1>12
  DEF Request
<1> QED
  BY <1>2, <1>3, <1>4, <1>5, <1>6, <1>7, <1>8, <1>20
  DEF Next, Tick, SetEnabled, RecordEvent, vars

\* StartedOnce and RunAgreesWithJob: a start needs a leased job, and a job
\* that has a run is past that for good.
RunsInvariant == StartedOnce /\ RunAgreesWithJob

LEMMA RunsStep == StoreInvariant /\ [Next]_vars => RunsInvariant'
<1> SUFFICES ASSUME StoreInvariant, [Next]_vars PROVE RunsInvariant'
    OBVIOUS
<1>1. TypeOK /\ RowsLinked /\ StartedOnce /\ RunAgreesWithJob
  BY DEF StoreInvariant
<1>2. \A r \in Run : runs[r].job \in Event \cup {None}
  BY <1>1 DEF TypeOK, RunRow
<1>3. CASE UNCHANGED <<jobs, runs>>
  BY <1>1, <1>3 DEF RunsInvariant, StartedOnce, RunAgreesWithJob
<1>4. ASSUME \A r \in Run : /\ runs'[r].job = runs[r].job
                            /\ runs'[r].generation = runs[r].generation
                            /\ runs'[r].state = runs[r].state,
             \A e \in Event : jobs'[e].state = "running" => jobs[e].state = "running",
             \A e \in Event : (\E r \in Run : runs[r].job = e) =>
                /\ jobs'[e].state = jobs[e].state
                /\ jobs'[e].generation = jobs[e].generation
      PROVE  RunsInvariant'
  BY <1>1, <1>2, <1>4 DEF RunsInvariant, StartedOnce, RunAgreesWithJob
<1>5. ASSUME NEW at \in Readings, ReapExpired(at)
      PROVE  RunsInvariant'
  <2>1. \A e \in Lost(at) : jobs[e].state = "running" /\ e \notin Requeued(at)
    BY DEF Lost, Requeued
  <2>2. \A e \in Requeued(at) : ~\E r \in Run : runs[r].job = e
    BY <1>1, ConstantAssumption DEF Requeued, StartedOnce, Terminal
  <2>3. StartedOnce'
    BY <1>1, <1>2, <1>5, <2>1, <2>2, ReapEffect, ReapRuns
    DEF StartedOnce, Terminal
  <2>4. ASSUME NEW r \in Run, runs'[r].job # None
        PROVE  runs'[r].state = jobs'[runs'[r].job].state
    BY <1>1, <1>2, <1>5, <2>1, <2>2, <2>4, ReapEffect, ReapRuns
    DEF RunAgreesWithJob
  <2>5. ASSUME NEW e \in Event, jobs'[e].state = "running"
        PROVE  \E r \in Run : runs'[r].job = e
    BY <1>1, <1>5, <2>5, ReapEffect, ReapRuns DEF RunAgreesWithJob
  <2> QED BY <2>3, <2>4, <2>5 DEF RunsInvariant, RunAgreesWithJob
<1>6. ASSUME NEW at \in Readings, NEW e \in Event, RecordDispatchEvent(e, at)
      PROVE  RunsInvariant'
  <2>1. ~\E r \in Run : runs[r].job = e
    BY <1>1, <1>6, ConstantAssumption, DispatchEffect DEF StartedOnce, Terminal
  <2>2. UNCHANGED runs
    BY <1>6 DEF RecordDispatchEvent
  <2> QED BY <1>1, <1>4, <1>6, <2>1, <2>2, DispatchEffect
<1>7. ASSUME NEW at \in Readings, NEW w \in Workspace,
             NEW limit \in 1..Cardinality(Event), ClaimJobs(w, limit, at)
      PROVE  RunsInvariant'
  <2>1. \A e \in QueuedFor(w) : ~\E r \in Run : runs[r].job = e
    BY <1>1, ConstantAssumption DEF StartedOnce, Terminal, QueuedFor
  <2>2. UNCHANGED runs
    BY <1>7 DEF ClaimJobs
  <2> QED BY <1>1, <1>4, <1>7, <2>1, <2>2, ClaimEffect
<1>8. ASSUME NEW at \in Readings, NEW w \in Workspace, NEW S \in SUBSET Event,
             Heartbeat(w, S, at)
      PROVE  RunsInvariant'
  <2>1. UNCHANGED runs
    BY <1>8 DEF Heartbeat
  <2> QED BY <1>1, <1>4, <1>8, <2>1, HeartbeatEffect
<1>9. ASSUME NEW at \in Readings, NEW w \in Workspace, NEW e \in Event,
             NEW g \in 1..jobs[e].generation, NEW r \in Run,
             NEW session \in BOOLEAN, MarkStarted(w, e, g, r, session, at)
      PROVE  RunsInvariant'
  <2>1. /\ jobs[e].state = "leased"
        /\ jobs[e].generation = g
        /\ runs[r].state = "absent"
    BY <1>9 DEF MarkStarted, Leased
  <2>2. \A q \in Run : runs[q].job # e
    BY <1>1, <2>1, ConstantAssumption DEF StartedOnce, Terminal
  <2>3. /\ jobs'[e].state = "running"
        /\ jobs'[e].generation = g
        /\ \A f \in Event \ {e} : jobs'[f] = jobs[f]
    BY <1>1, <1>9, <2>1, StartEffect
  <2>4. /\ runs'[r].job = e /\ runs'[r].generation = g
        /\ runs'[r].state = "running"
        /\ \A q \in Run \ {r} : runs'[q] = runs[q]
    BY <1>1, <1>9, StartRuns
  <2>5. StartedOnce'
    BY <1>1, <1>2, <2>2, <2>3, <2>4 DEF StartedOnce
  <2>6. RunAgreesWithJob'
    <3>1. runs[r].job = None
      BY <1>1, <2>1 DEF RowsLinked
    <3>2. ASSUME NEW q \in Run, runs'[q].job # None
          PROVE  runs'[q].state = jobs'[runs'[q].job].state
      BY <1>1, <1>2, <2>2, <2>3, <2>4, <3>2 DEF RunAgreesWithJob
    <3>3. ASSUME NEW f \in Event, jobs'[f].state = "running"
          PROVE  \E q \in Run : runs'[q].job = f
      BY <1>1, <2>3, <2>4, <3>1, <3>3, ConstantAssumption DEF RunAgreesWithJob
    <3> QED BY <3>2, <3>3 DEF RunAgreesWithJob
  <2> QED BY <2>5, <2>6 DEF RunsInvariant
<1>10. ASSUME NEW w \in Workspace, NEW e \in Event,
              NEW g \in 1..jobs[e].generation, NEW r \in Run,
              UpgradeSession(w, e, g, r)
       PROVE  RunsInvariant'
  <2>1. UNCHANGED jobs
    BY <1>10 DEF UpgradeSession
  <2> QED BY <1>1, <1>4, <1>10, <2>1, UpgradeRuns
<1>11. ASSUME NEW at \in Readings, NEW w \in Workspace, NEW e \in Event,
              NEW g \in 1..jobs[e].generation, NEW result \in Terminal,
              CompleteJob(w, e, g, result, at)
       PROVE  RunsInvariant'
  <2>1. PICK q \in Run :
          /\ runs[q].job = e
          /\ \A r \in Run :
               /\ runs'[r].job = runs[r].job
               /\ runs'[r].generation = runs[r].generation
               /\ runs'[r].state = IF r = q /\ runs[r].state = "running"
                                   THEN result ELSE runs[r].state
    BY <1>1, <1>11, CompleteRuns
  <2>2. jobs[e].state = "running"
    BY <1>11 DEF CompleteJob, Completable
  <2>3. /\ jobs'[e].state = result
        /\ \A f \in Event \ {e} : jobs'[f] = jobs[f]
        /\ \A f \in Event : jobs'[f].generation = jobs[f].generation
    BY <1>1, <1>11, CompleteEffect
  <2>4. StartedOnce'
    BY <1>1, <1>2, <2>1, <2>3 DEF StartedOnce
  <2>5. runs[q].state = "running"
    BY <1>1, <2>1, <2>2, ConstantAssumption DEF RunAgreesWithJob
  <2>6. \A r \in Run : runs[r].job = e => r = q
    BY <1>1, <2>1, ConstantAssumption DEF StartedOnce
  <2>7. RunAgreesWithJob'
    BY <1>1, <1>2, <2>1, <2>3, <2>5, <2>6 DEF RunAgreesWithJob, Terminal
  <2> QED BY <2>4, <2>7 DEF RunsInvariant
<1>12. ASSUME NEW at \in Readings, NEW w \in Workspace, NEW e \in Event,
              NEW g \in 1..jobs[e].generation, FailUnstarted(w, e, g, at)
       PROVE  RunsInvariant'
  <2>1. ~\E r \in Run : runs[r].job = e
    BY <1>1, <1>12, ConstantAssumption DEF FailUnstarted, StartedOnce, Terminal
  <2>2. UNCHANGED runs
    BY <1>12 DEF FailUnstarted
  <2> QED BY <1>1, <1>4, <1>12, <2>1, <2>2, FailEffect
<1>20. ASSUME NEW at \in Readings, NEW w \in Workspace, NEW e \in Event,
              NEW g \in 1..jobs[e].generation, Request(w, e, g, at)
       PROVE  RunsInvariant'
  BY <1>20, <1>9, <1>10, <1>11, <1>12
  DEF Request
<1> QED
  BY <1>3, <1>5, <1>6, <1>7, <1>8, <1>20
  DEF Next, Tick, SetEnabled, RecordEvent, RecordTerminal,
      UpsertConversation, vars

\* OutcomeShape: a terminal notice is written exactly when its job ends.
LEMMA NoticeAdded ==
    ASSUME NEW n, n.kind \in {"job-completed", "runner-lost"},
           outbox' = outbox \cup {n}, NEW e
    PROVE  TerminalNotices(e)' = IF n.job = e THEN TerminalNotices(e) \cup {n}
                                 ELSE TerminalNotices(e)
BY DEF TerminalNotices

LEMMA OutcomeStep == StoreInvariant /\ [Next]_vars => OutcomeShape'
<1> SUFFICES ASSUME StoreInvariant, [Next]_vars PROVE OutcomeShape'
    OBVIOUS
<1>1. TypeOK /\ OutcomeShape
  BY DEF StoreInvariant
<1>2. ASSUME \A e \in Event : TerminalNotices(e)' = TerminalNotices(e),
             \A e \in Event : jobs'[e].state \in Terminal
                              <=> jobs[e].state \in Terminal
      PROVE  OutcomeShape'
  BY <1>1, <1>2 DEF OutcomeShape
<1>3. ASSUME UNCHANGED outbox
      PROVE  \A e \in Event : TerminalNotices(e)' = TerminalNotices(e)
  BY <1>3 DEF TerminalNotices
<1>4. CASE UNCHANGED <<jobs, outbox>>
  BY <1>2, <1>3, <1>4
<1>5. ASSUME NEW at \in Readings, ReapExpired(at)
      PROVE  OutcomeShape'
  <2>1. outbox' = outbox \cup {LostNotice(f) : f \in Lost(at)}
    BY <1>5 DEF ReapExpired
  <2>2. ASSUME NEW e \in Event
        PROVE  IF jobs'[e].state \in Terminal
               THEN \E n \in Notice : TerminalNotices(e)' = {n}
               ELSE TerminalNotices(e)' = {}
    <3>1. CASE e \in Lost(at)
      <4>1. TerminalNotices(e) = {}
        BY <1>1, <3>1 DEF OutcomeShape, Lost, Terminal
      <4>2. TerminalNotices(e)' = {LostNotice(e)}
        BY <2>1, <3>1, <4>1 DEF TerminalNotices, LostNotice
      <4>3. LostNotice(e) \in Notice
        BY DEF LostNotice, Notice
      <4>4. jobs'[e].state \in Terminal
        BY <1>1, <1>5, <3>1, ReapEffect DEF Terminal
      <4> QED BY <4>2, <4>3, <4>4
    <3>2. CASE e \notin Lost(at)
      <4>1. TerminalNotices(e)' = TerminalNotices(e)
        BY <2>1, <3>2 DEF TerminalNotices, LostNotice
      <4>2. jobs'[e].state \in Terminal <=> jobs[e].state \in Terminal
        BY <1>1, <1>5, <3>2, ReapEffect DEF Requeued, Terminal
      <4> QED BY <1>1, <4>1, <4>2 DEF OutcomeShape
    <3> QED BY <3>1, <3>2
  <2> QED BY <2>2 DEF OutcomeShape
<1>6. ASSUME NEW at \in Readings, NEW e \in Event, RecordDispatchEvent(e, at)
      PROVE  OutcomeShape'
  <2>1. UNCHANGED outbox
    BY <1>6 DEF RecordDispatchEvent
  <2>2. \A f \in Event : jobs'[f].state \in Terminal <=> jobs[f].state \in Terminal
    BY <1>1, <1>6, DispatchEffect DEF Terminal
  <2> QED BY <1>2, <1>3, <2>1, <2>2
<1>7. ASSUME NEW at \in Readings, NEW w \in Workspace,
             NEW limit \in 1..Cardinality(Event), ClaimJobs(w, limit, at)
      PROVE  OutcomeShape'
  <2>1. UNCHANGED outbox
    BY <1>7 DEF ClaimJobs
  <2>2. \A f \in Event : jobs'[f].state \in Terminal <=> jobs[f].state \in Terminal
    BY <1>1, <1>7, ClaimEffect DEF Terminal, QueuedFor
  <2> QED BY <1>2, <1>3, <2>1, <2>2
<1>8. ASSUME NEW at \in Readings, NEW w \in Workspace, NEW S \in SUBSET Event,
             Heartbeat(w, S, at)
      PROVE  OutcomeShape'
  <2>1. UNCHANGED outbox
    BY <1>8 DEF Heartbeat
  <2> QED BY <1>1, <1>2, <1>3, <1>8, <2>1, HeartbeatEffect
<1>9. ASSUME NEW at \in Readings, NEW w \in Workspace, NEW e \in Event,
             NEW g \in 1..jobs[e].generation, NEW r \in Run,
             NEW session \in BOOLEAN, MarkStarted(w, e, g, r, session, at)
      PROVE  OutcomeShape'
  <2>1. \A f \in Event : TerminalNotices(f)' = TerminalNotices(f)
    BY <1>9 DEF MarkStarted, TerminalNotices, StartedNotice
  <2>2. \A f \in Event : jobs'[f].state \in Terminal <=> jobs[f].state \in Terminal
    BY <1>1, <1>9, StartEffect DEF Terminal, MarkStarted
  <2> QED BY <1>2, <2>1, <2>2
<1>10. ASSUME NEW w \in Workspace, NEW e \in Event,
              NEW g \in 1..jobs[e].generation, NEW at,
              \/ \E result \in Terminal : CompleteJob(w, e, g, result, at)
              \/ FailUnstarted(w, e, g, at)
       PROVE  OutcomeShape'
  <2>1. /\ outbox' = outbox \cup {CompletedNotice(e, g)}
        /\ jobs[e].state \in Held
    BY <1>10 DEF CompleteJob, Completable, FailUnstarted, Held
  <2>2. /\ jobs'[e].state \in Terminal
        /\ \A f \in Event \ {e} : jobs'[f] = jobs[f]
    BY <1>1, <1>10, CompleteEffect, FailEffect DEF Terminal
  <2>3. TerminalNotices(e) = {}
    BY <1>1, <2>1 DEF OutcomeShape, Held, Terminal
  <2>4. CompletedNotice(e, g) \in Notice
    BY <1>1, JobRowFields DEF CompletedNotice, Notice
  <2>5. ASSUME NEW f \in Event
        PROVE  TerminalNotices(f)' = IF f = e THEN {CompletedNotice(e, g)}
                                     ELSE TerminalNotices(f)
    BY <2>1, <2>3 DEF TerminalNotices, CompletedNotice
  <2> QED BY <1>1, <2>2, <2>4, <2>5 DEF OutcomeShape
<1>20. ASSUME NEW at \in Readings, NEW w \in Workspace, NEW e \in Event,
              NEW g \in 1..jobs[e].generation, Request(w, e, g, at)
       PROVE  OutcomeShape'
  BY <1>20, <1>4, <1>9, <1>10
  DEF Request, UpgradeSession
<1> QED
  BY <1>4, <1>5, <1>6, <1>7, <1>8, <1>20
  DEF Next, Tick, SetEnabled, RecordEvent, RecordTerminal,
      UpsertConversation, vars

\* CapacityRespected: only a claim adds held jobs, and it counts them first.
LEMMA HeldFinite ==
    ASSUME NEW w
    PROVE  IsFiniteSet(HeldBy(w)) /\ Cardinality(HeldBy(w)) \in Nat
<1>1. HeldBy(w) \in SUBSET Event
  BY DEF HeldBy
<1> QED BY <1>1, ConstantAssumption, FS_Subset, FS_CardinalityType

LEMMA HeldShrinks ==
    ASSUME CapacityRespected,
           \A w \in Workspace : HeldBy(w)' \subseteq HeldBy(w)
    PROVE  CapacityRespected'
<1>1. ASSUME NEW w \in Workspace PROVE Cardinality(HeldBy(w)') <= Capacity[w]
  <2>1. Cardinality(HeldBy(w)') <= Cardinality(HeldBy(w))
    BY HeldFinite, FS_Subset
  <2>2. Cardinality(HeldBy(w)) <= Capacity[w]
    BY DEF CapacityRespected
  <2>3. IsFiniteSet(HeldBy(w)')
    BY HeldFinite, FS_Subset
  <2>4. Cardinality(HeldBy(w)') \in Nat
    BY <2>3, FS_CardinalityType
  <2> QED BY <2>1, <2>2, <2>4, HeldFinite, ConstantAssumption
<1> QED BY <1>1 DEF CapacityRespected

LEMMA CapacityStep == StoreInvariant /\ [Next]_vars => CapacityRespected'
<1> SUFFICES ASSUME StoreInvariant, [Next]_vars PROVE CapacityRespected'
    OBVIOUS
<1>1. TypeOK /\ CapacityRespected
  BY DEF StoreInvariant
<1>2. CASE UNCHANGED jobs
  BY <1>1, <1>2, HeldShrinks DEF HeldBy
<1>3. ASSUME NEW at \in Readings, ReapExpired(at)
      PROVE  CapacityRespected'
  <2>1. \A w \in Workspace : HeldBy(w)' \subseteq HeldBy(w)
    BY <1>1, <1>3, ReapEffect DEF HeldBy, Held
  <2> QED BY <1>1, <2>1, HeldShrinks
<1>4. ASSUME NEW at \in Readings, NEW e \in Event, RecordDispatchEvent(e, at)
      PROVE  CapacityRespected'
  <2>1. \A w \in Workspace : HeldBy(w)' \subseteq HeldBy(w)
    BY <1>1, <1>4, DispatchEffect DEF HeldBy, Held
  <2> QED BY <1>1, <2>1, HeldShrinks
<1>5. ASSUME NEW at \in Readings, NEW w \in Workspace,
             NEW limit \in 1..Cardinality(Event), ClaimJobs(w, limit, at)
      PROVE  CapacityRespected'
  <2>1. PICK S \in SUBSET QueuedFor(w) :
          /\ Cardinality(S) = Smaller(limit,
                 Smaller(Capacity[w] - Cardinality(HeldBy(w)),
                         Cardinality(QueuedFor(w))))
          /\ \A e \in Event :
               /\ jobs'[e].workspace = jobs[e].workspace
               /\ e \in S => jobs'[e].state = "leased"
               /\ e \notin S => jobs'[e] = jobs[e]
    BY <1>1, <1>5, ClaimEffect
  <2>2. /\ IsFiniteSet(QueuedFor(w)) /\ IsFiniteSet(S)
        /\ Cardinality(S) \in Nat /\ Cardinality(QueuedFor(w)) \in Nat
    <3>1. QueuedFor(w) \in SUBSET Event
      BY DEF QueuedFor
    <3> QED BY <3>1, ConstantAssumption, FS_Subset, FS_CardinalityType
  <2>3. HeldBy(w)' = HeldBy(w) \cup S
    BY <2>1 DEF HeldBy, Held, QueuedFor
  <2>4. ASSUME NEW v \in Workspace, v # w
        PROVE  HeldBy(v)' = HeldBy(v)
    BY <2>1, <2>4 DEF HeldBy, Held, QueuedFor
  <2>5. Cardinality(HeldBy(w)') <= Cardinality(HeldBy(w)) + Cardinality(S)
    <3>1. HeldBy(w) \cap S = {}
      BY DEF HeldBy, QueuedFor, Held
    <3>2. Cardinality(HeldBy(w) \cup S) =
            Cardinality(HeldBy(w)) + Cardinality(S) - Cardinality(HeldBy(w) \cap S)
      BY <2>2, HeldFinite, FS_Union
    <3>3. Cardinality(HeldBy(w) \cap S) = 0
      BY <3>1, FS_EmptySet
    <3>4. Cardinality(HeldBy(w)') = Cardinality(HeldBy(w) \cup S)
      BY <2>3
    <3> QED BY <2>2, <3>2, <3>3, <3>4, HeldFinite
  <2>6. Cardinality(HeldBy(w)) + Cardinality(S) <= Capacity[w]
    <3>1. limit \in Int /\ Capacity[w] \in Int
      BY ConstantAssumption
    <3> QED BY <2>1, <2>2, <3>1, HeldFinite DEF Smaller
  <2>7. Cardinality(HeldBy(w)') \in Nat
    BY <2>2, <2>3, HeldFinite, FS_Union, FS_CardinalityType
  <2>8. Cardinality(HeldBy(w)') <= Capacity[w]
    BY <2>2, <2>5, <2>6, <2>7, HeldFinite, ConstantAssumption
  <2> QED BY <1>1, <2>4, <2>8 DEF CapacityRespected
<1>6. ASSUME NEW at \in Readings, NEW w \in Workspace, NEW S \in SUBSET Event,
             Heartbeat(w, S, at)
      PROVE  CapacityRespected'
  <2>1. \A v \in Workspace : HeldBy(v)' \subseteq HeldBy(v)
    BY <1>1, <1>6, HeartbeatEffect DEF HeldBy
  <2> QED BY <1>1, <2>1, HeldShrinks
<1>7. ASSUME NEW at \in Readings, NEW w \in Workspace, NEW e \in Event,
             NEW g \in 1..jobs[e].generation, NEW r \in Run,
             NEW session \in BOOLEAN, MarkStarted(w, e, g, r, session, at)
      PROVE  CapacityRespected'
  <2>1. jobs[e].state = "leased"
    BY <1>7 DEF MarkStarted
  <2>2. \A v \in Workspace : HeldBy(v)' \subseteq HeldBy(v)
    BY <1>1, <1>7, <2>1, StartEffect DEF HeldBy, Held
  <2> QED BY <1>1, <2>2, HeldShrinks
<1>8. ASSUME NEW w \in Workspace, NEW e \in Event,
             NEW g \in 1..jobs[e].generation, NEW at,
             \/ \E result \in Terminal : CompleteJob(w, e, g, result, at)
             \/ FailUnstarted(w, e, g, at)
      PROVE  CapacityRespected'
  <2>1. \A v \in Workspace : HeldBy(v)' \subseteq HeldBy(v)
    BY <1>1, <1>8, CompleteEffect, FailEffect DEF HeldBy, Held, Terminal
  <2> QED BY <1>1, <2>1, HeldShrinks
<1>20. ASSUME NEW at \in Readings, NEW w \in Workspace, NEW e \in Event,
              NEW g \in 1..jobs[e].generation, Request(w, e, g, at)
       PROVE  CapacityRespected'
  BY <1>20, <1>2, <1>7, <1>8
  DEF Request, UpgradeSession
<1> QED
  BY <1>2, <1>3, <1>4, <1>5, <1>6, <1>20
  DEF Next, Tick, SetEnabled, RecordEvent, RecordTerminal,
      UpsertConversation, vars

\* StatusTracksCurrentJob, one conversation at a time.
StatusRight(c) ==
    LET job == conversations[c].current
        status == conversations[c].status
    IN  IF job = None
        THEN status \in {"absent", "idle"}
        ELSE CASE jobs[job].state \in {"queued", "leased"} -> status = "queued"
               [] jobs[job].state = "running" -> status = "working"
               [] OTHER -> jobs[job].state \in Terminal
                           /\ status \in {"finishing", "settled"}

LEMMA StatusStep == StoreInvariant /\ [Next]_vars => StatusTracksCurrentJob'
<1> SUFFICES ASSUME StoreInvariant, [Next]_vars, NEW c \in Conversation
             PROVE  StatusRight(c)'
    BY DEF StatusTracksCurrentJob, StatusRight
<1>1. TypeOK /\ RowsLinked /\ OutcomeShape /\ StatusRight(c)
  BY DEF StoreInvariant, StatusTracksCurrentJob, StatusRight
<1>2. conversations[c].current \in Event \cup {None}
  BY <1>1 DEF TypeOK, ConversationRow
<1>3. ASSUME conversations'[c].current = conversations[c].current,
             conversations'[c].status = conversations[c].status,
             conversations[c].current # None =>
               \/ jobs'[conversations[c].current].state
                    = jobs[conversations[c].current].state
               \/ /\ jobs[conversations[c].current].state \in {"queued", "leased"}
                  /\ jobs'[conversations[c].current].state \in {"queued", "leased"}
      PROVE  StatusRight(c)'
  BY <1>1, <1>2, <1>3 DEF StatusRight, Terminal
<1>4. CASE UNCHANGED <<conversations, jobs>>
  BY <1>3, <1>4
<1>5. ASSUME NEW e \in Event, RecordTerminal(e)
      PROVE  StatusRight(c)'
  <2>1. jobs[e].state \in Terminal
    BY <1>1, <1>5 DEF RecordTerminal, OutcomeShape
  <2>2. CASE c = ConversationOf[e]
    <3>1. /\ conversations[c].current = e
          /\ conversations[c] \in ConversationRow
          /\ conversations'[c] = [conversations[c] EXCEPT !.status = "settled"]
          /\ UNCHANGED jobs
      BY <1>1, <1>5, <2>2 DEF RecordTerminal, TypeOK
    <3>2. /\ conversations'[c].current = e
          /\ conversations'[c].status = "settled"
      BY <3>1 DEF ConversationRow
    <3> QED BY <2>1, <3>1, <3>2, ConstantAssumption DEF StatusRight, Terminal
  <2>3. CASE c # ConversationOf[e]
    BY <1>1, <1>3, <1>5, <2>3 DEF RecordTerminal, TypeOK
  <2> QED BY <2>2, <2>3
<1>6. ASSUME NEW d \in Conversation, NEW w \in Workspace,
             UpsertConversation(d, w)
      PROVE  StatusRight(c)'
  <2>1. UNCHANGED jobs
    BY <1>6 DEF UpsertConversation
  <2>2. CASE c = d
    <3>1. conversations'[c] = [conversations[c] EXCEPT !.workspace = w,
             !.status = IF conversations[c].status = "absent"
                        THEN "idle" ELSE conversations[c].status]
      BY <1>1, <1>6, <2>2 DEF UpsertConversation, TypeOK
    <3>2. conversations[c] \in ConversationRow
      BY <1>1 DEF TypeOK
    <3>3. /\ conversations'[c].current = conversations[c].current
          /\ conversations'[c].status = IF conversations[c].status = "absent"
                                        THEN "idle" ELSE conversations[c].status
      BY <3>1, <3>2 DEF ConversationRow
    <3> QED BY <1>1, <2>1, <3>3 DEF StatusRight
  <2>3. CASE c # d
    BY <1>1, <1>3, <1>6, <2>1, <2>3 DEF UpsertConversation, TypeOK
  <2> QED BY <2>2, <2>3
<1>7. ASSUME NEW at \in Readings, ReapExpired(at)
      PROVE  StatusRight(c)'
  <2>1. conversations' = WithStatus(Lost(at), "finishing")
    BY <1>7 DEF ReapExpired
  <2>2. CASE conversations[c].current \in Lost(at)
    <3>1. conversations[c].current \in Event
      BY <2>2 DEF Lost
    <3> QED BY <1>1, <1>7, <2>1, <2>2, <3>1, ConstantAssumption, ReapEffect,
               WithStatusEffect DEF StatusRight, Terminal
  <2>3. CASE conversations[c].current \notin Lost(at)
    BY <1>1, <1>2, <1>3, <1>7, <2>1, <2>3, ReapEffect, WithStatusEffect
    DEF Requeued
  <2> QED BY <2>2, <2>3
<1>8. ASSUME NEW at \in Readings, NEW e \in Event, RecordDispatchEvent(e, at)
      PROVE  StatusRight(c)'
  <2>1. CASE c = ConversationOf[e]
    BY <1>1, <1>8, <2>1, ConstantAssumption, DispatchConversations, DispatchEffect
    DEF StatusRight
  <2>2. CASE c # ConversationOf[e]
    <3>1. conversations[c].current # e
      BY <1>1, <2>2, ConstantAssumption DEF RowsLinked
    <3> QED BY <1>1, <1>2, <1>3, <1>8, <2>2, <3>1, DispatchConversations,
               DispatchEffect
  <2> QED BY <2>1, <2>2
<1>9. ASSUME NEW at \in Readings, NEW w \in Workspace,
             NEW limit \in 1..Cardinality(Event), ClaimJobs(w, limit, at)
      PROVE  StatusRight(c)'
  <2>1. UNCHANGED conversations
    BY <1>9 DEF ClaimJobs
  <2> QED BY <1>1, <1>2, <1>3, <1>9, <2>1, ClaimEffect DEF QueuedFor
<1>10. ASSUME NEW at \in Readings, NEW w \in Workspace, NEW S \in SUBSET Event,
              Heartbeat(w, S, at)
       PROVE  StatusRight(c)'
  <2>1. UNCHANGED conversations
    BY <1>10 DEF Heartbeat
  <2> QED BY <1>1, <1>2, <1>3, <1>10, <2>1, HeartbeatEffect
<1>11. ASSUME NEW at \in Readings, NEW w \in Workspace, NEW e \in Event,
              NEW g \in 1..jobs[e].generation, NEW r \in Run,
              NEW session \in BOOLEAN, MarkStarted(w, e, g, r, session, at)
       PROVE  StatusRight(c)'
  <2>1. conversations' = WithStatus({e}, "working")
    BY <1>11 DEF MarkStarted
  <2>2. CASE conversations[c].current = e
    BY <1>1, <1>11, <2>1, <2>2, ConstantAssumption, StartEffect,
       WithStatusEffect DEF StatusRight
  <2>3. CASE conversations[c].current # e
    BY <1>1, <1>2, <1>3, <1>11, <2>1, <2>3, StartEffect, WithStatusEffect
  <2> QED BY <2>2, <2>3
<1>12. ASSUME NEW w \in Workspace, NEW e \in Event,
              NEW g \in 1..jobs[e].generation, NEW at,
              \/ \E result \in Terminal : CompleteJob(w, e, g, result, at)
              \/ FailUnstarted(w, e, g, at)
       PROVE  StatusRight(c)'
  <2>1. conversations' = WithStatus({e}, "finishing")
    BY <1>12 DEF CompleteJob, FailUnstarted
  <2>2. /\ jobs'[e].state \in Terminal
        /\ \A f \in Event \ {e} : jobs'[f] = jobs[f]
    BY <1>1, <1>12, CompleteEffect, FailEffect DEF Terminal
  <2>3. CASE conversations[c].current = e
    BY <1>1, <2>1, <2>2, <2>3, ConstantAssumption, WithStatusEffect
    DEF StatusRight, Terminal
  <2>4. CASE conversations[c].current # e
    BY <1>1, <1>2, <1>3, <2>1, <2>2, <2>4, WithStatusEffect
  <2> QED BY <2>3, <2>4
<1>20. ASSUME NEW at \in Readings, NEW w \in Workspace, NEW e \in Event,
              NEW g \in 1..jobs[e].generation, Request(w, e, g, at)
       PROVE  StatusRight(c)'
  BY <1>20, <1>4, <1>11, <1>12
  DEF Request, UpgradeSession
<1> QED
  BY <1>4, <1>5, <1>6, <1>7, <1>8, <1>9, <1>10, <1>20
  DEF Next, Tick, SetEnabled, RecordEvent, vars

-----------------------------------------------------------------------------
(* The theorems. *)

LEMMA InitInvariant == Init => StoreInvariant
<1> SUFFICES ASSUME Init PROVE StoreInvariant
    OBVIOUS
<1>1. TypeOK
  BY InitType
<1>2. RowsLinked
  BY ConstantAssumption DEF Init, RowsLinked, NoLease, Held
<1>3. StartedOnce /\ RunAgreesWithJob
  BY DEF Init, StartedOnce, RunAgreesWithJob
<1>4. OutcomeShape
  BY DEF Init, OutcomeShape, TerminalNotices, Terminal
<1>5. CapacityRespected
  <2>1. ASSUME NEW w \in Workspace PROVE HeldBy(w) = {}
    BY DEF Init, HeldBy, Held
  <2> QED BY <2>1, FS_EmptySet, ConstantAssumption DEF CapacityRespected
<1>6. StatusTracksCurrentJob
  BY DEF Init, StatusTracksCurrentJob
<1> QED BY <1>1, <1>2, <1>3, <1>4, <1>5, <1>6 DEF StoreInvariant

\* The invariant of the store, for any number of workspaces, events and runs,
\* any lease length, any clock lag and any callers.
THEOREM Invariance == Spec => []StoreInvariant
<1>1. Init => StoreInvariant
  BY InitInvariant
<1>2. StoreInvariant /\ [Next]_vars => StoreInvariant'
  <2> SUFFICES ASSUME StoreInvariant, [Next]_vars PROVE StoreInvariant'
      OBVIOUS
  <2>1. TypeOK'
    BY NextType DEF StoreInvariant
  <2> QED BY <2>1, RowsLinkedStep, RunsStep, OutcomeStep, CapacityStep,
             StatusStep DEF StoreInvariant, RunsInvariant
<1> QED BY <1>1, <1>2, PTL DEF Spec

\* Every table always holds rows of its schema.
THEOREM TypeCorrect == Spec => []TypeOK
<1>1. StoreInvariant => TypeOK
  BY DEF StoreInvariant
<1> QED BY <1>1, Invariance, PTL

\* Work an agent may have acted on is never handed out again.
THEOREM NeverStartedTwice == Spec => []StartedOnce
<1>1. StoreInvariant => StartedOnce
  BY DEF StoreInvariant
<1> QED BY <1>1, Invariance, PTL

\* The runs table never contradicts the jobs table.
THEOREM RunsAgree == Spec => []RunAgreesWithJob
<1>1. StoreInvariant => RunAgreesWithJob
  BY DEF StoreInvariant
<1> QED BY <1>1, Invariance, PTL

\* Each job that ends is announced once, and only jobs that end are.
THEOREM AnnouncedExactlyOnce == Spec => []OneOutcomePerJob
<1>1. OutcomeShape => OneOutcomePerJob
  <2> SUFFICES ASSUME OutcomeShape, NEW e \in Event
               PROVE  Cardinality(TerminalNotices(e)) =
                        IF jobs[e].state \in Terminal THEN 1 ELSE 0
      BY DEF OneOutcomePerJob
  <2>1. CASE jobs[e].state \in Terminal
    BY <2>1, FS_Singleton DEF OutcomeShape
  <2>2. CASE jobs[e].state \notin Terminal
    BY <2>2, FS_EmptySet DEF OutcomeShape
  <2> QED BY <2>1, <2>2
<1>2. StoreInvariant => OneOutcomePerJob
  BY <1>1 DEF StoreInvariant
<1> QED BY <1>2, Invariance, PTL

\* No workspace is ever given more work than its capacity.
THEOREM WithinCapacity == Spec => []CapacityRespected
<1>1. StoreInvariant => CapacityRespected
  BY DEF StoreInvariant
<1> QED BY <1>1, Invariance, PTL

\* A conversation's status always describes its current job.
THEOREM StatusFaithful == Spec => []StatusTracksCurrentJob
<1>1. StoreInvariant => StatusTracksCurrentJob
  BY DEF StoreInvariant
<1> QED BY <1>1, Invariance, PTL

LEMMA FinalStep ==
    StoreInvariant /\ [Next]_vars =>
        \A e \in Event : jobs[e].state \in Terminal => jobs'[e] = jobs[e]
<1> SUFFICES ASSUME StoreInvariant, [Next]_vars, NEW f \in Event,
                    jobs[f].state \in Terminal
             PROVE  jobs'[f] = jobs[f]
    OBVIOUS
<1>1. TypeOK
  BY DEF StoreInvariant
<1>2. CASE UNCHANGED jobs
  BY <1>2
<1>3. ASSUME NEW at \in Readings, ReapExpired(at)
      PROVE  jobs'[f] = jobs[f]
  BY <1>1, <1>3, ReapEffect DEF Lost, Requeued, Terminal
<1>4. ASSUME NEW at \in Readings, NEW e \in Event, RecordDispatchEvent(e, at)
      PROVE  jobs'[f] = jobs[f]
  BY <1>1, <1>4, DispatchEffect DEF Terminal
<1>5. ASSUME NEW at \in Readings, NEW w \in Workspace,
             NEW limit \in 1..Cardinality(Event), ClaimJobs(w, limit, at)
      PROVE  jobs'[f] = jobs[f]
  BY <1>1, <1>5, ClaimEffect DEF QueuedFor, Terminal
<1>6. ASSUME NEW at \in Readings, NEW w \in Workspace, NEW S \in SUBSET Event,
             Heartbeat(w, S, at)
      PROVE  jobs'[f] = jobs[f]
  BY <1>1, <1>6 DEF Heartbeat, Held, Terminal, TypeOK
<1>7. ASSUME NEW w \in Workspace, NEW e \in Event,
             NEW g \in 1..jobs[e].generation, NEW at,
             \/ \E r \in Run, session \in BOOLEAN :
                   MarkStarted(w, e, g, r, session, at)
             \/ \E result \in Terminal : CompleteJob(w, e, g, result, at)
             \/ FailUnstarted(w, e, g, at)
      PROVE  jobs'[f] = jobs[f]
  <2>1. jobs[e].state \in Held
    BY <1>7 DEF MarkStarted, CompleteJob, Completable, FailUnstarted, Held
  <2>2. f # e
    BY <2>1 DEF Held, Terminal
  <2> QED BY <1>1, <1>7, <2>2, StartEffect, CompleteEffect, FailEffect
<1>20. ASSUME NEW at \in Readings, NEW w \in Workspace, NEW e \in Event,
              NEW g \in 1..jobs[e].generation, Request(w, e, g, at)
       PROVE  jobs'[f] = jobs[f]
  BY <1>20, <1>2, <1>7
  DEF Request, UpgradeSession
<1> QED
  BY <1>2, <1>3, <1>4, <1>5, <1>6, <1>20
  DEF Next, Tick, SetEnabled, RecordEvent, RecordTerminal,
      UpsertConversation, vars

\* The row of a job that ended never changes again.
THEOREM EndsAreFinal == Spec => TerminalIsFinal
<1>1. StoreInvariant /\ [Next]_vars =>
        [\A e \in Event : jobs[e].state \in Terminal => jobs'[e] = jobs[e]]_vars
  BY FinalStep
<1> QED BY <1>1, Invariance, PTL DEF Spec, TerminalIsFinal

-----------------------------------------------------------------------------
(* The store implements the lifecycle. *)

\* A step that moves no job between phases, adds no run and announces nothing
\* is invisible.
LEMMA Invisible ==
    ASSUME \A e \in Event : /\ Phase(e)' = Phase(e)
                            /\ RunsOf(e)' = RunsOf(e)
                            /\ TerminalNotices(e)' = TerminalNotices(e)
    PROVE  UNCHANGED Lifecycle!lifecycleVars
BY DEF Lifecycle!lifecycleVars

\* The jobs of S end in one step, each with its first terminal notice.
LEMMA Ending ==
    ASSUME NEW S \in SUBSET Event,
           \A e \in Event : /\ RunsOf(e)' = RunsOf(e)
                            /\ e \notin S => /\ Phase(e)' = Phase(e)
                                             /\ TerminalNotices(e)' = TerminalNotices(e)
                            /\ e \in S => /\ Phase(e) \in {"waiting", "started"}
                                          /\ Phase(e)' = "ended"
                                          /\ TerminalNotices(e) = {}
                                          /\ \E n : TerminalNotices(e)' = {n}
    PROVE  Lifecycle!End(S)
<1>1. \A e \in S : Cardinality(TerminalNotices(e)) = 0
                   /\ Cardinality(TerminalNotices(e)') = 1
  BY FS_EmptySet, FS_Singleton
<1>2. [e \in Event |-> Phase(e)'] =
        [e \in Event |-> IF e \in S THEN "ended"
                        ELSE [f \in Event |-> Phase(f)][e]]
  OBVIOUS
<1>3. [e \in Event |-> Cardinality(TerminalNotices(e)')] =
        [e \in Event |-> IF e \in S
           THEN [f \in Event |-> Cardinality(TerminalNotices(f))][e] + 1
           ELSE [f \in Event |-> Cardinality(TerminalNotices(f))][e]]
  BY <1>1
<1> QED BY <1>2, <1>3 DEF Lifecycle!End

LEMMA LifecycleStep ==
    StoreInvariant /\ StoreInvariant' /\ [Next]_vars =>
        [Lifecycle!Next]_(Lifecycle!lifecycleVars)
<1> SUFFICES ASSUME StoreInvariant, StoreInvariant', [Next]_vars
             PROVE  Lifecycle!Next \/ UNCHANGED Lifecycle!lifecycleVars
    OBVIOUS
<1>1. /\ TypeOK /\ RowsLinked /\ StartedOnce /\ OutcomeShape
      /\ OutcomeShape'
  BY DEF StoreInvariant
<1>2. CASE UNCHANGED <<jobs, runs, outbox>>
  BY <1>2, Invisible DEF Phase, RunsOf, TerminalNotices
<1>3. ASSUME NEW at \in Readings, ReapExpired(at)
      PROVE  Lifecycle!Next
  <2>1. \A e \in Event : RunsOf(e)' = RunsOf(e)
    BY <1>1, <1>3, ReapRuns DEF RunsOf
  <2>2. ASSUME NEW e \in Event, e \notin Lost(at)
        PROVE  /\ Phase(e)' = Phase(e)
               /\ TerminalNotices(e)' = TerminalNotices(e)
    <3>1. outbox' = outbox \cup {LostNotice(f) : f \in Lost(at)}
      BY <1>3 DEF ReapExpired
    <3>2. TerminalNotices(e)' = TerminalNotices(e)
      BY <2>2, <3>1 DEF TerminalNotices, LostNotice
    <3>3. \/ jobs'[e] = jobs[e]
          \/ jobs[e].state = "leased" /\ jobs'[e].state = "queued"
      BY <1>1, <1>3, <2>2, ReapEffect DEF Requeued
    <3> QED BY <3>2, <3>3 DEF Phase
  <2>3. ASSUME NEW e \in Event, e \in Lost(at)
        PROVE  /\ Phase(e) = "started"
               /\ Phase(e)' = "ended"
               /\ TerminalNotices(e) = {}
               /\ \E n : TerminalNotices(e)' = {n}
    <3>1. jobs[e].state = "running" /\ jobs'[e].state = "failed"
      BY <1>1, <1>3, <2>3, ReapEffect DEF Lost
    <3> QED BY <1>1, <3>1 DEF Phase, OutcomeShape, Terminal
  <2>4. Lost(at) \in SUBSET Event
    BY DEF Lost
  <2>5. Lifecycle!End(Lost(at))
    BY <2>1, <2>2, <2>3, <2>4, Ending
  <2> QED BY <2>4, <2>5 DEF Lifecycle!Next
<1>4. ASSUME NEW at \in Readings, NEW e \in Event, RecordDispatchEvent(e, at)
      PROVE  Lifecycle!Next
  <2>1. UNCHANGED <<runs, outbox>>
    BY <1>4 DEF RecordDispatchEvent
  <2>2. /\ Phase(e) = "none" /\ Phase(e)' = "waiting"
        /\ \A f \in Event \ {e} : Phase(f)' = Phase(f)
    BY <1>1, <1>4, DispatchEffect DEF Phase
  <2>3. [f \in Event |-> Phase(f)'] =
          [[f \in Event |-> Phase(f)] EXCEPT ![e] = "waiting"]
    BY <2>2
  <2>4. Lifecycle!Accept(e)
    BY <2>1, <2>2, <2>3 DEF Lifecycle!Accept, RunsOf, TerminalNotices
  <2> QED BY <2>4 DEF Lifecycle!Next
<1>5. ASSUME NEW at \in Readings, NEW w \in Workspace,
             NEW limit \in 1..Cardinality(Event), ClaimJobs(w, limit, at)
      PROVE  UNCHANGED Lifecycle!lifecycleVars
  <2>1. UNCHANGED <<runs, outbox>>
    BY <1>5 DEF ClaimJobs
  <2>2. \A e \in Event : Phase(e)' = Phase(e)
    BY <1>1, <1>5, ClaimEffect DEF Phase, QueuedFor
  <2> QED BY <2>1, <2>2, Invisible DEF RunsOf, TerminalNotices
<1>6. ASSUME NEW at \in Readings, NEW w \in Workspace, NEW S \in SUBSET Event,
             Heartbeat(w, S, at)
      PROVE  UNCHANGED Lifecycle!lifecycleVars
  <2>1. UNCHANGED <<runs, outbox>>
    BY <1>6 DEF Heartbeat
  <2>2. \A e \in Event : Phase(e)' = Phase(e)
    BY <1>1, <1>6, HeartbeatEffect DEF Phase
  <2> QED BY <2>1, <2>2, Invisible DEF RunsOf, TerminalNotices
<1>7. ASSUME NEW at \in Readings, NEW w \in Workspace, NEW e \in Event,
             NEW g \in 1..jobs[e].generation, NEW r \in Run,
             NEW session \in BOOLEAN, MarkStarted(w, e, g, r, session, at)
      PROVE  Lifecycle!Next
  <2>1. \A f \in Event : TerminalNotices(f)' = TerminalNotices(f)
    BY <1>7 DEF MarkStarted, TerminalNotices, StartedNotice
  <2>2. jobs[e].state = "leased" /\ runs[r].state = "absent"
    BY <1>7 DEF MarkStarted
  <2>3. /\ Phase(e) = "waiting" /\ Phase(e)' = "started"
        /\ \A f \in Event \ {e} : Phase(f)' = Phase(f)
    BY <1>1, <1>7, <2>2, StartEffect DEF Phase
  <2>4. [f \in Event |-> Phase(f)'] =
          [[f \in Event |-> Phase(f)] EXCEPT ![e] = "started"]
    BY <2>3
  <2>5. RunsOf(e) = {}
    BY <1>1, <2>2, ConstantAssumption DEF RunsOf, StartedOnce, Terminal
  <2>6. runs[r].job = None
    BY <1>1, <2>2 DEF RowsLinked
  <2>7. RunsOf(e)' = {r}
    BY <1>1, <1>7, <2>5, StartRuns DEF RunsOf
  <2>8. \A f \in Event \ {e} : RunsOf(f)' = RunsOf(f)
    BY <1>1, <1>7, <2>6, StartRuns, ConstantAssumption DEF RunsOf
  <2>9. Cardinality(RunsOf(e)) = 0 /\ Cardinality(RunsOf(e)') = 1
    BY <2>5, <2>7, FS_EmptySet, FS_Singleton
  <2>10. [f \in Event |-> Cardinality(RunsOf(f)')] =
           [[f \in Event |-> Cardinality(RunsOf(f))] EXCEPT ![e] = @ + 1]
    <3>1. \A f \in Event : Cardinality(RunsOf(f)') =
             IF f = e THEN Cardinality(RunsOf(f)) + 1 ELSE Cardinality(RunsOf(f))
      BY <2>8, <2>9
    <3> QED BY <3>1, Zenon
  <2>11. Lifecycle!Start(e)
    BY <2>1, <2>3, <2>4, <2>10 DEF Lifecycle!Start
  <2> QED BY <2>11 DEF Lifecycle!Next
<1>8. ASSUME NEW w \in Workspace, NEW e \in Event,
             NEW g \in 1..jobs[e].generation, NEW r \in Run,
             UpgradeSession(w, e, g, r)
      PROVE  UNCHANGED Lifecycle!lifecycleVars
  <2>1. UNCHANGED <<jobs, outbox>>
    BY <1>8 DEF UpgradeSession
  <2>2. \A f \in Event : RunsOf(f)' = RunsOf(f)
    BY <1>1, <1>8, UpgradeRuns DEF RunsOf
  <2> QED BY <2>1, <2>2, Invisible DEF Phase, TerminalNotices
<1>9. ASSUME NEW w \in Workspace, NEW e \in Event,
             NEW g \in 1..jobs[e].generation, NEW at,
             \/ \E result \in Terminal : CompleteJob(w, e, g, result, at)
             \/ FailUnstarted(w, e, g, at)
      PROVE  Lifecycle!Next
  <2>1. \A f \in Event : RunsOf(f)' = RunsOf(f)
    BY <1>1, <1>9, CompleteRuns DEF RunsOf, FailUnstarted
  <2>2. /\ outbox' = outbox \cup {CompletedNotice(e, g)}
        /\ jobs[e].state \in Held
    BY <1>9 DEF CompleteJob, Completable, FailUnstarted, Held
  <2>3. /\ jobs'[e].state \in Terminal
        /\ \A f \in Event \ {e} : jobs'[f] = jobs[f]
    BY <1>1, <1>9, CompleteEffect, FailEffect DEF Terminal
  <2>4. \A f \in Event \ {e} : /\ Phase(f)' = Phase(f)
                               /\ TerminalNotices(f)' = TerminalNotices(f)
    BY <2>2, <2>3 DEF Phase, TerminalNotices, CompletedNotice
  <2>5. /\ Phase(e) \in {"waiting", "started"}
        /\ Phase(e)' = "ended"
    BY <2>2, <2>3 DEF Phase, Held, Terminal
  <2>6. TerminalNotices(e) = {} /\ \E n : TerminalNotices(e)' = {n}
    BY <1>1, <2>2, <2>3 DEF OutcomeShape, Held, Terminal
  <2>7. Lifecycle!End({e})
    BY <2>1, <2>4, <2>5, <2>6, Ending
  <2> QED BY <2>7 DEF Lifecycle!Next
<1>20. ASSUME NEW at \in Readings, NEW w \in Workspace, NEW e \in Event,
              NEW g \in 1..jobs[e].generation, Request(w, e, g, at)
       PROVE  Lifecycle!Next \/ UNCHANGED Lifecycle!lifecycleVars
  BY <1>20, <1>7, <1>8, <1>9
  DEF Request
<1> QED
  BY <1>2, <1>3, <1>4, <1>5, <1>6, <1>20
  DEF Next, Tick, SetEnabled, RecordEvent, RecordTerminal,
      UpsertConversation, vars

\* Whatever the runners send and whenever leases expire, the store behaves as
\* the lifecycle allows: one start and one announced end per event.
THEOREM Implementation == Spec => ImplementsLifecycle
<1>1. Init => Lifecycle!Init
  <2> SUFFICES ASSUME Init PROVE Lifecycle!Init
      OBVIOUS
  <2>1. \A e \in Event : /\ Phase(e) = "none"
                         /\ RunsOf(e) = {}
                         /\ TerminalNotices(e) = {}
    BY ConstantAssumption DEF Init, Phase, RunsOf, TerminalNotices
  <2>2. \A e \in Event : /\ Cardinality(RunsOf(e)) = 0
                         /\ Cardinality(TerminalNotices(e)) = 0
    BY <2>1, FS_EmptySet
  <2> QED BY <2>1, <2>2, Zenon DEF Lifecycle!Init
<1>2. StoreInvariant /\ StoreInvariant' /\ [Next]_vars =>
        [Lifecycle!Next]_(Lifecycle!lifecycleVars)
  BY LifecycleStep
<1> QED BY <1>1, <1>2, Invariance, PTL
     DEF Spec, ImplementsLifecycle, Lifecycle!Spec
=============================================================================
