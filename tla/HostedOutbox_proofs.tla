-------------------------- MODULE HostedOutbox_proofs --------------------------
(***************************************************************************)
(* What the publisher leaves on GitLab and in the database, for any number *)
(* of jobs, rejections, added labels, failed calls and restarts.           *)
(***************************************************************************)
EXTENDS HostedOutbox, TLAPS, SequenceTheorems, WellFoundedInduction

-----------------------------------------------------------------------------
(* The inductive invariant *)

\* A row is written by what it tells of, in the transaction that does it.
RowsAreCaused ==
    \A i \in DOMAIN outbox :
        /\ outbox[i].kind = "job-started" =>
             /\ outbox[i].job \in DOMAIN jobs
             /\ jobs[outbox[i].job] # "queued"
        /\ outbox[i].kind = "job-ended" =>
             /\ outbox[i].job \in DOMAIN jobs
             /\ jobs[outbox[i].job] \in Ended
        /\ outbox[i].kind = "dispatch-rejected" => outbox[i].job <= Current

\* The row that tells what the current job has come to.
TellsCurrent(i) ==
    /\ jobs # <<>> /\ outbox[i].job = Current
    /\ outbox[i].kind = IF jobs[Current] = "running" THEN "job-started" ELSE "job-ended"

CurrentIsTold ==
    jobs # <<>> /\ jobs[Current] # "queued" =>
        \E i \in DOMAIN outbox : TellsCurrent(i)

\* Only a job that ended is settled, and its note came first.
SettlingIsNoted ==
    /\ pc = "settle" => Row.kind = "job-ended"
    /\ pc \in {"label", "settle"} /\ Row.kind = "job-ended" => notes[Item] = 1
    /\ status \in Settled => jobs # <<>>
    /\ pc = "label" /\ Row.kind = "dispatch-rejected" => Row.setFailed

\* A row whose label is about to be set may have fallen behind, but then
\* whatever tells of the current job comes after it.
NothingToldAfterIt ==
    pc \in {"note", "label"} =>
        \/ TellsCurrent(Item)
        \/ Row.kind = "dispatch-rejected" /\ Row.job >= Current
        \/ \A i \in DOMAIN outbox : TellsCurrent(i) => outbox[i].state # "delivered"

\* What the board may show once the current job has been told.
Shown ==
    \/ label = IF jobs[Current] = "running" THEN "working"
               ELSE TerminalLabel(jobs[Current])
    \/ label = "failed" /\ RejectedSince(Current)
    \/ label = "ready" /\ triggers > 0

ToldIsShown ==
    \A i \in DOMAIN outbox :
        /\ TellsCurrent(i)
        /\ \/ outbox[i].state = "delivered"
           \/ pc \in {"settle", "delivered"} /\ i = Item
        => Shown

IInv ==
    /\ TypeOK
    /\ RowsAreCaused
    /\ CurrentIsTold
    /\ OneNotePerRow
    /\ SettlingIsNoted
    /\ SettledWithItsNote
    /\ NothingToldAfterIt
    /\ ToldIsShown

-----------------------------------------------------------------------------
(* The rows and the jobs *)

RowState == {"pending", "delivering", "delivered", "backing-off"}

\* The numbers are well-founded.
LEMMA LeastNumber ==
    ASSUME NEW S \in SUBSET Nat, S # {}
    PROVE  \E i \in S : \A k \in S : i <= k
<1>. DEFINE R == OpToRel(<, Nat)
<1>1. \A m, n \in Nat : m < n => <<m, n>> \in R
  BY SMT DEF OpToRel
<1>2. IsWellFoundedOn(R, Nat)
  BY NatLessThanWellFounded
<1>. HIDE DEF R
<1>3. PICK i \in S : \A k \in S : ~(<<k, i>> \in R)
  <2>1. \E x \in S : \A y \in S : ~(<<y, x>> \in R)
     BY <1>2, WFMin, Zenon
  <2>. QED BY <2>1
<1>4. ASSUME NEW k \in S PROVE i <= k
  <2>1. ~(k < i)
     BY <1>1, <1>3
  <2>. QED BY <2>1
<1>. QED BY <1>4

\* The publisher works on a row it claimed.
LEMMA ItemIsClaimed ==
    ASSUME TypeOK, pc # "idle"
    PROVE  Item \in batch /\ Item \in DOMAIN outbox
<1>1. batch \in SUBSET Nat /\ batch # {}
  BY DEF TypeOK
<1>2. \E i \in batch : \A k \in batch : i <= k
  BY <1>1, LeastNumber
<1>3. Item \in batch
  BY <1>2 DEF Item, Min
<1>. QED BY <1>3 DEF TypeOK

\* Rows, notes and jobs are numbered from 1.
LEMMA Numbers ==
    ASSUME TypeOK
    PROVE  /\ DOMAIN outbox = 1..Len(outbox) /\ Len(outbox) \in Nat
           /\ DOMAIN notes = DOMAIN outbox
           /\ DOMAIN jobs = 1..Current /\ Current \in Nat
           /\ jobs # <<>> <=> Current >= 1
           /\ \A i \in DOMAIN outbox : outbox[i] \in OutboxRow /\ notes[i] \in Nat
           /\ \A n \in DOMAIN jobs : jobs[n] \in Active \cup Ended
<1>1. /\ outbox \in Seq(OutboxRow) /\ notes \in Seq(Nat) /\ Len(notes) = Len(outbox)
      /\ jobs \in Seq(Active \cup Ended)
  BY DEF TypeOK
<1>. QED BY <1>1, LenProperties, ElementOfSeq, EmptySeq DEF Current

\* Marking a row changes its state only.
LEMMA SetRowEffect ==
    ASSUME TypeOK, NEW i \in DOMAIN outbox, NEW state \in RowState, SetRow(i, state)
    PROVE  /\ outbox' \in Seq(OutboxRow) /\ Len(outbox') = Len(outbox)
           /\ DOMAIN outbox' = DOMAIN outbox
           /\ \A k \in DOMAIN outbox :
                /\ outbox'[k].kind = outbox[k].kind
                /\ outbox'[k].job = outbox[k].job
                /\ outbox'[k].setFailed = outbox[k].setFailed
                /\ outbox'[k].state = IF k = i THEN state ELSE outbox[k].state
<1>. DEFINE row == [outbox[i] EXCEPT !.state = state]
<1>1. outbox \in Seq(OutboxRow) /\ i \in 1..Len(outbox) /\ outbox[i] \in OutboxRow
  BY Numbers DEF TypeOK
<1>2. row \in OutboxRow
  BY <1>1 DEF OutboxRow, RowState
<1>3. outbox' = [outbox EXCEPT ![i] = row]
  BY DEF SetRow
<1>4. /\ row.kind = outbox[i].kind /\ row.job = outbox[i].job
      /\ row.setFailed = outbox[i].setFailed /\ row.state = state
  BY <1>1 DEF OutboxRow
<1>. HIDE DEF row
<1>5. /\ outbox' \in Seq(OutboxRow) /\ Len(outbox') = Len(outbox)
      /\ \A k \in 1..Len(outbox) : outbox'[k] = IF k = i THEN row ELSE outbox[k]
  BY <1>1, <1>2, <1>3, ExceptSeq
<1>. QED BY <1>4, <1>5, Numbers, LenProperties

\* A new row comes last, without a note.
LEMMA InsertEffect ==
    ASSUME TypeOK, NEW row \in OutboxRow, Insert(row)
    PROVE  LET new == Len(outbox) + 1 IN
           /\ outbox' \in Seq(OutboxRow) /\ notes' \in Seq(Nat)
           /\ Len(outbox') = new /\ Len(notes') = new
           /\ DOMAIN outbox' = DOMAIN outbox \cup {new} /\ new \notin DOMAIN outbox
           /\ DOMAIN notes' = DOMAIN outbox'
           /\ \A i \in DOMAIN outbox : outbox'[i] = outbox[i] /\ notes'[i] = notes[i]
           /\ outbox'[new] = row /\ notes'[new] = 0
<1>1. outbox \in Seq(OutboxRow) /\ notes \in Seq(Nat) /\ Len(notes) = Len(outbox)
  BY DEF TypeOK
<1>2. outbox' = Append(outbox, row) /\ notes' = Append(notes, 0)
  BY DEF Insert
<1>3. /\ outbox' \in Seq(OutboxRow) /\ Len(outbox') = Len(outbox) + 1
      /\ \A i \in 1..Len(outbox) : outbox'[i] = outbox[i]
      /\ outbox'[Len(outbox) + 1] = row
  BY <1>1, <1>2, AppendProperties
<1>4. /\ notes' \in Seq(Nat) /\ Len(notes') = Len(notes) + 1
      /\ \A i \in 1..Len(notes) : notes'[i] = notes[i]
      /\ notes'[Len(notes) + 1] = 0
  BY <1>1, <1>2, AppendProperties
<1>5. DOMAIN outbox' = 1..(Len(outbox) + 1) /\ DOMAIN notes' = 1..(Len(outbox) + 1)
  BY <1>1, <1>3, <1>4, LenProperties
<1>. QED BY <1>1, <1>3, <1>4, <1>5, Numbers

\* Only the current job starts and ends.
LEMMA JobEffect ==
    ASSUME TypeOK, jobs # <<>>, NEW state \in Active \cup Ended,
           jobs' = [jobs EXCEPT ![Current] = state]
    PROVE  /\ jobs' \in Seq(Active \cup Ended) /\ Current' = Current /\ jobs' # <<>>
           /\ DOMAIN jobs' = DOMAIN jobs
           /\ \A n \in DOMAIN jobs : jobs'[n] = IF n = Current THEN state ELSE jobs[n]
<1>1. jobs \in Seq(Active \cup Ended) /\ Current \in 1..Len(jobs)
  BY Numbers DEF TypeOK, Current
<1>2. /\ jobs' \in Seq(Active \cup Ended) /\ Len(jobs') = Len(jobs)
      /\ \A n \in 1..Len(jobs) : jobs'[n] = IF n = Current THEN state ELSE jobs[n]
  BY <1>1, ExceptSeq
<1>. QED BY <1>1, <1>2, Numbers, LenProperties, EmptySeq DEF Current

\* A dispatched job is the current one.
LEMMA DispatchEffect ==
    ASSUME TypeOK, Dispatch
    PROVE  /\ jobs' \in Seq(Active \cup Ended) /\ Current' = Current + 1
           /\ jobs' # <<>> /\ DOMAIN jobs' = 1..(Current + 1)
           /\ \A n \in DOMAIN jobs : jobs'[n] = jobs[n]
           /\ jobs'[Current'] = "queued"
<1>1. jobs \in Seq(Active \cup Ended) /\ "queued" \in Active \cup Ended
  BY DEF TypeOK, Active
<1>2. jobs' = Append(jobs, "queued")
  BY DEF Dispatch
<1>. QED BY <1>1, <1>2, Numbers, AppendProperties, LenProperties DEF Current

\* A row that is to have a note has one, and no other row gets one.
LEMMA NotesEffect ==
    ASSUME TypeOK, NEW i \in DOMAIN outbox, notes' = [notes EXCEPT ![i] = NotesEnsured(i)]
    PROVE  /\ notes' \in Seq(Nat) /\ Len(notes') = Len(notes)
           /\ DOMAIN notes' = DOMAIN notes
           /\ \A k \in DOMAIN notes : k # i => notes'[k] = notes[k]
           /\ notes'[i] = IF notes[i] = 0 THEN 1 ELSE notes[i]
<1>1. notes \in Seq(Nat) /\ i \in 1..Len(notes) /\ NotesEnsured(i) \in Nat
  BY Numbers DEF TypeOK, NotesEnsured
<1>2. /\ notes' \in Seq(Nat) /\ Len(notes') = Len(notes)
      /\ \A k \in 1..Len(notes) : notes'[k] = IF k = i THEN NotesEnsured(i) ELSE notes[k]
  BY <1>1, ExceptSeq
<1>. QED BY <1>1, <1>2, LenProperties DEF NotesEnsured

-----------------------------------------------------------------------------
(* Every step keeps the invariant *)

\* A start is told by the row it writes.
LEMMA StartKeeps ==
    ASSUME IInv, Start
    PROVE  IInv'
<1>1. /\ TypeOK /\ RowsAreCaused /\ CurrentIsTold /\ OneNotePerRow
      /\ SettlingIsNoted /\ SettledWithItsNote /\ NothingToldAfterIt /\ ToldIsShown
  BY DEF IInv
<1>2. /\ DOMAIN outbox = 1..Len(outbox) /\ Len(outbox) \in Nat
      /\ DOMAIN notes = DOMAIN outbox
      /\ DOMAIN jobs = 1..Current /\ Current \in Nat
      /\ jobs # <<>> <=> Current >= 1
      /\ \A i \in DOMAIN outbox : outbox[i] \in OutboxRow /\ notes[i] \in Nat
      /\ \A n \in DOMAIN jobs : jobs[n] \in Active \cup Ended
  BY <1>1, Numbers
<1>3. pc # "idle" => Item \in DOMAIN outbox /\ Item \in batch
  BY <1>1, ItemIsClaimed
<1>4. NewRow("job-started", Current, FALSE) \in OutboxRow
  BY <1>2 DEF NewRow, OutboxRow
<1>5. PICK new \in Nat :
      /\ outbox' \in Seq(OutboxRow) /\ notes' \in Seq(Nat)
      /\ Len(outbox') = new /\ Len(notes') = new
      /\ DOMAIN outbox' = DOMAIN outbox \cup {new} /\ new \notin DOMAIN outbox
      /\ DOMAIN notes' = DOMAIN outbox'
      /\ \A i \in DOMAIN outbox : outbox'[i] = outbox[i] /\ notes'[i] = notes[i]
      /\ outbox'[new].kind = "job-started" /\ outbox'[new].job = Current
      /\ outbox'[new].setFailed = FALSE /\ outbox'[new].state = "pending"
      /\ notes'[new] = 0
  <2>. DEFINE row == NewRow("job-started", Current, FALSE)
  <2>1. /\ row.kind = "job-started" /\ row.job = Current
        /\ row.setFailed = FALSE /\ row.state = "pending"
    BY DEF NewRow
  <2>2. Insert(row)
    BY DEF Start
  <2>. DEFINE new == Len(outbox) + 1
  <2>. HIDE DEF row
  <2>3. /\ outbox' \in Seq(OutboxRow) /\ notes' \in Seq(Nat)
        /\ Len(outbox') = new /\ Len(notes') = new
        /\ DOMAIN outbox' = DOMAIN outbox \cup {new} /\ new \notin DOMAIN outbox
        /\ DOMAIN notes' = DOMAIN outbox'
        /\ \A i \in DOMAIN outbox : outbox'[i] = outbox[i] /\ notes'[i] = notes[i]
        /\ outbox'[new] = row /\ notes'[new] = 0
    BY <1>1, <1>4, <2>2, InsertEffect DEF row
  <2>4. new \in Nat
    BY <1>2
  <2>. HIDE DEF new
  <2>. QED BY <2>1, <2>3, <2>4
<1>6. pc # "idle" => Item' = Item /\ Row' = Row /\ notes'[Item] = notes[Item]
  BY <1>3, <1>5 DEF Start, Row, Item, publisher
<1>7. /\ jobs' \in Seq(Active \cup Ended) /\ Current' = Current /\ jobs' # <<>>
      /\ DOMAIN jobs' = DOMAIN jobs
      /\ \A n \in DOMAIN jobs : jobs'[n] = IF n = Current THEN "running" ELSE jobs[n]
  BY <1>1, JobEffect DEF Start, Active
<1>8. /\ status' = "working" /\ UNCHANGED <<label, trigger, publisher, bounds>>
      /\ jobs # <<>> /\ jobs[Current] = "queued"
  BY DEF Start
<1>9. \A i \in DOMAIN outbox' : TellsCurrent(i)' <=> i = new
  <2>1. TellsCurrent(new)'
    BY <1>5, <1>7, <1>8, <1>2 DEF TellsCurrent, Ended
  <2>2. \A i \in DOMAIN outbox : ~TellsCurrent(i)'
    BY <1>1, <1>5, <1>7, <1>8 DEF TellsCurrent, RowsAreCaused
  <2>. QED BY <1>5, <2>1, <2>2
<1>10. {rejections, triggers, failures, crashes}' \subseteq Nat
  BY <1>1 DEF TypeOK, Start, bounds
<1>11. TypeOK'
  BY <1>1, <1>2, <1>5, <1>7, <1>8, <1>10 DEF TypeOK, publisher
<1>12. RowsAreCaused'
  <2>1. ASSUME NEW i \in DOMAIN outbox', i \in DOMAIN outbox
        PROVE  /\ outbox'[i].kind = "job-started" =>
                    outbox'[i].job \in DOMAIN jobs' /\ jobs'[outbox'[i].job] # "queued"
               /\ outbox'[i].kind = "job-ended" =>
                    outbox'[i].job \in DOMAIN jobs' /\ jobs'[outbox'[i].job] \in Ended
               /\ outbox'[i].kind = "dispatch-rejected" => outbox'[i].job <= Current'
    <3>1. outbox'[i] = outbox[i]
      BY <1>5, <2>1
    <3>. QED BY <1>1, <1>7, <1>8, <2>1, <3>1 DEF RowsAreCaused, Ended
  <2>2. LET row == outbox'[new] IN
        row.kind = "job-started" /\ row.job \in DOMAIN jobs' /\ jobs'[row.job] # "queued"
    BY <1>2, <1>5, <1>7, <1>8 DEF NewRow
  <2>. QED BY <1>5, <2>1, <2>2 DEF RowsAreCaused
<1>13. CurrentIsTold'
  BY <1>5, <1>9 DEF CurrentIsTold
<1>14. OneNotePerRow'
  BY <1>1, <1>2, <1>5 DEF OneNotePerRow
<1>15. SettlingIsNoted'
  BY <1>1, <1>6, <1>7, <1>8 DEF SettlingIsNoted, publisher
<1>16. SettledWithItsNote'
  BY <1>8 DEF SettledWithItsNote, Settled
<1>17. NothingToldAfterIt'
  BY <1>5, <1>9 DEF NothingToldAfterIt, bounds
<1>18. ToldIsShown'
  BY <1>3, <1>5, <1>6, <1>8, <1>9 DEF ToldIsShown, publisher
<1>. QED BY <1>11, <1>12, <1>13, <1>14, <1>15, <1>16, <1>17, <1>18 DEF IInv

\* So is an end.
LEMMA EndKeeps ==
    ASSUME IInv, End
    PROVE  IInv'
<1>1. /\ TypeOK /\ RowsAreCaused /\ CurrentIsTold /\ OneNotePerRow
      /\ SettlingIsNoted /\ SettledWithItsNote /\ NothingToldAfterIt /\ ToldIsShown
  BY DEF IInv
<1>2. /\ DOMAIN outbox = 1..Len(outbox) /\ Len(outbox) \in Nat
      /\ DOMAIN notes = DOMAIN outbox
      /\ DOMAIN jobs = 1..Current /\ Current \in Nat
      /\ jobs # <<>> <=> Current >= 1
      /\ \A i \in DOMAIN outbox : outbox[i] \in OutboxRow /\ notes[i] \in Nat
      /\ \A n \in DOMAIN jobs : jobs[n] \in Active \cup Ended
  BY <1>1, Numbers
<1>3. pc # "idle" => Item \in DOMAIN outbox /\ Item \in batch
  BY <1>1, ItemIsClaimed
<1>0. PICK ended \in Ended :
        /\ jobs' = [jobs EXCEPT ![Current] = ended]
        /\ jobs # <<>> /\ jobs[Current] \in Active /\ ended \notin Active
  BY DEF End, Ended, Active
<1>4. NewRow("job-ended", Current, FALSE) \in OutboxRow
  BY <1>2 DEF NewRow, OutboxRow
<1>5. PICK new \in Nat :
      /\ outbox' \in Seq(OutboxRow) /\ notes' \in Seq(Nat)
      /\ Len(outbox') = new /\ Len(notes') = new
      /\ DOMAIN outbox' = DOMAIN outbox \cup {new} /\ new \notin DOMAIN outbox
      /\ DOMAIN notes' = DOMAIN outbox'
      /\ \A i \in DOMAIN outbox : outbox'[i] = outbox[i] /\ notes'[i] = notes[i]
      /\ outbox'[new].kind = "job-ended" /\ outbox'[new].job = Current
      /\ outbox'[new].setFailed = FALSE /\ outbox'[new].state = "pending"
      /\ notes'[new] = 0
  <2>. DEFINE row == NewRow("job-ended", Current, FALSE)
  <2>1. /\ row.kind = "job-ended" /\ row.job = Current
        /\ row.setFailed = FALSE /\ row.state = "pending"
    BY DEF NewRow
  <2>2. Insert(row)
    BY DEF End
  <2>. DEFINE new == Len(outbox) + 1
  <2>. HIDE DEF row
  <2>3. /\ outbox' \in Seq(OutboxRow) /\ notes' \in Seq(Nat)
        /\ Len(outbox') = new /\ Len(notes') = new
        /\ DOMAIN outbox' = DOMAIN outbox \cup {new} /\ new \notin DOMAIN outbox
        /\ DOMAIN notes' = DOMAIN outbox'
        /\ \A i \in DOMAIN outbox : outbox'[i] = outbox[i] /\ notes'[i] = notes[i]
        /\ outbox'[new] = row /\ notes'[new] = 0
    BY <1>1, <1>4, <2>2, InsertEffect DEF row
  <2>4. new \in Nat
    BY <1>2
  <2>. HIDE DEF new
  <2>. QED BY <2>1, <2>3, <2>4
<1>6. pc # "idle" => Item' = Item /\ Row' = Row /\ notes'[Item] = notes[Item]
  BY <1>3, <1>5 DEF End, Row, Item, publisher
<1>7. /\ jobs' \in Seq(Active \cup Ended) /\ Current' = Current /\ jobs' # <<>>
      /\ DOMAIN jobs' = DOMAIN jobs
      /\ \A n \in DOMAIN jobs : jobs'[n] = IF n = Current THEN ended ELSE jobs[n]
  BY <1>0, <1>1, JobEffect
<1>8. status' = "finishing" /\ UNCHANGED <<label, trigger, publisher, bounds>>
  BY DEF End
<1>9. \A i \in DOMAIN outbox' : TellsCurrent(i)' <=> i = new
  <2>1. TellsCurrent(new)'
    BY <1>5, <1>7, <1>0 DEF TellsCurrent, Ended
  <2>2. \A i \in DOMAIN outbox : ~TellsCurrent(i)'
    BY <1>1, <1>5, <1>7, <1>8, <1>0 DEF TellsCurrent, RowsAreCaused, Ended, Active
  <2>. QED BY <1>5, <2>1, <2>2
<1>10. {rejections, triggers, failures, crashes}' \subseteq Nat
  BY <1>1 DEF TypeOK, End, bounds
<1>11. TypeOK'
  BY <1>0, <1>1, <1>2, <1>5, <1>7, <1>8, <1>10 DEF TypeOK, Ended, publisher
<1>12. RowsAreCaused'
  BY <1>0, <1>1, <1>5, <1>7 DEF RowsAreCaused, Ended
<1>13. CurrentIsTold'
  BY <1>5, <1>9 DEF CurrentIsTold
<1>14. OneNotePerRow'
  BY <1>1, <1>2, <1>5 DEF OneNotePerRow
<1>15. SettlingIsNoted'
  BY <1>0, <1>1, <1>6, <1>8 DEF SettlingIsNoted, publisher
<1>16. SettledWithItsNote'
  BY <1>8 DEF SettledWithItsNote, Settled
<1>17. NothingToldAfterIt'
  BY <1>5, <1>9 DEF NothingToldAfterIt
<1>18. ToldIsShown'
  BY <1>3, <1>5, <1>6, <1>8, <1>9 DEF ToldIsShown, publisher
<1>. QED BY <1>11, <1>12, <1>13, <1>14, <1>15, <1>16, <1>17, <1>18 DEF IInv

\* A new job is current; nothing tells of it yet.
LEMMA DispatchKeeps ==
    ASSUME IInv, NEW taken \in BOOLEAN, trigger' = taken, Dispatch
    PROVE  IInv'
<1>1. /\ TypeOK /\ RowsAreCaused /\ CurrentIsTold /\ OneNotePerRow
      /\ SettlingIsNoted /\ SettledWithItsNote /\ NothingToldAfterIt /\ ToldIsShown
  BY DEF IInv
<1>2. /\ DOMAIN outbox = 1..Len(outbox) /\ Len(outbox) \in Nat
      /\ DOMAIN notes = DOMAIN outbox
      /\ DOMAIN jobs = 1..Current /\ Current \in Nat
      /\ jobs # <<>> <=> Current >= 1
      /\ \A i \in DOMAIN outbox : outbox[i] \in OutboxRow /\ notes[i] \in Nat
      /\ \A n \in DOMAIN jobs : jobs[n] \in Active \cup Ended
  BY <1>1, Numbers
<1>3. pc # "idle" => Item \in DOMAIN outbox /\ Item \in batch
  BY <1>1, ItemIsClaimed
<1>4. /\ jobs' \in Seq(Active \cup Ended) /\ Current' = Current + 1
      /\ jobs' # <<>> /\ DOMAIN jobs' = 1..(Current + 1)
      /\ \A n \in DOMAIN jobs : jobs'[n] = jobs[n]
      /\ jobs'[Current'] = "queued"
  BY <1>1, DispatchEffect
<1>5. /\ status' = "queued" /\ UNCHANGED <<label, notes, outbox, pc, batch, triggers>>
      /\ Item' = Item
  BY DEF Dispatch, publisher, Item
<1>6. \A i \in DOMAIN outbox : outbox[i].job <= Current /\ ~TellsCurrent(i)'
  BY <1>1, <1>2, <1>4, <1>5 DEF RowsAreCaused, TellsCurrent, OutboxRow
<1>7. {rejections, triggers, failures, crashes}' \subseteq Nat
  BY <1>1 DEF TypeOK, Dispatch
<1>8. TypeOK'
  BY <1>1, <1>4, <1>5, <1>7 DEF TypeOK, Label
<1>9. RowsAreCaused'
  BY <1>1, <1>2, <1>4, <1>5 DEF RowsAreCaused, OutboxRow
<1>10. CurrentIsTold'
  BY <1>4 DEF CurrentIsTold
<1>11. OneNotePerRow'
  BY <1>1, <1>5 DEF OneNotePerRow
<1>12. SettlingIsNoted'
  BY <1>1, <1>4, <1>5 DEF SettlingIsNoted, Row
<1>13. SettledWithItsNote'
  BY <1>5 DEF SettledWithItsNote, Settled
<1>14. NothingToldAfterIt'
  BY <1>5, <1>6 DEF NothingToldAfterIt
<1>15. ToldIsShown'
  BY <1>5, <1>6 DEF ToldIsShown
<1>. QED BY <1>8, <1>9, <1>10, <1>11, <1>12, <1>13, <1>14, <1>15 DEF IInv

\* A rejection changes nothing for the jobs.
LEMMA RejectsKeeps ==
    ASSUME IInv, NEW taken \in BOOLEAN, trigger' = taken, NEW setFailed \in BOOLEAN, Rejects(setFailed)
    PROVE  IInv'
<1>1. /\ TypeOK /\ RowsAreCaused /\ CurrentIsTold /\ OneNotePerRow
      /\ SettlingIsNoted /\ SettledWithItsNote /\ NothingToldAfterIt /\ ToldIsShown
  BY DEF IInv
<1>2. /\ DOMAIN outbox = 1..Len(outbox) /\ Len(outbox) \in Nat
      /\ DOMAIN notes = DOMAIN outbox
      /\ DOMAIN jobs = 1..Current /\ Current \in Nat
      /\ jobs # <<>> <=> Current >= 1
      /\ \A i \in DOMAIN outbox : outbox[i] \in OutboxRow /\ notes[i] \in Nat
      /\ \A n \in DOMAIN jobs : jobs[n] \in Active \cup Ended
  BY <1>1, Numbers
<1>3. pc # "idle" => Item \in DOMAIN outbox /\ Item \in batch
  BY <1>1, ItemIsClaimed
<1>4. NewRow("dispatch-rejected", Current, setFailed) \in OutboxRow
  BY <1>2 DEF NewRow, OutboxRow
<1>5. PICK new \in Nat :
      /\ outbox' \in Seq(OutboxRow) /\ notes' \in Seq(Nat)
      /\ Len(outbox') = new /\ Len(notes') = new
      /\ DOMAIN outbox' = DOMAIN outbox \cup {new} /\ new \notin DOMAIN outbox
      /\ DOMAIN notes' = DOMAIN outbox'
      /\ \A i \in DOMAIN outbox : outbox'[i] = outbox[i] /\ notes'[i] = notes[i]
      /\ outbox'[new].kind = "dispatch-rejected" /\ outbox'[new].job = Current
      /\ outbox'[new].setFailed = setFailed /\ outbox'[new].state = "pending"
      /\ notes'[new] = 0
  <2>. DEFINE row == NewRow("dispatch-rejected", Current, setFailed)
  <2>1. /\ row.kind = "dispatch-rejected" /\ row.job = Current
        /\ row.setFailed = setFailed /\ row.state = "pending"
    BY DEF NewRow
  <2>2. Insert(row)
    BY DEF Rejects
  <2>. DEFINE new == Len(outbox) + 1
  <2>. HIDE DEF row
  <2>3. /\ outbox' \in Seq(OutboxRow) /\ notes' \in Seq(Nat)
        /\ Len(outbox') = new /\ Len(notes') = new
        /\ DOMAIN outbox' = DOMAIN outbox \cup {new} /\ new \notin DOMAIN outbox
        /\ DOMAIN notes' = DOMAIN outbox'
        /\ \A i \in DOMAIN outbox : outbox'[i] = outbox[i] /\ notes'[i] = notes[i]
        /\ outbox'[new] = row /\ notes'[new] = 0
    BY <1>1, <1>4, <2>2, InsertEffect DEF row
  <2>4. new \in Nat
    BY <1>2
  <2>. HIDE DEF new
  <2>. QED BY <2>1, <2>3, <2>4
<1>6. pc # "idle" => Item' = Item /\ Row' = Row /\ notes'[Item] = notes[Item]
  BY <1>3, <1>5 DEF Rejects, Row, Item, publisher
<1>7. UNCHANGED <<label, jobs, status, pc, batch, triggers, Current>>
  BY DEF Rejects, publisher, Current
<1>8. /\ \A i \in DOMAIN outbox : TellsCurrent(i)' <=> TellsCurrent(i)
      /\ ~TellsCurrent(new)'
      /\ Shown => Shown'
  BY <1>5, <1>7 DEF TellsCurrent, Shown, RejectedSince
<1>9. {rejections, triggers, failures, crashes}' \subseteq Nat
  BY <1>1 DEF TypeOK, Rejects
<1>10. TypeOK'
  BY <1>1, <1>3, <1>5, <1>7, <1>9 DEF TypeOK
<1>11. RowsAreCaused'
  BY <1>1, <1>2, <1>5, <1>7 DEF RowsAreCaused
<1>12. CurrentIsTold'
  BY <1>1, <1>5, <1>7, <1>8 DEF CurrentIsTold
<1>13. OneNotePerRow'
  BY <1>1, <1>2, <1>5 DEF OneNotePerRow
<1>14. SettlingIsNoted'
  BY <1>1, <1>6, <1>7 DEF SettlingIsNoted
<1>15. SettledWithItsNote'
  BY <1>1, <1>5, <1>7 DEF SettledWithItsNote
<1>16. NothingToldAfterIt'
  BY <1>1, <1>3, <1>5, <1>6, <1>7, <1>8
  DEF NothingToldAfterIt, Current, Row, NewRow, RowsAreCaused
<1>17. ToldIsShown'
  BY <1>1, <1>5, <1>6, <1>7, <1>8
  DEF ToldIsShown, Shown, RejectedSince, TerminalLabel, NewRow, RowsAreCaused,
      NothingToldAfterIt
<1>. QED BY <1>10, <1>11, <1>12, <1>13, <1>14, <1>15, <1>16, <1>17 DEF IInv

\* A human may set the trigger label at any time.
LEMMA AddTriggerKeeps ==
    ASSUME IInv, AddTrigger
    PROVE  IInv'
<1>1. /\ TypeOK /\ RowsAreCaused /\ CurrentIsTold /\ OneNotePerRow
      /\ SettlingIsNoted /\ SettledWithItsNote /\ NothingToldAfterIt /\ ToldIsShown
  BY DEF IInv
<1>2. /\ DOMAIN outbox = 1..Len(outbox) /\ Len(outbox) \in Nat
      /\ DOMAIN notes = DOMAIN outbox
      /\ DOMAIN jobs = 1..Current /\ Current \in Nat
      /\ jobs # <<>> <=> Current >= 1
      /\ \A i \in DOMAIN outbox : outbox[i] \in OutboxRow /\ notes[i] \in Nat
      /\ \A n \in DOMAIN jobs : jobs[n] \in Active \cup Ended
  BY <1>1, Numbers
<1>3. pc # "idle" => Item \in DOMAIN outbox /\ Item \in batch
  BY <1>1, ItemIsClaimed
<1>4. UNCHANGED <<outbox, jobs, notes, Current, status, pc, batch, Item>>
  BY DEF AddTrigger, database, publisher, Current, Item
<1>5. label' = "ready" /\ trigger' = TRUE /\ triggers' = triggers + 1 /\ triggers \in Nat
  BY <1>1 DEF AddTrigger, TypeOK
<1>6. {rejections, triggers, failures, crashes}' \subseteq Nat
  BY <1>1 DEF TypeOK, AddTrigger
<1>7. TypeOK'
  BY <1>1, <1>4, <1>5, <1>6 DEF TypeOK, Label
<1>8. RowsAreCaused'
  BY <1>1, <1>4 DEF RowsAreCaused
<1>9. CurrentIsTold'
  BY <1>1, <1>4 DEF CurrentIsTold, TellsCurrent
<1>10. OneNotePerRow'
  BY <1>1, <1>4 DEF OneNotePerRow
<1>11. SettlingIsNoted'
  BY <1>1, <1>4 DEF SettlingIsNoted, Row
<1>12. SettledWithItsNote'
  BY <1>1, <1>4 DEF SettledWithItsNote
<1>13. NothingToldAfterIt'
  BY <1>1, <1>4 DEF NothingToldAfterIt, TellsCurrent, Row
<1>14. ToldIsShown'
  BY <1>5 DEF ToldIsShown, Shown
<1>. QED BY <1>7, <1>8, <1>9, <1>10, <1>11, <1>12, <1>13, <1>14 DEF IInv

\* A row that is not superseded tells of the current job, or rejects.
LEMMA ReadKeeps ==
    ASSUME IInv, Read
    PROVE  IInv'
<1>1. /\ TypeOK /\ RowsAreCaused /\ CurrentIsTold /\ OneNotePerRow
      /\ SettlingIsNoted /\ SettledWithItsNote /\ NothingToldAfterIt /\ ToldIsShown
  BY DEF IInv
<1>2. /\ DOMAIN outbox = 1..Len(outbox) /\ Len(outbox) \in Nat
      /\ DOMAIN notes = DOMAIN outbox
      /\ DOMAIN jobs = 1..Current /\ Current \in Nat
      /\ jobs # <<>> <=> Current >= 1
      /\ \A i \in DOMAIN outbox : outbox[i] \in OutboxRow /\ notes[i] \in Nat
      /\ \A n \in DOMAIN jobs : jobs[n] \in Active \cup Ended
  BY <1>1, Numbers
<1>3. pc # "idle" => Item \in DOMAIN outbox /\ Item \in batch
  BY <1>1, ItemIsClaimed
<1>4. UNCHANGED <<outbox, jobs, notes, Current, label, status, trigger, triggers, batch, Item>>
  BY DEF Read, gitlab, database, bounds, Current, Item
<1>5. /\ pc = "read"
      /\ pc' = IF Superseded(Row) THEN "delivered"
               ELSE IF Row.kind = "job-started" THEN "label" ELSE "note"
  BY DEF Read
<1>6. Row \in OutboxRow /\ Row' = Row
  BY <1>2, <1>3, <1>4, <1>5 DEF Row
<1>7. Superseded(Row) => ~TellsCurrent(Item)
  BY <1>1, <1>2, <1>3, <1>5, <1>6
  DEF Superseded, TellsCurrent, RowsAreCaused, Row, Active
<1>8. ~Superseded(Row) =>
        TellsCurrent(Item) \/ (Row.kind = "dispatch-rejected" /\ Row.job >= Current)
  <2>. SUFFICES ASSUME ~Superseded(Row)
                PROVE  TellsCurrent(Item)
                       \/ (Row.kind = "dispatch-rejected" /\ Row.job >= Current)
    OBVIOUS
  <2>1. CASE Row.kind = "job-started"
    BY <1>1, <1>3, <1>5, <2>1 DEF Superseded, TellsCurrent, RowsAreCaused, Row, Active
  <2>2. CASE Row.kind = "job-ended"
    BY <1>1, <1>3, <1>5, <2>2 DEF Superseded, TellsCurrent, RowsAreCaused, Row, Ended
  <2>3. CASE Row.kind = "dispatch-rejected"
    <3>1. Row.job \in Nat /\ ~(Row.job < Current)
      BY <1>2, <1>6, <2>3 DEF Superseded, OutboxRow
    <3>. QED BY <1>2, <2>3, <3>1
  <2>. QED BY <1>6, <2>1, <2>2, <2>3 DEF OutboxRow
<1>9. {rejections, triggers, failures, crashes}' \subseteq Nat
  BY <1>1 DEF TypeOK, Read, bounds
<1>10. TypeOK'
  BY <1>1, <1>2, <1>3, <1>4, <1>5, <1>6, <1>7, <1>8, <1>9
  DEF TypeOK, Active, Ended, Settled, OutboxRow, Label
<1>11. RowsAreCaused'
  BY <1>1, <1>4 DEF RowsAreCaused
<1>12. CurrentIsTold'
  BY <1>1, <1>4 DEF CurrentIsTold, TellsCurrent
<1>13. OneNotePerRow'
  BY <1>1, <1>4 DEF OneNotePerRow
<1>14. SettlingIsNoted'
  BY <1>1, <1>4, <1>5, <1>6 DEF SettlingIsNoted
<1>15. SettledWithItsNote'
  BY <1>1, <1>4 DEF SettledWithItsNote
<1>16. NothingToldAfterIt'
  BY <1>4, <1>5, <1>6, <1>8 DEF NothingToldAfterIt, TellsCurrent
<1>17. ToldIsShown'
  BY <1>1, <1>4, <1>5, <1>7 DEF ToldIsShown, TellsCurrent, Shown, RejectedSince
<1>. QED BY <1>10, <1>11, <1>12, <1>13, <1>14, <1>15, <1>16, <1>17 DEF IInv

\* The note is written once.
LEMMA EnsureNoteKeeps ==
    ASSUME IInv, EnsureNote
    PROVE  IInv'
<1>1. /\ TypeOK /\ RowsAreCaused /\ CurrentIsTold /\ OneNotePerRow
      /\ SettlingIsNoted /\ SettledWithItsNote /\ NothingToldAfterIt /\ ToldIsShown
  BY DEF IInv
<1>2. /\ DOMAIN outbox = 1..Len(outbox) /\ Len(outbox) \in Nat
      /\ DOMAIN notes = DOMAIN outbox
      /\ DOMAIN jobs = 1..Current /\ Current \in Nat
      /\ jobs # <<>> <=> Current >= 1
      /\ \A i \in DOMAIN outbox : outbox[i] \in OutboxRow /\ notes[i] \in Nat
      /\ \A n \in DOMAIN jobs : jobs[n] \in Active \cup Ended
  BY <1>1, Numbers
<1>3. pc # "idle" => Item \in DOMAIN outbox /\ Item \in batch
  BY <1>1, ItemIsClaimed
<1>4. /\ UNCHANGED <<label, outbox, jobs, status, trigger, triggers, batch, Current, Item, Row>>
      /\ pc = "note" /\ notes' = [notes EXCEPT ![Item] = NotesEnsured(Item)]
      /\ pc' = IF Row.kind = "dispatch-rejected" /\ ~Row.setFailed
               THEN "delivered" ELSE "label"
  BY DEF EnsureNote, database, bounds, Current, Item, Row
<1>5. /\ notes' \in Seq(Nat) /\ Len(notes') = Len(notes)
      /\ DOMAIN notes' = DOMAIN notes
      /\ \A k \in DOMAIN notes : k # Item => notes'[k] = notes[k]
      /\ notes'[Item] = IF notes[Item] = 0 THEN 1 ELSE notes[Item]
  BY <1>1, <1>3, <1>4, NotesEffect
<1>6. \A k \in DOMAIN notes : notes'[k] <= 1 /\ (notes[k] = 1 => notes'[k] = 1)
  BY <1>1, <1>2, <1>5 DEF OneNotePerRow
<1>7. notes'[Item] = 1 /\ Row \in OutboxRow
  BY <1>1, <1>2, <1>4, <1>5 DEF OneNotePerRow, Row
<1>8. /\ \A i \in DOMAIN outbox : TellsCurrent(i)' <=> TellsCurrent(i)
      /\ Row.kind = "dispatch-rejected" => ~TellsCurrent(Item)
      /\ Shown <=> Shown'
  BY <1>4 DEF TellsCurrent, Shown, RejectedSince, Row
<1>9. {rejections, triggers, failures, crashes}' \subseteq Nat
  BY <1>1 DEF TypeOK, EnsureNote, bounds
<1>10. TypeOK'
  BY <1>1, <1>2, <1>3, <1>4, <1>5, <1>6, <1>7, <1>8, <1>9
  DEF TypeOK, Active, Ended, Settled, OutboxRow, Label
<1>11. RowsAreCaused'
  BY <1>1, <1>4 DEF RowsAreCaused
<1>12. CurrentIsTold'
  BY <1>1, <1>4, <1>8 DEF CurrentIsTold
<1>13. OneNotePerRow'
  BY <1>1, <1>5 DEF OneNotePerRow
<1>14. SettlingIsNoted'
  BY <1>1, <1>4, <1>5, <1>6 DEF SettlingIsNoted
<1>15. SettledWithItsNote'
  BY <1>1, <1>4, <1>5 DEF SettledWithItsNote
<1>16. NothingToldAfterIt'
  BY <1>1, <1>3, <1>4, <1>8 DEF NothingToldAfterIt
<1>17. ToldIsShown'
  BY <1>1, <1>4, <1>8 DEF ToldIsShown, OutboxRow
<1>. QED BY <1>10, <1>11, <1>12, <1>13, <1>14, <1>15, <1>16, <1>17 DEF IInv

\* The label set is that of the current job, or is set again later.
LEMMA SetLabelKeeps ==
    ASSUME IInv, SetLabel
    PROVE  IInv'
<1>1. /\ TypeOK /\ RowsAreCaused /\ CurrentIsTold /\ OneNotePerRow
      /\ SettlingIsNoted /\ SettledWithItsNote /\ NothingToldAfterIt /\ ToldIsShown
  BY DEF IInv
<1>2. /\ DOMAIN outbox = 1..Len(outbox) /\ Len(outbox) \in Nat
      /\ DOMAIN notes = DOMAIN outbox
      /\ DOMAIN jobs = 1..Current /\ Current \in Nat
      /\ jobs # <<>> <=> Current >= 1
      /\ \A i \in DOMAIN outbox : outbox[i] \in OutboxRow /\ notes[i] \in Nat
      /\ \A n \in DOMAIN jobs : jobs[n] \in Active \cup Ended
  BY <1>1, Numbers
<1>3. pc # "idle" => Item \in DOMAIN outbox /\ Item \in batch
  BY <1>1, ItemIsClaimed
<1>4. /\ UNCHANGED <<notes, outbox, jobs, status, trigger, triggers, batch, Current, Item, Row>>
      /\ pc = "label" /\ label' = RowLabel(Row)
      /\ pc' = IF Row.kind = "job-ended" THEN "settle" ELSE "delivered"
  BY DEF SetLabel, database, bounds, Current, Item, Row
<1>5. Row \in OutboxRow
  BY <1>2, <1>3, <1>4 DEF Row
<1>6. RowLabel(Row) \in Label
  BY <1>1, <1>3, <1>4, <1>5
  DEF RowLabel, RowsAreCaused, Row, OutboxRow, Ended, TerminalLabel, Label
<1>7. TellsCurrent(Item) => label' = IF jobs[Current] = "running" THEN "working" ELSE TerminalLabel(jobs[Current])
  BY <1>1, <1>4 DEF TellsCurrent, RowLabel, Row
<1>8. Row.kind = "dispatch-rejected" /\ Row.job >= Current => label' = "failed" /\ RejectedSince(Current)
  BY <1>1, <1>3, <1>4 DEF RowLabel, Row, SettlingIsNoted, RejectedSince
<1>9. {rejections, triggers, failures, crashes}' \subseteq Nat
  BY <1>1 DEF TypeOK, SetLabel, bounds
<1>10. TypeOK'
  BY <1>1, <1>4, <1>5, <1>6, <1>7, <1>8, <1>9
  DEF TypeOK, Active, Ended, Settled, OutboxRow, Label
<1>11. RowsAreCaused'
  BY <1>1, <1>4 DEF RowsAreCaused
<1>12. CurrentIsTold'
  BY <1>1, <1>4 DEF CurrentIsTold, TellsCurrent
<1>13. OneNotePerRow'
  BY <1>1, <1>4 DEF OneNotePerRow
<1>14. SettlingIsNoted'
  BY <1>1, <1>4 DEF SettlingIsNoted
<1>15. SettledWithItsNote'
  BY <1>1, <1>4 DEF SettledWithItsNote
<1>16. NothingToldAfterIt'
  BY <1>4 DEF NothingToldAfterIt
<1>17. ToldIsShown'
  BY <1>1, <1>4, <1>7, <1>8
  DEF ToldIsShown, TellsCurrent, Shown, RejectedSince, NothingToldAfterIt
<1>. QED BY <1>10, <1>11, <1>12, <1>13, <1>14, <1>15, <1>16, <1>17 DEF IInv

\* A failed call changes no more than the call would.
LEMMA GitLabFailsKeeps ==
    ASSUME IInv, GitLabFails
    PROVE  IInv'
<1>1. /\ TypeOK /\ RowsAreCaused /\ CurrentIsTold /\ OneNotePerRow
      /\ SettlingIsNoted /\ SettledWithItsNote /\ NothingToldAfterIt /\ ToldIsShown
  BY DEF IInv
<1>2. /\ DOMAIN outbox = 1..Len(outbox) /\ Len(outbox) \in Nat
      /\ DOMAIN notes = DOMAIN outbox
      /\ DOMAIN jobs = 1..Current /\ Current \in Nat
      /\ jobs # <<>> <=> Current >= 1
      /\ \A i \in DOMAIN outbox : outbox[i] \in OutboxRow /\ notes[i] \in Nat
      /\ \A n \in DOMAIN jobs : jobs[n] \in Active \cup Ended
  BY <1>1, Numbers
<1>3. pc # "idle" => Item \in DOMAIN outbox /\ Item \in batch
  BY <1>1, ItemIsClaimed
<1>4. /\ UNCHANGED <<outbox, jobs, status, trigger, triggers, batch, Current, Item, Row>>
      /\ pc \in {"note", "label"} /\ pc' = "failed"
      /\ \/ UNCHANGED <<label, notes>>
         \/ UNCHANGED label /\ notes' = [notes EXCEPT ![Item] = NotesEnsured(Item)]
         \/ pc = "label" /\ label' = RowLabel(Row) /\ UNCHANGED notes
  BY DEF GitLabFails, gitlab, database, Current, Item, Row
<1>5. /\ notes' \in Seq(Nat) /\ Len(notes') = Len(notes)
      /\ DOMAIN notes' = DOMAIN notes
      /\ \A k \in DOMAIN notes : notes'[k] <= 1 /\ (notes[k] = 1 => notes'[k] = 1)
  <2>1. CASE UNCHANGED notes
    BY <1>1, <2>1 DEF OneNotePerRow, TypeOK
  <2>2. CASE notes' = [notes EXCEPT ![Item] = NotesEnsured(Item)]
    <3>1. /\ notes' \in Seq(Nat) /\ Len(notes') = Len(notes)
          /\ DOMAIN notes' = DOMAIN notes
          /\ \A k \in DOMAIN notes : k # Item => notes'[k] = notes[k]
          /\ notes'[Item] = IF notes[Item] = 0 THEN 1 ELSE notes[Item]
      BY <1>1, <1>3, <1>4, <2>2, NotesEffect
    <3>. QED BY <1>1, <1>2, <3>1 DEF OneNotePerRow
  <2>. QED BY <1>4, <2>1, <2>2
<1>6. Row \in OutboxRow
  BY <1>2, <1>3, <1>4 DEF Row
<1>7. pc = "label" => RowLabel(Row) \in Label
  BY <1>1, <1>3, <1>6
  DEF RowLabel, RowsAreCaused, Row, OutboxRow, Ended, TerminalLabel, Label
<1>8. TellsCurrent(Item) => RowLabel(Row) = IF jobs[Current] = "running" THEN "working" ELSE TerminalLabel(jobs[Current])
  BY <1>1, <1>4 DEF TellsCurrent, RowLabel, Row
<1>9. pc = "label" /\ Row.kind = "dispatch-rejected" /\ Row.job >= Current => RowLabel(Row) = "failed" /\ RejectedSince(Current)
  BY <1>1, <1>3 DEF RowLabel, Row, SettlingIsNoted, RejectedSince
<1>10. {rejections, triggers, failures, crashes}' \subseteq Nat
  BY <1>1 DEF TypeOK, GitLabFails
<1>11. TypeOK'
  BY <1>1, <1>2, <1>3, <1>4, <1>5, <1>6, <1>7, <1>8, <1>9, <1>10
  DEF TypeOK, Active, Ended, Settled, OutboxRow, Label
<1>12. RowsAreCaused'
  BY <1>1, <1>4 DEF RowsAreCaused
<1>13. CurrentIsTold'
  BY <1>1, <1>4 DEF CurrentIsTold, TellsCurrent
<1>14. OneNotePerRow'
  BY <1>5 DEF OneNotePerRow
<1>15. SettlingIsNoted'
  BY <1>1, <1>4 DEF SettlingIsNoted
<1>16. SettledWithItsNote'
  BY <1>1, <1>2, <1>4, <1>5 DEF SettledWithItsNote
<1>17. NothingToldAfterIt'
  BY <1>4 DEF NothingToldAfterIt
<1>18. ToldIsShown'
  BY <1>1, <1>4, <1>8, <1>9
  DEF ToldIsShown, Current, TellsCurrent, Shown, RejectedSince, TerminalLabel,
      OutboxRow, RowsAreCaused, NothingToldAfterIt
<1>. QED BY <1>11, <1>12, <1>13, <1>14, <1>15, <1>16, <1>17, <1>18 DEF IInv

\* Only the current job settles its conversation.
LEMMA SettleKeeps ==
    ASSUME IInv, Settle
    PROVE  IInv'
<1>1. /\ TypeOK /\ RowsAreCaused /\ CurrentIsTold /\ OneNotePerRow
      /\ SettlingIsNoted /\ SettledWithItsNote /\ NothingToldAfterIt /\ ToldIsShown
  BY DEF IInv
<1>2. /\ DOMAIN outbox = 1..Len(outbox) /\ Len(outbox) \in Nat
      /\ DOMAIN notes = DOMAIN outbox
      /\ DOMAIN jobs = 1..Current /\ Current \in Nat
      /\ jobs # <<>> <=> Current >= 1
      /\ \A i \in DOMAIN outbox : outbox[i] \in OutboxRow /\ notes[i] \in Nat
      /\ \A n \in DOMAIN jobs : jobs[n] \in Active \cup Ended
  BY <1>1, Numbers
<1>3. pc # "idle" => Item \in DOMAIN outbox /\ Item \in batch
  BY <1>1, ItemIsClaimed
<1>4. UNCHANGED <<outbox, jobs, notes, Current, label, trigger, triggers, batch, Item, Row>>
  BY DEF Settle, gitlab, bounds, Current, Item, Row
<1>5. /\ pc = "settle"
      /\ \/ Row.job = Current /\ status' = TerminalStatus(jobs[Row.job]) /\ pc' = "delivered"
         \/ Row.job # Current /\ pc' = "failed" /\ UNCHANGED status
  BY DEF Settle, Settles
<1>6. /\ Row.kind = "job-ended" /\ notes[Item] = 1
      /\ Row.job \in DOMAIN jobs /\ jobs[Row.job] \in Ended
  BY <1>1, <1>3, <1>5 DEF SettlingIsNoted, RowsAreCaused, Row
<1>7. jobs # <<>> /\ TerminalStatus(jobs[Row.job]) \in Settled
  BY <1>2, <1>6 DEF TerminalStatus, TerminalLabel, Settled, Ended
<1>8. {rejections, triggers, failures, crashes}' \subseteq Nat
  BY <1>1 DEF TypeOK, Settle, bounds
<1>9. TypeOK'
  BY <1>1, <1>4, <1>5, <1>7, <1>8 DEF TypeOK
<1>10. RowsAreCaused'
  BY <1>1, <1>4 DEF RowsAreCaused
<1>11. CurrentIsTold'
  BY <1>1, <1>4 DEF CurrentIsTold, TellsCurrent
<1>12. OneNotePerRow'
  BY <1>1, <1>4 DEF OneNotePerRow
<1>13. SettlingIsNoted'
  BY <1>4, <1>6 DEF SettlingIsNoted
<1>14. SettledWithItsNote'
  <2>1. CASE UNCHANGED status
    BY <1>1, <1>4, <2>1 DEF SettledWithItsNote
  <2>2. CASE Row.job = Current /\ status' = TerminalStatus(jobs[Row.job])
    <3>1. outbox[Item].kind = "job-ended" /\ outbox[Item].job = Current /\ Item \in DOMAIN outbox
      BY <1>3, <1>5, <1>6, <2>2 DEF Row
    <3>2. status' = TerminalStatus(jobs[Current])
      BY <2>2
    <3>. QED BY <1>4, <1>6, <3>1, <3>2 DEF SettledWithItsNote
  <2>. QED BY <1>5, <2>1, <2>2
<1>15. NothingToldAfterIt'
  BY <1>5 DEF NothingToldAfterIt
<1>16. ToldIsShown'
  BY <1>1, <1>4, <1>5 DEF ToldIsShown, TellsCurrent, Shown, RejectedSince
<1>. QED BY <1>9, <1>10, <1>11, <1>12, <1>13, <1>14, <1>15, <1>16 DEF IInv

\* A row is done with once its label is set, or it was superseded.
LEMMA MarkKeeps ==
    ASSUME IInv, Mark
    PROVE  IInv'
<1>1. /\ TypeOK /\ RowsAreCaused /\ CurrentIsTold /\ OneNotePerRow
      /\ SettlingIsNoted /\ SettledWithItsNote /\ NothingToldAfterIt /\ ToldIsShown
  BY DEF IInv
<1>2. /\ DOMAIN outbox = 1..Len(outbox) /\ Len(outbox) \in Nat
      /\ DOMAIN notes = DOMAIN outbox
      /\ DOMAIN jobs = 1..Current /\ Current \in Nat
      /\ jobs # <<>> <=> Current >= 1
      /\ \A i \in DOMAIN outbox : outbox[i] \in OutboxRow /\ notes[i] \in Nat
      /\ \A n \in DOMAIN jobs : jobs[n] \in Active \cup Ended
  BY <1>1, Numbers
<1>3. pc # "idle" => Item \in DOMAIN outbox /\ Item \in batch
  BY <1>1, ItemIsClaimed
<1>4. /\ pc \in {"delivered", "failed"} /\ SetRow(Item, FinishedAs) /\ batch' = batch \ {Item}
      /\ pc' = IF batch' = {} THEN "idle" ELSE "read"
      /\ UNCHANGED <<label, notes, jobs, status, trigger, triggers, Current>>
      /\ FinishedAs \in RowState /\ (FinishedAs = "delivered" <=> pc = "delivered")
  BY DEF Mark, gitlab, bounds, Current, FinishedAs, RowState
<1>5. /\ outbox' \in Seq(OutboxRow) /\ Len(outbox') = Len(outbox)
      /\ DOMAIN outbox' = DOMAIN outbox
      /\ \A k \in DOMAIN outbox :
           /\ outbox'[k].kind = outbox[k].kind
           /\ outbox'[k].job = outbox[k].job
           /\ outbox'[k].setFailed = outbox[k].setFailed
           /\ outbox'[k].state = IF k = Item THEN FinishedAs ELSE outbox[k].state
  BY <1>1, <1>3, <1>4, SetRowEffect
<1>6. {rejections, triggers, failures, crashes}' \subseteq Nat
  BY <1>1 DEF TypeOK, Mark, bounds
<1>7. TypeOK'
  BY <1>1, <1>2, <1>3, <1>4, <1>5, <1>6 DEF TypeOK, Active, Ended, Settled, Label
<1>8. RowsAreCaused'
  BY <1>1, <1>4, <1>5 DEF RowsAreCaused
<1>9. CurrentIsTold'
  BY <1>1, <1>4, <1>5 DEF CurrentIsTold, TellsCurrent
<1>10. OneNotePerRow'
  BY <1>1, <1>4 DEF OneNotePerRow
<1>11. SettlingIsNoted'
  BY <1>1, <1>4 DEF SettlingIsNoted
<1>12. SettledWithItsNote'
  <2>. SUFFICES ASSUME status \in Settled
                PROVE  /\ status = TerminalStatus(jobs[Current])
                       /\ \E i \in DOMAIN outbox : /\ outbox'[i].kind = "job-ended"
                                                   /\ outbox'[i].job = Current
                                                   /\ notes[i] = 1
    BY <1>1, <1>2, <1>4, <1>5 DEF SettledWithItsNote
  <2>. QED BY <1>1, <1>2, <1>4, <1>5 DEF SettledWithItsNote
<1>13. NothingToldAfterIt'
  BY <1>4 DEF NothingToldAfterIt
<1>14. ToldIsShown'
  BY SMTT(30), <1>1, <1>3, <1>4, <1>5
  DEF ToldIsShown, Current, TellsCurrent, Shown, RejectedSince, TerminalLabel,
      RowsAreCaused, NothingToldAfterIt
<1>. QED BY <1>7, <1>8, <1>9, <1>10, <1>11, <1>12, <1>13, <1>14 DEF IInv

\* A row that is tried again is pending.
LEMMA BackoffOverKeeps ==
    ASSUME IInv, NEW i \in DOMAIN outbox, BackoffOver(i)
    PROVE  IInv'
<1>1. /\ TypeOK /\ RowsAreCaused /\ CurrentIsTold /\ OneNotePerRow
      /\ SettlingIsNoted /\ SettledWithItsNote /\ NothingToldAfterIt /\ ToldIsShown
  BY DEF IInv
<1>2. /\ DOMAIN outbox = 1..Len(outbox) /\ Len(outbox) \in Nat
      /\ DOMAIN notes = DOMAIN outbox
      /\ DOMAIN jobs = 1..Current /\ Current \in Nat
      /\ jobs # <<>> <=> Current >= 1
      /\ \A k \in DOMAIN outbox : outbox[k] \in OutboxRow /\ notes[k] \in Nat
      /\ \A n \in DOMAIN jobs : jobs[n] \in Active \cup Ended
  BY <1>1, Numbers
<1>3. pc # "idle" => Item \in DOMAIN outbox /\ Item \in batch
  BY <1>1, ItemIsClaimed
<1>4. /\ SetRow(i, "pending") /\ "pending" \in RowState
      /\ UNCHANGED <<label, notes, jobs, status, trigger, triggers, pc, batch, Current, Item>>
  BY DEF BackoffOver, gitlab, publisher, bounds, Current, Item, RowState
<1>5. /\ outbox' \in Seq(OutboxRow) /\ Len(outbox') = Len(outbox)
      /\ DOMAIN outbox' = DOMAIN outbox
      /\ \A k \in DOMAIN outbox :
           /\ outbox'[k].kind = outbox[k].kind
           /\ outbox'[k].job = outbox[k].job
           /\ outbox'[k].setFailed = outbox[k].setFailed
           /\ outbox'[k].state = IF k = i THEN "pending" ELSE outbox[k].state
  BY <1>1, <1>4, SetRowEffect
<1>6. pc # "idle" => Row'.kind = Row.kind /\ Row'.job = Row.job /\ Row'.setFailed = Row.setFailed
  BY <1>3, <1>4, <1>5 DEF Row
<1>7. {rejections, triggers, failures, crashes}' \subseteq Nat
  BY <1>1 DEF TypeOK, BackoffOver, bounds
<1>8. TypeOK'
  BY <1>1, <1>3, <1>4, <1>5, <1>6, <1>7 DEF TypeOK, Active, Ended, Label
<1>9. RowsAreCaused'
  BY <1>1, <1>4, <1>5 DEF RowsAreCaused, Current
<1>10. CurrentIsTold'
  BY <1>1, <1>4, <1>5 DEF CurrentIsTold, TellsCurrent
<1>11. OneNotePerRow'
  BY <1>1, <1>4 DEF OneNotePerRow
<1>12. SettlingIsNoted'
  BY <1>1, <1>4, <1>6 DEF SettlingIsNoted
<1>13. SettledWithItsNote'
  <2>. SUFFICES ASSUME status \in Settled
                PROVE  /\ status = TerminalStatus(jobs[Current])
                       /\ \E k \in DOMAIN outbox : /\ outbox'[k].kind = "job-ended"
                                                   /\ outbox'[k].job = Current
                                                   /\ notes[k] = 1
    BY <1>1, <1>2, <1>4, <1>5 DEF SettledWithItsNote
  <2>. QED BY <1>1, <1>2, <1>4, <1>5 DEF SettledWithItsNote
<1>14. NothingToldAfterIt'
  BY <1>1, <1>3, <1>4, <1>5 DEF NothingToldAfterIt, TellsCurrent, Row, RowsAreCaused
<1>15. ToldIsShown'
  BY <1>1, <1>4, <1>5, <1>6
  DEF ToldIsShown, Current, TellsCurrent, Shown, RejectedSince, TerminalLabel,
      RowsAreCaused, NothingToldAfterIt
<1>. QED BY <1>8, <1>9, <1>10, <1>11, <1>12, <1>13, <1>14, <1>15 DEF IInv

\* Claimed rows were not delivered.
LEMMA ClaimKeeps ==
    ASSUME IInv, Claim
    PROVE  IInv'
<1>1. /\ TypeOK /\ RowsAreCaused /\ CurrentIsTold /\ OneNotePerRow
      /\ SettlingIsNoted /\ SettledWithItsNote /\ NothingToldAfterIt /\ ToldIsShown
  BY DEF IInv
<1>2. /\ DOMAIN outbox = 1..Len(outbox) /\ Len(outbox) \in Nat
      /\ DOMAIN notes = DOMAIN outbox
      /\ DOMAIN jobs = 1..Current /\ Current \in Nat
      /\ jobs # <<>> <=> Current >= 1
      /\ \A i \in DOMAIN outbox : outbox[i] \in OutboxRow /\ notes[i] \in Nat
      /\ \A n \in DOMAIN jobs : jobs[n] \in Active \cup Ended
  BY <1>1, Numbers
<1>3. pc # "idle" => Item \in DOMAIN outbox /\ Item \in batch
  BY <1>1, ItemIsClaimed
<1>4. PICK S \in SUBSET Claimable :
        /\ S # {} /\ batch' = S
        /\ outbox' = [i \in DOMAIN outbox |->
               IF i \in S THEN [outbox[i] EXCEPT !.state = "delivering"] ELSE outbox[i]]
  BY DEF Claim
<1>5. /\ pc = "idle" /\ pc' = "read"
      /\ UNCHANGED <<label, notes, jobs, status, trigger, triggers, Current>>
  BY DEF Claim, gitlab, bounds, Current
<1>6. \A k \in DOMAIN outbox :
        /\ outbox'[k] \in OutboxRow
        /\ outbox'[k].kind = outbox[k].kind
        /\ outbox'[k].job = outbox[k].job
        /\ outbox'[k].setFailed = outbox[k].setFailed
        /\ outbox'[k].state = IF k \in S THEN "delivering" ELSE outbox[k].state
  BY <1>2, <1>4 DEF OutboxRow
<1>7. /\ outbox' \in Seq(OutboxRow) /\ Len(outbox') = Len(outbox)
      /\ DOMAIN outbox' = DOMAIN outbox
  <2>1. outbox' \in [1..Len(outbox) -> OutboxRow]
    BY <1>2, <1>4, <1>6
  <2>2. outbox' \in Seq(OutboxRow)
    BY <1>2, <2>1, SeqDef
  <2>. QED BY <1>2, <2>1, <2>2, LenProperties
<1>8. S \subseteq DOMAIN outbox
  BY <1>4 DEF Claimable
<1>9. {rejections, triggers, failures, crashes}' \subseteq Nat
  BY <1>1 DEF TypeOK, Claim, bounds
<1>10. TypeOK'
  BY <1>1, <1>3, <1>4, <1>5, <1>6, <1>7, <1>8, <1>9 DEF TypeOK, Active, Ended, Label
<1>11. RowsAreCaused'
  BY <1>1, <1>4, <1>5 DEF RowsAreCaused
<1>12. CurrentIsTold'
  BY <1>1, <1>4, <1>5 DEF CurrentIsTold, TellsCurrent
<1>13. OneNotePerRow'
  BY <1>1, <1>5 DEF OneNotePerRow
<1>14. SettlingIsNoted'
  BY <1>1, <1>5 DEF SettlingIsNoted
<1>15. SettledWithItsNote'
  <2>. SUFFICES ASSUME status \in Settled
                PROVE  /\ status = TerminalStatus(jobs[Current])
                       /\ \E i \in DOMAIN outbox : /\ outbox'[i].kind = "job-ended"
                                                   /\ outbox'[i].job = Current
                                                   /\ notes[i] = 1
    BY <1>4, <1>5 DEF SettledWithItsNote
  <2>. QED BY <1>1, <1>4 DEF SettledWithItsNote
<1>16. NothingToldAfterIt'
  BY <1>5 DEF NothingToldAfterIt
<1>17. ToldIsShown'
  BY <1>1, <1>4, <1>5 DEF ToldIsShown, TellsCurrent, Shown, RejectedSince
<1>. QED BY <1>10, <1>11, <1>12, <1>13, <1>14, <1>15, <1>16, <1>17 DEF IInv

\* A restart leaves the rows as they are.
LEMMA CrashKeeps ==
    ASSUME IInv, Crash
    PROVE  IInv'
<1>1. /\ TypeOK /\ RowsAreCaused /\ CurrentIsTold /\ OneNotePerRow
      /\ SettlingIsNoted /\ SettledWithItsNote /\ NothingToldAfterIt /\ ToldIsShown
  BY DEF IInv
<1>2. /\ DOMAIN outbox = 1..Len(outbox) /\ Len(outbox) \in Nat
      /\ DOMAIN notes = DOMAIN outbox
      /\ DOMAIN jobs = 1..Current /\ Current \in Nat
      /\ jobs # <<>> <=> Current >= 1
      /\ \A i \in DOMAIN outbox : outbox[i] \in OutboxRow /\ notes[i] \in Nat
      /\ \A n \in DOMAIN jobs : jobs[n] \in Active \cup Ended
  BY <1>1, Numbers
<1>3. pc # "idle" => Item \in DOMAIN outbox /\ Item \in batch
  BY <1>1, ItemIsClaimed
<1>4. UNCHANGED <<outbox, jobs, notes, Current, label, status, trigger, triggers>>
  BY DEF Crash, gitlab, database, Current
<1>5. pc' = "idle" /\ batch' = {}
  BY DEF Crash
<1>6. {rejections, triggers, failures, crashes}' \subseteq Nat
  BY <1>1 DEF TypeOK, Crash
<1>7. TypeOK'
  BY <1>1, <1>4, <1>5, <1>6 DEF TypeOK
<1>8. RowsAreCaused'
  BY <1>1, <1>4 DEF RowsAreCaused
<1>9. CurrentIsTold'
  BY <1>1, <1>4 DEF CurrentIsTold, TellsCurrent
<1>10. OneNotePerRow'
  BY <1>1, <1>4 DEF OneNotePerRow
<1>11. SettlingIsNoted'
  BY <1>1, <1>4, <1>5 DEF SettlingIsNoted
<1>12. SettledWithItsNote'
  BY <1>1, <1>4 DEF SettledWithItsNote
<1>13. NothingToldAfterIt'
  BY <1>5 DEF NothingToldAfterIt
<1>14. ToldIsShown'
  BY <1>1, <1>4, <1>5 DEF ToldIsShown, TellsCurrent, Shown, RejectedSince
<1>. QED BY <1>7, <1>8, <1>9, <1>10, <1>11, <1>12, <1>13, <1>14 DEF IInv

\* Every step keeps the invariant.
LEMMA Preservation == IInv /\ [Next]_vars => IInv'
<1>. SUFFICES ASSUME IInv, [Next]_vars PROVE IInv'
  OBVIOUS
<1>1. trigger \in BOOLEAN
  BY DEF IInv, TypeOK
<1>2. CASE TakeTrigger \/ TakeComment
  <2>1. trigger' \in BOOLEAN
    BY <1>1, <1>2 DEF TakeTrigger, TakeComment
  <2>2. Dispatch \/ \E setFailed \in BOOLEAN : Rejects(setFailed)
    BY <1>2 DEF TakeTrigger, TakeComment, Refuse
  <2>. QED BY <2>1, <2>2, DispatchKeeps, RejectsKeeps
<1>3. CASE UNCHANGED vars
  <2>1. UNCHANGED <<label, notes, jobs, status, outbox, trigger, pc, batch, rejections,
                    triggers, failures, crashes>>
    BY <1>3 DEF vars, gitlab, database, publisher, bounds
  <2>. QED
    BY <2>1
    DEF IInv, TypeOK, RowsAreCaused, CurrentIsTold, OneNotePerRow, SettlingIsNoted,
        SettledWithItsNote, NothingToldAfterIt, ToldIsShown, TellsCurrent, Shown,
        RejectedSince, Current, Item, Row
<1>. QED
  BY <1>2, <1>3, StartKeeps, EndKeeps, AddTriggerKeeps, ReadKeeps, EnsureNoteKeeps,
     SetLabelKeeps, GitLabFailsKeeps, SettleKeeps, MarkKeeps, BackoffOverKeeps,
     ClaimKeeps, CrashKeeps
  DEF Next, Deliver

\* There is nothing to publish yet.
LEMMA Initially == Init => IInv
<1>. SUFFICES ASSUME Init PROVE IInv
  OBVIOUS
<1>1. /\ jobs = <<>> /\ outbox = <<>> /\ notes = <<>> /\ pc = "idle" /\ batch = {}
      /\ status = "idle" /\ Len(outbox) = 0 /\ Len(notes) = 0
      /\ DOMAIN outbox = {} /\ DOMAIN notes = {}
  BY DEF Init
<1>2. TypeOK
  BY <1>1, EmptySeq DEF Init, TypeOK, Label
<1>. QED
  BY <1>1, <1>2
  DEF IInv, RowsAreCaused, CurrentIsTold, OneNotePerRow, SettlingIsNoted,
      SettledWithItsNote, NothingToldAfterIt, ToldIsShown, Settled

\* The invariant holds of every state.
THEOREM Invariance == Spec => []IInv
BY Initially, Preservation, PTL DEF Spec

-----------------------------------------------------------------------------
(* What it says *)

\* Every variable keeps its type.
THEOREM TypeCorrect == Spec => []TypeOK
<1>1. IInv => TypeOK
  BY DEF IInv
<1>. QED BY <1>1, Invariance, PTL

\* However often a row is delivered, it leaves at most one note (ensure_note,
\* outbox.py).
THEOREM RowsAreNotedOnce == Spec => []OneNotePerRow
<1>1. IInv => OneNotePerRow
  BY DEF IInv
<1>. QED BY <1>1, Invariance, PTL

\* A conversation opens again with the status its current job earned, and
\* after the note that says so (deliver_job and record_terminal, outbox.py).
THEOREM SettledAfterItsNote == Spec => []SettledWithItsNote
<1>1. IInv => SettledWithItsNote
  BY DEF IInv
<1>. QED BY <1>1, Invariance, PTL

\* Once all rows are delivered the board shows what became of the current
\* job, whatever was retried or overtaken (deliver, outbox.py).
THEOREM BoardIsTruthful == Spec => []BoardShowsCurrentJob
<1>1. IInv => BoardShowsCurrentJob
  <2>. SUFFICES ASSUME IInv, Quiet, jobs # <<>>, jobs[Current] # "queued"
                PROVE  Shown
    BY DEF BoardShowsCurrentJob, Shown
  <2>1. PICK i \in DOMAIN outbox : TellsCurrent(i)
    BY DEF IInv, CurrentIsTold
  <2>. QED BY <2>1 DEF IInv, ToldIsShown, Quiet
<1>. QED BY <1>1, Invariance, PTL

================================================================================
