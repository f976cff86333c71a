--------------------------- MODULE LocalIntake_proofs ---------------------------
(***************************************************************************)
(* What a cycle decides of a comment, a label and an approval, for any     *)
(* issues, merge requests, pages and memories; and, in the second part,    *)
(* what it makes of a board, for any items, blockers and bounds.           *)
(*                                                                         *)
(* A poll works on a copy of the record that a commit saves and any        *)
(* failure forgets: the invariant says the same of both.  While the copy   *)
(* is in use people go on writing, so whatever it says is of events up to  *)
(* its cursor, or of all events but only as far as they can no longer      *)
(* change it.                                                              *)
(***************************************************************************)
EXTENDS LocalIntake, FiniteSetTheorems, WellFoundedInduction, TLAPS

Disc == (Key \cup {None}) \X Nat
Kinds == Comments \cup {"label", "unlabel", "award", "close", "reopen"}
EventRecord == [kind : Kinds, on : Surface, disc : Disc \cup {None}]
BotNote == [disc : Disc, on : Surface, by : Key, n : Nat]
Gestures == [e : Event, disc : Disc \cup {None}]
Statuses == {"absent", "new", "idle", "working"}
Conversation ==
    [status : Statuses, pending : SUBSET Event, next : Event \cup {None},
     reply : Event \cup {None}, answers : Nat, last : Disc \cup {None}]
Record ==
    [boot : BOOLEAN, cursor : Nat, retry : Seq(Gestures), consumed : SUBSET Event,
     awards : SUBSET Event, conv : [Key -> Conversation],
     index : [MR -> Issue \cup {None}], heard : [Event -> Seq(Key \cup {None})]]
Copy ==
    [at : {"labels", "awards", "assemble"}, todo : Seq(Gestures), retry : Seq(Gestures),
     fires : SUBSET Event, approvals : SUBSET Event, ps : Record]

\* What TypeOK leaves open is added.
Types ==
    /\ events \in Seq(EventRecord) /\ Len(events) <= MaxEvents
    /\ labelled \subseteq Issue
    /\ bots \subseteq BotNote
    /\ marker \in [MR -> Issue \cup {None}]
    /\ disk \in Record
    /\ mem # None => mem \in Copy
    /\ burst \in Nat /\ failures \in Nat

-----------------------------------------------------------------------------
(* What is written on GitLab *)

\* The discussion d is on s, where its first note is.
Placed(d, s) ==
    IF d[1] = None
    THEN d[2] \in DOMAIN events /\ events[d[2]].on = s
    ELSE \E b \in bots : b.by = d[1] /\ b.n = d[2] /\ b.on = s

\* A conversation that may be spoken with on s: that of the issue, or of the
\* merge request's issue, or one that a comment on the merge request opened.
Home(k, s) ==
    IF s \in Issue THEN k = s
    ELSE k = marker[s] \/ (k \in DOMAIN events /\ events[k].on = s)

EventsArePlaced ==
    /\ \A e \in DOMAIN events :
        /\ IsComment(e) => events[e].disc \in Disc /\ Placed(events[e].disc, events[e].on)
        /\ events[e].kind \in {"label", "award"} => events[e].on \in Issue
        /\ events[e].kind = "award" => events[e].disc \in {events[e].on} \X Nat
    /\ \A i \in labelled : Of({"label"}, i) # {}

BotsArePlaced ==
    /\ \A b \in bots :
        /\ Placed(b.disc, b.on) /\ Home(b.by, b.on)
        /\ b.n \in 1..disk.conv[b.by].answers
    /\ \A b, c \in bots : b.by = c.by /\ b.n = c.n => b = c

\* The last answer of a conversation is remembered with its discussion.
LastIsKnown ==
    \A k \in Key :
        IF disk.conv[k].answers = 0 THEN disk.conv[k].last = None
        ELSE \E b \in bots : /\ b.by = k /\ b.n = disk.conv[k].answers
                             /\ b.disc = disk.conv[k].last

-----------------------------------------------------------------------------
(* What a record says, on disk or in a poll *)

Ids(q) == {q[j].e : j \in DOMAIN q}
Distinct(q) == \A i, j \in DOMAIN q : q[i].e = q[j].e => i = j

GesturesAreComments(q) ==
    \A j \in DOMAIN q :
        /\ q[j].e \in DOMAIN events /\ IsComment(q[j].e)
        /\ q[j].disc \in {None, events[q[j].e].disc}

SpokenWith(k, e) == e # None => e \in DOMAIN events /\ Home(k, events[e].on)

ConversationsAreHome(r) ==
    /\ \A k \in Key : LET c == r.conv[k] IN
        /\ c.status = "absent" => c = Absent
        /\ c.status # "absent" => c.next # None /\ (k \in Event => k \in DOMAIN events)
        /\ c.status = "working" => c.reply # None
        /\ SpokenWith(k, c.next) /\ SpokenWith(k, c.reply)
    /\ \A m \in MR : r.index[m] \in {None, marker[m]}

\* The label event e is remembered, or another one of its issue followed.
Past(r, e) ==
    \/ e \in r.consumed
    \/ \E f \in DOMAIN events :
         f > e /\ events[f].kind = "label" /\ events[f].on = events[e].on

GesturesAreRemembered(r) ==
    /\ \A e \in r.consumed : e \in DOMAIN events /\ events[e].kind = "label"
    /\ \A e \in r.awards : e \in DOMAIN events /\ events[e].kind = "award"
    /\ \A e \in DOMAIN events :
        /\ events[e].kind = "label" /\ IsKept(e) =>
             Len(r.heard[e]) <= 1 /\ (r.heard[e] # <<>> => Past(r, e))
        /\ events[e].kind = "award" =>
             Len(r.heard[e]) <= 1 /\ (r.heard[e] # <<>> => e \in r.awards)

RepliesAreHome(r) ==
    \A e \in DOMAIN events : events[e].kind = "plain" =>
        \A j \in DOMAIN r.heard[e] : r.heard[e][j] \in Key => GoesHome(e, r.heard[e][j])

NothingAhead(r) ==
    /\ r.cursor <= Len(events)
    /\ \A e \in Event \ DOMAIN events : r.heard[e] = <<>>

\* With these comments still to be decided, behind the cursor each other one
\* was once, and ahead of it none.
DecidedOnce(r, open) ==
    \A e \in DOMAIN events : IsComment(e) =>
        IF e > r.cursor THEN r.heard[e] = <<>> /\ e \notin open
        ELSE Len(r.heard[e]) = (IF e \in open THEN 0 ELSE 1)

RecordIsSound(r) ==
    /\ ConversationsAreHome(r)
    /\ GesturesAreRemembered(r)
    /\ RepliesAreHome(r)
    /\ NothingAhead(r)

DiskIsSound ==
    /\ RecordIsSound(disk)
    /\ GesturesAreComments(disk.retry) /\ Distinct(disk.retry)
    /\ \A e \in Ids(disk.retry) : e <= disk.cursor
    /\ burst <= Page => DecidedOnce(disk, Ids(disk.retry))

\* The copy of a poll: nothing answers while it is in use, and what is to be
\* started by it was not yet.
QueuesAreSound(m) ==
    /\ GesturesAreComments(m.todo) /\ Distinct(m.todo)
    /\ GesturesAreComments(m.retry) /\ Distinct(m.retry)
    /\ Ids(m.todo) \cap Ids(m.retry) = {}
    /\ \A e \in Ids(m.todo) \cup Ids(m.retry) : e <= m.ps.cursor

FiresAreNew(m) ==
    /\ m.at = "labels" => m.fires = {}
    /\ m.at # "assemble" => m.approvals = {}
    /\ \A e \in m.fires :
        /\ e \in DOMAIN events /\ events[e].kind = "label"
        /\ IsKept(e) => m.ps.heard[e] = <<>> /\ Past(m.ps, e)
    /\ \A e \in m.approvals :
        /\ e \in m.ps.awards
        /\ m.ps.heard[e] = <<>>

AnswersStand(m) ==
    \A k \in Key : /\ m.ps.conv[k].answers = disk.conv[k].answers
                   /\ m.ps.conv[k].last = disk.conv[k].last

CopyIsSound(m) ==
    /\ RecordIsSound(m.ps) /\ QueuesAreSound(m) /\ FiresAreNew(m) /\ AnswersStand(m)
    /\ burst <= Page => DecidedOnce(m.ps, Ids(m.todo) \cup Ids(m.retry))

IInv ==
    /\ Types
    /\ EventsArePlaced /\ BotsArePlaced /\ LastIsKnown
    /\ DiskIsSound
    /\ mem # None => CopyIsSound(mem)

-----------------------------------------------------------------------------
(* The order of events *)

\* The members of a finite set of numbers are numbered in their order.
LEMMA RankIsBijective ==
    ASSUME NEW S \in SUBSET Nat, IsFiniteSet(S)
    PROVE  /\ Cardinality(S) \in Nat
           /\ \A e \in S : Rank(S, e) \in 1..Cardinality(S)
           /\ \A e, f \in S : Rank(S, e) = Rank(S, f) => e = f
           /\ \A j \in 1..Cardinality(S) : \E e \in S : Rank(S, e) = j
<1> DEFINE Upto(e) == {f \in S : f <= e}
           n == Cardinality(S)
           rank == [e \in S |-> Rank(S, e)]
<1>1. n \in Nat
    BY FS_CardinalityType
<1>2. \A e \in S : IsFiniteSet(Upto(e)) /\ Cardinality(Upto(e)) \in 1..n
    <2> TAKE e \in S
    <2>1. Upto(e) \in SUBSET S /\ e \in Upto(e)
        OBVIOUS
    <2>2. IsFiniteSet(Upto(e)) /\ Cardinality(Upto(e)) <= n
        BY <2>1, FS_Subset
    <2>3. Cardinality(Upto(e)) \in Nat /\ Cardinality(Upto(e)) # 0
        BY <2>1, <2>2, FS_CardinalityType, FS_EmptySet
    <2> QED
        BY <1>1, <2>2, <2>3
<1>3. \A e, f \in S : e < f => Cardinality(Upto(e)) < Cardinality(Upto(f))
    <2> SUFFICES ASSUME NEW e \in S, NEW f \in S, e < f
                 PROVE  Cardinality(Upto(e)) < Cardinality(Upto(f))
        OBVIOUS
    <2>1. e \in Nat /\ f \in Nat /\ \A g \in S : g \in Nat
        OBVIOUS
    <2>2. Upto(e) \in SUBSET Upto(f)
        <3>1. \A g \in S : g <= e => g <= f
            BY <2>1
        <3> QED
            BY <3>1
    <2>3. f \in Upto(f) /\ f \notin Upto(e)
        BY <2>1
    <2>4. /\ Cardinality(Upto(e)) <= Cardinality(Upto(f))
          /\ Cardinality(Upto(f)) = Cardinality(Upto(e)) => Upto(f) = Upto(e)
        BY <1>2, <2>2, FS_Subset
    <2> QED
        BY <1>2, <2>3, <2>4
<1>4. \A e \in S : Rank(S, e) = Cardinality(Upto(e)) /\ rank[e] = Rank(S, e)
    BY DEF Rank
<1> HIDE DEF Upto, rank
<1>5. \A e, f \in S : Rank(S, e) = Rank(S, f) => e = f
    <2> SUFFICES ASSUME NEW e \in S, NEW f \in S, Rank(S, e) = Rank(S, f)
                 PROVE  e = f
        OBVIOUS
    <2>1. ~(e < f) /\ ~(f < e)
        BY <1>2, <1>3, <1>4
    <2> QED
        BY <2>1
<1>6. rank \in Injection(S, 1..n)
    BY <1>2, <1>4, <1>5 DEF Injection, IsInjective, rank
<1>7. IsFiniteSet(1..n) /\ Cardinality(1..n) = n
    BY <1>1, FS_Interval
<1>8. rank \in Surjection(S, 1..n)
    BY <1>6, <1>7, FS_Injection
<1>9. \A j \in 1..n : \E e \in S : Rank(S, e) = j
    BY <1>4, <1>8 DEF Surjection
<1> QED
    BY <1>1, <1>2, <1>4, <1>5, <1>9

\* Nth runs through a set once.
LEMMA NthInOrder ==
    ASSUME NEW S \in SUBSET Nat, IsFiniteSet(S)
    PROVE  /\ Cardinality(S) \in Nat
           /\ \A j \in 1..Cardinality(S) : Nth(S, j) \in S
           /\ \A i, j \in 1..Cardinality(S) : Nth(S, i) = Nth(S, j) => i = j
           /\ \A e \in S : \E j \in 1..Cardinality(S) : Nth(S, j) = e
<1>1. /\ Cardinality(S) \in Nat
      /\ \A e \in S : Rank(S, e) \in 1..Cardinality(S)
      /\ \A e, f \in S : Rank(S, e) = Rank(S, f) => e = f
      /\ \A j \in 1..Cardinality(S) : \E e \in S : Rank(S, e) = j
    BY RankIsBijective
<1>2. \A j \in 1..Cardinality(S) : Nth(S, j) \in S /\ Rank(S, Nth(S, j)) = j
    BY <1>1 DEF Nth
<1> QED
    BY <1>1, <1>2

\* The newest of some events exists.
LEMMA NewestIsLast ==
    ASSUME NEW S \in SUBSET Nat, IsFiniteSet(S), S # {}
    PROVE  Newest(S) \in S /\ \A f \in S : f <= Newest(S)
<1>1. /\ Cardinality(S) \in Nat
      /\ \A j \in 1..Cardinality(S) : \E e \in S : Rank(S, e) = j
    BY RankIsBijective
<1>2. Cardinality(S) # 0
    BY FS_EmptySet
<1>3. PICK e \in S : Rank(S, e) = Cardinality(S)
    BY <1>1, <1>2
<1>4. {f \in S : f <= e} = S
    BY <1>3, FS_Subset DEF Rank
<1> QED
    BY <1>4 DEF Newest

-----------------------------------------------------------------------------
(* Queues of gestures *)

\* A queue of gestures without its first is one.
LEMMA FirstIsTaken ==
    ASSUME NEW q \in Seq(Gestures), q # <<>>, Distinct(q), GesturesAreComments(q)
    PROVE  /\ Tail(q) \in Seq(Gestures) /\ Head(q) \in Gestures
           /\ Head(q).e \in DOMAIN events /\ IsComment(Head(q).e)
           /\ Head(q).disc \in {None, events[Head(q).e].disc}
           /\ Ids(Tail(q)) = Ids(q) \ {Head(q).e} /\ Head(q).e \in Ids(q)
           /\ Distinct(Tail(q)) /\ GesturesAreComments(Tail(q))
<1>1. /\ Tail(q) \in Seq(Gestures) /\ Len(Tail(q)) = Len(q) - 1
      /\ \A j \in 1..Len(Tail(q)) : Tail(q)[j] = q[j + 1]
      /\ Head(q) = q[1] /\ 1 \in 1..Len(q) /\ Len(q) \in Nat
    OBVIOUS
<1>2. DOMAIN q = 1..Len(q) /\ DOMAIN Tail(q) = 1..Len(Tail(q))
    BY <1>1
<1>3. \A j \in 1..Len(Tail(q)) : j + 1 \in 1..Len(q) /\ j + 1 # 1
    BY <1>1
<1>4. Distinct(Tail(q)) /\ GesturesAreComments(Tail(q))
    BY <1>1, <1>2, <1>3 DEF Distinct, GesturesAreComments
<1>5. Ids(Tail(q)) = Ids(q) \ {Head(q).e}
    <2>1. Ids(Tail(q)) \subseteq Ids(q) \ {Head(q).e}
        BY <1>1, <1>2, <1>3 DEF Ids, Distinct
    <2>2. ASSUME NEW x \in Ids(q) \ {Head(q).e}
          PROVE  x \in Ids(Tail(q))
        <3>1. PICK j \in 1..Len(q) : q[j].e = x
            BY <1>2 DEF Ids
        <3>2. j # 1
            BY <1>1, <3>1
        <3>3. j - 1 \in 1..Len(Tail(q)) /\ (j - 1) + 1 = j
            BY <1>1, <3>2
        <3>4. Tail(q)[j - 1].e = x
            BY <1>1, <3>1, <3>3
        <3> QED
            BY <1>2, <3>3, <3>4 DEF Ids
    <2> QED
        BY <2>1, <2>2
<1>6. Head(q) \in Gestures /\ Head(q).e \in Ids(q)
    BY <1>1, <1>2 DEF Ids
<1>7. /\ Head(q).e \in DOMAIN events /\ IsComment(Head(q).e)
      /\ Head(q).disc \in {None, events[Head(q).e].disc}
    BY <1>1, <1>2 DEF GesturesAreComments
<1> QED
    BY <1>1, <1>4, <1>5, <1>6, <1>7

\* A gesture that was in no queue is put at the end of one.
LEMMA OneIsPutOff ==
    ASSUME NEW q \in Seq(Gestures), Distinct(q), GesturesAreComments(q),
           NEW g \in Gestures, g.e \notin Ids(q),
           g.e \in DOMAIN events, IsComment(g.e), g.disc \in {None, events[g.e].disc}
    PROVE  /\ Append(q, g) \in Seq(Gestures)
           /\ Ids(Append(q, g)) = Ids(q) \cup {g.e}
           /\ Distinct(Append(q, g)) /\ GesturesAreComments(Append(q, g))
<1> DEFINE r == Append(q, g)
<1>1. /\ r \in Seq(Gestures) /\ Len(r) = Len(q) + 1 /\ Len(q) \in Nat
      /\ DOMAIN r = 1..(Len(q) + 1) /\ DOMAIN q = 1..Len(q)
      /\ \A j \in 1..Len(q) : r[j] = q[j]
      /\ r[Len(q) + 1] = g
    OBVIOUS
<1>2. \A j \in 1..(Len(q) + 1) : j \in 1..Len(q) \/ j = Len(q) + 1
    BY <1>1
<1>3. Len(q) + 1 \in 1..(Len(q) + 1) /\ 1..Len(q) \subseteq 1..(Len(q) + 1)
    BY <1>1
<1> HIDE DEF r
<1>4. Ids(r) = Ids(q) \cup {g.e}
    BY <1>1, <1>2, <1>3 DEF Ids
<1>5. Distinct(r)
    BY <1>1, <1>2 DEF Distinct, Ids
<1>6. GesturesAreComments(r)
    BY <1>1, <1>2 DEF GesturesAreComments
<1> QED
    BY <1>1, <1>4, <1>5, <1>6 DEF r

-----------------------------------------------------------------------------
(* What a decision does to a record *)

\* The events are numbered from 1, and their numbers are of the model.
LEMMA EventsAreNumbered ==
    ASSUME Types
    PROVE  /\ Len(events) \in Nat /\ DOMAIN events = 1..Len(events)
           /\ DOMAIN events \subseteq Event /\ Event \subseteq Nat
           /\ \A e \in DOMAIN events : events[e] \in EventRecord
BY IntakeAssumption DEF Types, Event

\* Recording the issue of a merge request keeps a record sound.
LEMMA RecordedKeeps ==
    ASSUME Types, NEW r \in Record, RecordIsSound(r),
           NEW k \in Key \cup {None}, On \in MR /\ k \in Issue => k = marker[On]
    PROVE  /\ Recorded(r, k) \in Record /\ RecordIsSound(Recorded(r, k))
           /\ \E x \in [MR -> Issue \cup {None}] : Recorded(r, k) = [r EXCEPT !.index = x]
<1>1. CASE On \in MR /\ r.index[On] = None /\ k \in Issue
    <2> DEFINE x == [r.index EXCEPT ![On] = k]
    <2>1. Recorded(r, k) = [r EXCEPT !.index = x]
        BY <1>1 DEF Recorded, Record
    <2>2. x \in [MR -> Issue \cup {None}] /\ \A m \in MR : x[m] \in {None, marker[m]}
        BY <1>1 DEF Record, RecordIsSound, ConversationsAreHome
    <2> HIDE DEF x
    <2>3. Recorded(r, k) \in Record
        BY <2>1, <2>2 DEF Record
    <2>4. /\ Recorded(r, k).conv = r.conv /\ Recorded(r, k).index = x
          /\ Recorded(r, k).heard = r.heard /\ Recorded(r, k).cursor = r.cursor
          /\ Recorded(r, k).consumed = r.consumed /\ Recorded(r, k).awards = r.awards
        BY <2>1, <2>2 DEF Record
    <2>5. ConversationsAreHome(Recorded(r, k))
        BY <2>2, <2>4 DEF RecordIsSound, ConversationsAreHome
    <2>6. GesturesAreRemembered(Recorded(r, k))
        BY <2>4 DEF RecordIsSound, GesturesAreRemembered, Past
    <2>7. RepliesAreHome(Recorded(r, k)) /\ NothingAhead(Recorded(r, k))
        BY <2>4 DEF RecordIsSound, RepliesAreHome, NothingAhead
    <2> QED
        BY <2>1, <2>2, <2>3, <2>5, <2>6, <2>7 DEF RecordIsSound
<1>2. CASE ~(On \in MR /\ r.index[On] = None /\ k \in Issue)
    <2>1. Recorded(r, k) = r /\ r.index \in [MR -> Issue \cup {None}]
        BY <1>2 DEF Recorded, Record
    <2>2. r = [r EXCEPT !.index = r.index]
        BY DEF Record
    <2> QED
        BY <2>1, <2>2
<1> QED
    BY <1>1, <1>2

\* One more decision of the comment e.
OneMore(h, e, to) == [h EXCEPT ![e] = Append(@, to)]

\* One more decision about a comment, and no other change of what was heard.
LEMMA OneMoreKeeps ==
    ASSUME Types, NEW r \in Record, RecordIsSound(r), NEW s \in Record,
           NEW e \in DOMAIN events, IsComment(e), NEW to \in Key \cup {None},
           events[e].kind = "plain" /\ to \in Key => GoesHome(e, to),
           s.heard = OneMore(r.heard, e, to), s.cursor = r.cursor,
           s.consumed = r.consumed, s.awards = r.awards
    PROVE  /\ GesturesAreRemembered(s) /\ RepliesAreHome(s) /\ NothingAhead(s)
           /\ Len(s.heard[e]) = Len(r.heard[e]) + 1
           /\ \A f \in Event \ {e} : s.heard[f] = r.heard[f]
<1>1. /\ e \in Event /\ DOMAIN events \subseteq Event
      /\ r.heard \in [Event -> Seq(Key \cup {None})]
    BY EventsAreNumbered DEF Record
<1>2. /\ \A f \in Event \ {e} : s.heard[f] = r.heard[f]
      /\ s.heard[e] = Append(r.heard[e], to) /\ r.heard[e] \in Seq(Key \cup {None})
    BY <1>1 DEF OneMore
<1>3. GesturesAreRemembered(s)
    <2>1. events[e].kind \notin {"label", "award"}
        BY DEF IsComment, Comments
    <2>2. \A f \in DOMAIN events : events[f].kind \in {"label", "award"} => s.heard[f] = r.heard[f]
        BY <1>1, <1>2, <2>1
    <2>3. \A f \in DOMAIN events : Past(s, f) <=> Past(r, f)
        BY DEF Past
    <2> QED
        BY <2>2, <2>3 DEF RecordIsSound, GesturesAreRemembered
<1>4. RepliesAreHome(s)
    <2> SUFFICES ASSUME NEW f \in DOMAIN events, events[f].kind = "plain",
                        NEW j \in DOMAIN s.heard[f], s.heard[f][j] \in Key
                 PROVE  GoesHome(f, s.heard[f][j])
        BY DEF RepliesAreHome
    <2>1. CASE f # e
        BY <1>1, <1>2, <2>1 DEF RecordIsSound, RepliesAreHome
    <2>2. CASE f = e
        <3>1. CASE j \in DOMAIN r.heard[e]
            <4>1. s.heard[f][j] = r.heard[e][j]
                BY <1>2, <2>2, <3>1
            <4> QED
                BY <2>2, <3>1, <4>1 DEF RecordIsSound, RepliesAreHome
        <3>2. CASE j \notin DOMAIN r.heard[e]
            <4>1. s.heard[f][j] = to
                BY <1>2, <2>2, <3>2
            <4> QED
                BY <2>2, <4>1
        <3> QED
            BY <3>1, <3>2
    <2> QED
        BY <2>1, <2>2
<1>5. NothingAhead(s)
    BY <1>1, <1>2 DEF RecordIsSound, NothingAhead
<1>6. Len(s.heard[e]) = Len(r.heard[e]) + 1
    BY <1>2
<1> QED
    BY <1>2, <1>3, <1>4, <1>5, <1>6

\* A comment that was to be decided is.
LEMMA DecidedNow ==
    ASSUME Types, NEW r \in Record, NEW s \in Record, NEW open, DecidedOnce(r, open),
           NEW e \in DOMAIN events, IsComment(e), e \in open, s.cursor = r.cursor,
           Len(s.heard[e]) = Len(r.heard[e]) + 1,
           \A f \in Event \ {e} : s.heard[f] = r.heard[f]
    PROVE  DecidedOnce(s, open \ {e})
<1> SUFFICES ASSUME NEW f \in DOMAIN events, IsComment(f)
             PROVE  IF f > s.cursor THEN s.heard[f] = <<>> /\ f \notin open \ {e}
                    ELSE Len(s.heard[f]) = (IF f \in open \ {e} THEN 0 ELSE 1)
    BY DEF DecidedOnce
<1>1. IF f > r.cursor THEN r.heard[f] = <<>> /\ f \notin open
      ELSE Len(r.heard[f]) = (IF f \in open THEN 0 ELSE 1)
    BY DEF DecidedOnce
<1>2. f \in Event
    BY EventsAreNumbered
<1>3. CASE f # e
    BY <1>1, <1>2, <1>3
<1>4. CASE f = e
    <2>1. ~(e > r.cursor) /\ Len(r.heard[e]) = 0
        BY <1>1, <1>4
    <2>2. Len(s.heard[e]) = 1
        BY <2>1
    <2> QED
        BY <1>4, <2>1, <2>2
<1> QED
    BY <1>3, <1>4

\* A comment that is decided for nothing, or for a conversation.
LEMMA DecidedKeeps ==
    ASSUME Types, NEW r \in Record, RecordIsSound(r),
           NEW e \in DOMAIN events, IsComment(e), NEW to \in Key \cup {None},
           events[e].kind = "plain" /\ to \in Key => GoesHome(e, to)
    PROVE  LET s == Decided(r, e, to)
           IN  /\ s \in Record /\ RecordIsSound(s) /\ s.heard = OneMore(r.heard, e, to)
               /\ s.cursor = r.cursor /\ s.consumed = r.consumed /\ s.awards = r.awards
               /\ s.conv = r.conv
<1> DEFINE s == Decided(r, e, to)
<1>1. e \in Event
    BY EventsAreNumbered
<1>2. /\ s.heard = OneMore(r.heard, e, to) /\ s.cursor = r.cursor
      /\ s.consumed = r.consumed /\ s.awards = r.awards
      /\ s.conv = r.conv /\ s.index = r.index
    BY DEF Decided, OneMore, Record
<1>3. OneMore(r.heard, e, to) \in [Event -> Seq(Key \cup {None})]
    <2>1. r.heard \in [Event -> Seq(Key \cup {None})]
        BY DEF Record
    <2> QED
        BY <1>1, <2>1 DEF OneMore
<1>4. s \in Record
    <2>1. s = [r EXCEPT !.heard = OneMore(r.heard, e, to)]
        BY DEF Decided, OneMore
    <2> QED
        BY <1>3, <2>1 DEF Record
<1> HIDE DEF s
<1>5. GesturesAreRemembered(s) /\ RepliesAreHome(s) /\ NothingAhead(s)
    BY <1>2, <1>4, OneMoreKeeps
<1>6. ConversationsAreHome(s)
    BY <1>2 DEF RecordIsSound, ConversationsAreHome
<1> QED
    BY <1>2, <1>4, <1>5, <1>6 DEF RecordIsSound, s

\* A comment that is queued for a conversation that may answer it there.
LEMMA QueuedKeeps ==
    ASSUME Types, NEW r \in Record, RecordIsSound(r),
           NEW e \in DOMAIN events, IsComment(e), NEW k \in Key,
           Home(k, events[e].on), k \in Event => k \in DOMAIN events,
           events[e].kind = "plain" => GoesHome(e, k)
    PROVE  LET s == Queued(r, k, e)
           IN  /\ s \in Record /\ RecordIsSound(s) /\ s.heard = OneMore(r.heard, e, k)
               /\ s.cursor = r.cursor /\ s.consumed = r.consumed /\ s.awards = r.awards
               /\ \A l \in Key : /\ s.conv[l].answers = r.conv[l].answers
                                 /\ s.conv[l].last = r.conv[l].last
<1> DEFINE s == Queued(r, k, e)
           d == Decided(r, e, k)
           c == Asked(r.conv[k], e)
<1>1. e \in Event
    BY EventsAreNumbered
<1>2. /\ d \in Record /\ RecordIsSound(d) /\ d.heard = OneMore(r.heard, e, k)
      /\ d.cursor = r.cursor /\ d.consumed = r.consumed /\ d.awards = r.awards
      /\ d.conv = r.conv
    BY DecidedKeeps
<1>3. r.conv[k] \in Conversation /\ r.conv \in [Key -> Conversation]
    BY DEF Record
<1>4. /\ c \in Conversation /\ c.answers = r.conv[k].answers /\ c.last = r.conv[k].last
      /\ c.next = e /\ c.reply = r.conv[k].reply /\ c.status # "absent"
      /\ c.status = "working" => r.conv[k].status = "working"
    BY <1>1, <1>3 DEF Asked, Conversation, Statuses
<1> HIDE DEF d, c
<1>5. s = [d EXCEPT !.conv = [r.conv EXCEPT ![k] = c]]
    BY <1>2 DEF Queued, d, c
<1> HIDE DEF s
<1>6. [r.conv EXCEPT ![k] = c] \in [Key -> Conversation]
    BY <1>3, <1>4
<1>7. s \in Record
    BY <1>2, <1>5, <1>6 DEF Record
<1>8. /\ s.conv = [r.conv EXCEPT ![k] = c] /\ s.heard = d.heard /\ s.cursor = d.cursor
      /\ s.consumed = d.consumed /\ s.awards = d.awards /\ s.index = d.index
    BY <1>2, <1>5, <1>6 DEF Record
<1>9. ConversationsAreHome(s)
    <2>1. ConversationsAreHome(d)
        BY <1>2 DEF RecordIsSound
    <2>2. \A l \in Key \ {k} : s.conv[l] = d.conv[l]
        BY <1>2, <1>3, <1>8
    <2>3. s.conv[k] = c
        BY <1>3, <1>8
    <2>4. ASSUME NEW l \in Key
          PROVE  LET x == s.conv[l] IN
                 /\ x.status = "absent" => x = Absent
                 /\ x.status # "absent" => x.next # None /\ (l \in Event => l \in DOMAIN events)
                 /\ x.status = "working" => x.reply # None
                 /\ SpokenWith(l, x.next) /\ SpokenWith(l, x.reply)
        <3>1. CASE l # k
            BY <2>1, <2>2, <3>1 DEF ConversationsAreHome
        <3>2. CASE l = k
            <4>1. /\ d.conv[k].status = "working" => d.conv[k].reply # None
                  /\ SpokenWith(k, d.conv[k].reply)
                BY <2>1 DEF ConversationsAreHome
            <4>2. SpokenWith(k, e) /\ e # None
                BY <1>1, IntakeAssumption DEF SpokenWith, Event
            <4> QED
                BY <1>2, <1>4, <2>3, <3>2, <4>1, <4>2
        <3> QED
            BY <3>1, <3>2
    <2>5. \A m \in MR : s.index[m] \in {None, marker[m]}
        BY <1>8, <2>1 DEF ConversationsAreHome
    <2> QED
        BY <2>4, <2>5 DEF ConversationsAreHome
<1>10. GesturesAreRemembered(s) /\ RepliesAreHome(s) /\ NothingAhead(s)
    BY <1>2, <1>7, <1>8, OneMoreKeeps
<1>11. \A l \in Key : s.conv[l].answers = r.conv[l].answers /\ s.conv[l].last = r.conv[l].last
    BY <1>3, <1>4, <1>8
<1> QED
    BY <1>2, <1>7, <1>8, <1>9, <1>10, <1>11 DEF RecordIsSound, s

-----------------------------------------------------------------------------
(* Steps that leave GitLab as it is *)

\* What is remembered of labels and awards depends on the events alone.
LEMMA SameEvents ==
    ASSUME events' = events, NEW r
    PROVE  GesturesAreRemembered(r)' <=> GesturesAreRemembered(r)
BY DEF GesturesAreRemembered, Past, IsKept

\* A record is as sound as GitLab is, whatever else a step does.
LEMMA SameGitLab ==
    ASSUME UNCHANGED gitlab, NEW r
    PROVE  RecordIsSound(r)' <=> RecordIsSound(r)
<1>1. /\ events' = events /\ labelled' = labelled /\ bots' = bots /\ marker' = marker
    BY DEF gitlab
<1>2. ConversationsAreHome(r)' <=> ConversationsAreHome(r)
    BY <1>1 DEF ConversationsAreHome, SpokenWith, Home
<1>3. GesturesAreRemembered(r)' <=> GesturesAreRemembered(r)
    BY <1>1, SameEvents
<1>4. RepliesAreHome(r)' <=> RepliesAreHome(r)
    BY <1>1 DEF RepliesAreHome, GoesHome, MovedOn
<1>5. NothingAhead(r)' <=> NothingAhead(r)
    BY <1>1 DEF NothingAhead
<1> QED
    BY <1>2, <1>3, <1>4, <1>5 DEF RecordIsSound

\* The same of the queues and of what was decided.
LEMMA SameGitLabQueue ==
    ASSUME UNCHANGED gitlab, NEW q, NEW r, NEW open
    PROVE  /\ GesturesAreComments(q)' <=> GesturesAreComments(q)
           /\ DecidedOnce(r, open)' <=> DecidedOnce(r, open)
<1>1. events' = events
    BY DEF gitlab
<1>2. GesturesAreComments(q)' <=> GesturesAreComments(q)
    BY <1>1 DEF GesturesAreComments, IsComment
<1>3. DecidedOnce(r, open)' <=> DecidedOnce(r, open)
    BY <1>1 DEF DecidedOnce, IsComment
<1> QED
    BY <1>2, <1>3

\* A step that leaves GitLab and the record on disk as they are.
LEMMA DiskStays ==
    ASSUME IInv, UNCHANGED <<gitlab, disk>>, failures' \in Nat,
           burst' \in Nat, burst <= burst', mem' # None => mem' \in Copy
    PROVE  Types' /\ EventsArePlaced' /\ BotsArePlaced' /\ LastIsKnown' /\ DiskIsSound'
<1>1. /\ events' = events /\ labelled' = labelled /\ bots' = bots /\ marker' = marker
      /\ disk' = disk
    BY DEF gitlab
<1>2. Types'
    BY <1>1 DEF IInv, Types
<1>3. EventsArePlaced' /\ BotsArePlaced' /\ LastIsKnown'
    <2>1. EventsArePlaced'
        BY <1>1 DEF IInv, EventsArePlaced, Placed, Of, IsComment
    <2>2. BotsArePlaced'
        BY <1>1 DEF IInv, BotsArePlaced, Placed, Home
    <2>3. LastIsKnown'
        BY <1>1 DEF IInv, LastIsKnown
    <2> QED
        BY <2>1, <2>2, <2>3
<1>4. DiskIsSound'
    <2> PICK r : r = disk
        OBVIOUS
    <2>1. /\ RecordIsSound(r)' /\ GesturesAreComments(r.retry)' /\ Distinct(r.retry)
          /\ \A e \in Ids(r.retry) : e <= r.cursor
        BY SameGitLab, SameGitLabQueue DEF IInv, DiskIsSound
    <2>2. burst' <= Page => DecidedOnce(r, Ids(r.retry))'
        <3>1. burst' <= Page => burst <= Page
            BY IntakeAssumption DEF IInv, Types
        <3>2. burst <= Page => DecidedOnce(r, Ids(r.retry))
            BY DEF IInv, DiskIsSound
        <3>3. PICK open : open = Ids(r.retry)
            OBVIOUS
        <3> QED
            BY <3>1, <3>2, <3>3, SameGitLabQueue
    <2>3. r = disk'
        BY <1>1
    <2> QED
        BY <2>1, <2>2, <2>3 DEF DiskIsSound
<1> QED
    BY <1>2, <1>3, <1>4

\* A poll that goes on to the copy m.
LEMMA CopyMoves ==
    ASSUME IInv, UNCHANGED <<gitlab, disk>>, failures' \in Nat,
           burst' \in Nat, burst <= burst',
           NEW m \in Copy, mem' = m,
           RecordIsSound(m.ps), QueuesAreSound(m), FiresAreNew(m), AnswersStand(m),
           burst' <= Page => DecidedOnce(m.ps, Ids(m.todo) \cup Ids(m.retry))
    PROVE  IInv'
<1>1. events' = events /\ disk' = disk
    BY DEF gitlab
<1>2. CopyIsSound(m)'
    <2>1. RecordIsSound(m.ps)'
        BY SameGitLab
    <2>2. QueuesAreSound(m)'
        BY SameGitLabQueue DEF QueuesAreSound
    <2>3. FiresAreNew(m)'
        BY <1>1 DEF FiresAreNew, IsKept, Past
    <2>4. AnswersStand(m)'
        BY <1>1 DEF AnswersStand
    <2>5. PICK open : open = Ids(m.todo) \cup Ids(m.retry)
        OBVIOUS
    <2>6. burst' <= Page => DecidedOnce(m.ps, Ids(m.todo) \cup Ids(m.retry))'
        BY <2>5, SameGitLabQueue
    <2> QED
        BY <2>1, <2>2, <2>3, <2>4, <2>6 DEF CopyIsSound
<1>3. CopyIsSound(mem)'
    BY <1>2
<1>4. Types' /\ EventsArePlaced' /\ BotsArePlaced' /\ LastIsKnown' /\ DiskIsSound'
    BY DiskStays
<1> QED
    BY <1>3, <1>4 DEF IInv

\* A poll that ends without its commit.
LEMMA AbandonKeeps ==
    ASSUME IInv, Abandon
    PROVE  IInv'
<1>1. UNCHANGED <<gitlab, disk, burst>> /\ mem' = None /\ failures' \in Nat /\ burst \in Nat
    BY DEF Abandon, Fail, IInv, Types
<1>2. Types' /\ EventsArePlaced' /\ BotsArePlaced' /\ LastIsKnown' /\ DiskIsSound'
    BY <1>1, DiskStays
<1> QED
    BY <1>1, <1>2 DEF IInv

-----------------------------------------------------------------------------
(* Which conversation a gesture is for *)

\* What is known of the gesture to be decided.
LEMMA GestureIsAComment ==
    ASSUME IInv, Deciding
    PROVE  /\ Types /\ mem \in Copy /\ mem.ps \in Record /\ CopyIsSound(mem)
           /\ mem.todo \in Seq(Gestures) /\ mem.todo # <<>>
           /\ Gesture \in Gestures /\ Gesture.e \in DOMAIN events /\ Gesture.e \in Event
           /\ IsComment(Gesture.e) /\ Gesture.disc \in {None, events[Gesture.e].disc}
           /\ Gesture.e \in Ids(mem.todo) /\ Gesture.e \notin Ids(mem.retry)
           /\ On \in Issue \cup MR /\ (On \in Issue <=> On \notin MR)
<1>1. Types /\ mem \in Copy /\ CopyIsSound(mem) /\ mem.todo # <<>>
    BY DEF IInv, Types, Deciding, At
<1>2. mem.ps \in Record /\ mem.todo \in Seq(Gestures)
    BY <1>1 DEF Copy
<1>3. Distinct(mem.todo) /\ GesturesAreComments(mem.todo) /\ Ids(mem.todo) \cap Ids(mem.retry) = {}
    BY <1>1 DEF CopyIsSound, QueuesAreSound
<1>4. /\ Gesture \in Gestures /\ Gesture.e \in DOMAIN events
      /\ IsComment(Gesture.e) /\ Gesture.disc \in {None, events[Gesture.e].disc}
      /\ Gesture.e \in Ids(mem.todo) /\ Gesture.e \notin Ids(mem.retry)
    BY <1>1, <1>2, <1>3, FirstIsTaken DEF Gesture
<1>5. Gesture.e \in Event /\ events[Gesture.e] \in EventRecord
    BY <1>1, <1>4, EventsAreNumbered
<1>6. On \in Issue \cup MR /\ (On \in Issue <=> On \notin MR)
    BY <1>5, IntakeAssumption DEF On, EventRecord, Surface
<1> QED
    BY <1>1, <1>2, <1>4, <1>5, <1>6

\* A merge request's own conversation is looked for where it was opened.
LEMMA ThreadIsHome ==
    ASSUME IInv, Deciding, NEW k \in ThreadOf
    PROVE  /\ k \in Event /\ k \in Key /\ k \in DOMAIN events /\ Exists(k) /\ On \in MR
           /\ events[k].on = On /\ Home(k, On)
           /\ Gesture.disc = events[Gesture.e].disc
           /\ Gesture.disc \in {events[k].disc, Conv[k].last}
<1>1. /\ On \in MR /\ Gesture.disc # None /\ k \in Event /\ Exists(k) /\ events[k].on = On
      /\ Gesture.disc \in {events[k].disc, Conv[k].last}
    BY DEF ThreadOf, Standalone
<1>2. k \in Key
    BY <1>1 DEF Key
<1>3. k \in DOMAIN events
    BY <1>1, <1>2, GestureIsAComment
       DEF CopyIsSound, RecordIsSound, ConversationsAreHome, Exists, Conv
<1>4. Home(k, On)
    BY <1>1, <1>3, GestureIsAComment DEF Home
<1> QED
    BY <1>1, <1>2, <1>3, <1>4, GestureIsAComment

\* Without one, a comment is for the issue it is on or that the marker names.
LEMMA BelongsIsHome ==
    ASSUME IInv, Deciding
    PROVE  /\ Belongs \in Issue \cup {None}
           /\ On \in MR => Belongs = marker[On]
           /\ Belongs # None => Belongs \in Key /\ Belongs \notin Event /\ Home(Belongs, On)
           /\ Belongs = None => On \in MR
<1>1. On \in MR => mem.ps.index[On] \in {None, marker[On]}
    BY GestureIsAComment DEF CopyIsSound, RecordIsSound, ConversationsAreHome
<1>2. On \in MR => Belongs = marker[On] /\ marker[On] \in Issue \cup {None}
    BY <1>1, GestureIsAComment DEF Belongs, Indexed, Types
<1>3. On \in Issue => Belongs = On
    BY DEF Belongs
<1>4. Belongs \in Issue => Belongs \in Key /\ Belongs \notin Event
    BY IntakeAssumption DEF Key, Event
<1> QED
    BY <1>2, <1>3, <1>4, GestureIsAComment, IntakeAssumption DEF Home

\* A comment and a note of the bot in one discussion are on one issue or
\* merge request.
LEMMA OneDiscussionOnePlace ==
    ASSUME IInv, NEW e \in DOMAIN events, IsComment(e),
           NEW b \in bots, b.disc = events[e].disc
    PROVE  b.on = events[e].on
<1>1. Placed(b.disc, b.on) /\ Placed(b.disc, events[e].on)
    BY DEF IInv, EventsArePlaced, BotsArePlaced
<1>2. CASE b.disc[1] = None
    BY <1>1, <1>2 DEF Placed
<1>3. CASE b.disc[1] # None
    <2>1. PICK c \in bots : c.by = b.disc[1] /\ c.n = b.disc[2] /\ c.on = b.on
        BY <1>1, <1>3 DEF Placed
    <2>2. PICK d \in bots : d.by = b.disc[1] /\ d.n = b.disc[2] /\ d.on = events[e].on
        BY <1>1, <1>3 DEF Placed
    <2>3. c = d
        BY <2>1, <2>2 DEF IInv, BotsArePlaced
    <2> QED
        BY <2>1, <2>2, <2>3
<1> QED
    BY <1>2, <1>3

\* The conversation of a note of the bot exists, and its last answer is known.
LEMMA SpeakerIsKnown ==
    ASSUME IInv, Deciding, NEW b \in bots
    PROVE  /\ b.by \in Key /\ Exists(b.by) /\ Home(b.by, b.on) /\ b.n \in Nat
           /\ \E c \in bots : /\ c.by = b.by /\ c.n \in Nat /\ b.n <= c.n
                              /\ c.disc = Conv[b.by].last
           /\ \A c \in bots : c.by = b.by /\ c.n = b.n => c = b
<1>1. /\ b \in BotNote /\ disk \in Record /\ Home(b.by, b.on)
      /\ b.n \in 1..disk.conv[b.by].answers
      /\ \A c \in bots : c.by = b.by /\ c.n = b.n => c = b
    BY DEF IInv, Types, BotsArePlaced
<1>2. b.by \in Key /\ disk.conv[b.by] \in Conversation
    BY <1>1 DEF BotNote, Record
<1>3. b.n \in Nat /\ disk.conv[b.by].answers \in Nat /\ disk.conv[b.by].answers # 0
      /\ b.n <= disk.conv[b.by].answers
    BY <1>1, <1>2 DEF Conversation
<1>4. /\ Conv[b.by].answers = disk.conv[b.by].answers
      /\ Conv[b.by].last = disk.conv[b.by].last
      /\ Conv[b.by].status = "absent" => Conv[b.by] = Absent
    BY <1>2, GestureIsAComment
       DEF CopyIsSound, AnswersStand, RecordIsSound, ConversationsAreHome, Conv
<1>5. Exists(b.by)
    BY <1>3, <1>4 DEF Exists, Absent
<1>6. \E c \in bots : /\ c.by = b.by /\ c.n = disk.conv[b.by].answers
                      /\ c.disc = disk.conv[b.by].last
    BY <1>2, <1>3 DEF IInv, LastIsKnown
<1> QED
    BY <1>1, <1>2, <1>3, <1>4, <1>5, <1>6

\* A reply that resumes a conversation without a mention is at home there.
LEMMA ResumedGoesHome ==
    ASSUME IInv, Deciding, NEW k, NEW echo, Kind = "plain", Resumes(k, echo),
           k \in ThreadOf \/ (ThreadOf = {} /\ k = Belongs /\ k # None)
    PROVE  GoesHome(Gesture.e, k)
<1> DEFINE d == events[Gesture.e].disc
<1>1. /\ Gesture.disc # None /\ HasBot(Gesture.disc) /\ Gesture.disc = d
    BY GestureIsAComment DEF Resumes, Addressed
<1>2. PICK b \in bots : b.disc = d
    BY <1>1 DEF HasBot
<1>3. b.on = On
    BY <1>2, GestureIsAComment, OneDiscussionOnePlace DEF On
<1>4. CASE k \in ThreadOf
    <2>1. /\ k \in Event /\ k \in Key /\ k \in DOMAIN events
          /\ d \in {events[k].disc, Conv[k].last}
        BY <1>1, <1>4, ThreadIsHome
    <2>2. CASE d = events[k].disc
        BY <2>1, <2>2 DEF GoesHome
    <2>3. CASE d = Conv[k].last
        <3>1. disk.conv[k].last = d
            BY <2>1, <2>3, GestureIsAComment DEF CopyIsSound, AnswersStand, Conv
        <3>2. \E c \in bots : c.by = k /\ c.disc = d
            BY <1>1, <2>1, <3>1 DEF IInv, LastIsKnown
        <3> QED
            BY <3>2 DEF GoesHome
    <2> QED
        BY <2>1, <2>2, <2>3
<1>5. CASE ThreadOf = {} /\ k = Belongs /\ k # None
    <2>1. /\ b.by \in Key /\ Exists(b.by) /\ Home(b.by, On) /\ b.n \in Nat
          /\ \A c \in bots : c.by = b.by /\ c.n = b.n => c = b
        BY <1>3, SpeakerIsKnown
    <2>2. PICK c \in bots : /\ c.by = b.by /\ c.n \in Nat /\ b.n <= c.n
                            /\ c.disc = Conv[b.by].last
        BY SpeakerIsKnown
    <2>3. CASE On \in Issue
        <3>1. b.by = On /\ Belongs = On
            BY <2>1, <2>3 DEF Home, Belongs
        <3> QED
            BY <1>2, <1>5, <3>1 DEF GoesHome
    <2>4. CASE On \in MR /\ b.by = marker[On]
        BY <1>2, <1>5, <2>4, BelongsIsHome DEF GoesHome
    <2>5. CASE On \in MR /\ b.by \in DOMAIN events /\ events[b.by].on = On
        <3>1. b.by \in Event
            BY <2>5, GestureIsAComment, EventsAreNumbered
        <3>2. b.by \in Standalone(On)
            BY <2>1, <2>5, <3>1 DEF Standalone
        <3>3. d # Conv[b.by].last
            BY <1>1, <1>5, <2>5, <3>2 DEF ThreadOf
        <3>4. c # b
            BY <1>2, <2>2, <3>3
        <3>5. c.n > b.n
            BY <2>1, <2>2, <3>4
        <3>6. MovedOn(d)
            BY <1>2, <2>2, <3>1, <3>3, <3>5 DEF MovedOn
        <3>7. k = marker[On]
            BY <1>5, <2>5, BelongsIsHome
        <3> QED
            BY <2>5, <3>6, <3>7 DEF GoesHome, On
    <2> QED
        BY <2>1, <2>3, <2>4, <2>5, GestureIsAComment DEF Home
<1> QED
    BY <1>4, <1>5

-----------------------------------------------------------------------------
(* A gesture is decided, or put off *)

\* A record in which the gesture is decided.
HasDecided(ps) ==
    /\ ps \in Record /\ RecordIsSound(ps)
    /\ \E to \in Key \cup {None} : ps.heard = OneMore(mem.ps.heard, Gesture.e, to)
    /\ ps.cursor = mem.ps.cursor
    /\ ps.consumed = mem.ps.consumed /\ ps.awards = mem.ps.awards
    /\ \A k \in Key : /\ ps.conv[k].answers = mem.ps.conv[k].answers
                      /\ ps.conv[k].last = mem.ps.conv[k].last

\* The gesture is decided, for no conversation or for one.
LEMMA DecidedIsDecided ==
    ASSUME IInv, Deciding, NEW r, r \in Record, RecordIsSound(r),
           NEW x, r = [mem.ps EXCEPT !.index = x],
           NEW to \in Key \cup {None}, Kind = "plain" /\ to \in Key => GoesHome(Gesture.e, to)
    PROVE  HasDecided(Decided(r, Gesture.e, to))
<1>1. /\ r.heard = mem.ps.heard /\ r.cursor = mem.ps.cursor /\ r.conv = mem.ps.conv
      /\ r.consumed = mem.ps.consumed /\ r.awards = mem.ps.awards
    BY GestureIsAComment DEF Record
<1> DEFINE s == Decided(r, Gesture.e, to)
<1>2. /\ s \in Record /\ RecordIsSound(s) /\ s.heard = OneMore(r.heard, Gesture.e, to)
      /\ s.cursor = r.cursor /\ s.consumed = r.consumed /\ s.awards = r.awards
      /\ s.conv = r.conv
    <2>1. /\ Types /\ Gesture.e \in DOMAIN events /\ IsComment(Gesture.e)
          /\ events[Gesture.e].kind = "plain" /\ to \in Key => GoesHome(Gesture.e, to)
        BY GestureIsAComment DEF Kind
    <2> QED
        BY <2>1, DecidedKeeps
<1> HIDE DEF s
<1> QED
    BY <1>1, <1>2 DEF HasDecided, s

\* The gesture is queued for a conversation.
LEMMA QueuedIsDecided ==
    ASSUME IInv, Deciding, NEW r, r \in Record, RecordIsSound(r),
           NEW x, r = [mem.ps EXCEPT !.index = x],
           NEW k \in Key, Home(k, On), k \in Event => k \in DOMAIN events,
           Kind = "plain" => GoesHome(Gesture.e, k)
    PROVE  HasDecided(Queued(r, k, Gesture.e))
<1>1. /\ r.heard = mem.ps.heard /\ r.cursor = mem.ps.cursor /\ r.conv = mem.ps.conv
      /\ r.consumed = mem.ps.consumed /\ r.awards = mem.ps.awards
    BY GestureIsAComment DEF Record
<1>2. /\ Types /\ Gesture.e \in DOMAIN events /\ IsComment(Gesture.e)
      /\ Home(k, events[Gesture.e].on)
      /\ events[Gesture.e].kind = "plain" => GoesHome(Gesture.e, k)
    BY GestureIsAComment DEF Kind, On
<1> DEFINE s == Queued(r, k, Gesture.e)
<1>3. /\ s \in Record /\ RecordIsSound(s) /\ s.heard = OneMore(r.heard, Gesture.e, k)
      /\ s.cursor = r.cursor /\ s.consumed = r.consumed /\ s.awards = r.awards
      /\ \A l \in Key : /\ s.conv[l].answers = r.conv[l].answers
                        /\ s.conv[l].last = r.conv[l].last
    BY <1>2, QueuedKeeps, ZenonT(40)
<1> HIDE DEF s
<1> QED
    BY <1>1, <1>3 DEF HasDecided, s

\* The poll's own record, with the merge request's issue recorded or not.
LEMMA IndexedIsSound ==
    ASSUME IInv, Deciding, NEW k \in Key \cup {None}, On \in MR /\ k \in Issue => k = marker[On]
    PROVE  /\ \E x : mem.ps = [mem.ps EXCEPT !.index = x]
           /\ mem.ps \in Record /\ RecordIsSound(mem.ps)
           /\ \E x : Recorded(mem.ps, k) = [mem.ps EXCEPT !.index = x]
           /\ Recorded(mem.ps, k) \in Record /\ RecordIsSound(Recorded(mem.ps, k))
<1>1. mem.ps \in Record /\ RecordIsSound(mem.ps) /\ Types
    BY GestureIsAComment DEF CopyIsSound
<1>2. mem.ps = [mem.ps EXCEPT !.index = mem.ps.index]
    BY <1>1 DEF Record
<1>3. /\ Recorded(mem.ps, k) \in Record /\ RecordIsSound(Recorded(mem.ps, k))
      /\ \E x \in [MR -> Issue \cup {None}] : Recorded(mem.ps, k) = [mem.ps EXCEPT !.index = x]
    BY <1>1, RecordedKeeps
<1> QED
    BY <1>1, <1>2, <1>3

\* The poll goes on behind a decided gesture.
LEMMA PassesKeeps ==
    ASSUME IInv, Deciding, NEW ps, HasDecided(ps), Passes(ps),
           UNCHANGED <<gitlab, disk, burst>>, failures' \in Nat
    PROVE  IInv'
<1> PICK m : m = [mem EXCEPT !.ps = ps, !.todo = Tail(@)]
    OBVIOUS
<1> DEFINE e == Gesture.e
<1>1. /\ Types /\ mem \in Copy /\ mem.ps \in Record /\ CopyIsSound(mem)
      /\ mem.todo \in Seq(Gestures) /\ mem.todo # <<>> /\ mem.at = "assemble"
      /\ e \in DOMAIN events /\ e \in Event /\ IsComment(e) /\ burst \in Nat
    BY GestureIsAComment DEF Deciding, At, Types
<1>2. /\ ps \in Record /\ RecordIsSound(ps) /\ ps.cursor = mem.ps.cursor
      /\ ps.consumed = mem.ps.consumed /\ ps.awards = mem.ps.awards
      /\ \A k \in Key : /\ ps.conv[k].answers = mem.ps.conv[k].answers
                        /\ ps.conv[k].last = mem.ps.conv[k].last
    BY DEF HasDecided
<1>3. /\ Len(ps.heard[e]) = Len(mem.ps.heard[e]) + 1
      /\ \A f \in Event \ {e} : ps.heard[f] = mem.ps.heard[f]
    <2>1. PICK to \in Key \cup {None} : ps.heard = OneMore(mem.ps.heard, e, to)
        BY DEF HasDecided
    <2>2. mem.ps.heard \in [Event -> Seq(Key \cup {None})]
        BY <1>1 DEF Record
    <2> QED
        BY <1>1, <2>1, <2>2 DEF OneMore
<1>4. /\ Tail(mem.todo) \in Seq(Gestures)
      /\ Ids(Tail(mem.todo)) = Ids(mem.todo) \ {e} /\ e \in Ids(mem.todo)
      /\ Distinct(Tail(mem.todo)) /\ GesturesAreComments(Tail(mem.todo))
    BY <1>1, FirstIsTaken DEF CopyIsSound, QueuesAreSound, Gesture
<1>5. /\ m \in Copy /\ m.ps = ps /\ m.todo = Tail(mem.todo) /\ m.retry = mem.retry
      /\ m.fires = mem.fires /\ m.approvals = mem.approvals /\ m.at = mem.at
    BY <1>1, <1>2, <1>4 DEF Copy
<1>6. mem' = m
    BY DEF Passes
<1>7. RecordIsSound(m.ps)
    BY <1>2, <1>5
<1>8. QueuesAreSound(m) /\ e \notin Ids(m.retry)
    BY <1>1, <1>2, <1>4, <1>5 DEF CopyIsSound, QueuesAreSound
<1>9. FiresAreNew(m)
    <2>1. FiresAreNew(mem) /\ mem.at = "assemble"
        BY <1>1 DEF CopyIsSound
    <2>2. \A f \in Event : Past(mem.ps, f) => Past(ps, f)
        BY <1>2 DEF Past
    <2>3. ASSUME NEW f \in mem.fires
          PROVE  f \in Event /\ f # e
        BY <1>1, <2>1 DEF Copy, FiresAreNew, IsComment, Comments
    <2>4. ASSUME NEW f \in mem.approvals
          PROVE  f \in Event /\ f # e
        <3>1. f \in mem.ps.awards
            BY <2>1 DEF FiresAreNew
        <3>2. events[f].kind = "award"
            BY <1>1, <3>1 DEF CopyIsSound, RecordIsSound, GesturesAreRemembered
        <3> QED
            BY <1>1, <3>2 DEF Copy, IsComment, Comments
    <2> QED
        BY <1>2, <1>3, <1>5, <2>1, <2>2, <2>3, <2>4 DEF FiresAreNew
<1>10. AnswersStand(m)
    BY <1>1, <1>2, <1>5 DEF CopyIsSound, AnswersStand
<1>11. burst <= Page => DecidedOnce(m.ps, Ids(m.todo) \cup Ids(m.retry))
    <2> DEFINE open == Ids(mem.todo) \cup Ids(mem.retry)
    <2>1. burst <= Page => DecidedOnce(mem.ps, open)
        BY <1>1 DEF CopyIsSound
    <2>2. e \in open
        BY <1>4
    <2> HIDE DEF open
    <2>3. burst <= Page => DecidedOnce(ps, open \ {e})
        BY <1>1, <1>2, <1>3, <2>1, <2>2, DecidedNow
    <2>4. open \ {e} = Ids(m.todo) \cup Ids(m.retry)
        BY <1>4, <1>5, <1>8 DEF open
    <2> QED
        BY <1>5, <2>3, <2>4
<1>12. UNCHANGED <<gitlab, disk>> /\ burst' \in Nat /\ burst <= burst' /\ burst' = burst
    BY <1>1
<1> QED
    BY <1>5, <1>6, <1>7, <1>8, <1>9, <1>10, <1>11, <1>12, CopyMoves

\* An existing conversation takes the gesture, or lets it pass.
LEMMA ResumeKeeps ==
    ASSUME IInv, Deciding, NEW k, k \in ThreadOf \/ (ThreadOf = {} /\ k = Belongs /\ k # None),
           Resume(k), UNCHANGED <<gitlab, disk, burst>>, failures' \in Nat
    PROVE  IInv'
<1>1. PICK echo \in {FALSE, IsEcho(k)} :
        LET ps == IF k \in ThreadOf THEN mem.ps ELSE Recorded(mem.ps, k)
        IN  Passes(IF Resumes(k, echo) THEN Queued(ps, k, Gesture.e)
                   ELSE Decided(ps, Gesture.e, None))
    BY DEF Resume
<1>2. /\ k \in Key /\ Home(k, On) /\ (k \in Event => k \in DOMAIN events)
      /\ On \in MR /\ k \in Issue => k = marker[On]
    <2>1. CASE k \in ThreadOf
        <3>1. k \in Event /\ k \in Key /\ k \in DOMAIN events /\ Home(k, On)
            BY <2>1, ThreadIsHome
        <3> QED
            BY <3>1, IntakeAssumption DEF Event
    <2>2. CASE k \notin ThreadOf
        BY <2>2, BelongsIsHome
    <2> QED
        BY <2>1, <2>2
<1>3. Resumes(k, echo) /\ Kind = "plain" => GoesHome(Gesture.e, k)
    BY ResumedGoesHome
<1> PICK ps : ps = IF k \in ThreadOf THEN mem.ps ELSE Recorded(mem.ps, k)
    OBVIOUS
<1>4. /\ ps \in Record /\ RecordIsSound(ps)
      /\ \E x : ps = [mem.ps EXCEPT !.index = x]
    BY <1>2, IndexedIsSound
<1>5. None \notin Key
    BY IntakeAssumption DEF Key, Event
<1>6. CASE Resumes(k, echo)
    <2>1. HasDecided(Queued(ps, k, Gesture.e))
        BY <1>2, <1>3, <1>4, <1>6, QueuedIsDecided
    <2>2. Passes(Queued(ps, k, Gesture.e))
        BY <1>1, <1>6
    <2> QED
        BY <2>1, <2>2, PassesKeeps
<1>7. CASE ~Resumes(k, echo)
    <2>1. HasDecided(Decided(ps, Gesture.e, None))
        BY <1>4, <1>5, DecidedIsDecided
    <2>2. Passes(Decided(ps, Gesture.e, None))
        BY <1>1, <1>7
    <2> QED
        BY <2>1, <2>2, PassesKeeps
<1> QED
    BY <1>6, <1>7

\* A mention opens a conversation, and anything else passes.
LEMMA OpenNewKeeps ==
    ASSUME IInv, Deciding, OpenNew(Belongs), UNCHANGED <<gitlab, disk, burst>>, failures' \in Nat
    PROVE  IInv'
<1>1. /\ Gesture.e \in DOMAIN events /\ Gesture.e \in Event
      /\ \E x : mem.ps = [mem.ps EXCEPT !.index = x]
      /\ mem.ps \in Record /\ RecordIsSound(mem.ps) /\ None \in Key \cup {None}
      /\ On = events[Gesture.e].on
    BY GestureIsAComment, IndexedIsSound, IntakeAssumption DEF On
<1>2. None \notin Key
    BY IntakeAssumption DEF Key, Event
<1>3. CASE ~Addressed
    BY <1>1, <1>2, <1>3, DecidedIsDecided, PassesKeeps DEF OpenNew
<1>4. CASE Addressed /\ Belongs = None
    <2>1. Gesture.e \in Key /\ Home(Gesture.e, On)
        BY <1>1, <1>4, BelongsIsHome, GestureIsAComment DEF Key, Home
    <2>2. HasDecided(Queued(mem.ps, Gesture.e, Gesture.e))
        BY <1>1, <1>4, <2>1, QueuedIsDecided DEF Addressed
    <2> QED
        BY <1>4, <2>2, PassesKeeps DEF OpenNew
<1>5. CASE Addressed /\ Belongs # None
    <2> PICK k : k = Belongs
        OBVIOUS
    <2>1. /\ k \in Key /\ Home(k, On) /\ k \notin Event
          /\ On \in MR /\ k \in Issue => k = marker[On]
        BY <1>5, BelongsIsHome
    <2> PICK ps : ps = Recorded(mem.ps, k)
        OBVIOUS
    <2>2. /\ ps \in Record /\ RecordIsSound(ps)
          /\ \E x : ps = [mem.ps EXCEPT !.index = x]
        BY <2>1, IndexedIsSound
    <2>3. HasDecided(Queued(ps, k, Gesture.e))
        BY <1>5, <2>1, <2>2, QueuedIsDecided DEF Addressed
    <2> QED
        BY <1>5, <2>3, PassesKeeps DEF OpenNew
<1> QED
    BY <1>3, <1>4, <1>5

\* The three cases of a decision.
LEMMA DecideKeeps ==
    ASSUME IInv, Decide
    PROVE  IInv'
<1>1. Deciding /\ UNCHANGED <<gitlab, disk, burst>> /\ failures' \in Nat
    BY DEF Decide, IInv, Types
<1>2. ASSUME NEW k \in ThreadOf, Resume(k)
      PROVE  IInv'
    BY <1>1, <1>2, ResumeKeeps
<1>3. CASE ThreadOf = {} /\ Belongs # None /\ Resume(Belongs)
    BY <1>1, <1>3, ResumeKeeps
<1>4. CASE ThreadOf = {} /\ OpenNew(Belongs)
    BY <1>1, <1>4, OpenNewKeeps
<1> QED
    BY <1>2, <1>3, <1>4 DEF Decide

\* The request for an issue fails: the gesture is decided all the same.
LEMMA IssueUnknownKeeps ==
    ASSUME IInv, IssueUnknown
    PROVE  IInv'
<1>1. /\ Deciding /\ UNCHANGED <<gitlab, disk, burst>> /\ failures' \in Nat
    BY DEF IssueUnknown, Fail, IInv, Types
<1>2. /\ Gesture.e \in DOMAIN events /\ Gesture.e \in Event
      /\ \E x : mem.ps = [mem.ps EXCEPT !.index = x]
      /\ mem.ps \in Record /\ RecordIsSound(mem.ps)
      /\ On = events[Gesture.e].on
    BY <1>1, GestureIsAComment, IndexedIsSound, IntakeAssumption DEF On
<1>3. None \notin Key
    BY IntakeAssumption DEF Key, Event
<1>4. CASE Passes(Decided(mem.ps, Gesture.e, None))
    <2>1. HasDecided(Decided(mem.ps, Gesture.e, None))
        BY <1>1, <1>2, <1>3, DecidedIsDecided
    <2> QED
        BY <1>1, <1>4, <2>1, PassesKeeps
<1>5. CASE On \in MR /\ Addressed /\ Passes(Queued(mem.ps, Gesture.e, Gesture.e))
    <2>1. Gesture.e \in Key /\ Home(Gesture.e, On)
        BY <1>1, <1>2, <1>5, GestureIsAComment DEF Key, Home
    <2>2. HasDecided(Queued(mem.ps, Gesture.e, Gesture.e))
        BY <1>1, <1>2, <1>5, <2>1, QueuedIsDecided DEF Addressed
    <2> QED
        BY <1>1, <1>5, <2>2, PassesKeeps
<1> QED
    BY <1>4, <1>5 DEF IssueUnknown

\* A gesture that is put off goes from one queue to the other.
LEMMA DeferKeeps ==
    ASSUME IInv, Defer
    PROVE  IInv'
<1>1. /\ Deciding /\ UNCHANGED <<gitlab, disk>> /\ burst' = burst /\ failures' \in Nat
    BY DEF Defer, Fail, IInv, Types
<1>2. PICK ps \in {mem.ps} \cup {Recorded(mem.ps, k) : k \in {k \in {Belongs} \ {None} :
                                     ThreadOf = {} /\ Exists(k)}} :
        mem' = [mem EXCEPT !.ps = ps, !.todo = Tail(@), !.retry = Deferred]
    BY DEF Defer
<1> PICK m : m = [mem EXCEPT !.ps = ps, !.todo = Tail(@), !.retry = Deferred]
    OBVIOUS
<1>3. /\ Types /\ mem \in Copy /\ mem.ps \in Record /\ CopyIsSound(mem)
      /\ mem.todo \in Seq(Gestures) /\ mem.todo # <<>>
      /\ Gesture \in Gestures /\ Gesture.e \in DOMAIN events /\ Gesture.e \in Event
      /\ IsComment(Gesture.e) /\ Gesture.disc \in {None, events[Gesture.e].disc}
      /\ Gesture.e \in Ids(mem.todo) /\ Gesture.e \notin Ids(mem.retry)
    BY <1>1, GestureIsAComment
<1>4. /\ ps \in Record /\ RecordIsSound(ps)
      /\ \E x : ps = [mem.ps EXCEPT !.index = x]
    <2>1. CASE ps = mem.ps
        <3>1. None \in Key \cup {None} /\ None \notin Issue
            BY IntakeAssumption
        <3> QED
            BY <1>1, <2>1, <3>1, IndexedIsSound
    <2>2. CASE ps = Recorded(mem.ps, Belongs) /\ Belongs # None
        <3> PICK k : k = Belongs
            OBVIOUS
        <3>1. k \in Key /\ (On \in MR /\ k \in Issue => k = marker[On])
            BY <1>1, <2>2, BelongsIsHome
        <3> QED
            BY <1>1, <2>2, <3>1, IndexedIsSound
    <2> QED
        BY <1>2, <2>1, <2>2
<1>5. /\ ps.heard = mem.ps.heard /\ ps.cursor = mem.ps.cursor /\ ps.conv = mem.ps.conv
      /\ ps.consumed = mem.ps.consumed /\ ps.awards = mem.ps.awards
    BY <1>3, <1>4 DEF Record
<1>6. /\ Tail(mem.todo) \in Seq(Gestures)
      /\ Ids(Tail(mem.todo)) = Ids(mem.todo) \ {Gesture.e}
      /\ Distinct(Tail(mem.todo)) /\ GesturesAreComments(Tail(mem.todo))
    BY <1>3, FirstIsTaken DEF CopyIsSound, QueuesAreSound, Gesture
<1>7. /\ Deferred \in Seq(Gestures) /\ Ids(Deferred) = Ids(mem.retry) \cup {Gesture.e}
      /\ Distinct(Deferred) /\ GesturesAreComments(Deferred)
    <2>1. /\ mem.retry \in Seq(Gestures) /\ Distinct(mem.retry)
          /\ GesturesAreComments(mem.retry)
        BY <1>3 DEF Copy, CopyIsSound, QueuesAreSound
    <2> QED
        BY <1>3, <2>1, OneIsPutOff DEF Deferred
<1>8. /\ m \in Copy /\ m.ps = ps /\ m.todo = Tail(mem.todo) /\ m.retry = Deferred
      /\ m.fires = mem.fires /\ m.approvals = mem.approvals /\ m.at = mem.at
    BY <1>3, <1>4, <1>6, <1>7 DEF Copy
<1>9. QueuesAreSound(m)
    BY <1>3, <1>5, <1>6, <1>7, <1>8 DEF CopyIsSound, QueuesAreSound
<1>10. FiresAreNew(m)
    BY <1>3, <1>5, <1>8 DEF CopyIsSound, FiresAreNew, Past
<1>11. AnswersStand(m)
    BY <1>3, <1>5, <1>8 DEF CopyIsSound, AnswersStand
<1>12. burst <= Page => DecidedOnce(m.ps, Ids(m.todo) \cup Ids(m.retry))
    <2>1. Ids(m.todo) \cup Ids(m.retry) = Ids(mem.todo) \cup Ids(mem.retry)
        BY <1>3, <1>6, <1>7, <1>8
    <2> QED
        BY <1>3, <1>5, <1>8, <2>1 DEF CopyIsSound, DecidedOnce
<1>13. burst' \in Nat /\ burst <= burst' /\ mem' = m
    BY <1>1, <1>2, <1>3 DEF Types
<1> QED
    BY <1>1, <1>4, <1>8, <1>9, <1>10, <1>11, <1>12, <1>13, CopyMoves

-----------------------------------------------------------------------------
(* What a poll reads *)

\* The cursor moves to the newest comment.
LEMMA CursorIsLast ==
    ASSUME IInv
    PROVE  /\ Fresh \subseteq DOMAIN events /\ IsFiniteSet(Fresh)
           /\ Cursor \in Nat /\ Cursor <= Len(events) /\ disk.cursor <= Cursor
           /\ \A e \in DOMAIN events : IsComment(e) => e <= Cursor
           /\ \A e \in DOMAIN events : IsComment(e) => (e \in Fresh <=> e > disk.cursor)
<1>1. /\ disk.cursor \in Nat /\ disk.cursor <= Len(events) /\ Len(events) \in Nat
      /\ DOMAIN events = 1..Len(events)
    <2>1. Types /\ NothingAhead(disk)
        BY DEF IInv, DiskIsSound, RecordIsSound
    <2>2. disk.cursor \in Nat /\ disk.cursor <= Len(events)
        BY <2>1 DEF Types, Record, NothingAhead
    <2> QED
        BY <2>1, <2>2, EventsAreNumbered
<1>2. Fresh \subseteq DOMAIN events /\ IsFiniteSet(Fresh)
    <2>1. IsFiniteSet(1..Len(events))
        BY <1>1, FS_Interval
    <2>2. Fresh \in SUBSET (1..Len(events))
        BY <1>1 DEF Fresh
    <2> QED
        BY <1>1, <2>1, <2>2, FS_Subset
<1> DEFINE S == {disk.cursor} \cup Fresh
<1>3. S \in SUBSET Nat /\ IsFiniteSet(S) /\ S # {} /\ \A e \in S : e <= Len(events)
    BY <1>1, <1>2, FS_AddElement
<1> HIDE DEF S
<1>4. Newest(S) \in S /\ \A f \in S : f <= Newest(S)
    BY <1>3, NewestIsLast
<1>5. Cursor = Newest(S)
    BY DEF Cursor, S
<1>6. Cursor \in Nat /\ Cursor <= Len(events) /\ disk.cursor <= Cursor
    BY <1>3, <1>4, <1>5 DEF S
<1>7. \A e \in DOMAIN events : IsComment(e) => (e \in Fresh <=> e > disk.cursor)
    BY DEF Fresh
<1>8. \A e \in DOMAIN events : IsComment(e) => e <= Cursor
    <2> SUFFICES ASSUME NEW e \in DOMAIN events, IsComment(e)
                 PROVE  e <= Cursor
        OBVIOUS
    <2>1. CASE e \in Fresh
        BY <1>4, <1>5, <2>1 DEF S
    <2>2. CASE e <= disk.cursor
        BY <1>1, <1>6, <2>2
    <2> QED
        BY <1>1, <1>7, <2>1, <2>2
<1> QED
    BY <1>2, <1>6, <1>7, <1>8

\* While a page holds what is new, all of it is in the page.
LEMMA PageHoldsFresh ==
    ASSUME IInv, Cardinality(Fresh) <= Page, NEW e \in Fresh
    PROVE  InPage(e)
<1> DEFINE S == {f \in DOMAIN events : IsComment(f) /\ f >= e}
<1>1. /\ Fresh \subseteq DOMAIN events /\ IsFiniteSet(Fresh) /\ e > disk.cursor
      /\ disk.cursor \in Nat /\ DOMAIN events \subseteq Nat
    BY CursorIsLast, EventsAreNumbered DEF IInv, Types, Record, Fresh
<1>2. S \subseteq Fresh
    BY <1>1 DEF Fresh
<1>3. IsFiniteSet(S) /\ Cardinality(S) <= Cardinality(Fresh)
    BY <1>1, <1>2, FS_Subset
<1>4. Cardinality(S) \in Nat /\ Cardinality(Fresh) \in Nat /\ Page \in Nat
    BY <1>1, <1>3, FS_CardinalityType, IntakeAssumption
<1>5. Cardinality(S) <= Page
    BY <1>3, <1>4
<1> QED
    BY <1>5 DEF InPage

New == IF disk.boot THEN {e \in Fresh : InPage(e) /\ events[e].kind # "other"} ELSE {}

\* What is heard: those put off, then the new ones, each once.
LEMMA HeardIsOnce ==
    ASSUME IInv, NEW unlooked
    PROVE  /\ Heard(unlooked) \in Seq(Gestures)
           /\ GesturesAreComments(Heard(unlooked))
           /\ Ids(Heard(unlooked)) = Ids(disk.retry) \cup New
           /\ Distinct(Heard(unlooked))
<1> DEFINE n == Len(disk.retry)
           c == Cardinality(New)
           next(e) == [e |-> e, disc |-> IF e \in unlooked THEN None ELSE Discussion(e)]
           tail == [j \in 1..c |-> next(Nth(New, j))]
           all == Heard(unlooked)
<1>1. /\ disk.retry \in Seq(Gestures) /\ n \in Nat /\ DOMAIN disk.retry = 1..n
      /\ DOMAIN events \subseteq Event /\ DOMAIN events \subseteq Nat
      /\ \A e \in DOMAIN events : events[e] \in EventRecord
    BY EventsAreNumbered DEF IInv, Types, Record
<1>2. /\ New \subseteq Fresh /\ New \subseteq DOMAIN events
      /\ \A e \in New : IsComment(e) /\ e > disk.cursor
    BY CursorIsLast DEF New, Fresh
<1>3. New \in SUBSET Nat /\ IsFiniteSet(New)
    BY <1>1, <1>2, CursorIsLast, FS_Subset
<1>4. /\ c \in Nat
      /\ \A j \in 1..c : Nth(New, j) \in New
      /\ \A i, j \in 1..c : Nth(New, i) = Nth(New, j) => i = j
      /\ \A e \in New : \E j \in 1..c : Nth(New, j) = e
    BY <1>3, NthInOrder
<1>5. \A e \in New : /\ next(e) \in Gestures /\ next(e).e = e
                     /\ next(e).disc \in {None, events[e].disc}
    <2> TAKE e \in New
    <2>1. events[e].disc \in Disc \cup {None} /\ e \in Event
        BY <1>1, <1>2 DEF EventRecord
    <2> QED
        BY <2>1 DEF Gestures, Discussion
<1>6. all = disk.retry \o tail
    BY DEF Heard, New
<1> HIDE DEF next, all
<1>7. /\ tail \in Seq(Gestures) /\ Len(tail) = c /\ DOMAIN tail = 1..c
      /\ \A j \in 1..c : tail[j] = next(Nth(New, j))
    BY <1>4, <1>5
<1> HIDE DEF tail, c
<1>8. /\ all \in Seq(Gestures) /\ DOMAIN all = 1..(n + c)
      /\ \A j \in 1..n : all[j] = disk.retry[j]
      /\ \A j \in 1..c : all[n + j] = next(Nth(New, j))
    BY <1>1, <1>4, <1>6, <1>7
<1>9. \A j \in 1..(n + c) : j \in 1..n \/ \E i \in 1..c : j = n + i
    <2> TAKE j \in 1..(n + c)
    <2>1. CASE j > n
        <3>1. j - n \in 1..c /\ j = n + (j - n)
            BY <1>1, <1>4, <2>1
        <3> QED
            BY <3>1
    <2> QED
        BY <1>1, <1>4, <2>1
<1>10. 1..n \subseteq 1..(n + c) /\ \A i \in 1..c : n + i \in 1..(n + c)
    BY <1>1, <1>4
<1>11. GesturesAreComments(disk.retry) /\ Distinct(disk.retry)
       /\ \A e \in Ids(disk.retry) : e <= disk.cursor
    BY DEF IInv, DiskIsSound
<1>12. GesturesAreComments(all)
    <2> SUFFICES ASSUME NEW j \in 1..(n + c)
                 PROVE  /\ all[j].e \in DOMAIN events /\ IsComment(all[j].e)
                        /\ all[j].disc \in {None, events[all[j].e].disc}
        BY <1>8 DEF GesturesAreComments
    <2>1. CASE j \in 1..n
        BY <1>1, <1>8, <1>11, <2>1 DEF GesturesAreComments
    <2>2. CASE \E i \in 1..c : j = n + i
        <3>1. PICK i \in 1..c : j = n + i
            BY <2>2
        <3>2. Nth(New, i) \in New /\ all[j] = next(Nth(New, i))
            BY <1>4, <1>8, <3>1
        <3> QED
            BY <1>2, <1>5, <3>2
    <2> QED
        BY <1>9, <2>1, <2>2
<1>13. \A j \in 1..n : all[j].e \in Ids(disk.retry)
    BY <1>1, <1>8 DEF Ids
<1>14. \A j \in 1..c : all[n + j].e = Nth(New, j) /\ all[n + j].e \in New
    BY <1>4, <1>5, <1>8, SMTT(30)
<1>15. Ids(all) = Ids(disk.retry) \cup New
    <2>1. \A j \in DOMAIN all : all[j].e \in Ids(disk.retry) \cup New
        BY <1>8, <1>9, <1>13, <1>14
    <2>2. \A e \in Ids(disk.retry) : \E j \in DOMAIN all : all[j].e = e
        BY <1>1, <1>8, <1>10 DEF Ids
    <2>3. \A e \in New : \E j \in DOMAIN all : all[j].e = e
        BY <1>4, <1>8, <1>10, <1>14
    <2> QED
        BY <2>1, <2>2, <2>3 DEF Ids
<1>16. Distinct(all)
    <2> SUFFICES ASSUME NEW i \in 1..(n + c), NEW j \in 1..(n + c), all[i].e = all[j].e
                 PROVE  i = j
        BY <1>8 DEF Distinct
    <2>1. New \cap Ids(disk.retry) = {}
        <3>1. \A e \in New : e \in Nat /\ disk.cursor \in Nat /\ ~(e <= disk.cursor)
            BY <1>1, <1>2 DEF IInv, Types, Record
        <3> QED
            BY <1>11, <3>1
    <2>2. CASE i \in 1..n /\ j \in 1..n
        BY <1>1, <1>8, <1>11, <2>2 DEF Distinct
    <2>3. CASE i \notin 1..n /\ j \notin 1..n
        <3>1. PICK i1 \in 1..c : i = n + i1
            BY <1>9, <2>3
        <3>2. PICK j1 \in 1..c : j = n + j1
            BY <1>9, <2>3
        <3>3. i1 = j1
            <4>1. Nth(New, i1) = Nth(New, j1)
                BY <1>14, <3>1, <3>2
            <4> QED
                BY <1>4, <4>1
        <3> QED
            BY <3>1, <3>2, <3>3
    <2>4. CASE i \in 1..n /\ j \notin 1..n
        BY <1>9, <1>13, <1>14, <2>1, <2>4
    <2>5. CASE i \notin 1..n /\ j \in 1..n
        BY <1>9, <1>13, <1>14, <2>1, <2>5
    <2> QED
        BY <2>2, <2>3, <2>4, <2>5
<1> QED
    BY <1>8, <1>12, <1>15, <1>16 DEF all

\* A poll starts with a copy of the record, its cursor moved.
LEMMA ReadCommentsKeeps ==
    ASSUME IInv, NEW unlooked, ReadComments(unlooked), failures' \in Nat
    PROVE  IInv'
<1> DEFINE heard == [e \in Event |-> IF e \in Skipped THEN Append(disk.heard[e], None)
                                     ELSE disk.heard[e]]
           ps == [disk EXCEPT !.cursor = Cursor, !.heard = heard]
           todo == Heard(unlooked)
           m == [at |-> "labels", todo |-> todo, retry |-> <<>>,
                 fires |-> {}, approvals |-> {}, ps |-> ps]
<1>1. /\ Types /\ disk \in Record /\ RecordIsSound(disk)
      /\ disk.heard \in [Event -> Seq(Key \cup {None})] /\ disk.cursor \in Nat
      /\ DOMAIN events \subseteq Event /\ Event \subseteq Nat
    BY EventsAreNumbered DEF IInv, Types, DiskIsSound, Record
<1>2. /\ mem' = m /\ UNCHANGED <<gitlab, disk>>
    BY DEF ReadComments
<1>3. /\ burst \in Nat /\ burst' \in Nat /\ burst <= burst'
      /\ disk.boot /\ burst' <= Page => Cardinality(Fresh) <= Page
    <2>1. burst \in Nat /\ Cardinality(Fresh) \in Nat /\ Page \in Nat
        BY <1>1, CursorIsLast, FS_CardinalityType, IntakeAssumption DEF Types
    <2>2. burst' = IF disk.boot /\ Cardinality(Fresh) > burst THEN Cardinality(Fresh) ELSE burst
        BY DEF ReadComments
    <2> QED
        BY <2>1, <2>2
<1>4. /\ heard \in [Event -> Seq(Key \cup {None})]
      /\ \A e \in Event : e \notin Skipped => heard[e] = disk.heard[e]
      /\ \A e \in Skipped : heard[e] = Append(disk.heard[e], None)
    <2>1. Skipped \subseteq Event
        BY <1>1 DEF Skipped, Fresh
    <2>2. ASSUME NEW e \in Event
          PROVE  Append(disk.heard[e], None) \in Seq(Key \cup {None})
        BY <1>1
    <2> QED
        BY <1>1, <2>1, <2>2
<1> HIDE DEF heard
<1>5. /\ ps \in Record /\ ps.heard = heard /\ ps.cursor = Cursor /\ ps.conv = disk.conv
      /\ ps.consumed = disk.consumed /\ ps.awards = disk.awards /\ ps.index = disk.index
    BY <1>1, <1>4, CursorIsLast DEF Record
<1>6. /\ todo \in Seq(Gestures) /\ GesturesAreComments(todo) /\ Distinct(todo)
      /\ Ids(todo) = Ids(disk.retry) \cup New
    BY HeardIsOnce
<1>7. <<>> \in Seq(Gestures) /\ Ids(<<>>) = {} /\ Distinct(<<>>) /\ GesturesAreComments(<<>>)
    BY DEF Ids, Distinct, GesturesAreComments
<1> HIDE DEF ps, todo
<1>8. /\ m \in Copy /\ m.ps = ps /\ m.todo = todo /\ m.retry = <<>> /\ m.fires = {}
      /\ m.approvals = {} /\ m.at = "labels"
    BY <1>5, <1>6, <1>7 DEF Copy
<1> HIDE DEF m
<1>9. \A e \in Skipped : e \in Event /\ e \in DOMAIN events /\ IsComment(e) /\ e > disk.cursor
    BY <1>1 DEF Skipped, Fresh
<1>10. RecordIsSound(ps)
    <2>1. ConversationsAreHome(ps)
        BY <1>1, <1>5 DEF RecordIsSound, ConversationsAreHome
    <2>2. GesturesAreRemembered(ps)
        <3>1. \A e \in DOMAIN events : events[e].kind \in {"label", "award"} =>
                 ps.heard[e] = disk.heard[e]
            BY <1>1, <1>4, <1>5, <1>9 DEF IsComment, Comments
        <3>2. \A e \in DOMAIN events : Past(ps, e) <=> Past(disk, e)
            BY <1>5 DEF Past
        <3> QED
            BY <1>1, <1>5, <3>1, <3>2 DEF RecordIsSound, GesturesAreRemembered
    <2>3. RepliesAreHome(ps)
        <3> SUFFICES ASSUME NEW e \in DOMAIN events, events[e].kind = "plain",
                            NEW j \in DOMAIN ps.heard[e], ps.heard[e][j] \in Key
                     PROVE  GoesHome(e, ps.heard[e][j])
            BY DEF RepliesAreHome
        <3>1. j \in DOMAIN disk.heard[e] /\ ps.heard[e][j] = disk.heard[e][j]
            <4>1. disk.heard[e] \in Seq(Key \cup {None}) /\ None \notin Key
                BY <1>1, IntakeAssumption DEF Key, Event
            <4>2. CASE e \in Skipped
                <5>1. PICK q \in Seq(Key \cup {None}) : q = disk.heard[e]
                    BY <4>1
                <5>2. ps.heard[e] = Append(q, None)
                    BY <1>4, <1>5, <4>2, <5>1
                <5>3. j \in 1..(Len(q) + 1) /\ Append(q, None)[j] \in Key
                    BY <5>2
                <5>4. j # Len(q) + 1
                    BY <4>1, <5>3
                <5>5. j \in 1..Len(q) /\ Append(q, None)[j] = q[j]
                    BY <5>3, <5>4
                <5> QED
                    BY <5>1, <5>2, <5>5
            <4>3. CASE e \notin Skipped
                BY <1>1, <1>4, <1>5, <4>3
            <4> QED
                BY <4>2, <4>3
        <3> QED
            BY <1>1, <3>1 DEF RecordIsSound, RepliesAreHome
    <2>4. NothingAhead(ps)
        BY <1>1, <1>4, <1>5, <1>9, CursorIsLast DEF RecordIsSound, NothingAhead
    <2> QED
        BY <2>1, <2>2, <2>3, <2>4 DEF RecordIsSound
<1>11. New \subseteq Fresh
    BY DEF New
<1>12. QueuesAreSound(m)
    <2>1. \A e \in Ids(disk.retry) \cup New : e <= Cursor
        <3>1. \A e \in New : e <= Cursor
            BY <1>11, CursorIsLast DEF Fresh
        <3>2. \A e \in Ids(disk.retry) : e \in Nat /\ e <= disk.cursor
            BY <1>1 DEF IInv, DiskIsSound, GesturesAreComments, Ids
        <3> QED
            BY <1>1, <3>1, <3>2, CursorIsLast
    <2> QED
        BY <1>5, <1>6, <1>7, <1>8, <2>1 DEF QueuesAreSound
<1>13. FiresAreNew(m)
    BY <1>8 DEF FiresAreNew
<1>14. AnswersStand(m)
    BY <1>5, <1>8 DEF AnswersStand
<1>15. burst' <= Page => DecidedOnce(m.ps, Ids(m.todo) \cup Ids(m.retry))
    <2> SUFFICES ASSUME burst' <= Page, NEW e \in DOMAIN events, IsComment(e)
                 PROVE  /\ ~(e > Cursor)
                        /\ Len(heard[e]) = (IF e \in Ids(disk.retry) \cup New THEN 0 ELSE 1)
        BY <1>5, <1>6, <1>7, <1>8 DEF DecidedOnce
    <2>1. e \in Event /\ e \in Nat /\ e <= Cursor /\ Cursor \in Nat
        BY <1>1, CursorIsLast
    <2>2. IF e > disk.cursor THEN disk.heard[e] = <<>> /\ e \notin Ids(disk.retry)
          ELSE Len(disk.heard[e]) = (IF e \in Ids(disk.retry) THEN 0 ELSE 1)
        <3>1. burst <= Page
            BY <1>3, IntakeAssumption
        <3> QED
            BY <3>1 DEF IInv, DiskIsSound, DecidedOnce
    <2>3. CASE e \notin Fresh
        <3>1. ~(e > disk.cursor) /\ e \notin New /\ e \notin Skipped
            BY <1>11, <2>3, CursorIsLast DEF Skipped
        <3> QED
            <4>1. heard[e] = disk.heard[e]
                BY <1>4, <2>1, <3>1
            <4>2. e \in Ids(disk.retry) \cup New <=> e \in Ids(disk.retry)
                BY <3>1
            <4>3. ~(e > Cursor)
                BY <2>1
            <4> QED
                BY <2>2, <3>1, <4>1, <4>2, <4>3
    <2>4. CASE e \in Fresh
        <3>1. disk.heard[e] = <<>> /\ e \notin Ids(disk.retry)
            BY <2>2, <2>4, CursorIsLast
        <3>2. CASE e \in Skipped
            <4>1. e \notin New
                BY <3>2 DEF Skipped, New
            <4>2. heard[e] = Append(<<>>, None)
                BY <1>4, <3>1, <3>2
            <4>3. Len(heard[e]) = 1
                BY <4>2
            <4> QED
                BY <2>1, <3>1, <4>1, <4>3
        <3>3. CASE e \notin Skipped
            <4>1. e \in New
                BY <1>3, <2>4, <3>3, PageHoldsFresh DEF Skipped, New
            <4>2. Len(heard[e]) = 0
                BY <1>4, <2>1, <3>1, <3>3
            <4> QED
                BY <2>1, <4>1, <4>2
        <3> QED
            BY <3>2, <3>3
    <2> QED
        BY <2>3, <2>4
<1> QED
    BY <1>2, <1>3, <1>8, <1>10, <1>12, <1>13, <1>14, <1>15, CopyMoves

-----------------------------------------------------------------------------
(* The labels and the awards of a poll *)

\* The newest label event of a labelled issue exists.
LEMMA NewestLabel ==
    ASSUME IInv, NEW i \in labelled
    PROVE  LET e == Newest(Of({"label"}, i))
           IN  /\ e \in DOMAIN events /\ events[e].kind = "label" /\ events[e].on = i
               /\ \A f \in DOMAIN events :
                    events[f].kind = "label" /\ events[f].on = i => ~(f > e)
<1> DEFINE S == Of({"label"}, i)
<1>1. /\ S # {} /\ Len(events) \in Nat /\ DOMAIN events = 1..Len(events)
    BY EventsAreNumbered DEF IInv, EventsArePlaced
<1>2. IsFiniteSet(1..Len(events))
    BY <1>1, FS_Interval
<1>3. S \in SUBSET (1..Len(events)) /\ S \in SUBSET Nat
    BY <1>1 DEF Of
<1>4. IsFiniteSet(S)
    BY <1>2, <1>3, FS_Subset
<1>5. Newest(S) \in S /\ \A f \in S : f <= Newest(S)
    BY <1>1, <1>3, <1>4, NewestIsLast
<1>6. Newest(S) \in Nat
    BY <1>3, <1>5
<1>7. \A f \in DOMAIN events : events[f].kind = "label" /\ events[f].on = i =>
          f \in Nat /\ f <= Newest(S)
    BY <1>1, <1>5 DEF Of
<1>8. /\ Newest(S) \in DOMAIN events /\ events[Newest(S)].kind = "label"
      /\ events[Newest(S)].on = i
    BY <1>5 DEF Of
<1> QED
    BY <1>6, <1>7, <1>8

\* What is pushed out of the memory by label events of its own issue is past,
\* and by those of other issues not kept.
LEMMA LatestRemembers ==
    ASSUME Types, NEW S \in SUBSET DOMAIN events, \A f \in S : events[f].kind = "label",
           NEW e \in S, IsKept(e)
    PROVE  \/ e \in Latest(S)
           \/ \E f \in DOMAIN events :
                f > e /\ events[f].kind = "label" /\ events[f].on = events[e].on
<1> SUFFICES ASSUME \A f \in S : f > e => events[f].on # events[e].on
             PROVE  e \in Latest(S)
    OBVIOUS
<1> DEFINE A == {f \in S : f > e}
           B == {f \in DOMAIN events :
                   f > e /\ events[f].kind = "label" /\ events[f].on # events[e].on}
<1>1. IsFiniteSet(B)
    <2>1. Len(events) \in Nat /\ DOMAIN events = 1..Len(events)
        BY EventsAreNumbered
    <2>2. IsFiniteSet(1..Len(events)) /\ B \in SUBSET (1..Len(events))
        BY <2>1, FS_Interval
    <2> QED
        BY <2>2, FS_Subset
<1>2. A \in SUBSET B
    OBVIOUS
<1>3. IsFiniteSet(A) /\ Cardinality(A) <= Cardinality(B)
    BY <1>1, <1>2, FS_Subset
<1>4. Cardinality(A) \in Nat /\ Cardinality(B) \in Nat /\ Keep \in Nat
    BY <1>1, <1>3, FS_CardinalityType, IntakeAssumption
<1>5. Cardinality(B) < Keep
    BY DEF IsKept
<1>6. Cardinality(A) < Keep
    BY <1>3, <1>4, <1>5
<1> QED
    BY <1>6 DEF Latest

\* The labels that fire are new, and are remembered.
LEMMA PollLabelsKeeps ==
    ASSUME IInv, PollLabels
    PROVE  IInv'
<1> DEFINE newest == {Newest(Of({"label"}, i)) : i \in {i \in labelled : ~Closed(i)}}
           new == newest \ mem.ps.consumed
           adopted == IF mem.ps.boot THEN {} ELSE new
           heard == [e \in Event |-> IF e \in adopted THEN Append(mem.ps.heard[e], None)
                                     ELSE mem.ps.heard[e]]
           consumed == Latest(mem.ps.consumed \cup new)
           ps == [mem.ps EXCEPT !.consumed = consumed, !.heard = heard]
           m == [mem EXCEPT !.at = "awards", !.fires = Fired(new), !.ps = ps]
<1>1. /\ Types /\ mem \in Copy /\ mem.ps \in Record /\ CopyIsSound(mem) /\ mem.at = "labels"
      /\ UNCHANGED <<gitlab, disk, burst, failures>>
    BY DEF PollLabels, At, IInv, Types, Copy
<1>2. mem' = m
    <2>1. mem' = [mem EXCEPT !.at = "awards", !.fires = Fired(new),
             !.ps.consumed = Latest(@ \cup new),
             !.ps.heard = [e \in Event |-> IF e \in new /\ ~mem.ps.boot
                                           THEN Append(@[e], None) ELSE @[e]]]
        BY DEF PollLabels
    <2>2. \A e : e \in adopted <=> e \in new /\ ~mem.ps.boot
        OBVIOUS
    <2> HIDE DEF new, adopted
    <2> QED
        BY <1>1, <2>1, <2>2 DEF Copy, Record
<1>3. /\ \A e \in new : e \in DOMAIN events /\ events[e].kind = "label"
      /\ \A e \in new : \A f \in DOMAIN events :
            events[f].kind = "label" /\ events[f].on = events[e].on => ~(f > e)
    BY NewestLabel
<1>4. \A e \in mem.ps.consumed : e \in DOMAIN events /\ events[e].kind = "label"
    BY <1>1 DEF CopyIsSound, RecordIsSound, GesturesAreRemembered
<1>5. \A e \in new : e \notin mem.ps.consumed
    OBVIOUS
<1> HIDE DEF new
<1>6. consumed \subseteq mem.ps.consumed \cup new
    BY DEF Latest
<1>7. DOMAIN events \subseteq Event
    BY <1>1, EventsAreNumbered
<1>8. mem.ps.heard \in [Event -> Seq(Key \cup {None})]
    BY <1>1 DEF Record
<1>9. /\ heard \in [Event -> Seq(Key \cup {None})]
      /\ \A e \in Event : e \notin adopted => heard[e] = mem.ps.heard[e]
      /\ \A e \in Event : e \in adopted => heard[e] = Append(mem.ps.heard[e], None)
    BY <1>8
<1>10. /\ \A e \in adopted : e \in new /\ ~mem.ps.boot
       /\ adopted # {} => Fired(new) = {}
       /\ Fired(new) \subseteq new /\ Fired(new) \in SUBSET Event
    BY <1>3, <1>7 DEF Fired
<1> HIDE DEF adopted, heard, consumed
<1>11. /\ ps \in Record /\ ps.heard = heard /\ ps.cursor = mem.ps.cursor
       /\ ps.conv = mem.ps.conv /\ ps.consumed = consumed /\ ps.awards = mem.ps.awards
       /\ ps.index = mem.ps.index
    <2>1. consumed \in SUBSET Event
        BY <1>3, <1>4, <1>6, <1>7
    <2> QED
        BY <1>1, <1>9, <2>1 DEF Record
<1> HIDE DEF ps
<1>12. /\ m \in Copy /\ m.ps = ps /\ m.todo = mem.todo /\ m.retry = mem.retry
       /\ m.fires = Fired(new) /\ m.approvals = mem.approvals /\ m.at = "awards"
    BY <1>1, <1>10, <1>11 DEF Copy
<1> HIDE DEF m
\* What is in the memory or was, stays past.
<1>13. ASSUME NEW e \in DOMAIN events, IsKept(e), Past(mem.ps, e) \/ e \in new
       PROVE  Past(ps, e)
    <2>1. CASE e \in mem.ps.consumed \cup new
        <3>1. /\ mem.ps.consumed \cup new \in SUBSET DOMAIN events
              /\ \A f \in mem.ps.consumed \cup new : events[f].kind = "label"
            BY <1>3, <1>4
        <3>2. \/ e \in consumed
              \/ \E f \in DOMAIN events :
                   f > e /\ events[f].kind = "label" /\ events[f].on = events[e].on
            BY <1>1, <1>13, <2>1, <3>1, LatestRemembers DEF consumed
        <3> QED
            BY <1>11, <3>2 DEF Past
    <2>2. CASE e \notin mem.ps.consumed \cup new
        BY <1>13, <2>2 DEF Past
    <2> QED
        BY <2>1, <2>2
\* What is new was never heard.
<1>14. ASSUME NEW e \in new, IsKept(e)
       PROVE  mem.ps.heard[e] = <<>>
    <2>1. ~Past(mem.ps, e)
        BY <1>3, <1>5 DEF Past
    <2> QED
        BY <1>1, <1>3, <1>14, <2>1 DEF CopyIsSound, RecordIsSound, GesturesAreRemembered
<1>15. RecordIsSound(ps)
    <2>1. ConversationsAreHome(ps)
        BY <1>1, <1>11 DEF CopyIsSound, RecordIsSound, ConversationsAreHome
    <2>2. GesturesAreRemembered(ps)
        <3>1. ASSUME NEW e \in DOMAIN events, events[e].kind = "label", IsKept(e)
              PROVE  Len(ps.heard[e]) <= 1 /\ (ps.heard[e] # <<>> => Past(ps, e))
            <4>1. CASE e \in adopted
                <5>1. ps.heard[e] = Append(<<>>, None)
                    BY <1>7, <1>9, <1>10, <1>11, <1>14, <3>1, <4>1
                <5>2. Len(ps.heard[e]) = 1
                    BY <5>1
                <5> QED
                    BY <1>10, <1>13, <3>1, <4>1, <5>2
            <4>2. CASE e \notin adopted
                <5>1. ps.heard[e] = mem.ps.heard[e]
                    BY <1>7, <1>9, <1>11, <4>2
                <5>2. Len(mem.ps.heard[e]) <= 1 /\ (mem.ps.heard[e] # <<>> => Past(mem.ps, e))
                    BY <1>1, <3>1 DEF CopyIsSound, RecordIsSound, GesturesAreRemembered
                <5> QED
                    BY <1>13, <3>1, <5>1, <5>2
            <4> QED
                BY <4>1, <4>2
        <3>2. ASSUME NEW e \in DOMAIN events, events[e].kind = "award"
              PROVE  Len(ps.heard[e]) <= 1 /\ (ps.heard[e] # <<>> => e \in ps.awards)
            <4>1. e \notin adopted
                BY <1>3, <1>10, <3>2
            <4>2. ps.heard[e] = mem.ps.heard[e]
                BY <1>7, <1>9, <1>11, <4>1
            <4> QED
                BY <1>1, <1>11, <3>2, <4>2
                   DEF CopyIsSound, RecordIsSound, GesturesAreRemembered
        <3>3. \A e \in ps.awards : e \in DOMAIN events /\ events[e].kind = "award"
            BY <1>1, <1>11 DEF CopyIsSound, RecordIsSound, GesturesAreRemembered
        <3>4. \A e \in ps.consumed : e \in DOMAIN events /\ events[e].kind = "label"
            BY <1>3, <1>4, <1>6, <1>11
        <3> QED
            BY <3>1, <3>2, <3>3, <3>4 DEF GesturesAreRemembered
    <2>3. \A e \in Event : (e \notin DOMAIN events \/ IsComment(e)) => ps.heard[e] = mem.ps.heard[e]
        BY <1>3, <1>9, <1>10, <1>11 DEF IsComment, Comments
    <2>4. RepliesAreHome(ps)
        BY <1>1, <1>7, <2>3 DEF CopyIsSound, RecordIsSound, RepliesAreHome, IsComment, Comments
    <2>5. NothingAhead(ps)
        BY <1>1, <1>11, <2>3 DEF CopyIsSound, RecordIsSound, NothingAhead
    <2> QED
        BY <2>1, <2>2, <2>4, <2>5 DEF RecordIsSound
<1>16. QueuesAreSound(m)
    BY <1>1, <1>11, <1>12 DEF CopyIsSound, QueuesAreSound
<1>17. FiresAreNew(m)
    <2>1. m.approvals = {}
        BY <1>1, <1>12 DEF CopyIsSound, FiresAreNew
    <2>2. ASSUME NEW e \in m.fires
          PROVE  /\ e \in DOMAIN events /\ events[e].kind = "label"
                 /\ IsKept(e) => m.ps.heard[e] = <<>> /\ Past(m.ps, e)
        <3>1. e \in new /\ e \notin adopted /\ e \in DOMAIN events /\ events[e].kind = "label"
            BY <1>3, <1>10, <1>12
        <3>2. ps.heard[e] = mem.ps.heard[e]
            BY <1>7, <1>9, <1>11, <3>1
        <3> QED
            BY <1>12, <1>13, <1>14, <3>1, <3>2
    <2> QED
        BY <1>12, <2>1, <2>2 DEF FiresAreNew
<1>18. AnswersStand(m)
    BY <1>1, <1>11, <1>12 DEF CopyIsSound, AnswersStand
<1>19. burst <= Page => DecidedOnce(m.ps, Ids(m.todo) \cup Ids(m.retry))
    <2>1. \A e \in DOMAIN events : IsComment(e) => ps.heard[e] = mem.ps.heard[e]
        BY <1>3, <1>7, <1>9, <1>10, <1>11 DEF IsComment, Comments
    <2> QED
        BY <1>1, <1>11, <1>12, <2>1 DEF CopyIsSound, DecidedOnce
<1>20. UNCHANGED <<gitlab, disk>> /\ burst' = burst /\ burst \in Nat /\ burst <= burst'
       /\ failures' \in Nat
    BY <1>1 DEF Types
<1> QED
    BY <1>2, <1>12, <1>15, <1>16, <1>17, <1>18, <1>19, <1>20, CopyMoves

\* The approvals are those the snapshot before did not have.
LEMMA PollAwardsKeeps ==
    ASSUME IInv, PollAwards
    PROVE  IInv'
<1> DEFINE standing == {e \in DOMAIN events : events[e].kind = "award"}
           ps == [mem.ps EXCEPT !.awards = standing]
           m == [mem EXCEPT !.at = "assemble", !.ps = ps,
                   !.approvals = IF mem.ps.boot THEN standing \ mem.ps.awards ELSE {}]
<1>1. /\ Types /\ mem \in Copy /\ mem.ps \in Record /\ CopyIsSound(mem) /\ mem.at = "awards"
      /\ UNCHANGED <<gitlab, disk, burst, failures>>
    BY DEF PollAwards, At, IInv, Types, Copy
<1>2. standing \in SUBSET Event /\ standing \subseteq DOMAIN events
      /\ \A e \in DOMAIN events : e \in standing <=> events[e].kind = "award"
    BY <1>1, EventsAreNumbered
<1>3. mem' = m
    <2>1. mem' = [mem EXCEPT !.at = "assemble", !.ps.awards = standing,
                    !.approvals = IF mem.ps.boot THEN standing \ mem.ps.awards ELSE {}]
        BY DEF PollAwards
    <2> HIDE DEF standing
    <2> QED
        BY <1>1, <2>1 DEF Copy
<1> HIDE DEF standing
<1>4. /\ ps \in Record /\ ps.heard = mem.ps.heard /\ ps.cursor = mem.ps.cursor
      /\ ps.conv = mem.ps.conv /\ ps.consumed = mem.ps.consumed /\ ps.awards = standing
      /\ ps.index = mem.ps.index
    BY <1>1, <1>2 DEF Record
<1> HIDE DEF ps
<1>5. /\ m \in Copy /\ m.ps = ps /\ m.todo = mem.todo /\ m.retry = mem.retry
      /\ m.fires = mem.fires /\ m.at = "assemble"
      /\ m.approvals \subseteq standing \ mem.ps.awards
    BY <1>1, <1>2, <1>4 DEF Copy
<1> HIDE DEF m
<1>6. RecordIsSound(ps)
    <2>1. ConversationsAreHome(ps) /\ RepliesAreHome(ps) /\ NothingAhead(ps)
        BY <1>1, <1>4
           DEF CopyIsSound, RecordIsSound, ConversationsAreHome, RepliesAreHome, NothingAhead
    <2>2. \A e \in DOMAIN events : Past(ps, e) <=> Past(mem.ps, e)
        BY <1>4 DEF Past
    <2>3. GesturesAreRemembered(ps)
        BY <1>1, <1>2, <1>4, <2>2 DEF CopyIsSound, RecordIsSound, GesturesAreRemembered
    <2> QED
        BY <2>1, <2>3 DEF RecordIsSound
<1>7. QueuesAreSound(m)
    BY <1>1, <1>4, <1>5 DEF CopyIsSound, QueuesAreSound
<1>8. FiresAreNew(m)
    <2>1. \A e : Past(ps, e) <=> Past(mem.ps, e)
        BY <1>4 DEF Past
    <2>2. ASSUME NEW e \in m.approvals
          PROVE  e \in ps.awards /\ ps.heard[e] = <<>>
        <3>1. e \in DOMAIN events /\ events[e].kind = "award" /\ e \notin mem.ps.awards
            BY <1>2, <1>5
        <3> QED
            BY <1>1, <1>4, <1>5, <3>1 DEF CopyIsSound, RecordIsSound, GesturesAreRemembered
    <2>3. \A e \in m.fires :
            /\ e \in DOMAIN events /\ events[e].kind = "label"
            /\ IsKept(e) => m.ps.heard[e] = <<>> /\ Past(m.ps, e)
        BY <1>1, <1>4, <1>5, <2>1 DEF CopyIsSound, FiresAreNew
    <2> QED
        BY <1>5, <2>2, <2>3 DEF FiresAreNew
<1>9. AnswersStand(m)
    BY <1>1, <1>4, <1>5 DEF CopyIsSound, AnswersStand
<1>10. burst <= Page => DecidedOnce(m.ps, Ids(m.todo) \cup Ids(m.retry))
    BY <1>1, <1>4, <1>5 DEF CopyIsSound, DecidedOnce
<1>11. UNCHANGED <<gitlab, disk>> /\ burst' = burst /\ burst \in Nat /\ burst <= burst'
       /\ failures' \in Nat
    BY <1>1 DEF Types
<1> QED
    BY <1>3, <1>5, <1>6, <1>7, <1>8, <1>9, <1>10, <1>11, CopyMoves

-----------------------------------------------------------------------------
(* The commit of a poll *)

\* Labels that fire are answered by the conversation of their issue.
LEMMA LabelledKeeps ==
    ASSUME IInv, At("assemble")
    PROVE  LET s == Labelled(mem.ps)
           IN  /\ s \in Record /\ ConversationsAreHome(s)
               /\ \A e \in Event : s.heard[e] = IF e \in mem.fires
                                                THEN Append(mem.ps.heard[e], events[e].on)
                                                ELSE mem.ps.heard[e]
               /\ s.cursor = mem.ps.cursor /\ s.consumed = mem.ps.consumed
               /\ s.awards = mem.ps.awards
               /\ \A k \in Key : /\ s.conv[k].answers = mem.ps.conv[k].answers
                                 /\ s.conv[k].last = mem.ps.conv[k].last
                                 /\ mem.ps.conv[k].status = "idle" => s.conv[k].status = "idle"
<1> DEFINE fired(k) == CHOOSE e \in mem.fires : events[e].on = k
           fires(k) == \E e \in mem.fires : events[e].on = k
           start(k) == Triggered(mem.ps.conv[k], fired(k))
           conv == [k \in Key |-> IF fires(k) THEN start(k) ELSE mem.ps.conv[k]]
           heard == [e \in Event |-> IF e \in mem.fires
                                     THEN Append(mem.ps.heard[e], events[e].on)
                                     ELSE mem.ps.heard[e]]
           s == Labelled(mem.ps)
<1>1. /\ Types /\ mem \in Copy /\ mem.ps \in Record /\ CopyIsSound(mem)
    BY DEF At, IInv, Types, Copy
<1>2. /\ mem.ps.conv \in [Key -> Conversation] /\ mem.ps.heard \in [Event -> Seq(Key \cup {None})]
      /\ mem.fires \in SUBSET Event
    BY <1>1 DEF Record, Copy
<1>3. \A e \in mem.fires : /\ e \in Event /\ e \in DOMAIN events /\ events[e].kind = "label"
                           /\ events[e].on \in Issue /\ events[e].on \in Key
    BY <1>1, <1>2 DEF CopyIsSound, FiresAreNew, IInv, EventsArePlaced, Key
<1>4. \A k \in Key : fires(k) => fired(k) \in mem.fires /\ events[fired(k)].on = k
    OBVIOUS
<1> HIDE DEF fired
<1>5. s = [mem.ps EXCEPT !.conv = conv, !.heard = heard]
    BY <1>1 DEF Labelled, Record, fired
<1>6. ASSUME NEW k \in Key, fires(k)
      PROVE  /\ start(k) \in Conversation
             /\ start(k).status = IF mem.ps.conv[k].status = "absent" THEN "new"
                                  ELSE mem.ps.conv[k].status
             /\ start(k).next = fired(k) /\ start(k).reply = mem.ps.conv[k].reply
             /\ start(k).answers = mem.ps.conv[k].answers
             /\ start(k).last = mem.ps.conv[k].last
    <2>1. mem.ps.conv[k] \in Conversation /\ fired(k) \in Event
        BY <1>2, <1>3, <1>4, <1>6
    <2> QED
        BY <2>1 DEF Conversation, Statuses, Triggered, Asked
<1> HIDE DEF start, fires
<1>7. /\ conv \in [Key -> Conversation]
      /\ \A k \in Key : fires(k) => conv[k] = start(k)
      /\ \A k \in Key : ~fires(k) => conv[k] = mem.ps.conv[k]
    BY <1>2, <1>6
<1>8. /\ heard \in [Event -> Seq(Key \cup {None})]
      /\ \A e \in Event : heard[e] = IF e \in mem.fires
                                     THEN Append(mem.ps.heard[e], events[e].on)
                                     ELSE mem.ps.heard[e]
    BY <1>2, <1>3
<1> HIDE DEF conv, heard
<1>9. /\ s \in Record /\ s.heard = heard /\ s.conv = conv /\ s.index = mem.ps.index
      /\ s.cursor = mem.ps.cursor /\ s.consumed = mem.ps.consumed
      /\ s.awards = mem.ps.awards
    BY <1>1, <1>5, <1>7, <1>8 DEF Record
<1> HIDE DEF s
<1>10. ConversationsAreHome(mem.ps)
    BY <1>1 DEF CopyIsSound, RecordIsSound
<1>11. ASSUME NEW k \in Key
       PROVE  /\ conv[k].status = "absent" => conv[k] = Absent
              /\ conv[k].status # "absent" =>
                    conv[k].next # None /\ (k \in Event => k \in DOMAIN events)
              /\ conv[k].status = "working" => conv[k].reply # None
              /\ SpokenWith(k, conv[k].next) /\ SpokenWith(k, conv[k].reply)
    <2>1. CASE fires(k)
        <3>1. /\ fired(k) \in DOMAIN events /\ events[fired(k)].on = k /\ k \in Issue
              /\ fired(k) \in Event
            BY <1>3, <1>4, <2>1 DEF fires
        <3>2. SpokenWith(k, fired(k)) /\ fired(k) # None /\ k \notin Event
            BY <3>1, IntakeAssumption DEF SpokenWith, Home, Event
        <3>3. /\ SpokenWith(k, mem.ps.conv[k].reply)
              /\ mem.ps.conv[k].status = "working" => mem.ps.conv[k].reply # None
            BY <1>10 DEF ConversationsAreHome
        <3> QED
            BY <1>6, <1>7, <2>1, <3>2, <3>3
    <2>2. CASE ~fires(k)
        BY <1>7, <1>10, <2>2 DEF ConversationsAreHome
    <2> QED
        BY <2>1, <2>2
<1>12. ConversationsAreHome(s)
    BY <1>9, <1>10, <1>11 DEF ConversationsAreHome
<1>13. \A k \in Key : /\ s.conv[k].answers = mem.ps.conv[k].answers
                      /\ s.conv[k].last = mem.ps.conv[k].last
                      /\ mem.ps.conv[k].status = "idle" => s.conv[k].status = "idle"
    BY <1>6, <1>7, <1>9
<1> QED
    BY <1>8, <1>9, <1>12, <1>13 DEF s

\* An approval of the last answer is queued for its conversation at rest.
LEMMA ApprovedKeeps ==
    ASSUME IInv, At("assemble"), NEW r \in Record, ConversationsAreHome(r),
           \A k \in Key : mem.ps.conv[k].status = "idle" => r.conv[k].status = "idle"
    PROVE  LET s == Approved(r)
           IN  /\ s \in Record /\ ConversationsAreHome(s)
               /\ \A e \in Event :
                    IF e \in mem.approvals
                    THEN \E to \in Key \cup {None} : s.heard[e] = Append(r.heard[e], to)
                    ELSE s.heard[e] = r.heard[e]
               /\ s.cursor = r.cursor /\ s.consumed = r.consumed /\ s.awards = r.awards
               /\ \A k \in Key : /\ s.conv[k].answers = r.conv[k].answers
                                 /\ s.conv[k].last = r.conv[k].last
<1> DEFINE take(k) == Agreed(r.conv[k], Approves(k))
           conv == [k \in Key |-> IF Approves(k) = {} THEN r.conv[k] ELSE take(k)]
           to(e) == IF \E k \in Key : e \in Approves(k) THEN events[e].on ELSE None
           heard == [e \in Event |-> IF e \in mem.approvals THEN Append(r.heard[e], to(e))
                                     ELSE r.heard[e]]
           s == Approved(r)
<1>1. /\ Types /\ mem \in Copy /\ mem.ps \in Record /\ CopyIsSound(mem)
    BY DEF At, IInv, Types, Copy
<1>2. /\ r.conv \in [Key -> Conversation] /\ r.heard \in [Event -> Seq(Key \cup {None})]
      /\ mem.approvals \in SUBSET Event
    BY <1>1 DEF Record, Copy
<1>3. \A e \in mem.approvals : /\ e \in Event /\ e \in DOMAIN events /\ events[e].kind = "award"
                               /\ events[e].on \in Issue /\ events[e].on \in Key
                               /\ events[e].disc \in {events[e].on} \X Nat
    BY <1>1, <1>2
       DEF CopyIsSound, FiresAreNew, RecordIsSound, GesturesAreRemembered,
           IInv, EventsArePlaced, Key
<1>4. s = [r EXCEPT !.conv = conv, !.heard = heard]
    BY <1>1 DEF Approved, Record
<1>5. ASSUME NEW k \in Key, Approves(k) # {}
      PROVE  /\ Newest(Approves(k)) \in mem.approvals /\ events[Newest(Approves(k))].on = k
             /\ mem.ps.conv[k].status = "idle"
    <2>1. Approves(k) \in SUBSET Nat /\ Approves(k) \in SUBSET (1..Len(events))
          /\ Len(events) \in Nat
        BY <1>1, <1>3, EventsAreNumbered DEF Approves
    <2>2. IsFiniteSet(1..Len(events))
        BY <2>1, FS_Interval
    <2>3. IsFiniteSet(Approves(k))
        BY <2>1, <2>2, FS_Subset
    <2>4. Newest(Approves(k)) \in Approves(k)
        BY <1>5, <2>1, <2>3, NewestIsLast
    <2>5. PICK e : e = Newest(Approves(k))
        OBVIOUS
    <2>6. /\ e \in mem.approvals /\ events[e].disc = <<k, Conv[k].answers>>
          /\ Conv[k].status = "idle"
        BY <2>4, <2>5 DEF Approves
    <2>7. events[e].on = k
        BY <1>3, <2>6
    <2> QED
        BY <2>5, <2>6, <2>7 DEF Conv
<1>6. ASSUME NEW k \in Key, Approves(k) # {}
      PROVE  /\ take(k) \in Conversation /\ take(k).status = r.conv[k].status
             /\ take(k).next = Newest(Approves(k)) /\ take(k).reply = r.conv[k].reply
             /\ take(k).answers = r.conv[k].answers /\ take(k).last = r.conv[k].last
    <2>1. r.conv[k] \in Conversation /\ Newest(Approves(k)) \in Event
        BY <1>2, <1>3, <1>5, <1>6
    <2>2. Approves(k) \in SUBSET Event
        BY <1>3 DEF Approves
    <2> QED
        BY <2>1, <2>2 DEF Conversation, Agreed
<1> HIDE DEF take
<1>7. /\ conv \in [Key -> Conversation]
      /\ \A k \in Key : Approves(k) # {} => conv[k] = take(k)
      /\ \A k \in Key : Approves(k) = {} => conv[k] = r.conv[k]
    BY <1>2, <1>6
<1>8. \A e \in mem.approvals : to(e) \in Key \cup {None}
    BY <1>3
<1> HIDE DEF to
<1>9. /\ heard \in [Event -> Seq(Key \cup {None})]
      /\ \A e \in Event : IF e \in mem.approvals
                          THEN \E x \in Key \cup {None} : heard[e] = Append(r.heard[e], x)
                          ELSE heard[e] = r.heard[e]
    <2>1. ASSUME NEW e \in Event
          PROVE  /\ heard[e] \in Seq(Key \cup {None})
                 /\ e \in mem.approvals => heard[e] = Append(r.heard[e], to(e))
                 /\ e \notin mem.approvals => heard[e] = r.heard[e]
        BY <1>2, <1>8
    <2>2. heard \in [Event -> Seq(Key \cup {None})]
        BY <2>1
    <2> HIDE DEF heard
    <2> QED
        BY <1>8, <2>1, <2>2
<1> HIDE DEF conv, heard
<1>10. /\ s \in Record /\ s.heard = heard /\ s.conv = conv /\ s.index = r.index
       /\ s.cursor = r.cursor /\ s.consumed = r.consumed /\ s.awards = r.awards
    BY <1>4, <1>7, <1>9 DEF Record
<1> HIDE DEF s
<1>11. ASSUME NEW k \in Key
       PROVE  /\ conv[k].status = "absent" => conv[k] = Absent
              /\ conv[k].status # "absent" =>
                    conv[k].next # None /\ (k \in Event => k \in DOMAIN events)
              /\ conv[k].status = "working" => conv[k].reply # None
              /\ SpokenWith(k, conv[k].next) /\ SpokenWith(k, conv[k].reply)
    <2>1. CASE Approves(k) # {}
        <3> PICK e : e = Newest(Approves(k))
            OBVIOUS
        <3>1. /\ e \in DOMAIN events /\ events[e].on = k /\ k \in Issue /\ e \in Event
              /\ r.conv[k].status = "idle"
            BY <1>3, <1>5, <2>1
        <3>2. SpokenWith(k, e) /\ e # None /\ k \notin Event
            BY <3>1, IntakeAssumption DEF SpokenWith, Home, Event
        <3>3. SpokenWith(k, r.conv[k].reply)
            BY DEF ConversationsAreHome
        <3> QED
            BY <1>6, <1>7, <2>1, <3>1, <3>2, <3>3
    <2>2. CASE Approves(k) = {}
        BY <1>7, <2>2 DEF ConversationsAreHome
    <2> QED
        BY <2>1, <2>2
<1>12. ConversationsAreHome(s)
    BY <1>10, <1>11 DEF ConversationsAreHome
<1>13. \A k \in Key : s.conv[k].answers = r.conv[k].answers /\ s.conv[k].last = r.conv[k].last
    BY <1>6, <1>7, <1>10
<1> QED
    BY <1>9, <1>10, <1>12, <1>13 DEF s

\* A first decision is one.
LEMMA OneDecision ==
    ASSUME NEW q, NEW to, q = Append(<<>>, to)
    PROVE  Len(q) <= 1
<1>1. Len(q) = 1
    OBVIOUS
<1> QED
    BY <1>1

\* A commit saves the copy, with what fires and what was approved.
LEMMA CommitKeeps ==
    ASSUME IInv, Commit
    PROVE  IInv'
<1> DEFINE l == Labelled(mem.ps)
           a == Approved(l)
<1>1. /\ Types /\ mem \in Copy /\ mem.ps \in Record /\ CopyIsSound(mem) /\ At("assemble")
      /\ mem.todo = <<>> /\ mem.retry \in Seq(Gestures)
      /\ UNCHANGED <<gitlab, burst, failures>> /\ mem' = None
    BY DEF Commit, At, IInv, Types, Copy
<1>2. /\ events' = events /\ labelled' = labelled /\ bots' = bots /\ marker' = marker
      /\ burst' = burst /\ failures' = failures
    BY <1>1 DEF gitlab
<1>3. /\ l \in Record /\ ConversationsAreHome(l)
      /\ \A e \in Event : l.heard[e] = IF e \in mem.fires
                                       THEN Append(mem.ps.heard[e], events[e].on)
                                       ELSE mem.ps.heard[e]
      /\ l.cursor = mem.ps.cursor /\ l.consumed = mem.ps.consumed
      /\ l.awards = mem.ps.awards
      /\ \A k \in Key : /\ l.conv[k].answers = mem.ps.conv[k].answers
                        /\ l.conv[k].last = mem.ps.conv[k].last
                        /\ mem.ps.conv[k].status = "idle" => l.conv[k].status = "idle"
    BY <1>1, LabelledKeeps
<1> HIDE DEF l
<1>4. /\ a \in Record /\ ConversationsAreHome(a)
      /\ \A e \in Event : IF e \in mem.approvals
                          THEN \E to \in Key \cup {None} : a.heard[e] = Append(l.heard[e], to)
                          ELSE a.heard[e] = l.heard[e]
      /\ a.cursor = l.cursor /\ a.consumed = l.consumed /\ a.awards = l.awards
      /\ \A k \in Key : /\ a.conv[k].answers = l.conv[k].answers
                        /\ a.conv[k].last = l.conv[k].last
    BY <1>1, <1>3, ApprovedKeeps
<1> HIDE DEF a
<1> PICK d : d = [a EXCEPT !.retry = mem.retry, !.boot = TRUE]
    OBVIOUS
<1>5. disk' = d
    BY DEF Commit, a, l
<1>6. /\ d \in Record /\ d.heard = a.heard /\ d.conv = a.conv /\ d.index = a.index
      /\ d.cursor = mem.ps.cursor /\ d.consumed = mem.ps.consumed
      /\ d.awards = mem.ps.awards /\ d.retry = mem.retry
    BY <1>1, <1>3, <1>4 DEF Record
<1>7. /\ \A k \in Key : /\ d.conv[k].answers = disk.conv[k].answers
                        /\ d.conv[k].last = disk.conv[k].last
    BY <1>1, <1>3, <1>4, <1>6 DEF CopyIsSound, AnswersStand
<1>8. /\ mem.ps.heard \in [Event -> Seq(Key \cup {None})]
      /\ mem.fires \in SUBSET Event /\ mem.approvals \in SUBSET Event
      /\ DOMAIN events \subseteq Event
    BY <1>1, EventsAreNumbered DEF Record, Copy
<1>9. /\ \A e \in mem.fires : e \in DOMAIN events /\ events[e].kind = "label"
      /\ \A e \in mem.approvals : e \in DOMAIN events /\ events[e].kind = "award"
    BY <1>1 DEF CopyIsSound, FiresAreNew, RecordIsSound, GesturesAreRemembered
<1>10. \A e \in Event \ (mem.fires \cup mem.approvals) : d.heard[e] = mem.ps.heard[e]
    BY <1>3, <1>4, <1>6
<1>11. RecordIsSound(d)
    <2>1. ConversationsAreHome(d)
        BY <1>4, <1>6 DEF ConversationsAreHome
    <2>2. GesturesAreRemembered(d)
        <3>1. /\ \A e \in d.consumed : e \in DOMAIN events /\ events[e].kind = "label"
              /\ \A e \in d.awards : e \in DOMAIN events /\ events[e].kind = "award"
            BY <1>1, <1>6 DEF CopyIsSound, RecordIsSound, GesturesAreRemembered
        <3>2. \A e \in DOMAIN events : Past(d, e) <=> Past(mem.ps, e)
            BY <1>6 DEF Past
        <3>3. ASSUME NEW e \in DOMAIN events, events[e].kind = "label", IsKept(e)
              PROVE  Len(d.heard[e]) <= 1 /\ (d.heard[e] # <<>> => Past(d, e))
            <4>1. e \notin mem.approvals /\ e \in Event
                BY <1>8, <1>9, <3>3
            <4>2. CASE e \in mem.fires
                <5>1. mem.ps.heard[e] = <<>> /\ Past(mem.ps, e)
                    BY <1>1, <3>3, <4>2 DEF CopyIsSound, FiresAreNew
                <5>2. l.heard[e] = Append(<<>>, events[e].on)
                    BY <1>3, <4>1, <4>2, <5>1
                <5>3. d.heard[e] = Append(<<>>, events[e].on)
                    BY <1>4, <1>6, <4>1, <5>2
                <5>4. Len(d.heard[e]) <= 1
                    BY <5>3, OneDecision
                <5> QED
                    BY <3>2, <5>1, <5>4
            <4>3. CASE e \notin mem.fires
                BY <1>1, <1>10, <3>2, <3>3, <4>1, <4>3
                   DEF CopyIsSound, RecordIsSound, GesturesAreRemembered
            <4> QED
                BY <4>2, <4>3
        <3>4. ASSUME NEW e \in DOMAIN events, events[e].kind = "award"
              PROVE  Len(d.heard[e]) <= 1 /\ (d.heard[e] # <<>> => e \in d.awards)
            <4>1. e \notin mem.fires /\ e \in Event
                BY <1>8, <1>9, <3>4
            <4>2. CASE e \in mem.approvals
                <5>1. mem.ps.heard[e] = <<>> /\ e \in mem.ps.awards
                    BY <1>1, <4>2 DEF CopyIsSound, FiresAreNew
                <5>2. PICK to \in Key \cup {None} : d.heard[e] = Append(<<>>, to)
                    BY <1>3, <1>4, <1>6, <4>1, <4>2, <5>1
                <5>3. Len(d.heard[e]) <= 1
                    BY <5>2, OneDecision
                <5> QED
                    BY <1>6, <5>1, <5>3
            <4>3. CASE e \notin mem.approvals
                BY <1>1, <1>6, <1>10, <3>4, <4>1, <4>3
                   DEF CopyIsSound, RecordIsSound, GesturesAreRemembered
            <4> QED
                BY <4>2, <4>3
        <3> QED
            BY <3>1, <3>3, <3>4 DEF GesturesAreRemembered
    <2>3. \A e \in Event : (e \notin DOMAIN events \/ IsComment(e)) => d.heard[e] = mem.ps.heard[e]
        BY <1>9, <1>10 DEF IsComment, Comments
    <2>4. RepliesAreHome(d)
        BY <1>1, <1>8, <2>3 DEF CopyIsSound, RecordIsSound, RepliesAreHome, IsComment, Comments
    <2>5. NothingAhead(d)
        BY <1>1, <1>6, <2>3 DEF CopyIsSound, RecordIsSound, NothingAhead
    <2> QED
        BY <2>1, <2>2, <2>4, <2>5 DEF RecordIsSound
<1>12. Types'
    BY <1>1, <1>2, <1>5, <1>6 DEF Types
<1>13. EventsArePlaced' /\ BotsArePlaced' /\ LastIsKnown'
    <2>1. EventsArePlaced'
        BY <1>2 DEF IInv, EventsArePlaced, Placed, Of, IsComment
    <2>2. \A b \in bots : b.by \in Key
        BY <1>1 DEF Types, BotNote
    <2>3. BotsArePlaced'
        BY <1>2, <1>5, <1>7, <2>2 DEF IInv, BotsArePlaced, Placed, Home
    <2>4. LastIsKnown'
        BY <1>2, <1>5, <1>7 DEF IInv, LastIsKnown
    <2> QED
        BY <2>1, <2>3, <2>4
<1>14. DiskIsSound'
    <2>1. RecordIsSound(d)'
        BY <1>1, <1>11, SameGitLab
    <2>2. /\ GesturesAreComments(d.retry)' /\ Distinct(d.retry)
          /\ \A e \in Ids(d.retry) : e <= d.cursor
        BY <1>1, <1>6, SameGitLabQueue DEF CopyIsSound, QueuesAreSound
    <2>3. Ids(<<>>) = {}
        BY DEF Ids
    <2>4. burst <= Page => DecidedOnce(d, Ids(d.retry))
        <3>1. \A e \in DOMAIN events : IsComment(e) => d.heard[e] = mem.ps.heard[e]
            BY <1>8, <1>9, <1>10 DEF IsComment, Comments
        <3> QED
            BY <1>1, <1>6, <2>3, <3>1 DEF CopyIsSound, DecidedOnce
    <2>5. PICK open : open = Ids(d.retry)
        OBVIOUS
    <2>6. burst <= Page => DecidedOnce(d, Ids(d.retry))'
        BY <1>1, <2>4, <2>5, SameGitLabQueue
    <2> QED
        BY <1>2, <1>5, <2>1, <2>2, <2>6 DEF DiskIsSound
<1> QED
    BY <1>1, <1>12, <1>13, <1>14 DEF IInv

-----------------------------------------------------------------------------
(* The first request of a poll, and what a run does *)

\* The request for the events alone.
LEMMA PollCommentsKeeps ==
    ASSUME IInv, PollComments
    PROVE  IInv'
<1>1. failures' \in Nat
    BY DEF PollComments, IInv, Types
<1> QED
    BY <1>1, ReadCommentsKeeps DEF PollComments

\* The request for the discussion of a comment fails.
LEMMA PollCommentsUnthreadedKeeps ==
    ASSUME IInv, PollCommentsUnthreaded
    PROVE  IInv'
<1>1. PICK e \in Fresh : ReadComments({e})
    BY DEF PollCommentsUnthreaded
<1>2. failures' \in Nat
    BY DEF PollCommentsUnthreaded, Fail, IInv, Types
<1> QED
    BY <1>1, <1>2, ReadCommentsKeeps

\* No run changes what was decided, nor the cursors and the queues.
LEMMA RunKeepsDisk ==
    ASSUME IInv, mem = None, mem' = None,
           events' = events, marker' = marker, burst' = burst, failures' \in Nat,
           labelled' \subseteq labelled, bots \subseteq bots', bots' \subseteq BotNote,
           NEW d \in Record, disk' = d,
           d.heard = disk.heard, d.cursor = disk.cursor, d.consumed = disk.consumed,
           d.awards = disk.awards, d.retry = disk.retry,
           ConversationsAreHome(d), BotsArePlaced', LastIsKnown'
    PROVE  IInv'
<1>1. Types'
    BY DEF IInv, Types
<1>2. EventsArePlaced'
    <2>1. ASSUME NEW x \in Disc, NEW s, Placed(x, s)
          PROVE  Placed(x, s)'
        BY <2>1 DEF Placed
    <2>2. ASSUME NEW e \in DOMAIN events, IsComment(e)
          PROVE  events[e].disc \in Disc /\ Placed(events[e].disc, events[e].on)'
        BY <2>1, <2>2 DEF IInv, EventsArePlaced
    <2>3. \A i \in labelled' : Of({"label"}, i)' # {}
        BY DEF IInv, EventsArePlaced, Of
    <2>4. \A e \in DOMAIN events :
            /\ events[e].kind \in {"label", "award"} => events[e].on \in Issue
            /\ events[e].kind = "award" => events[e].disc \in {events[e].on} \X Nat
        BY DEF IInv, EventsArePlaced
    <2> QED
        BY <2>2, <2>3, <2>4 DEF EventsArePlaced, IsComment, Placed
<1>3. ASSUME NEW e \in DOMAIN events, NEW k, GoesHome(e, k)
      PROVE  GoesHome(e, k)'
    BY <1>3 DEF GoesHome, MovedOn
<1>4. DiskIsSound'
    <2>1. RecordIsSound(disk)
        BY DEF IInv, DiskIsSound
    <2>2. ConversationsAreHome(d)'
        <3>1. \A k, e : SpokenWith(k, e)' <=> SpokenWith(k, e)
            BY DEF SpokenWith, Home
        <3> QED
            BY <3>1 DEF ConversationsAreHome
    <2>3. GesturesAreRemembered(d)'
        <3>1. GesturesAreRemembered(d)
            BY <2>1 DEF RecordIsSound, GesturesAreRemembered, Past
        <3> QED
            BY <3>1, SameEvents
    <2>4. RepliesAreHome(d)'
        BY <1>3, <2>1 DEF RecordIsSound, RepliesAreHome
    <2>5. NothingAhead(d)'
        BY <2>1 DEF RecordIsSound, NothingAhead
    <2>6. /\ GesturesAreComments(d.retry)' /\ Distinct(d.retry)
          /\ \A e \in Ids(d.retry) : e <= d.cursor
        BY DEF IInv, DiskIsSound, GesturesAreComments, IsComment
    <2>7. burst <= Page => DecidedOnce(d, Ids(d.retry))'
        BY DEF IInv, DiskIsSound, DecidedOnce, IsComment, Ids
    <2> QED
        BY <2>2, <2>3, <2>4, <2>5, <2>6, <2>7 DEF DiskIsSound, RecordIsSound
<1> QED
    BY <1>1, <1>2, <1>4 DEF IInv

\* A run takes up what waits in its conversation.
LEMMA StartKeeps ==
    ASSUME IInv, NEW k \in Key, Start(k)
    PROVE  IInv'
<1>1. /\ disk \in Record /\ mem = None /\ mem' = None /\ bots \subseteq BotNote
      /\ events' = events /\ marker' = marker /\ bots' = bots /\ burst' = burst
      /\ failures' = failures /\ failures \in Nat
      /\ labelled' \subseteq labelled
      /\ disk.conv \in [Key -> Conversation] /\ disk.conv[k].status \in {"new", "idle"}
    BY DEF Start, IInv, Types, Record
<1> PICK c : c = Started(disk.conv[k])
    OBVIOUS
<1> PICK conv : conv = [disk.conv EXCEPT ![k] = c]
    OBVIOUS
<1> PICK d : d = [disk EXCEPT !.conv = conv]
    OBVIOUS
<1>2. disk' = d
    BY DEF Start
<1>3. /\ c \in Conversation /\ c.status = "working" /\ c.next = disk.conv[k].next
      /\ c.reply = c.next /\ c.answers = disk.conv[k].answers /\ c.last = disk.conv[k].last
    <2>1. disk.conv[k] \in Conversation
        BY <1>1
    <2> QED
        BY <2>1 DEF Started, Conversation, Statuses
<1>4. /\ conv \in [Key -> Conversation] /\ conv[k] = c
      /\ \A l \in Key \ {k} : conv[l] = disk.conv[l]
    BY <1>1, <1>3
<1>5. /\ d \in Record /\ d.conv = conv /\ d.index = disk.index /\ d.heard = disk.heard
      /\ d.cursor = disk.cursor /\ d.consumed = disk.consumed
      /\ d.awards = disk.awards /\ d.retry = disk.retry
    BY <1>1, <1>4 DEF Record
<1>6. ConversationsAreHome(disk)
    BY DEF IInv, DiskIsSound, RecordIsSound
<1>7. /\ c.next # None /\ (k \in Event => k \in DOMAIN events) /\ SpokenWith(k, c.next)
      /\ SpokenWith(k, c.reply)
    BY <1>1, <1>3, <1>6 DEF ConversationsAreHome
<1>8. ConversationsAreHome(d)
    <2>1. ASSUME NEW l \in Key
          PROVE  /\ conv[l].status = "absent" => conv[l] = Absent
                 /\ conv[l].status # "absent" =>
                      conv[l].next # None /\ (l \in Event => l \in DOMAIN events)
                 /\ conv[l].status = "working" => conv[l].reply # None
                 /\ SpokenWith(l, conv[l].next) /\ SpokenWith(l, conv[l].reply)
        <3>1. CASE l = k
            BY <1>3, <1>4, <1>7, <3>1
        <3>2. CASE l # k
            BY <1>4, <1>6, <3>2 DEF ConversationsAreHome
        <3> QED
            BY <3>1, <3>2
    <2> QED
        BY <1>5, <1>6, <2>1 DEF ConversationsAreHome
<1>9. \A l \in Key : /\ d.conv[l].answers = disk.conv[l].answers
                     /\ d.conv[l].last = disk.conv[l].last
    BY <1>3, <1>4, <1>5
<1>10. BotsArePlaced' /\ LastIsKnown'
    <2>1. \A b \in bots : b.by \in Key
        BY <1>1 DEF BotNote
    <2>2. BotsArePlaced'
        BY <1>1, <1>2, <1>9, <2>1 DEF IInv, BotsArePlaced, Placed, Home
    <2>3. LastIsKnown'
        BY <1>1, <1>2, <1>9 DEF IInv, LastIsKnown
    <2> QED
        BY <2>2, <2>3
<1> QED
    BY <1>1, <1>2, <1>5, <1>8, <1>10, RunKeepsDisk

\* An answer is posted where the event is that it answers.
LEMMA PostsKeeps ==
    ASSUME IInv, NEW k \in Key, NEW x, Posts(k, x), failures' \in Nat,
           \/ x = <<k, disk.conv[k].answers + 1>>
           \/ LET e == disk.conv[k].reply
              IN  e \in DOMAIN events /\ IsComment(e) /\ x = events[e].disc
    PROVE  IInv'
<1>1. PICK e, n : e = disk.conv[k].reply /\ n = disk.conv[k].answers + 1
    OBVIOUS
<1>2. PICK s : s = events[e].on
    OBVIOUS
<1>3. PICK b : b = [disc |-> x, on |-> s, by |-> k, n |-> n]
    OBVIOUS
<1>4. /\ e = disk.conv[k].reply /\ n = disk.conv[k].answers + 1
      /\ s = events[e].on /\ b = [disc |-> x, on |-> s, by |-> k, n |-> n]
    BY <1>1, <1>2, <1>3
<1>5. /\ disk \in Record /\ mem = None /\ mem' = None /\ bots \subseteq BotNote
      /\ events' = events /\ marker' = marker /\ burst' = burst /\ labelled' = labelled
      /\ marker \in [MR -> Issue \cup {None}] /\ bots' = bots \cup {b}
      /\ disk.conv \in [Key -> Conversation] /\ disk.conv[k].status = "working"
      /\ disk.index \in [MR -> Issue \cup {None}] /\ Types
    BY <1>4 DEF Posts, IInv, Types, Record
<1>6. PICK opened \in SUBSET {m \in MR : marker[m] = k /\ disk.index[m] = None} :
        disk' = [disk EXCEPT
            !.conv[k] = Answered(disk.conv[k], x),
            !.index = [m \in MR |-> IF m \in opened THEN k ELSE @[m]]]
    BY DEF Posts
<1> DEFINE index == [m \in MR |-> IF m \in opened THEN k ELSE disk.index[m]]
<1>7. ConversationsAreHome(disk) /\ BotsArePlaced /\ LastIsKnown /\ EventsArePlaced
    BY DEF IInv, DiskIsSound, RecordIsSound
<1>8. /\ e \in DOMAIN events /\ Home(k, events[e].on) /\ e # None
      /\ disk.conv[k].next # None /\ (k \in Event => k \in DOMAIN events)
      /\ SpokenWith(k, disk.conv[k].next) /\ SpokenWith(k, e)
    BY <1>4, <1>5, <1>7 DEF ConversationsAreHome, SpokenWith
<1>9. n \in Nat /\ n = disk.conv[k].answers + 1 /\ disk.conv[k].answers \in Nat
    BY <1>4, <1>5 DEF Conversation
<1>10. k # None
    BY IntakeAssumption DEF Key, Event
<1>11. x \in Disc /\ events[e].on \in Surface
    <2>1. <<k, n>> \in Disc
        BY <1>9 DEF Disc
    <2>2. events[e].on \in Surface
        BY <1>5, <1>8, EventsAreNumbered DEF EventRecord
    <2> QED
        BY <1>4, <1>7, <2>1, <2>2 DEF EventsArePlaced
<1>12. b \in BotNote
    BY <1>4, <1>9, <1>11 DEF BotNote
<1>13. PICK c : c = Answered(disk.conv[k], x)
    OBVIOUS
<1>14. /\ c \in Conversation /\ c.status = "idle" /\ c.next = disk.conv[k].next
       /\ c.reply = e /\ c.answers = n /\ c.last = x
    <2>1. disk.conv[k] \in Conversation
        BY <1>5
    <2> QED
        BY <1>4, <1>9, <1>11, <1>13, <2>1 DEF Answered, Conversation, Statuses
<1>15. PICK conv : conv = [disk.conv EXCEPT ![k] = c]
    OBVIOUS
<1>16. /\ conv \in [Key -> Conversation]
       /\ conv[k] = c /\ \A l \in Key \ {k} : conv[l] = disk.conv[l]
    BY <1>5, <1>14, <1>15
<1>17. /\ index \in [MR -> Issue \cup {None}]
       /\ \A m \in MR : index[m] \in {None, marker[m]}
    <2>1. ASSUME NEW m \in MR
          PROVE  index[m] \in {None, marker[m]} /\ index[m] \in Issue \cup {None}
        <3>1. disk.index[m] \in {None, marker[m]} /\ marker[m] \in Issue \cup {None}
            BY <1>5, <1>7 DEF ConversationsAreHome
        <3> QED
            BY <3>1
    <2> QED
        BY <2>1
<1> HIDE DEF index
<1>18. PICK d : d = [disk EXCEPT !.conv = conv, !.index = index]
    OBVIOUS
<1>19. /\ disk' = d /\ d \in Record
       /\ d.conv = conv /\ d.index = index /\ d.heard = disk.heard
       /\ d.cursor = disk.cursor /\ d.consumed = disk.consumed
       /\ d.awards = disk.awards /\ d.retry = disk.retry
    <2>1. disk' = d
        BY <1>5, <1>6, <1>13, <1>15, <1>18 DEF Record, index
    <2> QED
        BY <1>5, <1>16, <1>17, <1>18, <2>1 DEF Record
<1>20. ConversationsAreHome(d)
    <2>1. ASSUME NEW l \in Key
          PROVE  /\ conv[l].status = "absent" => conv[l] = Absent
                 /\ conv[l].status # "absent" =>
                      conv[l].next # None /\ (l \in Event => l \in DOMAIN events)
                 /\ conv[l].status = "working" => conv[l].reply # None
                 /\ SpokenWith(l, conv[l].next) /\ SpokenWith(l, conv[l].reply)
        <3>1. CASE l = k
            BY <1>8, <1>14, <1>16, <3>1
        <3>2. CASE l # k
            BY <1>7, <1>16, <3>2 DEF ConversationsAreHome
        <3> QED
            BY <3>1, <3>2
    <2> QED
        BY <1>17, <1>19, <2>1 DEF ConversationsAreHome
<1>21. b.disc = x /\ b.on = s /\ b.by = k /\ b.n = n
    BY <1>4
<1>22. \A o \in bots : /\ o.by \in Key /\ o.n \in 1..disk.conv[o.by].answers
                       /\ o \in BotNote
    BY <1>5, <1>7 DEF BotsArePlaced, BotNote
<1>23. \A o \in bots : o.by = k => o.n < n
    BY <1>9, <1>22
<1>24. BotsArePlaced'
    <2>1. ASSUME NEW y, NEW p, Placed(y, p)
          PROVE  Placed(y, p)'
        BY <1>5, <2>1 DEF Placed
    <2>2. ASSUME NEW o \in bots
          PROVE  /\ Placed(o.disc, o.on)' /\ Home(o.by, o.on)'
                 /\ o.n \in 1..d.conv[o.by].answers
        <3>1. Placed(o.disc, o.on)' /\ Home(o.by, o.on)'
            BY <1>5, <1>7, <2>1 DEF BotsArePlaced, Home
        <3>2. CASE o.by = k
            BY <1>9, <1>14, <1>16, <1>19, <1>22, <1>23, <3>1, <3>2
        <3>3. CASE o.by # k
            BY <1>16, <1>19, <1>22, <3>1, <3>3
        <3> QED
            BY <3>1, <3>2, <3>3
    <2>3. Placed(x, s)'
        <3>1. CASE x = <<k, n>>
            <4>1. x[1] = k /\ x[2] = n
                BY <3>1
            <4> QED
                BY <1>5, <1>10, <1>21, <4>1 DEF Placed
        <3>2. CASE IsComment(e) /\ x = events[e].disc
            BY <1>4, <1>7, <1>8, <2>1, <3>2 DEF EventsArePlaced
        <3> QED
            BY <1>4, <3>1, <3>2
    <2>4. /\ Placed(b.disc, b.on)' /\ Home(b.by, b.on)'
          /\ b.n \in 1..d.conv[b.by].answers
        BY <1>4, <1>5, <1>8, <1>9, <1>14, <1>16, <1>19, <2>3 DEF Home
    <2>5. \A o, p \in bots' : o.by = p.by /\ o.n = p.n => o = p
        BY <1>5, <1>7, <1>9, <1>21, <1>22, <1>23 DEF BotsArePlaced
    <2> QED
        BY <1>5, <1>19, <2>2, <2>4, <2>5 DEF BotsArePlaced
<1>25. LastIsKnown'
    <2>1. ASSUME NEW l \in Key
          PROVE  IF d.conv[l].answers = 0 THEN d.conv[l].last = None
                 ELSE \E o \in bots' : /\ o.by = l /\ o.n = d.conv[l].answers
                                       /\ o.disc = d.conv[l].last
        <3>1. CASE l = k
            BY <1>5, <1>9, <1>14, <1>16, <1>19, <1>21, <3>1
        <3>2. CASE l # k
            BY <1>5, <1>7, <1>16, <1>19, <3>2 DEF LastIsKnown
        <3> QED
            BY <3>1, <3>2
    <2> QED
        BY <1>19, <2>1 DEF LastIsKnown
<1>26. bots \subseteq bots' /\ bots' \subseteq BotNote /\ labelled' \subseteq labelled
    BY <1>5, <1>12
<1> QED
    BY <1>5, <1>19, <1>20, <1>24, <1>25, <1>26, RunKeepsDisk

\* An answer in the discussion, where there is one.
LEMMA AnswerKeeps ==
    ASSUME IInv, NEW k \in Key, Answer(k)
    PROVE  IInv'
<1> DEFINE e == disk.conv[k].reply
           x == AnswerDisc(k, e)
<1>1. Posts(k, x) /\ failures' \in Nat /\ disk.conv[k].status = "working"
    BY DEF Answer, IInv, Types
<1>2. e \in DOMAIN events
    BY <1>1 DEF IInv, DiskIsSound, RecordIsSound, ConversationsAreHome, SpokenWith
<1>3. \/ x = <<k, disk.conv[k].answers + 1>>
      \/ e \in DOMAIN events /\ IsComment(e) /\ x = events[e].disc
    BY <1>2 DEF AnswerDisc
<1> QED
    BY <1>1, <1>3, PostsKeeps

\* An answer that has to start a discussion.
LEMMA AnswerOnTopKeeps ==
    ASSUME IInv, NEW k \in Key, AnswerOnTop(k)
    PROVE  IInv'
<1>1. Posts(k, <<k, disk.conv[k].answers + 1>>) /\ failures' \in Nat
    BY DEF AnswerOnTop, Fail, IInv, Types
<1> QED
    BY <1>1, PostsKeeps

-----------------------------------------------------------------------------
(* What people do on GitLab *)

\* Nothing that was said of the earlier events changes by a new one.
LEMMA HistoryStands ==
    ASSUME Types, Types', NEW new, events' = Append(events, new),
           marker' = marker, bots' = bots
    PROVE  /\ Len(events') = Len(events) + 1 /\ Len(events) + 1 \in Event
           /\ DOMAIN events' = DOMAIN events \cup {Len(events) + 1}
           /\ Len(events) + 1 \notin DOMAIN events
           /\ \A e \in DOMAIN events : events'[e] = events[e]
           /\ events'[Len(events) + 1] = new
           /\ \A x, s : Placed(x, s) => Placed(x, s)'
           /\ \A k, s : Home(k, s) => Home(k, s)'
           /\ \A e \in DOMAIN events : \A k : GoesHome(e, k) => GoesHome(e, k)'
           /\ \A e \in DOMAIN events : IsKept(e)' => IsKept(e)
<1> DEFINE n == Len(events) + 1
<1>1. events \in Seq(EventRecord) /\ events' \in Seq(EventRecord) /\ Len(events') <= MaxEvents
    BY DEF Types
<1>2. /\ Len(events') = n /\ n \in Nat /\ Len(events) \in Nat
      /\ DOMAIN events = 1..Len(events) /\ DOMAIN events' = 1..n
      /\ \A e \in 1..Len(events) : events'[e] = events[e]
      /\ events'[n] = new
    <2>1. new \in EventRecord
        <3>1. Len(events') = Len(events) + 1 /\ events'[Len(events) + 1] = new
            BY <1>1
        <3> QED
            BY <1>1, <3>1
    <2> QED
        BY <1>1, <2>1
<1>3. n \in Event
    BY <1>1, <1>2, IntakeAssumption DEF Event
<1>4. /\ DOMAIN events' = DOMAIN events \cup {n} /\ n \notin DOMAIN events
      /\ \A e \in DOMAIN events : events'[e] = events[e]
    BY <1>2
<1>5. \A x, s : Placed(x, s) => Placed(x, s)'
    BY <1>4 DEF Placed
<1>6. \A k, s : Home(k, s) => Home(k, s)'
    BY <1>4 DEF Home
<1>7. \A e \in DOMAIN events : \A k : GoesHome(e, k) => GoesHome(e, k)'
    BY <1>4 DEF GoesHome, MovedOn
<1>8. ASSUME NEW e \in DOMAIN events, IsKept(e)'
      PROVE  IsKept(e)
    <2> DEFINE others == {f \in DOMAIN events :
                             f > e /\ events[f].kind = "label" /\ events[f].on # events[e].on}
    <2>1. IsFiniteSet(DOMAIN events')
        BY <1>2, FS_Interval
    <2>2. others \subseteq others' /\ others' \subseteq DOMAIN events'
        BY <1>4
    <2>3. Cardinality(others) <= Cardinality(others') /\ Cardinality(others) \in Nat
          /\ Cardinality(others') \in Nat
        BY <2>1, <2>2, FS_Subset, FS_CardinalityType
    <2>4. Cardinality(others') < Keep
        BY <1>8 DEF IsKept
    <2> HIDE DEF others
    <2>5. Cardinality(others) < Keep
        BY <2>3, <2>4, IntakeAssumption
    <2> QED
        BY <2>5 DEF IsKept, others
<1> QED
    BY <1>2, <1>3, <1>4, <1>5, <1>6, <1>7, <1>8

\* So a record that is sound remains so.
LEMMA RecordStands ==
    ASSUME Types, Types', NEW new, events' = Append(events, new),
           marker' = marker, bots' = bots, NEW r \in Record, RecordIsSound(r)
    PROVE  /\ RecordIsSound(r)'
           /\ \A e \in DOMAIN events : Past(r, e) => Past(r, e)'
           /\ \A q : GesturesAreComments(q) => GesturesAreComments(q)'
           /\ \A open : DecidedOnce(r, open) /\ (\A e \in open : e <= r.cursor)
                        => DecidedOnce(r, open)'
<1> DEFINE n == Len(events) + 1
<1>1. /\ DOMAIN events' = DOMAIN events \cup {n} /\ n \notin DOMAIN events /\ n \in Event
      /\ \A e \in DOMAIN events : events'[e] = events[e]
      /\ Len(events') = n /\ Len(events) \in Nat
    BY HistoryStands, EventsAreNumbered
<1>2. r.heard[n] = <<>> /\ r.cursor \in Nat /\ r.cursor < n /\ r.cursor <= n
    BY <1>1 DEF RecordIsSound, NothingAhead, Record
<1>3. \A k, e : SpokenWith(k, e) => SpokenWith(k, e)'
    BY <1>1, HistoryStands DEF SpokenWith
<1>4. ConversationsAreHome(r)'
    BY <1>1, <1>3 DEF RecordIsSound, ConversationsAreHome
<1>5. \A e \in DOMAIN events : Past(r, e) => Past(r, e)'
    BY <1>1 DEF Past
<1>6. GesturesAreRemembered(r)'
    <2>1. /\ \A e \in r.consumed : e \in DOMAIN events' /\ events'[e].kind = "label"
          /\ \A e \in r.awards : e \in DOMAIN events' /\ events'[e].kind = "award"
        BY <1>1 DEF RecordIsSound, GesturesAreRemembered
    <2>2. ASSUME NEW e \in DOMAIN events'
          PROVE  /\ events'[e].kind = "label" /\ IsKept(e)' =>
                      Len(r.heard[e]) <= 1 /\ (r.heard[e] # <<>> => Past(r, e)')
                 /\ events'[e].kind = "award" =>
                      Len(r.heard[e]) <= 1 /\ (r.heard[e] # <<>> => e \in r.awards)
        <3>1. CASE e = n
            <4>1. Len(<<>>) <= 1
                OBVIOUS
            <4> QED
                BY <1>2, <3>1, <4>1
        <3>2. CASE e # n
            <4>1. e \in DOMAIN events /\ events'[e] = events[e] /\ (IsKept(e)' => IsKept(e))
                BY <1>1, <3>2, HistoryStands
            <4> QED
                BY <1>5, <4>1 DEF RecordIsSound, GesturesAreRemembered
        <3> QED
            BY <3>1, <3>2
    <2> QED
        BY <2>1, <2>2 DEF GesturesAreRemembered
<1>7. RepliesAreHome(r)'
    <2>1. ASSUME NEW e \in DOMAIN events', events'[e].kind = "plain",
                 NEW j \in DOMAIN r.heard[e], r.heard[e][j] \in Key
          PROVE  GoesHome(e, r.heard[e][j])'
        <3>1. CASE e = n
            BY <1>2, <2>1, <3>1
        <3>2. CASE e # n
            <4>1. e \in DOMAIN events /\ events'[e] = events[e]
                BY <1>1, <3>2
            <4>2. GoesHome(e, r.heard[e][j])
                BY <2>1, <4>1 DEF RecordIsSound, RepliesAreHome
            <4> QED
                BY <4>1, <4>2, HistoryStands
        <3> QED
            BY <3>1, <3>2
    <2> QED
        BY <2>1 DEF RepliesAreHome
<1>8. NothingAhead(r)'
    BY <1>1, <1>2 DEF RecordIsSound, NothingAhead
<1>9. \A q : GesturesAreComments(q) => GesturesAreComments(q)'
    BY <1>1 DEF GesturesAreComments, IsComment
<1>10. ASSUME NEW open, DecidedOnce(r, open), \A e \in open : e <= r.cursor
       PROVE  DecidedOnce(r, open)'
    <2>1. ASSUME NEW e \in DOMAIN events', IsComment(e)'
          PROVE  IF e > r.cursor THEN r.heard[e] = <<>> /\ e \notin open
                 ELSE Len(r.heard[e]) = (IF e \in open THEN 0 ELSE 1)
        <3>1. CASE e = n
            <4>1. n > r.cursor /\ n \notin open
                BY <1>1, <1>2, <1>10
            <4> QED
                BY <1>2, <3>1, <4>1
        <3>2. CASE e # n
            <4>1. e \in DOMAIN events /\ IsComment(e)
                BY <1>1, <2>1, <3>2 DEF IsComment
            <4> QED
                BY <1>10, <4>1 DEF DecidedOnce
        <3> QED
            BY <3>1, <3>2
    <2> QED
        BY <2>1 DEF DecidedOnce
<1> QED
    BY <1>4, <1>5, <1>6, <1>7, <1>8, <1>9, <1>10 DEF RecordIsSound

\* One more event, written where people can write.
LEMMA HappensKeeps ==
    ASSUME IInv, NEW kind \in Kinds, NEW s \in Surface, NEW d \in Disc \cup {None},
           Happens(kind, s, d),
           kind \in Comments => d \in Disc /\ (d = Root(Len(events) + 1) \/ Placed(d, s)),
           kind \in {"label", "award"} => s \in Issue,
           kind = "award" => d \in {s} \X Nat,
           \/ labelled' \subseteq labelled
           \/ kind = "label" /\ labelled' = labelled \cup {s}
    PROVE  IInv'
<1>1. PICK n, new : n = Len(events) + 1 /\ new = [kind |-> kind, on |-> s, disc |-> d]
    OBVIOUS
<1>2. /\ events' = Append(events, new) /\ bots' = bots /\ marker' = marker
      /\ disk' = disk /\ mem' = mem /\ burst' = burst /\ failures' = failures
      /\ Len(events) < MaxEvents
    BY <1>1 DEF Happens
<1>3. new \in EventRecord /\ new.kind = kind /\ new.on = s /\ new.disc = d
    BY <1>1 DEF EventRecord
<1>4. Types
    BY DEF IInv
<1>5. Types'
    <2>1. events' \in Seq(EventRecord) /\ Len(events') = Len(events) + 1 /\ Len(events) \in Nat
        BY <1>2, <1>3, <1>4 DEF Types
    <2>2. Len(events') <= MaxEvents
        BY <1>2, <2>1, IntakeAssumption
    <2>3. labelled' \subseteq Issue
        BY <1>4 DEF Types
    <2> QED
        BY <1>2, <1>4, <2>1, <2>2, <2>3 DEF Types
<1>6. /\ DOMAIN events' = DOMAIN events \cup {n} /\ n \notin DOMAIN events /\ n \in Event
      /\ \A e \in DOMAIN events : events'[e] = events[e]
      /\ events'[n] = new
      /\ \A x, p : Placed(x, p) => Placed(x, p)'
      /\ \A k, p : Home(k, p) => Home(k, p)'
      /\ \A e \in DOMAIN events : IsKept(e)' => IsKept(e)
    BY <1>1, <1>2, <1>4, <1>5, HistoryStands
<1>7. EventsArePlaced /\ BotsArePlaced /\ LastIsKnown /\ DiskIsSound
    BY DEF IInv
<1>8. EventsArePlaced'
    <2>1. ASSUME NEW e \in DOMAIN events', IsComment(e)'
          PROVE  /\ events'[e].disc \in Disc
                 /\ Placed(events[e].disc, events[e].on)'
        <3>1. CASE e = n
            <4>1. kind \in Comments
                BY <1>3, <1>6, <2>1, <3>1 DEF IsComment
            <4>2. ASSUME d = Root(n)
                  PROVE  Placed(d, s)'
                BY <1>3, <1>6, <4>2 DEF Placed, Root
            <4>3. d \in Disc /\ Placed(d, s)'
                BY <1>1, <1>6, <4>1, <4>2
            <4>4. events'[e].disc = d /\ events'[e].on = s
                BY <1>3, <1>6, <3>1
            <4> QED
                BY <4>3, <4>4 DEF Placed
        <3>2. CASE e # n
            <4>1. e \in DOMAIN events /\ events'[e] = events[e] /\ IsComment(e)
                BY <1>6, <2>1, <3>2 DEF IsComment
            <4>2. events[e].disc \in Disc /\ Placed(events[e].disc, events[e].on)
                BY <1>7, <4>1 DEF EventsArePlaced
            <4>3. PICK x, p : x = events[e].disc /\ p = events[e].on
                OBVIOUS
            <4>4. Placed(x, p)' /\ x \in Disc
                BY <1>6, <4>2, <4>3
            <4>5. events'[e].disc = x /\ events'[e].on = p
                BY <4>1, <4>3
            <4> QED
                BY <4>4, <4>5 DEF Placed
        <3> QED
            BY <3>1, <3>2
    <2>2. ASSUME NEW e \in DOMAIN events'
          PROVE  /\ events'[e].kind \in {"label", "award"} => events'[e].on \in Issue
                 /\ events'[e].kind = "award" => events'[e].disc \in {events'[e].on} \X Nat
        <3>1. CASE e = n
            BY <1>3, <1>6, <3>1
        <3>2. CASE e # n
            BY <1>6, <1>7, <3>2 DEF EventsArePlaced
        <3> QED
            BY <3>1, <3>2
    <2>3. ASSUME NEW i \in labelled'
          PROVE  Of({"label"}, i)' # {}
        <3>1. CASE i \in labelled
            <4>1. PICK e : e \in DOMAIN events /\ events[e].kind = "label" /\ events[e].on = i
                BY <1>7, <3>1 DEF EventsArePlaced, Of
            <4> QED
                BY <1>6, <4>1 DEF Of
        <3>2. CASE kind = "label" /\ i = s
            BY <1>3, <1>6, <3>2 DEF Of
        <3> QED
            BY <3>1, <3>2
    <2> QED
        BY <2>1, <2>2, <2>3 DEF EventsArePlaced
<1>9. BotsArePlaced'
    <2>1. ASSUME NEW b \in bots
          PROVE  /\ Placed(b.disc, b.on)' /\ Home(b.by, b.on)'
                 /\ b.n \in 1..disk.conv[b.by].answers
        BY <1>6, <1>7 DEF BotsArePlaced
    <2> QED
        BY <1>2, <1>7, <2>1 DEF BotsArePlaced
<1>10. LastIsKnown'
    BY <1>2, <1>7 DEF LastIsKnown
<1>11. DiskIsSound'
    <2>1. PICK r : r = disk
        OBVIOUS
    <2>2. /\ r \in Record /\ RecordIsSound(r) /\ GesturesAreComments(r.retry)
          /\ Distinct(r.retry) /\ \A e \in Ids(r.retry) : e <= r.cursor
          /\ burst <= Page => DecidedOnce(r, Ids(r.retry))
        BY <1>4, <1>7, <2>1 DEF Types, DiskIsSound
    <2>3. /\ RecordIsSound(r)' /\ GesturesAreComments(r.retry)'
          /\ burst <= Page => DecidedOnce(r, Ids(r.retry))'
        BY <1>2, <1>4, <1>5, <2>2, RecordStands
    <2> QED
        BY <1>2, <2>1, <2>2, <2>3 DEF DiskIsSound
<1>12. ASSUME mem # None
       PROVE  CopyIsSound(mem)'
    <2>1. PICK m : m = mem
        OBVIOUS
    <2>2. m \in Copy /\ m.ps \in Record /\ CopyIsSound(m) /\ RecordIsSound(m.ps)
        BY <1>4, <1>12, <2>1 DEF IInv, Types, Copy, CopyIsSound
    <2>3. PICK open : open = Ids(m.todo) \cup Ids(m.retry)
        OBVIOUS
    <2>4. /\ RecordIsSound(m.ps)'
          /\ \A e \in DOMAIN events : Past(m.ps, e) => Past(m.ps, e)'
          /\ \A q : GesturesAreComments(q) => GesturesAreComments(q)'
          /\ DecidedOnce(m.ps, open) /\ (\A e \in open : e <= m.ps.cursor)
               => DecidedOnce(m.ps, open)'
        BY <1>2, <1>4, <1>5, <2>2, RecordStands
    <2>5. QueuesAreSound(m)'
        BY <2>2, <2>4 DEF CopyIsSound, QueuesAreSound
    <2>6. FiresAreNew(m)'
        <3>1. ASSUME NEW e \in m.fires
              PROVE  /\ e \in DOMAIN events' /\ events'[e].kind = "label"
                     /\ IsKept(e)' => m.ps.heard[e] = <<>> /\ Past(m.ps, e)'
            <4>1. /\ e \in DOMAIN events /\ events[e].kind = "label"
                  /\ IsKept(e) => m.ps.heard[e] = <<>> /\ Past(m.ps, e)
                BY <2>2 DEF CopyIsSound, FiresAreNew
            <4> QED
                BY <1>6, <2>4, <4>1
        <3> QED
            BY <2>2, <3>1 DEF CopyIsSound, FiresAreNew
    <2>7. AnswersStand(m)'
        BY <1>2, <2>2 DEF CopyIsSound, AnswersStand
    <2>8. burst <= Page => DecidedOnce(m.ps, open)'
        BY <2>2, <2>3, <2>4 DEF CopyIsSound, QueuesAreSound
    <2> QED
        BY <1>2, <2>1, <2>3, <2>4, <2>5, <2>6, <2>7, <2>8 DEF CopyIsSound
<1> QED
    BY <1>2, <1>5, <1>8, <1>9, <1>10, <1>11, <1>12 DEF IInv

\* A comment is at top level, or in a discussion that is on its issue.
LEMMA CommentKeeps ==
    ASSUME IInv, NEW s \in Surface, Comment(s)
    PROVE  IInv'
<1>1. PICK kind \in Comments, d \in {Root(Len(events) + 1)} \cup Threads(s) :
        Happens(kind, s, d) /\ labelled' = labelled
    BY DEF Comment
<1>2. kind \in Kinds /\ kind \notin {"label", "award"}
    BY DEF Kinds, Comments
<1>3. Len(events) \in Nat /\ DOMAIN events \subseteq Nat
    BY EventsAreNumbered DEF IInv
<1>4. \A n \in Nat : Root(n) \in Disc
    BY DEF Root, Disc
<1>5. CASE d = Root(Len(events) + 1)
    <2>1. d \in Disc
        BY <1>3, <1>4, <1>5
    <2> QED
        BY <1>1, <1>2, <1>5, <2>1, HappensKeeps
<1>6. CASE d \in Threads(s)
    <2>1. CASE \E b \in bots : b.on = s /\ d = b.disc
        <3>1. PICK b \in bots : b.on = s /\ d = b.disc
            BY <2>1
        <3>2. b \in BotNote /\ Placed(b.disc, b.on)
            BY DEF IInv, Types, BotsArePlaced
        <3>3. d \in Disc /\ Placed(d, s)
            BY <3>1, <3>2 DEF BotNote
        <3> QED
            BY <1>1, <1>2, <3>3, HappensKeeps
    <2>2. CASE \E e \in DOMAIN events : events[e].on = s /\ d = Root(e)
        <3>1. PICK e \in DOMAIN events : events[e].on = s /\ d = Root(e)
            BY <2>2
        <3>2. d \in Disc /\ Placed(d, s)
            BY <1>3, <1>4, <3>1 DEF Placed, Root
        <3> QED
            BY <1>1, <1>2, <3>2, HappensKeeps
    <2> QED
        BY <1>6, <2>1, <2>2 DEF Threads, Of
<1> QED
    BY <1>5, <1>6

\* Comments, labels, approvals, and closing and reopening.
LEMMA PeopleKeep ==
    ASSUME IInv, People
    PROVE  IInv'
<1>1. CASE \E s \in Surface : Comment(s)
    BY <1>1, CommentKeeps
<1>2. ASSUME NEW s \in Surface, Turn(s)
      PROVE  IInv'
    <2>1. PICK kind \in {"reopen", "close"} : Happens(kind, s, None) /\ labelled' = labelled
        BY <1>2 DEF Turn
    <2>2. kind \in Kinds /\ kind \notin Comments \cup {"label", "award"}
        BY DEF Kinds, Comments
    <2> QED
        BY <2>1, <2>2, HappensKeeps
<1>3. ASSUME NEW i \in Issue, SetLabel(i) \/ RemoveLabel(i)
      PROVE  IInv'
    <2>1. PICK kind \in {"label", "unlabel"} :
            /\ Happens(kind, i, None)
            /\ \/ labelled' \subseteq labelled
               \/ kind = "label" /\ labelled' = labelled \cup {i}
        BY <1>3 DEF SetLabel, RemoveLabel
    <2>2. kind \in Kinds /\ kind \notin Comments \cup {"award"} /\ i \in Surface
        BY DEF Kinds, Comments, Surface
    <2> QED
        BY <2>1, <2>2, HappensKeeps
<1>4. ASSUME NEW b \in bots, Award(b)
      PROVE  IInv'
    <2>1. /\ b.on \in Issue /\ Happens("award", b.on, <<b.by, b.n>>) /\ labelled' = labelled
        BY <1>4 DEF Award
    <2>2. b \in BotNote /\ Home(b.by, b.on)
        BY DEF IInv, Types, BotsArePlaced
    <2>3. /\ b.on \in Surface /\ b.by = b.on /\ <<b.by, b.n>> \in {b.on} \X Nat
          /\ <<b.by, b.n>> \in Disc /\ "award" \in Kinds /\ "award" \notin Comments
        BY <2>1, <2>2 DEF Home, BotNote, Disc, Surface, Kinds, Comments
    <2> QED
        BY <2>1, <2>3, HappensKeeps
<1> QED
    BY <1>1, <1>2, <1>3, <1>4 DEF People

-----------------------------------------------------------------------------
(* The invariant *)

\* Nothing was written and nothing heard.
LEMMA InitHolds ==
    ASSUME Init
    PROVE  IInv
<1>1. /\ events = <<>> /\ labelled = {} /\ bots = {} /\ mem = None
      /\ marker \in [MR -> Issue \cup {None}] /\ burst = 0 /\ failures = 0
    BY DEF Init
<1>2. events \in Seq(EventRecord) /\ Len(events) = 0 /\ DOMAIN events = {}
    BY <1>1
<1>3. Absent \in Conversation /\ Absent.answers = 0 /\ Absent.last = None
      /\ Absent.status = "absent" /\ Absent.next = None /\ Absent.reply = None
    BY DEF Absent, Conversation, Statuses
<1> PICK conv : conv = [k \in Key |-> Absent]
    OBVIOUS
<1> PICK index : index = [m \in MR |-> None]
    OBVIOUS
<1> PICK heard : heard = [e \in Event |-> <<>>]
    OBVIOUS
<1>4. /\ conv \in [Key -> Conversation] /\ \A k \in Key : conv[k] = Absent
      /\ index \in [MR -> Issue \cup {None}] /\ \A m \in MR : index[m] = None
      /\ heard \in [Event -> Seq(Key \cup {None})] /\ \A e \in Event : heard[e] = <<>>
    BY <1>3
<1>5. disk = [boot |-> FALSE, cursor |-> 0, retry |-> <<>>, consumed |-> {},
              awards |-> {}, conv |-> conv, index |-> index, heard |-> heard]
    BY DEF Init
<1>6. /\ disk.cursor = 0 /\ disk.retry = <<>> /\ disk.consumed = {} /\ disk.awards = {}
      /\ disk.conv = conv /\ disk.index = index /\ disk.heard = heard
    BY <1>5
<1>7. disk \in Record
    BY <1>4, <1>5 DEF Record
<1>8. Types
    BY <1>1, <1>2, <1>7, IntakeAssumption DEF Types
<1>9. EventsArePlaced /\ BotsArePlaced
    BY <1>1, <1>2 DEF EventsArePlaced, BotsArePlaced
<1>10. LastIsKnown
    BY <1>3, <1>4, <1>6 DEF LastIsKnown
<1>11. RecordIsSound(disk)
    <2>1. ConversationsAreHome(disk)
        BY <1>3, <1>4, <1>6 DEF ConversationsAreHome, SpokenWith
    <2>2. GesturesAreRemembered(disk) /\ RepliesAreHome(disk)
        BY <1>2, <1>6 DEF GesturesAreRemembered, RepliesAreHome
    <2>3. NothingAhead(disk)
        BY <1>2, <1>4, <1>6 DEF NothingAhead
    <2> QED
        BY <2>1, <2>2, <2>3 DEF RecordIsSound
<1>12. DiskIsSound
    <2>1. DOMAIN disk.retry = {}
        BY <1>6
    <2>2. GesturesAreComments(disk.retry) /\ Distinct(disk.retry) /\ Ids(disk.retry) = {}
        BY <2>1 DEF GesturesAreComments, Distinct, Ids
    <2>3. DecidedOnce(disk, Ids(disk.retry))
        BY <1>2 DEF DecidedOnce
    <2> QED
        BY <1>11, <2>2, <2>3 DEF DiskIsSound
<1> QED
    BY <1>1, <1>8, <1>9, <1>10, <1>12 DEF IInv

\* A step that changes nothing.
LEMMA StutterKeeps ==
    ASSUME IInv, UNCHANGED vars
    PROVE  IInv'
<1>1. /\ UNCHANGED <<gitlab, disk>> /\ mem' = mem /\ burst' = burst /\ failures' = failures
    BY DEF vars
<1>2. Types /\ burst \in Nat /\ burst <= burst' /\ burst' \in Nat /\ failures' \in Nat
    BY <1>1 DEF IInv, Types
<1>3. CASE mem = None
    <2>1. Types' /\ EventsArePlaced' /\ BotsArePlaced' /\ LastIsKnown' /\ DiskIsSound'
        BY <1>1, <1>2, <1>3, DiskStays
    <2> QED
        BY <1>1, <1>3, <2>1 DEF IInv
<1>4. CASE mem # None
    <2>1. PICK m : m = mem
        OBVIOUS
    <2>2. m \in Copy /\ CopyIsSound(m) /\ mem' = m
        BY <1>1, <1>2, <1>4, <2>1 DEF IInv, Types
    <2>3. /\ RecordIsSound(m.ps) /\ QueuesAreSound(m) /\ FiresAreNew(m) /\ AnswersStand(m)
          /\ burst' <= Page => DecidedOnce(m.ps, Ids(m.todo) \cup Ids(m.retry))
        BY <1>1, <2>2 DEF CopyIsSound
    <2> QED
        BY <1>1, <1>2, <2>2, <2>3, CopyMoves
<1> QED
    BY <1>3, <1>4

\* Each action keeps the invariant.
LEMMA NextKeeps ==
    ASSUME IInv, [Next]_vars
    PROVE  IInv'
<1>1. CASE People
    BY <1>1, PeopleKeep
<1>2. CASE PollComments
    BY <1>2, PollCommentsKeeps
<1>3. CASE PollLabels
    BY <1>3, PollLabelsKeeps
<1>4. CASE PollAwards
    BY <1>4, PollAwardsKeeps
<1>5. CASE Decide
    BY <1>5, DecideKeeps
<1>6. CASE Commit
    BY <1>6, CommitKeeps
<1>7. CASE Abandon
    BY <1>7, AbandonKeeps
<1>8. CASE PollCommentsUnthreaded
    BY <1>8, PollCommentsUnthreadedKeeps
<1>9. CASE Defer
    BY <1>9, DeferKeeps
<1>10. CASE IssueUnknown
    BY <1>10, IssueUnknownKeeps
<1>11. CASE Runs
    BY <1>11, StartKeeps, AnswerKeeps, AnswerOnTopKeeps DEF Runs
<1>12. CASE UNCHANGED vars
    BY <1>12, StutterKeeps
<1> QED
    BY <1>1, <1>2, <1>3, <1>4, <1>5, <1>6, <1>7, <1>8, <1>9, <1>10, <1>11, <1>12
       DEF Next, Poll, Trouble

\* What is on GitLab is of its kinds, each answer and discussion is where it
\* was written, and both the record on disk and the copy of a poll are sound:
\* after every step of people, polls, failures and runs.
THEOREM Invariance == Spec => []IInv
<1>1. Init => IInv
    BY InitHolds
<1>2. IInv /\ [Next]_vars => IInv'
    BY NextKeeps
<1> QED
    BY <1>1, <1>2, PTL DEF Spec

-----------------------------------------------------------------------------
(* What a cycle promises *)

\* The project's state and a poll have the values the code gives them: the
\* cursor is never past the events there are, and a conversation that was not
\* opened has nothing.
THEOREM TypeCorrect == Spec => []TypeOK
<1>1. IInv => TypeOK
    <2> SUFFICES ASSUME IInv PROVE TypeOK
        OBVIOUS
    <2>1. disk \in Record /\ ConversationsAreHome(disk) /\ NothingAhead(disk)
        BY DEF IInv, Types, DiskIsSound, RecordIsSound
    <2>2. Len(events) \in Nat
        BY DEF IInv, Types
    <2>3. disk.cursor \in 0..Len(events) /\ disk.consumed \subseteq Event
        BY <2>1, <2>2 DEF Record, NothingAhead
    <2>4. ASSUME NEW k \in Key
          PROVE  /\ disk.conv[k].status \in {"absent", "new", "idle", "working"}
                 /\ disk.conv[k].status = "absent" => disk.conv[k] = Absent
                 /\ disk.conv[k].pending \subseteq Event
        <3>1. disk.conv[k] \in Conversation
            BY <2>1 DEF Record
        <3> QED
            BY <2>1, <3>1 DEF Conversation, Statuses, ConversationsAreHome
    <2>5. mem # None => mem.at \in {"labels", "awards", "assemble"}
        BY DEF IInv, Types, Copy
    <2> QED
        BY <2>3, <2>4, <2>5 DEF TypeOK
<1> QED
    BY <1>1, Invariance, PTL

\* Behind the cursor every comment was decided exactly once or is still put
\* off, and ahead of it none was: whatever failed, crashed or was retried, as
\* long as one page held what a cycle found new.
THEOREM CommentsDecidedOnce == Spec => []CommentsAreDecidedOnce
<1>1. IInv => CommentsAreDecidedOnce
    BY DEF IInv, DiskIsSound, DecidedOnce, Ids, CommentsAreDecidedOnce, Waiting
<1> QED
    BY <1>1, Invariance, PTL

\* A plain reply in a discussion resumes a conversation that has spoken there
\* or was opened there; where that one has moved on, it may be that of the
\* merge request's issue, and no other.
THEOREM RepliesHome == Spec => []RepliesGoHome
<1>1. IInv => RepliesGoHome
    BY DEF IInv, DiskIsSound, RecordIsSound, RepliesAreHome, RepliesGoHome
<1> QED
    BY <1>1, Invariance, PTL

\* A trigger label starts one run and an approval is taken once, through the
\* crashes and repeats of polls, as long as the memory of label events holds
\* those of the other issues that came after.
THEOREM LabelsOnce == Spec => []LabelsFireOnce
<1>1. IInv => LabelsFireOnce
    BY DEF IInv, DiskIsSound, RecordIsSound, GesturesAreRemembered, LabelsFireOnce
<1> QED
    BY <1>1, Invariance, PTL

-----------------------------------------------------------------------------
(***************************************************************************)
(* The board.  The other polls of the same cycle compare it with what was  *)
(* observed, and write to it while people, GitHub's workflow and the       *)
(* conversations go on: what is said of an item therefore names who is     *)
(* still to change it -- a write that is under way, an observation that is *)
(* being replaced, a drag that is owed.                                    *)
(***************************************************************************)
CONSTANTS Items, Blockers, MaxDrags, MaxPrunes, MaxTroubles

VARIABLES forge, board, flow, shadow, obs, conv, cyc, hand, owed, failed, again, drags,
    prunes, troubles

Board == INSTANCE StatusBoard

\* The item that o observed has not been put back under a new id since.
Current(o) == Board!OnBoard(o.item) /\ o.id = board[o.item].id

\* The next comparison may take o for a drag into the trigger status.
Armed(o) ==
    /\ Current(o) /\ board[o.item].status = "ready"
    /\ o.status # "ready" \/ o.deferred

\* Its observations and what it fires wait for the commit; a staged drag
\* already has its claim on what is owed.
Staged == cyc # None /\ cyc.at \in {"prune", "shadow", "commit"}
Pledged(i) == IF Staged /\ i \in cyc.fires THEN 1 ELSE 0

\* What a step works on is there to be worked on.
CyclesFit ==
    cyc # None =>
        /\ cyc.at \in {"collect", "fetch"} => cyc.obs = obs
        /\ cyc.at = "collect" => conv[Board!I].status = "ended"
        /\ cyc.at = "launch" => \/ conv[Board!I].status = "new"
                                \/ conv[Board!I].status = "idle" /\ conv[Board!I].pending > 0

\* A conversation that ran has come to one of the outcomes a column exists for.
OutcomesAreKnown ==
    \A i \in Board!Item : conv[i].status \in {"ended", "idle"} =>
      conv[i].outcome \in Board!Terminal

\* What the board shows of an item that nobody moved.
Expected(i) == IF conv[i].status = "idle" THEN Board!StatusOf(conv[i].outcome) ELSE "active"

\* A write that sets the field of an item, not the label of its issue.
Setting == Board!Writing /\ cyc.write.step # "label"

\* A phase writes what the conversation of the item calls for, and only the
\* mirroring of a drag sets a label.
WritesFit ==
    Board!Writing =>
        /\ cyc.at \in {"collect", "prune", "shadow", "launch"}
        /\ cyc.at = "shadow" <=> cyc.write.step = "label"
        /\ cyc.at = "collect" => cyc.write.status = Board!StatusOf(conv[Board!I].outcome)
        /\ cyc.at = "launch" => cyc.write.status = "active"
        /\ cyc.at = "prune" /\ conv[Board!I].status \in {"working", "ended", "idle"} =>
             cyc.write.status = Expected(Board!I)

\* OutcomeIsShown, with what makes it inductive: the board may also lag behind
\* by a write that is under way and will find its item, and whose last try, if
\* it comes to that, is one that sticks.
Shown ==
    troubles = 0 =>
        /\ \A i \in Board!Item :
             /\ i \notin hand /\ Board!OnBoard(i)
             /\ conv[i].status \in {"working", "ended", "idle"}
             => board[i].status = Expected(i) \/ (Setting /\ Board!I = i)
        /\ Setting /\ Board!OnBoard(Board!I) /\ Board!I \notin hand =>
             /\ Board!Reachable
             /\ cyc.write.step = "confirm" /\ cyc.write.tries = Board!Tries => Board!Stuck

\* An item is put back under a later id, so nothing that was seen is ahead.
IdsFit ==
    /\ \A o \in obs : o.id <= board[o.item].id
    /\ cyc # None => \A o \in cyc.obs : o.id <= board[o.item].id
    /\ Board!Writing => cyc.write.id <= board[Board!I].id

\* o is being replaced in the cycle's observations, or will be.
Replaced(o) ==
    /\ Board!At("prune")
    /\ o \in cyc.stale \/ (Board!Writing /\ Board!I = o.item /\ cyc.write.old = o.id)

\* S observes an item once.
OneEach(S) == \A o, p \in S : o.item = p.item => o = p

\* What a cycle still has to restore it knows from a commit, and what it is
\* restoring it took from there.
RestoresFit ==
    Board!At("prune") =>
              /\ cyc.stale \subseteq obs
              /\ \A o \in cyc.stale : Board!I <= o.item /\ ~Current(o)
              /\ Board!Writing =>
                   /\ \A o \in cyc.stale : o.item # Board!I
                   /\ \E o \in obs : o.item = Board!I /\ o.id = cyc.write.old /\ ~Current(o)
                   /\ Board!Reachable

\* The committed observations hold an item once.  The staged ones hold it twice
\* only while one of the two is being replaced: two of them, one armed, would
\* take the restored status of the other for a drag.
OneObservation ==
    /\ OneEach(obs)
    /\ Staged =>
         /\ \A o, p \in cyc.obs : o.item = p.item => o = p \/ Replaced(o) \/ Replaced(p)
         /\ \A o \in cyc.obs : Board!Restoring(o.item) => Current(o) \/ Replaced(o)

\* A drag is owed for every dispatch that is staged, and one more for every
\* observation, committed or staged, that the next comparison may fire from.
Covered ==
    /\ \A i \in Board!Item : owed[i] >= Pledged(i)
    /\ \A o \in obs : Armed(o) => owed[o.item] >= 1
    /\ Staged => \A o \in cyc.obs :
         Armed(o) /\ ~(Board!At("prune") /\ Board!Writing /\ Board!I = o.item) =>
           owed[o.item] - Pledged(o.item) >= 1
    /\ Board!At("prune") /\ Board!Writing /\ cyc.write.step = "confirm" /\ ~Board!Stuck /\
         board[Board!I].status = "ready"
               => owed[Board!I] - Pledged(Board!I) >= 1

\* What DispatchesWereAsked speaks of: no write of the watcher failed, and no
\* item was taken off again in the cycle that puts it back.
Undisturbed == ~failed /\ ~again

\* Only a GitHub project loses items, or gets them anew, and its workflow
\* touches what is on it.
BoardsFit ==
    /\ \A i \in flow : Board!OnBoard(i)
    /\ forge = "vault" => \A i \in Board!Item : Board!OnBoard(i) /\ board[i].id = 0

\* What the module assumes of its constants.
Assumed ==
    /\ Items \in [{"vault", "github"} -> Nat \ {0}]
    /\ Blockers \in [1..Items["vault"] -> SUBSET (1..Items["vault"])]
    /\ {MaxDrags, MaxPrunes, MaxTroubles} \subseteq Nat
    /\ None \notin Board!Writes \cup Board!Cycles

Typed == Assumed /\ Board!TypeOK

\* The inductive invariant.  The accounts of observations and drags hold only
\* Undisturbed; the rest holds whatever happens.
BoardInv ==
    /\ Typed /\ BoardsFit /\ CyclesFit /\ OutcomesAreKnown /\ WritesFit /\ Shown /\ IdsFit
    /\ Undisturbed => RestoresFit /\ OneObservation /\ Covered

-----------------------------------------------------------------------------

LEMMA LeastOf ==
    ASSUME NEW S \in SUBSET Nat, S # {}
    PROVE  \E i \in S : \A k \in S : i <= k
<1> DEFINE R == OpToRel(<, Nat)
<1>1. \A m, n \in Nat : m < n => <<m, n>> \in R
  BY SMT DEF OpToRel
<1>2. IsWellFoundedOn(R, Nat)
  BY NatLessThanWellFounded
<1> HIDE DEF R
<1>3. \E i \in S : \A k \in S : ~(<<k, i>> \in R)
  BY <1>2, WFMin, Zenon
<1>4. ASSUME NEW i \in S, NEW k \in S, ~(<<k, i>> \in R) PROVE i <= k
  <2>1. ~(k < i)
    BY <1>1, <1>4
  <2> QED BY <2>1
<1> QED BY <1>3, <1>4

SameBut(c, d) ==
    /\ d \in Board!Cycles /\ d.write = None
    /\ d.obs = c.obs /\ d.stale = c.stale /\ d.changed = c.changed /\ d.fires = c.fires

LEMMA StepEffect ==
    ASSUME NEW c \in Board!Cycles, NEW i \in Nat,
           NEW s \in {"collect", "fetch", "prune", "shadow", "commit", "launch", "end"}
    PROVE  SameBut(c, Board!Step(c, s, i)) /\ Board!Step(c, s, i).at = s /\
             Board!Step(c, s, i).item = i
<1>1. /\ Board!Step(c, s, i) \in Board!Cycles /\ Board!Step(c, s, i).at = s
      /\ Board!Step(c, s, i).item = i
      /\ Board!Step(c, s, i).write = None /\ Board!Step(c, s, i).obs = c.obs
      /\ Board!Step(c, s, i).stale = c.stale /\ Board!Step(c, s, i).changed = c.changed
      /\ Board!Step(c, s, i).fires = c.fires
  BY DEF Board!Step, Board!Cycles
<1> QED BY <1>1 DEF SameBut

LEMMA EnterEffect ==
    ASSUME NEW c \in Board!Cycles, NEW convs, Items[forge] \in Nat,
           NEW s \in {"collect", "fetch", "prune", "shadow", "commit", "launch", "end"},
           NEW from \in Nat \ {0}, NEW otherwise
    PROVE  LET d == Board!Enter(c, convs, s, from, otherwise) IN
           \/ d = otherwise /\ \A i \in from..Items[forge] : ~Board!HasWork(c, convs, s, i)
           \/ /\ SameBut(c, d) /\ d.at = s /\ d.item \in Board!Item /\ d.item >= from
              /\ Board!HasWork(c, convs, s, d.item)
              /\ \A i \in from..Items[forge] : Board!HasWork(c, convs, s, i) => d.item <= i
<1> DEFINE left == {i \in from..Items[forge] : Board!HasWork(c, convs, s, i)}
           first == CHOOSE i \in left : \A j \in left : i <= j
<1>1. Board!Enter(c, convs, s, from, otherwise) =
        IF left = {} THEN otherwise ELSE Board!Step(c, s, first)
  BY DEF Board!Enter
<1>2. CASE left = {}
  BY <1>1, <1>2
<1>3. CASE left # {}
  <2>1. first \in left /\ \A j \in left : first <= j
    <3>1. left \in SUBSET Nat
      OBVIOUS
    <3> HIDE DEF left
    <3> QED BY <1>3, <3>1, LeastOf
  <2> HIDE DEF first
  <2>2. first \in Nat /\ first \in Board!Item /\ first >= from
    BY <2>1 DEF Board!Item
  <2>3. Board!Enter(c, convs, s, from, otherwise) = Board!Step(c, s, first)
    BY <1>1, <1>3
  <2> DEFINE d == Board!Enter(c, convs, s, from, otherwise)
  <2>4. SameBut(c, d) /\ d.at = s /\ d.item = first
    <3> HIDE DEF left
    <3> HIDE DEF d
    <3>1. d = Board!Step(c, s, first)
      BY <2>3 DEF d
    <3> QED BY <2>2, <3>1, StepEffect
  <2> HIDE DEF d
  <2>5. /\ Board!HasWork(c, convs, s, first)
        /\ \A i \in from..Items[forge] : Board!HasWork(c, convs, s, i) => first <= i
    BY <2>1
  <2>6. /\ SameBut(c, d) /\ d.at = s /\ d.item \in Board!Item /\ d.item >= from
        /\ Board!HasWork(c, convs, s, d.item)
        /\ \A i \in from..Items[forge] : Board!HasWork(c, convs, s, i) => d.item <= i
    BY <2>2, <2>4, <2>5
  <2> QED BY <2>6 DEF d
<1> QED BY <1>2, <1>3

LEMMA ItemsAreNumbers ==
    ASSUME Typed
    PROVE  Items[forge] \in Nat \ {0} /\ 1 \in Board!Item /\ Board!Item \subseteq Nat \ {0}
<1>1. Items[forge] \in Nat \ {0}
  BY DEF Typed, Assumed, Board!TypeOK
<1> QED BY <1>1 DEF Board!Item

\* A cycle that goes from c on to d, whose place fits the conversations.
GoesOn(c, d, convs) ==
    /\ SameBut(c, d) /\ d.item \in Board!Item
    /\ d.at = "collect" => convs[d.item].status = "ended"
    /\ d.at = "launch" => \/ convs[d.item].status = "new"
                          \/ convs[d.item].status = "idle" /\ convs[d.item].pending > 0

LEMMA ToCollectEffect ==
    ASSUME Typed, NEW c \in Board!Cycles, NEW convs, NEW from \in Nat \ {0}
    PROVE  LET d == Board!ToCollect(c, convs, from)
           IN  GoesOn(c, d, convs) /\ d.at \in {"collect", "fetch"}
<1> DEFINE o == Board!Step(c, "fetch", 1)
           d == Board!ToCollect(c, convs, from)
<1>1. SameBut(c, o) /\ o.at = "fetch" /\ o.item = 1
  BY StepEffect
<1>2. d = Board!Enter(c, convs, "collect", from, o)
  BY DEF Board!ToCollect
<1>3. \/ d = o
      \/ SameBut(c, d) /\ d.at = "collect" /\ d.item \in Board!Item /\
           Board!HasWork(c, convs, "collect", d.item)
  <2> HIDE DEF o, d
  <2> QED BY <1>2, EnterEffect, ItemsAreNumbers
<1> HIDE DEF o, d
<1>4. GoesOn(c, d, convs) /\ d.at \in {"collect", "fetch"}
  BY <1>1, <1>3, ItemsAreNumbers DEF GoesOn, Board!HasWork
<1> QED BY <1>4 DEF d

LEMMA ToLaunchEffect ==
    ASSUME Typed, NEW c \in Board!Cycles, NEW convs, NEW from \in Nat \ {0}
    PROVE  LET d == Board!ToLaunch(c, convs, from)
           IN  GoesOn(c, d, convs) /\ d.at \in {"launch", "end"}
<1> DEFINE o == Board!Step(c, "end", 1)
           d == Board!ToLaunch(c, convs, from)
<1>1. SameBut(c, o) /\ o.at = "end" /\ o.item = 1
  BY StepEffect
<1>2. d = Board!Enter(c, convs, "launch", from, o)
  BY DEF Board!ToLaunch
<1>3. \/ d = o
      \/ SameBut(c, d) /\ d.at = "launch" /\ d.item \in Board!Item /\
           Board!HasWork(c, convs, "launch", d.item)
  <2> HIDE DEF o, d
  <2> QED BY <1>2, EnterEffect, ItemsAreNumbers
<1> HIDE DEF o, d
<1>4. GoesOn(c, d, convs) /\ d.at \in {"launch", "end"}
  BY <1>1, <1>3, ItemsAreNumbers DEF GoesOn, Board!HasWork
<1> QED BY <1>4 DEF d

LEMMA ToShadowEffect ==
    ASSUME Typed, NEW c \in Board!Cycles, NEW convs, NEW from \in Nat \ {0}
    PROVE  LET d == Board!ToShadow(c, from)
           IN  GoesOn(c, d, convs) /\ d.at \in {"shadow", "commit"}
<1> DEFINE o == Board!Step(c, "commit", 1)
           d == Board!ToShadow(c, from)
<1>1. SameBut(c, o) /\ o.at = "commit" /\ o.item = 1
  BY StepEffect
<1>2. d = Board!Enter(c, conv, "shadow", from, o)
  BY DEF Board!ToShadow
<1>3. \/ d = o
      \/ SameBut(c, d) /\ d.at = "shadow" /\ d.item \in Board!Item
  <2> HIDE DEF o, d
  <2> QED BY <1>2, EnterEffect, ItemsAreNumbers
<1> HIDE DEF o, d
<1>4. GoesOn(c, d, convs) /\ d.at \in {"shadow", "commit"}
  BY <1>1, <1>3, ItemsAreNumbers DEF GoesOn
<1> QED BY <1>4 DEF d

LEMMA ToPruneEffect ==
    ASSUME Typed, NEW c \in Board!Cycles, NEW convs, NEW from \in Nat \ {0}
    PROVE  LET d == Board!ToPrune(c, from)
           IN  /\ GoesOn(c, d, convs) /\ d.at \in {"prune", "shadow", "commit"}
               /\ \A o \in c.stale : o.item \in from..Items[forge] =>
                    d.at = "prune" /\ d.item <= o.item
<1> DEFINE e == Board!ToShadow(c, 1)
           d == Board!ToPrune(c, from)
<1>1. GoesOn(c, e, convs) /\ e.at \in {"shadow", "commit"}
  BY ToShadowEffect
<1>2. d = Board!Enter(c, conv, "prune", from, e)
  BY DEF Board!ToPrune
<1>3. \/ d = e /\ \A i \in from..Items[forge] : ~Board!HasWork(c, conv, "prune", i)
      \/ /\ SameBut(c, d) /\ d.at = "prune" /\ d.item \in Board!Item
         /\ \A i \in from..Items[forge] : Board!HasWork(c, conv, "prune", i) => d.item <= i
  <2> HIDE DEF e, d
  <2>1. Items[forge] \in Nat
    BY ItemsAreNumbers
  <2>2. LET x == Board!Enter(c, conv, "prune", from, e)
        IN  \/ x = e /\ \A i \in from..Items[forge] : ~Board!HasWork(c, conv, "prune", i)
            \/ /\ SameBut(c, x) /\ x.at = "prune" /\ x.item \in Board!Item /\ x.item >= from
               /\ Board!HasWork(c, conv, "prune", x.item)
               /\ \A i \in from..Items[forge] : Board!HasWork(c, conv, "prune", i) =>
                    x.item <= i
    BY <2>1, EnterEffect, Zenon
  <2> QED BY <1>2, <2>2, Zenon
<1> HIDE DEF e, d
<1>4. GoesOn(c, d, convs) /\ d.at \in {"prune", "shadow", "commit"}
  BY <1>1, <1>3 DEF GoesOn
<1>5. ASSUME NEW o \in c.stale, o.item \in from..Items[forge]
      PROVE  d.at = "prune" /\ d.item <= o.item
  <2>1. Board!HasWork(c, conv, "prune", o.item)
    BY DEF Board!HasWork
  <2> QED BY <1>3, <1>5, <2>1
<1> QED BY <1>4, <1>5 DEF d

\* The places a cycle may go to from a place it works at.
Onward ==
    [collect |-> {"collect", "fetch"}, prune |-> {"prune", "shadow", "commit"},
     shadow |-> {"shadow", "commit"}, launch |-> {"launch", "end"}]

LEMMA GoOnEffect ==
    ASSUME Typed, NEW c \in Board!Cycles, c.item \in Board!Item, NEW convs,
           c.at \in {"collect", "prune", "shadow", "launch"}
    PROVE  LET d == Board!GoOn(c, convs)
           IN  /\ GoesOn(c, d, convs) /\ d.at \in Onward[c.at]
               /\ c.at = "prune" => \A o \in c.stale : o.item \in c.item..Items[forge] =>
                    d.at = "prune" /\ d.item <= o.item
<1>1. c.item \in Nat \ {0} /\ c.item + 1 \in Nat \ {0}
  BY ItemsAreNumbers
<1>2. CASE c.at = "collect"
  <2>1. Board!GoOn(c, convs) = Board!ToCollect(c, convs, c.item + 1)
    BY <1>2 DEF Board!GoOn
  <2> QED BY <1>1, <1>2, <2>1, ToCollectEffect DEF Onward
<1>3. CASE c.at = "prune"
  <2>1. Board!GoOn(c, convs) = Board!ToPrune(c, c.item)
    BY <1>3 DEF Board!GoOn
  <2> QED BY <1>1, <1>3, <2>1, ToPruneEffect DEF Onward
<1>4. CASE c.at = "shadow"
  <2>1. Board!GoOn(c, convs) = Board!ToShadow(c, c.item + 1)
    BY <1>4 DEF Board!GoOn
  <2> QED BY <1>1, <1>4, <2>1, ToShadowEffect DEF Onward
<1>5. CASE c.at = "launch"
  <2>1. Board!GoOn(c, convs) = Board!ToLaunch(c, convs, c.item + 1)
    BY <1>5 DEF Board!GoOn
  <2> QED BY <1>1, <1>5, <2>1, ToLaunchEffect DEF Onward
<1> QED BY <1>2, <1>3, <1>4, <1>5

LEMMA CycleFields ==
    ASSUME Typed, cyc # None
    PROVE  /\ cyc \in Board!Cycles /\ cyc.item \in Board!Item
           /\ cyc.fires \subseteq Board!Item
           /\ cyc.obs \subseteq Board!Observations /\ cyc.stale \subseteq Board!Observations
           /\ cyc.write \in Board!Writes \cup {None}
           /\ \A o \in cyc.obs : o.item \in Board!Item
<1>1. /\ cyc \in Board!Cycles /\ cyc.item \in Board!Item /\ cyc.fires \subseteq Board!Item
      /\ \A o \in cyc.obs : o.item \in Board!Item
  BY DEF Typed, Board!TypeOK
<1> QED BY <1>1 DEF Board!Cycles

LEMMA WriteFields ==
    ASSUME Typed, Board!Writing
    PROVE  /\ cyc.write \in Board!Writes /\ cyc # None /\ cyc.write # None
           /\ cyc.write.status \in Board!Live /\ cyc.write.tries \in 1..Board!Tries
           /\ cyc.write.step \in {"set", "confirm", "label"}
           /\ cyc.write.id \in Nat /\ cyc.write.old \in Nat \cup {None}
<1>1. cyc.write \in Board!Writes /\ cyc # None /\ cyc.write # None
  BY CycleFields DEF Board!Writing
<1> QED BY <1>1 DEF Board!Writes

Entry == [status : Board!Status, ver : Nat, id : Nat]

LEMMA TouchedEffect ==
    ASSUME NEW b \in Entry, NEW s \in Board!Status
    PROVE  Board!Touched(b, s) \in Entry /\ Board!Touched(b, s).status = s /\
             Board!Touched(b, s).id = b.id
BY DEF Board!Touched, Entry

\* Another status, and the rest of the board as it was.
LEMMA PutEffect ==
    ASSUME Typed, NEW i \in Board!Item, NEW s \in Board!Status, Board!Put(i, s)
    PROVE  /\ board' \in [Board!Item -> Entry]
           /\ \A k \in Board!Item \ {i} : board'[k] = board[k]
           /\ board'[i].status = s /\ board'[i].id = board[i].id
<1>1. board \in [Board!Item -> Entry]
  BY DEF Typed, Board!TypeOK, Entry
<1> DEFINE t == Board!Touched(board[i], s)
<1>2. t \in Entry /\ t.status = s /\ t.id = board[i].id
  BY <1>1, TouchedEffect
<1>3. board' = [board EXCEPT ![i] = t]
  BY DEF Board!Put
<1> HIDE DEF t
<1> QED BY <1>1, <1>2, <1>3

LEMMA AddedEffect ==
    ASSUME Typed, NEW i \in Board!Item, board' = Board!Added(i)
    PROVE  /\ board' \in [Board!Item -> Entry]
           /\ \A k \in Board!Item \ {i} : board'[k] = board[k]
           /\ board'[i].status = "open" /\ board'[i].id = board[i].id + 1
<1>1. board \in [Board!Item -> Entry]
  BY DEF Typed, Board!TypeOK, Entry
<1> DEFINE t == [status |-> "open", ver |-> board[i].ver + 1, id |-> board[i].id + 1]
<1>2. t \in Entry /\ t.status = "open" /\ t.id = board[i].id + 1
  BY <1>1 DEF Entry, Board!Status
<1>3. board' = [board EXCEPT ![i] = t]
  BY DEF Board!Added
<1> HIDE DEF t
<1> QED BY <1>1, <1>2, <1>3

LEMMA AssumedStays == Assumed => Assumed'
BY DEF Assumed, Board!Writes, Board!Cycles, Board!Live, Board!Status, Board!Observations,
   Board!Tries

-----------------------------------------------------------------------------
(* People, and GitHub's workflow *)

LEMMA DragKeeps ==
    ASSUME BoardInv, NEW i \in Board!Item, Board!Drag(i)
    PROVE  BoardInv'
<1>1. /\ Board!OnBoard(i) /\ hand' = hand \cup {i} /\ drags' = drags + 1
      /\ UNCHANGED <<forge, flow, shadow, obs, conv, cyc, failed, again, prunes, troubles>>
  BY DEF Board!Drag
<1>2. PICK s \in {"open", "ready", "done"} :
        /\ Board!Put(i, s)
        /\ owed' = IF s = "ready" THEN [owed EXCEPT ![i] = @ + 1] ELSE owed
  BY DEF Board!Drag
<1>3. /\ board' \in [Board!Item -> Entry]
      /\ \A k \in Board!Item \ {i} : board'[k] = board[k]
      /\ board'[i].status = s /\ board'[i].id = board[i].id
  <2>1. s \in Board!Status
    BY DEF Board!Status
  <2> QED BY <1>2, <2>1, PutEffect DEF BoardInv
<1>4. /\ Board!Item' = Board!Item
      /\ \A k \in Board!Item : Board!OnBoard(k)' <=> Board!OnBoard(k)
  BY <1>1, <1>3 DEF Board!OnBoard, Board!Item
<1>5. \A k \in Board!Item : board'[k].id = board[k].id
  BY <1>3
<1>6. /\ owed' \in [Board!Item -> Int]
      /\ \A k \in Board!Item : owed'[k] >= owed[k] /\
           (k = i /\ s = "ready" => owed'[k] = owed[k] + 1)
  BY <1>2 DEF BoardInv, Typed, Board!TypeOK
<1>7. Typed'
  <2>1. (flow \cup hand)' \subseteq Board!Item'
    BY <1>1, <1>4 DEF BoardInv, Typed, Board!TypeOK
  <2> QED BY <1>1, <1>3, <1>4, <1>6, <2>1, AssumedStays
             DEF BoardInv, Typed, Board!TypeOK, Entry
<1>8. BoardsFit'
  BY <1>1, <1>4, <1>5 DEF BoardInv, Typed, Board!TypeOK, BoardsFit
<1>9. CyclesFit' /\ OutcomesAreKnown'
  BY <1>1, <1>4 DEF BoardInv, CyclesFit, OutcomesAreKnown, Board!I
<1>10. WritesFit'
  BY <1>1 DEF BoardInv, WritesFit, Board!Writing, Expected, Board!StatusOf, Board!I
<1>11. Shown'
  BY <1>1, <1>3, <1>4, <1>5, CycleFields
     DEF BoardInv, Shown, Setting, Board!Writing, Expected, Board!StatusOf, Board!Reachable,
         Board!Stuck, Board!I
<1>12. IdsFit'
  BY <1>1, <1>5, CycleFields
     DEF BoardInv, Typed, Board!TypeOK, IdsFit, Board!Writing, Board!I
<1>13. ASSUME Undisturbed' PROVE RestoresFit' /\ OneObservation' /\ Covered'
  <2>1. RestoresFit /\ OneObservation /\ Covered
    BY <1>1, <1>13 DEF BoardInv, Undisturbed
  <2>2. /\ \A o \in obs : Current(o)' <=> Current(o)
        /\ cyc # None => \A o \in cyc.obs : Current(o)' <=> Current(o)
    BY <1>4, <1>5, CycleFields DEF BoardInv, Typed, Board!TypeOK, Current
  <2>3. RestoresFit'
    BY <1>1, <1>4, <1>5, <2>1, <2>2, CycleFields
       DEF BoardInv, RestoresFit, Board!At, Board!Writing, Board!Reachable, Board!I
  <2>4. OneObservation'
    BY <1>1, <2>1, <2>2
       DEF OneObservation, OneEach, Staged, Board!Restoring, Replaced, Board!At,
           Board!Writing, Board!I
  <2>5. \A o : o.item \in Board!Item /\ Armed(o)' => Armed(o) \/ (o.item = i /\ s = "ready")
    BY <1>3, <1>4, <1>5 DEF Armed, Current
  <2>6. \A k \in Board!Item : Pledged(k)' = Pledged(k) /\ Pledged(k) \in {0, 1}
    BY <1>1 DEF Pledged, Staged
  <2>7. Covered'
    <3>1. \A k \in Board!Item : owed'[k] >= Pledged(k)'
      BY <1>6, <2>1, <2>6 DEF BoardInv, Typed, Board!TypeOK, Covered
    <3>2. \A o \in obs' : Armed(o)' => owed'[o.item] >= 1
      BY <1>1, <1>6, <2>1, <2>5, <2>6 DEF BoardInv, Typed, Board!TypeOK, Covered
    <3>3. Staged' => \A o \in cyc'.obs :
            Armed(o)' /\ ~(Board!At("prune") /\ Board!Writing /\ Board!I = o.item)' =>
              owed'[o.item] - Pledged(o.item)' >= 1
      BY <1>1, <1>6, <2>1, <2>5, <2>6, CycleFields
         DEF BoardInv, Typed, Board!TypeOK, Covered, Staged, Board!At, Board!Writing,
             Board!I
    <3>4. (Board!At("prune") /\ Board!Writing /\ cyc.write.step = "confirm" /\ ~Board!Stuck /\
            board[Board!I].status = "ready")'
            => (owed[Board!I] - Pledged(Board!I))' >= 1
      BY <1>1, <1>3, <1>6, <2>1, <2>6, CycleFields
         DEF BoardInv, Typed, Board!TypeOK, Covered, Board!Stuck, Board!At, Board!Writing,
             Board!I
    <3> QED BY <1>4, <3>1, <3>2, <3>3, <3>4 DEF Covered
  <2> QED BY <2>3, <2>4, <2>7
<1> QED BY <1>7, <1>8, <1>9, <1>10, <1>11, <1>12, <1>13 DEF BoardInv

\* What is left of the board's other changes: they reset an item's status.
LEMMA ResetKeeps ==
    ASSUME BoardInv, NEW i \in Board!Item,
           board' \in [Board!Item -> Entry],
           \A k \in Board!Item \ {i} : board'[k] = board[k],
           board'[i].status # "ready", board'[i].id >= board[i].id,
           UNCHANGED <<forge, shadow, obs, conv, cyc, owed, failed, drags, troubles>>,
           prunes' \in Nat, again' \in BOOLEAN, again => again',
           flow' \cup hand' \subseteq Board!Item
    PROVE  /\ Typed' /\ CyclesFit' /\ OutcomesAreKnown' /\ WritesFit' /\ IdsFit'
           /\ Undisturbed' => Covered'
<1>1. Board!Item' = Board!Item
  BY DEF Board!Item
<1>2. Typed'
  BY <1>1, AssumedStays DEF BoardInv, Typed, Board!TypeOK, Entry
<1>3. CyclesFit' /\ OutcomesAreKnown'
  BY <1>1 DEF BoardInv, CyclesFit, OutcomesAreKnown, Board!I
<1>4. WritesFit'
  BY DEF BoardInv, WritesFit, Board!Writing, Expected, Board!StatusOf, Board!I
<1>5. \A k \in Board!Item : board[k].id \in Nat /\ board'[k].id \in Nat /\
        board'[k].id >= board[k].id
  BY DEF BoardInv, Typed, Board!TypeOK, Entry
<1>6. IdsFit'
  <2>1. \A o \in obs : o.id \in Nat /\ o.item \in Board!Item
    BY DEF BoardInv, Typed, Board!TypeOK, Board!Observations
  <2>2. cyc # None => \A o \in cyc.obs : o.id \in Nat /\ o.item \in Board!Item
    BY CycleFields DEF BoardInv, Board!Observations
  <2>3. Board!Writing => cyc.write.id \in Nat /\ Board!I \in Board!Item
    BY CycleFields, WriteFields DEF BoardInv, Board!Writing, Board!I
  <2> QED BY <1>5, <2>1, <2>2, <2>3 DEF BoardInv, IdsFit, Board!Writing, Board!I
<1>7. ASSUME Undisturbed' PROVE Covered'
  <2>1. Covered
    BY <1>7 DEF BoardInv, Undisturbed
  <2>2. \A o : o.item \in Board!Item /\ Armed(o)' => Armed(o)
    BY DEF Armed, Current, Board!OnBoard
  <2>3. \A k \in Board!Item : Pledged(k)' = Pledged(k)
    BY DEF Pledged, Staged
  <2>4. \A k \in Board!Item : owed'[k] >= Pledged(k)'
    BY <2>1, <2>3 DEF Covered
  <2>5. \A o \in obs' : Armed(o)' => owed'[o.item] >= 1
    BY <2>1, <2>2 DEF BoardInv, Typed, Board!TypeOK, Covered
  <2>6. Staged' => \A o \in cyc'.obs :
          Armed(o)' /\ ~(Board!At("prune") /\ Board!Writing /\ Board!I = o.item)' =>
            owed'[o.item] - Pledged(o.item)' >= 1
    BY <2>1, <2>2, <2>3, CycleFields
       DEF BoardInv, Covered, Staged, Board!At, Board!Writing, Board!I
  <2>7. (Board!At("prune") /\ Board!Writing /\ cyc.write.step = "confirm" /\ ~Board!Stuck /\
          board[Board!I].status = "ready")'
          => (owed[Board!I] - Pledged(Board!I))' >= 1
    BY <2>1, <2>3, CycleFields
       DEF BoardInv, Covered, Board!Stuck, Board!At, Board!Writing, Board!I
  <2> QED BY <1>1, <2>4, <2>5, <2>6, <2>7 DEF Covered
<1> QED BY <1>2, <1>3, <1>4, <1>6, <1>7

LEMMA PruneKeeps ==
    ASSUME BoardInv, NEW i \in Board!Item, Board!Prune(i)
    PROVE  BoardInv'
<1>1. /\ forge = "github" /\ Board!OnBoard(i) /\ flow' = flow \ {i} /\ prunes' = prunes + 1
      /\ again' = (again \/ Board!Restoring(i))
      /\ UNCHANGED <<forge, shadow, obs, conv, cyc, hand, owed, failed, drags, troubles>>
  BY DEF Board!Prune
<1>2. /\ board' \in [Board!Item -> Entry]
      /\ \A k \in Board!Item \ {i} : board'[k] = board[k]
      /\ board'[i].status = "gone" /\ board'[i].id = board[i].id
  <2>1. board \in [Board!Item -> Entry]
    BY DEF BoardInv, Typed, Board!TypeOK, Entry
  <2> DEFINE t == [board[i] EXCEPT !.status = "gone"]
  <2>2. t \in Entry /\ t.status = "gone" /\ t.id = board[i].id
    BY <2>1 DEF Entry, Board!Status
  <2>3. board' = [board EXCEPT ![i] = t]
    BY DEF Board!Prune
  <2> HIDE DEF t
  <2> QED BY <2>1, <2>2, <2>3
<1>3. /\ Board!Item' = Board!Item
      /\ \A k \in Board!Item : Board!OnBoard(k)' <=> k # i /\ Board!OnBoard(k)
  BY <1>1, <1>2 DEF Board!OnBoard, Board!Item
<1>4. /\ Typed' /\ CyclesFit' /\ OutcomesAreKnown' /\ WritesFit' /\ IdsFit'
      /\ Undisturbed' => Covered'
  <2>1. /\ board'[i].status # "ready" /\ board'[i].id >= board[i].id
        /\ prunes' \in Nat /\ again' \in BOOLEAN /\ (again => again')
        /\ flow' \cup hand' \subseteq Board!Item
    BY <1>1, <1>2 DEF BoardInv, Typed, Board!TypeOK, Entry
  <2> QED BY <1>1, <1>2, <2>1, ResetKeeps
<1>5. BoardsFit'
  BY <1>1, <1>3 DEF BoardInv, Typed, Board!TypeOK, BoardsFit
<1>6. Shown'
  BY <1>1, <1>2, <1>3, CycleFields
     DEF BoardInv, Shown, Setting, Board!Writing, Expected, Board!StatusOf, Board!Reachable,
         Board!Stuck, Board!I
<1>7. ASSUME Undisturbed' PROVE RestoresFit' /\ OneObservation'
  <2>1. RestoresFit /\ OneObservation /\ ~Board!Restoring(i)
    BY <1>1, <1>7 DEF BoardInv, Undisturbed
  <2>2. /\ \A o \in obs : (o.item # i => (Current(o)' <=> Current(o))) /\
             (Current(o)' => Current(o))
        /\ cyc # None => \A o \in cyc.obs :
             (o.item # i => (Current(o)' <=> Current(o))) /\ (Current(o)' => Current(o))
    BY <1>2, <1>3, CycleFields DEF BoardInv, Typed, Board!TypeOK, Current
  <2>3. RestoresFit'
    BY <1>1, <1>2, <1>3, <2>1, <2>2, CycleFields
       DEF BoardInv, RestoresFit, Board!Restoring, Board!At, Board!Writing, Board!Reachable,
           Board!I
  <2>4. OneObservation'
    BY <1>1, <2>1, <2>2
       DEF OneObservation, OneEach, Staged, Board!Restoring, Replaced, Board!At,
           Board!Writing, Board!I
  <2> QED BY <2>3, <2>4
<1> QED BY <1>4, <1>5, <1>6, <1>7 DEF BoardInv

LEMMA PutBackKeeps ==
    ASSUME BoardInv, NEW i \in Board!Item, Board!PutBack(i)
    PROVE  BoardInv'
<1>1. /\ ~Board!OnBoard(i) /\ flow' = flow \cup {i} /\ hand' = hand \cup {i}
      /\ board' = Board!Added(i)
      /\ UNCHANGED <<forge, shadow, obs, conv, cyc, owed, failed, again, drags, prunes,
                     troubles>>
  BY DEF Board!PutBack, Board!bounds
<1>2. /\ board' \in [Board!Item -> Entry]
      /\ \A k \in Board!Item \ {i} : board'[k] = board[k]
      /\ board'[i].status = "open" /\ board'[i].id = board[i].id + 1
  BY <1>1, AddedEffect DEF BoardInv
<1>3. /\ Board!Item' = Board!Item
      /\ \A k \in Board!Item : Board!OnBoard(k)' <=> k = i \/ Board!OnBoard(k)
  BY <1>1, <1>2 DEF Board!OnBoard, Board!Item
<1>4. board[i].id \in Nat
  BY DEF BoardInv, Typed, Board!TypeOK
<1>5. /\ Typed' /\ CyclesFit' /\ OutcomesAreKnown' /\ WritesFit' /\ IdsFit'
      /\ Undisturbed' => Covered'
  <2>1. /\ board'[i].status # "ready" /\ board'[i].id >= board[i].id
        /\ prunes' \in Nat /\ again' \in BOOLEAN /\ (again => again')
        /\ flow' \cup hand' \subseteq Board!Item
    BY <1>1, <1>2, <1>4 DEF BoardInv, Typed, Board!TypeOK
  <2> QED BY <1>1, <1>2, <2>1, ResetKeeps
<1>6. BoardsFit'
  BY <1>1, <1>3 DEF BoardInv, Typed, Board!TypeOK, BoardsFit
<1>7. Shown'
  BY <1>1, <1>2, <1>3, CycleFields
     DEF BoardInv, Shown, Setting, Board!Writing, Expected, Board!StatusOf, Board!Reachable,
         Board!Stuck, Board!I
<1>8. ASSUME Undisturbed' PROVE RestoresFit' /\ OneObservation'
  <2>1. RestoresFit /\ OneObservation
    BY <1>1, <1>8 DEF BoardInv, Undisturbed
  <2>2. \A o \in obs : o.id \in Nat /\ o.item \in Board!Item /\ o.id <= board[o.item].id
    BY DEF BoardInv, Typed, Board!TypeOK, Board!Observations, IdsFit
  <2>3. cyc # None =>
          \A o \in cyc.obs : o.id \in Nat /\ o.item \in Board!Item /\ o.id <= board[o.item].id
    BY CycleFields DEF BoardInv, Board!Observations, IdsFit
  <2>4. /\ \A o \in obs : Current(o)' <=> Current(o)
        /\ cyc # None => \A o \in cyc.obs : Current(o)' <=> Current(o)
    BY <1>1, <1>2, <1>3, <1>4, <2>2, <2>3 DEF Current
  <2>5. RestoresFit'
    BY <1>1, <1>2, <1>3, <2>1, <2>4, CycleFields
       DEF BoardInv, RestoresFit, Board!Restoring, Board!At, Board!Writing, Board!Reachable,
           Board!I
  <2>6. OneObservation'
    BY <1>1, <2>1, <2>4
       DEF OneObservation, OneEach, Staged, Board!Restoring, Replaced, Board!At,
           Board!Writing, Board!I
  <2> QED BY <2>5, <2>6
<1> QED BY <1>5, <1>6, <1>7, <1>8 DEF BoardInv

LEMMA WorkflowKeeps ==
    ASSUME BoardInv, NEW i \in Board!Item, Board!Workflow(i)
    PROVE  BoardInv'
<1>1. /\ i \in flow /\ Board!OnBoard(i) /\ flow' = flow \ {i} /\ Board!Put(i, "open")
      /\ UNCHANGED <<forge, shadow, obs, conv, cyc, owed, failed, again, drags, prunes,
                     troubles>>
  BY DEF Board!Workflow, Board!bounds, BoardInv, BoardsFit
<1>2. hand' = IF /\ Board!Writing /\ cyc.write.step = "confirm" /\ cyc.write.tries < Board!Tries
                 /\ Board!I = i /\ Board!Reachable
              THEN hand ELSE hand \cup {i}
  BY DEF Board!Workflow
<1>3. /\ board' \in [Board!Item -> Entry]
      /\ \A k \in Board!Item \ {i} : board'[k] = board[k]
      /\ board'[i].status = "open" /\ board'[i].id = board[i].id
  <2>1. "open" \in Board!Status
    BY DEF Board!Status
  <2> QED BY <1>1, <2>1, PutEffect DEF BoardInv
<1>4. /\ Board!Item' = Board!Item
      /\ \A k \in Board!Item : Board!OnBoard(k)' <=> Board!OnBoard(k)
  BY <1>1, <1>3 DEF Board!OnBoard, Board!Item
<1>5. \A k \in Board!Item : board'[k].id = board[k].id
  BY <1>3
<1>6. /\ Typed' /\ CyclesFit' /\ OutcomesAreKnown' /\ WritesFit' /\ IdsFit'
      /\ Undisturbed' => Covered'
  <2>1. /\ board'[i].status # "ready" /\ board'[i].id >= board[i].id
        /\ prunes' \in Nat /\ again' \in BOOLEAN /\ (again => again')
        /\ flow' \cup hand' \subseteq Board!Item
    BY <1>1, <1>2, <1>3 DEF BoardInv, Typed, Board!TypeOK
  <2> QED BY <1>1, <1>3, <2>1, ResetKeeps
<1>7. BoardsFit'
  BY <1>1, <1>4, <1>5 DEF BoardInv, Typed, Board!TypeOK, BoardsFit
<1>8. Shown'
  <2>1. CASE hand' = hand \cup {i}
    BY <1>1, <1>3, <1>4, <1>5, <2>1, CycleFields
       DEF BoardInv, Shown, Setting, Board!Writing, Expected, Board!StatusOf,
           Board!Reachable, Board!Stuck, Board!I
  <2>2. CASE hand' # hand \cup {i}
    <3>1. Setting /\ Board!I = i /\ cyc.write.tries < Board!Tries /\ hand' = hand
      BY <1>2, <2>2 DEF Setting
    <3>2. cyc.write.tries # Board!Tries
      BY <3>1 DEF Board!Tries
    <3> QED BY <1>1, <1>3, <1>4, <1>5, <3>1, <3>2, CycleFields
          DEF BoardInv, Shown, Setting, Board!Writing, Expected, Board!StatusOf,
              Board!Reachable, Board!Stuck, Board!I
  <2> QED BY <2>1, <2>2
<1>9. ASSUME Undisturbed' PROVE RestoresFit' /\ OneObservation'
  <2>1. RestoresFit /\ OneObservation
    BY <1>1, <1>9 DEF BoardInv, Undisturbed
  <2>2. /\ \A o \in obs : Current(o)' <=> Current(o)
        /\ cyc # None => \A o \in cyc.obs : Current(o)' <=> Current(o)
    BY <1>4, <1>5, CycleFields DEF BoardInv, Typed, Board!TypeOK, Current
  <2>3. RestoresFit'
    BY <1>1, <1>4, <1>5, <2>1, <2>2, CycleFields
       DEF BoardInv, RestoresFit, Board!At, Board!Writing, Board!Reachable, Board!I
  <2>4. OneObservation'
    BY <1>1, <2>1, <2>2
       DEF OneObservation, OneEach, Staged, Board!Restoring, Replaced, Board!At,
           Board!Writing, Board!I
  <2> QED BY <2>3, <2>4
<1> QED BY <1>6, <1>7, <1>8, <1>9 DEF BoardInv

LEMMA RunEndsKeeps ==
    ASSUME BoardInv, NEW i \in Board!Item, Board!RunEnds(i)
    PROVE  BoardInv'
<1>1. /\ conv[i].status = "working"
      /\ UNCHANGED <<forge, board, flow, shadow, obs, cyc, hand, owed, failed, again, drags,
                     prunes, troubles>>
  BY DEF Board!RunEnds, Board!boards, Board!history, Board!bounds
<1>2. /\ conv' \in [Board!Item -> Board!Conversations]
      /\ \A k \in Board!Item \ {i} : conv'[k] = conv[k]
      /\ conv'[i].status = "ended" /\ conv'[i].outcome \in Board!Terminal
  <2>1. conv \in [Board!Item -> Board!Conversations]
    BY DEF BoardInv, Typed, Board!TypeOK
  <2>2. PICK o \in Board!Outcome :
               conv' = [conv EXCEPT ![i] = [@ EXCEPT !.status = "ended", !.outcome = o]]
    BY DEF Board!RunEnds
  <2>3. o \in Board!Terminal
    BY DEF Board!Outcome, Board!Terminal
  <2> DEFINE t == [conv[i] EXCEPT !.status = "ended", !.outcome = o]
  <2>4. t \in Board!Conversations /\ t.status = "ended" /\ t.outcome = o
    BY <2>1, <2>3 DEF Board!Conversations
  <2>5. conv' = [conv EXCEPT ![i] = t]
    BY <2>2
  <2> HIDE DEF t
  <2> QED BY <2>1, <2>3, <2>4, <2>5
<1>3. Board!Item' = Board!Item
  BY <1>1 DEF Board!Item
<1>4. Typed'
  BY <1>1, <1>2, <1>3, AssumedStays DEF BoardInv, Typed, Board!TypeOK
<1>5. BoardsFit' /\ IdsFit'
  BY <1>1, <1>3 DEF BoardInv, BoardsFit, IdsFit, Board!OnBoard, Board!Writing, Board!I
<1>6. cyc # None => Board!I \in Board!Item
  BY CycleFields DEF BoardInv, Board!I
<1>7. CyclesFit' /\ OutcomesAreKnown'
  BY <1>1, <1>2, <1>3, <1>6 DEF BoardInv, CyclesFit, OutcomesAreKnown, Board!I
<1>8. WritesFit'
  BY <1>1, <1>2, <1>6
     DEF BoardInv, CyclesFit, WritesFit, Board!Writing, Expected, Board!StatusOf, Board!I
<1>9. Shown'
  BY <1>1, <1>2, <1>3, <1>6
     DEF BoardInv, Shown, Setting, Board!Writing, Expected, Board!StatusOf, Board!Reachable,
         Board!Stuck, Board!OnBoard, Board!I
<1>10. Undisturbed' => RestoresFit' /\ OneObservation' /\ Covered'
  BY <1>1, <1>3
     DEF BoardInv, Undisturbed, RestoresFit, OneObservation, Covered, OneEach, Staged,
         Board!Restoring, Replaced, Pledged, Armed, Current, Board!At, Board!Writing,
         Board!Reachable, Board!Stuck, Board!OnBoard, Board!I
<1> QED BY <1>4, <1>5, <1>7, <1>8, <1>9, <1>10 DEF BoardInv

-----------------------------------------------------------------------------
(* The cycle *)

\* A place of a cycle under way, of the right types.
Fitting(d) ==
    /\ d \in Board!Cycles /\ d.item \in Board!Item /\ d.fires \subseteq Board!Item
    /\ \A o \in d.obs : o.item \in Board!Item

LEMMA FittingIsSome ==
    ASSUME Typed, NEW d, Fitting(d)
    PROVE  d # None
BY DEF Typed, Assumed, Fitting

LEMMA CycleFits == Typed /\ cyc # None => Fitting(cyc)
BY CycleFields DEF Fitting

LEMMA TypedStep ==
    ASSUME BoardInv, forge' = forge, board' \in [Board!Item -> Entry],
           flow' \cup hand' \subseteq Board!Item,
           shadow' \in [Board!Item -> Board!Live \cup {None}],
           obs' \subseteq Board!Observations, \A o \in obs' : o.item \in Board!Item,
           conv' \in [Board!Item -> Board!Conversations],
           cyc' # None => Fitting(cyc'),
           owed' \in [Board!Item -> Int], failed' \in BOOLEAN, again' \in BOOLEAN,
           drags' \in Nat, prunes' \in Nat, troubles' \in Nat
    PROVE  Typed'
<1>1. Board!Item' = Board!Item
  BY DEF Board!Item
<1>2. cyc' \in Board!Cycles \cup {None}
  BY DEF Fitting
<1>3. cyc' # None => /\ cyc'.item \in Board!Item' /\ cyc'.fires \subseteq Board!Item'
                     /\ \A o \in cyc'.obs : o.item \in Board!Item'
  BY <1>1 DEF Fitting
<1> QED BY <1>1, <1>2, <1>3, AssumedStays DEF BoardInv, Typed, Board!TypeOK, Entry

\* Where no observations are being staged, only those on disk count.
LEMMA UnstagedKeeps ==
    ASSUME BoardInv, forge' = forge, obs' = obs, owed' = owed, failed => failed',
           again => again',
           ~Staged',
           Undisturbed => \A o \in obs : Armed(o)' => owed[o.item] >= 1
    PROVE  Undisturbed' => RestoresFit' /\ OneObservation' /\ Covered'
<1> SUFFICES ASSUME Undisturbed' PROVE RestoresFit' /\ OneObservation' /\ Covered'
  OBVIOUS
<1>1. OneObservation /\ Covered /\ Undisturbed /\ Board!Item' = Board!Item
  BY DEF BoardInv, Undisturbed, Board!Item
<1>2. ~Board!At("prune")'
  BY DEF Staged, Board!At
<1>3. \A k \in Board!Item : owed[k] \in Int /\ owed[k] >= Pledged(k) /\ Pledged(k) \in {0, 1}
  BY <1>1 DEF BoardInv, Typed, Board!TypeOK, Covered, Pledged
<1>4. \A k \in Board!Item : owed'[k] >= Pledged(k)'
  BY <1>3 DEF Pledged
<1>5. Covered'
  BY <1>1, <1>2, <1>4 DEF Covered
<1> QED BY <1>1, <1>2, <1>5 DEF RestoresFit, OneObservation, OneEach

\* Past the restoring, a step that leaves board and observations alone.
LEMMA StagedKeeps ==
    ASSUME BoardInv, cyc # None, cyc' # None,
           UNCHANGED <<forge, board, obs, owed>>, failed => failed', again => again',
           cyc.at \in {"shadow", "commit"}, cyc'.at \in {"shadow", "commit"},
           cyc'.obs = cyc.obs, cyc'.fires = cyc.fires
    PROVE  Undisturbed' => RestoresFit' /\ OneObservation' /\ Covered'
<1> SUFFICES ASSUME Undisturbed' PROVE RestoresFit' /\ OneObservation' /\ Covered'
  OBVIOUS
<1>1. OneObservation /\ Covered /\ Board!Item' = Board!Item
  BY DEF BoardInv, Undisturbed, Board!Item
<1>2. ~Board!At("prune") /\ ~Board!At("prune")' /\ Staged /\ Staged'
  BY DEF Staged, Board!At
<1>3. \A k : Pledged(k)' = Pledged(k)
  BY <1>2 DEF Pledged
<1>4. \A o : Armed(o)' <=> Armed(o)
  BY DEF Armed, Current, Board!OnBoard
<1>5. \A o : Replaced(o) = FALSE /\ Replaced(o)' = FALSE
  BY <1>2 DEF Replaced
<1>6. Covered'
  <2>1. \A k \in Board!Item' : owed'[k] >= Pledged(k)'
    BY <1>1, <1>3 DEF Covered
  <2>2. \A o \in obs' : Armed(o)' => owed'[o.item] >= 1
    BY <1>1, <1>4 DEF Covered
  <2>3. \A o \in cyc'.obs : Armed(o)' => owed'[o.item] - Pledged(o.item)' >= 1
    BY <1>1, <1>2, <1>3, <1>4 DEF Covered
  <2> QED BY <1>2, <2>1, <2>2, <2>3 DEF Covered
<1>7. OneObservation'
  BY <1>1, <1>2, <1>5 DEF OneObservation, OneEach, Board!Restoring
<1> QED BY <1>2, <1>6, <1>7 DEF RestoresFit

LEMMA StartCycleKeeps ==
    ASSUME BoardInv, Board!StartCycle
    PROVE  BoardInv'
<1> DEFINE c == [at |-> "collect", item |-> 1, write |-> None, obs |-> obs,
                 stale |-> {}, changed |-> {}, fires |-> {}]
<1>1. /\ cyc = None /\ cyc' = Board!ToCollect(c, conv, 1)
      /\ UNCHANGED <<forge, board, flow, shadow, obs, conv, hand, owed, failed, again,
                     drags, prunes, troubles>>
  BY DEF Board!StartCycle, Board!boards, Board!history, Board!bounds
<1>2. c \in Board!Cycles /\ c.obs = obs /\ c.fires = {}
  BY DEF BoardInv, Typed, Board!TypeOK, Board!Cycles
<1> HIDE DEF c
<1>3. GoesOn(c, cyc', conv) /\ cyc'.at \in {"collect", "fetch"}
  BY <1>1, <1>2, ToCollectEffect DEF BoardInv
<1>4. Fitting(cyc') /\ cyc'.write = None /\ cyc'.obs = obs
  BY <1>2, <1>3 DEF BoardInv, Typed, Board!TypeOK, GoesOn, SameBut, Fitting
<1>5. Typed'
  BY <1>1, <1>4, TypedStep DEF BoardInv, Typed, Board!TypeOK, Entry
<1>6. Board!Item' = Board!Item /\ ~Board!Writing /\ ~Board!Writing'
  BY <1>1, <1>4 DEF Board!Item, Board!Writing
<1>7. BoardsFit' /\ OutcomesAreKnown' /\ WritesFit' /\ IdsFit'
  BY <1>1, <1>4, <1>6
     DEF BoardInv, BoardsFit, Board!OnBoard, OutcomesAreKnown, WritesFit, IdsFit
<1>8. CyclesFit'
  BY <1>1, <1>3, <1>4 DEF CyclesFit, GoesOn, Board!I
<1>9. Shown'
  BY <1>1, <1>6 DEF BoardInv, Shown, Setting, Expected, Board!StatusOf, Board!OnBoard
<1>10. Undisturbed' => RestoresFit' /\ OneObservation' /\ Covered'
  <2>1. ~Staged' /\ \A o \in obs : Armed(o)' => Armed(o)
    BY <1>1, <1>3 DEF Staged, Armed, Current, Board!OnBoard
  <2> QED BY <1>1, <2>1, UnstagedKeeps DEF BoardInv, Covered
<1> QED BY <1>5, <1>7, <1>8, <1>9, <1>10 DEF BoardInv

LEMMA CycleDiesKeeps ==
    ASSUME BoardInv, Board!Abandon
    PROVE  BoardInv'
<1>1. /\ cyc # None /\ cyc' = None /\ troubles' = troubles + 1
      /\ UNCHANGED <<forge, board, flow, shadow, obs, conv, hand, owed, failed, again,
                     drags, prunes>>
  BY DEF Board!Abandon, Board!Trouble, Board!boards, Board!history
<1>2. Typed'
  BY <1>1, TypedStep DEF BoardInv, Typed, Board!TypeOK, Entry
<1>3. Board!Item' = Board!Item /\ ~Board!Writing'
  BY <1>1 DEF Board!Item, Board!Writing
<1>4. BoardsFit' /\ OutcomesAreKnown' /\ WritesFit' /\ IdsFit' /\ CyclesFit'
  BY <1>1, <1>3
     DEF BoardInv, BoardsFit, Board!OnBoard, OutcomesAreKnown, WritesFit, IdsFit, CyclesFit
<1>5. Shown'
  BY <1>1 DEF BoardInv, Typed, Board!TypeOK, Shown
<1>6. Undisturbed' => RestoresFit' /\ OneObservation' /\ Covered'
  <2>1. ~Staged' /\ \A o \in obs : Armed(o)' => Armed(o)
    BY <1>1 DEF Staged, Armed, Current, Board!OnBoard
  <2> QED BY <1>1, <2>1, UnstagedKeeps DEF BoardInv, Covered
<1> QED BY <1>2, <1>4, <1>5, <1>6 DEF BoardInv

\* Steps that only move the cycle on, to a place where nothing is staged.
LEMMA MoveKeeps ==
    ASSUME BoardInv, ~Board!Writing, ~Board!Writing', ~Staged',
           cyc' # None => Fitting(cyc'),
           cyc' # None => cyc'.at = "end",
           UNCHANGED <<forge, board, flow, shadow, obs, conv, hand, owed, failed, again,
                       drags, prunes, troubles>>,
           cyc' # None => cyc'.obs = cyc.obs /\ cyc # None
    PROVE  BoardInv'
<1>1. Typed'
  BY TypedStep DEF BoardInv, Typed, Board!TypeOK, Entry
<1>2. Board!Item' = Board!Item
  BY DEF Board!Item
<1>3. BoardsFit' /\ OutcomesAreKnown' /\ WritesFit' /\ IdsFit' /\ CyclesFit'
  BY <1>2 DEF BoardInv, BoardsFit, Board!OnBoard, OutcomesAreKnown, WritesFit, IdsFit,
     CyclesFit
<1>4. Shown'
  BY <1>2 DEF BoardInv, Shown, Setting, Expected, Board!StatusOf, Board!OnBoard
<1>5. Undisturbed' => RestoresFit' /\ OneObservation' /\ Covered'
  <2>1. \A o \in obs : Armed(o)' => Armed(o)
    BY DEF Armed, Current, Board!OnBoard
  <2> QED BY <2>1, UnstagedKeeps DEF BoardInv, Covered
<1> QED BY <1>1, <1>3, <1>4, <1>5 DEF BoardInv

LEMMA NotLaunchedKeeps ==
    ASSUME BoardInv, Board!NotLaunched
    PROVE  BoardInv'
<1>1. /\ cyc # None /\ cyc.write = None /\ cyc' = [cyc EXCEPT !.at = "end"]
      /\ UNCHANGED <<forge, board, flow, shadow, obs, conv, hand, owed, failed, again,
                     drags, prunes, troubles>>
  BY DEF Board!NotLaunched, Board!Idle, Board!At, Board!boards, Board!history, Board!bounds
<1>2. Fitting(cyc)
  BY <1>1, CycleFits DEF BoardInv
<1>3. Fitting(cyc') /\ cyc'.at = "end" /\ cyc'.write = None /\ cyc'.obs = cyc.obs
  BY <1>1, <1>2 DEF Fitting, Board!Cycles
<1>4. ~Board!Writing /\ ~Board!Writing' /\ ~Staged'
  BY <1>1, <1>3 DEF Board!Writing, Staged
<1> QED BY <1>1, <1>3, <1>4, MoveKeeps

LEMMA EndCycleKeeps ==
    ASSUME BoardInv, Board!EndCycle
    PROVE  BoardInv'
<1>1. /\ cyc # None /\ cyc.write = None /\ cyc' = None
      /\ UNCHANGED <<forge, board, flow, shadow, obs, conv, hand, owed, failed, again,
                     drags, prunes, troubles>>
  BY DEF Board!EndCycle, Board!Idle, Board!At, Board!boards, Board!history, Board!bounds
<1>2. ~Board!Writing /\ ~Board!Writing' /\ ~Staged'
  BY <1>1 DEF Board!Writing, Staged
<1> QED BY <1>1, <1>2, MoveKeeps

LEMMA GoOnFits ==
    ASSUME Typed, NEW c, Fitting(c), NEW convs,
           c.at \in {"collect", "prune", "shadow", "launch"}
    PROVE  LET d == Board!GoOn(c, convs)
           IN  /\ Fitting(d) /\ d # None /\ d.write = None
               /\ d.obs = c.obs /\ d.stale = c.stale /\ d.fires = c.fires
               /\ d.at \in Onward[c.at]
               /\ d.at = "collect" => convs[d.item].status = "ended"
               /\ d.at = "launch" => \/ convs[d.item].status = "new"
                                     \/ convs[d.item].status = "idle" /\
                                          convs[d.item].pending > 0
               /\ c.at = "prune" =>
                    \A o \in c.stale : o.item \in Board!Item /\ c.item <= o.item =>
                    d.at = "prune" /\ d.item <= o.item
<1> DEFINE d == Board!GoOn(c, convs)
<1>1. c \in Board!Cycles /\ c.item \in Board!Item
  BY DEF Fitting
<1>2. /\ GoesOn(c, d, convs) /\ d.at \in Onward[c.at]
      /\ c.at = "prune" => \A o \in c.stale : o.item \in c.item..Items[forge] =>
           d.at = "prune" /\ d.item <= o.item
  BY <1>1, GoOnEffect
<1> HIDE DEF d
<1>3. \A k \in Board!Item : c.item <= k => k \in c.item..Items[forge]
  BY <1>1, ItemsAreNumbers DEF Board!Item
<1>4. Fitting(d)
  BY <1>2 DEF GoesOn, SameBut, Fitting
<1>5. d # None
  BY <1>4, FittingIsSome
<1>6. c.at = "prune" => \A o \in c.stale : o.item \in Board!Item /\ c.item <= o.item =>
        d.at = "prune" /\ d.item <= o.item
  BY <1>2, <1>3
<1> QED BY <1>2, <1>4, <1>5, <1>6 DEF GoesOn, SameBut, d

\* A write among the cycle's: it is one, and the rest of the cycle stays.
LEMMA BeginsFits ==
    ASSUME Typed, cyc # None, NEW w \in Board!Writes
    PROVE  LET d == [cyc EXCEPT !.write = w]
           IN  /\ Fitting(d) /\ d # None /\ d.write = w /\ d.write # None
               /\ d.at = cyc.at /\ d.item = cyc.item
               /\ d.obs = cyc.obs /\ d.stale = cyc.stale /\ d.fires = cyc.fires
<1> DEFINE d == [cyc EXCEPT !.write = w]
<1>1. Fitting(cyc)
  BY CycleFits
<1>2. /\ Fitting(d) /\ d.write = w /\ d.at = cyc.at /\ d.item = cyc.item
      /\ d.obs = cyc.obs /\ d.stale = cyc.stale /\ d.fires = cyc.fires
  BY <1>1 DEF Fitting, Board!Cycles
<1> HIDE DEF d
<1>3. d # None /\ w # None
  BY <1>2, FittingIsSome DEF Typed, Assumed
<1> QED BY <1>2, <1>3 DEF d

LEMMA MirrorKeeps ==
    ASSUME BoardInv, Board!Mirror
    PROVE  BoardInv'
<1> DEFINE seen == CHOOSE o \in cyc.obs : o.item = Board!I /\ <<Board!I, o.id>> \in cyc.changed
           w == [status |-> seen.status, step |-> "label", tries |-> 1, id |-> seen.id,
             old |-> None]
<1>1. /\ cyc # None /\ cyc.at = "shadow" /\ cyc.write = None
      /\ cyc' = IF Board!OnBoard(Board!I) /\ board[Board!I].id = seen.id /\
           board[Board!I].status = seen.status
                THEN [cyc EXCEPT !.write = w] ELSE Board!GoOn(cyc, conv)
      /\ UNCHANGED <<forge, board, flow, shadow, obs, conv, hand, owed, failed, again,
                     drags, prunes, troubles>>
  BY DEF Board!Mirror, Board!Idle, Board!At, Board!boards, Board!history, Board!bounds
<1> HIDE DEF seen
<1>2. cyc.item \in Board!Item /\ Fitting(cyc) /\ Typed
  BY <1>1, CycleFits, CycleFields DEF BoardInv
<1>3. /\ Fitting(cyc') /\ cyc' # None /\ cyc'.obs = cyc.obs /\ cyc'.fires = cyc.fires
      /\ \/ /\ cyc'.at = "shadow" /\ cyc'.item = cyc.item /\ cyc'.write.step = "label"
            /\ cyc'.write # None /\ cyc'.write.id = board[Board!I].id
         \/ cyc'.write = None /\ cyc'.at \in {"shadow", "commit"}
  <2>1. CASE Board!OnBoard(Board!I) /\ board[Board!I].id = seen.id /\
               board[Board!I].status = seen.status
    <3>1. board[Board!I].status \in Board!Live /\ board[Board!I].id \in Nat
      BY <1>2, <2>1 DEF Typed, Board!TypeOK, Board!OnBoard, Board!Live, Board!I
    <3>2. w \in Board!Writes /\ w.step = "label" /\ w.id = board[Board!I].id
      BY <2>1, <3>1 DEF Board!Writes, Board!Tries
    <3> HIDE DEF w
    <3>3. cyc' = [cyc EXCEPT !.write = w]
      BY <1>1, <2>1
    <3> QED BY <1>1, <1>2, <3>2, <3>3, BeginsFits
  <2>2. CASE ~(Board!OnBoard(Board!I) /\ board[Board!I].id = seen.id /\
               board[Board!I].status = seen.status)
    <3>1. cyc' = Board!GoOn(cyc, conv)
      BY <1>1, <2>2
    <3> QED BY <1>1, <1>2, <3>1, GoOnFits DEF Onward
  <2> QED BY <2>1, <2>2
<1> HIDE DEF w
<1>4. Typed'
  BY <1>1, <1>3, TypedStep DEF BoardInv, Typed, Board!TypeOK, Entry
<1>5. Board!Item' = Board!Item /\ ~Setting /\ ~Setting'
  BY <1>1, <1>3 DEF Board!Item, Setting, Board!Writing
<1>6. BoardsFit' /\ OutcomesAreKnown' /\ CyclesFit' /\ WritesFit'
  BY <1>1, <1>3, <1>5
     DEF BoardInv, BoardsFit, Board!OnBoard, OutcomesAreKnown, CyclesFit, WritesFit,
         Board!Writing
<1>7. IdsFit'
  BY <1>1, <1>2, <1>3 DEF BoardInv, Typed, Board!TypeOK, IdsFit, Board!Writing, Board!I
<1>8. Shown'
  BY <1>1, <1>5 DEF BoardInv, Shown, Expected, Board!StatusOf, Board!OnBoard
<1>9. Undisturbed' => RestoresFit' /\ OneObservation' /\ Covered'
  BY <1>1, <1>3, StagedKeeps
<1> QED BY <1>4, <1>6, <1>7, <1>8, <1>9 DEF BoardInv

LEMMA SetLabelKeeps ==
    ASSUME BoardInv, Board!SetLabel \/ Board!LabelFails
    PROVE  BoardInv'
<1>1. /\ Board!Writing /\ cyc.write.step = "label" /\ cyc' = Board!GoOn(cyc, conv)
      /\ shadow' = [shadow EXCEPT ![Board!I] = cyc.write.status] \/ shadow' = shadow
      /\ \/ failed' = failed /\ troubles' = troubles
         \/ failed' = TRUE /\ troubles' = troubles + 1
      /\ UNCHANGED <<forge, board, flow, obs, conv, hand, owed, again, drags, prunes>>
  BY DEF Board!SetLabel, Board!LabelFails, Board!Fail, Board!Trouble, Board!boards,
     Board!history, Board!bounds
<1>2. /\ cyc # None /\ cyc.item \in Board!Item /\ Fitting(cyc) /\ Typed /\ cyc.at = "shadow"
      /\ cyc.write.status \in Board!Live
  BY <1>1, CycleFits, CycleFields, WriteFields DEF BoardInv, WritesFit
<1>3. /\ Fitting(cyc') /\ cyc' # None /\ cyc'.obs = cyc.obs /\ cyc'.fires = cyc.fires
      /\ cyc'.write = None /\ cyc'.at \in {"shadow", "commit"}
  BY <1>1, <1>2, GoOnFits DEF Onward
<1>4. Typed'
  <2>1. shadow' \in [Board!Item -> Board!Live \cup {None}]
    <3>1. /\ shadow \in [Board!Item -> Board!Live \cup {None}]
          /\ cyc.write.status \in Board!Live
      BY <1>2 DEF Typed, Board!TypeOK
    <3> QED BY <1>1, <3>1
  <2>2. failed \in BOOLEAN /\ troubles \in Nat
    BY <1>2 DEF Typed, Board!TypeOK
  <2>3. failed' \in BOOLEAN
    BY <1>1, <2>2
  <2>4. troubles' \in Nat
    BY <1>1, <2>2
  <2> QED BY <1>1, <1>3, <2>1, <2>3, <2>4, TypedStep
             DEF BoardInv, Typed, Board!TypeOK, Entry
<1>5. Board!Item' = Board!Item /\ ~Setting /\ ~Setting' /\ ~Board!Writing'
  BY <1>1, <1>3 DEF Board!Item, Setting, Board!Writing
<1>6. BoardsFit' /\ OutcomesAreKnown' /\ CyclesFit' /\ WritesFit'
  BY <1>1, <1>3, <1>5
     DEF BoardInv, BoardsFit, Board!OnBoard, OutcomesAreKnown, CyclesFit, WritesFit
<1>7. IdsFit'
  BY <1>1, <1>2, <1>3, <1>5 DEF BoardInv, Typed, Board!TypeOK, IdsFit
<1>8. Shown'
  <2>1. troubles' = 0 => troubles = 0
    BY <1>1 DEF BoardInv, Typed, Board!TypeOK
  <2> QED BY <1>1, <1>5, <2>1 DEF BoardInv, Shown, Expected, Board!StatusOf, Board!OnBoard
<1>9. Undisturbed' => RestoresFit' /\ OneObservation' /\ Covered'
  BY <1>1, <1>2, <1>3, StagedKeeps
<1> QED BY <1>4, <1>6, <1>7, <1>8, <1>9 DEF BoardInv

LEMMA SaveKeeps ==
    ASSUME BoardInv, Board!Commit
    PROVE  BoardInv'
<1>1. /\ cyc # None /\ cyc.at = "commit" /\ cyc.write = None
      /\ obs' = cyc.obs /\ cyc' = Board!ToLaunch(cyc, conv', 1)
      /\ conv' = [i \in Board!Item |->
           IF i \notin cyc.fires THEN conv[i]
           ELSE IF conv[i].status = "absent" THEN [conv[i] EXCEPT !.status = "new"]
           ELSE [conv[i] EXCEPT !.pending = @ + 1]]
      /\ owed' = [i \in Board!Item |-> owed[i] - IF i \in cyc.fires THEN 1 ELSE 0]
      /\ UNCHANGED <<forge, board, flow, shadow, hand, failed, again, drags, prunes,
                     troubles>>
  BY DEF Board!Commit, Board!Idle, Board!At, Board!boards, Board!bounds
<1>2. Fitting(cyc) /\ Typed
  BY <1>1, CycleFits DEF BoardInv
<1>3. GoesOn(cyc, cyc', conv') /\ cyc'.at \in {"launch", "end"}
  BY <1>1, <1>2, ToLaunchEffect DEF Fitting
<1>4. Fitting(cyc') /\ cyc' # None /\ cyc'.write = None /\ cyc'.obs = cyc.obs
  <2>1. Fitting(cyc')
    BY <1>2, <1>3 DEF GoesOn, SameBut, Fitting
  <2> QED BY <1>2, <1>3, <2>1, FittingIsSome DEF GoesOn, SameBut
<1>5. /\ conv' \in [Board!Item -> Board!Conversations]
      /\ \A i \in Board!Item : /\ conv'[i].outcome = conv[i].outcome
                               /\ conv[i].status # "absent" => conv'[i].status = conv[i].status
                               /\ conv[i].status = "absent" =>
                                    conv'[i].status \in {"absent", "new"}
  <2>1. conv \in [Board!Item -> Board!Conversations]
    BY <1>2 DEF Typed, Board!TypeOK
  <2>2. \A i \in Board!Item :
          /\ conv'[i] \in Board!Conversations /\ conv'[i].outcome = conv[i].outcome
          /\ conv[i].status # "absent" => conv'[i].status = conv[i].status
          /\ conv[i].status = "absent" => conv'[i].status \in {"absent", "new"}
    <3> TAKE i \in Board!Item
    <3>1. conv[i] \in Board!Conversations
      BY <2>1
    <3>2. conv'[i] = IF i \notin cyc.fires THEN conv[i]
           ELSE IF conv[i].status = "absent" THEN [conv[i] EXCEPT !.status = "new"]
           ELSE [conv[i] EXCEPT !.pending = @ + 1]
      BY <1>1
    <3> QED BY <3>1, <3>2 DEF Board!Conversations
  <2> QED BY <1>1, <2>2
<1>6. /\ owed' \in [Board!Item -> Int]
      /\ \A i \in Board!Item : owed'[i] = owed[i] - (IF i \in cyc.fires THEN 1 ELSE 0)
  BY <1>1, <1>2 DEF Typed, Board!TypeOK
<1>7. Typed'
  <2>1. obs' \subseteq Board!Observations /\ \A o \in obs' : o.item \in Board!Item
    BY <1>1, <1>2, CycleFields
  <2> QED BY <1>1, <1>4, <1>5, <1>6, <2>1, TypedStep
             DEF BoardInv, Typed, Board!TypeOK, Entry
<1>8. Board!Item' = Board!Item /\ ~Board!Writing /\ ~Board!Writing'
  BY <1>1, <1>4 DEF Board!Item, Board!Writing
<1>9. BoardsFit' /\ OutcomesAreKnown' /\ WritesFit' /\ CyclesFit'
  <2>1. BoardsFit' /\ WritesFit'
    BY <1>1, <1>8 DEF BoardInv, BoardsFit, Board!OnBoard, WritesFit
  <2>2. OutcomesAreKnown'
    BY <1>5, <1>8 DEF BoardInv, OutcomesAreKnown
  <2>3. CyclesFit'
    BY <1>3 DEF CyclesFit, GoesOn, Board!I
  <2> QED BY <2>1, <2>2, <2>3
<1>10. IdsFit'
  BY <1>1, <1>4, <1>8 DEF BoardInv, IdsFit
<1>11. Shown'
  BY <1>1, <1>5, <1>8 DEF BoardInv, Shown, Setting, Expected, Board!StatusOf, Board!OnBoard
<1>12. ASSUME Undisturbed' PROVE RestoresFit' /\ OneObservation' /\ Covered'
  <2>1. OneObservation /\ Covered
    BY <1>1, <1>12 DEF BoardInv, Undisturbed
  <2>2. Staged /\ ~Staged' /\ ~Board!At("prune") /\ ~Board!At("prune")'
    BY <1>1, <1>3 DEF Staged, Board!At
  <2>3. \A i \in Board!Item : /\ Pledged(i)' = 0 /\ owed[i] \in Int
                              /\ owed'[i] = owed[i] - Pledged(i) /\ owed[i] >= Pledged(i)
    BY <1>2, <1>6, <2>1, <2>2 DEF Pledged, Covered, Typed, Board!TypeOK
  <2>4. \A o \in obs' : Armed(o)' => owed'[o.item] >= 1
    <3> SUFFICES ASSUME NEW o \in obs', Armed(o)' PROVE owed'[o.item] >= 1
      OBVIOUS
    <3>1. o \in cyc.obs /\ o.item \in Board!Item /\ Armed(o)
      BY <1>1, <1>2 DEF Fitting, Armed, Current, Board!OnBoard
    <3>2. owed[o.item] - Pledged(o.item) >= 1
      BY <2>1, <2>2, <3>1 DEF Covered
    <3> QED BY <2>3, <3>1, <3>2
  <2>5. Covered'
    BY <1>8, <2>2, <2>3, <2>4 DEF Covered, Pledged
  <2>6. OneObservation'
    BY <1>1, <2>1, <2>2 DEF OneObservation, OneEach, Replaced
  <2> QED BY <2>2, <2>5, <2>6 DEF RestoresFit
<1> QED BY <1>7, <1>9, <1>10, <1>11, <1>12 DEF BoardInv

\* What becomes of the conversation when a write is over.
LEMMA ConcludedEffect ==
    ASSUME Typed, cyc # None, conv' = Board!Concluded
    PROVE  /\ conv' \in [Board!Item -> Board!Conversations]
           /\ \A k \in Board!Item \ {Board!I} : conv'[k] = conv[k]
           /\ conv'[Board!I].outcome = conv[Board!I].outcome
           /\ cyc.at = "collect" => conv'[Board!I].status = "idle"
           /\ cyc.at = "launch" => conv'[Board!I].status = "working"
           /\ cyc.at \notin {"collect", "launch"} => conv' = conv
<1>1. Board!I \in Board!Item /\ conv \in [Board!Item -> Board!Conversations]
  BY CycleFields DEF Typed, Board!TypeOK, Board!I
<1>2. CASE cyc.at = "collect"
  <2> DEFINE left == IF conv[Board!I].outcome = "failed" THEN 0 ELSE conv[Board!I].pending
             t == [conv[Board!I] EXCEPT !.status = "idle", !.pending = left]
  <2>1. t \in Board!Conversations /\ t.status = "idle" /\ t.outcome = conv[Board!I].outcome
    BY <1>1 DEF Board!Conversations
  <2>2. conv' = [conv EXCEPT ![Board!I] = t]
    BY <1>1, <1>2 DEF Board!Concluded, Board!Settled
  <2> HIDE DEF t
  <2> QED BY <1>1, <1>2, <2>1, <2>2
<1>3. CASE cyc.at = "launch"
  <2> DEFINE t == [conv[Board!I] EXCEPT !.status = "working", !.pending = 0]
  <2>1. /\ t \in Board!Conversations /\ t.status = "working"
        /\ t.outcome = conv[Board!I].outcome
    BY <1>1 DEF Board!Conversations
  <2>2. conv' = [conv EXCEPT ![Board!I] = t]
    BY <1>3 DEF Board!Concluded, Board!Launched
  <2> HIDE DEF t
  <2> QED BY <1>1, <1>3, <2>1, <2>2
<1>4. CASE cyc.at \notin {"collect", "launch"}
  BY <1>1, <1>4 DEF Board!Concluded
<1> QED BY <1>2, <1>3, <1>4

\* What the status of the write of a run's end, or of its start, is to be.
Aim == IF cyc.at = "collect" THEN Board!StatusOf(conv[Board!I].outcome) ELSE "active"

LEMMA OverKeeps ==
    ASSUME BoardInv, cyc # None, cyc.at \in {"collect", "launch"},
           conv' = Board!Concluded, cyc' = Board!GoOn(cyc, conv'),
           board' \in [Board!Item -> Entry],
           \A k \in Board!Item \ {Board!I} : board'[k] = board[k],
           board'[Board!I].id = board[Board!I].id,
           board'[Board!I].status # "gone" <=> Board!OnBoard(Board!I),
           hand' \subseteq hand, hand \ {Board!I} \subseteq hand',
           UNCHANGED <<forge, flow, shadow, obs, owed, failed, again, drags, prunes,
                       troubles>>,
           Undisturbed => \A o \in obs : Armed(o)' => owed[o.item] >= 1,
           troubles = 0 /\ Board!I \notin hand' /\ Board!OnBoard(Board!I) =>
             board'[Board!I].status = Aim
    PROVE  BoardInv'
<1>1. /\ Typed /\ Fitting(cyc) /\ Board!I \in Board!Item
  BY CycleFits, CycleFields DEF BoardInv, Board!I
<1>2. /\ conv' \in [Board!Item -> Board!Conversations]
      /\ \A k \in Board!Item \ {Board!I} : conv'[k] = conv[k]
      /\ conv'[Board!I].outcome = conv[Board!I].outcome
      /\ cyc.at = "collect" => conv'[Board!I].status = "idle"
      /\ cyc.at = "launch" => conv'[Board!I].status = "working"
  BY <1>1, ConcludedEffect
<1>3. /\ Fitting(cyc') /\ cyc' # None /\ cyc'.write = None /\ cyc'.obs = cyc.obs
      /\ cyc'.at \in {"collect", "fetch", "launch", "end"}
      /\ cyc'.at \in {"collect", "fetch"} => cyc.at = "collect"
      /\ cyc'.at = "collect" => conv'[cyc'.item].status = "ended"
      /\ cyc'.at = "launch" =>
           \/ conv'[cyc'.item].status = "new"
           \/ conv'[cyc'.item].status = "idle" /\ conv'[cyc'.item].pending > 0
  <2> HIDE DEF Board!I
  <2>1. LET d == Board!GoOn(cyc, conv')
        IN  /\ Fitting(d) /\ d # None /\ d.write = None /\ d.obs = cyc.obs
            /\ d.at \in Onward[cyc.at]
            /\ d.at = "collect" => conv'[d.item].status = "ended"
            /\ d.at = "launch" =>
                 \/ conv'[d.item].status = "new"
                 \/ conv'[d.item].status = "idle" /\ conv'[d.item].pending > 0
    BY <1>1, GoOnFits
  <2> QED BY <2>1 DEF Onward
<1>4. Typed'
  BY <1>1, <1>2, <1>3, TypedStep DEF Typed, Board!TypeOK
<1>5. /\ Board!Item' = Board!Item /\ ~Board!Writing'
      /\ \A k \in Board!Item : Board!OnBoard(k)' <=> Board!OnBoard(k)
  <2>1. \A k \in Board!Item : Board!OnBoard(k)' <=> Board!OnBoard(k)
    BY <1>1 DEF Board!OnBoard
  <2> QED BY <1>3, <2>1 DEF Board!Item, Board!Writing
<1>6. \A k \in Board!Item : board'[k].id = board[k].id
  OBVIOUS
<1>7. BoardsFit'
  BY <1>1, <1>5, <1>6 DEF BoardInv, Typed, Board!TypeOK, BoardsFit
<1>8. CyclesFit' /\ WritesFit'
  BY <1>3, <1>5 DEF BoardInv, CyclesFit, WritesFit, Board!I
<1>9. OutcomesAreKnown'
  <2>1. cyc.at = "collect" => conv[Board!I].outcome \in Board!Terminal
    BY <1>1 DEF BoardInv, CyclesFit, OutcomesAreKnown
  <2> QED BY <1>1, <1>2, <1>5, <2>1 DEF BoardInv, OutcomesAreKnown
<1>10. IdsFit'
  BY <1>1, <1>3, <1>5, <1>6 DEF BoardInv, Typed, Board!TypeOK, Fitting, IdsFit
<1>11. Shown'
  <2> SUFFICES ASSUME troubles = 0, NEW k \in Board!Item, k \notin hand', Board!OnBoard(k),
                      conv'[k].status \in {"working", "ended", "idle"}
               PROVE  board'[k].status = Expected(k)'
    BY <1>5 DEF Shown, Setting
  <2>1. CASE k = Board!I
    BY <1>2, <2>1 DEF Expected, Board!StatusOf, Aim
  <2>2. CASE k # Board!I
    BY <1>1, <1>2, <2>2 DEF BoardInv, Shown, Expected, Board!StatusOf
  <2> QED BY <2>1, <2>2
<1>12. Undisturbed' => RestoresFit' /\ OneObservation' /\ Covered'
  <2>1. ~Staged'
    BY <1>3 DEF Staged
  <2> QED BY <2>1, UnstagedKeeps
<1> QED BY <1>4, <1>7, <1>8, <1>9, <1>10, <1>11, <1>12 DEF BoardInv

\* The preparation of a run raises: what was queued is gone.
LEMMA UnpreparedKeeps ==
    ASSUME BoardInv, Board!Unprepared
    PROVE  BoardInv'
<1>1. /\ cyc # None /\ cyc.at = "launch" /\ cyc.write = None
      /\ conv' = [conv EXCEPT ![Board!I] = [@ EXCEPT !.pending = 0]]
      /\ cyc' = Board!GoOn(cyc, conv') /\ troubles' = troubles + 1
      /\ UNCHANGED <<forge, board, flow, shadow, obs, hand, owed, failed, again, drags,
                     prunes>>
  BY DEF Board!Unprepared, Board!Idle, Board!At, Board!Trouble, Board!boards, Board!history
<1>2. /\ Typed /\ Fitting(cyc) /\ Board!I \in Board!Item
  BY <1>1, CycleFits, CycleFields DEF BoardInv, Board!I
<1>3. /\ conv' \in [Board!Item -> Board!Conversations]
      /\ \A k \in Board!Item : /\ conv'[k].status = conv[k].status
                               /\ conv'[k].outcome = conv[k].outcome
  <2> DEFINE t == [conv[Board!I] EXCEPT !.pending = 0]
  <2>1. conv[Board!I] \in Board!Conversations
    BY <1>2 DEF Typed, Board!TypeOK
  <2>2. /\ t \in Board!Conversations /\ t.status = conv[Board!I].status
        /\ t.outcome = conv[Board!I].outcome
    BY <2>1 DEF Board!Conversations
  <2>3. conv' = [conv EXCEPT ![Board!I] = t]
    BY <1>1
  <2> HIDE DEF t
  <2> QED BY <1>2, <2>2, <2>3 DEF Typed, Board!TypeOK
<1>4. /\ Fitting(cyc') /\ cyc' # None /\ cyc'.write = None /\ cyc'.obs = cyc.obs
      /\ cyc'.at \in {"launch", "end"}
      /\ cyc'.at = "launch" =>
           \/ conv'[cyc'.item].status = "new"
           \/ conv'[cyc'.item].status = "idle" /\ conv'[cyc'.item].pending > 0
  <2> HIDE DEF Board!I
  <2>1. LET d == Board!GoOn(cyc, conv')
        IN  /\ Fitting(d) /\ d # None /\ d.write = None /\ d.obs = cyc.obs
            /\ d.at \in Onward[cyc.at]
            /\ d.at = "launch" =>
                 \/ conv'[d.item].status = "new"
                 \/ conv'[d.item].status = "idle" /\ conv'[d.item].pending > 0
    <3>1. cyc.at = "launch"
      BY <1>1
    <3> QED BY <1>2, <3>1, GoOnFits
  <2>2. Onward[cyc.at] = {"launch", "end"}
    BY <1>1 DEF Onward
  <2> QED BY <1>1, <2>1, <2>2
<1>5. troubles' \in Nat /\ troubles' # 0
  BY <1>1, <1>2 DEF Typed, Board!TypeOK
<1>6. Typed'
  BY <1>1, <1>2, <1>3, <1>4, <1>5, TypedStep DEF Typed, Board!TypeOK, Entry
<1>7. Board!Item' = Board!Item /\ ~Board!Writing'
  BY <1>1, <1>4 DEF Board!Item, Board!Writing
<1>8. BoardsFit' /\ CyclesFit' /\ WritesFit' /\ IdsFit'
  BY <1>1, <1>4, <1>7
     DEF BoardInv, BoardsFit, Board!OnBoard, CyclesFit, WritesFit, IdsFit, Board!I
<1>9. OutcomesAreKnown'
  BY <1>3, <1>7 DEF BoardInv, OutcomesAreKnown
<1>10. Shown'
  BY <1>5 DEF Shown
<1>11. Undisturbed' => RestoresFit' /\ OneObservation' /\ Covered'
  <2>1. ~Staged'
    BY <1>4 DEF Staged
  <2>2. \A o \in obs : Armed(o)' => Armed(o)
    BY <1>1 DEF Armed, Current, Board!OnBoard
  <2> QED BY <1>1, <2>1, <2>2, UnstagedKeeps DEF BoardInv, Covered
<1> QED BY <1>6, <1>8, <1>9, <1>10, <1>11 DEF BoardInv

\* A status write begins: of a run's end, or of its start.
LEMMA BeginKeeps ==
    ASSUME BoardInv, cyc # None, cyc.write = None, cyc.at \in {"collect", "launch"},
           cyc' = [cyc EXCEPT !.write = Board!Write(Aim, None)], conv' = conv,
           board' \in [Board!Item -> Entry],
           \A k \in Board!Item \ {Board!I} : board'[k] = board[k],
           board'[Board!I].id >= board[Board!I].id, board'[Board!I].status # "gone",
           board'[Board!I] = board[Board!I] \/
             (board'[Board!I].status = "open" /\ ~Board!OnBoard(Board!I)),
           flow' \subseteq flow \cup {Board!I},
           UNCHANGED <<forge, shadow, obs, hand, owed, failed, again, drags, prunes,
                       troubles>>
    PROVE  BoardInv'
<1>1. /\ Typed /\ Fitting(cyc) /\ Board!I \in Board!Item
  BY CycleFits, CycleFields DEF BoardInv, Board!I
<1> DEFINE w == Board!Write(Aim, None)
<1>2. /\ w \in Board!Writes /\ w.status = Aim /\ w.step = "set" /\ w.id = board'[Board!I].id
  <2>1. Aim \in Board!Live
    BY <1>1 DEF BoardInv, CyclesFit, OutcomesAreKnown, Aim, Board!StatusOf, Board!Terminal,
       Board!Live, Board!Status
  <2>2. board'[Board!I].id \in Nat
    BY <1>1 DEF Entry
  <2> QED BY <2>1, <2>2 DEF Board!Write, Board!Writes, Board!Tries
<1> HIDE DEF w
<1>3. /\ Fitting(cyc') /\ cyc' # None /\ cyc'.write = w /\ cyc'.write # None
      /\ cyc'.at = cyc.at /\ cyc'.item = cyc.item /\ cyc'.obs = cyc.obs
  <2>1. cyc' = [cyc EXCEPT !.write = w]
    BY DEF w
  <2> QED BY <1>1, <1>2, <2>1, BeginsFits
<1>4. Typed'
  <2>1. flow' \cup hand' \subseteq Board!Item
    BY <1>1 DEF Typed, Board!TypeOK
  <2> QED BY <1>1, <1>3, <2>1, TypedStep DEF Typed, Board!TypeOK
<1>5. /\ Board!Item' = Board!Item /\ Board!I' = Board!I /\ Setting' /\ Board!Writing'
      /\ ~Setting
  BY <1>2, <1>3 DEF Board!Item, Board!I, Setting, Board!Writing
<1>6. BoardsFit'
  BY <1>1, <1>5 DEF BoardInv, Typed, Board!TypeOK, BoardsFit, Board!OnBoard
<1>7. CyclesFit' /\ OutcomesAreKnown' /\ WritesFit'
  BY <1>1, <1>2, <1>3, <1>5
     DEF BoardInv, CyclesFit, OutcomesAreKnown, WritesFit, Aim, Board!StatusOf, Board!I
<1>8. IdsFit'
  <2>1. \A k \in Board!Item : board[k].id \in Nat /\ board'[k].id \in Nat /\
          board'[k].id >= board[k].id
    BY <1>1 DEF Typed, Board!TypeOK, Entry
  <2>2. \A o \in obs \cup cyc.obs : o.id \in Nat /\ o.item \in Board!Item /\
          o.id <= board[o.item].id
    BY <1>1, CycleFields DEF BoardInv, Typed, Board!TypeOK, Board!Observations, IdsFit
  <2> QED BY <1>1, <1>2, <1>3, <1>5, <2>1, <2>2 DEF IdsFit
<1>9. Shown'
  <2>1. Board!Reachable' /\ cyc'.write.step = "set"
    BY <1>2, <1>3, <1>5 DEF Board!Reachable, Board!OnBoard
  <2> QED BY <1>1, <1>5, <2>1 DEF BoardInv, Shown, Expected, Board!StatusOf, Board!OnBoard
<1>10. Undisturbed' => RestoresFit' /\ OneObservation' /\ Covered'
  <2>1. ~Staged'
    BY <1>3 DEF Staged
  <2>2. \A o \in obs : Armed(o)' => Armed(o)
    BY <1>1 DEF BoardInv, Typed, Board!TypeOK, Armed, Current, Board!OnBoard
  <2> QED BY <2>1, <2>2, UnstagedKeeps DEF BoardInv, Covered
<1> QED BY <1>4, <1>6, <1>7, <1>8, <1>9, <1>10 DEF BoardInv

LEMMA LookKeeps ==
    ASSUME BoardInv, cyc # None, cyc.write = None, cyc.at \in {"collect", "launch"},
           Board!Look(Aim),
           UNCHANGED <<forge, shadow, obs, hand, owed, failed, again, drags, prunes,
                       troubles>>
    PROVE  BoardInv'
<1>1. Typed /\ Board!I \in Board!Item /\ board \in [Board!Item -> Entry]
  BY CycleFields DEF BoardInv, Typed, Board!TypeOK, Board!I, Entry
<1>2. CASE ~Board!OnBoard(Board!I)
  <2>1. /\ board' = Board!Added(Board!I) /\ flow' = flow \cup {Board!I} /\ conv' = conv
        /\ cyc' = [cyc EXCEPT !.write = Board!Write(Aim, None)]
    BY <1>2 DEF Board!Look, Board!Begins
  <2>2. /\ board' \in [Board!Item -> Entry]
        /\ \A k \in Board!Item \ {Board!I} : board'[k] = board[k]
        /\ board'[Board!I].status = "open" /\ board'[Board!I].id = board[Board!I].id + 1
    BY <1>1, <2>1, AddedEffect
  <2>3. board[Board!I].id \in Nat /\ board'[Board!I].id >= board[Board!I].id
    BY <1>1, <2>2 DEF Entry
  <2> QED BY <1>1, <1>2, <2>1, <2>2, <2>3, BeginKeeps
<1>3. CASE Board!OnBoard(Board!I)
  <2>1. /\ board' = board /\ flow' = flow
        /\ \/ /\ board[Board!I].status = Aim \/
                   (cyc.at = "collect" /\ Board!Refused(Aim, board[Board!I].status))
              /\ conv' = Board!Concluded /\ cyc' = Board!GoOn(cyc, conv')
           \/ cyc' = [cyc EXCEPT !.write = Board!Write(Aim, None)] /\ conv' = conv
    BY <1>3 DEF Board!Look, Board!Begins
  <2>2. CASE /\ board[Board!I].status = Aim \/
                  (cyc.at = "collect" /\ Board!Refused(Aim, board[Board!I].status))
             /\ conv' = Board!Concluded /\ cyc' = Board!GoOn(cyc, conv')
    <3>1. troubles = 0 /\ Board!I \notin hand => board[Board!I].status = Aim
      BY <1>1, <1>3, <2>2
         DEF BoardInv, CyclesFit, Shown, Setting, Board!Writing, Expected, Board!StatusOf,
             Board!Refused
    <3>2. Undisturbed => \A o \in obs : Armed(o)' => owed[o.item] >= 1
      BY <2>1 DEF BoardInv, Covered, Armed, Current, Board!OnBoard
    <3> QED BY <1>1, <1>3, <2>1, <2>2, <3>1, <3>2, OverKeeps DEF Board!OnBoard
  <2>3. CASE cyc' = [cyc EXCEPT !.write = Board!Write(Aim, None)] /\ conv' = conv
    <3>1. board[Board!I].id \in Nat /\ board[Board!I].status # "gone"
      BY <1>1, <1>3 DEF Entry, Board!OnBoard
    <3> QED BY <1>1, <2>1, <2>3, <3>1, BeginKeeps
  <2> QED BY <2>1, <2>2, <2>3
<1> QED BY <1>2, <1>3

LEMMA CollectKeeps ==
    ASSUME BoardInv, Board!Collect
    PROVE  BoardInv'
<1>1. /\ cyc # None /\ cyc.at = "collect" /\ cyc.write = None /\ Board!Look(Aim)
      /\ UNCHANGED <<forge, shadow, obs, hand, owed, failed, again, drags, prunes,
                     troubles>>
  BY DEF Board!Collect, Board!Idle, Board!At, Aim, Board!history, Board!bounds
<1> QED BY <1>1, LookKeeps

LEMMA LaunchKeeps ==
    ASSUME BoardInv, Board!Launch
    PROVE  BoardInv'
<1>1. /\ cyc # None /\ cyc.at = "launch" /\ cyc.write = None /\ Board!Look(Aim)
      /\ UNCHANGED <<forge, shadow, obs, hand, owed, failed, again, drags, prunes,
                     troubles>>
  BY DEF Board!Launch, Board!Idle, Board!At, Aim, Board!history, Board!bounds
<1> QED BY <1>1, LookKeeps

\* The restored item is observed under its new id.
LEMMA RestoredKeeps ==
    ASSUME BoardInv, Board!Writing, cyc.at = "prune",
           conv' = conv, cyc' = Board!GoOn([cyc EXCEPT !.obs = Board!Rekeyed], conv'),
           board' \in [Board!Item -> Entry],
           \A k \in Board!Item \ {Board!I} : board'[k] = board[k],
           board'[Board!I].id = board[Board!I].id,
           board'[Board!I].status # "gone" <=> Board!OnBoard(Board!I),
           hand' \subseteq hand, hand \ {Board!I} \subseteq hand',
           UNCHANGED <<forge, flow, shadow, obs, owed, failed, again, drags, prunes,
                       troubles>>,
           Undisturbed => \A o \in obs : Armed(o)' => owed[o.item] >= 1,
           troubles = 0 /\ Board!I \notin hand' /\ Board!OnBoard(Board!I) =>
             board'[Board!I].status = cyc.write.status,
           Undisturbed /\ board'[Board!I].status = "ready" /\ cyc.write.status # "ready"
             => owed[Board!I] - Pledged(Board!I) >= 1
    PROVE  BoardInv'
<1> DEFINE c == [cyc EXCEPT !.obs = Board!Rekeyed]
           new == [item |-> Board!I, id |-> cyc.write.id, status |-> cyc.write.status,
             ver |-> None,
                   deferred |-> FALSE]
           kept == {o \in cyc.obs : ~(o.item = Board!I /\ o.id \in {cyc.write.old,
             cyc.write.id})}
<1>1. /\ Typed /\ Fitting(cyc) /\ cyc # None /\ Board!I \in Board!Item
      /\ cyc.write.status \in Board!Live /\ cyc.write.id \in Nat
      /\ cyc.obs \subseteq Board!Observations
  BY CycleFits, CycleFields, WriteFields DEF BoardInv, Board!I
<1>2. /\ new \in Board!Observations /\ new.item = Board!I /\ new.id = cyc.write.id
      /\ new.status = cyc.write.status /\ new.deferred = FALSE
  BY <1>1, ItemsAreNumbers DEF Board!Observations
<1>3. Board!Rekeyed = kept \cup {new}
  BY DEF Board!Rekeyed
<1> HIDE DEF new
<1>4. /\ kept \subseteq cyc.obs
      /\ \A o \in kept : o.item = Board!I => o.id # cyc.write.old /\ o.id # cyc.write.id
  OBVIOUS
<1> HIDE DEF kept
<1>5. /\ Fitting(c) /\ c.at = cyc.at /\ c.item = cyc.item /\ c.stale = cyc.stale
      /\ c.fires = cyc.fires /\ c.obs = Board!Rekeyed
  BY <1>1, <1>2, <1>3, <1>4 DEF Fitting, Board!Cycles
<1>6. /\ Fitting(cyc') /\ cyc' # None /\ cyc'.write = None /\ cyc'.obs = Board!Rekeyed
      /\ cyc'.stale = cyc.stale /\ cyc'.fires = cyc.fires
      /\ cyc'.at \in {"prune", "shadow", "commit"}
      /\ \A o \in cyc.stale : o.item \in Board!Item /\ Board!I <= o.item =>
           cyc'.at = "prune" /\ cyc'.item <= o.item
  <2>1. cyc' = Board!GoOn(c, conv')
    OBVIOUS
  <2> HIDE DEF c
  <2>2. LET d == Board!GoOn(c, conv')
        IN  /\ Fitting(d) /\ d # None /\ d.write = None
            /\ d.obs = c.obs /\ d.stale = c.stale /\ d.fires = c.fires
            /\ d.at \in Onward["prune"]
            /\ \A o \in c.stale : o.item \in Board!Item /\ c.item <= o.item =>
                 d.at = "prune" /\ d.item <= o.item
    BY <1>1, <1>5, GoOnFits
  <2>3. Onward["prune"] = {"prune", "shadow", "commit"}
    BY DEF Onward
  <2>4. c.item = Board!I
    BY <1>5 DEF Board!I
  <2> QED BY <1>5, <2>1, <2>2, <2>3, <2>4
<1> HIDE DEF c
<1>7. Typed'
  BY <1>1, <1>6, TypedStep DEF Typed, Board!TypeOK
<1>8. /\ Board!Item' = Board!Item /\ ~Board!Writing'
      /\ \A k \in Board!Item : Board!OnBoard(k)' <=> Board!OnBoard(k)
  <2>1. \A k \in Board!Item : Board!OnBoard(k)' <=> Board!OnBoard(k)
    BY <1>1 DEF Board!OnBoard
  <2> QED BY <1>6, <2>1 DEF Board!Item, Board!Writing
<1>9. \A k \in Board!Item : board'[k].id = board[k].id
  OBVIOUS
<1>10. BoardsFit'
  BY <1>1, <1>8, <1>9 DEF BoardInv, Typed, Board!TypeOK, BoardsFit
<1>11. CyclesFit' /\ WritesFit' /\ OutcomesAreKnown'
  BY <1>6, <1>8 DEF BoardInv, CyclesFit, WritesFit, OutcomesAreKnown
<1>12. IdsFit'
  <2>1. \A o \in kept \cup {new} : o.id <= board[o.item].id /\ o.item \in Board!Item
    BY <1>1, <1>2, <1>4 DEF BoardInv, Fitting, IdsFit
  <2> QED BY <1>1, <1>3, <1>6, <1>8, <1>9, <2>1 DEF BoardInv, Typed, Board!TypeOK, IdsFit
<1>13. Shown'
  <2> SUFFICES ASSUME troubles = 0, NEW k \in Board!Item, k \notin hand', Board!OnBoard(k),
                      conv[k].status \in {"working", "ended", "idle"}
               PROVE  board'[k].status = Expected(k)'
    BY <1>8 DEF Shown, Setting
  <2>1. Expected(k)' = Expected(k)
    BY DEF Expected, Board!StatusOf
  <2>2. CASE k = Board!I
    BY <2>1, <2>2 DEF BoardInv, WritesFit
  <2>3. CASE k # Board!I
    BY <2>1, <2>3 DEF BoardInv, Shown
  <2> QED BY <2>2, <2>3
<1>14. ASSUME Undisturbed' PROVE RestoresFit' /\ OneObservation' /\ Covered'
  <2>1. Undisturbed /\ RestoresFit /\ OneObservation /\ Covered
    BY <1>14 DEF BoardInv, Undisturbed
  <2>2. Board!At("prune") /\ Staged /\ Staged' /\ Board!Restoring(Board!I)
    BY <1>1, <1>6 DEF Board!At, Staged, Board!Restoring
  <2>3. \A o : o.item \in Board!Item => (Current(o)' <=> Current(o))
    BY <1>8, <1>9 DEF Current
  <2>4. /\ Board!Reachable /\ cyc.stale \subseteq obs
        /\ \A o \in cyc.stale : o.item \in Board!Item /\ Board!I <= o.item /\
             o.item # Board!I /\ ~Current(o)
    BY <1>1, <2>1, <2>2 DEF RestoresFit, Typed, Board!TypeOK
  <2>5. \A o \in cyc.stale : cyc'.at = "prune" /\ cyc'.item <= o.item
    BY <1>6, <2>4
  <2>6. RestoresFit'
    BY <1>6, <1>8, <2>3, <2>4, <2>5 DEF RestoresFit, Board!At, Board!I
  <2>7. \A o \in kept : o.item # Board!I
    <3> SUFFICES ASSUME NEW o \in kept, o.item = Board!I PROVE FALSE
      OBVIOUS
    <3>1. Current(o) \/ Replaced(o)
      BY <1>4, <2>1, <2>2 DEF OneObservation
    <3>2. ~Current(o)
      BY <1>4, <2>4 DEF Current, Board!Reachable
    <3>3. ~Replaced(o)
      BY <1>4, <2>4 DEF Replaced
    <3> QED BY <3>1, <3>2, <3>3
  <2>8. \A o \in cyc'.obs : o = new \/ (o \in cyc.obs /\ o.item \in Board!Item \ {Board!I})
    BY <1>1, <1>3, <1>4, <1>6, <2>7 DEF Fitting
  <2>9. \A o \in cyc.obs : o.item # Board!I /\ Replaced(o) => Replaced(o)'
    BY <1>6, <2>5 DEF Replaced, Board!At
  <2>10. \A k : Board!Restoring(k)' => Board!Restoring(k) /\ k # Board!I
    BY <1>6, <1>8, <2>2, <2>4 DEF Board!Restoring
  <2>11. OneObservation'
    <3>1. \A o, p \in cyc'.obs : o.item = p.item => o = p \/ Replaced(o)' \/ Replaced(p)'
      BY <1>2, <2>1, <2>2, <2>8, <2>9 DEF OneObservation
    <3>2. \A o \in cyc'.obs : Board!Restoring(o.item)' => Current(o)' \/ Replaced(o)'
      BY <1>2, <2>1, <2>2, <2>3, <2>8, <2>9, <2>10 DEF OneObservation
    <3> QED BY <2>1, <3>1, <3>2 DEF OneObservation, OneEach
  <2>12. \A k : Pledged(k)' = Pledged(k)
    BY <1>6, <2>2 DEF Pledged
  <2>13. \A o \in cyc'.obs : Armed(o)' => owed[o.item] - Pledged(o.item) >= 1
    <3> SUFFICES ASSUME NEW o \in cyc'.obs, Armed(o)'
                 PROVE  owed[o.item] - Pledged(o.item) >= 1
      OBVIOUS
    <3>1. CASE o = new
      BY <1>2, <2>1, <3>1 DEF Armed
    <3>2. CASE o \in cyc.obs /\ o.item \in Board!Item \ {Board!I}
      <4>1. Armed(o)
        BY <2>3, <3>2 DEF Armed
      <4> QED BY <2>1, <2>2, <3>2, <4>1 DEF Covered
    <3> QED BY <2>8, <3>1, <3>2
  <2>14. Covered'
    BY <1>8, <2>1, <2>12, <2>13 DEF Covered
  <2> QED BY <2>6, <2>11, <2>14
<1> QED BY <1>7, <1>10, <1>11, <1>12, <1>13, <1>14 DEF BoardInv

LEMMA WriteOverKeeps ==
    ASSUME BoardInv, Setting, Board!WriteOver,
           board' \in [Board!Item -> Entry],
           \A k \in Board!Item \ {Board!I} : board'[k] = board[k],
           board'[Board!I].id = board[Board!I].id,
           board'[Board!I].status # "gone" <=> Board!OnBoard(Board!I),
           hand' \subseteq hand, hand \ {Board!I} \subseteq hand',
           UNCHANGED <<forge, flow, shadow, obs, owed, failed, again, drags, prunes,
                       troubles>>,
           Undisturbed => \A o \in obs : Armed(o)' => owed[o.item] >= 1,
           troubles = 0 /\ Board!I \notin hand' /\ Board!OnBoard(Board!I) =>
             board'[Board!I].status = cyc.write.status,
           Undisturbed /\ cyc.at = "prune" /\ board'[Board!I].status = "ready" /\
             cyc.write.status # "ready"
             => owed[Board!I] - Pledged(Board!I) >= 1
    PROVE  BoardInv'
<1>1. Board!Writing /\ cyc # None /\ cyc.at \in {"collect", "prune", "launch"} /\ Typed
  BY DEF BoardInv, WritesFit, Setting, Board!Writing
<1>2. conv' = Board!Concluded
  BY DEF Board!WriteOver
<1>3. CASE cyc.at = "prune"
  <2>1. conv' = conv /\ cyc' = Board!GoOn([cyc EXCEPT !.obs = Board!Rekeyed], conv')
    BY <1>2, <1>3 DEF Board!WriteOver, Board!Concluded
  <2> QED BY <1>1, <1>3, <2>1, RestoredKeeps
<1>4. CASE cyc.at \in {"collect", "launch"}
  <2>1. cyc' = Board!GoOn(cyc, conv')
    BY <1>4 DEF Board!WriteOver
  <2>2. cyc.write.status = Aim
    BY <1>1, <1>4 DEF BoardInv, WritesFit, Aim, Board!StatusOf
  <2> QED BY <1>1, <1>2, <1>4, <2>1, <2>2, OverKeeps
<1> QED BY <1>1, <1>3, <1>4

LEMMA SetKeeps ==
    ASSUME BoardInv, Board!Set
    PROVE  BoardInv'
<1>1. /\ Board!Writing /\ cyc.write.step = "set" /\ Board!Reachable
      /\ Board!Put(Board!I, cyc.write.status)
      /\ hand' = hand \ {Board!I}
      /\ UNCHANGED <<forge, flow, shadow, obs, owed, failed, again, drags, prunes,
                     troubles>>
  BY DEF Board!Set, Board!bounds
<1>2. /\ Typed /\ Fitting(cyc) /\ cyc # None /\ Board!I \in Board!Item /\ Setting
      /\ Board!OnBoard(Board!I)
      /\ cyc.write \in Board!Writes /\ cyc.write.status \in Board!Live
      /\ cyc.at \in {"collect", "prune", "launch"}
  <2>1. cyc.at \in {"collect", "prune", "launch"}
    BY <1>1 DEF BoardInv, WritesFit
  <2> QED BY <1>1, <2>1, CycleFits, CycleFields, WriteFields
             DEF BoardInv, Board!I, Setting, Board!Reachable
<1>3. /\ board' \in [Board!Item -> Entry]
      /\ \A k \in Board!Item \ {Board!I} : board'[k] = board[k]
      /\ board'[Board!I].status = cyc.write.status /\ board'[Board!I].id = board[Board!I].id
  <2>1. cyc.write.status \in Board!Status
    BY <1>2 DEF Board!Live
  <2> QED BY <1>1, <1>2, <2>1, PutEffect
<1>4. /\ board'[Board!I].status # "gone"
      /\ \A k \in Board!Item : Board!OnBoard(k)' <=> Board!OnBoard(k)
  BY <1>2, <1>3 DEF Board!Live, Board!OnBoard
<1>5. \A o : o.item \in Board!Item => (Current(o)' <=> Current(o))
  BY <1>3, <1>4 DEF Current
<1>6. Undisturbed => \A o \in obs : Armed(o)' => owed[o.item] >= 1
  <2> SUFFICES ASSUME Undisturbed, NEW o \in obs, Armed(o)' PROVE owed[o.item] >= 1
    OBVIOUS
  <2>1. RestoresFit /\ OneObservation /\ Covered /\ o.item \in Board!Item
    BY <1>2 DEF BoardInv, Typed, Board!TypeOK
  <2>2. CASE o.item # Board!I
    <3>1. Armed(o)
      BY <1>3, <1>5, <2>1, <2>2 DEF Armed
    <3> QED BY <2>1, <3>1 DEF Covered
  <2>3. CASE o.item = Board!I
    <3>1. cyc.write.status = "ready" /\ Current(o)
      BY <1>3, <1>5, <2>1, <2>3 DEF Armed
    <3>2. cyc.at = "prune"
      BY <1>1, <1>2, <3>1
         DEF BoardInv, WritesFit, CyclesFit, OutcomesAreKnown, Board!StatusOf,
             Board!Terminal
    <3>3. PICK p \in obs : p.item = Board!I /\ ~Current(p)
      BY <1>1, <1>2, <2>1, <3>2 DEF RestoresFit, Board!At
    <3>4. o = p
      BY <2>1, <2>3, <3>3 DEF OneObservation, OneEach
    <3> QED BY <3>1, <3>3, <3>4
  <2> QED BY <2>2, <2>3
<1>7. CASE forge = "vault"
  <2>1. Board!WriteOver
    BY <1>7 DEF Board!Set
  <2> QED BY <1>1, <1>2, <1>3, <1>4, <1>6, <2>1, WriteOverKeeps
<1>8. CASE forge # "vault"
  <2> DEFINE w == [cyc.write EXCEPT !.step = "confirm"]
  <2>1. cyc' = [cyc EXCEPT !.write = w] /\ conv' = conv
    BY <1>8 DEF Board!Set
  <2>2. /\ w \in Board!Writes /\ w.status = cyc.write.status /\ w.step = "confirm"
        /\ w.tries = cyc.write.tries /\ w.id = cyc.write.id /\ w.old = cyc.write.old
    BY <1>2 DEF Board!Writes
  <2> HIDE DEF w
  <2>3. /\ Fitting(cyc') /\ cyc' # None /\ cyc'.write = w /\ cyc'.write # None
        /\ cyc'.at = cyc.at /\ cyc'.item = cyc.item /\ cyc'.obs = cyc.obs
        /\ cyc'.stale = cyc.stale /\ cyc'.fires = cyc.fires
    BY <1>2, <2>1, <2>2, BeginsFits
  <2>4. Typed'
    BY <1>1, <1>2, <1>3, <2>1, <2>3, TypedStep DEF Typed, Board!TypeOK
  <2>5. /\ Board!Item' = Board!Item /\ Board!I' = Board!I /\ Board!Writing' /\ Setting'
        /\ Board!Reachable' /\ Board!Stuck'
    <3>1. Board!Item' = Board!Item /\ Board!I' = Board!I /\ Board!Writing' /\ Setting'
      BY <1>1, <2>2, <2>3 DEF Board!Item, Board!I, Board!Writing, Setting
    <3>2. Board!Reachable' /\ Board!Stuck'
      BY <1>1, <1>3, <1>4, <2>2, <2>3, <3>1 DEF Board!Reachable, Board!Stuck, Board!OnBoard
    <3> QED BY <3>1, <3>2
  <2>6. BoardsFit'
    BY <1>1, <1>2, <1>3, <1>4, <2>5 DEF BoardInv, Typed, Board!TypeOK, BoardsFit
  <2>7. CyclesFit' /\ OutcomesAreKnown'
    BY <1>1, <1>2, <2>1, <2>3, <2>5 DEF BoardInv, CyclesFit, OutcomesAreKnown
  <2>8. WritesFit'
    BY <1>1, <1>2, <2>1, <2>2, <2>3, <2>5 DEF BoardInv, WritesFit, Expected, Board!StatusOf
  <2>9. IdsFit'
    BY <1>1, <1>2, <1>3, <2>2, <2>3, <2>5 DEF BoardInv, Typed, Board!TypeOK, Fitting, IdsFit
  <2>10. Shown'
    BY <1>1, <1>3, <1>4, <2>1, <2>5 DEF BoardInv, Shown, Expected, Board!StatusOf
  <2>11. ASSUME Undisturbed' PROVE RestoresFit' /\ OneObservation' /\ Covered'
    <3>1. Undisturbed /\ RestoresFit /\ OneObservation /\ Covered
      BY <1>1, <2>11 DEF BoardInv, Undisturbed
    <3>2. RestoresFit'
      BY <1>1, <1>2, <1>5, <2>2, <2>3, <2>5, <3>1
         DEF RestoresFit, Board!At, Typed, Board!TypeOK
    <3>3. \A k : (Board!Restoring(k)' <=> Board!Restoring(k)) /\ Pledged(k)' = Pledged(k)
      BY <1>1, <1>2, <2>3, <2>5 DEF Board!Restoring, Board!At, Pledged, Staged
    <3>4. \A o : Replaced(o)' <=> Replaced(o)
      BY <1>1, <1>2, <2>2, <2>3, <2>5 DEF Replaced, Board!At
    <3>5. OneObservation'
      BY <1>1, <1>2, <1>5, <2>3, <3>1, <3>3, <3>4
         DEF OneObservation, OneEach, Staged, Fitting
    <3>6. Staged' => \A o \in cyc'.obs :
            Armed(o)' /\ ~(Board!At("prune") /\ Board!Writing /\ Board!I = o.item)' =>
              owed[o.item] - Pledged(o.item) >= 1
      <4> SUFFICES ASSUME Staged', NEW o \in cyc'.obs, Armed(o)',
                          ~(Board!At("prune") /\ Board!Writing /\ Board!I = o.item)'
                   PROVE  owed[o.item] - Pledged(o.item) >= 1
        OBVIOUS
      <4>1. Staged /\ Board!At("prune") /\ Board!At("prune")'
        BY <1>2, <2>3 DEF Staged, Board!At
      <4>2. o \in cyc.obs /\ o.item \in Board!Item \ {Board!I}
        BY <1>2, <2>3, <2>5, <4>1 DEF Fitting
      <4>3. Armed(o)
        BY <1>3, <1>5, <4>2 DEF Armed
      <4> QED BY <3>1, <4>1, <4>2, <4>3 DEF Covered
    <3>7. Covered'
      BY <1>1, <1>6, <2>5, <3>1, <3>3, <3>6 DEF Covered
    <3> QED BY <3>2, <3>5, <3>7
  <2> QED BY <2>4, <2>6, <2>7, <2>8, <2>9, <2>10, <2>11 DEF BoardInv
<1> QED BY <1>7, <1>8

LEMMA ConfirmKeeps ==
    ASSUME BoardInv, Board!Confirm
    PROVE  BoardInv'
<1>1. /\ Board!Writing /\ cyc.write.step = "confirm" /\ Board!Reachable
      /\ UNCHANGED <<forge, board, flow, shadow, obs, hand, owed, failed, again, drags,
                     prunes, troubles>>
  BY DEF Board!Confirm, Board!boards, Board!history, Board!bounds
<1>2. /\ Typed /\ Fitting(cyc) /\ cyc # None /\ Board!I \in Board!Item /\ Setting
      /\ Board!OnBoard(Board!I)
      /\ cyc.write \in Board!Writes /\ board \in [Board!Item -> Entry]
  <2>1. board \in [Board!Item -> Entry]
    BY DEF BoardInv, Typed, Board!TypeOK, Entry
  <2> QED BY <1>1, <2>1, CycleFits, CycleFields, WriteFields
             DEF BoardInv, Board!I, Setting, Board!Reachable
<1>3. \A o : (Current(o)' <=> Current(o)) /\ (Armed(o)' <=> Armed(o))
  BY <1>1 DEF Armed, Current, Board!OnBoard
<1>4. CASE Board!Stuck \/ cyc.write.tries = Board!Tries
  <2>1. Board!WriteOver
    BY <1>4 DEF Board!Confirm
  <2>2. troubles = 0 /\ Board!I \notin hand => board[Board!I].status = cyc.write.status
    BY <1>1, <1>2, <1>4 DEF BoardInv, Shown, Board!Stuck
  <2>3. Undisturbed /\ cyc.at = "prune" /\ board[Board!I].status = "ready" /\
          cyc.write.status # "ready"
          => owed[Board!I] - Pledged(Board!I) >= 1
    BY <1>1, <1>2 DEF BoardInv, Covered, Board!At, Board!Stuck
  <2>4. Undisturbed => \A o \in obs : Armed(o)' => owed[o.item] >= 1
    BY <1>3 DEF BoardInv, Covered
  <2> QED BY <1>1, <1>2, <2>1, <2>2, <2>3, <2>4, WriteOverKeeps DEF Board!OnBoard
<1>5. CASE ~(Board!Stuck \/ cyc.write.tries = Board!Tries)
  <2> DEFINE w == Board!Retried(cyc.write)
  <2>1. cyc' = [cyc EXCEPT !.write = w] /\ conv' = conv
    BY <1>5 DEF Board!Confirm
  <2>2. /\ w \in Board!Writes /\ w.status = cyc.write.status /\ w.step = "set"
        /\ w.id = cyc.write.id /\ w.old = cyc.write.old
    <3>1. cyc.write.tries \in 1..3 /\ cyc.write.tries + 1 \in 1..3
      BY <1>2, <1>5 DEF Board!Writes, Board!Tries
    <3>2. w = [cyc.write EXCEPT !.step = "set", !.tries = cyc.write.tries + 1]
      BY <1>2 DEF Board!Retried, Board!Writes
    <3> QED BY <1>2, <3>1, <3>2 DEF Board!Writes, Board!Tries
  <2> HIDE DEF w
  <2>3. /\ Fitting(cyc') /\ cyc' # None /\ cyc'.write = w /\ cyc'.write # None
        /\ cyc'.at = cyc.at /\ cyc'.item = cyc.item /\ cyc'.obs = cyc.obs
        /\ cyc'.stale = cyc.stale /\ cyc'.fires = cyc.fires
    BY <1>2, <2>1, <2>2, BeginsFits
  <2>4. Typed'
    BY <1>1, <1>2, <2>1, <2>3, TypedStep DEF Typed, Board!TypeOK
  <2>5. /\ Board!Item' = Board!Item /\ Board!I' = Board!I /\ Board!Writing' /\ Setting'
        /\ Board!Reachable'
    BY <1>1, <2>2, <2>3
       DEF Board!Item, Board!I, Board!Writing, Setting, Board!Reachable, Board!OnBoard
  <2>6. BoardsFit' /\ CyclesFit' /\ OutcomesAreKnown'
    BY <1>1, <1>2, <2>1, <2>3, <2>5
       DEF BoardInv, BoardsFit, Board!OnBoard, CyclesFit, OutcomesAreKnown
  <2>7. WritesFit'
    BY <1>1, <1>2, <2>1, <2>2, <2>3, <2>5 DEF BoardInv, WritesFit, Expected, Board!StatusOf
  <2>8. IdsFit'
    BY <1>1, <1>2, <2>2, <2>3, <2>5 DEF BoardInv, IdsFit
  <2>9. Shown'
    BY <1>1, <2>1, <2>2, <2>3, <2>5
       DEF BoardInv, Shown, Expected, Board!StatusOf, Board!OnBoard
  <2>10. ASSUME Undisturbed' PROVE RestoresFit' /\ OneObservation' /\ Covered'
    <3>1. Undisturbed /\ RestoresFit /\ OneObservation /\ Covered
      BY <1>1, <2>10 DEF BoardInv, Undisturbed
    <3>2. RestoresFit'
      BY <1>1, <1>2, <1>3, <2>2, <2>3, <2>5, <3>1 DEF RestoresFit, Board!At
    <3>3. \A k : (Board!Restoring(k)' <=> Board!Restoring(k)) /\ Pledged(k)' = Pledged(k)
      BY <1>1, <1>2, <2>3, <2>5 DEF Board!Restoring, Board!At, Pledged, Staged
    <3>4. \A o : Replaced(o)' <=> Replaced(o)
      BY <1>1, <1>2, <2>2, <2>3, <2>5 DEF Replaced, Board!At
    <3>5. OneObservation'
      BY <1>1, <1>2, <1>3, <2>3, <3>1, <3>3, <3>4 DEF OneObservation, OneEach, Staged
    <3>6. Covered'
      BY <1>1, <1>2, <1>3, <2>2, <2>3, <2>5, <3>1, <3>3 DEF Covered, Staged, Board!At
    <3> QED BY <3>2, <3>5, <3>6
  <2> QED BY <2>4, <2>6, <2>7, <2>8, <2>9, <2>10 DEF BoardInv
<1> QED BY <1>4, <1>5

LEMMA WriteFailsKeeps ==
    ASSUME BoardInv, Board!WriteFails
    PROVE  BoardInv'
<1>1. /\ Setting /\ Board!Writing
      /\ IF Board!Reachable THEN failed' = TRUE /\ troubles' = troubles + 1
                            ELSE failed' = failed /\ troubles' = troubles
      /\ IF cyc.at = "collect" THEN conv' = Board!Settled /\ cyc' = None
         ELSE conv' = conv /\ cyc' = Board!GoOn(cyc, conv)
      /\ UNCHANGED <<forge, board, flow, shadow, obs, hand, owed, again, drags, prunes>>
  BY DEF Board!WriteFails, Setting, Board!Fail, Board!Trouble, Board!boards, Board!bounds
<1>2. /\ Typed /\ Fitting(cyc) /\ cyc # None /\ Board!I \in Board!Item
      /\ cyc.at \in {"collect", "prune", "launch"}
  <2>1. cyc.at \in {"collect", "prune", "launch"}
    BY <1>1 DEF BoardInv, WritesFit, Setting
  <2> QED BY <1>1, <2>1, CycleFits, CycleFields, WriteFields DEF BoardInv, Board!I
<1>3. /\ conv' \in [Board!Item -> Board!Conversations]
      /\ \A k \in Board!Item \ {Board!I} : conv'[k] = conv[k]
      /\ conv'[Board!I].outcome = conv[Board!I].outcome
      /\ conv' = conv \/ (cyc.at = "collect" /\ conv'[Board!I].status = "idle")
  <2>1. CASE cyc.at = "collect"
    <3>1. conv' = Board!Concluded
      BY <1>1, <2>1 DEF Board!Concluded
    <3> QED BY <1>2, <2>1, <3>1, ConcludedEffect
  <2>2. CASE cyc.at # "collect"
    BY <1>1, <1>2, <2>2 DEF Typed, Board!TypeOK
  <2> QED BY <2>1, <2>2
<1>4. ASSUME cyc' # None
      PROVE  /\ Fitting(cyc') /\ cyc'.write = None /\ cyc'.obs = cyc.obs
             /\ cyc.at # "collect" /\ cyc'.at \in Onward[cyc.at]
             /\ cyc'.at = "launch" =>
                  \/ conv'[cyc'.item].status = "new"
                  \/ conv'[cyc'.item].status = "idle" /\ conv'[cyc'.item].pending > 0
  <2>1. cyc.at \in {"prune", "launch"} /\ conv' = conv /\ cyc' = Board!GoOn(cyc, conv)
    BY <1>1, <1>2, <1>4
  <2> QED BY <1>2, <2>1, GoOnFits
<1>5. failed' \in BOOLEAN /\ troubles' \in Nat
  <2>1. failed \in BOOLEAN /\ troubles \in Nat
    BY <1>2 DEF Typed, Board!TypeOK
  <2>2. failed' \in BOOLEAN
    BY <1>1, <2>1
  <2>3. troubles' \in Nat
    BY <1>1, <2>1
  <2> QED BY <2>2, <2>3
<1>6. Typed'
  BY <1>1, <1>2, <1>3, <1>4, <1>5, TypedStep DEF Typed, Board!TypeOK, Entry
<1>7. Board!Item' = Board!Item /\ ~Board!Writing' /\ ~Setting'
  BY <1>1, <1>4 DEF Board!Item, Board!Writing, Setting
<1>8. BoardsFit' /\ WritesFit' /\ IdsFit'
  BY <1>1, <1>2, <1>4, <1>7 DEF BoardInv, BoardsFit, Board!OnBoard, WritesFit, IdsFit
<1>9. CyclesFit'
  BY <1>2, <1>4 DEF CyclesFit, Onward, Board!I
<1>10. OutcomesAreKnown'
  <2>1. cyc.at = "collect" => conv[Board!I].outcome \in Board!Terminal
    BY <1>2 DEF BoardInv, CyclesFit, OutcomesAreKnown
  <2> QED BY <1>2, <1>3, <1>7, <2>1 DEF BoardInv, OutcomesAreKnown
<1>11. Shown'
  <2> SUFFICES ASSUME troubles' = 0, NEW k \in Board!Item, k \notin hand, Board!OnBoard(k),
                      conv'[k].status \in {"working", "ended", "idle"}
               PROVE  board[k].status = Expected(k)'
    BY <1>1, <1>7 DEF Shown, Board!OnBoard
  <2>1. ~Board!Reachable /\ troubles = 0
    BY <1>1, <1>2 DEF Typed, Board!TypeOK
  <2>2. k # Board!I
    BY <1>1, <2>1 DEF BoardInv, Shown
  <2> QED BY <1>1, <1>3, <2>1, <2>2 DEF BoardInv, Shown, Expected, Board!StatusOf
<1>12. ASSUME Undisturbed' PROVE RestoresFit' /\ OneObservation' /\ Covered'
  <2>1. ~Board!Reachable /\ Undisturbed
    BY <1>1, <1>12 DEF Undisturbed
  <2>2. cyc.at # "prune"
    BY <1>1, <1>2, <2>1 DEF BoardInv, RestoresFit, Board!At
  <2>3. ~Staged'
    BY <1>2, <1>4, <2>2 DEF Staged, Onward
  <2>4. \A o \in obs : Armed(o)' => Armed(o)
    BY <1>1 DEF Armed, Current, Board!OnBoard
  <2> QED BY <1>1, <1>12, <2>1, <2>3, <2>4, UnstagedKeeps DEF BoardInv, Covered, Undisturbed
<1> QED BY <1>6, <1>8, <1>9, <1>10, <1>11, <1>12 DEF BoardInv

LEMMA RestoreKeeps ==
    ASSUME BoardInv, Board!Restore
    PROVE  BoardInv'
<1>1. /\ cyc # None /\ cyc.at = "prune" /\ cyc.write = None
      /\ UNCHANGED <<forge, shadow, obs, conv, hand, owed, failed, again, drags, prunes,
                     troubles>>
  BY DEF Board!Restore, Board!Idle, Board!At, Board!history, Board!bounds
<1>2. PICK o \in cyc.stale :
        /\ o.item = Board!I
        /\ cyc' = [cyc EXCEPT !.stale = @ \ {o}, !.write = Board!Write(Board!Restored(Board!I),
             o.id)]
  BY DEF Board!Restore
<1>3. /\ Typed /\ Fitting(cyc) /\ Board!I \in Board!Item /\ board \in [Board!Item -> Entry]
      /\ o \in Board!Observations
  <2>1. Typed /\ board \in [Board!Item -> Entry]
    BY DEF BoardInv, Typed, Board!TypeOK, Entry
  <2> QED BY <1>1, <2>1, CycleFits, CycleFields DEF Board!I
<1>4. /\ board' \in [Board!Item -> Entry]
      /\ \A k \in Board!Item \ {Board!I} : board'[k] = board[k]
      /\ flow' \subseteq flow \cup {Board!I} /\ board'[Board!I].status # "gone"
      /\ board[Board!I].id \in Nat /\ board'[Board!I].id \in Nat
      /\ \/ board' = board /\ Board!OnBoard(Board!I)
         \/ ~Board!OnBoard(Board!I) /\ board'[Board!I].status = "open" /\
              board'[Board!I].id = board[Board!I].id + 1
  <2>1. board[Board!I].id \in Nat
    BY <1>3 DEF Entry
  <2>2. CASE Board!OnBoard(Board!I)
    <3>1. board' = board /\ flow' = flow
      BY <2>2 DEF Board!Restore
    <3> QED BY <1>3, <2>1, <2>2, <3>1 DEF Board!OnBoard
  <2>3. CASE ~Board!OnBoard(Board!I)
    <3>1. board' = Board!Added(Board!I) /\ flow' = flow \cup {Board!I}
      BY <2>3 DEF Board!Restore
    <3>2. /\ board' \in [Board!Item -> Entry]
          /\ \A k \in Board!Item \ {Board!I} : board'[k] = board[k]
          /\ board'[Board!I].status = "open" /\ board'[Board!I].id = board[Board!I].id + 1
      BY <1>3, <3>1, AddedEffect
    <3> QED BY <2>1, <2>3, <3>1, <3>2
  <2> QED BY <2>2, <2>3
<1> DEFINE w == Board!Write(Board!Restored(Board!I), o.id)
<1>5. /\ w \in Board!Writes /\ w.status = Board!Restored(Board!I) /\ w.step = "set"
      /\ w.id = board'[Board!I].id
      /\ w.old = o.id /\ o.id \in Nat
  <2>1. Board!Restored(Board!I) \in Board!Live
    <3>1. conv[Board!I].status = "idle" => conv[Board!I].outcome \in Board!Terminal
      BY <1>3 DEF BoardInv, OutcomesAreKnown
    <3>2. shadow[Board!I] # None => shadow[Board!I] \in Board!Live
      BY <1>3 DEF Typed, Board!TypeOK
    <3> QED BY <3>1, <3>2
               DEF Board!Restored, Board!StatusOf, Board!Terminal, Board!Live, Board!Status
  <2>2. o.id \in Nat
    BY <1>3 DEF Board!Observations
  <2> QED BY <1>4, <2>1, <2>2 DEF Board!Write, Board!Writes, Board!Tries
<1> HIDE DEF w
<1>6. /\ Fitting(cyc') /\ cyc'.write = w /\ cyc'.at = "prune" /\ cyc'.item = cyc.item
      /\ cyc'.obs = cyc.obs /\ cyc'.stale = cyc.stale \ {o} /\ cyc'.fires = cyc.fires
  <2>1. cyc' = [cyc EXCEPT !.stale = cyc.stale \ {o}, !.write = w]
    BY <1>2, <1>3 DEF w, Fitting, Board!Cycles
  <2> QED BY <1>1, <1>3, <1>5, <2>1 DEF Fitting, Board!Cycles
<1>7. cyc' # None /\ cyc'.write # None
  <2>1. w # None
    BY <1>3, <1>5 DEF Typed, Assumed
  <2> QED BY <1>3, <1>6, <2>1, FittingIsSome
<1>8. Typed'
  <2>1. flow' \cup hand' \subseteq Board!Item
    BY <1>1, <1>3, <1>4 DEF Typed, Board!TypeOK
  <2> QED BY <1>1, <1>3, <1>4, <1>6, <2>1, TypedStep DEF Typed, Board!TypeOK
<1>9. /\ Board!Item' = Board!Item /\ Board!I' = Board!I /\ Setting' /\ Board!Writing'
      /\ ~Setting /\ ~Board!Writing /\ Board!Reachable'
  <2>1. /\ Board!Item' = Board!Item /\ Board!I' = Board!I /\ Setting' /\ Board!Writing'
        /\ ~Setting /\ ~Board!Writing
    BY <1>1, <1>5, <1>6, <1>7 DEF Board!Item, Board!I, Setting, Board!Writing
  <2> QED BY <1>4, <1>5, <1>6, <2>1 DEF Board!Reachable, Board!OnBoard
<1>10. BoardsFit'
  BY <1>1, <1>3, <1>4, <1>9 DEF BoardInv, Typed, Board!TypeOK, BoardsFit, Board!OnBoard
<1>11. CyclesFit' /\ OutcomesAreKnown'
  BY <1>1, <1>6, <1>9 DEF BoardInv, CyclesFit, OutcomesAreKnown
<1>12. WritesFit'
  BY <1>1, <1>5, <1>6, <1>9 DEF WritesFit, Expected, Board!StatusOf, Board!Restored
<1>13. IdsFit'
  <2>1. \A k \in Board!Item : board[k].id \in Nat /\ board'[k].id \in Nat /\
          board'[k].id >= board[k].id
    BY <1>3, <1>4 DEF Entry
  <2>2. \A p \in obs \cup cyc.obs : p.id \in Nat /\ p.item \in Board!Item /\
          p.id <= board[p.item].id
    BY <1>1, <1>3, CycleFields DEF BoardInv, Typed, Board!TypeOK, Board!Observations, IdsFit
  <2> QED BY <1>1, <1>3, <1>4, <1>5, <1>6, <1>9, <2>1, <2>2 DEF IdsFit
<1>14. Shown'
  <2>1. cyc'.write.step = "set"
    BY <1>5, <1>6
  <2> QED BY <1>1, <1>3, <1>4, <1>9, <2>1
             DEF BoardInv, Shown, Expected, Board!StatusOf, Board!OnBoard
<1>15. ASSUME Undisturbed' PROVE RestoresFit' /\ OneObservation' /\ Covered'
  <2>1. RestoresFit /\ OneObservation /\ Covered
    BY <1>1, <1>15 DEF BoardInv, Undisturbed
  <2>2. Board!At("prune") /\ Board!At("prune")' /\ Staged /\ Staged'
    BY <1>1, <1>6, <1>7 DEF Board!At, Staged
  <2>3. \A p : p.item \in Board!Item \ {Board!I} =>
          (Current(p)' <=> Current(p)) /\ (Armed(p)' <=> Armed(p))
    BY <1>4 DEF Current, Board!OnBoard, Armed
  <2>4. \A p \in obs \cup cyc.obs : p.item \in Board!Item /\ (Current(p) => Current(p)')
                                    /\ (p.item = Board!I => Current(p) \/ ~Current(p)')
                                    /\ (Armed(p)' => Armed(p))
    <3> SUFFICES ASSUME NEW p \in obs \cup cyc.obs
                 PROVE  /\ p.item \in Board!Item /\ (Current(p) => Current(p)')
                        /\ p.item = Board!I => Current(p) \/ ~Current(p)'
                        /\ Armed(p)' => Armed(p)
      OBVIOUS
    <3>1. p.item \in Board!Item /\ p.id \in Nat /\ p.id <= board[p.item].id
      BY <1>1, <1>3, CycleFields
         DEF BoardInv, Typed, Board!TypeOK, Board!Observations, IdsFit
    <3>2. CASE p.item # Board!I
      BY <2>3, <3>1, <3>2
    <3>3. CASE p.item = Board!I
      BY <1>4, <3>1, <3>3 DEF Current, Board!OnBoard, Armed
    <3> QED BY <3>1, <3>2, <3>3
  <2>5. o \in obs /\ ~Current(o) /\ cyc.stale \subseteq obs
        /\ \A p \in cyc.stale : Board!I <= p.item /\ ~Current(p)
    BY <2>1, <2>2 DEF RestoresFit
  <2>6. \A p \in cyc.stale \ {o} : p.item # Board!I
    BY <1>2, <2>1, <2>5 DEF OneObservation, OneEach
  <2>7. RestoresFit'
    <3>1. cyc'.stale \subseteq obs'
      BY <1>1, <1>6, <2>5
    <3>2. \A p \in cyc'.stale : Board!I' <= p.item /\ ~Current(p)' /\ p.item # Board!I'
      BY <1>6, <1>9, <2>3, <2>4, <2>5, <2>6
    <3>3. \E p \in obs' : p.item = Board!I' /\ p.id = cyc'.write.old /\ ~Current(p)'
      BY <1>1, <1>2, <1>5, <1>6, <1>9, <2>4, <2>5
    <3> QED BY <1>9, <3>1, <3>2, <3>3 DEF RestoresFit
  <2>8. \A p : Replaced(p) => Replaced(p)'
    <3> SUFFICES ASSUME NEW p, Replaced(p) PROVE Replaced(p)'
      OBVIOUS
    <3>1. p \in cyc.stale
      BY <1>9 DEF Replaced
    <3>2. CASE p = o
      BY <1>2, <1>5, <1>6, <1>9, <2>2, <3>2 DEF Replaced
    <3>3. CASE p # o
      BY <1>6, <2>2, <3>1, <3>3 DEF Replaced
    <3> QED BY <3>2, <3>3
  <2>9. \A k : Board!Restoring(k)' => Board!Restoring(k)
    BY <1>2, <1>6, <1>9, <2>2 DEF Board!Restoring
  <2>10. OneObservation'
    BY <1>1, <1>6, <2>1, <2>2, <2>4, <2>8, <2>9 DEF OneObservation, OneEach
  <2>11. \A k : Pledged(k)' = Pledged(k)
    BY <1>6, <2>2 DEF Pledged
  <2>12. Covered'
    <3>1. \A k \in Board!Item' : owed'[k] >= Pledged(k)'
      BY <1>1, <1>9, <2>1, <2>11 DEF Covered
    <3>2. \A p \in obs' : Armed(p)' => owed'[p.item] >= 1
      BY <1>1, <2>1, <2>4 DEF Covered
    <3>3. \A p \in cyc'.obs : Armed(p)' => owed'[p.item] - Pledged(p.item)' >= 1
      BY <1>1, <1>6, <1>9, <2>1, <2>2, <2>4, <2>11 DEF Covered
    <3> QED BY <1>5, <1>6, <3>1, <3>2, <3>3 DEF Covered
  <2> QED BY <2>7, <2>10, <2>12
<1> QED BY <1>8, <1>10, <1>11, <1>12, <1>13, <1>14, <1>15 DEF BoardInv

\* What may fire is armed.
LEMMA DueIsArmed ==
    ASSUME Typed, NEW i \in Board!Item, Board!OnBoard(i), NEW o \in Board!Known(i),
           Board!Transition(o) \/ Board!Due(o)
    PROVE  Armed(o)
<1>1. o.item = i /\ o.id = board[i].id
  BY DEF Board!Known
<1>2. "ready" \notin Board!DispatchFrom
  BY DEF Board!DispatchFrom
<1>3. board[o.item].status = "ready" /\ (o.status # "ready" \/ o.deferred)
  BY <1>2 DEF Board!Transition, Board!Due
<1> QED BY <1>1, <1>3 DEF Armed, Current

\* What the comparison keeps of the old observations, and sees anew.
LEMMA SeenEffect ==
    ASSUME Typed, cyc # None, NEW i \in Board!Item, Board!OnBoard(i),
           NEW o \in Board!Seen(i)
    PROVE  /\ o \in Board!Observations /\ o.item = i
           /\ \/ o \in cyc.obs /\ o.id # board[i].id
              \/ o = Board!Observation(i, board[i].status, \E p \in Board!Known(i) :
                   Board!Defers(p))
                 /\ o.id = board[i].id /\ o.status = board[i].status
                 /\ (o.deferred => \E p \in Board!Known(i) : Board!Defers(p))
<1>1. CASE o \in cyc.obs /\ o.item = i /\ o.id # board[i].id
  BY <1>1, CycleFields
<1>2. CASE ~(o \in cyc.obs /\ o.item = i /\ o.id # board[i].id)
  <2> DEFINE d == \E p \in Board!Known(i) : Board!Defers(p)
  <2>1. o = Board!Observation(i, board[i].status, d) /\ d \in BOOLEAN
    BY <1>2 DEF Board!Seen
  <2> HIDE DEF d
  <2>2. /\ board[i].status \in Board!Live /\ board[i].id \in Nat /\ board[i].ver \in Nat
        /\ i \in Nat
    BY ItemsAreNumbers DEF Typed, Board!TypeOK, Board!OnBoard, Board!Live
  <2>3. /\ o \in Board!Observations /\ o.item = i /\ o.id = board[i].id
        /\ o.status = board[i].status
        /\ o.deferred = d
    BY <2>1, <2>2 DEF Board!Observation, Board!Observations
  <2>4. /\ o \in Board!Observations /\ o.item = i
        /\ o = Board!Observation(i, board[i].status, d)
        /\ o.id = board[i].id /\ o.status = board[i].status /\ (o.deferred => d)
    BY <2>1, <2>3
  <2> QED BY <2>4 DEF d
<1> QED BY <1>1, <1>2

LEMMA FetchKeeps ==
    ASSUME BoardInv, Board!Fetch
    PROVE  BoardInv'
<1> DEFINE seen == {o \in cyc.obs : o.item \notin Board!Now} \cup UNION {Board!Seen(i) :
             i \in Board!Now}
           old == {o \in cyc.obs : ~Board!OnBoard(o.item) \/ o.id # board[o.item].id}
           c == [cyc EXCEPT !.obs = seen, !.stale = old, !.fires = Board!Fires,
             !.changed = Board!Changed]
<1>1. /\ cyc # None /\ cyc.at = "fetch" /\ cyc.write = None
      /\ cyc' = IF forge = "github" THEN Board!ToPrune(c, 1) ELSE Board!Step(c, "commit", 1)
      /\ UNCHANGED <<forge, board, flow, shadow, obs, conv, hand, owed, failed, again,
                     drags, prunes, troubles>>
  BY DEF Board!Fetch, Board!Idle, Board!At, Board!boards, Board!history, Board!bounds
<1>2. Typed /\ Fitting(cyc) /\ cyc.obs = obs /\ Board!Now \subseteq Board!Item
  BY <1>1, CycleFits DEF BoardInv, CyclesFit, Board!Now
<1>3. \A o \in seen : o \in Board!Observations /\ o.item \in Board!Item
  <2> SUFFICES ASSUME NEW o \in seen PROVE o \in Board!Observations /\ o.item \in Board!Item
    OBVIOUS
  <2>1. CASE o \in cyc.obs
    BY <1>1, <1>2, <2>1, CycleFields
  <2>2. CASE o \notin cyc.obs
    <3>1. PICK i \in Board!Now : o \in Board!Seen(i)
      BY <2>2
    <3>2. i \in Board!Item /\ Board!OnBoard(i)
      BY <3>1 DEF Board!Now
    <3> QED BY <1>1, <1>2, <3>1, <3>2, SeenEffect
  <2> QED BY <2>1, <2>2
<1>4. old \subseteq Board!Observations /\ old \subseteq cyc.obs
  BY <1>1, <1>2, CycleFields
<1>5. /\ Fitting(c) /\ c.obs = seen /\ c.stale = old /\ c.fires = Board!Fires
      /\ c.at = "fetch"
      /\ c.item = cyc.item
  <2>1. Board!Fires \subseteq Board!Item /\ Board!Item \subseteq Nat
    BY <1>2, ItemsAreNumbers DEF Board!Fires, Board!Now
  <2>2. Board!Changed \subseteq Nat \X Nat
    BY <1>2, <2>1 DEF Board!Changed, Board!Now, Typed, Board!TypeOK
  <2>3. seen \subseteq Board!Observations
    BY <1>3
  <2> HIDE DEF seen, old
  <2> QED BY <1>1, <1>2, <1>3, <1>4, <2>1, <2>2, <2>3 DEF Fitting, Board!Cycles
<1> HIDE DEF c
<1>6. /\ Fitting(cyc') /\ cyc' # None /\ cyc'.write = None /\ cyc'.obs = seen
      /\ cyc'.stale = old
      /\ cyc'.fires = Board!Fires /\ cyc'.at \in {"prune", "shadow", "commit"}
      /\ forge = "github" => \A o \in old : cyc'.at = "prune" /\ cyc'.item <= o.item
      /\ forge # "github" => cyc'.at = "commit"
  <2> HIDE DEF seen, old
  <2>1. /\ SameBut(c, cyc') /\ cyc'.item \in Board!Item
        /\ cyc'.at \in {"prune", "shadow", "commit"}
        /\ forge = "github" => \A o \in old : cyc'.at = "prune" /\ cyc'.item <= o.item
        /\ forge # "github" => cyc'.at = "commit"
    <3>1. CASE forge = "github"
      <4>1. cyc' = Board!ToPrune(c, 1)
        BY <1>1, <3>1
      <4>2. LET d == Board!ToPrune(c, 1)
            IN  /\ GoesOn(c, d, conv) /\ d.at \in {"prune", "shadow", "commit"}
                /\ \A o \in c.stale : o.item \in 1..Items[forge] =>
                     d.at = "prune" /\ d.item <= o.item
        BY <1>2, <1>5, ToPruneEffect DEF Fitting
      <4>3. \A o \in old : o.item \in 1..Items[forge]
        BY <1>2, <1>4 DEF Fitting, Board!Item
      <4> QED BY <1>5, <3>1, <4>1, <4>2, <4>3 DEF GoesOn
    <3>2. CASE forge # "github"
      <4>1. cyc' = Board!Step(c, "commit", 1)
        BY <1>1, <3>2
      <4> QED BY <1>2, <1>5, <3>2, <4>1, StepEffect, ItemsAreNumbers DEF Fitting
    <3> QED BY <3>1, <3>2
  <2>2. Fitting(cyc')
    BY <1>5, <2>1 DEF SameBut, Fitting
  <2> QED BY <1>2, <1>5, <2>1, <2>2, FittingIsSome DEF SameBut
<1>7. Typed'
  BY <1>1, <1>2, <1>6, TypedStep DEF Typed, Board!TypeOK, Entry
<1>8. Board!Item' = Board!Item /\ ~Board!Writing /\ ~Board!Writing'
  BY <1>1, <1>6 DEF Board!Item, Board!Writing
<1>9. BoardsFit' /\ CyclesFit' /\ OutcomesAreKnown' /\ WritesFit'
  BY <1>1, <1>6, <1>8
     DEF BoardInv, BoardsFit, Board!OnBoard, CyclesFit, OutcomesAreKnown, WritesFit
<1>10. Shown'
  BY <1>1, <1>8 DEF BoardInv, Shown, Setting, Expected, Board!StatusOf, Board!OnBoard
\* An observation of the comparison is an old one, or of what is there now.
<1>11. \A o \in seen :
         \/ o \in obs /\ o \in old
         \/ /\ o.item \in Board!Now
            /\ o = Board!Observation(o.item, board[o.item].status,
                 \E p \in Board!Known(o.item) : Board!Defers(p))
            /\ Current(o) /\ o.status = board[o.item].status
            /\ o.deferred => \E p \in Board!Known(o.item) : Board!Defers(p)
  <2> SUFFICES ASSUME NEW o \in seen, ~(o \in obs /\ o \in old)
               PROVE  /\ o.item \in Board!Now
                      /\ o = Board!Observation(o.item, board[o.item].status,
                           \E p \in Board!Known(o.item) : Board!Defers(p))
                      /\ Current(o) /\ o.status = board[o.item].status
                      /\ o.deferred => \E p \in Board!Known(o.item) : Board!Defers(p)
    OBVIOUS
  <2>1. PICK i \in Board!Now : o \in Board!Seen(i)
    <3>1. ~(o \in cyc.obs /\ o.item \notin Board!Now)
      BY <1>2 DEF Board!Now, Fitting
    <3> QED BY <3>1
  <2>2. i \in Board!Item /\ Board!OnBoard(i)
    BY <2>1 DEF Board!Now
  <2>3. /\ o \in Board!Observations /\ o.item = i
        /\ \/ o \in cyc.obs /\ o.id # board[i].id
           \/ o = Board!Observation(i, board[i].status, \E p \in Board!Known(i) :
                Board!Defers(p))
              /\ o.id = board[i].id /\ o.status = board[i].status
              /\ (o.deferred => \E p \in Board!Known(i) : Board!Defers(p))
    BY <1>1, <1>2, <2>1, <2>2, SeenEffect
  <2>4. ~(o \in cyc.obs /\ o.id # board[i].id)
    BY <1>2, <2>3
  <2> QED BY <2>1, <2>2, <2>3, <2>4 DEF Current
<1> HIDE DEF seen
<1>12. IdsFit'
  <2>1. \A o \in seen : o.id <= board[o.item].id
    <3> SUFFICES ASSUME NEW o \in seen PROVE o.id <= board[o.item].id
      OBVIOUS
    <3>1. o.item \in Board!Item /\ board[o.item].id \in Nat
      BY <1>2, <1>3 DEF Typed, Board!TypeOK
    <3>2. CASE o \in obs
      BY <3>2 DEF BoardInv, IdsFit
    <3>3. CASE o \notin obs
      <4>1. Current(o)
        BY <1>11, <3>3
      <4> QED BY <3>1, <4>1 DEF Current
    <3> QED BY <3>2, <3>3
  <2> QED BY <1>1, <1>6, <1>8, <2>1 DEF BoardInv, IdsFit
<1>13. ASSUME Undisturbed' PROVE RestoresFit' /\ OneObservation' /\ Covered'
  <2>1. OneObservation /\ Covered
    BY <1>1, <1>13 DEF BoardInv, Undisturbed
  <2>2. Staged' /\ ~Staged
    BY <1>1, <1>6 DEF Staged
  <2>3. \A o : (Current(o)' <=> Current(o)) /\ (Armed(o)' <=> Armed(o))
    BY <1>1 DEF Armed, Current, Board!OnBoard
  <2>4. \A o \in old : o \in obs /\ ~Current(o)
    BY <1>2, <1>4 DEF Current
  <2>5. \A o \in old : cyc'.at = "prune" /\ cyc'.item <= o.item
    <3>1. CASE forge = "github"
      BY <1>6, <3>1
    <3>2. CASE forge # "github"
      <4>1. \A o \in obs : Board!OnBoard(o.item) /\ board[o.item].id = 0 /\ o.id \in Nat /\
              o.id <= 0
        BY <3>2 DEF BoardInv, Typed, Board!TypeOK, BoardsFit, IdsFit, Board!Observations
      <4>2. old = {}
        BY <1>2, <4>1
      <4> QED BY <4>2
    <3> QED BY <3>1, <3>2
  <2>6. \A o \in old : Replaced(o)'
    BY <1>6, <2>5 DEF Replaced, Board!At
  <2>7. RestoresFit'
    BY <1>1, <1>6, <1>8, <2>3, <2>4, <2>5 DEF RestoresFit, Board!I
  <2>8. OneObservation'
    <3>1. ASSUME NEW o \in seen, NEW p \in seen, o.item = p.item
          PROVE  o = p \/ Replaced(o)' \/ Replaced(p)'
      BY <1>11, <2>6, <3>1
    <3>2. \A o \in seen : Current(o)' \/ Replaced(o)'
      BY <1>11, <2>3, <2>6
    <3> QED BY <1>1, <1>6, <2>1, <3>1, <3>2 DEF OneObservation, OneEach
  <2>9. \A i \in Board!Item : /\ owed[i] \in Int /\ owed[i] >= 0
                              /\ Pledged(i)' = IF i \in Board!Fires THEN 1 ELSE 0
    BY <1>2, <1>6, <2>1, <2>2 DEF Pledged, Covered, Typed, Board!TypeOK
  <2>10. \A i \in Board!Now :
           (\E p \in Board!Known(i) : Board!Transition(p) \/ Board!Due(p)) => owed[i] >= 1
    <3> SUFFICES ASSUME NEW i \in Board!Now, NEW p \in Board!Known(i), Board!Transition(p) \/
                          Board!Due(p)
                 PROVE  owed[i] >= 1
      OBVIOUS
    <3>1. i \in Board!Item /\ Board!OnBoard(i) /\ p \in obs /\ p.item = i
      BY <1>2 DEF Board!Now, Board!Known
    <3>2. Armed(p)
      BY <1>2, <3>1, DueIsArmed
    <3> QED BY <2>1, <3>1, <3>2 DEF Covered
  <2>11. \A i \in Board!Item : owed[i] >= Pledged(i)'
    <3> SUFFICES ASSUME NEW i \in Board!Item, i \in Board!Fires PROVE owed[i] >= 1
      BY <2>9
    <3> QED BY <2>10 DEF Board!Fires
  <2>12. \A o \in seen : Armed(o) => owed[o.item] - Pledged(o.item)' >= 1
    <3> SUFFICES ASSUME NEW o \in seen, Armed(o) PROVE owed[o.item] - Pledged(o.item)' >= 1
      OBVIOUS
    <3>1. o.item \in Board!Now /\ o.status = board[o.item].status
          /\ (o.deferred => \E p \in Board!Known(o.item) : Board!Defers(p))
      BY <1>11, <2>4 DEF Armed
    <3>2. PICK p \in Board!Known(o.item) : Board!Defers(p)
      BY <3>1 DEF Armed
    <3>3. Board!Blocked(o.item) /\ (Board!Transition(p) \/ Board!Due(p))
      BY <3>2 DEF Board!Defers, Board!Known
    <3>4. o.item \notin Board!Fires
      BY <3>3 DEF Board!Fires
    <3> QED BY <1>2, <2>9, <2>10, <3>1, <3>2, <3>3, <3>4
  <2>13. Covered'
    <3>1. \A o \in obs' : Armed(o)' => owed'[o.item] >= 1
      BY <1>1, <2>1, <2>3 DEF Covered
    <3> QED BY <1>1, <1>6, <1>8, <2>3, <2>11, <2>12, <3>1 DEF Covered
  <2> QED BY <2>7, <2>8, <2>13
<1> QED BY <1>7, <1>9, <1>10, <1>12, <1>13 DEF BoardInv

-----------------------------------------------------------------------------

LEMMA BoardInitially == Assumed /\ Board!Init => BoardInv
<1> SUFFICES ASSUME Assumed, Board!Init PROVE BoardInv
  OBVIOUS
<1>1. /\ forge \in {"vault", "github"}
      /\ board = [i \in Board!Item |-> [status |-> "open", ver |-> 0, id |-> 0]]
      /\ flow = {} /\ shadow = [i \in Board!Item |-> None] /\ obs = {} /\ cyc = None
      /\ conv = [i \in Board!Item |-> [status |-> "absent", pending |-> 0, outcome |-> None]]
      /\ hand = {} /\ owed = [i \in Board!Item |-> 0] /\ failed = FALSE /\ again = FALSE
      /\ drags = 0 /\ prunes = 0 /\ troubles = 0
  BY DEF Board!Init
<1>2. \A i \in Board!Item : /\ board[i] = [status |-> "open", ver |-> 0, id |-> 0]
                            /\ conv[i] = [status |-> "absent", pending |-> 0, outcome |-> None]
                            /\ owed[i] = 0
  BY <1>1
<1>3. Typed
  <2>1. board \in [Board!Item -> [status : Board!Status, ver : Nat, id : Nat]]
    BY <1>1 DEF Board!Status
  <2>2. conv \in [Board!Item -> Board!Conversations]
    BY <1>1 DEF Board!Conversations
  <2>3. {failed, again} \subseteq BOOLEAN
    BY <1>1
  <2>4. {drags, prunes, troubles} \subseteq Nat
    BY <1>1
  <2> QED BY <1>1, <2>1, <2>2, <2>3, <2>4 DEF Typed, Board!TypeOK
<1>4. ~Board!Writing /\ ~Staged /\ ~Board!At("prune")
  BY <1>1 DEF Board!Writing, Staged, Board!At
<1>5. BoardsFit
  BY <1>1, <1>2 DEF BoardsFit, Board!OnBoard
<1>6. CyclesFit /\ OutcomesAreKnown /\ WritesFit /\ IdsFit
  BY <1>1, <1>2, <1>4 DEF CyclesFit, OutcomesAreKnown, WritesFit, IdsFit
<1>7. Shown
  BY <1>2, <1>4 DEF Shown, Setting
<1>8. RestoresFit /\ OneObservation /\ Covered
  BY <1>1, <1>2, <1>4 DEF RestoresFit, OneObservation, OneEach, Covered, Pledged
<1> QED BY <1>3, <1>5, <1>6, <1>7, <1>8 DEF BoardInv

LEMMA BoardPreservation == BoardInv /\ [Board!Next]_(Board!vars) => BoardInv'
<1> SUFFICES ASSUME BoardInv, [Board!Next]_(Board!vars) PROVE BoardInv'
  OBVIOUS
<1>1. CASE Board!Cycle
  <2>1. ASSUME Board!Writing /\ ~Board!Reachable /\ Board!WriteFails PROVE BoardInv'
    BY <2>1, WriteFailsKeeps
  <2> QED BY <1>1, <2>1, StartCycleKeeps, CollectKeeps, FetchKeeps, RestoreKeeps,
             MirrorKeeps, SetLabelKeeps, SaveKeeps, LaunchKeeps, NotLaunchedKeeps, SetKeeps,
             ConfirmKeeps, EndCycleKeeps DEF Board!Cycle
<1>2. CASE Board!Abandon \/ Board!WriteFails \/ Board!LabelFails \/ Board!Unprepared
  BY <1>2, CycleDiesKeeps, WriteFailsKeeps, SetLabelKeeps, UnpreparedKeeps
<1>3. ASSUME NEW i \in Board!Item, Board!Drag(i) \/ Board!Prune(i) \/ Board!PutBack(i) \/
               Board!Workflow(i) \/ Board!RunEnds(i)
      PROVE  BoardInv'
  BY <1>3, DragKeeps, PruneKeeps, PutBackKeeps, WorkflowKeeps, RunEndsKeeps
<1>4. CASE UNCHANGED Board!vars
  <2>1. /\ UNCHANGED <<forge, board, flow, shadow, obs, conv, cyc, hand, owed, failed,
                       again, drags, prunes, troubles>>
    BY <1>4 DEF Board!vars, Board!boards, Board!history, Board!bounds
  <2>2. Board!Item' = Board!Item
    BY <2>1 DEF Board!Item
  <2>3. Typed'
    BY <2>1, <2>2, AssumedStays DEF BoardInv, Typed, Board!TypeOK
  <2> QED BY <2>1, <2>2, <2>3
             DEF BoardInv, BoardsFit, CyclesFit, OutcomesAreKnown, WritesFit, Shown, IdsFit,
                 Undisturbed, RestoresFit, OneObservation, Covered, OneEach, Staged,
                 Board!Restoring, Replaced, Pledged, Armed, Current, Board!At,
                 Board!Writing, Setting, Board!Reachable, Board!Stuck, Expected,
                 Board!StatusOf, Board!OnBoard, Board!I
<1> QED BY <1>1, <1>2, <1>3, <1>4 DEF Board!Next

\* The poller keeps the invariant, on either forge, with any items, blockers
\* and bounds.
THEOREM BoardInvariance == ASSUME Assumed PROVE Board!Spec => []BoardInv
<1>1. Board!Init => BoardInv
  BY BoardInitially
<1>2. BoardInv /\ [Board!Next]_(Board!vars) => BoardInv'
  BY BoardPreservation
<1> QED BY <1>1, <1>2, PTL DEF Board!Spec

\* Every value stays in the set it is declared with.
THEOREM BoardTypes == ASSUME Assumed PROVE Board!Spec => []Board!TypeOK
<1>1. BoardInv => Board!TypeOK
  BY DEF BoardInv, Typed
<1> QED BY <1>1, BoardInvariance, PTL

\* Between cycles the board shows how the last run of every item ended that is on
\* it and that nobody moved since, unless a write failed or was cut short.
THEOREM OutcomesShown == ASSUME Assumed PROVE Board!Spec => []Board!OutcomeIsShown
<1>1. BoardInv => Board!OutcomeIsShown
  BY DEF BoardInv, Shown, Setting, Board!Writing, Expected, Board!StatusOf,
     Board!OutcomeIsShown
<1> QED BY <1>1, BoardInvariance, PTL

\* No item is dispatched more often than people dragged it into the trigger
\* status, however many cycles die, unless a write of the watcher failed or an item
\* was taken off again in the cycle that puts it back.
THEOREM NothingUnasked == ASSUME Assumed PROVE Board!Spec => []Board!DispatchesWereAsked
<1>1. BoardInv => Board!DispatchesWereAsked
  <2> SUFFICES ASSUME BoardInv, ~failed, ~again, NEW i \in Board!Item PROVE owed[i] >= 0
    BY DEF Board!DispatchesWereAsked
  <2>1. Covered /\ owed[i] \in Int
    BY DEF BoardInv, Undisturbed, Typed, Board!TypeOK
  <2> QED BY <2>1 DEF Covered, Pledged
<1> QED BY <1>1, BoardInvariance, PTL

====
