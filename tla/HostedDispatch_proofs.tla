----------------------- MODULE HostedDispatch_proofs -----------------------
(***************************************************************************)
(* What the controller's poller keeps, for any number of issues,           *)
(* workspaces, comments, labels and troubles, and any size of a page.      *)
(***************************************************************************)
EXTENDS HostedDispatch, FiniteSetTheorems, SequenceTheorems, WellFoundedInduction, TLAPS

-----------------------------------------------------------------------------
(* The inductive invariant *)

Deciding == {"decide", "reject", "park", "upsert", "record", "clear"}

\* The cycle still has its comments to handle.
Going == pc \in {"labels", "comments"} \/ candidate.from \in {"labels", "comments"}

\* There is a candidate while one is decided on, and what is decided fits it.
CandidateFits ==
    /\ candidate.from # "none" <=> pc \in Deciding
    /\ candidate.from = "labels" => candidate.key.kind = "label" /\ candidate.messages = <<>>
    /\ candidate.from = "comments" =>
         LET c == candidate.key.id IN
         /\ c \in 1..Comments /\ IssueOf[c] = candidate.issue
         /\ candidate.key = CommentKey(c) /\ candidate.messages = <<c>>
    /\ pc \in {"reject", "park", "upsert", "record"} => ~Consumed(candidate.key)
    /\ pc = "clear" => candidate.from = "drain"
    /\ pc = "park" => candidate.key.kind = "comment"
    /\ pc \in {"upsert", "record"} =>
         candidate.owner \in Workspace /\ CurrentState(candidate.issue) # "active"
    /\ pc = "record" => conversations[candidate.issue].workspace = candidate.owner

\* What is to be handled lies between the cursor and where it will be moved.
CursorFits ==
    /\ cursor <= posted
    /\ pc = "adopt" => ~bootstrapped
    /\ pc = "adopt" \/ Going => cursor <= cycle.next /\ cycle.next <= posted
    /\ cycle.comments \subseteq (cursor + 1)..cycle.next
    /\ cycle.comments # {} => cycle.halted = 0 /\ (pc = "adopt" \/ Going)
    /\ candidate.from \in {"labels", "comments"} => cycle.halted = 0
    /\ candidate.from = "comments" =>
         /\ cursor < candidate.key.id /\ candidate.key.id <= cycle.next
         /\ \A c \in cycle.comments : candidate.key.id < c
    /\ cycle.halted # 0 /\ Going =>
         cursor < cycle.halted /\ cycle.halted <= cycle.next /\ pc = "comments"

\* What is to be drained is what is queued.
DrainsFit ==
    /\ \A row \in cycle.drains :
         /\ pc = "drain" \/ candidate.from = "drain"
         /\ row[2] # <<>> /\ row[2] = conversations[row[1]].pending
         /\ candidate.from = "drain" => candidate.issue # row[1]
    /\ candidate.from = "drain" =>
         LET queue == conversations[candidate.issue].pending IN
         /\ queue # <<>>
         /\ candidate.key = DrainKey(queue) /\ candidate.count = Len(queue)
         /\ candidate.messages = Messages(queue)

\* The current job of a conversation is one of its own.
CurrentIsOwn ==
    \A i \in Issue : conversations[i].current # 0 =>
        /\ conversations[i].current \in DOMAIN jobs
        /\ jobs[conversations[i].current].issue = i

\* What no cycle handles any more.
Bygone(c) == c <= cursor \/ Consumed(CommentKey(c)) \/ c <= posted - PageSize

InHand(c) ==
    c \in cycle.comments \/ (candidate.from = "comments" /\ candidate.key.id = c)

\* No mention falls between what was handled and what is still to be handled.
NothingIsPassedOver ==
    Going => \A c \in 1..cycle.next \ Plain :
        (cycle.halted # 0 => c < cycle.halted) => Bygone(c) \/ InHand(c)

\* What the cycle before this one, or this one, has handled when it ends.
Reached(c) ==
    \/ c <= cursor
    \/ Going /\ c <= cycle.next /\ (cycle.halted # 0 => c < cycle.halted)

Queued == UNION {{conversations[i].pending[p].key : p \in DOMAIN conversations[i].pending}
                    : i \in Issue}

\* What is queued is a comment that was handled, and so were those before it.
QueueIsHandled ==
    \A key \in Queued :
        /\ key.kind = "comment" /\ key.id \in 1..Comments /\ Receipted(CommentKey(key.id))
        /\ Plain = {} => \A c \in 1..key.id : Bygone(c)
        /\ aborts = 0 => Reached(key.id)
        /\ Plain = {} \/ aborts = 0 =>
             \A c \in 1..Comments : InHand(c) => Consumed(CommentKey(c)) \/ key.id < c

Undisturbed == aborts = 0 /\ cleanups = 0

\* Undisturbed, whoever is drained has no run, and will have none but the drain's.
DrainsAreFree ==
    Undisturbed =>
        /\ cleaning = {}
        /\ \A i \in Issue : conversations[i].status # "cleaning"
        /\ \A row \in cycle.drains : ~Busy(row[1])
        /\ candidate.from = "drain" /\ pc # "clear" => ~Busy(candidate.issue)
        /\ pc = "park" => candidate.from = "comments"

\* Undisturbed, an entry is one comment of the issue, and is queued once.
EntriesAreComments ==
    Undisturbed => \A i \in Issue : LET queue == conversations[i].pending IN
        /\ \A p \in DOMAIN queue : LET c == queue[p].key.id IN
             queue[p].key = CommentKey(c) /\ queue[p].messages = <<c>> /\ IssueOf[c] = i
        /\ \A p, q \in DOMAIN queue : queue[p].key = queue[q].key => p = q

\* Undisturbed, what was handed over is consumed, is no longer queued except
\* while the queue is about to be cleared, and was handed over once.
HandedOver ==
    Undisturbed => \A n \in DOMAIN jobs : \A k \in DOMAIN jobs[n].messages :
        LET c == jobs[n].messages[k] IN
        /\ Receipted(CommentKey(c))
        /\ CommentKey(c) \in Queued => pc = "clear" /\ IssueOf[c] = candidate.issue
        /\ \A m \in DOMAIN jobs : \A j \in DOMAIN jobs[m].messages :
             jobs[m].messages[j] = c => m = n /\ j = k

IInv ==
    /\ TypeOK
    /\ CandidateFits
    /\ CursorFits
    /\ DrainsFit
    /\ CurrentIsOwn
    /\ OneActiveJob
    /\ FatesAgree
    /\ NothingIsPassedOver
    /\ QueueIsHandled
    /\ QueueInOrder
    /\ DrainsAreFree
    /\ EntriesAreComments
    /\ HandedOver

-----------------------------------------------------------------------------
(* Sequences *)

LEMMA LeastNumber ==
    ASSUME NEW S \in SUBSET Nat, S # {}
    PROVE  \E i \in S : \A k \in S : i <= k
<1> DEFINE R == OpToRel(<, Nat)
<1>1. \A m, n \in Nat : m < n => <<m, n>> \in R
  BY SMT DEF OpToRel
<1>2. IsWellFoundedOn(R, Nat)
  BY NatLessThanWellFounded
<1> HIDE DEF R
<1>3. \E i \in S : \A k \in S : ~(<<k, i>> \in R)
  BY <1>2, WFMin, Zenon
<1>4. ASSUME NEW i \in S, NEW k \in S, ~(<<k, i>> \in R) PROVE i <= k
  <2>1. ~(k < i)
    BY <1>1, <1>4
  <2> QED BY <2>1
<1> QED BY <1>3, <1>4

\* A set of numbers that holds 1 and, with every number below n, the next one,
\* holds 1..n.
LEMMA UpTo ==
    ASSUME NEW n \in Nat \ {0}, NEW T, 1 \in T,
           \A k \in 1..n : k + 1 <= n /\ k \in T => k + 1 \in T
    PROVE  n \in T
<1> DEFINE Missing == {k \in 1..n : k \notin T}
<1> SUFFICES ASSUME n \notin T PROVE FALSE
    OBVIOUS
<1>1. Missing \in SUBSET Nat /\ Missing # {}
  OBVIOUS
<1>2. PICK k \in Missing : \A j \in Missing : k <= j
  <2> HIDE DEF Missing
  <2> QED BY <1>1, LeastNumber
<1>3. k # 1 /\ k \in 1..n /\ k \notin T
  BY <1>2
<1>4. k - 1 \in 1..n /\ k - 1 \notin Missing
  BY <1>2, <1>3
<1> QED BY <1>3, <1>4

\* A function that joins one sequence after the other.
Joins(f, s, n, S) ==
    /\ f \in [1..n -> Seq(S)] /\ f[1] = s[1]
    /\ \A k \in 1..n : k # 1 => f[k] = f[k - 1] \o s[k]

LEMMA JoinNext ==
    ASSUME NEW S, NEW N \in Nat \ {0}, NEW s \in [1..N -> Seq(S)], NEW n \in 1..N, n + 1 <= N,
           NEW f, Joins(f, s, n, S)
    PROVE  \E g : Joins(g, s, n + 1, S)
<1> DEFINE e == f[n] \o s[n + 1]
           g == [k \in 1..(n + 1) |-> IF k <= n THEN f[k] ELSE e]
<1>1. f \in [1..n -> Seq(S)] /\ n \in 1..n /\ n + 1 \in 1..N
  BY DEF Joins
<1>2. e \in Seq(S)
  BY <1>1
<1> HIDE DEF e
<1>3. g \in [1..(n + 1) -> Seq(S)]
  BY <1>1, <1>2
<1>4. g[1] = s[1]
  BY <1>1 DEF Joins
<1>5. ASSUME NEW k \in 1..(n + 1), k # 1 PROVE g[k] = g[k - 1] \o s[k]
  <2>1. CASE k = n + 1
    <3>1. g[k] = e /\ g[k - 1] = f[n]
      BY <1>1, <2>1
    <3> QED BY <2>1, <3>1 DEF e
  <2>2. CASE k # n + 1
    <3>1. k \in 1..n /\ k - 1 \in 1..n
      BY <1>5, <2>2
    <3>2. g[k] = f[k] /\ g[k - 1] = f[k - 1]
      BY <3>1
    <3> QED BY <1>5, <3>1, <3>2 DEF Joins
  <2> QED BY <2>1, <2>2
<1>6. Joins(g, s, n + 1, S)
  BY <1>3, <1>4, <1>5 DEF Joins
<1> QED BY <1>6

LEMMA JoinAll ==
    ASSUME NEW S, NEW N \in Nat \ {0}, NEW s \in [1..N -> Seq(S)]
    PROVE  \E f : Joins(f, s, N, S)
<1> DEFINE T == {n \in 1..N : \E f : Joins(f, s, n, S)}
<1>1. 1 \in T
  <2>1. Joins([k \in 1..1 |-> s[1]], s, 1, S)
    BY DEF Joins
  <2> QED BY <2>1
<1>2. ASSUME NEW n \in 1..N, n + 1 <= N, n \in T PROVE n + 1 \in T
  BY <1>2, JoinNext
<1> HIDE DEF T
<1>3. N \in T
  BY <1>1, <1>2, UpTo
<1> QED BY <1>3 DEF T

\* FlattenSeq joins one sequence after the other.
LEMMA FlattenSteps ==
    ASSUME NEW S, NEW s \in Seq(Seq(S)), s # <<>>
    PROVE  \E f : Joins(f, s, Len(s), S) /\ FlattenSeq(s) = f[Len(s)]
<1> DEFINE N == Len(s)
           F == CHOOSE h : h = [k \in 1..N |-> IF k = 1 THEN s[k] ELSE h[k - 1] \o s[k]]
<1>1. N \in Nat \ {0} /\ s \in [1..N -> Seq(S)]
  OBVIOUS
<1>2. FlattenSeq(s) = F[N]
  BY <1>1 DEF FlattenSeq
<1> HIDE DEF N
<1>3. PICK f : Joins(f, s, N, S)
  BY <1>1, JoinAll
<1>4. f = [k \in 1..N |-> IF k = 1 THEN s[k] ELSE f[k - 1] \o s[k]]
  BY <1>1, <1>3 DEF Joins
<1>5. F = [k \in 1..N |-> IF k = 1 THEN s[k] ELSE F[k - 1] \o s[k]]
  BY <1>4
<1> HIDE DEF F
<1> DEFINE T == {k \in 1..N : F[k] = f[k]}
<1>6. 1 \in T
  BY <1>1, <1>4, <1>5
<1>7. ASSUME NEW k \in 1..N, k + 1 <= N, k \in T PROVE k + 1 \in T
  <2>1. k + 1 \in 1..N /\ k + 1 # 1 /\ (k + 1) - 1 = k
    BY <1>1, <1>7
  <2>2. F[k + 1] = F[k] \o s[k + 1] /\ f[k + 1] = f[k] \o s[k + 1]
    BY <1>4, <1>5, <2>1
  <2> QED BY <1>7, <2>1, <2>2
<1>8. N \in T
  <2> HIDE DEF T
  <2> QED BY <1>1, <1>6, <1>7, UpTo
<1> QED BY <1>2, <1>3, <1>8 DEF N

LEMMA MessagesType ==
    ASSUME NEW entries \in Seq(Entry)
    PROVE  Messages(entries) \in Seq(1..Comments)
<1> DEFINE S == 1..Comments
           s == [n \in DOMAIN entries |-> entries[n].messages]
<1>1. \A n \in DOMAIN entries : entries[n].messages \in Seq(S)
  <2>1. \A n \in DOMAIN entries : entries[n] \in Entry
    OBVIOUS
  <2> QED BY <2>1 DEF Entry
<1> HIDE DEF S
<1>2. s \in Seq(Seq(S)) /\ Len(s) = Len(entries)
  BY <1>1
<1> HIDE DEF s
<1>3. FlattenSeq(s) \in Seq(S)
  <2>1. CASE s = <<>>
    BY <2>1 DEF FlattenSeq
  <2>2. CASE s # <<>>
    <3>1. PICK f : Joins(f, s, Len(s), S) /\ FlattenSeq(s) = f[Len(s)]
      BY <1>2, <2>2, FlattenSteps
    <3>2. Len(s) \in 1..Len(s)
      BY <1>2, <2>2
    <3> QED BY <3>1, <3>2 DEF Joins
  <2> QED BY <2>1, <2>2
<1> QED BY <1>3 DEF Messages, s, S

\* Entries of one comment each are joined to the sequence of their comments.
LEMMA MessagesOfComments ==
    ASSUME NEW entries \in Seq(Entry),
           \A p \in DOMAIN entries : entries[p].messages = <<entries[p].key.id>>
    PROVE  /\ DOMAIN Messages(entries) = DOMAIN entries
           /\ \A p \in DOMAIN entries : Messages(entries)[p] = entries[p].key.id
<1> DEFINE S == 1..Comments
           s == [n \in DOMAIN entries |-> entries[n].messages]
           N == Len(entries)
<1>1. /\ \A n \in DOMAIN entries : entries[n].messages \in Seq(S)
      /\ DOMAIN entries = 1..N /\ N \in Nat
  <2>1. \A n \in DOMAIN entries : entries[n] \in Entry
    OBVIOUS
  <2> QED BY <2>1 DEF Entry
<1> HIDE DEF S
<1>2. s \in Seq(Seq(S)) /\ Len(s) = N
  BY <1>1
<1>3. ASSUME NEW n \in 1..N
      PROVE  s[n] = <<entries[n].key.id>> /\ Len(s[n]) = 1 /\ s[n] \in Seq(S)
  <2>1. s[n] = <<entries[n].key.id>> /\ s[n] \in Seq(S)
    BY <1>1
  <2> QED BY <2>1
<1> HIDE DEF s, N
<1>4. CASE N = 0
  <2>1. s = <<>> /\ DOMAIN entries = {}
    BY <1>1, <1>2, <1>4
  <2>2. FlattenSeq(s) = <<>>
    BY <2>1 DEF FlattenSeq
  <2> QED BY <2>1, <2>2 DEF Messages, s
<1>5. CASE N # 0
  <2>1. PICK f : Joins(f, s, N, S) /\ FlattenSeq(s) = f[N]
    BY <1>2, <1>5, FlattenSteps
  <2> DEFINE T == {k \in 1..N : /\ Len(f[k]) = k
                                /\ \A p \in 1..k : f[k][p] = entries[p].key.id}
  <2>2. 1 \in T
    BY <1>1, <1>3, <1>5, <2>1 DEF Joins
  <2>3. ASSUME NEW k \in 1..N, k + 1 <= N, k \in T PROVE k + 1 \in T
    <3>1. k + 1 \in 1..N /\ k + 1 # 1 /\ (k + 1) - 1 = k
      BY <1>1, <2>3
    <3>2. f[k + 1] = f[k] \o s[k + 1] /\ f[k] \in Seq(S) /\ s[k + 1] \in Seq(S)
      BY <1>3, <2>1, <3>1 DEF Joins
    <3>3. Len(s[k + 1]) = 1 /\ s[k + 1][1] = entries[k + 1].key.id
      BY <1>3, <3>1
    <3>4. /\ Len(f[k + 1]) = k + 1
          /\ \A p \in 1..(k + 1) : f[k + 1][p] = IF p <= k THEN f[k][p] ELSE s[k + 1][p - k]
      <4> DEFINE a == f[k] b == s[k + 1]
      <4>1. a \in Seq(S) /\ b \in Seq(S) /\ f[k + 1] = a \o b /\ Len(a) = k /\ Len(b) = 1
            /\ k \in Nat
        BY <2>3, <3>2, <3>3
      <4> HIDE DEF a, b
      <4>2. /\ Len(a \o b) = k + 1
            /\ \A p \in 1..(k + 1) : (a \o b)[p] = IF p <= k THEN a[p] ELSE b[p - k]
        <5>1. /\ Len(a \o b) = Len(a) + Len(b)
              /\ \A p \in 1..(Len(a) + Len(b)) :
                   (a \o b)[p] = IF p <= Len(a) THEN a[p] ELSE b[p - Len(a)]
          BY <4>1, ConcatProperties
        <5> QED BY <4>1, <5>1
      <4> QED BY <4>1, <4>2 DEF a, b
    <3> QED BY <2>3, <3>1, <3>3, <3>4
  <2>4. N \in T
    <3> HIDE DEF T
    <3> QED BY <1>1, <1>5, <2>2, <2>3, UpTo
  <2>5. f[N] \in Seq(S) /\ Len(f[N]) = N /\ \A p \in 1..N : f[N][p] = entries[p].key.id
    BY <2>1, <2>4 DEF Joins
  <2>6. Messages(entries) = f[N]
    BY <2>1 DEF Messages, s
  <2> QED BY <1>1, <2>5, <2>6
<1> QED BY <1>4, <1>5

-----------------------------------------------------------------------------
(* What the operators of the dispatcher do *)

LEMMA ReceiptEffect ==
    ASSUME NEW key, NEW fate, receipts' = WithReceipt(key, fate)
    PROVE  /\ \A k : Receipted(k)' <=> Receipted(k) \/ k = key
           /\ \A k \in DOMAIN receipts' :
                receipts'[k] = IF Receipted(k) THEN receipts[k] ELSE fate
BY DEF WithReceipt, Receipted

LEMMA EventKeys ==
    ASSUME NEW n \in Nat
    PROVE  /\ CommentKey(n) \in EventKey /\ LabelKey(n) \in EventKey
           /\ CommentKey(n).id = n /\ CommentKey(n).kind = "comment"
           /\ CommentKey(n).drains = 0 /\ LabelKey(n).kind = "label"
BY DEF CommentKey, LabelKey, EventKey

LEMMA DrainKeyType ==
    ASSUME NEW queue \in Seq(Entry), queue # <<>>
    PROVE  /\ DrainKey(queue) \in EventKey
           /\ DrainKey(queue).kind = queue[Len(queue)].key.kind
           /\ DrainKey(queue).id = queue[Len(queue)].key.id
           /\ Len(queue) \in DOMAIN queue
<1>1. Len(queue) \in DOMAIN queue /\ queue[Len(queue)] \in Entry
  OBVIOUS
<1>2. queue[Len(queue)].key \in EventKey
  BY <1>1 DEF Entry
<1> QED BY <1>1, <1>2 DEF DrainKey, EventKey

LEMMA QueueType ==
    ASSUME TypeOK, NEW i \in Issue
    PROVE  /\ conversations[i] \in ConversationRow
           /\ conversations[i].pending \in Seq(Entry)
           /\ \A p \in DOMAIN conversations[i].pending :
                /\ conversations[i].pending[p] \in Entry
                /\ conversations[i].pending[p].key \in EventKey
                /\ conversations[i].pending[p].key.id \in Nat
<1>1. conversations[i] \in ConversationRow
  BY DEF TypeOK
<1>2. conversations[i].pending \in Seq(Entry)
  BY <1>1 DEF ConversationRow
<1>3. \A p \in DOMAIN conversations[i].pending : conversations[i].pending[p] \in Entry
  BY <1>2
<1> QED BY <1>1, <1>2, <1>3 DEF Entry, EventKey

LEMMA CandidateType ==
    ASSUME TypeOK, candidate.from # "none"
    PROVE  /\ candidate \in Candidates /\ candidate.key \in EventKey
           /\ candidate.key.id \in Nat /\ candidate.issue \in Issue
           /\ candidate.messages \in Seq(1..Comments)
           /\ candidate.count \in Nat /\ candidate.owner \in Workspace \cup {NoOne}
           /\ candidate.approved \in BOOLEAN
           /\ candidate.from \in {"labels", "comments", "drain"}
<1>1. candidate \in Candidates
  BY DEF TypeOK, NoCandidate
<1> QED BY <1>1 DEF Candidates, EventKey

LEMMA CycleType ==
    ASSUME TypeOK
    PROVE  /\ cycle.comments \subseteq 1..Comments /\ cycle.comments \subseteq Nat
           /\ cycle.labels \subseteq Issue \X (1..LabelEvents)
           /\ cycle.next \in 0..Comments /\ cycle.halted \in 0..Comments
           /\ cycle.next \in Nat /\ cycle.halted \in Nat
           /\ \A row \in cycle.drains :
                /\ row[1] \in Issue /\ row[2] \in Seq(Entry) /\ row = <<row[1], row[2]>>
           /\ cursor \in Nat /\ posted \in Nat
BY DEF TypeOK, Cycles

\* A queue that is cleared as far as it was listed is empty.
LEMMA ClearedEffect ==
    ASSUME TypeOK, NEW i \in Issue,
           conversations' = Cleared(i, Len(conversations[i].pending))
    PROVE  /\ conversations' \in [Issue -> ConversationRow]
           /\ conversations'[i] = [conversations[i] EXCEPT !.pending = <<>>]
           /\ conversations'[i].pending = <<>>
           /\ \A j \in Issue \ {i} : conversations'[j] = conversations[j]
           /\ \A j \in Issue : /\ conversations'[j].current = conversations[j].current
                               /\ conversations'[j].status = conversations[j].status
                               /\ conversations'[j].workspace = conversations[j].workspace
<1> DEFINE row == conversations[i]
           queue == row.pending
<1>1. row \in ConversationRow /\ queue \in Seq(Entry)
  BY QueueType
<1>2. SubSeq(queue, Len(queue) + 1, Len(queue)) = <<>>
  BY <1>1, SubSeqEmpty
<1>3. conversations' = [conversations EXCEPT ![i] = [row EXCEPT !.pending = <<>>]]
  BY <1>2 DEF Cleared
<1>4. [row EXCEPT !.pending = <<>>] \in ConversationRow
  <2>1. <<>> \in Seq(Entry)
    OBVIOUS
  <2> HIDE DEF row
  <2> QED BY <1>1, <2>1 DEF ConversationRow
<1>5. conversations \in [Issue -> ConversationRow]
  BY DEF TypeOK
<1>6. /\ [row EXCEPT !.pending = <<>>].current = row.current
      /\ [row EXCEPT !.pending = <<>>].status = row.status
      /\ [row EXCEPT !.pending = <<>>].workspace = row.workspace
      /\ [row EXCEPT !.pending = <<>>].pending = <<>>
  <2> HIDE DEF row
  <2> QED BY <1>1 DEF ConversationRow
<1>7. \A j \in Issue : conversations'[j] = IF j = i THEN [row EXCEPT !.pending = <<>>]
                                           ELSE conversations[j]
  BY <1>3, <1>5
<1> QED BY <1>3, <1>4, <1>5, <1>6, <1>7

\* Only the named fields of a conversation change.
LEMMA RowEffect ==
    ASSUME TypeOK, NEW i \in Issue,
           NEW status \in {"absent", "idle", "active", "finishing", "settled", "cleaning",
                           "cleanup-failed", "archived"},
           NEW workspace \in Workspace \cup {NoOne}, NEW current \in Nat,
           NEW pending \in Seq(Entry),
           conversations' = [conversations EXCEPT ![i] =
               [status |-> status, workspace |-> workspace, current |-> current,
                pending |-> pending]]
    PROVE  /\ conversations' \in [Issue -> ConversationRow]
           /\ \A j \in Issue \ {i} : conversations'[j] = conversations[j]
BY DEF TypeOK, ConversationRow

\* An event that was not consumed before gets the one fate it is given.
LEMMA FateAdded ==
    ASSUME FatesAgree, NEW key, NEW fate, fate \in {"adopted", "skipped", "parked"},
           receipts' = WithReceipt(key, fate), UNCHANGED <<jobs, notices>>
    PROVE  FatesAgree'
<1>1. /\ \A k : Receipted(k)' <=> Receipted(k) \/ k = key
      /\ \A k \in DOMAIN receipts' : receipts'[k] = IF Receipted(k) THEN receipts[k] ELSE fate
  BY ReceiptEffect
<1>2. \A k : HasJob(k)' <=> HasJob(k)
  BY DEF HasJob
<1>3. ~Receipted(key) => ~HasJob(key) /\ key \notin notices
  BY DEF FatesAgree, HasJob
<1> QED BY <1>1, <1>2, <1>3 DEF FatesAgree, Receipted

LEMMA QueueStays ==
    ASSUME QueueIsHandled, Queued' \subseteq Queued, aborts' = aborts,
           \A key : Receipted(key) => Receipted(key)',
           \A c \in 1..Comments : Bygone(c) => Bygone(c)',
           \A c \in 1..Comments : Consumed(CommentKey(c)) => Consumed(CommentKey(c))',
           aborts = 0 => \A c \in 1..Comments : Reached(c) => Reached(c)',
           \A c \in 1..Comments : InHand(c)' /\ ~InHand(c) /\ (Plain = {} \/ aborts = 0) =>
               \A key \in Queued : Consumed(CommentKey(c)) \/ key.id < c
    PROVE  QueueIsHandled'
BY DispatchAssumption DEF QueueIsHandled, DispatchAssumption

LEMMA ReceiptType ==
    ASSUME TypeOK, NEW key \in EventKey, NEW fate \in Fate, receipts' = WithReceipt(key, fate)
    PROVE  \A k \in DOMAIN receipts' : k \in EventKey /\ receipts'[k] \in Fate
<1>1. \A k \in DOMAIN receipts' : Receipted(k) \/ k = key
  BY ReceiptEffect DEF Receipted
<1>2. \A k \in DOMAIN receipts' : receipts'[k] = IF Receipted(k) THEN receipts[k] ELSE fate
  BY ReceiptEffect
<1> QED BY <1>1, <1>2 DEF TypeOK, Receipted

\* One comment, or one row to drain, is taken out of what the cycle holds.
LEMMA CommentTaken ==
    ASSUME TypeOK, NEW c \in cycle.comments, cycle' = [cycle EXCEPT !.comments = @ \ {c}]
    PROVE  /\ cycle' \in Cycles /\ cycle'.comments = cycle.comments \ {c}
           /\ cycle'.labels = cycle.labels /\ cycle'.next = cycle.next
           /\ cycle'.halted = cycle.halted /\ cycle'.drains = cycle.drains
BY DEF TypeOK, Cycles

LEMMA RowTaken ==
    ASSUME TypeOK, NEW row \in cycle.drains, cycle' = [cycle EXCEPT !.drains = @ \ {row}]
    PROVE  /\ cycle' \in Cycles /\ cycle'.drains = cycle.drains \ {row}
           /\ cycle'.labels = cycle.labels /\ cycle'.next = cycle.next
           /\ cycle'.halted = cycle.halted /\ cycle'.comments = cycle.comments
           /\ \A r \in cycle'.drains : r \in cycle.drains /\ r # row
<1> DEFINE rest == cycle.drains \ {row}
<1>1. cycle \in Cycles /\ rest \subseteq cycle.drains
  BY DEF TypeOK
<1>2. rest \in SUBSET (Issue \X Seq(Entry))
  BY <1>1 DEF Cycles
<1>3. cycle' = [cycle EXCEPT !.drains = rest] /\ \A r \in rest : r \in cycle.drains /\ r # row
  OBVIOUS
<1> HIDE DEF rest
<1>4. cycle' \in Cycles /\ cycle'.drains = rest
      /\ cycle'.labels = cycle.labels /\ cycle'.next = cycle.next
      /\ cycle'.halted = cycle.halted /\ cycle'.comments = cycle.comments
  BY <1>1, <1>2, <1>3 DEF Cycles
<1> QED BY <1>3, <1>4 DEF rest

LEMMA BoundsType ==
    ASSUME TypeOK
    PROVE  aborts \in Nat /\ outages \in Nat /\ reassigned \in Nat /\ cleanups \in Nat
BY DEF TypeOK

LEMMA QueueGrows ==
    ASSUME QueueIsHandled, NEW key0, Queued' = Queued \cup {key0}, aborts' = aborts,
           \A key : Receipted(key) => Receipted(key)',
           \A c \in 1..Comments : Bygone(c) => Bygone(c)',
           \A c \in 1..Comments : Consumed(CommentKey(c)) => Consumed(CommentKey(c))',
           \A c \in 1..Comments : Reached(c) => Reached(c)',
           \A c \in 1..Comments : InHand(c)' => InHand(c),
           key0.kind = "comment", key0.id \in 1..Comments, Receipted(CommentKey(key0.id))',
           Plain = {} => \A c \in 1..key0.id : Bygone(c)',
           aborts = 0 => Reached(key0.id)',
           Plain = {} \/ aborts = 0 =>
               \A c \in 1..Comments : InHand(c)' => Consumed(CommentKey(c)) \/ key0.id < c
    PROVE  QueueIsHandled'
BY DispatchAssumption DEF QueueIsHandled, DispatchAssumption

LEMMA JobType ==
    ASSUME TypeOK
    PROVE  /\ Len(jobs) \in Nat /\ DOMAIN jobs = 1..Len(jobs)
           /\ \A n \in DOMAIN jobs : /\ jobs[n] \in JobRow /\ jobs[n].issue \in Issue
                                     /\ jobs[n].messages \in Seq(1..Comments)
                                     /\ jobs[n].state \in {"active", "succeeded", "failed"}
                                     /\ jobs[n].workspace \in Workspace
                                     /\ jobs[n].key \in EventKey
<1>1. jobs \in Seq(JobRow)
  BY DEF TypeOK
<1>2. \A n \in DOMAIN jobs : jobs[n] \in JobRow
  BY <1>1
<1> QED BY <1>1, <1>2 DEF JobRow

-----------------------------------------------------------------------------
(* Every step keeps the invariant *)

\* What a part of the invariant does not mention may change.
LEMMA Untouched ==
    ASSUME IInv
    PROVE  /\ UNCHANGED <<receipts, jobs, conversations, pc, candidate>> => CandidateFits'
           /\ UNCHANGED <<posted, cursor, bootstrapped, pc, cycle, candidate>>
             => CursorFits'
           /\ UNCHANGED <<conversations, pc, cycle, candidate>> => DrainsFit'
           /\ UNCHANGED <<jobs, conversations>> => CurrentIsOwn'
           /\ UNCHANGED <<jobs, conversations>> => OneActiveJob'
           /\ UNCHANGED <<receipts, notices, jobs>> => FatesAgree'
           /\ UNCHANGED <<posted, cursor, receipts, jobs, pc, cycle, candidate>>
             => NothingIsPassedOver'
           /\ UNCHANGED <<posted, cursor, receipts, jobs, conversations, pc, cycle, candidate, aborts>>
             => QueueIsHandled'
           /\ UNCHANGED <<conversations, aborts>> => QueueInOrder'
           /\ UNCHANGED <<jobs, conversations, cleaning, pc, cycle, candidate, aborts, cleanups>>
             => DrainsAreFree'
           /\ UNCHANGED <<conversations, aborts, cleanups>> => EntriesAreComments'
           /\ UNCHANGED <<receipts, jobs, conversations, pc, candidate, aborts, cleanups>>
             => HandedOver'
<1>1. ASSUME UNCHANGED <<receipts, jobs, conversations, pc, candidate>> PROVE CandidateFits'
  BY <1>1 DEF IInv, CandidateFits, Consumed, CurrentState, Receipted, HasJob
<1>2. ASSUME UNCHANGED <<posted, cursor, bootstrapped, pc, cycle, candidate>>
      PROVE  CursorFits'
  BY <1>2 DEF IInv, CursorFits, Going
<1>3. ASSUME UNCHANGED <<conversations, pc, cycle, candidate>> PROVE DrainsFit'
  BY <1>3 DEF IInv, DrainsFit
<1>4. ASSUME UNCHANGED <<jobs, conversations>> PROVE CurrentIsOwn'
  BY <1>4 DEF IInv, CurrentIsOwn
<1>5. ASSUME UNCHANGED <<jobs, conversations>> PROVE OneActiveJob'
  BY <1>5 DEF IInv, OneActiveJob
<1>6. ASSUME UNCHANGED <<receipts, notices, jobs>> PROVE FatesAgree'
  BY <1>6 DEF IInv, FatesAgree, HasJob, Receipted
<1>7. ASSUME UNCHANGED <<posted, cursor, receipts, jobs, pc, cycle, candidate>>
      PROVE  NothingIsPassedOver'
  BY <1>7
  DEF IInv, NothingIsPassedOver, Going, Bygone, InHand, Consumed, Receipted, HasJob
<1>8. ASSUME UNCHANGED <<posted, cursor, receipts, jobs, conversations, pc, cycle, candidate, aborts>>
      PROVE  QueueIsHandled'
  <2>1. Queued' = Queued
    BY <1>8 DEF Queued
  <2>2. \A key : (Consumed(key)' <=> Consumed(key)) /\ (Receipted(key)' <=> Receipted(key))
    BY <1>8 DEF Consumed, Receipted, HasJob
  <2>3. \A c : (Bygone(c)' <=> Bygone(c)) /\ (InHand(c)' <=> InHand(c))
               /\ (Reached(c)' <=> Reached(c))
    BY <1>8, <2>2 DEF Bygone, InHand, Reached, Going
  <2> QED BY <1>8, <2>1, <2>2, <2>3 DEF IInv, QueueIsHandled, Going
<1>9. ASSUME UNCHANGED <<conversations, aborts>> PROVE QueueInOrder'
  BY <1>9 DEF IInv, QueueInOrder
<1>10. ASSUME UNCHANGED <<jobs, conversations, cleaning, pc, cycle, candidate, aborts, cleanups>>
       PROVE  DrainsAreFree'
  BY <1>10 DEF IInv, DrainsAreFree, Undisturbed, Busy, CurrentState
<1>11. ASSUME UNCHANGED <<conversations, aborts, cleanups>> PROVE EntriesAreComments'
  BY <1>11 DEF IInv, EntriesAreComments, Undisturbed
<1>12. ASSUME UNCHANGED <<receipts, jobs, conversations, pc, candidate, aborts, cleanups>>
       PROVE  HandedOver'
  BY <1>12 DEF IInv, HandedOver, Undisturbed, Receipted, Queued
<1> QED BY <1>1, <1>2, <1>3, <1>4, <1>5, <1>6, <1>7, <1>8, <1>9, <1>10, <1>11, <1>12

\* A cycle begins: what it fetched lies between the cursor and the newest comment.
LEMMA BeginCycleKeeps ==
    ASSUME IInv, BeginCycle
    PROVE  IInv'
<1>1. /\ TypeOK /\ CandidateFits /\ CursorFits /\ DrainsFit
      /\ CurrentIsOwn /\ OneActiveJob /\ FatesAgree /\ NothingIsPassedOver
      /\ QueueIsHandled /\ QueueInOrder /\ DrainsAreFree /\ EntriesAreComments
      /\ HandedOver
  BY DEF IInv
<1>2. /\ cycle' \in Cycles
      /\ cycle'.comments = {c \in 1..posted : c > cursor /\ c > posted - PageSize}
      /\ cycle'.next = posted /\ cycle'.halted = 0 /\ cycle'.drains = {}
      /\ pc' \in {"labels", "adopt"}
      /\ candidate.from = "none" /\ pc = "idle"
      /\ candidate' = candidate
  <2>1. LabelFires \in SUBSET (Issue \X (1..LabelEvents))
    BY <1>1 DEF LabelFires, TypeOK
  <2>2. FetchedComments \in SUBSET (1..Comments)
    BY <1>1, DispatchAssumption DEF FetchedComments, TypeOK
  <2>3. (IF posted > 0 THEN posted ELSE cursor) = posted /\ posted \in 0..Comments
    BY <1>1 DEF CursorFits, TypeOK
  <2>4. candidate.from = "none" /\ pc = "idle"
    BY <1>1 DEF BeginCycle, CandidateFits, Deciding
  <2> QED BY <2>1, <2>2, <2>3, <2>4, DispatchAssumption
          DEF BeginCycle, Cycles, FetchedComments, DispatchAssumption
<1>3. \A key : (Consumed(key)' <=> Consumed(key)) /\ (Receipted(key)' <=> Receipted(key))
  BY DEF BeginCycle, Consumed, Receipted, HasJob, database
<1>4. \A d \in 1..Comments : Bygone(d) => Bygone(d)'
  BY <1>3 DEF BeginCycle, Bygone, gitlab, database
<1>5. Queued' = Queued
  BY DEF BeginCycle, Queued, database
<1>6. \A j \in Issue : CurrentState(j)' = CurrentState(j) /\ (Busy(j)' <=> Busy(j))
  BY DEF BeginCycle, CurrentState, Busy, database
<1>7. CurrentIsOwn' /\ OneActiveJob' /\ FatesAgree' /\ QueueInOrder' /\ EntriesAreComments'
  BY Untouched DEF BeginCycle, database, bounds
<1>8. TypeOK'
  BY <1>1, <1>2 DEF BeginCycle, TypeOK, gitlab, database, bounds
<1>9. CandidateFits'
  BY <1>2 DEF CandidateFits, Deciding
<1>10. CursorFits'
  BY <1>1, <1>2, CycleType DEF BeginCycle, CursorFits, Going, gitlab, database
<1>11. DrainsFit'
  BY <1>2 DEF DrainsFit
<1>12. NothingIsPassedOver'
  <2>1. \A k \in 1..posted : k <= cursor \/ k <= posted - PageSize \/ k \in cycle'.comments
    BY <1>1, <1>2, CycleType, DispatchAssumption
  <2>2. posted' = posted /\ cursor' = cursor
    BY DEF BeginCycle, gitlab, database
  <2>3. \A k \in 1..posted : Bygone(k)' \/ InHand(k)'
    BY <2>1, <2>2 DEF Bygone, InHand
  <2> QED BY <1>2, <2>3 DEF NothingIsPassedOver
<1>13. QueueIsHandled'
  <2>1. ASSUME NEW key \in Queued, NEW d \in 1..Comments, InHand(d)', Plain = {} \/ aborts = 0
        PROVE  Consumed(CommentKey(d)) \/ key.id < d
    <3>1. d > cursor /\ ~(d <= posted - PageSize) /\ key.id \in 1..Comments /\ ~Going
      BY <1>1, <1>2, <2>1, CycleType, DispatchAssumption
      DEF InHand, QueueIsHandled, Going
    <3>2. CASE Plain = {}
      BY <1>1, <3>1, <3>2, CycleType DEF QueueIsHandled, Bygone
    <3>3. CASE aborts = 0
      BY <1>1, <3>1, <3>3, CycleType DEF QueueIsHandled, Reached
    <3> QED BY <2>1, <3>2, <3>3
  <2>2. \A c \in 1..Comments : Reached(c) => Reached(c)'
    BY <1>2 DEF Reached, Going, BeginCycle, database
  <2>3. aborts' = aborts
    BY DEF BeginCycle, bounds
  <2> QED BY <1>1, <1>3, <1>4, <1>5, <2>1, <2>2, <2>3, QueueStays
<1>14. DrainsAreFree'
  BY <1>1, <1>2 DEF BeginCycle, DrainsAreFree, Undisturbed, database, bounds
<1>15. HandedOver'
  BY <1>1, <1>3, <1>5 DEF BeginCycle, HandedOver, Undisturbed, database, bounds
<1> QED BY <1>7, <1>8, <1>9, <1>10, <1>11, <1>12, <1>13, <1>14, <1>15 DEF IInv

\* A label fire is adopted.
LEMMA AdoptLabelKeeps ==
    ASSUME IInv, NEW fire \in cycle.labels, AdoptLabel(fire)
    PROVE  IInv'
<1>1. /\ TypeOK /\ CandidateFits /\ CursorFits /\ DrainsFit
      /\ CurrentIsOwn /\ OneActiveJob /\ FatesAgree /\ NothingIsPassedOver
      /\ QueueIsHandled /\ QueueInOrder /\ DrainsAreFree /\ EntriesAreComments
      /\ HandedOver
  BY DEF IInv
<1>2. /\ cycle' \in Cycles /\ cycle'.comments = cycle.comments
      /\ cycle'.next = cycle.next /\ cycle'.halted = cycle.halted
      /\ cycle'.drains = cycle.drains
      /\ pc = "adopt" /\ pc' = pc /\ candidate.from = "none" /\ candidate' = candidate
      /\ cycle.drains = {}
  BY <1>1, CycleType, DispatchAssumption
  DEF AdoptLabel, TypeOK, Cycles, CandidateFits, Deciding, Return, NoCandidate,
      DispatchAssumption, DrainsFit, gitlab, database, poller, bounds
<1>3. \A key : /\ Consumed(key)' <=> Consumed(key) \/ key = LabelKey(fire[2])
               /\ Receipted(key)' <=> Receipted(key) \/ key = LabelKey(fire[2])
  <2>1. \A key : Receipted(key)' <=> Receipted(key) \/ key = LabelKey(fire[2])
    BY ReceiptEffect DEF AdoptLabel
  <2>2. \A key : HasJob(key)' <=> HasJob(key)
    BY DEF AdoptLabel, HasJob
  <2> QED BY <2>1, <2>2 DEF Consumed, Receipted, HasJob
<1>4. \A d \in 1..Comments : Bygone(d) => Bygone(d)'
  BY <1>3 DEF AdoptLabel, Bygone, gitlab
<1>5. Queued' = Queued
  BY DEF AdoptLabel, Queued
<1>6. \A j \in Issue : CurrentState(j)' = CurrentState(j) /\ (Busy(j)' <=> Busy(j))
  BY DEF AdoptLabel, CurrentState, Busy
<1>7. \A k \in DOMAIN receipts' : k \in EventKey /\ receipts'[k] \in Fate
  <2>1. LabelKey(fire[2]) \in EventKey /\ "adopted" \in Fate
    BY <1>1, CycleType, EventKeys DEF Fate
  <2> QED BY <1>1, <2>1, ReceiptType DEF AdoptLabel
<1>8. CurrentIsOwn' /\ OneActiveJob' /\ QueueInOrder' /\ EntriesAreComments'
  BY Untouched DEF AdoptLabel, bounds
<1>9. TypeOK'
  BY <1>1, <1>2, <1>7 DEF AdoptLabel, TypeOK, gitlab, bounds
<1>10. CandidateFits'
  BY <1>1, <1>2 DEF CandidateFits
<1>11. CursorFits'
  BY <1>1 DEF AdoptLabel, CursorFits, Going, gitlab
<1>12. DrainsFit'
  BY <1>2 DEF DrainsFit
<1>13. FatesAgree'

  BY <1>1, FateAdded DEF AdoptLabel
<1>14. NothingIsPassedOver'
  BY <1>2 DEF NothingIsPassedOver, Going
<1>15. QueueIsHandled'
  <2>1. \A d \in 1..Comments : InHand(d)' => InHand(d)
    BY <1>2 DEF InHand
  <2>2. \A d \in 1..Comments : Reached(d) => Reached(d)'
    BY DEF Reached, Going, AdoptLabel
  <2>3. aborts' = aborts
    BY DEF AdoptLabel, bounds
  <2> QED BY <1>1, <1>2, <1>3, <1>4, <1>5, <1>6, <1>7, <2>1, <2>2, <2>3, QueueStays
<1>16. DrainsAreFree'
  BY <1>1, <1>2 DEF AdoptLabel, DrainsAreFree, Undisturbed, bounds
<1>17. HandedOver'
  BY <1>1, <1>3, <1>5 DEF AdoptLabel, HandedOver, Undisturbed, bounds
<1> QED BY <1>8, <1>9, <1>10, <1>11, <1>12, <1>13, <1>14, <1>15, <1>16, <1>17 DEF IInv

\* The adoption ends, and the cursor moves to what was there.
LEMMA FinishAdoptionKeeps ==
    ASSUME IInv, FinishAdoption
    PROVE  IInv'
<1>1. /\ TypeOK /\ CandidateFits /\ CursorFits /\ DrainsFit
      /\ CurrentIsOwn /\ OneActiveJob /\ FatesAgree /\ NothingIsPassedOver
      /\ QueueIsHandled /\ QueueInOrder /\ DrainsAreFree /\ EntriesAreComments
      /\ HandedOver
  BY DEF IInv
<1>2. /\ cycle' \in Cycles /\ cycle'.comments = {} /\ cycle'.labels = {} /\ cycle'.next = 0
      /\ cycle'.halted = 0 /\ cycle'.drains = {}
      /\ cursor' = cycle.next /\ cursor <= cursor' /\ cursor' <= posted
      /\ cursor' \in 0..Comments
      /\ pc = "adopt" /\ pc' = "idle" /\ candidate.from = "none"
      /\ candidate' = candidate
  BY <1>1, CycleType, DispatchAssumption
  DEF FinishAdoption, Cycles, CandidateFits, Deciding, EmptyCycle, CursorFits
<1>3. \A key : (Consumed(key)' <=> Consumed(key)) /\ (Receipted(key)' <=> Receipted(key))
  BY DEF FinishAdoption, Consumed, Receipted, HasJob
<1>4. \A d \in 1..Comments : Bygone(d) => Bygone(d)'
  <2>1. posted' = posted /\ cursor <= cursor' /\ cursor' \in Nat /\ cursor \in Nat
    BY <1>1, <1>2, CycleType DEF FinishAdoption, gitlab
  <2>2. \A d \in 1..Comments : d <= cursor => d <= cursor'
    BY <2>1, DispatchAssumption DEF DispatchAssumption
  <2> QED BY <1>3, <2>1, <2>2 DEF Bygone
<1>5. Queued' = Queued
  BY DEF FinishAdoption, Queued
<1>6. \A j \in Issue : CurrentState(j)' = CurrentState(j) /\ (Busy(j)' <=> Busy(j))
  BY DEF FinishAdoption, CurrentState, Busy
<1>7. CurrentIsOwn' /\ OneActiveJob' /\ FatesAgree' /\ QueueInOrder' /\ EntriesAreComments'
  BY Untouched DEF FinishAdoption, bounds
<1>8. TypeOK'
  BY <1>1, <1>2 DEF FinishAdoption, TypeOK, gitlab, bounds
<1>9. CandidateFits'
  BY <1>2 DEF CandidateFits, Deciding
<1>10. CursorFits'
  BY <1>2 DEF FinishAdoption, CursorFits, Going, gitlab
<1>11. DrainsFit'
  BY <1>2 DEF DrainsFit
<1>12. NothingIsPassedOver'
  BY <1>2 DEF NothingIsPassedOver
<1>13. QueueIsHandled'
  <2>1. \A d \in 1..Comments : InHand(d)' => InHand(d)
    BY <1>2 DEF InHand
  <2>2. \A d \in 1..Comments : Reached(d) => Reached(d)'
    BY <1>1, <1>2, CycleType DEF Reached
  <2>3. aborts' = aborts
    BY DEF FinishAdoption, bounds
  <2> QED BY <1>1, <1>2, <1>3, <1>4, <1>5, <1>6, <2>1, <2>2, <2>3, QueueStays
<1>14. DrainsAreFree'
  BY <1>1, <1>2 DEF FinishAdoption, DrainsAreFree, Undisturbed, bounds
<1>15. HandedOver'
  BY <1>1, <1>3, <1>5 DEF FinishAdoption, HandedOver, Undisturbed, bounds
<1> QED BY <1>7, <1>8, <1>9, <1>10, <1>11, <1>12, <1>13, <1>14, <1>15 DEF IInv

\* A label fire is taken up, or was consumed before.
LEMMA TakeLabelKeeps ==
    ASSUME IInv, NEW fire \in cycle.labels, TakeLabel(fire)
    PROVE  IInv'
<1>1. /\ TypeOK /\ CandidateFits /\ CursorFits /\ DrainsFit
      /\ CurrentIsOwn /\ OneActiveJob /\ FatesAgree /\ NothingIsPassedOver
      /\ QueueIsHandled /\ QueueInOrder /\ DrainsAreFree /\ EntriesAreComments
      /\ HandedOver
  BY DEF IInv
<1>2. /\ cycle' \in Cycles /\ cycle'.comments = cycle.comments
      /\ cycle'.next = cycle.next /\ cycle'.halted = cycle.halted
      /\ cycle'.drains = cycle.drains
      /\ pc = "labels" /\ candidate.from = "none" /\ cycle.drains = {}
      /\ \/ pc' = pc /\ candidate' = candidate
         \/ /\ pc' = "decide" /\ candidate' \in Candidates /\ candidate'.from = "labels"
            /\ candidate'.key.kind = "label" /\ candidate'.messages = <<>>
  <2>1. fire[1] \in Issue /\ fire[2] \in Nat
    BY <1>1, CycleType
  <2> DEFINE new == Candidate("labels", LabelKey(fire[2]), fire[1], <<>>, TRUE, 0)
  <2>2. LabelKey(fire[2]) \in EventKey /\ LabelKey(fire[2]).kind = "label"
    BY <2>1, EventKeys
  <2>3. <<>> \in Seq(1..Comments) /\ owner[fire[1]] \in Workspace \cup {NoOne}
    BY <1>1, <2>1 DEF TypeOK
  <2>4. new \in Candidates /\ new.from = "labels" /\ new.key = LabelKey(fire[2])
        /\ new.messages = <<>>
    BY <2>1, <2>2, <2>3 DEF Candidate, Candidates
  <2> HIDE DEF new
  <2>5. cycle' \in Cycles /\ cycle'.comments = cycle.comments /\ cycle'.next = cycle.next
        /\ cycle'.halted = cycle.halted /\ cycle'.drains = cycle.drains
    BY <1>1 DEF TakeLabel, TypeOK, Cycles
  <2>6. pc = "labels" /\ candidate.from = "none" /\ cycle.drains = {}
    BY <1>1 DEF TakeLabel, CandidateFits, Deciding, DrainsFit
  <2>7. \/ pc' = pc /\ candidate' = candidate
        \/ pc' = "decide" /\ candidate' = new
    BY DEF TakeLabel, new
  <2> QED BY <2>2, <2>4, <2>5, <2>6, <2>7
<1>3. \A key : (Consumed(key)' <=> Consumed(key)) /\ (Receipted(key)' <=> Receipted(key))
  BY DEF TakeLabel, Consumed, Receipted, HasJob, database
<1>4. \A d \in 1..Comments : Bygone(d) => Bygone(d)'
  BY <1>3 DEF TakeLabel, Bygone, gitlab, database
<1>5. Queued' = Queued
  BY DEF TakeLabel, Queued, database
<1>6. \A j \in Issue : CurrentState(j)' = CurrentState(j) /\ (Busy(j)' <=> Busy(j))
  BY DEF TakeLabel, CurrentState, Busy, database
<1>7. CurrentIsOwn' /\ OneActiveJob' /\ FatesAgree' /\ QueueInOrder' /\ EntriesAreComments'
  BY Untouched DEF TakeLabel, database, bounds
<1>8. TypeOK'
  BY <1>1, <1>2 DEF TakeLabel, TypeOK, gitlab, database, bounds
<1>9. CandidateFits'
  BY <1>2 DEF CandidateFits, Deciding
<1>10. CursorFits'
  BY <1>1, <1>2 DEF TakeLabel, CursorFits, Going, gitlab, database
<1>11. DrainsFit'
  BY <1>2 DEF DrainsFit
<1>12. NothingIsPassedOver'
  BY <1>1, <1>2, <1>4, CycleType, DispatchAssumption
  DEF NothingIsPassedOver, Going, InHand
<1>13. QueueIsHandled'
  <2>1. \A d \in 1..Comments : InHand(d)' => InHand(d)
    BY <1>2 DEF InHand
  <2>2. \A d \in 1..Comments : Reached(d) => Reached(d)'
    BY <1>1, <1>2, CycleType DEF Reached, Going, CursorFits
  <2>3. aborts' = aborts
    BY DEF TakeLabel, bounds
  <2> QED BY <1>1, <1>2, <1>3, <1>4, <1>5, <1>6, <2>1, <2>2, <2>3, QueueStays
<1>14. DrainsAreFree'
  BY <1>1, <1>2 DEF TakeLabel, DrainsAreFree, Undisturbed, database, bounds
<1>15. HandedOver'
  BY <1>1, <1>3, <1>5 DEF TakeLabel, HandedOver, Undisturbed, database, bounds
<1> QED BY <1>7, <1>8, <1>9, <1>10, <1>11, <1>12, <1>13, <1>14, <1>15 DEF IInv

\* The label fires are handled.
LEMMA LabelsDoneKeeps ==
    ASSUME IInv, LabelsDone
    PROVE  IInv'
<1>1. /\ TypeOK /\ CandidateFits /\ CursorFits /\ DrainsFit
      /\ CurrentIsOwn /\ OneActiveJob /\ FatesAgree /\ NothingIsPassedOver
      /\ QueueIsHandled /\ QueueInOrder /\ DrainsAreFree /\ EntriesAreComments
      /\ HandedOver
  BY DEF IInv
<1>2. \A key : (Consumed(key)' <=> Consumed(key)) /\ (Receipted(key)' <=> Receipted(key))
  BY DEF LabelsDone, Consumed, Receipted, HasJob, database
<1>3. \A d \in 1..Comments : Bygone(d) => Bygone(d)'
  BY <1>2 DEF LabelsDone, Bygone, gitlab, database
<1>4. Queued' = Queued
  BY DEF LabelsDone, Queued, database
<1>5. \A j \in Issue : CurrentState(j)' = CurrentState(j) /\ (Busy(j)' <=> Busy(j))
  BY DEF LabelsDone, CurrentState, Busy, database
<1>6. CurrentIsOwn' /\ OneActiveJob' /\ FatesAgree' /\ QueueInOrder' /\ EntriesAreComments'
  BY Untouched DEF LabelsDone, database, bounds
<1>7. TypeOK'
  BY <1>1 DEF LabelsDone, TypeOK, gitlab, database, bounds
<1>8. CandidateFits'
  BY <1>1 DEF LabelsDone, CandidateFits, Deciding
<1>9. CursorFits'
  BY <1>1 DEF LabelsDone, CursorFits, Going, gitlab, database
<1>10. DrainsFit'
  BY <1>1 DEF LabelsDone, DrainsFit, database
<1>11. NothingIsPassedOver'
  BY <1>1, <1>3, CycleType, DispatchAssumption
  DEF LabelsDone, NothingIsPassedOver, Going, InHand
<1>12. QueueIsHandled'
  <2>1. \A d \in 1..Comments : InHand(d)' => InHand(d)
    BY DEF InHand, LabelsDone
  <2>2. \A d \in 1..Comments : Reached(d) => Reached(d)'
    BY <1>1, CycleType DEF Reached, Going, LabelsDone, CursorFits
  <2>3. aborts' = aborts
    BY DEF LabelsDone, bounds
  <2> QED BY <1>1, <1>2, <1>3, <1>4, <1>5, <2>1, <2>2, <2>3, QueueStays
<1>13. DrainsAreFree'
  BY <1>1, <1>5, CycleType
  DEF LabelsDone, DrainsAreFree, Undisturbed, database, bounds, CandidateFits,
      Deciding
<1>14. HandedOver'
  BY <1>1, <1>2, <1>4 DEF LabelsDone, HandedOver, Undisturbed, database, bounds
<1> QED BY <1>6, <1>7, <1>8, <1>9, <1>10, <1>11, <1>12, <1>13, <1>14 DEF IInv

\* A comment that was consumed before is passed.
LEMMA PassConsumedKeeps ==
    ASSUME IInv, NEW c \in cycle.comments, PassConsumed(c)
    PROVE  IInv'
<1>1. /\ TypeOK /\ CandidateFits /\ CursorFits /\ DrainsFit
      /\ CurrentIsOwn /\ OneActiveJob /\ FatesAgree /\ NothingIsPassedOver
      /\ QueueIsHandled /\ QueueInOrder /\ DrainsAreFree /\ EntriesAreComments
      /\ HandedOver
  BY DEF IInv
<1>2. /\ cycle' \in Cycles /\ cycle'.labels = cycle.labels /\ cycle'.next = cycle.next
      /\ cycle'.halted = cycle.halted /\ cycle'.drains = cycle.drains
      /\ cycle'.comments = cycle.comments \ {c}
      /\ Consumed(CommentKey(c)) /\ c \in 1..Comments
      /\ \A d \in cycle.comments : c <= d
      /\ pc = "comments" /\ candidate.from = "none"
      /\ candidate' = candidate
  BY <1>1, CycleType, DispatchAssumption
  DEF PassConsumed, TypeOK, Cycles, CandidateFits, Deciding, Return, NoCandidate,
      DispatchAssumption, NextComment, gitlab, database, poller, bounds
<1>3. \A key : (Consumed(key)' <=> Consumed(key)) /\ (Receipted(key)' <=> Receipted(key))
  BY DEF PassConsumed, Consumed, Receipted, HasJob, database
<1>4. \A d \in 1..Comments : Bygone(d) => Bygone(d)'
  BY <1>3 DEF PassConsumed, Bygone, gitlab, database
<1>5. Queued' = Queued
  BY DEF PassConsumed, Queued, database
<1>6. \A j \in Issue : CurrentState(j)' = CurrentState(j) /\ (Busy(j)' <=> Busy(j))
  BY DEF PassConsumed, CurrentState, Busy, database
<1>7. /\ CandidateFits' /\ CurrentIsOwn' /\ OneActiveJob' /\ FatesAgree'
      /\ QueueInOrder' /\ EntriesAreComments' /\ HandedOver'
  BY Untouched DEF PassConsumed, database, bounds
<1>8. TypeOK'
  BY <1>1, <1>2 DEF PassConsumed, TypeOK, gitlab, database, bounds
<1>9. CursorFits'
  BY <1>1 DEF PassConsumed, CursorFits, Going, gitlab, database
<1>10. DrainsFit'
  BY <1>1, <1>2 DEF DrainsFit
<1>11. NothingIsPassedOver'
  <2>1. \A d \in 1..Comments : Bygone(d) \/ InHand(d) => Bygone(d)' \/ InHand(d)'
    BY <1>4, <1>2 DEF InHand, Bygone
  <2>2. 1..cycle.next \subseteq 1..Comments
    BY <1>1, CycleType, DispatchAssumption
  <2> QED BY <1>1, <1>2, <2>1, <2>2 DEF NothingIsPassedOver, Going, PassConsumed
<1>12. QueueIsHandled'
  <2>1. \A d \in 1..Comments : InHand(d)' => InHand(d)
    BY <1>2 DEF InHand
  <2>2. \A d \in 1..Comments : Reached(d) => Reached(d)'
    BY <1>1, <1>2, CycleType DEF Reached, Going, PassConsumed, CursorFits
  <2>3. aborts' = aborts
    BY DEF PassConsumed, bounds
  <2> QED BY <1>1, <1>2, <1>3, <1>4, <1>5, <1>6, <2>1, <2>2, <2>3, QueueStays
<1>13. DrainsAreFree'
  BY <1>1, <1>2, <1>6, CycleType
  DEF PassConsumed, DrainsAreFree, Undisturbed, database, bounds
<1> QED BY <1>7, <1>8, <1>9, <1>10, <1>11, <1>12, <1>13 DEF IInv

\* The oldest comment is taken up.
LEMMA TakeCommentKeeps ==
    ASSUME IInv, NEW c \in cycle.comments, TakeComment(c)
    PROVE  IInv'
<1>1. /\ TypeOK /\ CandidateFits /\ CursorFits /\ DrainsFit
      /\ CurrentIsOwn /\ OneActiveJob /\ FatesAgree /\ NothingIsPassedOver
      /\ QueueIsHandled /\ QueueInOrder /\ DrainsAreFree /\ EntriesAreComments
      /\ HandedOver
  BY DEF IInv
<1>2. /\ cycle' \in Cycles /\ cycle'.labels = cycle.labels /\ cycle'.next = cycle.next
      /\ cycle'.halted = cycle.halted /\ cycle'.drains = cycle.drains
      /\ cycle'.comments = cycle.comments \ {c}
      /\ ~Consumed(CommentKey(c)) /\ c \in 1..Comments
      /\ \A d \in cycle.comments : c <= d
      /\ pc = "comments" /\ pc' = "decide" /\ candidate.from = "none" /\ cycle.drains = {}
      /\ candidate' \in Candidates /\ candidate'.from = "comments"
      /\ candidate'.key = CommentKey(c)
      /\ candidate'.key.id = c /\ candidate'.issue = IssueOf[c]
      /\ candidate'.messages = <<c>>
  <2>1. c \in 1..Comments /\ IssueOf[c] \in Issue /\ c \in Nat
    BY <1>1, CycleType, DispatchAssumption
  <2> DEFINE new == Candidate("comments", CommentKey(c), IssueOf[c], <<c>>, c \notin Unapproved, 0)
  <2>2. CommentKey(c) \in EventKey /\ CommentKey(c).id = c
    BY <2>1, EventKeys
  <2>3. <<c>> \in Seq(1..Comments) /\ owner[IssueOf[c]] \in Workspace \cup {NoOne}
    BY <1>1, <2>1 DEF TypeOK
  <2>4. new \in Candidates /\ new.from = "comments" /\ new.key = CommentKey(c)
        /\ new.messages = <<c>> /\ new.issue = IssueOf[c]
    BY <2>1, <2>2, <2>3 DEF Candidate, Candidates
  <2> HIDE DEF new
  <2>5. cycle' \in Cycles /\ cycle'.labels = cycle.labels /\ cycle'.next = cycle.next
        /\ cycle'.halted = cycle.halted /\ cycle'.drains = cycle.drains
        /\ cycle'.comments = cycle.comments \ {c}
    BY <1>1 DEF TakeComment, TypeOK, Cycles
  <2>6. pc = "comments" /\ candidate.from = "none" /\ cycle.drains = {}
    BY <1>1 DEF TakeComment, NextComment, CandidateFits, Deciding, DrainsFit
  <2>7. pc' = "decide" /\ candidate' = new /\ ~Consumed(CommentKey(c))
        /\ \A d \in cycle.comments : c <= d
    BY DEF TakeComment, NextComment, new
  <2> QED BY <2>1, <2>2, <2>4, <2>5, <2>6, <2>7
<1>3. \A key : (Consumed(key)' <=> Consumed(key)) /\ (Receipted(key)' <=> Receipted(key))
  BY DEF TakeComment, Consumed, Receipted, HasJob, database
<1>4. \A d \in 1..Comments : Bygone(d) => Bygone(d)'
  BY <1>3 DEF TakeComment, Bygone, gitlab, database
<1>5. Queued' = Queued
  BY DEF TakeComment, Queued, database
<1>6. \A j \in Issue : CurrentState(j)' = CurrentState(j) /\ (Busy(j)' <=> Busy(j))
  BY DEF TakeComment, CurrentState, Busy, database
<1>7. CurrentIsOwn' /\ OneActiveJob' /\ FatesAgree' /\ QueueInOrder' /\ EntriesAreComments'
  BY Untouched DEF TakeComment, database, bounds
<1>8. TypeOK'
  BY <1>1, <1>2 DEF TakeComment, TypeOK, gitlab, database, bounds
<1>9. CandidateFits'
  BY <1>2 DEF CandidateFits, Deciding
<1>10. CursorFits'
  <2>1. /\ cursor < c /\ c <= cycle.next /\ cycle.halted = 0
        /\ cursor \in Nat /\ cycle.next \in Nat
        /\ cycle.comments \subseteq Nat /\ c \in Nat
    BY <1>1, CycleType DEF CursorFits
  <2>2. \A d \in cycle'.comments : c < d
    BY <1>2, <2>1
  <2>3. UNCHANGED <<posted, cursor, bootstrapped>>
    BY DEF TakeComment, gitlab, database
  <2> QED BY <1>1, <1>2, <2>1, <2>2, <2>3 DEF CursorFits, Going
<1>11. DrainsFit'
  BY <1>2 DEF DrainsFit
<1>12. NothingIsPassedOver'
  BY <1>1, <1>2, <1>4, CycleType, DispatchAssumption
  DEF NothingIsPassedOver, Going, InHand
<1>13. QueueIsHandled'
  <2>1. \A d \in 1..Comments : InHand(d)' => InHand(d)
    BY <1>2 DEF InHand
  <2>2. \A d \in 1..Comments : Reached(d) => Reached(d)'
    BY <1>1, <1>2, CycleType DEF Reached, Going, CursorFits
  <2>3. aborts' = aborts
    BY DEF TakeComment, bounds
  <2> QED BY <1>1, <1>2, <1>3, <1>4, <1>5, <1>6, <2>1, <2>2, <2>3, QueueStays
<1>14. DrainsAreFree'
  BY <1>1, <1>2 DEF TakeComment, DrainsAreFree, Undisturbed, database, bounds
<1>15. HandedOver'
  BY <1>1, <1>2, <1>3, <1>5 DEF TakeComment, HandedOver, Undisturbed, database, bounds
<1> QED BY <1>7, <1>8, <1>9, <1>10, <1>11, <1>12, <1>13, <1>14, <1>15 DEF IInv

\* A comment is skipped: a mention is receipted, a plain reply may leave no trace.
LEMMA SkipCommentKeeps ==
    ASSUME IInv, NEW c \in cycle.comments, NEW gaveUp \in BOOLEAN, SkipComment(c, gaveUp)
    PROVE  IInv'
<1>1. /\ TypeOK /\ CandidateFits /\ CursorFits /\ DrainsFit
      /\ CurrentIsOwn /\ OneActiveJob /\ FatesAgree /\ NothingIsPassedOver
      /\ QueueIsHandled /\ QueueInOrder /\ DrainsAreFree /\ EntriesAreComments
      /\ HandedOver
  BY DEF IInv
<1>2. /\ cycle' \in Cycles /\ cycle'.labels = cycle.labels /\ cycle'.next = cycle.next
      /\ cycle'.halted = cycle.halted /\ cycle'.drains = cycle.drains
      /\ cycle'.comments = cycle.comments \ {c}
      /\ c \in 1..Comments
      /\ \A d \in cycle.comments : c <= d
      /\ pc = "comments" /\ pc' = pc /\ candidate.from = "none" /\ candidate' = candidate
      /\ cycle.drains = {} /\ outages' \in Nat /\ cursor' = cursor /\ posted' = posted
  <2>1. outages' \in Nat
    BY <1>1, BoundsType DEF SkipComment
  <2>2. cycle' = [cycle EXCEPT !.comments = @ \ {c}] /\ NextComment(c)
        /\ UNCHANGED <<cursor, posted, pc, candidate>>
    BY DEF SkipComment, gitlab
  <2>3. c \in 1..Comments /\ (\A d \in cycle.comments : c <= d) /\ pc = "comments"
    BY <1>1, <2>2, CycleType DEF NextComment
  <2>4. candidate.from = "none" /\ cycle.drains = {}
    BY <1>1, <2>3 DEF CandidateFits, Deciding, DrainsFit
  <2> QED BY <1>1, <2>1, <2>2, <2>3, <2>4, CommentTaken
<1>3. /\ \A key : /\ Consumed(key) => Consumed(key)'
                  /\ Receipted(key) => Receipted(key)'
                  /\ Receipted(key)' => Receipted(key) \/ key = CommentKey(c)
      /\ c \notin Plain => Consumed(CommentKey(c))'
      /\ \A key : HasJob(key)' <=> HasJob(key)
  <2>1. CASE gaveUp \/ c \notin Plain
    BY <2>1, ReceiptEffect DEF SkipComment, Consumed, HasJob
  <2>2. CASE ~(gaveUp \/ c \notin Plain)
    BY <2>2 DEF SkipComment, Consumed, HasJob, Receipted
  <2> QED BY <2>1, <2>2
<1>4. \A d \in 1..Comments : Bygone(d) => Bygone(d)'
  BY <1>3, <1>2 DEF Bygone
<1>5. Queued' = Queued
  BY DEF SkipComment, Queued
<1>6. \A j \in Issue : CurrentState(j)' = CurrentState(j) /\ (Busy(j)' <=> Busy(j))
  BY DEF SkipComment, CurrentState, Busy
<1>7. \A k \in DOMAIN receipts' : k \in EventKey /\ receipts'[k] \in Fate
  <2>1. CommentKey(c) \in EventKey /\ "skipped" \in Fate
    BY <1>2, EventKeys DEF Fate
  <2>2. CASE gaveUp \/ c \notin Plain
    BY <1>1, <2>1, <2>2, ReceiptType DEF SkipComment
  <2>3. CASE ~(gaveUp \/ c \notin Plain)
    BY <1>1, <2>3 DEF SkipComment, TypeOK
  <2> QED BY <2>2, <2>3
<1>8. CurrentIsOwn' /\ OneActiveJob' /\ QueueInOrder' /\ EntriesAreComments'
  BY Untouched DEF SkipComment
<1>9. TypeOK'
  BY <1>1, <1>2, <1>7
  DEF SkipComment, TypeOK, gitlab, database, poller, bounds, DispatchAssumption
<1>10. CandidateFits'
  BY <1>1, <1>2 DEF CandidateFits
<1>11. CursorFits'
  BY <1>1, <1>2 DEF CursorFits, Going
<1>12. DrainsFit'
  BY <1>2 DEF DrainsFit
<1>13. FatesAgree'
  <2>1. CASE gaveUp \/ c \notin Plain
    BY <1>1, <2>1, FateAdded DEF SkipComment
  <2>2. CASE ~(gaveUp \/ c \notin Plain)
    BY <2>2, Untouched DEF SkipComment
  <2> QED BY <2>1, <2>2
<1>14. NothingIsPassedOver'
  BY <1>1, <1>2, <1>3 DEF NothingIsPassedOver, Going, Bygone, InHand
<1>15. QueueIsHandled'
  <2>1. \A d \in 1..Comments : InHand(d)' => InHand(d)
    BY <1>2 DEF InHand
  <2>2. \A d \in 1..Comments : Reached(d) => Reached(d)'
    BY <1>2 DEF Reached, Going
  <2>3. aborts' = aborts
    BY DEF SkipComment, bounds
  <2> QED BY <1>1, <1>2, <1>3, <1>4, <1>5, <1>6, <1>7, <2>1, <2>2, <2>3, QueueStays
<1>16. DrainsAreFree'
  BY <1>1, <1>2 DEF SkipComment, DrainsAreFree, Undisturbed
<1>17. HandedOver'
  <2>1. UNCHANGED <<jobs, pc, candidate, aborts, cleanups>>
    BY DEF SkipComment
  <2> QED BY <1>1, <1>3, <1>5, <2>1 DEF HandedOver, Undisturbed
<1> QED BY <1>8, <1>9, <1>10, <1>11, <1>12, <1>13, <1>14, <1>15, <1>16, <1>17 DEF IInv

\* The comments from a failed one on wait: none of them was reached.
LEMMA HaltCommentsKeeps ==
    ASSUME IInv, NEW c \in cycle.comments, HaltComments(c)
    PROVE  IInv'
<1>1. /\ TypeOK /\ CandidateFits /\ CursorFits /\ DrainsFit
      /\ CurrentIsOwn /\ OneActiveJob /\ FatesAgree /\ NothingIsPassedOver
      /\ QueueIsHandled /\ QueueInOrder /\ DrainsAreFree /\ EntriesAreComments
      /\ HandedOver
  BY DEF IInv
<1>2. /\ cycle' \in Cycles /\ cycle'.labels = cycle.labels /\ cycle'.next = cycle.next
      /\ cycle'.drains = cycle.drains
      /\ cycle'.comments = {} /\ cycle'.halted = c
      /\ c \in 1..Comments /\ c <= cycle.next /\ ~Consumed(CommentKey(c))
      /\ \A d \in cycle.comments : c <= d
      /\ pc = "comments" /\ pc' = pc /\ candidate.from = "none" /\ candidate' = candidate
      /\ cycle.drains = {} /\ outages' \in Nat /\ cursor' = cursor /\ posted' = posted
  <2>1. outages' \in Nat
    BY <1>1, BoundsType DEF HaltComments
  <2>2. cycle' = [cycle EXCEPT !.comments = {}, !.halted = c] /\ NextComment(c)
        /\ ~Consumed(CommentKey(c)) /\ UNCHANGED <<cursor, posted, pc, candidate>>
    BY DEF HaltComments, gitlab, database
  <2>3. /\ c \in 1..Comments /\ c <= cycle.next /\ (\A d \in cycle.comments : c <= d)
        /\ pc = "comments"
    BY <1>1, <2>2, CycleType DEF NextComment, CursorFits
  <2>4. candidate.from = "none" /\ cycle.drains = {}
    BY <1>1, <2>3 DEF CandidateFits, Deciding, DrainsFit
  <2>5. cycle' \in Cycles /\ cycle'.labels = cycle.labels /\ cycle'.next = cycle.next
        /\ cycle'.drains = cycle.drains /\ cycle'.comments = {} /\ cycle'.halted = c
    <3>1. cycle \in Cycles /\ c \in 0..Comments
      BY <1>1, <2>3 DEF TypeOK
    <3> QED BY <2>2, <3>1 DEF Cycles
  <2> QED BY <2>1, <2>2, <2>3, <2>4, <2>5
<1>3. \A key : (Consumed(key)' <=> Consumed(key)) /\ (Receipted(key)' <=> Receipted(key))
  BY DEF HaltComments, Consumed, Receipted, HasJob, database
<1>4. \A d \in 1..Comments : Bygone(d) => Bygone(d)'
  BY <1>3, <1>2 DEF Bygone
<1>5. Queued' = Queued
  BY DEF HaltComments, Queued, database
<1>6. \A j \in Issue : CurrentState(j)' = CurrentState(j) /\ (Busy(j)' <=> Busy(j))
  BY DEF HaltComments, CurrentState, Busy, database
<1>7. /\ CandidateFits' /\ CurrentIsOwn' /\ OneActiveJob' /\ FatesAgree'
      /\ QueueInOrder' /\ EntriesAreComments' /\ HandedOver'
  BY Untouched DEF HaltComments, database
<1>8. TypeOK'
  BY <1>1, <1>2 DEF HaltComments, TypeOK, gitlab, database
<1>9. CursorFits'
  BY <1>1, <1>2, CycleType DEF CursorFits
<1>10. DrainsFit'
  BY <1>2 DEF DrainsFit
<1>11. NothingIsPassedOver'
  <2>1. cycle.halted = 0 /\ Going
    BY <1>1, <1>2 DEF CursorFits
  <2>2. \A d \in 1..cycle.next : d < c /\ InHand(d) => FALSE
    BY <1>2, CycleType DEF InHand
  <2>3. 1..cycle.next \subseteq 1..Comments
    BY <1>1, CycleType, DispatchAssumption
  <2> QED BY <1>1, <1>4, <1>2, <2>1, <2>2, <2>3 DEF NothingIsPassedOver
<1>12. QueueIsHandled'
  <2>1. \A d : Reached(d)' <=> d <= cursor \/ (d <= cycle.next /\ d < c)
    BY <1>2 DEF Reached, Going
  <2>2. \A d : InHand(d)' => FALSE
    BY <1>2 DEF InHand
  <2>3. ASSUME NEW key \in Queued
        PROVE  /\ key.kind = "comment" /\ key.id \in 1..Comments
               /\ Receipted(CommentKey(key.id))'
               /\ Plain = {} => \A d \in 1..key.id : Bygone(d)'
               /\ aborts = 0 => Reached(key.id)'
    <3>1. /\ key.kind = "comment" /\ key.id \in 1..Comments
          /\ Receipted(CommentKey(key.id))'
          /\ Plain = {} => \A d \in 1..key.id : Bygone(d)
      BY <1>1, <1>3 DEF QueueIsHandled
    <3>2. Plain = {} => \A d \in 1..key.id : Bygone(d)'
      BY <1>4, <3>1, DispatchAssumption
    <3>3. ASSUME aborts = 0 PROVE Reached(key.id)'
      <4>1. InHand(c) /\ key.id < c
        BY <1>1, <1>2, <3>3 DEF InHand, QueueIsHandled
      <4>2. key.id <= cursor \/ key.id <= cycle.next
        BY <1>1, <3>3 DEF QueueIsHandled, Reached
      <4> QED BY <2>1, <4>1, <4>2
    <3> QED BY <3>1, <3>2, <3>3
  <2>4. aborts' = aborts
    BY DEF HaltComments
  <2> QED BY <1>5, <2>2, <2>3, <2>4 DEF QueueIsHandled
<1>13. DrainsAreFree'
  BY <1>1, <1>2 DEF HaltComments, DrainsAreFree, Undisturbed, database
<1> QED BY <1>7, <1>8, <1>9, <1>10, <1>11, <1>12, <1>13 DEF IInv

\* The cursor moves to what was handled, and the queues to drain are listed.
LEMMA SaveCursorKeeps ==
    ASSUME IInv, SaveCursor
    PROVE  IInv'
<1>1. /\ TypeOK /\ CandidateFits /\ CursorFits /\ DrainsFit
      /\ CurrentIsOwn /\ OneActiveJob /\ FatesAgree /\ NothingIsPassedOver
      /\ QueueIsHandled /\ QueueInOrder /\ DrainsAreFree /\ EntriesAreComments
      /\ HandedOver
  BY DEF IInv
<1>2. /\ cycle' \in Cycles /\ cycle'.comments = cycle.comments
      /\ cycle'.labels = cycle.labels /\ cycle'.next = cycle.next
      /\ cycle'.halted = cycle.halted
      /\ \A row \in cycle'.drains : /\ row[1] \in Issue /\ row[2] = conversations[row[1]].pending
                                  /\ row[2] # <<>> /\ ~Busy(row[1])
      /\ pc = "comments" /\ pc' = "drain" /\ cycle.comments = {} /\ candidate.from = "none"
      /\ cursor' = CursorAfter
      /\ cursor <= cursor' /\ cursor' <= posted /\ cursor' \in 0..Comments
      /\ \A k \in Nat : k <= cycle.next /\ (cycle.halted # 0 => k < cycle.halted) => k <= cursor'
  <2> DEFINE due == {<<j, conversations[j].pending>> : j \in {k \in Issue : Drainable(k)}}
  <2>1. \A row \in due : /\ row[1] \in Issue /\ row[2] = conversations[row[1]].pending
                         /\ row[2] # <<>> /\ ~Busy(row[1]) /\ row \in Issue \X Seq(Entry)
    BY <1>1, QueueType DEF Drainable, Busy
  <2> HIDE DEF due
  <2>2. cycle' = [cycle EXCEPT !.drains = due]
    BY DEF SaveCursor, due
  <2>3. /\ cycle' \in Cycles /\ cycle'.comments = cycle.comments
        /\ cycle'.labels = cycle.labels
        /\ cycle'.next = cycle.next /\ cycle'.halted = cycle.halted /\ cycle'.drains = due
    BY <1>1, <2>1, <2>2 DEF TypeOK, Cycles
  <2>4. pc = "comments" /\ pc' = "drain" /\ cycle.comments = {} /\ candidate.from = "none"
        /\ cursor' = CursorAfter
    BY <1>1 DEF SaveCursor, CandidateFits, Deciding
  <2>5. /\ cursor <= cursor' /\ cursor' <= posted /\ cursor' \in 0..Comments
        /\ \A k \in Nat : k <= cycle.next /\ (cycle.halted # 0 => k < cycle.halted) => k <= cursor'
    <3>1. /\ cursor \in Nat /\ cycle.halted \in Nat /\ cycle.next \in Nat
          /\ posted \in 0..Comments
          /\ Comments \in Nat /\ cursor <= cycle.next /\ cycle.next <= posted
          /\ cycle.halted # 0 => cursor < cycle.halted /\ cycle.halted <= cycle.next
      BY <1>1, <2>4, CycleType, DispatchAssumption DEF CursorFits, Going, TypeOK
    <3>2. CASE cycle.halted = 0
      BY <2>4, <3>1 DEF CursorAfter
    <3>3. CASE cycle.halted # 0
      BY <2>4, <3>1 DEF CursorAfter
    <3> QED BY <3>2, <3>3
  <2> QED BY <2>1, <2>3, <2>4, <2>5
<1>3. \A key : (Consumed(key)' <=> Consumed(key)) /\ (Receipted(key)' <=> Receipted(key))
  BY DEF SaveCursor, Consumed, Receipted, HasJob
<1>4. \A d \in 1..Comments : Bygone(d) => Bygone(d)'
  BY <1>1, <1>3, <1>2, CycleType DEF SaveCursor, Bygone, gitlab
<1>5. Queued' = Queued
  BY DEF SaveCursor, Queued
<1>6. \A j \in Issue : CurrentState(j)' = CurrentState(j) /\ (Busy(j)' <=> Busy(j))
  BY DEF SaveCursor, CurrentState, Busy
<1>7. CurrentIsOwn' /\ OneActiveJob' /\ FatesAgree' /\ QueueInOrder' /\ EntriesAreComments'
  BY Untouched DEF SaveCursor, bounds
<1>8. TypeOK'
  BY <1>1, <1>2 DEF SaveCursor, TypeOK, gitlab, bounds
<1>9. CandidateFits'
  BY <1>1 DEF SaveCursor, CandidateFits, Deciding
<1>10. CursorFits'
  BY <1>2 DEF SaveCursor, CursorFits, Going, gitlab
<1>11. DrainsFit'
  BY <1>2 DEF SaveCursor, DrainsFit
<1>12. NothingIsPassedOver'
  BY <1>2 DEF SaveCursor, NothingIsPassedOver, Going
<1>13. QueueIsHandled'
  <2>1. \A d \in 1..Comments : InHand(d)' => InHand(d)
    BY DEF InHand, SaveCursor
  <2>2. \A d \in 1..Comments : Reached(d) => Reached(d)'
    BY <1>1, <1>2, CycleType DEF Reached
  <2>3. aborts' = aborts
    BY DEF SaveCursor, bounds
  <2> QED BY <1>1, <1>2, <1>3, <1>4, <1>5, <1>6, <2>1, <2>2, <2>3, QueueStays
<1>14. DrainsAreFree'
  BY <1>1, <1>2, <1>6 DEF SaveCursor, DrainsAreFree, Undisturbed, bounds
<1>15. HandedOver'
  BY <1>1, <1>3, <1>5 DEF SaveCursor, HandedOver, Undisturbed, bounds
<1> QED BY <1>7, <1>8, <1>9, <1>10, <1>11, <1>12, <1>13, <1>14, <1>15 DEF IInv

\* A queue is taken up as it was listed.
LEMMA DrainPendingKeeps ==
    ASSUME IInv, NEW row \in cycle.drains, DrainPending(row)
    PROVE  IInv'
<1>1. /\ TypeOK /\ CandidateFits /\ CursorFits /\ DrainsFit
      /\ CurrentIsOwn /\ OneActiveJob /\ FatesAgree /\ NothingIsPassedOver
      /\ QueueIsHandled /\ QueueInOrder /\ DrainsAreFree /\ EntriesAreComments
      /\ HandedOver
  BY DEF IInv
<1>2. /\ cycle' \in Cycles /\ cycle'.comments = cycle.comments
      /\ cycle'.labels = cycle.labels /\ cycle'.next = cycle.next
      /\ cycle'.halted = cycle.halted
      /\ cycle'.drains = cycle.drains \ {row}
      /\ pc = "drain" /\ pc' = "decide" /\ candidate.from = "none"
      /\ row[1] \in Issue /\ row[2] = conversations[row[1]].pending /\ row[2] # <<>>
      /\ \A r \in cycle.drains \ {row} : r[1] # row[1]
      /\ candidate' \in Candidates /\ candidate'.from = "drain"
      /\ candidate'.key = DrainKey(row[2])
      /\ candidate'.issue = row[1] /\ candidate'.messages = Messages(row[2])
      /\ candidate'.count = Len(row[2])
  <2>1. row[1] \in Issue /\ row[2] \in Seq(Entry) /\ row = <<row[1], row[2]>>
        /\ row[2] = conversations[row[1]].pending /\ row[2] # <<>>
    BY <1>1, CycleType DEF DrainsFit
  <2>2. \A r \in cycle.drains \ {row} : r[1] # row[1]
    BY <1>1, CycleType DEF DrainsFit
  <2> DEFINE new == Candidate("drain", DrainKey(row[2]), row[1], Messages(row[2]), TRUE, Len(row[2]))
  <2>0. owner[row[1]] \in Workspace \cup {NoOne} /\ Len(row[2]) \in Nat
    BY <1>1, <2>1 DEF TypeOK
  <2>3. /\ DrainKey(row[2]) \in EventKey /\ Messages(row[2]) \in Seq(1..Comments)
        /\ owner[row[1]] \in Workspace \cup {NoOne} /\ Len(row[2]) \in Nat
    BY <2>0, <2>1, DrainKeyType, MessagesType
  <2>4. new \in Candidates /\ new.from = "drain" /\ new.key = DrainKey(row[2])
        /\ new.messages = Messages(row[2]) /\ new.issue = row[1] /\ new.count = Len(row[2])
    BY <2>1, <2>3 DEF Candidate, Candidates
  <2> HIDE DEF new
  <2>5. cycle' \in Cycles /\ cycle'.labels = cycle.labels /\ cycle'.next = cycle.next
        /\ cycle'.halted = cycle.halted /\ cycle'.comments = cycle.comments
        /\ cycle'.drains = cycle.drains \ {row}
    BY <1>1 DEF DrainPending, TypeOK, Cycles
  <2>6. pc = "drain" /\ pc' = "decide" /\ candidate.from = "none" /\ candidate' = new
    BY <1>1 DEF DrainPending, CandidateFits, Deciding, new
  <2> QED BY <2>1, <2>2, <2>4, <2>5, <2>6
<1>3. \A key : (Consumed(key)' <=> Consumed(key)) /\ (Receipted(key)' <=> Receipted(key))
  BY DEF DrainPending, Consumed, Receipted, HasJob, database
<1>4. \A d \in 1..Comments : Bygone(d) => Bygone(d)'
  BY <1>3 DEF DrainPending, Bygone, CursorFits, Going, gitlab, database
<1>5. Queued' = Queued
  BY DEF DrainPending, Queued, database
<1>6. \A j \in Issue : CurrentState(j)' = CurrentState(j) /\ (Busy(j)' <=> Busy(j))
  BY DEF DrainPending, CurrentState, Busy, database
<1>7. CurrentIsOwn' /\ OneActiveJob' /\ FatesAgree' /\ QueueInOrder' /\ EntriesAreComments'
  BY Untouched DEF DrainPending, database, bounds
<1>8. TypeOK'
  BY <1>1, <1>2, DispatchAssumption
  DEF DrainPending, TypeOK, gitlab, database, poller, bounds, DispatchAssumption
<1>9. CandidateFits'
  BY <1>2
  DEF CandidateFits, Deciding, gitlab, database, poller, bounds, DispatchAssumption
<1>10. CursorFits'
  BY <1>1, <1>2, <1>3, <1>4, <1>5, <1>6, CycleType, DispatchAssumption
  DEF DrainPending, CursorFits, Going, gitlab, database, poller, bounds,
      DispatchAssumption, CandidateFits, Deciding
<1>11. DrainsFit'
  <2>1. conversations' = conversations
    BY DEF DrainPending, database
  <2>2. \A r \in cycle'.drains : /\ r[2] # <<>> /\ r[2] = conversations[r[1]].pending
                                 /\ r[1] # row[1]
    BY <1>1, <1>2 DEF DrainsFit
  <2> QED BY <1>2, <2>1, <2>2 DEF DrainsFit
<1>12. NothingIsPassedOver'
  BY <1>2
  DEF NothingIsPassedOver, Going, gitlab, database, poller, bounds,
      DispatchAssumption, Bygone, InHand, CandidateFits, Deciding
<1>13. QueueIsHandled'
  <2>1. \A d \in 1..Comments : InHand(d)' => InHand(d)
    BY <1>2 DEF InHand, database, poller
  <2>2. \A d \in 1..Comments : Reached(d) => Reached(d)'
    BY <1>1, <1>2, <1>3, <1>4, <1>5, <1>6, CycleType, DispatchAssumption
    DEF Reached, Going, DrainPending, CursorFits, CandidateFits, Deciding,
        DispatchAssumption, database, poller
  <2>3. aborts' = aborts
    BY DEF DrainPending, bounds
  <2> QED BY <1>1, <1>2, <1>3, <1>4, <1>5, <1>6, <2>1, <2>2, <2>3, QueueStays
<1>14. DrainsAreFree'
  BY <1>1, <1>2, <1>3, <1>4, <1>5, <1>6, CycleType, DispatchAssumption
  DEF DrainPending, DrainsAreFree, Undisturbed, gitlab, database, poller, bounds,
      DispatchAssumption, CandidateFits, Deciding
<1>15. HandedOver'
  BY <1>1, <1>3, <1>5 DEF DrainPending, HandedOver, Undisturbed, database, bounds
<1> QED BY <1>7, <1>8, <1>9, <1>10, <1>11, <1>12, <1>13, <1>14, <1>15 DEF IInv

\* A queue waits for the next cycle.
LEMMA SkipDrainKeeps ==
    ASSUME IInv, NEW row \in cycle.drains, SkipDrain(row)
    PROVE  IInv'
<1>1. /\ TypeOK /\ CandidateFits /\ CursorFits /\ DrainsFit
      /\ CurrentIsOwn /\ OneActiveJob /\ FatesAgree /\ NothingIsPassedOver
      /\ QueueIsHandled /\ QueueInOrder /\ DrainsAreFree /\ EntriesAreComments
      /\ HandedOver
  BY DEF IInv
<1>2. /\ cycle' \in Cycles /\ cycle'.comments = cycle.comments
      /\ cycle'.labels = cycle.labels /\ cycle'.next = cycle.next
      /\ cycle'.halted = cycle.halted
      /\ cycle'.drains = cycle.drains \ {row} /\ \A r \in cycle'.drains : r \in cycle.drains /\ r # row
      /\ pc = "drain" /\ pc' = pc /\ candidate.from = "none" /\ candidate' = candidate
      /\ outages' \in Nat
  <2>1. outages' \in Nat
    BY <1>1, BoundsType DEF SkipDrain
  <2>2. cycle' = [cycle EXCEPT !.drains = @ \ {row}] /\ pc = "drain"
        /\ UNCHANGED <<pc, candidate>>
    BY DEF SkipDrain, poller
  <2>3. candidate.from = "none"
    BY <1>1, <2>2 DEF CandidateFits, Deciding
  <2> QED BY <1>1, <2>1, <2>2, <2>3, RowTaken
<1>3. \A key : (Consumed(key)' <=> Consumed(key)) /\ (Receipted(key)' <=> Receipted(key))
  BY DEF SkipDrain, Consumed, Receipted, HasJob, database
<1>4. \A d \in 1..Comments : Bygone(d) => Bygone(d)'
  BY <1>3 DEF SkipDrain, Bygone, gitlab, database
<1>5. Queued' = Queued
  BY DEF SkipDrain, Queued, database
<1>6. \A j \in Issue : CurrentState(j)' = CurrentState(j) /\ (Busy(j)' <=> Busy(j))
  BY DEF SkipDrain, CurrentState, Busy, database
<1>7. /\ CandidateFits' /\ CurrentIsOwn' /\ OneActiveJob' /\ FatesAgree'
      /\ QueueInOrder' /\ EntriesAreComments' /\ HandedOver'
  BY Untouched DEF SkipDrain, database
<1>8. TypeOK'
  BY <1>1, <1>2 DEF SkipDrain, TypeOK, gitlab, database
<1>9. CursorFits'
  BY <1>1 DEF SkipDrain, CursorFits, Going, gitlab, database
<1>10. DrainsFit'
  BY <1>1 DEF SkipDrain, DrainsFit, database
<1>11. NothingIsPassedOver'
  BY <1>2 DEF NothingIsPassedOver, Going
<1>12. QueueIsHandled'
  <2>1. \A d \in 1..Comments : InHand(d)' => InHand(d)
    BY <1>2 DEF InHand
  <2>2. \A d \in 1..Comments : Reached(d) => Reached(d)'
    BY DEF Reached, Going, SkipDrain, database
  <2>3. aborts' = aborts
    BY DEF SkipDrain, bounds
  <2> QED BY <1>1, <1>2, <1>3, <1>4, <1>5, <1>6, <2>1, <2>2, <2>3, QueueStays
<1>13. DrainsAreFree'
  BY <1>1, <1>2, <1>6, CycleType DEF SkipDrain, DrainsAreFree, Undisturbed, database
<1> QED BY <1>7, <1>8, <1>9, <1>10, <1>11, <1>12, <1>13 DEF IInv

\* The cycle ends.
LEMMA EndCycleKeeps ==
    ASSUME IInv, EndCycle
    PROVE  IInv'
<1>1. /\ TypeOK /\ CandidateFits /\ CursorFits /\ DrainsFit
      /\ CurrentIsOwn /\ OneActiveJob /\ FatesAgree /\ NothingIsPassedOver
      /\ QueueIsHandled /\ QueueInOrder /\ DrainsAreFree /\ EntriesAreComments
      /\ HandedOver
  BY DEF IInv
<1>2. /\ cycle' \in Cycles /\ cycle'.comments = {} /\ cycle'.labels = {} /\ cycle'.next = 0
      /\ cycle'.halted = 0 /\ cycle'.drains = {}
      /\ pc = "drain" /\ pc' = "idle" /\ candidate.from = "none"
  BY <1>1, DispatchAssumption
  DEF EndCycle, Cycles, CandidateFits, Deciding, EmptyCycle
<1>3. \A key : (Consumed(key)' <=> Consumed(key)) /\ (Receipted(key)' <=> Receipted(key))
  BY DEF EndCycle, Consumed, Receipted, HasJob, database
<1>4. \A d \in 1..Comments : Bygone(d) => Bygone(d)'
  BY <1>3 DEF EndCycle, Bygone, gitlab, database
<1>5. Queued' = Queued
  BY DEF EndCycle, Queued, database
<1>6. \A j \in Issue : CurrentState(j)' = CurrentState(j) /\ (Busy(j)' <=> Busy(j))
  BY DEF EndCycle, CurrentState, Busy, database
<1>7. CurrentIsOwn' /\ OneActiveJob' /\ FatesAgree' /\ QueueInOrder' /\ EntriesAreComments'
  BY Untouched DEF EndCycle, database, bounds
<1>8. TypeOK'
  BY <1>1, <1>2 DEF EndCycle, TypeOK, gitlab, database, bounds
<1>9. CandidateFits'
  BY <1>1 DEF EndCycle, CandidateFits, Deciding
<1>10. CursorFits'
  BY <1>1, <1>2 DEF EndCycle, CursorFits, Going, gitlab, database
<1>11. DrainsFit'
  BY <1>2 DEF EndCycle, DrainsFit
<1>12. NothingIsPassedOver'
  BY <1>2 DEF NothingIsPassedOver
<1>13. QueueIsHandled'
  <2>1. \A d \in 1..Comments : InHand(d)' => InHand(d)
    BY <1>2 DEF InHand, EndCycle
  <2>2. \A d \in 1..Comments : Reached(d) => Reached(d)'
    BY <1>2 DEF Reached, Going, EndCycle, database
  <2>3. aborts' = aborts
    BY DEF EndCycle, bounds
  <2> QED BY <1>1, <1>2, <1>3, <1>4, <1>5, <1>6, <2>1, <2>2, <2>3, QueueStays
<1>14. DrainsAreFree'
  BY <1>1, <1>2 DEF EndCycle, DrainsAreFree, Undisturbed, database, bounds
<1>15. HandedOver'
  BY <1>1, <1>3, <1>5 DEF EndCycle, HandedOver, Undisturbed, database, bounds
<1> QED BY <1>7, <1>8, <1>9, <1>10, <1>11, <1>12, <1>13, <1>14, <1>15 DEF IInv

\* What is decided fits the candidate and the conversation.
LEMMA DecideKeeps ==
    ASSUME IInv, Decide
    PROVE  IInv'
<1>1. /\ TypeOK /\ CandidateFits /\ CursorFits /\ DrainsFit
      /\ CurrentIsOwn /\ OneActiveJob /\ FatesAgree /\ NothingIsPassedOver
      /\ QueueIsHandled /\ QueueInOrder /\ DrainsAreFree /\ EntriesAreComments
      /\ HandedOver
  BY DEF IInv
<1>2. /\ pc = "decide" /\ candidate.from \in {"labels", "comments", "drain"}
      /\ candidate.issue \in Issue /\ candidate.owner \in Workspace \cup {NoOne}
      /\ \/ pc' = "clear" /\ candidate' = candidate /\ candidate.from = "drain"
         \/ /\ pc' = candidate.from /\ candidate' = NoCandidate /\ candidate'.from = "none"
            /\ candidate.from # "drain" /\ Consumed(candidate.key)
         \/ /\ ~Consumed(candidate.key) /\ candidate' = candidate
            /\ pc' \in {"reject", "park", "upsert"}
            /\ pc' = "park" => Busy(candidate.issue) /\ candidate.key.kind = "comment"
            /\ pc' = "upsert" => candidate.owner # NoOne /\ ~Busy(candidate.issue)
  <2>1. pc = "decide" /\ candidate.from # "none"
    BY <1>1 DEF Decide, CandidateFits, Deciding
  <2>2. /\ candidate.from \in {"labels", "comments", "drain"} /\ candidate.issue \in Issue
        /\ candidate.owner \in Workspace \cup {NoOne} /\ candidate.approved \in BOOLEAN
    BY <1>1, <2>1, CandidateType
  <2>3. CASE Consumed(candidate.key)
    BY <2>2, <2>3 DEF Decide, Return, NoCandidate
  <2>4. CASE ~Consumed(candidate.key)
    <3>1. pc' = Decision /\ candidate' = candidate
      BY <2>4 DEF Decide
    <3>2. /\ Decision \in {"reject", "park", "upsert"}
          /\ Decision = "park" => Busy(candidate.issue) /\ candidate.key.kind = "comment"
          /\ Decision = "upsert" => candidate.owner # NoOne /\ ~Busy(candidate.issue)
      BY <2>2 DEF Decision
    <3> QED BY <2>1, <2>2, <2>4, <3>1, <3>2
  <2> QED BY <2>3, <2>4
<1>3. \A key : (Consumed(key)' <=> Consumed(key)) /\ (Receipted(key)' <=> Receipted(key))
  BY DEF Decide, Consumed, Receipted, HasJob, database
<1>4. \A d \in 1..Comments : Bygone(d) => Bygone(d)'
  BY <1>3 DEF Decide, Bygone, gitlab, database
<1>5. Queued' = Queued
  BY DEF Decide, Queued, database
<1>6. \A j \in Issue : CurrentState(j)' = CurrentState(j) /\ (Busy(j)' <=> Busy(j))
  BY DEF Decide, CurrentState, Busy, database
<1>7. CurrentIsOwn' /\ OneActiveJob' /\ FatesAgree' /\ QueueInOrder' /\ EntriesAreComments'
  BY Untouched DEF Decide, database, bounds
<1>8. TypeOK'
  BY <1>1, <1>2 DEF Decide, TypeOK, gitlab, database, bounds
<1>9. CandidateFits'
  BY <1>1, <1>2, <1>3, <1>6 DEF CandidateFits, Deciding, Busy
<1>10. CursorFits'
  BY <1>1, <1>2 DEF Decide, CursorFits, Going, gitlab, database
<1>11. DrainsFit'
  BY <1>1, <1>2 DEF Decide, DrainsFit, database
<1>12. NothingIsPassedOver'
  BY <1>1, <1>2, <1>4, CycleType, DispatchAssumption
  DEF Decide, NothingIsPassedOver, Going, gitlab, bounds, Bygone, InHand,
      CandidateFits
<1>13. QueueIsHandled'
  <2>1. \A d \in 1..Comments : InHand(d)' => InHand(d)
    BY <1>2 DEF InHand, Decide
  <2>2. \A d \in 1..Comments : Reached(d) => Reached(d)'
    BY <1>2 DEF Reached, Going, Decide, database
  <2>3. aborts' = aborts
    BY DEF Decide, bounds
  <2> QED BY <1>1, <1>2, <1>3, <1>4, <1>5, <1>6, <2>1, <2>2, <2>3, QueueStays
<1>14. DrainsAreFree'
  BY <1>1, <1>2, <1>6, CycleType
  DEF Decide, DrainsAreFree, Undisturbed, database, bounds, CandidateFits
<1>15. HandedOver'
  BY <1>1, <1>3, <1>5 DEF Decide, HandedOver, Undisturbed, database, bounds
<1> QED BY <1>7, <1>8, <1>9, <1>10, <1>11, <1>12, <1>13, <1>14, <1>15 DEF IInv

\* A rejection is the one fate of its event.
LEMMA RejectKeeps ==
    ASSUME IInv, Reject
    PROVE  IInv'
<1>1. /\ TypeOK /\ CandidateFits /\ CursorFits /\ DrainsFit
      /\ CurrentIsOwn /\ OneActiveJob /\ FatesAgree /\ NothingIsPassedOver
      /\ QueueIsHandled /\ QueueInOrder /\ DrainsAreFree /\ EntriesAreComments
      /\ HandedOver
  BY DEF IInv
<1>2. /\ pc = "reject" /\ candidate.from \in {"labels", "comments", "drain"}
      /\ pc' = candidate.from /\ candidate' = NoCandidate /\ candidate'.from = "none"
      /\ candidate.issue \in Issue /\ candidate.key \in EventKey
      /\ candidate.messages \in Seq(1..Comments) /\ ~Consumed(candidate.key)
  <2>1. pc = "reject" /\ candidate.from # "none" /\ ~Consumed(candidate.key)
    BY <1>1 DEF Reject, CandidateFits, Deciding
  <2> QED BY <1>1, <2>1, CandidateType DEF Reject, Return, NoCandidate
<1>3. /\ \A key : /\ Consumed(key)' <=> Consumed(key) \/ key = candidate.key
                  /\ Receipted(key)' <=> Receipted(key) \/ key = candidate.key
      /\ \A key : HasJob(key)' <=> HasJob(key)
  <2>1. \A key : Receipted(key)' <=> Receipted(key) \/ key = candidate.key
    BY ReceiptEffect DEF Reject
  <2>2. \A key : HasJob(key)' <=> HasJob(key)
    BY DEF Reject, HasJob
  <2> QED BY <2>1, <2>2 DEF Consumed, Receipted, HasJob
<1>4. \A d \in 1..Comments : Bygone(d) => Bygone(d)'
  BY <1>3 DEF Reject, Bygone, gitlab
<1>5. Queued' = Queued
  BY DEF Reject, Queued
<1>6. \A j \in Issue : CurrentState(j)' = CurrentState(j) /\ (Busy(j)' <=> Busy(j))
  BY DEF Reject, CurrentState, Busy
<1>7. \A k \in DOMAIN receipts' : k \in EventKey /\ receipts'[k] \in Fate
  <2>1. "rejected" \in Fate
    BY DEF Fate
  <2> QED BY <1>1, <1>2, <2>1, ReceiptType DEF Reject
<1>8. CurrentIsOwn' /\ OneActiveJob' /\ QueueInOrder' /\ EntriesAreComments'
  BY Untouched DEF Reject, bounds
<1>9. TypeOK'
  BY <1>1, <1>2, <1>7 DEF Reject, TypeOK, gitlab, bounds
<1>10. CandidateFits'
  BY <1>2 DEF CandidateFits, Deciding
<1>11. CursorFits'
  BY <1>1, <1>2 DEF Reject, CursorFits, Going, gitlab
<1>12. DrainsFit'
  BY <1>1, <1>2 DEF Reject, DrainsFit
<1>13. FatesAgree'
  <2>1. \A k \in DOMAIN receipts' :
           receipts'[k] = IF Receipted(k) THEN receipts[k] ELSE "rejected"
    BY ReceiptEffect DEF Reject
  <2>2. notices' = notices \cup {candidate.key} /\ jobs' = jobs
    BY <1>2 DEF Reject, Consumed
  <2>3. ~Receipted(candidate.key) /\ ~HasJob(candidate.key)
    BY <1>2 DEF Consumed
  <2> QED BY <1>1, <1>3, <2>1, <2>2, <2>3 DEF FatesAgree, Receipted
<1>14. NothingIsPassedOver'
  BY <1>1, <1>2, <1>3, <1>4, CycleType, DispatchAssumption
  DEF Reject, NothingIsPassedOver, Going, Bygone, InHand, CandidateFits
<1>15. QueueIsHandled'
  <2>1. \A d \in 1..Comments : InHand(d)' => InHand(d)
    BY <1>2 DEF InHand, Reject
  <2>2. \A d \in 1..Comments : Reached(d) => Reached(d)'
    BY <1>2 DEF Reached, Going, Reject
  <2>3. aborts' = aborts
    BY DEF Reject, bounds
  <2> QED BY <1>1, <1>2, <1>3, <1>4, <1>5, <1>6, <1>7, <2>1, <2>2, <2>3, QueueStays
<1>16. DrainsAreFree'
  BY <1>1, <1>2, <1>6, CycleType DEF Reject, DrainsAreFree, Undisturbed, bounds
<1>17. HandedOver'
  BY <1>1, <1>3, <1>5 DEF Reject, HandedOver, Undisturbed, bounds
<1> QED BY <1>8, <1>9, <1>10, <1>11, <1>12, <1>13, <1>14, <1>15, <1>16, <1>17 DEF IInv

\* A queued comment is newer than those queued before it: they are handled in order, and
\* what a drain puts back carries the number of its last comment.
LEMMA ParkKeeps ==
    ASSUME IInv, Park
    PROVE  IInv'
<1>1. /\ TypeOK /\ CandidateFits /\ CursorFits /\ DrainsFit
      /\ CurrentIsOwn /\ OneActiveJob /\ FatesAgree /\ NothingIsPassedOver
      /\ QueueIsHandled /\ QueueInOrder /\ DrainsAreFree /\ EntriesAreComments
      /\ HandedOver
  BY DEF IInv
<1>2. /\ pc = "park" /\ candidate.from \in {"labels", "comments", "drain"}
      /\ pc' = candidate.from /\ candidate' = NoCandidate /\ candidate'.from = "none"
      /\ candidate.issue \in Issue /\ candidate.key \in EventKey
      /\ candidate.messages \in Seq(1..Comments) /\ ~Consumed(candidate.key)
  <2>1. pc = "park" /\ candidate.from # "none" /\ ~Consumed(candidate.key)
    BY <1>1 DEF Park, CandidateFits, Deciding
  <2> QED BY <1>1, <2>1, CandidateType DEF Park, Return, NoCandidate
<1>3. /\ conversations' \in [Issue -> ConversationRow]
      /\ \A j \in Issue : /\ conversations'[j].current = conversations[j].current
                          /\ conversations'[j].status = conversations[j].status
                          /\ conversations'[j].workspace = conversations[j].workspace
      /\ \A j \in Issue \ {candidate.issue} : conversations'[j].pending = conversations[j].pending
      /\ conversations'[candidate.issue].pending
            = Append(conversations[candidate.issue].pending,
                     [key |-> candidate.key, messages |-> candidate.messages])
      /\ [key |-> candidate.key, messages |-> candidate.messages] \in Entry
  <2> DEFINE i == candidate.issue
             e == [key |-> candidate.key, messages |-> candidate.messages]
             row == conversations[i]
             new == Append(row.pending, e)
  <2>1. /\ conversations' = [conversations EXCEPT ![i].pending = new] /\ e \in Entry
        /\ i \in Issue
    BY <1>2 DEF Park, Appended, Consumed, Entry
  <2>2. row \in ConversationRow /\ row.pending \in Seq(Entry)
    BY <1>1, <2>1, QueueType
  <2> HIDE DEF e
  <2>3. new \in Seq(Entry)
    BY <2>1, <2>2
  <2> HIDE DEF row, new
  <2>4. /\ [row EXCEPT !.pending = new] \in ConversationRow
        /\ [row EXCEPT !.pending = new].pending = new
        /\ [row EXCEPT !.pending = new].current = row.current
        /\ [row EXCEPT !.pending = new].status = row.status
        /\ [row EXCEPT !.pending = new].workspace = row.workspace
    BY <2>2, <2>3 DEF ConversationRow
  <2>5. conversations' = [conversations EXCEPT ![i] = [row EXCEPT !.pending = new]]
        /\ conversations \in [Issue -> ConversationRow]
    BY <1>1, <2>1 DEF TypeOK, row
  <2>6. \A j \in Issue : conversations'[j] = IF j = i THEN [row EXCEPT !.pending = new]
                                             ELSE conversations[j]
    BY <2>1, <2>5
  <2>7. conversations' \in [Issue -> ConversationRow]
    BY <2>4, <2>5
  <2>8. \A j \in Issue : /\ conversations'[j].current = conversations[j].current
                         /\ conversations'[j].status = conversations[j].status
                         /\ conversations'[j].workspace = conversations[j].workspace
    BY <2>4, <2>6 DEF row
  <2> QED BY <2>1, <2>4, <2>6, <2>7, <2>8 DEF row, new, e
<1>4. /\ \A key : /\ Consumed(key)' <=> Consumed(key) \/ key = candidate.key
                  /\ Receipted(key)' <=> Receipted(key) \/ key = candidate.key
      /\ \A key : HasJob(key)' <=> HasJob(key)
  <2>1. \A key : Receipted(key)' <=> Receipted(key) \/ key = candidate.key
    BY ReceiptEffect DEF Park
  <2>2. \A key : HasJob(key)' <=> HasJob(key)
    BY DEF Park, HasJob
  <2> QED BY <2>1, <2>2 DEF Consumed, Receipted, HasJob
<1>5. \A d \in 1..Comments : Bygone(d) => Bygone(d)'
  BY <1>4, CycleType, DispatchAssumption
  DEF Park, Bygone, TypeOK, CursorFits, DispatchAssumption, Going, gitlab, database,
      poller, bounds
<1>6. Queued' = Queued \cup {candidate.key}
  <2> DEFINE i == candidate.issue
             old == conversations[i].pending
             e == [key |-> candidate.key, messages |-> candidate.messages]
  <2>1. /\ i \in Issue /\ old \in Seq(Entry) /\ e \in Entry
        /\ conversations'[i].pending = Append(old, e) /\ e.key = candidate.key
    BY <1>1, <1>2, <1>3, QueueType
  <2> HIDE DEF e
  <2>2. {Append(old, e)[p].key : p \in DOMAIN Append(old, e)}
          = {old[p].key : p \in DOMAIN old} \cup {e.key}
    <3> HIDE DEF old
    <3>1. /\ DOMAIN Append(old, e) = DOMAIN old \cup {Len(old) + 1}
          /\ \A p \in DOMAIN old : Append(old, e)[p] = old[p]
          /\ Append(old, e)[Len(old) + 1] = e
      BY <2>1
    <3> QED BY <3>1
  <2>3. \A j \in Issue \ {i} : conversations'[j].pending = conversations[j].pending
    BY <1>3
  <2> DEFINE K(j) == {conversations[j].pending[p].key : p \in DOMAIN conversations[j].pending}
             L(j) == {conversations'[j].pending[p].key : p \in DOMAIN conversations'[j].pending}
  <2>4. L(i) = K(i) \cup {candidate.key}
    BY <2>1, <2>2
  <2>5. \A j \in Issue \ {i} : L(j) = K(j)
    BY <2>3
  <2>6. Queued = UNION {K(j) : j \in Issue} /\ Queued' = UNION {L(j) : j \in Issue}
    BY DEF Queued
  <2> HIDE DEF K, L, i
  <2> QED BY <2>1, <2>4, <2>5, <2>6
<1>7. \A i \in Issue : CurrentState(i)' = CurrentState(i) /\ (Busy(i)' <=> Busy(i))
  BY <1>3 DEF Park, CurrentState, Busy
<1>8. \A k \in DOMAIN receipts' : k \in EventKey /\ receipts'[k] \in Fate
  <2>1. "parked" \in Fate
    BY DEF Fate
  <2> QED BY <1>1, <1>2, <2>1, ReceiptType DEF Park
<1>9. candidate.key.kind = "comment"
  BY <1>1, <1>2 DEF CandidateFits
<1>10. /\ \/ candidate.from = "comments"
          \/ /\ candidate.from = "drain" /\ conversations[candidate.issue].pending # <<>>
             /\ candidate.key = DrainKey(conversations[candidate.issue].pending)
       /\ candidate.from = "comments" =>
            /\ candidate.key.id \in 1..Comments
            /\ candidate.key = CommentKey(candidate.key.id)
            /\ cursor < candidate.key.id /\ candidate.key.id <= cycle.next
            /\ candidate.messages = <<candidate.key.id>> /\ cycle.halted = 0
            /\ IssueOf[candidate.key.id] = candidate.issue /\ cycle.drains = {}
            /\ \A d \in cycle.comments : candidate.key.id < d
  BY <1>1, <1>2 DEF CandidateFits, CursorFits, DrainsFit
<1>11. ASSUME candidate.from = "drain"
       PROVE  LET q == conversations[candidate.issue].pending IN
              /\ candidate.key.id = q[Len(q)].key.id /\ q[Len(q)].key \in Queued
              /\ Len(q) \in DOMAIN q /\ q \in Seq(Entry)
  <2> DEFINE q == conversations[candidate.issue].pending
  <2>1. /\ q \in Seq(Entry) /\ q # <<>> /\ candidate.key = DrainKey(q)
        /\ candidate.issue \in Issue
    BY <1>1, <1>2, <1>10, <1>11, QueueType
  <2>2. \A p \in DOMAIN q : q[p].key \in Queued
    BY <2>1 DEF Queued
  <2> HIDE DEF q
  <2>3. DrainKey(q).id = q[Len(q)].key.id /\ Len(q) \in DOMAIN q
    BY <2>1, DrainKeyType
  <2> QED BY <2>1, <2>2, <2>3 DEF q
<1>12. TypeOK'
  BY <1>1, <1>2, <1>3, <1>8, DispatchAssumption
  DEF Park, TypeOK, gitlab, database, poller, bounds, DispatchAssumption
<1>13. CandidateFits'
  BY <1>2, <1>4, <1>5, <1>6, <1>7, <1>8, <1>9, <1>10, <1>11, CycleType,
     DispatchAssumption
  DEF Park, CandidateFits, Deciding, gitlab, database, poller, bounds,
      DispatchAssumption
<1>14. CursorFits'
  BY <1>1, <1>2, <1>4, <1>5, <1>6, <1>7, <1>8, <1>9, <1>10, <1>11, CycleType,
     DispatchAssumption
  DEF Park, CursorFits, Going, gitlab, database, poller, bounds, DispatchAssumption,
      CandidateFits, Deciding
<1>15. DrainsFit'
  <2>1. cycle' = cycle
    BY DEF Park
  <2> QED BY <1>1, <1>2, <1>3, <2>1, CycleType DEF DrainsFit
<1>16. CurrentIsOwn'
  <2>1. jobs' = jobs
    BY DEF Park
  <2> QED BY <1>1, <1>3, <2>1 DEF CurrentIsOwn
<1>17. OneActiveJob'
  <2>1. jobs' = jobs /\ \A n \in DOMAIN jobs : jobs[n].issue \in Issue
    BY <1>1, JobType DEF Park
  <2> QED BY <1>1, <1>3, <2>1 DEF OneActiveJob
<1>18. FatesAgree'
  BY <1>1, FateAdded DEF Park
<1>19. NothingIsPassedOver'
  BY <1>1, <1>2, <1>4, <1>5, <1>6, <1>7, <1>8, <1>9, <1>10, <1>11, CycleType,
     DispatchAssumption
  DEF Park, NothingIsPassedOver, Going, gitlab, database, poller, bounds,
      DispatchAssumption, Bygone, InHand, CandidateFits, Deciding
<1>20. QueueIsHandled'
  <2>0. PICK k0 : k0 = candidate.key
    OBVIOUS
  <2>1. UNCHANGED <<posted, cursor, cycle, aborts>>
    BY DEF Park, gitlab, bounds
  <2>2. \A d : InHand(d)' <=> d \in cycle.comments
    BY <1>2, <2>1 DEF InHand
  <2>3. \A d : Reached(d)' <=> Reached(d)
    BY <1>2, <2>1 DEF Reached, Going
  <2>4. k0.kind = "comment" /\ k0.id \in 1..Comments /\ Receipted(CommentKey(k0.id))'
    BY <2>0, <1>1, <1>4, <1>9, <1>10, <1>11 DEF QueueIsHandled
  <2>5. ASSUME Plain = {}, NEW d \in 1..k0.id PROVE Bygone(d)'
    <3>1. CASE candidate.from = "comments"
      <4>1. d \in 1..cycle.next \ Plain /\ Going /\ cycle.halted = 0
        BY <2>0, <1>1, <1>10, <2>5, <3>1, CycleType DEF Going
      <4>2. Bygone(d) \/ InHand(d)
        BY <1>1, <4>1 DEF NothingIsPassedOver
      <4>3. InHand(d) => d = k0.id
        BY <2>0, <1>10, <3>1 DEF InHand
      <4>4. Bygone(k0.id)'
        BY <2>0, <1>4, <1>10, <3>1 DEF Bygone
      <4>5. d \in 1..Comments
        BY <2>4, DispatchAssumption
      <4> QED BY <2>0, <1>5, <4>2, <4>3, <4>4, <4>5
    <3>2. CASE candidate.from = "drain"
      <4>1. Bygone(d)
        BY <2>0, <1>1, <1>11, <2>5, <3>2 DEF QueueIsHandled
      <4>2. d \in 1..Comments
        BY <2>4, DispatchAssumption
      <4> QED BY <2>0, <1>5, <4>1, <4>2
    <3> QED BY <2>0, <1>10, <3>1, <3>2
  <2>6. aborts = 0 => Reached(k0.id)'
    <3>1. candidate.from = "comments" => Reached(k0.id)
      BY <2>0, <1>10 DEF Reached, Going
    <3>2. candidate.from = "drain" /\ aborts = 0 => Reached(k0.id)
      BY <2>0, <1>1, <1>11 DEF QueueIsHandled
    <3> QED BY <2>0, <1>10, <2>3, <3>1, <3>2
  <2>7. ASSUME Plain = {} \/ aborts = 0, NEW d \in 1..Comments, d \in cycle.comments
        PROVE  Consumed(CommentKey(d)) \/ k0.id < d
    <3>1. candidate.from = "comments" => k0.id < d
      BY <2>0, <1>10, <2>7
    <3>2. candidate.from = "drain" => Consumed(CommentKey(d)) \/ k0.id < d
      BY <2>0, <1>1, <1>11, <2>7 DEF QueueIsHandled, InHand
    <3> QED BY <2>0, <1>10, <3>1, <3>2
  <2> QED BY <2>0, <1>1, <1>4, <1>5, <1>6, <2>1, <2>2, <2>3, <2>4, <2>5, <2>6, <2>7,
  QueueGrows
          DEF InHand
<1>21. QueueInOrder'
  <2> SUFFICES ASSUME Plain = {} \/ aborts = 0, NEW j \in Issue,
                      NEW p \in DOMAIN conversations'[j].pending,
                      NEW q \in DOMAIN conversations'[j].pending, p < q
               PROVE  conversations'[j].pending[p].key.id <= conversations'[j].pending[q].key.id
    BY DEF QueueInOrder, InOrder, Park, bounds
  <2>1. \A i \in Issue : InOrder(conversations[i].pending)
    BY <1>1 DEF QueueInOrder
  <2>2. CASE j # candidate.issue
    BY <1>3, <2>1, <2>2 DEF InOrder
  <2>3. CASE j = candidate.issue
    <3> DEFINE old == conversations[j].pending
               e == [key |-> candidate.key, messages |-> candidate.messages]
    <3>1. /\ old \in Seq(Entry) /\ e \in Entry /\ conversations'[j].pending = Append(old, e)
          /\ e.key = candidate.key
      BY <1>1, <1>2, <1>3, <2>3, QueueType
    <3>2. \A r \in DOMAIN old : old[r].key.id <= candidate.key.id
      <4> SUFFICES ASSUME NEW r \in DOMAIN old PROVE old[r].key.id <= candidate.key.id
        OBVIOUS
      <4>1. CASE candidate.from = "comments"
        <5>1. InHand(candidate.key.id) /\ ~Consumed(CommentKey(candidate.key.id))
          BY <1>2, <1>10, <4>1 DEF InHand
        <5>2. old[r].key \in Queued
          BY DEF Queued
        <5>3. old[r].key.id < candidate.key.id
          BY <1>1, <1>10, <4>1, <5>1, <5>2 DEF QueueIsHandled
        <5>4. old[r].key.id \in Nat /\ candidate.key.id \in Nat
          BY <1>1, <1>2, QueueType, CandidateType
        <5> QED BY <5>3, <5>4
      <4>2. CASE candidate.from = "drain"
        <5>1. candidate.key.id = old[Len(old)].key.id /\ Len(old) \in DOMAIN old
          BY <1>11, <2>3, <4>2
        <5>2. old[r].key.id \in Nat
          BY <1>1, QueueType
        <5>3. r < Len(old) \/ r = Len(old)
          BY <3>1
        <5>4. r < Len(old) => old[r].key.id <= old[Len(old)].key.id
          BY <2>1, <5>1 DEF InOrder
        <5> QED BY <5>1, <5>2, <5>3, <5>4
      <4> QED BY <1>10, <4>1, <4>2
    <3>3. \A r, s \in DOMAIN old : r < s => old[r].key.id <= old[s].key.id
      BY <2>1 DEF InOrder
    <3> HIDE DEF old, e
    <3>4. p \in 1..(Len(old) + 1) /\ q \in 1..(Len(old) + 1) /\ p \in DOMAIN old
          /\ Append(old, e)[p] = old[p]
      BY <3>1
    <3>5. q \in DOMAIN old => Append(old, e)[q] = old[q]
      BY <3>1
    <3>6. q \notin DOMAIN old => Append(old, e)[q] = e
      BY <3>1, <3>4
    <3> QED BY <3>1, <3>2, <3>3, <3>4, <3>5, <3>6
  <2> QED BY <2>2, <2>3
<1>22. DrainsAreFree'
  BY <1>1, <1>2, <1>3, <1>4, <1>5, <1>6, <1>7, <1>8, <1>9, <1>10, <1>11, CycleType,
     DispatchAssumption
  DEF Park, DrainsAreFree, Undisturbed, gitlab, database, poller, bounds,
      DispatchAssumption, CandidateFits, Deciding
<1>23. EntriesAreComments'
  <2> SUFFICES ASSUME Undisturbed PROVE EntriesAreComments'
    BY DEF EntriesAreComments, Undisturbed, Park, bounds
  <2> DEFINE i == candidate.issue
             c == candidate.key.id
             old == conversations[i].pending
             e == [key |-> candidate.key, messages |-> candidate.messages]
  <2>1. candidate.from = "comments"
    BY <1>1, <1>2 DEF DrainsAreFree
  <2>2. e.key = CommentKey(c) /\ e.messages = <<c>> /\ e.key.id = c /\ IssueOf[c] = i
        /\ old \in Seq(Entry) /\ e \in Entry /\ i \in Issue
        /\ conversations'[i].pending = Append(old, e)
    BY <1>1, <1>2, <1>3, <1>10, <2>1, QueueType
  <2>3. \A p \in DOMAIN old : /\ old[p].key = CommentKey(old[p].key.id) /\ old[p].key # e.key
                              /\ old[p].messages = <<old[p].key.id>>
                              /\ IssueOf[old[p].key.id] = i
    <3>1. \A p \in DOMAIN old : /\ old[p].key = CommentKey(old[p].key.id)
                                /\ old[p].messages = <<old[p].key.id>>
                                /\ IssueOf[old[p].key.id] = i
      BY <1>1, <1>2 DEF EntriesAreComments
    <3>2. \A p \in DOMAIN old : old[p].key \in Queued
      BY <1>2 DEF Queued
    <3>3. \A p \in DOMAIN old : Receipted(CommentKey(old[p].key.id))
      BY <1>1, <3>2 DEF QueueIsHandled
    <3> QED BY <1>2, <3>1, <3>3 DEF Consumed
  <2>4. \A p, q \in DOMAIN old : old[p].key = old[q].key => p = q
    BY <1>1, <1>2 DEF EntriesAreComments
  <2> HIDE DEF old, e
  <2>5. /\ DOMAIN Append(old, e) = DOMAIN old \cup {Len(old) + 1}
        /\ \A p \in DOMAIN old : Append(old, e)[p] = old[p]
        /\ Append(old, e)[Len(old) + 1] = e
    BY <2>2
  <2>6. \A j \in Issue : j # i => conversations'[j].pending = conversations[j].pending
    BY <1>3
  <2>7. \A j \in Issue : LET queue == conversations'[j].pending IN
          /\ \A p \in DOMAIN queue : LET d == queue[p].key.id IN
               queue[p].key = CommentKey(d) /\ queue[p].messages = <<d>> /\ IssueOf[d] = j
          /\ \A p, q \in DOMAIN queue : queue[p].key = queue[q].key => p = q
    <3> SUFFICES ASSUME NEW j \in Issue
                 PROVE  LET queue == conversations'[j].pending IN
          /\ \A p \in DOMAIN queue : LET d == queue[p].key.id IN
               queue[p].key = CommentKey(d) /\ queue[p].messages = <<d>> /\ IssueOf[d] = j
          /\ \A p, q \in DOMAIN queue : queue[p].key = queue[q].key => p = q
      OBVIOUS
    <3>1. CASE j # i
      BY <1>1, <2>6, <3>1 DEF EntriesAreComments
    <3>2. CASE j = i
      <4>1. \A p \in DOMAIN Append(old, e) : LET d == Append(old, e)[p].key.id IN
              /\ Append(old, e)[p].key = CommentKey(d) /\ Append(old, e)[p].messages = <<d>>
              /\ IssueOf[d] = i
        BY <2>2, <2>3, <2>5
      <4>2. \A p, q \in DOMAIN Append(old, e) :
              Append(old, e)[p].key = Append(old, e)[q].key => p = q
        BY <2>3, <2>4, <2>5
      <4>3. conversations'[j].pending = Append(old, e)
        BY <2>2, <3>2
      <4> QED BY <3>2, <4>1, <4>2, <4>3
    <3> QED BY <3>1, <3>2
  <2> QED BY <2>7 DEF EntriesAreComments
<1>24. HandedOver'
  <2>1. UNCHANGED <<jobs, aborts, cleanups>>
    BY DEF Park, bounds
  <2> QED BY <1>1, <1>4, <1>6, <1>2, <2>1 DEF HandedOver, Undisturbed, Consumed
<1> QED BY <1>12, <1>13, <1>14, <1>15, <1>16, <1>17, <1>18, <1>19, <1>20, <1>21,
<1>22, <1>23, <1>24 DEF IInv

\* The conversation without a run is bound to the owner.
LEMMA UpsertKeeps ==
    ASSUME IInv, Upsert
    PROVE  IInv'
<1>1. /\ TypeOK /\ CandidateFits /\ CursorFits /\ DrainsFit
      /\ CurrentIsOwn /\ OneActiveJob /\ FatesAgree /\ NothingIsPassedOver
      /\ QueueIsHandled /\ QueueInOrder /\ DrainsAreFree /\ EntriesAreComments
      /\ HandedOver
  BY DEF IInv
<1>2. /\ pc = "upsert" /\ candidate.from # "none" /\ candidate.issue \in Issue
      /\ candidate.owner \in Workspace /\ pc' \in {"reject", "record"}
      /\ CurrentState(candidate.issue) # "active" /\ ~Consumed(candidate.key)
  <2>1. pc = "upsert" /\ candidate.from # "none"
    BY <1>1 DEF Upsert, CandidateFits, Deciding
  <2> QED BY <1>1, <2>1, CandidateType DEF Upsert, CandidateFits
<1>3. /\ conversations' \in [Issue -> ConversationRow]
      /\ \A j \in Issue : /\ conversations'[j].pending = conversations[j].pending
                          /\ conversations'[j].current = conversations[j].current
                          /\ conversations'[j].status = conversations[j].status
                             \/ (conversations[j].status = "absent"
                                 /\ conversations'[j].status = "idle")
                          /\ j # candidate.issue =>
                               conversations'[j].workspace = conversations[j].workspace
      /\ pc' = "record" => conversations'[candidate.issue].workspace = candidate.owner
  <2> DEFINE i == candidate.issue
  <2>1. CASE conversations[i].status \in {"finishing", "cleaning", "cleanup-failed"}
    BY <1>1, <2>1 DEF Upsert, TypeOK
  <2>2. CASE conversations[i].status \notin {"finishing", "cleaning", "cleanup-failed"}
    <3>1. conversations' = [conversations EXCEPT
              ![i].workspace = candidate.owner, ![i].status = IF @ = "absent" THEN "idle" ELSE @]
      BY <2>2 DEF Upsert
    <3> DEFINE old == conversations[i]
               status == IF old.status = "absent" THEN "idle" ELSE old.status
               new == [old EXCEPT !.workspace = candidate.owner, !.status = status]
    <3>2. conversations' = [conversations EXCEPT ![i] = new] /\ old \in ConversationRow
          /\ i \in Issue /\ conversations \in [Issue -> ConversationRow]
      BY <1>1, <1>2, <3>1, QueueType DEF TypeOK
    <3> HIDE DEF old
    <3>3. /\ new \in ConversationRow /\ new.pending = old.pending
          /\ new.current = old.current
          /\ new.workspace = candidate.owner /\ new.status = status
      BY <1>2, <3>2 DEF ConversationRow
    <3>4. status = old.status \/ (old.status = "absent" /\ status = "idle")
      OBVIOUS
    <3> HIDE DEF new, status
    <3>5. conversations' \in [Issue -> ConversationRow]
          /\ \A j \in Issue : conversations'[j] = IF j = i THEN new ELSE conversations[j]
      BY <3>2, <3>3
    <3> QED BY <3>2, <3>3, <3>4, <3>5 DEF old
  <2> QED BY <2>1, <2>2
<1>4. \A key : (Consumed(key)' <=> Consumed(key)) /\ (Receipted(key)' <=> Receipted(key))
  BY DEF Upsert, Consumed, Receipted, HasJob
<1>5. \A d \in 1..Comments : Bygone(d) => Bygone(d)'
  BY <1>4 DEF Upsert, Bygone, gitlab
<1>6. Queued' = Queued
  BY <1>3 DEF Queued
<1>7. \A i \in Issue : CurrentState(i)' = CurrentState(i) /\ (Busy(i)' <=> Busy(i))
  BY <1>3 DEF Upsert, CurrentState, Busy
<1>8. FatesAgree'
  BY Untouched DEF Upsert
<1>9. TypeOK'
  BY <1>1, <1>3 DEF Upsert, TypeOK, gitlab, bounds
<1>10. CandidateFits'
  <2>1. UNCHANGED <<candidate, jobs>>
    BY DEF Upsert
  <2> QED BY <1>1, <1>4, <1>7, <1>2, <1>3, <2>1 DEF CandidateFits, Deciding
<1>11. CursorFits'
  BY <1>1 DEF Upsert, CursorFits, Going, gitlab
<1>12. DrainsFit'
  <2>1. UNCHANGED <<cycle, candidate>>
    BY DEF Upsert
  <2> QED BY <1>1, <1>2, <1>3, <2>1, CycleType DEF DrainsFit
<1>13. CurrentIsOwn'
  <2>1. jobs' = jobs
    BY DEF Upsert
  <2> QED BY <1>1, <1>3, <2>1 DEF CurrentIsOwn
<1>14. OneActiveJob'
  <2>1. jobs' = jobs
    BY DEF Upsert
  <2>2. \A n \in DOMAIN jobs : jobs[n].state = "active" =>
          /\ conversations[jobs[n].issue].current = n /\ jobs[n].issue \in Issue
          /\ jobs[n].issue # candidate.issue
    BY <1>1, <1>2, JobType DEF OneActiveJob, CurrentState
  <2> QED BY <1>1, <1>3, <2>1, <2>2 DEF OneActiveJob
<1>15. NothingIsPassedOver'
  BY <1>1, <1>5, CycleType, DispatchAssumption
  DEF Upsert, NothingIsPassedOver, Going, InHand
<1>16. QueueIsHandled'
  <2>1. \A d \in 1..Comments : InHand(d)' => InHand(d)
    BY DEF InHand, Upsert
  <2>2. \A d \in 1..Comments : Reached(d) => Reached(d)'
    BY DEF Reached, Going, Upsert
  <2>3. aborts' = aborts
    BY DEF Upsert, bounds
  <2> QED BY <1>1, <1>2, <1>3, <1>4, <1>5, <1>6, <1>7, <2>1, <2>2, <2>3, QueueStays
<1>17. QueueInOrder'
  <2>1. aborts' = aborts
    BY DEF Upsert, bounds
  <2> QED BY <1>1, <1>3, <2>1 DEF QueueInOrder, InOrder
<1>18. DrainsAreFree'
  <2>1. UNCHANGED <<cycle, candidate, cleaning, aborts, cleanups>>
    BY DEF Upsert, bounds
  <2> QED BY <1>1, <1>7, <1>2, <1>3, <2>1, CycleType DEF DrainsAreFree, Undisturbed
<1>19. EntriesAreComments'
  <2>1. UNCHANGED <<aborts, cleanups>>
    BY DEF Upsert, bounds
  <2> QED BY <1>1, <1>3, <2>1 DEF EntriesAreComments, Undisturbed
<1>20. HandedOver'
  BY <1>1, <1>4, <1>6 DEF Upsert, HandedOver, Undisturbed, bounds
<1> QED BY <1>8, <1>9, <1>10, <1>11, <1>12, <1>13, <1>14, <1>15, <1>16, <1>17, <1>18,
<1>19, <1>20 DEF IInv

\* The job recorded is the only one of its event, of its comments and of its conversation.
LEMMA RecordKeeps ==
    ASSUME IInv, Record
    PROVE  IInv'
<1>1. /\ TypeOK /\ CandidateFits /\ CursorFits /\ DrainsFit
      /\ CurrentIsOwn /\ OneActiveJob /\ FatesAgree /\ NothingIsPassedOver
      /\ QueueIsHandled /\ QueueInOrder /\ DrainsAreFree /\ EntriesAreComments
      /\ HandedOver
  BY DEF IInv
<1>2. /\ pc = "record" /\ candidate.from \in {"labels", "comments", "drain"}
      /\ candidate.issue \in Issue /\ candidate.key \in EventKey
      /\ candidate.messages \in Seq(1..Comments) /\ ~Consumed(candidate.key)
      /\ CurrentState(candidate.issue) # "active"
      /\ conversations[candidate.issue].workspace \in Workspace
      /\ \/ candidate.from = "drain" /\ pc' = "clear" /\ candidate' = candidate
         \/ /\ candidate.from # "drain" /\ pc' = candidate.from
            /\ candidate' = NoCandidate /\ candidate'.from = "none"
  <2>1. pc = "record" /\ candidate.from # "none" /\ ~Consumed(candidate.key)
    BY <1>1 DEF Record, CandidateFits, Deciding
  <2>2. /\ CurrentState(candidate.issue) # "active"
        /\ conversations[candidate.issue].workspace \in Workspace
    BY <1>1, <2>1 DEF CandidateFits
  <2> QED BY <1>1, <2>1, <2>2, CandidateType DEF Record, Return, NoCandidate
<1>3. /\ jobs' \in Seq(JobRow) /\ DOMAIN jobs' = DOMAIN jobs \cup {Len(jobs) + 1}
      /\ Len(jobs) + 1 \notin DOMAIN jobs /\ Len(jobs) + 1 \in Nat \ {0}
      /\ \A n \in DOMAIN jobs : jobs'[n] = jobs[n]
      /\ jobs'[Len(jobs) + 1].key = candidate.key
      /\ jobs'[Len(jobs) + 1].issue = candidate.issue
      /\ jobs'[Len(jobs) + 1].workspace = conversations[candidate.issue].workspace
      /\ jobs'[Len(jobs) + 1].messages = candidate.messages
      /\ jobs'[Len(jobs) + 1].state = "active"
  <2> DEFINE new == [key |-> candidate.key, issue |-> candidate.issue,
                     workspace |-> conversations[candidate.issue].workspace,
                     messages |-> candidate.messages, state |-> "active"]
  <2>1. /\ new \in JobRow /\ new.key = candidate.key /\ new.issue = candidate.issue
        /\ new.workspace = conversations[candidate.issue].workspace
        /\ new.messages = candidate.messages /\ new.state = "active"
    BY <1>2 DEF JobRow
  <2>2. jobs \in Seq(JobRow) /\ jobs' = Append(jobs, new)
    BY <1>1 DEF TypeOK, Record
  <2> HIDE DEF new
  <2>3. /\ jobs' \in Seq(JobRow) /\ DOMAIN jobs' = DOMAIN jobs \cup {Len(jobs) + 1}
        /\ Len(jobs) + 1 \notin DOMAIN jobs /\ Len(jobs) + 1 \in Nat \ {0}
        /\ \A n \in DOMAIN jobs : jobs'[n] = jobs[n]
        /\ jobs'[Len(jobs) + 1] = new
    BY <2>1, <2>2
  <2> QED BY <2>1, <2>3
<1>4. /\ conversations' \in [Issue -> ConversationRow]
      /\ \A j \in Issue : /\ conversations'[j].pending = conversations[j].pending
                          /\ conversations'[j].workspace = conversations[j].workspace
      /\ \A j \in Issue \ {candidate.issue} :
              /\ conversations'[j].current = conversations[j].current
              /\ conversations'[j].status = conversations[j].status
      /\ conversations'[candidate.issue].current = Len(jobs) + 1
      /\ conversations'[candidate.issue].status = "active"
  <2> DEFINE i == candidate.issue
             old == conversations[i]
             new == [old EXCEPT !.current = Len(jobs) + 1, !.status = "active"]
  <2>0. conversations' = [conversations EXCEPT ![i] = new]
    BY DEF Record
  <2>1. conversations' = [conversations EXCEPT ![i] = new] /\ old \in ConversationRow
        /\ i \in Issue /\ conversations \in [Issue -> ConversationRow]
        /\ Len(jobs) + 1 \in Nat
    BY <1>1, <1>2, <2>0 DEF TypeOK
  <2> HIDE DEF old
  <2>2. /\ new \in ConversationRow /\ new.pending = old.pending
        /\ new.workspace = old.workspace
        /\ new.current = Len(jobs) + 1 /\ new.status = "active"
    BY <2>1 DEF ConversationRow
  <2> HIDE DEF new
  <2>3. conversations' \in [Issue -> ConversationRow]
        /\ \A j \in Issue : conversations'[j] = IF j = i THEN new ELSE conversations[j]
    BY <2>1, <2>2
  <2> QED BY <2>1, <2>2, <2>3 DEF old
<1>5. \A key : /\ Consumed(key)' <=> Consumed(key) \/ key = candidate.key
               /\ Receipted(key)' <=> Receipted(key) \/ key = candidate.key
               /\ HasJob(key)' <=> HasJob(key) \/ key = candidate.key
  <2>1. \A key : Receipted(key)' <=> Receipted(key) \/ key = candidate.key
    BY ReceiptEffect DEF Record
  <2>2. \A key : HasJob(key)' <=> HasJob(key) \/ key = candidate.key
    BY <1>3 DEF HasJob
  <2> QED BY <2>1, <2>2 DEF Consumed
<1>6. \A d \in 1..Comments : Bygone(d) => Bygone(d)'
  BY <1>5 DEF Record, Bygone, gitlab
<1>7. Queued' = Queued
  BY <1>4 DEF Queued
<1>8. /\ \A j \in Issue \ {candidate.issue} :
              CurrentState(j)' = CurrentState(j) /\ (Busy(j)' <=> Busy(j))
      /\ Queued' = Queued
  BY <1>1, <1>7, <1>4, <1>3 DEF CurrentState, Busy, CurrentIsOwn
<1>9. \A k \in DOMAIN receipts' : k \in EventKey /\ receipts'[k] \in Fate
  <2>1. "dispatched" \in Fate
    BY DEF Fate
  <2> QED BY <1>1, <1>2, <2>1, ReceiptType DEF Record
<1>10. UNCHANGED <<posted, cursor, notices, cycle, cleaning, aborts, cleanups>>
  BY DEF Record, gitlab, bounds
<1>11. TypeOK'
  <2>1. candidate' \in Candidates \cup {NoCandidate}
    BY <1>1, <1>2 DEF TypeOK
  <2>2. /\ UNCHANGED <<posted, label, labelEvents, owner, cursor, bootstrapped>>
        /\ UNCHANGED <<notices, cleaning, cycle, aborts, outages, reassigned, cleanups>>
    BY DEF Record, gitlab, bounds
  <2> QED BY <1>1, <1>2, <1>4, <1>3, <1>9, <2>1, <2>2 DEF TypeOK
<1>12. CandidateFits'
  BY <1>2 DEF CandidateFits, Deciding
<1>13. CursorFits'
  BY <1>1, <1>2, <1>10
  DEF CursorFits, Going, gitlab, database, poller, bounds, DispatchAssumption,
      CandidateFits, Deciding
<1>14. DrainsFit'
  BY <1>1, <1>2, <1>4, <1>10, CycleType DEF DrainsFit
<1>15. CurrentIsOwn'
  BY <1>1, <1>4, <1>3 DEF CurrentIsOwn
<1>16. OneActiveJob'
  <2>1. \A n \in DOMAIN jobs : jobs[n].state = "active" =>
          /\ conversations[jobs[n].issue].current = n /\ jobs[n].issue \in Issue
          /\ jobs[n].issue # candidate.issue
    BY <1>1, <1>2, JobType DEF OneActiveJob, CurrentState
  <2>2. ASSUME NEW n \in DOMAIN jobs', jobs'[n].state = "active"
        PROVE  /\ conversations'[jobs'[n].issue].current = n
               /\ conversations'[jobs'[n].issue].workspace = jobs'[n].workspace
               /\ jobs'[n].workspace \in Workspace
    <3>1. CASE n \in DOMAIN jobs
      <4>1. jobs'[n] = jobs[n] /\ jobs[n].state = "active"
        BY <1>3, <2>2, <3>1
      <4>2. /\ conversations[jobs[n].issue].workspace = jobs[n].workspace
            /\ jobs[n].workspace \in Workspace
        BY <1>1, <3>1, <4>1 DEF OneActiveJob
      <4> QED BY <1>4, <2>1, <3>1, <4>1, <4>2
    <3>2. CASE n = Len(jobs) + 1
      BY <1>2, <1>4, <1>3, <3>2
    <3> QED BY <1>3, <2>2, <3>1, <3>2
  <2> QED BY <2>2 DEF OneActiveJob
<1>17. FatesAgree'
  <2>1. \A k \in DOMAIN receipts' :
           receipts'[k] = IF Receipted(k) THEN receipts[k] ELSE "dispatched"
    BY ReceiptEffect DEF Record
  <2>2. ~Receipted(candidate.key) /\ ~HasJob(candidate.key) /\ candidate.key \notin notices
    BY <1>1, <1>2 DEF Consumed, FatesAgree
  <2>3. \A k \in DOMAIN receipts' : /\ receipts'[k] = "dispatched" <=> HasJob(k)'
                                    /\ receipts'[k] = "rejected" <=> k \in notices'
    BY <1>1, <1>5, <1>10, <2>1, <2>2 DEF FatesAgree, Receipted
  <2>4. (\A key \in notices : Receipted(key))'
    BY <1>1, <1>5, <1>10 DEF FatesAgree
  <2>5. (\A m, n \in DOMAIN jobs :
           Receipted(jobs[n].key) /\ (jobs[m].key = jobs[n].key => m = n))'
    <3>1. \A n \in DOMAIN jobs : jobs[n].key # candidate.key /\ Receipted(jobs[n].key)
      BY <1>1, <2>2 DEF FatesAgree
    <3>2. (\A n \in DOMAIN jobs : Receipted(jobs[n].key))'
      <4>1. \A n \in DOMAIN jobs' : Receipted(jobs'[n].key) \/ jobs'[n].key = candidate.key
        BY <1>3, <3>1
      <4> QED BY <1>5, <4>1
    <3>3. \A m, n \in DOMAIN jobs' : jobs'[m].key = jobs'[n].key => m = n
      BY <1>1, <1>3, <3>1 DEF FatesAgree
    <3> QED BY <3>2, <3>3
  <2> QED BY <2>3, <2>4, <2>5 DEF FatesAgree
<1>18. NothingIsPassedOver'
  <2>1. \A d \in 1..Comments : InHand(d) => InHand(d)' \/ Bygone(d)'
    <3>1. candidate.from = "comments" => candidate.key = CommentKey(candidate.key.id)
      BY <1>1 DEF CandidateFits
    <3> QED BY <1>5, <1>2, <1>10, <3>1 DEF InHand, Bygone
  <2>2. Going' => Going /\ 1..cycle.next \subseteq 1..Comments
    BY <1>1, <1>2, CycleType, DispatchAssumption DEF Going
  <2> QED BY <1>1, <1>6, <1>10, <2>1, <2>2 DEF NothingIsPassedOver
<1>19. QueueIsHandled'
  <2>1. \A d \in 1..Comments : InHand(d)' => InHand(d)
    BY <1>2, <1>10 DEF InHand
  <2>2. \A d \in 1..Comments : Reached(d) => Reached(d)'
    BY <1>2, <1>10
    DEF Reached, Going, CursorFits, CandidateFits, Deciding, DispatchAssumption,
        database, poller
  <2>3. aborts' = aborts
    BY DEF Record, bounds
  <2> QED BY <1>1, <1>2, <1>3, <1>4, <1>5, <1>6, <1>7, <1>8, <1>9, <1>10, <2>1, <2>2,
  <2>3, QueueStays
<1>20. QueueInOrder'
  <2>1. aborts' = aborts
    BY DEF Record, bounds
  <2> QED BY <1>1, <1>4, <2>1 DEF QueueInOrder, InOrder
<1>21. DrainsAreFree'
  BY <1>1, <1>8, <1>2, <1>4, <1>10, CycleType
  DEF DrainsAreFree, DrainsFit, Undisturbed
<1>22. EntriesAreComments'
  <2>1. UNCHANGED <<aborts, cleanups>>
    BY DEF Record, bounds
  <2> QED BY <1>1, <1>4, <2>1 DEF EntriesAreComments, Undisturbed
<1>23. HandedOver'
  <2> SUFFICES ASSUME Undisturbed PROVE HandedOver'
    BY <1>10 DEF HandedOver, Undisturbed
  <2>0. PICK said : said = candidate.messages
    OBVIOUS
  <2>1. \A n \in DOMAIN jobs : \A k \in DOMAIN jobs[n].messages :
          LET c == jobs[n].messages[k] IN
          /\ Receipted(CommentKey(c)) /\ CommentKey(c) \notin Queued
          /\ \A m \in DOMAIN jobs : \A j \in DOMAIN jobs[m].messages :
               jobs[m].messages[j] = c => m = n /\ j = k
    BY <1>1, <1>2 DEF HandedOver
  <2>2. \A k \in DOMAIN said :
          /\ Receipted(CommentKey(said[k]))'
          /\ CommentKey(said[k]) \in Queued => pc' = "clear" /\ IssueOf[said[k]] = candidate'.issue
          /\ \A n \in DOMAIN jobs : \A j \in DOMAIN jobs[n].messages :
               jobs[n].messages[j] # said[k]
          /\ \A j \in DOMAIN said : said[j] = said[k] => j = k
    <3>1. CASE candidate.from = "labels"
      BY <1>1, <2>0, <3>1 DEF CandidateFits
    <3>2. CASE candidate.from = "comments"
      <4>1. said = <<candidate.key.id>> /\ candidate.key = CommentKey(candidate.key.id)
        BY <1>1, <2>0, <3>2 DEF CandidateFits
      <4>2. \A key \in Queued : Receipted(CommentKey(key.id))
        BY <1>1 DEF QueueIsHandled
      <4>3. CommentKey(candidate.key.id) \notin Queued
        <5>1. CommentKey(candidate.key.id).id = candidate.key.id
          BY DEF CommentKey
        <5> QED BY <1>2, <4>1, <4>2, <5>1 DEF Consumed
      <4>4. ~Receipted(CommentKey(candidate.key.id))
        BY <1>2, <4>1 DEF Consumed
      <4>5. \A k \in DOMAIN said : k = 1 /\ said[k] = candidate.key.id
        BY <4>1
      <4>6. \A k \in DOMAIN said : CommentKey(said[k]) = candidate.key
        BY <4>1, <4>5
      <4> QED BY <1>5, <2>1, <4>1, <4>3, <4>4, <4>5, <4>6
    <3>3. CASE candidate.from = "drain"
      <4> DEFINE queue == conversations[candidate.issue].pending
      <4>1. queue \in Seq(Entry) /\ said = Messages(queue) /\ candidate.issue \in Issue
        BY <1>1, <1>2, <2>0, <3>3, QueueType DEF DrainsFit
      <4>2. /\ \A p \in DOMAIN queue : /\ queue[p].key = CommentKey(queue[p].key.id)
                                       /\ queue[p].messages = <<queue[p].key.id>>
                                       /\ IssueOf[queue[p].key.id] = candidate.issue
            /\ \A p, q \in DOMAIN queue : queue[p].key = queue[q].key => p = q
        BY <1>1, <4>1 DEF EntriesAreComments
      <4>3. \A p \in DOMAIN queue : queue[p].key \in Queued
        BY <4>1 DEF Queued
      <4>4. \A p \in DOMAIN queue : Receipted(queue[p].key)
        BY <1>1, <4>2, <4>3 DEF QueueIsHandled
      <4> HIDE DEF queue
      <4>5. DOMAIN said = DOMAIN queue /\ \A p \in DOMAIN queue : said[p] = queue[p].key.id
        BY <4>1, <4>2, MessagesOfComments
      <4>6. \A k \in DOMAIN said : queue[k].key = CommentKey(said[k]) /\ queue[k].key \in Queued
        BY <4>2, <4>3, <4>5
      <4> QED BY <1>5, <1>2, <2>1, <3>3, <4>2, <4>4, <4>5, <4>6
    <3> QED BY <1>2, <3>1, <3>2, <3>3
  <2>3. ASSUME NEW n \in DOMAIN jobs', NEW k \in DOMAIN jobs'[n].messages,
               NEW c, c = jobs'[n].messages[k]
        PROVE  /\ Receipted(CommentKey(c))'
               /\ CommentKey(c) \in Queued' => pc' = "clear" /\ IssueOf[c] = candidate'.issue
               /\ \A m \in DOMAIN jobs' : \A j \in DOMAIN jobs'[m].messages :
                    jobs'[m].messages[j] = c => m = n /\ j = k
    <3>1. /\ \A m \in DOMAIN jobs' : m \in DOMAIN jobs \/ m = Len(jobs) + 1
          /\ \A m \in DOMAIN jobs : jobs'[m].messages = jobs[m].messages
          /\ jobs'[Len(jobs) + 1].messages = said
      BY <1>3, <2>0
    <3>2. CASE n \in DOMAIN jobs
      BY <1>5, <1>7, <2>1, <2>2, <2>3, <3>1
    <3>3. CASE n = Len(jobs) + 1
      BY <1>7, <2>2, <2>3, <3>1, <3>3
    <3> QED BY <3>1, <3>2, <3>3
  <2> QED BY <2>3 DEF HandedOver
<1> QED BY <1>11, <1>12, <1>13, <1>14, <1>15, <1>16, <1>17, <1>18, <1>19, <1>20,
<1>21, <1>22, <1>23 DEF IInv

\* What was listed is dropped from the queue, which nothing was added to since.
LEMMA ClearPendingKeeps ==
    ASSUME IInv, ClearPending
    PROVE  IInv'
<1>1. /\ TypeOK /\ CandidateFits /\ CursorFits /\ DrainsFit
      /\ CurrentIsOwn /\ OneActiveJob /\ FatesAgree /\ NothingIsPassedOver
      /\ QueueIsHandled /\ QueueInOrder /\ DrainsAreFree /\ EntriesAreComments
      /\ HandedOver
  BY DEF IInv
<1>2. /\ pc = "clear" /\ candidate.from = "drain" /\ pc' = "drain"
      /\ candidate.issue \in Issue
      /\ candidate' = NoCandidate /\ candidate'.from = "none" /\ NoCandidate.from = "none"
      /\ candidate.count = Len(conversations[candidate.issue].pending)
  <2>1. pc = "clear" /\ candidate.from = "drain"
    BY <1>1 DEF ClearPending, CandidateFits
  <2> QED BY <1>1, <2>1, CandidateType
  DEF ClearPending, Return, NoCandidate, DrainsFit
<1>3. /\ conversations' \in [Issue -> ConversationRow]
      /\ \A j \in Issue : /\ conversations'[j].current = conversations[j].current
                          /\ conversations'[j].status = conversations[j].status
                          /\ conversations'[j].workspace = conversations[j].workspace
                          /\ conversations'[j].pending =
                               IF j = candidate.issue THEN <<>> ELSE conversations[j].pending
  BY <1>1, <1>2, ClearedEffect DEF ClearPending
<1>4. \A key : (Consumed(key)' <=> Consumed(key)) /\ (Receipted(key)' <=> Receipted(key))
  BY DEF ClearPending, Consumed, Receipted, HasJob
<1>5. \A d \in 1..Comments : Bygone(d) => Bygone(d)'
  BY <1>4
  DEF ClearPending, Bygone, CursorFits, DispatchAssumption, Going, gitlab, database,
      poller, bounds
<1>6. Queued' \subseteq Queued
  BY <1>3 DEF Queued
<1>7. \A i \in Issue : CurrentState(i)' = CurrentState(i) /\ (Busy(i)' <=> Busy(i))
  BY <1>3 DEF ClearPending, CurrentState, Busy
<1>8. FatesAgree'
  BY Untouched DEF ClearPending
<1>9. TypeOK'
  BY <1>1, <1>2, <1>3 DEF ClearPending, TypeOK, gitlab, bounds
<1>10. CandidateFits'
  BY <1>2 DEF CandidateFits, Deciding
<1>11. CursorFits'
  BY <1>1, <1>2 DEF ClearPending, CursorFits, Going, gitlab
<1>12. DrainsFit'
  <2>1. cycle' = cycle
    BY DEF ClearPending
  <2> QED BY <1>1, <1>2, <1>3, <2>1, CycleType DEF DrainsFit
<1>13. CurrentIsOwn'
  <2>1. jobs' = jobs
    BY DEF ClearPending
  <2> QED BY <1>1, <1>3, <2>1 DEF CurrentIsOwn
<1>14. OneActiveJob'
  <2>1. jobs' = jobs
    BY DEF ClearPending
  <2> QED BY <1>1, <1>3, <2>1, JobType DEF OneActiveJob
<1>15. NothingIsPassedOver'
  BY <1>2 DEF NothingIsPassedOver, Going
<1>16. QueueIsHandled'
  <2>1. \A d \in 1..Comments : InHand(d)' => InHand(d)
    BY <1>2 DEF InHand, ClearPending
  <2>2. \A d \in 1..Comments : Reached(d) => Reached(d)'
    BY <1>1 DEF Reached, Going, ClearPending, CandidateFits
  <2>3. aborts' = aborts
    BY DEF ClearPending, bounds
  <2> QED BY <1>1, <1>2, <1>3, <1>4, <1>5, <1>6, <1>7, <2>1, <2>2, <2>3, QueueStays
<1>17. QueueInOrder'
  <2>1. aborts' = aborts
    BY DEF ClearPending, bounds
  <2> QED BY <1>1, <1>3, <2>1 DEF QueueInOrder, InOrder
<1>18. DrainsAreFree'
  <2>1. UNCHANGED <<cycle, cleaning, aborts, cleanups>>
    BY DEF ClearPending, bounds
  <2> QED BY <1>1, <1>7, <1>2, <1>3, <2>1, CycleType DEF DrainsAreFree, Undisturbed
<1>19. EntriesAreComments'
  <2>1. UNCHANGED <<aborts, cleanups>>
    BY DEF ClearPending, bounds
  <2> QED BY <1>1, <1>3, <2>1 DEF EntriesAreComments, Undisturbed
<1>20. HandedOver'
  <2>1. UNCHANGED <<jobs, aborts, cleanups>>
    BY DEF ClearPending, bounds
  <2>2. ASSUME Undisturbed, NEW c, CommentKey(c) \in Queued', CommentKey(c) \in Queued =>
               IssueOf[c] = candidate.issue
        PROVE  FALSE
    <3>1. PICK j \in Issue : \E p \in DOMAIN conversations'[j].pending :
              conversations'[j].pending[p].key = CommentKey(c)
      BY <2>2 DEF Queued
    <3>2. conversations'[j].pending = conversations[j].pending /\ j # candidate.issue
      BY <1>3, <3>1
    <3>3. PICK p \in DOMAIN conversations[j].pending :
              conversations[j].pending[p].key = CommentKey(c)
      BY <3>1, <3>2
    <3>4. conversations[j].pending[p].key.id = c
      BY <3>3 DEF CommentKey
    <3>5. IssueOf[c] = j
      BY <1>1, <2>2, <3>4 DEF EntriesAreComments
    <3> QED BY <1>6, <2>2, <3>2, <3>5
  <2> QED BY <1>1, <1>4, <2>1, <2>2 DEF HandedOver, Undisturbed
<1> QED BY <1>8, <1>9, <1>10, <1>11, <1>12, <1>13, <1>14, <1>15, <1>16, <1>17, <1>18,
<1>19, <1>20 DEF IInv

\* The queue of an issue that is gone is dropped.
LEMMA DropPendingKeeps ==
    ASSUME IInv, NEW row \in cycle.drains, DropPending(row)
    PROVE  IInv'
<1>1. /\ TypeOK /\ CandidateFits /\ CursorFits /\ DrainsFit
      /\ CurrentIsOwn /\ OneActiveJob /\ FatesAgree /\ NothingIsPassedOver
      /\ QueueIsHandled /\ QueueInOrder /\ DrainsAreFree /\ EntriesAreComments
      /\ HandedOver
  BY DEF IInv
<1>2. /\ pc = "drain" /\ candidate.from = "none" /\ row[1] \in Issue
      /\ cycle' \in Cycles /\ cycle'.drains = cycle.drains \ {row}
      /\ cycle'.comments = cycle.comments /\ cycle'.labels = cycle.labels
      /\ cycle'.next = cycle.next /\ cycle'.halted = cycle.halted
      /\ \A r \in cycle'.drains : r \in cycle.drains /\ r[1] # row[1] /\ r[1] \in Issue
      /\ outages' \in Nat /\ UNCHANGED <<pc, candidate>>
  <2>1. outages' \in Nat
    BY <1>1, BoundsType DEF DropPending
  <2>2. /\ cycle' = [cycle EXCEPT !.drains = @ \ {row}] /\ pc = "drain"
        /\ UNCHANGED <<pc, candidate>>
    BY DEF DropPending
  <2>3. candidate.from = "none"
    BY <1>1, <2>2 DEF CandidateFits, Deciding
  <2>4. row[1] \in Issue /\ \A r \in cycle.drains \ {row} : r[1] # row[1] /\ r[1] \in Issue
    BY <1>1, CycleType DEF DrainsFit
  <2> QED BY <1>1, <2>1, <2>2, <2>3, <2>4, RowTaken
<1>3. /\ conversations' \in [Issue -> ConversationRow]
      /\ \A j \in Issue : /\ conversations'[j].current = conversations[j].current
                          /\ conversations'[j].status = conversations[j].status
                          /\ conversations'[j].workspace = conversations[j].workspace
                          /\ conversations'[j].pending =
                               IF j = row[1] THEN <<>> ELSE conversations[j].pending
  <2>1. Len(row[2]) = Len(conversations[row[1]].pending)
    BY <1>1 DEF DrainsFit
  <2>2. conversations' = Cleared(row[1], Len(conversations[row[1]].pending))
    BY <2>1 DEF DropPending
  <2> QED BY <1>1, <1>2, <2>2, ClearedEffect
<1>4. \A key : (Consumed(key)' <=> Consumed(key)) /\ (Receipted(key)' <=> Receipted(key))
  BY DEF DropPending, Consumed, Receipted, HasJob
<1>5. \A d \in 1..Comments : Bygone(d) => Bygone(d)'
  BY <1>4 DEF DropPending, Bygone, gitlab
<1>6. Queued' \subseteq Queued
  BY <1>3 DEF Queued
<1>7. \A i \in Issue : CurrentState(i)' = CurrentState(i) /\ (Busy(i)' <=> Busy(i))
  BY <1>3 DEF DropPending, CurrentState, Busy
<1>8. FatesAgree'
  BY Untouched DEF DropPending
<1>9. TypeOK'
  <2>1. /\ UNCHANGED <<posted, label, labelEvents, owner, cursor, bootstrapped, receipts>>
        /\ UNCHANGED <<notices, jobs, cleaning, pc, candidate, aborts, reassigned, cleanups>>
    BY DEF DropPending, gitlab
  <2> QED BY <1>1, <1>2, <1>3, <2>1 DEF TypeOK
<1>10. CandidateFits'
  BY <1>1, <1>2 DEF CandidateFits
<1>11. CursorFits'
  BY <1>1 DEF DropPending, CursorFits, Going, gitlab
<1>12. DrainsFit'
  BY <1>1, <1>2, <1>3 DEF DrainsFit
<1>13. CurrentIsOwn'
  <2>1. jobs' = jobs
    BY DEF DropPending
  <2> QED BY <1>1, <1>3, <2>1 DEF CurrentIsOwn
<1>14. OneActiveJob'
  <2>1. jobs' = jobs
    BY DEF DropPending
  <2> QED BY <1>1, <1>3, <2>1, JobType DEF OneActiveJob
<1>15. NothingIsPassedOver'
  BY <1>2 DEF NothingIsPassedOver, Going
<1>16. QueueIsHandled'
  <2>1. \A d \in 1..Comments : InHand(d)' => InHand(d)
    BY <1>2 DEF InHand
  <2>2. \A d \in 1..Comments : Reached(d) => Reached(d)'
    BY DEF Reached, Going, DropPending
  <2>3. aborts' = aborts
    BY DEF DropPending, bounds
  <2> QED BY <1>1, <1>2, <1>3, <1>4, <1>5, <1>6, <1>7, <2>1, <2>2, <2>3, QueueStays
<1>17. QueueInOrder'
  <2>1. aborts' = aborts
    BY DEF DropPending, bounds
  <2> QED BY <1>1, <1>3, <2>1 DEF QueueInOrder, InOrder
<1>18. DrainsAreFree'
  <2>1. UNCHANGED <<cleaning, aborts, cleanups>>
    BY DEF DropPending, bounds
  <2> QED BY <1>1, <1>7, <1>2, <1>3, <2>1 DEF DrainsAreFree, Undisturbed
<1>19. EntriesAreComments'
  <2>1. UNCHANGED <<aborts, cleanups>>
    BY DEF DropPending, bounds
  <2> QED BY <1>1, <1>3, <2>1 DEF EntriesAreComments, Undisturbed
<1>20. HandedOver'
  <2>1. UNCHANGED <<jobs, aborts, cleanups>>
    BY DEF DropPending
  <2> QED BY <1>1, <1>4, <1>6, <1>2, <2>1 DEF HandedOver, Undisturbed
<1> QED BY <1>8, <1>9, <1>10, <1>11, <1>12, <1>13, <1>14, <1>15, <1>16, <1>17, <1>18,
<1>19, <1>20 DEF IInv

\* A job ends: its conversation is still busy.
LEMMA EndJobKeeps ==
    ASSUME IInv, NEW n \in DOMAIN jobs, NEW result \in {"succeeded", "failed"}, EndJob(n, result)
    PROVE  IInv'
<1>1. /\ TypeOK /\ CandidateFits /\ CursorFits /\ DrainsFit
      /\ CurrentIsOwn /\ OneActiveJob /\ FatesAgree /\ NothingIsPassedOver
      /\ QueueIsHandled /\ QueueInOrder /\ DrainsAreFree /\ EntriesAreComments
      /\ HandedOver
  BY DEF IInv
<1>2. /\ jobs' \in Seq(JobRow) /\ DOMAIN jobs' = DOMAIN jobs
      /\ \A m \in DOMAIN jobs : /\ jobs'[m].key = jobs[m].key /\ jobs'[m].issue = jobs[m].issue
                                /\ jobs'[m].workspace = jobs[m].workspace
                                /\ jobs'[m].messages = jobs[m].messages
                                /\ jobs'[m].state = IF m = n THEN result ELSE jobs[m].state
      /\ jobs[n].state = "active"
  <2> DEFINE old == jobs[n]
             new == [old EXCEPT !.state = result]
  <2>1. old \in JobRow /\ jobs \in Seq(JobRow) /\ jobs[n].state = "active"
    BY <1>1 DEF EndJob, TypeOK
  <2>2. jobs' = [jobs EXCEPT ![n] = new]
    BY DEF EndJob
  <2> HIDE DEF old
  <2>3. /\ new \in JobRow /\ new.key = old.key /\ new.issue = old.issue
        /\ new.workspace = old.workspace /\ new.messages = old.messages
        /\ new.state = result
    BY <2>1 DEF JobRow
  <2> HIDE DEF new
  <2>4. jobs' \in Seq(JobRow) /\ DOMAIN jobs' = DOMAIN jobs
        /\ \A m \in DOMAIN jobs : jobs'[m] = IF m = n THEN new ELSE jobs[m]
    BY <2>1, <2>2, <2>3
  <2> QED BY <2>1, <2>3, <2>4 DEF old
<1>3. /\ conversations' \in [Issue -> ConversationRow]
      /\ \A j \in Issue : /\ conversations'[j].pending = conversations[j].pending
                          /\ conversations'[j].current = conversations[j].current
                          /\ conversations'[j].workspace = conversations[j].workspace
                          /\ conversations'[j].status = IF conversations[j].current = n
                                  THEN "finishing" ELSE conversations[j].status
  <2>1. \A j \in Issue : conversations[j] \in ConversationRow
    BY <1>1, QueueType
  <2>2. \A j \in Issue : LET row == [conversations[j] EXCEPT !.status = "finishing"] IN
            /\ row \in ConversationRow /\ row.pending = conversations[j].pending
            /\ row.current = conversations[j].current
            /\ row.workspace = conversations[j].workspace /\ row.status = "finishing"
    BY <2>1 DEF ConversationRow
  <2> QED BY <2>1, <2>2 DEF EndJob
<1>4. \A key : /\ Consumed(key)' <=> Consumed(key)
               /\ Receipted(key)' <=> Receipted(key)
               /\ HasJob(key)' <=> HasJob(key)
  BY DEF EndJob, Consumed, Receipted, HasJob
<1>5. \A d \in 1..Comments : Bygone(d) => Bygone(d)'
  BY <1>4 DEF EndJob, Bygone, gitlab
<1>6. Queued' = Queued
  BY <1>3 DEF Queued
<1>7. \A i \in Issue : /\ CurrentState(i)' = "active" => CurrentState(i) = "active"
                       /\ Busy(i)' <=> Busy(i)
  BY <1>1, <1>2, <1>3 DEF CurrentState, Busy, CurrentIsOwn
<1>8. CursorFits'
  BY Untouched DEF EndJob, gitlab, poller
<1>9. TypeOK'
  BY <1>1, <1>2, <1>3 DEF EndJob, TypeOK, gitlab, poller, bounds
<1>10. CandidateFits'
  <2>1. UNCHANGED <<candidate, pc>>
    BY DEF EndJob, poller
  <2> QED BY <1>1, <1>4, <1>7, <1>3, <2>1, CandidateType DEF CandidateFits, Deciding
<1>11. DrainsFit'
  <2>1. UNCHANGED <<cycle, pc, candidate>>
    BY DEF EndJob, poller
  <2> QED BY <1>1, <1>3, <2>1, CandidateType, CycleType DEF DrainsFit
<1>12. CurrentIsOwn'
  BY <1>1, <1>2, <1>3 DEF CurrentIsOwn
<1>13. OneActiveJob'
  <2>1. \A m \in DOMAIN jobs : jobs[m].issue \in Issue
    BY <1>1, JobType
  <2> QED BY <1>1, <1>2, <1>3, <2>1 DEF OneActiveJob
<1>14. FatesAgree'
  <2>1. UNCHANGED <<receipts, notices>>
    BY DEF EndJob
  <2> QED BY <1>1, <1>4, <1>2, <2>1 DEF FatesAgree
<1>15. NothingIsPassedOver'
  BY <1>1, <1>5, CycleType, DispatchAssumption
  DEF EndJob, NothingIsPassedOver, Going, poller, InHand
<1>16. QueueIsHandled'
  <2>1. \A d \in 1..Comments : InHand(d)' => InHand(d)
    BY DEF InHand, EndJob, poller
  <2>2. \A d \in 1..Comments : Reached(d) => Reached(d)'
    BY DEF Reached, Going, EndJob, poller
  <2>3. aborts' = aborts
    BY DEF EndJob, bounds
  <2> QED BY <1>1, <1>2, <1>3, <1>4, <1>5, <1>6, <1>7, <2>1, <2>2, <2>3, QueueStays
<1>17. QueueInOrder'
  <2>1. aborts' = aborts
    BY DEF EndJob, bounds
  <2> QED BY <1>1, <1>3, <2>1 DEF QueueInOrder, InOrder
<1>18. DrainsAreFree'
  <2>1. UNCHANGED <<cycle, pc, candidate, cleaning, aborts, cleanups>>
    BY DEF EndJob, poller, bounds
  <2>2. candidate.from = "drain" => candidate.issue \in Issue
    BY <1>1, CandidateType
  <2> QED BY <1>1, <1>7, <1>3, <2>1, <2>2, CycleType DEF DrainsAreFree, Undisturbed
<1>19. EntriesAreComments'
  <2>1. UNCHANGED <<aborts, cleanups>>
    BY DEF EndJob, bounds
  <2> QED BY <1>1, <1>3, <2>1 DEF EntriesAreComments, Undisturbed
<1>20. HandedOver'
  <2>1. UNCHANGED <<pc, candidate, aborts, cleanups>>
    BY DEF EndJob, poller, bounds
  <2> QED BY <1>1, <1>4, <1>6, <1>2, <2>1 DEF HandedOver, Undisturbed
<1> QED BY <1>8, <1>9, <1>10, <1>11, <1>12, <1>13, <1>14, <1>15, <1>16, <1>17, <1>18,
<1>19, <1>20 DEF IInv

\* The outcome is settled.
LEMMA SettleKeeps ==
    ASSUME IInv, NEW i \in Issue, Settle(i)
    PROVE  IInv'
<1>1. /\ TypeOK /\ CandidateFits /\ CursorFits /\ DrainsFit
      /\ CurrentIsOwn /\ OneActiveJob /\ FatesAgree /\ NothingIsPassedOver
      /\ QueueIsHandled /\ QueueInOrder /\ DrainsAreFree /\ EntriesAreComments
      /\ HandedOver
  BY DEF IInv
<1>2. conversations[i].status = "finishing"
  BY DEF Settle
<1>3. /\ conversations' \in [Issue -> ConversationRow]
      /\ \A j \in Issue : /\ conversations'[j].pending = conversations[j].pending
                          /\ conversations'[j].current = conversations[j].current
                          /\ conversations'[j].workspace = conversations[j].workspace
                          /\ conversations'[j].status = IF j = i THEN "settled"
                                                        ELSE conversations[j].status
  BY <1>1 DEF Settle, TypeOK, ConversationRow
<1>4. \A key : (Consumed(key)' <=> Consumed(key)) /\ (Receipted(key)' <=> Receipted(key))
  BY DEF Settle, Consumed, Receipted, HasJob
<1>5. \A d \in 1..Comments : Bygone(d) => Bygone(d)'
  BY <1>4 DEF Settle, Bygone, gitlab
<1>6. Queued' = Queued
  BY <1>3 DEF Queued
<1>7. \A j \in Issue : CurrentState(j)' = CurrentState(j) /\ (Busy(j)' => Busy(j))
  BY DEF Settle, CurrentState, Busy
<1>8. CursorFits' /\ FatesAgree' /\ NothingIsPassedOver'
  BY Untouched DEF Settle, gitlab, poller
<1>9. TypeOK'
  BY <1>1, <1>3 DEF Settle, TypeOK, gitlab, poller, bounds
<1>10. CandidateFits'
  <2>1. UNCHANGED <<candidate, pc>>
    BY DEF Settle, poller
  <2> QED BY <1>1, <1>4, <1>7, <1>3, <2>1, CandidateType DEF CandidateFits, Deciding
<1>11. DrainsFit'
  <2>1. UNCHANGED <<cycle, pc, candidate>>
    BY DEF Settle, poller
  <2> QED BY <1>1, <1>3, <2>1, CandidateType, CycleType DEF DrainsFit
<1>12. CurrentIsOwn'
  <2>1. jobs' = jobs
    BY DEF Settle
  <2> QED BY <1>1, <1>3, <2>1 DEF CurrentIsOwn
<1>13. OneActiveJob'
  <2>1. jobs' = jobs
    BY DEF Settle
  <2> QED BY <1>1, <1>3, <2>1, JobType DEF OneActiveJob
<1>14. QueueIsHandled'
  <2>1. \A d \in 1..Comments : InHand(d)' => InHand(d)
    BY DEF InHand, Settle, poller
  <2>2. \A d \in 1..Comments : Reached(d) => Reached(d)'
    BY DEF Reached, Going, Settle, poller
  <2>3. aborts' = aborts
    BY DEF Settle, bounds
  <2> QED BY <1>1, <1>2, <1>3, <1>4, <1>5, <1>6, <1>7, <2>1, <2>2, <2>3, QueueStays
<1>15. QueueInOrder'
  <2>1. aborts' = aborts
    BY DEF Settle, bounds
  <2> QED BY <1>1, <1>3, <2>1 DEF QueueInOrder, InOrder
<1>16. DrainsAreFree'
  <2>1. UNCHANGED <<cycle, pc, candidate, cleaning, aborts, cleanups>>
    BY DEF Settle, poller, bounds
  <2>2. candidate.from = "drain" => candidate.issue \in Issue
    BY <1>1, CandidateType
  <2> QED BY <1>1, <1>7, <1>3, <2>1, <2>2, CycleType DEF DrainsAreFree, Undisturbed
<1>17. EntriesAreComments'
  <2>1. UNCHANGED <<aborts, cleanups>>
    BY DEF Settle, bounds
  <2> QED BY <1>1, <1>3, <2>1 DEF EntriesAreComments, Undisturbed
<1>18. HandedOver'
  BY <1>1, <1>4, <1>6 DEF Settle, HandedOver, Undisturbed, poller, bounds
<1> QED BY <1>8, <1>9, <1>10, <1>11, <1>12, <1>13, <1>14, <1>15, <1>16, <1>17, <1>18
DEF IInv

\* A cleanup is claimed.
LEMMA StartCleanupKeeps ==
    ASSUME IInv, NEW i \in Issue, StartCleanup(i)
    PROVE  IInv'
<1>1. /\ TypeOK /\ CandidateFits /\ CursorFits /\ DrainsFit
      /\ CurrentIsOwn /\ OneActiveJob /\ FatesAgree /\ NothingIsPassedOver
      /\ QueueIsHandled /\ QueueInOrder /\ DrainsAreFree /\ EntriesAreComments
      /\ HandedOver
  BY DEF IInv
<1>2. cleanups' \in Nat /\ cleanups' # 0 /\ cleaning' \subseteq Issue
  BY <1>1 DEF StartCleanup, TypeOK
<1>3. /\ conversations' \in [Issue -> ConversationRow]
      /\ \A j \in Issue : /\ conversations'[j].pending = conversations[j].pending
                          /\ conversations'[j].current = conversations[j].current
                          /\ conversations'[j].workspace = conversations[j].workspace
                          /\ conversations'[j].status = IF j = i THEN "cleaning"
                                                        ELSE conversations[j].status
  BY <1>1 DEF StartCleanup, TypeOK, ConversationRow
<1>4. \A key : (Consumed(key)' <=> Consumed(key)) /\ (Receipted(key)' <=> Receipted(key))
  BY DEF StartCleanup, Consumed, Receipted, HasJob
<1>5. \A d \in 1..Comments : Bygone(d) => Bygone(d)'
  BY <1>4 DEF StartCleanup, Bygone, gitlab
<1>6. Queued' = Queued
  BY <1>3 DEF Queued
<1>7. \A j \in Issue : CurrentState(j)' = CurrentState(j)
  BY DEF StartCleanup, CurrentState
<1>8. ~Undisturbed'
  BY <1>2 DEF Undisturbed
<1>9. CursorFits' /\ FatesAgree' /\ NothingIsPassedOver'
  BY Untouched DEF StartCleanup, gitlab, poller
<1>10. TypeOK'
  <2>1. /\ UNCHANGED <<posted, label, labelEvents, owner, cursor, bootstrapped, receipts>>
        /\ UNCHANGED <<notices, jobs, pc, cycle, candidate, aborts, outages, reassigned>>
    BY DEF StartCleanup, gitlab, poller
  <2> QED BY <1>1, <1>2, <1>3, <2>1 DEF TypeOK
<1>11. CandidateFits'
  <2>1. UNCHANGED <<candidate, pc>>
    BY DEF StartCleanup, poller
  <2> QED BY <1>1, <1>4, <1>7, <1>3, <2>1, CandidateType DEF CandidateFits, Deciding
<1>12. DrainsFit'
  <2>1. UNCHANGED <<cycle, pc, candidate>>
    BY DEF StartCleanup, poller
  <2> QED BY <1>1, <1>3, <2>1, CandidateType, CycleType DEF DrainsFit
<1>13. CurrentIsOwn'
  <2>1. jobs' = jobs
    BY DEF StartCleanup
  <2> QED BY <1>1, <1>3, <2>1 DEF CurrentIsOwn
<1>14. OneActiveJob'
  <2>1. jobs' = jobs
    BY DEF StartCleanup
  <2> QED BY <1>1, <1>3, <2>1, JobType DEF OneActiveJob
<1>15. QueueIsHandled'
  <2>1. \A d \in 1..Comments : InHand(d)' => InHand(d)
    BY DEF InHand, StartCleanup, poller
  <2>2. \A d \in 1..Comments : Reached(d) => Reached(d)'
    BY DEF Reached, Going, StartCleanup, poller
  <2>3. aborts' = aborts
    BY DEF StartCleanup, bounds
  <2> QED BY <1>1, <1>2, <1>3, <1>4, <1>5, <1>6, <1>7, <1>8, <2>1, <2>2, <2>3,
  QueueStays
<1>16. QueueInOrder'
  <2>1. aborts' = aborts
    BY DEF StartCleanup, bounds
  <2> QED BY <1>1, <1>3, <2>1 DEF QueueInOrder, InOrder
<1>17. DrainsAreFree'
  BY <1>8 DEF DrainsAreFree
<1>18. EntriesAreComments'
  BY <1>8 DEF EntriesAreComments
<1>19. HandedOver'
  BY <1>8 DEF HandedOver
<1> QED BY <1>9, <1>10, <1>11, <1>12, <1>13, <1>14, <1>15, <1>16, <1>17, <1>18, <1>19
DEF IInv

\* A cleanup ends.
LEMMA FinishCleanupKeeps ==
    ASSUME IInv, NEW i \in Issue, NEW success \in BOOLEAN, FinishCleanup(i, success)
    PROVE  IInv'
<1>1. /\ TypeOK /\ CandidateFits /\ CursorFits /\ DrainsFit
      /\ CurrentIsOwn /\ OneActiveJob /\ FatesAgree /\ NothingIsPassedOver
      /\ QueueIsHandled /\ QueueInOrder /\ DrainsAreFree /\ EntriesAreComments
      /\ HandedOver
  BY DEF IInv
<1>2. cleaning # {} /\ cleaning' \subseteq Issue
  BY <1>1 DEF FinishCleanup, TypeOK
<1>3. /\ conversations' \in [Issue -> ConversationRow]
      /\ \A j \in Issue : /\ conversations'[j].pending = conversations[j].pending
                          /\ conversations'[j].current = conversations[j].current
                          /\ conversations'[j].workspace = conversations[j].workspace
  <2>1. PICK status \in {"archived", "cleanup-failed"} :
            conversations' = [conversations EXCEPT ![i].status = status]
    BY DEF FinishCleanup
  <2> DEFINE old == conversations[i]
             new == [old EXCEPT !.status = status]
  <2>2. conversations' = [conversations EXCEPT ![i] = new] /\ old \in ConversationRow
        /\ conversations \in [Issue -> ConversationRow]
    BY <1>1, <2>1 DEF TypeOK
  <2> HIDE DEF old
  <2>3. /\ new \in ConversationRow /\ new.pending = old.pending
        /\ new.current = old.current /\ new.workspace = old.workspace
    BY <2>2 DEF ConversationRow
  <2> HIDE DEF new
  <2>4. conversations' \in [Issue -> ConversationRow]
        /\ \A j \in Issue : conversations'[j] = IF j = i THEN new ELSE conversations[j]
    BY <2>2, <2>3
  <2> QED BY <2>3, <2>4 DEF old
<1>4. \A key : (Consumed(key)' <=> Consumed(key)) /\ (Receipted(key)' <=> Receipted(key))
  BY DEF FinishCleanup, Consumed, Receipted, HasJob
<1>5. \A d \in 1..Comments : Bygone(d) => Bygone(d)'
  BY <1>4 DEF FinishCleanup, Bygone, gitlab
<1>6. Queued' = Queued
  BY <1>3 DEF Queued
<1>7. \A j \in Issue : CurrentState(j)' = CurrentState(j)
  BY DEF FinishCleanup, CurrentState
<1>8. ~Undisturbed'
  <2>1. ~Undisturbed
    BY <1>1, <1>2 DEF DrainsAreFree
  <2> QED BY <2>1 DEF Undisturbed, FinishCleanup, bounds
<1>9. CursorFits' /\ FatesAgree' /\ NothingIsPassedOver'
  BY Untouched DEF FinishCleanup, gitlab, poller
<1>10. TypeOK'
  BY <1>1, <1>3 DEF FinishCleanup, TypeOK, gitlab, poller, bounds
<1>11. CandidateFits'
  <2>1. UNCHANGED <<candidate, pc>>
    BY DEF FinishCleanup, poller
  <2> QED BY <1>1, <1>4, <1>7, <1>3, <2>1, CandidateType DEF CandidateFits, Deciding
<1>12. DrainsFit'
  <2>1. UNCHANGED <<cycle, pc, candidate>>
    BY DEF FinishCleanup, poller
  <2> QED BY <1>1, <1>3, <2>1, CandidateType, CycleType DEF DrainsFit
<1>13. CurrentIsOwn'
  <2>1. jobs' = jobs
    BY DEF FinishCleanup
  <2> QED BY <1>1, <1>3, <2>1 DEF CurrentIsOwn
<1>14. OneActiveJob'
  <2>1. jobs' = jobs
    BY DEF FinishCleanup
  <2> QED BY <1>1, <1>3, <2>1, JobType DEF OneActiveJob
<1>15. QueueIsHandled'
  <2>1. \A d \in 1..Comments : InHand(d)' => InHand(d)
    BY DEF InHand, FinishCleanup, poller
  <2>2. \A d \in 1..Comments : Reached(d) => Reached(d)'
    BY DEF Reached, Going, FinishCleanup, poller
  <2>3. aborts' = aborts
    BY DEF FinishCleanup, bounds
  <2> QED BY <1>1, <1>2, <1>3, <1>4, <1>5, <1>6, <1>7, <1>8, <2>1, <2>2, <2>3,
  QueueStays
<1>16. QueueInOrder'
  <2>1. aborts' = aborts
    BY DEF FinishCleanup, bounds
  <2> QED BY <1>1, <1>3, <2>1 DEF QueueInOrder, InOrder
<1>17. DrainsAreFree'
  BY <1>8 DEF DrainsAreFree
<1>18. EntriesAreComments'
  BY <1>8 DEF EntriesAreComments
<1>19. HandedOver'
  BY <1>8 DEF HandedOver
<1> QED BY <1>9, <1>10, <1>11, <1>12, <1>13, <1>14, <1>15, <1>16, <1>17, <1>18, <1>19
DEF IInv

\* The cycle is lost.
LEMMA AbortKeeps ==
    ASSUME IInv, Abort
    PROVE  IInv'
<1>1. /\ TypeOK /\ CandidateFits /\ CursorFits /\ DrainsFit
      /\ CurrentIsOwn /\ OneActiveJob /\ FatesAgree /\ NothingIsPassedOver
      /\ QueueIsHandled /\ QueueInOrder /\ DrainsAreFree /\ EntriesAreComments
      /\ HandedOver
  BY DEF IInv
<1>2. /\ cycle' \in Cycles /\ cycle'.comments = {} /\ cycle'.labels = {} /\ cycle'.next = 0
      /\ cycle'.halted = 0 /\ cycle'.drains = {}
      /\ pc' = "idle" /\ candidate' = NoCandidate /\ candidate'.from = "none"
      /\ aborts' \in Nat /\ aborts' # 0
  BY <1>1, BoundsType, DispatchAssumption DEF Abort, EmptyCycle, Cycles, NoCandidate
<1>3. \A key : (Consumed(key)' <=> Consumed(key)) /\ (Receipted(key)' <=> Receipted(key))
  BY DEF Abort, Consumed, Receipted, HasJob, database
<1>4. \A d \in 1..Comments : Bygone(d) => Bygone(d)'
  BY <1>3 DEF Abort, Bygone, gitlab, database
<1>5. Queued' = Queued
  BY DEF Abort, Queued, database
<1>6. \A j \in Issue : CurrentState(j)' = CurrentState(j) /\ (Busy(j)' <=> Busy(j))
  BY DEF Abort, CurrentState, Busy, database
<1>7. ~Undisturbed'
  BY <1>2 DEF Undisturbed
<1>8. CurrentIsOwn' /\ OneActiveJob' /\ FatesAgree'
  BY Untouched DEF Abort, database
<1>9. TypeOK'
  BY <1>1, <1>2 DEF Abort, TypeOK, gitlab, database
<1>10. CandidateFits'
  BY <1>2 DEF CandidateFits, Deciding
<1>11. CursorFits'
  BY <1>1, <1>2 DEF Abort, CursorFits, Going, gitlab, database
<1>12. DrainsFit'
  BY <1>2 DEF DrainsFit
<1>13. NothingIsPassedOver'
  BY <1>2 DEF NothingIsPassedOver
<1>14. QueueIsHandled'
  <2>1. \A d : InHand(d)' => FALSE
    BY <1>2 DEF InHand
  <2> QED BY <1>1, <1>3, <1>4, <1>5, <1>2, <2>1, DispatchAssumption
          DEF QueueIsHandled, DispatchAssumption
<1>15. QueueInOrder'
  <2>1. conversations' = conversations
    BY DEF Abort, database
  <2> QED BY <1>1, <1>2, <2>1 DEF QueueInOrder, InOrder
<1>16. DrainsAreFree'
  BY <1>7 DEF DrainsAreFree
<1>17. EntriesAreComments'
  BY <1>7 DEF EntriesAreComments
<1>18. HandedOver'
  BY <1>7 DEF HandedOver
<1> QED BY <1>8, <1>9, <1>10, <1>11, <1>12, <1>13, <1>14, <1>15, <1>16, <1>17, <1>18
DEF IInv

\* A comment is posted, and may push another off the page.
LEMMA PostCommentKeeps ==
    ASSUME IInv, PostComment
    PROVE  IInv'
<1>1. /\ TypeOK /\ CandidateFits /\ CursorFits /\ DrainsFit
      /\ CurrentIsOwn /\ OneActiveJob /\ FatesAgree /\ NothingIsPassedOver
      /\ QueueIsHandled /\ QueueInOrder /\ DrainsAreFree /\ EntriesAreComments
      /\ HandedOver
  BY DEF IInv
<1>2. posted' = posted + 1 /\ posted' \in 0..Comments
  BY <1>1, DispatchAssumption DEF PostComment, TypeOK
<1>3. \A key : (Consumed(key)' <=> Consumed(key)) /\ (Receipted(key)' <=> Receipted(key))
  BY DEF PostComment, Consumed, Receipted, HasJob, database
<1>4. \A d \in 1..Comments : Bygone(d) => Bygone(d)'
  <2>1. posted \in Nat /\ PageSize \in Nat /\ cursor' = cursor
    BY <1>1, CycleType, DispatchAssumption DEF PostComment, database
  <2>2. \A d \in 1..Comments : d <= posted - PageSize => d <= posted' - PageSize
    BY <1>2, <2>1
  <2> QED BY <1>3, <2>1, <2>2 DEF Bygone
<1>5. Queued' = Queued
  BY DEF PostComment, Queued, database
<1>6. \A j \in Issue : CurrentState(j)' = CurrentState(j) /\ (Busy(j)' <=> Busy(j))
  BY DEF PostComment, CurrentState, Busy, database
<1>7. /\ CandidateFits' /\ DrainsFit' /\ CurrentIsOwn' /\ OneActiveJob' /\ FatesAgree'
      /\ QueueInOrder' /\ DrainsAreFree' /\ EntriesAreComments' /\ HandedOver'
  BY Untouched DEF PostComment, database, poller, bounds
<1>8. TypeOK'
  BY <1>1, <1>2 DEF PostComment, TypeOK, database, poller, bounds
<1>9. CursorFits'
  BY <1>1, CycleType DEF PostComment, CursorFits, Going, database, poller
<1>10. NothingIsPassedOver'
  BY <1>1, <1>4, CycleType, DispatchAssumption
  DEF PostComment, NothingIsPassedOver, Going, poller, InHand
<1>11. QueueIsHandled'
  <2>1. \A d \in 1..Comments : InHand(d)' => InHand(d)
    BY DEF InHand, PostComment, poller
  <2>2. \A d \in 1..Comments : Reached(d) => Reached(d)'
    BY DEF Reached, Going, PostComment, database, poller
  <2>3. aborts' = aborts
    BY DEF PostComment, bounds
  <2> QED BY <1>1, <1>2, <1>3, <1>4, <1>5, <1>6, <2>1, <2>2, <2>3, QueueStays
<1> QED BY <1>7, <1>8, <1>9, <1>10, <1>11 DEF IInv

\* A label is added.
LEMMA AddLabelKeeps ==
    ASSUME IInv, NEW i \in Issue, AddLabel(i)
    PROVE  IInv'
<1>1. /\ TypeOK /\ CandidateFits /\ CursorFits /\ DrainsFit
      /\ CurrentIsOwn /\ OneActiveJob /\ FatesAgree /\ NothingIsPassedOver
      /\ QueueIsHandled /\ QueueInOrder /\ DrainsAreFree /\ EntriesAreComments
      /\ HandedOver
  BY DEF IInv
<1>2. \A key : (Consumed(key)' <=> Consumed(key)) /\ (Receipted(key)' <=> Receipted(key))
  BY DEF AddLabel, Consumed, Receipted, HasJob, database
<1>3. \A d \in 1..Comments : Bygone(d) => Bygone(d)'
  BY <1>2 DEF AddLabel, Bygone, database
<1>4. Queued' = Queued
  BY DEF AddLabel, Queued, database
<1>5. \A j \in Issue : CurrentState(j)' = CurrentState(j) /\ (Busy(j)' <=> Busy(j))
  BY DEF AddLabel, CurrentState, Busy, database
<1>6. /\ CandidateFits' /\ CursorFits' /\ DrainsFit' /\ CurrentIsOwn' /\ OneActiveJob'
      /\ FatesAgree' /\ NothingIsPassedOver' /\ QueueIsHandled' /\ QueueInOrder'
      /\ DrainsAreFree' /\ EntriesAreComments' /\ HandedOver'
  BY Untouched DEF AddLabel, database, poller, bounds
<1>7. TypeOK'
  BY <1>1, DispatchAssumption DEF AddLabel, TypeOK, database, poller, bounds
<1> QED BY <1>6, <1>7 DEF IInv

\* A label is removed.
LEMMA RemoveLabelKeeps ==
    ASSUME IInv, NEW i \in Issue, RemoveLabel(i)
    PROVE  IInv'
<1>1. /\ TypeOK /\ CandidateFits /\ CursorFits /\ DrainsFit
      /\ CurrentIsOwn /\ OneActiveJob /\ FatesAgree /\ NothingIsPassedOver
      /\ QueueIsHandled /\ QueueInOrder /\ DrainsAreFree /\ EntriesAreComments
      /\ HandedOver
  BY DEF IInv
<1>2. \A key : (Consumed(key)' <=> Consumed(key)) /\ (Receipted(key)' <=> Receipted(key))
  BY DEF RemoveLabel, Consumed, Receipted, HasJob, database
<1>3. \A d \in 1..Comments : Bygone(d) => Bygone(d)'
  BY <1>2 DEF RemoveLabel, Bygone, database
<1>4. Queued' = Queued
  BY DEF RemoveLabel, Queued, database
<1>5. \A j \in Issue : CurrentState(j)' = CurrentState(j) /\ (Busy(j)' <=> Busy(j))
  BY DEF RemoveLabel, CurrentState, Busy, database
<1>6. /\ CandidateFits' /\ CursorFits' /\ DrainsFit' /\ CurrentIsOwn' /\ OneActiveJob'
      /\ FatesAgree' /\ NothingIsPassedOver' /\ QueueIsHandled' /\ QueueInOrder'
      /\ DrainsAreFree' /\ EntriesAreComments' /\ HandedOver'
  BY Untouched DEF RemoveLabel, database, poller, bounds
<1>7. TypeOK'
  BY <1>1, DispatchAssumption DEF RemoveLabel, TypeOK, database, poller, bounds
<1> QED BY <1>6, <1>7 DEF IInv

\* An issue changes hands.
LEMMA ReassignKeeps ==
    ASSUME IInv, NEW i \in Issue, NEW o \in Workspace \cup {NoOne}, Reassign(i, o)
    PROVE  IInv'
<1>1. /\ TypeOK /\ CandidateFits /\ CursorFits /\ DrainsFit
      /\ CurrentIsOwn /\ OneActiveJob /\ FatesAgree /\ NothingIsPassedOver
      /\ QueueIsHandled /\ QueueInOrder /\ DrainsAreFree /\ EntriesAreComments
      /\ HandedOver
  BY DEF IInv
<1>2. \A key : (Consumed(key)' <=> Consumed(key)) /\ (Receipted(key)' <=> Receipted(key))
  BY DEF Reassign, Consumed, Receipted, HasJob, database
<1>3. \A d \in 1..Comments : Bygone(d) => Bygone(d)'
  BY <1>2 DEF Reassign, Bygone, database
<1>4. Queued' = Queued
  BY DEF Reassign, Queued, database
<1>5. \A j \in Issue : CurrentState(j)' = CurrentState(j) /\ (Busy(j)' <=> Busy(j))
  BY DEF Reassign, CurrentState, Busy, database
<1>6. /\ CandidateFits' /\ CursorFits' /\ DrainsFit' /\ CurrentIsOwn' /\ OneActiveJob'
      /\ FatesAgree' /\ NothingIsPassedOver' /\ QueueIsHandled' /\ QueueInOrder'
      /\ DrainsAreFree' /\ EntriesAreComments' /\ HandedOver'
  BY Untouched DEF Reassign, database, poller
<1>7. TypeOK'
  BY <1>1 DEF Reassign, TypeOK, database, poller
<1> QED BY <1>6, <1>7 DEF IInv

LEMMA Initially == Init => IInv
<1> SUFFICES ASSUME Init PROVE IInv
  OBVIOUS
<1>1. TypeOK
  <2>1. 0 \in 0..Comments /\ 0 \in 0..LabelEvents
    BY DispatchAssumption DEF DispatchAssumption
  <2>2. conversations \in [Issue -> ConversationRow]
    BY DEF Init, ConversationRow
  <2>3. cycle \in Cycles /\ candidate = NoCandidate
    BY <2>1 DEF Init, EmptyCycle, Cycles
  <2>4. label \in [Issue -> 0..LabelEvents] /\ owner \in [Issue -> Workspace \cup {NoOne}]
    BY <2>1 DEF Init
  <2>5. DOMAIN receipts = {} /\ jobs \in Seq(JobRow)
    BY DEF Init
  <2>6. /\ posted = 0 /\ labelEvents = 0 /\ cursor = 0 /\ bootstrapped = FALSE
        /\ notices = {}
        /\ cleaning = {} /\ pc = "idle"
        /\ {aborts, outages, reassigned, cleanups} \subseteq Nat
    BY DEF Init
  <2> QED BY <2>1, <2>2, <2>3, <2>4, <2>5, <2>6 DEF TypeOK
<1>2. /\ candidate.from = "none" /\ pc = "idle" /\ cycle.comments = {} /\ cycle.halted = 0
      /\ cycle.drains = {} /\ cursor = 0 /\ posted = 0 /\ jobs = <<>>
      /\ DOMAIN receipts = {}
      /\ notices = {} /\ cleaning = {} /\ DOMAIN jobs = {}
  BY DEF Init, NoCandidate, EmptyCycle
<1>3. \A i \in Issue : /\ conversations[i].pending = <<>> /\ conversations[i].current = 0
                       /\ conversations[i].status = "absent"
                       /\ DOMAIN conversations[i].pending = {}
  BY DEF Init
<1>4. Queued = {}
  BY <1>3 DEF Queued
<1>5. CandidateFits /\ CursorFits /\ DrainsFit
  BY <1>2 DEF CandidateFits, CursorFits, DrainsFit, Deciding, Going
<1>6. CurrentIsOwn /\ OneActiveJob /\ FatesAgree
  BY <1>2, <1>3 DEF CurrentIsOwn, OneActiveJob, FatesAgree
<1>7. NothingIsPassedOver /\ QueueIsHandled /\ QueueInOrder
  BY <1>2, <1>3, <1>4
  DEF NothingIsPassedOver, QueueIsHandled, QueueInOrder, InOrder, Going
<1>8. DrainsAreFree /\ EntriesAreComments /\ HandedOver
  BY <1>2, <1>3 DEF DrainsAreFree, EntriesAreComments, HandedOver
<1> QED BY <1>1, <1>5, <1>6, <1>7, <1>8 DEF IInv

LEMMA Preservation == IInv /\ [Next]_vars => IInv'
<1> SUFFICES ASSUME IInv, [Next]_vars PROVE IInv'
  OBVIOUS
<1>1. CASE BeginCycle \/ FinishAdoption \/ LabelsDone \/ SaveCursor \/ EndCycle
  BY <1>1, BeginCycleKeeps, FinishAdoptionKeeps, LabelsDoneKeeps, SaveCursorKeeps,
     EndCycleKeeps
<1>2. ASSUME NEW fire \in cycle.labels, AdoptLabel(fire) \/ TakeLabel(fire) PROVE IInv'
  BY <1>2, AdoptLabelKeeps, TakeLabelKeeps
<1>3. ASSUME NEW c \in cycle.comments, NEW gaveUp \in BOOLEAN,
             \/ PassConsumed(c) \/ TakeComment(c) \/ HaltComments(c)
             \/ SkipComment(c, gaveUp)
      PROVE  IInv'
  BY <1>3, PassConsumedKeeps, TakeCommentKeeps, HaltCommentsKeeps, SkipCommentKeeps
<1>4. ASSUME NEW row \in cycle.drains, DrainPending(row) \/ SkipDrain(row) \/ DropPending(row)
      PROVE  IInv'
  BY <1>4, DrainPendingKeeps, SkipDrainKeeps, DropPendingKeeps
<1>5. CASE Decide \/ Reject \/ Park \/ Upsert \/ Record \/ ClearPending
  BY <1>5, DecideKeeps, RejectKeeps, ParkKeeps, UpsertKeeps, RecordKeeps,
     ClearPendingKeeps
<1>6. CASE Abort \/ PostComment
  BY <1>6, AbortKeeps, PostCommentKeeps
<1>7. ASSUME NEW i \in Issue, AddLabel(i) \/ RemoveLabel(i) \/ Settle(i) \/ StartCleanup(i)
      PROVE  IInv'
  BY <1>7, AddLabelKeeps, RemoveLabelKeeps, SettleKeeps, StartCleanupKeeps
<1>8. ASSUME NEW i \in Issue, NEW o \in Workspace \cup {NoOne}, Reassign(i, o) PROVE IInv'
  BY <1>8, ReassignKeeps
<1>9. ASSUME NEW i \in Issue, NEW success \in BOOLEAN, FinishCleanup(i, success) PROVE IInv'
  BY <1>9, FinishCleanupKeeps
<1>10. ASSUME NEW n \in DOMAIN jobs, NEW result \in {"succeeded", "failed"}, EndJob(n, result)
       PROVE  IInv'
  BY <1>10, EndJobKeeps
<1>11. CASE UNCHANGED vars
  <2>1. TypeOK
    BY DEF IInv
  <2>2. TypeOK'
    BY <1>11, <2>1 DEF TypeOK, vars, gitlab, database, poller, bounds
  <2>3. /\ CandidateFits' /\ CursorFits' /\ DrainsFit' /\ CurrentIsOwn' /\ OneActiveJob'
        /\ FatesAgree' /\ NothingIsPassedOver' /\ QueueIsHandled' /\ QueueInOrder'
        /\ DrainsAreFree' /\ EntriesAreComments' /\ HandedOver'
    BY <1>11, Untouched DEF vars, gitlab, database, poller, bounds
  <2> QED BY <2>2, <2>3 DEF IInv
<1>12. Poll => IInv'
  BY <1>1, <1>2, <1>3, <1>4, <1>5 DEF Poll
<1>13. Elsewhere => IInv'
  BY <1>6, <1>7, <1>8, <1>9, <1>10 DEF Elsewhere
<1> QED BY <1>6, <1>11, <1>12, <1>13 DEF Next

-----------------------------------------------------------------------------
(* The theorems *)

\* The invariant holds in every state of every behaviour of the poller.
THEOREM Invariance == Spec => []IInv
<1>1. Init => IInv
  BY Initially
<1>2. IInv /\ [Next]_vars => IInv'
  BY Preservation
<1>. QED BY <1>1, <1>2, PTL DEF Spec

\* Every variable keeps its type.
THEOREM TypeCorrect == Spec => []TypeOK
<1>1. IInv => TypeOK
  BY DEF IInv
<1>. QED BY <1>1, Invariance, PTL

\* No issue ever has two runs that are not over, whatever ends, settles or is
\* cleaned between the dispatcher's look and its insertion.
THEOREM OneRunPerIssue == Spec => []OneActiveJob
<1>1. IInv => OneActiveJob
  BY DEF IInv
<1>. QED BY <1>1, Invariance, PTL

\* An event is handed over, rejected or neither, and never twice: the
\* receipts, the outbox and the jobs agree.
THEOREM EventsHaveOneFate == Spec => []FatesAgree
<1>1. IInv => FatesAgree
  BY DEF IInv
<1>. QED BY <1>1, Invariance, PTL

\* Comments queue up in the order they were written.
THEOREM QueuesKeepOrder == Spec => []QueueInOrder
<1>1. IInv => QueueInOrder
  BY DEF IInv
<1>. QED BY <1>1, Invariance, PTL

\* Without a crash and a cleanup no comment reaches two jobs, or one job twice,
\* although pages are fetched again and queues are drained again.
THEOREM NothingIsHandedOverTwice == Spec => []HandedOverOnceUndisturbed
<1>1. ASSUME IInv, aborts = 0, cleanups = 0, NEW c \in 1..Comments
      PROVE  Cardinality(Deliveries(c)) <= 1
  <2>1. \A x \in Deliveries(c) : \E n \in DOMAIN jobs : \E k \in DOMAIN jobs[n].messages :
            x = <<n, k>> /\ jobs[n].messages[k] = c
    BY DEF Deliveries
  <2>2. \A x, y \in Deliveries(c) : x = y
    BY <1>1, <2>1 DEF IInv, HandedOver, Undisturbed
  <2>3. CASE Deliveries(c) = {}
    BY <2>3, FS_EmptySet
  <2>4. CASE Deliveries(c) # {}
    <3>1. PICK x : Deliveries(c) = {x}
      BY <2>2, <2>4
    <3>2. Cardinality({x}) = 1
      BY FS_Singleton
    <3> QED BY <3>1, <3>2
  <2> QED BY <2>3, <2>4
<1>2. IInv => HandedOverOnceUndisturbed
  BY <1>1 DEF HandedOverOnceUndisturbed, HandedOverOnce
<1>. QED BY <1>2, Invariance, PTL

\* The cursor moves where the cycle has handled all that is not out of its reach.
LEMMA OnlyHandledIsMovedOver == IInv /\ [Next]_vars => MovesOverHandled
<1> SUFFICES ASSUME IInv, [Next]_vars, NEW c \in (1..Comments) \ Plain,
                    bootstrapped, cursor < c, c <= cursor'
             PROVE  Consumed(CommentKey(c)) \/ c <= posted - PageSize
  BY DEF MovesOverHandled
<1>1. cursor \in Nat /\ cycle.next \in Nat /\ cycle.halted \in Nat /\ c \in Nat \ {0}
  BY CycleType DEF IInv
<1>2. cursor' # cursor
  BY <1>1
<1>3. FinishAdoption \/ SaveCursor
  BY <1>2
  DEF Next, Poll, Elsewhere, vars, database, BeginCycle, AdoptLabel, TakeLabel,
      LabelsDone, PassConsumed, TakeComment, SkipComment, HaltComments, DrainPending,
      SkipDrain, EndCycle, Decide, Reject, Park, Upsert, Record, ClearPending,
      DropPending, Abort, PostComment, AddLabel, RemoveLabel, Reassign, EndJob,
      Settle, StartCleanup, FinishCleanup
<1>4. pc # "adopt"
  BY DEF IInv, CursorFits
<1>5. /\ pc = "comments" /\ cycle.comments = {} /\ candidate.from = "none"
      /\ cursor' = CursorAfter
  BY <1>3, <1>4 DEF FinishAdoption, SaveCursor, IInv, CandidateFits, Deciding
<1>6. c <= cycle.next /\ (cycle.halted # 0 => c < cycle.halted)
  <2>1. CASE cycle.halted = 0
    BY <1>5, <2>1 DEF CursorAfter
  <2>2. CASE cycle.halted # 0
    <3>1. cycle.halted <= cycle.next
      BY <1>5, <2>2 DEF IInv, CursorFits, Going
    <3> QED BY <1>1, <1>5, <2>2, <3>1 DEF CursorAfter
  <2> QED BY <2>1, <2>2
<1>7. c \in 1..cycle.next \ Plain /\ ~InHand(c)
  BY <1>5, <1>6 DEF InHand
<1>8. Bygone(c)
  BY <1>5, <1>6, <1>7 DEF IInv, NothingIsPassedOver, Going
<1> QED BY <1>1, <1>8 DEF Bygone

\* The cursor moves over a mention only when it was consumed, or when a page or
\* more of comments was posted after it.
THEOREM OnlyThePageIsAtRisk == Spec => OnlyThePageIsLost
<1>1. IInv /\ [Next]_vars => [MovesOverHandled]_vars
  BY OnlyHandledIsMovedOver
<1>. QED BY <1>1, Invariance, PTL DEF Spec, OnlyThePageIsLost

\* As long as all comments fit on a page the cursor leaves no mention behind.
THEOREM CursorIsSafe ==
    ASSUME Comments <= PageSize
    PROVE  Spec => CursorLeavesNothingBehind
<1>1. IInv /\ [Next]_vars =>
        [\A c \in (1..Comments) \ Plain :
            bootstrapped /\ cursor < c /\ c <= cursor' => Consumed(CommentKey(c))]_vars
  <2> SUFFICES ASSUME IInv, [Next]_vars, NEW c \in (1..Comments) \ Plain,
                      bootstrapped, cursor < c, c <= cursor'
               PROVE  Consumed(CommentKey(c))
    OBVIOUS
  <2>1. Consumed(CommentKey(c)) \/ c <= posted - PageSize
    BY OnlyHandledIsMovedOver DEF MovesOverHandled
  <2>2. posted \in 0..Comments /\ c \in 1..Comments /\ Comments \in Nat /\ PageSize \in Nat
    BY DispatchAssumption DEF IInv, TypeOK
  <2>3. ~(c <= posted - PageSize)
    BY <2>2
  <2> QED BY <2>1, <2>3
<1>. QED BY <1>1, Invariance, PTL DEF Spec, CursorLeavesNothingBehind

=============================================================================
