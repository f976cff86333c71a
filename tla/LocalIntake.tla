------------------------------- MODULE LocalIntake -------------------------------
(***************************************************************************)
(* How a cycle of the local watcher hears the owner on GitLab: comments    *)
(* behind a cursor over the event stream, trigger labels by the id of      *)
(* their newest add event, approvals as the difference of two snapshots of *)
(* the awards, and assemble, which decides one gesture after the other     *)
(* which conversation it is for, with requests that may fail.              *)
(*                                                                         *)
(* events is what people did on GitLab, its index the event's id.  disk is *)
(* the project's part of state.json, mem the staged copy of a poll.  A run *)
(* is Start and Answer here, LocalCycle has what may happen to it.  A      *)
(* discussion is named by its first note: <<None, e>> for a comment, or    *)
(* <<k, n>> for the n-th answer of conversation k.  Provider hints and     *)
(* Jira are left out.                                                      *)
(***************************************************************************)
EXTENDS Integers, Sequences, FiniteSets

CONSTANTS
    Issue, MR,
    Page,           \* events in the one page that is read (100)
    Keep,           \* label events remembered as consumed (1000)
    MaxEvents,      \* bound: events
    MaxAnswers,     \* bound: answers of a conversation
    MaxFailures,    \* bound: requests that fail, and cycles that do not get
                    \* to their save
    None

ASSUME IntakeAssumption ==
    /\ {Page, Keep, MaxEvents, MaxAnswers, MaxFailures} \subseteq Nat
    \* an iid is not an event id, nor the absence of one
    /\ Issue \cap MR = {}
    /\ (Issue \cup {None}) \cap 1..MaxEvents = {} /\ None \notin Issue

VARIABLES
    \* GitLab
    events, labelled, bots, marker,
    \* the watcher
    disk, mem,
    \* history: most new comments a page had to hold; requests failed
    burst, failures

gitlab == <<events, labelled, bots, marker>>
vars == <<gitlab, disk, mem, burst, failures>>

-----------------------------------------------------------------------------
(* GitLab *)

Surface == Issue \cup MR
Event == 1..MaxEvents
Key == Issue \cup Event     \* a conversation on a merge request alone is named
                            \* for the comment that opened it
Comments == {"plain", "mention", "echo", "other"}
IsComment(e) == events[e].kind \in Comments
Of(kinds, s) == {e \in DOMAIN events : events[e].kind \in kinds /\ events[e].on = s}
Newest(S) == CHOOSE e \in S : \A f \in S : f <= e

Closed(s) ==
    LET turns == Of({"close", "reopen"}, s)
    IN  turns # {} /\ events[Newest(turns)].kind = "close"

Root(e) == <<None, e>>
HasBot(d) == \E b \in bots : b.disc = d

\* The discussions that can be replied in on s.
Threads(s) ==
    {b.disc : b \in {b \in bots : b.on = s}}
    \cup {Root(e) : e \in {e \in Of({"plain", "mention"}, s) : events[e].disc = Root(e)}}

Happens(kind, s, d) ==
    /\ Len(events) < MaxEvents
    /\ events' = Append(events, [kind |-> kind, on |-> s, disc |-> d])
    /\ UNCHANGED <<bots, marker, disk, mem, burst, failures>>

\* The owner, or somebody else, writes at top level or in a discussion: with
\* @agent or without, or again what the agent wrote last.
Comment(s) ==
    \E kind \in Comments, d \in {Root(Len(events) + 1)} \cup Threads(s) :
        /\ kind = "other" => d = Root(Len(events) + 1)
        /\ kind = "echo" => \E b \in bots : b.on = s
        /\ Happens(kind, s, d)
        /\ UNCHANGED labelled

SetLabel(i) ==
    i \notin labelled /\ Happens("label", i, None) /\ labelled' = labelled \cup {i}

RemoveLabel(i) ==
    i \in labelled /\ Happens("unlabel", i, None) /\ labelled' = labelled \ {i}

\* An approval of an answer on an issue.
Award(b) ==
    /\ b.on \in Issue
    /\ ~\E e \in Of({"award"}, b.on) : events[e].disc = <<b.by, b.n>>
    /\ Happens("award", b.on, <<b.by, b.n>>)
    /\ UNCHANGED labelled

Turn(s) ==
    /\ Happens(IF Closed(s) THEN "reopen" ELSE "close", s, None)
    /\ UNCHANGED labelled

People ==
    \/ \E s \in Surface : Comment(s) \/ Turn(s)
    \/ \E i \in Issue : SetLabel(i) \/ RemoveLabel(i)
    \/ \E b \in bots : Award(b)

-----------------------------------------------------------------------------
(* Conversations *)

Absent == [status |-> "absent", pending |-> {}, next |-> None, reply |-> None,
           answers |-> 0, last |-> None]

\* heard is history: what was decided of each event, in the copy it is in.
Init ==
    /\ events = <<>> /\ labelled = {} /\ bots = {}
    /\ marker \in [MR -> Issue \cup {None}]
    /\ disk = [boot |-> FALSE, cursor |-> 0, retry |-> <<>>, consumed |-> {},
               awards |-> {}, conv |-> [k \in Key |-> Absent],
               index |-> [m \in MR |-> None], heard |-> [e \in Event |-> <<>>]]
    /\ mem = None
    /\ burst = 0 /\ failures = 0

Fail == failures < MaxFailures /\ failures' = failures + 1

\* start_one takes the queue, and the label of the lifecycle replaces the trigger.
Started(c) == [c EXCEPT !.status = "working", !.pending = {}, !.reply = c.next]

Start(k) ==
    /\ mem = None
    /\ \/ disk.conv[k].status = "new"
       \/ disk.conv[k].status = "idle" /\ disk.conv[k].pending # {}
    /\ disk' = [disk EXCEPT !.conv[k] = Started(disk.conv[k])]
    /\ labelled' = labelled \ {k}
    /\ UNCHANGED <<events, bots, marker, mem, burst, failures>>

\* Where an answer to event e goes: its discussion, or a note of its own.
AnswerDisc(k, e) ==
    IF IsComment(e) /\ \/ events[e].disc # Root(e)
                       \/ \E f \in DOMAIN events : f # e /\ events[f].disc = Root(e)
    THEN events[e].disc
    ELSE <<k, disk.conv[k].answers + 1>>

Answered(c, d) == [c EXCEPT !.status = "idle", !.last = d, !.answers = @ + 1]

Posts(k, d) ==
    /\ mem = None
    /\ disk.conv[k].status = "working" /\ disk.conv[k].answers < MaxAnswers
    /\ bots' = bots \cup {[disc |-> d, on |-> events[disk.conv[k].reply].on,
                           by |-> k, n |-> disk.conv[k].answers + 1]}
    \* the answer may name a merge request whose marker names the issue
    /\ \E opened \in SUBSET {m \in MR : marker[m] = k /\ disk.index[m] = None} :
         disk' = [disk EXCEPT
            !.conv[k] = Answered(disk.conv[k], d),
            !.index = [m \in MR |-> IF m \in opened THEN k ELSE @[m]]]
    /\ UNCHANGED <<events, labelled, marker, mem, burst>>

Answer(k) ==
    /\ disk.conv[k].status = "working"
    /\ Posts(k, AnswerDisc(k, disk.conv[k].reply))
    /\ UNCHANGED failures

\* The discussion cannot be looked up or replied to: a top-level note.
AnswerOnTop(k) ==
    Fail /\ Posts(k, <<k, disk.conv[k].answers + 1>>)

-----------------------------------------------------------------------------
(* Polling *)

At(step) == mem # None /\ mem.at = step
Decided(ps, e, to) == [ps EXCEPT !.heard[e] = Append(@, to)]

\* A request of the poll itself fails, the conversation's context cannot be
\* read, or the process dies: nothing of the poll is saved.
Abandon ==
    /\ mem # None /\ Fail
    /\ mem' = None
    /\ UNCHANGED <<gitlab, disk, burst>>

Fresh == {e \in DOMAIN events : IsComment(e) /\ e > disk.cursor}

\* The newest Page comment events.
InPage(e) == Cardinality({f \in DOMAIN events : IsComment(f) /\ f >= e}) <= Page

\* A top-level comment is in no discussion.
Discussion(e) == IF events[e].disc = Root(e) THEN None ELSE events[e].disc

Cursor == Newest({disk.cursor} \cup Fresh)

\* The j-th of some events, in their order.
Rank(S, e) == Cardinality({f \in S : f <= e})
Nth(S, j) == CHOOSE e \in S : Rank(S, e) = j

\* The comments of the page in their order after those deferred, each with its
\* discussion; where that cannot be looked up, without.
Heard(unlooked) ==
    LET new == IF disk.boot THEN {e \in Fresh : InPage(e) /\ events[e].kind # "other"} ELSE {}
    IN  disk.retry \o
        [j \in 1..Cardinality(new) |->
            LET e == Nth(new, j)
            IN  [e |-> e, disc |-> IF e \in unlooked THEN None ELSE Discussion(e)]]

Skipped == {e \in Fresh : ~disk.boot \/ events[e].kind = "other"}

ReadComments(unlooked) ==
    /\ mem = None
    /\ mem' = [at |-> "labels", todo |-> Heard(unlooked), retry |-> <<>>,
          fires |-> {}, approvals |-> {},
          ps |-> [disk EXCEPT !.cursor = Cursor,
            !.heard = [e \in Event |-> IF e \in Skipped THEN Append(@[e], None) ELSE @[e]]]]
    /\ burst' = IF disk.boot /\ Cardinality(Fresh) > burst THEN Cardinality(Fresh) ELSE burst
    /\ UNCHANGED <<gitlab, disk>>

\* Mutation: without a new comment the cycle does not look at those deferred.
PollCommentsIfAny == Fresh # {} /\ ReadComments({}) /\ UNCHANGED failures

PollComments == ReadComments({}) /\ UNCHANGED failures

PollCommentsUnthreaded ==
    /\ disk.boot
    /\ \E e \in Fresh : Discussion(e) # None /\ ReadComments({e})
    /\ Fail

\* Mutation: what was there before the first cycle is taken up.
AdoptsNothing(new) == new

\* What fires of the label events that are new: before the first commit nothing.
Fired(new) == IF mem.ps.boot THEN new ELSE {}

Latest(S) == {e \in S : Cardinality({f \in S : f > e}) < Keep}

PollLabels ==
    /\ At("labels")
    /\ LET newest == {Newest(Of({"label"}, i)) : i \in {i \in labelled : ~Closed(i)}}
           new == newest \ mem.ps.consumed
       IN  mem' = [mem EXCEPT !.at = "awards", !.fires = Fired(new),
             !.ps.consumed = Latest(@ \cup new),
             !.ps.heard = [e \in Event |-> IF e \in new /\ ~mem.ps.boot
                                           THEN Append(@[e], None) ELSE @[e]]]
    /\ UNCHANGED <<gitlab, disk, burst, failures>>

PollAwards ==
    /\ At("awards")
    /\ LET standing == {e \in DOMAIN events : events[e].kind = "award"}
       IN  mem' = [mem EXCEPT !.at = "assemble", !.ps.awards = standing,
             !.approvals = IF mem.ps.boot THEN standing \ mem.ps.awards ELSE {}]
    /\ UNCHANGED <<gitlab, disk, burst, failures>>

-----------------------------------------------------------------------------
(* assemble *)

Conv == mem.ps.conv
Exists(k) == Conv[k].status # "absent"
Gesture == Head(mem.todo)
Kind == events[Gesture.e].kind
On == events[Gesture.e].on
Deciding == At("assemble") /\ mem.todo # <<>>

\* The conversations on the merge request alone whose answer, or the comment
\* that opened them, is in the discussion, with a note of the bot.
Standalone(m) == {k \in Event : Exists(k) /\ events[k].on = m}

\* Mutation: a merge request has one conversation, that of its issue.
ThreadOfNone == {}

ThreadOf ==
    IF On \in MR /\ Gesture.disc # None /\ HasBot(Gesture.disc)
    THEN {k \in Standalone(On) : Gesture.disc \in {events[k].disc, Conv[k].last}}
    ELSE {}

\* The conversation an issue's comment, or a merge request not in a thread of
\* its own, belongs to, existing or not.
Indexed == mem.ps.index[On] # None /\ Exists(mem.ps.index[On])
Belongs ==
    IF On \in Issue THEN On
    ELSE IF Indexed THEN mem.ps.index[On]
    ELSE marker[On]

Recorded(ps, k) ==
    IF On \in MR /\ ps.index[On] = None /\ k \in Issue
    THEN [ps EXCEPT !.index[On] = k] ELSE ps

Asked(c, e) ==
    [c EXCEPT !.status = IF @ = "absent" THEN "new" ELSE @,
              !.pending = @ \cup {e}, !.next = e]

Queued(ps, k, e) ==
    [Decided(ps, e, k) EXCEPT !.conv[k] = Asked(ps.conv[k], e)]

Passes(ps) == mem' = [mem EXCEPT !.ps = ps, !.todo = Tail(@)]

\* The text is that of the last answer.
IsEcho(k) == Kind = "echo" /\ Conv[k].answers > 0

Addressed == Kind = "mention"

\* An existing conversation is resumed by a comment that addresses it, or
\* replies in a discussion with a note of the bot where that is still open.
Resumes(k, echo) ==
    /\ ~echo
    /\ \/ Addressed
       \/ ~Closed(On) /\ Gesture.disc # None /\ HasBot(Gesture.disc)

Resume(k) ==
    /\ Exists(k)
    /\ \E echo \in {FALSE, IsEcho(k)} :
         LET ps == IF k \in ThreadOf THEN mem.ps ELSE Recorded(mem.ps, k)
         IN  Passes(IF Resumes(k, echo) THEN Queued(ps, k, Gesture.e)
                    ELSE Decided(ps, Gesture.e, None))

\* No conversation yet: a mention opens one, on the issue if there is one.
OpenNew(k) ==
    /\ k # None => ~Exists(k)
    /\ Passes(IF ~Addressed THEN Decided(mem.ps, Gesture.e, None)
              ELSE IF k = None THEN Queued(mem.ps, Gesture.e, Gesture.e)
              ELSE Queued(Recorded(mem.ps, k), k, Gesture.e))

Decide ==
    /\ Deciding
    /\ \/ \E k \in ThreadOf : Resume(k)
       \/ ThreadOf = {} /\ Belongs # None /\ Resume(Belongs)
       \/ ThreadOf = {} /\ OpenNew(Belongs)
    /\ UNCHANGED <<gitlab, disk, burst, failures>>

\* The requests whose failure puts the gesture off: the discussion's, and of
\* a merge request the request for it.
CanDefer ==
    \/ On \in MR /\
         \/ Gesture.disc # None /\ Standalone(On) # {}
         \/ Addressed
         \/ Indexed => ~IsEcho(mem.ps.index[On])
    \/ On \in Issue /\ Exists(On) /\ ~Addressed /\ ~Closed(On) /\ Gesture.disc # None

\* Mutation: the gesture is forgotten.
DeferForgets == mem.retry

Deferred == Append(mem.retry, Gesture)

Defer ==
    /\ Deciding /\ CanDefer /\ Fail
    /\ \E ps \in {mem.ps} \cup {Recorded(mem.ps, k) : k \in {k \in {Belongs} \ {None} :
                                 ThreadOf = {} /\ Exists(k)}} :
         mem' = [mem EXCEPT !.ps = ps, !.todo = Tail(@), !.retry = Deferred]
    /\ UNCHANGED <<gitlab, disk, burst>>

\* A failed request for an issue is not told from an issue that is gone: the
\* comment is dropped, or opens a conversation on the merge request.
IssueUnknown ==
    /\ Deciding /\ Fail /\ ThreadOf = {} /\ Belongs \in Issue
    /\ \/ On \in Issue /\ (Exists(On) <=> ~Addressed)
          /\ Passes(Decided(mem.ps, Gesture.e, None))
       \/ On \in MR /\ ~Exists(Belongs) /\ Addressed
          /\ Passes(Queued(mem.ps, Gesture.e, Gesture.e))
    /\ UNCHANGED <<gitlab, disk, burst>>

\* A label starts its issue's conversation, or waits in the one there is.
Triggered(c, e) ==
    IF c.status = "absent" THEN [c EXCEPT !.status = "new", !.next = e] ELSE Asked(c, e)

Agreed(c, S) == [c EXCEPT !.pending = @ \cup S, !.next = Newest(S)]

\* The labels, then the approvals: of an answer that is the last of a
\* conversation at rest.
Labelled(ps) ==
    [ps EXCEPT
        !.conv = [k \in Key |->
            IF \E e \in mem.fires : events[e].on = k
            THEN Triggered(@[k], CHOOSE e \in mem.fires : events[e].on = k)
            ELSE @[k]],
        !.heard = [e \in Event |-> IF e \in mem.fires THEN Append(@[e], events[e].on)
                                   ELSE @[e]]]

Approves(k) ==
    {e \in mem.approvals : Conv[k].status = "idle" /\ events[e].disc = <<k, Conv[k].answers>>}

Approved(ps) ==
    [ps EXCEPT
        !.conv = [k \in Key |-> IF Approves(k) = {} THEN @[k] ELSE Agreed(@[k], Approves(k))],
        !.heard = [e \in Event |-> IF e \in mem.approvals
                    THEN Append(@[e], IF \E k \in Key : e \in Approves(k)
                                      THEN events[e].on ELSE None)
                    ELSE @[e]]]

\* Cursors, conversations and deferred gestures are one save.
Commit ==
    /\ At("assemble") /\ mem.todo = <<>>
    /\ disk' = [Approved(Labelled(mem.ps)) EXCEPT !.retry = mem.retry, !.boot = TRUE]
    /\ mem' = None
    /\ UNCHANGED <<gitlab, burst, failures>>

-----------------------------------------------------------------------------

Poll ==
    \/ PollComments \/ PollLabels \/ PollAwards
    \/ Decide \/ Commit

Trouble == Abandon \/ PollCommentsUnthreaded \/ Defer \/ IssueUnknown

Runs == \E k \in Key : Start(k) \/ Answer(k) \/ AnswerOnTop(k)

Next == People \/ Poll \/ Trouble \/ Runs

Spec == Init /\ [][Next]_vars

\* launchd starts a cycle a minute, and a cycle's steps follow each other.
FairSpec == Spec /\ WF_vars(Poll)

-----------------------------------------------------------------------------
(* Properties *)

TypeOK ==
    /\ disk.cursor \in 0..Len(events)
    /\ disk.consumed \subseteq Event
    /\ \A k \in Key : LET rec == disk.conv[k] IN
         /\ rec.status \in {"absent", "new", "idle", "working"}
         /\ rec.status = "absent" => rec = Absent
         /\ rec.pending \subseteq Event
    /\ mem # None => mem.at \in {"labels", "awards", "assemble"}

Waiting == {disk.retry[j].e : j \in DOMAIN disk.retry}

\* Behind the cursor every comment was decided exactly once, or is deferred
\* (and not decided): through crashes, failed requests and retries, as long as
\* one page holds what a cycle finds new.  Ahead of it nothing is decided.
CommentsAreDecidedOnce ==
    burst <= Page =>
        \A e \in DOMAIN events : IsComment(e) =>
            IF e > disk.cursor THEN disk.heard[e] = <<>> /\ e \notin Waiting
            ELSE Len(disk.heard[e]) = (IF e \in Waiting THEN 0 ELSE 1)

\* A conversation that a comment on a merge request opened answered in d, and
\* later elsewhere: only its last answer is remembered.
MovedOn(d) ==
    \E b, c \in bots :
        b.disc = d /\ b.by \in Event /\ c.by = b.by /\ c.n > b.n /\ c.disc # d

\* What a reply in a discussion resumes is a conversation that has spoken
\* there, or that was opened there; or, where the one that spoke has moved on,
\* that of the merge request's issue.
GoesHome(e, k) ==
    \/ \E b \in bots : b.disc = events[e].disc /\ b.by = k
    \/ k \in DOMAIN events /\ events[k].disc = events[e].disc
    \/ events[e].on \in MR /\ k = marker[events[e].on] /\ MovedOn(events[e].disc)

RepliesGoHome ==
    \A e \in DOMAIN events : events[e].kind = "plain" =>
        \A j \in DOMAIN disk.heard[e] :
            disk.heard[e][j] \in Key => GoesHome(e, disk.heard[e][j])

\* The label events of other issues after e do not push it out of the memory.
IsKept(e) ==
    Cardinality({f \in DOMAIN events :
        f > e /\ events[f].kind = "label" /\ events[f].on # events[e].on}) < Keep

\* A label event starts something once, and none of those found at the first
\* cycle does, however long the label stays on the issue, unless as many of
\* other issues as are remembered follow it; and an approval is taken once.
LabelsFireOnce ==
    \A e \in DOMAIN events :
        \/ events[e].kind = "award"
        \/ events[e].kind = "label" /\ IsKept(e)
        => Len(disk.heard[e]) <= 1

\* "Just reply in any thread the agent has answered in - it resumes the same
\* session": a reply never resumes a conversation that has no part in it.
RepliesStayInTheirThread ==
    \A e \in DOMAIN events : events[e].kind = "plain" =>
        \A j \in DOMAIN disk.heard[e] : LET k == disk.heard[e][j] IN
            k \in Key =>
                \/ \E b \in bots : b.disc = events[e].disc /\ b.by = k
                \/ k \in DOMAIN events /\ events[k].disc = events[e].disc

\* What was put off is decided some day, although it is looked at again only
\* in later cycles, which fail too, and next to newer comments.
DeferredAreDecided == <>[](disk.retry = <<>>)

\* "defer the gesture instead of silently dropping it": no reply to an answer
\* on a merge request that was never closed is dropped.
RepliesSurviveFailures ==
    \A e \in DOMAIN events :
        /\ events[e].kind = "plain" /\ events[e].on \in MR
        /\ events[e].disc \notin {Root(f) : f \in Event}
        /\ Of({"close"}, events[e].on) = {}
        => \A j \in DOMAIN disk.heard[e] : disk.heard[e][j] \in Key

=============================================================================
