\* An issue moves between two owners; a crash, an outage and a cleanup
\* may happen once, two of the four together; one hint is refused.
SPECIFICATION FairSpec
CONSTANTS
    i1 = i1
    i2 = i2
    w1 = w1
    w2 = w2
    NoOne = NoOne
    Issue = {i1}
    Workspace = {w1, w2}
    Comments = 2
    IssueOf <- OneIssue
    Plain <- NoComment
    Unapproved <- LastComment
    LabelEvents = 1
    PageSize = 2
    MaxAborts = 1
    MaxOutages = 1
    MaxReassigned = 1
    MaxCleanups = 1
    MaxTroubles = 2
INVARIANTS
    OneActiveJob
    QueueInOrder
    HandedOverOnceUndisturbed
PROPERTIES
    MentionsAreConsumed
    QueuesAreDrained
