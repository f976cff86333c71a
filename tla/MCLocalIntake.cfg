SPECIFICATION FairSpec
CONSTANTS
    Issue = {i1}
    MR = {m1}
    Page = 2
    Keep = 2
    MaxEvents = 3
    MaxAnswers = 2
    MaxFailures = 1
    None = None
INVARIANTS
    CommentsAreDecidedOnce
    RepliesGoHome
    LabelsFireOnce
CHECK_DEADLOCK FALSE
PROPERTY
    DeferredAreDecided
