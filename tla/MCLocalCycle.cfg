SPECIFICATION FairSpec
CONSTANTS
    Conversations = 2
    Gesture <- GestureDef
    Label <- LabelDef
    MaxRuns = 4
    Cap = 1
    MaxTroubles = 1
    None = None
INVARIANTS
    NothingSilentlyLost
    NeverDoubleRun
    WorkersAreAccounted
    OneVerdict
    ResultsAreReplied
PROPERTIES
    GesturesAreWorkedOff
CHECK_DEADLOCK FALSE
