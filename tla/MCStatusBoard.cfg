SPECIFICATION FairSpec
CONSTANTS
    Items <- MCItems
    Blockers <- MCBlockers
    MaxDrags = 2
    MaxPrunes = 1
    MaxTroubles = 1
    None = None
INVARIANTS
    DispatchesWereAsked
    OutcomeIsShown
CHECK_DEADLOCK FALSE
PROPERTIES
    BlockedNotesAreDispatched
    LabelsFollow
