SPECIFICATION FairSpec
CONSTANTS
    MaxJobs = 2
    MaxRejections = 1
    MaxTriggers = 1
    MaxFailures = 1
    MaxCrashes = 1
    MaxTroubles = 2
INVARIANTS
    OneNotePerRow
    SettledWithItsNote
    BoardShowsCurrentJob
PROPERTIES
    RowsAreDelivered
CHECK_DEADLOCK FALSE
