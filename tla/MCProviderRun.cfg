SPECIFICATION FairSpec
CONSTANTS
    r1 = r1
    r2 = r2
    Request = {r1, r2}
    Routes <- MCRoutes
    Attempts <- MCAttempts
    MaxDeaths = 1
    None = None
INVARIANTS
    LaunchesAreSerialized
PROPERTIES
    DoneMeansAnswered
    FallbackIsSafe
    EveryRequestEnds
CHECK_DEADLOCK FALSE
