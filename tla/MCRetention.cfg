SPECIFICATION FairSpec
CONSTANTS
    i1 = i1
    i2 = i2
    m1 = m1
    m2 = m2
    None = None
    Issue = {i1}
    MergeRequest = {m1, m2}
    MaxRuns = 2
    MaxSlow = 1
    MaxLost = 1
    MaxFailures = 1
    MaxRestarts = 1
    MaxMishaps = 2
    MaxGone = 1
    MaxRaces = 1
INVARIANTS
    RemovesOnlyDueRuns
    AuditedIsGone
    HumanUndisturbed
PROPERTIES
    DueRunsAreCleaned
CHECK_DEADLOCK FALSE
