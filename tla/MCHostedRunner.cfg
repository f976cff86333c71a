\* One job, over up to three leases, a pool of two; two of lost or late
\* requests, interruptions and a failure of tmux.
SPECIFICATION FairSpec
CONSTANTS
    j1 = j1
    Job = {j1}
    Capacity = 2
    Lease = 3
    Beat = 1
    MaxGeneration = 3
    MaxMissed = 2
    MaxBreaks = 2
    Breaks = {"pause", "partition", "restart"}
    MaxTmuxFailures = 1
    MaxMishaps = 2
INVARIANTS
    OneAgentPerJob
    WorkersAreWatched
    ExecutorsFitThePool
    OneMissIsHarmless
PROPERTIES
    LostWorkIsAbandoned
    EveryJobIsWorkedOff
