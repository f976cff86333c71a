SPECIFICATION FairSpec
CONSTANTS
    Items <- MCItems
    Blockers <- MCBlockers
    MaxDrags = 2
    MaxPrunes = 0
    MaxTroubles = 0
    None = None
PROPERTIES
    AgentDragsDispatch
CHECK_DEADLOCK FALSE
