\* One workspace with one slot, two events of one issue, leases of one tick.
SPECIFICATION Spec
CONSTANTS
    w1 = w1
    w2 = w2
    c1 = c1
    e1 = e1
    e2 = e2
    r1 = r1
    r2 = r2
    Workspace = {w1}
    Conversation = {c1}
    Event = {e1, e2}
    Run = {r1, r2}
    None = None
    ConversationOf <- OneIssue
    Capacity <- OneSlot
    LeaseSeconds = 1
    ClockLag = 1
    MaxTime = 4
SYMMETRY RunSymmetry
INVARIANTS
    StartedOnce
    CapacityRespected
PROPERTIES
    ImplementsLifecycle
\* The clock is bounded and every job may have ended.
CHECK_DEADLOCK FALSE
