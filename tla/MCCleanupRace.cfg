\* The cleanup is claimed between two transactions of a dispatch.
SPECIFICATION Spec
CONSTANTS
    i1 = i1
    i2 = i2
    w1 = w1
    w2 = w2
    NoOne = NoOne
    Issue = {i1}
    Workspace = {w1}
    Comments = 1
    IssueOf <- OneIssue
    Plain <- NoComment
    Unapproved <- NoComment
    LabelEvents = 1
    PageSize = 1
    MaxAborts = 0
    MaxOutages = 0
    MaxReassigned = 0
    MaxCleanups = 1
    MaxTroubles = 1
INVARIANTS
    CleanupExcludesRuns
