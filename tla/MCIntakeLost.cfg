SPECIFICATION Spec
CONSTANTS
    Issue = {i1}
    MR = {m1}
    Page = 2
    Keep = 2
    MaxEvents = 3
    MaxAnswers = 2
    MaxFailures = 1
    None = None
INVARIANT
    RepliesSurviveFailures
CHECK_DEADLOCK FALSE
