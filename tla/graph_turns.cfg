SPECIFICATION Spec
CONSTANTS
    Responses <- ResponsesMixed
    Threshold = 2
    Cap = 1
    Typed = {FALSE, TRUE}
    MaxTurns = 3
    MaxCalls = 4
    MaxRequests = 3
    Faults = {"cancel", "stale"}
CHECK_DEADLOCK FALSE
INVARIANTS
    ThreadAccepted
    ResumesWhole
    WarnedBeforeStopped
PROPERTIES
    OnlyApprovedRuns
