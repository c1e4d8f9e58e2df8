CONSTANTS
    Calls = {c1}
    Indexes = {0, 1}
    MaxParts = 2
    MaxDeltas = 1
    MaxTurns = 2
    MaxData = 1
    MaxSteps = 1
    None = None
SPECIFICATION Spec
CHECK_DEADLOCK FALSE
INVARIANTS
    FoldsAgree
    DeltasReachTheirPart
    EndsClean
