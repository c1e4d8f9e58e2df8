SPECIFICATION Spec
CONSTANTS
    Sections = {"notes"}
    KeepRecent = 1
    Block = 2
    CompactAt = 7
    KeepSize = 4
    MinKept = 1
    DigestCap = 2
    Pasts <- PastsDamaged
    Big = 2
    MaxCalls = 4
    MaxRuns = 2
    MaxVersion = 1
    Bodies = {"big"}
    Parks = TRUE
CHECK_DEADLOCK FALSE
INVARIANTS
    BriefingCurrent
    NothingLost
PROPERTIES
    RequestsExtend
