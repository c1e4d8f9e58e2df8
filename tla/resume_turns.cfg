CONSTANTS
    MaxLog = 11
    MaxTexts = 2
    MaxFaults = 2
    None = None
SPECIFICATION Spec
CHECK_DEADLOCK FALSE
INVARIANTS
    OwnParts
    CursorCovers
    LiveIsReload
