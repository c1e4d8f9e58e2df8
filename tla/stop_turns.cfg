SPECIFICATION FairSpec
CONSTANTS
    Turns = {c1, c2}
    Tasks = {k1}
    Workers = {w1}
    Deleters = {d1}
    Buttons = {}
    Sweepers = {s1}
    None = None
    MaxText = 1
    MaxGaps = 1
    MaxFaults = 1
CHECK_DEADLOCK FALSE
INVARIANTS
    OneWriterPerTurn
    EndsClosed
PROPERTIES
    DeleteWaits
    StopEndsRunningTurn
