SPECIFICATION FairSpec
CONSTANTS
    Tasks = {t1, t2}
    Turns = {c1, c2}
    Workers = {w1}
    Sweepers = {s1}
    None = None
    Faults = {"crash", "turn", "stop", "refuse"}
    MaxFaults = 2
CHECK_DEADLOCK FALSE
PROPERTIES
    WorkEnds
