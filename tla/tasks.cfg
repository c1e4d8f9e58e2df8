SPECIFICATION Spec
CONSTANTS
    Tasks = {t1, t2}
    Turns = {c1, c2}
    Workers = {w1, w2}
    Sweepers = {s1, s2}
    None = None
    Faults = {"crash", "io", "turn", "peek", "stop", "refuse"}
    MaxFaults = 2
SYMMETRY Symmetry
CHECK_DEADLOCK FALSE
INVARIANTS
    OneTurnAtATime
    OneVerdict
    OneHolder
PROPERTIES
    KeepsSteps
    AnnouncedBeforeTurn
