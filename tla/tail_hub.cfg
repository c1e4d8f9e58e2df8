SPECIFICATION Spec
CONSTANTS
    Threads = {t1, t2}
    Readers = {r1, r2}
    Writers = {w1, w2}
    Hub = Hub
    Nobody = Nobody
    Kinds = {"chunk"}
    MaxId = 2
    MaxDrops = 2
    Overlap = TRUE
SYMMETRY Symmetry
CHECK_DEADLOCK FALSE
INVARIANTS
    NoDeafReader
    NoMissedWake
PROPERTIES
    NeverRepeats
