SPECIFICATION Spec
CONSTANTS
    Threads = {t1}
    Readers = {r1}
    Writers = {w1, w2}
    Hub = Hub
    Nobody = Nobody
    Kinds = {"chunk"}
    MaxId = 3
    MaxDrops = 0
    Overlap = TRUE
CHECK_DEADLOCK FALSE
INVARIANTS
    NothingSkipped
