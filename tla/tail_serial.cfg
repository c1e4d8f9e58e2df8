SPECIFICATION FairSpec
CONSTANTS
    Threads = {t1}
    Readers = {r1}
    Writers = {w1}
    Hub = Hub
    Nobody = Nobody
    Kinds = {"chunk", "done", "prompt"}
    MaxId = 3
    MaxDrops = 1
    Overlap = FALSE
CHECK_DEADLOCK FALSE
INVARIANTS
    NothingSkipped
PROPERTIES
    TailCatchesUp
