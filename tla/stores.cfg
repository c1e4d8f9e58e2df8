\* Two requests on three threads; a notebook of three facts and one compaction; two
\* applications' memories, two of them written; three turns over a month's end; two
\* emitters and two calls of a task.
SPECIFICATION StoresSpec
CONSTANTS
    ThreadIds = {t1, t2, t3}
    MessageIds = {m1}
    Requests = {r1, r2}
    NoThread = NoThread
    NoMessage = NoMessage
    CountCeiling = 2
    TokenCeiling = 3
    MaxCompacted = 2
    ReadLimit = 6
    Sizes = {1, 2}
    MaxFacts = 3
    MaxTime = 2
    MaxRuns = 1
    Beside = TRUE
    Apps = {a1, a2}
    ListedKinds = {listed}
    RankedKinds = {ranked}
    Keys = {k1}
    Contents = {x, y}
    Admitted = {x}
    TopK = 1
    AlwaysTopK = 1
    Applications = {a1, a2}
    MaxCandidates = 2
    MaxPuts = 2
    Turns = {u1, u2, u3}
    Costs = {1}
    MaxMonth = 1
    NoApp = NoApp
    Emitters = {root, lane}
    Root = root
    Calls = {c1, c2}
    Points = {10, 20}
    Advance = 5
    BatchSize = 2
    MaxUpdates = 3
    MaxFaults = 1
    Runner = runner
    None = None
INVARIANTS
    ReferencesHold
    KeepsPlace
    AnswerInScope
    BudgetHolds
    ReportsKept
PROPERTIES
    NotesKept
    PrunedBeforeStaysGone
\* Every id, fact, put and turn may be used up.
CHECK_DEADLOCK FALSE
