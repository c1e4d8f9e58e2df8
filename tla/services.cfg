\* Two requests that name three threads; a worker of twelve ticks' window; a
\* message of five parts and two sub-agents.
SPECIFICATION ServicesSpec
CONSTANTS
    ThreadIds = {t1, t2, t3}
    Owners = {o1, o2}
    Sites = {s1}
    Requests = {r1, r2}
    Bases = {a}
    MaxSuffix = 2
    NoThread = NoThread
    NoShelf = NoShelf
    Interval = 4
    Window = 12
    Delay = 2
    MaxLost = 1
    None = None
    Dispatches = {d1, d2}
    Lanes = {la, lb}
    Phases = {plan, run}
    MaxParts = 5
    MaxSpend = 2
SYMMETRY Symmetry
INVARIANTS
    NamesApart
    ReadersAgree
    NothingRunsOn
    ShownWhole
PROPERTY LiveIsNotDead
\* Every id may be used up, and a message is full.
CHECK_DEADLOCK FALSE
