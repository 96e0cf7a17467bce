SPECIFICATION Spec
CONSTANTS
    Handlers = {p1, p2}
    Buckets = {b1}
    Targets = {m1}
    Unknown = unknown
    MaxCalls = 2
    Window = 1
    Hour = 1
    Threshold = 2
    MaxEvents = 3
    MaxTime = 3
    MaxFaults = 1
SYMMETRY Sym
INVARIANTS TypeOK LimitKept FlagsBounded EvidenceBounded BurstFlagged
CHECK_DEADLOCK FALSE
