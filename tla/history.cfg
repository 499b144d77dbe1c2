CONSTANTS
    Writers = {w1, w2}
    Series = {a, b}
    Intervals = {2, 3}
    Retentions = {4, 5}
    PruneInterval = 1
    MaxTime = 7
    MaxWait = 1
    MaxEvents = 1
    None = None
SPECIFICATION Spec
SYMMETRY Symmetry
CHECK_DEADLOCK FALSE
INVARIANTS
    HistoryTypeOK
    SpacedOut
    AgeBounded
    ChartIsFaithful
PROPERTY ThrottledForAReason
