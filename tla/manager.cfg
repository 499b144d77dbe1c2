CONSTANTS
    Meters = {m1, m2}
    Slots = {s1, s2}
    Jobs = {j1, j2}
    EnabledConfigs = {e1, e2}
    DisabledConfigs = {d1}
    None = None
    SlowCalls = {}
    LateEdits = FALSE
SPECIFICATION Spec
SYMMETRY Symmetry
INVARIANTS
    TypeOK
    ExclusiveUse
    LentPortStaysOpen
    NoOrphanReader
    ReservedByOneJob
    RunsCurrentConfig
    StopLeavesNoReader
PROPERTIES
    ImplementsLease
