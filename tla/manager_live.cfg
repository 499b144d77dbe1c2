CONSTANTS
    Meters = {m1}
    Slots = {s1, s2, s3}
    Jobs = {j1}
    EnabledConfigs = {e1}
    DisabledConfigs = {}
    None = None
    SlowCalls = {"open"}
    LateEdits = FALSE
    MaxUpdates = 2
SPECIFICATION LiveSpec
CHECK_DEADLOCK FALSE
INVARIANTS
    EnabledMeterServed
PROPERTIES
    LockAlwaysReturns
    PinOperationEnds
