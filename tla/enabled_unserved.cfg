CONSTANTS
    Meters = {m1}
    Slots = {s1, s2}
    Jobs = {j1}
    EnabledConfigs = {e1}
    DisabledConfigs = {d1}
    None = None
    SlowCalls = {}
    LateEdits = FALSE
SPECIFICATION Spec
INVARIANT EnabledMeterServed
