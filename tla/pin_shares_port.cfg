CONSTANTS
    Meters = {m1}
    Slots = {s1, s2}
    Jobs = {j1}
    EnabledConfigs = {e1}
    DisabledConfigs = {}
    None = None
    SlowCalls = {"open"}
    LateEdits = FALSE
SPECIFICATION Spec
INVARIANT PinJobHasPortAlone
