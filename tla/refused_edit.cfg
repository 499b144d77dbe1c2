CONSTANTS
    PoolEdits = {p1}
    MeterEdits = {e1}
    MqttEdits = {}
    HistoryEdits = {}
    Imports = {i1}
    MaxCrashes = 1
    Nobody = Nobody
    Torn = Torn
SPECIFICATION Spec
CHECK_DEADLOCK FALSE
INVARIANT RefusedHasNoEffect
