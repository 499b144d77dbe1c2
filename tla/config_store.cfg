CONSTANTS
    PoolEdits = {p1}
    MeterEdits = {e1}
    MqttEdits = {q1}
    HistoryEdits = {h1}
    Imports = {i1}
    MaxCrashes = 1
    Nobody = Nobody
    Torn = Torn
SPECIFICATION Spec
CHECK_DEADLOCK FALSE
INVARIANTS
    AcknowledgedIsDurable
    NoLostUpdate
    LiveIsSaved
    SettingsInForce
PROPERTIES
    SessionsSurvive
    RequestsAnswered
