CONSTANTS
    Meters = {m1}
    Slots = {s1, s2}
    Jobs = {}
    e1 = e1
    e2 = e2
    d1 = d1
    t1 = t1
    t2 = t2
    EnabledConfigs = {e1, e2}
    DisabledConfigs = {d1}
    None = None
    SlowCalls = {}
    LateEdits = FALSE
    Places = 2
    Digits = 4
    Bits = 6
    Least = 13
    Exponents = 14
    NoLabel = NoLabel
    UnitOptions <- MCUnitOptions
    MappingsOf <- MCMappings
    Topics = {t1, t2}
    Values <- MCValues
    Chunks <- MCChunks
SPECIFICATION DeliverySpec
CHECK_DEADLOCK FALSE
INVARIANTS
    ReadingsAgree
    PayloadIsNearest
    PageShowsResult
PROPERTIES
    ShownStateCatchesUp
    RetiredMappingsSilent
    StopsWhenTold
    ReadsAgain
