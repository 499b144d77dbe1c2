CONSTANTS
    Readers = {r1, r2}
    Web = web
    MaxPublishers = 2
    None = None
SPECIFICATION Spec
INVARIANTS
    CurrentConnected
    StraysNeedOverlap
