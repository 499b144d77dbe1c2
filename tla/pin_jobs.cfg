CONSTANTS
    Base = 3
    PinLength = 2
    First = 1
    digit_gap = 1
    group_gap = 3
    settle = 2
    Jobs = {j1, j2, j3}
    Cancels = {c1}
    Total = 8
    PromptMeter = TRUE
    None = None
SPECIFICATION Spec
INVARIANTS
    OneJobAtATime
    EndedIsFinished
    FoundIsRight
    NotFoundIsTrue
    HeardCancelStops
PROPERTY JobsEnd
