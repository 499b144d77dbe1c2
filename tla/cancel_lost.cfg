CONSTANTS
    Base = 3
    PinLength = 2
    First = 2
    digit_gap = 1
    group_gap = 3
    settle = 2
    Jobs = {j1, j2}
    Cancels = {c1}
    Total = 3
    PromptMeter = TRUE
    None = None
SPECIFICATION Spec
INVARIANT AcknowledgedCancelStops
