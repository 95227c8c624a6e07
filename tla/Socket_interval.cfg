\* The intervals that the application sets.
SPECIFICATION Spec
CONSTANTS
    MaxBytes = 1
    MaxCalls = 3
    Intervals = {10}
    Timeouts = {0, 60}
    Default = 45
INVARIANTS
    IntervalIsCustom
CHECK_DEADLOCK FALSE
