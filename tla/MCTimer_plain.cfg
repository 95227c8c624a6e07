\* Timer(module) and Start(interval), as in the test of the same name.
SPECIFICATION Spec
CONSTANTS
    Timers = {t1}
    NoTimer = NoTimer
    Wrap = 4
    PlainStart = TRUE
INVARIANTS
    FinishedWhenDue
CHECK_DEADLOCK FALSE
