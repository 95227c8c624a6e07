\* Two timers; nobody starts a Timer(module) without saying for how long.
SPECIFICATION FairSpec
CONSTANTS
    Timers = {t1, t2}
    NoTimer = NoTimer
    Wrap = 4
    PlainStart = FALSE
INVARIANTS
    TypeOK
    FinishedWhenDue
PROPERTIES
    StopStops
    StopEnds
CHECK_DEADLOCK FALSE
