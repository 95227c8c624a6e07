\* Two queries, two channels, a server that goes away twice.
SPECIFICATION FairSpec
CONSTANTS
    Queries = {q1, q2}
    Keys = {k1}
    NoArg = NoArg
    AutoCommit = TRUE
    MaxLosses = 2
    MaxJobs = 3
    MaxDepth = 1
INVARIANTS
    NothingLostOrReordered
    OneOutstanding
    NeverStranded
    ListensInSync
PROPERTIES
    EveryQueryEnds
CHECK_DEADLOCK FALSE
