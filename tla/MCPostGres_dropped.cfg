\* The query at the head of the queue when the connection is lost.
SPECIFICATION Spec
CONSTANTS
    Queries = {q1, q2}
    Keys = {k1}
    NoArg = NoArg
    AutoCommit = TRUE
    MaxLosses = 2
    MaxJobs = 3
    MaxDepth = 1
INVARIANTS
    DoneMeansAnswered
CHECK_DEADLOCK FALSE
