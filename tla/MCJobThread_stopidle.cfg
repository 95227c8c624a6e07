\* Stop against a Worker that waits for a job.
SPECIFICATION FairSpec
CONSTANTS
    Jobs = {j1, j2, j3}
    Urgent = {j3}
    Quiet = {j2}
    Producers = {p1}
    Main = Main
    Worker = Worker
    NoJob = NoJob
    NoThread = NoThread
    PipeCap = 1
    AddFrom <- FromOthers
    OwnerOps = {"stop"}
PROPERTIES
    StopEndsThread
CHECK_DEADLOCK FALSE
