\* AddFront against the Worker between front() and pop_front().
SPECIFICATION Spec
CONSTANTS
    Jobs = {j1, j2, j3}
    Urgent = {j3}
    Quiet = {j2}
    Producers = {p1}
    Main = Main
    Worker = Worker
    NoJob = NoJob
    NoThread = NoThread
    PipeCap = 2
    AddFrom <- FromOthers
    OwnerOps = {"stop"}
INVARIANTS
    ExecutesOnce
CHECK_DEADLOCK FALSE
