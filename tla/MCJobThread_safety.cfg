\* Safety and the contract, Add called from every kind of place.
SPECIFICATION Spec
CONSTANTS
    Jobs = {j1, j2, j3}
    Urgent = {j3}
    Quiet = {j2}
    Producers = {p1}
    Main = Main
    Worker = Worker
    NoJob = NoJob
    NoThread = NoThread
    PipeCap = 2
    AddFrom <- FromAnywhere
    OwnerOps = {"stop", "join"}
INVARIANTS
    TypeOK
    OneOwner
    UrgentFirst
    MutexHeldInside
PROPERTIES
    KeepsContract
    AddsInOrder
CHECK_DEADLOCK FALSE
