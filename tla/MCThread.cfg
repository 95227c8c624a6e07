\* Objects that are joined before they are deleted; pthread_t values come back.
SPECIFICATION FairSpec
CONSTANTS
    Objects = {o1, o2}
    NoObject = NoObject
    Ids = {i1, i2}
    NoId = NoId
INVARIANTS
    OneThreadPerObject
    RegistryExact
PROPERTIES
    StoppedIsJoined
CHECK_DEADLOCK FALSE
