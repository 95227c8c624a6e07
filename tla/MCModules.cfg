\* Up to three modules and two events, four together, over the life of the process.
SPECIFICATION Spec
CONSTANTS
    MaxModules = 3
    MaxEvents = 2
    MaxMade = 4
    Global = Global
    Nobody = Nobody
    Paths = {"loads", "threaded", "threaded.so"}
    Suffixed = {"threaded.so"}
    ModName <- MCModName
    Threaded = {"threaded", "threaded.so"}
    OnCrash <- MCOnCrash
    Loading = {"loads"}
    Signals = {"SIGABRT", "SIGSEGV"}
INVARIANTS
    RegistryExact
    LoadedIsListed
PROPERTIES
    CrashedGoes
CHECK_DEADLOCK FALSE
