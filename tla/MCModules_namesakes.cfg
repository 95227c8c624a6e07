\* One path, which has an extension, is loaded twice.
SPECIFICATION Spec
CONSTANTS
    MaxModules = 2
    MaxEvents = 1
    MaxMade = 3
    Global = Global
    Nobody = Nobody
    Paths = {"loads", "threaded.so"}
    Suffixed = {"threaded.so"}
    ModName <- MCModName
    Threaded = {"threaded.so"}
    OnCrash <- MCOnCrash
    Loading = {"loads"}
    Signals = {"SIGABRT", "SIGSEGV"}
INVARIANTS
    NoNamesakes
CHECK_DEADLOCK FALSE
