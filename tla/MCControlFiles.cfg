\* Three lines for two control files; another module has a callback of its own.
SPECIFICATION Spec
CONSTANTS
    Directories = {"sys", "tmp"}
    Sys = "sys"
    Callbacks = {loader, other}
    Loader = loader
    NoCallback = NoCallback
    MaxWatches = 3
    Files = {"loadmodule", "unloadmodule"}
    Mode <- MCMode
    Commands = {c1, c2, c3}
PROPERTIES
    EveryCommandRuns
    Quiet
CHECK_DEADLOCK FALSE
