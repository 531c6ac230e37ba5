CONSTANTS
    Env = {"production", "staging"}
    Production = "production"
    User = {ada, mel}
    PageSize = 1
    MaxClicks = 3
    MaxOthers = 2
    MaxCalls = 2
    MaxLog = 2
SYMMETRY Symmetric
SPECIFICATION Spec
INVARIANTS OptimismSettles SomethingIsAwaited  PagesCoverTheLog
PROPERTY OverwritesOnlyWhatItRead
CHECK_DEADLOCK FALSE
