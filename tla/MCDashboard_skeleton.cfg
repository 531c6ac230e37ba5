CONSTANTS
    Env = {"production", "staging"}
    Production = "production"
    User = {ada, mel}
    PageSize = 1
    MaxClicks = 1
    MaxOthers = 1
    MaxCalls = 2
    MaxLog = 2
SYMMETRY Symmetric
SPECIFICATION Spec
INVARIANT SkeletonsAreLoading
CHECK_DEADLOCK FALSE
