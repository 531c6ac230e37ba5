CONSTANTS
    Env = {"production", "staging"}
    Production = "production"
    User = {ada, mel}
    PageSize = 1
    MaxClicks = 2
    MaxOthers = 1
    MaxCalls = 2
    MaxLog = 2
SYMMETRY Symmetric
SPECIFICATION Spec
PROPERTY NeverSilentOverwrite
CHECK_DEADLOCK FALSE
