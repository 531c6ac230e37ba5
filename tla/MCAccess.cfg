SPECIFICATION Spec
CONSTANTS
    Node = {n1, n2}
    SdkSlot = {sdk}
    AdminSlot = {admin}
    Key = {"ka"}
    User = {"ada", "mel"}
    Role <- MCRole
    Remaining <- MCRemaining
    Interval = 1
    Ttl = 1
    Timeout = 1
    MaxTime = 2
    MaxRestarts = 1
INVARIANTS RevokedIsOut UsageFresh ChangesAreAudited
PROPERTY KeysChangeUnderAuthority
SYMMETRY Symmetric
CHECK_DEADLOCK FALSE
