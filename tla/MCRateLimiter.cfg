SPECIFICATION LimiterSpec
CONSTANTS
    Credential = {"ka"}
    Address = {"ip"}
    Worker = {w1, w2}
    Burst = 2
    PerSecond = 2
    Second = 3
    SweepThreshold = 1
    IdleEviction = 2
    MaxTime = 4
    MaxRequests = 4
    MaxRestarts = 1
INVARIANTS AdmittedWithinBudget
PROPERTY RetryHintSuffices
CHECK_DEADLOCK FALSE
SYMMETRY Symmetry
