SPECIFICATION FairSpec
CONSTANTS
    Env = {e1}
    Request = {r1}
    Slot = {s1, s2, s3, s4}
    NoSlot = NoSlot
    None = None
    AnyEnv = e1
    MaxWrites = 1
PROPERTIES EventuallyFresh RequestsEnd
