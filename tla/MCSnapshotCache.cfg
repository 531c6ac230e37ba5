SPECIFICATION Spec
CONSTANTS
    Env = {e1}
    Request = {r1, r2}
    Slot = {s1, s2, s3, s4, s5}
    NoSlot = NoSlot
    None = None
    AnyEnv = e1
    MaxWrites = 1
SYMMETRY Symmetry
INVARIANTS SingleFlight ReadYourWrites DeletedIsWithdrawn NoMissedUpdate
PROPERTIES NeverRegresses ImplementsRegister
