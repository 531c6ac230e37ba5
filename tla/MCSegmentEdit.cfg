SPECIFICATION Spec
CONSTANTS
    Op = {o1, o2}
    Member = {m1}
    None = None
    MaxRows = 2
    MaxVersion = 3
SYMMETRY Symmetry
INVARIANT DecidableUnlessBlind
PROPERTY ValidatedIsWritten
