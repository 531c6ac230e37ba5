SPECIFICATION FairSpec
CONSTANTS
    a1 = a1 b1 = b1 A = A B = B x = x
    Event = {a1, b1}
    Cell = {A, B}
    Experiment = {x}
    CellOf <- MCCellOf
    ExperimentOf <- MCExperimentOf
    Flusher = {f1, f2}
    Background = {f1}
    Msg = {m1}
    NoMsg = NoMsg
    MaxCells = 2
    MaxBatch = 1
    MaxRows = 2
INVARIANTS NothingVanishes CountedOnce DraftIsBlank
PROPERTY EventuallySettled
