SPECIFICATION Spec
CONSTANTS
    Op = {o1, o2}
    Env = {e1}
    Segment = {s1}
    Variant = {v1, v2}
    Off = v1
    Body <- MCBody
    VariantSet <- MCVariantSet
    None = None
    MaxFlags = 2
    MaxVersion = 2
SYMMETRY Symmetry
INVARIANTS ConfiguredUnlessRaced EvaluableUnlessTorn ReferencesUnlessTorn
PROPERTIES NoLostUpdate
