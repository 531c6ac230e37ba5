SPECIFICATION Spec
CONSTANTS
    None = None
    Total = 4
    ValidKey <- MCValidKey
    TextFact <- MCTextFact
    Compiles <- MCCompiles
    Semver <- MCSemver
    Slot <- MCSlot
    Salts = {0, 1, 2, 3}
    FlagKey = {"checkout"}
    SegmentKey = {"beta"}
    Metric = {"paid", "left"}
    VariantLists <- MCVariantLists
    Configs <- MCConfigs
    SegmentInputs <- MCSegmentInputs
    Controls = {"on", "off"}
    Context <- MCContext
    Tallies <- MCTallies
    MaxVersion = 3
INVARIANTS ErrorsOnlyWithoutSubject SharesExact NegationIsStrict LocalAgreesWithServer ConversionOnExposedArm ResultsAreProportions
PROPERTY RampUpIsSticky
