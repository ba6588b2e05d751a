SPECIFICATION Spec
CONSTANTS
    Limits = {12}
    MaxTotal = 3
    Tolerance = 1
    MinAge = 1
    MaxFaults = 2
INVARIANTS
    TypeOK
    CutOnlyOldStandby
    NoPhantomLimit
PROPERTIES
    LimitLearned
