SPECIFICATION Spec
CONSTANTS
    Conn = {c1, c2, c3}
    MaxTotal = 3
    Samples = 1
    MinSample = 1
SYMMETRY Slots
CHECK_DEADLOCK FALSE
INVARIANTS
    TypeOK
    SinglePrimary
    CapacityRespected
    PendingAccounting
PROPERTIES
    RetiredStaysRetired
    HandoverMakesBeforeBreaks
    PlannedClosesTeachNothing
    ImplementsRoles
