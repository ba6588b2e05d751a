SPECIFICATION FairSpec
CONSTANTS
    a = a
    b = b
    Device = {a, b}
    MaxCall = 2
    MaxToken = 4
    Budgets <- MCBudgets
CHECK_DEADLOCK FALSE
INVARIANTS
    TypeOK
    ShowsOwnWrites
    ShowsItsDevice
PROPERTIES
    TokenErasedForCause
    SpinnerEnds
    SessionRecovers
