SPECIFICATION FairSpec
CONSTANTS
    Conn = {c1, c2}
    MaxTotal = 2
    Samples = 1
    MinSample = 1
CHECK_DEADLOCK FALSE
PROPERTIES
    PrimaryRecovers
    RetiredLeaves
    BuildersEnd
