SPECIFICATION Spec
CONSTANTS
    r1 = r1
    r2 = r2
    alice = alice
    bob = bob
    Runs <- MCRuns
    Names <- MCNames
    None = None
    MaxInstalls = 2
INVARIANTS
    TypeOK
    HomeWhole
    OneAuthority
    UpToDate
PROPERTY
    DoneIsNew
SYMMETRY MCSymmetry
CHECK_DEADLOCK FALSE
