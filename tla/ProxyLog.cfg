SPECIFICATION Spec
CONSTANTS
    MaxPackets = 3
    MaxFiles = 3
    MaxMishaps = 2
    None = None
INVARIANTS
    TypeOK
    NoLoss
    LoggedOnce
    InOrder
PROPERTY
    EventuallyLogged
CHECK_DEADLOCK FALSE
