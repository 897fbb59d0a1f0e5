SPECIFICATION HookSpec
CONSTANTS
    Window = 2
    MaxTime = 4
    MaxDev = 3
    None = None
    Delay = 2
    MinUptime = 2
INVARIANTS
    HookTypeOK
    Spaced
    RightUntouched
    NotForgotten
    Accounted
CHECK_DEADLOCK FALSE
