SPECIFICATION Spec
CONSTANTS
    a = a
    b = b
    c = c
    Callers <- MCCallers
    Hanging <- MCHanging
    MaxChunks <- MCMaxChunks
    Hole = Hole
    None = None
INVARIANTS
    HitFresh
    OwnOutput
    HitWhole
PROPERTY
    Returns
CHECK_DEADLOCK FALSE
