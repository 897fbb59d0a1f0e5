SPECIFICATION Spec
CONSTANTS
    UsbTrees <- MCTrees
    CommandLines <- MCCommandLines
    MaxHubs = 4
    None = None
    MaxRepower = 1
INVARIANTS
    OptionsRead
    PhysicallyAsAsked
PROPERTIES
    BystandersKeepPower
    OnlyAsAsked
CHECK_DEADLOCK FALSE
