SPECIFICATION Spec
CONSTANTS
    UsbTrees <- TwoModems
    Filters <- MCSearchB
    MaxHubs = 6
    None = None
INVARIANT
    SearchSelects
CHECK_DEADLOCK FALSE
