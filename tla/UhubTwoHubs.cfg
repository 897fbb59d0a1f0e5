SPECIFICATION Spec
CONSTANTS
    UsbTrees <- Usb2Cable
    Filters <- MCAtA
    MaxHubs = 6
    None = None
INVARIANT
    OneHub
CHECK_DEADLOCK FALSE
