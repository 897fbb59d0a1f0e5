SPECIFICATION Spec
CONSTANTS
    UsbTrees <- MCTrees
    Filters <- MCFilters
    MaxHubs = 4
    None = None
INVARIANTS
    TypeOK
    OneHub
    BothHalves
    DerivedJustified
    SearchFocus
    NoPhantom
    TableSuffices
CHECK_DEADLOCK FALSE
