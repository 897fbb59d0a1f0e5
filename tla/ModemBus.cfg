SPECIFICATION NamesSpec
CONSTANTS
    Custom = Custom
    Ids <- MCIds
    Tables <- MCTables
    MaxPresent = 2
INVARIANT
    BusHonoured
CHECK_DEADLOCK FALSE
