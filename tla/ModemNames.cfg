SPECIFICATION NamesSpec
CONSTANTS
    Custom = Custom
    Ids <- MCIds
    Tables <- MCTables
    MaxPresent = 2
INVARIANTS
    NamesTypeOK
    DistinctNames
    SiblingsDiffer
CHECK_DEADLOCK FALSE
