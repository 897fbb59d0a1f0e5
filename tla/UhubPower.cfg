SPECIFICATION Spec
CONSTANTS
    Requests <- MCRequests
    HubArrays <- MCHubArrays
    PortMasks <- MCPortMasks
    MaxRepower = 1
    PhysPorts = {1, 2}
INVARIANTS
    TypeOK
    GoalReached
PROPERTIES
    OthersLeftAlone
    KeepsContract
    Terminates
CHECK_DEADLOCK FALSE
