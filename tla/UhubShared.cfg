SPECIFICATION Spec
CONSTANTS
    RequestsA <- MCRequestsA
    RequestsB <- MCRequestsB
    HubArrays <- MCHubArrays
    MasksA <- MCMasksA
    MasksB <- MCMasksB
INVARIANTS
    IndependentPorts
    CyclesEndOn
CHECK_DEADLOCK FALSE
