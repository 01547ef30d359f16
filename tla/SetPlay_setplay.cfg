SPECIFICATION Spec
CONSTANTS
    dropBallTime = 57
    ArriveBy = 3
    MaxBlind = 1
    MaxLost = 3
    AgainBy = 2
    MaxStopped = 2
    MaxPlay = 1
    MaxCycle = 61
INVARIANTS
    TypeOK
    TakenInTime
    IndirectTakenInTime
    CatchTakenInTime
PROPERTIES
    RequestIsHeeded
CHECK_DEADLOCK FALSE
