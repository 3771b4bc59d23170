CONSTANTS
    NReg = 3
    NAg = 2
    Need = 3
    InitTimes = {1}
    Delays = {1, 2}
    MaxTime = 3
SPECIFICATION Spec
INVARIANTS
    TypeOK
    RegionListExact
    SharedVisited
PROPERTIES
    Terminates
