SPECIFICATION FairSpec
CONSTANTS
    d1 = d1
    d2 = d2
    Devices <- TwoDevices
    Edits <- ThreeEdits
    Owner <- OwnerOfThree
    Remote = {2}
    Slow = {1, 3}
    NoDevice = NoDevice
    NoEdit = NoEdit
    MaxLosses = 2
    MaxFailures = 1
INVARIANTS
    TypeOK
    ExecutorHoldsLock
    OutcomeTrue
    Converged
PROPERTIES
    ExecutorUpToDate
    EditSettles
CHECK_DEADLOCK FALSE
