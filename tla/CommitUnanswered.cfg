SPECIFICATION Spec
CONSTANTS
    d1 = d1
    d2 = d2
    Devices <- TwoDevices
    Edits <- ThreeEdits
    Owner <- OwnerOfThree
    Remote = {}
    Slow = {}
    NoDevice = NoDevice
    NoEdit = NoEdit
    MaxLosses = 1
    MaxFailures = 0
INVARIANT Consistent
CHECK_DEADLOCK FALSE
