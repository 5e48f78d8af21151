SPECIFICATION Spec
CONSTANTS
    d1 = d1
    d2 = d2
    Devices <- TwoDevices
    Edits <- ThreeEdits
    Owner <- OwnerOfThree
    Remote = {}
    Slow = {1, 2, 3}
    NoDevice = NoDevice
    NoEdit = NoEdit
    MaxLosses = 0
    MaxFailures = 0
INVARIANT Consistent
CHECK_DEADLOCK FALSE
