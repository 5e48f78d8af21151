SPECIFICATION FairSpec
CONSTANTS
    d1 = d1
    d2 = d2
    Devices <- TwoDevices
    Edits <- ThreeEdits
    Owner <- OwnerOfThree
    Remote = {2}
    Slow = {}
    NoDevice = NoDevice
    NoEdit = NoEdit
    MaxLosses = 0
    MaxFailures = 0
PROPERTY EditSettlesUnlessHanging
CHECK_DEADLOCK FALSE
