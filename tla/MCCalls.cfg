SPECIFICATION Spec
CONSTANTS
    Alice = Alice
    Bob = Bob
    Idle = Idle
    Devices = {Alice, Bob}
    Calls = {1, 2}
    Caller <- Glare
    Gathering = {}
    MaxLosses = 0
    MaxDemotions = 1
    MaxFlaps = 0
INVARIANTS TypeOK SetupPrecedesEnd
CHECK_DEADLOCK FALSE
