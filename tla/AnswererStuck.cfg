SPECIFICATION FairSpec
CONSTANTS
    Alice = Alice
    Bob = Bob
    Idle = Idle
    Devices = {Alice, Bob}
    Calls = {1}
    Caller <- OneWay
    Gathering = {}
    MaxLosses = 1
    MaxDemotions = 0
    MaxFlaps = 0
PROPERTIES NeverStuck
CHECK_DEADLOCK FALSE
