SPECIFICATION FairSpec
CONSTANTS
    Alice = Alice
    Bob = Bob
    Idle = Idle
    Devices = {Alice, Bob}
    Calls = {1, 2}
    Caller <- Glare
    Gathering = {}
    MaxLosses = 0
    MaxDemotions = 0
    MaxFlaps = 0
PROPERTIES OfferFinished
CHECK_DEADLOCK FALSE
