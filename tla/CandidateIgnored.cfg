SPECIFICATION Spec
CONSTANTS
    Alice = Alice
    Bob = Bob
    Idle = Idle
    Devices = {Alice, Bob}
    Calls = {1}
    Caller <- OneWay
    Gathering = {1}
    MaxLosses = 0
    MaxDemotions = 0
    MaxFlaps = 0
INVARIANTS CandidateKept
CHECK_DEADLOCK FALSE
