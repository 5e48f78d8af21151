SPECIFICATION FairSpec
CONSTANTS
    Alice = Alice
    Bob = Bob
    Idle = Idle
    Devices = {Alice, Bob}
    Calls = {1}
    Caller <- OneWay
    Gathering = {1}
    MaxLosses = 1
    MaxDemotions = 1
    MaxFlaps = 1
INVARIANTS CandidateFlushed
PROPERTIES MicrophoneReleased PeerFollows
CHECK_DEADLOCK FALSE
