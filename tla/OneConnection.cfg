SPECIFICATION FairSpec
CONSTANTS
    Delay = 2
    Hint = 3
    Timeout = 3
    Horizon = 3
INVARIANTS
    OnlyOneConnection
