CONSTANTS
    Messages = {m1}
    Timers <- MCTimers
    NoTimer <- MCNoTimer
    NoMessage = none
    MaxLosses = 1
    MaxCrashes = 0
    MaxMeddling = 0
SPECIFICATION Spec
INVARIANT PendingHasNonce
CHECK_DEADLOCK FALSE
