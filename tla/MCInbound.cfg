SPECIFICATION FairSpec
CONSTANTS
    Messages = {m1}
    Timers <- MCTimers
    NoTimer <- MCNoTimer
    NoMessage = none
    MaxLosses = 1
    MaxCrashes = 1
    MaxMeddling = 1
INVARIANTS TypeOK OneRow NotLost TimerTrue
PROPERTIES PurgedForGood QueueDrains PendingSettles
CHECK_DEADLOCK FALSE
