CONSTANTS
    c1 = c1
    c2 = c2
    Caller = {c1, c2}
    Uses <- EveryUse
    Delay = 3
    StartDelay = 1
    Increment = 2
    MaxDelay = 4
    NewDelay = {1, 3}
    MaxLate = 7
SPECIFICATION RTFairSpec
INVARIANT CancelIsSafe
INVARIANT OnTheGrid
PROPERTY PauseKept
PROPERTY RunsUntilCancelled
CHECK_DEADLOCK FALSE
