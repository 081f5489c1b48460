CONSTANTS
    a = a
    w1 = w1
    w2 = w2
    x1 = x1
    x2 = x2
    Pusher = {a, w1}
    Popper = {w1, w2}
    Item = {x1, x2}
    NoItem = NoItem
    NoThread = NoThread
    Capacity = 1
    MinThreads = 1
    MaxThreads = 2
    Destroyer = {a, w1}
    MaxDestroys = 1
    MaxClears = 1
SPECIFICATION TPFairSpec
INVARIANT WorkersTracked
INVARIANT DestroyWaits
INVARIANT PoolReleases
PROPERTY EveryTaskRuns
PROPERTY TPCallsReturn
CHECK_DEADLOCK FALSE
