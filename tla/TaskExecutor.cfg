CONSTANTS
    a = a
    b = b
    w = w
    x1 = x1
    x2 = x2
    x3 = x3
    Pusher = {a, b}
    Popper = {w}
    Worker = w
    Destroyer = {a, b}
    Drainer = {a, b}
    Mixes = FALSE
    Item = {x1, x2, x3}
    NullRun = {x3}
    NoItem = NoItem
    NoThread = NoThread
    Capacity = 2
SPECIFICATION XFairSpec
INVARIANT TasksReleased
INVARIANT SafeToDelete
PROPERTY EveryTaskReleased
PROPERTY XCallsReturn
CHECK_DEADLOCK FALSE
