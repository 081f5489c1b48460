CONSTANTS
    p1 = p1
    p2 = p2
    c1 = c1
    x1 = x1
    x2 = x2
    x3 = x3
    Pusher = {p1, p2}
    Popper = {c1}
    Item = {x1, x2, x3}
    NoItem = NoItem
    Capacity = 2
SPECIFICATION FairSpec
INVARIANT SolePopperAwake
PROPERTY ImplementsFifo
PROPERTY CallsReturn
CHECK_DEADLOCK FALSE
