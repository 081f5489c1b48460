CONSTANTS
    c1 = c1
    c2 = c2
    o1 = o1
    o2 = o2
    Client = {c1, c2}
    Task = {o1, o2}
    NoTask = NoTask
    MaxReschedule = 2
SPECIFICATION DTFairSpec
INVARIANT ArgumentOnce
 
PROPERTY EveryTaskEnds
CHECK_DEADLOCK FALSE
