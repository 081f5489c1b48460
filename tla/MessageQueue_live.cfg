CONSTANTS
    a = a
    b = b
    m1 = m1
    m2 = m2
    m3 = m3
    Client = {a, b}
    Msg = {m1, m2, m3}
    NoMsg = NoMsg
    Asks = {m1, m2}
    NeedsLink = {m3}
    NumRetries = 1
    MaxSent = 1
    MaxDelays = 1
    MaxLink = 0
    Calls = {"filter", "clear", "complete", "start", "destroy"}
    LateReplies = FALSE
SPECIFICATION FairSpec
 
INVARIANT ThreadGoneWhenFreed
 
PROPERTY StopReturns
CHECK_DEADLOCK FALSE
