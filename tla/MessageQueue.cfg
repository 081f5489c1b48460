CONSTANTS
    a = a
    b = b
    m1 = m1
    m2 = m2
    m3 = m3
    Client = {a, b}
    Msg = {m1, m2, m3}
    NoMsg = NoMsg
    Asks = {m1}
    NeedsLink = {m1, m3}
    NumRetries = 1
    MaxSent = 1
    MaxDelays = 0
    MaxLink = 1
    Calls = {"filter", "remove", "clear", "complete", "start", "halt", "stop"}
    LateReplies = TRUE
SYMMETRY Symmetry
SPECIFICATION Spec
INVARIANT MessagesKept
INVARIANT ThreadInformed
