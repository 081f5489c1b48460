SPECIFICATION Spec
CONSTANTS
    a = a
    b = b
    Main = Main
    Nobody = Nobody
    NoSvc = NoSvc
    Order <- ListAB
    Java = {}
    AutoStart = {a, b}
    ExpectAck = {a}
    SinglePhase = {a}
    RestartOnFail = {b}
    Spaced = {}
    OnMax <- Mixed
    MaxRestarts = 1
    Admin = {t1}
    Ops <- OpsOne
    MaxRuns = 2
    Late = FALSE
INVARIANT PidsAreTrue
PROPERTY NoThrash
