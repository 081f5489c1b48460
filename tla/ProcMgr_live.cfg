SPECIFICATION FairSpec
CONSTANTS
    a = a
    b = b
    Main = Main
    Nobody = Nobody
    NoSvc = NoSvc
    Order <- ListB
    Java = {}
    AutoStart = {b}
    ExpectAck = {b}
    SinglePhase = {}
    RestartOnFail = {b}
    Spaced = {}
    OnMax <- Reboot
    MaxRestarts = 1
    Admin = {t1}
    Ops <- OpsAsk
    MaxRuns = 2
    Late = FALSE
INVARIANT StartupIsSound
PROPERTY DeathNoticed
PROPERTY StopStops
 
