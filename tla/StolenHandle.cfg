\* Two threads behind a symmetric NAT, two runs, and no call that fails.
CONSTANTS
    Threads = {t1, t2}
    NoThread = NoThread
    ScanRange = 2
    HandleLimit = 9
    NoHandle = NoHandle
    CallsMayFail = FALSE
    RunCount = 2
    IdSpace = 6
    Modes = {"sps_sym"}
SPECIFICATION Spec
PROPERTIES
    FailedWithItsSockets
CHECK_DEADLOCK FALSE
