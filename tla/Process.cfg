\* Two threads and three runs, in each of the three statistical modes.
CONSTANTS
    Threads = {t1, t2}
    NoThread = NoThread
    ScanRange = 2
    HandleLimit = 9
    NoHandle = NoHandle
    CallsMayFail = TRUE
    RunCount = 3
    IdSpace = 6
    Modes = {"snr", "sps", "sps_sym"}
SPECIFICATION Spec
INVARIANTS
    TypeOK
    RunsCounted
    NoLeak
    HandlesFit
SYMMETRY ThreadSymmetry
CHECK_DEADLOCK FALSE
