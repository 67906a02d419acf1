\* Two threads, two runs, a base counter about to wrap; the NAT takes no ports
\* (a draw below 0) or 7/8 of its rate, and the binds of one thread can fail.
CONSTANTS
    Threads = {t1, t2}
    NoThread = NoThread
    PortSpace = 140
    MinPort = 36
    Reserved = 12
    Starts = {128}
    Rate = 1
    Second = 20
    Randoms = {0, 7}
    Scale = 8
    TimeSpace = 65536
    IntLimit = 2048
    NearPorts = 10
    Roundtrip = 2
    ScanRange = 4
    Tick = 20
    MaxTime = 40
    MaxRuns = 2
    Slack = 1
    Drift = 1
    Reach = 2
    Unlucky = {t1}
SPECIFICATION FairSpec
INVARIANTS
    TypeOK
    PortsExclusive
    PredictedIsPunched
PROPERTIES
    AssignReturns
CHECK_DEADLOCK FALSE
