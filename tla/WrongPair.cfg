\* Clients of different transactions, introduced to each other.
CONSTANTS
    c1 = c1  c2 = c2  c3 = c3
    i1 = i1  i2 = i2  i3 = i3
    p1 = p1
    Ips = {i1, i2, i3}
    Ports = {p1}
    ServerIp = ServerIp
    NoIp = NoIp
    Tids = {7, 8}
    MayLose = FALSE
    MayDuplicate = FALSE
    Expiry = 1
    MaxTime = 0
    Clients = {c1, c2, c3}
    AddrOf <- ThreeAddrOf
    TidOf <- ThreeTidOf
    StunAttempts = 1
    PeerAttempts = 1
    LenValues = {"full"}
    CallsMayFail = FALSE
    Prompt = TRUE
    ServerMayStop = FALSE
SPECIFICATION Spec
INVARIANT
    PairsShareTransaction
CHECK_DEADLOCK FALSE
