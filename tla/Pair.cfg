\* Two clients that connect and then talk; a network that only reorders.
CONSTANTS
    c1 = c1  c2 = c2
    i1 = i1  i2 = i2
    p1 = p1
    Ips = {i1, i2}
    Ports = {p1}
    ServerIp = ServerIp
    NoIp = NoIp
    Tids = {7}
    MayLose = FALSE
    MayDuplicate = FALSE
    Expiry = 1
    MaxTime = 0
    Clients = {c1, c2}
    AddrOf <- TwoAddrOf
    TidOf <- TwoTidOf
    StunAttempts = 3
    PeerAttempts = 3
    LenValues = {"full"}
    CallsMayFail = FALSE
    Prompt = TRUE
    ServerMayStop = FALSE
SPECIFICATION FairDataSpec
INVARIANT
    Agreement
PROPERTY
    TalkRecovers
CHECK_DEADLOCK FALSE
