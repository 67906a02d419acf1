\* A full-cone host lets in requests of sockets it does not punch.
CONSTANTS
    c1 = c1  c2 = c2
    i1 = i1  i2 = i2
    Ips = {i1, i2}
    Ports = {1, 2, 3, 4, 5}
    ServerIp = ServerIp
    NoIp = NoIp
    Tids = {7}
    MayLose = FALSE
    MayDuplicate = FALSE
    Expiry = 1
    MaxTime = 0
    Clients = {c1, c2}
    HostOf <- Hosts
    TidOf <- OneTransaction
    Sym <- OneSym
    NatMode <- OneFull
    ScanRange = 2
    StunAttempts = 2
    LenValues = {"full"}
    CallsMayFail = FALSE
    ServerMayStop = FALSE
    Prompt = TRUE
SPECIFICATION Spec
INVARIANT
    SocketsMatch
CHECK_DEADLOCK FALSE
