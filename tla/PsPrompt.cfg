\* A client behind a symmetric NAT and one that is not; only reordering, a server
\* that forgets transactions, stops and is started again.
CONSTANTS
    c1 = c1  c2 = c2
    i1 = i1  i2 = i2
    Ips = {i1, i2}
    Ports = {1, 2, 3, 4, 5}
    ServerIp = ServerIp
    NoIp = NoIp
    Tids = {7}
    MayLose = FALSE
    MayDuplicate = FALSE
    Expiry = 1
    MaxTime = 2
    Clients = {c1, c2}
    HostOf <- Hosts
    TidOf <- OneTransaction
    Sym <- OneSym
    NatMode <- AllRestr
    ScanRange = 2
    StunAttempts = 3
    LenValues = {"full"}
    CallsMayFail = FALSE
    ServerMayStop = TRUE
    Prompt = TRUE
SPECIFICATION Spec
INVARIANTS
    Agreement
CHECK_DEADLOCK FALSE
