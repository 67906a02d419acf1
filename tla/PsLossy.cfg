\* Two symmetric NATs; loss, late timeouts, failing calls, a server that
\* forgets transactions, stops and is started again.
CONSTANTS
    c1 = c1  c2 = c2
    i1 = i1  i2 = i2
    Ips = {i1, i2}
    Ports = {1, 2, 3, 4, 5}
    ServerIp = ServerIp
    NoIp = NoIp
    Tids = {7}
    MayLose = TRUE
    MayDuplicate = FALSE
    Expiry = 1
    MaxTime = 2
    Clients = {c1, c2}
    HostOf <- Hosts
    TidOf <- OneTransaction
    Sym <- BothSym
    NatMode <- AllRestr
    ScanRange = 2
    StunAttempts = 2
    LenValues = {"full", "negative"}
    CallsMayFail = TRUE
    ServerMayStop = TRUE
    Prompt = FALSE
SPECIFICATION FairSpec
INVARIANTS
    TypeOK
    PeerIsPartner
    SocketsMatch
PROPERTY
    Termination
CHECK_DEADLOCK FALSE
