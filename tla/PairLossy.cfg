\* Two clients that connect and then talk; loss, late timeouts, failing calls,
\* senders whose address is not copied, a server that restarts.
CONSTANTS
    c1 = c1  c2 = c2
    i1 = i1  i2 = i2
    p1 = p1
    Ips = {i1, i2}
    Ports = {p1}
    ServerIp = ServerIp
    NoIp = NoIp
    Tids = {7}
    MayLose = TRUE
    MayDuplicate = FALSE
    Expiry = 1
    MaxTime = 0
    Clients = {c1, c2}
    AddrOf <- TwoAddrOf
    TidOf <- TwoTidOf
    StunAttempts = 3
    PeerAttempts = 3
    LenValues = {"full", "none", "negative"}
    CallsMayFail = TRUE
    Prompt = FALSE
    ServerMayStop = TRUE
SPECIFICATION FairDataSpec
INVARIANTS
    TypeOK
    TextAfterIntroduction
PROPERTIES
    AttemptsSpent
    Termination
CHECK_DEADLOCK FALSE
