\* Three clients, two transactions; loss, late timeouts, a server that restarts.
CONSTANTS
    c1 = c1  c2 = c2  c3 = c3
    i1 = i1  i2 = i2  i3 = i3
    p1 = p1
    Ips = {i1, i2, i3}
    Ports = {p1}
    ServerIp = ServerIp
    NoIp = NoIp
    Tids = {7, 8}
    MayLose = TRUE
    MayDuplicate = FALSE
    Expiry = 1
    MaxTime = 0
    Clients = {c1, c2, c3}
    AddrOf <- ThreeAddrOf
    TidOf <- ThreeTidOf
    StunAttempts = 2
    PeerAttempts = 2
    LenValues = {"full", "negative"}
    CallsMayFail = TRUE
    Prompt = FALSE
    ServerMayStop = TRUE
SPECIFICATION Spec
INVARIANTS
    SameTransaction
    PeerIsAnother
    IntroducedFirst
CHECK_DEADLOCK FALSE
