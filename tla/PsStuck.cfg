\* Two hosts that complete a transaction in the order the server overlooks.
CONSTANTS
    Ips = {i1, i2}
    Ports = {p1, p2}
    ServerIp = ServerIp
    NoIp = NoIp
    Tids = {7}
    MayLose = TRUE
    MayDuplicate = FALSE
    Expiry = 1
    MaxTime = 1
    Sends = {"ps_bind_request"}
    MaxInFlight = 1
SPECIFICATION Spec
INVARIANT
    CompleteIsAnswered
