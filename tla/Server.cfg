\* Registrations of both kinds: three hosts with two sockets each.
CONSTANTS
    i1 = i1  i2 = i2  i3 = i3
    Ips = {i1, i2, i3}
    p1 = p1  p2 = p2
    Ports = {p1, p2}
    ServerIp = ServerIp
    NoIp = NoIp
    Tids = {7}
    MayLose = TRUE
    MayDuplicate = TRUE
    Expiry = 1
    MaxTime = 2
    Sends = {"ps_bind_request", "bind_request", "heartbeat"}
    MaxInFlight = 1
SPECIFICATION Spec
SYMMETRY Symmetry
INVARIANTS
    ServerTypeOK
    PsIntroductionsSound
    TransactionsSound
PROPERTIES
    IntroducedTogether
    RegistrationKept
    Matchmaking
