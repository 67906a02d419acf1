------------------------- MODULE PsHolePunchProofs -------------------------
(***************************************************************************)
(* Proofs about hole punching with port prediction: types, whatever the    *)
(* network and the lengths of addresses do; that a connected client talks  *)
(* to a socket of its partner's host; that two partners are left with the  *)
(* same pair of sockets; and that, where nothing fails, one partner is     *)
(* connected if and only if the other is.                                  *)
(***************************************************************************)
EXTENDS PsHolePunch, RendezvousServerProofs

(* Types                                                                   *)

\* A client in the loop has an attempt left.
Budget == \A c \in Clients : pc[c] = "loop" => attempts_left[c] # 0

\* Connect has returned to a client that is connected.
ConnectedReturned ==
    \A c \in Clients : state[c] = "connected" => pc[c] = "returned"

TInv == TypeOK /\ Budget /\ ConnectedReturned

\* The ports of the sockets.
LEMMA PortFacts ==
    /\ MainPort \in Ports
    /\ HelperPort \in Ports
    /\ ScanPorts \subseteq Ports
    /\ NobodysPort \in Ports
BY PsConnectorAssumption, SMT DEF MainPort, HelperPort, ScanPorts, NobodysPort

\* The addresses and transactions of the clients, and what they send.
LEMMA ClientFacts ==
    ASSUME NEW c \in Clients, NEW k \in Ports, NEW a \in SockAddr
    PROVE  /\ At(c, k) \in Addr
           /\ HostOf[c] \in Ips
           /\ PsBindRequest(c, k, a) \in Datagram
           /\ PsBindRequest(c, k, a).type = "ps_bind_request"
           /\ ClientBindRequest(c, k, a) \in Datagram
           /\ ClientBindRequest(c, k, a).type = "client_bind_request"
           /\ ClientBindResponse(c, k, a) \in Datagram
           /\ ClientBindResponse(c, k, a).type = "client_bind_response"
  <1>1. At(c, k) \in Addr /\ At(c, k) \in SockAddr /\ HostOf[c] \in Ips
    BY PsConnectorAssumption, AddrFacts DEF At, Addr
  <1>2. TidOf[c] \in Nat BY PsConnectorAssumption, NetworkAssumption
  <1>3. \A type \in TidTypes :
           /\ WithTid(type, At(c, k), a, TidOf[c]) \in Datagram
           /\ WithTid(type, At(c, k), a, TidOf[c]).type = type
    BY <1>1, <1>2 DEF WithTid, Datagram
  <1>4. {"ps_bind_request", "client_bind_request", "client_bind_response"}
           \subseteq TidTypes
    BY DEF TidTypes
  <1> QED BY <1>1, <1>3, <1>4
          DEF PsBindRequest, ClientBindRequest, ClientBindResponse

\* What recvfrom leaves in peer_address is an address.
LEMMA PeerType ==
    ASSUME NEW old \in SockAddr, NEW src \in SockAddr
    PROVE  PeerAddress(old, src) \subseteq SockAddr
  <1>1. [ip |-> old.ip, port |-> src.port] \in SockAddr BY DEF SockAddr
  <1> QED BY <1>1 DEF PeerAddress

\* Every prediction for an introduction makes an address.
LEMMA PredictionType ==
    ASSUME NEW m \in Datagram, m.type = "ps_bind_reply",
           NEW port \in Predictions(m)
    PROVE  [ip |-> m.addr_one.ip, port |-> port] \in SockAddr
  <1>1. m.addr_one \in SockAddr BY DEF Datagram, TidTypes, EmptyTypes
  <1>2. m.addr_one.ip \in Ips \cup {ServerIp, NoIp}
        /\ m.addr_one.port \in Ports \cup {0, 3333, 3334}
    BY <1>1 DEF SockAddr
  <1>3. port \in Ports \cup {0, 3333, 3334}
    BY <1>2, PortFacts DEF Predictions
  <1> QED BY <1>2, <1>3 DEF SockAddr

\* The requests of a punch.
LEMMA PunchSends ==
    ASSUME NEW c \in Clients, NEW from \in SUBSET Ports, NEW a \in SockAddr,
           NEW out \in Punches(c, from, a)
    PROVE  \A r \in out : \E k \in from : r = ClientBindRequest(c, k, a)
BY DEF Punches

\* A step of client c keeps the types if its variables and what it sends do.
LEMMA ClientStep ==
    ASSUME TInv, UNCHANGED <<serverVars, introduced>>,
           Outbound \/ UNCHANGED holes,
           ConnectorTypeOK', Budget', ConnectedReturned',
           net' \ net \subseteq Datagram
    PROVE  TInv'
  <1>1. net' \subseteq Datagram BY DEF TInv, TypeOK, ServerTypeOK
  <1>2. ServerTypeOK' BY <1>1, OthersType DEF TInv, TypeOK
  <1>3. \A r \in Datagram : r.dst \in SockAddr BY DEF Datagram
  <1>4. NatTypeOK' BY <1>1, <1>3 DEF Outbound, NatTypeOK, TInv, TypeOK
  <1> QED BY <1>2, <1>4 DEF TInv, TypeOK

\* The variables of the sockets.
SocketTypeOK ==
    /\ sock \in [Clients -> Ports]
    /\ target \in [Clients -> SockAddr]
    /\ scan_target \in [Clients -> SockAddr]
    /\ peer \in [Clients -> SockAddr]

\* Where a client goes on, and with what.
LEMMA MoveTypes ==
    ASSUME TInv, NEW c \in Clients, SocketTypeOK',
           NEW where \in Pcs, NEW s \in States, NEW n \in Nat,
           pc' = [pc EXCEPT ![c] = where],
           state' = [state EXCEPT ![c] = s],
           attempts_left' = [attempts_left EXCEPT ![c] = n],
           result' \in [Clients -> Results \cup {"none"}],
           where = "loop" => n # 0,
           s = "connected" => where = "returned"
    PROVE  ConnectorTypeOK' /\ Budget' /\ ConnectedReturned'
  <1>1. ConnectorTypeOK'
    BY DEF SocketTypeOK, ConnectorTypeOK, TInv, TypeOK
  <1>2. /\ pc'[c] = where /\ state'[c] = s /\ attempts_left'[c] = n
        /\ \A d \in Clients \ {c} :
              /\ pc'[d] = pc[d]
              /\ state'[d] = state[d]
              /\ attempts_left'[d] = attempts_left[d]
    BY DEF TInv, TypeOK, ConnectorTypeOK
  <1> QED BY <1>1, <1>2 DEF TInv, Budget, ConnectedReturned

\* The same for a client that is not connected and stays so.
LEMMA StayTypes ==
    ASSUME TInv, NEW c \in Clients, SocketTypeOK',
           NEW where \in Pcs, where # "loop",
           pc' = [pc EXCEPT ![c] = where],
           state' = state, attempts_left' = attempts_left,
           result' \in [Clients -> Results \cup {"none"}],
           state[c] # "connected"
    PROVE  ConnectorTypeOK' /\ Budget' /\ ConnectedReturned'
  <1>1. ConnectorTypeOK'
    BY DEF SocketTypeOK, ConnectorTypeOK, TInv, TypeOK
  <1>2. pc'[c] = where /\ \A d \in Clients \ {c} : pc'[d] = pc[d]
    BY DEF TInv, TypeOK, ConnectorTypeOK
  <1>3. Budget' BY <1>2 DEF TInv, Budget
  <1>4. ConnectedReturned' BY <1>2 DEF TInv, ConnectedReturned
  <1> QED BY <1>1, <1>3, <1>4

\* Going on without a result, and returning with one.
LEMMA GotoTypes ==
    ASSUME TInv, NEW c \in Clients, NEW r \in Results
    PROVE  /\ result \in [Clients -> Results \cup {"none"}]
           /\ [result EXCEPT ![c] = r] \in [Clients -> Results \cup {"none"}]
           /\ state = [state EXCEPT ![c] = state[c]]
           /\ state[c] \in States
           /\ attempts_left = [attempts_left EXCEPT ![c] = attempts_left[c]]
           /\ attempts_left[c] \in Nat
BY DEF TInv, TypeOK, ConnectorTypeOK

LEMMA EndTypes ==
    ASSUME TInv, NEW c \in Clients, NEW s \in States, NEW n \in Nat,
           EndIteration(c, s, n), SocketTypeOK'
    PROVE  ConnectorTypeOK' /\ Budget' /\ ConnectedReturned'
  <1>1. Outcome(s) \in Results BY DEF Outcome, Results
  <1>2. {"loop", "returned"} \subseteq Pcs BY DEF Pcs
  <1>3. /\ state' = [state EXCEPT ![c] = s]
        /\ attempts_left' = [attempts_left EXCEPT ![c] = n]
    BY DEF EndIteration
  <1>4. CASE s = "connected" \/ n = 0
    <2>1. /\ pc' = [pc EXCEPT ![c] = "returned"]
          /\ result' = [result EXCEPT ![c] = Outcome(s)]
      BY <1>4 DEF EndIteration, Return
    <2>2. result' \in [Clients -> Results \cup {"none"}]
      BY <1>1, <2>1, GotoTypes
    <2> QED BY <1>2, <1>3, <2>1, <2>2, MoveTypes
  <1>5. CASE ~(s = "connected" \/ n = 0)
    <2>1. pc' = [pc EXCEPT ![c] = "loop"] /\ result' = result
      BY <1>5 DEF EndIteration, Goto
    <2>2. result' \in [Clients -> Results \cup {"none"}]
      BY <2>1 DEF TInv, TypeOK, ConnectorTypeOK
    <2> QED BY <1>2, <1>3, <1>5, <2>1, <2>2, MoveTypes
  <1> QED BY <1>4, <1>5

\* What the handlers of the loop do, by what becomes of the client: it goes
\* on or is connected at the end of the iteration, it punches, or it returns.
\* The answers and requests that it sends leave from its ports.
LEMMA HandleFacts ==
    ASSUME TInv, NEW c \in Clients, NEW m \in net, NEW k \in Ports,
           NEW t \in SockAddr, NEW old \in SockAddr, NEW n \in Nat \ {0},
           HandleResult(c, m, k, t, old, n)
    PROVE  /\ SocketTypeOK'
           /\ \/ /\ EndIteration(c, state[c], n) \/ EndIteration(c, state[c], n - 1)
                 /\ net' \subseteq net
                 /\ target' = [target EXCEPT ![c] = t]
              \/ /\ EndIteration(c, "connected", n)
                 /\ \E p \in PeerAddress(old, m.src) :
                       /\ target' = [target EXCEPT ![c] = p]
                       /\ \/ /\ m.type = "client_bind_request"
                             /\ net' \subseteq net \cup {ClientBindResponse(c, k, p)}
                          \/ /\ m.type = "client_bind_response"
                             /\ net' \subseteq net
              \/ /\ m.type = "ps_bind_reply"
                 /\ \E a \in SockAddr :
                       /\ a.ip = m.addr_one.ip
                       /\ \A r \in net' \ net :
                             \E j \in Ports : r = ClientBindRequest(c, j, a)
                 /\ attempts_left' = [attempts_left EXCEPT ![c] = n]
                 /\ state' = state
                 /\ Goto(c, "punch") \/ Return(c, "connection_failed")
  <1>1. m \in Datagram /\ m.src \in SockAddr
    BY DEF TInv, TypeOK, ServerTypeOK, Datagram
  <1>2. /\ \A a \in SockAddr :
              /\ [target EXCEPT ![c] = a] \in [Clients -> SockAddr]
              /\ [scan_target EXCEPT ![c] = a] \in [Clients -> SockAddr]
              /\ [peer EXCEPT ![c] = a] \in [Clients -> SockAddr]
        /\ [sock EXCEPT ![c] = k] \in [Clients -> Ports]
        /\ target \in [Clients -> SockAddr]
        /\ scan_target \in [Clients -> SockAddr]
    BY DEF TInv, TypeOK, ConnectorTypeOK
  <1>3. \A out : Exchange(m, out) => net' \subseteq net \cup out
    BY ExchangeFacts
  <1>4. sock' = [sock EXCEPT ![c] = k] BY DEF HandleResult, Handle, HandleError
  <1>5. CASE HandleError(c, m, k, t, old, n)
    <2>1. /\ peer' = [peer EXCEPT ![c] = old]
          /\ target' = [target EXCEPT ![c] = t]
          /\ scan_target' = scan_target
          /\ EndIteration(c, state[c], n - 1)
          /\ Exchange(m, {})
      BY <1>5 DEF HandleError, UseOne, ReceiveFails
    <2>2. SocketTypeOK' BY <1>2, <1>4, <2>1 DEF SocketTypeOK
    <2> QED BY <1>3, <2>1, <2>2
  <1>6. CASE Handle(c, m, k, t, old, n)
    <2>1. PICK p \in PeerAddress(old, m.src) :
             /\ peer' = [peer EXCEPT ![c] = p]
             /\ \/ OnPsBindReply(c, m, p, k, t, n)
                \/ OnClientBindRequest(c, m, p, k, t, n)
                \/ OnClientBindResponse(c, m, p, t, n)
                \/ OnAck(c, m, t, n)
                \/ OnOther(c, m, t, n)
      BY <1>6 DEF Handle
    <2>2. p \in SockAddr BY <1>1, PeerType
    <2>3. peer' \in [Clients -> SockAddr] BY <1>2, <2>1, <2>2
    <2>4. ASSUME NEW i \in {n, n - 1}, Idle(c, m, t, i), scan_target' = scan_target
          PROVE  /\ SocketTypeOK'
                 /\ EndIteration(c, state[c], i)
                 /\ net' \subseteq net
                 /\ target' = [target EXCEPT ![c] = t]
      <3>1. /\ Exchange(m, {})
            /\ target' = [target EXCEPT ![c] = t]
            /\ EndIteration(c, state[c], i)
        BY <2>4 DEF Idle
      <3> QED BY <1>2, <1>3, <1>4, <2>3, <2>4, <3>1 DEF SocketTypeOK
    <2>5. CASE /\ Idle(c, m, t, n) \/ Idle(c, m, t, n - 1)
               /\ scan_target' = scan_target
      BY <2>4, <2>5
    <2>6. CASE OnClientBindRequest(c, m, p, k, t, n) /\ ~WrongTransaction(c, m)
      <3>1. /\ target' = [target EXCEPT ![c] = p]
            /\ scan_target' = scan_target
            /\ EndIteration(c, "connected", n)
            /\ m.type = "client_bind_request"
            /\ net' \subseteq net \cup {ClientBindResponse(c, k, p)}
        BY <1>3, <2>6 DEF OnClientBindRequest, Sent
      <3>2. SocketTypeOK' BY <1>2, <1>4, <2>2, <2>3, <3>1 DEF SocketTypeOK
      <3> QED BY <3>1, <3>2
    <2>7. CASE OnClientBindResponse(c, m, p, t, n) /\ p = t
      <3>1. CASE Idle(c, m, t, n) /\ scan_target' = scan_target
        BY <2>5, <3>1
      <3>2. CASE ~(Idle(c, m, t, n) /\ scan_target' = scan_target)
        <4>1. /\ target' = [target EXCEPT ![c] = p]
              /\ scan_target' = scan_target
              /\ EndIteration(c, "connected", n)
              /\ m.type = "client_bind_response"
              /\ net' \subseteq net
          BY <1>3, <2>7, <3>2 DEF OnClientBindResponse
        <4>2. SocketTypeOK' BY <1>2, <1>4, <2>2, <2>3, <4>1 DEF SocketTypeOK
        <4> QED BY <4>1, <4>2
      <3> QED BY <3>1, <3>2
    <2>8. CASE OnPsBindReply(c, m, p, k, t, n) /\ p.ip = ServerIp
      <3>1. PICK port \in Predictions(m) :
               LET a == [ip |-> m.addr_one.ip, port |-> port] IN
               \/ a.port # 0 /\ Punch(c, m, k, t, n, a)
               \/ PunchFails(c, m, t, a)
        BY <2>8 DEF OnPsBindReply
      <3> DEFINE a == [ip |-> m.addr_one.ip, port |-> port]
      <3>2. m.type = "ps_bind_reply" BY <2>8 DEF OnPsBindReply
      <3>3. a \in SockAddr /\ a.ip = m.addr_one.ip
        BY <1>1, <3>2, PredictionType
      <3> HIDE DEF a
      <3>4. /\ attempts_left' = [attempts_left EXCEPT ![c] = n]
            /\ state' = state
        BY <2>8 DEF OnPsBindReply, Idle
      <3>5. CASE Punch(c, m, k, t, n, a)
        <4>1. \E from \in SUBSET Ports :
                 \E out \in Punches(c, from, a) : Exchange(m, out)
          BY <3>5, PortFacts DEF Punch
        <4>2. \A r \in net' \ net : \E j \in Ports : r = ClientBindRequest(c, j, a)
          BY <1>3, <3>3, <4>1, PunchSends
        <4>3. /\ target' \in [Clients -> SockAddr]
              /\ scan_target' \in [Clients -> SockAddr]
          BY <1>2, <3>3, <3>5 DEF Punch
        <4>4. SocketTypeOK' BY <1>2, <1>4, <2>3, <4>3 DEF SocketTypeOK
        <4> QED BY <3>2, <3>3, <3>4, <3>5, <4>2, <4>4 DEF Punch
      <3>6. CASE PunchFails(c, m, t, a)
        <4>1. \/ Exchange(m, {})
              \/ \E out \in Punches(c, ScanPorts \ {ScanRange + 2}, a) :
                    Exchange(m, out)
          BY <3>6 DEF PunchFails
        <4>2. ScanPorts \ {ScanRange + 2} \in SUBSET Ports BY PortFacts
        <4>3. \A r \in net' \ net : \E j \in Ports : r = ClientBindRequest(c, j, a)
          BY <1>3, <3>3, <4>1, <4>2, PunchSends
        <4>4. SocketTypeOK'
          BY <1>2, <1>4, <2>3, <3>6 DEF PunchFails, SocketTypeOK
        <4> QED BY <3>2, <3>3, <3>4, <3>6, <4>3, <4>4 DEF PunchFails
      <3> QED BY <3>1, <3>5, <3>6 DEF a
    <2> QED BY <2>1, <2>5, <2>6, <2>7, <2>8
            DEF OnPsBindReply, OnClientBindRequest, OnClientBindResponse,
                OnAck, OnOther, UseOne
  <1> QED BY <1>5, <1>6 DEF HandleResult

LEMMA HandleTypes ==
    ASSUME TInv, NEW c \in Clients, NEW m \in net, NEW k \in Ports,
           NEW t \in SockAddr, NEW old \in SockAddr, NEW n \in Nat \ {0},
           HandleResult(c, m, k, t, old, n), state[c] # "connected",
           UNCHANGED <<serverVars, introduced>>, Outbound
    PROVE  TInv'
  <1>1. /\ n \in Nat /\ n - 1 \in Nat
        /\ state[c] \in States /\ "connected" \in States
    BY DEF TInv, TypeOK, ConnectorTypeOK, States
  <1>2. SocketTypeOK' BY HandleFacts
  <1>3. CASE /\ EndIteration(c, state[c], n) \/ EndIteration(c, state[c], n - 1)
             /\ net' \subseteq net
    BY <1>1, <1>2, <1>3, EndTypes, ClientStep
  <1>4. CASE /\ EndIteration(c, "connected", n)
             /\ \E p \in PeerAddress(old, m.src) :
                   net' \subseteq net \cup {ClientBindResponse(c, k, p)}
    <2>1. m.src \in SockAddr BY DEF TInv, TypeOK, ServerTypeOK, Datagram
    <2>2. \A p \in PeerAddress(old, m.src) : ClientBindResponse(c, k, p) \in Datagram
      BY <2>1, PeerType, ClientFacts
    <2>3. net' \ net \subseteq Datagram BY <1>4, <2>2
    <2> QED BY <1>1, <1>2, <1>4, <2>3, EndTypes, ClientStep
  <1>5. CASE /\ \E a \in SockAddr : \A r \in net' \ net :
                   \E j \in Ports : r = ClientBindRequest(c, j, a)
             /\ attempts_left' = [attempts_left EXCEPT ![c] = n]
             /\ state' = state
             /\ Goto(c, "punch") \/ Return(c, "connection_failed")
    <2>1. net' \ net \subseteq Datagram BY <1>5, ClientFacts
    <2>2. {"punch", "returned"} \subseteq Pcs /\ "connection_failed" \in Results
      BY DEF Pcs, Results
    <2>3. result' \in [Clients -> Results \cup {"none"}]
      BY <1>5, <2>2, GotoTypes DEF Goto, Return
    <2>4. state' = [state EXCEPT ![c] = state[c]] BY <1>5, <2>2, GotoTypes
    <2>5. PICK where \in {"punch", "returned"} : pc' = [pc EXCEPT ![c] = where]
      BY <1>5 DEF Goto, Return
    <2>6. ConnectorTypeOK' /\ Budget' /\ ConnectedReturned'
      BY <1>1, <1>2, <1>5, <2>2, <2>3, <2>4, <2>5, MoveTypes
    <2> QED BY <2>1, <2>6, ClientStep
  <1>6. \/ /\ EndIteration(c, state[c], n) \/ EndIteration(c, state[c], n - 1)
           /\ net' \subseteq net
        \/ /\ EndIteration(c, "connected", n)
           /\ \E p \in PeerAddress(old, m.src) :
                 net' \subseteq net \cup {ClientBindResponse(c, k, p)}
        \/ /\ \E a \in SockAddr : \A r \in net' \ net :
                 \E j \in Ports : r = ClientBindRequest(c, j, a)
           /\ attempts_left' = [attempts_left EXCEPT ![c] = n]
           /\ state' = state
           /\ Goto(c, "punch") \/ Return(c, "connection_failed")
    BY HandleFacts
  <1> QED BY <1>3, <1>4, <1>5, <1>6

\* The registrations.
LEMMA RequestTypes ==
    ASSUME TInv, NEW c \in Clients, ClientRequests(c)
    PROVE  TInv'
  <1>1. /\ ServerSock(1) \in SockAddr /\ ServerSock(2) \in SockAddr
        /\ sock[c] \in Ports /\ HelperPort \in Ports
    BY AddrFacts, PortFacts DEF TInv, TypeOK, ConnectorTypeOK
  <1>2. net' \ net \subseteq Datagram
    <2>1. PICK k \in Ports, a \in SockAddr, ok \in SendResults :
             Send(Sent(ok, PsBindRequest(c, k, a)))
      BY <1>1 DEF ClientRequests, FirstRequest, SecondRequest
    <2> QED BY <2>1, ClientFacts DEF Send, Sent
  <1>3. /\ state' = state /\ attempts_left' = attempts_left
        /\ UNCHANGED <<sock, scan_target, peer>>
        /\ target' \in [Clients -> SockAddr]
        /\ state[c] # "connected"
    BY <1>1 DEF ClientRequests, FirstRequest, SecondRequest, TInv, TypeOK,
                ConnectorTypeOK, ConnectedReturned
  <1>4. SocketTypeOK' BY <1>3 DEF SocketTypeOK, TInv, TypeOK, ConnectorTypeOK
  <1>5. PICK where \in {"await_ack", "await_ack2", "returned"} :
           /\ pc' = [pc EXCEPT ![c] = where]
           /\ result' = result \/ result' = [result EXCEPT ![c] = "connection_error"]
    BY DEF ClientRequests, FirstRequest, SecondRequest, Goto, Return
  <1>6. /\ where \in Pcs /\ where # "loop" /\ "connection_error" \in Results
    BY DEF Pcs, Results
  <1>7. result' \in [Clients -> Results \cup {"none"}]
    BY <1>5, <1>6, GotoTypes
  <1>8. ConnectorTypeOK' /\ Budget' /\ ConnectedReturned'
    BY <1>3, <1>4, <1>5, <1>6, <1>7, StayTypes
  <1> QED BY <1>2, <1>8, ClientStep DEF ClientRequests

\* The acks.
LEMMA AckedTypes ==
    ASSUME TInv, NEW c \in Clients, NEW m \in net, Acknowledged(c, m),
           UNCHANGED <<serverVars, introduced>>, Outbound
    PROVE  TInv'
  <1>1. m.src \in SockAddr BY DEF TInv, TypeOK, ServerTypeOK, Datagram
  <1>2. \A p \in PeerAddress(peer[c], m.src) :
           [peer EXCEPT ![c] = p] \in [Clients -> SockAddr]
    <2>1. peer[c] \in SockAddr BY DEF TInv, TypeOK, ConnectorTypeOK
    <2> QED BY <1>1, <2>1, PeerType DEF TInv, TypeOK, ConnectorTypeOK
  <1>3. SocketTypeOK'
    BY <1>2 DEF Acknowledged, SocketTypeOK, TInv, TypeOK, ConnectorTypeOK
  <1>4. net' \ net = {} BY ExchangeFacts DEF Acknowledged
  <1>5. /\ result' = result
        /\ \/ /\ pc' = [pc EXCEPT ![c] = "second"]
              /\ pc[c] = "await_ack"
              /\ state' = state /\ attempts_left' = attempts_left
           \/ /\ pc' = [pc EXCEPT ![c] = "loop"]
              /\ state' = [state EXCEPT ![c] = "waiting_for_stun_reply"]
              /\ attempts_left' = [attempts_left EXCEPT ![c] = StunAttempts]
    BY DEF Acknowledged, Goto
  <1>6. /\ {"second", "loop"} \subseteq Pcs
        /\ "waiting_for_stun_reply" \in States
        /\ StunAttempts \in Nat /\ StunAttempts # 0
        /\ result' \in [Clients -> Results \cup {"none"}]
    BY <1>5, PsConnectorAssumption
       DEF Pcs, States, TInv, TypeOK, ConnectorTypeOK
  <1>7. CASE pc' = [pc EXCEPT ![c] = "loop"]
             /\ state' = [state EXCEPT ![c] = "waiting_for_stun_reply"]
             /\ attempts_left' = [attempts_left EXCEPT ![c] = StunAttempts]
    <2>1. ConnectorTypeOK' /\ Budget' /\ ConnectedReturned'
      BY <1>3, <1>6, <1>7, MoveTypes
    <2> QED BY <1>4, <2>1, ClientStep
  <1>8. CASE /\ pc' = [pc EXCEPT ![c] = "second"] /\ pc[c] = "await_ack"
             /\ state' = state /\ attempts_left' = attempts_left
    <2>1. state[c] # "connected" BY <1>8 DEF TInv, ConnectedReturned
    <2>2. "second" \in Pcs BY DEF Pcs
    <2>3. /\ pc' = [pc EXCEPT ![c] = "second"]
          /\ state' = state /\ attempts_left' = attempts_left
      BY <1>8
    <2>4. ConnectorTypeOK' /\ Budget' /\ ConnectedReturned'
      BY <1>3, <1>6, <2>1, <2>2, <2>3, StayTypes
    <2> QED BY <1>4, <2>4, ClientStep
  <1> QED BY <1>5, <1>7, <1>8

\* The ends of waiting in vain.
LEMMA TimeoutTypes ==
    ASSUME TInv, NEW c \in Clients, NEW m,
           \/ /\ AckError(c, m) /\ Outbound
           \/ /\ Timeout(c) /\ UNCHANGED holes,
           UNCHANGED <<serverVars, introduced>>
    PROVE  TInv'
  <1>1. /\ UNCHANGED <<sock, target, scan_target, peer>>
        /\ net' \subseteq net
    BY ExchangeFacts DEF AckError, NoAck, ReceiveFails, Timeout, AckTimeout,
                         LoopTimeout, PunchTimeout
  <1>2. SocketTypeOK' BY <1>1 DEF SocketTypeOK, TInv, TypeOK, ConnectorTypeOK
  <1>3. CASE LoopTimeout(c)
    <2>1. /\ attempts_left[c] - 1 \in Nat /\ state[c] \in States
          /\ EndIteration(c, state[c], attempts_left[c] - 1)
      BY <1>3 DEF LoopTimeout, UseOne, TInv, TypeOK, ConnectorTypeOK, Budget
    <2> QED BY <1>1, <1>2, <2>1, EndTypes, ClientStep
  <1>4. CASE ~LoopTimeout(c)
    <2>1. /\ state' = state /\ attempts_left' = attempts_left
          /\ \/ Return(c, "connection_error") \/ Return(c, "connection_failed")
      BY <1>4 DEF AckError, NoAck, Timeout, AckTimeout, PunchTimeout
    <2>2. {"connection_error", "connection_failed"} \subseteq Results
          /\ "returned" \in Pcs
      BY DEF Results, Pcs
    <2>3. /\ state' = [state EXCEPT ![c] = state[c]]
          /\ attempts_left' = [attempts_left EXCEPT ![c] = attempts_left[c]]
          /\ state[c] \in States /\ attempts_left[c] \in Nat
          /\ result' \in [Clients -> Results \cup {"none"}]
      BY <2>1, <2>2, GotoTypes DEF Return
    <2>4. pc' = [pc EXCEPT ![c] = "returned"] BY <2>1 DEF Return
    <2>5. ConnectorTypeOK' /\ Budget' /\ ConnectedReturned'
      BY <1>2, <2>2, <2>3, <2>4, MoveTypes
    <2> QED BY <1>1, <2>5, ClientStep
  <1> QED BY <1>3, <1>4

\* An iteration that reads a datagram, in the loop or after the punch.
LEMMA Iterates ==
    ASSUME TInv, NEW c \in Clients, NEW m \in net,
           Loop(c, m) \/ PunchSucceeds(c, m), m.dst.port \in Listening(c)
    PROVE  /\ state[c] # "connected"
           /\ \E k \in Ports, t \in SockAddr, old \in SockAddr, n \in Nat \ {0} :
                 HandleResult(c, m, k, t, old, n) /\ k = m.dst.port
  <1>1. /\ sock[c] \in Ports
        /\ target[c] \in SockAddr
        /\ scan_target[c] \in SockAddr
        /\ peer[c] \in SockAddr
        /\ NoAddr \in SockAddr
        /\ attempts_left[c] \in Nat
    BY AddrFacts DEF TInv, TypeOK, ConnectorTypeOK
  <1>2. state[c] # "connected"
    BY DEF TInv, ConnectedReturned, Loop, PunchSucceeds
  <1>3. CASE Loop(c, m)
    <2>1. attempts_left[c] # 0 BY <1>3 DEF TInv, Budget, Loop
    <2>2. m.dst.port = sock[c] BY <1>3 DEF Loop, Listening
    <2> QED BY <1>1, <1>2, <1>3, <2>1, <2>2 DEF Loop
  <1>4. CASE PunchSucceeds(c, m)
    <2>1. 1 \in Nat \ {0} OBVIOUS
    <2>2. CASE Sym[c]
      <3>1. m.dst.port \in Ports
        BY <1>4, <2>2, PortFacts DEF PunchSucceeds, Listening
      <3> QED BY <1>1, <1>2, <1>4, <2>1, <2>2, <3>1 DEF PunchSucceeds
    <2>3. CASE ~Sym[c]
      <3>1. m.dst.port = sock[c]
        BY <1>4, <2>3 DEF PunchSucceeds, Listening
      <3> QED BY <1>1, <1>2, <1>4, <2>1, <2>3, <3>1 DEF PunchSucceeds
    <2> QED BY <2>2, <2>3
  <1> QED BY <1>3, <1>4

LEMMA HearTypes ==
    ASSUME TInv, NEW c \in Clients, ClientHears(c)
    PROVE  TInv'
  <1>1. PICK m \in net : Hear(c, m) BY DEF ClientHears
  <1>2. UNCHANGED <<serverVars, introduced>> /\ Outbound BY DEF ClientHears
  <1>3. CASE Acknowledged(c, m) BY <1>2, <1>3, AckedTypes
  <1>4. CASE AckError(c, m) BY <1>2, <1>4, TimeoutTypes
  <1>5. CASE Loop(c, m) \/ PunchSucceeds(c, m)
    <2>1. m.dst.port \in Listening(c) BY <1>1 DEF Hear
    <2> QED BY <1>2, <1>5, <2>1, Iterates, HandleTypes
  <1> QED BY <1>1, <1>3, <1>4, <1>5 DEF Hear

\* A server that stops, starts or grows older tells nobody; at most, it
\* forgets the transactions.
ServerAlone == ServerRestarts \/ TimePasses

LEMMA ServerAloneFacts ==
    ASSUME ServerAlone
    PROVE  /\ UNCHANGED <<net, holes, introduced, connVars>>
           /\ \/ ps_transaction_client_map' = ps_transaction_client_map
              \/ DOMAIN ps_transaction_client_map' = {}
BY DEF ServerAlone, ServerRestarts, TimePasses, Stop, Start, Tick, EmptyMap

\* The steps of the server and of the network.
LEMMA OtherTypes ==
    ASSUME TInv,
           ServerReceives \/ Loses \/ Filters \/ ServerAlone \/ UNCHANGED vars
    PROVE  TInv'
  <1>1. connVars' = connVars /\ holes' = holes
    BY ServerAloneFacts DEF ServerReceives, Loses, Filters, Filter, vars
  <1>2. ConnectorTypeOK' /\ Budget' /\ ConnectedReturned' /\ NatTypeOK'
    BY <1>1 DEF connVars, TInv, TypeOK, ConnectorTypeOK, NatTypeOK, Budget,
                ConnectedReturned
  <1>3. introduced' \subseteq Clients
    BY ServerAloneFacts DEF ServerReceives, Loses, Filters, vars, TInv, TypeOK
  <1>4. ServerTypeOK'
    <2>1. CASE ServerReceives BY <2>1, ReceiveType DEF ServerReceives, TInv, TypeOK
    <2>2. CASE Loses \/ Filters \/ UNCHANGED vars
      <3>1. net' \subseteq Datagram /\ UNCHANGED serverVars
        BY <2>2 DEF Loses, Lose, Filters, Filter, vars, TInv, TypeOK, ServerTypeOK
      <3> QED BY <3>1, OthersType DEF TInv, TypeOK
    <2>3. CASE ServerAlone
      BY <2>3, RestartType
         DEF ServerAlone, ServerRestarts, TimePasses, TInv, TypeOK
    <2> QED BY <2>1, <2>2, <2>3
  <1> QED BY <1>2, <1>3, <1>4 DEF TInv, TypeOK

LEMMA TypesStep ==
    ASSUME TInv, [Next]_vars
    PROVE  TInv'
  <1>1. CASE ServerReceives \/ Loses \/ Filters \/ ServerAlone \/ UNCHANGED vars
    BY <1>1, OtherTypes
  <1>2. ASSUME NEW c \in Clients, ClientRequests(c) PROVE TInv'
    BY <1>2, RequestTypes
  <1>3. ASSUME NEW c \in Clients, ClientHears(c) PROVE TInv'
    BY <1>3, HearTypes
  <1>4. ASSUME NEW c \in Clients, ClientTimesOut(c) PROVE TInv'
    BY <1>4, TimeoutTypes DEF ClientTimesOut
  <1> QED BY <1>1, <1>2, <1>3, <1>4 DEF Next, ServerAlone

LEMMA TypesInit ==
    ASSUME Init
    PROVE  TInv
  <1>1. ServerTypeOK BY DEF Init, ServerInit, EmptyMap, ServerTypeOK
  <1>2. ConnectorTypeOK
    BY AddrFacts, PortFacts
       DEF Init, ConnectorInit, ConnectorTypeOK, States, Pcs
  <1>3. Budget /\ ConnectedReturned
    BY DEF Init, ConnectorInit, Budget, ConnectedReturned
  <1>4. NatTypeOK BY DEF Init, NatInit, NatTypeOK
  <1> QED BY <1>1, <1>2, <1>3, <1>4 DEF Init, TInv, TypeOK

LEMMA TypesInvariant == Spec => []TInv
  <1>1. Init => TInv BY TypesInit
  <1>2. TInv /\ [Next]_vars => TInv' BY TypesStep
  <1> QED BY <1>1, <1>2, PTL DEF Spec

\* For any clients, NATs, ranges and lengths of addresses: the sockets, the
\* holes in the NATs, the server and the datagrams keep their types, and no
\* loop takes attempts_left below zero (p2p_ps_connector.h:177-274).
THEOREM TypeCorrect == Spec => []TypeOK
  <1>1. TInv => TypeOK BY DEF TInv
  <1> QED BY <1>1, TypesInvariant, PTL

----------------------------------------------------------------------------
(* Partners                                                                *)

\* The host of a client of transaction t, and the hosts of two that the
\* server has introduced to each other.
OfTransaction(ip, t) == \E c \in Clients : HostOf[c] = ip /\ TidOf[c] = t
Partners(ip, other) ==
    \E c, d \in Clients :
        /\ c # d /\ TidOf[c] = TidOf[d]
        /\ HostOf[c] = ip /\ HostOf[d] = other
        /\ c \in introduced /\ d \in introduced

\* What the server knows of a transaction are hosts of two of its clients.
Party(tr, t) ==
    /\ OfTransaction(tr.cl1_sk1.ip, t)
    /\ tr.cl2_sk1.ip # NoIp =>
          OfTransaction(tr.cl2_sk1.ip, t) /\ tr.cl2_sk1.ip # tr.cl1_sk1.ip
    /\ tr.cl2_sk2.ip # NoIp => tr.cl2_sk1.ip # NoIp

RequestsNamed ==
    \A m \in net : m.type = "ps_bind_request" => OfTransaction(m.src.ip, m.tid)

PartiesShare ==
    \A t \in DOMAIN ps_transaction_client_map :
        Party(ps_transaction_client_map[t], t)

\* An introduction names a partner's host, and only partners talk.
RepliesPair ==
    \A m \in net : m.type = "ps_bind_reply" => Partners(m.dst.ip, m.addr_one.ip)

PeersPair ==
    \A m \in net : m.type \in {"client_bind_request", "client_bind_response"} =>
        Partners(m.src.ip, m.dst.ip)

ConnectedPair ==
    \A c \in Clients : state[c] = "connected" =>
        Partners(HostOf[c], target[c].ip)

PInv ==
    /\ TInv
    /\ RequestsNamed
    /\ PartiesShare
    /\ RepliesPair
    /\ PeersPair
    /\ ConnectedPair

\* Partners stay partners, in either order.
LEMMA PartnersFacts ==
    ASSUME introduced \subseteq introduced', NEW i, NEW j, Partners(i, j)
    PROVE  Partners(i, j)' /\ Partners(j, i)
BY DEF Partners

\* What keeps the invariant beside the state of a client and the server.
LEMMA PairsKept ==
    ASSUME PInv, TInv', introduced \subseteq introduced', PartiesShare',
           ConnectedPair',
           \A r \in net' \ net :
              /\ r.type = "ps_bind_request" => OfTransaction(r.src.ip, r.tid)
              /\ r.type = "ps_bind_reply" => Partners(r.dst.ip, r.addr_one.ip)'
              /\ r.type \in {"client_bind_request", "client_bind_response"} =>
                    Partners(r.src.ip, r.dst.ip)'
    PROVE  PInv'
  <1>1. RequestsNamed' BY DEF PInv, RequestsNamed, OfTransaction
  <1>2. RepliesPair' BY PartnersFacts DEF PInv, RepliesPair
  <1>3. PeersPair' BY PartnersFacts DEF PInv, PeersPair
  <1> QED BY <1>1, <1>2, <1>3 DEF PInv

----------------------------------------------------------------------------
(* The server's side                                                       *)

LEMMA NewParty ==
    ASSUME NEW a, NEW t, OfTransaction(a.ip, t)
    PROVE  Party(NewTransaction(a), t)
BY AddrFacts DEF Party, NewTransaction

LEMMA AgainParty ==
    ASSUME NEW t, NEW tr \in PsTransaction, NEW a, Party(tr, t)
    PROVE  Party([tr EXCEPT !.cl1_ts2 = now, !.cl1_sk2 = a], t)
BY DEF Party, PsTransaction

LEMMA OtherParty ==
    ASSUME NEW t, NEW tr \in PsTransaction, NEW a, Party(tr, t),
           OfTransaction(a.ip, t), tr.cl1_sk1.ip # a.ip
    PROVE  Party(WithClient2(tr, a), t)
  <1>1. a.ip # NoIp
    BY PsConnectorAssumption, NetworkAssumption DEF OfTransaction
  <1>2. CASE tr.cl2_sk1.ip = NoIp
    <2>1. WithClient2(tr, a) = [tr EXCEPT !.cl2_ts1 = now, !.cl2_sk1 = a]
      BY <1>1, <1>2 DEF WithClient2
    <2>2. /\ WithClient2(tr, a).cl2_sk1 = a
          /\ WithClient2(tr, a).cl1_sk1 = tr.cl1_sk1
      BY <2>1 DEF PsTransaction
    <2> QED BY <1>1, <2>2 DEF Party
  <1>3. CASE tr.cl2_sk1.ip # NoIp /\ tr.cl2_sk1.ip = a.ip
    <2>1. WithClient2(tr, a) = [tr EXCEPT !.cl2_ts2 = now, !.cl2_sk2 = a]
      BY <1>3 DEF WithClient2
    <2>2. /\ WithClient2(tr, a).cl2_sk1 = tr.cl2_sk1
          /\ WithClient2(tr, a).cl1_sk1 = tr.cl1_sk1
      BY <2>1 DEF PsTransaction
    <2> QED BY <1>3, <2>2 DEF Party
  <1>4. CASE tr.cl2_sk1.ip # NoIp /\ tr.cl2_sk1.ip # a.ip
    BY <1>4 DEF WithClient2
  <1> QED BY <1>2, <1>3, <1>4

\* A registration that comes from the host of a client of its transaction
\* leaves hosts of clients in the map, and only a complete party is told.
LEMMA RegistrationParty ==
    ASSUME PInv, NEW m \in net, OnPsBindRequest(m)
    PROVE  /\ PartiesShare'
           /\ \/ Exchange(m, {PsAck(m)})
              \/ \E tr : /\ Party(tr, m.tid) /\ Ready(tr)
                         /\ Exchange(m, {PsAck(m)} \cup PsIntroduce(tr))
  <1> DEFINE map == ps_transaction_client_map
  <1>1. OfTransaction(m.src.ip, m.tid)
    BY DEF PInv, RequestsNamed, OnPsBindRequest
  <1>2. \A t \in DOMAIN map : map[t] \in PsTransaction /\ Party(map[t], t)
    BY DEF PInv, TInv, TypeOK, ServerTypeOK, PartiesShare
  <1>3. ASSUME NEW tr, Party(tr, m.tid), PsStore(m.tid, tr) PROVE PartiesShare'
    <2>1. ASSUME NEW t \in DOMAIN ps_transaction_client_map'
          PROVE  Party(ps_transaction_client_map'[t], t)
      <3>1. ps_transaction_client_map' =
               [s \in DOMAIN map \cup {m.tid} |->
                  IF s = m.tid THEN tr ELSE map[s]]
        BY <1>3 DEF PsStore, Put
      <3>2. CASE t = m.tid BY <1>3, <3>1, <3>2
      <3>3. CASE t # m.tid BY <1>2, <2>1, <3>1, <3>3
      <3> QED BY <3>2, <3>3
    <2> QED BY <2>1 DEF PartiesShare, Party, OfTransaction
  <1>4. CASE PsFirstClient(m)
    BY <1>1, <1>3, <1>4, NewParty DEF PsFirstClient
  <1>5. CASE PsFirstClientAgain(m)
    BY <1>2, <1>3, <1>5, AgainParty DEF PsFirstClientAgain, PsKnown
  <1>6. CASE PsOtherClient(m)
    <2> DEFINE new == WithClient2(map[m.tid], m.src)
    <2>1. Party(new, m.tid)
      BY <1>1, <1>2, <1>6, OtherParty DEF PsOtherClient, PsKnown
    <2> HIDE DEF new
    <2>2. CASE PsStore(m.tid, new) /\ Exchange(m, {PsAck(m)})
      BY <1>3, <2>1, <2>2
    <2>3. CASE /\ Ready(new) /\ PsErase(m.tid)
               /\ Exchange(m, {PsAck(m)} \cup PsIntroduce(new))
      <3>1. ps_transaction_client_map' =
               [s \in DOMAIN map \ {m.tid} |-> map[s]]
        BY <2>3 DEF PsErase, Without, Restrict
      <3>2. /\ DOMAIN ps_transaction_client_map' \subseteq DOMAIN map
            /\ \A t \in DOMAIN ps_transaction_client_map' :
                  ps_transaction_client_map'[t] = map[t]
        BY <3>1
      <3>3. PartiesShare'
        BY <1>2, <3>2 DEF PartiesShare, Party, OfTransaction
      <3> QED BY <2>1, <2>3, <3>3
    <2> QED BY <1>6, <2>2, <2>3 DEF PsOtherClient, new
  <1> QED BY <1>4, <1>5, <1>6 DEF OnPsBindRequest

\* The two replies to a complete party introduce its clients.
LEMMA PartyIntroduced ==
    ASSUME PInv, ServerReceives, NEW t, NEW tr, Party(tr, t), Ready(tr),
           PsIntroduce(tr) \subseteq net'
    PROVE  \A r \in PsIntroduce(tr) : Partners(r.dst.ip, r.addr_one.ip)'
  <1> DEFINE r1 == PsBindReply(ServerSock(1), tr.cl1_sk1,
                       tr.cl2_sk1, tr.cl2_sk2, tr.cl2_ts1, tr.cl2_ts2)
             r2 == PsBindReply(ServerSock(1), tr.cl2_sk1,
                       tr.cl1_sk1, tr.cl1_sk2, tr.cl1_ts1, tr.cl1_ts2)
  <1>1. PsIntroduce(tr) = {r1, r2} BY DEF PsIntroduce
  <1>2. /\ r1.type = "ps_bind_reply" /\ r2.type = "ps_bind_reply"
        /\ r1.dst = tr.cl1_sk1 /\ r1.addr_one = tr.cl2_sk1
        /\ r2.dst = tr.cl2_sk1 /\ r2.addr_one = tr.cl1_sk1
    BY DEF PsBindReply
  <1> HIDE DEF r1, r2
  <1>3. PICK c \in Clients : HostOf[c] = tr.cl1_sk1.ip /\ TidOf[c] = t
    BY DEF Party, OfTransaction
  <1>4. PICK d \in Clients : HostOf[d] = tr.cl2_sk1.ip /\ TidOf[d] = t
    BY DEF Party, OfTransaction, Ready
  <1>5. c # d BY <1>3, <1>4 DEF Party, Ready
  <1>6. ASSUME NEW e \in Clients, NEW r \in net', r.type = "ps_bind_reply",
               r.dst.ip = HostOf[e]
        PROVE  e \in introduced'
    <2>1. CASE r \in net
      <3>1. PICK f \in Clients : HostOf[f] = r.dst.ip /\ f \in introduced
        BY <1>6, <2>1 DEF PInv, RepliesPair, Partners
      <3>2. f = e BY <1>6, <3>1, PsConnectorAssumption
      <3> QED BY <3>1, <3>2 DEF ServerReceives
    <2>2. CASE r \notin net BY <1>6, <2>2 DEF ServerReceives
    <2> QED BY <2>1, <2>2
  <1>7. c \in introduced' /\ d \in introduced'
    BY <1>1, <1>2, <1>3, <1>4, <1>6
  <1> QED BY <1>1, <1>2, <1>3, <1>4, <1>5, <1>7 DEF Partners

LEMMA ServerPairs ==
    ASSUME PInv, TInv', ServerReceives
    PROVE  PInv'
  <1>1. PICK m \in net : Receive(m) BY DEF ServerReceives
  <1>2. introduced \subseteq introduced' /\ state' = state /\ target' = target
    BY DEF ServerReceives, connVars
  <1>3. ConnectedPair' BY <1>2, PartnersFacts DEF PInv, ConnectedPair
  <1>4. CASE OnPsBindRequest(m)
    <2>1. PartiesShare' BY <1>4, RegistrationParty
    <2>2. PsAck(m).type = "ack" BY DEF PsAck, Empty
    <2>3. ASSUME NEW r \in net' \ net
          PROVE  \/ r.type = "ack"
                 \/ r.type = "ps_bind_reply" /\ Partners(r.dst.ip, r.addr_one.ip)'
      <3>1. CASE Exchange(m, {PsAck(m)})
        BY <2>2, <2>3, <3>1, ExchangeFacts
      <3>2. CASE \E tr : /\ Party(tr, m.tid) /\ Ready(tr)
                         /\ Exchange(m, {PsAck(m)} \cup PsIntroduce(tr))
        <4>1. PICK tr : /\ Party(tr, m.tid) /\ Ready(tr)
                        /\ Exchange(m, {PsAck(m)} \cup PsIntroduce(tr))
          BY <3>2
        <4>2. /\ PsIntroduce(tr) \subseteq net'
              /\ r = PsAck(m) \/ r \in PsIntroduce(tr)
          BY <2>3, <4>1, ExchangeFacts
        <4>3. \A s \in PsIntroduce(tr) :
                 s.type = "ps_bind_reply" /\ Partners(s.dst.ip, s.addr_one.ip)'
          BY <4>1, <4>2, PartyIntroduced DEF PsIntroduce, PsBindReply
        <4> QED BY <2>2, <4>2, <4>3
      <3> QED BY <1>4, <3>1, <3>2, RegistrationParty
    <2> QED BY <1>2, <1>3, <2>1, <2>3, PairsKept
  <1>5. CASE OnBindRequest(m) \/ OnHeartbeat(m) \/ OnUnexpected(m)
    <2>1. PartiesShare'
      BY <1>5 DEF OnBindRequest, OnHeartbeat, OnUnexpected, serverVars, PInv,
                  PartiesShare, Party, OfTransaction
    <2>2. \A a, b : /\ Empty("ack", ServerSock(1), a).type = "ack"
                    /\ \A r \in Introduce(a, b) : r.type = "bind_reply"
      BY DEF Empty, Introduce, BindReply
    <2>3. \A r \in net' \ net : r.type \in {"ack", "bind_reply"}
      BY <1>5, <2>2, ExchangeFacts DEF OnBindRequest, OnHeartbeat, OnUnexpected
    <2> QED BY <1>2, <1>3, <2>1, <2>3, PairsKept
  <1> QED BY <1>1, <1>4, <1>5 DEF Receive

----------------------------------------------------------------------------
(* The clients' side                                                       *)

\* What a client's step has to show.
LEMMA ClientPairs ==
    ASSUME PInv, TInv', UNCHANGED <<serverVars, introduced>>, NEW c \in Clients,
           \A d \in Clients \ {c} : state'[d] = state[d] /\ target'[d] = target[d],
           state'[c] = "connected" => Partners(HostOf[c], target'[c].ip),
           \A r \in net' \ net :
              \/ r.type = "ps_bind_request" /\ OfTransaction(r.src.ip, r.tid)
              \/ /\ r.type \in {"client_bind_request", "client_bind_response"}
                 /\ Partners(r.src.ip, r.dst.ip)
    PROVE  PInv'
  <1>1. PartiesShare'
    BY DEF serverVars, PInv, PartiesShare, Party, OfTransaction
  <1>2. ConnectedPair' BY DEF PInv, ConnectedPair, Partners
  <1>3. \A i, j : Partners(i, j) => Partners(i, j)' BY DEF Partners
  <1> QED BY <1>1, <1>2, <1>3, PairsKept

\* What has arrived at a client is from its partner if it is from a client.
LEMMA HandlePairs ==
    ASSUME PInv, TInv', NEW c \in Clients, NEW m \in net, NEW k \in Ports,
           NEW t \in SockAddr, NEW old \in SockAddr, NEW n \in Nat \ {0},
           HandleResult(c, m, k, t, old, n), state[c] # "connected",
           m.dst.ip = HostOf[c], LenValues \subseteq {"full", "negative"},
           UNCHANGED <<serverVars, introduced>>
    PROVE  PInv'
  <1>1. TInv BY DEF PInv
  <1>2. PeerAddress(old, m.src) \subseteq {m.src} BY DEF PeerAddress
  <1>3. state \in [Clients -> States] /\ target \in [Clients -> SockAddr]
    BY <1>1 DEF TInv, TypeOK, ConnectorTypeOK
  <1>4. \A a \in SockAddr, j \in Ports :
           /\ ClientBindRequest(c, j, a).type = "client_bind_request"
           /\ ClientBindRequest(c, j, a).src.ip = HostOf[c]
           /\ ClientBindRequest(c, j, a).dst = a
           /\ ClientBindResponse(c, j, a).type = "client_bind_response"
           /\ ClientBindResponse(c, j, a).src.ip = HostOf[c]
           /\ ClientBindResponse(c, j, a).dst = a
    BY DEF ClientBindRequest, ClientBindResponse, WithTid, At
  <1>5. m.src \in SockAddr BY <1>1 DEF TInv, TypeOK, ServerTypeOK, Datagram
  <1>6. CASE /\ EndIteration(c, state[c], n) \/ EndIteration(c, state[c], n - 1)
             /\ net' \subseteq net
             /\ target' = [target EXCEPT ![c] = t]
    <2>1. state' = [state EXCEPT ![c] = state[c]] BY <1>6 DEF EndIteration
    <2>2. /\ state'[c] # "connected"
          /\ \A d \in Clients \ {c} :
                state'[d] = state[d] /\ target'[d] = target[d]
      BY <1>3, <1>6, <2>1
    <2> QED BY <1>6, <2>2, ClientPairs
  <1>7. CASE /\ EndIteration(c, "connected", n)
             /\ target' = [target EXCEPT ![c] = m.src]
             /\ \/ /\ m.type = "client_bind_request"
                   /\ net' \subseteq net \cup {ClientBindResponse(c, k, m.src)}
                \/ /\ m.type = "client_bind_response"
                   /\ net' \subseteq net
    <2>1. Partners(m.src.ip, HostOf[c]) BY <1>7 DEF PInv, PeersPair
    <2>2. Partners(HostOf[c], m.src.ip) BY <2>1 DEF Partners
    <2>3. state' = [state EXCEPT ![c] = "connected"] BY <1>7 DEF EndIteration
    <2>4. /\ target'[c] = m.src
          /\ \A d \in Clients \ {c} :
                state'[d] = state[d] /\ target'[d] = target[d]
      BY <1>3, <1>7, <2>3
    <2>5. \A r \in net' \ net : r = ClientBindResponse(c, k, m.src) BY <1>7
    <2>6. \A r \in net' \ net :
             r.type = "client_bind_response" /\ Partners(r.src.ip, r.dst.ip)
      BY <1>4, <1>5, <2>2, <2>5
    <2> QED BY <2>2, <2>4, <2>6, ClientPairs
  <1>8. CASE /\ m.type = "ps_bind_reply"
             /\ \E a \in SockAddr :
                   /\ a.ip = m.addr_one.ip
                   /\ \A r \in net' \ net :
                         \E j \in Ports : r = ClientBindRequest(c, j, a)
             /\ state' = state
    <2>1. Partners(HostOf[c], m.addr_one.ip) BY <1>8 DEF PInv, RepliesPair
    <2>2. \A r \in net' \ net :
             r.type = "client_bind_request" /\ Partners(r.src.ip, r.dst.ip)
      BY <1>4, <1>8, <2>1
    <2>3. \A d \in Clients \ {c} : target'[d] = target[d]
      <3>1. \E a : target' = [target EXCEPT ![c] = a]
        BY DEF HandleResult, Handle, HandleError, OnPsBindReply, Punch, PunchFails,
               OnClientBindRequest, OnClientBindResponse, OnAck, OnOther, Idle
      <3> QED BY <1>3, <3>1
    <2> QED BY <1>8, <2>2, <2>3, ClientPairs
  <1> QED BY <1>1, <1>2, <1>6, <1>7, <1>8, HandleFacts

\* A registration names its client's host.
LEMMA RequestPairs ==
    ASSUME PInv, TInv', NEW c \in Clients, ClientRequests(c)
    PROVE  PInv'
  <1>1. /\ state' = state /\ UNCHANGED <<serverVars, introduced>>
        /\ pc[c] \in {"start", "second"}
        /\ target' = target \/ \E a : target' = [target EXCEPT ![c] = a]
    BY DEF ClientRequests, FirstRequest, SecondRequest
  <1>2. target \in [Clients -> SockAddr]
    BY DEF PInv, TInv, TypeOK, ConnectorTypeOK
  <1>3. \A d \in Clients \ {c} : target'[d] = target[d] BY <1>1, <1>2
  <1>4. state'[c] # "connected" BY <1>1 DEF PInv, TInv, ConnectedReturned
  <1>5. \A r \in net' \ net : \E k, a : r = PsBindRequest(c, k, a)
    BY DEF ClientRequests, FirstRequest, SecondRequest, Send, Sent
  <1>6. \A k, a : /\ PsBindRequest(c, k, a).type = "ps_bind_request"
                  /\ PsBindRequest(c, k, a).src.ip = HostOf[c]
                  /\ PsBindRequest(c, k, a).tid = TidOf[c]
    BY DEF PsBindRequest, WithTid, At
  <1>7. \A r \in net' \ net :
           r.type = "ps_bind_request" /\ OfTransaction(r.src.ip, r.tid)
    BY <1>5, <1>6 DEF OfTransaction
  <1> QED BY <1>1, <1>3, <1>4, <1>7, ClientPairs

\* The other steps send nothing and connect nobody.
LEMMA QuietPairs ==
    ASSUME PInv, TInv', net' \subseteq net, UNCHANGED <<serverVars, introduced>>,
           target' = target,
           \/ state' = state
           \/ \E c \in Clients : /\ pc[c] # "returned"
                                 /\ \E s \in {state[c], "waiting_for_stun_reply"} :
                                       state' = [state EXCEPT ![c] = s]
    PROVE  PInv'
  <1>1. \A c \in Clients : state'[c] = "connected" => state[c] = "connected"
    BY DEF PInv, TInv, TypeOK, ConnectorTypeOK
  <1>2. ConnectedPair' BY <1>1 DEF PInv, ConnectedPair, Partners
  <1>3. PartiesShare'
    BY DEF serverVars, PInv, PartiesShare, Party, OfTransaction
  <1> QED BY <1>2, <1>3, PairsKept

LEMMA HearPairs ==
    ASSUME PInv, TInv', NEW c \in Clients, ClientHears(c),
           LenValues \subseteq {"full", "negative"}
    PROVE  PInv'
  <1>1. PICK m \in net : Hear(c, m) BY DEF ClientHears
  <1>2. UNCHANGED <<serverVars, introduced>> BY DEF ClientHears
  <1>3. m.dst.ip = HostOf[c] /\ m.dst.port \in Listening(c) BY <1>1 DEF Hear
  <1>4. CASE Acknowledged(c, m)
    <2>1. net' \subseteq net BY <1>4, ExchangeFacts DEF Acknowledged
    <2> QED BY <1>2, <1>4, <2>1, QuietPairs DEF Acknowledged
  <1>5. CASE AckError(c, m)
    <2>1. net' \subseteq net BY <1>5, ExchangeFacts DEF AckError, ReceiveFails
    <2> QED BY <1>2, <1>5, <2>1, QuietPairs DEF AckError, NoAck
  <1>6. CASE Loop(c, m) \/ PunchSucceeds(c, m)
    <2>1. TInv BY DEF PInv
    <2>2. PICK k \in Ports, t \in SockAddr, old \in SockAddr, n \in Nat \ {0} :
             HandleResult(c, m, k, t, old, n)
      BY <1>3, <1>6, <2>1, Iterates
    <2>3. state[c] # "connected" BY <1>3, <1>6, <2>1, Iterates
    <2> QED BY <1>2, <1>3, <2>2, <2>3, HandlePairs
  <1> QED BY <1>1, <1>4, <1>5, <1>6 DEF Hear

LEMMA TimeoutPairs ==
    ASSUME PInv, TInv', NEW c \in Clients, ClientTimesOut(c)
    PROVE  PInv'
  <1>1. UNCHANGED <<serverVars, introduced, net, target>> /\ pc[c] # "returned"
    BY DEF ClientTimesOut, Timeout, AckTimeout, NoAck, LoopTimeout, PunchTimeout
  <1>2. state' = state \/ state' = [state EXCEPT ![c] = state[c]]
    BY DEF ClientTimesOut, Timeout, AckTimeout, NoAck, LoopTimeout, PunchTimeout,
           EndIteration
  <1> QED BY <1>1, <1>2, QuietPairs

LEMMA PairsStep ==
    ASSUME PInv, [Next]_vars, LenValues \subseteq {"full", "negative"}
    PROVE  PInv'
  <1>1. TInv' BY TypesStep DEF PInv
  <1>2. CASE ServerReceives BY <1>1, <1>2, ServerPairs
  <1>3. CASE Loses \/ Filters \/ UNCHANGED vars
    <2>1. /\ net' \subseteq net /\ UNCHANGED <<serverVars, introduced>>
          /\ UNCHANGED connVars
      BY <1>3 DEF Loses, Lose, Filters, Filter, vars
    <2>2. target' = target /\ state' = state BY <2>1 DEF connVars
    <2> QED BY <1>1, <2>1, <2>2, QuietPairs
  <1>4. ASSUME NEW c \in Clients, ClientRequests(c) PROVE PInv'
    BY <1>1, <1>4, RequestPairs
  <1>5. ASSUME NEW c \in Clients, ClientHears(c) PROVE PInv'
    BY <1>1, <1>5, HearPairs
  <1>6. ASSUME NEW c \in Clients, ClientTimesOut(c) PROVE PInv'
    BY <1>1, <1>6, TimeoutPairs
  <1>7. CASE ServerAlone
    <2>1. UNCHANGED <<net, introduced, state, target>>
      BY <1>7, ServerAloneFacts DEF connVars
    <2>2. PartiesShare'
      BY <1>7, ServerAloneFacts
         DEF PInv, PartiesShare, Party, OfTransaction
    <2>3. ConnectedPair' BY <2>1 DEF PInv, ConnectedPair, Partners
    <2> QED BY <1>1, <2>1, <2>2, <2>3, PairsKept
  <1> QED BY <1>2, <1>3, <1>4, <1>5, <1>6, <1>7 DEF Next, ServerAlone

LEMMA PairsInit ==
    ASSUME Init
    PROVE  PInv
  <1>1. net = {} /\ DOMAIN ps_transaction_client_map = {}
    BY DEF Init, ServerInit, EmptyMap
  <1>2. \A c \in Clients : state[c] # "connected" BY DEF Init, ConnectorInit
  <1> QED BY <1>1, <1>2, TypesInit
          DEF PInv, RequestsNamed, PartiesShare, RepliesPair, PeersPair,
              ConnectedPair

\* A client that connect told it is connected (p2p_ps_connector.h:237-259)
\* talks to a socket of another client's host, of its own transaction, that
\* the server has introduced: for any clients, NATs, predictions and scan
\* ranges, whatever is lost, duplicated or late, if a sender's address is
\* copied whole or not at all.
THEOREM PartnersMeet ==
    ASSUME LenValues \subseteq {"full", "negative"}
    PROVE  Spec => []PeerIsPartner
  <1>1. Init => PInv BY PairsInit
  <1>2. PInv /\ [Next]_vars => PInv' BY PairsStep
  <1>3. PInv => PeerIsPartner
    <2> SUFFICES ASSUME PInv, NEW c \in Clients, state[c] = "connected"
                 PROVE  \E d \in Clients \ {c} :
                           /\ target[c].ip = HostOf[d]
                           /\ TidOf[d] = TidOf[c]
                           /\ d \in introduced
      BY DEF PeerIsPartner
    <2>1. PICK e, d \in Clients :
             /\ e # d /\ TidOf[e] = TidOf[d]
             /\ HostOf[e] = HostOf[c] /\ HostOf[d] = target[c].ip
             /\ d \in introduced
      BY DEF PInv, ConnectedPair, Partners
    <2>2. e = c BY <2>1, PsConnectorAssumption
    <2> QED BY <2>1, <2>2
  <1> QED BY <1>1, <1>2, <1>3, PTL DEF Spec
----------------------------------------------------------------------------
(* One socket on each side                                                 *)

\* The server's sockets that a registration of client c may still reach.
Awaited(c) ==
    {s \in ServerSocks :
        \/ s = ServerSock(1) /\ pc[c] = "start"
        \/ s = ServerSock(2) /\ pc[c] \in {"start", "await_ack", "second"}
        \/ \E m \in net : /\ m.type = "ps_bind_request"
                          /\ m.src.ip = HostOf[c] /\ m.dst = s}

\* Each registration is sent once.
RegistersOnce ==
    \A m \in net : m.type = "ps_bind_request" =>
        /\ \A r \in net : /\ r.type = "ps_bind_request"
                          /\ r.src.ip = m.src.ip /\ r.dst = m.dst
                          => r = m
        /\ \A c \in Clients : HostOf[c] = m.src.ip =>
              /\ m.dst = ServerSock(1) => pc[c] # "start"
              /\ m.dst = ServerSock(2)
                    => pc[c] \notin {"start", "await_ack", "second"}

\* One of the sockets, and both sockets, of a host are registered.
HasFirst(tr, ip) == tr.cl1_sk1.ip = ip \/ tr.cl2_sk1.ip = ip
HasSecond(tr, ip) ==
    \/ tr.cl1_sk1.ip = ip /\ tr.cl1_sk2.ip # NoIp
    \/ tr.cl2_sk1.ip = ip /\ tr.cl2_sk2.ip # NoIp

\* What a transaction has of a client comes from registrations that have
\* arrived.
Spent(tr, c) ==
    HasFirst(tr, HostOf[c]) =>
        /\ c \notin introduced
        /\ Awaited(c) # ServerSocks
        /\ HasSecond(tr, HostOf[c]) => Awaited(c) = {}

RegistrationsSpent ==
    \A c \in Clients :
        /\ \A t \in DOMAIN ps_transaction_client_map :
              Spent(ps_transaction_client_map[t], c)
        /\ c \in introduced => Awaited(c) = {}

\* What a client sends leaves a hole in its NAT.
ClientTypes == {"ps_bind_request", "client_bind_request", "client_bind_response"}
HolesOpened ==
    \A m \in net : m.type \in ClientTypes =>
        m.src \in Addr /\ <<m.src, m.dst>> \in holes

\* A host has holes for one address of another host at most, for none before
\* it is introduced, nor while the reply that introduces it is on its way.
OnePeer ==
    \A g, h \in holes : g[1].ip = h[1].ip /\ g[2].ip \in Ips /\ h[2].ip \in Ips
        => g[2] = h[2]

PeersIntroduced ==
    \A h \in holes : h[2].ip \in Ips =>
        \E c \in introduced : HostOf[c] = h[1].ip

RepliesFirst ==
    \A m \in net : m.type = "ps_bind_reply" =>
        /\ \A r \in net : r.type = "ps_bind_reply" /\ r.dst.ip = m.dst.ip => r = m
        /\ \A h \in holes : h[1].ip = m.dst.ip => h[2].ip \notin Ips

\* A connected client has sent to its target, and its target to it.
BothWays ==
    \A c \in Clients : state[c] = "connected" =>
        /\ <<Socket(c), target[c]>> \in holes
        /\ <<target[c], Socket(c)>> \in holes

SuccessTold == \A c \in Clients : Succeeded(c) => state[c] = "connected"

\* What is known of registrations, of holes, and of those who are connected.
HolesInv == HolesOpened /\ OnePeer /\ PeersIntroduced /\ RepliesFirst
Told == BothWays /\ SuccessTold
SInv == PInv /\ RegistersOnce /\ RegistrationsSpent /\ HolesInv /\ Told

\* No NAT lets everything in, and a transaction is of two clients at most.
NoFullCone == \A i \in Ips : NatMode[i] # "full"
InTwos ==
    \A c, d, e \in Clients :
        TidOf[c] = TidOf[d] /\ TidOf[d] = TidOf[e] => c = d \/ d = e \/ c = e

\* A datagram is gone when it has been read.
LEMMA ReadOnce ==
    ASSUME ~MayDuplicate, NEW m, NEW out, Exchange(m, out), m \notin out
    PROVE  m \notin net'
BY DEF Exchange

LEMMA SockFacts ==
    /\ ServerSocks = {ServerSock(1), ServerSock(2)}
    /\ ServerSock(1) # ServerSock(2)
    /\ ServerSock(1).ip \notin Ips /\ ServerSock(2).ip \notin Ips
  <1>1. /\ ServerSock(1) = [ip |-> ServerIp, port |-> 3333]
        /\ ServerSock(2) = [ip |-> ServerIp, port |-> 3334]
    BY SMT DEF ServerSock
  <1> QED BY <1>1, NetworkAssumption DEF ServerSocks

\* What only lets registrations arrive, or not, keeps what is known of them.
LEMMA SpentKept ==
    ASSUME RegistrationsSpent, UNCHANGED <<ps_transaction_client_map, introduced>>,
           \A c \in Clients : Awaited(c)' \subseteq Awaited(c)
    PROVE  RegistrationsSpent'
  <1>1. \A c \in Clients : Awaited(c) \subseteq ServerSocks BY DEF Awaited
  <1>2. ASSUME NEW c \in Clients,
               NEW t \in DOMAIN ps_transaction_client_map'
        PROVE  Spent(ps_transaction_client_map[t], c)'
    <2>1. Spent(ps_transaction_client_map[t], c)
      BY <1>2 DEF RegistrationsSpent
    <2>2. Awaited(c)' \subseteq Awaited(c) /\ Awaited(c) \subseteq ServerSocks
      BY <1>1
    <2> QED BY <2>1, <2>2 DEF Spent, HasFirst, HasSecond
  <1> QED BY <1>2 DEF RegistrationsSpent

\* A step that sends no registration and takes no client back to before one.
LEMMA RegistrationsKept ==
    ASSUME RegistersOnce, RegistrationsSpent,
           UNCHANGED <<ps_transaction_client_map, introduced>>,
           \A r \in net' \ net : r.type # "ps_bind_request",
           \A c \in Clients :
              /\ pc'[c] = "start" => pc[c] = "start"
              /\ pc'[c] \in {"start", "await_ack", "second"} =>
                    pc[c] \in {"start", "await_ack", "second"}
    PROVE  RegistersOnce' /\ RegistrationsSpent'
  <1>1. RegistersOnce' BY DEF RegistersOnce
  <1>2. \A c \in Clients : Awaited(c)' \subseteq Awaited(c) BY DEF Awaited
  <1> QED BY <1>1, <1>2, SpentKept

\* A registration is sent.
LEMMA RegistrationSent ==
    ASSUME TInv, RegistersOnce, RegistrationsSpent, NEW c \in Clients,
           ClientRequests(c)
    PROVE  RegistersOnce' /\ RegistrationsSpent'
  <1> DEFINE Early == {"start", "await_ack", "second"}
  <1>1. UNCHANGED <<ps_transaction_client_map, introduced>>
    BY DEF ClientRequests, serverVars
  <1>2. PICK s, k, out :
           /\ s \in ServerSocks
           /\ \/ /\ s = ServerSock(1) /\ pc[c] = "start"
                 /\ pc' \in {[pc EXCEPT ![c] = "await_ack"],
                             [pc EXCEPT ![c] = "returned"]}
              \/ /\ s = ServerSock(2) /\ pc[c] = "second"
                 /\ pc' \in {[pc EXCEPT ![c] = "await_ack2"],
                             [pc EXCEPT ![c] = "returned"]}
           /\ net' = net \cup out
           /\ out \subseteq {PsBindRequest(c, k, s)}
    <2>1. CASE FirstRequest(c)
      <3>1. /\ pc[c] = "start"
            /\ \E ok \in SendResults :
                  /\ Send(Sent(ok, PsBindRequest(c, sock[c], ServerSock(1))))
                  /\ IF ok THEN Goto(c, "await_ack")
                     ELSE Return(c, "connection_error")
        BY <2>1 DEF FirstRequest
      <3>2. PICK key : key = sock[c] OBVIOUS
      <3>3. PICK ok \in SendResults :
               /\ net' = net \cup Sent(ok, PsBindRequest(c, key, ServerSock(1)))
               /\ pc' \in {[pc EXCEPT ![c] = "await_ack"],
                           [pc EXCEPT ![c] = "returned"]}
        BY <3>1, <3>2 DEF Send, Goto, Return
      <3>4. Sent(ok, PsBindRequest(c, key, ServerSock(1)))
               \subseteq {PsBindRequest(c, key, ServerSock(1))}
        BY DEF Sent
      <3>5. ServerSock(1) \in ServerSocks BY SockFacts
      <3> QED BY <3>1, <3>3, <3>4, <3>5, Zenon
    <2>2. CASE SecondRequest(c)
      <3>1. /\ pc[c] = "second"
            /\ \E ok \in SendResults :
                  /\ Send(Sent(ok, PsBindRequest(c,
                              IF Sym[c] THEN HelperPort ELSE sock[c],
                              ServerSock(2))))
                  /\ IF ok THEN Goto(c, "await_ack2")
                     ELSE Return(c, "connection_error")
        BY <2>2 DEF SecondRequest
      <3>2. PICK key : key = IF Sym[c] THEN HelperPort ELSE sock[c] OBVIOUS
      <3>3. PICK ok \in SendResults :
               /\ net' = net \cup Sent(ok, PsBindRequest(c, key, ServerSock(2)))
               /\ pc' \in {[pc EXCEPT ![c] = "await_ack2"],
                           [pc EXCEPT ![c] = "returned"]}
        BY <3>1, <3>2 DEF Send, Goto, Return
      <3>4. Sent(ok, PsBindRequest(c, key, ServerSock(2)))
               \subseteq {PsBindRequest(c, key, ServerSock(2))}
        BY DEF Sent
      <3>5. ServerSock(2) \in ServerSocks BY SockFacts
      <3> QED BY <3>1, <3>3, <3>4, <3>5, Zenon
    <2> QED BY <2>1, <2>2 DEF ClientRequests
  <1> DEFINE new == PsBindRequest(c, k, s)
  <1>3. /\ new.type = "ps_bind_request" /\ new.src.ip = HostOf[c]
        /\ new.dst = s
    BY DEF PsBindRequest, WithTid, At
  <1>4. pc \in [Clients -> Pcs] BY DEF TInv, TypeOK, ConnectorTypeOK
  <1>5. \A d \in Clients \ {c} : pc'[d] = pc[d] /\ HostOf[d] # HostOf[c]
    BY <1>2, <1>4, PsConnectorAssumption
  <1>6. /\ pc'[c] # "start"
        /\ s = ServerSock(2) => pc'[c] \notin Early
        /\ s = ServerSock(1) => pc[c] = "start"
        /\ s = ServerSock(2) => pc[c] = "second" /\ pc[c] # "start"
    BY <1>2, <1>4, SockFacts
  <1>7. \A r \in net : r.type = "ps_bind_request" /\ r.src.ip = HostOf[c]
                       => r.dst # s
    BY <1>2, <1>6 DEF RegistersOnce
  <1> HIDE DEF new
  <1>8. \A r \in net' : r \in net \/ r = new BY <1>2 DEF new
  <1>9. RegistersOnce'
    <2> SUFFICES ASSUME NEW m \in net', m.type = "ps_bind_request"
                 PROVE  /\ \A r \in net' : /\ r.type = "ps_bind_request"
                                           /\ r.src.ip = m.src.ip /\ r.dst = m.dst
                                           => r = m
                        /\ \A d \in Clients : HostOf[d] = m.src.ip =>
                              /\ m.dst = ServerSock(1) => pc'[d] # "start"
                              /\ m.dst = ServerSock(2) => pc'[d] \notin Early
      BY DEF RegistersOnce
    <2>1. CASE m \in net
      <3>1. ASSUME NEW r \in net', r.type = "ps_bind_request",
                   r.src.ip = m.src.ip, r.dst = m.dst
            PROVE  r = m
        BY <1>3, <1>7, <1>8, <2>1, <3>1 DEF RegistersOnce
      <3>2. ASSUME NEW d \in Clients, HostOf[d] = m.src.ip
            PROVE  /\ m.dst = ServerSock(1) => pc'[d] # "start"
                   /\ m.dst = ServerSock(2) => pc'[d] \notin Early
        <4>1. /\ m.dst = ServerSock(1) => pc[d] # "start"
              /\ m.dst = ServerSock(2) => pc[d] \notin Early
          BY <2>1, <3>2 DEF RegistersOnce
        <4>2. CASE d = c BY <1>2, <1>6, <4>1, <4>2, SockFacts
        <4>3. CASE d # c BY <1>5, <4>1, <4>3
        <4> QED BY <4>2, <4>3
      <3> QED BY <3>1, <3>2
    <2>2. CASE m = new
      <3>1. ASSUME NEW r \in net', r.type = "ps_bind_request",
                   r.src.ip = m.src.ip, r.dst = m.dst
            PROVE  r = m
        BY <1>3, <1>7, <1>8, <2>2, <3>1
      <3>2. ASSUME NEW d \in Clients, HostOf[d] = m.src.ip PROVE d = c
        BY <1>3, <1>5, <2>2, <3>2
      <3> QED BY <1>3, <1>6, <2>2, <3>1, <3>2
    <2> QED BY <1>8, <2>1, <2>2
  <1>10. ASSUME NEW d \in Clients PROVE Awaited(d)' \subseteq Awaited(d)
    <2>1. ASSUME NEW x \in Awaited(d)' PROVE x \in Awaited(d)
      <3>1. x \in ServerSocks BY <2>1 DEF Awaited, ServerSocks, ServerSock
      <3>2. CASE d = c
        <4>1. s \in Awaited(c) BY <1>2, <1>6 DEF Awaited
        <4>2. CASE x = s BY <3>2, <4>1, <4>2
        <4>3. CASE x # s
          <5>1. x = ServerSock(2) /\ pc'[c] \in Early => pc[c] \in Early
            BY <1>6, <1>2, SockFacts
          <5>2. \A r \in net' : r.dst = x => r \in net
            BY <1>3, <1>8, <4>3
          <5> QED BY <1>6, <2>1, <3>1, <3>2, <5>1, <5>2 DEF Awaited
        <4> QED BY <4>2, <4>3
      <3>3. CASE d # c
        <4>1. \A r \in net' : r.src.ip = HostOf[d] => r \in net
          BY <1>3, <1>5, <1>8, <3>3
        <4> QED BY <1>5, <2>1, <3>1, <3>3, <4>1 DEF Awaited
      <3> QED BY <3>2, <3>3
    <2> QED BY <2>1
  <1> QED BY <1>1, <1>9, <1>10, SpentKept

\* A registration arrives: it is awaited before and not any more.
LEMMA Arrives ==
    ASSUME RegistersOnce, NEW m \in net, m.type = "ps_bind_request",
           m.dst \in ServerSocks, m \notin net', pc' = pc,
           \A r \in net' \ net : r.type # "ps_bind_request"
    PROVE  /\ RegistersOnce'
           /\ \A c \in Clients : Awaited(c)' \subseteq Awaited(c)
           /\ \A c \in Clients : HostOf[c] = m.src.ip =>
                 /\ m.dst \notin Awaited(c)'
                 /\ Awaited(c) # {}
                 /\ Awaited(c)' # ServerSocks
                 /\ Awaited(c) # ServerSocks => Awaited(c)' = {}
  <1>1. RegistersOnce' BY DEF RegistersOnce
  <1>2. \A c \in Clients : Awaited(c)' \subseteq Awaited(c) BY DEF Awaited
  <1>3. ASSUME NEW c \in Clients, HostOf[c] = m.src.ip
        PROVE  /\ m.dst \in Awaited(c)
               /\ m.dst \notin Awaited(c)'
    <2>1. m.dst \in Awaited(c) BY <1>3 DEF Awaited
    <2>2. /\ m.dst = ServerSock(1) => pc'[c] # "start"
          /\ m.dst = ServerSock(2)
                => pc'[c] \notin {"start", "await_ack", "second"}
      BY <1>3 DEF RegistersOnce
    <2>3. ASSUME NEW r \in net', r.type = "ps_bind_request",
                 r.src.ip = HostOf[c]
          PROVE  r.dst # m.dst
      <3>1. r \in net /\ r # m BY <2>3
      <3> QED BY <1>3, <2>3, <3>1 DEF RegistersOnce
    <2>4. m.dst \notin Awaited(c)'
      <3> SUFFICES ASSUME m.dst \in Awaited(c)' PROVE FALSE
        OBVIOUS
      <3>1. \/ m.dst = ServerSock(1)' /\ pc'[c] = "start"
            \/ m.dst = ServerSock(2)'
                  /\ pc'[c] \in {"start", "await_ack", "second"}
            \/ \E r \in net' : /\ r.type = "ps_bind_request"
                               /\ r.src.ip = HostOf[c] /\ r.dst = m.dst
        BY DEF Awaited
      <3> QED BY <2>2, <2>3, <3>1 DEF ServerSock
    <2> QED BY <2>1, <2>4
  <1>4. \A c \in Clients : Awaited(c) \subseteq ServerSocks BY DEF Awaited
  <1>5. ASSUME NEW c \in Clients, HostOf[c] = m.src.ip
        PROVE  /\ m.dst \notin Awaited(c)'
               /\ Awaited(c) # {}
               /\ Awaited(c)' # ServerSocks
               /\ Awaited(c) # ServerSocks => Awaited(c)' = {}
    BY <1>2, <1>3, <1>4, <1>5, SockFacts
  <1> QED BY <1>1, <1>2, <1>5

\* What tr has of a host, the transaction in the map had before; of the host
\* ip that registers now it had one socket if tr has both.
Extends(tr, t, ip) ==
    \A h \in Ips :
        /\ h # ip /\ HasFirst(tr, h) =>
              /\ t \in DOMAIN ps_transaction_client_map
              /\ HasFirst(ps_transaction_client_map[t], h)
        /\ h # ip /\ HasSecond(tr, h) =>
              HasSecond(ps_transaction_client_map[t], h)
        /\ h = ip /\ HasSecond(tr, h) =>
              /\ t \in DOMAIN ps_transaction_client_map
              /\ HasFirst(ps_transaction_client_map[t], h)

LEMMA ExtendsNew ==
    ASSUME NEW a, NEW t
    PROVE  Extends(NewTransaction(a), t, a.ip)
BY NetworkAssumption, AddrFacts
   DEF Extends, HasFirst, HasSecond, NewTransaction

LEMMA ExtendsAgain ==
    ASSUME NEW t \in DOMAIN ps_transaction_client_map, NEW a,
           ps_transaction_client_map[t] \in PsTransaction,
           ps_transaction_client_map[t].cl1_sk1.ip = a.ip
    PROVE  Extends([ps_transaction_client_map[t] EXCEPT !.cl1_ts2 = now,
                                                        !.cl1_sk2 = a], t, a.ip)
BY DEF Extends, HasFirst, HasSecond, PsTransaction

LEMMA ExtendsOther ==
    ASSUME NEW t \in DOMAIN ps_transaction_client_map, NEW a,
           ps_transaction_client_map[t] \in PsTransaction,
           Party(ps_transaction_client_map[t], t), a.ip # NoIp,
           ps_transaction_client_map[t].cl1_sk1.ip # a.ip
    PROVE  Extends(WithClient2(ps_transaction_client_map[t], a), t, a.ip)
  <1>1. PICK tr \in PsTransaction : tr = ps_transaction_client_map[t]
    OBVIOUS
  <1>2. tr.cl2_sk2.ip # NoIp => tr.cl2_sk1.ip # NoIp BY <1>1 DEF Party
  <1>3. CASE tr.cl2_sk1.ip = NoIp
    <2>1. WithClient2(tr, a) = [tr EXCEPT !.cl2_ts1 = now, !.cl2_sk1 = a]
      BY <1>3 DEF WithClient2
    <2>2. /\ WithClient2(tr, a).cl1_sk1 = tr.cl1_sk1
          /\ WithClient2(tr, a).cl1_sk2 = tr.cl1_sk2
          /\ WithClient2(tr, a).cl2_sk1 = a
          /\ WithClient2(tr, a).cl2_sk2 = tr.cl2_sk2
      BY <2>1 DEF PsTransaction
    <2> QED BY <1>1, <1>2, <1>3, <2>2 DEF Extends, HasFirst, HasSecond
  <1>4. CASE tr.cl2_sk1.ip # NoIp /\ tr.cl2_sk1.ip = a.ip
    <2>1. WithClient2(tr, a) = [tr EXCEPT !.cl2_ts2 = now, !.cl2_sk2 = a]
      BY <1>4 DEF WithClient2
    <2>2. /\ WithClient2(tr, a).cl1_sk1 = tr.cl1_sk1
          /\ WithClient2(tr, a).cl1_sk2 = tr.cl1_sk2
          /\ WithClient2(tr, a).cl2_sk1 = tr.cl2_sk1
      BY <2>1 DEF PsTransaction
    <2> QED BY <1>1, <1>4, <2>2 DEF Extends, HasFirst, HasSecond
  <1>5. CASE tr.cl2_sk1.ip # NoIp /\ tr.cl2_sk1.ip # a.ip
    <2>1. WithClient2(tr, a) = tr BY <1>5 DEF WithClient2
    <2> QED BY <1>1, <2>1 DEF Extends, HasFirst, HasSecond
  <1> QED BY <1>3, <1>4, <1>5

\* The transaction that a registration makes, and what becomes of it.
LEMMA RegistrationCases ==
    ASSUME PInv, NEW m \in net, OnPsBindRequest(m)
    PROVE  \E tr :
              /\ Party(tr, m.tid) /\ Extends(tr, m.tid, m.src.ip)
              /\ \/ PsStore(m.tid, tr) /\ Exchange(m, {PsAck(m)})
                 \/ /\ Ready(tr) /\ PsErase(m.tid)
                    /\ Exchange(m, {PsAck(m)} \cup PsIntroduce(tr))
  <1> DEFINE map == ps_transaction_client_map
  <1>1. OfTransaction(m.src.ip, m.tid)
    BY DEF PInv, RequestsNamed, OnPsBindRequest
  <1>2. /\ \A t \in DOMAIN map : map[t] \in PsTransaction /\ Party(map[t], t)
        /\ m.src.ip # NoIp
    BY <1>1, PsConnectorAssumption, NetworkAssumption
       DEF PInv, TInv, TypeOK, ServerTypeOK, PartiesShare, OfTransaction
  <1>3. CASE PsFirstClient(m)
    BY <1>1, <1>3, NewParty, ExtendsNew DEF PsFirstClient
  <1>4. CASE PsFirstClientAgain(m)
    BY <1>2, <1>4, AgainParty, ExtendsAgain DEF PsFirstClientAgain, PsKnown
  <1>5. CASE PsOtherClient(m)
    <2>1. PICK new : new = WithClient2(map[m.tid], m.src) OBVIOUS
    <2>2. Party(new, m.tid)
      BY <1>1, <1>2, <1>5, <2>1, OtherParty DEF PsOtherClient, PsKnown
    <2>3. Extends(new, m.tid, m.src.ip)
      BY <1>2, <1>5, <2>1, ExtendsOther DEF PsOtherClient, PsKnown
    <2> QED BY <1>5, <2>1, <2>2, <2>3 DEF PsOtherClient
  <1> QED BY <1>3, <1>4, <1>5 DEF OnPsBindRequest

\* What a client has in a transaction after a registration has arrived.
LEMMA SpentNext ==
    ASSUME RegistrationsSpent, NEW ip, NEW t, NEW tr, Extends(tr, t, ip),
           NEW c \in Clients, HasFirst(tr, HostOf[c]),
           Awaited(c)' \subseteq Awaited(c),
           HostOf[c] = ip => /\ Awaited(c) # {}
                             /\ Awaited(c)' # ServerSocks
                             /\ Awaited(c) # ServerSocks => Awaited(c)' = {}
    PROVE  /\ c \notin introduced
           /\ Awaited(c)' # ServerSocks
           /\ HasSecond(tr, HostOf[c]) => Awaited(c)' = {}
  <1>1. HostOf[c] \in Ips BY PsConnectorAssumption
  <1>2. Awaited(c) \subseteq ServerSocks BY DEF Awaited
  <1>3. t \in DOMAIN ps_transaction_client_map =>
           Spent(ps_transaction_client_map[t], c)
    BY DEF RegistrationsSpent
  <1>4. CASE HostOf[c] = ip
    <2>1. c \notin introduced BY <1>4 DEF RegistrationsSpent
    <2>2. HasSecond(tr, HostOf[c]) => Awaited(c) # ServerSocks
      BY <1>1, <1>3, <1>4 DEF Extends, Spent
    <2> QED BY <1>4, <2>1, <2>2
  <1>5. CASE HostOf[c] # ip
    <2>1. /\ t \in DOMAIN ps_transaction_client_map
          /\ HasFirst(ps_transaction_client_map[t], HostOf[c])
          /\ HasSecond(tr, HostOf[c]) =>
                HasSecond(ps_transaction_client_map[t], HostOf[c])
      BY <1>1, <1>5 DEF Extends
    <2>2. /\ c \notin introduced /\ Awaited(c) # ServerSocks
          /\ HasSecond(tr, HostOf[c]) => Awaited(c) = {}
      BY <1>3, <2>1 DEF Spent
    <2> QED BY <1>2, <2>2
  <1> QED BY <1>4, <1>5

\* Whom the server tells, it has not told before.
NewlyTold ==
    \A r \in net' \ net : r.type = "ps_bind_reply" =>
        /\ \A s \in net' \ net : s.type = "ps_bind_reply" /\ s.dst.ip = r.dst.ip
                                 => s = r
        /\ \A c \in Clients : HostOf[c] = r.dst.ip => c \notin introduced

\* The datagrams of an introduction.
LEMMA IntroductionFacts ==
    ASSUME NEW tr, NEW t, Party(tr, t), Ready(tr)
    PROVE  /\ \A r \in PsIntroduce(tr) :
                 /\ r.type = "ps_bind_reply" /\ HasSecond(tr, r.dst.ip)
                 /\ \A s \in PsIntroduce(tr) : s.dst.ip = r.dst.ip => s = r
           /\ \A ip : HasSecond(tr, ip) => HasFirst(tr, ip)
  <1> DEFINE r1 == PsBindReply(ServerSock(1), tr.cl1_sk1,
                       tr.cl2_sk1, tr.cl2_sk2, tr.cl2_ts1, tr.cl2_ts2)
             r2 == PsBindReply(ServerSock(1), tr.cl2_sk1,
                       tr.cl1_sk1, tr.cl1_sk2, tr.cl1_ts1, tr.cl1_ts2)
  <1>1. PsIntroduce(tr) = {r1, r2} BY DEF PsIntroduce
  <1>2. /\ r1.type = "ps_bind_reply" /\ r2.type = "ps_bind_reply"
        /\ r1.dst = tr.cl1_sk1 /\ r2.dst = tr.cl2_sk1
    BY DEF PsBindReply
  <1> HIDE DEF r1, r2
  <1>3. tr.cl1_sk1.ip # tr.cl2_sk1.ip BY DEF Party, Ready
  <1> QED BY <1>1, <1>2, <1>3 DEF HasFirst, HasSecond, Ready

LEMMA RegistrationArrives ==
    ASSUME PInv, RegistersOnce, RegistrationsSpent, ~MayDuplicate,
           NEW m \in net, m.dst \in ServerSocks, OnPsBindRequest(m), pc' = pc,
           introduced' = introduced \cup
              {c \in Clients : \E r \in net' \ net :
                    r.type = "ps_bind_reply" /\ r.dst.ip = HostOf[c]}
    PROVE  RegistersOnce' /\ RegistrationsSpent' /\ NewlyTold
  <1> DEFINE map == ps_transaction_client_map
  <1>1. PICK tr :
           /\ Party(tr, m.tid) /\ Extends(tr, m.tid, m.src.ip)
           /\ \/ PsStore(m.tid, tr) /\ Exchange(m, {PsAck(m)})
              \/ /\ Ready(tr) /\ PsErase(m.tid)
                 /\ Exchange(m, {PsAck(m)} \cup PsIntroduce(tr))
    BY RegistrationCases
  <1>2. m.type = "ps_bind_request" /\ PsAck(m).type = "ack"
    BY DEF OnPsBindRequest, PsAck, Empty
  <1>3. PICK out : /\ Exchange(m, out)
                   /\ \A r \in out : r.type # "ps_bind_request"
                   /\ \A r \in out : r.type = "ps_bind_reply" =>
                         /\ Ready(tr) /\ PsErase(m.tid)
                         /\ r \in PsIntroduce(tr)
    <2>1. CASE PsStore(m.tid, tr) /\ Exchange(m, {PsAck(m)})
      BY <1>2, <2>1
    <2>2. CASE /\ Ready(tr) /\ PsErase(m.tid)
               /\ Exchange(m, {PsAck(m)} \cup PsIntroduce(tr))
      BY <1>1, <1>2, <2>2, IntroductionFacts
    <2> QED BY <1>1, <2>1, <2>2
  <1>4. m \notin net' BY <1>2, <1>3, ReadOnce
  <1>5. \A r \in net' \ net : r \in out BY <1>3, ExchangeFacts
  <1>6. /\ RegistersOnce'
        /\ \A c \in Clients : Awaited(c)' \subseteq Awaited(c)
        /\ \A c \in Clients : HostOf[c] = m.src.ip =>
              /\ Awaited(c) # {}
              /\ Awaited(c)' # ServerSocks
              /\ Awaited(c) # ServerSocks => Awaited(c)' = {}
    BY <1>2, <1>3, <1>4, <1>5, Arrives
  <1>7. ASSUME NEW c \in Clients, HasFirst(tr, HostOf[c])
        PROVE  /\ c \notin introduced
               /\ Awaited(c)' # ServerSocks
               /\ HasSecond(tr, HostOf[c]) => Awaited(c)' = {}
    BY <1>1, <1>6, <1>7, SpentNext
  <1>8. ASSUME NEW r \in net' \ net, r.type = "ps_bind_reply"
        PROVE  /\ Ready(tr) /\ PsErase(m.tid) /\ r \in PsIntroduce(tr)
               /\ HasSecond(tr, r.dst.ip) /\ HasFirst(tr, r.dst.ip)
    BY <1>1, <1>3, <1>5, <1>8, IntroductionFacts
  <1>9. NewlyTold
    <2>1. ASSUME NEW r \in net' \ net, r.type = "ps_bind_reply",
                 NEW s \in net' \ net, s.type = "ps_bind_reply",
                 s.dst.ip = r.dst.ip
          PROVE  s = r
      BY <1>1, <1>8, <2>1, IntroductionFacts
    <2> QED BY <1>7, <1>8, <2>1 DEF NewlyTold
  <1>10. ASSUME NEW c \in Clients, c \in introduced', c \notin introduced
         PROVE  /\ HasFirst(tr, HostOf[c]) /\ PsErase(m.tid)
                /\ Awaited(c)' = {}
    <2>1. PICK r \in net' \ net :
             r.type = "ps_bind_reply" /\ r.dst.ip = HostOf[c]
      BY <1>10
    <2> QED BY <1>7, <1>8, <2>1
  <1>11. ASSUME NEW c \in Clients, c \in introduced' PROVE Awaited(c)' = {}
    BY <1>6, <1>10, <1>11 DEF RegistrationsSpent
  <1>12. ASSUME NEW c \in Clients, NEW t \in DOMAIN map'
         PROVE  Spent(map[t], c)'
    <2> SUFFICES ASSUME HasFirst(map'[t], HostOf[c])
                 PROVE  /\ c \notin introduced'
                        /\ Awaited(c)' # ServerSocks
                        /\ HasSecond(map'[t], HostOf[c]) => Awaited(c)' = {}
      BY DEF Spent, HasFirst, HasSecond, ServerSocks, ServerSock
    <2>1. CASE PsStore(m.tid, tr)
      <3>1. map' = [s \in DOMAIN map \cup {m.tid} |->
                       IF s = m.tid THEN tr ELSE map[s]]
        BY <2>1 DEF PsStore, Put
      <3>2. introduced' = introduced
        <4>1. ASSUME NEW d \in Clients, d \in introduced' PROVE d \in introduced
          <5> SUFFICES ASSUME d \notin introduced PROVE FALSE
            OBVIOUS
          <5>1. HasFirst(tr, HostOf[d]) /\ PsErase(m.tid) BY <1>10, <4>1
          <5>2. m.tid \notin DOMAIN map'
            BY <5>1 DEF PsErase, Without, Restrict
          <5> QED BY <3>1, <5>2
        <4> QED BY <4>1
      <3>3. CASE t = m.tid
        <4>1. map'[t] = tr BY <3>1, <3>3
        <4> QED BY <1>7, <3>2, <4>1
      <3>4. CASE t # m.tid
        <4>1. t \in DOMAIN map /\ map'[t] = map[t] BY <3>1, <3>4
        <4>2. Spent(map[t], c) BY <4>1 DEF RegistrationsSpent
        <4>3. Awaited(c) \subseteq ServerSocks BY DEF Awaited
        <4> QED BY <1>6, <3>2, <4>1, <4>2, <4>3 DEF Spent
      <3> QED BY <3>3, <3>4
    <2>2. CASE PsErase(m.tid)
      <3>1. map' = [s \in DOMAIN map \ {m.tid} |-> map[s]]
        BY <2>2 DEF PsErase, Without, Restrict
      <3>2. t # m.tid /\ t \in DOMAIN map /\ map'[t] = map[t] BY <3>1
      <3>3. Spent(map[t], c) BY <3>2 DEF RegistrationsSpent
      <3>4. Party(map[t], t) BY <3>2 DEF PInv, PartiesShare
      <3>5. c \notin introduced'
        <4> SUFFICES ASSUME c \in introduced' PROVE FALSE
          OBVIOUS
        <4>1. c \notin introduced BY <3>2, <3>3 DEF Spent
        <4>2. HasFirst(tr, HostOf[c]) BY <1>10, <4>1
        <4>3. HostOf[c] # NoIp BY PsConnectorAssumption, NetworkAssumption
        <4>4. TidOf[c] = m.tid
          BY <1>1, <4>2, <4>3, PsConnectorAssumption
             DEF Party, HasFirst, OfTransaction
        <4>5. TidOf[c] = t
          BY <3>2, <3>4, <4>3, PsConnectorAssumption
             DEF Party, HasFirst, OfTransaction
        <4> QED BY <3>2, <4>4, <4>5
      <3>6. Awaited(c) \subseteq ServerSocks BY DEF Awaited
      <3> QED BY <1>6, <3>2, <3>3, <3>5, <3>6 DEF Spent
    <2> QED BY <1>1, <2>1, <2>2
  <1>13. RegistrationsSpent' BY <1>11, <1>12 DEF RegistrationsSpent
  <1> QED BY <1>6, <1>9, <1>13

\* Nobody's NAT learns anything new.
LEMMA SameHoles ==
    ASSUME HolesInv, holes' = holes, introduced' = introduced,
           \A r \in net' \ net :
              /\ r.type # "ps_bind_reply"
              /\ r.type \in ClientTypes =>
                    r.src \in Addr /\ <<r.src, r.dst>> \in holes
    PROVE  HolesInv'
  <1>1. HolesOpened' BY DEF HolesInv, HolesOpened, Addr
  <1>2. OnePeer' /\ PeersIntroduced'
    BY DEF HolesInv, OnePeer, PeersIntroduced
  <1>3. RepliesFirst' BY DEF HolesInv, RepliesFirst
  <1> QED BY <1>1, <1>2, <1>3 DEF HolesInv

\* A client sends to a: a server's socket, or the first address of a peer's.
LEMMA NewHoles ==
    ASSUME HolesInv, NEW c \in Clients, NEW a, Outbound,
           introduced' = introduced,
           \A r \in net' \ net :
              /\ r.type \in ClientTypes /\ r.src \in Addr
              /\ r.src.ip = HostOf[c] /\ r.dst = a,
           a.ip \in Ips =>
              /\ c \in introduced
              /\ \A h \in holes : h[1].ip = HostOf[c] => h[2].ip \notin Ips
              /\ \A r \in net' : r.type = "ps_bind_reply"
                                 => r.dst.ip # HostOf[c]
    PROVE  HolesInv'
  <1>1. holes \subseteq holes' BY DEF Outbound
  <1>2. ASSUME NEW h \in holes', h \notin holes
        PROVE  h[1].ip = HostOf[c] /\ h[2] = a
    <2>1. PICK r \in net' \ net : h = <<r.src, r.dst>>
      BY <1>2 DEF Outbound
    <2> QED BY <2>1
  <1>3. \A r \in net' \ net : r.type # "ps_bind_reply" BY DEF ClientTypes
  <1>4. HolesOpened'
    <2>1. ASSUME NEW r \in net' \ net
          PROVE  r.src \in Addr /\ <<r.src, r.dst>> \in holes'
      BY <2>1 DEF Outbound
    <2> QED BY <1>1, <2>1 DEF HolesInv, HolesOpened, Addr
  <1>5. OnePeer' BY <1>2 DEF HolesInv, OnePeer
  <1>6. PeersIntroduced' BY <1>2 DEF HolesInv, PeersIntroduced
  <1>7. RepliesFirst' BY <1>2, <1>3 DEF HolesInv, RepliesFirst
  <1> QED BY <1>4, <1>5, <1>6, <1>7 DEF HolesInv

\* Connected clients, and what connect tells: the step of one of them.
LEMMA OneTold ==
    ASSUME TInv, Told, NEW c \in Clients, state[c] # "connected",
           holes \subseteq holes',
           \A d \in Clients \ {c} :
              /\ state'[d] = state[d] /\ target'[d] = target[d]
              /\ sock'[d] = sock[d] /\ result'[d] = result[d],
           state'[c] = "connected" =>
              /\ <<At(c, sock'[c]), target'[c]>> \in holes'
              /\ <<target'[c], At(c, sock'[c])>> \in holes',
           result'[c] \in {result[c], "connection_successful"} =>
              state'[c] = "connected" \/ result'[c] = result[c]
    PROVE  Told'
  <1>1. BothWays' BY DEF Told, BothWays, Socket, At
  <1>2. result[c] # "connection_successful"
    BY DEF Told, SuccessTold, Succeeded
  <1>3. SuccessTold' BY <1>2 DEF Told, SuccessTold, Succeeded
  <1> QED BY <1>1, <1>3 DEF Told

\* The server's steps.
LEMMA ServerHoles ==
    ASSUME PInv, PInv', HolesInv, Told, RegistersOnce, RegistrationsSpent,
           ~MayDuplicate, ServerReceives
    PROVE  HolesInv' /\ Told' /\ RegistersOnce' /\ RegistrationsSpent'
  <1>1. PICK m \in net : Receive(m) BY DEF ServerReceives
  <1>2. UNCHANGED <<connVars, holes>> BY DEF ServerReceives
  <1>3. Told'
    BY <1>2 DEF connVars, Told, BothWays, SuccessTold, Succeeded, Socket, At
  <1>4. RegistersOnce' /\ RegistrationsSpent' /\ NewlyTold
    <2>1. CASE OnPsBindRequest(m)
      BY <1>1, <1>2, <2>1, RegistrationArrives
         DEF Receive, ServerReceives, connVars
    <2>2. CASE OnBindRequest(m) \/ OnHeartbeat(m) \/ OnUnexpected(m)
      <3>1. \A a, b : /\ Empty("ack", ServerSock(1), a).type = "ack"
                      /\ \A r \in Introduce(a, b) : r.type = "bind_reply"
        BY DEF Empty, Introduce, BindReply
      <3>2. \A r \in net' \ net : r.type \in {"ack", "bind_reply"}
        BY <2>2, <3>1, ExchangeFacts DEF OnBindRequest, OnHeartbeat, OnUnexpected
      <3>3. UNCHANGED <<ps_transaction_client_map, introduced, pc>>
        BY <1>2, <2>2, <3>2
           DEF OnBindRequest, OnHeartbeat, OnUnexpected, serverVars,
               ServerReceives, connVars
      <3> QED BY <3>2, <3>3, RegistrationsKept DEF NewlyTold
    <2> QED BY <1>1, <2>1, <2>2 DEF Receive
  <1>5. \A r \in net' \ net : r.type \notin ClientTypes
    <2>1. \A a, b : /\ Empty("ack", a, b).type = "ack"
                    /\ \A r \in Introduce(a, b) : r.type = "bind_reply"
      BY DEF Empty, Introduce, BindReply
    <2>2. \A tr : \A r \in PsIntroduce(tr) : r.type = "ps_bind_reply"
      BY DEF PsIntroduce, PsBindReply
    <2>3. {"ack", "bind_reply", "ps_bind_reply"} \cap ClientTypes = {}
      BY DEF ClientTypes
    <2>4. PICK out :
             /\ Exchange(m, out)
             /\ \A r \in out : r.type \in {"ack", "bind_reply", "ps_bind_reply"}
      <3>1. CASE OnPsBindRequest(m)
        BY <2>1, <2>2, <3>1
           DEF OnPsBindRequest, PsFirstClient, PsFirstClientAgain, PsOtherClient,
               PsAck
      <3>2. CASE OnBindRequest(m) BY <2>1, <3>2 DEF OnBindRequest
      <3>3. CASE OnHeartbeat(m) \/ OnUnexpected(m)
        BY <2>1, <3>3 DEF OnHeartbeat, OnUnexpected
      <3> QED BY <1>1, <3>1, <3>2, <3>3 DEF Receive
    <2>5. \A r \in net' \ net : r \in out BY <2>4, ExchangeFacts
    <2> QED BY <2>3, <2>4, <2>5
  <1>6. introduced \subseteq introduced' BY DEF ServerReceives
  <1>7. HolesOpened' BY <1>2, <1>5 DEF HolesInv, HolesOpened, Addr
  <1>8. OnePeer' BY <1>2 DEF HolesInv, OnePeer
  <1>9. PeersIntroduced' BY <1>2, <1>6 DEF HolesInv, PeersIntroduced
  <1>10. RepliesFirst'
    <2> SUFFICES ASSUME NEW r \in net', r.type = "ps_bind_reply"
                 PROVE  /\ \A s \in net' : /\ s.type = "ps_bind_reply"
                                           /\ s.dst.ip = r.dst.ip
                                           => s = r
                        /\ \A h \in holes : h[1].ip = r.dst.ip => h[2].ip \notin Ips
      BY <1>2 DEF RepliesFirst
    <2>1. PICK c \in Clients : HostOf[c] = r.dst.ip
      BY DEF PInv, RepliesPair, Partners
    <2>2. \A s \in net : s.type = "ps_bind_reply" /\ s.dst.ip = HostOf[c]
                         => c \in introduced
      BY PsConnectorAssumption DEF PInv, RepliesPair, Partners
    <2>3. CASE r \in net
      <3>1. c \in introduced BY <2>1, <2>2, <2>3
      <3>2. ASSUME NEW s \in net', s.type = "ps_bind_reply", s.dst.ip = r.dst.ip
            PROVE  s = r
        <4>1. s \in net BY <1>4, <2>1, <3>1, <3>2 DEF NewlyTold
        <4> QED BY <2>3, <3>2, <4>1 DEF HolesInv, RepliesFirst
      <3> QED BY <2>3, <3>2 DEF HolesInv, RepliesFirst
    <2>4. CASE r \notin net
      <3>1. c \notin introduced BY <1>4, <2>1, <2>4 DEF NewlyTold
      <3>2. ASSUME NEW s \in net', s.type = "ps_bind_reply", s.dst.ip = r.dst.ip
            PROVE  s = r
        <4>1. s \notin net BY <2>1, <2>2, <3>1, <3>2
        <4> QED BY <1>4, <2>4, <3>2, <4>1 DEF NewlyTold
      <3>3. ASSUME NEW h \in holes, h[1].ip = r.dst.ip PROVE h[2].ip \notin Ips
        <4>1. introduced \subseteq Clients BY DEF PInv, TInv, TypeOK
        <4> QED BY <2>1, <3>1, <3>3, <4>1, PsConnectorAssumption
                DEF HolesInv, PeersIntroduced
      <3> QED BY <3>2, <3>3
    <2> QED BY <2>3, <2>4
  <1> QED BY <1>3, <1>4, <1>7, <1>8, <1>9, <1>10 DEF HolesInv

\* A client's registration goes to the server.
LEMMA RequestHoles ==
    ASSUME TInv, HolesInv, Told, NEW c \in Clients, ClientRequests(c)
    PROVE  HolesInv' /\ Told'
  <1>1. PICK k \in Ports, s \in ServerSocks :
           \A r \in net' \ net : r = PsBindRequest(c, k, s)
    BY PortFacts, SockFacts
       DEF ClientRequests, FirstRequest, SecondRequest, Send, Sent, TInv, TypeOK,
           ConnectorTypeOK
  <1>2. /\ PsBindRequest(c, k, s).type = "ps_bind_request"
        /\ PsBindRequest(c, k, s).src = At(c, k)
        /\ PsBindRequest(c, k, s).dst = s
        /\ At(c, k) \in Addr /\ At(c, k).ip = HostOf[c]
    BY ClientFacts, AddrFacts DEF PsBindRequest, WithTid, At
  <1>3. "ps_bind_request" \in ClientTypes BY DEF ClientTypes
  <1>4. s.ip \notin Ips BY SockFacts
  <1>5. Outbound /\ introduced' = introduced BY DEF ClientRequests
  <1>6. HolesInv' BY <1>1, <1>2, <1>3, <1>4, <1>5, NewHoles
  <1>7. /\ state' = state /\ sock' = sock
        /\ pc[c] \in {"start", "second"}
        /\ target' = target \/ target' = [target EXCEPT ![c] = target'[c]]
        /\ result' = result \/ result' = [result EXCEPT ![c] = "connection_error"]
    BY DEF ClientRequests, FirstRequest, SecondRequest, Goto, Return, TInv, TypeOK,
           ConnectorTypeOK
  <1>8. /\ target \in [Clients -> SockAddr]
        /\ result \in [Clients -> Results \cup {"none"}]
        /\ state[c] # "connected"
    BY <1>7 DEF TInv, TypeOK, ConnectorTypeOK, ConnectedReturned
  <1>9. holes \subseteq holes' BY <1>5 DEF Outbound
  <1> QED BY <1>6, <1>7, <1>8, <1>9, OneTold

\* A step of c in which it sends nothing and does not get connected.
LEMMA QuietHoles ==
    ASSUME TInv, HolesInv, Told, NEW c \in Clients, state[c] # "connected",
           net' \subseteq net, Outbound \/ holes' = holes, introduced' = introduced,
           \A d \in Clients \ {c} :
              /\ state'[d] = state[d] /\ target'[d] = target[d]
              /\ sock'[d] = sock[d] /\ result'[d] = result[d],
           state'[c] # "connected",
           result'[c] = result[c] \/ result'[c] # "connection_successful"
    PROVE  HolesInv' /\ Told'
  <1>1. holes' = holes BY DEF Outbound
  <1>2. \A r \in net' : r \in net OBVIOUS
  <1>3. HolesInv' BY <1>1, <1>2, SameHoles
  <1>4. result[c] # "connection_successful"
    BY DEF Told, SuccessTold, Succeeded
  <1> QED BY <1>1, <1>3, <1>4, OneTold

\* How an iteration ends.
LEMMA EndFacts ==
    ASSUME TInv, NEW c \in Clients, NEW s, NEW n, EndIteration(c, s, n)
    PROVE  /\ state'[c] = s
           /\ s # "connected" => \/ result'[c] = result[c]
                                 \/ result'[c] # "connection_successful"
           /\ \A d \in Clients \ {c} :
                 state'[d] = state[d] /\ result'[d] = result[d]
  <1>1. state \in [Clients -> States] /\ result \in [Clients -> Results \cup {"none"}]
    BY DEF TInv, TypeOK, ConnectorTypeOK
  <1>2. /\ state' = [state EXCEPT ![c] = s]
        /\ result' = result \/ result' = [result EXCEPT ![c] = Outcome(s)]
    BY DEF EndIteration, Goto, Return
  <1>3. s # "connected" => Outcome(s) # "connection_successful" BY DEF Outcome
  <1> QED BY <1>1, <1>2, <1>3

\* What has been read is gone, if it is an introduction.
LEMMA ReplyGone ==
    ASSUME ~MayDuplicate, NEW c, NEW m \in net, NEW k, NEW t, NEW old, NEW n,
           HandleResult(c, m, k, t, old, n), m.type = "ps_bind_reply"
    PROVE  m \notin net'
  <1>1. \A j, a : ClientBindRequest(c, j, a).type = "client_bind_request"
    BY DEF ClientBindRequest, WithTid
  <1>2. PICK out : /\ Exchange(m, out)
                   /\ \A r \in out : r.type = "client_bind_request"
    <2>1. CASE HandleError(c, m, k, t, old, n)
      BY <2>1 DEF HandleError, ReceiveFails
    <2>2. CASE Handle(c, m, k, t, old, n)
      <3>1. PICK p : OnPsBindReply(c, m, p, k, t, n)
        BY <2>2 DEF Handle, OnClientBindRequest, OnClientBindResponse, OnAck, OnOther
      <3>2. CASE Idle(c, m, t, n) BY <3>2 DEF Idle
      <3>3. CASE \E a : Punch(c, m, k, t, n, a) \/ PunchFails(c, m, t, a)
        <4>1. \A from, a : \A out \in Punches(c, from, a) :
                 \A r \in out : r.type = "client_bind_request"
          BY <1>1 DEF Punches
        <4> QED BY <3>3, <4>1 DEF Punch, PunchFails
      <3> QED BY <3>1, <3>2, <3>3 DEF OnPsBindReply
    <2> QED BY <2>1, <2>2 DEF HandleResult
  <1> QED BY <1>2, ReadOnce

\* What a client reads at port k, its NAT has let in.
LEMMA HandleHoles ==
    ASSUME PInv, HolesInv, Told, ~MayDuplicate, NoFullCone,
           LenValues \subseteq {"full", "negative"},
           NEW c \in Clients, NEW m \in net, NEW k \in Ports,
           NEW t \in SockAddr, NEW old \in SockAddr, NEW n \in Nat \ {0},
           HandleResult(c, m, k, t, old, n), state[c] # "connected",
           m.dst.ip = HostOf[c], m.dst.port = k, Admits(m),
           introduced' = introduced, Outbound
    PROVE  HolesInv' /\ Told'
  <1>1. TInv BY DEF PInv
  <1>2. PeerAddress(old, m.src) \subseteq {m.src} BY DEF PeerAddress
  <1>3. m.dst = At(c, k) /\ m.src \in SockAddr
    BY <1>1 DEF TInv, TypeOK, ServerTypeOK, Datagram, SockAddr, At
  <1>4. <<m.dst, m.src>> \in holes
    BY PsConnectorAssumption DEF Admits, NoFullCone
  <1>5. /\ sock'[c] = k
        /\ \A d \in Clients \ {c} : target'[d] = target[d] /\ sock'[d] = sock[d]
    <2>1. sock' = [sock EXCEPT ![c] = k]
      BY DEF HandleResult, Handle, HandleError
    <2>2. \E a : target' = [target EXCEPT ![c] = a]
      BY DEF HandleResult, Handle, HandleError, OnPsBindReply, Punch, PunchFails,
             OnClientBindRequest, OnClientBindResponse, OnAck, OnOther, Idle
    <2> QED BY <1>1, <2>1, <2>2 DEF TInv, TypeOK, ConnectorTypeOK
  <1>6. CASE /\ EndIteration(c, state[c], n) \/ EndIteration(c, state[c], n - 1)
             /\ net' \subseteq net
    <2>1. /\ state'[c] = state[c]
          /\ \/ result'[c] = result[c]
             \/ result'[c] # "connection_successful"
          /\ \A d \in Clients \ {c} :
                state'[d] = state[d] /\ result'[d] = result[d]
      BY <1>1, <1>6, EndFacts
    <2> QED BY <1>1, <1>5, <1>6, <2>1, QuietHoles
  <1>7. CASE /\ EndIteration(c, "connected", n)
             /\ target' = [target EXCEPT ![c] = m.src]
             /\ \/ /\ m.type = "client_bind_request"
                   /\ net' \subseteq net \cup {ClientBindResponse(c, k, m.src)}
                \/ /\ m.type = "client_bind_response"
                   /\ net' \subseteq net
    <2>a. \A a : /\ ClientBindResponse(c, k, a).type = "client_bind_response"
                 /\ ClientBindResponse(c, k, a).src = At(c, k)
                 /\ ClientBindResponse(c, k, a).dst = a
      BY DEF ClientBindResponse, WithTid
    <2>b. At(c, k) \in Addr BY <1>3, ClientFacts
    <2>1. /\ ClientBindResponse(c, k, m.src).type = "client_bind_response"
          /\ ClientBindResponse(c, k, m.src).src = m.dst
          /\ ClientBindResponse(c, k, m.src).dst = m.src
          /\ m.dst \in Addr
      BY <1>3, <2>a, <2>b
    <2>2. \A r \in net' \ net : /\ r.src = m.dst /\ r.dst = m.src
                                /\ r.type = "client_bind_response"
      BY <1>7, <2>1
    <2>3. holes' = holes BY <1>4, <2>2 DEF Outbound
    <2>4. HolesInv' BY <1>4, <2>1, <2>2, <2>3, SameHoles
    <2>5. <<m.src, m.dst>> \in holes
      BY <1>7 DEF HolesInv, HolesOpened, ClientTypes
    <2>6. target'[c] = m.src
      BY <1>1, <1>7 DEF TInv, TypeOK, ConnectorTypeOK
    <2>7. /\ state'[c] = "connected"
          /\ \A d \in Clients \ {c} :
                state'[d] = state[d] /\ result'[d] = result[d]
      BY <1>1, <1>7, EndFacts
    <2> QED BY <1>1, <1>3, <1>4, <1>5, <2>3, <2>4, <2>5, <2>6, <2>7, OneTold
  <1>8. CASE /\ m.type = "ps_bind_reply"
             /\ \E a \in SockAddr :
                   /\ a.ip = m.addr_one.ip
                   /\ \A r \in net' \ net :
                         \E j \in Ports : r = ClientBindRequest(c, j, a)
             /\ state' = state
             /\ Goto(c, "punch") \/ Return(c, "connection_failed")
    <2>1. PICK a \in SockAddr :
             \A r \in net' \ net : \E j \in Ports : r = ClientBindRequest(c, j, a)
      BY <1>8
    <2>2. \A j \in Ports :
             /\ ClientBindRequest(c, j, a).type = "client_bind_request"
             /\ ClientBindRequest(c, j, a).src \in Addr
             /\ ClientBindRequest(c, j, a).src.ip = HostOf[c]
             /\ ClientBindRequest(c, j, a).dst = a
      BY ClientFacts DEF ClientBindRequest, WithTid, At
    <2>3. \A r \in net' \ net :
             /\ r.type = "client_bind_request" /\ r.src \in Addr
             /\ r.src.ip = HostOf[c] /\ r.dst = a
      BY <2>1, <2>2
    <2>4. c \in introduced
      BY <1>8, PsConnectorAssumption DEF PInv, RepliesPair, Partners
    <2>5. \A h \in holes : h[1].ip = HostOf[c] => h[2].ip \notin Ips
      BY <1>8 DEF HolesInv, RepliesFirst
    <2>6. m \notin net' BY <1>8, ReplyGone
    <2>7. \A r \in net' : r.type = "ps_bind_reply" => r.dst.ip # HostOf[c]
      <3>1. \A r \in net' : r.type = "ps_bind_reply" => r \in net BY <2>3
      <3> QED BY <1>8, <2>6, <3>1 DEF HolesInv, RepliesFirst
    <2>8. "client_bind_request" \in ClientTypes BY DEF ClientTypes
    <2>9. HolesInv'
      <3>1. \A r \in net' \ net :
               /\ r.type \in ClientTypes /\ r.src \in Addr
               /\ r.src.ip = HostOf[c] /\ r.dst = a
        BY <2>3, <2>8
      <3> HIDE <2>3, <2>8
      <3> QED BY <2>4, <2>5, <2>7, <3>1, NewHoles, Zenon
    <2>10. /\ \A d \in Clients \ {c} : result'[d] = result[d]
           /\ result'[c] = result[c] \/ result'[c] = "connection_failed"
      BY <1>1, <1>8 DEF Goto, Return, TInv, TypeOK, ConnectorTypeOK
    <2>11. holes \subseteq holes' BY DEF Outbound
    <2> QED BY <1>1, <1>5, <1>8, <2>9, <2>10, <2>11, OneTold
  <1> QED BY <1>1, <1>2, <1>6, <1>7, <1>8, HandleFacts

LEMMA HearHoles ==
    ASSUME PInv, HolesInv, Told, ~MayDuplicate, NoFullCone,
           LenValues \subseteq {"full", "negative"},
           NEW c \in Clients, ClientHears(c)
    PROVE  HolesInv' /\ Told'
  <1>1. PICK m \in net : Admits(m) /\ Hear(c, m) BY DEF ClientHears
  <1>2. introduced' = introduced /\ Outbound BY DEF ClientHears
  <1>3. m.dst.ip = HostOf[c] /\ m.dst.port \in Listening(c) BY <1>1 DEF Hear
  <1>4. TInv BY DEF PInv
  <1>5. CASE Acknowledged(c, m) \/ AckError(c, m)
    <2>1. net' \subseteq net
      BY <1>5, ExchangeFacts DEF Acknowledged, AckError, ReceiveFails
    <2>2. /\ UNCHANGED <<sock, target>>
          /\ pc[c] \in {"await_ack", "await_ack2"}
          /\ \/ state' = state
             \/ state' = [state EXCEPT ![c] = "waiting_for_stun_reply"]
          /\ \/ result' = result
             \/ result' = [result EXCEPT ![c] = "connection_error"]
      BY <1>5 DEF Acknowledged, AckError, NoAck, Goto, Return
    <2>3. state[c] # "connected"
      BY <1>4, <2>2 DEF TInv, ConnectedReturned
    <2>4. /\ \A d \in Clients \ {c} :
                /\ state'[d] = state[d] /\ target'[d] = target[d]
                /\ sock'[d] = sock[d] /\ result'[d] = result[d]
          /\ state'[c] # "connected"
          /\ result'[c] = result[c] \/ result'[c] # "connection_successful"
      BY <1>4, <2>2, <2>3 DEF TInv, TypeOK, ConnectorTypeOK
    <2> QED BY <1>2, <1>4, <2>1, <2>3, <2>4, QuietHoles
  <1>6. CASE Loop(c, m) \/ PunchSucceeds(c, m)
    <2>1. PICK k \in Ports, t \in SockAddr, old \in SockAddr, n \in Nat \ {0} :
             HandleResult(c, m, k, t, old, n) /\ k = m.dst.port
      BY <1>3, <1>4, <1>6, Iterates
    <2>2. state[c] # "connected" BY <1>3, <1>4, <1>6, Iterates
    <2> QED BY <1>1, <1>2, <1>3, <2>1, <2>2, HandleHoles
  <1> QED BY <1>1, <1>5, <1>6 DEF Hear

LEMMA TimeoutHoles ==
    ASSUME TInv, HolesInv, Told, NEW c \in Clients, ClientTimesOut(c)
    PROVE  HolesInv' /\ Told'
  <1>1. /\ UNCHANGED <<introduced, holes, net, target, sock>>
        /\ pc[c] # "returned"
    BY DEF ClientTimesOut, Timeout, AckTimeout, NoAck, LoopTimeout, PunchTimeout
  <1>2. state[c] # "connected" BY <1>1 DEF TInv, ConnectedReturned
  <1>3. /\ state'[c] = state[c]
        /\ result'[c] = result[c] \/ result'[c] # "connection_successful"
        /\ \A d \in Clients \ {c} :
              state'[d] = state[d] /\ result'[d] = result[d]
    <2>1. CASE LoopTimeout(c)
      BY <1>2, <2>1, EndFacts DEF LoopTimeout
    <2>2. CASE AckTimeout(c) \/ PunchTimeout(c)
      <3>1. /\ state' = state
            /\ \E r \in {"connection_error", "connection_failed"} :
                  result' = [result EXCEPT ![c] = r]
        BY <2>2 DEF AckTimeout, NoAck, PunchTimeout, Return
      <3> QED BY <3>1 DEF TInv, TypeOK, ConnectorTypeOK
    <2> QED BY <2>1, <2>2 DEF ClientTimesOut, Timeout
  <1> QED BY <1>1, <1>2, <1>3, QuietHoles

\* No step but the client's own first requests takes it through them.
LEMMA PhaseFacts ==
    ASSUME TInv, NEW c \in Clients, ClientHears(c) \/ ClientTimesOut(c)
    PROVE  /\ UNCHANGED <<ps_transaction_client_map, introduced>>
           /\ \A r \in net' \ net : r.type # "ps_bind_request"
           /\ \A d \in Clients :
                 /\ pc'[d] = "start" => pc[d] = "start"
                 /\ pc'[d] \in {"start", "await_ack", "second"} =>
                       pc[d] \in {"start", "await_ack", "second"}
  <1>1. UNCHANGED <<ps_transaction_client_map, introduced>>
    BY DEF ClientHears, ClientTimesOut, serverVars
  <1>2. pc \in [Clients -> Pcs] BY DEF TInv, TypeOK, ConnectorTypeOK
  <1>3. ASSUME NEW w, pc' = [pc EXCEPT ![c] = w],
               w \notin {"start", "await_ack"},
               w = "second" => pc[c] = "await_ack"
        PROVE  \A d \in Clients :
                  /\ pc'[d] = "start" => pc[d] = "start"
                  /\ pc'[d] \in {"start", "await_ack", "second"} =>
                        pc[d] \in {"start", "await_ack", "second"}
    BY <1>2, <1>3
  <1>4. CASE ClientTimesOut(c)
    <2>1. net' = net
      BY <1>4 DEF ClientTimesOut, Timeout, AckTimeout, LoopTimeout, PunchTimeout
    <2>2. \E w \in {"returned", "loop"} : pc' = [pc EXCEPT ![c] = w]
      BY <1>4 DEF ClientTimesOut, Timeout, AckTimeout, NoAck, LoopTimeout,
                  PunchTimeout, EndIteration, Goto, Return
    <2> QED BY <1>1, <1>3, <2>1, <2>2
  <1>5. CASE ClientHears(c)
    <2>1. PICK m \in net : Hear(c, m) BY <1>5 DEF ClientHears
    <2>2. CASE Acknowledged(c, m) \/ AckError(c, m)
      <3>1. \A r \in net' : r \in net
        BY <2>2, ExchangeFacts DEF Acknowledged, AckError, ReceiveFails
      <3>2. \/ pc[c] = "await_ack" /\ pc' = [pc EXCEPT ![c] = "second"]
            \/ \E w \in {"returned", "loop"} : pc' = [pc EXCEPT ![c] = w]
        BY <2>2 DEF Acknowledged, AckError, NoAck, Goto, Return
      <3> QED BY <1>1, <1>3, <3>1, <3>2
    <2>3. CASE Loop(c, m) \/ PunchSucceeds(c, m)
      <3>1. m.dst.port \in Listening(c) BY <2>1 DEF Hear
      <3>2. PICK k \in Ports, t \in SockAddr, old \in SockAddr, n \in Nat \ {0} :
               HandleResult(c, m, k, t, old, n)
        BY <2>3, <3>1, Iterates
      <3>3. \A j, a : /\ ClientBindRequest(c, j, a).type = "client_bind_request"
                      /\ ClientBindResponse(c, j, a).type = "client_bind_response"
        BY DEF ClientBindRequest, ClientBindResponse, WithTid
      <3>4. /\ \A r \in net' \ net : r.type # "ps_bind_request"
            /\ \/ \E s, i : EndIteration(c, s, i)
               \/ Goto(c, "punch") \/ Return(c, "connection_failed")
        BY <3>2, <3>3, HandleFacts
      <3>5. \E w \in {"returned", "loop", "punch"} : pc' = [pc EXCEPT ![c] = w]
        BY <3>4 DEF EndIteration, Goto, Return
      <3> QED BY <1>1, <1>3, <3>4, <3>5
    <2> QED BY <2>1, <2>2, <2>3 DEF Hear
  <1> QED BY <1>4, <1>5

LEMMA SocketsInit ==
    ASSUME Init
    PROVE  SInv
  <1>1. net = {} /\ holes = {} /\ introduced = {}
        /\ DOMAIN ps_transaction_client_map = {}
    BY DEF Init, ServerInit, NatInit, EmptyMap
  <1>2. \A c \in Clients : state[c] # "connected" /\ ~Succeeded(c)
    BY DEF Init, ConnectorInit, Succeeded
  <1> QED BY <1>1, <1>2, PairsInit
          DEF SInv, RegistersOnce, RegistrationsSpent, HolesInv, HolesOpened,
              OnePeer, PeersIntroduced, RepliesFirst, Told, BothWays, SuccessTold

LEMMA SocketsStep ==
    ASSUME SInv, [Next]_vars, ~MayDuplicate, NoFullCone,
           LenValues \subseteq {"full", "negative"}
    PROVE  SInv'
  <1> USE DEF SInv
  <1>1. PInv' BY PairsStep
  <1>2. TInv BY DEF PInv
  <1>3. CASE ServerReceives BY <1>1, <1>3, ServerHoles
  <1>4. CASE Loses \/ Filters \/ UNCHANGED vars
    <2>1. /\ net' \subseteq net
          /\ UNCHANGED <<ps_transaction_client_map, introduced, holes, connVars>>
      BY <1>4 DEF Loses, Lose, Filters, Filter, vars, serverVars
    <2>2. \A r \in net' : r \in net BY <2>1
    <2>3. HolesInv' BY <2>1, <2>2, SameHoles
    <2>4. RegistersOnce' /\ RegistrationsSpent'
      BY <2>1, <2>2, RegistrationsKept DEF connVars
    <2>5. Told'
      BY <2>1 DEF connVars, Told, BothWays, SuccessTold, Succeeded, Socket, At
    <2> QED BY <1>1, <2>3, <2>4, <2>5
  <1>5. ASSUME NEW c \in Clients, ClientRequests(c) PROVE SInv'
    BY <1>1, <1>2, <1>5, RequestHoles, RegistrationSent
  <1>6. ASSUME NEW c \in Clients, ClientHears(c) PROVE SInv'
    <2>1. HolesInv' /\ Told' BY <1>6, HearHoles
    <2>2. RegistersOnce' /\ RegistrationsSpent'
      BY <1>2, <1>6, PhaseFacts, RegistrationsKept
    <2> QED BY <1>1, <2>1, <2>2
  <1>7. ASSUME NEW c \in Clients, ClientTimesOut(c) PROVE SInv'
    <2>1. HolesInv' /\ Told' BY <1>2, <1>7, TimeoutHoles
    <2>2. RegistersOnce' /\ RegistrationsSpent'
      BY <1>2, <1>7, PhaseFacts, RegistrationsKept
    <2> QED BY <1>1, <2>1, <2>2
  <1>8. CASE ServerAlone
    <2>1. UNCHANGED <<net, holes, introduced, connVars>>
      BY <1>8, ServerAloneFacts
    <2>2. HolesInv' BY <2>1, SameHoles
    <2>3. RegistersOnce' BY <2>1 DEF RegistersOnce, connVars
    <2>4. RegistrationsSpent'
      <3>1. CASE ps_transaction_client_map' = ps_transaction_client_map
        BY <2>1, <3>1, RegistrationsKept DEF connVars
      <3>2. CASE DOMAIN ps_transaction_client_map' = {}
        <4>1. \A c \in Clients : Awaited(c)' = Awaited(c)
          BY <2>1 DEF Awaited, connVars
        <4> QED BY <2>1, <3>2, <4>1 DEF RegistrationsSpent
      <3> QED BY <1>8, <3>1, <3>2, ServerAloneFacts
    <2>5. Told'
      BY <2>1 DEF connVars, Told, BothWays, SuccessTold, Succeeded, Socket, At
    <2> QED BY <1>1, <2>2, <2>3, <2>4, <2>5
  <1> QED BY <1>3, <1>4, <1>5, <1>6, <1>7, <1>8 DEF Next, ServerAlone

\* Of all the sockets that two partners punched with, both are left with the
\* same pair (p2p_ps_connector.h:237-259 and 345-396, SocketsMatch), for any
\* clients, predictions and scan ranges, whatever is lost or late, if
\*   - no NAT lets in what its client did not send to: the run PsMismatch
\*     shows what a full-cone NAT does;
\*   - the network does not duplicate: a client would punch twice;
\*   - no more than two clients use a transaction id; and
\*   - a sender's address is copied whole or not at all.
THEOREM SamePairLeft ==
    ASSUME NoFullCone, ~MayDuplicate, InTwos,
           LenValues \subseteq {"full", "negative"}
    PROVE  Spec => []SocketsMatch
  <1>1. Init => SInv BY SocketsInit
  <1>2. SInv /\ [Next]_vars => SInv' BY SocketsStep
  <1>3. SInv => SocketsMatch
    <2> SUFFICES ASSUME SInv, NEW c \in Clients, NEW d \in Clients, c # d,
                        TidOf[c] = TidOf[d], Succeeded(c), Succeeded(d)
                 PROVE  target[c] = Socket(d)
      BY DEF SocketsMatch
    <2>1. state[c] = "connected" /\ state[d] = "connected"
      BY DEF SInv, Told, SuccessTold
    <2>2. ASSUME NEW x \in {c, d}
          PROVE  \E y \in {c, d} \ {x} : target[x].ip = HostOf[y]
      <3>1. PICK e, y \in Clients : /\ e # y /\ TidOf[e] = TidOf[y]
                                    /\ HostOf[e] = HostOf[x]
                                    /\ HostOf[y] = target[x].ip
        BY <2>1 DEF SInv, PInv, ConnectedPair, Partners
      <3>2. e = x BY <3>1, PsConnectorAssumption
      <3>3. y \in {c, d} BY <3>1, <3>2 DEF InTwos
      <3> QED BY <3>1, <3>2, <3>3
    <2>3. target[c].ip = HostOf[d] /\ target[d].ip = HostOf[c] BY <2>2
    <2>4. /\ <<Socket(c), target[c]>> \in holes
          /\ <<target[d], Socket(d)>> \in holes
      BY <2>1 DEF SInv, Told, BothWays
    <2>5. Socket(c).ip = HostOf[c] /\ Socket(d).ip = HostOf[d]
      BY DEF Socket, At
    <2>6. HostOf[d] \in Ips BY PsConnectorAssumption
    <2> QED BY <2>3, <2>4, <2>5, <2>6 DEF SInv, HolesInv, OnePeer
  <1> QED BY <1>1, <1>2, <1>3, PTL DEF Spec
----------------------------------------------------------------------------
(* Both or neither                                                         *)

\* Nothing fails, nothing gets lost, and timeouts come late; the server
\* does not end, and forgets no transaction for its age.
Faultless ==
    /\ Prompt
    /\ ~ServerMayStop /\ MaxTime <= Expiry
    /\ ~MayLose /\ ~MayDuplicate
    /\ ~CallsMayFail
    /\ LenValues \subseteq {"full"}

\* The port of a client's second registration, and the host whose client has
\* sent nothing to another host yet.
SecondPort(c) == IF Sym[c] THEN HelperPort ELSE MainPort
NoPeer(ip) == \A h \in holes : h[1].ip = ip => h[2].ip \notin Ips
First(c) == PsBindRequest(c, MainPort, ServerSock(1))
Second(c) == PsBindRequest(c, SecondPort(c), ServerSock(2))
SecondAck(c) == Empty("ack", ServerSock(2), At(c, SecondPort(c)))

\* The traffic of the port-scanning connector, and a server that never ends or
\* forgets.
PsTypes == {"ps_bind_request", "ack", "ps_bind_reply",
            "client_bind_request", "client_bind_response"}
OnlyPs ==
    \A m \in net :
        /\ m.type \in PsTypes
        /\ m.type = "ps_bind_request" =>
              \E c \in Clients : m \in {First(c), Second(c)}
ServerSteady == running /\ now <= Expiry

\* An ack answers a registration that has arrived; a client is past its
\* first only when that has.
AcksAnswer ==
    \A m \in net : m.type = "ack" =>
        /\ m.src \in ServerSocks
        /\ \A c \in Clients : HostOf[c] = m.dst.ip => m.src \notin Awaited(c)
FirstArrived ==
    \A c \in Clients : pc[c] \notin {"start", "await_ack"} =>
        ServerSock(1) \notin Awaited(c)

\* The server has a client's base socket from its first registration on,
\* until it introduces it; the introduction goes to that socket.
HasMain(tr, c) == At(c, MainPort) \in {tr.cl1_sk1, tr.cl2_sk1}
MainOnly(tr) ==
    \A c \in Clients :
        /\ tr.cl1_sk1.ip = HostOf[c] => tr.cl1_sk1 = At(c, MainPort)
        /\ tr.cl2_sk1.ip = HostOf[c] => tr.cl2_sk1 = At(c, MainPort)
Registered(c) ==
    /\ TidOf[c] \in DOMAIN ps_transaction_client_map
    /\ HasMain(ps_transaction_client_map[TidOf[c]], c)
AllRegistered ==
    \A c \in Clients :
        ServerSock(1) \notin Awaited(c) /\ c \notin introduced => Registered(c)
MainFirst ==
    \A t \in DOMAIN ps_transaction_client_map :
        MainOnly(ps_transaction_client_map[t])
ReplyAtMain ==
    \A m \in net : m.type = "ps_bind_reply" =>
        /\ m.src = ServerSock(1)
        /\ \A c \in Clients : HostOf[c] = m.dst.ip => m.dst = At(c, MainPort)

\* What a client waits for from the server gets through its NAT, and is on
\* its way; scan sockets are only for the peer.
ServerHolesOpen ==
    \A c \in Clients :
        /\ pc[c] # "start" => <<At(c, MainPort), ServerSock(1)>> \in holes
        /\ pc[c] = "await_ack2" =>
              <<At(c, SecondPort(c)), ServerSock(2)>> \in holes
ScanHoles ==
    \A h \in holes : \A c \in Clients :
        h[1].ip = HostOf[c] /\ h[1].port \in ScanPorts => h[2].ip \in Ips
AckComes ==
    \A c \in Clients : pc[c] = "await_ack2" =>
        {Second(c), SecondAck(c)} \cap net # {}

\* Before the punch every client has its base socket.
SockMain ==
    \A c \in Clients : ~Sym[c] \/ NoPeer(HostOf[c]) => sock[c] = MainPort
PunchHole == \A c \in Clients : pc[c] = "punch" => ~NoPeer(HostOf[c])

ServerInv ==
    /\ OnlyPs
    /\ ServerSteady
    /\ AcksAnswer
    /\ AllRegistered
    /\ MainFirst
    /\ ReplyAtMain
ClientInv ==
    /\ FirstArrived
    /\ ServerHolesOpen
    /\ ScanHoles
    /\ AckComes
    /\ SockMain
    /\ PunchHole

\* Client c has punched from port s towards a and waits for an answer.
Awaits(c, s, a) ==
    \/ pc[c] = "punch" /\ Sym[c] /\ s \in ScanPorts /\ scan_target[c] = a
    \/ pc[c] \in {"punch", "loop"} /\ ~Sym[c] /\ s = MainPort /\ target[c] = a

\* Partners have holes for each other only, and name their transaction; who
\* answers is connected, and connect tells who is.
HolesPair == \A h \in holes : h[2].ip \in Ips => Partners(h[1].ip, h[2].ip)
TidsAgree ==
    \A m \in net : m.type = "client_bind_request" =>
        \A c \in Clients : HostOf[c] = m.dst.ip => m.tid = TidOf[c]
AnswerIsConnected ==
    \A m \in net : m.type = "client_bind_response" =>
        \A c \in Clients : HostOf[c] = m.src.ip => state[c] = "connected"
ConnectedTold == \A c \in Clients : state[c] = "connected" => Succeeded(c)

\* A client whose partner may still punch is waiting for it.
ReplyComes(d) ==
    /\ pc[d] # "returned"
    /\ \E m \in net : m.type = "ps_bind_reply" /\ m.dst.ip = HostOf[d]
WaitsFor ==
    \A c, d \in Clients : \A s, r \in Ports :
        <<At(c, s), At(d, r)>> \in holes /\ ReplyComes(d)
        => Awaits(c, s, At(d, r))

\* Two sockets whose NATs let each other in meet: their clients are waiting
\* or connected; while both wait, a request is on its way, and while one
\* does, the other's answer is.
Open(c, s, d, r) ==
    /\ <<At(c, s), At(d, r)>> \in holes
    /\ <<At(d, r), At(c, s)>> \in holes
Meets(c, s, d, r) ==
    /\ Awaits(c, s, At(d, r)) \/ state[c] = "connected"
    /\ Awaits(c, s, At(d, r)) /\ Awaits(d, r, At(c, s)) =>
          \/ ClientBindRequest(c, s, At(d, r)) \in net
          \/ ClientBindRequest(d, r, At(c, s)) \in net
    /\ Awaits(c, s, At(d, r)) /\ state[d] = "connected" =>
          ClientBindResponse(d, r, At(c, s)) \in net
AllMeet ==
    \A c, d \in Clients : \A s, r \in Ports :
        Open(c, s, d, r) => Meets(c, s, d, r)

MeetInv ==
    /\ HolesPair
    /\ TidsAgree
    /\ AnswerIsConnected
    /\ ConnectedTold
    /\ WaitsFor
    /\ AllMeet
AInv == SInv /\ ServerInv /\ ClientInv /\ MeetInv

\* Whose address an address is.
LEMMA AtFacts ==
    /\ \A c \in Clients : HostOf[c] \in Ips
    /\ \A c, d \in Clients : HostOf[c] = HostOf[d] => c = d
    /\ \A c : \A k : At(c, k).ip = HostOf[c] /\ At(c, k).port = k
    /\ \A c : \A k : At(c, k)' = At(c, k)
    /\ \A s \in ServerSocks : s.ip \notin Ips
    /\ \A c \in Clients : \A k : At(c, k) \notin ServerSocks
    /\ ServerSock(1)' = ServerSock(1) /\ ServerSock(2)' = ServerSock(2)
    /\ ServerSocks' = ServerSocks
  <1>1. /\ \A c \in Clients : HostOf[c] \in Ips
        /\ \A c, d \in Clients : HostOf[c] = HostOf[d] => c = d
    BY PsConnectorAssumption
  <1>2. \A c : \A k : At(c, k).ip = HostOf[c] /\ At(c, k).port = k
    BY DEF At
  <1>3. \A s \in ServerSocks : s.ip \notin Ips BY SockFacts
  <1>4. \A c \in Clients : \A k : At(c, k) \notin ServerSocks
    BY <1>1, <1>2, <1>3
  <1>5. /\ ServerSock(1)' = ServerSock(1) /\ ServerSock(2)' = ServerSock(2)
        /\ ServerSocks' = ServerSocks
    BY DEF ServerSock, ServerSocks
  <1>6. \A c : \A k : At(c, k)' = At(c, k) BY DEF At
  <1> QED BY <1>1, <1>2, <1>3, <1>4, <1>5, <1>6

\* The registrations of the clients, and their datagrams to each other.
LEMMA RegistrationFacts ==
    ASSUME NEW c
    PROVE  /\ First(c).type = "ps_bind_request"
           /\ First(c).src = At(c, MainPort) /\ First(c).dst = ServerSock(1)
           /\ First(c).tid = TidOf[c]
           /\ Second(c).type = "ps_bind_request"
           /\ Second(c).src = At(c, SecondPort(c))
           /\ Second(c).dst = ServerSock(2) /\ Second(c).tid = TidOf[c]
           /\ SecondAck(c).type = "ack" /\ SecondAck(c).src = ServerSock(2)
           /\ SecondAck(c).dst = At(c, SecondPort(c))
           /\ First(c)' = First(c) /\ Second(c)' = Second(c)
           /\ SecondAck(c)' = SecondAck(c)
BY DEF First, Second, SecondAck, PsBindRequest, WithTid, Empty, At, ServerSock,
       SecondPort

\* The clients' datagrams to each other.
LEMMA MessageFacts ==
    ASSUME NEW c, NEW k, NEW a
    PROVE  /\ ClientBindRequest(c, k, a).type = "client_bind_request"
           /\ ClientBindRequest(c, k, a).src = At(c, k)
           /\ ClientBindRequest(c, k, a).dst = a
           /\ ClientBindRequest(c, k, a).tid = TidOf[c]
           /\ ClientBindResponse(c, k, a).type = "client_bind_response"
           /\ ClientBindResponse(c, k, a).src = At(c, k)
           /\ ClientBindResponse(c, k, a).dst = a
           /\ ClientBindRequest(c, k, a)' = ClientBindRequest(c, k, a)
           /\ ClientBindResponse(c, k, a)' = ClientBindResponse(c, k, a)
BY DEF ClientBindRequest, ClientBindResponse, WithTid, At

\* What a network and sockets without faults do.
LEMMA FaultlessFacts ==
    ASSUME Faultless
    PROVE  /\ \A m, out : Exchange(m, out) => net' = (net \ {m}) \cup out
           /\ SendResults = {TRUE}
           /\ \A m : ~ReceiveFails(m)
           /\ \A m : Sent(TRUE, m) = {m}
           /\ \A old, src : PeerAddress(old, src) \subseteq {src}
           /\ LenValues \subseteq {"full", "negative"}
  <1>1. \A old, src : PeerAddress(old, src) \subseteq {src}
    <2>1. "port" \notin LenValues /\ "none" \notin LenValues BY DEF Faultless
    <2> QED BY <2>1 DEF PeerAddress
  <1> QED BY <1>1 DEF Faultless, Exchange, SendResults, ReceiveFails, Sent

\* An answer is sent in place of what is answered.
LEMMA AnswerFacts ==
    ASSUME Faultless, NEW m, NEW r,
           \E ok \in SendResults : Exchange(m, Sent(ok, r))
    PROVE  net' = (net \ {m}) \cup {r}
  <1>1. Exchange(m, Sent(TRUE, r)) BY FaultlessFacts
  <1>2. Sent(TRUE, r) = {r} BY FaultlessFacts
  <1> QED BY <1>1, <1>2, FaultlessFacts

----------------------------------------------------------------------------
(* The steps of a client, when nothing fails                               *)

OthersStay(c) ==
    \A d \in Clients \ {c} :
        /\ pc'[d] = pc[d]
        /\ state'[d] = state[d]
        /\ sock'[d] = sock[d]
        /\ target'[d] = target[d]
        /\ scan_target'[d] = scan_target[d]
        /\ result'[d] = result[d]

\* The clients are the domain of what they keep.
LEMMA Domains ==
    ASSUME TInv
    PROVE  /\ DOMAIN pc = Clients /\ DOMAIN state = Clients
           /\ DOMAIN attempts_left = Clients /\ DOMAIN sock = Clients
           /\ DOMAIN target = Clients /\ DOMAIN scan_target = Clients
           /\ DOMAIN result = Clients
BY DEF TInv, TypeOK, ConnectorTypeOK

\* Before its second registration nothing is known of a client.
LEMMA NotIntroduced ==
    ASSUME SInv, NEW c \in Clients, Awaited(c) # {}
    PROVE  /\ c \notin introduced
           /\ NoPeer(HostOf[c])
           /\ \A m \in net : m.type = "ps_bind_reply" => m.dst.ip # HostOf[c]
  <1>1. c \notin introduced BY DEF SInv, RegistrationsSpent
  <1>2. introduced \subseteq Clients BY DEF SInv, PInv, TInv, TypeOK
  <1>3. NoPeer(HostOf[c])
    BY <1>1, <1>2, AtFacts DEF NoPeer, SInv, HolesInv, PeersIntroduced
  <1>4. ASSUME NEW m \in net, m.type = "ps_bind_reply", m.dst.ip = HostOf[c]
        PROVE  FALSE
    BY <1>1, <1>4, AtFacts DEF SInv, PInv, RepliesPair, Partners
  <1> QED BY <1>1, <1>3, <1>4

\* A client that has not sent its second registration is awaited.
LEMMA EarlyAwaited ==
    ASSUME NEW c \in Clients, pc[c] \in {"start", "await_ack", "second"}
    PROVE  ServerSock(2) \in Awaited(c) /\ Awaited(c) # {}
BY SockFacts DEF Awaited

\* The two registrations.
LEMMA RequestCases ==
    ASSUME SInv, SockMain, Faultless, NEW c \in Clients, ClientRequests(c)
    PROVE  /\ OthersStay(c)
           /\ UNCHANGED <<state, sock, scan_target, result>>
           /\ \/ /\ pc[c] = "start" /\ pc'[c] = "await_ack"
                 /\ net' = net \cup {First(c)}
              \/ /\ pc[c] = "second" /\ pc'[c] = "await_ack2"
                 /\ net' = net \cup {Second(c)}
  <1>1. TInv BY DEF SInv, PInv
  <1>2. sock[c] = MainPort
    <2>1. pc[c] \in {"start", "second"}
      BY DEF ClientRequests, FirstRequest, SecondRequest
    <2>2. NoPeer(HostOf[c]) BY <2>1, EarlyAwaited, NotIntroduced
    <2> QED BY <2>2, Zenon DEF SockMain
  <1>3. CASE FirstRequest(c)
    <2>1. /\ pc[c] = "start"
          /\ UNCHANGED <<state, sock, scan_target>>
          /\ \E ok \in SendResults :
                /\ Send(Sent(ok, PsBindRequest(c, sock[c], ServerSock(1))))
                /\ IF ok THEN Goto(c, "await_ack")
                   ELSE Return(c, "connection_error")
          /\ target' = [target EXCEPT ![c] = ServerSock(1)]
      BY <1>3 DEF FirstRequest
    <2>2. First(c) = PsBindRequest(c, sock[c], ServerSock(1))
      BY <1>2, <2>1 DEF First
    <2>3. Send(Sent(TRUE, First(c))) /\ Goto(c, "await_ack")
      <3>1. PICK ok \in SendResults :
               /\ Send(Sent(ok, First(c)))
               /\ IF ok THEN Goto(c, "await_ack")
                  ELSE Return(c, "connection_error")
        BY <2>1, <2>2, Zenon
      <3>2. ok = TRUE BY FaultlessFacts
      <3> QED BY <3>1, <3>2, Zenon
    <2>4. net' = net \cup {First(c)} BY <2>3, FaultlessFacts DEF Send
    <2> QED BY <1>1, <2>1, <2>3, <2>4, Domains DEF OthersStay, Goto
  <1>4. CASE SecondRequest(c)
    <2>1. /\ pc[c] = "second"
          /\ UNCHANGED <<state, sock, scan_target>>
          /\ \E ok \in SendResults :
                /\ Send(Sent(ok, PsBindRequest(c,
                            IF Sym[c] THEN HelperPort ELSE sock[c],
                            ServerSock(2))))
                /\ IF ok THEN Goto(c, "await_ack2")
                   ELSE Return(c, "connection_error")
          /\ \/ target' = target
             \/ target' = [target EXCEPT ![c] = ServerSock(2)]
      BY <1>4 DEF SecondRequest
    <2>2. Second(c) = PsBindRequest(c, IF Sym[c] THEN HelperPort ELSE sock[c],
                                    ServerSock(2))
      BY <1>2, <2>1 DEF Second, SecondPort
    <2>3. Send(Sent(TRUE, Second(c))) /\ Goto(c, "await_ack2")
      <3>1. PICK ok \in SendResults :
               /\ Send(Sent(ok, Second(c)))
               /\ IF ok THEN Goto(c, "await_ack2")
                  ELSE Return(c, "connection_error")
        BY <2>1, <2>2, Zenon
      <3>2. ok = TRUE BY FaultlessFacts
      <3> QED BY <3>1, <3>2, Zenon
    <2>4. net' = net \cup {Second(c)} BY <2>3, FaultlessFacts DEF Send
    <2> QED BY <1>1, <2>1, <2>3, <2>4, Domains DEF OthersStay, Goto
  <1> QED BY <1>3, <1>4 DEF ClientRequests

\* What passes for an ack.
LEMMA AckedCases ==
    ASSUME TInv, Faultless, NEW c \in Clients, NEW m, Acknowledged(c, m)
    PROVE  /\ OthersStay(c)
           /\ UNCHANGED <<sock, target, scan_target, result>>
           /\ net' = net \ {m}
           /\ \/ /\ pc[c] = "await_ack" /\ pc'[c] = "second"
                 /\ state' = state
              \/ /\ pc[c] = "await_ack2" /\ pc'[c] = "loop"
                 /\ state'[c] = "waiting_for_stun_reply"
  <1>1. net' = net \ {m} BY FaultlessFacts DEF Acknowledged
  <1> QED BY <1>1, Domains DEF Acknowledged, OthersStay, Goto

\* Timeouts.
LEMMA TimeoutCases ==
    ASSUME TInv, Faultless, NEW c \in Clients, ClientTimesOut(c)
    PROVE  /\ NobodyListens
           /\ OthersStay(c)
           /\ UNCHANGED <<sock, target, scan_target, net, holes>>
           /\ state'[c] = state[c] /\ state[c] # "connected"
           /\ \/ pc[c] \in {"await_ack", "await_ack2", "punch"} /\ pc'[c] = "returned"
              \/ pc[c] = "loop" /\ pc'[c] \in {"loop", "returned"}
  <1>1. NobodyListens /\ holes' = holes BY DEF ClientTimesOut, Faultless
  <1>2. CASE AckTimeout(c)
    BY <1>1, <1>2, Domains
       DEF AckTimeout, NoAck, Return, OthersStay, TInv, ConnectedReturned
  <1>3. CASE PunchTimeout(c)
    BY <1>1, <1>3, Domains
       DEF PunchTimeout, Return, OthersStay, TInv, ConnectedReturned
  <1>4. CASE LoopTimeout(c)
    <2>1. /\ pc[c] = "loop"
          /\ EndIteration(c, state[c], UseOne(attempts_left[c]))
          /\ UNCHANGED <<sock, target, scan_target, net>>
      BY <1>4 DEF LoopTimeout
    <2>2. state[c] # "connected" BY <2>1 DEF TInv, ConnectedReturned
    <2> QED BY <1>1, <2>1, <2>2, Domains
            DEF EndIteration, Goto, Return, OthersStay
  <1> QED BY <1>2, <1>3, <1>4 DEF ClientTimesOut, Timeout

\* The target that an iteration begins with, and the ports of a punch.
CurrentTarget(c) ==
    IF pc[c] = "punch" /\ Sym[c] THEN scan_target[c] ELSE target[c]
Sources(c, m) == IF Sym[c] THEN ScanPorts ELSE {m.dst.port}

\* What becomes of a client that hears m in the loop or after the punch: it
\* goes on; it is connected; or it is introduced, and gives up or punches.
GoesOn(c, m) ==
    /\ \/ m.type = "ack"
       \/ m.type = "client_bind_response" /\ m.src # CurrentTarget(c)
    /\ pc'[c] = "loop" /\ state'[c] = state[c]
    /\ target'[c] = CurrentTarget(c) /\ scan_target'[c] = scan_target[c]
    /\ net' = net \ {m}
Connects(c, m) ==
    /\ pc'[c] = "returned" /\ state'[c] = "connected" /\ Succeeded(c)'
    /\ \/ /\ m.type = "client_bind_request"
          /\ net' = (net \ {m}) \cup {ClientBindResponse(c, m.dst.port, m.src)}
       \/ /\ m.type = "client_bind_response" /\ m.src = CurrentTarget(c)
          /\ net' = net \ {m}
GivesUp(c, m) ==
    /\ m.type = "ps_bind_reply"
    /\ pc'[c] = "returned" /\ state'[c] = state[c]
    /\ net' = net \ {m}
PunchesTo(c, m, a) ==
    /\ m.type = "ps_bind_reply"
    /\ a.ip = m.addr_one.ip
    /\ pc'[c] = "punch" /\ state'[c] = state[c]
    /\ \A k \in Sources(c, m) : ClientBindRequest(c, k, a) \in net'
    /\ net \ {m} \subseteq net'
    /\ \A r \in net' : r \in net \ {m} \/
          \E k \in Sources(c, m) : r = ClientBindRequest(c, k, a)
    /\ IF Sym[c] THEN scan_target'[c] = a ELSE target'[c] = a

\* How an iteration of the loop ends.
LEMMA EndCases ==
    ASSUME TInv, NEW c \in Clients, NEW s, NEW n, EndIteration(c, s, n)
    PROVE  /\ state'[c] = s
           /\ s = "connected" => pc'[c] = "returned" /\ Succeeded(c)'
           /\ s # "connected" /\ n # 0 => pc'[c] = "loop"
           /\ \A d \in Clients \ {c} :
                 pc'[d] = pc[d] /\ state'[d] = state[d] /\ result'[d] = result[d]
BY Domains DEF EndIteration, Goto, Return, Outcome, Succeeded

\* The iteration that reads m has m's port and the current target.
LEMMA IteratesAt ==
    ASSUME TInv, NEW c \in Clients, NEW m \in net,
           Loop(c, m) \/ PunchSucceeds(c, m), m.dst.port \in Listening(c)
    PROVE  /\ state[c] # "connected"
           /\ pc[c] \in {"loop", "punch"}
           /\ \E old, n : /\ n # 0
                          /\ HandleResult(c, m, m.dst.port, CurrentTarget(c), old, n)
  <1>1. state[c] # "connected" /\ pc[c] \in {"loop", "punch"}
    BY DEF TInv, ConnectedReturned, Loop, PunchSucceeds
  <1>2. CASE Loop(c, m)
    <2>1. /\ pc[c] = "loop" /\ attempts_left[c] # 0
          /\ m.dst.port = sock[c]
      BY <1>2 DEF TInv, Budget, Loop, Listening
    <2>2. CurrentTarget(c) = target[c] BY <2>1 DEF CurrentTarget
    <2> QED BY <1>1, <1>2, <2>1, <2>2 DEF Loop
  <1>3. CASE PunchSucceeds(c, m)
    <2>1. pc[c] = "punch" /\ 1 # 0 BY <1>3 DEF PunchSucceeds
    <2>2. CASE Sym[c]
      <3>1. CurrentTarget(c) = scan_target[c] BY <2>1, <2>2 DEF CurrentTarget
      <3> QED BY <1>1, <1>3, <2>1, <2>2, <3>1 DEF PunchSucceeds
    <2>3. CASE ~Sym[c]
      <3>1. CurrentTarget(c) = target[c] BY <2>3 DEF CurrentTarget
      <3>2. m.dst.port = sock[c] BY <2>1, <2>3 DEF Listening
      <3> QED BY <1>1, <1>3, <2>1, <2>3, <3>1, <3>2 DEF PunchSucceeds
    <2> QED BY <2>2, <2>3
  <1> QED BY <1>2, <1>3

\* An introduction that comes from the server is followed.
LEMMA IntroducedCases ==
    ASSUME TInv, Faultless, NEW c \in Clients, NEW m, NEW p, NEW t, NEW n,
           p.ip = ServerIp, OnPsBindReply(c, m, p, m.dst.port, t, n)
    PROVE  /\ \A d \in Clients \ {c} :
                 /\ pc'[d] = pc[d]
                 /\ state'[d] = state[d]
                 /\ target'[d] = target[d]
                 /\ scan_target'[d] = scan_target[d]
                 /\ result'[d] = result[d]
           /\ \/ GivesUp(c, m)
              \/ \E a : PunchesTo(c, m, a)
  <1>1. m.type = "ps_bind_reply" BY DEF OnPsBindReply
  <1>2. /\ state' = state
        /\ \E port \in Predictions(m) :
              LET a == [ip |-> m.addr_one.ip, port |-> port] IN
              \/ a.port # 0 /\ Punch(c, m, m.dst.port, t, n, a)
              \/ PunchFails(c, m, t, a)
    BY DEF OnPsBindReply
  <1>3. PICK port \in Predictions(m) :
           LET a == [ip |-> m.addr_one.ip, port |-> port] IN
           \/ a.port # 0 /\ Punch(c, m, m.dst.port, t, n, a)
           \/ PunchFails(c, m, t, a)
    BY <1>2
  <1> DEFINE a == [ip |-> m.addr_one.ip, port |-> port]
  <1>4. a.ip = m.addr_one.ip OBVIOUS
  <1>5. Punch(c, m, m.dst.port, t, n, a) \/ PunchFails(c, m, t, a)
    BY <1>3
  <1> HIDE DEF a
  <1>6. CASE Punch(c, m, m.dst.port, t, n, a)
    <2>1. /\ \E out \in Punches(c, Sources(c, m), a) : Exchange(m, out)
          /\ target' = [target EXCEPT ![c] = IF Sym[c] THEN t ELSE a]
          /\ scan_target' = IF Sym[c] THEN [scan_target EXCEPT ![c] = a]
                            ELSE scan_target
          /\ Goto(c, "punch")
      BY <1>6 DEF Punch, Sources
    <2>2. Punches(c, Sources(c, m), a)
             = {{ClientBindRequest(c, k, a) : k \in Sources(c, m)}}
      BY DEF Punches, Faultless
    <2>3. net' = (net \ {m}) \cup
                    {ClientBindRequest(c, k, a) : k \in Sources(c, m)}
      BY <2>1, <2>2, FaultlessFacts
    <2>4. pc' = [pc EXCEPT ![c] = "punch"] /\ result' = result
      BY <2>1 DEF Goto
    <2>5. /\ \A d \in Clients \ {c} :
                /\ pc'[d] = pc[d]
                /\ target'[d] = target[d]
                /\ scan_target'[d] = scan_target[d]
          /\ pc'[c] = "punch"
          /\ IF Sym[c] THEN scan_target'[c] = a ELSE target'[c] = a
      BY <2>1, <2>4, Domains
    <2>6. PunchesTo(c, m, a)
      BY <1>1, <1>2, <1>4, <2>3, <2>5, Zenon DEF PunchesTo
    <2> QED BY <1>2, <2>4, <2>5, <2>6
  <1>7. CASE PunchFails(c, m, t, a)
    <2>1. /\ Exchange(m, {})
          /\ target' = [target EXCEPT ![c] = t]
          /\ Return(c, "connection_failed")
          /\ scan_target' = scan_target
      BY <1>7 DEF PunchFails, Faultless
    <2>2. net' = net \ {m} BY <2>1, FaultlessFacts
    <2> QED BY <1>1, <1>2, <2>1, <2>2, Domains DEF Return, GivesUp
  <1> QED BY <1>5, <1>6, <1>7

\* What a client hears in the loop or after the punch.
LEMMA HeardCases ==
    ASSUME TInv, OnlyPs, ReplyAtMain, TidsAgree, Faultless,
           NEW c \in Clients, NEW m \in net, m.dst.ip = HostOf[c],
           m.dst.port \in Listening(c), Loop(c, m) \/ PunchSucceeds(c, m)
    PROVE  /\ OthersStay(c)
           /\ sock'[c] = m.dst.port
           /\ \/ GoesOn(c, m) \/ Connects(c, m) \/ GivesUp(c, m)
              \/ \E a : PunchesTo(c, m, a)
  <1> DEFINE k == m.dst.port
             t == CurrentTarget(c)
  <1>1. /\ state[c] # "connected"
        /\ \E old, n : n # 0 /\ HandleResult(c, m, k, t, old, n)
    BY IteratesAt
  <1>2. PICK old, n : n # 0 /\ HandleResult(c, m, k, t, old, n) BY <1>1
  <1>3. ~HandleError(c, m, k, t, old, n)
    BY FaultlessFacts DEF HandleError
  <1>4. Handle(c, m, k, t, old, n) BY <1>2, <1>3 DEF HandleResult
  <1>5. sock' = [sock EXCEPT ![c] = k] BY <1>4 DEF Handle
  <1>6. \/ OnPsBindReply(c, m, m.src, k, t, n)
        \/ OnClientBindRequest(c, m, m.src, k, t, n)
        \/ OnClientBindResponse(c, m, m.src, t, n)
        \/ OnAck(c, m, t, n)
        \/ OnOther(c, m, t, n)
    BY <1>4, FaultlessFacts DEF Handle
  <1>7. m.type \in {"ack", "ps_bind_reply", "client_bind_request",
                    "client_bind_response"}
    <2>1. m.type # "ps_bind_request"
      <3> SUFFICES ASSUME m.type = "ps_bind_request" PROVE FALSE OBVIOUS
      <3>1. PICK d \in Clients : m \in {First(d), Second(d)} BY DEF OnlyPs
      <3>2. m.dst \in ServerSocks BY <3>1, RegistrationFacts, SockFacts
      <3> QED BY <3>2, AtFacts
    <2> QED BY <2>1 DEF OnlyPs, PsTypes
  <1>8. sock'[c] = k /\ \A d \in Clients \ {c} : sock'[d] = sock[d]
    BY <1>5, Domains
  <1> HIDE DEF k, t
  <1>9. ASSUME Idle(c, m, t, n), scan_target' = scan_target,
               \/ m.type = "ack"
               \/ m.type = "client_bind_response" /\ m.src # t
        PROVE  OthersStay(c) /\ GoesOn(c, m)
    <2>1. /\ Exchange(m, {})
          /\ target' = [target EXCEPT ![c] = t]
          /\ EndIteration(c, state[c], n)
      BY <1>9 DEF Idle
    <2>2. net' = net \ {m} BY <2>1, FaultlessFacts
    <2>3. /\ pc'[c] = "loop" /\ state'[c] = state[c]
          /\ \A d \in Clients \ {c} :
                pc'[d] = pc[d] /\ state'[d] = state[d] /\ result'[d] = result[d]
      BY <1>1, <1>2, <2>1, EndCases
    <2>4. /\ target'[c] = t
          /\ \A d \in Clients \ {c} : target'[d] = target[d]
      BY <2>1, Domains
    <2>5. OthersStay(c) BY <1>8, <1>9, <2>3, <2>4 DEF OthersStay
    <2> QED BY <1>9, <2>2, <2>3, <2>4, <2>5 DEF GoesOn, t
  <1>10. ASSUME EndIteration(c, "connected", n), scan_target' = scan_target,
                NEW a, target' = [target EXCEPT ![c] = a]
         PROVE  /\ OthersStay(c)
                /\ pc'[c] = "returned" /\ state'[c] = "connected" /\ Succeeded(c)'
    <2>1. /\ pc'[c] = "returned" /\ state'[c] = "connected" /\ Succeeded(c)'
          /\ \A d \in Clients \ {c} :
                pc'[d] = pc[d] /\ state'[d] = state[d] /\ result'[d] = result[d]
      BY <1>10, EndCases
    <2>2. \A d \in Clients \ {c} : target'[d] = target[d] BY <1>10, Domains
    <2> QED BY <1>8, <1>10, <2>1, <2>2 DEF OthersStay
  <1>11. CASE OnPsBindReply(c, m, m.src, k, t, n)
    <2>1. m.src.ip = ServerIp
      BY <1>11 DEF OnPsBindReply, ReplyAtMain, ServerSock
    <2> QED BY <1>8, <1>11, <2>1, IntroducedCases DEF k, OthersStay
  <1>12. CASE OnClientBindRequest(c, m, m.src, k, t, n)
    <2>1. ~WrongTransaction(c, m)
      BY <1>12 DEF OnClientBindRequest, WrongTransaction, TidsAgree
    <2>2. /\ m.type = "client_bind_request"
          /\ target' = [target EXCEPT ![c] = m.src]
          /\ \E ok \in SendResults :
                Exchange(m, Sent(ok, ClientBindResponse(c, k, m.src)))
          /\ EndIteration(c, "connected", n)
          /\ scan_target' = scan_target
      BY <1>12, <2>1 DEF OnClientBindRequest
    <2>3. net' = (net \ {m}) \cup {ClientBindResponse(c, k, m.src)}
      BY <2>2, AnswerFacts
    <2> QED BY <1>8, <1>10, <2>2, <2>3 DEF Connects, k
  <1>13. CASE OnClientBindResponse(c, m, m.src, t, n)
    <2>1. m.type = "client_bind_response" /\ scan_target' = scan_target
      BY <1>13 DEF OnClientBindResponse
    <2>2. CASE m.src # t
      BY <1>8, <1>9, <1>13, <2>1, <2>2 DEF OnClientBindResponse, k
    <2>3. CASE m.src = t
      <3>1. /\ Exchange(m, {})
            /\ target' = [target EXCEPT ![c] = t]
            /\ EndIteration(c, "connected", n)
        BY <1>13, <2>3 DEF OnClientBindResponse
      <3>2. net' = net \ {m} BY <3>1, FaultlessFacts
      <3> QED BY <1>8, <1>10, <2>1, <2>3, <3>1, <3>2 DEF Connects, k, t
    <2> QED BY <2>2, <2>3
  <1>14. CASE OnAck(c, m, t, n)
    BY <1>8, <1>9, <1>14 DEF OnAck, k
  <1> QED BY <1>6, <1>7, <1>8, <1>11, <1>12, <1>13, <1>14 DEF k, OnOther

\* What a client sends, and where it goes.
Sends(c, r) ==
    \/ r = First(c) /\ pc'[c] = "await_ack"
    \/ r = Second(c) /\ pc'[c] = "await_ack2"
    \/ \E k, a : /\ r = ClientBindRequest(c, k, a)
                 /\ k \in Ports /\ Partners(HostOf[c], a.ip)
                 /\ pc'[c] = "punch"
    \/ \E k, a : /\ r = ClientBindResponse(c, k, a)
                 /\ <<At(c, k), a>> \in holes
                 /\ state'[c] = "connected"
Moves(c) ==
    \/ pc[c] = "start" /\ pc'[c] = "await_ack" /\ First(c) \in net'
    \/ pc[c] = "second" /\ pc'[c] = "await_ack2" /\ Second(c) \in net'
    \/ /\ pc[c] = "await_ack" /\ pc'[c] \in {"second", "returned"}
       /\ ServerSock(1) \notin Awaited(c)
    \/ pc[c] = "await_ack2" /\ pc'[c] \in {"loop", "returned"}
    \/ pc[c] \in {"loop", "punch"} /\ pc'[c] \in {"loop", "returned"}
    \/ /\ pc[c] \in {"loop", "punch"} /\ pc'[c] = "punch"
       /\ \E k, a : /\ ClientBindRequest(c, k, a) \in net'
                    /\ k \in Ports /\ Partners(HostOf[c], a.ip)

\* What all steps of a client have in common.
Effects(c) ==
    /\ OthersStay(c)
    /\ UNCHANGED <<serverVars, introduced>>
    /\ holes \subseteq holes'
    /\ \A h \in holes' \ holes : \E r \in net' \ net : h = <<r.src, r.dst>>
    /\ \A m \in net \ net' : m.dst.ip = HostOf[c]
    /\ \A r \in net' \ net : <<r.src, r.dst>> \in holes' /\ Sends(c, r)
    /\ Moves(c)
    /\ sock'[c] # sock[c] => Sym[c] /\ ~NoPeer(HostOf[c])
    /\ state'[c] = "connected" => Succeeded(c)'

\* Holes are made by what is sent.
LEMMA OutboundHoles ==
    ASSUME Outbound
    PROVE  /\ holes \subseteq holes'
           /\ \A h \in holes' \ holes : \E r \in net' \ net : h = <<r.src, r.dst>>
           /\ \A r \in net' \ net : r.src \in Addr => <<r.src, r.dst>> \in holes'
  <1>1. ASSUME NEW h \in holes', h \notin holes
        PROVE  \E r \in net' \ net : h = <<r.src, r.dst>>
    <2>1. PICK r \in {x \in net' \ net : x.src \in Addr} : h = <<r.src, r.dst>>
      BY <1>1 DEF Outbound
    <2> QED BY <2>1
  <1> QED BY <1>1 DEF Outbound

\* The sockets of a client have addresses of clients.
LEMMA PortAddr ==
    ASSUME NEW c \in Clients, NEW k \in Ports
    PROVE  At(c, k) \in Addr
BY AtFacts DEF At, Addr

\* The second registration is not sent from a scan socket.
LEMMA SecondIsPort ==
    ASSUME NEW c \in Clients
    PROVE  SecondPort(c) \in Ports /\ SecondPort(c) \notin ScanPorts
  <1>1. /\ HelperPort \in Ports /\ MainPort \in Ports
        /\ HelperPort \notin ScanPorts /\ MainPort \notin ScanPorts
    BY PortFacts DEF HelperPort, MainPort, ScanPorts
  <1> QED BY <1>1 DEF SecondPort

\* Every step of a client is one of those cases: its registrations...
LEMMA RequestEffects ==
    ASSUME SInv, SockMain, Faultless, NEW c \in Clients, ClientRequests(c)
    PROVE  Effects(c)
  <1>1. TInv BY DEF SInv, PInv
  <1>2. /\ OthersStay(c)
        /\ UNCHANGED <<state, sock, scan_target, result>>
        /\ \/ /\ pc[c] = "start" /\ pc'[c] = "await_ack"
              /\ net' = net \cup {First(c)}
           \/ /\ pc[c] = "second" /\ pc'[c] = "await_ack2"
              /\ net' = net \cup {Second(c)}
    BY RequestCases
  <1>3. UNCHANGED <<serverVars, introduced>> /\ Outbound BY DEF ClientRequests
  <1>4. state'[c] # "connected" BY <1>1, <1>2 DEF TInv, ConnectedReturned
  <1>5. First(c).src \in Addr /\ Second(c).src \in Addr
    BY RegistrationFacts, PortAddr, PortFacts, SecondIsPort
  <1>6. Moves(c) BY <1>2 DEF Moves
  <1>7. ASSUME NEW r \in net' \ net
        PROVE  Sends(c, r) /\ <<r.src, r.dst>> \in holes'
    <2>1. Sends(c, r) BY <1>2, <1>7 DEF Sends
    <2> QED BY <1>2, <1>3, <1>5, <1>7, <2>1, OutboundHoles
  <1>8. net \ net' = {} BY <1>2
  <1> QED BY <1>2, <1>3, <1>4, <1>6, <1>7, <1>8, OutboundHoles DEF Effects

\* ... its timeouts...
LEMMA TimeoutEffects ==
    ASSUME SInv, ServerInv, Faultless, NEW c \in Clients, ClientTimesOut(c)
    PROVE  Effects(c)
  <1>1. TInv BY DEF SInv, PInv
  <1>2. /\ NobodyListens
        /\ OthersStay(c)
        /\ UNCHANGED <<sock, target, scan_target, net, holes>>
        /\ state'[c] = state[c] /\ state[c] # "connected"
        /\ \/ /\ pc[c] \in {"await_ack", "await_ack2", "punch"}
              /\ pc'[c] = "returned"
           \/ pc[c] = "loop" /\ pc'[c] \in {"loop", "returned"}
    BY <1>1, TimeoutCases
  <1>3. UNCHANGED <<serverVars, introduced>> BY DEF ClientTimesOut
  <1>4. pc[c] = "await_ack" => ServerSock(1) \notin Awaited(c)
    <2>1. \A m \in net : m.dst # ServerSock(1)
      BY <1>2, SockFacts
         DEF NobodyListens, Deliverable, ServerInv, ServerSteady
    <2> QED BY <2>1, SockFacts DEF Awaited
  <1>5. Moves(c) BY <1>2, <1>4 DEF Moves
  <1>6. net' \ net = {} /\ net \ net' = {} /\ holes' \ holes = {} BY <1>2
  <1> QED BY <1>2, <1>3, <1>5, <1>6 DEF Effects

\* What a client's NAT lets in comes from where the client has sent to.
LEMMA LetIn ==
    ASSUME SInv, NoFullCone, NEW c \in Clients, NEW m \in net,
           m.dst.ip = HostOf[c], Admits(m)
    PROVE  /\ <<m.dst, m.src>> \in holes
           /\ m.dst = At(c, m.dst.port)
           /\ m.dst.port \in Ports
           /\ m.type \in {"client_bind_request", "client_bind_response"} =>
                 /\ <<m.src, m.dst>> \in holes
                 /\ m.src.ip \in Ips /\ m.dst.ip \in Ips
  <1>1. <<m.dst, m.src>> \in holes BY AtFacts DEF Admits, NoFullCone
  <1>2. m.dst \in Addr BY <1>1 DEF SInv, PInv, TInv, TypeOK, NatTypeOK
  <1>3. m.dst = At(c, m.dst.port) /\ m.dst.port \in Ports
    BY <1>2 DEF Addr, At
  <1>4. ASSUME m.type \in {"client_bind_request", "client_bind_response"}
        PROVE  <<m.src, m.dst>> \in holes /\ m.src.ip \in Ips
    BY <1>4, AddrFacts DEF SInv, HolesInv, HolesOpened, ClientTypes
  <1> QED BY <1>1, <1>3, <1>4, AtFacts

\* A client's first registration has arrived when it hears anything.
LEMMA FirstAnswered ==
    ASSUME SInv, ServerInv, NoFullCone, NEW c \in Clients, NEW m \in net,
           m.dst.ip = HostOf[c], Admits(m), pc[c] = "await_ack"
    PROVE  ServerSock(1) \notin Awaited(c)
  <1>1. ServerSock(2) \in Awaited(c) /\ Awaited(c) # {} BY EarlyAwaited
  <1>2. NoPeer(HostOf[c]) /\ m.type # "ps_bind_reply"
    BY <1>1, NotIntroduced
  <1>3. m.type \notin {"client_bind_request", "client_bind_response"}
    BY <1>2, LetIn DEF NoPeer
  <1>4. m.type # "ps_bind_request"
    <2> SUFFICES ASSUME m.type = "ps_bind_request" PROVE FALSE OBVIOUS
    <2>1. PICK d \in Clients : m \in {First(d), Second(d)}
      BY DEF ServerInv, OnlyPs
    <2>2. m.dst \in ServerSocks BY <2>1, RegistrationFacts, SockFacts
    <2> QED BY <2>2, AtFacts
  <1>5. m.type = "ack" BY <1>2, <1>3, <1>4 DEF ServerInv, OnlyPs, PsTypes
  <1> QED BY <1>1, <1>5, SockFacts DEF ServerInv, AcksAnswer

\* What the step that hears m does, in the loop or after the punch.
LEMMA HeardSends ==
    ASSUME SInv, NoFullCone, NEW c \in Clients, NEW m \in net,
           m.dst.ip = HostOf[c], Admits(m), Outbound,
           \/ GoesOn(c, m) \/ Connects(c, m) \/ GivesUp(c, m)
           \/ \E a : PunchesTo(c, m, a)
    PROVE  /\ \A r \in net \ net' : r = m
           /\ \A r \in net' \ net : <<r.src, r.dst>> \in holes' /\ Sends(c, r)
           /\ state[c] # "connected" /\ state'[c] = "connected" => Succeeded(c)'
           /\ \/ pc'[c] \in {"loop", "returned"}
              \/ /\ pc'[c] = "punch"
                 /\ \E k, a : /\ ClientBindRequest(c, k, a) \in net'
                              /\ k \in Ports /\ Partners(HostOf[c], a.ip)
  <1>1. /\ <<m.dst, m.src>> \in holes
        /\ m.dst = At(c, m.dst.port) /\ m.dst.port \in Ports
    BY LetIn
  <1>2. CASE GoesOn(c, m) \/ GivesUp(c, m)
    BY <1>2 DEF GoesOn, GivesUp
  <1>3. CASE Connects(c, m)
    <2> DEFINE a == ClientBindResponse(c, m.dst.port, m.src)
    <2>1. /\ \A r \in net \ net' : r = m
          /\ \A r \in net' \ net : r = a
          /\ pc'[c] = "returned" /\ state'[c] = "connected" /\ Succeeded(c)'
      BY <1>3 DEF Connects
    <2>2. a.src = m.dst /\ a.dst = m.src BY <1>1, MessageFacts
    <2>3. <<a.src, a.dst>> \in holes' /\ Sends(c, a)
      BY <1>1, <2>1, <2>2, OutboundHoles DEF Sends
    <2> QED BY <2>1, <2>3
  <1>4. ASSUME NEW a, PunchesTo(c, m, a)
        PROVE  /\ \A r \in net \ net' : r = m
               /\ \A r \in net' \ net : <<r.src, r.dst>> \in holes' /\ Sends(c, r)
               /\ pc'[c] = "punch" /\ state'[c] = state[c]
               /\ \E k : /\ ClientBindRequest(c, k, a) \in net'
                         /\ k \in Ports /\ Partners(HostOf[c], a.ip)
    <2>1. Sources(c, m) \subseteq Ports /\ Sources(c, m) # {}
      <3>1. 3 \in ScanPorts BY PsConnectorAssumption DEF ScanPorts
      <3> QED BY <1>1, <3>1, PortFacts DEF Sources
    <2>2. Partners(HostOf[c], a.ip)
      BY <1>4 DEF PunchesTo, SInv, PInv, RepliesPair
    <2>3. ASSUME NEW r \in net' \ net
          PROVE  <<r.src, r.dst>> \in holes' /\ Sends(c, r)
      <3>1. PICK k \in Sources(c, m) : r = ClientBindRequest(c, k, a)
        BY <1>4, <2>3 DEF PunchesTo
      <3>2. k \in Ports /\ pc'[c] = "punch" BY <1>4, <2>1 DEF PunchesTo
      <3>3. r.src \in Addr BY <3>1, <3>2, MessageFacts, PortAddr
      <3> QED BY <2>2, <2>3, <3>1, <3>2, <3>3, OutboundHoles DEF Sends
    <2> QED BY <1>4, <2>1, <2>2, <2>3 DEF PunchesTo
  <1> QED BY <1>2, <1>3, <1>4 DEF GoesOn, GivesUp

\* ... and whatever it hears.
LEMMA HearEffects ==
    ASSUME AInv, NoFullCone, Faultless, NEW c \in Clients, ClientHears(c)
    PROVE  Effects(c)
  <1> USE DEF AInv
  <1>1. TInv BY DEF SInv, PInv
  <1>2. PICK m \in net : Admits(m) /\ Hear(c, m) BY DEF ClientHears
  <1>3. UNCHANGED <<serverVars, introduced>> /\ Outbound BY DEF ClientHears
  <1>4. m.dst.ip = HostOf[c] /\ m.dst.port \in Listening(c) BY <1>2 DEF Hear
  <1>5. CASE Acknowledged(c, m)
    <2>1. /\ OthersStay(c)
          /\ UNCHANGED <<sock, target, scan_target, result>>
          /\ net' = net \ {m}
          /\ \/ /\ pc[c] = "await_ack" /\ pc'[c] = "second"
                /\ state' = state
             \/ /\ pc[c] = "await_ack2" /\ pc'[c] = "loop"
                /\ state'[c] = "waiting_for_stun_reply"
      BY <1>1, <1>5, AckedCases
    <2>2. Moves(c) BY <1>2, <1>4, <2>1, FirstAnswered DEF Moves
    <2>3. state'[c] # "connected" BY <1>1, <2>1 DEF TInv, ConnectedReturned
    <2>4. net' \ net = {} /\ \A r \in net \ net' : r.dst.ip = HostOf[c]
      BY <1>4, <2>1
    <2> QED BY <1>3, <2>1, <2>2, <2>3, <2>4, OutboundHoles DEF Effects
  <1>6. CASE Loop(c, m) \/ PunchSucceeds(c, m)
    <2>1. state[c] # "connected" /\ pc[c] \in {"loop", "punch"}
      BY <1>1, <1>4, <1>6, IteratesAt
    <2>2. /\ OthersStay(c)
          /\ sock'[c] = m.dst.port
          /\ \/ GoesOn(c, m) \/ Connects(c, m) \/ GivesUp(c, m)
             \/ \E a : PunchesTo(c, m, a)
      BY <1>1, <1>4, <1>6, HeardCases DEF ServerInv, MeetInv
    <2>3. /\ \A r \in net \ net' : r = m
          /\ \A r \in net' \ net : <<r.src, r.dst>> \in holes' /\ Sends(c, r)
          /\ state'[c] = "connected" => Succeeded(c)'
          /\ \/ pc'[c] \in {"loop", "returned"}
             \/ /\ pc'[c] = "punch"
                /\ \E k, a : /\ ClientBindRequest(c, k, a) \in net'
                             /\ k \in Ports /\ Partners(HostOf[c], a.ip)
      BY <1>2, <1>3, <1>4, <2>1, <2>2, HeardSends
    <2>4. Moves(c) BY <2>1, <2>3 DEF Moves
    <2>5. sock'[c] # sock[c] => Sym[c] /\ ~NoPeer(HostOf[c])
      <3>1. CASE pc[c] = "punch" /\ Sym[c] BY <3>1 DEF ClientInv, PunchHole
      <3>2. CASE ~(pc[c] = "punch" /\ Sym[c])
        <4>1. Listening(c) = {sock[c]}
          BY <2>1, <3>2, Zenon DEF Listening
        <4> QED BY <1>4, <2>2, <4>1
      <3> QED BY <3>1, <3>2
    <2>6. \A r \in net \ net' : r.dst.ip = HostOf[c] BY <1>4, <2>3
    <2> QED BY <1>3, <2>2, <2>3, <2>4, <2>5, <2>6, OutboundHoles DEF Effects
  <1>7. ~AckError(c, m) BY FaultlessFacts DEF AckError
  <1> QED BY <1>2, <1>5, <1>6, <1>7 DEF Hear

\* What a client sends is for the server, or for its partner.
LEMMA SendsFacts ==
    ASSUME NEW c \in Clients, NEW r, Sends(c, r)
    PROVE  /\ r.type \in PsTypes \ {"ack", "ps_bind_reply"}
           /\ r.type = "ps_bind_request" =>
                 \/ r = First(c) /\ pc'[c] = "await_ack"
                 \/ r = Second(c) /\ pc'[c] = "await_ack2"
           /\ r.src.ip = HostOf[c]
  <1>1. CASE \/ r = First(c) /\ pc'[c] = "await_ack"
             \/ r = Second(c) /\ pc'[c] = "await_ack2"
    BY <1>1, RegistrationFacts, AtFacts DEF PsTypes
  <1>2. ASSUME NEW k, NEW a, r = ClientBindRequest(c, k, a)
        PROVE  r.type = "client_bind_request" /\ r.src = At(c, k)
    BY <1>2, MessageFacts
  <1>3. ASSUME NEW k, NEW a, r = ClientBindResponse(c, k, a)
        PROVE  r.type = "client_bind_response" /\ r.src = At(c, k)
    BY <1>3, MessageFacts
  <1>4. CASE \E k, a : r = ClientBindRequest(c, k, a)
    <2>1. PICK k, a : r = ClientBindRequest(c, k, a) BY <1>4
    <2> QED BY <1>2, <2>1, AtFacts DEF PsTypes
  <1>5. CASE \E k, a : r = ClientBindResponse(c, k, a)
    <2>1. PICK k, a : r = ClientBindResponse(c, k, a) BY <1>5
    <2> QED BY <1>3, <2>1, AtFacts DEF PsTypes
  <1> QED BY <1>1, <1>4, <1>5 DEF Sends

\* What a client's step does to registrations on their way.
LEMMA ClientAwaited ==
    ASSUME NEW c \in Clients, Effects(c), NEW d \in Clients
    PROVE  /\ Awaited(d)' \subseteq Awaited(d)
           /\ ServerSock(1) \in Awaited(d) => ServerSock(1) \in Awaited(d)'
  <1> DEFINE Early == {"start", "await_ack", "second"}
  <1>1. /\ d # c => pc'[d] = pc[d]
        /\ HostOf[d] = HostOf[c] => d = c
    BY PsConnectorAssumption DEF Effects, OthersStay
  <1>2. /\ pc'[d] = "start" => pc[d] = "start"
        /\ pc'[d] \in Early => pc[d] \in Early
    BY <1>1 DEF Effects, Moves
  <1>3. ASSUME NEW m \in net', m \notin net, m.type = "ps_bind_request",
               m.src.ip = HostOf[d]
        PROVE  m.dst \in Awaited(d)
    <2>1. Sends(c, m) BY <1>3 DEF Effects
    <2>2. \/ m = First(c) /\ pc'[c] = "await_ack"
          \/ m = Second(c) /\ pc'[c] = "await_ack2"
      BY <1>3, <2>1, SendsFacts
    <2>3. d = c BY <1>1, <1>3, <2>2, RegistrationFacts, AtFacts
    <2>4. \/ m.dst = ServerSock(1) /\ pc[c] = "start"
          \/ m.dst = ServerSock(2) /\ pc[c] = "second"
      BY <2>2, RegistrationFacts DEF Effects, Moves
    <2> QED BY <2>3, <2>4, SockFacts DEF Awaited
  <1>4. ASSUME NEW s \in Awaited(d)' PROVE s \in Awaited(d)
    <2>1. /\ s \in ServerSocks
          /\ \/ s = ServerSock(1) /\ pc'[d] = "start"
             \/ s = ServerSock(2) /\ pc'[d] \in Early
             \/ \E m \in net' : /\ m.type = "ps_bind_request"
                                /\ m.src.ip = HostOf[d] /\ m.dst = s
      BY <1>4, AtFacts DEF Awaited
    <2>2. CASE \E m \in net' : /\ m.type = "ps_bind_request"
                               /\ m.src.ip = HostOf[d] /\ m.dst = s
      <3>1. PICK m \in net' : /\ m.type = "ps_bind_request"
                              /\ m.src.ip = HostOf[d] /\ m.dst = s
        BY <2>2
      <3>2. CASE m \in net BY <2>1, <3>1, <3>2 DEF Awaited
      <3>3. CASE m \notin net BY <1>3, <3>1, <3>3
      <3> QED BY <3>2, <3>3
    <2> QED BY <1>2, <2>1, <2>2 DEF Awaited
  <1>5. ASSUME ServerSock(1) \in Awaited(d) PROVE ServerSock(1) \in Awaited(d)'
    <2>1. ASSUME \E m \in net' : /\ m.type = "ps_bind_request"
                                 /\ m.src.ip = HostOf[d] /\ m.dst = ServerSock(1)
          PROVE  ServerSock(1) \in Awaited(d)'
      BY <2>1, AtFacts, SockFacts DEF Awaited
    <2>2. CASE pc[d] = "start"
      <3>1. CASE d = c
        <4>1. First(c) \in net' BY <2>2, <3>1 DEF Effects, Moves
        <4> QED BY <2>1, <3>1, <4>1, RegistrationFacts, AtFacts
      <3>2. CASE d # c
        <4>1. pc'[d] = "start" BY <1>1, <2>2, <3>2
        <4> QED BY <4>1, AtFacts, SockFacts DEF Awaited
      <3> QED BY <3>1, <3>2
    <2>3. CASE \E m \in net : /\ m.type = "ps_bind_request"
                              /\ m.src.ip = HostOf[d] /\ m.dst = ServerSock(1)
      <3>1. PICK m \in net : /\ m.type = "ps_bind_request"
                             /\ m.src.ip = HostOf[d] /\ m.dst = ServerSock(1)
        BY <2>3
      <3>2. m \in net'
        BY <3>1, AtFacts, SockFacts DEF Effects
      <3> QED BY <2>1, <3>1, <3>2
    <2> QED BY <1>5, <2>2, <2>3, SockFacts DEF Awaited
  <1> QED BY <1>4, <1>5

\* The server's side, when a client does something.
LEMMA ClientServerInv ==
    ASSUME SInv, ServerInv, NEW c \in Clients, Effects(c)
    PROVE  ServerInv'
  <1>1. \A d \in Clients :
           /\ Awaited(d)' \subseteq Awaited(d)
           /\ ServerSock(1) \in Awaited(d) => ServerSock(1) \in Awaited(d)'
    BY ClientAwaited
  <1>2. \A r \in net' : r \notin net =>
           /\ r.type \in PsTypes \ {"ack", "ps_bind_reply"}
           /\ r.type = "ps_bind_request" => r \in {First(c), Second(c)}
    <2>1. ASSUME NEW r \in net', r \notin net
          PROVE  /\ r.type \in PsTypes \ {"ack", "ps_bind_reply"}
                 /\ r.type = "ps_bind_request" => r \in {First(c), Second(c)}
      <3>1. Sends(c, r) BY <2>1 DEF Effects
      <3> QED BY <3>1, SendsFacts
    <2> QED BY <2>1
  <1>3. /\ UNCHANGED <<serverVars, introduced>>
    BY DEF Effects
  <1>4. OnlyPs'
    <2>1. ASSUME NEW m \in net', m.type = "ps_bind_request"
          PROVE  \E d \in Clients : m \in {First(d)', Second(d)'}
      <3>1. \E d \in Clients : m \in {First(d), Second(d)}
        BY <1>2, <2>1 DEF ServerInv, OnlyPs
      <3> QED BY <3>1, RegistrationFacts
    <2>2. \A m \in net' : m.type \in PsTypes BY <1>2 DEF ServerInv, OnlyPs
    <2> QED BY <2>1, <2>2 DEF OnlyPs, PsTypes
  <1>5. ServerSteady' BY <1>3 DEF ServerInv, ServerSteady, serverVars
  <1>6. AcksAnswer'
    <2> SUFFICES ASSUME NEW m \in net', m.type = "ack"
                 PROVE  /\ m.src \in ServerSocks
                        /\ \A d \in Clients : HostOf[d] = m.dst.ip =>
                              m.src \notin Awaited(d)'
      BY AtFacts DEF AcksAnswer
    <2>1. m \in net BY <1>2
    <2> QED BY <1>1, <2>1 DEF ServerInv, AcksAnswer
  <1>7. AllRegistered'
    <2> SUFFICES ASSUME NEW d \in Clients, ServerSock(1) \notin Awaited(d)',
                        d \notin introduced
                 PROVE  Registered(d)'
      BY <1>3, AtFacts DEF AllRegistered
    <2>1. Registered(d) BY <1>1 DEF ServerInv, AllRegistered
    <2> QED BY <1>3, <2>1 DEF Registered, HasMain, At, serverVars
  <1>8. MainFirst'
    BY <1>3 DEF ServerInv, MainFirst, MainOnly, At, serverVars
  <1>9. ReplyAtMain'
    <2> SUFFICES ASSUME NEW m \in net', m.type = "ps_bind_reply"
                 PROVE  /\ m.src = ServerSock(1)
                        /\ \A d \in Clients : HostOf[d] = m.dst.ip =>
                              m.dst = At(d, MainPort)
      BY AtFacts DEF ReplyAtMain, MainPort
    <2>1. m \in net BY <1>2
    <2> QED BY <2>1 DEF ServerInv, ReplyAtMain
  <1> QED BY <1>4, <1>5, <1>6, <1>7, <1>8, <1>9 DEF ServerInv

\* Whatever a client has sent has left its hole.
LEMMA SentThrough ==
    ASSUME SInv, NEW c \in Clients, Effects(c), NEW r \in net',
           r.type \in ClientTypes
    PROVE  <<r.src, r.dst>> \in holes'
  <1>1. CASE r \in net
    BY <1>1 DEF SInv, HolesInv, HolesOpened, Effects
  <1>2. CASE r \notin net BY <1>2 DEF Effects
  <1> QED BY <1>1, <1>2

\* Partners are hosts of clients.
LEMMA PartnerIp ==
    ASSUME NEW i, NEW j, Partners(i, j)
    PROVE  i \in Ips /\ j \in Ips
BY AtFacts DEF Partners

\* A hole for a client's host stays one.
LEMMA NoPeerKept ==
    ASSUME NEW c, Effects(c), NEW ip, NoPeer(ip)'
    PROVE  NoPeer(ip)
BY DEF Effects, NoPeer

\* The clients' side, when a client does something.
LEMMA ClientClientInv ==
    ASSUME SInv, ServerInv, ClientInv, NEW c \in Clients, Effects(c)
    PROVE  ClientInv'
  <1>1. \A d \in Clients : Awaited(d)' \subseteq Awaited(d)
    BY ClientAwaited
  <1>2. \A d \in Clients \ {c} : pc'[d] = pc[d] /\ sock'[d] = sock[d]
    BY DEF Effects, OthersStay
  <1>3. holes \subseteq holes' BY DEF Effects
  <1>4. FirstArrived'
    <2> SUFFICES ASSUME NEW d \in Clients, pc'[d] \notin {"start", "await_ack"}
                 PROVE  ServerSock(1) \notin Awaited(d)'
      BY AtFacts DEF FirstArrived
    <2>1. pc[d] \notin {"start", "await_ack"} => ServerSock(1) \notin Awaited(d)
      BY DEF ClientInv, FirstArrived
    <2>2. ServerSock(1) \notin Awaited(d)
      <3>1. CASE d = c BY <2>1, <3>1 DEF Effects, Moves
      <3>2. CASE d # c BY <1>2, <2>1, <3>2
      <3> QED BY <3>1, <3>2
    <2> QED BY <1>1, <2>2
  <1>5. ServerHolesOpen'
    <2>1. ASSUME NEW d \in Clients, pc'[d] # "start"
          PROVE  <<At(d, MainPort), ServerSock(1)>> \in holes'
      <3>1. CASE pc[d] # "start"
        BY <1>3, <3>1 DEF ClientInv, ServerHolesOpen
      <3>2. CASE pc[d] = "start"
        <4>1. d = c BY <1>2, <2>1, <3>2
        <4>2. First(c) \in net' BY <3>2, <4>1 DEF Effects, Moves
        <4>3. <<First(c).src, First(c).dst>> \in holes'
          BY <4>2, SentThrough, RegistrationFacts DEF ClientTypes
        <4> QED BY <4>1, <4>3, RegistrationFacts
      <3> QED BY <3>1, <3>2
    <2>2. ASSUME NEW d \in Clients, pc'[d] = "await_ack2"
          PROVE  <<At(d, SecondPort(d)), ServerSock(2)>> \in holes'
      <3>1. CASE pc[d] = "await_ack2"
        BY <1>3, <3>1 DEF ClientInv, ServerHolesOpen
      <3>2. CASE pc[d] # "await_ack2"
        <4>1. d = c BY <1>2, <2>2, <3>2
        <4>2. Second(c) \in net' BY <2>2, <3>2, <4>1 DEF Effects, Moves
        <4>3. <<Second(c).src, Second(c).dst>> \in holes'
          BY <4>2, SentThrough, RegistrationFacts DEF ClientTypes
        <4> QED BY <4>1, <4>3, RegistrationFacts
      <3> QED BY <3>1, <3>2
    <2> QED BY <2>1, <2>2
            DEF ServerHolesOpen, At, ServerSock, MainPort, SecondPort, HelperPort
  <1>6. ScanHoles'
    <2> SUFFICES ASSUME NEW h \in holes', h[1].port \in ScanPorts
                 PROVE  h \in holes \/ h[2].ip \in Ips
      BY DEF ClientInv, ScanHoles, ScanPorts
    <2> SUFFICES ASSUME h \notin holes PROVE h[2].ip \in Ips
      OBVIOUS
    <2>1. PICK r \in net' \ net : h = <<r.src, r.dst>> BY DEF Effects
    <2>2. Sends(c, r) BY DEF Effects
    <2>3. MainPort \notin ScanPorts /\ SecondPort(c) \notin ScanPorts
      BY SecondIsPort DEF MainPort, ScanPorts
    <2>4. r # First(c) /\ r # Second(c)
      BY <2>1, <2>3, RegistrationFacts, AtFacts
    <2>5. CASE \E k, a : /\ r = ClientBindRequest(c, k, a)
                         /\ Partners(HostOf[c], a.ip)
      <3>1. PICK k, a : /\ r = ClientBindRequest(c, k, a)
                        /\ Partners(HostOf[c], a.ip)
        BY <2>5
      <3> QED BY <2>1, <3>1, MessageFacts, PartnerIp
    <2>6. CASE \E k, a : /\ r = ClientBindResponse(c, k, a)
                         /\ <<At(c, k), a>> \in holes
      <3>1. PICK k, a : /\ r = ClientBindResponse(c, k, a)
                        /\ <<At(c, k), a>> \in holes
        BY <2>6
      <3> QED BY <2>1, <3>1, MessageFacts
    <2> QED BY <2>2, <2>4, <2>5, <2>6 DEF Sends
  <1>7. AckComes'
    <2> SUFFICES ASSUME NEW d \in Clients, pc'[d] = "await_ack2"
                 PROVE  \E m \in {Second(d), SecondAck(d)} : m \in net'
      BY RegistrationFacts DEF AckComes
    <2>1. CASE d = c
      <3>1. CASE pc[c] = "second" BY <2>1, <3>1 DEF Effects, Moves
      <3> QED BY <2>1, <3>1 DEF Effects, Moves
    <2>2. CASE d # c
      <3>1. pc[d] = "await_ack2" BY <1>2, <2>2
      <3>2. PICK m \in {Second(d), SecondAck(d)} : m \in net
        BY <3>1 DEF ClientInv, AckComes
      <3>3. m.dst \in {ServerSock(2), At(d, SecondPort(d))}
        BY <3>2, RegistrationFacts
      <3>4. m.dst.ip # HostOf[c] BY <2>2, <3>3, AtFacts, SockFacts
      <3> QED BY <3>2, <3>4 DEF Effects
    <2> QED BY <2>1, <2>2
  <1>8. SockMain'
    <2> SUFFICES ASSUME NEW d \in Clients, ~Sym[d] \/ NoPeer(HostOf[d])'
                 PROVE  sock'[d] = MainPort
      BY Zenon DEF SockMain, MainPort
    <2>1. ~Sym[d] \/ NoPeer(HostOf[d]) BY NoPeerKept, Zenon
    <2>2. sock[d] = MainPort BY <2>1, Zenon DEF ClientInv, SockMain
    <2>3. CASE d = c BY <2>1, <2>2, <2>3, Zenon DEF Effects
    <2>4. CASE d # c BY <1>2, <2>2, <2>4
    <2> QED BY <2>3, <2>4
  <1>9. PunchHole'
    <2> SUFFICES ASSUME NEW d \in Clients, pc'[d] = "punch", NoPeer(HostOf[d])'
                 PROVE  FALSE
      BY DEF PunchHole
    <2>1. CASE pc[d] = "punch"
      BY <2>1, NoPeerKept DEF ClientInv, PunchHole
    <2>2. CASE pc[d] # "punch"
      <3>1. d = c BY <1>2, <2>2
      <3>2. PICK k, a : /\ ClientBindRequest(c, k, a) \in net'
                        /\ Partners(HostOf[c], a.ip)
        BY <2>2, <3>1 DEF Effects, Moves
      <3>3. <<At(c, k), a>> \in holes'
        BY <3>2, SentThrough, MessageFacts DEF ClientTypes
      <3> QED BY <3>1, <3>2, <3>3, PartnerIp, AtFacts DEF NoPeer
    <2> QED BY <2>1, <2>2
  <1> QED BY <1>4, <1>5, <1>6, <1>7, <1>8, <1>9 DEF ClientInv

----------------------------------------------------------------------------
(* The server, when nothing fails                                          *)

\* A registration names the client's base socket, unless the server has it.
LEMMA MainKnown ==
    ASSUME SInv, ServerInv, ClientInv, NEW c \in Clients, NEW m \in net,
           m \in {First(c), Second(c)}
    PROVE  m.src = At(c, MainPort) \/ Registered(c)
  <1>1. CASE m = First(c) BY <1>1, RegistrationFacts
  <1>2. CASE m = Second(c)
    <2>1. /\ m.type = "ps_bind_request" /\ m.src.ip = HostOf[c]
          /\ m.dst = ServerSock(2)
      BY <1>2, RegistrationFacts, AtFacts
    <2>2. pc[c] \notin {"start", "await_ack", "second"}
      BY <2>1 DEF SInv, RegistersOnce
    <2>3. ServerSock(1) \notin Awaited(c)
      BY <2>2 DEF ClientInv, FirstArrived
    <2>4. ServerSock(2) \in Awaited(c) BY <2>1, SockFacts DEF Awaited
    <2>5. c \notin introduced BY <2>4 DEF SInv, RegistrationsSpent
    <2> QED BY <2>3, <2>5 DEF ServerInv, AllRegistered
  <1> QED BY <1>1, <1>2

\* The transaction after a registration of c has c's base socket, and those
\* that it had.
Gains(tr, c) ==
    /\ MainOnly(tr) /\ HasMain(tr, c)
    /\ \A d \in Clients : TidOf[d] = TidOf[c] /\ Registered(d) => HasMain(tr, d)

\* The first registration of a transaction...
LEMMA GainsNew ==
    ASSUME NEW c \in Clients, TidOf[c] \notin DOMAIN ps_transaction_client_map
    PROVE  Gains(NewTransaction(At(c, MainPort)), c)
  <1> DEFINE tr == NewTransaction(At(c, MainPort))
  <1>1. tr.cl1_sk1 = At(c, MainPort) /\ tr.cl2_sk1 = NoAddr
    BY DEF NewTransaction
  <1>2. NoAddr.ip \notin Ips BY NetworkAssumption DEF NoAddr
  <1> HIDE DEF tr
  <1>3. MainOnly(tr) BY <1>1, <1>2, AtFacts DEF MainOnly
  <1>4. \A d \in Clients : TidOf[d] = TidOf[c] => ~Registered(d)
    BY DEF Registered
  <1> QED BY <1>1, <1>3, <1>4 DEF Gains, HasMain, tr

\* ... one by a client that the transaction has already...
LEMMA GainsKept ==
    ASSUME ServerInv, NEW c \in Clients,
           TidOf[c] \in DOMAIN ps_transaction_client_map,
           HasFirst(ps_transaction_client_map[TidOf[c]], HostOf[c]), NEW tr,
           tr.cl1_sk1 = ps_transaction_client_map[TidOf[c]].cl1_sk1,
           tr.cl2_sk1 = ps_transaction_client_map[TidOf[c]].cl2_sk1
    PROVE  Gains(tr, c)
  <1> DEFINE old == ps_transaction_client_map[TidOf[c]]
  <1>1. MainOnly(old) BY DEF ServerInv, MainFirst
  <1>2. \A d \in Clients : TidOf[d] = TidOf[c] /\ Registered(d) => HasMain(old, d)
    BY DEF Registered
  <1>3. tr.cl1_sk1 = old.cl1_sk1 /\ tr.cl2_sk1 = old.cl2_sk1
        /\ HasFirst(old, HostOf[c])
    OBVIOUS
  <1> HIDE DEF old
  <1>4. HasMain(old, c) BY <1>1, <1>3 DEF MainOnly, HasFirst, HasMain
  <1> QED BY <1>1, <1>2, <1>3, <1>4 DEF Gains, MainOnly, HasMain

\* ... and the first one of its second client.
LEMMA GainsSecond ==
    ASSUME ServerInv, NEW c \in Clients,
           TidOf[c] \in DOMAIN ps_transaction_client_map, NEW tr,
           ps_transaction_client_map[TidOf[c]].cl2_sk1.ip = NoIp,
           tr.cl1_sk1 = ps_transaction_client_map[TidOf[c]].cl1_sk1,
           tr.cl2_sk1 = At(c, MainPort)
    PROVE  Gains(tr, c)
  <1> DEFINE old == ps_transaction_client_map[TidOf[c]]
  <1>1. MainOnly(old) BY DEF ServerInv, MainFirst
  <1>2. \A d \in Clients : TidOf[d] = TidOf[c] /\ Registered(d) => HasMain(old, d)
    BY DEF Registered
  <1>3. /\ tr.cl1_sk1 = old.cl1_sk1 /\ old.cl2_sk1.ip = NoIp
        /\ NoIp \notin Ips
    BY NetworkAssumption
  <1> HIDE DEF old
  <1>4. \A d \in Clients : HasMain(old, d) => HasMain(tr, d)
    BY <1>3, AtFacts DEF HasMain
  <1>5. MainOnly(tr) BY <1>1, <1>3, AtFacts DEF MainOnly
  <1> QED BY <1>2, <1>4, <1>5 DEF Gains, HasMain

\* What the server makes of a registration, while nothing expires and a
\* transaction is of two clients.
LEMMA RegistrationGains ==
    ASSUME AInv, Faultless, InTwos, NEW c \in Clients, NEW m \in net,
           m \in {First(c), Second(c)}, OnPsBindRequest(m)
    PROVE  \E tr : /\ Gains(tr, c) /\ Party(tr, m.tid)
                   /\ \/ /\ PsStore(m.tid, tr)
                         /\ net' = (net \ {m}) \cup {PsAck(m)}
                      \/ /\ Ready(tr) /\ PsErase(m.tid)
                         /\ net' = (net \ {m}) \cup ({PsAck(m)} \cup PsIntroduce(tr))
  <1> USE DEF AInv
  <1> DEFINE map == ps_transaction_client_map
             old == map[m.tid]
  <1>1. /\ m.tid = TidOf[c] /\ m.src.ip = HostOf[c] /\ m.src.ip \in Ips
        /\ m.src.ip # NoIp
    BY RegistrationFacts, AtFacts, NetworkAssumption
  <1>2. OfTransaction(m.src.ip, m.tid) BY <1>1 DEF OfTransaction
  <1>3. m.tid \in DOMAIN map => /\ PsKnown(m)
                                /\ old \in PsTransaction
                                /\ Party(old, m.tid)
    <2> SUFFICES ASSUME m.tid \in DOMAIN map
                 PROVE  PsKnown(m) /\ old \in PsTransaction /\ Party(old, m.tid)
      OBVIOUS
    <2>1. old \in PsTransaction /\ Party(old, m.tid)
      BY DEF SInv, PInv, TInv, TypeOK, ServerTypeOK, PartiesShare
    <2>2. old.cl1_ts1 \in Nat BY <2>1 DEF PsTransaction
    <2>3. ~(old.cl1_ts1 + Expiry < now)
      <3>1. now \in Nat BY DEF SInv, PInv, TInv, TypeOK, ServerTypeOK
      <3> QED BY <2>2, <3>1, ServerAssumption DEF ServerInv, ServerSteady
    <2> QED BY <2>1, <2>3 DEF PsKnown, Expired
  <1>4. m.src = At(c, MainPort) \/ Registered(c) BY MainKnown
  <1>5. \A out : Exchange(m, out) => net' = (net \ {m}) \cup out
    BY FaultlessFacts
  <1>6. CASE PsFirstClient(m)
    <2>1. m.tid \notin DOMAIN map BY <1>3, <1>6 DEF PsFirstClient
    <2>2. m.src = At(c, MainPort) BY <1>1, <1>4, <2>1 DEF Registered
    <2>3. Gains(NewTransaction(m.src), c) BY <1>1, <2>1, <2>2, GainsNew
    <2>4. Party(NewTransaction(m.src), m.tid) BY <1>2, NewParty
    <2> QED BY <1>5, <1>6, <2>3, <2>4 DEF PsFirstClient
  <1>7. CASE PsFirstClientAgain(m)
    <2> DEFINE tr == [old EXCEPT !.cl1_ts2 = now, !.cl1_sk2 = m.src]
    <2>1. /\ m.tid \in DOMAIN map /\ old.cl1_sk1.ip = m.src.ip
          /\ PsStore(m.tid, tr) /\ Exchange(m, {PsAck(m)})
      BY <1>7 DEF PsFirstClientAgain, PsKnown
    <2>2. old \in PsTransaction /\ Party(old, m.tid) BY <1>3, <2>1
    <2>3. tr.cl1_sk1 = old.cl1_sk1 /\ tr.cl2_sk1 = old.cl2_sk1
      BY <2>2 DEF PsTransaction
    <2>4. Party(tr, m.tid) BY <2>2, AgainParty
    <2>5. HasFirst(old, HostOf[c]) BY <1>1, <2>1 DEF HasFirst
    <2> HIDE DEF tr
    <2>6. Gains(tr, c) BY <1>1, <2>1, <2>3, <2>5, GainsKept
    <2> QED BY <1>5, <2>1, <2>4, <2>6
  <1>8. CASE PsOtherClient(m)
    <2> DEFINE tr == WithClient2(old, m.src)
    <2>1. /\ m.tid \in DOMAIN map /\ old.cl1_sk1.ip # m.src.ip
          /\ \/ PsStore(m.tid, tr) /\ Exchange(m, {PsAck(m)})
             \/ /\ Ready(tr) /\ PsErase(m.tid)
                /\ Exchange(m, {PsAck(m)} \cup PsIntroduce(tr))
      BY <1>8 DEF PsOtherClient, PsKnown
    <2>2. old \in PsTransaction /\ Party(old, m.tid) BY <1>3, <2>1
    <2>3. Party(tr, m.tid) BY <1>2, <2>1, <2>2, OtherParty
    <2>4. Gains(tr, c)
      <3>1. CASE old.cl2_sk1.ip = NoIp
        <4>1. tr = [old EXCEPT !.cl2_ts1 = now, !.cl2_sk1 = m.src]
          BY <1>1, <3>1 DEF WithClient2
        <4>2. tr.cl1_sk1 = old.cl1_sk1 /\ tr.cl2_sk1 = m.src
          BY <2>2, <4>1 DEF PsTransaction
        <4>3. ~Registered(c)
          BY <1>1, <2>1, <3>1, AtFacts DEF Registered, HasMain
        <4> HIDE DEF tr
        <4> QED BY <1>1, <1>4, <2>1, <3>1, <4>2, <4>3, GainsSecond
      <3>2. CASE old.cl2_sk1.ip = m.src.ip
        <4>1. tr = [old EXCEPT !.cl2_ts2 = now, !.cl2_sk2 = m.src]
          BY <1>1, <3>2 DEF WithClient2
        <4>2. tr.cl1_sk1 = old.cl1_sk1 /\ tr.cl2_sk1 = old.cl2_sk1
          BY <2>2, <4>1 DEF PsTransaction
        <4>3. HasFirst(old, HostOf[c]) BY <1>1, <3>2 DEF HasFirst
        <4> HIDE DEF tr
        <4> QED BY <1>1, <2>1, <4>2, <4>3, GainsKept
      <3>3. CASE old.cl2_sk1.ip # NoIp /\ old.cl2_sk1.ip # m.src.ip
        <4>1. PICK d \in Clients :
                 HostOf[d] = old.cl1_sk1.ip /\ TidOf[d] = m.tid
          BY <2>2 DEF Party, OfTransaction
        <4>2. PICK e \in Clients :
                 HostOf[e] = old.cl2_sk1.ip /\ TidOf[e] = m.tid
          BY <2>2, <3>3 DEF Party, OfTransaction
        <4>3. c # d /\ c # e /\ d # e
          BY <1>1, <2>1, <2>2, <3>3, <4>1, <4>2 DEF Party
        <4> QED BY <1>1, <4>1, <4>2, <4>3 DEF InTwos
      <3> QED BY <3>1, <3>2, <3>3
    <2> HIDE DEF tr
    <2> QED BY <1>5, <2>1, <2>3, <2>4
  <1> QED BY <1>6, <1>7, <1>8 DEF OnPsBindRequest

\* What a step of the server does: it takes a registration, or reads what is
\* not for it.
Takes(m, c, tr) ==
    /\ m \in {First(c), Second(c)}
    /\ Gains(tr, c) /\ Party(tr, m.tid)
    /\ \/ PsStore(m.tid, tr) /\ net' = (net \ {m}) \cup {PsAck(m)}
       \/ /\ Ready(tr) /\ PsErase(m.tid)
          /\ net' = (net \ {m}) \cup ({PsAck(m)} \cup PsIntroduce(tr))
Ignores(m) ==
    /\ m.type # "ps_bind_request" /\ net' = net \ {m}
    /\ UNCHANGED <<ps_transaction_client_map, introduced>>

\* The server ignores a datagram or takes a client's registration.
LEMMA ServerCases ==
    ASSUME AInv, Faultless, InTwos, ServerReceives
    PROVE  /\ UNCHANGED <<connVars, holes, now, running>>
           /\ introduced \subseteq introduced'
           /\ \E m \in net :
                 /\ m.dst \in ServerSocks
                 /\ Ignores(m) \/ \E c \in Clients : \E tr : Takes(m, c, tr)
  <1> USE DEF AInv
  <1>1. PICK m \in net : Receive(m) BY DEF ServerReceives
  <1>2. UNCHANGED <<connVars, holes>> /\ introduced \subseteq introduced'
    BY DEF ServerReceives
  <1>3. m.type \in PsTypes BY DEF ServerInv, OnlyPs
  <1>4. CASE OnPsBindRequest(m)
    <2>1. PICK c \in Clients : m \in {First(c), Second(c)}
      BY <1>4 DEF ServerInv, OnlyPs, OnPsBindRequest
    <2>2. \E tr : Takes(m, c, tr)
      BY <1>4, <2>1, RegistrationGains DEF Takes
    <2> QED BY <1>1, <1>2, <1>4, <2>2 DEF Receive, OnPsBindRequest
  <1>5. CASE OnUnexpected(m)
    <2>1. /\ m.type # "ps_bind_request" /\ net' = net \ {m}
          /\ UNCHANGED serverVars
      BY <1>5, FaultlessFacts DEF OnUnexpected
    <2>2. introduced' = introduced
      <3>1. net' \ net = {} BY <2>1
      <3> QED BY <3>1 DEF ServerReceives
    <2> QED BY <1>1, <1>2, <2>1, <2>2 DEF Receive, serverVars, Ignores
  <1> QED BY <1>1, <1>3, <1>4, <1>5
          DEF Receive, PsTypes, OnBindRequest, OnHeartbeat

\* What the server sends.
LEMMA TakesSends ==
    ASSUME NEW m \in net, NEW c \in Clients, NEW tr, Takes(m, c, tr)
    PROVE  /\ m.type = "ps_bind_request" /\ m.src.ip = HostOf[c]
           /\ m.tid = TidOf[c]
           /\ m.dst \in ServerSocks
           /\ m \notin net' /\ net \ {m} \subseteq net' /\ PsAck(m) \in net'
           /\ PsAck(m).type = "ack" /\ PsAck(m).src = m.dst
           /\ PsAck(m).dst = m.src
           /\ \A r \in net' \ net :
                 r # PsAck(m) => r.type = "ps_bind_reply" /\ r \in PsIntroduce(tr)
           /\ \A r \in PsIntroduce(tr) :
                 /\ r.type = "ps_bind_reply" /\ r.src = ServerSock(1)
                 /\ r.dst \in {tr.cl1_sk1, tr.cl2_sk1}
           /\ \A a \in {tr.cl1_sk1, tr.cl2_sk1} :
                 \E r \in PsIntroduce(tr) : r.dst = a
  <1>1. /\ m.type = "ps_bind_request" /\ m.src.ip = HostOf[c]
        /\ m.tid = TidOf[c]
        /\ m.dst \in ServerSocks
    BY RegistrationFacts, AtFacts, SockFacts DEF Takes
  <1>2. /\ PsAck(m).type = "ack" /\ PsAck(m).src = m.dst
        /\ PsAck(m).dst = m.src
    BY DEF PsAck, Empty
  <1>3. /\ \A r \in PsIntroduce(tr) :
              /\ r.type = "ps_bind_reply" /\ r.src = ServerSock(1)
              /\ r.dst \in {tr.cl1_sk1, tr.cl2_sk1}
        /\ \A a \in {tr.cl1_sk1, tr.cl2_sk1} :
              \E r \in PsIntroduce(tr) : r.dst = a
    BY DEF PsIntroduce, PsBindReply
  <1>4. \/ net' = (net \ {m}) \cup {PsAck(m)}
        \/ net' = (net \ {m}) \cup ({PsAck(m)} \cup PsIntroduce(tr))
    BY DEF Takes
  <1>5. m # PsAck(m) /\ m \notin PsIntroduce(tr) BY <1>1, <1>2, <1>3
  <1>6. /\ m \notin net' /\ net \ {m} \subseteq net' /\ PsAck(m) \in net'
        /\ \A r \in net' \ net : r = PsAck(m) \/ r \in PsIntroduce(tr)
    BY <1>4, <1>5
  <1>7. \A r \in net' \ net :
           r # PsAck(m) => r.type = "ps_bind_reply" /\ r \in PsIntroduce(tr)
    <2> SUFFICES ASSUME NEW r \in net' \ net, r # PsAck(m)
                 PROVE  r.type = "ps_bind_reply" /\ r \in PsIntroduce(tr)
      OBVIOUS
    <2>1. r \in PsIntroduce(tr) BY <1>6
    <2> QED BY <1>3, <2>1
  <1> QED BY <1>1, <1>2, <1>3, <1>6, <1>7

\* A registration that has been taken is awaited no more.
LEMMA ServerAwaited ==
    ASSUME SInv, pc' = pc, NEW m \in net, m.dst \in ServerSocks,
           Ignores(m) \/ \E c \in Clients : \E tr : Takes(m, c, tr),
           NEW d \in Clients
    PROVE  /\ Awaited(d)' \subseteq Awaited(d)
           /\ m.type = "ps_bind_request" /\ m.src.ip = HostOf[d] =>
                 m.dst \notin Awaited(d)'
           /\ m.type # "ps_bind_request" \/ m.src.ip # HostOf[d] =>
                 Awaited(d)' = Awaited(d)
  <1>1. /\ net \ {m} \subseteq net'
        /\ \A r \in net' \ net : r.type # "ps_bind_request"
        /\ m \notin net'
    BY TakesSends DEF Ignores
  <1>2. Awaited(d)' \subseteq Awaited(d) BY <1>1 DEF Awaited
  <1>3. ASSUME m.type = "ps_bind_request", m.src.ip = HostOf[d]
        PROVE  m.dst \notin Awaited(d)'
    BY <1>1, <1>3, Arrives DEF SInv
  <1>4. ASSUME m.type # "ps_bind_request" \/ m.src.ip # HostOf[d]
        PROVE  Awaited(d) \subseteq Awaited(d)'
    BY <1>1, <1>4 DEF Awaited, ServerSock, ServerSocks
  <1> QED BY <1>2, <1>3, <1>4

\* The server's side, when the server does something.
LEMMA ServerServerInv ==
    ASSUME AInv, Faultless, InTwos, ServerReceives
    PROVE  ServerInv'
  <1> USE DEF AInv
  <1> DEFINE map == ps_transaction_client_map
  <1>1. /\ UNCHANGED <<connVars, holes, now, running>>
        /\ introduced \subseteq introduced'
    BY ServerCases
  <1>2. PICK m \in net :
           /\ m.dst \in ServerSocks
           /\ Ignores(m) \/ \E c \in Clients : \E tr : Takes(m, c, tr)
    BY ServerCases
  <1>3. pc' = pc BY <1>1 DEF connVars
  <1>4. \A d \in Clients :
           /\ Awaited(d)' \subseteq Awaited(d)
           /\ m.type = "ps_bind_request" /\ m.src.ip = HostOf[d] =>
                 m.dst \notin Awaited(d)'
           /\ m.type # "ps_bind_request" \/ m.src.ip # HostOf[d] =>
                 Awaited(d)' = Awaited(d)
    BY <1>2, <1>3, ServerAwaited
  <1>5. ServerSteady' BY <1>1 DEF ServerInv, ServerSteady
  <1>6. CASE Ignores(m)
    <2>1. \A r \in net' : r \in net BY <1>6 DEF Ignores
    <2>2. map' = map /\ introduced' = introduced /\ \A d \in Clients : Awaited(d)' = Awaited(d)
      BY <1>4, <1>6 DEF Ignores
    <2>3. OnlyPs'
      <3>1. \A d : First(d)' = First(d) /\ Second(d)' = Second(d)
        BY RegistrationFacts
      <3> QED BY <2>1, <3>1 DEF ServerInv, OnlyPs, PsTypes
    <2>4. AcksAnswer' BY <2>1, <2>2, AtFacts DEF ServerInv, AcksAnswer
    <2>5. AllRegistered'
      BY <2>2, AtFacts DEF ServerInv, AllRegistered, Registered, HasMain, At
    <2>6. MainFirst' BY <2>2 DEF ServerInv, MainFirst, MainOnly, At
    <2>7. ReplyAtMain' BY <2>1, AtFacts DEF ServerInv, ReplyAtMain, MainPort
    <2> QED BY <1>5, <2>3, <2>4, <2>5, <2>6, <2>7 DEF ServerInv
  <1>7. ASSUME NEW c \in Clients, NEW tr, Takes(m, c, tr)
        PROVE  ServerInv'
    <2>1. /\ m.type = "ps_bind_request" /\ m.src.ip = HostOf[c]
          /\ m.tid = TidOf[c]
          /\ PsAck(m).type = "ack" /\ PsAck(m).src = m.dst
          /\ PsAck(m).dst = m.src
          /\ \A r \in net' \ net :
                r # PsAck(m) => r.type = "ps_bind_reply" /\ r \in PsIntroduce(tr)
          /\ \A r \in PsIntroduce(tr) :
                r.src = ServerSock(1) /\ r.dst \in {tr.cl1_sk1, tr.cl2_sk1}
      BY <1>7, TakesSends
    <2>2. Gains(tr, c) /\ Party(tr, m.tid) BY <1>7 DEF Takes
    <2>3. OnlyPs'
      <3>1. \A d : First(d)' = First(d) /\ Second(d)' = Second(d)
        BY RegistrationFacts
      <3> QED BY <2>1, <3>1 DEF ServerInv, OnlyPs, PsTypes
    <2>4. AcksAnswer'
      <3> SUFFICES ASSUME NEW r \in net', r.type = "ack"
                   PROVE  /\ r.src \in ServerSocks
                          /\ \A d \in Clients : HostOf[d] = r.dst.ip =>
                                r.src \notin Awaited(d)'
        BY AtFacts DEF AcksAnswer
      <3>1. CASE r \in net BY <1>4, <3>1 DEF ServerInv, AcksAnswer
      <3>2. CASE r = PsAck(m) BY <1>2, <1>4, <2>1, <3>2
      <3> QED BY <2>1, <3>1, <3>2
    <2>5. ReplyAtMain'
      <3> SUFFICES ASSUME NEW r \in net', r.type = "ps_bind_reply"
                   PROVE  /\ r.src = ServerSock(1)
                          /\ \A d \in Clients : HostOf[d] = r.dst.ip =>
                                r.dst = At(d, MainPort)
        BY AtFacts DEF ReplyAtMain, MainPort
      <3>1. CASE r \in net BY <3>1 DEF ServerInv, ReplyAtMain
      <3>2. CASE r \in PsIntroduce(tr)
        BY <2>1, <2>2, <3>2 DEF Gains, MainOnly
      <3> QED BY <2>1, <3>1, <3>2
    <2>6. ASSUME NEW d \in Clients, ServerSock(1) \notin Awaited(d)',
                 d \notin introduced'
          PROVE  d = c \/ Registered(d)
      <3>1. CASE HostOf[d] = HostOf[c] BY <3>1, AtFacts
      <3>2. CASE HostOf[d] # HostOf[c]
        <4>1. ServerSock(1) \notin Awaited(d) BY <1>4, <2>1, <2>6, <3>2
        <4> QED BY <1>1, <2>6, <4>1 DEF ServerInv, AllRegistered
      <3> QED BY <3>1, <3>2
    <2>7. ASSUME NEW d \in Clients, d = c \/ Registered(d), TidOf[d] = TidOf[c]
          PROVE  HasMain(tr, d)
      BY <2>2, <2>7 DEF Gains
    <2>8. CASE PsStore(m.tid, tr)
      <3>1. map' = [s \in DOMAIN map \cup {m.tid} |->
                       IF s = m.tid THEN tr ELSE map[s]]
        BY <2>8 DEF PsStore, Put
      <3> HIDE DEF map
      <3>a. DOMAIN map' = DOMAIN map \cup {m.tid} BY <3>1
      <3>b. \A s \in DOMAIN map' : map'[s] = IF s = m.tid THEN tr ELSE map[s]
        BY <3>1, <3>a
      <3>c. m.tid \in DOMAIN map' /\ map'[m.tid] = tr BY <3>a, <3>b
      <3>d. \A t \in DOMAIN map' : t # m.tid => t \in DOMAIN map /\ map'[t] = map[t]
        BY <3>a, <3>b
      <3>2. \A t \in DOMAIN map : t # m.tid => t \in DOMAIN map' /\ map'[t] = map[t]
        BY <3>a, <3>b
      <3>3. MainFirst'
        <4> SUFFICES ASSUME NEW t \in DOMAIN map' PROVE MainOnly(map'[t])
          BY DEF MainFirst, MainOnly, At, map
        <4>1. \A s \in DOMAIN map : MainOnly(map[s])
          BY DEF ServerInv, MainFirst, map
        <4> QED BY <2>2, <3>c, <3>d, <4>1 DEF Gains
      <3>4. AllRegistered'
        <4> SUFFICES ASSUME NEW d \in Clients, ServerSock(1) \notin Awaited(d)',
                            d \notin introduced'
                     PROVE  TidOf[d] \in DOMAIN map' /\ HasMain(map'[TidOf[d]], d)
          BY AtFacts DEF AllRegistered, Registered, HasMain, At, map
        <4>1. CASE TidOf[d] = TidOf[c] BY <2>1, <2>6, <2>7, <3>c, <4>1
        <4>2. CASE TidOf[d] # TidOf[c]
          <5>1. TidOf[d] \in DOMAIN map /\ HasMain(map[TidOf[d]], d)
            BY <2>6, <4>2 DEF Registered, map
          <5> QED BY <2>1, <3>2, <4>2, <5>1
        <4> QED BY <4>1, <4>2
      <3> QED BY <1>5, <2>3, <2>4, <2>5, <3>3, <3>4 DEF ServerInv
    <2>9. CASE Ready(tr) /\ PsErase(m.tid) /\ PsIntroduce(tr) \subseteq net'
      <3>1. map' = [s \in DOMAIN map \ {m.tid} |-> map[s]]
        BY <2>9 DEF PsErase, Without, Restrict
      <3>2. /\ \A t \in DOMAIN map' : t \in DOMAIN map /\ map'[t] = map[t]
            /\ \A t \in DOMAIN map : t # m.tid => t \in DOMAIN map' /\ map'[t] = map[t]
        BY <3>1
      <3> HIDE DEF map
      <3>3. MainFirst'
        <4> SUFFICES ASSUME NEW t \in DOMAIN map' PROVE MainOnly(map'[t])
          BY DEF MainFirst, MainOnly, At, map
        <4>1. \A s \in DOMAIN map : MainOnly(map[s])
          BY DEF ServerInv, MainFirst, map
        <4> QED BY <3>2, <4>1
      <3>4. ASSUME NEW d \in Clients, HasMain(tr, d) PROVE d \in introduced'
        <4>1. PICK r \in PsIntroduce(tr) : r.dst = At(d, MainPort)
          BY <1>7, <3>4, TakesSends DEF HasMain
        <4>2. Partners(r.dst.ip, r.addr_one.ip)'
          BY <2>2, <2>9, PartyIntroduced DEF SInv
        <4> QED BY <4>1, <4>2, AtFacts DEF Partners
      <3>5. AllRegistered'
        <4> SUFFICES ASSUME NEW d \in Clients, ServerSock(1) \notin Awaited(d)',
                            d \notin introduced'
                     PROVE  TidOf[d] \in DOMAIN map' /\ HasMain(map'[TidOf[d]], d)
          BY AtFacts DEF AllRegistered, Registered, HasMain, At, map
        <4>1. TidOf[d] # TidOf[c] BY <2>6, <2>7, <3>4
        <4>2. TidOf[d] \in DOMAIN map /\ HasMain(map[TidOf[d]], d)
          BY <2>6, <4>1 DEF Registered, map
        <4> QED BY <2>1, <3>2, <4>1, <4>2
      <3> QED BY <1>5, <2>3, <2>4, <2>5, <3>3, <3>5 DEF ServerInv
    <2> QED BY <1>7, <2>8, <2>9 DEF Takes
  <1> QED BY <1>2, <1>6, <1>7

\* The clients' side, when the server does something.
LEMMA ServerClientInv ==
    ASSUME AInv, Faultless, InTwos, ServerReceives
    PROVE  ClientInv'
  <1> USE DEF AInv
  <1>1. UNCHANGED <<connVars, holes>> BY ServerCases
  <1>2. PICK m \in net :
           /\ m.dst \in ServerSocks
           /\ Ignores(m) \/ \E c \in Clients : \E tr : Takes(m, c, tr)
    BY ServerCases
  <1>3. pc' = pc /\ sock' = sock BY <1>1 DEF connVars
  <1>4. \A d \in Clients : Awaited(d)' \subseteq Awaited(d)
    BY <1>2, <1>3, ServerAwaited DEF AInv
  <1>5. FirstArrived' BY <1>3, <1>4, AtFacts DEF ClientInv, FirstArrived
  <1>6. ServerHolesOpen'
    BY <1>1, <1>3 DEF ClientInv, ServerHolesOpen, At, ServerSock, MainPort,
                      SecondPort, HelperPort
  <1>7. ScanHoles' BY <1>1 DEF ClientInv, ScanHoles, ScanPorts
  <1>8. SockMain' /\ PunchHole'
    BY <1>1, <1>3, Zenon DEF ClientInv, SockMain, PunchHole, NoPeer, MainPort
  <1>9. AckComes'
    <2> SUFFICES ASSUME NEW d \in Clients, pc[d] = "await_ack2"
                 PROVE  \E r \in {Second(d), SecondAck(d)} : r \in net'
      BY <1>3, RegistrationFacts DEF AckComes
    <2>1. PICK r \in {Second(d), SecondAck(d)} : r \in net
      BY DEF ClientInv, AckComes
    <2>2. net \ {m} \subseteq net' BY <1>2, TakesSends DEF Ignores
    <2>3. CASE r # m BY <2>1, <2>2, <2>3
    <2>4. CASE r = m
      <3>1. m = Second(d) BY <1>2, <2>1, <2>4, RegistrationFacts, AtFacts
      <3>a. PICK c \in Clients : \E tr : Takes(m, c, tr)
        BY <1>2, <3>1, RegistrationFacts DEF Ignores
      <3>2. PICK tr : Takes(m, c, tr) BY <3>a
      <3>3. PsAck(m) = SecondAck(d)
        BY <3>1, RegistrationFacts DEF PsAck, SecondAck
      <3> QED BY <3>2, <3>3, TakesSends
    <2> QED BY <2>3, <2>4
  <1> QED BY <1>5, <1>6, <1>7, <1>8, <1>9 DEF ClientInv

----------------------------------------------------------------------------
(* What is kept out, and what is heard                                     *)

\* A client that waits for its peer hears at the port that it waits at.
LEMMA ListensAt ==
    ASSUME ClientInv, NEW c \in Clients, NEW s, NEW a, Awaits(c, s, a)
    PROVE  /\ s \in Listening(c)
           /\ pc[c] \in {"punch", "loop"}
           /\ CurrentTarget(c) = a
  <1>1. CASE pc[c] = "punch" /\ Sym[c] /\ s \in ScanPorts /\ scan_target[c] = a
    BY <1>1 DEF Listening, CurrentTarget
  <1>2. CASE /\ pc[c] \in {"punch", "loop"} /\ ~Sym[c]
             /\ s = MainPort /\ target[c] = a
    <2>1. sock[c] = MainPort BY <1>2, Zenon DEF ClientInv, SockMain
    <2> QED BY <1>2, <2>1 DEF Listening, CurrentTarget
  <1> QED BY <1>1, <1>2 DEF Awaits

\* A datagram that a client hears.
LEMMA Heard ==
    ASSUME NEW c \in Clients, NEW s \in Listening(c), NEW m \in net,
           m.dst = At(c, s), <<At(c, s), m.src>> \in holes
    PROVE  ~NobodyListens
BY AtFacts DEF NobodyListens, Deliverable, Admits

\* Who has been introduced, or is about to be told, hears the server.
LEMMA ReplyHeard ==
    ASSUME AInv, NEW d \in Clients, ReplyComes(d)
    PROVE  ~NobodyListens
  <1> USE DEF AInv
  <1>1. PICK m \in net : m.type = "ps_bind_reply" /\ m.dst.ip = HostOf[d]
    BY DEF ReplyComes
  <1>2. Awaited(d) = {} BY <1>1, NotIntroduced
  <1>3. NoPeer(HostOf[d]) BY <1>1 DEF SInv, HolesInv, RepliesFirst, NoPeer
  <1>4. sock[d] = MainPort BY <1>3, Zenon DEF ClientInv, SockMain
  <1>5. pc[d] \in {"await_ack2", "loop"}
    <2>1. pc[d] \in Pcs BY DEF SInv, PInv, TInv, TypeOK, ConnectorTypeOK
    <2>2. pc[d] \notin {"start", "await_ack", "second"}
      BY <1>2, EarlyAwaited
    <2>3. pc[d] # "punch" BY <1>3 DEF ClientInv, PunchHole
    <2> QED BY <2>1, <2>2, <2>3 DEF Pcs, ReplyComes
  <1>6. CASE pc[d] = "loop"
    <2>1. m.dst = At(d, MainPort) /\ m.src = ServerSock(1)
      BY <1>1 DEF ServerInv, ReplyAtMain
    <2>2. <<At(d, MainPort), ServerSock(1)>> \in holes
      BY <1>6 DEF ClientInv, ServerHolesOpen
    <2>3. MainPort \in Listening(d) BY <1>4, <1>6 DEF Listening
    <2> QED BY <2>1, <2>2, <2>3, Heard
  <1>7. CASE pc[d] = "await_ack2"
    <2>1. CASE Second(d) \in net
      BY <2>1, RegistrationFacts, SockFacts
         DEF NobodyListens, Deliverable, ServerInv, ServerSteady
    <2>2. CASE SecondAck(d) \in net
      <3>1. SecondPort(d) \in Listening(d)
        BY <1>4, <1>7, Zenon DEF Listening, SecondPort
      <3>2. <<At(d, SecondPort(d)), ServerSock(2)>> \in holes
        BY <1>7 DEF ClientInv, ServerHolesOpen
      <3> QED BY <2>2, <3>1, <3>2, RegistrationFacts, Heard
    <2> QED BY <1>7, <2>1, <2>2 DEF ClientInv, AckComes
  <1> QED BY <1>5, <1>6, <1>7

\* Where two sockets meet and one client still waits, somebody hears.
LEMMA OpenHeard ==
    ASSUME AInv, NEW c \in Clients, NEW d \in Clients, NEW s \in Ports,
           NEW r \in Ports, Open(c, s, d, r), Awaits(c, s, At(d, r))
    PROVE  ~NobodyListens
  <1> USE DEF AInv
  <1>1. /\ <<At(c, s), At(d, r)>> \in holes
        /\ <<At(d, r), At(c, s)>> \in holes
        /\ Open(d, r, c, s)
    BY DEF Open
  <1>2. Meets(c, s, d, r) /\ Meets(d, r, c, s)
    BY <1>1 DEF MeetInv, AllMeet
  <1>3. s \in Listening(c) BY ListensAt
  <1>4. CASE Awaits(d, r, At(c, s))
    <2>1. r \in Listening(d) BY <1>4, ListensAt
    <2>2. CASE ClientBindRequest(c, s, At(d, r)) \in net
      BY <1>1, <2>1, <2>2, MessageFacts, Heard
    <2>3. CASE ClientBindRequest(d, r, At(c, s)) \in net
      BY <1>1, <1>3, <2>3, MessageFacts, Heard
    <2> QED BY <1>2, <1>4, <2>2, <2>3 DEF Meets
  <1>5. CASE state[d] = "connected"
    <2>1. ClientBindResponse(d, r, At(c, s)) \in net
      BY <1>2, <1>5 DEF Meets
    <2> QED BY <1>1, <1>3, <2>1, MessageFacts, Heard
  <1> QED BY <1>2, <1>4, <1>5 DEF Meets

\* Who waits after a step.
LEMMA AwaitsNext ==
    ASSUME NEW c, NEW s, NEW d, NEW r
    PROVE  Awaits(c, s, At(d, r))' <=>
              \/ /\ pc'[c] = "punch" /\ Sym[c] /\ s \in ScanPorts
                 /\ scan_target'[c] = At(d, r)
              \/ /\ pc'[c] \in {"punch", "loop"} /\ ~Sym[c] /\ s = MainPort
                 /\ target'[c] = At(d, r)
BY DEF Awaits, At, ScanPorts, MainPort

\* A client whose own state stays waits as before.
LEMMA AwaitsStays ==
    ASSUME NEW c, NEW s, NEW d, NEW r, pc'[c] = pc[c],
           scan_target'[c] = scan_target[c], target'[c] = target[c]
    PROVE  Awaits(c, s, At(d, r))' <=> Awaits(c, s, At(d, r))
BY AwaitsNext DEF Awaits

\* Requests and answers are what they are.
LEMMA RequestsRigid ==
    ASSUME NEW c, NEW s, NEW d, NEW r
    PROVE  /\ ClientBindRequest(c, s, At(d, r))' = ClientBindRequest(c, s, At(d, r))
           /\ ClientBindResponse(c, s, At(d, r))' = ClientBindResponse(c, s, At(d, r))
BY DEF ClientBindRequest, ClientBindResponse, WithTid, At

\* What a NAT keeps out, the invariant does not count on.
LEMMA FilterKeeps ==
    ASSUME AInv, Filters
    PROVE  ServerInv' /\ ClientInv' /\ MeetInv'
  <1> USE DEF AInv
  <1>1. PICK m \in net : m.dst \in Addr /\ ~Admits(m) /\ net' = net \ {m}
    BY DEF Filters, Filter
  <1>2. UNCHANGED <<serverVars, connVars, introduced, holes>>
    BY DEF Filters, Filter
  <1>3. /\ pc' = pc /\ state' = state /\ sock' = sock /\ target' = target
        /\ scan_target' = scan_target /\ result' = result /\ holes' = holes
        /\ introduced' = introduced
        /\ ps_transaction_client_map' = ps_transaction_client_map
        /\ running' = running /\ now' = now
    BY <1>2 DEF connVars, serverVars
  <1>4. /\ m.dst.ip \in Ips /\ m.dst \notin ServerSocks
        /\ <<m.dst, m.src>> \notin holes
    BY <1>1, SockFacts DEF Addr, Admits
  <1>5. \A d \in Clients : Awaited(d)' = Awaited(d)
    BY <1>1, <1>3, <1>4 DEF Awaited, ServerSock, ServerSocks
  <1>6. ServerInv'
    <2>1. OnlyPs'
      <3>1. \A d : First(d)' = First(d) /\ Second(d)' = Second(d)
        BY RegistrationFacts
      <3> QED BY <1>1, <3>1 DEF ServerInv, OnlyPs, PsTypes
    <2>2. AcksAnswer' BY <1>1, <1>5, AtFacts DEF ServerInv, AcksAnswer
    <2>3. AllRegistered'
      BY <1>3, <1>5, AtFacts DEF ServerInv, AllRegistered, Registered, HasMain, At
    <2>4. MainFirst' BY <1>3 DEF ServerInv, MainFirst, MainOnly, At
    <2>5. ReplyAtMain' BY <1>1, AtFacts DEF ServerInv, ReplyAtMain, MainPort
    <2>6. ServerSteady' BY <1>3 DEF ServerInv, ServerSteady
    <2> QED BY <2>1, <2>2, <2>3, <2>4, <2>5, <2>6 DEF ServerInv
  <1>7. ClientInv'
    <2>1. FirstArrived' BY <1>3, <1>5, AtFacts DEF ClientInv, FirstArrived
    <2>2. ServerHolesOpen'
      BY <1>3 DEF ClientInv, ServerHolesOpen, At, ServerSock, MainPort,
                  SecondPort, HelperPort
    <2>3. ScanHoles' BY <1>3 DEF ClientInv, ScanHoles, ScanPorts
    <2>4. SockMain' /\ PunchHole'
      BY <1>3, Zenon DEF ClientInv, SockMain, PunchHole, NoPeer, MainPort
    <2>5. AckComes'
      <3> SUFFICES ASSUME NEW d \in Clients, pc[d] = "await_ack2"
                   PROVE  \E r \in {Second(d), SecondAck(d)} : r \in net'
        BY <1>3, RegistrationFacts DEF AckComes
      <3>1. PICK r \in {Second(d), SecondAck(d)} : r \in net
        BY DEF ClientInv, AckComes
      <3>2. <<At(d, SecondPort(d)), ServerSock(2)>> \in holes
        BY DEF ClientInv, ServerHolesOpen
      <3>3. r # m BY <1>4, <3>1, <3>2, RegistrationFacts, SockFacts
      <3> QED BY <1>1, <3>1, <3>3
    <2> QED BY <2>1, <2>2, <2>3, <2>4, <2>5 DEF ClientInv
  <1>8. MeetInv'
    <2>1. HolesPair' BY <1>3 DEF MeetInv, HolesPair, Partners
    <2>2. TidsAgree' BY <1>1 DEF MeetInv, TidsAgree
    <2>3. AnswerIsConnected' /\ ConnectedTold'
      BY <1>1, <1>3 DEF MeetInv, AnswerIsConnected, ConnectedTold, Succeeded
    <2>4. \A c, d : \A s, r :
             Awaits(c, s, At(d, r))' <=> Awaits(c, s, At(d, r))
      BY <1>3, AwaitsStays
    <2>5. WaitsFor'
      <3> SUFFICES ASSUME NEW c \in Clients, NEW d \in Clients, NEW s \in Ports,
                          NEW r \in Ports, <<At(c, s), At(d, r)>> \in holes,
                          ReplyComes(d)'
                   PROVE  Awaits(c, s, At(d, r))
        BY <1>3, <2>4, AtFacts DEF WaitsFor
      <3>1. ReplyComes(d) BY <1>1, <1>3 DEF ReplyComes
      <3> QED BY <3>1 DEF MeetInv, WaitsFor
    <2>6. AllMeet'
      <3> SUFFICES ASSUME NEW c \in Clients, NEW d \in Clients, NEW s \in Ports,
                          NEW r \in Ports, Open(c, s, d, r)
                   PROVE  Meets(c, s, d, r)'
        BY <1>3, AtFacts DEF AllMeet, Open
      <3>1. Meets(c, s, d, r) BY DEF MeetInv, AllMeet
      <3>2. /\ ClientBindRequest(c, s, At(d, r)) # m
            /\ ClientBindRequest(d, r, At(c, s)) # m
            /\ ClientBindResponse(d, r, At(c, s)) # m
        BY <1>4, MessageFacts DEF Open
      <3>3. /\ ClientBindRequest(c, s, At(d, r)) \in net =>
                  ClientBindRequest(c, s, At(d, r))' \in net'
            /\ ClientBindRequest(d, r, At(c, s)) \in net =>
                  ClientBindRequest(d, r, At(c, s))' \in net'
            /\ ClientBindResponse(d, r, At(c, s)) \in net =>
                  ClientBindResponse(d, r, At(c, s))' \in net'
        BY <1>1, <3>2, RequestsRigid
      <3> QED BY <1>3, <2>4, <3>1, <3>3 DEF Meets
    <2> QED BY <2>1, <2>2, <2>3, <2>5, <2>6 DEF MeetInv
  <1> QED BY <1>6, <1>7, <1>8

\* Whom the server introduces, it has not introduced before.
LEMMA ServerTells ==
    ASSUME AInv, Faultless, ServerReceives
    PROVE  NewlyTold
  <1> USE DEF AInv
  <1>1. PICK m \in net : Receive(m) BY DEF ServerReceives
  <1>2. m.type \in PsTypes BY DEF ServerInv, OnlyPs
  <1>3. CASE OnPsBindRequest(m)
    <2>1. /\ PInv /\ RegistersOnce /\ RegistrationsSpent /\ ~MayDuplicate
          /\ m.dst \in ServerSocks /\ pc' = pc
      BY <1>1 DEF SInv, Faultless, Receive, ServerReceives, connVars
    <2> QED BY <1>3, <2>1, RegistrationArrives DEF ServerReceives
  <1>4. CASE OnUnexpected(m)
    <2>1. net' = net \ {m} BY <1>4, FaultlessFacts DEF OnUnexpected
    <2> QED BY <2>1 DEF NewlyTold
  <1> QED BY <1>1, <1>2, <1>3, <1>4
          DEF Receive, PsTypes, OnBindRequest, OnHeartbeat

\* The clients that meet, when the server does something.
LEMMA ServerMeetInv ==
    ASSUME AInv, Faultless, InTwos, ServerReceives
    PROVE  MeetInv'
  <1> USE DEF AInv
  <1>1. /\ UNCHANGED <<connVars, holes>> /\ introduced \subseteq introduced'
    BY ServerCases
  <1>2. /\ pc' = pc /\ state' = state /\ target' = target
        /\ scan_target' = scan_target /\ result' = result /\ holes' = holes
    BY <1>1 DEF connVars
  <1>3. PICK m \in net :
           /\ m.dst \in ServerSocks
           /\ Ignores(m) \/ \E c \in Clients : \E tr : Takes(m, c, tr)
    BY ServerCases
  <1>4. /\ net \ {m} \subseteq net'
        /\ \A r \in net' \ net : r.type \in {"ack", "ps_bind_reply"}
    BY <1>3, TakesSends DEF Ignores
  <1>5. HolesPair'
    <2> SUFFICES ASSUME NEW h \in holes, h[2].ip \in Ips
                 PROVE  Partners(h[1].ip, h[2].ip)'
      BY <1>2 DEF HolesPair
    <2>1. Partners(h[1].ip, h[2].ip) BY DEF MeetInv, HolesPair
    <2> QED BY <1>1, <2>1, PartnersFacts
  <1>6. TidsAgree' BY <1>4 DEF MeetInv, TidsAgree
  <1>7. AnswerIsConnected' /\ ConnectedTold'
    BY <1>2, <1>4 DEF MeetInv, AnswerIsConnected, ConnectedTold, Succeeded
  <1>8. \A c, d : \A s, r : Awaits(c, s, At(d, r))' <=> Awaits(c, s, At(d, r))
    BY <1>2, AwaitsStays
  <1>9. WaitsFor'
    <2> SUFFICES ASSUME NEW c \in Clients, NEW d \in Clients, NEW s \in Ports,
                        NEW r \in Ports, <<At(c, s), At(d, r)>> \in holes,
                        ReplyComes(d)'
                 PROVE  Awaits(c, s, At(d, r))
      BY <1>2, <1>8, AtFacts DEF WaitsFor
    <2>1. PICK a \in net' : a.type = "ps_bind_reply" /\ a.dst.ip = HostOf[d]
      BY DEF ReplyComes
    <2>2. CASE a \in net
      <3>1. ReplyComes(d) BY <1>2, <2>1, <2>2 DEF ReplyComes
      <3> QED BY <3>1 DEF MeetInv, WaitsFor
    <2>3. CASE a \notin net
      <3>1. d \notin introduced BY <2>1, <2>3, ServerTells DEF NewlyTold
      <3>2. Partners(HostOf[c], HostOf[d]) BY AtFacts DEF MeetInv, HolesPair
      <3> QED BY <3>1, <3>2, AtFacts DEF Partners
    <2> QED BY <2>2, <2>3
  <1>10. AllMeet'
    <2> SUFFICES ASSUME NEW c \in Clients, NEW d \in Clients, NEW s \in Ports,
                        NEW r \in Ports, Open(c, s, d, r)
                 PROVE  Meets(c, s, d, r)'
      BY <1>2, AtFacts DEF AllMeet, Open
    <2>1. Meets(c, s, d, r) BY DEF MeetInv, AllMeet
    <2>2. /\ ClientBindRequest(c, s, At(d, r)) # m
          /\ ClientBindRequest(d, r, At(c, s)) # m
          /\ ClientBindResponse(d, r, At(c, s)) # m
      BY <1>3, MessageFacts, AtFacts
    <2>3. /\ ClientBindRequest(c, s, At(d, r)) \in net =>
                ClientBindRequest(c, s, At(d, r))' \in net'
          /\ ClientBindRequest(d, r, At(c, s)) \in net =>
                ClientBindRequest(d, r, At(c, s))' \in net'
          /\ ClientBindResponse(d, r, At(c, s)) \in net =>
                ClientBindResponse(d, r, At(c, s))' \in net'
      BY <1>4, <2>2, RequestsRigid
    <2> QED BY <1>2, <1>8, <2>1, <2>3 DEF Meets
  <1> QED BY <1>5, <1>6, <1>7, <1>9, <1>10 DEF MeetInv

----------------------------------------------------------------------------
(* Two clients that meet                                                   *)

Steps(c) == ClientRequests(c) \/ ClientHears(c) \/ ClientTimesOut(c)

\* Whatever a client does is one of the cases above.
LEMMA StepsEffects ==
    ASSUME AInv, NoFullCone, Faultless, NEW c \in Clients, Steps(c)
    PROVE  Effects(c)
BY RequestEffects, TimeoutEffects, HearEffects
   DEF AInv, ClientInv, Steps

\* A client in the loop or after the punch that does something: nobody hears
\* anything, or the client hears a datagram.
Hears(c, m) ==
    /\ m.dst.ip = HostOf[c]
    /\ m.dst.port \in Listening(c)
    /\ Admits(m)
    /\ \/ GoesOn(c, m) \/ Connects(c, m) \/ GivesUp(c, m)
       \/ \E a : PunchesTo(c, m, a)

\* What a client in the loop or after the punch does with a datagram.
LEMMA HearsCases ==
    ASSUME AInv, Faultless, NEW c \in Clients, ClientHears(c),
           pc[c] \in {"punch", "loop"}
    PROVE  \E m \in net : Hears(c, m)
  <1> USE DEF AInv
  <1>1. PICK m \in net : Admits(m) /\ Hear(c, m) BY DEF ClientHears
  <1>2. /\ m.dst.ip = HostOf[c] /\ m.dst.port \in Listening(c)
        /\ Loop(c, m) \/ PunchSucceeds(c, m)
    BY <1>1 DEF Hear, Acknowledged, AckError, NoAck
  <1>3. TInv BY DEF SInv, PInv
  <1>4. \/ GoesOn(c, m) \/ Connects(c, m) \/ GivesUp(c, m)
        \/ \E a : PunchesTo(c, m, a)
    BY <1>2, <1>3, HeardCases DEF ServerInv, MeetInv
  <1> QED BY <1>1, <1>2, <1>4 DEF Hears

\* While there is something to hear, such a client does nothing else.
LEMMA StepsCases ==
    ASSUME AInv, Faultless, NEW c \in Clients, Steps(c),
           pc[c] \in {"punch", "loop"}, ~NobodyListens
    PROVE  \E m \in net : Hears(c, m)
  <1>1. ~ClientRequests(c)
    BY DEF ClientRequests, FirstRequest, SecondRequest
  <1>2. ~ClientTimesOut(c) BY DEF ClientTimesOut, Faultless
  <1> QED BY <1>1, <1>2, HearsCases DEF Steps

\* What a waiting client hears is from the socket that it waits for: it is
\* connected, or goes on waiting after an ack.
LEMMA AwaiterHears ==
    ASSUME AInv, NoFullCone, Faultless, NEW c \in Clients, NEW d \in Clients,
           NEW s \in Ports, NEW r \in Ports, <<At(c, s), At(d, r)>> \in holes,
           Awaits(c, s, At(d, r)), NEW m \in net, Hears(c, m)
    PROVE  \/ /\ m.type = "ack" /\ net' = net \ {m}
              /\ state'[c] = state[c] /\ Awaits(c, s, At(d, r))'
           \/ /\ Connects(c, m)
              /\ m.src = At(d, r) /\ <<m.src, m.dst>> \in holes
              /\ m.dst = At(c, m.dst.port)
  <1> USE DEF AInv
  <1>1. m.dst.ip = HostOf[c] /\ m.dst.port \in Listening(c) /\ Admits(m)
    BY DEF Hears
  <1>2. /\ <<m.dst, m.src>> \in holes
        /\ m.dst = At(c, m.dst.port)
        /\ m.type \in {"client_bind_request", "client_bind_response"} =>
              <<m.src, m.dst>> \in holes /\ m.src.ip \in Ips
    BY <1>1, LetIn
  <1>3. ASSUME m.type \in {"client_bind_request", "client_bind_response"}
        PROVE  m.src = At(d, r)
    BY <1>1, <1>2, <1>3, AtFacts DEF SInv, HolesInv, OnePeer
  <1>4. m.type # "ps_bind_reply"
    BY <1>1, AtFacts DEF SInv, HolesInv, RepliesFirst
  <1>5. CurrentTarget(c) = At(d, r) BY ListensAt
  <1>6. CASE Connects(c, m) BY <1>2, <1>3, <1>6 DEF Connects
  <1>7. CASE GoesOn(c, m)
    <2>1. m.type = "ack" BY <1>3, <1>5, <1>7 DEF GoesOn
    <2>2. ~Sym[c]
      <3> SUFFICES ASSUME Sym[c] PROVE FALSE OBVIOUS
      <3>1. m.dst.port \in ScanPorts
        BY <1>1, Zenon DEF Awaits, Listening
      <3>2. m.src.ip \in Ips
        BY <1>1, <1>2, <3>1, AtFacts DEF ClientInv, ScanHoles
      <3>3. m.src \in ServerSocks BY <2>1 DEF ServerInv, AcksAnswer
      <3> QED BY <3>2, <3>3, AtFacts
    <2>3. s = MainPort BY <2>2 DEF Awaits
    <2>4. pc'[c] = "loop" /\ target'[c] = At(d, r) BY <1>5, <1>7 DEF GoesOn
    <2>5. Awaits(c, s, At(d, r))' BY <2>2, <2>3, <2>4, AwaitsNext
    <2> QED BY <1>7, <2>1, <2>5 DEF GoesOn
  <1> QED BY <1>4, <1>6, <1>7 DEF Hears, GivesUp, PunchesTo

\* A new hole to a client is a punch.
LEMMA NewHole ==
    ASSUME AInv, NoFullCone, Faultless, NEW e \in Clients, Steps(e),
           NEW h \in holes', h \notin holes, h[2].ip \in Ips
    PROVE  \E m \in net : \E a :
              /\ PunchesTo(e, m, a) /\ m.dst = At(e, MainPort)
              /\ \E k \in Sources(e, m) : h = <<At(e, k), a>>
  <1> USE DEF AInv
  <1>1. Effects(e) BY StepsEffects
  <1>2. PICK x \in net' \ net : h = <<x.src, x.dst>> BY <1>1 DEF Effects
  <1>3. Sends(e, x) BY <1>1 DEF Effects
  <1>4. x # First(e) /\ x # Second(e)
    BY <1>2, RegistrationFacts, SockFacts
  <1>5. ~ \E k, a : x = ClientBindResponse(e, k, a) /\ <<At(e, k), a>> \in holes
    <2> SUFFICES ASSUME NEW k, NEW a, x = ClientBindResponse(e, k, a),
                        <<At(e, k), a>> \in holes
                 PROVE  FALSE
      OBVIOUS
    <2> QED BY <1>2, MessageFacts
  <1>6. pc'[e] = "punch" BY <1>3, <1>4, <1>5 DEF Sends
  <1>7. pc[e] \in {"loop", "punch"} BY <1>1, <1>6 DEF Effects, Moves
  <1>8. ~ClientRequests(e)
    BY <1>7 DEF ClientRequests, FirstRequest, SecondRequest
  <1>9. ~ClientTimesOut(e)
    BY <1>6, TimeoutCases DEF SInv, PInv
  <1>10. PICK m \in net : Hears(e, m) BY <1>7, <1>8, <1>9, HearsCases DEF Steps
  <1>11. PICK a : PunchesTo(e, m, a)
    BY <1>6, <1>10 DEF Hears, GoesOn, Connects, GivesUp
  <1>12. m.dst = At(e, MainPort)
    BY <1>10, <1>11 DEF Hears, PunchesTo, ServerInv, ReplyAtMain
  <1>13. PICK k \in Sources(e, m) : x = ClientBindRequest(e, k, a)
    BY <1>2, <1>11 DEF PunchesTo
  <1> QED BY <1>2, <1>11, <1>12, <1>13, MessageFacts

\* Who punches waits, and the one it punches to has been waiting if it can
\* be reached.
LEMMA PunchMeets ==
    ASSUME AInv, NoFullCone, Faultless, NEW c \in Clients, NEW d \in Clients,
           c # d, NEW s \in Ports, NEW r \in Ports, Steps(c),
           <<At(c, s), At(d, r)>> \in holes', <<At(c, s), At(d, r)>> \notin holes
    PROVE  /\ Awaits(c, s, At(d, r))'
           /\ ClientBindRequest(c, s, At(d, r)) \in net'
           /\ state'[c] = state[c] /\ state[c] # "connected"
           /\ ReplyComes(c)
           /\ <<At(d, r), At(c, s)>> \in holes' =>
                 Awaits(d, r, At(c, s))' /\ state'[d] # "connected"
  <1> USE DEF AInv
  <1>1. PICK m \in net : \E b :
           /\ PunchesTo(c, m, b) /\ m.dst = At(c, MainPort)
           /\ \E k \in Sources(c, m) : <<At(c, s), At(d, r)>> = <<At(c, k), b>>
    BY NewHole, AtFacts
  <1>2. /\ PunchesTo(c, m, At(d, r)) /\ m.dst = At(c, MainPort)
        /\ s \in Sources(c, m)
    BY <1>1, AtFacts
  <1>3. Effects(c) BY StepsEffects
  <1>4. pc[c] # "returned" BY <1>3 DEF Effects, Moves
  <1>5. state[c] # "connected"
    BY <1>4 DEF SInv, PInv, TInv, ConnectedReturned
  <1>6. ReplyComes(c) BY <1>2, <1>4, AtFacts DEF ReplyComes, PunchesTo
  <1>7. Awaits(c, s, At(d, r))'
    <2>1. CASE Sym[c]
      BY <1>2, <2>1, AwaitsNext DEF PunchesTo, Sources
    <2>2. CASE ~Sym[c]
      BY <1>2, <2>2, AwaitsNext, AtFacts DEF PunchesTo, Sources
    <2> QED BY <2>1, <2>2
  <1>8. ASSUME <<At(d, r), At(c, s)>> \in holes'
        PROVE  Awaits(d, r, At(c, s))' /\ state'[d] # "connected"
    <2>1. <<At(d, r), At(c, s)>> \in holes
      <3> SUFFICES ASSUME <<At(d, r), At(c, s)>> \notin holes PROVE FALSE
        OBVIOUS
      <3>1. PICK x \in net' \ net : <<At(d, r), At(c, s)>> = <<x.src, x.dst>>
        BY <1>3, <1>8 DEF Effects
      <3>2. x.src.ip = HostOf[c] BY <1>3, SendsFacts DEF Effects
      <3> QED BY <3>1, <3>2, AtFacts
    <2>2. Awaits(d, r, At(c, s)) BY <1>6, <2>1 DEF MeetInv, WaitsFor
    <2>3. Awaits(d, r, At(c, s))' /\ state'[d] = state[d]
      BY <1>3, <2>2, AwaitsStays DEF Effects, OthersStay
    <2>4. pc[d] # "returned" BY <2>2 DEF Awaits
    <2> QED BY <2>3, <2>4 DEF SInv, PInv, TInv, ConnectedReturned
  <1> QED BY <1>2, <1>5, <1>6, <1>7, <1>8 DEF PunchesTo

\* Partners are two.
LEMMA PartnersTwo ==
    ASSUME NEW c \in Clients, NEW d \in Clients, Partners(HostOf[c], HostOf[d])
    PROVE  c # d /\ TidOf[c] = TidOf[d]
BY AtFacts DEF Partners

\* The simple parts, when a client does something.
LEMMA ClientPairing ==
    ASSUME AInv, NEW e \in Clients, Effects(e)
    PROVE  HolesPair' /\ TidsAgree' /\ AnswerIsConnected' /\ ConnectedTold'
  <1> USE DEF AInv
  <1>1. introduced' = introduced /\ pc[e] # "returned"
    BY DEF Effects, Moves
  <1>2. \A d \in Clients \ {e} :
           state'[d] = state[d] /\ result'[d] = result[d]
    BY DEF Effects, OthersStay
  <1>3. state[e] # "connected"
    BY <1>1 DEF SInv, PInv, TInv, ConnectedReturned
  <1>4. HolesPair'
    <2> SUFFICES ASSUME NEW h \in holes', h[2].ip \in Ips
                 PROVE  Partners(h[1].ip, h[2].ip)
      BY <1>1 DEF HolesPair, Partners
    <2>1. CASE h \in holes BY <2>1 DEF MeetInv, HolesPair
    <2>2. CASE h \notin holes
      <3>1. PICK x \in net' \ net : h = <<x.src, x.dst>>
        BY <2>2 DEF Effects
      <3>2. Sends(e, x) BY DEF Effects
      <3>3. x # First(e) /\ x # Second(e)
        BY <3>1, RegistrationFacts, SockFacts
      <3>4. ASSUME NEW k, NEW a, x = ClientBindResponse(e, k, a),
                   <<At(e, k), a>> \in holes
            PROVE  FALSE
        BY <2>2, <3>1, <3>4, MessageFacts
      <3>5. PICK k, a : x = ClientBindRequest(e, k, a) /\ Partners(HostOf[e], a.ip)
        BY <3>2, <3>3, <3>4 DEF Sends
      <3> QED BY <3>1, <3>5, MessageFacts, AtFacts
    <2> QED BY <2>1, <2>2
  <1>5. TidsAgree'
    <2> SUFFICES ASSUME NEW m \in net', m.type = "client_bind_request",
                        NEW c \in Clients, HostOf[c] = m.dst.ip
                 PROVE  m.tid = TidOf[c]
      BY DEF TidsAgree
    <2>1. CASE m \in net BY <2>1 DEF MeetInv, TidsAgree
    <2>2. CASE m \notin net
      <3>1. Sends(e, m) BY <2>2 DEF Effects
      <3>2. m # First(e) /\ m # Second(e) BY RegistrationFacts
      <3>3. \A k, a : m # ClientBindResponse(e, k, a) BY MessageFacts
      <3>4. PICK k, a : m = ClientBindRequest(e, k, a) /\ Partners(HostOf[e], a.ip)
        BY <3>1, <3>2, <3>3 DEF Sends
      <3>5. m.tid = TidOf[e] /\ m.dst = a BY <3>4, MessageFacts
      <3> QED BY <3>4, <3>5, PartnersTwo
    <2> QED BY <2>1, <2>2
  <1>6. AnswerIsConnected'
    <2> SUFFICES ASSUME NEW m \in net', m.type = "client_bind_response",
                        NEW c \in Clients, HostOf[c] = m.src.ip
                 PROVE  state'[c] = "connected"
      BY DEF AnswerIsConnected
    <2>1. CASE m \in net
      <3>1. state[c] = "connected" BY <2>1 DEF MeetInv, AnswerIsConnected
      <3> QED BY <1>2, <1>3, <3>1
    <2>2. CASE m \notin net
      <3>1. Sends(e, m) BY <2>2 DEF Effects
      <3>2. m # First(e) /\ m # Second(e) BY RegistrationFacts
      <3>3. \A k, a : m # ClientBindRequest(e, k, a) BY MessageFacts
      <3>4. state'[e] = "connected" BY <3>1, <3>2, <3>3 DEF Sends
      <3>5. m.src.ip = HostOf[e] BY <3>1, SendsFacts
      <3> QED BY <3>4, <3>5, AtFacts
    <2> QED BY <2>1, <2>2
  <1>7. ConnectedTold'
    <2> SUFFICES ASSUME NEW c \in Clients, state'[c] = "connected"
                 PROVE  Succeeded(c)'
      BY DEF ConnectedTold
    <2>1. CASE c = e BY <2>1 DEF Effects
    <2>2. CASE c # e
      <3>1. result[c] = "connection_successful"
        BY <1>2, <2>2 DEF MeetInv, ConnectedTold, Succeeded
      <3>2. result'[c] = "connection_successful" BY <1>2, <2>2, <3>1
      <3> QED BY <3>2 DEF Succeeded
    <2> QED BY <2>1, <2>2
  <1> QED BY <1>4, <1>5, <1>6, <1>7

\* Who waits for a client that may still punch goes on waiting.
LEMMA ClientWaitsFor ==
    ASSUME AInv, NoFullCone, Faultless, NEW e \in Clients, Steps(e)
    PROVE  WaitsFor'
  <1> USE DEF AInv
  <1>1. Effects(e) BY StepsEffects
  <1> SUFFICES ASSUME NEW c \in Clients, NEW d \in Clients, NEW s \in Ports,
                      NEW r \in Ports, <<At(c, s), At(d, r)>> \in holes',
                      ReplyComes(d)'
               PROVE  Awaits(c, s, At(d, r))'
    BY AtFacts DEF WaitsFor
  <1>2. ReplyComes(d)
    <2>1. PICK m \in net' : m.type = "ps_bind_reply" /\ m.dst.ip = HostOf[d]
      BY DEF ReplyComes
    <2>2. m \in net
      <3> SUFFICES ASSUME m \notin net PROVE FALSE OBVIOUS
      <3>1. Sends(e, m) BY <1>1 DEF Effects
      <3> QED BY <2>1, <3>1, SendsFacts
    <2>3. pc[d] # "returned"
      <3>1. CASE d = e BY <1>1, <3>1 DEF Effects, Moves
      <3>2. CASE d # e BY <1>1, <3>2 DEF Effects, OthersStay, ReplyComes
      <3> QED BY <3>1, <3>2
    <2> QED BY <2>1, <2>2, <2>3 DEF ReplyComes
  <1>3. CASE <<At(c, s), At(d, r)>> \in holes
    <2>1. Awaits(c, s, At(d, r)) BY <1>2, <1>3 DEF MeetInv, WaitsFor
    <2>2. CASE c # e
      BY <1>1, <2>1, <2>2, AwaitsStays DEF Effects, OthersStay
    <2>3. CASE c = e
      <3>1. pc[c] \in {"punch", "loop"} BY <2>1 DEF Awaits
      <3>2. ~NobodyListens BY <1>2, ReplyHeard
      <3>3. PICK m \in net : Hears(c, m) BY <2>3, <3>1, <3>2, StepsCases
      <3>4. CASE Awaits(c, s, At(d, r))' BY <3>4
      <3>5. CASE Connects(c, m) /\ m.src = At(d, r)
        <4>1. <<m.src, m.dst>> \in holes /\ m.dst.ip \in Ips
          BY <3>3, <3>5, LetIn, AtFacts DEF Hears, Connects
        <4> QED BY <1>2, <3>5, <4>1, AtFacts
                DEF ReplyComes, SInv, HolesInv, RepliesFirst
      <3>6. \/ /\ m.type = "ack" /\ net' = net \ {m}
               /\ state'[c] = state[c] /\ Awaits(c, s, At(d, r))'
            \/ /\ Connects(c, m)
               /\ m.src = At(d, r) /\ <<m.src, m.dst>> \in holes
               /\ m.dst = At(c, m.dst.port)
        BY <1>3, <2>1, <3>3, AwaiterHears
      <3> QED BY <3>4, <3>5, <3>6
    <2> QED BY <2>2, <2>3
  <1>4. CASE <<At(c, s), At(d, r)>> \notin holes
    <2>1. PICK x \in net' \ net : <<At(c, s), At(d, r)>> = <<x.src, x.dst>>
      BY <1>1, <1>4 DEF Effects
    <2>2. x.src.ip = HostOf[e] BY <1>1, SendsFacts DEF Effects
    <2>3. c = e BY <2>1, <2>2, AtFacts
    <2>4. HolesPair' /\ introduced' = introduced
      BY <1>1, ClientPairing DEF Effects
    <2>5. Partners(HostOf[c], HostOf[d])
      BY <2>4, AtFacts DEF HolesPair, Partners
    <2>6. c # d BY <2>5, PartnersTwo
    <2> QED BY <1>4, <2>3, <2>6, PunchMeets
  <1> QED BY <1>3, <1>4

\* The step of a client where two sockets meet.
LEMMA OpenStep ==
    ASSUME AInv, NoFullCone, Faultless, NEW c \in Clients, NEW d \in Clients,
           NEW s \in Ports, NEW r \in Ports, Open(c, s, d, r), Steps(c)
    PROVE  \/ /\ Awaits(c, s, At(d, r)) /\ Awaits(c, s, At(d, r))'
              /\ state'[c] # "connected"
              /\ \A x \in net : x.type # "ack" => x \in net'
           \/ /\ pc'[c] = "returned" /\ state'[c] = "connected"
              /\ \/ ClientBindResponse(c, s, At(d, r)) \in net'
                 \/ state[d] = "connected"
  <1> USE DEF AInv
  <1>1. /\ <<At(c, s), At(d, r)>> \in holes
        /\ <<At(d, r), At(c, s)>> \in holes
    BY DEF Open
  <1>2. Effects(c) BY StepsEffects
  <1>3. state[c] # "connected"
    BY <1>2 DEF Effects, Moves, SInv, PInv, TInv, ConnectedReturned
  <1>4. Awaits(c, s, At(d, r)) BY <1>3 DEF MeetInv, AllMeet, Meets
  <1>5. pc[c] \in {"punch", "loop"} BY <1>4 DEF Awaits
  <1>6. ~NobodyListens BY <1>4, OpenHeard
  <1>7. PICK m \in net : Hears(c, m) BY <1>5, <1>6, StepsCases
  <1>8. \/ /\ m.type = "ack" /\ net' = net \ {m}
           /\ state'[c] = state[c] /\ Awaits(c, s, At(d, r))'
        \/ /\ Connects(c, m)
           /\ m.src = At(d, r) /\ <<m.src, m.dst>> \in holes
           /\ m.dst = At(c, m.dst.port)
    BY <1>1, <1>4, <1>7, AwaiterHears
  <1>9. CASE /\ m.type = "ack" /\ net' = net \ {m}
             /\ state'[c] = state[c] /\ Awaits(c, s, At(d, r))'
    BY <1>3, <1>4, <1>9
  <1>10. CASE /\ Connects(c, m)
              /\ m.src = At(d, r) /\ <<m.src, m.dst>> \in holes
              /\ m.dst = At(c, m.dst.port)
    <2>1. m.dst = At(c, s)
      BY <1>1, <1>10, AtFacts DEF SInv, HolesInv, OnePeer
    <2>2. pc'[c] = "returned" /\ state'[c] = "connected" BY <1>10 DEF Connects
    <2>3. CASE m.type = "client_bind_request"
      <3>1. ClientBindResponse(c, m.dst.port, m.src) \in net'
        BY <1>10, <2>3 DEF Connects
      <3>2. m.dst.port = s BY <2>1, AtFacts
      <3> QED BY <1>10, <2>2, <3>1, <3>2
    <2>4. CASE m.type = "client_bind_response"
      <3>1. state[d] = "connected"
        BY <1>10, <2>4, AtFacts DEF MeetInv, AnswerIsConnected
      <3> QED BY <2>2, <3>1
    <2> QED BY <1>10, <2>3, <2>4 DEF Connects
  <1> QED BY <1>8, <1>9, <1>10

\* Where two sockets met before, they meet after the step of a client.
LEMMA StillMeet ==
    ASSUME AInv, NoFullCone, Faultless, NEW e \in Clients, Steps(e),
           NEW c \in Clients, NEW d \in Clients, c # d,
           NEW s \in Ports, NEW r \in Ports, Open(c, s, d, r)
    PROVE  Meets(c, s, d, r)'
  <1> USE DEF AInv
  <1>1. Effects(e) BY StepsEffects
  <1>2. Meets(c, s, d, r) BY DEF MeetInv, AllMeet
  <1>3. \A x \in Clients : state[x] = "connected" => pc[x] = "returned"
    BY DEF SInv, PInv, TInv, ConnectedReturned
  <1> DEFINE Q1 == ClientBindRequest(c, s, At(d, r))
             Q2 == ClientBindRequest(d, r, At(c, s))
             R == ClientBindResponse(d, r, At(c, s))
  <1>4. Q1' = Q1 /\ Q2' = Q2 /\ R' = R BY RequestsRigid
  <1>5. Q1.type # "ack" /\ Q2.type # "ack" /\ R.type # "ack" BY MessageFacts
  <1>6. /\ Awaits(c, s, At(d, r)) \/ state[c] = "connected"
        /\ Awaits(c, s, At(d, r)) /\ Awaits(d, r, At(c, s)) =>
              Q1 \in net \/ Q2 \in net
        /\ Awaits(c, s, At(d, r)) /\ state[d] = "connected" => R \in net
    BY <1>2 DEF Meets
  <1> SUFFICES /\ Awaits(c, s, At(d, r))' \/ state'[c] = "connected"
               /\ Awaits(c, s, At(d, r))' /\ Awaits(d, r, At(c, s))' =>
                     Q1 \in net' \/ Q2 \in net'
               /\ Awaits(c, s, At(d, r))' /\ state'[d] = "connected" => R \in net'
    BY <1>4 DEF Meets
  <1>7. Q1.dst = At(d, r) /\ Q2.dst = At(c, s) /\ R.dst = At(c, s)
    BY MessageFacts
  <1> HIDE DEF Q1, Q2, R
  <1>8. \A x \in Clients \ {e} : pc'[x] = pc[x] /\ state'[x] = state[x]
    BY <1>1 DEF Effects, OthersStay
  <1>9. /\ c # e => (Awaits(c, s, At(d, r))' <=> Awaits(c, s, At(d, r)))
        /\ d # e => (Awaits(d, r, At(c, s))' <=> Awaits(d, r, At(c, s)))
    BY <1>1, AwaitsStays DEF Effects, OthersStay
  <1>10. CASE e # c /\ e # d
    <2>1. \A x \in {Q1, Q2, R} : x \in net => x \in net'
      BY <1>1, <1>7, <1>10, AtFacts DEF Effects
    <2> QED BY <1>6, <1>8, <1>9, <1>10, <2>1
  <1>11. CASE e = c
    <2>1. \/ /\ Awaits(c, s, At(d, r)) /\ Awaits(c, s, At(d, r))'
             /\ state'[c] # "connected"
             /\ \A x \in net : x.type # "ack" => x \in net'
          \/ /\ pc'[c] = "returned" /\ state'[c] = "connected"
             /\ \/ ClientBindResponse(c, s, At(d, r)) \in net'
                \/ state[d] = "connected"
      BY <1>11, OpenStep
    <2>2. CASE /\ Awaits(c, s, At(d, r)) /\ Awaits(c, s, At(d, r))'
               /\ \A x \in net : x.type # "ack" => x \in net'
      BY <1>5, <1>6, <1>8, <1>9, <1>11, <2>2
    <2>3. CASE pc'[c] = "returned" /\ state'[c] = "connected"
      <3>1. ~Awaits(c, s, At(d, r))' BY <2>3, AwaitsNext
      <3> QED BY <2>3, <3>1
    <2> QED BY <2>1, <2>2, <2>3
  <1>12. CASE e = d
    <2>1. Open(d, r, c, s) BY DEF Open
    <2>2. \/ /\ Awaits(d, r, At(c, s)) /\ Awaits(d, r, At(c, s))'
             /\ state'[d] # "connected"
             /\ \A x \in net : x.type # "ack" => x \in net'
          \/ /\ pc'[d] = "returned" /\ state'[d] = "connected"
             /\ \/ ClientBindResponse(d, r, At(c, s)) \in net'
                \/ state[c] = "connected"
      BY <1>12, <2>1, OpenStep
    <2>3. CASE /\ Awaits(d, r, At(c, s)) /\ Awaits(d, r, At(c, s))'
               /\ state'[d] # "connected"
               /\ \A x \in net : x.type # "ack" => x \in net'
      BY <1>5, <1>6, <1>8, <1>9, <1>12, <2>3
    <2>4. CASE /\ pc'[d] = "returned" /\ state'[d] = "connected"
               /\ \/ ClientBindResponse(d, r, At(c, s)) \in net'
                  \/ state[c] = "connected"
      <3>1. ~Awaits(d, r, At(c, s))' BY <2>4, AwaitsNext
      <3>2. CASE state[c] = "connected"
        <4>1. ~Awaits(c, s, At(d, r)) BY <1>3, <3>2 DEF Awaits
        <4> QED BY <1>6, <1>8, <1>9, <1>12, <3>1, <3>2, <4>1
      <3>3. CASE ClientBindResponse(d, r, At(c, s)) \in net'
        <4>1. R \in net' BY <3>3 DEF R
        <4> QED BY <1>6, <1>8, <1>9, <1>12, <3>1, <4>1
      <3> QED BY <2>4, <3>2, <3>3
    <2> QED BY <2>2, <2>3, <2>4
  <1> QED BY <1>10, <1>11, <1>12

\* Sockets that come to let each other in meet, whoever steps.
LEMMA ClientAllMeet ==
    ASSUME AInv, NoFullCone, Faultless, NEW e \in Clients, Steps(e)
    PROVE  AllMeet'
  <1> USE DEF AInv
  <1>1. Effects(e) BY StepsEffects
  <1> SUFFICES ASSUME NEW c \in Clients, NEW d \in Clients, NEW s \in Ports,
                      NEW r \in Ports, <<At(c, s), At(d, r)>> \in holes',
                      <<At(d, r), At(c, s)>> \in holes'
               PROVE  Meets(c, s, d, r)'
    BY AtFacts DEF AllMeet, Open
  <1>2. HolesPair' /\ introduced' = introduced
    BY <1>1, ClientPairing DEF Effects
  <1>3. Partners(HostOf[c], HostOf[d])
    BY <1>2, AtFacts DEF HolesPair, Partners
  <1>4. c # d BY <1>3, PartnersTwo
  <1>5. ASSUME NEW x \in Clients, NEW y \in Clients, NEW i, NEW j,
               <<At(x, i), At(y, j)>> \in holes',
               <<At(x, i), At(y, j)>> \notin holes
        PROVE  x = e
    <2>1. PICK m \in net' \ net : <<At(x, i), At(y, j)>> = <<m.src, m.dst>>
      BY <1>1, <1>5 DEF Effects
    <2>2. m.src.ip = HostOf[e] BY <1>1, SendsFacts DEF Effects
    <2> QED BY <2>1, <2>2, AtFacts
  <1>6. CASE Open(c, s, d, r) BY <1>4, <1>6, StillMeet
  <1>7. CASE <<At(c, s), At(d, r)>> \notin holes
    <2>1. c = e BY <1>5, <1>7
    <2>2. /\ Awaits(c, s, At(d, r))'
          /\ ClientBindRequest(c, s, At(d, r)) \in net'
          /\ state'[d] # "connected"
      BY <1>4, <1>7, <2>1, PunchMeets
    <2>3. ClientBindRequest(c, s, At(d, r))' \in net' BY <2>2, RequestsRigid
    <2> QED BY <2>2, <2>3 DEF Meets
  <1>8. CASE <<At(d, r), At(c, s)>> \notin holes
    <2>1. d = e BY <1>5, <1>8
    <2>2. /\ ClientBindRequest(d, r, At(c, s)) \in net'
          /\ state'[d] = state[d] /\ state[d] # "connected"
          /\ Awaits(c, s, At(d, r))'
      BY <1>4, <1>8, <2>1, PunchMeets
    <2>3. ClientBindRequest(d, r, At(c, s))' \in net' BY <2>2, RequestsRigid
    <2> QED BY <2>2, <2>3 DEF Meets
  <1> QED BY <1>6, <1>7, <1>8 DEF Open

----------------------------------------------------------------------------
(* The agreement                                                           *)

\* The invariant of the agreement holds at first,
LEMMA AgreeInit ==
    ASSUME Init
    PROVE  AInv
  <1>1. net = {} /\ holes = {} /\ DOMAIN ps_transaction_client_map = {}
    BY DEF Init, ServerInit, NatInit, EmptyMap
  <1>2. \A c \in Clients : pc[c] = "start" /\ state[c] = "disconnected"
                           /\ sock[c] = MainPort
    BY DEF Init, ConnectorInit
  <1>3. \A c \in Clients : ServerSock(1) \in Awaited(c)
    BY <1>2 DEF Awaited, ServerSocks
  <1>4. ServerInv
    BY <1>1, <1>3, ServerAssumption
       DEF ServerInv, OnlyPs, ServerSteady, AcksAnswer, AllRegistered,
           MainFirst, ReplyAtMain, Init, ServerInit
  <1>5. ClientInv
    BY <1>1, <1>2 DEF ClientInv, FirstArrived, ServerHolesOpen, ScanHoles,
       AckComes, SockMain, PunchHole
  <1>6. MeetInv
    BY <1>1, <1>2 DEF MeetInv, HolesPair, TidsAgree, AnswerIsConnected,
       ConnectedTold, WaitsFor, AllMeet, Open
  <1> QED BY <1>4, <1>5, <1>6, SocketsInit DEF AInv

\* time and a stuttering step leave it,
LEMMA NothingHappens ==
    ASSUME AInv, UNCHANGED vars \/ TimePasses, MaxTime <= Expiry
    PROVE  ServerInv' /\ ClientInv' /\ MeetInv'
  <1> USE DEF AInv
  <1>1. /\ net' = net /\ holes' = holes /\ introduced' = introduced
        /\ ps_transaction_client_map' = ps_transaction_client_map
        /\ running' = running
        /\ pc' = pc /\ state' = state /\ sock' = sock /\ target' = target
        /\ scan_target' = scan_target /\ result' = result
    BY DEF vars, serverVars, connVars, TimePasses, Tick
  <1>1a. now' <= Expiry
    <2>1. CASE UNCHANGED vars
      BY <2>1 DEF vars, serverVars, ServerInv, ServerSteady
    <2>2. CASE TimePasses
      <3>1. now \in Nat BY DEF SInv, PInv, TInv, TypeOK, ServerTypeOK
      <3> QED BY <2>2, <3>1, ServerAssumption DEF TimePasses, Tick
    <2> QED BY <2>1, <2>2
  <1>2. \A c : Awaited(c)' = Awaited(c)
    BY <1>1 DEF Awaited, ServerSock, ServerSocks
  <1>3. \A c : First(c)' = First(c) /\ Second(c)' = Second(c)
               /\ SecondAck(c)' = SecondAck(c)
    BY RegistrationFacts
  <1>4. ServerInv'
    <2>1. OnlyPs' /\ ServerSteady'
      BY <1>1, <1>1a, <1>3 DEF ServerInv, OnlyPs, ServerSteady, PsTypes
    <2>2. AcksAnswer' BY <1>1, <1>2, AtFacts DEF ServerInv, AcksAnswer
    <2>3. AllRegistered'
      BY <1>1, <1>2, AtFacts
         DEF ServerInv, AllRegistered, Registered, HasMain, At
    <2>4. MainFirst' BY <1>1 DEF ServerInv, MainFirst, MainOnly, At
    <2>5. ReplyAtMain' BY <1>1, AtFacts DEF ServerInv, ReplyAtMain, MainPort
    <2> QED BY <2>1, <2>2, <2>3, <2>4, <2>5 DEF ServerInv
  <1>5. ClientInv'
    <2>1. FirstArrived' BY <1>1, <1>2, AtFacts DEF ClientInv, FirstArrived
    <2>2. ServerHolesOpen'
      BY <1>1 DEF ClientInv, ServerHolesOpen, At, ServerSock, MainPort,
                  SecondPort, HelperPort
    <2>3. ScanHoles' BY <1>1 DEF ClientInv, ScanHoles, ScanPorts
    <2>4. AckComes' BY <1>1, <1>3 DEF ClientInv, AckComes
    <2>5. SockMain' /\ PunchHole'
      BY <1>1, Zenon DEF ClientInv, SockMain, PunchHole, NoPeer, MainPort
    <2> QED BY <2>1, <2>2, <2>3, <2>4, <2>5 DEF ClientInv
  <1>6. MeetInv'
    <2>1. HolesPair' BY <1>1 DEF MeetInv, HolesPair, Partners
    <2>2. TidsAgree' BY <1>1 DEF MeetInv, TidsAgree
    <2>3. AnswerIsConnected' /\ ConnectedTold'
      BY <1>1 DEF MeetInv, AnswerIsConnected, ConnectedTold, Succeeded
    <2>4. \A c, d : \A s, r :
             Awaits(c, s, At(d, r))' <=> Awaits(c, s, At(d, r))
      BY <1>1, AwaitsStays
    <2>5. WaitsFor'
      BY <1>1, <2>4, AtFacts DEF MeetInv, WaitsFor, ReplyComes
    <2>6. AllMeet'
      <3> SUFFICES ASSUME NEW c \in Clients, NEW d \in Clients, NEW s \in Ports,
                          NEW r \in Ports, Open(c, s, d, r)
                   PROVE  Meets(c, s, d, r)'
        BY <1>1, AtFacts DEF AllMeet, Open
      <3>1. Meets(c, s, d, r) BY DEF MeetInv, AllMeet
      <3> QED BY <1>1, <2>4, <3>1, RequestsRigid DEF Meets
    <2> QED BY <2>1, <2>2, <2>3, <2>5, <2>6 DEF MeetInv
  <1> QED BY <1>4, <1>5, <1>6

\* and so does every step.
LEMMA AgreeStep ==
    ASSUME AInv, [Next]_vars, Faultless, NoFullCone, InTwos
    PROVE  AInv'
  <1>1. SInv'
    <2>1. ~MayDuplicate BY DEF Faultless
    <2> QED BY <2>1, SocketsStep, FaultlessFacts DEF AInv
  <1>2. CASE ServerReceives
    BY <1>1, <1>2, ServerServerInv, ServerClientInv, ServerMeetInv DEF AInv
  <1>3. ASSUME NEW c \in Clients, Steps(c) PROVE AInv'
    <2>1. Effects(c) BY <1>3, StepsEffects
    <2>2. ServerInv' /\ ClientInv'
      BY <2>1, ClientServerInv, ClientClientInv DEF AInv
    <2>3. HolesPair' /\ TidsAgree' /\ AnswerIsConnected' /\ ConnectedTold'
      BY <2>1, ClientPairing
    <2>4. WaitsFor' /\ AllMeet' BY <1>3, ClientWaitsFor, ClientAllMeet
    <2> QED BY <1>1, <2>2, <2>3, <2>4 DEF AInv, MeetInv
  <1>4. CASE Loses BY <1>4 DEF Loses, Lose, Faultless
  <1>5. CASE Filters BY <1>1, <1>5, FilterKeeps DEF AInv
  <1>6. CASE UNCHANGED vars \/ TimePasses
    BY <1>1, <1>6, NothingHappens DEF AInv, Faultless
  <1>7. ~ServerRestarts BY DEF ServerRestarts, Faultless
  <1> QED BY <1>2, <1>3, <1>4, <1>5, <1>6, <1>7 DEF Next, Steps

\* The partner of a connected client is connected when it has returned.
LEMMA PartnerConnected ==
    ASSUME AInv, InTwos, NEW c \in Clients, NEW d \in Clients, c # d,
           TidOf[c] = TidOf[d], Succeeded(c), pc[d] = "returned"
    PROVE  Succeeded(d)
  <1> USE DEF AInv
  <1>1. state[c] = "connected" BY DEF SInv, Told, SuccessTold
  <1>2. Partners(HostOf[c], target[c].ip) BY <1>1 DEF SInv, PInv, ConnectedPair
  <1>3. target[c].ip = HostOf[d]
    BY <1>2, AtFacts DEF Partners, InTwos
  <1>4. /\ <<Socket(c), target[c]>> \in holes
        /\ <<target[c], Socket(c)>> \in holes
    BY <1>1 DEF SInv, Told, BothWays
  <1>5. target[c] \in Addr /\ Socket(c) \in Addr
    BY <1>4 DEF SInv, PInv, TInv, TypeOK, NatTypeOK
  <1> DEFINE r == target[c].port
  <1>6. target[c] = At(d, r) /\ r \in Ports
    BY <1>3, <1>5 DEF Addr, At
  <1>7. Socket(c) = At(c, sock[c]) /\ sock[c] \in Ports
    BY <1>5 DEF Socket, Addr, At
  <1> HIDE DEF r
  <1>8. Open(d, r, c, sock[c]) BY <1>4, <1>6, <1>7 DEF Open
  <1>9. Meets(d, r, c, sock[c]) BY <1>6, <1>7, <1>8 DEF MeetInv, AllMeet
  <1>10. state[d] = "connected" BY <1>9 DEF Meets, Awaits
  <1> QED BY <1>10 DEF MeetInv, ConnectedTold

\* Of two partners, one is connected if and only if the other is
\* (p2p_ps_connector.h:237-259 and 302-396, Agreement): of the sockets that
\* their NATs come to let through to each other, none is read by one of them
\* in vain.  This holds for any clients, predictions, scan ranges and NATs
\* that let in only what is answered, where
\*   - datagrams are faster than timeouts, none is lost or duplicated, no
\*     call fails, and a sender's address is copied whole (Faultless): each
\*     of these may leave one partner waiting for what does not come; and
\*   - no more than two clients use a transaction id.
THEOREM PartnersAgree ==
    ASSUME Faultless, NoFullCone, InTwos
    PROVE  Spec => []Agreement
  <1>1. Init => AInv BY AgreeInit
  <1>2. AInv /\ [Next]_vars => AInv' BY AgreeStep
  <1>3. AInv => Agreement
    <2> SUFFICES ASSUME AInv, NEW c \in Clients, NEW d \in Clients,
                        TidOf[c] = TidOf[d],
                        pc[c] = "returned", pc[d] = "returned"
                 PROVE  Succeeded(c) <=> Succeeded(d)
      BY DEF Agreement
    <2>1. CASE c = d BY <2>1
    <2>2. CASE c # d BY <2>2, PartnerConnected
    <2> QED BY <2>1, <2>2
  <1> QED BY <1>1, <1>2, <1>3, PTL DEF Spec
=============================================================================
