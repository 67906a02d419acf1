------------------------- MODULE HolePunchPromises -------------------------
(***************************************************************************)
(* More proofs about basic hole punching: types and attempts whatever the  *)
(* network does; where it does not duplicate, who is introduced to whom    *)
(* and who a connected client's peer is; and where nothing fails or is     *)
(* late, that partners come to the same result.                            *)
(***************************************************************************)
EXTENDS HolePunchProofs, RendezvousServerProofs

(* The attempts of connect                                                 *)

\* A client in the loop has an attempt left.
Budget == \A c \in Clients : pc[c] = "loop" => attempts_left[c] # 0

\* A client told of its peer counts as introduced.
RepliesIntroduce ==
    \A m \in net, c \in Clients :
        m.type = "bind_reply" /\ m.dst = AddrOf[c] => c \in introduced

\* Connect has returned to a client that is connected.
ConnectedReturned ==
    \A c \in Clients : state[c] = "connected" => pc[c] = "returned"

TInv ==
    /\ TypeOK
    /\ Budget
    /\ RepliesIntroduce
    /\ ConnectedReturned

\* The addresses and transactions of the clients, and what they send.
LEMMA ClientFacts ==
    ASSUME NEW c \in Clients, NEW a \in SockAddr
    PROVE  /\ AddrOf[c] \in Addr
           /\ AddrOf[c] \in SockAddr
           /\ BindRequest(c) \in Datagram
           /\ ClientBindRequest(c, a) \in Datagram
           /\ ClientBindResponse(c, a) \in Datagram
           /\ BindRequest(c).type = "bind_request"
           /\ ClientBindRequest(c, a).type = "client_bind_request"
           /\ ClientBindResponse(c, a).type = "client_bind_response"
  <1>1. AddrOf[c] \in Addr /\ AddrOf[c] \in SockAddr
    BY ConnectorAssumption, AddrFacts
  <1>2. TidOf[c] \in Nat BY ConnectorAssumption, NetworkAssumption
  <1>3. stun_server_addr \in SockAddr BY AddrFacts DEF stun_server_addr
  <1>4. \A type \in TidTypes, d \in SockAddr :
           /\ WithTid(type, AddrOf[c], d, TidOf[c]) \in Datagram
           /\ WithTid(type, AddrOf[c], d, TidOf[c]).type = type
    BY <1>1, <1>2 DEF WithTid, Datagram
  <1>5. {"bind_request", "client_bind_request", "client_bind_response"}
           \subseteq TidTypes
    BY DEF TidTypes
  <1> QED BY <1>1, <1>3, <1>4, <1>5
          DEF BindRequest, ClientBindRequest, ClientBindResponse

\* What recvfrom leaves in peer_address is an address.
LEMMA PeerType ==
    ASSUME NEW old \in SockAddr, NEW src \in SockAddr
    PROVE  PeerAddress(old, src) \subseteq SockAddr
  <1>1. [ip |-> old.ip, port |-> src.port] \in SockAddr BY DEF SockAddr
  <1> QED BY <1>1 DEF PeerAddress

LEMMA SentFacts ==
    ASSUME NEW ok, NEW m
    PROVE  Sent(ok, m) \subseteq {m}
BY DEF Sent

\* The part of TInv that a step of client c can disturb besides the types of
\* what it sends.
LEMMA ClientStep ==
    ASSUME TInv, UNCHANGED <<serverVars, introduced>>,
           ConnectorTypeOK', Budget', ConnectedReturned',
           \A r \in net' \ net : r \in Datagram /\ r.type # "bind_reply"
    PROVE  TInv'
  <1>1. net' \subseteq Datagram BY DEF TInv, TypeOK, ServerTypeOK
  <1>2. ServerTypeOK' BY <1>1, OthersType DEF TInv, TypeOK
  <1>3. RepliesIntroduce' BY DEF RepliesIntroduce, TInv
  <1> QED BY <1>2, <1>3 DEF TInv, TypeOK

\* The end of an iteration keeps the types and the budget.
LEMMA EndTypes ==
    ASSUME TInv, NEW c \in Clients, NEW s \in States, NEW n \in Nat,
           pc[c] = "loop", EndIteration(c, s, n),
           target' \in [Clients -> SockAddr], peer' \in [Clients -> SockAddr]
    PROVE  ConnectorTypeOK' /\ Budget' /\ ConnectedReturned'
  <1>1. /\ state' = [state EXCEPT ![c] = s]
        /\ attempts_left' = [attempts_left EXCEPT ![c] = n]
        /\ state' \in [Clients -> States]
        /\ attempts_left' \in [Clients -> Nat]
    BY DEF EndIteration, TInv, TypeOK, ConnectorTypeOK
  <1>2. Outcome(s) \in Results
    BY DEF Outcome, Results
  <1>3. CASE s = "connected" \/ n = 0
    <2>1. /\ pc' = [pc EXCEPT ![c] = "returned"]
          /\ result' = [result EXCEPT ![c] = Outcome(s)]
      BY <1>3 DEF EndIteration
    <2>2. ConnectorTypeOK'
      BY <1>1, <1>2, <2>1 DEF TInv, TypeOK, ConnectorTypeOK
    <2>3. /\ pc'[c] = "returned"
          /\ \A d \in Clients \ {c} :
                /\ pc'[d] = pc[d]
                /\ state'[d] = state[d]
                /\ attempts_left'[d] = attempts_left[d]
      BY <1>1, <2>1 DEF TInv, TypeOK, ConnectorTypeOK
    <2> QED BY <2>2, <2>3 DEF TInv, Budget, ConnectedReturned
  <1>4. CASE ~(s = "connected" \/ n = 0)
    <2>1. pc' = pc /\ result' = result
      BY <1>4 DEF EndIteration
    <2>2. ConnectorTypeOK'
      BY <1>1, <2>1 DEF TInv, TypeOK, ConnectorTypeOK
    <2>3. /\ state'[c] # "connected"
          /\ attempts_left'[c] # 0
          /\ \A d \in Clients \ {c} :
                /\ state'[d] = state[d]
                /\ attempts_left'[d] = attempts_left[d]
      BY <1>1, <1>4 DEF TInv, TypeOK, ConnectorTypeOK
    <2> QED BY <2>1, <2>2, <2>3 DEF TInv, Budget, ConnectedReturned
  <1> QED BY <1>3, <1>4

\* The two ways of going on.
LEMMA GoOnTypes ==
    ASSUME TInv, NEW c \in Clients, pc[c] = "loop",
           KeepWaiting(c) \/ UseAttempt(c),
           target' \in [Clients -> SockAddr], peer' \in [Clients -> SockAddr]
    PROVE  ConnectorTypeOK' /\ Budget' /\ ConnectedReturned'
  <1>1. state[c] \in States /\ attempts_left[c] \in Nat /\ attempts_left[c] # 0
    BY DEF TInv, TypeOK, ConnectorTypeOK, Budget
  <1>2. attempts_left[c] - 1 \in Nat BY <1>1
  <1> QED BY <1>1, <1>2, EndTypes DEF KeepWaiting, UseAttempt

\* The steps before the loop.
LEMMA EarlyTypes ==
    ASSUME TInv, UNCHANGED <<serverVars, introduced>>,
           NEW c \in Clients, NEW m,
           \/ Connect(c) \/ AckTimeout(c) \/ AckError(c, m)
           \/ m \in net /\ Acknowledged(c, m)
    PROVE  TInv'
  <1> USE DEF TInv, TypeOK
  <1>1. CASE Connect(c)
    <2>1. /\ stun_server_addr \in SockAddr
          /\ BindRequest(c) \in Datagram
          /\ BindRequest(c).type # "bind_reply"
      BY AddrFacts, ClientFacts DEF stun_server_addr
    <2>2. \A r \in net' \ net : r \in Datagram /\ r.type # "bind_reply"
      BY <1>1, <2>1, SentFacts DEF Connect, Send
    <2>3. ConnectorTypeOK'
      BY <1>1, <2>1 DEF Connect, Fail, ConnectorTypeOK, Results
    <2>4. /\ state' = state /\ attempts_left' = attempts_left
          /\ pc'[c] \in {"await_ack", "returned"}
          /\ \A d \in Clients \ {c} : pc'[d] = pc[d]
      BY <1>1 DEF Connect, Fail, ConnectorTypeOK
    <2>5. Budget' /\ ConnectedReturned'
      BY <1>1, <2>4 DEF Connect, Budget, ConnectedReturned
    <2> QED BY <2>2, <2>3, <2>5, ClientStep
  <1>2. CASE m \in net /\ Acknowledged(c, m)
    <2>1. m.src \in SockAddr BY <1>2 DEF ServerTypeOK, Datagram
    <2>2. PICK p \in PeerAddress(peer[c], m.src) :
             peer' = [peer EXCEPT ![c] = p]
      BY <1>2 DEF Acknowledged
    <2>3. p \in SockAddr BY <2>1, PeerType DEF ConnectorTypeOK
    <2>4. peer' \in [Clients -> SockAddr]
      BY <2>2, <2>3 DEF ConnectorTypeOK
    <2>5. StunAttempts \in Nat /\ StunAttempts # 0 BY ConnectorAssumption
    <2>6. /\ pc' = [pc EXCEPT ![c] = "loop"]
          /\ state' = [state EXCEPT ![c] = "waiting_for_stun_reply"]
          /\ attempts_left' = [attempts_left EXCEPT ![c] = StunAttempts]
          /\ target' = target /\ result' = result
          /\ Exchange(m, {})
      BY <1>2 DEF Acknowledged
    <2>7. ConnectorTypeOK'
      BY <2>4, <2>5, <2>6 DEF ConnectorTypeOK, States
    <2>8. /\ state'[c] = "waiting_for_stun_reply"
          /\ attempts_left'[c] = StunAttempts
          /\ \A d \in Clients \ {c} :
                /\ pc'[d] = pc[d]
                /\ state'[d] = state[d]
                /\ attempts_left'[d] = attempts_left[d]
      BY <2>6 DEF ConnectorTypeOK
    <2>9. Budget' /\ ConnectedReturned'
      BY <2>5, <2>8 DEF Budget, ConnectedReturned
    <2>10. net' \ net = {} BY <2>6, ExchangeFacts
    <2> QED BY <2>7, <2>9, <2>10, ClientStep
  <1>3. CASE AckTimeout(c) \/ AckError(c, m)
    <2>1. /\ Fail(c) /\ target' = target /\ peer' = peer
          /\ net' = net \/ Exchange(m, {})
      BY <1>3 DEF AckTimeout, AckError, ReceiveFails
    <2>2. net' \ net = {} BY <2>1, ExchangeFacts
    <2>3. ConnectorTypeOK'
      BY <2>1 DEF Fail, ConnectorTypeOK, Results
    <2>4. /\ state' = state /\ attempts_left' = attempts_left
          /\ pc'[c] = "returned"
          /\ \A d \in Clients \ {c} : pc'[d] = pc[d]
      BY <2>1 DEF Fail, ConnectorTypeOK
    <2>5. Budget' /\ ConnectedReturned'
      BY <2>4 DEF Budget, ConnectedReturned
    <2> QED BY <2>2, <2>3, <2>5, ClientStep
  <1> QED BY <1>1, <1>2, <1>3

\* The iterations without a datagram.
LEMMA TimeoutTypes ==
    ASSUME TInv, UNCHANGED <<serverVars, introduced>>,
           NEW c \in Clients, NEW m,
           LoopTimeout(c) \/ LoopError(c, m)
    PROVE  TInv'
  <1> USE DEF TInv, TypeOK
  <1>1. /\ UseAttempt(c) /\ target' = target /\ peer' = peer
        /\ pc[c] = "loop"
    BY DEF LoopTimeout, LoopError
  <1>2. ConnectorTypeOK' /\ Budget' /\ ConnectedReturned'
    BY <1>1, GoOnTypes DEF ConnectorTypeOK
  <1>3. target[c] \in SockAddr BY DEF ConnectorTypeOK
  <1>4. CASE LoopTimeout(c)
    <2>1. \A r \in net' \ net : r = ClientBindRequest(c, target[c])
      BY <1>4, SentFacts DEF LoopTimeout, Send
    <2> QED BY <1>2, <1>3, <2>1, ClientFacts, ClientStep
  <1>5. CASE LoopError(c, m)
    <2>1. net' \ net = {}
      BY <1>5, ExchangeFacts DEF LoopError, ReceiveFails
    <2> QED BY <1>2, <2>1, ClientStep
  <1> QED BY <1>4, <1>5

\* The iterations with a datagram.
LEMMA LoopTypes ==
    ASSUME TInv, UNCHANGED <<serverVars, introduced>>,
           NEW c \in Clients, NEW m \in net, Loop(c, m)
    PROVE  TInv'
  <1> USE DEF TInv, TypeOK
  <1>1. m \in Datagram /\ m.src \in SockAddr
    BY DEF ServerTypeOK, Datagram
  <1>2. pc[c] = "loop" BY DEF Loop
  <1>3. PICK p \in PeerAddress(peer[c], m.src) :
           peer' = [peer EXCEPT ![c] = p]
    BY DEF Loop
  <1>4. p \in SockAddr BY <1>1, PeerType DEF ConnectorTypeOK
  <1>5. peer' \in [Clients -> SockAddr] /\ peer'[c] \in SockAddr
    BY <1>3, <1>4 DEF ConnectorTypeOK
  <1>6. \A a \in SockAddr :
           [target EXCEPT ![c] = a] \in [Clients -> SockAddr]
    BY DEF ConnectorTypeOK
  <1>7. target \in [Clients -> SockAddr] BY DEF ConnectorTypeOK
  <1>8. /\ PeerAttempts \in Nat /\ attempts_left[c] \in Nat
        /\ {"connected", "waiting_for_client_reply"} \subseteq States
    BY ConnectorAssumption DEF ConnectorTypeOK, States
  <1>9. CASE Exchange(m, {}) /\ target' = target
             /\ (KeepWaiting(c) \/ UseAttempt(c))
    <2>1. net' \ net = {} BY <1>9, ExchangeFacts
    <2> QED BY <1>2, <1>5, <1>7, <1>9, <2>1, GoOnTypes, ClientStep
  <1>10. CASE OnBindReply(c, m) /\ peer'[c] = stun_server_addr
    <2>1. m.addr \in SockAddr
      BY <1>1, <1>10 DEF OnBindReply, Datagram, TidTypes, EmptyTypes
    <2>2. /\ target' = [target EXCEPT ![c] = m.addr]
          /\ EndIteration(c, "waiting_for_client_reply", PeerAttempts)
          /\ \A r \in net' \ net : r = ClientBindRequest(c, m.addr)
      BY <1>10, SentFacts, ExchangeFacts DEF OnBindReply
    <2>3. ConnectorTypeOK' /\ Budget' /\ ConnectedReturned'
      BY <1>2, <1>5, <1>6, <1>8, <2>1, <2>2, EndTypes
    <2> QED BY <2>1, <2>2, <2>3, ClientFacts, ClientStep
  <1>11. CASE OnClientBindRequest(c, m) /\ ~WrongTransaction(c, m)
    <2>1. /\ target' = [target EXCEPT ![c] = peer'[c]]
          /\ EndIteration(c, "connected", attempts_left[c])
          /\ \A r \in net' \ net : r = ClientBindResponse(c, peer'[c])
      BY <1>11, SentFacts, ExchangeFacts DEF OnClientBindRequest
    <2>2. ConnectorTypeOK' /\ Budget' /\ ConnectedReturned'
      BY <1>2, <1>5, <1>6, <1>8, <2>1, EndTypes
    <2> QED BY <1>5, <2>1, <2>2, ClientFacts, ClientStep
  <1>12. CASE /\ Exchange(m, {}) /\ target' = target
              /\ EndIteration(c, "connected", attempts_left[c])
    <2>1. net' \ net = {} BY <1>12, ExchangeFacts
    <2>2. ConnectorTypeOK' /\ Budget' /\ ConnectedReturned'
      BY <1>2, <1>5, <1>7, <1>8, <1>12, EndTypes
    <2> QED BY <2>1, <2>2, ClientStep
  <1> QED BY <1>9, <1>10, <1>11, <1>12
          DEF Loop, OnBindReply, OnClientBindRequest, OnClientBindResponse,
              OnAck, OnOther

\* The server's own steps.
LEMMA ServerTypes ==
    ASSUME TInv, ServerReceives
    PROVE  TInv'
  <1>1. PICK m \in net : Receive(m) BY DEF ServerReceives
  <1>2. ServerTypeOK' BY <1>1, ReceiveType DEF TInv, TypeOK
  <1>3. connVars' = connVars BY DEF ServerReceives
  <1>4. introduced' = introduced \cup
          {c \in Clients : \E r \in net' \ net :
                r.type = "bind_reply" /\ r.dst = AddrOf[c]}
    BY DEF ServerReceives
  <1>5. introduced' \subseteq Clients BY <1>4 DEF TInv, TypeOK
  <1>6. RepliesIntroduce' BY <1>4 DEF TInv, RepliesIntroduce
  <1>7. ConnectorTypeOK' /\ Budget' /\ ConnectedReturned'
    BY <1>3 DEF connVars, TInv, TypeOK, ConnectorTypeOK, Budget,
                ConnectedReturned
  <1> QED BY <1>2, <1>5, <1>6, <1>7 DEF TInv, TypeOK

\* The steps of the network and of the server's process.
LEMMA OtherTypes ==
    ASSUME TInv, Loses \/ ServerRestarts \/ UNCHANGED vars
    PROVE  TInv'
  <1>1. /\ connVars' = connVars /\ introduced' = introduced
        /\ net' \subseteq net
    BY DEF Loses, Lose, ServerRestarts, Stop, Start, vars
  <1>2. ServerTypeOK'
    <2>1. CASE Stop \/ Start BY <2>1, RestartType DEF TInv, TypeOK
    <2>2. CASE serverVars' = serverVars
      BY <1>1, <2>2, OthersType DEF TInv, TypeOK, ServerTypeOK
    <2> QED BY <2>1, <2>2 DEF Loses, ServerRestarts, vars
  <1>3. ConnectorTypeOK' /\ Budget' /\ ConnectedReturned'
    BY <1>1 DEF connVars, TInv, TypeOK, ConnectorTypeOK, Budget,
                ConnectedReturned
  <1>4. RepliesIntroduce' BY <1>1 DEF TInv, RepliesIntroduce
  <1> QED BY <1>1, <1>2, <1>3, <1>4 DEF TInv, TypeOK

LEMMA TypesStep ==
    ASSUME TInv, [Next]_vars
    PROVE  TInv'
  <1>1. CASE ServerReceives BY <1>1, ServerTypes
  <1>2. CASE Loses \/ ServerRestarts \/ UNCHANGED vars BY <1>2, OtherTypes
  <1>3. ASSUME NEW c \in Clients, ClientStarts(c) PROVE TInv'
    BY <1>3, EarlyTypes DEF ClientStarts
  <1>4. ASSUME NEW c \in Clients, ClientTimesOut(c) PROVE TInv'
    BY <1>4, EarlyTypes, TimeoutTypes DEF ClientTimesOut, Timeout
  <1>5. ASSUME NEW c \in Clients, ClientHears(c) PROVE TInv'
    <2>1. PICK m \in net : Hear(c, m) BY <1>5 DEF ClientHears
    <2>2. UNCHANGED <<serverVars, introduced>> BY <1>5 DEF ClientHears
    <2>3. CASE Acknowledged(c, m) \/ AckError(c, m)
      BY <2>2, <2>3, EarlyTypes
    <2>4. CASE Loop(c, m) BY <2>2, <2>4, LoopTypes
    <2>5. CASE LoopError(c, m) BY <2>2, <2>5, TimeoutTypes
    <2> QED BY <2>1, <2>3, <2>4, <2>5 DEF Hear
  <1> QED BY <1>1, <1>2, <1>3, <1>4, <1>5 DEF Next, ClientRuns

LEMMA TypesInit ==
    ASSUME Init
    PROVE  TInv
  <1>1. ServerTypeOK
    BY DEF Init, ServerInit, EmptyMap, ServerTypeOK
  <1>2. ConnectorTypeOK
    BY AddrFacts DEF Init, ConnectorInit, ConnectorTypeOK, States
  <1>3. Budget /\ ConnectedReturned /\ RepliesIntroduce
    BY DEF Init, ConnectorInit, Budget, ConnectedReturned, RepliesIntroduce
  <1> QED BY <1>1, <1>2, <1>3 DEF Init, TInv, TypeOK

LEMMA TypesInvariant == Spec => []TInv
  <1>1. Init => TInv BY TypesInit
  <1>2. TInv /\ [Next]_vars => TInv' BY TypesStep
  <1> QED BY <1>1, <1>2, PTL DEF Spec

\* Whatever clients, transactions and network: every variable of the server,
\* of the network and of connect keeps its type.
THEOREM TypeCorrect == Spec => []TypeOK
  <1>1. TInv => TypeOK BY DEF TInv
  <1> QED BY <1>1, TypesInvariant, PTL

\* The end of an iteration with no more attempts than before.
LEMMA EndSpends ==
    ASSUME TInv, NEW c \in Clients, NEW s, NEW n \in Nat, pc[c] = "loop",
           EndIteration(c, s, n)
    PROVE  /\ attempts_left'[c] = n
           /\ state'[c] = s
           /\ state[c] # "connected"
           /\ \A d \in Clients \ {c} :
                 attempts_left'[d] = attempts_left[d] /\ state'[d] = state[d]
  <1>1. /\ attempts_left' = [attempts_left EXCEPT ![c] = n]
        /\ state' = [state EXCEPT ![c] = s]
    BY DEF EndIteration
  <1>2. state[c] # "connected" BY DEF TInv, ConnectedReturned
  <1> QED BY <1>1, <1>2 DEF TInv, TypeOK, ConnectorTypeOK

\* What AttemptsSpent asks of one step.
Spends ==
    \A c \in Clients :
        /\ pc[c] = "loop" /\ attempts_left'[c] > attempts_left[c] =>
              c \in introduced /\ state'[c] = "waiting_for_client_reply"
        /\ state[c] = "connected" => state'[c] = "connected"

LEMMA GoOnSpends ==
    ASSUME TInv, NEW c \in Clients, pc[c] = "loop",
           KeepWaiting(c) \/ UseAttempt(c)
           \/ EndIteration(c, "connected", attempts_left[c])
    PROVE  Spends
  <1>1. /\ \A d \in Clients : attempts_left[d] \in Nat
        /\ state[c] \in States /\ "connected" \in States
    BY DEF TInv, TypeOK, ConnectorTypeOK, States
  <1>2. attempts_left[c] # 0 BY DEF TInv, Budget
  <1>3. PICK n \in Nat, s \in States : n <= attempts_left[c] /\ EndIteration(c, s, n)
    <2> DEFINE Ended(s, n) == EndIteration(c, s, n)
    <2>1. \/ Ended(state[c], attempts_left[c])
          \/ Ended(state[c], attempts_left[c] - 1)
          \/ Ended("connected", attempts_left[c])
      BY DEF KeepWaiting, UseAttempt
    <2>2. /\ attempts_left[c] \in Nat /\ attempts_left[c] - 1 \in Nat
          /\ attempts_left[c] <= attempts_left[c]
          /\ attempts_left[c] - 1 <= attempts_left[c]
      BY <1>1, <1>2
    <2> HIDE DEF Ended
    <2>3. \E n \in Nat, s \in States : n <= attempts_left[c] /\ Ended(s, n)
      BY <1>1, <2>1, <2>2
    <2> QED BY <2>3 DEF Ended
  <1>4. /\ attempts_left'[c] = n /\ state[c] # "connected"
        /\ \A d \in Clients \ {c} :
              attempts_left'[d] = attempts_left[d] /\ state'[d] = state[d]
    BY <1>3, EndSpends
  <1>5. \A d \in Clients : ~(attempts_left'[d] > attempts_left[d])
    BY <1>1, <1>3, <1>4
  <1> QED BY <1>4, <1>5 DEF Spends

LEMMA SameSpends ==
    ASSUME TInv, attempts_left' = attempts_left, state' = state
    PROVE  Spends
  <1>1. \A d \in Clients : attempts_left[d] \in Nat
    BY DEF TInv, TypeOK, ConnectorTypeOK
  <1>2. \A d \in Clients : ~(attempts_left[d] > attempts_left[d])
    BY <1>1
  <1> QED BY <1>2 DEF Spends

LEMMA StepSpends ==
    ASSUME TInv, [Next]_vars
    PROVE  Spends
  <1>1. ASSUME NEW c \in Clients, NEW m \in net, m.dst = AddrOf[c], Loop(c, m)
        PROVE  Spends
    <2>1. pc[c] = "loop" BY <1>1 DEF Loop
    <2>2. CASE KeepWaiting(c) \/ UseAttempt(c)
               \/ EndIteration(c, "connected", attempts_left[c])
      BY <2>1, <2>2, GoOnSpends
    <2>3. CASE /\ m.type = "bind_reply"
               /\ EndIteration(c, "waiting_for_client_reply", PeerAttempts)
      <3>1. PeerAttempts \in Nat BY ConnectorAssumption
      <3>2. /\ state'[c] = "waiting_for_client_reply"
            /\ state[c] # "connected"
            /\ \A d \in Clients \ {c} :
                 attempts_left'[d] = attempts_left[d] /\ state'[d] = state[d]
        BY <2>1, <2>3, <3>1, EndSpends
      <3>3. c \in introduced BY <1>1, <2>3 DEF TInv, RepliesIntroduce
      <3>4. \A d \in Clients \ {c} : ~(attempts_left'[d] > attempts_left[d])
        BY <3>2 DEF TInv, TypeOK, ConnectorTypeOK
      <3> QED BY <3>2, <3>3, <3>4 DEF Spends
    <2> QED BY <1>1, <2>2, <2>3
            DEF Loop, OnBindReply, OnClientBindRequest, OnClientBindResponse,
                OnAck, OnOther
  <1>2. ASSUME NEW c \in Clients, NEW m, LoopTimeout(c) \/ LoopError(c, m)
        PROVE  Spends
    BY <1>2, GoOnSpends DEF LoopTimeout, LoopError
  <1>3. ASSUME NEW c \in Clients, NEW m,
               Connect(c) \/ AckTimeout(c) \/ AckError(c, m)
        PROVE  Spends
    BY <1>3, SameSpends DEF Connect, AckTimeout, AckError, Fail
  <1>4. ASSUME NEW c \in Clients, NEW m, Acknowledged(c, m)
        PROVE  Spends
    <2>1. /\ pc[c] # "loop"
          /\ state' = [state EXCEPT ![c] = "waiting_for_stun_reply"]
          /\ attempts_left' = [attempts_left EXCEPT ![c] = StunAttempts]
          /\ pc[c] = "await_ack"
      BY <1>4 DEF Acknowledged
    <2>2. state[c] # "connected" BY <2>1 DEF TInv, ConnectedReturned
    <2>3. \A d \in Clients \ {c} :
             /\ attempts_left'[d] = attempts_left[d]
             /\ state'[d] = state[d]
             /\ attempts_left[d] \in Nat
      BY <2>1 DEF TInv, TypeOK, ConnectorTypeOK
    <2>4. \A d \in Clients \ {c} : ~(attempts_left'[d] > attempts_left[d])
      BY <2>3
    <2> QED BY <2>1, <2>2, <2>3, <2>4 DEF Spends
  <1>5. CASE connVars' = connVars BY <1>5, SameSpends DEF connVars
  <1>6. ASSUME NEW c \in Clients, ClientRuns(c) PROVE Spends
    BY <1>1, <1>2, <1>3, <1>4, <1>6
    DEF ClientRuns, ClientHears, ClientTimesOut, Hear, Timeout
  <1>7. ASSUME NEW c \in Clients, ClientStarts(c) PROVE Spends
    BY <1>3, <1>7 DEF ClientStarts
  <1> QED BY <1>5, <1>6, <1>7
          DEF Next, ServerReceives, Loses, ServerRestarts, vars

\* Whatever the network loses, duplicates or delays and whenever the server
\* restarts: an attempt that is spent comes back only with an introduction,
\* and a connected client stays connected.
THEOREM AttemptsAreSpent == Spec => AttemptsSpent
  <1>1. TInv /\ [Next]_vars => [Spends]_vars BY StepSpends
  <1>2. [][Spends]_vars => AttemptsSpent BY PTL DEF Spends, AttemptsSpent
  <1> QED BY <1>1, <1>2, TypesInvariant, PTL DEF Spec

----------------------------------------------------------------------------
(* Who is introduced to whom, where the network does not duplicate         *)

\* The server has not heard of c, and has not introduced it.
New(c) ==
    /\ c \notin introduced
    /\ \A t \in DOMAIN transaction_client_map :
          transaction_client_map[t] # AddrOf[c]

\* The address of a client other than c.
Another(c, a) == \E d \in Clients \ {c} : a = AddrOf[d]

\* The client that waits, if there is one, has not been introduced.
WaiterIsNew ==
    /\ DOMAIN transaction_client_map \subseteq {0}
    /\ \A t \in DOMAIN transaction_client_map :
          \E c \in Clients \ introduced : transaction_client_map[t] = AddrOf[c]

\* A request that the server has not read is its sender's only one.
RequestsNew ==
    /\ \A c \in Clients : pc[c] = "start" =>
          New(c) /\ BindRequest(c) \notin net
    /\ \A m \in net : m.type = "bind_request" =>
          \E c \in Clients : m = BindRequest(c) /\ New(c)

\* Introductions and what clients send each other go from one client's
\* address to another's.
RepliesName ==
    \A m \in net, c \in Clients :
        m.type = "bind_reply" /\ m.dst = AddrOf[c] => Another(c, m.addr)

RepliesArrive ==
    \A m \in net : m.type = "bind_reply" =>
        \E c \in introduced : m.dst = AddrOf[c]

PeersMeet ==
    \A m \in net, c \in Clients :
        /\ m.type \in {"client_bind_request", "client_bind_response"}
        /\ m.dst = AddrOf[c]
        => Another(c, m.src)

WaitingFor ==
    \A c \in Clients : state[c] = "waiting_for_client_reply" =>
        c \in introduced /\ Another(c, target[c])

Peers ==
    /\ WaiterIsNew /\ RequestsNew
    /\ RepliesName /\ RepliesArrive /\ PeersMeet
    /\ WaitingFor /\ PeerIsAnother

PInv == TInv /\ IInv /\ Peers

\* A request of another client is another datagram.
LEMMA RequestFacts ==
    ASSUME NEW c \in Clients, NEW d \in Clients
    PROVE  /\ BindRequest(c).type = "bind_request"
           /\ BindRequest(c).src = AddrOf[c]
           /\ BindRequest(c) = BindRequest(d) => c = d
           /\ AddrOf[c] = AddrOf[d] => c = d
  <1>1. \A e : /\ BindRequest(e).src = AddrOf[e]
               /\ BindRequest(e).type = "bind_request"
    BY DEF BindRequest, WithTid
  <1>2. AddrOf[c] = AddrOf[d] => c = d BY ConnectorAssumption
  <1> QED BY <1>1, <1>2

\* A step of c keeps the invariant if it learns of its peer from another
\* client or the server, and sends what it may.
LEMMA PeersClient ==
    ASSUME Peers, UNCHANGED <<transaction_client_map, introduced>>,
           NEW c \in Clients,
           \A d \in Clients \ {c} :
               pc'[d] = pc[d] /\ state'[d] = state[d] /\ target'[d] = target[d],
           pc'[c] # "start",
           state'[c] = "waiting_for_client_reply" =>
               c \in introduced /\ Another(c, target'[c]),
           state'[c] = "connected" => Another(c, target'[c]),
           \A r \in net' \ net :
               /\ r.type # "bind_reply"
               /\ r.type = "bind_request" => r = BindRequest(c) /\ New(c)
               /\ r.type \in {"client_bind_request", "client_bind_response"} =>
                     \A d \in Clients : r.dst = AddrOf[d] => Another(d, r.src)
    PROVE  Peers'
  <1> USE DEF Peers
  <1>1. \A d : New(d)' <=> New(d) BY DEF New
  <1>2. WaiterIsNew' BY DEF WaiterIsNew
  <1>3. RequestsNew'
    <2>1. ASSUME NEW d \in Clients, pc'[d] = "start"
          PROVE  New(d)' /\ BindRequest(d) \notin net'
      <3>1. d # c /\ pc[d] = "start" BY <2>1
      <3>2. New(d) /\ BindRequest(d) \notin net BY <3>1 DEF RequestsNew
      <3>3. BindRequest(d) # BindRequest(c) BY <3>1, RequestFacts
      <3>4. BindRequest(d).type = "bind_request" BY RequestFacts
      <3> QED BY <1>1, <3>2, <3>3, <3>4
    <2>2. ASSUME NEW m \in net', m.type = "bind_request"
          PROVE  \E d \in Clients : m = BindRequest(d) /\ New(d)'
      BY <1>1, <2>2 DEF RequestsNew
    <2>3. \A d : BindRequest(d)' = BindRequest(d)
      BY DEF BindRequest, WithTid, stun_server_addr
    <2> QED BY <2>1, <2>2, <2>3 DEF RequestsNew
  <1>4. RepliesName' BY DEF RepliesName, Another
  <1>5. RepliesArrive' BY DEF RepliesArrive
  <1>6. PeersMeet'
    <2>1. ASSUME NEW m \in net', NEW d \in Clients, m.dst = AddrOf[d],
                 m.type \in {"client_bind_request", "client_bind_response"}
          PROVE  Another(d, m.src)
      BY <2>1 DEF PeersMeet
    <2> QED BY <2>1 DEF PeersMeet, Another
  <1>7. WaitingFor'
    BY DEF WaitingFor, Another
  <1>8. PeerIsAnother'
    BY DEF PeerIsAnother, Another
  <1> QED BY <1>2, <1>3, <1>4, <1>5, <1>6, <1>7, <1>8

\* What c sends to another client's address, that client reads as another's.
LEMMA MeetFacts ==
    ASSUME NEW c \in Clients, NEW a, Another(c, a), NEW r,
           r \in {ClientBindRequest(c, a), ClientBindResponse(c, a)}
    PROVE  /\ r.type \in {"client_bind_request", "client_bind_response"}
           /\ \A d \in Clients : r.dst = AddrOf[d] => Another(d, r.src)
  <1>1. /\ r.src = AddrOf[c] /\ r.dst = a
        /\ r.type \in {"client_bind_request", "client_bind_response"}
    BY DEF ClientBindRequest, ClientBindResponse, WithTid
  <1>2. PICK e \in Clients \ {c} : a = AddrOf[e] BY DEF Another
  <1>3. \A d \in Clients : a = AddrOf[d] => d = e BY <1>2, RequestFacts
  <1> QED BY <1>1, <1>2, <1>3 DEF Another

\* What the end of an iteration leaves of the other clients.
LEMMA EndOthers ==
    ASSUME PInv, NEW c \in Clients, NEW s, NEW n, pc[c] = "loop",
           EndIteration(c, s, n)
    PROVE  /\ state'[c] = s
           /\ pc'[c] # "start"
           /\ \A d \in Clients \ {c} : pc'[d] = pc[d] /\ state'[d] = state[d]
BY DEF EndIteration, PInv, IInv, Domains

\* An iteration that learns nothing and asks at most the known peer.
LEMMA IdlePeers ==
    ASSUME PInv, UNCHANGED <<transaction_client_map, introduced, target>>,
           NEW c \in Clients, pc[c] = "loop", KeepWaiting(c) \/ UseAttempt(c),
           \A r \in net' \ net :
               /\ r = ClientBindRequest(c, target[c])
               /\ state[c] = "waiting_for_client_reply"
    PROVE  Peers'
  <1>1. /\ state'[c] = state[c] /\ pc'[c] # "start"
        /\ \A d \in Clients \ {c} : pc'[d] = pc[d] /\ state'[d] = state[d]
    BY EndOthers DEF KeepWaiting, UseAttempt
  <1>2. /\ state[c] = "waiting_for_client_reply" =>
              c \in introduced /\ Another(c, target[c])
        /\ state[c] # "connected"
    BY DEF PInv, Peers, WaitingFor, TInv, ConnectedReturned
  <1>3. \A r \in net' \ net :
           /\ r.type \in {"client_bind_request", "client_bind_response"}
           /\ \A d \in Clients : r.dst = AddrOf[d] => Another(d, r.src)
    BY <1>2, MeetFacts
  <1>4. \A r \in net' \ net : r.type # "bind_reply" /\ r.type # "bind_request"
    BY <1>3
  <1>5. state'[c] # "connected" BY <1>1, <1>2
  <1> QED BY <1>1, <1>2, <1>3, <1>4, <1>5, PeersClient DEF PInv

\* The steps before the loop.
LEMMA EarlyPeers ==
    ASSUME PInv, UNCHANGED <<serverVars, introduced>>,
           NEW c \in Clients, NEW m,
           Connect(c) \/ Acknowledged(c, m) \/ AckTimeout(c) \/ AckError(c, m)
    PROVE  Peers'
  <1> USE DEF PInv
  <1>1. transaction_client_map' = transaction_client_map BY DEF serverVars
  <1>2. CASE Connect(c)
    <2>1. /\ state' = state /\ pc'[c] # "start" /\ pc[c] = "start"
          /\ \A d \in Clients \ {c} : pc'[d] = pc[d] /\ target'[d] = target[d]
      BY <1>2 DEF Connect, Fail, IInv, Domains
    <2>2. state[c] = "disconnected" BY <2>1 DEF IInv, EarlyStates
    <2>3. New(c) BY <2>1 DEF Peers, RequestsNew
    <2>4. \A r \in net' \ net :
             r = BindRequest(c) /\ r.type = "bind_request"
      BY <1>2, SentFacts, RequestFacts DEF Connect, Send
    <2> QED BY <1>1, <2>1, <2>2, <2>3, <2>4, PeersClient
  <1>3. CASE Acknowledged(c, m) \/ AckTimeout(c) \/ AckError(c, m)
    <2>1. /\ target' = target /\ pc[c] = "await_ack" /\ pc'[c] # "start"
          /\ \A d \in Clients \ {c} : pc'[d] = pc[d] /\ state'[d] = state[d]
          /\ state'[c] \in {state[c], "waiting_for_stun_reply"}
          /\ net' = net \/ Exchange(m, {})
      BY <1>3 DEF Acknowledged, AckTimeout, AckError, ReceiveFails, Fail,
                  IInv, Domains
    <2>2. state[c] = "disconnected" BY <2>1 DEF IInv, EarlyStates
    <2>3. net' \ net = {} BY <2>1, ExchangeFacts
    <2> QED BY <1>1, <2>1, <2>2, <2>3, PeersClient
  <1> QED BY <1>2, <1>3

\* The iterations without a datagram.
LEMMA TimeoutPeers ==
    ASSUME PInv, UNCHANGED <<serverVars, introduced>>,
           NEW c \in Clients, NEW m, LoopTimeout(c) \/ LoopError(c, m)
    PROVE  Peers'
  <1>1. transaction_client_map' = transaction_client_map BY DEF serverVars
  <1>2. \A r \in net' \ net :
           /\ r = ClientBindRequest(c, target[c])
           /\ state[c] = "waiting_for_client_reply"
    BY SentFacts, ExchangeFacts DEF LoopTimeout, LoopError, ReceiveFails, Send
  <1> QED BY <1>1, <1>2, IdlePeers DEF LoopTimeout, LoopError

\* The iterations with a datagram: the peer is the one of an introduction, or
\* the sender of a request, or the target of an earlier introduction.
LEMMA LoopPeers ==
    ASSUME PInv, UNCHANGED <<serverVars, introduced>>,
           LenValues \subseteq {"full", "negative"},
           NEW c \in Clients, NEW m \in net, m.dst = AddrOf[c], Loop(c, m)
    PROVE  Peers'
  <1> USE DEF PInv
  <1>1. transaction_client_map' = transaction_client_map BY DEF serverVars
  <1>2. pc[c] = "loop" /\ peer'[c] = m.src
    BY DEF Loop, PeerAddress, IInv, Domains
  <1>3. CASE Exchange(m, {}) /\ target' = target
             /\ (KeepWaiting(c) \/ UseAttempt(c))
    <2>1. net' \ net = {} BY <1>3, ExchangeFacts
    <2> QED BY <1>1, <1>2, <1>3, <2>1, IdlePeers
  <1>4. CASE OnBindReply(c, m) /\ peer'[c] = stun_server_addr
    <2>1. /\ m.type = "bind_reply"
          /\ target' = [target EXCEPT ![c] = m.addr]
          /\ EndIteration(c, "waiting_for_client_reply", PeerAttempts)
          /\ \A r \in net' \ net : r = ClientBindRequest(c, m.addr)
      BY <1>4, SentFacts, ExchangeFacts DEF OnBindReply
    <2>2. Another(c, m.addr) BY <2>1 DEF Peers, RepliesName
    <2>3. c \in introduced BY <2>1 DEF TInv, RepliesIntroduce
    <2>4. /\ state'[c] = "waiting_for_client_reply"
          /\ pc'[c] # "start"
          /\ \A d \in Clients \ {c} : pc'[d] = pc[d] /\ state'[d] = state[d]
      BY <1>2, <2>1, EndOthers
    <2>5. /\ target'[c] = m.addr
          /\ \A d \in Clients \ {c} : target'[d] = target[d]
      BY <2>1 DEF IInv, Domains
    <2>6. \A r \in net' \ net :
             /\ r.type \in {"client_bind_request", "client_bind_response"}
             /\ \A d \in Clients : r.dst = AddrOf[d] => Another(d, r.src)
      BY <2>1, <2>2, MeetFacts
    <2>7. \A r \in net' \ net : r.type # "bind_reply" /\ r.type # "bind_request"
      BY <2>6
    <2> QED BY <1>1, <2>2, <2>3, <2>4, <2>5, <2>6, <2>7, PeersClient
  <1>5. CASE OnClientBindRequest(c, m) /\ ~WrongTransaction(c, m)
    <2>1. /\ m.type = "client_bind_request"
          /\ target' = [target EXCEPT ![c] = m.src]
          /\ EndIteration(c, "connected", attempts_left[c])
          /\ \A r \in net' \ net : r = ClientBindResponse(c, m.src)
      BY <1>2, <1>5, SentFacts, ExchangeFacts DEF OnClientBindRequest
    <2>2. Another(c, m.src) BY <2>1 DEF Peers, PeersMeet
    <2>3. /\ state'[c] = "connected"
          /\ pc'[c] # "start"
          /\ \A d \in Clients \ {c} : pc'[d] = pc[d] /\ state'[d] = state[d]
      BY <1>2, <2>1, EndOthers
    <2>4. /\ target'[c] = m.src
          /\ \A d \in Clients \ {c} : target'[d] = target[d]
      BY <2>1 DEF IInv, Domains
    <2>5. \A r \in net' \ net :
             /\ r.type \in {"client_bind_request", "client_bind_response"}
             /\ \A d \in Clients : r.dst = AddrOf[d] => Another(d, r.src)
      BY <2>1, <2>2, MeetFacts
    <2>6. \A r \in net' \ net : r.type # "bind_reply" /\ r.type # "bind_request"
      BY <2>5
    <2> QED BY <1>1, <2>2, <2>3, <2>4, <2>5, <2>6, PeersClient
  <1>6. CASE OnClientBindResponse(c, m) /\ peer'[c] = target[c]
    <2>1. /\ m.type = "client_bind_response"
          /\ target' = target
          /\ EndIteration(c, "connected", attempts_left[c])
          /\ net' \ net = {}
      BY <1>6, ExchangeFacts DEF OnClientBindResponse
    <2>2. Another(c, target[c]) BY <1>2, <1>6, <2>1 DEF Peers, PeersMeet
    <2>3. /\ state'[c] = "connected"
          /\ pc'[c] # "start"
          /\ \A d \in Clients \ {c} : pc'[d] = pc[d] /\ state'[d] = state[d]
      BY <1>2, <2>1, EndOthers
    <2> QED BY <1>1, <2>1, <2>2, <2>3, PeersClient
  <1> QED BY <1>3, <1>4, <1>5, <1>6
          DEF Loop, OnBindReply, OnClientBindRequest, OnClientBindResponse,
              OnAck, OnOther

\* A step that introduces nobody and changes no map keeps the invariant, if
\* nothing of what the clients read is sent.
LEMMA QuietPeers ==
    ASSUME PInv, UNCHANGED <<connVars, introduced>>,
           \/ transaction_client_map' = transaction_client_map
           \/ DOMAIN transaction_client_map' = {},
           \A r \in net' \ net : r.type \notin
               {"bind_request", "bind_reply",
                "client_bind_request", "client_bind_response"}
    PROVE  Peers'
  <1> USE DEF PInv, Peers
  <1>1. \A d : New(d) => New(d)' BY DEF New
  <1>2. WaiterIsNew' BY DEF WaiterIsNew
  <1>3. RequestsNew'
    <2>1. \A d \in Clients : BindRequest(d).type = "bind_request"
      BY RequestFacts
    <2>2. ASSUME NEW d \in Clients, pc'[d] = "start"
          PROVE  New(d)' /\ BindRequest(d) \notin net'
      BY <1>1, <2>1, <2>2 DEF RequestsNew, connVars
    <2>3. ASSUME NEW m \in net', m.type = "bind_request"
          PROVE  \E d \in Clients : m = BindRequest(d) /\ New(d)'
      BY <1>1, <2>3 DEF RequestsNew
    <2> QED BY <2>2, <2>3 DEF RequestsNew, BindRequest, WithTid, stun_server_addr
  <1>4. RepliesName' /\ RepliesArrive' /\ PeersMeet'
    BY DEF RepliesName, RepliesArrive, PeersMeet, Another
  <1>5. WaitingFor' /\ PeerIsAnother'
    BY DEF WaitingFor, PeerIsAnother, Another, connVars
  <1> QED BY <1>2, <1>3, <1>4, <1>5

\* What the server sends to the clients of this protocol: acks, and the two
\* introductions when a second client's request is read.
LEMMA BindReplyFacts ==
    ASSUME NEW a, NEW b
    PROVE  /\ BindReply(ServerSock(1), a, b).type = "bind_reply"
           /\ BindReply(ServerSock(1), a, b).dst = a
           /\ BindReply(ServerSock(1), a, b).addr = b
BY DEF BindReply

LEMMA OthersSend ==
    ASSUME NEW m \in net, OnPsBindRequest(m) \/ OnHeartbeat(m) \/ OnUnexpected(m)
    PROVE  \A r \in net' \ net : r.type \in {"ack", "ps_bind_reply"}
  <1>1. \A s, d : Empty("ack", s, d).type = "ack" BY DEF Empty
  <1>2. \A tr : \A r \in PsIntroduce(tr) : r.type = "ps_bind_reply"
    BY DEF PsIntroduce, PsBindReply
  <1>3. PsAck(m).type = "ack" BY <1>1 DEF PsAck
  <1>4. \A out : Exchange(m, out) => net' \ net \subseteq out
    BY ExchangeFacts
  <1>5. CASE OnPsBindRequest(m)
    BY <1>2, <1>3, <1>4, <1>5
       DEF OnPsBindRequest, PsFirstClient, PsFirstClientAgain, PsOtherClient
  <1>6. CASE OnHeartbeat(m) BY <1>1, <1>4, <1>6 DEF OnHeartbeat
  <1>7. CASE OnUnexpected(m) BY <1>4, <1>7 DEF OnUnexpected
  <1> QED BY <1>5, <1>6, <1>7

\* A client's request, read once: it waits, or meets the client that waited.
LEMMA RequestPeers ==
    ASSUME PInv, ~MayDuplicate, NEW m \in net, OnBindRequest(m),
           UNCHANGED connVars,
           introduced' = introduced \cup
              {c \in Clients : \E r \in net' \ net :
                    r.type = "bind_reply" /\ r.dst = AddrOf[c]}
    PROVE  Peers'
  <1> USE DEF PInv, Peers
  <1> DEFINE ack == Empty("ack", ServerSock(1), m.src)
             map == transaction_client_map
  <1>1. PICK c \in Clients : m = BindRequest(c) /\ New(c)
    BY DEF OnBindRequest, RequestsNew
  <1>2. m.src = AddrOf[c] BY <1>1, RequestFacts
  <1>3. ack.type = "ack" BY DEF Empty
  <1>4. pc[c] # "start" BY <1>1 DEF RequestsNew
  <1>5. \A out : Exchange(m, out) => net' = (net \ {m}) \cup out
    BY DEF Exchange
  <1>6. WaitingFor' /\ PeerIsAnother'
    BY DEF WaitingFor, PeerIsAnother, Another, connVars
  <1>7. \A d \in Clients : BindRequest(d)' = BindRequest(d)
    BY DEF BindRequest, WithTid, stun_server_addr
  <1>8. \A d \in Clients : BindRequest(d).type = "bind_request" BY RequestFacts
  <1>9. \A d \in Clients : AddrOf[d] = AddrOf[c] => d = c BY RequestFacts
  <1>10. CASE /\ 0 \notin DOMAIN map
              /\ transaction_client_map' = Put(map, 0, AddrOf[c])
              /\ Exchange(m, {ack})
    <2>1. net' = (net \ {m}) \cup {ack} BY <1>5, <1>10
    <2>2. introduced' = introduced BY <1>3, <2>1, Zenon
    <2>3. DOMAIN map = {} BY <1>10 DEF WaiterIsNew
    <2>4. /\ DOMAIN transaction_client_map' = {0}
          /\ transaction_client_map'[0] = AddrOf[c]
      BY <1>10, <2>3 DEF Put
    <2>5. WaiterIsNew' BY <1>1, <2>2, <2>4 DEF WaiterIsNew, New
    <2>6. \A d \in Clients : New(d) /\ d # c => New(d)'
      BY <1>9, <2>2, <2>4 DEF New
    <2>7. RequestsNew'
      <3>1. ASSUME NEW d \in Clients, pc'[d] = "start"
            PROVE  New(d)' /\ BindRequest(d) \notin net'
        <4>1. pc[d] = "start" /\ d # c BY <1>4, <3>1 DEF connVars
        <4> QED BY <1>3, <1>8, <2>1, <2>6, <4>1 DEF RequestsNew
      <3>2. ASSUME NEW r \in net', r.type = "bind_request"
            PROVE  \E d \in Clients : r = BindRequest(d) /\ New(d)'
        <4>1. r \in net /\ r # m BY <1>3, <2>1, <3>2
        <4>2. PICK d \in Clients : r = BindRequest(d) /\ New(d)
          BY <3>2, <4>1 DEF RequestsNew
        <4> QED BY <1>1, <2>6, <4>1, <4>2
      <3> QED BY <1>7, <3>1, <3>2 DEF RequestsNew
    <2>8. RepliesName' /\ RepliesArrive' /\ PeersMeet'
      BY <1>3, <2>1, <2>2 DEF RepliesName, RepliesArrive, PeersMeet, Another
    <2> QED BY <1>6, <2>5, <2>7, <2>8
  <1>11. CASE /\ 0 \in DOMAIN map
              /\ transaction_client_map' = Without(map, 0)
              /\ Exchange(m, {ack} \cup Introduce(AddrOf[c], map[0]))
    <2>1. PICK e \in Clients \ introduced : map[0] = AddrOf[e]
      BY <1>11 DEF WaiterIsNew
    <2>2. e # c /\ ~New(e) BY <1>1, <1>11, <2>1 DEF New
    <2> DEFINE toC == BindReply(ServerSock(1), AddrOf[c], AddrOf[e])
               toE == BindReply(ServerSock(1), AddrOf[e], AddrOf[c])
    <2>3. net' = (net \ {m}) \cup {ack, toC, toE}
      BY <1>5, <1>11, <2>1 DEF Introduce
    <2>4. /\ toC.type = "bind_reply" /\ toC.dst = AddrOf[c] /\ toC.addr = AddrOf[e]
          /\ toE.type = "bind_reply" /\ toE.dst = AddrOf[e] /\ toE.addr = AddrOf[c]
      BY BindReplyFacts
    <2> HIDE DEF toC, toE, ack
    <2>5. \A d \in Clients : AddrOf[d] = AddrOf[e] => d = e BY <2>1, RequestFacts
    <2>6. toC \notin net /\ toE \notin net
      <3>1. c \notin introduced /\ e \notin introduced BY <1>1, <2>1 DEF New
      <3>2. introduced \subseteq Clients BY DEF TInv, TypeOK
      <3> QED BY <1>9, <2>4, <2>5, <3>1, <3>2 DEF RepliesArrive
    <2>7. introduced' = introduced \cup {c, e}
      <3>1. \A r \in net' \ net : r \in {ack, toC, toE} BY <2>3
      <3>2. toC \in net' \ net /\ toE \in net' \ net BY <2>3, <2>6
      <3>3. \A d \in Clients :
               (\E r \in net' \ net : r.type = "bind_reply" /\ r.dst = AddrOf[d])
               <=> d \in {c, e}
        BY <1>3, <1>9, <2>1, <2>4, <2>5, <3>1, <3>2
      <3> QED BY <2>1, <3>3
    <2>8. DOMAIN transaction_client_map' = {}
      <3>1. DOMAIN transaction_client_map' = DOMAIN map \ {0}
        BY <1>11, WithoutFacts, Zenon
      <3> QED BY <3>1 DEF WaiterIsNew
    <2>9. WaiterIsNew' BY <2>8 DEF WaiterIsNew
    <2>10. \A d \in Clients : New(d) /\ d # c => New(d)'
      BY <2>2, <2>7, <2>8 DEF New
    <2>11. RequestsNew'
      <3>1. ASSUME NEW d \in Clients, pc'[d] = "start"
            PROVE  New(d)' /\ BindRequest(d) \notin net'
        <4>1. pc[d] = "start" /\ d # c BY <1>4, <3>1 DEF connVars
        <4> QED BY <1>3, <1>8, <2>3, <2>4, <2>10, <4>1 DEF RequestsNew
      <3>2. ASSUME NEW r \in net', r.type = "bind_request"
            PROVE  \E d \in Clients : r = BindRequest(d) /\ New(d)'
        <4>1. r \in net /\ r # m BY <1>3, <2>3, <2>4, <3>2
        <4>2. PICK d \in Clients : r = BindRequest(d) /\ New(d)
          BY <3>2, <4>1 DEF RequestsNew
        <4> QED BY <1>1, <2>10, <4>1, <4>2
      <3> QED BY <1>7, <3>1, <3>2 DEF RequestsNew
    <2>12. RepliesName'
      <3>1. ASSUME NEW r \in net', NEW d \in Clients,
                   r.type = "bind_reply", r.dst = AddrOf[d]
            PROVE  Another(d, r.addr)
        <4>1. CASE r \in net BY <3>1, <4>1 DEF RepliesName
        <4>2. CASE r = toC
          <5>1. d = c BY <1>9, <2>4, <3>1, <4>2
          <5> QED BY <2>1, <2>2, <2>4, <4>2, <5>1 DEF Another
        <4>3. CASE r = toE
          <5>1. d = e BY <2>4, <2>5, <3>1, <4>3
          <5> QED BY <2>2, <2>4, <4>3, <5>1 DEF Another
        <4>4. r # ack BY <1>3, <3>1
        <4> QED BY <2>3, <4>1, <4>2, <4>3, <4>4
      <3> QED BY <3>1 DEF RepliesName, Another
    <2>13. RepliesArrive' BY <1>3, <2>3, <2>4, <2>7 DEF RepliesArrive
    <2>14. PeersMeet'
      <3>1. \A r \in net' :
               r.type \in {"client_bind_request", "client_bind_response"}
               => r \in net
        BY <1>3, <2>3, <2>4
      <3> QED BY <3>1 DEF PeersMeet, Another
    <2> QED BY <1>6, <2>9, <2>11, <2>12, <2>13, <2>14
  <1> QED BY <1>2, <1>10, <1>11 DEF OnBindRequest, BindRequestTid

LEMMA PeersStep ==
    ASSUME ~MayDuplicate, LenValues \subseteq {"full", "negative"},
           PInv, [Next]_vars
    PROVE  PInv'
  <1>1. TInv' /\ IInv' BY TypesStep, Inductive DEF PInv
  <1>2. CASE ServerReceives
    <2>1. PICK m \in net : Receive(m) BY <1>2 DEF ServerReceives
    <2>2. UNCHANGED connVars BY <1>2 DEF ServerReceives
    <2>3. introduced' = introduced \cup
             {c \in Clients : \E r \in net' \ net :
                   r.type = "bind_reply" /\ r.dst = AddrOf[c]}
      BY <1>2 DEF ServerReceives
    <2>4. CASE OnBindRequest(m) BY <1>1, <2>2, <2>3, <2>4, RequestPeers DEF PInv
    <2>5. CASE OnPsBindRequest(m) \/ OnHeartbeat(m) \/ OnUnexpected(m)
      <3>1. \A r \in net' \ net : r.type \in {"ack", "ps_bind_reply"}
        BY <2>5, OthersSend
      <3>2. introduced' = introduced BY <2>3, <3>1, Zenon
      <3>3. transaction_client_map' = transaction_client_map
        BY <2>5 DEF OnPsBindRequest, OnHeartbeat, OnUnexpected, serverVars
      <3>4. \A r \in net' \ net : r.type \notin
               {"bind_request", "bind_reply",
                "client_bind_request", "client_bind_response"}
        BY <3>1
      <3> QED BY <1>1, <2>2, <3>2, <3>3, <3>4, QuietPeers DEF PInv
    <2> QED BY <2>1, <2>4, <2>5 DEF Receive
  <1>3. ASSUME NEW c \in Clients, ClientStarts(c) PROVE PInv'
    BY <1>1, <1>3, EarlyPeers DEF ClientStarts, PInv
  <1>4. ASSUME NEW c \in Clients, ClientTimesOut(c) PROVE PInv'
    BY <1>1, <1>4, EarlyPeers, TimeoutPeers DEF ClientTimesOut, Timeout, PInv
  <1>5. ASSUME NEW c \in Clients, ClientHears(c) PROVE PInv'
    <2>1. PICK m \in net : Hear(c, m) BY <1>5 DEF ClientHears
    <2>2. UNCHANGED <<serverVars, introduced>> BY <1>5 DEF ClientHears
    <2>3. CASE Acknowledged(c, m) \/ AckError(c, m)
      BY <1>1, <2>2, <2>3, EarlyPeers DEF PInv
    <2>4. CASE Loop(c, m)
      BY <1>1, <2>1, <2>2, <2>4, LoopPeers DEF Hear, PInv
    <2>5. CASE LoopError(c, m)
      BY <1>1, <2>2, <2>5, TimeoutPeers DEF PInv
    <2> QED BY <2>1, <2>3, <2>4, <2>5 DEF Hear
  <1>6. CASE Loses \/ ServerRestarts \/ UNCHANGED vars
    <2>1. /\ UNCHANGED <<connVars, introduced>> /\ net' \ net = {}
          /\ \/ transaction_client_map' = transaction_client_map
             \/ transaction_client_map' = EmptyMap
      BY <1>6 DEF Loses, Lose, ServerRestarts, Stop, Start, vars, serverVars
    <2>2. DOMAIN EmptyMap = {} BY DEF EmptyMap
    <2> QED BY <1>1, <2>1, <2>2, QuietPeers DEF PInv
  <1> QED BY <1>2, <1>3, <1>4, <1>5, <1>6 DEF Next, ClientRuns

LEMMA PeersInit ==
    ASSUME Init
    PROVE  PInv
  <1>1. TInv BY TypesInit
  <1>2. IInv
    BY DEF Init, ConnectorInit, IInv, Domains, EarlyStates, RequestsSigned,
           ResponsesSigned, SameTransaction
  <1>3. DOMAIN transaction_client_map = {} /\ net = {} /\ introduced = {}
    BY DEF Init, ServerInit, EmptyMap
  <1>4. \A c \in Clients : state[c] = "disconnected"
    BY DEF Init, ConnectorInit
  <1>5. WaiterIsNew /\ RequestsNew /\ RepliesName /\ RepliesArrive /\ PeersMeet
    BY <1>3 DEF WaiterIsNew, RequestsNew, New, RepliesName, RepliesArrive,
                PeersMeet
  <1>6. WaitingFor /\ PeerIsAnother BY <1>4 DEF WaitingFor, PeerIsAnother
  <1> QED BY <1>1, <1>2, <1>5, <1>6 DEF PInv, Peers

LEMMA PeersInvariant ==
    ASSUME ~MayDuplicate, LenValues \subseteq {"full", "negative"}
    PROVE  Spec => []PInv
  <1>1. Init => PInv BY PeersInit
  <1>2. PInv /\ [Next]_vars => PInv' BY PeersStep
  <1> QED BY <1>1, <1>2, PTL DEF Spec

\* For every set of clients and transactions, over a network that may lose and
\* reorder but does not duplicate, with timeouts and server restarts at any
\* time: a connected client's peer is another client, if recvfrom copies
\* addresses whole or fails.
THEOREM PeersAreOthers ==
    ASSUME ~MayDuplicate, LenValues \subseteq {"full", "negative"}
    PROVE  Spec => []PeerIsAnother
  <1>1. PInv => PeerIsAnother BY DEF PInv, Peers
  <1> QED BY <1>1, PeersInvariant, PTL

\* Under the same assumptions a client asks its peer only on the server's
\* introduction, and the client that the server keeps waiting is one that it
\* has not introduced.
THEOREM IntroductionsComeFirst ==
    ASSUME ~MayDuplicate, LenValues \subseteq {"full", "negative"}
    PROVE  Spec => []IntroducedFirst
  <1>1. ASSUME PInv PROVE IntroducedFirst
    <2>1. \A c \in Clients :
             state[c] = "waiting_for_client_reply" => c \in introduced
      BY <1>1 DEF PInv, Peers, WaitingFor
    <2>2. \A c \in introduced, t \in DOMAIN transaction_client_map :
             transaction_client_map[t] # AddrOf[c]
      <3>1. introduced \subseteq Clients BY <1>1 DEF PInv, TInv, TypeOK
      <3>2. \A c, d \in Clients : AddrOf[c] = AddrOf[d] => c = d
        BY RequestFacts
      <3> QED BY <1>1, <3>1, <3>2 DEF PInv, Peers, WaiterIsNew
    <2> QED BY <2>1, <2>2 DEF IntroducedFirst
  <1> QED BY <1>1, PeersInvariant, PTL
----------------------------------------------------------------------------
(* Both or neither: agreement where nothing fails and nothing is late      *)

Faultless ==
    /\ Prompt /\ ~MayLose /\ ~MayDuplicate /\ ~CallsMayFail
    /\ LenValues \subseteq {"full"}

\* A transaction is of two clients at most.
InTwos ==
    \A c, d, e \in Clients :
        TidOf[c] = TidOf[d] /\ TidOf[d] = TidOf[e] => c = d \/ d = e \/ c = e

\* What tells c of d, what c asks d, and what c answers d.
Introduction(c, d) == BindReply(stun_server_addr, AddrOf[c], AddrOf[d])
Request(c, d) == ClientBindRequest(c, AddrOf[d])
Response(c, d) == ClientBindResponse(c, AddrOf[d])

Listens(c) == pc[c] \in {"await_ack", "loop"}

\* c asks d whenever it has waited in vain.
Tries(c, d) ==
    /\ pc[c] = "loop"
    /\ state[c] = "waiting_for_client_reply"
    /\ target[c] = AddrOf[d]

\* Client c, or a datagram of its, has d for its peer.
Knows(c, d) ==
    \/ Introduction(c, d) \in net
    \/ Request(c, d) \in net
    \/ Response(c, d) \in net
    \/ state[c] \in Punching /\ target[c] = AddrOf[d]
Linked(c, d) == Knows(c, d) \/ Knows(d, c)

\* The server's introductions pair clients off.
Matching ==
    /\ \A c, d \in Clients : Knows(c, d) =>
          c # d /\ c \in introduced /\ d \in introduced
    /\ \A c, d, e \in Clients : Linked(c, d) /\ Linked(c, e) => d = e

\* Nobody sends anything but this protocol's datagrams.
OnlyBasic ==
    \A m \in net : m.type \in {"bind_request", "ack", "bind_reply",
                               "client_bind_request", "client_bind_response"}

AnswerIsConnected ==
    \A c, d \in Clients : Response(c, d) \in net => state[c] = "connected"

SuccessTold == \A c \in Clients : Succeeded(c) <=> state[c] = "connected"

\* Of two clients of a transaction:
\* - while c is about to ask d, or asks, a d that awaits its ack has an
\*   introduction of its own on its way;
BothTold(c, d) ==
    pc[d] = "await_ack" /\ (Introduction(c, d) \in net \/ Tries(c, d))
        => Introduction(d, c) \in net

\* - who has asked somebody who listens still tries, or is connected;
AskerTries(c, d) ==
    Request(c, d) \in net /\ Listens(d) => Tries(c, d) \/ state[c] = "connected"

\* - while c tries, d is gone, or has still to read what will connect them;
TriesHeard(c, d) ==
    Tries(c, d) =>
        \/ pc[d] = "returned"
        \/ Request(c, d) \in net
        \/ /\ pc[d] = "loop"
           /\ Introduction(d, c) \in net \/ Request(d, c) \in net

\* - if d is connected, so is c, or d's answer is on its way to c.
ConnectedTogether(c, d) ==
    state[d] = "connected" =>
        \/ state[c] = "connected"
        \/ Tries(c, d) /\ Response(d, c) \in net

PairOK(c, d) ==
    /\ BothTold(c, d) /\ AskerTries(c, d)
    /\ TriesHeard(c, d) /\ ConnectedTogether(c, d)

Partners(c, d) == c # d /\ TidOf[c] = TidOf[d]
PairsOK == \A c, d \in Clients : Partners(c, d) => PairOK(c, d)

AInv ==
    /\ PInv /\ OnlyBasic /\ Matching
    /\ AnswerIsConnected /\ SuccessTold /\ PairsOK

LEMMA MessageFacts ==
    ASSUME NEW c \in Clients, NEW d \in Clients
    PROVE  /\ Introduction(c, d).type = "bind_reply"
           /\ Introduction(c, d).src = stun_server_addr
           /\ Introduction(c, d).dst = AddrOf[c]
           /\ Introduction(c, d).addr = AddrOf[d]
           /\ Request(c, d).type = "client_bind_request"
           /\ Request(c, d).src = AddrOf[c]
           /\ Request(c, d).dst = AddrOf[d]
           /\ Request(c, d).tid = TidOf[c]
           /\ Response(c, d).type = "client_bind_response"
           /\ Response(c, d).src = AddrOf[c]
           /\ Response(c, d).dst = AddrOf[d]
           /\ Introduction(c, d)' = Introduction(c, d)
           /\ Request(c, d)' = Request(c, d)
           /\ Response(c, d)' = Response(c, d)
BY DEF Introduction, Request, Response, BindReply, ClientBindRequest,
       ClientBindResponse, WithTid, stun_server_addr, ServerSock

LEMMA AddrsApart ==
    /\ \A c, d \in Clients : AddrOf[c] = AddrOf[d] => c = d
    /\ \A c \in Clients : AddrOf[c] # stun_server_addr
    /\ \A c \in Clients, s \in ServerSocks : AddrOf[c] # s
BY ConnectorAssumption, AddrFacts DEF stun_server_addr

\* A datagram is what its fields say.
LEMMA Fields ==
    ASSUME NEW m \in Datagram
    PROVE  /\ m.type = "bind_reply" => m = BindReply(m.src, m.dst, m.addr)
           /\ m.type \in {"client_bind_request", "client_bind_response"} =>
                 m = WithTid(m.type, m.src, m.dst, m.tid)
BY DEF Datagram, BindReply, WithTid, TidTypes, EmptyTypes

\* What a client reads that the server or another client has sent.
LEMMA HeardFacts ==
    ASSUME PInv, NEW c \in Clients, NEW m \in net, m.dst = AddrOf[c]
    PROVE  /\ m.type = "bind_reply" /\ m.src = stun_server_addr =>
                 \E d \in Clients : m = Introduction(c, d)
           /\ m.type = "client_bind_request" =>
                 \E d \in Clients : d # c /\ m = Request(d, c)
           /\ m.type = "client_bind_response" =>
                 \E d \in Clients : Partners(c, d) /\ m = Response(d, c)
  <1>1. m \in Datagram BY DEF PInv, TInv, TypeOK, ServerTypeOK
  <1>2. ASSUME m.type = "bind_reply", m.src = stun_server_addr
        PROVE  \E d \in Clients : m = Introduction(c, d)
    <2>1. m = BindReply(m.src, m.dst, m.addr) BY <1>1, <1>2, Fields
    <2>2. Another(c, m.addr) BY <1>2 DEF PInv, Peers, RepliesName
    <2> QED BY <1>2, <2>1, <2>2 DEF Introduction, Another
  <1>3. ASSUME m.type \in {"client_bind_request", "client_bind_response"},
               NEW d \in Clients, Signed(m, d)
        PROVE  /\ d # c
               /\ m.type = "client_bind_request" => m = Request(d, c)
               /\ m.type = "client_bind_response" => m = Response(d, c)
    <2>1. m = WithTid(m.type, AddrOf[d], AddrOf[c], TidOf[d])
      BY <1>1, <1>3, Fields DEF Signed
    <2>2. Another(c, m.src) BY <1>3 DEF PInv, Peers, PeersMeet
    <2> QED BY <1>3, <2>1, <2>2, AddrsApart
            DEF Another, Signed, Request, Response, ClientBindRequest,
                ClientBindResponse
  <1>4. ASSUME m.type = "client_bind_request"
        PROVE  \E d \in Clients : d # c /\ m = Request(d, c)
    BY <1>3, <1>4 DEF PInv, IInv, RequestsSigned
  <1>5. ASSUME m.type = "client_bind_response"
        PROVE  \E d \in Clients : Partners(c, d) /\ m = Response(d, c)
    <2>1. PICK d \in Clients : Signed(m, d) /\ TidOf[c] = TidOf[d]
      BY <1>5 DEF PInv, IInv, ResponsesSigned
    <2> QED BY <1>3, <1>5, <2>1 DEF Partners
  <1> QED BY <1>2, <1>4, <1>5

\* What clients know of each other survives if every link was there before.
LEMMA MatchingKept ==
    ASSUME Matching, introduced \subseteq introduced',
           \A c, d \in Clients : Knows(c, d)' => Linked(c, d)
    PROVE  Matching'
  <1>1. ASSUME NEW c \in Clients, NEW d \in Clients, Linked(c, d)'
        PROVE  Linked(c, d)
    BY <1>1 DEF Linked
  <1>2. ASSUME NEW c \in Clients, NEW d \in Clients, Knows(c, d)'
        PROVE  c # d /\ c \in introduced' /\ d \in introduced'
    BY <1>2 DEF Matching, Linked
  <1>3. ASSUME NEW c \in Clients, NEW d \in Clients, NEW e \in Clients,
               Linked(c, d)', Linked(c, e)'
        PROVE  d = e
    BY <1>1, <1>3 DEF Matching
  <1> QED BY <1>2, <1>3 DEF Matching

\* A pair is as before if nothing of it has changed.
LEMMA PairKept ==
    ASSUME NEW c \in Clients, NEW d \in Clients, PairOK(c, d),
           \A x \in {c, d} : /\ pc'[x] = pc[x]
                             /\ state'[x] = state[x]
                             /\ target'[x] = target[x],
           /\ Introduction(c, d) \in net' <=> Introduction(c, d) \in net
           /\ Introduction(d, c) \in net' <=> Introduction(d, c) \in net
           /\ Request(c, d) \in net' <=> Request(c, d) \in net
           /\ Request(d, c) \in net' <=> Request(d, c) \in net
           /\ Response(d, c) \in net' <=> Response(d, c) \in net
    PROVE  PairOK(c, d)'
  <1>1. /\ Introduction(c, d)' = Introduction(c, d)
        /\ Introduction(d, c)' = Introduction(d, c)
        /\ Request(c, d)' = Request(c, d)
        /\ Request(d, c)' = Request(d, c)
        /\ Response(d, c)' = Response(d, c)
    BY MessageFacts
  <1>2. Tries(c, d)' <=> Tries(c, d) BY DEF Tries
  <1>3. Listens(d)' <=> Listens(d) BY DEF Listens
  <1> QED BY <1>1, <1>2, <1>3
          DEF PairOK, BothTold, AskerTries, TriesHeard, ConnectedTogether

\* A step of c, which reads what is addressed to it and sends from its own
\* address, keeps every pair if it keeps the one that c is linked to.
LEMMA ClientPairs ==
    ASSUME AInv, InTwos, Matching', SameTransaction', PeerIsAnother',
           \A d, e \in Clients : Knows(d, e)' => Linked(d, e),
           NEW c \in Clients,
           \A d \in Clients \ {c} : /\ pc'[d] = pc[d]
                                    /\ state'[d] = state[d]
                                    /\ target'[d] = target[d],
           \A r \in net \ net' : r.dst = AddrOf[c],
           \A r \in net' \ net : r.src = AddrOf[c],
           \A d \in Clients : Partners(c, d) /\ Linked(c, d) =>
               PairOK(c, d)' /\ PairOK(d, c)'
    PROVE  PairsOK'
  <1>1. ASSUME NEW d \in Clients, NEW e \in Clients, Partners(d, e),
               d # c, e # c
        PROVE  PairOK(d, e)'
    <2>1. PairOK(d, e) BY <1>1 DEF AInv, PairsOK
    <2>2. ASSUME NEW r, r.dst # AddrOf[c], r.src # AddrOf[c]
          PROVE  r \in net' <=> r \in net
      BY <2>2
    <2>3. /\ AddrOf[d] # AddrOf[c] /\ AddrOf[e] # AddrOf[c]
          /\ AddrOf[c] # stun_server_addr
      BY <1>1, AddrsApart
    <2> QED BY <1>1, <2>1, <2>2, <2>3, MessageFacts, PairKept
  <1>2. ASSUME NEW d \in Clients, NEW e \in Clients, Partners(d, e),
               ~Linked(d, e)
        PROVE  PairOK(d, e)'
    <2>1. ~Knows(d, e)' /\ ~Knows(e, d)' BY <1>2 DEF Linked
    <2>2. state'[e] # "connected"
      <3> SUFFICES ASSUME state'[e] = "connected" PROVE FALSE OBVIOUS
      <3>1. PICK x \in Clients \ {e} : target'[e] = AddrOf[x]
        BY DEF PeerIsAnother
      <3>2. TidOf[x] = TidOf[e] BY <3>1 DEF SameTransaction
      <3>3. x = d BY <1>2, <3>1, <3>2 DEF Partners, InTwos
      <3> QED BY <2>1, <3>1, <3>3 DEF Knows, Punching
    <2>3. ~Tries(d, e)' BY <2>1 DEF Tries, Knows, Punching
    <2> QED BY <2>1, <2>2, <2>3
            DEF Knows, PairOK, BothTold, AskerTries, TriesHeard, ConnectedTogether
  <1>3. ASSUME NEW d \in Clients, NEW e \in Clients, Partners(d, e)
        PROVE  PairOK(d, e)'
    <2>1. Partners(e, d) /\ (Linked(d, e) <=> Linked(e, d))
      BY <1>3 DEF Partners, Linked
    <2> QED BY <1>1, <1>2, <1>3, <2>1
  <1> QED BY <1>3 DEF PairsOK, Partners

\* The same, for the whole invariant.
LEMMA ClientKeeps ==
    ASSUME AInv, InTwos, PInv', UNCHANGED introduced,
           NEW c \in Clients,
           \A d \in Clients \ {c} : /\ pc'[d] = pc[d]
                                    /\ state'[d] = state[d]
                                    /\ target'[d] = target[d]
                                    /\ result'[d] = result[d],
           \A r \in net \ net' : r.dst = AddrOf[c],
           \A r \in net' \ net :
               /\ r.src = AddrOf[c]
               /\ \/ r = BindRequest(c)
                  \/ \E d \in Clients : r = Request(c, d) /\ Linked(c, d)
                  \/ \E d \in Clients : r = Response(c, d) /\ Linked(c, d)
               /\ r.type = "client_bind_response" => state'[c] = "connected",
           state[c] = "connected" => state'[c] = "connected",
           state'[c] \in Punching => \A d \in Clients :
               target'[c] = AddrOf[d] => Linked(c, d),
           Succeeded(c)' <=> state'[c] = "connected",
           \A d \in Clients : Partners(c, d) /\ Linked(c, d) =>
               PairOK(c, d)' /\ PairOK(d, c)'
    PROVE  AInv'
  <1> USE DEF AInv
  <1>1. \A d \in Clients : BindRequest(d).type = "bind_request"
    BY RequestFacts
  <1>2. ASSUME NEW d \in Clients, NEW e \in Clients, Knows(d, e)'
        PROVE  Linked(d, e)
    <2>1. CASE Introduction(d, e) \in net'
      <3>1. Introduction(d, e).src # AddrOf[c] BY MessageFacts, AddrsApart
      <3> QED BY <2>1, <3>1 DEF Linked, Knows
    <2>2. CASE Request(d, e) \in net' \/ Response(d, e) \in net'
      <3>1. PICK r \in {Request(d, e), Response(d, e)} : r \in net' BY <2>2
      <3>2. CASE r \in net BY <3>1, <3>2 DEF Linked, Knows
      <3>3. CASE r \notin net
        <4>1. d = c BY <3>1, <3>3, MessageFacts, AddrsApart
        <4>2. PICK x \in Clients :
                 r \in {Request(c, x), Response(c, x)} /\ Linked(c, x)
          BY <1>1, <3>1, <3>3, MessageFacts
        <4>3. x = e BY <3>1, <4>2, MessageFacts, AddrsApart
        <4> QED BY <4>1, <4>2, <4>3
      <3> QED BY <3>2, <3>3
    <2>3. CASE state'[d] \in Punching /\ target'[d] = AddrOf[e]
      BY <2>3 DEF Linked, Knows
    <2>4. /\ Introduction(d, e)' = Introduction(d, e)
          /\ Request(d, e)' = Request(d, e)
          /\ Response(d, e)' = Response(d, e)
      BY MessageFacts
    <2> QED BY <1>2, <2>1, <2>2, <2>3, <2>4 DEF Knows
  <1>3. Matching' BY <1>2, MatchingKept
  <1>4. SameTransaction' /\ PeerIsAnother' BY DEF PInv, IInv, Peers
  <1>5. PairsOK'
    BY <1>2, <1>3, <1>4, ClientPairs
  <1>6. OnlyBasic' BY <1>1, MessageFacts DEF OnlyBasic
  <1>7. AnswerIsConnected'
    <2>1. ASSUME NEW d \in Clients, NEW e \in Clients, Response(d, e) \in net'
          PROVE  state'[d] = "connected"
      <3>1. CASE Response(d, e) \in net BY <3>1 DEF AnswerIsConnected
      <3>2. CASE Response(d, e) \notin net
        BY <2>1, <3>2, MessageFacts, AddrsApart
      <3> QED BY <3>1, <3>2
    <2> QED BY <2>1, MessageFacts DEF AnswerIsConnected
  <1>8. SuccessTold'
    BY DEF SuccessTold, Succeeded
  <1> QED BY <1>3, <1>5, <1>6, <1>7, <1>8

\* What a step of a faultless network does.
LEMMA FaultlessFacts ==
    ASSUME Faultless
    PROVE  /\ \A m, out : Exchange(m, out) => net' = (net \ {m}) \cup out
           /\ SendResults = {TRUE}
           /\ \A m : ~ReceiveFails(m)
           /\ \A m : Sent(TRUE, m) = {m}
           /\ \A old, src : PeerAddress(old, src) \subseteq {src}
  <1>1. \A old, src : PeerAddress(old, src) \subseteq {src}
    <2>1. "port" \notin LenValues /\ "none" \notin LenValues BY DEF Faultless
    <2> QED BY <2>1 DEF PeerAddress
  <1> QED BY <1>1 DEF Faultless, Exchange, SendResults, ReceiveFails, Sent

LEMMA AnswerFacts ==
    ASSUME Faultless, NEW m, NEW r,
           \E ok \in SendResults : Exchange(m, Sent(ok, r))
    PROVE  net' = (net \ {m}) \cup {r}
  <1>1. Exchange(m, Sent(TRUE, r)) BY FaultlessFacts
  <1>2. Sent(TRUE, r) = {r} BY FaultlessFacts
  <1> QED BY <1>1, <1>2, FaultlessFacts

\* Nobody is waited for in vain: what somebody listens for arrives first.
LEMMA Heard ==
    ASSUME NobodyListens, NEW c \in Clients, Listens(c), NEW m \in net
    PROVE  m.dst # AddrOf[c]
BY DEF NobodyListens, Deliverable, Listens

\* The steps before the loop.
LEMMA EarlyAgree ==
    ASSUME AInv, InTwos, Faultless, PInv', UNCHANGED <<serverVars, introduced>>,
           NEW c \in Clients, NEW m,
           \/ Connect(c) \/ AckTimeout(c)
           \/ m.dst = AddrOf[c] /\ Acknowledged(c, m)
    PROVE  AInv'
  <1> USE DEF AInv
  <1>1. /\ DOMAIN pc = Clients /\ DOMAIN state = Clients
        /\ DOMAIN target = Clients /\ DOMAIN result = Clients
    BY DEF PInv, TInv, TypeOK, ConnectorTypeOK
  <1>2. \A d \in Clients \ {c} : /\ pc'[d] = pc[d]
                                 /\ state'[d] = state[d]
                                 /\ target'[d] = target[d]
                                 /\ result'[d] = result[d]
    BY <1>1 DEF Connect, Acknowledged, AckTimeout, Fail
  <1>3. state[c] = "disconnected"
    <2>1. pc[c] \in {"start", "await_ack"}
      BY DEF Connect, Acknowledged, AckTimeout
    <2> QED BY <2>1 DEF PInv, IInv, EarlyStates
  <1>4. ~Succeeded(c) BY <1>3 DEF SuccessTold
  <1>5. state'[c] \in {"disconnected", "waiting_for_stun_reply"}
    BY <1>1, <1>3 DEF Connect, Acknowledged, AckTimeout, Fail
  <1>6. ~Succeeded(c)'
    BY <1>1, <1>4 DEF Connect, Acknowledged, AckTimeout, Fail, Succeeded
  <1>7. CASE Connect(c)
    <2>1. net' = net \cup {BindRequest(c)}
      BY <1>7, FaultlessFacts DEF Connect, Send
    <2>2. BindRequest(c).src = AddrOf[c] /\ BindRequest(c).type = "bind_request"
      BY RequestFacts
    <2>3. c \notin introduced BY <1>7 DEF Connect, PInv, Peers, RequestsNew, New
    <2>4. \A d \in Clients : ~Linked(c, d) BY <2>3 DEF Matching, Linked
    <2> QED BY <1>2, <1>3, <1>5, <1>6, <2>1, <2>2, <2>4, ClientKeeps DEF Punching
  <1>8. CASE AckTimeout(c)
    <2>1. net' = net /\ pc'[c] = "returned" /\ state' = state /\ target' = target
      BY <1>1, <1>8 DEF AckTimeout, Fail
    <2>2. ASSUME NEW d \in Clients, Partners(c, d)
          PROVE  PairOK(c, d)' /\ PairOK(d, c)'
      <3>1. PairOK(c, d) /\ PairOK(d, c) BY <2>2 DEF PairsOK, Partners
      <3>2. ~Tries(c, d) /\ ~Tries(c, d)' /\ (Tries(d, c)' <=> Tries(d, c))
        BY <1>2, <1>3, <2>1, <2>2 DEF Tries, Partners
      <3>3. pc'[d] = pc[d] BY <1>2, <2>2 DEF Partners
      <3> QED BY <1>3, <2>1, <3>1, <3>2, <3>3, MessageFacts
              DEF PairOK, BothTold, AskerTries, TriesHeard, ConnectedTogether,
                  Listens
    <2> QED BY <1>2, <1>3, <1>5, <1>6, <2>1, <2>2, ClientKeeps DEF Punching
  <1>9. CASE m.dst = AddrOf[c] /\ Acknowledged(c, m)
    <2>1. /\ pc[c] = "await_ack" /\ pc'[c] = "loop" /\ net' = net \ {m}
          /\ state'[c] = "waiting_for_stun_reply" /\ target' = target
          /\ m.dst = AddrOf[c]
      BY <1>1, <1>9, FaultlessFacts DEF Acknowledged
    <2>2. ASSUME NEW d \in Clients, Partners(c, d)
          PROVE  PairOK(c, d)' /\ PairOK(d, c)'
      <3>1. PairOK(c, d) /\ PairOK(d, c) BY <2>2 DEF PairsOK, Partners
      <3>2. ~Tries(c, d) /\ ~Tries(c, d)' /\ (Tries(d, c)' <=> Tries(d, c))
        BY <1>2, <1>3, <2>1, <2>2 DEF Tries, Partners
      <3>3. /\ pc'[d] = pc[d] /\ state'[d] = state[d] /\ d # c
            /\ AddrOf[d] # AddrOf[c]
        BY <1>2, <2>2, AddrsApart DEF Partners
      <3>4. /\ Introduction(d, c) \in net' <=> Introduction(d, c) \in net
            /\ Request(c, d) \in net' <=> Request(c, d) \in net
            /\ Response(c, d) \in net' <=> Response(c, d) \in net
        BY <2>1, <3>3, MessageFacts
      <3>5. Introduction(c, d) # Request(d, c) BY MessageFacts
      <3>6. PairOK(c, d)'
        BY <1>3, <2>1, <3>1, <3>2, <3>3, <3>4, MessageFacts
           DEF PairOK, BothTold, AskerTries, TriesHeard, ConnectedTogether,
               Listens
      <3>7. PairOK(d, c)'
        <4>1. BothTold(d, c)' BY <2>1 DEF BothTold
        <4>2. AskerTries(d, c)'
          BY <2>1, <3>1, <3>2, <3>3, MessageFacts DEF PairOK, AskerTries, Listens
        <4>3. TriesHeard(d, c)'
          BY <2>1, <3>1, <3>2, <3>5, MessageFacts
             DEF PairOK, BothTold, TriesHeard
        <4>4. ConnectedTogether(d, c)'
          BY <2>1 DEF ConnectedTogether
        <4> QED BY <4>1, <4>2, <4>3, <4>4 DEF PairOK
      <3> QED BY <3>6, <3>7
    <2> QED BY <1>2, <1>3, <1>5, <1>6, <2>1, <2>2, ClientKeeps DEF Punching
  <1> QED BY <1>7, <1>8, <1>9

\* The end of an iteration, as far as agreement is concerned.
LEMMA EndAgree ==
    ASSUME AInv, NEW c \in Clients, NEW s \in States, NEW n \in Nat,
           pc[c] = "loop", EndIteration(c, s, n)
    PROVE  /\ state'[c] = s
           /\ pc'[c] = IF s = "connected" \/ n = 0 THEN "returned" ELSE "loop"
           /\ Succeeded(c)' <=> s = "connected"
           /\ \A d \in Clients \ {c} : /\ pc'[d] = pc[d]
                                       /\ state'[d] = state[d]
                                       /\ result'[d] = result[d]
  <1>1. /\ DOMAIN pc = Clients /\ DOMAIN state = Clients
        /\ DOMAIN result = Clients
    BY DEF AInv, PInv, TInv, TypeOK, ConnectorTypeOK
  <1>2. ~Succeeded(c)
    BY DEF AInv, SuccessTold, PInv, TInv, ConnectedReturned
  <1>3. Outcome(s) = "connection_successful" <=> s = "connected"
    BY DEF Outcome
  <1>4. CASE s = "connected" \/ n = 0
    BY <1>1, <1>3, <1>4 DEF EndIteration, Succeeded
  <1>5. CASE ~(s = "connected" \/ n = 0)
    BY <1>1, <1>2, <1>5 DEF EndIteration, Succeeded
  <1> QED BY <1>4, <1>5

\* A client waits in vain only if its partner is gone, and then neither is
\* connected.
LEMMA TimeoutAgree ==
    ASSUME AInv, InTwos, Faultless, PInv', UNCHANGED introduced,
           NobodyListens, NEW c \in Clients, LoopTimeout(c)
    PROVE  AInv'
  <1> USE DEF AInv
  <1>1. /\ pc[c] = "loop" /\ target' = target
        /\ state[c] \in States /\ state[c] # "connected"
        /\ attempts_left[c] - 1 \in Nat
    BY DEF LoopTimeout, PInv, TInv, TypeOK, ConnectorTypeOK, Budget,
           ConnectedReturned
  <1>2. EndIteration(c, state[c], attempts_left[c] - 1)
    BY DEF LoopTimeout, UseAttempt
  <1>3. /\ state'[c] = state[c] /\ pc'[c] \in {"loop", "returned"}
        /\ ~Succeeded(c)'
        /\ \A d \in Clients \ {c} : /\ pc'[d] = pc[d]
                                    /\ state'[d] = state[d]
                                    /\ result'[d] = result[d]
    BY <1>1, <1>2, EndAgree
  <1>4. net' = net \cup (IF state[c] = "waiting_for_client_reply"
                         THEN {ClientBindRequest(c, target[c])} ELSE {})
    BY FaultlessFacts DEF LoopTimeout, Send
  <1>5. ASSUME state[c] = "waiting_for_client_reply"
        PROVE  \E d \in Clients : /\ target[c] = AddrOf[d]
                                  /\ net' = net \cup {Request(c, d)}
                                  /\ Linked(c, d)
    <2>1. PICK d \in Clients : target[c] = AddrOf[d]
      BY <1>5 DEF PInv, Peers, WaitingFor, Another
    <2> QED BY <1>4, <1>5, <2>1 DEF Request, Linked, Knows, Punching
  <1>6. ASSUME NEW d \in Clients, Partners(c, d)
        PROVE  PairOK(c, d)' /\ PairOK(d, c)'
    <2>1. PairOK(c, d) /\ PairOK(d, c) BY <1>6 DEF PairsOK, Partners
    <2>2. /\ pc'[d] = pc[d] /\ state'[d] = state[d] /\ d # c
          /\ Tries(d, c)' <=> Tries(d, c)
          /\ Tries(c, d)' => Tries(c, d)
      BY <1>1, <1>3, <1>6 DEF Partners, Tries
    <2>3. /\ Introduction(c, d) \notin net /\ Request(d, c) \notin net
          /\ Response(d, c) \notin net
      BY <1>1, Heard, MessageFacts DEF Listens
    <2>4. Listens(d) => Request(c, d) \notin net /\ Introduction(d, c) \notin net
      BY Heard, MessageFacts
    <2>5. \A r \in net' \ net : r.type = "client_bind_request" /\ r.src = AddrOf[c]
      BY <1>4, <1>5, MessageFacts
    <2>6. /\ Introduction(c, d) \in net' <=> Introduction(c, d) \in net
          /\ Introduction(d, c) \in net' <=> Introduction(d, c) \in net
          /\ Response(c, d) \in net' <=> Response(c, d) \in net
          /\ Response(d, c) \in net' <=> Response(d, c) \in net
          /\ Request(d, c) \in net' <=> Request(d, c) \in net
          /\ Request(c, d) \in net => Request(c, d) \in net'
      BY <1>4, <2>2, <2>5, MessageFacts, AddrsApart
    <2>7. Request(c, d) \in net' /\ Listens(d) => FALSE
      <3> SUFFICES ASSUME Request(c, d) \in net', Listens(d) PROVE FALSE
        OBVIOUS
      <3>1. Request(c, d) \notin net BY <2>4
      <3>2. state[c] = "waiting_for_client_reply" BY <1>4, <3>1
      <3>3. PICK e \in Clients : target[c] = AddrOf[e] /\ Request(c, d) = Request(c, e)
        BY <1>5, <3>1, <3>2
      <3>4. Tries(c, d) BY <1>1, <3>2, <3>3, MessageFacts DEF Tries
      <3> QED BY <2>1, <2>3, <2>4, <3>4 DEF PairOK, TriesHeard, Listens
    <2>8. Listens(d)' <=> Listens(d) BY <2>2 DEF Listens
    <2>9. PairOK(c, d)'
      BY <1>1, <1>3, <2>1, <2>2, <2>3, <2>4, <2>6, <2>7, <2>8, MessageFacts
         DEF PairOK, BothTold, AskerTries, TriesHeard, ConnectedTogether
    <2>10. PairOK(d, c)'
      BY <1>1, <1>3, <2>1, <2>2, <2>3, <2>4, <2>6, MessageFacts
         DEF PairOK, BothTold, AskerTries, TriesHeard, ConnectedTogether, Listens
    <2> QED BY <2>9, <2>10
  <1>7. \A d \in Clients : Request(c, d).src = AddrOf[c]
                           /\ Request(c, d).type = "client_bind_request"
    BY MessageFacts
  <1>8. state[c] \in Punching => \A d \in Clients :
            target'[c] = AddrOf[d] => Linked(c, d)
    BY <1>1 DEF Linked, Knows
  <1>9. /\ \A r \in net \ net' : r.dst = AddrOf[c]
        /\ \A r \in net' \ net :
              /\ r.src = AddrOf[c] /\ r.type = "client_bind_request"
              /\ \E d \in Clients : r = Request(c, d) /\ Linked(c, d)
    BY <1>4, <1>5, <1>7
  <1> QED BY <1>1, <1>3, <1>6, <1>8, <1>9, ClientKeeps

\* A datagram that c does not act upon: not of its partner, or an answer of
\* somebody that it has not asked.
LEMMA IdleAgree ==
    ASSUME AInv, InTwos, PInv', UNCHANGED <<introduced, target>>,
           NEW c \in Clients, pc[c] = "loop", NEW n \in Nat,
           NEW m, m.dst = AddrOf[c], net' = net \ {m},
           EndIteration(c, state[c], n),
           \A d \in Clients : Partners(c, d) /\ Linked(c, d) =>
               /\ n # 0
               /\ m # Introduction(c, d) /\ m # Request(d, c)
               /\ m = Response(d, c) => ~Tries(c, d)
    PROVE  AInv'
  <1> USE DEF AInv
  <1>1. state[c] \in States /\ state[c] # "connected"
    BY DEF PInv, TInv, TypeOK, ConnectorTypeOK, ConnectedReturned
  <1>2. /\ state'[c] = state[c]
        /\ n # 0 => pc'[c] = pc[c]
        /\ ~Succeeded(c)'
        /\ \A d \in Clients \ {c} : /\ pc'[d] = pc[d]
                                    /\ state'[d] = state[d]
                                    /\ result'[d] = result[d]
    BY <1>1, EndAgree
  <1>3. ASSUME NEW d \in Clients, Partners(c, d), Linked(c, d)
        PROVE  PairOK(c, d)' /\ PairOK(d, c)'
    <2>1. PairOK(c, d) /\ PairOK(d, c) BY <1>3 DEF PairsOK, Partners
    <2>2. /\ pc'[d] = pc[d] /\ state'[d] = state[d] /\ d # c
          /\ pc'[c] = pc[c] /\ state'[c] = state[c] /\ target' = target
          /\ AddrOf[d] # AddrOf[c]
      BY <1>2, <1>3, AddrsApart DEF Partners
    <2>3. /\ Introduction(c, d) \in net' <=> Introduction(c, d) \in net
          /\ Introduction(d, c) \in net' <=> Introduction(d, c) \in net
          /\ Request(c, d) \in net' <=> Request(c, d) \in net
          /\ Request(d, c) \in net' <=> Request(d, c) \in net
          /\ Response(c, d) \in net' <=> Response(c, d) \in net
      BY <1>3, <2>2, MessageFacts
    <2>4. PairOK(d, c)' BY <2>1, <2>2, <2>3, PairKept
    <2>5. CASE Response(d, c) \in net' <=> Response(d, c) \in net
      BY <2>1, <2>2, <2>3, <2>4, <2>5, PairKept
    <2>6. CASE m = Response(d, c) /\ ~Tries(c, d)
      <3>1. ~Tries(c, d)' /\ (Listens(d)' <=> Listens(d))
        BY <2>2, <2>6 DEF Tries, Listens
      <3>2. PairOK(c, d)'
        BY <1>1, <2>1, <2>2, <2>3, <2>6, <3>1, MessageFacts
           DEF PairOK, BothTold, AskerTries, TriesHeard, ConnectedTogether
      <3> QED BY <2>4, <3>2
    <2> QED BY <1>3, <2>5, <2>6
  <1>4. state[c] \in Punching => \A d \in Clients :
            target'[c] = AddrOf[d] => Linked(c, d)
    BY DEF Linked, Knows
  <1> QED BY <1>1, <1>2, <1>3, <1>4, ClientKeeps

\* An introduction: c asks, and its partner, introduced with it, will too.
LEMMA IntroducedAgree ==
    ASSUME AInv, InTwos, PInv', UNCHANGED introduced,
           NEW c \in Clients, pc[c] = "loop", NEW e \in Clients,
           Introduction(c, e) \in net,
           target' = [target EXCEPT ![c] = AddrOf[e]],
           net' = (net \ {Introduction(c, e)}) \cup {Request(c, e)},
           EndIteration(c, "waiting_for_client_reply", PeerAttempts)
    PROVE  AInv'
  <1> USE DEF AInv
  <1>1. DOMAIN target = Clients /\ state[c] # "connected"
    BY DEF PInv, TInv, TypeOK, ConnectorTypeOK, ConnectedReturned
  <1>2. /\ state'[c] = "waiting_for_client_reply" /\ pc'[c] = "loop"
        /\ ~Succeeded(c)'
        /\ \A d \in Clients \ {c} : /\ pc'[d] = pc[d]
                                    /\ state'[d] = state[d]
                                    /\ result'[d] = result[d]
    BY ConnectorAssumption, EndAgree DEF States
  <1>3. Linked(c, e) BY DEF Linked, Knows
  <1>4. target'[c] = AddrOf[e] /\ \A d \in Clients \ {c} : target'[d] = target[d]
    BY <1>1
  <1>5. ASSUME NEW d \in Clients, Partners(c, d), Linked(c, d)
        PROVE  PairOK(c, d)' /\ PairOK(d, c)'
    <2>1. PairOK(c, d) /\ PairOK(d, c) BY <1>5 DEF PairsOK, Partners
    <2>2. d = e BY <1>3, <1>5 DEF Matching
    <2>3. /\ pc'[d] = pc[d] /\ state'[d] = state[d] /\ d # c
          /\ AddrOf[d] # AddrOf[c]
          /\ Tries(d, c)' <=> Tries(d, c)
          /\ Listens(d)' <=> Listens(d)
      BY <1>2, <1>4, <1>5, AddrsApart DEF Partners, Tries, Listens
    <2>4. /\ Introduction(c, d) \in net /\ Request(c, d) \in net'
          /\ Introduction(d, c) \in net' <=> Introduction(d, c) \in net
          /\ Request(d, c) \in net' <=> Request(d, c) \in net
          /\ Response(c, d) \in net' <=> Response(c, d) \in net
          /\ Response(d, c) \in net' <=> Response(d, c) \in net
      BY <2>2, <2>3, MessageFacts
    <2>5. Tries(c, d)' BY <1>2, <1>4, <2>2 DEF Tries
    <2>6. PairOK(c, d)'
      BY <1>1, <2>1, <2>3, <2>4, <2>5, MessageFacts
         DEF PairOK, BothTold, AskerTries, TriesHeard, ConnectedTogether
    <2>7. PairOK(d, c)'
      BY <1>2, <2>1, <2>3, <2>4, MessageFacts
         DEF PairOK, BothTold, AskerTries, TriesHeard, ConnectedTogether, Listens
    <2> QED BY <2>6, <2>7
  <1>6. \A d \in Clients : target'[c] = AddrOf[d] => Linked(c, d)
    BY <1>3, <1>4, AddrsApart
  <1>7. /\ \A r \in net \ net' : r.dst = AddrOf[c]
        /\ \A r \in net' \ net :
              /\ r.src = AddrOf[c] /\ r.type = "client_bind_request"
              /\ r = Request(c, e)
    BY MessageFacts
  <1> QED BY <1>1, <1>2, <1>3, <1>4, <1>5, <1>6, <1>7, ClientKeeps

\* A partner's request: the partner tries, or is connected already.
LEMMA RequestedAgree ==
    ASSUME AInv, InTwos, PInv', UNCHANGED introduced,
           NEW c \in Clients, pc[c] = "loop", NEW e \in Clients,
           Partners(c, e), Request(e, c) \in net,
           target' = [target EXCEPT ![c] = AddrOf[e]],
           net' = (net \ {Request(e, c)}) \cup {Response(c, e)},
           EndIteration(c, "connected", attempts_left[c])
    PROVE  AInv'
  <1> USE DEF AInv
  <1>1. DOMAIN target = Clients /\ attempts_left[c] \in Nat
    BY DEF PInv, TInv, TypeOK, ConnectorTypeOK
  <1>2. /\ state'[c] = "connected" /\ pc'[c] = "returned"
        /\ Succeeded(c)'
        /\ \A d \in Clients \ {c} : /\ pc'[d] = pc[d]
                                    /\ state'[d] = state[d]
                                    /\ result'[d] = result[d]
    BY <1>1, EndAgree DEF States
  <1>3. Linked(c, e) BY DEF Linked, Knows
  <1>4. target'[c] = AddrOf[e] /\ \A d \in Clients \ {c} : target'[d] = target[d]
    BY <1>1
  <1>5. ASSUME NEW d \in Clients, Partners(c, d), Linked(c, d)
        PROVE  PairOK(c, d)' /\ PairOK(d, c)'
    <2>1. PairOK(c, d) /\ PairOK(d, c) BY <1>5 DEF PairsOK, Partners
    <2>2. d = e BY <1>3, <1>5 DEF Matching
    <2>3. /\ pc'[d] = pc[d] /\ state'[d] = state[d] /\ d # c
          /\ AddrOf[d] # AddrOf[c]
          /\ Tries(d, c)' <=> Tries(d, c)
          /\ ~Tries(c, d)'
      BY <1>2, <1>4, <1>5, AddrsApart DEF Partners, Tries
    <2>4. /\ Introduction(c, d) \in net' <=> Introduction(c, d) \in net
          /\ Introduction(d, c) \in net' <=> Introduction(d, c) \in net
          /\ Request(c, d) \in net' <=> Request(c, d) \in net
          /\ Response(c, d) \in net'
      BY <2>2, <2>3, MessageFacts
    <2>5. Tries(d, c) \/ state[d] = "connected"
      BY <2>1, <2>2 DEF PairOK, AskerTries, Listens
    <2>6. PairOK(c, d)'
      BY <1>2, <2>1, <2>3, <2>4, MessageFacts
         DEF PairOK, BothTold, AskerTries, TriesHeard, ConnectedTogether
    <2>7. PairOK(d, c)'
      BY <1>2, <2>3, <2>4, <2>5, MessageFacts
         DEF PairOK, BothTold, AskerTries, TriesHeard, ConnectedTogether, Listens
    <2> QED BY <2>6, <2>7
  <1>6. \A d \in Clients : target'[c] = AddrOf[d] => Linked(c, d)
    BY <1>3, <1>4, AddrsApart
  <1>7. /\ \A r \in net \ net' : r.dst = AddrOf[c]
        /\ \A r \in net' \ net : r.src = AddrOf[c] /\ r = Response(c, e)
    BY MessageFacts
  <1> QED BY <1>2, <1>3, <1>4, <1>5, <1>6, <1>7, ClientKeeps

\* An answer of the client that c has asked, which is connected.
LEMMA AnsweredAgree ==
    ASSUME AInv, InTwos, PInv', UNCHANGED <<introduced, target>>,
           NEW c \in Clients, pc[c] = "loop", NEW e \in Clients,
           Partners(c, e), Response(e, c) \in net, target[c] = AddrOf[e],
           net' = net \ {Response(e, c)},
           EndIteration(c, "connected", attempts_left[c])
    PROVE  AInv'
  <1> USE DEF AInv
  <1>1. attempts_left[c] \in Nat
    BY DEF PInv, TInv, TypeOK, ConnectorTypeOK
  <1>2. /\ state'[c] = "connected" /\ pc'[c] = "returned"
        /\ Succeeded(c)'
        /\ \A d \in Clients \ {c} : /\ pc'[d] = pc[d]
                                    /\ state'[d] = state[d]
                                    /\ result'[d] = result[d]
    BY <1>1, EndAgree DEF States
  <1>3. Linked(c, e) BY DEF Linked, Knows
  <1>4. ASSUME NEW d \in Clients, Partners(c, d), Linked(c, d)
        PROVE  PairOK(c, d)' /\ PairOK(d, c)'
    <2>1. PairOK(c, d) /\ PairOK(d, c) BY <1>4 DEF PairsOK, Partners
    <2>2. d = e BY <1>3, <1>4 DEF Matching
    <2>3. state[d] = "connected" BY <2>2 DEF AnswerIsConnected
    <2>4. /\ pc'[d] = pc[d] /\ state'[d] = "connected" /\ d # c
          /\ AddrOf[d] # AddrOf[c]
          /\ ~Tries(d, c)' /\ ~Tries(c, d)'
      BY <1>2, <1>4, <2>3, AddrsApart DEF Partners, Tries
    <2>5. /\ Introduction(c, d) \in net' <=> Introduction(c, d) \in net
          /\ Introduction(d, c) \in net' <=> Introduction(d, c) \in net
          /\ Request(c, d) \in net' <=> Request(c, d) \in net
          /\ Request(d, c) \in net' <=> Request(d, c) \in net
      BY <2>2, <2>4, MessageFacts
    <2> QED BY <1>2, <2>1, <2>4, <2>5, MessageFacts
            DEF PairOK, BothTold, AskerTries, TriesHeard, ConnectedTogether,
                Listens
  <1>5. \A d \in Clients : target'[c] = AddrOf[d] => Linked(c, d)
    BY <1>3, AddrsApart
  <1>6. \A r \in net \ net' : r.dst = AddrOf[c]
    BY MessageFacts
  <1> QED BY <1>2, <1>4, <1>5, <1>6, ClientKeeps

\* The iterations with a datagram.
LEMMA LoopAgree ==
    ASSUME AInv, InTwos, Faultless, PInv', UNCHANGED introduced,
           NEW c \in Clients, NEW m \in net, m.dst = AddrOf[c], Loop(c, m)
    PROVE  AInv'
  <1> USE DEF AInv
  <1>1. /\ pc[c] = "loop" /\ peer'[c] = m.src
        /\ attempts_left[c] \in Nat /\ attempts_left[c] # 0
    BY FaultlessFacts DEF Loop, PInv, TInv, TypeOK, ConnectorTypeOK, Budget
  <1>2. attempts_left[c] - 1 \in Nat BY <1>1
  <1>3. CASE OnBindReply(c, m) /\ peer'[c] # stun_server_addr
    <2>1. /\ target' = target /\ net' = net \ {m}
          /\ EndIteration(c, state[c], attempts_left[c])
      BY <1>3, FaultlessFacts DEF OnBindReply, KeepWaiting
    <2>2. \A d \in Clients : /\ m # Introduction(c, d)
                             /\ m # Request(d, c) /\ m # Response(d, c)
      BY <1>1, <1>3, MessageFacts DEF OnBindReply
    <2> QED BY <1>1, <2>1, <2>2, IdleAgree
  <1>4. CASE OnBindReply(c, m) /\ peer'[c] = stun_server_addr
    <2>1. PICK d \in Clients : m = Introduction(c, d)
      BY <1>1, <1>4, HeardFacts DEF OnBindReply
    <2>2. m.addr = AddrOf[d] BY <2>1, MessageFacts
    <2>3. /\ target' = [target EXCEPT ![c] = AddrOf[d]]
          /\ net' = (net \ {m}) \cup {Request(c, d)}
          /\ EndIteration(c, "waiting_for_client_reply", PeerAttempts)
      <3>1. /\ \E ok \in SendResults :
                  Exchange(m, Sent(ok, ClientBindRequest(c, AddrOf[d])))
            /\ target' = [target EXCEPT ![c] = AddrOf[d]]
            /\ EndIteration(c, "waiting_for_client_reply", PeerAttempts)
        BY <1>4, <2>2 DEF OnBindReply
      <3>2. net' = (net \ {m}) \cup {ClientBindRequest(c, AddrOf[d])}
        BY <3>1, AnswerFacts
      <3> QED BY <3>1, <3>2 DEF Request
    <2> QED BY <1>1, <2>1, <2>3, IntroducedAgree
  <1>5. CASE OnClientBindRequest(c, m)
    <2>1. PICK d \in Clients : d # c /\ m = Request(d, c)
      BY <1>5, HeardFacts DEF OnClientBindRequest
    <2>2. /\ m.type = "client_bind_request"
          /\ m.tid = TidOf[d] /\ m.src = AddrOf[d]
      BY <2>1, MessageFacts
    <2>3. CASE WrongTransaction(c, m)
      <3>1. /\ target' = target /\ net' = net \ {m}
            /\ EndIteration(c, state[c], attempts_left[c] - 1)
        BY <1>5, <2>3, FaultlessFacts DEF OnClientBindRequest, UseAttempt
      <3>2. Linked(c, d) BY <2>1 DEF Linked, Knows
      <3>3. \A e \in Clients : ~(Partners(c, e) /\ Linked(c, e))
        BY <2>2, <2>3, <3>2 DEF Matching, Partners, WrongTransaction
      <3> QED BY <1>1, <1>2, <3>1, <3>3, IdleAgree
    <2>4. CASE ~WrongTransaction(c, m)
      <3>1. /\ target' = [target EXCEPT ![c] = AddrOf[d]]
            /\ net' = (net \ {m}) \cup {Response(c, d)}
            /\ EndIteration(c, "connected", attempts_left[c])
        <4>1. /\ \E ok \in SendResults :
                    Exchange(m, Sent(ok, ClientBindResponse(c, AddrOf[d])))
              /\ target' = [target EXCEPT ![c] = AddrOf[d]]
              /\ EndIteration(c, "connected", attempts_left[c])
          BY <1>1, <1>5, <2>2, <2>4 DEF OnClientBindRequest
        <4>2. net' = (net \ {m}) \cup {ClientBindResponse(c, AddrOf[d])}
          BY <4>1, AnswerFacts
        <4> QED BY <4>1, <4>2 DEF Response
      <3>2. Partners(c, d) BY <2>1, <2>2, <2>4 DEF Partners, WrongTransaction
      <3> QED BY <1>1, <2>1, <3>1, <3>2, RequestedAgree
    <2> QED BY <2>3, <2>4
  <1>6. CASE OnClientBindResponse(c, m)
    <2>1. PICK d \in Clients : Partners(c, d) /\ m = Response(d, c)
      BY <1>6, HeardFacts DEF OnClientBindResponse
    <2>2. m.type = "client_bind_response" /\ m.src = AddrOf[d]
      BY <2>1, MessageFacts
    <2>3. target' = target /\ net' = net \ {m}
      BY <1>6, FaultlessFacts DEF OnClientBindResponse
    <2>4. CASE peer'[c] # target[c]
      <3>1. EndIteration(c, state[c], attempts_left[c])
        BY <1>6, <2>4 DEF OnClientBindResponse, KeepWaiting
      <3>2. \A e \in Clients : m # Introduction(c, e) /\ m # Request(e, c)
        BY <2>2, MessageFacts
      <3>3. \A e \in Clients : m = Response(e, c) => ~Tries(c, e)
        BY <1>1, <2>4, MessageFacts DEF Tries
      <3> QED BY <1>1, <2>3, <3>1, <3>2, <3>3, IdleAgree
    <2>5. CASE peer'[c] = target[c]
      <3>1. EndIteration(c, "connected", attempts_left[c])
        BY <1>6, <2>5 DEF OnClientBindResponse
      <3> QED BY <1>1, <2>1, <2>2, <2>3, <2>5, <3>1, AnsweredAgree
    <2> QED BY <2>4, <2>5
  <1>7. CASE OnAck(c, m)
    <2>1. /\ target' = target /\ net' = net \ {m}
          /\ EndIteration(c, state[c], attempts_left[c])
      BY <1>7, FaultlessFacts DEF OnAck, KeepWaiting
    <2>2. \A d \in Clients : /\ m # Introduction(c, d)
                             /\ m # Request(d, c) /\ m # Response(d, c)
      BY <1>7, MessageFacts DEF OnAck
    <2> QED BY <1>1, <2>1, <2>2, IdleAgree
  <1>8. CASE OnOther(c, m)
    <2>1. m.type = "bind_request" BY <1>8 DEF OnOther, OnlyBasic
    <2>2. PICK d \in Clients : m = BindRequest(d)
      BY <2>1 DEF PInv, Peers, RequestsNew
    <2>3. m.dst = stun_server_addr BY <2>2 DEF BindRequest, WithTid
    <2> QED BY <2>3, AddrsApart
  <1> QED BY <1>3, <1>4, <1>5, <1>6, <1>7, <1>8 DEF Loop

\* A step that reads nothing of the clients' and sends acks at most.
LEMMA QuietAgree ==
    ASSUME AInv, PInv', UNCHANGED connVars, introduced \subseteq introduced',
           \A r \in net \ net' : r.dst \in ServerSocks,
           \A r \in net' \ net : r.type = "ack"
    PROVE  AInv'
  <1> USE DEF AInv, connVars
  <1>1. ASSUME NEW c \in Clients, NEW d \in Clients
        PROVE  /\ Introduction(c, d) \in net' <=> Introduction(c, d) \in net
               /\ Request(c, d) \in net' <=> Request(c, d) \in net
               /\ Response(c, d) \in net' <=> Response(c, d) \in net
    BY MessageFacts, AddrsApart
  <1>2. \A c, d \in Clients : Knows(c, d)' => Knows(c, d)
    BY <1>1, MessageFacts DEF Knows
  <1>3. Matching' BY <1>2, MatchingKept DEF Linked
  <1>4. OnlyBasic' BY DEF OnlyBasic
  <1>5. AnswerIsConnected' BY <1>1, MessageFacts DEF AnswerIsConnected
  <1>6. SuccessTold' BY DEF SuccessTold, Succeeded
  <1>7. PairsOK' BY <1>1, PairKept DEF PairsOK, Partners
  <1> QED BY <1>3, <1>4, <1>5, <1>6, <1>7

\* A client's request: it waits, or it and the client that waited, of whom
\* nobody knows yet, are told of each other.
LEMMA RequestAgree ==
    ASSUME AInv, ~MayDuplicate, PInv', NEW m \in net, OnBindRequest(m),
           m.dst \in ServerSocks, UNCHANGED connVars,
           introduced' = introduced \cup
              {c \in Clients : \E r \in net' \ net :
                    r.type = "bind_reply" /\ r.dst = AddrOf[c]}
    PROVE  AInv'
  <1> USE DEF AInv
  <1> DEFINE ack == Empty("ack", ServerSock(1), m.src)
             map == transaction_client_map
  <1>1. PICK c \in Clients : m = BindRequest(c) /\ New(c)
    BY DEF OnBindRequest, PInv, Peers, RequestsNew
  <1>2. m.src = AddrOf[c] BY <1>1, RequestFacts
  <1>3. ack.type = "ack" BY DEF Empty
  <1>4. \A out : Exchange(m, out) => net' = (net \ {m}) \cup out
    BY DEF Exchange
  <1>5. CASE Exchange(m, {ack})
    BY <1>3, <1>4, <1>5, QuietAgree
  <1>6. CASE /\ 0 \in DOMAIN map
             /\ Exchange(m, {ack} \cup Introduce(AddrOf[c], map[0]))
    <2>1. PICK e \in Clients \ introduced : map[0] = AddrOf[e]
      BY <1>6 DEF PInv, Peers, WaiterIsNew
    <2>2. e # c /\ c \notin introduced /\ e \notin introduced
      BY <1>1, <1>6, <2>1 DEF New
    <2>3. net' = (net \ {m}) \cup {ack, Introduction(c, e), Introduction(e, c)}
      BY <1>4, <1>6, <2>1 DEF Introduce, Introduction, stun_server_addr
    <2>4. \A d \in Clients : ~Knows(c, d) /\ ~Knows(d, c)
                             /\ ~Knows(e, d) /\ ~Knows(d, e)
      BY <2>2 DEF Matching
    <2>5. c \in introduced' /\ e \in introduced'
      <3>1. Introduction(c, e) \in net' \ net /\ Introduction(e, c) \in net' \ net
        BY <2>1, <2>3, <2>4 DEF Knows
      <3> QED BY <2>1, <3>1, MessageFacts
    <2>6. ASSUME NEW x \in Clients, NEW y \in Clients
          PROVE  /\ Introduction(x, y) \in net' <=>
                       \/ Introduction(x, y) \in net
                       \/ <<x, y>> \in {<<c, e>>, <<e, c>>}
                 /\ Request(x, y) \in net' <=> Request(x, y) \in net
                 /\ Response(x, y) \in net' <=> Response(x, y) \in net
      <3>1. /\ Introduction(x, y) = Introduction(c, e) => x = c /\ y = e
            /\ Introduction(x, y) = Introduction(e, c) => x = e /\ y = c
        BY <2>1, MessageFacts, AddrsApart
      <3>2. /\ m \notin {Introduction(x, y), Request(x, y), Response(x, y)}
            /\ ack \notin {Introduction(x, y), Request(x, y), Response(x, y)}
        BY <1>1, <1>3, RequestFacts, MessageFacts
      <3>3. /\ Introduction(c, e).type = "bind_reply"
            /\ Introduction(e, c).type = "bind_reply"
            /\ Request(x, y).type = "client_bind_request"
            /\ Response(x, y).type = "client_bind_response"
        BY <2>1, MessageFacts
      <3> HIDE DEF ack
      <3>4. \A r : r # m /\ r # ack =>
               (r \in net' <=> \/ r \in net \/ r = Introduction(c, e)
                               \/ r = Introduction(e, c))
        BY <2>3
      <3> QED BY <3>1, <3>2, <3>3, <3>4
    <2>7. ASSUME NEW x \in Clients, NEW y \in Clients
          PROVE  Knows(x, y)' <=>
                    Knows(x, y) \/ <<x, y>> \in {<<c, e>>, <<e, c>>}
      <3>1. state' = state /\ target' = target BY DEF connVars
      <3>2. /\ Introduction(x, y)' = Introduction(x, y)
            /\ Request(x, y)' = Request(x, y)
            /\ Response(x, y)' = Response(x, y)
        BY MessageFacts
      <3> QED BY <2>6, <3>1, <3>2 DEF Knows
    <2>8. Matching'
      <3>1. ASSUME NEW x \in Clients, NEW y \in Clients, Knows(x, y)'
            PROVE  x # y /\ x \in introduced' /\ y \in introduced'
        BY <2>2, <2>5, <2>7, <3>1 DEF Matching
      <3>2. ASSUME NEW x \in Clients, NEW y \in Clients, NEW z \in Clients,
                   Linked(x, y)', Linked(x, z)'
            PROVE  y = z
        <4>1. CASE x \in {c, e} BY <2>4, <2>7, <3>2, <4>1 DEF Linked
        <4>2. CASE x \notin {c, e}
          BY <2>7, <3>2, <4>2 DEF Linked, Matching
        <4> QED BY <4>1, <4>2
      <3> QED BY <3>1, <3>2 DEF Matching
    <2>9. PairsOK'
      <3>1. ASSUME NEW x \in Clients, NEW y \in Clients, Partners(x, y)
            PROVE  PairOK(x, y)'
        <4>1. PairOK(x, y) BY <3>1 DEF PairsOK
        <4>2. CASE <<x, y>> \notin {<<c, e>>, <<e, c>>}
          BY <2>6, <4>1, <4>2, PairKept DEF connVars
        <4>3. CASE <<x, y>> \in {<<c, e>>, <<e, c>>}
          <5>1. /\ ~Knows(x, y) /\ ~Knows(y, x)
                /\ Introduction(y, x) \in net' /\ Request(x, y) \notin net'
            <6>1. ~Knows(x, y) /\ ~Knows(y, x) BY <2>1, <2>4, <4>3
            <6>2. Introduction(y, x) \in net' BY <2>6, <4>3
            <6>3. Request(x, y) \notin net BY <6>1 DEF Knows
            <6> QED BY <2>6, <6>1, <6>2, <6>3
          <5>2. ~Tries(x, y)' BY <5>1 DEF Knows, Tries, Punching, connVars
          <5>3. state[y] # "connected"
            <6> SUFFICES ASSUME state[y] = "connected" PROVE FALSE OBVIOUS
            <6>1. PICK z \in Clients : target[y] = AddrOf[z]
              BY DEF PInv, Peers, PeerIsAnother
            <6>2. Knows(y, z) BY <6>1 DEF Knows, Punching
            <6> QED BY <2>4, <4>3, <6>2
          <5>4. state'[y] # "connected" BY <5>3 DEF connVars
          <5>5. /\ Introduction(y, x)' = Introduction(y, x)
                /\ Request(x, y)' = Request(x, y)
            BY MessageFacts
          <5> QED BY <5>1, <5>2, <5>4, <5>5
                  DEF PairOK, BothTold, AskerTries, TriesHeard,
                      ConnectedTogether
        <4> QED BY <4>2, <4>3
      <3> QED BY <3>1 DEF PairsOK, Partners
    <2>10. OnlyBasic'
      BY <1>3, <2>1, <2>3, MessageFacts DEF OnlyBasic
    <2>11. AnswerIsConnected'
      BY <2>6, MessageFacts DEF AnswerIsConnected, connVars
    <2>12. SuccessTold' BY DEF SuccessTold, Succeeded, connVars
    <2> QED BY <2>8, <2>9, <2>10, <2>11, <2>12
  <1> QED BY <1>2, <1>5, <1>6 DEF OnBindRequest, BindRequestTid

LEMMA AgreeStep ==
    ASSUME InTwos, Faultless, AInv, [Next]_vars
    PROVE  AInv'
  <1>1. ~MayDuplicate /\ ~MayLose /\ Prompt
        /\ LenValues \subseteq {"full", "negative"}
    BY DEF Faultless
  <1>2. PInv' BY <1>1, PeersStep DEF AInv
  <1>3. CASE ServerReceives
    <2>1. PICK m \in net : Receive(m) BY <1>3 DEF ServerReceives
    <2>2. /\ UNCHANGED connVars
          /\ introduced' = introduced \cup
                {c \in Clients : \E r \in net' \ net :
                    r.type = "bind_reply" /\ r.dst = AddrOf[c]}
      BY <1>3 DEF ServerReceives
    <2>3. m.dst \in ServerSocks BY <2>1 DEF Receive
    <2>4. CASE OnBindRequest(m)
      BY <1>1, <1>2, <2>2, <2>3, <2>4, RequestAgree
    <2>5. CASE OnUnexpected(m)
      <3>1. net' = net \ {m} BY <2>5, FaultlessFacts DEF OnUnexpected
      <3> QED BY <1>2, <2>2, <2>3, <3>1, QuietAgree
    <2>6. ~OnPsBindRequest(m) /\ ~OnHeartbeat(m)
      BY DEF AInv, OnlyBasic, OnPsBindRequest, OnHeartbeat
    <2> QED BY <2>1, <2>4, <2>5, <2>6 DEF Receive
  <1>4. ASSUME NEW c \in Clients, ClientStarts(c) PROVE AInv'
    BY <1>2, <1>4, EarlyAgree DEF ClientStarts
  <1>5. ASSUME NEW c \in Clients, ClientTimesOut(c) PROVE AInv'
    BY <1>1, <1>2, <1>5, EarlyAgree, TimeoutAgree DEF ClientTimesOut, Timeout
  <1>6. ASSUME NEW c \in Clients, ClientHears(c) PROVE AInv'
    <2>1. PICK m \in net : Hear(c, m) BY <1>6 DEF ClientHears
    <2>2. UNCHANGED <<serverVars, introduced>> /\ m.dst = AddrOf[c]
      BY <1>6, <2>1 DEF ClientHears, Hear
    <2>3. ~AckError(c, m) /\ ~LoopError(c, m)
      BY FaultlessFacts DEF AckError, LoopError
    <2>4. CASE Acknowledged(c, m) BY <1>2, <2>2, <2>4, EarlyAgree
    <2>5. CASE Loop(c, m) BY <1>2, <2>2, <2>5, LoopAgree
    <2> QED BY <2>1, <2>3, <2>4, <2>5 DEF Hear
  <1>7. CASE ServerRestarts \/ UNCHANGED vars
    <2>1. UNCHANGED <<connVars, introduced>> /\ net' = net
      BY <1>7 DEF ServerRestarts, Stop, Start, vars
    <2> QED BY <1>2, <2>1, QuietAgree
  <1>8. ~Loses BY <1>1 DEF Loses, Lose
  <1> QED BY <1>3, <1>4, <1>5, <1>6, <1>7, <1>8 DEF Next, ClientRuns

LEMMA AgreeInit ==
    ASSUME Init
    PROVE  AInv
  <1>1. PInv BY PeersInit
  <1>2. net = {} BY DEF Init
  <1>3. \A c \in Clients : /\ state[c] = "disconnected" /\ result[c] = "none"
                           /\ pc[c] = "start"
    BY DEF Init, ConnectorInit
  <1>4. \A c, d \in Clients : ~Knows(c, d) /\ ~Tries(c, d)
    BY <1>2, <1>3 DEF Knows, Punching, Tries
  <1>5. Matching BY <1>4 DEF Matching, Linked
  <1>6. OnlyBasic /\ AnswerIsConnected BY <1>2 DEF OnlyBasic, AnswerIsConnected
  <1>7. SuccessTold BY <1>3 DEF SuccessTold, Succeeded
  <1>8. PairsOK
    BY <1>2, <1>3, <1>4
       DEF PairsOK, PairOK, BothTold, AskerTries, TriesHeard, ConnectedTogether
  <1> QED BY <1>1, <1>5, <1>6, <1>7, <1>8 DEF AInv

\* Two clients of a transaction come to the same result (p2p_connector.h:
\* 73-196, Agreement), for any number of clients, also of transactions that
\* the server confuses, in every order of arrival and with restarts of the
\* server.  That needs a network that loses, duplicates and delays nothing
\* beyond a timeout, calls that do not fail, addresses copied whole, and no
\* more than two clients with one transaction id.
THEOREM PartnersAgree ==
    ASSUME Faultless, InTwos
    PROVE  Spec => []Agreement
  <1>1. Init => AInv BY AgreeInit
  <1>2. AInv /\ [Next]_vars => AInv' BY AgreeStep
  <1>3. AInv => Agreement
    <2> SUFFICES ASSUME AInv, NEW c \in Clients, NEW d \in Clients,
                        TidOf[c] = TidOf[d], pc[c] = "returned",
                        pc[d] = "returned", Succeeded(c)
                 PROVE  Succeeded(d)
      BY DEF Agreement
    <2>1. CASE c = d BY <2>1
    <2>2. CASE c # d
      <3>1. state[c] = "connected" BY DEF AInv, SuccessTold
      <3>2. ConnectedTogether(d, c)
        BY <2>2 DEF AInv, PairsOK, Partners, PairOK
      <3>3. state[d] = "connected" BY <3>1, <3>2 DEF ConnectedTogether, Tries
      <3> QED BY <3>3 DEF AInv, SuccessTold
    <2> QED BY <2>1, <2>2
  <1> QED BY <1>1, <1>2, <1>3, PTL DEF Spec
=============================================================================
