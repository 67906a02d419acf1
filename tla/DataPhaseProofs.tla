--------------------------- MODULE DataPhaseProofs ---------------------------
(***************************************************************************)
(* Proofs about the data phase, with the two threads of every connected    *)
(* client among clients that still connect: any number of clients, any     *)
(* network, any server restarts, and addresses that recvfrom copies in     *)
(* part and that the two threads read and write in halves.                 *)
(***************************************************************************)
EXTENDS DataPhase, HolePunchPromises

\* Whoever is at a's host knows its peer, or has known it.  The host is all
\* that is sure about an address that is half old and half new.
Known(a) ==
    \A c \in Clients : a.ip = AddrOf[c].ip => state[c] \in Punching

SuccessConnected ==
    \A c \in Clients : Succeeded(c) => state[c] = "connected"

\* Requests go to the server; all else comes from hosts that know their peer
\* (the server is nobody's host).
SendersKnown ==
    \A m \in net :
        IF m.type = "bind_request" THEN m.dst = stun_server_addr
        ELSE Known(m.src)

TextsKnown == \A m \in net : m.type = "text" => Known(m.dst)

\* Whom a client has heard, and whom a connected client talks to.
PeersKnown == \A c \in Clients : Known(peer[c])
TargetsKnown == \A c \in Clients : state[c] = "connected" => Known(target[c])

KInv ==
    /\ EarlyStates
    /\ SuccessConnected
    /\ SendersKnown
    /\ TextsKnown
    /\ PeersKnown
    /\ TargetsKnown

DInv == TInv /\ KInv

\* One client to a host.
OneClientPerHost ==
    \A c, d \in Clients : AddrOf[c].ip = AddrOf[d].ip => c = d

----------------------------------------------------------------------------
(* The threads of a connected client                                       *)

LEMMA TextFacts ==
    ASSUME NEW c \in Clients, NEW a \in SockAddr
    PROVE  /\ Text(c, a) \in Datagram
           /\ Text(c, a).type = "text"
           /\ Text(c, a).src = AddrOf[c]
           /\ Text(c, a).dst = a
  <1>1. AddrOf[c] \in SockAddr BY ConnectorAssumption, AddrFacts
  <1> QED BY <1>1 DEF Text, Empty, Datagram, EmptyTypes

\* What the steps of the two threads have in common: the client of one of
\* them is connected, and where it talks to next has the host of its target or
\* of a sender it hears.
LEMMA TalkFacts ==
    ASSUME TInv, NEW c \in Clients, Talk(c) \/ Listen(c) \/ TalkWhileListening(c)
    PROVE  /\ Talking(c)
           /\ UNCHANGED <<serverVars, pc, state, attempts_left, peer, result,
                          introduced>>
           /\ target' \in [Clients -> SockAddr]
           /\ \A d \in Clients \ {c} : target'[d] = target[d]
           /\ \/ target'[c] = target[c]
              \/ \E m \in net : /\ m.dst = AddrOf[c]
                                /\ target'[c].ip \in {target[c].ip, m.src.ip}
           /\ \A r \in net' \ net :
                 \E a \in SockAddr :
                    /\ r = Text(c, a)
                    /\ a.ip \in {target[c].ip, target'[c].ip}
  <1>1. target \in [Clients -> SockAddr] /\ net \subseteq Datagram
    BY DEF TInv, TypeOK, ConnectorTypeOK, ServerTypeOK
  <1>2. Talking(c)
        /\ UNCHANGED <<serverVars, pc, state, attempts_left, peer, result,
                       introduced>>
    BY DEF Talk, Listen, TalkWhileListening, connVars
  <1>3. CASE Talk(c)
    <2>1. target' = target BY <1>3 DEF Talk, connVars
    <2>2. \A r \in net' \ net : r = Text(c, target[c])
      BY <1>3, SentFacts DEF Talk, Send
    <2> QED BY <1>1, <1>2, <2>1, <2>2
  <1>4. ASSUME NEW m \in net, m.dst = AddrOf[c],
               NEW a \in HeardFrom(c, m), target' = [target EXCEPT ![c] = a]
        PROVE  /\ target' \in [Clients -> SockAddr]
               /\ target'[c] = a
               /\ \A d \in Clients \ {c} : target'[d] = target[d]
               /\ a \in SockAddr
               /\ a.ip \in {target[c].ip, m.src.ip}
    <2>1. m.src \in SockAddr BY <1>1 DEF Datagram
    <2>2. a \in SockAddr BY <1>1, <1>4, <2>1, PeerType DEF HeardFrom
    <2>3. \/ a = m.src \/ a = target[c]
          \/ a = [ip |-> target[c].ip, port |-> m.src.port]
      BY <1>4 DEF HeardFrom, PeerAddress
    <2>4. [ip |-> target[c].ip, port |-> m.src.port].ip = target[c].ip
      OBVIOUS
    <2>5. a.ip \in {target[c].ip, m.src.ip} BY <2>3, <2>4
    <2> QED BY <1>1, <1>4, <2>2, <2>5
  <1>5. CASE Listen(c)
    <2>1. PICK m \in net :
             /\ m.dst = AddrOf[c]
             /\ \/ /\ Exchange(m, {})
                   /\ \E a \in HeardFrom(c, m) :
                         target' = [target EXCEPT ![c] = a]
                \/ ReceiveFails(m) /\ UNCHANGED target
      BY <1>5 DEF Listen
    <2>2. net' \ net = {} BY <2>1, ExchangeFacts DEF ReceiveFails
    <2> QED BY <1>1, <1>2, <1>4, <2>1, <2>2
  <1>6. CASE TalkWhileListening(c)
    <2>1. PICK m \in net :
             /\ m.dst = AddrOf[c]
             /\ \E a \in HeardFrom(c, m) :
                /\ target' = [target EXCEPT ![c] = a]
                /\ \E x, y \in {target[c], a} :
                      Exchange(m, {Text(c, [ip |-> x.ip, port |-> y.port])})
      BY <1>6 DEF TalkWhileListening
    <2>2. PICK a \in HeardFrom(c, m) :
             /\ target' = [target EXCEPT ![c] = a]
             /\ \E x, y \in {target[c], a} :
                   Exchange(m, {Text(c, [ip |-> x.ip, port |-> y.port])})
      BY <2>1
    <2>3. PICK x \in {target[c], a}, y \in {target[c], a} :
             Exchange(m, {Text(c, [ip |-> x.ip, port |-> y.port])})
      BY <2>2
    <2> DEFINE b == [ip |-> x.ip, port |-> y.port]
    <2>4. a \in SockAddr /\ target'[c] = a BY <1>4, <2>1, <2>2
    <2>5. x \in SockAddr /\ y \in SockAddr BY <1>1, <2>4
    <2>6. b \in SockAddr /\ b.ip = x.ip BY <2>5 DEF SockAddr
    <2>7. \A r \in net' \ net : r = Text(c, b) BY <2>3, ExchangeFacts
    <2> HIDE DEF b
    <2>8. x.ip \in {target[c].ip, target'[c].ip} BY <2>4
    <2> QED BY <1>2, <1>4, <2>1, <2>2, <2>6, <2>7, <2>8
  <1> QED BY <1>3, <1>5, <1>6

LEMMA TalkTypes ==
    ASSUME TInv, NEW c \in Clients, Talk(c) \/ Listen(c) \/ TalkWhileListening(c)
    PROVE  TInv'
  <1>1. /\ UNCHANGED <<serverVars, pc, state, attempts_left, peer, result,
                       introduced>>
        /\ target' \in [Clients -> SockAddr]
        /\ \A r \in net' \ net : \E a \in SockAddr : r = Text(c, a)
    BY TalkFacts
  <1>2. \A r \in net' \ net : r \in Datagram /\ r.type # "bind_reply"
    BY <1>1, TextFacts
  <1>3. ConnectorTypeOK' /\ Budget' /\ ConnectedReturned'
    BY <1>1 DEF TInv, TypeOK, ConnectorTypeOK, Budget, ConnectedReturned
  <1> QED BY <1>1, <1>2, <1>3, ClientStep

LEMMA DataTypesStep ==
    ASSUME TInv, [DataNext]_vars
    PROVE  TInv'
BY TypesStep, TalkTypes DEF DataNext

LEMMA DataTypesInvariant == DataSpec => []TInv
  <1>1. Init => TInv BY TypesInit
  <1>2. TInv /\ [DataNext]_vars => TInv' BY DataTypesStep
  <1> QED BY <1>1, <1>2, PTL DEF DataSpec

\* The types of server, network and clients hold while connected clients talk,
\* whatever halves of addresses recvfrom and the two threads put together.
THEOREM DataTypeCorrect == DataSpec => []TypeOK
  <1>1. TInv => TypeOK BY DEF TInv
  <1> QED BY <1>1, DataTypesInvariant, PTL

\* An attempt that is spent comes back only with an introduction, also where
\* the client hears what connected clients say.
THEOREM DataAttemptsAreSpent == DataSpec => AttemptsSpent
  <1>1. ASSUME TInv, [DataNext]_vars PROVE [Spends]_vars
    <2>1. CASE [Next]_vars BY <1>1, <2>1, StepSpends
    <2>2. ASSUME NEW c \in Clients,
                 Talk(c) \/ Listen(c) \/ TalkWhileListening(c)
          PROVE  Spends
      <3>1. attempts_left' = attempts_left /\ state' = state
        BY <1>1, <2>2, TalkFacts
      <3> QED BY <1>1, <3>1, SameSpends
    <2> QED BY <1>1, <2>1, <2>2 DEF DataNext
  <1>2. [][Spends]_vars => AttemptsSpent BY PTL DEF Spends, AttemptsSpent
  <1> QED BY <1>1, <1>2, DataTypesInvariant, PTL DEF DataSpec

----------------------------------------------------------------------------
(* Whom texts are sent to                                                  *)

\* What is known stays known, if nobody forgets its peer.
LEMMA KnownStays ==
    ASSUME \A d \in Clients : state[d] \in Punching => state'[d] \in Punching,
           NEW a
    PROVE  Known(a) => Known(a)'
BY DEF Known

\* A client's own address is known once the client knows its peer.
LEMMA OwnKnown ==
    ASSUME OneClientPerHost, NEW c \in Clients, state[c] \in Punching
    PROVE  Known(AddrOf[c])
BY DEF Known, OneClientPerHost

LEMMA ServerKnown ==
    ASSUME NEW a, a.ip \in {ServerIp, NoIp}
    PROVE  Known(a)
  <1>1. \A c \in Clients : AddrOf[c].ip \in Ips
    BY ConnectorAssumption, AddrFacts
  <1> QED BY <1>1, NetworkAssumption DEF Known

\* What a step of connect in client c must do to keep the invariant.
LEMMA KnownStep ==
    ASSUME OneClientPerHost, KInv, NEW c \in Clients,
           \A d \in Clients \ {c} :
               /\ state'[d] = state[d] /\ pc'[d] = pc[d]
               /\ result'[d] = result[d]
               /\ target'[d] = target[d] /\ peer'[d] = peer[d],
           state[c] \in Punching => state'[c] \in Punching,
           pc'[c] \in {"start", "await_ack"} => state'[c] = "disconnected",
           result'[c] = "connection_successful" => state'[c] = "connected",
           Known(peer'[c]),
           state'[c] = "connected" => Known(target'[c]),
           \A r \in net' \ net :
               /\ r.type # "text"
               /\ IF r.type = "bind_request" THEN r.dst = stun_server_addr
                  ELSE r.src = AddrOf[c] /\ state'[c] \in Punching
    PROVE  KInv'
  <1>1. \A d \in Clients : state[d] \in Punching => state'[d] \in Punching
    OBVIOUS
  <1>2. \A a : Known(a) => Known(a)' BY <1>1, KnownStays
  <1>3. EarlyStates' BY DEF KInv, EarlyStates
  <1>4. SuccessConnected' BY DEF KInv, SuccessConnected, Succeeded
  <1>5. SendersKnown'
    <2>1. ASSUME NEW m \in net', m.type # "bind_request" PROVE Known(m.src)'
      <3>1. CASE m \in net BY <1>2, <2>1, <3>1 DEF KInv, SendersKnown
      <3>2. CASE m \notin net
        <4>1. m.src = AddrOf[c] /\ state'[c] \in Punching BY <2>1, <3>2
        <4> QED BY <4>1 DEF Known, OneClientPerHost
      <3> QED BY <3>1, <3>2
    <2>2. ASSUME NEW m \in net', m.type = "bind_request"
          PROVE  m.dst = stun_server_addr
      BY <2>2 DEF KInv, SendersKnown
    <2> QED BY <2>1, <2>2 DEF SendersKnown, stun_server_addr
  <1>6. TextsKnown' BY <1>2 DEF KInv, TextsKnown
  <1>7. PeersKnown'
    <2>1. ASSUME NEW d \in Clients PROVE Known(peer'[d])
      BY DEF KInv, PeersKnown
    <2> QED BY <1>1, <2>1 DEF PeersKnown, Known
  <1>8. TargetsKnown'
    <2>1. ASSUME NEW d \in Clients, state'[d] = "connected"
          PROVE  Known(target'[d])
      BY <2>1 DEF KInv, TargetsKnown
    <2> QED BY <1>1, <2>1 DEF TargetsKnown, Known
  <1> QED BY <1>3, <1>4, <1>5, <1>6, <1>7, <1>8 DEF KInv

\* What a client hears comes from somebody who knows its peer, or the server.
LEMMA HeardKnown ==
    ASSUME KInv, NEW c \in Clients, NEW m \in net, m.dst = AddrOf[c]
    PROVE  Known(m.src)
  <1>1. AddrOf[c] # stun_server_addr
    BY ConnectorAssumption, AddrFacts DEF stun_server_addr
  <1> QED BY <1>1 DEF KInv, SendersKnown

\* Copied in part or whole, a sender's address is one of a host that was known.
LEMMA CopyKnown ==
    ASSUME NEW old, NEW src, NEW p \in PeerAddress(old, src),
           Known(old), Known(src)
    PROVE  Known(p)
  <1>1. p.ip = old.ip \/ p.ip = src.ip BY DEF PeerAddress
  <1> QED BY <1>1 DEF Known

\* The end of an iteration, as KnownStep asks for it.
LEMMA EndKnown ==
    ASSUME TInv, KInv, NEW c \in Clients, NEW s, NEW n, pc[c] = "loop",
           EndIteration(c, s, n)
    PROVE  /\ state'[c] = s
           /\ pc'[c] \notin {"start", "await_ack"}
           /\ result'[c] = "connection_successful" => s = "connected"
           /\ \A d \in Clients \ {c} :
                 /\ state'[d] = state[d] /\ pc'[d] = pc[d]
                 /\ result'[d] = result[d]
  <1>1. state' = [state EXCEPT ![c] = s] BY DEF EndIteration
  <1>2. state[c] # "connected" /\ result[c] # "connection_successful"
    BY DEF TInv, ConnectedReturned, KInv, SuccessConnected, Succeeded
  <1>3. CASE s = "connected" \/ n = 0
    <2>1. /\ pc' = [pc EXCEPT ![c] = "returned"]
          /\ result' = [result EXCEPT ![c] = Outcome(s)]
      BY <1>3 DEF EndIteration
    <2>2. Outcome(s) = "connection_successful" => s = "connected"
      BY DEF Outcome
    <2> QED BY <1>1, <2>1, <2>2 DEF TInv, TypeOK, ConnectorTypeOK
  <1>4. CASE ~(s = "connected" \/ n = 0)
    <2>1. pc' = pc /\ result' = result BY <1>4 DEF EndIteration
    <2> QED BY <1>1, <1>2, <2>1 DEF TInv, TypeOK, ConnectorTypeOK
  <1> QED BY <1>3, <1>4

\* The steps before the loop.
LEMMA EarlyKnown ==
    ASSUME OneClientPerHost, TInv, KInv, NEW c \in Clients, NEW m,
           \/ Connect(c) \/ AckTimeout(c) \/ AckError(c, m)
           \/ m \in net /\ m.dst = AddrOf[c] /\ Acknowledged(c, m)
    PROVE  KInv'
  <1> USE DEF TInv, TypeOK, ConnectorTypeOK
  <1>1. Known(peer[c]) BY DEF KInv, PeersKnown
  <1>2. state[c] = "disconnected"
    BY DEF KInv, EarlyStates, Connect, AckTimeout, AckError, Acknowledged
  <1>3. result[c] # "connection_successful"
    BY <1>2 DEF KInv, SuccessConnected, Succeeded
  <1>4. "disconnected" \notin Punching /\ "disconnected" # "connected"
    BY DEF Punching
  <1>5. CASE Connect(c)
    <2>1. /\ \A d \in Clients \ {c} :
                /\ state'[d] = state[d] /\ pc'[d] = pc[d]
                /\ result'[d] = result[d]
                /\ target'[d] = target[d] /\ peer'[d] = peer[d]
          /\ state'[c] = "disconnected" /\ peer'[c] = peer[c]
          /\ result'[c] # "connection_successful"
      BY <1>2, <1>3, <1>5 DEF Connect, Fail
    <2>2. \A r \in net' \ net : r = BindRequest(c)
      BY <1>5, SentFacts DEF Connect, Send
    <2>3. BindRequest(c).type = "bind_request"
          /\ BindRequest(c).dst = stun_server_addr
      BY DEF BindRequest, WithTid
    <2>4. \A r \in net' \ net :
             r.type = "bind_request" /\ r.dst = stun_server_addr
      BY <2>2, <2>3
    <2> QED BY <1>1, <1>2, <1>4, <2>1, <2>4, KnownStep
  <1>6. CASE AckTimeout(c) \/ AckError(c, m)
    <2>1. /\ Fail(c) /\ target' = target /\ peer' = peer
          /\ net' = net \/ Exchange(m, {})
      BY <1>6 DEF AckTimeout, AckError, ReceiveFails
    <2>2. net' \ net = {} BY <2>1, ExchangeFacts
    <2>3. /\ \A d \in Clients \ {c} :
                /\ state'[d] = state[d] /\ pc'[d] = pc[d]
                /\ result'[d] = result[d]
                /\ target'[d] = target[d] /\ peer'[d] = peer[d]
          /\ state'[c] = "disconnected" /\ peer'[c] = peer[c]
          /\ result'[c] # "connection_successful"
      BY <1>2, <2>1 DEF Fail
    <2> QED BY <1>1, <1>2, <1>4, <2>2, <2>3, KnownStep
  <1>7. CASE m \in net /\ m.dst = AddrOf[c] /\ Acknowledged(c, m)
    <2>1. PICK p \in PeerAddress(peer[c], m.src) :
             peer' = [peer EXCEPT ![c] = p]
      BY <1>7 DEF Acknowledged
    <2>2. Known(p) BY <1>1, <1>7, <2>1, HeardKnown, CopyKnown
    <2>3. net' \ net = {} BY <1>7, ExchangeFacts DEF Acknowledged
    <2>4. /\ \A d \in Clients \ {c} :
                /\ state'[d] = state[d] /\ pc'[d] = pc[d]
                /\ result'[d] = result[d]
                /\ target'[d] = target[d] /\ peer'[d] = peer[d]
          /\ state'[c] = "waiting_for_stun_reply" /\ peer'[c] = p
          /\ pc'[c] = "loop" /\ result'[c] = result[c]
      BY <1>7, <2>1 DEF Acknowledged
    <2> QED BY <1>2, <1>3, <1>4, <2>2, <2>3, <2>4, KnownStep
  <1> QED BY <1>5, <1>6, <1>7

\* An iteration of c's loop keeps the invariant if it hears only from known
\* hosts, connects only to one, and signs what it sends.
LEMMA IterationKnown ==
    ASSUME OneClientPerHost, TInv, KInv, NEW c \in Clients, NEW s, NEW n,
           pc[c] = "loop", EndIteration(c, s, n),
           state[c] \in Punching => s \in Punching,
           \A d \in Clients \ {c} :
               target'[d] = target[d] /\ peer'[d] = peer[d],
           Known(peer'[c]),
           s = "connected" => Known(target'[c]),
           \A r \in net' \ net :
               /\ r.type \in {"client_bind_request", "client_bind_response"}
               /\ r.src = AddrOf[c]
               /\ s \in Punching
    PROVE  KInv'
  <1>1. /\ state'[c] = s
        /\ pc'[c] \notin {"start", "await_ack"}
        /\ result'[c] = "connection_successful" => s = "connected"
        /\ \A d \in Clients \ {c} :
              /\ state'[d] = state[d] /\ pc'[d] = pc[d]
              /\ result'[d] = result[d]
    BY EndKnown
  <1>2. \A r \in net' \ net :
           /\ r.type # "text" /\ r.type # "bind_request"
           /\ r.src = AddrOf[c] /\ s \in Punching
    OBVIOUS
  <1> QED BY <1>1, <1>2, KnownStep

\* The two ways of going on without a change of state.
LEMMA GoOnKnown ==
    ASSUME OneClientPerHost, TInv, KInv, NEW c \in Clients, pc[c] = "loop",
           KeepWaiting(c) \/ UseAttempt(c), target' = target,
           \A d \in Clients \ {c} : peer'[d] = peer[d], Known(peer'[c]),
           \A r \in net' \ net :
               /\ r.type \in {"client_bind_request", "client_bind_response"}
               /\ r.src = AddrOf[c]
               /\ state[c] \in Punching
    PROVE  KInv'
  <1>1. PICK n : EndIteration(c, state[c], n) BY DEF KeepWaiting, UseAttempt
  <1>2. state[c] = "connected" => Known(target[c]) BY DEF KInv, TargetsKnown
  <1> QED BY <1>1, <1>2, IterationKnown

LEMMA SentByClient ==
    ASSUME NEW c \in Clients, NEW a
    PROVE  /\ ClientBindRequest(c, a).type = "client_bind_request"
           /\ ClientBindRequest(c, a).src = AddrOf[c]
           /\ ClientBindResponse(c, a).type = "client_bind_response"
           /\ ClientBindResponse(c, a).src = AddrOf[c]
BY DEF ClientBindRequest, ClientBindResponse, WithTid

\* The iterations without a datagram.
LEMMA TimeoutKnown ==
    ASSUME OneClientPerHost, TInv, KInv, NEW c \in Clients, NEW m,
           LoopTimeout(c) \/ LoopError(c, m)
    PROVE  KInv'
  <1>1. /\ UseAttempt(c) /\ target' = target /\ peer' = peer
        /\ pc[c] = "loop"
    BY DEF LoopTimeout, LoopError
  <1>2. Known(peer'[c]) BY <1>1 DEF KInv, PeersKnown
  <1>3. CASE LoopTimeout(c)
    <2>1. \A r \in net' \ net :
             r = ClientBindRequest(c, target[c])
             /\ state[c] = "waiting_for_client_reply"
      BY <1>3, SentFacts DEF LoopTimeout, Send
    <2>2. \A r \in net' \ net :
             /\ r.type \in {"client_bind_request", "client_bind_response"}
             /\ r.src = AddrOf[c]
             /\ state[c] \in Punching
      BY <2>1, SentByClient DEF Punching
    <2> QED BY <1>1, <1>2, <2>2, GoOnKnown
  <1>4. CASE LoopError(c, m)
    <2>1. net' \ net = {} BY <1>4, ExchangeFacts DEF LoopError, ReceiveFails
    <2> QED BY <1>1, <1>2, <2>1, GoOnKnown
  <1> QED BY <1>3, <1>4

\* The iterations with a datagram: a request connects to its sender, an answer
\* to the target if that is its sender.
LEMMA LoopKnown ==
    ASSUME OneClientPerHost, TInv, KInv, NEW c \in Clients, NEW m \in net,
           m.dst = AddrOf[c], Loop(c, m)
    PROVE  KInv'
  <1>1. pc[c] = "loop" BY DEF Loop
  <1>2. PICK p \in PeerAddress(peer[c], m.src) :
           peer' = [peer EXCEPT ![c] = p]
    BY DEF Loop
  <1>3. Known(p)
    BY <1>2, HeardKnown, CopyKnown DEF KInv, PeersKnown
  <1>4. peer'[c] = p /\ \A d \in Clients \ {c} : peer'[d] = peer[d]
    BY <1>2 DEF TInv, TypeOK, ConnectorTypeOK
  <1>5. DOMAIN target = Clients BY DEF TInv, TypeOK, ConnectorTypeOK
  <1>6. CASE /\ Exchange(m, {}) /\ target' = target
             /\ KeepWaiting(c) \/ UseAttempt(c)
    <2>1. net' \ net = {} BY <1>6, ExchangeFacts
    <2> QED BY <1>1, <1>3, <1>4, <1>6, <2>1, GoOnKnown
  <1>7. CASE OnBindReply(c, m) /\ peer'[c] = stun_server_addr
    <2>1. /\ target' = [target EXCEPT ![c] = m.addr]
          /\ EndIteration(c, "waiting_for_client_reply", PeerAttempts)
          /\ \A r \in net' \ net : r = ClientBindRequest(c, m.addr)
      BY <1>7, SentFacts, ExchangeFacts DEF OnBindReply
    <2>2. \A r \in net' \ net :
             /\ r.type \in {"client_bind_request", "client_bind_response"}
             /\ r.src = AddrOf[c]
             /\ "waiting_for_client_reply" \in Punching
      BY <2>1, SentByClient DEF Punching
    <2>3. \A d \in Clients \ {c} : target'[d] = target[d] BY <1>5, <2>1
    <2>4. "waiting_for_client_reply" \in Punching BY DEF Punching
    <2> QED BY <1>1, <1>3, <1>4, <2>1, <2>2, <2>3, <2>4, IterationKnown
  <1>8. CASE OnClientBindRequest(c, m) /\ ~WrongTransaction(c, m)
    <2>1. /\ target' = [target EXCEPT ![c] = p]
          /\ EndIteration(c, "connected", attempts_left[c])
          /\ \A r \in net' \ net : r = ClientBindResponse(c, p)
      BY <1>4, <1>8, SentFacts, ExchangeFacts DEF OnClientBindRequest
    <2>2. \A r \in net' \ net :
             /\ r.type \in {"client_bind_request", "client_bind_response"}
             /\ r.src = AddrOf[c]
             /\ "connected" \in Punching
      BY <2>1, SentByClient DEF Punching
    <2>3. target'[c] = p /\ \A d \in Clients \ {c} : target'[d] = target[d]
      BY <1>5, <2>1
    <2>4. "connected" \in Punching BY DEF Punching
    <2> QED BY <1>1, <1>3, <1>4, <2>1, <2>2, <2>3, <2>4, IterationKnown
  <1>9. CASE OnClientBindResponse(c, m) /\ peer'[c] = target[c]
    <2>1. /\ target' = target
          /\ EndIteration(c, "connected", attempts_left[c])
          /\ net' \ net = {}
      BY <1>9, ExchangeFacts DEF OnClientBindResponse
    <2>2. Known(target'[c]) BY <1>3, <1>4, <1>9, <2>1
    <2>3. "connected" \in Punching BY DEF Punching
    <2> QED BY <1>1, <1>3, <1>4, <2>1, <2>2, <2>3, IterationKnown
  <1> QED BY <1>6, <1>7, <1>8, <1>9
          DEF Loop, OnBindReply, OnClientBindRequest, OnClientBindResponse,
              OnAck, OnOther

\* What the server sends, it sends in its own name.
LEMMA ServerSendsAsServer ==
    ASSUME NEW m \in net, Receive(m)
    PROVE  \A r \in net' \ net :
              /\ r.type \in {"ack", "bind_reply", "ps_bind_reply"}
              /\ r.src.ip = ServerIp
  <1> DEFINE OfServer(r) == /\ r.type \in {"ack", "bind_reply", "ps_bind_reply"}
                            /\ r.src.ip = ServerIp
  <1>1. \A s \in ServerSocks : s.ip = ServerIp
    BY DEF ServerSocks, ServerSock
  <1>2. ServerSock(1) \in ServerSocks BY DEF ServerSocks
  <1>3. \A s \in ServerSocks : \A d : OfServer(Empty("ack", s, d))
    BY <1>1 DEF Empty
  <1>4. \A a, b : \A r \in Introduce(a, b) : OfServer(r)
    BY <1>1, <1>2 DEF Introduce, BindReply
  <1>5. \A tr : \A r \in PsIntroduce(tr) : OfServer(r)
    BY <1>1, <1>2 DEF PsIntroduce, PsBindReply
  <1>6. OfServer(PsAck(m)) BY <1>3 DEF PsAck, Receive
  <1>7. \A out : Exchange(m, out) => net' \ net \subseteq out
    BY ExchangeFacts
  <1> HIDE DEF OfServer
  <1>8. CASE OnBindRequest(m)
    BY <1>2, <1>3, <1>4, <1>7, <1>8 DEF OnBindRequest, OfServer
  <1>9. CASE OnPsBindRequest(m)
    <2>1. \E tr : Exchange(m, {PsAck(m)})
                  \/ Exchange(m, {PsAck(m)} \cup PsIntroduce(tr))
      BY <1>9
      DEF OnPsBindRequest, PsFirstClient, PsFirstClientAgain, PsOtherClient
    <2> QED BY <1>5, <1>6, <1>7, <2>1 DEF OfServer
  <1>10. CASE OnHeartbeat(m) \/ OnUnexpected(m)
    BY <1>2, <1>3, <1>7, <1>10 DEF OnHeartbeat, OnUnexpected, OfServer
  <1> QED BY <1>8, <1>9, <1>10 DEF Receive

\* The steps of server and network.
LEMMA QuietKnown ==
    ASSUME KInv, connVars' = connVars,
           \A r \in net' \ net :
               /\ r.type \in {"ack", "bind_reply", "ps_bind_reply"}
               /\ r.src.ip = ServerIp
    PROVE  KInv'
  <1>1. \A a : Known(a) <=> Known(a)' BY DEF Known, connVars
  <1>2. EarlyStates' /\ SuccessConnected' /\ PeersKnown' /\ TargetsKnown'
    BY <1>1 DEF KInv, EarlyStates, SuccessConnected, Succeeded, PeersKnown,
                TargetsKnown, Known, connVars
  <1>3. SendersKnown'
    <2>1. ASSUME NEW m \in net' \ net
          PROVE  m.type # "bind_request" /\ Known(m.src)
      BY <2>1, ServerKnown
    <2>2. ASSUME NEW m \in net', m.type # "bind_request" PROVE Known(m.src)'
      BY <1>1, <2>1, <2>2 DEF KInv, SendersKnown
    <2>3. ASSUME NEW m \in net', m.type = "bind_request"
          PROVE  m.dst = stun_server_addr
      BY <2>1, <2>3 DEF KInv, SendersKnown
    <2> QED BY <2>2, <2>3 DEF SendersKnown, stun_server_addr
  <1>4. TextsKnown'
    <2>1. \A m \in net' : m.type = "text" => m \in net OBVIOUS
    <2> QED BY <1>1, <2>1 DEF KInv, TextsKnown
  <1> QED BY <1>2, <1>3, <1>4 DEF KInv

\* The threads of a connected client: who is heard is known, and so is any
\* mixture of that address with the target's.
LEMMA TalkKnown ==
    ASSUME OneClientPerHost, DInv, NEW c \in Clients,
           Talk(c) \/ Listen(c) \/ TalkWhileListening(c)
    PROVE  KInv'
  <1> USE DEF DInv
  <1>1. /\ Talking(c)
        /\ UNCHANGED <<serverVars, pc, state, attempts_left, peer, result,
                       introduced>>
        /\ target' \in [Clients -> SockAddr]
        /\ \A d \in Clients \ {c} : target'[d] = target[d]
        /\ \/ target'[c] = target[c]
           \/ \E m \in net : /\ m.dst = AddrOf[c]
                             /\ target'[c].ip \in {target[c].ip, m.src.ip}
        /\ \A r \in net' \ net :
              \E a \in SockAddr :
                 /\ r = Text(c, a)
                 /\ a.ip \in {target[c].ip, target'[c].ip}
    BY TalkFacts
  <1>2. state[c] = "connected"
    BY <1>1 DEF Talking, KInv, SuccessConnected
  <1>3. Known(target[c]) /\ Known(AddrOf[c])
    BY <1>2, OwnKnown DEF KInv, TargetsKnown, Punching
  <1>4. Known(target'[c])
    BY <1>1, <1>3, HeardKnown DEF Known
  <1>5. \A r \in net' \ net :
           r.type = "text" /\ Known(r.src) /\ Known(r.dst)
    <2>1. ASSUME NEW r \in net' \ net
          PROVE  r.type = "text" /\ Known(r.src) /\ Known(r.dst)
      <3>1. PICK a \in SockAddr :
               /\ r = Text(c, a)
               /\ a.ip \in {target[c].ip, target'[c].ip}
        BY <1>1
      <3>2. Known(a) BY <1>3, <1>4, <3>1 DEF Known
      <3> QED BY <1>3, <3>1, <3>2, TextFacts
    <2> QED BY <2>1
  <1>6. \A a : Known(a) <=> Known(a)' BY <1>1 DEF Known
  <1>7. EarlyStates' /\ SuccessConnected' /\ PeersKnown'
    BY <1>1 DEF KInv, EarlyStates, SuccessConnected, Succeeded, PeersKnown, Known
  <1>8. TargetsKnown'
    <2>1. ASSUME NEW d \in Clients, state[d] = "connected"
          PROVE  Known(target'[d])
      BY <1>1, <1>4, <2>1 DEF KInv, TargetsKnown
    <2> QED BY <1>1, <2>1 DEF TargetsKnown, Known
  <1>9. SendersKnown'
    <2>1. ASSUME NEW m \in net', m.type # "bind_request" PROVE Known(m.src)'
      BY <1>5, <1>6, <2>1 DEF KInv, SendersKnown
    <2>2. ASSUME NEW m \in net', m.type = "bind_request"
          PROVE  m.dst = stun_server_addr
      BY <1>5, <2>2 DEF KInv, SendersKnown
    <2> QED BY <2>1, <2>2 DEF SendersKnown, stun_server_addr
  <1>10. TextsKnown' BY <1>5, <1>6 DEF KInv, TextsKnown
  <1> QED BY <1>7, <1>8, <1>9, <1>10 DEF KInv

LEMMA KnownInit ==
    ASSUME Init
    PROVE  KInv
  <1>1. /\ \A c \in Clients : /\ state[c] = "disconnected"
                              /\ peer[c] = NoAddr
                              /\ result[c] = "none"
        /\ net = {}
    BY DEF Init, ConnectorInit
  <1>2. Known(NoAddr) BY ServerKnown DEF NoAddr
  <1> QED BY <1>1, <1>2
          DEF KInv, EarlyStates, SuccessConnected, Succeeded, SendersKnown,
              TextsKnown, PeersKnown, TargetsKnown

LEMMA DataStep ==
    ASSUME OneClientPerHost, DInv, [DataNext]_vars
    PROVE  DInv'
  <1> USE DEF DInv
  <1>1. TInv' BY DataTypesStep
  <1>2. CASE ServerReceives
    <2>1. PICK m \in net : Receive(m) BY <1>2 DEF ServerReceives
    <2>2. connVars' = connVars BY <1>2 DEF ServerReceives
    <2> QED BY <1>1, <2>1, <2>2, ServerSendsAsServer, QuietKnown
  <1>3. ASSUME NEW c \in Clients, ClientStarts(c) PROVE KInv'
    BY <1>3, EarlyKnown DEF ClientStarts
  <1>4. ASSUME NEW c \in Clients, ClientTimesOut(c) PROVE KInv'
    BY <1>4, EarlyKnown, TimeoutKnown DEF ClientTimesOut, Timeout
  <1>5. ASSUME NEW c \in Clients, ClientHears(c) PROVE KInv'
    <2>1. PICK m \in net : Hear(c, m) BY <1>5 DEF ClientHears
    <2>2. CASE Acknowledged(c, m) \/ AckError(c, m)
      BY <2>1, <2>2, EarlyKnown DEF Hear
    <2>3. CASE Loop(c, m) BY <2>1, <2>3, LoopKnown DEF Hear
    <2>4. CASE LoopError(c, m) BY <2>4, TimeoutKnown
    <2> QED BY <2>1, <2>2, <2>3, <2>4 DEF Hear
  <1>6. CASE Loses \/ ServerRestarts \/ UNCHANGED vars
    <2>1. connVars' = connVars /\ net' \ net = {}
      BY <1>6 DEF Loses, Lose, ServerRestarts, Stop, Start, vars
    <2> QED BY <1>1, <2>1, QuietKnown
  <1>7. ASSUME NEW c \in Clients,
               Talk(c) \/ Listen(c) \/ TalkWhileListening(c)
        PROVE  KInv'
    BY <1>7, TalkKnown
  <1> QED BY <1>1, <1>2, <1>3, <1>4, <1>5, <1>6, <1>7
          DEF DataNext, Next, ClientRuns

\* For any number of clients, each at a host of its own, and any network: no
\* text reaches a client that has not learned who its peer is, so none is taken
\* for the server's ack, although who talks may send to any mixture of the
\* addresses that it has heard.
THEOREM TextsFindTheIntroduced ==
    ASSUME OneClientPerHost
    PROVE  DataSpec => []TextAfterIntroduction
  <1>1. Init => DInv BY TypesInit, KnownInit DEF DInv
  <1>2. DInv /\ [DataNext]_vars => DInv' BY DataStep
  <1>3. ASSUME DInv PROVE TextAfterIntroduction
    <2>1. ASSUME NEW m \in net, m.type = "text",
                 NEW c \in Clients, m.dst = AddrOf[c]
          PROVE  /\ pc[c] \in {"loop", "returned"}
                 /\ state[c] # "waiting_for_stun_reply"
      <3>1. state[c] \in Punching
        BY <1>3, <2>1 DEF DInv, KInv, TextsKnown, Known
      <3>2. pc[c] \in {"start", "await_ack", "loop", "returned"}
        BY <1>3 DEF DInv, TInv, TypeOK, ConnectorTypeOK
      <3>3. pc[c] \in {"start", "await_ack"} => state[c] = "disconnected"
        BY <1>3 DEF DInv, KInv, EarlyStates
      <3> QED BY <3>1, <3>2, <3>3 DEF Punching
    <2> QED BY <2>1 DEF TextAfterIntroduction
  <1> QED BY <1>1, <1>2, <1>3, PTL DEF DataSpec
=============================================================================
