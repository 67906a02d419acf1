-------------------------- MODULE HolePunchProofs --------------------------
(***************************************************************************)
(* Proofs about basic hole punching, for any number of clients and any     *)
(* transactions, over a network that loses, reorders and duplicates, with  *)
(* timeouts at any time and a server that stops and starts.                *)
(***************************************************************************)
EXTENDS HolePunch, TLAPS

\* The states in which a client has learned who its peer is.
Punching == {"waiting_for_client_reply", "connected"}

\* What clients send to each other comes from the sender's own address and
\* names its own transaction.
Signed(m, d) == m.src = AddrOf[d] /\ m.tid = TidOf[d]

\* A request was sent by a client that has been introduced or has answered.
RequestsSigned ==
    \A m \in net : m.type = "client_bind_request" =>
        \E d \in Clients : Signed(m, d) /\ state[d] \in Punching

\* So was an answer, and it is addressed to a client of its transaction.
ResponsesSigned ==
    \A m \in net : m.type = "client_bind_response" =>
        \E d \in Clients :
            /\ Signed(m, d)
            /\ state[d] \in Punching
            /\ \A c \in Clients : m.dst = AddrOf[c] => TidOf[c] = TidOf[d]

\* Before the ack nothing is known.
EarlyStates ==
    \A c \in Clients :
        pc[c] \in {"start", "await_ack"} => state[c] = "disconnected"

\* The domains are all that the proof needs of the types.
Domains ==
    /\ DOMAIN state = Clients
    /\ DOMAIN pc = Clients
    /\ DOMAIN target = Clients
    /\ DOMAIN peer = Clients

IInv ==
    /\ Domains
    /\ EarlyStates
    /\ RequestsSigned
    /\ ResponsesSigned
    /\ SameTransaction

----------------------------------------------------------------------------
(* What a step of one client must do                                       *)

\* A step keeps the messages signed if nobody forgets its peer and what it
\* sends is signed by the client that takes it.
LEMMA SignedPreserved ==
    ASSUME RequestsSigned, ResponsesSigned,
           NEW c \in Clients,
           \A d \in Clients : state[d] \in Punching => state'[d] \in Punching,
           \A m \in net' \ net : m.type = "client_bind_request" =>
               Signed(m, c) /\ state'[c] \in Punching,
           \A m \in net' \ net : m.type = "client_bind_response" =>
               /\ Signed(m, c)
               /\ state'[c] \in Punching
               /\ \A d \in Clients : m.dst = AddrOf[d] => TidOf[d] = TidOf[c]
    PROVE  RequestsSigned' /\ ResponsesSigned'
<1>1. RequestsSigned'
  <2> SUFFICES ASSUME NEW m \in net', m.type = "client_bind_request"
               PROVE  \E d \in Clients : Signed(m, d) /\ state'[d] \in Punching
    BY DEF RequestsSigned, Signed
  <2> QED BY DEF RequestsSigned
<1>2. ResponsesSigned'
  <2> SUFFICES ASSUME NEW m \in net', m.type = "client_bind_response"
               PROVE  \E d \in Clients :
                         /\ Signed(m, d)
                         /\ state'[d] \in Punching
                         /\ \A e \in Clients :
                               m.dst = AddrOf[e] => TidOf[e] = TidOf[d]
    BY DEF ResponsesSigned, Signed
  <2> QED BY DEF ResponsesSigned
<1> QED BY <1>1, <1>2

\* A client of c's transaction that has been introduced or has answered.
Partner(c, d) == TidOf[d] = TidOf[c] /\ state[d] \in Punching

\* A step of c keeps SameTransaction if it connects c to a partner at most.
LEMMA SamePreserved ==
    ASSUME SameTransaction, NEW c \in Clients,
           \A d \in Clients \ {c} :
               state'[d] = state[d] /\ target'[d] = target[d],
           state[c] \in Punching => state'[c] \in Punching,
           state'[c] = "connected" =>
               \A d \in Clients : target'[c] = AddrOf[d] => Partner(c, d)
    PROVE  SameTransaction'
BY DEF SameTransaction, Partner, Punching

\* A step that sends nothing signed and leaves state and target alone.
LEMMA QuietStep ==
    ASSUME IInv,
           \A m \in net' \ net :
               m.type \notin {"client_bind_request", "client_bind_response"},
           state' = state, target' = target, DOMAIN pc' = Clients,
           DOMAIN peer' = Clients,
           \A c \in Clients : pc'[c] \in {"start", "await_ack"} =>
               pc[c] \in {"start", "await_ack"}
    PROVE  IInv'
<1>1. RequestsSigned' /\ ResponsesSigned'
  BY DEF IInv, RequestsSigned, ResponsesSigned, Signed
<1>2. SameTransaction' /\ EarlyStates' /\ Domains'
  BY DEF IInv, SameTransaction, EarlyStates, Domains
<1> QED BY <1>1, <1>2 DEF IInv

\* The server sends acks and introductions.
LEMMA ServerSends ==
    ASSUME NEW m \in net, Receive(m)
    PROVE  \A r \in net' \ net :
               r.type \notin {"client_bind_request", "client_bind_response"}
<1>1. \A s, d : Empty("ack", s, d).type = "ack"
  BY DEF Empty
<1>2. \A s, d, a : BindReply(s, d, a).type = "bind_reply"
  BY DEF BindReply
<1>3. \A s, d, a, b, t, u : PsBindReply(s, d, a, b, t, u).type = "ps_bind_reply"
  BY DEF PsBindReply
<1>4. \A out : Exchange(m, out) => net' \ net \subseteq out
  BY DEF Exchange
<1>5. SUFFICES \A r \in net' \ net :
                  r.type \in {"ack", "bind_reply", "ps_bind_reply"}
  OBVIOUS
<1>6. CASE OnBindRequest(m)
  <2>1. \A a, b : \A r \in Introduce(a, b) : r.type = "bind_reply"
    BY <1>2 DEF Introduce
  <2> QED BY <1>1, <1>4, <1>6, <2>1 DEF OnBindRequest
<1>7. CASE OnPsBindRequest(m)
  <2>1. \A tr : \A r \in PsIntroduce(tr) : r.type = "ps_bind_reply"
    BY <1>3 DEF PsIntroduce
  <2>2. PsAck(m).type = "ack"
    BY <1>1 DEF PsAck
  <2> QED BY <1>4, <1>7, <2>1, <2>2
          DEF OnPsBindRequest, PsFirstClient, PsFirstClientAgain, PsOtherClient
<1>8. CASE OnHeartbeat(m)
  BY <1>1, <1>4, <1>8 DEF OnHeartbeat
<1>9. CASE OnUnexpected(m)
  BY <1>4, <1>9 DEF OnUnexpected
<1> QED BY <1>6, <1>7, <1>8, <1>9 DEF Receive

----------------------------------------------------------------------------
(* The steps of a client                                                   *)

\* What the loop's steps need of the end of an iteration.
LEMMA EndFacts ==
    ASSUME Domains, EarlyStates, NEW c \in Clients, NEW s, NEW n,
           pc[c] = "loop", EndIteration(c, s, n)
    PROVE  /\ DOMAIN state' = Clients
           /\ DOMAIN pc' = Clients
           /\ state'[c] = s
           /\ \A d \in Clients \ {c} : state'[d] = state[d]
           /\ EarlyStates'
<1>1. /\ DOMAIN state' = Clients
      /\ state'[c] = s
      /\ \A d \in Clients \ {c} : state'[d] = state[d]
  BY DEF EndIteration, Domains
<1>2. /\ DOMAIN pc' = Clients
      /\ pc'[c] \in {"loop", "returned"}
      /\ \A d \in Clients \ {c} : pc'[d] = pc[d]
  BY DEF EndIteration, Domains
<1>3. EarlyStates'
  BY <1>1, <1>2 DEF EarlyStates
<1> QED BY <1>1, <1>2, <1>3

\* An iteration of c that learns nothing new keeps the invariant, if what it
\* sends is signed.
LEMMA IdleIteration ==
    ASSUME IInv, NEW c \in Clients, NEW n, pc[c] = "loop",
           EndIteration(c, state[c], n),
           target' = target, DOMAIN peer' = Clients,
           \A m \in net' \ net :
               /\ m.type # "client_bind_response"
               /\ m.type = "client_bind_request" =>
                     Signed(m, c) /\ state[c] \in Punching
    PROVE  IInv'
<1>1. /\ DOMAIN state' = Clients
      /\ DOMAIN pc' = Clients
      /\ \A d \in Clients : state'[d] = state[d]
      /\ EarlyStates'
  BY EndFacts DEF IInv
<1>2. RequestsSigned' /\ ResponsesSigned'
  BY <1>1, SignedPreserved DEF IInv
<1>3. SameTransaction'
  BY <1>1 DEF IInv, SameTransaction
<1> QED BY <1>1, <1>2, <1>3 DEF IInv, Domains

\* The steps before the loop.
LEMMA EarlyStep ==
    ASSUME IInv, NEW c \in Clients, NEW m,
           Connect(c) \/ Acknowledged(c, m) \/ AckTimeout(c) \/ AckError(c, m)
    PROVE  IInv'
<1> USE DEF IInv
<1>1. CASE Connect(c)
  <2>1. /\ \A r \in net' \ net : r.type = "bind_request"
        /\ state' = state
        /\ \A d \in Clients \ {c} : target'[d] = target[d] /\ pc'[d] = pc[d]
        /\ DOMAIN pc' = Clients /\ DOMAIN target' = Clients
        /\ peer' = peer
    BY <1>1 DEF Connect, Fail, Send, Sent, BindRequest, WithTid, Domains
  <2>2. state[c] = "disconnected"
    BY <1>1 DEF Connect, EarlyStates
  <2>3. RequestsSigned' /\ ResponsesSigned'
    BY <2>1, SignedPreserved
  <2>4. SameTransaction'
    BY <2>1, <2>2, SamePreserved DEF Punching
  <2>5. EarlyStates' /\ Domains'
    BY <2>1, <2>2 DEF EarlyStates, Domains
  <2> QED BY <2>3, <2>4, <2>5
<1>2. CASE Acknowledged(c, m)
  <2>1. /\ net' \ net = {}
        /\ target' = target
        /\ state[c] = "disconnected"
        /\ state'[c] = "waiting_for_stun_reply"
        /\ pc'[c] = "loop"
        /\ \A d \in Clients \ {c} : state'[d] = state[d] /\ pc'[d] = pc[d]
        /\ DOMAIN pc' = Clients /\ DOMAIN peer' = Clients
        /\ DOMAIN state' = Clients
    BY <1>2 DEF Acknowledged, Exchange, EarlyStates, Domains
  <2>2. RequestsSigned' /\ ResponsesSigned'
    BY <2>1, SignedPreserved DEF Punching
  <2>3. SameTransaction'
    BY <2>1, SamePreserved DEF Punching
  <2>4. EarlyStates' /\ Domains'
    BY <2>1 DEF EarlyStates, Domains
  <2> QED BY <2>2, <2>3, <2>4
<1>3. CASE AckTimeout(c) \/ AckError(c, m)
  <2>1. /\ net' \ net = {}
        /\ state' = state /\ target' = target /\ peer' = peer
        /\ DOMAIN pc' = Clients
        /\ pc'[c] = "returned"
        /\ \A d \in Clients \ {c} : pc'[d] = pc[d]
    BY <1>3 DEF AckTimeout, AckError, Fail, ReceiveFails, Exchange, Domains
  <2> QED BY <2>1, QuietStep DEF Domains
<1> QED BY <1>1, <1>2, <1>3

\* A request from c to a has c's signature.
LEMMA SignedByC ==
    ASSUME NEW c, NEW a
    PROVE  /\ Signed(ClientBindRequest(c, a), c)
           /\ ClientBindRequest(c, a).type = "client_bind_request"
           /\ Signed(ClientBindResponse(c, a), c)
           /\ ClientBindResponse(c, a).type = "client_bind_response"
           /\ ClientBindResponse(c, a).dst = a
BY DEF Signed, ClientBindRequest, ClientBindResponse, WithTid

\* The iterations without a datagram.
LEMMA TimeoutStep ==
    ASSUME IInv, NEW c \in Clients, NEW m,
           LoopTimeout(c) \/ LoopError(c, m)
    PROVE  IInv'
<1>1. CASE LoopTimeout(c)
  <2>1. \A r \in net' \ net :
           /\ r = ClientBindRequest(c, target[c])
           /\ state[c] = "waiting_for_client_reply"
    BY <1>1 DEF LoopTimeout, Send, Sent
  <2> QED BY <1>1, <2>1, SignedByC, IdleIteration
          DEF LoopTimeout, UseAttempt, Punching, IInv, Domains
<1>2. CASE LoopError(c, m)
  <2>1. net' \ net = {}
    BY <1>2 DEF LoopError, ReceiveFails, Exchange
  <2> QED BY <1>2, <2>1, IdleIteration DEF LoopError, UseAttempt, IInv, Domains
<1> QED BY <1>1, <1>2

\* The iterations with a datagram.  A copied sender address is the sender's:
\* no connection could be trusted if a short length left an older one.
LEMMA LoopStep ==
    ASSUME IInv, NEW c \in Clients, NEW m \in net, m.dst = AddrOf[c],
           Loop(c, m), LenValues \subseteq {"full", "negative"}
    PROVE  IInv'
<1>1. /\ pc[c] = "loop"
      /\ peer'[c] = m.src
      /\ DOMAIN peer' = Clients
  BY DEF Loop, PeerAddress, IInv, Domains
<1>2. Exchange(m, {}) => net' \ net = {}
  BY DEF Exchange
<1>3. CASE OnBindReply(c, m)
  <2>1. CASE target' = target /\ Exchange(m, {}) /\ KeepWaiting(c)
    BY <1>1, <1>2, <2>1, IdleIteration DEF KeepWaiting
  <2>2. CASE peer'[c] = stun_server_addr
    <3>1. /\ \A r \in net' \ net : r = ClientBindRequest(c, m.addr)
          /\ target' = [target EXCEPT ![c] = m.addr]
          /\ EndIteration(c, "waiting_for_client_reply", PeerAttempts)
      BY <1>3, <2>2 DEF OnBindReply, Exchange, Sent
    <3>2. /\ state'[c] = "waiting_for_client_reply"
          /\ \A d \in Clients \ {c} :
                state'[d] = state[d] /\ target'[d] = target[d]
          /\ EarlyStates' /\ Domains'
      BY <1>1, <3>1, EndFacts DEF IInv, Domains
    <3>3. RequestsSigned' /\ ResponsesSigned'
      BY <3>1, <3>2, SignedByC, SignedPreserved DEF IInv, Punching
    <3>4. SameTransaction'
      BY <3>2, SamePreserved DEF IInv, Punching
    <3> QED BY <3>2, <3>3, <3>4 DEF IInv
  <2> QED BY <1>3, <2>1, <2>2 DEF OnBindReply
<1>4. CASE OnClientBindRequest(c, m)
  <2>1. CASE WrongTransaction(c, m)
    BY <1>1, <1>2, <1>4, <2>1, IdleIteration
    DEF OnClientBindRequest, UseAttempt
  <2>2. CASE ~WrongTransaction(c, m)
    <3>1. /\ \A r \in net' \ net : r = ClientBindResponse(c, m.src)
          /\ target' = [target EXCEPT ![c] = m.src]
          /\ EndIteration(c, "connected", attempts_left[c])
          /\ m.tid = TidOf[c]
      BY <1>1, <1>4, <2>2
      DEF OnClientBindRequest, WrongTransaction, Exchange, Sent
    <3>2. /\ state'[c] = "connected"
          /\ \A d \in Clients \ {c} :
                state'[d] = state[d] /\ target'[d] = target[d]
          /\ target'[c] = m.src
          /\ EarlyStates' /\ Domains'
      BY <1>1, <3>1, EndFacts DEF IInv, Domains
    <3>3. PICK e \in Clients : m.src = AddrOf[e] /\ Partner(c, e)
      BY <1>4, <3>1 DEF OnClientBindRequest, IInv, RequestsSigned, Signed,
                        Partner
    <3>4. \A d \in Clients : m.src = AddrOf[d] => d = e
      BY <3>3, ConnectorAssumption
    <3>5. RequestsSigned' /\ ResponsesSigned'
      <4>1. \A r \in net' \ net :
               /\ Signed(r, c)
               /\ r.type = "client_bind_response"
               /\ r.dst = m.src
        BY <3>1, SignedByC
      <4>2. \A d \in Clients : m.src = AddrOf[d] => TidOf[d] = TidOf[c]
        BY <3>3, <3>4 DEF Partner
      <4> QED BY <3>2, <4>1, <4>2, SignedPreserved DEF IInv, Punching
    <3>6. SameTransaction'
      BY <3>2, <3>3, <3>4, SamePreserved DEF IInv, Punching
    <3> QED BY <3>2, <3>5, <3>6 DEF IInv
  <2> QED BY <2>1, <2>2
<1>5. CASE OnClientBindResponse(c, m)
  <2>1. CASE peer'[c] # target[c]
    BY <1>1, <1>2, <1>5, <2>1, IdleIteration
    DEF OnClientBindResponse, KeepWaiting
  <2>2. CASE peer'[c] = target[c]
    <3>1. /\ net' \ net = {}
          /\ target' = target
          /\ EndIteration(c, "connected", attempts_left[c])
      BY <1>2, <1>5, <2>2 DEF OnClientBindResponse
    <3>2. /\ state'[c] = "connected"
          /\ \A d \in Clients \ {c} :
                state'[d] = state[d] /\ target'[d] = target[d]
          /\ target'[c] = m.src
          /\ EarlyStates' /\ Domains'
      BY <1>1, <2>2, <3>1, EndFacts DEF IInv, Domains
    <3>3. PICK e \in Clients : m.src = AddrOf[e] /\ Partner(c, e)
      BY <1>5 DEF OnClientBindResponse, IInv, ResponsesSigned, Signed, Partner
    <3>4. \A d \in Clients : m.src = AddrOf[d] => d = e
      BY <3>3, ConnectorAssumption
    <3>5. RequestsSigned' /\ ResponsesSigned'
      BY <3>1, <3>2, SignedPreserved DEF IInv, Punching
    <3>6. SameTransaction'
      BY <3>2, <3>3, <3>4, SamePreserved DEF IInv, Punching
    <3> QED BY <3>2, <3>5, <3>6 DEF IInv
  <2> QED BY <2>1, <2>2
<1>6. CASE OnAck(c, m) \/ OnOther(c, m)
  <2>1. \E n : EndIteration(c, state[c], n)
    BY <1>6 DEF OnAck, OnOther, KeepWaiting, UseAttempt
  <2> QED BY <1>1, <1>2, <1>6, <2>1, IdleIteration DEF OnAck, OnOther
<1> QED BY <1>3, <1>4, <1>5, <1>6 DEF Loop

----------------------------------------------------------------------------
(* The theorem                                                             *)

LEMMA Inductive ==
    ASSUME LenValues \subseteq {"full", "negative"}, IInv, [Next]_vars
    PROVE  IInv'
<1>1. CASE ServerReceives
  <2>1. PICK m \in net : Receive(m)
    BY <1>1 DEF ServerReceives
  <2>2. UNCHANGED connVars
    BY <1>1 DEF ServerReceives
  <2> QED BY <2>1, <2>2, ServerSends, QuietStep DEF connVars, IInv, Domains
<1>2. ASSUME NEW c \in Clients, ClientStarts(c)
      PROVE  IInv'
  BY <1>2, EarlyStep DEF ClientStarts
<1>3. ASSUME NEW c \in Clients, ClientHears(c)
      PROVE  IInv'
  <2>1. PICK m \in net : Hear(c, m)
    BY <1>3 DEF ClientHears
  <2>2. CASE Acknowledged(c, m) \/ AckError(c, m)
    BY <2>2, EarlyStep
  <2>3. CASE Loop(c, m)
    BY <2>1, <2>3, LoopStep DEF Hear
  <2>4. CASE LoopError(c, m)
    BY <2>4, TimeoutStep
  <2> QED BY <2>1, <2>2, <2>3, <2>4 DEF Hear
<1>4. ASSUME NEW c \in Clients, ClientTimesOut(c)
      PROVE  IInv'
  BY <1>4, EarlyStep, TimeoutStep DEF ClientTimesOut, Timeout
<1>5. CASE Loses \/ ServerRestarts \/ UNCHANGED vars
  <2>1. net' \ net = {} /\ connVars' = connVars
    BY <1>5 DEF Loses, Lose, ServerRestarts, Stop, Start, vars
  <2> QED BY <2>1, QuietStep DEF connVars, IInv, Domains
<1> QED BY <1>1, <1>2, <1>3, <1>4, <1>5 DEF Next, ClientRuns

\* For every set of clients and every assignment of transactions, a client
\* that is told it is connected to another is connected to one of its own
\* transaction that has been introduced or has answered a request itself;
\* provided that recvfrom copies the sender's address whole or fails.
THEOREM ConnectedToSameTransaction ==
    ASSUME LenValues \subseteq {"full", "negative"}
    PROVE  Spec => []SameTransaction
<1>1. Init => IInv
  BY DEF Init, ConnectorInit, IInv, Domains, EarlyStates, RequestsSigned,
         ResponsesSigned, SameTransaction
<1>2. IInv /\ [Next]_vars => IInv'
  BY Inductive
<1>3. IInv => SameTransaction
  BY DEF IInv
<1> QED BY <1>1, <1>2, <1>3, PTL DEF Spec
=============================================================================
