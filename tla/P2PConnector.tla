---------------------------- MODULE P2PConnector ----------------------------
(***************************************************************************)
(* client/src/connection/p2p_connector.h: basic hole punching, as each of  *)
(* a set of clients runs it.  connect blocks only in wait_receive; what it *)
(* does from one return of wait_receive to the next call is one step.      *)
(***************************************************************************)
EXTENDS UdpSocket

CONSTANTS
    Clients,
    AddrOf,         \* client -> the public address of its socket
    TidOf,          \* client -> transaction_id_
    StunAttempts,   \* timeouts before giving up on the server: 10
    PeerAttempts    \* timeouts before giving up on the peer: 3

ASSUME ConnectorAssumption ==
    /\ AddrOf \in [Clients -> Addr]
    /\ \A c, d \in Clients : AddrOf[c] = AddrOf[d] => c = d
    /\ TidOf \in [Clients -> Tids]
    /\ StunAttempts \in Nat \ {0}
    /\ PeerAttempts \in Nat \ {0}

VARIABLES
    pc,             \* where in connect the client is
    state,
    attempts_left,
    target,         \* target_address_ of the socket
    peer,           \* peer_address of the socket
    result          \* what connect returned

connVars == <<pc, state, attempts_left, target, peer, result>>

States == {"disconnected", "waiting_for_stun_reply",
           "waiting_for_client_reply", "connected"}
Results == {"connection_successful", "connection_failed", "connection_error",
            "connection_failed_no_server_match_in_time"}

ConnectorTypeOK ==
    /\ pc \in [Clients -> {"start", "await_ack", "loop", "returned"}]
    /\ state \in [Clients -> States]
    /\ attempts_left \in [Clients -> Nat]
    /\ target \in [Clients -> SockAddr]
    /\ peer \in [Clients -> SockAddr]
    /\ result \in [Clients -> Results \cup {"none"}]

ConnectorInit ==
    /\ pc = [c \in Clients |-> "start"]
    /\ state = [c \in Clients |-> "disconnected"]
    /\ attempts_left = [c \in Clients |-> 0]
    /\ target = [c \in Clients |-> NoAddr]
    /\ peer = [c \in Clients |-> NoAddr]
    /\ result = [c \in Clients |-> "none"]

stun_server_addr == ServerSock(1)

BindRequest(c) ==
    WithTid("bind_request", AddrOf[c], stun_server_addr, TidOf[c])
ClientBindRequest(c, a) ==
    WithTid("client_bind_request", AddrOf[c], a, TidOf[c])
\* Mutation: the socket's target is not set before the answer is sent.
ClientBindResponseAstray(c, a) ==
    WithTid("client_bind_response", AddrOf[c], target[c], TidOf[c])
ClientBindResponse(c, a) ==
    WithTid("client_bind_response", AddrOf[c], a, TidOf[c])

----------------------------------------------------------------------------

Fail(c) ==
    /\ pc' = [pc EXCEPT ![c] = "returned"]
    /\ result' = [result EXCEPT ![c] = "connection_error"]
    /\ UNCHANGED <<state, attempts_left>>

\* The request to the server; this send is the one whose failure is seen.
Connect(c) ==
    /\ pc[c] = "start"
    /\ target' = [target EXCEPT ![c] = stun_server_addr]
    /\ \E ok \in SendResults :
          /\ Send(Sent(ok, BindRequest(c)))
          /\ IF ok
             THEN /\ pc' = [pc EXCEPT ![c] = "await_ack"]
                  /\ UNCHANGED <<state, attempts_left, result>>
             ELSE Fail(c)
    /\ UNCHANGED peer

\* Any datagram passes for the server's ack.
Acknowledged(c, m) ==
    /\ pc[c] = "await_ack"
    /\ \E p \in PeerAddress(peer[c], m.src) : peer' = [peer EXCEPT ![c] = p]
    /\ Exchange(m, {})
    /\ pc' = [pc EXCEPT ![c] = "loop"]
    /\ state' = [state EXCEPT ![c] = "waiting_for_stun_reply"]
    /\ attempts_left' = [attempts_left EXCEPT ![c] = StunAttempts]
    /\ UNCHANGED <<target, result>>

AckTimeout(c) ==
    /\ pc[c] = "await_ack"
    /\ Fail(c)
    /\ UNCHANGED <<target, peer, net>>

AckError(c, m) ==
    /\ pc[c] = "await_ack"
    /\ ReceiveFails(m)
    /\ Fail(c)
    /\ UNCHANGED <<target, peer>>

----------------------------------------------------------------------------
(* The loop                                                                *)

Outcome(s) ==
    CASE s = "connected" -> "connection_successful"
      [] s = "waiting_for_stun_reply" ->
            "connection_failed_no_server_match_in_time"
      [] OTHER -> "connection_failed"

\* The end of an iteration with state s and n attempts left: connect goes
\* on, or leaves the loop and returns.
EndIteration(c, s, n) ==
    /\ state' = [state EXCEPT ![c] = s]
    /\ attempts_left' = [attempts_left EXCEPT ![c] = n]
    /\ IF s = "connected" \/ n = 0
       THEN /\ pc' = [pc EXCEPT ![c] = "returned"]
            /\ result' = [result EXCEPT ![c] = Outcome(s)]
       ELSE UNCHANGED <<pc, result>>

\* continue without counting the datagram, or break and count it.
\* (Mutations: it is counted twice, or not at all.)
KeepWaiting(c) == EndIteration(c, state[c], attempts_left[c])
UseAttemptTwice(c) == EndIteration(c, state[c], attempts_left[c] - 2)
UseAttemptNever(c) == EndIteration(c, state[c], attempts_left[c])
UseAttempt(c) == EndIteration(c, state[c], attempts_left[c] - 1)

\* One second without a datagram.  A client that knows its peer asks again.
LoopTimeout(c) ==
    /\ pc[c] = "loop"
    /\ UseAttempt(c)
    /\ \E ok \in SendResults :
          Send(IF state[c] = "waiting_for_client_reply"
               THEN Sent(ok, ClientBindRequest(c, target[c])) ELSE {})
    /\ UNCHANGED <<target, peer>>

LoopError(c, m) ==
    /\ pc[c] = "loop"
    /\ ReceiveFails(m)
    /\ UseAttempt(c)
    /\ UNCHANGED <<target, peer>>

\* Mutation: an introduction is taken for a connection.
OnBindReplyConnected(c, m) ==
    /\ m.type = "bind_reply"
    /\ target' = [target EXCEPT ![c] = m.addr]
    /\ \E ok \in SendResults :
          Exchange(m, Sent(ok, ClientBindRequest(c, m.addr)))
    /\ EndIteration(c, "connected", PeerAttempts)

\* The server's introduction.  try_connect_to_client compares the result of
\* send, a bool, with -1: it never reports a failure.
OnBindReply(c, m) ==
    /\ m.type = "bind_reply"
    /\ IF peer'[c] # stun_server_addr
       THEN Exchange(m, {}) /\ KeepWaiting(c) /\ UNCHANGED target
       ELSE /\ target' = [target EXCEPT ![c] = m.addr]
            /\ \E ok \in SendResults :
                  Exchange(m, Sent(ok, ClientBindRequest(c, m.addr)))
            /\ EndIteration(c, "waiting_for_client_reply", PeerAttempts)

\* Mutation: any transaction will do.
WrongTransactionNever(c, m) == FALSE
WrongTransaction(c, m) == m.tid # TidOf[c]

\* A request of another client: answered, and the connection taken for
\* established, if it names this transaction.  A failed send is not noticed
\* here either.
OnClientBindRequest(c, m) ==
    /\ m.type = "client_bind_request"
    /\ IF WrongTransaction(c, m)
       THEN Exchange(m, {}) /\ UseAttempt(c) /\ UNCHANGED target
       ELSE /\ target' = [target EXCEPT ![c] = peer'[c]]
            /\ \E ok \in SendResults :
                  Exchange(m, Sent(ok, ClientBindResponse(c, peer'[c])))
            /\ EndIteration(c, "connected", attempts_left[c])

\* An answer counts if it comes from the target, whatever its transaction.
OnClientBindResponse(c, m) ==
    /\ m.type = "client_bind_response"
    /\ Exchange(m, {})
    /\ IF peer'[c] # target[c]
       THEN KeepWaiting(c)
       ELSE EndIteration(c, "connected", attempts_left[c])
    /\ UNCHANGED target

\* Mutation: the server is alive, so all attempts are there again.
OnAckStartsOver(c, m) ==
    /\ m.type = "ack"
    /\ Exchange(m, {})
    /\ EndIteration(c, state[c], StunAttempts)
    /\ UNCHANGED target

OnAck(c, m) ==
    /\ m.type = "ack"
    /\ Exchange(m, {})
    /\ KeepWaiting(c)
    /\ UNCHANGED target

OnOther(c, m) ==
    /\ m.type \notin {"bind_reply", "client_bind_request",
                      "client_bind_response", "ack"}
    /\ Exchange(m, {})
    /\ UseAttempt(c)
    /\ UNCHANGED target

Loop(c, m) ==
    /\ pc[c] = "loop"
    /\ \E p \in PeerAddress(peer[c], m.src) : peer' = [peer EXCEPT ![c] = p]
    /\ \/ OnBindReply(c, m)
       \/ OnClientBindRequest(c, m)
       \/ OnClientBindResponse(c, m)
       \/ OnAck(c, m)
       \/ OnOther(c, m)

\* The steps that read a datagram addressed to c, and the ones that do not.
Hear(c, m) ==
    /\ m.dst = AddrOf[c]
    /\ Acknowledged(c, m) \/ AckError(c, m) \/ Loop(c, m) \/ LoopError(c, m)

Timeout(c) == AckTimeout(c) \/ LoopTimeout(c)
=============================================================================
