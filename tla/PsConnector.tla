---------------------------- MODULE PsConnector ----------------------------
(***************************************************************************)
(* client/src/connection/p2p_ps_connector.h: hole punching with port       *)
(* prediction.  A client registers two sockets with the server, learns     *)
(* where its peer's two were seen, predicts a port of the peer's, and      *)
(* sends requests to it: behind a symmetric NAT (is_sym_nat) from a range  *)
(* of fresh sockets, of which the first to hear anything becomes the       *)
(* connection's socket; otherwise from the one it has.                     *)
(* What connect does from one return of select to the next call is one     *)
(* step.  After the punch the datagram that select saw is still there, so  *)
(* that step goes on to the end of the loop's next iteration.              *)
(***************************************************************************)
EXTENDS UdpSocket

CONSTANTS
    Clients,
    HostOf,         \* client -> its public address
    TidOf,          \* client -> transaction_id_
    Sym,            \* client -> is_sym_nat
    ScanRange,      \* scan_range: 50
    StunAttempts    \* timeouts before giving up on the server: 5

ASSUME PsConnectorAssumption ==
    /\ HostOf \in [Clients -> Ips]
    /\ \A c, d \in Clients : HostOf[c] = HostOf[d] => c = d
    /\ TidOf \in [Clients -> Tids]
    /\ Sym \in [Clients -> BOOLEAN]
    /\ ScanRange \in Nat \ {0}
    /\ StunAttempts \in Nat \ {0}
    /\ Ports = 1 .. ScanRange + 3

\* The public ports of a host: those of its two base sockets and of its scan
\* sockets, and one that belongs to no socket.
MainPort == 1
HelperPort == 2
ScanPorts == 3 .. ScanRange + 2
NobodysPort == ScanRange + 3

VARIABLES
    pc,             \* where in connect the client is
    state,
    attempts_left,
    sock,           \* the port of the connection's socket
    target,         \* its target_address_
    scan_target,    \* target_address_ of the scan sockets
    peer,           \* its peer_address
    result          \* what connect returned

connVars == <<pc, state, attempts_left, sock, target, scan_target, peer,
              result>>

States == {"disconnected", "waiting_for_stun_reply", "connected"}
Results == {"connection_successful", "connection_failed", "connection_error",
            "connection_failed_no_server_match_in_time"}
Pcs == {"start", "await_ack", "second", "await_ack2", "loop", "punch",
        "returned"}

ConnectorTypeOK ==
    /\ pc \in [Clients -> Pcs]
    /\ state \in [Clients -> States]
    /\ attempts_left \in [Clients -> Nat]
    /\ sock \in [Clients -> Ports]
    /\ target \in [Clients -> SockAddr]
    /\ scan_target \in [Clients -> SockAddr]
    /\ peer \in [Clients -> SockAddr]
    /\ result \in [Clients -> Results \cup {"none"}]

ConnectorInit ==
    /\ pc = [c \in Clients |-> "start"]
    /\ state = [c \in Clients |-> "disconnected"]
    /\ attempts_left = [c \in Clients |-> 0]
    /\ sock = [c \in Clients |-> MainPort]
    /\ target = [c \in Clients |-> NoAddr]
    /\ scan_target = [c \in Clients |-> NoAddr]
    /\ peer = [c \in Clients |-> NoAddr]
    /\ result = [c \in Clients |-> "none"]

At(c, port) == [ip |-> HostOf[c], port |-> port]

\* The ports that the client waits for a datagram at.
Listening(c) ==
    CASE pc[c] \in {"await_ack", "loop"} -> {sock[c]}
      [] pc[c] = "await_ack2" -> {IF Sym[c] THEN HelperPort ELSE sock[c]}
      [] pc[c] = "punch" -> IF Sym[c] THEN ScanPorts ELSE {sock[c]}
      [] OTHER -> {}

PsBindRequest(c, port, server) ==
    WithTid("ps_bind_request", At(c, port), server, TidOf[c])
ClientBindRequest(c, port, a) ==
    WithTid("client_bind_request", At(c, port), a, TidOf[c])
\* Mutation: the socket's target is not set before the answer is sent.
ClientBindResponseAstray(c, port, a) ==
    WithTid("client_bind_response", At(c, port), target[c], TidOf[c])
ClientBindResponse(c, port, a) ==
    WithTid("client_bind_response", At(c, port), a, TidOf[c])

Goto(c, where) == pc' = [pc EXCEPT ![c] = where] /\ UNCHANGED result
Return(c, r) ==
    /\ pc' = [pc EXCEPT ![c] = "returned"]
    /\ result' = [result EXCEPT ![c] = r]

----------------------------------------------------------------------------
(* The two requests to the server                                          *)

\* The first, from the connection's socket to the server's first.
FirstRequest(c) ==
    /\ pc[c] = "start"
    /\ target' = [target EXCEPT ![c] = ServerSock(1)]
    /\ \E ok \in SendResults :
          /\ Send(Sent(ok, PsBindRequest(c, sock[c], ServerSock(1))))
          /\ IF ok THEN Goto(c, "await_ack") ELSE Return(c, "connection_error")
    /\ UNCHANGED <<state, attempts_left, sock, scan_target, peer>>

\* The second, a second later, to the server's second socket, from a helper
\* socket where the NAT is symmetric.  Making the helper can fail as well,
\* with the same result as a failed send.
SecondRequest(c) ==
    /\ pc[c] = "second"
    /\ target' = IF Sym[c] THEN target
                 ELSE [target EXCEPT ![c] = ServerSock(2)]
    /\ \E ok \in SendResults :
          /\ Send(Sent(ok, PsBindRequest(c,
                               IF Sym[c] THEN HelperPort ELSE sock[c],
                               ServerSock(2))))
          /\ IF ok THEN Goto(c, "await_ack2")
             ELSE Return(c, "connection_error")
    /\ UNCHANGED <<state, attempts_left, sock, scan_target, peer>>

\* Any datagram passes for the server's ack.
Acknowledged(c, m) ==
    /\ \E p \in PeerAddress(peer[c], m.src) :
          peer' = IF m.dst.port = sock[c] THEN [peer EXCEPT ![c] = p] ELSE peer
    /\ Exchange(m, {})
    /\ \/ /\ pc[c] = "await_ack"
          /\ Goto(c, "second")
          /\ UNCHANGED <<state, attempts_left>>
       \/ /\ pc[c] = "await_ack2"
          /\ Goto(c, "loop")
          /\ state' = [state EXCEPT ![c] = "waiting_for_stun_reply"]
          /\ attempts_left' = [attempts_left EXCEPT ![c] = StunAttempts]
    /\ UNCHANGED <<sock, target, scan_target>>

NoAck(c) ==
    /\ pc[c] \in {"await_ack", "await_ack2"}
    /\ Return(c, "connection_error")
    /\ UNCHANGED <<state, attempts_left, sock, target, scan_target, peer>>

AckTimeout(c) == NoAck(c) /\ UNCHANGED net
AckError(c, m) == NoAck(c) /\ ReceiveFails(m)

----------------------------------------------------------------------------
(* The loop.  The handlers take the port k, target t and attempts n that    *)
(* the iteration begins with, and the sender's address p as it was copied.  *)

Outcome(s) == IF s = "connected" THEN "connection_successful"
              ELSE "connection_failed_no_server_match_in_time"

EndIteration(c, s, n) ==
    /\ state' = [state EXCEPT ![c] = s]
    /\ attempts_left' = [attempts_left EXCEPT ![c] = n]
    /\ IF s = "connected" \/ n = 0 THEN Return(c, Outcome(s))
       ELSE Goto(c, "loop")

\* One attempt is used up.  (Mutations: two are, or none.)
UseTwo(n) == n - 2
UseNone(n) == n
UseOne(n) == n - 1

\* An iteration that reads m, sends nothing and leaves the target.
Idle(c, m, t, n) ==
    /\ Exchange(m, {})
    /\ target' = [target EXCEPT ![c] = t]
    /\ EndIteration(c, state[c], n)

\* What determine_target_port can return: the port if both sockets were seen
\* at the same; else a port in the direction of the peer's allocations, be
\* it one of the peer's sockets or nobody's, or 0 for an unpredictable NAT.
Predictions(m) ==
    IF m.addr_one.port = m.addr_two.port THEN {m.addr_one.port}
    ELSE ScanPorts \cup {NobodysPort, 0}

\* The requests of a punch from the ports in from; a failed send goes
\* unnoticed.
Punches(c, from, a) ==
    LET all == {ClientBindRequest(c, k, a) : k \in from} IN
    IF CallsMayFail THEN SUBSET all ELSE {all}

\* The predicted port is tried: connect sends, and goes to wait in select.
Punch(c, m, k, t, n, a) ==
    /\ \E out \in Punches(c, IF Sym[c] THEN ScanPorts ELSE {k}, a) :
          Exchange(m, out)
    /\ target' = [target EXCEPT ![c] = IF Sym[c] THEN t ELSE a]
    /\ scan_target' = IF Sym[c] THEN [scan_target EXCEPT ![c] = a]
                      ELSE scan_target
    /\ Goto(c, "punch")

\* The prediction is 0, or, after the first few requests, a scan socket
\* cannot be made.
PunchFails(c, m, t, a) ==
    /\ \/ a.port = 0 /\ Exchange(m, {})
       \/ /\ a.port # 0 /\ Sym[c] /\ CallsMayFail
          /\ \E out \in Punches(c, ScanPorts \ {ScanRange + 2}, a) :
                Exchange(m, out)
    /\ target' = [target EXCEPT ![c] = t]
    /\ Return(c, "connection_failed")
    /\ UNCHANGED scan_target

\* The server's introduction; only the address it comes from is looked at.
OnPsBindReply(c, m, p, k, t, n) ==
    /\ m.type = "ps_bind_reply"
    /\ \/ p.ip # ServerIp /\ Idle(c, m, t, n) /\ UNCHANGED scan_target
       \/ /\ p.ip = ServerIp
          /\ \E port \in Predictions(m) :
                LET a == [ip |-> m.addr_one.ip, port |-> port] IN
                \/ a.port # 0 /\ Punch(c, m, k, t, n, a)
                \/ PunchFails(c, m, t, a)
          /\ attempts_left' = [attempts_left EXCEPT ![c] = n]
          /\ UNCHANGED state

\* A peer's request is answered if it names this transaction.
WrongTransaction(c, m) == m.tid # TidOf[c]

OnClientBindRequest(c, m, p, k, t, n) ==
    /\ m.type = "client_bind_request"
    /\ \/ WrongTransaction(c, m) /\ Idle(c, m, t, UseOne(n))
       \/ /\ ~WrongTransaction(c, m)
          /\ target' = [target EXCEPT ![c] = p]
          /\ \E ok \in SendResults :
                Exchange(m, Sent(ok, ClientBindResponse(c, k, p)))
          /\ EndIteration(c, "connected", n)
    /\ UNCHANGED scan_target

\* An answer counts if it comes from the target.
OnClientBindResponse(c, m, p, t, n) ==
    /\ m.type = "client_bind_response"
    /\ \/ p # t /\ Idle(c, m, t, n)
       \/ /\ p = t
          /\ Exchange(m, {})
          /\ target' = [target EXCEPT ![c] = t]
          /\ EndIteration(c, "connected", n)
    /\ UNCHANGED scan_target

OnAck(c, m, t, n) ==
    /\ m.type = "ack"
    /\ Idle(c, m, t, n)
    /\ UNCHANGED scan_target

OnOther(c, m, t, n) ==
    /\ m.type \notin {"ps_bind_reply", "client_bind_request",
                      "client_bind_response", "ack"}
    /\ Idle(c, m, t, UseOne(n))
    /\ UNCHANGED scan_target

Handle(c, m, k, t, old, n) ==
    /\ sock' = [sock EXCEPT ![c] = k]
    /\ \E p \in PeerAddress(old, m.src) :
          /\ peer' = [peer EXCEPT ![c] = p]
          /\ \/ OnPsBindReply(c, m, p, k, t, n)
             \/ OnClientBindRequest(c, m, p, k, t, n)
             \/ OnClientBindResponse(c, m, p, t, n)
             \/ OnAck(c, m, t, n)
             \/ OnOther(c, m, t, n)

\* A datagram that cannot be read.
HandleError(c, m, k, t, old, n) ==
    /\ sock' = [sock EXCEPT ![c] = k]
    /\ peer' = [peer EXCEPT ![c] = old]
    /\ ReceiveFails(m)
    /\ target' = [target EXCEPT ![c] = t]
    /\ EndIteration(c, state[c], UseOne(n))
    /\ UNCHANGED scan_target

HandleResult(c, m, k, t, old, n) ==
    Handle(c, m, k, t, old, n) \/ HandleError(c, m, k, t, old, n)

Loop(c, m) ==
    /\ pc[c] = "loop"
    /\ HandleResult(c, m, sock[c], target[c], peer[c], attempts_left[c])

LoopTimeout(c) ==
    /\ pc[c] = "loop"
    /\ EndIteration(c, state[c], UseOne(attempts_left[c]))
    /\ UNCHANGED <<sock, target, scan_target, peer, net>>

\* Mutation: the swap with the socket that has heard something is forgotten.
PunchSucceedsNoSwap(c, m) ==
    /\ pc[c] = "punch"
    /\ IF Sym[c]
       THEN HandleResult(c, m, sock[c], scan_target[c], NoAddr, 1)
       ELSE HandleResult(c, m, sock[c], target[c], peer[c], 1)

\* select finds a socket that has heard something.  It becomes the
\* connection's, one of two attempts is used up, and the datagram is read.
PunchSucceeds(c, m) ==
    /\ pc[c] = "punch"
    /\ IF Sym[c]
       THEN HandleResult(c, m, m.dst.port, scan_target[c], NoAddr, 1)
       ELSE HandleResult(c, m, sock[c], target[c], peer[c], 1)

PunchTimeout(c) ==
    /\ pc[c] = "punch"
    /\ Return(c, "connection_failed")
    /\ UNCHANGED <<state, attempts_left, sock, target, scan_target, peer, net>>

Hear(c, m) ==
    /\ m.dst.ip = HostOf[c]
    /\ m.dst.port \in Listening(c)
    /\ Acknowledged(c, m) \/ AckError(c, m) \/ Loop(c, m) \/ PunchSucceeds(c, m)

Timeout(c) == AckTimeout(c) \/ LoopTimeout(c) \/ PunchTimeout(c)
=============================================================================
