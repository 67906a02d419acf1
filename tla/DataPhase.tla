------------------------------ MODULE DataPhase ------------------------------
(***************************************************************************)
(* client/src/main.cpp, normal_runner: after a successful connect one      *)
(* thread says something every three seconds and another receives, both on *)
(* the connection's socket.  receive stores the sender's address where     *)
(* send looks for the target: whoever was heard last is talked to next.    *)
(* A peer that is still in connect hears the text among its messages.      *)
(***************************************************************************)
EXTENDS HolePunch

Talking(c) == pc[c] = "returned" /\ Succeeded(c)

Text(c, a) == Empty("text", AddrOf[c], a)

\* Every three seconds; what becomes of the send is not looked at.  A prompt
\* network delivers in less to a client that is connecting.
Talk(c) ==
    /\ Talking(c)
    /\ Prompt => \A m \in net : \A d \in Clients :
                    m.dst = AddrOf[d] => pc[d] \notin {"await_ack", "loop"}
    /\ \E ok \in SendResults : Send(Sent(ok, Text(c, target[c])))
    /\ UNCHANGED <<serverVars, connVars, introduced>>

\* What the socket's target can be after it has received m.
HeardFrom(c, m) == PeerAddress(target[c], m.src)

Listen(c) ==
    /\ Talking(c)
    /\ \E m \in net :
          /\ m.dst = AddrOf[c]
          /\ \/ /\ Exchange(m, {})
                /\ \E a \in HeardFrom(c, m) :
                      target' = [target EXCEPT ![c] = a]
             \/ ReceiveFails(m) /\ UNCHANGED target
    /\ UNCHANGED <<serverVars, pc, state, attempts_left, peer, result,
                   introduced>>

\* The two threads share the address without a lock: what send reads while
\* receive writes can be the address of the one and the port of the other.
TalkWhileListening(c) ==
    /\ Talking(c)
    /\ \E m \in net :
          /\ m.dst = AddrOf[c]
          /\ \E a \in HeardFrom(c, m) :
                /\ target' = [target EXCEPT ![c] = a]
                /\ \E x, y \in {target[c], a} :
                      Exchange(m, {Text(c, [ip |-> x.ip, port |-> y.port])})
    /\ UNCHANGED <<serverVars, pc, state, attempts_left, peer, result,
                   introduced>>

DataNext ==
    \/ Next
    \/ \E c \in Clients : Talk(c) \/ Listen(c) \/ TalkWhileListening(c)

DataSpec == Init /\ [][DataNext]_vars

\* wait_receive returns after at most five seconds, with a datagram or
\* without: a client that waits does not wait forever.  The threads of a
\* connected client run, and receive what has arrived.
FairDataSpec ==
    DataSpec /\ \A c \in Clients :
        WF_vars(ClientRuns(c)) /\ WF_vars(Talk(c)) /\ WF_vars(Listen(c))

----------------------------------------------------------------------------
(* Properties                                                              *)

\* A message of the server that is received late turns the talk of a client
\* (main.cpp:149-155, udp_socket.h:95-99) to the server, but not for good: two
\* clients that both connected end up talking to each other, if the network
\* loses nothing.
TalkRecovers ==
    \A c \in Clients : \A d \in Clients \ {c} :
        <>(Talking(c) /\ Talking(d)) =>
            <>[](target[c] = AddrOf[d] /\ target[d] = AddrOf[c])

\* Nothing that a connected client says is taken for the server's ack: who
\* is talked to has been introduced, unless it is the server.
TextAfterIntroduction ==
    \A m \in net : m.type = "text" =>
        \A c \in Clients : m.dst = AddrOf[c] =>
            pc[c] \in {"loop", "returned"} /\ state[c] # "waiting_for_stun_reply"
=============================================================================
