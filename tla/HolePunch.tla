----------------------------- MODULE HolePunch -----------------------------
(***************************************************************************)
(* Basic hole punching, end to end: the rendezvous server, the clients of  *)
(* p2p_connector.h and the datagrams between them.  Every client calls     *)
(* connect once, at a time of its own; the address its NAT gives it is     *)
(* fixed and reachable by everybody, so what remains of the problem is the *)
(* protocol: who hears what, in which order, before which timeout.         *)
(***************************************************************************)
EXTENDS RendezvousServer, P2PConnector

CONSTANTS
    Prompt,         \* datagrams are faster than the clients' timeouts
    ServerMayStop   \* the server process can end and be started again

ASSUME HolePunchAssumption ==
    /\ Prompt \in BOOLEAN
    /\ ServerMayStop \in BOOLEAN

VARIABLE introduced     \* the clients that the server has sent a bind_reply

vars == <<net, serverVars, connVars, introduced>>

Init ==
    /\ net = {}
    /\ ServerInit
    /\ ConnectorInit
    /\ introduced = {}

\* Somebody is there to read m.
Deliverable(m) ==
    \/ running /\ m.dst \in ServerSocks
    \/ \E c \in Clients :
          m.dst = AddrOf[c] /\ pc[c] \in {"await_ack", "loop"}

NobodyListens == \A m \in net : ~Deliverable(m)

ServerReceives ==
    /\ \E m \in net : Receive(m)
    /\ introduced' = introduced \cup
          {c \in Clients : \E r \in net' \ net :
                r.type = "bind_reply" /\ r.dst = AddrOf[c]}
    /\ UNCHANGED connVars

ClientStarts(c) == Connect(c) /\ UNCHANGED <<serverVars, introduced>>

ClientHears(c) ==
    /\ \E m \in net : Hear(c, m)
    /\ UNCHANGED <<serverVars, introduced>>

ClientTimesOut(c) ==
    /\ Prompt => NobodyListens
    /\ Timeout(c)
    /\ UNCHANGED <<serverVars, introduced>>

Loses == Lose /\ UNCHANGED <<serverVars, connVars, introduced>>

ServerRestarts ==
    /\ ServerMayStop
    /\ Stop \/ Start
    /\ UNCHANGED <<connVars, introduced>>

ClientRuns(c) == ClientHears(c) \/ ClientTimesOut(c)

Next ==
    \/ ServerReceives
    \/ \E c \in Clients : ClientStarts(c) \/ ClientRuns(c)
    \/ Loses
    \/ ServerRestarts

Spec == Init /\ [][Next]_vars

----------------------------------------------------------------------------
(* Properties                                                              *)

TypeOK ==
    /\ ServerTypeOK
    /\ ConnectorTypeOK
    /\ introduced \subseteq Clients

Succeeded(c) == result[c] = "connection_successful"

\* A client that connect told it is connected (lines 144-167) has as its
\* target the address of a client of its own transaction, whatever pairs the
\* server introduced, and that client has tried to connect in its turn.
SameTransaction ==
    \A c, d \in Clients :
        state[c] = "connected" /\ target[c] = AddrOf[d] =>
            /\ TidOf[d] = TidOf[c]
            /\ state[d] \in {"waiting_for_client_reply", "connected"}

\* ... and the target is the address of another client, not the client's
\* own nor the server's, if the network does not duplicate requests.
PeerIsAnother ==
    \A c \in Clients : state[c] = "connected" =>
        \E d \in Clients \ {c} : target[c] = AddrOf[d]

\* Nobody asks a peer to connect but on the server's introduction: a client
\* is or was waiting for its peer only if the server has introduced it, and
\* the client that the server keeps waiting has not been introduced.
IntroducedFirst ==
    /\ \A c \in Clients :
          state[c] = "waiting_for_client_reply" => c \in introduced
    /\ \A c \in introduced, t \in DOMAIN transaction_client_map :
          transaction_client_map[t] # AddrOf[c]

\* Two clients that the server introduced to each other agree on the
\* outcome: when datagrams are delivered before timeouts and none is lost,
\* one is connected if and only if the other is.
Agreement ==
    \A c, d \in Clients :
        /\ TidOf[c] = TidOf[d]
        /\ pc[c] = "returned"
        /\ pc[d] = "returned"
        => (Succeeded(c) <=> Succeeded(d))

\* connect returns: the loop's attempts run out, whatever is lost and
\* whenever the server stops.
Termination ==
    \A c \in Clients : pc[c] = "await_ack" ~> pc[c] = "returned"

\* An attempt never comes back: attempts_left grows only when the server
\* introduces the client, and a connected client stays connected.
AttemptsSpent ==
    [][\A c \in Clients :
        /\ pc[c] = "loop" /\ attempts_left'[c] > attempts_left[c] =>
              c \in introduced /\ state'[c] = "waiting_for_client_reply"
        /\ state[c] = "connected" => state'[c] = "connected"
      ]_vars

----------------------------------------------------------------------------
(* What the code's messages say, and the code does not do                  *)

\* "Got bind request with incorrect transaction_id" (p2p_connector.h:221) is
\* an error: the server introduces clients of one transaction only.
PairsShareTransaction ==
    \A r \in net : r.type = "bind_reply" =>
        \A c, d \in Clients :
            r.dst = AddrOf[c] /\ r.addr = AddrOf[d] => TidOf[c] = TidOf[d]
=============================================================================
