---------------------------- MODULE PsHolePunch ----------------------------
(***************************************************************************)
(* Hole punching with port prediction, end to end: the rendezvous server,  *)
(* the clients of p2p_ps_connector.h, their NATs and the datagrams between *)
(* them.  Every client calls connect once, at a time of its own.           *)
(***************************************************************************)
EXTENDS RendezvousServer, PsConnector, Nat

CONSTANTS
    Prompt,         \* datagrams are faster than the clients' timeouts
    ServerMayStop   \* the server process can end and be started again

ASSUME PsHolePunchAssumption ==
    /\ Prompt \in BOOLEAN
    /\ ServerMayStop \in BOOLEAN

VARIABLE introduced     \* the clients that the server has sent a ps_bind_reply

vars == <<net, holes, serverVars, connVars, introduced>>

Init ==
    /\ net = {}
    /\ NatInit
    /\ ServerInit
    /\ ConnectorInit
    /\ introduced = {}

\* Somebody is there to read m.
Deliverable(m) ==
    \/ running /\ m.dst \in ServerSocks
    \/ \E c \in Clients :
          /\ m.dst.ip = HostOf[c]
          /\ m.dst.port \in Listening(c)
          /\ Admits(m)

NobodyListens == \A m \in net : ~Deliverable(m)

ServerReceives ==
    /\ \E m \in net : Receive(m)
    /\ introduced' = introduced \cup
          {c \in Clients : \E r \in net' \ net :
                r.type = "ps_bind_reply" /\ r.dst.ip = HostOf[c]}
    /\ UNCHANGED <<connVars, holes>>

ClientRequests(c) ==
    /\ FirstRequest(c) \/ SecondRequest(c)
    /\ Outbound
    /\ UNCHANGED <<serverVars, introduced>>

ClientHears(c) ==
    /\ \E m \in net : Admits(m) /\ Hear(c, m)
    /\ Outbound
    /\ UNCHANGED <<serverVars, introduced>>

ClientTimesOut(c) ==
    /\ Prompt => NobodyListens
    /\ Timeout(c)
    /\ UNCHANGED <<serverVars, introduced, holes>>

Loses == Lose /\ UNCHANGED <<serverVars, connVars, introduced, holes>>
Filters == Filter /\ UNCHANGED <<serverVars, connVars, introduced>>

ServerRestarts ==
    /\ ServerMayStop
    /\ Stop \/ Start
    /\ UNCHANGED <<connVars, introduced, holes>>

TimePasses == Tick /\ UNCHANGED <<connVars, introduced, holes>>

Next ==
    \/ ServerReceives
    \/ \E c \in Clients : ClientRequests(c) \/ ClientHears(c) \/ ClientTimesOut(c)
    \/ Loses
    \/ Filters
    \/ ServerRestarts
    \/ TimePasses

Spec == Init /\ [][Next]_vars

\* select returns after its timeout at the latest, and sleep after a second.
FairSpec ==
    Spec /\ \A c \in Clients :
                /\ WF_vars(ClientHears(c) \/ ClientTimesOut(c))
                /\ WF_vars(pc[c] = "second" /\ ClientRequests(c))

----------------------------------------------------------------------------
(* Properties                                                              *)

TypeOK ==
    /\ ServerTypeOK
    /\ ConnectorTypeOK
    /\ NatTypeOK
    /\ introduced \subseteq Clients

Succeeded(c) == result[c] = "connection_successful"
Socket(c) == At(c, sock[c])

\* A client that connect told it is connected talks to a socket of another
\* client of its transaction, and that client is, or was, punching too.
PeerIsPartner ==
    \A c \in Clients : state[c] = "connected" =>
        \E d \in Clients \ {c} :
            /\ target[c].ip = HostOf[d]
            /\ TidOf[d] = TidOf[c]
            /\ d \in introduced

\* Two connected clients of one transaction have each other's sockets: of
\* all the sockets that punched, the same pair is left on both sides.
SocketsMatch ==
    \A c, d \in Clients :
        c # d /\ TidOf[c] = TidOf[d] /\ Succeeded(c) /\ Succeeded(d) =>
            target[c] = Socket(d)

\* When datagrams are faster than timeouts and none is lost, one client of
\* a pair is connected if and only if the other is.
Agreement ==
    \A c, d \in Clients :
        TidOf[c] = TidOf[d] /\ pc[c] = "returned" /\ pc[d] = "returned"
        => (Succeeded(c) <=> Succeeded(d))

\* connect returns, whatever is lost and however the punch goes.
Termination ==
    \A c \in Clients : pc[c] = "await_ack" ~> pc[c] = "returned"
=============================================================================
