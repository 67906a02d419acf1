--------------------------- MODULE PortPrediction ---------------------------
(***************************************************************************)
(* determine_target_port of client/src/connection/p2p_ps_connector.h: from *)
(* the ports and times of two sockets of the peer's, the port of the       *)
(* middle one of the sockets that the peer is about to open.  Ports have   *)
(* 16 bits, times 64; parts is a float, here the exact fraction.           *)
(***************************************************************************)
EXTENDS PortManager

CONSTANTS
    TimeSpace,      \* 2^64
    IntLimit,       \* 2^31
    NearPorts,      \* 250: ports closer than this are taken as sequential
    Roundtrip,      \* 100: ms until a packet reaches the partner
    ScanRange       \* scan_range: 50

ASSUME PredictionAssumption ==
    /\ TimeSpace \in Nat \ {0}
    /\ IntLimit \in Nat
    /\ NearPorts \in Nat /\ Roundtrip \in Nat /\ ScanRange \in Nat

\* A float becomes a uint16_t.  Beyond 16 bits that is undefined: the build
\* converts to a 32-bit int, of which the low bits stay, and which is 0 in
\* the low bits when the float is beyond an int.
ToPort(x) == IF x < IntLimit THEN x % PortSpace ELSE 0

Sequential(first_port, second_port) ==
    /\ first_port + NearPorts > second_port
    /\ first_port - NearPorts < second_port

\* How far the peer's ports will have moved on, from second_port.
Extrapolated(distance, T1, T2, now) ==
    LET timediff_port_allocation == (T2 - T1 + 1) % TimeSpace
        timediff_now == (now - T2) % TimeSpace
    IN  (((timediff_now + Roundtrip) % TimeSpace) * distance)
            \div timediff_port_allocation

\* distance is unsigned: it is positive for different ports, and large for
\* ports that go down.  0 means that there is no prediction.
determine_target_port(first_port, second_port, T1, T2, now) ==
    LET distance == (second_port - first_port) % PortSpace IN
    IF first_port = second_port THEN first_port
    ELSE IF Sequential(first_port, second_port)
    THEN ToPort(second_port + Extrapolated(distance, T1, T2, now)
                + ScanRange \div 2)
    ELSE 0
=============================================================================
