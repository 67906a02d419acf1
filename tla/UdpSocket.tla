----------------------------- MODULE UdpSocket -----------------------------
(***************************************************************************)
(* client/src/connection/udp_socket.h: what the connectors see of sendto   *)
(* and recvfrom.  wait_receive passes recvfrom an uninitialised length for *)
(* the sender's address.  The kernel copies no more than that many bytes,  *)
(* and fails on a negative length after it has taken the datagram.         *)
(***************************************************************************)
EXTENDS Network

CONSTANTS
    LenValues,      \* what the uninitialised length can be
    CallsMayFail     \* whether sendto and socket can return -1

\* At least 8: family, port and address are copied.  4 to 7: no address.
\* 0 to 3: at most part of the port, taken as nothing.
ASSUME SocketAssumption ==
    /\ LenValues \subseteq {"full", "port", "none", "negative"}
    /\ CallsMayFail \in BOOLEAN

\* What peer_address can be after a datagram from src, if it was old.
PeerAddress(old, src) ==
    (IF "full" \in LenValues THEN {src} ELSE {})
    \cup (IF "port" \in LenValues
          THEN {[ip |-> old.ip, port |-> src.port]} ELSE {})
    \cup (IF "none" \in LenValues THEN {old} ELSE {})

\* recvfrom returns -1; the datagram is gone.
ReceiveFails(m) == "negative" \in LenValues /\ Exchange(m, {})

\* The results of send: whether it succeeded.
SendResults == {TRUE} \cup (IF CallsMayFail THEN {FALSE} ELSE {})

Sent(ok, m) == IF ok THEN {m} ELSE {}
=============================================================================
