------------------------------ MODULE Network ------------------------------
(***************************************************************************)
(* The datagrams of common/messages.h and the UDP network that carries     *)
(* them.  A datagram is a record: its type, source and destination, and    *)
(* the fields of the union member that its type selects; text is whatever  *)
(* a connected client says, which has no type the others know.  The        *)
(* network is the set of datagrams in flight; it delivers in any order.    *)
(***************************************************************************)
EXTENDS Naturals, FiniteSets

CONSTANTS
    Ips,            \* the public addresses of the client hosts
    Ports,          \* the public ports that client sockets send from
    ServerIp,       \* the address of the server host
    NoIp,           \* sin_addr of a zeroed sockaddr_in
    Tids,           \* the transaction ids that clients use
    MayLose,        \* whether datagrams get lost
    MayDuplicate    \* whether datagrams are delivered more than once

VARIABLE net

\* Addresses of client sockets, the two sockets of the server, and a zeroed
\* sockaddr_in; SockAddr also has what a partly copied address can hold.
Addr == [ip : Ips, port : Ports]
ServerSock(i) == [ip |-> ServerIp, port |-> 3332 + i]
ServerSocks == {ServerSock(1), ServerSock(2)}
NoAddr == [ip |-> NoIp, port |-> 0]
SockAddr == [ip : Ips \cup {ServerIp, NoIp}, port : Ports \cup {0, 3333, 3334}]

ASSUME NetworkAssumption ==
    /\ Tids \subseteq Nat
    /\ NoIp \notin Ips
    /\ ServerIp \notin Ips
    /\ ServerIp # NoIp
    /\ MayLose \in BOOLEAN
    /\ MayDuplicate \in BOOLEAN

TidTypes ==
    {"bind_request", "ps_bind_request",
     "client_bind_request", "client_bind_response"}
EmptyTypes == {"ack", "heartbeat", "text"}

Datagram ==
    [type : TidTypes, src : SockAddr, dst : SockAddr, tid : Nat]
    \cup [type : EmptyTypes, src : SockAddr, dst : SockAddr]
    \cup [type : {"bind_reply"}, src : SockAddr, dst : SockAddr,
          addr : SockAddr]
    \cup [type : {"ps_bind_reply"}, src : SockAddr, dst : SockAddr,
          addr_one : SockAddr, addr_two : SockAddr, T1 : Nat, T2 : Nat]

WithTid(type, src, dst, t) ==
    [type |-> type, src |-> src, dst |-> dst, tid |-> t]
Empty(type, src, dst) == [type |-> type, src |-> src, dst |-> dst]
BindReply(src, dst, a) ==
    [type |-> "bind_reply", src |-> src, dst |-> dst, addr |-> a]
PsBindReply(src, dst, a1, a2, t1, t2) ==
    [type |-> "ps_bind_reply", src |-> src, dst |-> dst,
     addr_one |-> a1, addr_two |-> a2, T1 |-> t1, T2 |-> t2]

\* A step that sends the datagrams in out and reads nothing.
Send(out) == net' = net \cup out

\* A step that reads m and sends the datagrams in out.  Where the network
\* duplicates, another copy of m may still be on its way.
Exchange(m, out) ==
    \E left \in {net \ {m}} \cup (IF MayDuplicate THEN {net} ELSE {}) :
        net' = left \cup out

Lose == MayLose /\ \E m \in net : net' = net \ {m}
=============================================================================
