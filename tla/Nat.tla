-------------------------------- MODULE Nat --------------------------------
(***************************************************************************)
(* The NATs that VM-Settings/Firewall/switch_nat_mode.sh sets up between   *)
(* a client's host and the others, as far as the connectors can tell.      *)
(* Every socket of theirs that matters talks to one address, or keeps its  *)
(* port (full, restr), so that a socket has one public address; what the   *)
(* modes differ in is whom they let in.                                    *)
(***************************************************************************)
EXTENDS Network

CONSTANT NatMode        \* public address -> "full", or any other mode

ASSUME NatAssumption == NatMode \in [Ips -> {"full", "restr", "sym"}]

VARIABLE holes          \* <<own, other>>: own has sent something to other

NatTypeOK == holes \subseteq Addr \X SockAddr

NatInit == holes = {}

\* full forwards whatever comes; the others only what belongs to a flow that
\* was opened from inside, from exactly the address it was opened to.
Admits(m) ==
    \/ m.dst.ip \in Ips /\ NatMode[m.dst.ip] = "full"
    \/ <<m.dst, m.src>> \in holes

\* The datagrams of a step pass their senders' NATs on the way out.
Outbound == holes' = holes \cup
    {<<m.src, m.dst>> : m \in {r \in net' \ net : r.src \in Addr}}

\* A datagram that its recipient's NAT keeps out.
Filter ==
    /\ \E m \in net :
          /\ m.dst \in Addr
          /\ ~Admits(m)
          /\ net' = net \ {m}
    /\ UNCHANGED holes
=============================================================================
