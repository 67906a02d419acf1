--------------------------- MODULE MCPsHolePunch ---------------------------
(* Instances of PsHolePunch for TLC: two hosts with one client each. *)
EXTENDS PsHolePunch, TLC

CONSTANTS c1, c2, i1, i2

Hosts == (c1 :> i1) @@ (c2 :> i2)
OneTransaction == [c \in Clients |-> 7]

BothSym == [c \in Clients |-> TRUE]
NoneSym == [c \in Clients |-> FALSE]
OneSym == (c1 :> TRUE) @@ (c2 :> FALSE)

\* The modes of switch_nat_mode.sh.
AllRestr == [i \in Ips |-> "restr"]
AllFull == [i \in Ips |-> "full"]
OneFull == (i1 :> "sym") @@ (i2 :> "full")
=============================================================================
