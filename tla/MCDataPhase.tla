---------------------------- MODULE MCDataPhase ----------------------------
(* Instances of DataPhase for TLC: two clients of one transaction. *)
EXTENDS DataPhase, TLC

CONSTANTS c1, c2, i1, i2, p1

TwoAddrOf == (c1 :> [ip |-> i1, port |-> p1]) @@ (c2 :> [ip |-> i2, port |-> p1])
TwoTidOf == [c \in Clients |-> 7]
=============================================================================
