---------------------------- MODULE MCHolePunch ----------------------------
(* Instances of HolePunch for TLC: client number i sends from host Host(i). *)
EXTENDS HolePunch, TLC

CONSTANTS c1, c2, c3, i1, i2, i3, p1

At(i) == [ip |-> i, port |-> p1]

\* Two clients of one transaction.
TwoAddrOf == (c1 :> At(i1)) @@ (c2 :> At(i2))
TwoTidOf == (c1 :> 7) @@ (c2 :> 7)

\* Two clients of one transaction and one of another.
ThreeAddrOf == TwoAddrOf @@ (c3 :> At(i3))
ThreeTidOf == TwoTidOf @@ (c3 :> 8)
=============================================================================
