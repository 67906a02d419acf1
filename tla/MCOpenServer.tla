---------------------------- MODULE MCOpenServer ----------------------------
(* Instances of OpenServer for TLC. *)
EXTENDS OpenServer, TLC

Symmetry == Permutations(Ips) \cup Permutations(Ports)
=============================================================================
