--------------------------- MODULE MCClientProcess ---------------------------
(* Threads are interchangeable: only their ends name them. *)
EXTENDS ClientProcess, TLC

ThreadSymmetry == Permutations(Threads)
=============================================================================
