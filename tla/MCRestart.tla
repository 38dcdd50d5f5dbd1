----------------------------- MODULE MCRestart -----------------------------
(* Restart for model checking. *)
EXTENDS Restart, TLC

Symmetry == Permutations(CPUs) \cup Permutations(Sockets)
=============================================================================
