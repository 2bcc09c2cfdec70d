------------------------------ MODULE MCIOManager ------------------------------
(* IOManager for TLC. *)
EXTENDS IOManager, TLC

Symmetry == Permutations(Thread)
=============================================================================
