--------------------------- MODULE MCQuorumStore ---------------------------
(* Small instances of QuorumStore for TLC. *)
EXTENDS QuorumStore, TLC

CONSTANTS p1, p2, p3, g1, g2

Symmetry == Permutations(Puts)
=============================================================================
