---------------------------- MODULE MCPettyCash ----------------------------
(* Instances of PettyCash for TLC. *)
EXTENDS PettyCash, TLC

CONSTANTS k1, k2, c1, c2, b1

Symmetry == Permutations(Clerks)
=============================================================================
