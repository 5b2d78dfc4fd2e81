---------------------------- MODULE MCPrintWake ----------------------------
(* Instances of PrintWake for TLC. *)
EXTENDS PrintWake, TLC

CONSTANTS j1, j2, i1, i2, q1, q2

(* For runs that check no liveness. *)
Symmetry == Permutations(Jobs) \cup Permutations(Processes) \cup Permutations(Requests)
=============================================================================
