----------------------------- MODULE MCTradeIn -----------------------------
(* Instances of TradeIn for TLC. *)
EXTENDS TradeIn, TLC

CONSTANTS r1, t1, t2, c1, c2, n1, n2

Symmetry == Permutations(Links) \cup Permutations(Calls) \cup Permutations(Names)
=============================================================================
