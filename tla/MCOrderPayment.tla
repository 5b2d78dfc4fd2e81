---------------------------- MODULE MCOrderPayment ----------------------------
(***************************************************************************)
(* Model values for OrderPayment.  The orders may be exchanged, and so may *)
(* requests of the same kind.                                              *)
(***************************************************************************)
EXTENDS OrderPayment, TLC

CONSTANTS o1, o2, hook1, hook2, poll1, clerk1, clerk2

Symmetry == Permutations(Orders) \union Permutations(Hooks) \union Permutations(Clerks)
=============================================================================
