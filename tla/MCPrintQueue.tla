---------------------------- MODULE MCPrintQueue ----------------------------
(* Instances of PrintQueue for TLC. *)
EXTENDS PrintQueue, TLC

CONSTANTS a1, a2, h1, h2, s1, s2

\* One till PC with one token.
OnePC == h1 :> a1
\* A till PC and its replacement, each with its own token.
TwoPCs == h1 :> a1 @@ h2 :> a2
\* The first PC loses power once.
FirstCut == [h \in Hosts |-> IF h = h1 THEN 1 ELSE 0]
==============================================================================
