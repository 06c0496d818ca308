---------------------------- MODULE MCPiecePool ----------------------------
(***************************************************************************)
(* PiecePool on small instances.                                           *)
(***************************************************************************)
EXTENDS PiecePool, TLC

CONSTANTS t1, t2, c1, c2

\* A piece and a shorter, last one.
MCLength == [i \in Indices |-> IF i = 0 THEN 2 ELSE 1]
MCSymmetry == Permutations(Providers) \cup Permutations(Callers)
=============================================================================
