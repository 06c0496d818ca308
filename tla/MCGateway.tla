----------------------------- MODULE MCGateway -----------------------------
(***************************************************************************)
(* Gateway on small instances.                                             *)
(***************************************************************************)
EXTENDS Gateway

\* A film of two pieces.
MCTotal == [t \in Torrents |-> 2]
=============================================================================
