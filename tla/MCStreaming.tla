---------------------------- MODULE MCStreaming ----------------------------
(***************************************************************************)
(* Streaming on small instances.                                           *)
(***************************************************************************)
EXTENDS Streaming

\* A season of two episodes, the second shorter, whose border falls inside a piece,
\* and a film by itself, so short that the season's offsets lie pieces beyond its end.
MCLayout == [season |-> <<[size |-> 7, secs |-> 3], [size |-> 2, secs |-> 1]>>,
             movie |-> <<[size |-> 2, secs |-> 1]>>]
=============================================================================
