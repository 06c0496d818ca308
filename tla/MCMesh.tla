------------------------------- MODULE MCMesh -------------------------------
(***************************************************************************)
(* Two nodes and the ways they come to dial each other.                    *)
(***************************************************************************)
EXTENDS Mesh

Nobody    == [n \in Node |-> None]
NoHint    == [n \in Node |-> {}]
Invites(a, b)  == [n \in Node |-> IF n = a THEN b ELSE None]
BothHinted     == [n \in Node |-> Node \ {n}]

Calmly(invited, hinted) ==
    [invited |-> invited, hinted |-> hinted, cuts |-> 0, failedDials |-> 0]

\* A guest one of whose dials fails and one of whose streams breaks; two peers
\* the book told of each other, one of whose streams breaks.
AllPlans ==
    {[Calmly(Invites(1, 2), NoHint) EXCEPT !.failedDials = 1, !.cuts = 1],
     [Calmly(Nobody, BothHinted) EXCEPT !.cuts = 1]}
=============================================================================
