------------------------------- MODULE MCRoom -------------------------------
(***************************************************************************)
(* Instances of Room for TLC.  Peer 1, the smallest ID, is of a later      *)
(* build than the others, and peer 4 of the legacy one.                    *)
(***************************************************************************)
EXTENDS Room

Mixed == [p \in Peer |-> CASE p = 1 -> 3 [] p = 4 -> 0 [] OTHER -> 2]

Calm(members, guests) ==
    [members |-> members, guests |-> guests, gone |-> 0, cuts |-> 0,
     failedDials |-> 0, toggles |-> 0, reports |-> 0]

\* The creator alone and two guests, in any order of arrival.
Joining == Calm({3}, {2, 4})

\* A full room that everybody leaves or crashes out of.
Leaving == [Calm({2, 3, 4}, {}) EXCEPT !.gone = 3, !.toggles = 1]

\* A full room with a stream that breaks, and pairs that also talk.
Breaking == [Calm({2, 3, 4}, {}) EXCEPT !.cuts = 1]
Chatting == [Calm({2, 3}, {}) EXCEPT !.cuts = 1, !.toggles = 1]
Stalling == [Calm({2, 3}, {}) EXCEPT !.cuts = 1, !.reports = 1]

\* A guest arrives while a member leaves, or while a dial fails.
Crossing == [Calm({3, 4}, {2}) EXCEPT !.gone = 1]
Missing  == [Calm({3, 4}, {2}) EXCEPT !.failedDials = 1]

\* A guest of a later build, and one of the legacy build.
Refusing == Calm({3}, {1, 4})

\* A guest of a later build that talks, and either it or its host leaves.
Newer == [Calm({3}, {1}) EXCEPT !.gone = 1, !.reports = 2]

AllPlans == {Joining, Leaving, Breaking, Chatting, Stalling, Crossing, Missing,
             Refusing, Newer}
=============================================================================
