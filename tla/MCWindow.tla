------------------------------ MODULE MCWindow ------------------------------
(* Instances of Window for TLC: each plan is one situation and the events   *)
(* it allows.                                                               *)
EXTENDS Window, TLC

CONSTANTS A, B, C, p, q

\* A's third file is beyond the first page; C is there to fill a page of torrents.
MCFilesOf == (A :> {0, 1, 2}) @@ (B :> {0}) @@ (C :> {0})

Name(film, file) == [film |-> film, file |-> file]
MCAnnounced == {Name(A, Unchosen), Name(A, 1), Name(A, 2), Name(B, 0)}

None == [reports |-> 0, moves |-> 0, pauses |-> 0, errors |-> 0, presses |-> 0,
         stalls |-> 0, starts |-> 0, rooms |-> 0, magnets |-> 0, clicks |-> 0]

Watching(as, budget) == [host |-> as, playing |-> TRUE, have |-> {}, budget |-> budget]

\* The host, with two guests whose reports cross with its own stall.
Stopping  == Watching(Self, [None EXCEPT !.reports = 3, !.stalls = 1, !.presses = 1])
\* The same, while members come, go and take the role, and the player answers badly.
Departing == Watching(Self, [None EXCEPT !.reports = 2, !.moves = 2, !.errors = 1])
\* A second room after the first.
Moving    == Watching(Self, [None EXCEPT !.reports = 2, !.rooms = 1, !.starts = 1, !.stalls = 1])
\* A follower, whose player comes and goes.
Following == [Watching(p, [None EXCEPT !.pauses = 3, !.presses = 1, !.starts = 2, !.errors = 1])
              EXCEPT !.playing = FALSE]
\* A guest to whom the host names two films, while something fails.
Adopting  == [host |-> p, playing |-> FALSE, have |-> {},
              budget |-> [None EXCEPT !.magnets = 2, !.errors = 1]]
\* The same, with a person who opens a torrent or selects a file.
Meddling  == [Adopting EXCEPT !.budget = [None EXCEPT !.magnets = 2, !.clicks = 1]]
\* A person who opens and selects, and creates a room.
Creating  == [host |-> p, playing |-> FALSE, have |-> {A, B},
              budget |-> [None EXCEPT !.clicks = 2, !.rooms = 1, !.errors = 1]]
\* A guest with as many torrents as a page of them shows.
Crowded   == [host |-> p, playing |-> FALSE, have |-> {B, C},
              budget |-> [None EXCEPT !.magnets = 1]]

AllPlans == {Stopping, Departing, Moving, Following, Adopting, Meddling,
             Creating, Crowded}
\* The host's own stall and one guest's reports, and nothing else.
Overlapping == {Watching(Self, [None EXCEPT !.reports = 2, !.stalls = 1])}
=============================================================================
