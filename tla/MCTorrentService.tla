-------------------------- MODULE MCTorrentService --------------------------
(***************************************************************************)
(* Instances of TorrentService for TLC.                                    *)
(***************************************************************************)
EXTENDS TorrentService, TLC

Quiet == [adds |-> 0, removes |-> 0, reads |-> 0, ends |-> 0, timeouts |-> 0,
          failedFetches |-> 0, failedRestores |-> 0, failedWrites |-> 0, lateAdds |-> 0]

\* Four adds, side by side or not, one of which may fail, and an end.
Crowding == [Quiet EXCEPT !.adds = 4, !.failedFetches = 1, !.lateAdds = 1]

\* Torrents come, one goes, and the process ends twice.
Restarting == [Quiet EXCEPT !.adds = 2, !.removes = 1, !.ends = 2, !.failedRestores = 1]

\* A write fails among adds, a removal and a restart.
Failing == [Quiet EXCEPT !.adds = 2, !.removes = 1, !.ends = 1, !.failedWrites = 1]

\* A torrent is watched while it is removed, and its removal may give up waiting.
Watching == [Quiet EXCEPT !.adds = 1, !.removes = 1, !.reads = 3, !.timeouts = 1, !.ends = 1]

AllPlans == {Crowding, Restarting, Failing, Watching}

\* A torrent and two restarts.
TwoEnds == {[Quiet EXCEPT !.adds = 1, !.ends = 2]}

Symmetry == Permutations(User) \cup Permutations(Torrent) \cup Permutations(Call)
=============================================================================
