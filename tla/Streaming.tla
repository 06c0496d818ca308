------------------------------ MODULE Streaming ------------------------------
(***************************************************************************)
(* From the playhead to the download window.  The window of the app picks  *)
(* a file and hands it to mpv (ui/window.go, playFile); a reporter reads   *)
(* the position twice a second (room/buffer.go); the backend turns it into *)
(* priorities of pieces (buffer/service.go).                               *)
(*                                                                         *)
(* A torrent is a sequence of files, each of a size in bytes and a length  *)
(* in seconds.  Timers may fire at any time.  The torrent library takes,   *)
(* for a piece, the greater of its own priority and its file's.            *)
(***************************************************************************)
EXTENDS Integers, Sequences, FiniteSets, FiniteSetsExt

CONSTANTS Layout,      \* torrent -> its files
          PieceSize,   \* bytes
          BufferPercent, MaxBufferSize,
          BufferNowPieces, BufferHighPieces, BufferReadAheadPieces,
          MaxPlays,    \* bound: files picked by the person
          MaxSeeks     \* bound: moves of the playhead

Torrents == DOMAIN Layout
Plays == 1..MaxPlays
Seconds == UNION {UNION {0..Layout[t][i].secs : i \in DOMAIN Layout[t]} : t \in Torrents}

ASSUME StreamingAssumption ==
    /\ \A t \in Torrents : Layout[t] \in Seq([size : Nat \ {0}, secs : Nat \ {0}])
    /\ PieceSize \in Nat \ {0} /\ BufferPercent \in 0..100 /\ MaxBufferSize \in Nat
    /\ BufferNowPieces \in Nat /\ BufferHighPieces \in Nat /\ BufferReadAheadPieces \in Nat
    /\ MaxPlays \in Nat /\ MaxSeeks \in Nat

VARIABLES
    present,   \* torrents the backend holds
    selected,  \* torrent -> the file it streams, 0 for none
    buffers,   \* torrent -> its entry in the prioritiser
    piece,     \* torrent -> piece -> priority
    play,      \* pick -> the goroutines of one playFile
    film,      \* what mpv has open: file 0 until its header is read
    position,  \* the playhead, in seconds
    seeks,
    tracked    \* the one reporter's size and duration, and whose they are

backend == <<present, selected, buffers, piece>>
vars == <<present, selected, buffers, piece, play, film, position, seeks, tracked>>

FileSize(t, i) == Layout[t][i].size
Length(t) == SumFunction([i \in DOMAIN Layout[t] |-> FileSize(t, i)])
Offset(t, i) == SumFunction([j \in 1..(i - 1) |-> FileSize(t, j)])
TotalPieces(t) == (Length(t) + PieceSize - 1) \div PieceSize
Pieces(t) == 0..(TotalPieces(t) - 1)
PiecesOf(t, i) == (Offset(t, i) \div PieceSize) ..
                  ((Offset(t, i) + FileSize(t, i) - 1) \div PieceSize)

\* The bands in the order of the code's cascade: now, high, normal, readahead.
None == 0
Readahead == 1
Normal == 2
High == 3
Now == 4

NoPlay == [torrent |-> "none", file |-> 0, phase |-> "idle", cancelled |-> FALSE,
           duration |-> 0, offset |-> -1]
NoFilm == [torrent |-> "none", file |-> 0]
Unregistered == [file |-> 0, start |-> 0, end |-> 0]
NotTracking == [by |-> 0, size |-> 0, duration |-> 0]
Registered(t) == buffers[t].file # 0

Init == /\ present = Torrents
        /\ selected = [t \in Torrents |-> 0]
        /\ buffers = [t \in Torrents |-> Unregistered]
        /\ piece = [t \in Torrents |-> [i \in Pieces(t) |-> None]]
        /\ play = [k \in Plays |-> NoPlay]
        /\ film = NoFilm
        /\ position = 0 /\ seeks = 0
        /\ tracked = NotTracking

-----------------------------------------------------------------------------
\* The backend: selection, prioritiser and what it tells of the buffer

\* RegisterTorrent: always a new entry, at the beginning of the file.
RegisterTorrent(i) == [file |-> i, start |-> 0, end |-> 0]

\* UpdatePosition: the window reaches a share of the file ahead, capped.
WindowFrom(t, b, offset) ==
    LET share == (FileSize(t, b.file) * BufferPercent) \div 100
        reach == offset + Min({share, MaxBufferSize})
    IN  [b EXCEPT !.start = offset, !.end = Min({reach, FileSize(t, b.file)})]

\* The cascade of updatePiecePriorities, for the pieces it scans.
Urgency(i, startPiece, endPiece) ==
    IF i \in startPiece..endPiece
    THEN IF i <= startPiece + BufferNowPieces THEN Now
         ELSE IF i <= startPiece + BufferHighPieces THEN High ELSE Normal
    ELSE IF i \in (endPiece + 1)..(endPiece + BufferReadAheadPieces) THEN Readahead ELSE None

\* A mutant of Priorities: the pieces before the scanned range keep theirs.
PrioritiesWithoutReset(t, b) ==
    LET startPiece == b.start \div PieceSize
    IN  [i \in Pieces(t) |-> IF i < startPiece - 1 THEN piece[t][i]
                             ELSE Urgency(i, startPiece, b.end \div PieceSize)]

\* updatePiecePriorities.  The offset is the file's, the piece the torrent's.
Priorities(t, b) ==
    LET startPiece == b.start \div PieceSize
    IN  [i \in Pieces(t) |-> IF i < startPiece - 1 THEN None
                             ELSE Urgency(i, startPiece, b.end \div PieceSize)]

\* A size of another film can put the window so far behind the torrent's end that
\* its resets name pieces that do not exist.
BeyondTheEnd(t) == Registered(t) /\ (buffers[t].start \div PieceSize) - 1 > TotalPieces(t)

\* A mutant of BufferInfo: one piece is taken for a buffer.
BufferInfoOfOnePiece(b, complete) ==
    LET window == (b.start \div PieceSize)..(b.end \div PieceSize)
        bytes == PieceSize * Cardinality(window \cap complete)
    IN  [window |-> window, isBuffering |-> bytes = 0]

\* GetBufferInfo: whole pieces are counted, against a window that cuts them.
BufferInfo(b, complete) ==
    LET window == (b.start \div PieceSize)..(b.end \div PieceSize)
        bytes == PieceSize * Cardinality(window \cap complete)
        size == b.end - b.start
    IN  [window |-> window, isBuffering |-> size <= 0 \/ 100 * bytes < 95 * size]

\* One request of the reporter, answered with an error for an unknown torrent.
UpdatePosition(t, offset) ==
    IF Registered(t)
    THEN LET b == WindowFrom(t, buffers[t], offset)
         IN  /\ buffers' = [buffers EXCEPT ![t] = b]
             /\ piece' = [piece EXCEPT ![t] = Priorities(t, b)]
    ELSE UNCHANGED <<buffers, piece>>

\* StartPeriodicUpdate: every window that is registered is applied again.
PeriodicUpdate ==
    /\ \A t \in Torrents : ~BeyondTheEnd(t)
    /\ piece' = [t \in Torrents |->
                    IF Registered(t) THEN Priorities(t, buffers[t]) ELSE piece[t]]
    /\ UNCHANGED <<present, selected, buffers, play, film, position, seeks, tracked>>

\* ... or the update panics in its own goroutine, and the backend is gone.  A
\* request that panics does so after the last reset, and is recovered.
UpdatePanics ==
    /\ \E t \in Torrents : BeyondTheEnd(t)
    /\ present' = {}
    /\ selected' = [t \in Torrents |-> 0]
    /\ buffers' = [t \in Torrents |-> Unregistered]
    /\ piece' = [t \in Torrents |-> [i \in Pieces(t) |-> None]]
    /\ UNCHANGED <<play, film, position, seeks, tracked>>

RemoveTorrent(t) ==
    /\ t \in present
    /\ present' = present \ {t}
    /\ selected' = [selected EXCEPT ![t] = 0]
    /\ buffers' = [buffers EXCEPT ![t] = Unregistered]
    /\ piece' = [piece EXCEPT ![t] = [i \in Pieces(t) |-> None]]
    /\ UNCHANGED <<play, film, position, seeks, tracked>>

-----------------------------------------------------------------------------
\* playFile

To(k, phase) == play' = [play EXCEPT ![k].phase = phase]

Pick(t, i) == \E k \in Plays :
    /\ play[k] = NoPlay /\ \A j \in 1..(k - 1) : play[j] # NoPlay
    /\ play' = [play EXCEPT ![k] = [NoPlay EXCEPT !.torrent = t, !.file = i, !.phase = "select"]]
    /\ UNCHANGED <<present, selected, buffers, piece, film, position, seeks, tracked>>

\* Service.SelectFile; SelectForStreaming leaves the pieces' own priorities.
SelectFile(k) ==
    LET t == play[k].torrent IN
    /\ play[k].phase = "select" /\ t \in present
    /\ selected' = [selected EXCEPT ![t] = play[k].file]
    /\ buffers' = [buffers EXCEPT ![t] = RegisterTorrent(play[k].file)]
    /\ To(k, "load")
    /\ UNCHANGED <<present, piece, film, position, seeks, tracked>>

SelectFails(k) ==
    /\ play[k].phase = "select" /\ play[k].torrent \notin present
    /\ To(k, "over")
    /\ UNCHANGED <<present, selected, buffers, piece, film, position, seeks, tracked>>

\* Player.Play: one address per torrent, whatever file it streams.
LoadFile(k) ==
    /\ play[k].phase = "load"
    /\ film' = [torrent |-> play[k].torrent, file |-> 0]
    /\ position' = 0
    /\ To(k, "hand")
    /\ UNCHANGED <<present, selected, buffers, piece, seeks, tracked>>

\* The player does not start, or Play of it fails, before mpv has loaded the
\* stream or after.  Nothing is reported of this pick.
PlayFails(k) ==
    /\ play[k].phase = "load"
    /\ \/ UNCHANGED <<film, position>>
       \/ film' = [torrent |-> play[k].torrent, file |-> 0] /\ position' = 0
    /\ To(k, "over")
    /\ UNCHANGED <<present, selected, buffers, piece, seeks, tracked>>

\* mpv opens the stream and has read the header of what is served.
ReadHeader ==
    /\ film # NoFilm /\ film.file = 0 /\ film.torrent \in present
    /\ film' = [film EXCEPT !.file = selected[film.torrent]]
    /\ UNCHANGED <<present, selected, buffers, piece, play, position, seeks, tracked>>

\* The person's seek, the room's, or time that passes.
Seek(s) ==
    /\ film.file # 0 /\ seeks < MaxSeeks
    /\ s \in 0..Layout[film.torrent][film.file].secs /\ s # position
    /\ position' = s
    /\ seeks' = seeks + 1
    /\ UNCHANGED <<present, selected, buffers, piece, play, film, tracked>>

-----------------------------------------------------------------------------
\* The reporter

\* A mutant of ReportBuffer: the report before it is not cancelled.
ReportBufferWithoutCancel(k) ==
    /\ play[k].phase = "hand"
    /\ play' = [play EXCEPT ![k].phase = "wait"]
    /\ UNCHANGED <<present, selected, buffers, piece, film, position, seeks, tracked>>

\* reportBuffer: one cancel function, the last one's.
ReportBuffer(k) ==
    /\ play[k].phase = "hand"
    /\ play' = [j \in Plays |->
                  IF j = k THEN [play[k] EXCEPT !.phase = "wait"]
                  ELSE IF play[j].phase \in {"wait", "track", "run"}
                  THEN [play[j] EXCEPT !.cancelled = TRUE] ELSE play[j]]
    /\ UNCHANGED <<present, selected, buffers, piece, film, position, seeks, tracked>>

\* waitForDuration: the player's length, of what is open now.
LearnDuration(k) ==
    /\ play[k].phase = "wait" /\ ~play[k].cancelled /\ film.file # 0
    /\ play' = [play EXCEPT ![k].phase = "track",
                            ![k].duration = Layout[film.torrent][film.file].secs]
    /\ UNCHANGED <<present, selected, buffers, piece, film, position, seeks, tracked>>

\* Cancelled, or no answer until the deadline.
WaitEnds(k) ==
    /\ play[k].phase = "wait" /\ (play[k].cancelled \/ film.file = 0)
    /\ To(k, "over")
    /\ UNCHANGED <<present, selected, buffers, piece, film, position, seeks, tracked>>

\* A mutant of SizeTracked: the whole torrent's size.
SizeOfTorrent(t, i) == Length(t)

\* playFile tells the reporter the size of the file it picked.
SizeTracked(t, i) == FileSize(t, i)

\* Track, whether cancelled meanwhile or not.
Track(k) ==
    /\ play[k].phase = "track"
    /\ tracked' = [by |-> k, size |-> SizeTracked(play[k].torrent, play[k].file),
                   duration |-> play[k].duration]
    /\ To(k, "run")
    /\ UNCHANGED <<present, selected, buffers, piece, film, position, seeks>>

\* BytePosition
BytePosition(s, duration, size) == (Min({s, duration}) * size) \div duration

\* A tick of Run: the playhead of what is open now, in bytes.
Tick(k) ==
    /\ play[k].phase = "run" /\ play[k].offset = -1 /\ film.file # 0
    /\ play' = [play EXCEPT ![k].offset = BytePosition(position, tracked.duration, tracked.size)]
    /\ UNCHANGED <<present, selected, buffers, piece, film, position, seeks, tracked>>

\* The request the tick sends.
Report(k) ==
    /\ play[k].offset # -1
    /\ UpdatePosition(play[k].torrent, play[k].offset)
    /\ play' = [play EXCEPT ![k].offset = -1]
    /\ UNCHANGED <<present, selected, film, position, seeks, tracked>>

\* A cancelled request may be lost, and the loop ends.
Stop(k) ==
    /\ play[k].phase = "run" /\ play[k].cancelled
    /\ play' = [play EXCEPT ![k].phase = "over", ![k].offset = -1]
    /\ UNCHANGED <<present, selected, buffers, piece, film, position, seeks, tracked>>

Step(k) == \/ SelectFile(k) \/ SelectFails(k) \/ LoadFile(k) \/ PlayFails(k)
           \/ ReportBuffer(k) \/ LearnDuration(k) \/ WaitEnds(k) \/ Track(k) \/ Stop(k)

Next == \/ \E t \in Torrents : \E i \in DOMAIN Layout[t] : Pick(t, i)
        \/ \E t \in Torrents : RemoveTorrent(t)
        \/ \E s \in Seconds : Seek(s)
        \/ ReadHeader \/ PeriodicUpdate \/ UpdatePanics
        \/ \E k \in Plays : Step(k) \/ Tick(k) \/ Report(k)

\* Goroutines run, tickers tick, requests are answered or fail; nobody is made
\* to pick, seek or remove.
Fairness == /\ WF_vars(PeriodicUpdate)
            /\ \A k \in Plays : WF_vars(Step(k)) /\ WF_vars(Tick(k)) /\ WF_vars(Report(k))

Spec == Init /\ [][Next]_vars /\ Fairness

-----------------------------------------------------------------------------
\* Properties

\* What the prioritiser asks for is one run of pieces and urgency falls with
\* the distance from the playhead: no seek, in either direction, no file
\* picked and no late report leaves a piece of an older window asked for
\* (updatePiecePriorities scans a range and resets what lies around it).
OneWindow ==
    \A t \in Torrents : \A i, j \in Pieces(t) :
        i < j /\ piece[t][j] # None /\ piece[t][i] # None =>
            \A m \in i..j : piece[t][m] # None /\ piece[t][m] >= piece[t][j]

\* GetBufferInfo says "not buffering" only when less is missing than a twentieth
\* of the window and two pieces, whatever has been downloaded: whole pieces are
\* counted against a window that begins and ends inside pieces, so one at each end
\* can be missing unseen, and no more.
ReadyMeansAlmostThere ==
    \A t \in {u \in Torrents : Registered(u)} :
        LET b == buffers[t]
            window == BufferInfo(b, {}).window \cap Pieces(t)
        IN  \A complete \in SUBSET window :
                BufferInfo(b, complete).isBuffering
                    \/ 100 * PieceSize * Cardinality(window \ complete)
                           < 5 * (b.end - b.start) + 200 * PieceSize

\* However quickly files are picked one after another, in the end at most one
\* reporter runs (reportBuffer: one cancel ends the wait and the loop).
OneReporterLeft == <>[](Cardinality({k \in Plays : play[k].phase = "run"}) <= 1)

\* A pick's own reporter runs and was the last to say what is played, the film
\* that is open is the one it picked, the first file of its torrent.
Settled(k) == /\ play[k].phase = "run" /\ ~play[k].cancelled
              /\ film = [torrent |-> play[k].torrent, file |-> play[k].file]
              /\ selected[film.torrent] = film.file /\ film.file = 1
              /\ tracked.by = k /\ tracked.duration = Layout[film.torrent][1].secs
              /\ \A j \in Plays \ {k} : play[j].phase \in {"idle", "over"}

\* Where the playhead rests, the piece under it is asked for now: the feedback
\* loop from mpv to the prioritiser closes again after every seek and every
\* switch of the film (reportBuffer's comment, bug-0082).
PlayheadSteers ==
    \A k \in Plays : []<>(Settled(k) =>
        LET t == film.torrent
            byte == (position * FileSize(t, 1)) \div Layout[t][1].secs
        IN  byte < FileSize(t, 1) => piece[t][byte \div PieceSize] = Now)

\* Once the prioritiser knows where the playhead is, no piece of another film is
\* asked for now (SelectForStreaming: "so the client does not fetch content
\* nobody is watching").
OnlyTheFilmIsUrgent ==
    \A k \in Plays :
        /\ play[k].phase = "run" /\ ~play[k].cancelled /\ film.file # 0
        /\ Registered(film.torrent)
        /\ buffers[film.torrent].start =
               BytePosition(position, tracked.duration, tracked.size)
        => \A t \in Torrents : \A i \in Pieces(t) :
               piece[t][i] = Now => t = film.torrent /\ i \in PiecesOf(t, film.file)
=============================================================================
