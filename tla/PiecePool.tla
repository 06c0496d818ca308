------------------------------ MODULE PiecePool ------------------------------
(***************************************************************************)
(* The pieces of all torrents in memory, storage/memory.go: one provider   *)
(* per torrent, one counter of bytes for all of them.  The torrent library *)
(* asks for a piece from several goroutines at once, writes to it, marks   *)
(* it complete, and closes the provider when the torrent is dropped.  A    *)
(* torrent that is added again finds the provider it had.                  *)
(*                                                                         *)
(* A provider's lock is held through Piece and Close; the counter is       *)
(* atomic and shared, so providers meet only there.                        *)
(***************************************************************************)
EXTENDS Integers, FiniteSets, Functions

CONSTANTS Providers,         \* one per torrent, and named like it
          Indices,           \* of pieces, the same for every torrent
          PieceLength,       \* index -> bytes
          Capacity,          \* bytes; 0 is no limit
          MaxAttempts,       \* compare-and-swap attempts of tryAllocate
          Callers,           \* goroutines of the torrent library
          MaxOpens           \* bound: times a torrent is opened

ASSUME PoolAssumption == /\ PieceLength \in [Indices -> Nat \ {0}]
                         /\ IsFiniteSet(Indices) /\ IsFiniteSet(Providers)
                         /\ IsFiniteSet(Callers)
                         /\ Capacity \in Nat
                         /\ MaxAttempts \in Nat \ {0}
                         /\ MaxOpens \in Nat

VARIABLES
    used,      \* memoryStorage.used
    opens,     \* torrent -> times its storage was opened
    open,      \* torrents whose storage is open
    pieces,    \* provider -> the pieces in its map
    written,   \* provider -> those of them that hold data
    complete,  \* provider -> those of them that are marked
    total,     \* provider -> totalBytes
    call       \* goroutine -> its call of Piece and what it does with the piece

poolVars == <<used, opens, open, pieces, written, complete, total, call>>

NoCall == [at |-> "idle"]
Calls == [at : {"ask", "write", "mark"}, torrent : Providers, piece : Indices, tracked : BOOLEAN]
    \cup [at : {"swap"}, torrent : Providers, piece : Indices, read : Int, tries : 1..MaxAttempts]
    \cup [at : {"insert"}, torrent : Providers, piece : Indices]

PoolTypeOK == /\ used \in Int
              /\ opens \in [Providers -> 0..MaxOpens] /\ open \subseteq Providers
              /\ pieces \in [Providers -> SUBSET Indices]
              /\ written \in [Providers -> SUBSET Indices]
              /\ complete \in [Providers -> SUBSET Indices]
              /\ total \in [Providers -> Nat]
              /\ call \in [Callers -> Calls \cup {NoCall}]

PoolInit == /\ used = 0
        /\ opens = [t \in Providers |-> 0] /\ open = {}
        /\ pieces = [t \in Providers |-> {}]
        /\ written = [t \in Providers |-> {}]
        /\ complete = [t \in Providers |-> {}]
        /\ total = [t \in Providers |-> 0]
        /\ call = [c \in Callers |-> NoCall]

\* The provider's write lock: an allocation is under way.
Locked(t) == \E c \in Callers : call[c].at \in {"swap", "insert"} /\ call[c].torrent = t

-----------------------------------------------------------------------------
\* OpenTorrent: the provider that is there is used again, as it is.
OpenTorrent(t) ==
    /\ t \notin open /\ opens[t] < MaxOpens
    /\ opens' = [opens EXCEPT ![t] = @ + 1]
    /\ open' = open \cup {t}
    /\ UNCHANGED <<used, pieces, written, complete, total, call>>

\* memoryPieceProvider.Close: totalBytes is not set back.
Close(t) ==
    /\ t \in open /\ ~Locked(t)
    /\ open' = open \ {t}
    /\ used' = used - total[t]
    /\ pieces' = [pieces EXCEPT ![t] = {}]
    /\ written' = [written EXCEPT ![t] = {}]
    /\ complete' = [complete EXCEPT ![t] = {}]
    /\ call' = [c \in Callers |->
                  IF call[c].at \in {"write", "mark"} /\ call[c].torrent = t
                  THEN [call[c] EXCEPT !.tracked = FALSE] ELSE call[c]]
    /\ UNCHANGED <<opens, total>>

\* The library wants a piece; it may close the torrent before the answer.
Ask(c, t, i) ==
    /\ call[c] = NoCall /\ t \in open
    /\ call' = [call EXCEPT ![c] = [at |-> "ask", torrent |-> t, piece |-> i, tracked |-> FALSE]]
    /\ UNCHANGED <<used, opens, open, pieces, written, complete, total>>

\* Piece, when the piece is in the map, under either lock.
Found(c) ==
    /\ call[c].at = "ask" /\ ~Locked(call[c].torrent)
    /\ call[c].piece \in pieces[call[c].torrent]
    /\ call' = [call EXCEPT ![c].at = "write", ![c].tracked = TRUE]
    /\ UNCHANGED <<used, opens, open, pieces, written, complete, total>>

\* A mutant of Room: a piece that begins within the capacity fits.
RoomForItsBeginning(current, i) == Capacity = 0 \/ current < Capacity

\* tryAllocate: is there room, by the counter that was read.
Room(current, i) == Capacity = 0 \/ current + PieceLength[i] <= Capacity

\* Piece, when it is not in the map: the write lock is taken.
Missing(c) == /\ call[c].at = "ask" /\ ~Locked(call[c].torrent)
              /\ call[c].piece \notin pieces[call[c].torrent]

ReadCounter(c) ==
    /\ Missing(c) /\ Room(used, call[c].piece)
    /\ call' = [call EXCEPT ![c] = [at |-> "swap", torrent |-> call[c].torrent,
                                    piece |-> call[c].piece, read |-> used, tries |-> 1]]
    /\ UNCHANGED <<used, opens, open, pieces, written, complete, total>>

\* The piece is handed out but no map knows it.
Untracked(c) == [at |-> "write", torrent |-> call[c].torrent, piece |-> call[c].piece,
                 tracked |-> FALSE]

Refuse(c) ==
    /\ Missing(c) /\ ~Room(used, call[c].piece)
    /\ call' = [call EXCEPT ![c] = Untracked(c)]
    /\ UNCHANGED <<used, opens, open, pieces, written, complete, total>>

\* A mutant of CompareAndSwap: the sum is stored whatever the counter is now.
StoreSum(c) ==
    /\ call[c].at = "swap"
    /\ used' = call[c].read + PieceLength[call[c].piece]
    /\ call' = [call EXCEPT ![c] = [at |-> "insert", torrent |-> call[c].torrent,
                                    piece |-> call[c].piece]]
    /\ UNCHANGED <<opens, open, pieces, written, complete, total>>

\* CompareAndSwap; without a limit a plain Add.
CompareAndSwap(c) ==
    /\ call[c].at = "swap" /\ (Capacity = 0 \/ used = call[c].read)
    /\ used' = used + PieceLength[call[c].piece]
    /\ call' = [call EXCEPT ![c] = [at |-> "insert", torrent |-> call[c].torrent,
                                    piece |-> call[c].piece]]
    /\ UNCHANGED <<opens, open, pieces, written, complete, total>>

\* The counter moved: it is read again, or the attempts or the room are over.
Retry(c) ==
    /\ call[c].at = "swap" /\ Capacity # 0 /\ used # call[c].read
    /\ call' = [call EXCEPT ![c] =
                  IF call[c].tries < MaxAttempts /\ Room(used, call[c].piece)
                  THEN [call[c] EXCEPT !.read = used, !.tries = @ + 1]
                  ELSE Untracked(c)]
    /\ UNCHANGED <<used, opens, open, pieces, written, complete, total>>

Insert(c) ==
    LET t == call[c].torrent IN
    /\ call[c].at = "insert"
    /\ total' = [total EXCEPT ![t] = @ + PieceLength[call[c].piece]]
    /\ pieces' = [pieces EXCEPT ![t] = @ \cup {call[c].piece}]
    /\ call' = [call EXCEPT ![c] = [Untracked(c) EXCEPT !.tracked = TRUE]]
    /\ UNCHANGED <<used, opens, open, written, complete>>

\* WriteAt allocates on the first write, for a piece nobody tracks too.
WriteAt(c) ==
    LET t == call[c].torrent IN
    /\ call[c].at = "write"
    /\ written' = IF call[c].tracked
                  THEN [written EXCEPT ![t] = @ \cup {call[c].piece}] ELSE written
    /\ call' = [call EXCEPT ![c].at = "mark"]
    /\ UNCHANGED <<used, opens, open, pieces, complete, total>>

\* MarkComplete and MarkNotComplete, as the hash of the piece comes out.
Mark(c, good) ==
    LET t == call[c].torrent IN
    /\ call[c].at = "mark"
    /\ complete' = IF ~call[c].tracked THEN complete
                   ELSE [complete EXCEPT ![t] = IF good THEN @ \cup {call[c].piece}
                                                ELSE @ \ {call[c].piece}]
    /\ call' = [call EXCEPT ![c] = NoCall]
    /\ UNCHANGED <<used, opens, open, pieces, written, total>>

PoolNext == \/ \E t \in Providers : OpenTorrent(t) \/ Close(t)
        \/ \E c \in Callers : \/ \E t \in Providers, i \in Indices : Ask(c, t, i)
                              \/ Found(c) \/ ReadCounter(c) \/ Refuse(c)
                              \/ CompareAndSwap(c) \/ Retry(c) \/ Insert(c) \/ WriteAt(c)
                              \/ \E good \in BOOLEAN : Mark(c, good)

PoolSpec == PoolInit /\ [][PoolNext]_poolVars

-----------------------------------------------------------------------------
\* Properties

Bytes(S) == SumFunctionOnSet(PieceLength, S)

\* Bytes counted by the swap, before the map has the piece.
OnItsWay(c) == IF call[c].at = "insert" THEN PieceLength[call[c].piece] ELSE 0
InFlight == SumFunction([c \in Callers |-> OnItsWay(c)])
Held == SumFunction([t \in Providers |-> Bytes(pieces[t])])

\* The counter never passes the capacity, however the calls of several
\* torrents and their ends interleave (tryAllocate: "global pool").
CapacityHolds == Capacity # 0 => used <= Capacity

\* As long as no torrent is opened a second time, the counter is the bytes of
\* the pieces in the maps and of those on their way there.  A torrent that
\* comes back is the exception: its provider gives back, at the second end,
\* what it gave back at the first.
CounterIsTruthful == (\A t \in Providers : opens[t] <= 1) => used = Held + InFlight
=============================================================================
