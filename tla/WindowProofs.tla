----------------------------- MODULE WindowProofs -----------------------------
(***************************************************************************)
(* Proofs about Window: what adoption plays was named as one, and the stop *)
(* of the room follows the reports.                                        *)
(*                                                                         *)
(* The two halves of the window share hardly any state, and each has an    *)
(* inductive invariant of its own.  FilmInv follows a pair the room named  *)
(* through everything that carries it: the offer, the goroutines, the      *)
(* queue of the main thread, the adoption between its halves.  StopInv     *)
(* says of every decision under way what makes its outcome right when      *)
(* nothing disturbs it, and that a wrong stop always has a decision on its *)
(* way that will see it.                                                   *)
(***************************************************************************)
EXTENDS Window, TLAPS

-----------------------------------------------------------------------------
(* Sequences.                                                              *)

LEMMA AppendIs ==
    ASSUME NEW S, NEW s \in Seq(S), NEW e \in S
    PROVE  /\ Append(s, e) \in Seq(S) /\ Len(Append(s, e)) = Len(s) + 1 /\ Len(s) \in Nat
           /\ Append(s, e)[Len(s) + 1] = e
           /\ \A i \in 1..Len(s) : Append(s, e)[i] = s[i]
OBVIOUS

LEMMA TailIs ==
    ASSUME NEW S, NEW s \in Seq(S), s # <<>>
    PROVE  /\ Tail(s) \in Seq(S) /\ Len(Tail(s)) = Len(s) - 1 /\ Len(s) \in Nat \ {0}
           /\ Head(s) = s[1] /\ Head(s) \in S
           /\ \A i \in 1..Len(Tail(s)) : Tail(s)[i] = s[i + 1]
OBVIOUS

-----------------------------------------------------------------------------
(* The film.                                                               *)

Ops    == [op: {"text", "adopt"}, film: Films \cup {NoFilm}, file: Files \cup {Unchosen}]
Named  == offered \cup {NoOffer}

\* An adoption whose torrent is no longer listed names none, and plays nothing.
Nameless == [film: {NoFilm}, file: Files \cup {Unchosen}]

OpNamed(op, names) ==
    op.op = "adopt" /\ op.film # NoFilm => [film |-> op.film, file |-> op.file] \in names

PickNamed(pick, names) ==
    pick.by = "room" => [film |-> pick.film, file |-> pick.file] \in names

\* Wherever an adoption has got to, it carries a pair that was named as one,
\* and between its halves nothing but an opened torrent can part the two.
FilmInv ==
    /\ offered \subseteq Offers
    /\ main \in Seq(Ops)
    /\ offer \in Named
    /\ carrying \in [Carriers -> Named]
    /\ \A i \in 1..Len(main) : OpNamed(main[i], offered)
    /\ presented \in offered \cup Nameless
    /\ presented # NoOffer => meddled \/ current = presented.film
    /\ meddled \/ \A pick \in picks : PickNamed(pick, offered)
    /\ meddled \/ started \subseteq offered

adoptionVars == <<offer, current, main, presented, picks, carrying, offered, started, meddled>>

LEMMA InitFilm == Init => FilmInv
<1> SUFFICES ASSUME Init PROVE FilmInv
  OBVIOUS
<1>1. main = <<>> /\ main \in Seq(Ops) /\ Len(main) = 0
  BY DEF Init
<1> QED BY <1>1 DEF Init, FilmInv, Named, Nameless, NoOffer

LEMMA AdoptionStands == ASSUME FilmInv, UNCHANGED adoptionVars PROVE FilmInv'
BY DEF FilmInv, adoptionVars, Named, OpNamed, PickNamed

LEMMA PlayLeavesFilm == ASSUME Play PROVE UNCHANGED adoptionVars
<1>1. ASSUME NEW d \in Deciders, SyncTheRoomStop(d) PROVE UNCHANGED filmVars
  BY <1>1 DEF SyncTheRoomStop, ReadStop, CompareStop, StoreStop, PauseTheRoom,
              ResumeTheRoom, CommandOfStop
<1>2. ASSUME NEW p \in Peers,
             \/ \E behind \in BOOLEAN : HearReport(p, behind)
             \/ HearGreeting(p) \/ HearBye(p) \/ HearHost(p)
      PROVE  UNCHANGED filmVars
  BY <1>2 DEF HearReport, HearGreeting, HearBye, HearHost
<1>3. ASSUME \E paused \in BOOLEAN : HearPause(paused) \/ Arrives(paused)
      PROVE  UNCHANGED filmVars
  BY <1>3 DEF HearPause, Arrives
<1>4. ASSUME TickReads \/ TickActs \/ PlayerChanges \/ JoinRoom \/ MeshOfGuest
      PROVE  UNCHANGED filmVars
  BY <1>4 DEF TickReads, TickActs, PlayerChanges, JoinRoom, MeshOfGuest
<1>5. UNCHANGED filmVars
  BY <1>1, <1>2, <1>3, <1>4 DEF Play
<1> QED BY <1>5 DEF filmVars, adoptionVars

\* What is put at the end of the main thread's queue.
LEMMA QueueGrows ==
    ASSUME FilmInv, NEW op \in Ops, OnMain(op), offered \subseteq offered', OpNamed(op, offered')
    PROVE  /\ main' \in Seq(Ops)
           /\ \A i \in 1..Len(main') : OpNamed(main'[i], offered')
<1>1. main \in Seq(Ops) /\ main' = Append(main, op)
  BY DEF FilmInv, OnMain
<1>2. /\ main' \in Seq(Ops) /\ Len(main') = Len(main) + 1 /\ Len(main) \in Nat
      /\ main'[Len(main) + 1] = op
      /\ \A i \in 1..Len(main) : main'[i] = main[i]
  BY <1>1, AppendIs
<1>3. ASSUME NEW i \in 1..Len(main') PROVE OpNamed(main'[i], offered')
  <2>1. CASE i = Len(main) + 1
    BY <1>2, <2>1
  <2>2. CASE i \in 1..Len(main)
    <3>1. main'[i] = main[i] /\ OpNamed(main[i], offered)
      BY <1>2, <2>2 DEF FilmInv
    <3> QED BY <3>1 DEF OpNamed
  <2> QED BY <1>2, <1>3, <2>1, <2>2
<1> QED BY <1>2, <1>3

LEMMA HearMagnetKeeps ==
    ASSUME FilmInv, NEW film \in Films, NEW file \in Files \cup {Unchosen}, HearMagnet(film, file)
    PROVE  FilmInv'
<1>1. UNCHANGED <<carrying, current, presented, picks, started, meddled>>
  BY DEF HearMagnet
<1>2. CASE current = film
  BY <1>1, <1>2, AdoptionStands DEF HearMagnet, adoptionVars
<1>3. CASE current # film
  <2>1. /\ offer' = [film |-> film, file |-> file]
        /\ OnMain(TextOp(film))
        /\ offered' = offered \cup {[film |-> film, file |-> file]}
    BY <1>3 DEF HearMagnet
  <2>2. TextOp(film) \in Ops /\ TextOp(film).op = "text"
    BY DEF TextOp, Ops
  <2>3. OpNamed(TextOp(film), offered')
    BY <2>2 DEF OpNamed
  <2>4. main' \in Seq(Ops) /\ \A i \in 1..Len(main') : OpNamed(main'[i], offered')
    BY <2>1, <2>2, <2>3, QueueGrows
  <2>5. offered' \subseteq Offers
    BY <2>1 DEF FilmInv, Offers
  <2> QED BY <1>1, <2>1, <2>4, <2>5 DEF FilmInv, Named, PickNamed
<1> QED BY <1>2, <1>3

LEMMA TorrentAddedKeeps ==
    ASSUME FilmInv, NEW film \in Films, TorrentAdded(film) PROVE FilmInv'
<1>1. UNCHANGED <<offer, current, presented, picks, carrying, offered, started, meddled>>
  BY DEF TorrentAdded
<1>2. CASE UNCHANGED main
  BY <1>1, <1>2, AdoptionStands DEF adoptionVars
<1>3. CASE OnMain(TextOp(NoFilm))
  <2>1. TextOp(NoFilm) \in Ops /\ OpNamed(TextOp(NoFilm), offered')
    BY DEF TextOp, Ops, OpNamed
  <2>2. main' \in Seq(Ops) /\ \A i \in 1..Len(main') : OpNamed(main'[i], offered')
    BY <1>1, <1>3, <2>1, QueueGrows
  <2> QED BY <1>1, <2>2 DEF FilmInv, Named, PickNamed
<1> QED BY <1>2, <1>3 DEF TorrentAdded

LEMMA RefreshKeeps == ASSUME FilmInv, Refresh PROVE FilmInv'
<1>1. UNCHANGED <<offer, current, main, presented, picks, offered, started, meddled>>
  BY DEF Refresh
<1>2. carrying' \in [Carriers -> Named]
  BY DEF Refresh, AdoptTheRoomsFile, FilmInv
<1> QED BY <1>1, <1>2 DEF FilmInv, Named, OpNamed, PickNamed

\* The file that is handed over is the very one the offer names.
LEMMA CarryOutKeeps == ASSUME FilmInv, NEW c \in Carriers, CarryOut(c) PROVE FilmInv'
<1> DEFINE o   == carrying[c]
           row == IF o.film \in list THEN o.film ELSE NoFilm
<1>1. UNCHANGED <<offer, current, presented, picks, offered, started, meddled>>
  BY DEF CarryOut
<1>2. o \in offered /\ o \in Offers
  BY DEF FilmInv, Named, CarryOut
<1>3. carrying' \in [Carriers -> Named]
  BY DEF CarryOut, FilmInv, Named
<1>4. CASE UNCHANGED main
  BY <1>1, <1>3, <1>4 DEF FilmInv, Named, OpNamed, PickNamed
<1>5. ASSUME NEW file \in FileFor(o.film, o.file),
             OnMain([op |-> "adopt", film |-> row, file |-> file])
      PROVE  FilmInv'
  <2> DEFINE op == [op |-> "adopt", film |-> row, file |-> file]
  <2>1. file = o.file
    BY DEF FileFor
  <2>2. op \in Ops
    BY <1>2, <2>1 DEF Offers, Ops
  <2>3. [film |-> o.film, file |-> o.file] = o
    BY <1>2 DEF Offers
  <2>4. OpNamed(op, offered')
    BY <1>1, <1>2, <2>1, <2>3 DEF OpNamed
  <2>5. OnMain(op)
    BY <1>5
  <2> HIDE DEF op
  <2>6. main' \in Seq(Ops) /\ \A i \in 1..Len(main') : OpNamed(main'[i], offered')
    BY <1>1, <2>2, <2>4, <2>5, QueueGrows
  <2> QED BY <1>1, <1>3, <2>6 DEF FilmInv, Named, PickNamed
<1> QED BY <1>4, <1>5 DEF CarryOut

LEMMA MainThreadKeeps == ASSUME FilmInv, MainThread PROVE FilmInv'
<1>1. /\ UNCHANGED <<offer, picks, carrying, offered, started, meddled>>
      /\ main # <<>> /\ main' = Tail(main) /\ main \in Seq(Ops)
  BY DEF MainThread, FilmInv
<1>2. /\ main' \in Seq(Ops) /\ Len(main') = Len(main) - 1 /\ Len(main) \in Nat \ {0}
      /\ \A i \in 1..Len(main') : main'[i] = main[i + 1]
      /\ Head(main) = main[1] /\ Head(main) \in Ops
  BY <1>1, TailIs
<1>3. ASSUME NEW i \in 1..Len(main') PROVE OpNamed(main'[i], offered')
  <2>1. i + 1 \in 1..Len(main) /\ main'[i] = main[i + 1]
    BY <1>2
  <2> QED BY <1>1, <2>1 DEF FilmInv, OpNamed
<1>4. CASE Head(main).op = "text"
  BY <1>1, <1>2, <1>3, <1>4 DEF MainThread, FilmInv, Named, PickNamed
<1>5. CASE Head(main).op # "text"
  <2>1. /\ current' = Head(main).film
        /\ presented' = [film |-> Head(main).film, file |-> Head(main).file]
    BY <1>5 DEF MainThread
  <2>2. Head(main) \in Ops /\ OpNamed(Head(main), offered)
    <3>1. 1 \in 1..Len(main)
      BY <1>2
    <3> QED BY <1>2, <3>1 DEF FilmInv
  <2>3. presented' \in offered \cup Nameless
    BY <1>5, <2>1, <2>2 DEF OpNamed, Ops, Nameless
  <2>4. presented'.film = Head(main).film
    BY <2>1
  <2> QED BY <1>1, <1>2, <1>3, <2>1, <2>3, <2>4 DEF FilmInv, Named, PickNamed
<1> QED BY <1>4, <1>5

\* A pick of the room is of a torrent that is shown, and then of the named one.
LEMMA PlayAdoptedKeeps == ASSUME FilmInv, PlayAdopted PROVE FilmInv'
<1>1. /\ UNCHANGED <<offer, current, main, carrying, offered, started, meddled>>
      /\ presented # NoOffer /\ presented' = NoOffer
      /\ picks' = picks \cup Picked(presented.file, "room")
  BY DEF PlayAdopted
<1>2. presented' \in offered \cup Nameless
  BY <1>1 DEF NoOffer, Nameless
<1>3. ASSUME ~meddled, NEW pick \in Picked(presented.file, "room")
      PROVE  PickNamed(pick, offered)
  <2>1. pick = [film |-> current, file |-> presented.file, by |-> "room"] /\ current # NoFilm
    BY <1>3 DEF Picked
  <2>2. current = presented.film
    BY <1>1, <1>3 DEF FilmInv
  <2>3. presented \in offered /\ presented \in Offers
    BY <2>1, <2>2 DEF FilmInv, Nameless
  <2>4. [film |-> presented.film, file |-> presented.file] = presented
    BY <2>3 DEF Offers
  <2> QED BY <2>1, <2>2, <2>3, <2>4 DEF PickNamed
<1>4. meddled \/ \A pick \in picks' : PickNamed(pick, offered)
  BY <1>1, <1>3 DEF FilmInv
<1> QED BY <1>1, <1>2, <1>4 DEF FilmInv, Named, OpNamed

\* What the person picks is not the room's.
LEMMA ClickFileKeeps == ASSUME FilmInv, NEW file \in Files, ClickFile(file) PROVE FilmInv'
<1>1. /\ UNCHANGED <<offer, current, main, presented, carrying, offered, started, meddled>>
      /\ picks' = picks \cup Picked(file, "person")
  BY DEF ClickFile
<1>2. \A pick \in Picked(file, "person") : PickNamed(pick, offered)
  BY DEF Picked, PickNamed
<1>3. meddled \/ \A pick \in picks' : PickNamed(pick, offered)
  BY <1>1, <1>2 DEF FilmInv
<1> QED BY <1>1, <1>3 DEF FilmInv, Named, OpNamed

LEMMA PlayFileKeeps == ASSUME FilmInv, NEW pick, PlayFile(pick) PROVE FilmInv'
<1>1. /\ UNCHANGED <<offer, current, main, presented, carrying, offered, meddled>>
      /\ pick \in picks /\ picks' \subseteq picks
  BY DEF PlayFile
<1>2. \/ started' = started
      \/ /\ pick.by = "room"
         /\ started' = started \cup {[film |-> pick.film, file |-> pick.file]}
  BY DEF PlayFile, Plays, PlayFails
<1>3. meddled \/ started' \subseteq offered
  BY <1>1, <1>2 DEF FilmInv, PickNamed
<1>4. meddled \/ \A other \in picks' : PickNamed(other, offered)
  BY <1>1 DEF FilmInv
<1> QED BY <1>1, <1>3, <1>4 DEF FilmInv, Named, OpNamed

LEMMA OpenTorrentKeeps == ASSUME FilmInv, NEW film, OpenTorrent(film) PROVE FilmInv'
BY DEF OpenTorrent, FilmInv, Named, OpNamed, PickNamed

\* Additions and the creation of a room leave the adoption alone.
LEMMA OthersKeep ==
    ASSUME FilmInv, AddTorrent \/ CreatePressed \/ RoomMagnet \/ CreateRoom \/ Announce
    PROVE  FilmInv'
<1>1. UNCHANGED adoptionVars
  BY DEF AddTorrent, CreatePressed, RoomMagnet, CreateRoom, Announce, adoptionVars
<1> QED BY <1>1, AdoptionStands

LEMMA NextFilm == ASSUME FilmInv, [Next]_vars PROVE FilmInv'
<1>1. CASE UNCHANGED vars
  BY <1>1, AdoptionStands DEF vars, filmVars, adoptionVars
<1>2. CASE Play
  BY <1>2, PlayLeavesFilm, AdoptionStands
<1>3. CASE Film
  <2>1. ASSUME NEW named \in Announced, HearMagnet(named.film, named.file) PROVE FilmInv'
    <3>1. named \in Offers
      BY WindowAssumption
    <3>2. named.film \in Films /\ named.file \in Files \cup {Unchosen}
      BY <3>1 DEF Offers
    <3> QED BY <2>1, <3>2, HearMagnetKeeps
  <2> QED BY <1>3, <2>1, TorrentAddedKeeps, OpenTorrentKeeps, CarryOutKeeps, RefreshKeeps,
          MainThreadKeeps, PlayAdoptedKeeps, ClickFileKeeps, PlayFileKeeps, OthersKeep DEF Film
<1> QED BY <1>1, <1>2, <1>3 DEF Next

\* What adoption plays is a pair the room named as one, for any torrents,
\* files and number of offers carried out at a time, unless somebody opens
\* another torrent between its halves (adoptRoomTorrent, CarryOut, playFile).
THEOREM PlaysWhatWasNamed == Spec => []AdoptedAsNamed
<1>1. FilmInv /\ [Next]_vars => FilmInv'
  BY NextFilm
<1>2. FilmInv => AdoptedAsNamed
  BY DEF FilmInv, AdoptedAsNamed
<1> QED BY <1>1, <1>2, InitFilm, PTL DEF Spec

-----------------------------------------------------------------------------
(* The stop of the room.                                                   *)

Stages    == {"idle", "start", "compare", "store", "ask", "disown", "pause", "resume"}
Decisions == [at: Stages, stopped: BOOLEAN, owned: BOOLEAN, stall: BOOLEAN,
              alone: BOOLEAN, live: BOOLEAN]
Rooms     == [in: BOOLEAN, joining: {"no", "guest", "host"},
              host: Peers \cup {Self, Nobody}, paused: SUBSET BOOLEAN]

Ticks     == [at: {"rest", "lead"}, seen: SUBSET BOOLEAN, live: BOOLEAN,
              lastPaused: SUBSET BOOLEAN, lastStalled: SUBSET BOOLEAN, beat: Nat]

Players   == [is: {"none", "up", "gone"}, paused: BOOLEAN, stalled: BOOLEAN]

StopTypeOK ==
    /\ room \in Rooms
    /\ roster \in [Peers -> {"absent", "fine", "behind"}]
    /\ stop \in [stopped: BOOLEAN, owned: BOOLEAN, stalled: BOOLEAN]
    /\ mpv \in Players
    /\ decision \in [Deciders -> Decisions]
    /\ tick \in Ticks
    /\ settled \in BOOLEAN

\* A decision that has not lost its room decides in it.
InItsRoom(d) == decision[d].at # "idle" /\ decision[d].live => room.in

\* What an undisturbed decision read is still so; only the tick can have seen
\* another stall, and then its own decision comes after.
ReadStillHolds(d) ==
    Open(d) /\ decision[d].alone =>
        /\ \A e \in Deciders : Open(e) => e = d
        /\ decision[d].stopped = stop.stopped
        /\ decision[d].live => \/ decision[d].stall = stop.stalled
                               \/ decision["tick"].at = "start"

\* As long as the last outcome counts, nothing was stored since a decision read.
NothingStoredSince(d) ==
    Open(d) /\ settled => decision[d].live /\ decision[d].stopped = stop.stopped

\* What is about to be stored is right, unless a report has come in the middle
\* of the tick's decision: the pump decides next.
StoresTheRight(d) ==
    decision[d].at = "store" /\ decision[d].alone /\ decision[d].live =>
        /\ Hosting
        /\ \/ ~decision[d].stopped <=> (AnyoneBuffering \/ decision[d].stall)
           \/ d = "tick" /\ decision["pump"].at = "start"

DecisionOK(d) ==
    InItsRoom(d) /\ ReadStillHolds(d) /\ NothingStoredSince(d) /\ StoresTheRight(d)

\* A decision that will see what its room and its player are like now.
OnTheWay(d) ==
    \/ decision[d].at \in {"start", "store"}
    \/ decision[d].at = "compare" /\ decision[d].stall = stop.stalled

StopRight == stop.stopped <=> (AnyoneBuffering \/ stop.stalled)

RightOrOnTheWay == settled /\ Hosting => StopRight \/ \E d \in Deciders : OnTheWay(d)

StopInv ==
    /\ StopTypeOK
    /\ room.in => room.joining = "no"
    /\ settled => room.in
    /\ tick.at = "rest" => decision["tick"].at = "idle"
    /\ Open("tick") => decision["tick"].stall = stop.stalled
    /\ \A d \in Deciders : DecisionOK(d)
    /\ RightOrOnTheWay

LEMMA PlayersAre == NoPlayer \in Players /\ Playing \in Players /\ Gone \in Players
<1>1. NoPlayer \in Players
  BY DEF NoPlayer, Players
<1>2. [NoPlayer EXCEPT !.is = "up"] \in Players /\ [NoPlayer EXCEPT !.is = "gone"] \in Players
  BY <1>1 DEF Players
<1> QED BY <1>1, <1>2 DEF Playing, Gone

LEMMA InitStop == Init => StopInv
<1> SUFFICES ASSUME Init PROVE StopInv
  OBVIOUS
<1> PICK plan \in Plans :
           /\ room = Entered(plan.host)
           /\ mpv = IF plan.playing THEN Playing ELSE NoPlayer
  BY DEF Init
<1>1. /\ roster = [p \in Peers |-> "fine"] /\ stop = NoStop
      /\ decision = [d \in Deciders |-> NoDecision] /\ tick = NewTick /\ settled = TRUE
  BY DEF Init
<1>2. StopTypeOK
  <2>1. plan.host \in Peers \cup {Self} /\ plan.playing \in BOOLEAN
    BY WindowAssumption
  <2>2. room \in Rooms /\ room.joining = "no"
    BY <2>1 DEF Entered, Rooms
  <2>3. NoDecision \in Decisions
    BY DEF NoDecision, Decisions, Stages
  <2>4. tick \in Ticks
    BY <1>1 DEF NewTick, Ticks
  <2>5. mpv \in Players
    BY PlayersAre
  <2> QED BY <1>1, <2>2, <2>3, <2>4, <2>5 DEF StopTypeOK, NoStop
<1>3. \A d \in Deciders : decision[d].at = "idle"
  BY <1>1 DEF NoDecision
<1>4. "tick" \in Deciders
  BY DEF Deciders
<1>5. StopRight
  BY <1>1 DEF StopRight, AnyoneBuffering, NoStop
<1> QED BY <1>1, <1>2, <1>3, <1>4, <1>5
        DEF StopInv, DecisionOK, InItsRoom, ReadStillHolds, NothingStoredSince, StoresTheRight,
            Open, RightOrOnTheWay, Entered

\* Steps that touch neither the facts nor the decisions.
LEMMA StopStands ==
    ASSUME StopInv, UNCHANGED <<room, roster, stop, decision, settled>>,
           mpv' \in Players,
           tick' = tick
    PROVE  StopInv'
BY DEF StopInv, StopTypeOK, DecisionOK, InItsRoom, ReadStillHolds, NothingStoredSince,
       StoresTheRight, Open, RightOrOnTheWay, OnTheWay, StopRight, Hosting, AnyoneBuffering

LEMMA CommandIs ==
    ASSUME StopInv, NEW paused \in BOOLEAN, Command(paused)
    PROVE  mpv' \in Players
BY DEF Command, Players, StopInv, StopTypeOK

\* How a decision moves on, ends, and is told that it was disturbed.
LEMMA ToIs ==
    ASSUME StopInv, NEW d \in Deciders, NEW at \in Stages, To(d, at)
    PROVE  /\ decision' \in [Deciders -> Decisions]
           /\ decision'[d].at = at
           /\ decision'[d].stopped = decision[d].stopped /\ decision'[d].stall = decision[d].stall
           /\ decision'[d].alone = decision[d].alone /\ decision'[d].live = decision[d].live
           /\ \A e \in Deciders : e # d => decision'[e] = decision[e]
BY DEF To, StopInv, StopTypeOK, Decisions

LEMMA DoneIs ==
    ASSUME StopInv, NEW d \in Deciders, Done(d)
    PROVE  /\ decision' \in [Deciders -> Decisions]
           /\ decision'[d].at = "idle"
           /\ \A e \in Deciders : e # d => decision'[e] = decision[e]
<1>1. NoDecision \in Decisions /\ NoDecision.at = "idle"
  BY DEF NoDecision, Decisions, Stages
<1> QED BY <1>1 DEF Done, StopInv, StopTypeOK

LEMMA DisturbedIs ==
    ASSUME StopInv, Disturbed
    PROVE  /\ decision' \in [Deciders -> Decisions] /\ settled' = FALSE
           /\ \A d \in Deciders : /\ decision'[d].at = decision[d].at /\ ~decision'[d].alone
                                  /\ decision'[d].stall = decision[d].stall
                                  /\ decision'[d].live = decision[d].live
<1>1. decision' = [d \in Deciders |-> [decision[d] EXCEPT !.alone = FALSE]] /\ settled' = FALSE
  BY DEF Disturbed
<1>2. ASSUME NEW d \in Deciders
      PROVE  /\ [decision[d] EXCEPT !.alone = FALSE] \in Decisions
             /\ decision'[d] = [decision[d] EXCEPT !.alone = FALSE]
             /\ decision[d] \in Decisions
  BY <1>1 DEF StopInv, StopTypeOK, Decisions
<1>3. decision' \in [Deciders -> Decisions]
  BY <1>1, <1>2
<1>4. ASSUME NEW d \in Deciders
      PROVE  /\ decision'[d].at = decision[d].at /\ ~decision'[d].alone
             /\ decision'[d].stall = decision[d].stall
             /\ decision'[d].live = decision[d].live
  BY <1>2 DEF Decisions
<1> QED BY <1>1, <1>3, <1>4

LEMMA TwoDeciders == "pump" \in Deciders /\ "tick" \in Deciders /\ "pump" # "tick"
BY DEF Deciders

-----------------------------------------------------------------------------
(* The decision's own steps.                                               *)

LEMMA ReadStopKeeps == ASSUME StopInv, NEW d \in Deciders, ReadStop(d) PROVE StopInv'
<1>1. /\ decision[d].at = "start" /\ UNCHANGED <<room, roster, stop, mpv, tick, settled>>
  BY DEF ReadStop
<1>2. CASE room.in
  <2> DEFINE read == [at |-> "compare", stopped |-> stop.stopped, owned |-> stop.owned,
                      stall |-> stop.stalled, live |-> TRUE,
                      alone |-> ~\E e \in Deciders : Open(e)]
  <2>1. decision' = [e \in Deciders |->
                       IF e = d THEN read ELSE [decision[e] EXCEPT !.alone = FALSE]]
    BY <1>2 DEF ReadStop
  <2>2. /\ read \in Decisions /\ read.at = "compare" /\ read.stopped = stop.stopped
        /\ read.stall = stop.stalled /\ read.live
        /\ read.alone <=> ~\E e \in Deciders : Open(e)
    BY DEF StopInv, StopTypeOK, Decisions, Stages
  <2> HIDE DEF read
  <2>3. /\ decision' \in [Deciders -> Decisions] /\ decision'[d] = read
        /\ \A e \in Deciders : e # d =>
              /\ decision'[e].at = decision[e].at /\ ~decision'[e].alone
              /\ decision'[e].stopped = decision[e].stopped
              /\ decision'[e].stall = decision[e].stall /\ decision'[e].live = decision[e].live
    BY <2>1, <2>2 DEF StopInv, StopTypeOK, Decisions
  <2>4. StopTypeOK'
    BY <1>1, <2>3 DEF StopInv, StopTypeOK
  <2>5. ASSUME NEW e \in Deciders PROVE DecisionOK(e)'
    <3>1. CASE e = d
      BY <1>1, <1>2, <2>2, <2>3, <3>1
         DEF DecisionOK, InItsRoom, ReadStillHolds, NothingStoredSince, StoresTheRight, Open
    <3>2. CASE e # d
      <4>1. DecisionOK(e)
        BY DEF StopInv
      <4> QED BY <1>1, <1>2, <2>3, <3>2, <4>1
              DEF DecisionOK, InItsRoom, ReadStillHolds, NothingStoredSince, StoresTheRight, Open
    <3> QED BY <3>1, <3>2
  <2>6. OnTheWay(d)'
    BY <1>1, <2>2, <2>3 DEF OnTheWay
  <2>7. tick'.at = "rest" => decision'["tick"].at = "idle"
    BY <1>1, <2>3, TwoDeciders DEF StopInv
  <2>8. Open("tick")' => decision'["tick"].stall = stop'.stalled
    BY <1>1, <2>2, <2>3, TwoDeciders DEF StopInv, Open
  <2> QED BY <1>1, <2>4, <2>5, <2>6, <2>7, <2>8 DEF StopInv, RightOrOnTheWay
<1>3. CASE ~room.in
  <2>1. /\ decision' \in [Deciders -> Decisions]
        /\ decision'[d].at = "idle"
        /\ \A e \in Deciders : e # d => decision'[e] = decision[e]
    BY <1>3, DoneIs DEF ReadStop
  <2>2. ASSUME NEW e \in Deciders PROVE DecisionOK(e)'
    <3>1. DecisionOK(e)
      BY DEF StopInv
    <3>2. CASE e = d
      BY <2>1, <3>2
         DEF DecisionOK, InItsRoom, ReadStillHolds, NothingStoredSince, StoresTheRight, Open
    <3>3. CASE e # d
      BY <1>1, <1>3, <2>1, <3>1, <3>3, TwoDeciders
         DEF DecisionOK, InItsRoom, ReadStillHolds, NothingStoredSince, StoresTheRight, Open
    <3> QED BY <3>2, <3>3
  <2> QED BY <1>1, <1>3, <2>1, <2>2, TwoDeciders
          DEF StopInv, StopTypeOK, RightOrOnTheWay, Hosting, Open
<1> QED BY <1>2, <1>3

LEMMA CompareStopKeeps == ASSUME StopInv, NEW d \in Deciders, CompareStop(d) PROVE StopInv'
<1>1. /\ decision[d].at = "compare" /\ UNCHANGED <<room, roster, stop, mpv, tick>>
  BY DEF CompareStop
<1>2. Open(d)
  BY <1>1 DEF Open
<1> PICK hosting \in BOOLEAN, waiting \in BOOLEAN :
          /\ decision[d].live => hosting = Hosting /\ waiting = Waiting(d)
          /\ IF hosting /\ waiting # decision[d].stopped
             THEN To(d, "store") /\ UNCHANGED settled
             ELSE /\ Done(d)
                  /\ settled' = IF hosting /\ decision[d].alone /\ decision[d].live
                                THEN TRUE ELSE settled
  BY DEF CompareStop
<1>3. decision[d].live => (hosting <=> Hosting) /\ (waiting <=> AnyoneBuffering \/ decision[d].stall)
  BY DEF Waiting
<1>4. DecisionOK(d) /\ decision[d] \in Decisions
  BY DEF StopInv, StopTypeOK
<1>5. CASE hosting /\ waiting # decision[d].stopped
  <2>1. To(d, "store") /\ settled' = settled /\ "store" \in Stages
    BY <1>5 DEF Stages
  <2>2. /\ decision' \in [Deciders -> Decisions] /\ decision'[d].at = "store"
        /\ decision'[d].stopped = decision[d].stopped /\ decision'[d].stall = decision[d].stall
        /\ decision'[d].alone = decision[d].alone /\ decision'[d].live = decision[d].live
        /\ \A e \in Deciders : e # d => decision'[e] = decision[e]
    BY <2>1, ToIs
  <2>3. decision[d].live => Hosting /\ (~decision[d].stopped <=> AnyoneBuffering \/ decision[d].stall)
    BY <1>3, <1>4, <1>5 DEF Decisions
  <2>4. ASSUME NEW e \in Deciders PROVE DecisionOK(e)'
    <3>1. DecisionOK(e)
      BY DEF StopInv
    <3>2. CASE e = d
      <4>1. InItsRoom(e)' /\ NothingStoredSince(e)' /\ ReadStillHolds(e)'
        BY <1>1, <1>2, <2>1, <2>2, <3>1, <3>2, TwoDeciders
           DEF DecisionOK, InItsRoom, ReadStillHolds, NothingStoredSince, Open
      <4>2. StoresTheRight(e)'
        BY <1>1, <2>2, <2>3, <3>2 DEF StoresTheRight, Hosting, AnyoneBuffering
      <4> QED BY <4>1, <4>2 DEF DecisionOK
    <3>3. CASE e # d
      BY <1>1, <1>2, <2>1, <2>2, <3>1, <3>3, TwoDeciders
         DEF DecisionOK, InItsRoom, ReadStillHolds, NothingStoredSince, StoresTheRight, Open,
             Hosting, AnyoneBuffering
    <3> QED BY <3>2, <3>3
  <2>5. OnTheWay(d)'
    BY <2>2 DEF OnTheWay
  <2> QED BY <1>1, <1>2, <2>1, <2>2, <2>4, <2>5, TwoDeciders
          DEF StopInv, StopTypeOK, RightOrOnTheWay, Open
<1>6. CASE ~(hosting /\ waiting # decision[d].stopped)
  <2>1. /\ Done(d)
        /\ settled' = IF hosting /\ decision[d].alone /\ decision[d].live THEN TRUE ELSE settled
    BY <1>6
  <2>2. /\ decision' \in [Deciders -> Decisions] /\ decision'[d].at = "idle"
        /\ \A e \in Deciders : e # d => decision'[e] = decision[e]
    BY <2>1, DoneIs
  <2>3. settled' \in BOOLEAN /\ (settled' => settled \/ (decision[d].alone /\ decision[d].live))
    BY <2>1 DEF StopInv, StopTypeOK
  <2>4. ASSUME NEW e \in Deciders PROVE DecisionOK(e)'
    <3>1. DecisionOK(e)
      BY DEF StopInv
    <3>2. CASE e = d
      BY <2>2, <3>2
         DEF DecisionOK, InItsRoom, ReadStillHolds, NothingStoredSince, StoresTheRight, Open
    <3>3. CASE e # d
      <4>1. NothingStoredSince(e)'
        BY <1>1, <1>2, <1>4, <2>2, <2>3, <3>1, <3>3
           DEF DecisionOK, NothingStoredSince, ReadStillHolds, Open
      <4>2. InItsRoom(e)' /\ ReadStillHolds(e)' /\ StoresTheRight(e)'
        BY <1>1, <2>2, <3>1, <3>3, TwoDeciders
           DEF DecisionOK, InItsRoom, ReadStillHolds, StoresTheRight, Open,
               Hosting, AnyoneBuffering
      <4> QED BY <4>1, <4>2 DEF DecisionOK
    <3> QED BY <3>2, <3>3
  <2>5. RightOrOnTheWay'
    <3> SUFFICES ASSUME settled', Hosting' PROVE StopRight' \/ \E e \in Deciders : OnTheWay(e)'
      BY DEF RightOrOnTheWay
    <3>1. /\ Hosting /\ decision[d].live /\ decision[d].stopped = stop.stopped
          /\ settled \/ decision[d].alone
      BY <1>1, <1>2, <1>4, <2>3 DEF Hosting, DecisionOK, NothingStoredSince, ReadStillHolds
    <3>2. decision[d].stopped <=> (AnyoneBuffering \/ decision[d].stall)
      BY <1>3, <1>4, <1>6, <3>1 DEF Decisions
    <3>3. CASE decision[d].stall = stop.stalled
      BY <1>1, <3>1, <3>2, <3>3 DEF StopRight, AnyoneBuffering
    <3>4. CASE decision[d].stall # stop.stalled
      <4>1. ASSUME NEW e \in Deciders, OnTheWay(e) PROVE OnTheWay(e)'
        BY <1>1, <2>2, <3>4, <4>1 DEF OnTheWay
      <4>2. CASE settled
        BY <1>1, <3>1, <4>1, <4>2
           DEF StopInv, RightOrOnTheWay, StopRight, AnyoneBuffering
      <4>3. CASE ~settled
        <5>1. OnTheWay("tick")
          BY <1>2, <1>4, <3>1, <3>4, <4>3 DEF DecisionOK, ReadStillHolds, OnTheWay
        <5> QED BY <4>1, <5>1, TwoDeciders
      <4> QED BY <4>2, <4>3
    <3> QED BY <3>3, <3>4
  <2>6. settled' => room'.in
    BY <1>1, <1>4, <2>3 DEF DecisionOK, InItsRoom, StopInv
  <2> QED BY <1>1, <2>2, <2>3, <2>4, <2>5, <2>6, TwoDeciders DEF StopInv, StopTypeOK, Open
<1> QED BY <1>5, <1>6

LEMMA StoreStopKeeps == ASSUME StopInv, NEW d \in Deciders, StoreStop(d) PROVE StopInv'
<1>1. /\ decision[d].at = "store" /\ UNCHANGED <<room, roster, mpv, tick>>
      /\ stop' = [stop EXCEPT !.stopped = ~decision[d].stopped]
      /\ settled' = (decision[d].alone /\ decision[d].live)
      /\ Open(d)
  BY DEF StoreStop, Open
<1>2. PICK at \in {"ask", "disown", "idle"} :
        /\ decision' \in [Deciders -> Decisions] /\ decision'[d].at = at
        /\ \A e \in Deciders : e # d => decision'[e] = decision[e]
        /\ decision'[d].live => decision[d].live \/ at = "idle"
  <2>1. CASE ~decision[d].stopped
    <3>1. To(d, "ask") /\ "ask" \in Stages
      BY <2>1 DEF StoreStop, Stages
    <3> QED BY <3>1, ToIs
  <2>2. CASE decision[d].stopped /\ decision[d].owned
    <3>1. To(d, "disown") /\ "disown" \in Stages
      BY <2>2 DEF StoreStop, Stages
    <3> QED BY <3>1, ToIs
  <2>3. CASE decision[d].stopped /\ ~decision[d].owned
    <3>1. Done(d)
      BY <2>3 DEF StoreStop
    <3> QED BY <3>1, DoneIs
  <2> QED BY <2>1, <2>2, <2>3
<1>3. DecisionOK(d) /\ decision[d] \in Decisions
  BY DEF StopInv, StopTypeOK
<1>4. /\ stop' \in [stopped: BOOLEAN, owned: BOOLEAN, stalled: BOOLEAN]
      /\ stop'.stalled = stop.stalled /\ stop'.stopped = ~decision[d].stopped
  BY <1>1, <1>3 DEF StopInv, StopTypeOK, Decisions
<1>5. StopTypeOK'
  BY <1>1, <1>2, <1>3, <1>4 DEF StopInv, StopTypeOK, Decisions
<1>6. ASSUME NEW e \in Deciders PROVE DecisionOK(e)'
  <2>1. DecisionOK(e)
    BY DEF StopInv
  <2>2. CASE e = d
    BY <1>1, <1>2, <1>3, <2>2
       DEF DecisionOK, InItsRoom, ReadStillHolds, NothingStoredSince, StoresTheRight, Open
  <2>3. CASE e # d
    \* It is not alone, and the one that stores is not either.
    <3>1. Open(e) => ~decision[d].alone /\ ~decision[e].alone
      BY <1>1, <1>3, <2>1, <2>3 DEF DecisionOK, ReadStillHolds
    <3>2. decision'[e] = decision[e]
      BY <1>2, <2>3
    <3> QED BY <1>1, <2>1, <3>1, <3>2
            DEF DecisionOK, InItsRoom, ReadStillHolds, NothingStoredSince, StoresTheRight, Open
  <2> QED BY <2>2, <2>3
<1>7. RightOrOnTheWay'
  <2> SUFFICES ASSUME settled', Hosting'
               PROVE  StopRight' \/ \E e \in Deciders : OnTheWay(e)'
    BY DEF RightOrOnTheWay
  <2>1. decision[d].alone /\ decision[d].live
    BY <1>1
  <2>2. /\ \/ decision[d].stall = stop.stalled
           \/ d # "tick" /\ decision["tick"].at = "start"
        /\ \/ ~decision[d].stopped <=> (AnyoneBuffering \/ decision[d].stall)
           \/ d # "pump" /\ decision["pump"].at = "start"
    BY <1>1, <1>3, <2>1, TwoDeciders DEF DecisionOK, ReadStillHolds, StoresTheRight
  <2>3. CASE d # "tick" /\ decision["tick"].at = "start"
    BY <1>2, <2>3, TwoDeciders DEF OnTheWay
  <2>4. CASE d # "pump" /\ decision["pump"].at = "start"
    BY <1>2, <2>4, TwoDeciders DEF OnTheWay
  <2>5. CASE /\ decision[d].stall = stop.stalled
             /\ ~decision[d].stopped <=> (AnyoneBuffering \/ decision[d].stall)
    BY <1>1, <1>4, <2>5 DEF StopRight, AnyoneBuffering
  <2> QED BY <2>2, <2>3, <2>4, <2>5
<1>8. tick'.at = "rest" => decision'["tick"].at = "idle"
  BY <1>1, <1>2, TwoDeciders DEF StopInv
<1>9. Open("tick")' => decision'["tick"].stall = stop'.stalled
  BY <1>1, <1>2, <1>4, TwoDeciders DEF StopInv, Open
<1>10. settled' => room'.in
  BY <1>1, <1>3 DEF DecisionOK, InItsRoom
<1> QED BY <1>1, <1>5, <1>6, <1>7, <1>8, <1>9, <1>10 DEF StopInv

\* After the store a decision only commands the player: nothing counts it any
\* more.
LEMMA AfterwardsKeeps ==
    ASSUME StopInv, NEW d \in Deciders,
           decision[d].at \in {"ask", "disown", "pause", "resume"},
           UNCHANGED <<room, roster, tick, settled>>,
           mpv' \in Players,
           stop' \in [stopped: BOOLEAN, owned: BOOLEAN, stalled: BOOLEAN],
           stop'.stopped = stop.stopped, stop'.stalled = stop.stalled,
           Done(d) \/ \E at \in {"pause", "resume"} : To(d, at)
    PROVE  StopInv'
<1>1. /\ decision' \in [Deciders -> Decisions]
      /\ decision'[d].at \in {"idle", "pause", "resume"}
      /\ \A e \in Deciders : e # d => decision'[e] = decision[e]
      /\ decision'[d].at # "idle" => (decision'[d].live <=> decision[d].live)
  <2>1. CASE Done(d)
    BY <2>1, DoneIs
  <2>2. ASSUME NEW at \in {"pause", "resume"}, To(d, at)
        PROVE  <1>1!:
    <3>1. at \in Stages
      BY DEF Stages
    <3> QED BY <2>2, <3>1, ToIs
  <2> QED BY <2>1, <2>2
<1>2. ASSUME NEW e \in Deciders PROVE DecisionOK(e)'
  <2>1. DecisionOK(e)
    BY DEF StopInv
  <2>2. CASE e = d
    BY <1>1, <2>1, <2>2
       DEF DecisionOK, InItsRoom, ReadStillHolds, NothingStoredSince, StoresTheRight, Open
  <2>3. CASE e # d
    BY <1>1, <2>1, <2>3, TwoDeciders
       DEF DecisionOK, InItsRoom, ReadStillHolds, NothingStoredSince, StoresTheRight, Open,
           Hosting, AnyoneBuffering
  <2> QED BY <2>2, <2>3
<1>3. ASSUME NEW e \in Deciders, OnTheWay(e) PROVE OnTheWay(e)'
  BY <1>1, <1>3 DEF OnTheWay
<1>4. RightOrOnTheWay'
  BY <1>3 DEF StopInv, RightOrOnTheWay, StopRight, Hosting, AnyoneBuffering
<1> QED BY <1>1, <1>2, <1>4, TwoDeciders DEF StopInv, StopTypeOK, Open

LEMMA OwnershipIs ==
    ASSUME StopInv, NEW owned \in BOOLEAN, stop' = stop \/ stop' = [stop EXCEPT !.owned = owned]
    PROVE  /\ stop' \in [stopped: BOOLEAN, owned: BOOLEAN, stalled: BOOLEAN]
           /\ stop'.stopped = stop.stopped /\ stop'.stalled = stop.stalled
<1>1. stop \in [stopped: BOOLEAN, owned: BOOLEAN, stalled: BOOLEAN]
  BY DEF StopInv, StopTypeOK
<1> QED BY <1>1

LEMMA SyncKeeps == ASSUME StopInv, NEW d \in Deciders, SyncTheRoomStop(d) PROVE StopInv'
<1>1. CASE PauseTheRoom(d)
  <2>1. UNCHANGED <<room, roster, mpv, tick, settled>> /\ decision[d].at = "ask"
    BY <1>1 DEF PauseTheRoom
  <2>2. /\ \E owned \in BOOLEAN : stop' = stop \/ stop' = [stop EXCEPT !.owned = owned]
        /\ Done(d) \/ To(d, "pause")
    BY <1>1 DEF PauseTheRoom, StopInv, StopTypeOK
  <2>3. /\ stop' \in [stopped: BOOLEAN, owned: BOOLEAN, stalled: BOOLEAN]
        /\ stop'.stopped = stop.stopped /\ stop'.stalled = stop.stalled
    BY <2>2, OwnershipIs
  <2>4. mpv' \in Players
    BY <2>1 DEF StopInv, StopTypeOK
  <2> QED BY <2>1, <2>2, <2>3, <2>4, AfterwardsKeeps
<1>2. CASE ResumeTheRoom(d)
  <2>1. UNCHANGED <<room, roster, mpv, tick, settled>> /\ decision[d].at = "disown"
    BY <1>2 DEF ResumeTheRoom
  <2>2. /\ \E owned \in BOOLEAN : stop' = stop \/ stop' = [stop EXCEPT !.owned = owned]
        /\ Done(d) \/ To(d, "resume")
    BY <1>2 DEF ResumeTheRoom
  <2>3. /\ stop' \in [stopped: BOOLEAN, owned: BOOLEAN, stalled: BOOLEAN]
        /\ stop'.stopped = stop.stopped /\ stop'.stalled = stop.stalled
    BY <2>2, OwnershipIs
  <2>4. mpv' \in Players
    BY <2>1 DEF StopInv, StopTypeOK
  <2> QED BY <2>1, <2>2, <2>3, <2>4, AfterwardsKeeps
<1>3. CASE CommandOfStop(d)
  <2>1. /\ UNCHANGED <<room, roster, stop, tick, settled>> /\ Done(d)
        /\ decision[d].at \in {"pause", "resume"} /\ Command(decision[d].at = "pause")
    BY <1>3 DEF CommandOfStop
  <2>2. mpv' \in Players
    BY <2>1, CommandIs
  <2>3. stop \in [stopped: BOOLEAN, owned: BOOLEAN, stalled: BOOLEAN]
    BY DEF StopInv, StopTypeOK
  <2> QED BY <2>1, <2>2, <2>3, AfterwardsKeeps
<1> QED BY <1>1, <1>2, <1>3, ReadStopKeeps, CompareStopKeeps, StoreStopKeeps DEF SyncTheRoomStop

-----------------------------------------------------------------------------
(* What the pump hears, the tick, the player and the rooms.                *)

LEMMA HearReportKeeps ==
    ASSUME StopInv, NEW p \in Peers, NEW behind \in BOOLEAN, HearReport(p, behind)
    PROVE  StopInv'
<1>1. /\ UNCHANGED <<room, stop, mpv, tick, settled>> /\ room.in
      /\ decision["pump"].at = "idle" /\ To("pump", "start") /\ "start" \in Stages
  BY DEF HearReport, PumpIsFree, Stages
<1>2. roster' \in [Peers -> {"absent", "fine", "behind"}]
  BY DEF HearReport, StopInv, StopTypeOK
<1>3. /\ decision' \in [Deciders -> Decisions] /\ decision'["pump"].at = "start"
      /\ decision'["tick"] = decision["tick"]
      /\ \A e \in Deciders : e # "pump" => decision'[e] = decision[e]
  BY <1>1, ToIs, TwoDeciders
<1>4. ASSUME NEW e \in Deciders PROVE DecisionOK(e)'
  <2>1. DecisionOK(e)
    BY DEF StopInv
  <2>2. CASE e = "pump"
    BY <1>1, <1>3, <2>2
       DEF DecisionOK, InItsRoom, ReadStillHolds, NothingStoredSince, StoresTheRight, Open
  <2>3. CASE e # "pump"
    <3>1. e = "tick" /\ decision'[e] = decision[e]
      BY <1>3, <2>3 DEF Deciders
    <3> QED BY <1>1, <1>3, <2>1, <3>1
            DEF DecisionOK, InItsRoom, ReadStillHolds, NothingStoredSince, StoresTheRight, Open,
                Hosting
  <2> QED BY <2>2, <2>3
<1>5. OnTheWay("pump")'
  BY <1>3 DEF OnTheWay
<1> QED BY <1>1, <1>2, <1>3, <1>4, <1>5, TwoDeciders
        DEF StopInv, StopTypeOK, RightOrOnTheWay, Open

\* Whatever disturbs the decisions takes their outcome out of account.
LEMMA DisturbedKeeps ==
    ASSUME StopInv, Disturbed, UNCHANGED <<stop, mpv, tick>>, room' \in Rooms,
           room'.in = room.in, room'.joining = room.joining,
           roster' \in [Peers -> {"absent", "fine", "behind"}]
    PROVE  StopInv'
<1>1. /\ decision' \in [Deciders -> Decisions] /\ settled' = FALSE
      /\ \A d \in Deciders : /\ decision'[d].at = decision[d].at /\ ~decision'[d].alone
                             /\ decision'[d].stall = decision[d].stall
                             /\ decision'[d].live = decision[d].live
  BY DisturbedIs
<1>2. ASSUME NEW e \in Deciders PROVE DecisionOK(e)'
  <2>1. DecisionOK(e)
    BY DEF StopInv
  <2> QED BY <1>1, <2>1
          DEF DecisionOK, InItsRoom, ReadStillHolds, NothingStoredSince, StoresTheRight, Open
<1> QED BY <1>1, <1>2, TwoDeciders DEF StopInv, StopTypeOK, RightOrOnTheWay, Open

LEMMA HearGreetingKeeps == ASSUME StopInv, NEW p \in Peers, HearGreeting(p) PROVE StopInv'
<1>1. /\ UNCHANGED <<room, stop, mpv, tick>>
      /\ roster' = [roster EXCEPT ![p] = "fine"]
      /\ roster' \in [Peers -> {"absent", "fine", "behind"}]
  BY DEF HearGreeting, StopInv, StopTypeOK
<1>2. CASE roster[p] = "behind"
  BY <1>1, <1>2, DisturbedKeeps DEF HearGreeting, StopInv, StopTypeOK
<1>3. CASE roster[p] # "behind"
  <2>1. UNCHANGED <<decision, settled>>
    BY <1>3 DEF HearGreeting
  <2>2. AnyoneBuffering' <=> AnyoneBuffering
    BY <1>1, <1>3 DEF AnyoneBuffering, StopInv, StopTypeOK
  <2>3. ASSUME NEW e \in Deciders PROVE DecisionOK(e)'
    <3>1. DecisionOK(e)
      BY DEF StopInv
    <3> QED BY <1>1, <2>1, <2>2, <3>1
            DEF DecisionOK, InItsRoom, ReadStillHolds, NothingStoredSince, StoresTheRight,
                Open, Hosting
  <2>4. RightOrOnTheWay'
    BY <1>1, <2>1, <2>2 DEF StopInv, RightOrOnTheWay, StopRight, OnTheWay, Hosting
  <2> QED BY <1>1, <2>1, <2>3, <2>4 DEF StopInv, StopTypeOK, Open
<1> QED BY <1>2, <1>3

LEMMA HearByeKeeps == ASSUME StopInv, NEW p \in Peers, HearBye(p) PROVE StopInv'
<1>1. /\ Disturbed /\ UNCHANGED <<stop, mpv, tick>>
      /\ roster' \in [Peers -> {"absent", "fine", "behind"}]
  BY DEF HearBye, StopInv, StopTypeOK
<1>2. PICK host \in {Self} \cup Peers :
         room' = IF room.host = p THEN [room EXCEPT !.host = host] ELSE room
  BY DEF HearBye
<1>3. room' \in Rooms /\ room'.in = room.in /\ room'.joining = room.joining
  BY <1>2 DEF StopInv, StopTypeOK, Rooms
<1> QED BY <1>1, <1>3, DisturbedKeeps

LEMMA HearHostKeeps == ASSUME StopInv, NEW p \in Peers, HearHost(p) PROVE StopInv'
<1>1. /\ Disturbed /\ UNCHANGED <<roster, stop, mpv, tick>>
      /\ roster \in [Peers -> {"absent", "fine", "behind"}]
  BY DEF HearHost, StopInv, StopTypeOK
<1>2. room' = [room EXCEPT !.host = p]
  BY DEF HearHost
<1>3. room' \in Rooms /\ room'.in = room.in /\ room'.joining = room.joining
  BY <1>2 DEF StopInv, StopTypeOK, Rooms
<1> QED BY <1>1, <1>3, DisturbedKeeps

\* Steps that change nothing the stop depends on: the play state, the watch of
\* the player between two decisions.
LEMMA AsideKeeps ==
    ASSUME StopInv, UNCHANGED <<roster, stop, decision, settled>>, room' \in Rooms,
           room'.in = room.in, room'.joining = room.joining, room'.host = room.host,
           mpv' \in Players,
           tick' \in Ticks,
           tick'.at = "rest" => tick.at = "rest" \/ decision["tick"].at = "idle"
    PROVE  StopInv'
<1>1. ASSUME NEW e \in Deciders PROVE DecisionOK(e)'
  <2>1. DecisionOK(e)
    BY DEF StopInv
  <2> QED BY <2>1
          DEF DecisionOK, InItsRoom, ReadStillHolds, NothingStoredSince, StoresTheRight, Open,
              Hosting, AnyoneBuffering
<1>2. RightOrOnTheWay'
  BY DEF StopInv, RightOrOnTheWay, StopRight, OnTheWay, Hosting, AnyoneBuffering
<1> QED BY <1>1, <1>2 DEF StopInv, StopTypeOK, Open

LEMMA HearPauseKeeps ==
    ASSUME StopInv, NEW paused \in BOOLEAN, HearPause(paused) PROVE StopInv'
<1>1. /\ UNCHANGED <<roster, stop, mpv, decision, tick, settled>>
      /\ room' = [room EXCEPT !.paused = {paused}]
  BY DEF HearPause
<1>2. /\ room' \in Rooms /\ room'.in = room.in /\ room'.joining = room.joining
      /\ room'.host = room.host
  BY <1>1 DEF StopInv, StopTypeOK, Rooms
<1> QED BY <1>1, <1>2, AsideKeeps DEF StopInv, StopTypeOK

\* The tick that has seen another stall decides itself.
LEMMA ReadPlayerKeeps ==
    ASSUME StopInv, NEW pausedErr \in BOOLEAN, NEW stalledErr \in BOOLEAN,
           tick.at = "rest", room.in, ReadPlayer(pausedErr, stalledErr),
           UNCHANGED <<room, roster, mpv, settled>>
    PROVE  StopInv'
<1>1. decision["tick"].at = "idle" /\ tick \in Ticks /\ mpv \in Players
  BY DEF StopInv, StopTypeOK
<1>2. tick' \in Ticks /\ tick'.at = "lead"
  <2> DEFINE seen    == IF pausedErr THEN {} ELSE Paused
             stalled == IF stalledErr THEN tick.lastStalled ELSE Stalled
  <2>1. Paused \in SUBSET BOOLEAN /\ Stalled \in SUBSET BOOLEAN
    BY <1>1 DEF Paused, Stalled, Players
  <2>2. seen \in SUBSET BOOLEAN /\ stalled \in SUBSET BOOLEAN
    BY <1>1, <2>1 DEF Ticks
  <2>3. tick' = [tick EXCEPT !.at = "lead", !.live = TRUE, !.seen = seen, !.lastStalled = stalled]
    BY DEF ReadPlayer
  <2> HIDE DEF seen, stalled
  <2> QED BY <1>1, <2>2, <2>3 DEF Ticks
<1>3. CASE stalledErr \/ tick.lastStalled = Stalled
  <2>1. UNCHANGED <<stop, decision>>
    BY <1>3 DEF ReadPlayer
  <2> QED BY <1>1, <1>2, <2>1, AsideKeeps DEF StopInv, StopTypeOK
<1>4. CASE ~(stalledErr \/ tick.lastStalled = Stalled)
  <2>1. stop' = [stop EXCEPT !.stalled = mpv.stalled] /\ To("tick", "start")
    BY <1>4 DEF ReadPlayer
  <2>2. /\ stop' \in [stopped: BOOLEAN, owned: BOOLEAN, stalled: BOOLEAN]
        /\ stop'.stopped = stop.stopped
    BY <1>1, <2>1 DEF StopInv, StopTypeOK, Players
  <2>3. /\ decision' \in [Deciders -> Decisions] /\ decision'["tick"].at = "start"
        /\ \A e \in Deciders : e # "tick" => decision'[e] = decision[e]
    <3>1. "start" \in Stages
      BY DEF Stages
    <3> QED BY <2>1, <3>1, ToIs, TwoDeciders
  <2>4. ASSUME NEW e \in Deciders PROVE DecisionOK(e)'
    <3>1. DecisionOK(e)
      BY DEF StopInv
    <3>2. CASE e = "tick"
      BY <2>3, <3>2
         DEF DecisionOK, InItsRoom, ReadStillHolds, NothingStoredSince, StoresTheRight, Open
    <3>3. CASE e # "tick"
      BY <1>1, <2>2, <2>3, <3>1, <3>3
         DEF DecisionOK, InItsRoom, ReadStillHolds, NothingStoredSince, StoresTheRight, Open,
             Hosting, AnyoneBuffering
    <3> QED BY <3>2, <3>3
  <2>5. OnTheWay("tick")'
    BY <2>3 DEF OnTheWay
  <2> QED BY <1>2, <2>2, <2>3, <2>4, <2>5, TwoDeciders
          DEF StopInv, StopTypeOK, RightOrOnTheWay, Open
<1> QED BY <1>3, <1>4

LEMMA TickReadsKeeps == ASSUME StopInv, TickReads PROVE StopInv'
<1>1. UNCHANGED <<room, roster, mpv, settled>> /\ tick.at = "rest"
  BY DEF TickReads
<1>2. CASE tick' = NewTick /\ UNCHANGED <<stop, decision>>
  <2>1. tick' \in Ticks
    BY <1>2 DEF NewTick, Ticks
  <2> QED BY <1>1, <1>2, <2>1, AsideKeeps DEF StopInv, StopTypeOK
<1>3. CASE room.in /\ \E pausedErr, stalledErr \in BOOLEAN : ReadPlayer(pausedErr, stalledErr)
  BY <1>1, <1>3, ReadPlayerKeeps
<1> QED BY <1>2, <1>3 DEF TickReads

LEMMA TickActsKeeps == ASSUME StopInv, TickActs PROVE StopInv'
<1>1. /\ UNCHANGED <<roster, stop, mpv, decision, settled>>
      /\ decision["tick"].at = "idle" /\ tick \in Ticks /\ room \in Rooms
  BY DEF TickActs, StopInv, StopTypeOK
<1>2. CASE LeadTheRoom
  <2>1. tick' \in Ticks
    BY <1>1, <1>2 DEF LeadTheRoom, Ticks
  <2>2. room' = room \/ room' = [room EXCEPT !.paused = tick.seen]
    BY <1>2 DEF LeadTheRoom
  <2>3. /\ room' \in Rooms /\ room'.in = room.in /\ room'.joining = room.joining
        /\ room'.host = room.host
    BY <1>1, <2>2 DEF Rooms, Ticks
  <2> QED BY <1>1, <2>1, <2>3, AsideKeeps DEF StopInv, StopTypeOK
<1>3. CASE NothingToLead
  <2>1. tick' \in Ticks /\ room' = room
    BY <1>1, <1>3 DEF NothingToLead, Ticks
  <2> QED BY <1>1, <2>1, AsideKeeps DEF StopInv, StopTypeOK
<1>4. ASSUME NEW known, FollowTheRoom(known) PROVE StopInv'
  <2> DEFINE beat == (tick.beat + 1) % HeartbeatEvery
  <2>1. beat \in Nat
    <3>1. tick.beat \in Nat /\ HeartbeatEvery \in Nat \ {0}
      BY <1>1, WindowAssumption DEF Ticks
    <3> QED BY <3>1
  <2>2. tick' = [tick EXCEPT !.at = "rest", !.lastPaused = tick.seen, !.beat = beat]
        /\ room' = room
    BY <1>4 DEF FollowTheRoom
  <2> HIDE DEF beat
  <2>3. tick' \in Ticks
    BY <1>1, <2>1, <2>2 DEF Ticks
  <2> QED BY <1>1, <2>2, <2>3, AsideKeeps DEF StopInv, StopTypeOK
<1> QED BY <1>2, <1>3, <1>4 DEF TickActs

LEMMA PlayerKeeps ==
    ASSUME StopInv, PlayerChanges \/ \E paused \in BOOLEAN : Arrives(paused) PROVE StopInv'
<1>1. UNCHANGED <<room, roster, stop, decision, tick, settled>>
  BY DEF PlayerChanges, Arrives
<1>2. mpv' \in Players
  <2>1. CASE PlayerChanges
    <3>1. mpv \in Players
      BY DEF StopInv, StopTypeOK
    <3>2. \/ mpv' = [mpv EXCEPT !.paused = ~@]
          \/ mpv' = [mpv EXCEPT !.stalled = ~@]
          \/ mpv' = Playing \/ mpv' = Gone
      BY <2>1 DEF PlayerChanges
    <3> QED BY <3>1, <3>2, PlayersAre DEF Players
  <2>2. CASE \E paused \in BOOLEAN : Arrives(paused)
    BY <2>2, CommandIs DEF Arrives
  <2> QED BY <2>1, <2>2
<1> QED BY <1>1, <1>2, StopStands

\* The player a pick starts is watched by the next tick.
LEMMA PlayFileLeavesStop == ASSUME StopInv, NEW pick, PlayFile(pick) PROVE StopInv'
<1>1. UNCHANGED <<room, roster, stop, decision, tick, settled>>
  BY DEF PlayFile
<1>2. mpv' = mpv \/ mpv' = Playing
  BY DEF PlayFile, Plays, PlayFails
<1>3. mpv' \in Players
  BY <1>2, PlayersAre DEF StopInv, StopTypeOK
<1> QED BY <1>1, <1>3, StopStands

\* Who leaves a room leaves its decisions without one, and nothing they store
\* counts for the next.
LEMMA LeaveRoomKeeps ==
    ASSUME StopInv, NEW as \in {"guest", "host"}, LeaveRoom(as) PROVE StopInv'
<1>1. /\ room' = [in |-> FALSE, joining |-> as, host |-> Nobody, paused |-> {}]
      /\ roster' = [p \in Peers |-> "absent"]
      /\ settled' = FALSE /\ UNCHANGED <<stop, mpv>>
  BY DEF LeaveRoom
<1>2. tick' = [tick EXCEPT !.live = FALSE] /\ tick \in Ticks
  BY DEF LeaveRoom, StopInv, StopTypeOK
<1>3. tick' \in Ticks /\ tick'.at = tick.at
  BY <1>2 DEF Ticks
<1>4. /\ decision' \in [Deciders -> Decisions]
      /\ \A e \in Deciders :
            /\ decision'[e].at = decision[e].at
            /\ decision'[e].at # "idle" => /\ ~decision'[e].live
                                           /\ decision'[e].stopped = decision[e].stopped
                                           /\ decision'[e].stall = decision[e].stall
                                           /\ decision'[e].alone = decision[e].alone
  <2> DEFINE new(e) == IF decision[e].at = "idle" THEN NoDecision
                       ELSE [decision[e] EXCEPT !.live = FALSE]
  <2>1. decision' = [e \in Deciders |-> new(e)]
    BY DEF LeaveRoom
  <2>2. NoDecision \in Decisions /\ NoDecision.at = "idle"
    BY DEF NoDecision, Decisions, Stages
  <2>3. ASSUME NEW e \in Deciders
        PROVE  /\ new(e) \in Decisions /\ new(e).at = decision[e].at
               /\ new(e).at # "idle" => /\ ~new(e).live
                                        /\ new(e).stopped = decision[e].stopped
                                        /\ new(e).stall = decision[e].stall
                                        /\ new(e).alone = decision[e].alone
    <3>1. decision[e] \in Decisions
      BY DEF StopInv, StopTypeOK
    <3>2. CASE decision[e].at = "idle"
      BY <2>2, <3>2
    <3>3. CASE decision[e].at # "idle"
      BY <3>1, <3>3 DEF Decisions
    <3> QED BY <3>2, <3>3
  <2> HIDE DEF new
  <2> QED BY <2>1, <2>3
<1>5. ASSUME NEW e \in Deciders PROVE DecisionOK(e)'
  <2>1. DecisionOK(e)
    BY DEF StopInv
  <2> QED BY <1>1, <1>4, <2>1
          DEF DecisionOK, InItsRoom, ReadStillHolds, NothingStoredSince, StoresTheRight, Open
<1>6. room' \in Rooms /\ ~room'.in
  BY <1>1 DEF Rooms
<1> QED BY <1>1, <1>3, <1>4, <1>5, <1>6, TwoDeciders
        DEF StopInv, StopTypeOK, RightOrOnTheWay, Hosting, Open

LEMMA JoinMeshKeeps ==
    ASSUME StopInv, NEW opens \in BOOLEAN, JoinMesh(opens) PROVE StopInv'
<1>1. /\ UNCHANGED <<roster, stop, mpv, decision, tick, settled>>
      /\ room.joining # "no" /\ room \in Rooms /\ ~room.in
  BY DEF JoinMesh, StopInv, StopTypeOK
<1>2. /\ room' \in Rooms /\ room'.joining = "no"
  BY <1>1 DEF JoinMesh, Rooms
<1>3. ASSUME NEW e \in Deciders PROVE decision[e].at # "idle" => ~decision[e].live
  BY <1>1 DEF StopInv, DecisionOK, InItsRoom
<1>4. ASSUME NEW e \in Deciders PROVE DecisionOK(e)'
  <2>1. DecisionOK(e)
    BY DEF StopInv
  <2> QED BY <1>1, <1>3, <2>1
          DEF DecisionOK, InItsRoom, ReadStillHolds, NothingStoredSince, StoresTheRight, Open
<1> QED BY <1>1, <1>2, <1>4 DEF StopInv, StopTypeOK, RightOrOnTheWay, Open

LEMMA FilmLeavesStop ==
    ASSUME Film, ~CreateRoom, ~\E pick \in picks : PlayFile(pick) PROVE UNCHANGED playVars
<1>1. ASSUME NEW film \in Films, TorrentAdded(film) \/ OpenTorrent(film)
      PROVE  UNCHANGED playVars
  BY <1>1 DEF TorrentAdded, OpenTorrent
<1>2. ASSUME NEW named \in Announced, HearMagnet(named.film, named.file)
      PROVE  UNCHANGED playVars
  BY <1>2 DEF HearMagnet
<1>3. ASSUME \/ \E c \in Carriers : CarryOut(c)
             \/ \E file \in Files : ClickFile(file)
             \/ AddTorrent \/ Refresh \/ MainThread \/ PlayAdopted
      PROVE  UNCHANGED playVars
  BY <1>3 DEF CarryOut, ClickFile, AddTorrent, Refresh, MainThread, PlayAdopted
<1>4. ASSUME CreatePressed \/ RoomMagnet \/ Announce PROVE UNCHANGED playVars
  BY <1>4 DEF CreatePressed, RoomMagnet, Announce
<1> QED BY <1>1, <1>2, <1>3, <1>4 DEF Film

LEMMA NextStop == ASSUME StopInv, [Next]_vars PROVE StopInv'
<1>1. ASSUME UNCHANGED playVars PROVE StopInv'
  BY <1>1, StopStands DEF playVars, StopInv, StopTypeOK
<1>2. CASE UNCHANGED vars
  BY <1>1, <1>2 DEF vars
<1>3. CASE Play
  <2>1. ASSUME JoinRoom PROVE StopInv'
    BY <2>1, LeaveRoomKeeps DEF JoinRoom
  <2>2. ASSUME MeshOfGuest PROVE StopInv'
    BY <2>2, JoinMeshKeeps DEF MeshOfGuest
  <2> QED BY <1>3, <2>1, <2>2, SyncKeeps, HearReportKeeps, HearGreetingKeeps, HearByeKeeps,
          HearHostKeeps, HearPauseKeeps, TickReadsKeeps, TickActsKeeps, PlayerKeeps DEF Play
<1>4. CASE Film
  <2>1. ASSUME CreateRoom PROVE StopInv'
    BY <2>1, LeaveRoomKeeps, JoinMeshKeeps DEF CreateRoom
  <2>2. ASSUME NEW pick \in picks, PlayFile(pick) PROVE StopInv'
    BY <2>2, PlayFileLeavesStop
  <2> QED BY <1>1, <1>4, <2>1, <2>2, FilmLeavesStop
<1> QED BY <1>2, <1>3, <1>4 DEF Next

\* Once the last decision ran undisturbed to its end and none is under way, a
\* host's room is stopped exactly when somebody is behind, itself included:
\* for any number of participants and whatever the pump and the tick decide at
\* the same time (syncTheRoomStop).
THEOREM TheStopIsRight == Spec => []StopFollowsReports
<1>1. StopInv /\ [Next]_vars => StopInv'
  BY NextStop
<1>2. StopInv => StopFollowsReports
  BY DEF StopInv, StopFollowsReports, RightOrOnTheWay, StopRight, OnTheWay
<1> QED BY <1>1, <1>2, InitStop, PTL DEF Spec
=============================================================================
