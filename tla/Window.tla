------------------------------- MODULE Window -------------------------------
(***************************************************************************)
(* The window of one participant, between its room and its player          *)
(* (src/frontend/internal/ui/window.go and createroom.go, with the guest's *)
(* half of a room in src/frontend/internal/adopt).                         *)
(*                                                                         *)
(* Play state.  The room's pump calls back for every message, one at a     *)
(* time; a ticker of half a second reads the player.  A host's tick        *)
(* mirrors its player into the room, a follower's brings its player back   *)
(* to the room's state every HeartbeatEvery-th time.  Either the pump or   *)
(* the tick may run syncTheRoomStop, which stops the room for whoever is   *)
(* behind: it reads under one lock, asks the room under another and        *)
(* stores under a third.  Commands to the player run in goroutines of      *)
(* their own and can overtake each other.                                  *)
(*                                                                         *)
(* Film.  The room names a torrent and a file.  The window writes the      *)
(* magnet into its entry on the main thread, adds whatever the entry       *)
(* holds, and every poll of the list may carry the offer out: read the     *)
(* files, choose the named one, and hand it to the main thread to play.    *)
(* Both lists come from the backend by the page, and only the first one.   *)
(*                                                                         *)
(* What the Room itself does with a message is module Room's; here a       *)
(* message is what it changes for the window.  Positions, the roster's     *)
(* wording and the widgets are left out; so is the removal of a torrent.   *)
(***************************************************************************)
EXTENDS Integers, Sequences, FiniteSets

CONSTANTS
    Peers,           \* the other participants
    Self, Nobody,    \* who else can be the host
    Films,           \* torrents, by infohash
    FilesOf,         \* [Films -> set of the file indexes the torrent has]
    NoFilm,
    DefaultPaginationLimit, \* constants.go:201 has 20
    HeartbeatEvery,  \* window.go:857 has 10
    Announced,       \* bound: [film, file] that a room may name
    MaxCommands,     \* bound: commands of one kind on their way to the player
    Carriers,        \* bound: offers being carried out at a time
    Plans            \* initial situations with their budgets of events

\* The room's pump and the ticker.
Deciders == {"pump", "tick"}

\* The host has chosen no file, or this window has not.
Unchosen == -1

Files  == UNION {FilesOf[film] : film \in Films}
Offers == [film: Films, file: Files \cup {Unchosen}]

ASSUME WindowAssumption ==
    /\ HeartbeatEvery \in Nat \ {0}
    /\ Self \notin Peers /\ Nobody \notin Peers \cup {Self}
    /\ DefaultPaginationLimit \in Nat \ {0}
    /\ NoFilm \notin Films /\ FilesOf \in [Films -> SUBSET Nat]
    /\ \A film \in Films : \A file \in FilesOf[film] : 0..file \subseteq FilesOf[film]
    /\ Announced \subseteq Offers
    /\ \A plan \in Plans : /\ plan.host \in Peers \cup {Self} /\ plan.playing \in BOOLEAN
                          /\ plan.have \subseteq Films

NoOffer  == [film |-> NoFilm, file |-> Unchosen]

VARIABLES
    left,      \* how many events of each kind the plan still allows
    room,      \* [in, joining, host, paused]: the Room the window drives
    roster,    \* [Peers -> {"absent", "fine", "behind"}]
    stop,      \* [stopped, owned, stalled]: roomStopped, pausedForBuffering, myStalled
    mpv,       \* [is, paused, stalled]: the player, and what it would answer
    commands,  \* [BOOLEAN -> Nat]: pauses and resumes on their way
    decision,  \* [Deciders -> what a syncTheRoomStop under way has read]
    tick,      \* the tick under way and what watchState remembers
    settled,   \* history: the last decision ran undisturbed to its end
    offer,     \* [film, file]: roomInfohash, pendingRoomFile
    adopted,   \* adoptedRoomFile
    have,      \* the torrents of the window's own backend
    list,      \* the torrents the window lists
    current,   \* the torrent whose files are shown
    selected,  \* selectedFile: the index selected last, in whatever torrent
    entry,     \* the magnet in the entry field
    main,      \* what waits for the main thread
    presented, \* an adoption between presentFiles and playFile
    picks,     \* [film, file, by]: playFile's goroutines, of the room or a person
    adding,    \* the film adoptRoomTorrent is about to add, NoFilm if none
    posts,     \* torrents being posted to the backend
    carrying,  \* [Carriers -> offer being carried out]
    create,    \* [at, film, file]: the room being created for a film
    offered,   \* history: what the room named
    started,   \* history: what the player was given of what adoption picked
    meddled,   \* history: a torrent was opened between the halves of an adoption
    lost       \* history: an add found another text, or a request or the player failed

playVars == <<room, roster, stop, mpv, commands, decision, tick, settled>>
filmVars == <<offer, adopted, have, list, current, selected, entry, main, presented, picks,
              adding, posts, carrying, create, offered, started, meddled, lost>>
vars     == <<left, playVars, filmVars>>

\* The room a window has just entered, and what it knows of a stop to begin with.
Entered(host) == [in |-> TRUE, joining |-> "no", host |-> host, paused |-> {}]
NoStop == [stopped |-> FALSE, owned |-> FALSE, stalled |-> FALSE]

\* No player yet; one that Play was called of; and one whose process has ended,
\* which the window keeps: it answers nothing, and no other is started.
NoPlayer == [is |-> "none", paused |-> FALSE, stalled |-> FALSE]
Playing  == [NoPlayer EXCEPT !.is = "up"]
Gone     == [NoPlayer EXCEPT !.is = "gone"]

Spend(kind) == left[kind] > 0 /\ left' = [left EXCEPT ![kind] = @ - 1]

NoDecision == [at |-> "idle", stopped |-> FALSE, owned |-> FALSE, stall |-> FALSE,
               alone |-> TRUE, live |-> TRUE]
\* A new watchState; an unknown value is the empty set.
NewTick == [at |-> "rest", seen |-> {}, live |-> TRUE,
            lastPaused |-> {}, lastStalled |-> {}, beat |-> 0]
NoCreate == [at |-> "no", film |-> NoFilm, file |-> Unchosen]

\* GET /torrents without a limit: the first page of a map in no order.
Pages(films) ==
    IF Cardinality(films) <= DefaultPaginationLimit THEN {films}
    ELSE {page \in SUBSET films : Cardinality(page) = DefaultPaginationLimit}

Init ==
    \E plan \in Plans :
        /\ left = plan.budget
        /\ room = Entered(plan.host)
        /\ roster = [p \in Peers |-> "fine"]
        /\ stop = NoStop
        /\ mpv = IF plan.playing THEN Playing ELSE NoPlayer
        /\ commands = [paused \in BOOLEAN |-> 0]
        /\ decision = [d \in Deciders |-> NoDecision]
        /\ tick = NewTick
        /\ settled = TRUE
        /\ offer = NoOffer /\ adopted = FALSE
        /\ have = plan.have /\ list \in Pages(plan.have)
        /\ current = NoFilm /\ selected = Unchosen /\ entry = NoFilm
        /\ main = <<>> /\ presented = NoOffer /\ picks = {}
        /\ adding = NoFilm /\ posts = {}
        /\ carrying = [c \in Carriers |-> NoOffer]
        /\ create = NoCreate
        /\ offered = {} /\ started = {} /\ meddled = FALSE /\ lost = FALSE

-----------------------------------------------------------------------------
(* The decision to stop the room.                                          *)

Hosting == room.in /\ room.host = Self

AnyoneBuffering == \E p \in Peers : roster[p] = "behind"

\* The room waits for whoever is behind: a peer of the roster now, or this one
\* as the decision read it.
WaitingForOthers(d) == AnyoneBuffering
Waiting(d) == AnyoneBuffering \/ decision[d].stall

\* One command over mpv's socket; without a player it reaches nobody.
Command(paused) == mpv' = IF mpv.is = "up" THEN [mpv EXCEPT !.paused = paused] ELSE mpv

\* A decision between what it read and what it stores of it.
Open(d) == decision[d].at \in {"compare", "store"}

\* The facts under the decisions moved without a decision of their own.
Disturbed ==
    /\ settled' = FALSE
    /\ decision' = [d \in Deciders |-> [decision[d] EXCEPT !.alone = FALSE]]

To(d, at) == decision' = [decision EXCEPT ![d].at = at]
Done(d)   == decision' = [decision EXCEPT ![d] = NoDecision]

\* The room and what the window knows of the stop, under the read lock.
ReadStop(d) ==
    /\ decision[d].at = "start"
    /\ IF room.in
       THEN LET read == [at |-> "compare", stopped |-> stop.stopped, owned |-> stop.owned,
                         stall |-> stop.stalled, live |-> TRUE,
                         alone |-> ~\E e \in Deciders : Open(e)]
            IN  decision' = [e \in Deciders |->
                               IF e = d THEN read ELSE [decision[e] EXCEPT !.alone = FALSE]]
       ELSE Done(d)
    /\ UNCHANGED <<left, room, roster, stop, mpv, commands, tick, settled, filmVars>>

\* The role and the roster, under the room's lock.  A room that was left
\* meanwhile still answers, from a roster nobody updates any more: either way.
CompareStop(d) ==
    /\ decision[d].at = "compare"
    /\ \E hosting, waiting \in BOOLEAN :
          /\ decision[d].live => hosting = Hosting /\ waiting = Waiting(d)
          /\ IF hosting /\ waiting # decision[d].stopped
             THEN To(d, "store") /\ UNCHANGED settled
             ELSE /\ Done(d)
                  /\ settled' = IF hosting /\ decision[d].alone /\ decision[d].live
                                THEN TRUE ELSE settled
    /\ UNCHANGED <<left, room, roster, stop, mpv, commands, tick, filmVars>>

StoreStop(d) ==
    /\ decision[d].at = "store"
    /\ stop' = [stop EXCEPT !.stopped = ~decision[d].stopped]
    /\ settled' = (decision[d].alone /\ decision[d].live)
    /\ CASE ~decision[d].stopped -> To(d, "ask")
         [] decision[d].stopped /\ decision[d].owned -> To(d, "disown")
         [] OTHER -> Done(d)
    /\ UNCHANGED <<left, room, roster, mpv, commands, tick, filmVars>>

\* pauseTheRoom: a pause the person made is not the room's to take away later.
\* Without a player, or without an answer of it, the room counts as stopped
\* all the same.
PauseTheRoom(d) ==
    /\ decision[d].at = "ask"
    /\ \/ mpv.is # "up" /\ Done(d) /\ UNCHANGED <<left, stop>>
       \/ mpv.is = "up" /\ Spend("errors") /\ Done(d) /\ UNCHANGED stop
       \/ /\ mpv.is = "up"
          /\ stop' = [stop EXCEPT !.owned = ~mpv.paused]
          /\ IF mpv.paused THEN Done(d) ELSE To(d, "pause")
          /\ UNCHANGED left
    /\ UNCHANGED <<room, roster, mpv, commands, tick, settled, filmVars>>

\* resumeTheRoom, up to the command.
ResumeTheRoom(d) ==
    /\ decision[d].at = "disown"
    /\ IF mpv.is = "none" THEN Done(d) /\ UNCHANGED stop
       ELSE stop' = [stop EXCEPT !.owned = FALSE] /\ To(d, "resume")
    /\ UNCHANGED <<left, room, roster, mpv, commands, tick, settled, filmVars>>

\* The decision's own command; this one is not given to a goroutine.
CommandOfStop(d) ==
    /\ decision[d].at \in {"pause", "resume"}
    /\ Command(decision[d].at = "pause")
    /\ Done(d)
    /\ UNCHANGED <<left, room, roster, stop, commands, tick, settled, filmVars>>

SyncTheRoomStop(d) ==
    \/ ReadStop(d) \/ CompareStop(d) \/ StoreStop(d)
    \/ PauseTheRoom(d) \/ ResumeTheRoom(d) \/ CommandOfStop(d)

-----------------------------------------------------------------------------
(* What the room's pump calls back for: one message at a time.             *)

PumpIsFree == room.in /\ decision["pump"].at = "idle" /\ adding = NoFilm

\* A report of anyone; the callback decides about the stop.
HearReport(p, behind) ==
    /\ PumpIsFree
    /\ Spend("reports")
    /\ roster' = [roster EXCEPT ![p] = IF @ = "absent" THEN @
                                       ELSE IF behind THEN "behind" ELSE "fine"]
    /\ To("pump", "start")
    /\ UNCHANGED <<room, stop, mpv, commands, tick, settled, filmVars>>

\* A greeting, also a second one of a member: the entry is new and the report
\* of before is gone.  No decision follows.
HearGreeting(p) ==
    /\ PumpIsFree
    /\ Spend("moves")
    /\ roster' = [roster EXCEPT ![p] = "fine"]
    /\ IF roster[p] = "behind" THEN Disturbed ELSE UNCHANGED <<decision, settled>>
    /\ UNCHANGED <<room, stop, mpv, commands, tick, filmVars>>

\* A farewell; the host's makes another member, or this one, the host.
HearBye(p) ==
    /\ PumpIsFree
    /\ Spend("moves")
    /\ roster[p] # "absent"
    /\ roster' = [roster EXCEPT ![p] = "absent"]
    /\ \E host \in {Self} \cup {q \in Peers \ {p} : roster[q] # "absent"} :
          room' = IF room.host = p THEN [room EXCEPT !.host = host] ELSE room
    /\ Disturbed
    /\ UNCHANGED <<stop, mpv, commands, tick, filmVars>>

\* A member the Room believes takes the role.
HearHost(p) ==
    /\ PumpIsFree
    /\ Spend("moves")
    /\ roster[p] # "absent" /\ room.host # p
    /\ room' = [room EXCEPT !.host = p]
    /\ Disturbed
    /\ UNCHANGED <<roster, stop, mpv, commands, tick, filmVars>>

\* The host's play state.  applyPause: a goroutine commands the player, if
\* there is one; what arrived while there was none is left to the heartbeat.
HearPause(paused) ==
    /\ PumpIsFree
    /\ Spend("pauses")
    /\ room.host \in Peers
    /\ room' = [room EXCEPT !.paused = {paused}]
    /\ commands[paused] < MaxCommands
    /\ commands' = IF mpv.is = "none" THEN commands ELSE [commands EXCEPT ![paused] = @ + 1]
    /\ UNCHANGED <<roster, stop, mpv, decision, tick, settled, filmVars>>

-----------------------------------------------------------------------------
(* The tick.                                                               *)

\* What the player answers when it does, as a set of one.
Paused  == {mpv.paused}
Stalled == {mpv.stalled}

\* The first half of roomTick: read the player, which may answer one question
\* and not the other.  A change of the stall is kept, reported to the room, and
\* decided upon.
ReadPlayer(pausedErr, stalledErr) ==
    /\ IF mpv.is = "gone" THEN pausedErr /\ stalledErr /\ UNCHANGED left
       ELSE IF pausedErr \/ stalledErr THEN Spend("errors") ELSE UNCHANGED left
    /\ tick' = [tick EXCEPT !.at = "lead", !.live = TRUE,
                            !.seen = IF pausedErr THEN {} ELSE Paused,
                            !.lastStalled = IF stalledErr THEN @ ELSE Stalled]
    /\ IF stalledErr \/ tick.lastStalled = Stalled THEN UNCHANGED <<stop, decision>>
       ELSE stop' = [stop EXCEPT !.stalled = mpv.stalled] /\ To("tick", "start")

TickReads ==
    /\ tick.at = "rest"
    /\ \/ mpv.is = "none" /\ tick' = NewTick /\ UNCHANGED <<left, stop, decision>>
       \/ /\ mpv.is # "none" /\ room.in
          /\ \E pausedErr, stalledErr \in BOOLEAN : ReadPlayer(pausedErr, stalledErr)
    /\ UNCHANGED <<room, roster, mpv, commands, settled, filmVars>>

\* A host's second half: a change of the player's play state, as it was read
\* at the tick's start, becomes the room's.
LeadTheRoom ==
    /\ tick.seen # {} /\ tick.lastPaused # tick.seen
    /\ room' = IF tick.live THEN [room EXCEPT !.paused = tick.seen] ELSE room
    /\ tick' = [tick EXCEPT !.at = "rest", !.lastPaused = tick.seen]
    /\ UNCHANGED commands

\* The command a heartbeat finds due, if any: the state the room is known to be
\* in when the player was read to be in another.
ConvergeOnChange(known) ==
    IF tick.seen # {} /\ tick.seen # tick.lastPaused /\ known \notin {{}, tick.seen}
    THEN known ELSE {}
ConvergeToRoomState(known) ==
    IF tick.seen # {} /\ known # {} /\ known # tick.seen THEN known ELSE {}

\* A follower's second half.
FollowTheRoom(known) ==
    LET beat == (tick.beat + 1) % HeartbeatEvery
        due  == IF beat = 0 THEN ConvergeToRoomState(known) ELSE {}
    IN  /\ tick' = [tick EXCEPT !.at = "rest", !.lastPaused = tick.seen, !.beat = beat]
        /\ \A paused \in due : commands[paused] < MaxCommands
        /\ commands' = [paused \in BOOLEAN |->
                          commands[paused] + (IF paused \in due THEN 1 ELSE 0)]
        /\ UNCHANGED room

NothingToLead ==
    /\ tick.seen = {} \/ tick.lastPaused = tick.seen
    /\ tick' = [tick EXCEPT !.at = "rest"]
    /\ UNCHANGED <<room, commands>>

\* The tick waits for its own decision; the role and the play state are asked
\* of the room after it.  A room that was left meanwhile still answers: any way.
PlayStates == {{}, {TRUE}, {FALSE}}

TickActs ==
    /\ tick.at = "lead" /\ decision["tick"].at = "idle"
    /\ \E hosting \in BOOLEAN, known \in PlayStates :
          /\ tick.live => hosting = (room.host = Self) /\ known = room.paused
          /\ IF hosting THEN LeadTheRoom \/ NothingToLead ELSE FollowTheRoom(known)
    /\ UNCHANGED <<left, roster, stop, mpv, decision, settled, filmVars>>

-----------------------------------------------------------------------------
(* The player, and the rooms the person enters.                            *)

\* One of the commands on their way arrives; none is first.
Arrives(paused) ==
    /\ commands[paused] > 0
    /\ commands' = [commands EXCEPT ![paused] = @ - 1]
    /\ Command(paused)
    /\ UNCHANGED <<left, room, roster, stop, decision, tick, settled, filmVars>>

\* The person pauses or resumes; the cache runs dry or fills; the player is
\* started, as Play leaves it, or its process ends.
PlayerChanges ==
    /\ \/ /\ mpv.is = "up" /\ Spend("presses")
          /\ mpv' = [mpv EXCEPT !.paused = ~@]
       \/ /\ mpv.is = "up" /\ Spend("stalls")
          /\ mpv' = [mpv EXCEPT !.stalled = ~@]
       \/ /\ mpv.is # "gone" /\ Spend("starts")
          /\ mpv' = IF mpv.is = "none" THEN Playing ELSE Gone
    /\ UNCHANGED <<room, roster, stop, commands, decision, tick, settled, filmVars>>

\* Bound: one join at a time, though nothing in the code keeps a second one
\* from being started beside the first.
OneJoinAtATime == room.joining = "no"

\* joinMesh leaves first.  What the window knows of a stop, what the tick
\* remembers and what the room named stay as they are.
LeaveRoom(as) ==
    /\ OneJoinAtATime
    /\ room' = [in |-> FALSE, joining |-> as, host |-> Nobody, paused |-> {}]
    /\ roster' = [p \in Peers |-> "absent"]
    /\ decision' = [d \in Deciders |-> IF decision[d].at = "idle" THEN NoDecision
                                       ELSE [decision[d] EXCEPT !.live = FALSE]]
    /\ tick' = [tick EXCEPT !.live = FALSE]
    /\ settled' = FALSE
    /\ UNCHANGED <<stop, mpv, commands>>

JoinRoom == Spend("rooms") /\ LeaveRoom("guest") /\ UNCHANGED filmVars

\* The mesh is open, or the 60 seconds are over: then the window is in no room.
JoinMesh(opens) ==
    /\ room.joining # "no"
    /\ room' = IF opens
               THEN [room EXCEPT !.in = TRUE, !.joining = "no",
                                 !.host = IF room.joining = "host" THEN Self ELSE Nobody]
               ELSE [room EXCEPT !.joining = "no"]
    /\ UNCHANGED <<left, roster, stop, mpv, commands, decision, tick, settled>>

MeshOfGuest == room.joining = "guest" /\ (\E opens \in BOOLEAN : JoinMesh(opens)) /\ UNCHANGED filmVars

-----------------------------------------------------------------------------
(* The room's film: the guest's half.                                      *)

\* Only the main thread touches widgets: what others ask of it waits.
OnMain(op) == main' = Append(main, op)
TextOp(film) == [op |-> "text", film |-> film, file |-> Unchosen]

\* Bound: what waits for the main thread.
MainHasRoom == Len(main) < 3

\* adoptRoomTorrent up to addTorrent.  The window compares its client ID with
\* the host's peer ID, which never agree, so the film is always for it.
HearMagnet(film, file) ==
    /\ PumpIsFree /\ room.host \in Peers /\ MainHasRoom
    /\ Spend("magnets")
    /\ IF current = film
       THEN UNCHANGED <<offer, main, adding, offered>>
       ELSE /\ offer' = [film |-> film, file |-> file]
            /\ OnMain(TextOp(film))
            /\ adding' = film
            /\ offered' = offered \cup {[film |-> film, file |-> file]}
    /\ UNCHANGED <<playVars, adopted, have, list, current, selected, entry, presented, picks,
                   posts, carrying, create, started, meddled, lost>>

\* addTorrent, called by the pump: it adds what the entry holds NOW, whether
\* or not the main thread has written the room's magnet there.
AddTorrent ==
    /\ adding # NoFilm
    /\ adding' = NoFilm
    /\ posts' = IF entry = NoFilm THEN posts ELSE posts \cup {entry}
    /\ lost' = (lost \/ entry # adding)
    /\ UNCHANGED <<left, playVars, offer, adopted, have, list, current, selected, entry,
                   main, presented, picks, carrying, create, offered, started, meddled>>

\* The backend has answered the post.
TorrentAdded(film) ==
    /\ film \in posts /\ MainHasRoom
    /\ posts' = posts \ {film}
    /\ \/ have' = have \cup {film} /\ OnMain(TextOp(NoFilm)) /\ UNCHANGED <<left, lost>>
       \/ Spend("errors") /\ lost' = TRUE /\ UNCHANGED <<have, main>>
    /\ UNCHANGED <<playVars, offer, adopted, list, current, selected, entry, presented, picks,
                   adding, carrying, create, offered, started, meddled>>

\* Offer.Torrent: the torrent to play, as a set of at most one.
OfferToTheIdle(o, torrents, playing, done) ==
    { film \in {o.film} : ~done /\ o.file >= 0 /\ playing = NoFilm /\ film \in torrents }
OfferTorrent(o, torrents, playing, done) ==
    { film \in {o.film} : ~done /\ o.file >= 0 /\ playing \in {NoFilm, film}
                          /\ film \in torrents }

\* The offer as it stands under the read lock is carried out in a goroutine.
AdoptTheRoomsFile(torrents) ==
    IF OfferTorrent(offer, torrents, current, adopted) = {}
    THEN UNCHANGED carrying
    ELSE \E c \in Carriers : carrying[c] = NoOffer /\ carrying' = [carrying EXCEPT ![c] = offer]

\* One refresh of the list, by the poll or after an add.  One that fails leaves
\* the list, and the offer, for the next.
Refresh ==
    /\ list' \in Pages(have)
    /\ AdoptTheRoomsFile(list')
    /\ UNCHANGED <<left, playVars, offer, adopted, have, current, selected, entry, main,
                   presented, picks, adding, posts, create, offered, started, meddled, lost>>

\* GET /torrents/{id}/files without a limit: the first page, in index order.
Listed(film) == { f \in FilesOf[film] : f < DefaultPaginationLimit }

\* FileFor: the file the room named, if the list has it.
FirstFile(film, file) == { f \in Listed(film) : \A g \in Listed(film) : f <= g }
FileFor(film, file) == { f \in Listed(film) : f = file }

\* CarryOut and what the window does with its outcome.  The row goes to the main
\* thread as it is listed now, and as none (NoFilm) when it is not.
CarryOut(c) ==
    LET o   == carrying[c]
        row == IF o.film \in list THEN o.film ELSE NoFilm
    IN
    /\ o # NoOffer /\ MainHasRoom
    /\ carrying' = [carrying EXCEPT ![c] = NoOffer]
    /\ \/ Spend("errors") /\ UNCHANGED <<adopted, main>>
       \/ FileFor(o.film, o.file) = {} /\ UNCHANGED <<left, adopted, main>>
       \/ /\ \E file \in FileFor(o.film, o.file) :
                OnMain([op |-> "adopt", film |-> row, file |-> file])
          /\ adopted' = TRUE
          /\ UNCHANGED left
    /\ UNCHANGED <<playVars, offer, have, list, current, selected, entry, presented, picks,
                   adding, posts, create, offered, started, meddled, lost>>

\* The main thread takes the next thing to do; of an adoption, presentFiles.
MainThread ==
    /\ main # <<>> /\ presented = NoOffer
    /\ main' = Tail(main)
    /\ IF Head(main).op = "text"
       THEN entry' = Head(main).film /\ UNCHANGED <<current, presented>>
       ELSE /\ current' = Head(main).film
            /\ presented' = [film |-> Head(main).film, file |-> Head(main).file]
            /\ UNCHANGED entry
    /\ UNCHANGED <<left, playVars, offer, adopted, have, list, selected, picks, adding,
                   posts, carrying, create, offered, started, meddled, lost>>

\* playFile, of an adoption or of a click: a goroutine for the current torrent, if
\* there is one, and this file.  Bound: two of the same at a time count as one.
Picked(file, by) == { [film |-> film, file |-> file, by |-> by] : film \in {current} \ {NoFilm} }

PlayAdopted ==
    /\ presented # NoOffer
    /\ presented' = NoOffer
    /\ picks' = picks \cup Picked(presented.file, "room")
    /\ UNCHANGED <<left, playVars, offer, adopted, have, list, current, selected, entry, main,
                   adding, posts, carrying, create, offered, started, meddled, lost>>

ClickFile(file) ==
    /\ Spend("clicks")
    /\ presented = NoOffer /\ current # NoFilm
    /\ file \in Listed(current)
    /\ picks' = picks \cup Picked(file, "person")
    /\ UNCHANGED <<playVars, offer, adopted, have, list, current, selected, entry, main,
                   presented, adding, posts, carrying, create, offered, started, meddled, lost>>

\* The goroutine: the selection is the window's once the backend has it, then a
\* player is found or started and given the stream.  What comes after, and what
\* the backend makes of it, is module Streaming's.
Plays(pick) ==
    /\ mpv.is # "gone"
    /\ selected' = pick.file
    /\ mpv' = Playing
    /\ started' = IF pick.by = "room" THEN started \cup {[film |-> pick.film, file |-> pick.file]}
                  ELSE started
    /\ UNCHANGED <<left, lost>>

\* The request fails, or the player's start, or Play of it.
PlayFails(pick) ==
    /\ \/ Spend("errors") /\ UNCHANGED <<selected, mpv>>
       \/ /\ IF mpv.is = "gone" THEN UNCHANGED left ELSE Spend("errors")
          /\ selected' = pick.file
          /\ UNCHANGED mpv \/ (mpv.is = "none" /\ mpv' = Playing)
    /\ lost' = (lost \/ pick.by = "room")
    /\ UNCHANGED started

PlayFile(pick) ==
    /\ pick \in picks
    /\ picks' = picks \ {pick}
    /\ Plays(pick) \/ PlayFails(pick)
    /\ UNCHANGED <<room, roster, stop, commands, decision, tick, settled, offer, adopted, have,
                   list, current, entry, main, presented, adding, posts, carrying, create,
                   offered, meddled>>

\* play: the files have arrived, and the goroutine itself presents them.  The
\* selection stays with the torrent it was made in.
OpenTorrent(film) ==
    /\ Spend("clicks")
    /\ film \in list
    /\ current' = film
    /\ meddled' = (meddled \/ presented # NoOffer)
    /\ UNCHANGED <<playVars, offer, adopted, have, list, selected, entry, main, presented, picks,
                   adding, posts, carrying, create, offered, started, lost>>

-----------------------------------------------------------------------------
(* The room's film: the host's half (createroom.go).                       *)

CreatePressed ==
    /\ current # NoFilm /\ create.at = "no" /\ presented = NoOffer
    /\ Spend("rooms")
    /\ create' = [NoCreate EXCEPT !.at = "magnet", !.film = current]
    /\ UNCHANGED <<playVars, offer, adopted, have, list, current, selected, entry, main,
                   presented, picks, adding, posts, carrying, offered, started, meddled, lost>>

\* roomMagnet: the torrent of the press, the file of this moment.
RoomMagnet ==
    /\ create.at = "magnet"
    /\ \/ create' = [create EXCEPT !.at = "join", !.file = selected] /\ UNCHANGED left
       \/ Spend("errors") /\ create' = NoCreate
    /\ UNCHANGED <<playVars, offer, adopted, have, list, current, selected, entry, main,
                   presented, picks, adding, posts, carrying, offered, started, meddled, lost>>

\* The old room is left, and the new one opened or not.
CreateRoom ==
    /\ \/ /\ create.at = "join" /\ LeaveRoom("host")
          /\ create' = [create EXCEPT !.at = "open"] /\ UNCHANGED left
       \/ /\ create.at = "open"
          /\ \E opens \in BOOLEAN :
                /\ JoinMesh(opens)
                /\ create' = IF opens THEN [create EXCEPT !.at = "announce"] ELSE NoCreate
    /\ UNCHANGED <<offer, adopted, have, list, current, selected, entry, main, presented, picks,
                   adding, posts, carrying, offered, started, meddled, lost>>

\* The film is announced; from here on it is the Room's.
Announce ==
    /\ create.at = "announce"
    /\ create' = NoCreate
    /\ UNCHANGED <<left, playVars, offer, adopted, have, list, current, selected, entry, main,
                   presented, picks, adding, posts, carrying, offered, started, meddled, lost>>

-----------------------------------------------------------------------------
Play ==
    \/ \E d \in Deciders : SyncTheRoomStop(d)
    \/ \E p \in Peers : (\E behind \in BOOLEAN : HearReport(p, behind))
                        \/ HearGreeting(p) \/ HearBye(p) \/ HearHost(p)
    \/ \E paused \in BOOLEAN : HearPause(paused) \/ Arrives(paused)
    \/ TickReads \/ TickActs \/ PlayerChanges \/ JoinRoom \/ MeshOfGuest

Film ==
    \/ \E named \in Announced : HearMagnet(named.film, named.file)
    \/ \E film \in Films : TorrentAdded(film) \/ OpenTorrent(film)
    \/ \E c \in Carriers : CarryOut(c)
    \/ \E file \in Files : ClickFile(file)
    \/ \E pick \in picks : PlayFile(pick)
    \/ AddTorrent \/ Refresh \/ MainThread \/ PlayAdopted
    \/ CreatePressed \/ RoomMagnet \/ CreateRoom \/ Announce

Next == Play \/ Film

\* The ticker ticks, goroutines end, the poll goes on and the main thread
\* works.  Nobody owes the window a message, a click or a working player.
Fairness ==
    /\ WF_vars(TickReads) /\ WF_vars(TickActs)
    /\ \A d \in Deciders : WF_vars(SyncTheRoomStop(d))
    /\ \A paused \in BOOLEAN : WF_vars(Arrives(paused))
    /\ WF_vars(AddTorrent) /\ WF_vars(Refresh) /\ WF_vars(MainThread) /\ WF_vars(PlayAdopted)
    /\ \A film \in Films : WF_vars(TorrentAdded(film))
    /\ \A c \in Carriers : WF_vars(CarryOut(c))
    /\ WF_vars(\E pick \in picks : PlayFile(pick))

Spec == Init /\ [][Next]_vars /\ Fairness

-----------------------------------------------------------------------------
(* Properties.                                                             *)

\* A host stops its room exactly while somebody is behind, itself included:
\* once the last decision ran undisturbed and none is under way, roomStopped
\* says what the roster and the host's own player say.  (A decision that
\* overlaps another, a departure of whoever is behind, a change of host and a
\* later room disturb it until the next decision.)
StopFollowsReports ==
    (settled /\ Hosting /\ \A d \in Deciders : decision[d].at = "idle")
        => (stop.stopped <=> AnyoneBuffering \/ stop.stalled)

\* What syncTheRoomStop and roomTick say: the room stops for whoever is behind,
\* for the host as well as for the guests, and is released exactly when the
\* data is back, whichever decisions overlapped.  Nobody leaves and no player
\* fails in the run that checks it.
StopsForWhoeverIsBehind ==
    (Hosting /\ \A d \in Deciders : decision[d].at = "idle")
        => (stop.stopped <=> AnyoneBuffering \/ stop.stalled)

\* A follower's player ends up in the room's play state, whatever overtook
\* what and whether or not it was running when the command came: the heartbeat
\* of roomTick brings it back.
FollowerConverges ==
    <>[](room.in /\ room.host \in Peers /\ mpv.is = "up" /\ room.paused # {}
            => room.paused = Paused)

\* What adoption plays is a pair the room named as one, never the torrent of
\* one announcement with the file of another, whichever polls and
\* announcements cross.
AdoptedAsNamed == meddled \/ started \subseteq offered

\* A film the room named comes to play at a guest that watches nothing else,
\* unless an add, a request or the player failed it, the guest's list of files
\* does not show the file named (the torrent has no such file, or it is beyond
\* the first page), or the guest has more torrents than a page of them shows.
FilmStarts ==
    offer # NoOffer ~>
        \/ started # {} \/ lost
        \/ \E film \in Films \cap {offer.film} : FileFor(film, offer.file) = {}
        \/ Cardinality(have) > DefaultPaginationLimit
        \/ current \notin {NoFilm, offer.film}
=============================================================================
