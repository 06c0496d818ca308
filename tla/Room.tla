-------------------------------- MODULE Room --------------------------------
(***************************************************************************)
(* A watch-together room: the Room driver every participant runs           *)
(* (frontend/internal/rtc/room.go) on top of the mesh of libp2p streams    *)
(* between them (frontend/internal/rtc/mesh.go).                           *)
(*                                                                         *)
(* Each participant owns one mesh and one Room.  The mesh keeps a stream   *)
(* per peer; the Room consumes what the streams deliver one message at a   *)
(* time and keeps the roster, the host role, the film and the play state.  *)
(* Here a stream has, at each end, a status                                *)
(*    none  the mesh has no entry for the peer                             *)
(*    new   addPeer made the entry, the greeting is not written yet        *)
(*    up    the greeting is written                                        *)
(*    down  the stream is dead and the read loop has not noticed           *)
(* and chan[p][q] is what p wrote to q and q's Room has not handled: the   *)
(* bytes in flight and p's share of q's incoming queue, in stream order.   *)
(* Rooms handle the heads of different streams in any order, which is the  *)
(* arrival order of the incoming queue.  The queue's capacity and the duel *)
(* of two streams to one peer belong to another level of detail.           *)
(***************************************************************************)
EXTENDS Naturals, Sequences

CONSTANTS
    Peer,     \* peer IDs; the code compares them as strings, here as numbers
    Creator,  \* the peer whose Join(isHost = true) opened the room
    Version,  \* the protocol each peer's greeting names; 0 when it names none
    Plans     \* what a run may hold, one plan per initial state

\* A plan: who is in the room, fully met and greeted, when the run starts; who
\* may join later; and the bounds on what happens to them.
Plan == [members     : SUBSET Peer,
         guests      : SUBSET Peer,
         gone        : Nat,   \* how many participants leave or crash
         cuts        : Nat,   \* how many streams the network cuts
         failedDials : Nat,   \* how many hinted dials fail
         toggles     : Nat,   \* how many times a host presses pause or play
         reports     : Nat]   \* how many times a player stalls or recovers

ASSUME PeerAssumption == Peer \subseteq Nat \ {0} /\ Creator \in Peer

ASSUME VersionAssumption == Version \in [Peer -> Nat]

ASSUME PlanAssumption ==
    Plans \subseteq Plan /\ \A plan \in Plans : Creator \in plan.members

\* The empty peer ID: no host known yet.
NoPeer == 0

LinkStatus == {"none", "new", "up", "down"}
PlayState  == {"unknown", "playing", "paused"}

\* What travels the streams, and the one mark that only lives in a reply being
\* sent: the place where onHello reads the play state.
Message ==
         [type : {"Hello"}, isHost : BOOLEAN]
    \cup [type : {"Magnet", "Bye", "PlayStateHere"}]
    \cup [type : {"Pause"}, play : {"playing", "paused"}]
    \cup [type : {"Buffering"}, buffering : BOOLEAN]
    \cup [type : {"Host"}, id : Peer]
    \cup [type : {"Peers"}, book : SUBSET Peer]

VARIABLES
    gone,      \* peers whose mesh is closed or whose process died
    invite,    \* the host whose invite code the peer joined with; NoPeer before the
               \* join, and for the creator, who pasted no code
    link,      \* link[p][q]: p's end of its stream to q
    chan,      \* chan[p][q]: messages from p that q's Room has not handled
    hints,     \* hints[p]: dials the address book started, still in flight
    outbox,    \* outbox[p]: what onHello of p's Room still has to send
    roster,    \* Room.peers: who said hello and has not said bye
    buffering, \* the roster entries whose Buffering flag is set
    refused,   \* Room.refused: peers of a protocol this build does not know
    hostPeer,  \* Room.hostPeer
    isHost,    \* Room.isHost
    magnet,    \* Room.magnet is set
    offered,   \* OnMagnet was called: the window was told what to watch
    play,      \* Room.paused and Room.pausedKnown
    spent      \* the plan, and how much of each of its bounds is used

meshVars == <<gone, invite, link, chan, hints>>
roomVars == <<outbox, roster, buffering, refused, hostPeer, isHost, magnet, offered, play>>
vars     == <<meshVars, roomVars, spent>>

Joined(p) == p \notin gone /\ (p = Creator \/ invite[p] # NoPeer)
Live      == {p \in Peer : Joined(p)}

ProtocolVersion == 2

\* What a peer's greeting says it speaks: no number means the build before the
\* field existed.  A later build is assumed to run these rules with its number.
Speaks(q)      == IF Version[q] = 0 THEN 1 ELSE Version[q]
Understands(p) == IF Speaks(p) > ProtocolVersion THEN Speaks(p) ELSE ProtocolVersion
Admits(p, q)   == Speaks(q) <= Understands(p)

\* Who has met and greeted has been admitted.
ASSUME MembersAssumption ==
    \A plan \in Plans : \A p, q \in plan.members : Admits(p, q)

-----------------------------------------------------------------------------
(* The rules the code computes.                                            *)

\* TakeoverHost: the smallest ID among the living.
TakeoverHost(ids) == CHOOSE p \in ids : \A q \in ids : p <= q

\* A mutant: the Room counts the others and forgets itself.
TakeoverWinnerForgetsSelf(p, known) == TakeoverHost(IF known = {} THEN {p} ELSE known)

\* takeoverWinner, over the peers a room knows and itself.
TakeoverWinner(p, known) == TakeoverHost(known \cup {p})

ShouldFollow(from, host) == from # NoPeer /\ from = host

-----------------------------------------------------------------------------
(* Writing to the streams.                                                 *)

Connected(p) == {q \in Peer : link[p][q] \in {"new", "up"}}

\* Send walks the peers in no particular order and stops at the first stream
\* that refuses the write.  With every stream healthy all of them get the
\* message; with a dead one among them, any subset of the healthy ones may.
Recipients(p) ==
    IF \E q \in Peer : link[p][q] = "down" THEN SUBSET Connected(p) ELSE {Connected(p)}

Delivered(ch, p, msg, to) ==
    [ch EXCEPT ![p] = [q \in Peer |-> IF q \in to THEN Append(ch[p][q], msg) ELSE ch[p][q]]]

Broadcast(p, msg) == \E to \in Recipients(p) : chan' = Delivered(chan, p, msg, to)

Hello(p)     == [type |-> "Hello", isHost |-> p = Creator]
MagnetMsg    == [type |-> "Magnet"]
Bye          == [type |-> "Bye"]
Pause(s)     == [type |-> "Pause", play |-> s]
Buffering(b) == [type |-> "Buffering", buffering |-> b]
Host(p)      == [type |-> "Host", id |-> p]
PeersMsg(b)  == [type |-> "Peers", book |-> b]
PlayStateHere == [type |-> "PlayStateHere"]

-----------------------------------------------------------------------------
(* The room as it stands when the run starts: the creator alone, or a room *)
(* that has been quiet for a while and whose members all know each other.  *)

Start(plan) ==
    LET members == plan.members IN
    /\ gone = {}
    /\ invite = [p \in Peer |-> IF p \in members \ {Creator} THEN Creator ELSE NoPeer]
    /\ link = [p \in Peer |-> [q \in Peer |->
                  IF p # q /\ {p, q} \subseteq members THEN "up" ELSE "none"]]
    /\ chan = [p \in Peer |-> [q \in Peer |-> <<>>]]
    /\ hints = [p \in Peer |-> {}]
    /\ outbox = [p \in Peer |-> <<>>]
    /\ roster = [p \in Peer |-> IF p \in members THEN members \ {p} ELSE {}]
    /\ buffering = [p \in Peer |-> {}]
    /\ refused = [p \in Peer |-> {}]
    /\ hostPeer = [p \in Peer |-> IF p \in members THEN Creator ELSE NoPeer]
    /\ isHost = [p \in Peer |-> p = Creator]
    /\ magnet = [p \in Peer |-> p \in members /\ members # {Creator}]
    /\ offered = [p \in Peer |-> p \in members \ {Creator}]
    /\ play = [p \in Peer |-> "unknown"]
    /\ spent = [plan |-> plan, gone |-> 0, cuts |-> 0, failedDials |-> 0,
                toggles |-> 0, reports |-> 0]

Init == \E plan \in Plans : Start(plan)

-----------------------------------------------------------------------------
(* The mesh: meeting, greeting, losing and leaving.                        *)

\* joinMesh with the invite code some host h shows.  A code from a newer build
\* is refused before the dial.
Join(p, h) ==
    /\ p \notin gone /\ p # Creator /\ invite[p] = NoPeer
    /\ p \in spent.plan.guests
    /\ h \in Live /\ h # p /\ isHost[h] /\ Admits(p, h)
    /\ invite' = [invite EXCEPT ![p] = h]
    /\ UNCHANGED <<gone, link, chan, hints, roomVars, spent>>

\* A dial of p's reached q: addPeer at both ends makes the entry.  The
\* greeting follows; a broadcast can slip in before it.
Meets(p, q) ==
    /\ link[p][q] = "none" /\ link[q][p] = "none"
    /\ {p, q} \subseteq Live
    /\ link' = [link EXCEPT ![p][q] = "new", ![q][p] = "new"]

\* dialInvited, and discoverLoop, which repeats the dial for the whole session.
DialInvited(p) ==
    /\ p \in Live /\ invite[p] # NoPeer
    /\ Meets(p, invite[p])
    /\ UNCHANGED <<gone, invite, chan, hints, roomVars, spent>>

\* The flight DialHint started ends in a stream, or finds one already there.
HintedDial(p, q) ==
    /\ q \in hints[p] /\ p \in Live
    /\ \/ Meets(p, q)
       \/ link[p][q] # "none" /\ UNCHANGED link
    /\ hints' = [hints EXCEPT ![p] = @ \ {q}]
    /\ UNCHANGED <<gone, invite, chan, roomVars, spent>>

\* The flight fails: the peer is gone, or its address does not answer.  Nobody
\* repeats it.
HintedDialFails(p, q) ==
    /\ q \in hints[p] /\ p \in Live
    /\ \/ q \notin Live /\ UNCHANGED spent
       \/ /\ spent.failedDials < spent.plan.failedDials
          /\ spent' = [spent EXCEPT !.failedDials = @ + 1]
    /\ hints' = [hints EXCEPT ![p] = @ \ {q}]
    /\ UNCHANGED <<gone, invite, link, chan, roomVars>>

\* The last step of addPeer: the greeting, with the role the mesh joined with.
Greet(p, q) ==
    /\ link[p][q] = "new" /\ p \in Live
    /\ link' = [link EXCEPT ![p][q] = "up"]
    /\ chan' = Delivered(chan, p, Hello(p), {q})
    /\ UNCHANGED <<gone, invite, hints, roomVars, spent>>

\* The network drops the stream; neither read loop has noticed.
Cut(p, q) ==
    /\ spent.cuts < spent.plan.cuts
    /\ p \in Live /\ link[p][q] \in {"new", "up"} /\ link[q][p] \in {"new", "up"}
    /\ link' = [link EXCEPT ![p][q] = "down", ![q][p] = "down"]
    /\ spent' = [spent EXCEPT !.cuts = @ + 1]
    /\ UNCHANGED <<gone, invite, chan, hints, roomVars>>

\* What was in flight on a dead stream can be lost, last bytes first.
Lose(p, q) ==
    /\ link[p][q] = "down" /\ p \in Live
    /\ chan[q][p] # <<>>
    /\ chan[q][p][Len(chan[q][p])] # Bye
    /\ chan' = [chan EXCEPT ![q][p] = SubSeq(@, 1, Len(@) - 1)]
    /\ UNCHANGED <<gone, invite, link, hints, roomVars, spent>>

\* A mutant: the read loop tells nobody (bug-0106 as it was).
NoticeSilently(p, q) ==
    /\ link[p][q] = "down" /\ p \in Live
    /\ link' = [link EXCEPT ![p][q] = "none"]
    /\ UNCHANGED <<gone, invite, chan, hints, roomVars, spent>>

\* The read loop reads the end of the stream: the entry goes, and a farewell is
\* manufactured for the Room.
Notice(p, q) ==
    /\ link[p][q] = "down" /\ p \in Live
    /\ link' = [link EXCEPT ![p][q] = "none"]
    /\ chan' = Delivered(chan, q, Bye, {p})
    /\ UNCHANGED <<gone, invite, hints, roomVars, spent>>

\* Close, which says goodbye to whoever the grace period lets it reach, or a
\* crash, which says it to nobody.  Either way the streams die under the others.
Depart(p) ==
    /\ p \in Live /\ spent.gone < spent.plan.gone
    /\ gone' = gone \cup {p}
    /\ invite' = [invite EXCEPT ![p] = NoPeer]
    /\ link' = [q \in Peer |-> [r \in Peer |->
                   IF q = p THEN "none"
                   ELSE IF r = p /\ link[q][p] # "none" THEN "down" ELSE link[q][r]]]
    /\ \E told \in SUBSET Connected(p) :
          chan' = [q \in Peer |-> [Delivered(chan, p, Bye, told)[q] EXCEPT ![p] = <<>>]]
    /\ hints' = [hints EXCEPT ![p] = {}]
    /\ outbox' = [outbox EXCEPT ![p] = <<>>]
    /\ roster' = [roster EXCEPT ![p] = {}]
    /\ buffering' = [buffering EXCEPT ![p] = {}]
    /\ refused' = [refused EXCEPT ![p] = {}]
    /\ hostPeer' = [hostPeer EXCEPT ![p] = NoPeer]
    /\ isHost' = [isHost EXCEPT ![p] = FALSE]
    /\ magnet' = [magnet EXCEPT ![p] = FALSE]
    /\ offered' = [offered EXCEPT ![p] = FALSE]
    /\ play' = [play EXCEPT ![p] = "unknown"]
    /\ spent' = [spent EXCEPT !.gone = @ + 1]

-----------------------------------------------------------------------------
(* What the window asks of the Room.                                       *)

\* AnnounceMagnet, once, by the peer that created the room.
AnnounceMagnet(p) ==
    /\ p = Creator /\ p \in Live /\ ~magnet[p]
    /\ magnet' = [magnet EXCEPT ![p] = TRUE]
    /\ Broadcast(p, MagnetMsg)
    /\ UNCHANGED <<gone, invite, link, hints, spent>>
    /\ UNCHANGED <<outbox, roster, buffering, refused, hostPeer, isHost, offered, play>>

\* Pause and Play: only a peer whose Room says it is the host sends them.
PauseOrPlay(p) ==
    /\ p \in Live /\ isHost[p] /\ spent.toggles < spent.plan.toggles
    /\ play' = [play EXCEPT ![p] = IF @ = "paused" THEN "playing" ELSE "paused"]
    /\ Broadcast(p, Pause(play'[p]))
    /\ spent' = [spent EXCEPT !.toggles = @ + 1]
    /\ UNCHANGED <<gone, invite, link, hints>>
    /\ UNCHANGED <<outbox, roster, buffering, refused, hostPeer, isHost, magnet, offered>>

\* ReportBuffering: anybody, about itself.
ReportBuffering(p, b) ==
    /\ p \in Live /\ spent.reports < spent.plan.reports
    /\ Broadcast(p, Buffering(b))
    /\ spent' = [spent EXCEPT !.reports = @ + 1]
    /\ UNCHANGED <<gone, invite, link, hints, roomVars>>

-----------------------------------------------------------------------------
(* Room.handle: one message at a time, and the answer to a greeting goes   *)
(* out before the next message is looked at.                               *)

Receives(p, q, type) ==
    /\ chan[q][p] # <<>> /\ Head(chan[q][p]).type = type
    /\ outbox[p] = <<>> /\ p \in Live

Consumed(p, q) == [chan EXCEPT ![q][p] = Tail(@)]

Drop(p, q) == chan' = Consumed(p, q) /\ UNCHANGED <<gone, invite, link, hints, spent>>

\* Everything a refused peer says but a greeting is dropped.
Heeds(p, q) == q \notin refused[p]

\* A mutant: the roster entry is made before the versions are compared.
RefuseHelloTooLate(p, q) ==
    /\ Receives(p, q, "Hello")
    /\ ~Admits(p, q) \/ ~Heeds(p, q)
    /\ Drop(p, q)
    /\ roster' = [roster EXCEPT ![p] = @ \cup {q}]
    /\ refused' = [refused EXCEPT ![p] = @ \cup {q}]
    /\ UNCHANGED <<outbox, buffering, hostPeer, isHost, magnet, offered, play>>

\* A greeting in a protocol newer than this build's, or from a peer refused
\* before: not admitted.
RefuseHello(p, q) ==
    /\ Receives(p, q, "Hello")
    /\ ~Admits(p, q) \/ ~Heeds(p, q)
    /\ Drop(p, q)
    /\ refused' = [refused EXCEPT ![p] = @ \cup {q}]
    /\ UNCHANGED <<outbox, roster, buffering, hostPeer, isHost, magnet, offered, play>>

\* Two mutants: the answer leaves out the film, or the book.
AnswerWithoutFilm(p, book) == <<Host(p), PlayStateHere, PeersMsg(book)>>
AnswerWithoutBook(p, book) ==
    (IF magnet[p] THEN <<MagnetMsg>> ELSE <<>>) \o <<Host(p), PlayStateHere>>

\* What a host answers a greeting with, to everybody: the film, its claim, the
\* play state and the book of whoever is in the roster now.
Answer(p, book) ==
    (IF magnet[p] THEN <<MagnetMsg>> ELSE <<>>) \o <<Host(p), PlayStateHere, PeersMsg(book)>>

\* onHello: a fresh roster entry; a greeting from a host moves the role; a host
\* answers.
ReceiveHello(p, q) ==
    /\ Receives(p, q, "Hello")
    /\ Admits(p, q) /\ Heeds(p, q)
    /\ Drop(p, q)
    /\ roster' = [roster EXCEPT ![p] = @ \cup {q}]
    /\ buffering' = [buffering EXCEPT ![p] = @ \ {q}]
    /\ hostPeer' = [hostPeer EXCEPT ![p] = IF Head(chan[q][p]).isHost THEN q ELSE @]
    /\ outbox' = [outbox EXCEPT ![p] = IF isHost[p] THEN Answer(p, roster'[p]) ELSE <<>>]
    /\ UNCHANGED <<refused, isHost, magnet, offered, play>>

\* The next message of the answer.  The play state is read only when its turn
\* comes, and then it is on its way whatever the host does meanwhile.
SendReply(p) ==
    /\ outbox[p] # <<>> /\ p \in Live
    /\ LET rest == Tail(outbox[p])
           resolved == IF rest = <<>> \/ rest[1] # PlayStateHere THEN rest
                       ELSE IF play[p] = "unknown" THEN Tail(rest)
                       ELSE <<Pause(play[p])>> \o Tail(rest)
       IN outbox' = [outbox EXCEPT ![p] = resolved]
    /\ Broadcast(p, Head(outbox[p]))
    /\ UNCHANGED <<gone, invite, link, hints, spent>>
    /\ UNCHANGED <<roster, buffering, refused, hostPeer, isHost, magnet, offered, play>>

IgnoreRefused(p, q) ==
    /\ ~Heeds(p, q)
    /\ \E type \in {"Magnet", "Pause", "Buffering", "Host", "Bye", "Peers"} : Receives(p, q, type)
    /\ Drop(p, q)
    /\ UNCHANGED roomVars

\* onMagnet: with no host known the first magnet binds its sender.
ReceiveMagnet(p, q) ==
    /\ Receives(p, q, "Magnet") /\ Heeds(p, q)
    /\ Drop(p, q)
    /\ hostPeer' = [hostPeer EXCEPT ![p] = IF @ = NoPeer THEN q ELSE @]
    /\ magnet' = [magnet EXCEPT ![p] = TRUE]
    /\ offered' = [offered EXCEPT ![p] = @ \/ ShouldFollow(q, hostPeer'[p])]
    /\ UNCHANGED <<outbox, roster, buffering, refused, isHost, play>>

\* Pause counts only from the host this Room believes in.
ReceivePause(p, q) ==
    /\ Receives(p, q, "Pause") /\ Heeds(p, q)
    /\ Drop(p, q)
    /\ play' = [play EXCEPT ![p] =
          IF ShouldFollow(q, hostPeer[p]) THEN Head(chan[q][p]).play ELSE @]
    /\ UNCHANGED <<outbox, roster, buffering, refused, hostPeer, isHost, magnet, offered>>

\* A mutant: the flag of a peer that said no hello is kept.
ReceiveBufferingOfAnyone(p, q) ==
    /\ Receives(p, q, "Buffering") /\ Heeds(p, q)
    /\ Drop(p, q)
    /\ buffering' = [buffering EXCEPT ![p] =
          IF Head(chan[q][p]).buffering THEN @ \cup {q} ELSE @ \ {q}]
    /\ UNCHANGED <<outbox, roster, refused, hostPeer, isHost, magnet, offered, play>>

ReceiveBuffering(p, q) ==
    /\ Receives(p, q, "Buffering") /\ Heeds(p, q)
    /\ Drop(p, q)
    /\ buffering' = [buffering EXCEPT ![p] =
          IF Head(chan[q][p]).buffering THEN @ \cup ({q} \cap roster[p]) ELSE @ \ {q}]
    /\ UNCHANGED <<outbox, roster, refused, hostPeer, isHost, magnet, offered, play>>

\* onHost: a self-announcement is believed from the takeover winner only, any
\* other name from the current host only.
ReceiveHost(p, q) ==
    /\ Receives(p, q, "Host") /\ Heeds(p, q)
    /\ Drop(p, q)
    /\ LET named == Head(chan[q][p]).id
           believable == IF named = q THEN q = TakeoverWinner(p, roster[p])
                                      ELSE q = hostPeer[p]
       IN /\ hostPeer' = [hostPeer EXCEPT ![p] = IF believable THEN named ELSE @]
          /\ isHost' = [isHost EXCEPT ![p] = IF believable THEN named = p ELSE @]
    /\ UNCHANGED <<outbox, roster, buffering, refused, magnet, offered, play>>

\* onBye: the entry goes; when it was the host's, the smallest ID of those left
\* takes the role, and announces it if it is this peer.
ReceiveBye(p, q) ==
    /\ Receives(p, q, "Bye") /\ Heeds(p, q)
    /\ LET left   == roster[p] \ {q}
           winner == TakeoverWinner(p, left)
           takes  == q = hostPeer[p] /\ winner = p
       IN /\ roster' = [roster EXCEPT ![p] = left]
          /\ buffering' = [buffering EXCEPT ![p] = @ \ {q}]
          /\ hostPeer' = [hostPeer EXCEPT ![p] = IF q = @ THEN winner ELSE @]
          /\ isHost' = [isHost EXCEPT ![p] = @ \/ takes]
          /\ \E to \in IF takes THEN Recipients(p) ELSE {{}} :
                chan' = Delivered(Consumed(p, q), p, Host(p), to)
    /\ UNCHANGED <<gone, invite, link, hints, spent>>
    /\ UNCHANGED <<outbox, refused, magnet, offered, play>>

\* onPeers, and DialHint behind it: dial whoever is in the book and neither in
\* the roster, nor connected, nor being dialled.
ReceivePeers(p, q) ==
    /\ Receives(p, q, "Peers") /\ Heeds(p, q)
    /\ chan' = Consumed(p, q)
    /\ hints' = [hints EXCEPT ![p] = @ \cup
          {r \in Head(chan[q][p]).book \ (roster[p] \cup {p}) : link[p][r] = "none"}]
    /\ UNCHANGED <<gone, invite, link, spent, roomVars>>

Handle(p, q) ==
    \/ RefuseHello(p, q) \/ ReceiveHello(p, q) \/ IgnoreRefused(p, q)
    \/ ReceiveMagnet(p, q) \/ ReceivePause(p, q) \/ ReceiveBuffering(p, q)
    \/ ReceiveHost(p, q) \/ ReceiveBye(p, q) \/ ReceivePeers(p, q)

-----------------------------------------------------------------------------
Next ==
    \/ \E p \in Peer :
          \/ DialInvited(p) \/ Depart(p)
          \/ AnnounceMagnet(p) \/ PauseOrPlay(p) \/ SendReply(p)
          \/ \E b \in BOOLEAN : ReportBuffering(p, b)
    \/ \E p, q \in Peer :
          \/ Join(p, q) \/ HintedDial(p, q) \/ HintedDialFails(p, q)
          \/ Greet(p, q) \/ Cut(p, q) \/ Lose(p, q) \/ Notice(p, q)
          \/ Handle(p, q)

Spec == Init /\ [][Next]_vars

\* The goroutines of a peer that never stop: its read loops, the Room's pump,
\* its flights and its discovery.
Works(p) ==
    \/ SendReply(p) \/ DialInvited(p)
    \/ \E q \in Peer : \/ HintedDial(p, q) \/ (HintedDialFails(p, q) /\ q \in gone)
                      \/ Greet(p, q) \/ Notice(p, q) \/ Handle(p, q)

\* Somebody goes on while anybody can.  That is less than the scheduler gives,
\* and enough, since each step uses up a message, a dial or a stream.  Nobody
\* owes the room a click, a departure or a cut.
Fairness == WF_vars(\E p \in Peer : Works(p))

FairSpec == Spec /\ Fairness

-----------------------------------------------------------------------------
(* Properties.                                                             *)

\* Every variable has its type.
TypeOK ==
    /\ gone \subseteq Peer
    /\ invite \in [Peer -> Peer \cup {NoPeer}]
    /\ link \in [Peer -> [Peer -> LinkStatus]]
    /\ chan \in [Peer -> [Peer -> Seq(Message)]]
    /\ hints \in [Peer -> SUBSET Peer]
    /\ outbox \in [Peer -> Seq(Message)]
    /\ roster \in [Peer -> SUBSET Peer]
    /\ buffering \in [Peer -> SUBSET Peer] /\ \A p \in Peer : buffering[p] \subseteq roster[p]
    /\ refused \in [Peer -> SUBSET Peer]
    /\ hostPeer \in [Peer -> Peer \cup {NoPeer}]
    /\ isHost \in [Peer -> BOOLEAN]
    /\ magnet \in [Peer -> BOOLEAN]
    /\ offered \in [Peer -> BOOLEAN]
    /\ play \in [Peer -> PlayState]
    /\ spent \in [plan : Plans, gone : Nat, cuts : Nat, failedDials : Nat,
                  toggles : Nat, reports : Nat]

\* p will still learn of q's departure: its stream to q stands (dead or not), or
\* a farewell from q waits to be handled.
HasBye(s)         == \E i \in 1..Len(s) : s[i] = Bye
WillHearBye(p, q) == link[p][q] # "none" \/ HasBye(chan[q][p])

\* Nobody stays in a roster forever: a departure, a crash included, always ends
\* in a farewell the Room handles (bug-0106).
NoGhostMember == \A p \in Live : \A q \in roster[p] : WillHearBye(p, q)

\* Nor does anybody hold the host role forever: the host a Room follows is
\* itself, or a peer whose departure will reach it and hand the role over.  The
\* exception is a host refused after it was followed: its farewell is dropped.
NoGhostHost ==
    \A p \in Live : \/ hostPeer[p] \in {NoPeer, p} \cup refused[p]
                    \/ WillHearBye(p, hostPeer[p])

\* Nothing is in flight between the living and every dial has ended.
Quiescent ==
    /\ \A p \in Live : outbox[p] = <<>> /\ hints[p] = {}
    /\ \A p \in Live, q \in Peer : chan[q][p] = <<>> /\ link[p][q] \in {"none", "up"}
    /\ \A p \in Live : invite[p] \in Live => link[p][invite[p]] = "up"

\* Nobody left, nothing was cut, no dial failed, and everybody speaks a protocol
\* the others know.
Undisturbed ==
    /\ gone = {} /\ spent.cuts = 0 /\ spent.failedDials = 0
    /\ \A p, q \in Live : Admits(p, q)

OneHost == \E h \in Live \cup {NoPeer} :
               \A p \in Live : hostPeer[p] = h /\ (isHost[p] <=> p = h)

\* Everybody in a settled room follows the same host, and that peer knows it is
\* the host and nobody else thinks so of itself: "every remaining peer converges
\* on the same new host".
HostAgreement == Quiescent => OneHost

\* So it is in a room that settled before its hosts left, one after the other
\* and in the middle of each other's takeovers, and in one that only grows; no
\* stream being cut between two peers who are both still there.
HostAgreementInOneRoom ==
    spent.cuts = 0 /\ (Undisturbed \/ Live \subseteq spent.plan.members) => HostAgreement

\* A refusal is not a suggestion (idea-0145): what a refused peer says afterwards,
\* and whatever order its greeting and its messages arrive in, moves it neither
\* into the roster nor into the host role.  A host that was followed before its
\* greeting was refused stays, and is the exception.
RefusalSticks ==
    [][\A p \in Peer : \A q \in refused[p] :
          /\ q \notin roster'[p]
          /\ hostPeer'[p] = q => hostPeer[p] = q]_vars

\* Nobody is stranded by joining late: whoever is in the room when it settles
\* was told the film by the answer to its greeting, though it is announced once.
FilmReachesEveryone ==
    Quiescent /\ Creator \in Live /\ magnet[Creator] =>
        \A p \in Live \ {Creator} : offered[p]

\* So it is as long as nothing goes wrong, in whatever order the announcement,
\* the greetings and the answers cross.
FilmReachesNewcomers == Undisturbed => FilmReachesEveryone

\* The room is a mesh and not a star around the host: once it settles everybody
\* has a stream to everybody and everybody in the roster (bug-0136).
MeshGrows ==
    Quiescent /\ Undisturbed =>
        \A p \in Live : /\ roster[p] = Live \ {p}
                        /\ \A q \in Live \ {p} : link[p][q] = "up"

\* A room left without its host ends up, and stays, with one living host that
\* everybody follows, unless everybody left: whenever only members of the first
\* hour are there, and no stream was cut between two of them.
OneHostEventually ==
    <>[](spent.cuts = 0 /\ Live \subseteq spent.plan.members => OneHost)
=============================================================================
