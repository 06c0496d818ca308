-------------------------------- MODULE Mesh --------------------------------
(***************************************************************************)
(* The streams under a room: how two nodes that dial each other, once or   *)
(* several times at once, end up with one stream, and what the Room above  *)
(* is told about it (frontend/internal/rtc/mesh.go; the admission queue is *)
(* rtc/p2p.go's).  Room.tla takes the result, a link per pair; this module *)
(* looks at the dials, the admission, the rule for two streams to one peer *)
(* and the read loops one step at a time.                                  *)
(***************************************************************************)
EXTENDS Naturals, Sequences, FiniteSets

CONSTANTS
    Node,         \* peer IDs, compared as the code compares its strings
    Plans,        \* what a run may hold, one plan per initial state
    MaxStreams,   \* how many streams a run may have at once
    AdmittedCap,  \* capacity of a node's queue of admitted streams
    IncomingCap   \* capacity of a mesh's queue of incoming messages

Stream == 1..MaxStreams

\* No node, and no stream.
None == 0

\* A plan: whom each node's invite code names, whom the room's address book
\* will name to it, and how many streams break and dials fail.
Plan == [invited : [Node -> Node \cup {None}], hinted : [Node -> SUBSET Node],
         cuts : Nat, failedDials : Nat]

ASSUME NodeAssumption == Node \subseteq Nat \ {0}

ASSUME BoundAssumption ==
    {MaxStreams, AdmittedCap, IncomingCap} \subseteq Nat \ {0} /\ Plans \subseteq Plan

\* A dial: the one join starts, the discovery's, or one the book asked for.  A
\* hinted one is checked before it is marked in dialing.
Flight == [to : Node, kind : {"invite", "discover", "hint"},
           phase : {"checked", "dialing", "landed"}, stream : Stream \cup {None}]

VARIABLES
    flights,   \* flights[n]: n's dials
    dialing,   \* Mesh.dialing: peers a marked flight is on its way to
    book,      \* book[n]: hints the Room has still to pass on
    opener,    \* opener[s]: whose dial opened stream s
    answerer,  \* answerer[s]: whom it reached
    closed,    \* closed[s]: the ends that closed it
    cut,       \* streams the network broke
    arriving,  \* arriving[n]: streams that passed n's handshake
    admitted,  \* Node.admitted: the queue of those
    entry,     \* Mesh.peers: entry[n][m] is the stream n uses for m
    greeting,  \* streams addPeer took and has not greeted on
    hello,     \* hello[n]: streams with a greeting of n's the far end has not read
    reading,   \* streams with a read loop
    ended,     \* streams whose read loop removed the entry and still owes the farewell
    incoming,  \* Mesh.incoming
    roster,    \* Room.peers above the mesh
    doubtful,  \* no state of the code: doubtful[n] are the peers a farewell of which found
               \* n's queue full, or a greeting of which came on a stream not in use
    spent      \* the plan, and how much of its bounds is used

dialVars   == <<flights, dialing, book>>
streamVars == <<opener, answerer, closed, cut>>
doorVars   == <<arriving, admitted>>
peerVars   == <<entry, greeting, hello, reading, ended>>
upVars     == <<incoming, roster, doubtful>>
vars       == <<dialVars, streamVars, doorVars, peerVars, upVars, spent>>

Opened    == {s \in Stream : opener[s] # None}
Dead(s)   == closed[s] # {} \/ s \in cut
Far(n, s) == IF opener[s] = n THEN answerer[s] ELSE opener[s]

\* Streams nobody holds, queues, reads or owes anything for.
Forgotten ==
    {s \in Opened : \A n \in Node :
        /\ \A f \in flights[n] : f.stream # s
        /\ s \notin arriving[n] \cup greeting[n] \cup reading[n] \cup ended[n]
        /\ \A i \in DOMAIN admitted[n] : admitted[n][i] # s}

\* The number the next stream takes: a fresh one, or when none is left that of a
\* forgotten stream.
Unused ==
    LET fresh == Stream \ Opened
        free  == IF fresh = {} THEN Forgotten ELSE fresh
    IN  {s \in free : \A r \in free : s <= r}

Tell(n, from, kind) == [incoming EXCEPT ![n] = Append(@, [from |-> from, kind |-> kind])]

-----------------------------------------------------------------------------
\* Join started: the invited peer is being dialled, nobody has met.
Init ==
    /\ spent \in [plan : Plans, cuts : {0}, failedDials : {0}]
    /\ flights = [n \in Node |->
          LET host == spent.plan.invited[n] IN
          IF host = None THEN {}
          ELSE {[to |-> host, kind |-> "invite", phase |-> "dialing", stream |-> None]}]
    /\ dialing = [n \in Node |-> {}]
    /\ book = spent.plan.hinted
    /\ opener = [s \in Stream |-> None]
    /\ answerer = [s \in Stream |-> None]
    /\ closed = [s \in Stream |-> {}]
    /\ cut = {}
    /\ arriving = [n \in Node |-> {}]
    /\ admitted = [n \in Node |-> <<>>]
    /\ entry = [n \in Node |-> [m \in Node |-> None]]
    /\ greeting = [n \in Node |-> {}]
    /\ hello = [n \in Node |-> {}]
    /\ reading = [n \in Node |-> {}]
    /\ ended = [n \in Node |-> {}]
    /\ incoming = [n \in Node |-> <<>>]
    /\ roster = [n \in Node |-> {}]
    /\ doubtful = [n \in Node |-> {}]

-----------------------------------------------------------------------------
(* Dials.                                                                  *)

\* A tick of discoverLoop: the invited peer is looked up again whenever it is
\* neither known nor being dialled; one lookup at a time.
Discover(n) ==
    LET host == spent.plan.invited[n] IN
    /\ host # None
    /\ entry[n][host] = None /\ host \notin dialing[n]
    /\ \A f \in flights[n] : f.kind # "discover"
    /\ dialing' = [dialing EXCEPT ![n] = @ \cup {host}]
    /\ flights' = [flights EXCEPT ![n] = @ \cup
          {[to |-> host, kind |-> "discover", phase |-> "dialing", stream |-> None]}]
    /\ UNCHANGED <<book, streamVars, doorVars, peerVars, upVars, spent>>

\* DialHint looks whether the peer is known or being dialled...
HintChecked(n, m) ==
    /\ m \in book[n]
    /\ book' = [book EXCEPT ![n] = @ \ {m}]
    /\ flights' = [flights EXCEPT ![n] =
          IF entry[n][m] # None \/ m \in dialing[n] THEN @
          ELSE @ \cup {[to |-> m, kind |-> "hint", phase |-> "checked", stream |-> None]}]
    /\ UNCHANGED <<dialing, streamVars, doorVars, peerVars, upVars, spent>>

\* ...and marks it under another lock.
HintTakesOff(n, f) ==
    /\ f \in flights[n] /\ f.phase = "checked"
    /\ dialing' = [dialing EXCEPT ![n] = @ \cup {f.to}]
    /\ flights' = [flights EXCEPT ![n] = (@ \ {f}) \cup {[f EXCEPT !.phase = "dialing"]}]
    /\ UNCHANGED <<book, streamVars, doorVars, peerVars, upVars, spent>>

\* DialRoom: the far end's handshake said ok.
Dial(n, f) ==
    /\ f \in flights[n] /\ f.phase = "dialing"
    /\ \E s \in Unused :
          /\ opener' = [opener EXCEPT ![s] = n]
          /\ answerer' = [answerer EXCEPT ![s] = f.to]
          /\ closed' = [closed EXCEPT ![s] = {}]
          /\ cut' = cut \ {s}
          /\ arriving' = [arriving EXCEPT ![f.to] = @ \cup {s}]
          /\ flights' = [flights EXCEPT ![n] =
                (@ \ {f}) \cup {[f EXCEPT !.phase = "landed", !.stream = s]}]
    /\ UNCHANGED <<dialing, book, admitted, peerVars, upVars, spent>>

\* The flight is over: the deferred delete takes the mark away.
Unmarked(n, f) == IF f.kind = "invite" THEN dialing ELSE [dialing EXCEPT ![n] = @ \ {f.to}]

\* A mutant: a failed dial keeps its mark.
DialFailsMarked(n, f) ==
    /\ f \in flights[n] /\ f.phase = "dialing"
    /\ spent.failedDials < spent.plan.failedDials
    /\ spent' = [spent EXCEPT !.failedDials = @ + 1]
    /\ flights' = [flights EXCEPT ![n] = @ \ {f}]
    /\ UNCHANGED <<dialing, book, streamVars, doorVars, peerVars, upVars>>

\* No address answered.  Only the discovery tries again.
DialFails(n, f) ==
    /\ f \in flights[n] /\ f.phase = "dialing"
    /\ spent.failedDials < spent.plan.failedDials
    /\ spent' = [spent EXCEPT !.failedDials = @ + 1]
    /\ flights' = [flights EXCEPT ![n] = @ \ {f}]
    /\ dialing' = Unmarked(n, f)
    /\ UNCHANGED <<book, streamVars, doorVars, peerVars, upVars>>

-----------------------------------------------------------------------------
(* Admission, and the rule for two streams to one peer.                    *)

\* The end of serveHandshake: the stream is queued, or reset when the queue is
\* full, though the dialler has read its ok.
Admit(n, s) ==
    /\ s \in arriving[n]
    /\ arriving' = [arriving EXCEPT ![n] = @ \ {s}]
    /\ \/ /\ Len(admitted[n]) < AdmittedCap
          /\ admitted' = [admitted EXCEPT ![n] = Append(@, s)]
          /\ UNCHANGED closed
       \/ /\ Len(admitted[n]) = AdmittedCap
          /\ closed' = [closed EXCEPT ![s] = @ \cup {n}]
          /\ UNCHANGED admitted
    /\ UNCHANGED <<dialVars, opener, answerer, cut, peerVars, upVars, spent>>

\* A mutant: the first stream wins.
KeepsTheFirst(old, s) == old # None

\* addPeer keeps the stream it has when the peer that opened it has no greater
\* an ID than the one that opened the new stream.
Keeps(old, s) == old # None /\ opener[old] <= opener[s]

\* A mutant: the refused stream is left open.
AddPeerWithoutClosing(n, s) ==
    LET old == entry[n][Far(n, s)] IN
    IF Keeps(old, s) THEN UNCHANGED <<entry, greeting, hello, reading, closed>>
    ELSE /\ entry' = [entry EXCEPT ![n][Far(n, s)] = s]
         /\ closed' = IF old = None THEN closed ELSE [closed EXCEPT ![old] = @ \cup {n}]
         /\ greeting' = [greeting EXCEPT ![n] = @ \cup {s}]
         /\ reading' = [reading EXCEPT ![n] = @ \cup {s}]
         /\ UNCHANGED hello

\* The locked part of addPeer, the close of the loser and the start of the read
\* loop; the greeting follows.
AddPeer(n, s) ==
    LET old == entry[n][Far(n, s)] IN
    IF Keeps(old, s)
    THEN /\ closed' = [closed EXCEPT ![s] = @ \cup {n}]
         /\ hello' = [hello EXCEPT ![Far(n, s)] = @ \ {s}]
         /\ UNCHANGED <<entry, greeting, reading>>
    ELSE /\ entry' = [entry EXCEPT ![n][Far(n, s)] = s]
         /\ closed' = IF old = None THEN closed ELSE [closed EXCEPT ![old] = @ \cup {n}]
         /\ greeting' = [greeting EXCEPT ![n] = @ \cup {s}]
         /\ reading' = [reading EXCEPT ![n] = @ \cup {s}]
         /\ UNCHANGED hello

\* A dial of n's landed.
Land(n, f) ==
    /\ f \in flights[n] /\ f.phase = "landed"
    /\ AddPeer(n, f.stream)
    /\ flights' = [flights EXCEPT ![n] = @ \ {f}]
    /\ dialing' = Unmarked(n, f)
    /\ UNCHANGED <<book, opener, answerer, cut, doorVars, ended, upVars, spent>>

\* acceptLoop: one admitted stream at a time, its greeting included.
Accept(n) ==
    /\ admitted[n] # <<>>
    /\ \A s \in greeting[n] : opener[s] = n
    /\ AddPeer(n, Head(admitted[n]))
    /\ admitted' = [admitted EXCEPT ![n] = Tail(@)]
    /\ UNCHANGED <<dialVars, opener, answerer, cut, arriving, ended, upVars, spent>>

\* The greeting, which nobody checks the outcome of.
Greet(n, s) ==
    /\ s \in greeting[n]
    /\ greeting' = [greeting EXCEPT ![n] = @ \ {s}]
    /\ hello' = [hello EXCEPT ![n] = IF Dead(s) THEN @ ELSE @ \cup {s}]
    /\ UNCHANGED <<dialVars, streamVars, doorVars, entry, reading, ended, upVars, spent>>

\* The network breaks a stream.
Cut(s) ==
    /\ s \in Opened \ cut /\ spent.cuts < spent.plan.cuts
    /\ cut' = cut \cup {s}
    /\ spent' = [spent EXCEPT !.cuts = @ + 1]
    /\ UNCHANGED <<dialVars, opener, answerer, closed, doorVars, peerVars, upVars>>

-----------------------------------------------------------------------------
(* The read loops and the Room above.                                      *)

\* A line arrives, read before this end closed the stream or while it is open; a
\* full queue makes the loop wait.
ReadHello(n, s) ==
    /\ s \in reading[n] /\ s \in hello[Far(n, s)]
    /\ Len(incoming[n]) < IncomingCap
    /\ hello' = [hello EXCEPT ![Far(n, s)] = @ \ {s}]
    /\ incoming' = Tell(n, Far(n, s), "Hello")
    /\ doubtful' = [doubtful EXCEPT ![n] =
          IF entry[n][Far(n, s)] = s THEN @ ELSE @ \cup {Far(n, s)}]
    /\ UNCHANGED <<dialVars, streamVars, doorVars, entry, greeting, reading, ended, roster, spent>>

\* The stream's end: at once when it broke or this end closed it, after what is
\* left to read when the far end did.  The entry goes if it is this stream's.
EndOfStream(n, s) ==
    /\ s \in reading[n]
    /\ \/ n \in closed[s]
       \/ s \in cut
       \/ closed[s] # {} /\ s \notin hello[Far(n, s)]
    /\ reading' = [reading EXCEPT ![n] = @ \ {s}]
    /\ hello' = [hello EXCEPT ![Far(n, s)] = @ \ {s}]
    /\ IF entry[n][Far(n, s)] = s
       THEN /\ entry' = [entry EXCEPT ![n][Far(n, s)] = None]
            /\ ended' = [ended EXCEPT ![n] = @ \cup {s}]
       ELSE UNCHANGED <<entry, ended>>
    /\ UNCHANGED <<dialVars, streamVars, doorVars, greeting, upVars, spent>>

\* A mutant: nobody is told (bug-0106 as it was).
FarewellNever(n, s) ==
    /\ s \in ended[n]
    /\ ended' = [ended EXCEPT ![n] = @ \ {s}]
    /\ UNCHANGED <<dialVars, streamVars, doorVars, entry, greeting, hello, reading, upVars, spent>>

\* The manufactured farewell, dropped when the queue is full.
Farewell(n, s) ==
    /\ s \in ended[n]
    /\ ended' = [ended EXCEPT ![n] = @ \ {s}]
    /\ \/ /\ Len(incoming[n]) < IncomingCap
          /\ incoming' = Tell(n, Far(n, s), "Bye")
          /\ UNCHANGED doubtful
       \/ /\ Len(incoming[n]) = IncomingCap
          /\ doubtful' = [doubtful EXCEPT ![n] = @ \cup {Far(n, s)}]
          /\ UNCHANGED incoming
    /\ UNCHANGED <<dialVars, streamVars, doorVars, entry, greeting, hello, reading, roster, spent>>

\* The Room's pump: a greeting makes a roster entry, a farewell removes it.
Handle(n) ==
    /\ incoming[n] # <<>>
    /\ LET in == Head(incoming[n]) IN
       roster' = [roster EXCEPT ![n] =
          IF in.kind = "Hello" THEN @ \cup {in.from} ELSE @ \ {in.from}]
    /\ incoming' = [incoming EXCEPT ![n] = Tail(@)]
    /\ UNCHANGED <<dialVars, streamVars, doorVars, peerVars, doubtful, spent>>

-----------------------------------------------------------------------------
Next ==
    \/ \E n \in Node :
          \/ Discover(n) \/ Accept(n) \/ Handle(n)
          \/ \E m \in Node : HintChecked(n, m)
          \/ \E f \in flights[n] :
                HintTakesOff(n, f) \/ Dial(n, f) \/ DialFails(n, f) \/ Land(n, f)
          \/ \E s \in Stream :
                \/ Admit(n, s) \/ Greet(n, s)
                \/ ReadHello(n, s) \/ EndOfStream(n, s) \/ Farewell(n, s)
    \/ \E s \in Stream : Cut(s)

Spec == Init /\ [][Next]_vars

\* The discovery keeps ticking, and the goroutines of a node's dials, of its
\* acceptance, of its streams and of its Room are scheduled.  Nobody owes the
\* room a cut or a failed dial.
Fairness ==
    \A n \in Node :
       /\ WF_vars(Discover(n)) /\ WF_vars(Accept(n)) /\ WF_vars(Handle(n))
       /\ WF_vars(\E m \in Node : HintChecked(n, m))
       /\ \A kind \in {"invite", "discover", "hint"} :
             WF_vars(\E f \in flights[n] :
                        f.kind = kind /\ (HintTakesOff(n, f) \/ Dial(n, f) \/ Land(n, f)))
       /\ \A s \in Stream :
             WF_vars(Admit(n, s) \/ Greet(n, s) \/ ReadHello(n, s)
                     \/ EndOfStream(n, s) \/ Farewell(n, s))

FairSpec == Spec /\ Fairness

-----------------------------------------------------------------------------
(* Properties.                                                             *)

\* Every variable has its type, and an entry is a stream between its two nodes.
MeshTypeOK ==
    /\ \A n \in Node : flights[n] \subseteq Flight
    /\ dialing \in [Node -> SUBSET Node] /\ book \in [Node -> SUBSET Node]
    /\ opener \in [Stream -> Node \cup {None}] /\ answerer \in [Stream -> Node \cup {None}]
    /\ closed \in [Stream -> SUBSET Node] /\ cut \subseteq Opened
    /\ \A n \in Node : arriving[n] \subseteq Opened
    /\ \A n \in Node : admitted[n] \in Seq(Opened) /\ Len(admitted[n]) <= AdmittedCap
    /\ \A n, m \in Node : entry[n][m] \in Opened \cup {None}
    /\ \A n, m \in Node : entry[n][m] # None => Far(n, entry[n][m]) = m
    /\ \A n \in Node : greeting[n] \cup hello[n] \cup reading[n] \cup ended[n] \subseteq Opened
    /\ \A n \in Node : incoming[n] \in Seq([from : Node, kind : {"Hello", "Bye"}])
    /\ \A n \in Node : Len(incoming[n]) <= IncomingCap
    /\ roster \in [Node -> SUBSET Node] /\ doubtful \in [Node -> SUBSET Node]

\* Nothing is on its way: every dial ended, every stream that ended was noticed
\* and every message was handled.  The discovery's next tick may be ahead.
Settled ==
    /\ \A n \in Node : /\ flights[n] = {} /\ book[n] = {}
                       /\ arriving[n] = {} /\ admitted[n] = <<>>
                       /\ greeting[n] = {} /\ ended[n] = {} /\ incoming[n] = <<>>
    /\ \A n \in Node : \A s \in reading[n] : ~Dead(s) /\ s \notin hello[Far(n, s)]

\* However the dials crossed, a settled pair uses the same stream at both ends, or
\* none at either.
EntriesAgree == Settled => \A n, m \in Node : entry[n][m] = entry[m][n]

\* And no stream is left open that an end does not use: a loser is closed, a
\* stream the far end gave up is noticed.
NoForgottenStream ==
    Settled => \A s \in Opened : ~Dead(s) =>
        entry[opener[s]][answerer[s]] = s /\ entry[answerer[s]][opener[s]] = s

\* A roster names only peers that are connected.  There are two ways to spoil that
\* and no other: a farewell that found the queue full, and a greeting that came on
\* a stream another one had replaced.
NoGhost ==
    Settled => \A n \in Node : \A m \in roster[n] : entry[n][m] # None \/ m \in doubtful[n]

Unbroken == spent.cuts = 0 /\ spent.failedDials = 0

Met(n, m) == entry[n][m] # None /\ entry[n][m] = entry[m][n]

\* Two nodes whose dials reached each other stay connected, "both keep the same
\* stream and neither tears down the connection the other is using".
DuelHasAWinner ==
    Settled /\ Unbroken => \A s \in Opened : Met(opener[s], answerer[s])

\* No plan names a node to itself: a room skips itself in the book (room.go), and
\* libp2p dials nobody's own ID.
PlansApart == \A p \in Plans : \A n \in Node : p.invited[n] # n /\ n \notin p.hinted[n]

\* A room whose nodes all fit a queue of admitted streams, each with one, and a run
\* that has a stream for every node and one to spare.
RoomFits ==
    /\ PlansApart
    /\ IsFiniteSet(Node) /\ Cardinality(Node) <= AdmittedCap + 1 /\ Cardinality(Node) < MaxStreams

\* So it is when each of the two opened at most one stream.
DuelOfTwoHasAWinner ==
    (\A r, s \in Opened : r # s => opener[r] # opener[s]) => DuelHasAWinner

\* A guest and the host its code names end up connected and stay so, whatever
\* dials failed, crossed or were cut before.
GuestMeetsHost ==
    <>[](\A n, m \in Node : spent.plan.invited[n] = m => Met(n, m))
=============================================================================
