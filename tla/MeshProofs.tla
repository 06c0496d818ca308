------------------------------ MODULE MeshProofs ------------------------------
(***************************************************************************)
(* Proofs about Mesh: whatever dials cross, fail or break, a pair that has *)
(* settled uses one stream at both ends, no stream stays open that an end  *)
(* does not use, and a roster names nobody that is not connected, but for  *)
(* the two ways the model names.                                           *)
(*                                                                         *)
(* EndsInv says who can hold a stream at all.  HeldInv says of every       *)
(* stream that is neither broken nor closed that each of its ends has it   *)
(* in its entry or is still on its way to put it there: with nothing on    *)
(* the way it is in both entries.  GhostInv says the same of the peers a   *)
(* Room has heard of, the messages still in its queue counted as read.     *)
(*                                                                         *)
(* DuelInv is for the case two dials cross: as long as no node opened two  *)
(* streams, a stream is closed only for one that the other of the same two *)
(* nodes opened, and whose opener has the smaller ID; so one of the two is *)
(* never closed.                                                           *)
(***************************************************************************)
EXTENDS Mesh, FiniteSetTheorems, TLAPS

-----------------------------------------------------------------------------
(* Sequences.                                                              *)

LEMMA AppendIs ==
    ASSUME NEW S, NEW q \in Seq(S), NEW e \in S
    PROVE  /\ Append(q, e) \in Seq(S) /\ Len(Append(q, e)) = Len(q) + 1 /\ Len(q) \in Nat
           /\ DOMAIN q = 1..Len(q) /\ DOMAIN Append(q, e) = 1..(Len(q) + 1)
           /\ Append(q, e)[Len(q) + 1] = e
           /\ \A i \in 1..Len(q) : Append(q, e)[i] = q[i]
OBVIOUS

LEMMA TailIs ==
    ASSUME NEW S, NEW q \in Seq(S), q # <<>>
    PROVE  /\ Tail(q) \in Seq(S) /\ Len(Tail(q)) = Len(q) - 1 /\ Len(q) \in Nat \ {0}
           /\ DOMAIN q = 1..Len(q) /\ DOMAIN Tail(q) = 1..(Len(q) - 1)
           /\ Head(q) = q[1] /\ Head(q) \in S
           /\ \A i \in 1..(Len(q) - 1) : Tail(q)[i] = q[i + 1]
OBVIOUS

LEMMA ItemOfSeq ==
    ASSUME NEW S, NEW q \in Seq(S), NEW i \in DOMAIN q
    PROVE  q[i] \in S
OBVIOUS

-----------------------------------------------------------------------------
(* Types.                                                                  *)

Message == [from : Node, kind : {"Hello", "Bye"}]

Shape ==
    /\ flights \in [Node -> SUBSET Flight]
    /\ dialing \in [Node -> SUBSET Node] /\ book \in [Node -> SUBSET Node]
    /\ opener \in [Stream -> Node \cup {None}] /\ answerer \in [Stream -> Node \cup {None}]
    /\ closed \in [Stream -> SUBSET Node] /\ cut \subseteq Stream
    /\ arriving \in [Node -> SUBSET Stream]
    /\ admitted \in [Node -> Seq(Stream)]
    /\ entry \in [Node -> [Node -> Stream \cup {None}]]
    /\ greeting \in [Node -> SUBSET Stream] /\ hello \in [Node -> SUBSET Stream]
    /\ reading \in [Node -> SUBSET Stream] /\ ended \in [Node -> SUBSET Stream]
    /\ incoming \in [Node -> Seq(Message)]
    /\ roster \in [Node -> SUBSET Node] /\ doubtful \in [Node -> SUBSET Node]
    /\ spent \in [plan : Plans, cuts : Nat, failedDials : Nat]

\* n is an end of stream s.
EndOf(n, s) == s \in Opened /\ n \in {opener[s], answerer[s]}

Queued(n, s) == \E i \in DOMAIN admitted[n] : admitted[n][i] = s

\* A stream is only held by its ends: a landed dial by the end that opened it, the
\* queues of the door by the other.  An entry is a stream that is read.
EndsInv ==
    /\ \A s \in Opened : answerer[s] \in Node
    /\ \A n \in Node : \A f \in flights[n] : f.phase = "landed" =>
          f.stream \in Opened /\ opener[f.stream] = n /\ answerer[f.stream] = f.to
    /\ \A n \in Node : \A s \in Stream : s \in arriving[n] \/ Queued(n, s) =>
          s \in Opened /\ answerer[s] = n
    /\ \A n \in Node : \A s \in greeting[n] \cup reading[n] \cup ended[n] : EndOf(n, s)
    /\ \A n \in Node : hello[n] \subseteq Opened
    /\ cut \subseteq Opened
    /\ \A n, m \in Node : entry[n][m] # None =>
          entry[n][m] \in reading[n] /\ Far(n, entry[n][m]) = m

LEMMA NamesApart == None \notin Node /\ None \notin Stream /\ Node \subseteq Nat
BY NodeAssumption DEF None, Stream

\* The number of a new stream is one nobody has to do with.
LEMMA UnusedIs ==
    ASSUME Shape, EndsInv, NEW s \in Unused
    PROVE  /\ s \in Stream
           /\ \A n \in Node :
                 /\ \A f \in flights[n] : f.phase = "landed" => f.stream # s
                 /\ s \notin arriving[n] /\ ~Queued(n, s)
                 /\ s \notin greeting[n] /\ s \notin reading[n] /\ s \notin ended[n]
                 /\ \A m \in Node : entry[n][m] # s
<1>1. CASE s \in Stream \ Opened
  <2>1. s \in Stream /\ s \notin Opened
    BY <1>1
  <2>2. \A n \in Node : s \notin greeting[n] /\ s \notin reading[n] /\ s \notin ended[n]
    BY <2>1 DEF EndsInv, EndOf
  <2>3. \A n \in Node : s \notin arriving[n] /\ ~Queued(n, s)
    BY <2>1 DEF EndsInv
  <2>4. \A n \in Node : \A f \in flights[n] : f.phase = "landed" => f.stream # s
    BY <2>1 DEF EndsInv
  <2>5. \A n, m \in Node : entry[n][m] # s
    BY <2>1, <2>2, NamesApart DEF EndsInv
  <2> QED BY <2>1, <2>2, <2>3, <2>4, <2>5
<1>2. CASE s \in Forgotten
  <2>1. s \in Stream
    BY <1>2 DEF Forgotten, Opened
  <2>2. \A n \in Node : /\ \A f \in flights[n] : f.stream # s
                        /\ s \notin arriving[n] /\ s \notin greeting[n] /\ s \notin reading[n]
                        /\ s \notin ended[n] /\ ~Queued(n, s)
    BY <1>2 DEF Forgotten, Queued
  <2>3. \A n, m \in Node : entry[n][m] # s
    BY <2>1, <2>2, NamesApart DEF EndsInv
  <2> QED BY <2>1, <2>2, <2>3
<1> QED BY <1>1, <1>2 DEF Unused

\* What a stream's other end is.
LEMMA FarIs ==
    ASSUME Shape, EndsInv, NEW n \in Node, NEW s, EndOf(n, s)
    PROVE  /\ s \in Stream /\ Far(n, s) \in Node /\ opener[s] \in Node /\ answerer[s] \in Node
           /\ opener[s] = n => Far(n, s) = answerer[s]
           /\ answerer[s] = n => Far(n, s) = opener[s]
<1>1. s \in Stream /\ opener[s] # None /\ answerer[s] \in Node
  BY DEF EndOf, EndsInv, Opened
<1>2. opener[s] \in Node
  BY <1>1 DEF Shape
<1> QED BY <1>1, <1>2 DEF Far, EndOf

-----------------------------------------------------------------------------
(* Two streams to one peer.                                                *)

\* addPeer keeps what it has and closes the stream, or takes the stream and closes
\* what it had.
LEMMA AddPeerIs ==
    ASSUME Shape, EndsInv, NEW n \in Node, NEW s, EndOf(n, s), AddPeer(n, s)
    PROVE  LET m == Far(n, s) IN
           /\ m \in Node /\ s \in Stream
           /\ closed' \in [Stream -> SUBSET Node] /\ hello' \in [Node -> SUBSET Stream]
           /\ entry' \in [Node -> [Node -> Stream \cup {None}]]
           /\ greeting' \in [Node -> SUBSET Stream] /\ reading' \in [Node -> SUBSET Stream]
           /\ \A r \in Stream : closed[r] \subseteq closed'[r]
           /\ \A k \in Node : /\ hello'[k] \subseteq hello[k] /\ reading[k] \subseteq reading'[k]
                              /\ \A r \in greeting'[k] \cup reading'[k] :
                                    r \in greeting[k] \cup reading[k] \/ (k = n /\ r = s)
           /\ \A k, l \in Node : k # n \/ l # m => entry'[k][l] = entry[k][l]
           /\ \/ entry'[n][m] = entry[n][m] /\ n \in closed'[s]
              \/ /\ entry'[n][m] = s /\ s \in reading'[n]
                 /\ entry[n][m] # None => n \in closed'[entry[n][m]]
<1> DEFINE m == Far(n, s)
           old == entry[n][m]
<1>1. m \in Node /\ s \in Stream
  BY FarIs
<1>2. old \in Stream \cup {None}
  BY <1>1 DEF Shape
<1> HIDE DEF m
<1>3. CASE Keeps(old, s)
  <2>1. /\ closed' = [closed EXCEPT ![s] = closed[s] \cup {n}]
        /\ hello' = [hello EXCEPT ![m] = hello[m] \ {s}]
        /\ UNCHANGED <<entry, greeting, reading>>
    BY <1>3 DEF AddPeer, m
  <2> QED BY <1>1, <2>1 DEF Shape, m
<1>4. CASE ~Keeps(old, s)
  <2>1. /\ entry' = [entry EXCEPT ![n][m] = s]
        /\ closed' = IF old = None THEN closed ELSE [closed EXCEPT ![old] = closed[old] \cup {n}]
        /\ greeting' = [greeting EXCEPT ![n] = greeting[n] \cup {s}]
        /\ reading' = [reading EXCEPT ![n] = reading[n] \cup {s}]
        /\ hello' = hello
    BY <1>4 DEF AddPeer, m
  <2>2. /\ closed' \in [Stream -> SUBSET Node] /\ \A r \in Stream : closed[r] \subseteq closed'[r]
        /\ old # None => n \in closed'[old]
    BY <1>2, <2>1 DEF Shape
  <2>3. /\ entry' \in [Node -> [Node -> Stream \cup {None}]] /\ entry'[n][m] = s
        /\ \A k, l \in Node : k # n \/ l # m => entry'[k][l] = entry[k][l]
    BY <1>1, <2>1 DEF Shape
  <2>4. /\ greeting' \in [Node -> SUBSET Stream] /\ reading' \in [Node -> SUBSET Stream]
        /\ s \in reading'[n]
        /\ \A k \in Node : /\ reading[k] \subseteq reading'[k]
                           /\ \A r \in greeting'[k] \cup reading'[k] :
                                 r \in greeting[k] \cup reading[k] \/ (k = n /\ r = s)
    BY <1>1, <2>1 DEF Shape
  <2>5. hello' \in [Node -> SUBSET Stream] /\ \A k \in Node : hello'[k] \subseteq hello[k]
    BY <2>1 DEF Shape
  <2> QED BY <1>1, <2>2, <2>3, <2>4, <2>5 DEF m
<1> QED BY <1>3, <1>4

-----------------------------------------------------------------------------
(* The invariant, and what leaves its parts alone.                         *)

\* A stream neither broken nor closed is in the entry of each of its ends, or on its
\* way there: a landed dial at one, in the queues of the door at the other.
HeldInv ==
    \A s \in Opened : ~Dead(s) =>
        /\ \/ \E f \in flights[opener[s]] : f.phase = "landed" /\ f.stream = s
           \/ entry[opener[s]][answerer[s]] = s
        /\ \/ s \in arriving[answerer[s]] \/ Queued(answerer[s], s)
           \/ entry[answerer[s]][opener[s]] = s

\* m is in the roster of n once the messages n has are handled.
Heard(n, m) ==
    \/ m \in roster[n] /\ \A i \in DOMAIN incoming[n] : incoming[n][i].from # m
    \/ \E i \in DOMAIN incoming[n] :
          /\ incoming[n][i].from = m /\ incoming[n][i].kind = "Hello"
          /\ \A j \in DOMAIN incoming[n] : j > i => incoming[n][j].from # m

\* Such a peer is connected, or a farewell of it is owed, or there is doubt about it.
GhostInv ==
    \A n, m \in Node : Heard(n, m) =>
        entry[n][m] # None \/ m \in doubtful[n] \/ \E s \in ended[n] : Far(n, s) = m

MeshInv == Shape /\ EndsInv /\ HeldInv /\ GhostInv

\* No dial lands or is forgotten.
SameLandings ==
    \A n \in Node : \A f \in Flight : f.phase = "landed" =>
        (f \in flights'[n] <=> f \in flights[n])

LEMMA EndsSame ==
    ASSUME Shape, EndsInv, SameLandings, flights' \in [Node -> SUBSET Flight],
           UNCHANGED <<opener, answerer, doorVars, entry, reading>>,
           \A n \in Node : greeting'[n] \subseteq greeting[n],
           \A n \in Node : ended'[n] \subseteq ended[n],
           \A n \in Node : hello'[n] \subseteq Opened,
           cut' \subseteq Opened
    PROVE  EndsInv'
<1>1. Opened' = Opened /\ \A n \in Node, s \in Stream : EndOf(n, s)' <=> EndOf(n, s)
  BY DEF Opened, EndOf
<1>2. \A n \in Node : \A f \in flights'[n] : f.phase = "landed" => f \in flights[n]
  BY DEF SameLandings
<1>3. \A n \in Node, s \in Stream : Queued(n, s)' <=> Queued(n, s)
  BY DEF Queued, doorVars
<1>4. \A n, s : Far(n, s)' = Far(n, s)
  BY DEF Far
<1>5. \A n \in Node : \A s \in greeting'[n] \cup reading[n] \cup ended'[n] :
         s \in Stream /\ EndOf(n, s)
  BY DEF Shape, EndsInv
<1>6. \A n, m \in Node : entry[n][m] # None => Far(n, entry[n][m])' = m
  BY <1>4 DEF EndsInv
<1> QED BY <1>1, <1>2, <1>3, <1>5, <1>6 DEF EndsInv, doorVars

LEMMA HeldSame ==
    ASSUME Shape, EndsInv, HeldInv, SameLandings,
           UNCHANGED <<opener, answerer, doorVars, entry>>,
           \A s \in Stream : closed[s] \subseteq closed'[s], cut \subseteq cut'
    PROVE  HeldInv'
<1> SUFFICES ASSUME NEW s \in Opened, ~Dead(s)'
             PROVE  /\ \/ \E f \in flights'[opener[s]] : f.phase = "landed" /\ f.stream = s
                       \/ entry[opener[s]][answerer[s]] = s
                    /\ \/ s \in arriving[answerer[s]] \/ Queued(answerer[s], s)
                       \/ entry[answerer[s]][opener[s]] = s
  BY DEF HeldInv, Opened, Queued, doorVars
<1>1. s \in Stream /\ ~Dead(s) /\ opener[s] \in Node
  BY DEF Opened, Dead, Shape
<1>2. /\ \/ \E f \in flights[opener[s]] : f.phase = "landed" /\ f.stream = s
         \/ entry[opener[s]][answerer[s]] = s
      /\ \/ s \in arriving[answerer[s]] \/ Queued(answerer[s], s)
         \/ entry[answerer[s]][opener[s]] = s
  BY <1>1 DEF HeldInv
<1>3. flights[opener[s]] \subseteq Flight
  BY <1>1 DEF Shape
<1> QED BY <1>1, <1>2, <1>3 DEF SameLandings

LEMMA GhostSame ==
    ASSUME GhostInv, UNCHANGED <<opener, answerer, ended, upVars>>,
           \A n, m \in Node : entry[n][m] # None => entry'[n][m] # None
    PROVE  GhostInv'
<1>1. \A n, s : Far(n, s)' = Far(n, s)
  BY DEF Far
<1>2. \A n, m \in Node : Heard(n, m)' <=> Heard(n, m)
  BY DEF Heard, upVars
<1> QED BY <1>1, <1>2 DEF GhostInv, upVars

\* A step of the dials before they land.
LEMMA DialsBefore ==
    ASSUME MeshInv, SameLandings, flights' \in [Node -> SUBSET Flight],
           dialing' \in [Node -> SUBSET Node], book' \in [Node -> SUBSET Node],
           UNCHANGED <<streamVars, doorVars, peerVars, upVars>>,
           spent' \in [plan : Plans, cuts : Nat, failedDials : Nat]
    PROVE  MeshInv'
<1> USE DEF streamVars, peerVars
<1>1. Shape'
  BY DEF MeshInv, Shape, doorVars, upVars
<1>2. EndsInv'
  <2>1. (\A n \in Node : hello'[n] \subseteq Opened) /\ cut' \subseteq Opened
    BY DEF MeshInv, EndsInv
  <2> QED BY <2>1, EndsSame DEF MeshInv
<1>3. HeldInv'
  BY HeldSame DEF MeshInv
<1>4. GhostInv'
  BY GhostSame DEF MeshInv
<1> QED BY <1>1, <1>2, <1>3, <1>4 DEF MeshInv

-----------------------------------------------------------------------------
(* Dials.                                                                  *)

LEMMA PlanIs ==
    ASSUME Shape
    PROVE  /\ spent.plan.invited \in [Node -> Node \cup {None}]
           /\ spent.plan.hinted \in [Node -> SUBSET Node]
BY BoundAssumption DEF Shape, Plan

LEMMA DiscoverKeeps ==
    ASSUME MeshInv, NEW n \in Node, Discover(n) PROVE MeshInv'
<1> DEFINE host == spent.plan.invited[n]
           f == [to |-> host, kind |-> "discover", phase |-> "dialing", stream |-> None]
<1>1. host \in Node
  BY PlanIs DEF Discover, MeshInv
<1>2. f \in Flight /\ f.phase = "dialing"
  BY <1>1 DEF Flight
<1>3. /\ dialing' = [dialing EXCEPT ![n] = dialing[n] \cup {host}]
      /\ flights' = [flights EXCEPT ![n] = flights[n] \cup {f}]
      /\ UNCHANGED <<book, streamVars, doorVars, peerVars, upVars, spent>>
  BY DEF Discover
<1> HIDE DEF host, f
<1>4. /\ flights' \in [Node -> SUBSET Flight] /\ dialing' \in [Node -> SUBSET Node]
      /\ SameLandings
  BY <1>1, <1>2, <1>3 DEF MeshInv, Shape, SameLandings
<1> QED BY <1>3, <1>4, DialsBefore DEF MeshInv, Shape

LEMMA HintCheckedKeeps ==
    ASSUME MeshInv, NEW n \in Node, NEW m \in Node, HintChecked(n, m) PROVE MeshInv'
<1> DEFINE f == [to |-> m, kind |-> "hint", phase |-> "checked", stream |-> None]
<1>1. f \in Flight /\ f.phase = "checked"
  BY DEF Flight
<1>2. /\ book' = [book EXCEPT ![n] = book[n] \ {m}]
      /\ \/ flights' = [flights EXCEPT ![n] = flights[n]]
         \/ flights' = [flights EXCEPT ![n] = flights[n] \cup {f}]
      /\ UNCHANGED <<dialing, streamVars, doorVars, peerVars, upVars, spent>>
  BY DEF HintChecked
<1> HIDE DEF f
<1>3. book' \in [Node -> SUBSET Node]
  BY <1>2 DEF MeshInv, Shape
<1>4. flights' \in [Node -> SUBSET Flight] /\ SameLandings
  <2>1. flights \in [Node -> SUBSET Flight]
    BY DEF MeshInv, Shape
  <2>2. CASE flights' = [flights EXCEPT ![n] = flights[n]]
    BY <2>1, <2>2 DEF SameLandings
  <2>3. CASE flights' = [flights EXCEPT ![n] = flights[n] \cup {f}]
    BY <1>1, <2>1, <2>3 DEF SameLandings
  <2> QED BY <1>2, <2>2, <2>3
<1> QED BY <1>2, <1>3, <1>4, DialsBefore DEF MeshInv, Shape

LEMMA HintTakesOffKeeps ==
    ASSUME MeshInv, NEW n \in Node, NEW f \in flights[n], HintTakesOff(n, f) PROVE MeshInv'
<1> DEFINE g == [f EXCEPT !.phase = "dialing"]
<1>1. f \in Flight /\ f.to \in Node /\ f.phase = "checked"
  BY DEF HintTakesOff, MeshInv, Shape, Flight
<1>2. g \in Flight /\ g.phase = "dialing"
  BY <1>1 DEF Flight
<1>3. /\ dialing' = [dialing EXCEPT ![n] = dialing[n] \cup {f.to}]
      /\ flights' = [flights EXCEPT ![n] = (flights[n] \ {f}) \cup {g}]
      /\ UNCHANGED <<book, streamVars, doorVars, peerVars, upVars, spent>>
  BY DEF HintTakesOff
<1> HIDE DEF g
<1>4. /\ flights' \in [Node -> SUBSET Flight] /\ dialing' \in [Node -> SUBSET Node]
      /\ SameLandings
  BY <1>1, <1>2, <1>3 DEF MeshInv, Shape, SameLandings
<1> QED BY <1>3, <1>4, DialsBefore DEF MeshInv, Shape

LEMMA UnmarkedIs ==
    ASSUME Shape, NEW n \in Node, NEW f PROVE Unmarked(n, f) \in [Node -> SUBSET Node]
BY DEF Shape, Unmarked

LEMMA DialFailsKeeps ==
    ASSUME MeshInv, NEW n \in Node, NEW f \in flights[n], DialFails(n, f) PROVE MeshInv'
<1>1. /\ f.phase = "dialing" /\ dialing' = Unmarked(n, f)
      /\ flights' = [flights EXCEPT ![n] = flights[n] \ {f}]
      /\ spent' = [spent EXCEPT !.failedDials = spent.failedDials + 1]
      /\ UNCHANGED <<book, streamVars, doorVars, peerVars, upVars>>
  BY DEF DialFails
<1>2. flights' \in [Node -> SUBSET Flight] /\ SameLandings
  BY <1>1 DEF MeshInv, Shape, SameLandings
<1>3. spent' \in [plan : Plans, cuts : Nat, failedDials : Nat]
  <2> DEFINE k == spent.failedDials + 1
  <2>1. spent \in [plan : Plans, cuts : Nat, failedDials : Nat] /\ k \in Nat
    BY DEF MeshInv, Shape
  <2>2. spent' = [spent EXCEPT !.failedDials = k]
    BY <1>1
  <2> HIDE DEF k
  <2> QED BY <2>1, <2>2
<1>4. dialing' \in [Node -> SUBSET Node] /\ book' \in [Node -> SUBSET Node]
  BY <1>1, UnmarkedIs DEF MeshInv, Shape
<1> QED BY <1>1, <1>2, <1>3, <1>4, DialsBefore

LEMMA DialKeeps ==
    ASSUME MeshInv, NEW n \in Node, NEW f \in flights[n], Dial(n, f) PROVE MeshInv'
<1>1. Shape /\ EndsInv /\ HeldInv /\ GhostInv
  BY DEF MeshInv
<1>2. f \in Flight /\ f.to \in Node /\ f.phase = "dialing"
  BY <1>1 DEF Dial, Shape, Flight
<1>3. PICK s \in Unused :
         /\ opener' = [opener EXCEPT ![s] = n]
         /\ answerer' = [answerer EXCEPT ![s] = f.to]
         /\ closed' = [closed EXCEPT ![s] = {}]
         /\ cut' = cut \ {s}
         /\ arriving' = [arriving EXCEPT ![f.to] = arriving[f.to] \cup {s}]
         /\ flights' = [flights EXCEPT ![n] =
               (flights[n] \ {f}) \cup {[f EXCEPT !.phase = "landed", !.stream = s]}]
  BY DEF Dial
<1>4. UNCHANGED <<dialing, book, admitted, peerVars, upVars, spent>>
  BY DEF Dial
<1>5. /\ s \in Stream
      /\ \A k \in Node :
            /\ \A h \in flights[k] : h.phase = "landed" => h.stream # s
            /\ s \notin arriving[k] /\ ~Queued(k, s)
            /\ s \notin greeting[k] /\ s \notin reading[k] /\ s \notin ended[k]
            /\ \A m \in Node : entry[k][m] # s
  BY <1>1, UnusedIs
<1> DEFINE g == [f EXCEPT !.phase = "landed", !.stream = s]
<1>6. g \in Flight /\ g.phase = "landed" /\ g.stream = s /\ g.to = f.to
  BY <1>2, <1>5 DEF Flight
<1>7. flights' = [flights EXCEPT ![n] = (flights[n] \ {f}) \cup {g}]
  BY <1>3
<1> HIDE DEF g
<1>8. /\ flights' \in [Node -> SUBSET Flight]
      /\ \A k \in Node : \A h \in flights'[k] : h \in flights[k] \/ (k = n /\ h = g)
      /\ \A k \in Node : \A h \in flights[k] : h.phase = "landed" => h \in flights'[k]
      /\ g \in flights'[n]
  BY <1>1, <1>2, <1>6, <1>7 DEF Shape
<1>9. /\ opener' \in [Stream -> Node \cup {None}] /\ answerer' \in [Stream -> Node \cup {None}]
      /\ closed' \in [Stream -> SUBSET Node] /\ cut' \subseteq Stream
      /\ arriving' \in [Node -> SUBSET Stream]
      /\ opener'[s] = n /\ answerer'[s] = f.to /\ s \in arriving'[f.to]
      /\ \A r \in Stream : r # s => /\ opener'[r] = opener[r] /\ answerer'[r] = answerer[r]
                                    /\ closed'[r] = closed[r] /\ (r \in cut' <=> r \in cut)
      /\ s \notin cut'
      /\ \A k \in Node : /\ arriving[k] \subseteq arriving'[k]
                         /\ \A r \in arriving'[k] : r \in arriving[k] \/ (r = s /\ k = f.to)
  BY <1>1, <1>2, <1>3, <1>5 DEF Shape
<1>10. Shape'
  BY <1>1, <1>4, <1>8, <1>9 DEF Shape, peerVars, upVars
<1>11. /\ \A r : r \in Opened' <=> r \in Opened \/ r = s
       /\ \A k, r : r \in Stream /\ r # s => Far(k, r)' = Far(k, r)
  BY <1>5, <1>9, NamesApart DEF Opened, Far
<1>12. Opened \subseteq Stream /\ \A k \in Node, r \in Stream : Queued(k, r)' <=> Queued(k, r)
  BY <1>4 DEF Opened, Queued
<1>13. EndsInv'
  <2>1. \A r \in Opened' : answerer'[r] \in Node
    BY <1>1, <1>2, <1>9, <1>11, <1>12 DEF EndsInv
  <2>2. \A k \in Node : \A h \in flights'[k] : h.phase = "landed" =>
           h.stream \in Opened' /\ opener'[h.stream] = k /\ answerer'[h.stream] = h.to
    <3> SUFFICES ASSUME NEW k \in Node, NEW h \in flights'[k], h.phase = "landed"
                 PROVE  h.stream \in Opened' /\ opener'[h.stream] = k /\ answerer'[h.stream] = h.to
      OBVIOUS
    <3>1. CASE h \in flights[k]
      <4>1. h.stream # s /\ h.stream \in Opened /\ opener[h.stream] = k /\ answerer[h.stream] = h.to
        BY <3>1, <1>1, <1>5 DEF EndsInv
      <4> QED BY <4>1, <1>9, <1>11, <1>12
    <3>2. CASE k = n /\ h = g
      BY <3>2, <1>6, <1>9, <1>11
    <3> QED BY <3>1, <3>2, <1>8
  <2>3. \A k \in Node : \A r \in Stream : r \in arriving'[k] \/ Queued(k, r)' =>
           r \in Opened' /\ answerer'[r] = k
    BY <1>1, <1>5, <1>9, <1>11, <1>12 DEF EndsInv
  <2>4. \A k \in Node : \A r \in greeting[k] \cup reading[k] \cup ended[k] :
           r \in Stream /\ r # s /\ r \in Opened' /\ k \in {opener'[r], answerer'[r]}
    BY <1>1, <1>5, <1>9, <1>11, <1>12 DEF EndsInv, EndOf
  <2>5. \A k \in Node : hello'[k] \subseteq Opened'
    BY <1>1, <1>4, <1>11 DEF EndsInv, peerVars
  <2>6. cut' \subseteq Opened'
    BY <1>1, <1>3, <1>11 DEF EndsInv
  <2>7. \A k, m \in Node : entry[k][m] # None =>
           entry[k][m] \in reading[k] /\ Far(k, entry[k][m])' = m
    <3> SUFFICES ASSUME NEW k \in Node, NEW m \in Node, entry[k][m] # None
                 PROVE  entry[k][m] \in reading[k] /\ Far(k, entry[k][m])' = m
      OBVIOUS
    <3>1. entry[k][m] \in reading[k] /\ Far(k, entry[k][m]) = m /\ reading[k] \subseteq Stream
      BY <1>1 DEF EndsInv, Shape
    <3> QED BY <3>1, <1>4, <1>5, <1>11 DEF peerVars
  <2> QED BY <1>4, <2>1, <2>2, <2>3, <2>4, <2>5, <2>6, <2>7 DEF EndsInv, EndOf, peerVars
<1>14. HeldInv'
  <2> SUFFICES ASSUME NEW r \in Opened', ~Dead(r)'
               PROVE  /\ \/ \E h \in flights'[opener'[r]] : h.phase = "landed" /\ h.stream = r
                         \/ entry[opener'[r]][answerer'[r]] = r
                      /\ \/ r \in arriving'[answerer'[r]]
                         \/ \E i \in DOMAIN admitted[answerer'[r]] : admitted[answerer'[r]][i] = r
                         \/ entry[answerer'[r]][opener'[r]] = r
    BY <1>4 DEF HeldInv, peerVars, Queued
  <2>1. CASE r = s
    BY <2>1, <1>6, <1>8, <1>9
  <2>2. CASE r # s
    <3>1. r \in Opened /\ r \in Stream /\ ~Dead(r)
          /\ opener'[r] = opener[r] /\ answerer'[r] = answerer[r]
      BY <2>2, <1>9, <1>11, <1>12 DEF Dead
    <3>2. opener[r] \in Node /\ answerer[r] \in Node
      BY <3>1, <1>1 DEF EndsInv, Opened, Shape
    <3>3. /\ \/ \E h \in flights[opener[r]] : h.phase = "landed" /\ h.stream = r
             \/ entry[opener[r]][answerer[r]] = r
          /\ \/ r \in arriving[answerer[r]] \/ Queued(answerer[r], r)
             \/ entry[answerer[r]][opener[r]] = r
      BY <3>1, <1>1 DEF HeldInv
    <3>4. /\ \A h \in flights[opener[r]] : h.phase = "landed" => h \in flights'[opener[r]]
          /\ arriving[answerer[r]] \subseteq arriving'[answerer[r]]
      BY <3>2, <1>8, <1>9
    <3> QED BY <3>1, <3>3, <3>4 DEF Queued
  <2> QED BY <2>1, <2>2
<1>15. GhostInv'
  <2>1. \A k, m \in Node : Heard(k, m)' <=> Heard(k, m)
    BY <1>4 DEF Heard, upVars
  <2>2. \A k \in Node : \A r \in ended[k] : Far(k, r)' = Far(k, r)
    BY <1>1, <1>5, <1>11 DEF Shape
  <2> QED BY <1>1, <1>4, <2>1, <2>2 DEF GhostInv, upVars, peerVars
<1> QED BY <1>10, <1>13, <1>14, <1>15 DEF MeshInv
-----------------------------------------------------------------------------
(* Admission.                                                              *)

LEMMA AdmitKeeps ==
    ASSUME MeshInv, NEW n \in Node, NEW s \in Stream, Admit(n, s) PROVE MeshInv'
<1>1. Shape /\ EndsInv /\ HeldInv /\ GhostInv
  BY DEF MeshInv
<1>2. /\ s \in arriving[n] /\ arriving' = [arriving EXCEPT ![n] = arriving[n] \ {s}]
      /\ UNCHANGED <<dialVars, opener, answerer, cut, peerVars, upVars, spent>>
  BY DEF Admit
<1>3. s \in Opened /\ answerer[s] = n
  BY <1>1, <1>2 DEF EndsInv
<1>4. /\ admitted' \in [Node -> Seq(Stream)] /\ closed' \in [Stream -> SUBSET Node]
      /\ \A k \in Node, r \in Stream : Queued(k, r)' => Queued(k, r) \/ (k = n /\ r = s)
      /\ \A k \in Node, r \in Stream : Queued(k, r) => Queued(k, r)'
      /\ \A r \in Stream : closed[r] \subseteq closed'[r]
      /\ Queued(n, s)' \/ n \in closed'[s]
  <2>1. admitted \in [Node -> Seq(Stream)] /\ closed \in [Stream -> SUBSET Node]
    BY <1>1 DEF Shape
  <2>2. CASE /\ admitted' = [admitted EXCEPT ![n] = Append(admitted[n], s)]
             /\ UNCHANGED closed
    <3> DEFINE q == Append(admitted[n], s)
               len == Len(admitted[n])
    <3>1. /\ q \in Seq(Stream) /\ len \in Nat
          /\ DOMAIN admitted[n] = 1..len /\ DOMAIN q = 1..(len + 1)
          /\ q[len + 1] = s /\ \A i \in 1..len : q[i] = admitted[n][i]
      BY <2>1, AppendIs
    <3>2. admitted' = [admitted EXCEPT ![n] = q]
      BY <2>2
    <3> HIDE DEF q, len
    <3>3. /\ admitted' \in [Node -> Seq(Stream)] /\ admitted'[n] = q
          /\ \A k \in Node : k # n => admitted'[k] = admitted[k]
      BY <2>1, <3>1, <3>2
    <3>4. \A r \in Stream : (\E i \in DOMAIN q : q[i] = r) <=> Queued(n, r) \/ r = s
      <4> SUFFICES ASSUME NEW r \in Stream
                   PROVE  (\E i \in DOMAIN q : q[i] = r) <=> Queued(n, r) \/ r = s
        OBVIOUS
      <4>1. ASSUME NEW i \in DOMAIN q, q[i] = r PROVE Queued(n, r) \/ r = s
        <5>1. i \in 1..len \/ i = len + 1
          BY <3>1
        <5> QED BY <3>1, <4>1, <5>1 DEF Queued
      <4>2. ASSUME Queued(n, r) PROVE \E i \in DOMAIN q : q[i] = r
        <5>1. PICK i \in 1..len : admitted[n][i] = r
          BY <3>1, <4>2 DEF Queued
        <5>2. i \in DOMAIN q /\ q[i] = r
          BY <3>1, <5>1
        <5> QED BY <5>2
      <4>3. ASSUME r = s PROVE \E i \in DOMAIN q : q[i] = r
        <5>1. len + 1 \in DOMAIN q
          BY <3>1
        <5> QED BY <3>1, <4>3, <5>1
      <4> QED BY <4>1, <4>2, <4>3
    <3>5. \A r \in Stream : Queued(n, r)' <=> Queued(n, r) \/ r = s
      BY <3>3, <3>4 DEF Queued
    <3>6. \A k \in Node, r \in Stream : k # n => (Queued(k, r)' <=> Queued(k, r))
      BY <3>3 DEF Queued
    <3>7. closed' = closed
      BY <2>2
    <3> QED BY <2>1, <3>3, <3>5, <3>6, <3>7
  <2>3. CASE /\ closed' = [closed EXCEPT ![s] = closed[s] \cup {n}]
             /\ UNCHANGED admitted
    <3>1. \A k \in Node, r \in Stream : Queued(k, r)' <=> Queued(k, r)
      BY <2>3 DEF Queued
    <3> QED BY <2>1, <2>3, <3>1
  <2> QED BY <2>2, <2>3 DEF Admit
<1>5. Shape'
  BY <1>1, <1>2, <1>4 DEF Shape, dialVars, peerVars, upVars
<1>6. Opened' = Opened /\ (\A k, r : Far(k, r)' = Far(k, r)) /\ Opened \subseteq Stream
  BY <1>2 DEF Opened, Far
<1>7. EndsInv'
  <2>1. \A k \in Node : \A r \in Stream : r \in arriving'[k] \/ Queued(k, r)' =>
           r \in Opened /\ answerer[r] = k
    BY <1>1, <1>2, <1>3, <1>4 DEF EndsInv, Shape
  <2>2. \A k, m \in Node : entry[k][m] # None => Far(k, entry[k][m])' = m
    BY <1>1, <1>2, <1>6 DEF EndsInv, peerVars
  <2> QED BY <1>1, <1>2, <1>6, <2>1, <2>2 DEF EndsInv, EndOf, dialVars, peerVars
<1>8. HeldInv'
  <2> SUFFICES ASSUME NEW r \in Opened, ~Dead(r)'
               PROVE  /\ \/ \E f \in flights[opener[r]] : f.phase = "landed" /\ f.stream = r
                         \/ entry[opener[r]][answerer[r]] = r
                      /\ \/ r \in arriving'[answerer[r]]
                         \/ \E i \in DOMAIN admitted'[answerer[r]] : admitted'[answerer[r]][i] = r
                         \/ entry[answerer[r]][opener[r]] = r
    BY <1>2, <1>6 DEF HeldInv, Queued, dialVars, peerVars
  <2>1. r \in Stream /\ ~Dead(r) /\ answerer[r] \in Node /\ n \notin closed'[r]
    BY <1>1, <1>2, <1>4, <1>6 DEF Dead, EndsInv
  <2>2. /\ \/ \E f \in flights[opener[r]] : f.phase = "landed" /\ f.stream = r
           \/ entry[opener[r]][answerer[r]] = r
        /\ \/ r \in arriving[answerer[r]] \/ Queued(answerer[r], r)
           \/ entry[answerer[r]][opener[r]] = r
    BY <1>1, <2>1 DEF HeldInv
  <2>3. CASE r \in arriving[answerer[r]]
    <3>1. r \in arriving'[answerer[r]] \/ (answerer[r] = n /\ r = s)
      BY <1>1, <1>2, <2>1, <2>3 DEF Shape
    <3> QED BY <1>4, <2>1, <2>2, <3>1 DEF Queued
  <2>4. CASE Queued(answerer[r], r)
    <3> DEFINE b == answerer[r]
    <3>1. b \in Node /\ Queued(b, r) /\ UNCHANGED answerer
      BY <1>2, <2>1, <2>4
    <3>2. \E i \in DOMAIN admitted'[b] : admitted'[b][i] = r
      <4> HIDE DEF b
      <4>1. \A k \in Node : Queued(k, r) => \E i \in DOMAIN admitted'[k] : admitted'[k][i] = r
        BY <1>4, <2>1 DEF Queued
      <4> QED BY <3>1, <4>1
    <3> QED BY <2>2, <3>2
  <2>5. CASE entry[answerer[r]][opener[r]] = r
    BY <2>2, <2>5
  <2> QED BY <2>2, <2>3, <2>4, <2>5
<1>9. GhostInv'
  BY <1>1, <1>2, GhostSame DEF peerVars
<1> QED BY <1>5, <1>7, <1>8, <1>9 DEF MeshInv
\* A stream that lands or is accepted is in the entry of its end from now on, or it
\* is closed; the one it replaces is closed too.
LEMMA AddPeerKeeps ==
    ASSUME MeshInv, NEW n \in Node, NEW s, EndOf(n, s), AddPeer(n, s),
           flights' \in [Node -> SUBSET Flight], dialing' \in [Node -> SUBSET Node],
           admitted' \in [Node -> Seq(Stream)],
           UNCHANGED <<book, opener, answerer, cut, arriving, ended, upVars, spent>>,
           \A k \in Node : flights'[k] \subseteq flights[k],
           \A k \in Node : \A f \in flights[k] : f.phase = "landed" =>
              f \in flights'[k] \/ (k = n /\ f.stream = s /\ opener[s] = n),
           \A k \in Node, r \in Stream : Queued(k, r)' => Queued(k, r),
           \A k \in Node, r \in Stream : Queued(k, r) =>
              Queued(k, r)' \/ (k = n /\ r = s /\ answerer[s] = n)
    PROVE  MeshInv'
<1> DEFINE m == Far(n, s)
<1>1. Shape /\ EndsInv /\ HeldInv /\ GhostInv
  BY DEF MeshInv
<1>2. /\ m \in Node /\ s \in Stream /\ opener[s] \in Node /\ answerer[s] \in Node
      /\ opener[s] = n => m = answerer[s]
      /\ answerer[s] = n => m = opener[s]
  BY <1>1, FarIs
<1>3. /\ closed' \in [Stream -> SUBSET Node] /\ hello' \in [Node -> SUBSET Stream]
      /\ entry' \in [Node -> [Node -> Stream \cup {None}]]
      /\ greeting' \in [Node -> SUBSET Stream] /\ reading' \in [Node -> SUBSET Stream]
  BY <1>1, AddPeerIs
<1>4. /\ \A r \in Stream : closed[r] \subseteq closed'[r]
      /\ \A k \in Node : /\ hello'[k] \subseteq hello[k] /\ reading[k] \subseteq reading'[k]
                         /\ \A r \in greeting'[k] \cup reading'[k] :
                               r \in greeting[k] \cup reading[k] \/ (k = n /\ r = s)
  BY <1>1, AddPeerIs
<1>5. /\ \A k, l \in Node : k # n \/ l # m => entry'[k][l] = entry[k][l]
      /\ \/ entry'[n][m] = entry[n][m] /\ n \in closed'[s]
         \/ /\ entry'[n][m] = s /\ s \in reading'[n]
            /\ entry[n][m] # None => n \in closed'[entry[n][m]]
  BY <1>1, AddPeerIs
<1>6. /\ Opened' = Opened /\ Opened \subseteq Stream
      /\ \A k, r : Far(k, r)' = Far(k, r)
      /\ \A k, r : EndOf(k, r)' <=> EndOf(k, r)
  BY DEF Opened, Far, EndOf
<1>f. m = Far(n, s)
  OBVIOUS
<1> HIDE DEF m
<1>7. Shape'
  BY <1>1, <1>3 DEF Shape, upVars
<1>8. EndsInv'
  <2>1. \A k \in Node : \A f \in flights'[k] : f.phase = "landed" =>
           f.stream \in Opened /\ opener[f.stream] = k /\ answerer[f.stream] = f.to
    BY <1>1 DEF EndsInv
  <2>2. \A k \in Node : \A r \in Stream : r \in arriving[k] \/ Queued(k, r)' =>
           r \in Opened /\ answerer[r] = k
    BY <1>1 DEF EndsInv
  <2>3. \A k \in Node : \A r \in greeting'[k] \cup reading'[k] \cup ended[k] : EndOf(k, r)
    BY <1>1, <1>4 DEF EndsInv
  <2>4. \A k \in Node : hello'[k] \subseteq Opened
    BY <1>1, <1>4 DEF EndsInv
  <2>5. ASSUME NEW k \in Node, NEW l \in Node, entry'[k][l] # None
        PROVE  entry'[k][l] \in reading'[k] /\ Far(k, entry'[k][l]) = l
    <3>1. CASE entry'[k][l] = entry[k][l]
      <4>1. entry[k][l] \in reading[k] /\ Far(k, entry[k][l]) = l
        BY <1>1, <2>5, <3>1 DEF EndsInv
      <4> QED BY <1>4, <3>1, <4>1
    <3>2. CASE k = n /\ l = m /\ entry'[n][m] = s /\ s \in reading'[n]
      BY <1>f, <3>2
    <3> QED BY <1>5, <3>1, <3>2
  <2>6. \A k, l \in Node : entry'[k][l] # None =>
           entry'[k][l] \in reading'[k] /\ Far(k, entry[k][l])' = l
    <3>1. \A k, l \in Node : Far(k, entry[k][l])' = Far(k, entry'[k][l])
      BY DEF Far
    <3> QED BY <2>5, <3>1
  <2> QED BY <1>1, <1>6, <2>1, <2>2, <2>3, <2>4, <2>6 DEF EndsInv
<1>9. HeldInv'
  <2>1. ASSUME NEW r \in Stream, NEW k \in Node, NEW l \in Node,
               entry[k][l] = r, n \notin closed'[r]
        PROVE  entry'[k][l] = r
    <3>1. r # None
      BY NamesApart
    <3> QED BY <1>5, <2>1, <3>1
  <2> SUFFICES ASSUME NEW r \in Opened, ~Dead(r)'
               PROVE  /\ \/ \E f \in flights'[opener[r]] : f.phase = "landed" /\ f.stream = r
                         \/ entry'[opener[r]][answerer[r]] = r
                      /\ \/ r \in arriving[answerer[r]]
                         \/ \E i \in DOMAIN admitted'[answerer[r]] : admitted'[answerer[r]][i] = r
                         \/ entry'[answerer[r]][opener[r]] = r
    BY <1>6 DEF HeldInv, Queued
  <2>2. /\ r \in Stream /\ ~Dead(r) /\ n \notin closed'[r]
        /\ opener[r] \in Node /\ answerer[r] \in Node
    BY <1>1, <1>4, <1>6 DEF Dead, EndsInv, Opened, Shape
  <2>3. /\ \/ \E f \in flights[opener[r]] : f.phase = "landed" /\ f.stream = r
           \/ entry[opener[r]][answerer[r]] = r
        /\ \/ r \in arriving[answerer[r]] \/ Queued(answerer[r], r)
           \/ entry[answerer[r]][opener[r]] = r
    BY <1>1, <2>2 DEF HeldInv
  <2>4. \/ \E f \in flights'[opener[r]] : f.phase = "landed" /\ f.stream = r
        \/ entry'[opener[r]][answerer[r]] = r
    <3>1. CASE entry[opener[r]][answerer[r]] = r
      BY <2>1, <2>2, <3>1
    <3>2. ASSUME NEW f \in flights[opener[r]], f.phase = "landed", f.stream = r,
                 f \notin flights'[opener[r]]
          PROVE  entry'[opener[r]][answerer[r]] = r
      <4>1. opener[r] = n /\ r = s /\ m = answerer[r]
        BY <1>2, <2>2, <3>2
      <4> QED BY <1>5, <2>2, <4>1
    <3> QED BY <2>3, <3>1, <3>2
  <2>5. \/ r \in arriving[answerer[r]]
        \/ \E i \in DOMAIN admitted'[answerer[r]] : admitted'[answerer[r]][i] = r
        \/ entry'[answerer[r]][opener[r]] = r
    <3>1. CASE entry[answerer[r]][opener[r]] = r
      BY <2>1, <2>2, <3>1
    <3>2. ASSUME Queued(answerer[r], r),
                 ~\E i \in DOMAIN admitted'[answerer[r]] : admitted'[answerer[r]][i] = r
          PROVE  entry'[answerer[r]][opener[r]] = r
      <4>1. \A k \in Node : Queued(k, r) =>
               \/ \E i \in DOMAIN admitted'[k] : admitted'[k][i] = r
               \/ k = n /\ r = s /\ answerer[s] = n
        BY <2>2 DEF Queued
      <4>2. answerer[r] = n /\ r = s /\ m = opener[r]
        BY <1>2, <2>2, <3>2, <4>1
      <4> QED BY <1>5, <2>2, <4>2
    <3> QED BY <2>3, <3>1, <3>2
  <2> QED BY <2>4, <2>5
<1>10. GhostInv'
  <2>1. \A k, l \in Node : entry[k][l] # None => entry'[k][l] # None
    BY <1>2, <1>5, NamesApart
  <2> QED BY <1>1, <2>1, GhostSame
<1> QED BY <1>7, <1>8, <1>9, <1>10 DEF MeshInv

LEMMA LandKeeps ==
    ASSUME MeshInv, NEW n \in Node, NEW f \in flights[n], Land(n, f) PROVE MeshInv'
<1> DEFINE s == f.stream
<1>1. Shape /\ EndsInv
  BY DEF MeshInv
<1>2. /\ f.phase = "landed" /\ AddPeer(n, f.stream) /\ dialing' = Unmarked(n, f)
      /\ flights' = [flights EXCEPT ![n] = flights[n] \ {f}]
      /\ UNCHANGED <<book, opener, answerer, cut, doorVars, ended, upVars, spent>>
  BY DEF Land
<1>3. opener[f.stream] = n /\ EndOf(n, f.stream)
  BY <1>1, <1>2 DEF EndsInv, EndOf
<1>4. /\ flights' \in [Node -> SUBSET Flight]
      /\ \A k \in Node : flights'[k] \subseteq flights[k]
      /\ \A k \in Node : \A h \in flights[k] : h \in flights'[k] \/ (k = n /\ h = f)
  BY <1>1, <1>2 DEF Shape
<1>5. dialing' \in [Node -> SUBSET Node]
  BY <1>1, <1>2, UnmarkedIs
<1>6. /\ admitted' \in [Node -> Seq(Stream)] /\ arriving' = arriving
      /\ \A k \in Node, r \in Stream : Queued(k, r)' <=> Queued(k, r)
  BY <1>1, <1>2 DEF Shape, Queued, doorVars
<1>7. \A k \in Node : \A h \in flights[k] : h.phase = "landed" =>
         h \in flights'[k] \/ (k = n /\ h.stream = s /\ opener[s] = n)
  BY <1>3, <1>4
<1>8. EndOf(n, s) /\ AddPeer(n, s)
  BY <1>2, <1>3
<1> HIDE DEF s
<1> QED BY <1>2, <1>4, <1>5, <1>6, <1>7, <1>8, AddPeerKeeps

LEMMA AcceptKeeps ==
    ASSUME MeshInv, NEW n \in Node, Accept(n) PROVE MeshInv'
<1> DEFINE q == admitted[n]
           s == Head(q)
           len == Len(q)
<1>1. Shape /\ EndsInv
  BY DEF MeshInv
<1>2. /\ q # <<>> /\ AddPeer(n, s) /\ admitted' = [admitted EXCEPT ![n] = Tail(q)]
      /\ UNCHANGED <<dialVars, opener, answerer, cut, arriving, ended, upVars, spent>>
  BY DEF Accept
<1>3. q \in Seq(Stream) /\ admitted \in [Node -> Seq(Stream)]
  BY <1>1 DEF Shape
<1>4. /\ Tail(q) \in Seq(Stream) /\ len \in Nat \ {0} /\ s = q[1] /\ s \in Stream
      /\ DOMAIN q = 1..len /\ DOMAIN Tail(q) = 1..(len - 1)
      /\ \A i \in 1..(len - 1) : Tail(q)[i] = q[i + 1]
  BY <1>2, <1>3, TailIs
<1>q. q = admitted[n] /\ s = Head(q)
  OBVIOUS
<1> HIDE DEF q, s, len
<1>5. Queued(n, s)
  <2>1. 1 \in DOMAIN q
    BY <1>4
  <2> QED BY <1>4, <1>q, <2>1 DEF Queued
<1>6. answerer[s] = n /\ EndOf(n, s)
  BY <1>1, <1>4, <1>5 DEF EndsInv, EndOf
<1>7. /\ admitted' \in [Node -> Seq(Stream)] /\ admitted'[n] = Tail(q)
      /\ \A k \in Node : k # n => admitted'[k] = admitted[k]
  BY <1>2, <1>3, <1>4
<1>8. /\ \A r \in Stream : Queued(n, r)' => Queued(n, r)
      /\ \A r \in Stream : Queued(n, r) => Queued(n, r)' \/ r = s
  <2>1. ASSUME NEW r \in Stream, NEW i \in DOMAIN Tail(q), Tail(q)[i] = r PROVE Queued(n, r)
    <3>1. i + 1 \in DOMAIN q /\ q[i + 1] = r
      BY <1>4, <2>1
    <3> QED BY <3>1, <1>q DEF Queued
  <2>2. ASSUME NEW r \in Stream, NEW i \in DOMAIN q, q[i] = r, r # s
        PROVE  \E j \in DOMAIN Tail(q) : Tail(q)[j] = r
    <3>1. i \in 1..len /\ i # 1
      BY <1>4, <2>2
    <3>2. i - 1 \in 1..(len - 1) /\ (i - 1) + 1 = i
      BY <1>4, <3>1
    <3>3. i - 1 \in DOMAIN Tail(q) /\ Tail(q)[i - 1] = r
      BY <1>4, <2>2, <3>2
    <3> QED BY <3>3
  <2> QED BY <1>7, <1>q, <2>1, <2>2 DEF Queued
<1>9. /\ \A k \in Node, r \in Stream : Queued(k, r)' => Queued(k, r)
      /\ \A k \in Node, r \in Stream : Queued(k, r) =>
            Queued(k, r)' \/ (k = n /\ r = s /\ answerer[s] = n)
  <2>1. \A k \in Node, r \in Stream : k # n => (Queued(k, r)' <=> Queued(k, r))
    BY <1>7 DEF Queued
  <2> QED BY <1>6, <1>8, <2>1
<1>10. /\ UNCHANGED <<flights, dialing, book, opener, answerer, cut, arriving, ended, upVars, spent>>
       /\ flights' \in [Node -> SUBSET Flight] /\ dialing' \in [Node -> SUBSET Node]
  BY <1>1, <1>2 DEF Shape, dialVars
<1> QED BY <1>2, <1>6, <1>7, <1>9, <1>10, AddPeerKeeps
-----------------------------------------------------------------------------
(* The read loops and the Room above.                                      *)

LEMMA GreetKeeps ==
    ASSUME MeshInv, NEW n \in Node, NEW s \in Stream, Greet(n, s) PROVE MeshInv'
<1>1. Shape /\ EndsInv /\ HeldInv /\ GhostInv
  BY DEF MeshInv
<1>2. /\ s \in greeting[n] /\ greeting' = [greeting EXCEPT ![n] = greeting[n] \ {s}]
      /\ \/ hello' = [hello EXCEPT ![n] = hello[n]]
         \/ hello' = [hello EXCEPT ![n] = hello[n] \cup {s}]
      /\ UNCHANGED <<dialVars, streamVars, doorVars, entry, reading, ended, upVars, spent>>
  BY DEF Greet
<1>3. s \in Opened
  BY <1>1, <1>2 DEF EndsInv, EndOf
<1>4. hello' \in [Node -> SUBSET Stream] /\ \A k \in Node : hello'[k] \subseteq Opened
  <2>1. hello \in [Node -> SUBSET Stream] /\ \A k \in Node : hello[k] \subseteq Opened
    BY <1>1 DEF EndsInv, Shape
  <2>2. CASE hello' = [hello EXCEPT ![n] = hello[n]]
    BY <2>1, <2>2
  <2>3. CASE hello' = [hello EXCEPT ![n] = hello[n] \cup {s}]
    BY <1>3, <2>1, <2>3
  <2> QED BY <1>2, <2>2, <2>3
<1>5. greeting' \in [Node -> SUBSET Stream] /\ \A k \in Node : greeting'[k] \subseteq greeting[k]
  BY <1>1, <1>2 DEF Shape
<1>6. Shape'
  BY <1>1, <1>2, <1>4, <1>5 DEF Shape, dialVars, streamVars, doorVars, upVars
<1>7. SameLandings /\ flights' \in [Node -> SUBSET Flight] /\ cut' \subseteq Opened
  BY <1>1, <1>2 DEF SameLandings, Shape, EndsInv, dialVars, streamVars
<1>8. EndsInv' /\ HeldInv' /\ GhostInv'
  BY <1>1, <1>2, <1>4, <1>5, <1>7, EndsSame, HeldSame, GhostSame DEF streamVars
<1> QED BY <1>6, <1>8 DEF MeshInv

LEMMA CutKeeps ==
    ASSUME MeshInv, NEW s \in Stream, Cut(s) PROVE MeshInv'
<1>1. Shape /\ EndsInv /\ HeldInv /\ GhostInv
  BY DEF MeshInv
<1>2. /\ s \in Opened /\ cut' = cut \cup {s}
      /\ spent' = [spent EXCEPT !.cuts = spent.cuts + 1]
      /\ UNCHANGED <<dialVars, opener, answerer, closed, doorVars, peerVars, upVars>>
  BY DEF Cut
<1>3. spent' \in [plan : Plans, cuts : Nat, failedDials : Nat]
  <2> DEFINE k == spent.cuts + 1
  <2>1. spent \in [plan : Plans, cuts : Nat, failedDials : Nat] /\ k \in Nat
    BY <1>1 DEF Shape
  <2>2. spent' = [spent EXCEPT !.cuts = k]
    BY <1>2
  <2> HIDE DEF k
  <2> QED BY <2>1, <2>2
<1>4. cut' \subseteq Opened /\ cut \subseteq cut'
  BY <1>1, <1>2 DEF EndsInv
<1>5. Shape'
  BY <1>1, <1>2, <1>3 DEF Shape, dialVars, doorVars, peerVars, upVars
<1>6. SameLandings /\ flights' \in [Node -> SUBSET Flight] /\ \A k \in Node : hello'[k] \subseteq Opened
  BY <1>1, <1>2 DEF SameLandings, Shape, EndsInv, dialVars, peerVars
<1>7. EndsInv' /\ HeldInv' /\ GhostInv'
  BY <1>1, <1>2, <1>4, <1>6, EndsSame, HeldSame, GhostSame DEF peerVars
<1> QED BY <1>5, <1>7 DEF MeshInv

\* What a message more makes a Room hear.
LEMMA TellIs ==
    ASSUME Shape, NEW n \in Node, NEW m \in Node, NEW kind \in {"Hello", "Bye"},
           incoming' = Tell(n, m, kind), UNCHANGED roster
    PROVE  /\ incoming' \in [Node -> Seq(Message)]
           /\ \A k, l \in Node : Heard(k, l)' => Heard(k, l) \/ (k = n /\ l = m)
           /\ kind = "Bye" => \A k, l \in Node : Heard(k, l)' => k # n \/ l # m
<1> DEFINE e == [from |-> m, kind |-> kind]
           q == Append(incoming[n], e)
           len == Len(incoming[n])
<1>1. e \in Message /\ e.from = m /\ e.kind = kind
  BY DEF Message
<1>2. incoming \in [Node -> Seq(Message)]
  BY DEF Shape
<1>3. incoming' = [incoming EXCEPT ![n] = q]
  BY DEF Tell
<1> HIDE DEF e
<1>4. /\ q \in Seq(Message) /\ len \in Nat
      /\ DOMAIN incoming[n] = 1..len /\ DOMAIN q = 1..(len + 1)
      /\ q[len + 1] = e /\ \A i \in 1..len : q[i] = incoming[n][i]
  BY <1>1, <1>2, AppendIs
<1> HIDE DEF q, len
<1>5. /\ incoming' \in [Node -> Seq(Message)] /\ incoming'[n] = q
      /\ \A k \in Node : k # n => incoming'[k] = incoming[k]
  BY <1>2, <1>3, <1>4
<1>6. ASSUME NEW k \in Node, NEW l \in Node, k # n PROVE Heard(k, l)' <=> Heard(k, l)
  <2>1. incoming'[k] = incoming[k] /\ roster'[k] = roster[k]
    BY <1>5, <1>6
  <2> QED BY <2>1 DEF Heard
<1>7. ASSUME NEW l \in Node, l # m, Heard(n, l)' PROVE Heard(n, l)
  <2>1. \/ l \in roster[n] /\ \A i \in DOMAIN q : q[i].from # l
        \/ \E i \in DOMAIN q : /\ q[i].from = l /\ q[i].kind = "Hello"
                               /\ \A j \in DOMAIN q : j > i => q[j].from # l
    BY <1>5, <1>7 DEF Heard
  <2>2. CASE l \in roster[n] /\ \A i \in DOMAIN q : q[i].from # l
    <3>1. \A i \in 1..len : i \in 1..(len + 1)
      BY <1>4
    <3>2. \A i \in DOMAIN incoming[n] : incoming[n][i].from # l
      BY <1>4, <2>2, <3>1
    <3> QED BY <2>2, <3>2 DEF Heard
  <2>3. ASSUME NEW i \in DOMAIN q, q[i].from = l, q[i].kind = "Hello",
               \A j \in DOMAIN q : j > i => q[j].from # l
        PROVE  Heard(n, l)
    <3>1. i \in 1..(len + 1) /\ i # len + 1
      BY <1>1, <1>4, <1>7, <2>3
    <3>2. i \in 1..len /\ \A j \in 1..len : j \in 1..(len + 1)
      BY <1>4, <3>1
    <3>3. /\ i \in DOMAIN incoming[n] /\ incoming[n][i].from = l /\ incoming[n][i].kind = "Hello"
          /\ \A j \in DOMAIN incoming[n] : j > i => incoming[n][j].from # l
      BY <1>4, <2>3, <3>2
    <3> QED BY <3>3 DEF Heard
  <2> QED BY <2>1, <2>2, <2>3
<1>8. ASSUME kind = "Bye", NEW k \in Node, NEW l \in Node, k = n, l = m, Heard(k, l)'
      PROVE  FALSE
  <2>1. len + 1 \in DOMAIN q /\ q[len + 1].from = m /\ q[len + 1].kind = "Bye"
    BY <1>1, <1>4, <1>8
  <2>2. PICK i \in DOMAIN q : /\ q[i].kind = "Hello"
                              /\ \A j \in DOMAIN q : j > i => q[j].from # m
    BY <1>5, <1>8, <2>1 DEF Heard
  <2>3. i \in 1..(len + 1) /\ i # len + 1
    BY <1>4, <2>1, <2>2
  <2>4. len + 1 > i
    BY <1>4, <2>3
  <2> QED BY <2>1, <2>2, <2>4
<1> QED BY <1>5, <1>6, <1>7, <1>8

LEMMA ReadHelloKeeps ==
    ASSUME MeshInv, NEW n \in Node, NEW s \in Stream, ReadHello(n, s) PROVE MeshInv'
<1> DEFINE m == Far(n, s)
<1>1. Shape /\ EndsInv /\ HeldInv /\ GhostInv
  BY DEF MeshInv
<1>2. /\ s \in reading[n]
      /\ hello' = [hello EXCEPT ![m] = hello[m] \ {s}]
      /\ incoming' = Tell(n, m, "Hello")
      /\ doubtful' = [doubtful EXCEPT ![n] =
            IF entry[n][m] = s THEN doubtful[n] ELSE doubtful[n] \cup {m}]
      /\ UNCHANGED <<dialVars, streamVars, doorVars, entry, greeting, reading, ended, roster, spent>>
  BY DEF ReadHello
<1>3. EndOf(n, s) /\ m \in Node
  BY <1>1, <1>2, FarIs DEF EndsInv
<1> HIDE DEF m
<1>4. hello' \in [Node -> SUBSET Stream] /\ \A k \in Node : hello'[k] \subseteq Opened
  BY <1>1, <1>2, <1>3 DEF Shape, EndsInv
<1>5. /\ doubtful' \in [Node -> SUBSET Node]
      /\ \A k \in Node : doubtful[k] \subseteq doubtful'[k]
      /\ entry[n][m] = s \/ m \in doubtful'[n]
  <2>1. doubtful \in [Node -> SUBSET Node]
    BY <1>1 DEF Shape
  <2>2. CASE entry[n][m] = s
    <3>1. doubtful' = [doubtful EXCEPT ![n] = doubtful[n]]
      BY <1>2, <2>2
    <3> QED BY <2>1, <2>2, <3>1
  <2>3. CASE entry[n][m] # s
    <3>1. doubtful' = [doubtful EXCEPT ![n] = doubtful[n] \cup {m}]
      BY <1>2, <2>3
    <3> QED BY <1>3, <2>1, <3>1
  <2> QED BY <2>2, <2>3
<1>6. /\ incoming' \in [Node -> Seq(Message)]
      /\ \A k, l \in Node : Heard(k, l)' => Heard(k, l) \/ (k = n /\ l = m)
  <2> DEFINE kind == "Hello"
  <2>1. kind \in {"Hello", "Bye"} /\ incoming' = Tell(n, m, kind)
    BY <1>2
  <2> HIDE DEF kind
  <2> QED BY <1>1, <1>2, <1>3, <2>1, TellIs
<1>7. Shape'
  BY <1>1, <1>2, <1>4, <1>5, <1>6 DEF Shape, dialVars, streamVars, doorVars
<1>8. SameLandings /\ flights' \in [Node -> SUBSET Flight] /\ cut' \subseteq Opened
  BY <1>1, <1>2 DEF SameLandings, Shape, EndsInv, dialVars, streamVars
<1>9. EndsInv' /\ HeldInv'
  BY <1>1, <1>2, <1>4, <1>8, EndsSame, HeldSame DEF streamVars
<1>10. GhostInv'
  <2>1. \A k, r : Far(k, r)' = Far(k, r)
    BY <1>2 DEF Far, streamVars
  <2>2. s # None
    BY NamesApart
  <2>3. \A k, l \in Node : Heard(k, l)' =>
           entry[k][l] # None \/ l \in doubtful'[k] \/ \E r \in ended[k] : Far(k, r) = l
    BY <1>1, <1>5, <1>6, <2>2 DEF GhostInv
  <2> QED BY <1>2, <2>1, <2>3 DEF GhostInv
<1> QED BY <1>7, <1>9, <1>10 DEF MeshInv

LEMMA EndOfStreamKeeps ==
    ASSUME MeshInv, NEW n \in Node, NEW s \in Stream, EndOfStream(n, s) PROVE MeshInv'
<1> DEFINE m == Far(n, s)
<1>1. Shape /\ EndsInv /\ HeldInv /\ GhostInv
  BY DEF MeshInv
<1>2. /\ s \in reading[n] /\ Dead(s)
      /\ reading' = [reading EXCEPT ![n] = reading[n] \ {s}]
      /\ hello' = [hello EXCEPT ![m] = hello[m] \ {s}]
      /\ \/ /\ entry[n][m] = s
            /\ entry' = [entry EXCEPT ![n][m] = None]
            /\ ended' = [ended EXCEPT ![n] = ended[n] \cup {s}]
         \/ entry[n][m] # s /\ UNCHANGED <<entry, ended>>
      /\ UNCHANGED <<dialVars, streamVars, doorVars, greeting, upVars, spent>>
  BY DEF EndOfStream, Dead
<1>3. EndOf(n, s) /\ m \in Node
  BY <1>1, <1>2, FarIs DEF EndsInv
<1>f. m = Far(n, s)
  OBVIOUS
<1> HIDE DEF m
<1>4. /\ hello' \in [Node -> SUBSET Stream] /\ \A k \in Node : hello'[k] \subseteq Opened
      /\ reading' \in [Node -> SUBSET Stream]
      /\ \A k \in Node : reading'[k] \subseteq reading[k]
      /\ \A k \in Node : \A r \in reading[k] : r \in reading'[k] \/ (k = n /\ r = s)
  BY <1>1, <1>2, <1>3 DEF Shape, EndsInv
<1>5. /\ entry' \in [Node -> [Node -> Stream \cup {None}]]
      /\ ended' \in [Node -> SUBSET Stream]
      /\ \A k, l \in Node : \/ entry'[k][l] = entry[k][l] /\ ~(k = n /\ l = m /\ entry[k][l] = s)
                            \/ /\ k = n /\ l = m /\ entry[k][l] = s
                               /\ entry'[k][l] = None /\ s \in ended'[n]
      /\ \A k \in Node : ended[k] \subseteq ended'[k]
      /\ \A k \in Node : \A r \in ended'[k] : r \in ended[k] \/ (k = n /\ r = s)
  <2>1. entry \in [Node -> [Node -> Stream \cup {None}]] /\ ended \in [Node -> SUBSET Stream]
    BY <1>1 DEF Shape
  <2>2. CASE /\ entry[n][m] = s
             /\ entry' = [entry EXCEPT ![n][m] = None]
             /\ ended' = [ended EXCEPT ![n] = ended[n] \cup {s}]
    <3>1. /\ ended' \in [Node -> SUBSET Stream] /\ s \in ended'[n]
          /\ \A k \in Node : ended[k] \subseteq ended'[k]
          /\ \A k \in Node : \A r \in ended'[k] : r \in ended[k] \/ (k = n /\ r = s)
      BY <2>1, <2>2
    <3>2. /\ entry' \in [Node -> [Node -> Stream \cup {None}]] /\ entry'[n][m] = None
          /\ \A k, l \in Node : k # n \/ l # m => entry'[k][l] = entry[k][l]
      BY <1>3, <2>1, <2>2
    <3> QED BY <2>2, <3>1, <3>2
  <2>3. CASE entry[n][m] # s /\ UNCHANGED <<entry, ended>>
    BY <2>1, <2>3
  <2> QED BY <1>2, <2>2, <2>3
<1>6. /\ UNCHANGED <<opener, answerer, closed, cut, arriving, admitted, flights, greeting>>
      /\ Opened' = Opened /\ Opened \subseteq Stream
      /\ \A k, r : Far(k, r)' = Far(k, r)
      /\ \A k, r : EndOf(k, r)' <=> EndOf(k, r)
      /\ \A k, r : Queued(k, r)' <=> Queued(k, r)
  BY <1>2 DEF streamVars, doorVars, dialVars, Opened, Far, EndOf, Queued
<1>7. Shape'
  BY <1>1, <1>2, <1>4, <1>5 DEF Shape, dialVars, streamVars, doorVars, upVars
<1>8. EndsInv'
  <2>1. \A k \in Node : \A r \in greeting[k] \cup reading'[k] \cup ended'[k] : EndOf(k, r)
    BY <1>1, <1>3, <1>4, <1>5 DEF EndsInv
  <2>2. ASSUME NEW k \in Node, NEW l \in Node, entry'[k][l] # None
        PROVE  entry'[k][l] \in reading'[k] /\ Far(k, entry'[k][l]) = l
    <3>1. entry'[k][l] = entry[k][l] /\ ~(k = n /\ l = m /\ entry[k][l] = s)
      BY <1>5, <2>2
    <3>2. entry[k][l] \in reading[k] /\ Far(k, entry[k][l]) = l
      BY <1>1, <2>2, <3>1 DEF EndsInv
    <3>3. ~(k = n /\ entry[k][l] = s)
      BY <1>f, <3>1, <3>2
    <3> QED BY <1>4, <3>1, <3>2, <3>3
  <2>3. \A k, l \in Node : entry'[k][l] # None =>
           entry'[k][l] \in reading'[k] /\ Far(k, entry[k][l])' = l
    <3>1. \A k, l \in Node : Far(k, entry[k][l])' = Far(k, entry'[k][l])
      BY <1>6 DEF Far
    <3> QED BY <2>2, <3>1
  <2>4. \A k \in Node : \A r \in Stream : r \in arriving[k] \/ Queued(k, r)' =>
           r \in Opened /\ answerer[r] = k
    BY <1>1, <1>6 DEF EndsInv
  <2> QED BY <1>1, <1>4, <1>6, <2>1, <2>3, <2>4 DEF EndsInv
<1>9. HeldInv'
  <2> SUFFICES ASSUME NEW r \in Opened, ~Dead(r)'
               PROVE  /\ \/ \E f \in flights[opener[r]] : f.phase = "landed" /\ f.stream = r
                         \/ entry'[opener[r]][answerer[r]] = r
                      /\ \/ r \in arriving[answerer[r]] \/ Queued(answerer[r], r)
                         \/ entry'[answerer[r]][opener[r]] = r
    BY <1>6 DEF HeldInv, Queued
  <2>1. r \in Stream /\ ~Dead(r) /\ r # s /\ opener[r] \in Node /\ answerer[r] \in Node
    BY <1>1, <1>2, <1>6 DEF Dead, EndsInv, Opened, Shape
  <2>2. /\ \/ \E f \in flights[opener[r]] : f.phase = "landed" /\ f.stream = r
           \/ entry[opener[r]][answerer[r]] = r
        /\ \/ r \in arriving[answerer[r]] \/ Queued(answerer[r], r)
           \/ entry[answerer[r]][opener[r]] = r
    BY <1>1, <2>1 DEF HeldInv
  <2>3. \A k, l \in Node : entry[k][l] = r => entry'[k][l] = r
    BY <1>5, <2>1
  <2> QED BY <2>1, <2>2, <2>3
<1>10. GhostInv'
  <2>1. \A k, l \in Node : Heard(k, l)' <=> Heard(k, l)
    BY <1>2 DEF Heard, upVars
  <2>2. \A k, l \in Node : Heard(k, l) =>
           entry'[k][l] # None \/ l \in doubtful[k] \/ \E r \in ended'[k] : Far(k, r) = l
    BY <1>1, <1>5, <1>f DEF GhostInv
  <2> QED BY <1>2, <1>6, <2>1, <2>2 DEF GhostInv, upVars
<1> QED BY <1>7, <1>8, <1>9, <1>10 DEF MeshInv
LEMMA FarewellKeeps ==
    ASSUME MeshInv, NEW n \in Node, NEW s \in Stream, Farewell(n, s) PROVE MeshInv'
<1> DEFINE m == Far(n, s)
<1>1. Shape /\ EndsInv /\ HeldInv /\ GhostInv
  BY DEF MeshInv
<1>2. /\ s \in ended[n] /\ ended' = [ended EXCEPT ![n] = ended[n] \ {s}]
      /\ \/ incoming' = Tell(n, m, "Bye") /\ UNCHANGED doubtful
         \/ /\ doubtful' = [doubtful EXCEPT ![n] = doubtful[n] \cup {m}]
            /\ UNCHANGED incoming
      /\ UNCHANGED <<dialVars, streamVars, doorVars, entry, greeting, hello, reading, roster, spent>>
  BY DEF Farewell
<1>3. EndOf(n, s) /\ m \in Node
  BY <1>1, <1>2, FarIs DEF EndsInv
<1>f. m = Far(n, s)
  OBVIOUS
<1> HIDE DEF m
<1>4. /\ incoming' \in [Node -> Seq(Message)] /\ doubtful' \in [Node -> SUBSET Node]
      /\ \A k \in Node : doubtful[k] \subseteq doubtful'[k]
      /\ \A k, l \in Node : Heard(k, l)' =>
            (k = n /\ l = m /\ l \in doubtful'[k]) \/ (Heard(k, l) /\ ~(k = n /\ l = m))
  <2>1. doubtful \in [Node -> SUBSET Node] /\ incoming \in [Node -> Seq(Message)]
    BY <1>1 DEF Shape
  <2>2. CASE incoming' = Tell(n, m, "Bye") /\ UNCHANGED doubtful
    <3> DEFINE kind == "Bye"
    <3>1. kind \in {"Hello", "Bye"} /\ kind = "Bye" /\ incoming' = Tell(n, m, kind)
      BY <2>2
    <3> HIDE DEF kind
    <3>2. /\ incoming' \in [Node -> Seq(Message)]
          /\ \A k, l \in Node : Heard(k, l)' => Heard(k, l) \/ (k = n /\ l = m)
          /\ kind = "Bye" => \A k, l \in Node : Heard(k, l)' => k # n \/ l # m
      BY <1>1, <1>2, <1>3, <3>1, TellIs
    <3>3. \A k, l \in Node : Heard(k, l)' => Heard(k, l) /\ ~(k = n /\ l = m)
      BY <3>1, <3>2
    <3> QED BY <2>1, <2>2, <3>2, <3>3
  <2>3. CASE doubtful' = [doubtful EXCEPT ![n] = doubtful[n] \cup {m}] /\ UNCHANGED incoming
    <3>1. \A k, l \in Node : Heard(k, l)' <=> Heard(k, l)
      BY <1>2, <2>3 DEF Heard
    <3>2. /\ doubtful' \in [Node -> SUBSET Node] /\ m \in doubtful'[n]
          /\ \A k \in Node : doubtful[k] \subseteq doubtful'[k]
      BY <1>3, <2>1, <2>3
    <3> QED BY <2>1, <2>3, <3>1, <3>2
  <2> QED BY <1>2, <2>2, <2>3
<1>5. /\ ended' \in [Node -> SUBSET Stream] /\ \A k \in Node : ended'[k] \subseteq ended[k]
      /\ \A k \in Node : \A r \in ended[k] : r \in ended'[k] \/ (k = n /\ r = s)
  BY <1>1, <1>2 DEF Shape
<1>6. Shape'
  BY <1>1, <1>2, <1>4, <1>5 DEF Shape, dialVars, streamVars, doorVars
<1>7. /\ SameLandings /\ flights' \in [Node -> SUBSET Flight] /\ cut' \subseteq Opened
      /\ \A k \in Node : hello'[k] \subseteq Opened
  BY <1>1, <1>2 DEF SameLandings, Shape, EndsInv, dialVars, streamVars
<1>8. EndsInv' /\ HeldInv'
  BY <1>1, <1>2, <1>5, <1>7, EndsSame, HeldSame DEF streamVars
<1>9. GhostInv'
  <2>1. \A k, r : Far(k, r)' = Far(k, r)
    BY <1>2 DEF Far, streamVars
  <2>2. ASSUME NEW k \in Node, NEW l \in Node, Heard(k, l)'
        PROVE  entry[k][l] # None \/ l \in doubtful'[k] \/ \E r \in ended'[k] : Far(k, r) = l
    <3>1. CASE k = n /\ l = m
      BY <1>4, <2>2, <3>1
    <3>2. CASE ~(k = n /\ l = m)
      <4>1. entry[k][l] # None \/ l \in doubtful[k] \/ \E r \in ended[k] : Far(k, r) = l
        BY <1>1, <1>4, <2>2, <3>2 DEF GhostInv
      <4>2. \A r \in ended[k] : Far(k, r) = l => r \in ended'[k]
        BY <1>5, <1>f, <3>2
      <4> QED BY <1>4, <4>1, <4>2
    <3> QED BY <3>1, <3>2
  <2> QED BY <1>2, <2>1, <2>2 DEF GhostInv
<1> QED BY <1>6, <1>8, <1>9 DEF MeshInv

\* Handling a message is what Heard has counted on.
LEMMA HandleKeeps ==
    ASSUME MeshInv, NEW n \in Node, Handle(n) PROVE MeshInv'
<1> DEFINE q == incoming[n]
           in == Head(q)
           len == Len(q)
<1>1. Shape /\ EndsInv /\ HeldInv /\ GhostInv
  BY DEF MeshInv
<1>2. /\ q # <<>> /\ incoming' = [incoming EXCEPT ![n] = Tail(q)]
      /\ roster' = [roster EXCEPT ![n] =
            IF in.kind = "Hello" THEN roster[n] \cup {in.from} ELSE roster[n] \ {in.from}]
      /\ UNCHANGED <<dialVars, streamVars, doorVars, peerVars, doubtful, spent>>
  BY DEF Handle
<1>3. /\ incoming \in [Node -> Seq(Message)] /\ roster \in [Node -> SUBSET Node]
      /\ q \in Seq(Message)
  BY <1>1 DEF Shape
<1>4. /\ Tail(q) \in Seq(Message) /\ len \in Nat \ {0} /\ in = q[1] /\ in \in Message
      /\ DOMAIN q = 1..len /\ DOMAIN Tail(q) = 1..(len - 1)
      /\ \A i \in 1..(len - 1) : Tail(q)[i] = q[i + 1]
  BY <1>2, <1>3, TailIs
<1>5. in.from \in Node
  BY <1>4 DEF Message
<1>q. q = incoming[n]
  OBVIOUS
<1> HIDE DEF q, in, len
<1>6. /\ incoming' \in [Node -> Seq(Message)] /\ incoming'[n] = Tail(q)
      /\ \A k \in Node : k # n => incoming'[k] = incoming[k]
  BY <1>2, <1>3, <1>4
<1>7. /\ roster' \in [Node -> SUBSET Node]
      /\ \A k \in Node : k # n => roster'[k] = roster[k]
      /\ \A l \in Node : l \in roster'[n] =>
            \/ l = in.from /\ in.kind = "Hello"
            \/ l # in.from /\ l \in roster[n]
  <2>1. CASE in.kind = "Hello"
    <3>1. roster' = [roster EXCEPT ![n] = roster[n] \cup {in.from}]
      BY <1>2, <2>1
    <3> QED BY <1>3, <1>5, <2>1, <3>1
  <2>2. CASE in.kind # "Hello"
    <3>1. roster' = [roster EXCEPT ![n] = roster[n] \ {in.from}]
      BY <1>2, <2>2
    <3> QED BY <1>3, <1>5, <2>2, <3>1
  <2> QED BY <2>1, <2>2
<1>8. ASSUME NEW k \in Node, NEW l \in Node, k # n PROVE Heard(k, l)' <=> Heard(k, l)
  <2>1. incoming'[k] = incoming[k] /\ roster'[k] = roster[k]
    BY <1>6, <1>7, <1>8
  <2> QED BY <2>1 DEF Heard
<1>9. ASSUME NEW l \in Node, Heard(n, l)' PROVE Heard(n, l)
  <2>1. \/ l \in roster'[n] /\ \A i \in DOMAIN Tail(q) : Tail(q)[i].from # l
        \/ \E i \in DOMAIN Tail(q) : /\ Tail(q)[i].from = l /\ Tail(q)[i].kind = "Hello"
                                     /\ \A j \in DOMAIN Tail(q) : j > i => Tail(q)[j].from # l
    BY <1>6, <1>9 DEF Heard
  <2>2. \A j \in DOMAIN q : j # 1 => j - 1 \in DOMAIN Tail(q) /\ Tail(q)[j - 1] = q[j]
    <3> SUFFICES ASSUME NEW j \in DOMAIN q, j # 1
                 PROVE  j - 1 \in DOMAIN Tail(q) /\ Tail(q)[j - 1] = q[j]
      OBVIOUS
    <3>1. j - 1 \in 1..(len - 1) /\ (j - 1) + 1 = j
      BY <1>4
    <3> QED BY <1>4, <3>1
  <2>3. CASE l \in roster'[n] /\ \A i \in DOMAIN Tail(q) : Tail(q)[i].from # l
    <3>1. \A j \in DOMAIN q : j # 1 => q[j].from # l
      BY <2>2, <2>3
    <3>2. CASE l = in.from /\ in.kind = "Hello"
      <4>1. 1 \in DOMAIN q /\ \A j \in DOMAIN q : j > 1 => j # 1
        BY <1>4
      <4>2. /\ q[1].from = l /\ q[1].kind = "Hello"
            /\ \A j \in DOMAIN q : j > 1 => q[j].from # l
        BY <1>4, <3>1, <3>2, <4>1
      <4> QED BY <1>q, <4>1, <4>2 DEF Heard
    <3>3. CASE l # in.from /\ l \in roster[n]
      <4>1. \A j \in DOMAIN q : q[j].from # l
        BY <1>4, <3>1, <3>3
      <4> QED BY <1>q, <3>3, <4>1 DEF Heard
    <3> QED BY <1>7, <2>3, <3>2, <3>3
  <2>4. ASSUME NEW i \in DOMAIN Tail(q), Tail(q)[i].from = l, Tail(q)[i].kind = "Hello",
               \A j \in DOMAIN Tail(q) : j > i => Tail(q)[j].from # l
        PROVE  Heard(n, l)
    <3>1. /\ i \in 1..(len - 1) /\ i + 1 \in DOMAIN q /\ q[i + 1] = Tail(q)[i]
      BY <1>4, <2>4
    <3>2. ASSUME NEW j \in DOMAIN q, j > i + 1 PROVE q[j].from # l
      <4>1. j # 1 /\ j - 1 > i
        BY <1>4, <3>1, <3>2
      <4>2. j - 1 \in DOMAIN Tail(q) /\ Tail(q)[j - 1] = q[j]
        BY <2>2, <4>1
      <4> QED BY <2>4, <4>1, <4>2
    <3> QED BY <1>q, <2>4, <3>1, <3>2 DEF Heard
  <2> QED BY <2>1, <2>3, <2>4
<1>10. Shape'
  BY <1>1, <1>2, <1>6, <1>7 DEF Shape, dialVars, streamVars, doorVars, peerVars
<1>11. /\ SameLandings /\ flights' \in [Node -> SUBSET Flight] /\ cut' \subseteq Opened
       /\ \A k \in Node : hello'[k] \subseteq Opened
  BY <1>1, <1>2 DEF SameLandings, Shape, EndsInv, dialVars, streamVars, peerVars
<1>12. EndsInv' /\ HeldInv'
  BY <1>1, <1>2, <1>11, EndsSame, HeldSame DEF streamVars, peerVars
<1>13. GhostInv'
  <2>1. \A k, r : Far(k, r)' = Far(k, r)
    BY <1>2 DEF Far, streamVars
  <2>2. \A k, l \in Node : Heard(k, l)' => Heard(k, l)
    BY <1>8, <1>9
  <2> QED BY <1>1, <1>2, <2>1, <2>2 DEF GhostInv, peerVars
<1> QED BY <1>10, <1>12, <1>13 DEF MeshInv
-----------------------------------------------------------------------------
(* The specification.                                                      *)

LEMMA InitHolds == Init => MeshInv
<1> SUFFICES ASSUME Init PROVE MeshInv
  OBVIOUS
<1>1. spent \in [plan : Plans, cuts : Nat, failedDials : Nat]
  <2>1. spent \in [plan : Plans, cuts : {0}, failedDials : {0}]
    BY DEF Init
  <2> QED BY <2>1
<1>2. /\ spent.plan.invited \in [Node -> Node \cup {None}]
      /\ spent.plan.hinted \in [Node -> SUBSET Node]
  BY <1>1, BoundAssumption DEF Plan
<1>3. flights \in [Node -> SUBSET Flight] /\ \A n \in Node : \A f \in flights[n] : f.phase = "dialing"
  <2>1. flights = [n \in Node |->
           IF spent.plan.invited[n] = None THEN {}
           ELSE {[to |-> spent.plan.invited[n], kind |-> "invite",
                  phase |-> "dialing", stream |-> None]}]
    BY DEF Init
  <2>2. ASSUME NEW n \in Node
        PROVE  flights[n] \subseteq Flight /\ \A f \in flights[n] : f.phase = "dialing"
    <3>1. CASE spent.plan.invited[n] = None
      BY <2>1, <3>1
    <3>2. CASE spent.plan.invited[n] # None
      <4> DEFINE f == [to |-> spent.plan.invited[n], kind |-> "invite",
                       phase |-> "dialing", stream |-> None]
      <4>1. f \in Flight /\ f.phase = "dialing"
        BY <1>2, <3>2 DEF Flight
      <4>2. flights[n] = {f}
        BY <2>1, <3>2
      <4> QED BY <4>1, <4>2
    <3> QED BY <3>1, <3>2
  <2> QED BY <2>1, <2>2
<1>4. /\ Opened = {} /\ \A n \in Node : admitted[n] = <<>> /\ DOMAIN admitted[n] = {}
      /\ \A n \in Node : DOMAIN incoming[n] = {}
  BY DEF Init, Opened
<1>5. Shape
  <2>1. book \in [Node -> SUBSET Node]
    BY <1>2 DEF Init
  <2>2. /\ dialing \in [Node -> SUBSET Node]
        /\ opener \in [Stream -> Node \cup {None}] /\ answerer \in [Stream -> Node \cup {None}]
        /\ closed \in [Stream -> SUBSET Node] /\ cut \subseteq Stream
        /\ arriving \in [Node -> SUBSET Stream] /\ admitted \in [Node -> Seq(Stream)]
    BY DEF Init
  <2>3. /\ entry \in [Node -> [Node -> Stream \cup {None}]]
        /\ greeting \in [Node -> SUBSET Stream] /\ hello \in [Node -> SUBSET Stream]
        /\ reading \in [Node -> SUBSET Stream] /\ ended \in [Node -> SUBSET Stream]
    BY DEF Init
  <2>4. /\ incoming \in [Node -> Seq(Message)]
        /\ roster \in [Node -> SUBSET Node] /\ doubtful \in [Node -> SUBSET Node]
    BY DEF Init
  <2> QED BY <1>1, <1>3, <2>1, <2>2, <2>3, <2>4 DEF Shape
<1>6. EndsInv
  <2>1. \A n \in Node, s \in Stream : ~(s \in arriving[n] \/ Queued(n, s))
    BY <1>4 DEF Init, Queued
  <2>2. /\ \A n \in Node : greeting[n] \cup reading[n] \cup ended[n] = {} /\ hello[n] = {}
        /\ \A n, m \in Node : entry[n][m] = None
        /\ cut = {}
    BY DEF Init
  <2> QED BY <1>3, <1>4, <2>1, <2>2 DEF EndsInv
<1>7. HeldInv
  BY <1>4 DEF HeldInv
<1>8. GhostInv
  BY <1>4 DEF GhostInv, Heard, Init
<1> QED BY <1>5, <1>6, <1>7, <1>8 DEF MeshInv

LEMMA StepKeeps == MeshInv /\ [Next]_vars => MeshInv'
<1> SUFFICES ASSUME MeshInv, [Next]_vars PROVE MeshInv'
  OBVIOUS
<1>1. CASE UNCHANGED vars
  <2>1. UNCHANGED <<dialVars, streamVars, doorVars, peerVars, upVars, spent>>
    BY <1>1 DEF vars
  <2>2. SameLandings /\ flights' \in [Node -> SUBSET Flight] /\ dialing' \in [Node -> SUBSET Node]
        /\ book' \in [Node -> SUBSET Node] /\ spent' \in [plan : Plans, cuts : Nat, failedDials : Nat]
    BY <2>1 DEF SameLandings, MeshInv, Shape, dialVars
  <2> QED BY <2>1, <2>2, DialsBefore
<1>2. ASSUME NEW n \in Node, Discover(n) \/ Accept(n) \/ Handle(n) PROVE MeshInv'
  BY <1>2, DiscoverKeeps, AcceptKeeps, HandleKeeps
<1>3. ASSUME NEW n \in Node, NEW m \in Node, HintChecked(n, m) PROVE MeshInv'
  BY <1>3, HintCheckedKeeps
<1>4. ASSUME NEW n \in Node, NEW f \in flights[n],
             HintTakesOff(n, f) \/ Dial(n, f) \/ DialFails(n, f) \/ Land(n, f)
      PROVE  MeshInv'
  BY <1>4, HintTakesOffKeeps, DialKeeps, DialFailsKeeps, LandKeeps
<1>5. ASSUME NEW n \in Node, NEW s \in Stream,
             Admit(n, s) \/ Greet(n, s) \/ ReadHello(n, s) \/ EndOfStream(n, s) \/ Farewell(n, s)
      PROVE  MeshInv'
  BY <1>5, AdmitKeeps, GreetKeeps, ReadHelloKeeps, EndOfStreamKeeps, FarewellKeeps
<1>6. ASSUME NEW s \in Stream, Cut(s) PROVE MeshInv'
  BY <1>6, CutKeeps
<1> QED BY <1>1, <1>2, <1>3, <1>4, <1>5, <1>6 DEF Next

THEOREM MeshHolds == Spec => []MeshInv
BY InitHolds, StepKeeps, PTL DEF Spec

LEMMA NothingForgotten == MeshInv => NoForgottenStream
<1> SUFFICES ASSUME MeshInv, Settled, NEW s \in Opened, ~Dead(s)
             PROVE  entry[opener[s]][answerer[s]] = s /\ entry[answerer[s]][opener[s]] = s
  BY DEF NoForgottenStream
<1>1. opener[s] \in Node /\ answerer[s] \in Node /\ s \in Stream
  BY DEF MeshInv, Shape, EndsInv, Opened
<1>2. /\ \/ \E f \in flights[opener[s]] : f.phase = "landed" /\ f.stream = s
         \/ entry[opener[s]][answerer[s]] = s
      /\ \/ s \in arriving[answerer[s]] \/ Queued(answerer[s], s)
         \/ entry[answerer[s]][opener[s]] = s
  BY DEF MeshInv, HeldInv
<1>3. flights[opener[s]] = {} /\ arriving[answerer[s]] = {} /\ admitted[answerer[s]] = <<>>
  BY <1>1 DEF Settled
<1>4. ~Queued(answerer[s], s)
  BY <1>3 DEF Queued
<1> QED BY <1>2, <1>3, <1>4

\* Once nothing is on its way, an open stream is used by both of its ends: none is
\* left that an end replaced without closing, or gave up without the other noticing.
THEOREM NoStreamIsForgotten == Spec => []NoForgottenStream
BY MeshHolds, NothingForgotten, PTL

LEMMA EndsAgree == MeshInv => EntriesAgree
<1> SUFFICES ASSUME MeshInv, Settled PROVE \A n, m \in Node : entry[n][m] = entry[m][n]
  BY DEF EntriesAgree
<1>1. ASSUME NEW n \in Node, NEW m \in Node, entry[n][m] # None PROVE entry[m][n] = entry[n][m]
  <2> DEFINE s == entry[n][m]
  <2>1. s \in reading[n] /\ Far(n, s) = m
    BY <1>1 DEF MeshInv, EndsInv
  <2> HIDE DEF s
  <2>2. EndOf(n, s) /\ ~Dead(s)
    BY <2>1 DEF MeshInv, EndsInv, Settled
  <2>3. entry[opener[s]][answerer[s]] = s /\ entry[answerer[s]][opener[s]] = s
    BY <2>2, NothingForgotten DEF NoForgottenStream, EndOf
  <2>4. \/ opener[s] = n /\ answerer[s] = m
        \/ answerer[s] = n /\ opener[s] = m
    BY <2>1, <2>2 DEF EndOf, Far
  <2> QED BY <2>3, <2>4 DEF s
<1> QED BY <1>1

\* However the dials of a pair crossed, both ends use one stream once nothing is on
\* its way, or neither uses any.
THEOREM PairsAgree == Spec => []EntriesAgree
BY MeshHolds, EndsAgree, PTL

LEMMA RosterIsConnected == MeshInv => NoGhost
<1> SUFFICES ASSUME MeshInv, Settled, NEW n \in Node, NEW m \in roster[n]
             PROVE  entry[n][m] # None \/ m \in doubtful[n]
  BY DEF NoGhost
<1>1. m \in Node
  BY DEF MeshInv, Shape
<1>2. incoming[n] = <<>> /\ ended[n] = {}
  BY DEF Settled
<1>3. Heard(n, m)
  BY <1>2 DEF Heard
<1> QED BY <1>1, <1>2, <1>3 DEF MeshInv, GhostInv

\* Once nothing is on its way a roster names connected peers only, but for those a
\* full queue swallowed the farewell of or a replaced stream brought the greeting of.
THEOREM NobodyIsAGhost == Spec => []NoGhost
BY MeshHolds, RosterIsConnected, PTL
-----------------------------------------------------------------------------
(* The duel of two dials.                                                  *)

\* Streams are between two nodes.
NoSelf ==
    /\ \A n \in Node : n \notin book[n]
    /\ \A n \in Node : \A f \in flights[n] : f.to # n
    /\ \A s \in Opened : opener[s] # answerer[s]

\* A stream is on its way to an entry once, and not when the entry has it.
OnceInv ==
    /\ \A n \in Node : \A f, g \in flights[n] :
          f.phase = "landed" /\ g.phase = "landed" /\ f.stream = g.stream => f = g
    /\ \A n \in Node : \A f \in flights[n] :
          f.phase = "landed" => \A m \in Node : entry[n][m] # f.stream
    /\ \A n \in Node : \A i, j \in DOMAIN admitted[n] :
          admitted[n][i] = admitted[n][j] => i = j
    /\ \A n \in Node : \A s \in arriving[n] : ~Queued(n, s)
    /\ \A n \in Node, s \in Stream : s \in arriving[n] \/ Queued(n, s) =>
          \A m \in Node : entry[n][m] # s

\* No node opened two streams.
OneEach == \A r, s \in Opened : r # s => opener[r] # opener[s]

\* A stream was closed for one its other end opened, and that end has the smaller ID.
Beaten ==
    \A s \in Opened : closed[s] # {} =>
        \E r \in Opened : /\ opener[r] = answerer[s] /\ answerer[r] = opener[s]
                          /\ opener[r] < opener[s]

DuelInv ==
    /\ NoSelf /\ OnceInv
    /\ spent.cuts = 0 => cut = {}
    /\ OneEach => Beaten

-----------------------------------------------------------------------------
LEMMA NoSelfStays ==
    ASSUME MeshInv, PlansApart, NoSelf, [Next]_vars PROVE NoSelf'
<1>1. Shape /\ EndsInv
  BY DEF MeshInv
<1>2. spent.plan \in Plans
  BY <1>1 DEF Shape
<1>3. CASE UNCHANGED <<flights, book, opener, answerer>>
  BY <1>3 DEF NoSelf, Opened
<1>4. ASSUME NEW n \in Node, Discover(n) PROVE NoSelf'
  <2> DEFINE host == spent.plan.invited[n]
             f == [to |-> host, kind |-> "discover", phase |-> "dialing", stream |-> None]
  <2>1. /\ flights' = [flights EXCEPT ![n] = flights[n] \cup {f}]
        /\ UNCHANGED <<book, opener, answerer>>
    BY <1>4 DEF Discover, streamVars
  <2>2. f.to # n
    BY <1>2 DEF PlansApart
  <2> HIDE DEF f
  <2>3. \A k \in Node : \A g \in flights'[k] : g.to # k
    BY <1>1, <2>1, <2>2 DEF NoSelf, Shape
  <2> QED BY <2>1, <2>3 DEF NoSelf, Opened
<1>5. ASSUME NEW n \in Node, NEW m \in Node, HintChecked(n, m) PROVE NoSelf'
  <2> DEFINE f == [to |-> m, kind |-> "hint", phase |-> "checked", stream |-> None]
  <2>1. /\ book' = [book EXCEPT ![n] = book[n] \ {m}] /\ m \in book[n]
        /\ \/ flights' = [flights EXCEPT ![n] = flights[n]]
           \/ flights' = [flights EXCEPT ![n] = flights[n] \cup {f}]
        /\ UNCHANGED <<opener, answerer>>
    BY <1>5 DEF HintChecked, streamVars
  <2>2. f.to # n
    BY <2>1 DEF NoSelf
  <2> HIDE DEF f
  <2>3. \A k \in Node : \A g \in flights'[k] : g.to # k
    <3>1. flights \in [Node -> SUBSET Flight]
      BY <1>1 DEF Shape
    <3>2. CASE flights' = [flights EXCEPT ![n] = flights[n]]
      BY <3>1, <3>2 DEF NoSelf
    <3>3. CASE flights' = [flights EXCEPT ![n] = flights[n] \cup {f}]
      BY <2>2, <3>1, <3>3 DEF NoSelf
    <3> QED BY <2>1, <3>2, <3>3
  <2>4. \A k \in Node : k \notin book'[k]
    BY <1>1, <2>1 DEF NoSelf, Shape
  <2> QED BY <2>1, <2>3, <2>4 DEF NoSelf, Opened
<1>6. ASSUME NEW n \in Node, NEW f \in flights[n], HintTakesOff(n, f) PROVE NoSelf'
  <2> DEFINE g == [f EXCEPT !.phase = "dialing"]
  <2>1. /\ flights' = [flights EXCEPT ![n] = (flights[n] \ {f}) \cup {g}]
        /\ UNCHANGED <<book, opener, answerer>>
    BY <1>6 DEF HintTakesOff, streamVars
  <2>2. g.to # n
    BY <1>1 DEF NoSelf, Shape, Flight
  <2> HIDE DEF g
  <2>3. \A k \in Node : \A h \in flights'[k] : h.to # k
    BY <1>1, <2>1, <2>2 DEF NoSelf, Shape
  <2> QED BY <2>1, <2>3 DEF NoSelf, Opened
<1>7. ASSUME NEW n \in Node, NEW f \in flights[n], DialFails(n, f) \/ Land(n, f) PROVE NoSelf'
  <2>1. /\ flights' = [flights EXCEPT ![n] = flights[n] \ {f}]
        /\ UNCHANGED <<book, opener, answerer>>
    BY <1>7 DEF DialFails, Land, streamVars
  <2>2. \A k \in Node : \A h \in flights'[k] : h.to # k
    BY <1>1, <2>1 DEF NoSelf, Shape
  <2> QED BY <2>1, <2>2 DEF NoSelf, Opened
<1>8. ASSUME NEW n \in Node, NEW f \in flights[n], Dial(n, f) PROVE NoSelf'
  <2>1. PICK s \in Unused :
           /\ opener' = [opener EXCEPT ![s] = n]
           /\ answerer' = [answerer EXCEPT ![s] = f.to]
           /\ flights' = [flights EXCEPT ![n] =
                 (flights[n] \ {f}) \cup {[f EXCEPT !.phase = "landed", !.stream = s]}]
           /\ book' = book
    BY <1>8 DEF Dial
  <2> DEFINE g == [f EXCEPT !.phase = "landed", !.stream = s]
  <2>2. g.to = f.to /\ f.to # n
    BY <1>1 DEF NoSelf, Shape, Flight
  <2>3. flights' = [flights EXCEPT ![n] = (flights[n] \ {f}) \cup {g}]
    BY <2>1
  <2> HIDE DEF g
  <2>4. \A k \in Node : \A h \in flights'[k] : h.to # k
    BY <1>1, <2>2, <2>3 DEF NoSelf, Shape
  <2>5. s \in Stream
    BY <1>1, UnusedIs
  <2>6. \A r \in Stream : opener'[r] # None => opener'[r] # answerer'[r]
    <3> SUFFICES ASSUME NEW r \in Stream, opener'[r] # None PROVE opener'[r] # answerer'[r]
      OBVIOUS
    <3>1. CASE r = s
      BY <1>1, <2>1, <2>2, <2>5, <3>1 DEF Shape
    <3>2. CASE r # s
      <4>1. opener'[r] = opener[r] /\ answerer'[r] = answerer[r]
        BY <1>1, <2>1, <2>5, <3>2 DEF Shape
      <4> QED BY <4>1 DEF NoSelf, Opened
    <3> QED BY <3>1, <3>2
  <2> QED BY <2>1, <2>4, <2>6 DEF NoSelf, Opened
<1>9. ASSUME NEW n \in Node,
             \/ Accept(n) \/ Handle(n)
             \/ \E s \in Stream :
                   Admit(n, s) \/ Greet(n, s) \/ ReadHello(n, s) \/ EndOfStream(n, s) \/ Farewell(n, s)
      PROVE  UNCHANGED <<flights, book, opener, answerer>>
  BY <1>9 DEF Accept, Handle, Admit, Greet, ReadHello, EndOfStream, Farewell, dialVars, streamVars
<1>10. ASSUME NEW s \in Stream, Cut(s) PROVE UNCHANGED <<flights, book, opener, answerer>>
  BY <1>10 DEF Cut, dialVars, streamVars
<1>11. UNCHANGED vars => UNCHANGED <<flights, book, opener, answerer>>
  BY DEF vars, dialVars, streamVars
<1> QED BY <1>3, <1>4, <1>5, <1>6, <1>7, <1>8, <1>9, <1>10, <1>11 DEF Next

-----------------------------------------------------------------------------
\* A step that lands no dial, lets no stream through the door and sets no entry.
LEMMA OnceSame ==
    ASSUME Shape, EndsInv, OnceInv, UNCHANGED doorVars,
           \A n \in Node : \A f \in flights'[n] : f.phase = "landed" => f \in flights[n],
           \A n, m \in Node : entry'[n][m] \in {entry[n][m], None}
    PROVE  OnceInv'
<1>1. \A n \in Node, s \in Stream : Queued(n, s)' <=> Queued(n, s)
  BY DEF Queued, doorVars
<1>2. \A n, m \in Node : \A s \in Stream : entry[n][m] # s => entry'[n][m] # s
  BY NamesApart
<1>3. \A n \in Node : \A f, g \in flights'[n] :
         f.phase = "landed" /\ g.phase = "landed" /\ f.stream = g.stream => f = g
  BY DEF OnceInv
<1>4. ASSUME NEW n \in Node, NEW f \in flights'[n], f.phase = "landed", NEW m \in Node
      PROVE  entry'[n][m] # f.stream
  <2>1. entry[n][m] # f.stream /\ f.stream \in Stream
    BY <1>4 DEF OnceInv, EndsInv, Opened
  <2> QED BY <1>2, <2>1
<1>5. \A n \in Node : \A f \in flights'[n] :
         f.phase = "landed" => \A m \in Node : entry'[n][m] # f.stream
  BY <1>4
<1>6. \A n \in Node, s \in Stream : s \in arriving[n] \/ Queued(n, s)' =>
         \A m \in Node : entry'[n][m] # s
  BY <1>1, <1>2 DEF OnceInv
<1>7. /\ \A n \in Node : \A s \in arriving[n] : s \in Stream
      /\ UNCHANGED <<arriving, admitted>>
  BY DEF Shape, doorVars
<1>8. \A n \in Node : \A s \in arriving[n] : ~Queued(n, s)'
  BY <1>1, <1>7 DEF OnceInv
<1> QED BY <1>3, <1>5, <1>6, <1>7, <1>8 DEF OnceInv

\* A dial that lands takes a stream nobody knows.
LEMMA DialOnce ==
    ASSUME MeshInv, OnceInv, NEW n \in Node, NEW f \in flights[n], Dial(n, f) PROVE OnceInv'
<1>1. Shape /\ EndsInv
  BY DEF MeshInv
<1>2. f \in Flight /\ f.to \in Node
  BY <1>1 DEF Shape, Flight
<1>3. PICK s \in Unused :
         /\ arriving' = [arriving EXCEPT ![f.to] = arriving[f.to] \cup {s}]
         /\ flights' = [flights EXCEPT ![n] =
               (flights[n] \ {f}) \cup {[f EXCEPT !.phase = "landed", !.stream = s]}]
  BY DEF Dial
<1>4. UNCHANGED <<admitted, entry>>
  BY DEF Dial, peerVars
<1>5. /\ s \in Stream
      /\ \A k \in Node : /\ \A h \in flights[k] : h.phase = "landed" => h.stream # s
                         /\ s \notin arriving[k] /\ ~Queued(k, s)
                         /\ \A m \in Node : entry[k][m] # s
  BY <1>1, UnusedIs
<1> DEFINE g == [f EXCEPT !.phase = "landed", !.stream = s]
<1>6. g.stream = s
  BY <1>2, <1>5 DEF Flight
<1>7. flights' = [flights EXCEPT ![n] = (flights[n] \ {f}) \cup {g}]
  BY <1>3
<1> HIDE DEF g
<1>8. /\ \A k \in Node : \A h \in flights'[k] : h \in flights[k] \/ h = g
      /\ \A k \in Node : \A r \in arriving'[k] : r \in arriving[k] \/ r = s
      /\ \A k \in Node : arriving'[k] \subseteq Stream
      /\ \A k \in Node, r \in Stream : Queued(k, r)' <=> Queued(k, r)
  BY <1>1, <1>2, <1>3, <1>4, <1>5, <1>7 DEF Shape, Queued
<1>9. \A k \in Node : \A h, j \in flights'[k] :
         h.phase = "landed" /\ j.phase = "landed" /\ h.stream = j.stream => h = j
  BY <1>5, <1>6, <1>8 DEF OnceInv
<1>10. \A k \in Node : \A h \in flights'[k] :
          h.phase = "landed" => \A m \in Node : entry'[k][m] # h.stream
  BY <1>4, <1>5, <1>6, <1>8 DEF OnceInv
<1>11. \A k \in Node : \A r \in arriving'[k] : ~Queued(k, r)'
  BY <1>5, <1>8 DEF OnceInv
<1>12. \A k \in Node, r \in Stream : r \in arriving'[k] \/ Queued(k, r)' =>
          \A m \in Node : entry'[k][m] # r
  BY <1>4, <1>5, <1>8 DEF OnceInv
<1> QED BY <1>4, <1>9, <1>10, <1>11, <1>12 DEF OnceInv

\* A stream is queued behind others than itself.
LEMMA AdmitOnce ==
    ASSUME MeshInv, OnceInv, NEW n \in Node, NEW s \in Stream, Admit(n, s) PROVE OnceInv'
<1>1. Shape /\ EndsInv
  BY DEF MeshInv
<1>2. /\ s \in arriving[n] /\ arriving' = [arriving EXCEPT ![n] = arriving[n] \ {s}]
      /\ UNCHANGED <<flights, entry>>
  BY DEF Admit, dialVars, peerVars
<1>3. CASE UNCHANGED admitted
  <2>1. \A k \in Node, r \in Stream : Queued(k, r)' <=> Queued(k, r)
    BY <1>3 DEF Queued
  <2>2. \A k \in Node : arriving'[k] \subseteq arriving[k] /\ arriving[k] \subseteq Stream
    BY <1>1, <1>2 DEF Shape
  <2>3. \A k \in Node : \A r \in arriving'[k] : ~Queued(k, r)'
    BY <2>1, <2>2 DEF OnceInv
  <2>4. \A k \in Node, r \in Stream : r \in arriving'[k] \/ Queued(k, r)' =>
           \A m \in Node : entry[k][m] # r
    BY <2>1, <2>2 DEF OnceInv
  <2> QED BY <1>2, <1>3, <2>3, <2>4 DEF OnceInv
<1>4. CASE admitted' = [admitted EXCEPT ![n] = Append(admitted[n], s)]
  <2> DEFINE p == admitted[n]
             q == Append(p, s)
             len == Len(p)
  <2>1. admitted \in [Node -> Seq(Stream)] /\ p \in Seq(Stream)
    BY <1>1 DEF Shape
  <2>2. /\ len \in Nat /\ DOMAIN p = 1..len /\ DOMAIN q = 1..(len + 1)
        /\ q[len + 1] = s /\ \A i \in 1..len : q[i] = p[i]
    BY <2>1, AppendIs
  <2>3. \A i \in 1..len : p[i] # s
    BY <1>2, <2>2 DEF OnceInv, Queued
  <2>4. \A i, j \in 1..len : p[i] = p[j] => i = j
    BY <2>2 DEF OnceInv
  <2>5. admitted'[n] = q /\ \A k \in Node : k # n => admitted'[k] = admitted[k]
    BY <1>4, <2>1
  <2>6. p = admitted[n]
    OBVIOUS
  <2> HIDE DEF p, q, len
  <2>7. \A i, j \in DOMAIN q : q[i] = q[j] => i = j
    <3> SUFFICES ASSUME NEW i \in DOMAIN q, NEW j \in DOMAIN q, q[i] = q[j] PROVE i = j
      OBVIOUS
    <3>1. (i \in 1..len \/ i = len + 1) /\ (j \in 1..len \/ j = len + 1)
      BY <2>2
    <3> QED BY <2>2, <2>3, <2>4, <3>1
  <2>8. \A k \in Node, r \in Stream : Queued(k, r)' => Queued(k, r) \/ (k = n /\ r = s)
    <3> SUFFICES ASSUME NEW k \in Node, NEW r \in Stream, Queued(k, r)'
                 PROVE  Queued(k, r) \/ (k = n /\ r = s)
      OBVIOUS
    <3>1. CASE k # n
      BY <2>5, <3>1 DEF Queued
    <3>2. CASE k = n
      <4>1. PICK i \in DOMAIN q : q[i] = r
        BY <2>5, <3>2 DEF Queued
      <4>2. i \in 1..len \/ i = len + 1
        BY <2>2
      <4> QED BY <2>2, <2>6, <3>2, <4>1, <4>2 DEF Queued
    <3> QED BY <3>1, <3>2
  <2>9. /\ \A k \in Node : arriving'[k] \subseteq arriving[k] /\ arriving[k] \subseteq Stream
        /\ s \notin arriving'[n]
    BY <1>1, <1>2 DEF Shape
  <2>10. \A k \in Node : \A r \in arriving'[k] : ~Queued(k, r)'
    BY <2>8, <2>9 DEF OnceInv
  <2>11. \A k \in Node, r \in Stream : r \in arriving'[k] \/ Queued(k, r)' =>
            \A m \in Node : entry[k][m] # r
    BY <1>2, <2>8, <2>9 DEF OnceInv
  <2>12. \A k \in Node : \A i, j \in DOMAIN admitted'[k] :
            admitted'[k][i] = admitted'[k][j] => i = j
    BY <2>5, <2>7 DEF OnceInv
  <2> QED BY <1>2, <2>10, <2>11, <2>12 DEF OnceInv
<1> QED BY <1>3, <1>4 DEF Admit

\* A stream that lands or is accepted is on its way no more.
LEMMA AddPeerOnce ==
    ASSUME MeshInv, OnceInv, NEW n \in Node, NEW s, EndOf(n, s), AddPeer(n, s),
           UNCHANGED arriving,
           \A k \in Node : flights'[k] \subseteq flights[k],
           \A f \in flights'[n] : f.phase = "landed" => f.stream # s,
           s \notin arriving[n], ~Queued(n, s)',
           \A k \in Node : \A i, j \in DOMAIN admitted'[k] :
              admitted'[k][i] = admitted'[k][j] => i = j,
           \A k \in Node, r \in Stream : Queued(k, r)' => Queued(k, r)
    PROVE  OnceInv'
<1> DEFINE m == Far(n, s)
<1>1. Shape /\ EndsInv
  BY DEF MeshInv
<1>2. /\ m \in Node /\ s \in Stream
      /\ \A k, l \in Node : k # n \/ l # m => entry'[k][l] = entry[k][l]
      /\ entry'[n][m] = entry[n][m] \/ entry'[n][m] = s
  BY <1>1, AddPeerIs
<1> HIDE DEF m
<1>3. \A k, l \in Node : entry'[k][l] = entry[k][l] \/ (k = n /\ entry'[k][l] = s)
  BY <1>2
<1>4. \A k \in Node : \A f, g \in flights'[k] :
         f.phase = "landed" /\ g.phase = "landed" /\ f.stream = g.stream => f = g
  BY DEF OnceInv
<1>5. ASSUME NEW k \in Node, NEW f \in flights'[k], f.phase = "landed", NEW l \in Node
      PROVE  entry'[k][l] # f.stream
  <2>1. entry[k][l] # f.stream
    BY <1>5 DEF OnceInv
  <2> QED BY <1>3, <1>5, <2>1
<1>6. ASSUME NEW k \in Node, NEW r \in arriving[k], Queued(k, r)' PROVE FALSE
  <2>1. r \in Stream /\ Queued(k, r)
    BY <1>1, <1>6 DEF Shape
  <2> QED BY <2>1 DEF OnceInv
<1>7. ASSUME NEW k \in Node, NEW r \in Stream, r \in arriving[k] \/ Queued(k, r)', NEW l \in Node
      PROVE  entry'[k][l] # r
  <2>1. entry[k][l] # r
    BY <1>7 DEF OnceInv
  <2>2. k = n => r # s
    BY <1>7
  <2> QED BY <1>3, <2>1, <2>2
<1>8. \A k \in Node : \A f \in flights'[k] :
         f.phase = "landed" => \A l \in Node : entry'[k][l] # f.stream
  BY <1>5
<1>9. \A k \in Node : \A r \in arriving[k] : ~Queued(k, r)'
  BY <1>6
<1>10. \A k \in Node, r \in Stream : r \in arriving[k] \/ Queued(k, r)' =>
          \A l \in Node : entry'[k][l] # r
  BY <1>7
<1> QED BY <1>4, <1>8, <1>9, <1>10 DEF OnceInv

LEMMA LandOnce ==
    ASSUME MeshInv, NoSelf, OnceInv, NEW n \in Node, NEW f \in flights[n], Land(n, f)
    PROVE  OnceInv'
<1> DEFINE s == f.stream
<1>1. Shape /\ EndsInv
  BY DEF MeshInv
<1>2. /\ f.phase = "landed" /\ AddPeer(n, s)
      /\ flights' = [flights EXCEPT ![n] = flights[n] \ {f}]
      /\ UNCHANGED <<arriving, admitted>>
  BY DEF Land, doorVars
<1>3. opener[s] = n /\ EndOf(n, s) /\ s \in Stream /\ answerer[s] # n
  BY <1>1, <1>2 DEF EndsInv, EndOf, NoSelf, Opened
<1>4. /\ \A k \in Node : flights'[k] \subseteq flights[k]
      /\ f \notin flights'[n]
  BY <1>1, <1>2 DEF Shape
<1>5. \A g \in flights'[n] : g.phase = "landed" => g.stream # s
  BY <1>2, <1>4 DEF OnceInv
<1> HIDE DEF s
<1>6. \A k \in Node, r \in Stream : Queued(k, r)' <=> Queued(k, r)
  BY <1>2 DEF Queued
<1>7. s \notin arriving[n] /\ ~Queued(n, s)
  BY <1>1, <1>3 DEF EndsInv
<1>8. \A k \in Node : \A i, j \in DOMAIN admitted'[k] : admitted'[k][i] = admitted'[k][j] => i = j
  BY <1>2 DEF OnceInv
<1> QED BY <1>2, <1>3, <1>4, <1>5, <1>6, <1>7, <1>8, AddPeerOnce

LEMMA AcceptOnce ==
    ASSUME MeshInv, NoSelf, OnceInv, NEW n \in Node, Accept(n) PROVE OnceInv'
<1> DEFINE q == admitted[n]
           s == Head(q)
           len == Len(q)
<1>1. Shape /\ EndsInv
  BY DEF MeshInv
<1>2. /\ q # <<>> /\ AddPeer(n, s) /\ admitted' = [admitted EXCEPT ![n] = Tail(q)]
      /\ UNCHANGED <<flights, arriving>>
  BY DEF Accept, dialVars
<1>3. q \in Seq(Stream) /\ admitted \in [Node -> Seq(Stream)]
  BY <1>1 DEF Shape
<1>4. /\ len \in Nat \ {0} /\ s = q[1] /\ s \in Stream
      /\ DOMAIN q = 1..len /\ DOMAIN Tail(q) = 1..(len - 1)
      /\ \A i \in 1..(len - 1) : Tail(q)[i] = q[i + 1]
  BY <1>2, <1>3, TailIs
<1>5. \A i, j \in DOMAIN q : q[i] = q[j] => i = j
  BY DEF OnceInv
<1>6. admitted'[n] = Tail(q) /\ \A k \in Node : k # n => admitted'[k] = admitted[k]
  BY <1>2, <1>3
<1>7. q = admitted[n]
  OBVIOUS
<1>t. PICK t \in Stream : t = s
  BY <1>4
<1> HIDE DEF q, s, len
<1>8. 1 \in DOMAIN q /\ Queued(n, t)
  <2>1. 1 \in DOMAIN q
    BY <1>4
  <2> QED BY <1>4, <1>7, <1>t, <2>1 DEF Queued
<1>9. answerer[t] = n /\ EndOf(n, t) /\ opener[t] # n /\ t \notin arriving[n]
  BY <1>1, <1>4, <1>8 DEF EndsInv, EndOf, NoSelf, OnceInv
<1>10. \A i \in DOMAIN Tail(q) : i + 1 \in DOMAIN q /\ i + 1 # 1 /\ Tail(q)[i] = q[i + 1] /\ i \in Nat
  BY <1>4
<1>11. \A i, j \in DOMAIN Tail(q) : Tail(q)[i] = Tail(q)[j] => i = j
  <2> SUFFICES ASSUME NEW i \in DOMAIN Tail(q), NEW j \in DOMAIN Tail(q), Tail(q)[i] = Tail(q)[j]
               PROVE  i = j
    OBVIOUS
  <2>1. i + 1 = j + 1
    BY <1>5, <1>10
  <2> QED BY <1>10, <2>1
<1>12. \A i \in DOMAIN Tail(q) : Tail(q)[i] # t
  BY <1>4, <1>5, <1>8, <1>10, <1>t
<1>13. \A k \in Node, r \in Stream : Queued(k, r)' => Queued(k, r)
  <2> SUFFICES ASSUME NEW k \in Node, NEW r \in Stream, Queued(k, r)' PROVE Queued(k, r)
    OBVIOUS
  <2>1. CASE k # n
    BY <1>6, <2>1 DEF Queued
  <2>2. CASE k = n
    <3>1. PICK i \in DOMAIN Tail(q) : Tail(q)[i] = r
      BY <1>6, <2>2 DEF Queued
    <3>2. i + 1 \in DOMAIN q /\ q[i + 1] = r
      BY <1>10, <3>1
    <3> QED BY <1>7, <2>2, <3>2 DEF Queued
  <2> QED BY <2>1, <2>2
<1>14. ~Queued(n, t)'
  <2> SUFFICES ASSUME Queued(n, t)' PROVE FALSE
    OBVIOUS
  <2>1. PICK i \in DOMAIN admitted'[n] : admitted'[n][i] = t
    BY DEF Queued
  <2>2. i \in DOMAIN Tail(q) /\ Tail(q)[i] = t
    BY <1>6, <2>1
  <2> QED BY <1>12, <2>2
<1>15. \A k \in Node : \A i, j \in DOMAIN admitted'[k] :
          admitted'[k][i] = admitted'[k][j] => i = j
  BY <1>6, <1>11 DEF OnceInv
<1>16. \A f \in flights'[n] : f.phase = "landed" => f.stream # t
  BY <1>1, <1>2, <1>9 DEF EndsInv
<1>17. UNCHANGED arriving /\ \A k \in Node : flights'[k] \subseteq flights[k]
  BY <1>2
<1>18. AddPeer(n, t)
  BY <1>2, <1>t
<1> QED BY <1>18, <1>9, <1>13, <1>14, <1>15, <1>16, <1>17, AddPeerOnce

LEMMA OnceStays == ASSUME MeshInv, NoSelf, OnceInv, [Next]_vars PROVE OnceInv'
<1>1. Shape /\ EndsInv
  BY DEF MeshInv
<1>2. ASSUME UNCHANGED <<doorVars, entry>>,
             \A n \in Node : \A f \in flights'[n] : f.phase = "landed" => f \in flights[n]
      PROVE  OnceInv'
  BY <1>1, <1>2, OnceSame
<1>3. ASSUME NEW n \in Node,
             \/ Discover(n)
             \/ \E m \in Node : HintChecked(n, m)
             \/ \E f \in flights[n] : HintTakesOff(n, f) \/ DialFails(n, f)
      PROVE  /\ UNCHANGED <<doorVars, entry>>
             /\ \A k \in Node : \A f \in flights'[k] : f.phase = "landed" => f \in flights[k]
  <2>1. UNCHANGED <<doorVars, entry>>
    BY <1>3 DEF Discover, HintChecked, HintTakesOff, DialFails, peerVars
  <2>2. \E f : /\ flights' = [flights EXCEPT ![n] = flights'[n]]
               /\ flights'[n] \subseteq flights[n] \cup {f} /\ f.phase # "landed"
    <3>1. flights \in [Node -> SUBSET Flight]
      BY <1>1 DEF Shape
    <3>2. CASE Discover(n)
      <4> DEFINE f == [to |-> spent.plan.invited[n], kind |-> "discover",
                       phase |-> "dialing", stream |-> None]
      <4>1. flights' = [flights EXCEPT ![n] = flights[n] \cup {f}]
        BY <3>2 DEF Discover
      <4>2. f.phase # "landed"
        OBVIOUS
      <4> HIDE DEF f
      <4> QED BY <3>1, <4>1, <4>2
    <3>3. ASSUME NEW m \in Node, HintChecked(n, m)
          PROVE  \E f : /\ flights' = [flights EXCEPT ![n] = flights'[n]]
                        /\ flights'[n] \subseteq flights[n] \cup {f} /\ f.phase # "landed"
      <4> DEFINE f == [to |-> m, kind |-> "hint", phase |-> "checked", stream |-> None]
      <4>1. \/ flights' = [flights EXCEPT ![n] = flights[n]]
            \/ flights' = [flights EXCEPT ![n] = flights[n] \cup {f}]
        BY <3>3 DEF HintChecked
      <4>2. f.phase # "landed"
        OBVIOUS
      <4> HIDE DEF f
      <4>3. CASE flights' = [flights EXCEPT ![n] = flights[n]]
        BY <3>1, <4>2, <4>3
      <4>4. CASE flights' = [flights EXCEPT ![n] = flights[n] \cup {f}]
        BY <3>1, <4>2, <4>4
      <4> QED BY <4>1, <4>3, <4>4
    <3>4. ASSUME NEW f \in flights[n], HintTakesOff(n, f)
          PROVE  \E g : /\ flights' = [flights EXCEPT ![n] = flights'[n]]
                        /\ flights'[n] \subseteq flights[n] \cup {g} /\ g.phase # "landed"
      <4> DEFINE g == [f EXCEPT !.phase = "dialing"]
      <4>1. flights' = [flights EXCEPT ![n] = (flights[n] \ {f}) \cup {g}]
        BY <3>4 DEF HintTakesOff
      <4>2. g.phase # "landed"
        BY <3>1 DEF Flight
      <4> HIDE DEF g
      <4> QED BY <3>1, <4>1, <4>2
    <3>5. ASSUME NEW f \in flights[n], DialFails(n, f)
          PROVE  \E g : /\ flights' = [flights EXCEPT ![n] = flights'[n]]
                        /\ flights'[n] \subseteq flights[n] \cup {g} /\ g.phase # "landed"
      <4>1. flights' = [flights EXCEPT ![n] = flights[n] \ {f}] /\ f.phase # "landed"
        BY <3>5 DEF DialFails
      <4> QED BY <3>1, <4>1
    <3> QED BY <1>3, <3>2, <3>3, <3>4, <3>5
  <2> QED BY <1>1, <2>1, <2>2 DEF Shape
<1>4. ASSUME NEW n \in Node,
             \/ Handle(n)
             \/ \E s \in Stream : Greet(n, s) \/ ReadHello(n, s) \/ Farewell(n, s)
      PROVE  UNCHANGED <<flights, doorVars, entry>>
  BY <1>4 DEF Handle, Greet, ReadHello, Farewell, dialVars, peerVars
<1>5. ASSUME NEW s \in Stream, Cut(s) PROVE UNCHANGED <<flights, doorVars, entry>>
  BY <1>5 DEF Cut, dialVars, peerVars
<1>6. UNCHANGED vars => UNCHANGED <<flights, doorVars, entry>>
  BY DEF vars, dialVars, peerVars
<1>7. ASSUME NEW n \in Node, NEW s \in Stream, EndOfStream(n, s) PROVE OnceInv'
  <2>1. /\ UNCHANGED <<flights, doorVars>>
        /\ \/ entry' = [entry EXCEPT ![n][Far(n, s)] = None]
           \/ entry' = entry
    BY <1>7 DEF EndOfStream, dialVars
  <2>2. \A k, m \in Node : entry'[k][m] \in {entry[k][m], None}
    <3>1. entry \in [Node -> [Node -> Stream \cup {None}]]
      BY <1>1 DEF Shape
    <3>2. CASE entry' = [entry EXCEPT ![n][Far(n, s)] = None]
      BY <3>1, <3>2
    <3> QED BY <2>1, <3>2
  <2> QED BY <1>1, <2>1, <2>2, OnceSame
<1>8. ASSUME NEW n \in Node, NEW f \in flights[n], Dial(n, f) \/ Land(n, f) PROVE OnceInv'
  BY <1>8, DialOnce, LandOnce
<1>9. ASSUME NEW n \in Node, Accept(n) PROVE OnceInv'
  BY <1>9, AcceptOnce
<1>10. ASSUME NEW n \in Node, NEW s \in Stream, Admit(n, s) PROVE OnceInv'
  BY <1>10, AdmitOnce
<1> QED BY <1>2, <1>3, <1>4, <1>5, <1>6, <1>7, <1>8, <1>9, <1>10 DEF Next

-----------------------------------------------------------------------------
\* The door of a room that fits is never shut: whoever waits was opened by another node.
LEMMA DoorStaysOpen ==
    ASSUME MeshInv, NoSelf, OnceInv, OneEach, RoomFits,
           NEW n \in Node, NEW s \in arriving[n]
    PROVE  Len(admitted[n]) # AdmittedCap
<1> SUFFICES ASSUME Len(admitted[n]) = AdmittedCap PROVE FALSE
  OBVIOUS
<1>1. Shape /\ EndsInv /\ s \in Stream /\ AdmittedCap \in Nat
  BY BoundAssumption DEF MeshInv, Shape
<1> DEFINE p == admitted[n]
           q == Append(p, s)
           waiting == 1..(AdmittedCap + 1)
           from == [i \in waiting |-> opener[q[i]]]
<1>2. /\ p \in Seq(Stream) /\ DOMAIN p = 1..AdmittedCap
      /\ q[AdmittedCap + 1] = s /\ \A i \in 1..AdmittedCap : q[i] = p[i]
  <2>1. p \in Seq(Stream)
    BY <1>1 DEF Shape
  <2> QED BY <1>1, <2>1, AppendIs
<1>3. /\ \A i \in 1..AdmittedCap : p[i] \in Stream /\ Queued(n, p[i]) /\ p[i] # s
      /\ \A i, j \in 1..AdmittedCap : p[i] = p[j] => i = j
  BY <1>2 DEF OnceInv, Queued
<1> HIDE DEF p, q
<1>4. \A i \in waiting : i \in 1..AdmittedCap \/ i = AdmittedCap + 1
  BY <1>1
<1>5. \A i, j \in waiting : q[i] = q[j] => i = j
  BY <1>2, <1>3, <1>4
<1>6. \A i \in waiting : q[i] \in Opened /\ opener[q[i]] \in Node \ {n}
  <2> SUFFICES ASSUME NEW i \in waiting PROVE q[i] \in Opened /\ opener[q[i]] \in Node \ {n}
    OBVIOUS
  <2>1. q[i] \in Stream /\ (q[i] \in arriving[n] \/ Queued(n, q[i]))
    BY <1>1, <1>2, <1>3, <1>4
  <2>2. q[i] \in Opened /\ answerer[q[i]] = n
    BY <1>1, <2>1 DEF EndsInv
  <2> QED BY <1>1, <2>2 DEF NoSelf, Opened, Shape
<1>7. from \in [waiting -> Node \ {n}]
  BY <1>6
<1>8. IsFiniteSet(waiting) /\ Cardinality(waiting) = AdmittedCap + 1
  BY <1>1, FS_Interval
<1>9. IsFiniteSet(Node \ {n}) /\ Cardinality(Node \ {n}) < Cardinality(waiting)
  <2>1. /\ IsFiniteSet(Node \ {n}) /\ Cardinality(Node \ {n}) = Cardinality(Node) - 1
        /\ Cardinality(Node) \in Nat
    BY FS_RemoveElement, FS_CardinalityType DEF RoomFits
  <2> QED BY <1>1, <1>8, <2>1 DEF RoomFits
<1>10. PICK i, j \in waiting : i # j /\ from[i] = from[j]
  <2> HIDE DEF waiting, from
  <2> QED BY <1>7, <1>8, <1>9, FS_PigeonHole
<1> QED BY <1>5, <1>6, <1>10 DEF OneEach

\* While nobody opens two streams there are fresh ones.
LEMMA DialIsFresh ==
    ASSUME MeshInv, RoomFits, OneEach', NEW n \in Node, NEW s \in Unused,
           opener' = [opener EXCEPT ![s] = n]
    PROVE  s \in Stream \ Opened
<1> SUFFICES ASSUME s \in Opened PROVE FALSE
  BY DEF Unused, Forgotten, Opened
<1>1. opener \in [Stream -> Node \cup {None}] /\ n # None
  BY NamesApart DEF MeshInv, Shape
<1>2. Opened = Stream
  BY DEF Unused, Opened
<1>3. opener' \in [Stream -> Node] /\ Opened' = Stream
  BY <1>1, <1>2 DEF Opened
<1>4. IsFiniteSet(Stream) /\ Cardinality(Stream) = MaxStreams
  BY BoundAssumption, FS_Interval DEF Stream
<1>5. \E r, t \in Stream : r # t /\ opener'[r] = opener'[t]
  <2>1. \A f \in [Stream -> Node] : \E r, t \in Stream : r # t /\ f[r] = f[t]
    BY <1>4, FS_PigeonHole DEF RoomFits
  <2> QED BY <1>3, <2>1
<1> QED BY <1>3, <1>5 DEF OneEach

\* Of two streams between the same nodes, the one of the smaller opener stays.
LEMMA AddPeerBeats ==
    ASSUME MeshInv, NoSelf, OneEach, Beaten, NEW n \in Node, NEW s, EndOf(n, s), AddPeer(n, s),
           \A m \in Node : entry[n][m] # s, UNCHANGED <<opener, answerer>>
    PROVE  Beaten'
<1> DEFINE m == Far(n, s)
           old == entry[n][m]
           Wins(r, t) == /\ opener[r] = answerer[t] /\ answerer[r] = opener[t]
                         /\ opener[r] < opener[t]
<1>1. Shape /\ EndsInv
  BY DEF MeshInv
<1>2. /\ m \in Node /\ s \in Stream /\ s \in Opened
      /\ opener[s] \in Node /\ answerer[s] \in Node
  BY <1>1, FarIs DEF EndOf
<1>3. n # m
  BY <1>1, <1>2, FarIs DEF NoSelf, EndOf
<1>4. Opened' = Opened
  BY DEF Opened
<1>5. ASSUME old # None
      PROVE  /\ old \in Opened /\ opener[old] # opener[s]
             /\ opener[old] = answerer[s] /\ answerer[old] = opener[s]
  <2>1. EndOf(n, old) /\ Far(n, old) = m /\ old # s
    BY <1>1, <1>2, <1>5 DEF EndsInv
  <2>2. old \in Opened /\ opener[old] # opener[s]
    BY <1>2, <2>1 DEF EndOf, OneEach
  <2>3. opener[s] = n \/ opener[old] = n
    BY <1>3, <2>1, <2>2 DEF EndOf, Far
  <2> QED BY <1>3, <2>1, <2>2, <2>3 DEF EndOf, Far
<1>6. Node \subseteq Nat
  BY NodeAssumption
<1>7. CASE Keeps(old, s)
  <2>1. closed' = [closed EXCEPT ![s] = closed[s] \cup {n}]
    BY <1>7 DEF AddPeer
  <2>2. old # None /\ opener[old] <= opener[s]
    BY <1>7 DEF Keeps
  <2>3. old \in Opened /\ Wins(old, s)
    <3> DEFINE a == opener[old]
               b == opener[s]
    <3>1. a \in Nat /\ b \in Nat /\ a # b /\ a <= b
      BY <1>2, <1>5, <1>6, <2>2
    <3> HIDE DEF a, b
    <3>2. a < b
      BY <3>1
    <3> QED BY <1>5, <2>2, <3>2 DEF a, b
  <2>4. \A t \in Opened : t # s => closed'[t] = closed[t]
    BY <1>1, <2>1 DEF Shape, Opened
  <2> QED BY <1>4, <2>3, <2>4 DEF Beaten
<1>8. CASE ~Keeps(old, s)
  <2>1. closed' = IF old = None THEN closed ELSE [closed EXCEPT ![old] = closed[old] \cup {n}]
    BY <1>8 DEF AddPeer
  <2>2. CASE old = None
    BY <1>4, <2>1, <2>2 DEF Beaten
  <2>3. CASE old # None
    <3>1. ~(opener[old] <= opener[s])
      BY <1>8, <2>3 DEF Keeps
    <3>2. Wins(s, old)
      <4> DEFINE a == opener[old]
                 b == opener[s]
      <4>1. a \in Nat /\ b \in Nat /\ ~(a <= b)
        BY <1>2, <1>5, <1>6, <2>3, <3>1
      <4> HIDE DEF a, b
      <4>2. b < a
        BY <4>1
      <4> QED BY <1>5, <2>3, <4>2 DEF a, b
    <3>3. \A t \in Opened : t # old => closed'[t] = closed[t]
      BY <1>1, <2>1 DEF Shape, Opened
    <3> QED BY <1>2, <1>4, <3>2, <3>3 DEF Beaten
  <2> QED BY <2>2, <2>3
<1> QED BY <1>7, <1>8

LEMMA BeatenStays ==
    ASSUME MeshInv, RoomFits, DuelInv, [Next]_vars, OneEach' PROVE Beaten'
<1>1. Shape /\ EndsInv /\ NoSelf /\ OnceInv
  BY DEF MeshInv, DuelInv
<1>2. UNCHANGED <<opener, answerer>> => OneEach /\ Beaten
  BY DEF DuelInv, OneEach, Opened
<1>3. CASE UNCHANGED <<opener, answerer, closed>>
  BY <1>2, <1>3 DEF Beaten, Opened
<1>4. ASSUME NEW n \in Node,
             \/ Discover(n) \/ Handle(n)
             \/ \E m \in Node : HintChecked(n, m)
             \/ \E f \in flights[n] : HintTakesOff(n, f) \/ DialFails(n, f)
             \/ \E s \in Stream :
                   Greet(n, s) \/ ReadHello(n, s) \/ EndOfStream(n, s) \/ Farewell(n, s)
      PROVE  UNCHANGED <<opener, answerer, closed>>
  BY <1>4 DEF Discover, Handle, HintChecked, HintTakesOff, DialFails, Greet, ReadHello,
              EndOfStream, Farewell, streamVars
<1>5. ASSUME NEW s \in Stream, Cut(s) PROVE UNCHANGED <<opener, answerer, closed>>
  BY <1>5 DEF Cut
<1>6. UNCHANGED vars => UNCHANGED <<opener, answerer, closed>>
  BY DEF vars, streamVars
<1>7. ASSUME NEW n \in Node, NEW f \in flights[n], Dial(n, f) PROVE Beaten'
  <2>1. PICK s \in Unused :
           /\ opener' = [opener EXCEPT ![s] = n]
           /\ answerer' = [answerer EXCEPT ![s] = f.to]
           /\ closed' = [closed EXCEPT ![s] = {}]
    BY <1>7 DEF Dial
  <2>2. s \in Stream /\ s \notin Opened
    BY <2>1, DialIsFresh
  <2>3. /\ closed'[s] = {}
        /\ \A r \in Stream : r # s => /\ opener'[r] = opener[r] /\ answerer'[r] = answerer[r]
                                      /\ closed'[r] = closed[r]
    BY <1>1, <2>1, <2>2 DEF Shape
  <2>4. /\ \A r \in Opened : r \in Stream /\ r # s /\ r \in Opened'
        /\ \A r \in Opened' : r # s => r \in Opened
    BY <2>2, <2>3 DEF Opened
  <2>5. OneEach
    BY <2>3, <2>4 DEF OneEach
  <2>6. Beaten
    BY <2>5 DEF DuelInv
  <2> SUFFICES ASSUME NEW t \in Opened', closed'[t] # {}
               PROVE  \E r \in Opened' : /\ opener'[r] = answerer'[t] /\ answerer'[r] = opener'[t]
                                         /\ opener'[r] < opener'[t]
    BY DEF Beaten
  <2>7. t \in Opened /\ closed[t] # {}
    BY <2>3, <2>4
  <2>8. PICK r \in Opened : /\ opener[r] = answerer[t] /\ answerer[r] = opener[t]
                            /\ opener[r] < opener[t]
    BY <2>6, <2>7 DEF Beaten
  <2>9. r \in Opened' /\ opener'[r] = opener[r] /\ answerer'[r] = answerer[r]
    BY <2>3, <2>4
  <2>10. opener'[t] = opener[t] /\ answerer'[t] = answerer[t]
    BY <2>3, <2>4, <2>7
  <2> QED BY <2>8, <2>9, <2>10
<1>8. ASSUME NEW n \in Node, NEW s \in Stream, Admit(n, s)
      PROVE  UNCHANGED <<opener, answerer, closed>>
  <2>1. s \in arriving[n] /\ UNCHANGED <<opener, answerer>>
    BY <1>8 DEF Admit
  <2>2. Len(admitted[n]) # AdmittedCap
    BY <1>1, <1>2, <2>1, DoorStaysOpen
  <2> QED BY <1>8, <2>1, <2>2 DEF Admit
<1>9. ASSUME NEW n \in Node, NEW f \in flights[n], Land(n, f) PROVE Beaten'
  <2>1. /\ f.phase = "landed" /\ AddPeer(n, f.stream) /\ UNCHANGED <<opener, answerer>>
    BY <1>9 DEF Land
  <2>2. EndOf(n, f.stream) /\ \A m \in Node : entry[n][m] # f.stream
    BY <1>1, <2>1 DEF EndsInv, EndOf, OnceInv
  <2> QED BY <1>1, <1>2, <2>1, <2>2, AddPeerBeats
<1>10. ASSUME NEW n \in Node, Accept(n) PROVE Beaten'
  <2>1. PICK s : s = Head(admitted[n])
    OBVIOUS
  <2>2. /\ AddPeer(n, s) /\ UNCHANGED <<opener, answerer>> /\ admitted[n] # <<>>
    BY <1>10, <2>1 DEF Accept
  <2>3. s \in Stream /\ Queued(n, s)
    <3>1. admitted[n] \in Seq(Stream)
      BY <1>1 DEF Shape
    <3>2. s \in Stream /\ 1 \in DOMAIN admitted[n] /\ admitted[n][1] = s
      BY <2>1, <2>2, <3>1, TailIs
    <3> QED BY <3>2 DEF Queued
  <2>4. EndOf(n, s) /\ \A m \in Node : entry[n][m] # s
    BY <1>1, <2>3 DEF EndsInv, EndOf, OnceInv
  <2> QED BY <1>1, <1>2, <2>2, <2>4, AddPeerBeats
<1> QED BY <1>3, <1>4, <1>5, <1>6, <1>7, <1>8, <1>9, <1>10 DEF Next

LEMMA CutsAreCounted ==
    ASSUME MeshInv, DuelInv, [Next]_vars, spent'.cuts = 0 PROVE cut' = {}
<1>1. spent \in [plan : Plans, cuts : Nat, failedDials : Nat]
  BY DEF MeshInv, Shape
<1>2. ASSUME NEW n \in Node, NEW f \in flights[n], Dial(n, f) PROVE cut' \subseteq cut /\ spent' = spent
  BY <1>2 DEF Dial
<1>3. ASSUME NEW n \in Node, NEW f \in flights[n], DialFails(n, f)
      PROVE  cut' = cut /\ spent'.cuts = spent.cuts
  <2>1. cut' = cut /\ spent' = [spent EXCEPT !.failedDials = spent.failedDials + 1]
    BY <1>3 DEF DialFails, streamVars
  <2> QED BY <1>1, <2>1
<1>4. ASSUME NEW s \in Stream, Cut(s) PROVE FALSE
  <2>1. spent' = [spent EXCEPT !.cuts = spent.cuts + 1]
    BY <1>4 DEF Cut
  <2>2. spent'.cuts = spent.cuts + 1 /\ spent.cuts \in Nat
    BY <1>1, <2>1
  <2> QED BY <2>2
<1>5. ASSUME NEW n \in Node,
             \/ Discover(n) \/ Handle(n) \/ Accept(n)
             \/ \E m \in Node : HintChecked(n, m)
             \/ \E f \in flights[n] : HintTakesOff(n, f) \/ Land(n, f)
             \/ \E s \in Stream :
                   Admit(n, s) \/ Greet(n, s) \/ ReadHello(n, s) \/ EndOfStream(n, s) \/ Farewell(n, s)
      PROVE  UNCHANGED <<cut, spent>>
  BY <1>5 DEF Discover, Handle, Accept, HintChecked, HintTakesOff, Land, Admit, Greet, ReadHello,
              EndOfStream, Farewell, streamVars
<1>6. UNCHANGED vars => UNCHANGED <<cut, spent>>
  BY DEF vars, streamVars
<1>7. cut' \subseteq cut /\ spent'.cuts = spent.cuts
  BY <1>2, <1>3, <1>4, <1>5, <1>6 DEF Next
<1> QED BY <1>7 DEF DuelInv

LEMMA DuelInit == Init /\ PlansApart => DuelInv
<1> SUFFICES ASSUME Init, PlansApart PROVE DuelInv
  OBVIOUS
<1>1. spent.plan \in Plans
  BY DEF Init
<1>2. /\ \A n \in Node : admitted[n] = <<>> /\ arriving[n] = {} /\ n \notin book[n]
      /\ cut = {} /\ Opened = {}
  BY <1>1 DEF Init, PlansApart, Opened
<1>3. ASSUME NEW n \in Node, NEW f \in flights[n] PROVE f.to # n /\ f.phase = "dialing"
  <2> DEFINE g == [to |-> spent.plan.invited[n], kind |-> "invite",
                   phase |-> "dialing", stream |-> None]
  <2>1. f = g
    BY DEF Init
  <2> QED BY <1>1, <2>1 DEF PlansApart
<1>4. NoSelf
  BY <1>2, <1>3 DEF NoSelf
<1>5. OnceInv
  BY <1>2, <1>3 DEF OnceInv, Queued
<1> QED BY <1>2, <1>4, <1>5 DEF DuelInv, Beaten

\* A settled pair has no dead stream but one another beat, which itself is not beaten.
LEMMA WinnerIsUsed == MeshInv /\ DuelInv => DuelOfTwoHasAWinner
<1> SUFFICES ASSUME MeshInv, DuelInv, OneEach, Settled, Unbroken, NEW s \in Opened
             PROVE  Met(opener[s], answerer[s])
  BY DEF DuelOfTwoHasAWinner, DuelHasAWinner, OneEach
<1>1. Shape /\ EndsInv /\ Beaten /\ cut = {} /\ NoForgottenStream
  BY NothingForgotten DEF MeshInv, DuelInv, Unbroken
<1>2. \A r \in Opened : opener[r] \in Nat /\ r # None
  BY <1>1, NodeAssumption, NamesApart DEF Shape, Opened
<1>3. ASSUME NEW r \in Opened, closed[r] = {}
      PROVE  /\ entry[opener[r]][answerer[r]] # None
             /\ entry[opener[r]][answerer[r]] = entry[answerer[r]][opener[r]]
  BY <1>1, <1>2, <1>3 DEF NoForgottenStream, Dead
<1>4. CASE closed[s] = {}
  BY <1>3, <1>4 DEF Met
<1>5. CASE closed[s] # {}
  <2>1. PICK r \in Opened : /\ opener[r] = answerer[s] /\ answerer[r] = opener[s]
                            /\ opener[r] < opener[s]
    BY <1>1, <1>5 DEF Beaten
  <2>2. closed[r] = {}
    <3> SUFFICES ASSUME closed[r] # {} PROVE FALSE
      OBVIOUS
    <3>1. PICK t \in Opened : opener[t] = answerer[r] /\ opener[t] < opener[r]
      BY <1>1 DEF Beaten
    <3>2. opener[t] = opener[s]
      BY <2>1, <3>1
    <3> QED BY <1>2, <2>1, <3>1, <3>2
  <2> QED BY <1>3, <2>1, <2>2 DEF Met
<1> QED BY <1>4, <1>5

\* Two nodes each of which opened one stream to the other settle on one of the two,
\* whichever end closed what first.
THEOREM DuelOfTwoIsWon ==
    ASSUME RoomFits
    PROVE  Spec => []DuelOfTwoHasAWinner
<1>1. Init => DuelInv
  BY DuelInit DEF RoomFits
<1>2. MeshInv /\ DuelInv /\ [Next]_vars => DuelInv'
  <2> SUFFICES ASSUME MeshInv, DuelInv, [Next]_vars PROVE DuelInv'
    OBVIOUS
  <2>1. NoSelf'
    BY NoSelfStays DEF DuelInv, RoomFits
  <2>2. OnceInv'
    BY OnceStays DEF DuelInv
  <2>3. (OneEach => Beaten)'
    BY BeatenStays
  <2>4. (spent.cuts = 0 => cut = {})'
    BY CutsAreCounted
  <2> QED BY <2>1, <2>2, <2>3, <2>4 DEF DuelInv
<1> QED BY <1>1, <1>2, MeshHolds, WinnerIsUsed, PTL DEF Spec

-----------------------------------------------------------------------------
(* The capacities, and the type invariant.                                 *)

CapsInv ==
    \A n \in Node : Len(admitted[n]) <= AdmittedCap /\ Len(incoming[n]) <= IncomingCap

LEMMA DoorsKeepCaps ==
    ASSUME Shape, NEW n \in Node, CapsInv,
           \/ Accept(n)
           \/ \E s \in Stream : Admit(n, s)
    PROVE  CapsInv'
<1>1. admitted \in [Node -> Seq(Stream)]
  BY DEF Shape
<1>2. incoming' = incoming
  BY DEF Accept, Admit, upVars
<1>3. CASE Accept(n)
  <2>1. admitted' = [admitted EXCEPT ![n] = Tail(admitted[n])] /\ admitted[n] # <<>>
    BY <1>3 DEF Accept
  <2>2. /\ Len(Tail(admitted[n])) = Len(admitted[n]) - 1 /\ Len(admitted[n]) \in Nat
    BY <1>1, <2>1, TailIs
  <2>3. Len(Tail(admitted[n])) <= AdmittedCap
    BY <2>2, BoundAssumption DEF CapsInv
  <2>4. \A k \in Node : admitted'[k] = IF k = n THEN Tail(admitted[n]) ELSE admitted[k]
    BY <1>1, <2>1
  <2> QED BY <1>2, <2>3, <2>4 DEF CapsInv
<1>4. ASSUME NEW s \in Stream, Admit(n, s) PROVE CapsInv'
  <2>1. CASE UNCHANGED admitted
    BY <1>2, <2>1 DEF CapsInv
  <2>2. CASE /\ Len(admitted[n]) < AdmittedCap
             /\ admitted' = [admitted EXCEPT ![n] = Append(admitted[n], s)]
    <3>1. Len(Append(admitted[n], s)) = Len(admitted[n]) + 1 /\ Len(admitted[n]) \in Nat
      BY <1>1, AppendIs
    <3>2. Len(Append(admitted[n], s)) <= AdmittedCap
      BY <2>2, <3>1, BoundAssumption
    <3>3. \A k \in Node : admitted'[k] = IF k = n THEN Append(admitted[n], s) ELSE admitted[k]
      BY <1>1, <2>2
    <3> QED BY <1>2, <3>2, <3>3 DEF CapsInv
  <2> QED BY <1>4, <2>1, <2>2 DEF Admit
<1> QED BY <1>3, <1>4

LEMMA RoomsKeepCaps ==
    ASSUME Shape, EndsInv, NEW n \in Node, CapsInv,
           \/ Handle(n)
           \/ \E s \in Stream : ReadHello(n, s) \/ Farewell(n, s)
    PROVE  CapsInv'
<1>1. incoming \in [Node -> Seq(Message)]
  BY DEF Shape
<1>2. admitted' = admitted
  BY DEF Handle, ReadHello, Farewell, doorVars
<1>3. CASE Handle(n)
  <2>1. incoming' = [incoming EXCEPT ![n] = Tail(incoming[n])] /\ incoming[n] # <<>>
    BY <1>3 DEF Handle
  <2>2. /\ Len(Tail(incoming[n])) = Len(incoming[n]) - 1 /\ Len(incoming[n]) \in Nat
    BY <1>1, <2>1, TailIs
  <2>3. Len(Tail(incoming[n])) <= IncomingCap
    BY <2>2, BoundAssumption DEF CapsInv
  <2>4. \A k \in Node : incoming'[k] = IF k = n THEN Tail(incoming[n]) ELSE incoming[k]
    BY <1>1, <2>1
  <2> QED BY <1>2, <2>3, <2>4 DEF CapsInv
<1>4. ASSUME NEW s \in Stream, NEW kind \in {"Hello", "Bye"}, EndOf(n, s),
             Len(incoming[n]) < IncomingCap, incoming' = Tell(n, Far(n, s), kind)
      PROVE  CapsInv'
  <2> DEFINE e == [from |-> Far(n, s), kind |-> kind]
  <2>1. e \in Message
    BY <1>4, FarIs DEF Message
  <2>2. incoming' = [incoming EXCEPT ![n] = Append(incoming[n], e)]
    BY <1>4 DEF Tell
  <2> HIDE DEF e
  <2>3. Len(Append(incoming[n], e)) = Len(incoming[n]) + 1 /\ Len(incoming[n]) \in Nat
    BY <1>1, <2>1, AppendIs
  <2>4. Len(Append(incoming[n], e)) <= IncomingCap
    BY <1>4, <2>3, BoundAssumption
  <2>5. \A k \in Node : incoming'[k] = IF k = n THEN Append(incoming[n], e) ELSE incoming[k]
    BY <1>1, <2>2
  <2> QED BY <1>2, <2>4, <2>5 DEF CapsInv
<1>5. ASSUME NEW s \in Stream, ReadHello(n, s) PROVE CapsInv'
  <2>1. EndOf(n, s) /\ Len(incoming[n]) < IncomingCap /\ incoming' = Tell(n, Far(n, s), "Hello")
    BY <1>5 DEF ReadHello, EndsInv
  <2> QED BY <1>4, <2>1
<1>6. ASSUME NEW s \in Stream, Farewell(n, s) PROVE CapsInv'
  <2>1. EndOf(n, s)
    BY <1>6 DEF Farewell, EndsInv
  <2>2. \/ Len(incoming[n]) < IncomingCap /\ incoming' = Tell(n, Far(n, s), "Bye")
        \/ UNCHANGED incoming
    BY <1>6 DEF Farewell
  <2>3. CASE UNCHANGED incoming
    BY <1>2, <2>3 DEF CapsInv
  <2> QED BY <1>4, <2>1, <2>2, <2>3
<1> QED BY <1>3, <1>5, <1>6

LEMMA CapsHold == Spec => []CapsInv
<1>1. Init => CapsInv
  <2> SUFFICES ASSUME Init, NEW n \in Node
               PROVE  Len(admitted[n]) <= AdmittedCap /\ Len(incoming[n]) <= IncomingCap
    BY DEF CapsInv
  <2>1. admitted[n] = <<>> /\ incoming[n] = <<>>
    BY DEF Init
  <2> QED BY <2>1, BoundAssumption
<1>2. MeshInv /\ CapsInv /\ [Next]_vars => CapsInv'
  <2> SUFFICES ASSUME Shape, EndsInv, CapsInv, [Next]_vars PROVE CapsInv'
    BY DEF MeshInv
  <2>1. CASE UNCHANGED <<admitted, incoming>>
    BY <2>1 DEF CapsInv
  <2>2. ASSUME NEW n \in Node,
               \/ Discover(n)
               \/ \E m \in Node : HintChecked(n, m)
               \/ \E f \in flights[n] :
                     HintTakesOff(n, f) \/ Dial(n, f) \/ DialFails(n, f) \/ Land(n, f)
               \/ \E s \in Stream : Greet(n, s) \/ EndOfStream(n, s)
        PROVE  UNCHANGED <<admitted, incoming>>
    BY <2>2 DEF Discover, HintChecked, HintTakesOff, Dial, DialFails, Land, Greet, EndOfStream,
                doorVars, upVars
  <2>3. ASSUME NEW s \in Stream, Cut(s) PROVE UNCHANGED <<admitted, incoming>>
    BY <2>3 DEF Cut, doorVars, upVars
  <2>4. UNCHANGED vars => UNCHANGED <<admitted, incoming>>
    BY DEF vars, doorVars, upVars
  <2> QED BY <2>1, <2>2, <2>3, <2>4, DoorsKeepCaps, RoomsKeepCaps DEF Next
<1> QED BY <1>1, <1>2, MeshHolds, PTL DEF Spec

LEMMA OpenedOnly ==
    ASSUME Shape, EndsInv, NEW n \in Node PROVE admitted[n] \in Seq(Opened)
<1>1. admitted[n] \in Seq(Stream)
  BY DEF Shape
<1>2. \A i \in DOMAIN admitted[n] : admitted[n][i] \in Opened
  <2> SUFFICES ASSUME NEW i \in DOMAIN admitted[n] PROVE admitted[n][i] \in Opened
    OBVIOUS
  <2>1. admitted[n][i] \in Stream
    BY <1>1, ItemOfSeq
  <2> QED BY <2>1 DEF EndsInv, Queued
<1> QED BY <1>1, <1>2

\* Every variable has its type, a stream anybody holds is an opened one, an entry for
\* a peer is a stream to that peer, and the two queues keep to their capacities.
THEOREM MeshTypes == Spec => []MeshTypeOK
<1>1. MeshInv /\ CapsInv => MeshTypeOK
  <2> SUFFICES ASSUME Shape, EndsInv, CapsInv PROVE MeshTypeOK
    BY DEF MeshInv
  <2>1. \A n \in Node : admitted[n] \in Seq(Opened) /\ Len(admitted[n]) <= AdmittedCap
    BY OpenedOnly DEF CapsInv
  <2>2. \A n \in Node : /\ arriving[n] \subseteq Opened
                        /\ greeting[n] \cup hello[n] \cup reading[n] \cup ended[n] \subseteq Opened
    BY DEF Shape, EndsInv, EndOf
  <2>3. \A n, m \in Node : /\ entry[n][m] \in Opened \cup {None}
                           /\ entry[n][m] # None => Far(n, entry[n][m]) = m
    BY DEF EndsInv, EndOf
  <2>4. \A n \in Node : /\ incoming[n] \in Seq([from : Node, kind : {"Hello", "Bye"}])
                        /\ Len(incoming[n]) <= IncomingCap
    BY DEF Shape, CapsInv, Message
  <2>5. /\ \A n \in Node : flights[n] \subseteq Flight
        /\ dialing \in [Node -> SUBSET Node] /\ book \in [Node -> SUBSET Node]
        /\ opener \in [Stream -> Node \cup {None}] /\ answerer \in [Stream -> Node \cup {None}]
        /\ closed \in [Stream -> SUBSET Node] /\ cut \subseteq Opened
        /\ roster \in [Node -> SUBSET Node] /\ doubtful \in [Node -> SUBSET Node]
    BY DEF Shape, EndsInv
  <2> QED BY <2>1, <2>2, <2>3, <2>4, <2>5 DEF MeshTypeOK
<1> QED BY <1>1, MeshHolds, CapsHold, PTL
=============================================================================
