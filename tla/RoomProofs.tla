----------------------------- MODULE RoomProofs -----------------------------
(***************************************************************************)
(* Type correctness of Room, that it keeps no ghosts, that a room where    *)
(* nothing goes wrong tells everybody the film and becomes a mesh, and     *)
(* that one whose members leave agrees on a host: for any number of peers, *)
(* any versions and any bounds.                                            *)
(***************************************************************************)
EXTENDS Room, TLAPS, SequenceTheorems, WellFoundedInduction

Channels == [Peer -> [Peer -> Seq(Message)]]

-----------------------------------------------------------------------------
(* What the helpers build.                                                 *)

\* Everything the code writes to a stream is a message.
LEMMA MessagesTyped ==
    /\ \A p \in Peer : Hello(p) \in Message /\ Host(p) \in Message
    /\ MagnetMsg \in Message /\ Bye \in Message /\ PlayStateHere \in Message
    /\ \A s \in {"playing", "paused"} : Pause(s) \in Message
    /\ \A b \in BOOLEAN : Buffering(b) \in Message
    /\ \A b \in SUBSET Peer : PeersMsg(b) \in Message
BY DEF Message, Hello, Host, MagnetMsg, Bye, PlayStateHere, Pause, Buffering, PeersMsg

\* A delivery appends to the sender's channels to the recipients and touches
\* no other.
LEMMA DeliveredIs ==
    ASSUME NEW ch \in Channels, NEW p \in Peer, NEW msg \in Message, NEW to
    PROVE  /\ Delivered(ch, p, msg, to) \in Channels
           /\ \A x, y \in Peer : Delivered(ch, p, msg, to)[x][y] =
                 IF x = p /\ y \in to THEN Append(ch[x][y], msg) ELSE ch[x][y]
<1>1. \A y \in Peer : Append(ch[p][y], msg) \in Seq(Message)
  BY DEF Channels
<1>2. QED
  BY <1>1 DEF Delivered, Channels

\* Handling the head of a channel shortens that channel and touches no other.
LEMMA ConsumedIs ==
    ASSUME TypeOK, NEW p \in Peer, NEW q \in Peer, chan[q][p] # <<>>
    PROVE  /\ Consumed(p, q) \in Channels
           /\ \A x, y \in Peer : Consumed(p, q)[x][y] =
                 IF x = q /\ y = p THEN Tail(chan[x][y]) ELSE chan[x][y]
           /\ Head(chan[q][p]) \in Message
<1>1. chan \in Channels /\ chan[q][p] \in Seq(Message)
  BY DEF TypeOK, Channels
<1>2. Tail(chan[q][p]) \in Seq(Message) /\ Head(chan[q][p]) \in Message
  BY <1>1
<1>3. QED
  BY <1>1, <1>2 DEF Consumed, Channels

\* The order the takeover rule uses, as the library's set of pairs.
LEMMA LessThanIs == OpToRel(<, Nat) = {pair \in Nat \X Nat : pair[1] < pair[2]}
BY DEF OpToRel

\* Every nonempty set of peer IDs has a smallest one and only one, so the takeover
\* rule always names it.
LEMMA WinnerIsLeast ==
    ASSUME NEW p \in Peer, NEW known \in SUBSET Peer, NEW w
    PROVE  w = TakeoverWinner(p, known) <=>
              w \in known \cup {p} /\ \A q \in known \cup {p} : w <= q
<1> DEFINE ids == known \cup {p}
           least(m) == m \in ids /\ \A q \in ids : m <= q
<1>1. ids \subseteq Nat /\ ids # {}
  BY PeerAssumption
<1>2. \E m \in ids : \A q \in ids : m <= q
  <2> DEFINE less == {pair \in Nat \X Nat : pair[1] < pair[2]}
  <2>1. IsWellFoundedOn(less, Nat)
    BY NatLessThanWellFounded, LessThanIs
  <2>2. PICK m \in ids : \A q \in ids : ~ (<<q, m>> \in less)
    <3> HIDE DEF ids, less
    <3> QED BY <1>1, <2>1, WFMin
  <2>3. \A q \in ids : m <= q
    <3> TAKE q \in ids
    <3>1. m \in Nat /\ q \in Nat /\ ~ (q < m)
      BY <1>1, <2>2
    <3> QED BY <3>1
  <2> QED BY <2>3
<1>3. TakeoverWinner(p, known) = CHOOSE m \in ids : \A q \in ids : m <= q
  BY DEF TakeoverWinner, TakeoverHost
<1> HIDE DEF ids
<1>4. least(TakeoverWinner(p, known))
  BY <1>2, <1>3
<1>5. ASSUME NEW a, NEW b, least(a), least(b) PROVE a = b
  <2>1. a \in Nat /\ b \in Nat /\ a <= b /\ b <= a
    BY <1>1, <1>5
  <2> QED BY <2>1
<1>6. w = TakeoverWinner(p, known) <=> least(w)
  BY <1>4, <1>5
<1> QED BY <1>6 DEF ids

\* In particular it names one of the living it was given.
LEMMA TakeoverWinnerIs ==
    ASSUME NEW p \in Peer, NEW known \in SUBSET Peer
    PROVE  TakeoverWinner(p, known) \in known \cup {p}
BY WinnerIsLeast

-----------------------------------------------------------------------------
(* The inductive invariant.                                                *)

\* A stream p's mesh has dropped leaves a farewell as the last thing to handle;
\* nobody writes to a peer that is not in the room; a peer announces only
\* itself as the host.
ChanOK(ch) ==
    /\ ch \in Channels
    /\ \A p, q \in Peer :
          /\ link[p][q] = "none" /\ ch[q][p] # <<>> => ch[q][p][Len(ch[q][p])] = Bye
          /\ p \notin Live => ch[q][p] = <<>>
          /\ \A i \in 1..Len(ch[q][p]) : ch[q][p][i].type = "Host" => ch[q][p][i].id = q

\* A stream that works at one end works at the other.
LinkOK ==
    \A p, q \in Peer : link[q][p] \in {"new", "up"} => link[p][q] \in {"new", "up"}

\* Who is not in the room holds nothing of it.
AbsentOK ==
    \A p \in Peer : p \notin Live =>
        /\ \A q \in Peer : link[p][q] = "none"
        /\ roster[p] = {} /\ hostPeer[p] = NoPeer

\* An answer being sent names its sender as the host.
OutboxOK ==
    \A p \in Peer : \A i \in 1..Len(outbox[p]) :
        outbox[p][i].type = "Host" => outbox[p][i].id = p

\* Whom a Room refuses it could never have admitted.
AdmissionOK ==
    \A p, q \in Peer : /\ q \in roster[p] => Admits(p, q)
                       /\ q \in refused[p] => ~Admits(p, q)

Inv == /\ TypeOK /\ ChanOK(chan) /\ LinkOK /\ AbsentOK /\ OutboxOK /\ AdmissionOK
       /\ NoGhostMember /\ NoGhostHost

-----------------------------------------------------------------------------
(* What a write and a read do to the channels.                             *)

\* A farewell that waits to be handled keeps waiting while more arrives.
LEMMA AppendKeepsBye ==
    ASSUME NEW s \in Seq(Message), NEW m \in Message, HasBye(s)
    PROVE  HasBye(Append(s, m))
BY DEF HasBye

\* And while something else is handled.
LEMMA TailKeepsBye ==
    ASSUME NEW s \in Seq(Message), s # <<>>, Head(s) # Bye, HasBye(s)
    PROVE  HasBye(Tail(s))
<1>1. PICK i \in 1..Len(s) : s[i] = Bye
  BY DEF HasBye
<1>2. i - 1 \in 1..Len(Tail(s)) /\ Tail(s)[i - 1] = Bye
  BY <1>1
<1>3. QED
  BY <1>2 DEF HasBye

\* A write reaches only streams that work, so it never lands behind the
\* farewell of a dropped stream nor at a peer that is not in the room.
LEMMA WriteKeeps ==
    ASSUME LinkOK, AbsentOK, NEW ch, ChanOK(ch),
           NEW p \in Peer, NEW to \in SUBSET Connected(p),
           NEW msg \in Message, msg.type = "Host" => msg.id = p
    PROVE  /\ ChanOK(Delivered(ch, p, msg, to))
           /\ \A x, y \in Peer : HasBye(ch[x][y]) => HasBye(Delivered(ch, p, msg, to)[x][y])
<1> DEFINE new == Delivered(ch, p, msg, to)
<1>1. ch \in Channels
  BY DEF ChanOK
<1>2. /\ new \in Channels
      /\ \A x, y \in Peer : new[x][y] = IF x = p /\ y \in to THEN Append(ch[x][y], msg) ELSE ch[x][y]
  BY <1>1, DeliveredIs
<1> HIDE DEF new
<1>3. \A x, y \in Peer : ch[x][y] \in Seq(Message)
  BY <1>1 DEF Channels
<1>4. \A y \in to : y \in Peer /\ link[y][p] # "none" /\ y \in Live
  BY DEF Connected, LinkOK, AbsentOK
<1>5. ASSUME NEW x \in Peer, NEW y \in Peer, link[y][x] = "none", new[x][y] # <<>>
      PROVE  new[x][y][Len(new[x][y])] = Bye
  BY <1>2, <1>4, <1>5 DEF ChanOK
<1>6. ASSUME NEW x \in Peer, NEW y \in Peer, y \notin Live
      PROVE  new[x][y] = <<>>
  BY <1>2, <1>4, <1>6 DEF ChanOK
<1>7. ASSUME NEW x \in Peer, NEW y \in Peer, NEW i \in 1..Len(new[x][y]),
             new[x][y][i].type = "Host"
      PROVE  new[x][y][i].id = x
  <2>1. CASE x = p /\ y \in to
    <3>1. new[x][y] = Append(ch[x][y], msg) /\ ch[x][y] \in Seq(Message)
      BY <1>2, <1>3, <2>1
    <3>2. CASE i \in 1..Len(ch[x][y])
      BY <1>7, <3>1, <3>2 DEF ChanOK
    <3>3. CASE i = Len(ch[x][y]) + 1
      BY <1>7, <2>1, <3>1, <3>3
    <3>4. QED
      BY <3>1, <3>2, <3>3
  <2>2. CASE ~ (x = p /\ y \in to)
    BY <1>2, <1>7, <2>2 DEF ChanOK
  <2>3. QED
    BY <2>1, <2>2
<1>8. ASSUME NEW x \in Peer, NEW y \in Peer, HasBye(ch[x][y])
      PROVE  HasBye(new[x][y])
  BY <1>2, <1>3, <1>8, AppendKeepsBye
<1>9. QED
  BY <1>2, <1>5, <1>6, <1>7, <1>8 DEF ChanOK, new

\* Handling a message takes nothing but that message, and what is left of a
\* dropped stream still ends in a farewell unless that was it.
LEMMA ReadKeeps ==
    ASSUME ChanOK(chan), NEW p \in Peer, NEW q \in Peer, chan[q][p] # <<>>
    PROVE  /\ ChanOK(Consumed(p, q))
           /\ Head(chan[q][p]) \in Message
           /\ Head(chan[q][p]).type = "Host" => Head(chan[q][p]).id = q
           /\ \A x, y \in Peer :
                 HasBye(chan[x][y]) /\ (x = q /\ y = p => Head(chan[q][p]) # Bye)
                    => HasBye(Consumed(p, q)[x][y])
           /\ Head(chan[q][p]) # Bye /\ link[p][q] = "none" => HasBye(Consumed(p, q)[q][p])
<1> DEFINE new == Consumed(p, q)
           old == chan[q][p]
<1>1. chan \in [Peer -> [Peer -> Seq(Message)]] /\ old \in Seq(Message) /\ old # <<>>
  BY DEF ChanOK, Channels
<1>2. Tail(old) \in Seq(Message) /\ Head(old) \in Message /\ Head(old) = old[1] /\ Len(old) \in Nat \ {0}
  BY <1>1
<1>3. /\ new \in Channels
      /\ \A x, y \in Peer : new[x][y] = IF x = q /\ y = p THEN Tail(old) ELSE chan[x][y]
  BY <1>1, <1>2 DEF Consumed, Channels
<1>4. \A i \in 1..Len(Tail(old)) : i + 1 \in 1..Len(old) /\ Tail(old)[i] = old[i + 1]
  BY <1>1, <1>2
<1>5. Tail(old) # <<>> => Tail(old)[Len(Tail(old))] = old[Len(old)]
  BY <1>1, <1>2
<1> HIDE DEF new
<1>6. ASSUME NEW x \in Peer, NEW y \in Peer
      PROVE  /\ link[y][x] = "none" /\ new[x][y] # <<>> => new[x][y][Len(new[x][y])] = Bye
             /\ y \notin Live => new[x][y] = <<>>
             /\ \A i \in 1..Len(new[x][y]) : new[x][y][i].type = "Host" => new[x][y][i].id = x
  <2>1. CASE x = q /\ y = p
    <3>1. new[x][y] = Tail(old) /\ y \in Live
      BY <1>1, <1>3, <2>1 DEF ChanOK
    <3>2. QED
      BY <1>1, <1>4, <1>5, <2>1, <3>1 DEF ChanOK
  <2>2. CASE ~ (x = q /\ y = p)
    BY <1>3, <2>2 DEF ChanOK
  <2>3. QED
    BY <2>1, <2>2
<1>7. ChanOK(new)
  BY <1>3, <1>6 DEF ChanOK
<1>8. Head(old).type = "Host" => Head(old).id = q
  BY <1>2 DEF ChanOK
<1>9. ASSUME NEW x \in Peer, NEW y \in Peer, HasBye(chan[x][y]), x = q /\ y = p => Head(old) # Bye
      PROVE  HasBye(new[x][y])
  BY <1>1, <1>3, <1>9, TailKeepsBye
<1>10. ASSUME Head(old) # Bye, link[p][q] = "none"
       PROVE  HasBye(new[q][p])
  <2>1. old[Len(old)] = Bye
    BY <1>1, <1>10 DEF ChanOK
  <2>2. HasBye(old)
    BY <1>2, <2>1 DEF HasBye
  <2>3. QED
    BY <1>1, <1>3, <1>10, <2>2, TailKeepsBye
<1>11. QED
  BY <1>2, <1>7, <1>8, <1>9, <1>10 DEF new

-----------------------------------------------------------------------------
(* The initial states, and the steps of the mesh.                          *)

LEMMA InitInv == ASSUME Init PROVE Inv
<1>1. PICK plan \in Plans : Start(plan)
  BY DEF Init
<1> DEFINE members == plan.members
<1>2. /\ members \subseteq Peer /\ Creator \in members
      /\ \A p, q \in members : Admits(p, q)
  BY PlanAssumption, MembersAssumption DEF Plan
<1>3. TypeOK
  BY <1>1, <1>2, PeerAssumption DEF Start, TypeOK, LinkStatus, PlayState
<1>4. \A p \in members : p \in Live
  BY <1>1, <1>2, PeerAssumption DEF Start, Live, Joined, NoPeer
<1>5. ChanOK(chan)
  BY <1>1 DEF Start, ChanOK, Channels
<1>6. LinkOK /\ OutboxOK
  BY <1>1 DEF Start, LinkOK, OutboxOK
<1>7. AbsentOK
  BY <1>1, <1>4 DEF Start, AbsentOK
<1>8. AdmissionOK
  BY <1>1, <1>2 DEF Start, AdmissionOK
<1>9. ASSUME NEW p \in members, NEW q \in members, p # q PROVE WillHearBye(p, q)
  BY <1>1, <1>2, <1>9 DEF Start, WillHearBye
<1>10. NoGhostMember /\ NoGhostHost
  BY <1>1, <1>2, <1>9, PeerAssumption DEF Start, NoGhostMember, NoGhostHost, Live
<1>11. QED
  BY <1>3, <1>5, <1>6, <1>7, <1>8, <1>10 DEF Inv

Budget == [plan : Plans, gone : Nat, cuts : Nat, failedDials : Nat, toggles : Nat, reports : Nat]

\* Spending keeps the budget a budget.
LEMMA SpendTyped ==
    ASSUME NEW s \in Budget
    PROVE  /\ [s EXCEPT !.gone = @ + 1] \in Budget /\ [s EXCEPT !.cuts = @ + 1] \in Budget
           /\ [s EXCEPT !.failedDials = @ + 1] \in Budget
           /\ [s EXCEPT !.toggles = @ + 1] \in Budget /\ [s EXCEPT !.reports = @ + 1] \in Budget
BY DEF Budget

\* A step that takes no farewell from anybody and moves no role leaves no ghost.
LEMMA SameRolesKeep ==
    ASSUME Inv, Live' = Live, UNCHANGED <<roster, refused, hostPeer>>,
           \A x, y \in Peer : WillHearBye(x, y) => WillHearBye(x, y)'
    PROVE  NoGhostMember' /\ NoGhostHost' /\ AdmissionOK'
<1>1. \A x \in Live : x \in Peer /\ roster[x] \subseteq Peer /\ hostPeer[x] \in Peer \cup {NoPeer}
  BY DEF Inv, TypeOK, Live
<1>2. NoGhostMember'
  BY <1>1 DEF Inv, NoGhostMember
<1>3. NoGhostHost'
  BY <1>1 DEF Inv, NoGhostHost
<1>4. AdmissionOK'
  BY DEF Inv, AdmissionOK
<1>5. QED
  BY <1>2, <1>3, <1>4

LEMMA JoinKeeps == ASSUME Inv, NEW p \in Peer, NEW h \in Peer, Join(p, h) PROVE Inv'
<1>1. TypeOK'
  BY DEF Inv, Join, TypeOK, roomVars
<1>2. p \notin Live /\ Live' = Live \cup {p}
  <2>1. \A x \in Peer : invite'[x] = IF x = p THEN h ELSE invite[x]
    BY DEF Inv, TypeOK, Join
  <2>2. h # NoPeer
    BY PeerAssumption DEF NoPeer
  <2>3. QED
    BY <2>1, <2>2 DEF Join, Live, Joined
<1>3. UNCHANGED <<link, chan, outbox, roster, refused, hostPeer>>
  BY DEF Join, roomVars
<1>4. ChanOK(chan)'
  BY <1>2, <1>3 DEF Inv, ChanOK
<1>5. LinkOK' /\ AbsentOK'
  BY <1>2, <1>3 DEF Inv, LinkOK, AbsentOK
<1>6. OutboxOK' /\ AdmissionOK'
  BY <1>3 DEF Inv, OutboxOK, AdmissionOK
<1>7. roster[p] = {} /\ hostPeer[p] = NoPeer
  BY <1>2 DEF Inv, AbsentOK
<1>8. NoGhostMember' /\ NoGhostHost'
  BY <1>2, <1>3, <1>7 DEF Inv, NoGhostMember, NoGhostHost, WillHearBye
<1>9. QED
  BY <1>1, <1>4, <1>5, <1>6, <1>8 DEF Inv

\* A meeting, whichever dial it came of.
LEMMA MeetsKeeps ==
    ASSUME Inv, NEW p \in Peer, NEW q \in Peer, Meets(p, q), TypeOK',
           UNCHANGED <<gone, invite, chan, roomVars>>
    PROVE  Inv'
<1>1. \A x, y \in Peer :
        link'[x][y] = IF (x = p /\ y = q) \/ (x = q /\ y = p) THEN "new" ELSE link[x][y]
  BY DEF Inv, TypeOK, Meets
<1>2. Live' = Live /\ p \in Live /\ q \in Live
  BY DEF Meets, Live, Joined
<1>3. UNCHANGED <<outbox, roster, refused, hostPeer>>
  BY DEF roomVars
<1>4. \A x, y \in Peer : WillHearBye(x, y) => WillHearBye(x, y)'
  BY <1>1 DEF WillHearBye
<1>5. ChanOK(chan)'
  BY <1>1, <1>2 DEF Inv, ChanOK
<1>6. LinkOK' /\ AbsentOK'
  BY <1>1, <1>2, <1>3 DEF Inv, LinkOK, AbsentOK
<1>7. OutboxOK'
  BY <1>3 DEF Inv, OutboxOK
<1>8. QED
  BY <1>2, <1>3, <1>4, <1>5, <1>6, <1>7, SameRolesKeep DEF Inv

LEMMA DialInvitedKeeps == ASSUME Inv, NEW p \in Peer, DialInvited(p) PROVE Inv'
<1>1. invite[p] \in Peer
  BY DEF DialInvited, Inv, TypeOK
<1>2. TypeOK'
  BY DEF Inv, DialInvited, Meets, TypeOK, LinkStatus, roomVars
<1>3. QED
  BY <1>1, <1>2, MeetsKeeps DEF DialInvited

\* A step that changes neither the streams nor the roles.
LEMMA NothingMovesKeeps ==
    ASSUME Inv, TypeOK', UNCHANGED <<gone, invite, link, chan, roomVars>>
    PROVE  Inv'
<1>1. Live' = Live /\ UNCHANGED <<outbox, roster, refused, hostPeer>>
  BY DEF Live, Joined, roomVars
<1>2. ChanOK(chan)' /\ LinkOK' /\ AbsentOK' /\ OutboxOK'
  BY <1>1 DEF Inv, ChanOK, LinkOK, AbsentOK, OutboxOK
<1>3. \A x, y \in Peer : WillHearBye(x, y) => WillHearBye(x, y)'
  BY DEF WillHearBye
<1>4. QED
  BY <1>1, <1>2, <1>3, SameRolesKeep DEF Inv

LEMMA HintedDialKeeps == ASSUME Inv, NEW p \in Peer, NEW q \in Peer, HintedDial(p, q) PROVE Inv'
<1>1. hints' \in [Peer -> SUBSET Peer]
  BY DEF Inv, HintedDial, TypeOK
<1>2. CASE Meets(p, q)
  <2>1. TypeOK'
    <3>1. link' \in [Peer -> [Peer -> LinkStatus]]
      BY <1>2 DEF Inv, Meets, TypeOK, LinkStatus
    <3>2. QED
      BY <1>1, <3>1 DEF Inv, HintedDial, TypeOK, roomVars
  <2>2. QED
    BY <1>2, <2>1, MeetsKeeps DEF HintedDial
<1>3. CASE UNCHANGED link
  <2>1. TypeOK'
    BY <1>1, <1>3 DEF Inv, HintedDial, TypeOK, roomVars
  <2>2. QED
    BY <1>3, <2>1, NothingMovesKeeps DEF HintedDial
<1>4. QED
  BY <1>2, <1>3 DEF HintedDial

LEMMA HintedDialFailsKeeps ==
    ASSUME Inv, NEW p \in Peer, NEW q \in Peer, HintedDialFails(p, q) PROVE Inv'
<1>1. hints' \in [Peer -> SUBSET Peer]
  BY DEF Inv, HintedDialFails, TypeOK
<1>2. spent' \in Budget
  <2>1. spent \in Budget
    BY DEF Inv, TypeOK, Budget
  <2>2. CASE UNCHANGED spent
    BY <2>1, <2>2 DEF Budget
  <2>3. CASE spent' = [spent EXCEPT !.failedDials = @ + 1]
    BY <2>1, <2>3, SpendTyped DEF Budget
  <2>4. QED
    BY <2>2, <2>3 DEF HintedDialFails
<1>3. TypeOK'
  BY <1>1, <1>2 DEF Inv, HintedDialFails, TypeOK, roomVars, Budget
<1>4. QED
  BY <1>3, NothingMovesKeeps DEF HintedDialFails

LEMMA GreetKeeps == ASSUME Inv, NEW p \in Peer, NEW q \in Peer, Greet(p, q) PROVE Inv'
<1> DEFINE new == Delivered(chan, p, Hello(p), {q})
<1>1. /\ Hello(p) \in Message /\ Hello(p).type # "Host"
      /\ {q} \subseteq Connected(p)
  BY MessagesTyped DEF Hello, Connected, Greet
<1>2. ChanOK(new) /\ \A x, y \in Peer : HasBye(chan[x][y]) => HasBye(new[x][y])
  BY <1>1, WriteKeeps DEF Inv
<1>3. /\ link' \in [Peer -> [Peer -> LinkStatus]]
      /\ \A x, y \in Peer : link'[x][y] = IF x = p /\ y = q THEN "up" ELSE link[x][y]
      /\ link[p][q] = "new" /\ p \in Live
  BY DEF Inv, TypeOK, LinkStatus, Greet
<1>4. chan' = new /\ Live' = Live /\ UNCHANGED <<outbox, roster, refused, hostPeer>>
  BY DEF Greet, Live, Joined, roomVars
<1> HIDE DEF new
<1>5. TypeOK'
  BY <1>2, <1>3, <1>4 DEF Inv, TypeOK, ChanOK, Channels, Greet, roomVars
<1>6. ChanOK(chan)'
  <2>1. \A x, y \in Peer : link'[x][y] = "none" => link[x][y] = "none"
    BY <1>3
  <2>2. QED
    BY <1>2, <1>4, <2>1 DEF ChanOK
<1>7. LinkOK' /\ AbsentOK' /\ OutboxOK'
  BY <1>3, <1>4 DEF Inv, LinkOK, AbsentOK, OutboxOK
<1>8. \A x, y \in Peer : WillHearBye(x, y) => WillHearBye(x, y)'
  BY <1>2, <1>3, <1>4 DEF WillHearBye
<1>9. QED
  BY <1>4, <1>5, <1>6, <1>7, <1>8, SameRolesKeep DEF Inv

LEMMA CutKeeps == ASSUME Inv, NEW p \in Peer, NEW q \in Peer, Cut(p, q) PROVE Inv'
<1>1. /\ link' \in [Peer -> [Peer -> LinkStatus]]
      /\ \A x, y \in Peer :
           link'[x][y] = IF (x = p /\ y = q) \/ (x = q /\ y = p) THEN "down" ELSE link[x][y]
      /\ link[p][q] # "none" /\ link[q][p] # "none"
  BY DEF Inv, TypeOK, Cut, LinkStatus
<1>2. chan' = chan /\ Live' = Live /\ UNCHANGED <<outbox, roster, refused, hostPeer>>
  BY DEF Cut, Live, Joined, roomVars
<1>3. TypeOK'
  <2>1. spent' \in Budget
    BY SpendTyped DEF Inv, TypeOK, Cut, Budget
  <2>2. QED
    BY <1>1, <2>1 DEF Inv, TypeOK, Cut, roomVars, Budget
<1>4. ChanOK(chan)'
  <2>1. \A x, y \in Peer : link'[x][y] = "none" => link[x][y] = "none"
    BY <1>1
  <2>2. QED
    BY <1>2, <2>1 DEF Inv, ChanOK
<1>5. LinkOK' /\ AbsentOK' /\ OutboxOK'
  <2>1. LinkOK'
    BY <1>1 DEF Inv, LinkOK
  <2>2. p \in Live /\ q \in Live
    BY <1>1 DEF Inv, AbsentOK
  <2>3. AbsentOK'
    BY <1>1, <1>2, <2>2 DEF Inv, AbsentOK
  <2>4. OutboxOK'
    BY <1>2 DEF Inv, OutboxOK
  <2>5. QED
    BY <2>1, <2>3, <2>4
<1>6. \A x, y \in Peer : WillHearBye(x, y) => WillHearBye(x, y)'
  BY <1>1, <1>2 DEF WillHearBye
<1>7. QED
  BY <1>2, <1>3, <1>4, <1>5, <1>6, SameRolesKeep DEF Inv

\* What is lost was written before the farewell still to be manufactured.
LEMMA LoseKeeps == ASSUME Inv, NEW p \in Peer, NEW q \in Peer, Lose(p, q) PROVE Inv'
<1> DEFINE old == chan[q][p]
           new == SubSeq(old, 1, Len(old) - 1)
<1>1. old \in Seq(Message) /\ old # <<>> /\ link[p][q] = "down" /\ p \in Live
  BY DEF Inv, TypeOK, Lose
<1>2. /\ new \in Seq(Message)
      /\ \A i \in 1..Len(new) : new[i] = old[i] /\ i \in 1..Len(old)
  BY <1>1
<1>3. /\ chan' \in Channels
      /\ \A x, y \in Peer : chan'[x][y] = IF x = q /\ y = p THEN new ELSE chan[x][y]
  BY <1>2 DEF Inv, TypeOK, Channels, Lose
<1>4. link' = link /\ Live' = Live /\ UNCHANGED <<outbox, roster, refused, hostPeer>>
  BY DEF Lose, Live, Joined, roomVars
<1> HIDE DEF new
<1>5. TypeOK'
  BY <1>3 DEF Inv, TypeOK, Channels, Lose, roomVars
<1>6. ASSUME NEW x \in Peer, NEW y \in Peer
      PROVE  /\ link[y][x] = "none" /\ chan'[x][y] # <<>> => chan'[x][y][Len(chan'[x][y])] = Bye
             /\ y \notin Live => chan'[x][y] = <<>>
             /\ \A i \in 1..Len(chan'[x][y]) : chan'[x][y][i].type = "Host" => chan'[x][y][i].id = x
  <2>1. CASE x = q /\ y = p
    BY <1>1, <1>2, <1>3, <2>1 DEF Inv, ChanOK
  <2>2. CASE ~ (x = q /\ y = p)
    BY <1>3, <2>2 DEF Inv, ChanOK
  <2>3. QED
    BY <2>1, <2>2
<1>7. ChanOK(chan)'
  BY <1>3, <1>4, <1>6 DEF ChanOK, Channels
<1>8. LinkOK' /\ AbsentOK' /\ OutboxOK'
  BY <1>4 DEF Inv, LinkOK, AbsentOK, OutboxOK
<1>9. \A x, y \in Peer : WillHearBye(x, y) => WillHearBye(x, y)'
  BY <1>1, <1>3, <1>4 DEF WillHearBye
<1>10. QED
  BY <1>4, <1>5, <1>7, <1>8, <1>9, SameRolesKeep DEF Inv

LEMMA NoticeKeeps == ASSUME Inv, NEW p \in Peer, NEW q \in Peer, Notice(p, q) PROVE Inv'
<1>1. /\ link' \in [Peer -> [Peer -> LinkStatus]]
      /\ \A x, y \in Peer : link'[x][y] = IF x = p /\ y = q THEN "none" ELSE link[x][y]
      /\ link[p][q] = "down" /\ p \in Live
  BY DEF Inv, TypeOK, LinkStatus, Notice
<1>2. Live' = Live /\ UNCHANGED <<outbox, roster, refused, hostPeer>>
  BY DEF Notice, Live, Joined, roomVars
<1>3. /\ chan' \in Channels
      /\ \A x, y \in Peer :
           chan'[x][y] = IF x = q /\ y = p THEN Append(chan[x][y], Bye) ELSE chan[x][y]
  <2>1. chan \in Channels /\ Bye \in Message
    BY MessagesTyped DEF Inv, TypeOK, Channels
  <2>2. QED
    BY <2>1, DeliveredIs DEF Notice
<1>4. chan[q][p] \in Seq(Message) /\ Bye \in Message /\ Bye.type # "Host"
  BY MessagesTyped DEF Inv, TypeOK, Bye
<1>5. TypeOK'
  BY <1>1, <1>3 DEF Inv, TypeOK, Channels, Notice, roomVars
<1>6. ASSUME NEW x \in Peer, NEW y \in Peer
      PROVE  /\ link'[y][x] = "none" /\ chan'[x][y] # <<>> => chan'[x][y][Len(chan'[x][y])] = Bye
             /\ y \notin Live => chan'[x][y] = <<>>
             /\ \A i \in 1..Len(chan'[x][y]) : chan'[x][y][i].type = "Host" => chan'[x][y][i].id = x
  <2>1. CASE x = q /\ y = p
    <3>1. chan'[x][y] = Append(chan[q][p], Bye) /\ y \in Live
      BY <1>1, <1>3, <2>1
    <3>2. chan'[x][y][Len(chan'[x][y])] = Bye
      BY <1>4, <3>1
    <3>3. ASSUME NEW i \in 1..Len(chan'[x][y]), chan'[x][y][i].type = "Host"
          PROVE  i \in 1..Len(chan[q][p]) /\ chan'[x][y][i] = chan[q][p][i]
      BY <1>4, <3>1, <3>3
    <3>4. QED
      BY <2>1, <3>1, <3>2, <3>3 DEF Inv, ChanOK
  <2>2. CASE ~ (x = q /\ y = p)
    BY <1>1, <1>3, <2>2 DEF Inv, ChanOK
  <2>3. QED
    BY <2>1, <2>2
<1>7. ChanOK(chan)'
  BY <1>2, <1>3, <1>6 DEF ChanOK, Channels
<1>8. LinkOK' /\ AbsentOK' /\ OutboxOK'
  BY <1>1, <1>2 DEF Inv, LinkOK, AbsentOK, OutboxOK
<1>9. ASSUME NEW x \in Peer, NEW y \in Peer, WillHearBye(x, y)
      PROVE  WillHearBye(x, y)'
  <2>1. CASE x = p /\ y = q
    <3>1. chan'[q][p] = Append(chan[q][p], Bye)
      BY <1>3
    <3>2. chan'[q][p][Len(chan[q][p]) + 1] = Bye /\ Len(chan[q][p]) + 1 \in 1..Len(chan'[q][p])
      BY <1>4, <3>1
    <3>3. HasBye(chan'[q][p])
      BY <3>2 DEF HasBye
    <3>4. QED
      BY <2>1, <3>3 DEF WillHearBye
  <2>2. CASE ~ (x = p /\ y = q)
    BY <1>1, <1>3, <1>9, <2>2 DEF WillHearBye
  <2>3. QED
    BY <2>1, <2>2
<1>10. QED
  BY <1>2, <1>5, <1>7, <1>8, <1>9, SameRolesKeep DEF Inv

\* A departure kills the streams of the departed, and every other end of them
\* still stands to notice.
LEMMA DepartKeeps == ASSUME Inv, NEW p \in Peer, Depart(p) PROVE Inv'
<1>1. /\ link' \in [Peer -> [Peer -> LinkStatus]]
      /\ \A x, y \in Peer :
           link'[x][y] = IF x = p THEN "none"
                         ELSE IF y = p /\ link[x][y] # "none" THEN "down" ELSE link[x][y]
  <2>1. \A x, y \in Peer : link[x][y] \in LinkStatus
    BY DEF Inv, TypeOK
  <2>2. link' = [q \in Peer |-> [r \in Peer |->
                    IF q = p THEN "none"
                    ELSE IF r = p /\ link[q][r] # "none" THEN "down" ELSE link[q][r]]]
    BY DEF Depart
  <2>3. QED
    BY <2>1, <2>2 DEF LinkStatus
<1>2. p \in Live /\ Live' = Live \ {p}
  <2>1. \A x \in Peer : invite'[x] = IF x = p THEN NoPeer ELSE invite[x]
    BY DEF Inv, TypeOK, Depart
  <2>2. QED
    BY <2>1 DEF Depart, Live, Joined
<1>3. /\ \A x \in Peer : roster'[x] = IF x = p THEN {} ELSE roster[x]
      /\ \A x \in Peer : refused'[x] = IF x = p THEN {} ELSE refused[x]
      /\ \A x \in Peer : hostPeer'[x] = IF x = p THEN NoPeer ELSE hostPeer[x]
      /\ \A x \in Peer : outbox'[x] = IF x = p THEN <<>> ELSE outbox[x]
  BY DEF Inv, TypeOK, Depart
<1>4. PICK told \in SUBSET Connected(p) :
        chan' = [q \in Peer |-> [Delivered(chan, p, Bye, told)[q] EXCEPT ![p] = <<>>]]
  BY DEF Depart
<1> DEFINE sent == Delivered(chan, p, Bye, told)
<1>5. ChanOK(sent) /\ \A x, y \in Peer : HasBye(chan[x][y]) => HasBye(sent[x][y])
  <2>1. Bye \in Message /\ Bye.type # "Host"
    BY MessagesTyped DEF Bye
  <2>2. QED
    BY <2>1, WriteKeeps DEF Inv
<1> HIDE DEF sent
<1>6. /\ chan' \in Channels
      /\ \A x, y \in Peer : chan'[x][y] = IF y = p THEN <<>> ELSE sent[x][y]
  <2>1. sent \in Channels /\ chan' = [q \in Peer |-> [sent[q] EXCEPT ![p] = <<>>]]
    BY <1>4, <1>5 DEF ChanOK, sent
  <2>2. QED
    BY <2>1 DEF Channels
<1>7. TypeOK'
  <2>1. spent' \in Budget
    BY SpendTyped DEF Inv, TypeOK, Depart, Budget
  <2>2. chan' \in [Peer -> [Peer -> Seq(Message)]]
    BY <1>6 DEF Channels
  <2>3. outbox' \in [Peer -> Seq(Message)]
    BY DEF Inv, TypeOK, Depart
  <2>4. /\ gone' \subseteq Peer /\ invite' \in [Peer -> Peer \cup {NoPeer}]
        /\ hints' \in [Peer -> SUBSET Peer] /\ roster' \in [Peer -> SUBSET Peer]
        /\ refused' \in [Peer -> SUBSET Peer] /\ hostPeer' \in [Peer -> Peer \cup {NoPeer}]
    BY DEF Inv, TypeOK, Depart
  <2>5. buffering' \in [Peer -> SUBSET Peer] /\ \A x \in Peer : buffering'[x] \subseteq roster'[x]
    BY DEF Inv, TypeOK, Depart
  <2>6. /\ isHost' \in [Peer -> BOOLEAN] /\ magnet' \in [Peer -> BOOLEAN]
        /\ offered' \in [Peer -> BOOLEAN] /\ play' \in [Peer -> PlayState]
    BY DEF Inv, TypeOK, Depart, PlayState
  <2>7. QED
    BY <1>1, <2>1, <2>2, <2>3, <2>4, <2>5, <2>6 DEF TypeOK, Budget
<1>8. ChanOK(chan)'
  BY <1>1, <1>2, <1>5, <1>6 DEF ChanOK
<1>9. LinkOK'
  BY <1>1 DEF Inv, LinkOK
<1>10. AbsentOK'
  <2>1. ASSUME NEW x \in Peer, x \notin Live'
        PROVE  /\ \A y \in Peer : link'[x][y] = "none"
               /\ roster'[x] = {} /\ hostPeer'[x] = NoPeer
    <3>1. CASE x = p
      BY <1>1, <1>3, <3>1
    <3>2. CASE x # p
      <4>1. x \notin Live
        BY <1>2, <2>1, <3>2
      <4>2. QED
        BY <1>1, <1>3, <3>2, <4>1 DEF Inv, AbsentOK
    <3>3. QED
      BY <3>1, <3>2
  <2>2. QED
    BY <2>1 DEF AbsentOK
<1>11. OutboxOK'
  BY <1>3 DEF Inv, OutboxOK
<1>12. AdmissionOK'
  BY <1>3 DEF Inv, AdmissionOK
<1>13. ASSUME NEW x \in Live', NEW y \in Peer, WillHearBye(x, y)
       PROVE  WillHearBye(x, y)'
  BY <1>1, <1>2, <1>5, <1>6, <1>13 DEF WillHearBye, Live
<1>14. \A x \in Live' : /\ x \in Live /\ x \in Peer /\ x # p
                        /\ roster[x] \subseteq Peer /\ hostPeer[x] \in Peer \cup {NoPeer}
  BY <1>2 DEF Inv, TypeOK, Live
<1>15. NoGhostMember' /\ NoGhostHost'
  BY <1>3, <1>13, <1>14 DEF Inv, NoGhostMember, NoGhostHost
<1>16. QED
  BY <1>7, <1>8, <1>9, <1>10, <1>11, <1>12, <1>15 DEF Inv

-----------------------------------------------------------------------------
(* The steps of the window and of the Room.                                *)

\* A step of one Room, over streams that stand as they were: what has to hold
\* of that Room's roster and host after it, and of what it reads and writes.
LEMMA RoomStepKeeps ==
    ASSUME Inv, UNCHANGED <<gone, invite, link>>, NEW p \in Live,
           TypeOK', ChanOK(chan)', OutboxOK',
           \A x \in Peer \ {p} : /\ roster'[x] = roster[x] /\ refused'[x] = refused[x]
                                 /\ hostPeer'[x] = hostPeer[x],
           \A y \in Peer : /\ y \in roster'[p] => Admits(p, y)
                           /\ y \in refused'[p] => ~Admits(p, y),
           \A x \in Peer \ {p}, y \in Peer : WillHearBye(x, y) => WillHearBye(x, y)',
           \A y \in roster'[p] : WillHearBye(p, y)',
           hostPeer'[p] \in {NoPeer, p} \cup refused'[p] \/ WillHearBye(p, hostPeer[p])'
    PROVE  Inv'
<1>1. Live' = Live /\ p \in Peer
  BY DEF Live, Joined
<1>2. LinkOK'
  BY DEF Inv, LinkOK
<1>3. AbsentOK'
  BY <1>1 DEF Inv, AbsentOK
<1>4. AdmissionOK'
  <2>1. ASSUME NEW x \in Peer, NEW y \in Peer
        PROVE  /\ y \in roster'[x] => Admits(x, y)
               /\ y \in refused'[x] => ~Admits(x, y)
    <3>1. CASE x = p
      BY <3>1
    <3>2. CASE x # p
      BY <3>2 DEF Inv, AdmissionOK
    <3>3. QED
      BY <3>1, <3>2
  <2>2. QED
    BY <2>1 DEF AdmissionOK, Admits, Speaks, Understands
<1>5. \A x \in Live : x \in Peer /\ roster[x] \subseteq Peer /\ hostPeer[x] \in Peer \cup {NoPeer}
  BY DEF Inv, TypeOK, Live
<1>6. NoGhostMember'
  BY <1>1, <1>5 DEF Inv, NoGhostMember
<1>7. NoGhostHost'
  <2>1. SUFFICES ASSUME NEW x \in Live
                 PROVE  \/ hostPeer'[x] \in {NoPeer, x} \cup refused'[x]
                        \/ WillHearBye(x, hostPeer[x])'
    BY <1>1 DEF NoGhostHost
  <2>2. CASE x = p
    BY <2>2
  <2>3. CASE x # p
    <3>1. x \in Peer \ {p} /\ hostPeer'[x] = hostPeer[x] /\ refused'[x] = refused[x]
      BY <1>5, <2>3
    <3>2. CASE hostPeer[x] \in {NoPeer, x} \cup refused[x]
      BY <3>1, <3>2
    <3>3. CASE hostPeer[x] \in Peer /\ WillHearBye(x, hostPeer[x])
      BY <3>1, <3>3 DEF WillHearBye
    <3>4. QED
      BY <1>5, <3>2, <3>3 DEF Inv, NoGhostHost
  <2>4. QED
    BY <2>2, <2>3
<1>8. QED
  BY <1>2, <1>3, <1>4, <1>6, <1>7 DEF Inv

\* A broadcast writes as WriteKeeps says, whoever it reaches.
LEMMA BroadcastWrites ==
    ASSUME Inv, NEW p \in Peer, NEW msg \in Message, msg.type = "Host" => msg.id = p,
           Broadcast(p, msg)
    PROVE  /\ ChanOK(chan') /\ chan' \in [Peer -> [Peer -> Seq(Message)]]
           /\ \A x, y \in Peer : HasBye(chan[x][y]) => HasBye(chan'[x][y])
<1>1. PICK to \in Recipients(p) : chan' = Delivered(chan, p, msg, to)
  BY DEF Broadcast
<1>2. to \in SUBSET Connected(p)
  BY DEF Recipients
<1>3. /\ ChanOK(chan) /\ LinkOK /\ AbsentOK
  BY DEF Inv
<1>4. /\ ChanOK(Delivered(chan, p, msg, to))
      /\ \A x, y \in Peer : HasBye(chan[x][y]) => HasBye(Delivered(chan, p, msg, to)[x][y])
  BY <1>2, <1>3, WriteKeeps
<1>5. ChanOK(chan') /\ \A x, y \in Peer : HasBye(chan[x][y]) => HasBye(chan'[x][y])
  BY <1>1, <1>4
<1>6. QED
  BY <1>5 DEF ChanOK, Channels

\* A step that only broadcasts, whatever it does to the parts of the Room no
\* other Room sees.
LEMMA BroadcastKeeps ==
    ASSUME Inv, NEW p \in Peer, NEW msg \in Message, msg.type = "Host" => msg.id = p,
           Broadcast(p, msg), TypeOK', OutboxOK',
           UNCHANGED <<gone, invite, link, roster, refused, hostPeer>>
    PROVE  Inv'
<1>1. /\ ChanOK(chan')
      /\ \A x, y \in Peer : HasBye(chan[x][y]) => HasBye(chan'[x][y])
  BY BroadcastWrites
<1>2. Live' = Live
  BY DEF Live, Joined
<1>3. ChanOK(chan)'
  BY <1>1, <1>2 DEF ChanOK
<1>4. LinkOK' /\ AbsentOK'
  BY <1>2 DEF Inv, LinkOK, AbsentOK
<1>5. \A x, y \in Peer : WillHearBye(x, y) => WillHearBye(x, y)'
  BY <1>1 DEF WillHearBye
<1>6. QED
  BY <1>2, <1>3, <1>4, <1>5, SameRolesKeep DEF Inv

LEMMA AnnounceMagnetKeeps == ASSUME Inv, NEW p \in Peer, AnnounceMagnet(p) PROVE Inv'
<1>1. MagnetMsg \in Message /\ MagnetMsg.type # "Host" /\ Broadcast(p, MagnetMsg)
  BY MessagesTyped DEF MagnetMsg, AnnounceMagnet
<1>2. chan' \in [Peer -> [Peer -> Seq(Message)]]
  BY <1>1, BroadcastWrites
<1>3. TypeOK'
  BY <1>2 DEF Inv, TypeOK, AnnounceMagnet
<1>4. OutboxOK'
  BY DEF Inv, OutboxOK, AnnounceMagnet
<1>5. QED
  BY <1>1, <1>3, <1>4, BroadcastKeeps DEF AnnounceMagnet

LEMMA PauseOrPlayKeeps == ASSUME Inv, NEW p \in Peer, PauseOrPlay(p) PROVE Inv'
<1>1. play' \in [Peer -> PlayState] /\ play'[p] \in {"playing", "paused"}
  BY DEF Inv, TypeOK, PauseOrPlay, PlayState
<1>2. /\ Pause(play'[p]) \in Message /\ Pause(play'[p]).type # "Host"
      /\ Broadcast(p, Pause(play'[p]))
  BY <1>1, MessagesTyped DEF Pause, PauseOrPlay
<1>3. chan' \in [Peer -> [Peer -> Seq(Message)]]
  BY <1>2, BroadcastWrites
<1>4. TypeOK'
  <2>1. spent' \in Budget
    BY SpendTyped DEF Inv, TypeOK, PauseOrPlay, Budget
  <2>2. QED
    BY <1>1, <1>3, <2>1 DEF Inv, TypeOK, PauseOrPlay, Budget
<1>5. OutboxOK'
  BY DEF Inv, OutboxOK, PauseOrPlay
<1>6. QED
  BY <1>2, <1>4, <1>5, BroadcastKeeps DEF PauseOrPlay

LEMMA ReportBufferingKeeps ==
    ASSUME Inv, NEW p \in Peer, NEW b \in BOOLEAN, ReportBuffering(p, b) PROVE Inv'
<1>1. Buffering(b) \in Message /\ Buffering(b).type # "Host" /\ Broadcast(p, Buffering(b))
  BY MessagesTyped DEF Buffering, ReportBuffering
<1>2. chan' \in [Peer -> [Peer -> Seq(Message)]]
  BY <1>1, BroadcastWrites
<1>3. TypeOK'
  <2>1. spent' \in Budget
    BY SpendTyped DEF Inv, TypeOK, ReportBuffering, Budget
  <2>2. QED
    BY <1>2, <2>1 DEF Inv, TypeOK, ReportBuffering, roomVars, Budget
<1>4. OutboxOK'
  BY DEF Inv, OutboxOK, ReportBuffering, roomVars
<1>5. QED
  BY <1>1, <1>3, <1>4, BroadcastKeeps DEF ReportBuffering, roomVars

LEMMA SendReplyKeeps == ASSUME Inv, NEW p \in Peer, SendReply(p) PROVE Inv'
<1> DEFINE out  == outbox[p]
           rest == Tail(out)
           resolved == IF rest = <<>> \/ rest[1] # PlayStateHere THEN rest
                       ELSE IF play[p] = "unknown" THEN Tail(rest)
                       ELSE <<Pause(play[p])>> \o Tail(rest)
<1>1. /\ out \in Seq(Message) /\ out # <<>> /\ Broadcast(p, Head(out))
      /\ outbox' = [outbox EXCEPT ![p] = resolved]
      /\ \A i \in 1..Len(out) : out[i].type = "Host" => out[i].id = p
  BY DEF Inv, TypeOK, SendReply, OutboxOK
<1>2. Head(out) \in Message /\ Head(out) = out[1] /\ 1 \in 1..Len(out)
  BY <1>1
<1>3. rest \in Seq(Message) /\ \A i \in 1..Len(rest) : rest[i].type = "Host" => rest[i].id = p
  BY <1>1
<1>4. resolved \in Seq(Message) /\ \A i \in 1..Len(resolved) : resolved[i].type = "Host" => resolved[i].id = p
  <2> HIDE DEF rest
  <2>1. CASE rest = <<>> \/ rest[1] # PlayStateHere
    BY <1>3, <2>1
  <2>2. CASE rest # <<>> /\ play[p] = "unknown"
    <3>1. Tail(rest) \in Seq(Message)
      BY <1>3, <2>2
    <3>2. \A i \in 1..Len(Tail(rest)) : Tail(rest)[i] = rest[i + 1] /\ i + 1 \in 1..Len(rest)
      BY <1>3, <2>2
    <3>3. QED
      BY <1>3, <2>2, <3>1, <3>2
  <2>3. CASE rest # <<>> /\ rest[1] = PlayStateHere /\ play[p] # "unknown"
    <3>1. Pause(play[p]) \in Message /\ Pause(play[p]).type # "Host"
      BY <2>3, MessagesTyped DEF Inv, TypeOK, PlayState, Pause
    <3>2. /\ Tail(rest) \in Seq(Message) /\ resolved = <<Pause(play[p])>> \o Tail(rest)
          /\ Len(Tail(rest)) = Len(rest) - 1
      BY <1>3, <2>3
    <3>3. resolved \in Seq(Message)
      BY <3>1, <3>2
    <3>4. ASSUME NEW i \in 1..Len(resolved)
          PROVE  resolved[i] = Pause(play[p]) \/ (i \in 1..Len(rest) /\ resolved[i] = rest[i])
      BY <1>3, <2>3, <3>1, <3>2
    <3>5. QED
      BY <1>3, <3>1, <3>3, <3>4
  <2>4. QED
    BY <2>1, <2>2, <2>3
<1> HIDE DEF resolved
<1>5. outbox' \in [Peer -> Seq(Message)] /\ OutboxOK'
  BY <1>1, <1>4 DEF Inv, TypeOK, OutboxOK
<1>6. chan' \in [Peer -> [Peer -> Seq(Message)]]
  BY <1>1, <1>2, BroadcastWrites
<1>7. TypeOK'
  BY <1>5, <1>6 DEF Inv, TypeOK, SendReply
<1>8. QED
  BY <1>1, <1>2, <1>5, <1>7, BroadcastKeeps DEF SendReply

-----------------------------------------------------------------------------
(* The steps of Room.handle.                                               *)

\* What every handler knows of the message it takes.
LEMMA ReceiveIs ==
    ASSUME Inv, NEW p \in Peer, NEW q \in Peer, NEW type, Receives(p, q, type)
    PROVE  /\ p \in Live /\ chan[q][p] # <<>>
           /\ Head(chan[q][p]) \in Message /\ Head(chan[q][p]).type = type
           /\ type # "Bye" => Head(chan[q][p]) # Bye
           /\ type = "Host" => Head(chan[q][p]).id = q
           /\ ChanOK(Consumed(p, q))
           /\ Consumed(p, q) \in [Peer -> [Peer -> Seq(Message)]]
           /\ \A x, y \in Peer :
                 HasBye(chan[x][y]) /\ (x = q /\ y = p => type # "Bye")
                    => HasBye(Consumed(p, q)[x][y])
           /\ type # "Bye" /\ link[p][q] = "none" => HasBye(Consumed(p, q)[q][p])
<1>1. /\ p \in Live /\ chan[q][p] # <<>> /\ ChanOK(chan)
      /\ Head(chan[q][p]).type = type
  BY DEF Inv, Receives
<1>2. /\ ChanOK(Consumed(p, q))
      /\ Head(chan[q][p]) \in Message
      /\ Head(chan[q][p]).type = "Host" => Head(chan[q][p]).id = q
      /\ \A x, y \in Peer :
           HasBye(chan[x][y]) /\ (x = q /\ y = p => Head(chan[q][p]) # Bye)
              => HasBye(Consumed(p, q)[x][y])
      /\ Head(chan[q][p]) # Bye /\ link[p][q] = "none" => HasBye(Consumed(p, q)[q][p])
  BY <1>1, ReadKeeps
<1>3. Bye.type = "Bye"
  BY DEF Bye
<1>4. Consumed(p, q) \in [Peer -> [Peer -> Seq(Message)]]
  BY <1>2 DEF ChanOK, Channels
<1>5. QED
  BY <1>1, <1>2, <1>3, <1>4

\* Taking any message but a farewell: the roster may gain the sender, the role
\* may move to the sender, and nobody else's farewell is touched.
LEMMA TakeKeeps ==
    ASSUME Inv, NEW p \in Peer, NEW q \in Peer, NEW type, Receives(p, q, type), type # "Bye",
           chan' = Consumed(p, q), UNCHANGED <<gone, invite, link, refused>>,
           TypeOK', OutboxOK',
           \A x \in Peer \ {p} : roster'[x] = roster[x] /\ hostPeer'[x] = hostPeer[x],
           roster'[p] = roster[p] \/ (roster'[p] = roster[p] \cup {q} /\ Admits(p, q)),
           hostPeer'[p] \in {hostPeer[p], q}
    PROVE  Inv'
<1>1. /\ p \in Live /\ ChanOK(Consumed(p, q))
      /\ \A x, y \in Peer :
           HasBye(chan[x][y]) /\ (x = q /\ y = p => type # "Bye")
              => HasBye(Consumed(p, q)[x][y])
      /\ type # "Bye" /\ link[p][q] = "none" => HasBye(Consumed(p, q)[q][p])
  BY ReceiveIs
<1>2. Live' = Live
  BY DEF Live, Joined
<1>3. ChanOK(chan)'
  BY <1>1, <1>2 DEF ChanOK
<1>4. WillHearBye(p, q)' /\ \A x, y \in Peer : WillHearBye(x, y) => WillHearBye(x, y)'
  BY <1>1 DEF WillHearBye
<1>5. roster[p] \subseteq Peer /\ hostPeer[p] \in Peer \cup {NoPeer}
  BY DEF Inv, TypeOK
<1>6. \A y \in Peer : /\ y \in roster'[p] => Admits(p, y)
                      /\ y \in refused'[p] => ~Admits(p, y)
  BY DEF Inv, AdmissionOK
<1>7. \A y \in roster'[p] : WillHearBye(p, y)'
  BY <1>1, <1>4, <1>5 DEF Inv, NoGhostMember
<1>8. hostPeer'[p] \in {NoPeer, p} \cup refused'[p] \/ WillHearBye(p, hostPeer[p])'
  <2>1. CASE hostPeer'[p] = q
    BY <1>4, <2>1 DEF WillHearBye
  <2>2. CASE hostPeer'[p] = hostPeer[p]
    BY <1>1, <1>4, <1>5, <2>2 DEF Inv, NoGhostHost, WillHearBye
  <2>3. QED
    BY <2>1, <2>2
<1>9. QED
  BY <1>1, <1>3, <1>4, <1>6, <1>7, <1>8, RoomStepKeeps

LEMMA ReceiveHelloKeeps ==
    ASSUME Inv, NEW p \in Peer, NEW q \in Peer, ReceiveHello(p, q) PROVE Inv'
<1>1. Receives(p, q, "Hello") /\ chan' = Consumed(p, q) /\ Admits(p, q)
  BY DEF ReceiveHello, Drop
<1>2. chan' \in [Peer -> [Peer -> Seq(Message)]]
  BY <1>1, ReceiveIs
<1>3. /\ roster' \in [Peer -> SUBSET Peer] /\ buffering' \in [Peer -> SUBSET Peer]
      /\ \A x \in Peer : /\ buffering'[x] \subseteq roster'[x]
                         /\ x # p => roster'[x] = roster[x]
      /\ roster'[p] = roster[p] \cup {q}
  BY DEF Inv, TypeOK, ReceiveHello
<1>4. /\ hostPeer' \in [Peer -> Peer \cup {NoPeer}]
      /\ \A x \in Peer \ {p} : hostPeer'[x] = hostPeer[x]
      /\ hostPeer'[p] \in {hostPeer[p], q}
  BY DEF Inv, TypeOK, ReceiveHello
<1> DEFINE answer == IF isHost[p] THEN Answer(p, roster'[p]) ELSE <<>>
<1>5. answer \in Seq(Message) /\ \A i \in 1..Len(answer) : answer[i].type = "Host" => answer[i].id = p
  <2> DEFINE film == IF magnet[p] THEN <<MagnetMsg>> ELSE <<>>
             tail == <<Host(p), PlayStateHere, PeersMsg(roster'[p])>>
  <2>1. /\ film \in Seq(Message) /\ tail \in Seq(Message) /\ Len(tail) = 3
        /\ \A i \in 1..Len(film) : film[i] = MagnetMsg
    BY <1>3, MessagesTyped
  <2>2. \A i \in 1..3 : tail[i].type = "Host" => tail[i].id = p
    BY DEF Host, PlayStateHere, PeersMsg
  <2>3. MagnetMsg.type # "Host"
    BY DEF MagnetMsg
  <2> HIDE DEF film, tail
  <2>4. /\ film \o tail \in Seq(Message) /\ Len(film \o tail) = Len(film) + 3
        /\ \A i \in 1..(Len(film) + 3) :
              (film \o tail)[i] = IF i <= Len(film) THEN film[i] ELSE tail[i - Len(film)]
    <3>1. /\ film \o tail \in Seq(Message) /\ Len(film \o tail) = Len(film) + Len(tail)
          /\ \A i \in 1..(Len(film) + Len(tail)) :
                (film \o tail)[i] = IF i <= Len(film) THEN film[i] ELSE tail[i - Len(film)]
      BY <2>1, ConcatProperties, Zenon
    <3>2. QED
      BY <2>1, <3>1
  <2>5. \A i \in 1..Len(film \o tail) : (film \o tail)[i].type = "Host" => (film \o tail)[i].id = p
    <3>1. TAKE i \in 1..Len(film \o tail)
    <3>2. CASE i <= Len(film)
      BY <2>1, <2>3, <2>4, <3>2
    <3>3. CASE i > Len(film)
      <4>1. i - Len(film) \in 1..3 /\ (film \o tail)[i] = tail[i - Len(film)]
        BY <2>1, <2>4, <3>3
      <4>2. QED
        BY <2>2, <4>1
    <3>4. QED
      BY <2>1, <3>2, <3>3
  <2>6. answer = <<>> \/ answer = film \o tail
    BY DEF film, tail, Answer
  <2> HIDE DEF answer
  <2>7. <<>> \in Seq(Message) /\ 1..Len(<<>>) = {}
    OBVIOUS
  <2>8. QED
    BY <2>4, <2>5, <2>6, <2>7
<1>6. outbox' = [outbox EXCEPT ![p] = answer]
  BY DEF ReceiveHello
<1> HIDE DEF answer
<1>7. outbox' \in [Peer -> Seq(Message)] /\ OutboxOK'
  BY <1>5, <1>6 DEF Inv, TypeOK, OutboxOK
<1>8. TypeOK'
  BY <1>2, <1>3, <1>4, <1>7 DEF Inv, TypeOK, ReceiveHello, Drop
<1>9. QED
  BY <1>1, <1>3, <1>4, <1>7, <1>8, TakeKeeps DEF ReceiveHello, Drop

LEMMA ReceiveMagnetKeeps ==
    ASSUME Inv, NEW p \in Peer, NEW q \in Peer, ReceiveMagnet(p, q) PROVE Inv'
<1>1. Receives(p, q, "Magnet") /\ chan' = Consumed(p, q)
  BY DEF ReceiveMagnet, Drop
<1>2. chan' \in [Peer -> [Peer -> Seq(Message)]]
  BY <1>1, ReceiveIs
<1>3. /\ hostPeer' \in [Peer -> Peer \cup {NoPeer}]
      /\ \A x \in Peer \ {p} : hostPeer'[x] = hostPeer[x]
      /\ hostPeer'[p] \in {hostPeer[p], q}
  BY DEF Inv, TypeOK, ReceiveMagnet
<1>4. magnet' \in [Peer -> BOOLEAN]
  BY DEF Inv, TypeOK, ReceiveMagnet
<1>5. offered' \in [Peer -> BOOLEAN]
  BY DEF Inv, TypeOK, ReceiveMagnet, ShouldFollow
<1>6. TypeOK'
  BY <1>2, <1>3, <1>4, <1>5 DEF Inv, TypeOK, ReceiveMagnet, Drop
<1>7. OutboxOK'
  BY DEF Inv, OutboxOK, ReceiveMagnet
<1>8. QED
  BY <1>1, <1>3, <1>6, <1>7, TakeKeeps DEF ReceiveMagnet, Drop

LEMMA ReceivePauseKeeps ==
    ASSUME Inv, NEW p \in Peer, NEW q \in Peer, ReceivePause(p, q) PROVE Inv'
<1>1. Receives(p, q, "Pause") /\ chan' = Consumed(p, q)
  BY DEF ReceivePause, Drop
<1>2. /\ chan' \in [Peer -> [Peer -> Seq(Message)]]
      /\ Head(chan[q][p]) \in Message /\ Head(chan[q][p]).type = "Pause"
  BY <1>1, ReceiveIs
<1>3. Head(chan[q][p]).play \in PlayState
  BY <1>2 DEF Message, PlayState
<1>4. play' \in [Peer -> PlayState]
  BY <1>3 DEF Inv, TypeOK, ReceivePause
<1>5. TypeOK'
  BY <1>2, <1>4 DEF Inv, TypeOK, ReceivePause, Drop
<1>6. OutboxOK'
  BY DEF Inv, OutboxOK, ReceivePause
<1>7. QED
  BY <1>1, <1>5, <1>6, TakeKeeps DEF ReceivePause, Drop

LEMMA ReceiveBufferingKeeps ==
    ASSUME Inv, NEW p \in Peer, NEW q \in Peer, ReceiveBuffering(p, q) PROVE Inv'
<1>1. Receives(p, q, "Buffering") /\ chan' = Consumed(p, q)
  BY DEF ReceiveBuffering, Drop
<1>2. chan' \in [Peer -> [Peer -> Seq(Message)]]
  BY <1>1, ReceiveIs
<1>3. /\ buffering' \in [Peer -> SUBSET Peer]
      /\ \A x \in Peer : buffering'[x] \subseteq roster[x]
  BY DEF Inv, TypeOK, ReceiveBuffering
<1>4. TypeOK'
  BY <1>2, <1>3 DEF Inv, TypeOK, ReceiveBuffering, Drop
<1>5. OutboxOK'
  BY DEF Inv, OutboxOK, ReceiveBuffering
<1>6. QED
  BY <1>1, <1>4, <1>5, TakeKeeps DEF ReceiveBuffering, Drop

\* Every self-announcement names its sender, so believing one moves the role to
\* the sender or leaves it; a transfer to a third peer is never sent.
LEMMA ReceiveHostKeeps ==
    ASSUME Inv, NEW p \in Peer, NEW q \in Peer, ReceiveHost(p, q) PROVE Inv'
<1>1. Receives(p, q, "Host") /\ chan' = Consumed(p, q)
  BY DEF ReceiveHost, Drop
<1>2. chan' \in [Peer -> [Peer -> Seq(Message)]] /\ Head(chan[q][p]).id = q
  BY <1>1, ReceiveIs
<1>3. /\ hostPeer' \in [Peer -> Peer \cup {NoPeer}]
      /\ \A x \in Peer \ {p} : hostPeer'[x] = hostPeer[x]
      /\ hostPeer'[p] \in {hostPeer[p], q}
  BY <1>2 DEF Inv, TypeOK, ReceiveHost
<1>4. isHost' \in [Peer -> BOOLEAN]
  BY DEF Inv, TypeOK, ReceiveHost
<1>5. TypeOK'
  BY <1>2, <1>3, <1>4 DEF Inv, TypeOK, ReceiveHost, Drop
<1>6. OutboxOK'
  BY DEF Inv, OutboxOK, ReceiveHost
<1>7. QED
  BY <1>1, <1>3, <1>5, <1>6, TakeKeeps DEF ReceiveHost, Drop

LEMMA ReceivePeersKeeps ==
    ASSUME Inv, NEW p \in Peer, NEW q \in Peer, ReceivePeers(p, q) PROVE Inv'
<1>1. Receives(p, q, "Peers") /\ chan' = Consumed(p, q)
  BY DEF ReceivePeers
<1>2. /\ chan' \in [Peer -> [Peer -> Seq(Message)]]
      /\ Head(chan[q][p]) \in Message /\ Head(chan[q][p]).type = "Peers"
  BY <1>1, ReceiveIs
<1>3. Head(chan[q][p]).book \in SUBSET Peer
  BY <1>2 DEF Message
<1>4. hints' \in [Peer -> SUBSET Peer]
  BY <1>3 DEF Inv, TypeOK, ReceivePeers
<1>5. TypeOK'
  BY <1>2, <1>4 DEF Inv, TypeOK, ReceivePeers, roomVars
<1>6. OutboxOK'
  BY DEF Inv, OutboxOK, ReceivePeers, roomVars
<1>7. QED
  BY <1>1, <1>5, <1>6, TakeKeeps DEF ReceivePeers, roomVars

\* A refused peer was never admitted, so no roster entry waits for its farewell.
LEMMA RefusalKeeps ==
    ASSUME Inv, NEW p \in Peer, NEW q \in Peer, NEW type, Receives(p, q, type),
           chan' = Consumed(p, q), UNCHANGED <<gone, invite, link, roster, hostPeer>>,
           refused' = [refused EXCEPT ![p] = @ \cup {q}],
           ~Admits(p, q), TypeOK', OutboxOK'
    PROVE  Inv'
<1>1. /\ p \in Live /\ ChanOK(Consumed(p, q))
      /\ \A x, y \in Peer :
           HasBye(chan[x][y]) /\ (x = q /\ y = p => type # "Bye")
              => HasBye(Consumed(p, q)[x][y])
  BY ReceiveIs
<1>2. Live' = Live
  BY DEF Live, Joined
<1>3. ChanOK(chan)'
  BY <1>1, <1>2 DEF ChanOK
<1>4. \A x, y \in Peer : WillHearBye(x, y) /\ ~ (x = p /\ y = q) => WillHearBye(x, y)'
  BY <1>1 DEF WillHearBye
<1>5. /\ refused'[p] = refused[p] \cup {q}
      /\ \A x \in Peer \ {p} : refused'[x] = refused[x]
      /\ roster[p] \subseteq Peer /\ hostPeer[p] \in Peer \cup {NoPeer}
  BY DEF Inv, TypeOK
<1>6. \A y \in Peer : /\ y \in roster'[p] => Admits(p, y)
                      /\ y \in refused'[p] => ~Admits(p, y)
  BY <1>5 DEF Inv, AdmissionOK
<1>7. \A y \in roster'[p] : WillHearBye(p, y)'
  BY <1>1, <1>4, <1>5, <1>6 DEF Inv, NoGhostMember
<1>8. hostPeer'[p] \in {NoPeer, p} \cup refused'[p] \/ WillHearBye(p, hostPeer[p])'
  <2>1. CASE hostPeer[p] \in {NoPeer, p} \cup refused'[p]
    BY <2>1
  <2>2. CASE hostPeer[p] \notin {NoPeer, p} \cup refused'[p]
    <3>1. hostPeer[p] \in Peer /\ hostPeer[p] # q /\ WillHearBye(p, hostPeer[p])
      BY <1>1, <1>5, <2>2 DEF Inv, NoGhostHost
    <3>2. QED
      BY <1>4, <3>1 DEF WillHearBye
  <2>3. QED
    BY <2>1, <2>2
<1>9. QED
  BY <1>1, <1>3, <1>4, <1>5, <1>6, <1>7, <1>8, RoomStepKeeps

LEMMA RefuseHelloKeeps ==
    ASSUME Inv, NEW p \in Peer, NEW q \in Peer, RefuseHello(p, q) PROVE Inv'
<1>1. Receives(p, q, "Hello") /\ chan' = Consumed(p, q) /\ ~Admits(p, q)
  BY DEF RefuseHello, Drop, Heeds, Inv, AdmissionOK
<1>2. chan' \in [Peer -> [Peer -> Seq(Message)]]
  BY <1>1, ReceiveIs
<1>3. refused' \in [Peer -> SUBSET Peer]
  BY DEF Inv, TypeOK, RefuseHello
<1>4. TypeOK'
  BY <1>2, <1>3 DEF Inv, TypeOK, RefuseHello, Drop
<1>5. OutboxOK'
  BY DEF Inv, OutboxOK, RefuseHello
<1>6. QED
  BY <1>1, <1>4, <1>5, RefusalKeeps DEF RefuseHello, Drop

LEMMA IgnoreRefusedKeeps ==
    ASSUME Inv, NEW p \in Peer, NEW q \in Peer, IgnoreRefused(p, q) PROVE Inv'
<1>1. PICK type : Receives(p, q, type)
  BY DEF IgnoreRefused
<1>2. chan' = Consumed(p, q) /\ q \in refused[p] /\ ~Admits(p, q)
  BY DEF IgnoreRefused, Drop, Heeds, Inv, AdmissionOK
<1>3. chan' \in [Peer -> [Peer -> Seq(Message)]]
  BY <1>1, <1>2, ReceiveIs
<1>4. TypeOK' /\ OutboxOK'
  BY <1>3 DEF Inv, TypeOK, OutboxOK, IgnoreRefused, Drop, roomVars
<1>5. refused' = [refused EXCEPT ![p] = @ \cup {q}]
  BY <1>2 DEF Inv, TypeOK, IgnoreRefused, roomVars
<1>6. QED
  BY <1>1, <1>2, <1>4, <1>5, RefusalKeeps DEF IgnoreRefused, Drop, roomVars

\* The one step that hands the role to a third peer: the winner comes from the
\* roster, whose departures will be heard, or is this peer itself.
LEMMA ReceiveByeKeeps ==
    ASSUME Inv, NEW p \in Peer, NEW q \in Peer, ReceiveBye(p, q) PROVE Inv'
<1> DEFINE left   == roster[p] \ {q}
           winner == TakeoverWinner(p, left)
           takes  == q = hostPeer[p] /\ winner = p
<1>1. Receives(p, q, "Bye") /\ Heeds(p, q)
  BY DEF ReceiveBye
<1>2. /\ p \in Live /\ ChanOK(Consumed(p, q))
      /\ \A x, y \in Peer :
           HasBye(chan[x][y]) /\ ~ (x = q /\ y = p) => HasBye(Consumed(p, q)[x][y])
  BY <1>1, ReceiveIs
<1>3. winner \in left \cup {p} /\ left \subseteq Peer
  <2>1. left \in SUBSET Peer
    BY DEF Inv, TypeOK
  <2> HIDE DEF left
  <2>2. QED
    BY <2>1, TakeoverWinnerIs
<1> HIDE DEF winner
<1>4. /\ roster' = [roster EXCEPT ![p] = left]
      /\ buffering' = [buffering EXCEPT ![p] = @ \ {q}]
      /\ hostPeer' = [hostPeer EXCEPT ![p] = IF q = @ THEN winner ELSE @]
      /\ isHost' = [isHost EXCEPT ![p] = @ \/ takes]
      /\ \E to \in IF takes THEN Recipients(p) ELSE {{}} :
            chan' = Delivered(Consumed(p, q), p, Host(p), to)
      /\ UNCHANGED <<gone, invite, link, hints, spent, outbox, refused, magnet, offered, play>>
  BY DEF ReceiveBye, winner
<1>5. PICK to \in SUBSET Connected(p) : chan' = Delivered(Consumed(p, q), p, Host(p), to)
  BY <1>4 DEF Recipients
<1>6. /\ ChanOK(chan')
      /\ \A x, y \in Peer : HasBye(Consumed(p, q)[x][y]) => HasBye(chan'[x][y])
  <2>1. Host(p) \in Message /\ Host(p).id = p
    BY MessagesTyped DEF Host
  <2>2. LinkOK /\ AbsentOK
    BY DEF Inv
  <2>3. /\ ChanOK(Delivered(Consumed(p, q), p, Host(p), to))
        /\ \A x, y \in Peer : HasBye(Consumed(p, q)[x][y])
                                => HasBye(Delivered(Consumed(p, q), p, Host(p), to)[x][y])
    BY <1>2, <2>1, <2>2, WriteKeeps
  <2>4. QED
    BY <1>5, <2>3
<1>7. Live' = Live
  BY <1>4 DEF Live, Joined
<1>8. ChanOK(chan)'
  BY <1>4, <1>6, <1>7 DEF ChanOK
<1>9. /\ roster' \in [Peer -> SUBSET Peer] /\ roster'[p] = left
      /\ \A x \in Peer \ {p} : roster'[x] = roster[x]
  BY <1>3, <1>4 DEF Inv, TypeOK
<1>10. buffering' \in [Peer -> SUBSET Peer] /\ \A x \in Peer : buffering'[x] \subseteq roster'[x]
  BY <1>4 DEF Inv, TypeOK
<1>11. /\ hostPeer' \in [Peer -> Peer \cup {NoPeer}]
       /\ \A x \in Peer \ {p} : hostPeer'[x] = hostPeer[x]
       /\ hostPeer'[p] = IF q = hostPeer[p] THEN winner ELSE hostPeer[p]
       /\ hostPeer[p] \in Peer \cup {NoPeer}
  BY <1>3, <1>4 DEF Inv, TypeOK
<1>12. isHost' \in [Peer -> BOOLEAN]
  <2> HIDE DEF takes
  <2>1. isHost' = [isHost EXCEPT ![p] = @ \/ takes]
    BY <1>4
  <2>2. QED
    BY <2>1 DEF Inv, TypeOK
<1>13. TypeOK'
  <2>1. chan' \in [Peer -> [Peer -> Seq(Message)]]
    BY <1>6 DEF ChanOK, Channels
  <2>2. QED
    BY <1>4, <1>9, <1>10, <1>11, <1>12, <2>1 DEF Inv, TypeOK
<1>14. OutboxOK'
  BY <1>4 DEF Inv, OutboxOK
<1>15. \A x, y \in Peer : WillHearBye(x, y) /\ ~ (x = p /\ y = q) => WillHearBye(x, y)'
  BY <1>2, <1>4, <1>6 DEF WillHearBye
<1>16. \A y \in Peer : /\ y \in roster'[p] => Admits(p, y)
                       /\ y \in refused'[p] => ~Admits(p, y)
  BY <1>4, <1>9 DEF Inv, AdmissionOK
<1>17. \A y \in left : y \in Peer /\ WillHearBye(p, y)'
  BY <1>2, <1>3, <1>15 DEF Inv, NoGhostMember
<1>18. hostPeer'[p] \in {NoPeer, p} \cup refused'[p] \/ WillHearBye(p, hostPeer[p])'
  <2>1. CASE q = hostPeer[p]
    BY <1>3, <1>11, <1>17, <2>1 DEF WillHearBye
  <2>2. CASE q # hostPeer[p] /\ hostPeer[p] \in {NoPeer, p} \cup refused[p]
    BY <1>4, <1>11, <2>2
  <2>3. CASE q # hostPeer[p] /\ hostPeer[p] \in Peer /\ WillHearBye(p, hostPeer[p])
    BY <1>11, <1>15, <2>3 DEF WillHearBye
  <2>4. QED
    BY <1>2, <1>11, <2>1, <2>2, <2>3 DEF Inv, NoGhostHost
<1>19. QED
  BY <1>2, <1>4, <1>8, <1>9, <1>11, <1>13, <1>14, <1>15, <1>16, <1>17, <1>18, RoomStepKeeps

-----------------------------------------------------------------------------
(* The theorems.                                                           *)

LEMMA StutterKeeps == ASSUME Inv, UNCHANGED vars PROVE Inv'
<1>1. Live' = Live /\ UNCHANGED <<outbox, roster, refused, hostPeer>>
  BY DEF Live, Joined, vars, meshVars, roomVars
<1>2. TypeOK'
  BY DEF Inv, TypeOK, vars, meshVars, roomVars
<1>3. QED
  BY <1>2, NothingMovesKeeps DEF vars, meshVars

LEMMA HandleKeeps == ASSUME Inv, NEW p \in Peer, NEW q \in Peer, Handle(p, q) PROVE Inv'
BY RefuseHelloKeeps, ReceiveHelloKeeps, IgnoreRefusedKeeps, ReceiveMagnetKeeps,
   ReceivePauseKeeps, ReceiveBufferingKeeps, ReceiveHostKeeps, ReceiveByeKeeps,
   ReceivePeersKeeps DEF Handle

LEMMA NextKeeps == ASSUME Inv, [Next]_vars PROVE Inv'
<1>1. ASSUME NEW p \in Peer,
             \/ DialInvited(p) \/ Depart(p)
             \/ AnnounceMagnet(p) \/ PauseOrPlay(p) \/ SendReply(p)
             \/ \E b \in BOOLEAN : ReportBuffering(p, b)
      PROVE  Inv'
  BY <1>1, DialInvitedKeeps, DepartKeeps, AnnounceMagnetKeeps, PauseOrPlayKeeps,
     SendReplyKeeps, ReportBufferingKeeps
<1>2. ASSUME NEW p \in Peer, NEW q \in Peer,
             \/ Join(p, q) \/ HintedDial(p, q) \/ HintedDialFails(p, q)
             \/ Greet(p, q) \/ Cut(p, q) \/ Lose(p, q) \/ Notice(p, q)
             \/ Handle(p, q)
      PROVE  Inv'
  BY <1>2, JoinKeeps, HintedDialKeeps, HintedDialFailsKeeps, GreetKeeps, CutKeeps,
     LoseKeeps, NoticeKeeps, HandleKeeps
<1>3. QED
  BY <1>1, <1>2, StutterKeeps DEF Next

LEMMA Invariant == Spec => []Inv
<1>1. Init => Inv
  BY InitInv
<1>2. Inv /\ [Next]_vars => Inv'
  BY NextKeeps
<1>3. QED
  BY <1>1, <1>2, PTL DEF Spec

\* Every variable of a room keeps its type, whatever joins, leaves, breaks or
\* arrives out of order.
THEOREM TypeCorrect == Spec => []TypeOK
<1>1. Inv => TypeOK
  BY DEF Inv
<1>2. QED
  BY <1>1, Invariant, PTL

\* No departure, a crash or a cut included, leaves a name in a roster that no
\* farewell will ever take out (bug-0106).
THEOREM NoGhostMembers == Spec => []NoGhostMember
<1>1. Inv => NoGhostMember
  BY DEF Inv
<1>2. QED
  BY <1>1, Invariant, PTL

\* No room waits for a host whose departure it will never hear of: the one a
\* Room follows is reached by a stream, or its farewell is on the way, or it is
\* this peer itself, or a peer refused after it was followed.
THEOREM NoGhostHosts == Spec => []NoGhostHost
<1>1. Inv => NoGhostHost
  BY DEF Inv
<1>2. QED
  BY <1>1, Invariant, PTL

\* Whoever a peer's Room comes to follow, it does not refuse.
LEMMA ReceiveMovesRole ==
    ASSUME Inv, NEW p \in Peer, NEW q \in Peer, Handle(p, q),
           NEW x \in Peer, NEW y \in refused[x], hostPeer'[x] = y
    PROVE  hostPeer[x] = y
<1>1. y \in Peer /\ hostPeer \in [Peer -> Peer \cup {NoPeer}]
  BY DEF Inv, TypeOK
<1>2. CASE RefuseHello(p, q) \/ IgnoreRefused(p, q) \/ ReceivePause(p, q)
           \/ ReceiveBuffering(p, q) \/ ReceivePeers(p, q)
  BY <1>2 DEF RefuseHello, IgnoreRefused, ReceivePause, ReceiveBuffering, ReceivePeers, roomVars
<1>3. CASE ReceiveHello(p, q)
  BY <1>1, <1>3 DEF ReceiveHello, Heeds
<1>4. CASE ReceiveMagnet(p, q)
  BY <1>1, <1>4 DEF ReceiveMagnet, Heeds
<1>5. CASE ReceiveHost(p, q)
  <2>1. Receives(p, q, "Host")
    BY <1>5 DEF ReceiveHost
  <2>2. Head(chan[q][p]).id = q
    BY <2>1, ReceiveIs
  <2>3. QED
    BY <1>1, <1>5, <2>2 DEF ReceiveHost, Heeds
<1>6. CASE ReceiveBye(p, q)
  <2> DEFINE left == roster[p] \ {q}
             winner == TakeoverWinner(p, left)
  <2>1. winner \in left \cup {p}
    <3>1. left \in SUBSET Peer
      BY DEF Inv, TypeOK
    <3> HIDE DEF left
    <3>2. QED
      BY <3>1, TakeoverWinnerIs
  <2>2. hostPeer' = [hostPeer EXCEPT ![p] = IF q = @ THEN winner ELSE @]
    BY <1>6 DEF ReceiveBye
  <2> HIDE DEF winner
  <2>3. Admits(p, p)
    <3>1. Speaks(p) \in Nat
      BY VersionAssumption DEF Speaks
    <3>2. QED
      BY <3>1 DEF Admits, Understands, ProtocolVersion
  <2>4. winner \notin refused[p]
    <3>1. winner \in Peer /\ (winner \in roster[p] \/ winner = p)
      BY <2>1 DEF Inv, TypeOK
    <3>2. Admits(p, winner)
      BY <2>3, <3>1 DEF Inv, AdmissionOK
    <3>3. QED
      BY <3>1, <3>2 DEF Inv, AdmissionOK
  <2>5. QED
    BY <1>1, <2>2, <2>4
<1>7. QED
  BY <1>2, <1>3, <1>4, <1>5, <1>6 DEF Handle

LEMMA NextMovesRole ==
    ASSUME Inv, [Next]_vars, NEW x \in Peer, NEW y \in refused[x], hostPeer'[x] = y
    PROVE  hostPeer[x] = y
<1>1. y \in Peer /\ hostPeer \in [Peer -> Peer \cup {NoPeer}] /\ NoPeer \notin Peer
  BY PeerAssumption DEF Inv, TypeOK, NoPeer
<1>2. CASE UNCHANGED hostPeer
  BY <1>2
<1>3. ASSUME NEW p \in Peer, Depart(p) PROVE hostPeer[x] = y
  <2>1. hostPeer' = [hostPeer EXCEPT ![p] = NoPeer]
    BY <1>3 DEF Depart
  <2>2. QED
    BY <1>1, <2>1
<1>4. ASSUME NEW p \in Peer,
             \/ DialInvited(p) \/ AnnounceMagnet(p) \/ PauseOrPlay(p) \/ SendReply(p)
             \/ \E b \in BOOLEAN : ReportBuffering(p, b)
      PROVE  UNCHANGED hostPeer
  BY <1>4 DEF DialInvited, AnnounceMagnet, PauseOrPlay, SendReply, ReportBuffering, roomVars
<1>5. ASSUME NEW p \in Peer, NEW q \in Peer,
             \/ Join(p, q) \/ HintedDial(p, q) \/ HintedDialFails(p, q)
             \/ Greet(p, q) \/ Cut(p, q) \/ Lose(p, q) \/ Notice(p, q)
      PROVE  UNCHANGED hostPeer
  BY <1>5 DEF Join, HintedDial, HintedDialFails, Greet, Cut, Lose, Notice, roomVars
<1>6. CASE UNCHANGED vars
  BY <1>2, <1>6 DEF vars, roomVars
<1>7. QED
  BY <1>2, <1>3, <1>4, <1>5, <1>6, ReceiveMovesRole DEF Next

\* A refused peer stays out of the roster and out of the host role from its
\* refusal on, whatever it sends and in whatever order (idea-0145).
THEOREM RefusalIsFinal == Spec => RefusalSticks
<1> DEFINE Kept == \A p \in Peer : \A q \in refused[p] :
                      /\ q \notin roster'[p]
                      /\ hostPeer'[p] = q => hostPeer[p] = q
<1>1. ASSUME Inv, Inv', [Next]_vars PROVE Kept
  <2>1. SUFFICES ASSUME NEW p \in Peer, NEW q \in refused[p]
                 PROVE  q \notin roster'[p] /\ (hostPeer'[p] = q => hostPeer[p] = q)
    OBVIOUS
  <2>2. q \in Peer /\ ~Admits(p, q)
    BY <1>1 DEF Inv, TypeOK, AdmissionOK
  <2>3. q \notin roster'[p]
    BY <1>1, <2>2 DEF Inv, AdmissionOK
  <2>4. QED
    BY <1>1, <2>3, NextMovesRole
<1>2. QED
  BY <1>1, Invariant, PTL DEF Spec, RefusalSticks

-----------------------------------------------------------------------------
(* A room where nothing goes wrong: who joins is told the film and meets   *)
(* everybody.  Peace is what such a room keeps until it has settled: every *)
(* greeting, film and book that somebody lacks is still on its way.        *)

Items(s)   == {s[i] : i \in 1..Len(s)}
Mail(q, p) == Items(chan[q][p])

\* Everybody joined with the creator's code, and no stream died.
LinksMet ==
    \A p \in Peer :
        /\ invite[p] \in {NoPeer, Creator} /\ invite[Creator] = NoPeer
        /\ p \notin hints[p] /\ link[p][p] = "none"
        /\ \A q \in Peer : link[p][q] # "down" /\ (link[p][q] = "none" => link[q][p] = "none")

\* What waits was written to a stream that still stands, the film and the claim by
\* the creator.
MailFrom ==
    \A p, q \in Peer : \A m \in Mail(q, p) :
        /\ link[q][p] # "none" /\ m # Bye
        /\ m.type \in {"Magnet", "Host"} => q = Creator
        /\ m.type = "Hello" => m = Hello(q)

\* Nobody is refused; the creator is the one host, followed by whoever knows it, and
\* the only one that answers.
OneRole ==
    \A p \in Peer :
        /\ refused[p] = {} /\ (isHost[p] <=> p = Creator)
        /\ hostPeer[p] \in {NoPeer, Creator} /\ hostPeer[Creator] = Creator
        /\ Creator \in roster[p] => hostPeer[p] = Creator
        /\ outbox[p] # <<>> => p = Creator
        /\ \A m \in Items(outbox[p]) : m.type # "Hello" /\ m # Bye

\* Whoever greeted is in the roster, or its greeting waits.
Greeted ==
    \A p, q \in Peer :
        /\ q \in roster[p] => link[q][p] # "none"
        /\ link[q][p] = "up" => q \in roster[p] \/ Hello(q) \in Mail(q, p)

\* Whoever greeted the creator was told the film, or the film waits, or the greeting
\* that will be answered with it, or the answer.
FilmOnItsWay ==
    magnet[Creator] => \A p \in Peer \ {Creator} : link[p][Creator] = "up" =>
        \/ offered[p] \/ MagnetMsg \in Mail(Creator, p) \/ Hello(p) \in Mail(p, Creator)
        \/ outbox[Creator] # <<>> /\ Head(outbox[Creator]) = MagnetMsg

\* Two have met, or one is dialling the other, or a book that names the other waits
\* or is still to be sent.
Introduced(p, q) ==
    \/ link[p][q] # "none" \/ q \in hints[p] \/ p \in hints[q]
    \/ \E m \in Mail(Creator, p) : m.type = "Peers" /\ q \in m.book
    \/ /\ outbox[Creator] # <<>>
       /\ \E m \in Message : /\ outbox[Creator][Len(outbox[Creator])] = m
                             /\ m.type = "Peers" /\ {p, q} \subseteq m.book

\* So it is with any two that the creator knows.
BookOnItsWay == \A p, q \in roster[Creator] : p # q => Introduced(p, q)

Peace == LinksMet /\ MailFrom /\ OneRole /\ Greeted /\ FilmOnItsWay /\ BookOnItsWay

\* A later state without disturbance has none before it.
LEMMA UndisturbedBefore ==
    ASSUME Inv, Inv', [Next]_vars, Undisturbed'
    PROVE  Undisturbed
<1>1. Live \subseteq Live' /\ gone = {}
  <2>1. \A p \in Peer : ~Depart(p)
    BY DEF Depart, Undisturbed
  <2>2. gone' = gone /\ \A p \in Peer : invite[p] # NoPeer => invite'[p] # NoPeer
    <3>1. CASE UNCHANGED <<gone, invite>>
      BY <3>1
    <3>2. ASSUME NEW p \in Peer, NEW h \in Peer, Join(p, h)
          PROVE  gone' = gone /\ \A x \in Peer : invite[x] # NoPeer => invite'[x] # NoPeer
      BY <3>2 DEF Inv, TypeOK, Join
    <3>3. ASSUME NEW p \in Peer,
                 \/ DialInvited(p) \/ AnnounceMagnet(p) \/ PauseOrPlay(p) \/ SendReply(p)
                 \/ \E b \in BOOLEAN : ReportBuffering(p, b)
          PROVE  UNCHANGED <<gone, invite>>
      BY <3>3 DEF DialInvited, AnnounceMagnet, PauseOrPlay, SendReply, ReportBuffering
    <3>4. ASSUME NEW p \in Peer, NEW q \in Peer,
                 \/ HintedDial(p, q) \/ HintedDialFails(p, q)
                 \/ Greet(p, q) \/ Cut(p, q) \/ Lose(p, q) \/ Notice(p, q)
          PROVE  UNCHANGED <<gone, invite>>
      BY <3>4 DEF HintedDial, HintedDialFails, Greet, Cut, Lose, Notice
    <3>5. ASSUME NEW p \in Peer, NEW q \in Peer, Handle(p, q)
          PROVE  UNCHANGED <<gone, invite>>
      BY <3>5 DEF Handle, RefuseHello, ReceiveHello, IgnoreRefused, ReceiveMagnet, ReceivePause,
                  ReceiveBuffering, ReceiveHost, ReceiveBye, ReceivePeers, Drop
    <3>6. CASE UNCHANGED vars
      BY <3>6 DEF vars, meshVars
    <3> QED BY <2>1, <3>1, <3>2, <3>3, <3>4, <3>5, <3>6 DEF Next
  <2> QED BY <2>2 DEF Live, Joined, Undisturbed
<1>2. spent.cuts = 0 /\ spent.failedDials = 0
  <2>1. spent \in Budget /\ spent' \in Budget
    BY DEF Inv, TypeOK, Budget
  <2>2. spent'.cuts = 0 /\ spent'.failedDials = 0
    BY DEF Undisturbed
  <2>3. CASE UNCHANGED spent
    BY <2>2, <2>3
  <2>4. spent' # [spent EXCEPT !.cuts = @ + 1] /\ spent' # [spent EXCEPT !.failedDials = @ + 1]
    BY <2>1, <2>2 DEF Budget
  <2>5. spent' = [spent EXCEPT !.gone = @ + 1] \/ spent' = [spent EXCEPT !.toggles = @ + 1]
        \/ spent' = [spent EXCEPT !.reports = @ + 1] =>
           spent'.cuts = spent.cuts /\ spent'.failedDials = spent.failedDials
    BY <2>1 DEF Budget
  <2>6. ASSUME NEW p \in Peer,
               \/ DialInvited(p) \/ Depart(p)
               \/ AnnounceMagnet(p) \/ PauseOrPlay(p) \/ SendReply(p)
               \/ \E b \in BOOLEAN : ReportBuffering(p, b)
        PROVE  UNCHANGED spent \/ spent' = [spent EXCEPT !.gone = @ + 1]
               \/ spent' = [spent EXCEPT !.toggles = @ + 1] \/ spent' = [spent EXCEPT !.reports = @ + 1]
    BY <2>6 DEF DialInvited, Depart, AnnounceMagnet, PauseOrPlay, SendReply, ReportBuffering
  <2>7. ASSUME NEW p \in Peer, NEW q \in Peer,
               \/ Join(p, q) \/ HintedDial(p, q) \/ HintedDialFails(p, q)
               \/ Greet(p, q) \/ Cut(p, q) \/ Lose(p, q) \/ Notice(p, q)
        PROVE  UNCHANGED spent
    BY <2>4, <2>7 DEF Join, HintedDial, HintedDialFails, Greet, Cut, Lose, Notice
  <2>8. ASSUME NEW p \in Peer, NEW q \in Peer, Handle(p, q)
        PROVE  UNCHANGED spent
    BY <2>8 DEF Handle, RefuseHello, ReceiveHello, IgnoreRefused, ReceiveMagnet, ReceivePause,
                ReceiveBuffering, ReceiveHost, ReceiveBye, ReceivePeers, Drop
  <2>9. CASE UNCHANGED vars
    BY <2>3, <2>9 DEF vars
  <2> QED BY <2>2, <2>3, <2>5, <2>6, <2>7, <2>8, <2>9 DEF Next
<1> QED BY <1>1, <1>2 DEF Undisturbed

LEMMA ItemsOfAppend ==
    ASSUME NEW s \in Seq(Message), NEW m \in Message
    PROVE  Items(Append(s, m)) = Items(s) \cup {m}
<1>1. /\ Append(s, m) \in Seq(Message) /\ Len(Append(s, m)) = Len(s) + 1 /\ Len(s) \in Nat
      /\ Append(s, m)[Len(s) + 1] = m /\ \A i \in 1..Len(s) : Append(s, m)[i] = s[i]
  OBVIOUS
<1>2. ASSUME NEW x \in Items(Append(s, m)) PROVE x \in Items(s) \cup {m}
  <2>1. PICK i \in 1..(Len(s) + 1) : x = Append(s, m)[i]
    BY <1>1, <1>2 DEF Items
  <2>2. i \in 1..Len(s) \/ i = Len(s) + 1
    BY <1>1
  <2> QED BY <1>1, <2>1, <2>2 DEF Items
<1>3. ASSUME NEW x \in Items(s) PROVE x \in Items(Append(s, m))
  <2>1. PICK i \in 1..Len(s) : x = s[i]
    BY <1>3 DEF Items
  <2>2. i \in 1..Len(Append(s, m)) /\ x = Append(s, m)[i]
    BY <1>1, <2>1
  <2> QED BY <2>2 DEF Items
<1>4. m \in Items(Append(s, m))
  <2>1. Len(s) + 1 \in 1..Len(Append(s, m))
    BY <1>1
  <2> QED BY <1>1, <2>1 DEF Items
<1> QED BY <1>2, <1>3, <1>4

LEMMA ItemsOfTail ==
    ASSUME NEW s \in Seq(Message), s # <<>>
    PROVE  /\ Head(s) \in Items(s) /\ Head(s) \in Message /\ Tail(s) \in Seq(Message)
           /\ Items(Tail(s)) \subseteq Items(s) /\ Items(s) \subseteq Items(Tail(s)) \cup {Head(s)}
<1>1. /\ Tail(s) \in Seq(Message) /\ Len(Tail(s)) = Len(s) - 1 /\ Len(s) \in Nat \ {0}
      /\ Head(s) = s[1] /\ Head(s) \in Message /\ \A i \in 1..(Len(s) - 1) : Tail(s)[i] = s[i + 1]
  OBVIOUS
<1>2. Head(s) \in Items(s)
  <2>1. 1 \in 1..Len(s)
    BY <1>1
  <2> QED BY <1>1, <2>1 DEF Items
<1>3. ASSUME NEW x \in Items(Tail(s)) PROVE x \in Items(s)
  <2>1. PICK i \in 1..(Len(s) - 1) : x = s[i + 1]
    BY <1>1, <1>3 DEF Items
  <2>2. i + 1 \in 1..Len(s)
    BY <1>1
  <2> QED BY <2>1, <2>2 DEF Items
<1>4. ASSUME NEW x \in Items(s) PROVE x \in Items(Tail(s)) \cup {Head(s)}
  <2>1. PICK i \in 1..Len(s) : x = s[i]
    BY <1>4 DEF Items
  <2>2. CASE i = 1
    BY <1>1, <2>1, <2>2
  <2>3. CASE i # 1
    <3>1. i - 1 \in 1..(Len(s) - 1) /\ (i - 1) + 1 = i
      BY <1>1, <2>3
    <3>2. i - 1 \in 1..Len(Tail(s)) /\ x = Tail(s)[i - 1]
      BY <1>1, <2>1, <3>1
    <3> QED BY <3>2 DEF Items
  <2> QED BY <2>2, <2>3
<1> QED BY <1>1, <1>2, <1>3, <1>4

\* What a delivery puts on its way.
LEMMA SentMail ==
    ASSUME TypeOK, NEW p \in Peer, NEW msg \in Message, NEW to,
           chan' = Delivered(chan, p, msg, to)
    PROVE  \A x, y \in Peer :
              Mail(x, y)' = IF x = p /\ y \in to THEN Mail(x, y) \cup {msg} ELSE Mail(x, y)
<1>1. chan \in Channels
  BY DEF TypeOK, Channels
<1>2. TAKE x \in Peer, y \in Peer
<1>3. chan'[x][y] = IF x = p /\ y \in to THEN Append(chan[x][y], msg) ELSE chan[x][y]
  BY <1>1, DeliveredIs
<1>4. chan[x][y] \in Seq(Message)
  BY <1>1 DEF Channels
<1>5. Items(Append(chan[x][y], msg)) = Items(chan[x][y]) \cup {msg}
  BY <1>4, ItemsOfAppend
<1>6. Mail(x, y)' = Items(chan'[x][y]) /\ Mail(x, y) = Items(chan[x][y])
  BY DEF Mail, Items
<1> QED BY <1>3, <1>5, <1>6

\* What a read takes off it.
LEMMA ReadMail ==
    ASSUME TypeOK, NEW p \in Peer, NEW q \in Peer, chan[q][p] # <<>>, chan' = Consumed(p, q)
    PROVE  /\ Head(chan[q][p]) \in Mail(q, p) /\ Head(chan[q][p]) \in Message
           /\ \A x, y \in Peer :
                 /\ Mail(x, y)' \subseteq Mail(x, y)
                 /\ Mail(x, y) \subseteq Mail(x, y)' \cup {Head(chan[q][p])}
                 /\ ~(x = q /\ y = p) => Mail(x, y)' = Mail(x, y)
<1>1. \A x, y \in Peer : chan'[x][y] = IF x = q /\ y = p THEN Tail(chan[x][y]) ELSE chan[x][y]
  BY ConsumedIs
<1>2. chan[q][p] \in Seq(Message)
  BY DEF TypeOK
<1>3. /\ Head(chan[q][p]) \in Items(chan[q][p]) /\ Head(chan[q][p]) \in Message
      /\ Items(Tail(chan[q][p])) \subseteq Items(chan[q][p])
      /\ Items(chan[q][p]) \subseteq Items(Tail(chan[q][p])) \cup {Head(chan[q][p])}
  BY <1>2, ItemsOfTail
<1>4. \A x, y \in Peer : Mail(x, y)' = Items(chan'[x][y]) /\ Mail(x, y) = Items(chan[x][y])
  BY DEF Mail, Items
<1> QED BY <1>1, <1>3, <1>4

\* In such a room a broadcast reaches everybody met.
LEMMA BroadcastMail ==
    ASSUME Inv, LinksMet, NEW p \in Peer, NEW msg \in Message, Broadcast(p, msg)
    PROVE  \A x, y \in Peer : Mail(x, y)' = IF x = p /\ link[p][y] # "none"
                                            THEN Mail(x, y) \cup {msg} ELSE Mail(x, y)
<1>1. TypeOK
  BY DEF Inv
<1>2. Recipients(p) = {Connected(p)}
  BY DEF Recipients, LinksMet
<1>3. chan' = Delivered(chan, p, msg, Connected(p))
  BY <1>2 DEF Broadcast
<1>4. \A y \in Peer : y \in Connected(p) <=> link[p][y] # "none"
  BY <1>1 DEF Connected, LinksMet, TypeOK, LinkStatus
<1>5. \A x, y \in Peer :
         Mail(x, y)' = IF x = p /\ y \in Connected(p) THEN Mail(x, y) \cup {msg} ELSE Mail(x, y)
  BY <1>1, <1>3, SentMail
<1> QED BY <1>4, <1>5

LEMMA MailUnchanged == ASSUME UNCHANGED chan PROVE \A x, y \in Peer : Mail(x, y)' = Mail(x, y)
BY DEF Mail, Items

\* Who was met is in the room, and met whom it met.
LEMMA MetIs ==
    ASSUME Inv, LinksMet, NEW p \in Peer, NEW q \in Peer, link[p][q] # "none"
    PROVE  link[q][p] # "none" /\ p # q /\ p \in Live /\ q \in Live
BY DEF Inv, LinksMet, AbsentOK

\* A peer that joins with a code the host shows joins the creator.
LEMMA JoinPeace ==
    ASSUME Inv, Peace, NEW p \in Peer, NEW h \in Peer, Join(p, h)
    PROVE  Peace'
<1>1. h = Creator /\ p # Creator
  BY DEF Join, Peace, OneRole
<1>2. /\ \A x \in Peer : invite'[x] = IF x = p THEN h ELSE invite[x]
      /\ UNCHANGED <<link, hints, chan, outbox, roster, refused, hostPeer, isHost, magnet, offered>>
  BY DEF Join, Inv, TypeOK, roomVars
<1>3. LinksMet'
  BY <1>1, <1>2 DEF Peace, LinksMet
<1>4. \A x, y \in Peer : Mail(x, y)' = Mail(x, y)
  BY <1>2, MailUnchanged
<1>5. MailFrom'
  BY <1>2, <1>4 DEF Peace, MailFrom, Hello, Bye
<1>6. OneRole'
  BY <1>2 DEF Peace, OneRole, Items, Bye
<1>7. Greeted'
  BY <1>2, <1>4 DEF Peace, Greeted, Hello
<1>8. FilmOnItsWay'
  BY <1>2, <1>4, PeerAssumption DEF Peace, FilmOnItsWay, Hello, MagnetMsg
<1>9. BookOnItsWay'
  <2> SUFFICES ASSUME NEW x \in roster'[Creator], NEW y \in roster'[Creator], x # y
               PROVE  Introduced(x, y)'
    BY DEF BookOnItsWay
  <2>1. x \in Peer /\ y \in Peer /\ Introduced(x, y)
    BY <1>2, PeerAssumption DEF Inv, TypeOK, Peace, BookOnItsWay
  <2> QED BY <1>2, <1>4, <2>1, PeerAssumption DEF Introduced
<1> QED BY <1>3, <1>5, <1>6, <1>7, <1>8, <1>9 DEF Peace

\* Two strangers meet, whichever dial it came of.
LEMMA MeetsPeace ==
    ASSUME Inv, Peace, NEW p \in Peer, NEW q \in Peer, p # q, Meets(p, q),
           \A x, y \in Peer : y \in hints'[x] <=> y \in hints[x] /\ ~(x = p /\ y = q /\ hints' # hints),
           UNCHANGED <<gone, invite, chan, roomVars>>
    PROVE  Peace'
<1>1. \A x, y \in Peer :
        link'[x][y] = IF (x = p /\ y = q) \/ (x = q /\ y = p) THEN "new" ELSE link[x][y]
  BY DEF Inv, TypeOK, Meets
<1>2. UNCHANGED <<outbox, roster, refused, hostPeer, isHost, magnet, offered>>
  BY DEF roomVars
<1>3. LinksMet'
  BY <1>1 DEF Peace, LinksMet
<1>4. \A x, y \in Peer : Mail(x, y)' = Mail(x, y)
  BY MailUnchanged
<1>5. MailFrom'
  BY <1>1, <1>2, <1>4 DEF Peace, MailFrom, Hello, Bye
<1>6. OneRole'
  BY <1>2 DEF Peace, OneRole, Items, Bye
<1>7. Greeted'
  BY <1>1, <1>2, <1>4 DEF Peace, Greeted, Hello
<1>8. FilmOnItsWay'
  BY <1>1, <1>2, <1>4, PeerAssumption DEF Peace, FilmOnItsWay, Hello, MagnetMsg
<1>9. BookOnItsWay'
  <2> SUFFICES ASSUME NEW x \in roster'[Creator], NEW y \in roster'[Creator], x # y
               PROVE  Introduced(x, y)'
    BY DEF BookOnItsWay
  <2>1. x \in Peer /\ y \in Peer /\ Introduced(x, y)
    BY <1>2, PeerAssumption DEF Inv, TypeOK, Peace, BookOnItsWay
  <2> QED BY <1>1, <1>2, <1>4, <2>1, PeerAssumption DEF Introduced
<1> QED BY <1>3, <1>5, <1>6, <1>7, <1>8, <1>9 DEF Peace

LEMMA DialInvitedPeace == ASSUME Inv, Peace, NEW p \in Peer, DialInvited(p) PROVE Peace'
<1>1. invite[p] \in Peer /\ invite[p] # p
  BY DEF DialInvited, Inv, TypeOK, Peace, LinksMet
<1>2. Meets(p, invite[p]) /\ UNCHANGED <<gone, invite, chan, hints, roomVars>>
  BY DEF DialInvited
<1> QED BY <1>1, <1>2, MeetsPeace

\* A flight that ends leaves the two met, or named somebody who is not there.
LEMMA FlightEndsPeace ==
    ASSUME Inv, Peace, NEW p \in Peer, NEW q \in Peer,
           link[p][q] # "none" \/ q \notin Live,
           hints' = [hints EXCEPT ![p] = @ \ {q}],
           UNCHANGED <<gone, invite, link, chan, roomVars>>
    PROVE  Peace'
<1>1. \A x, y \in Peer : y \in hints'[x] <=> y \in hints[x] /\ ~(x = p /\ y = q)
  BY DEF Inv, TypeOK
<1>2. UNCHANGED <<outbox, roster, refused, hostPeer, isHost, magnet, offered>>
  BY DEF roomVars
<1>3. LinksMet'
  BY <1>1 DEF Peace, LinksMet
<1>4. \A x, y \in Peer : Mail(x, y)' = Mail(x, y)
  BY MailUnchanged
<1>5. MailFrom'
  BY <1>2, <1>4 DEF Peace, MailFrom, Hello, Bye
<1>6. OneRole'
  BY <1>2 DEF Peace, OneRole, Items, Bye
<1>7. Greeted'
  BY <1>2, <1>4 DEF Peace, Greeted, Hello
<1>8. FilmOnItsWay'
  BY <1>2, <1>4, PeerAssumption DEF Peace, FilmOnItsWay, Hello, MagnetMsg
<1>9. BookOnItsWay'
  <2> SUFFICES ASSUME NEW x \in roster'[Creator], NEW y \in roster'[Creator], x # y
               PROVE  Introduced(x, y)'
    BY DEF BookOnItsWay
  <2>1. x \in Peer /\ y \in Peer /\ Introduced(x, y)
    BY <1>2, PeerAssumption DEF Inv, TypeOK, Peace, BookOnItsWay
  <2>2. x \in Live /\ y \in Live
    BY <1>2, <2>1, PeerAssumption DEF Inv, AbsentOK, Peace, Greeted
  <2>3. CASE link[x][y] # "none"
    BY <2>3 DEF Introduced
  <2>4. CASE link[x][y] = "none"
    <3>1. ~(x = p /\ y = q) /\ ~(x = q /\ y = p)
      BY <2>1, <2>2, <2>4 DEF Peace, LinksMet
    <3> QED BY <1>1, <1>2, <1>4, <2>1, <3>1, PeerAssumption DEF Introduced
  <2> QED BY <2>3, <2>4
<1> QED BY <1>3, <1>5, <1>6, <1>7, <1>8, <1>9 DEF Peace

LEMMA HintedDialPeace ==
    ASSUME Inv, Peace, NEW p \in Peer, NEW q \in Peer, HintedDial(p, q)
    PROVE  Peace'
<1>1. p # q
  BY DEF HintedDial, Peace, LinksMet
<1>2. CASE Meets(p, q)
  <2>1. hints' # hints
    BY DEF HintedDial, Inv, TypeOK
  <2>2. \A x, y \in Peer : y \in hints'[x] <=> y \in hints[x] /\ ~(x = p /\ y = q /\ hints' # hints)
    BY <2>1 DEF HintedDial, Inv, TypeOK
  <2> QED BY <1>1, <1>2, <2>2, MeetsPeace DEF HintedDial
<1>3. CASE link[p][q] # "none" /\ UNCHANGED link
  BY <1>3, FlightEndsPeace DEF HintedDial
<1> QED BY <1>2, <1>3 DEF HintedDial

LEMMA HintedDialFailsPeace ==
    ASSUME Inv, Peace, Undisturbed', NEW p \in Peer, NEW q \in Peer, HintedDialFails(p, q)
    PROVE  Peace'
<1>1. q \notin Live
  <2>1. spent' # [spent EXCEPT !.failedDials = @ + 1]
    BY DEF Inv, TypeOK, Undisturbed
  <2> QED BY <2>1 DEF HintedDialFails
<1> QED BY <1>1, FlightEndsPeace DEF HintedDialFails

\* The greeting is on its way the moment the stream is up.
LEMMA GreetPeace ==
    ASSUME Inv, Peace, NEW p \in Peer, NEW q \in Peer, Greet(p, q)
    PROVE  Peace'
<1>1. \A x, y \in Peer : link'[x][y] = IF x = p /\ y = q THEN "up" ELSE link[x][y]
  BY DEF Inv, TypeOK, Greet
<1>2. UNCHANGED <<invite, hints, outbox, roster, refused, hostPeer, isHost, magnet, offered>>
  BY DEF Greet, roomVars
<1>3. link[p][q] = "new"
  BY DEF Greet
<1>4. \A x, y \in Peer :
         Mail(x, y)' = IF x = p /\ y = q THEN Mail(x, y) \cup {Hello(p)} ELSE Mail(x, y)
  <2>1. TypeOK /\ Hello(p) \in Message /\ chan' = Delivered(chan, p, Hello(p), {q})
    BY MessagesTyped DEF Inv, Greet
  <2>2. \A x, y \in Peer : Mail(x, y)' =
           IF x = p /\ y \in {q} THEN Mail(x, y) \cup {Hello(p)} ELSE Mail(x, y)
    BY <2>1, SentMail
  <2> QED BY <2>2
<1>5. LinksMet'
  BY <1>1, <1>2, <1>3 DEF Peace, LinksMet
<1>6. MailFrom'
  <2> SUFFICES ASSUME NEW x \in Peer, NEW y \in Peer, NEW m \in Mail(y, x)'
               PROVE  /\ link'[y][x] # "none" /\ m # Bye
                      /\ m.type \in {"Magnet", "Host"} => y = Creator
                      /\ m.type = "Hello" => m = Hello(y)
    BY DEF MailFrom, Bye, Hello
  <2>1. CASE m \in Mail(y, x)
    BY <1>1, <2>1 DEF Peace, MailFrom
  <2>2. CASE m = Hello(p) /\ y = p /\ x = q
    BY <1>1, <2>2 DEF Hello, Bye
  <2> QED BY <1>4, <2>1, <2>2
<1>7. OneRole'
  BY <1>2 DEF Peace, OneRole, Items, Bye
<1>8. Greeted'
  <2> SUFFICES ASSUME NEW x \in Peer, NEW y \in Peer
               PROVE  /\ y \in roster'[x] => link'[y][x] # "none"
                      /\ link'[y][x] = "up" => y \in roster'[x] \/ Hello(y) \in Mail(y, x)'
    BY DEF Greeted, Hello
  <2> QED BY <1>1, <1>2, <1>4 DEF Peace, Greeted
<1>9. FilmOnItsWay'
  <2> SUFFICES ASSUME magnet[Creator], NEW x \in Peer \ {Creator}, link'[x][Creator] = "up"
               PROVE  \/ offered[x] \/ MagnetMsg \in Mail(Creator, x)'
                      \/ Hello(x) \in Mail(x, Creator)'
                      \/ outbox[Creator] # <<>> /\ Head(outbox[Creator]) = MagnetMsg
    BY <1>2 DEF FilmOnItsWay, Hello, MagnetMsg
  <2> QED BY <1>1, <1>4, PeerAssumption DEF Peace, FilmOnItsWay
<1>10. BookOnItsWay'
  <2> SUFFICES ASSUME NEW x \in roster'[Creator], NEW y \in roster'[Creator], x # y
               PROVE  Introduced(x, y)'
    BY DEF BookOnItsWay
  <2>1. x \in Peer /\ y \in Peer /\ Introduced(x, y)
    BY <1>2, PeerAssumption DEF Inv, TypeOK, Peace, BookOnItsWay
  <2>2. Mail(Creator, x) \subseteq Mail(Creator, x)'
    BY <1>4, <2>1, PeerAssumption
  <2> QED BY <1>1, <1>2, <2>1, <2>2, PeerAssumption DEF Introduced
<1> QED BY <1>5, <1>6, <1>7, <1>8, <1>9, <1>10 DEF Peace

\* A broadcast of the window's: the film by the creator, or what nobody's peace rests on.
LEMMA SpeakPeace ==
    ASSUME Inv, Peace, NEW p \in Peer, NEW msg \in Message, Broadcast(p, msg),
           msg.type \in {"Magnet", "Pause", "Buffering"},
           msg.type = "Magnet" => p = Creator /\ msg = MagnetMsg,
           magnet' = magnet \/ msg = MagnetMsg,
           UNCHANGED <<invite, link, hints, outbox, roster, refused, hostPeer, isHost, offered>>
    PROVE  Peace'
<1>1. \A x, y \in Peer : Mail(x, y)' = IF x = p /\ link[p][y] # "none"
                                       THEN Mail(x, y) \cup {msg} ELSE Mail(x, y)
  BY BroadcastMail DEF Peace
<1>2. \A x, y \in Peer : Mail(x, y) \subseteq Mail(x, y)'
  BY <1>1
<1>3. LinksMet'
  BY DEF Peace, LinksMet
<1>4. MailFrom'
  <2> SUFFICES ASSUME NEW x \in Peer, NEW y \in Peer, NEW m \in Mail(y, x)'
               PROVE  /\ link'[y][x] # "none" /\ m # Bye
                      /\ m.type \in {"Magnet", "Host"} => y = Creator
                      /\ m.type = "Hello" => m = Hello(y)
    BY DEF MailFrom, Bye, Hello
  <2>1. CASE m \in Mail(y, x)
    BY <2>1 DEF Peace, MailFrom
  <2>2. CASE m = msg /\ y = p /\ link[p][x] # "none"
    BY <2>2 DEF Bye
  <2> QED BY <1>1, <2>1, <2>2
<1>5. OneRole'
  BY DEF Peace, OneRole, Items, Bye
<1>6. Greeted'
  <2> SUFFICES ASSUME NEW x \in Peer, NEW y \in Peer
               PROVE  /\ y \in roster'[x] => link'[y][x] # "none"
                      /\ link'[y][x] = "up" => y \in roster'[x] \/ Hello(y) \in Mail(y, x)'
    BY DEF Greeted, Hello
  <2> QED BY <1>2 DEF Peace, Greeted
<1>7. FilmOnItsWay'
  <2> SUFFICES ASSUME magnet'[Creator], NEW x \in Peer \ {Creator}, link[x][Creator] = "up"
               PROVE  \/ offered[x] \/ MagnetMsg \in Mail(Creator, x)'
                      \/ Hello(x) \in Mail(x, Creator)'
                      \/ outbox[Creator] # <<>> /\ Head(outbox[Creator]) = MagnetMsg
    BY DEF FilmOnItsWay, Hello, MagnetMsg
  <2>1. CASE magnet' = magnet
    BY <1>2, <2>1, PeerAssumption DEF Peace, FilmOnItsWay
  <2>2. CASE msg = MagnetMsg
    <3>1. p = Creator /\ link[Creator][x] # "none"
      BY <2>2, PeerAssumption DEF MagnetMsg, Peace, LinksMet
    <3> QED BY <1>1, <2>2, <3>1
  <2> QED BY <2>1, <2>2
<1>8. BookOnItsWay'
  <2> SUFFICES ASSUME NEW x \in roster'[Creator], NEW y \in roster'[Creator], x # y
               PROVE  Introduced(x, y)'
    BY DEF BookOnItsWay
  <2>1. x \in Peer /\ y \in Peer /\ Introduced(x, y)
    BY PeerAssumption DEF Inv, TypeOK, Peace, BookOnItsWay
  <2>2. Mail(Creator, x) \subseteq Mail(Creator, x)'
    BY <1>2, <2>1, PeerAssumption
  <2> QED BY <2>1, <2>2, PeerAssumption DEF Introduced
<1> QED BY <1>3, <1>4, <1>5, <1>6, <1>7, <1>8 DEF Peace

LEMMA AnnouncePeace == ASSUME Inv, Peace, NEW p \in Peer, AnnounceMagnet(p) PROVE Peace'
<1>1. MagnetMsg \in Message /\ MagnetMsg.type = "Magnet"
  BY MessagesTyped DEF MagnetMsg
<1> QED BY <1>1, SpeakPeace DEF AnnounceMagnet

LEMMA PauseOrPlayPeace == ASSUME Inv, Peace, NEW p \in Peer, PauseOrPlay(p) PROVE Peace'
<1>1. play'[p] \in {"playing", "paused"}
  BY DEF Inv, TypeOK, PauseOrPlay
<1>2. Pause(play'[p]) \in Message /\ Pause(play'[p]).type = "Pause"
  BY <1>1, MessagesTyped DEF Pause
<1> QED BY <1>2, SpeakPeace DEF PauseOrPlay

LEMMA ReportPeace ==
    ASSUME Inv, Peace, NEW p \in Peer, NEW b \in BOOLEAN, ReportBuffering(p, b)
    PROVE  Peace'
<1>1. Buffering(b) \in Message /\ Buffering(b).type = "Buffering"
  BY MessagesTyped DEF Buffering
<1> QED BY <1>1, SpeakPeace DEF ReportBuffering, roomVars

\* What is left of an answer whose first message went out.
Resolved(rest, state) ==
    IF rest = <<>> \/ rest[1] # PlayStateHere THEN rest
    ELSE IF state = "unknown" THEN Tail(rest) ELSE <<Pause(state)>> \o Tail(rest)

LEMMA TailOf ==
    ASSUME NEW s \in Seq(Message), s # <<>>
    PROVE  /\ Tail(s) \in Seq(Message) /\ Head(s) = s[1]
           /\ Tail(s) = <<>> => s[Len(s)] = s[1]
           /\ Tail(s) # <<>> => Tail(s)[Len(Tail(s))] = s[Len(s)]
<1>1. /\ Tail(s) \in Seq(Message) /\ Head(s) = s[1] /\ Len(s) \in Nat \ {0}
      /\ Len(Tail(s)) = Len(s) - 1 /\ \A i \in 1..(Len(s) - 1) : Tail(s)[i] = s[i + 1]
  OBVIOUS
<1>2. ASSUME Tail(s) = <<>> PROVE s[Len(s)] = s[1]
  <2> DEFINE rest == Tail(s)
  <2>1. rest = <<>> /\ Len(rest) = Len(s) - 1
    BY <1>1, <1>2
  <2> HIDE DEF rest
  <2>2. Len(s) - 1 = 0
    BY <2>1
  <2>3. Len(s) = 1
    BY <2>2
  <2> QED BY <2>3
<1>3. ASSUME Tail(s) # <<>> PROVE Tail(s)[Len(Tail(s))] = s[Len(s)]
  <2>1. Len(Tail(s)) # 0
    BY <1>1, <1>3
  <2>2. Len(s) - 1 \in 1..(Len(s) - 1) /\ (Len(s) - 1) + 1 = Len(s)
    BY <1>1, <2>1
  <2> QED BY <1>1, <2>2
<1> QED BY <1>1, <1>2, <1>3

LEMMA ResolvedIs ==
    ASSUME NEW s \in Seq(Message), s # <<>>, NEW state \in PlayState,
           \A m \in Items(s) : m.type # "Hello" /\ m # Bye
    PROVE  /\ \A m \in Items(Resolved(Tail(s), state)) : m.type # "Hello" /\ m # Bye
           /\ \A m \in Message :
                s[Len(s)] = m /\ m.type = "Peers" =>
                   \/ Head(s) = m
                   \/ /\ Resolved(Tail(s), state) # <<>>
                      /\ Resolved(Tail(s), state)[Len(Resolved(Tail(s), state))] = m
<1> DEFINE rest == Tail(s)
<1>1. /\ rest \in Seq(Message) /\ Items(rest) \subseteq Items(s)
      /\ Head(s) = s[1]
      /\ rest = <<>> => s[Len(s)] = s[1]
      /\ rest # <<>> => rest[Len(rest)] = s[Len(s)]
  BY ItemsOfTail, TailOf
<1> HIDE DEF rest
<1>2. CASE rest = <<>> \/ rest[1] # PlayStateHere
  <2>1. Resolved(rest, state) = rest
    BY <1>2 DEF Resolved
  <2> QED BY <1>1, <2>1 DEF rest
<1>3. CASE rest # <<>> /\ rest[1] = PlayStateHere
  <2> DEFINE later == Tail(rest)
  <2>1. /\ later \in Seq(Message) /\ Items(later) \subseteq Items(rest)
        /\ later = <<>> => rest[Len(rest)] = rest[1]
        /\ later # <<>> => later[Len(later)] = rest[Len(rest)]
    BY <1>1, <1>3, ItemsOfTail, TailOf
  <2> HIDE DEF later
  <2>2. \A m \in Message : s[Len(s)] = m /\ m.type = "Peers" => later # <<>> /\ later[Len(later)] = m
    BY <1>1, <1>3, <2>1 DEF PlayStateHere
  <2>3. CASE state = "unknown"
    <3>1. Resolved(rest, state) = later
      BY <1>3, <2>3 DEF Resolved, later
    <3> QED BY <1>1, <2>1, <2>2, <3>1 DEF rest
  <2>4. CASE state # "unknown"
    <3>1. Pause(state) \in Message /\ Pause(state).type = "Pause"
      BY <2>4, MessagesTyped DEF PlayState, Pause
    <3> DEFINE full == <<Pause(state)>> \o later
    <3>2. Resolved(rest, state) = full
      BY <1>3, <2>4 DEF Resolved, later
    <3>3. /\ Len(full) = Len(later) + 1 /\ full[1] = Pause(state) /\ full # <<>>
          /\ \A i \in 2..Len(full) : full[i] = later[i - 1]
          /\ Len(later) \in Nat
      BY <2>1, <3>1
    <3> HIDE DEF full
    <3>4. \A m \in Items(full) : m.type # "Hello" /\ m # Bye
      <4> SUFFICES ASSUME NEW i \in 1..Len(full)
                   PROVE  full[i].type # "Hello" /\ full[i] # Bye
        BY DEF Items
      <4>1. CASE i = 1
        BY <3>1, <3>3, <4>1 DEF Bye
      <4>2. CASE i # 1
        <5>1. i \in 2..Len(full) /\ i - 1 \in 1..Len(later) /\ full[i] = later[i - 1]
          BY <3>3, <4>2
        <5>2. full[i] \in Items(s)
          BY <1>1, <2>1, <5>1 DEF Items
        <5> QED BY <5>2
      <4> QED BY <4>1, <4>2
    <3>5. \A m \in Message : s[Len(s)] = m /\ m.type = "Peers" => full[Len(full)] = m
      <4> SUFFICES ASSUME NEW m \in Message, s[Len(s)] = m, m.type = "Peers"
                   PROVE  full[Len(full)] = m
        OBVIOUS
      <4>1. later # <<>> /\ later[Len(later)] = m /\ Len(later) > 0
        BY <2>1, <2>2
      <4>2. Len(full) \in 2..Len(full) /\ Len(full) - 1 = Len(later)
        BY <3>3, <4>1
      <4> QED BY <3>3, <4>1, <4>2
    <3> QED BY <3>2, <3>3, <3>4, <3>5 DEF rest
  <2> QED BY <2>3, <2>4
<1> QED BY <1>2, <1>3

\* The answer goes out piece by piece: the film reaches everybody met, and so does
\* the book, which is its last piece.
LEMMA SendReplyPeace == ASSUME Inv, Peace, NEW p \in Peer, SendReply(p) PROVE Peace'
<1> DEFINE s == outbox[p]
           msg == Head(s)
           left == Resolved(Tail(s), play[p])
<1>1. p = Creator /\ s # <<>> /\ s \in Seq(Message) /\ play[p] \in PlayState
  BY DEF SendReply, Peace, OneRole, Inv, TypeOK
<1>2. /\ Broadcast(p, msg) /\ outbox' = [outbox EXCEPT ![p] = left]
      /\ UNCHANGED <<invite, link, hints, roster, refused, hostPeer, isHost, magnet, offered>>
  BY DEF SendReply, Resolved
<1>3. msg \in Message /\ msg \in Items(s) /\ msg = s[1] /\ msg.type # "Hello" /\ msg # Bye
  BY <1>1, ItemsOfTail, TailOf DEF Peace, OneRole
<1>4. /\ \A m \in Items(left) : m.type # "Hello" /\ m # Bye
      /\ \A m \in Message : s[Len(s)] = m /\ m.type = "Peers" =>
            msg = m \/ (left # <<>> /\ left[Len(left)] = m)
  <2>1. \A m \in Items(s) : m.type # "Hello" /\ m # Bye
    BY <1>1 DEF Peace, OneRole
  <2> QED BY <1>1, <2>1, ResolvedIs
<1> HIDE DEF msg, left
<1>5. outbox'[Creator] = left /\ \A x \in Peer : x # Creator => outbox'[x] = outbox[x]
  BY <1>1, <1>2 DEF Inv, TypeOK
<1>6. \A x, y \in Peer : Mail(x, y)' = IF x = p /\ link[p][y] # "none"
                                       THEN Mail(x, y) \cup {msg} ELSE Mail(x, y)
  BY <1>2, <1>3, BroadcastMail DEF Peace
<1>7. \A x, y \in Peer : Mail(x, y) \subseteq Mail(x, y)'
  BY <1>6
<1>8. LinksMet'
  BY <1>2 DEF Peace, LinksMet
<1>9. MailFrom'
  <2> SUFFICES ASSUME NEW x \in Peer, NEW y \in Peer, NEW m \in Mail(y, x)'
               PROVE  /\ link'[y][x] # "none" /\ m # Bye
                      /\ m.type \in {"Magnet", "Host"} => y = Creator
                      /\ m.type = "Hello" => m = Hello(y)
    BY DEF MailFrom, Bye, Hello
  <2>1. CASE m \in Mail(y, x)
    BY <1>2, <2>1 DEF Peace, MailFrom
  <2>2. CASE m = msg /\ y = p /\ link[p][x] # "none"
    BY <1>1, <1>2, <1>3, <2>2
  <2> QED BY <1>6, <2>1, <2>2
<1>10. OneRole'
  <2>1. \A x \in Peer : /\ refused'[x] = {} /\ (isHost'[x] <=> x = Creator)
                        /\ hostPeer'[x] \in {NoPeer, Creator} /\ hostPeer'[Creator] = Creator
                        /\ Creator \in roster'[x] => hostPeer'[x] = Creator
    BY <1>2 DEF Peace, OneRole
  <2>2. \A x \in Peer : /\ outbox'[x] # <<>> => x = Creator
                        /\ \A m \in Items(outbox'[x]) : m.type # "Hello" /\ m # Bye
    BY <1>4, <1>5 DEF Peace, OneRole
  <2> QED BY <2>1, <2>2 DEF OneRole, Items, Bye
<1>11. Greeted'
  <2> SUFFICES ASSUME NEW x \in Peer, NEW y \in Peer
               PROVE  /\ y \in roster'[x] => link'[y][x] # "none"
                      /\ link'[y][x] = "up" => y \in roster'[x] \/ Hello(y) \in Mail(y, x)'
    BY DEF Greeted, Hello
  <2> QED BY <1>2, <1>7 DEF Peace, Greeted
<1>12. FilmOnItsWay'
  <2> SUFFICES ASSUME magnet[Creator], NEW x \in Peer \ {Creator}, link[x][Creator] = "up"
               PROVE  \/ offered[x] \/ MagnetMsg \in Mail(Creator, x)'
                      \/ Hello(x) \in Mail(x, Creator)'
    BY <1>2 DEF FilmOnItsWay, Hello, MagnetMsg
  <2>1. \/ offered[x] \/ MagnetMsg \in Mail(Creator, x) \/ Hello(x) \in Mail(x, Creator)
        \/ msg = MagnetMsg
    BY <1>1 DEF Peace, FilmOnItsWay, msg
  <2>2. CASE msg = MagnetMsg
    <3>1. link[Creator][x] # "none"
      BY PeerAssumption DEF Peace, LinksMet
    <3> QED BY <1>1, <1>6, <2>2, <3>1, PeerAssumption
  <2> QED BY <1>7, <2>1, <2>2, PeerAssumption
<1>13. BookOnItsWay'
  <2> SUFFICES ASSUME NEW x \in roster'[Creator], NEW y \in roster'[Creator], x # y
               PROVE  Introduced(x, y)'
    BY DEF BookOnItsWay
  <2>1. x \in Peer /\ y \in Peer /\ Introduced(x, y) /\ x \in roster[Creator]
    BY <1>2, PeerAssumption DEF Inv, TypeOK, Peace, BookOnItsWay
  <2>2. Mail(Creator, x) \subseteq Mail(Creator, x)'
    BY <1>7, <2>1, PeerAssumption
  <2>3. CASE \E m \in Message : /\ outbox[Creator][Len(outbox[Creator])] = m
                                /\ m.type = "Peers" /\ {x, y} \subseteq m.book
    <3>1. PICK m \in Message : /\ s[Len(s)] = m /\ m.type = "Peers" /\ {x, y} \subseteq m.book
      BY <1>1, <2>3
    <3>2. CASE msg = m
      <4>1. link[Creator][x] # "none"
        BY <2>1, PeerAssumption DEF Peace, LinksMet, Greeted
      <4>2. m \in Mail(Creator, x)'
        BY <1>1, <1>6, <2>1, <3>2, <4>1, PeerAssumption
      <4> QED BY <3>1, <4>2 DEF Introduced
    <3>3. CASE left # <<>> /\ left[Len(left)] = m
      BY <1>5, <3>1, <3>3 DEF Introduced
    <3> QED BY <1>4, <3>1, <3>2, <3>3
  <2>4. CASE \/ link[x][y] # "none" \/ y \in hints[x] \/ x \in hints[y]
             \/ \E m \in Mail(Creator, x) : m.type = "Peers" /\ y \in m.book
    BY <1>2, <2>2, <2>4 DEF Introduced
  <2> QED BY <2>1, <2>3, <2>4 DEF Introduced
<1> QED BY <1>8, <1>9, <1>10, <1>11, <1>12, <1>13 DEF Peace

\* What a read finds.
LEMMA HeadIs ==
    ASSUME Inv, Peace, NEW p \in Peer, NEW q \in Peer, NEW type, Receives(p, q, type),
           chan' = Consumed(p, q)
    PROVE  LET m == Head(chan[q][p]) IN
           /\ m \in Message /\ m.type = type /\ m # Bye /\ p # q
           /\ link[q][p] # "none" /\ link[p][q] # "none" /\ p \in Live /\ q \in Live
           /\ m.type \in {"Magnet", "Host"} => q = Creator
           /\ m.type = "Hello" => m = Hello(q)
           /\ m.type = "Host" => m.id = q
           /\ \A x, y \in Peer :
                 /\ Mail(x, y)' \subseteq Mail(x, y)
                 /\ Mail(x, y) \subseteq Mail(x, y)' \cup {m}
                 /\ ~(x = q /\ y = p) => Mail(x, y)' = Mail(x, y)
<1> DEFINE m == Head(chan[q][p])
<1>1. chan[q][p] # <<>> /\ m.type = type
  BY DEF Receives
<1>2. /\ m \in Mail(q, p) /\ m \in Message
      /\ \A x, y \in Peer :
            /\ Mail(x, y)' \subseteq Mail(x, y)
            /\ Mail(x, y) \subseteq Mail(x, y)' \cup {m}
            /\ ~(x = q /\ y = p) => Mail(x, y)' = Mail(x, y)
  BY <1>1, ReadMail DEF Inv
<1>3. m.type = "Host" => m.id = q
  BY <1>1, ReadKeeps DEF Inv
<1> HIDE DEF m
<1>4. /\ link[q][p] # "none" /\ m # Bye
      /\ m.type \in {"Magnet", "Host"} => q = Creator
      /\ m.type = "Hello" => m = Hello(q)
  BY <1>2 DEF Peace, MailFrom
<1>5. link[p][q] # "none" /\ p # q /\ p \in Live /\ q \in Live
  BY <1>4, MetIs DEF Peace
<1> QED BY <1>1, <1>2, <1>3, <1>4, <1>5 DEF m

LEMMA LessMailPeace ==
    ASSUME Peace, UNCHANGED link, \A x, y \in Peer : Mail(x, y)' \subseteq Mail(x, y)
    PROVE  MailFrom'
<1> SUFFICES ASSUME NEW x \in Peer, NEW y \in Peer, NEW m \in Mail(y, x)'
             PROVE  /\ link'[y][x] # "none" /\ m # Bye
                    /\ m.type \in {"Magnet", "Host"} => y = Creator
                    /\ m.type = "Hello" => m = Hello(y)
  BY DEF MailFrom, Bye, Hello
<1> QED BY DEF Peace, MailFrom

\* A read of anything but a greeting or a book takes nothing anybody waits for, and
\* who reads the film is told it.
LEMMA TakePeace ==
    ASSUME Inv, Peace, NEW p \in Peer, NEW q \in Peer, NEW type, Receives(p, q, type),
           type \notin {"Hello", "Peers"}, chan' = Consumed(p, q),
           UNCHANGED <<invite, link, hints, outbox, roster>>, OneRole',
           Head(chan[q][p]) = MagnetMsg => offered'[p],
           \A x \in Peer : offered[x] => offered'[x],
           magnet'[Creator] => magnet[Creator]
    PROVE  Peace'
<1> DEFINE m == Head(chan[q][p])
<1>1. /\ m.type = type
      /\ \A x, y \in Peer :
            /\ Mail(x, y)' \subseteq Mail(x, y)
            /\ Mail(x, y) \subseteq Mail(x, y)' \cup {m}
            /\ ~(x = q /\ y = p) => Mail(x, y)' = Mail(x, y)
  BY HeadIs
<1>2. m = MagnetMsg => offered'[p]
  OBVIOUS
<1> HIDE DEF m
<1>3. LinksMet'
  BY DEF Peace, LinksMet
<1>4. MailFrom'
  BY <1>1, LessMailPeace
<1>5. \A x \in Peer : m # Hello(x)
  BY <1>1 DEF Hello
<1>6. Greeted'
  <2> SUFFICES ASSUME NEW x \in Peer, NEW y \in Peer
               PROVE  /\ y \in roster'[x] => link'[y][x] # "none"
                      /\ link'[y][x] = "up" => y \in roster'[x] \/ Hello(y) \in Mail(y, x)'
    BY DEF Greeted, Hello
  <2> QED BY <1>1, <1>5 DEF Peace, Greeted
<1>7. FilmOnItsWay'
  <2> SUFFICES ASSUME magnet'[Creator], NEW x \in Peer \ {Creator}, link[x][Creator] = "up"
               PROVE  \/ offered'[x] \/ MagnetMsg \in Mail(Creator, x)'
                      \/ Hello(x) \in Mail(x, Creator)'
                      \/ outbox[Creator] # <<>> /\ Head(outbox[Creator]) = MagnetMsg
    BY DEF FilmOnItsWay, Hello, MagnetMsg
  <2>1. \/ offered[x] \/ MagnetMsg \in Mail(Creator, x) \/ Hello(x) \in Mail(x, Creator)
        \/ outbox[Creator] # <<>> /\ Head(outbox[Creator]) = MagnetMsg
    BY DEF Peace, FilmOnItsWay
  <2>2. MagnetMsg \in Mail(Creator, x) => MagnetMsg \in Mail(Creator, x)' \/ offered'[x]
    BY <1>1, <1>2, PeerAssumption
  <2>3. Hello(x) \in Mail(x, Creator) => Hello(x) \in Mail(x, Creator)'
    BY <1>1, <1>5, PeerAssumption
  <2> QED BY <2>1, <2>2, <2>3
<1>8. BookOnItsWay'
  <2> SUFFICES ASSUME NEW x \in roster'[Creator], NEW y \in roster'[Creator], x # y
               PROVE  Introduced(x, y)'
    BY DEF BookOnItsWay
  <2>1. x \in Peer /\ y \in Peer /\ Introduced(x, y)
    BY PeerAssumption DEF Inv, TypeOK, Peace, BookOnItsWay
  <2>2. \A n \in Mail(Creator, x) : n.type = "Peers" => n \in Mail(Creator, x)'
    BY <1>1, <2>1, PeerAssumption
  <2> QED BY <2>1, <2>2, PeerAssumption DEF Introduced
<1> QED BY <1>3, <1>4, <1>6, <1>7, <1>8 DEF Peace

LEMMA ReceivePausePeace ==
    ASSUME Inv, Peace, NEW p \in Peer, NEW q \in Peer, ReceivePause(p, q) PROVE Peace'
<1>1. /\ Receives(p, q, "Pause") /\ chan' = Consumed(p, q)
      /\ UNCHANGED <<invite, link, hints, outbox, roster, refused, hostPeer, isHost, offered, magnet>>
  BY DEF ReceivePause, Drop
<1>2. OneRole'
  BY <1>1 DEF Peace, OneRole, Items, Bye
<1>3. Head(chan[q][p]) # MagnetMsg
  BY <1>1 DEF Receives, MagnetMsg
<1> QED BY <1>1, <1>2, <1>3, TakePeace

LEMMA ReceiveBufferingPeace ==
    ASSUME Inv, Peace, NEW p \in Peer, NEW q \in Peer, ReceiveBuffering(p, q) PROVE Peace'
<1>1. /\ Receives(p, q, "Buffering") /\ chan' = Consumed(p, q)
      /\ UNCHANGED <<invite, link, hints, outbox, roster, refused, hostPeer, isHost, offered, magnet>>
  BY DEF ReceiveBuffering, Drop
<1>2. OneRole'
  BY <1>1 DEF Peace, OneRole, Items, Bye
<1>3. Head(chan[q][p]) # MagnetMsg
  BY <1>1 DEF Receives, MagnetMsg
<1> QED BY <1>1, <1>2, <1>3, TakePeace

\* The only claim that is made is the creator's.
LEMMA ReceiveHostPeace ==
    ASSUME Inv, Peace, NEW p \in Peer, NEW q \in Peer, ReceiveHost(p, q) PROVE Peace'
<1>1. /\ Receives(p, q, "Host") /\ chan' = Consumed(p, q)
      /\ UNCHANGED <<invite, link, hints, outbox, roster, refused, offered, magnet>>
  BY DEF ReceiveHost, Drop
<1>2. q = Creator /\ p # q /\ Head(chan[q][p]).id = q
  BY <1>1, HeadIs
<1>3. /\ \A x \in Peer : x # p => hostPeer'[x] = hostPeer[x] /\ isHost'[x] = isHost[x]
      /\ hostPeer'[p] \in {hostPeer[p], Creator} /\ isHost'[p] \in {isHost[p], FALSE}
  BY <1>2 DEF ReceiveHost, Inv, TypeOK
<1>4. OneRole'
  <2>1. \A x \in Peer : /\ refused'[x] = {} /\ (isHost'[x] <=> x = Creator)
                        /\ hostPeer'[x] \in {NoPeer, Creator} /\ hostPeer'[Creator] = Creator
                        /\ Creator \in roster'[x] => hostPeer'[x] = Creator
    BY <1>1, <1>2, <1>3, PeerAssumption DEF Peace, OneRole
  <2> QED BY <1>1, <2>1 DEF Peace, OneRole, Items, Bye
<1>5. Head(chan[q][p]) # MagnetMsg
  BY <1>1 DEF Receives, MagnetMsg
<1> QED BY <1>1, <1>4, <1>5, TakePeace

\* Whoever reads the film follows its sender, the creator, and is told it.
LEMMA ReceiveMagnetPeace ==
    ASSUME Inv, Peace, NEW p \in Peer, NEW q \in Peer, ReceiveMagnet(p, q) PROVE Peace'
<1>1. /\ Receives(p, q, "Magnet") /\ chan' = Consumed(p, q)
      /\ UNCHANGED <<invite, link, hints, outbox, roster, refused, isHost>>
  BY DEF ReceiveMagnet, Drop
<1>2. q = Creator /\ p # q
  BY <1>1, HeadIs
<1>3. /\ \A x \in Peer : x # p => /\ hostPeer'[x] = hostPeer[x] /\ offered'[x] = offered[x]
                                  /\ magnet'[x] = magnet[x]
      /\ hostPeer'[p] = Creator /\ offered'[p]
  <2>1. hostPeer[p] \in {NoPeer, Creator} /\ NoPeer # Creator
    BY PeerAssumption DEF Peace, OneRole, NoPeer
  <2>2. /\ hostPeer' = [hostPeer EXCEPT ![p] = IF @ = NoPeer THEN q ELSE @]
        /\ offered' = [offered EXCEPT ![p] = @ \/ ShouldFollow(q, hostPeer'[p])]
        /\ magnet' = [magnet EXCEPT ![p] = TRUE]
    BY DEF ReceiveMagnet
  <2>3. hostPeer'[p] = Creator /\ \A x \in Peer : x # p => hostPeer'[x] = hostPeer[x]
    BY <1>2, <2>1, <2>2 DEF Inv, TypeOK
  <2>4. ShouldFollow(q, hostPeer'[p])
    BY <1>2, <2>1, <2>3 DEF ShouldFollow
  <2>5. offered' = [offered EXCEPT ![p] = TRUE]
    BY <2>2, <2>4 DEF Inv, TypeOK
  <2> QED BY <2>2, <2>3, <2>5 DEF Inv, TypeOK
<1>4. OneRole'
  <2>1. \A x \in Peer : /\ hostPeer'[x] \in {NoPeer, Creator} /\ hostPeer'[Creator] = Creator
                        /\ Creator \in roster'[x] => hostPeer'[x] = Creator
    BY <1>1, <1>2, <1>3, PeerAssumption DEF Peace, OneRole
  <2> QED BY <1>1, <2>1 DEF Peace, OneRole, Items, Bye
<1>5. /\ \A x \in Peer : offered[x] => offered'[x]
      /\ magnet'[Creator] => magnet[Creator]
  BY <1>2, <1>3, PeerAssumption
<1> QED BY <1>1, <1>3, <1>4, <1>5, TakePeace

\* Whoever reads the book dials whom it names and it has not met.
LEMMA ReceivePeersPeace ==
    ASSUME Inv, Peace, NEW p \in Peer, NEW q \in Peer, ReceivePeers(p, q) PROVE Peace'
<1> DEFINE m == Head(chan[q][p])
<1>1. /\ Receives(p, q, "Peers") /\ chan' = Consumed(p, q)
      /\ hints' = [hints EXCEPT ![p] = @ \cup
            {r \in m.book \ (roster[p] \cup {p}) : link[p][r] = "none"}]
      /\ UNCHANGED <<invite, link, outbox, roster, refused, hostPeer, isHost, offered, magnet>>
  BY DEF ReceivePeers, roomVars
<1>2. /\ m.type = "Peers" /\ p # q
      /\ \A x, y \in Peer :
            /\ Mail(x, y)' \subseteq Mail(x, y)
            /\ Mail(x, y) \subseteq Mail(x, y)' \cup {m}
            /\ ~(x = q /\ y = p) => Mail(x, y)' = Mail(x, y)
  BY <1>1, HeadIs
<1> HIDE DEF m
<1>3. /\ \A x \in Peer : x # p => hints'[x] = hints[x]
      /\ hints'[p] = hints[p] \cup {r \in m.book \ (roster[p] \cup {p}) : link[p][r] = "none"}
  BY <1>1 DEF Inv, TypeOK
<1>4. LinksMet'
  BY <1>1, <1>3 DEF Peace, LinksMet
<1>5. MailFrom'
  BY <1>1, <1>2, LessMailPeace
<1>6. \A x \in Peer : m # Hello(x)
  BY <1>2 DEF Hello
<1>7. Greeted'
  <2> SUFFICES ASSUME NEW x \in Peer, NEW y \in Peer
               PROVE  /\ y \in roster'[x] => link'[y][x] # "none"
                      /\ link'[y][x] = "up" => y \in roster'[x] \/ Hello(y) \in Mail(y, x)'
    BY DEF Greeted, Hello
  <2> QED BY <1>1, <1>2, <1>6 DEF Peace, Greeted
<1>8. FilmOnItsWay'
  <2> SUFFICES ASSUME magnet[Creator], NEW x \in Peer \ {Creator}, link[x][Creator] = "up"
               PROVE  \/ offered[x] \/ MagnetMsg \in Mail(Creator, x)'
                      \/ Hello(x) \in Mail(x, Creator)'
                      \/ outbox[Creator] # <<>> /\ Head(outbox[Creator]) = MagnetMsg
    BY <1>1 DEF FilmOnItsWay, Hello, MagnetMsg
  <2>1. \/ offered[x] \/ MagnetMsg \in Mail(Creator, x) \/ Hello(x) \in Mail(x, Creator)
        \/ outbox[Creator] # <<>> /\ Head(outbox[Creator]) = MagnetMsg
    BY DEF Peace, FilmOnItsWay
  <2>2. m # MagnetMsg
    BY <1>2 DEF MagnetMsg
  <2> QED BY <1>2, <1>6, <2>1, <2>2, PeerAssumption
<1>9. OneRole'
  BY <1>1 DEF Peace, OneRole, Items, Bye
<1>10. BookOnItsWay'
  <2> SUFFICES ASSUME NEW x \in roster'[Creator], NEW y \in roster'[Creator], x # y
               PROVE  Introduced(x, y)'
    BY DEF BookOnItsWay
  <2>1. x \in Peer /\ y \in Peer /\ Introduced(x, y)
    BY <1>1, PeerAssumption DEF Inv, TypeOK, Peace, BookOnItsWay
  <2>2. \A z \in Peer : hints[z] \subseteq hints'[z]
    BY <1>3
  <2>3. ASSUME NEW n \in Mail(Creator, x), n.type = "Peers", y \in n.book
        PROVE  Introduced(x, y)'
    <3>1. CASE n \in Mail(Creator, x)'
      BY <2>3, <3>1 DEF Introduced
    <3>2. CASE n \notin Mail(Creator, x)'
      <4>1. n = m /\ x = p
        BY <1>2, <2>1, <3>2, PeerAssumption
      <4>2. CASE link[x][y] # "none"
        BY <1>1, <4>2 DEF Introduced
      <4>3. CASE link[x][y] = "none"
        <5>1. y \notin roster[p]
          BY <2>1, <4>1, <4>3 DEF Peace, Greeted, LinksMet
        <5>2. y \in hints'[p]
          BY <1>3, <2>3, <4>1, <4>3, <5>1
        <5> QED BY <4>1, <5>2 DEF Introduced
      <4> QED BY <4>2, <4>3
    <3> QED BY <3>1, <3>2
  <2> QED BY <1>1, <2>1, <2>2, <2>3 DEF Introduced
<1> QED BY <1>4, <1>5, <1>7, <1>8, <1>9, <1>10 DEF Peace

\* One more message in front.
LEMMA PrefixIs ==
    ASSUME NEW msg \in Message, NEW rest \in Seq(Message)
    PROVE  LET a == <<msg>> \o rest IN
           /\ a # <<>> /\ Head(a) = msg /\ Len(a) = Len(rest) + 1 /\ a[1] = msg
           /\ \A i \in 2..Len(a) : a[i] = rest[i - 1]
<1> DEFINE a == <<msg>> \o rest
<1>1. /\ Len(a) = Len(rest) + 1 /\ a[1] = msg /\ a # <<>>
      /\ \A i \in 2..Len(a) : a[i] = rest[i - 1]
      /\ Len(rest) \in Nat
  OBVIOUS
<1>2. a \in Seq(Message)
  OBVIOUS
<1> HIDE DEF a
<1>3. Head(a) = msg
  BY <1>1, <1>2
<1> QED BY <1>1, <1>3 DEF a

\* An answer starts with the film, when there is one, and ends with the book.
LEMMA AnswerIs ==
    ASSUME Inv, NEW p \in Peer, NEW book \in SUBSET Peer
    PROVE  LET a == Answer(p, book) IN
           /\ a # <<>>
           /\ magnet[p] => Head(a) = MagnetMsg
           /\ a[Len(a)] = PeersMsg(book)
           /\ \A m \in Items(a) : m.type # "Hello" /\ m # Bye
<1>1. CASE magnet[p]
  <2> DEFINE rest == <<Host(p), PlayStateHere, PeersMsg(book)>>
             a    == <<MagnetMsg>> \o rest
  <2>1. Answer(p, book) = a
    BY <1>1 DEF Answer
  <2>2. rest \in Seq(Message) /\ Len(rest) = 3 /\ MagnetMsg \in Message
    BY MessagesTyped
  <2>3. rest[3] = PeersMsg(book) /\ \A i \in 1..3 : rest[i] \in {Host(p), PlayStateHere, PeersMsg(book)}
    OBVIOUS
  <2> HIDE DEF rest
  <2>4. /\ Len(a) = 4 /\ a[1] = MagnetMsg /\ a # <<>> /\ Head(a) = a[1]
        /\ \A i \in 2..4 : a[i] = rest[i - 1]
    <3>1. /\ a # <<>> /\ Head(a) = MagnetMsg /\ Len(a) = Len(rest) + 1 /\ a[1] = MagnetMsg
          /\ \A i \in 2..Len(a) : a[i] = rest[i - 1]
      BY <2>2, PrefixIs
    <3> HIDE DEF a
    <3>2. Len(a) = 4
      BY <2>2, <3>1
    <3> QED BY <3>1, <3>2
  <2> HIDE DEF a
  <2>5. a[4] = PeersMsg(book)
    BY <2>3, <2>4
  <2>6. \A i \in 1..4 : a[i] \in {MagnetMsg, Host(p), PlayStateHere, PeersMsg(book)}
    <3> TAKE i \in 1..4
    <3>1. CASE i = 1
      BY <2>4, <3>1
    <3>2. CASE i # 1
      <4>1. i \in 2..4 /\ i - 1 \in 1..3
        BY <3>2
      <4> QED BY <2>3, <2>4, <4>1
    <3> QED BY <3>1, <3>2
  <2>7. \A m \in Items(a) : m.type # "Hello" /\ m # Bye
    BY <2>4, <2>6 DEF Items, MagnetMsg, Host, PlayStateHere, PeersMsg, Bye
  <2> QED BY <2>1, <2>4, <2>5, <2>7
<1>2. CASE ~magnet[p]
  <2> DEFINE a == <<Host(p), PlayStateHere, PeersMsg(book)>>
  <2>1. Answer(p, book) = a
    BY <1>2 DEF Answer
  <2>2. a # <<>> /\ Len(a) = 3 /\ a[3] = PeersMsg(book)
    OBVIOUS
  <2>3. \A i \in 1..3 : a[i] \in {Host(p), PlayStateHere, PeersMsg(book)}
    OBVIOUS
  <2> HIDE DEF a
  <2>4. \A m \in Items(a) : m.type # "Hello" /\ m # Bye
    BY <2>2, <2>3 DEF Items, Host, PlayStateHere, PeersMsg, Bye
  <2> QED BY <1>2, <2>1, <2>2, <2>4
<1> QED BY <1>1, <1>2

\* A greeting is entered, and the creator owes whoever it knows the film and the book.
LEMMA ReceiveHelloPeace ==
    ASSUME Inv, Peace, NEW p \in Peer, NEW q \in Peer, ReceiveHello(p, q) PROVE Peace'
<1> DEFINE m == Head(chan[q][p])
           answer == Answer(p, roster'[p])
<1>1. /\ Receives(p, q, "Hello") /\ chan' = Consumed(p, q)
      /\ roster' = [roster EXCEPT ![p] = @ \cup {q}]
      /\ hostPeer' = [hostPeer EXCEPT ![p] = IF m.isHost THEN q ELSE @]
      /\ outbox' = [outbox EXCEPT ![p] = IF isHost[p] THEN answer ELSE <<>>]
      /\ UNCHANGED <<invite, link, hints, refused, isHost, offered, magnet>>
  BY DEF ReceiveHello, Drop
<1>2. /\ m = Hello(q) /\ p # q /\ link[q][p] # "none"
      /\ \A x, y \in Peer :
            /\ Mail(x, y)' \subseteq Mail(x, y)
            /\ Mail(x, y) \subseteq Mail(x, y)' \cup {m}
            /\ ~(x = q /\ y = p) => Mail(x, y)' = Mail(x, y)
  BY <1>1, HeadIs
<1>3. m.isHost <=> q = Creator
  <2>1. m = [type |-> "Hello", isHost |-> q = Creator]
    BY <1>2 DEF Hello
  <2> HIDE DEF m
  <2>2. CASE q = Creator
    <3>1. m = [type |-> "Hello", isHost |-> TRUE]
      BY <2>1, <2>2
    <3> QED BY <2>2, <3>1
  <2>3. CASE q # Creator
    <3>1. m = [type |-> "Hello", isHost |-> FALSE]
      BY <2>1, <2>3
    <3> QED BY <2>3, <3>1
  <2> QED BY <2>2, <2>3
<1> HIDE DEF m
<1>4. /\ \A x \in Peer : x # p => /\ roster'[x] = roster[x] /\ hostPeer'[x] = hostPeer[x]
                                  /\ outbox'[x] = outbox[x]
      /\ roster'[p] = roster[p] \cup {q} /\ roster'[p] \in SUBSET Peer
      /\ hostPeer'[p] = IF q = Creator THEN Creator ELSE hostPeer[p]
      /\ outbox'[p] = IF isHost[p] THEN answer ELSE <<>>
  BY <1>1, <1>3 DEF Inv, TypeOK
<1>5. /\ answer # <<>>
      /\ magnet[p] => Head(answer) = MagnetMsg
      /\ answer[Len(answer)] = PeersMsg(roster'[p])
      /\ \A n \in Items(answer) : n.type # "Hello" /\ n # Bye
  BY <1>4, AnswerIs
<1> HIDE DEF answer
<1>6. LinksMet'
  BY <1>1 DEF Peace, LinksMet
<1>7. MailFrom'
  BY <1>1, <1>2, LessMailPeace
<1>8. OneRole'
  <2>1. \A x \in Peer : /\ refused'[x] = {} /\ (isHost'[x] <=> x = Creator)
                        /\ hostPeer'[x] \in {NoPeer, Creator} /\ hostPeer'[Creator] = Creator
                        /\ Creator \in roster'[x] => hostPeer'[x] = Creator
    BY <1>1, <1>4, PeerAssumption DEF Peace, OneRole
  <2>2. \A x \in Peer : /\ outbox'[x] # <<>> => x = Creator
                        /\ \A n \in Items(outbox'[x]) : n.type # "Hello" /\ n # Bye
    <3> SUFFICES ASSUME NEW x \in Peer
                 PROVE  /\ outbox'[x] # <<>> => x = Creator
                        /\ \A n \in Items(outbox'[x]) : n.type # "Hello" /\ n # Bye
      OBVIOUS
    <3>1. CASE x # p
      BY <1>4, <3>1 DEF Peace, OneRole
    <3>2. CASE x = p /\ isHost[p]
      BY <1>4, <1>5, <3>2 DEF Peace, OneRole
    <3>3. CASE x = p /\ ~isHost[p]
      <4>1. outbox'[x] = <<>> /\ Items(<<>>) = {}
        BY <1>4, <3>3 DEF Items
      <4> QED BY <4>1
    <3> QED BY <3>1, <3>2, <3>3
  <2> QED BY <2>1, <2>2 DEF OneRole, Items, Bye
<1>9. Greeted'
  <2> SUFFICES ASSUME NEW x \in Peer, NEW y \in Peer
               PROVE  /\ y \in roster'[x] => link'[y][x] # "none"
                      /\ link'[y][x] = "up" => y \in roster'[x] \/ Hello(y) \in Mail(y, x)'
    BY DEF Greeted, Hello
  <2>1. CASE x = p /\ y = q
    BY <1>1, <1>2, <1>4, <2>1
  <2>2. CASE ~(x = p /\ y = q)
    BY <1>1, <1>2, <1>4, <2>2 DEF Peace, Greeted
  <2> QED BY <2>1, <2>2
<1>10. FilmOnItsWay'
  <2> SUFFICES ASSUME magnet[Creator], NEW x \in Peer \ {Creator}, link[x][Creator] = "up"
               PROVE  \/ offered[x] \/ MagnetMsg \in Mail(Creator, x)'
                      \/ Hello(x) \in Mail(x, Creator)'
                      \/ outbox'[Creator] # <<>> /\ Head(outbox'[Creator]) = MagnetMsg
    BY <1>1 DEF FilmOnItsWay, Hello, MagnetMsg
  <2>1. CASE p = Creator
    BY <1>4, <1>5, <2>1 DEF Peace, OneRole
  <2>2. CASE p # Creator
    <3>1. Mail(x, Creator)' = Mail(x, Creator) /\ outbox'[Creator] = outbox[Creator]
      BY <1>2, <1>4, <2>2, PeerAssumption
    <3>2. MagnetMsg # m
      BY <1>2 DEF Hello, MagnetMsg
    <3>3. \/ offered[x] \/ MagnetMsg \in Mail(Creator, x) \/ Hello(x) \in Mail(x, Creator)
          \/ outbox[Creator] # <<>> /\ Head(outbox[Creator]) = MagnetMsg
      BY DEF Peace, FilmOnItsWay
    <3> QED BY <1>2, <3>1, <3>2, <3>3, PeerAssumption
  <2> QED BY <2>1, <2>2
<1>11. BookOnItsWay'
  <2> SUFFICES ASSUME NEW x \in roster'[Creator], NEW y \in roster'[Creator], x # y
               PROVE  Introduced(x, y)'
    BY DEF BookOnItsWay
  <2>1. CASE p = Creator
    <3> DEFINE book == PeersMsg(roster'[p])
    <3>1. book \in Message /\ book.type = "Peers" /\ {x, y} \subseteq book.book
      BY <1>4, <2>1, MessagesTyped DEF PeersMsg
    <3>2. outbox'[Creator] # <<>> /\ outbox'[Creator][Len(outbox'[Creator])] = book
      BY <1>4, <1>5, <2>1 DEF Peace, OneRole
    <3> HIDE DEF book
    <3> QED BY <3>1, <3>2 DEF Introduced
  <2>2. CASE p # Creator
    <3>1. outbox'[Creator] = outbox[Creator] /\ roster'[Creator] = roster[Creator]
      BY <1>4, <2>2, PeerAssumption
    <3>2. x \in Peer /\ y \in Peer /\ Introduced(x, y)
      BY <3>1, PeerAssumption DEF Inv, TypeOK, Peace, BookOnItsWay
    <3>3. m.type # "Peers"
      BY <1>2 DEF Hello
    <3>4. \A n \in Mail(Creator, x) : n.type = "Peers" => n \in Mail(Creator, x)'
      BY <1>2, <3>2, <3>3, PeerAssumption
    <3> QED BY <1>1, <3>1, <3>2, <3>4 DEF Introduced
  <2> QED BY <2>1, <2>2
<1> QED BY <1>6, <1>7, <1>8, <1>9, <1>10, <1>11 DEF Peace

\* Where nothing goes wrong nobody is refused, and nobody says goodbye.
LEMMA HandlePeace ==
    ASSUME Inv, Peace, Undisturbed, NEW p \in Peer, NEW q \in Peer, Handle(p, q) PROVE Peace'
<1>1. CASE RefuseHello(p, q)
  <2>1. Receives(p, q, "Hello") /\ chan' = Consumed(p, q)
    BY <1>1 DEF RefuseHello, Drop
  <2>2. p \in Live /\ q \in Live
    BY <2>1, HeadIs
  <2>3. Admits(p, q) /\ Heeds(p, q)
    BY <2>2 DEF Undisturbed, Heeds, Peace, OneRole
  <2> QED BY <1>1, <2>3 DEF RefuseHello
<1>2. CASE IgnoreRefused(p, q)
  BY <1>2 DEF IgnoreRefused, Heeds, Peace, OneRole
<1>3. CASE ReceiveBye(p, q)
  <2>1. Receives(p, q, "Bye")
    BY <1>3 DEF ReceiveBye
  <2>2. chan[q][p] # <<>> /\ chan[q][p] \in Seq(Message) /\ Head(chan[q][p]).type = "Bye"
    BY <2>1 DEF Receives, Inv, TypeOK
  <2>3. Head(chan[q][p]) \in Mail(q, p) /\ Head(chan[q][p]) \in Message
    BY <2>2, ItemsOfTail DEF Mail
  <2>4. Head(chan[q][p]) = Bye
    BY <2>2, <2>3 DEF Message, Bye
  <2> QED BY <2>3, <2>4 DEF Peace, MailFrom
<1> QED BY <1>1, <1>2, <1>3, ReceiveHelloPeace, ReceiveMagnetPeace, ReceivePausePeace,
           ReceiveBufferingPeace, ReceiveHostPeace, ReceivePeersPeace DEF Handle

LEMMA NextPeace == ASSUME Inv, Peace, Undisturbed, Undisturbed', [Next]_vars PROVE Peace'
<1>1. ASSUME NEW p \in Peer, Depart(p) PROVE FALSE
  BY <1>1 DEF Depart, Undisturbed
<1>2. ASSUME NEW p \in Peer, NEW q \in Peer, Cut(p, q) PROVE FALSE
  BY <1>2 DEF Cut, Undisturbed, Inv, TypeOK
<1>3. ASSUME NEW p \in Peer, NEW q \in Peer, Lose(p, q) \/ Notice(p, q) PROVE FALSE
  BY <1>3 DEF Lose, Notice, Peace, LinksMet
<1>4. CASE UNCHANGED vars
  <2>1. UNCHANGED <<invite, link, hints, chan, outbox, roster, refused, hostPeer, isHost, magnet, offered>>
    BY <1>4 DEF vars, meshVars, roomVars
  <2> QED BY <2>1 DEF Peace, LinksMet, MailFrom, OneRole, Greeted, FilmOnItsWay, BookOnItsWay,
             Introduced, Mail, Items, Hello, Bye, MagnetMsg
<1>5. ASSUME NEW p \in Peer,
             \/ DialInvited(p) \/ AnnounceMagnet(p) \/ PauseOrPlay(p) \/ SendReply(p)
             \/ \E b \in BOOLEAN : ReportBuffering(p, b)
      PROVE  Peace'
  BY <1>5, DialInvitedPeace, AnnouncePeace, PauseOrPlayPeace, SendReplyPeace, ReportPeace
<1>6. ASSUME NEW p \in Peer, NEW q \in Peer,
             \/ Join(p, q) \/ HintedDial(p, q) \/ HintedDialFails(p, q) \/ Greet(p, q)
             \/ Handle(p, q)
      PROVE  Peace'
  BY <1>6, JoinPeace, HintedDialPeace, HintedDialFailsPeace, GreetPeace, HandlePeace
<1> QED BY <1>1, <1>2, <1>3, <1>4, <1>5, <1>6 DEF Next

LEMMA InitPeace == ASSUME Init PROVE Peace
<1>1. PICK plan \in Plans : Start(plan)
  BY DEF Init
<1> DEFINE members == plan.members
<1>2. members \subseteq Peer /\ Creator \in members
  BY PlanAssumption DEF Plan
<1>3. \A p, q \in Peer : Mail(p, q) = {} /\ Items(outbox[p]) = {}
  BY <1>1 DEF Start, Mail, Items
<1>4. LinksMet /\ MailFrom
  BY <1>1, <1>3, PeerAssumption DEF Start, LinksMet, MailFrom, NoPeer
<1>5. OneRole
  BY <1>1, <1>2, <1>3, PeerAssumption DEF Start, OneRole
<1>6. Greeted /\ FilmOnItsWay
  BY <1>1, <1>2, PeerAssumption DEF Start, Greeted, FilmOnItsWay
<1>7. BookOnItsWay
  BY <1>1, <1>2, PeerAssumption DEF Start, BookOnItsWay, Introduced
<1> QED BY <1>4, <1>5, <1>6, <1>7 DEF Peace

LEMMA PeaceLasts == Spec => [](Inv /\ (Undisturbed => Peace))
<1>1. Init => Inv /\ (Undisturbed => Peace)
  BY InitInv, InitPeace
<1>2. Inv /\ (Undisturbed => Peace) /\ [Next]_vars => (Inv /\ (Undisturbed => Peace))'
  <2> SUFFICES ASSUME Inv, Undisturbed => Peace, [Next]_vars
               PROVE  (Inv /\ (Undisturbed => Peace))'
    OBVIOUS
  <2>1. Inv'
    BY NextKeeps
  <2>2. Undisturbed' => Undisturbed
    BY <2>1, UndisturbedBefore
  <2>3. Undisturbed' => Peace'
    BY <2>2, NextPeace
  <2> QED BY <2>1, <2>3
<1> QED BY <1>1, <1>2, PTL DEF Spec

\* What a settled, undisturbed room looks like from the creator.
LEMMA SettledIs ==
    ASSUME Inv, Peace, Undisturbed, Quiescent
    PROVE  /\ \A p, q \in Peer : p \in Live => Mail(q, p) = {}
           /\ \A p \in Live \ {Creator} : link[p][Creator] = "up" /\ link[Creator][p] = "up"
<1>1. ASSUME NEW p \in Peer, NEW q \in Peer, p \in Live PROVE Mail(q, p) = {}
  <2>1. chan[q][p] = <<>>
    BY <1>1 DEF Quiescent
  <2> QED BY <2>1 DEF Mail, Items
<1>2. ASSUME NEW p \in Live \ {Creator}
      PROVE  link[p][Creator] = "up" /\ link[Creator][p] = "up"
  <2>1. p \in Peer /\ invite[p] = Creator
    BY <1>2 DEF Live, Joined, Peace, LinksMet
  <2>2. Creator \in Live
    BY PeerAssumption DEF Live, Joined, Undisturbed
  <2>3. link[p][Creator] = "up"
    BY <1>2, <2>1, <2>2 DEF Quiescent
  <2>4. link[Creator][p] # "none"
    BY <2>1, <2>3, PeerAssumption DEF Peace, LinksMet
  <2> QED BY <2>1, <2>2, <2>3, <2>4 DEF Quiescent
<1> QED BY <1>1, <1>2

\* In a room where nothing goes wrong nobody is stranded by joining late: once it
\* settles everybody was told the film, whichever of the announcement, the greetings
\* and the answers came first (the film rides in the answer to a greeting).
THEOREM NewcomersAreToldTheFilm == Spec => []FilmReachesNewcomers
<1>1. ASSUME Inv, Undisturbed => Peace PROVE FilmReachesNewcomers
  <2> SUFFICES ASSUME Undisturbed, Quiescent, Creator \in Live, magnet[Creator],
                      NEW p \in Live \ {Creator}
               PROVE  offered[p]
    BY DEF FilmReachesNewcomers, FilmReachesEveryone
  <2>1. p \in Peer /\ link[p][Creator] = "up"
    BY <1>1, SettledIs DEF Live
  <2>2. Mail(Creator, p) = {} /\ Mail(p, Creator) = {} /\ outbox[Creator] = <<>>
    BY <1>1, <2>1, SettledIs, PeerAssumption DEF Quiescent
  <2> QED BY <1>1, <2>1, <2>2 DEF Peace, FilmOnItsWay
<1> QED BY <1>1, PeaceLasts, PTL

\* And it becomes a mesh: once it settles everybody has a stream to everybody and
\* everybody in the roster, though each of them dialled the creator alone (bug-0136).
THEOREM TheMeshGrows == Spec => []MeshGrows
<1>1. ASSUME Inv, Undisturbed => Peace PROVE MeshGrows
  <2> SUFFICES ASSUME Undisturbed, Quiescent
               PROVE  \A p \in Live : /\ roster[p] = Live \ {p}
                                      /\ \A q \in Live \ {p} : link[p][q] = "up"
    BY DEF MeshGrows
  <2>1. Peace /\ Creator \in Live
    BY <1>1, PeerAssumption DEF Live, Joined, Undisturbed
  <2>2. ASSUME NEW p \in Live, NEW q \in Live, link[p][q] = "up" PROVE p \in roster[q]
    <3>1. p \in Peer /\ q \in Peer /\ Mail(p, q) = {}
      BY <1>1, <2>1, SettledIs DEF Live
    <3> QED BY <2>1, <2>2, <3>1 DEF Peace, Greeted
  <2>3. \A p \in Live \ {Creator} : p \in roster[Creator]
    BY <1>1, <2>1, <2>2, SettledIs
  <2>4. ASSUME NEW p \in Live, NEW q \in Live, p # q PROVE link[p][q] = "up"
    <3>1. CASE p = Creator \/ q = Creator
      BY <1>1, <2>1, <2>4, <3>1, SettledIs
    <3>2. CASE p # Creator /\ q # Creator
      <4>1. p \in Peer /\ q \in Peer /\ Mail(Creator, p) = {}
        BY <1>1, <2>1, PeerAssumption, SettledIs DEF Live
      <4>2. Introduced(p, q)
        BY <2>1, <2>3, <2>4, <3>2 DEF Peace, BookOnItsWay
      <4>3. outbox[Creator] = <<>> /\ hints[p] = {} /\ hints[q] = {}
        BY <2>1 DEF Quiescent
      <4>4. link[p][q] # "none"
        BY <4>1, <4>2, <4>3 DEF Introduced
      <4> QED BY <4>1, <4>4 DEF Quiescent
    <3> QED BY <3>1, <3>2
  <2>5. ASSUME NEW p \in Live PROVE roster[p] = Live \ {p}
    <3>1. p \in Peer /\ roster[p] \subseteq Peer
      BY <1>1 DEF Live, Inv, TypeOK
    <3>2. \A q \in roster[p] : q \in Live /\ q # p
      BY <1>1, <2>1, <3>1 DEF Inv, AbsentOK, Peace, Greeted, LinksMet
    <3> QED BY <2>2, <2>4, <3>1, <3>2
  <2> QED BY <2>4, <2>5
<1> QED BY <1>1, PeaceLasts, PTL

-----------------------------------------------------------------------------
(* A room that settled before it was left: its members find one host again *)
(* whoever of them leaves and whenever, and whatever guests came between.  *)
(* Order is what they keep while no stream is cut.                         *)

Members == spent.plan.members

\* Members are linked until one of them leaves, and nobody is linked to itself.
MembersLinked ==
    /\ \A p \in Peer : p \notin hints[p] /\ invite[p] # p /\ link[p][p] = "none"
    /\ \A p, q \in Peer : link[p][q] = "down" => q \in gone
    /\ \A p \in Members : p \in Live \cup gone
    /\ \A p, q \in Members : /\ link[p][q] # "new"
                             /\ {p, q} \subseteq Live /\ p # q => link[p][q] = "up"

\* A message q may have sent to p: a farewell is true, a greeting is its sender's own
\* and passes between members never again, and while the creator is there nobody else
\* claims the role or hands out the film.
Honest(q, p, m) ==
    /\ m = Bye => q \in gone
    /\ m.type = "Hello" => m = Hello(q) /\ ~({p, q} \subseteq Members)
    /\ m.type \in {"Magnet", "Host"} /\ Creator \in Live => q = Creator

HonestMail ==
    /\ \A p, q \in Peer : \A m \in Mail(q, p) : Honest(q, p, m)
    /\ \A p \in Peer : \A m \in Items(outbox[p]) : m.type # "Hello" /\ m # Bye

\* While the creator is there nobody else holds the role or answers for it.
OneClaim ==
    Creator \in Live =>
        /\ hostPeer[Creator] = Creator
        /\ \A p \in Peer : /\ isHost[p] <=> p = Creator
                           /\ hostPeer[p] \in {NoPeer, Creator}
                           /\ outbox[p] # <<>> => p = Creator

\* A member knows the members that are there, and follows the creator, a guest, or the
\* smallest of the members it knows; never a peer it would refuse.
Follows(p) ==
    /\ (Members \cap Live) \ {p} \subseteq roster[p]
    /\ isHost[p] <=> hostPeer[p] = p
    /\ hostPeer[p] \in Peer /\ Admits(p, hostPeer[p])
    /\ hostPeer[p] \in Members \ {Creator} =>
          hostPeer[p] = TakeoverWinner(p, roster[p] \cap Members)

MembersFollow == \A p \in Members \cap Live : Follows(p)

Order == MembersLinked /\ HonestMail /\ OneClaim /\ MembersFollow

\* No step gives back what was spent, and the plan is made once.
LEMMA NoCutBefore ==
    ASSUME Inv, Inv', [Next]_vars, spent'.cuts = 0
    PROVE  spent.cuts = 0 /\ Members' = Members /\ \A p, q \in Peer : ~Cut(p, q)
<1>1. spent \in Budget /\ spent' \in Budget
  BY DEF Inv, TypeOK, Budget
<1>2. CASE UNCHANGED spent
  BY <1>1, <1>2 DEF Members, Cut, Budget
<1>3. spent' # [spent EXCEPT !.cuts = @ + 1]
  BY <1>1 DEF Budget
<1>4. \/ spent' = [spent EXCEPT !.gone = @ + 1] \/ spent' = [spent EXCEPT !.toggles = @ + 1]
      \/ spent' = [spent EXCEPT !.reports = @ + 1] \/ spent' = [spent EXCEPT !.failedDials = @ + 1]
      => spent'.cuts = spent.cuts /\ Members' = Members
  BY <1>1 DEF Budget, Members
<1>5. ASSUME NEW p \in Peer,
             \/ DialInvited(p) \/ Depart(p)
             \/ AnnounceMagnet(p) \/ PauseOrPlay(p) \/ SendReply(p)
             \/ \E b \in BOOLEAN : ReportBuffering(p, b)
      PROVE  UNCHANGED spent \/ spent' = [spent EXCEPT !.gone = @ + 1]
             \/ spent' = [spent EXCEPT !.toggles = @ + 1] \/ spent' = [spent EXCEPT !.reports = @ + 1]
  BY <1>5 DEF DialInvited, Depart, AnnounceMagnet, PauseOrPlay, SendReply, ReportBuffering
<1>6. ASSUME NEW p \in Peer, NEW q \in Peer,
             \/ Join(p, q) \/ HintedDial(p, q) \/ HintedDialFails(p, q)
             \/ Greet(p, q) \/ Cut(p, q) \/ Lose(p, q) \/ Notice(p, q)
      PROVE  UNCHANGED spent \/ spent' = [spent EXCEPT !.failedDials = @ + 1]
  BY <1>3, <1>6 DEF Join, HintedDial, HintedDialFails, Greet, Cut, Lose, Notice
<1>7. ASSUME NEW p \in Peer, NEW q \in Peer, Handle(p, q)
      PROVE  UNCHANGED spent
  BY <1>7 DEF Handle, RefuseHello, ReceiveHello, IgnoreRefused, ReceiveMagnet, ReceivePause,
              ReceiveBuffering, ReceiveHost, ReceiveBye, ReceivePeers, Drop
<1>8. CASE UNCHANGED vars
  BY <1>2, <1>8 DEF vars
<1>9. UNCHANGED spent \/ spent' = [spent EXCEPT !.gone = @ + 1]
      \/ spent' = [spent EXCEPT !.toggles = @ + 1] \/ spent' = [spent EXCEPT !.reports = @ + 1]
      \/ spent' = [spent EXCEPT !.failedDials = @ + 1]
  BY <1>5, <1>6, <1>7, <1>8 DEF Next, vars
<1>10. \A p, q \in Peer : ~Cut(p, q)
  BY <1>3 DEF Cut
<1> QED BY <1>2, <1>4, <1>9, <1>10

\* A member that wins among all it knows wins among the members.
LEMMA WinnerAmongMembers ==
    ASSUME NEW p \in Peer, NEW known \in SUBSET Peer, NEW M, NEW w \in M,
           w = TakeoverWinner(p, known)
    PROVE  w = TakeoverWinner(p, known \cap M)
<1>1. w \in known \cup {p} /\ \A q \in known \cup {p} : w <= q
  BY WinnerIsLeast
<1>2. known \cap M \in SUBSET Peer
  OBVIOUS
<1>3. w \in (known \cap M) \cup {p} /\ \A q \in (known \cap M) \cup {p} : w <= q
  BY <1>1
<1> QED BY <1>2, <1>3, WinnerIsLeast

\* The winner stays when somebody else goes.
LEMMA WinnerStays ==
    ASSUME NEW p \in Peer, NEW known \in SUBSET Peer, NEW q,
           q # TakeoverWinner(p, known)
    PROVE  TakeoverWinner(p, known \ {q}) = TakeoverWinner(p, known)
<1> DEFINE w == TakeoverWinner(p, known)
<1>1. w \in known \cup {p} /\ \A x \in known \cup {p} : w <= x
  BY WinnerIsLeast
<1>2. q # w
  OBVIOUS
<1> HIDE DEF w
<1>3. w \in (known \ {q}) \cup {p} /\ \A x \in (known \ {q}) \cup {p} : w <= x
  BY <1>1, <1>2
<1>4. w = TakeoverWinner(p, known \ {q})
  BY <1>3, WinnerIsLeast
<1> QED BY <1>4 DEF w

LEMMA HonestStays ==
    ASSUME gone \subseteq gone', Members' = Members, Creator \in Live' => Creator \in Live
    PROVE  \A x, y, m : Honest(x, y, m) => Honest(x, y, m)'
BY DEF Honest, Bye, Hello

\* A step of the mesh or a broadcast that moves no role.
LEMMA RolesStandOrder ==
    ASSUME Inv, Order, Members' = Members, MembersLinked',
           UNCHANGED <<gone, invite, roster, hostPeer, isHost>>,
           \A x \in Peer : outbox'[x] # <<>> => outbox[x] # <<>>,
           \A x \in Peer : \A m \in Items(outbox'[x]) : m.type # "Hello" /\ m # Bye,
           \A x, y \in Peer : \A m \in Mail(x, y)' : m \in Mail(x, y) \/ Honest(x, y, m)
    PROVE  Order'
<1>1. Live' = Live
  BY DEF Live, Joined
<1>2. \A x, y, m : Honest(x, y, m) => Honest(x, y, m)'
  BY <1>1, HonestStays
<1>3. HonestMail'
  <2> SUFFICES ASSUME NEW x \in Peer, NEW y \in Peer, NEW m \in Mail(y, x)'
               PROVE  Honest(y, x, m)'
    BY DEF HonestMail, Items, Bye
  <2>1. Honest(y, x, m)
    BY DEF Order, HonestMail
  <2> QED BY <1>2, <2>1
<1>4. OneClaim'
  BY <1>1 DEF Order, OneClaim
<1>5. MembersFollow'
  BY <1>1 DEF Order, MembersFollow, Follows
<1> QED BY <1>3, <1>4, <1>5 DEF Order

\* Who joins is no member: those are there, or left for good.
LEMMA JoinOrder ==
    ASSUME Inv, Order, Members' = Members, NEW p \in Peer, NEW h \in Peer, Join(p, h)
    PROVE  Order'
<1>1. p \notin Live /\ p \notin gone /\ p # Creator /\ p \notin Members /\ h # p
  BY DEF Join, Live, Joined, Order, MembersLinked
<1>2. /\ \A x \in Peer : invite'[x] = IF x = p THEN h ELSE invite[x]
      /\ UNCHANGED <<gone, link, hints, chan, outbox, roster, hostPeer, isHost>>
  BY DEF Join, Inv, TypeOK, roomVars
<1>3. Live' = Live \cup {p}
  <2>1. h # NoPeer
    BY PeerAssumption DEF NoPeer
  <2> QED BY <1>1, <1>2, <2>1 DEF Live, Joined
<1>4. MembersLinked'
  BY <1>1, <1>2, <1>3 DEF Order, MembersLinked
<1>5. \A x, y \in Peer : Mail(x, y)' = Mail(x, y)
  BY <1>2, MailUnchanged
<1>6. \A x, y, m : Honest(x, y, m) => Honest(x, y, m)'
  BY <1>1, <1>2, <1>3, HonestStays
<1>7. HonestMail'
  <2>1. \A x, y \in Peer : \A m \in Mail(y, x)' : Honest(y, x, m)'
    BY <1>5, <1>6 DEF Order, HonestMail
  <2> QED BY <1>2, <2>1 DEF Order, HonestMail, Items, Bye
<1>8. OneClaim' /\ MembersFollow'
  BY <1>1, <1>2, <1>3 DEF Order, OneClaim, MembersFollow, Follows
<1> QED BY <1>4, <1>7, <1>8 DEF Order

\* Members have met already.
LEMMA MeetsOrder ==
    ASSUME Inv, Order, Members' = Members, NEW p \in Peer, NEW q \in Peer, p # q, Meets(p, q),
           \A x \in Peer : hints'[x] \subseteq hints[x],
           UNCHANGED <<gone, invite, chan, roomVars>>
    PROVE  Order'
<1>1. \A x, y \in Peer :
        link'[x][y] = IF (x = p /\ y = q) \/ (x = q /\ y = p) THEN "new" ELSE link[x][y]
  BY DEF Inv, TypeOK, Meets
<1>2. UNCHANGED <<outbox, roster, hostPeer, isHost>> /\ Live' = Live
  BY DEF roomVars, Live, Joined
<1>3. ~({p, q} \subseteq Members)
  BY DEF Meets, Order, MembersLinked
<1>4. MembersLinked'
  <2>1. Members \subseteq Peer
    BY PlanAssumption DEF Members, Inv, TypeOK, Plan
  <2> QED BY <1>1, <1>2, <1>3, <2>1 DEF Order, MembersLinked
<1>5. \A x, y \in Peer : Mail(x, y)' = Mail(x, y)
  BY MailUnchanged
<1> QED BY <1>2, <1>4, <1>5, RolesStandOrder DEF Order, HonestMail

LEMMA DialInvitedOrder ==
    ASSUME Inv, Order, Members' = Members, NEW p \in Peer, DialInvited(p) PROVE Order'
<1>1. invite[p] \in Peer /\ invite[p] # p
  BY DEF DialInvited, Inv, TypeOK, Order, MembersLinked
<1>2. Meets(p, invite[p]) /\ UNCHANGED <<gone, invite, chan, hints, roomVars>>
  BY DEF DialInvited
<1> QED BY <1>1, <1>2, MeetsOrder

\* A flight that ends without a meeting changes nothing that matters.
LEMMA FlightEndsOrder ==
    ASSUME Inv, Order, Members' = Members, \A x \in Peer : hints'[x] \subseteq hints[x],
           UNCHANGED <<gone, invite, link, chan, roomVars>>
    PROVE  Order'
<1>1. UNCHANGED <<outbox, roster, hostPeer, isHost>> /\ Live' = Live
  BY DEF roomVars, Live, Joined
<1>2. MembersLinked'
  BY <1>1 DEF Order, MembersLinked
<1>3. \A x, y \in Peer : Mail(x, y)' = Mail(x, y)
  BY MailUnchanged
<1> QED BY <1>1, <1>2, <1>3, RolesStandOrder DEF Order, HonestMail

LEMMA HintedDialOrder ==
    ASSUME Inv, Order, Members' = Members, NEW p \in Peer, NEW q \in Peer,
           HintedDial(p, q) \/ HintedDialFails(p, q)
    PROVE  Order'
<1>1. p # q /\ \A x \in Peer : hints'[x] \subseteq hints[x]
  <2>1. q \in hints[p] /\ hints' = [hints EXCEPT ![p] = @ \ {q}]
    BY DEF HintedDial, HintedDialFails
  <2> QED BY <2>1 DEF Inv, TypeOK, Order, MembersLinked
<1>2. CASE HintedDial(p, q)
  BY <1>1, <1>2, MeetsOrder, FlightEndsOrder DEF HintedDial
<1>3. CASE HintedDialFails(p, q)
  BY <1>1, <1>3, FlightEndsOrder DEF HintedDialFails
<1> QED BY <1>2, <1>3

LEMMA GreetOrder ==
    ASSUME Inv, Order, Members' = Members, NEW p \in Peer, NEW q \in Peer, Greet(p, q)
    PROVE  Order'
<1>1. \A x, y \in Peer : link'[x][y] = IF x = p /\ y = q THEN "up" ELSE link[x][y]
  BY DEF Inv, TypeOK, Greet
<1>2. UNCHANGED <<gone, invite, hints, outbox, roster, hostPeer, isHost>> /\ Live' = Live
  BY DEF Greet, roomVars, Live, Joined
<1>3. link[p][q] = "new" /\ ~({p, q} \subseteq Members)
  BY DEF Greet, Order, MembersLinked
<1>4. MembersLinked'
  <2>1. Members \subseteq Peer
    BY PlanAssumption DEF Members, Inv, TypeOK, Plan
  <2> QED BY <1>1, <1>2, <1>3, <2>1 DEF Order, MembersLinked
<1>5. \A x, y \in Peer : Mail(x, y)' =
         IF x = p /\ y \in {q} THEN Mail(x, y) \cup {Hello(p)} ELSE Mail(x, y)
  BY MessagesTyped, SentMail DEF Inv, Greet
<1>6. Honest(p, q, Hello(p))
  BY <1>3 DEF Honest, Hello, Bye
<1>7. \A x, y \in Peer : \A m \in Mail(x, y)' : m \in Mail(x, y) \/ Honest(x, y, m)
  BY <1>5, <1>6
<1> QED BY <1>2, <1>4, <1>7, RolesStandOrder DEF Order, HonestMail

LEMMA LoseOrder ==
    ASSUME Inv, Order, Members' = Members, NEW p \in Peer, NEW q \in Peer, Lose(p, q)
    PROVE  Order'
<1>1. UNCHANGED <<gone, invite, link, hints, outbox, roster, hostPeer, isHost>> /\ Live' = Live
  BY DEF Lose, roomVars, Live, Joined
<1>2. MembersLinked'
  BY <1>1 DEF Order, MembersLinked
<1>3. ASSUME NEW x \in Peer, NEW y \in Peer, NEW m \in Mail(x, y)' PROVE m \in Mail(x, y)
  <2>1. m \in Items(chan'[x][y])
    BY <1>3 DEF Mail, Items
  <2>2. CASE x = q /\ y = p
    <3> DEFINE s == chan[q][p]
    <3>1. s \in Seq(Message) /\ s # <<>> /\ chan'[x][y] = SubSeq(s, 1, Len(s) - 1)
      BY <2>2 DEF Lose, Inv, TypeOK
    <3>2. Len(s) \in Nat \ {0}
      BY <3>1
    <3> HIDE DEF s
    <3>3. PICK i \in 1..Len(SubSeq(s, 1, Len(s) - 1)) : m = SubSeq(s, 1, Len(s) - 1)[i]
      BY <2>1, <3>1 DEF Items
    <3>4. Len(SubSeq(s, 1, Len(s) - 1)) = Len(s) - 1
          /\ \A j \in 1..(Len(s) - 1) : SubSeq(s, 1, Len(s) - 1)[j] = s[j]
      BY <3>1, <3>2
    <3>5. i \in 1..Len(s) /\ m = s[i]
      BY <3>2, <3>3, <3>4
    <3> QED BY <2>2, <3>5 DEF Mail, Items, s
  <2>3. CASE ~(x = q /\ y = p)
    <3>1. chan'[x][y] = chan[x][y]
      BY <2>3 DEF Lose, Inv, TypeOK
    <3> QED BY <2>1, <3>1 DEF Mail
  <2> QED BY <2>2, <2>3
<1> QED BY <1>1, <1>2, <1>3, RolesStandOrder DEF Order, HonestMail

\* A stream is found dead only where its other end left.
LEMMA NoticeOrder ==
    ASSUME Inv, Order, Members' = Members, NEW p \in Peer, NEW q \in Peer, Notice(p, q)
    PROVE  Order'
<1>1. \A x, y \in Peer : link'[x][y] = IF x = p /\ y = q THEN "none" ELSE link[x][y]
  BY DEF Inv, TypeOK, Notice
<1>2. UNCHANGED <<gone, invite, hints, outbox, roster, hostPeer, isHost>> /\ Live' = Live
  BY DEF Notice, roomVars, Live, Joined
<1>3. q \in gone /\ q \notin Live
  BY DEF Notice, Order, MembersLinked, Live, Joined
<1>4. MembersLinked'
  <2>1. Members \subseteq Peer
    BY PlanAssumption DEF Members, Inv, TypeOK, Plan
  <2> QED BY <1>1, <1>2, <1>3, <2>1 DEF Order, MembersLinked
<1>5. \A x, y \in Peer : Mail(x, y)' =
         IF x = q /\ y \in {p} THEN Mail(x, y) \cup {Bye} ELSE Mail(x, y)
  BY MessagesTyped, SentMail DEF Inv, Notice
<1>6. Honest(q, p, Bye)
  BY <1>3 DEF Honest, Bye
<1>7. \A x, y \in Peer : \A m \in Mail(x, y)' : m \in Mail(x, y) \/ Honest(x, y, m)
  BY <1>5, <1>6
<1> QED BY <1>2, <1>4, <1>7, RolesStandOrder DEF Order, HonestMail

\* Who leaves says a true goodbye, and the others stay as they were.
LEMMA DepartOrder ==
    ASSUME Inv, Order, Members' = Members, NEW p \in Peer, Depart(p) PROVE Order'
<1>1. /\ gone' = gone \cup {p} /\ p \in Live
      /\ \A x \in Peer : /\ invite'[x] = IF x = p THEN NoPeer ELSE invite[x]
                         /\ hints'[x] = IF x = p THEN {} ELSE hints[x]
                         /\ outbox'[x] = IF x = p THEN <<>> ELSE outbox[x]
                         /\ x # p => /\ roster'[x] = roster[x] /\ hostPeer'[x] = hostPeer[x]
                                     /\ isHost'[x] = isHost[x]
      /\ \A x, y \in Peer : link'[x][y] = IF x = p THEN "none"
                                          ELSE IF y = p /\ link[x][p] # "none" THEN "down"
                                          ELSE link[x][y]
  BY DEF Depart, Inv, TypeOK
<1>2. Live' = Live \ {p} /\ p # NoPeer
  BY <1>1, PeerAssumption DEF Live, Joined, NoPeer
<1>3. MembersLinked'
  <2>1. Members \subseteq Peer
    BY PlanAssumption DEF Members, Inv, TypeOK, Plan
  <2>2. \A x \in Peer : x \notin hints'[x] /\ invite'[x] # x /\ link'[x][x] = "none"
    BY <1>1, PeerAssumption DEF Order, MembersLinked, NoPeer
  <2>3. \A x, y \in Peer : link'[x][y] = "down" => y \in gone'
    BY <1>1 DEF Order, MembersLinked
  <2>4. \A x \in Members : x \in Live' \cup gone'
    BY <1>1, <1>2 DEF Order, MembersLinked
  <2>5. \A x, y \in Members : /\ link'[x][y] # "new"
                              /\ {x, y} \subseteq Live' /\ x # y => link'[x][y] = "up"
    BY <1>1, <1>2, <2>1 DEF Order, MembersLinked
  <2> QED BY <2>2, <2>3, <2>4, <2>5 DEF MembersLinked
<1>4. ASSUME NEW x \in Peer, NEW y \in Peer, NEW m \in Mail(x, y)'
      PROVE  m \in Mail(x, y) \/ (m = Bye /\ x = p)
  <2>1. PICK told \in SUBSET Connected(p) :
           chan' = [z \in Peer |-> [Delivered(chan, p, Bye, told)[z] EXCEPT ![p] = <<>>]]
    BY DEF Depart
  <2> DEFINE sent == Delivered(chan, p, Bye, told)
  <2>2. /\ sent \in Channels /\ chan \in Channels /\ Bye \in Message
        /\ \A a, b \in Peer : sent[a][b] = IF a = p /\ b \in told THEN Append(chan[a][b], Bye)
                                                                  ELSE chan[a][b]
    <3>1. chan \in Channels /\ Bye \in Message
      BY MessagesTyped DEF Inv, TypeOK, Channels
    <3> QED BY <3>1, DeliveredIs
  <2> HIDE DEF sent
  <2>3. chan'[x][y] = IF y = p THEN <<>> ELSE sent[x][y]
    BY <2>1, <2>2 DEF Channels, sent
  <2>4. m \in Items(chan'[x][y]) /\ chan[x][y] \in Seq(Message)
    BY <1>4, <2>2 DEF Mail, Items, Channels
  <2>5. y # p
    <3>1. Items(<<>>) = {}
      BY DEF Items
    <3> QED BY <2>3, <2>4, <3>1
  <2>6. Items(Append(chan[x][y], Bye)) = Items(chan[x][y]) \cup {Bye}
    BY <2>2, <2>4, ItemsOfAppend
  <2> QED BY <2>2, <2>3, <2>4, <2>5, <2>6 DEF Mail
<1>5. HonestMail'
  <2>1. \A x, y, m : Honest(x, y, m) => Honest(x, y, m)'
    BY <1>1, <1>2, HonestStays
  <2>2. \A x, y \in Peer : \A m \in Mail(y, x)' : Honest(y, x, m)'
    <3> SUFFICES ASSUME NEW x \in Peer, NEW y \in Peer, NEW m \in Mail(y, x)'
                 PROVE  Honest(y, x, m)'
      OBVIOUS
    <3>1. CASE m \in Mail(y, x)
      BY <2>1, <3>1 DEF Order, HonestMail
    <3>2. CASE m = Bye /\ y = p
      BY <1>1, <3>2 DEF Honest, Bye
    <3> QED BY <1>4, <3>1, <3>2
  <2>3. \A x \in Peer : \A m \in Items(outbox'[x]) : m.type # "Hello" /\ m # Bye
    <3> SUFFICES ASSUME NEW x \in Peer, NEW m \in Items(outbox'[x])
                 PROVE  m.type # "Hello" /\ m # Bye
      OBVIOUS
    <3>1. Items(<<>>) = {}
      BY DEF Items
    <3>2. m \in Items(outbox[x])
      BY <1>1, <3>1
    <3> QED BY <3>2 DEF Order, HonestMail
  <2> QED BY <2>2, <2>3 DEF HonestMail, Items, Bye
<1>6. OneClaim'
  <2> SUFFICES ASSUME Creator \in Live'
               PROVE  /\ hostPeer'[Creator] = Creator
                      /\ \A x \in Peer : /\ isHost'[x] <=> x = Creator
                                         /\ hostPeer'[x] \in {NoPeer, Creator}
                                         /\ outbox'[x] # <<>> => x = Creator
    BY DEF OneClaim
  <2>1. Creator \in Live /\ Creator # p
    BY <1>2
  <2>2. hostPeer'[p] = NoPeer /\ isHost'[p] = FALSE
    BY DEF Depart, Inv, TypeOK
  <2> QED BY <1>1, <2>1, <2>2, PeerAssumption DEF Order, OneClaim
<1>7. MembersFollow'
  <2> SUFFICES ASSUME NEW x \in Members \cap Live' PROVE Follows(x)'
    BY DEF MembersFollow
  <2>1. x \in Peer /\ x # p /\ x \in Members \cap Live
    BY <1>2 DEF Live
  <2>2. UNCHANGED <<roster[x], hostPeer[x], isHost[x]>>
    BY <1>1, <2>1
  <2> QED BY <1>2, <2>1, <2>2 DEF Order, MembersFollow, Follows
<1> QED BY <1>3, <1>5, <1>6, <1>7 DEF Order

\* A broadcast puts one message on its way, to whomever it reaches.
LEMMA BroadcastAdds ==
    ASSUME Inv, NEW p \in Peer, NEW msg \in Message, Broadcast(p, msg)
    PROVE  \A x, y \in Peer : \A m \in Mail(x, y)' : m \in Mail(x, y) \/ (x = p /\ m = msg)
<1>1. PICK to : chan' = Delivered(chan, p, msg, to)
  BY DEF Broadcast
<1> QED BY <1>1, SentMail DEF Inv

LEMMA SpeakOrder ==
    ASSUME Inv, Order, Members' = Members, NEW p \in Peer, NEW msg \in Message, Broadcast(p, msg),
           msg.type \in {"Magnet", "Pause", "Buffering"}, msg.type = "Magnet" => p = Creator,
           UNCHANGED <<gone, invite, link, hints, outbox, roster, hostPeer, isHost>>
    PROVE  Order'
<1>1. MembersLinked'
  BY DEF Order, MembersLinked, Live, Joined
<1>2. \A y \in Peer : Honest(p, y, msg)
  BY DEF Honest, Bye
<1>3. \A x, y \in Peer : \A m \in Mail(x, y)' : m \in Mail(x, y) \/ (x = p /\ m = msg)
  BY BroadcastAdds
<1> QED BY <1>1, <1>2, <1>3, RolesStandOrder DEF Order, HonestMail

LEMMA AnnounceOrder ==
    ASSUME Inv, Order, Members' = Members, NEW p \in Peer, AnnounceMagnet(p) PROVE Order'
<1>1. MagnetMsg \in Message /\ MagnetMsg.type = "Magnet"
  BY MessagesTyped DEF MagnetMsg
<1> QED BY <1>1, SpeakOrder DEF AnnounceMagnet

LEMMA PauseOrPlayOrder ==
    ASSUME Inv, Order, Members' = Members, NEW p \in Peer, PauseOrPlay(p) PROVE Order'
<1>1. play'[p] \in {"playing", "paused"}
  BY DEF Inv, TypeOK, PauseOrPlay
<1>2. Pause(play'[p]) \in Message /\ Pause(play'[p]).type = "Pause"
  BY <1>1, MessagesTyped DEF Pause
<1> QED BY <1>2, SpeakOrder DEF PauseOrPlay

LEMMA ReportOrder ==
    ASSUME Inv, Order, Members' = Members, NEW p \in Peer, NEW b \in BOOLEAN, ReportBuffering(p, b)
    PROVE  Order'
<1>1. Buffering(b) \in Message /\ Buffering(b).type = "Buffering"
  BY MessagesTyped DEF Buffering
<1> QED BY <1>1, SpeakOrder DEF ReportBuffering, roomVars

\* An answer is the creator's while the creator is there.
LEMMA SendReplyOrder ==
    ASSUME Inv, Order, Members' = Members, NEW p \in Peer, SendReply(p) PROVE Order'
<1> DEFINE s == outbox[p]
           msg == Head(s)
           left == Resolved(Tail(s), play[p])
<1>1. s # <<>> /\ s \in Seq(Message) /\ play[p] \in PlayState
  BY DEF SendReply, Inv, TypeOK
<1>2. /\ Broadcast(p, msg) /\ outbox' = [outbox EXCEPT ![p] = left]
      /\ UNCHANGED <<gone, invite, link, hints, roster, hostPeer, isHost>>
  BY DEF SendReply, Resolved
<1>3. \A m \in Items(s) : m.type # "Hello" /\ m # Bye
  BY DEF Order, HonestMail
<1>4. msg \in Message /\ msg.type # "Hello" /\ msg # Bye
  BY <1>1, <1>3, ItemsOfTail
<1>5. \A m \in Items(left) : m.type # "Hello" /\ m # Bye
  BY <1>1, <1>3, ResolvedIs
<1>6. Creator \in Live => p = Creator
  BY <1>1 DEF Order, OneClaim
<1> HIDE DEF msg, left
<1>7. outbox'[p] = left /\ \A x \in Peer : x # p => outbox'[x] = outbox[x]
  BY <1>2 DEF Inv, TypeOK
<1>8. \A x \in Peer : /\ outbox'[x] # <<>> => outbox[x] # <<>>
                      /\ \A m \in Items(outbox'[x]) : m.type # "Hello" /\ m # Bye
  BY <1>1, <1>5, <1>7 DEF Order, HonestMail
<1>9. MembersLinked'
  BY <1>2 DEF Order, MembersLinked, Live, Joined
<1>10. \A y \in Peer : Honest(p, y, msg)
  BY <1>4, <1>6 DEF Honest
<1>11. \A x, y \in Peer : \A m \in Mail(x, y)' : m \in Mail(x, y) \/ (x = p /\ m = msg)
  BY <1>2, <1>4, BroadcastAdds
<1> QED BY <1>2, <1>8, <1>9, <1>10, <1>11, RolesStandOrder

\* What a read finds.
LEMMA HonestHead ==
    ASSUME Inv, Order, NEW p \in Peer, NEW q \in Peer, NEW type, Receives(p, q, type)
    PROVE  LET m == Head(chan[q][p]) IN
           /\ m \in Message /\ m.type = type /\ Honest(q, p, m) /\ p \in Live
           /\ type = "Bye" => m = Bye
           /\ type = "Host" => m.id = q
           /\ chan' = Consumed(p, q) => \A x, y \in Peer : Mail(x, y)' \subseteq Mail(x, y)
<1> DEFINE m == Head(chan[q][p])
<1>1. chan[q][p] # <<>> /\ m.type = type /\ p \in Live
  BY DEF Receives
<1>2. m \in Mail(q, p) /\ m \in Message
  <2>1. chan[q][p] \in Seq(Message)
    BY DEF Inv, TypeOK
  <2> QED BY <1>1, <2>1, ItemsOfTail DEF Mail
<1>3. chan' = Consumed(p, q) => \A x, y \in Peer : Mail(x, y)' \subseteq Mail(x, y)
  BY <1>1, ReadMail DEF Inv
<1>4. m.type = "Host" => m.id = q
  BY <1>1, ReadKeeps DEF Inv
<1> HIDE DEF m
<1>5. Honest(q, p, m)
  BY <1>2 DEF Order, HonestMail
<1>6. type = "Bye" => m = Bye
  BY <1>1, <1>2 DEF Message, Bye
<1> QED BY <1>1, <1>2, <1>3, <1>4, <1>5, <1>6 DEF m

\* A read, given what it does to the roles.
LEMMA TakeOrder ==
    ASSUME Inv, Order, Members' = Members,
           UNCHANGED <<gone, invite, link>>,
           \A x \in Peer : x \notin hints'[x],
           \A x \in Peer : \A m \in Items(outbox'[x]) : m.type # "Hello" /\ m # Bye,
           \A x, y \in Peer : \A m \in Mail(x, y)' : m \in Mail(x, y) \/ Honest(x, y, m),
           OneClaim', MembersFollow'
    PROVE  Order'
<1>1. Live' = Live
  BY DEF Live, Joined
<1>2. \A x, y, m : Honest(x, y, m) => Honest(x, y, m)'
  BY <1>1, HonestStays
<1>3. HonestMail'
  <2> SUFFICES ASSUME NEW x \in Peer, NEW y \in Peer, NEW m \in Mail(y, x)'
               PROVE  Honest(y, x, m)'
    BY DEF HonestMail, Items, Bye
  <2>1. Honest(y, x, m)
    BY DEF Order, HonestMail
  <2> QED BY <1>2, <2>1
<1>4. MembersLinked'
  BY <1>1 DEF Order, MembersLinked
<1> QED BY <1>3, <1>4 DEF Order

\* What a read that moves no role has to show.
LEMMA QuietReadOrder ==
    ASSUME Inv, Order, Members' = Members, NEW p \in Peer, NEW q \in Peer, NEW type,
           Receives(p, q, type), chan' = Consumed(p, q),
           \A x \in Peer : x \notin hints'[x],
           UNCHANGED <<gone, invite, link, outbox, roster, hostPeer, isHost>>
    PROVE  Order'
<1>1. \A x, y \in Peer : Mail(x, y)' \subseteq Mail(x, y)
  BY HonestHead
<1>2. MembersLinked'
  BY DEF Order, MembersLinked, Live, Joined
<1> QED BY <1>1, <1>2, RolesStandOrder DEF Order, HonestMail

LEMMA QuietReadsOrder ==
    ASSUME Inv, Order, Members' = Members, NEW p \in Peer, NEW q \in Peer,
           \/ RefuseHello(p, q) \/ IgnoreRefused(p, q) \/ ReceivePause(p, q)
           \/ ReceiveBuffering(p, q) \/ ReceivePeers(p, q)
    PROVE  Order'
<1>1. CASE RefuseHello(p, q) \/ IgnoreRefused(p, q) \/ ReceivePause(p, q) \/ ReceiveBuffering(p, q)
  <2>1. /\ \E type : Receives(p, q, type)
        /\ chan' = Consumed(p, q)
        /\ UNCHANGED <<gone, invite, link, hints, outbox, roster, hostPeer, isHost>>
    BY <1>1 DEF RefuseHello, IgnoreRefused, ReceivePause, ReceiveBuffering, Drop, roomVars
  <2>2. \A x \in Peer : x \notin hints'[x]
    BY <2>1 DEF Order, MembersLinked
  <2> QED BY <2>1, <2>2, QuietReadOrder
<1>2. CASE ReceivePeers(p, q)
  <2>1. /\ Receives(p, q, "Peers") /\ chan' = Consumed(p, q)
        /\ UNCHANGED <<gone, invite, link, outbox, roster, hostPeer, isHost>>
    BY <1>2 DEF ReceivePeers, roomVars
  <2>2. \A x \in Peer : x \notin hints'[x]
    BY <1>2 DEF ReceivePeers, Inv, TypeOK, Order, MembersLinked
  <2> QED BY <2>1, <2>2, QuietReadOrder
<1> QED BY <1>1, <1>2

LEMMA MembersTyped == ASSUME Inv PROVE Members \subseteq Peer /\ Creator \in Members /\ NoPeer \notin Peer
BY PlanAssumption, PeerAssumption DEF Members, Inv, TypeOK, Plan, NoPeer

LEMMA AdmitsSelf == ASSUME NEW p \in Peer PROVE Admits(p, p)
<1>1. Speaks(p) \in Nat
  BY VersionAssumption DEF Speaks
<1> QED BY <1>1 DEF Admits, Understands, ProtocolVersion

\* A greeting that reaches a member comes from a guest, which is no host.
LEMMA ReceiveHelloOrder ==
    ASSUME Inv, Order, Members' = Members, NEW p \in Peer, NEW q \in Peer, ReceiveHello(p, q)
    PROVE  Order'
<1> DEFINE m == Head(chan[q][p])
           answer == Answer(p, roster'[p])
<1>1. /\ Receives(p, q, "Hello") /\ chan' = Consumed(p, q)
      /\ roster' = [roster EXCEPT ![p] = @ \cup {q}]
      /\ hostPeer' = [hostPeer EXCEPT ![p] = IF m.isHost THEN q ELSE @]
      /\ outbox' = [outbox EXCEPT ![p] = IF isHost[p] THEN answer ELSE <<>>]
      /\ UNCHANGED <<gone, invite, link, hints, isHost>>
  BY DEF ReceiveHello, Drop
<1>2. /\ m = Hello(q) /\ ~({p, q} \subseteq Members)
      /\ \A x, y \in Peer : Mail(x, y)' \subseteq Mail(x, y)
  BY <1>1, HonestHead DEF Honest
<1>3. m.isHost => q = Creator
  <2>1. m = [type |-> "Hello", isHost |-> q = Creator]
    BY <1>2 DEF Hello
  <2> HIDE DEF m
  <2>2. CASE q # Creator
    <3>1. m = [type |-> "Hello", isHost |-> FALSE]
      BY <2>1, <2>2
    <3> QED BY <3>1
  <2> QED BY <2>2
<1> HIDE DEF m
<1>4. /\ \A x \in Peer : x # p => /\ roster'[x] = roster[x] /\ hostPeer'[x] = hostPeer[x]
                                  /\ outbox'[x] = outbox[x]
      /\ roster'[p] = roster[p] \cup {q} /\ roster'[p] \in SUBSET Peer
      /\ hostPeer'[p] \in {hostPeer[p], Creator}
      /\ q # Creator => hostPeer'[p] = hostPeer[p]
      /\ outbox'[p] = IF isHost[p] THEN answer ELSE <<>>
  <2>1. hostPeer' = [hostPeer EXCEPT ![p] = IF m.isHost THEN q ELSE hostPeer[p]]
    BY <1>1 DEF Inv, TypeOK
  <2>2. CASE m.isHost
    BY <1>1, <1>3, <2>1, <2>2 DEF Inv, TypeOK
  <2>3. CASE ~m.isHost
    BY <1>1, <2>1, <2>3 DEF Inv, TypeOK
  <2> QED BY <2>2, <2>3
<1>5. \A n \in Items(answer) : n.type # "Hello" /\ n # Bye
  BY <1>4, AnswerIs
<1> HIDE DEF answer
<1>6. \A x \in Peer : \A n \in Items(outbox'[x]) : n.type # "Hello" /\ n # Bye
  <2> SUFFICES ASSUME NEW x \in Peer, NEW n \in Items(outbox'[x])
               PROVE  n.type # "Hello" /\ n # Bye
    OBVIOUS
  <2>1. Items(<<>>) = {}
    BY DEF Items
  <2>2. CASE x = p
    BY <1>4, <1>5, <2>1, <2>2
  <2>3. CASE x # p
    BY <1>4, <2>3 DEF Order, HonestMail
  <2> QED BY <2>2, <2>3
<1>7. Live' = Live
  BY <1>1 DEF Live, Joined
<1>8. OneClaim'
  <2> SUFFICES ASSUME Creator \in Live, NEW x \in Peer
               PROVE  /\ hostPeer'[Creator] = Creator
                      /\ isHost[x] <=> x = Creator
                      /\ hostPeer'[x] \in {NoPeer, Creator}
                      /\ outbox'[x] # <<>> => x = Creator
    BY <1>1, <1>7 DEF OneClaim
  <2> QED BY <1>4, PeerAssumption DEF Order, OneClaim
<1>9. MembersFollow'
  <2> SUFFICES ASSUME NEW x \in Members \cap Live PROVE Follows(x)'
    BY <1>7 DEF MembersFollow
  <2>1. x \in Peer /\ Follows(x)
    BY DEF Live, Order, MembersFollow
  <2>2. CASE x # p
    BY <1>1, <1>4, <1>7, <2>1, <2>2 DEF Follows
  <2>3. CASE x = p
    <3>1. q \notin Members /\ q # Creator
      BY <1>2, <2>3, MembersTyped
    <3>2. hostPeer'[x] = hostPeer[x] /\ roster'[x] \cap Members = roster[x] \cap Members
          /\ roster[x] \subseteq roster'[x]
      BY <1>4, <2>3, <3>1
    <3> QED BY <1>1, <1>7, <2>1, <3>2 DEF Follows
  <2> QED BY <2>2, <2>3
<1>10. \A x \in Peer : x \notin hints'[x]
  BY <1>1 DEF Order, MembersLinked
<1> QED BY <1>1, <1>2, <1>6, <1>8, <1>9, <1>10, TakeOrder

\* The film binds nobody that follows somebody, and its sender is the creator while
\* the creator is there.
LEMMA ReceiveMagnetOrder ==
    ASSUME Inv, Order, Members' = Members, NEW p \in Peer, NEW q \in Peer, ReceiveMagnet(p, q)
    PROVE  Order'
<1>1. /\ Receives(p, q, "Magnet") /\ chan' = Consumed(p, q)
      /\ hostPeer' = [hostPeer EXCEPT ![p] = IF @ = NoPeer THEN q ELSE @]
      /\ UNCHANGED <<gone, invite, link, hints, outbox, roster, isHost>>
  BY DEF ReceiveMagnet, Drop
<1>2. /\ Creator \in Live => q = Creator
      /\ \A x, y \in Peer : Mail(x, y)' \subseteq Mail(x, y)
  BY <1>1, HonestHead DEF Honest
<1>3. /\ \A x \in Peer : x # p => hostPeer'[x] = hostPeer[x]
      /\ hostPeer'[p] = IF hostPeer[p] = NoPeer THEN q ELSE hostPeer[p]
      /\ Live' = Live
  BY <1>1 DEF Inv, TypeOK, Live, Joined
<1>4. OneClaim'
  <2> SUFFICES ASSUME Creator \in Live, NEW x \in Peer
               PROVE  /\ hostPeer'[Creator] = Creator
                      /\ isHost[x] <=> x = Creator
                      /\ hostPeer'[x] \in {NoPeer, Creator}
                      /\ outbox[x] # <<>> => x = Creator
    BY <1>1, <1>3 DEF OneClaim
  <2> QED BY <1>2, <1>3, PeerAssumption DEF Order, OneClaim
<1>5. MembersFollow'
  <2> SUFFICES ASSUME NEW x \in Members \cap Live PROVE Follows(x)'
    BY <1>3 DEF MembersFollow
  <2>1. x \in Peer /\ Follows(x)
    BY DEF Live, Order, MembersFollow
  <2>2. hostPeer'[x] = hostPeer[x]
    BY <1>3, <2>1, MembersTyped DEF Follows
  <2> QED BY <1>1, <1>3, <2>1, <2>2 DEF Follows
<1>6. /\ \A x \in Peer : x \notin hints'[x]
      /\ \A x \in Peer : \A m \in Items(outbox'[x]) : m.type # "Hello" /\ m # Bye
  BY <1>1 DEF Order, MembersLinked, HonestMail
<1> QED BY <1>1, <1>2, <1>4, <1>5, <1>6, TakeOrder

\* A claim is believed from the smallest this peer knows.
LEMMA ReceiveHostOrder ==
    ASSUME Inv, Order, Members' = Members, NEW p \in Peer, NEW q \in Peer, ReceiveHost(p, q)
    PROVE  Order'
<1> DEFINE believed == q = TakeoverWinner(p, roster[p])
<1>1. /\ Receives(p, q, "Host") /\ chan' = Consumed(p, q)
      /\ UNCHANGED <<gone, invite, link, hints, outbox, roster>>
  BY DEF ReceiveHost, Drop
<1>2. /\ Creator \in Live => q = Creator
      /\ Head(chan[q][p]).id = q
      /\ \A x, y \in Peer : Mail(x, y)' \subseteq Mail(x, y)
  BY <1>1, HonestHead DEF Honest
<1>3. /\ hostPeer' = [hostPeer EXCEPT ![p] = IF believed THEN q ELSE @]
      /\ isHost' = [isHost EXCEPT ![p] = IF believed THEN q = p ELSE @]
  BY <1>2 DEF ReceiveHost
<1>4. /\ \A x \in Peer : x # p => hostPeer'[x] = hostPeer[x] /\ isHost'[x] = isHost[x]
      /\ believed => hostPeer'[p] = q /\ (isHost'[p] <=> q = p)
      /\ ~believed => hostPeer'[p] = hostPeer[p] /\ isHost'[p] = isHost[p]
      /\ Live' = Live
  <2> HIDE DEF believed
  <2>1. CASE believed
    BY <1>1, <1>3, <2>1 DEF Inv, TypeOK, Live, Joined
  <2>2. CASE ~believed
    BY <1>1, <1>3, <2>2 DEF Inv, TypeOK, Live, Joined
  <2> QED BY <2>1, <2>2
<1>5. believed => q = TakeoverWinner(p, roster[p]) /\ q \in roster[p] \cup {p}
  BY TakeoverWinnerIs DEF Inv, TypeOK
<1> HIDE DEF believed
<1>6. OneClaim'
  <2> SUFFICES ASSUME Creator \in Live, NEW x \in Peer
               PROVE  /\ hostPeer'[Creator] = Creator
                      /\ isHost'[x] <=> x = Creator
                      /\ hostPeer'[x] \in {NoPeer, Creator}
                      /\ outbox[x] # <<>> => x = Creator
    BY <1>1, <1>4 DEF OneClaim
  <2>1. CASE x # p
    BY <1>2, <1>4, <2>1, PeerAssumption DEF Order, OneClaim
  <2>2. CASE x = p
    BY <1>2, <1>4, <2>2, PeerAssumption DEF Order, OneClaim
  <2> QED BY <2>1, <2>2
<1>7. MembersFollow'
  <2> SUFFICES ASSUME NEW x \in Members \cap Live PROVE Follows(x)'
    BY <1>4 DEF MembersFollow
  <2>1. x \in Peer /\ Follows(x)
    BY DEF Live, Order, MembersFollow
  <2>2. CASE ~(x = p /\ believed)
    BY <1>1, <1>4, <2>1, <2>2 DEF Follows
  <2>3. CASE x = p /\ believed
    <3>1. Admits(p, q)
      BY <1>5, <2>3, AdmitsSelf DEF Inv, AdmissionOK
    <3>2. q \in Members => q = TakeoverWinner(p, roster[p] \cap Members)
      <4>1. roster[p] \in SUBSET Peer /\ q = TakeoverWinner(p, roster[p])
        BY <1>5, <2>3 DEF Inv, TypeOK
      <4> QED BY <4>1, WinnerAmongMembers
    <3> QED BY <1>1, <1>4, <2>1, <2>3, <3>1, <3>2 DEF Follows
  <2> QED BY <2>2, <2>3
<1>8. /\ \A x \in Peer : x \notin hints'[x]
      /\ \A x \in Peer : \A m \in Items(outbox'[x]) : m.type # "Hello" /\ m # Bye
  BY <1>1 DEF Order, MembersLinked, HonestMail
<1> QED BY <1>1, <1>2, <1>6, <1>7, <1>8, TakeOrder

\* A farewell is heard of somebody gone: whoever followed it follows the smallest left,
\* and who is that itself claims the role, the creator being gone.
LEMMA ReceiveByeOrder ==
    ASSUME Inv, Order, Members' = Members, NEW p \in Peer, NEW q \in Peer, ReceiveBye(p, q)
    PROVE  Order'
<1> DEFINE left   == roster[p] \ {q}
           winner == TakeoverWinner(p, left)
           takes  == q = hostPeer[p] /\ winner = p
<1>1. /\ Receives(p, q, "Bye")
      /\ UNCHANGED <<gone, invite, link, hints, outbox>>
  BY DEF ReceiveBye
<1>2. q \in gone /\ q \notin Live /\ p \in Live /\ p # q /\ chan[q][p] # <<>>
  <2>1. Honest(q, p, Bye) /\ p \in Live
    BY <1>1, HonestHead
  <2> QED BY <1>1, <2>1 DEF Honest, Live, Joined, Receives
<1>3. left \in SUBSET Peer /\ winner \in left \cup {p}
  <2>1. left \in SUBSET Peer
    BY DEF Inv, TypeOK
  <2> HIDE DEF left
  <2> QED BY <2>1, TakeoverWinnerIs
<1>4. /\ roster' = [roster EXCEPT ![p] = left]
      /\ hostPeer' = [hostPeer EXCEPT ![p] = IF q = @ THEN winner ELSE @]
      /\ isHost' = [isHost EXCEPT ![p] = @ \/ takes]
      /\ \E to \in IF takes THEN Recipients(p) ELSE {{}} :
            chan' = Delivered(Consumed(p, q), p, Host(p), to)
  BY DEF ReceiveBye
<1> HIDE DEF winner
<1>5. /\ \A x \in Peer : x # p => /\ roster'[x] = roster[x] /\ hostPeer'[x] = hostPeer[x]
                                  /\ isHost'[x] = isHost[x]
      /\ roster'[p] = left
      /\ hostPeer'[p] = IF q = hostPeer[p] THEN winner ELSE hostPeer[p]
  BY <1>4 DEF Inv, TypeOK
<1>6. isHost'[p] <=> isHost[p] \/ takes
  <2> HIDE DEF takes
  <2> QED BY <1>4 DEF Inv, TypeOK
<1>7. takes => Creator \notin Live
  BY <1>2, MembersTyped DEF Order, OneClaim
<1>8. Live' = Live
  BY <1>1 DEF Live, Joined
<1>9. ASSUME NEW x \in Peer, NEW y \in Peer, NEW m \in Mail(x, y)'
      PROVE  m \in Mail(x, y) \/ Honest(x, y, m)
  <2>1. PICK to \in IF takes THEN Recipients(p) ELSE {{}} :
           chan' = Delivered(Consumed(p, q), p, Host(p), to)
    BY <1>4
  <2> DEFINE read == Consumed(p, q)
  <2>2. /\ read \in Channels
        /\ \A a, b \in Peer : read[a][b] = IF a = q /\ b = p THEN Tail(chan[a][b]) ELSE chan[a][b]
    BY <1>2, ConsumedIs DEF Inv
  <2>3. Host(p) \in Message
    BY MessagesTyped
  <2>4. /\ Delivered(read, p, Host(p), to) \in Channels
        /\ \A a, b \in Peer : Delivered(read, p, Host(p), to)[a][b] =
              IF a = p /\ b \in to THEN Append(read[a][b], Host(p)) ELSE read[a][b]
    BY <2>2, <2>3, DeliveredIs
  <2> HIDE DEF read
  <2>5. chan'[x][y] = IF x = p /\ y \in to THEN Append(read[x][y], Host(p)) ELSE read[x][y]
    BY <2>1, <2>4 DEF read
  <2>6. Items(read[x][y]) \subseteq Mail(x, y)
    <3>1. CASE x = q /\ y = p
      <4>1. chan[q][p] \in Seq(Message) /\ read[x][y] = Tail(chan[q][p])
        BY <2>2, <3>1 DEF Inv, TypeOK
      <4> QED BY <1>2, <3>1, <4>1, ItemsOfTail DEF Mail
    <3>2. CASE ~(x = q /\ y = p)
      BY <2>2, <3>2 DEF Mail
    <3> QED BY <3>1, <3>2
  <2>7. m \in Items(chan'[x][y])
    BY <1>9 DEF Mail, Items
  <2>8. CASE x = p /\ y \in to
    <3>1. takes
      BY <2>8
    <3>2. Items(chan'[x][y]) = Items(read[x][y]) \cup {Host(p)}
      <4>1. read[x][y] \in Seq(Message)
        BY <2>2 DEF Channels
      <4> QED BY <2>3, <2>5, <2>8, <4>1, ItemsOfAppend
    <3>3. Honest(x, y, Host(p))
      BY <1>7, <3>1 DEF Honest, Host, Bye
    <3> QED BY <2>6, <2>7, <3>2, <3>3
  <2>9. CASE ~(x = p /\ y \in to)
    BY <2>5, <2>6, <2>7, <2>9
  <2> QED BY <2>8, <2>9
<1>10. OneClaim'
  <2> SUFFICES ASSUME Creator \in Live, NEW x \in Peer
               PROVE  /\ hostPeer'[Creator] = Creator
                      /\ isHost'[x] <=> x = Creator
                      /\ hostPeer'[x] \in {NoPeer, Creator}
                      /\ outbox[x] # <<>> => x = Creator
    BY <1>1, <1>8 DEF OneClaim
  <2>1. q # hostPeer[p]
    BY <1>2, MembersTyped DEF Order, OneClaim
  <2>2. \A y \in Peer : hostPeer'[y] = hostPeer[y] /\ (isHost'[y] <=> isHost[y])
    BY <1>5, <1>6, <2>1
  <2> QED BY <2>2, PeerAssumption DEF Order, OneClaim
<1>11. MembersFollow'
  <2> SUFFICES ASSUME NEW x \in Members \cap Live PROVE Follows(x)'
    BY <1>8 DEF MembersFollow
  <2>1. x \in Peer /\ Follows(x)
    BY DEF Live, Order, MembersFollow
  <2>2. CASE x # p
    BY <1>5, <1>8, <2>1, <2>2 DEF Follows
  <2>3. CASE x = p
    <3>1. (Members \cap Live) \ {p} \subseteq left
      BY <1>2, <2>1, <2>3 DEF Follows
    <3>2. CASE q = hostPeer[p]
      <4>1. hostPeer'[p] = winner /\ ~isHost[p]
        BY <1>2, <1>5, <2>1, <2>3, <3>2 DEF Follows
      <4>2. isHost'[p] <=> hostPeer'[p] = p
        BY <1>6, <3>2, <4>1
      <4>3. winner \in Peer /\ Admits(p, winner)
        BY <1>3, AdmitsSelf DEF Inv, AdmissionOK
      <4>4. winner \in Members => winner = TakeoverWinner(p, left \cap Members)
        BY <1>3, WinnerAmongMembers DEF winner
      <4> QED BY <1>5, <1>8, <2>3, <3>1, <4>1, <4>2, <4>3, <4>4 DEF Follows
    <3>3. CASE q # hostPeer[p]
      <4>1. hostPeer'[p] = hostPeer[p] /\ (isHost'[p] <=> isHost[p])
        BY <1>5, <1>6, <3>3
      <4>2. hostPeer[p] \in Members \ {Creator} =>
               hostPeer[p] = TakeoverWinner(p, left \cap Members)
        <5> SUFFICES ASSUME hostPeer[p] \in Members \ {Creator}
                     PROVE  hostPeer[p] = TakeoverWinner(p, left \cap Members)
          OBVIOUS
        <5> DEFINE known == roster[p] \cap Members
        <5>1. hostPeer[p] = TakeoverWinner(p, known) /\ known \in SUBSET Peer
          BY <2>1, <2>3 DEF Follows, Inv, TypeOK
        <5>2. left \cap Members = known \ {q}
          OBVIOUS
        <5> HIDE DEF known, left
        <5>3. TakeoverWinner(p, known \ {q}) = TakeoverWinner(p, known)
          BY <3>3, <5>1, WinnerStays
        <5> QED BY <5>1, <5>2, <5>3
      <4> QED BY <1>5, <1>8, <2>1, <2>3, <3>1, <4>1, <4>2 DEF Follows
    <3> QED BY <3>2, <3>3
  <2> QED BY <2>2, <2>3
<1>12. /\ \A x \in Peer : x \notin hints'[x]
       /\ \A x \in Peer : \A m \in Items(outbox'[x]) : m.type # "Hello" /\ m # Bye
  BY <1>1 DEF Order, MembersLinked, HonestMail
<1> QED BY <1>1, <1>9, <1>10, <1>11, <1>12, TakeOrder

LEMMA HandleOrder ==
    ASSUME Inv, Order, Members' = Members, NEW p \in Peer, NEW q \in Peer, Handle(p, q)
    PROVE  Order'
BY QuietReadsOrder, ReceiveHelloOrder, ReceiveMagnetOrder, ReceiveHostOrder, ReceiveByeOrder DEF Handle

LEMMA NextOrder ==
    ASSUME Inv, Order, Members' = Members, [Next]_vars, \A p, q \in Peer : ~Cut(p, q)
    PROVE  Order'
<1>1. CASE UNCHANGED vars
  <2>1. UNCHANGED <<gone, invite, link, hints, chan, outbox, roster, hostPeer, isHost>> /\ Live' = Live
    BY <1>1 DEF vars, meshVars, roomVars, Live, Joined
  <2>2. MembersLinked' /\ \A x, y \in Peer : Mail(x, y)' = Mail(x, y)
    BY <2>1, MailUnchanged DEF Order, MembersLinked
  <2> QED BY <2>1, <2>2, RolesStandOrder DEF Order, HonestMail
<1>2. ASSUME NEW p \in Peer,
             \/ DialInvited(p) \/ Depart(p) \/ AnnounceMagnet(p) \/ PauseOrPlay(p) \/ SendReply(p)
             \/ \E b \in BOOLEAN : ReportBuffering(p, b)
      PROVE  Order'
  BY <1>2, DialInvitedOrder, DepartOrder, AnnounceOrder, PauseOrPlayOrder, SendReplyOrder, ReportOrder
<1>3. ASSUME NEW p \in Peer, NEW q \in Peer,
             \/ Join(p, q) \/ HintedDial(p, q) \/ HintedDialFails(p, q) \/ Greet(p, q)
             \/ Lose(p, q) \/ Notice(p, q) \/ Handle(p, q)
      PROVE  Order'
  BY <1>3, JoinOrder, HintedDialOrder, GreetOrder, LoseOrder, NoticeOrder, HandleOrder
<1> QED BY <1>1, <1>2, <1>3 DEF Next

LEMMA InitOrder == ASSUME Init PROVE Order
<1>1. PICK plan \in Plans : Start(plan)
  BY DEF Init
<1>2. /\ Members = plan.members /\ Members \subseteq Peer /\ Creator \in Members /\ NoPeer \notin Peer
      /\ \A p, q \in Members : Admits(p, q)
  BY <1>1, PlanAssumption, MembersAssumption, PeerAssumption DEF Start, Plan, Members, NoPeer
<1>3. \A p, q \in Peer : Mail(p, q) = {} /\ Items(outbox[p]) = {}
  BY <1>1 DEF Start, Mail, Items
<1>4. \A p \in Members : p \in Live
  BY <1>1, <1>2 DEF Start, Live, Joined
<1>5. MembersLinked
  BY <1>1, <1>2, <1>4 DEF Start, MembersLinked
<1>6. HonestMail
  BY <1>3 DEF HonestMail
<1>7. OneClaim
  BY <1>1, <1>2 DEF Start, OneClaim
<1>8. MembersFollow
  <2> SUFFICES ASSUME NEW p \in Members \cap Live PROVE Follows(p)
    BY DEF MembersFollow
  <2>1. p \in Peer /\ roster[p] = Members \ {p} /\ hostPeer[p] = Creator /\ (isHost[p] <=> p = Creator)
    BY <1>1, <1>2 DEF Start
  <2> QED BY <1>2, <2>1 DEF Follows
<1> QED BY <1>5, <1>6, <1>7, <1>8 DEF Order

LEMMA OrderLasts == Spec => [](Inv /\ (spent.cuts = 0 => Order))
<1>1. Init => Inv /\ (spent.cuts = 0 => Order)
  BY InitInv, InitOrder
<1>2. Inv /\ (spent.cuts = 0 => Order) /\ [Next]_vars => (Inv /\ (spent.cuts = 0 => Order))'
  <2> SUFFICES ASSUME Inv, spent.cuts = 0 => Order, [Next]_vars
               PROVE  Inv' /\ (spent'.cuts = 0 => Order')
    OBVIOUS
  <2>1. Inv'
    BY NextKeeps
  <2>2. ASSUME spent'.cuts = 0 PROVE Order'
    BY <2>1, <2>2, NoCutBefore, NextOrder
  <2> QED BY <2>1, <2>2
<1> QED BY <1>1, <1>2, PTL DEF Spec

\* Where nothing went wrong, the settled room follows the creator.
LEMMA UndisturbedAgree ==
    ASSUME Inv, Peace, Undisturbed, Quiescent PROVE OneHost
<1>1. Creator \in Live /\ Creator \in Peer
  BY PeerAssumption DEF Live, Joined, Undisturbed
<1>2. ASSUME NEW p \in Live PROVE hostPeer[p] = Creator /\ (isHost[p] <=> p = Creator)
  <2>1. CASE p = Creator
    BY <1>1, <2>1 DEF Peace, OneRole
  <2>2. CASE p # Creator
    <3>1. p \in Peer /\ link[Creator][p] = "up" /\ Mail(Creator, p) = {}
      BY <1>1, <1>2, <2>2, SettledIs DEF Live
    <3>2. Creator \in roster[p]
      BY <1>1, <3>1 DEF Peace, Greeted
    <3> QED BY <3>1, <3>2 DEF Peace, OneRole
  <2> QED BY <2>1, <2>2
<1> QED BY <1>1, <1>2 DEF OneHost

\* Where only members are left and no stream was cut, they follow the creator while it
\* is there and the smallest of them after that.
LEMMA MembersAgree ==
    ASSUME Inv, Order, Live \subseteq Members, Quiescent PROVE OneHost
<1>1. Members \subseteq Peer /\ Creator \in Members /\ NoPeer \notin Peer
  BY MembersTyped
<1>2. ASSUME NEW p \in Live PROVE p \in Peer /\ p \in Members \cap Live /\ Follows(p)
  BY <1>2 DEF Live, Order, MembersFollow
<1>3. CASE Creator \in Live
  <2>1. \A p \in Live : hostPeer[p] = Creator /\ (isHost[p] <=> p = Creator)
    BY <1>1, <1>2, <1>3 DEF Order, OneClaim, Follows
  <2> QED BY <1>3, <2>1 DEF OneHost
<1>4. CASE Creator \notin Live
  <2>1. ASSUME NEW p \in Live, NEW q \in Peer, WillHearBye(p, q)
        PROVE  q \in Live /\ q # p
    <3>1. p \in Peer /\ chan[q][p] = <<>> /\ link[p][q] \in {"none", "up"} /\ link[p][p] = "none"
      BY <1>2, <2>1 DEF Quiescent, Order, MembersLinked
    <3>2. link[p][q] = "up"
      BY <2>1, <3>1 DEF WillHearBye, HasBye
    <3> QED BY <3>1, <3>2 DEF Inv, LinkOK, AbsentOK
  <2>2. ASSUME NEW p \in Live PROVE roster[p] = Live \ {p}
    <3>1. p \in Peer /\ roster[p] \subseteq Peer /\ (Members \cap Live) \ {p} \subseteq roster[p]
      BY <1>2, <2>2 DEF Inv, TypeOK, Follows
    <3>2. \A q \in roster[p] : q \in Live /\ q # p
      BY <2>1, <2>2, <3>1 DEF Inv, NoGhostMember
    <3> QED BY <3>1, <3>2
  <2>3. ASSUME NEW p \in Live
        PROVE  hostPeer[p] \in Live /\ hostPeer[p] = TakeoverWinner(p, Live \ {p})
               /\ (isHost[p] <=> hostPeer[p] = p)
    <3>1. /\ p \in Peer /\ Follows(p) /\ hostPeer[p] \in Peer /\ hostPeer[p] \notin refused[p]
      BY <1>2, <2>3 DEF Follows, Inv, AdmissionOK
    <3>2. hostPeer[p] \in Live
      BY <1>1, <2>1, <2>3, <3>1 DEF Inv, NoGhostHost
    <3>3. hostPeer[p] \in Members \ {Creator}
      BY <1>4, <3>2
    <3>4. roster[p] \cap Members = Live \ {p}
      BY <2>2, <2>3
    <3> QED BY <3>1, <3>2, <3>3, <3>4 DEF Follows
  <2>4. ASSUME NEW p \in Live, NEW q \in Live PROVE hostPeer[p] = hostPeer[q]
    <3>1. (Live \ {p}) \cup {p} = (Live \ {q}) \cup {q}
      BY <2>4
    <3> QED BY <2>3, <2>4, <3>1 DEF TakeoverWinner
  <2>5. CASE Live = {}
    BY <2>5 DEF OneHost
  <2>6. CASE Live # {}
    <3>1. PICK p \in Live : TRUE
      BY <2>6
    <3>2. \A q \in Live : hostPeer[q] = hostPeer[p] /\ (isHost[q] <=> q = hostPeer[p])
      BY <2>3, <2>4, <3>1
    <3> QED BY <2>3, <3>1, <3>2 DEF OneHost
  <2> QED BY <2>5, <2>6
<1> QED BY <1>3, <1>4

\* Every remaining peer converges on the same host: the creator where nothing went
\* wrong; and where no stream was cut and the guests are gone again, the smallest of
\* the members that are left, whoever of them left and in the middle of whose takeover.
THEOREM RemainingPeersAgree == Spec => []HostAgreementInOneRoom
<1>1. ASSUME Inv, Undisturbed => Peace, spent.cuts = 0 => Order
      PROVE  HostAgreementInOneRoom
  BY <1>1, UndisturbedAgree, MembersAgree DEF HostAgreementInOneRoom, HostAgreement, Members
<1> QED BY <1>1, PeaceLasts, OrderLasts, PTL
=============================================================================
