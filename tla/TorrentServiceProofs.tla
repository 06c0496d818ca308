------------------------- MODULE TorrentServiceProofs -------------------------
(***************************************************************************)
(* Proofs about TorrentService: types, the limit on torrents, what the     *)
(* files hold, what was removed or kept, and the streams.                  *)
(*                                                                         *)
(* Every property but the limit rests on one fact about saves: as long as  *)
(* no two run at once (OneWriter), the save between its snapshot and its   *)
(* files is the only one, and the owners on disk are those of its          *)
(* snapshot by the time it writes the registry.  Each property then has an *)
(* invariant of its own that says it of the maps, of the snapshot under    *)
(* way and of the disk.                                                    *)
(***************************************************************************)
EXTENDS TorrentService, FiniteSetTheorems, TLAPS

-----------------------------------------------------------------------------
(* Types.                                                                  *)

Bounds == {"adds", "removes", "reads", "ends", "timeouts", "failedFetches",
           "failedRestores", "failedWrites", "lateAdds"}
Spent  == [plan: Plans, adds: Nat, removes: Nat, reads: Nat, ends: Nat, timeouts: Nat,
           failedFetches: Nat, failedRestores: Nat, failedWrites: Nat, lateAdds: Nat]

\* A request is at a place its kind comes to.
RequestOK(r) ==
    /\ r \in Request
    /\ r.op = "add"    => r.at \in {"fetching", "snapshot", "owners", "registry"}
    /\ r.op = "remove" => r.at \in {"snapshot", "owners", "registry", "draining"}
    /\ r.op = "select" => r.at = "allowed"
    /\ r.op = "stream" => r.at \in {"allowed", "streaming"}

CallOK(r) == RequestOK(r) \/ r \in Closing \/ r = Idle

TypeInv ==
    /\ ServiceTypeOK
    /\ spent \in Spent
    /\ \A c \in Call : CallOK(calls[c])
    /\ process = "down" => torrents = {} /\ \A c \in Call : calls[c] = Idle
    /\ \A c \in Call : calls[c] \in Closing => process = "closing"

LEMMA IdleIs == Idle.op = "none" /\ Idle.at = "idle"
BY DEF Idle

\* What the kind and the place of a call tell of it.
LEMMA KindOfCall ==
    ASSUME NEW r, CallOK(r)
    PROVE  /\ r.op = "add" \/ r.op = "remove" \/ r.op = "select" \/ r.op = "stream"
                => RequestOK(r)
           /\ r.at = "fetching" => RequestOK(r) /\ r.op = "add"
           /\ r.at = "draining" => RequestOK(r) /\ r.op = "remove"
           /\ r.at = "allowed" => RequestOK(r) /\ r.op \in {"select", "stream"}
           /\ r.at = "streaming" => RequestOK(r) /\ r.op = "stream"
           /\ r.at = "stopping" => r \in Closing
           /\ r.at \in {"snapshot", "owners", "registry"} =>
                 /\ r.snapshot \in Saved
                 /\ RequestOK(r) \/ r \in Closing
                 /\ r.op \in {"add", "remove"} \/ (r.op = "close" /\ r \in Closing)
           /\ r \in Closing => r.op = "close"
           /\ r.at = "idle" => r = Idle
<1>1. CASE RequestOK(r)
  <2>1. /\ r \in Request /\ r.op \in {"add", "remove", "select", "stream"}
        /\ r.at # "idle" /\ r.at # "stopping" /\ r.snapshot \in Saved
    BY <1>1 DEF RequestOK, Request
  <2>2. r \notin Closing
    BY <2>1 DEF Closing
  <2>3. CASE r.op = "add"
    <3>1. r.at \in {"fetching", "snapshot", "owners", "registry"}
      BY <1>1, <2>3 DEF RequestOK
    <3> QED BY <1>1, <2>1, <2>2, <2>3, <3>1
  <2>4. CASE r.op = "remove"
    <3>1. r.at \in {"snapshot", "owners", "registry", "draining"}
      BY <1>1, <2>4 DEF RequestOK
    <3> QED BY <1>1, <2>1, <2>2, <2>4, <3>1
  <2>5. CASE r.op = "select"
    BY <1>1, <2>1, <2>2, <2>5 DEF RequestOK
  <2>6. CASE r.op = "stream"
    BY <1>1, <2>1, <2>2, <2>6 DEF RequestOK
  <2> QED BY <2>1, <2>3, <2>4, <2>5, <2>6
<1>2. CASE r \in Closing
  BY <1>2 DEF Closing
<1>3. CASE r = Idle
  <2>1. Idle \notin Closing
    BY DEF Idle, Closing
  <2> QED BY <1>3, <2>1, IdleIs
<1> QED BY <1>1, <1>2, <1>3 DEF CallOK

\* How a call moves on.
LEMMA MovedRequest ==
    ASSUME NEW r \in Request, NEW at \in {"fetching", "allowed", "snapshot", "owners",
                                          "registry", "draining", "streaming"}
    PROVE  LET m == [r EXCEPT !.at = at] IN
           /\ m \in Request /\ m.at = at /\ m.op = r.op /\ m.user = r.user
           /\ m.torrent = r.torrent /\ m.dropped = r.dropped /\ m.snapshot = r.snapshot
BY DEF Request

LEMMA MovedClosing ==
    ASSUME NEW r \in Closing, NEW at \in {"snapshot", "owners", "registry", "stopping"}
    PROVE  LET m == [r EXCEPT !.at = at] IN
           m \in Closing /\ m.at = at /\ m.op = r.op /\ m.snapshot = r.snapshot
BY DEF Closing

\* A step of one call that does not end it.
LEMMA GoesIs ==
    ASSUME TypeInv, NEW c \in Call, NEW place, Goes(c, place),
           \/ /\ RequestOK(calls[c])
              /\ place \in {"fetching", "allowed", "snapshot", "owners", "registry", "draining",
                            "streaming"}
           \/ calls[c] \in Closing /\ place \in {"snapshot", "owners", "registry", "stopping"}
    PROVE  /\ calls' = [d \in Call |-> calls'[d]]
           /\ calls'[c].at = place /\ calls'[c].op = calls[c].op
           /\ calls'[c].snapshot = calls[c].snapshot
           /\ calls[c] \in Closing => calls'[c] \in Closing
           /\ RequestOK(calls[c]) =>
                 /\ calls'[c] \in Request /\ calls'[c].user = calls[c].user
                 /\ calls'[c].torrent = calls[c].torrent
                 /\ calls'[c].dropped = calls[c].dropped
           /\ \A d \in Call : d # c => calls'[d] = calls[d]
<1> DEFINE m == [calls[c] EXCEPT !.at = place]
<1>1. DOMAIN calls = Call /\ calls = [d \in Call |-> calls[d]]
  BY DEF TypeInv, ServiceTypeOK
<1>2. /\ calls' = [d \in Call |-> calls'[d]] /\ calls'[c] = m
      /\ \A d \in Call : d # c => calls'[d] = calls[d]
  BY <1>1 DEF Goes
<1>3. CASE RequestOK(calls[c]) /\ calls[c] \notin Closing
  <2>1. calls[c] \in Request
    BY <1>3 DEF RequestOK
  <2>2. place \in {"fetching", "allowed", "snapshot", "owners", "registry", "draining", "streaming"}
    BY <1>3
  <2>3. m \in Request /\ m.at = place /\ m.op = calls[c].op /\ m.user = calls[c].user
           /\ m.torrent = calls[c].torrent /\ m.dropped = calls[c].dropped
           /\ m.snapshot = calls[c].snapshot
    <3> DEFINE r == calls[c]
    <3>1. r \in Request
      BY <2>1
    <3> HIDE DEF r
    <3>2. LET n == [r EXCEPT !.at = place] IN
          /\ n \in Request /\ n.at = place /\ n.op = r.op /\ n.user = r.user
          /\ n.torrent = r.torrent /\ n.dropped = r.dropped /\ n.snapshot = r.snapshot
      BY <2>2, <3>1, MovedRequest
    <3> QED BY <3>2 DEF r
  <2> HIDE DEF m
  <2> QED BY <1>2, <1>3, <2>3
<1>4. CASE calls[c] \in Closing
  <2>1. ~RequestOK(calls[c])
    BY <1>4 DEF RequestOK, Request, Closing
  <2>2. m \in Closing /\ m.at = place /\ m.op = calls[c].op /\ m.snapshot = calls[c].snapshot
    BY <1>4, <2>1, MovedClosing
  <2> HIDE DEF m
  <2> QED BY <1>2, <2>1, <2>2
<1> QED BY <1>3, <1>4

LEMMA EndsIs ==
    ASSUME TypeInv, NEW c \in Call, Ends(c)
    PROVE  /\ calls' = [d \in Call |-> calls'[d]] /\ calls'[c] = Idle
           /\ \A d \in Call : d # c => calls'[d] = calls[d]
BY DEF TypeInv, ServiceTypeOK, Ends

\* A new request.
LEMMA AsksIs ==
    ASSUME TypeInv, NEW c \in Call, NEW op \in {"add", "remove", "select", "stream"},
           NEW u \in User, NEW t \in Torrent,
           NEW place \in {"fetching", "allowed", "snapshot", "draining"},
           Asks(c, op, u, t, place)
    PROVE  /\ process = "up" /\ calls[c] = Idle
           /\ calls' = [d \in Call |-> calls'[d]]
           /\ calls'[c] \in Request /\ calls'[c].op = op /\ calls'[c].user = u
           /\ calls'[c].torrent = t /\ calls'[c].at = place /\ calls'[c].dropped = FALSE
           /\ calls'[c].snapshot = Nothing
           /\ \A d \in Call : d # c => calls'[d] = calls[d]
<1> DEFINE r == [op |-> op, user |-> u, torrent |-> t, at |-> place, dropped |-> FALSE,
                 snapshot |-> Nothing]
<1>1. Nothing \in Saved
  BY DEF Nothing, Saved
<1>2. r \in Request
  BY <1>1 DEF Request
<1>3. /\ process = "up" /\ calls[c] = Idle
      /\ calls' = [d \in Call |-> calls'[d]] /\ calls'[c] = r
      /\ \A d \in Call : d # c => calls'[d] = calls[d]
  BY DEF Asks, TypeInv, ServiceTypeOK
<1> QED BY <1>2, <1>3

\* Calls whose torrent the client lets go of.
LEMMA WithoutObjectIs ==
    ASSUME TypeInv, NEW t, NEW d \in Call
    PROVE  /\ CallOK(WithoutObject(calls, t)[d])
           /\ WithoutObject(calls, t)[d].at = calls[d].at
           /\ calls[d].at # "fetching" => WithoutObject(calls, t)[d] = calls[d]
           /\ calls[d].at = "fetching" =>
                 /\ WithoutObject(calls, t)[d].torrent = calls[d].torrent
                 /\ WithoutObject(calls, t)[d].op = "add"
                 /\ WithoutObject(calls, t)[d].user = calls[d].user
                 /\ ~WithoutObject(calls, t)[d].dropped =>
                       ~calls[d].dropped /\ calls[d].torrent # t
<1>1. CallOK(calls[d])
  BY DEF TypeInv
<1> DEFINE m == [calls[d] EXCEPT !.dropped = TRUE]
<1>2. CASE calls[d].at = "fetching" /\ calls[d].torrent = t
  <2>1. RequestOK(calls[d]) /\ calls[d].op = "add"
    BY <1>1, <1>2, KindOfCall
  <2>2. /\ m \in Request /\ m.at = calls[d].at /\ m.op = calls[d].op /\ m.dropped
        /\ m.torrent = calls[d].torrent /\ m.user = calls[d].user
    BY <2>1 DEF RequestOK, Request
  <2>3. WithoutObject(calls, t)[d] = m
    BY <1>2 DEF WithoutObject
  <2> HIDE DEF m
  <2> QED BY <1>2, <2>1, <2>2, <2>3 DEF CallOK, RequestOK
<1>3. CASE ~(calls[d].at = "fetching" /\ calls[d].torrent = t)
  <2>1. WithoutObject(calls, t)[d] = calls[d]
    BY <1>3 DEF WithoutObject
  <2> QED BY <1>1, <1>3, <2>1, KindOfCall
<1> QED BY <1>2, <1>3

-----------------------------------------------------------------------------
(* What the actions do to the types.                                       *)

\* The budgets of a plan are counted up one at a time.
LEMMA UseIs ==
    ASSUME spent \in Spent, NEW bound \in Bounds, Use(bound)
    PROVE  /\ spent' \in Spent
           /\ spent'.adds = IF bound = "adds" THEN spent.adds + 1 ELSE spent.adds
           /\ spent'.removes = IF bound = "removes" THEN spent.removes + 1 ELSE spent.removes
           /\ spent'.ends = IF bound = "ends" THEN spent.ends + 1 ELSE spent.ends
           /\ spent'.timeouts = IF bound = "timeouts" THEN spent.timeouts + 1 ELSE spent.timeouts
           /\ spent'.failedRestores = IF bound = "failedRestores" THEN spent.failedRestores + 1
                                      ELSE spent.failedRestores
           /\ spent'.failedWrites = IF bound = "failedWrites" THEN spent.failedWrites + 1
                                    ELSE spent.failedWrites
<1>1. spent' = [spent EXCEPT ![bound] = spent[bound] + 1]
  BY DEF Use
<1>2. bound = "adds" \/ bound = "removes" \/ bound = "reads" \/ bound = "ends"
      \/ bound = "timeouts" \/ bound = "failedFetches" \/ bound = "failedRestores"
      \/ bound = "failedWrites" \/ bound = "lateAdds"
  BY DEF Bounds
<1>3. CASE bound = "adds"
  BY <1>1, <1>3 DEF Spent
<1>4. CASE bound = "removes"
  BY <1>1, <1>4 DEF Spent
<1>5. CASE bound = "reads"
  BY <1>1, <1>5 DEF Spent
<1>6. CASE bound = "ends"
  BY <1>1, <1>6 DEF Spent
<1>7. CASE bound = "timeouts"
  BY <1>1, <1>7 DEF Spent
<1>8. CASE bound = "failedFetches"
  BY <1>1, <1>8 DEF Spent
<1>9. CASE bound = "failedRestores"
  BY <1>1, <1>9 DEF Spent
<1>10. CASE bound = "failedWrites"
  BY <1>1, <1>10 DEF Spent
<1>11. CASE bound = "lateAdds"
  BY <1>1, <1>11 DEF Spent
<1> QED BY <1>2, <1>3, <1>4, <1>5, <1>6, <1>7, <1>8, <1>9, <1>10, <1>11

\* What the properties read of the plan.
SpentSame ==
    /\ spent'.adds = spent.adds /\ spent'.removes = spent.removes
    /\ spent'.ends = spent.ends /\ spent'.timeouts = spent.timeouts
    /\ spent'.failedRestores = spent.failedRestores
    /\ spent'.failedWrites = spent.failedWrites

\* The four maps of the service.
MapsOK ==
    /\ torrents \subseteq Torrent
    /\ owner \in [Torrent -> User \cup {NoUser}]
    /\ source \subseteq torrents
    /\ selected \in [Torrent -> SUBSET User]
    /\ \A t \in Torrent \ torrents : selected[t] = {}

\* A step of a process that runs on keeps the types if its parts do.
LEMMA TypesStand ==
    ASSUME TypeInv, process # "down", process' = process,
           calls' = [d \in Call |-> calls'[d]],
           \A d \in Call : CallOK(calls'[d]) /\ (calls'[d] \in Closing => calls[d] \in Closing),
           MapsOK', client' \subseteq Torrent, disk' \in Saved,
           promise' \in [Torrent -> User \cup Call \cup {"nothing", "removed"}],
           overlapped' \in BOOLEAN, spent' \in Spent
    PROVE  TypeInv'
<1>1. calls' \in [Call -> Request \cup Closing \cup {Idle}]
  <2>1. \A d \in Call : calls'[d] \in Request \cup Closing \cup {Idle}
    BY DEF CallOK, RequestOK
  <2> QED BY <2>1
<1> QED BY <1>1 DEF TypeInv, ServiceTypeOK, MapsOK

\* A call under way keeps the process up.
LEMMA CallsRun ==
    ASSUME TypeInv, NEW c \in Call, calls[c].at # "idle" PROVE process # "down"
BY IdleIs DEF TypeInv

LEMMA MapsHold == TypeInv => MapsOK
BY DEF TypeInv, ServiceTypeOK, MapsOK

LEMMA AddBeginsIs ==
    ASSUME TypeInv, NEW c \in Call, NEW u \in User, NEW t \in Torrent, AddBegins(c, u, t)
    PROVE  /\ TypeInv'
           /\ calls[c] = Idle /\ calls'[c].at = "fetching" /\ calls'[c].torrent = t
           /\ calls'[c].op = "add" /\ ~calls'[c].dropped
           /\ \A d \in Call : d # c => calls'[d] = calls[d]
           /\ client' = client \cup {t} /\ Cardinality(torrents) < MaxTorrents
           /\ UNCHANGED <<process, serviceVars, disk, historyVars>>
           /\ spent'.adds = spent.adds + 1 /\ spent'.removes = spent.removes
           /\ spent'.ends = spent.ends /\ spent'.timeouts = spent.timeouts
           /\ spent'.failedRestores = spent.failedRestores
           /\ spent'.failedWrites = spent.failedWrites
<1>1. /\ process = "up" /\ calls[c] = Idle
      /\ calls' = [d \in Call |-> calls'[d]]
      /\ calls'[c] \in Request /\ calls'[c].op = "add"
      /\ calls'[c].torrent = t /\ calls'[c].at = "fetching" /\ calls'[c].dropped = FALSE
      /\ \A d \in Call : d # c => calls'[d] = calls[d]
  BY AsksIs DEF AddBegins
<1>2. /\ client' = client \cup {t} /\ Cardinality(torrents) < MaxTorrents
      /\ UNCHANGED <<process, serviceVars, disk, historyVars>> /\ Use("adds")
  BY DEF AddBegins
<1>3. /\ spent' \in Spent /\ spent'.adds = spent.adds + 1 /\ spent'.removes = spent.removes
      /\ spent'.ends = spent.ends /\ spent'.timeouts = spent.timeouts
      /\ spent'.failedRestores = spent.failedRestores
      /\ spent'.failedWrites = spent.failedWrites
  <2>1. "adds" \in Bounds
    BY DEF Bounds
  <2> QED BY <1>2, <2>1, UseIs DEF TypeInv
<1>4. \A d \in Call : CallOK(calls'[d]) /\ (calls'[d] \in Closing => calls[d] \in Closing)
  <2>1. CallOK(calls'[c]) /\ calls'[c] \notin Closing
    BY <1>1 DEF CallOK, RequestOK, Closing
  <2> QED BY <1>1, <2>1 DEF TypeInv
<1>5. MapsOK'
  BY <1>2, MapsHold DEF MapsOK, serviceVars
<1>6. TypeInv'
  BY <1>1, <1>2, <1>3, <1>4, <1>5, TypesStand DEF TypeInv, ServiceTypeOK, historyVars
<1> QED BY <1>1, <1>2, <1>3, <1>6

\* A fetch that fails takes the object from everybody who waits for it.
LEMMA AddFailsIs ==
    ASSUME TypeInv, NEW c \in Call, AddFails(c)
    PROVE  /\ TypeInv' /\ SpentSame
           /\ calls[c].at = "fetching" /\ calls'[c] = Idle
           /\ \A d \in Call : /\ d # c => calls'[d].at = calls[d].at
                              /\ calls'[d].at # "fetching" /\ d # c => calls'[d] = calls[d]
                              /\ calls'[d].at = "fetching" =>
                                    /\ calls'[d].op = "add"
                                    /\ calls'[d].torrent = calls[d].torrent
                                    /\ ~calls'[d].dropped => ~calls[d].dropped
                              /\ \/ client' = client
                                 \/ /\ client' = client \ {calls[c].torrent}
                                    /\ calls'[d].at = "fetching" /\ ~calls'[d].dropped =>
                                          calls'[d].torrent # calls[c].torrent
           /\ UNCHANGED <<process, serviceVars, disk, historyVars>>
<1> DEFINE t == calls[c].torrent
<1>1. /\ calls[c].at = "fetching" /\ Use("failedFetches")
      /\ UNCHANGED <<process, serviceVars, disk, historyVars>>
  BY DEF AddFails
<1>2. spent' \in Spent /\ SpentSame
  <2>1. "failedFetches" \in Bounds
    BY DEF Bounds
  <2> QED BY <1>1, <2>1, UseIs DEF TypeInv, SpentSame
<1>3. ASSUME NEW d \in Call
      PROVE  CallOK(calls[d]) /\ (calls[d].at = "fetching" => calls[d].op = "add")
  BY KindOfCall DEF TypeInv
<1>4. process # "down" /\ MapsOK'
  BY <1>1, CallsRun, MapsHold DEF MapsOK, serviceVars
<1>5. Idle \notin Closing /\ CallOK(Idle)
  BY DEF Idle, Closing, CallOK
<1>6. CASE calls[c].dropped
  <2>1. /\ calls' = [d \in Call |-> calls'[d]] /\ calls'[c] = Idle
        /\ \A d \in Call : d # c => calls'[d] = calls[d]
        /\ client' = client
    BY <1>6, EndsIs DEF AddFails
  <2>2. TypeInv'
    BY <1>1, <1>2, <1>3, <1>4, <1>5, <2>1, TypesStand DEF TypeInv, ServiceTypeOK, historyVars
  <2> QED BY <1>1, <1>2, <1>3, <2>1, <2>2, IdleIs
<1>7. CASE ~calls[c].dropped
  <2>1. /\ calls' = [WithoutObject(calls, t) EXCEPT ![c] = Idle]
        /\ client' = client \ {t}
    BY <1>7 DEF AddFails
  <2>2. WithoutObject(calls, t) = [d \in Call |-> WithoutObject(calls, t)[d]]
    BY DEF WithoutObject
  <2>3. /\ calls' = [d \in Call |-> calls'[d]] /\ calls'[c] = Idle
        /\ \A d \in Call : d # c => calls'[d] = WithoutObject(calls, t)[d]
    BY <2>1, <2>2
  <2>4. ASSUME NEW d \in Call, d # c
        PROVE  /\ CallOK(calls'[d]) /\ calls'[d].at = calls[d].at
               /\ calls[d].at # "fetching" => calls'[d] = calls[d]
               /\ calls[d].at = "fetching" =>
                    /\ calls'[d].torrent = calls[d].torrent /\ calls'[d].op = "add"
                    /\ ~calls'[d].dropped => ~calls[d].dropped /\ calls[d].torrent # t
               /\ calls'[d] \in Closing => calls[d] \in Closing
    <3>1. calls'[d] = WithoutObject(calls, t)[d]
      BY <2>3, <2>4
    <3> HIDE DEF t
    <3>2. /\ CallOK(calls'[d]) /\ calls'[d].at = calls[d].at
          /\ calls[d].at # "fetching" => calls'[d] = calls[d]
          /\ calls[d].at = "fetching" =>
               /\ calls'[d].torrent = calls[d].torrent /\ calls'[d].op = "add"
               /\ ~calls'[d].dropped => ~calls[d].dropped /\ calls[d].torrent # t
      BY <3>1, WithoutObjectIs
    <3>3. calls'[d] \in Closing => calls'[d].op = "close"
      BY DEF Closing
    <3> QED BY <3>2, <3>3
  <2>5. \A d \in Call : CallOK(calls'[d]) /\ (calls'[d] \in Closing => calls[d] \in Closing)
    BY <1>5, <2>3, <2>4
  <2>6. TypeInv'
    BY <1>1, <1>2, <1>4, <2>1, <2>3, <2>5, TypesStand DEF TypeInv, ServiceTypeOK, historyVars
  <2> QED BY <1>1, <1>2, <2>1, <2>3, <2>4, <2>6, IdleIs
<1> QED BY <1>6, <1>7

LEMMA AddLandsIs ==
    ASSUME TypeInv, NEW c \in Call, AddLands(c)
    PROVE  LET t == calls[c].torrent
               u == calls[c].user
           IN  /\ TypeInv' /\ SpentSame /\ process # "down"
               /\ calls[c].at = "fetching" /\ t \in Torrent /\ u \in User
               /\ torrents' = torrents \cup {t} /\ source' = source \cup {t}
               /\ owner' = [owner EXCEPT ![t] = u] /\ promise' = [promise EXCEPT ![t] = c]
               /\ calls'[c].at = "snapshot" /\ calls'[c].op = "add"
               /\ calls'[c].torrent = t /\ calls'[c].user = u
               /\ \A d \in Call : d # c => calls'[d] = calls[d]
               /\ UNCHANGED <<process, client, disk, overlapped>>
<1> DEFINE t == calls[c].torrent
           u == calls[c].user
<1>1. RequestOK(calls[c]) /\ calls[c].op = "add" /\ calls[c].at = "fetching"
  BY KindOfCall DEF AddLands, TypeInv
<1>2. t \in Torrent /\ u \in User
  BY <1>1 DEF RequestOK, Request
<1>3. /\ torrents' = torrents \cup {t} /\ source' = source \cup {t}
      /\ owner' = [owner EXCEPT ![t] = u] /\ promise' = [promise EXCEPT ![t] = c]
      /\ Goes(c, "snapshot") /\ UNCHANGED <<process, selected, client, disk, overlapped>>
      /\ Use("lateAdds") \/ UNCHANGED spent
  BY DEF AddLands
<1>4. spent' \in Spent /\ SpentSame
  <2>1. "lateAdds" \in Bounds
    BY DEF Bounds
  <2>2. CASE Use("lateAdds")
    BY <2>1, <2>2, UseIs DEF TypeInv, SpentSame
  <2>3. CASE UNCHANGED spent
    BY <2>3 DEF TypeInv, SpentSame
  <2> QED BY <1>3, <2>2, <2>3
<1>5. /\ calls' = [d \in Call |-> calls'[d]]
      /\ calls'[c].at = "snapshot" /\ calls'[c].op = "add" /\ calls'[c] \in Request
      /\ calls'[c].torrent = t /\ calls'[c].user = u
      /\ \A d \in Call : d # c => calls'[d] = calls[d]
  BY <1>1, <1>3, GoesIs
<1> HIDE DEF t, u
<1>6. \A d \in Call : CallOK(calls'[d]) /\ (calls'[d] \in Closing => calls[d] \in Closing)
  <2>1. CallOK(calls'[c]) /\ calls'[c] \notin Closing
    BY <1>5 DEF CallOK, RequestOK, Closing
  <2> QED BY <1>5, <2>1 DEF TypeInv
<1>7. MapsOK'
  BY <1>2, <1>3, MapsHold DEF MapsOK
<1>8. promise' \in [Torrent -> User \cup Call \cup {"nothing", "removed"}]
  BY <1>2, <1>3 DEF TypeInv, ServiceTypeOK
<1>9. process # "down"
  BY <1>1, CallsRun
<1>10. TypeInv'
  BY <1>3, <1>4, <1>5, <1>6, <1>7, <1>8, <1>9, TypesStand DEF TypeInv, ServiceTypeOK
<1> QED BY <1>1, <1>2, <1>3, <1>4, <1>5, <1>9, <1>10 DEF t, u

LEMMA TakeSnapshotIs ==
    ASSUME TypeInv, NEW c \in Call, TakeSnapshot(c)
    PROVE  /\ TypeInv' /\ process # "down"
           /\ calls[c].at = "snapshot" /\ calls'[c].at = "owners"
           /\ calls'[c].op = calls[c].op
           /\ calls'[c].snapshot = [owners |-> owner, registry |-> torrents, sources |-> source]
           /\ RequestOK(calls[c]) => /\ calls'[c].user = calls[c].user
                                     /\ calls'[c].torrent = calls[c].torrent
           /\ \A d \in Call : d # c => calls'[d] = calls[d]
           /\ overlapped' = (overlapped \/ At("owners") \cup At("registry") # {})
           /\ UNCHANGED <<process, serviceVars, client, disk, promise, spent>>
<1> DEFINE saved == [owners |-> owner, registry |-> torrents, sources |-> source]
           m == [[calls[c] EXCEPT !.at = "owners"] EXCEPT !.snapshot = saved]
<1>1. /\ calls[c].at = "snapshot" /\ CallOK(calls[c])
      /\ overlapped' = (overlapped \/ At("owners") \cup At("registry") # {})
      /\ UNCHANGED <<process, serviceVars, client, disk, promise, spent>>
  BY DEF TakeSnapshot, TypeInv
<1>2. saved \in Saved
  BY DEF TypeInv, ServiceTypeOK, Saved
<1>3. /\ calls' = [d \in Call |-> calls'[d]] /\ calls'[c] = m
      /\ \A d \in Call : d # c => calls'[d] = calls[d]
  <2>1. DOMAIN calls = Call /\ calls = [d \in Call |-> calls[d]]
    BY DEF TypeInv, ServiceTypeOK
  <2>2. calls' = [calls EXCEPT ![c].at = "owners", ![c].snapshot = saved]
    BY DEF TakeSnapshot
  <2> HIDE DEF saved
  <2> QED BY <2>1, <2>2
<1> HIDE DEF saved
<1>4. /\ CallOK(m) /\ m.at = "owners" /\ m.op = calls[c].op /\ m.snapshot = saved
      /\ RequestOK(calls[c]) => m.user = calls[c].user /\ m.torrent = calls[c].torrent
      /\ m \in Closing => calls[c] \in Closing
  <2>1. RequestOK(calls[c]) \/ calls[c] \in Closing
    BY <1>1, KindOfCall
  <2>2. CASE RequestOK(calls[c])
    <3>1. calls[c] \in Request /\ calls[c].op \in {"add", "remove"}
      BY <1>1, <2>2, KindOfCall DEF RequestOK, Request
    <3>2. /\ m \in Request /\ m.at = "owners" /\ m.op = calls[c].op /\ m.snapshot = saved
          /\ m.user = calls[c].user /\ m.torrent = calls[c].torrent
      BY <1>2, <3>1 DEF Request
    <3> HIDE DEF m
    <3> QED BY <3>1, <3>2 DEF CallOK, RequestOK, Closing
  <2>3. CASE calls[c] \in Closing
    <3>1. ~RequestOK(calls[c])
      BY <2>3 DEF RequestOK, Request, Closing
    <3>2. m \in Closing /\ m.at = "owners" /\ m.op = calls[c].op /\ m.snapshot = saved
      BY <1>2, <2>3 DEF Closing
    <3> HIDE DEF m
    <3> QED BY <2>3, <3>1, <3>2 DEF CallOK
  <2> QED BY <2>1, <2>2, <2>3
<1> HIDE DEF m
<1>5. \A d \in Call : CallOK(calls'[d]) /\ (calls'[d] \in Closing => calls[d] \in Closing)
  BY <1>3, <1>4 DEF TypeInv
<1>6. MapsOK' /\ process # "down"
  BY <1>1, CallsRun, MapsHold DEF MapsOK, serviceVars
<1>7. overlapped' \in BOOLEAN
  BY <1>1
<1>8. TypeInv'
  BY <1>1, <1>3, <1>5, <1>6, <1>7, TypesStand DEF TypeInv, ServiceTypeOK
<1> QED BY <1>1, <1>3, <1>4, <1>6, <1>8 DEF saved

\* What is left of a save that is over.
Answered(c) ==
    /\ calls'[c].at \in {"idle", "draining", "stopping"}
    /\ calls'[c].at = "draining" => /\ calls[c].op = "remove" /\ calls'[c].op = "remove"
                                    /\ calls'[c].torrent = calls[c].torrent
    /\ calls'[c].at # "draining" => calls'[c].op # "remove"
    /\ calls'[c].op # "add"
    /\ calls[c].op = "add" =>
          /\ calls[c].torrent \in Torrent /\ calls[c].user \in User
          /\ promise' = IF promise[calls[c].torrent] = c
                        THEN [promise EXCEPT ![calls[c].torrent] = calls[c].user] ELSE promise
    /\ calls[c].op # "add" => promise' = promise
    /\ \A d \in Call : d # c => calls'[d] = calls[d]
    /\ UNCHANGED <<process, serviceVars, client>>

LEMMA GoesOnIs ==
    ASSUME TypeInv, NEW c \in Call, calls[c].at \in {"owners", "registry"}, GoesOn(c)
    PROVE  /\ Answered(c) /\ process # "down"
           /\ calls' = [d \in Call |-> calls'[d]]
           /\ \A d \in Call : CallOK(calls'[d]) /\ (calls'[d] \in Closing => calls[d] \in Closing)
           /\ promise' \in [Torrent -> User \cup Call \cup {"nothing", "removed"}]
<1>1. /\ CallOK(calls[c])
      /\ RequestOK(calls[c]) \/ calls[c] \in Closing
      /\ calls[c].op \in {"add", "remove"} \/ (calls[c].op = "close" /\ calls[c] \in Closing)
  BY KindOfCall DEF TypeInv
<1>2. process # "down" /\ promise \in [Torrent -> User \cup Call \cup {"nothing", "removed"}]
  BY CallsRun DEF TypeInv, ServiceTypeOK
<1>3. CASE calls[c].op = "add"
  <2>1. RequestOK(calls[c])
    BY <1>1, <1>3 DEF Closing
  <2>2. calls[c].torrent \in Torrent /\ calls[c].user \in User
    BY <2>1 DEF RequestOK, Request
  <2>3. /\ Ends(c) /\ UNCHANGED <<process, serviceVars, client>>
        /\ promise' = IF promise[calls[c].torrent] = c
                      THEN [promise EXCEPT ![calls[c].torrent] = calls[c].user] ELSE promise
    BY <1>3 DEF GoesOn
  <2>4. /\ calls' = [d \in Call |-> calls'[d]] /\ calls'[c] = Idle
        /\ \A d \in Call : d # c => calls'[d] = calls[d]
    BY <2>3, EndsIs
  <2>5. CallOK(Idle) /\ Idle \notin Closing
    BY DEF CallOK, Idle, Closing
  <2>6. \A d \in Call : CallOK(calls'[d]) /\ (calls'[d] \in Closing => calls[d] \in Closing)
    BY <2>4, <2>5 DEF TypeInv
  <2>7. promise' \in [Torrent -> User \cup Call \cup {"nothing", "removed"}]
    BY <1>2, <2>2, <2>3
  <2>8. Answered(c)
    BY <1>3, <2>2, <2>3, <2>4, IdleIs DEF Answered
  <2> QED BY <1>2, <2>4, <2>6, <2>7, <2>8
<1>4. CASE calls[c].op = "remove"
  <2>1. RequestOK(calls[c]) /\ calls[c] \notin Closing
    BY <1>1, <1>4 DEF Closing
  <2>2. Goes(c, "draining") /\ UNCHANGED <<process, serviceVars, client, promise>>
    BY <1>4 DEF GoesOn
  <2>3. /\ calls' = [d \in Call |-> calls'[d]]
        /\ calls'[c].at = "draining" /\ calls'[c].op = "remove" /\ calls'[c] \in Request
        /\ calls'[c].torrent = calls[c].torrent
        /\ \A d \in Call : d # c => calls'[d] = calls[d]
    BY <1>4, <2>1, <2>2, GoesIs
  <2>4. \A d \in Call : CallOK(calls'[d]) /\ (calls'[d] \in Closing => calls[d] \in Closing)
    <3>1. CallOK(calls'[c]) /\ calls'[c] \notin Closing
      BY <2>3 DEF CallOK, RequestOK, Closing
    <3> QED BY <2>3, <3>1 DEF TypeInv
  <2>5. Answered(c)
    BY <1>4, <2>2, <2>3 DEF Answered
  <2> QED BY <1>2, <2>2, <2>3, <2>4, <2>5
<1>5. CASE calls[c].op = "close" /\ calls[c] \in Closing
  <2>1. Goes(c, "stopping") /\ UNCHANGED <<process, serviceVars, client, promise>>
    BY <1>5 DEF GoesOn
  <2>2. /\ calls' = [d \in Call |-> calls'[d]]
        /\ calls'[c].at = "stopping" /\ calls'[c].op = "close" /\ calls'[c] \in Closing
        /\ \A d \in Call : d # c => calls'[d] = calls[d]
    BY <1>5, <2>1, GoesIs
  <2>3. \A d \in Call : CallOK(calls'[d]) /\ (calls'[d] \in Closing => calls[d] \in Closing)
    BY <1>5, <2>2 DEF CallOK, TypeInv
  <2>4. Answered(c)
    BY <1>5, <2>1, <2>2 DEF Answered
  <2> QED BY <1>2, <2>1, <2>2, <2>3, <2>4
<1> QED BY <1>1, <1>3, <1>4, <1>5

LEMMA WriteOwnersIs ==
    ASSUME TypeInv, NEW c \in Call, WriteOwners(c)
    PROVE  /\ TypeInv' /\ process # "down" /\ calls[c].at = "owners"
           /\ calls[c].snapshot \in Saved /\ overlapped' = overlapped
           /\ UNCHANGED <<process, serviceVars, client>>
           /\ \A d \in Call : d # c => calls'[d] = calls[d]
           /\ \/ /\ SpentSame /\ disk' = [disk EXCEPT !.owners = calls[c].snapshot.owners]
                 /\ calls'[c].at = "registry" /\ calls'[c].op = calls[c].op
                 /\ calls'[c].snapshot = calls[c].snapshot
                 /\ RequestOK(calls[c]) => /\ calls'[c].user = calls[c].user
                                           /\ calls'[c].torrent = calls[c].torrent
                 /\ promise' = promise
              \/ /\ Answered(c) /\ disk' = disk
                 /\ spent'.failedWrites = spent.failedWrites + 1
                 /\ spent'.adds = spent.adds /\ spent'.removes = spent.removes
                 /\ spent'.ends = spent.ends /\ spent'.timeouts = spent.timeouts
                 /\ spent'.failedRestores = spent.failedRestores
<1>1. /\ calls[c].at = "owners" /\ overlapped' = overlapped
      /\ calls[c].snapshot \in Saved /\ process # "down"
      /\ RequestOK(calls[c]) \/ calls[c] \in Closing
      /\ calls[c].op \in {"add", "remove"} \/ (calls[c].op = "close" /\ calls[c] \in Closing)
  BY KindOfCall, CallsRun DEF WriteOwners, TypeInv
<1>2. CASE /\ disk' = [disk EXCEPT !.owners = calls[c].snapshot.owners] /\ Goes(c, "registry")
           /\ UNCHANGED <<process, serviceVars, client, promise, spent>>
  <2>1. /\ calls' = [d \in Call |-> calls'[d]]
        /\ calls'[c].at = "registry" /\ calls'[c].op = calls[c].op
        /\ calls'[c].snapshot = calls[c].snapshot
        /\ calls[c] \in Closing => calls'[c] \in Closing
        /\ RequestOK(calls[c]) =>
              /\ calls'[c] \in Request /\ calls'[c].user = calls[c].user
              /\ calls'[c].torrent = calls[c].torrent
        /\ \A d \in Call : d # c => calls'[d] = calls[d]
    BY <1>1, <1>2, GoesIs
  <2>2. CallOK(calls'[c]) /\ (calls'[c] \in Closing => calls[c] \in Closing)
    <3>1. CASE calls[c] \in Closing
      BY <2>1, <3>1 DEF CallOK
    <3>2. CASE RequestOK(calls[c])
      <4>1. calls'[c].op \in {"add", "remove"} /\ calls'[c] \in Request
        BY <1>1, <2>1, <3>2 DEF Closing, RequestOK, Request
      <4> QED BY <2>1, <4>1 DEF CallOK, RequestOK, Closing
    <3> QED BY <1>1, <3>1, <3>2
  <2>3. \A d \in Call : CallOK(calls'[d]) /\ (calls'[d] \in Closing => calls[d] \in Closing)
    BY <2>1, <2>2 DEF TypeInv
  <2>4. disk' \in Saved
    BY <1>1, <1>2 DEF TypeInv, ServiceTypeOK, Saved
  <2>5. MapsOK'
    BY <1>2, MapsHold DEF MapsOK, serviceVars
  <2>6. TypeInv'
    BY <1>1, <1>2, <2>1, <2>3, <2>4, <2>5, TypesStand DEF TypeInv, ServiceTypeOK
  <2> QED BY <1>1, <1>2, <2>1, <2>6 DEF SpentSame
<1>3. CASE Use("failedWrites") /\ GoesOn(c) /\ UNCHANGED disk
  <2>1. /\ Answered(c) /\ calls' = [d \in Call |-> calls'[d]]
        /\ \A d \in Call : CallOK(calls'[d]) /\ (calls'[d] \in Closing => calls[d] \in Closing)
        /\ promise' \in [Torrent -> User \cup Call \cup {"nothing", "removed"}]
    BY <1>1, <1>3, GoesOnIs
  <2>2. /\ spent' \in Spent /\ spent'.failedWrites = spent.failedWrites + 1
        /\ spent'.adds = spent.adds /\ spent'.removes = spent.removes
        /\ spent'.ends = spent.ends /\ spent'.timeouts = spent.timeouts
        /\ spent'.failedRestores = spent.failedRestores
    <3>1. "failedWrites" \in Bounds
      BY DEF Bounds
    <3> QED BY <1>3, <3>1, UseIs DEF TypeInv
  <2>3. MapsOK'
    BY <2>1, MapsHold DEF Answered, MapsOK, serviceVars
  <2>4. TypeInv'
    BY <1>1, <1>3, <2>1, <2>2, <2>3, TypesStand DEF TypeInv, ServiceTypeOK, Answered
  <2> QED BY <1>1, <1>3, <2>1, <2>2, <2>4 DEF Answered
<1> QED BY <1>2, <1>3 DEF WriteOwners

LEMMA WriteRegistryIs ==
    ASSUME TypeInv, NEW c \in Call, WriteRegistry(c)
    PROVE  /\ TypeInv' /\ process # "down" /\ calls[c].at = "registry"
           /\ calls[c].snapshot \in Saved /\ overlapped' = overlapped /\ Answered(c)
           /\ spent'.adds = spent.adds /\ spent'.removes = spent.removes
           /\ spent'.ends = spent.ends /\ spent'.timeouts = spent.timeouts
           /\ spent'.failedRestores = spent.failedRestores
           /\ \/ /\ spent'.failedWrites = spent.failedWrites
                 /\ disk' = [disk EXCEPT !.registry = calls[c].snapshot.registry,
                                         !.sources = calls[c].snapshot.sources]
              \/ spent'.failedWrites = spent.failedWrites + 1 /\ disk' = disk
<1>1. /\ calls[c].at = "registry" /\ overlapped' = overlapped /\ GoesOn(c)
      /\ calls[c].snapshot \in Saved /\ process # "down"
  BY KindOfCall, CallsRun DEF WriteRegistry, TypeInv
<1>2. /\ Answered(c) /\ calls' = [d \in Call |-> calls'[d]]
      /\ \A d \in Call : CallOK(calls'[d]) /\ (calls'[d] \in Closing => calls[d] \in Closing)
      /\ promise' \in [Torrent -> User \cup Call \cup {"nothing", "removed"}]
  BY <1>1, GoesOnIs
<1>3. MapsOK'
  BY <1>2, MapsHold DEF Answered, MapsOK, serviceVars
<1>4. ASSUME disk' \in Saved, spent' \in Spent PROVE TypeInv'
  BY <1>1, <1>2, <1>3, <1>4, TypesStand DEF TypeInv, ServiceTypeOK, Answered
<1>5. CASE /\ disk' = [disk EXCEPT !.registry = calls[c].snapshot.registry,
                                   !.sources = calls[c].snapshot.sources]
           /\ UNCHANGED spent
  <2>1. disk' \in Saved
    BY <1>1, <1>5 DEF TypeInv, ServiceTypeOK, Saved
  <2>2. TypeInv'
    BY <1>4, <1>5, <2>1 DEF TypeInv
  <2> QED BY <1>1, <1>2, <1>5, <2>2
<1>6. CASE Use("failedWrites") /\ UNCHANGED disk
  <2>1. /\ spent' \in Spent /\ spent'.failedWrites = spent.failedWrites + 1
        /\ spent'.adds = spent.adds /\ spent'.removes = spent.removes
        /\ spent'.ends = spent.ends /\ spent'.timeouts = spent.timeouts
        /\ spent'.failedRestores = spent.failedRestores
    <3>1. "failedWrites" \in Bounds
      BY DEF Bounds
    <3> QED BY <1>6, <3>1, UseIs DEF TypeInv
  <2>2. TypeInv'
    BY <1>4, <1>6, <2>1 DEF TypeInv, ServiceTypeOK
  <2> QED BY <1>1, <1>2, <1>6, <2>1, <2>2
<1> QED BY <1>5, <1>6 DEF WriteRegistry

LEMMA RemoveBeginsIs ==
    ASSUME TypeInv, NEW c \in Call, NEW u \in User, NEW t \in Torrent, RemoveBegins(c, u, t)
    PROVE  /\ TypeInv' /\ process # "down"
           /\ calls[c] = Idle /\ calls'[c].at = "snapshot" /\ calls'[c].op = "remove"
           /\ calls'[c].torrent = t
           /\ \A d \in Call : d # c => calls'[d] = calls[d]
           /\ t \in torrents /\ torrents' = torrents \ {t} /\ source' = source \ {t}
           /\ owner' = [owner EXCEPT ![t] = NoUser] /\ promise' = [promise EXCEPT ![t] = c]
           /\ UNCHANGED <<process, client, disk, overlapped>>
           /\ spent'.removes = spent.removes + 1 /\ spent.removes \in Nat
           /\ spent'.adds = spent.adds
           /\ spent'.ends = spent.ends /\ spent'.timeouts = spent.timeouts
           /\ spent'.failedRestores = spent.failedRestores
           /\ spent'.failedWrites = spent.failedWrites
<1>1. /\ process = "up" /\ calls[c] = Idle
      /\ calls' = [d \in Call |-> calls'[d]]
      /\ calls'[c] \in Request /\ calls'[c].op = "remove"
      /\ calls'[c].torrent = t /\ calls'[c].at = "snapshot"
      /\ \A d \in Call : d # c => calls'[d] = calls[d]
  BY AsksIs DEF RemoveBegins
<1>2. /\ t \in torrents /\ torrents' = torrents \ {t} /\ source' = source \ {t}
      /\ owner' = [owner EXCEPT ![t] = NoUser] /\ promise' = [promise EXCEPT ![t] = c]
      /\ selected' = [selected EXCEPT ![t] = {}]
      /\ UNCHANGED <<process, client, disk, overlapped>> /\ Use("removes")
  BY DEF RemoveBegins
<1>3. /\ spent' \in Spent /\ spent'.removes = spent.removes + 1 /\ spent.removes \in Nat
      /\ spent'.adds = spent.adds
      /\ spent'.ends = spent.ends /\ spent'.timeouts = spent.timeouts
      /\ spent'.failedRestores = spent.failedRestores
      /\ spent'.failedWrites = spent.failedWrites
  <2>1. "removes" \in Bounds /\ spent.removes \in Nat
    BY DEF Bounds, TypeInv, Spent
  <2> QED BY <1>2, <2>1, UseIs DEF TypeInv
<1>4. \A d \in Call : CallOK(calls'[d]) /\ (calls'[d] \in Closing => calls[d] \in Closing)
  <2>1. CallOK(calls'[c]) /\ calls'[c] \notin Closing
    BY <1>1 DEF CallOK, RequestOK, Closing
  <2> QED BY <1>1, <2>1 DEF TypeInv
<1>5. MapsOK'
  BY <1>2, MapsHold DEF MapsOK
<1>6. promise' \in [Torrent -> User \cup Call \cup {"nothing", "removed"}]
  BY <1>2 DEF TypeInv, ServiceTypeOK
<1>7. TypeInv'
  BY <1>1, <1>2, <1>3, <1>4, <1>5, <1>6, TypesStand DEF TypeInv, ServiceTypeOK
<1> QED BY <1>1, <1>2, <1>3, <1>7

LEMMA RemoveDropsIs ==
    ASSUME TypeInv, NEW c \in Call, RemoveDrops(c)
    PROVE  LET t == calls[c].torrent IN
           /\ TypeInv' /\ process # "down"
           /\ calls[c].at = "draining" /\ calls[c].op = "remove" /\ t \in Torrent
           /\ calls'[c] = Idle
           /\ \A d \in Call : d # c =>
                 /\ calls'[d].at = calls[d].at
                 /\ calls[d].at # "fetching" => calls'[d] = calls[d]
                 /\ calls[d].at = "fetching" =>
                       /\ calls'[d].op = "add" /\ calls'[d].torrent = calls[d].torrent
                       /\ ~calls'[d].dropped => ~calls[d].dropped /\ calls[d].torrent # t
           /\ client' = client \ {t}
           /\ promise' = IF promise[t] = c THEN [promise EXCEPT ![t] = "removed"] ELSE promise
           /\ UNCHANGED <<process, serviceVars, disk, overlapped>>
           /\ spent'.adds = spent.adds /\ spent'.removes = spent.removes
           /\ spent'.ends = spent.ends /\ spent'.failedRestores = spent.failedRestores
           /\ spent'.failedWrites = spent.failedWrites
           /\ spent.timeouts \in Nat
           /\ \/ At("streaming") = {} /\ spent'.timeouts = spent.timeouts
              \/ spent'.timeouts = spent.timeouts + 1
<1> DEFINE t == calls[c].torrent
<1>1. calls[c].at = "draining" /\ calls[c].op = "remove" /\ t \in Torrent
  <2>1. calls[c].at = "draining" /\ RequestOK(calls[c]) /\ calls[c].op = "remove"
    BY KindOfCall DEF RemoveDrops, TypeInv
  <2> QED BY <2>1 DEF RequestOK, Request
<1>2. /\ client' = client \ {t}
      /\ calls' = [WithoutObject(calls, t) EXCEPT ![c] = Idle]
      /\ promise' = IF promise[t] = c THEN [promise EXCEPT ![t] = "removed"] ELSE promise
      /\ UNCHANGED <<process, serviceVars, disk, overlapped>>
      /\ \/ At("streaming") = {} /\ UNCHANGED spent
         \/ Use("timeouts")
  BY DEF RemoveDrops
<1> HIDE DEF t
<1>3. /\ spent' \in Spent
      /\ spent'.adds = spent.adds /\ spent'.removes = spent.removes
      /\ spent'.ends = spent.ends /\ spent'.failedRestores = spent.failedRestores
      /\ spent'.failedWrites = spent.failedWrites
      /\ spent.timeouts \in Nat
      /\ \/ At("streaming") = {} /\ spent'.timeouts = spent.timeouts
         \/ spent'.timeouts = spent.timeouts + 1
  <2>1. "timeouts" \in Bounds /\ spent.timeouts \in Nat /\ spent \in Spent
    BY DEF Bounds, TypeInv, Spent
  <2>2. CASE Use("timeouts")
    BY <2>1, <2>2, UseIs
  <2>3. CASE At("streaming") = {} /\ UNCHANGED spent
    BY <2>1, <2>3
  <2> QED BY <1>2, <2>2, <2>3
<1>4. /\ calls' = [d \in Call |-> calls'[d]] /\ calls'[c] = Idle
      /\ \A d \in Call : d # c => calls'[d] = WithoutObject(calls, t)[d]
  <2>1. WithoutObject(calls, t) = [d \in Call |-> WithoutObject(calls, t)[d]]
    BY DEF WithoutObject
  <2> QED BY <1>2, <2>1
<1>5. ASSUME NEW d \in Call, d # c
      PROVE  /\ CallOK(calls'[d]) /\ calls'[d].at = calls[d].at
             /\ calls[d].at # "fetching" => calls'[d] = calls[d]
             /\ calls[d].at = "fetching" =>
                  /\ calls'[d].torrent = calls[d].torrent /\ calls'[d].op = "add"
                  /\ ~calls'[d].dropped => ~calls[d].dropped /\ calls[d].torrent # t
             /\ calls'[d] \in Closing => calls[d] \in Closing
  <2>1. calls'[d] = WithoutObject(calls, t)[d]
    BY <1>4, <1>5
  <2>2. /\ CallOK(calls'[d]) /\ calls'[d].at = calls[d].at
        /\ calls[d].at # "fetching" => calls'[d] = calls[d]
        /\ calls[d].at = "fetching" =>
             /\ calls'[d].torrent = calls[d].torrent /\ calls'[d].op = "add"
             /\ ~calls'[d].dropped => ~calls[d].dropped /\ calls[d].torrent # t
    BY <2>1, WithoutObjectIs
  <2>3. calls'[d] \in Closing => calls'[d].op = "close"
    BY DEF Closing
  <2> QED BY <2>2, <2>3
<1>6. \A d \in Call : CallOK(calls'[d]) /\ (calls'[d] \in Closing => calls[d] \in Closing)
  <2>1. CallOK(Idle) /\ Idle \notin Closing
    BY DEF CallOK, Idle, Closing
  <2> QED BY <1>4, <1>5, <2>1
<1>7. MapsOK' /\ process # "down"
  BY <1>1, <1>2, CallsRun, MapsHold DEF MapsOK, serviceVars
<1>8. promise' \in [Torrent -> User \cup Call \cup {"nothing", "removed"}]
  BY <1>1, <1>2 DEF TypeInv, ServiceTypeOK
<1>9. TypeInv'
  BY <1>2, <1>3, <1>4, <1>6, <1>7, <1>8, TypesStand DEF TypeInv, ServiceTypeOK
<1> QED BY <1>1, <1>2, <1>3, <1>4, <1>5, <1>7, <1>9 DEF t

\* Requests that watch change nothing the files or the removals depend on.
LEMMA ReadsAre ==
    ASSUME TypeInv, NEW c \in Call,
           \/ \E u \in User, t \in Torrent, op \in {"select", "stream"} : ReadBegins(c, op, u, t)
           \/ SelectFile(c) \/ ServeFile(c) \/ StreamEnds(c)
    PROVE  /\ TypeInv' /\ SpentSame /\ process # "down"
           /\ calls[c].at \in {"idle", "allowed", "streaming"}
           /\ calls'[c].at \in {"idle", "allowed", "streaming"}
           /\ calls'[c].op \notin {"add", "remove"}
           /\ calls'[c].at = "streaming" => calls'[c].torrent \in torrents
           /\ \A d \in Call : d # c => calls'[d] = calls[d]
           /\ UNCHANGED <<process, torrents, owner, source, client, disk, historyVars>>
<1>1. ASSUME NEW u \in User, NEW t \in Torrent, NEW op \in {"select", "stream"},
             ReadBegins(c, op, u, t)
      PROVE  /\ calls' = [d \in Call |-> calls'[d]] /\ process = "up"
             /\ calls[c] = Idle /\ calls'[c].at = "allowed" /\ calls'[c].op = op
             /\ CallOK(calls'[c]) /\ calls'[c] \notin Closing
             /\ \A d \in Call : d # c => calls'[d] = calls[d]
             /\ UNCHANGED <<process, serviceVars, client, disk, historyVars>>
             /\ spent' \in Spent /\ SpentSame
  <2>1. Asks(c, op, u, t, "allowed") /\ Use("reads")
        /\ UNCHANGED <<process, serviceVars, client, disk, historyVars>>
    BY <1>1 DEF ReadBegins
  <2>2. /\ calls' = [d \in Call |-> calls'[d]] /\ process = "up"
        /\ calls[c] = Idle /\ calls'[c].at = "allowed" /\ calls'[c].op = op
        /\ calls'[c] \in Request
        /\ \A d \in Call : d # c => calls'[d] = calls[d]
    <3>1. CASE op = "select"
      <4>1. Asks(c, "select", u, t, "allowed")
        BY <2>1, <3>1
      <4> QED BY <3>1, <4>1, AsksIs
    <3>2. CASE op = "stream"
      <4>1. Asks(c, "stream", u, t, "allowed")
        BY <2>1, <3>2
      <4> QED BY <3>2, <4>1, AsksIs
    <3> QED BY <3>1, <3>2
  <2>3. spent' \in Spent /\ SpentSame
    <3>1. "reads" \in Bounds
      BY DEF Bounds
    <3> QED BY <2>1, <3>1, UseIs DEF TypeInv, SpentSame
  <2>4. CallOK(calls'[c]) /\ calls'[c] \notin Closing
    BY <2>2 DEF CallOK, RequestOK, Closing
  <2> QED BY <2>1, <2>2, <2>3, <2>4
<1>2. CallOK(Idle) /\ Idle \notin Closing
  BY DEF CallOK, Idle, Closing
<1>3. ASSUME Ends(c), calls[c].at \in {"allowed", "streaming"},
             UNCHANGED <<process, torrents, owner, source, client, disk, historyVars, spent>>,
             MapsOK'
      PROVE  /\ TypeInv' /\ SpentSame /\ process # "down" /\ calls'[c] = Idle
             /\ \A d \in Call : d # c => calls'[d] = calls[d]
  <2>1. /\ calls' = [d \in Call |-> calls'[d]] /\ calls'[c] = Idle
        /\ \A d \in Call : d # c => calls'[d] = calls[d]
    BY <1>3, EndsIs
  <2>2. \A d \in Call : CallOK(calls'[d]) /\ (calls'[d] \in Closing => calls[d] \in Closing)
    BY <1>2, <2>1 DEF TypeInv
  <2>3. process # "down"
    BY <1>3, CallsRun
  <2>4. TypeInv'
    BY <1>3, <2>1, <2>2, <2>3, TypesStand DEF TypeInv, ServiceTypeOK, historyVars
  <2> QED BY <1>3, <2>1, <2>3, <2>4 DEF SpentSame
<1>4. ASSUME NEW u \in User, NEW t \in Torrent, NEW op \in {"select", "stream"},
             ReadBegins(c, op, u, t)
      PROVE  TypeInv'
  <2>1. /\ calls' = [d \in Call |-> calls'[d]] /\ process = "up"
        /\ CallOK(calls'[c]) /\ calls'[c] \notin Closing
        /\ \A d \in Call : d # c => calls'[d] = calls[d]
        /\ UNCHANGED <<process, serviceVars, client, disk, historyVars>>
        /\ spent' \in Spent
    BY <1>1, <1>4
  <2>2. \A d \in Call : CallOK(calls'[d]) /\ (calls'[d] \in Closing => calls[d] \in Closing)
    BY <2>1 DEF TypeInv
  <2>3. MapsOK'
    BY <2>1, MapsHold DEF MapsOK, serviceVars
  <2> QED BY <2>1, <2>2, <2>3, TypesStand DEF TypeInv, ServiceTypeOK, historyVars
<1>5. CASE \E u \in User, t \in Torrent, op \in {"select", "stream"} : ReadBegins(c, op, u, t)
  BY <1>1, <1>4, <1>5, IdleIs DEF serviceVars
<1>6. CASE SelectFile(c)
  <2>1. /\ calls[c].at = "allowed" /\ Ends(c)
        /\ UNCHANGED <<process, torrents, owner, source, client, disk, historyVars, spent>>
    BY <1>6 DEF SelectFile
  <2>2. calls[c].user \in User
    <3>1. RequestOK(calls[c])
      BY <2>1, KindOfCall DEF TypeInv
    <3> QED BY <3>1 DEF RequestOK, Request
  <2>3. MapsOK'
    <3> DEFINE t == calls[c].torrent
               u == calls[c].user
    <3>1. \/ t \in torrents /\ selected' = [selected EXCEPT ![t] = selected[t] \cup {u}]
          \/ selected' = selected
      BY <1>6 DEF SelectFile
    <3>2. u \in User
      BY <2>2
    <3> HIDE DEF t, u
    <3> QED BY <2>1, <3>1, <3>2, MapsHold DEF MapsOK
  <2> QED BY <1>3, <2>1, <2>3, IdleIs
<1>7. CASE StreamEnds(c)
  <2>1. /\ calls[c].at = "streaming" /\ Ends(c)
        /\ UNCHANGED <<process, serviceVars, client, disk, historyVars, spent>>
    BY <1>7 DEF StreamEnds
  <2>2. MapsOK'
    BY <2>1, MapsHold DEF MapsOK, serviceVars
  <2> QED BY <1>3, <2>1, <2>2, IdleIs DEF serviceVars
<1>8. CASE ServeFile(c)
  <2>1. /\ calls[c].at = "allowed" /\ calls[c].op = "stream" /\ RequestOK(calls[c])
        /\ UNCHANGED <<process, serviceVars, client, disk, historyVars, spent>>
        /\ process # "down"
    BY <1>8, KindOfCall, CallsRun DEF ServeFile, TypeInv
  <2>2. MapsOK'
    BY <2>1, MapsHold DEF MapsOK, serviceVars
  <2>3. CASE Ends(c)
    BY <1>3, <2>1, <2>2, <2>3, IdleIs DEF serviceVars
  <2>4. CASE Goes(c, "streaming") /\ calls[c].torrent \in torrents
    <3>1. /\ calls' = [d \in Call |-> calls'[d]]
          /\ calls'[c].at = "streaming" /\ calls'[c].op = "stream" /\ calls'[c] \in Request
          /\ calls'[c].torrent = calls[c].torrent
          /\ \A d \in Call : d # c => calls'[d] = calls[d]
      BY <2>1, <2>4, GoesIs
    <3>2. \A d \in Call : CallOK(calls'[d]) /\ (calls'[d] \in Closing => calls[d] \in Closing)
      <4>1. CallOK(calls'[c]) /\ calls'[c] \notin Closing
        BY <3>1 DEF CallOK, RequestOK, Closing
      <4> QED BY <3>1, <4>1 DEF TypeInv
    <3>3. TypeInv'
      BY <2>1, <2>2, <3>1, <3>2, TypesStand DEF TypeInv, ServiceTypeOK, historyVars
    <3> QED BY <2>1, <2>4, <3>1, <3>3 DEF SpentSame, serviceVars
  <2> QED BY <1>8, <2>3, <2>4 DEF ServeFile
<1> QED BY <1>5, <1>6, <1>7, <1>8

LEMMA CloseIs ==
    ASSUME TypeInv, NEW c \in Call, Close(c)
    PROVE  /\ TypeInv' /\ process = "up" /\ process' = "closing"
           /\ calls[c] = Idle /\ calls'[c] \in Closing /\ calls'[c].at = "snapshot"
           /\ calls'[c].op = "close"
           /\ \A d \in Call : d # c => calls'[d] = calls[d]
           /\ UNCHANGED <<serviceVars, client, disk, historyVars>>
           /\ spent'.ends = spent.ends + 1 /\ spent.ends \in Nat
           /\ spent'.adds = spent.adds /\ spent'.removes = spent.removes
           /\ spent'.timeouts = spent.timeouts
           /\ spent'.failedRestores = spent.failedRestores
           /\ spent'.failedWrites = spent.failedWrites
<1> DEFINE r == [op |-> "close", at |-> "snapshot", snapshot |-> Nothing]
<1>1. r \in Closing /\ r.at = "snapshot" /\ r.op = "close"
  BY DEF Closing, Nothing, Saved
<1>2. /\ calls' = [calls EXCEPT ![c] = r] /\ calls[c] = Idle
      /\ process = "up" /\ process' = "closing" /\ Use("ends")
      /\ UNCHANGED <<serviceVars, client, disk, historyVars>>
  BY DEF Close
<1> HIDE DEF r
<1>3. /\ calls' = [d \in Call |-> calls'[d]] /\ calls'[c] = r
      /\ \A d \in Call : d # c => calls'[d] = calls[d]
  BY <1>2 DEF TypeInv, ServiceTypeOK
<1>4. /\ spent' \in Spent /\ spent'.ends = spent.ends + 1 /\ spent.ends \in Nat
      /\ spent'.adds = spent.adds /\ spent'.removes = spent.removes
      /\ spent'.timeouts = spent.timeouts
      /\ spent'.failedRestores = spent.failedRestores
      /\ spent'.failedWrites = spent.failedWrites
  <2>1. "ends" \in Bounds /\ spent.ends \in Nat
    BY DEF Bounds, TypeInv, Spent
  <2> QED BY <1>2, <2>1, UseIs DEF TypeInv
<1>5. \A d \in Call : CallOK(calls'[d])
  BY <1>1, <1>3 DEF TypeInv, CallOK
<1>6. calls' \in [Call -> Request \cup Closing \cup {Idle}]
  <2>1. \A d \in Call : calls'[d] \in Request \cup Closing \cup {Idle}
    BY <1>5 DEF CallOK, RequestOK
  <2> QED BY <1>3, <2>1
<1>7. TypeInv'
  BY <1>2, <1>4, <1>5, <1>6 DEF TypeInv, ServiceTypeOK, serviceVars, historyVars
<1> QED BY <1>1, <1>2, <1>3, <1>4, <1>7

LEMMA HaltIs ==
    ASSUME TypeInv, Crash \/ \E c \in Call : Exit(c)
    PROVE  /\ TypeInv' /\ process # "down" /\ process' = "down"
           /\ torrents' = {} /\ source' = {} /\ client' = {}
           /\ \A d \in Call : calls'[d] = Idle
           /\ UNCHANGED <<disk, historyVars>>
           /\ \/ process = "closing" /\ spent'.ends = spent.ends
              \/ spent'.ends = spent.ends + 1
           /\ spent.ends \in Nat
           /\ spent'.adds = spent.adds /\ spent'.removes = spent.removes
           /\ spent'.timeouts = spent.timeouts
           /\ spent'.failedRestores = spent.failedRestores
           /\ spent'.failedWrites = spent.failedWrites
<1>1. Halt /\ UNCHANGED <<disk, historyVars>>
  BY DEF Crash, Exit
<1>2. /\ process # "down"
      /\ \/ process = "closing" /\ spent' = spent
         \/ Use("ends")
  <2>1. CASE Crash
    BY <2>1 DEF Crash
  <2>2. ASSUME NEW c \in Call, Exit(c)
        PROVE  process = "closing" /\ spent' = spent
    <3>1. calls[c] \in Closing
      BY <2>2, KindOfCall DEF Exit, TypeInv
    <3> QED BY <2>2, <3>1 DEF Exit, TypeInv
  <2> QED BY <2>1, <2>2
<1>3. /\ spent' \in Spent /\ spent.ends \in Nat
      /\ \/ process = "closing" /\ spent'.ends = spent.ends
         \/ spent'.ends = spent.ends + 1
      /\ spent'.adds = spent.adds /\ spent'.removes = spent.removes
      /\ spent'.timeouts = spent.timeouts
      /\ spent'.failedRestores = spent.failedRestores
      /\ spent'.failedWrites = spent.failedWrites
  <2>1. "ends" \in Bounds /\ spent.ends \in Nat /\ spent \in Spent
    BY DEF Bounds, TypeInv, Spent
  <2>2. CASE Use("ends")
    BY <2>1, <2>2, UseIs
  <2>3. CASE process = "closing" /\ spent' = spent
    BY <2>1, <2>3
  <2> QED BY <1>2, <2>2, <2>3
<1>4. Idle \notin Closing /\ CallOK(Idle)
  BY DEF Idle, Closing, CallOK
<1>5. TypeInv'
  BY <1>1, <1>3, <1>4 DEF Halt, TypeInv, ServiceTypeOK, historyVars
<1> QED BY <1>1, <1>2, <1>3, <1>5 DEF Halt

LEMMA BootIs ==
    ASSUME TypeInv, Boot
    PROVE  /\ TypeInv' /\ process = "down" /\ process' = "up"
           /\ \A d \in Call : calls'[d] = Idle
           /\ owner' = disk.owners /\ source' = {} /\ client' = torrents'
           /\ torrents' \subseteq disk.registry \cap disk.sources
           /\ UNCHANGED <<disk, historyVars>>
           /\ spent.failedRestores \in Nat /\ spent'.failedRestores \in Nat
           /\ spent'.failedRestores >= spent.failedRestores
           /\ spent'.failedRestores = 0 => torrents' = disk.registry \cap disk.sources
           /\ spent'.adds = spent.adds /\ spent'.removes = spent.removes
           /\ spent'.ends = spent.ends /\ spent'.timeouts = spent.timeouts
           /\ spent'.failedWrites = spent.failedWrites
<1>1. PICK offline \in SUBSET (disk.registry \cap disk.sources) :
        /\ spent' = [spent EXCEPT !.failedRestores = spent.failedRestores + Cardinality(offline)]
        /\ torrents' = (disk.registry \cap disk.sources) \ offline
  BY DEF Boot
<1>2. /\ process = "down" /\ process' = "up" /\ owner' = disk.owners /\ client' = torrents'
      /\ UNCHANGED <<source, selected, calls, disk, historyVars>>
  BY DEF Boot
<1>3. IsFiniteSet(offline) /\ Cardinality(offline) \in Nat
  <2>1. offline \subseteq Torrent
    BY DEF TypeInv, ServiceTypeOK, Saved
  <2> QED BY <2>1, NamesAssumption, FS_Subset, FS_CardinalityType
<1>4. source = {} /\ torrents = {} /\ \A t \in Torrent : selected[t] = {}
  BY <1>2 DEF TypeInv, ServiceTypeOK
<1>5. /\ spent' \in Spent
      /\ spent.failedRestores \in Nat /\ spent'.failedRestores \in Nat
      /\ spent'.failedRestores >= spent.failedRestores
      /\ spent'.failedRestores = 0 => Cardinality(offline) = 0
      /\ spent'.adds = spent.adds /\ spent'.removes = spent.removes
      /\ spent'.ends = spent.ends /\ spent'.timeouts = spent.timeouts
      /\ spent'.failedWrites = spent.failedWrites
  <2> DEFINE n == Cardinality(offline)
             k == spent.failedRestores + n
  <2>1. spent \in Spent /\ n \in Nat /\ spent.failedRestores \in Nat /\ k \in Nat
    BY <1>3 DEF TypeInv, Spent
  <2>2. spent' = [spent EXCEPT !.failedRestores = k]
    BY <1>1
  <2>3. k >= spent.failedRestores /\ (k = 0 => n = 0)
    BY <2>1
  <2> HIDE DEF k
  <2>4. /\ spent' \in Spent /\ spent'.failedRestores = k
        /\ spent'.adds = spent.adds /\ spent'.removes = spent.removes
        /\ spent'.ends = spent.ends /\ spent'.timeouts = spent.timeouts
        /\ spent'.failedWrites = spent.failedWrites
    BY <2>1, <2>2 DEF Spent
  <2> QED BY <2>1, <2>3, <2>4
<1>6. Cardinality(offline) = 0 => offline = {}
  BY <1>3, FS_EmptySet
<1>7. torrents' \subseteq Torrent /\ owner' \in [Torrent -> User \cup {NoUser}]
  BY <1>1, <1>2 DEF TypeInv, ServiceTypeOK, Saved
<1>8. Idle \notin Closing
  BY DEF Idle, Closing
<1>9. TypeInv'
  BY <1>2, <1>4, <1>5, <1>7, <1>8 DEF TypeInv, ServiceTypeOK, historyVars
<1> QED BY <1>1, <1>2, <1>4, <1>5, <1>6, <1>9 DEF TypeInv

-----------------------------------------------------------------------------
(* The steps.                                                              *)

Places == {"idle", "fetching", "allowed", "streaming"}

\* A step beside the saves and the removals: the maps and the files stay, and a fetch
\* begins only below the limit.
Aside ==
    /\ UNCHANGED <<process, torrents, owner, source, disk, promise, overlapped>>
    /\ \A d \in Call : \/ calls'[d] = calls[d]
                       \/ /\ calls[d].at \in Places /\ calls'[d].at \in Places
                          /\ calls[d].op # "remove" /\ calls'[d].op # "remove"
    /\ \/ Cardinality(torrents) < MaxTorrents
       \/ \A d \in Call : calls'[d].at = "fetching" => calls[d].at = "fetching"
    /\ spent'.removes = spent.removes /\ spent'.ends = spent.ends
    /\ spent'.failedRestores = spent.failedRestores
    /\ spent'.failedWrites = spent.failedWrites

\* Which steps there are, for the properties of the files.
LEMMA StepIs ==
    ASSUME TypeInv, [Next]_vars
    PROVE  /\ TypeInv'
           /\ \/ Aside
              \/ \E c \in Call : AddLands(c)
              \/ \E c \in Call : TakeSnapshot(c)
              \/ \E c \in Call : WriteOwners(c)
              \/ \E c \in Call : WriteRegistry(c)
              \/ \E c \in Call, u \in User, t \in Torrent : RemoveBegins(c, u, t)
              \/ \E c \in Call : RemoveDrops(c)
              \/ \E c \in Call : Close(c)
              \/ Crash \/ \E c \in Call : Exit(c)
              \/ Boot
<1>1. CASE UNCHANGED vars
  <2>1. TypeInv'
    BY <1>1 DEF vars, serviceVars, historyVars, TypeInv, ServiceTypeOK
  <2> QED BY <1>1, <2>1 DEF vars, serviceVars, historyVars, Aside
<1>2. ASSUME NEW c \in Call, NEW u \in User, NEW t \in Torrent, AddBegins(c, u, t)
      PROVE  TypeInv' /\ Aside
  BY <1>2, AddBeginsIs, IdleIs DEF Aside, Places, serviceVars, historyVars
<1>3. ASSUME NEW c \in Call, AddFails(c)
      PROVE  TypeInv' /\ Aside
  <2>1. /\ calls'[c] = Idle /\ calls[c].at = "fetching" /\ calls[c].op # "remove"
        /\ TypeInv' /\ SpentSame
        /\ UNCHANGED <<process, serviceVars, disk, historyVars>>
    BY <1>3, AddFailsIs, KindOfCall DEF TypeInv
  <2>2. ASSUME NEW d \in Call, d # c, calls'[d] # calls[d]
        PROVE  /\ calls[d].at = "fetching" /\ calls'[d].at = "fetching"
               /\ calls[d].op # "remove" /\ calls'[d].op # "remove"
    <3>1. calls'[d].at = "fetching" /\ calls[d].at = "fetching" /\ calls'[d].op = "add"
      BY <1>3, <2>2, AddFailsIs
    <3> QED BY <3>1, KindOfCall DEF TypeInv
  <2>3. \A d \in Call : calls'[d].at = "fetching" => calls[d].at = "fetching"
    BY <2>1, <2>2, IdleIs
  <2> QED BY <2>1, <2>2, <2>3, IdleIs DEF Aside, Places, serviceVars, historyVars, SpentSame
<1>4. ASSUME NEW c \in Call,
             \/ \E u \in User, t \in Torrent, op \in {"select", "stream"} : ReadBegins(c, op, u, t)
             \/ SelectFile(c) \/ ServeFile(c) \/ StreamEnds(c)
      PROVE  TypeInv' /\ Aside
  <2>1. /\ TypeInv' /\ SpentSame
        /\ calls[c].at \in {"idle", "allowed", "streaming"}
        /\ calls'[c].at \in {"idle", "allowed", "streaming"}
        /\ calls'[c].op # "remove"
        /\ \A d \in Call : d # c => calls'[d] = calls[d]
        /\ UNCHANGED <<process, torrents, owner, source, disk, historyVars>>
    BY <1>4, ReadsAre
  <2>2. calls[c].op # "remove"
    BY <2>1, KindOfCall, IdleIs DEF TypeInv
  <2> QED BY <2>1, <2>2 DEF Aside, Places, historyVars, SpentSame
<1>5. ASSUME NEW c \in Call PROVE AddLands(c) => TypeInv'
  BY AddLandsIs
<1>6. ASSUME NEW c \in Call PROVE TakeSnapshot(c) => TypeInv'
  BY TakeSnapshotIs
<1>7. ASSUME NEW c \in Call PROVE WriteOwners(c) => TypeInv'
  BY WriteOwnersIs
<1>8. ASSUME NEW c \in Call PROVE WriteRegistry(c) => TypeInv'
  BY WriteRegistryIs
<1>9. ASSUME NEW c \in Call, NEW u \in User, NEW t \in Torrent
      PROVE  RemoveBegins(c, u, t) => TypeInv'
  BY RemoveBeginsIs
<1>10. ASSUME NEW c \in Call PROVE RemoveDrops(c) => TypeInv'
  BY RemoveDropsIs
<1>11. ASSUME NEW c \in Call PROVE Close(c) => TypeInv'
  BY CloseIs
<1>12. Crash \/ (\E c \in Call : Exit(c)) => TypeInv'
  BY HaltIs
<1>13. Boot => TypeInv'
  BY BootIs
<1>14. CASE Next
  <2>1. CASE \E c \in Call, u \in User, t \in Torrent :
                \/ AddBegins(c, u, t) \/ RemoveBegins(c, u, t)
                \/ \E op \in {"select", "stream"} : ReadBegins(c, op, u, t)
    BY <2>1, <1>2, <1>4, <1>9
  <2>2. CASE \E c \in Call :
                \/ AddFails(c) \/ AddLands(c)
                \/ TakeSnapshot(c) \/ WriteOwners(c) \/ WriteRegistry(c)
                \/ RemoveDrops(c)
                \/ SelectFile(c) \/ ServeFile(c) \/ StreamEnds(c)
                \/ Close(c) \/ Exit(c)
    BY <2>2, <1>3, <1>4, <1>5, <1>6, <1>7, <1>8, <1>10, <1>11, <1>12
  <2>3. CASE Crash \/ Boot
    BY <2>3, <1>12, <1>13
  <2> QED BY <1>14, <2>1, <2>2, <2>3 DEF Next
<1> QED BY <1>1, <1>14

LEMMA InitTypes == Init => TypeInv
<1> SUFFICES ASSUME Init PROVE TypeInv
  OBVIOUS
<1>1. PICK plan \in Plans :
         spent = [plan |-> plan, adds |-> 0, removes |-> 0, reads |-> 0, ends |-> 0,
                  timeouts |-> 0, failedFetches |-> 0, failedRestores |-> 0,
                  failedWrites |-> 0, lateAdds |-> 0]
  BY DEF Init
<1>2. spent \in Spent
  BY <1>1 DEF Spent
<1>3. Nothing \in Saved /\ CallOK(Idle) /\ Idle \notin Closing
  BY DEF Nothing, Saved, CallOK, Idle, Closing
<1> QED BY <1>2, <1>3 DEF Init, TypeInv, ServiceTypeOK

\* Every variable keeps its type, a source and a selection are those of a torrent
\* the service has.
THEOREM ServiceTypes == Spec => []ServiceTypeOK
<1>1. TypeInv /\ [Next]_vars => TypeInv'
  BY StepIs
<1>2. TypeInv => ServiceTypeOK
  BY DEF TypeInv
<1> QED BY InitTypes, <1>1, <1>2, PTL DEF Spec

-----------------------------------------------------------------------------
(* One save at a time.                                                     *)

\* A call is between its snapshot and its last file.
Writes(c) == calls[c].at \in {"owners", "registry"}

\* As long as no two saves ran at once there is one writer, and the owners on disk are
\* those of its snapshot when it comes to the registry.
OneWriter ==
    ~overlapped =>
        /\ \A c, d \in Call : Writes(c) /\ Writes(d) => c = d
        /\ \A c \in Call : calls[c].at = "registry" => disk.owners = calls[c].snapshot.owners

\* A snapshot that no other save is beside.
LEMMA SnapshotIsAlone ==
    ASSUME NEW c \in Call, TakeSnapshot(c), ~overlapped'
    PROVE  ~overlapped /\ \A d \in Call : ~Writes(d)
BY DEF TakeSnapshot, Writes, At

\* Who writes after a step of a save.
LEMMA SaveEnds ==
    ASSUME NEW c \in Call, Answered(c)
    PROVE  ~Writes(c)' /\ calls'[c].at # "snapshot"
BY DEF Answered, Writes

LEMMA OneWriterHolds ==
    ASSUME TypeInv, OneWriter, [Next]_vars PROVE OneWriter'
<1> SUFFICES ASSUME ~overlapped'
             PROVE  /\ \A c, d \in Call : Writes(c)' /\ Writes(d)' => c = d
                    /\ \A c \in Call : calls'[c].at = "registry" =>
                          disk'.owners = calls'[c].snapshot.owners
  BY DEF OneWriter
<1>0. ASSUME ~overlapped
      PROVE  /\ \A c, d \in Call : Writes(c) /\ Writes(d) => c = d
             /\ \A c \in Call : calls[c].at = "registry" =>
                   disk.owners = calls[c].snapshot.owners
  BY <1>0 DEF OneWriter
<1>1. CASE Aside
  BY <1>0, <1>1 DEF Aside, Places, Writes
<1>2. ASSUME NEW c \in Call, AddLands(c)
      PROVE  /\ ~overlapped /\ disk' = disk /\ ~Writes(c)'
             /\ \A d \in Call : d # c => calls'[d] = calls[d]
  BY <1>2, AddLandsIs DEF Writes
<1>3. CASE \E c \in Call : AddLands(c)
  BY <1>0, <1>2, <1>3 DEF Writes
<1>4. ASSUME NEW c \in Call, TakeSnapshot(c)
      PROVE  /\ ~overlapped /\ \A d \in Call : ~Writes(d)
             /\ calls'[c].at = "owners" /\ \A d \in Call : d # c => calls'[d] = calls[d]
  BY <1>4, TakeSnapshotIs, SnapshotIsAlone
<1>5. CASE \E c \in Call : TakeSnapshot(c)
  BY <1>4, <1>5 DEF Writes
<1>6. ASSUME NEW c \in Call, WriteOwners(c)
      PROVE  /\ ~overlapped /\ calls[c].at = "owners"
             /\ \A d \in Call : d # c => calls'[d] = calls[d]
             /\ \/ ~Writes(c)' /\ disk' = disk
                \/ /\ disk'.owners = calls[c].snapshot.owners
                   /\ calls'[c].at = "registry" /\ calls'[c].snapshot = calls[c].snapshot
  BY <1>6, WriteOwnersIs, SaveEnds DEF TypeInv, ServiceTypeOK, Saved
<1>7. CASE \E c \in Call : WriteOwners(c)
  <2>1. PICK c \in Call : WriteOwners(c)
    BY <1>7
  <2>2. Writes(c) /\ \A d \in Call : d # c => ~Writes(d)
    BY <1>0, <1>6, <2>1 DEF Writes
  <2> QED BY <1>6, <2>1, <2>2 DEF Writes
<1>8. ASSUME NEW c \in Call, WriteRegistry(c)
      PROVE  /\ ~overlapped /\ calls[c].at = "registry" /\ ~Writes(c)'
             /\ \A d \in Call : d # c => calls'[d] = calls[d]
  BY <1>8, WriteRegistryIs, SaveEnds DEF Answered
<1>9. CASE \E c \in Call : WriteRegistry(c)
  <2>1. PICK c \in Call : WriteRegistry(c)
    BY <1>9
  <2>2. Writes(c) /\ \A d \in Call : d # c => ~Writes(d)
    BY <1>0, <1>8, <2>1 DEF Writes
  <2> QED BY <1>8, <2>1, <2>2 DEF Writes
<1>10. ASSUME NEW c \in Call, NEW u \in User, NEW t \in Torrent, RemoveBegins(c, u, t)
       PROVE  /\ ~overlapped /\ disk' = disk /\ ~Writes(c)'
              /\ \A d \in Call : d # c => calls'[d] = calls[d]
  BY <1>10, RemoveBeginsIs DEF Writes
<1>11. CASE \E c \in Call, u \in User, t \in Torrent : RemoveBegins(c, u, t)
  BY <1>0, <1>10, <1>11 DEF Writes
<1>12. ASSUME NEW c \in Call, RemoveDrops(c)
       PROVE  /\ ~overlapped /\ disk' = disk /\ ~Writes(c)'
              /\ \A d \in Call : d # c => /\ calls'[d].at = calls[d].at
                                          /\ calls[d].at # "fetching" => calls'[d] = calls[d]
  BY <1>12, RemoveDropsIs, IdleIs DEF Writes
<1>13. CASE \E c \in Call : RemoveDrops(c)
  BY <1>0, <1>12, <1>13 DEF Writes
<1>14. ASSUME NEW c \in Call, Close(c)
       PROVE  /\ ~overlapped /\ disk' = disk /\ ~Writes(c)'
              /\ \A d \in Call : d # c => calls'[d] = calls[d]
  BY <1>14, CloseIs DEF Writes, historyVars
<1>15. CASE \E c \in Call : Close(c)
  BY <1>0, <1>14, <1>15 DEF Writes
<1>16. CASE Crash \/ \E c \in Call : Exit(c)
  BY <1>16, HaltIs, IdleIs DEF Writes
<1>17. CASE Boot
  BY <1>17, BootIs, IdleIs DEF Writes
<1> QED BY StepIs, <1>1, <1>3, <1>5, <1>7, <1>9, <1>11, <1>13, <1>15, <1>16, <1>17

LEMMA OneWriterInit == Init => OneWriter
BY IdleIs DEF Init, OneWriter, Writes

-----------------------------------------------------------------------------
(* The files between two saves.                                            *)

\* The files, or a snapshot on its way to them, hold the torrents of the service.
Holds(saved) ==
    \A t \in torrents : /\ t \in saved.registry /\ saved.owners[t] = owner[t]
                        /\ t \in source => t \in saved.sources

FilesInv ==
    Orderly /\ process # "down" /\ (\A c \in Call : calls[c].at # "snapshot") =>
        /\ \A c \in Call : Writes(c) => Holds(calls[c].snapshot)
        /\ (\A c \in Call : ~Writes(c)) => Holds(disk)

\* A step that leaves the saves alone leaves them orderly or not.
LEMMA OrderStays ==
    ASSUME TypeInv, OneWriter, [Next]_vars, Orderly'
    PROVE  /\ Orderly
           /\ \A c \in Call : WriteOwners(c) =>
                 /\ Writes(c) /\ calls'[c].at = "registry" /\ promise' = promise
                 /\ \A d \in Call : d # c => ~Writes(d)
                 /\ calls'[c].snapshot = calls[c].snapshot /\ calls'[c].op = calls[c].op
                 /\ RequestOK(calls[c]) => /\ calls'[c].user = calls[c].user
                                           /\ calls'[c].torrent = calls[c].torrent
                 /\ disk' = [disk EXCEPT !.owners = calls[c].snapshot.owners]
           /\ \A c \in Call : WriteRegistry(c) =>
                 /\ Writes(c) /\ \A d \in Call : d # c => ~Writes(d)
                 /\ disk' = calls[c].snapshot
<1>1. spent.failedWrites \in Nat /\ disk \in Saved
  BY DEF TypeInv, Spent, ServiceTypeOK
<1>2. ASSUME NEW c \in Call, WriteOwners(c)
      PROVE  /\ Orderly /\ Writes(c) /\ calls'[c].at = "registry" /\ promise' = promise
             /\ calls'[c].snapshot = calls[c].snapshot /\ calls'[c].op = calls[c].op
             /\ RequestOK(calls[c]) => /\ calls'[c].user = calls[c].user
                                       /\ calls'[c].torrent = calls[c].torrent
             /\ disk' = [disk EXCEPT !.owners = calls[c].snapshot.owners]
  <2>1. overlapped' = overlapped /\ spent'.failedWrites # spent.failedWrites + 1
    BY <1>1, <1>2, WriteOwnersIs DEF Orderly
  <2> QED BY <1>2, <2>1, WriteOwnersIs DEF Orderly, Writes, SpentSame
<1>3. ASSUME NEW c \in Call, WriteRegistry(c)
      PROVE  /\ Orderly /\ calls[c].at = "registry" /\ calls[c].snapshot \in Saved
             /\ disk' = [disk EXCEPT !.registry = calls[c].snapshot.registry,
                                     !.sources = calls[c].snapshot.sources]
  <2> DEFINE k == spent'.failedWrites
             n == spent.failedWrites
  <2>1. overlapped' = overlapped /\ (k = n \/ k = n + 1)
    BY <1>3, WriteRegistryIs
  <2>2. k # n + 1 /\ n = 0
    <3>1. k = 0 /\ n \in Nat
      BY <1>1 DEF Orderly
    <3> HIDE DEF k, n
    <3> QED BY <2>1, <3>1
  <2> QED BY <1>3, <2>1, <2>2, WriteRegistryIs DEF Orderly
<1>4. Orderly
  <2>1. ASSUME NEW c \in Call, AddLands(c) PROVE Orderly
    BY <2>1, AddLandsIs DEF Orderly, SpentSame
  <2>2. ASSUME NEW c \in Call, TakeSnapshot(c) PROVE Orderly
    BY <2>2, TakeSnapshotIs DEF Orderly
  <2>3. ASSUME NEW c \in Call, NEW u \in User, NEW t \in Torrent, RemoveBegins(c, u, t)
        PROVE  Orderly
    BY <2>3, RemoveBeginsIs DEF Orderly
  <2>4. ASSUME NEW c \in Call, RemoveDrops(c) PROVE Orderly
    BY <2>4, RemoveDropsIs DEF Orderly
  <2>5. ASSUME NEW c \in Call, Close(c) PROVE Orderly
    BY <2>5, CloseIs DEF Orderly, historyVars
  <2>6. CASE Crash \/ \E c \in Call : Exit(c)
    BY <2>6, HaltIs DEF Orderly, historyVars
  <2>7. CASE Boot
    BY <2>7, BootIs DEF Orderly, historyVars
  <2>8. CASE Aside
    BY <2>8 DEF Aside, Orderly
  <2> QED BY StepIs, <1>2, <1>3, <2>1, <2>2, <2>3, <2>4, <2>5, <2>6, <2>7, <2>8
<1>5. ASSUME NEW c \in Call, Writes(c)
      PROVE  \A d \in Call : d # c => ~Writes(d)
  BY <1>4, <1>5 DEF OneWriter, Orderly
<1>6. ASSUME NEW c \in Call, WriteRegistry(c)
      PROVE  Writes(c) /\ disk' = calls[c].snapshot
  <2>1. disk.owners = calls[c].snapshot.owners
    BY <1>3, <1>4, <1>6 DEF OneWriter, Orderly
  <2> DEFINE saved == calls[c].snapshot
  <2>2. /\ disk \in Saved /\ saved \in Saved /\ disk.owners = saved.owners
        /\ disk' = [disk EXCEPT !.registry = saved.registry, !.sources = saved.sources]
    BY <1>1, <1>3, <1>6, <2>1
  <2> HIDE DEF saved
  <2>3. disk' = saved
    BY <2>2 DEF Saved
  <2> QED BY <1>3, <1>6, <2>3 DEF Writes, saved
<1> QED BY <1>2, <1>4, <1>5, <1>6

LEMMA FilesHold ==
    ASSUME TypeInv, OneWriter, FilesInv, [Next]_vars PROVE FilesInv'
<1> SUFFICES ASSUME Orderly', process' # "down", \A c \in Call : calls'[c].at # "snapshot"
             PROVE  /\ \A c \in Call : Writes(c)' => Holds(calls[c].snapshot)'
                    /\ (\A c \in Call : ~Writes(c)') => Holds(disk)'
  BY DEF FilesInv
<1>0. Orderly
  BY OrderStays
<1>1. CASE Aside
  <2>1. /\ process # "down" /\ \A c \in Call : calls[c].at # "snapshot"
        /\ \A c \in Call : Writes(c) => Holds(calls[c].snapshot)
        /\ (\A c \in Call : ~Writes(c)) => Holds(disk)
    BY <1>0, <1>1 DEF Aside, Places, FilesInv
  <2>2. \A c \in Call : (Writes(c)' => Writes(c) /\ calls'[c] = calls[c])
                        /\ (Writes(c) => Writes(c)')
    BY <1>1 DEF Aside, Places, Writes
  <2> QED BY <1>1, <2>1, <2>2 DEF Aside, Holds
<1>2. ~ \E c \in Call : AddLands(c)
  BY AddLandsIs
<1>3. ASSUME NEW c \in Call, TakeSnapshot(c)
      PROVE  /\ Writes(c)' /\ Holds(calls[c].snapshot)'
             /\ \A d \in Call : d # c => ~Writes(d)'
  <2>1. /\ calls'[c].at = "owners"
        /\ calls'[c].snapshot = [owners |-> owner, registry |-> torrents, sources |-> source]
        /\ \A d \in Call : d # c => calls'[d] = calls[d]
        /\ UNCHANGED <<torrents, owner, source>>
    BY <1>3, TakeSnapshotIs DEF serviceVars
  <2>2. \A d \in Call : ~Writes(d)
    BY <1>3, SnapshotIsAlone DEF Orderly
  <2> QED BY <2>1, <2>2 DEF Writes, Holds
<1>4. ASSUME NEW c \in Call, WriteOwners(c)
      PROVE  /\ Writes(c)' /\ Holds(calls[c].snapshot)'
             /\ \A d \in Call : d # c => ~Writes(d)'
  <2>1. /\ Writes(c) /\ calls'[c].at = "registry" /\ calls[c].at = "owners"
        /\ calls'[c].snapshot = calls[c].snapshot /\ process # "down"
        /\ \A d \in Call : d # c => calls'[d] = calls[d] /\ ~Writes(d)
        /\ UNCHANGED <<torrents, owner, source>>
    BY <1>4, WriteOwnersIs, OrderStays DEF serviceVars
  <2>2. Holds(calls[c].snapshot)
    <3>1. \A d \in Call : calls[d].at # "snapshot"
      BY <2>1
    <3> QED BY <1>0, <2>1, <3>1 DEF FilesInv
  <2> QED BY <2>1, <2>2 DEF Writes, Holds
<1>5. ASSUME NEW c \in Call, WriteRegistry(c)
      PROVE  Holds(disk)' /\ \A d \in Call : ~Writes(d)'
  <2>1. /\ Writes(c) /\ calls[c].at = "registry" /\ process # "down" /\ ~Writes(c)'
        /\ \A d \in Call : d # c => calls'[d] = calls[d] /\ ~Writes(d)
        /\ disk' = calls[c].snapshot /\ UNCHANGED <<torrents, owner, source>>
    BY <1>5, WriteRegistryIs, SaveEnds, OrderStays DEF Answered, serviceVars
  <2>2. Holds(calls[c].snapshot)
    <3>1. \A d \in Call : calls[d].at # "snapshot"
      BY <2>1
    <3> QED BY <1>0, <2>1, <3>1 DEF FilesInv
  <2> QED BY <2>1, <2>2 DEF Writes, Holds
<1>6. ~ \E c \in Call, u \in User, t \in Torrent : RemoveBegins(c, u, t)
  BY RemoveBeginsIs
<1>7. CASE \E c \in Call : RemoveDrops(c)
  <2>1. PICK c \in Call : RemoveDrops(c)
    BY <1>7
  <2>2. /\ calls[c].at = "draining" /\ calls'[c].at = "idle" /\ process # "down"
        /\ \A d \in Call : d # c => /\ calls'[d].at = calls[d].at
                                    /\ calls[d].at # "fetching" => calls'[d] = calls[d]
        /\ UNCHANGED <<torrents, owner, source, disk>>
    BY <2>1, RemoveDropsIs, IdleIs DEF serviceVars
  <2>3. /\ \A d \in Call : calls[d].at # "snapshot"
        /\ \A d \in Call : (Writes(d)' => Writes(d) /\ calls'[d] = calls[d])
                           /\ (Writes(d) => Writes(d)')
    BY <2>2 DEF Writes
  <2>4. /\ \A d \in Call : Writes(d) => Holds(calls[d].snapshot)
        /\ (\A d \in Call : ~Writes(d)) => Holds(disk)
    BY <1>0, <2>2, <2>3 DEF FilesInv
  <2> QED BY <2>2, <2>3, <2>4 DEF Holds
<1>8. ~ \E c \in Call : Close(c)
  BY CloseIs
<1>9. ~ (Crash \/ \E c \in Call : Exit(c))
  BY HaltIs
<1>10. CASE Boot
  <2>1. /\ owner' = disk.owners /\ source' = {} /\ torrents' \subseteq disk.registry
        /\ disk' = disk /\ \A d \in Call : calls'[d] = Idle
    BY <1>10, BootIs
  <2> QED BY <2>1, IdleIs DEF Holds, Writes
<1> QED BY StepIs, <1>1, <1>2, <1>3, <1>4, <1>5, <1>6, <1>7, <1>8, <1>9, <1>10

LEMMA FilesInit == Init => FilesInv
BY DEF Init, FilesInv, Holds, Writes

\* Between two saves the files hold every torrent there is, with its owner and its
\* source, as long as the writes worked and no two saves ran at once.
THEOREM FilesHoldAll == Spec => []FilesAreCurrent
<1> DEFINE I == TypeInv /\ OneWriter /\ FilesInv
<1>1. Init => I
  BY InitTypes, OneWriterInit, FilesInit
<1>2. I /\ [Next]_vars => I'
  BY StepIs, OneWriterHolds, FilesHold
<1>3. I => FilesAreCurrent
  <2> SUFFICES ASSUME I, Orderly, process # "down", Saving = {}
               PROVE  Holds(disk)
    BY DEF FilesAreCurrent, Holds
  <2>1. \A c \in Call : calls[c].at # "snapshot" /\ ~Writes(c)
    BY DEF Saving, At, Writes
  <2> QED BY <2>1 DEF FilesInv
<1> QED BY <1>1, <1>2, <1>3, PTL DEF Spec

-----------------------------------------------------------------------------
(* Owners.                                                                 *)

\* Whoever has an owner in one has an owner in the other.
Covers(owners, others) == \A t \in Torrent : others[t] # NoUser => owners[t] # NoUser

\* Owners only ever come in the order disk, snapshot, memory: the files name no owner
\* the snapshot on its way to them does not, nor that one the service does not.
OwnedInv ==
    ~overlapped /\ spent.removes = 0 =>
        /\ process # "down" => /\ \A t \in torrents : owner[t] # NoUser
                               /\ Covers(owner, disk.owners)
        /\ \A t \in disk.registry : disk.owners[t] # NoUser
        /\ \A c \in Call : Writes(c) =>
              /\ \A t \in calls[c].snapshot.registry : calls[c].snapshot.owners[t] # NoUser
              /\ Covers(calls[c].snapshot.owners, disk.owners)
              /\ Covers(owner, calls[c].snapshot.owners)

LEMMA OwnedHolds ==
    ASSUME TypeInv, OneWriter, OwnedInv, [Next]_vars PROVE OwnedInv'
<1> SUFFICES ASSUME ~overlapped', spent'.removes = 0 PROVE OwnedInv'
  BY DEF OwnedInv
<1> DEFINE
      Memory == /\ \A t \in torrents : owner[t] # NoUser
                /\ Covers(owner, disk.owners)
      Files  == \A t \in disk.registry : disk.owners[t] # NoUser
      Way(c) == /\ \A t \in calls[c].snapshot.registry : calls[c].snapshot.owners[t] # NoUser
                /\ Covers(calls[c].snapshot.owners, disk.owners)
                /\ Covers(owner, calls[c].snapshot.owners)
<1> USE DEF Covers
<1>0. /\ torrents \subseteq Torrent /\ owner \in [Torrent -> User \cup {NoUser}]
      /\ disk \in Saved /\ spent.removes \in Nat
  BY DEF TypeInv, ServiceTypeOK, Spent
<1>00. /\ disk.owners \in [Torrent -> User \cup {NoUser}] /\ disk.registry \subseteq Torrent
  BY <1>0 DEF Saved
<1>a. ASSUME ~overlapped, spent'.removes = spent.removes
      PROVE  /\ process # "down" => Memory
             /\ Files /\ \A c \in Call : Writes(c) => Way(c)
  BY <1>a DEF OwnedInv
<1>b. ASSUME process' # "down" => Memory', Files', \A c \in Call : Writes(c)' => Way(c)'
      PROVE  OwnedInv'
  BY <1>b DEF OwnedInv
<1>1. CASE Aside
  <2>1. /\ process # "down" => Memory
        /\ Files /\ \A c \in Call : Writes(c) => Way(c)
    BY <1>1, <1>a DEF Aside
  <2>2. \A c \in Call : Writes(c)' => Writes(c) /\ calls'[c] = calls[c]
    BY <1>1 DEF Aside, Places, Writes
  <2> QED BY <1>1, <1>b, <2>1, <2>2 DEF Aside
<1>2. ASSUME NEW c \in Call, AddLands(c) PROVE OwnedInv'
  <2> DEFINE t == calls[c].torrent
             u == calls[c].user
  <2>1. /\ process # "down" /\ t \in Torrent /\ u \in User
        /\ torrents' = torrents \cup {t} /\ owner' = [owner EXCEPT ![t] = u]
        /\ ~Writes(c)' /\ \A d \in Call : d # c => calls'[d] = calls[d]
        /\ disk' = disk /\ overlapped' = overlapped /\ spent'.removes = spent.removes
    BY <1>2, AddLandsIs DEF Writes, SpentSame
  <2>2. Memory /\ Files /\ \A d \in Call : Writes(d) => Way(d)
    BY <1>a, <2>1
  <2> HIDE DEF t, u
  <2>3. \A s \in Torrent : owner[s] # NoUser => owner'[s] # NoUser
    BY <1>0, <2>1, NamesAssumption
  <2>4. Memory'
    BY <1>0, <2>1, <2>2, <2>3, NamesAssumption
  <2>5. \A d \in Call : Writes(d)' => Way(d)'
    BY <2>1, <2>2, <2>3 DEF Writes
  <2>6. Files'
    BY <2>1, <2>2
  <2> QED BY <1>b, <2>4, <2>5, <2>6
<1>3. ASSUME NEW c \in Call, TakeSnapshot(c) PROVE OwnedInv'
  <2>1. /\ calls'[c].snapshot.registry = torrents /\ calls'[c].snapshot.owners = owner
        /\ \A d \in Call : d # c => calls'[d] = calls[d]
        /\ process # "down" /\ UNCHANGED <<process, torrents, owner, disk, spent>>
    BY <1>3, TakeSnapshotIs DEF serviceVars
  <2>2. ~overlapped /\ \A d \in Call : ~Writes(d)
    BY <1>3, SnapshotIsAlone
  <2>3. Memory /\ Files
    BY <1>a, <2>1, <2>2
  <2>4. Way(c)'
    BY <2>1, <2>3
  <2>5. \A d \in Call : Writes(d)' => Way(d)'
    BY <2>1, <2>2, <2>4 DEF Writes
  <2>6. Memory' /\ Files'
    BY <2>1, <2>3
  <2> QED BY <1>b, <2>5, <2>6
<1>4. ASSUME NEW c \in Call, WriteOwners(c) PROVE OwnedInv'
  <2> DEFINE saved == calls[c].snapshot
  <2>1. /\ calls[c].at = "owners" /\ process # "down" /\ saved \in Saved
        /\ \A d \in Call : d # c => calls'[d] = calls[d]
        /\ UNCHANGED <<process, torrents, owner, overlapped>>
        /\ spent'.removes = spent.removes
        /\ \/ disk' = [disk EXCEPT !.owners = saved.owners] /\ calls'[c].snapshot = saved
           \/ ~Writes(c)' /\ disk' = disk
    BY <1>4, WriteOwnersIs, SaveEnds DEF serviceVars, SpentSame
  <2>2. Memory /\ Files /\ \A d \in Call : Writes(d) => Way(d)
    BY <1>a, <2>1
  <2>3. Way(c)
    BY <2>1, <2>2 DEF Writes
  <2>4. \A d \in Call : d # c => ~Writes(d)
    BY <2>1 DEF OneWriter, Writes
  <2>5. \A d \in Call : d # c => ~Writes(d)'
    BY <2>1, <2>4 DEF Writes
  <2>6. CASE ~Writes(c)' /\ disk' = disk
    <3>1. Memory' /\ Files' /\ \A d \in Call : Writes(d)' => Way(d)'
      BY <2>1, <2>2, <2>5, <2>6
    <3> QED BY <1>b, <3>1
  <2>7. CASE disk' = [disk EXCEPT !.owners = saved.owners] /\ calls'[c].snapshot = saved
    <3>1. disk'.owners = saved.owners /\ disk'.registry = disk.registry
      BY <1>0, <2>7 DEF Saved
    <3>2. Way(c)'
      BY <2>1, <2>3, <2>7, <3>1
    <3>3. Memory'
      BY <2>1, <2>2, <2>3, <3>1
    <3>4. Files'
      BY <1>00, <2>2, <2>3, <3>1
    <3> QED BY <1>b, <2>5, <3>2, <3>3, <3>4
  <2> QED BY <2>1, <2>6, <2>7
<1>5. ASSUME NEW c \in Call, WriteRegistry(c) PROVE OwnedInv'
  <2> DEFINE saved == calls[c].snapshot
  <2>1. /\ calls[c].at = "registry" /\ process # "down" /\ saved \in Saved /\ ~Writes(c)'
        /\ \A d \in Call : d # c => calls'[d] = calls[d]
        /\ UNCHANGED <<process, torrents, owner, overlapped>>
        /\ spent'.removes = spent.removes
        /\ \/ disk' = [disk EXCEPT !.registry = saved.registry, !.sources = saved.sources]
           \/ disk' = disk
    BY <1>5, WriteRegistryIs, SaveEnds DEF serviceVars, Answered
  <2>2. Memory /\ Files /\ \A d \in Call : Writes(d) => Way(d)
    BY <1>a, <2>1
  <2>3. Way(c) /\ disk.owners = saved.owners
    BY <2>1, <2>2 DEF Writes, OneWriter
  <2>4. \A d \in Call : ~Writes(d)'
    BY <2>1 DEF OneWriter, Writes
  <2>5. disk'.owners = disk.owners /\ disk'.registry \in {disk.registry, saved.registry}
    BY <1>0, <2>1 DEF Saved
  <2>6. Memory' /\ Files'
    BY <2>1, <2>2, <2>3, <2>5
  <2> QED BY <1>b, <2>4, <2>6
<1>6. ~ \E c \in Call, u \in User, t \in Torrent : RemoveBegins(c, u, t)
  <2> SUFFICES ASSUME NEW c \in Call, NEW u \in User, NEW t \in Torrent, RemoveBegins(c, u, t)
               PROVE  FALSE
    OBVIOUS
  <2> DEFINE n == spent.removes
             k == spent'.removes
  <2>1. k = n + 1 /\ n \in Nat /\ k = 0
    BY RemoveBeginsIs
  <2> HIDE DEF n, k
  <2> QED BY <2>1
<1>7. ASSUME NEW c \in Call, RemoveDrops(c) PROVE OwnedInv'
  <2>1. /\ process # "down" /\ ~Writes(c)'
        /\ \A d \in Call : d # c => /\ calls'[d].at = calls[d].at
                                    /\ calls[d].at # "fetching" => calls'[d] = calls[d]
        /\ UNCHANGED <<process, torrents, owner, disk, overlapped>>
        /\ spent'.removes = spent.removes
    BY <1>7, RemoveDropsIs, IdleIs DEF serviceVars, Writes
  <2>2. Memory /\ Files /\ \A d \in Call : Writes(d) => Way(d)
    BY <1>a, <2>1
  <2>3. \A d \in Call : Writes(d)' => Writes(d) /\ calls'[d] = calls[d]
    BY <2>1 DEF Writes
  <2> QED BY <1>b, <2>1, <2>2, <2>3
<1>8. ASSUME NEW c \in Call, Close(c) PROVE OwnedInv'
  <2>1. /\ process # "down" /\ ~Writes(c)'
        /\ \A d \in Call : d # c => calls'[d] = calls[d]
        /\ UNCHANGED <<torrents, owner, disk, overlapped>>
        /\ spent'.removes = spent.removes
    BY <1>8, CloseIs DEF serviceVars, historyVars, Writes
  <2>2. Memory /\ Files /\ \A d \in Call : Writes(d) => Way(d)
    BY <1>a, <2>1
  <2>3. \A d \in Call : Writes(d)' => Writes(d) /\ calls'[d] = calls[d]
    BY <2>1 DEF Writes
  <2> QED BY <1>b, <2>1, <2>2, <2>3
<1>9. CASE Crash \/ \E c \in Call : Exit(c)
  <2>1. /\ process' = "down" /\ \A d \in Call : ~Writes(d)'
        /\ UNCHANGED <<disk, overlapped>> /\ spent'.removes = spent.removes
    BY <1>9, HaltIs, IdleIs DEF historyVars, Writes
  <2> QED BY <1>a, <1>b, <2>1
<1>10. CASE Boot
  <2>1. /\ \A d \in Call : ~Writes(d)'
        /\ UNCHANGED <<disk, overlapped>> /\ owner' = disk.owners
        /\ torrents' \subseteq disk.registry /\ spent'.removes = spent.removes
    BY <1>10, BootIs, IdleIs DEF historyVars, Writes
  <2>2. Files
    BY <1>a, <2>1
  <2> QED BY <1>b, <2>1, <2>2
<1> QED BY StepIs, <1>1, <1>2, <1>3, <1>4, <1>5, <1>6, <1>7, <1>8, <1>9, <1>10

LEMMA OwnedInit == Init => OwnedInv
BY IdleIs DEF Init, OwnedInv, Covers, Nothing, Writes

\* As long as nothing was removed and no two saves ran at once, every torrent of a
\* running service has an owner, over any number of restarts and crashes and
\* whichever writes failed.
THEOREM NobodyLosesOwner == Spec => []OwnedUnlessRemoved
<1> DEFINE I == TypeInv /\ OneWriter /\ OwnedInv
<1>1. Init => I
  BY InitTypes, OneWriterInit, OwnedInit
<1>2. I /\ [Next]_vars => I'
  BY StepIs, OneWriterHolds, OwnedHolds
<1>3. I => OwnedUnlessRemoved
  BY DEF OwnedInv, OwnedUnlessRemoved
<1> QED BY <1>1, <1>2, <1>3, PTL DEF Spec

-----------------------------------------------------------------------------
(* What was removed.                                                       *)

\* No save on its way to the files has t.
NotOnItsWay(t) == \A c \in Call : Writes(c) => t \notin calls[c].snapshot.registry

\* c removed its torrent, and nobody added it since.
Removing(c) == calls[c].op = "remove" /\ promise[calls[c].torrent] = c

\* A torrent said to be removed is nowhere; one being removed leaves the memory first,
\* then the snapshot of its own save, and when that is written, everything.
RemovedInv ==
    Orderly =>
        /\ \A t \in Torrent : promise[t] = "removed" =>
              t \notin torrents /\ t \notin disk.registry /\ NotOnItsWay(t)
        /\ \A c \in Call : Removing(c) =>
              LET t == calls[c].torrent IN
              /\ t \notin torrents
              /\ Writes(c) => t \notin calls[c].snapshot.registry
              /\ calls[c].at = "draining" => t \notin disk.registry /\ NotOnItsWay(t)

LEMMA RemovalIsOf ==
    ASSUME TypeInv, NEW c \in Call, calls[c].op = "remove"
    PROVE  calls[c].torrent \in Torrent /\ calls[c].at \notin Places
<1>1. RequestOK(calls[c])
  BY KindOfCall DEF TypeInv
<1> QED BY <1>1 DEF RequestOK, Request, Places

LEMMA NamesApart ==
    /\ "removed" \notin Call /\ "removed" \notin User /\ NoUser \notin User
    /\ "nothing" \notin Call /\ "nothing" \notin User
    /\ \A u \in User : u \notin Call
BY NamesAssumption

LEMMA RemovedHolds ==
    ASSUME TypeInv, OneWriter, RemovedInv, [Next]_vars PROVE RemovedInv'
<1> SUFFICES ASSUME Orderly' PROVE RemovedInv'
  BY DEF RemovedInv
<1> DEFINE
      Gone(t) == t \notin torrents /\ t \notin disk.registry /\ NotOnItsWay(t)
      Going(c) == /\ calls[c].torrent \notin torrents
                  /\ Writes(c) => calls[c].torrent \notin calls[c].snapshot.registry
                  /\ calls[c].at = "draining" =>
                        calls[c].torrent \notin disk.registry /\ NotOnItsWay(calls[c].torrent)
<1>0. /\ Orderly /\ \A t \in Torrent : promise[t] = "removed" => Gone(t)
      /\ \A c \in Call : Removing(c) => Going(c)
  BY OrderStays DEF RemovedInv
<1>a. ASSUME \A t \in Torrent : promise'[t] = "removed" => Gone(t)',
             \A c \in Call : Removing(c)' => Going(c)'
      PROVE  RemovedInv'
  BY <1>a DEF RemovedInv
<1>b. promise \in [Torrent -> User \cup Call \cup {"nothing", "removed"}]
  BY DEF TypeInv, ServiceTypeOK
\* Where the torrents, the files and the snapshots stay, both stay.
<1>c. ASSUME UNCHANGED <<torrents, disk>>,
             \A d \in Call : Writes(d)' => Writes(d) /\ calls'[d] = calls[d]
      PROVE  /\ \A t \in Torrent : Gone(t) => Gone(t)'
             /\ \A d \in Call : Going(d) /\ calls'[d] = calls[d] => Going(d)'
  BY <1>c DEF NotOnItsWay, Writes
<1>1. CASE Aside
  <2>1. /\ UNCHANGED <<torrents, disk, promise>>
        /\ \A d \in Call : Writes(d)' => Writes(d) /\ calls'[d] = calls[d]
        /\ \A d \in Call : calls'[d].op = "remove" => calls'[d] = calls[d]
    BY <1>1 DEF Aside, Places, Writes
  <2>2. \A d \in Call : Removing(d)' => Removing(d) /\ calls'[d] = calls[d]
    BY <2>1 DEF Removing
  <2>3. \A t \in Torrent : promise'[t] = "removed" => Gone(t)'
    BY <1>0, <1>c, <2>1
  <2>4. \A d \in Call : Removing(d)' => Going(d)'
    BY <1>0, <1>c, <2>1, <2>2
  <2> QED BY <1>a, <2>3, <2>4
<1>2. ASSUME NEW c \in Call, AddLands(c) PROVE RemovedInv'
  <2> DEFINE s == calls[c].torrent
  <2>1. /\ s \in Torrent /\ torrents' = torrents \cup {s} /\ disk' = disk
        /\ promise' = [promise EXCEPT ![s] = c] /\ ~Writes(c)' /\ calls'[c].op = "add"
        /\ \A d \in Call : d # c => calls'[d] = calls[d]
    BY <1>2, AddLandsIs DEF Writes
  <2> HIDE DEF s
  <2>2. \A t \in Torrent : NotOnItsWay(t) => NotOnItsWay(t)'
    BY <2>1 DEF NotOnItsWay, Writes
  <2>3. \A t \in Torrent : promise'[t] = "removed" => t # s /\ promise[t] = "removed"
    BY <1>b, <2>1, NamesApart
  <2>4. ASSUME NEW d \in Call, Removing(d)'
        PROVE  /\ d # c /\ calls[d].torrent # s /\ Removing(d) /\ calls'[d] = calls[d]
               /\ calls[d].torrent \in Torrent
    <3>1. d # c /\ calls'[d] = calls[d]
      BY <2>1, <2>4 DEF Removing
    <3>2. calls[d].torrent \in Torrent
      BY <2>4, <3>1, RemovalIsOf DEF Removing
    <3> QED BY <1>b, <2>1, <2>4, <3>1, <3>2 DEF Removing
  <2>5. \A t \in Torrent : promise'[t] = "removed" => Gone(t)'
    BY <1>0, <2>1, <2>2, <2>3
  <2>6. \A d \in Call : Removing(d)' => Going(d)'
    BY <1>0, <2>1, <2>2, <2>4 DEF Writes
  <2> QED BY <1>a, <2>5, <2>6
<1>3. ASSUME NEW c \in Call, TakeSnapshot(c) PROVE RemovedInv'
  <2>1. /\ calls[c].at = "snapshot" /\ calls'[c].at = "owners" /\ calls'[c].op = calls[c].op
        /\ calls'[c].snapshot.registry = torrents
        /\ \A d \in Call : d # c => calls'[d] = calls[d]
        /\ UNCHANGED <<torrents, disk, promise>>
        /\ RequestOK(calls[c]) => calls'[c].torrent = calls[c].torrent
    BY <1>3, TakeSnapshotIs DEF serviceVars
  <2>2. \A d \in Call : d # c => ~Writes(d)'
    BY <1>3, <2>1, SnapshotIsAlone DEF Orderly, Writes
  <2>3. \A t \in Torrent : t \notin torrents => NotOnItsWay(t)'
    BY <2>1, <2>2 DEF NotOnItsWay
  <2>4. \A t \in Torrent : promise'[t] = "removed" => Gone(t)'
    BY <1>0, <2>1, <2>3
  <2>5. ASSUME NEW d \in Call, Removing(d)' PROVE Going(d)'
    <3>1. calls[d].op = "remove"
      BY <2>1, <2>5 DEF Removing
    <3>2. RequestOK(calls[d]) /\ calls[d].torrent \in Torrent
      BY <3>1, KindOfCall, RemovalIsOf DEF TypeInv
    <3>3. /\ Going(d) /\ calls'[d].torrent = calls[d].torrent
      BY <1>0, <2>1, <2>5, <3>1, <3>2 DEF Removing
    <3>4. calls'[d].torrent \notin torrents' /\ NotOnItsWay(calls[d].torrent)'
      BY <2>1, <2>3, <3>2, <3>3
    <3>5. calls'[d].at = "draining" => calls[d].at = "draining"
      BY <2>1
    <3> QED BY <2>1, <3>3, <3>4, <3>5 DEF NotOnItsWay
  <2> QED BY <1>a, <2>4, <2>5
<1>4. ASSUME NEW c \in Call, WriteOwners(c) PROVE RemovedInv'
  <2>1. /\ Writes(c) /\ calls'[c].at = "registry" /\ promise' = promise
        /\ calls'[c].snapshot = calls[c].snapshot /\ calls'[c].op = calls[c].op
        /\ RequestOK(calls[c]) => calls'[c].torrent = calls[c].torrent
        /\ disk' = [disk EXCEPT !.owners = calls[c].snapshot.owners]
    BY <1>4, OrderStays
  <2>2. torrents' = torrents /\ \A d \in Call : d # c => calls'[d] = calls[d]
    BY <1>4, WriteOwnersIs DEF serviceVars
  <2>3. disk'.registry = disk.registry
    BY <2>1 DEF TypeInv, ServiceTypeOK, Saved
  <2>4. \A d \in Call : /\ Writes(d)' => Writes(d)
                        /\ calls'[d].snapshot = calls[d].snapshot
                        /\ calls'[d].op = calls[d].op
                        /\ calls'[d].at = "draining" => calls[d].at = "draining"
    BY <2>1, <2>2 DEF Writes
  <2>5. \A t \in Torrent : Gone(t) => Gone(t)'
    BY <2>2, <2>3, <2>4 DEF NotOnItsWay
  <2>6. \A t \in Torrent : promise'[t] = "removed" => Gone(t)'
    BY <1>0, <2>1, <2>5
  <2>7. ASSUME NEW d \in Call, Removing(d)' PROVE Going(d)'
    <3>1. calls[d].op = "remove"
      BY <2>4, <2>7 DEF Removing
    <3>2. RequestOK(calls[d]) /\ calls[d].torrent \in Torrent
      BY <3>1, KindOfCall, RemovalIsOf DEF TypeInv
    <3>3. calls'[d].torrent = calls[d].torrent
      BY <2>1, <2>2, <3>2
    <3>4. Going(d)
      BY <1>0, <2>1, <2>7, <3>1, <3>3 DEF Removing
    <3> QED BY <2>2, <2>3, <2>4, <3>3, <3>4 DEF NotOnItsWay
  <2> QED BY <1>a, <2>6, <2>7
<1>5. ASSUME NEW c \in Call, WriteRegistry(c) PROVE RemovedInv'
  <2> DEFINE saved == calls[c].snapshot
  <2>1. /\ Writes(c) /\ disk' = saved /\ \A d \in Call : d # c => ~Writes(d)
    BY <1>5, OrderStays
  <2>2. Answered(c) /\ torrents' = torrents
    BY <1>5, WriteRegistryIs DEF Answered, serviceVars
  <2>3. \A d \in Call : d # c => calls'[d] = calls[d]
    BY <2>2 DEF Answered
  <2>4. \A d \in Call : ~Writes(d)'
    BY <2>1, <2>2, <2>3, SaveEnds DEF Writes
  <2>5. \A t \in Torrent : /\ NotOnItsWay(t)'
                           /\ NotOnItsWay(t) => t \notin disk'.registry
    BY <2>1, <2>4 DEF NotOnItsWay
  <2>6. ASSUME NEW t \in Torrent
        PROVE  /\ promise'[t] = "removed" => promise[t] = "removed"
               /\ \A d \in Call : promise'[t] = d => promise[t] = d
    <3>1. CASE calls[c].op = "add"
      <4> DEFINE s == calls[c].torrent
                 u == calls[c].user
      <4>1. /\ s \in Torrent /\ u \in User
            /\ promise' = IF promise[s] = c THEN [promise EXCEPT ![s] = u] ELSE promise
        BY <2>2, <3>1 DEF Answered
      <4> HIDE DEF s, u
      <4> QED BY <1>b, <4>1, NamesApart
    <3>2. CASE calls[c].op # "add"
      BY <2>2, <3>2 DEF Answered
    <3> QED BY <3>1, <3>2
  <2>7. \A t \in Torrent : promise'[t] = "removed" => Gone(t)'
    BY <1>0, <2>2, <2>5, <2>6
  <2>8. ASSUME NEW d \in Call, Removing(d)' PROVE Going(d)'
    <3>1. CASE d = c
      <4>1. calls[c].op = "remove" /\ calls'[c].torrent = calls[c].torrent
        BY <2>2, <2>8, <3>1 DEF Answered, Removing
      <4>2. calls[c].torrent \in Torrent
        BY <4>1, RemovalIsOf
      <4>3. Going(c)
        BY <1>0, <2>6, <2>8, <3>1, <4>1, <4>2 DEF Removing
      <4>4. calls[c].torrent \notin disk'.registry
        BY <2>1, <4>3
      <4> QED BY <2>2, <2>4, <2>5, <3>1, <4>1, <4>2, <4>3, <4>4
    <3>2. CASE d # c
      <4>1. calls'[d] = calls[d]
        BY <2>3, <3>2
      <4>2. calls[d].torrent \in Torrent
        BY <2>8, <4>1, RemovalIsOf DEF Removing
      <4>3. Going(d)
        BY <1>0, <2>6, <2>8, <4>1, <4>2 DEF Removing
      <4> QED BY <2>2, <2>4, <2>5, <4>1, <4>2, <4>3
    <3> QED BY <3>1, <3>2
  <2> QED BY <1>a, <2>7, <2>8
<1>6. ASSUME NEW c \in Call, NEW u \in User, NEW s \in Torrent, RemoveBegins(c, u, s)
      PROVE  RemovedInv'
  <2>1. /\ torrents' = torrents \ {s} /\ disk' = disk
        /\ promise' = [promise EXCEPT ![s] = c]
        /\ calls'[c].at = "snapshot" /\ calls'[c].torrent = s
        /\ \A d \in Call : d # c => calls'[d] = calls[d]
    BY <1>6, RemoveBeginsIs
  <2>2. \A t \in Torrent : NotOnItsWay(t) => NotOnItsWay(t)'
    BY <2>1 DEF NotOnItsWay, Writes
  <2>3. \A t \in Torrent : promise'[t] = "removed" => promise[t] = "removed"
    BY <1>b, <2>1, NamesApart
  <2>4. \A t \in Torrent : promise'[t] = "removed" => Gone(t)'
    BY <1>0, <2>1, <2>2, <2>3
  <2>5. ASSUME NEW d \in Call, Removing(d)' PROVE Going(d)'
    <3>1. CASE d = c
      BY <2>1, <3>1 DEF Writes
    <3>2. CASE d # c
      <4>1. calls'[d] = calls[d]
        BY <2>1, <3>2
      <4>2. calls[d].torrent \in Torrent
        BY <2>5, <4>1, RemovalIsOf DEF Removing
      <4>3. Going(d)
        BY <1>0, <1>b, <2>1, <2>5, <3>2, <4>1, <4>2 DEF Removing
      <4> QED BY <2>1, <2>2, <4>1, <4>2, <4>3 DEF Writes
    <3> QED BY <3>1, <3>2
  <2> QED BY <1>a, <2>4, <2>5
<1>7. ASSUME NEW c \in Call, RemoveDrops(c) PROVE RemovedInv'
  <2> DEFINE s == calls[c].torrent
  <2>1. /\ calls[c].at = "draining" /\ calls[c].op = "remove" /\ s \in Torrent
        /\ calls'[c] = Idle /\ UNCHANGED <<torrents, disk>>
        /\ promise' = IF promise[s] = c THEN [promise EXCEPT ![s] = "removed"] ELSE promise
    BY <1>7, RemoveDropsIs DEF serviceVars
  <2>2. ASSUME NEW d \in Call, d # c
        PROVE  /\ calls'[d].at = calls[d].at
               /\ calls[d].at # "fetching" => calls'[d] = calls[d]
               /\ calls[d].at = "fetching" => calls'[d].op = "add"
    BY <1>7, <2>2, RemoveDropsIs
  <2>3. \A d \in Call : Writes(d)' => Writes(d) /\ calls'[d] = calls[d]
    BY <2>1, <2>2, IdleIs DEF Writes
  <2>4. ASSUME NEW d \in Call, Removing(d)'
        PROVE  d # c /\ calls'[d] = calls[d] /\ calls[d].torrent \in Torrent
    <3>1. d # c
      BY <2>1, <2>4, IdleIs DEF Removing
    <3>2. calls'[d] = calls[d]
      BY <2>2, <2>4, <3>1 DEF Removing
    <3> QED BY <2>4, <3>1, <3>2, RemovalIsOf DEF Removing
  <2>5. promise[s] = c => Gone(s)
    BY <1>0, <2>1 DEF Removing
  <2> HIDE DEF s
  <2>6. \A t \in Torrent : promise'[t] = "removed" => promise[t] = "removed" \/ Gone(t)
    BY <1>b, <2>1, <2>5
  <2>7. \A t \in Torrent : promise'[t] = "removed" => Gone(t)'
    BY <1>0, <1>c, <2>1, <2>3, <2>6
  <2>8. \A t \in Torrent, d \in Call : promise'[t] = d => promise[t] = d
    BY <1>b, <2>1, NamesApart
  <2>9. ASSUME NEW d \in Call, Removing(d)' PROVE Going(d)'
    <3>1. Removing(d)
      BY <2>4, <2>8, <2>9 DEF Removing
    <3> QED BY <1>0, <1>c, <2>1, <2>3, <2>4, <2>9, <3>1
  <2> QED BY <1>a, <2>7, <2>9
<1>8. ASSUME NEW c \in Call, Close(c) PROVE RemovedInv'
  <2>1. /\ calls'[c].at = "snapshot" /\ calls'[c].op = "close"
        /\ \A d \in Call : d # c => calls'[d] = calls[d]
        /\ UNCHANGED <<torrents, disk, promise>>
    BY <1>8, CloseIs DEF serviceVars, historyVars
  <2>2. \A d \in Call : Writes(d)' => Writes(d) /\ calls'[d] = calls[d]
    BY <2>1 DEF Writes
  <2>3. \A d \in Call : Removing(d)' => Removing(d) /\ calls'[d] = calls[d]
    BY <2>1 DEF Removing
  <2>4. \A t \in Torrent : promise'[t] = "removed" => Gone(t)'
    BY <1>0, <1>c, <2>1, <2>2
  <2>5. \A d \in Call : Removing(d)' => Going(d)'
    BY <1>0, <1>c, <2>1, <2>2, <2>3
  <2> QED BY <1>a, <2>4, <2>5
<1>9. CASE (Crash \/ \E c \in Call : Exit(c)) \/ Boot
  <2>1. /\ torrents' = {} \/ torrents' \subseteq disk.registry
        /\ UNCHANGED <<disk, promise>>
        /\ \A d \in Call : calls'[d].op = "none" /\ ~Writes(d)'
    BY <1>9, HaltIs, BootIs, IdleIs DEF historyVars, Writes
  <2> QED BY <1>0, <1>a, <2>1 DEF Removing, NotOnItsWay
<1> QED BY StepIs, <1>1, <1>2, <1>3, <1>4, <1>5, <1>6, <1>7, <1>8, <1>9

LEMMA RemovedInit == Init => RemovedInv
BY NamesApart, IdleIs DEF Init, RemovedInv, Removing

\* A torrent that a user was told is removed is not among the torrents again, over any
\* number of restarts, as long as the writes worked and no two saves ran at once.
THEOREM RemovalIsForGood == Spec => []RemovedStaysRemoved
<1> DEFINE I == TypeInv /\ OneWriter /\ RemovedInv
<1>1. Init => I
  BY InitTypes, OneWriterInit, RemovedInit
<1>2. I /\ [Next]_vars => I'
  BY StepIs, OneWriterHolds, RemovedHolds
<1>3. I => RemovedStaysRemoved
  BY DEF RemovedInv, RemovedStaysRemoved
<1> QED BY <1>1, <1>2, <1>3, PTL DEF Spec

-----------------------------------------------------------------------------
(* What was added.                                                         *)

\* Before the first restart.
FirstLife == spent.ends = 0 \/ (spent.ends = 1 /\ process = "closing")

\* The runs over one restart the property is about.
Good == Orderly /\ spent.ends <= 1 /\ spent.failedRestores = 0

\* The files, or a snapshot on its way to them, bring t back as u's.
Has(saved, t, u) == t \in saved.registry /\ saved.owners[t] = u /\ t \in saved.sources

\* c added its torrent and saves; nobody added or removed it since.
Adding(c) ==
    /\ calls[c].op = "add" /\ calls[c].at \in {"snapshot", "owners", "registry"}
    /\ promise[calls[c].torrent] = c

\* The torrent a user was told is added is in memory while the process runs, in every
\* snapshot on its way until the first restart, and on disk until the restart is over;
\* one still being saved is in memory and in the snapshot of its own save.
KeptInv ==
    /\ process # "up" => spent.ends # 0
    /\ Good =>
       /\ \A t \in Torrent : promise[t] \in User =>
             /\ process # "down" => t \in torrents /\ owner[t] = promise[t]
             /\ FirstLife =>
                   /\ t \in source
                   /\ \A c \in Call : Writes(c) => Has(calls[c].snapshot, t, promise[t])
             /\ FirstLife \/ process = "down" => Has(disk, t, promise[t])
       /\ \A c \in Call : Adding(c) =>
             /\ calls[c].torrent \in torrents
             /\ owner[calls[c].torrent] = calls[c].user
             /\ FirstLife =>
                   /\ calls[c].torrent \in source
                   /\ Writes(c) => Has(calls[c].snapshot, calls[c].torrent, calls[c].user)

LEMMA AddingIsOf ==
    ASSUME TypeInv, NEW c \in Call, calls[c].op = "add"
    PROVE  /\ RequestOK(calls[c])
           /\ calls[c].torrent \in Torrent /\ calls[c].user \in User
<1>1. RequestOK(calls[c])
  BY KindOfCall DEF TypeInv
<1> QED BY <1>1 DEF RequestOK, Request

\* Ends and failures are only counted up.
LEMMA GoodBefore ==
    ASSUME TypeInv, OneWriter, [Next]_vars, Good'
    PROVE  /\ Good /\ Orderly' /\ spent.ends \in Nat /\ spent.failedRestores = 0
           /\ spent'.ends <= 1 /\ spent'.failedRestores = 0
<1> DEFINE e == spent.ends
           f == spent.failedRestores
           e1 == spent'.ends
           f1 == spent'.failedRestores
<1>1. e \in Nat /\ f \in Nat
  BY DEF TypeInv, Spent
<1>2. (e1 = e \/ e1 = e + 1) /\ (f1 = f \/ (f1 \in Nat /\ f1 >= f))
  <2>1. ASSUME NEW c \in Call, AddLands(c) PROVE e1 = e /\ f1 = f
    BY <2>1, AddLandsIs DEF SpentSame
  <2>2. ASSUME NEW c \in Call, TakeSnapshot(c) PROVE e1 = e /\ f1 = f
    BY <2>2, TakeSnapshotIs
  <2>3. ASSUME NEW c \in Call, WriteOwners(c) PROVE e1 = e /\ f1 = f
    BY <2>3, WriteOwnersIs DEF SpentSame
  <2>4. ASSUME NEW c \in Call, WriteRegistry(c) PROVE e1 = e /\ f1 = f
    BY <2>4, WriteRegistryIs
  <2>5. ASSUME NEW c \in Call, NEW u \in User, NEW t \in Torrent, RemoveBegins(c, u, t)
        PROVE  e1 = e /\ f1 = f
    BY <2>5, RemoveBeginsIs
  <2>6. ASSUME NEW c \in Call, RemoveDrops(c) PROVE e1 = e /\ f1 = f
    BY <2>6, RemoveDropsIs
  <2>7. ASSUME NEW c \in Call, Close(c) PROVE e1 = e + 1 /\ f1 = f
    BY <2>7, CloseIs
  <2>8. CASE Crash \/ \E c \in Call : Exit(c)
    <3>1. (e1 = e \/ e1 = e + 1) /\ f1 = f
      BY <2>8, HaltIs
    <3> QED BY <3>1
  <2>9. CASE Boot
    <3>1. e1 = e /\ f1 \in Nat /\ f1 >= f
      BY <2>9, BootIs
    <3> QED BY <3>1
  <2>10. CASE Aside
    BY <2>10 DEF Aside
  <2> HIDE DEF e, f, e1, f1
  <2> QED BY StepIs, <2>1, <2>2, <2>3, <2>4, <2>5, <2>6, <2>7, <2>8, <2>9, <2>10
<1>3. Orderly' /\ Orderly /\ e1 <= 1 /\ f1 = 0
  BY OrderStays DEF Good
<1>4. e <= 1 /\ f = 0
  <2> HIDE DEF e, f, e1, f1
  <2> QED BY <1>1, <1>2, <1>3
<1> QED BY <1>1, <1>3, <1>4 DEF Good

\* A process that is not up has had an end.
LEMMA DownHasEnded ==
    ASSUME TypeInv, KeptInv, [Next]_vars PROVE process' # "up" => spent'.ends # 0
<1> DEFINE e == spent.ends
           e1 == spent'.ends
<1> SUFFICES process' # "up" => e1 # 0
  OBVIOUS
<1>1. e \in Nat /\ (process # "up" => e # 0)
  BY DEF TypeInv, Spent, KeptInv
<1>2. ASSUME process' = process, e1 = e PROVE process' # "up" => e1 # 0
  BY <1>1, <1>2
<1>3. ASSUME NEW c \in Call, AddLands(c) PROVE process' = process /\ e1 = e
  BY <1>3, AddLandsIs DEF SpentSame
<1>4. ASSUME NEW c \in Call, TakeSnapshot(c) PROVE process' = process /\ e1 = e
  BY <1>4, TakeSnapshotIs
<1>5. ASSUME NEW c \in Call, WriteOwners(c) PROVE process' = process /\ e1 = e
  BY <1>5, WriteOwnersIs DEF SpentSame
<1>6. ASSUME NEW c \in Call, WriteRegistry(c) PROVE process' = process /\ e1 = e
  BY <1>6, WriteRegistryIs DEF Answered
<1>7. ASSUME NEW c \in Call, NEW u \in User, NEW t \in Torrent, RemoveBegins(c, u, t)
      PROVE  process' = process /\ e1 = e
  BY <1>7, RemoveBeginsIs
<1>8. ASSUME NEW c \in Call, RemoveDrops(c) PROVE process' = process /\ e1 = e
  BY <1>8, RemoveDropsIs
<1>9. CASE \E c \in Call : Close(c)
  <2>1. e1 = e + 1
    BY <1>9, CloseIs
  <2> HIDE DEF e, e1
  <2> QED BY <1>1, <2>1
<1>10. CASE Crash \/ \E c \in Call : Exit(c)
  <2>1. (process = "closing" /\ e1 = e) \/ e1 = e + 1
    BY <1>10, HaltIs
  <2> HIDE DEF e, e1
  <2> QED BY <1>1, <2>1
<1>11. CASE Boot
  BY <1>11, BootIs
<1>12. CASE Aside
  BY <1>2, <1>12 DEF Aside
<1> QED BY StepIs, <1>2, <1>3, <1>4, <1>5, <1>6, <1>7, <1>8, <1>9, <1>10, <1>11, <1>12

LEMMA KeptHolds ==
    ASSUME TypeInv, OneWriter, KeptInv, [Next]_vars PROVE KeptInv'
<1> SUFFICES ASSUME Good' PROVE KeptInv'
  BY DownHasEnded DEF KeptInv
<1> DEFINE
      Kept(t) == promise[t] \in User =>
          /\ process # "down" => t \in torrents /\ owner[t] = promise[t]
          /\ FirstLife =>
                /\ t \in source
                /\ \A c \in Call : Writes(c) => Has(calls[c].snapshot, t, promise[t])
          /\ FirstLife \/ process = "down" => Has(disk, t, promise[t])
      Landed(c) == Adding(c) =>
          /\ calls[c].torrent \in torrents
          /\ owner[calls[c].torrent] = calls[c].user
          /\ FirstLife =>
                /\ calls[c].torrent \in source
                /\ Writes(c) => Has(calls[c].snapshot, calls[c].torrent, calls[c].user)
<1>0. /\ Good /\ Orderly' /\ spent.ends \in Nat /\ spent.failedRestores = 0
      /\ spent'.ends <= 1 /\ spent'.failedRestores = 0
      /\ process # "up" => spent.ends # 0
      /\ \A t \in Torrent : Kept(t)
      /\ \A c \in Call : Landed(c)
  BY GoodBefore DEF KeptInv
<1>a. ASSUME \A t \in Torrent : Kept(t)', \A c \in Call : Landed(c)'
      PROVE  KeptInv'
  BY <1>a, DownHasEnded DEF KeptInv
<1>b. /\ promise \in [Torrent -> User \cup Call \cup {"nothing", "removed"}]
      /\ owner \in [Torrent -> User \cup {NoUser}] /\ disk \in Saved
  BY DEF TypeInv, ServiceTypeOK
<1>c. ASSUME process' = process, spent'.ends = spent.ends PROVE FirstLife' = FirstLife
  BY <1>c DEF FirstLife
<1>1. CASE Aside
  <2>1. /\ UNCHANGED <<process, torrents, owner, source, disk, promise>>
        /\ spent'.ends = spent.ends
        /\ \A d \in Call : /\ Writes(d)' => Writes(d) /\ calls'[d] = calls[d]
                           /\ Adding(d)' => Adding(d) /\ calls'[d] = calls[d]
    BY <1>1 DEF Aside, Places, Writes, Adding
  <2>2. FirstLife' = FirstLife
    BY <1>c, <2>1
  <2>3. \A t \in Torrent : Kept(t)'
    BY <1>0, <2>1, <2>2 DEF Has
  <2>4. \A d \in Call : Landed(d)'
    BY <1>0, <2>1, <2>2 DEF Has, Writes
  <2> QED BY <1>a, <2>3, <2>4
<1>2. ASSUME NEW c \in Call, AddLands(c) PROVE KeptInv'
  <2> DEFINE s == calls[c].torrent
             u == calls[c].user
  <2>1. /\ s \in Torrent /\ u \in User
        /\ torrents' = torrents \cup {s} /\ source' = source \cup {s}
        /\ owner' = [owner EXCEPT ![s] = u] /\ promise' = [promise EXCEPT ![s] = c]
        /\ disk' = disk /\ process' = process /\ spent'.ends = spent.ends
        /\ ~Writes(c)' /\ calls'[c].torrent = s /\ calls'[c].user = u
        /\ \A d \in Call : d # c => calls'[d] = calls[d]
    BY <1>2, AddLandsIs DEF Writes, SpentSame
  <2>2. FirstLife' = FirstLife
    BY <1>c, <2>1
  <2> HIDE DEF s, u
  <2>3. ASSUME NEW t \in Torrent PROVE Kept(t)'
    <3>1. promise'[t] \in User => t # s /\ promise'[t] = promise[t] /\ owner'[t] = owner[t]
      BY <1>b, <2>1, NamesApart
    <3>2. \A d \in Call : Writes(d)' => Writes(d) /\ calls'[d] = calls[d]
      BY <2>1 DEF Writes
    <3> QED BY <1>0, <2>1, <2>2, <3>1, <3>2 DEF Has
  <2>4. ASSUME NEW d \in Call PROVE Landed(d)'
    <3>1. CASE d = c
      BY <1>b, <2>1, <3>1
    <3>2. CASE d # c
      <4> SUFFICES ASSUME Adding(d)' PROVE Landed(d)'
        OBVIOUS
      <4>1. calls'[d] = calls[d] /\ calls[d].op = "add"
        BY <2>1, <3>2 DEF Adding
      <4>2. calls[d].torrent \in Torrent
        BY <4>1, AddingIsOf
      <4>3. calls[d].torrent # s /\ Adding(d)
        BY <1>b, <2>1, <3>2, <4>1, <4>2 DEF Adding
      <4>4. owner'[calls[d].torrent] = owner[calls[d].torrent]
        BY <1>b, <2>1, <4>2, <4>3
      <4> QED BY <1>0, <2>1, <2>2, <4>1, <4>3, <4>4 DEF Has, Writes
    <3> QED BY <3>1, <3>2
  <2> QED BY <1>a, <2>3, <2>4
<1>3. ASSUME NEW c \in Call, TakeSnapshot(c) PROVE KeptInv'
  <2>1. /\ calls[c].at = "snapshot" /\ calls'[c].at = "owners" /\ calls'[c].op = calls[c].op
        /\ calls'[c].snapshot.registry = torrents /\ calls'[c].snapshot.owners = owner
        /\ calls'[c].snapshot.sources = source
        /\ \A d \in Call : d # c => calls'[d] = calls[d]
        /\ UNCHANGED <<process, torrents, owner, source, disk, promise, spent>>
        /\ process # "down"
        /\ RequestOK(calls[c]) => /\ calls'[c].torrent = calls[c].torrent
                                  /\ calls'[c].user = calls[c].user
    BY <1>3, TakeSnapshotIs DEF serviceVars
  <2>2. FirstLife' = FirstLife
    BY <1>c, <2>1
  <2>3. \A d \in Call : d # c => ~Writes(d)'
    BY <1>0, <1>3, <2>1, SnapshotIsAlone DEF Orderly, Writes
  <2>4. \A t, u : Has(calls'[c].snapshot, t, u) <=> t \in torrents /\ owner[t] = u /\ t \in source
    BY <2>1 DEF Has
  <2>5. ASSUME NEW t \in Torrent PROVE Kept(t)'
    <3>1. ASSUME promise[t] \in User, FirstLife
          PROVE  \A d \in Call : Writes(d)' => Has(calls'[d].snapshot, t, promise[t])
      BY <1>0, <2>1, <2>3, <2>4, <3>1
    <3> QED BY <1>0, <2>1, <2>2, <3>1 DEF Has
  <2>6. ASSUME NEW d \in Call PROVE Landed(d)'
    <3> SUFFICES ASSUME Adding(d)' PROVE Landed(d)'
      OBVIOUS
    <3>1. calls[d].op = "add"
      BY <2>1 DEF Adding
    <3>2. RequestOK(calls[d]) /\ calls[d].torrent \in Torrent
      BY <3>1, AddingIsOf
    <3>3. calls'[d].torrent = calls[d].torrent /\ calls'[d].user = calls[d].user
      BY <2>1, <3>2
    <3>4. Adding(d)
      BY <2>1, <3>1, <3>3 DEF Adding
    <3> QED BY <1>0, <2>1, <2>2, <2>3, <2>4, <3>3, <3>4 DEF Has
  <2> QED BY <1>a, <2>5, <2>6
<1>4. ASSUME NEW c \in Call, WriteOwners(c) PROVE KeptInv'
  <2> DEFINE saved == calls[c].snapshot
  <2>1. /\ Writes(c) /\ calls'[c].at = "registry" /\ promise' = promise
        /\ calls'[c].snapshot = saved /\ calls'[c].op = calls[c].op
        /\ \A d \in Call : d # c => ~Writes(d)
        /\ RequestOK(calls[c]) => /\ calls'[c].torrent = calls[c].torrent
                                  /\ calls'[c].user = calls[c].user
        /\ disk' = [disk EXCEPT !.owners = saved.owners]
    BY <1>0, <1>4, OrderStays
  <2>2. /\ UNCHANGED <<process, torrents, owner, source>> /\ process # "down"
        /\ \A d \in Call : d # c => calls'[d] = calls[d]
        /\ spent'.ends = spent.ends
    BY <1>4, WriteOwnersIs DEF serviceVars, SpentSame
  <2>3. FirstLife' = FirstLife
    BY <1>c, <2>2
  <2>4. \A t, u : Has(disk, t, u) /\ Has(saved, t, u) => Has(disk', t, u)
    <3>1. /\ disk'.owners = saved.owners /\ disk'.registry = disk.registry
          /\ disk'.sources = disk.sources
      BY <1>b, <2>1 DEF Saved
    <3> QED BY <3>1 DEF Has
  <2>5. \A d \in Call : /\ calls'[d].snapshot = calls[d].snapshot /\ (Writes(d)' => Writes(d))
    BY <2>1, <2>2 DEF Writes
  <2>6. ASSUME NEW t \in Torrent PROVE Kept(t)'
    <3>1. ASSUME promise[t] \in User, FirstLife PROVE Has(disk', t, promise[t])
      BY <1>0, <2>1, <2>4, <3>1
    <3>2. promise[t] \in User => /\ t \in torrents /\ owner[t] = promise[t]
                                 /\ FirstLife => t \in source
      BY <1>0, <2>2
    <3>3. ASSUME promise[t] \in User, FirstLife
          PROVE  \A d \in Call : Writes(d)' => Has(calls'[d].snapshot, t, promise[t])
      BY <1>0, <2>5, <3>3
    <3> QED BY <2>1, <2>2, <2>3, <3>1, <3>2, <3>3 DEF Has
  <2>7. ASSUME NEW d \in Call PROVE Landed(d)'
    <3> SUFFICES ASSUME Adding(d)' PROVE Landed(d)'
      OBVIOUS
    <3>1. calls[d].op = "add"
      BY <2>1, <2>2 DEF Adding
    <3>2. RequestOK(calls[d]) /\ calls[d].torrent \in Torrent
      BY <3>1, AddingIsOf
    <3>3. calls'[d].torrent = calls[d].torrent /\ calls'[d].user = calls[d].user
      BY <2>1, <2>2, <3>2
    <3>4. Adding(d)
      BY <2>1, <2>2, <3>1, <3>3 DEF Adding, Writes
    <3> QED BY <1>0, <2>2, <2>3, <2>5, <3>3, <3>4 DEF Has
  <2> QED BY <1>a, <2>6, <2>7
<1>5. ASSUME NEW c \in Call, WriteRegistry(c) PROVE KeptInv'
  <2> DEFINE saved == calls[c].snapshot
             s == calls[c].torrent
             u == calls[c].user
  <2>1. /\ Writes(c) /\ disk' = saved /\ \A d \in Call : d # c => ~Writes(d)
    BY <1>0, <1>5, OrderStays
  <2>2. /\ Answered(c) /\ UNCHANGED <<process, torrents, owner, source>>
        /\ spent'.ends = spent.ends /\ process # "down"
    BY <1>5, WriteRegistryIs DEF Answered, serviceVars
  <2>3. FirstLife' = FirstLife
    BY <1>c, <2>2
  <2>4. /\ \A d \in Call : ~Writes(d)' /\ (d # c => calls'[d] = calls[d])
        /\ calls'[c].op # "add"
    BY <2>1, <2>2, SaveEnds DEF Writes, Answered
  <2>5. \/ promise' = promise
        \/ /\ Adding(c) /\ s \in Torrent /\ u \in User
           /\ promise' = [promise EXCEPT ![s] = u]
    BY <2>1, <2>2 DEF Answered, Adding, Writes
  <2>6. ASSUME NEW t \in Torrent PROVE Kept(t)'
    <3> SUFFICES ASSUME promise'[t] \in User
                 PROVE  /\ t \in torrents /\ owner[t] = promise'[t]
                        /\ FirstLife => t \in source /\ Has(saved, t, promise'[t])
      BY <2>1, <2>2, <2>3, <2>4 DEF Has
    <3>1. CASE promise'[t] = promise[t]
      BY <1>0, <2>1, <2>2, <3>1
    <3>2. CASE Adding(c) /\ t = s /\ promise'[t] = u
      BY <1>0, <2>1, <3>2
    <3> HIDE DEF s, u
    <3> QED BY <1>b, <2>5, <3>1, <3>2
  <2>7. ASSUME NEW d \in Call PROVE Landed(d)'
    <3> SUFFICES ASSUME Adding(d)' PROVE Landed(d)'
      OBVIOUS
    <3>1. d # c /\ calls'[d] = calls[d] /\ calls[d].op = "add"
      BY <2>4 DEF Adding
    <3>2. calls[d].torrent \in Torrent
      BY <3>1, AddingIsOf
    <3>3. promise'[calls[d].torrent] = promise[calls[d].torrent]
      <4> DEFINE v == calls[d].torrent
      <4> SUFFICES promise'[v] = promise[v]
        OBVIOUS
      <4>1. promise'[v] = d /\ v \in Torrent
        BY <3>1, <3>2 DEF Adding
      <4>2. CASE promise' = promise
        BY <4>2
      <4>3. CASE s \in Torrent /\ u \in User /\ promise' = [promise EXCEPT ![s] = u]
        <5> HIDE DEF v, s, u
        <5> QED BY <1>b, <4>1, <4>3, NamesApart
      <4> QED BY <2>5, <4>2, <4>3
    <3>4. Adding(d)
      BY <3>1, <3>3 DEF Adding
    <3> QED BY <1>0, <2>2, <2>3, <2>4, <3>1, <3>4 DEF Has
  <2> QED BY <1>a, <2>6, <2>7
<1>6. ASSUME NEW c \in Call, NEW u \in User, NEW s \in Torrent, RemoveBegins(c, u, s)
      PROVE  KeptInv'
  <2>1. /\ torrents' = torrents \ {s} /\ source' = source \ {s} /\ disk' = disk
        /\ owner' = [owner EXCEPT ![s] = NoUser] /\ promise' = [promise EXCEPT ![s] = c]
        /\ ~Writes(c)' /\ calls'[c].op # "add"
        /\ \A d \in Call : d # c => calls'[d] = calls[d]
        /\ process' = process /\ spent'.ends = spent.ends
    BY <1>6, RemoveBeginsIs DEF Writes
  <2>2. FirstLife' = FirstLife
    BY <1>c, <2>1
  <2>3. ASSUME NEW t \in Torrent PROVE Kept(t)'
    <3>1. promise'[t] \in User => t # s /\ promise'[t] = promise[t] /\ owner'[t] = owner[t]
      BY <1>b, <2>1, NamesApart
    <3>2. \A d \in Call : Writes(d)' => Writes(d) /\ calls'[d] = calls[d]
      BY <2>1 DEF Writes
    <3> QED BY <1>0, <2>1, <2>2, <3>1, <3>2 DEF Has
  <2>4. ASSUME NEW d \in Call PROVE Landed(d)'
    <3> SUFFICES ASSUME Adding(d)' PROVE Landed(d)'
      OBVIOUS
    <3>1. d # c /\ calls'[d] = calls[d] /\ calls[d].op = "add"
      BY <2>1 DEF Adding
    <3>2. calls[d].torrent \in Torrent
      BY <3>1, AddingIsOf
    <3>3. calls[d].torrent # s /\ Adding(d)
      BY <1>b, <2>1, <3>1, <3>2 DEF Adding
    <3>4. owner'[calls[d].torrent] = owner[calls[d].torrent]
      BY <1>b, <2>1, <3>2, <3>3
    <3> QED BY <1>0, <2>1, <2>2, <3>1, <3>3, <3>4 DEF Has, Writes
  <2> QED BY <1>a, <2>3, <2>4
<1>7. ASSUME NEW c \in Call, RemoveDrops(c) PROVE KeptInv'
  <2> DEFINE s == calls[c].torrent
  <2>1. /\ calls[c].at = "draining" /\ s \in Torrent /\ calls'[c] = Idle
        /\ UNCHANGED <<process, torrents, owner, source, disk>>
        /\ spent'.ends = spent.ends
        /\ promise' = IF promise[s] = c THEN [promise EXCEPT ![s] = "removed"] ELSE promise
        /\ \A d \in Call : d # c => /\ calls'[d].at = calls[d].at
                                    /\ calls[d].at # "fetching" => calls'[d] = calls[d]
    BY <1>7, RemoveDropsIs DEF serviceVars
  <2>2. FirstLife' = FirstLife
    BY <1>c, <2>1
  <2> HIDE DEF s
  <2>3. \A t \in Torrent : promise'[t] # promise[t] => promise'[t] = "removed"
    BY <1>b, <2>1
  <2>4. \A d \in Call : Writes(d)' => Writes(d) /\ calls'[d] = calls[d]
    BY <2>1, IdleIs DEF Writes
  <2>5. ASSUME NEW t \in Torrent PROVE Kept(t)'
    <3>1. promise'[t] \in User => promise'[t] = promise[t]
      BY <2>3, NamesApart
    <3> QED BY <1>0, <2>1, <2>2, <2>4, <3>1 DEF Has
  <2>6. ASSUME NEW d \in Call PROVE Landed(d)'
    <3> SUFFICES ASSUME Adding(d)' PROVE Landed(d)'
      OBVIOUS
    <3>1. d # c /\ calls'[d] = calls[d] /\ calls[d].op = "add"
      BY <2>1, IdleIs DEF Adding
    <3>2. calls[d].torrent \in Torrent
      BY <3>1, AddingIsOf
    <3>3. Adding(d)
      BY <2>3, <3>1, <3>2, NamesApart DEF Adding
    <3> QED BY <1>0, <2>1, <2>2, <2>4, <3>1, <3>3 DEF Has
  <2> QED BY <1>a, <2>5, <2>6
<1>8. ASSUME NEW c \in Call, Close(c) PROVE KeptInv'
  <2>1. /\ process = "up" /\ process' = "closing" /\ spent'.ends = spent.ends + 1
        /\ calls'[c].at = "snapshot" /\ calls'[c].op = "close"
        /\ \A d \in Call : d # c => calls'[d] = calls[d]
        /\ UNCHANGED <<torrents, owner, source, disk, promise>>
    BY <1>8, CloseIs DEF serviceVars, historyVars
  <2>2. FirstLife
    <3> DEFINE e == spent.ends
               e1 == spent'.ends
    <3>1. e = 0
      <4>1. e \in Nat /\ e1 = e + 1 /\ e1 <= 1
        BY <1>0, <2>1
      <4> HIDE DEF e, e1
      <4> QED BY <4>1
    <3> QED BY <3>1 DEF FirstLife
  <2>3. \A d \in Call : /\ Writes(d)' => Writes(d) /\ calls'[d] = calls[d]
                        /\ Adding(d)' => Adding(d) /\ calls'[d] = calls[d]
    BY <2>1 DEF Writes, Adding
  <2>4. ASSUME NEW t \in Torrent PROVE Kept(t)'
    BY <1>0, <2>1, <2>2, <2>3 DEF Has
  <2>5. ASSUME NEW d \in Call PROVE Landed(d)'
    BY <1>0, <2>1, <2>2, <2>3 DEF Has
  <2> QED BY <1>a, <2>4, <2>5
<1>9. CASE Crash \/ \E c \in Call : Exit(c)
  <2>1. /\ process # "down" /\ process' = "down" /\ UNCHANGED <<disk, promise>>
        /\ \A d \in Call : ~Writes(d)' /\ ~Adding(d)'
        /\ \/ process = "closing" /\ spent'.ends = spent.ends
           \/ spent'.ends = spent.ends + 1
    BY <1>9, HaltIs, IdleIs DEF historyVars, Writes, Adding
  <2> DEFINE e == spent.ends
             e1 == spent'.ends
  <2>2. e = 0 \/ (process = "closing" /\ e = 1)
    <3>1. e \in Nat /\ e1 <= 1 /\ (process # "up" => e # 0)
          /\ ((process = "closing" /\ e1 = e) \/ e1 = e + 1)
      BY <1>0, <2>1
    <3> HIDE DEF e, e1
    <3> QED BY <3>1
  <2>3. FirstLife
    BY <2>2 DEF FirstLife
  <2>4. ~FirstLife'
    <3>1. e1 # 0
      BY <2>1, DownHasEnded
    <3> QED BY <2>1, <3>1 DEF FirstLife
  <2>5. \A t \in Torrent : Kept(t)'
    BY <1>0, <2>1, <2>3, <2>4 DEF Has
  <2> QED BY <1>a, <2>1, <2>5
<1>10. CASE Boot
  <2>1. /\ process = "down" /\ process' = "up" /\ UNCHANGED <<disk, promise>>
        /\ owner' = disk.owners /\ torrents' = disk.registry \cap disk.sources
        /\ spent'.ends = spent.ends
        /\ \A d \in Call : ~Adding(d)'
    <3>1. spent'.failedRestores = 0
      BY <1>0
    <3> QED BY <1>10, <3>1, BootIs, IdleIs DEF historyVars, Adding
  <2>2. ~FirstLife'
    BY <1>0, <2>1 DEF FirstLife
  <2>3. \A t \in Torrent : Kept(t)'
    BY <1>0, <2>1, <2>2 DEF Has
  <2> QED BY <1>a, <2>1, <2>3
<1> QED BY StepIs, <1>1, <1>2, <1>3, <1>4, <1>5, <1>6, <1>7, <1>8, <1>9, <1>10

LEMMA KeptInit == Init => KeptInv
BY NamesApart, IdleIs DEF Init, KeptInv, Adding

\* A torrent that a user was told is added is there and is that user's, also after one
\* restart, wherever the end came, as long as the writes worked, no two saves ran at
\* once and the peers answered the restore.
THEOREM AddedIsKept == Spec => []KeptOverOneRestart
<1> DEFINE I == TypeInv /\ OneWriter /\ KeptInv
<1>1. Init => I
  BY InitTypes, OneWriterInit, KeptInit
<1>2. I /\ [Next]_vars => I'
  BY StepIs, OneWriterHolds, KeptHolds
<1>3. I => KeptOverOneRestart
  BY DEF KeptInv, Good, KeptOverOneRestart, KeptSurvives
<1> QED BY <1>1, <1>2, <1>3, PTL DEF Spec

-----------------------------------------------------------------------------
(* The limit.                                                              *)

Bound == MaxTorrents + Cardinality(Call) - 1

\* Every fetch passed the limit while it was not reached, and there are no more of
\* them than requests; a restart brings back no more than were there.
LimitInv ==
    /\ Cardinality(torrents) + Cardinality(At("fetching")) <= Bound
    /\ \A c \in Call : Writes(c) => Cardinality(calls[c].snapshot.registry) <= Bound
    /\ Cardinality(disk.registry) <= Bound

LEMMA Counts ==
    /\ IsFiniteSet(Torrent) /\ IsFiniteSet(Call)
    /\ Cardinality(Call) \in Nat /\ MaxTorrents \in Nat /\ MaxTorrents >= 1
    /\ \A S \in SUBSET Torrent : IsFiniteSet(S) /\ Cardinality(S) \in Nat
    /\ \A S \in SUBSET Call :
          IsFiniteSet(S) /\ Cardinality(S) \in Nat /\ Cardinality(S) <= Cardinality(Call)
<1>1. IsFiniteSet(Torrent) /\ IsFiniteSet(Call)
  BY NamesAssumption
<1>2. \A S \in SUBSET Torrent : IsFiniteSet(S) /\ Cardinality(S) \in Nat
  BY <1>1, FS_Subset, FS_CardinalityType
<1>3. \A S \in SUBSET Call :
          IsFiniteSet(S) /\ Cardinality(S) \in Nat /\ Cardinality(S) <= Cardinality(Call)
  BY <1>1, FS_Subset, FS_CardinalityType
<1>4. Cardinality(Call) \in Nat /\ MaxTorrents \in Nat /\ MaxTorrents >= 1
  BY <1>1, FS_CardinalityType, BoundAssumption
<1> QED BY <1>1, <1>2, <1>3, <1>4

\* Fewer torrents and fewer fetches count less.
LEMMA CountsLess ==
    ASSUME NEW S \in SUBSET Torrent, NEW T \in SUBSET S, NEW F \in SUBSET Call,
           NEW G \in SUBSET F
    PROVE  Cardinality(T) + Cardinality(G) <= Cardinality(S) + Cardinality(F)
<1>1. IsFiniteSet(S) /\ IsFiniteSet(F) /\ Cardinality(S) \in Nat /\ Cardinality(F) \in Nat
  BY Counts
<1>2. /\ Cardinality(T) \in Nat /\ Cardinality(G) \in Nat
      /\ Cardinality(T) <= Cardinality(S) /\ Cardinality(G) <= Cardinality(F)
  BY <1>1, FS_Subset, FS_CardinalityType
<1> QED BY <1>1, <1>2

\* A fetch that became a torrent.
LEMMA CountsLanded ==
    ASSUME NEW S \in SUBSET Torrent, NEW t \in Torrent, NEW F \in SUBSET Call,
           NEW c \in F, NEW G \in SUBSET (F \ {c})
    PROVE  Cardinality(S \cup {t}) + Cardinality(G) <= Cardinality(S) + Cardinality(F)
<1>1. IsFiniteSet(S) /\ IsFiniteSet(F) /\ Cardinality(S) \in Nat /\ Cardinality(F) \in Nat
  BY Counts
<1>2. Cardinality(S \cup {t}) = Cardinality(S) \/ Cardinality(S \cup {t}) = Cardinality(S) + 1
  BY <1>1, FS_AddElement
<1>3. IsFiniteSet(F \ {c}) /\ Cardinality(F \ {c}) = Cardinality(F) - 1
  BY <1>1, FS_RemoveElement
<1>4. Cardinality(G) \in Nat /\ Cardinality(G) <= Cardinality(F \ {c})
  BY <1>3, FS_Subset, FS_CardinalityType
<1> QED BY <1>1, <1>2, <1>3, <1>4

LEMMA LimitHolds ==
    ASSUME TypeInv, LimitInv, [Next]_vars PROVE LimitInv'
<1> DEFINE F == At("fetching")
           G == At("fetching")'
           s == Cardinality(torrents)
           s1 == Cardinality(torrents')
           f == Cardinality(F)
           g == Cardinality(G)
<1>0. /\ torrents \subseteq Torrent /\ torrents' \subseteq Torrent
      /\ F \subseteq Call /\ G \subseteq Call
      /\ disk \in Saved /\ disk.registry \subseteq Torrent
  <2>1. TypeInv'
    BY StepIs
  <2> QED BY <2>1 DEF TypeInv, ServiceTypeOK, At, Saved
<1>1. /\ s \in Nat /\ s1 \in Nat /\ f \in Nat /\ g \in Nat /\ g <= Cardinality(Call)
      /\ Bound \in Int /\ Cardinality(Call) \in Nat /\ MaxTorrents \in Nat
      /\ s + f <= Bound
  BY <1>0, Counts DEF LimitInv, Bound
\* The counts.
<1>a. ASSUME torrents' \subseteq torrents, G \subseteq F
      PROVE  s1 + g <= Bound
  <2>1. s1 + g <= s + f
    BY <1>0, <1>a, CountsLess
  <2> HIDE DEF s, s1, f, g
  <2> QED BY <1>1, <2>1
<1>b. ASSUME NEW c \in Call, \A d \in Call : d # c => calls'[d].at = calls[d].at,
             calls'[c].at # "fetching"
      PROVE  G \subseteq F
  BY <1>b DEF At
\* The snapshots.
<1>c. ASSUME \A d \in Call : Writes(d)' => Writes(d) /\ calls'[d].snapshot = calls[d].snapshot
      PROVE  \A d \in Call : Writes(d)' => Cardinality(calls'[d].snapshot.registry) <= Bound
  BY <1>c DEF LimitInv
<1>d. ASSUME s1 + g <= Bound, disk'.registry = disk.registry,
             \A d \in Call : Writes(d)' => Cardinality(calls'[d].snapshot.registry) <= Bound
      PROVE  LimitInv'
  BY <1>d DEF LimitInv, Bound
<1>2. CASE Aside
  <2>1. torrents' = torrents /\ disk' = disk
        /\ \A d \in Call : Writes(d)' => Writes(d) /\ calls'[d].snapshot = calls[d].snapshot
    BY <1>2 DEF Aside, Places, Writes
  <2>2. s1 + g <= Bound
    <3>1. CASE Cardinality(torrents) < MaxTorrents
      <4>1. s1 = s /\ s < MaxTorrents /\ Bound = MaxTorrents + Cardinality(Call) - 1
        BY <2>1, <3>1 DEF Bound
      <4> DEFINE n == Cardinality(Call)
                 b == Bound
      <4>2. b = MaxTorrents + n - 1 /\ n \in Nat /\ g <= n
        BY <1>1, <4>1
      <4> SUFFICES s1 + g <= b
        OBVIOUS
      <4> HIDE DEF s, s1, f, g, n, b
      <4> QED BY <1>1, <4>1, <4>2
    <3>2. CASE \A d \in Call : calls'[d].at = "fetching" => calls[d].at = "fetching"
      <4>1. G \subseteq F
        BY <3>2 DEF At
      <4> QED BY <1>a, <2>1, <4>1
    <3> QED BY <1>2, <3>1, <3>2 DEF Aside
  <2> QED BY <1>c, <1>d, <2>1, <2>2
<1>3. ASSUME NEW c \in Call, AddLands(c) PROVE LimitInv'
  <2> DEFINE t == calls[c].torrent
  <2>1. /\ calls[c].at = "fetching" /\ calls'[c].at = "snapshot" /\ t \in Torrent
        /\ torrents' = torrents \cup {t} /\ disk' = disk
        /\ \A d \in Call : d # c => calls'[d] = calls[d]
    BY <1>3, AddLandsIs
  <2> HIDE DEF t
  <2>2. c \in F /\ G \subseteq F \ {c}
    BY <2>1 DEF At
  <2>3. s1 + g <= s + f
    <3>1. Cardinality(torrents \cup {t}) + g <= s + f
      BY <1>0, <2>1, <2>2, CountsLanded
    <3> QED BY <2>1, <3>1
  <2>4. s1 + g <= Bound
    <3> HIDE DEF s, s1, f, g
    <3> QED BY <1>1, <2>3
  <2>5. \A d \in Call : Writes(d)' => Writes(d) /\ calls'[d].snapshot = calls[d].snapshot
    BY <2>1 DEF Writes
  <2> QED BY <1>c, <1>d, <2>1, <2>4, <2>5
<1>4. ASSUME NEW c \in Call, TakeSnapshot(c) PROVE LimitInv'
  <2>1. /\ calls[c].at = "snapshot" /\ calls'[c].at = "owners"
        /\ calls'[c].snapshot.registry = torrents
        /\ \A d \in Call : d # c => calls'[d] = calls[d]
        /\ torrents' = torrents /\ disk' = disk
    BY <1>4, TakeSnapshotIs DEF serviceVars
  <2>2. s1 + g <= Bound
    BY <1>a, <1>b, <2>1
  <2>3. s <= Bound
    <3> HIDE DEF s, s1, f, g
    <3> QED BY <1>1
  <2>4. ASSUME NEW d \in Call, Writes(d)'
        PROVE  Cardinality(calls'[d].snapshot.registry) <= Bound
    <3>1. CASE d = c
      BY <2>1, <2>3, <3>1
    <3>2. CASE d # c
      BY <2>1, <2>4, <3>2 DEF LimitInv, Writes
    <3> QED BY <3>1, <3>2
  <2> QED BY <1>d, <2>1, <2>2, <2>4
<1>5. ASSUME NEW c \in Call, WriteOwners(c) PROVE LimitInv'
  <2>1. /\ calls[c].at = "owners" /\ torrents' = torrents
        /\ \A d \in Call : d # c => calls'[d] = calls[d]
        /\ disk'.registry = disk.registry
        /\ \/ calls'[c].at = "registry" /\ calls'[c].snapshot = calls[c].snapshot
           \/ ~Writes(c)' /\ calls'[c].at # "fetching"
    BY <1>0, <1>5, WriteOwnersIs DEF Answered, Writes, serviceVars, Saved
  <2>2. s1 + g <= Bound
    BY <1>a, <1>b, <2>1
  <2>3. \A d \in Call : Writes(d)' => Writes(d) /\ calls'[d].snapshot = calls[d].snapshot
    BY <2>1 DEF Writes
  <2> QED BY <1>c, <1>d, <2>1, <2>2, <2>3
<1>6. ASSUME NEW c \in Call, WriteRegistry(c) PROVE LimitInv'
  <2>0. /\ calls[c].at = "registry" /\ Answered(c)
        /\ \/ disk' = [disk EXCEPT !.registry = calls[c].snapshot.registry,
                                  !.sources = calls[c].snapshot.sources]
           \/ disk' = disk
    BY <1>6, WriteRegistryIs
  <2>1. /\ Writes(c) /\ torrents' = torrents /\ ~Writes(c)' /\ calls'[c].at # "fetching"
        /\ \A d \in Call : d # c => calls'[d] = calls[d]
        /\ \/ disk'.registry = disk.registry
           \/ disk'.registry = calls[c].snapshot.registry
    <3>1. \/ disk'.registry = disk.registry
          \/ disk'.registry = calls[c].snapshot.registry
      BY <1>0, <2>0 DEF Saved
    <3> QED BY <2>0, <3>1 DEF Answered, Writes, serviceVars
  <2>2. s1 + g <= Bound
    BY <1>a, <1>b, <2>1
  <2>3. \A d \in Call : Writes(d)' => Writes(d) /\ calls'[d].snapshot = calls[d].snapshot
    BY <2>1 DEF Writes
  <2>4. Cardinality(disk'.registry) <= Bound
    BY <2>1 DEF LimitInv
  <2> QED BY <1>c, <2>2, <2>3, <2>4 DEF LimitInv, Bound
<1>7. ASSUME NEW c \in Call, \/ \E u \in User, t \in Torrent : RemoveBegins(c, u, t)
                             \/ Close(c)
      PROVE LimitInv'
  <2>1. /\ calls'[c].at = "snapshot" /\ torrents' \subseteq torrents /\ disk' = disk
        /\ \A d \in Call : d # c => calls'[d] = calls[d]
    BY <1>7, RemoveBeginsIs, CloseIs DEF serviceVars
  <2>2. s1 + g <= Bound
    BY <1>a, <1>b, <2>1
  <2>3. \A d \in Call : Writes(d)' => Writes(d) /\ calls'[d].snapshot = calls[d].snapshot
    BY <2>1 DEF Writes
  <2> QED BY <1>c, <1>d, <2>1, <2>2, <2>3
<1>8. ASSUME NEW c \in Call, RemoveDrops(c) PROVE LimitInv'
  <2>1. /\ calls'[c].at = "idle" /\ torrents' = torrents /\ disk' = disk
        /\ \A d \in Call : d # c => /\ calls'[d].at = calls[d].at
                                    /\ calls[d].at # "fetching" => calls'[d] = calls[d]
    BY <1>8, RemoveDropsIs, IdleIs DEF serviceVars
  <2>2. s1 + g <= Bound
    BY <1>a, <1>b, <2>1
  <2>3. \A d \in Call : Writes(d)' => Writes(d) /\ calls'[d].snapshot = calls[d].snapshot
    BY <2>1 DEF Writes
  <2> QED BY <1>c, <1>d, <2>1, <2>2, <2>3
<1>9. CASE (Crash \/ \E c \in Call : Exit(c)) \/ Boot
  <2>1. /\ torrents' = {} \/ torrents' \subseteq disk.registry
        /\ disk' = disk /\ \A d \in Call : calls'[d].at = "idle"
    BY <1>9, HaltIs, BootIs, IdleIs
  <2>2. torrents' \subseteq disk.registry /\ G \subseteq {}
    BY <2>1 DEF At
  <2>3. s1 + g <= Cardinality(disk.registry) + Cardinality({})
    BY <1>0, <2>2, CountsLess
  <2> DEFINE r == Cardinality(disk.registry)
             b == Bound
  <2>4. Cardinality({}) = 0 /\ r \in Nat /\ r <= b /\ b \in Int
    BY <1>0, <1>1, FS_EmptySet, Counts DEF LimitInv
  <2>5. s1 + g <= b
    <3>1. s1 + g <= r + 0
      BY <2>3, <2>4
    <3> HIDE DEF s, s1, f, g, r, b
    <3> QED BY <1>1, <2>4, <3>1
  <2>6. \A d \in Call : ~Writes(d)'
    BY <2>1 DEF Writes
  <2> QED BY <1>d, <2>1, <2>5, <2>6
<1> QED BY StepIs, <1>2, <1>3, <1>4, <1>5, <1>6, <1>7, <1>8, <1>9

LEMMA LimitInit == Init => LimitInv
<1> SUFFICES ASSUME Init PROVE LimitInv
  OBVIOUS
<1>1. /\ torrents = {} /\ At("fetching") = {} /\ disk.registry = {}
      /\ \A c \in Call : ~Writes(c)
  BY IdleIs DEF Init, At, Nothing, Writes
<1>2. Cardinality({}) = 0 /\ 0 <= Bound
  <2> DEFINE n == Cardinality(Call)
             b == Bound
  <2>1. n \in Nat /\ MaxTorrents \in Nat /\ MaxTorrents >= 1 /\ b = MaxTorrents + n - 1
    BY Counts DEF Bound
  <2>2. 0 <= b
    <3> HIDE DEF n, b
    <3> QED BY <2>1
  <2> QED BY <2>2, FS_EmptySet
<1> QED BY <1>1, <1>2 DEF LimitInv

\* There are never more torrents than the limit and one for each request but the one
\* that passed it last, over any number of restarts.
THEOREM LimitIsOverrunByRequests == Spec => []LimitOverrun
<1> DEFINE I == TypeInv /\ LimitInv
<1>1. Init => I
  BY InitTypes, LimitInit
<1>2. I /\ [Next]_vars => I'
  BY StepIs, LimitHolds
<1>3. I => LimitOverrun
  <2> SUFFICES ASSUME I PROVE LimitOverrun
    OBVIOUS
  <2> DEFINE s == Cardinality(torrents)
             f == Cardinality(At("fetching"))
             b == Bound
  <2>1. torrents \in SUBSET Torrent /\ At("fetching") \in SUBSET Call
    BY DEF TypeInv, ServiceTypeOK, At
  <2>2. s \in Nat /\ f \in Nat /\ b \in Int /\ s + f <= b
    BY <2>1, Counts DEF LimitInv, Bound
  <2>3. s <= b
    <3> HIDE DEF s, f, b
    <3> QED BY <2>2
  <2> QED BY <2>3 DEF LimitOverrun, Bound
<1> QED BY <1>1, <1>2, <1>3, PTL DEF Spec

-----------------------------------------------------------------------------
(* Streams.                                                                *)

\* Whoever waits for metadata and was not told otherwise waits on an object the client
\* has.
WaitsOnObject ==
    \A c \in Call : calls[c].at = "fetching" /\ ~calls[c].dropped => calls[c].torrent \in client

\* Until a torrent lands there is none anywhere: not in memory, not in a file nor in a
\* snapshot on its way to one.
NothingYet ==
    /\ torrents = {} /\ disk.registry = {}
    /\ \A d \in Call : Writes(d) => calls[d].snapshot.registry = {}

\* A request that has to do with a torrent there is.
Touches(d) == calls[d].op \in {"add", "remove"} \/ calls[d].at = "streaming"

\* With one add: before it nothing is there and nobody adds, removes or streams; while
\* it fetches nobody else does; a torrent being removed has left the service.
OneAddInv ==
    spent.adds <= 1 /\ spent.timeouts = 0 =>
        /\ torrents \subseteq client
        /\ \A c \in Call : calls[c].at = "fetching" =>
              /\ spent.adds = 1 /\ ~calls[c].dropped /\ NothingYet
              /\ \A d \in Call : d # c => ~Touches(d)
        /\ spent.adds = 0 => NothingYet /\ \A d \in Call : ~Touches(d)
        /\ \A c \in Call : calls[c].op = "remove" => calls[c].torrent \notin torrents
        /\ \A c \in Call : calls[c].at = "streaming" => calls[c].torrent \in client

LEMMA WaitsHold ==
    ASSUME TypeInv, WaitsOnObject, [Next]_vars PROVE WaitsOnObject'
<1>a. ASSUME NEW c \in Call, client \subseteq client', calls'[c].at # "fetching",
             \A d \in Call : d # c => calls'[d] = calls[d]
      PROVE  WaitsOnObject'
  BY <1>a DEF WaitsOnObject
<1>1. CASE UNCHANGED vars
  BY <1>1 DEF WaitsOnObject, vars
<1>2. ASSUME NEW c \in Call, NEW u \in User, NEW t \in Torrent, AddBegins(c, u, t)
      PROVE  WaitsOnObject'
  BY <1>2, AddBeginsIs DEF WaitsOnObject
<1>3. ASSUME NEW c \in Call, AddFails(c) PROVE WaitsOnObject'
  <2> SUFFICES ASSUME NEW d \in Call, calls'[d].at = "fetching", ~calls'[d].dropped
               PROVE  calls'[d].torrent \in client'
    BY DEF WaitsOnObject
  <2>1. d # c /\ calls[d].at = "fetching" /\ ~calls[d].dropped
        /\ calls'[d].torrent = calls[d].torrent
        /\ \/ client' = client
           \/ client' = client \ {calls[c].torrent} /\ calls'[d].torrent # calls[c].torrent
    BY <1>3, AddFailsIs, IdleIs
  <2> QED BY <2>1 DEF WaitsOnObject
<1>4. ASSUME NEW c \in Call, RemoveDrops(c) PROVE WaitsOnObject'
  <2> SUFFICES ASSUME NEW d \in Call, calls'[d].at = "fetching", ~calls'[d].dropped
               PROVE  calls'[d].torrent \in client'
    BY DEF WaitsOnObject
  <2>1. d # c /\ calls[d].at = "fetching" /\ ~calls[d].dropped
        /\ calls'[d].torrent = calls[d].torrent /\ calls[d].torrent # calls[c].torrent
        /\ client' = client \ {calls[c].torrent}
    BY <1>4, RemoveDropsIs, IdleIs
  <2> QED BY <2>1 DEF WaitsOnObject
<1>5. ASSUME NEW c \in Call,
             \/ AddLands(c) \/ TakeSnapshot(c) \/ WriteOwners(c) \/ WriteRegistry(c)
             \/ SelectFile(c) \/ ServeFile(c) \/ StreamEnds(c) \/ Close(c)
             \/ \E u \in User, t \in Torrent :
                   \/ RemoveBegins(c, u, t)
                   \/ \E op \in {"select", "stream"} : ReadBegins(c, op, u, t)
      PROVE  WaitsOnObject'
  <2>1. /\ client' = client /\ calls'[c].at # "fetching"
        /\ \A d \in Call : d # c => calls'[d] = calls[d]
    <3>1. CASE \/ SelectFile(c) \/ ServeFile(c) \/ StreamEnds(c)
               \/ \E u \in User, t \in Torrent, op \in {"select", "stream"} :
                     ReadBegins(c, op, u, t)
      BY <3>1, ReadsAre
    <3>2. CASE \E u \in User, t \in Torrent : RemoveBegins(c, u, t)
      BY <3>2, RemoveBeginsIs
    <3>3. CASE AddLands(c)
      BY <3>3, AddLandsIs
    <3>4. CASE TakeSnapshot(c)
      BY <3>4, TakeSnapshotIs
    <3>5. CASE WriteOwners(c)
      BY <3>5, WriteOwnersIs DEF Answered
    <3>6. CASE WriteRegistry(c)
      BY <3>6, WriteRegistryIs DEF Answered
    <3>7. CASE Close(c)
      BY <3>7, CloseIs
    <3> QED BY <1>5, <3>1, <3>2, <3>3, <3>4, <3>5, <3>6, <3>7
  <2> QED BY <1>a, <2>1
<1>6. CASE Crash \/ (\E c \in Call : Exit(c)) \/ Boot
  <2>1. \A d \in Call : calls'[d] = Idle
    BY <1>6, HaltIs, BootIs
  <2> QED BY <2>1, IdleIs DEF WaitsOnObject
<1> QED BY <1>1, <1>2, <1>3, <1>4, <1>5, <1>6 DEF Next

LEMMA OneAddHolds ==
    ASSUME TypeInv, WaitsOnObject, OneAddInv, [Next]_vars PROVE OneAddInv'
<1> DEFINE a == spent.adds
           a1 == spent'.adds
           o == spent.timeouts
           o1 == spent'.timeouts
           Fetches(c) == calls[c].at = "fetching" =>
               /\ spent.adds = 1 /\ ~calls[c].dropped /\ NothingYet
               /\ \A d \in Call : d # c => ~Touches(d)
           Removes(c) == calls[c].op = "remove" => calls[c].torrent \notin torrents
           Streams(c) == calls[c].at = "streaming" => calls[c].torrent \in client
<1> SUFFICES ASSUME a1 <= 1, o1 = 0 PROVE OneAddInv'
  BY DEF OneAddInv
<1>0. ASSUME a <= 1, o = 0
      PROVE  /\ torrents \subseteq client
             /\ \A c \in Call : Fetches(c) /\ Removes(c) /\ Streams(c)
             /\ a = 0 => NothingYet /\ \A d \in Call : ~Touches(d)
  BY <1>0 DEF OneAddInv
<1>a. a \in Nat /\ o \in Nat
  BY DEF TypeInv, Spent
<1>b. ASSUME torrents' \subseteq client',
             \A c \in Call : Fetches(c)' /\ Removes(c)' /\ Streams(c)',
             a1 = 0 => NothingYet' /\ \A d \in Call : ~Touches(d)'
      PROVE  OneAddInv'
  BY <1>b DEF OneAddInv
\* One request that does not come to fetch, and touches nothing unless there is
\* something to touch.
<1>c. ASSUME NEW c \in Call, a1 = a, o1 = o, client' = client, torrents' \subseteq torrents,
             \A d \in Call : d # c => calls'[d] = calls[d],
             calls'[c].at # "fetching", NothingYet => NothingYet',
             NothingYet /\ Touches(c)' => Touches(c), Removes(c)', Streams(c)'
      PROVE  OneAddInv'
  <2>1. /\ torrents \subseteq client
        /\ \A d \in Call : Fetches(d) /\ Removes(d) /\ Streams(d)
        /\ a = 0 => NothingYet /\ \A d \in Call : ~Touches(d)
    BY <1>0, <1>c
  <2>2. \A d \in Call : NothingYet /\ Touches(d)' => Touches(d)
    BY <1>c DEF Touches
  <2>3. ASSUME NEW d \in Call, calls'[d].at = "fetching"
        PROVE  /\ a1 = 1 /\ ~calls'[d].dropped /\ NothingYet'
               /\ \A e \in Call : e # d => ~Touches(e)'
    <3>1. d # c /\ calls'[d] = calls[d] /\ calls[d].at = "fetching"
      BY <1>c, <2>3
    <3>2. a = 1 /\ ~calls[d].dropped /\ NothingYet /\ \A e \in Call : e # d => ~Touches(e)
      BY <2>1, <3>1
    <3> QED BY <1>c, <2>2, <3>1, <3>2
  <2>4. a1 = 0 => NothingYet' /\ \A d \in Call : ~Touches(d)'
    BY <1>c, <2>1, <2>2
  <2>5. torrents' \subseteq client' /\ \A d \in Call : Removes(d)' /\ Streams(d)'
    BY <1>c, <2>1
  <2> QED BY <1>b, <2>3, <2>4, <2>5
<1>1. CASE UNCHANGED vars
  BY <1>1 DEF OneAddInv, NothingYet, Touches, Writes, vars, serviceVars
<1>2. ASSUME NEW c \in Call, NEW u \in User, NEW t \in Torrent, AddBegins(c, u, t)
      PROVE  OneAddInv'
  <2>1. /\ calls'[c].at = "fetching" /\ calls'[c].op = "add" /\ ~calls'[c].dropped
        /\ \A d \in Call : d # c => calls'[d] = calls[d]
        /\ client' = client \cup {t} /\ UNCHANGED <<torrents, disk>>
        /\ a1 = a + 1 /\ o1 = o
    BY <1>2, AddBeginsIs DEF serviceVars
  <2>2. a = 0 /\ a1 = 1 /\ o = 0
    <3> HIDE DEF a, a1, o, o1
    <3> QED BY <1>a, <2>1
  <2>3. /\ torrents \subseteq client /\ NothingYet /\ \A d \in Call : ~Touches(d)
    BY <1>0, <2>2
  <2>4. NothingYet' /\ \A d \in Call : d # c => ~Touches(d)'
    BY <2>1, <2>3 DEF NothingYet, Touches, Writes
  <2>5. \A d \in Call : Fetches(d)'
    <3>1. \A d \in Call : d # c => calls'[d].at # "fetching"
      <4>1. \A d \in Call : calls[d].at = "fetching" => Touches(d)
        BY KindOfCall DEF TypeInv, Touches
      <4> QED BY <2>1, <2>3, <4>1
    <3> QED BY <2>1, <2>2, <2>4, <3>1
  <2>6. \A d \in Call : Removes(d)' /\ Streams(d)'
    BY <2>1, <2>3, <2>4 DEF Touches
  <2> QED BY <1>b, <2>1, <2>2, <2>3, <2>5, <2>6
<1>3. ASSUME NEW c \in Call, AddFails(c) PROVE OneAddInv'
  <2>1. /\ calls[c].at = "fetching" /\ calls'[c] = Idle /\ UNCHANGED <<torrents, disk>>
        /\ a1 = a /\ o1 = o
    BY <1>3, AddFailsIs DEF SpentSame, serviceVars
  <2>2. ASSUME NEW d \in Call, d # c
        PROVE  /\ calls'[d].at = calls[d].at
               /\ calls'[d].at # "fetching" => calls'[d] = calls[d]
    BY <1>3, <2>2, AddFailsIs
  <2>3. a = 1 /\ NothingYet /\ \A d \in Call : d # c => ~Touches(d)
    BY <1>0, <2>1
  <2>4. \A d \in Call : d # c => calls[d].at # "fetching" /\ calls'[d] = calls[d]
    <3>1. \A d \in Call : calls[d].at = "fetching" => Touches(d)
      BY KindOfCall DEF TypeInv, Touches
    <3> QED BY <2>2, <2>3, <3>1
  <2>5. \A d \in Call : ~Touches(d)' /\ calls'[d].at # "fetching"
    BY <2>1, <2>3, <2>4, IdleIs DEF Touches
  <2> QED BY <1>b, <2>1, <2>3, <2>5 DEF Touches, NothingYet
<1>4. ASSUME NEW c \in Call, AddLands(c) PROVE OneAddInv'
  <2> DEFINE t == calls[c].torrent
  <2>1. /\ calls[c].at = "fetching" /\ calls'[c].at = "snapshot" /\ calls'[c].op = "add"
        /\ torrents' = torrents \cup {t} /\ client' = client
        /\ \A d \in Call : d # c => calls'[d] = calls[d]
        /\ a1 = a /\ o1 = o
    BY <1>4, AddLandsIs DEF SpentSame
  <2>2. /\ a = 1 /\ ~calls[c].dropped /\ torrents \subseteq client
        /\ \A d \in Call : d # c => ~Touches(d)
    BY <1>0, <2>1
  <2>3. t \in client
    BY <2>1, <2>2 DEF WaitsOnObject
  <2>4. \A d \in Call : d # c => ~Touches(d)' /\ calls'[d].at # "fetching"
    <3>1. \A d \in Call : calls[d].at = "fetching" => Touches(d)
      BY KindOfCall DEF TypeInv, Touches
    <3> QED BY <2>1, <2>2, <3>1 DEF Touches
  <2>5. \A d \in Call : Fetches(d)' /\ Removes(d)' /\ Streams(d)'
    BY <2>1, <2>4 DEF Touches
  <2> QED BY <1>b, <2>1, <2>2, <2>3, <2>5
<1>5. ASSUME NEW c \in Call, TakeSnapshot(c) PROVE OneAddInv'
  <2>1. /\ calls[c].at = "snapshot" /\ calls'[c].at = "owners" /\ calls'[c].op = calls[c].op
        /\ calls'[c].snapshot.registry = torrents /\ UNCHANGED <<torrents, client, disk, spent>>
        /\ \A d \in Call : d # c => calls'[d] = calls[d]
        /\ RequestOK(calls[c]) => calls'[c].torrent = calls[c].torrent
    BY <1>5, TakeSnapshotIs DEF serviceVars
  <2>2. NothingYet => NothingYet'
    <3> SUFFICES ASSUME NothingYet, NEW d \in Call, Writes(d)'
                 PROVE  calls'[d].snapshot.registry = {}
      BY <2>1 DEF NothingYet
    <3>1. CASE d = c
      BY <2>1, <3>1 DEF NothingYet
    <3>2. CASE d # c
      BY <2>1, <3>2 DEF NothingYet, Writes
    <3> QED BY <3>1, <3>2
  <2>3. Touches(c)' => Touches(c)
    BY <2>1 DEF Touches
  <2>4. Removes(c)'
    <3>1. calls[c].op = "remove" => RequestOK(calls[c])
      BY KindOfCall DEF TypeInv
    <3> QED BY <1>0, <2>1, <3>1
  <2> QED BY <1>c, <2>1, <2>2, <2>3, <2>4
<1>6. ASSUME NEW c \in Call, WriteOwners(c) PROVE OneAddInv'
  <2>1. /\ calls[c].at = "owners" /\ UNCHANGED <<torrents, client>>
        /\ \A d \in Call : d # c => calls'[d] = calls[d]
        /\ a1 = a /\ o1 = o
        /\ disk' = [disk EXCEPT !.owners = calls[c].snapshot.owners] \/ disk' = disk
        /\ \/ /\ calls'[c].at = "registry" /\ calls'[c].op = calls[c].op
              /\ calls'[c].snapshot = calls[c].snapshot
              /\ RequestOK(calls[c]) => calls'[c].torrent = calls[c].torrent
           \/ Answered(c)
    BY <1>6, WriteOwnersIs DEF serviceVars, SpentSame
  <2>2. disk'.registry = disk.registry
    BY <2>1 DEF TypeInv, ServiceTypeOK, Saved
  <2>3. Writes(c)' => Writes(c) /\ calls'[c].snapshot = calls[c].snapshot
    BY <2>1 DEF Writes, Answered
  <2>4. NothingYet => NothingYet'
    BY <2>1, <2>2, <2>3 DEF NothingYet, Writes
  <2>5. /\ calls'[c].at \notin {"fetching", "streaming"}
        /\ calls'[c].op = "remove" => calls[c].op = "remove"
                                      /\ calls'[c].torrent = calls[c].torrent
        /\ calls'[c].op = "add" => calls[c].op = "add"
    <3>1. calls[c].op = "remove" => RequestOK(calls[c])
      BY KindOfCall DEF TypeInv
    <3> QED BY <2>1, <3>1 DEF Answered
  <2>6. Touches(c)' => Touches(c)
    BY <2>5 DEF Touches
  <2>7. Removes(c)' /\ Streams(c)'
    BY <1>0, <2>1, <2>5
  <2> QED BY <1>c, <2>1, <2>4, <2>5, <2>6, <2>7
<1>7. ASSUME NEW c \in Call, WriteRegistry(c) PROVE OneAddInv'
  <2>1. /\ calls[c].at = "registry" /\ Answered(c) /\ a1 = a /\ o1 = o
        /\ \/ disk' = [disk EXCEPT !.registry = calls[c].snapshot.registry,
                                   !.sources = calls[c].snapshot.sources]
           \/ disk' = disk
    BY <1>7, WriteRegistryIs
  <2>2. disk'.registry = disk.registry \/ disk'.registry = calls[c].snapshot.registry
    BY <2>1 DEF TypeInv, ServiceTypeOK, Saved
  <2>3. /\ UNCHANGED <<torrents, client>> /\ ~Writes(c)'
        /\ \A d \in Call : d # c => calls'[d] = calls[d]
        /\ calls'[c].at \notin {"fetching", "streaming"} /\ calls'[c].op # "add"
        /\ calls'[c].op = "remove" => calls[c].op = "remove"
                                      /\ calls'[c].torrent = calls[c].torrent
    BY <2>1 DEF Answered, Writes, serviceVars
  <2>4. NothingYet => NothingYet'
    BY <2>1, <2>2, <2>3 DEF NothingYet, Writes
  <2>5. Touches(c)' => Touches(c)
    BY <2>3 DEF Touches
  <2>6. Removes(c)' /\ Streams(c)'
    BY <1>0, <2>1, <2>3
  <2> QED BY <1>c, <2>1, <2>3, <2>4, <2>5, <2>6
<1>8. ASSUME NEW c \in Call, NEW u \in User, NEW t \in Torrent, RemoveBegins(c, u, t)
      PROVE  OneAddInv'
  <2>1. /\ t \in torrents /\ torrents' = torrents \ {t} /\ UNCHANGED <<client, disk>>
        /\ calls'[c].at = "snapshot" /\ calls'[c].op = "remove" /\ calls'[c].torrent = t
        /\ \A d \in Call : d # c => calls'[d] = calls[d]
        /\ a1 = a /\ o1 = o
    BY <1>8, RemoveBeginsIs
  <2>2. ~NothingYet
    BY <2>1 DEF NothingYet
  <2> QED BY <1>c, <2>1, <2>2
<1>9. ASSUME NEW c \in Call, RemoveDrops(c) PROVE OneAddInv'
  <2> DEFINE t == calls[c].torrent
  <2>1. /\ calls[c].op = "remove" /\ calls'[c] = Idle /\ client' = client \ {t}
        /\ UNCHANGED <<torrents, disk>> /\ a1 = a
        /\ \/ At("streaming") = {} /\ o1 = o
           \/ o1 = o + 1
        /\ \A d \in Call : d # c => /\ calls'[d].at = calls[d].at
                                    /\ calls[d].at # "fetching" => calls'[d] = calls[d]
    BY <1>9, RemoveDropsIs DEF serviceVars
  <2>2. At("streaming") = {} /\ o = 0
    <3> HIDE DEF o, o1
    <3> QED BY <1>a, <2>1
  <2>3. /\ torrents \subseteq client /\ t \notin torrents /\ a # 0
        /\ \A d \in Call : calls[d].at # "fetching"
    <3>1. Touches(c)
      BY <2>1 DEF Touches
    <3>2. \A d \in Call : calls[d].at = "fetching" => d # c
      BY <2>1, KindOfCall DEF TypeInv
    <3> QED BY <1>0, <2>1, <2>2, <3>1, <3>2
  <2>4. \A d \in Call : d # c => calls'[d] = calls[d]
    BY <2>1, <2>3
  <2>5. \A d \in Call : calls'[d].at # "streaming" /\ calls'[d].at # "fetching"
    BY <2>1, <2>2, <2>3, <2>4, IdleIs DEF At
  <2>6. \A d \in Call : Removes(d)'
    BY <1>0, <2>1, <2>2, <2>4, IdleIs
  <2> QED BY <1>b, <2>1, <2>3, <2>5, <2>6
<1>10. ASSUME NEW c \in Call,
              \/ SelectFile(c) \/ ServeFile(c) \/ StreamEnds(c)
              \/ \E u \in User, t \in Torrent, op \in {"select", "stream"} :
                    ReadBegins(c, op, u, t)
       PROVE  OneAddInv'
  <2>1. /\ calls'[c].at \in {"idle", "allowed", "streaming"}
        /\ calls'[c].op \notin {"add", "remove"}
        /\ calls'[c].at = "streaming" => calls'[c].torrent \in torrents
        /\ \A d \in Call : d # c => calls'[d] = calls[d]
        /\ UNCHANGED <<torrents, client, disk>> /\ a1 = a /\ o1 = o
    BY <1>10, ReadsAre DEF SpentSame
  <2>2. NothingYet => NothingYet'
    BY <2>1 DEF NothingYet, Writes
  <2>3. NothingYet => ~Touches(c)'
    BY <2>1 DEF NothingYet, Touches
  <2>4. Removes(c)' /\ Streams(c)'
    BY <1>0, <2>1
  <2> QED BY <1>c, <2>1, <2>2, <2>3, <2>4
<1>11. ASSUME NEW c \in Call, Close(c) PROVE OneAddInv'
  <2>1. /\ calls'[c].at = "snapshot" /\ calls'[c].op = "close"
        /\ \A d \in Call : d # c => calls'[d] = calls[d]
        /\ UNCHANGED <<torrents, client, disk>> /\ a1 = a /\ o1 = o
    BY <1>11, CloseIs DEF serviceVars
  <2>2. NothingYet => NothingYet'
    BY <2>1 DEF NothingYet, Writes
  <2>3. ~Touches(c)'
    BY <2>1 DEF Touches
  <2> QED BY <1>c, <2>1, <2>2, <2>3
<1>12. CASE Crash \/ (\E c \in Call : Exit(c)) \/ Boot
  <2>1. /\ \A d \in Call : calls'[d] = Idle
        /\ client' = torrents' /\ (torrents' = {} \/ torrents' \subseteq disk.registry)
        /\ disk' = disk /\ a1 = a /\ o1 = o
    BY <1>12, HaltIs, BootIs
  <2>2. \A d \in Call : /\ ~Touches(d)' /\ ~Writes(d)' /\ calls'[d].at = "idle"
                        /\ calls'[d].op = "none"
    BY <2>1, IdleIs DEF Touches, Writes
  <2>3. a1 = 0 => NothingYet'
    BY <1>0, <2>1, <2>2 DEF NothingYet
  <2> QED BY <1>b, <2>1, <2>2, <2>3
<1> QED BY <1>1, <1>2, <1>3, <1>4, <1>5, <1>6, <1>7, <1>8, <1>9, <1>10, <1>11, <1>12 DEF Next

LEMMA StreamsInit == Init => WaitsOnObject /\ OneAddInv
BY IdleIs DEF Init, WaitsOnObject, OneAddInv, NothingYet, Touches, Nothing, Writes

\* As long as one torrent is added once and no removal gives up waiting, whatever is
\* streamed is there: nobody drops a torrent under a stream.
THEOREM StreamsAreServed == Spec => []StreamOfOneAddIsServed
<1> DEFINE I == TypeInv /\ WaitsOnObject /\ OneAddInv
<1>1. Init => I
  BY InitTypes, StreamsInit
<1>2. I /\ [Next]_vars => I'
  BY StepIs, WaitsHold, OneAddHolds
<1>3. I => StreamOfOneAddIsServed
  BY DEF OneAddInv, StreamOfOneAddIsServed, StreamIsServed, At
<1> QED BY <1>1, <1>2, <1>3, PTL DEF Spec
=============================================================================
