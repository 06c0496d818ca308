--------------------------- MODULE GatewayProofs ---------------------------
(***************************************************************************)
(* Type correctness of the gateway's backend, that no row contradicts      *)
(* itself, and that the cache shows samples of the gateway, for any        *)
(* torrents, readers, streams and restarts.                                *)
(***************************************************************************)
EXTENDS Gateway, TLAPS

Rows == [at : {"idle", "peers", "progress", "complete", "some", "done"}, setback : BOOLEAN,
         torrent : Torrents \cup {"none"}, progress : Int,
         status : {"none", "seeding", "downloading", "loading"}]

\* What the gateway has or says of a torrent: its bytes, or nothing.
Looks == {look \in [Torrents -> Int] : \A t \in Torrents : look[t] >= Unknown}

TypeOK == /\ gateway \in Looks /\ cache \in Looks
          /\ answer \in Looks \cup {NoAnswer}
          /\ handles \in SUBSET Torrents
          /\ lock \in Readers \cup {Free}
          /\ reader \in [Readers -> Rows]

\* Whoever holds the lock has something to ask.
HolderAsks == \A r \in Readers : lock = r => Asks(r)

\* A row that is past its first look shows no more than a look has, and once
\* it is not complete it shows less than the whole.
Fits(row, look) ==
    LET t == row.torrent
    IN  /\ row.at \in {"peers", "progress"} => row.progress = 0
        /\ row.at = "complete" /\ ~row.setback => row.progress <= Completed(look, t)
        /\ row.at = "some" /\ ~row.setback =>
              /\ row.progress <= Completed(look, t)
              /\ row.progress > 0 => row.progress < Total[t]
        /\ row.at = "done" /\ ~row.setback =>
              /\ row.progress = Total[t] /\ row.progress > 0 => row.status = "seeding"
              /\ row.progress > 0 => row.status # "loading"

RowOK(r) == /\ reader[r].at # "idle" => reader[r].torrent \in Torrents
            /\ Fits(reader[r], cache)

RowsOK == \A r \in Readers : RowOK(r)

Inv == TypeOK /\ HolderAsks /\ RowsOK

-----------------------------------------------------------------------------
(* Looks and rows.                                                         *)

LEMMA EmptyIsLook == EmptyCache \in Looks
BY DEF EmptyCache, Looks, Unknown

\* Looks are compared as numbers, and each is no less than itself.
LEMMA LooksCompare ==
    ASSUME NEW look \in Looks, NEW other \in Looks
    PROVE  \A t \in Torrents : look[t] >= look[t] /\ (look[t] < other[t] \/ look[t] >= other[t])
<1> TAKE t \in Torrents
<1>1. look[t] \in Int /\ other[t] \in Int
  BY DEF Looks
<1>2. \A m, n \in Int : m >= m /\ (m < n \/ m >= n)
  OBVIOUS
<1>3. QED
  BY <1>1, <1>2

\* A torrent that comes to be known, or more of it, is still a look.
LEMMA LookChanged ==
    ASSUME NEW look \in Looks, NEW t \in Torrents, NEW n \in Int, n >= Unknown
    PROVE  [look EXCEPT ![t] = n] \in Looks
BY DEF Looks, Unknown

\* What a look says is completed is a number, and more in a later look.
LEMMA CompletedIs ==
    ASSUME NEW look \in Looks, NEW t \in Torrents
    PROVE  /\ Completed(look, t) \in Nat
           /\ \A later \in Looks : later[t] >= look[t] => Completed(later, t) >= Completed(look, t)
BY DEF Completed, Looks, Unknown

\* One step of a row that fits the cache, taken with a look that is not
\* behind the cache: the row then fits that look.
LEMMA RenderedIs ==
    ASSUME TypeOK, NEW row \in Rows, row.torrent \in Torrents, Fits(row, cache),
           row.at \in {"peers", "progress", "complete", "some"}, NEW look \in Looks,
           ~row.setback => \A t \in Torrents : look[t] >= cache[t]
    PROVE  LET next == Rendered(row, look)
           IN  /\ next \in Rows /\ Fits(next, look)
               /\ next.torrent \in Torrents /\ next.at # "idle"
<1> DEFINE t == row.torrent
           bytes == Completed(look, t)
           next == Rendered(row, look)
<1>1. row \in Rows /\ t \in Torrents /\ Fits(row, cache)
  OBVIOUS
<1>2. bytes \in Nat /\ Completed(cache, t) \in Nat
  BY <1>1, CompletedIs DEF TypeOK
<1>3. ~row.setback => bytes >= Completed(cache, t)
  BY <1>1, CompletedIs DEF TypeOK
<1>4. Total[t] \in Nat /\ row.progress \in Int
  BY <1>1, GatewayAssumption DEF Rows
<1>5. CASE row.at = "peers"
  <2>1. row.progress = 0
    BY <1>1, <1>5 DEF Fits
  <2>2. next = [row EXCEPT !.at = IF Total[t] = 0 THEN "some" ELSE "progress"]
    BY <1>5 DEF Rendered
  <2>3. next \in Rows /\ next.at \in {"some", "progress"} /\ next.torrent = t
        /\ next.progress = 0 /\ next.setback = row.setback
    BY <1>1, <2>1, <2>2 DEF Rows
  <2>4. QED
    BY <1>1, <1>2, <2>3 DEF Fits
<1>6. CASE row.at = "progress"
  <2>1. next = [row EXCEPT !.at = "complete", !.progress = bytes]
    BY <1>6 DEF Rendered
  <2>2. next \in Rows /\ next.at = "complete" /\ next.torrent = t
        /\ next.progress = bytes /\ next.setback = row.setback
    <3>1. bytes \in Int
      BY <1>2
    <3>2. row \in Rows
      BY <1>1
    <3>3. QED
      <4> HIDE DEF bytes, next
      <4>1. [row EXCEPT !.at = "complete", !.progress = bytes] \in Rows
        BY <3>1, <3>2 DEF Rows
      <4>2. QED
        BY <2>1, <3>2, <4>1 DEF Rows, t
  <2>3. QED
    BY <1>1, <1>2, <2>2 DEF Fits
<1>7. CASE row.at = "complete"
  <2>1. ~row.setback => row.progress <= bytes
    BY <1>1, <1>2, <1>3, <1>4, <1>7 DEF Fits
  <2>2. CASE bytes >= Total[t]
    <3>1. next = [row EXCEPT !.at = "done", !.status = "seeding"]
      BY <1>7, <2>2 DEF Rendered
    <3>2. next \in Rows /\ next.at = "done" /\ next.torrent = t
          /\ next.status = "seeding" /\ next.setback = row.setback
      BY <1>1, <3>1 DEF Rows
    <3>3. QED
      BY <1>1, <3>2 DEF Fits
  <2>3. CASE ~(bytes >= Total[t])
    <3>1. next = [row EXCEPT !.at = "some"]
      BY <1>7, <2>3 DEF Rendered
    <3>2. next \in Rows /\ next.at = "some" /\ next.torrent = t
          /\ next.progress = row.progress /\ next.setback = row.setback
      BY <1>1, <3>1 DEF Rows
    <3>3. ~row.setback => row.progress < Total[t]
      BY <1>2, <1>4, <2>1, <2>3
    <3>4. QED
      BY <1>1, <2>1, <3>2, <3>3 DEF Fits
  <2>4. QED
    BY <2>2, <2>3
<1>8. CASE row.at = "some"
  <2>1. ~row.setback /\ row.progress > 0 => bytes > 0 /\ row.progress # Total[t]
    BY <1>1, <1>2, <1>3, <1>4, <1>8 DEF Fits
  <2>2. next = [row EXCEPT !.at = "done", !.status =
                   IF bytes > 0 THEN "downloading" ELSE "loading"]
    BY <1>8 DEF Rendered
  <2>3. next \in Rows /\ next.at = "done" /\ next.torrent = t
        /\ next.progress = row.progress /\ next.setback = row.setback
        /\ next.status = IF bytes > 0 THEN "downloading" ELSE "loading"
    BY <1>1, <2>2 DEF Rows
  <2>4. QED
    BY <1>1, <2>1, <2>3 DEF Fits
<1>9. QED
  BY <1>5, <1>6, <1>7, <1>8

\* A row that is marked for an answer that says less than the cache fits that
\* answer, and one that is not marked fits what says no less.
LEMMA MarkedIs ==
    ASSUME TypeOK, NEW row \in Rows, Fits(row, cache), row.at # "idle" => row.torrent \in Torrents,
           NEW look \in Looks, NEW mark \in BOOLEAN,
           row.at \in {"peers", "progress", "complete", "some"} /\ ~mark
               => \A t \in Torrents : look[t] >= cache[t]
    PROVE  LET next == [row EXCEPT !.setback = @ \/ mark]
           IN  /\ next \in Rows /\ Fits(next, look)
               /\ next.at = row.at /\ next.torrent = row.torrent
               /\ next.setback <=> row.setback \/ mark
<1> DEFINE next == [row EXCEPT !.setback = @ \/ mark]
           t == row.torrent
<1>1. row.setback \in BOOLEAN /\ row.progress \in Int
  BY DEF Rows
<1>2. next \in Rows /\ next.at = row.at /\ next.torrent = t
      /\ next.progress = row.progress /\ next.status = row.status
      /\ (next.setback <=> row.setback \/ mark)
  BY <1>1 DEF Rows
<1>3. row.at \in {"complete", "some"} /\ ~mark => Completed(look, t) >= Completed(cache, t)
  BY CompletedIs DEF TypeOK
<1>4. row.at \in {"complete", "some"} => Completed(look, t) \in Nat /\ Completed(cache, t) \in Nat
  BY CompletedIs DEF TypeOK
<1>5. Fits(next, look)
  <2> HIDE DEF next
  <2>1. CASE next.at \in {"complete", "some"}
    BY <1>1, <1>2, <1>3, <1>4, <2>1 DEF Fits
  <2>2. CASE next.at \notin {"complete", "some"}
    BY <1>2, <2>2 DEF Fits
  <2>3. QED
    BY <2>1, <2>2
<1>6. QED
  BY <1>2, <1>5

-----------------------------------------------------------------------------
(* Steps.                                                                  *)

LEMMA InitInv == Init => Inv
<1> SUFFICES ASSUME Init PROVE Inv
  OBVIOUS
<1>1. Idle \in Rows
  BY DEF Idle, Rows
<1>2. TypeOK
  BY <1>1, EmptyIsLook DEF Init, TypeOK, EmptyCache
<1>3. HolderAsks
  BY GatewayAssumption DEF Init, HolderAsks
<1>4. RowsOK
  BY DEF Init, RowsOK, RowOK, Fits, Idle
<1>5. QED
  BY <1>2, <1>3, <1>4 DEF Inv

\* What a step writes into one row, when that fits the cache.
LEMMA OneRow ==
    ASSUME Inv, NEW r \in Readers, NEW next \in Rows, Fits(next, cache),
           next.at # "idle" => next.torrent \in Torrents,
           reader' = [reader EXCEPT ![r] = next], cache' = cache
    PROVE  /\ reader' \in [Readers -> Rows] /\ RowsOK'
           /\ reader'[r] = next /\ \A x \in Readers \ {r} : reader'[x] = reader[x]
<1>1. /\ reader' \in [Readers -> Rows]
      /\ reader'[r] = next /\ \A x \in Readers \ {r} : reader'[x] = reader[x]
  BY DEF Inv, TypeOK
<1>2. ASSUME NEW x \in Readers PROVE RowOK(x)'
  <2>1. CASE x = r
    BY <1>1, <2>1 DEF RowOK, Fits, Completed
  <2>2. CASE x # r
    BY <1>1, <2>2 DEF Inv, RowsOK, RowOK, Fits, Completed
  <2>3. QED
    BY <2>1, <2>2
<1>3. QED
  BY <1>1, <1>2 DEF RowsOK

\* The gateway goes on, restarts or takes a torrent up.
LEMMA GatewayKeeps ==
    ASSUME Inv, gateway' \in Looks, handles' \in SUBSET Torrents,
           answer' \in Looks \cup {NoAnswer}, UNCHANGED <<cache, lock, reader>>
    PROVE  Inv'
<1>1. TypeOK'
  BY DEF Inv, TypeOK
<1>2. HolderAsks' /\ RowsOK'
  BY DEF Inv, HolderAsks, Asks, RowsOK, RowOK, Fits, Completed
<1>3. QED
  BY <1>1, <1>2 DEF Inv

LEMMA RestKeeps ==
    ASSUME Inv,
           \/ Restart \/ Answers \/ Expire \/ UNCHANGED vars
           \/ \E t \in Torrents : \/ Progress(t) \/ FetchInfo(t) \/ HandleFromInfo(t)
                                  \/ AddFails(t) \/ Drop(t)
           \/ \E s \in Streams : \/ Mirror(s) \/ StreamEnds(s)
                                 \/ \E t \in Torrents : OpenStream(s, t)
    PROVE  Inv'
<1>0. gateway \in Looks /\ handles \in SUBSET Torrents /\ answer \in Looks \cup {NoAnswer}
  BY DEF Inv, TypeOK
<1>1. ASSUME NEW t PROVE [gateway EXCEPT ![t] = IF @ = Unknown THEN 0 ELSE @] \in Looks
  <2> DEFINE n == IF gateway[t] = Unknown THEN 0 ELSE gateway[t]
  <2>1. CASE t \in Torrents
    <3>1. gateway[t] \in Int /\ gateway[t] >= Unknown
      BY <1>0, <2>1 DEF Looks
    <3>2. n \in Int /\ n >= Unknown
      BY <3>1 DEF Unknown
    <3>3. QED
      BY <1>0, <2>1, <3>2, LookChanged
  <2>2. CASE t \notin Torrents
    <3>1. DOMAIN gateway = Torrents
      BY <1>0 DEF Looks
    <3>2. [gateway EXCEPT ![t] = n] = gateway
      BY <2>2, <3>1, <1>0 DEF Looks
    <3>3. QED
      BY <1>0, <3>2
  <2>3. QED
    BY <2>1, <2>2
<1>2. CASE Restart
  BY <1>0, <1>2, EmptyIsLook, GatewayKeeps DEF Restart, EmptyCache
<1>3. CASE Answers
  BY <1>0, <1>3, GatewayKeeps DEF Answers
<1>4. CASE Expire \/ UNCHANGED vars
  BY <1>0, <1>4, GatewayKeeps DEF Expire, vars
<1>5. ASSUME NEW t \in Torrents, Progress(t) PROVE Inv'
  <2>1. gateway[t] \in Int /\ gateway[t] >= Unknown
    BY <1>0 DEF Looks
  <2>2. gateway' = [gateway EXCEPT ![t] = gateway[t] + 1]
    BY <1>5 DEF Progress
  <2>3. gateway[t] + 1 \in Int /\ gateway[t] + 1 >= Unknown
    BY <2>1 DEF Unknown
  <2>4. gateway' \in Looks
    BY <1>0, <2>2, <2>3, LookChanged
  <2>5. QED
    BY <1>0, <1>5, <2>4, GatewayKeeps DEF Progress
<1>6. ASSUME NEW t \in Torrents, FetchInfo(t) PROVE Inv'
  BY <1>0, <1>1, <1>6, GatewayKeeps DEF FetchInfo
<1>7. ASSUME NEW t \in Torrents, HandleFromInfo(t) \/ AddFails(t) \/ Drop(t) PROVE Inv'
  BY <1>0, <1>7, GatewayKeeps DEF HandleFromInfo, AddFails, Drop
<1>8. ASSUME NEW s \in Streams, Mirror(s) PROVE Inv'
  BY <1>0, <1>1, <1>8, GatewayKeeps DEF Mirror
<1>9. ASSUME NEW s \in Streams, StreamEnds(s) \/ \E t \in Torrents : OpenStream(s, t) PROVE Inv'
  BY <1>0, <1>9, GatewayKeeps DEF StreamEnds, OpenStream
<1>10. QED
  BY <1>2, <1>3, <1>4, <1>5, <1>6, <1>7, <1>8, <1>9

\* A row begins, or is delivered: it asks nothing before, or nothing after.
LEMMA RenderKeeps ==
    ASSUME Inv, NEW r \in Readers, NEW t \in Torrents, Render(r, t)
    PROVE  Inv'
<1> DEFINE next == [Idle EXCEPT !.at = "peers", !.torrent = t]
<1>1. next \in Rows /\ Fits(next, cache) /\ next.at = "peers" /\ next.torrent \in Torrents
  <2>1. Idle \in Rows /\ Idle.progress = 0
    BY DEF Idle, Rows
  <2>2. next \in Rows /\ next.at = "peers" /\ next.torrent = t /\ next.progress = 0
    BY <2>1 DEF Rows
  <2>3. QED
    BY <2>2 DEF Fits
<1>2. reader' = [reader EXCEPT ![r] = next] /\ cache' = cache
  BY DEF Render
<1> HIDE DEF next
<1>3. /\ reader' \in [Readers -> Rows] /\ RowsOK'
      /\ reader'[r] = next /\ \A x \in Readers \ {r} : reader'[x] = reader[x]
  BY <1>1, <1>2, OneRow
<1>4. HolderAsks'
  BY <1>1, <1>3 DEF Inv, HolderAsks, Asks, Render
<1>5. QED
  BY <1>3, <1>4 DEF Inv, TypeOK, Render

LEMMA DeliverKeeps ==
    ASSUME Inv, NEW r \in Readers, Deliver(r)
    PROVE  Inv'
<1>1. Idle \in Rows /\ Fits(Idle, cache) /\ Idle.at = "idle"
  BY DEF Idle, Rows, Fits
<1>2. /\ reader' \in [Readers -> Rows] /\ RowsOK'
      /\ reader'[r] = Idle /\ \A x \in Readers \ {r} : reader'[x] = reader[x]
  BY <1>1, OneRow DEF Deliver
<1>3. HolderAsks'
  BY <1>2 DEF Inv, HolderAsks, Asks, Deliver
<1>4. QED
  BY <1>2, <1>3 DEF Inv, TypeOK, Deliver

LEMMA AskKeeps ==
    ASSUME Inv, NEW r \in Readers, Ask(r)
    PROVE  Inv'
<1>1. TypeOK'
  BY DEF Inv, TypeOK, Ask
<1>2. HolderAsks' /\ RowsOK'
  BY DEF Inv, HolderAsks, Asks, RowsOK, RowOK, Fits, Completed, Ask
<1>3. QED
  BY <1>1, <1>2 DEF Inv

\* A row answered from the cache: on a hit, or when the request failed.
LEMMA FromCacheKeeps ==
    ASSUME Inv, NEW r \in Readers, Hit(r) \/ AskFails(r)
    PROVE  Inv'
<1> DEFINE next == Rendered(reader[r], cache)
<1>1. Asks(r)
  BY DEF Hit, AskFails, Inv, HolderAsks
<1>2. /\ reader[r] \in Rows /\ reader[r].torrent \in Torrents /\ Fits(reader[r], cache)
      /\ reader[r].at \in {"peers", "progress", "complete", "some"}
  BY <1>1 DEF Inv, TypeOK, RowsOK, RowOK, Asks
<1>3. cache \in Looks /\ \A t \in Torrents : cache[t] >= cache[t]
  BY LooksCompare DEF Inv, TypeOK
<1>4. next \in Rows /\ Fits(next, cache) /\ next.torrent \in Torrents
  BY <1>2, <1>3, RenderedIs DEF Inv
<1>5. reader' = [reader EXCEPT ![r] = next] /\ cache' = cache
  BY DEF Hit, AskFails
<1> HIDE DEF next
<1>6. reader' \in [Readers -> Rows] /\ RowsOK'
  BY <1>4, <1>5, OneRow
<1>7. lock' = Free /\ answer' \in Looks \cup {NoAnswer} /\ UNCHANGED <<gateway, handles>>
  BY DEF Hit, AskFails, Inv, TypeOK
<1>8. HolderAsks'
  BY <1>7, GatewayAssumption DEF HolderAsks
<1>9. QED
  BY <1>5, <1>6, <1>7, <1>8 DEF Inv, TypeOK

\* An answer replaces the cache under the rows that are half rendered.
LEMMA StoreKeeps ==
    ASSUME Inv, NEW r \in Readers, Store(r)
    PROVE  Inv'
<1> DEFINE setback == \E t \in Torrents : answer[t] < cache[t]
           Marked(x) == [reader[x] EXCEPT !.setback = @ \/ (setback /\ Asks(x))]
<1>1. answer \in Looks /\ cache \in Looks /\ Asks(r)
  BY DEF Store, Inv, TypeOK, HolderAsks
<1>2. /\ cache' = answer /\ lock' = Free /\ answer' = NoAnswer
      /\ UNCHANGED <<gateway, handles>>
      /\ reader' = [x \in Readers |-> IF x = r THEN Rendered(Marked(x), answer) ELSE Marked(x)]
  BY DEF Store
<1>3. ~setback => \A t \in Torrents : answer[t] >= cache[t]
  BY <1>1, LooksCompare
<1>4. ASSUME NEW x \in Readers
      PROVE  /\ Marked(x) \in Rows /\ Fits(Marked(x), answer) /\ Fits(Marked(x), cache)
             /\ Marked(x).at = reader[x].at /\ Marked(x).torrent = reader[x].torrent
             /\ Marked(x).setback <=> reader[x].setback \/ (setback /\ Asks(x))
  <2> DEFINE mark == setback /\ Asks(x)
  <2>1. /\ reader[x] \in Rows /\ Fits(reader[x], cache)
        /\ reader[x].at # "idle" => reader[x].torrent \in Torrents
    BY DEF Inv, TypeOK, RowsOK, RowOK
  <2>2. mark \in BOOLEAN
    BY DEF Asks
  <2>3. reader[x].at \in {"peers", "progress", "complete", "some"} /\ ~mark
            => \A t \in Torrents : answer[t] >= cache[t]
    BY <1>3 DEF Asks
  <2>4. \A t \in Torrents : cache[t] >= cache[t]
    BY <1>1, LooksCompare
  <2> HIDE DEF mark, setback
  <2>5. LET next == [reader[x] EXCEPT !.setback = @ \/ mark]
        IN  /\ next \in Rows /\ Fits(next, answer)
            /\ next.at = reader[x].at /\ next.torrent = reader[x].torrent
            /\ next.setback <=> reader[x].setback \/ mark
    BY <1>1, <2>1, <2>2, <2>3, MarkedIs DEF Inv
  <2>6. Fits([reader[x] EXCEPT !.setback = @ \/ mark], cache)
    BY <1>1, <2>1, <2>2, <2>4, MarkedIs DEF Inv
  <2>7. QED
    BY <2>5, <2>6 DEF mark
<1>5. /\ Rendered(Marked(r), answer) \in Rows /\ Fits(Rendered(Marked(r), answer), answer)
      /\ Rendered(Marked(r), answer).torrent \in Torrents
  <2>1. /\ Marked(r) \in Rows /\ Fits(Marked(r), cache) /\ Marked(r).torrent \in Torrents
        /\ Marked(r).at \in {"peers", "progress", "complete", "some"}
    BY <1>1, <1>4 DEF Asks, Inv, RowsOK, RowOK
  <2>2. ~Marked(r).setback => \A t \in Torrents : answer[t] >= cache[t]
    BY <1>1, <1>3, <1>4
  <2> HIDE DEF Marked
  <2>3. QED
    BY <1>1, <2>1, <2>2, RenderedIs DEF Inv
<1> HIDE DEF Marked
<1>6. ASSUME NEW x \in Readers PROVE reader'[x] \in Rows /\ RowOK(x)'
  <2>1. CASE x = r
    BY <1>2, <1>5, <2>1 DEF RowOK, Fits, Completed
  <2>2. CASE x # r
    <3>1. reader'[x] = Marked(x) /\ Fits(Marked(x), answer)
      BY <1>2, <1>4, <2>2
    <3>2. Marked(x).at # "idle" => Marked(x).torrent \in Torrents
      BY <1>4 DEF Inv, RowsOK, RowOK
    <3>3. QED
      BY <1>2, <1>4, <3>1, <3>2 DEF RowOK, Fits, Completed
  <2>3. QED
    BY <2>1, <2>2
<1>7. reader' \in [Readers -> Rows] /\ RowsOK'
  BY <1>2, <1>6 DEF RowsOK
<1>8. HolderAsks'
  BY <1>2, GatewayAssumption DEF HolderAsks
<1>9. QED
  BY <1>1, <1>2, <1>7, <1>8 DEF Inv, TypeOK

LEMMA NextKeeps == Inv /\ [Next]_vars => Inv'
<1> SUFFICES ASSUME Inv, [Next]_vars PROVE Inv'
  OBVIOUS
<1>1. ASSUME NEW r \in Readers, Row(r) PROVE Inv'
  BY <1>1, AskKeeps, FromCacheKeeps, StoreKeeps, DeliverKeeps DEF Row
<1>2. ASSUME NEW r \in Readers, NEW t \in Torrents, Render(r, t) PROVE Inv'
  BY <1>2, RenderKeeps
<1>3. QED
  BY <1>1, <1>2, RestKeeps DEF Next

-----------------------------------------------------------------------------
(* The theorems.                                                           *)

\* No row says "loading" beside a progress, nor shows all of a torrent without
\* saying that it is complete, unless an answer that says less was stored while it
\* was rendered: torrentToInfo asks the cache anew for each of its parts.
THEOREM RowsAgree == Spec => []RowAgrees
<1>1. Init => Inv
  BY InitInv
<1>2. Inv /\ [Next]_vars => Inv'
  BY NextKeeps
<1>3. Inv => RowAgrees
  BY DEF Inv, RowsOK, RowOK, Fits, RowAgrees
<1>4. QED
  BY <1>1, <1>2, <1>3, PTL DEF Spec

\* The cache of metricsFor implements the sampler: what is shown is one whole
\* answer of the gateway, the answers are shown in order, and what fails
\* changes nothing.
THEOREM CacheSamples == Spec => ProgressIsSampled
<1>1. Init => Sampled!Init
  BY DEF Init, Sampled!Init, EmptyCache
<1>2. [Next]_vars => [Sampled!Next]_<<gateway, answer, cache>>
  <2> SUFFICES ASSUME [Next]_vars PROVE [Sampled!Next]_<<gateway, answer, cache>>
    OBVIOUS
  <2> USE DEF Sampled!Next, Sampled!Change, Sampled!Look, Sampled!Show, Sampled!Lose
  <2>1. CASE Answers
    BY <2>1 DEF Answers
  <2>2. ASSUME NEW r \in Readers, Store(r) PROVE Sampled!Next
    BY <2>2 DEF Store
  <2>3. ASSUME NEW r \in Readers, AskFails(r) PROVE Sampled!Next
    BY <2>3 DEF AskFails
  <2>4. ASSUME NEW r \in Readers,
               Hit(r) \/ Ask(r) \/ Deliver(r) \/ \E t \in Torrents : Render(r, t)
        PROVE  Sampled!Next
    BY <2>4 DEF Hit, Ask, Deliver, Render
  <2>5. CASE Restart \/ Expire
    BY <2>5 DEF Restart, Expire
  <2>6. ASSUME NEW t \in Torrents,
               Progress(t) \/ FetchInfo(t) \/ HandleFromInfo(t) \/ AddFails(t) \/ Drop(t)
        PROVE  Sampled!Next
    BY <2>6 DEF Progress, FetchInfo, HandleFromInfo, AddFails, Drop
  <2>7. ASSUME NEW s \in Streams,
               Mirror(s) \/ StreamEnds(s) \/ \E t \in Torrents : OpenStream(s, t)
        PROVE  Sampled!Next
    BY <2>7 DEF Mirror, StreamEnds, OpenStream
  <2>8. CASE UNCHANGED vars
    BY <2>8 DEF vars
  <2>9. QED
    BY <2>1, <2>2, <2>3, <2>4, <2>5, <2>6, <2>7, <2>8 DEF Next, Row
<1>3. QED
  BY <1>1, <1>2, PTL DEF Spec, ProgressIsSampled, Sampled!Spec
=============================================================================
