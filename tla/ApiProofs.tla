------------------------------ MODULE ApiProofs ------------------------------
(***************************************************************************)
(* Proofs about Api: for any requests, addresses, clients, torrents and    *)
(* plans, any sizes of the buckets and any time until the cleanup that     *)
(* leaves an address time to get its tokens back, a bucket that is thrown  *)
(* away and made again never admits more than one that lives for ever.     *)
(***************************************************************************)
EXTENDS Api, SequenceTheorems, TLAPS

Stages == {"new", "look", "touch", "make", "allow", "handler", "read", "reread",
           "act", "done"}
Rows == [at: Stages, ask: Asks \cup {NoAsk}, bucket: Nat, since: Nat, status: Nat,
         got: Files \cup {Unchosen}]
Entries == [bucket: Nat, seen: Nat]

TypeOK ==
    /\ asks \in [Requests -> SUBSET Asks]
    /\ req \in [Requests -> Rows]
    /\ clock \in Nat
    /\ held \in [Tables -> [Owners -> Entries]]
    /\ buckets \in Seq([left: Nat, size: Nat])
    /\ due \in [Tables -> [Owners -> Int]]
    /\ selected \in [Torrents -> [Clients -> Files \cup {Unchosen}]]

\* A request with a bucket in its hand has the one of the table, however the
\* lookups and the cleanup interleaved, and got it a short while ago.
HoldsEntry(r) ==
    /\ req[r].bucket = Entry(r).bucket /\ Entry(r).bucket # 0
    /\ TableOf(r) \notin Shared =>
          req[r].since <= Entry(r).seen /\ clock <= req[r].since + MaxDelay

RequestOK(r) ==
    /\ req[r].at # "new" => req[r].ask \in Asks
    /\ req[r].at \in {"look", "touch", "make"} => TableOf(r) \in Tables \ Shared
    /\ req[r].at = "allow" => TableOf(r) \in Tables /\ HoldsEntry(r)

\* A bucket of the table has the tokens that are due; what is still due of one
\* that was not asked for lately grew with the time that has passed.
EntryOK(table, o) ==
    LET entry == held[table][o] IN
    /\ due[table][o] \in 0..Burst[table]
    /\ entry.seen <= clock
    /\ entry.bucket = 0 => due[table][o] = Burst[table]
    /\ entry.bucket # 0 =>
          /\ entry.bucket \in 1..Len(buckets)
          /\ buckets[entry.bucket].left = due[table][o]
          /\ buckets[entry.bucket].size = Burst[table]
    /\ table \notin Shared =>
          \/ due[table][o] = Burst[table]
          \/ due[table][o] + entry.seen + MaxDelay >= clock
    /\ table \in Shared /\ o = Everyone => entry.bucket = SharedBucket(table)

\* No bucket is in the table twice.
Unshared ==
    \A table, other \in Tables, o, p \in Owners :
        held[table][o].bucket = held[other][p].bucket /\ held[table][o].bucket # 0
            => table = other /\ o = p

\* What a client has selected it did select since the torrent came.
SelectionsOK ==
    \A t \in Torrents, c \in Clients :
        selected[t][c] # Unchosen =>
            [torrent |-> t, client |-> c, file |-> selected[t][c]] \in chosen

Inv ==
    /\ TypeOK
    /\ \A r \in Requests : RequestOK(r)
    /\ \A table \in Tables, o \in Owners : EntryOK(table, o)
    /\ Unshared
    /\ SelectionsOK

-----------------------------------------------------------------------------
\* The operators

LEMMA TablesOfRequests ==
    ASSUME NEW ask \in Asks
    PROVE  /\ Table(ask.route) \in Tables \cup {"none"}
           /\ ClientIP(ask) \in Addresses
BY DEF Asks, Routes, Table, Tables, Shared, ClientIP

LEMMA SharedIsNat == \A table : SharedBucket(table) \in Nat \ {0}
BY DEF SharedBucket

LEMMA OwnersOfRequests ==
    ASSUME NEW r \in Requests, req[r].ask \in Asks
    PROVE  /\ OwnerOf(r) \in Owners
           /\ TableOf(r) \in Shared <=> OwnerOf(r) = Everyone
BY TablesOfRequests, ApiAssumption DEF OwnerOf, TableOf, Owners

LEMMA InitInv == Init => Inv
<1> SUFFICES ASSUME Init PROVE Inv
  OBVIOUS
<1>1. PICK plan \in Plans :
        /\ asks = plan.asks
        /\ clock = plan.start
        /\ req = [r \in Requests |-> Unasked]
        /\ held = [table \in Tables |-> [o \in Owners |->
                     IF table \in Shared /\ o = Everyone
                     THEN [NoBucket EXCEPT !.bucket = SharedBucket(table)] ELSE NoBucket]]
        /\ buckets = <<Full("stream"), Full("metrics")>>
        /\ selected = [t \in Torrents |-> [c \in Clients |-> Unchosen]]
        /\ due = [table \in Tables |-> [o \in Owners |-> Burst[table]]]
  BY Zenon DEF Init
<1>2. clock \in Nat /\ asks \in [Requests -> SUBSET Asks]
  BY <1>1, ApiAssumption
<1>3. Unasked \in Rows /\ Unasked.at = "new"
  BY DEF Unasked, Rows, Stages
<1>4. ASSUME NEW table \in Tables, NEW o \in Owners
      PROVE  /\ held[table][o] \in Entries
             /\ held[table][o].seen = 0
             /\ held[table][o].bucket = IF table \in Shared /\ o = Everyone
                                       THEN SharedBucket(table) ELSE 0
  <2>1. SharedBucket(table) \in Nat
    BY DEF SharedBucket
  <2>2. held[table][o] = IF table \in Shared /\ o = Everyone
                         THEN [NoBucket EXCEPT !.bucket = SharedBucket(table)] ELSE NoBucket
    BY <1>1
  <2> QED BY <2>1, <2>2 DEF NoBucket, Entries
<1>5. \A table \in Tables : Burst[table] \in Nat \ {0}
  BY ApiAssumption
<1>6. /\ Len(buckets) = 2 /\ buckets \in Seq([left: Nat, size: Nat])
      /\ \A table \in Shared :
            /\ SharedBucket(table) \in 1..2 /\ table \in Tables
            /\ buckets[SharedBucket(table)].left = Burst[table]
            /\ buckets[SharedBucket(table)].size = Burst[table]
  BY <1>1, <1>5 DEF Full, Shared, SharedBucket, Tables
<1>7. TypeOK
  <2>1. held \in [Tables -> [Owners -> Entries]]
    BY <1>1, <1>4
  <2>2. req \in [Requests -> Rows]
    BY <1>1, <1>3
  <2>3. due \in [Tables -> [Owners -> Int]]
    BY <1>1, <1>5
  <2>4. selected \in [Torrents -> [Clients -> Files \cup {Unchosen}]]
    BY <1>1
  <2> QED BY <1>2, <1>6, <2>1, <2>2, <2>3, <2>4 DEF TypeOK
<1>8. \A r \in Requests : RequestOK(r)
  BY <1>1, <1>3 DEF RequestOK
<1>9. ASSUME NEW table \in Tables, NEW o \in Owners
      PROVE  EntryOK(table, o)
  <2>1. due[table][o] = Burst[table] /\ Burst[table] \in Nat
    BY <1>1, <1>5
  <2>2. held[table][o].seen = 0
    BY <1>4
  <2>3. CASE table \in Shared /\ o = Everyone
    <3>1. /\ held[table][o].bucket = SharedBucket(table)
          /\ SharedBucket(table) \in 1..Len(buckets)
          /\ buckets[SharedBucket(table)].left = Burst[table]
          /\ buckets[SharedBucket(table)].size = Burst[table]
      BY <1>4, <1>6, <2>3
    <3> QED BY <1>2, <2>1, <2>2, <2>3, <3>1 DEF EntryOK
  <2>4. CASE ~(table \in Shared /\ o = Everyone)
    BY <1>2, <1>4, <2>1, <2>2, <2>4 DEF EntryOK
  <2> QED BY <2>3, <2>4
<1>10. Unshared
  <2> SUFFICES ASSUME NEW table \in Tables, NEW other \in Tables,
                      NEW o \in Owners, NEW p \in Owners,
                      held[table][o].bucket = held[other][p].bucket,
                      held[table][o].bucket # 0
               PROVE  table = other /\ o = p
    BY DEF Unshared
  <2>1. table \in Shared /\ o = Everyone /\ other \in Shared /\ p = Everyone
    BY <1>4
  <2>2. SharedBucket(table) = SharedBucket(other)
    BY <1>4, <2>1
  <2> QED BY <2>1, <2>2 DEF Shared, SharedBucket
<1>11. SelectionsOK
  BY <1>1 DEF SelectionsOK
<1> QED BY <1>7, <1>8, <1>9, <1>10, <1>11 DEF Inv

-----------------------------------------------------------------------------
\* What steps have in common

\* A step on one request that leaves the buckets alone.
LEMMA OneRequestMoves ==
    ASSUME Inv, NEW r \in Requests, NEW row \in Rows,
           req' = [req EXCEPT ![r] = row], RequestOK(r)',
           UNCHANGED <<asks, bucketVars>>,
           (TypeOK => selected' \in [Torrents -> [Clients -> Files \cup {Unchosen}]]),
           SelectionsOK'
    PROVE  Inv'
<1>1. TypeOK'
  BY DEF Inv, TypeOK, bucketVars
<1>2. ASSUME NEW q \in Requests PROVE RequestOK(q)'
  <2>1. CASE q = r
    BY <2>1
  <2>2. CASE q # r
    <3>1. req'[q] = req[q]
      BY <2>2
    <3> QED BY <3>1 DEF Inv, RequestOK, HoldsEntry, TableOf, OwnerOf, Entry, bucketVars
  <2> QED BY <2>1, <2>2
<1>3. ASSUME NEW table \in Tables, NEW o \in Owners PROVE EntryOK(table, o)'
  BY DEF Inv, EntryOK, bucketVars
<1>4. Unshared'
  BY DEF Inv, Unshared, bucketVars
<1> QED BY <1>1, <1>2, <1>3, <1>4 DEF Inv

\* Nobody is refused for its budget and nobody is served.
Quiet == \A r \in Requests : /\ req'[r].got = req[r].got
                             /\ req'[r].status = 429 => req[r].status = 429

\* The request is past the limiter.
Passed == {"handler", "read", "reread", "act", "done"}

\* The row of a request that goes on, or was answered.
Moved(row, at, status) == [row EXCEPT !.at = at, !.status = status]

LEMMA PassedOn ==
    ASSUME Inv, NEW r \in Requests, NEW at \in Passed, NEW status \in Nat,
           req[r].at # "new", status # 429 \/ status = req[r].status,
           req' = [req EXCEPT ![r] = Moved(req[r], at, status)],
           UNCHANGED <<asks, bucketVars>>,
           (TypeOK => selected' \in [Torrents -> [Clients -> Files \cup {Unchosen}]]),
           SelectionsOK'
    PROVE  Inv' /\ Quiet
<1> DEFINE row == Moved(req[r], at, status)
<1>1. req[r] \in Rows /\ req[r].ask \in Asks
  BY DEF Inv, TypeOK, RequestOK
<1>2. /\ row \in Rows /\ row.ask = req[r].ask /\ row.at = at
      /\ row.got = req[r].got /\ row.status = status
  BY <1>1 DEF Rows, Passed, Stages, Moved
<1>3. req' = [req EXCEPT ![r] = row]
  OBVIOUS
<1> HIDE DEF row
<1>4. req'[r] = row
  BY <1>3 DEF Inv, TypeOK
<1>5. RequestOK(r)'
  BY <1>1, <1>2, <1>4 DEF RequestOK, Passed
<1>6. Inv'
  BY <1>2, <1>3, <1>5, OneRequestMoves
<1>7. Quiet
  <2>1. row.status # 429 \/ row.status = req[r].status
    BY <1>2
  <2>2. \A q \in Requests : q # r => req'[q] = req[q]
    BY <1>3 DEF Inv, TypeOK
  <2> QED BY <1>2, <1>4, <2>1, <2>2 DEF Quiet
<1> QED BY <1>6, <1>7

LEMMA AnswerIs ==
    ASSUME Inv, NEW r \in Requests, NEW status, Answer(r, status)
    PROVE  req' = [req EXCEPT ![r] = Moved(req[r], "done", status)]
BY DEF Inv, TypeOK, Rows, Answer, Moved

LEMMA ToIs ==
    ASSUME Inv, NEW r \in Requests, NEW at, To(r, at)
    PROVE  req' = [req EXCEPT ![r] = Moved(req[r], at, req[r].status)]
BY DEF Inv, TypeOK, Rows, To, Moved

LEMMA SelectionsStand ==
    ASSUME Inv, UNCHANGED <<selected, chosen>>
    PROVE  /\ TypeOK => selected' \in [Torrents -> [Clients -> Files \cup {Unchosen}]]
           /\ SelectionsOK'
BY DEF Inv, TypeOK, SelectionsOK

\* An answer other than the limiter's, and a request that goes on.
LEMMA AnsweredOn ==
    ASSUME Inv, NEW r \in Requests, req[r].at # "new", NEW status \in Nat, status # 429,
           Answer(r, status), UNCHANGED <<asks, bucketVars>>,
           (TypeOK => selected' \in [Torrents -> [Clients -> Files \cup {Unchosen}]]),
           SelectionsOK'
    PROVE  Inv' /\ Quiet
BY AnswerIs, PassedOn DEF Passed

LEMMA AnswerKeeps ==
    ASSUME Inv, NEW r \in Requests, req[r].at # "new", NEW status \in Nat, status # 429,
           Answer(r, status), UNCHANGED <<asks, bucketVars, selected, chosen>>
    PROVE  Inv' /\ Quiet
BY AnsweredOn, SelectionsStand

LEMMA ToKeeps ==
    ASSUME Inv, NEW r \in Requests, req[r].at # "new", NEW at \in Passed, To(r, at),
           UNCHANGED <<asks, bucketVars, selected, chosen>>
    PROVE  Inv' /\ Quiet
<1>1. req[r].status \in Nat
  BY DEF Inv, TypeOK, Rows
<1> QED BY <1>1, ToIs, PassedOn, SelectionsStand

-----------------------------------------------------------------------------
\* Beyond the limiter

LEMMA HandlerKeeps ==
    ASSUME Inv, NEW r \in Requests, Handler(r)
    PROVE  Inv' /\ Quiet
<1>1. req[r].at # "new" /\ UNCHANGED <<asks, bucketVars, selected, chosen>>
  BY DEF Handler, serviceVars
<1>2. Refusal(req[r].ask) \in {0, 400, 401}
  BY DEF Refusal, FirstOf, BadRequest, TokenMiddleware
<1>3. \/ Answer(r, Refusal(req[r].ask)) \/ To(r, "read") \/ To(r, "act")
  BY DEF Handler
<1> QED BY <1>1, <1>2, <1>3, AnswerKeeps, ToKeeps DEF Passed

LEMMA ReadKeeps ==
    ASSUME Inv, NEW r \in Requests, Read(r)
    PROVE  Inv' /\ Quiet
<1>1. req[r].at # "new" /\ UNCHANGED <<asks, bucketVars, selected, chosen>>
  BY DEF Read, serviceVars
<1>2. \/ Answer(r, 403) \/ Answer(r, 404) \/ To(r, "reread") \/ To(r, "act")
  BY DEF Read
<1> QED BY <1>1, <1>2, AnswerKeeps, ToKeeps DEF Passed

LEMMA RecoverKeeps ==
    ASSUME Inv, NEW r \in Requests, Recover(r)
    PROVE  Inv' /\ Quiet
BY AnswerKeeps DEF Recover, serviceVars

LEMMA ActReadsKeeps ==
    ASSUME Inv, NEW r \in Requests, req[r].at = "act", ActReads(r),
           req[r].ask.route \notin {"add", "remove", "select", "stream"},
           UNCHANGED <<asks, bucketVars>>
    PROVE  Inv' /\ Quiet
<1> DEFINE ask == req[r].ask
           status == CASE ask.route = "files"     -> GetFiles(ask)
                       [] ask.route = "magnet"    -> MagnetFor(ask)
                       [] ask.route = "subtitles" -> ServeSubtitles(ask)
                       [] ask.route = "info"      -> GetBufferInfo(ask)
                       [] ask.route = "position"  -> SetBufferPosition(ask)
                       [] ask.route \in {"list", "version", "metrics"} -> 200
<1>1. ask \in Asks
  BY DEF Inv, RequestOK
<1>2. ask.route \in {"files", "magnet", "subtitles", "info", "position", "list",
                    "version", "metrics"}
  BY <1>1 DEF Asks, Routes
<1>3. status \in {200, 400, 404}
  BY <1>2 DEF GetFiles, MagnetFor, ServeSubtitles, GetBufferInfo, SetBufferPosition
<1>4. Answer(r, status)
  BY DEF ActReads
<1>5. UNCHANGED <<selected, chosen>>
  BY DEF ActReads, serviceVars
<1> HIDE DEF status
<1> QED BY <1>3, <1>4, <1>5, AnswerKeeps

LEMMA AddKeeps ==
    ASSUME Inv, NEW r \in Requests, req[r].at = "act", Add(r), UNCHANGED <<asks, bucketVars>>
    PROVE  Inv' /\ Quiet
BY AnswerKeeps DEF Add

LEMMA RemoveKeeps ==
    ASSUME Inv, NEW r \in Requests, req[r].at = "act", Remove(r), UNCHANGED <<asks, bucketVars>>
    PROVE  Inv' /\ Quiet
<1> DEFINE gone == req[r].ask.torrent
<1>1. CASE UNCHANGED serviceVars /\ (Answer(r, 404) \/ Answer(r, 403))
  BY <1>1, AnswerKeeps DEF serviceVars
<1>2. CASE /\ Answer(r, 200)
           /\ selected' = [selected EXCEPT ![gone] = [c \in Clients |-> Unchosen]]
           /\ chosen' = {s \in chosen : s.torrent # gone}
  <2>1. TypeOK => selected' \in [Torrents -> [Clients -> Files \cup {Unchosen}]]
    BY <1>2 DEF TypeOK
  <2>2. ASSUME NEW t \in Torrents, NEW c \in Clients, selected'[t][c] # Unchosen
        PROVE  [torrent |-> t, client |-> c, file |-> selected'[t][c]] \in chosen'
    <3>1. t # gone /\ selected'[t][c] = selected[t][c]
      BY <1>2, <2>2 DEF Inv, TypeOK
    <3>2. [torrent |-> t, client |-> c, file |-> selected[t][c]] \in chosen
      BY <2>2, <3>1 DEF Inv, SelectionsOK
    <3> QED BY <1>2, <3>1, <3>2
  <2>3. SelectionsOK'
    BY <2>2 DEF SelectionsOK
  <2> QED BY <1>2, <2>1, <2>3, AnsweredOn
<1> QED BY <1>1, <1>2 DEF Remove

LEMMA SelectKeeps ==
    ASSUME Inv, NEW r \in Requests, req[r].at = "act", Select(r), UNCHANGED <<asks, bucketVars>>
    PROVE  Inv' /\ Quiet
<1> DEFINE ask == req[r].ask
           new == [torrent |-> ask.torrent, client |-> ask.client, file |-> ask.file]
<1>1. CASE UNCHANGED <<selected, chosen>> /\ (Answer(r, 404) \/ Answer(r, 400))
  BY <1>1, AnswerKeeps
<1>2. CASE /\ Answer(r, 200) /\ ask.file \in Files
           /\ selected' = [selected EXCEPT ![ask.torrent] =
                             SelectedBy(ask.torrent, ask.client, ask.file)]
           /\ chosen' = chosen \cup {new}
  <2>1. ask.torrent \in Torrents /\ ask.client \in Clients
    BY DEF Inv, RequestOK, Asks
  <2>2. TypeOK => selected' \in [Torrents -> [Clients -> Files \cup {Unchosen}]]
    BY <1>2, <2>1 DEF TypeOK, SelectedBy
  <2>3. ASSUME NEW t \in Torrents, NEW c \in Clients, selected'[t][c] # Unchosen
        PROVE  [torrent |-> t, client |-> c, file |-> selected'[t][c]] \in chosen'
    <3>1. CASE t = ask.torrent /\ c = ask.client
      BY <1>2, <2>1, <3>1 DEF Inv, TypeOK, SelectedBy
    <3>2. CASE ~(t = ask.torrent /\ c = ask.client)
      <4>1. selected'[t][c] = selected[t][c]
        BY <1>2, <2>1, <3>2 DEF Inv, TypeOK, SelectedBy
      <4> QED BY <1>2, <2>3, <4>1 DEF Inv, SelectionsOK
    <3> QED BY <3>1, <3>2
  <2>4. SelectionsOK'
    BY <2>3 DEF SelectionsOK
  <2> QED BY <1>2, <2>2, <2>4, AnsweredOn
<1> QED BY <1>1, <1>2 DEF Select

\* A stream is the only step that serves, and serves what its client chose.
Served ==
    \A r \in Requests :
        /\ req'[r].status = 429 => req[r].status = 429
        /\ req'[r].got # req[r].got =>
              [torrent |-> req[r].ask.torrent, client |-> req[r].ask.client,
               file |-> req'[r].got] \in chosen

\* The row of a request that Stream answered.
ServedRow(row, status, file) == [row EXCEPT !.at = "done", !.status = status, !.got = file]

LEMMA RowServed ==
    ASSUME NEW row \in Rows, NEW status \in Nat, NEW file \in Files \cup {Unchosen}
    PROVE  /\ ServedRow(row, status, file) \in Rows
           /\ ServedRow(row, status, file).ask = row.ask
           /\ ServedRow(row, status, file).at = "done"
           /\ ServedRow(row, status, file).got = file
           /\ ServedRow(row, status, file).status = status
BY DEF Rows, Stages, ServedRow

LEMMA SameFile ==
    ASSUME NEW row \in Rows, NEW status \in Nat
    PROVE  [row EXCEPT !.at = "done", !.status = status] = ServedRow(row, status, row.got)
BY DEF Rows, ServedRow

LEMMA StreamKeeps ==
    ASSUME Inv, NEW r \in Requests, req[r].at = "act", Stream(r), UNCHANGED <<asks, bucketVars>>
    PROVE  Inv' /\ Served
<1> DEFINE ask  == req[r].ask
           file == selected[ask.torrent][ask.client]
<1>1. req[r] \in Rows /\ ask \in Asks
  BY DEF Inv, TypeOK, RequestOK
<1>2. file \in Files \cup {Unchosen}
  BY <1>1 DEF Inv, TypeOK, Asks
<1>3. \E row \in Rows :
        /\ req' = [req EXCEPT ![r] = row]
        /\ row.ask = ask /\ row.at = "done" /\ row.status # 429
        /\ row.got # req[r].got => row.got = file /\ file # Unchosen
  <2>1. req[r].got \in Files \cup {Unchosen}
    BY <1>1 DEF Rows
  <2>2. CASE ask.torrent \notin present
    <3> DEFINE status == 404
    <3>2. status \in Nat /\ status # 429
      OBVIOUS
    <3> HIDE DEF status
    <3>1. [req[r] EXCEPT !.at = "done", !.status = status] = ServedRow(req[r], status, req[r].got)
      BY <1>1, <3>2, SameFile
    <3> DEFINE row == ServedRow(req[r], status, req[r].got)
    <3>3. row \in Rows /\ row.ask = ask /\ row.at = "done" /\ row.got = req[r].got
      BY <1>1, <2>1, <3>2, RowServed
    <3>4. row.status # 429
      BY <1>1, <2>1, <3>2, RowServed
    <3> HIDE DEF row
    <3>5. req' = [req EXCEPT ![r] = row]
      BY <2>2, <3>1 DEF Stream, row, status
    <3> QED BY <2>2, <3>3, <3>4, <3>5
  <2>3. CASE ask.torrent \in present /\ file = Unchosen
    <3> DEFINE status == 400
    <3>2. status \in Nat /\ status # 429
      OBVIOUS
    <3> HIDE DEF status
    <3>1. [req[r] EXCEPT !.at = "done", !.status = status] = ServedRow(req[r], status, req[r].got)
      BY <1>1, <3>2, SameFile
    <3> DEFINE row == ServedRow(req[r], status, req[r].got)
    <3>3. row \in Rows /\ row.ask = ask /\ row.at = "done" /\ row.got = req[r].got
      BY <1>1, <2>1, <3>2, RowServed
    <3>4. row.status # 429
      BY <1>1, <2>1, <3>2, RowServed
    <3> HIDE DEF row
    <3>5. req' = [req EXCEPT ![r] = row]
      BY <2>3, <3>1 DEF Stream, row, status
    <3> QED BY <2>3, <3>3, <3>4, <3>5
  <2>4. CASE ask.torrent \in present /\ file # Unchosen
    <3> DEFINE status == 200
    <3>1. [req[r] EXCEPT !.at = "done", !.status = 200, !.got = file] = ServedRow(req[r], status, file)
      BY <1>1 DEF ServedRow, Rows
    <3>2. status \in Nat /\ status # 429
      OBVIOUS
    <3> HIDE DEF status, file
    <3> DEFINE row == ServedRow(req[r], status, file)
    <3>3. row \in Rows /\ row.ask = ask /\ row.at = "done" /\ row.got = file
      BY <1>1, <1>2, <3>2, RowServed
    <3>4. row.status # 429
      BY <1>1, <1>2, <3>2, RowServed
    <3> HIDE DEF row
    <3>5. req' = [req EXCEPT ![r] = row]
      BY <2>4, <3>1 DEF Stream, row, file
    <3> QED BY <2>4, <3>3, <3>4, <3>5
  <2> QED BY <2>2, <2>3, <2>4
<1>4. PICK row \in Rows :
        /\ req' = [req EXCEPT ![r] = row]
        /\ row.ask = ask /\ row.at = "done" /\ row.status # 429
        /\ row.got # req[r].got => row.got = file /\ file # Unchosen
  BY <1>3
<1>5. req'[r] = row /\ \A q \in Requests : q # r => req'[q] = req[q]
  BY <1>4 DEF Inv, TypeOK
<1>6. RequestOK(r)'
  BY <1>1, <1>4, <1>5 DEF RequestOK
<1>7. UNCHANGED <<selected, chosen>>
  BY DEF Stream, serviceVars
<1>8. Inv'
  BY <1>4, <1>6, <1>7, OneRequestMoves, SelectionsStand
<1>9. Served
  <2> SUFFICES ASSUME NEW q \in Requests
               PROVE  /\ req'[q].status = 429 => req[q].status = 429
                      /\ req'[q].got # req[q].got =>
                           [torrent |-> req[q].ask.torrent, client |-> req[q].ask.client,
                            file |-> req'[q].got] \in chosen
    BY DEF Served
  <2>1. CASE q = r
    <3>1. file # Unchosen => [torrent |-> ask.torrent, client |-> ask.client,
                              file |-> file] \in chosen
      BY <1>1 DEF Inv, SelectionsOK, Asks
    <3> HIDE DEF ask, file
    <3> QED BY <1>4, <1>5, <2>1, <3>1 DEF ask
  <2>2. CASE q # r
    BY <1>5, <2>2
  <2> QED BY <2>1, <2>2
<1> QED BY <1>8, <1>9

LEMMA ActKeeps ==
    ASSUME Inv, NEW r \in Requests, Act(r)
    PROVE  Inv' /\ (Quiet \/ Served)
BY ActReadsKeeps, AddKeeps, RemoveKeeps, SelectKeeps, StreamKeeps DEF Act

-----------------------------------------------------------------------------
\* The limiter

\* The row of a request that does not get as far as its route.
AnsweredRow(row, ask, status) == [row EXCEPT !.ask = ask, !.at = "done", !.status = status]

LEMMA RowAnswered ==
    ASSUME NEW row \in Rows, NEW ask \in Asks, NEW status \in Nat
    PROVE  /\ AnsweredRow(row, ask, status) \in Rows
           /\ AnsweredRow(row, ask, status).ask = ask
           /\ AnsweredRow(row, ask, status).at = "done"
           /\ AnsweredRow(row, ask, status).got = row.got
           /\ AnsweredRow(row, ask, status).status = status
BY DEF Rows, Stages, AnsweredRow

\* A request was turned away, let through, or sent to the limiter.
LEMMA ArrivesAs ==
    ASSUME Inv, NEW r \in Requests, NEW row \in Rows, req' = [req EXCEPT ![r] = row],
           row.ask \in Asks, row.at \notin {"new", "touch", "make"}, row.got = req[r].got,
           row.status # 429 \/ row.status = req[r].status,
           row.at = "look" => Table(row.ask.route) \in Tables \ Shared,
           row.at = "allow" => /\ Table(row.ask.route) \in Shared
                               /\ row.bucket = SharedBucket(Table(row.ask.route)),
           UNCHANGED <<asks, bucketVars, serviceVars>>
    PROVE  Inv' /\ Quiet
<1> DEFINE table == Table(row.ask.route)
<1>1. req'[r] = row /\ \A q \in Requests : q # r => req'[q] = req[q]
  BY DEF Inv, TypeOK
<1>2. RequestOK(r)'
  <2>1. TableOf(r)' = table
    BY <1>1 DEF TableOf
  <2>2. ASSUME row.at = "allow" PROVE TableOf(r)' \in Tables /\ HoldsEntry(r)'
    <3>1. table \in Shared /\ table \in Tables
      BY <2>2 DEF Shared, Tables
    <3>2. OwnerOf(r)' = Everyone
      BY <2>1, <3>1 DEF OwnerOf
    <3>3. held[table][Everyone].bucket = SharedBucket(table)
      BY <3>1 DEF Inv, EntryOK, Owners
    <3>4. row.bucket = SharedBucket(table) /\ SharedBucket(table) # 0
      BY <2>2 DEF SharedBucket
    <3> HIDE DEF table
    <3>5. Entry(r)'.bucket = row.bucket
      BY <2>1, <3>2, <3>3, <3>4 DEF Entry, bucketVars
    <3> QED BY <1>1, <2>1, <3>1, <3>4, <3>5 DEF HoldsEntry
  <2> QED BY <1>1, <2>1, <2>2 DEF RequestOK
<1>3. Inv'
  BY <1>2, OneRequestMoves, SelectionsStand DEF serviceVars
<1>4. Quiet
  BY <1>1 DEF Quiet
<1> QED BY <1>3, <1>4

LEMMA ArriveKeeps ==
    ASSUME Inv, NEW r \in Requests, Arrive(r)
    PROVE  Inv' /\ Quiet
<1>1. PICK ask \in asks[r] :
        req' = [req EXCEPT ![r] =
                    CASE ask.method = "OPTIONS" ->
                             [@ EXCEPT !.ask = ask, !.at = "done", !.status = 200]
                      [] WrongContentType(ask) ->
                             [@ EXCEPT !.ask = ask, !.at = "done", !.status = 415]
                      [] OTHER ->
                             [@ EXCEPT !.ask = ask,
                                       !.at = CASE Table(ask.route) = "none"    -> "handler"
                                                [] Table(ask.route) \in Shared  -> "allow"
                                                [] OTHER                        -> "look",
                                       !.bucket = IF Table(ask.route) \in Shared
                                                  THEN SharedBucket(Table(ask.route)) ELSE 0]]
  BY DEF Arrive
<1>2. req[r] \in Rows /\ ask \in Asks
  BY DEF Inv, TypeOK
<1>3. Table(ask.route) \in Tables \cup {"none"} /\ "none" \notin Shared
  BY <1>2, TablesOfRequests DEF Shared
<1>4. UNCHANGED <<asks, bucketVars, serviceVars>>
  BY DEF Arrive
<1>5. CASE ask.method = "OPTIONS"
  <2> DEFINE row == AnsweredRow(req[r], ask, 200)
  <2>1. req' = [req EXCEPT ![r] = row]
    BY <1>1, <1>5 DEF WrongContentType, AnsweredRow
  <2>2. 200 \in Nat /\ 200 # 429
    OBVIOUS
  <2>3. row \in Rows /\ row.ask = ask /\ row.at = "done" /\ row.got = req[r].got
    BY <1>2, <2>2, RowAnswered
  <2>4. row.status # 429
    <3>1. row.status = 200
      BY <1>2, <2>2, RowAnswered
    <3> QED BY <2>2, <3>1
  <2> HIDE DEF row
  <2> QED BY <1>2, <1>4, <2>1, <2>3, <2>4, ArrivesAs
<1>6. CASE ask.method # "OPTIONS" /\ WrongContentType(ask)
  <2> DEFINE row == AnsweredRow(req[r], ask, 415)
  <2>1. req' = [req EXCEPT ![r] = row]
    BY <1>1, <1>6 DEF AnsweredRow
  <2>2. 415 \in Nat /\ 415 # 429
    OBVIOUS
  <2>3. row \in Rows /\ row.ask = ask /\ row.at = "done" /\ row.got = req[r].got
    BY <1>2, <2>2, RowAnswered
  <2>4. row.status # 429
    <3>1. row.status = 415
      BY <1>2, <2>2, RowAnswered
    <3> QED BY <2>2, <3>1
  <2> HIDE DEF row
  <2> QED BY <1>2, <1>4, <2>1, <2>3, <2>4, ArrivesAs
<1>7. CASE /\ ask.method # "OPTIONS" /\ ~WrongContentType(ask)
           /\ Table(ask.route) = "none"
  <2> DEFINE row == [req[r] EXCEPT !.ask = ask, !.at = "handler", !.bucket = 0]
  <2>1. req' = [req EXCEPT ![r] = row]
    BY <1>1, <1>3, <1>7 DEF Tables
  <2>2. /\ row \in Rows /\ row.ask = ask /\ row.at = "handler" /\ row.got = req[r].got
        /\ row.status # 429 \/ row.status = req[r].status
    BY <1>2 DEF Rows, Stages
  <2> HIDE DEF row
  <2> QED BY <1>2, <1>3, <1>4, <1>7, <2>1, <2>2, ArrivesAs
<1>8. CASE /\ ask.method # "OPTIONS" /\ ~WrongContentType(ask)
           /\ Table(ask.route) \in Shared
  <2> DEFINE row == [req[r] EXCEPT !.ask = ask, !.at = "allow",
                                   !.bucket = SharedBucket(Table(ask.route))]
  <2>1. req' = [req EXCEPT ![r] = row]
    BY <1>1, <1>3, <1>8 DEF Tables
  <2>2. /\ row \in Rows /\ row.ask = ask /\ row.at = "allow" /\ row.got = req[r].got
        /\ row.status # 429 \/ row.status = req[r].status
        /\ row.bucket = SharedBucket(Table(ask.route))
    BY <1>2, SharedIsNat DEF Rows, Stages
  <2> HIDE DEF row
  <2> QED BY <1>2, <1>3, <1>4, <1>8, <2>1, <2>2, ArrivesAs
<1>9. CASE /\ ask.method # "OPTIONS" /\ ~WrongContentType(ask)
           /\ Table(ask.route) \in Tables \ Shared
  <2> DEFINE row == [req[r] EXCEPT !.ask = ask, !.at = "look", !.bucket = 0]
  <2>1. req' = [req EXCEPT ![r] = row]
    BY <1>1, <1>3, <1>9 DEF Tables
  <2>2. /\ row \in Rows /\ row.ask = ask /\ row.at = "look" /\ row.got = req[r].got
        /\ row.status # 429 \/ row.status = req[r].status
    BY <1>2 DEF Rows, Stages
  <2> HIDE DEF row
  <2> QED BY <1>2, <1>3, <1>4, <1>9, <2>1, <2>2, ArrivesAs
<1> QED BY <1>3, <1>5, <1>6, <1>7, <1>8, <1>9

LEMMA LookKeeps ==
    ASSUME Inv, NEW r \in Requests, Look(r)
    PROVE  Inv' /\ Quiet
<1> DEFINE row == [req[r] EXCEPT !.at = IF Entry(r).bucket # 0 THEN "touch" ELSE "make"]
<1>1. req[r] \in Rows /\ req[r].at = "look"
  BY DEF Inv, TypeOK, Look
<1>2. req' = [req EXCEPT ![r] = row]
  BY <1>1 DEF Look, To, Inv, TypeOK
<1>3. /\ row \in Rows /\ row.at \in {"touch", "make"}
      /\ row.ask = req[r].ask /\ row.got = req[r].got /\ row.status = req[r].status
  BY <1>1 DEF Rows, Stages
<1> HIDE DEF row
<1>4. req'[r] = row /\ \A q \in Requests : q # r => req'[q] = req[q]
  BY <1>2 DEF Inv, TypeOK
<1>5. UNCHANGED <<asks, bucketVars, selected, chosen>>
  BY DEF Look, serviceVars
<1>6. RequestOK(r)'
  BY <1>1, <1>3, <1>4 DEF Inv, RequestOK, TableOf
<1>7. Inv'
  BY <1>2, <1>3, <1>5, <1>6, OneRequestMoves, SelectionsStand
<1>8. Quiet
  BY <1>3, <1>4 DEF Quiet
<1> QED BY <1>7, <1>8

\* A request keeps its bucket when the entry it holds stays and is not older.
LEMMA StillHolds ==
    ASSUME Inv, NEW q \in Requests, req'[q] = req[q], clock' = clock,
           held' \in [Tables -> [Owners -> Entries]],
           req[q].at = "allow" =>
              /\ held'[TableOf(q)][OwnerOf(q)].bucket = Entry(q).bucket
              /\ Entry(q).seen <= held'[TableOf(q)][OwnerOf(q)].seen
    PROVE  RequestOK(q)'
<1>1. TableOf(q)' = TableOf(q) /\ OwnerOf(q)' = OwnerOf(q)
  BY DEF TableOf, OwnerOf
<1>2. RequestOK(q) /\ req[q] \in Rows /\ clock \in Nat
  BY DEF Inv, TypeOK
<1>3. ASSUME req[q].at = "allow" PROVE HoldsEntry(q)'
  <2>1. TableOf(q) \in Tables /\ OwnerOf(q) \in Owners
    BY <1>2, <1>3, OwnersOfRequests DEF RequestOK
  <2>2. /\ Entry(q)' = held'[TableOf(q)][OwnerOf(q)]
        /\ Entry(q)'.bucket = Entry(q).bucket /\ Entry(q).seen <= Entry(q)'.seen
    BY <1>1, <1>3 DEF Entry
  <2>3. Entry(q) \in Entries /\ Entry(q)' \in Entries
    BY <2>1, <2>2 DEF Inv, TypeOK, Entry
  <2>4. HoldsEntry(q)
    BY <1>2, <1>3 DEF RequestOK
  <2>5. req[q].since \in Nat /\ Entry(q).seen \in Nat /\ Entry(q)'.seen \in Nat
    BY <1>2, <2>3 DEF Rows, Entries
  <2> QED BY <1>1, <2>2, <2>4, <2>5 DEF HoldsEntry
<1> QED BY <1>1, <1>2, <1>3 DEF RequestOK

\* The row of a request that was handed a bucket.
HandedRow(row, bucket, since) == [row EXCEPT !.at = "allow", !.bucket = bucket, !.since = since]

\* The bucket that is in the table is handed out.
LEMMA TakeEntryKeeps ==
    ASSUME Inv, NEW r \in Requests, req[r].at \in {"touch", "make"}, Entry(r).bucket # 0,
           TakeEntry(r), UNCHANGED <<asks, clock, due, serviceVars>>
    PROVE  Inv' /\ Quiet
<1> DEFINE t == TableOf(r)
           o == OwnerOf(r)
           row == HandedRow(req[r], Entry(r).bucket, clock)
<1>1. /\ t \in Tables \ Shared /\ o \in Owners /\ req[r].ask \in Asks
      /\ req[r] \in Rows /\ clock \in Nat /\ Entry(r) \in Entries
  BY OwnersOfRequests DEF Inv, TypeOK, RequestOK, Entry
<1>2. req' = [req EXCEPT ![r] = row]
  BY <1>1 DEF TakeEntry, Inv, TypeOK, HandedRow
<1>3. /\ row \in Rows /\ row.ask = req[r].ask /\ row.at = "allow" /\ row.got = req[r].got
      /\ row.status = req[r].status /\ row.bucket = Entry(r).bucket /\ row.since = clock
  <2>1. Entry(r).bucket \in Nat
    BY <1>1 DEF Entries
  <2>2. req[r] \in Rows /\ clock \in Nat
    BY <1>1
  <2> QED BY <2>1, <2>2 DEF Rows, Stages, HandedRow
<1> HIDE DEF row
<1>4. req'[r] = row /\ \A q \in Requests : q # r => req'[q] = req[q]
  BY <1>2 DEF Inv, TypeOK
<1>5. /\ held' \in [Tables -> [Owners -> Entries]]
      /\ held'[t][o].bucket = Entry(r).bucket /\ held'[t][o].seen = clock
      /\ \A table \in Tables, p \in Owners : ~(table = t /\ p = o) =>
                                              held'[table][p] = held[table][p]
  <2>1. held \in [Tables -> [Owners -> Entries]] /\ held[t][o] = Entry(r)
    BY DEF Inv, TypeOK, Entry
  <2>2. held' = [held EXCEPT ![t] = [held[t] EXCEPT ![o] = [held[t][o] EXCEPT !.seen = clock]]]
    BY DEF TakeEntry
  <2>3. [held[t][o] EXCEPT !.seen = clock] = [bucket |-> Entry(r).bucket, seen |-> clock]
    BY <1>1, <2>1 DEF Entries
  <2> HIDE DEF t, o
  <2> QED BY <1>1, <2>1, <2>2, <2>3 DEF Entries
<1>6. \A table \in Tables, p \in Owners :
        /\ held'[table][p].bucket = held[table][p].bucket
        /\ held[table][p].seen <= held'[table][p].seen
        /\ held[table][p] \in Entries
  <2> SUFFICES ASSUME NEW table \in Tables, NEW p \in Owners
               PROVE  /\ held'[table][p].bucket = held[table][p].bucket
                      /\ held[table][p].seen <= held'[table][p].seen
                      /\ held[table][p] \in Entries
    OBVIOUS
  <2>1. held[table][p] \in Entries /\ held[table][p].seen <= clock
    BY DEF Inv, TypeOK, EntryOK
  <2>2. held[table][p].seen \in Nat
    BY <2>1 DEF Entries
  <2> QED BY <1>1, <1>5, <2>1, <2>2 DEF Entry
<1>7. UNCHANGED <<asks, clock, buckets, due, selected, chosen>>
  BY DEF TakeEntry, serviceVars
<1>8. TypeOK'
  BY <1>2, <1>3, <1>5, <1>7 DEF Inv, TypeOK
<1>9. ASSUME NEW q \in Requests PROVE RequestOK(q)'
  <2>1. CASE q = r
    <3>1. TableOf(r)' = t /\ OwnerOf(r)' = o
      BY <1>3, <1>4 DEF TableOf, OwnerOf
    <3>2. Entry(r)' = held'[t][o]
      BY <3>1 DEF Entry
    <3> HIDE DEF t, o
    <3>3. HoldsEntry(r)'
      BY <1>1, <1>3, <1>4, <1>5, <1>7, <3>2, ApiAssumption DEF HoldsEntry
    <3> QED BY <1>1, <1>3, <1>4, <2>1, <3>1, <3>3 DEF RequestOK
  <2>2. CASE q # r
    <3>1. req[q].at = "allow" => TableOf(q) \in Tables /\ OwnerOf(q) \in Owners
      BY OwnersOfRequests DEF Inv, RequestOK
    <3> QED BY <1>4, <1>5, <1>6, <1>7, <2>2, <3>1, StillHolds DEF Entry
  <2> QED BY <2>1, <2>2
<1>10. ASSUME NEW table \in Tables, NEW p \in Owners PROVE EntryOK(table, p)'
  <2>1. EntryOK(table, p)
    BY DEF Inv
  <2>2. CASE table = t /\ p = o
    <3>1. held'[table][p].bucket = held[table][p].bucket /\ held'[table][p].seen = clock
      BY <1>5, <2>2 DEF Entry
    <3>2. due[table][p] + clock + MaxDelay >= clock
      BY <1>1, <2>1, ApiAssumption DEF EntryOK
    <3> HIDE DEF t, o
    <3> QED BY <1>1, <1>7, <2>1, <3>1, <3>2 DEF EntryOK
  <2>3. CASE ~(table = t /\ p = o)
    BY <1>5, <1>7, <2>1, <2>3 DEF EntryOK
  <2> QED BY <2>2, <2>3
<1>11. Unshared'
  BY <1>6 DEF Inv, Unshared
<1>12. SelectionsOK'
  BY <1>7, SelectionsStand
<1>13. Quiet
  BY <1>3, <1>4 DEF Quiet
<1> QED BY <1>8, <1>9, <1>10, <1>11, <1>12, <1>13 DEF Inv

\* A bucket is made for an owner who has none, and so has everything due.
LEMMA MakeEntryKeeps ==
    ASSUME Inv, NEW r \in Requests, req[r].at = "make", Entry(r).bucket = 0,
           MakeEntry(r), UNCHANGED <<asks, clock, due, serviceVars>>
    PROVE  Inv' /\ Quiet
<1> DEFINE t == TableOf(r)
           o == OwnerOf(r)
           new == Len(buckets) + 1
           row == HandedRow(req[r], new, clock)
<1>1. /\ t \in Tables \ Shared /\ o \in Owners /\ req[r].ask \in Asks
      /\ req[r] \in Rows /\ clock \in Nat /\ held[t][o].bucket = 0
  BY OwnersOfRequests DEF Inv, TypeOK, RequestOK, Entry
<1>2. /\ buckets \in Seq([left: Nat, size: Nat]) /\ Len(buckets) \in Nat
      /\ Full(t) \in [left: Nat, size: Nat]
      /\ Full(t).left = Burst[t] /\ Full(t).size = Burst[t]
  BY <1>1, ApiAssumption DEF Inv, TypeOK, Full
<1>3. /\ buckets' \in Seq([left: Nat, size: Nat]) /\ Len(buckets') = new
      /\ buckets'[new] = Full(t) /\ \A b \in 1..Len(buckets) : buckets'[b] = buckets[b]
  BY <1>2, AppendProperties DEF MakeEntry
<1>4. req' = [req EXCEPT ![r] = row]
  BY <1>1 DEF MakeEntry, Inv, TypeOK, HandedRow
<1>5. new \in Nat \ {0}
  BY <1>2
<1>6. /\ row \in Rows /\ row.ask = req[r].ask /\ row.at = "allow" /\ row.got = req[r].got
      /\ row.status = req[r].status /\ row.bucket = new /\ row.since = clock
  <2>1. new \in Nat
    BY <1>5
  <2>2. req[r] \in Rows /\ clock \in Nat
    BY <1>1
  <2> HIDE DEF new
  <2> QED BY <2>1, <2>2 DEF Rows, Stages, HandedRow
<1> HIDE DEF row
<1>7. req'[r] = row /\ \A q \in Requests : q # r => req'[q] = req[q]
  BY <1>4 DEF Inv, TypeOK
<1>8. /\ held' \in [Tables -> [Owners -> Entries]]
      /\ held'[t][o].bucket = new /\ held'[t][o].seen = clock
      /\ \A table \in Tables, p \in Owners : ~(table = t /\ p = o) =>
                                              held'[table][p] = held[table][p]
  <2>1. held \in [Tables -> [Owners -> Entries]]
    BY DEF Inv, TypeOK
  <2>2. held' = [held EXCEPT ![t] = [held[t] EXCEPT ![o] = [bucket |-> new, seen |-> clock]]]
    BY DEF MakeEntry
  <2> HIDE DEF t, o, new
  <2> QED BY <1>1, <1>5, <2>1, <2>2 DEF Entries
<1>9. UNCHANGED <<asks, clock, due, selected, chosen>>
  BY DEF serviceVars
<1>10. TypeOK'
  BY <1>3, <1>4, <1>6, <1>8, <1>9 DEF Inv, TypeOK
<1>11. ASSUME NEW q \in Requests PROVE RequestOK(q)'
  <2>1. CASE q = r
    <3>1. TableOf(r)' = t /\ OwnerOf(r)' = o
      BY <1>6, <1>7 DEF TableOf, OwnerOf
    <3>2. Entry(r)' = held'[t][o]
      BY <3>1 DEF Entry
    <3> HIDE DEF t, o, new
    <3>3. HoldsEntry(r)'
      BY <1>1, <1>6, <1>5, <1>7, <1>8, <1>9, <3>2, ApiAssumption DEF HoldsEntry
    <3> QED BY <1>1, <1>6, <1>7, <2>1, <3>1, <3>3 DEF RequestOK
  <2>2. CASE q # r
    <3>1. ASSUME req[q].at = "allow"
          PROVE  /\ held'[TableOf(q)][OwnerOf(q)].bucket = Entry(q).bucket
                 /\ Entry(q).seen <= held'[TableOf(q)][OwnerOf(q)].seen
      <4>1. TableOf(q) \in Tables /\ OwnerOf(q) \in Owners /\ Entry(q).bucket # 0
        BY <3>1, OwnersOfRequests DEF Inv, RequestOK, HoldsEntry
      <4>2. held'[TableOf(q)][OwnerOf(q)] = Entry(q)
        BY <1>1, <1>8, <4>1 DEF Entry
      <4>3. Entry(q).seen \in Nat
        BY <4>1 DEF Inv, TypeOK, Entry, Entries
      <4> QED BY <4>2, <4>3
    <3> QED BY <1>7, <1>8, <1>9, <2>2, <3>1, StillHolds
  <2> QED BY <2>1, <2>2
<1>12. ASSUME NEW table \in Tables, NEW p \in Owners PROVE EntryOK(table, p)'
  <2>1. EntryOK(table, p)
    BY DEF Inv
  <2>2. CASE table = t /\ p = o
    <3>1. due[t][o] = Burst[t]
      BY <1>1, <2>1, <2>2 DEF EntryOK
    <3> HIDE DEF t, o, new
    <3> QED BY <1>1, <1>2, <1>3, <1>5, <1>8, <1>9, <2>1, <2>2, <3>1 DEF EntryOK
  <2>3. CASE ~(table = t /\ p = o)
    <3>1. held'[table][p] = held[table][p]
      BY <1>8, <2>3
    <3>2. held[table][p].bucket # 0 =>
            /\ held[table][p].bucket \in 1..Len(buckets')
            /\ buckets'[held[table][p].bucket] = buckets[held[table][p].bucket]
      <4> DEFINE b == held[table][p].bucket
      <4>1. b # 0 => b \in 1..Len(buckets)
        BY <2>1 DEF EntryOK
      <4>2. b \in 1..Len(buckets) => b \in 1..Len(buckets')
        BY <1>2, <1>3
      <4> HIDE DEF b, new
      <4> QED BY <1>3, <4>1, <4>2 DEF b
    <3> HIDE DEF t, o, new
    <3> QED BY <1>9, <2>1, <3>1, <3>2 DEF EntryOK
  <2> QED BY <2>2, <2>3
<1>13. Unshared'
  <2>1. ASSUME NEW table \in Tables, NEW p \in Owners, ~(table = t /\ p = o)
        PROVE  held'[table][p].bucket = held[table][p].bucket /\ held[table][p].bucket # new
    <3>1. held[table][p].bucket \in 0..Len(buckets)
      BY <1>2 DEF Inv, TypeOK, EntryOK, Entries
    <3> QED BY <1>2, <1>8, <2>1, <3>1
  <2> HIDE DEF t, o, new
  <2> QED BY <1>1, <1>8, <2>1 DEF Inv, Unshared
<1>14. SelectionsOK'
  BY <1>9, SelectionsStand
<1>15. Quiet
  BY <1>6, <1>7 DEF Quiet
<1> QED BY <1>10, <1>11, <1>12, <1>13, <1>14, <1>15 DEF Inv

\* The entry went between two lookups.
LEMMA ToMakeKeeps ==
    ASSUME Inv, NEW r \in Requests, req[r].at = "touch", To(r, "make"),
           UNCHANGED <<asks, bucketVars, serviceVars>>
    PROVE  Inv' /\ Quiet
<1> DEFINE row == [req[r] EXCEPT !.at = "make"]
<1>1. req[r] \in Rows
  BY DEF Inv, TypeOK
<1>2. req' = [req EXCEPT ![r] = row]
  BY <1>1 DEF To, Inv, TypeOK
<1>3. /\ row \in Rows /\ row.at = "make"
      /\ row.ask = req[r].ask /\ row.got = req[r].got /\ row.status = req[r].status
  BY <1>1 DEF Rows, Stages
<1> HIDE DEF row
<1>4. req'[r] = row /\ \A q \in Requests : q # r => req'[q] = req[q]
  BY <1>2 DEF Inv, TypeOK
<1>5. RequestOK(r)'
  BY <1>3, <1>4 DEF Inv, RequestOK, TableOf
<1>6. Inv'
  BY <1>2, <1>3, <1>5, OneRequestMoves, SelectionsStand DEF serviceVars
<1>7. Quiet
  BY <1>3, <1>4 DEF Quiet
<1> QED BY <1>6, <1>7

LEMMA TouchKeeps ==
    ASSUME Inv, NEW r \in Requests, Touch(r)
    PROVE  Inv' /\ Quiet
BY TakeEntryKeeps, ToMakeKeeps DEF Touch, bucketVars

LEMMA MakeKeeps ==
    ASSUME Inv, NEW r \in Requests, Make(r)
    PROVE  Inv' /\ Quiet
BY TakeEntryKeeps, MakeEntryKeeps DEF Make

\* An item of a sequence.
LEMMA ItemOfSeq ==
    ASSUME NEW S, NEW s \in Seq(S), NEW i \in 1..Len(s)
    PROVE  s[i] \in S /\ i \in DOMAIN s
OBVIOUS

\* A function on 1..n is a sequence of n items.
LEMMA FunctionIsSeq ==
    ASSUME NEW S, NEW n \in Nat, NEW s \in [1..n -> S]
    PROVE  s \in Seq(S) /\ Len(s) = n
OBVIOUS

\* A token of a bucket is a token that is due to its owner.
LEMMA BucketOf ==
    ASSUME Inv, NEW r \in Requests, req[r].at = "allow"
    PROVE  /\ TableOf(r) \in Tables /\ OwnerOf(r) \in Owners
           /\ held[TableOf(r)][OwnerOf(r)].bucket = req[r].bucket
           /\ req[r].bucket \in DOMAIN buckets
           /\ buckets[req[r].bucket] \in [left: Nat, size: Nat]
           /\ buckets[req[r].bucket].left = due[TableOf(r)][OwnerOf(r)]
<1>1. TableOf(r) \in Tables /\ OwnerOf(r) \in Owners
  BY OwnersOfRequests DEF Inv, RequestOK
<1>2. /\ held[TableOf(r)][OwnerOf(r)].bucket = req[r].bucket
      /\ held[TableOf(r)][OwnerOf(r)].bucket # 0
  BY DEF Inv, RequestOK, HoldsEntry, Entry
<1>3. EntryOK(TableOf(r), OwnerOf(r))
  BY <1>1 DEF Inv
<1>4. /\ req[r].bucket \in 1..Len(buckets)
      /\ buckets[req[r].bucket].left = due[TableOf(r)][OwnerOf(r)]
  BY <1>2, <1>3 DEF EntryOK
<1>5. buckets[req[r].bucket] \in [left: Nat, size: Nat] /\ req[r].bucket \in DOMAIN buckets
  <2>1. buckets \in Seq([left: Nat, size: Nat])
    BY DEF Inv, TypeOK
  <2> QED BY <1>4, <2>1, ItemOfSeq
<1> QED BY <1>1, <1>2, <1>4, <1>5

\* The one step that refuses for the budget, and the one that spends it.
RefusedRightly ==
    \A r \in Requests :
        /\ req'[r].got = req[r].got
        /\ req'[r].status = 429 /\ req[r].status # 429 =>
              /\ req'[r].ask = req[r].ask /\ req[r].ask \in Asks
              /\ TableOf(r) \in Tables /\ due'[TableOf(r)][OwnerOf(r)] = 0
              /\ due[TableOf(r)][OwnerOf(r)] = 0

LEMMA RefuseKeeps ==
    ASSUME Inv, NEW r \in Requests, req[r].at = "allow", ~(buckets[req[r].bucket].left > 0),
           Answer(r, 429), UNCHANGED <<asks, bucketVars, serviceVars>>
    PROVE  Inv' /\ RefusedRightly
<1> DEFINE row == Moved(req[r], "done", 429)
<1>1. req' = [req EXCEPT ![r] = row]
  BY AnswerIs
<1>2. req[r] \in Rows /\ req[r].ask \in Asks
  BY DEF Inv, TypeOK, RequestOK
<1>3. row \in Rows /\ row.ask = req[r].ask /\ row.at = "done" /\ row.got = req[r].got
  <2> DEFINE status == 429
  <2>1. status \in Nat
    OBVIOUS
  <2> HIDE DEF status
  <2>2. LET new == Moved(req[r], "done", status) IN
        new \in Rows /\ new.ask = req[r].ask /\ new.at = "done" /\ new.got = req[r].got
    BY <1>2, <2>1 DEF Moved, Rows, Stages
  <2> QED BY <2>2 DEF status
<1> HIDE DEF row
<1>4. req'[r] = row /\ \A q \in Requests : q # r => req'[q] = req[q]
  BY <1>1 DEF Inv, TypeOK
<1>5. RequestOK(r)'
  BY <1>2, <1>3, <1>4 DEF RequestOK
<1>6. Inv'
  BY <1>1, <1>3, <1>5, OneRequestMoves, SelectionsStand DEF serviceVars
<1>7. TableOf(r) \in Tables /\ due[TableOf(r)][OwnerOf(r)] = 0
  <2>1. buckets[req[r].bucket].left \in Nat
    BY BucketOf
  <2> QED BY <2>1, BucketOf
<1>8. due' = due
  BY DEF bucketVars
<1>9. RefusedRightly
  BY <1>2, <1>3, <1>4, <1>7, <1>8 DEF RefusedRightly
<1> QED BY <1>6, <1>9

LEMMA SpendKeeps ==
    ASSUME Inv, NEW r \in Requests, req[r].at = "allow", buckets[req[r].bucket].left > 0,
           buckets' = [buckets EXCEPT ![req[r].bucket].left = @ - 1],
           due' = [due EXCEPT ![TableOf(r)][OwnerOf(r)] = @ - 1],
           req' = [req EXCEPT ![r] = [@ EXCEPT !.at = "handler", !.since = 0]],
           UNCHANGED <<asks, clock, held, serviceVars>>
    PROVE  Inv' /\ Quiet
<1> DEFINE t == TableOf(r)
           o == OwnerOf(r)
           b == req[r].bucket
           row == [req[r] EXCEPT !.at = "handler", !.since = 0]
<1>1. /\ t \in Tables /\ o \in Owners /\ held[t][o].bucket = b
      /\ b \in DOMAIN buckets /\ buckets[b] \in [left: Nat, size: Nat]
      /\ buckets[b].left = due[t][o] /\ b # 0
  BY BucketOf DEF Inv, RequestOK, HoldsEntry, Entry
<1>2. req[r] \in Rows /\ req[r].ask \in Asks
  BY DEF Inv, TypeOK, RequestOK
<1>3. row \in Rows /\ row.ask = req[r].ask /\ row.at = "handler" /\ row.got = req[r].got
      /\ row.status = req[r].status
  BY <1>2 DEF Rows, Stages
<1>4. req' = [req EXCEPT ![r] = row]
  OBVIOUS
<1> HIDE DEF row
<1>5. req'[r] = row /\ \A q \in Requests : q # r => req'[q] = req[q]
  BY <1>4 DEF Inv, TypeOK
<1>6. due[t][o] - 1 \in Nat /\ buckets[b].left - 1 \in Nat
  BY <1>1
<1>7. /\ buckets' \in Seq([left: Nat, size: Nat]) /\ Len(buckets') = Len(buckets)
      /\ buckets'[b].left = due[t][o] - 1 /\ buckets'[b].size = buckets[b].size
      /\ \A c \in DOMAIN buckets : c # b => buckets'[c] = buckets[c]
  <2> DEFINE spent == [buckets[b] EXCEPT !.left = buckets[b].left - 1]
  <2>1. spent \in [left: Nat, size: Nat] /\ spent.left = due[t][o] - 1 /\ spent.size = buckets[b].size
    BY <1>1, <1>6
  <2>2. buckets' = [buckets EXCEPT ![b] = spent]
    OBVIOUS
  <2>3. buckets \in Seq([left: Nat, size: Nat])
    BY DEF Inv, TypeOK
  <2> HIDE DEF spent, b, t, o
  <2> QED BY <1>1, <2>1, <2>2, <2>3
<1>8. /\ due' \in [Tables -> [Owners -> Int]] /\ due'[t][o] = due[t][o] - 1
      /\ \A table \in Tables, p \in Owners : ~(table = t /\ p = o) =>
                                              due'[table][p] = due[table][p]
  <2>1. due' = [due EXCEPT ![t] = [due[t] EXCEPT ![o] = due[t][o] - 1]]
    OBVIOUS
  <2>2. due \in [Tables -> [Owners -> Int]] /\ due[t][o] - 1 \in Int
    BY <1>6 DEF Inv, TypeOK
  <2> HIDE DEF t, o
  <2> QED BY <1>1, <2>1, <2>2
<1>9. UNCHANGED <<asks, clock, held, selected, chosen>>
  BY DEF serviceVars
<1>10. TypeOK'
  BY <1>3, <1>4, <1>7, <1>8, <1>9 DEF Inv, TypeOK
<1>11. ASSUME NEW q \in Requests PROVE RequestOK(q)'
  <2>1. CASE q = r
    BY <1>2, <1>3, <1>5, <2>1 DEF RequestOK
  <2>2. CASE q # r
    <3>1. req'[q] = req[q]
      BY <1>5, <2>2
    <3> QED BY <1>9, <3>1 DEF Inv, RequestOK, HoldsEntry, TableOf, OwnerOf, Entry
  <2> QED BY <2>1, <2>2
<1>12. ASSUME NEW table \in Tables, NEW p \in Owners PROVE EntryOK(table, p)'
  <2>1. EntryOK(table, p) /\ buckets \in Seq([left: Nat, size: Nat])
    BY DEF Inv, TypeOK
  <2>2. held[table][p].bucket # 0 => held[table][p].bucket \in DOMAIN buckets
    BY <2>1 DEF EntryOK
  <2>3. CASE table = t /\ p = o
    <3>1. due'[table][p] \in 0..Burst[table]
      BY <1>1, <1>6, <1>8, <2>1, <2>3, ApiAssumption DEF EntryOK
    <3>2. table \notin Shared => clock <= held[table][p].seen + MaxDelay
      <4>1. HoldsEntry(r)
        BY DEF Inv, RequestOK
      <4>2. table \notin Shared =>
              req[r].since <= held[t][o].seen /\ clock <= req[r].since + MaxDelay
        BY <2>3, <4>1 DEF HoldsEntry, Entry
      <4>3. /\ req[r].since \in Nat /\ held[t][o].seen \in Nat /\ clock \in Nat
            /\ MaxDelay \in Nat
        BY <1>1, <1>2, ApiAssumption DEF Inv, TypeOK, Rows, Entries
      <4> QED BY <2>3, <4>2, <4>3
    <3>3. table \notin Shared => due'[table][p] + held[table][p].seen + MaxDelay >= clock
      <4>1. held[table][p].seen \in Nat /\ clock \in Nat /\ MaxDelay \in Nat
        BY ApiAssumption DEF Inv, TypeOK, Entries
      <4>2. due'[table][p] \in Nat
        BY <3>1, ApiAssumption
      <4> QED BY <3>2, <4>1, <4>2
    <3>4. held[table][p].bucket = b
      BY <1>1, <2>3
    <3> HIDE DEF t, o, b
    <3> QED BY <1>1, <1>7, <1>8, <1>9, <2>1, <2>3, <3>1, <3>3, <3>4 DEF EntryOK
  <2>4. CASE ~(table = t /\ p = o)
    <3>1. due'[table][p] = due[table][p]
      BY <1>8, <2>4
    <3>2. held[table][p].bucket # 0 => held[table][p].bucket # b
      BY <1>1, <2>4 DEF Inv, Unshared
    <3> HIDE DEF t, o, b
    <3>3. held[table][p].bucket # 0 =>
            buckets'[held[table][p].bucket] = buckets[held[table][p].bucket]
      BY <1>7, <2>2, <3>2
    <3> QED BY <1>7, <1>9, <2>1, <3>1, <3>3 DEF EntryOK
  <2> QED BY <2>3, <2>4
<1>13. Unshared'
  BY <1>9 DEF Inv, Unshared
<1>14. SelectionsOK'
  BY <1>9, SelectionsStand
<1>15. Quiet
  BY <1>3, <1>5 DEF Quiet
<1> QED BY <1>10, <1>11, <1>12, <1>13, <1>14, <1>15 DEF Inv

LEMMA AllowKeeps ==
    ASSUME Inv, NEW r \in Requests, Allow(r)
    PROVE  Inv' /\ (Quiet \/ RefusedRightly)
<1>1. CASE buckets[req[r].bucket].left > 0
  BY <1>1, SpendKeeps DEF Allow
<1>2. CASE ~(buckets[req[r].bucket].left > 0)
  BY <1>2, RefuseKeeps DEF Allow, bucketVars
<1> QED BY <1>1, <1>2

\* The entries that are forgotten have had everything back, and nobody holds
\* their buckets any more.
LEMMA CleanupKeeps ==
    ASSUME Inv, NEW t \in Tables, Cleanup(t)
    PROVE  Inv' /\ Quiet
<1> DEFINE idle == { a \in Addresses : held[t][a].bucket # 0
                                      /\ clock - held[t][a].seen > CleanupAfter }
<1>1. /\ held' = [held EXCEPT ![t] = [o \in Owners |-> IF o \in idle THEN NoBucket
                                                     ELSE held[t][o]]]
      /\ t \notin Shared /\ UNCHANGED <<asks, req, clock, buckets, due, selected, chosen>>
  BY DEF Cleanup, serviceVars
<1>2. ASSUME NEW a \in idle
      PROVE  /\ a \in Owners /\ a # Everyone /\ due[t][a] = Burst[t]
             /\ ~(held[t][a].seen + MaxDelay >= clock)
  <2>1. a \in Addresses /\ a \in Owners /\ clock - held[t][a].seen > CleanupAfter
    BY <1>2 DEF Owners
  <2>2. EntryOK(t, a)
    BY <2>1 DEF Inv
  <2>3. /\ due[t][a] \in Int /\ held[t][a].seen \in Nat /\ clock \in Nat
        /\ CleanupAfter \in Nat /\ MaxDelay \in Nat /\ Burst[t] \in Nat \ {0}
        /\ Burst[t] + MaxDelay <= CleanupAfter + 1
    <3>1. due[t][a] \in Int /\ held[t][a] \in Entries /\ clock \in Nat
      BY <2>1 DEF Inv, TypeOK
    <3>2. /\ CleanupAfter \in Nat /\ MaxDelay \in Nat /\ Burst[t] \in Nat \ {0}
          /\ Burst[t] + MaxDelay <= CleanupAfter + 1
      BY <1>1, ApiAssumption
    <3> HIDE DEF idle
    <3> QED BY <3>1, <3>2 DEF Entries
  <2>4. /\ due[t][a] <= Burst[t]
        /\ due[t][a] = Burst[t] \/ due[t][a] + held[t][a].seen + MaxDelay >= clock
    BY <1>1, <2>2, <2>3 DEF EntryOK
  <2>5. a # Everyone
    BY <2>1, ApiAssumption
  <2> HIDE DEF idle
  <2> QED BY <2>1, <2>3, <2>4, <2>5
<1> HIDE DEF idle
<1>3. /\ NoBucket \in Entries /\ NoBucket.bucket = 0 /\ NoBucket.seen = 0
  BY DEF NoBucket, Entries
<1>4. /\ held' \in [Tables -> [Owners -> Entries]]
      /\ \A table \in Tables, p \in Owners :
            held'[table][p] = IF table = t /\ p \in idle THEN NoBucket ELSE held[table][p]
  BY <1>1, <1>3 DEF Inv, TypeOK
<1>5. TypeOK'
  BY <1>1, <1>4 DEF Inv, TypeOK
<1>6. ASSUME NEW q \in Requests PROVE RequestOK(q)'
  <2>1. ASSUME req[q].at = "allow"
        PROVE  held'[TableOf(q)][OwnerOf(q)] = Entry(q) /\ Entry(q).seen \in Nat
    <3>1. TableOf(q) \in Tables /\ OwnerOf(q) \in Owners /\ HoldsEntry(q)
      BY <2>1, OwnersOfRequests DEF Inv, RequestOK
    <3>2. CASE TableOf(q) = t /\ OwnerOf(q) \in idle
      <4>1. req[q].since <= held[t][OwnerOf(q)].seen /\ clock <= req[q].since + MaxDelay
        BY <1>1, <3>1, <3>2 DEF HoldsEntry, Entry
      <4>2. /\ req[q].since \in Nat /\ held[t][OwnerOf(q)].seen \in Nat /\ clock \in Nat
            /\ MaxDelay \in Nat
        BY <3>1, ApiAssumption DEF Inv, TypeOK, Rows, Entries
      <4> QED BY <1>2, <3>2, <4>1, <4>2
    <3>3. CASE ~(TableOf(q) = t /\ OwnerOf(q) \in idle)
      BY <1>4, <3>1, <3>3 DEF Entry, Inv, TypeOK, Entries
    <3> QED BY <3>2, <3>3
  <2>2. ASSUME req[q].at = "allow"
        PROVE  /\ held'[TableOf(q)][OwnerOf(q)].bucket = Entry(q).bucket
               /\ Entry(q).seen <= held'[TableOf(q)][OwnerOf(q)].seen
    <3>1. held'[TableOf(q)][OwnerOf(q)] = Entry(q) /\ Entry(q).seen \in Nat
      BY <2>1, <2>2
    <3> QED BY <3>1
  <2>3. req'[q] = req[q] /\ clock' = clock
    BY <1>1
  <2>4. held' \in [Tables -> [Owners -> Entries]]
    BY <1>4
  <2> QED BY <2>2, <2>3, <2>4, StillHolds
<1>7. ASSUME NEW table \in Tables, NEW p \in Owners PROVE EntryOK(table, p)'
  <2>1. EntryOK(table, p)
    BY DEF Inv
  <2>2. CASE table = t /\ p \in idle
    <3>1. due[table][p] = Burst[table] /\ p # Everyone
      BY <1>2, <2>2
    <3>2. held'[table][p].bucket = 0 /\ held'[table][p].seen = 0
      BY <1>3, <1>4, <2>2
    <3>3. clock \in Nat
      BY DEF Inv, TypeOK
    <3> QED BY <1>1, <2>1, <3>1, <3>2, <3>3 DEF EntryOK
  <2>3. CASE ~(table = t /\ p \in idle)
    BY <1>1, <1>4, <2>1, <2>3 DEF EntryOK
  <2> QED BY <2>2, <2>3
<1>8. Unshared'
  <2>1. ASSUME NEW table \in Tables, NEW p \in Owners, held'[table][p].bucket # 0
        PROVE  held'[table][p].bucket = held[table][p].bucket
    BY <1>3, <1>4, <2>1
  <2> QED BY <2>1 DEF Inv, Unshared
<1>9. SelectionsOK'
  BY <1>1, SelectionsStand
<1>10. Quiet
  BY <1>1 DEF Quiet
<1> QED BY <1>5, <1>6, <1>7, <1>8, <1>9, <1>10 DEF Inv

\* A token comes back, to the buckets and to what is due.
LEMMA TickKeeps ==
    ASSUME Inv, Tick
    PROVE  Inv' /\ Quiet
<1>1. /\ clock' = clock + 1 /\ clock \in Nat /\ clock' \in Nat
      /\ UNCHANGED <<asks, req, held, selected, chosen>>
  BY DEF Tick, serviceVars, Inv, TypeOK
<1>2. ASSUME NEW n \in Nat, NEW bound \in Nat
      PROVE  AtMost(n + 1, bound) \in Nat /\ AtMost(n + 1, bound) <= bound
  BY DEF AtMost
<1>3. /\ buckets' \in Seq([left: Nat, size: Nat]) /\ Len(buckets') = Len(buckets)
      /\ \A b \in 1..Len(buckets) :
            /\ buckets'[b].left = AtMost(buckets[b].left + 1, buckets[b].size)
            /\ buckets'[b].size = buckets[b].size
  <2>1. buckets \in Seq([left: Nat, size: Nat]) /\ DOMAIN buckets = 1..Len(buckets)
    BY DEF Inv, TypeOK
  <2>2. buckets' = [b \in DOMAIN buckets |->
                     [buckets[b] EXCEPT !.left = AtMost(buckets[b].left + 1, buckets[b].size)]]
    BY DEF Tick
  <2>3. ASSUME NEW b \in 1..Len(buckets)
        PROVE  /\ buckets'[b] \in [left: Nat, size: Nat]
               /\ buckets'[b].left = AtMost(buckets[b].left + 1, buckets[b].size)
               /\ buckets'[b].size = buckets[b].size
    <3>1. buckets[b] \in [left: Nat, size: Nat]
      BY <2>1, ItemOfSeq
    <3>2. AtMost(buckets[b].left + 1, buckets[b].size) \in Nat
      BY <1>2, <3>1
    <3>3. buckets'[b] = [buckets[b] EXCEPT !.left = AtMost(buckets[b].left + 1, buckets[b].size)]
      BY <2>1, <2>2
    <3> QED BY <3>1, <3>2, <3>3
  <2>4. Len(buckets) \in Nat /\ buckets' \in [1..Len(buckets) -> [left: Nat, size: Nat]]
    <3>1. DOMAIN buckets' = 1..Len(buckets) /\ buckets' = [b \in 1..Len(buckets) |-> buckets'[b]]
      BY <2>1, <2>2
    <3> QED BY <2>1, <2>3, <3>1
  <2> QED BY <2>3, <2>4, FunctionIsSeq
<1>4. /\ due' \in [Tables -> [Owners -> Int]]
      /\ \A table \in Tables, p \in Owners :
            /\ due'[table][p] = AtMost(due[table][p] + 1, Burst[table])
            /\ due'[table][p] \in 0..Burst[table]
  <2>1. due' = [table \in Tables |-> [o \in Owners |-> AtMost(due[table][o] + 1, Burst[table])]]
    BY DEF Tick
  <2>2. ASSUME NEW table \in Tables, NEW p \in Owners
        PROVE  AtMost(due[table][p] + 1, Burst[table]) \in 0..Burst[table]
    <3>1. due[table][p] \in Nat /\ Burst[table] \in Nat
      BY ApiAssumption DEF Inv, EntryOK
    <3> QED BY <1>2, <3>1
  <2>3. \A table \in Tables : 0..Burst[table] \subseteq Int
    BY ApiAssumption
  <2> QED BY <2>1, <2>2, <2>3
<1>5. TypeOK'
  BY <1>1, <1>3, <1>4 DEF Inv, TypeOK
<1>6. ASSUME NEW q \in Requests PROVE RequestOK(q)'
  <2>1. TableOf(q)' = TableOf(q) /\ OwnerOf(q)' = OwnerOf(q) /\ RequestOK(q)
    BY <1>1 DEF TableOf, OwnerOf, Inv
  <2>2. ASSUME req[q].at = "allow", TableOf(q) \notin Shared
        PROVE  clock' <= req[q].since + MaxDelay
    <3>1. clock - req[q].since < MaxDelay
      BY <2>2 DEF Tick
    <3>2. req[q].since \in Nat /\ MaxDelay \in Nat
      BY ApiAssumption DEF Inv, TypeOK, Rows
    <3> QED BY <1>1, <3>1, <3>2
  <2> QED BY <1>1, <2>1, <2>2 DEF RequestOK, HoldsEntry, Entry
<1>7. ASSUME NEW table \in Tables, NEW p \in Owners PROVE EntryOK(table, p)'
  <2>1. EntryOK(table, p) /\ held[table][p] \in Entries /\ due[table][p] \in Int
    BY DEF Inv, TypeOK
  <2>2. /\ held[table][p].seen \in Nat /\ due[table][p] \in Nat /\ Burst[table] \in Nat
        /\ MaxDelay \in Nat
    BY <2>1, ApiAssumption DEF Entries, EntryOK
  <2>3. due'[table][p] = AtMost(due[table][p] + 1, Burst[table])
    BY <1>4
  <2>4. held[table][p].seen <= clock'
    <3>1. held[table][p].seen <= clock
      BY <2>1 DEF EntryOK
    <3> QED BY <1>1, <2>2, <3>1
  <2>5. held[table][p].bucket = 0 => due'[table][p] = Burst[table]
    <3>1. held[table][p].bucket = 0 => due[table][p] = Burst[table]
      BY <2>1 DEF EntryOK
    <3> QED BY <2>2, <2>3, <3>1 DEF AtMost
  <2>6. held[table][p].bucket # 0 =>
          /\ held[table][p].bucket \in 1..Len(buckets')
          /\ buckets'[held[table][p].bucket].left = due'[table][p]
          /\ buckets'[held[table][p].bucket].size = Burst[table]
    BY <1>3, <2>1, <2>3 DEF EntryOK
  <2>7. table \notin Shared => \/ due'[table][p] = Burst[table]
                              \/ due'[table][p] + held[table][p].seen + MaxDelay >= clock'
    <3>1. table \notin Shared => \/ due[table][p] = Burst[table]
                                \/ due[table][p] + held[table][p].seen + MaxDelay >= clock
      BY <2>1 DEF EntryOK
    <3>2. due[table][p] <= Burst[table]
      BY <2>1, <2>2 DEF EntryOK
    <3> QED BY <1>1, <2>2, <2>3, <3>1, <3>2 DEF AtMost
  <2>8. table \in Shared /\ p = Everyone => held[table][p].bucket = SharedBucket(table)
    BY <2>1 DEF EntryOK
  <2> QED BY <1>1, <1>4, <2>4, <2>5, <2>6, <2>7, <2>8 DEF EntryOK
<1>8. Unshared'
  BY <1>1 DEF Inv, Unshared
<1>9. SelectionsOK'
  BY <1>1, SelectionsStand
<1>10. Quiet
  BY <1>1 DEF Quiet
<1> QED BY <1>5, <1>6, <1>7, <1>8, <1>9, <1>10 DEF Inv

-----------------------------------------------------------------------------
\* The theorems

LEMMA NextKeeps ==
    ASSUME Inv, [Next]_vars
    PROVE  Inv' /\ (Quiet \/ Served \/ RefusedRightly)
<1>1. CASE UNCHANGED vars
  <2>1. UNCHANGED <<asks, req, clock, held, buckets, due, selected, chosen>>
    BY <1>1 DEF vars, bucketVars, serviceVars
  <2>2. \A q \in Requests : RequestOK(q)'
    BY <2>1 DEF Inv, RequestOK, HoldsEntry, TableOf, OwnerOf, Entry
  <2>3. Inv'
    BY <2>1, <2>2 DEF Inv, TypeOK, EntryOK, Unshared, SelectionsOK
  <2> QED BY <2>1, <2>3 DEF Quiet
<1>2. CASE Next
  BY <1>2, ArriveKeeps, LookKeeps, TouchKeeps, MakeKeeps, AllowKeeps, HandlerKeeps,
     ReadKeeps, ActKeeps, RecoverKeeps, CleanupKeeps, TickKeeps DEF Next
<1> QED BY <1>1, <1>2

LEMMA Invariant == Spec => []Inv
<1>1. Inv /\ [Next]_vars => Inv'
  BY NextKeeps
<1> QED BY <1>1, InitInv, PTL DEF Spec

\* However simultaneous lookups and the cleanup interleave, no address is let
\* through more often than one bucket that lives for ever would let it
\* (getLimiter, cleanupLoop).
THEOREM AdmittedInBudget == Spec => []AdmittedWithinBudget
<1>1. Inv => AdmittedWithinBudget
  BY ApiAssumption DEF Inv, EntryOK, AdmittedWithinBudget
<1> QED BY <1>1, Invariant, PTL

\* Who is refused has spent the budget of that route: a bucket is never lost
\* with tokens in it, and no other route spends them (PerIPRateLimiter).
THEOREM RefusedBeyondBudget == Spec => RefusedOnlyOverBudget
<1> DEFINE Rightly ==
        \A r \in Requests :
          req'[r].status = 429 /\ req[r].status # 429 =>
              LET ask   == req[r].ask
                  table == IF ask.route \in {"position", "stream", "metrics"}
                           THEN ask.route ELSE "api"
                  whose == IF table \in Shared THEN Everyone ELSE ClientIP(ask)
              IN  due[table][whose] = 0
<1>1. ASSUME Inv, [Next]_vars PROVE Rightly
  <2>1. CASE Quiet \/ Served
    BY <2>1 DEF Quiet, Served
  <2>2. CASE RefusedRightly
    <3> SUFFICES ASSUME NEW r \in Requests, req'[r].status = 429, req[r].status # 429
                 PROVE  LET ask   == req[r].ask
                            table == IF ask.route \in {"position", "stream", "metrics"}
                                     THEN ask.route ELSE "api"
                            whose == IF table \in Shared THEN Everyone ELSE ClientIP(ask)
                        IN  due[table][whose] = 0
      OBVIOUS
    <3>1. /\ TableOf(r) \in Tables /\ req[r].ask \in Asks
          /\ due[TableOf(r)][OwnerOf(r)] = 0
      BY <2>2 DEF RefusedRightly
    <3>2. TableOf(r) = IF req[r].ask.route \in {"position", "stream", "metrics"}
                       THEN req[r].ask.route ELSE "api"
      BY <3>1 DEF TableOf, Table, Tables, Shared, Asks, Routes
    <3> QED BY <3>1, <3>2 DEF OwnerOf
  <2> QED BY <1>1, <2>1, <2>2, NextKeeps
<1> QED BY <1>1, Invariant, PTL DEF Spec, RefusedOnlyOverBudget

\* A stream delivers a file its own client selected of the torrent since it
\* came, whatever others do between the checks (Service.ServeFile).
THEOREM OwnChoiceServed == Spec => OwnChoiceIsServed
<1> DEFINE Own == \A r \in Requests :
          req'[r].got # req[r].got =>
              [torrent |-> req[r].ask.torrent, client |-> req[r].ask.client,
               file |-> req'[r].got] \in chosen
<1>1. ASSUME Inv, [Next]_vars PROVE Own
  BY <1>1, NextKeeps DEF Quiet, Served, RefusedRightly
<1> QED BY <1>1, Invariant, PTL DEF Spec, OwnChoiceIsServed
=============================================================================
