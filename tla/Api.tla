-------------------------------- MODULE Api --------------------------------
(***************************************************************************)
(* The HTTP interface of the backend: what a request passes on its way to  *)
(* the torrent service (src/backend/internal/api, with auth and the reads  *)
(* of torrent/service.go).                                                 *)
(*                                                                         *)
(* Every request is a goroutine.  It passes CORS and the content type, the *)
(* token bucket of its route, the access token, the handler's own checks,  *)
(* and then the service, which asks whether the client may read the        *)
(* torrent under one lock and acts under another.                          *)
(*                                                                         *)
(* A bucket belongs to an address, except those of the stream and the      *)
(* metrics routes, which belong to everybody.  getLimiter looks an address *)
(* up under the read lock, again under the write lock, and makes a bucket  *)
(* under the write lock; every CleanupAfter the addresses that were idle   *)
(* for that long are forgotten.                                            *)
(*                                                                         *)
(* How adding and removing take effect step by step is TorrentService's,   *)
(* what a selection does to the pieces is Streaming's: here they are what  *)
(* they leave behind.  Bodies are left out, and so are the counters of     *)
(* metrics.                                                                *)
(***************************************************************************)
EXTENDS Integers, Sequences

CONSTANTS
    Requests,
    Addresses, Everyone,  \* the owners of buckets
    TrustedProxies,       \* peers whose X-Forwarded-For is believed
    Clients, Nobody,      \* X-Client-ID; the owner of a torrent nobody owns
    Torrents, Files,
    Burst,                \* [Tables -> Nat]: a bucket's size; one token comes back per tick
    CleanupAfter,         \* ticks after which an idle address is forgotten
    MaxDelay,             \* bound: ticks a request stands between its bucket and Allow
    MaxTime,              \* bound
    Plans                 \* what the requests ask, for whom the torrents are, when it begins

Unchosen == -1

\* The tables of buckets, and those that hold one bucket for everybody.
Tables == {"api", "position", "stream", "metrics"}
Shared == {"stream", "metrics"}

Routes == {"version", "list", "add", "remove", "files", "select", "magnet",
           "stream", "subtitles", "info", "position", "metrics"}
Asks == [route: Routes, method: {"GET", "POST", "OPTIONS"}, json: BOOLEAN,
         peer: Addresses, forwarded: Addresses, client: Clients,
         token: BOOLEAN, valid: BOOLEAN, torrent: Torrents, file: Nat]

\* An address has got back everything it spent by the time it is forgotten,
\* however late it spent it: middleware.go has ten minutes against a bucket of
\* 10 at one a second and of 40 at twenty, and no call between a bucket and its
\* Allow.
ASSUME ApiAssumption ==
    /\ Burst \in [Tables -> Nat \ {0}]
    /\ CleanupAfter \in Nat /\ MaxDelay \in Nat /\ MaxTime \in Nat
    /\ \A table \in Tables \ Shared : Burst[table] + MaxDelay <= CleanupAfter + 1
    /\ Everyone \notin Addresses /\ Nobody \notin Clients
    /\ \A plan \in Plans :
          /\ plan.asks \in [Requests -> SUBSET Asks]
          /\ plan.owner \in [Torrents -> Clients \cup {Nobody, "absent"}]
          /\ plan.start \in Nat

VARIABLES
    asks,      \* [Requests -> what is still to be asked]
    req,       \* [Requests -> where a request is, what it holds, its answer]
    clock,
    held,      \* [Tables -> [owners -> the bucket in the table, and when it was asked for]]
    buckets,   \* every bucket ever made: the tokens left in it, and its size
    present,   \* the torrents of the service
    owner,     \* [Torrents -> Clients or Nobody]: torrentOwners
    selected,  \* [Torrents -> [Clients -> index]]: selectedFiles
    due,       \* history: [Tables -> [owners -> the tokens a bucket never dropped would have]]
    chosen     \* history: the selections made since the torrent came

serviceVars == <<present, owner, selected, chosen>>
bucketVars  == <<clock, held, buckets, due>>
vars        == <<asks, req, bucketVars, serviceVars>>

Owners == Addresses \cup {Everyone}

\* getClientIP
ClientIP(ask) == IF ask.peer \in TrustedProxies THEN ask.forwarded ELSE ask.peer

\* The bucket table of a route, "none" where there is none.  The heartbeat of a
\* playing client has a budget of its own.
TableWithoutPosition(route) ==
    CASE route \in Shared   -> route
      [] route = "version"  -> "none"
      [] OTHER              -> "api"
Table(route) ==
    CASE route = "position" -> "position"
      [] route \in Shared   -> route
      [] route = "version"  -> "none"
      [] OTHER              -> "api"

TableOf(r) == Table(req[r].ask.route)
OwnerOf(r) == IF TableOf(r) \in Shared THEN Everyone ELSE ClientIP(req[r].ask)

NoBucket == [bucket |-> 0, seen |-> 0]
NoAsk    == [route |-> "none"]
Unasked  == [at |-> "new", ask |-> NoAsk, bucket |-> 0, since |-> 0, status |-> 0,
             got |-> Unchosen]

Full(table) == [left |-> Burst[table], size |-> Burst[table]]

\* The shared buckets are made with the router and numbered first.
SharedBucket(table) == IF table = "stream" THEN 1 ELSE 2

Init ==
    \E plan \in Plans :
        /\ asks = plan.asks
        /\ req = [r \in Requests |-> Unasked]
        /\ clock = plan.start
        /\ held = [table \in Tables |-> [o \in Owners |->
                     IF table \in Shared /\ o = Everyone
                     THEN [NoBucket EXCEPT !.bucket = SharedBucket(table)] ELSE NoBucket]]
        /\ buckets = <<Full("stream"), Full("metrics")>>
        /\ present = {t \in Torrents : plan.owner[t] # "absent"}
        /\ owner = [t \in Torrents |-> IF plan.owner[t] = "absent" THEN Nobody ELSE plan.owner[t]]
        /\ selected = [t \in Torrents |-> [c \in Clients |-> Unchosen]]
        /\ due = [table \in Tables |-> [o \in Owners |-> Burst[table]]]
        /\ chosen = {}

-----------------------------------------------------------------------------
To(r, at) == req' = [req EXCEPT ![r].at = at]
Answer(r, status) == req' = [req EXCEPT ![r].at = "done", ![r].status = status]

\* ContentTypeMiddleware: what carries a body must say it is JSON.
WrongContentType(ask) == ask.method = "POST" /\ ~ask.json

\* CORS answers a preflight, the content type is checked, and only then does the
\* route's own chain begin.
Arrive(r) ==
    /\ req[r].at = "new"
    /\ \E ask \in asks[r] :
          req' = [req EXCEPT ![r] =
                    CASE ask.method = "OPTIONS" ->
                             [@ EXCEPT !.ask = ask, !.at = "done", !.status = 200]
                      [] WrongContentType(ask) ->
                             [@ EXCEPT !.ask = ask, !.at = "done", !.status = 415]
                      [] OTHER ->
                             [@ EXCEPT !.ask = ask,
                                       !.at = CASE Table(ask.route) = "none"    -> "handler"
                                                [] Table(ask.route) \in Shared  -> "allow"
                                                [] OTHER                        -> "look",
                                       !.bucket = IF Table(ask.route) \in Shared
                                                  THEN SharedBucket(Table(ask.route)) ELSE 0]]
    /\ UNCHANGED <<asks, bucketVars, serviceVars>>

-----------------------------------------------------------------------------
(* getLimiter and Allow.                                                   *)

Entry(r) == held[TableOf(r)][OwnerOf(r)]

\* The first look, under the read lock.
Look(r) ==
    /\ req[r].at = "look"
    /\ To(r, IF Entry(r).bucket # 0 THEN "touch" ELSE "make")
    /\ UNCHANGED <<asks, bucketVars, serviceVars>>

\* An entry that is there under the write lock is handed out and marked seen.
TakeEntry(r) ==
    /\ held' = [held EXCEPT ![TableOf(r)][OwnerOf(r)].seen = clock]
    /\ req' = [req EXCEPT ![r].at = "allow", ![r].bucket = Entry(r).bucket, ![r].since = clock]
    /\ UNCHANGED buckets

MakeEntry(r) ==
    LET new == Len(buckets) + 1 IN
    /\ buckets' = Append(buckets, Full(TableOf(r)))
    /\ held' = [held EXCEPT ![TableOf(r)][OwnerOf(r)] = [bucket |-> new, seen |-> clock]]
    /\ req' = [req EXCEPT ![r].at = "allow", ![r].bucket = new, ![r].since = clock]

\* The second look; an entry the cleanup took in between is made again.
Touch(r) ==
    /\ req[r].at = "touch"
    /\ IF Entry(r).bucket # 0 THEN TakeEntry(r) ELSE To(r, "make") /\ UNCHANGED <<held, buckets>>
    /\ UNCHANGED <<asks, clock, due, serviceVars>>

\* The third: another request may have made the bucket meanwhile.
MakeBlindly(r) ==
    /\ req[r].at = "make"
    /\ MakeEntry(r)
    /\ UNCHANGED <<asks, clock, due, serviceVars>>
Make(r) ==
    /\ req[r].at = "make"
    /\ IF Entry(r).bucket # 0 THEN TakeEntry(r) ELSE MakeEntry(r)
    /\ UNCHANGED <<asks, clock, due, serviceVars>>

Allow(r) ==
    /\ req[r].at = "allow"
    /\ IF buckets[req[r].bucket].left > 0
       THEN /\ buckets' = [buckets EXCEPT ![req[r].bucket].left = @ - 1]
            /\ due' = [due EXCEPT ![TableOf(r)][OwnerOf(r)] = @ - 1]
            /\ req' = [req EXCEPT ![r] = [@ EXCEPT !.at = "handler", !.since = 0]]
       ELSE Answer(r, 429) /\ UNCHANGED <<buckets, due>>
    /\ UNCHANGED <<asks, clock, held, serviceVars>>

\* cleanupLoop
Cleanup(table) ==
    /\ table \notin Shared
    /\ LET idle == { a \in Addresses : held[table][a].bucket # 0
                                       /\ clock - held[table][a].seen > CleanupAfter }
       IN  /\ idle # {}
           /\ held' = [held EXCEPT ![table] =
                         [o \in Owners |-> IF o \in idle THEN NoBucket ELSE @[o]]]
    /\ UNCHANGED <<asks, req, clock, buckets, due, serviceVars>>

AtMost(n, bound) == IF n < bound THEN n ELSE bound

\* A tick: every bucket gets a token back.  Bound: a request stands at most
\* MaxDelay ticks between its bucket and Allow.
Tick ==
    /\ clock < MaxTime
    /\ \A r \in Requests :
          req[r].at = "allow" /\ TableOf(r) \notin Shared => clock - req[r].since < MaxDelay
    /\ clock' = clock + 1
    /\ buckets' = [b \in DOMAIN buckets |->
                     [buckets[b] EXCEPT !.left = AtMost(@ + 1, buckets[b].size)]]
    /\ due' = [table \in Tables |-> [o \in Owners |-> AtMost(due[table][o] + 1, Burst[table])]]
    /\ UNCHANGED <<asks, req, held, serviceVars>>

-----------------------------------------------------------------------------
(* The access token and the handlers.                                      *)

ReadsTorrent == {"files", "select", "magnet", "stream", "subtitles", "info"}

\* "valid" stands for what each handler asks of the torrent ID, the client ID
\* and the body before it calls the service.
BadRequest(ask) == IF ask.valid THEN 0 ELSE 400

TokenMiddleware(ask) == IF ask.token THEN 0 ELSE 401

FirstOf(refusal, other) == IF refusal # 0 THEN refusal ELSE other

\* The token comes before every handler of the protected group and of the
\* position route; the stream's own handler looks at the torrent ID first.
Refusal(ask) ==
    CASE ask.route \in {"version", "metrics"} -> 0
      [] ask.route = "stream" -> FirstOf(BadRequest(ask), TokenMiddleware(ask))
      [] OTHER                -> FirstOf(TokenMiddleware(ask), BadRequest(ask))

Handler(r) ==
    LET ask == req[r].ask IN
    /\ req[r].at = "handler"
    /\ IF Refusal(ask) # 0 THEN Answer(r, Refusal(ask))
       ELSE To(r, IF ask.route \in ReadsTorrent THEN "read" ELSE "act")
    /\ UNCHANGED <<asks, bucketVars, serviceVars>>

\* canRead: the owner may, and everybody when no owner is known, which is so of
\* a torrent that is not there.  No visibility provider is configured.
CanRead(client, torrent) == owner[torrent] \in {client, Nobody}

\* The service asks before it takes its lock for the act.  A stream and a
\* subtitle file are asked for twice, by the handler and by the service, and the
\* two refuse differently.
Read(r) ==
    LET ask == req[r].ask IN
    /\ req[r].at \in {"read", "reread"}
    /\ IF CanRead(ask.client, ask.torrent)
       THEN To(r, IF req[r].at = "read" /\ ask.route \in {"stream", "subtitles"}
                  THEN "reread" ELSE "act")
       ELSE Answer(r, IF req[r].at = "read" THEN 403 ELSE 404)
    /\ UNCHANGED <<asks, bucketVars, serviceVars>>

\* What only looks at the service.
GetFiles(ask) == IF ask.torrent \in present THEN 200 ELSE 404
MagnetFor(ask) == IF ask.torrent \in present THEN 200 ELSE 404

\* Subtitles need no selection, but an index that names a file.
ServeSubtitles(ask) ==
    CASE ask.torrent \notin present                         -> 404
      [] ask.torrent \in present /\ ask.file \notin Files   -> 400
      [] ask.torrent \in present /\ ask.file \in Files      -> 200

\* The prioritiser knows a torrent of which a file was selected.  The position
\* goes to it with nobody asked whether the client may read the torrent.
GetBufferInfo(ask) ==
    IF \E c \in Clients : selected[ask.torrent][c] # Unchosen THEN 200 ELSE 404
SetBufferPosition(ask) == GetBufferInfo(ask)

ActReads(r) ==
    LET ask == req[r].ask IN
    /\ Answer(r, CASE ask.route = "files"     -> GetFiles(ask)
                   [] ask.route = "magnet"    -> MagnetFor(ask)
                   [] ask.route = "subtitles" -> ServeSubtitles(ask)
                   [] ask.route = "info"      -> GetBufferInfo(ask)
                   [] ask.route = "position"  -> SetBufferPosition(ask)
                   [] ask.route \in {"list", "version", "metrics"} -> 200)
    /\ UNCHANGED serviceVars

\* An add makes the client the owner, also of a torrent another one added.
Add(r) ==
    LET ask == req[r].ask IN
    /\ ask.route = "add"
    /\ \/ Answer(r, 500) /\ UNCHANGED <<present, owner>>
       \/ /\ Answer(r, 201)
          /\ present' = present \cup {ask.torrent}
          /\ owner' = [owner EXCEPT ![ask.torrent] = ask.client]
    /\ UNCHANGED <<selected, chosen>>

\* RemoveTorrent: owner or nobody's; the selections of everyone go with it.
Remove(r) ==
    LET ask == req[r].ask
        gone == ask.torrent IN
    /\ ask.route = "remove"
    /\ CASE gone \notin present -> Answer(r, 404) /\ UNCHANGED serviceVars
         [] gone \in present /\ ~CanRead(ask.client, gone) ->
                Answer(r, 403) /\ UNCHANGED serviceVars
         [] OTHER ->
                /\ Answer(r, 200)
                /\ present' = present \ {gone}
                /\ owner' = [owner EXCEPT ![gone] = Nobody]
                /\ selected' = [selected EXCEPT ![gone] = [c \in Clients |-> Unchosen]]
                /\ chosen' = {s \in chosen : s.torrent # gone}

\* The selections of a torrent after a client selected a file.
SelectedByAll(torrent, client, file) == [c \in Clients |-> file]
SelectedBy(torrent, client, file) == [selected[torrent] EXCEPT ![client] = file]

Select(r) ==
    LET ask == req[r].ask IN
    /\ ask.route = "select"
    /\ IF ask.torrent \in present /\ ask.file \in Files
       THEN /\ Answer(r, 200)
            /\ selected' = [selected EXCEPT ![ask.torrent] =
                              SelectedBy(ask.torrent, ask.client, ask.file)]
            /\ chosen' = chosen \cup
                    {[torrent |-> ask.torrent, client |-> ask.client, file |-> ask.file]}
       ELSE /\ Answer(r, IF ask.torrent \in present THEN 400 ELSE 404)
            /\ UNCHANGED <<selected, chosen>>
    /\ UNCHANGED <<present, owner>>

\* ServeFile from its lock on: the file this client selected.
Stream(r) ==
    LET ask  == req[r].ask
        file == selected[ask.torrent][ask.client]
    IN  /\ ask.route = "stream"
        /\ req' = [req EXCEPT ![r] =
                     CASE ask.torrent \notin present -> [@ EXCEPT !.at = "done", !.status = 404]
                       [] ask.torrent \in present /\ file = Unchosen ->
                              [@ EXCEPT !.at = "done", !.status = 400]
                       [] OTHER -> [@ EXCEPT !.at = "done", !.status = 200, !.got = file]]
        /\ UNCHANGED serviceVars

Act(r) ==
    /\ req[r].at = "act"
    /\ IF req[r].ask.route \in {"add", "remove", "select", "stream"}
       THEN Add(r) \/ Remove(r) \/ Select(r) \/ Stream(r)
       ELSE ActReads(r)
    /\ UNCHANGED <<asks, bucketVars>>

\* A panic in the handler: Recovery answers, and the server goes on.
Recover(r) ==
    /\ req[r].at = "act" /\ req[r].ask.route = "list"
    /\ Answer(r, 500)
    /\ UNCHANGED <<asks, bucketVars, serviceVars>>

Next ==
    \/ \E r \in Requests :
          \/ Arrive(r) \/ Look(r) \/ Touch(r) \/ Make(r) \/ Allow(r)
          \/ Handler(r) \/ Read(r) \/ Act(r) \/ Recover(r)
    \/ \E table \in Tables : Cleanup(table)
    \/ Tick

Spec == Init /\ [][Next]_vars

-----------------------------------------------------------------------------
(* Properties.                                                             *)

\* However the lookups of simultaneous requests interleave with each other and
\* with the cleanup, an address is never let through more often than one bucket
\* that lives for ever would let it.
AdmittedWithinBudget ==
    \A table \in Tables, o \in Owners : due[table][o] >= 0

\* And never less often: who is refused has spent the budget of that very
\* route; a heartbeat is not throttled by what the control plane spends.
RefusedOnlyOverBudget ==
    [][ \A r \in Requests :
          req'[r].status = 429 /\ req[r].status # 429 =>
              LET ask   == req[r].ask
                  table == IF ask.route \in {"position", "stream", "metrics"}
                           THEN ask.route ELSE "api"
                  whose == IF table \in Shared THEN Everyone ELSE ClientIP(ask)
              IN  due[table][whose] = 0 ]_vars

\* Selection is per client: a stream delivers a file its own client selected of
\* the torrent since it came, whatever other clients select, add or remove
\* between the checks of the request.
OwnChoiceIsServed ==
    [][ \A r \in Requests :
          req'[r].got # req[r].got =>
              [torrent |-> req[r].ask.torrent, client |-> req[r].ask.client,
               file |-> req'[r].got] \in chosen ]_vars
=============================================================================
