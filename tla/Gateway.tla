------------------------------- MODULE Gateway -------------------------------
(***************************************************************************)
(* The torrent backend that is a proxy of an htorrent gateway,             *)
(* torrent/remote_backend.go: torrents are added at the gateway and        *)
(* forgotten here only, progress comes from a cache of the gateway's       *)
(* metrics that is filled under a lock held through the request, and films *)
(* are passed through.  The rows of the torrent list (torrentToInfo) ask   *)
(* the cache several times each.                                           *)
(*                                                                         *)
(* The gateway itself is external: it downloads, answers or does not, and  *)
(* knows nothing after a restart.                                          *)
(***************************************************************************)
EXTENDS Integers

CONSTANTS Torrents,
          Total,       \* torrent -> its size, as the gateway's /info said
          Readers,     \* goroutines that render rows
          Streams,     \* requests of players
          MaxRestarts  \* bound: restarts of the gateway

Unknown == -1
Metrics == [Torrents -> Int]
NoAnswer == [t \in Torrents |-> -2]
Free == [nobody |-> TRUE]
EmptyCache == [t \in Torrents |-> Unknown]

ASSUME GatewayAssumption == /\ Total \in [Torrents -> Nat] /\ MaxRestarts \in Nat
                            /\ Free \notin Readers

VARIABLES
    gateway,   \* torrent -> bytes the gateway has, Unknown if it has not seen it
    restarts,
    adding,    \* torrents whose /info was answered, not yet in the service
    handles,   \* torrents the service holds
    cache,     \* metrics; Unknown for a torrent that is not in it
    fresh,     \* metricsValid, and younger than the TTL
    lock,      \* mu: the reader that holds it
    answer,    \* the gateway's answer to the holder's request, or NoAnswer
    reader,    \* what a goroutine has rendered of a row; "setback" is not the
               \* code's: an answer that said less was stored meanwhile
    stream     \* a film passed through

vars == <<gateway, restarts, adding, handles, cache, fresh, lock, answer, reader, stream>>

Idle == [at |-> "idle", setback |-> FALSE, torrent |-> "none", progress |-> 0, status |-> "none"]
NoStream == [at |-> "none", torrent |-> "none"]

Init == /\ gateway = [t \in Torrents |-> Unknown] /\ restarts = 0
        /\ adding = {} /\ handles = {}
        /\ cache = EmptyCache /\ fresh = FALSE
        /\ lock = Free /\ answer = NoAnswer
        /\ reader = [r \in Readers |-> Idle]
        /\ stream = [s \in Streams |-> NoStream]

-----------------------------------------------------------------------------
\* The gateway

Progress(t) ==
    /\ gateway[t] # Unknown /\ gateway[t] < Total[t]
    /\ gateway' = [gateway EXCEPT ![t] = @ + 1]
    /\ UNCHANGED <<restarts, adding, handles, cache, fresh, lock, answer, reader, stream>>

Restart ==
    /\ restarts < MaxRestarts
    /\ restarts' = restarts + 1
    /\ gateway' = [t \in Torrents |-> Unknown]
    /\ UNCHANGED <<adding, handles, cache, fresh, lock, answer, reader, stream>>

Answers ==
    /\ lock # Free /\ answer = NoAnswer
    /\ answer' = gateway
    /\ UNCHANGED <<gateway, restarts, adding, handles, cache, fresh, lock, reader, stream>>

-----------------------------------------------------------------------------
\* Adding and dropping

\* AddMagnet, a .torrent turned into its magnet included: from here on the
\* gateway knows the torrent, whatever becomes of its answer.
FetchInfo(t) ==
    /\ t \notin handles \cup adding
    /\ gateway' = [gateway EXCEPT ![t] = IF @ = Unknown THEN 0 ELSE @]
    /\ adding' = adding \cup {t}
    /\ UNCHANGED <<restarts, handles, cache, fresh, lock, answer, reader, stream>>

HandleFromInfo(t) ==
    /\ t \in adding
    /\ adding' = adding \ {t} /\ handles' = handles \cup {t}
    /\ UNCHANGED <<gateway, restarts, cache, fresh, lock, answer, reader, stream>>

AddFails(t) ==
    /\ t \in adding
    /\ adding' = adding \ {t}
    /\ UNCHANGED <<gateway, restarts, handles, cache, fresh, lock, answer, reader, stream>>

\* A local forget: neither the gateway nor the cache hears of it.
Drop(t) ==
    /\ t \in handles
    /\ handles' = handles \ {t}
    /\ UNCHANGED <<gateway, restarts, adding, cache, fresh, lock, answer, reader, stream>>

-----------------------------------------------------------------------------
\* The rows

\* ListTorrents renders from a copy of the map.
Render(r, t) ==
    /\ reader[r].at = "idle" /\ t \in handles
    /\ reader' = [reader EXCEPT ![r] = [Idle EXCEPT !.at = "peers", !.torrent = t]]
    /\ UNCHANGED <<gateway, restarts, adding, handles, cache, fresh, lock, answer, stream>>

\* BytesCompleted
Completed(metrics, t) == IF metrics[t] = Unknown THEN 0 ELSE metrics[t]

\* A mutant of Rendered: the handle's own flag, which nothing sets, is believed.
RenderedByFlag(row, metrics) ==
    LET bytes == Completed(metrics, row.torrent)
    IN  CASE row.at = "peers" -> [row EXCEPT !.at = "progress"]
          [] row.at = "progress" -> [row EXCEPT !.at = "some", !.progress = bytes]
          [] row.at = "some" -> [row EXCEPT !.at = "done", !.status =
                                    IF bytes > 0 THEN "downloading" ELSE "loading"]

\* torrentToInfo: ActivePeers, BytesCompleted, Complete and BytesCompleted
\* again, each with metrics of its own.  A torrent of no bytes is asked less.
Rendered(row, metrics) ==
    LET t == row.torrent
        bytes == Completed(metrics, t)
    IN  CASE row.at = "peers" -> [row EXCEPT !.at = IF Total[t] = 0 THEN "some" ELSE "progress"]
          [] row.at = "progress" -> [row EXCEPT !.at = "complete", !.progress = bytes]
          [] row.at = "complete" -> IF bytes >= Total[t]
                                    THEN [row EXCEPT !.at = "done", !.status = "seeding"]
                                    ELSE [row EXCEPT !.at = "some"]
          [] row.at = "some" -> [row EXCEPT !.at = "done", !.status =
                                    IF bytes > 0 THEN "downloading" ELSE "loading"]

Asks(r) == reader[r].at \in {"peers", "progress", "complete", "some"}

\* metricsFor, from the cache.
Hit(r) ==
    /\ Asks(r) /\ lock = Free /\ fresh
    /\ reader' = [reader EXCEPT ![r] = Rendered(@, cache)]
    /\ UNCHANGED <<gateway, restarts, adding, handles, cache, fresh, lock, answer, stream>>

\* metricsFor, over the network, the lock held.
Ask(r) ==
    /\ Asks(r) /\ lock = Free /\ ~fresh
    /\ lock' = r
    /\ UNCHANGED <<gateway, restarts, adding, handles, cache, fresh, answer, reader, stream>>

\* The answer replaces the cache, whole.
Store(r) ==
    /\ lock = r /\ answer # NoAnswer
    /\ cache' = answer
    /\ fresh' = TRUE
    /\ lock' = Free /\ answer' = NoAnswer
    /\ LET setback == \E t \in Torrents : answer[t] < cache[t] IN
       reader' = [x \in Readers |->
          LET row == [reader[x] EXCEPT !.setback = @ \/ (setback /\ Asks(x))]
          IN  IF x = r THEN Rendered(row, answer) ELSE row]
    /\ UNCHANGED <<gateway, restarts, adding, handles, stream>>

\* A mutant of AskFails: a failed refresh leaves nothing in the cache.
AskFailsForgetting(r) ==
    /\ lock = r
    /\ cache' = [t \in Torrents |-> Unknown]
    /\ lock' = Free /\ answer' = NoAnswer
    /\ reader' = [reader EXCEPT ![r] = Rendered(@, cache')]
    /\ UNCHANGED <<gateway, restarts, adding, handles, fresh, stream>>

\* A mutant of AskFails: only a bad answer ends the request.
AskFailsOnAnswer(r) ==
    /\ lock = r /\ answer # NoAnswer
    /\ lock' = Free /\ answer' = NoAnswer
    /\ reader' = [reader EXCEPT ![r] = Rendered(@, cache)]
    /\ UNCHANGED <<gateway, restarts, adding, handles, cache, fresh, stream>>

\* Unreachable, refused, not decoded or too late: what was there is served,
\* and the next reader asks again.
AskFails(r) ==
    /\ lock = r
    /\ lock' = Free /\ answer' = NoAnswer
    /\ reader' = [reader EXCEPT ![r] = Rendered(@, cache)]
    /\ UNCHANGED <<gateway, restarts, adding, handles, cache, fresh, stream>>

Expire ==
    /\ fresh /\ lock = Free
    /\ fresh' = FALSE
    /\ UNCHANGED <<gateway, restarts, adding, handles, cache, lock, answer, reader, stream>>

Deliver(r) ==
    /\ reader[r].at = "done"
    /\ reader' = [reader EXCEPT ![r] = Idle]
    /\ UNCHANGED <<gateway, restarts, adding, handles, cache, fresh, lock, answer, stream>>

-----------------------------------------------------------------------------
\* ServeStream

OpenStream(s, t) ==
    /\ stream[s] = NoStream /\ t \in handles
    /\ stream' = [stream EXCEPT ![s] = [at |-> "asked", torrent |-> t]]
    /\ UNCHANGED <<gateway, restarts, adding, handles, cache, fresh, lock, answer, reader>>

\* The gateway takes the torrent up if it does not know it (any more).
Mirror(s) ==
    LET t == stream[s].torrent IN
    /\ stream[s].at = "asked"
    /\ gateway' = [gateway EXCEPT ![t] = IF @ = Unknown THEN 0 ELSE @]
    /\ stream' = [stream EXCEPT ![s].at = "copies"]
    /\ UNCHANGED <<restarts, adding, handles, cache, fresh, lock, answer, reader>>

\* The gateway fails, the film ends, the player hangs up, or the client's
\* timeout passes, which bounds the body too.
StreamEnds(s) ==
    /\ stream[s] # NoStream
    /\ stream' = [stream EXCEPT ![s] = NoStream]
    /\ UNCHANGED <<gateway, restarts, adding, handles, cache, fresh, lock, answer, reader>>

Row(r) == Hit(r) \/ Ask(r) \/ Store(r) \/ AskFails(r) \/ Deliver(r)

Next == \/ Restart \/ Answers \/ Expire
        \/ \E t \in Torrents : \/ Progress(t) \/ FetchInfo(t) \/ HandleFromInfo(t)
                               \/ AddFails(t) \/ Drop(t)
        \/ \E r \in Readers : Row(r) \/ \E t \in Torrents : Render(r, t)
        \/ \E s \in Streams : Mirror(s) \/ StreamEnds(s) \/ \E t \in Torrents : OpenStream(s, t)

\* A request of the client ends within its timeout, and a mutex is handed to
\* whoever has waited long; the gateway owes nothing.
Fairness == \A r \in Readers : /\ SF_vars(Hit(r) \/ Ask(r))
                               /\ WF_vars(Store(r) \/ AskFails(r))
                               /\ WF_vars(Deliver(r))

Spec == Init /\ [][Next]_vars /\ Fairness

-----------------------------------------------------------------------------
\* Properties

\* Progress is always one whole answer of the gateway, the answers are shown in
\* the order the gateway gave them, and a failed request changes nothing,
\* however many rows are rendered at once (metricsFor holds mu).
Sampled == INSTANCE Sampler WITH Blank <- [t \in Torrents |-> Unknown], NoLook <- NoAnswer,
                                 truth <- gateway, look <- answer, shown <- cache
ProgressIsSampled == Sampled!Spec

\* A row that shows the whole torrent says that it is complete, and a row that
\* shows anything does not say "loading", though torrentToInfo asks for the
\* bytes anew for each: the gateway going on, an answer that is lost and other
\* rows never make it contradict itself.  An answer of a gateway that has
\* restarted, stored while the row is rendered, may.
RowAgrees ==
    \A r \in Readers : reader[r].at = "done" /\ ~reader[r].setback =>
        /\ reader[r].progress = Total[reader[r].torrent] /\ reader[r].progress > 0
               => reader[r].status = "seeding"
        /\ reader[r].progress > 0 => reader[r].status # "loading"

\* A row is finished though the gateway never answers again and every other
\* row waits for the same lock.
EveryRowIsFinished == \A r \in Readers : Asks(r) ~> reader[r].at = "done"
=============================================================================
