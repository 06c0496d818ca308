--------------------------- MODULE TorrentService ---------------------------
(***************************************************************************)
(* The backend's torrents and what a restart leaves of them: the service   *)
(* that adds, removes and streams torrents                                 *)
(* (backend/internal/torrent/service.go), the one client under it          *)
(* (torrent/local_backend.go) and the two files it saves                   *)
(* (backend/internal/persistence/persistence.go).                          *)
(*                                                                         *)
(* HTTP requests run side by side, each a sequence of steps between which  *)
(* the others run: a lock taken once is a step, a wait ends one, and each  *)
(* file is a step of its own.  The process can die between any two.        *)
(***************************************************************************)
EXTENDS Naturals, FiniteSets

CONSTANTS
    User, NoUser,  \* client IDs, and none
    Torrent,       \* infohashes
    Call,          \* how many requests there may be at a time, by name
    MaxTorrents,   \* the limit on torrents
    Plans          \* what a run may hold, one plan per initial state

\* How often what happens: requests to add and to remove, requests to select or
\* to stream, ends of the process, removals that give up waiting for streams,
\* fetches of metadata, restores and file writes that fail, adds that land after all
\* though their torrent was dropped.
Plan == [adds : Nat, removes : Nat, reads : Nat, ends : Nat, timeouts : Nat,
         failedFetches : Nat, failedRestores : Nat, failedWrites : Nat, lateAdds : Nat]

ASSUME NamesAssumption ==
    /\ NoUser \notin User /\ User \cap Call = {}
    /\ {"nothing", "removed"} \cap (User \cup Call) = {}
    /\ IsFiniteSet(Call) /\ IsFiniteSet(Torrent)

ASSUME BoundAssumption == MaxTorrents \in Nat \ {0} /\ Plans \subseteq Plan

\* What the two files hold: torrents.json the owners, torrents_registry.json an
\* entry per torrent, with the magnet or the .torrent it was added from or
\* without.  A save carries the same three from its snapshot to the files.
Saved == [owners : [Torrent -> User \cup {NoUser}],
          registry : SUBSET Torrent, sources : SUBSET Torrent]

Nothing == [owners |-> [t \in Torrent |-> NoUser], registry |-> {}, sources |-> {}]

\* A request and how far it is.
Request ==
    [op : {"add", "remove", "select", "stream"}, user : User, torrent : Torrent,
     at : {"fetching", "allowed", "snapshot", "owners", "registry", "draining", "streaming"},
     dropped : BOOLEAN, snapshot : Saved]
Closing == [op : {"close"}, at : {"snapshot", "owners", "registry", "stopping"},
            snapshot : Saved]
Idle    == [op |-> "none", at |-> "idle"]

VARIABLES
    process,   \* "up"; "closing", when no request comes any more; or "down"
    torrents,  \* Service.torrents
    owner,     \* Service.torrentOwners
    source,    \* Service.torrentSources
    selected,  \* Service.selectedFiles: who selected a file of a torrent
    client,    \* torrents the torrent client has
    calls,     \* the requests
    disk,      \* the two files
    promise,   \* no state of the code: whose the last answer said a torrent is, or
               \* that it is removed; the request, when one has made it so and is
               \* about to answer
    overlapped,\* no state of the code: two saves ran at once
    spent      \* the plan, and how much of each of its bounds is used

serviceVars == <<torrents, owner, source, selected>>
historyVars == <<promise, overlapped>>
vars        == <<process, serviceVars, client, calls, disk, historyVars, spent>>

\* A run of the plan has some left of a bound, and uses one.
Left(bound) == spent[bound] < spent.plan[bound]
Use(bound)  == Left(bound) /\ spent' = [spent EXCEPT ![bound] = @ + 1]

At(place)  == {c \in Call : calls[c].at = place}
Saving     == At("snapshot") \cup At("owners") \cup At("registry")
Goes(c, place) == calls' = [calls EXCEPT ![c].at = place]
Ends(c)    == calls' = [calls EXCEPT ![c] = Idle]

Asks(c, op, u, t, place) ==
    /\ process = "up" /\ calls[c] = Idle
    /\ calls' = [calls EXCEPT ![c] =
          [op |-> op, user |-> u, torrent |-> t, at |-> place, dropped |-> FALSE,
           snapshot |-> Nothing]]

\* The client lets go of t: whoever waits for its metadata waits for nothing.
WithoutObject(cs, t) ==
    [c \in Call |-> IF cs[c].at = "fetching" /\ cs[c].torrent = t
                    THEN [cs[c] EXCEPT !.dropped = TRUE] ELSE cs[c]]

-----------------------------------------------------------------------------
\* A first start: nothing on disk.
Init ==
    /\ process = "up"
    /\ torrents = {} /\ source = {} /\ client = {}
    /\ owner = [t \in Torrent |-> NoUser]
    /\ selected = [t \in Torrent |-> {}]
    /\ calls = [c \in Call |-> Idle]
    /\ disk = Nothing
    /\ promise = [t \in Torrent |-> "nothing"]
    /\ overlapped = FALSE
    /\ \E plan \in Plans :
          spent = [plan |-> plan, adds |-> 0, removes |-> 0, reads |-> 0, ends |-> 0,
                   timeouts |-> 0, failedFetches |-> 0, failedRestores |-> 0,
                   failedWrites |-> 0, lateAdds |-> 0]

-----------------------------------------------------------------------------
(* Adding.                                                                 *)

\* A mutant: nobody counts.
AddBeginsUnchecked(c, u, t) ==
    /\ Asks(c, "add", u, t, "fetching") /\ Use("adds")
    /\ client' = client \cup {t}
    /\ UNCHANGED <<process, serviceVars, disk, historyVars>>

\* AddMagnet, AddTorrent: the limit is looked at, and the client told.  A second
\* add of a torrent the client has waits on the same object.
AddBegins(c, u, t) ==
    /\ Asks(c, "add", u, t, "fetching") /\ Use("adds")
    /\ Cardinality(torrents) < MaxTorrents
    /\ client' = client \cup {t}
    /\ UNCHANGED <<process, serviceVars, disk, historyVars>>

\* No metadata in time, or nobody waits for it any more: the object is dropped,
\* whoever else waits for it or has it.
AddFails(c) ==
    /\ calls[c].at = "fetching" /\ Use("failedFetches")
    /\ LET t == calls[c].torrent IN
       IF calls[c].dropped
       THEN Ends(c) /\ UNCHANGED client
       ELSE /\ calls' = [WithoutObject(calls, t) EXCEPT ![c] = Idle]
            /\ client' = client \ {t}
    /\ UNCHANGED <<process, serviceVars, disk, historyVars>>

\* A mutant: the answer comes before the save.
AddLandsUnsaved(c) ==
    /\ calls[c].at = "fetching"
    /\ LET t == calls[c].torrent IN
       /\ torrents' = torrents \cup {t}
       /\ owner' = [owner EXCEPT ![t] = calls[c].user]
       /\ source' = source \cup {t}
       /\ promise' = [promise EXCEPT ![t] = calls[c].user]
    /\ Ends(c)
    /\ IF calls[c].dropped THEN Use("lateAdds") ELSE UNCHANGED spent
    /\ UNCHANGED <<process, selected, client, disk, overlapped>>

\* The metadata is there: the three maps are written under one lock.  The object
\* may have been dropped since the metadata came, and lands all the same.
AddLands(c) ==
    /\ calls[c].at = "fetching"
    /\ LET t == calls[c].torrent IN
       /\ torrents' = torrents \cup {t}
       /\ owner' = [owner EXCEPT ![t] = calls[c].user]
       /\ source' = source \cup {t}
       /\ promise' = [promise EXCEPT ![t] = c]
    /\ Goes(c, "snapshot")
    /\ IF calls[c].dropped THEN Use("lateAdds") ELSE UNCHANGED spent
    /\ UNCHANGED <<process, selected, client, disk, overlapped>>

-----------------------------------------------------------------------------
(* SaveRegistry: a snapshot under the lock, then the two files.            *)

\* A mutant: the registry describes the torrents and not where they came from
\* (bug-0053 as it was).
TakeSnapshotWithoutSources(c) ==
    /\ calls[c].at = "snapshot"
    /\ calls' = [calls EXCEPT ![c].at = "owners",
                    ![c].snapshot = [owners |-> owner, registry |-> torrents, sources |-> {}]]
    /\ overlapped' = (overlapped \/ At("owners") \cup At("registry") # {})
    /\ UNCHANGED <<process, serviceVars, client, disk, promise, spent>>

TakeSnapshot(c) ==
    /\ calls[c].at = "snapshot"
    /\ calls' = [calls EXCEPT ![c].at = "owners",
                    ![c].snapshot =
                        [owners |-> owner, registry |-> torrents, sources |-> source]]
    /\ overlapped' = (overlapped \/ At("owners") \cup At("registry") # {})
    /\ UNCHANGED <<process, serviceVars, client, disk, promise, spent>>

\* What follows a save, whether it worked or not: an add answers, a removal waits
\* for the streams, and Close stops the client.
GoesOn(c) ==
    CASE calls[c].op = "add" ->
            LET t == calls[c].torrent IN
            /\ promise' = IF promise[t] = c
                          THEN [promise EXCEPT ![t] = calls[c].user] ELSE promise
            /\ Ends(c)
            /\ UNCHANGED <<process, serviceVars, client>>
      [] calls[c].op = "remove" ->
            Goes(c, "draining") /\ UNCHANGED <<process, serviceVars, client, promise>>
      [] OTHER ->
            Goes(c, "stopping") /\ UNCHANGED <<process, serviceVars, client, promise>>

\* A mutant: the registry is tried without the owners.
WriteOwnersRegardless(c) ==
    /\ calls[c].at = "owners"
    /\ \/ /\ disk' = [disk EXCEPT !.owners = calls[c].snapshot.owners]
          /\ UNCHANGED spent
       \/ Use("failedWrites") /\ UNCHANGED disk
    /\ Goes(c, "registry")
    /\ UNCHANGED <<process, serviceVars, client, promise, overlapped>>

\* torrents.json, by a temporary file and a rename; without it the registry is
\* not tried.
WriteOwners(c) ==
    /\ calls[c].at = "owners"
    /\ \/ /\ disk' = [disk EXCEPT !.owners = calls[c].snapshot.owners]
          /\ Goes(c, "registry")
          /\ UNCHANGED <<process, serviceVars, client, promise, spent>>
       \/ Use("failedWrites") /\ GoesOn(c) /\ UNCHANGED disk
    /\ UNCHANGED overlapped

\* torrents_registry.json, the same way.
WriteRegistry(c) ==
    /\ calls[c].at = "registry"
    /\ \/ /\ disk' = [disk EXCEPT !.registry = calls[c].snapshot.registry,
                                  !.sources = calls[c].snapshot.sources]
          /\ UNCHANGED spent
       \/ Use("failedWrites") /\ UNCHANGED disk
    /\ GoesOn(c)
    /\ UNCHANGED overlapped

-----------------------------------------------------------------------------
(* Removing.                                                               *)

\* A mutant: the files are left as they were.
RemoveBeginsUnsaved(c, u, t) ==
    /\ Asks(c, "remove", u, t, "draining") /\ Use("removes")
    /\ t \in torrents /\ owner[t] \in {u, NoUser}
    /\ torrents' = torrents \ {t}
    /\ selected' = [selected EXCEPT ![t] = {}]
    /\ owner' = [owner EXCEPT ![t] = NoUser]
    /\ source' = source \ {t}
    /\ promise' = [promise EXCEPT ![t] = c]
    /\ UNCHANGED <<process, client, disk, overlapped>>

\* RemoveTorrent: only the owner may, and anybody when there is none; the maps
\* are emptied under the lock.
RemoveBegins(c, u, t) ==
    /\ Asks(c, "remove", u, t, "snapshot") /\ Use("removes")
    /\ t \in torrents /\ owner[t] \in {u, NoUser}
    /\ torrents' = torrents \ {t}
    /\ selected' = [selected EXCEPT ![t] = {}]
    /\ owner' = [owner EXCEPT ![t] = NoUser]
    /\ source' = source \ {t}
    /\ promise' = [promise EXCEPT ![t] = c]
    /\ UNCHANGED <<process, client, disk, overlapped>>

\* A mutant: the streams are not waited for.
RemoveDropsAtOnce(c) ==
    /\ calls[c].at = "draining"
    /\ LET t == calls[c].torrent IN
       /\ client' = client \ {t}
       /\ calls' = [WithoutObject(calls, t) EXCEPT ![c] = Idle]
       /\ promise' = IF promise[t] = c THEN [promise EXCEPT ![t] = "removed"] ELSE promise
    /\ UNCHANGED <<process, serviceVars, disk, overlapped, spent>>

\* The streams have ended, all of them and not only this torrent's, or the
\* request's time has: the torrent of that infohash is dropped.
RemoveDrops(c) ==
    /\ calls[c].at = "draining"
    /\ IF At("streaming") = {} THEN UNCHANGED spent ELSE Use("timeouts")
    /\ LET t == calls[c].torrent IN
       /\ client' = client \ {t}
       /\ calls' = [WithoutObject(calls, t) EXCEPT ![c] = Idle]
       /\ promise' = IF promise[t] = c THEN [promise EXCEPT ![t] = "removed"] ELSE promise
    /\ UNCHANGED <<process, serviceVars, disk, overlapped>>

-----------------------------------------------------------------------------
(* Watching.                                                               *)

\* canRead: the owner, and anybody when there is none; the server wires no rooms in
\* that would show a torrent to others.
CanRead(u, t) == owner[t] \in {u, NoUser}

\* SelectFile and ServeFile look at the owner first...
ReadBegins(c, op, u, t) ==
    /\ Asks(c, op, u, t, "allowed") /\ Use("reads")
    /\ CanRead(u, t)
    /\ UNCHANGED <<process, serviceVars, client, disk, historyVars>>

\* ...and at the torrent under another lock.
SelectFile(c) ==
    /\ calls[c].at = "allowed" /\ calls[c].op = "select"
    /\ LET t == calls[c].torrent IN
       selected' = IF t \in torrents THEN [selected EXCEPT ![t] = @ \cup {calls[c].user}]
                                     ELSE selected
    /\ Ends(c)
    /\ UNCHANGED <<process, torrents, owner, source, client, disk, historyVars, spent>>

\* A stream is registered in the same critical section.
ServeFile(c) ==
    /\ calls[c].at = "allowed" /\ calls[c].op = "stream"
    /\ IF calls[c].torrent \in torrents /\ calls[c].user \in selected[calls[c].torrent]
       THEN Goes(c, "streaming") ELSE Ends(c)
    /\ UNCHANGED <<process, serviceVars, client, disk, historyVars, spent>>

StreamEnds(c) ==
    /\ calls[c].at = "streaming"
    /\ Ends(c)
    /\ UNCHANGED <<process, serviceVars, client, disk, historyVars, spent>>

-----------------------------------------------------------------------------
(* The process.                                                            *)

\* Only the files survive the process.
Halt ==
    /\ process' = "down"
    /\ torrents' = {} /\ source' = {} /\ client' = {}
    /\ owner' = [t \in Torrent |-> NoUser]
    /\ selected' = [t \in Torrent |-> {}]
    /\ calls' = [c \in Call |-> Idle]

\* SIGTERM: no request comes any more, those that have not ended in time go on
\* beside Close.
Close(c) ==
    /\ process = "up" /\ calls[c] = Idle /\ Use("ends")
    /\ process' = "closing"
    /\ calls' = [calls EXCEPT ![c] = [op |-> "close", at |-> "snapshot", snapshot |-> Nothing]]
    /\ UNCHANGED <<serviceVars, client, disk, historyVars>>

\* The client is closed, and the process with it.
Exit(c) ==
    /\ calls[c].at = "stopping"
    /\ Halt
    /\ UNCHANGED <<disk, historyVars, spent>>

Crash ==
    /\ process # "down" /\ Use("ends")
    /\ Halt
    /\ UNCHANGED <<disk, historyVars>>

\* A start: the owners are loaded, and every torrent that has a source is added
\* again, if its peers answer in time.  No request is served before it is done.
Boot ==
    /\ process = "down"
    /\ process' = "up"
    /\ owner' = disk.owners
    /\ \E offline \in SUBSET (disk.registry \cap disk.sources) :
          /\ spent.failedRestores + Cardinality(offline) <= spent.plan.failedRestores
          /\ spent' = [spent EXCEPT !.failedRestores = @ + Cardinality(offline)]
          /\ torrents' = (disk.registry \cap disk.sources) \ offline
    /\ client' = torrents'
    /\ UNCHANGED <<source, selected, calls, disk, historyVars>>

-----------------------------------------------------------------------------
Next ==
    \/ \E c \in Call, u \in User, t \in Torrent :
          \/ AddBegins(c, u, t) \/ RemoveBegins(c, u, t)
          \/ \E op \in {"select", "stream"} : ReadBegins(c, op, u, t)
    \/ \E c \in Call :
          \/ AddFails(c) \/ AddLands(c)
          \/ TakeSnapshot(c) \/ WriteOwners(c) \/ WriteRegistry(c)
          \/ RemoveDrops(c)
          \/ SelectFile(c) \/ ServeFile(c) \/ StreamEnds(c)
          \/ Close(c) \/ Exit(c)
    \/ Crash \/ Boot

Spec == Init /\ [][Next]_vars

-----------------------------------------------------------------------------
(* Properties.                                                             *)

\* Every variable has its type, and a source or a selection is one of a torrent.
ServiceTypeOK ==
    /\ process \in {"up", "closing", "down"}
    /\ torrents \subseteq Torrent /\ client \subseteq Torrent
    /\ owner \in [Torrent -> User \cup {NoUser}]
    /\ source \subseteq torrents
    /\ selected \in [Torrent -> SUBSET User]
    /\ \A t \in Torrent \ torrents : selected[t] = {}
    /\ calls \in [Call -> Request \cup Closing \cup {Idle}]
    /\ disk \in Saved
    /\ promise \in [Torrent -> User \cup Call \cup {"nothing", "removed"}]
    /\ overlapped \in BOOLEAN

\* A torrent a user was told is added is there, and is that user's, until somebody
\* removes it or adds it again: "a restart restores who added each torrent and
\* re-adds all known torrents".
KeptSurvives ==
    process = "up" => \A t \in Torrent :
        promise[t] \in User => t \in torrents /\ owner[t] = promise[t]

\* The writes worked, and no two saves ran at once.
Orderly == ~overlapped /\ spent.failedWrites = 0

\* So it is over the first restart, wherever the end came, provided the peers are
\* there again and the saves were orderly.
KeptOverOneRestart ==
    Orderly /\ spent.ends <= 1 /\ spent.failedRestores = 0 => KeptSurvives

\* A torrent that was removed stays so, over any number of restarts.
RemovedStaysRemoved ==
    Orderly => \A t \in Torrent : promise[t] = "removed" => t \notin torrents

\* Between two saves a crash would cost nothing that was added since the start: the
\* files hold every torrent, its owner and its source.
FilesAreCurrent ==
    Orderly /\ process # "down" /\ Saving = {} =>
        \A t \in torrents : /\ t \in disk.registry /\ disk.owners[t] = owner[t]
                            /\ t \in source => t \in disk.sources

\* Every torrent has an owner, over restarts, crashes and failed writes, as long as
\* no two saves ran at once and nothing was removed: a torrent without one "can only
\* come from persistence written before ownership was tracked".
OwnedUnlessRemoved ==
    process = "up" /\ ~overlapped /\ spent.removes = 0 =>
        \A t \in torrents : owner[t] # NoUser

\* The limit is overrun by no more than the requests that passed it together.
LimitOverrun == Cardinality(torrents) <= MaxTorrents + Cardinality(Call) - 1

\* What is streamed is there: no torrent is dropped "between validation and
\* reading".
StreamIsServed == \A c \in At("streaming") : calls[c].torrent \in client

\* So it is as long as one torrent is added once and no removal gives up waiting.
StreamOfOneAddIsServed == spent.adds <= 1 /\ spent.timeouts = 0 => StreamIsServed

=============================================================================
