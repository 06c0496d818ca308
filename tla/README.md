# TorrSyncPlayer: models, checks and proofs

TorrSyncPlayer lets a group of people watch the same torrent together. A desktop
client (`src/frontend`) runs a player (mpv), starts a torrent backend
(`src/backend`) as a child process and, for a watch-together session, joins a
*room*: a mesh of libp2p streams between the participants, over which the host's
play, pause and seek and everybody's stalls travel.

This directory holds TLA+ models of that code, the TLC configurations that check
them on small instances, and TLAPS proofs. Paths below are relative to `src/`;
`PROJECT.json` maps every definition to the lines it models.

## 1. Inventory

| Component | State | Operations | Talks to |
|---|---|---|---|
| **Room driver** `frontend/internal/rtc/room.go`, `protocol.go` | roster, host role, film, play state, refused peers, mutex | `Run`/`handle` per message, `Play`, `Pause`, `Seek`, `ReportBuffering`, `AnnounceMagnet` | the mesh below (Send, Receive, DialHint), callbacks of the window above |
| **Mesh** `rtc/mesh.go` | one stream per peer, dials in flight, a queue of 64 incoming messages | `Join`, `Send`, `Receive`, `DialHint`, `Close`; accept, discovery and read loops | the node below, the Room above |
| **Node** `rtc/p2p.go` | libp2p host, DHT, a queue of 16 admitted streams | handshake, dial, lookup, relay reservations | the network |
| **Window, room half** `ui/window.go` | room, roster, `roomStopped`, `myStalled`, what the tick remembers | `roomTick`, `syncTheRoomStop`, `applyPause`, Room callbacks, join and leave | Room, player |
| **Adoption** `ui/window.go`, `adopt/adopt.go` | the film the room named, whether it was adopted | add its torrent, carry the offer out at each poll, present and play | API client, player |
| **Player** `player/*.go` | mpv process, IPC socket | open, one command at a time, retry, close | mpv |
| **Position reporter** `frontend/internal/room/buffer.go` | a ticker | report the position to the backend | backend |
| **Backend launcher** `frontend/internal/backend/backend.go`, `frontend/main.go` | the child and its readiness | start, wait, watch, stop | the server process |
| **Torrent service** `backend/internal/torrent/service.go` | torrents, owners, sources, selection, streams | add, remove, select, stream, restore, save | torrent backends, persistence |
| **Registry on disk** `backend/internal/persistence/persistence.go` | two files | write by temporary file and rename, load | disk |
| **Torrent backends** `torrent/local_backend.go`, `remote_backend.go` | one torrent per infohash; a metrics cache | add, drop, read | anacrolix/torrent; a gateway |
| **Buffer prioritiser** `backend/internal/buffer/service.go` | a window per torrent | move the window, set priorities | torrent backend |
| **Piece storage** `backend/internal/storage/*.go` | a pool with a byte counter | take, write, close | anacrolix/torrent |
| **HTTP API** `backend/internal/api/*.go` | a limiter per address | handlers, pagination, middleware | torrent service |
| **Others** | auth, validation, metrics, settings, tray, catalog, API client | no protocol of their own | |

What is hard in it, and what makes it correct:

* **Rooms.** No server and no order between streams: every participant decides
  from its own roster who the host is. Correct means: whoever is gone leaves the
  roster and the host role, everybody ends up with the same host, a newcomer is
  told the film, the room becomes a full mesh, a refused build stays out.
* **Streams.** Both ends dial at once, the first dial and the discovery race, and
  read loops of old and new streams feed one queue. Correct means: one stream
  per pair, the same at both ends, and a roster that follows it.
* **The stop of the room** (the host pauses for whoever buffers). Reports and
  ticks race, a report may be lost, whoever caused the stop may leave.
  Correct means: the room stops for a member and never stays stopped for nobody.
* **Torrents over restarts.** Two files, saves outside the lock, restores that
  fail when nobody is online. Correct means: a torrent a user added is there
  after any crash, and belongs to that user.
* **Processes.** The client starts the backend and mpv; either may die under it.
  Correct means: no orphan, no command to a dead player that waits forever.
  The settings a person saves reach the backend, whatever environment the
  application inherited.
* **The film of a room.** A torrent is named by the host, added through the same
  field a person types into, and played when a poll finds it. Correct means: what
  plays is a pair of torrent and file the room named, and it comes to play.
* **What is downloaded first.** Every picked file has goroutines that outlive it.
  Correct means: the film that plays, and no other, has the window, and a backend
  that says "ready" has what it says.
* **Limits.** The pool's one counter under many locks, the limiter's table with its
  cleanup. Correct means: the pool never exceeds its capacity, an address is neither
  let past its budget nor refused within it.
* **The gateway.** Progress is a cached look at somebody else's state. Correct means:
  a row shows one look, and looks are shown in order.

Every hazard met while reading is in `PROJECT.json` under `hazards`, at the line
where it bites, with the properties that cover it or the reason why none does.

## 2. Modules

| Module | What it is |
|---|---|
| `Room.tla` | Room drivers of any number of peers over the mesh as a Room sees it |
| `MCRoom.tla`, `MCRoom.cfg` | its instances |
| `RoomProofs.tla` | its safety properties, proved |
| `Mesh.tla` | the streams under the room: dials, admission, duels, read loops |
| `MCMesh.tla`, `MCMesh.cfg` | its instances |
| `MeshProofs.tla` | that settled pairs agree on a stream, that a duel leaves one, and that rosters follow it, proved |
| `TorrentService.tla` | the torrents of the backend and the files that outlive it |
| `TorrentServiceProofs.tla` | the files, owners, removals, the limit and the streams, proved |
| `Window.tla` | one participant's window, between its room and its player |
| `WindowProofs.tla` | the stop of the room and what adoption plays, proved |
| `Launch.tla` | application, backend process and player over several launches |
| `LaunchProofs.tla` | the end of a launch and the way of its settings, proved |
| `Streaming.tla` | from the playhead to the priorities of pieces |
| `PiecePool.tla` | the pieces in memory and the one counter of their bytes |
| `PieceProofs.tla` | the pool's capacity and the truth of its counter, the one window of `Streaming` and what "ready" means, proved |
| `Gateway.tla` | the torrent backend that is a proxy of a gateway |
| `GatewayProofs.tla` | that its rows agree and that it implements `Sampler`, proved |
| `Sampler.tla` | abstract: a value that is looked at now and then; `Gateway` implements it |
| `Api.tla` | the way of a request to the torrent service |
| `ApiProofs.tla` | the limiter's budgets and whose file is served, proved |
| `MC*.tla`, `MC*.cfg` | the instances of each |

How they fit together. `Mesh` refines what `Room` takes for one step (two ends
meet); `Room` is what `Window` drives, and `Window` keeps of it only what its
callbacks change. `Streaming` begins where `Window` hands a file to the player and
ends at the torrent library; `Api` lies between the two and carries their requests
to the operations whose inside is `TorrentService`'s. `Launch` starts and ends the
processes all the others live in.

### 2.1 Room

State. `roster`, `refused`, `hostPeer`, `isHost`, `magnet`, `play` and
`buffering` are the fields of `Room`, one per peer; `offered` records that
`OnMagnet` was called. `outbox` is what `onHello` has still to send: the code's
pump sends magnet, host claim, play state and book one after the other before it
takes the next message, and reads the play state only when its turn comes, so
these are steps and other goroutines (`PauseOrPlay`, read loops) run between them.
`link[p][q]` is p's end of its stream to q and `chan[p][q]` the messages from p
that q's Room has not handled, in stream order; messages of different streams are
handled in any order.

Actions. One per message handler (`ReceiveHello`, `ReceiveMagnet`,
`ReceivePause`, `ReceiveBuffering`, `ReceiveHost`, `ReceiveBye`, `ReceivePeers`,
`RefuseHello`, `IgnoreRefused`), per call of the window (`AnnounceMagnet`,
`PauseOrPlay`, `ReportBuffering`) and per event of the mesh (`Join`,
`DialInvited`, `HintedDial`, `HintedDialFails`, `Greet`, `Cut`, `Lose`, `Notice`,
`Depart`). `Depart` is both `Close` and a crash: any subset of the connected
peers hears the farewell. A broadcast reaches every peer when all streams are
healthy and any subset of the healthy ones when one is dead, because `Send` walks
a Go map and returns at the first stream that refuses the write.

Abstractions. Both ends of a stream make their entry in one step, there is one
stream per pair, the farewell is enqueued in the step that removes the entry and
the incoming queue has no limit: `Mesh` looks into those. A peer that left does
not come back (it would have a new peer ID). Seek positions, user names and
status lines are left out: the Room remembers no position.

### 2.2 Mesh

State. `flights` are the goroutines that dial, `dialing` the map that is to keep
them apart, `opener`/`answerer`/`closed`/`cut` the streams themselves, `arriving`
and `admitted` the end of the handshake and its queue, `entry` the map
`Mesh.peers`, `reading`, `greeting` and `ended` where the goroutine of each stream
is, `incoming` the queue, `roster` the Room's. `doubtful` is a history variable.

Actions. `Discover`, `HintChecked` and `HintTakesOff` (check and mark are under
different locks), `Dial`, `DialFails`, `Admit`, `Land`, `Accept`, `Greet`, `Cut`,
`ReadHello`, `EndOfStream`, `Farewell`, `Handle`. `Keeps` is the rule for two
streams to one peer: the opener with the smaller ID wins, and between two streams
of one opener the first.

Abstractions. Only greetings and farewells travel; the handshake is its two
outcomes; a relay is a stream like any other. Stream numbers are used again once
no goroutine holds them, so a run never ends for lack of numbers.

### 2.3 TorrentService

The backend's torrents and the two files they are saved in. HTTP requests run
side by side; each is a sequence of steps, and a step is what the code does under
one hold of a lock, one wait, or one file.

State. `torrents`, `owner`, `source` and `selected` are the service's four maps,
`client` the infohashes the torrent client has an object for, `disk` the two files
(`owners` is torrents.json; `registry` and `sources` are the entries of
torrents_registry.json and those of them that tell where the torrent came from).
`calls` holds the requests and how far each is. `promise` and `overlapped` are
history variables: which request added or removed a torrent last, then what its answer
said, and that two saves ran at once. Users, torrents and requests are finite sets
(an infohash has 160 bits), which counting them needs.

Actions. An add is `AddBegins`, then `AddLands` or `AddFails`; a removal
`RemoveBegins` and `RemoveDrops`; both save in between, by `TakeSnapshot`,
`WriteOwners` and `WriteRegistry`. Watching is `ReadBegins`, then `SelectFile` or
`ServeFile` and `StreamEnds`. `Close` and `Exit` end the process in good order,
`Crash` at any step; `Boot` starts it from the files.

Abstractions. A magnet and a .torrent are both "a source". The client keeps one
object per infohash, so a drop is a drop for everybody who waits for it or has
it (`WithoutObject`). No file is found corrupted: the rename is atomic. A user may
read what is its own or nobody's: `SetVisibility`, which would ask the rooms, is
called by tests only. The buffer prioritiser and the data on disk that a removal
reclaims are left out.

### 2.4 Window

State. `room`, `roster`, `stop` (`roomStopped`, `pausedForBuffering`, `myStalled`)
and `offer` (`roomInfohash`, `pendingRoomFile`) are the window's fields, `mpv` whether there is a
player and what it would answer (a player whose process ended is kept: it answers
nothing, and `startPlayer` starts no other), `commands` the goroutines of `applyPause`,
`pauseTheRoom` and `resumeTheRoom` that have not reached it, `decision` how far a
`syncTheRoomStop` of the room's pump and one of the ticker have come, `tick` the
tick under way with what `watchState` remembers, `main` what `fyne.Do` queued,
`carrying` the polls that carry the offer out, `picks` the goroutines of `playFile`.
`settled`, `offered`, `started`,
`meddled` and `lost` are history.

Actions. Callbacks of the room (`HearReport`, `HearGreeting`, `HearBye`,
`HearHost`, `HearPause`, `HearMagnet`), the three steps of `SyncTheRoomStop`
and its command, `TickReads` and `TickActs` (the player is read before, the room
after), `Arrives` (a command reaches the player, in any order), the room's coming
and going, and the path of a film: `AddTorrent`, `TorrentAdded`, `Refresh`,
`CarryOut`, `MainThread`, `PlayAdopted`, `PlayFile` (select, start, play; each may
fail), with a person's `ClickFile` and `OpenTorrent` in between. The lists come by
the page: `Pages` (any `DefaultPaginationLimit` torrents, since the service lists a
map) and `Listed` (the first files). `CreateRoom` and `Announce` are the host's half.

Abstractions. A message is what it changes for the window. Positions are left out,
so seeks are; a stall is a flag the player answers with. One join at a time
(`OneJoinAtATime`): the code guards neither `joinRoom` nor `onCreatePressed`, and two
that overlap are outside the model. Two picks of one file by the same hand count as one.

### 2.5 Launch

State. The settings file and the two dialogs that write it, the environment the
application inherits, where the main goroutine is (`fe`), the player's goroutine,
and for each launch its backend (`be`), the settings it read (`chosen`), the
configuration the backend ended up with (`conf`) and whether mpv lives (`film`).

Actions. `Start` builds flags and environment (`Args`, `LaunchEnv`, `ParseFlags`),
the backend validates (`Refused`), comes up, drains and closes, or crashes; `Wait`
is `waitForBackend`, whose health may be answered by whoever has the port; the
window saves settings, starts and stops the player, and quits; `StopPlayer`,
`StopChild`, `StopInsists` and `StopSeesExit` are the end in good order, `Signal`
the other one.

Abstractions. A path is there or not, an address absent, usable or refused; a
timer may fire at any time, so no duration is relied on.

### 2.6 Streaming

State. `buffers` is the prioritiser's table (size, duration, position, window),
`piece` the priority the library has been asked for, `play` the goroutines of each
picked file (select, load, wait for the duration, report), `tracked` the one size
and duration they share, `film` and `position` what mpv has.

Actions. `Pick`, the steps of a pick (of which `PlayFails` is a player that does not
start or does not take the stream), `Tick` and `Report` of a reporter,
`PeriodicUpdate`, `ReadHeader`, `Seek`, `RemoveTorrent`. `Priorities` and
`BufferInfo` compute the window of `updatePiecePriorities` and `GetBufferInfo` with
the code's integer arithmetic over real byte sizes; `Urgency` is its cascade.
`UpdatePanics` is the periodic update on a window that starts pieces behind the
torrent's end (`BeyondTheEnd`): its goroutine panics and the backend is gone.

Abstractions. The library takes, for a piece, the greater of its own priority and
its file's, so only the former is kept. Bands have the names and the order of the
code's cascade.

### 2.7 PiecePool

`used` is `memoryStorage.used`; `pieces`, `written`, `complete` and `total` are each
provider's. `Ask`, `ReadCounter`, `CompareAndSwap`, `Retry`, `Refuse` and `Insert`
are `Piece` and `tryAllocate`, whose counter is shared by providers that hold
different locks; `WriteAt` and `Mark` what the library does with a piece it
holds, `Close` and `OpenTorrent` the end and the return of a provider. `Held` sums the
bytes of the pieces the providers have, `InFlight` those of pieces whose bytes are
counted and which are not in a provider yet.

Left out: `memoryStorage.Close`, which sets the counter to 0 and forgets the providers
when the process ends.

### 2.8 Gateway and Sampler

A row of the torrent list asks the cache three times (`torrentToInfo`); the first to
come after the TTL asks the gateway while it holds the lock. `Hit`, `Ask`,
`Answers`, `Store`, `AskFails` and `Deliver` are those steps; the gateway is external
and may progress, restart and forget, or never answer. `Sampler` says what the
cache promises: what is shown is one whole look at the truth, and looks are shown
in order. `Gateway` implements it with the cache for what is shown, the answer on
its way for the look and the gateway's own numbers for the truth
(`ProgressIsSampled`).

### 2.9 Api

A request is `Arrive` (CORS, content type), the limiter (`Look`, `Touch`, `Make`,
`Allow`: the two lookups of `getLimiter`, its creation, and the bucket), `Handler`
(token and handler's own checks), `Read` (may the client read the torrent; twice for
streams and subtitles) and `Act`. `Cleanup` may run at any moment an idle address is
there, which includes the code's ten minutes. `due` is history: the tokens a bucket
would have that is never dropped; `chosen` too: the selections since the torrent came.
A request carries when it got its bucket (`since`): time may pass between that and
`Allow`, up to `MaxDelay` ticks.
`X-Forwarded-For` counts from trusted peers only (`ClientIP`).

Abstractions. A token comes back per tick. "Valid" stands for what a handler asks of
IDs and bodies. Removing and adding are one step here.

## 3. Checks

| Run | Shows |
|---|---|
| `room` | nine plans of a room of two to four peers: `NoGhostMember`, `NoGhostHost`, `HostAgreementInOneRoom`, `FilmReachesNewcomers`, `MeshGrows`, `RefusalSticks` hold, and whoever is left of the members ends up, for good, with one host (`OneHostEventually`) |
| `mesh` | two nodes dial each other: `EntriesAgree`, `NoForgottenStream`, `NoGhost`, `DuelOfTwoHasAWinner` hold, and a guest, one of whose dials fails and one of whose streams is cut, meets its host for good (`GuestMeetsHost`) |
| `registry` | adds, removals, streams, crashes and failing writes side by side: `KeptOverOneRestart`, `RemovedStaysRemoved`, `FilesAreCurrent`, `OwnedUnlessRemoved`, `LimitOverrun`, `StreamOfOneAddIsServed` hold |
| `window` | hosts, followers, guests and creators: the stop of the room follows the reports, a follower's player converges, adoption plays what was named, and plays it in the end if the guest's lists show it |
| `launch` | two launches and their ends: no child outlives an orderly end, a saved choice reaches the backend, only a gateway's settings are refused, the window follows its backend, quitting comes to an end |
| `streaming` | `OneWindow`, `ReadyMeansAlmostThere`, one reporter is left in the end, and the playhead steers the window for as long as it reports |
| `pool` | `CapacityHolds` and `CounterIsTruthful` under compare-and-swap from two torrents |
| `gateway` | a row does not contradict itself, every row is finished, and the cache implements `Sampler` |
| `api` | an address is admitted within its budget and refused only beyond it, and a client is served the file it chose |
| `restarts`, `other_film`, `overlapping` | what a comment says and the code does not do (section 5) |

**Bounds of Room.** Four peer IDs; peer 3 creates the room, so that a smaller and a
larger ID exist for the takeover; peer 1 speaks a later protocol and peer 4 the
legacy one. A *plan* fixes who is there at the start, who may join, and how many
departures, cuts, failed dials, presses of pause and stall reports may happen;
each plan is one initial state, so all plans of a run share its actions:
`Joining` (two guests), `Leaving` (three members, all may leave), `Breaking` (a cut
among three), `Chatting` and `Stalling` (two members, a cut, and a pause or a stall),
`Crossing` and `Missing` (an arrival, and a departure or a failed dial), `Refusing`
and `Newer` (protocols).
Three peers are where takeovers of different members cross and where a book
introduces two guests; nothing in a handler counts further. One of each event is
enough because every handler forgets how often it ran; `Leaving` has three
departures because a takeover can be left in its middle, and it is where
`OneHostEventually` has most to say.

**Bounds of Mesh.** Two nodes, since every rule of `addPeer` is about one pair; two
streams alive at a time, which is a duel, or one that ends and the next (more are left
to the proofs); queues of one, so that the full queue is reached; a failed dial and a
cut in the guest's plan, in any order and at any moment, so that a cut of the stream
both ends use sends the guest back to its discovery; a cut in the plan where both were
told of each other by the book.

**Bounds of TorrentService.** Two users, four torrents, three requests at a time: two
saves and a third request between them, or two streams and a removal. The limit on
torrents is one, so that three requests overrun it. A plan fixes how many adds,
removals, reads, ends of the process and failures there may be: `Crowding` (four
adds, a fetch that fails, a drop under a waiting add), `Restarting` (two ends, one
torrent whose peers are offline), `Failing` (a write that fails), `Watching`
(streams, a removal, a removal that gives up waiting).

**What the properties of TorrentService leave to the code's luck.** `Orderly` runs
are those in which no write failed and no two saves ran at once: the snapshots
of two saves can reach the files in the other order, and what the newer one saved is
then lost at the next crash, though its add was answered. `OwnedUnlessRemoved` also excludes removals: a
crash between the two files of a removal leaves a registry entry without an
owner, which the next start restores as everybody's.

**Bounds of Window.** Two other participants: one who is behind and one who is not, or
one who leaves and one who takes the role. Pages have two entries instead of 20. Three
films: one with files 0, 1 and 2, the last of them beyond the first page, and two with file 0
only, so that a file of the wrong film can exist or not, and that the films can be one
more than a page. A room names the first film with no file, a listed file or the one that
is not listed, or the second with its file (`Announced`). The heartbeat is
every second tick instead of every tenth, which only shortens the count. Two
commands of a kind on their way are enough for one to overtake another, two carriers
for two polls to carry out one offer or two. The plans: `Stopping` (reports of
two guests against the host's own stall), `Departing` (members come, go and take
the role), `Moving` (a second room), `Following` (a follower whose player comes and
goes), `Adopting` (two films named, something fails), `Meddling` (the same with a click in
between), `Creating` (a person opens, selects and creates a room), `Crowded` (a guest who
has a page of torrents before the film comes). `overlapping` has one plan, in which
nobody leaves and nothing fails.

**Bounds of Launch.** Two launches, since what a launch reads is what an earlier one
saved; six settings (storage in memory, on disk with and without a directory, a
gateway that is usable, one that is refused, one with a certificate) and three
inherited environments (clean, a leftover of storage and gateway, TLS).

**Bounds of Streaming.** A season of two files (7 and 2 bytes, 3 s and 1 s) whose files
share a piece, and a film of 2 bytes, so short that
the season's offsets lie pieces beyond its end; pieces of 2 bytes and windows of at most
5, so that a window begins and ends inside pieces, reaches the end of the file and is
cut by the cap; bands of 0, 1 and 1 pieces; two picks, because the second is what
the first one's goroutines can disturb, and one seek.

**Bounds of PiecePool.** Two torrents with pieces of 2 and 1 bytes and room for 4: any
three fit or not by their sizes. Two goroutines race for the counter; two attempts
instead of the code's hundred make the give-up reachable. Each torrent is opened twice.

**Bounds of Gateway.** One film of two bytes, so that progress is none, some or all; two
rows, so that one holds the lock another waits for; one restart.

**Bounds of Api.** Four requests at a time over three addresses, one of them a trusted
proxy's. A bucket holds one token (the stream's two), so the second request is the
refused one; idle addresses are forgotten after two ticks, and four ticks let one be
forgotten and come back. A goroutine may be held up for two ticks (`MaxDelay`) between
having its bucket and using it; the code makes no call in between, so what holds it up
is the scheduler. The assumption

    Burst + MaxDelay <= CleanupAfter + 1

says that an address has got back what it spent by the time it is forgotten, however
late it spent it, and `AdmittedWithinBudget` rests on it. The shipped values (10 at one
a second, 40 at twenty a second, forgotten after ten minutes) leave a request minutes.
The environment can set the rate and the burst of the `api` table
(`resolveAPIRateLimit`, `middleware.go:453`), and a burst that takes longer than ten
minutes to come back would break both the assumption and the property.

**Type invariants.** `MeshTypeOK`, `ServiceTypeOK`, `LaunchTypeOK` and `PoolTypeOK`
are proved (`MeshTypes`, `ServiceTypes`, `LaunchTypes`, `PoolTypeCorrect`); no run lists
them, since each of those modules has properties that say more about the code.

**Deadlock** is not checked: a room in which everybody waits for the next
click, a pair that is connected, a service nobody calls and an application that
was closed are quiet for as long as they like.

**Fairness.** Weak, of each goroutine that has something to do, which Go's
scheduler gives; never of people, of the network's cuts, or of calls that fail.

* Room and Mesh: read loops, the Room's pump, the answer in progress, dials in
  flight, `acceptLoop`, and the discovery, which ticks for the whole session
  (`discoverLoop`). In Mesh each of them is fair on its own; in Room it is enough that
  somebody goes on while anybody can, which is less than the scheduler gives, since
  each step uses up a message, a dial or a stream.
* Window: the ticker (`TickReads`, `TickActs`), decisions under way, commands on
  their way, posts and polls, the main thread, and the goroutines of `playFile`.
* Launch: the waits and exits of processes that were told to end, and the backend's
  steps between flags and health.
* Streaming: the goroutines of a pick (`Step`), the reporter's ticker and its
  requests, and the periodic update.
* Gateway: answers that are stored or time out, and responses that are delivered. Strong fairness
  of a row's turn at the lock: `sync.Mutex` hands over to the longest waiter when one
  waits for more than a millisecond, so nobody is passed over forever.

**Mutants.** Each property of a passing run has a mutated definition in its module
(`NoticeSilently`, `AddPeerWithoutClosing`, ...) with which it fails.

## 4. Proofs

Every safety invariant and action property a passing run checks is a theorem here, for
every value of the constants (one, in 4.4, of those that meet a condition on the
room's size). Two things recur. A
property of settled states ("once nothing is on its way ...") is seldom kept by a step;
what is kept says that everything somebody still lacks *is* on its way, and where. And a
property with an excuse (no cut, no overlapping saves, no removal) has an invariant
under the same excuse: the excuses count what was spent, so they hold of every
earlier state, and the proof never has to know what happens after them. Each invariant
was checked by TLC on the instances of section 3 before it was proved.

### 4.1 Room

`RoomProofs.tla`, for any set of peers, any versions and any plans (not only
the instances above), from the assumptions of `Room.tla`: peers are positive
numbers, versions are numbers, the creator is a member of every plan and members
who have met admit each other.

The invariant is

    Inv == TypeOK /\ ChanOK /\ LinkOK /\ AbsentOK /\ OutboxOK /\ AdmissionOK
           /\ NoGhostMember /\ NoGhostHost

`NoGhostMember` alone is not inductive: a handled farewell must not be the last
trace of a peer that is still in the roster, and a roster entry must not be made
for a peer there is no stream to. So the proof needs to know that messages
travel between the living or come from a stream that still stands at the
receiver's end or ends in a farewell, and that a host claim names its sender
(`ChanOK`, and `OutboxOK` of the answer in progress); that a stream that works at
one end works at the other (`LinkOK`); that whoever is not in the room holds
nothing of it (`AbsentOK`); and that nobody is refused who was admitted
(`AdmissionOK`), for a refused peer's farewell is dropped. `InitInv` shows it of the initial
states, one lemma per action (`GreetKeeps`, `NoticeKeeps`, ...) that a step keeps it,
`Invariant` joins them.

Two more invariants stand on this one.

`Undisturbed => Peace`. In a room where nobody left and nothing was cut or refused,
`FilmReachesNewcomers` and `MeshGrows` are about quiet states only. `Peace` says of all
of them that nothing is lost on the way: whoever greeted is in the roster, or its
greeting waits (`Greeted`); whoever greeted the creator was told the film, or the film
waits, or the greeting that will be answered with it, or it is next in the
answer (`FilmOnItsWay`); and of any two peers the creator knows, they met, one is
dialling the other, or a book that names the other waits or is the last part of the
answer in progress (`BookOnItsWay`). `LinksMet`, `MailFrom` and `OneRole` are what these
need: no stream died, films and claims come from the creator, and nobody else is host.
With nothing on its way only the first alternatives are left.

`spent.cuts = 0 => Order`. Here peers leave and crash, and farewells reach
some and not others. `MembersFollow` is the heart: a member follows the creator, a
guest, or the smallest of the members *it knows*, and it knows all who are there. Rosters
that still name the departed differ, so two members may follow different hosts for a
while; once every farewell is handled the rosters are the same, and with them the winner
(`WinnerIsLeast`: a takeover's order has one least element). `MembersLinked` says that
a stream between members stands until one of them is gone, `HonestMail` that farewells
are true and no member greets another again, `OneClaim` that nobody claims the
role while the creator is there. `Order` speaks of members only; guests may come, take
over and go in between, which is why it mentions them as possible hosts.

| Theorem | Says |
|---|---|
| `TypeCorrect` | `[]TypeOK` |
| `NoGhostMembers` | whoever is in a roster still has a stream there, or a farewell waiting |
| `NoGhostHosts` | the same of the host a Room follows, unless it was refused |
| `RefusalIsFinal` | `RefusalSticks`: from its refusal on a peer gains neither a roster entry nor the host role |
| `NewcomersAreToldTheFilm` | `[]FilmReachesNewcomers` |
| `TheMeshGrows` | `[]MeshGrows` |
| `RemainingPeersAgree` | `[]HostAgreementInOneRoom` |

These are about `Room`'s level of detail. `Mesh` says where that level ends: a
farewell that finds the queue full, and a greeting read from a stream another one
replaced, are the two ways a ghost still comes about (`NoGhost`).

### 4.2 PiecePool and Streaming

`PieceProofs.tla`. PiecePool, for any torrents, pieces of any length, any finite set of
callers, attempts and capacity (`PoolAssumption`: lengths are positive). The invariant
for the capacity is

    PoolInv == PoolTypeOK /\ SwapHasRoom /\ CapacityHolds

`CapacityHolds` alone is not inductive: the room is checked when the counter is read
and the sum is stored later. `SwapHasRoom` says that whoever is about to swap read a
value that leaves room, and the swap adds to that very value (`SwapKeeps`). A close
only takes off what is a natural number, so it keeps the bound even where it takes off too
much (section 5).

`CounterIsTruthful` says more: the counter *is* the sum of what is held and what is on
its way, as long as no torrent was opened twice.

    TruthInv == OneAllocates /\ NotThereYet /\ FirstLife /\ CounterIsTruthful

Under a provider's lock at most one caller allocates (`OneAllocates`), a piece it has
bytes for is not in the provider yet (`NotThereYet`), and a provider in its first life
has given nothing back (`FirstLife`); so a swap, an insertion and a close change one
summand by what they change the counter by. The sums are `SumFunctionOnSet` of the
community modules. That such a sum changes with one changed summand (`SumWithout`,
`SumChanges`) needs an induction over the set: it is done over a *set* `Good` of
subsets (`BySize`, from the least size not good), since a theorem that takes an operator
cannot be used by the provers here.

Streaming, for any layouts, piece sizes, bands, picks and seeks.

    StreamInv == BackendInv /\ ClientInv

`BackendInv` says that entries name files that exist and that the priorities of each
torrent are one run whose urgency falls (`OneRun`, `OneWindow` of one torrent). They are
those of some `Priorities`, also when the window lies behind the torrent's end or ends
before it starts: urgency falls along the cascade (`UrgencyFalls`) and what is
asked for is one run (`PrioritiesAreOneRun`). `ClientInv` says that picks and player name
files that exist, and that a reporter that runs has a duration to divide by, so offsets on
their way are numbers.
`ReadyMeansAlmostThere` is then arithmetic: the window is covered by its whole pieces
with less than one to spare at each end (`DivisionIs`, `WindowIsCovered`), and what counts
as buffered is a whole number of them (`ReadyIs`).

| Theorem | Says |
|---|---|
| `PoolTypeCorrect` | `[]PoolTypeOK` |
| `CapacityIsKept` | `[]CapacityHolds` |
| `CounterTellsTheTruth` | `[]CounterIsTruthful` |
| `WhatIsAskedForIsOneWindow` | `[]OneWindow` |
| `ReadySaysWhatIsThere` | `[]ReadyMeansAlmostThere` |

### 4.3 Gateway

`GatewayProofs.tla`, for any torrents, sizes, readers, streams and restarts
(`GatewayAssumption`: sizes are natural numbers, and no reader is the value that stands for
a free lock).

    Inv == TypeOK /\ HolderAsks /\ RowsOK

`RowAgrees` is about finished rows. `RowsOK` adds what half-rendered ones have to
keep: a row that has its progress shows no more than the cache has, and once it was
found incomplete, less than the whole. This lasts because looks only grow while
nothing is stored that says less (`CompletedIs`, `MarkedIs`); a store takes a row one step
further and the others along (`StoreKeeps`), and it is a row's own goroutine that
stores because the holder of the lock is the one that asks (`HolderAsks`).

| Theorem | Says |
|---|---|
| `RowsAgree` | `[]RowAgrees` |
| `CacheSamples` | `ProgressIsSampled`: the cache implements `Sampler` |

### 4.4 Mesh

`MeshProofs.tla`, for any nodes, streams, cuts, failed dials and capacities of the two
queues.

    MeshInv == Shape /\ EndsInv /\ HeldInv /\ GhostInv

`EndsInv` says who can hold a stream at all: a landed dial the end that opened it, the
queues of the door the other, an entry both. `HeldInv` says of every stream that
is neither broken nor closed that each end has it in its entry or is still bringing it
there. `AddPeer` either puts a stream into the entry or closes it, and closes what it
takes out (`Keeps`), so no step leaves a live stream out. With no dial under way and
the doors empty, both entries remain: that is `NoForgottenStream`, and `EntriesAgree`
is it read from both sides. `GhostInv` is about the roster *with the queue counted
as read* (`Heard`): whoever is in it has an entry, or a read loop still owes its
farewell, or is in doubt.

`DuelOfTwoHasAWinner` is not true for all constants: a full queue of admitted streams
resets one that had won. It is proved for rooms that fit (`RoomFits`): a finite room with
at most one node more than the queue has places (the code's has 16), a stream
number for every node and one to spare, and no plan that names a node to itself, which
neither the book (`room.go`, `onPeers`) nor libp2p's dial does. The run has one stream
number fewer than that, and TLC finds the property true there too.

    DuelInv == NoSelf /\ OnceInv /\ (spent.cuts = 0 => cut = {}) /\ (OneEach => Beaten)

`Beaten` says that a stream is closed only for another between the same two nodes,
whose opener has the smaller ID; so of two such streams one is never closed, and by
`NoForgottenStream` both ends use it. For this an end must not meet the same stream
twice, or it would close it for itself: `OnceInv` says that a stream is on its way to
an entry once, and not when the entry has it. `OneEach`, that no node opened two
streams, is the premise of the property and passes from a state to the one before it,
because stream numbers are used again only when all are taken (`DialIsFresh`, by the
pigeonhole principle); under it the queue never fills (`DoorStaysOpen`, by the same).

| Theorem | Says |
|---|---|
| `NoStreamIsForgotten` | `[]NoForgottenStream` |
| `PairsAgree` | `[]EntriesAgree` |
| `NobodyIsAGhost` | `[]NoGhost` |
| `DuelOfTwoIsWon` | `RoomFits` implies `[]DuelOfTwoHasAWinner` |
| `MeshTypes` | `[]MeshTypeOK`, the capacities of the queues among it (`CapsInv`) |

### 4.5 TorrentService

`TorrentServiceProofs.tla`, for any finite sets of users, torrents and requests and any
number of ends of the process. Those about the files rest on `OneWriter`: as long as no two
saves ran at once, the save between its snapshot and its files is the only one, and the
owners on disk are those of its snapshot when it comes to the registry. Each property
but the last two is then said of the three places a fact passes through: the maps, the
snapshot on its way and the disk.

* `FilesInv`: unless somebody is about to take a snapshot, the one on its way holds all,
  and with none on its way the disk does.
* `OwnedInv`: owners go from memory to the snapshot and from there to the disk, the
  owners' file first; without removals each place names every owner that the next one
  names, so that a crash between the two files leaves no entry without an owner.
* `RemovedInv`: a torrent being removed leaves the memory first, then the snapshot of its
  own save, and when that is written, everything.
* `KeptInv`: the same for a torrent that was added, up to the end of the restart; its
  source is in the first life only, which is why two restarts lose it (section 5).
* `LimitInv` counts torrents and fetches together: a fetch passed the limit while it
  was not reached, and there are no more fetches than requests.
* `OneAddInv`: until the one add lands there is no torrent anywhere, so nobody has
  anything to drop; `WaitsOnObject` says that whoever waits for metadata waits on an
  object the client still has.

| Theorem | Says |
|---|---|
| `FilesHoldAll` | `[]FilesAreCurrent` |
| `NobodyLosesOwner` | `[]OwnedUnlessRemoved` |
| `RemovalIsForGood` | `[]RemovedStaysRemoved` |
| `AddedIsKept` | `[]KeptOverOneRestart` |
| `LimitIsOverrunByRequests` | `[]LimitOverrun` |
| `StreamsAreServed` | `[]StreamOfOneAddIsServed` |
| `ServiceTypes` | `[]ServiceTypeOK` |

### 4.6 Window

`WindowProofs.tla`, for any participants, films, files, carriers and plans
(`WindowAssumption`: the window is not one of its peers, a torrent's files are numbered
from 0, a room names films and files there are). The two
halves share hardly any state and have an invariant each. `FilmInv` follows a pair the
room named through everything that carries it: the offer, the polls, the queue of the
main thread, the adoption between its two halves, where only an opened torrent can
part film and file, and the picks. An adoption whose row is no longer listed names no
film, and plays nothing. `StopInv` says of every `syncTheRoomStop` under way that what
it read still holds if nothing came between (`ReadStillHolds`), that nothing was stored
since (`NothingStoredSince`) and that it will store the right thing
(`StoresTheRight`); and that a stop which is wrong has a decision on its way
that will see it (`RightOrOnTheWay`).

| Theorem | Says |
|---|---|
| `TheStopIsRight` | `[]StopFollowsReports` |
| `PlaysWhatWasNamed` | `[]AdoptedAsNamed` |

### 4.7 Launch

`LaunchProofs.tla`, for any settings people choose, any inherited environments and any
number of launches. `OrderlyEndLeavesNoChild` is inductive once types are known:
every way to the end but the signal passes `StopChild` and waits for the exit. The other
two need what the launches run on: a settings file that can be read is one the
dialogs would save (`SoundFile`), and each backend was configured from the settings its
launch read and the environment alone (`SoundLaunches`); what `ParseFlags` makes of
them is then computed case by case.

| Theorem | Says |
|---|---|
| `NoChildLeftBehind` | `[]OrderlyEndLeavesNoChild` |
| `ChoiceHolds` | `[]ChoiceReachesBackend` |
| `OnlyGatewaysAreRefused` | `[]RefusedOnlyOverGateway` |
| `LaunchTypes` | `[]LaunchTypeOK` |

### 4.8 Api

`ApiProofs.tla`, for any requests, addresses, clients, bursts and plans, from
`ApiAssumption` (section 3, bounds of Api). `AdmittedWithinBudget` says that `due`, the
tokens of a bucket nobody ever drops, is never negative. It is not inductive: a
bucket made anew for an address that still owed tokens would hand out more. `EntryOK`
says that the bucket in the table has exactly what is due and that what is due has grown
with the time since the address was last looked up; so whoever is idle for
`CleanupAfter` is due a full bucket, and a new one is what a kept one would be
(`EntryOK`, with `Burst + MaxDelay <= CleanupAfter + 1`). `HoldsEntry` says that a
request past its lookup holds the table's own bucket, got at most `MaxDelay` ago: the
second lookup under the write lock keeps two requests from making two, and the cleanup
cannot take one that young. `Unshared` says that no two owners share a bucket, which
makes a refusal one's own. `SelectionsOK` ties `selectedFiles` to the selections made
since the torrent came.

| Theorem | Says |
|---|---|
| `AdmittedInBudget` | `[]AdmittedWithinBudget` |
| `RefusedBeyondBudget` | `RefusedOnlyOverBudget`: who is refused has spent the budget of that route and address |
| `OwnChoiceServed` | `OwnChoiceIsServed`: a stream serves the file its client selected |

### 4.9 Only model-checked

* Liveness (`OneHostEventually`, `GuestMeetsHost`, `FollowerConverges`, `FilmStarts`,
  `WindowFollowsBackend`, `QuitFinishes`, `OneReporterLeft`, `PlayheadSteers`,
  `EveryRowIsFinished`), which is outside the prover's reach.

No safety property a passing run checks is left without a theorem; the three properties
of the violation runs (`KeptSurvives`, `OnlyTheFilmIsUrgent`,
`StopsForWhoeverIsBehind`) are false.

## 5. Where the code and its comments part

Three have a run that shows them:

* `restarts`: a torrent that was restored is saved without its source, which the
  start did not keep, and the next restart cannot restore it. One restart and the
  save of a shutdown are enough.
* `other_film`: the prioritiser lays a window of offsets in the file over the
  pieces of the torrent. For any file but the first, the pieces it raises are
  those of an earlier file.
* `overlapping`: `syncTheRoomStop` decides from a flag it stores under another lock, in
  the pump and in the ticker at once. A guest reports that it is back while the host's
  own data runs out: the pump is about to release the room, the tick finds it still
  stopped and does nothing, and the room plays on though its host is behind.

The others were met while modelling. The models have the behaviour unless the entry
says otherwise, and where a property would be refuted by it the property says what it
excuses.

Rooms.

* A stream cut between two peers who are both there makes each take the other for
  gone. After they meet again both are hosts.
* A newcomer greets while another stream is dying: the host's answer may reach
  nobody, and the newcomer is never told the film.
* A magnet can overtake the greeting of the same stream; the refusal that follows
  leaves the refused peer as the host.
* The play state of an answer is read, and sent after a newer one.
* Two streams of one opener have no rule both ends can compute, and both ends may
  close the one the other keeps. Nothing has to fail for it: the first dial of a
  guest is not marked, so the discovery's runs beside it. The discovery repairs it at
  its next tick (`GuestMeetsHost` holds).
* The farewell of an old stream can come after the greeting of the new one, and takes
  a connected member out of the roster.

The window.

* Whoever made the room stop leaves: no report comes, and nothing releases the room.
  A host that takes over and finds its own player as it last saw it tells nobody.
* Leaving a room keeps `roomStopped`, `myStalled`, `pausedForBuffering`,
  `adoptedRoomFile` and the film.
* Two joins, or a join and a creation, can run side by side (`window.go:726`,
  `createroom.go:41`), and the second to open replaces the first, whose mesh nobody
  closes any more. Not in the model, which has one at a time.
* A peer that greets again is taken for one that is not behind (`room.go:327`), and the
  room can be released for it; it reports only when its stall changes.
* A player whose process ended stays the window's (`startPlayer`), and nothing plays
  until the application is started again.
* `adoptedRoomFile` is never set back: of a second film only the torrent is added.
* The magnet is written into the entry by one thread and read from it by another
  (`addTorrent`): the add may find the text of before, and is not repeated.
* `shouldAdoptRoomTorrent` compares the client's ID with the host's peer ID; they
  are never equal.
* `selectedFile` stays when another torrent is opened, and names a file of it in
  the room created next.
* The window asks for its lists without a limit and gets the first page, 20 entries. A
  file beyond it is "missing" to a guest, though the torrent has it (`FilmStarts` excuses
  what the list does not show); the window of a host shows the same page, so a file its
  person picked is within it. Of more than 20 torrents a poll shows any 20, in the order of
  a map: an adopted torrent whose row is gone when it is presented plays nothing, and
  `adoptedRoomFile` is set all the same.

Processes and settings.

* A signal ends the application without `Stop`: the backend lives on, with the port.
* `TLS_CERT` and `TLS_KEY` are not among the variables the launch decides
  (`managedEnv`): a leftover reaches the child, which then speaks TLS to a client that
  does not.
* The form accepts a gateway address and a certificate that the backend refuses at
  its start.

The backend.

* A removal empties the maps first and drops the torrent after its save and the wait
  for streams. A torrent added again in between is dropped by the old removal, is
  listed all the same, and its streams read a dropped torrent.
* Adding a torrent that is there makes the caller its owner.
* `Close` of a piece provider gives its bytes back and keeps its total; the provider
  is used again for the same torrent, and its second end gives them back twice. A
  torrent added again can so let the pool outgrow its capacity.
* The size `Track` leaves is the last one to come, not the last one picked: a pick that
  was replaced just when it had its duration can give the reporter of a smaller
  torrent the size of a larger one. Its window then starts behind the torrent's end, and
  when it does so by two pieces or more, the reset at `buffer/service.go:202` names
  pieces that do not exist. The request's panic is recovered; the next periodic
  update's, in a goroutine of its own, ends the backend (`UpdatePanics`).
* A piece the pool refuses is handed out all the same, and its data is held
  without being counted.
* A refresh of the gateway's metrics that fails is not remembered: every row asks
  again, one after the other, with thirty seconds each. The same client serves
  streams, whose duration its timeout then bounds, though the comment at
  `remote_backend.go:34-35` excludes them.
* The limit of the metrics route is called per IP (`router.go:54`) and is one bucket for
  everybody, as is the stream's.
* The limiter comes before the token: callers without one use up the budget of their
  address.
* `ServeFile`'s flat 404 for what a client may not read is preceded by
  `StreamFile`'s 403.

## 6. Plan

Done: `Room`, `Mesh`, `TorrentService`, `Window` (the stop of the room, following,
adoption, creation), `Launch` (backend process, player, settings), `Streaming`,
`PiecePool`, `Gateway` (with `Sampler`) and `Api`, each with its proofs: every safety
property of a run is a theorem.

Open, in this order:

1. An abstract specification of TorrentService (a set of pairs of user and torrent that
   only answered adds and removals change), which orderly runs with one restart implement.
2. The composition that replaces `Room`'s one-step meeting by `Mesh`'s.
3. Invite codes (parsing and composing are inverse).

### Not modelled

* Widgets, layout, shortcuts, the catalog of texts and languages, the lines about
  the connection: displays derived from state that is modelled.
* The API client (one HTTP call per method) and mpv's JSON protocol (one line per
  command): what can fail in them is a failing action of their callers.
* Validation, error types, models, logging, metrics and constants: no behaviour
  over time; what validation refuses is a flag of a request in `Api`, and the
  constants appear as the models' constants.
* The storage on disk, which is the torrent library's with a directory of ours, and
  `docs.go`, which is generated.
* libp2p's DHT, relays and cryptography, and the torrent protocol: external.
