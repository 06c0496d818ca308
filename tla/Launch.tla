------------------------------- MODULE Launch -------------------------------
(***************************************************************************)
(* The desktop application, the backend it runs as a child process and the *)
(* player it runs beside it, over several launches: frontend/main.go,      *)
(* frontend/internal/backend, the settings file and its two dialogs, and   *)
(* the start and stop of backend/cmd/server/main.go.                       *)
(*                                                                         *)
(* A path is present or absent; an address is absent, usable, or one that  *)
(* the backend refuses (no scheme, no host).  A timer may fire at any time.*)
(***************************************************************************)
EXTENDS Naturals

CONSTANTS Choices,      \* what a person leaves in a dialog's fields
          Envs,         \* environments the application may inherit
          MaxLaunches   \* bound: launches of the application

Addresses == {"none", "good", "bad"}
Settings == [disk: BOOLEAN, dir: BOOLEAN, url: Addresses, login: BOOLEAN,
             ca: BOOLEAN, asked: BOOLEAN]
Environments == [disk: BOOLEAN, dir: BOOLEAN, url: Addresses, login: BOOLEAN,
                 ca: BOOLEAN, tls: BOOLEAN]

ASSUME LaunchAssumption == /\ Choices \subseteq Settings
                           /\ Envs \subseteq Environments
                           /\ MaxLaunches \in Nat \ {0}

Launches == 1..MaxLaunches
DefaultSettings == [disk |-> FALSE, dir |-> FALSE, url |-> "none",
                    login |-> FALSE, ca |-> FALSE, asked |-> FALSE]
Damaged == [damaged |-> TRUE]      \* a file that cannot be read, or none
NoDialog == [closed |-> TRUE]

VARIABLES
    env,       \* the environment the application inherits
    file,      \* settings.json
    form,      \* the settings dialog: the settings it was opened on
    question,  \* the first-launch question: the settings it was asked with
    caThere,   \* the certificate named in the settings is on disk
    n,         \* launches so far; the last one is the running one
    fe,        \* where the application's main goroutine is
    player,    \* playFile's goroutine and the window's player
    be,        \* launch -> where its backend is
    taken,     \* launch -> somebody else listens on the port it picked
    chosen,    \* launch -> the settings it read
    conf,      \* launch -> the backend's configuration
    film,      \* launch -> its mpv process is alive
    signalled  \* launches that a signal to the application ended

dialogs == <<form, question>>
launchVars == <<chosen, conf, taken>>
vars == <<env, file, form, question, caThere, n, fe, player, be, taken,
          chosen, conf, film, signalled>>

-----------------------------------------------------------------------------
\* Settings and their dialogs

\* A mutant of Problem: the gateway's login is not asked for.
ProblemOfStorageOnly(s) == s.disk /\ ~s.dir

\* Settings.Problem: what the dialogs refuse to save.
Problem(s) == \/ s.disk /\ ~s.dir
              \/ s.url # "none" /\ ~s.login

\* SettingsStore.Load
Loaded == IF file = Damaged THEN DefaultSettings ELSE file

\* storageChoice.apply: memory keeps the directory that was there.
ApplyStorage(s, fields) ==
    [s EXCEPT !.disk = fields.disk,
              !.dir = IF fields.disk THEN fields.dir ELSE @,
              !.asked = TRUE]

\* settingsForm.apply
ApplyForm(s, fields) ==
    [ApplyStorage(s, fields) EXCEPT !.url = fields.url, !.login = fields.login,
                                    !.ca = fields.ca]

\* SettingsStore.Save, through a temporary file and a rename: all or nothing,
\* and a dialog whose save failed stays open with nothing changed.
Save(s) == file' = s

-----------------------------------------------------------------------------
\* What the child is told

\* Args: storage travels as flags, the directory always, the switch when on.
Args(s) == [disk |-> s.disk, dir |-> s.dir]

\* A mutant of LaunchEnv: what the launch sets is appended to what was inherited.
LaunchEnvAppended(e, s) ==
    IF s.url = "none" THEN e
    ELSE [e EXCEPT !.url = s.url, !.login = s.login, !.ca = s.ca]

\* LaunchEnv: the variables the launch decides are replaced, not appended to.
LaunchEnv(e, s) ==
    [e EXCEPT !.disk = FALSE, !.dir = FALSE, !.url = s.url,
              !.login = s.url # "none" /\ s.login,
              !.ca = s.url # "none" /\ s.ca]

\* parseFlags of the server: the environment is the default of each flag.
ParseFlags(a, e) ==
    [disk |-> a.disk \/ e.disk, dir |-> a.dir, url |-> e.url,
     login |-> e.login, ca |-> e.ca, tls |-> e.tls]

\* validateConfig, NewGatewayBackend and the storage check of the server's main.
Refused(c, caFound) ==
    \/ c.url # "none" /\ (~c.login \/ c.url = "bad" \/ (c.ca /\ ~caFound))
    \/ c.url = "none" /\ c.disk /\ ~c.dir

\* How a configuration, or the settings, keep the torrents.
Mode(c) == IF c.url # "none" THEN "gateway"
           ELSE IF c.disk THEN "disk" ELSE "memory"

-----------------------------------------------------------------------------
Init ==
    /\ env \in Envs
    /\ file = Damaged
    /\ form = NoDialog /\ question = NoDialog
    /\ caThere = TRUE
    /\ n = 0
    /\ fe = "off"
    /\ player = "idle"
    /\ be = [l \in Launches |-> "none"]
    /\ taken = [l \in Launches |-> FALSE]
    /\ chosen = [l \in Launches |-> DefaultSettings]
    /\ conf = [l \in Launches |-> ParseFlags(Args(DefaultSettings), LaunchEnv(env, DefaultSettings))]
    /\ film = [l \in Launches |-> FALSE]
    /\ signalled = {}

Running(l) == be[l] \notin {"none", "dead"}

\* The process of the application ends: its goroutines and dialogs with it.
Leave ==
    /\ fe' = "off"
    /\ player' = "idle"
    /\ form' = NoDialog /\ question' = NoDialog

\* run, up to waitForBackend: the settings are read, a port and a token are
\* made, and the child is started with them.
Start ==
    /\ fe = "off" /\ n < MaxLaunches
    /\ n' = n + 1
    /\ fe' = "wait"
    /\ be' = [be EXCEPT ![n + 1] = "init"]
    /\ chosen' = [chosen EXCEPT ![n + 1] = Loaded]
    /\ conf' = [conf EXCEPT ![n + 1] = ParseFlags(Args(Loaded), LaunchEnv(env, Loaded))]
    /\ UNCHANGED <<env, file, dialogs, caThere, player, taken, film, signalled>>

\* The port that was free when it was picked is bound by another program, or
\* by another instance of the application, before the child binds it.
TakePort ==
    /\ fe # "off" /\ be[n] \in {"init", "built"}
    /\ taken' = [taken EXCEPT ![n] = TRUE]
    /\ UNCHANGED <<env, file, dialogs, caThere, n, fe, player, be, chosen, conf, film, signalled>>

\* main of the server, to the router: what it cannot work with is os.Exit.
BackendBuilds(l) ==
    /\ be[l] = "init"
    /\ be' = [be EXCEPT ![l] = IF Refused(conf[l], caThere) THEN "dead" ELSE "built"]
    /\ UNCHANGED <<env, file, dialogs, caThere, n, fe, player, launchVars, film, signalled>>

\* The listener's goroutine, to whom a port that is taken is os.Exit as well,
\* and the registration for the signals that follows its start.
BackendListens(l) ==
    /\ be[l] = "built"
    /\ be' = [be EXCEPT ![l] = IF taken[l] THEN "dead" ELSE "up"]
    /\ UNCHANGED <<env, file, dialogs, caThere, n, fe, player, launchVars, film, signalled>>

BackendCrashes(l) ==
    /\ be[l] = "up"
    /\ be' = [be EXCEPT ![l] = "dead"]
    /\ UNCHANGED <<env, file, dialogs, caThere, n, fe, player, launchVars, film, signalled>>

\* server.Shutdown: done when the player's stream is, or when its timer fires.
BackendDrains(l) ==
    /\ be[l] = "draining"
    /\ be' = [be EXCEPT ![l] = "closing"]
    /\ UNCHANGED <<env, file, dialogs, caThere, n, fe, player, launchVars, film, signalled>>

\* torrentSvc.Close, bufferSvc.Close, the limiters: then main returns.
BackendCloses(l) ==
    /\ be[l] = "closing"
    /\ be' = [be EXCEPT ![l] = "dead"]
    /\ UNCHANGED <<env, file, dialogs, caThere, n, fe, player, launchVars, film, signalled>>

-----------------------------------------------------------------------------
\* waitForBackend

\* Whoever listens on the port answers /api/v1/version, which asks no token;
\* a backend that was told to serve TLS is not understood.
Answers == \/ be[n] = "up" /\ ~conf[n].tls
           \/ taken[n]

\* The first answer opens the window, with the question if it is unanswered.
Ready ==
    /\ fe = "wait" /\ Answers
    /\ fe' = "window"
    /\ question' = IF Loaded.asked THEN NoDialog ELSE Loaded
    /\ UNCHANGED <<env, file, form, caThere, n, player, be, launchVars, film, signalled>>

\* The child is gone: run returns, and the deferred Stop has nothing to stop.
WaitSeesExit ==
    /\ fe = "wait" /\ be[n] = "dead"
    /\ Leave
    /\ UNCHANGED <<env, file, caThere, n, be, launchVars, film, signalled>>

\* Ten seconds are over: run returns through the deferred Stop.
WaitTimesOut ==
    /\ fe = "wait"
    /\ fe' = "stop"
    /\ UNCHANGED <<env, file, dialogs, caThere, n, player, be, launchVars, film, signalled>>

-----------------------------------------------------------------------------
\* The window

OpenSettings ==
    /\ fe = "window"
    /\ form' = Loaded
    /\ UNCHANGED <<env, file, question, caThere, n, fe, player, be, launchVars, film, signalled>>

\* The save button of the settings dialog.
SaveSettings ==
    /\ fe = "window" /\ form # NoDialog
    /\ \E fields \in Choices :
          LET updated == ApplyForm(form, fields) IN
          /\ ~Problem(updated)
          /\ Save(updated)
    /\ form' = NoDialog
    /\ UNCHANGED <<env, question, caThere, n, fe, player, be, launchVars, film, signalled>>

\* The save button of the first-launch question.
AnswerQuestion ==
    /\ fe = "window" /\ question # NoDialog
    /\ \E fields \in Choices :
          LET updated == ApplyStorage(question, fields) IN
          /\ ~Problem(updated)
          /\ Save(updated)
    /\ question' = NoDialog
    /\ UNCHANGED <<env, form, caThere, n, fe, player, be, launchVars, film, signalled>>

\* playFile has its answer from the backend and goes on to the player.
SelectFile ==
    /\ fe = "window" /\ player = "idle" /\ be[n] = "up" /\ ~taken[n]
    /\ player' = "selected"
    /\ UNCHANGED <<env, file, dialogs, caThere, n, fe, be, launchVars, film, signalled>>

\* startPlayer holds the window's lock from here until mpv answers.
StartPlayer ==
    /\ fe # "off" /\ player = "selected"
    /\ player' = "starting"
    /\ film' = [film EXCEPT ![n] = TRUE]
    /\ UNCHANGED <<env, file, dialogs, caThere, n, fe, be, launchVars, signalled>>

PlayerAnswers ==
    /\ player = "starting"
    /\ player' = "held"
    /\ UNCHANGED <<env, file, dialogs, caThere, n, fe, be, launchVars, film, signalled>>

\* Player.Close, and Start on its failure: mpv is killed and waited for.
ClosePlayer == player' = "idle" /\ film' = [film EXCEPT ![n] = FALSE]

\* waitReady gives up after five seconds: the process is killed and waited for.
PlayerFails ==
    /\ player = "starting"
    /\ ClosePlayer
    /\ UNCHANGED <<env, file, dialogs, caThere, n, fe, be, launchVars, signalled>>

\* Quit in the tray, or the close button where there is no tray.
Quit ==
    /\ fe = "window"
    /\ fe' = "quit"
    /\ UNCHANGED <<env, file, dialogs, caThere, n, player, be, launchVars, film, signalled>>

\* A mutant of WatchSeesExit: nobody waits for the child once the window is up.
WatchSeesNothing == FALSE /\ fe' = fe /\ UNCHANGED vars

\* The goroutine that waits for the child quits for a child that ended.
WatchSeesExit ==
    /\ fe = "window" /\ be[n] = "dead"
    /\ fe' = "quit"
    /\ UNCHANGED <<env, file, dialogs, caThere, n, player, be, launchVars, film, signalled>>

\* A mutant of StopPlayer: a film that plays is waited for instead.
StopPlayerPolitely ==
    /\ fe = "quit" /\ player \notin {"starting", "held"}
    /\ fe' = "stop"
    /\ UNCHANGED <<env, file, dialogs, caThere, n, player, be, launchVars, film, signalled>>

\* stopPlayer, the first of run's deferred calls: it waits for the lock.
StopPlayer ==
    /\ fe = "quit" /\ player # "starting"
    /\ fe' = "stop"
    /\ IF player = "held" THEN ClosePlayer ELSE UNCHANGED <<player, film>>
    /\ UNCHANGED <<env, file, dialogs, caThere, n, be, launchVars, signalled>>

\* SIGTERM to the child.  One that is not yet listening for it is ended by it.
Terminated == [be EXCEPT ![n] = IF @ \in {"init", "built"} THEN "dead"
                                ELSE IF @ = "up" THEN "draining" ELSE @]

\* A mutant of StopChild: the child is told to end and not waited for.
StopChildWithoutWaiting ==
    /\ fe = "stop"
    /\ be' = IF Running(n) THEN Terminated ELSE be
    /\ Leave
    /\ UNCHANGED <<env, file, caThere, n, launchVars, film, signalled>>

\* Process.Stop, the second, to a child that runs.
StopChild ==
    /\ fe = "stop"
    /\ IF Running(n)
       THEN /\ fe' = "stopping"
            /\ be' = Terminated
            /\ UNCHANGED <<player, dialogs>>
       ELSE Leave /\ UNCHANGED be
    /\ UNCHANGED <<env, file, caThere, n, launchVars, film, signalled>>

\* Five seconds are over: Process.Stop insists.
StopInsists ==
    /\ fe = "stopping" /\ Running(n)
    /\ be' = [be EXCEPT ![n] = "dead"]
    /\ UNCHANGED <<env, file, dialogs, caThere, n, fe, player, launchVars, film, signalled>>

StopSeesExit ==
    /\ fe = "stopping" /\ ~Running(n)
    /\ Leave
    /\ UNCHANGED <<env, file, caThere, n, be, launchVars, film, signalled>>

-----------------------------------------------------------------------------
\* SIGTERM to the application, or Ctrl-C, which the terminal sends to the
\* children too.  The handler is os.Exit: no deferred call of run happens.
Signal ==
    /\ fe # "off"
    /\ Leave
    /\ signalled' = signalled \cup {n}
    /\ \/ UNCHANGED <<be, film>>
       \/ /\ be' = Terminated
          /\ film' = [film EXCEPT ![n] = FALSE]
    /\ UNCHANGED <<env, file, caThere, n, launchVars>>

\* The certificate file is moved away between two launches.
LoseCertificate ==
    /\ fe = "off" /\ caThere
    /\ caThere' = FALSE
    /\ UNCHANGED <<env, file, dialogs, n, fe, player, be, launchVars, film, signalled>>

Wait == Ready \/ WaitSeesExit \/ WaitTimesOut
Exit == StopPlayer \/ StopChild \/ StopInsists \/ StopSeesExit
PlayerSettles == PlayerAnswers \/ PlayerFails
Window == OpenSettings \/ SaveSettings \/ AnswerQuestion \/ SelectFile \/ Quit
Backend(l) == BackendBuilds(l) \/ BackendListens(l) \/ BackendDrains(l) \/ BackendCloses(l)

Next == \/ Start \/ TakePort \/ Wait \/ Window \/ WatchSeesExit
        \/ StartPlayer \/ PlayerSettles \/ Exit \/ Signal \/ LoseCertificate
        \/ \E l \in Launches : Backend(l) \/ BackendCrashes(l)

\* The program's own goroutines and timers go on; what people do is up to them.
Fairness ==
    /\ WF_vars(Wait) /\ WF_vars(Exit) /\ WF_vars(WatchSeesExit)
    /\ WF_vars(PlayerSettles)
    /\ \A l \in Launches : WF_vars(Backend(l))

Spec == Init /\ [][Next]_vars /\ Fairness

-----------------------------------------------------------------------------
\* Properties

\* Every variable has the values the code gives it.
LaunchTypeOK ==
    /\ env \in Envs
    /\ file \in Settings \cup {Damaged}
    /\ form \in Settings \cup {NoDialog}
    /\ question \in Settings \cup {NoDialog}
    /\ caThere \in BOOLEAN
    /\ n \in 0..MaxLaunches
    /\ fe \in {"off", "wait", "window", "quit", "stop", "stopping"}
    /\ fe # "off" => n \in Launches
    /\ player \in {"idle", "selected", "starting", "held"}
    /\ be \in [Launches -> {"none", "init", "built", "up", "draining", "closing", "dead"}]
    /\ taken \in [Launches -> BOOLEAN]
    /\ chosen \in [Launches -> Settings]
    /\ conf \in [Launches -> Environments]
    /\ film \in [Launches -> BOOLEAN]
    /\ signalled \in SUBSET Launches

\* A launch that ended otherwise than by a signal has left no backend behind,
\* however it ended: a refused start, a start that took too long, Quit, or a
\* backend that died on its own (the deferred Stop, backend.go:346).
OrderlyEndLeavesNoChild ==
    \A l \in Launches \ signalled :
        (l < n \/ (l = n /\ fe = "off")) => ~Running(l)

\* A backend that came up keeps the torrents where the settings of its launch
\* say, whatever the application inherited from a shell (LaunchEnv,
\* backend.go:224).
ChoiceReachesBackend ==
    \A l \in Launches : Running(l) => Mode(conf[l]) = Mode(chosen[l])

\* A saved choice is one the backend starts with, except for a gateway whose
\* address or certificate is wrong, which only the backend checks: the rules of
\* the dialogs (settings.go:94) and of the start (main.go:140) agree on the
\* rest, on every path a settings file can be written.
RefusedOnlyOverGateway ==
    \A l \in Launches :
        be[l] # "none" /\ Refused(conf[l], caThere) =>
            conf[l].url = "bad" \/ (conf[l].ca /\ ~caThere)

\* A window does not outlive its backend, not even one that was opened by the
\* answer of a stranger on the port (main.go:206, waitForBackend).
WindowFollowsBackend ==
    \A l \in Launches :
        (n = l /\ fe # "off" /\ be[l] = "dead") ~> (fe = "off" \/ n # l)

\* An application that was told to quit does end: whatever its player is doing
\* and however long the backend takes.
QuitFinishes == (fe = "quit") ~> (fe = "off")
=============================================================================
