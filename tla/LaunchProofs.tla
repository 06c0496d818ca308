---------------------------- MODULE LaunchProofs ----------------------------
(***************************************************************************)
(* Proofs about Launch: for any choices, any inherited environment and any *)
(* number of launches, what a launch was told is what its settings say,    *)
(* settings that reached the disk are ones the dialogs accept, and an      *)
(* orderly end leaves no backend behind.                                   *)
(***************************************************************************)
EXTENDS Launch, TLAPS

\* What the launches have run on so far is sound: whatever settings file can be
\* read is one the dialogs would save, every launch read such settings, and its
\* backend was configured from them and the inherited environment alone.
SoundFile == file # Damaged => ~Problem(file)
SoundLaunches ==
    \A l \in Launches :
        /\ ~Problem(chosen[l])
        /\ conf[l] = ParseFlags(Args(chosen[l]), LaunchEnv(env, chosen[l]))

LaunchInv == LaunchTypeOK /\ SoundFile /\ SoundLaunches /\ OrderlyEndLeavesNoChild

-----------------------------------------------------------------------------
\* The operators on settings

LEMMA DefaultIsSound == DefaultSettings \in Settings /\ ~Problem(DefaultSettings)
BY DEF DefaultSettings, Settings, Addresses, Problem

LEMMA LoadedIsSound ==
    ASSUME file \in Settings \cup {Damaged}, SoundFile
    PROVE  Loaded \in Settings /\ ~Problem(Loaded)
BY DefaultIsSound DEF Loaded, SoundFile

LEMMA AppliedAreSettings ==
    ASSUME NEW s \in Settings, NEW fields \in Settings
    PROVE  ApplyStorage(s, fields) \in Settings /\ ApplyForm(s, fields) \in Settings
<1>1. ApplyStorage(s, fields) \in Settings
  BY DEF ApplyStorage, Settings
<1>2. ApplyForm(s, fields) \in Settings
  BY <1>1 DEF ApplyForm, Settings
<1> QED BY <1>1, <1>2

\* A configuration is typed, and the four fields that decide the mode and the
\* refusal are the settings', whatever the environment says.
LEMMA ConfOfSettings ==
    ASSUME NEW e \in Environments, NEW s \in Settings
    PROVE  LET c == ParseFlags(Args(s), LaunchEnv(e, s)) IN
           /\ c \in Environments
           /\ c.disk = s.disk /\ c.dir = s.dir /\ c.url = s.url
           /\ c.login = (s.url # "none" /\ s.login)
<1>1. LaunchEnv(e, s) \in Environments
  BY DEF LaunchEnv, Environments, Settings
<1>2. /\ LaunchEnv(e, s).disk = FALSE
      /\ LaunchEnv(e, s).url = s.url
      /\ LaunchEnv(e, s).login = (s.url # "none" /\ s.login)
  BY DEF LaunchEnv, Environments, Settings
<1>3. Args(s).disk = s.disk /\ Args(s).dir = s.dir
  BY DEF Args
<1> HIDE DEF Args, LaunchEnv
<1> QED BY <1>1, <1>2, <1>3 DEF ParseFlags, Environments, Settings

-----------------------------------------------------------------------------
\* The inductive invariant

LEMMA LaunchInit == Init => LaunchInv
<1> SUFFICES ASSUME Init PROVE LaunchInv
  OBVIOUS
<1> USE LaunchAssumption DEF Init
<1>1. env \in Environments
  OBVIOUS
<1>2. LaunchTypeOK
  BY <1>1, DefaultIsSound, ConfOfSettings DEF LaunchTypeOK
<1>3. SoundFile /\ SoundLaunches
  BY DefaultIsSound DEF SoundFile, SoundLaunches
<1>4. OrderlyEndLeavesNoChild
  BY DEF OrderlyEndLeavesNoChild, Running, Launches
<1> QED BY <1>2, <1>3, <1>4 DEF LaunchInv

\* The variables a step leaves alone, and what that keeps.
LEMMA SoundnessKept ==
    ASSUME LaunchInv, UNCHANGED <<env, file, chosen, conf>>
    PROVE  SoundFile' /\ SoundLaunches'
BY DEF LaunchInv, SoundFile, SoundLaunches

LEMMA LaunchStep == LaunchInv /\ [Next]_vars => LaunchInv'
<1> SUFFICES ASSUME LaunchInv, [Next]_vars PROVE LaunchInv'
  OBVIOUS
<1> USE DEF LaunchInv
<1>1. CASE Start
  <2>1. Loaded \in Settings /\ ~Problem(Loaded)
    BY LoadedIsSound DEF LaunchTypeOK
  <2>2. ParseFlags(Args(Loaded), LaunchEnv(env, Loaded)) \in Environments
    BY <2>1, ConfOfSettings, LaunchAssumption DEF LaunchTypeOK
  <2>3. n + 1 \in Launches
    BY <1>1, LaunchAssumption DEF Start, LaunchTypeOK, Launches
  <2>4. LaunchTypeOK'
    BY <1>1, <2>1, <2>2, <2>3 DEF Start, LaunchTypeOK, dialogs, Launches
  <2>5. SoundFile' /\ SoundLaunches'
    BY <1>1, <2>1, <2>3 DEF Start, LaunchTypeOK, SoundFile, SoundLaunches
  <2>6. OrderlyEndLeavesNoChild'
    BY <1>1, <2>3, LaunchAssumption
       DEF Start, LaunchTypeOK, OrderlyEndLeavesNoChild, Running, Launches
  <2> QED BY <2>4, <2>5, <2>6
<1>2. CASE TakePort
  <2>1. LaunchTypeOK'
    BY <1>2 DEF TakePort, LaunchTypeOK, dialogs, launchVars
  <2>2. OrderlyEndLeavesNoChild'
    BY <1>2 DEF TakePort, OrderlyEndLeavesNoChild, Running, LaunchTypeOK, dialogs, launchVars
  <2> QED BY <1>2, <2>1, <2>2, SoundnessKept DEF TakePort, launchVars
<1>3. CASE Ready
  <2>1. LaunchTypeOK'
    BY <1>3, LoadedIsSound DEF Ready, LaunchTypeOK, dialogs, launchVars
  <2>2. OrderlyEndLeavesNoChild'
    BY <1>3 DEF Ready, OrderlyEndLeavesNoChild, Running, LaunchTypeOK, dialogs, launchVars
  <2> QED BY <1>3, <2>1, <2>2, SoundnessKept DEF Ready, launchVars
<1>4. CASE WaitSeesExit
  <2>1. LaunchTypeOK'
    BY <1>4 DEF WaitSeesExit, LaunchTypeOK, dialogs, launchVars, Leave
  <2>2. OrderlyEndLeavesNoChild'
    BY <1>4 DEF WaitSeesExit, OrderlyEndLeavesNoChild, Running, LaunchTypeOK, dialogs, launchVars, Leave
  <2> QED BY <1>4, <2>1, <2>2, SoundnessKept DEF WaitSeesExit, launchVars
<1>5. CASE WaitTimesOut
  <2>1. LaunchTypeOK'
    BY <1>5 DEF WaitTimesOut, LaunchTypeOK, dialogs, launchVars
  <2>2. OrderlyEndLeavesNoChild'
    BY <1>5 DEF WaitTimesOut, OrderlyEndLeavesNoChild, Running, LaunchTypeOK, dialogs, launchVars
  <2> QED BY <1>5, <2>1, <2>2, SoundnessKept DEF WaitTimesOut, launchVars
<1>6. CASE OpenSettings
  <2>1. LaunchTypeOK'
    BY <1>6, LoadedIsSound DEF OpenSettings, LaunchTypeOK, dialogs, launchVars
  <2>2. OrderlyEndLeavesNoChild'
    BY <1>6 DEF OpenSettings, OrderlyEndLeavesNoChild, Running, LaunchTypeOK, dialogs, launchVars
  <2> QED BY <1>6, <2>1, <2>2, SoundnessKept DEF OpenSettings, launchVars
<1>7. CASE SaveSettings
  <2>1. PICK fields \in Choices : file' = ApplyForm(form, fields) /\ ~Problem(file')
    BY <1>7 DEF SaveSettings, Save
  <2>2. file' \in Settings
    BY <1>7, <2>1, AppliedAreSettings, LaunchAssumption DEF SaveSettings, LaunchTypeOK
  <2>3. LaunchTypeOK'
    BY <1>7, <2>2 DEF SaveSettings, LaunchTypeOK, launchVars
  <2>4. SoundFile' /\ SoundLaunches'
    BY <1>7, <2>1 DEF SaveSettings, SoundFile, SoundLaunches, launchVars
  <2>5. OrderlyEndLeavesNoChild'
    BY <1>7 DEF SaveSettings, OrderlyEndLeavesNoChild, Running
  <2> QED BY <2>3, <2>4, <2>5
<1>8. CASE AnswerQuestion
  <2>1. PICK fields \in Choices : file' = ApplyStorage(question, fields) /\ ~Problem(file')
    BY <1>8 DEF AnswerQuestion, Save
  <2>2. file' \in Settings
    BY <1>8, <2>1, AppliedAreSettings, LaunchAssumption DEF AnswerQuestion, LaunchTypeOK
  <2>3. LaunchTypeOK'
    BY <1>8, <2>2 DEF AnswerQuestion, LaunchTypeOK, launchVars
  <2>4. SoundFile' /\ SoundLaunches'
    BY <1>8, <2>1 DEF AnswerQuestion, SoundFile, SoundLaunches, launchVars
  <2>5. OrderlyEndLeavesNoChild'
    BY <1>8 DEF AnswerQuestion, OrderlyEndLeavesNoChild, Running
  <2> QED BY <2>3, <2>4, <2>5
<1>9. CASE SelectFile
  <2>1. LaunchTypeOK'
    BY <1>9 DEF SelectFile, LaunchTypeOK, dialogs, launchVars
  <2>2. OrderlyEndLeavesNoChild'
    BY <1>9 DEF SelectFile, OrderlyEndLeavesNoChild, Running, LaunchTypeOK, dialogs, launchVars
  <2> QED BY <1>9, <2>1, <2>2, SoundnessKept DEF SelectFile, launchVars
<1>10. CASE StartPlayer
  <2>1. LaunchTypeOK'
    BY <1>10 DEF StartPlayer, LaunchTypeOK, dialogs, launchVars
  <2>2. OrderlyEndLeavesNoChild'
    BY <1>10 DEF StartPlayer, OrderlyEndLeavesNoChild, Running, LaunchTypeOK, dialogs, launchVars
  <2> QED BY <1>10, <2>1, <2>2, SoundnessKept DEF StartPlayer, launchVars
<1>11. CASE PlayerAnswers
  <2>1. LaunchTypeOK'
    BY <1>11 DEF PlayerAnswers, LaunchTypeOK, dialogs, launchVars
  <2>2. OrderlyEndLeavesNoChild'
    BY <1>11 DEF PlayerAnswers, OrderlyEndLeavesNoChild, Running, LaunchTypeOK, dialogs, launchVars
  <2> QED BY <1>11, <2>1, <2>2, SoundnessKept DEF PlayerAnswers, launchVars
<1>12. CASE PlayerFails
  <2>1. LaunchTypeOK'
    BY <1>12 DEF PlayerFails, LaunchTypeOK, dialogs, launchVars, ClosePlayer
  <2>2. OrderlyEndLeavesNoChild'
    BY <1>12 DEF PlayerFails, OrderlyEndLeavesNoChild, Running, LaunchTypeOK, dialogs, launchVars, ClosePlayer
  <2> QED BY <1>12, <2>1, <2>2, SoundnessKept DEF PlayerFails, launchVars
<1>13. CASE Quit
  <2>1. LaunchTypeOK'
    BY <1>13 DEF Quit, LaunchTypeOK, dialogs, launchVars
  <2>2. OrderlyEndLeavesNoChild'
    BY <1>13 DEF Quit, OrderlyEndLeavesNoChild, Running, LaunchTypeOK, dialogs, launchVars
  <2> QED BY <1>13, <2>1, <2>2, SoundnessKept DEF Quit, launchVars
<1>14. CASE WatchSeesExit
  <2>1. LaunchTypeOK'
    BY <1>14 DEF WatchSeesExit, LaunchTypeOK, dialogs, launchVars
  <2>2. OrderlyEndLeavesNoChild'
    BY <1>14 DEF WatchSeesExit, OrderlyEndLeavesNoChild, Running, LaunchTypeOK, dialogs, launchVars
  <2> QED BY <1>14, <2>1, <2>2, SoundnessKept DEF WatchSeesExit, launchVars
<1>15. CASE StopPlayer
  <2>1. LaunchTypeOK'
    BY <1>15 DEF StopPlayer, LaunchTypeOK, dialogs, launchVars, ClosePlayer
  <2>2. OrderlyEndLeavesNoChild'
    BY <1>15 DEF StopPlayer, OrderlyEndLeavesNoChild, Running, LaunchTypeOK, dialogs, launchVars, ClosePlayer
  <2> QED BY <1>15, <2>1, <2>2, SoundnessKept DEF StopPlayer, launchVars
<1>16. CASE StopChild
  <2>1. LaunchTypeOK'
    BY <1>16 DEF StopChild, LaunchTypeOK, dialogs, launchVars, Leave, Terminated
  <2>2. OrderlyEndLeavesNoChild'
    BY <1>16 DEF StopChild, OrderlyEndLeavesNoChild, Running, LaunchTypeOK, dialogs, launchVars, Leave, Terminated
  <2> QED BY <1>16, <2>1, <2>2, SoundnessKept DEF StopChild, launchVars
<1>17. CASE StopInsists
  <2>1. LaunchTypeOK'
    BY <1>17 DEF StopInsists, LaunchTypeOK, dialogs, launchVars
  <2>2. OrderlyEndLeavesNoChild'
    BY <1>17 DEF StopInsists, OrderlyEndLeavesNoChild, Running, LaunchTypeOK, dialogs, launchVars
  <2> QED BY <1>17, <2>1, <2>2, SoundnessKept DEF StopInsists, launchVars
<1>18. CASE StopSeesExit
  <2>1. LaunchTypeOK'
    BY <1>18 DEF StopSeesExit, LaunchTypeOK, dialogs, launchVars, Leave
  <2>2. OrderlyEndLeavesNoChild'
    BY <1>18 DEF StopSeesExit, OrderlyEndLeavesNoChild, Running, LaunchTypeOK, dialogs, launchVars, Leave
  <2> QED BY <1>18, <2>1, <2>2, SoundnessKept DEF StopSeesExit, launchVars
<1>19. CASE Signal
  <2>1. LaunchTypeOK'
    BY <1>19 DEF Signal, LaunchTypeOK, dialogs, launchVars, Leave, Terminated
  <2>2. OrderlyEndLeavesNoChild'
    BY <1>19 DEF Signal, OrderlyEndLeavesNoChild, Running, LaunchTypeOK, dialogs, launchVars, Leave, Terminated
  <2> QED BY <1>19, <2>1, <2>2, SoundnessKept DEF Signal, launchVars
<1>20. CASE LoseCertificate
  <2>1. LaunchTypeOK'
    BY <1>20 DEF LoseCertificate, LaunchTypeOK, dialogs, launchVars
  <2>2. OrderlyEndLeavesNoChild'
    BY <1>20 DEF LoseCertificate, OrderlyEndLeavesNoChild, Running, LaunchTypeOK, dialogs, launchVars
  <2> QED BY <1>20, <2>1, <2>2, SoundnessKept DEF LoseCertificate, launchVars
<1>21. ASSUME NEW l \in Launches, Backend(l) \/ BackendCrashes(l)
      PROVE  LaunchInv'
  <2> USE <1>21 DEF Backend, BackendBuilds, BackendListens, BackendDrains,
                  BackendCloses, BackendCrashes, dialogs, launchVars
  <2>1. LaunchTypeOK'
    BY DEF LaunchTypeOK
  <2>2. OrderlyEndLeavesNoChild'
    BY DEF OrderlyEndLeavesNoChild, Running, LaunchTypeOK
  <2> QED BY <2>1, <2>2, SoundnessKept
<1>22. CASE UNCHANGED vars
  BY <1>22 DEF vars, LaunchTypeOK, SoundFile, SoundLaunches, OrderlyEndLeavesNoChild, Running
<1> QED
  BY <1>1, <1>2, <1>3, <1>4, <1>5, <1>6, <1>7, <1>8, <1>9, <1>10, <1>11, <1>12, <1>13, <1>14, <1>15, <1>16, <1>17, <1>18, <1>19, <1>20, <1>21, <1>22
     DEF Next, Wait, Window, PlayerSettles, Exit

-----------------------------------------------------------------------------
\* The theorems

\* The invariant holds throughout.
LEMMA LaunchInvariant == Spec => []LaunchInv
BY LaunchInit, LaunchStep, PTL DEF Spec

\* Every variable has the values the code gives it, over any number of launches.
THEOREM LaunchTypes == Spec => []LaunchTypeOK
<1>1. LaunchInv => LaunchTypeOK
  BY DEF LaunchInv
<1> QED BY <1>1, LaunchInvariant, PTL

\* A launch that ended otherwise than by a signal has left no backend behind
\* (main.go's deferred Stop, backend.go:346).
THEOREM NoChildLeftBehind == Spec => []OrderlyEndLeavesNoChild
<1>1. LaunchInv => OrderlyEndLeavesNoChild
  BY DEF LaunchInv
<1> QED BY <1>1, LaunchInvariant, PTL

\* What the invariant says of the fields a launch is decided by.
LEMMA FieldsOfLaunch ==
    ASSUME LaunchInv, NEW l \in Launches
    PROVE  /\ conf[l].disk = chosen[l].disk /\ conf[l].dir = chosen[l].dir
           /\ conf[l].url = chosen[l].url
           /\ conf[l].login = (chosen[l].url # "none" /\ chosen[l].login)
<1> DEFINE told == ParseFlags(Args(chosen[l]), LaunchEnv(env, chosen[l]))
<1>1. chosen[l] \in Settings /\ env \in Environments
  BY LaunchAssumption DEF LaunchInv, LaunchTypeOK
<1>2. /\ told.disk = chosen[l].disk /\ told.dir = chosen[l].dir
      /\ told.url = chosen[l].url
      /\ told.login = (chosen[l].url # "none" /\ chosen[l].login)
  <2> HIDE DEF told
  <2> QED BY <1>1, ConfOfSettings DEF told
<1>3. conf[l] = told
  BY DEF LaunchInv, SoundLaunches
<1> HIDE DEF told
<1> QED BY <1>2, <1>3

\* A backend that runs keeps the torrents where the settings say, whatever the
\* environment the application inherited (LaunchEnv, backend.go:224).
THEOREM ChoiceHolds == Spec => []ChoiceReachesBackend
<1>1. LaunchInv => ChoiceReachesBackend
  <2> SUFFICES ASSUME LaunchInv, NEW l \in Launches
               PROVE  Mode(conf[l]) = Mode(chosen[l])
    BY DEF ChoiceReachesBackend
  <2>1. conf[l].url = chosen[l].url /\ conf[l].disk = chosen[l].disk
    BY FieldsOfLaunch
  <2> QED BY <2>1 DEF Mode
<1> QED BY <1>1, LaunchInvariant, PTL

\* The backend refuses nothing the dialogs let through but a gateway's address
\* or certificate (settings.go:94 against main.go:140).
THEOREM OnlyGatewaysAreRefused == Spec => []RefusedOnlyOverGateway
<1>1. LaunchInv => RefusedOnlyOverGateway
  <2> SUFFICES ASSUME LaunchInv, NEW l \in Launches, Refused(conf[l], caThere)
               PROVE  conf[l].url = "bad" \/ (conf[l].ca /\ ~caThere)
    BY DEF RefusedOnlyOverGateway
  <2>1. /\ conf[l].disk = chosen[l].disk /\ conf[l].dir = chosen[l].dir
        /\ conf[l].url = chosen[l].url
        /\ conf[l].login = (chosen[l].url # "none" /\ chosen[l].login)
    BY FieldsOfLaunch
  <2>2. ~Problem(chosen[l])
    BY DEF LaunchInv, SoundLaunches
  <2> QED BY <2>1, <2>2 DEF Refused, Problem
<1> QED BY <1>1, LaunchInvariant, PTL
=============================================================================
