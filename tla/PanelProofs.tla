----------------------------- MODULE PanelProofs -----------------------------
(***************************************************************************)
(* Theorems about the service, its workers and the control panel, for any  *)
(* number of sessions, processes, configurations and disturbances.  The    *)
(* proofs need no fairness: they hold for every interleaving.              *)
(***************************************************************************)
EXTENDS Panel, TLAPS

USE DEF Status

-----------------------------------------------------------------------------
(* Lemmas                                                                  *)

\* A process that vanishes leaves the variables of all processes in their domains.
LEMMA VanishType ==
  ASSUME TypeOK, NEW p \in Procs, Vanish(p)
  PROVE  /\ stage' \in [Procs -> {"gone", "starting", "up", "ending"}]
         /\ session' \in [Procs -> Sessions \cup {NoSession}]
         /\ config' \in [Procs -> Saved \cup {None}]
         /\ last' \in [Procs -> Saved \cup {None}]
         /\ watching' \in [Procs -> BOOLEAN] /\ bound' \in [Procs -> BOOLEAN]
         /\ temps' \subseteq Procs /\ missed' \subseteq Procs
BY DEF TypeOK, Vanish

\* Nothing but counts is needed of a disturbance.
LEMMA DisturbType == ASSUME TypeOK, Disturb PROVE events' \in 0 .. MaxEvents
BY WatchdogAssumption DEF TypeOK, Disturb

\* What is saved is a pair, and those that miss it are processes.
LEMMA SaveType ==
  ASSUME TypeOK, NEW c \in Saved, Save(c) PROVE disk' \in Saved /\ missed' \subseteq Procs
BY DEF TypeOK, Save

\* Every step of the service and its workers keeps the types.
LEMMA NextKeepsType == ASSUME TypeOK, Next PROVE TypeOK'
<1> USE WatchdogAssumption DEF Saved, outside, service, memory, process
<1>1. ASSUME NEW s \in Sessions \cup {NoSession}, SwitchSession(s) PROVE TypeOK'
  BY <1>1, DisturbType DEF SwitchSession, TypeOK
<1>2. ASSUME NEW c \in Configs, SaveConfig(c) PROVE TypeOK'
  BY <1>2, DisturbType, SaveType DEF SaveConfig, TypeOK
<1>3. ASSUME NEW p \in Procs, WorkerDies(p) PROVE TypeOK'
  BY <1>3, DisturbType, VanishType DEF WorkerDies, TypeOK
<1>4. CASE RequestStop
  BY <1>4, DisturbType DEF RequestStop, TypeOK
<1>5. CASE CheckSession
  BY <1>5 DEF CheckSession, Kill, TypeOK
<1>6. CASE WorkerAlive
  BY <1>6 DEF WorkerAlive, TypeOK
<1>7. CASE StopService
  BY <1>7 DEF StopService, Kill, TypeOK
<1>8. ASSUME NEW p \in Procs, SpawnWorker(p) PROVE TypeOK'
  BY <1>8 DEF SpawnWorker, Started, TypeOK
<1>9. CASE SpawnFails
  BY <1>9, DisturbType DEF SpawnFails, TypeOK
<1>10. ASSUME NEW p \in Procs, LoadConfig(p) PROVE TypeOK'
  <2>1. disk' \in Saved /\ missed' \subseteq Procs
    BY <1>10, SaveType DEF LoadConfig, TypeOK
  <2> QED BY <1>10, <2>1, DisturbType DEF LoadConfig, TypeOK
<1>11. ASSUME NEW p \in Procs, StartWatch(p) PROVE TypeOK'
  BY <1>11, DisturbType DEF StartWatch, TypeOK
<1>12. ASSUME NEW p \in Procs, WatchTick(p) PROVE TypeOK'
  BY <1>12, DisturbType, VanishType DEF WatchTick, TypeOK
<1>13. ASSUME NEW p \in Procs, Bind(p) PROVE TypeOK'
  BY <1>13 DEF Bind, TypeOK
<1>14. ASSUME NEW p \in Procs, Terminated(p) PROVE TypeOK'
  BY <1>14, VanishType DEF Terminated, TypeOK
<1> QED BY <1>1, <1>2, <1>3, <1>4, <1>5, <1>6, <1>7, <1>8, <1>9, <1>10, <1>11, <1>12,
           <1>13, <1>14 DEF Next, Loop, Outside, Progress

\* The vanishing of a process is noticed in what is known of the file, whatever the step.
LEMMA OutlivedType ==
  ASSUME NEW s \in Status \cup {None} PROVE Outlived(s) \in Status \cup {None}
<1>1. CASE s = None
  BY <1>1 DEF Outlived
<1>2. CASE s \in Status
  <2>1. [s EXCEPT !.living = FALSE] \in Status
    BY <1>2
  <2> QED BY <1>2, <2>1 DEF Outlived
<1> QED BY <1>1, <1>2

LEMMA BesideType ==
  ASSUME PanelTypeOK, Beside
  PROVE  status' \in Status \cup {None} /\ target' \in Status \cup {None}
BY OutlivedType DEF Beside, PanelTypeOK

\* The same for the buttons of the panel and the file.
LEMMA PanelKeepsType == ASSUME PanelTypeOK, [PanelNext]_allVars PROVE PanelTypeOK'
<1> USE WatchdogAssumption, PanelAssumption DEF outside, service, memory, process
<1>1. CASE Next /\ Beside
  BY <1>1, NextKeepsType, BesideType DEF Beside, PanelTypeOK
<1>2. ASSUME NEW p \in Procs, WriteStatus(p) PROVE PanelTypeOK'
  <2>1. [pid |-> p, living |-> TRUE] \in Status
    OBVIOUS
  <2> QED BY <1>2, <2>1 DEF WriteStatus, PanelTypeOK, TypeOK, vars
<1>3. ASSUME NEW p \in Procs, NEW c \in Configs, TempRun(c, p) PROVE PanelTypeOK'
  <2>1. disk' \in Saved /\ missed' \subseteq Procs
    BY <1>3, SaveType DEF TempRun, PanelTypeOK, Saved
  <2> QED BY <1>3, <2>1 DEF TempRun, Started, PanelTypeOK, TypeOK, panel
<1>4. ASSUME NEW c \in Configs, Install(c) PROVE PanelTypeOK'
  <2>1. disk' \in Saved /\ missed' \subseteq Procs
    BY <1>4, SaveType DEF Install, PanelTypeOK, Saved
  <2> QED BY <1>4, <2>1, DisturbType DEF Install, PanelTypeOK, TypeOK
<1>5. CASE Uninstall
  BY <1>5, DisturbType DEF Uninstall, PanelTypeOK, TypeOK
<1>6. CASE ReadStatus
  BY <1>6 DEF ReadStatus, PanelTypeOK, TypeOK, vars
<1>7. CASE TempStop
  BY <1>7 DEF TempStop, Kill, PanelTypeOK, TypeOK
<1>8. CASE UNCHANGED allVars
  BY <1>8 DEF allVars, vars, panel, PanelTypeOK, TypeOK
<1> QED BY <1>1, <1>2, <1>3, <1>4, <1>5, <1>6, <1>7, <1>8 DEF PanelNext

\* The types hold in every state, for any sets of processes, sessions and configurations.
THEOREM TypeCorrect == PanelSpec => []PanelTypeOK
<1>1. ASSUME PanelInit PROVE PanelTypeOK
  <2>1. installed \in BOOLEAN /\ stopping \in BOOLEAN
    BY <1>1, Zenon DEF PanelInit, Init
  <2>2. /\ events \in 0 .. MaxEvents /\ stops \in 0 .. MaxStops
        /\ status \in Status \cup {None} /\ target \in Status \cup {None}
    BY <1>1, WatchdogAssumption, PanelAssumption DEF PanelInit, Init
  <2> QED BY <1>1, <2>1, <2>2 DEF PanelInit, Init, PanelTypeOK, TypeOK, Saved
<1> QED BY <1>1, PanelKeepsType, PTL DEF PanelSpec

-----------------------------------------------------------------------------
(* No worker is left behind                                                *)

\* A stopped service holds no worker; with NoOrphan this is inductive.
HandleInv == NoOrphan /\ (pc = "stopped" => worker = None)

\* No step of the service and its workers lets go of one that runs.
LEMMA NextKeepsHandle == ASSUME TypeOK, HandleInv, Next PROVE HandleInv'
<1> USE WatchdogAssumption DEF HandleInv, NoOrphan, outside, service, memory, process
<1>1. ASSUME NEW s \in Sessions \cup {NoSession}, SwitchSession(s) PROVE HandleInv'
  BY <1>1 DEF SwitchSession
<1>2. ASSUME NEW c \in Configs, SaveConfig(c) PROVE HandleInv'
  BY <1>2 DEF SaveConfig
<1>3. ASSUME NEW p \in Procs, WorkerDies(p) PROVE HandleInv'
  BY <1>3 DEF WorkerDies, Vanish, TypeOK
<1>4. CASE RequestStop
  BY <1>4 DEF RequestStop
<1>5. CASE CheckSession
  BY <1>5 DEF CheckSession, Kill, TypeOK
<1>6. CASE WorkerAlive
  BY <1>6 DEF WorkerAlive
<1>7. CASE StopService
  BY <1>7 DEF StopService, Kill, TypeOK
<1>8. ASSUME NEW p \in Procs, SpawnWorker(p) PROVE HandleInv'
  BY <1>8 DEF SpawnWorker, NeedSpawn, Started, TypeOK
<1>9. CASE SpawnFails
  BY <1>9 DEF SpawnFails
<1>10. ASSUME NEW p \in Procs, LoadConfig(p) PROVE HandleInv'
  BY <1>10 DEF LoadConfig, TypeOK
<1>11. ASSUME NEW p \in Procs, StartWatch(p) PROVE HandleInv'
  BY <1>11 DEF StartWatch
<1>12. ASSUME NEW p \in Procs, WatchTick(p) PROVE HandleInv'
  BY <1>12 DEF WatchTick, Vanish, TypeOK
<1>13. ASSUME NEW p \in Procs, Bind(p) PROVE HandleInv'
  BY <1>13 DEF Bind
<1>14. ASSUME NEW p \in Procs, Terminated(p) PROVE HandleInv'
  BY <1>14 DEF Terminated, Vanish, TypeOK
<1> QED BY <1>1, <1>2, <1>3, <1>4, <1>5, <1>6, <1>7, <1>8, <1>9, <1>10, <1>11, <1>12,
           <1>13, <1>14 DEF Next, Loop, Outside, Progress

\* Nor does a button of the panel.
LEMMA PanelKeepsHandle ==
  ASSUME PanelTypeOK, HandleInv, [PanelNext]_allVars PROVE HandleInv'
<1> USE DEF HandleInv, NoOrphan, outside, service, memory, process, vars
<1>1. CASE Next /\ Beside
  BY <1>1, NextKeepsHandle DEF PanelTypeOK
<1>2. ASSUME NEW p \in Procs, WriteStatus(p) PROVE HandleInv'
  BY <1>2 DEF WriteStatus
<1>3. ASSUME NEW p \in Procs, NEW c \in Configs, TempRun(c, p) PROVE HandleInv'
  BY <1>3 DEF TempRun, Started, PanelTypeOK, TypeOK
<1>4. ASSUME NEW c \in Configs, Install(c) PROVE HandleInv'
  BY <1>4 DEF Install
<1>5. CASE Uninstall
  BY <1>5 DEF Uninstall
<1>6. CASE ReadStatus
  BY <1>6 DEF ReadStatus
<1>7. CASE TempStop
  BY <1>7 DEF TempStop, Kill, PanelTypeOK, TypeOK
<1>8. CASE UNCHANGED allVars
  BY <1>8 DEF allVars
<1> QED BY <1>1, <1>2, <1>3, <1>4, <1>5, <1>6, <1>7, <1>8 DEF PanelNext

\* The invariant of the handle holds in every state.
LEMMA HandleCorrect == PanelSpec => []HandleInv
<1>1. PanelInit => HandleInv
  BY DEF PanelInit, Init, HandleInv, NoOrphan
<1> QED BY <1>1, TypeCorrect, PanelKeepsHandle, PTL DEF PanelSpec

\* Whatever order sessions change, workers die and buttons are pressed in, a worker of the
\* service that runs is the one whose handle the watchdog holds.
THEOREM NoneLeftBehind == PanelSpec => []NoOrphan
<1>1. HandleInv => NoOrphan
  BY DEF HandleInv
<1> QED BY <1>1, HandleCorrect, PTL

\* Once the service has stopped, each of its workers has been told to end.
THEOREM StoppedRunsNothing ==
  PanelSpec => [](pc = "stopped" => \A p \in Procs \ temps : stage[p] \in {"gone", "ending"})
<1>1. PanelTypeOK /\ HandleInv
        => (pc = "stopped" => \A p \in Procs \ temps : stage[p] \in {"gone", "ending"})
  BY WatchdogAssumption DEF PanelTypeOK, TypeOK, HandleInv, NoOrphan
<1> QED BY <1>1, HandleCorrect, TypeCorrect, PTL

-----------------------------------------------------------------------------
(* What the file says                                                      *)

\* While the process that wrote the file lives, the file, and what was read from it, speaks
\* of a temporary worker only if it is one.
Speaks(s) == s # None /\ s.living => s.pid \in temps
StatusTrue == Speaks(status) /\ Speaks(target)

\* A worker stops being a temporary one only by ending, which Beside notices.
LEMMA NextKeepsStatus == ASSUME PanelTypeOK, StatusTrue, Next, Beside PROVE StatusTrue'
<1>1. \A q \in temps : stage'[q] # "gone" => q \in temps'
  <2>1. ASSUME NEW p \in Procs, Vanish(p) PROVE \A q \in temps : stage'[q] # "gone" => q \in temps'
    BY <2>1 DEF Vanish, PanelTypeOK, TypeOK
  <2> QED
    BY <2>1 DEF Next, Loop, Outside, Progress, SwitchSession, SaveConfig, WorkerDies,
       RequestStop, CheckSession, WorkerAlive, StopService, SpawnWorker, SpawnFails, LoadConfig,
       StartWatch, WatchTick, Bind, Terminated, memory, process
<1>2. ASSUME NEW s \in Status \cup {None}, Speaks(s), Outlived(s) # None, Outlived(s).living
      PROVE  Outlived(s).pid \in temps'
  <2>1. s \in Status /\ Outlived(s) = s /\ stage'[s.pid] # "gone"
    BY <1>2 DEF Outlived
  <2>2. s.pid \in temps
    BY <1>2, <2>1, WatchdogAssumption DEF Speaks, Outlived
  <2> QED BY <1>1, <2>1, <2>2
<1> QED BY <1>2 DEF StatusTrue, Speaks, Beside, PanelTypeOK

\* The buttons and the writing of the file keep it true.
LEMMA PanelKeepsStatus ==
  ASSUME PanelTypeOK, StatusTrue, [PanelNext]_allVars PROVE StatusTrue'
<1> USE DEF StatusTrue, Speaks
<1>1. CASE Next /\ Beside
  BY <1>1, NextKeepsStatus
<1>2. ASSUME NEW p \in Procs, WriteStatus(p) PROVE StatusTrue'
  BY <1>2 DEF WriteStatus, vars, process, memory
<1>3. ASSUME NEW p \in Procs, NEW c \in Configs, TempRun(c, p) PROVE StatusTrue'
  BY <1>3 DEF TempRun, panel
<1>4. CASE Uninstall \/ ReadStatus \/ TempStop \/ \E c \in Configs : Install(c)
  BY <1>4 DEF Uninstall, ReadStatus, TempStop, Install, vars, process, memory
<1>5. CASE UNCHANGED allVars
  BY <1>5 DEF allVars, vars, panel, process, memory
<1> QED BY <1>1, <1>2, <1>3, <1>4, <1>5 DEF PanelNext

\* The button that stops a temporary worker ends a worker of the service only when it goes
\* by what a process wrote that is gone.
THEOREM KillsTempsOnly == PanelSpec => KillsOnlyTemps
<1>1. PanelInit => StatusTrue
  BY DEF PanelInit, StatusTrue, Speaks
<1>2. PanelSpec => []StatusTrue
  BY <1>1, TypeCorrect, PanelKeepsStatus, PTL DEF PanelSpec
<1>3. PanelTypeOK /\ StatusTrue
        => [TempStop => \A p \in Procs \ temps :
              stage'[p] # stage[p] => target.pid = p /\ ~target.living]_allVars
  BY DEF TempStop, Kill, StatusTrue, Speaks, PanelTypeOK, TypeOK
<1> QED BY <1>2, <1>3, TypeCorrect, PTL DEF KillsOnlyTemps
=============================================================================
