-------------------------------- MODULE Panel --------------------------------
(***************************************************************************)
(* The control panel of the server beside the service and its workers: the *)
(* buttons of rcontrol_server/src/gui.rs with the calls they make in       *)
(* service_manager.rs, and the file status.json, by which the workers tell *)
(* the panel that they run.                                                *)
(*                                                                         *)
(* The panel keeps no account of the workers it starts for the user: to    *)
(* stop one it kills the process whose id the file holds, if the file says *)
(* that it was started that way.  All workers write the file.              *)
(***************************************************************************)
EXTENDS Watchdog

CONSTANT MaxStops   (* bound: presses of the button that stops a temporary worker *)

ASSUME PanelAssumption == MaxStops \in Nat

VARIABLES
  installed,  (* the service exists and is not marked for deletion     *)
  status,     (* the process that status.json says is a temporary one, *)
              (* or None: it is about a worker of the service          *)
  stops,      (* presses so far                                        *)
  target      (* what the panel read from the file when it was asked   *)
              (* to stop a temporary worker, until it has done so      *)

panel == <<installed, status, stops, target>>
allVars == <<vars, panel>>

\* living: the process that wrote the file still exists.
Status == [pid: Procs, living: BOOLEAN]

PanelTypeOK ==
  /\ TypeOK
  /\ installed \in BOOLEAN /\ stops \in 0 .. MaxStops
  /\ status \in Status \cup {None} /\ target \in Status \cup {None}

PanelInit ==
  /\ Init /\ installed = (pc = "check")
  /\ status = None /\ stops = 0 /\ target = None

\* A process that is no more leaves its id behind.
Outlived(s) == IF s # None /\ stage'[s.pid] = "gone" THEN [s EXCEPT !.living = FALSE] ELSE s

Beside ==
  /\ status' = Outlived(status) /\ target' = Outlived(target)
  /\ UNCHANGED <<installed, stops>>

MutantWriteStatus(p) ==
  /\ stage[p] = "up"
  /\ status' = [pid |-> p, living |-> TRUE]
  /\ UNCHANGED <<vars, installed, stops, target>>

\* Every second, and at once when the worker has started.
WriteStatus(p) ==
  /\ stage[p] = "up"
  /\ status' = IF p \in temps THEN [pid |-> p, living |-> TRUE] ELSE None
  /\ UNCHANGED <<vars, installed, stops, target>>

-----------------------------------------------------------------------------
(* The buttons                                                             *)

\* One thread serves the window: while it stops a worker no other button is served.
Served == target = None

\* on_install: what the form holds is saved; the service is created, unless one exists or
\* is still being deleted, and started.
Install(c) ==
  /\ Served /\ Disturb
  /\ Save(c)
  /\ IF installed \/ pc # "stopped"
     THEN UNCHANGED <<installed, stopping, service>>
     ELSE /\ installed' = TRUE /\ stopping' = FALSE
          /\ pc' = "check" /\ watched' = NoSession /\ UNCHANGED worker
  /\ UNCHANGED <<console, stage, bound, session, config, last, watching, temps, status, stops, target>>

\* on_uninstall: stopped if it runs, and deleted then. Nothing but this followed by
\* Install starts a service again that was only stopped.
Uninstall ==
  /\ Served /\ Disturb /\ installed
  /\ installed' = FALSE
  /\ stopping' = (stopping \/ pc # "stopped")
  /\ UNCHANGED <<console, disk, service, process, status, stops, target>>

\* on_temp_run: what the form holds is saved, and a worker is started as the user.
TempRun(c, p) ==
  /\ Served /\ events + 2 <= MaxEvents /\ events' = events + 2
  /\ Save(c)
  /\ Started(p, console)
  /\ temps' = temps \cup {p}
  /\ UNCHANGED <<console, stopping, service, config, last, watching, bound, panel>>

\* on_temp_stop reads the file: nothing is done unless it is about a temporary worker.
ReadStatus ==
  /\ Served /\ stops < MaxStops /\ stops' = stops + 1
  /\ status # None /\ target' = status
  /\ UNCHANGED <<vars, installed, status>>

\* taskkill: the process with the id that was read, whichever that is by now.
TempStop ==
  /\ target # None /\ Kill(target.pid)
  /\ target' = None
  /\ UNCHANGED <<outside, stopping, service, memory, bound, installed, status, stops>>

-----------------------------------------------------------------------------

PanelNext ==
  \/ Next /\ Beside
  \/ \E p \in Procs : WriteStatus(p) \/ \E c \in Configs : TempRun(c, p)
  \/ \E c \in Configs : Install(c)
  \/ Uninstall \/ ReadStatus \/ TempStop

PanelSpec == PanelInit /\ [][PanelNext]_allVars

\* The loop goes round, and each process does what it has to, in whatever order; the system
\* completes terminations.
PanelFairSpec ==
  /\ PanelSpec
  /\ WF_allVars(Loop /\ Beside)
  /\ \A p \in Procs : WF_allVars(Progress(p) /\ Beside)

-----------------------------------------------------------------------------
(* Properties                                                              *)

\* The button that stops a temporary worker does not end the worker of the service, unless
\* the temporary one that the file spoke of is gone and its id was given to the other,
\* before this has written the file itself or between the reading of the file and taskkill.
KillsOnlyTemps ==
  [][TempStop => \A p \in Procs \ temps :
       stage'[p] # stage[p] => target.pid = p /\ ~target.living]_allVars
=============================================================================
