------------------------------ MODULE Watchdog ------------------------------
(***************************************************************************)
(* The service and its worker process: the watchdog loop of                *)
(* rcontrol_server/src/service.rs, spawning and killing in                 *)
(* rcontrol_server/src/session.rs, and the start, the configuration watch  *)
(* and the bind loop of rcontrol_server/src/worker.rs with load and save   *)
(* of rcontrol_common/src/config.rs.                                       *)
(*                                                                         *)
(* The service keeps one worker in the session at the console.  A worker   *)
(* ends when it is killed, crashes, or sees the port or the password in    *)
(* the configuration file change; the watchdog then starts another.  A     *)
(* worker that the control panel started (Panel.tla) runs the same         *)
(* program, but nobody watches it.                                         *)
(***************************************************************************)
EXTENDS Naturals, FiniteSets

CONSTANTS
  Sessions,   (* sessions with a user or a logon screen               *)
  NoSession,  (* 0xFFFFFFFF: no session is attached to the console    *)
  Procs,      (* process handles; one may be reused when it is closed *)
  Configs,    (* (port, password) pairs a person saves                *)
  Generated,  (* the pair load_server_config makes up                 *)
  None,       (* no process; nothing read                             *)
  MaxEvents   (* bound: disturbances from outside                     *)

ASSUME WatchdogAssumption ==
  /\ NoSession \notin Sessions
  /\ Generated \notin Configs
  /\ None \notin Procs \cup Configs \cup {Generated}
  /\ MaxEvents \in Nat

VARIABLES
  console,   (* the session at the console                            *)
  disk,      (* port and password in config.toml                      *)
  events,    (* disturbances so far                                   *)
  stopping,  (* a stop request waits in the service's channel         *)
  pc,        (* the watchdog: check, spawn or stopped                 *)
  watched,   (* watched_session                                       *)
  worker,    (* the handle it holds, or None                          *)
  stage,     (* of each process: gone, starting, up or ending; a      *)
             (* terminated process is ending until the system is done *)
  session,   (* the session it was started in                         *)
  config,    (* what it has loaded                                    *)
  last,      (* what its configuration watch has seen last, or None   *)
  watching,  (* its configuration watch has taken its first look      *)
  temps,     (* the workers that the control panel started            *)
  bound,     (* it listens on the port                                *)
  missed     (* history: workers whose watch missed a change of the   *)
             (* file, as it had seen no pair to compare with          *)

outside == <<console, disk, events>>
service == <<pc, watched, worker>>
memory == <<session, config, last, watching, temps, missed>>
process == <<stage, bound, memory>>
vars == <<outside, stopping, service, process>>

Saved == Configs \cup {Generated}

TypeOK ==
  /\ console \in Sessions \cup {NoSession} /\ watched \in Sessions \cup {NoSession}
  /\ disk \in Saved
  /\ events \in 0 .. MaxEvents
  /\ stopping \in BOOLEAN
  /\ pc \in {"check", "spawn", "stopped"}
  /\ worker \in Procs \cup {None}
  /\ stage \in [Procs -> {"gone", "starting", "up", "ending"}]
  /\ session \in [Procs -> Sessions \cup {NoSession}]
  /\ config \in [Procs -> Saved \cup {None}]
  /\ last \in [Procs -> Saved \cup {None}]
  /\ watching \in [Procs -> BOOLEAN] /\ bound \in [Procs -> BOOLEAN]
  /\ temps \subseteq Procs /\ missed \subseteq Procs

\* The service is running or not.
Init ==
  /\ console \in Sessions \cup {NoSession} /\ watched = NoSession
  /\ disk \in Configs
  /\ events = 0 /\ stopping = FALSE
  /\ pc \in {"check", "stopped"} /\ worker = None
  /\ stage = [p \in Procs |-> "gone"]
  /\ session = [p \in Procs |-> NoSession]
  /\ config = [p \in Procs |-> None] /\ last = [p \in Procs |-> None]
  /\ watching = [p \in Procs |-> FALSE] /\ bound = [p \in Procs |-> FALSE]
  /\ temps = {} /\ missed = {}

-----------------------------------------------------------------------------
(* From outside                                                            *)

Disturb == events < MaxEvents /\ events' = events + 1

\* Log on, log off, switch user; the console may be without a session for a while.
SwitchSession(s) ==
  /\ Disturb /\ s # console
  /\ console' = s
  /\ UNCHANGED <<disk, stopping, service, process>>

\* The file is written and renamed into place.  Watches that have seen no pair yet
\* will not notice.
Save(c) ==
  /\ disk' = c
  /\ missed' = missed \cup {p \in Procs : c # disk /\ stage[p] = "up" /\ last[p] = None}

\* The control panel saves what the form holds.
SaveConfig(c) ==
  /\ Disturb
  /\ Save(c)
  /\ UNCHANGED <<console, stopping, service, stage, bound, session, config, last, watching, temps>>

\* The process is no more and its port is free again.
Vanish(p) ==
  /\ stage' = [stage EXCEPT ![p] = "gone"]
  /\ bound' = [bound EXCEPT ![p] = FALSE]
  /\ session' = [session EXCEPT ![p] = NoSession]
  /\ config' = [config EXCEPT ![p] = None] /\ last' = [last EXCEPT ![p] = None]
  /\ watching' = [watching EXCEPT ![p] = FALSE]
  /\ temps' = temps \ {p} /\ missed' = missed \ {p}

\* A crash, or the end of the session it ran in.
WorkerDies(p) ==
  /\ Disturb
  /\ stage[p] \in {"starting", "up"}
  /\ Vanish(p)
  /\ UNCHANGED <<console, disk, stopping, service>>

RequestStop ==
  /\ Disturb /\ pc # "stopped"
  /\ stopping' = TRUE
  /\ UNCHANGED <<console, disk, service, process>>

-----------------------------------------------------------------------------
(* The watchdog                                                            *)

SessionChanged == console # watched /\ console # NoSession

Kill(p) == stage' = [stage EXCEPT ![p] = IF @ = "gone" THEN @ ELSE "ending"]

MutantForgetWorker ==
  /\ pc = "check" /\ ~stopping
  /\ pc' = "spawn"
  /\ IF SessionChanged
     THEN watched' = console /\ worker' = None
     ELSE UNCHANGED <<watched, worker>>
  /\ UNCHANGED <<outside, stopping, process>>

\* When the console has another session the old worker is terminated, which the
\* system completes later.
CheckSession ==
  /\ pc = "check" /\ ~stopping
  /\ pc' = "spawn"
  /\ IF SessionChanged
     THEN /\ watched' = console
          /\ worker' = None
          /\ IF worker # None THEN Kill(worker) ELSE UNCHANGED stage
     ELSE UNCHANGED <<watched, worker, stage>>
  /\ UNCHANGED <<outside, stopping, memory, bound>>

MutantNeedSpawn == worker = None

\* No worker was started, or the process of the handle is no more.
NeedSpawn == worker # None => stage[worker] = "gone"

Started(p, s) ==
  /\ stage[p] = "gone" /\ stage' = [stage EXCEPT ![p] = "starting"]
  /\ session' = [session EXCEPT ![p] = s]

\* A worker is started with the token of winlogon in the watched session; the handle
\* of the process it replaces is overwritten.
SpawnWorker(p) ==
  /\ pc = "spawn" /\ NeedSpawn /\ watched # NoSession
  /\ worker' = p
  /\ Started(p, watched)
  /\ pc' = "check"
  /\ UNCHANGED <<outside, stopping, watched, config, last, watching, bound, temps, missed>>

\* No process to take the token from, or CreateProcess fails.
SpawnFails ==
  /\ pc = "spawn" /\ NeedSpawn
  /\ IF watched = NoSession THEN UNCHANGED events ELSE Disturb
  /\ pc' = "check"
  /\ UNCHANGED <<console, disk, stopping, watched, worker, process>>

WorkerAlive ==
  /\ pc = "spawn" /\ ~NeedSpawn
  /\ pc' = "check"
  /\ UNCHANGED <<outside, stopping, watched, worker, process>>

MutantStopLeavesWorker ==
  /\ pc = "check" /\ stopping
  /\ pc' = "stopped" /\ worker' = None
  /\ UNCHANGED <<outside, stopping, watched, process>>

StopService ==
  /\ pc = "check" /\ stopping
  /\ pc' = "stopped" /\ worker' = None
  /\ IF worker # None THEN Kill(worker) ELSE UNCHANGED stage
  /\ UNCHANGED <<outside, stopping, watched, memory, bound>>

-----------------------------------------------------------------------------
(* The worker process                                                      *)

\* load_server_config: a file that cannot be read is replaced by defaults with a
\* new password, and the worker runs with these also if they could not be saved.
LoadConfig(p) ==
  /\ stage[p] = "starting"
  /\ \/ config' = [config EXCEPT ![p] = disk] /\ UNCHANGED <<disk, events, missed>>
     \/ /\ Disturb
        /\ config' = [config EXCEPT ![p] = Generated]
        /\ Save(Generated) \/ (missed' = missed \cup {p} /\ UNCHANGED disk)
  /\ stage' = [stage EXCEPT ![p] = "up"]
  /\ UNCHANGED <<console, stopping, service, session, last, watching, bound, temps>>

\* The first look of the configuration watch, some time after the load; a file that
\* cannot be read at that moment counts as None.
StartWatch(p) ==
  /\ stage[p] = "up" /\ ~watching[p]
  /\ watching' = [watching EXCEPT ![p] = TRUE]
  /\ \/ last' = [last EXCEPT ![p] = disk] /\ UNCHANGED events
     \/ Disturb /\ last' = [last EXCEPT ![p] = None]
  /\ UNCHANGED <<console, disk, stopping, service, stage, session, config, bound, temps, missed>>

MutantWatchNeverExits(p) ==
  /\ stage[p] = "up" /\ watching[p]
  /\ last' = [last EXCEPT ![p] = disk]
  /\ UNCHANGED <<outside, stopping, service, stage, bound, session, config, watching, temps, missed>>

\* Every 2 s: the worker exits if what it reads differs from a pair it knew.
WatchTick(p) ==
  /\ stage[p] = "up" /\ watching[p]
  /\ \E cur \in {disk, None} :
       /\ IF cur = None THEN Disturb ELSE UNCHANGED events
       /\ cur # last[p]
       /\ IF last[p] # None
          THEN Vanish(p)
          ELSE /\ last' = [last EXCEPT ![p] = cur]
               /\ UNCHANGED <<stage, bound, session, config, watching, temps, missed>>
  /\ UNCHANGED <<console, disk, stopping, service>>

\* The bind loop tries every 3 s.
Bind(p) ==
  /\ stage[p] = "up" /\ ~bound[p]
  /\ \A q \in Procs : ~bound[q]
  /\ bound' = [bound EXCEPT ![p] = TRUE]
  /\ UNCHANGED <<outside, stopping, service, stage, memory>>

\* The system completes a termination.
Terminated(p) ==
  /\ stage[p] = "ending"
  /\ Vanish(p)
  /\ UNCHANGED <<outside, stopping, service>>

-----------------------------------------------------------------------------

Loop ==
  \/ CheckSession \/ WorkerAlive \/ StopService
  \/ \E p \in Procs : SpawnWorker(p)
  \/ watched = NoSession /\ SpawnFails

Outside ==
  \/ \E s \in Sessions \cup {NoSession} : SwitchSession(s)
  \/ \E c \in Configs : SaveConfig(c)
  \/ \E p \in Procs : WorkerDies(p)
  \/ RequestStop
  \/ SpawnFails

Progress(p) == LoadConfig(p) \/ StartWatch(p) \/ WatchTick(p) \/ Bind(p) \/ Terminated(p)

Next == Loop \/ Outside \/ \E p \in Procs : Progress(p)

-----------------------------------------------------------------------------
(* Properties                                                              *)

\* A process that runs is the one whose handle the watchdog holds: whatever order
\* sessions change and workers die in, none is left behind in an old session.
NoOrphan == \A p \in Procs \ temps : stage[p] \in {"starting", "up"} => p = worker

Off == stopping \/ pc = "stopped"

\* Once the disturbances are over, a worker in the console's session listens: the port
\* is not kept by its predecessor, and the watchdog never believes in a dead one. Only a
\* worker of the control panel can keep the port from it.
Recovers ==
  <>[](\/ Off \/ console = NoSession
       \/ worker # None /\ bound[worker] /\ session[worker] = console
       \/ \E t \in temps : bound[t])

\* Stopping the service leaves none of its workers behind, also right after a start or
\* while another is still being terminated, unless it is installed again meanwhile.
StopEndsWorkers == stopping ~> (~stopping \/ \A p \in Procs \ temps : stage[p] = "gone")

\* A saved port or password takes effect: the worker that runs in the end has the saved
\* configuration, and so has a worker of the control panel that still runs.  The control
\* panel says more (gui.rs:418) than is so: excepted is a worker that had loaded its
\* configuration, but whose watch had not yet seen it in the file, when the file changed,
\* and one that runs with a pair it made up and could not save.  A worker of the control
\* panel ends then, and is not started again, as worker.rs:134 has it.
SavedConfigTakesEffect ==
  <>[](/\ \A t \in temps : config[t] = disk \/ t \in missed
       /\ \/ Off \/ console = NoSession
          \/ worker # None /\ (config[worker] = disk \/ worker \in missed))
=============================================================================
