----------------------------- MODULE Supervisor -----------------------------
(***************************************************************************)
(* The system service (service/src/main.rs): it is installed and removed   *)
(* by an administrator, started and stopped by the service manager, and    *)
(* keeps one worker process in the session that owns the console.  Every   *)
(* two seconds, and when it is told to stop, it looks again.               *)
(*                                                                         *)
(* Starting a worker takes five calls of the system, each of which may     *)
(* fail; every handle they give has to be closed again.  A worker may die, *)
(* and the console may change hands, between any two calls.                *)
(***************************************************************************)
EXTENDS Naturals, FiniteSets

CONSTANTS
  WinSession, \* the sessions of Windows that may own the console
  Process     \* the processes there is room for

ASSUME SupervisorAssumption == IsFiniteSet(Process) /\ "none" \notin WinSession \cup Process

VARIABLES
  service,     \* "absent", "installed", and while it runs "preparing", "looking", "opening",
               \* "duplicating", "moving", "equipping", "creating", "waiting"
  stopSent,    \* the channel from the control handler holds a stop
  privileged,  \* the privileges of LocalSystem are enabled
  console,     \* WTSGetActiveConsoleSessionId
  refusing,    \* the system refuses what it is asked for
  worker,      \* run_service's worker: the process whose handle is kept
  aim,         \* the session the worker that is being started is for
  alive,       \* the worker processes that run
  homeOf,      \* the session each process is in
  held         \* the handles and blocks that starting a worker holds

svVars == <<service, stopSent, privileged, console, refusing, worker, aim, alive, homeOf, held>>

-----------------------------------------------------------------------------
Nobody == "none"

Starting == {"opening", "duplicating", "moving", "equipping", "creating"}
Up == Starting \cup {"preparing", "looking", "waiting"}

Goes(from, to) == service = from /\ service' = to

\* TerminateProcess and CloseHandle.
Kill == worker' = Nobody /\ alive' = alive \ {worker}

-----------------------------------------------------------------------------
\* install, and the service manager, which starts the service with the machine.
Install ==
  /\ Goes("absent", "installed")
  /\ UNCHANGED <<stopSent, privileged, console, refusing, worker, aim, alive, homeOf, held>>

ScmStarts ==
  /\ Goes("installed", "preparing") /\ stopSent' = FALSE
  /\ UNCHANGED <<privileged, console, refusing, worker, aim, alive, homeOf, held>>

\* enable_required_privileges: a privilege that is not granted is only logged.
Prepares ==
  /\ Goes("preparing", "looking")
  /\ privileged' = ~refusing
  /\ UNCHANGED <<stopSent, console, refusing, worker, aim, alive, homeOf, held>>

\* The control handler.  uninstall asks for a stop, and removes a service that has stopped.
ControlStop ==
  /\ service \in Up \ {"preparing"} /\ ~stopSent /\ stopSent' = TRUE
  /\ UNCHANGED <<service, privileged, console, refusing, worker, aim, alive, homeOf, held>>

Uninstall ==
  /\ Goes("installed", "absent")
  /\ UNCHANGED <<stopSent, privileged, console, refusing, worker, aim, alive, homeOf, held>>

-----------------------------------------------------------------------------
(***************************************************************************)
(* The loop of run_service.                                                *)
(***************************************************************************)
\* Faulty variant: a worker that runs is left where it is.
FitsAnywhere == worker \in alive

\* There is a worker, it lives, and it is in the console's session.
Fits == worker \in alive /\ homeOf[worker] = console

\* Faulty variant: the handle of the old worker is forgotten, the process goes on.
ForgetsOld == worker' = Nobody /\ UNCHANGED alive

ReplacesOld == IF worker = Nobody THEN UNCHANGED <<worker, alive>> ELSE Kill

LooksKeeps ==
  /\ console # Nobody /\ Fits /\ Goes("looking", "waiting")
  /\ UNCHANGED <<stopSent, privileged, console, refusing, worker, aim, alive, homeOf, held>>

LooksReplaces ==
  /\ console # Nobody /\ ~Fits /\ Goes("looking", "opening")
  /\ ReplacesOld
  /\ aim' = console
  /\ UNCHANGED <<stopSent, privileged, console, refusing, homeOf, held>>

LooksNoConsole ==
  /\ console = Nobody /\ Goes("looking", "waiting")
  /\ IF worker = Nobody THEN UNCHANGED <<worker, alive>> ELSE Kill
  /\ UNCHANGED <<stopSent, privileged, console, refusing, aim, homeOf, held>>

Ticks ==
  /\ ~stopSent /\ Goes("waiting", "looking")
  /\ UNCHANGED <<stopSent, privileged, console, refusing, worker, aim, alive, homeOf, held>>

\* recv_timeout returns the stop: the worker is killed and the service has stopped.
ServiceStops ==
  /\ stopSent /\ Goes("waiting", "installed")
  /\ IF worker = Nobody THEN UNCHANGED <<worker, alive>> ELSE Kill
  /\ UNCHANGED <<stopSent, privileged, console, refusing, aim, homeOf, held>>

-----------------------------------------------------------------------------
(***************************************************************************)
(* spawn_worker.                                                           *)
(***************************************************************************)
SpawnOnly == UNCHANGED <<stopSent, privileged, console, refusing, worker, aim, alive, homeOf>>

OpensSelf ==
  /\ service = "opening"
  /\ \/ ~refusing /\ service' = "duplicating" /\ held' = held \cup {"self"}
     \/ refusing /\ service' = "waiting" /\ UNCHANGED held
  /\ SpawnOnly

\* The own token is closed whether or not it could be duplicated.
Duplicates ==
  /\ service = "duplicating"
  /\ \/ ~refusing /\ service' = "moving" /\ held' = (held \ {"self"}) \cup {"primary"}
     \/ refusing /\ service' = "waiting" /\ held' = held \ {"self"}
  /\ SpawnOnly

\* Faulty variant: an error leaves without closing the new token.
KeepsToken == UNCHANGED held

ClosesToken == held' = held \ {"primary"}

\* Moving the token to another session takes a privilege.
MovesToken ==
  /\ service = "moving"
  /\ \/ ~refusing /\ privileged /\ service' = "equipping" /\ UNCHANGED held
     \/ (refusing \/ ~privileged) /\ service' = "waiting" /\ ClosesToken
  /\ SpawnOnly

\* Without an environment block the worker is started all the same.
Equips ==
  /\ Goes("equipping", "creating")
  /\ held' = IF refusing THEN held ELSE held \cup {"environment"}
  /\ SpawnOnly

\* The process, or an error; the block and the token are released either way.
Creates(p) ==
  /\ Goes("creating", "waiting") /\ held' = {}
  /\ \/ /\ ~refusing /\ p \notin alive
        /\ worker' = p /\ alive' = alive \cup {p} /\ homeOf' = [homeOf EXCEPT ![p] = aim]
     \/ refusing /\ UNCHANGED <<worker, alive, homeOf>>
  /\ UNCHANGED <<stopSent, privileged, console, refusing, aim>>

-----------------------------------------------------------------------------
\* A worker dies by itself.
WorkerDies(p) ==
  /\ p \in alive /\ alive' = alive \ {p}
  /\ UNCHANGED <<service, stopSent, privileged, console, refusing, worker, aim, homeOf, held>>

\* Somebody logs in, out, or switches users; for a while nobody has the console.
ConsoleChanges(s) ==
  /\ s # console /\ console' = s
  /\ UNCHANGED <<service, stopSent, privileged, refusing, worker, aim, alive, homeOf, held>>

SystemChanges ==
  /\ refusing' = ~refusing
  /\ UNCHANGED <<service, stopSent, privileged, console, worker, aim, alive, homeOf, held>>

-----------------------------------------------------------------------------
SvInit ==
  /\ service = "absent" /\ stopSent = FALSE /\ privileged = FALSE
  /\ console = Nobody /\ refusing = FALSE
  /\ worker = Nobody /\ aim = Nobody /\ alive = {} /\ homeOf = [p \in Process |-> Nobody]
  /\ held = {}

Spawns == OpensSelf \/ Duplicates \/ MovesToken \/ Equips \/ \E p \in Process : Creates(p)

Runs ==
  \/ Prepares \/ LooksKeeps \/ LooksReplaces \/ LooksNoConsole \/ Ticks \/ ServiceStops \/ Spawns

SvNext ==
  \/ Install \/ ScmStarts \/ ControlStop \/ Uninstall \/ Runs \/ SystemChanges
  \/ \E p \in Process : WorkerDies(p)
  \/ \E s \in WinSession \cup {Nobody} : ConsoleChanges(s)

\* The service's thread runs: no call of it waits for anybody, and its wait has a timeout.
SvFair == WF_svVars(Runs)

SvSpec == SvInit /\ [][SvNext]_svVars /\ SvFair

-----------------------------------------------------------------------------
\* The variables of the service and of its surroundings have their types.
SvTypeOK ==
  /\ service \in Up \cup {"absent", "installed"}
  /\ console \in WinSession \cup {Nobody} /\ aim \in WinSession \cup {Nobody}
  /\ worker \in Process \cup {Nobody} /\ alive \subseteq Process
  /\ homeOf \in [Process -> WinSession \cup {Nobody}]
  /\ held \subseteq {"self", "primary", "environment"}
  /\ {stopSent, privileged, refusing} \subseteq BOOLEAN

(***************************************************************************)
(* At most one worker runs (run_service: keep exactly one), it is the one  *)
(* whose handle is kept, and none outlives the service: a worker left      *)
(* behind would register as the same host and take the presence over.      *)
(* Nothing that starting a worker opens is left open either, whichever     *)
(* call fails.                                                             *)
(***************************************************************************)
OneWorker ==
  /\ alive \subseteq {worker}
  /\ service \notin Up => alive = {}

HandlesClosed == service \notin Starting => held = {}

NothingLeftBehind == OneWorker /\ HandlesClosed

(***************************************************************************)
(* A session that keeps the console has a worker again and again, whatever *)
(* dies and whoever had the console before, as long as the system grants   *)
(* what the service asks for and nobody stops it.                          *)
(***************************************************************************)
Granted == service \in Up /\ privileged /\ ~refusing /\ ~stopSent

ConsoleIsServed ==
  \A s \in WinSession :
    <>[](console = s /\ Granted) => []<>(worker \in alive /\ homeOf[worker] = s)
=============================================================================
