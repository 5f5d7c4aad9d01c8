------------------------------ MODULE Lifecycle ------------------------------
(***************************************************************************)
(* Starting and ending: the core (run, tray::install), the collector's      *)
(* process, the core's watchdog that starts it again, and the file          *)
(* collector-stop.request with which a core that quits stops it.            *)
(*                                                                          *)
(* The task scheduler starts the collector at a logon, after a failure, and *)
(* when the watchdog asks; a task that runs is not started a second time.   *)
(* Times are left out: a wait may end at any moment after its condition,    *)
(* and the watchdog's grace and backoff only make its sleeps longer.        *)
(***************************************************************************)
EXTENDS Naturals, Sequences

CONSTANT MaxDeaths   \* bounds the crashes of a process and the errors of a step

VARIABLES
  session,      \* the user's: "on", "ending" or "off"
  app,          \* the core: "off", "starting", or "on" with window and tray
  inbox,        \* the tray's events that the window has not handled
  leaving,      \* quitting: the core is about to quit
  leaver,       \* the thread of a quit
  suspended,    \* SUSPENDED: the watchdog is not to start anything
  watchdog,     \* where the watchdog's thread is
  stopRequest,  \* whether collector-stop.request exists
  process,      \* the collector's process; from "up" on it holds its mutex
  failed,       \* the collector's task failed: the scheduler may restart it
  heavy,        \* another heavy task holds the gate
  deaths        \* crashes and errors so far

lifeVars == <<session, app, inbox, leaving, leaver, suspended, watchdog, stopRequest, process,
              failed, heavy, deaths>>
collectorVars == <<stopRequest, process, failed>>
quitVars == <<inbox, leaving, leaver, suspended>>

Tasks == {"none", "new", "up", "stopping", "draining"}

LifeTypeOK ==
  /\ session \in {"on", "ending", "off"} /\ app \in {"off", "starting", "on"}
  /\ leaving \in BOOLEAN /\ suspended \in BOOLEAN /\ stopRequest \in BOOLEAN
  /\ failed \in BOOLEAN /\ heavy \in BOOLEAN /\ deaths \in 0..MaxDeaths
  /\ inbox \in Seq({"Quit", "QuitReady", "QuitFailed"})
  /\ leaver \in {"none", "gate", "asked", "holding", "released", "closing"}
  /\ watchdog \in {"none", "asleep", "woken", "found"} /\ process \in Tasks
  /\ app = "off" => watchdog = "none" /\ leaver = "none"

LifeInit ==
  /\ session = "off" /\ app = "off" /\ inbox = <<>> /\ leaving = FALSE /\ leaver = "none"
  /\ suspended = FALSE /\ watchdog = "none" /\ stopRequest = FALSE /\ process = "none"
  /\ failed = FALSE /\ heavy = FALSE /\ deaths = 0

\* What of the core is gone with its process.
CoreGone ==
  /\ app' = "off" /\ inbox' = <<>> /\ leaving' = FALSE /\ leaver' = "none"
  /\ suspended' = FALSE /\ watchdog' = "none" /\ heavy' = FALSE

CollectorHoldsMutex == process \in {"up", "stopping", "draining"}
MutexFree == ~CollectorHoldsMutex /\ leaver # "holding"

May == deaths < MaxDeaths
Fails == May /\ deaths' = deaths + 1

-----------------------------------------------------------------------------
(* The session. *)

\* Both tasks have the logon for their trigger.
LogOn ==
  /\ session = "off"
  /\ session' = "on" /\ app' = "starting" /\ process' = "new"
  /\ UNCHANGED <<quitVars, watchdog, stopRequest, failed, heavy, deaths>>

\* WM_ENDSESSION emits Quit.
EndSession ==
  /\ session = "on" /\ app = "on" /\ "Quit" \notin {inbox[i] : i \in DOMAIN inbox}
  /\ session' = "ending" /\ inbox' = Append(inbox, "Quit")
  /\ UNCHANGED <<app, leaving, leaver, suspended, watchdog, collectorVars, heavy, deaths>>

\* It waits four seconds for SHUTDOWN_READY; then, or before, everything is ended.
LogOff ==
  /\ session = "ending" \/ (session = "on" /\ app # "on")
  /\ session' = "off" /\ process' = "none" /\ failed' = FALSE
  /\ CoreGone
  /\ UNCHANGED <<stopRequest, deaths>>

-----------------------------------------------------------------------------
(* The core. *)

\* By the user, or by its task. A second core finds the mutex taken and only
\* brings the first one's window up, as activate_existing does.
AppStarts ==
  /\ session = "on" /\ app = "off"
  /\ app' = "starting"
  /\ UNCHANGED <<session, quitVars, watchdog, collectorVars, heavy, deaths>>

\* run: the watchdog sleeps its grace before it looks.
AppIsUp ==
  /\ app = "starting"
  /\ app' = "on" /\ watchdog' = "asleep"
  /\ UNCHANGED <<session, quitVars, collectorVars, heavy, deaths>>

\* A crash, or an error on the way up.
AppDies ==
  /\ app # "off" /\ Fails
  /\ CoreGone
  /\ UNCHANGED <<session, collectorVars>>

\* Maintenance, a capture, an export: whatever else takes run_heavy_task's gate.
HeavyBegins ==
  /\ app = "on" /\ ~heavy /\ leaver \in {"none", "gate"}
  /\ heavy' = TRUE
  /\ UNCHANGED <<session, app, quitVars, watchdog, collectorVars, deaths>>

HeavyEnds ==
  /\ heavy /\ heavy' = FALSE
  /\ UNCHANGED <<session, app, quitVars, watchdog, collectorVars, deaths>>

\* The tray's menu, or another process with --shutdown (activate_existing).
AskQuit ==
  /\ session = "on" /\ app = "on" /\ "Quit" \notin {inbox[i] : i \in DOMAIN inbox}
  /\ inbox' = Append(inbox, "Quit")
  /\ UNCHANGED <<session, app, leaving, leaver, suspended, watchdog, collectorVars, heavy, deaths>>

\* tray_events_ready, Quit: once at a time.
BeginQuit ==
  /\ inbox # <<>> /\ Head(inbox) = "Quit"
  /\ inbox' = Tail(inbox)
  /\ IF leaving THEN UNCHANGED <<leaving, suspended, leaver>>
     ELSE leaving' = TRUE /\ suspended' = TRUE /\ leaver' = "gate"
  /\ UNCHANGED <<session, app, watchdog, collectorVars, heavy, deaths>>

\* QuitReady: the event loop ends, and the process with it.
FinishQuit ==
  /\ inbox # <<>> /\ Head(inbox) = "QuitReady"
  /\ CoreGone
  /\ UNCHANGED <<session, collectorVars, deaths>>

\* As QuitRefused, by a bug: the watchdog stays suspended.
QuitRefusedOnly ==
  /\ inbox # <<>> /\ Head(inbox) = "QuitFailed"
  /\ inbox' = Tail(inbox) /\ leaving' = FALSE
  /\ UNCHANGED <<session, app, leaver, suspended, watchdog, collectorVars, heavy, deaths>>

\* QuitFailed: the core goes on. The stop request stays.
QuitRefused ==
  /\ inbox # <<>> /\ Head(inbox) = "QuitFailed"
  /\ inbox' = Tail(inbox) /\ leaving' = FALSE /\ suspended' = FALSE
  /\ UNCHANGED <<session, app, leaver, watchdog, collectorVars, heavy, deaths>>

-----------------------------------------------------------------------------
(* The thread of a quit. *)

Leaves(event) == leaver' = "none" /\ inbox' = Append(inbox, event)
quitterRest == <<session, app, leaving, suspended, watchdog, process, failed>>

WriteStop ==
  /\ leaver = "gate" /\ ~heavy
  /\ stopRequest' = TRUE /\ leaver' = "asked"
  /\ UNCHANGED <<quitterRest, inbox, heavy, deaths>>

\* acquire_collector succeeds: no collector is left, and none can start.
FindStopped ==
  /\ leaver = "asked" /\ MutexFree
  /\ leaver' = "holding"
  /\ UNCHANGED <<quitterRest, inbox, stopRequest, heavy, deaths>>

\* As StopTimedOut, by a bug: waits for as long as there is a collector.
StopTimedOutWhenFree ==
  /\ leaver = "asked" /\ MutexFree
  /\ Leaves("QuitFailed")
  /\ UNCHANGED <<quitterRest, stopRequest, heavy, deaths>>

\* Fifteen seconds have gone by.
StopTimedOut ==
  /\ leaver = "asked" /\ ~MutexFree
  /\ Leaves("QuitFailed")
  /\ UNCHANGED <<quitterRest, stopRequest, heavy, deaths>>

ReleaseMutex ==
  /\ leaver = "holding" /\ leaver' = "released"
  /\ UNCHANGED <<quitterRest, inbox, stopRequest, heavy, deaths>>

RemoveStop ==
  /\ leaver = "released" /\ leaver' = "closing" /\ stopRequest' = FALSE
  /\ UNCHANGED <<quitterRest, inbox, heavy, deaths>>

Checkpointed ==
  /\ leaver = "closing"
  /\ Leaves("QuitReady")
  /\ UNCHANGED <<quitterRest, stopRequest, heavy, deaths>>

\* The request cannot be written, or the checkpoint fails.
QuitStepFails ==
  /\ leaver \in {"gate", "closing"} /\ ~heavy /\ Fails
  /\ Leaves("QuitFailed")
  /\ UNCHANGED <<quitterRest, stopRequest, heavy>>

Leaver == WriteStop \/ FindStopped \/ StopTimedOut \/ ReleaseMutex \/ RemoveStop \/ Checkpointed

-----------------------------------------------------------------------------
(* The watchdog: SUSPENDED, the mutex and the task are looked at in turn. *)

watchdogRest == <<session, app, quitVars, stopRequest, failed, heavy>>

WatchdogWakes ==
  /\ watchdog = "asleep" /\ ~suspended
  /\ watchdog' = "woken"
  /\ UNCHANGED <<watchdogRest, process, deaths>>

\* collector_running.
WatchdogLooks ==
  /\ watchdog = "woken"
  /\ watchdog' = IF MutexFree THEN "found" ELSE "asleep"
  /\ UNCHANGED <<watchdogRest, process, deaths>>

\* start_task: nothing to do if the task runs.
WatchdogStarts ==
  /\ watchdog = "found" /\ watchdog' = "asleep"
  /\ process' = IF process = "none" THEN "new" ELSE process
  /\ UNCHANGED <<watchdogRest, deaths>>

\* The mutex cannot be opened, or the scheduler refuses.
WatchdogFails ==
  /\ watchdog \in {"woken", "found"} /\ Fails
  /\ watchdog' = "asleep"
  /\ UNCHANGED <<watchdogRest, process>>

-----------------------------------------------------------------------------
(* The collector, and the scheduler that restarts it after a failure. *)

collectorRest == <<session, app, quitVars, watchdog, heavy>>

SchedulerRestarts ==
  /\ session = "on" /\ failed /\ process = "none"
  /\ process' = "new" /\ failed' = FALSE
  /\ UNCHANGED <<collectorRest, stopRequest, deaths>>

\* run: the mutex is taken, or the process ends with an error.
TakeMutex ==
  /\ process = "new"
  /\ IF MutexFree THEN process' = "up" /\ failed' = FALSE ELSE process' = "none" /\ failed' = TRUE
  /\ UNCHANGED <<collectorRest, stopRequest, deaths>>

SeeStop ==
  /\ process = "up" /\ stopRequest
  /\ process' = "stopping"
  /\ UNCHANGED <<collectorRest, stopRequest, failed, deaths>>

\* A request that went between the look and the removal is an error.
AnswerStop ==
  /\ process = "stopping" /\ stopRequest' = FALSE
  /\ IF stopRequest THEN process' = "draining" /\ UNCHANGED failed
     ELSE process' = "none" /\ failed' = TRUE
  /\ UNCHANGED <<collectorRest, deaths>>

\* The spool is empty, or ten seconds have gone by.
StopAnswered ==
  /\ process = "draining" /\ process' = "none"
  /\ UNCHANGED <<collectorRest, stopRequest, failed, deaths>>

CollectorDies ==
  /\ process # "none" /\ Fails
  /\ process' = "none" /\ failed' = TRUE
  /\ UNCHANGED <<collectorRest, stopRequest>>

-----------------------------------------------------------------------------
Handle == BeginQuit \/ FinishQuit \/ QuitRefused

LifeNext ==
  \/ LogOn \/ EndSession \/ LogOff
  \/ AppStarts \/ AppIsUp \/ AppDies \/ HeavyBegins \/ HeavyEnds
  \/ AskQuit \/ Handle \/ Leaver \/ QuitStepFails
  \/ WatchdogWakes \/ WatchdogLooks \/ WatchdogStarts \/ WatchdogFails
  \/ SchedulerRestarts \/ TakeMutex \/ SeeStop \/ AnswerStop \/ StopAnswered \/ CollectorDies

\* Every thread of the core goes on while the core lives; a heavy task ends; a
\* process that was started gets to its mutex. A collector need not stop.
LifeFairness ==
  /\ WF_lifeVars(Handle) /\ WF_lifeVars(Leaver) /\ WF_lifeVars(HeavyEnds) /\ WF_lifeVars(AppIsUp)
  /\ SF_lifeVars(WriteStop)
  /\ WF_lifeVars(WatchdogWakes) /\ WF_lifeVars(WatchdogLooks) /\ WF_lifeVars(WatchdogStarts)
  /\ WF_lifeVars(TakeMutex)

-----------------------------------------------------------------------------
(* Properties. *)

\* A core that stays up and does not quit has a collector again and again, whatever
\* crashed, failed to start or was stopped by a request that a failed quit left behind.
CollectorComesBack ==
  <>[](app = "on" /\ ~leaving) => []<>CollectorHoldsMutex

\* A quit ends: with the core gone, or with the core going on. Neither another heavy
\* task nor a collector that does not stop keeps it from that.
QuitSettles == leaving ~> ~leaving

\* Stated here and not kept by the code: a quit leaves no collector behind, and none
\* that the scheduler would restart. The message of the tray's Quit says that nothing is
\* recorded until the next start. A collector that has crashed shortly before the quit
\* is restarted by its task after it, and one that the watchdog had decided to start, or
\* that has not taken its mutex yet, gets by unseen.
QuitIsQuiet == [][FinishQuit => process = "none" /\ ~failed]_lifeVars
=============================================================================
