----------------------------- MODULE AgentService -----------------------------
(***************************************************************************)
(* The agent process: the thread that starts the components in order,      *)
(* waits for the stop event and stops them in reverse (agent_service.cpp), *)
(* the watchdog thread that restarts what IsHealthy reports, and, of each  *)
(* component, what its Start, Stop and IsHealthy do with its thread:       *)
(*   Monitors  ClipboardMonitor and BrowserUploadMonitor, whose thread     *)
(*             first sets up a window or trace session (the handle) and    *)
(*             then blocks until that handle is told to quit;              *)
(*   Ports     DriverComm, whose listener blocks on the port;              *)
(*   Clients   GrpcClient, whose heartbeat thread reports its health, and  *)
(*             locks the mutex it holds when it pulls policies;            *)
(*   Scanners  DiscoverScanner, which starts a thread only if it has       *)
(*             directories to scan, its own or those of a remote scan;     *)
(*   the rest  databases and the like, without a thread.                   *)
(*                                                                         *)
(* Abstracted: what the components do when they run (modules WriteVerdict, *)
(* PolicySync, IncidentQueue), logging, the five seconds between two       *)
(* checks.  External: the operating system's threads and events.           *)
(***************************************************************************)
EXTENDS Naturals, Sequences, SequencesExt

CONSTANTS
  Order,       \* the components in the order of RegisterComponent
  Monitors, Ports, Clients, Scanners,
  RelockOutcomes,  \* what locking a std::mutex one holds can do in this build
  Launches,    \* how the program is launched: console, service
  MaxFaults    \* bound: failures of components

Comps == ToSet(Order)
N == Len(Order)

ASSUME ServiceAssumption ==
  /\ Order \in Seq(Comps) /\ IsInjective(Order)
  /\ Monitors \cup Ports \cup Clients \cup Scanners \subseteq Comps
  /\ Monitors \cap Ports = {} /\ Monitors \cap Clients = {} /\ Ports \cap Clients = {}
  /\ Scanners \cap (Monitors \cup Ports \cup Clients) = {}
  /\ RelockOutcomes \subseteq {"reenter", "hang"} /\ RelockOutcomes # {}
  /\ Launches \subseteq {"console", "service"} /\ Launches # {}
  /\ MaxFaults \in Nat

VARIABLES
  launch,     \* how this process was launched
  process,    \* alive, exited, terminated (std::terminate)
  state,      \* AgentState
  main,       \* the main thread's position
  dog,        \* the watchdog thread's position
  at,         \* per thread of the two: the index of its component
  lock,       \* components_mutex_
  watching,   \* watchdog_running_
  stopEvent,
  cached,     \* the policy cache file exists
  targets,    \* the scanners' config_: disabled, configured directories, none, or
              \* none but those of a remote scan
  running,    \* per component: running_, or its database is open
  thread,     \* per component: none, setup, loop, stuck in stub_mutex_, ended (and
              \* not joined)
  handle,     \* per component: window, trace session, port, connection
  quit,       \* per component: its handle was told to quit
  faults

service == <<launch, process, state, stopEvent, cached, targets>>
control == <<main, dog, at, lock, watching>>
comps == <<running, thread, handle, quit>>
vars == <<service, control, comps, faults>>

States == {"Stopped", "Starting", "LogOnly", "Enforcing", "Stopping"}
ThreadStates == {"none", "setup", "loop", "stuck", "ended"}
MainHolds == {"start", "stop", "stopJoin"}     \* main positions that hold the mutex
DogHolds == {"check", "dogJoin", "restart"}

TypeOK ==
  /\ launch \in Launches /\ process \in {"alive", "exited", "terminated"}
  /\ state \in States
  /\ main \in MainHolds \cup {"init", "wait", "unwatch", "joinDog", "lock", "done"}
  /\ dog \in DogHolds \cup {"off", "sleep", "lock"}
  /\ at \in [{"main", "dog"} -> 0 .. N + 1]
  /\ lock \in {"free", "main", "dog"}
  /\ lock = "main" <=> main \in MainHolds
  /\ lock = "dog" <=> dog \in DogHolds
  /\ watching \in BOOLEAN /\ stopEvent \in BOOLEAN
  /\ cached \in BOOLEAN /\ targets \in {"disabled", "configured", "none", "remote"}
  /\ running \in [Comps -> BOOLEAN] /\ handle \in [Comps -> BOOLEAN]
  /\ quit \in [Comps -> BOOLEAN]
  /\ thread \in [Comps -> ThreadStates]
  /\ faults \in 0 .. MaxFaults

Init ==
  /\ launch \in Launches /\ process = "alive"
  /\ state = "Stopped"
  /\ main = "init" /\ dog = "off"
  /\ at = [t \in {"main", "dog"} |-> 0]
  /\ lock = "free" /\ watching = FALSE
  /\ stopEvent = FALSE /\ cached \in BOOLEAN /\ targets \in {"disabled", "configured", "none"}
  /\ running = [c \in Comps |-> FALSE] /\ handle = [c \in Comps |-> FALSE]
  /\ quit = [c \in Comps |-> FALSE] /\ thread = [c \in Comps |-> "none"]
  /\ faults = 0

Alive == process = "alive"
Fault == faults < MaxFaults /\ faults' = faults + 1

-------------------------------------------------------------------------------
(* A component's Start, Stop and IsHealthy.                                *)

Healthy(c) ==
  /\ running[c] \/ c \in Clients \/ (c \in Scanners /\ targets = "disabled")
  /\ c \in Ports \cup Clients => handle[c]

Joinable(c) == thread[c] # "none"

Looping == Ports \cup Clients \cup Scanners

\* Start returns true and does nothing: it runs already (the client and the scanner
\* do not ask), or the scanner is disabled or has no directories.
StartsNothing(c) ==
  IF c \in Scanners THEN targets \in {"disabled", "none"} ELSE running[c] /\ c \notin Clients

\* Mutant of Starts: a client leaves connecting to its heartbeat thread.
StartsUnconnected(c) ==
  IF StartsNothing(c) THEN UNCHANGED <<comps, process>>
  ELSE /\ running' = [running EXCEPT ![c] = TRUE]
       /\ thread' = [thread EXCEPT ![c] =
            IF c \in Monitors THEN "setup" ELSE IF c \in Looping THEN "loop" ELSE @]
       /\ handle' = [handle EXCEPT ![c] = IF c \in Ports THEN TRUE ELSE @]
       /\ process' = IF Joinable(c) THEN "terminated" ELSE process
       /\ UNCHANGED quit

\* Start returned true.  A thread object that is still joinable is assigned a
\* new thread: std::terminate.
Starts(c) ==
  IF StartsNothing(c) THEN UNCHANGED <<comps, process>>
  ELSE /\ running' = [running EXCEPT ![c] = TRUE]
       /\ thread' = [thread EXCEPT ![c] =
            IF c \in Monitors THEN "setup" ELSE IF c \in Looping THEN "loop" ELSE @]
       /\ handle' = [handle EXCEPT ![c] = IF c \in Ports \cup Clients THEN TRUE ELSE @]
       /\ process' = IF Joinable(c) THEN "terminated" ELSE process
       /\ UNCHANGED quit

\* Start returned false: no driver port, no database.
MayFailToStart(c) == c \notin Monitors \cup Clients \cup Scanners
CannotStart(c) == MayFailToStart(c) /\ ~running[c] /\ Fault

\* Stop, up to the join: a component that is not running is left as it is; a
\* monitor's handle, if there is one by now, is told to quit.
StopSignals(c) ==
  /\ running' = [running EXCEPT ![c] = FALSE]
  /\ quit' = [quit EXCEPT ![c] = @ \/ (running[c] /\ c \in Monitors /\ handle[c])]
  /\ handle' = [handle EXCEPT ![c] = @ /\ (c \in Monitors \/ (c \in Clients /\ Joinable(c)))]
  /\ UNCHANGED thread

\* Whether Stop joins the thread, seen before StopSignals.
StopJoins(c) == Joinable(c) /\ (running[c] \/ c \in Clients)

\* The join returned; the client disconnects only now.
Joins(c) ==
  /\ thread[c] = "ended"
  /\ thread' = [thread EXCEPT ![c] = "none"]
  /\ handle' = [handle EXCEPT ![c] = @ /\ c \notin Clients]
  /\ UNCHANGED <<running, quit>>

-------------------------------------------------------------------------------
(* The threads of the components.                                          *)

\* MonitorThread has its window or trace session; running_ is not looked at.
SetUp(c) ==
  /\ Alive /\ thread[c] = "setup"
  /\ thread' = [thread EXCEPT ![c] = "loop"]
  /\ handle' = [handle EXCEPT ![c] = TRUE]
  /\ UNCHANGED <<service, control, running, quit, faults>>

\* CreateWindowEx, StartTrace, EnableTraceEx2 or OpenTrace fails.
SetUpFails(c) ==
  /\ Fault
  /\ Alive /\ thread[c] = "setup"
  /\ thread' = [thread EXCEPT ![c] = "ended"]
  /\ running' = [running EXCEPT ![c] = FALSE]
  /\ UNCHANGED <<service, control, handle, quit>>

\* The loop ends: a monitor's when its handle quits, the listener's when its
\* port is closed, the heartbeat's and the scan's when they see that they are to stop.
LoopEnds(c) ==
  /\ Alive /\ thread[c] = "loop"
  /\ IF c \in Monitors THEN quit[c] ELSE ~running[c]
  /\ thread' = [thread EXCEPT ![c] = "ended"]
  /\ handle' = [handle EXCEPT ![c] = @ /\ c \in Clients]
  /\ quit' = [quit EXCEPT ![c] = FALSE]
  /\ UNCHANGED <<service, control, running, faults>>

\* Mutant of ThreadExits: the listener marks its port as disconnected.
ThreadExitsUnhealthy(c) ==
  /\ Fault
  /\ Alive /\ c \in Monitors \cup Ports /\ thread[c] = "loop" /\ running[c]
  /\ thread' = [thread EXCEPT ![c] = "ended"]
  /\ handle' = [handle EXCEPT ![c] = FALSE]
  /\ UNCHANGED <<service, control, running, quit>>

\* The loop of a monitor or the listener breaks by itself (the driver is
\* unloaded, the trace session is stopped by someone else); running_ stays.
ThreadExits(c) ==
  /\ Fault
  /\ Alive /\ c \in Monitors \cup Ports /\ thread[c] = "loop" /\ running[c]
  /\ thread' = [thread EXCEPT ![c] = "ended"]
  /\ handle' = [handle EXCEPT ![c] = @ /\ c \in Ports]
  /\ UNCHANGED <<service, control, running, quit>>

\* EnterBackoff; and Connect by the heartbeat thread itself.  heartbeat_running_ was
\* looked at before the call.
HeartbeatFails(c) ==
  /\ Fault
  /\ Alive /\ c \in Clients /\ thread[c] = "loop" /\ handle[c]
  /\ handle' = [handle EXCEPT ![c] = FALSE]
  /\ UNCHANGED <<service, control, running, thread, quit>>

Reconnects(c) ==
  /\ Alive /\ c \in Clients /\ thread[c] = "loop" /\ ~handle[c]
  /\ handle' = [handle EXCEPT ![c] = TRUE]
  /\ UNCHANGED <<service, control, running, thread, quit, faults>>

\* The heartbeat is answered by a new policy version: PullPolicies locks stub_mutex_,
\* which the heartbeat holds.
Relocks(c) ==
  /\ "hang" \in RelockOutcomes
  /\ Alive /\ c \in Clients /\ thread[c] = "loop" /\ handle[c]
  /\ thread' = [thread EXCEPT ![c] = "stuck"]
  /\ UNCHANGED <<service, control, running, handle, quit, faults>>

\* The listener asks the server for a verdict (DetectContent) and waits for the same
\* mutex.
WaitsForStub(c) ==
  /\ Alive /\ c \in Ports /\ thread[c] = "loop" /\ \E d \in Clients : thread[d] = "stuck"
  /\ thread' = [thread EXCEPT ![c] = "stuck"]
  /\ UNCHANGED <<service, control, running, handle, quit, faults>>

\* RunRemoteScan, in a detached thread: its path is the scanner's only directory
\* while it scans, then the saved settings are back.
RemoteScanBegins ==
  /\ Alive /\ targets = "none" /\ \E c \in Clients : thread[c] = "loop" /\ handle[c]
  /\ targets' = "remote"
  /\ UNCHANGED <<launch, process, state, stopEvent, cached, control, comps, faults>>

RemoteScanEnds ==
  /\ Alive /\ targets = "remote"
  /\ targets' = "none"
  /\ UNCHANGED <<launch, process, state, stopEvent, cached, control, comps, faults>>

-------------------------------------------------------------------------------
(* The main thread.                                                        *)

\* RunConsole and Initialize.
RunConsole ==
  /\ Alive /\ main = "init" /\ launch = "console" /\ lock = "free"
  /\ state' = IF cached THEN "Enforcing" ELSE "LogOnly"
  /\ main' = "start" /\ lock' = "main" /\ at' = [at EXCEPT !["main"] = 1]
  /\ UNCHANGED <<launch, process, stopEvent, cached, targets, dog, watching, comps, faults>>

\* RunAsService: main has made no AgentService, instance_ is null and
\* ServiceMain returns at once.
RunAsService ==
  /\ Alive /\ main = "init" /\ launch = "service"
  /\ main' = "done"
  /\ UNCHANGED <<service, dog, at, lock, watching, comps, faults>>

\* ConsoleCtrlHandler, in a thread of its own.
ConsoleCtrlHandler ==
  /\ Alive /\ launch = "console" /\ main # "done" /\ ~stopEvent
  /\ state' = "Stopping" /\ stopEvent' = TRUE
  /\ UNCHANGED <<launch, process, cached, targets, control, comps, faults>>

StartComponent ==
  /\ Alive /\ main = "start" /\ at["main"] <= N
  /\ Starts(Order[at["main"]])
  /\ at' = [at EXCEPT !["main"] = @ + 1]
  /\ UNCHANGED <<launch, state, stopEvent, cached, targets, main, dog, lock, watching, faults>>

\* Mutant of StartFails: the mutex is kept on the way out.
StartFailsLocked ==
  /\ Alive /\ main = "start" /\ at["main"] <= N
  /\ CannotStart(Order[at["main"]])
  /\ main' = "unwatch"
  /\ UNCHANGED <<service, dog, at, lock, watching, comps>>

StartFails ==
  /\ Alive /\ main = "start" /\ at["main"] <= N
  /\ CannotStart(Order[at["main"]])
  /\ main' = "unwatch" /\ lock' = "free"
  /\ UNCHANGED <<service, dog, at, watching, comps>>

StartWatchdog ==
  /\ Alive /\ main = "start" /\ at["main"] = N + 1
  /\ watching' = TRUE /\ dog' = "sleep"
  /\ main' = "wait" /\ lock' = "free"
  /\ UNCHANGED <<service, at, comps, faults>>

Shutdown ==
  /\ Alive /\ main = "wait" /\ stopEvent
  /\ state' = "Stopping"
  /\ main' = "unwatch"
  /\ UNCHANGED <<launch, process, stopEvent, cached, targets, dog, at, lock, watching, comps, faults>>

\* Mutant of StopWatchdog: watchdog_running_ is left set.
StopWatchdogUntold ==
  /\ Alive /\ main = "unwatch"
  /\ main' = "joinDog"
  /\ UNCHANGED <<service, dog, at, lock, watching, comps, faults>>

\* StopComponents.
StopWatchdog ==
  /\ Alive /\ main = "unwatch"
  /\ watching' = FALSE /\ main' = "joinDog"
  /\ UNCHANGED <<service, dog, at, lock, comps, faults>>

\* Mutant of JoinWatchdog: the watchdog is told to stop and not waited for.
DetachWatchdog ==
  /\ Alive /\ main = "joinDog"
  /\ main' = "lock"
  /\ UNCHANGED <<service, dog, at, lock, watching, comps, faults>>

JoinWatchdog ==
  /\ Alive /\ main = "joinDog" /\ dog = "off"
  /\ main' = "lock"
  /\ UNCHANGED <<service, dog, at, lock, watching, comps, faults>>

LockToStop ==
  /\ Alive /\ main = "lock" /\ lock = "free"
  /\ lock' = "main" /\ main' = "stop" /\ at' = [at EXCEPT !["main"] = N]
  /\ UNCHANGED <<service, dog, watching, comps, faults>>

StopComponent ==
  /\ Alive /\ main = "stop" /\ at["main"] >= 1
  /\ LET c == Order[at["main"]]
     IN  /\ StopSignals(c)
         /\ IF StopJoins(c) THEN main' = "stopJoin" /\ UNCHANGED at
            ELSE at' = [at EXCEPT !["main"] = @ - 1] /\ UNCHANGED main
  /\ UNCHANGED <<service, dog, lock, watching, faults>>

StopComponentJoins ==
  /\ Alive /\ main = "stopJoin"
  /\ Joins(Order[at["main"]])
  /\ main' = "stop" /\ at' = [at EXCEPT !["main"] = @ - 1]
  /\ UNCHANGED <<service, dog, lock, watching, faults>>

ComponentsStopped ==
  /\ Alive /\ main = "stop" /\ at["main"] = 0
  /\ state' = IF stopEvent THEN "Stopped" ELSE state
  /\ main' = "done" /\ lock' = "free"
  /\ UNCHANGED <<launch, process, stopEvent, cached, targets, dog, at, watching, comps, faults>>

\* main returns; a thread object destroyed while joinable: std::terminate.
Exit ==
  /\ Alive /\ main = "done"
  /\ process' = IF \E c \in Comps : Joinable(c) THEN "terminated" ELSE "exited"
  /\ UNCHANGED <<launch, state, stopEvent, cached, targets, control, comps, faults>>

-------------------------------------------------------------------------------
(* The watchdog thread.                                                    *)

WatchdogWakes ==
  /\ Alive /\ dog = "sleep"
  /\ dog' = IF watching THEN "lock" ELSE "off"
  /\ UNCHANGED <<service, main, at, lock, watching, comps, faults>>

WatchdogLocks ==
  /\ Alive /\ dog = "lock" /\ lock = "free"
  /\ dog' = "check" /\ lock' = "dog" /\ at' = [at EXCEPT !["dog"] = 1]
  /\ UNCHANGED <<service, main, watching, comps, faults>>

Checked == Order[at["dog"]]

SeesHealthy ==
  /\ Alive /\ dog = "check" /\ at["dog"] <= N
  /\ Healthy(Checked)
  /\ at' = [at EXCEPT !["dog"] = @ + 1]
  /\ UNCHANGED <<service, main, dog, lock, watching, comps, faults>>

SeesUnhealthy ==
  /\ Alive /\ dog = "check" /\ at["dog"] <= N
  /\ ~Healthy(Checked)
  /\ StopSignals(Checked)
  /\ dog' = IF StopJoins(Checked) THEN "dogJoin" ELSE "restart"
  /\ UNCHANGED <<service, main, at, lock, watching, faults>>

WatchdogJoins ==
  /\ Alive /\ dog = "dogJoin"
  /\ Joins(Checked)
  /\ dog' = "restart"
  /\ UNCHANGED <<service, main, at, lock, watching, faults>>

\* Start's other outcome, TransitionToLogOnly, needs a component that is both
\* unhealthy and able to fail its Start: LogOnlyIsNotReached says there is none.
Restarts ==
  /\ Alive /\ dog = "restart"
  /\ Starts(Checked)
  /\ dog' = "check" /\ at' = [at EXCEPT !["dog"] = @ + 1]
  /\ UNCHANGED <<launch, state, stopEvent, cached, targets, main, lock, watching, faults>>

ChecksDone ==
  /\ Alive /\ dog = "check" /\ at["dog"] = N + 1
  /\ dog' = "sleep" /\ lock' = "free"
  /\ UNCHANGED <<service, main, at, watching, comps, faults>>

-------------------------------------------------------------------------------
StopComponents == StopWatchdog \/ JoinWatchdog \/ LockToStop \/ StopComponent
                  \/ StopComponentJoins \/ ComponentsStopped
Main == RunConsole \/ RunAsService \/ StartComponent \/ StartFails \/ StartWatchdog
        \/ Shutdown \/ StopComponents \/ Exit
WatchdogThread == WatchdogWakes \/ WatchdogLocks \/ SeesHealthy \/ SeesUnhealthy
                  \/ WatchdogJoins \/ Restarts \/ ChecksDone
Thread(c) == SetUp(c) \/ LoopEnds(c)

Next ==
  \/ Main \/ WatchdogThread \/ ConsoleCtrlHandler
  \/ \E c \in Comps : Thread(c) \/ SetUpFails(c) \/ ThreadExits(c)
  \/ \E c \in Comps : HeartbeatFails(c) \/ Reconnects(c) \/ Relocks(c) \/ WaitsForStub(c)
  \/ RemoteScanBegins \/ RemoteScanEnds

Spec == Init /\ [][Next]_vars

\* Threads that can go on do; a thread stuck in a mutex cannot.
FairSpec ==
  /\ Spec
  /\ WF_vars(Main) /\ WF_vars(WatchdogThread)
  /\ \A c \in Comps : WF_vars(Thread(c))

-------------------------------------------------------------------------------
(* Properties.                                                             *)

\* When StopComponents has returned, the watchdog has ended and started nothing
\* behind it: no component runs and none of their threads is at work.
NothingRunsAfterStop ==
  main = "done" => /\ dog = "off"
                   /\ \A c \in Comps : ~running[c] /\ thread[c] \in {"none", "ended"}

\* The watchdog never reaches TransitionToLogOnly: a component whose Start can
\* fail is never found unhealthy once all have started.
LogOnlyIsNotReached == dog \in {"dogJoin", "restart"} => ~MayFailToStart(Checked)

\* What the flags say of the threads, while the watchdog works and after the stop
\* (Shutdown, WatchdogThread).
FlagsTellTheThreads == TypeOK /\ NothingRunsAfterStop /\ LogOnlyIsNotReached

\* A monitor whose thread came up after Stop had looked for its handle.
Deaf == \E c \in Monitors : thread[c] = "loop" /\ ~running[c] /\ ~quit[c]

\* The heartbeat thread waits for the mutex it holds, the listener perhaps behind it.
Hung == \E c \in Comps : thread[c] = "stuck"

\* Ctrl+C ends the process, whatever the watchdog is doing just then.  Two things can
\* keep it, and nothing else: a monitor stopped while it sets up, which never hears of
\* the stop (Deaf), and a heartbeat thread that locks the mutex it holds, which Stop
\* joins in vain (Hung).
StopEnds == stopEvent ~> process # "alive" \/ Deaf \/ Hung

\* Enabled, and without a directory to scan: Start does nothing and reports success.
Idle(c) == c \in Scanners /\ targets = "none"

\* While the agent runs, a component seen as unhealthy becomes healthy again, except
\* that a scanner without directories is restarted for ever and stays as it is, and that
\* the watchdog may itself hang in the join of a hung thread.  The process dies of a
\* restart (or at its exit) only for a monitor that could not set itself up: its Stop
\* leaves the ended thread joinable.
UnhealthyIsRestarted ==
  /\ \A c \in Comps :
       main = "wait" /\ ~Healthy(c) ~>
         Healthy(c) \/ main # "wait" \/ process = "terminated" \/ Idle(c) \/ Hung
  /\ [][process' = "terminated" =>
         \E c \in Monitors : ~running[c] /\ thread[c] = "ended"]_vars

\* If a component cannot restart the agent goes to log-only mode rather than
\* crashing.
RestartDoesNotCrash == process # "terminated"
===============================================================================
