------------------------------- MODULE Discover -------------------------------
(***************************************************************************)
(* Discover scans ordered by the server: the REST handlers that trigger,   *)
(* reassign and complete a scan (server/api/discover.py), the in-memory    *)
(* command queue (server/command_queue.py), the heartbeat that hands its   *)
(* commands out (server/grpc_server.py), the detached threads in which an  *)
(* agent runs them (agent/src/main.cpp), and the scanner whose settings    *)
(* and counters they share with its own periodic scan                      *)
(* (agent/src/discover_scanner.cpp).                                       *)
(*                                                                         *)
(* Abstracted: a setting is the id of the command that it comes from, or   *)
(* 0, the configuration file; the counters are the set of walks counted in *)
(* them, and a walk examines one file.  An assignment to settings that     *)
(* another thread is walking by leaves its iterator dangling; that thread  *)
(* then goes on or the process crashes.  Statements of a thread that       *)
(* follow each other on the settings and on the counters are one step.     *)
(* The path exclusions of a command are left out: the callback does not    *)
(* read them, and those in force are always the agent's own.               *)
(***************************************************************************)
EXTENDS Naturals, Sequences, SequencesExt, FiniteSets

CONSTANTS
  Agents,
  Scanning,     \* agents whose scanner is enabled and has directories to scan
  Scans,        \* rows of discover_scans
  NoAgent,      \* agent_id None
  Configured,   \* the agent's own periodic scan
  MaxTriggers,  \* bound: requests to trigger a scan
  Filtered,     \* the requests that find file extensions in the scan's row
  MaxFaults     \* bound: faults

ASSUME DiscoverAssumption ==
  /\ Scanning \subseteq Agents /\ Filtered \subseteq 1 .. MaxTriggers
  /\ NoAgent \notin Agents /\ Configured \notin Scans
  /\ MaxTriggers \in Nat /\ MaxFaults \in Nat

VARIABLES
  status,      \* per scan: pending, running or completed
  owner,       \* per scan: agent_id
  handlers,    \* trigger handlers in progress
  triggers,    \* requests to trigger a scan so far
  queue,       \* per key: the commands of the server's queue
  answer,      \* per agent: commands in the heartbeat response on its way
  config,      \* per agent: the scanner's config_
  stats,       \* per agent: walks counted in the scanner's stats_
  runs,        \* per agent: its threads that are in RunFullScan or RunRemoteScan
  started,     \* history: per agent and command, the scans it started for it
  overlapped,  \* history, per agent: two scans have been in progress at once
  faults

server == <<status, owner, handlers, triggers, queue>>
scanner == <<config, stats, runs, overlapped>>
vars == <<server, answer, scanner, started, faults>>

Triggers == 1 .. MaxTriggers
Command == [id : Triggers, scan : Scans]

\* Where a setting comes from; the directories and the extensions of a scanner.
Sources == Triggers \cup {0}
Settings == [dir : Sources, extensions : Sources]
AsConfigured == [dir |-> 0, extensions |-> 0]

\* The dictionary's keys: what enqueue is given is a UUID object, what drain is
\* given is text, and the two are never equal.
Broadcast == <<"text", NoAgent>>
AsUUID(a) == <<"uuid", a>>
AsText(a) == <<"text", a>>
Keys == {Broadcast} \cup {AsUUID(a) : a \in Agents} \cup {AsText(a) : a \in Agents}

\* A thread's own data; the periodic scan has id 0.
Thread(id, scan, step) ==
  [id |-> id, scan |-> scan, step |-> step, saved |-> AsConfigured,
   dir |-> 0, dangling |-> FALSE, result |-> {}]

Remote(r) == r.id # 0
Walk == [by : Sources, dir : Sources, extensions : Sources]

Steps == {"save", "apply", "begin", "file", "restore", "report"}
ThreadData ==
  [id : Triggers, scan : Scans, step : Steps, saved : Settings, dir : Sources,
   dangling : BOOLEAN, result : SUBSET Walk]
    \cup [id : {0}, scan : {Configured}, step : {"begin", "file"}, saved : {AsConfigured},
          dir : Sources, dangling : BOOLEAN, result : {{}}]

TypeOK ==
  /\ status \in [Scans -> {"pending", "running", "completed"}]
  /\ owner \in [Scans -> Agents \cup {NoAgent}]
  /\ handlers \subseteq [id : Triggers, scan : Scans, committed : BOOLEAN,
                         agent : Agents \cup {NoAgent}]
  /\ triggers \in 0 .. MaxTriggers
  /\ queue \in [Keys -> Seq(Command)]
  /\ answer \in [Agents -> Seq(Command)]
  /\ config \in [Agents -> Settings]
  /\ stats \in [Agents -> SUBSET Walk]
  /\ runs \in [Agents -> SUBSET ThreadData]
  /\ \A a \in Agents : \A q, r \in runs[a] : q.id = r.id => q = r
  /\ started \in [Agents -> [Triggers -> Nat]]
  /\ overlapped \in [Agents -> BOOLEAN]
  /\ faults \in 0 .. MaxFaults

\* Scans just created, for an agent or for none.
Init ==
  /\ status = [s \in Scans |-> "pending"]
  /\ owner \in [Scans -> Agents \cup {NoAgent}]
  /\ handlers = {} /\ triggers = 0
  /\ queue = [k \in Keys |-> <<>>]
  /\ answer = [a \in Agents |-> <<>>]
  /\ config = [a \in Agents |-> AsConfigured]
  /\ stats = [a \in Agents |-> {}]
  /\ runs = [a \in Agents |-> {}]
  /\ started = [a \in Agents |-> [i \in Triggers |-> 0]]
  /\ overlapped = [a \in Agents |-> FALSE]
  /\ faults = 0

Fault == faults < MaxFaults /\ faults' = faults + 1

-------------------------------------------------------------------------------
(* The server.                                                             *)

Update(s, a) ==
  /\ owner' = [owner EXCEPT ![s] = a]
  /\ UNCHANGED <<status, handlers, triggers, queue, answer, scanner, started, faults>>

\* complete_discover: whatever the status is.
Complete(s) ==
  /\ status' = [status EXCEPT ![s] = "completed"]
  /\ UNCHANGED <<owner, handlers, triggers, queue, answer, scanner, started, faults>>

\* trigger_discover reads the scan and checks its status ...
Trigger(s) ==
  /\ triggers < MaxTriggers
  /\ status[s] # "running"
  /\ triggers' = triggers + 1
  /\ handlers' = handlers \cup {[id |-> triggers', scan |-> s, committed |-> FALSE, agent |-> NoAgent]}
  /\ UNCHANGED <<status, owner, queue, answer, scanner, started, faults>>

\* ... sets it running and commits, two awaits later ...
Commit(h) ==
  /\ ~h.committed
  /\ status' = [status EXCEPT ![h.scan] = "running"]
  /\ handlers' = (handlers \ {h}) \cup {[h EXCEPT !.committed = TRUE, !.agent = owner[h.scan]]}
  /\ UNCHANGED <<owner, triggers, queue, answer, scanner, started, faults>>

EnqueueOn(h, k) ==
  /\ queue' = [queue EXCEPT ![k] = Append(@, [id |-> h.id, scan |-> h.scan])]
  /\ handlers' = handlers \ {h}
  /\ UNCHANGED <<status, owner, triggers, answer, scanner, started, faults>>

\* Mutant of Enqueue: the command is queued without waiting for the commit.
EnqueueEarly(h) == EnqueueOn(h, IF owner[h.scan] = NoAgent THEN Broadcast ELSE AsUUID(owner[h.scan]))

\* ... and queues the command when the commit has returned.
Enqueue(h) ==
  /\ h.committed
  /\ EnqueueOn(h, IF h.agent = NoAgent THEN Broadcast ELSE AsUUID(h.agent))

\* Mutant of Heartbeat: broadcasts are left for the other agents.
HeartbeatKeepsBroadcasts(a) ==
  /\ answer[a] = <<>>
  /\ queue[AsText(a)] \o queue[Broadcast] # <<>>
  /\ answer' = [answer EXCEPT ![a] = queue[AsText(a)] \o queue[Broadcast]]
  /\ queue' = [queue EXCEPT ![AsText(a)] = <<>>]
  /\ UNCHANGED <<status, owner, handlers, triggers, scanner, started, faults>>

\* Mutant of Heartbeat: only the agent's own commands are drained.
HeartbeatWithoutBroadcasts(a) ==
  /\ answer[a] = <<>>
  /\ queue[AsText(a)] # <<>>
  /\ answer' = [answer EXCEPT ![a] = queue[AsText(a)]]
  /\ queue' = [queue EXCEPT ![AsText(a)] = <<>>]
  /\ UNCHANGED <<status, owner, handlers, triggers, scanner, started, faults>>

\* A heartbeat drains the agent's commands and all broadcasts (one that finds
\* none changes nothing here).
Heartbeat(a) ==
  /\ answer[a] = <<>>
  /\ queue[AsText(a)] \o queue[Broadcast] # <<>>
  /\ answer' = [answer EXCEPT ![a] = queue[AsText(a)] \o queue[Broadcast]]
  /\ queue' = [queue EXCEPT ![AsText(a)] = <<>>, ![Broadcast] = <<>>]
  /\ UNCHANGED <<status, owner, handlers, triggers, scanner, started, faults>>

\* The queue is in memory, and so are the handlers.
ServerRestarts ==
  /\ Fault
  /\ queue' = [k \in Keys |-> <<>>]
  /\ handlers' = {}
  /\ UNCHANGED <<status, owner, triggers, answer, scanner, started>>

-------------------------------------------------------------------------------
(* The agents.                                                             *)

Replace(a, r, new) == runs' = [runs EXCEPT ![a] = (@ \ {r}) \cup new]

\* A scan is in progress from its first step to its last on the scanner.
Busy(r) == r.step \notin {"save", "report"}

\* The command callback starts a detached thread for each command.
Receive(a) ==
  /\ answer[a] # <<>>
  /\ runs' = [runs EXCEPT ![a] = @ \cup {Thread(c.id, c.scan, "save") : c \in ToSet(answer[a])}]
  /\ started' = [started EXCEPT ![a] = [i \in Triggers |->
                   @[i] + Cardinality({n \in DOMAIN answer[a] : answer[a][n].id = i})]]
  /\ answer' = [answer EXCEPT ![a] = <<>>]
  /\ UNCHANGED <<server, config, stats, overlapped, faults>>

LoseAnswer(a) ==
  /\ Fault
  /\ answer[a] # <<>>
  /\ answer' = [answer EXCEPT ![a] = <<>>]
  /\ UNCHANGED <<server, scanner, started>>

\* The process ends, by a crash or a stop, and is started again.
Fresh(a) ==
  /\ answer' = [answer EXCEPT ![a] = <<>>]
  /\ config' = [config EXCEPT ![a] = AsConfigured]
  /\ stats' = [stats EXCEPT ![a] = {}]
  /\ runs' = [runs EXCEPT ![a] = {}]
  /\ overlapped' = [overlapped EXCEPT ![a] = FALSE]
  /\ UNCHANGED <<server, started>>

AgentRestarts(a) == Fault /\ Fresh(a)

\* Mutant of PeriodicScan: the next full scan begins by the clock alone.
PeriodicScanByClock(a) ==
  /\ a \in Scanning
  /\ runs' = [runs EXCEPT ![a] = @ \cup {Thread(0, Configured, "begin")}]
  /\ overlapped' = [overlapped EXCEPT ![a] = @ \/ \E r \in runs[a] : Busy(r)]
  /\ UNCHANGED <<server, answer, config, stats, started, faults>>

\* ScanThread wakes up and begins a full scan.
PeriodicScan(a) ==
  /\ a \in Scanning
  /\ \A r \in runs[a] : Remote(r)
  /\ runs' = [runs EXCEPT ![a] = @ \cup {Thread(0, Configured, "begin")}]
  /\ overlapped' = [overlapped EXCEPT ![a] = @ \/ \E r \in runs[a] : Busy(r)]
  /\ UNCHANGED <<server, answer, config, stats, started, faults>>

SaveSettings(a, r, counters) ==
  /\ r.step = "save"
  /\ Replace(a, r, {[r EXCEPT !.step = "apply", !.saved = config[a]]})
  /\ stats' = [stats EXCEPT ![a] = counters]
  /\ overlapped' = [overlapped EXCEPT ![a] = @ \/ \E q \in runs[a] \ {r} : Busy(q)]
  /\ UNCHANGED <<server, answer, config, started, faults>>

\* Mutant of Save: the counters are not cleared.
SaveOnly(a, r) == SaveSettings(a, r, stats[a])

\* RunRemoteScan: copy the settings and clear the counters ...
Save(a, r) == SaveSettings(a, r, {})

\* The other threads that are walking lose the vector they iterate over.
Assign(a, r, settings, new) ==
  /\ config' = [config EXCEPT ![a] = settings]
  /\ runs' = [runs EXCEPT ![a] =
                {[q EXCEPT !.dangling = @ \/ q.step = "file"] : q \in @ \ {r}} \cup {new}]
  /\ UNCHANGED <<server, answer, stats, overlapped, started, faults>>

\* ... and put the scan's directory in place of the agent's, and its extensions
\* if it has any.
Override(settings, i) ==
  [dir |-> i, extensions |-> IF i \in Filtered THEN i ELSE settings.extensions]

Apply(a, r) ==
  r.step = "apply" /\ Assign(a, r, Override(config[a], r.id), [r EXCEPT !.step = "begin"])

Done(r) == IF Remote(r) THEN {[r EXCEPT !.step = "restore", !.dangling = FALSE]} ELSE {}

\* RunFullScan: a scanner that is not running leaves its loop at once.
Begin(a, r) ==
  /\ r.step = "begin"
  /\ Replace(a, r, IF a \in Scanning THEN {[r EXCEPT !.step = "file", !.dir = config[a].dir]} ELSE Done(r))
  /\ UNCHANGED <<server, answer, config, stats, overlapped, started, faults>>

\* WalkDirectory: a file is examined by the extensions that are set now.
File(a, r) ==
  /\ r.step = "file"
  /\ \/ /\ stats' = [stats EXCEPT ![a] =
                       @ \cup {[by |-> r.id, dir |-> r.dir, extensions |-> config[a].extensions]}]
        /\ Replace(a, r, Done(r))
        /\ UNCHANGED <<server, answer, config, overlapped, started>>
     \/ r.dangling /\ Fresh(a)
  /\ UNCHANGED faults

\* Mutant of Restore: the settings stay those of the scan.
RestoreNothing(a, r) ==
  r.step = "restore" /\ Assign(a, r, config[a], [r EXCEPT !.step = "report", !.result = stats[a]])

\* The counters are the scan's result; the settings copied before come back.
Restore(a, r) ==
  r.step = "restore" /\ Assign(a, r, r.saved, [r EXCEPT !.step = "report", !.result = stats[a]])

\* ReportDiscoverResults: the scan is completed, whatever its status, and
\* belongs to the agent from now on.
Report(a, r) ==
  /\ r.step = "report"
  /\ status' = [status EXCEPT ![r.scan] = "completed"]
  /\ owner' = [owner EXCEPT ![r.scan] = IF @ = NoAgent THEN a ELSE @]
  /\ Replace(a, r, {})
  /\ UNCHANGED <<handlers, triggers, queue, answer, config, stats, overlapped, started, faults>>

\* The result of the call is ignored.
ReportFails(a, r) ==
  /\ Fault
  /\ r.step = "report"
  /\ Replace(a, r, {})
  /\ UNCHANGED <<server, answer, config, stats, overlapped, started>>

-------------------------------------------------------------------------------
Handle(h) == Commit(h) \/ Enqueue(h)

Scan(a, r) ==
  \/ Save(a, r) \/ Apply(a, r) \/ Begin(a, r) \/ File(a, r) \/ Restore(a, r)
  \/ Report(a, r)

Next ==
  \/ \E s \in Scans : Trigger(s) \/ Complete(s) \/ \E a \in Agents \cup {NoAgent} : Update(s, a)
  \/ \E h \in handlers : Handle(h)
  \/ \E a \in Agents : Heartbeat(a) \/ Receive(a) \/ PeriodicScan(a)
  \/ \E a \in Agents : \E r \in runs[a] : Scan(a, r) \/ ReportFails(a, r)
  \/ ServerRestarts
  \/ \E a \in Agents : LoseAnswer(a) \/ AgentRestarts(a)

Spec == Init /\ [][Next]_vars

\* Handlers and threads go on, agents keep beating; nobody has to trigger,
\* reassign or complete a scan.
FairSpec ==
  /\ Spec
  /\ \A i \in Triggers : WF_vars(\E h \in handlers : h.id = i /\ Handle(h))
  /\ \A a \in Agents : WF_vars(Heartbeat(a)) /\ WF_vars(Receive(a))
  /\ \A a \in Agents, i \in Triggers : WF_vars(\E r \in runs[a] : r.id = i /\ Scan(a, r))

-------------------------------------------------------------------------------
(* Properties.                                                             *)

\* "Each command is delivered once and then removed": no agent starts a second
\* scan for a command that it has started one for.
DeliveredOnce == \A a \in Agents, i \in Triggers : started[a][i] <= 1

\* A command goes out only when its scan has been committed as running: an agent
\* never works on a scan that the server takes for one never triggered.
TriggeredFirst ==
  \A s \in Scans :
    status[s] = "pending" =>
      /\ \A k \in Keys : \A c \in ToSet(queue[k]) : c.scan # s
      /\ \A a \in Agents : /\ \A c \in ToSet(answer[a]) : c.scan # s
                           /\ \A r \in runs[a] : r.scan # s

\* As long as no two scans of an agent have overlapped, a remote scan reports its
\* own walk only, made in its directory and by its own extensions or, if it names
\* none, by the agent's, and the settings of the agent are back when it is over.
UndisturbedScanIsExact ==
  \A a \in Agents : ~overlapped[a] =>
    /\ \A r \in runs[a] :
         r.result \subseteq {[by |-> r.id, dir |-> r.id,
                             extensions |-> IF r.id \in Filtered THEN r.id ELSE 0]}
    /\ (\A r \in runs[a] : ~Busy(r)) => config[a] = AsConfigured

\* A scan for no agent in particular, once queued, is completed, unless something
\* fails or scans overlap on an agent.
BroadcastsAreRun ==
  \A s \in Scans :
    (\E c \in ToSet(queue[Broadcast]) : c.scan = s)
      ~> (status[s] = "completed" \/ faults > 0 \/ \E a \in Agents : overlapped[a])

\* "If agent_id is None, broadcast to all agents": a scan for no agent in
\* particular, once queued, is started by every agent, unless something fails or
\* scans overlap on an agent.  The code does not give this: the first heartbeat takes
\* all broadcasts.
BroadcastsReachAll ==
  \A i \in Triggers :
    (\E c \in ToSet(queue[Broadcast]) : c.id = i)
      ~> (\/ \A a \in Agents : started[a][i] = 1
          \/ faults > 0 \/ \E a \in Agents : overlapped[a])

\* "Commands are queued by REST endpoints and delivered on the next agent
\* heartbeat": no command stays in the queue for ever.
CommandsAreDelivered == \A k \in Keys : queue[k] # <<>> ~> queue[k] = <<>>
===============================================================================
