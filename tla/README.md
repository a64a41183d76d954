# AkesoDLP in TLA+

AkesoDLP is a data-loss-prevention system. A Windows endpoint agent (C++,
`src/agent`) with a file-system minifilter driver (C, `src/agent/driver`)
watches files, clipboard and browser uploads, evaluates policies locally and
reports to a server (Python: FastAPI and gRPC, `src/server`) that keeps policies,
agents and incidents in PostgreSQL and distributes policy changes over Redis.
HTTP and SMTP monitors (`src/network`) and a web console (`src/console`) belong
to it as well.

This directory holds specifications of what the system does, the configurations
that model-check them on small instances, and proofs of their most important
properties for instances of any size.

1. [Inventory](#1-inventory)
2. [Modules](#2-modules)
3. [Runs, bounds and fairness](#3-runs-bounds-and-fairness)
4. [Theorems](#4-theorems)
5. [Where code and documents disagree](#5-where-code-and-documents-disagree)
6. [Not modelled](#6-not-modelled)
7. [What is left](#7-what-is-left)

## 1. Inventory

### Agent

| Component | State | Operations | Talks to | What is hard, what makes it correct |
|---|---|---|---|---|
| `AgentService` (agent_service.cpp, main.cpp) | state, policy-cache flag, registered components, watchdog flag, stop event | RunConsole/RunAsService, StartComponents, StopComponents, watchdog round, TransitionTo... | every component's Start/Stop/IsHealthy under one mutex | A stop races with a restart by the watchdog. Nothing may run after the stop, the stop must end, an unhealthy component must come back. |
| Driver and `DriverComm` (akeso_dlp_filter.c, filter_comm.c, driver_comm.cpp) | client port, one listener thread, callback, flags | pre-write callback, FltSendMessage with a timeout, listener loop, FilterReplyMessage, Start, Stop | detection pipeline by callback, driver by messages | Verdicts reach the write they were decided for; a denial has an incident; timeouts of driver, dialog and server call nest; a stop does not cut off a decision and ends. |
| `DetectionPipeline`, `UserCancelAction` (pipeline.cpp, user_cancel.cpp) | policies, detectors, response actions | OnFileNotification, OnClipboardChange, OnBrowserUpload, ShowDialog, post-verdict threads | detectors, evaluator, `GrpcClient::DetectContent`, `IncidentQueue` | Detached threads outlive the objects they use; the dialog's thread may outlive ShowDialog. |
| `IncidentQueue` (incident_queue.cpp) | a SQLite table, its rowid counter, a mutex | Start, Stop, Enqueue, Drain, Peek, Remove, RemoveBatch, IncrementRetry, Clear | pipeline (producer); nobody drains it | Two commits per Enqueue, snapshots used after the lock is gone, capacity, equal timestamps. No incident is lost but by eviction. |
| `PolicyEvaluator` (policy_evaluator.cpp) | registered policies | AddPolicy, Evaluate | pipeline | Rules, exceptions, counts and tiers combine; must agree with the server's evaluator. |
| `GrpcClient` (grpc_client.cpp) | channel, registration, agent id, policy version, heartbeat thread | Register, heartbeat, PullPolicies, ReportIncident, DetectContent, ReportDiscoverResults | server | Answers are lost after the server has committed, the watchdog restarts the client in the middle, rows are deleted under it. One row per machine, and an identity that is kept. |
| `DiscoverScanner` (discover_scanner.cpp) | settings, statistics, scan thread | periodic full scan, RunRemoteScan | commands from the heartbeat in detached threads | Settings and counters without a lock are shared by all scans. |
| `PolicyCache` (policy_cache.cpp) | a SQLite file | StorePolicies, LoadPolicies | `AgentService` asks if it exists | Nothing writes it. |
| Monitors (clipboard_monitor.cpp, browser_upload_monitor.cpp) | message window, ETW session, cooldowns | Start, Stop, events | pipeline | A stop during set-up; a failed thread that is restarted. |
| Detectors, responses, tamper protection, configuration | none shared, or the operating system's | | | Sequential. |

### Server

| Component | State | Operations | Talks to | What is hard, what makes it correct |
|---|---|---|---|---|
| Policy distribution (policy_events.py, grpc_server.py) | Redis counter and channel; per process a version, subscribers, a listener task | publish after commit, relay, Heartbeat, GetPolicies | agents, other server processes | INCR and PUBLISH are two awaits, subscriptions begin late, policies and version are read at different times. An agent ends up with what was committed. |
| Policy service and stream (api/policies.py, policy_service.py, PolicyUpdates) | policies, rules, exceptions, audit log; per subscriber a queue | create, clone, update, activate, suspend, delete, edits of rules; subscribe, synchronise, relay | bus, subscribers | Writes skip columns that look unchanged; requests overlap; a synchronisation cannot express a removal. The audit log tells what happened; a subscriber agrees with the table; only activate activates. |
| Discover (api/discover.py, discover_service.py, command_queue.py) | rows of scans; a command queue in memory | trigger, update, complete; drained by Heartbeat | agents by heartbeat and report | A command is delivered once, for a committed scan, and its scan is completed. |
| Agent registry (agent_service.py, Register and Heartbeat in grpc_server.py, api/agents.py) | rows of agents | register, heartbeat, delete | agents | Two registrations of a hostname that meet leave two rows, which no later one survives. |
| Incident service, SIEM emitter, smart response (incident_service.py, grpc_server.py, siem_emitter.py, smart_response.py) | incidents, history, notes, audit log | ReportIncident, updates, notes, four actions | agents, SIEM, console | Handlers write from snapshots; the event follows the commit; an audit entry is added after it. History, audit log and events agree with the rows. |
| Archive job (db_maintenance.py, archive_job.py) | the archive table | copy, delete | incidents | Two statements with handlers in between. An incident is in one of the two tables. |
| Dead letter queue (dead_letter_queue.py) | entries | enqueue, retry, dismiss | console | Retries are a read-modify-write. |
| Sessions, MFA, users (api/auth.py, users.py, auth_service.py, dependencies.py) | users, sessions, challenges, failures | login, second factor, refresh, logout, password and MFA changes, administration | console | Rotation, revocation and the limiter are checked before and recorded after an await. |
| Detection engine and analyzers (server/detection) | none, but the fingerprint library and its file | detect; add and remove fingerprints | DetectContent, API, gateways | Nested files, failing parts and analyzers, timeouts that leave a thread busy, a file that is not written atomically. |
| Policy evaluator (detection/policy_evaluator.py) | none | evaluate | tests; no caller in the server | As for the agent's. |
| gRPC rate limiter (grpc_rate_limiter.py) | a bucket per peer | check | every call | Refill and capacity; decides without awaiting. |
| Start and shutdown (main.py, shutdown.py) | registered tasks | shutdown_all | gRPC, Redis, SIEM | Priorities within one timeout. |
| Reports, risk, notifications and the other endpoints | rows | single-row edits, queries | | |

### Network and console

The HTTP and SMTP gateways run the server's detection engine in process and
let pass, mark, redirect or refuse one message at a time. What matters is that they
do what their incidents say, and that encodings and nesting hide nothing. The
console is a client of the REST endpoints.

## 2. Modules

Every module that models code has one action per handler, loop step or callback,
split where another thread, task or process can come in between: at an
`await`, an unlock, a blocking call or a separate commit. Variables marked
"history" remember what happened, so that a property can name the exact exceptions
the code leaves room for. Definitions whose name ends in `_` are mutants: not part of
the specification, each is a plausible slip in the definition it is named after,
and shows that a property notices it.

| Module | Models | Composed with |
|---|---|---|
| `IncidentQueue` | incident_queue.cpp | refines `DurableQueue` (INSTANCE ... WITH) |
| `DurableQueue` | what the queue promises | abstract |
| `WriteVerdict` | akeso_dlp_filter.c, filter_comm.c, driver_comm.cpp, user_cancel.cpp and the file path of pipeline.cpp, together | driver and agent in one module |
| `AgentConnection` | heartbeat thread of grpc_client.cpp, its restart by the watchdog, Register, Heartbeat and the deletion of agents on the server | agents and server in one module |
| `PolicySync` | policy_events.py, Heartbeat and GetPolicies of grpc_server.py, heartbeat and PullPolicies of grpc_client.cpp | servers, Redis and agents in one module |
| `Policies` | api/policies.py, policy_service.py, PolicyUpdates of grpc_server.py, the in-process bus | requests, audit log and a subscriber in one module |
| `AgentService` | agent_service.cpp, main.cpp and the Start, Stop and IsHealthy of the components it runs | |
| `PolicyEvaluation` | policy_evaluator.cpp and policy_evaluator.py side by side | pure operators, one step |
| `Discover` | api/discover.py, command_queue.py, Heartbeat's drain, the command threads of main.cpp, discover_scanner.cpp | server and agents in one module |
| `Incidents` | ReportIncident, incident_service.py, api/incidents.py, siem_emitter.py, smart_response.py, dead_letter_queue.py, the archive job | |
| `Sessions` | api/auth.py, users.py, auth_service.py, the login limiter of dependencies.py | |
| `Validators` | validators.py | pure operators |
| `Content` | file_inspector.py, content_normalizer.py, ParsedMessage | pure operators |
| `Analyzers` | the five analyzers | EXTENDS `Validators`, `Content` |
| `Fingerprints` | FingerprintIndex and api/fingerprints.py | EXTENDS `Analyzers` |
| `Detection` | engine.py, DetectContent, api/detection.py, the SMTP and HTTP gateways | EXTENDS `Fingerprints` |
| `Archive` | archive_inspector.py | next to `Detection` in `MCDetection` |
| `..._proofs` | theorems about `PolicySync`, `Policies`, `Discover`, `Incidents` | EXTENDS the module it is named after |
| `WritePath_proofs` | theorems about the way of a denied write into the queue | EXTENDS `IncidentQueue` and `WriteVerdict` |
| `Detection_proofs` | theorems about the engine, its callers and both inspectors | EXTENDS `Detection` and `Archive` |
| `Access_proofs` | theorems about who may speak to the server | EXTENDS `AgentConnection` and `Sessions` |
| `Agent_proofs` | theorems about the agent's threads and its policy evaluator | EXTENDS `AgentService` and `PolicyEvaluation` |
| `MC...` | values of the constants for TLC | EXTENDS the module it is named after |

### IncidentQueue

`rows` is the table, `lastId` SQLite's AUTOINCREMENT counter, `open` whether `db_`
is set. All methods hold `mutex_` throughout, so each is one step, except that
`Enqueue` commits its eviction and its insertion separately: `EnqueueDirect`
(nothing to evict), or `EnqueueEvict` followed by `EnqueueInsert`, with a crash
possible between. The database survives `Crash` and `Stop`. A write that SQLite
refuses is a fault (`Refused`): the code logs it and goes on, which is modelled
to the letter, for instance an insertion that follows a failed eviction. `ORDER BY
queued_at` leaves the order of equal times open (`Oldest`). `peeked`,
`released` and `discarded` are the caller's memory and history.

### WriteVerdict

The driver sends each write over the port and waits up to `DriverTimeout`;
the listener thread takes one message, calls back into the pipeline
(`Evaluate...`), asks the server (`ttd`) or the user (`dialog`), and replies.
The dialog has its own detached thread (`dialog`), with a timer and possibly a
message box on top, and `ShowDialog` waits for it with a limit. Post-verdict work
(incident, notification) runs in detached threads (`posted`). `Stopping` follows
the service stop step by step: pipeline, callback, port, join, queue. A driver that
gives up withdraws its message if nobody has taken it (`Withdrawn`). `Tick`
advances `age` and `clock`. The program's constants of 120, 5, 30 and 150
seconds are scaled to 3, 1, 1 and 5 ticks, which keeps their order
(TtdTime < DialogTime < DialogTime + Grace < DriverTimeout).

### AgentConnection

Per agent, `thread` is where the heartbeat thread is, `call` the call it waits for with
what the server's handler has read (`seen`), and `conn`, `registered`, `agentId` the
members of `GrpcClient`. A handler reads in one step and commits in the next; the
call may fail at any point, with or without the commit. `dog` is the watchdog, which
finds the client unhealthy while it is not connected, and stops and starts it,
which forgets `registered` but not the id. `had` and
`overlapped` are history. `Connect` never fails, since a channel object always exists,
so `GetBackoffDuration` is never waited for.

### PolicySync

`commits` counts changes in the database; a REST handler is a member of `handlers`
from its commit to its publish. `stamps` records the changes in the order of their
INCRs, so a version is a length and "the changes counted in a version" is a prefix:
that is what lets properties say whether an agent that claims a version holds its
changes. `Heartbeat` reports the agent's version and learns the bus version;
`ReadPolicies` and `Answer` are the two halves of GetPolicies. `ear` and `inbox`
are the listener task and what Redis has delivered to it. `route` is the set of
servers a load balancer sends an agent to. An agent's pull takes
`stub_mutex_` a second time from the thread that holds it; what then happens is
undefined in C++, so both outcomes are behaviours (`RelockOutcomes`).

### Policies

`table` holds policies with their parts (rules and exceptions with their conditions,
which are loaded, written and deleted alike); `audited` is the table that replaying
the audit log would give. Of the requests only activate and suspend load in a step
of their own (`Load`): SQLAlchemy writes a column only if its new value differs
from the loaded one (`Written`), so what they loaded matters. Every commit leaves the
request in flight until `Publish` puts its event in the queue of the subscriber.
`stream` is one PolicyUpdates call: `sync` what the full synchronisation has read and
not yet sent, `queue` the events behind it; `copy` and `held` belong to the
subscriber. `SendEvent` reads the policy again for each event (`Payload`). The
history variables `raced`, `strayed`, `nulled` and `astray` name the policies
about which the log or the subscriber may be wrong, one per cause in the code.

### AgentService

`main`, `dog` and one thread per component, with `at` as the loop counters of
StartComponents, StopComponents and the watchdog's round. `lock` is
`components_mutex_`. Components come in kinds that differ in Start, Stop and
IsHealthy: monitors (a thread that sets up a window or trace session before its
loop), ports (`DriverComm`), clients (`GrpcClient`) and scanners (`DiscoverScanner`);
others are plain. `terminated` is `std::terminate`.
A client's heartbeat thread can be `stuck` at the mutex it holds (`Relocks`,
grpc_client.cpp:516 to :257, an outcome of `RelockOutcomes` as in `PolicySync`): the
watchdog takes it for healthy, every Stop joins it in vain, and the listener may wait
behind it for `stub_mutex_` (`WaitsForStub`). `targets` is what the scanner has to
scan: without directories its Start reports success and starts nothing, so that it is
found unhealthy and restarted for ever (`Idle`), except while a remote scan lends it one.

### PolicyEvaluation

Both evaluators as operators over sets of matches. A condition is a record of its
operator, thresholds and filters; `Evaluate` follows the agent's evaluator
(rules, then `CollectRelevantMatches`, exceptions, tiers), `ServerEvaluate` the
server's. The one action compares them on a policy and a detection result.

### Discover

`handlers` are trigger requests between check, commit and enqueue; `queue` the
dictionary of the command queue, whose keys are values with their Python type
(`AsUUID(a)` and `AsText(a)` are different keys). `answer` is a heartbeat
response on its way. An agent's threads that work on scans are the records of
`runs`, which go through the statements of RunRemoteScan (save, apply, begin,
file, restore, report) on the shared `config` and `stats`. A thread whose vector
of directories is assigned to while it walks is `dangling`: it goes on or the
process ends. Settings are where the directory and the file extensions come from, a
command or (0) the configuration: a command replaces the extensions only if it has any
(`Override`; `Filtered` are the commands that do), so that otherwise the scan
goes by the agent's own. Its path exclusions are left out, since the agent never
reads them. `started` counts the scans that each agent started for a command.

### Incidents

`txs` is the sequence of committed transactions on incidents, each with its history
entries, note and audit entry and the number of transactions its handler had `seen`
when it loaded the row: the row is locked from flush to commit, so commit order is
the order of the writes. A handler in `req` carries its snapshot; `Differs` is
SQLAlchemy's comparison with it. ReportIncident commits and then emits to the SIEM; a
smart response commits and then adds an audit entry that nothing commits. `move` is
the archive job between its INSERT ... SELECT and its DELETE. `dlq` and `granted` are
the dead letter queue and the retries it has answered with success.

### Sessions

`user`, `sessions`, `attempts` are the tables and the limiter's window; `access` and
`challenges` are the tokens clients may hold. A handler is at most three actions: up to
the snapshot its first query takes, and one per commit. Refresh revokes the old
session in one commit and inserts the new one in another. `forks`, `closed`, `broken`
and `torn` count how often requests overlapped where the code lets them.

### Content, Validators, Analyzers, Fingerprints, Detection, Archive

A text is a sequence of items, each a value under encodings; what patterns and
extractors recognise is given, what the code makes of it is modelled: which components a
file or message yields, in what order, what a failing part or a limit leaves out and
whether a note tells (of a mail one body is read, plain text before HTML, the others are
`PassedOver`; its headers are not truncated); which components an analyzer sees, what
checksums and validators accept, how keyword rules treat case, words and distance, how
conditions of file type rules combine, when two fingerprints are similar. `Detection`
adds the callers: concurrent DetectContent calls, the API, and both gateways with their
incidents, log file (which may refuse a line) and forwarding. The handlers of
DetectContent and of the API share one event loop: `loop` is the request that has it to
itself, since both inspect a file on it, and the API detects on it, before anything else
may run. Only the engine of DetectContent works in an executor thread (`Start`,
`Finish`), under a timeout that cannot stop it; a result it gives is `finished` until
the loop answers, and neither that (`Reply`) nor the timeout (`TimeOut`) happens while
the loop is taken. `Fingerprints` keeps memory and file apart, with writes that tear and
restarts. What is attached to a mail is a file again: `Files` are all files of an
instance, `Nesting` says how deep others are attached in each, and what the inspector
makes of one is a function over them (`Inspect`), defined for a file by what it is for
those attached to it. `Archive` walks a tree of members with a stack of open archives,
whose failures end only the archive they occur in, and whose limits end everything. What
the limits bound is what is inspected, and its size is summed from the tree itself
(`Together`) rather than taken from the code's counter; what is held while decompressing
they do not bound (`CheckedBeforeExtraction`, section 5).

## 3. Runs, bounds and fairness

| Run | Properties | Shows | States |
|---|---|---|---|
| `incident_queue` | SnapshotNamesSameIncident, NothingVanishes, ImplementsDurableQueue | The queue accounts for every incident, a snapshot never names another, and it implements the durable store. | 249,070 |
| `write_verdict` | RecordsMatchOutcomes (types, replies, records of denials), StopWaitsForDecision, TimersOutlastEachOther, StopCompletes | Replies reach the write they were decided for, a denial leaves a record, timers run out in their order, a stop waits for a decision and ends. | 146,350 |
| `agent_connection` | RegistryIsSound, AgentsComeBack | One row per machine unless registrations meet; an id that is kept; an agent always comes back to a row. | 487,150 |
| `policy_sync` | PullCoversAnnouncement, NextEventHealsGap, AgentsSettle | With two servers and faults, a pull covers what caused it, a gap lasts until the next event, and an agent of one server reaches its version. | 420,052 |
| `policies` | TablesAreSound, SettledStreamsAgree, OnlyActivateActivates | Exactly when the audit log or a subscriber may be wrong about a policy; nothing but activate activates. | 1,457,326 |
| `agent_service` | FlagsTellTheThreads (types, nothing after a stop, log-only), StopEnds, UnhealthyIsRestarted | Start, watchdog and stop interleave safely; exactly two things keep the stop from ending, a monitor stopped during set-up and a client's hung thread, and exactly one component is restarted for nothing. | 76,778 |
| `policy_evaluation` | RulesAreAlternatives, ExceptionsOnlyRemove, AgentIsNoLaxer, SeverityFollowsMatches | How rules, exceptions and tiers combine, and that the agent finds what the server finds. | 614,400 |
| `discover` | DeliveredOnce, UndisturbedScanIsExact, BroadcastsAreRun | No agent starts a command's scan twice; a scan that overlaps no other reports its own walk only, by the settings it should have; broadcasts are completed, by some agent. | 1,245,630 |
| `discover_delivery` | CommandsAreDelivered (violated) | A command for an assigned agent stays in the queue for ever. | |
| `incidents` | TablesAreSound, HistoryReplaysTheRow, AuditTellsTheChanges, EventsTellTheRow, RetriesAreCounted | What history, audit log, SIEM and retry counter may say when handlers, the archive job and crashes meet. | 1,776,966 |
| `sessions` | SessionsFollowLogins, GuessesAreBounded, CredentialsAreCurrent, LoginsAreProven | How far overlapping requests bend limiter, rotation, logout and MFA, and that nothing else does. | 1,653,678 |
| `detection` | VerdictFollowsContent, EnforcedAsRecorded, AnalyzersAreRight, FingerprintsStay, EveryCallIsAnswered, InspectionIsSound | A verdict tells what is in the read part of a file, a gateway does what its incidents say, encodings do not help, checksums catch typos, the library keeps what it confirmed, every call is answered while the event loop comes back, what an archive holds is inspected or named. | 90,740 |

A property named in parentheses is a conjunct; each module's last section defines them.

### Bounds

- `incident_queue`: three keys and two times on two slots give a duplicate, a
  tie of timestamps and a full table at once; four rowids allow two evictions
  after the table is full; one refused write is enough to break each commit
  once. Keys are interchangeable (symmetry; no liveness is checked here).
- `write_verdict`: two writes are the fewest for one to wait behind the other,
  two starts for a stop and a restart. A third write waits as the second does.
- `agent_connection`: two agents with one hostname are the fewest whose registrations
  meet; four rows let each be deleted and registered again; two failed calls or
  restarts hit one agent twice or both once.
- `policy_sync`: two changes are the fewest that can be published in another order
  than counted, two servers the fewest for an agent to switch between, two faults
  the fewest for a failed repair.
- `policies`: the template and two ids let one policy be deleted and another take
  its place in the queue; two requests are the fewest that overlap; three commits
  let a third follow two that overlap. Requests, and ids but the template, are
  interchangeable.
- `agent_service`: one component of each kind in the order of main.cpp, with the scanner
  disabled, with and without directories; a lock taken twice hangs or is entered; three
  faults let components fail once each or one repeatedly.
- `policy_evaluation`: two conditions per rule, two rules and two exceptions are
  the fewest for each to interact with another of its kind; three matches reach
  both sides of every threshold.
- `discover`: two agents compete for a broadcast; one has a scanner that runs and
  one has not, which are the two branches of RunFullScan; two triggers let
  two remote scans overlap with each other and with a periodic one; one of them names
  file extensions and one does not.
- `incidents`: one incident and one entry of the dead letter queue, since no
  operation relates two of a kind; two handlers overlap, with the archive job as a
  third; four commits are a report, two that overlap and one after them; two
  retries are one below the limit and one at it. The constraint `Apart` explores
  incidents and dead letters in different behaviours: they share no state.
- `sessions`: two users, passwords and secrets, the right and a wrong one of each;
  two requests; one attempt in the window; three commits, for instance a login, a
  refresh and a refresh of the same token.
- `detection`: one executor thread, so that a detection that does not end blocks the
  next; texts of up to two items per component and three per file reach truncation;
  encodings up to three deep against two passes; mails with attached files, mails with a
  second body of either kind, and mails forwarded with another as an attachment (`Files`
  are those of the scenarios and all that is attached in them, `Nesting` their depth, up
  to two); archives of up to three members and four levels against limits of two; calls
  with files that meet on the event loop; each line of a gateway's log may be refused.
  The subjects of mails
  are varied with few attachments only, since nothing relates the two, and archives that
  each hold one other all have one name. The scenarios are enumerated in `MCDetection`.

CHECK_DEADLOCK is off where the system may stop: a service that has exited,
bounded counters of inputs that have run out, an evaluation that is done.

### Fairness

Weak fairness is assumed of what the operating system or the event loop schedules
by itself, and never of users, administrators, programs or faults:

- `WriteVerdict`: the listener, the dialog's timer, `Tick`, the driver's timeout,
  the steps of a stop, detached threads. The user need not answer, which
  `StopCompletes` relies on not being needed. One wait of the code is not in the timers:
  DetectContent first waits for `stub_mutex_` (grpc_client.cpp:327) without a limit, and only
  its call has one. Each call made under the mutex has a deadline, so the wait ends unless
  an owner hangs, but several may come first: `TimersOutlastEachOther` bounds the writes
  that find the mutex free, and a stop when the owner hangs is the subject of `StopEnds` in
  `AgentService`.
- `AgentConnection`: the rounds of the heartbeat thread, the server's handlers and the
  second half of a restart. Strong fairness of `Look`, the watchdog's: it looks
  every 5 s, and a client in backoff stays in it for a sleep of up to 60 s, so it cannot
  be missed every time.
- `PolicySync`: a server's own tasks (start, subscribe, relay), each handler
  once it has committed, and an agent's loop, whose heartbeat thread sleeps and
  repeats without a condition. A dead listener is not revived, since nothing in the
  code does so. AgentsSettle is about agents that a balancer keeps at one server:
  when two servers' versions differ for good, an agent that alternates need not
  settle.
- `AgentService`: main thread, watchdog and each component's thread in set-up or in its
  loop. A thread stuck in a mutex has no step, fair or not. Remote scans are not fair.
- `Discover`: each handler, each agent's heartbeat and the receipt of its answer, each
  scan thread. Triggers, updates and periodic scans are not fair.
- `Detection`: what the event loop does when it is free (a handler begins, a result is
  answered, a timeout fires), and that a handler without a file goes on. Of the engine and
  of the inspection of files nothing is assumed: either may run for ever, the latter with
  the loop, which EveryCallIsAnswered excepts.

## 4. Theorems

Checked by TLAPS for every value of the constants that the modules' named
assumptions allow (numbers are natural, special values are not ordinary ones).
TLC evaluates the same assumptions in each run.

| Module | Theorem | States |
|---|---|---|
| `WritePath_proofs` | TypeCorrect, SizeIsBounded | `QueueSpec => []QueueTypeOK`, `QueueSpec => []SizeBound` |
| | SnapshotsStayValid | `QueueSpec => []SnapshotNamesSameIncident` |
| | NoLoss | `QueueSpec => []NothingVanishes` |
| | EvictionPays | `QueueSpec => EvictionPaysForInsert` |
| | Refinement | `QueueSpec => ImplementsDurableQueue` |
| | RecordsMatch | `Spec => []RecordsMatchOutcomes` |
| | StopWaits | `Spec => StopWaitsForDecision` |
| | TimersOutlast | `Spec => TimersOutlastEachOther`, if WaitLimit < DriverTimeout |
| `PolicySync_proofs` | TypeCorrect | `Spec => []TypeOK` |
| | PullsCover | `Spec => []PullCoversAnnouncement` |
| | GapsHeal | `Spec => []NextEventHealsGap` |
| | BusesGrow | `Spec => BusNeverGoesBack` |
| `Policies_proofs` | Tables | `Spec => []TablesAreSound` |
| | StreamsAgree | `Spec => []SettledStreamsAgree` |
| | OnlyActivate | `Spec => OnlyActivateActivates` |
| `Access_proofs` | RegistrySound | `Spec => []RegistryIsSound` |
| | GuessesBounded | `SessionsSpec => []GuessesAreBounded` |
| | SessionsRotate | `SessionsSpec => []SessionsFollowLogins` |
| | LoginsProven | `SessionsSpec => LoginsAreProven` |
| | CredentialsStayCurrent | `SessionsSpec => []CredentialsAreCurrent` |
| `Agent_proofs` | FlagsAreRight | `Spec => []FlagsTellTheThreads` |
| | ServerRulesAreAlternatives | `EvaluationSpec => []RulesAreAlternatives` |
| | ExceptionsRemove | `EvaluationSpec => []ExceptionsOnlyRemove` |
| | AgentNoLaxer | `EvaluationSpec => []AgentIsNoLaxer` |
| | SeverityIsRight | `EvaluationSpec => []SeverityFollowsMatches` |
| `Discover_proofs` | TypeCorrect | `Spec => []TypeOK` |
| | StartedOnce | `Spec => []DeliveredOnce` |
| | NeverBeforeCommit | `Spec => []TriggeredFirst` |
| | ScansExact | `Spec => []UndisturbedScanIsExact` |
| `Incidents_proofs` | TablesSound | `Spec => []TablesAreSound` |
| | HistoryReplays | `Spec => []HistoryReplaysTheRow` |
| | AuditTells | `Spec => []AuditTellsTheChanges` |
| | EventsTell | `Spec => []EventsTellTheRow` |
| | RetriesCounted | `Spec => []RetriesAreCounted` |
| `Detection_proofs` | VerdictsFollow | `Spec => []VerdictFollowsContent` |
| | Enforcement | `Spec => []EnforcedAsRecorded` |
| | AnalyzersSound | `Spec => []AnalyzersAreRight` |
| | FingerprintsKept | `Spec => []FingerprintsStay` |
| | ArchiveInspected | `ArchiveSpec => []InspectionIsSound` |

So every safety and action property that a run checks is a theorem.

**Incident queue.** The checked invariants are not inductive alone. `QueueInv` in
`WritePath_proofs` adds that rowids are unique in the table (UniqueIds) and that
none in use lies beyond `lastId` (Fresh), without which an insertion could reuse
an id that Peek has handed out; that an Enqueue between its two commits has an open
database and still no duplicate in the table (Pending), which is what the mutex is
for; and that `missed` counts faults only. The bound on the size has an invariant
of its own, with the finiteness of the table. The refinement maps a row to itself
without its retry counter; each commit that evicts is a Drop, each that inserts an
Accept, and everything the consumer does a Hand or a stutter.

**Write verdicts.** A reply can only be matched to its write if no request is in the
inbox twice and none that is there is being decided (Requests), and if the verdict
about to be sent is the decision of the current request while no other request with a
decision still waits (Decisions). The stop rests on the callback lock (Lifecycle): once
the callback is cleared, the listener is outside of it. The timers (Timers) bound the
clock by the phase the listener is in; that the driver outwaits the agent is the
theorem's assumption, which the constants of the code satisfy (125 s against 150 s).

**Agent registry.** Ids are never given twice. What a registration has read of its
hostname is at most one row, and all that is left of the ids its agent has had (Seen);
it stays true until the commit unless another registration of the hostname is between
its read and its commit, which is what `overlapped` records (Alone, OneRow).

**Policy distribution.** Versions are lengths of sequences, so the invariant relates
every version in the system to what Redis counted: a bridged bus holds a prefix
(BusPrefixes), what is counted or yet to be counted is no more than the commits
(Counted), nothing is counted before its commit (Committed), and the highest version
published to a server has reached its bus or is in its inbox (Heard).

**Policies.** The tables need that rows have ids given out and parts given out, each
part once (Owned), and that a request that was alone with its policy still finds the
status it loaded (Loads), without which `Written` could skip a write that is audited.
That a version is a published commit needs the finite set of requests about to
publish (Counted). For the stream, `Told` says of each policy that the copy agrees with the
table, or something will tell of it: an event in the queue or about to be published,
an unsent entry of the synchronisation with the row of today, or a version the
subscriber lacks, which its next synchronisation notices. It needs the queue to be in
the order of versions, all beyond what the subscriber holds (Queue), and that a policy
with a removal on its way stays removed (Removals).

**Sessions.** Four arguments over one invariant of types (Shape) and of rows that are
never deleted (RowsExist). *Guesses*: a failure is recorded by a request that was in
flight, and one begins only below the limit, so failures and requests in flight grow
together only there. *Rotation*: the live sessions of a login and its refreshes between
revoking and inserting are counted together; a refresh that revokes a live session
moves it from one set to the other, and one that revokes a dead one is what `forks`
counts. No other commit raises the sum, and a logout or crash that lowers it to zero is
in `closed` or `broken`. *Logins and roles*: what a request or challenge carries is
still in the row, or the commit that changed the row has marked it as old
(Current). *MFA*: the one MFA request of a user whose requests have never met finds the
row at its commit as it has read it (OneByOne), so that enrolment never replaces
a secret that is in use.

**Agent lifecycle.** The two threads of the service share nothing but the component
list under its mutex; the invariant (`AgentInv`) says where both can be at once and at
which component (Positions), that a component's thread at work has its flag set
unless one of the two waits for that thread to end (Flags), and how far starting and
stopping have come (Phases): behind the index of a stop, nothing runs. The watchdog
cannot start anything there, since it has been joined before the first stop; this is
the step a detached watchdog would break. A component whose Start can fail is up
as long as the watchdog is there, and healthy when it is up, so TransitionToLogOnly is
never reached: what is restarted without end, a scanner without directories, cannot fail
its Start. A thread stuck in a mutex keeps its component's flag, or the waiting Stop,
as a thread at work does, so that nothing is said to have stopped because of it.

**Policy evaluation.** There is one step, so the theorems are about the operators:
lemmas give the server's evaluator without its intermediate definitions
(ServerLeaves) and show that a condition both evaluators can express holds for
the agent whenever it holds for the server (SharedCondition). The severity is a CHOOSE
over the tiers reached, one of which is the highest because their minima are bounded
by the number of matches. Rules and detection results are assumed to be finite, and
tiers to be integers.

**Discover.** A command has an id. The invariant (`Inv` in `Discover_proofs`) says
that at any time an id is in one place only: a handler, one position of one key's
queue, one position of one agent's answer, or started; that no agent has started it
before the last of these, and each at most once from then on; and that from the commit on
its scan is not pending. It is needed since `started <= 1` alone says nothing of an id
that is queued twice. The steps that move a command (EnqueueInv, HeartbeatInv, ReceiveInv) are
proved from facts about a sequence's positions; all steps of scan threads follow from
one lemma (ThreadsInv), because they neither create threads for new ids nor make
a scan pending. For the contents of a scan, `Exclusive` says of an agent whose scans have
not overlapped that one thread at most is between saving and restoring the settings,
that the settings are the ones its step expects, and that the counters hold
nothing but its own walk (OnCourse).

**Incidents.** The value of a field after n transactions is a CHOOSE over its writers
(ValueAt). The proofs replace it by a relation (Holds) that an induction over steps
can carry: a transaction either has no entry for the field (NoEntry) or is its new last
writer (NewEntry). The invariant says that rows, snapshots in flight, the archive and
the archive job's copies each hold the values of some point in the sequence (RowsReplay,
SnapsReplay, ArchiveReplays, MoveReplays), what history and audit entries were
computed from (Facts, Customs), what has been announced (Announced), and how retries
in flight bound the counter (Counts).

**Detection.** Most of what is proved here is about operators; the state machine
needs only five facts. What a gateway has noted and sent of a message is nothing until
its turn and all at once then (Gateways, with Logs, which says that the file has exactly
the incidents whose line was written), and it takes a message only when it is through
with all before it (Turns), so that both logs are in their order (InOrder): that gives
EnforcedAsRecorded. Every request has come to what its handler says of it, a finished one
not yet answered included (Results), which carries what is known of the operators into
the properties; one handler has the event loop, the one that is reading (LoopHeld); and a
thread is never given out twice (Threads), a detection that was given up keeping its own.

*Checksums.* Mod97 is the last of the remainders of the characters read so far
(Mod97Is), one step of which is injective in the remainder and the character, since 97 is
prime to 10 and 100 (NextDiffers): remainders that differ once differ to the end
(DifferentEnd). A swap of two neighbours is seen unless one is eleven times the other
(`Alike`): 1B and B1 leave the same remainder. That exception came out of the
proof; the instance had no such IBAN. Luhn and ABA sums change by the terms of one digit.

*Encodings.* One pass of the normaliser takes off at least one encoding of each item and
leaves one pass fewer (PassTakesOff), so after as many passes as PassesFor counts an item
is plain in some variant (LeftAfter), whichever pass the normaliser stops at, for it stops
only where a pass changes nothing (NormalizeIs). Items of different fields are found in
different components (OneOwner), so the engine counts no fewer than there are
(CarriedCounts).

*Keywords and file types.* Which places a keyword can start at and what the stored case
hides is in WordHits and NearHits; a rule with one condition less still matches in
OneConditionLess.

*Verdicts.* What the inspector makes of a file is compared with what is in it: its
components tell nothing else (an item told is in the file or in one attached to it),
and all that is neither hidden nor in a body that was passed over, if none has a
note and it does not raise (Reported). This
is shown for one file from the files attached to it (InspectionIs, with ReadAre for what
each format reads), and for all by a least counterexample in `Nesting`. The note
that is missing below a mail is the reason why `Incomplete` looks into every file inside,
and an attached message the reason why it names those. `Inspect` and `Inside` are recursive
functions; that they are defined on every file, and by their own equation, is a theorem
(InspectIs, InsideIs) from the decrease of `Nesting`.

**Archive.** The walk's invariant (`WalkInv`) says that the open archives lie one in the
other with members still to be read (Nested); that, unless a limit has ended the
walk, every file is accounted for or lies in such a member (Covered), which the end of
the walk turns into EverythingIsAccountedFor; that no name on the way to what is open was
refused (Named); and that a stream whose content is not yet read has already been
counted (Counts, Reading), so that the file in it needs no count of its own. The bytes of
what has been inspected, summed from the tree by induction over the finite set of its
nodes, are no more than those counted, and these are checked before each file; two members
of one name, of which one is read twice, are the exception. Only the
members of zip, tar, 7z and rar are checked against `max_files`, not what a gzip or bzip2
stream gives: so one file is inspected even if `max_files` is 0 (`Most`), and streams in
streams take `files` past the limit, by one for each level at most.

**Fingerprints.** What was acknowledged is in memory and in the file, and what was
deleted is in neither (LibraryInv); a document is similar to itself at any threshold.

**Assumptions about what is detected.** Besides bounds, the modules assume that texts,
files and requests are what they are called (`IsText`, `IsFile`, `IsRequest`: digits are
digits, parts have a text and may be broken); that only mails have files attached and
that an HTML file has one text (`IsDocumentFile`); that what is attached to a file is less
deep (FilesAssumption); that trees of archives are finite and streams have one member
(TreesAssumption); and that the gateways are given one analyzer, of identifiers
(EngineAssumption; smtp_entry.py:85, mitmproxy_entry.py:28). TLC evaluates all of
them over every file, tree and request of the run.

**Only model-checked.** All liveness (StopCompletes, AgentsComeBack, AgentsSettle,
StopEnds, UnhealthyIsRestarted, BroadcastsAreRun, EveryCallIsAnswered), which is beyond
the prover.

## 5. Where code and documents disagree

Shown by the run `discover_delivery`: commands are queued under a UUID and drained
under its text, so a command for an assigned agent is never delivered
(command_queue.py:3-4).

Stated at the end of the modules as what the documents say, and violated: adding
the name as an INVARIANT (PROPERTY for the temporal BroadcastsReachAll and
CheckedBeforeExtraction) to the module's cfg shows the behaviour.

- `UnansweredIsBlocked` (`WriteVerdict`): a write whose dialog had to wait for
  another's is allowed when the driver's 150 s are over, while its own dialog is on
  the screen (user_cancel.h:9-11: without an answer it is blocked;
  akeso_dlp_filter.c:830: long enough for UserCancel dialogs).
- `BroadcastsReachAll` (`Discover`): "If agent_id is None, broadcast to all agents"
  (command_queue.py:28; api/discover.py:173: "None = broadcast to all agents"), but the
  first heartbeat of any agent pops all broadcasts (command_queue.py:41), and no other
  agent ever gets them. The passing DeliveredOnce is about each agent by itself, and
  BroadcastsAreRun about completion by some agent. It is violated with two agents, one
  trigger and no fault, and holds with one agent.
- `StaleAgentsAreFlagged` (`PolicySync`): GetPolicies reads the policies, then the
  version; a change in between gives the agent a version whose change it lacks, and
  nothing makes it pull again before the next change (REQUIREMENTS.md:414).
- `RestartDoesNotCrash` (`AgentService`): restarting a monitor whose thread has given
  up assigns to a joinable `std::thread` (agent_service.cpp:371 wants log-only mode).
- `Parity` (`PolicyEvaluation`): the agent counts matches that only a rule that does
  not hold asks for (policy_evaluator.cpp:5 and REQUIREMENTS.md:857 promise the
  same result as the server's).
- `CheckedBeforeExtraction` (`Archive`): gzip and bzip2 streams are decompressed whole
  before their ratio and size are checked (archive_inspector.py:381-384, 402-405), and a
  7z is extracted to disk before the first check of any member (:428). The limits so bound
  what is inspected, not what is held (archive_inspector.py:1-11: "safety controls to
  prevent zip bombs and resource exhaustion").
- `ModifiedMailsAreMarked` (`Detection`): a mail whose incident says "modify" is
  forwarded as it came (smtp_prevent.py:5 promises headers and a marked subject).

Met while reading, in the models where they matter:

*Agent*

- A driver listener that exits leaves `running_` and `connected_` as they were and
  is not restarted (driver_comm.cpp:125).
- A monitor stopped during set-up is never told to quit, and Stop waits for it
  (clipboard_monitor.cpp:95; `Deaf` in `AgentService`).
- Launched by the service manager, the service never starts its components
  (main.cpp:515).
- Nothing calls the transition to enforcing mode when policies arrive:
  `policy_callback_` is never set (grpc_client.cpp:278).
- A heartbeat that is told of a newer version pulls with `stub_mutex_` held
  (grpc_client.cpp:516).
- `Connect` always succeeds, so the exponential backoff (REQUIREMENTS.md:410) never
  takes place.
- `count_lte` with a maximum of 0 has no limit according to policy_evaluator.h:98
  and requires no match at all in policy_evaluator.cpp:142.
- With several violated policies only the worst one's response counts
  (pipeline.cpp:350).
- A scanner that is enabled without directories reports a successful Start without
  starting its thread (discover_scanner.cpp:65), is unhealthy (:101), and is restarted by
  the watchdog for ever (`Idle` in `AgentService`).
- A remote scan on a scanner that is not running reports completion with no file
  (discover_scanner.cpp:153); a scan without file extensions goes by the agent's own
  (:199); a remote scan shares the cache of the incremental periodic scan and skips what
  that has seen; a report that fails is not repeated (main.cpp:498). The server sends path
  exclusions (api/discover.py:168-170) and the agent does not read them
  (main.cpp:476-485); the recursive flag and the number of violations are never conveyed.
- A heartbeat thread that hangs at `stub_mutex_` looks healthy to the watchdog, and no
  stop of the client, nor of the service, ever returns (grpc_client.cpp:90; `Hung` in
  `AgentService`).
- Nothing drains the incident queue: incidents of the agent do not reach the
  server (incident_queue.cpp:281; REQUIREMENTS.md:410).

*Policies, agents, incidents on the server*

- A lost Redis connection ends the listener task for good (policy_events.py:139); an
  event between the version read and the subscription is missed until the next one
  (policy_events.py:185).
- Two rows of one hostname make Register fail for every agent of it until one row is
  deleted (`scalar_one_or_none`); no code sets an agent's status to anything but
  online, so an agent that is gone stays online (REQUIREMENTS.md:414). Deleting an
  agent detaches its incidents and scans (ON DELETE SET NULL).
- Removing a rule finds it by its own id whatever policy the URL names; audit entry
  and event are about the wrong policy. An update to null is audited and not written.
  A policy with a response rule is never sent by the stream.
- A server policy whose conditions are all `not_matches` is never violated; an exception
  raised while the server's evaluator looks at one policy leaves that policy
  unviolated (policy_evaluator.py:493).
- Smart responses are not audited: their entry is added after the last commit. Custom
  attributes are accepted, audited and never stored. The archive job imports `async_session_factory`
  (tasks/archive_job.py:33), which server/database.py does not define, and so ends in an
  ImportError before it copies anything; `Incidents` models the copy it would make.
  An update between the two
  statements of the archive job is lost; archiving deletes history and notes with the
  row; a PATCH with nothing to write on a row archived meanwhile commits its audit entry
  and then fails. Overlapping retries of a dead letter count once.
- `ensure_partitions` always rolls back (incidents is not a partitioned table), and
  REINDEX CONCURRENTLY always fails inside its transaction.

*Detection and gateways*

- Both gateway entry points construct `DataIdentifierAnalyzer` without its required
  arguments (smtp_entry.py:85, mitmproxy_entry.py:28) and end with a TypeError; the
  handlers are modelled as the tests use them.
- Only the data identifier analyzer has callers in the server (three identifiers over
  gRPC, eight in the API). Keyword, regular expression, file type and fingerprint
  analyzers, the archive inspector and the policy evaluator are used by tests; an
  archive sent to DetectContent is an unknown binary and allowed.
- Of a mail one body is read, plain text if there is any (file_inspector.py:354): what is
  only in the HTML next to it is allowed as clean, without a note.
- Attached messages (message/rfc822) are not read; `result.errors` is ignored by
  DetectContent and both gateways; that a file was read in part is noted in metadata of
  its component that no caller looks at.
- The HTTP gateway's log file always says "log"; an incident whose line cannot be written
  stays in the gateway's memory only (smtp_monitor.py:263-267, http_monitor.py:135-138);
  `default_action` is the "Action when matches are below modify_threshold"
  (smtp_prevent.py:63), but is taken at and above it, and below it the action is to log
  (smtp_prevent.py:107-110); a mail whose forwarding fails is still
  answered 250; what is plain next to something encoded counts once per variant.
- A proximity rule with case finds lower-case keywords only. A bzip2 stream is
  recognised by its suffix only (the magic is compared with five bytes). A chardet
  encoding that Python does not know raises in `_extract_text`. The similarity threshold
  of 0.40 accepts much unrelated text.
- A detection that is given up keeps its executor thread. Files are inspected on the event
  loop (grpc_server.py:528, api/detection.py:279), where the API also detects
  (api/detection.py:239): meanwhile no call is answered and no timeout fires, and the
  inspection is not in the timeout of DetectContent. When a timeout meets a result the loop
  has not seen, which of them wins depends on the version of Python's `wait_for`.
  A torn fingerprint file is read as empty on restart and overwritten by the
  next change.

## 6. Not modelled

PROJECT.json lists every component with the reason. In short: the agent's own text
processing (detectors, extractors), which is sequential and where tests reach;
system calls (access rights, windows, trace sessions, quarantine moves, tamper
protection); the agent's policy cache, which nothing writes; the gRPC rate limiter,
which decides in one synchronous call and whose idle buckets are kept (refill is lazy,
so the clean-up's condition never holds); the shutdown coordinator, which awaits
its handlers in order; single-row edits and queries of the REST endpoints, reports,
risk scores and notifications; the console; scripts, migrations and generated code.
Inside the modelled components:

- SQLite, PostgreSQL, Redis, gRPC and the kernel's filter manager appear by what the
  code can see of them: a commit is atomic and durable or refused, a published message
  reaches current subscribers in order, a call may fail before or after it was served.
- Messages are abstracted to the fields that decide control flow; names and hashes
  are model values, texts sequences of recognised items.
- Time appears as ticks only where timeouts race (`WriteVerdict`); elsewhere a
  timeout is a step that may happen. Tokens do not expire in `Sessions`: a token that
  is still there only allows more.
- One archive job runs at a time.

## 7. What is left

- `Policies` with the Redis bridge of `PolicySync` in place of the in-process bus.
- The browser monitor's cooldown and the clipboard path of the pipeline; the
  shutdown coordinator within its timeout; the gRPC rate limiter over integer time.
- A consumer of the incident queue and the sender of ReportIncident, once the agent
  has one.
