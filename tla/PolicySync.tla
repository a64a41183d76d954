------------------------------ MODULE PolicySync ------------------------------
(***************************************************************************)
(* How a committed policy change reaches an agent: the REST handlers that  *)
(* commit it and then publish an event (server/api/policies.py), the       *)
(* version counter and channel in Redis, each server's event bus and the   *)
(* listener task that raises its version (server/policy_events.py), the    *)
(* Heartbeat and GetPolicies calls (server/grpc_server.py) and the agent's *)
(* heartbeat thread, which pulls when it is told to (grpc_client.cpp).     *)
(*                                                                         *)
(* Abstracted: a change is its number in the order of the commits, so the  *)
(* database is the number of changes committed and a policy set read from  *)
(* it is the number it had when read (the SELECTs of one get_active_       *)
(* policies are one read).  A version is the sequence of changes counted   *)
(* in it; the integer the code keeps is its length.  PolicyUpdates, the    *)
(* stream, is in module Policies.                                          *)
(* External: Redis, whose key survives a server and whose channel delivers *)
(* in order to those subscribed when a message is published.               *)
(***************************************************************************)
EXTENDS Naturals, Sequences, SequencesExt, FiniteSets

CONSTANTS
  Servers,         \* server processes that share a database and a Redis
  Agents,
  RelockOutcomes,  \* what locking a std::mutex one holds can do in this build
  MaxChanges,      \* bound: policy changes committed
  MaxFaults        \* bound: faults

ASSUME SyncAssumption ==
  /\ Servers # {}
  /\ RelockOutcomes \subseteq {"reenter", "hang"} /\ RelockOutcomes # {}
  /\ MaxChanges \in Nat /\ MaxFaults \in Nat

VARIABLES
  commits,   \* changes committed to the database
  handlers,  \* REST handlers that have committed and not yet published
  stamps,    \* the changes in the order of their INCRs; the Redis key is Len
  mode,      \* per server: down, bridged, inprocess
  ear,       \* per server: its listener task: none, scheduled, subscribed, dead
  inbox,     \* per server: messages its subscription has not yet relayed
  log,       \* per server: the changes counted in the version of its bus
  phase,     \* per agent: idle, pulling, reading, hung
  call,      \* per agent: the server of its call, the policies read there
  version,   \* per agent: policy_version_
  held,      \* per agent: the policies of its last GetPolicies response
  promised,  \* per agent: the changes counted in the version last announced
  reported,  \* per agent: policy_version of its row in the database
  route,     \* per agent: the servers its calls reach, one or, balanced, all
  heard,     \* history, per server: highest version published to it
  faults

redis == <<stamps, inbox, heard>>
server == <<mode, ear, log>>
agent == <<phase, call, version, held, promised, reported>>
vars == <<commits, handlers, redis, server, agent, route, faults>>

Up(s) == mode[s] # "down"
BusVersion(s) == Len(log[s])
Prefix(n) == SubSeq(stamps, 1, n)
Max2(m, n) == IF m < n THEN n ELSE m

Handler == [id : 1 .. MaxChanges, at : Servers, ver : 0 .. MaxChanges]

TypeOK ==
  /\ commits \in 0 .. MaxChanges
  /\ handlers \subseteq Handler
  /\ stamps \in Seq(1 .. MaxChanges)
  /\ mode \in [Servers -> {"down", "bridged", "inprocess"}]
  /\ ear \in [Servers -> {"none", "scheduled", "subscribed", "dead"}]
  /\ inbox \in [Servers -> Seq(1 .. MaxChanges)]
  /\ log \in [Servers -> Seq(1 .. MaxChanges)]
  /\ phase \in [Agents -> {"idle", "pulling", "reading", "hung"}]
  /\ call \in [Agents -> [at : Servers, policies : 0 .. MaxChanges]]
  /\ version \in [Agents -> 0 .. MaxChanges]
  /\ held \in [Agents -> 0 .. MaxChanges]
  /\ promised \in [Agents -> SUBSET (1 .. MaxChanges)]
  /\ reported \in [Agents -> 0 .. MaxChanges]
  /\ route \in [Agents -> (SUBSET Servers) \ {{}}]
  /\ heard \in [Servers -> 0 .. MaxChanges]
  /\ faults \in 0 .. MaxFaults

Init ==
  /\ commits = 0 /\ handlers = {} /\ stamps = <<>>
  /\ mode = [s \in Servers |-> "down"]
  /\ ear = [s \in Servers |-> "none"]
  /\ inbox = [s \in Servers |-> <<>>]
  /\ log = [s \in Servers |-> <<>>]
  /\ phase = [a \in Agents |-> "idle"]
  /\ call = [a \in Agents |-> [at |-> CHOOSE s \in Servers : TRUE, policies |-> 0]]
  /\ version = [a \in Agents |-> 0] /\ held = [a \in Agents |-> 0]
  /\ promised = [a \in Agents |-> {}] /\ reported = [a \in Agents |-> 0]
  /\ route \in [Agents -> {Servers} \cup {{s} : s \in Servers}]
  /\ heard = [s \in Servers |-> 0]
  /\ faults = 0

Fault == faults < MaxFaults /\ faults' = faults + 1

-------------------------------------------------------------------------------
(* A server's start and its listener task.                                 *)

\* lifespan and init_redis_bridge: take over the version kept in Redis, then
\* schedule the listener task, which has not subscribed yet.
Start(s) ==
  /\ mode[s] = "down"
  /\ mode' = [mode EXCEPT ![s] = "bridged"]
  /\ ear' = [ear EXCEPT ![s] = "scheduled"]
  /\ log' = [log EXCEPT ![s] = stamps]
  /\ UNCHANGED <<commits, handlers, redis, agent, faults>>

\* Redis is not there: events stay in the process and the version begins at 0.
StartWithoutRedis(s) ==
  /\ Fault
  /\ mode[s] = "down"
  /\ mode' = [mode EXCEPT ![s] = "inprocess"]
  /\ UNCHANGED <<commits, handlers, redis, ear, log, agent>>

Subscribe(s) ==
  /\ ear[s] = "scheduled"
  /\ ear' = [ear EXCEPT ![s] = "subscribed"]
  /\ UNCHANGED <<commits, handlers, redis, mode, log, agent, faults>>

\* The connection of the subscription fails: the exception ends the task and
\* nothing starts it again.
ListenerDies(s) ==
  /\ Fault
  /\ ear[s] \in {"scheduled", "subscribed"}
  /\ ear' = [ear EXCEPT ![s] = "dead"]
  /\ inbox' = [inbox EXCEPT ![s] = <<>>]
  /\ heard' = [heard EXCEPT ![s] = 0]
  /\ UNCHANGED <<commits, handlers, stamps, mode, log, agent>>

\* Mutant of Relay: the bus version is set to the event's.
RelayAssigns(s) ==
  /\ inbox[s] # <<>>
  /\ log' = [log EXCEPT ![s] = Prefix(Head(inbox[s]))]
  /\ inbox' = [inbox EXCEPT ![s] = Tail(@)]
  /\ UNCHANGED <<commits, handlers, stamps, heard, mode, ear, agent, faults>>

\* Mutant of Relay: the bus version is incremented once per event.
RelayIncrements(s) ==
  /\ inbox[s] # <<>>
  /\ log' = [log EXCEPT ![s] = IF Head(inbox[s]) > Len(@) THEN Prefix(Len(@) + 1) ELSE @]
  /\ inbox' = [inbox EXCEPT ![s] = Tail(@)]
  /\ UNCHANGED <<commits, handlers, stamps, heard, mode, ear, agent, faults>>

\* The listener task takes a message: the bus version is raised to the event's,
\* never lowered, and the event goes to the streams.
Relay(s) ==
  /\ inbox[s] # <<>>
  /\ log' = [log EXCEPT ![s] = IF Head(inbox[s]) > Len(@) THEN Prefix(Head(inbox[s])) ELSE @]
  /\ inbox' = [inbox EXCEPT ![s] = Tail(@)]
  /\ UNCHANGED <<commits, handlers, stamps, heard, mode, ear, agent, faults>>

\* A crash or a shutdown; calls and handlers in progress at the server end.
Crash(s) ==
  /\ Fault
  /\ Up(s)
  /\ mode' = [mode EXCEPT ![s] = "down"]
  /\ ear' = [ear EXCEPT ![s] = "none"]
  /\ log' = [log EXCEPT ![s] = <<>>]
  /\ inbox' = [inbox EXCEPT ![s] = <<>>]
  /\ heard' = [heard EXCEPT ![s] = 0]
  /\ handlers' = {h \in handlers : h.at # s}
  /\ phase' = [a \in Agents |-> IF phase[a] = "reading" /\ call[a].at = s
                                THEN "idle" ELSE phase[a]]
  /\ UNCHANGED <<commits, stamps, call, version, held, promised, reported>>

-------------------------------------------------------------------------------
(* The REST handlers: db.commit(), then publish_policy_event().            *)

Commit(s) ==
  /\ Up(s)
  /\ commits < MaxChanges
  /\ commits' = commits + 1
  /\ handlers' = handlers \cup {[id |-> commits + 1, at |-> s, ver |-> 0]}
  /\ UNCHANGED <<redis, server, agent, faults>>

\* Without a bridge the version is incremented and the event queued in one step.
PublishInProcess(h) ==
  /\ mode[h.at] = "inprocess"
  /\ log' = [log EXCEPT ![h.at] = Append(@, h.id)]
  /\ handlers' = handlers \ {h}
  /\ UNCHANGED <<commits, redis, mode, ear, agent, faults>>

\* Mutant of Count: INCR is sent again after a lost answer.
CountTwice(h) ==
  /\ mode[h.at] = "bridged" /\ h.ver = 0
  /\ stamps' = Append(Append(stamps, h.id), h.id)
  /\ handlers' = (handlers \ {h}) \cup {[h EXCEPT !.ver = Len(stamps')]}
  /\ UNCHANGED <<commits, inbox, heard, server, agent, faults>>

\* RedisEventBridge.publish_event, first await: INCR.
Count(h) ==
  /\ mode[h.at] = "bridged" /\ h.ver = 0
  /\ stamps' = Append(stamps, h.id)
  /\ handlers' = (handlers \ {h}) \cup {[h EXCEPT !.ver = Len(stamps')]}
  /\ UNCHANGED <<commits, inbox, heard, server, agent, faults>>

\* Second await: PUBLISH to whoever is subscribed now.
Publish(h) ==
  /\ h.ver # 0
  /\ LET Hears(s) == ear[s] = "subscribed"
     IN  /\ inbox' = [s \in Servers |-> IF Hears(s) THEN Append(inbox[s], h.ver) ELSE inbox[s]]
         /\ heard' = [s \in Servers |-> IF Hears(s) THEN Max2(heard[s], h.ver) ELSE heard[s]]
  /\ handlers' = handlers \ {h}
  /\ UNCHANGED <<commits, stamps, server, agent, faults>>

\* Either await raises: the request answers 500, the change stays committed.
PublishFails(h) ==
  /\ Fault
  /\ mode[h.at] = "bridged"
  /\ handlers' = handlers \ {h}
  /\ UNCHANGED <<commits, redis, server, agent>>

-------------------------------------------------------------------------------
(* The agents.                                                             *)

\* A heartbeat that succeeds.  Told of a newer version the heartbeat thread
\* calls PullPolicies, which locks the stub_mutex_ that the thread holds.
Heartbeat(a, s) ==
  /\ phase[a] = "idle" /\ Up(s)
  /\ reported' = [reported EXCEPT ![a] = version[a]]
  /\ IF version[a] < BusVersion(s)
     THEN /\ promised' = [promised EXCEPT ![a] = ToSet(log[s])]
          /\ \E o \in RelockOutcomes :
               phase' = [phase EXCEPT ![a] = IF o = "hang" THEN "hung" ELSE "pulling"]
     ELSE UNCHANGED <<promised, phase>>
  /\ UNCHANGED <<commits, handlers, redis, server, call, version, held, faults>>

\* Mutant of ReadPolicies: it answers from a cache filled earlier.
ReadCached(a, s) ==
  /\ phase[a] = "pulling" /\ Up(s)
  /\ phase' = [phase EXCEPT ![a] = "reading"]
  /\ \E n \in held[a] .. commits : call' = [call EXCEPT ![a] = [at |-> s, policies |-> n]]
  /\ UNCHANGED <<commits, handlers, redis, server, version, held, promised, reported, faults>>

\* GetPolicies: the policies are read from the database ...
ReadPolicies(a, s) ==
  /\ phase[a] = "pulling" /\ Up(s)
  /\ phase' = [phase EXCEPT ![a] = "reading"]
  /\ call' = [call EXCEPT ![a] = [at |-> s, policies |-> commits]]
  /\ UNCHANGED <<commits, handlers, redis, server, version, held, promised, reported, faults>>

\* Mutant of Answer: PullPolicies does not take the version of the response.
AnswerWithoutVersion(a) ==
  /\ phase[a] = "reading" /\ Up(call[a].at)
  /\ held' = [held EXCEPT ![a] = call[a].policies]
  /\ phase' = [phase EXCEPT ![a] = "idle"]
  /\ UNCHANGED <<commits, handlers, redis, server, call, version, promised, reported, faults>>

\* ... and the version from the bus when the response is built.
Answer(a) ==
  /\ phase[a] = "reading" /\ Up(call[a].at)
  /\ version' = [version EXCEPT ![a] = BusVersion(call[a].at)]
  /\ held' = [held EXCEPT ![a] = call[a].policies]
  /\ phase' = [phase EXCEPT ![a] = "idle"]
  /\ UNCHANGED <<commits, handlers, redis, server, call, promised, reported, faults>>

\* The call fails or its answer is lost; the next heartbeat decides again.
PullFails(a) ==
  /\ Fault
  /\ phase[a] \in {"pulling", "reading"}
  /\ phase' = [phase EXCEPT ![a] = "idle"]
  /\ UNCHANGED <<commits, handlers, redis, server, call, version, held, promised, reported>>

\* policy_version_ and the pulled policies are in memory only.
AgentRestarts(a) ==
  /\ Fault
  /\ phase' = [phase EXCEPT ![a] = "idle"]
  /\ version' = [version EXCEPT ![a] = 0]
  /\ held' = [held EXCEPT ![a] = 0]
  /\ promised' = [promised EXCEPT ![a] = {}]
  /\ UNCHANGED <<commits, handlers, redis, server, call, reported>>

-------------------------------------------------------------------------------
Serve(s) == Start(s) \/ Subscribe(s) \/ Relay(s)
Handle(h) == PublishInProcess(h) \/ Count(h) \/ Publish(h)
Sync(a) == (\E s \in route[a] : Heartbeat(a, s) \/ ReadPolicies(a, s)) \/ Answer(a)

Step ==
  \/ \E s \in Servers : Serve(s) \/ Commit(s)
  \/ \E h \in handlers : Handle(h) \/ PublishFails(h)
  \/ \E s \in Servers : StartWithoutRedis(s) \/ ListenerDies(s) \/ Crash(s)
  \/ \E a \in Agents : Sync(a) \/ PullFails(a) \/ AgentRestarts(a)

\* How an agent is configured stays as it is.
Next == Step /\ UNCHANGED route

Spec == Init /\ [][Next]_vars

\* A server runs its tasks, a handler goes on, an agent's thread keeps beating.
FairSpec ==
  /\ Spec
  /\ \A s \in Servers : WF_vars(Serve(s) /\ UNCHANGED route)
  /\ \A s \in Servers, n \in 1 .. MaxChanges :
       WF_vars(\E h \in handlers : h.at = s /\ h.id = n /\ Handle(h) /\ UNCHANGED route)
  /\ \A a \in Agents : WF_vars(Sync(a) /\ UNCHANGED route)

-------------------------------------------------------------------------------
(* Properties.                                                             *)

\* Whatever an agent pulls contains every change counted in the version that
\* made it pull: a version is announced only for changes already committed, and
\* GetPolicies reads the database afresh (publish_policy_event after commit).
PullCoversAnnouncement ==
  \A a \in Agents : phase[a] = "reading" => promised[a] \subseteq 1 .. call[a].policies

\* Events may be published in another order than they were counted, two awaits
\* apart; a running server's version never goes back for it.
BusNeverGoesBack ==
  [][\A s \in Servers : mode[s] = "bridged" /\ mode'[s] = "bridged"
                          => IsPrefix(log[s], log'[s])]_vars

\* A message that was missed, for want of a subscription or because PUBLISH
\* failed after INCR, is made up for by the next one that arrives: once relayed,
\* the bus counts all that Redis counted until then.
NextEventHealsGap ==
  \A s \in Servers : inbox[s] = <<>> => heard[s] <= BusVersion(s)

\* As long as the server runs, an agent that is connected to it comes to hold its
\* version or a higher one, whatever calls fail on the way, unless its heartbeat
\* thread hangs in the lock it holds.  (Balanced over servers whose versions differ
\* for good, it may be told of the one and pull from the other for ever.)
AgentsSettle ==
  \A a \in Agents, s \in Servers :
    route[a] = {s} => []<>(version[a] >= BusVersion(s) \/ phase[a] = "hung")

\* The server can detect a stale agent: one that has reported the server's
\* version, or a higher one, holds every change counted in it.
StaleAgentsAreFlagged ==
  \A a \in Agents, s \in Servers :
    phase[a] = "idle" /\ reported[a] = version[a] /\ version[a] >= BusVersion(s)
      => ToSet(log[s]) \subseteq 1 .. held[a]
===============================================================================
