--------------------------- MODULE AgentConnection ---------------------------
(***************************************************************************)
(* How an agent gets and keeps its row in the server's registry: the       *)
(* heartbeat thread of GrpcClient (agent/src/grpc_client.cpp), the         *)
(* watchdog that restarts the client (agent_service.cpp), and on the       *)
(* server Register and Heartbeat (grpc_server.py, services/                *)
(* agent_service.py) and the deletion of an agent (api/agents.py).         *)
(*                                                                         *)
(* A handler reads in one await and commits in another; the deadline of    *)
(* its call cancels it.  A call that fails, from loss, its deadline or a   *)
(* crash of the server, may or may not have been committed.                *)
(*                                                                         *)
(* Abstracted: of a row its id and hostname; of time that the watchdog     *)
(* looks every 5 s and the heartbeat thread sleeps for up to 60 s between  *)
(* its rounds, which is fairness here.  Connect always succeeds, since a   *)
(* channel is never null, so the backoff of the thread is never waited     *)
(* for.  Pulling policies and commands are in PolicySync and Discover.     *)
(***************************************************************************)
EXTENDS Naturals, FiniteSets, TLC

CONSTANTS
  Agents, Hosts,
  Host,        \* the hostname of each agent's machine: cloned machines share one
  MaxRows,     \* bound: rows ever inserted
  MaxDeletes,  \* bound: deletions by administrators
  MaxFaults    \* bound: failed calls and restarts of agents

ASSUME ConnectionAssumption ==
  /\ Host \in [Agents -> Hosts]
  /\ MaxRows \in Nat /\ MaxDeletes \in Nat /\ MaxFaults \in Nat

VARIABLES
  table,       \* the table agents: hostname by id
  next,        \* the next id to be given
  thread,      \* heartbeat thread: sleeping, connecting, calling or ended
  call,        \* its call: NoCall or [op, at, seen]
  conn,        \* conn_state_
  registered,  \* registered_
  agentId,     \* agent_id_
  dog,         \* the watchdog: watching, or stopping the client
  had,         \* history: ids that an agent was given
  overlapped,  \* history: hostnames whose registrations met on the server
  deletes, faults

agent == <<thread, call, conn, registered, agentId, dog, had>>
vars == <<table, next, agent, overlapped, deletes, faults>>

NoId == 0
NoCall == [op |-> "none", at |-> "none", seen |-> {}]
Sent(op) == [op |-> op, at |-> "sent", seen |-> {}]
Is(a, op, at) == thread[a] = "calling" /\ call[a].op = op /\ call[a].at = at

Init ==
  /\ table = << >> /\ next = 1
  /\ thread = [a \in Agents |-> "sleeping"] /\ call = [a \in Agents |-> NoCall]
  /\ conn = [a \in Agents |-> "connected"] /\ registered = [a \in Agents |-> FALSE]
  /\ agentId = [a \in Agents |-> NoId] /\ dog = [a \in Agents |-> "watching"]
  /\ had = [a \in Agents |-> {}] /\ overlapped = {}
  /\ deletes = 0 /\ faults = 0

Fault == faults < MaxFaults /\ faults' = faults + 1
ServerUnchanged == UNCHANGED <<table, next, overlapped, deletes>>

-----------------------------------------------------------------------------
(* The heartbeat thread, one round of its loop.                            *)

\* What a connected thread does: it registers if needed, then sends its heartbeat.
Calls(a) ==
  /\ thread' = [thread EXCEPT ![a] = "calling"]
  /\ call' = [call EXCEPT ![a] = Sent(IF registered[a] THEN "heartbeat" ELSE "register")]

\* The sleep is over and the client was not told to stop.
Wake(a) ==
  /\ thread[a] = "sleeping" /\ dog[a] = "watching"
  /\ IF conn[a] = "connected" THEN Calls(a) /\ UNCHANGED conn
     ELSE /\ thread' = [thread EXCEPT ![a] = "connecting"]
          /\ conn' = [conn EXCEPT ![a] = "connecting"] /\ UNCHANGED call
  /\ ServerUnchanged /\ UNCHANGED <<registered, agentId, dog, had, faults>>

\* Connect has made a stub, whether or not the server could be reached.
Connected(a) ==
  /\ thread[a] = "connecting"
  /\ conn' = [conn EXCEPT ![a] = "connected"] /\ Calls(a)
  /\ ServerUnchanged /\ UNCHANGED <<registered, agentId, dog, had, faults>>

\* EnterBackoff, and the next round.  registered_ and agent_id_ stay as they are.
Failed(a) ==
  /\ conn' = [conn EXCEPT ![a] = "backoff"]
  /\ thread' = [thread EXCEPT ![a] = "sleeping"] /\ call' = [call EXCEPT ![a] = NoCall]
  /\ UNCHANGED <<registered, agentId, dog, had>>

\* Loss, deadline or crash of the server, before or after the commit.
CallFails(a) == Fault /\ thread[a] = "calling" /\ Failed(a) /\ ServerUnchanged

\* The answer to Register arrives; the heartbeat follows in the same round.
Registered(a) ==
  /\ Is(a, "register", "answered")
  /\ \E i \in call[a].seen :
       /\ agentId' = [agentId EXCEPT ![a] = i]
       /\ had' = [had EXCEPT ![a] = @ \cup {i}]
  /\ registered' = [registered EXCEPT ![a] = TRUE]
  /\ call' = [call EXCEPT ![a] = Sent("heartbeat")]
  /\ ServerUnchanged /\ UNCHANGED <<thread, conn, dog, faults>>

-----------------------------------------------------------------------------
(* The server.                                                             *)

Named_(h) == {}  \* a mutant: every registration is taken for a new agent
\* The rows of a hostname, which the table does not keep from being several.
Named(h) == {i \in DOMAIN table : table[i] = h}

\* register_agent: scalar_one_or_none raises if there are two rows.
RegisterReads(a) ==
  /\ Is(a, "register", "sent")
  /\ LET rows == Named(Host[a]) IN
       IF Cardinality(rows) > 1 THEN Failed(a) /\ UNCHANGED overlapped
       ELSE /\ call' = [call EXCEPT ![a] = [op |-> "register", at |-> "read", seen |-> rows]]
            /\ overlapped' = IF \E b \in Agents \ {a} : Host[b] = Host[a] /\ Is(b, "register", "read")
                             THEN overlapped \cup {Host[a]} ELSE overlapped
            /\ UNCHANGED <<thread, conn, registered, agentId, dog, had>>
  /\ UNCHANGED <<table, next, deletes, faults>>

\* An insertion, or the update of the row that was read, which fails if that has been
\* deleted since; and the commit.
RegisterCommits(a) ==
  /\ Is(a, "register", "read")
  /\ LET Answers(i) == /\ call' = [call EXCEPT ![a] = [op |-> "register", at |-> "answered", seen |-> {i}]]
                       /\ UNCHANGED <<thread, conn, registered, agentId, dog, had>>
     IN \/ /\ call[a].seen = {} /\ next <= MaxRows
           /\ table' = [i \in DOMAIN table \cup {next} |-> IF i = next THEN Host[a] ELSE table[i]]
           /\ next' = next + 1
           /\ Answers(next)
        \/ /\ call[a].seen # {} /\ UNCHANGED <<table, next>>
           /\ IF call[a].seen \subseteq DOMAIN table THEN \E i \in call[a].seen : Answers(i)
              ELSE Failed(a)
  /\ UNCHANGED <<overlapped, deletes, faults>>

\* heartbeat: the row by its id, or NOT_FOUND.
HeartbeatReads(a) ==
  /\ Is(a, "heartbeat", "sent")
  /\ IF agentId[a] \in DOMAIN table
     THEN /\ call' = [call EXCEPT ![a].at = "read"]
          /\ UNCHANGED <<thread, conn, registered, agentId, dog, had>>
     ELSE Failed(a)
  /\ ServerUnchanged /\ UNCHANGED faults

\* The update and its commit, and the answer: the round is over.
HeartbeatCommits(a) ==
  /\ Is(a, "heartbeat", "read")
  /\ IF agentId[a] \in DOMAIN table
     THEN /\ thread' = [thread EXCEPT ![a] = "sleeping"] /\ call' = [call EXCEPT ![a] = NoCall]
          /\ conn' = [conn EXCEPT ![a] = IF @ = "backoff" THEN "connected" ELSE @]
          /\ UNCHANGED <<registered, agentId, dog, had>>
     ELSE Failed(a)
  /\ ServerUnchanged /\ UNCHANGED faults

\* delete_agent; incidents and scans of the agent lose it.
Delete(i) ==
  /\ i \in DOMAIN table /\ deletes < MaxDeletes
  /\ table' = [j \in DOMAIN table \ {i} |-> table[j]] /\ deletes' = deletes + 1
  /\ UNCHANGED <<next, agent, overlapped, faults>>

-----------------------------------------------------------------------------
(* The watchdog, and restarts.                                             *)

\* A round of the watchdog finds the client unhealthy: Stop, which joins the thread.
Look(a) ==
  /\ dog[a] = "watching" /\ conn[a] # "connected"
  /\ dog' = [dog EXCEPT ![a] = "stopping"]
  /\ ServerUnchanged /\ UNCHANGED <<thread, call, conn, registered, agentId, had, faults>>

\* The loop ends between two rounds, or in the sleep.
Ends(a) ==
  /\ thread[a] = "sleeping" /\ dog[a] = "stopping"
  /\ thread' = [thread EXCEPT ![a] = "ended"]
  /\ ServerUnchanged /\ UNCHANGED <<call, conn, registered, agentId, dog, had, faults>>

Cleared_(a) == registered  \* a mutant: the client stays registered
\* Disconnect: of the registration only the flag is forgotten.
Cleared(a) == [registered EXCEPT ![a] = FALSE]

\* Joined: Disconnect, then Start.
Restart(a) ==
  /\ dog[a] = "stopping" /\ thread[a] = "ended"
  /\ registered' = Cleared(a)
  /\ conn' = [conn EXCEPT ![a] = "connected"] /\ thread' = [thread EXCEPT ![a] = "sleeping"]
  /\ dog' = [dog EXCEPT ![a] = "watching"]
  /\ ServerUnchanged /\ UNCHANGED <<call, agentId, had, faults>>

\* The agent's process ends and is started again: the id was in memory only.
AgentRestarts(a) ==
  /\ Fault
  /\ thread' = [thread EXCEPT ![a] = "sleeping"] /\ call' = [call EXCEPT ![a] = NoCall]
  /\ conn' = [conn EXCEPT ![a] = "connected"] /\ registered' = [registered EXCEPT ![a] = FALSE]
  /\ agentId' = [agentId EXCEPT ![a] = NoId] /\ dog' = [dog EXCEPT ![a] = "watching"]
  /\ ServerUnchanged /\ UNCHANGED had

-----------------------------------------------------------------------------
Round(a) == Wake(a) \/ Connected(a) \/ Registered(a) \/ Ends(a)
Serve(a) == RegisterReads(a) \/ RegisterCommits(a) \/ HeartbeatReads(a) \/ HeartbeatCommits(a)

Next ==
  \/ \E a \in Agents : Round(a) \/ Serve(a) \/ Look(a) \/ Restart(a)
  \/ \E a \in Agents : CallFails(a) \/ AgentRestarts(a)
  \/ \E i \in DOMAIN table : Delete(i)

\* A client in backoff stays in it for a sleep of a minute at a time, so of the
\* watchdog's rounds, 5 s apart, one finds it so: strong fairness of Look.
Fairness ==
  \A a \in Agents : /\ WF_vars(Round(a)) /\ WF_vars(Serve(a)) /\ WF_vars(Restart(a))
                    /\ SF_vars(Look(a))
Spec == Init /\ [][Next]_vars /\ Fairness

-----------------------------------------------------------------------------
(* Properties.                                                             *)

TypeOK ==
  /\ DOMAIN table \subseteq 1 .. next - 1 /\ \A i \in DOMAIN table : table[i] \in Hosts
  /\ next \in 1 .. MaxRows + 1
  /\ thread \in [Agents -> {"sleeping", "connecting", "calling", "ended"}]
  /\ \A a \in Agents : call[a] # NoCall <=> thread[a] = "calling"
  /\ conn \in [Agents -> {"connected", "connecting", "backoff"}]
  /\ \A a \in Agents : /\ registered[a] => agentId[a] # NoId
                       /\ thread[a] = "ended" => dog[a] = "stopping"
                       /\ thread[a] = "connecting" <=> conn[a] = "connecting"

(***************************************************************************)
(* A machine has one row, however often its agent registers, restarts or   *)
(* misses an answer, unless registrations of its hostname have met on the  *)
(* server; what an agent takes for its id was never the row of another     *)
(* hostname.  And it keeps that id, to which its incidents and scans       *)
(* belong, until the row is deleted: of the ids that it had before none is *)
(* left in the table (register_agent, GrpcClient::Register).               *)
(***************************************************************************)
OneRowPerHost == \A h \in Hosts \ overlapped : Cardinality(Named(h)) <= 1
IdentityIsKept ==
  \A a \in Agents :
    /\ \A i \in had[a] \cap DOMAIN table : table[i] = Host[a]
    /\ agentId[a] # NoId => (had[a] \ {agentId[a]}) \cap DOMAIN table = {}
RegistryIsSound == TypeOK /\ OneRowPerHost /\ IdentityIsKept

(***************************************************************************)
(* An agent is registered with a row that exists, or will be, although its *)
(* calls fail, its row is deleted under it and its registered_ flag says   *)
(* otherwise: the restart by the watchdog is what forgets the flag.  The   *)
(* exception is a hostname with two rows: Register fails for it until one  *)
(* of them is deleted.                                                     *)
(***************************************************************************)
Settled(a) == registered[a] /\ agentId[a] \in DOMAIN table /\ conn[a] = "connected"
AgentsComeBack ==
  \A a \in Agents : []<>(Settled(a) \/ Cardinality({i \in DOMAIN table : table[i] = Host[a]}) > 1)
=============================================================================
