--------------------------- MODULE Discover_proofs ---------------------------
(***************************************************************************)
(* Proofs about Discover: its type invariant, that a command goes out only *)
(* for a committed scan, that it is delivered once, and that a scan which  *)
(* nothing overlaps is exact.  The inductive invariant follows a command's *)
(* id from the handler through the queue and a heartbeat's answer to the   *)
(* thread that runs it: at each time it is in one of them at most, in one  *)
(* place only, and its scan is not pending from the commit on.  A second   *)
(* one, Exclusive, follows the settings and the counters of a scanner      *)
(* through the steps of the only thread that is working on it.             *)
(***************************************************************************)
EXTENDS Discover, TLAPS, FiniteSetTheorems

Handling ==
  /\ \A h \in handlers : /\ h.id <= triggers /\ \A b \in Agents : started[b][h.id] = 0
                         /\ h.committed => status[h.scan] # "pending"
  /\ \A g, h \in handlers : g.id = h.id => g = h

Queueing ==
  /\ \A k \in Keys : \A m \in DOMAIN queue[k] :
       /\ queue[k][m].id <= triggers /\ \A b \in Agents : started[b][queue[k][m].id] = 0
       /\ status[queue[k][m].scan] # "pending"
       /\ \A h \in handlers : h.id # queue[k][m].id
  /\ \A k, l \in Keys : \A m \in DOMAIN queue[k], n \in DOMAIN queue[l] :
       queue[k][m].id = queue[l][n].id => k = l /\ m = n

Answering ==
  /\ \A a \in Agents : \A m \in DOMAIN answer[a] :
       /\ answer[a][m].id <= triggers /\ \A b \in Agents : started[b][answer[a][m].id] = 0
       /\ status[answer[a][m].scan] # "pending"
       /\ \A h \in handlers : h.id # answer[a][m].id
       /\ \A k \in Keys : \A n \in DOMAIN queue[k] : queue[k][n].id # answer[a][m].id
  /\ \A a, b \in Agents : \A m \in DOMAIN answer[a], n \in DOMAIN answer[b] :
       answer[a][m].id = answer[b][n].id => a = b /\ m = n

Starting ==
  \A a \in Agents, i \in Triggers :
    started[a][i] \in {0, 1} /\ (i > triggers => started[a][i] = 0)

Running ==
  \A a \in Agents : \A r \in runs[a] : Remote(r) => /\ started[a][r.id] = 1
                                                    /\ status[r.scan] # "pending"

Inv == TypeOK /\ Handling /\ Queueing /\ Answering /\ Starting /\ Running

LEMMA InitInv == Init => Inv
<1> SUFFICES ASSUME Init PROVE Inv
  OBVIOUS
<1>1. TypeOK
  BY DiscoverAssumption DEF DiscoverAssumption, Init, TypeOK, Settings, AsConfigured, Sources
<1>2. Handling /\ Queueing /\ Answering /\ Starting /\ Running
  BY DEF Init, Handling, Queueing, Answering, Starting, Running
<1> QED  BY <1>1, <1>2 DEF Inv

\* What is in the queue and in the answers are commands.
LEMMA Elements ==
  ASSUME TypeOK
  PROVE  /\ \A k \in Keys : \A m \in DOMAIN queue[k] :
              queue[k][m].id \in Triggers /\ queue[k][m].scan \in Scans
         /\ \A a \in Agents : \A m \in DOMAIN answer[a] :
              answer[a][m].id \in Triggers /\ answer[a][m].scan \in Scans
<1>1. \A k \in Keys : \A m \in DOMAIN queue[k] : queue[k][m] \in Command
  BY DEF TypeOK
<1>2. \A a \in Agents : \A m \in DOMAIN answer[a] : answer[a][m] \in Command
  BY DEF TypeOK
<1> QED  BY <1>1, <1>2 DEF Command

LEMMA TriggerInv == ASSUME Inv, NEW s \in Scans, Trigger(s) PROVE Inv'
<1> DEFINE new == [id |-> triggers + 1, scan |-> s, committed |-> FALSE, agent |-> NoAgent]
<1>0. triggers + 1 \in Triggers /\ triggers \in Nat
  BY DiscoverAssumption DEF DiscoverAssumption, Inv, Trigger, TypeOK, Triggers
<1>1. /\ triggers' = triggers + 1 /\ handlers' = handlers \cup {new}
      /\ triggers + 1 \in Triggers /\ triggers \in Nat
      /\ UNCHANGED <<status, owner, queue, answer, config, stats, runs, overlapped, started, faults>>
  BY <1>0 DEF Trigger, scanner
<1>2. new.id = triggers + 1 /\ ~new.committed /\ new \in [id : Triggers, scan : Scans, committed : BOOLEAN, agent : Agents \cup {NoAgent}]
  BY <1>1
<1> HIDE DEF new
<1>3. TypeOK'
  <2>1. triggers' \in 0 .. MaxTriggers
    BY <1>1, DiscoverAssumption DEF DiscoverAssumption, Triggers
  <2> QED  BY <1>1, <1>2, <2>1 DEF Inv, TypeOK
<1>4. \A h \in handlers : h.id \in Nat
  BY DEF Inv, TypeOK, Triggers
<1>5. Handling'
  BY <1>1, <1>2, <1>4 DEF Handling, Starting, Inv
<1>6. Queueing' /\ Answering'
  BY <1>1, <1>2, Elements DEF Queueing, Answering, Inv, Triggers
<1>7. Starting' /\ Running'
  BY <1>1 DEF Starting, Running, Inv, Triggers
<1> QED  BY <1>3, <1>5, <1>6, <1>7 DEF Inv

LEMMA CompleteInv == ASSUME Inv, NEW s \in Scans, Complete(s) PROVE Inv'
<1> USE DEF Inv, server, scanner
<1>1. TypeOK'
  BY DEF Complete, TypeOK
<1>2. Handling' /\ Starting' /\ Running'
  BY DiscoverAssumption DEF DiscoverAssumption, Complete, Handling, Starting, Running, TypeOK, ThreadData
<1>3. Queueing' /\ Answering'
  BY DEF Complete, Queueing, Answering, TypeOK
<1> QED  BY <1>1, <1>2, <1>3

LEMMA CommitInv == ASSUME Inv, NEW h \in handlers, Commit(h) PROVE Inv'
<1> DEFINE new == [h EXCEPT !.committed = TRUE, !.agent = owner[h.scan]]
<1>1. /\ status' = [status EXCEPT ![h.scan] = "running"]
      /\ handlers' = (handlers \ {h}) \cup {new}
      /\ UNCHANGED <<owner, triggers, queue, answer, config, stats, runs, overlapped, started, faults>>
  BY DEF Commit, scanner
<1>2. /\ h.id \in Triggers /\ h.scan \in Scans
      /\ new.id = h.id /\ new.scan = h.scan
      /\ new \in [id : Triggers, scan : Scans, committed : BOOLEAN, agent : Agents \cup {NoAgent}]
  BY DEF Inv, TypeOK
<1> HIDE DEF new
<1>3. TypeOK'
  BY <1>1, <1>2 DEF Inv, TypeOK
<1>4. \A s \in Scans : status[s] # "pending" => status'[s] # "pending"
  BY <1>1 DEF Inv, TypeOK
<1>5. status'[h.scan] = "running"
  BY <1>1, <1>2 DEF Inv, TypeOK
<1>6. \A g \in handlers : g.scan \in Scans
  BY DEF Inv, TypeOK
<1>7. Handling'
  BY <1>1, <1>2, <1>4, <1>5, <1>6 DEF Handling, Inv
<1>8. Queueing' /\ Answering'
  BY <1>1, <1>2, <1>4, Elements DEF Queueing, Answering, Inv
<1>9. \A a \in Agents : \A r \in runs[a] : Remote(r) => r.scan \in Scans
  BY DEF Inv, TypeOK, ThreadData, Remote
<1>10. Starting' /\ Running'
  BY <1>1, <1>4, <1>9 DEF Starting, Running, Inv, Remote
<1> QED  BY <1>3, <1>7, <1>8, <1>10 DEF Inv

\* The command leaves its handler and is the last of its key's commands.
LEMMA EnqueueInv == ASSUME Inv, NEW h \in handlers, Enqueue(h) PROVE Inv'
<1> DEFINE key == IF h.agent = NoAgent THEN Broadcast ELSE AsUUID(h.agent)
           new == [id |-> h.id, scan |-> h.scan]
<1>1. /\ h.committed
      /\ queue' = [queue EXCEPT ![key] = Append(@, new)]
      /\ handlers' = handlers \ {h}
      /\ UNCHANGED <<status, owner, triggers, answer, config, stats, runs, overlapped, started, faults>>
  BY DEF Enqueue, EnqueueOn, scanner
<1>2. key \in Keys
  BY DEF Inv, TypeOK, Keys
<1>3. new \in Command /\ new.id = h.id /\ new.scan = h.scan
  BY DEF Inv, TypeOK, Command
<1> HIDE DEF key, new
<1>4. /\ queue'[key] = Append(queue[key], new)
      /\ \A k \in Keys : k # key => queue'[k] = queue[k]
      /\ queue' \in [Keys -> Seq(Command)]
  BY <1>1, <1>2, <1>3 DEF Inv, TypeOK
<1>5. TypeOK'
  BY <1>1, <1>4 DEF Inv, TypeOK
<1>6. /\ DOMAIN queue'[key] = DOMAIN queue[key] \cup {Len(queue[key]) + 1}
      /\ Len(queue[key]) + 1 \notin DOMAIN queue[key]
      /\ \A m \in DOMAIN queue[key] : queue'[key][m] = queue[key][m]
      /\ queue'[key][Len(queue[key]) + 1] = new
  <2>1. queue[key] \in Seq(Command)
    BY <1>2 DEF Inv, TypeOK
  <2> QED  BY <1>3, <1>4, <2>1
<1>7. \A k \in Keys : \A m \in DOMAIN queue'[k] :
        \/ m \in DOMAIN queue[k] /\ queue'[k][m] = queue[k][m]
        \/ k = key /\ m = Len(queue[key]) + 1 /\ queue'[k][m] = new
  BY <1>4, <1>6
<1>8. Handling'
  BY <1>1 DEF Handling, Inv
<1>9. Queueing'
  BY <1>1, <1>3, <1>7 DEF Queueing, Handling, Inv
<1>10. Answering'
  BY <1>1, <1>3, <1>7 DEF Answering, Inv
<1>11. Starting' /\ Running'
  BY <1>1 DEF Starting, Running, Inv
<1> QED  BY <1>5, <1>8, <1>9, <1>10, <1>11 DEF Inv

\* What a heartbeat hands out was in the queue, each command in one place.
LEMMA HeartbeatInv == ASSUME Inv, NEW a \in Agents, Heartbeat(a) PROVE Inv'
<1> DEFINE own == queue[AsText(a)]
           all == queue[Broadcast]
<1>1. /\ answer' = [answer EXCEPT ![a] = own \o all]
      /\ queue' = [queue EXCEPT ![AsText(a)] = <<>>, ![Broadcast] = <<>>]
      /\ UNCHANGED <<status, owner, handlers, triggers, config, stats, runs, overlapped, started, faults>>
  BY DEF Heartbeat, scanner
<1>2. AsText(a) \in Keys /\ Broadcast \in Keys /\ AsText(a) # Broadcast
  BY DiscoverAssumption DEF DiscoverAssumption, Keys, AsText, Broadcast
<1>3. own \in Seq(Command) /\ all \in Seq(Command)
  BY <1>2 DEF Inv, TypeOK
<1> HIDE DEF own, all
<1>4. /\ own \o all \in Seq(Command)
      /\ \A m \in DOMAIN (own \o all) :
           \/ m \in DOMAIN own /\ (own \o all)[m] = own[m]
           \/ m - Len(own) \in DOMAIN all /\ (own \o all)[m] = all[m - Len(own)]
      /\ \A m \in DOMAIN (own \o all) : m \in Int
      /\ Len(own) \in Int
  <2>1. own \o all \in Seq(Command)
    BY <1>3
  <2>2. /\ Len(own) \in Nat /\ Len(all) \in Nat
        /\ DOMAIN own = 1 .. Len(own) /\ DOMAIN all = 1 .. Len(all)
        /\ DOMAIN (own \o all) = 1 .. (Len(own) + Len(all))
    BY <1>3
  <2>3. \A m \in 1 .. (Len(own) + Len(all)) :
          (own \o all)[m] = IF m <= Len(own) THEN own[m] ELSE all[m - Len(own)]
    BY <1>3
  <2> QED  BY <2>1, <2>2, <2>3
<1>5. /\ answer'[a] = own \o all
      /\ \A b \in Agents : b # a => answer'[b] = answer[b]
      /\ answer' \in [Agents -> Seq(Command)]
  BY <1>1, <1>4 DEF Inv, TypeOK
<1>6. /\ \A k \in Keys : queue'[k] = IF k \in {AsText(a), Broadcast} THEN <<>> ELSE queue[k]
      /\ queue' \in [Keys -> Seq(Command)]
  <2>1. queue \in [Keys -> Seq(Command)] /\ <<>> \in Seq(Command)
    BY DEF Inv, TypeOK
  <2>2. \A k \in Keys : queue'[k] = IF k \in {AsText(a), Broadcast} THEN <<>> ELSE queue[k]
    BY <1>1, <1>2, <2>1
  <2>3. \A k \in Keys : queue'[k] \in Seq(Command)
    BY <2>1, <2>2
  <2>4. queue' = [k \in Keys |-> queue'[k]]
    BY <1>1, <2>1
  <2> QED  BY <2>2, <2>3, <2>4
<1>7. \A k \in Keys : \A m \in DOMAIN queue'[k] :
        k \notin {AsText(a), Broadcast} /\ m \in DOMAIN queue[k] /\ queue'[k][m] = queue[k][m]
  BY <1>6
<1>8. \A m \in DOMAIN answer'[a] :
        \/ m \in DOMAIN own /\ answer'[a][m] = own[m]
        \/ m - Len(own) \in DOMAIN all /\ answer'[a][m] = all[m - Len(own)]
  BY <1>4, <1>5
<1>9. \A m \in DOMAIN answer'[a] : m \in Int
  BY <1>4, <1>5
<1>10. TypeOK'
  BY <1>1, <1>5, <1>6 DEF Inv, TypeOK
<1>11. Handling' /\ Starting' /\ Running'
  BY <1>1 DEF Handling, Starting, Running, Inv
<1>12. Queueing'
  <2>1. ASSUME NEW k \in Keys, NEW m \in DOMAIN queue'[k]
        PROVE  /\ queue'[k][m].id <= triggers' /\ \A c \in Agents : started'[c][queue'[k][m].id] = 0
               /\ status'[queue'[k][m].scan] # "pending"
               /\ \A h \in handlers' : h.id # queue'[k][m].id
    <3>1. m \in DOMAIN queue[k] /\ queue'[k][m] = queue[k][m]
      BY <1>7
    <3> QED  BY <3>1, <1>1 DEF Queueing, Inv
  <2>2. ASSUME NEW k \in Keys, NEW l \in Keys, NEW m \in DOMAIN queue'[k], NEW n \in DOMAIN queue'[l],
               queue'[k][m].id = queue'[l][n].id
        PROVE  k = l /\ m = n
    <3>1. /\ m \in DOMAIN queue[k] /\ queue'[k][m] = queue[k][m]
          /\ n \in DOMAIN queue[l] /\ queue'[l][n] = queue[l][n]
      BY <1>7
    <3> QED  BY <2>2, <3>1 DEF Queueing, Inv
  <2> QED  BY <2>1, <2>2 DEF Queueing
<1>13. ASSUME NEW b \in Agents, b # a, NEW n \in DOMAIN answer'[b], NEW m \in DOMAIN answer'[a]
       PROVE  answer'[b][n].id # answer'[a][m].id
  <2>1. n \in DOMAIN answer[b] /\ answer'[b][n] = answer[b][n]
    BY <1>13, <1>5
  <2>2. PICK k \in Keys : \E l \in DOMAIN queue[k] : answer'[a][m] = queue[k][l]
    BY <1>2, <1>8 DEF own, all
  <2> QED  BY <2>1, <2>2 DEF Answering, Inv
<1>14. Answering'
  <2>1. ASSUME NEW b \in Agents, NEW m \in DOMAIN answer'[b]
        PROVE  /\ answer'[b][m].id <= triggers' /\ \A c \in Agents : started'[c][answer'[b][m].id] = 0
               /\ status'[answer'[b][m].scan] # "pending"
               /\ \A h \in handlers' : h.id # answer'[b][m].id
               /\ \A k \in Keys : \A n \in DOMAIN queue'[k] : queue'[k][n].id # answer'[b][m].id
    <3>1. CASE b = a
      <4>1. PICK k \in {AsText(a), Broadcast} : \E l \in DOMAIN queue[k] : answer'[b][m] = queue[k][l]
        BY <3>1, <1>8 DEF own, all
      <4>2. PICK l \in DOMAIN queue[k] : answer'[b][m] = queue[k][l]
        BY <4>1
      <4>3. k \in Keys
        BY <1>2
      <4>4. /\ answer'[b][m].id <= triggers' /\ \A c \in Agents : started'[c][answer'[b][m].id] = 0
            /\ status'[answer'[b][m].scan] # "pending"
            /\ \A h \in handlers' : h.id # answer'[b][m].id
        BY <4>2, <4>3, <1>1 DEF Queueing, Inv
      <4>5. ASSUME NEW j \in Keys, NEW n \in DOMAIN queue'[j]
            PROVE  queue'[j][n].id # answer'[b][m].id
        <5>1. j # k /\ n \in DOMAIN queue[j] /\ queue'[j][n] = queue[j][n]
          BY <1>7
        <5> QED  BY <5>1, <4>2, <4>3 DEF Queueing, Inv
      <4> QED  BY <4>4, <4>5
    <3>2. CASE b # a
      <4>1. m \in DOMAIN answer[b] /\ answer'[b][m] = answer[b][m]
        BY <3>2, <1>5
      <4>2. /\ answer'[b][m].id <= triggers' /\ \A c \in Agents : started'[c][answer'[b][m].id] = 0
            /\ status'[answer'[b][m].scan] # "pending"
            /\ \A h \in handlers' : h.id # answer'[b][m].id
        BY <4>1, <1>1 DEF Answering, Inv
      <4>3. ASSUME NEW j \in Keys, NEW n \in DOMAIN queue'[j]
            PROVE  queue'[j][n].id # answer'[b][m].id
        <5>1. n \in DOMAIN queue[j] /\ queue'[j][n] = queue[j][n]
          BY <1>7
        <5> QED  BY <5>1, <4>1 DEF Answering, Inv
      <4> QED  BY <4>2, <4>3
    <3> QED  BY <3>1, <3>2
  <2>2. ASSUME NEW b \in Agents, NEW c \in Agents, NEW m \in DOMAIN answer'[b], NEW n \in DOMAIN answer'[c],
               answer'[b][m].id = answer'[c][n].id
        PROVE  b = c /\ m = n
    <3>1. CASE b = a /\ c = a
      BY <3>1, <2>2, <1>2, <1>4, <1>8, <1>9 DEF own, all, Queueing, Inv
    <3>2. CASE b # a /\ c # a
      BY <3>2, <2>2, <1>5 DEF Answering, Inv
    <3>3. CASE b = a /\ c # a
      BY <3>3, <2>2, <1>13
    <3>4. CASE b # a /\ c = a
      BY <3>4, <2>2, <1>13
    <3> QED  BY <3>1, <3>2, <3>3, <3>4
  <2> QED  BY <2>1, <2>2 DEF Answering
<1> QED  BY <1>10, <1>11, <1>12, <1>14 DEF Inv

\* The threads of an agent may change as long as each has its command from one
\* that was there before.
LEMMA ThreadsInv ==
  ASSUME Inv,
         UNCHANGED <<handlers, triggers, queue, answer, started>>,
         status' \in [Scans -> {"pending", "running", "completed"}],
         \A s \in Scans : status[s] # "pending" => status'[s] # "pending",
         owner' \in [Scans -> Agents \cup {NoAgent}],
         config' \in [Agents -> Settings], stats' \in [Agents -> SUBSET Walk],
         overlapped' \in [Agents -> BOOLEAN], faults' \in 0 .. MaxFaults,
         runs' \in [Agents -> SUBSET ThreadData],
         \A a \in Agents : \A q, r \in runs'[a] : q.id = r.id => q = r,
         \A a \in Agents : \A q \in runs'[a] :
           Remote(q) => \E r \in runs[a] : r.id = q.id /\ r.scan = q.scan
  PROVE  Inv'
<1>1. TypeOK'
  BY DEF Inv, TypeOK
<1>2. Handling' /\ Starting'
  <2>1. \A h \in handlers : h.scan \in Scans
    BY DEF Inv, TypeOK
  <2> QED  BY <2>1 DEF Handling, Starting, Inv
<1>3. Queueing' /\ Answering'
  BY Elements DEF Queueing, Answering, Inv
<1>4. Running'
  <2>1. \A a \in Agents : \A r \in runs[a] : Remote(r) => r.scan \in Scans
    BY DEF Inv, TypeOK, ThreadData, Remote
  <2> QED  BY <2>1 DEF Running, Inv, Remote
<1> QED  BY <1>1, <1>2, <1>3, <1>4 DEF Inv

\* What ThreadsInv asks of the threads.
ThreadsFollow ==
  /\ runs' \in [Agents -> SUBSET ThreadData]
  /\ \A a \in Agents : \A q, r \in runs'[a] : q.id = r.id => q = r
  /\ \A a \in Agents : \A q \in runs'[a] :
       Remote(q) => \E r \in runs[a] : r.id = q.id /\ r.scan = q.scan

LEMMA ReplaceFollows ==
  ASSUME Inv, NEW a \in Agents, NEW r \in runs[a], NEW new \in SUBSET ThreadData,
         Replace(a, r, new),
         \A x \in new : x.id = r.id /\ x.scan = r.scan,
         \A x, y \in new : x = y
  PROVE  ThreadsFollow
<1>1. /\ \A b \in Agents : runs'[b] = IF b = a THEN (runs[a] \ {r}) \cup new ELSE runs[b]
      /\ runs' \in [Agents -> SUBSET ThreadData]
  BY DEF Inv, TypeOK, Replace
<1>2. \A b \in Agents : \A p, q \in runs[b] : p.id = q.id => p = q
  BY DEF Inv, TypeOK
<1>3. \A b \in Agents : \A p, q \in runs'[b] : p.id = q.id => p = q
  BY <1>1, <1>2
<1>4. \A b \in Agents : \A q \in runs'[b] : \E p \in runs[b] : p.id = q.id /\ p.scan = q.scan
  BY <1>1
<1> QED  BY <1>1, <1>3, <1>4 DEF ThreadsFollow

\* A thread whose vector is assigned to remains the same scan's.
Dangle(q) == [q EXCEPT !.dangling = @ \/ q.step = "file"]

LEMMA Dangling ==
  ASSUME NEW q \in ThreadData
  PROVE  Dangle(q) \in ThreadData /\ Dangle(q).id = q.id /\ Dangle(q).scan = q.scan
BY DEF ThreadData, Dangle

LEMMA AssignFollows ==
  ASSUME Inv, NEW a \in Agents, NEW r \in runs[a], NEW settings \in Settings,
         NEW new \in ThreadData, Assign(a, r, settings, new),
         new.id = r.id, new.scan = r.scan
  PROVE  ThreadsFollow /\ config' \in [Agents -> Settings]
<1>1. /\ runs \in [Agents -> SUBSET ThreadData]
      /\ runs' = [runs EXCEPT ![a] = {Dangle(q) : q \in @ \ {r}} \cup {new}]
  BY DEF Inv, TypeOK, Assign, Dangle
<1>2. \A b \in Agents : runs'[b] = IF b = a THEN {Dangle(q) : q \in runs[a] \ {r}} \cup {new} ELSE runs[b]
  BY <1>1
<1>3. \A q \in runs[a] : Dangle(q) \in ThreadData /\ Dangle(q).id = q.id /\ Dangle(q).scan = q.scan
  BY <1>1, Dangling
<1>4. \A b \in Agents : \A p, q \in runs[b] : p.id = q.id => p = q
  BY DEF Inv, TypeOK
<1>5. runs' \in [Agents -> SUBSET ThreadData]
  <2>1. {Dangle(q) : q \in runs[a] \ {r}} \cup {new} \in SUBSET ThreadData
    BY <1>3
  <2> QED  BY <1>1, <2>1
<1>6. \A x \in runs'[a] : x = new \/ \E q \in runs[a] \ {r} : x = Dangle(q)
  BY <1>2
<1>7. \A b \in Agents : \A p, q \in runs'[b] : p.id = q.id => p = q
  <2>1. \A p, q \in runs'[a] : p.id = q.id => p = q
    <3>1. \A p \in runs[a] \ {r} : Dangle(p).id # new.id
      BY <1>3, <1>4
    <3>2. \A p, q \in runs[a] : Dangle(p).id = Dangle(q).id => Dangle(p) = Dangle(q)
      BY <1>3, <1>4
    <3> QED  BY <1>6, <3>1, <3>2
  <2>2. \A b \in Agents : b # a => runs'[b] = runs[b]
    BY <1>2
  <2> QED  BY <1>4, <2>1, <2>2
<1>8. \A b \in Agents : \A q \in runs'[b] : \E p \in runs[b] : p.id = q.id /\ p.scan = q.scan
  <2>1. \A q \in runs'[a] : \E p \in runs[a] : p.id = q.id /\ p.scan = q.scan
    BY <1>3, <1>6
  <2>2. \A b \in Agents : b # a => runs'[b] = runs[b]
    BY <1>2
  <2> QED  BY <2>1, <2>2
<1>9. config' \in [Agents -> Settings]
  BY DEF Inv, TypeOK, Assign
<1> QED  BY <1>5, <1>7, <1>8, <1>9 DEF ThreadsFollow

\* The two kinds of threads.
RemoteData ==
  [id : Triggers, scan : Scans, step : Steps, saved : Settings, dir : Sources,
   dangling : BOOLEAN, result : SUBSET Walk]

PeriodicData ==
  [id : {0}, scan : {Configured}, step : {"begin", "file"}, saved : {AsConfigured},
   dir : Sources, dangling : BOOLEAN, result : {{}}]

LEMMA Kinds ==
  ASSUME Inv, NEW a \in Agents, NEW r \in runs[a]
  PROVE  /\ RemoteData \subseteq ThreadData /\ PeriodicData \subseteq ThreadData
         /\ \/ Remote(r) /\ r \in RemoteData
            \/ ~Remote(r) /\ r \in PeriodicData
<1>1. r \in ThreadData
  BY DEF Inv, TypeOK
<1>2. ThreadData = RemoteData \cup PeriodicData
  BY DEF ThreadData, RemoteData, PeriodicData
<1>3. r \in RemoteData => Remote(r)
  BY DiscoverAssumption DEF DiscoverAssumption, RemoteData, Remote, Triggers
<1>4. r \in PeriodicData => ~Remote(r)
  BY DEF PeriodicData, Remote
<1> QED  BY <1>1, <1>2, <1>3, <1>4

LEMMA PeriodicScanInv == ASSUME Inv, NEW a \in Agents, PeriodicScan(a) PROVE Inv'
<1> DEFINE new == Thread(0, Configured, "begin")
<1>1. new \in ThreadData /\ new.id = 0
  BY DEF Thread, ThreadData, Sources
<1>2. /\ runs' = [runs EXCEPT ![a] = @ \cup {new}]
      /\ overlapped' \in [Agents -> BOOLEAN]
      /\ \A r \in runs[a] : Remote(r)
      /\ UNCHANGED <<status, owner, handlers, triggers, queue, answer, config, stats, started, faults>>
  BY DEF PeriodicScan, server, Inv, TypeOK
<1> HIDE DEF new
<1>3. /\ \A b \in Agents : runs'[b] = IF b = a THEN runs[a] \cup {new} ELSE runs[b]
      /\ runs' \in [Agents -> SUBSET ThreadData]
  BY <1>1, <1>2 DEF Inv, TypeOK
<1>4. \A b \in Agents : \A q, r \in runs'[b] : q.id = r.id => q = r
  BY <1>1, <1>2, <1>3 DEF Inv, TypeOK, Remote
<1>5. \A b \in Agents : \A q \in runs'[b] :
        Remote(q) => \E r \in runs[b] : r.id = q.id /\ r.scan = q.scan
  BY <1>1, <1>3 DEF Remote
<1>6. TypeOK
  BY DEF Inv
<1> QED  BY <1>2, <1>3, <1>4, <1>5, <1>6, ThreadsInv DEF TypeOK

LEMMA SaveInv == ASSUME Inv, NEW a \in Agents, NEW r \in runs[a], Save(a, r) PROVE Inv'
<1> DEFINE new == [r EXCEPT !.step = "apply", !.saved = config[a]]
<1>1. TypeOK
  BY DEF Inv
<1>2. r.step = "save" /\ Replace(a, r, {new})
  BY DEF Save, SaveSettings
<1>3. new \in ThreadData /\ new.id = r.id /\ new.scan = r.scan
  <2>1. r \in RemoteData
    BY <1>2, Kinds DEF PeriodicData
  <2>2. config[a] \in Settings
    BY <1>1 DEF TypeOK
  <2> QED  BY <2>1, <2>2, Kinds DEF RemoteData, Steps
<1> HIDE DEF new
<1>4. ThreadsFollow
  BY <1>2, <1>3, ReplaceFollows
<1>5. /\ stats' \in [Agents -> SUBSET Walk] /\ overlapped' \in [Agents -> BOOLEAN]
      /\ UNCHANGED <<status, owner, handlers, triggers, queue, answer, config, started, faults>>
  BY <1>1 DEF Save, SaveSettings, server, TypeOK
<1> QED  BY <1>1, <1>4, <1>5, ThreadsInv DEF ThreadsFollow, TypeOK

LEMMA ApplyInv == ASSUME Inv, NEW a \in Agents, NEW r \in runs[a], Apply(a, r) PROVE Inv'
<1> DEFINE new == [r EXCEPT !.step = "begin"]
<1>1. TypeOK
  BY DEF Inv
<1>2. r.step = "apply" /\ Assign(a, r, Override(config[a], r.id), new)
  BY DEF Apply
<1>3. new \in ThreadData /\ new.id = r.id /\ new.scan = r.scan
  <2>1. r \in RemoteData
    BY <1>2, Kinds DEF PeriodicData
  <2> QED  BY <2>1, Kinds DEF RemoteData, Steps
<1>6. Override(config[a], r.id) \in Settings
  <2>1. config[a] \in Settings
    BY <1>1 DEF TypeOK
  <2>2. r.id \in Sources
    BY Kinds DEF RemoteData, PeriodicData, Sources
  <2> QED  BY <2>1, <2>2 DEF Override, Settings
<1> HIDE DEF new
<1>4. ThreadsFollow /\ config' \in [Agents -> Settings]
  BY <1>2, <1>3, <1>6, AssignFollows
<1>5. UNCHANGED <<status, owner, handlers, triggers, queue, answer, stats, overlapped, started, faults>>
  BY <1>2 DEF Assign, server
<1> QED  BY <1>1, <1>4, <1>5, ThreadsInv DEF ThreadsFollow, TypeOK

LEMMA RestoreInv == ASSUME Inv, NEW a \in Agents, NEW r \in runs[a], Restore(a, r) PROVE Inv'
<1> DEFINE new == [r EXCEPT !.step = "report", !.result = stats[a]]
<1>1. TypeOK
  BY DEF Inv
<1>2. r.step = "restore" /\ Assign(a, r, r.saved, new)
  BY DEF Restore
<1>3. new \in ThreadData /\ new.id = r.id /\ new.scan = r.scan /\ r.saved \in Settings
  <2>1. stats[a] \in SUBSET Walk
    BY <1>1 DEF TypeOK
  <2>2. r \in RemoteData
    BY <1>2, Kinds DEF PeriodicData
  <2> QED  BY <2>1, <2>2, Kinds DEF RemoteData, Steps
<1> HIDE DEF new
<1>4. ThreadsFollow /\ config' \in [Agents -> Settings]
  BY <1>2, <1>3, AssignFollows
<1>5. UNCHANGED <<status, owner, handlers, triggers, queue, answer, stats, overlapped, started, faults>>
  BY <1>2 DEF Assign, server
<1> QED  BY <1>1, <1>4, <1>5, ThreadsInv DEF ThreadsFollow, TypeOK

LEMMA DoneFollows ==
  ASSUME Inv, NEW a \in Agents, NEW r \in runs[a]
  PROVE  /\ Done(r) \in SUBSET ThreadData
         /\ \A x \in Done(r) : x.id = r.id /\ x.scan = r.scan
         /\ \A x, y \in Done(r) : x = y
BY Kinds DEF Done, RemoteData, Steps

LEMMA BeginInv == ASSUME Inv, NEW a \in Agents, NEW r \in runs[a], Begin(a, r) PROVE Inv'
<1> DEFINE new == IF a \in Scanning THEN {[r EXCEPT !.step = "file", !.dir = config[a].dir]} ELSE Done(r)
<1>1. TypeOK
  BY DEF Inv
<1>2. Replace(a, r, new)
  BY DEF Begin
<1>3. /\ new \in SUBSET ThreadData
      /\ \A x \in new : x.id = r.id /\ x.scan = r.scan
      /\ \A x, y \in new : x = y
  <2>1. CASE a \in Scanning
    <3>1. config[a].dir \in Sources
      BY <1>1 DEF TypeOK, Settings
    <3>2. [r EXCEPT !.step = "file", !.dir = config[a].dir] \in RemoteData \cup PeriodicData
      <4>1. r \in RemoteData => [r EXCEPT !.step = "file", !.dir = config[a].dir] \in RemoteData
        BY <3>1 DEF RemoteData, Steps
      <4>2. r \in PeriodicData => [r EXCEPT !.step = "file", !.dir = config[a].dir] \in PeriodicData
        BY <3>1 DEF PeriodicData
      <4> QED  BY <4>1, <4>2, Kinds
    <3>3. /\ [r EXCEPT !.step = "file", !.dir = config[a].dir].id = r.id
          /\ [r EXCEPT !.step = "file", !.dir = config[a].dir].scan = r.scan
      BY Kinds DEF RemoteData, PeriodicData
    <3> QED  BY <2>1, <3>2, <3>3, Kinds
  <2>2. CASE a \notin Scanning
    BY <2>2, DoneFollows
  <2> QED  BY <2>1, <2>2
<1> HIDE DEF new
<1>4. ThreadsFollow
  BY <1>2, <1>3, ReplaceFollows
<1>5. UNCHANGED <<status, owner, handlers, triggers, queue, answer, config, stats, overlapped, started, faults>>
  BY DEF Begin, server
<1> QED  BY <1>1, <1>4, <1>5, ThreadsInv DEF ThreadsFollow, TypeOK

\* The process is gone, and with it the answer on its way.
LEMMA FreshInv ==
  ASSUME Inv, NEW a \in Agents, Fresh(a), faults' \in 0 .. MaxFaults
  PROVE  Inv'
<1>1. TypeOK
  BY DEF Inv
<1>2. /\ \A b \in Agents : answer'[b] = IF b = a THEN <<>> ELSE answer[b]
      /\ \A b \in Agents : runs'[b] = IF b = a THEN {} ELSE runs[b]
      /\ UNCHANGED <<status, owner, handlers, triggers, queue, started>>
  BY <1>1 DEF Fresh, server, TypeOK
<1>3. TypeOK'
  <2>1. answer' \in [Agents -> Seq(Command)]
    <3>1. answer \in [Agents -> Seq(Command)] /\ <<>> \in Seq(Command)
      BY <1>1 DEF TypeOK
    <3> QED  BY <3>1 DEF Fresh
  <2>2. config' \in [Agents -> Settings]
    BY <1>1 DEF Fresh, TypeOK, Settings, AsConfigured, Sources
  <2>3. stats' \in [Agents -> SUBSET Walk] /\ overlapped' \in [Agents -> BOOLEAN]
    BY <1>1 DEF Fresh, TypeOK
  <2>4. runs' \in [Agents -> SUBSET ThreadData]
    BY <1>1 DEF Fresh, TypeOK
  <2> QED  BY <1>1, <1>2, <2>1, <2>2, <2>3, <2>4 DEF TypeOK
<1>4. Handling' /\ Queueing' /\ Starting'
  BY <1>2 DEF Handling, Queueing, Starting, Inv
<1>5. Running'
  BY <1>2 DEF Running, Inv
<1>6. Answering'
  BY <1>2 DEF Answering, Inv
<1> QED  BY <1>3, <1>4, <1>5, <1>6 DEF Inv

LEMMA LoseAnswerInv == ASSUME Inv, NEW a \in Agents, LoseAnswer(a) PROVE Inv'
<1>1. /\ \A b \in Agents : answer'[b] = IF b = a THEN <<>> ELSE answer[b]
      /\ answer' \in [Agents -> Seq(Command)]
      /\ UNCHANGED <<status, owner, handlers, triggers, queue, config, stats, runs, overlapped, started>>
  <2>1. answer \in [Agents -> Seq(Command)] /\ <<>> \in Seq(Command)
    BY DEF Inv, TypeOK
  <2> QED  BY <2>1 DEF LoseAnswer, server, scanner
<1>2. faults' \in 0 .. MaxFaults
  BY DiscoverAssumption DEF DiscoverAssumption, LoseAnswer, Fault, Inv, TypeOK
<1>3. TypeOK'
  BY <1>1, <1>2 DEF Inv, TypeOK
<1>4. Handling' /\ Queueing' /\ Starting' /\ Running'
  BY <1>1 DEF Handling, Queueing, Starting, Running, Inv
<1>5. Answering'
  <2>1. \A b \in Agents : /\ DOMAIN answer'[b] \subseteq DOMAIN answer[b]
                          /\ answer'[b] = answer[b] \/ DOMAIN answer'[b] = {}
    BY <1>1
  <2> QED  BY <1>1, <2>1 DEF Answering, Inv
<1> QED  BY <1>3, <1>4, <1>5 DEF Inv

LEMMA ServerRestartsInv == ASSUME Inv, ServerRestarts PROVE Inv'
<1>1. /\ queue' = [k \in Keys |-> <<>>] /\ handlers' = {}
      /\ UNCHANGED <<status, owner, triggers, answer, config, stats, runs, overlapped, started>>
  BY DEF ServerRestarts, scanner
<1>2. faults' \in 0 .. MaxFaults
  BY DiscoverAssumption DEF DiscoverAssumption, ServerRestarts, Fault, Inv, TypeOK
<1>3. TypeOK'
  BY <1>1, <1>2 DEF Inv, TypeOK
<1>4. Handling' /\ Queueing' /\ Answering' /\ Starting' /\ Running'
  BY <1>1 DEF Handling, Queueing, Answering, Starting, Running, Inv
<1> QED  BY <1>3, <1>4 DEF Inv

LEMMA UpdateInv ==
  ASSUME Inv, NEW s \in Scans, NEW a \in Agents \cup {NoAgent}, Update(s, a)
  PROVE  Inv'
<1>1. TypeOK
  BY DEF Inv
<1>2. /\ owner' \in [Scans -> Agents \cup {NoAgent}]
      /\ UNCHANGED <<status, handlers, triggers, queue, answer, config, stats, runs, overlapped, started, faults>>
  BY <1>1 DEF Update, scanner, TypeOK
<1>3. TypeOK'
  BY <1>1, <1>2 DEF TypeOK
<1>4. Handling' /\ Queueing' /\ Answering' /\ Starting' /\ Running'
  BY <1>2 DEF Handling, Queueing, Answering, Starting, Running, Inv
<1> QED  BY <1>3, <1>4 DEF Inv

\* A file counted, or a walk that loses its directories.
LEMMA FileInv == ASSUME Inv, NEW a \in Agents, NEW r \in runs[a], File(a, r) PROVE Inv'
<1>1. TypeOK
  BY DEF Inv
<1>2. r.step = "file" /\ faults' = faults
  BY DEF File
<1>3. ASSUME stats' = [stats EXCEPT ![a] = @ \cup {[by |-> r.id, dir |-> r.dir, extensions |-> config[a].extensions]}],
             Replace(a, r, Done(r)),
             UNCHANGED <<server, answer, config, overlapped, started>>
      PROVE  Inv'
  <2>1. ThreadsFollow
    BY <1>3, DoneFollows, ReplaceFollows
  <2>2. [by |-> r.id, dir |-> r.dir, extensions |-> config[a].extensions] \in Walk
    <3>1. config[a].extensions \in Sources
      BY <1>1 DEF TypeOK, Settings
    <3>2. r.id \in Sources /\ r.dir \in Sources
      BY Kinds DEF RemoteData, PeriodicData, Sources
    <3> QED  BY <3>1, <3>2 DEF Walk
  <2>3. stats' \in [Agents -> SUBSET Walk]
    BY <1>1, <1>3, <2>2 DEF TypeOK
  <2>4. UNCHANGED <<status, owner, handlers, triggers, queue, answer, config, overlapped, started, faults>>
    BY <1>2, <1>3 DEF server
  <2> QED  BY <1>1, <2>1, <2>3, <2>4, ThreadsInv DEF ThreadsFollow, TypeOK
<1>4. ASSUME Fresh(a) PROVE Inv'
  BY <1>1, <1>2, <1>4, FreshInv DEF TypeOK
<1> QED  BY <1>3, <1>4 DEF File

LEMMA ReportInv == ASSUME Inv, NEW a \in Agents, NEW r \in runs[a], Report(a, r) PROVE Inv'
<1>1. TypeOK
  BY DEF Inv
<1>2. r.step = "report" /\ Replace(a, r, {})
  BY DEF Report
<1>3. r.scan \in Scans
  BY <1>2, Kinds DEF RemoteData, PeriodicData
<1>4. ThreadsFollow
  BY <1>2, ReplaceFollows
<1>5. /\ status' \in [Scans -> {"pending", "running", "completed"}]
      /\ \A s \in Scans : status[s] # "pending" => status'[s] # "pending"
      /\ owner' \in [Scans -> Agents \cup {NoAgent}]
  BY <1>1, <1>3 DEF Report, TypeOK
<1>6. UNCHANGED <<handlers, triggers, queue, answer, config, stats, overlapped, started, faults>>
  BY DEF Report
<1> QED  BY <1>1, <1>4, <1>5, <1>6, ThreadsInv DEF ThreadsFollow, TypeOK

LEMMA ReportFailsInv ==
  ASSUME Inv, NEW a \in Agents, NEW r \in runs[a], ReportFails(a, r)
  PROVE  Inv'
<1>1. TypeOK
  BY DEF Inv
<1>2. ThreadsFollow
  BY ReplaceFollows DEF ReportFails
<1>3. UNCHANGED <<status, owner, handlers, triggers, queue, answer, config, stats, overlapped, started>>
  BY DEF ReportFails, server
<1>4. faults' \in 0 .. MaxFaults
  BY <1>1, DiscoverAssumption DEF DiscoverAssumption, ReportFails, Fault, TypeOK
<1> QED  BY <1>1, <1>2, <1>3, <1>4, ThreadsInv DEF ThreadsFollow, TypeOK

\* The commands of an answer are different ones and none was started before.
LEMMA Counted ==
  ASSUME Inv, NEW a \in Agents, NEW i \in Triggers
  PROVE  LET found == {n \in DOMAIN answer[a] : answer[a][n].id = i}
         IN  /\ found = {} => Cardinality(found) = 0
             /\ found # {} => Cardinality(found) = 1 /\ (\A b \in Agents : started[b][i] = 0) /\ i <= triggers
<1> DEFINE found == {n \in DOMAIN answer[a] : answer[a][n].id = i}
<1>1. ASSUME found # {}
      PROVE  Cardinality(found) = 1 /\ (\A b \in Agents : started[b][i] = 0) /\ i <= triggers
  <2>1. PICK n \in DOMAIN answer[a] : answer[a][n].id = i
    BY <1>1
  <2>2. \A m \in DOMAIN answer[a] : answer[a][m].id = i => m = n
    BY <2>1 DEF Answering, Inv
  <2>3. found = {n}
    BY <2>1, <2>2
  <2>4. (\A b \in Agents : started[b][i] = 0) /\ i <= triggers
    BY <2>1 DEF Answering, Inv
  <2> QED  BY <2>3, <2>4, FS_Singleton
<1>2. found = {} => Cardinality(found) = 0
  BY FS_EmptySet
<1> QED  BY <1>1, <1>2

LEMMA ReceiveInv == ASSUME Inv, NEW a \in Agents, Receive(a) PROVE Inv'
<1> DEFINE found(i) == {n \in DOMAIN answer[a] : answer[a][n].id = i}
           new == {Thread(c.id, c.scan, "save") : c \in ToSet(answer[a])}
<1>1. TypeOK
  BY DEF Inv
<1>2. /\ runs' = [runs EXCEPT ![a] = @ \cup new]
      /\ started' = [started EXCEPT ![a] = [i \in Triggers |-> @[i] + Cardinality(found(i))]]
      /\ answer' = [answer EXCEPT ![a] = <<>>]
      /\ UNCHANGED <<status, owner, handlers, triggers, queue, config, stats, overlapped, faults>>
  BY DEF Receive, server
<1>3. \A b \in Agents, i \in Triggers :
        started'[b][i] = IF b # a \/ found(i) = {} THEN started[b][i] ELSE 1
  <2>1. \A b \in Agents, i \in Triggers : started[b][i] \in Nat
    BY <1>1 DEF TypeOK
  <2>2. \A b \in Agents : b # a => started'[b] = started[b]
    BY <1>1, <1>2 DEF TypeOK
  <2>3. started'[a] = [i \in Triggers |-> started[a][i] + Cardinality(found(i))]
    BY <1>1, <1>2 DEF TypeOK
  <2>4. \A i \in Triggers : /\ found(i) = {} => Cardinality(found(i)) = 0
                            /\ found(i) # {} => Cardinality(found(i)) = 1 /\ started[a][i] = 0
    BY Counted
  <2> HIDE DEF found
  <2>5. \A i \in Triggers : started'[a][i] = IF found(i) = {} THEN started[a][i] ELSE 1
    BY <2>1, <2>3, <2>4
  <2> QED  BY <2>2, <2>5
<1>4. \A n \in DOMAIN answer[a] : answer[a][n].id \in Triggers /\ answer[a][n].scan \in Scans
  BY <1>1, Elements
<1>5. \A x \in new : \E n \in DOMAIN answer[a] : x = Thread(answer[a][n].id, answer[a][n].scan, "save")
  BY DEF ToSet
<1>6. ASSUME NEW x \in new
      PROVE  /\ x \in RemoteData
             /\ \E n \in DOMAIN answer[a] : x.id = answer[a][n].id /\ x.scan = answer[a][n].scan
  <2>1. PICK n \in DOMAIN answer[a] : x = Thread(answer[a][n].id, answer[a][n].scan, "save")
    BY <1>5
  <2>2. x.id = answer[a][n].id /\ x.scan = answer[a][n].scan
    BY <2>1 DEF Thread
  <2>3. x \in RemoteData
    BY <1>4, <2>1 DEF Thread, RemoteData, Steps, Settings, AsConfigured, Sources
  <2> QED  BY <2>2, <2>3
<1> HIDE DEF new
<1>7. /\ \A b \in Agents : runs'[b] = IF b = a THEN runs[a] \cup new ELSE runs[b]
      /\ \A b \in Agents : answer'[b] = IF b = a THEN <<>> ELSE answer[b]
      /\ answer' \in [Agents -> Seq(Command)]
  <2>1. answer \in [Agents -> Seq(Command)] /\ <<>> \in Seq(Command)
    BY <1>1 DEF TypeOK
  <2> QED  BY <1>1, <1>2, <2>1 DEF TypeOK
<1>8. \A i \in Triggers : found(i) # {} <=> \E n \in DOMAIN answer[a] : answer[a][n].id = i
  OBVIOUS
<1> HIDE DEF found
<1>9. TypeOK'
  <2>1. runs' \in [Agents -> SUBSET ThreadData]
    <3>1. new \subseteq ThreadData
      BY <1>6 DEF ThreadData, RemoteData
    <3> QED  BY <1>1, <1>2, <3>1 DEF TypeOK
  <2>2. \A b \in Agents : \A q, r \in runs'[b] : q.id = r.id => q = r
    <3>1. ASSUME NEW q \in new, NEW r \in new, q.id = r.id PROVE q = r
      <4>1. PICK m \in DOMAIN answer[a] : q = Thread(answer[a][m].id, answer[a][m].scan, "save")
        BY <1>5
      <4>2. PICK n \in DOMAIN answer[a] : r = Thread(answer[a][n].id, answer[a][n].scan, "save")
        BY <1>5
      <4>3. answer[a][m].id = answer[a][n].id
        BY <3>1, <4>1, <4>2 DEF Thread
      <4> QED  BY <4>1, <4>2, <4>3 DEF Answering, Inv
    <3>2. ASSUME NEW q \in new, NEW r \in runs[a] PROVE q.id # r.id
      <4>1. q.id \in Triggers /\ started[a][q.id] = 0
        BY <1>6, <1>4 DEF Answering, Inv
      <4>2. q.id # 0
        BY <4>1 DEF Triggers
      <4> QED  BY <4>1, <4>2 DEF Running, Remote, Inv
    <3>3. \A b \in Agents : \A q, r \in runs[b] : q.id = r.id => q = r
      BY <1>1 DEF TypeOK
    <3> QED  BY <1>7, <3>1, <3>2, <3>3
  <2>3. started' \in [Agents -> [Triggers -> Nat]]
    <3>1. \A b \in Agents : started[b] \in [Triggers -> Nat]
      BY <1>1 DEF TypeOK
    <3>2. [i \in Triggers |-> started[a][i] + Cardinality(found(i))] \in [Triggers -> Nat]
      <4>1. \A i \in Triggers : started[a][i] + Cardinality(found(i)) \in Nat
        BY <3>1, Counted DEF found
      <4> QED  BY <4>1
    <3> QED  BY <1>1, <1>2, <3>2 DEF TypeOK
  <2> QED  BY <1>1, <1>2, <1>7, <2>1, <2>2, <2>3 DEF TypeOK
<1>10. \A b \in Agents, i \in Triggers :
         (\A n \in DOMAIN answer[a] : answer[a][n].id # i) => started'[b][i] = started[b][i]
  BY <1>3, <1>8
<1>11. Handling'
  <2>1. \A h \in handlers : h.id \in Triggers /\ \A n \in DOMAIN answer[a] : answer[a][n].id # h.id
    BY <1>1 DEF TypeOK, Answering, Inv
  <2> QED  BY <1>2, <1>10, <2>1 DEF Handling, Inv
<1>12. Queueing'
  <2>1. \A k \in Keys : \A m \in DOMAIN queue[k] :
          /\ queue[k][m].id \in Triggers
          /\ \A n \in DOMAIN answer[a] : answer[a][n].id # queue[k][m].id
    BY <1>1, Elements DEF Answering, Inv
  <2>2. \A k \in Keys : \A m \in DOMAIN queue[k] :
          \A b \in Agents : started'[b][queue[k][m].id] = 0
    BY <1>10, <2>1 DEF Queueing, Inv
  <2> QED  BY <1>2, <2>2 DEF Queueing, Inv
<1>13. Answering'
  <2>1. \A b \in Agents : \A m \in DOMAIN answer'[b] :
          b # a /\ m \in DOMAIN answer[b] /\ answer'[b][m] = answer[b][m]
    BY <1>7
  <2>2. \A b \in Agents : \A m \in DOMAIN answer'[b] :
          \A c \in Agents : started'[c][answer[b][m].id] = 0
    <3>1. ASSUME NEW b \in Agents, NEW m \in DOMAIN answer'[b]
          PROVE  \A c \in Agents : started'[c][answer[b][m].id] = 0
      <4>1. answer[b][m].id \in Triggers /\ \A n \in DOMAIN answer[a] : answer[a][n].id # answer[b][m].id
        BY <1>1, <2>1, Elements DEF Answering, Inv
      <4> QED  BY <1>10, <2>1, <4>1 DEF Answering, Inv
    <3> QED  BY <3>1
  <2> QED  BY <1>2, <2>1, <2>2 DEF Answering, Inv
<1>14. Starting'
  <2>1. \A i \in Triggers : found(i) # {} => i <= triggers
    BY <1>8 DEF Answering, Inv
  <2>2. ASSUME NEW b \in Agents, NEW i \in Triggers
        PROVE  started'[b][i] \in {0, 1} /\ (i > triggers' => started'[b][i] = 0)
    <3>1. CASE b # a \/ found(i) = {}
      BY <1>2, <1>3, <3>1 DEF Starting, Inv
    <3>2. CASE b = a /\ found(i) # {}
      <4>1. i <= triggers /\ i \in Int /\ triggers \in Int
        BY <1>1, <2>1, <3>2, DiscoverAssumption DEF DiscoverAssumption, TypeOK, Triggers
      <4>2. ~(i > triggers')
        BY <1>2, <4>1
      <4> QED  BY <1>3, <3>2, <4>2
    <3> QED  BY <3>1, <3>2
  <2> QED  BY <2>2 DEF Starting
<1>15. Running'
  <2>1. ASSUME NEW b \in Agents, NEW r \in runs[b], Remote(r)
        PROVE  started'[b][r.id] = 1 /\ status'[r.scan] # "pending"
    <3>1. r.id \in Triggers
      BY <2>1, Kinds DEF RemoteData
    <3> QED  BY <1>2, <1>3, <2>1, <3>1 DEF Running, Inv
  <2>2. ASSUME NEW r \in new
        PROVE  started'[a][r.id] = 1 /\ status'[r.scan] # "pending"
    BY <1>2, <1>3, <1>4, <1>6, <1>8 DEF Answering, Inv
  <2> QED  BY <1>7, <2>1, <2>2 DEF Running, Remote
<1> QED  BY <1>9, <1>11, <1>12, <1>13, <1>14, <1>15 DEF Inv

-------------------------------------------------------------------------------
LEMMA StutterInv == ASSUME Inv, UNCHANGED vars PROVE Inv'
<1>1. UNCHANGED <<status, owner, handlers, triggers, queue, answer, config, stats, runs,
                  overlapped, started, faults>>
  BY DEF vars, server, scanner
<1>2. TypeOK'
  BY <1>1 DEF TypeOK, Inv
<1>3. Handling' /\ Queueing' /\ Answering' /\ Starting' /\ Running'
  BY <1>1 DEF Handling, Queueing, Answering, Starting, Running, Inv
<1> QED  BY <1>2, <1>3 DEF Inv

LEMMA NextInv == Inv /\ [Next]_vars => Inv'
<1> SUFFICES ASSUME Inv, [Next]_vars PROVE Inv'
  OBVIOUS
<1>1. ASSUME NEW s \in Scans, Trigger(s) PROVE Inv'
  BY <1>1, TriggerInv
<1>2. ASSUME NEW s \in Scans, Complete(s) PROVE Inv'
  BY <1>2, CompleteInv
<1>3. ASSUME NEW s \in Scans, NEW a \in Agents \cup {NoAgent}, Update(s, a) PROVE Inv'
  BY <1>3, UpdateInv
<1>4. ASSUME NEW h \in handlers, Handle(h) PROVE Inv'
  BY <1>4, CommitInv, EnqueueInv DEF Handle
<1>5. ASSUME NEW a \in Agents, Heartbeat(a) PROVE Inv'
  BY <1>5, HeartbeatInv
<1>6. ASSUME NEW a \in Agents, Receive(a) PROVE Inv'
  BY <1>6, ReceiveInv
<1>7. ASSUME NEW a \in Agents, PeriodicScan(a) PROVE Inv'
  BY <1>7, PeriodicScanInv
<1>8. ASSUME NEW a \in Agents, NEW r \in runs[a], Scan(a, r) \/ ReportFails(a, r) PROVE Inv'
  BY <1>8, SaveInv, ApplyInv, BeginInv, FileInv, RestoreInv, ReportInv, ReportFailsInv DEF Scan
<1>9. ASSUME ServerRestarts PROVE Inv'
  BY <1>9, ServerRestartsInv
<1>10. ASSUME NEW a \in Agents, LoseAnswer(a) PROVE Inv'
  BY <1>10, LoseAnswerInv
<1>11. ASSUME NEW a \in Agents, AgentRestarts(a) PROVE Inv'
  <2>1. faults' \in 0 .. MaxFaults
    BY <1>11, DiscoverAssumption DEF DiscoverAssumption, AgentRestarts, Fault, Inv, TypeOK
  <2> QED  BY <1>11, <2>1, FreshInv DEF AgentRestarts
<1>12. CASE UNCHANGED vars
  BY <1>12, StutterInv
<1> QED
  BY <1>1, <1>2, <1>3, <1>4, <1>5, <1>6, <1>7, <1>8, <1>9, <1>10, <1>11, <1>12 DEF Next

LEMMA Invariant == Spec => []Inv
BY InitInv, NextInv, PTL DEF Spec

\* In every reachable state commands, handlers, threads and settings are what the
\* code takes them for, and no agent has two threads for one command.
THEOREM TypeCorrect == Spec => []TypeOK
<1>1. Inv => TypeOK
  BY DEF Inv
<1> QED  BY <1>1, Invariant, PTL

\* The queue pops a command before the heartbeat hands it out, and the callback
\* starts one thread for it: no agent ever starts a command twice, however heartbeats of
\* several agents, restarts and lost answers interleave.
THEOREM StartedOnce == Spec => []DeliveredOnce
<1>1. Inv => DeliveredOnce
  BY DEF Inv, Starting, DeliveredOnce
<1> QED  BY <1>1, Invariant, PTL

\* trigger_discover queues after its commit: no command in the queue, on its way
\* or at an agent is for a scan that is pending in the database.
THEOREM NeverBeforeCommit == Spec => []TriggeredFirst
<1>1. Inv => TriggeredFirst
  <2> SUFFICES ASSUME Inv, NEW s \in Scans, status[s] = "pending"
               PROVE  /\ \A k \in Keys : \A c \in ToSet(queue[k]) : c.scan # s
                      /\ \A a \in Agents : /\ \A c \in ToSet(answer[a]) : c.scan # s
                                           /\ \A r \in runs[a] : r.scan # s
    BY DEF TriggeredFirst
  <2>1. \A k \in Keys : \A c \in ToSet(queue[k]) : c.scan # s
    BY DEF Inv, Queueing, ToSet
  <2>2. \A a \in Agents : \A c \in ToSet(answer[a]) : c.scan # s
    BY DEF Inv, Answering, ToSet
  <2>3. ASSUME NEW a \in Agents, NEW r \in runs[a] PROVE r.scan # s
    <3>1. CASE Remote(r)
      BY <3>1 DEF Inv, Running
    <3>2. CASE ~Remote(r)
      BY <3>2, Kinds, DiscoverAssumption DEF PeriodicData, DiscoverAssumption
    <3> QED  BY <3>1, <3>2
  <2> QED  BY <2>1, <2>2, <2>3
<1> QED  BY <1>1, Invariant, PTL
-------------------------------------------------------------------------------
(* A scan that is alone on its agent's scanner: the settings are the ones  *)
(* its step expects, and the counters hold at most its own walk.           *)

Own(r) == {[by |-> r.id, dir |-> r.id, extensions |-> IF r.id \in Filtered THEN r.id ELSE 0]}

OnCourse(a, r) ==
  /\ config[a] = IF Remote(r) /\ r.step # "apply" THEN Override(AsConfigured, r.id)
                 ELSE AsConfigured
  /\ Remote(r) => /\ r.saved = AsConfigured
                  /\ r.step = "file" => r.dir = r.id
                  /\ stats[a] \subseteq IF r.step = "restore" THEN Own(r) ELSE {}

Alone(a) ==
  /\ \A q, r \in runs[a] : Busy(q) /\ Busy(r) => q = r
  /\ \A r \in runs[a] : Busy(r) => OnCourse(a, r)
  /\ \A r \in runs[a] : r.result \subseteq Own(r)
  /\ (\A r \in runs[a] : ~Busy(r)) => config[a] = AsConfigured

Exclusive == \A a \in Agents : ~overlapped[a] => Alone(a)

\* An agent's step leaves the other agents' scanners alone.
LEMMA ExclusiveAt ==
  ASSUME Exclusive, NEW a \in Agents,
         \A b \in Agents \ {a} : /\ config'[b] = config[b] /\ stats'[b] = stats[b]
                                 /\ runs'[b] = runs[b] /\ overlapped'[b] = overlapped[b],
         ~overlapped'[a] => Alone(a)'
  PROVE  Exclusive'
<1> SUFFICES ASSUME NEW b \in Agents, ~overlapped'[b] PROVE Alone(b)'
  BY DEF Exclusive
<1>1. CASE b = a
  BY <1>1
<1>2. CASE b # a
  <2>1. Alone(b)
    BY <1>2 DEF Exclusive
  <2> QED  BY <1>2, <2>1 DEF Alone, OnCourse
<1> QED  BY <1>1, <1>2

\* One thread at most is in the middle of a scan, and that one is on its course.
LEMMA AloneWith ==
  ASSUME NEW a \in Agents, NEW others, NEW new, runs'[a] = others \cup new,
         \A q \in others : ~Busy(q) /\ q.result \subseteq Own(q),
         \A x, y \in new : x = y,
         \A x \in new : x.result \subseteq Own(x) /\ (Busy(x) => OnCourse(a, x)'),
         (\A x \in new : ~Busy(x)) => config'[a] = AsConfigured
  PROVE  Alone(a)'
BY DEF Alone

LEMMA OthersIdle ==
  ASSUME NEW a \in Agents, Alone(a), NEW r \in runs[a], Busy(r)
  PROVE  /\ OnCourse(a, r)
         /\ \A q \in runs[a] \ {r} : ~Busy(q) /\ q.result \subseteq Own(q)
BY DEF Alone

LEMMA ReceiveAlone == ASSUME Inv, Exclusive, NEW a \in Agents, Receive(a) PROVE Exclusive'
<1> DEFINE new == {Thread(c.id, c.scan, "save") : c \in ToSet(answer[a])}
<1>1. /\ \A b \in Agents : runs'[b] = IF b = a THEN runs[a] \cup new ELSE runs[b]
      /\ UNCHANGED <<config, stats, overlapped>>
  BY DEF Receive, Inv, TypeOK
<1>2. \A x \in new : x.step = "save" /\ x.result = {}
  BY DEF Thread
<1> HIDE DEF new
<1>3. Alone(a) => Alone(a)'
  BY <1>1, <1>2 DEF Alone, OnCourse, Busy
<1> QED  BY <1>1, <1>3, ExclusiveAt DEF Exclusive

LEMMA PeriodicScanAlone == ASSUME Inv, Exclusive, NEW a \in Agents, PeriodicScan(a) PROVE Exclusive'
<1> DEFINE new == Thread(0, Configured, "begin")
<1>1. /\ \A b \in Agents : runs'[b] = IF b = a THEN runs[a] \cup {new} ELSE runs[b]
      /\ \A b \in Agents : overlapped'[b] = IF b = a THEN overlapped[a] \/ \E r \in runs[a] : Busy(r)
                                            ELSE overlapped[b]
      /\ UNCHANGED <<config, stats>>
  BY DEF PeriodicScan, Inv, TypeOK
<1>2. new.step = "begin" /\ new.result = {} /\ ~Remote(new)
  BY DEF Thread, Remote
<1> HIDE DEF new
<1>3. ASSUME ~overlapped'[a] PROVE Alone(a)'
  <2>1. Alone(a) /\ \A r \in runs[a] : ~Busy(r)
    BY <1>1, <1>3 DEF Exclusive
  <2>2. config'[a] = AsConfigured
    BY <1>1, <2>1 DEF Alone
  <2>3. OnCourse(a, new)'
    BY <1>2, <2>2 DEF OnCourse
  <2>4. \A q \in runs[a] : q.result \subseteq Own(q)
    BY <2>1 DEF Alone
  <2> DEFINE others == runs[a]  added == {new}
  <2>5. /\ \A q \in others : ~Busy(q) /\ q.result \subseteq Own(q)
        /\ \A x, y \in added : x = y
        /\ \A x \in added : x.result \subseteq Own(x) /\ (Busy(x) => OnCourse(a, x)')
        /\ runs'[a] = others \cup added
    BY <1>1, <1>2, <2>1, <2>3, <2>4
  <2> HIDE DEF others, added
  <2> QED  BY <2>2, <2>5, AloneWith
<1> QED  BY <1>1, <1>3, ExclusiveAt

LEMMA SaveAlone ==
  ASSUME Inv, Exclusive, NEW a \in Agents, NEW r \in runs[a], Save(a, r) PROVE Exclusive'
<1>0. PICK new : new = [r EXCEPT !.step = "apply", !.saved = config[a]]
  OBVIOUS
<1>1. /\ r.step = "save"
      /\ \A b \in Agents : runs'[b] = IF b = a THEN (runs[a] \ {r}) \cup {new} ELSE runs[b]
      /\ \A b \in Agents : overlapped'[b] = IF b = a THEN overlapped[a] \/ \E q \in runs[a] \ {r} : Busy(q)
                                            ELSE overlapped[b]
      /\ \A b \in Agents : stats'[b] = IF b = a THEN {} ELSE stats[b]
      /\ UNCHANGED config
  BY <1>0 DEF Save, SaveSettings, Replace, Inv, TypeOK
<1>2. /\ new.step = "apply" /\ new.id = r.id /\ new.scan = r.scan /\ new.result = r.result
      /\ new.saved = config[a]
  <2>1. r \in RemoteData
    BY <1>1, Kinds DEF PeriodicData
  <2> QED  BY <1>0, <2>1 DEF RemoteData
<1>3. ASSUME ~overlapped'[a] PROVE Alone(a)'
  <2>1. Alone(a) /\ \A q \in runs[a] : ~Busy(q)
    BY <1>1, <1>3 DEF Exclusive, Busy
  <2>2. config[a] = AsConfigured /\ \A q \in runs[a] : q.result \subseteq Own(q)
    BY <2>1 DEF Alone
  <2>3. OnCourse(a, new)'
    BY <1>1, <1>2, <2>2 DEF OnCourse
  <2>4. new.result \subseteq Own(new) /\ Busy(new)
    BY <1>2, <2>2 DEF Own, Busy
  <2> DEFINE others == runs[a] \ {r}  added == {new}
  <2>5. /\ \A q \in others : ~Busy(q) /\ q.result \subseteq Own(q)
        /\ \A x, y \in added : x = y
        /\ \A x \in added : x.result \subseteq Own(x) /\ (Busy(x) => OnCourse(a, x)')
        /\ runs'[a] = others \cup added
        /\ \E x \in added : Busy(x)
    BY <1>1, <2>1, <2>2, <2>3, <2>4
  <2> HIDE DEF others, added
  <2> QED  BY <2>5, AloneWith
<1> QED  BY <1>1, <1>3, ExclusiveAt

\* The other threads are told that the settings changed under them.
LEMMA AssignAlone ==
  ASSUME Inv, Exclusive, NEW a \in Agents, NEW r \in runs[a], NEW settings, NEW new,
         Assign(a, r, settings, new), Busy(r),
         ~overlapped[a] => /\ new.result \subseteq Own(new)
                           /\ Busy(new) => OnCourse(a, new)'
                           /\ ~Busy(new) => settings = AsConfigured
  PROVE  Exclusive'
<1> DEFINE others == {Dangle(q) : q \in runs[a] \ {r}}
<1>1. /\ \A b \in Agents : runs'[b] = IF b = a THEN others \cup {new} ELSE runs[b]
      /\ \A b \in Agents : config'[b] = IF b = a THEN settings ELSE config[b]
      /\ UNCHANGED <<stats, overlapped>>
  BY DEF Assign, Dangle, Inv, TypeOK
<1>2. ASSUME ~overlapped[a] PROVE Alone(a)'
  <2>1. \A q \in runs[a] \ {r} : ~Busy(q) /\ q.result \subseteq Own(q)
    BY <1>2, OthersIdle DEF Exclusive
  <2>2. ASSUME NEW q \in runs[a]
        PROVE  /\ Dangle(q).step = q.step /\ Dangle(q).result = q.result
               /\ Dangle(q).id = q.id /\ Dangle(q).scan = q.scan
    BY Kinds DEF RemoteData, PeriodicData, Dangle
  <2>3. \A x \in others : ~Busy(x) /\ x.result \subseteq Own(x)
    BY <2>1, <2>2 DEF Busy, Own
  <2> HIDE DEF others
  <2>4. \A x, y \in {new} : x = y
    OBVIOUS
  <2> QED  BY <1>1, <1>2, <2>3, <2>4, AloneWith
<1> QED  BY <1>1, <1>2, ExclusiveAt

LEMMA ApplyAlone ==
  ASSUME Inv, Exclusive, NEW a \in Agents, NEW r \in runs[a], Apply(a, r) PROVE Exclusive'
<1> DEFINE new == [r EXCEPT !.step = "begin"]
<1>1. r.step = "apply" /\ Assign(a, r, Override(config[a], r.id), new) /\ UNCHANGED stats
  BY DEF Apply, Assign
<1>2. /\ r \in RemoteData /\ Remote(r)
      /\ new.step = "begin" /\ new.id = r.id /\ new.scan = r.scan /\ new.result = r.result
      /\ new.saved = r.saved
  <2>1. r \in RemoteData /\ Remote(r)
    BY <1>1, Kinds DEF PeriodicData
  <2> QED  BY <2>1 DEF RemoteData
<1>3. config'[a] = Override(config[a], r.id)
  BY <1>1 DEF Assign, Inv, TypeOK
<1> HIDE DEF new
<1>4. Busy(r) /\ Busy(new)
  BY <1>1, <1>2 DEF Busy
<1>5. ASSUME ~overlapped[a] PROVE new.result \subseteq Own(new) /\ OnCourse(a, new)'
  <2>1. OnCourse(a, r) /\ r.result \subseteq Own(r)
    BY <1>4, <1>5, OthersIdle DEF Exclusive, Alone
  <2> QED  BY <1>1, <1>2, <1>3, <2>1 DEF OnCourse, Own, Remote
<1> QED  BY <1>1, <1>4, <1>5, AssignAlone

LEMMA RestoreAlone ==
  ASSUME Inv, Exclusive, NEW a \in Agents, NEW r \in runs[a], Restore(a, r) PROVE Exclusive'
<1> DEFINE new == [r EXCEPT !.step = "report", !.result = stats[a]]
<1>1. r.step = "restore" /\ Assign(a, r, r.saved, new)
  BY DEF Restore
<1>2. /\ Remote(r)
      /\ new.step = "report" /\ new.id = r.id /\ new.scan = r.scan /\ new.result = stats[a]
  <2>1. r \in RemoteData /\ Remote(r)
    BY <1>1, Kinds DEF PeriodicData
  <2> QED  BY <2>1 DEF RemoteData
<1> HIDE DEF new
<1>3. Busy(r) /\ ~Busy(new)
  BY <1>1, <1>2 DEF Busy
<1>4. ASSUME ~overlapped[a] PROVE new.result \subseteq Own(new) /\ r.saved = AsConfigured
  <2>1. OnCourse(a, r)
    BY <1>3, <1>4, OthersIdle DEF Exclusive
  <2> QED  BY <1>1, <1>2, <2>1 DEF OnCourse, Own
<1> QED  BY <1>1, <1>3, <1>4, AssignAlone

\* The two steps of a full scan that leave the settings alone.
LEMMA StepAlone ==
  ASSUME Inv, Exclusive, NEW a \in Agents, NEW r \in runs[a], Busy(r), NEW new, Replace(a, r, new),
         \A b \in Agents \ {a} : stats'[b] = stats[b], UNCHANGED <<config, overlapped>>,
         \A x, y \in new : x = y,
         ~overlapped[a] => /\ \A x \in new : x.result \subseteq Own(x) /\ (Busy(x) => OnCourse(a, x)')
                           /\ (\A x \in new : ~Busy(x)) => config[a] = AsConfigured
  PROVE  Exclusive'
<1>1. \A b \in Agents : runs'[b] = IF b = a THEN (runs[a] \ {r}) \cup new ELSE runs[b]
  BY DEF Replace, Inv, TypeOK
<1>2. ASSUME ~overlapped[a] PROVE Alone(a)'
  <2>1. \A q \in runs[a] \ {r} : ~Busy(q) /\ q.result \subseteq Own(q)
    BY <1>2, OthersIdle DEF Exclusive
  <2> QED  BY <1>1, <1>2, <2>1, AloneWith
<1> QED  BY <1>1, <1>2, ExclusiveAt

LEMMA BeginAlone ==
  ASSUME Inv, Exclusive, NEW a \in Agents, NEW r \in runs[a], Begin(a, r) PROVE Exclusive'
<1>0. PICK walking : walking = [r EXCEPT !.step = "file", !.dir = config[a].dir]
  OBVIOUS
<1> DEFINE ended == [r EXCEPT !.step = "restore", !.dangling = FALSE]
<1>1. /\ r.step = "begin" /\ UNCHANGED <<config, stats, overlapped>>
      /\ Replace(a, r, IF a \in Scanning THEN {walking} ELSE Done(r))
  BY <1>0 DEF Begin
<1>2. Busy(r)
  BY <1>1 DEF Busy
<1>3. /\ walking.step = "file" /\ walking.id = r.id /\ walking.scan = r.scan
      /\ walking.result = r.result /\ walking.saved = r.saved /\ walking.dir = config[a].dir
      /\ ended.step = "restore" /\ ended.id = r.id /\ ended.scan = r.scan
      /\ ended.result = r.result /\ ended.saved = r.saved
  BY <1>0, Kinds DEF RemoteData, PeriodicData
<1>4. Done(r) = IF Remote(r) THEN {ended} ELSE {}
  BY DEF Done
<1> HIDE DEF ended
<1>5. Busy(walking) /\ Busy(ended)
  BY <1>3 DEF Busy
<1>6. ASSUME ~overlapped[a]
      PROVE  /\ walking.result \subseteq Own(walking) /\ OnCourse(a, walking)'
             /\ Remote(r) => ended.result \subseteq Own(ended) /\ OnCourse(a, ended)'
             /\ ~Remote(r) => config[a] = AsConfigured
  <2>1. OnCourse(a, r) /\ r.result \subseteq Own(r)
    BY <1>2, <1>6, OthersIdle DEF Exclusive, Alone
  <2>2. walking.result \subseteq Own(walking) /\ ended.result \subseteq Own(ended)
    BY <1>3, <2>1 DEF Own
  <2>3. (Remote(walking) <=> Remote(r)) /\ (Remote(ended) <=> Remote(r))
    BY <1>3 DEF Remote
  <2>4. OnCourse(a, walking)'
    BY <1>1, <1>3, <2>1, <2>3 DEF OnCourse, Override, AsConfigured
  <2>5. Remote(r) => OnCourse(a, ended)'
    BY <1>1, <1>3, <2>1, <2>3 DEF OnCourse
  <2>6. ~Remote(r) => config[a] = AsConfigured
    BY <2>1 DEF OnCourse
  <2> QED  BY <2>2, <2>4, <2>5, <2>6
<1> DEFINE new == IF a \in Scanning THEN {walking} ELSE Done(r)
<1>7. /\ \A x, y \in new : x = y
      /\ ~overlapped[a] => /\ \A x \in new : x.result \subseteq Own(x) /\ (Busy(x) => OnCourse(a, x)')
                           /\ (\A x \in new : ~Busy(x)) => config[a] = AsConfigured
  <2>1. CASE a \in Scanning
    BY <1>5, <1>6, <2>1
  <2>2. CASE a \notin Scanning
    BY <1>4, <1>5, <1>6, <2>2
  <2> QED  BY <2>1, <2>2
<1> HIDE DEF new
<1>8. Replace(a, r, new)
  BY <1>1 DEF new
<1> QED  BY <1>1, <1>2, <1>7, <1>8, StepAlone

LEMMA FreshAlone == ASSUME Inv, Exclusive, NEW a \in Agents, Fresh(a) PROVE Exclusive'
<1>1. /\ runs'[a] = {} /\ config'[a] = AsConfigured
      /\ \A b \in Agents \ {a} : /\ config'[b] = config[b] /\ stats'[b] = stats[b]
                                 /\ runs'[b] = runs[b] /\ overlapped'[b] = overlapped[b]
  BY DEF Fresh, Inv, TypeOK
<1>2. Alone(a)'
  BY <1>1 DEF Alone
<1> QED  BY <1>1, <1>2, ExclusiveAt

LEMMA FileAlone ==
  ASSUME Inv, Exclusive, NEW a \in Agents, NEW r \in runs[a], File(a, r) PROVE Exclusive'
<1> DEFINE ended == [r EXCEPT !.step = "restore", !.dangling = FALSE]
           walk == [by |-> r.id, dir |-> r.dir, extensions |-> config[a].extensions]
<1>1. r.step = "file" /\ Busy(r)
  BY DEF File, Busy
<1>2. ASSUME stats' = [stats EXCEPT ![a] = @ \cup {walk}], Replace(a, r, Done(r)),
             UNCHANGED <<config, overlapped>>
      PROVE  Exclusive'
  <2>1. \A b \in Agents : stats'[b] = IF b = a THEN stats[a] \cup {walk} ELSE stats[b]
    BY <1>2 DEF Inv, TypeOK
  <2>2. /\ ended.step = "restore" /\ ended.id = r.id /\ ended.scan = r.scan
        /\ ended.result = r.result /\ ended.saved = r.saved
    BY Kinds DEF RemoteData, PeriodicData
  <2>3. Done(r) = IF Remote(r) THEN {ended} ELSE {}
    BY DEF Done
  <2> HIDE DEF ended
  <2>4. ASSUME ~overlapped[a]
        PROVE  /\ Remote(r) => ended.result \subseteq Own(ended) /\ OnCourse(a, ended)'
               /\ ~Remote(r) => config[a] = AsConfigured
    <3>1. OnCourse(a, r) /\ r.result \subseteq Own(r)
      BY <1>1, <2>4, OthersIdle DEF Exclusive, Alone
    <3>2. Remote(r) => Own(ended) = Own(r) /\ {walk} = Own(r) /\ stats[a] = {}
      BY <1>1, <2>2, <3>1 DEF OnCourse, Own, Override, AsConfigured
    <3> HIDE DEF walk
    <3>3. Remote(r) => stats'[a] \subseteq Own(ended)
      BY <2>1, <3>2
    <3> QED  BY <1>1, <1>2, <2>2, <3>1, <3>2, <3>3 DEF OnCourse, Remote
  <2> HIDE DEF walk
  <2>5. Busy(ended)
    BY <2>2 DEF Busy
  <2> QED  BY <1>1, <1>2, <2>1, <2>3, <2>4, <2>5, StepAlone
<1>3. CASE Fresh(a)
  BY <1>3, FreshAlone
<1> QED  BY <1>2, <1>3 DEF File

\* A thread that has only its report left takes nothing along when it ends.
LEMMA LeaveAlone ==
  ASSUME Inv, Exclusive, NEW a \in Agents, NEW r \in runs[a], r.step = "report",
         Replace(a, r, {}), UNCHANGED <<config, stats, overlapped>>
  PROVE  Exclusive'
<1>1. \A b \in Agents : runs'[b] = IF b = a THEN runs[a] \ {r} ELSE runs[b]
  BY DEF Replace, Inv, TypeOK
<1>2. ~Busy(r)
  BY DEF Busy
<1>3. Alone(a) => Alone(a)'
  BY <1>1, <1>2 DEF Alone, OnCourse
<1> QED  BY <1>1, <1>3, ExclusiveAt DEF Exclusive

LEMMA ExclusiveKept == ASSUME Exclusive, UNCHANGED scanner PROVE Exclusive'
BY DEF Exclusive, Alone, OnCourse, scanner

LEMMA NextExclusive == Inv /\ Exclusive /\ [Next]_vars => Exclusive'
<1> SUFFICES ASSUME Inv, Exclusive, [Next]_vars PROVE Exclusive'
  OBVIOUS
<1>1. CASE UNCHANGED scanner
  BY <1>1, ExclusiveKept
<1>2. ASSUME NEW a \in Agents, Heartbeat(a) \/ Receive(a) \/ PeriodicScan(a) \/ LoseAnswer(a)
                               \/ AgentRestarts(a)
      PROVE  Exclusive'
  <2>1. CASE Heartbeat(a) \/ LoseAnswer(a)
    BY <1>1, <2>1 DEF Heartbeat, LoseAnswer
  <2> QED  BY <1>2, <2>1, ReceiveAlone, PeriodicScanAlone, FreshAlone DEF AgentRestarts
<1>3. ASSUME NEW a \in Agents, NEW r \in runs[a], Scan(a, r) \/ ReportFails(a, r) PROVE Exclusive'
  <2>1. CASE Report(a, r) \/ ReportFails(a, r)
    <3>1. r.step = "report" /\ Replace(a, r, {}) /\ UNCHANGED <<config, stats, overlapped>>
      BY <2>1 DEF Report, ReportFails
    <3> QED  BY <3>1, LeaveAlone
  <2> QED  BY <1>3, <2>1, SaveAlone, ApplyAlone, BeginAlone, FileAlone, RestoreAlone DEF Scan
<1>4. ASSUME NEW s \in Scans, Trigger(s) \/ Complete(s) \/ \E a \in Agents \cup {NoAgent} : Update(s, a)
      PROVE  Exclusive'
  BY <1>1, <1>4 DEF Trigger, Complete, Update
<1>5. ASSUME NEW h \in handlers, Handle(h) PROVE Exclusive'
  BY <1>1, <1>5 DEF Handle, Commit, Enqueue, EnqueueOn
<1>6. CASE ServerRestarts \/ UNCHANGED vars
  BY <1>1, <1>6 DEF ServerRestarts, vars
<1> QED  BY <1>2, <1>3, <1>4, <1>5, <1>6 DEF Next

\* However scans, restarts, lost answers and reports interleave: as long as no two
\* scans of an agent were in progress at once, RunRemoteScan reports its own walk and
\* puts the agent's settings back.
THEOREM ScansExact == Spec => []UndisturbedScanIsExact
<1>1. Init => Exclusive
  BY DEF Init, Exclusive, Alone
<1>2. Exclusive => UndisturbedScanIsExact
  BY DEF Exclusive, Alone, Own, UndisturbedScanIsExact
<1> QED  BY <1>1, <1>2, Invariant, NextExclusive, PTL DEF Spec
===============================================================================
