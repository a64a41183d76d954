---------------------------- MODULE Access_proofs ----------------------------
(***************************************************************************)
(* Proofs about who may speak to the server: agents by the row that        *)
(* AgentConnection gives them, users by the sessions and tokens of         *)
(* Sessions, for any number of agents, users, requests, failures and       *)
(* deletions.                                                              *)
(*                                                                         *)
(* An agent's identity rests on ids never being given twice, and on what a *)
(* registration has read staying true of its hostname until it commits.    *)
(* A user's rests on what a request carries from the row it has read: it   *)
(* is still so, or it is marked as old by the commit that changed the row. *)
(***************************************************************************)
EXTENDS AgentConnection, Sessions, FiniteSetTheorems, TLAPS

-----------------------------------------------------------------------------
(* Agents: the invariant.                                                  *)

Ids == 1 .. next - 1
CallRec == [op : {"none", "register", "heartbeat"}, at : {"none", "sent", "read", "answered"},
           seen : SUBSET Nat]

\* The types of variables; what TypeOK says of several of them is Linked.
Typed ==
  /\ next \in 1 .. MaxRows + 1 /\ DOMAIN table \subseteq Ids
  /\ \A i \in DOMAIN table : table[i] \in Hosts
  /\ thread \in [Agents -> {"sleeping", "connecting", "calling", "ended"}]
  /\ call \in [Agents -> CallRec]
  /\ conn \in [Agents -> {"connected", "connecting", "backoff"}]
  /\ registered \in [Agents -> BOOLEAN] /\ agentId \in [Agents -> Nat]
  /\ dog \in [Agents -> {"watching", "stopping"}]
  /\ had \in [Agents -> SUBSET Ids]

Linked ==
  \A a \in Agents :
    /\ call[a] # NoCall <=> thread[a] = "calling"
    /\ registered[a] => agentId[a] # NoId
    /\ agentId[a] # NoId => agentId[a] \in had[a]
    /\ thread[a] = "ended" => dog[a] = "stopping"
    /\ thread[a] = "connecting" <=> conn[a] = "connecting"

\* What a registration has seen are rows of its hostname, at most one, and all that is left
\* of the ids its agent has had.
Seen ==
  \A a \in Agents : call[a].op = "register" /\ call[a].at \in {"read", "answered"} =>
    /\ call[a].seen \subseteq Ids
    /\ \A i, j \in call[a].seen : i = j
    /\ call[a].at = "answered" => call[a].seen # {}
    /\ \A i \in call[a].seen \cap DOMAIN table : table[i] = Host[a]
    /\ (had[a] \ call[a].seen) \cap DOMAIN table = {}

\* A hostname whose registrations have not met: what one has read is still so, and it is
\* the only one.
Alone ==
  \A a \in Agents : Is(a, "register", "read") /\ Host[a] \notin overlapped =>
    /\ call[a].seen = {} => Named(Host[a]) = {}
    /\ \A b \in Agents \ {a} : ~(Host[b] = Host[a] /\ Is(b, "register", "read"))

OneRow == \A h \in Hosts \ overlapped : \A i, j \in Named(h) : i = j

Inv == Typed /\ Linked /\ Seen /\ Alone /\ OneRow /\ IdentityIsKept

-----------------------------------------------------------------------------
\* A set without two elements has at most one.
LEMMA AtMostOne ==
  ASSUME NEW S, \A x, y \in S : x = y
  PROVE  IsFiniteSet(S) /\ Cardinality(S) <= 1
<1>1. CASE S = {}
  BY <1>1, FS_EmptySet
<1>2. CASE S # {}
  <2>1. PICK x \in S : S = {x}
    BY <1>2
  <2>2. IsFiniteSet({x}) /\ Cardinality({x}) = 1
    BY FS_Singleton
  <2> QED  BY <2>1, <2>2
<1> QED  BY <1>1, <1>2

LEMMA OneElement ==
  ASSUME NEW S, IsFiniteSet(S), Cardinality(S) <= 1
  PROVE  \A x, y \in S : x = y
<1> SUFFICES ASSUME NEW x \in S, NEW y \in S, x # y PROVE FALSE
  OBVIOUS
<1>1. {x, y} \subseteq S /\ Cardinality({x, y}) = 2
  <2>1. IsFiniteSet({x}) /\ Cardinality({x}) = 1
    BY FS_Singleton
  <2>2. {x, y} = {x} \cup {y} /\ y \notin {x}
    OBVIOUS
  <2>3. Cardinality({x} \cup {y}) = Cardinality({x}) + 1
    BY <2>1, <2>2, FS_AddElement
  <2> QED  BY <2>1, <2>2, <2>3
<1>2. Cardinality({x, y}) <= Cardinality(S) /\ Cardinality(S) \in Nat
  BY <1>1, FS_Subset, FS_CardinalityType
<1> QED  BY <1>1, <1>2

LEMMA Limits == MaxRows \in Nat /\ \A a \in Agents : Host[a] \in Hosts
BY ConnectionAssumption

LEMMA Init_Inv == Init => Inv
<1> SUFFICES ASSUME Init PROVE Inv
  OBVIOUS
<1>1. DOMAIN table = {} /\ next = 1
  BY DEF Init
<1>2. NoCall \in CallRec /\ NoCall.op = "none"
  BY DEF NoCall, CallRec
<1>3. Typed
  BY <1>1, <1>2, Limits DEF Init, Typed, NoId, Ids
<1>4. Linked /\ Seen /\ Alone
  BY <1>1, <1>2 DEF Init, Linked, Seen, Alone, NoId, Is
<1>5. OneRow /\ IdentityIsKept
  BY <1>1 DEF Init, OneRow, Named, IdentityIsKept, NoId
<1> QED  BY <1>3, <1>4, <1>5 DEF Inv

-----------------------------------------------------------------------------
(* Steps that leave the table and the identities alone.                    *)

Registering(c) == c.op = "register" /\ c.at \in {"read", "answered"}

LEMMA QuietInv ==
  ASSUME Inv, Typed', Linked', UNCHANGED <<table, next, had, overlapped>>,
         \A a \in Agents : agentId'[a] \in {agentId[a], NoId},
         \A a \in Agents : \/ call'[a] = call[a] /\ thread'[a] = thread[a]
                           \/ ~Registering(call'[a])
  PROVE  Inv'
<1>1. Seen'
  <2> SUFFICES ASSUME NEW a \in Agents, Registering(call'[a])
               PROVE  /\ call'[a].seen \subseteq Ids
                      /\ \A i, j \in call'[a].seen : i = j
                      /\ call'[a].at = "answered" => call'[a].seen # {}
                      /\ \A i \in call'[a].seen \cap DOMAIN table : table[i] = Host[a]
                      /\ (had[a] \ call'[a].seen) \cap DOMAIN table = {}
    BY DEF Seen, Registering, Ids
  <2>1. call'[a] = call[a]
    OBVIOUS
  <2> QED  BY <2>1 DEF Inv, Seen, Registering
<1>2. \A a \in Agents : Is(a, "register", "read")' => Is(a, "register", "read") /\ call'[a] = call[a]
  BY DEF Is, Registering
<1>3. \A h : Named(h)' = Named(h)
  BY DEF Named
<1>4. Alone'
  BY <1>2, <1>3 DEF Inv, Alone
<1>5. OneRow'
  BY <1>3 DEF Inv, OneRow
<1>6. IdentityIsKept'
  BY DEF Inv, IdentityIsKept, NoId
<1> QED  BY <1>1, <1>4, <1>5, <1>6 DEF Inv

\* Calls as the thread makes them.
LEMMA CallKinds ==
  /\ NoCall \in CallRec /\ ~Registering(NoCall)
  /\ \A op \in {"register", "heartbeat"} : Sent(op) \in CallRec /\ ~Registering(Sent(op)) /\ Sent(op) # NoCall
BY DEF NoCall, Sent, CallRec, Registering

\* A failed call.
LEMMA FailedInv ==
  ASSUME Inv, NEW a \in Agents, thread[a] = "calling", Failed(a), UNCHANGED <<table, next, overlapped>>
  PROVE  Inv'
<1>1. /\ conn' = [conn EXCEPT ![a] = "backoff"] /\ thread' = [thread EXCEPT ![a] = "sleeping"]
      /\ call' = [call EXCEPT ![a] = NoCall] /\ UNCHANGED <<registered, agentId, dog, had>>
  BY DEF Failed
<1>2. Typed'
  BY <1>1, CallKinds DEF Inv, Typed, Ids
<1>3. Linked'
  BY <1>1, CallKinds DEF Inv, Linked, Typed
<1>4. \A b \in Agents : (call'[b] = call[b] /\ thread'[b] = thread[b]) \/ ~Registering(call'[b])
  BY <1>1, CallKinds DEF Inv, Typed
<1> QED  BY <1>1, <1>2, <1>3, <1>4, QuietInv

\* The thread begins its calls.
LEMMA CallsInv ==
  ASSUME Inv, NEW a \in Agents, Calls(a), conn' = [conn EXCEPT ![a] = "connected"],
         thread[a] \in {"sleeping", "connecting"},
         UNCHANGED <<table, next, overlapped, registered, agentId, dog, had>>
  PROVE  Inv'
<1> DEFINE c == Sent(IF registered[a] THEN "heartbeat" ELSE "register")
<1>1. c \in CallRec /\ ~Registering(c) /\ c # NoCall
  BY CallKinds DEF Inv, Typed
<1>2. thread' = [thread EXCEPT ![a] = "calling"] /\ call' = [call EXCEPT ![a] = c]
  BY DEF Calls
<1> HIDE DEF c
<1>3. Typed'
  BY <1>1, <1>2 DEF Inv, Typed, Ids
<1>4. Linked'
  BY <1>1, <1>2 DEF Inv, Linked, Typed
<1>5. \A b \in Agents : (call'[b] = call[b] /\ thread'[b] = thread[b]) \/ ~Registering(call'[b])
  BY <1>1, <1>2 DEF Inv, Typed
<1> QED  BY <1>3, <1>4, <1>5, QuietInv

LEMMA WakeInv == ASSUME Inv, NEW a \in Agents, Wake(a) PROVE Inv'
<1>1. /\ thread[a] = "sleeping"
      /\ UNCHANGED <<table, next, overlapped, registered, agentId, dog, had>>
  BY DEF Wake, ServerUnchanged
<1>2. CASE conn[a] = "connected"
  <2>1. Calls(a) /\ conn' = conn
    BY <1>2 DEF Wake
  <2>2. conn' = [conn EXCEPT ![a] = "connected"]
    BY <1>2, <2>1 DEF Inv, Typed
  <2> QED  BY <1>1, <2>1, <2>2, CallsInv
<1>3. CASE conn[a] # "connected"
  <2>1. /\ thread' = [thread EXCEPT ![a] = "connecting"]
        /\ conn' = [conn EXCEPT ![a] = "connecting"] /\ UNCHANGED call
    BY <1>3 DEF Wake
  <2>2. ~Registering(call[a])
    <3>1. call[a] = NoCall
      BY <1>1 DEF Inv, Linked
    <3> QED  BY <3>1, CallKinds
  <2>3. Typed'
    BY <1>1, <2>1 DEF Inv, Typed, Ids
  <2>4. Linked'
    BY <1>1, <2>1 DEF Inv, Linked, Typed
  <2>5. \A b \in Agents : (call'[b] = call[b] /\ thread'[b] = thread[b]) \/ ~Registering(call'[b])
    BY <2>1, <2>2 DEF Inv, Typed
  <2> QED  BY <1>1, <2>3, <2>4, <2>5, QuietInv
<1> QED  BY <1>2, <1>3

LEMMA HeartbeatInv ==
  ASSUME Inv, NEW a \in Agents, HeartbeatReads(a) \/ HeartbeatCommits(a)
  PROVE  Inv'
<1>1. /\ UNCHANGED <<table, next, overlapped>> /\ thread[a] = "calling" /\ call[a].op = "heartbeat"
  BY DEF HeartbeatReads, HeartbeatCommits, ServerUnchanged, Is
<1>2. CASE Failed(a)
  BY <1>1, <1>2, FailedInv
<1>3. CASE /\ call' = [call EXCEPT ![a].at = "read"]
           /\ UNCHANGED <<thread, conn, registered, agentId, dog, had>>
  <2> DEFINE c == [call[a] EXCEPT !.at = "read"]
  <2>1. c \in CallRec /\ c.op = "heartbeat" /\ call' = [call EXCEPT ![a] = c]
    BY <1>1, <1>3 DEF Inv, Typed, CallRec
  <2>2. c # NoCall /\ ~Registering(c)
    BY <2>1, CallKinds DEF NoCall, Registering
  <2> HIDE DEF c
  <2>3. Typed'
    BY <1>1, <1>3, <2>1 DEF Inv, Typed, Ids
  <2>4. Linked'
    BY <1>1, <1>3, <2>1, <2>2 DEF Inv, Linked, Typed
  <2>5. \A b \in Agents : (call'[b] = call[b] /\ thread'[b] = thread[b]) \/ ~Registering(call'[b])
    BY <1>3, <2>1, <2>2 DEF Inv, Typed
  <2> QED  BY <1>1, <1>3, <2>3, <2>4, <2>5, QuietInv
<1>4. CASE /\ thread' = [thread EXCEPT ![a] = "sleeping"] /\ call' = [call EXCEPT ![a] = NoCall]
           /\ conn' = [conn EXCEPT ![a] = IF @ = "backoff" THEN "connected" ELSE @]
           /\ UNCHANGED <<registered, agentId, dog, had>>
  <2>1. Typed'
    BY <1>1, <1>4, CallKinds DEF Inv, Typed, Ids
  <2>2. Linked'
    BY <1>1, <1>4, CallKinds DEF Inv, Linked, Typed
  <2>3. \A b \in Agents : (call'[b] = call[b] /\ thread'[b] = thread[b]) \/ ~Registering(call'[b])
    BY <1>4, CallKinds DEF Inv, Typed
  <2> QED  BY <1>1, <1>4, <2>1, <2>2, <2>3, QuietInv
<1> QED  BY <1>2, <1>3, <1>4 DEF HeartbeatReads, HeartbeatCommits

\* The watchdog and the restarts.
LEMMA RestartsInv ==
  ASSUME Inv, NEW a \in Agents, Look(a) \/ Ends(a) \/ Restart(a) \/ AgentRestarts(a)
  PROVE  Inv'
<1>1. UNCHANGED <<table, next, overlapped, had>>
  BY DEF Look, Ends, Restart, AgentRestarts, ServerUnchanged
<1>2. CASE Look(a)
  <2>1. Typed' /\ Linked'
    BY <1>1, <1>2 DEF Look, Inv, Typed, Linked, Ids
  <2> QED  BY <1>1, <1>2, <2>1, QuietInv DEF Look
<1>3. CASE Ends(a) \/ Restart(a)
  <2>1. thread[a] \in {"sleeping", "ended"} /\ UNCHANGED <<call, agentId>>
    BY <1>3 DEF Ends, Restart
  <2>2. ~Registering(call[a])
    <3>1. call[a] = NoCall
      BY <2>1 DEF Inv, Linked
    <3> QED  BY <3>1, CallKinds
  <2>3. \A b \in Agents \ {a} : thread'[b] = thread[b]
    BY <1>3 DEF Ends, Restart, Inv, Typed
  <2>4. Typed' /\ Linked'
    <3>1. CASE Ends(a)
      BY <1>1, <3>1 DEF Ends, Inv, Typed, Linked, Ids
    <3>2. CASE Restart(a)
      BY <1>1, <3>2 DEF Restart, Cleared, Inv, Typed, Linked, Ids
    <3> QED  BY <1>3, <3>1, <3>2
  <2> QED  BY <1>1, <2>1, <2>2, <2>3, <2>4, QuietInv
<1>4. CASE AgentRestarts(a)
  <2>1. /\ thread' = [thread EXCEPT ![a] = "sleeping"] /\ call' = [call EXCEPT ![a] = NoCall]
        /\ conn' = [conn EXCEPT ![a] = "connected"] /\ registered' = [registered EXCEPT ![a] = FALSE]
        /\ agentId' = [agentId EXCEPT ![a] = NoId] /\ dog' = [dog EXCEPT ![a] = "watching"]
    BY <1>4 DEF AgentRestarts
  <2>2. Typed'
    BY <1>1, <2>1, CallKinds DEF Inv, Typed, Ids, NoId
  <2>3. Linked'
    BY <1>1, <2>1, CallKinds DEF Inv, Typed, Linked, NoId
  <2>4. /\ \A b \in Agents : (call'[b] = call[b] /\ thread'[b] = thread[b]) \/ ~Registering(call'[b])
        /\ \A b \in Agents : agentId'[b] \in {agentId[b], NoId}
    BY <2>1, CallKinds DEF Inv, Typed
  <2> QED  BY <1>1, <2>2, <2>3, <2>4, QuietInv
<1> QED  BY <1>2, <1>3, <1>4

-----------------------------------------------------------------------------
(* Registrations.                                                          *)

LEMMA RegisteredInv == ASSUME Inv, NEW a \in Agents, Registered(a) PROVE Inv'
<1>1. /\ thread[a] = "calling" /\ Registering(call[a]) /\ call[a].at = "answered"
      /\ call' = [call EXCEPT ![a] = Sent("heartbeat")]
      /\ registered' = [registered EXCEPT ![a] = TRUE]
      /\ UNCHANGED <<table, next, overlapped, thread, conn, dog>>
  BY DEF Registered, Is, Registering, ServerUnchanged
<1>2. PICK i \in call[a].seen : /\ agentId' = [agentId EXCEPT ![a] = i]
                                /\ had' = [had EXCEPT ![a] = @ \cup {i}]
  BY DEF Registered
<1>3. /\ call[a].seen = {i} /\ i \in Ids /\ i \in Nat \ {0}
      /\ i \in DOMAIN table => table[i] = Host[a]
      /\ (had[a] \ {i}) \cap DOMAIN table = {}
  <2>1. call[a].seen \subseteq Ids /\ \A j, k \in call[a].seen : j = k
    BY <1>1 DEF Inv, Seen, Registering
  <2>2. call[a].seen = {i}
    BY <2>1
  <2>3. i \in Nat \ {0}
    BY <2>1 DEF Ids, Inv, Typed
  <2> QED  BY <1>1, <2>1, <2>2, <2>3 DEF Inv, Seen, Registering
<1>4. /\ had'[a] = had[a] \cup {i} /\ agentId'[a] = i
      /\ \A b \in Agents \ {a} : had'[b] = had[b] /\ agentId'[b] = agentId[b] /\ call'[b] = call[b]
      /\ ~Registering(call'[a])
  BY <1>1, <1>2, CallKinds DEF Inv, Typed
<1>5. Typed'
  BY <1>1, <1>2, <1>3, CallKinds DEF Inv, Typed, Ids
<1>6. Linked'
  BY <1>1, <1>2, <1>3, CallKinds DEF Inv, Typed, Linked, NoId
<1>7. Seen'
  <2> SUFFICES ASSUME NEW b \in Agents, Registering(call'[b])
               PROVE  /\ call'[b].seen \subseteq Ids
                      /\ \A j, k \in call'[b].seen : j = k
                      /\ call'[b].at = "answered" => call'[b].seen # {}
                      /\ \A j \in call'[b].seen \cap DOMAIN table : table[j] = Host[b]
                      /\ (had'[b] \ call'[b].seen) \cap DOMAIN table = {}
    BY <1>1 DEF Seen, Registering, Ids
  <2>1. b # a /\ call'[b] = call[b] /\ had'[b] = had[b]
    BY <1>4
  <2> QED  BY <2>1 DEF Inv, Seen, Registering
<1>8. Alone'
  <2>1. \A b \in Agents : Is(b, "register", "read")' => Is(b, "register", "read") /\ call'[b] = call[b]
    BY <1>1, <1>4 DEF Is, Registering
  <2> QED  BY <1>1, <2>1 DEF Inv, Alone, Named
<1>9. OneRow'
  BY <1>1 DEF Inv, OneRow, Named
<1>10. IdentityIsKept'
  BY <1>1, <1>3, <1>4 DEF Inv, IdentityIsKept
<1> QED  BY <1>5, <1>6, <1>7, <1>8, <1>9, <1>10 DEF Inv

LEMMA RegisterReadsInv == ASSUME Inv, NEW a \in Agents, RegisterReads(a) PROVE Inv'
<1> DEFINE rows == Named(Host[a])
           c == [op |-> "register", at |-> "read", seen |-> rows]
<1>1. /\ thread[a] = "calling" /\ UNCHANGED <<table, next, deletes, faults>>
  BY DEF RegisterReads, Is
<1>2. CASE Cardinality(rows) > 1
  <2>1. Failed(a) /\ UNCHANGED overlapped
    BY <1>2 DEF RegisterReads
  <2> QED  BY <1>1, <2>1, FailedInv
<1>3. CASE ~(Cardinality(rows) > 1)
  <2>1. /\ call' = [call EXCEPT ![a] = c]
        /\ overlapped' = IF \E b \in Agents \ {a} : Host[b] = Host[a] /\ Is(b, "register", "read")
                         THEN overlapped \cup {Host[a]} ELSE overlapped
        /\ UNCHANGED <<thread, conn, registered, agentId, dog, had>>
    BY <1>3 DEF RegisterReads
  <2>2. rows \subseteq DOMAIN table /\ rows \subseteq Ids /\ Ids \subseteq Nat
    BY DEF Inv, Typed, Named, Ids
  <2>3. \A i, j \in rows : i = j
    <3>1. next - 1 \in Nat
      BY Limits DEF Inv, Typed
    <3>2. IsFiniteSet(Ids)
      BY <3>1, FS_Interval DEF Ids
    <3>3. IsFiniteSet(rows) /\ Cardinality(rows) \in Nat
      BY <2>2, <3>2, FS_Subset, FS_CardinalityType
    <3>4. Cardinality(rows) <= 1
      BY <1>3, <3>3
    <3> HIDE DEF rows
    <3> QED  BY <3>3, <3>4, OneElement
  <2>4. /\ \A i \in rows : table[i] = Host[a]
        /\ (had[a] \ rows) \cap DOMAIN table = {}
    BY DEF Named, Inv, IdentityIsKept
  <2>5. c \in CallRec /\ c # NoCall /\ c.seen = rows /\ c.op = "register" /\ c.at = "read"
    BY <2>2 DEF CallRec, NoCall
  <2>6. rows = {} => Named(Host[a]) = {}
    OBVIOUS
  <2> HIDE DEF c, rows
  <2>7. call'[a] = c /\ \A b \in Agents \ {a} : call'[b] = call[b]
    BY <2>1 DEF Inv, Typed
  <2>8. Typed'
    BY <1>1, <2>1, <2>5 DEF Inv, Typed, Ids
  <2>9. Linked'
    BY <1>1, <2>1, <2>5 DEF Inv, Typed, Linked
  <2>10. Seen'
    <3> SUFFICES ASSUME NEW b \in Agents, Registering(call'[b])
                 PROVE  /\ call'[b].seen \subseteq Ids
                        /\ \A j, k \in call'[b].seen : j = k
                        /\ call'[b].at = "answered" => call'[b].seen # {}
                        /\ \A j \in call'[b].seen \cap DOMAIN table : table[j] = Host[b]
                        /\ (had[b] \ call'[b].seen) \cap DOMAIN table = {}
      BY <1>1, <2>1 DEF Seen, Registering, Ids
    <3>1. CASE b = a
      BY <3>1, <2>2, <2>3, <2>4, <2>5, <2>7
    <3>2. CASE b # a
      BY <3>2, <2>7 DEF Inv, Seen, Registering
    <3> QED  BY <3>1, <3>2
  <2>11. Alone'
    <3> SUFFICES ASSUME NEW d \in Agents, Is(d, "register", "read")', Host[d] \notin overlapped'
                 PROVE  /\ call'[d].seen = {} => Named(Host[d]) = {}
                        /\ \A b \in Agents \ {d} : ~(Host[b] = Host[d] /\ Is(b, "register", "read")')
      BY <1>1 DEF Alone, Named
    <3>1. /\ overlapped \subseteq overlapped'
          /\ Host[d] = Host[a] => \A b \in Agents \ {a} : ~(Host[b] = Host[a] /\ Is(b, "register", "read"))
      BY <2>1
    <3>2. \A b \in Agents \ {a} : Is(b, "register", "read")' <=> Is(b, "register", "read")
      BY <2>1, <2>7 DEF Is
    <3>3. CASE d = a
      BY <3>1, <3>2, <3>3, <2>5, <2>6, <2>7
    <3>4. CASE d # a
      <4>1. Is(d, "register", "read") /\ call'[d] = call[d] /\ Host[d] # Host[a]
        BY <3>1, <3>2, <3>4, <2>7
      <4> QED  BY <3>1, <3>2, <4>1 DEF Inv, Alone
    <3> QED  BY <3>3, <3>4
  <2>12. OneRow' /\ IdentityIsKept'
    BY <1>1, <2>1 DEF Inv, OneRow, Named, IdentityIsKept
  <2> QED  BY <2>8, <2>9, <2>10, <2>11, <2>12 DEF Inv
<1> QED  BY <1>2, <1>3

\* The answer of a registration that has committed a row it has read.
LEMMA UpdatedInv ==
  ASSUME Inv, NEW a \in Agents, Is(a, "register", "read"), NEW i \in call[a].seen,
         call' = [call EXCEPT ![a] = [op |-> "register", at |-> "answered", seen |-> {i}]],
         UNCHANGED <<table, next, overlapped, thread, conn, registered, agentId, dog, had>>
  PROVE  Inv'
<1> DEFINE c == [op |-> "register", at |-> "answered", seen |-> {i}]
<1>1. Registering(call[a]) /\ thread[a] = "calling"
  BY DEF Is, Registering
<1>2. call[a].seen = {i} /\ i \in Ids /\ Ids \subseteq Nat
  BY <1>1 DEF Inv, Seen, Registering, Typed, Ids
<1>3. c \in CallRec /\ c # NoCall /\ c.seen = {i} /\ c.op = "register" /\ c.at = "answered"
  BY <1>2 DEF CallRec, NoCall
<1> HIDE DEF c
<1>4. call'[a] = c /\ \A b \in Agents \ {a} : call'[b] = call[b]
  BY DEF Inv, Typed, c
<1>5. Typed'
  BY <1>3 DEF Inv, Typed, Ids, c
<1>6. Linked'
  BY <1>1, <1>3, <1>4 DEF Inv, Linked
<1>7. Seen'
  <2> SUFFICES ASSUME NEW b \in Agents, Registering(call'[b])
               PROVE  /\ call'[b].seen \subseteq Ids
                      /\ \A j, k \in call'[b].seen : j = k
                      /\ call'[b].at = "answered" => call'[b].seen # {}
                      /\ \A j \in call'[b].seen \cap DOMAIN table : table[j] = Host[b]
                      /\ (had[b] \ call'[b].seen) \cap DOMAIN table = {}
    BY DEF Seen, Registering, Ids
  <2>1. CASE b = a
    BY <2>1, <1>1, <1>2, <1>3, <1>4 DEF Inv, Seen, Registering
  <2>2. CASE b # a
    BY <2>2, <1>4 DEF Inv, Seen, Registering
  <2> QED  BY <2>1, <2>2
<1>8. Alone'
  <2>1. \A b \in Agents : Is(b, "register", "read")' => Is(b, "register", "read") /\ call'[b] = call[b]
    BY <1>3, <1>4 DEF Is
  <2> QED  BY <2>1 DEF Inv, Alone, Named
<1>9. OneRow' /\ IdentityIsKept'
  BY DEF Inv, OneRow, Named, IdentityIsKept
<1> QED  BY <1>5, <1>6, <1>7, <1>8, <1>9 DEF Inv
\* The answer of a registration that found no row and has inserted one.
LEMMA InsertedInv ==
  ASSUME Inv, NEW a \in Agents, Is(a, "register", "read"), call[a].seen = {}, next <= MaxRows,
         table' = [i \in DOMAIN table \cup {next} |-> IF i = next THEN Host[a] ELSE table[i]],
         next' = next + 1,
         call' = [call EXCEPT ![a] = [op |-> "register", at |-> "answered", seen |-> {next}]],
         UNCHANGED <<overlapped, thread, conn, registered, agentId, dog, had>>
  PROVE  Inv'
<1> DEFINE c == [op |-> "register", at |-> "answered", seen |-> {next}]
<1>1. Registering(call[a]) /\ thread[a] = "calling"
  BY DEF Is, Registering
<1>2. /\ next \in Nat \ {0} /\ next' \in 1 .. MaxRows + 1
      /\ Ids' = Ids \cup {next} /\ next \notin Ids /\ DOMAIN table \subseteq Ids
      /\ DOMAIN table' = DOMAIN table \cup {next} /\ table'[next] = Host[a]
      /\ \A i \in DOMAIN table : table'[i] = table[i]
  BY Limits DEF Inv, Typed, Ids
<1>3. c \in CallRec /\ c # NoCall /\ c.seen = {next} /\ c.op = "register" /\ c.at = "answered"
  BY <1>2 DEF CallRec, NoCall
<1> HIDE DEF c
<1>4. call'[a] = c /\ \A b \in Agents \ {a} : call'[b] = call[b]
  BY DEF Inv, Typed, c
<1>5. \A h : Named(h)' = IF h = Host[a] THEN Named(h) \cup {next} ELSE Named(h)
  BY <1>2 DEF Named
<1>6. Typed'
  <2>1. call' \in [Agents -> CallRec]
    BY <1>3 DEF Inv, Typed, c
  <2>2. \A i \in DOMAIN table' : table'[i] \in Hosts
    BY <1>2, Limits DEF Inv, Typed
  <2>3. DOMAIN table' \subseteq Ids' /\ had' \in [Agents -> SUBSET Ids']
    BY <1>2 DEF Inv, Typed
  <2> QED  BY <1>2, <2>1, <2>2, <2>3 DEF Inv, Typed
<1>7. Linked'
  BY <1>1, <1>3, <1>4 DEF Inv, Linked
<1>8. Seen'
  <2> SUFFICES ASSUME NEW b \in Agents, Registering(call'[b])
               PROVE  /\ call'[b].seen \subseteq Ids'
                      /\ \A j, k \in call'[b].seen : j = k
                      /\ call'[b].at = "answered" => call'[b].seen # {}
                      /\ \A j \in call'[b].seen \cap DOMAIN table' : table'[j] = Host[b]
                      /\ (had[b] \ call'[b].seen) \cap DOMAIN table' = {}
    BY DEF Seen, Registering
  <2>1. had[b] \subseteq Ids
    BY DEF Inv, Typed
  <2>2. CASE b = a
    <3>1. had[a] \cap DOMAIN table = {}
      BY <1>1 DEF Inv, Seen, Registering
    <3> QED  BY <1>2, <1>3, <1>4, <2>2, <3>1
  <2>3. CASE b # a
    <3>1. call'[b] = call[b]
      BY <1>4, <2>3
    <3>2. /\ call[b].seen \subseteq Ids
          /\ \A j, k \in call[b].seen : j = k
          /\ call[b].at = "answered" => call[b].seen # {}
          /\ \A j \in call[b].seen \cap DOMAIN table : table[j] = Host[b]
          /\ (had[b] \ call[b].seen) \cap DOMAIN table = {}
      BY <3>1 DEF Inv, Seen, Registering
    <3> QED  BY <1>2, <2>1, <3>1, <3>2
  <2> QED  BY <2>2, <2>3
<1>9. Alone'
  <2> SUFFICES ASSUME NEW d \in Agents, Is(d, "register", "read")', Host[d] \notin overlapped
               PROVE  /\ call'[d].seen = {} => Named(Host[d])' = {}
                      /\ \A b \in Agents \ {d} : ~(Host[b] = Host[d] /\ Is(b, "register", "read")')
    BY DEF Alone
  <2>1. \A b \in Agents : Is(b, "register", "read")' => Is(b, "register", "read") /\ call'[b] = call[b] /\ b # a
    BY <1>3, <1>4 DEF Is
  <2>2. /\ call[d].seen = {} => Named(Host[d]) = {}
        /\ \A b \in Agents \ {d} : ~(Host[b] = Host[d] /\ Is(b, "register", "read"))
    BY <2>1 DEF Inv, Alone
  <2> QED  BY <1>5, <2>1, <2>2
<1>10. OneRow'
  <2>1. Host[a] \notin overlapped => Named(Host[a]) = {}
    BY DEF Inv, Alone
  <2> QED  BY <1>5, <2>1 DEF Inv, OneRow
<1>11. IdentityIsKept'
  <2> SUFFICES ASSUME NEW b \in Agents
               PROVE  /\ \A i \in had[b] \cap DOMAIN table' : table'[i] = Host[b]
                      /\ agentId[b] # NoId => (had[b] \ {agentId[b]}) \cap DOMAIN table' = {}
    BY DEF IdentityIsKept
  <2>1. had[b] \subseteq Ids
    BY DEF Inv, Typed
  <2> QED  BY <1>2, <2>1 DEF Inv, IdentityIsKept
<1> QED  BY <1>6, <1>7, <1>8, <1>9, <1>10, <1>11 DEF Inv

LEMMA RegisterCommitsInv == ASSUME Inv, NEW a \in Agents, RegisterCommits(a) PROVE Inv'
<1>1. Is(a, "register", "read") /\ thread[a] = "calling" /\ UNCHANGED overlapped
  BY DEF RegisterCommits, Is
<1>2. CASE call[a].seen = {}
  <2>1. /\ next <= MaxRows /\ next' = next + 1
        /\ table' = [i \in DOMAIN table \cup {next} |-> IF i = next THEN Host[a] ELSE table[i]]
        /\ call' = [call EXCEPT ![a] = [op |-> "register", at |-> "answered", seen |-> {next}]]
        /\ UNCHANGED <<thread, conn, registered, agentId, dog, had>>
    BY <1>2 DEF RegisterCommits
  <2> QED  BY <1>1, <1>2, <2>1, InsertedInv
<1>3. CASE call[a].seen # {} /\ call[a].seen \subseteq DOMAIN table
  <2>1. PICK i \in call[a].seen :
          /\ call' = [call EXCEPT ![a] = [op |-> "register", at |-> "answered", seen |-> {i}]]
          /\ UNCHANGED <<table, next, thread, conn, registered, agentId, dog, had>>
    BY <1>3 DEF RegisterCommits
  <2> QED  BY <1>1, <2>1, UpdatedInv
<1>4. CASE call[a].seen # {} /\ ~(call[a].seen \subseteq DOMAIN table)
  <2>1. Failed(a) /\ UNCHANGED <<table, next>>
    BY <1>4 DEF RegisterCommits
  <2> QED  BY <1>1, <2>1, FailedInv
<1> QED  BY <1>2, <1>3, <1>4

\* An administrator deletes a row.
LEMMA DeleteInv == ASSUME Inv, NEW i \in DOMAIN table, Delete(i) PROVE Inv'
<1>1. /\ table' = [j \in DOMAIN table \ {i} |-> table[j]]
      /\ UNCHANGED <<next, thread, call, conn, registered, agentId, dog, had, overlapped>>
  BY DEF Delete, agent
<1>2. DOMAIN table' = DOMAIN table \ {i} /\ \A j \in DOMAIN table' : table'[j] = table[j]
  BY <1>1
<1>3. \A h : Named(h)' \subseteq Named(h)
  BY <1>2 DEF Named
<1>4. Typed' /\ Linked'
  BY <1>1, <1>2 DEF Inv, Typed, Linked, Ids
<1>5. Seen'
  BY <1>1, <1>2 DEF Inv, Seen, Ids
<1>6. Alone'
  BY <1>1, <1>3 DEF Inv, Alone, Is
<1>7. OneRow' /\ IdentityIsKept'
  BY <1>1, <1>2, <1>3 DEF Inv, OneRow, IdentityIsKept
<1> QED  BY <1>4, <1>5, <1>6, <1>7 DEF Inv

-----------------------------------------------------------------------------
LEMMA Next_Inv == Inv /\ [Next]_vars => Inv'
<1> SUFFICES ASSUME Inv, [Next]_vars PROVE Inv'
  OBVIOUS
<1>1. ASSUME NEW a \in Agents, Round(a) PROVE Inv'
  <2>1. CASE Connected(a)
    <3>1. /\ thread[a] = "connecting" /\ conn' = [conn EXCEPT ![a] = "connected"] /\ Calls(a)
          /\ UNCHANGED <<table, next, overlapped, registered, agentId, dog, had>>
      BY <2>1 DEF Connected, ServerUnchanged
    <3> QED  BY <3>1, CallsInv
  <2> QED  BY <1>1, <2>1, WakeInv, RegisteredInv, RestartsInv DEF Round
<1>2. ASSUME NEW a \in Agents, Serve(a) PROVE Inv'
  BY <1>2, RegisterReadsInv, RegisterCommitsInv, HeartbeatInv DEF Serve
<1>3. ASSUME NEW a \in Agents, Look(a) \/ Restart(a) \/ AgentRestarts(a) PROVE Inv'
  BY <1>3, RestartsInv
<1>4. ASSUME NEW a \in Agents, CallFails(a) PROVE Inv'
  BY <1>4, FailedInv DEF CallFails, ServerUnchanged
<1>5. ASSUME NEW i \in DOMAIN table, Delete(i) PROVE Inv'
  BY <1>5, DeleteInv
<1>6. CASE UNCHANGED vars
  <2>1. UNCHANGED <<table, next, thread, call, conn, registered, agentId, dog, had, overlapped>>
    BY <1>6 DEF vars, agent
  <2>2. Typed' /\ Linked'
    BY <2>1 DEF Inv, Typed, Linked, Ids
  <2> QED  BY <2>1, <2>2, QuietInv
<1> QED  BY <1>1, <1>2, <1>3, <1>4, <1>5, <1>6 DEF Next

LEMMA Invariance == Spec => []Inv
BY Init_Inv, Next_Inv, PTL DEF Spec

LEMMA InvSuffices == Inv => RegistryIsSound
<1> SUFFICES ASSUME Inv PROVE RegistryIsSound
  OBVIOUS
<1>1. TypeOK
  BY DEF Inv, Typed, Linked, TypeOK, Ids
<1>2. OneRowPerHost
  BY AtMostOne DEF Inv, OneRow, OneRowPerHost
<1> QED  BY <1>1, <1>2 DEF Inv, RegistryIsSound

(***************************************************************************)
(* However agents register, lose answers, are restarted and deleted, a     *)
(* hostname whose registrations never met has at most one row, and an      *)
(* agent's id stays its own: none of the ids it had before is left in the  *)
(* table, and no row it was given belongs to another hostname              *)
(* (register_agent, GrpcClient::Register).                                 *)
(***************************************************************************)
THEOREM RegistrySound == Spec => []RegistryIsSound
BY Invariance, InvSuffices, PTL

-----------------------------------------------------------------------------
(* Users: the invariants.                                                  *)

\* What a request in progress carries is what its handler read: a session with its
\* user, a role, a password or a secret by the operation.
Carried(c) ==
  LET r == req[c] IN
  /\ r.op # "guess" => user[r.user] # NoUser
  /\ r.op \in Issuing => r.role \in Roles
  /\ r.op \in {"refresh", "logout"} => r.user = sessions[r.tok].user
  /\ r.at = "revoked" => r.op = "refresh"
  /\ r.op \in {"enroll", "confirm"} => r.arg \in Secrets
  /\ r.op = "password" => r.arg \in Passwords

\* Rows are never deleted: whoever a session or a token names has one.
RowsExist ==
  /\ \A k \in DOMAIN sessions : user[sessions[k].user] # NoUser
  /\ \A t \in access \cup challenges : user[t.user] # NoUser
  /\ \A c \in Clients : req[c] # NoReq => Carried(c)

\* What was read of a row that has not changed since is still so.
Current ==
  /\ \A ch \in challenges : ~ch.old => user[ch.user].active
  /\ \A c \in Clients : req[c] # NoReq /\ ~req[c].old =>
       /\ req[c].op \in Issuing => req[c].role = user[req[c].user].role
       /\ req[c].op \in {"login", "mfa"} => RowProves(c)
  /\ RolesAgeOut

\* The one MFA request of a user, as long as there was no more than one at a time,
\* finds the row at its commit as it has read it.
OneByOne ==
  \A u \in Users \ torn :
    /\ \A c, d \in Clients : MfaBusy(c, u) /\ MfaBusy(d, u) => c = d
    /\ \A c \in Clients : MfaBusy(c, u) =>
         /\ req[c].op \in {"enroll", "confirm"} => ~user[u].mfa
         /\ req[c].op = "confirm" => user[u].secret = req[c].arg
-----------------------------------------------------------------------------
(* Types.                                                                  *)

SessionRow == [login : 1 .. MaxCommits, user : Users, live : BOOLEAN]

\* SessionsTypeOK, but for the bound on the failures.
Shape ==
  /\ user \in [Users -> UserRow \cup {NoUser}]
  /\ sessions \in Seq(SessionRow)
  /\ \A k \in DOMAIN sessions : sessions[k].login <= k
  /\ edits \in Nat /\ Len(sessions) + edits <= MaxCommits
  /\ access \subseteq AccessToken /\ challenges \subseteq Challenge
  /\ attempts \in Nat
  /\ req \in [Clients -> Requests \cup {NoReq}]
  /\ \A c \in Clients : req[c] # NoReq =>
       /\ req[c].tok <= Len(sessions)
       /\ req[c].tok > 0 <=> req[c].op \in {"refresh", "logout"}
  /\ forks \in [1 .. MaxCommits -> Nat]
  /\ closed \cup broken \subseteq DOMAIN sessions
  /\ torn \subseteq Users /\ proved \in [Users -> Secrets \cup {NoSecret}]

SessionsTyped == Shape /\ RowsExist

LEMMA SessionsLimits == /\ IsFiniteSet(Clients) /\ NoSecret \notin Secrets
                /\ MaxAttempts \in Nat \ {0} /\ MaxCommits \in Nat
                /\ RolesUsed \subseteq Roles /\ NoUser \notin UserRow /\ NoReq \notin Requests
BY SessionsAssumption, RolesAssumption, RequestsAssumption
   DEF SessionsAssumption, RolesAssumption, RequestsAssumption

LEMMA SessionTypes ==
  ASSUME Shape, NEW k \in DOMAIN sessions
  PROVE  /\ k \in 1 .. Len(sessions) /\ k \in 1 .. MaxCommits /\ sessions[k] \in SessionRow
         /\ sessions[k].login \in 1 .. k /\ sessions[k].user \in Users /\ sessions[k].live \in BOOLEAN
         /\ sessions[k].login \in DOMAIN sessions /\ Len(sessions) \in Nat
<1>1. /\ sessions \in Seq(SessionRow) /\ Len(sessions) \in Nat
      /\ DOMAIN sessions = 1 .. Len(sessions) /\ Len(sessions) <= MaxCommits
      /\ MaxCommits \in Nat /\ sessions[k].login <= k
  BY SessionsLimits DEF Shape
<1>2. sessions[k] \in SessionRow
  BY <1>1
<1>3. /\ sessions[k].login \in 1 .. MaxCommits /\ sessions[k].user \in Users
      /\ sessions[k].live \in BOOLEAN
  BY <1>2 DEF SessionRow
<1> QED  BY <1>1, <1>2, <1>3

LEMMA RequestTypes ==
  ASSUME NEW r \in Requests
  PROVE  /\ r # NoReq /\ r.op \in Ops /\ r.user \in Users /\ r.at \in {"read", "revoked"}
         /\ r.arg \in Passwords \cup Secrets \cup {NoSecret} /\ r.tok \in 0 .. MaxCommits
         /\ r.old \in BOOLEAN /\ r.role \in Roles \cup {NoUser}
BY SessionsLimits DEF Requests

LEMMA ReqTypes ==
  ASSUME Shape, NEW c \in Clients, req[c] # NoReq
  PROVE  /\ req[c] \in Requests /\ req[c].user \in Users /\ req[c].op \in Ops
         /\ req[c].old \in BOOLEAN
         /\ req[c].op \in {"refresh", "logout"} => req[c].tok \in DOMAIN sessions
         /\ req[c].op \notin {"refresh", "logout"} => req[c].tok = 0
<1>1. req[c] \in Requests /\ req[c].tok <= Len(sessions)
      /\ (req[c].tok > 0 <=> req[c].op \in {"refresh", "logout"})
  BY DEF Shape
<1>2. req[c].tok \in Nat /\ req[c].user \in Users /\ req[c].op \in Ops /\ req[c].old \in BOOLEAN
  BY <1>1, RequestTypes, SessionsLimits
<1>3. DOMAIN sessions = 1 .. Len(sessions) /\ Len(sessions) \in Nat
  BY DEF Shape
<1> QED  BY <1>1, <1>2, <1>3

\* A request that passes its checks.
LEMMA NewRequest ==
  ASSUME NEW o \in Ops, NEW u \in Users, NEW a \in Passwords \cup Secrets \cup {NoSecret},
         NEW k \in 0 .. MaxCommits, NEW old \in BOOLEAN,
         o \in Issuing => user[u].role \in Roles,
         NEW r, r = Request(o, u, a, k, old)
  PROVE  /\ r \in Requests /\ r # NoReq
         /\ r.op = o /\ r.user = u /\ r.arg = a /\ r.at = "read" /\ r.tok = k /\ r.old = old
         /\ o \in Issuing => r.role = user[u].role
<1>1. r \in Requests
  BY DEF Request, Requests
<1> QED  BY <1>1, SessionsLimits DEF Request

LEMMA RowTypes ==
  ASSUME Shape, NEW u \in Users, user[u] # NoUser
  PROVE  /\ user[u] \in UserRow /\ user[u].role \in Roles /\ user[u].mfa \in BOOLEAN
         /\ user[u].active \in BOOLEAN
<1>1. user[u] \in UserRow
  BY DEF Shape
<1> QED  BY <1>1 DEF UserRow

-----------------------------------------------------------------------------
(* What the kinds of steps do.                                             *)

\* A request goes, or one comes whose data fits; tokens and the table stay.
LEMMA TypedReq ==
  ASSUME SessionsTyped, UNCHANGED <<user, sessions, edits, forks>>,
         attempts' \in Nat, closed' \cup broken' \subseteq DOMAIN sessions, torn' \subseteq Users,
         proved' = proved, access' = access, challenges' \subseteq Challenge,
         \A t \in challenges' : user[t.user] # NoUser,
         req' \in [Clients -> Requests \cup {NoReq}],
         \A c \in Clients : req'[c] \in {NoReq, req[c]} \/
           /\ req'[c].tok <= Len(sessions)
           /\ req'[c].tok > 0 <=> req'[c].op \in {"refresh", "logout"}
           /\ Carried(c)'
  PROVE  SessionsTyped'
<1>1. Shape'
  <2>1. ASSUME NEW c \in Clients, req'[c] # NoReq
        PROVE  /\ req'[c].tok <= Len(sessions)
               /\ req'[c].tok > 0 <=> req'[c].op \in {"refresh", "logout"}
    BY <2>1 DEF SessionsTyped, Shape
  <2> QED  BY <2>1 DEF SessionsTyped, Shape
<1>2. RowsExist'
  <2>1. ASSUME NEW c \in Clients, req'[c] # NoReq PROVE Carried(c)'
    <3>1. CASE req'[c] = req[c]
      BY <2>1, <3>1 DEF SessionsTyped, RowsExist, Carried
    <3> QED  BY <2>1, <3>1
  <2>2. \A k \in DOMAIN sessions' : user'[sessions'[k].user] # NoUser
    BY DEF SessionsTyped, RowsExist
  <2>3. \A t \in access' \cup challenges' : user'[t.user] # NoUser
    BY DEF SessionsTyped, RowsExist
  <2> QED  BY <2>1, <2>2, <2>3 DEF RowsExist
<1> QED  BY <1>1, <1>2 DEF SessionsTyped

LEMMA EndFacts ==
  ASSUME Shape, NEW c \in Clients, End(c)
  PROVE  /\ \A d \in Clients : req'[d] = IF d = c THEN NoReq ELSE req[d]
         /\ req' \in [Clients -> Requests \cup {NoReq}]
BY DEF End, Shape

LEMMA StartFacts ==
  ASSUME Shape, NEW c \in Clients, NEW new \in Requests, req' = [req EXCEPT ![c] = new]
  PROVE  /\ \A d \in Clients : req'[d] = IF d = c THEN new ELSE req[d]
         /\ req' \in [Clients -> Requests \cup {NoReq}]
BY DEF Shape

-----------------------------------------------------------------------------
(* The checks of the handlers, up to the first query.                      *)

LEMMA LoginStartFacts ==
  ASSUME SessionsTyped, NEW c \in Clients, NEW u \in Users, NEW p \in Passwords, LoginStart(c, u, p)
  PROVE  /\ req[c] = NoReq /\ attempts < MaxAttempts
         /\ UNCHANGED <<user, sessions, edits, attempts, forks, closed, broken, access, torn, proved>>
         /\ \/ /\ challenges' = challenges
               /\ \E new \in Requests :
                    /\ req' = [req EXCEPT ![c] = new]
                    /\ new.user = u /\ new.at = "read" /\ new.tok = 0 /\ ~new.old
                    /\ \/ new.op = "guess"
                       \/ /\ new.op = "login" /\ new.arg = p /\ user[u] # NoUser
                          /\ user[u].pw = p /\ user[u].active /\ ~user[u].mfa
                          /\ new.role = user[u].role
            \/ /\ req' = req /\ user[u] # NoUser /\ user[u].active
               /\ challenges' = challenges \cup {[user |-> u, old |-> FALSE]}
<1>1. /\ req[c] = NoReq /\ attempts < MaxAttempts
      /\ UNCHANGED <<user, sessions, edits, attempts, forks, closed, broken, access, torn, proved>>
  BY DEF LoginStart, Check, lineage, AuthUnchanged, mfaHistory
<1>2. CASE ~Authenticated(u, p) /\ req' = [req EXCEPT ![c] = Request("guess", u, NoSecret, 0, FALSE)]
           /\ UNCHANGED challenges
  <2>0. PICK new : new = Request("guess", u, NoSecret, 0, FALSE)
    OBVIOUS
  <2>1. /\ new \in Requests /\ new.op = "guess" /\ new.user = u /\ new.at = "read"
        /\ new.tok = 0 /\ ~new.old
    <3>1. "guess" \in Ops \ Issuing /\ NoSecret \in Passwords \cup Secrets \cup {NoSecret}
          /\ 0 \in 0 .. MaxCommits
      BY SessionsLimits DEF Ops, Issuing
    <3> QED  BY <2>0, <3>1, SessionsLimits DEF Request, Requests
  <2> QED  BY <1>1, <1>2, <2>0, <2>1
<1>3. CASE /\ Authenticated(u, p) /\ LoginMayIssue(u)
           /\ req' = [req EXCEPT ![c] = Request("login", u, p, 0, FALSE)]
           /\ UNCHANGED challenges
  <2>0. PICK new : new = Request("login", u, p, 0, FALSE)
    OBVIOUS
  <2>1. /\ user[u] # NoUser /\ user[u].pw = p /\ user[u].active /\ ~user[u].mfa
        /\ user[u].role \in Roles
    BY <1>3, RowTypes DEF Authenticated, LoginMayIssue, SessionsTyped
  <2>2. /\ new \in Requests /\ new.op = "login" /\ new.user = u /\ new.at = "read"
        /\ new.tok = 0 /\ ~new.old /\ new.arg = p /\ new.role = user[u].role
    <3>1. "login" \in Ops \cap Issuing /\ p \in Passwords \cup Secrets \cup {NoSecret}
          /\ 0 \in 0 .. MaxCommits
      BY SessionsLimits DEF Ops, Issuing
    <3> QED  BY <2>0, <2>1, <3>1, SessionsLimits DEF Request, Requests
  <2> QED  BY <1>1, <1>3, <2>0, <2>1, <2>2
<1>4. CASE /\ Authenticated(u, p) /\ user[u].active /\ user[u].mfa
           /\ challenges' = challenges \cup {[user |-> u, old |-> FALSE]} /\ UNCHANGED req
  BY <1>1, <1>4 DEF Authenticated
<1> QED  BY <1>1, <1>2, <1>3, <1>4 DEF LoginStart

LEMMA MfaStartFacts ==
  ASSUME SessionsTyped, NEW c \in Clients, NEW ch \in challenges, NEW s \in Secrets, MfaStart(c, ch, s)
  PROVE  /\ req[c] = NoReq
         /\ UNCHANGED <<user, sessions, edits, attempts, forks, closed, broken, access, challenges,
                        torn, proved>>
         /\ \E new \in Requests :
              /\ req' = [req EXCEPT ![c] = new]
              /\ new.op = "mfa" /\ new.user = ch.user /\ new.arg = s /\ new.at = "read"
              /\ new.tok = 0 /\ new.old = ch.old /\ new.role = user[ch.user].role
              /\ user[ch.user] # NoUser /\ user[ch.user].mfa /\ user[ch.user].secret = s
<1>1. /\ req[c] = NoReq
      /\ UNCHANGED <<user, sessions, edits, attempts, forks, closed, broken, access, challenges,
                     torn, proved>>
      /\ user[ch.user] # NoUser /\ user[ch.user].mfa /\ user[ch.user].secret = s
      /\ req' = [req EXCEPT ![c] = Request("mfa", ch.user, s, 0, ch.old)]
  BY DEF MfaStart, VerifyTotp, lineage, tokens, AuthUnchanged, mfaHistory
<1>2. ch.user \in Users /\ ch.old \in BOOLEAN
  BY DEF SessionsTyped, Shape, Challenge
<1>3. user[ch.user].role \in Roles
  BY <1>1, <1>2, RowTypes DEF SessionsTyped
<1>0. PICK new : new = Request("mfa", ch.user, s, 0, ch.old)
  OBVIOUS
<1>4. /\ new \in Requests /\ new.op = "mfa" /\ new.user = ch.user /\ new.arg = s
      /\ new.at = "read" /\ new.tok = 0 /\ new.old = ch.old /\ new.role = user[ch.user].role
  <2>1. "mfa" \in Ops \cap Issuing /\ s \in Passwords \cup Secrets \cup {NoSecret}
        /\ 0 \in 0 .. MaxCommits
    BY SessionsLimits DEF Ops, Issuing
  <2> QED  BY <1>0, <1>2, <1>3, <2>1, NewRequest
<1> QED  BY <1>0, <1>1, <1>4

LEMMA SessionReadFacts ==
  ASSUME SessionsTyped, NEW c \in Clients, NEW op \in {"refresh", "logout"}, NEW k \in 1 .. MaxCommits,
         SessionRead(c, op, k)
  PROVE  /\ req[c] = NoReq /\ k \in DOMAIN sessions
         /\ UNCHANGED <<user, sessions, edits, attempts, forks, closed, broken, access, challenges,
                        torn, proved>>
         /\ user[sessions[k].user] # NoUser
         /\ \E new \in Requests :
              /\ req' = [req EXCEPT ![c] = new]
              /\ new.op = op /\ new.user = sessions[k].user /\ new.at = "read" /\ new.tok = k
              /\ ~new.old /\ (op = "refresh" => new.role = user[new.user].role)
<1>1. /\ req[c] = NoReq /\ k \in DOMAIN sessions
      /\ UNCHANGED <<user, sessions, edits, attempts, forks, closed, broken, access, challenges,
                     torn, proved>>
      /\ req' = [req EXCEPT ![c] = Request(op, sessions[k].user, NoSecret, k, FALSE)]
  BY DEF SessionRead, ValidSession, lineage, tokens, AuthUnchanged, mfaHistory
<1>2. sessions[k].user \in Users /\ user[sessions[k].user] # NoUser
  BY <1>1, SessionTypes DEF SessionsTyped, RowsExist
<1>3. user[sessions[k].user].role \in Roles
  BY <1>2, RowTypes DEF SessionsTyped
<1>0. PICK new : new = Request(op, sessions[k].user, NoSecret, k, FALSE)
  OBVIOUS
<1>4. /\ new \in Requests /\ new.op = op /\ new.user = sessions[k].user
      /\ new.at = "read" /\ new.tok = k /\ ~new.old
      /\ op = "refresh" => new.role = user[sessions[k].user].role
  <2>1. op \in Ops /\ (op = "refresh" => op \in Issuing) /\ k \in 0 .. MaxCommits
        /\ NoSecret \in Passwords \cup Secrets \cup {NoSecret}
    BY SessionsLimits DEF Ops, Issuing
  <2> QED  BY <1>0, <1>2, <1>3, <2>1, SessionsLimits DEF Request, Requests
<1> QED  BY <1>0, <1>1, <1>2, <1>4
LEMMA OwnStartFacts ==
  ASSUME SessionsTyped, NEW c \in Clients, NEW op \in MfaOps \cup {"password"},
         NEW a \in Passwords \cup Secrets \cup {NoSecret}, OwnStart(c, op, a)
  PROVE  /\ req[c] = NoReq
         /\ UNCHANGED <<user, sessions, edits, attempts, forks, closed, broken, access, challenges,
                        proved>>
         /\ \E new \in Requests :
              /\ req' = [req EXCEPT ![c] = new]
              /\ new.op = op /\ new.arg = a /\ new.at = "read" /\ new.tok = 0
              /\ user[new.user] # NoUser
              /\ \E pw \in Passwords : Accepted(op, user[new.user], a, pw)
              /\ torn' = IF op \in MfaOps /\ \E d \in Clients : MfaBusy(d, new.user)
                         THEN torn \cup {new.user} ELSE torn
<1>1. PICK t \in access :
        /\ \E pw \in Passwords : Accepted(op, user[t.user], a, pw)
        /\ req' = [req EXCEPT ![c] = Request(op, t.user, a, 0, FALSE)]
        /\ torn' = IF op \in MfaOps /\ \E d \in Clients : MfaBusy(d, t.user)
                   THEN torn \cup {t.user} ELSE torn
  BY DEF OwnStart
<1>2. /\ req[c] = NoReq
      /\ UNCHANGED <<user, sessions, edits, attempts, forks, closed, broken, access, challenges,
                     proved>>
  BY DEF OwnStart, tokens, lineage
<1>3. t.user \in Users /\ user[t.user] # NoUser
  BY DEF SessionsTyped, Shape, RowsExist, AccessToken
<1>4. PICK new : new = Request(op, t.user, a, 0, FALSE)
  OBVIOUS
<1>5. /\ new \in Requests /\ new.op = op /\ new.user = t.user /\ new.arg = a
      /\ new.at = "read" /\ new.tok = 0
  <2>1. op \in Ops /\ op \notin Issuing /\ 0 \in 0 .. MaxCommits
    BY SessionsLimits DEF Ops, MfaOps, Issuing
  <2> QED  BY <1>3, <1>4, <2>1 DEF Request, Requests
<1> QED  BY <1>1, <1>2, <1>3, <1>4, <1>5

\* A commit to a user's row: what was read from it is old now.
LEMMA CommitFacts ==
  ASSUME SessionsTyped, NEW u \in Users, NEW row \in UserRow, Commit(u, row),
         \/ req' = OutdatedReq(u)
         \/ \E c \in Clients : req' = [OutdatedReq(u) EXCEPT ![c] = NoReq]
  PROVE  /\ edits' = edits + 1 /\ Len(sessions) + edits < MaxCommits
         /\ UNCHANGED <<sessions, attempts, forks, closed, broken>>
         /\ user' \in [Users -> UserRow \cup {NoUser}]
         /\ \A v \in Users : user'[v] = IF v = u THEN row ELSE user[v]
         /\ access' \subseteq AccessToken /\ challenges' \subseteq Challenge
         /\ \A t \in access' : \E s \in access :
              /\ t.user = s.user /\ t.role = s.role /\ (~t.old => ~s.old /\ t.user # u)
         /\ \A t \in challenges' : \E s \in challenges :
              /\ t.user = s.user /\ (~t.old => ~s.old /\ t.user # u)
         /\ req' \in [Clients -> Requests \cup {NoReq}]
         /\ \A d \in Clients : req'[d] # NoReq =>
              /\ req[d] # NoReq
              /\ req'[d].op = req[d].op /\ req'[d].user = req[d].user /\ req'[d].arg = req[d].arg
              /\ req'[d].at = req[d].at /\ req'[d].tok = req[d].tok /\ req'[d].role = req[d].role
              /\ ~req'[d].old => ~req[d].old /\ (req[d].op \in Issuing => req[d].user # u)
<1>1. /\ edits' = edits + 1 /\ Len(sessions) + edits < MaxCommits
      /\ UNCHANGED <<sessions, attempts, forks, closed, broken>>
  BY DEF Commit, MayCommit, lineage
<1>2. /\ user' \in [Users -> UserRow \cup {NoUser}]
      /\ \A v \in Users : user'[v] = IF v = u THEN row ELSE user[v]
  BY DEF Commit, SessionsTyped, Shape
<1>3. ASSUME NEW t \in access'
      PROVE  /\ t \in AccessToken
             /\ \E s \in access : /\ t.user = s.user /\ t.role = s.role
                                  /\ (~t.old => ~s.old /\ t.user # u)
  <2>1. PICK s \in access : t = [s EXCEPT !.old = @ \/ s.user = u]
    BY DEF Commit, Outdate
  <2>2. s \in AccessToken
    BY DEF SessionsTyped, Shape
  <2> QED  BY <2>1, <2>2 DEF AccessToken
<1>4. ASSUME NEW t \in challenges'
      PROVE  /\ t \in Challenge
             /\ \E s \in challenges : t.user = s.user /\ (~t.old => ~s.old /\ t.user # u)
  <2>1. PICK s \in challenges : t = [s EXCEPT !.old = @ \/ s.user = u]
    BY DEF Commit, Outdate
  <2>2. s \in Challenge
    BY DEF SessionsTyped, Shape
  <2> QED  BY <2>1, <2>2 DEF Challenge
<1> DEFINE out(d) == [req[d] EXCEPT !.old = @ \/ (req[d].op \in Issuing /\ req[d].user = u)]
<1>5. ASSUME NEW d \in Clients, req[d] # NoReq
      PROVE  /\ out(d) \in Requests
             /\ out(d).op = req[d].op /\ out(d).user = req[d].user /\ out(d).arg = req[d].arg
             /\ out(d).at = req[d].at /\ out(d).tok = req[d].tok /\ out(d).role = req[d].role
             /\ ~out(d).old => ~req[d].old /\ (req[d].op \in Issuing => req[d].user # u)
  <2>1. req[d] \in Requests
    BY <1>5 DEF SessionsTyped, Shape
  <2> QED  BY <2>1 DEF Requests
<1>6. /\ req' \in [Clients -> Requests \cup {NoReq}]
      /\ \A d \in Clients : req'[d] # NoReq => req[d] # NoReq /\ req'[d] = out(d)
  <2>1. OutdatedReq(u) = [d \in Clients |-> IF req[d] = NoReq THEN NoReq ELSE out(d)]
    BY DEF OutdatedReq
  <2> HIDE DEF out
  <2>2. OutdatedReq(u) \in [Clients -> Requests \cup {NoReq}]
    BY <1>5, <2>1
  <2>3. CASE req' = OutdatedReq(u)
    BY <2>1, <2>2, <2>3
  <2>4. ASSUME NEW c \in Clients, req' = [OutdatedReq(u) EXCEPT ![c] = NoReq]
        PROVE  /\ req' \in [Clients -> Requests \cup {NoReq}]
               /\ \A d \in Clients : req'[d] # NoReq => req[d] # NoReq /\ req'[d] = out(d)
    <3>1. \A d \in Clients : req'[d] = IF d = c THEN NoReq ELSE OutdatedReq(u)[d]
      BY <2>1, <2>4
    <3>2. req' \in [Clients -> Requests \cup {NoReq}]
      BY <2>2, <2>4
    <3> QED  BY <2>1, <3>1, <3>2
  <2> QED  BY <2>3, <2>4
<1> HIDE DEF out
<1>7. ASSUME NEW d \in Clients, req'[d] # NoReq
      PROVE  /\ req[d] # NoReq
             /\ req'[d].op = req[d].op /\ req'[d].user = req[d].user /\ req'[d].arg = req[d].arg
             /\ req'[d].at = req[d].at /\ req'[d].tok = req[d].tok /\ req'[d].role = req[d].role
             /\ ~req'[d].old => ~req[d].old /\ (req[d].op \in Issuing => req[d].user # u)
  BY <1>5, <1>6, <1>7
<1>8. access' \subseteq AccessToken /\ challenges' \subseteq Challenge
  BY <1>3, <1>4
<1> QED  BY <1>1, <1>2, <1>3, <1>4, <1>6, <1>7, <1>8

\* A commit ends no request but its own.
LEMMA OutdatedKeeps ==
  ASSUME SessionsTyped, NEW u \in Users
  PROVE  /\ req' = OutdatedReq(u) => \A d \in Clients : req[d] # NoReq => req'[d] # NoReq
         /\ \A c \in Clients : req' = [OutdatedReq(u) EXCEPT ![c] = NoReq] =>
              \A d \in Clients : d # c /\ req[d] # NoReq => req'[d] # NoReq
<1>1. \A d \in Clients : req[d] # NoReq => OutdatedReq(u)[d] # NoReq
  <2> SUFFICES ASSUME NEW d \in Clients, req[d] # NoReq PROVE OutdatedReq(u)[d] # NoReq
    OBVIOUS
  <2>1. PICK r : r = [req[d] EXCEPT !.old = @ \/ (req[d].op \in Issuing /\ req[d].user = u)]
    OBVIOUS
  <2>2. req[d] \in Requests
    BY DEF SessionsTyped, Shape
  <2>3. r \in Requests
    BY <2>1, <2>2 DEF Requests
  <2>4. OutdatedReq(u)[d] = r
    BY <2>1 DEF OutdatedReq
  <2> QED  BY <2>3, <2>4, SessionsLimits
<1>2. OutdatedReq(u) = [d \in Clients |-> OutdatedReq(u)[d]]
  BY DEF OutdatedReq
<1> HIDE DEF OutdatedReq
<1> QED  BY <1>1, <1>2

LEMMA CommitTyped ==
  ASSUME SessionsTyped, NEW u \in Users, NEW row \in UserRow, Commit(u, row),
         \/ req' = OutdatedReq(u)
         \/ \E c \in Clients : req' = [OutdatedReq(u) EXCEPT ![c] = NoReq],
         torn' = torn, proved' \in [Users -> Secrets \cup {NoSecret}]
  PROVE  SessionsTyped'
<1>1. /\ edits' = edits + 1 /\ Len(sessions) + edits < MaxCommits
      /\ UNCHANGED <<sessions, attempts, forks, closed, broken>>
      /\ user' \in [Users -> UserRow \cup {NoUser}]
      /\ \A v \in Users : user'[v] = IF v = u THEN row ELSE user[v]
      /\ access' \subseteq AccessToken /\ challenges' \subseteq Challenge
  BY CommitFacts
<1>2. /\ \A t \in access' : \E s \in access : t.user = s.user
      /\ \A t \in challenges' : \E s \in challenges : t.user = s.user
  BY CommitFacts
<1>3. /\ req' \in [Clients -> Requests \cup {NoReq}]
      /\ \A d \in Clients : req'[d] # NoReq =>
              /\ req[d] # NoReq
              /\ req'[d].op = req[d].op /\ req'[d].user = req[d].user /\ req'[d].arg = req[d].arg
              /\ req'[d].at = req[d].at /\ req'[d].tok = req[d].tok /\ req'[d].role = req[d].role
  BY CommitFacts
<1>4. \A v \in Users : user[v] # NoUser => user'[v] # NoUser
  BY <1>1, SessionsLimits
<1>5. Shape'
  <2>1. edits' \in Nat /\ Len(sessions') + edits' <= MaxCommits
    BY <1>1, SessionsLimits DEF SessionsTyped, Shape
  <2>2. \A d \in Clients : req'[d] # NoReq =>
          /\ req'[d].tok <= Len(sessions')
          /\ req'[d].tok > 0 <=> req'[d].op \in {"refresh", "logout"}
    BY <1>1, <1>3 DEF SessionsTyped, Shape
  <2>3. /\ sessions' \in Seq(SessionRow) /\ \A k \in DOMAIN sessions' : sessions'[k].login <= k
        /\ attempts' \in Nat /\ forks' \in [1 .. MaxCommits -> Nat]
        /\ closed' \cup broken' \subseteq DOMAIN sessions' /\ torn' \subseteq Users
    BY <1>1 DEF SessionsTyped, Shape
  <2> QED  BY <1>1, <1>3, <2>1, <2>2, <2>3 DEF Shape
<1>6. RowsExist'
  <2>1. \A k \in DOMAIN sessions' : user'[sessions'[k].user] # NoUser
    BY <1>1, <1>4, SessionTypes DEF SessionsTyped, RowsExist
  <2>2. \A t \in access' \cup challenges' : user'[t.user] # NoUser
    <3>1. \A t \in access \cup challenges : t.user \in Users /\ user[t.user] # NoUser
      BY DEF SessionsTyped, Shape, RowsExist, AccessToken, Challenge
    <3> QED  BY <1>2, <1>4, <3>1
  <2>3. ASSUME NEW d \in Clients, req'[d] # NoReq PROVE Carried(d)'
    <3>1. Carried(d) /\ req[d].user \in Users
      BY <1>3, <2>3, ReqTypes DEF SessionsTyped, RowsExist
    <3> QED  BY <1>1, <1>3, <1>4, <2>3, <3>1 DEF Carried
  <2> QED  BY <2>1, <2>2, <2>3 DEF RowsExist
<1> QED  BY <1>5, <1>6 DEF SessionsTyped

\* The row an own change commits.
LEMMA AssignedRow ==
  ASSUME SessionsTyped, NEW c \in Clients, OwnCommits(c)
  PROVE  /\ req[c] # NoReq /\ req[c].op \in MfaOps \cup {"password"} /\ req[c].user \in Users
         /\ user[req[c].user] \in UserRow
         /\ Assigned(user[req[c].user], req[c].op, req[c].arg) \in UserRow
         /\ Commit(req[c].user, Assigned(user[req[c].user], req[c].op, req[c].arg))
         /\ req' = [OutdatedReq(req[c].user) EXCEPT ![c] = NoReq]
<1>1. /\ req[c] # NoReq /\ req[c].op \in MfaOps \cup {"password"}
      /\ Commit(req[c].user, Assigned(user[req[c].user], req[c].op, req[c].arg))
      /\ req' = [OutdatedReq(req[c].user) EXCEPT ![c] = NoReq]
  BY DEF OwnCommits
<1>2. /\ req[c].user \in Users /\ user[req[c].user] # NoUser
      /\ req[c].op \in {"enroll", "confirm"} => req[c].arg \in Secrets
      /\ req[c].op = "password" => req[c].arg \in Passwords
  BY <1>1, ReqTypes DEF SessionsTyped, RowsExist, Carried, MfaOps
<1>3. user[req[c].user] \in UserRow
  BY <1>2, RowTypes DEF SessionsTyped
<1>4. Assigned(user[req[c].user], req[c].op, req[c].arg) \in UserRow
  <2>1. CASE req[c].op = "enroll"
    BY <1>2, <1>3, <2>1 DEF Assigned, UserRow
  <2>2. CASE req[c].op = "confirm"
    BY <1>2, <1>3, <2>2 DEF Assigned, UserRow
  <2>3. CASE req[c].op = "disable"
    BY <1>2, <1>3, <2>3 DEF Assigned, UserRow
  <2>4. CASE req[c].op = "password"
    BY <1>2, <1>3, <2>4 DEF Assigned, UserRow
  <2> QED  BY <1>1, <2>1, <2>2, <2>3, <2>4 DEF MfaOps
<1> QED  BY <1>1, <1>2, <1>3, <1>4
\* The other changes of rows: an administrator's.
LEMMA AdminCommits ==
  ASSUME SessionsTyped, NEW u \in Users,
         UpdateUser(u) \/ \E p \in Passwords, r \in RolesUsed : CreateUser(u, p, r)
  PROVE  \E row \in UserRow :
           /\ Commit(u, row) /\ req' = OutdatedReq(u) /\ torn' = torn /\ proved' = proved
           /\ \/ user[u] = NoUser /\ ~row.mfa
              \/ user[u] # NoUser /\ row.mfa = user[u].mfa /\ row.secret = user[u].secret
<1>1. ASSUME NEW p \in Passwords, NEW r \in RolesUsed, CreateUser(u, p, r)
      PROVE  \E row \in UserRow :
               /\ Commit(u, row) /\ req' = OutdatedReq(u) /\ torn' = torn /\ proved' = proved
               /\ user[u] = NoUser /\ ~row.mfa
  <2> DEFINE row == [active |-> TRUE, role |-> r, pw |-> p, mfa |-> FALSE, secret |-> NoSecret]
  <2>1. row \in UserRow /\ ~row.mfa
    BY SessionsLimits DEF UserRow
  <2>2. Commit(u, row) /\ req' = OutdatedReq(u) /\ UNCHANGED <<torn, proved>> /\ user[u] = NoUser
    BY <1>1 DEF CreateUser, mfaHistory
  <2> HIDE DEF row
  <2> QED  BY <2>1, <2>2
<1>2. ASSUME UpdateUser(u)
      PROVE  \E row \in UserRow :
               /\ Commit(u, row) /\ req' = OutdatedReq(u) /\ torn' = torn /\ proved' = proved
               /\ user[u] # NoUser /\ row.mfa = user[u].mfa /\ row.secret = user[u].secret
  <2>1. PICK active \in BOOLEAN, role \in RolesUsed :
          Commit(u, [user[u] EXCEPT !.active = active, !.role = role])
    BY <1>2 DEF UpdateUser
  <2>2. user[u] # NoUser /\ req' = OutdatedReq(u) /\ UNCHANGED <<torn, proved>>
    BY <1>2 DEF UpdateUser, mfaHistory
  <2>3. user[u] \in UserRow /\ role \in Roles
    BY <2>2, RowTypes, SessionsLimits DEF SessionsTyped
  <2>4. PICK row : row = [user[u] EXCEPT !.active = active, !.role = role]
    OBVIOUS
  <2>5. row \in UserRow /\ row.mfa = user[u].mfa /\ row.secret = user[u].secret
    BY <2>3, <2>4 DEF UserRow
  <2> QED  BY <2>1, <2>2, <2>4, <2>5
<1> QED  BY <1>1, <1>2

\* A session more, for a user that has a row.
LEMMA AppendTyped ==
  ASSUME SessionsTyped, NEW c \in Clients, NEW s \in SessionRow, NEW t \in AccessToken,
         sessions' = Append(sessions, s), s.login <= Len(sessions) + 1, user[s.user] # NoUser,
         access' = access \cup {t}, user[t.user] # NoUser, End(c), MayCommit, attempts' \in Nat,
         UNCHANGED <<user, edits, torn, proved, challenges, forks, closed, broken>>
  PROVE  SessionsTyped'
<1>1. /\ \A d \in Clients : req'[d] = IF d = c THEN NoReq ELSE req[d]
      /\ req' \in [Clients -> Requests \cup {NoReq}]
  BY EndFacts DEF SessionsTyped
<1>2. /\ sessions \in Seq(SessionRow) /\ sessions' \in Seq(SessionRow)
      /\ Len(sessions) \in Nat /\ Len(sessions') = Len(sessions) + 1
      /\ DOMAIN sessions = 1 .. Len(sessions) /\ DOMAIN sessions' = 1 .. Len(sessions) + 1
      /\ \A k \in DOMAIN sessions : sessions'[k] = sessions[k]
      /\ sessions'[Len(sessions) + 1] = s
  BY DEF SessionsTyped, Shape
<1>3. \A k \in DOMAIN sessions' : k \in DOMAIN sessions \/ k = Len(sessions) + 1
  BY <1>2
<1>4. Shape'
  <2>1. \A k \in DOMAIN sessions' : sessions'[k].login <= k
    BY <1>2, <1>3 DEF SessionsTyped, Shape
  <2>2. edits' \in Nat /\ Len(sessions') + edits' <= MaxCommits
    BY <1>2, SessionsLimits DEF MayCommit, SessionsTyped, Shape
  <2>3. \A d \in Clients : req'[d] # NoReq =>
          /\ req'[d].tok <= Len(sessions')
          /\ req'[d].tok > 0 <=> req'[d].op \in {"refresh", "logout"}
    <3>1. ASSUME NEW d \in Clients, req[d] # NoReq
          PROVE  /\ req[d].tok <= Len(sessions')
                 /\ req[d].tok > 0 <=> req[d].op \in {"refresh", "logout"}
      <4>1. req[d].tok <= Len(sessions) /\ (req[d].tok > 0 <=> req[d].op \in {"refresh", "logout"})
        BY <3>1 DEF SessionsTyped, Shape
      <4>2. req[d].tok \in 0 .. MaxCommits
        BY <3>1, ReqTypes, RequestTypes DEF SessionsTyped
      <4> QED  BY <1>2, <4>1, <4>2
    <3> QED  BY <1>1, <3>1
  <2>4. closed' \cup broken' \subseteq DOMAIN sessions'
    BY <1>2 DEF SessionsTyped, Shape
  <2>5. access' \subseteq AccessToken /\ challenges' \subseteq Challenge
    BY DEF SessionsTyped, Shape
  <2>6. /\ user' \in [Users -> UserRow \cup {NoUser}] /\ forks' \in [1 .. MaxCommits -> Nat]
        /\ torn' \subseteq Users /\ proved' \in [Users -> Secrets \cup {NoSecret}]
    BY DEF SessionsTyped, Shape
  <2> QED  BY <1>1, <1>2, <2>1, <2>2, <2>3, <2>4, <2>5, <2>6 DEF Shape
<1>5. RowsExist'
  <2>1. \A k \in DOMAIN sessions' : user'[sessions'[k].user] # NoUser
    BY <1>2, <1>3 DEF SessionsTyped, RowsExist
  <2>2. \A x \in access' \cup challenges' : user'[x.user] # NoUser
    BY DEF SessionsTyped, RowsExist
  <2>3. ASSUME NEW d \in Clients, req'[d] # NoReq PROVE Carried(d)'
    <3>1. req'[d] = req[d] /\ req[d] # NoReq
      BY <1>1, <2>3
    <3>2. /\ Carried(d)
          /\ req[d].op \in {"refresh", "logout"} => sessions'[req[d].tok] = sessions[req[d].tok]
      BY <1>2, <3>1, ReqTypes DEF SessionsTyped, RowsExist
    <3> QED  BY <3>1, <3>2 DEF Carried
  <2> QED  BY <2>1, <2>2, <2>3 DEF RowsExist
<1> QED  BY <1>4, <1>5 DEF SessionsTyped

LEMMA IssuesTyped ==
  ASSUME SessionsTyped, NEW c \in Clients, LoginIssues(c) \/ MfaIssues(c)
  PROVE  SessionsTyped'
<1>1. /\ req[c] # NoReq /\ req[c].op \in Issuing /\ IssueTokens(c) /\ attempts' \in Nat
  BY DEF LoginIssues, MfaIssues, Read, Busy, Issuing, SessionsTyped, Shape
<1>2. PICK k : k = Len(sessions) + 1
  OBVIOUS
<1>3. PICK s : s = [login |-> k, user |-> req[c].user, live |-> TRUE]
  OBVIOUS
<1>4. PICK t : t = [user |-> req[c].user, role |-> req[c].role, old |-> req[c].old]
  OBVIOUS
<1>5. /\ MayCommit /\ sessions' = Append(sessions, s) /\ access' = access \cup {t} /\ End(c)
      /\ UNCHANGED <<user, edits, torn, proved, challenges, forks, closed, broken>>
  BY <1>1, <1>2, <1>3, <1>4 DEF IssueTokens, lineage, AuthUnchanged, mfaHistory
<1>6. /\ req[c].user \in Users /\ user[req[c].user] # NoUser /\ req[c].role \in Roles
      /\ req[c].old \in BOOLEAN
  BY <1>1, ReqTypes DEF SessionsTyped, RowsExist, Carried, Issuing
<1>7. t \in AccessToken /\ user[t.user] # NoUser
  BY <1>4, <1>6 DEF AccessToken
<1>8. k \in 1 .. MaxCommits /\ s.login <= Len(sessions) + 1
  BY <1>2, <1>3, <1>5, SessionsLimits DEF MayCommit, SessionsTyped, Shape
<1>9. s \in SessionRow /\ user[s.user] # NoUser
  BY <1>3, <1>6, <1>8 DEF SessionRow
<1> QED  BY <1>1, <1>5, <1>7, <1>8, <1>9, AppendTyped

LEMMA RefreshIssuesTyped ==
  ASSUME SessionsTyped, NEW c \in Clients, RefreshIssues(c)
  PROVE  /\ SessionsTyped' /\ sessions[req[c].tok] \in SessionRow
         /\ sessions' = Append(sessions, [sessions[req[c].tok] EXCEPT !.live = TRUE])
         /\ req[c] # NoReq /\ req[c].op = "refresh" /\ req[c].at = "revoked"
         /\ req[c].tok \in DOMAIN sessions
         /\ access' = access \cup {[user |-> sessions[req[c].tok].user, role |-> req[c].role,
                                    old |-> req[c].old]}
         /\ End(c) /\ Len(sessions) + 1 <= MaxCommits
         /\ UNCHANGED <<user, edits, torn, proved, attempts, challenges, forks, closed, broken>>
<1>1. /\ req[c] # NoReq /\ req[c].op = "refresh" /\ req[c].at = "revoked" /\ MayCommit
      /\ sessions' = Append(sessions, [sessions[req[c].tok] EXCEPT !.live = TRUE])
      /\ access' = access \cup {[user |-> sessions[req[c].tok].user, role |-> req[c].role,
                                    old |-> req[c].old]}
      /\ End(c)
      /\ UNCHANGED <<user, edits, torn, proved, attempts, challenges, forks, closed, broken>>
  BY DEF RefreshIssues, Busy, lineage, AuthUnchanged, mfaHistory
<1>2. /\ req[c].tok \in DOMAIN sessions /\ req[c].role \in Roles /\ req[c].old \in BOOLEAN
  BY <1>1, ReqTypes DEF SessionsTyped, RowsExist, Carried, Issuing
<1>3. /\ sessions[req[c].tok] \in SessionRow /\ sessions[req[c].tok].login \in 1 .. req[c].tok
      /\ req[c].tok \in 1 .. Len(sessions) /\ Len(sessions) \in Nat
      /\ user[sessions[req[c].tok].user] # NoUser
  BY <1>2, SessionTypes DEF SessionsTyped, RowsExist
<1>4. PICK s : s = [sessions[req[c].tok] EXCEPT !.live = TRUE]
  OBVIOUS
<1>5. PICK t : t = [user |-> sessions[req[c].tok].user, role |-> req[c].role, old |-> req[c].old]
  OBVIOUS
<1>6. s \in SessionRow /\ s.login = sessions[req[c].tok].login /\ s.user = sessions[req[c].tok].user
  BY <1>3, <1>4 DEF SessionRow
<1>7. t \in AccessToken /\ t.user = sessions[req[c].tok].user
  BY <1>2, <1>3, <1>5 DEF AccessToken, SessionRow
<1>8. s.login <= Len(sessions) + 1 /\ user[s.user] # NoUser /\ attempts' \in Nat
  BY <1>1, <1>3, <1>6 DEF SessionsTyped, Shape
<1>9. SessionsTyped'
  BY <1>1, <1>3, <1>4, <1>5, <1>6, <1>7, <1>8, AppendTyped
<1>10. Len(sessions) + 1 <= MaxCommits
  BY <1>1, SessionsLimits DEF MayCommit, SessionsTyped, Shape
<1> QED  BY <1>1, <1>2, <1>3, <1>9, <1>10
\* revoke_session: nothing but one session's flag changes, and a second revocation counts.
LEMMA RevokeFacts ==
  ASSUME SessionsTyped, NEW k \in DOMAIN sessions, sessions' = Revoked(k), CountFork(k)
  PROVE  /\ sessions' \in Seq(SessionRow) /\ Len(sessions') = Len(sessions)
         /\ DOMAIN sessions' = DOMAIN sessions
         /\ \A j \in DOMAIN sessions :
              /\ sessions'[j].login = sessions[j].login /\ sessions'[j].user = sessions[j].user
              /\ sessions'[j].live <=> sessions[j].live /\ j # k
         /\ forks' \in [1 .. MaxCommits -> Nat]
         /\ \A f \in 1 .. MaxCommits :
              forks'[f] = IF f = sessions[k].login /\ ~Live(k) THEN forks[f] + 1 ELSE forks[f]
<1>1. sessions' = [sessions EXCEPT ![k].live = FALSE] /\ sessions \in Seq(SessionRow)
  BY DEF Revoked, SessionsTyped, Shape
<1>2. DOMAIN sessions = 1 .. Len(sessions) /\ Len(sessions) \in Nat
  BY <1>1
<1>3. \A j \in DOMAIN sessions : sessions[j] \in SessionRow
  BY SessionTypes DEF SessionsTyped
<1>4. /\ DOMAIN sessions' = DOMAIN sessions
      /\ \A j \in DOMAIN sessions :
           sessions'[j] = IF j = k THEN [sessions[j] EXCEPT !.live = FALSE] ELSE sessions[j]
  BY <1>1
<1>5. ASSUME NEW j \in DOMAIN sessions
      PROVE  /\ sessions'[j] \in SessionRow
             /\ sessions'[j].login = sessions[j].login /\ sessions'[j].user = sessions[j].user
             /\ sessions'[j].live <=> sessions[j].live /\ j # k
  BY <1>3, <1>4 DEF SessionRow
<1>6. sessions' \in Seq(SessionRow) /\ Len(sessions') = Len(sessions)
  <2>1. sessions' = [j \in 1 .. Len(sessions) |-> sessions'[j]]
    BY <1>1, <1>2
  <2>2. sessions' \in [1 .. Len(sessions) -> SessionRow]
    BY <1>2, <1>5, <2>1
  <2> QED  BY <1>2, <2>2
<1>7. forks \in [1 .. MaxCommits -> Nat]
  BY DEF SessionsTyped, Shape
<1>8. /\ forks' \in [1 .. MaxCommits -> Nat]
      /\ \A f \in 1 .. MaxCommits :
           forks'[f] = IF f = sessions[k].login /\ ~Live(k) THEN forks[f] + 1 ELSE forks[f]
  <2>1. CASE Live(k)
    BY <1>7, <2>1 DEF CountFork
  <2>2. CASE ~Live(k)
    <3>1. forks' = [forks EXCEPT ![sessions[k].login] = forks[sessions[k].login] + 1]
      BY <2>2 DEF CountFork
    <3>2. sessions[k].login \in 1 .. MaxCommits
      BY SessionTypes DEF SessionsTyped, SessionRow
    <3> QED  BY <1>7, <2>2, <3>1, <3>2
  <2> QED  BY <2>1, <2>2
<1> QED  BY <1>4, <1>5, <1>6, <1>8

LEMMA RevokeTyped ==
  ASSUME SessionsTyped, NEW k \in DOMAIN sessions, sessions' = Revoked(k), CountFork(k),
         UNCHANGED <<user, edits, attempts, access, challenges, torn, proved, broken>>,
         closed' \subseteq DOMAIN sessions,
         req' \in [Clients -> Requests \cup {NoReq}],
         \A c \in Clients : req'[c] # NoReq =>
           /\ req[c] # NoReq
           /\ req'[c].op = req[c].op /\ req'[c].user = req[c].user /\ req'[c].arg = req[c].arg
           /\ req'[c].tok = req[c].tok /\ req'[c].role = req[c].role
           /\ req'[c].at = req[c].at \/ req[c].op = "refresh"
  PROVE  SessionsTyped'
<1>1. /\ sessions' \in Seq(SessionRow) /\ Len(sessions') = Len(sessions)
      /\ DOMAIN sessions' = DOMAIN sessions
      /\ \A j \in DOMAIN sessions :
           sessions'[j].login = sessions[j].login /\ sessions'[j].user = sessions[j].user
      /\ forks' \in [1 .. MaxCommits -> Nat]
  BY RevokeFacts
<1>2. Shape'
  <2>1. \A c \in Clients : req'[c] # NoReq =>
          /\ req'[c].tok <= Len(sessions')
          /\ req'[c].tok > 0 <=> req'[c].op \in {"refresh", "logout"}
    BY <1>1 DEF SessionsTyped, Shape
  <2>2. /\ edits' \in Nat /\ Len(sessions') + edits' <= MaxCommits
        /\ \A j \in DOMAIN sessions' : sessions'[j].login <= j
        /\ closed' \cup broken' \subseteq DOMAIN sessions'
    BY <1>1 DEF SessionsTyped, Shape
  <2>3. /\ user' \in [Users -> UserRow \cup {NoUser}] /\ attempts' \in Nat
        /\ access' \subseteq AccessToken /\ challenges' \subseteq Challenge
        /\ torn' \subseteq Users /\ proved' \in [Users -> Secrets \cup {NoSecret}]
    BY DEF SessionsTyped, Shape
  <2> QED  BY <1>1, <2>1, <2>2, <2>3 DEF Shape
<1>3. RowsExist'
  <2>1. \A j \in DOMAIN sessions' : user'[sessions'[j].user] # NoUser
    BY <1>1 DEF SessionsTyped, RowsExist
  <2>2. \A t \in access' \cup challenges' : user'[t.user] # NoUser
    BY DEF SessionsTyped, RowsExist
  <2>3. ASSUME NEW c \in Clients, req'[c] # NoReq PROVE Carried(c)'
    <3>1. Carried(c) /\ (req[c].op \in {"refresh", "logout"} => req[c].tok \in DOMAIN sessions)
      BY <2>3, ReqTypes DEF SessionsTyped, RowsExist
    <3> QED  BY <1>1, <2>3, <3>1 DEF Carried
  <2> QED  BY <2>1, <2>2, <2>3 DEF RowsExist
<1> QED  BY <1>2, <1>3 DEF SessionsTyped

LEMMA RefreshRevokesTyped ==
  ASSUME SessionsTyped, NEW c \in Clients, RefreshRevokes(c)
  PROVE  /\ SessionsTyped'
         /\ req[c] # NoReq /\ req[c].op = "refresh" /\ req[c].at = "read"
         /\ req[c].tok \in DOMAIN sessions
         /\ sessions' = Revoked(req[c].tok) /\ CountFork(req[c].tok)
         /\ UNCHANGED <<user, edits, attempts, access, challenges, torn, proved, broken, closed>>
         /\ req'[c] \in Requests /\ req'[c].op = "refresh" /\ req'[c].at = "revoked"
         /\ req'[c].tok = req[c].tok /\ req'[c].user = req[c].user /\ req'[c].role = req[c].role
         /\ req'[c].old = req[c].old
         /\ \A d \in Clients \ {c} : req'[d] = req[d]
<1>1. /\ req[c] # NoReq /\ req[c].op = "refresh" /\ req[c].at = "read"
      /\ sessions' = Revoked(req[c].tok) /\ CountFork(req[c].tok)
      /\ UNCHANGED <<user, edits, attempts, access, challenges, torn, proved, broken, closed>>
      /\ req' = [req EXCEPT ![c].at = "revoked"]
  BY DEF RefreshRevokes, Read, Busy, tokens, AuthUnchanged, mfaHistory
<1>2. req[c].tok \in DOMAIN sessions /\ req[c] \in Requests
  BY <1>1, ReqTypes DEF SessionsTyped
<1>3. PICK new : new = [req[c] EXCEPT !.at = "revoked"]
  OBVIOUS
<1>4. /\ new \in Requests /\ new.op = req[c].op /\ new.at = "revoked" /\ new.tok = req[c].tok
      /\ new.user = req[c].user /\ new.arg = req[c].arg /\ new.role = req[c].role
      /\ new.old = req[c].old
  BY <1>2, <1>3 DEF Requests
<1>5. req' = [req EXCEPT ![c] = new]
  BY <1>1, <1>3
<1>6. /\ \A d \in Clients : req'[d] = IF d = c THEN new ELSE req[d]
      /\ req' \in [Clients -> Requests \cup {NoReq}]
  BY <1>4, <1>5, StartFacts DEF SessionsTyped
<1>7. closed' \subseteq DOMAIN sessions
  BY <1>1 DEF SessionsTyped, Shape
<1>8. \A d \in Clients : req'[d] # NoReq =>
           /\ req[d] # NoReq
           /\ req'[d].op = req[d].op /\ req'[d].user = req[d].user /\ req'[d].arg = req[d].arg
           /\ req'[d].tok = req[d].tok /\ req'[d].role = req[d].role
           /\ req'[d].at = req[d].at \/ req[d].op = "refresh"
  BY <1>1, <1>4, <1>6
<1>9. SessionsTyped'
  BY <1>1, <1>2, <1>6, <1>7, <1>8, RevokeTyped
<1> QED  BY <1>1, <1>2, <1>4, <1>6, <1>9

LEMMA LogoutTyped ==
  ASSUME SessionsTyped, NEW c \in Clients, LogoutRevokes(c)
  PROVE  /\ SessionsTyped'
         /\ req[c] # NoReq /\ req[c].op = "logout" /\ req[c].tok \in DOMAIN sessions
         /\ sessions' = Revoked(req[c].tok) /\ CountFork(req[c].tok) /\ End(c)
         /\ closed' = closed \cup {sessions[req[c].tok].login}
         /\ UNCHANGED <<user, edits, attempts, access, challenges, torn, proved, broken>>
<1>1. /\ req[c] # NoReq /\ req[c].op = "logout"
      /\ sessions' = Revoked(req[c].tok) /\ CountFork(req[c].tok) /\ End(c)
      /\ closed' = closed \cup {sessions[req[c].tok].login}
      /\ UNCHANGED <<user, edits, attempts, access, challenges, torn, proved, broken>>
  BY DEF LogoutRevokes, Read, Busy, tokens, AuthUnchanged, mfaHistory
<1>2. req[c].tok \in DOMAIN sessions
  BY <1>1, ReqTypes DEF SessionsTyped
<1>3. closed' \subseteq DOMAIN sessions
  BY <1>1, <1>2, SessionTypes DEF SessionsTyped, Shape
<1>4. /\ \A d \in Clients : req'[d] = IF d = c THEN NoReq ELSE req[d]
      /\ req' \in [Clients -> Requests \cup {NoReq}]
  BY <1>1, EndFacts DEF SessionsTyped
<1>5. \A d \in Clients : req'[d] # NoReq => req[d] # NoReq /\ req'[d] = req[d]
  BY <1>4
<1>6. SessionsTyped'
  BY <1>1, <1>2, <1>3, <1>4, <1>5, RevokeTyped
<1> QED  BY <1>1, <1>2, <1>6
LEMMA StartTyped ==
  ASSUME SessionsTyped, NEW c \in Clients,
         \/ \E u \in Users, p \in Passwords : LoginStart(c, u, p)
         \/ \E ch \in challenges, s \in Secrets : MfaStart(c, ch, s)
         \/ \E k \in 1 .. MaxCommits, op \in {"refresh", "logout"} : SessionRead(c, op, k)
         \/ \E op \in {"enroll", "confirm"}, s \in Secrets : OwnStart(c, op, s)
         \/ OwnStart(c, "disable", NoSecret)
         \/ \E p \in Passwords : OwnStart(c, "password", p)
  PROVE  SessionsTyped'
<1>1. ASSUME NEW new \in Requests, req' = [req EXCEPT ![c] = new],
             UNCHANGED <<user, sessions, edits, attempts, forks, closed, broken, access, challenges,
                         proved>>,
             torn' \subseteq Users, new.at = "read", new.tok <= Len(sessions),
             new.tok > 0 <=> new.op \in {"refresh", "logout"},
             new.op # "guess" => user[new.user] # NoUser,
             new.op \in Issuing => new.role \in Roles,
             new.op \in {"refresh", "logout"} => new.user = sessions[new.tok].user,
             new.op \in {"enroll", "confirm"} => new.arg \in Secrets,
             new.op = "password" => new.arg \in Passwords
      PROVE  SessionsTyped'
  <2>1. /\ \A d \in Clients : req'[d] = IF d = c THEN new ELSE req[d]
        /\ req' \in [Clients -> Requests \cup {NoReq}]
    BY <1>1, StartFacts DEF SessionsTyped
  <2>2. Carried(c)'
    BY <1>1, <2>1 DEF Carried
  <2>3. \A d \in Clients : req'[d] \in {NoReq, req[d]} \/
           /\ req'[d].tok <= Len(sessions)
           /\ req'[d].tok > 0 <=> req'[d].op \in {"refresh", "logout"}
           /\ Carried(d)'
    BY <1>1, <2>1, <2>2
  <2>4. /\ attempts' \in Nat /\ closed' \cup broken' \subseteq DOMAIN sessions
        /\ challenges' \subseteq Challenge /\ \A t \in challenges' : user[t.user] # NoUser
    BY <1>1 DEF SessionsTyped, Shape, RowsExist
  <2> QED  BY <1>1, <2>1, <2>3, <2>4, TypedReq
<1>2. ASSUME NEW u \in Users, NEW p \in Passwords, LoginStart(c, u, p) PROVE SessionsTyped'
  <2>1. /\ UNCHANGED <<user, sessions, edits, attempts, forks, closed, broken, access, torn, proved>>
        /\ torn' \subseteq Users
    BY <1>2, LoginStartFacts DEF SessionsTyped, Shape
  <2>2. ASSUME challenges' = challenges, NEW new \in Requests, req' = [req EXCEPT ![c] = new],
               new.user = u, new.at = "read", new.tok = 0,
               new.op \in {"guess", "login"},
               new.op = "login" => user[u] # NoUser /\ new.role = user[u].role
        PROVE  SessionsTyped'
    <3>1. new.op \in Issuing => user[u] # NoUser /\ new.role \in Roles
      BY <2>2, RowTypes DEF SessionsTyped, Issuing
    <3>2. new.tok <= Len(sessions) /\ ~(new.tok > 0)
      BY <2>2 DEF SessionsTyped, Shape
    <3>3. new.op # "guess" => user[new.user] # NoUser
      BY <2>2
    <3>4. /\ new.op \notin {"refresh", "logout"} /\ new.op \notin {"enroll", "confirm"}
          /\ new.op # "password"
      BY <2>2
    <3> QED  BY <1>1, <2>1, <2>2, <3>1, <3>2, <3>3, <3>4
  <2>3. ASSUME req' = req, user[u] # NoUser,
               challenges' = challenges \cup {[user |-> u, old |-> FALSE]}
        PROVE  SessionsTyped'
    <3>1. challenges' \subseteq Challenge /\ \A t \in challenges' : user[t.user] # NoUser
      <4>1. PICK ch : ch = [user |-> u, old |-> FALSE]
        OBVIOUS
      <4>2. ch \in Challenge /\ ch.user = u
        BY <4>1 DEF Challenge
      <4>3. challenges' = challenges \cup {ch}
        BY <2>3, <4>1
      <4>4. challenges \subseteq Challenge /\ \A t \in challenges : user[t.user] # NoUser
        BY DEF SessionsTyped, Shape, RowsExist
      <4> QED  BY <2>3, <4>2, <4>3, <4>4
    <3>2. /\ attempts' \in Nat /\ closed' \cup broken' \subseteq DOMAIN sessions
          /\ req' \in [Clients -> Requests \cup {NoReq}] /\ \A d \in Clients : req'[d] \in {NoReq, req[d]}
      BY <2>1, <2>3 DEF SessionsTyped, Shape
    <3> QED  BY <2>1, <3>1, <3>2, TypedReq
  <2> QED  BY <1>2, <2>2, <2>3, LoginStartFacts
<1>3. ASSUME NEW ch \in challenges, NEW s \in Secrets, MfaStart(c, ch, s) PROVE SessionsTyped'
  <2>1. /\ UNCHANGED <<user, sessions, edits, attempts, forks, closed, broken, access, challenges,
                       proved>>
        /\ torn' \subseteq Users /\ ch.user \in Users
    BY <1>3, MfaStartFacts DEF SessionsTyped, Shape, Challenge
  <2>2. PICK new \in Requests :
              /\ req' = [req EXCEPT ![c] = new]
              /\ new.op = "mfa" /\ new.user = ch.user /\ new.at = "read"
              /\ new.tok = 0 /\ new.role = user[ch.user].role /\ user[ch.user] # NoUser
    BY <1>3, MfaStartFacts
  <2>3. new.role \in Roles /\ new.tok <= Len(sessions) /\ ~(new.tok > 0)
    BY <2>1, <2>2, RowTypes DEF SessionsTyped, Shape
  <2> QED  BY <1>1, <2>1, <2>2, <2>3
<1>4. ASSUME NEW k \in 1 .. MaxCommits, NEW op \in {"refresh", "logout"}, SessionRead(c, op, k)
      PROVE  SessionsTyped'
  <2>1. /\ UNCHANGED <<user, sessions, edits, attempts, forks, closed, broken, access, challenges,
                       proved>>
        /\ torn' \subseteq Users /\ k \in DOMAIN sessions /\ user[sessions[k].user] # NoUser
    BY <1>4, SessionReadFacts DEF SessionsTyped, Shape
  <2>2. PICK new \in Requests :
              /\ req' = [req EXCEPT ![c] = new]
              /\ new.op = op /\ new.user = sessions[k].user /\ new.at = "read" /\ new.tok = k
              /\ op = "refresh" => new.role = user[new.user].role
    BY <1>4, SessionReadFacts
  <2>3. /\ new.op = "refresh" => new.role \in Roles
        /\ new.tok <= Len(sessions) /\ new.tok > 0
    BY <2>1, <2>2, SessionTypes, RowTypes DEF SessionsTyped
  <2>4. /\ new.op \in Issuing => new.op = "refresh"
        /\ new.op \in {"refresh", "logout"} /\ new.op \notin {"enroll", "confirm"} /\ new.op # "password"
    BY <2>2 DEF Issuing
  <2> QED  BY <1>1, <2>1, <2>2, <2>3, <2>4
<1>5. ASSUME NEW op \in MfaOps \cup {"password"}, NEW a \in Passwords \cup Secrets \cup {NoSecret},
             OwnStart(c, op, a), op \in {"enroll", "confirm"} => a \in Secrets,
             op = "password" => a \in Passwords
      PROVE  SessionsTyped'
  <2>1. UNCHANGED <<user, sessions, edits, attempts, forks, closed, broken, access, challenges,
                    proved>>
    BY <1>5, OwnStartFacts
  <2>2. PICK new \in Requests :
              /\ req' = [req EXCEPT ![c] = new]
              /\ new.op = op /\ new.arg = a /\ new.at = "read" /\ new.tok = 0
              /\ user[new.user] # NoUser
              /\ torn' = IF op \in MfaOps /\ \E d \in Clients : MfaBusy(d, new.user)
                         THEN torn \cup {new.user} ELSE torn
    BY <1>5, OwnStartFacts
  <2>3. torn' \subseteq Users
    BY <2>2, RequestTypes DEF SessionsTyped, Shape
  <2>4. new.op \notin Issuing /\ new.op \notin {"refresh", "logout"}
    BY <2>2 DEF Issuing, MfaOps
  <2>5. new.tok <= Len(sessions) /\ ~(new.tok > 0)
    BY <2>2 DEF SessionsTyped, Shape
  <2> QED  BY <1>1, <1>5, <2>1, <2>2, <2>3, <2>4, <2>5
<1>6. /\ {"enroll", "confirm"} \subseteq MfaOps /\ "disable" \in MfaOps
      /\ NoSecret \in Passwords \cup Secrets \cup {NoSecret}
  BY DEF MfaOps
<1>7. CASE \E op \in {"enroll", "confirm"}, s \in Secrets : OwnStart(c, op, s)
  BY <1>5, <1>6, <1>7
<1>8. CASE OwnStart(c, "disable", NoSecret)
  BY <1>5, <1>6, <1>8
<1>9. CASE \E p \in Passwords : OwnStart(c, "password", p)
  BY <1>5, <1>9
<1> QED  BY <1>2, <1>3, <1>4, <1>7, <1>8, <1>9

LEMMA EndTyped ==
  ASSUME SessionsTyped, \/ \E c \in Clients : LoginFails(c)
                \/ AttemptAges \/ Crash
  PROVE  SessionsTyped'
<1>1. ASSUME NEW c \in Clients, LoginFails(c) PROVE SessionsTyped'
  <2>1. /\ End(c) /\ attempts' = attempts + 1
        /\ UNCHANGED <<user, sessions, edits, forks, closed, broken, access, challenges, torn, proved>>
    BY <1>1 DEF LoginFails, tokens, lineage, AuthUnchanged, mfaHistory
  <2>2. /\ \A d \in Clients : req'[d] = IF d = c THEN NoReq ELSE req[d]
        /\ req' \in [Clients -> Requests \cup {NoReq}]
    BY <2>1, EndFacts DEF SessionsTyped
  <2>3. /\ attempts' \in Nat /\ closed' \cup broken' \subseteq DOMAIN sessions /\ torn' \subseteq Users
        /\ challenges' \subseteq Challenge /\ \A t \in challenges' : user[t.user] # NoUser
        /\ \A d \in Clients : req'[d] \in {NoReq, req[d]}
    BY <2>1, <2>2 DEF SessionsTyped, Shape, RowsExist
  <2> QED  BY <2>1, <2>2, <2>3, TypedReq
<1>2. ASSUME AttemptAges PROVE SessionsTyped'
  <2>1. /\ attempts > 0 /\ attempts' = attempts - 1
        /\ UNCHANGED <<user, sessions, edits, forks, closed, broken, access, challenges, torn, proved,
                       req>>
    BY <1>2 DEF AttemptAges, tokens, lineage, AuthUnchanged, mfaHistory
  <2>3. /\ attempts' \in Nat /\ closed' \cup broken' \subseteq DOMAIN sessions /\ torn' \subseteq Users
        /\ challenges' \subseteq Challenge /\ \A t \in challenges' : user[t.user] # NoUser
        /\ req' \in [Clients -> Requests \cup {NoReq}] /\ \A d \in Clients : req'[d] \in {NoReq, req[d]}
    BY <2>1 DEF SessionsTyped, Shape, RowsExist
  <2> QED  BY <2>1, <2>3, TypedReq
<1>3. ASSUME Crash PROVE SessionsTyped'
  <2>1. /\ req' = [c \in Clients |-> NoReq] /\ attempts' = 0
        /\ broken' = broken \cup {sessions[req[c].tok].login :
                                    c \in {d \in Clients : req[d] # NoReq /\ req[d].tok > 0}}
        /\ UNCHANGED <<user, sessions, edits, forks, closed, access, challenges, torn, proved>>
    BY <1>3 DEF Crash, tokens, AuthUnchanged, mfaHistory
  <2>2. ASSUME NEW c \in Clients, req[c] # NoReq, req[c].tok > 0
        PROVE  sessions[req[c].tok].login \in DOMAIN sessions
    <3>1. req[c].tok \in DOMAIN sessions
      BY <2>2, ReqTypes DEF SessionsTyped
    <3> QED  BY <3>1, SessionTypes DEF SessionsTyped
  <2>3. broken' \subseteq DOMAIN sessions
    BY <2>1, <2>2 DEF SessionsTyped, Shape
  <2>4. /\ attempts' \in Nat /\ closed' \cup broken' \subseteq DOMAIN sessions /\ torn' \subseteq Users
        /\ challenges' \subseteq Challenge /\ \A t \in challenges' : user[t.user] # NoUser
        /\ req' \in [Clients -> Requests \cup {NoReq}] /\ \A d \in Clients : req'[d] \in {NoReq, req[d]}
    BY <2>1, <2>3 DEF SessionsTyped, Shape, RowsExist
  <2> QED  BY <2>1, <2>4, TypedReq
<1> QED  BY <1>1, <1>2, <1>3

LEMMA OwnCommitsTyped == ASSUME SessionsTyped, NEW c \in Clients, OwnCommits(c) PROVE SessionsTyped'
<1>1. /\ req[c] # NoReq /\ req[c].user \in Users
      /\ Assigned(user[req[c].user], req[c].op, req[c].arg) \in UserRow
      /\ Commit(req[c].user, Assigned(user[req[c].user], req[c].op, req[c].arg))
      /\ req' = [OutdatedReq(req[c].user) EXCEPT ![c] = NoReq]
  BY AssignedRow
<1>2. /\ torn' = torn
      /\ proved' = IF req[c].op = "confirm" THEN [proved EXCEPT ![req[c].user] = req[c].arg] ELSE proved
  BY DEF OwnCommits
<1>3. req[c].op = "confirm" => req[c].arg \in Secrets
  BY <1>1 DEF SessionsTyped, RowsExist, Carried
<1>4. proved' \in [Users -> Secrets \cup {NoSecret}]
  BY <1>1, <1>2, <1>3 DEF SessionsTyped, Shape
<1> QED  BY <1>1, <1>2, <1>4, CommitTyped

LEMMA AdminTyped ==
  ASSUME SessionsTyped, NEW u \in Users,
         UpdateUser(u) \/ \E p \in Passwords, r \in RolesUsed : CreateUser(u, p, r)
  PROVE  SessionsTyped'
<1>1. PICK row \in UserRow :
        Commit(u, row) /\ req' = OutdatedReq(u) /\ torn' = torn /\ proved' = proved
  BY AdminCommits
<1>2. proved' \in [Users -> Secrets \cup {NoSecret}]
  BY <1>1 DEF SessionsTyped, Shape
<1> QED  BY <1>1, <1>2, CommitTyped

LEMMA InitTyped == SessionsInit => SessionsTyped
<1> SUFFICES ASSUME SessionsInit PROVE SessionsTyped
  OBVIOUS
<1>1. PICK u \in Users, p \in Passwords, s \in Secrets \cup {NoSecret} :
        /\ user = [v \in Users |-> IF v = u THEN [active |-> TRUE, role |-> "Admin", pw |-> p,
                                                  mfa |-> s # NoSecret, secret |-> s]
                                   ELSE NoUser]
        /\ proved = [v \in Users |-> IF v = u THEN s ELSE NoSecret]
  BY DEF SessionsInit
<1>2. [active |-> TRUE, role |-> "Admin", pw |-> p, mfa |-> s # NoSecret, secret |-> s] \in UserRow
  BY DEF UserRow, Roles, ROLE_PERMISSIONS
<1>3. user \in [Users -> UserRow \cup {NoUser}] /\ proved \in [Users -> Secrets \cup {NoSecret}]
  <2> DEFINE row == [active |-> TRUE, role |-> "Admin", pw |-> p, mfa |-> s # NoSecret, secret |-> s]
  <2>1. row \in UserRow
    BY <1>2
  <2>2. user = [v \in Users |-> IF v = u THEN row ELSE NoUser]
    BY <1>1
  <2> HIDE DEF row
  <2> QED  BY <1>1, <2>1, <2>2
<1>4. /\ sessions = <<>> /\ access = {} /\ challenges = {} /\ attempts = 0
      /\ req = [c \in Clients |-> NoReq] /\ edits = 0
      /\ forks = [f \in 1 .. MaxCommits |-> 0] /\ closed = {} /\ broken = {} /\ torn = {}
  BY DEF SessionsInit
<1>5. Shape
  <2>1. /\ sessions \in Seq(SessionRow) /\ DOMAIN sessions = {} /\ Len(sessions) = 0
    BY <1>4
  <2>2. Len(sessions) + edits <= MaxCommits /\ edits \in Nat
    BY <1>4, <2>1, SessionsLimits
  <2> QED  BY <1>3, <1>4, <2>1, <2>2 DEF Shape
<1>6. RowsExist
  BY <1>4 DEF RowsExist
<1> QED  BY <1>5, <1>6 DEF SessionsTyped

LEMMA NextTyped == SessionsTyped /\ [SessionsNext]_sessionsVars => SessionsTyped'
<1> SUFFICES ASSUME SessionsTyped, [SessionsNext]_sessionsVars PROVE SessionsTyped'
  OBVIOUS
<1>1. ASSUME NEW c \in Clients, Step(c) PROVE SessionsTyped'
  BY <1>1, StartTyped, EndTyped, IssuesTyped, RefreshRevokesTyped, RefreshIssuesTyped, LogoutTyped,
     OwnCommitsTyped DEF Step
<1>2. CASE AttemptAges \/ Crash
  BY <1>2, EndTyped
<1>3. ASSUME NEW u \in Users, UpdateUser(u) \/ \E p \in Passwords, r \in RolesUsed : CreateUser(u, p, r)
      PROVE  SessionsTyped'
  BY <1>3, AdminTyped
<1>4. CASE UNCHANGED sessionsVars
  BY <1>4 DEF sessionsVars, SessionsTyped, Shape, RowsExist, Carried
<1> QED  BY <1>1, <1>2, <1>3, <1>4 DEF SessionsNext

LEMMA TypedAlways == SessionsSpec => []SessionsTyped
BY InitTyped, NextTyped, PTL DEF SessionsSpec
-----------------------------------------------------------------------------
(* The limiter.                                                            *)

LEMMA GuessingFinite ==
  /\ IsFiniteSet(Guessing) /\ Cardinality(Guessing) \in Nat
  /\ Cardinality(Clients) \in Nat /\ Cardinality(Guessing) <= Cardinality(Clients)
<1>1. Guessing \in SUBSET Clients
  BY DEF Guessing
<1> QED  BY <1>1, SessionsLimits, FS_Subset, FS_CardinalityType

LEMMA NextGuessingFinite ==
  /\ IsFiniteSet(Guessing') /\ Cardinality(Guessing') \in Nat
  /\ Cardinality(Guessing') <= Cardinality(Clients)
<1>1. Guessing' \in SUBSET Clients
  BY DEF Guessing
<1> HIDE DEF Guessing
<1> QED  BY <1>1, SessionsLimits, FS_Subset, FS_CardinalityType

\* Nobody begins to guess, and the failures do not grow.
LEMMA FewerGuesses ==
  ASSUME SessionsTyped, GuessesAreBounded, attempts' \in Nat, attempts' <= attempts,
         Guessing' \subseteq Guessing
  PROVE  GuessesAreBounded'
<1>1. Cardinality(Guessing') <= Cardinality(Guessing)
  <2>1. Guessing' \in SUBSET Guessing
    OBVIOUS
  <2> HIDE DEF Guessing
  <2> QED  BY <2>1, GuessingFinite, FS_Subset
<1>2. attempts \in Nat
  BY DEF SessionsTyped, Shape
<1> QED  BY <1>1, <1>2, GuessingFinite, NextGuessingFinite, SessionsLimits DEF GuessesAreBounded

LEMMA GuessesNext ==
  ASSUME SessionsTyped, GuessesAreBounded, [SessionsNext]_sessionsVars
  PROVE  GuessesAreBounded'
<1>1. attempts \in Nat
  BY DEF SessionsTyped, Shape
<1>2. ASSUME attempts' <= attempts, attempts' \in Nat,
             \A d \in Clients : req'[d] # NoReq =>
               req[d] # NoReq /\ req'[d].op = req[d].op
      PROVE  GuessesAreBounded'
  <2>1. Guessing' \subseteq Guessing
    BY <1>2 DEF Guessing, Busy
  <2> QED  BY <1>2, <2>1, FewerGuesses
<1>3. ASSUME attempts' = attempts, NEW c \in Clients, NEW new \in Requests,
             req' = [req EXCEPT ![c] = new], new.op \notin {"login", "guess"}
      PROVE  GuessesAreBounded'
  <2>1. \A d \in Clients : req'[d] = IF d = c THEN new ELSE req[d]
    BY <1>3, StartFacts DEF SessionsTyped
  <2>2. Guessing' \subseteq Guessing
    BY <1>3, <2>1 DEF Guessing, Busy
  <2> QED  BY <1>1, <1>3, <2>2, FewerGuesses
<1>4. ASSUME attempts' = attempts, attempts < MaxAttempts PROVE GuessesAreBounded'
  BY <1>1, <1>4, GuessingFinite, NextGuessingFinite, SessionsLimits DEF GuessesAreBounded
<1>5. ASSUME NEW c \in Clients, LoginFails(c) PROVE GuessesAreBounded'
  <2>1. Busy(c, "guess") /\ attempts' = attempts + 1 /\ End(c)
    BY <1>5 DEF LoginFails, Read
  <2>2. \A d \in Clients : req'[d] = IF d = c THEN NoReq ELSE req[d]
    BY <2>1, EndFacts DEF SessionsTyped
  <2>3. Guessing' = Guessing \ {c} /\ c \in Guessing
    BY <2>1, <2>2 DEF Guessing, Busy
  <2>4. Cardinality(Guessing') = Cardinality(Guessing) - 1
    <3> HIDE DEF Guessing
    <3> QED  BY <2>3, GuessingFinite, FS_RemoveElement
  <2> QED  BY <1>1, <2>1, <2>4, GuessingFinite, SessionsLimits DEF GuessesAreBounded
<1>6. ASSUME NEW c \in Clients, LoginIssues(c) PROVE GuessesAreBounded'
  <2>1. attempts' = 0
    BY <1>6 DEF LoginIssues
  <2> QED  BY <2>1, GuessingFinite, NextGuessingFinite, SessionsLimits DEF GuessesAreBounded
<1>7. ASSUME NEW c \in Clients,
             MfaIssues(c) \/ RefreshIssues(c) \/ LogoutRevokes(c)
      PROVE  GuessesAreBounded'
  <2>1. End(c) /\ attempts' = attempts
    BY <1>7, RefreshIssuesTyped, LogoutTyped DEF MfaIssues, IssueTokens
  <2>2. \A d \in Clients : req'[d] = IF d = c THEN NoReq ELSE req[d]
    BY <2>1, EndFacts DEF SessionsTyped
  <2> QED  BY <1>1, <1>2, <2>1, <2>2
<1>8. ASSUME NEW c \in Clients, RefreshRevokes(c) PROVE GuessesAreBounded'
  BY <1>1, <1>2, <1>8, RefreshRevokesTyped
<1>9. ASSUME NEW c \in Clients,
             \/ \E ch \in challenges, s \in Secrets : MfaStart(c, ch, s)
             \/ \E k \in 1 .. MaxCommits, op \in {"refresh", "logout"} : SessionRead(c, op, k)
      PROVE  GuessesAreBounded'
  <2>1. ASSUME NEW ch \in challenges, NEW s \in Secrets, MfaStart(c, ch, s)
        PROVE  /\ attempts' = attempts
               /\ \E new \in Requests : req' = [req EXCEPT ![c] = new] /\ new.op = "mfa"
    BY <2>1, MfaStartFacts
  <2>2. ASSUME NEW k \in 1 .. MaxCommits, NEW op \in {"refresh", "logout"}, SessionRead(c, op, k)
        PROVE  /\ attempts' = attempts
               /\ \E new \in Requests : req' = [req EXCEPT ![c] = new] /\ new.op = op
    BY <2>2, SessionReadFacts
  <2> QED  BY <1>3, <1>9, <2>1, <2>2
<1>10. ASSUME NEW c \in Clients, NEW op \in MfaOps \cup {"password"},
              NEW a \in Passwords \cup Secrets \cup {NoSecret}, OwnStart(c, op, a)
       PROVE  GuessesAreBounded'
  <2>1. PICK new \in Requests : req' = [req EXCEPT ![c] = new] /\ new.op = op
    BY <1>10, OwnStartFacts
  <2>2. attempts' = attempts
    BY <1>10, OwnStartFacts
  <2>3. op \notin {"login", "guess"}
    BY DEF MfaOps
  <2> QED  BY <1>3, <2>1, <2>2, <2>3
<1>11. ASSUME NEW u \in Users, NEW row \in UserRow, Commit(u, row),
              \/ req' = OutdatedReq(u)
              \/ \E c \in Clients : req' = [OutdatedReq(u) EXCEPT ![c] = NoReq]
       PROVE  GuessesAreBounded'
  BY <1>1, <1>2, <1>11, CommitFacts
<1>12. ASSUME NEW c \in Clients, NEW u \in Users, NEW p \in Passwords, LoginStart(c, u, p)
       PROVE  GuessesAreBounded'
  BY <1>4, <1>12, LoginStartFacts
<1>13. ASSUME NEW c \in Clients, Step(c) PROVE GuessesAreBounded'
  <2>1. /\ {"enroll", "confirm"} \subseteq MfaOps /\ "disable" \in MfaOps
        /\ NoSecret \in Passwords \cup Secrets \cup {NoSecret}
    BY DEF MfaOps
  <2>2. CASE OwnCommits(c)
    BY <1>11, <2>2, AssignedRow
  <2>3. CASE \/ \E op \in {"enroll", "confirm"}, s \in Secrets : OwnStart(c, op, s)
             \/ OwnStart(c, "disable", NoSecret)
             \/ \E p \in Passwords : OwnStart(c, "password", p)
    BY <1>10, <2>1, <2>3
  <2> QED  BY <1>5, <1>6, <1>7, <1>8, <1>9, <1>12, <1>13, <2>2, <2>3 DEF Step
<1>14. CASE AttemptAges \/ Crash
  <2>1. /\ attempts' <= attempts /\ attempts' \in Nat
        /\ \A d \in Clients : req'[d] # NoReq => req'[d] = req[d]
    BY <1>1, <1>14 DEF AttemptAges, Crash
  <2> QED  BY <1>2, <2>1
<1>15. ASSUME NEW u \in Users, UpdateUser(u) \/ \E p \in Passwords, r \in RolesUsed : CreateUser(u, p, r)
       PROVE  GuessesAreBounded'
  BY <1>11, <1>15, AdminCommits
<1>16. CASE UNCHANGED sessionsVars
  BY <1>1, <1>2, <1>16 DEF sessionsVars
<1> QED  BY <1>13, <1>14, <1>15, <1>16 DEF SessionsNext

LEMMA BoundedTypes == SessionsTyped /\ GuessesAreBounded => SessionsTypeOK
<1> SUFFICES ASSUME SessionsTyped, GuessesAreBounded PROVE SessionsTypeOK
  OBVIOUS
<1>1. attempts \in 0 .. MaxAttempts + Cardinality(Clients) - 1
  BY GuessingFinite, SessionsLimits DEF SessionsTyped, Shape, GuessesAreBounded
<1> QED  BY <1>1 DEF SessionsTyped, Shape, SessionsTypeOK, SessionRow

\* However many requests pass check() together before the first of them records its
\* failure: the failures stay below the limit and one place for each other request
\* (LoginRateLimiter.check and record, of any number of clients).
THEOREM GuessesBounded == SessionsSpec => []GuessesAreBounded
<1>1. SessionsInit => GuessesAreBounded
  <2> SUFFICES ASSUME SessionsInit PROVE GuessesAreBounded
    OBVIOUS
  <2>1. attempts = 0
    BY DEF SessionsInit
  <2> QED  BY <2>1, GuessingFinite, SessionsLimits DEF GuessesAreBounded
<1>2. SessionsTyped /\ GuessesAreBounded /\ [SessionsNext]_sessionsVars => GuessesAreBounded'
  BY GuessesNext
<1> QED  BY <1>1, <1>2, TypedAlways, PTL DEF SessionsSpec
-----------------------------------------------------------------------------
(* Rotation.                                                               *)

Rotating(c) == Busy(c, "refresh") /\ req[c].at = "revoked"
Rotations == RotationForks /\ NobodyIsLoggedOutSilently /\ LogoutIsFinal

LEMMA RotatingFinite ==
  ASSUME SessionsTyped, NEW f
  PROVE  /\ IsFiniteSet(LiveOf(f)) /\ Cardinality(LiveOf(f)) \in Nat
         /\ IsFiniteSet(InFlight(f)) /\ Cardinality(InFlight(f)) \in Nat
<1>1. LiveOf(f) \in SUBSET (1 .. Len(sessions)) /\ Len(sessions) \in Nat
  BY DEF LiveOf, SessionsTyped, Shape
<1>2. InFlight(f) \in SUBSET Clients
  BY DEF InFlight
<1> HIDE DEF LiveOf, InFlight
<1>3. IsFiniteSet(1 .. Len(sessions))
  BY <1>1, FS_Interval
<1> QED  BY <1>1, <1>2, <1>3, SessionsLimits, FS_Subset, FS_CardinalityType

LEMMA RotatingTok ==
  ASSUME SessionsTyped, NEW c \in Clients, Rotating(c)
  PROVE  req[c] # NoReq /\ req[c].tok \in DOMAIN sessions /\ sessions[req[c].tok].login \in Logins
<1>1. req[c] # NoReq /\ req[c].op = "refresh"
  BY DEF Rotating, Busy
<1>2. req[c].tok \in DOMAIN sessions
  BY <1>1, ReqTypes DEF SessionsTyped
<1> QED  BY <1>1, <1>2 DEF Logins

LEMMA LoginTypes == SessionsTyped => Logins \subseteq DOMAIN sessions /\ Logins \subseteq 1 .. MaxCommits
BY SessionTypes DEF SessionsTyped, Logins, SessionRow

LEMMA ForkTypes == SessionsTyped => \A f \in 1 .. MaxCommits : forks[f] \in Nat
BY DEF SessionsTyped, Shape

\* What concerns rotation stays: sessions, histories and the refreshes in flight.
LEMMA RotationsKept ==
  ASSUME Rotations, UNCHANGED <<sessions, forks, closed, broken>>,
         \A c \in Clients : /\ Rotating(c)' <=> Rotating(c)
                            /\ Rotating(c) => req'[c].tok = req[c].tok
  PROVE  Rotations'
<1>1. \A f : LiveOf(f)' = LiveOf(f)
  BY DEF LiveOf, Live
<1>2. \A f : InFlight(f)' = InFlight(f)
  BY DEF InFlight, Rotating
<1>3. Logins' = Logins
  BY DEF Logins
<1>4. RotationForks'
  BY <1>1, <1>2, <1>3 DEF Rotations, RotationForks
<1>5. NobodyIsLoggedOutSilently'
  BY <1>1, <1>2, <1>3 DEF Rotations, NobodyIsLoggedOutSilently
<1>6. LogoutIsFinal'
  BY <1>1, <1>2, <1>3 DEF Rotations, LogoutIsFinal
<1> QED  BY <1>4, <1>5, <1>6 DEF Rotations

LEMMA RevokedSets ==
  ASSUME SessionsTyped, NEW k \in DOMAIN sessions, sessions' = Revoked(k), CountFork(k)
  PROVE  /\ Logins' = Logins
         /\ \A f : LiveOf(f)' = LiveOf(f) \ {k}
         /\ \A f : k \in LiveOf(f) <=> Live(k) /\ f = sessions[k].login
<1>1. /\ DOMAIN sessions' = DOMAIN sessions
      /\ \A j \in DOMAIN sessions :
           /\ sessions'[j].login = sessions[j].login
           /\ sessions'[j].live <=> sessions[j].live /\ j # k
  BY RevokeFacts
<1>2. \A f : LiveOf(f)' = LiveOf(f) \ {k}
  BY <1>1 DEF LiveOf, Live
<1>3. Logins' = Logins
  BY <1>1 DEF Logins
<1>4. \A f : k \in LiveOf(f) <=> Live(k) /\ f = sessions[k].login
  BY DEF LiveOf
<1> QED  BY <1>2, <1>3, <1>4

LEMMA RefreshRevokesRotations ==
  ASSUME SessionsTyped, Rotations, NEW c \in Clients, RefreshRevokes(c)
  PROVE  Rotations'
<1> DEFINE k == req[c].tok  g == sessions[k].login
<1>1. /\ req[c] # NoReq /\ req[c].at = "read" /\ k \in DOMAIN sessions
      /\ sessions' = Revoked(k) /\ CountFork(k) /\ UNCHANGED <<broken, closed>>
      /\ req'[c] \in Requests /\ req'[c].op = "refresh" /\ req'[c].at = "revoked" /\ req'[c].tok = k
      /\ \A d \in Clients \ {c} : req'[d] = req[d]
  BY RefreshRevokesTyped
<1>2. /\ DOMAIN sessions' = DOMAIN sessions
      /\ \A j \in DOMAIN sessions : sessions'[j].login = sessions[j].login
      /\ \A f \in 1 .. MaxCommits :
           forks'[f] = IF f = g /\ ~Live(k) THEN forks[f] + 1 ELSE forks[f]
  BY <1>1, RevokeFacts
<1>3. /\ Logins' = Logins
      /\ \A f : LiveOf(f)' = LiveOf(f) \ {k}
      /\ \A f : k \in LiveOf(f) <=> Live(k) /\ f = g
  BY <1>1, RevokedSets
<1>4. g \in Logins /\ req'[c] # NoReq
  BY <1>1, RequestTypes DEF Logins
<1>5. \A f : c \notin InFlight(f)
  BY <1>1 DEF InFlight
<1>6. ASSUME NEW f PROVE InFlight(f)' = IF f = g THEN InFlight(f) \cup {c} ELSE InFlight(f)
  <2>1. c \in InFlight(f)' <=> f = g
    BY <1>1, <1>2, <1>4 DEF InFlight, Busy
  <2>2. \A d \in Clients \ {c} : Rotating(d) => req[d].tok \in DOMAIN sessions
    BY RotatingTok
  <2>3. \A d \in Clients \ {c} : d \in InFlight(f)' <=> d \in InFlight(f)
    BY <1>1, <1>2, <2>2 DEF InFlight, Busy, Rotating
  <2>4. InFlight(f) \subseteq Clients /\ InFlight(f)' \subseteq Clients
    BY DEF InFlight
  <2> QED  BY <1>5, <2>1, <2>3, <2>4
<1> HIDE DEF k, g
<1>7. ASSUME NEW f \in Logins'
      PROVE  Cardinality(LiveOf(f)') + Cardinality(InFlight(f)') <= 1 + forks'[f]
  <2>1. /\ f \in Logins /\ f \in 1 .. MaxCommits /\ forks[f] \in Nat
        /\ Cardinality(LiveOf(f)) + Cardinality(InFlight(f)) <= 1 + forks[f]
    BY <1>3, <1>7, LoginTypes, ForkTypes DEF Rotations, RotationForks
  <2>2. CASE f # g
    <3>1. LiveOf(f)' = LiveOf(f) /\ InFlight(f)' = InFlight(f) /\ forks'[f] = forks[f]
      <4>1. LiveOf(f)' = LiveOf(f)
        BY <1>3, <2>2
      <4>2. InFlight(f)' = InFlight(f)
        BY <1>6, <2>2
      <4>3. forks'[f] = forks[f]
        BY <1>2, <2>1, <2>2
      <4> QED  BY <4>1, <4>2, <4>3
    <3> QED  BY <2>1, <3>1
  <2>3. CASE f = g
    <3>1. Cardinality(InFlight(f)') = Cardinality(InFlight(f)) + 1
      <4>1. InFlight(f)' = InFlight(f) \cup {c} /\ c \notin InFlight(f)
        BY <1>5, <1>6, <2>3
      <4> HIDE DEF InFlight
      <4> QED  BY <4>1, RotatingFinite, FS_AddElement
    <3>2. CASE Live(k)
      <4>1. LiveOf(f)' = LiveOf(f) \ {k} /\ k \in LiveOf(f)
        BY <1>3, <2>3, <3>2
      <4>2. Cardinality(LiveOf(f)') = Cardinality(LiveOf(f)) - 1
        <5> HIDE DEF LiveOf
        <5> QED  BY <4>1, RotatingFinite, FS_RemoveElement
      <4>3. forks'[f] = forks[f]
        BY <1>2, <2>1, <3>2
      <4> QED  BY <2>1, <3>1, <4>2, <4>3, RotatingFinite
    <3>3. CASE ~Live(k)
      <4>1. LiveOf(f)' = LiveOf(f)
        BY <1>3, <3>3
      <4>2. forks'[f] = forks[f] + 1
        BY <1>2, <2>1, <2>3, <3>3
      <4> QED  BY <2>1, <3>1, <4>1, <4>2, RotatingFinite
    <3> QED  BY <3>2, <3>3
  <2> QED  BY <2>2, <2>3
<1>8. ASSUME NEW f \in Logins' \ (closed' \cup broken')
      PROVE  LiveOf(f)' # {} \/ InFlight(f)' # {}
  <2>1. CASE f = g
    BY <1>6, <2>1
  <2>2. CASE f # g
    <3>1. LiveOf(f)' = LiveOf(f) /\ InFlight(f)' = InFlight(f)
      BY <1>3, <1>6, <2>2
    <3>2. LiveOf(f) # {} \/ InFlight(f) # {}
      BY <1>1, <1>3, <1>8 DEF Rotations, NobodyIsLoggedOutSilently
    <3> QED  BY <3>1, <3>2
  <2> QED  BY <2>1, <2>2
<1>9. ASSUME NEW f \in closed', forks'[f] = 0 PROVE LiveOf(f)' = {} /\ InFlight(f)' = {}
  <2>1. f \in closed /\ f \in 1 .. MaxCommits /\ forks[f] \in Nat
    <3>1. f \in DOMAIN sessions /\ f \in closed
      BY <1>1, <1>9 DEF SessionsTyped, Shape
    <3> QED  BY <3>1, SessionTypes, ForkTypes DEF SessionsTyped
  <2>2. forks[f] = 0 /\ ~(f = g /\ ~Live(k))
    BY <1>2, <1>9, <2>1
  <2>3. LiveOf(f) = {} /\ InFlight(f) = {}
    BY <2>1, <2>2 DEF Rotations, LogoutIsFinal
  <2>4. f # g
    BY <1>3, <2>2, <2>3
  <2> QED  BY <1>3, <1>6, <2>3, <2>4
<1> QED  BY <1>7, <1>8, <1>9 DEF Rotations, RotationForks, NobodyIsLoggedOutSilently, LogoutIsFinal

LEMMA LogoutRotations ==
  ASSUME SessionsTyped, Rotations, NEW c \in Clients, LogoutRevokes(c)
  PROVE  Rotations'
<1> DEFINE k == req[c].tok  g == sessions[k].login
<1>1. /\ req[c].op = "logout" /\ k \in DOMAIN sessions /\ End(c)
      /\ sessions' = Revoked(k) /\ CountFork(k) /\ broken' = broken /\ closed' = closed \cup {g}
  BY LogoutTyped
<1>2. /\ DOMAIN sessions' = DOMAIN sessions
      /\ \A j \in DOMAIN sessions : sessions'[j].login = sessions[j].login
      /\ \A f \in 1 .. MaxCommits :
           forks'[f] = IF f = g /\ ~Live(k) THEN forks[f] + 1 ELSE forks[f]
  BY <1>1, RevokeFacts
<1>3. /\ Logins' = Logins
      /\ \A f : LiveOf(f)' = LiveOf(f) \ {k}
      /\ \A f : k \in LiveOf(f) <=> Live(k) /\ f = g
  BY <1>1, RevokedSets
<1>4. ASSUME NEW f PROVE InFlight(f)' = InFlight(f)
  <2>1. \A d \in Clients : req'[d] = IF d = c THEN NoReq ELSE req[d]
    BY <1>1, EndFacts DEF SessionsTyped
  <2>2. \A d \in Clients : Rotating(d) => req[d].tok \in DOMAIN sessions
    BY RotatingTok
  <2>3. \A d \in Clients : d \in InFlight(f)' <=> d \in InFlight(f)
    BY <1>1, <1>2, <2>1, <2>2 DEF InFlight, Busy, Rotating
  <2>4. InFlight(f) \subseteq Clients /\ InFlight(f)' \subseteq Clients
    BY DEF InFlight
  <2> QED  BY <2>3, <2>4
<1> HIDE DEF k, g
<1>5. ASSUME NEW f \in Logins'
      PROVE  Cardinality(LiveOf(f)') + Cardinality(InFlight(f)') <= 1 + forks'[f]
  <2>1. /\ f \in Logins /\ f \in 1 .. MaxCommits /\ forks[f] \in Nat
        /\ Cardinality(LiveOf(f)) + Cardinality(InFlight(f)) <= 1 + forks[f]
    BY <1>3, <1>5, LoginTypes, ForkTypes DEF Rotations, RotationForks
  <2>2. Cardinality(LiveOf(f)') <= Cardinality(LiveOf(f)) /\ Cardinality(LiveOf(f)') \in Nat
    <3>1. LiveOf(f)' \in SUBSET LiveOf(f)
      BY <1>3
    <3> HIDE DEF LiveOf
    <3> QED  BY <3>1, RotatingFinite, FS_Subset, FS_CardinalityType
  <2>3. forks'[f] \in {forks[f], forks[f] + 1}
    BY <1>2, <2>1
  <2> QED  BY <1>4, <2>1, <2>2, <2>3, RotatingFinite
<1>6. ASSUME NEW f \in Logins' \ (closed' \cup broken')
      PROVE  LiveOf(f)' # {} \/ InFlight(f)' # {}
  <2>1. f # g /\ f \in Logins \ (closed \cup broken)
    BY <1>1, <1>3, <1>6
  <2>2. LiveOf(f)' = LiveOf(f) /\ InFlight(f)' = InFlight(f)
    BY <1>3, <1>4, <2>1
  <2> QED  BY <2>1, <2>2 DEF Rotations, NobodyIsLoggedOutSilently
<1>7. ASSUME NEW f \in closed', forks'[f] = 0 PROVE LiveOf(f)' = {} /\ InFlight(f)' = {}
  <2>1. CASE f # g
    <3>1. f \in closed /\ f \in 1 .. MaxCommits
      <4>1. f \in DOMAIN sessions /\ f \in closed
        BY <1>1, <1>7, <2>1 DEF SessionsTyped, Shape
      <4> QED  BY <4>1, SessionTypes DEF SessionsTyped
    <3>2. forks[f] = 0
      BY <1>2, <1>7, <2>1, <3>1
    <3> QED  BY <1>3, <1>4, <3>1, <3>2 DEF Rotations, LogoutIsFinal
  <2>2. CASE f = g
    <3>1. f \in Logins /\ f \in 1 .. MaxCommits /\ forks[f] \in Nat
      BY <1>1, <2>2, LoginTypes, ForkTypes DEF Logins, g
    <3>2. Live(k) /\ forks[f] = 0
      BY <1>2, <1>7, <2>2, <3>1
    <3>3. k \in LiveOf(f)
      BY <1>3, <2>2, <3>2
    <3>4. Cardinality(LiveOf(f)) + Cardinality(InFlight(f)) <= 1
      BY <3>1, <3>2 DEF Rotations, RotationForks
    <3>5. Cardinality(LiveOf(f) \ {k}) = Cardinality(LiveOf(f)) - 1 /\ IsFiniteSet(LiveOf(f) \ {k})
          /\ Cardinality(LiveOf(f) \ {k}) \in Nat
      <4> HIDE DEF LiveOf
      <4> QED  BY <3>3, RotatingFinite, FS_RemoveElement, FS_CardinalityType
    <3>6. Cardinality(LiveOf(f) \ {k}) = 0 /\ Cardinality(InFlight(f)) = 0
      BY <3>4, <3>5, RotatingFinite
    <3>7. LiveOf(f) \ {k} = {} /\ InFlight(f) = {}
      <4> HIDE DEF LiveOf, InFlight
      <4> QED  BY <3>5, <3>6, RotatingFinite, FS_EmptySet
    <3> QED  BY <1>3, <1>4, <3>7
  <2> QED  BY <2>1, <2>2
<1> QED  BY <1>5, <1>6, <1>7 DEF Rotations, RotationForks, NobodyIsLoggedOutSilently, LogoutIsFinal
\* A session more, the last one.
LEMMA AppendedSets ==
  ASSUME SessionsTyped, NEW s \in SessionRow, s.live, sessions' = Append(sessions, s)
  PROVE  /\ Len(sessions) + 1 \notin DOMAIN sessions
         /\ \A j \in DOMAIN sessions : sessions'[j] = sessions[j]
         /\ Logins' = Logins \cup {s.login}
         /\ \A f : LiveOf(f)' = IF f = s.login THEN LiveOf(f) \cup {Len(sessions) + 1} ELSE LiveOf(f)
<1>1. /\ Len(sessions) \in Nat /\ DOMAIN sessions = 1 .. Len(sessions)
      /\ DOMAIN sessions' = 1 .. Len(sessions) + 1
      /\ \A j \in DOMAIN sessions : sessions'[j] = sessions[j]
      /\ sessions'[Len(sessions) + 1] = s
  BY DEF SessionsTyped, Shape
<1>2. /\ DOMAIN sessions' = DOMAIN sessions \cup {Len(sessions) + 1}
      /\ Len(sessions) + 1 \notin DOMAIN sessions
  BY <1>1
<1>3. Logins' = Logins \cup {s.login}
  BY <1>1, <1>2 DEF Logins
<1>4. ASSUME NEW f
      PROVE  LiveOf(f)' = IF f = s.login THEN LiveOf(f) \cup {Len(sessions) + 1} ELSE LiveOf(f)
  <2>1. \A j \in DOMAIN sessions : j \in LiveOf(f)' <=> j \in LiveOf(f)
    BY <1>1, <1>2 DEF LiveOf, Live
  <2>2. Len(sessions) + 1 \in LiveOf(f)' <=> f = s.login
    BY <1>1, <1>2 DEF LiveOf, Live
  <2>3. LiveOf(f) \subseteq DOMAIN sessions /\ LiveOf(f)' \subseteq DOMAIN sessions'
    BY DEF LiveOf
  <2>4. PICK n : n = Len(sessions) + 1
    OBVIOUS
  <2>5. \A j : j \in LiveOf(f)' <=> j \in LiveOf(f) \/ (j = n /\ f = s.login)
    BY <1>2, <2>1, <2>2, <2>3, <2>4
  <2> HIDE DEF LiveOf
  <2>6. CASE f = s.login
    BY <2>4, <2>5, <2>6
  <2>7. CASE f # s.login
    BY <2>5, <2>7
  <2> QED  BY <2>6, <2>7
<1> QED  BY <1>1, <1>2, <1>3, <1>4

LEMMA RefreshIssuesRotations ==
  ASSUME SessionsTyped, Rotations, NEW c \in Clients, RefreshIssues(c)
  PROVE  Rotations'
<1> DEFINE k == req[c].tok  g == sessions[k].login  n == Len(sessions) + 1
<1>1. /\ req[c] # NoReq /\ req[c].op = "refresh" /\ req[c].at = "revoked" /\ k \in DOMAIN sessions
      /\ sessions[k] \in SessionRow /\ End(c)
      /\ sessions' = Append(sessions, [sessions[k] EXCEPT !.live = TRUE])
      /\ UNCHANGED <<forks, closed, broken>>
  BY RefreshIssuesTyped
<1>2. PICK s : s = [sessions[k] EXCEPT !.live = TRUE]
  OBVIOUS
<1>3. s \in SessionRow /\ s.live /\ s.login = g
  BY <1>1, <1>2 DEF SessionRow
<1>4. /\ n \notin DOMAIN sessions
      /\ \A j \in DOMAIN sessions : sessions'[j] = sessions[j]
      /\ Logins' = Logins \cup {g}
      /\ \A f : LiveOf(f)' = IF f = g THEN LiveOf(f) \cup {n} ELSE LiveOf(f)
  <2>1. sessions' = Append(sessions, s)
    BY <1>1, <1>2
  <2>2. /\ Len(sessions) + 1 \notin DOMAIN sessions
        /\ \A j \in DOMAIN sessions : sessions'[j] = sessions[j]
        /\ Logins' = Logins \cup {s.login}
        /\ \A f : LiveOf(f)' = IF f = s.login THEN LiveOf(f) \cup {Len(sessions) + 1} ELSE LiveOf(f)
    BY <1>3, <2>1, AppendedSets
  <2> HIDE DEF g
  <2> QED  BY <1>3, <2>2
<1>5. g \in Logins
  BY <1>1 DEF Logins
<1>6. ASSUME NEW f
      PROVE  InFlight(f)' = InFlight(f) \ {c} /\ (c \in InFlight(f) <=> f = g)
  <2>1. \A d \in Clients : req'[d] = IF d = c THEN NoReq ELSE req[d]
    BY <1>1, EndFacts DEF SessionsTyped
  <2>2. \A d \in Clients : Rotating(d) => req[d].tok \in DOMAIN sessions
    BY RotatingTok
  <2>3. \A d \in Clients \ {c} : d \in InFlight(f)' <=> d \in InFlight(f)
    BY <1>4, <2>1, <2>2 DEF InFlight, Busy, Rotating
  <2>4. c \notin InFlight(f)' /\ (c \in InFlight(f) <=> f = g)
    BY <1>1, <2>1 DEF InFlight, Busy
  <2>5. InFlight(f) \subseteq Clients /\ InFlight(f)' \subseteq Clients
    BY DEF InFlight
  <2> QED  BY <2>3, <2>4, <2>5
<1>7. \A f : LiveOf(f) \subseteq DOMAIN sessions
  BY DEF LiveOf
<1> HIDE DEF k, g, n
<1>8. ASSUME NEW f \in Logins'
      PROVE  Cardinality(LiveOf(f)') + Cardinality(InFlight(f)') <= 1 + forks'[f]
  <2>1. Cardinality(LiveOf(f)) + Cardinality(InFlight(f)) <= 1 + forks[f] /\ forks'[f] = forks[f]
    BY <1>1, <1>4, <1>5, <1>8 DEF Rotations, RotationForks
  <2>2. CASE f # g
    <3>1. LiveOf(f)' = LiveOf(f)
      BY <1>4, <2>2
    <3>2. InFlight(f)' = InFlight(f)
      BY <1>6, <2>2
    <3> QED  BY <2>1, <3>1, <3>2
  <2>3. CASE f = g
    <3>1. LiveOf(f)' = LiveOf(f) \cup {n} /\ n \notin LiveOf(f)
      BY <1>4, <1>7, <2>3
    <3>2. InFlight(f)' = InFlight(f) \ {c} /\ c \in InFlight(f)
      BY <1>6, <2>3
    <3>3. Cardinality(LiveOf(f)') = Cardinality(LiveOf(f)) + 1
      <4> HIDE DEF LiveOf
      <4> QED  BY <3>1, RotatingFinite, FS_AddElement
    <3>4. Cardinality(InFlight(f)') = Cardinality(InFlight(f)) - 1
      <4> HIDE DEF InFlight
      <4> QED  BY <3>2, RotatingFinite, FS_RemoveElement
    <3> QED  BY <2>1, <3>3, <3>4, RotatingFinite
  <2> QED  BY <2>2, <2>3
<1>9. ASSUME NEW f \in Logins' \ (closed' \cup broken')
      PROVE  LiveOf(f)' # {} \/ InFlight(f)' # {}
  <2>1. CASE f # g
    <3>1. LiveOf(f)' = LiveOf(f) /\ InFlight(f)' = InFlight(f) /\ f \in Logins \ (closed \cup broken)
      <4>1. LiveOf(f)' = LiveOf(f)
        BY <1>4, <2>1
      <4>2. InFlight(f)' = InFlight(f)
        BY <1>6, <2>1
      <4> QED  BY <1>1, <1>4, <1>9, <2>1, <4>1, <4>2
    <3> QED  BY <3>1 DEF Rotations, NobodyIsLoggedOutSilently
  <2>2. CASE f = g
    BY <1>4, <2>2
  <2> QED  BY <2>1, <2>2
<1>10. ASSUME NEW f \in closed', forks'[f] = 0 PROVE LiveOf(f)' = {} /\ InFlight(f)' = {}
  <2>1. LiveOf(f) = {} /\ InFlight(f) = {}
    BY <1>1, <1>10 DEF Rotations, LogoutIsFinal
  <2>2. f # g
    BY <1>6, <2>1
  <2> QED  BY <1>4, <1>6, <2>1, <2>2
<1> QED  BY <1>8, <1>9, <1>10 DEF Rotations, RotationForks, NobodyIsLoggedOutSilently, LogoutIsFinal

LEMMA IssuesRotations ==
  ASSUME SessionsTyped, Rotations, NEW c \in Clients, LoginIssues(c) \/ MfaIssues(c)
  PROVE  Rotations'
<1> DEFINE n == Len(sessions) + 1
<1>1. /\ req[c] # NoReq /\ req[c].op # "refresh" /\ End(c) /\ MayCommit
      /\ sessions' = Append(sessions, [login |-> n, user |-> req[c].user, live |-> TRUE])
      /\ UNCHANGED <<forks, closed, broken>>
  BY DEF LoginIssues, MfaIssues, Read, Busy, IssueTokens, lineage
<1>2. n \in 1 .. MaxCommits /\ req[c].user \in Users
  BY <1>1, ReqTypes, SessionsLimits DEF MayCommit, SessionsTyped, Shape
<1>3. PICK s : s = [login |-> n, user |-> req[c].user, live |-> TRUE]
  OBVIOUS
<1>4. s \in SessionRow /\ s.live /\ s.login = n
  BY <1>2, <1>3 DEF SessionRow
<1>5. /\ n \notin DOMAIN sessions
      /\ \A j \in DOMAIN sessions : sessions'[j] = sessions[j]
      /\ Logins' = Logins \cup {n}
      /\ \A f : LiveOf(f)' = IF f = n THEN LiveOf(f) \cup {n} ELSE LiveOf(f)
  BY <1>1, <1>3, <1>4, AppendedSets
<1>6. ASSUME NEW f PROVE InFlight(f)' = InFlight(f)
  <2>1. \A d \in Clients : req'[d] = IF d = c THEN NoReq ELSE req[d]
    BY <1>1, EndFacts DEF SessionsTyped
  <2>2. \A d \in Clients : Rotating(d) => req[d].tok \in DOMAIN sessions
    BY RotatingTok
  <2>3. \A d \in Clients : d \in InFlight(f)' <=> d \in InFlight(f)
    BY <1>1, <1>5, <2>1, <2>2 DEF InFlight, Busy, Rotating
  <2>4. InFlight(f) \subseteq Clients /\ InFlight(f)' \subseteq Clients
    BY DEF InFlight
  <2> QED  BY <2>3, <2>4
<1>7. LiveOf(n) = {} /\ InFlight(n) = {}
  <2>1. Logins \subseteq DOMAIN sessions
    BY LoginTypes
  <2>2. \A j \in DOMAIN sessions : sessions[j].login \in Logins
    BY DEF Logins
  <2>3. \A d \in Clients : Rotating(d) => sessions[req[d].tok].login \in Logins
    BY RotatingTok
  <2> QED  BY <1>5, <2>1, <2>2, <2>3 DEF LiveOf, InFlight, Rotating
<1>8. closed \subseteq DOMAIN sessions
  BY DEF SessionsTyped, Shape
<1> HIDE DEF n
<1>9. ASSUME NEW f \in Logins'
      PROVE  Cardinality(LiveOf(f)') + Cardinality(InFlight(f)') <= 1 + forks'[f]
  <2>1. CASE f # n
    <3>1. LiveOf(f)' = LiveOf(f) /\ InFlight(f)' = InFlight(f) /\ f \in Logins
      BY <1>5, <1>6, <1>9, <2>1
    <3> QED  BY <1>1, <3>1 DEF Rotations, RotationForks
  <2>2. CASE f = n
    <3>1. LiveOf(f)' = {n} /\ InFlight(f)' = {}
      BY <1>5, <1>6, <1>7, <2>2
    <3>2. Cardinality({n}) = 1 /\ Cardinality({}) = 0
      BY FS_Singleton, FS_EmptySet
    <3>3. forks[f] \in Nat
      BY <1>2, <2>2, ForkTypes
    <3> QED  BY <1>1, <3>1, <3>2, <3>3
  <2> QED  BY <2>1, <2>2
<1>10. ASSUME NEW f \in Logins' \ (closed' \cup broken')
       PROVE  LiveOf(f)' # {} \/ InFlight(f)' # {}
  <2>1. CASE f # n
    <3>1. LiveOf(f)' = LiveOf(f) /\ InFlight(f)' = InFlight(f) /\ f \in Logins \ (closed \cup broken)
      BY <1>1, <1>5, <1>6, <1>10, <2>1
    <3> QED  BY <3>1 DEF Rotations, NobodyIsLoggedOutSilently
  <2>2. CASE f = n
    BY <1>5, <2>2
  <2> QED  BY <2>1, <2>2
<1>11. ASSUME NEW f \in closed', forks'[f] = 0 PROVE LiveOf(f)' = {} /\ InFlight(f)' = {}
  <2>1. f \in closed /\ forks[f] = 0 /\ f # n
    BY <1>1, <1>5, <1>8, <1>11
  <2>2. LiveOf(f) = {} /\ InFlight(f) = {}
    BY <2>1 DEF Rotations, LogoutIsFinal
  <2> QED  BY <1>5, <1>6, <2>1, <2>2
<1> QED  BY <1>9, <1>10, <1>11 DEF Rotations, RotationForks, NobodyIsLoggedOutSilently, LogoutIsFinal

\* Refreshes that a crash interrupts between their two commits end their logins.
LEMMA CrashRotations == ASSUME SessionsTyped, Rotations, Crash PROVE Rotations'
<1>1. /\ \A d \in Clients : req'[d] = NoReq
      /\ UNCHANGED <<sessions, forks, closed>>
      /\ broken' = broken \cup {sessions[req[d].tok].login :
                                  d \in {e \in Clients : req[e] # NoReq /\ req[e].tok > 0}}
  BY DEF Crash
<1>2. Logins' = Logins /\ \A f : LiveOf(f)' = LiveOf(f) /\ InFlight(f)' = {}
  BY <1>1 DEF Logins, LiveOf, Live, InFlight, Busy
<1>3. ASSUME NEW f, NEW d \in InFlight(f) PROVE f \in broken'
  <2>1. d \in Clients /\ Rotating(d) /\ sessions[req[d].tok].login = f
    BY <1>3 DEF InFlight, Rotating
  <2>2. req[d] # NoReq /\ req[d].op = "refresh"
    BY <2>1 DEF Rotating, Busy
  <2>3. req[d].tok > 0
    BY <2>1, <2>2 DEF SessionsTyped, Shape
  <2> QED  BY <1>1, <2>1, <2>2, <2>3
<1>4. ASSUME NEW f \in Logins'
      PROVE  Cardinality(LiveOf(f)') + Cardinality(InFlight(f)') <= 1 + forks'[f]
  <2>1. Cardinality(LiveOf(f)) + Cardinality(InFlight(f)) <= 1 + forks[f] /\ forks[f] \in Nat
    BY <1>2, <1>4, LoginTypes, ForkTypes DEF Rotations, RotationForks
  <2>2. Cardinality({}) = 0
    BY FS_EmptySet
  <2> HIDE DEF LiveOf, InFlight
  <2> QED  BY <1>1, <1>2, <2>1, <2>2, RotatingFinite
<1>5. ASSUME NEW f \in Logins' \ (closed' \cup broken')
      PROVE  LiveOf(f)' # {} \/ InFlight(f)' # {}
  <2>1. f \in Logins \ (closed \cup broken) /\ InFlight(f) = {}
    BY <1>1, <1>2, <1>3, <1>5
  <2> QED  BY <1>2, <2>1 DEF Rotations, NobodyIsLoggedOutSilently
<1>6. ASSUME NEW f \in closed', forks'[f] = 0 PROVE LiveOf(f)' = {} /\ InFlight(f)' = {}
  BY <1>1, <1>2, <1>6 DEF Rotations, LogoutIsFinal
<1> QED  BY <1>4, <1>5, <1>6 DEF Rotations, RotationForks, NobodyIsLoggedOutSilently, LogoutIsFinal
\* The new requests have revoked nothing, and the others stay.
LEMMA StartRotations ==
  ASSUME SessionsTyped, Rotations, NEW c \in Clients, req[c] = NoReq,
         UNCHANGED <<sessions, forks, closed, broken>>,
         \/ req' = req
         \/ \E new \in Requests : req' = [req EXCEPT ![c] = new] /\ new.at = "read"
  PROVE  Rotations'
<1>1. CASE req' = req
  BY <1>1, RotationsKept DEF Rotating, Busy
<1>2. ASSUME NEW new \in Requests, req' = [req EXCEPT ![c] = new], new.at = "read"
      PROVE  Rotations'
  <2>1. \A d \in Clients : req'[d] = IF d = c THEN new ELSE req[d]
    BY <1>2, StartFacts DEF SessionsTyped
  <2>2. \A d \in Clients : /\ Rotating(d)' <=> Rotating(d)
                           /\ Rotating(d) => req'[d].tok = req[d].tok
    BY <1>2, <2>1 DEF Rotating, Busy
  <2> QED  BY <2>2, RotationsKept
<1> QED  BY <1>1, <1>2

\* A commit to users takes no part, and neither does what ends without a session.
LEMMA CommitRotations ==
  ASSUME SessionsTyped, Rotations, UNCHANGED <<sessions, forks, closed, broken>>,
         \A d \in Clients : req'[d] # NoReq =>
           /\ req[d] # NoReq
           /\ req'[d].op = req[d].op /\ req'[d].at = req[d].at /\ req'[d].tok = req[d].tok,
         \A d \in Clients : Rotating(d) => req'[d] # NoReq
  PROVE  Rotations'
<1>1. \A d \in Clients : /\ Rotating(d)' <=> Rotating(d)
                         /\ Rotating(d) => req'[d].tok = req[d].tok
  BY DEF Rotating, Busy
<1> QED  BY <1>1, RotationsKept

LEMMA StepRotations ==
  ASSUME SessionsTyped, Rotations, NEW c \in Clients, Step(c)
  PROVE  Rotations'
<1>1. CASE \E u \in Users, p \in Passwords : LoginStart(c, u, p)
  BY <1>1, LoginStartFacts, StartRotations
<1>2. CASE \E ch \in challenges, s \in Secrets : MfaStart(c, ch, s)
  BY <1>2, MfaStartFacts, StartRotations
<1>3. CASE \E k \in 1 .. MaxCommits, op \in {"refresh", "logout"} : SessionRead(c, op, k)
  BY <1>3, SessionReadFacts, StartRotations
<1>4. CASE \/ \E op \in {"enroll", "confirm"}, s \in Secrets : OwnStart(c, op, s)
           \/ OwnStart(c, "disable", NoSecret)
           \/ \E p \in Passwords : OwnStart(c, "password", p)
  <2>1. PICK op \in MfaOps \cup {"password"}, a \in Passwords \cup Secrets \cup {NoSecret} :
          OwnStart(c, op, a)
    BY <1>4 DEF MfaOps
  <2> QED  BY <2>1, OwnStartFacts, StartRotations
<1>5. CASE LoginFails(c)
  <2>1. /\ Busy(c, "guess") /\ End(c) /\ UNCHANGED <<sessions, forks, closed, broken>>
    BY <1>5 DEF LoginFails, Read, lineage
  <2>2. \A d \in Clients : req'[d] = IF d = c THEN NoReq ELSE req[d]
    BY <2>1, EndFacts DEF SessionsTyped
  <2>3. \A d \in Clients : Rotating(d) => req'[d] # NoReq
    BY <2>1, <2>2 DEF Rotating, Busy
  <2> QED  BY <2>1, <2>2, <2>3, CommitRotations
<1>6. CASE OwnCommits(c)
  <2>1. /\ req[c].op \in MfaOps \cup {"password"} /\ req[c].user \in Users
        /\ Assigned(user[req[c].user], req[c].op, req[c].arg) \in UserRow
        /\ Commit(req[c].user, Assigned(user[req[c].user], req[c].op, req[c].arg))
        /\ req' = [OutdatedReq(req[c].user) EXCEPT ![c] = NoReq]
    BY <1>6, AssignedRow
  <2>2. /\ UNCHANGED <<sessions, forks, closed, broken>>
        /\ \A d \in Clients : req'[d] # NoReq =>
             /\ req[d] # NoReq
             /\ req'[d].op = req[d].op /\ req'[d].at = req[d].at /\ req'[d].tok = req[d].tok
    BY <2>1, CommitFacts
  <2>3. \A d \in Clients : d # c /\ req[d] # NoReq => req'[d] # NoReq
    BY <2>1, OutdatedKeeps
  <2>4. ~Rotating(c)
    BY <2>1 DEF Rotating, Busy, MfaOps
  <2>5. \A d \in Clients : Rotating(d) => req'[d] # NoReq
    BY <2>3, <2>4 DEF Rotating, Busy
  <2> QED  BY <2>2, <2>5, CommitRotations
<1> QED  BY <1>1, <1>2, <1>3, <1>4, <1>5, <1>6, IssuesRotations, RefreshRevokesRotations,
            RefreshIssuesRotations, LogoutRotations DEF Step

LEMMA RotationsNext == ASSUME SessionsTyped, Rotations, [SessionsNext]_sessionsVars PROVE Rotations'
<1>1. CASE AttemptAges
  <2>1. UNCHANGED <<sessions, forks, closed, broken, req>>
    BY <1>1 DEF AttemptAges, lineage
  <2> QED  BY <2>1, RotationsKept DEF Rotating, Busy
<1>2. ASSUME NEW u \in Users, UpdateUser(u) \/ \E p \in Passwords, r \in RolesUsed : CreateUser(u, p, r)
      PROVE  Rotations'
  <2>1. PICK row \in UserRow : Commit(u, row) /\ req' = OutdatedReq(u)
    BY <1>2, AdminCommits
  <2>2. /\ UNCHANGED <<sessions, forks, closed, broken>>
        /\ \A d \in Clients : req'[d] # NoReq =>
             /\ req[d] # NoReq
             /\ req'[d].op = req[d].op /\ req'[d].at = req[d].at /\ req'[d].tok = req[d].tok
    BY <2>1, CommitFacts
  <2>3. \A d \in Clients : req[d] # NoReq => req'[d] # NoReq
    BY <2>1, OutdatedKeeps
  <2>4. \A d \in Clients : Rotating(d) => req'[d] # NoReq
    BY <2>3 DEF Rotating, Busy
  <2> QED  BY <2>2, <2>4, CommitRotations
<1>3. CASE UNCHANGED sessionsVars
  <2>1. UNCHANGED <<sessions, forks, closed, broken, req>>
    BY <1>3 DEF sessionsVars
  <2> QED  BY <2>1, RotationsKept DEF Rotating, Busy
<1> QED  BY <1>1, <1>2, <1>3, StepRotations, CrashRotations DEF SessionsNext

\* Every login has the sessions of the rotation scheme and no others: one that is live, or
\* about to be inserted, and one more for each refresh that revoked a token for the second
\* time, until a logout ends it or a crash cuts a refresh in two (refresh_token, logout and
\* _issue_tokens, for any number of requests at once).
THEOREM SessionsRotate == SessionsSpec => []SessionsFollowLogins
<1>1. SessionsInit => Rotations
  BY DEF SessionsInit, Rotations, RotationForks, NobodyIsLoggedOutSilently, LogoutIsFinal, Logins
<1>2. SessionsTyped /\ Rotations /\ [SessionsNext]_sessionsVars => Rotations'
  BY RotationsNext
<1>3. SessionsTyped /\ GuessesAreBounded /\ Rotations => SessionsFollowLogins
  BY BoundedTypes DEF Rotations, SessionsFollowLogins
<1> QED  BY <1>1, <1>2, <1>3, TypedAlways, GuessesBounded, PTL DEF SessionsSpec
-----------------------------------------------------------------------------
(* What was read of a row, and the row.                                    *)

\* What a request that has read an unchanged row says of it.
ReqCurrent(c) ==
  req[c] # NoReq /\ ~req[c].old =>
    /\ req[c].op \in Issuing => req[c].role = user[req[c].user].role
    /\ req[c].op \in {"login", "mfa"} => RowProves(c)

\* A step that leaves the rows alone.
LEMMA CurrentKept ==
  ASSUME Current, user' = user,
         \A t \in access' : t \in access \/
           (~t.old => user[t.user] # NoUser /\ t.role = user[t.user].role),
         \A ch \in challenges' : ch \in challenges \/ (~ch.old => user[ch.user].active),
         \A d \in Clients : \/ ReqCurrent(d)'
                            \/ /\ req[d] # NoReq
                               /\ req'[d].op = req[d].op /\ req'[d].user = req[d].user
                               /\ req'[d].arg = req[d].arg /\ req'[d].role = req[d].role
                               /\ req'[d].old = req[d].old
  PROVE  Current'
<1>1. \A ch \in challenges' : ~ch.old => user'[ch.user].active
  BY DEF Current
<1>2. RolesAgeOut'
  BY DEF Current, RolesAgeOut
<1>3. ASSUME NEW d \in Clients PROVE ReqCurrent(d)'
  <2>1. ReqCurrent(d)
    BY DEF Current, ReqCurrent
  <2>2. ASSUME /\ req[d] # NoReq
               /\ req'[d].op = req[d].op /\ req'[d].user = req[d].user
               /\ req'[d].arg = req[d].arg /\ req'[d].role = req[d].role
               /\ req'[d].old = req[d].old
        PROVE  ReqCurrent(d)'
    BY <2>1, <2>2 DEF ReqCurrent, RowProves
  <2> QED  BY <2>2
<1> QED  BY <1>1, <1>2, <1>3 DEF Current, ReqCurrent

\* A request comes that has read the row as it is.
LEMMA StartCurrent ==
  ASSUME SessionsTyped, Current, NEW c \in Clients, NEW new \in Requests,
         req' = [req EXCEPT ![c] = new], UNCHANGED <<user, access, challenges>>,
         ~new.old => /\ new.op \in Issuing => new.role = user[new.user].role
                     /\ new.op = "login" => /\ user[new.user] # NoUser /\ user[new.user].active
                                            /\ user[new.user].pw = new.arg /\ ~user[new.user].mfa
                     /\ new.op = "mfa" => /\ user[new.user] # NoUser /\ user[new.user].active
                                          /\ user[new.user].mfa /\ user[new.user].secret = new.arg
  PROVE  Current'
<1>1. \A d \in Clients : req'[d] = IF d = c THEN new ELSE req[d]
  BY StartFacts DEF SessionsTyped
<1>2. ReqCurrent(c)'
  BY <1>1 DEF ReqCurrent, RowProves
<1>3. ASSUME NEW d \in Clients, d # c PROVE ReqCurrent(d)'
  <2>1. ReqCurrent(d) /\ req'[d] = req[d]
    BY <1>1, <1>3 DEF Current, ReqCurrent
  <2> QED  BY <2>1 DEF ReqCurrent, RowProves
<1> QED  BY <1>2, <1>3, CurrentKept

\* A request goes, maybe with a token for what it has read.
LEMMA EndCurrent ==
  ASSUME SessionsTyped, Current, UNCHANGED <<user, challenges>>,
         \A d \in Clients : req'[d] \in {NoReq, req[d]},
         \A t \in access' : t \in access \/
           (~t.old => user[t.user] # NoUser /\ t.role = user[t.user].role)
  PROVE  Current'
<1>1. ASSUME NEW d \in Clients PROVE ReqCurrent(d)'
  <2>1. ReqCurrent(d)
    BY DEF Current, ReqCurrent
  <2> QED  BY <2>1 DEF ReqCurrent, RowProves
<1> QED  BY <1>1, CurrentKept

LEMMA IssuesCurrent ==
  ASSUME SessionsTyped, Current, NEW c \in Clients, LoginIssues(c) \/ MfaIssues(c) \/ RefreshIssues(c)
  PROVE  Current'
<1>1. \/ /\ LoginIssues(c) \/ MfaIssues(c)
         /\ req[c] # NoReq /\ req[c].op \in {"login", "mfa"}
         /\ IssueTokens(c) /\ user' = user
      \/ RefreshIssues(c)
  BY DEF LoginIssues, MfaIssues, Read, Busy, IssueTokens, AuthUnchanged
<1>2. PICK t : t = [user |-> req[c].user, role |-> req[c].role, old |-> req[c].old]
  OBVIOUS
<1>3. /\ req[c] # NoReq /\ req[c].op \in Issuing /\ req[c].op # "guess" /\ End(c)
      /\ UNCHANGED <<user, challenges>> /\ access' = access \cup {t}
  <2>1. CASE LoginIssues(c) \/ MfaIssues(c)
    BY <1>2, <2>1 DEF LoginIssues, MfaIssues, Read, Busy, IssueTokens, AuthUnchanged, Issuing
  <2>2. CASE RefreshIssues(c)
    <3>1. /\ req[c] # NoReq /\ req[c].op = "refresh" /\ End(c) /\ UNCHANGED <<user, challenges>>
          /\ access' = access \cup {[user |-> sessions[req[c].tok].user, role |-> req[c].role,
                                     old |-> req[c].old]}
      BY <2>2, RefreshIssuesTyped
    <3>2. req[c].user = sessions[req[c].tok].user
      BY <3>1 DEF SessionsTyped, RowsExist, Carried
    <3> QED  BY <1>2, <3>1, <3>2 DEF Issuing
  <2> QED  BY <1>1, <2>1, <2>2
<1>4. user[req[c].user] # NoUser /\ (~req[c].old => req[c].role = user[req[c].user].role)
  BY <1>3 DEF SessionsTyped, RowsExist, Carried, Current
<1>5. ~t.old => user[t.user] # NoUser /\ t.role = user[t.user].role
  BY <1>2, <1>4
<1>6. \A d \in Clients : req'[d] \in {NoReq, req[d]}
  BY <1>3, EndFacts DEF SessionsTyped
<1> QED  BY <1>3, <1>5, <1>6, EndCurrent

LEMMA CommitCurrent ==
  ASSUME SessionsTyped, Current, NEW u \in Users, NEW row \in UserRow, Commit(u, row),
         \/ req' = OutdatedReq(u)
         \/ \E c \in Clients : req' = [OutdatedReq(u) EXCEPT ![c] = NoReq]
  PROVE  Current'
<1>1. \A v \in Users : user'[v] = IF v = u THEN row ELSE user[v]
  BY CommitFacts
<1>2. ASSUME NEW t \in access', ~t.old PROVE user'[t.user] # NoUser /\ t.role = user'[t.user].role
  <2>1. PICK s \in access : t.user = s.user /\ t.role = s.role /\ ~s.old /\ t.user # u
    BY <1>2, CommitFacts
  <2>2. s.user \in Users /\ user[s.user] # NoUser /\ s.role = user[s.user].role
    BY <2>1 DEF SessionsTyped, Shape, AccessToken, Current, RolesAgeOut
  <2> QED  BY <1>1, <2>1, <2>2
<1>3. ASSUME NEW t \in challenges', ~t.old PROVE user'[t.user].active
  <2>1. PICK s \in challenges : t.user = s.user /\ ~s.old /\ t.user # u
    BY <1>3, CommitFacts
  <2>2. s.user \in Users /\ user[s.user].active
    BY <2>1 DEF SessionsTyped, Shape, Challenge, Current
  <2> QED  BY <1>1, <2>1, <2>2
<1>4. ASSUME NEW d \in Clients PROVE ReqCurrent(d)'
  <2> SUFFICES ASSUME req'[d] # NoReq, ~req'[d].old, req'[d].op \in Issuing
               PROVE  /\ req'[d].role = user'[req'[d].user].role
                      /\ req'[d].op \in {"login", "mfa"} => RowProves(d)'
    BY DEF ReqCurrent, Issuing
  <2>1. /\ req[d] # NoReq
        /\ req'[d].op = req[d].op /\ req'[d].user = req[d].user /\ req'[d].arg = req[d].arg
        /\ req'[d].role = req[d].role /\ ~req[d].old
        /\ req[d].op \in Issuing => req[d].user # u
    BY CommitFacts
  <2>2. /\ req[d].user \in Users /\ req[d].user # u /\ req[d].role = user[req[d].user].role
        /\ req[d].op \in {"login", "mfa"} => RowProves(d)
    BY <2>1, ReqTypes DEF SessionsTyped, Current
  <2>3. user'[req'[d].user] = user[req[d].user]
    BY <1>1, <2>1, <2>2
  <2> QED  BY <2>1, <2>2, <2>3 DEF RowProves
<1> QED  BY <1>2, <1>3, <1>4 DEF Current, ReqCurrent, RolesAgeOut

LEMMA StepCurrent == ASSUME SessionsTyped, Current, NEW c \in Clients, Step(c) PROVE Current'
<1>1. ASSUME NEW u \in Users, NEW p \in Passwords, LoginStart(c, u, p) PROVE Current'
  <2>1. UNCHANGED <<user, access>>
    BY <1>1, LoginStartFacts
  <2>2. ASSUME challenges' = challenges,
               NEW new \in Requests, req' = [req EXCEPT ![c] = new], new.user = u,
               \/ new.op = "guess"
               \/ /\ new.op = "login" /\ new.arg = p /\ user[u] # NoUser
                  /\ user[u].pw = p /\ user[u].active /\ ~user[u].mfa
                  /\ new.role = user[u].role
        PROVE  Current'
    BY <2>1, <2>2, StartCurrent DEF Issuing
  <2>3. ASSUME req' = req, user[u].active,
               challenges' = challenges \cup {[user |-> u, old |-> FALSE]}
        PROVE  Current'
    <3>1. \A d \in Clients : ReqCurrent(d)'
      BY <2>1, <2>3 DEF Current, ReqCurrent, RowProves
    <3> QED  BY <2>1, <2>3, <3>1, CurrentKept
  <2> QED  BY <1>1, <2>2, <2>3, LoginStartFacts
<1>2. ASSUME NEW ch \in challenges, NEW s \in Secrets, MfaStart(c, ch, s) PROVE Current'
  <2>1. PICK new \in Requests :
          /\ req' = [req EXCEPT ![c] = new]
          /\ new.op = "mfa" /\ new.user = ch.user /\ new.arg = s
          /\ new.old = ch.old /\ new.role = user[ch.user].role
          /\ user[ch.user] # NoUser /\ user[ch.user].mfa /\ user[ch.user].secret = s
    BY <1>2, MfaStartFacts
  <2>2. UNCHANGED <<user, access, challenges>>
    BY <1>2, MfaStartFacts
  <2>3. ~ch.old => user[ch.user].active
    BY DEF Current
  <2> QED  BY <2>1, <2>2, <2>3, StartCurrent
<1>3. ASSUME NEW k \in 1 .. MaxCommits, NEW op \in {"refresh", "logout"}, SessionRead(c, op, k)
      PROVE  Current'
  <2>1. PICK new \in Requests :
          /\ req' = [req EXCEPT ![c] = new] /\ new.op = op
          /\ op = "refresh" => new.role = user[new.user].role
    BY <1>3, SessionReadFacts
  <2>2. UNCHANGED <<user, access, challenges>>
    BY <1>3, SessionReadFacts
  <2> QED  BY <2>1, <2>2, StartCurrent DEF Issuing
<1>4. CASE \/ \E op \in {"enroll", "confirm"}, s \in Secrets : OwnStart(c, op, s)
           \/ OwnStart(c, "disable", NoSecret)
           \/ \E p \in Passwords : OwnStart(c, "password", p)
  <2>1. PICK op \in MfaOps \cup {"password"}, a \in Passwords \cup Secrets \cup {NoSecret} :
          OwnStart(c, op, a)
    BY <1>4 DEF MfaOps
  <2>2. PICK new \in Requests : req' = [req EXCEPT ![c] = new] /\ new.op = op
    BY <2>1, OwnStartFacts
  <2>3. UNCHANGED <<user, access, challenges>> /\ op \notin Issuing \cup {"login", "mfa"}
    BY <2>1, OwnStartFacts DEF MfaOps, Issuing
  <2> QED  BY <2>2, <2>3, StartCurrent
<1>5. CASE LoginFails(c) \/ LogoutRevokes(c)
  <2>1. End(c) /\ UNCHANGED <<user, access, challenges>>
    BY <1>5 DEF LoginFails, LogoutRevokes, tokens, AuthUnchanged
  <2>2. \A d \in Clients : req'[d] \in {NoReq, req[d]}
    BY <2>1, EndFacts DEF SessionsTyped
  <2> QED  BY <2>1, <2>2, EndCurrent
<1>6. CASE RefreshRevokes(c)
  <2>1. /\ UNCHANGED <<user, access, challenges>>
        /\ req[c] # NoReq /\ req[c].op = "refresh" /\ req'[c].op = "refresh"
        /\ req'[c].user = req[c].user /\ req'[c].role = req[c].role /\ req'[c].old = req[c].old
        /\ \A d \in Clients \ {c} : req'[d] = req[d]
    BY <1>6, RefreshRevokesTyped
  <2>2. ASSUME NEW d \in Clients PROVE ReqCurrent(d)'
    <3>1. ReqCurrent(d)
      BY DEF Current, ReqCurrent
    <3> QED  BY <2>1, <3>1 DEF ReqCurrent, RowProves
  <2> QED  BY <2>1, <2>2, CurrentKept
<1>7. CASE OwnCommits(c)
  BY <1>7, AssignedRow, CommitCurrent
<1> QED  BY <1>1, <1>2, <1>3, <1>4, <1>5, <1>6, <1>7, IssuesCurrent DEF Step

LEMMA CurrentNext == ASSUME SessionsTyped, Current, [SessionsNext]_sessionsVars PROVE Current'
<1>1. CASE AttemptAges \/ Crash \/ UNCHANGED sessionsVars
  <2>1. /\ UNCHANGED <<user, access, challenges>>
        /\ \A d \in Clients : req'[d] \in {NoReq, req[d]}
    BY <1>1 DEF AttemptAges, Crash, sessionsVars, tokens, AuthUnchanged
  <2> QED  BY <2>1, EndCurrent
<1>2. ASSUME NEW u \in Users, UpdateUser(u) \/ \E p \in Passwords, r \in RolesUsed : CreateUser(u, p, r)
      PROVE  Current'
  BY <1>2, AdminCommits, CommitCurrent
<1> QED  BY <1>1, <1>2, StepCurrent DEF SessionsNext

LEMMA CurrentAlways == SessionsSpec => []Current
<1>1. SessionsInit => Current
  BY DEF SessionsInit, Current, RolesAgeOut
<1>2. SessionsTyped /\ Current /\ [SessionsNext]_sessionsVars => Current'
  BY CurrentNext
<1> QED  BY <1>1, <1>2, TypedAlways, PTL DEF SessionsSpec
\* Whoever gets a session through login or mfa_verify has proved, to the row as it is at that
\* moment, the password or the second factor that the row asks for, unless the row changed
\* after it was read; no number of requests in between gets a session for less.
THEOREM LoginsProven == SessionsSpec => LoginsAreProven
<1>1. Current /\ [SessionsNext]_sessionsVars =>
        [\A c \in Clients :
           /\ req[c] # NoReq /\ req[c].op \in {"login", "mfa"}
           /\ Len(sessions') > Len(sessions) /\ req'[c] = NoReq
           => req[c].old \/ RowProves(c)]_sessionsVars
  BY DEF Current
<1> QED  BY <1>1, CurrentAlways, PTL DEF SessionsSpec, LoginsAreProven
-----------------------------------------------------------------------------
(* The second factor.                                                      *)

Answerable == OneByOne /\ MfaCanBeAnswered

\* MFA requests go, and rows keep what concerns MFA or come without it.
LEMMA AnswerableKept ==
  ASSUME SessionsTyped, Answerable, proved' = proved, torn' = torn,
         \A v \in Users : \/ user'[v] = user[v]
                          \/ user[v] = NoUser /\ user'[v] # NoUser /\ ~user'[v].mfa
                          \/ /\ user[v] # NoUser /\ user'[v] # NoUser
                             /\ user'[v].mfa <=> user[v].mfa
                             /\ user'[v].secret = user[v].secret,
         \A d \in Clients, v \in Users : MfaBusy(d, v)' =>
           MfaBusy(d, v) /\ req'[d].op = req[d].op /\ req'[d].arg = req[d].arg
  PROVE  Answerable'
<1>1. ASSUME NEW v \in Users \ torn'
      PROVE  /\ \A d, e \in Clients : MfaBusy(d, v)' /\ MfaBusy(e, v)' => d = e
             /\ user'[v] # NoUser /\ user'[v].mfa => user'[v].secret = proved'[v] /\ proved'[v] # NoSecret
  BY <1>1 DEF Answerable, OneByOne, MfaCanBeAnswered
<1>2. ASSUME NEW v \in Users \ torn', NEW d \in Clients, MfaBusy(d, v)'
      PROVE  /\ req'[d].op \in {"enroll", "confirm"} => ~user'[v].mfa
             /\ req'[d].op = "confirm" => user'[v].secret = req'[d].arg
  <2>1. MfaBusy(d, v) /\ req'[d].op = req[d].op /\ req'[d].arg = req[d].arg
    BY <1>2
  <2>2. /\ req[d].op \in {"enroll", "confirm"} => ~user[v].mfa
        /\ req[d].op = "confirm" => user[v].secret = req[d].arg
    BY <1>2, <2>1 DEF Answerable, OneByOne
  <2>3. user[v] # NoUser
    BY <2>1 DEF MfaBusy, MfaOps, SessionsTyped, RowsExist, Carried
  <2> QED  BY <1>2, <2>1, <2>2, <2>3
<1>3. OneByOne'
  BY <1>1, <1>2 DEF OneByOne
<1>4. MfaCanBeAnswered'
  BY <1>1 DEF MfaCanBeAnswered
<1> QED  BY <1>3, <1>4 DEF Answerable

LEMMA StartAnswerable ==
  ASSUME SessionsTyped, Answerable, NEW c \in Clients, req[c] = NoReq, NEW new \in Requests,
         req' = [req EXCEPT ![c] = new], UNCHANGED <<user, proved, torn>>, new.op \notin MfaOps
  PROVE  Answerable'
<1>1. \A d \in Clients : req'[d] = IF d = c THEN new ELSE req[d]
  BY StartFacts DEF SessionsTyped
<1>2. \A d \in Clients, v \in Users : MfaBusy(d, v)' =>
        MfaBusy(d, v) /\ req'[d].op = req[d].op /\ req'[d].arg = req[d].arg
  BY <1>1 DEF MfaBusy
<1> QED  BY <1>2, AnswerableKept

\* An MFA request that finds another of its user in flight is counted; one that does not
\* is the only one, and has just read the row.
LEMMA OwnStartAnswerable ==
  ASSUME SessionsTyped, Answerable, NEW c \in Clients, NEW op \in MfaOps \cup {"password"},
         NEW a \in Passwords \cup Secrets \cup {NoSecret}, OwnStart(c, op, a)
  PROVE  Answerable'
<1>1. /\ req[c] = NoReq /\ UNCHANGED <<user, proved>>
  BY OwnStartFacts
<1>2. PICK new \in Requests :
        /\ req' = [req EXCEPT ![c] = new]
        /\ new.op = op /\ new.arg = a
        /\ \E pw \in Passwords : Accepted(op, user[new.user], a, pw)
        /\ torn' = IF op \in MfaOps /\ \E d \in Clients : MfaBusy(d, new.user)
                   THEN torn \cup {new.user} ELSE torn
  BY OwnStartFacts
<1>3. \A d \in Clients : req'[d] = IF d = c THEN new ELSE req[d]
  BY <1>2, StartFacts DEF SessionsTyped
<1>4. CASE op \notin MfaOps
  BY <1>1, <1>2, <1>4, StartAnswerable
<1>5. CASE op \in MfaOps
  <2>1. \A v \in Users \ torn' : v \notin torn /\ (v = new.user => \A d \in Clients : ~MfaBusy(d, v))
    BY <1>2, <1>5
  <2>2. \A d \in Clients, v \in Users :
          MfaBusy(d, v)' <=> IF d = c THEN v = new.user ELSE MfaBusy(d, v)
    BY <1>2, <1>3, <1>5, RequestTypes DEF MfaBusy
  <2>3. /\ op \in {"enroll", "confirm"} => ~user[new.user].mfa
        /\ op = "confirm" => user[new.user].secret = a
    BY <1>2 DEF Accepted, Confirms, VerifyTotp
  <2>4. ~\E v \in Users : MfaBusy(c, v)
    BY <1>1 DEF MfaBusy
  <2>5. ASSUME NEW v \in Users \ torn', NEW d \in Clients, NEW e \in Clients,
               MfaBusy(d, v)', MfaBusy(e, v)'
        PROVE  d = e
    <3>1. v \in Users \ torn
      BY <2>1
    <3>2. CASE d = c \/ e = c
      BY <2>1, <2>2, <2>5, <3>2
    <3>3. CASE d # c /\ e # c
      BY <2>2, <2>5, <3>1, <3>3 DEF Answerable, OneByOne
    <3> QED  BY <3>2, <3>3
  <2>6. ASSUME NEW v \in Users \ torn', NEW d \in Clients, MfaBusy(d, v)'
        PROVE  /\ req'[d].op \in {"enroll", "confirm"} => ~user'[v].mfa
               /\ req'[d].op = "confirm" => user'[v].secret = req'[d].arg
    <3>1. CASE d = c
      BY <1>1, <1>2, <1>3, <2>2, <2>3, <2>6, <3>1
    <3>2. CASE d # c
      BY <1>1, <1>3, <2>1, <2>2, <2>6, <3>2 DEF Answerable, OneByOne
    <3> QED  BY <3>1, <3>2
  <2>7. OneByOne'
    BY <2>5, <2>6 DEF OneByOne
  <2>8. MfaCanBeAnswered'
    BY <1>1, <2>1 DEF Answerable, MfaCanBeAnswered
  <2> QED  BY <2>7, <2>8 DEF Answerable
<1> QED  BY <1>4, <1>5

LEMMA OwnCommitsAnswerable ==
  ASSUME SessionsTyped, Answerable, NEW c \in Clients, OwnCommits(c)
  PROVE  Answerable'
<1>0. PICK u : u = req[c].user
  OBVIOUS
<1>1. /\ req[c] # NoReq /\ req[c].op \in MfaOps \cup {"password"} /\ u \in Users
      /\ user[u] \in UserRow
      /\ Assigned(user[u], req[c].op, req[c].arg) \in UserRow
      /\ Commit(u, Assigned(user[u], req[c].op, req[c].arg))
      /\ req' = [OutdatedReq(u) EXCEPT ![c] = NoReq]
  BY <1>0, AssignedRow
<1>2. PICK row \in UserRow : row = Assigned(user[u], req[c].op, req[c].arg)
  BY <1>1
<1>3. \A v \in Users : user'[v] = IF v = u THEN row ELSE user[v]
  <2>1. Commit(u, row)
    BY <1>1, <1>2
  <2>2. user' = [user EXCEPT ![u] = row] /\ user \in [Users -> UserRow \cup {NoUser}]
    BY <2>1 DEF Commit, SessionsTyped, Shape
  <2> QED  BY <2>2
<1>4. /\ \A d \in Clients : req'[d] # NoReq =>
           /\ req[d] # NoReq
           /\ req'[d].op = req[d].op /\ req'[d].user = req[d].user /\ req'[d].arg = req[d].arg
  BY <1>1, CommitFacts
<1>5. req'[c] = NoReq
  BY <1>1 DEF OutdatedReq
<1>6. \A d \in Clients, v \in Users : MfaBusy(d, v)' =>
        d # c /\ MfaBusy(d, v) /\ req'[d].op = req[d].op /\ req'[d].arg = req[d].arg
  BY <1>4, <1>5 DEF MfaBusy
<1>7. torn' = torn /\ (req[c].op # "confirm" => proved' = proved)
      /\ (req[c].op = "confirm" => proved' = [proved EXCEPT ![u] = req[c].arg])
  BY <1>0 DEF OwnCommits
<1>8. user[u] # NoUser /\ row # NoUser
  BY <1>1, <1>2, SessionsLimits
<1>9. CASE req[c].op = "password"
  <2>1. row.mfa = user[u].mfa /\ row.secret = user[u].secret
    BY <1>1, <1>2, <1>9 DEF Assigned, UserRow
  <2>2. proved' = proved /\ torn' = torn
    BY <1>7, <1>9
  <2>3. \A v \in Users : \/ user'[v] = user[v]
                         \/ /\ user[v] # NoUser /\ user'[v] # NoUser
                            /\ user'[v].mfa <=> user[v].mfa
                            /\ user'[v].secret = user[v].secret
    BY <1>3, <1>8, <2>1
  <2> QED  BY <1>6, <2>2, <2>3, AnswerableKept
<1>10. CASE req[c].op \in MfaOps
  <2>1. MfaBusy(c, u)
    BY <1>0, <1>1, <1>10 DEF MfaBusy
  <2>2. u \notin torn =>
          /\ \A d \in Clients : ~MfaBusy(d, u)'
          /\ req[c].op \in {"enroll", "confirm"} => ~user[u].mfa
          /\ req[c].op = "confirm" => user[u].secret = req[c].arg
    BY <1>1, <1>6, <2>1 DEF Answerable, OneByOne
  <2>3. ASSUME NEW v \in Users \ torn', v # u
        PROVE  /\ user'[v] = user[v] /\ proved'[v] = proved[v] /\ v \in Users \ torn
    BY <1>3, <1>7, <2>3 DEF SessionsTyped, Shape
  <2>4. ASSUME NEW v \in Users \ torn', NEW d \in Clients, MfaBusy(d, v)'
        PROVE  /\ v # u /\ MfaBusy(d, v) /\ req'[d].op = req[d].op /\ req'[d].arg = req[d].arg
    BY <1>6, <1>7, <2>2, <2>4
  <2>5. OneByOne'
    <3>1. ASSUME NEW v \in Users \ torn', NEW d \in Clients, NEW e \in Clients,
                 MfaBusy(d, v)', MfaBusy(e, v)'
          PROVE  d = e
      BY <2>3, <2>4, <3>1 DEF Answerable, OneByOne
    <3>2. ASSUME NEW v \in Users \ torn', NEW d \in Clients, MfaBusy(d, v)'
          PROVE  /\ req'[d].op \in {"enroll", "confirm"} => ~user'[v].mfa
                 /\ req'[d].op = "confirm" => user'[v].secret = req'[d].arg
      BY <2>3, <2>4, <3>2 DEF Answerable, OneByOne
    <3> QED  BY <3>1, <3>2 DEF OneByOne
  <2>6. ASSUME NEW v \in Users \ torn', user'[v].mfa, user'[v] # NoUser
        PROVE  user'[v].secret = proved'[v] /\ proved'[v] # NoSecret
    <3>1. CASE v # u
      BY <2>3, <2>6, <3>1 DEF Answerable, MfaCanBeAnswered
    <3>2. CASE v = u
      <4>1. u \notin torn /\ row.mfa /\ user'[v] = row
        BY <1>1, <1>3, <1>7, <2>6, <3>2
      <4>2. req[c].op \notin {"enroll", "disable"}
        <5>1. ASSUME req[c].op = "enroll" PROVE FALSE
          <6>1. row.mfa = user[u].mfa
            BY <1>1, <1>2, <5>1 DEF Assigned, UserRow
          <6> QED  BY <2>2, <4>1, <5>1, <6>1
        <5>2. ASSUME req[c].op = "disable" PROVE FALSE
          <6>1. ~row.mfa
            BY <1>1, <1>2, <5>2 DEF Assigned, UserRow
          <6> QED  BY <4>1, <6>1
        <5> QED  BY <5>1, <5>2
      <4>3. req[c].op = "confirm"
        BY <1>10, <4>2 DEF MfaOps
      <4>4. row.secret = user[u].secret
        BY <1>1, <1>2, <4>3 DEF Assigned, UserRow
      <4>5. proved'[u] = req[c].arg /\ req[c].arg \in Secrets
        BY <1>1, <1>7, <4>3 DEF SessionsTyped, Shape, RowsExist, Carried
      <4> QED  BY <2>2, <3>2, <4>1, <4>3, <4>4, <4>5, SessionsLimits
    <3> QED  BY <3>1, <3>2
  <2>7. MfaCanBeAnswered'
    BY <2>6 DEF MfaCanBeAnswered
  <2> QED  BY <2>5, <2>7 DEF Answerable
<1> QED  BY <1>1, <1>9, <1>10

LEMMA StepAnswerable == ASSUME SessionsTyped, Answerable, NEW c \in Clients, Step(c) PROVE Answerable'
<1>1. ASSUME NEW new \in Requests, req[c] = NoReq, req' = [req EXCEPT ![c] = new],
             UNCHANGED <<user, proved, torn>>, new.op \in {"login", "guess", "mfa", "refresh", "logout"}
      PROVE  Answerable'
  <2>1. new.op \notin MfaOps
    BY <1>1 DEF MfaOps
  <2> QED  BY <1>1, <2>1, StartAnswerable
<1>2. ASSUME UNCHANGED <<user, proved, torn>>, \A d \in Clients : req'[d] \in {NoReq, req[d]}
      PROVE  Answerable'
  BY <1>2, AnswerableKept DEF MfaBusy
<1>3. ASSUME NEW u \in Users, NEW p \in Passwords, LoginStart(c, u, p) PROVE Answerable'
  <2>1. req[c] = NoReq /\ UNCHANGED <<user, proved, torn>>
    BY <1>3, LoginStartFacts
  <2>2. \/ req' = req
        \/ \E new \in Requests : req' = [req EXCEPT ![c] = new] /\ new.op \in {"login", "guess"}
    BY <1>3, LoginStartFacts
  <2> QED  BY <1>1, <1>2, <2>1, <2>2
<1>4. ASSUME NEW ch \in challenges, NEW s \in Secrets, MfaStart(c, ch, s) PROVE Answerable'
  <2>1. req[c] = NoReq /\ UNCHANGED <<user, proved, torn>>
    BY <1>4, MfaStartFacts
  <2>2. \E new \in Requests : req' = [req EXCEPT ![c] = new] /\ new.op = "mfa"
    BY <1>4, MfaStartFacts
  <2> QED  BY <1>1, <2>1, <2>2
<1>5. ASSUME NEW k \in 1 .. MaxCommits, NEW op \in {"refresh", "logout"}, SessionRead(c, op, k)
      PROVE  Answerable'
  <2>1. req[c] = NoReq /\ UNCHANGED <<user, proved, torn>>
    BY <1>5, SessionReadFacts
  <2>2. \E new \in Requests : req' = [req EXCEPT ![c] = new] /\ new.op \in {"refresh", "logout"}
    BY <1>5, SessionReadFacts
  <2> QED  BY <1>1, <2>1, <2>2
<1>6. CASE \/ \E op \in {"enroll", "confirm"}, s \in Secrets : OwnStart(c, op, s)
           \/ OwnStart(c, "disable", NoSecret)
           \/ \E p \in Passwords : OwnStart(c, "password", p)
  <2>1. PICK op \in MfaOps \cup {"password"}, a \in Passwords \cup Secrets \cup {NoSecret} :
          OwnStart(c, op, a)
    BY <1>6 DEF MfaOps
  <2> QED  BY <2>1, OwnStartAnswerable
<1>7. CASE LoginFails(c) \/ LogoutRevokes(c) \/ LoginIssues(c) \/ MfaIssues(c) \/ RefreshIssues(c)
  <2>1. End(c) /\ UNCHANGED <<user, proved, torn>>
    BY <1>7 DEF LoginFails, LogoutRevokes, LoginIssues, MfaIssues, IssueTokens, RefreshIssues,
                AuthUnchanged, mfaHistory
  <2>2. \A d \in Clients : req'[d] \in {NoReq, req[d]}
    BY <2>1, EndFacts DEF SessionsTyped
  <2> QED  BY <1>2, <2>1, <2>2
<1>8. CASE RefreshRevokes(c)
  <2>1. /\ UNCHANGED <<user, proved, torn>> /\ req'[c].op = "refresh"
        /\ \A d \in Clients \ {c} : req'[d] = req[d]
    BY <1>8, RefreshRevokesTyped
  <2>2. \A d \in Clients, v \in Users : MfaBusy(d, v)' =>
          MfaBusy(d, v) /\ req'[d].op = req[d].op /\ req'[d].arg = req[d].arg
    BY <2>1 DEF MfaBusy, MfaOps
  <2> QED  BY <2>1, <2>2, AnswerableKept
<1>9. CASE OwnCommits(c)
  BY <1>9, OwnCommitsAnswerable
<1> QED  BY <1>3, <1>4, <1>5, <1>6, <1>7, <1>8, <1>9 DEF Step

LEMMA AnswerableNext == ASSUME SessionsTyped, Answerable, [SessionsNext]_sessionsVars PROVE Answerable'
<1>1. CASE AttemptAges \/ Crash \/ UNCHANGED sessionsVars
  <2>1. /\ UNCHANGED <<user, proved, torn>>
        /\ \A d \in Clients : req'[d] \in {NoReq, req[d]}
    BY <1>1 DEF AttemptAges, Crash, sessionsVars, AuthUnchanged, mfaHistory
  <2> QED  BY <2>1, AnswerableKept DEF MfaBusy
<1>2. ASSUME NEW u \in Users, UpdateUser(u) \/ \E p \in Passwords, r \in RolesUsed : CreateUser(u, p, r)
      PROVE  Answerable'
  <2>1. PICK row \in UserRow :
           /\ Commit(u, row) /\ req' = OutdatedReq(u) /\ torn' = torn /\ proved' = proved
           /\ \/ user[u] = NoUser /\ ~row.mfa
              \/ user[u] # NoUser /\ row.mfa = user[u].mfa /\ row.secret = user[u].secret
    BY <1>2, AdminCommits
  <2>2. \A v \in Users : user'[v] = IF v = u THEN row ELSE user[v]
    BY <2>1, CommitFacts
  <2>3. \A d \in Clients : req'[d] # NoReq =>
          /\ req[d] # NoReq
          /\ req'[d].op = req[d].op /\ req'[d].user = req[d].user /\ req'[d].arg = req[d].arg
    BY <2>1, CommitFacts
  <2>4. \A d \in Clients, v \in Users : MfaBusy(d, v)' =>
          MfaBusy(d, v) /\ req'[d].op = req[d].op /\ req'[d].arg = req[d].arg
    BY <2>3 DEF MfaBusy
  <2>5. row # NoUser
    BY SessionsLimits
  <2>6. \A v \in Users : \/ user'[v] = user[v]
                         \/ user[v] = NoUser /\ user'[v] # NoUser /\ ~user'[v].mfa
                         \/ /\ user[v] # NoUser /\ user'[v] # NoUser
                            /\ user'[v].mfa <=> user[v].mfa
                            /\ user'[v].secret = user[v].secret
    BY <2>1, <2>2, <2>5
  <2> QED  BY <2>1, <2>4, <2>6, AnswerableKept
<1> QED  BY <1>1, <1>2, StepAnswerable DEF SessionsNext

LEMMA InitAnswerable == SessionsInit => Answerable
<1> SUFFICES ASSUME SessionsInit PROVE Answerable
  OBVIOUS
<1>1. PICK u \in Users, p \in Passwords, s \in Secrets \cup {NoSecret} :
        /\ user = [v \in Users |-> IF v = u THEN [active |-> TRUE, role |-> "Admin", pw |-> p,
                                                  mfa |-> s # NoSecret, secret |-> s]
                                   ELSE NoUser]
        /\ proved = [v \in Users |-> IF v = u THEN s ELSE NoSecret]
  BY DEF SessionsInit
<1>2. \A c \in Clients : req[c] = NoReq
  BY DEF SessionsInit
<1>3. OneByOne
  BY <1>2 DEF OneByOne, MfaBusy
<1>4. MfaCanBeAnswered
  BY <1>1 DEF MfaCanBeAnswered
<1> QED  BY <1>3, <1>4 DEF Answerable

\* A token's role is the one in the table or was read before the row last changed, however
\* refreshes and changes of roles interleave; and a user whose MFA requests did not overlap
\* can answer the second factor that is asked for (users.py, mfa_enroll, mfa_enroll_verify,
\* mfa_disable, for any number of users and requests).
THEOREM CredentialsStayCurrent == SessionsSpec => []CredentialsAreCurrent
<1>1. SessionsTyped /\ Answerable /\ [SessionsNext]_sessionsVars => Answerable'
  BY AnswerableNext
<1>2. Current /\ Answerable => CredentialsAreCurrent
  BY DEF Current, Answerable, CredentialsAreCurrent
<1> QED  BY <1>1, <1>2, InitAnswerable, TypedAlways, CurrentAlways, PTL DEF SessionsSpec
=============================================================================
