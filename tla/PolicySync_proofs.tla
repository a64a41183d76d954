--------------------------- MODULE PolicySync_proofs ---------------------------
(***************************************************************************)
(* Proofs about PolicySync for any number of servers, agents, changes and  *)
(* faults: its type invariant, that a pull covers what caused it, that the *)
(* next event makes up for a missed one, and that a bridged server's bus   *)
(* never goes back.  The inductive invariant relates every version in the  *)
(* system to the sequence Redis counted (BusPrefixes), every change to the    *)
(* commits (Committed), and bounds the sequences by what is still to be    *)
(* published (Counted).                                                    *)
(***************************************************************************)
EXTENDS PolicySync, TLAPS, FiniteSetTheorems, SequenceTheorems

Uncounted == {h \in handlers : h.ver = 0}
At(s) == {h \in handlers : h.at = s}

\* A change is counted once: those counted and those yet to be are no more than
\* the commits.
Counted ==
  /\ IsFiniteSet(handlers)
  /\ Len(stamps) + Cardinality(Uncounted) <= commits
  /\ \A s \in Servers : mode[s] = "inprocess" => Len(log[s]) + Cardinality(At(s)) <= commits
  /\ \A h \in handlers : mode[h.at] # "down"

\* What is counted, announced or pulled has been committed.
Committed ==
  /\ \A h \in handlers : h.id <= commits /\ h.ver <= Len(stamps)
  /\ \A i \in 1 .. Len(stamps) : stamps[i] <= commits
  /\ \A s \in Servers : \A i \in 1 .. Len(log[s]) : log[s][i] <= commits
  /\ \A a \in Agents : \A c \in promised[a] : c <= commits
  /\ \A a \in Agents : call[a].policies <= commits /\ held[a] <= commits

\* The version of a bus that hears Redis is a version Redis had.
BusPrefixes ==
  /\ \A s \in Servers : mode[s] = "bridged" =>
       /\ Len(log[s]) <= Len(stamps)
       /\ \A i \in 1 .. Len(log[s]) : log[s][i] = stamps[i]
  /\ \A s \in Servers : mode[s] = "down" => log[s] = <<>>
  /\ \A s \in Servers : ear[s] # "none" => mode[s] = "bridged"
  /\ \A s \in Servers : inbox[s] # <<>> => ear[s] = "subscribed"
  /\ \A s \in Servers : \A i \in 1 .. Len(inbox[s]) : inbox[s][i] \in 1 .. Len(stamps)

\* The highest version published to a server has reached its bus or will.
Heard ==
  \A s \in Servers : \/ heard[s] <= Len(log[s])
                     \/ \E i \in 1 .. Len(inbox[s]) : heard[s] <= inbox[s][i]

Inv == TypeOK /\ Counted /\ Committed /\ BusPrefixes /\ Heard /\ PullCoversAnnouncement

LEMMA InitInv == Init => Inv
<1> SUFFICES ASSUME Init PROVE Inv
  OBVIOUS
<1>1. TypeOK
  <2>1. (CHOOSE s \in Servers : TRUE) \in Servers
    BY SyncAssumption DEF SyncAssumption
  <2>2. call \in [Agents -> [at : Servers, policies : 0 .. MaxChanges]]
    BY <2>1, SyncAssumption DEF SyncAssumption, Init
  <2>3. route \in [Agents -> (SUBSET Servers) \ {{}}]
    <3> DEFINE ways == {Servers} \cup {{s} : s \in Servers}
               sets == (SUBSET Servers) \ {{}}
    <3>1. ways \subseteq sets
      BY SyncAssumption DEF SyncAssumption
    <3>2. route \in [Agents -> ways]
      BY DEF Init
    <3> HIDE DEF ways, sets
    <3>3. route \in [Agents -> sets]
      BY <3>1, <3>2
    <3> QED  BY <3>3 DEF sets
  <2> QED  BY <2>2, <2>3, SyncAssumption DEF SyncAssumption, Init, TypeOK
<1>2. Counted
  <2>1. Uncounted = {} /\ handlers = {} /\ \A s \in Servers : mode[s] = "down"
    BY DEF Init, Uncounted
  <2> QED  BY <2>1, FS_EmptySet DEF Init, Counted
<1>3. Committed /\ BusPrefixes /\ Heard /\ PullCoversAnnouncement
  BY DEF Init, Committed, BusPrefixes, Heard, PullCoversAnnouncement
<1> QED  BY <1>1, <1>2, <1>3 DEF Inv

-------------------------------------------------------------------------------
(* Facts about the types and the sets that are counted.                    *)

LEMMA Faulty == ASSUME TypeOK, faults < MaxFaults, faults' = faults + 1
                PROVE  faults' \in 0 .. MaxFaults
BY SyncAssumption DEF SyncAssumption, TypeOK

\* The types of what a server's tasks assign.
LEMMA ServerTypes ==
  ASSUME TypeOK
  PROVE  /\ stamps \in Seq(1 .. MaxChanges) /\ <<>> \in Seq(1 .. MaxChanges) /\ 0 \in 0 .. MaxChanges
         /\ mode \in [Servers -> {"down", "bridged", "inprocess"}]
         /\ ear \in [Servers -> {"none", "scheduled", "subscribed", "dead"}]
         /\ inbox \in [Servers -> Seq(1 .. MaxChanges)]
         /\ log \in [Servers -> Seq(1 .. MaxChanges)]
         /\ heard \in [Servers -> 0 .. MaxChanges]
<1>1. <<>> \in Seq(1 .. MaxChanges)
  BY EmptySeq
<1>2. 0 \in 0 .. MaxChanges
  BY SyncAssumption DEF SyncAssumption
<1> QED  BY <1>1, <1>2 DEF TypeOK

LEMMA Handlers ==
  ASSUME Inv
  PROVE  /\ IsFiniteSet(Uncounted) /\ Cardinality(Uncounted) \in Nat
         /\ \A s \in Servers : IsFiniteSet(At(s)) /\ Cardinality(At(s)) \in Nat
<1>1. IsFiniteSet(handlers)
  BY DEF Inv, Counted
<1>2. IsFiniteSet(Uncounted)
  BY <1>1, FS_Subset, Uncounted \in SUBSET handlers DEF Uncounted
<1>3. ASSUME NEW s \in Servers PROVE IsFiniteSet(At(s))
  BY <1>1, FS_Subset, At(s) \in SUBSET handlers DEF At
<1> QED  BY <1>2, <1>3, FS_CardinalityType

LEMMA Element == ASSUME NEW S, NEW q \in Seq(S)
                 PROVE  Len(q) \in Nat /\ \A i \in 1 .. Len(q) : q[i] \in S
OBVIOUS

LEMMA Elements ==
  ASSUME TypeOK
  PROVE  /\ MaxChanges \in Nat /\ Len(stamps) \in Nat
         /\ \A i \in 1 .. Len(stamps) : stamps[i] \in 1 .. MaxChanges
         /\ \A s \in Servers : /\ Len(log[s]) \in Nat /\ Len(inbox[s]) \in Nat
                               /\ \A i \in 1 .. Len(log[s]) : log[s][i] \in 1 .. MaxChanges
                             /\ \A j \in 1 .. Len(inbox[s]) : inbox[s][j] \in 1 .. MaxChanges
<1>1. /\ stamps \in Seq(1 .. MaxChanges) /\ MaxChanges \in Nat
      /\ \A s \in Servers : log[s] \in Seq(1 .. MaxChanges) /\ inbox[s] \in Seq(1 .. MaxChanges)
  BY SyncAssumption DEF SyncAssumption, TypeOK
<1> QED  BY <1>1, Element

LEMMA Smaller ==
  ASSUME NEW S, NEW T, IsFiniteSet(T), S \subseteq T
  PROVE  IsFiniteSet(S) /\ Cardinality(S) \in Nat /\ Cardinality(S) <= Cardinality(T)
BY FS_Subset, FS_CardinalityType

\* The steps that leave handlers, counted changes and what is in progress as they
\* are, or drop handlers, keep Counted.
LEMMA CountedKept ==
  ASSUME Inv, handlers' \subseteq handlers, UNCHANGED <<commits, stamps>>,
         \A s \in Servers : mode'[s] = "inprocess" =>
            \/ mode[s] = "inprocess" /\ log'[s] = log[s]
            \/ mode[s] = "down" /\ log'[s] = <<>>,
         \A h \in handlers' : mode'[h.at] # "down"
  PROVE  Counted'
<1>0. IsFiniteSet(handlers)
  BY DEF Inv, Counted
<1>1. IsFiniteSet(handlers')
  BY <1>0, Smaller
<1>2. Uncounted' \subseteq Uncounted
  BY DEF Uncounted
<1>3. Len(stamps') + Cardinality(Uncounted') <= commits'
  <2>1. Cardinality(Uncounted') \in Nat /\ Cardinality(Uncounted') <= Cardinality(Uncounted)
    BY <1>2, Smaller, Handlers
  <2>2. Len(stamps) + Cardinality(Uncounted) <= commits /\ Len(stamps) \in Nat /\ commits \in Nat
    BY DEF Inv, Counted, TypeOK
  <2> QED  BY <2>1, <2>2, Handlers
<1>4. ASSUME NEW s \in Servers, mode'[s] = "inprocess"
      PROVE  Len(log'[s]) + Cardinality(At(s)') <= commits'
  <2>1. At(s)' \subseteq At(s)
    BY DEF At
  <2>2. Cardinality(At(s)') \in Nat /\ Cardinality(At(s)') <= Cardinality(At(s)) /\ Cardinality(At(s)) \in Nat
    BY <2>1, Smaller, Handlers
  <2>3. CASE mode[s] = "inprocess" /\ log'[s] = log[s]
    <3>1. Len(log[s]) + Cardinality(At(s)) <= commits /\ Len(log[s]) \in Nat /\ commits \in Nat
      BY <2>3 DEF Inv, Counted, TypeOK
    <3> QED  BY <2>2, <2>3, <3>1
  <2>4. CASE mode[s] = "down" /\ log'[s] = <<>>
    <3>1. At(s) = {}
      BY <2>4 DEF Inv, Counted, At
    <3>2. Cardinality(At(s)') = 0
      BY <3>1, <2>1, FS_EmptySet
    <3> QED  BY <2>4, <3>2 DEF Inv, TypeOK
  <2> QED  BY <1>4, <2>3, <2>4
<1> QED  BY <1>1, <1>3, <1>4 DEF Counted

-------------------------------------------------------------------------------
(* The servers.                                                            *)

LEMMA StartInv == ASSUME Inv, NEW s \in Servers, Start(s), UNCHANGED route PROVE Inv'
<1>1. /\ mode[s] = "down" /\ log' = [log EXCEPT ![s] = stamps]
      /\ mode' = [mode EXCEPT ![s] = "bridged"] /\ ear' = [ear EXCEPT ![s] = "scheduled"]
      /\ UNCHANGED <<commits, handlers, stamps, inbox, heard, phase, call, version, held,
                    promised, reported, route, faults>>
  BY DEF Start, redis, agent
<1>0. TypeOK
  BY DEF Inv
<1>2. /\ mode' \in [Servers -> {"down", "bridged", "inprocess"}] /\ mode'[s] = "bridged"
      /\ ear' \in [Servers -> {"none", "scheduled", "subscribed", "dead"}] /\ ear'[s] = "scheduled"
      /\ log' \in [Servers -> Seq(1 .. MaxChanges)] /\ log'[s] = stamps
      /\ \A t \in Servers : t # s => mode'[t] = mode[t] /\ log'[t] = log[t] /\ ear'[t] = ear[t]
  BY <1>0, <1>1, ServerTypes
<1>3. TypeOK'
  BY <1>0, <1>1, <1>2 DEF TypeOK
<1>4. Counted'
  <2>1. \A t \in Servers : mode'[t] = "inprocess" => mode[t] = "inprocess" /\ log'[t] = log[t]
    BY <1>2
  <2>2. \A h \in handlers : h.at \in Servers /\ mode[h.at] # "down"
    BY DEF Inv, TypeOK, Handler, Counted
  <2>3. \A h \in handlers' : mode'[h.at] # "down"
    BY <1>1, <1>2, <2>2
  <2> QED  BY <1>1, <2>1, <2>3, CountedKept
<1>5. Committed'
  <2>1. \A t \in Servers : \A i \in 1 .. Len(log'[t]) : log'[t][i] <= commits
    BY <1>2 DEF Inv, Committed
  <2> QED  BY <1>1, <2>1 DEF Inv, Committed
<1>6. BusPrefixes'
  <2>1. inbox[s] = <<>>
    BY <1>1 DEF Inv, BusPrefixes
  <2>2. Len(stamps) \in Nat
    BY <1>0, Elements
  <2> QED  BY <1>1, <1>2, <2>1, <2>2 DEF Inv, BusPrefixes
<1>7. Heard'
  <2>1. heard[s] <= 0 /\ heard[s] \in Nat /\ Len(stamps) \in Nat
    <3>1. log[s] = <<>> /\ inbox[s] = <<>>
      BY <1>1 DEF Inv, BusPrefixes
    <3>2. Len(log[s]) = 0 /\ ~\E i \in 1 .. Len(inbox[s]) : TRUE
      BY <3>1
    <3>3. heard[s] \in Nat
      BY <1>0 DEF TypeOK
    <3> QED  BY <1>0, <3>2, <3>3, Elements DEF Inv, Heard
  <2>2. heard[s] <= Len(log'[s])
    BY <1>2, <2>1
  <2> QED  BY <1>1, <1>2, <2>2 DEF Inv, Heard
<1>8. PullCoversAnnouncement'
  BY <1>1 DEF Inv, PullCoversAnnouncement
<1> QED  BY <1>3, <1>4, <1>5, <1>6, <1>7, <1>8 DEF Inv

LEMMA StartWithoutRedisInv ==
  ASSUME Inv, NEW s \in Servers, StartWithoutRedis(s), UNCHANGED route PROVE Inv'
<1>1. /\ mode[s] = "down" /\ mode' = [mode EXCEPT ![s] = "inprocess"]
      /\ faults < MaxFaults /\ faults' = faults + 1
      /\ UNCHANGED <<commits, handlers, stamps, inbox, heard, ear, log, phase, call, version,
                    held, promised, reported, route>>
  BY DEF StartWithoutRedis, Fault, redis, agent
<1>0. TypeOK
  BY DEF Inv
<1>2. /\ mode' \in [Servers -> {"down", "bridged", "inprocess"}] /\ mode'[s] = "inprocess"
      /\ \A t \in Servers : t # s => mode'[t] = mode[t]
  BY <1>0, <1>1, ServerTypes
<1>3. TypeOK'
  BY <1>0, <1>1, <1>2, Faulty DEF TypeOK
<1>4. Counted'
  <2>1. \A t \in Servers : mode'[t] = "inprocess" =>
          \/ mode[t] = "inprocess" /\ log'[t] = log[t]
          \/ mode[t] = "down" /\ log'[t] = <<>>
    BY <1>1, <1>2 DEF Inv, BusPrefixes
  <2>2. \A h \in handlers : h.at \in Servers /\ mode[h.at] # "down"
    BY DEF Inv, TypeOK, Handler, Counted
  <2>3. \A h \in handlers' : mode'[h.at] # "down"
    BY <1>1, <1>2, <2>2
  <2> QED  BY <1>1, <2>1, <2>3, CountedKept
<1>5. BusPrefixes'
  BY <1>1, <1>2 DEF Inv, BusPrefixes
<1>6. Committed' /\ Heard' /\ PullCoversAnnouncement'
  BY <1>1 DEF Inv, Committed, Heard, PullCoversAnnouncement
<1> QED  BY <1>3, <1>4, <1>5, <1>6 DEF Inv

LEMMA SubscribeInv == ASSUME Inv, NEW s \in Servers, Subscribe(s), UNCHANGED route PROVE Inv'
<1>1. /\ ear[s] = "scheduled" /\ ear' = [ear EXCEPT ![s] = "subscribed"]
      /\ UNCHANGED <<commits, handlers, stamps, inbox, heard, mode, log, phase, call, version,
                    held, promised, reported, route, faults>>
  BY DEF Subscribe, redis, agent
<1>0. TypeOK
  BY DEF Inv
<1>2. /\ ear' \in [Servers -> {"none", "scheduled", "subscribed", "dead"}] /\ ear'[s] = "subscribed"
      /\ \A t \in Servers : t # s => ear'[t] = ear[t]
  BY <1>0, <1>1, ServerTypes
<1>3. TypeOK'
  BY <1>0, <1>1, <1>2 DEF TypeOK
<1>4. Counted'
  BY <1>1, CountedKept DEF Inv, Counted
<1>5. BusPrefixes'
  BY <1>1, <1>2 DEF Inv, BusPrefixes
<1>6. Committed' /\ Heard' /\ PullCoversAnnouncement'
  BY <1>1 DEF Inv, Committed, Heard, PullCoversAnnouncement
<1> QED  BY <1>3, <1>4, <1>5, <1>6 DEF Inv

LEMMA ListenerDiesInv ==
  ASSUME Inv, NEW s \in Servers, ListenerDies(s), UNCHANGED route PROVE Inv'
<1>1. /\ ear[s] \in {"scheduled", "subscribed"} /\ ear' = [ear EXCEPT ![s] = "dead"]
      /\ inbox' = [inbox EXCEPT ![s] = <<>>] /\ heard' = [heard EXCEPT ![s] = 0]
      /\ faults < MaxFaults /\ faults' = faults + 1
      /\ UNCHANGED <<commits, handlers, stamps, mode, log, phase, call, version,
                    held, promised, reported, route>>
  BY DEF ListenerDies, Fault, agent
<1>0. TypeOK
  BY DEF Inv
<1>2. /\ ear' \in [Servers -> {"none", "scheduled", "subscribed", "dead"}] /\ ear'[s] = "dead"
      /\ inbox' \in [Servers -> Seq(1 .. MaxChanges)] /\ inbox'[s] = <<>>
      /\ heard' \in [Servers -> 0 .. MaxChanges] /\ heard'[s] = 0
      /\ \A t \in Servers : t # s => ear'[t] = ear[t] /\ inbox'[t] = inbox[t] /\ heard'[t] = heard[t]
  BY <1>0, <1>1, ServerTypes
<1>3. TypeOK'
  BY <1>0, <1>1, <1>2, Faulty DEF TypeOK
<1>4. Counted'
  BY <1>1, CountedKept DEF Inv, Counted
<1>5. Committed' /\ PullCoversAnnouncement'
  BY <1>1 DEF Inv, Committed, PullCoversAnnouncement
<1>6. BusPrefixes'
  <2>1. mode[s] = "bridged"
    BY <1>1 DEF Inv, BusPrefixes
  <2> QED  BY <1>1, <1>2, <2>1 DEF Inv, BusPrefixes
<1>7. Heard'
  <2>1. Len(log[s]) \in Nat
    BY <1>0, Elements
  <2> QED  BY <1>1, <1>2, <2>1 DEF Inv, Heard
<1> QED  BY <1>3, <1>4, <1>5, <1>6, <1>7 DEF Inv

\* The bus takes the version of the first message if that is higher.
LEMMA RelayFacts ==
  ASSUME Inv, NEW s \in Servers, Relay(s)
  PROVE  /\ mode[s] = "bridged"
         /\ Head(inbox[s]) \in 1 .. Len(stamps)
         /\ log'[s] \in Seq(1 .. MaxChanges)
         /\ Len(log'[s]) = Max2(Len(log[s]), Head(inbox[s]))
         /\ \A i \in 1 .. Len(log'[s]) : log'[s][i] = stamps[i]
         /\ \A t \in Servers : t # s => log'[t] = log[t]
         /\ log' = [log EXCEPT ![s] = log'[s]]
<1> DEFINE n == Head(inbox[s])
<1>1. inbox[s] # <<>> /\ inbox[s] \in Seq(1 .. MaxChanges) /\ log \in [Servers -> Seq(1 .. MaxChanges)]
  BY DEF Relay, Inv, TypeOK
<1>2. n = inbox[s][1] /\ 1 \in 1 .. Len(inbox[s])
  BY <1>1
<1>3. mode[s] = "bridged" /\ n \in 1 .. Len(stamps)
  BY <1>1, <1>2 DEF Inv, BusPrefixes
<1>4. stamps \in Seq(1 .. MaxChanges)
  BY DEF Inv, TypeOK
<1>5. /\ Len(Prefix(n)) = n /\ Prefix(n) \in Seq(1 .. MaxChanges)
      /\ \A i \in 1 .. n : Prefix(n)[i] = stamps[i]
  <2>1. n \in Nat /\ n <= Len(stamps) /\ 1 \in Nat
    BY <1>3, <1>4
  <2> HIDE DEF n
  <2>2. \A i \in 1 .. n : stamps[i] \in 1 .. MaxChanges
    BY <2>1, Elements DEF Inv
  <2>3. /\ SubSeq(stamps, 1, n) \in Seq(1 .. MaxChanges)
        /\ Len(SubSeq(stamps, 1, n)) = IF 1 <= n THEN n - 1 + 1 ELSE 0
        /\ \A i \in 1 .. n - 1 + 1 : SubSeq(stamps, 1, n)[i] = stamps[1 + i - 1]
    BY <2>1, <2>2, SubSeqProperties
  <2> QED  BY <2>1, <2>3 DEF Prefix
<1>6. log' = [log EXCEPT ![s] = IF n > Len(log[s]) THEN Prefix(n) ELSE log[s]]
  BY DEF Relay
<1>7. log'[s] = IF n > Len(log[s]) THEN Prefix(n) ELSE log[s]
  BY <1>1, <1>6
<1>8. Len(log[s]) <= Len(stamps) /\ Len(log[s]) \in Nat /\ \A i \in 1 .. Len(log[s]) : log[s][i] = stamps[i]
  BY <1>1, <1>3 DEF Inv, BusPrefixes
<1>9. /\ log'[s] \in Seq(1 .. MaxChanges) /\ Len(log'[s]) = Max2(Len(log[s]), n)
      /\ \A i \in 1 .. Len(log'[s]) : log'[s][i] = stamps[i]
  <2>1. CASE n > Len(log[s])
    BY <2>1, <1>5, <1>7, <1>3, <1>8 DEF Max2
  <2>2. CASE ~(n > Len(log[s]))
    BY <2>2, <1>1, <1>7, <1>3, <1>8 DEF Max2
  <2> QED  BY <2>1, <2>2
<1>10. (\A t \in Servers : t # s => log'[t] = log[t]) /\ log' = [log EXCEPT ![s] = log'[s]]
  BY <1>1, <1>6, <1>7
<1> QED  BY <1>3, <1>9, <1>10

LEMMA RelayInv == ASSUME Inv, NEW s \in Servers, Relay(s), UNCHANGED route PROVE Inv'
<1> DEFINE n == Head(inbox[s])
<1>0. inbox \in [Servers -> Seq(1 .. MaxChanges)] /\ log \in [Servers -> Seq(1 .. MaxChanges)]
  BY DEF Inv, TypeOK
<1>1. /\ inbox[s] # <<>> /\ inbox' = [inbox EXCEPT ![s] = Tail(@)]
      /\ UNCHANGED <<commits, handlers, stamps, heard, mode, ear, phase, call, version, held,
                    promised, reported, route, faults>>
  BY DEF Relay, agent
<1>2. /\ inbox'[s] \in Seq(1 .. MaxChanges) /\ Len(inbox'[s]) = Len(inbox[s]) - 1
      /\ \A i \in 1 .. Len(inbox'[s]) : inbox'[s][i] = inbox[s][i + 1] /\ i + 1 \in 1 .. Len(inbox[s])
      /\ \A t \in Servers : t # s => inbox'[t] = inbox[t]
      /\ n = inbox[s][1] /\ Len(inbox[s]) \in Nat \ {0}
  BY <1>0, <1>1
<1>3. TypeOK'
  <2>1. log' \in [Servers -> Seq(1 .. MaxChanges)]
    BY <1>0, RelayFacts
  <2>2. inbox' \in [Servers -> Seq(1 .. MaxChanges)]
    BY <1>0, <1>1, <1>2
  <2> QED  BY <1>1, <2>1, <2>2 DEF Inv, TypeOK
<1>4. Counted'
  <2>1. \A t \in Servers : mode[t] = "inprocess" => log'[t] = log[t]
    BY RelayFacts
  <2> QED  BY <1>1, <2>1, CountedKept DEF Inv, Counted
<1>5. \A i \in 1 .. Len(log'[s]) : i \in 1 .. Len(stamps) /\ log'[s][i] = stamps[i]
  <2>1. Len(log[s]) <= Len(stamps)
    BY RelayFacts DEF Inv, BusPrefixes
  <2>2. Len(log[s]) \in Nat /\ Len(stamps) \in Nat
    BY Elements DEF Inv
  <2>3. n \in 1 .. Len(stamps) /\ Len(log'[s]) = Max2(Len(log[s]), n)
    BY RelayFacts
  <2>4. Len(log'[s]) \in Nat /\ Len(log'[s]) <= Len(stamps)
    BY <2>1, <2>2, <2>3 DEF Max2
  <2> QED  BY <2>2, <2>4, RelayFacts
<1>6. Committed'
  <2>1. \A t \in Servers : \A i \in 1 .. Len(log'[t]) : log'[t][i] <= commits
    BY <1>5, RelayFacts DEF Inv, Committed
  <2> QED  BY <1>1, <2>1 DEF Inv, Committed
<1>7. BusPrefixes'
  <2>1. Len(log'[s]) <= Len(stamps)
    <3>1. Len(log[s]) <= Len(stamps)
      BY RelayFacts DEF Inv, BusPrefixes
    <3>2. n \in 1 .. Len(stamps) /\ Len(log'[s]) = Max2(Len(log[s]), n)
      BY RelayFacts
    <3> QED  BY <3>1, <3>2 DEF Max2
  <2>2. \A t \in Servers : inbox'[t] # <<>> => inbox[t] # <<>>
    BY <1>1, <1>2
  <2>3. \A t \in Servers : \A i \in 1 .. Len(inbox'[t]) : inbox'[t][i] \in 1 .. Len(stamps)
    <3>1. \A t \in Servers : \A i \in 1 .. Len(inbox[t]) : inbox[t][i] \in 1 .. Len(stamps)
      BY DEF Inv, BusPrefixes
    <3> QED  BY <1>2, <3>1
  <2>4. \A t \in Servers : mode[t] = "bridged" =>
          Len(log'[t]) <= Len(stamps) /\ \A i \in 1 .. Len(log'[t]) : log'[t][i] = stamps[i]
    BY <2>1, RelayFacts DEF Inv, BusPrefixes
  <2>5. \A t \in Servers : mode[t] = "down" => log'[t] = <<>>
    BY RelayFacts DEF Inv, BusPrefixes
  <2>6. \A t \in Servers : ear[t] # "none" => mode[t] = "bridged"
    BY DEF Inv, BusPrefixes
  <2>7. \A t \in Servers : inbox[t] # <<>> => ear[t] = "subscribed"
    BY DEF Inv, BusPrefixes
  <2>8. UNCHANGED <<mode, ear, stamps>>
    BY <1>1
  <2> QED  BY <2>2, <2>3, <2>4, <2>5, <2>6, <2>7, <2>8 DEF BusPrefixes
<1>8. Heard'
  <2>1. heard[s] \in Nat /\ Len(log[s]) \in Nat /\ n \in Nat
    <3>1. heard[s] \in Nat
      BY DEF Inv, TypeOK
    <3>2. Len(log[s]) \in Nat /\ Len(stamps) \in Nat
      BY Elements DEF Inv
    <3> QED  BY <3>1, <3>2, RelayFacts
  <2>2. heard[s] <= Len(log'[s]) \/ \E i \in 1 .. Len(inbox'[s]) : heard[s] <= inbox'[s][i]
    <3>1. CASE heard[s] <= Len(log[s])
      BY <3>1, <2>1, RelayFacts DEF Max2
    <3>2. ASSUME NEW i \in 1 .. Len(inbox[s]), heard[s] <= inbox[s][i]
          PROVE  heard[s] <= Len(log'[s]) \/ \E j \in 1 .. Len(inbox'[s]) : heard[s] <= inbox'[s][j]
      <4>1. CASE i = 1
        BY <4>1, <3>2, <2>1, <1>2, RelayFacts DEF Max2
      <4>2. CASE i # 1
        <5>1. i - 1 \in 1 .. Len(inbox'[s]) /\ (i - 1) + 1 = i
          BY <4>2, <3>2, <1>2
        <5> QED  BY <5>1, <3>2, <1>2
      <4> QED  BY <4>1, <4>2
    <3> QED  BY <3>1, <3>2 DEF Inv, Heard
  <2>3. \A t \in Servers : t # s => log'[t] = log[t] /\ inbox'[t] = inbox[t]
    BY <1>2, RelayFacts
  <2> QED  BY <1>1, <2>2, <2>3 DEF Inv, Heard
<1>9. PullCoversAnnouncement'
  BY <1>1 DEF Inv, PullCoversAnnouncement
<1> QED  BY <1>3, <1>4, <1>6, <1>7, <1>8, <1>9 DEF Inv

LEMMA CrashInv == ASSUME Inv, NEW s \in Servers, Crash(s), UNCHANGED route PROVE Inv'
<1>1. /\ mode' = [mode EXCEPT ![s] = "down"] /\ ear' = [ear EXCEPT ![s] = "none"]
      /\ log' = [log EXCEPT ![s] = <<>>] /\ inbox' = [inbox EXCEPT ![s] = <<>>]
      /\ heard' = [heard EXCEPT ![s] = 0]
      /\ handlers' = {h \in handlers : h.at # s}
      /\ phase' = [a \in Agents |-> IF phase[a] = "reading" /\ call[a].at = s
                                    THEN "idle" ELSE phase[a]]
      /\ faults < MaxFaults /\ faults' = faults + 1
      /\ UNCHANGED <<commits, stamps, call, version, held, promised, reported, route>>
  BY DEF Crash, Fault
<1>0. TypeOK
  BY DEF Inv
<1>2. /\ mode' \in [Servers -> {"down", "bridged", "inprocess"}] /\ mode'[s] = "down"
      /\ ear' \in [Servers -> {"none", "scheduled", "subscribed", "dead"}] /\ ear'[s] = "none"
      /\ log' \in [Servers -> Seq(1 .. MaxChanges)] /\ log'[s] = <<>>
      /\ \A t \in Servers : t # s => mode'[t] = mode[t] /\ log'[t] = log[t] /\ ear'[t] = ear[t]
  BY <1>0, <1>1, ServerTypes
<1>3. /\ inbox' \in [Servers -> Seq(1 .. MaxChanges)] /\ inbox'[s] = <<>>
      /\ heard' \in [Servers -> 0 .. MaxChanges] /\ heard'[s] = 0
      /\ \A t \in Servers : t # s => inbox'[t] = inbox[t] /\ heard'[t] = heard[t]
  BY <1>0, <1>1, ServerTypes
<1>4. TypeOK'
  <2>1. phase' \in [Agents -> {"idle", "pulling", "reading", "hung"}]
    BY <1>0, <1>1 DEF TypeOK
  <2>2. handlers' \subseteq Handler
    BY <1>0, <1>1 DEF TypeOK
  <2>3. faults' \in 0 .. MaxFaults
    BY <1>0, <1>1, Faulty
  <2> QED  BY <1>0, <1>1, <1>2, <1>3, <2>1, <2>2, <2>3 DEF TypeOK
<1>5. Counted'
  <2>1. \A t \in Servers : mode'[t] = "inprocess" => mode[t] = "inprocess" /\ log'[t] = log[t]
    BY <1>2
  <2>2. \A h \in handlers : h.at \in Servers /\ mode[h.at] # "down"
    BY DEF Inv, TypeOK, Handler, Counted
  <2>3. \A h \in handlers' : h \in handlers /\ mode'[h.at] # "down"
    BY <1>1, <1>2, <2>2
  <2> QED  BY <1>1, <2>1, <2>3, CountedKept
<1>6. Committed'
  <2>1. \A t \in Servers : \A i \in 1 .. Len(log'[t]) : log'[t][i] <= commits
    <3>1. \A t \in Servers : \A i \in 1 .. Len(log[t]) : log[t][i] <= commits
      BY DEF Inv, Committed
    <3>2. ~\E i \in 1 .. Len(log'[s]) : TRUE
      BY <1>2
    <3> QED  BY <1>2, <3>1, <3>2
  <2> QED  BY <1>1, <2>1 DEF Inv, Committed
<1>7. BusPrefixes'
  BY <1>1, <1>2, <1>3 DEF Inv, BusPrefixes
<1>8. Heard'
  <2>1. heard'[s] <= Len(log'[s])
    BY <1>2, <1>3
  <2> QED  BY <1>2, <1>3, <2>1 DEF Inv, Heard
<1>9. PullCoversAnnouncement'
  <2>1. \A a \in Agents : phase'[a] = "reading" => phase[a] = "reading"
    BY <1>1
  <2> QED  BY <1>1, <2>1 DEF Inv, PullCoversAnnouncement
<1> QED  BY <1>4, <1>5, <1>6, <1>7, <1>8, <1>9 DEF Inv

-------------------------------------------------------------------------------
(* The handlers.                                                           *)

LEMMA CommitInv == ASSUME Inv, NEW s \in Servers, Commit(s), UNCHANGED route PROVE Inv'
<1> DEFINE new == [id |-> commits + 1, at |-> s, ver |-> 0]
<1>0. commits \in Nat /\ commits + 1 \in 1 .. MaxChanges /\ mode[s] # "down"
  BY SyncAssumption DEF SyncAssumption, Inv, TypeOK, Commit, Up
<1>1. /\ commits' = commits + 1 /\ handlers' = handlers \cup {new}
      /\ UNCHANGED <<stamps, inbox, heard, mode, ear, log, phase, call, version, held,
                    promised, reported, route, faults>>
  BY DEF Commit, redis, server, agent
<1>2. new \in Handler /\ new.id = commits + 1 /\ new.at = s /\ new.ver = 0
  BY <1>0, SyncAssumption DEF SyncAssumption, Handler
<1> HIDE DEF new
<1>3. TypeOK'
  <2>1. commits' \in 0 .. MaxChanges
    BY <1>0, <1>1
  <2>2. handlers' \subseteq Handler
    BY <1>1, <1>2 DEF Inv, TypeOK
  <2> QED  BY <1>1, <2>1, <2>2 DEF Inv, TypeOK
<1>4. Counted'
  <2>1. IsFiniteSet(handlers) /\ IsFiniteSet(handlers')
    BY <1>1, FS_AddElement DEF Inv, Counted
  <2>2. Uncounted' = Uncounted \cup {new} /\ \A t \in Servers : At(t)' \subseteq At(t) \cup {new}
    BY <1>1, <1>2 DEF Uncounted, At
  <2>3. /\ IsFiniteSet(Uncounted \cup {new}) /\ Cardinality(Uncounted \cup {new}) \in Nat
        /\ Cardinality(Uncounted \cup {new}) <= Cardinality(Uncounted) + 1
    <3> DEFINE U == Uncounted
    <3>1. IsFiniteSet(U) /\ Cardinality(U) \in Nat
      BY Handlers
    <3> HIDE DEF U
    <3>2. /\ IsFiniteSet(U \cup {new})
          /\ Cardinality(U \cup {new}) = IF new \in U THEN Cardinality(U) ELSE Cardinality(U) + 1
      BY <3>1, FS_AddElement
    <3>3. Cardinality(U \cup {new}) \in Nat /\ Cardinality(U \cup {new}) <= Cardinality(U) + 1
      BY <3>1, <3>2
    <3> QED  BY <3>2, <3>3 DEF U
  <2>4. Len(stamps') + Cardinality(Uncounted') <= commits'
    <3>1. Len(stamps) + Cardinality(Uncounted) <= commits /\ Len(stamps) \in Nat
      BY Elements DEF Inv, Counted
    <3>2. Cardinality(Uncounted') <= Cardinality(Uncounted) + 1
      BY <2>2, <2>3
    <3> QED  BY <1>0, <1>1, <2>2, <2>3, <3>1, <3>2, Handlers
  <2>5. ASSUME NEW t \in Servers, mode'[t] = "inprocess"
        PROVE  Len(log'[t]) + Cardinality(At(t)') <= commits'
    <3>1. /\ IsFiniteSet(At(t) \cup {new}) /\ Cardinality(At(t) \cup {new}) \in Nat
          /\ Cardinality(At(t) \cup {new}) <= Cardinality(At(t)) + 1
      <4> DEFINE U == At(t)
      <4>1. IsFiniteSet(U) /\ Cardinality(U) \in Nat
        BY Handlers
      <4> HIDE DEF U
      <4>2. /\ IsFiniteSet(U \cup {new})
            /\ Cardinality(U \cup {new}) = IF new \in U THEN Cardinality(U) ELSE Cardinality(U) + 1
        BY <4>1, FS_AddElement
      <4>3. Cardinality(U \cup {new}) \in Nat /\ Cardinality(U \cup {new}) <= Cardinality(U) + 1
        BY <4>1, <4>2
      <4> QED  BY <4>2, <4>3 DEF U
    <3>2. Cardinality(At(t)') \in Nat /\ Cardinality(At(t)') <= Cardinality(At(t) \cup {new})
      BY <2>2, <3>1, Smaller
    <3>3. Len(log[t]) + Cardinality(At(t)) <= commits /\ Len(log[t]) \in Nat
      BY <1>1, <2>5 DEF Inv, TypeOK, Counted
    <3> QED  BY <1>0, <1>1, <3>1, <3>2, <3>3, Handlers
  <2>6. \A h \in handlers' : mode'[h.at] # "down"
    BY <1>0, <1>1, <1>2 DEF Inv, Counted
  <2> QED  BY <2>1, <2>4, <2>5, <2>6 DEF Counted
<1>5. Committed'
  <2>1. \A h \in handlers' : h.id <= commits' /\ h.ver <= Len(stamps')
    BY <1>0, <1>1, <1>2 DEF Inv, Committed, TypeOK, Handler
  <2>2. \A i \in 1 .. Len(stamps) : stamps[i] \in Nat
    BY Elements DEF Inv
  <2>3. \A t \in Servers : \A i \in 1 .. Len(log[t]) : log[t][i] \in Nat
    BY Elements DEF Inv
  <2>4. \A a \in Agents : /\ \A c \in promised[a] : c \in Nat
                          /\ call[a].policies \in Nat /\ held[a] \in Nat
    BY DEF Inv, TypeOK
  <2> QED  BY <1>0, <1>1, <2>1, <2>2, <2>3, <2>4 DEF Inv, Committed
<1>6. BusPrefixes' /\ Heard' /\ PullCoversAnnouncement'
  BY <1>1 DEF Inv, BusPrefixes, Heard, PullCoversAnnouncement
<1> QED  BY <1>3, <1>4, <1>5, <1>6 DEF Inv

LEMMA PublishFailsInv ==
  ASSUME Inv, NEW h \in handlers, PublishFails(h), UNCHANGED route PROVE Inv'
<1>1. /\ handlers' = handlers \ {h} /\ faults < MaxFaults /\ faults' = faults + 1
      /\ UNCHANGED <<commits, stamps, inbox, heard, mode, ear, log, phase, call, version, held,
                    promised, reported, route>>
  BY DEF PublishFails, Fault, redis, server, agent
<1>2. TypeOK'
  BY <1>1, Faulty DEF Inv, TypeOK
<1>3. Counted'
  BY <1>1, CountedKept DEF Inv, Counted
<1>4. Committed' /\ BusPrefixes' /\ Heard' /\ PullCoversAnnouncement'
  BY <1>1 DEF Inv, Committed, BusPrefixes, Heard, PullCoversAnnouncement
<1> QED  BY <1>2, <1>3, <1>4 DEF Inv

LEMMA PublishInProcessInv ==
  ASSUME Inv, NEW h \in handlers, PublishInProcess(h), UNCHANGED route PROVE Inv'
<1>1. /\ mode[h.at] = "inprocess" /\ log' = [log EXCEPT ![h.at] = Append(@, h.id)]
      /\ handlers' = handlers \ {h}
      /\ UNCHANGED <<commits, stamps, inbox, heard, mode, ear, phase, call, version, held,
                    promised, reported, route, faults>>
  BY DEF PublishInProcess, redis, agent
<1>2. /\ h.at \in Servers /\ h.id \in 1 .. MaxChanges /\ h.id <= commits
      /\ log \in [Servers -> Seq(1 .. MaxChanges)]
  BY DEF Inv, TypeOK, Handler, Committed
<1>3. /\ log'[h.at] = Append(log[h.at], h.id) /\ log[h.at] \in Seq(1 .. MaxChanges)
      /\ \A t \in Servers : t # h.at => log'[t] = log[t]
  BY <1>1, <1>2
<1>4. /\ Len(log'[h.at]) = Len(log[h.at]) + 1 /\ Len(log[h.at]) \in Nat
      /\ \A i \in 1 .. Len(log'[h.at]) : \/ i \in 1 .. Len(log[h.at]) /\ log'[h.at][i] = log[h.at][i]
                                         \/ log'[h.at][i] = h.id
  BY <1>2, <1>3
<1>5. TypeOK'
  <2>1. log'[h.at] \in Seq(1 .. MaxChanges)
    BY <1>2, <1>3
  <2>2. log' \in [Servers -> Seq(1 .. MaxChanges)]
    BY <1>1, <1>2, <2>1
  <2> QED  BY <1>1, <2>2 DEF Inv, TypeOK
<1>6. Counted'
  <2>1. IsFiniteSet(handlers')
    BY <1>1, FS_RemoveElement DEF Inv, Counted
  <2>2. Uncounted' \subseteq Uncounted /\ (\A t \in Servers : At(t)' \subseteq At(t))
        /\ At(h.at)' = At(h.at) \ {h} /\ h \in At(h.at)
    BY <1>1 DEF Uncounted, At
  <2>3. Len(stamps') + Cardinality(Uncounted') <= commits'
    <3>1. Cardinality(Uncounted') \in Nat /\ Cardinality(Uncounted') <= Cardinality(Uncounted)
      BY <2>2, Handlers, Smaller
    <3> QED  BY <3>1, <1>1, Handlers DEF Inv, TypeOK, Counted
  <2>4. ASSUME NEW t \in Servers, mode'[t] = "inprocess"
        PROVE  Len(log'[t]) + Cardinality(At(t)') <= commits'
    <3>1. Len(log[t]) + Cardinality(At(t)) <= commits /\ Len(log[t]) \in Nat /\ commits \in Nat
      BY <1>1, <2>4 DEF Inv, TypeOK, Counted
    <3>2. CASE t = h.at
      <4>1. Cardinality(At(h.at)') = Cardinality(At(h.at)) - 1
        BY <1>2, <2>2, Handlers, FS_RemoveElement
      <4> QED  BY <4>1, <3>1, <3>2, <1>1, <1>2, <1>4, Handlers
    <3>3. CASE t # h.at
      <4>1. Cardinality(At(t)') \in Nat /\ Cardinality(At(t)') <= Cardinality(At(t))
        BY <2>2, Handlers, Smaller
      <4> QED  BY <4>1, <3>1, <3>3, <1>1, <1>3, Handlers
    <3> QED  BY <3>2, <3>3
  <2> QED  BY <1>1, <2>1, <2>3, <2>4 DEF Inv, Counted
<1>7. Committed'
  <2>1. \A t \in Servers : \A i \in 1 .. Len(log'[t]) : log'[t][i] <= commits
    BY <1>2, <1>3, <1>4 DEF Inv, Committed
  <2> QED  BY <1>1, <2>1 DEF Inv, Committed
<1>8. BusPrefixes' /\ Heard' /\ PullCoversAnnouncement'
  <2>1. \A t \in Servers : t = h.at => mode[t] = "inprocess"
    BY <1>1
  <2>2. \A t \in Servers : Len(log[t]) \in Nat /\ Len(log'[t]) \in Nat /\ Len(log[t]) <= Len(log'[t])
    BY <1>2, <1>3, <1>4
  <2>3. BusPrefixes' /\ PullCoversAnnouncement'
    BY <1>1, <1>3, <2>1 DEF Inv, BusPrefixes, PullCoversAnnouncement
  <2>4. \A t \in Servers : heard[t] \in Nat
    BY DEF Inv, TypeOK
  <2>5. Heard'
    BY <1>1, <2>2, <2>4 DEF Inv, Heard
  <2> QED  BY <2>3, <2>5
<1> QED  BY <1>5, <1>6, <1>7, <1>8 DEF Inv

\* INCR: the change is appended to what Redis counted, its handler goes on.
LEMMA CountInv == ASSUME Inv, NEW h \in handlers, Count(h), UNCHANGED route PROVE Inv'
<1> DEFINE new == [h EXCEPT !.ver = Len(stamps')]
<1>1. /\ mode[h.at] = "bridged" /\ h.ver = 0 /\ stamps' = Append(stamps, h.id)
      /\ handlers' = (handlers \ {h}) \cup {new}
      /\ UNCHANGED <<commits, inbox, heard, mode, ear, log, phase, call, version, held,
                    promised, reported, route, faults>>
  BY DEF Count, server, agent
<1>2. h \in Handler /\ h.at \in Servers /\ h.id \in 1 .. MaxChanges /\ h.id <= commits
  BY DEF Inv, TypeOK, Handler, Committed
<1>3. /\ stamps' \in Seq(1 .. MaxChanges) /\ Len(stamps') = Len(stamps) + 1 /\ Len(stamps) \in Nat
      /\ \A i \in 1 .. Len(stamps) : stamps'[i] = stamps[i]
      /\ \A i \in 1 .. Len(stamps') : i \in 1 .. Len(stamps) \/ stamps'[i] = h.id
  BY <1>1, <1>2 DEF Inv, TypeOK
<1>4. h \in Uncounted /\ Cardinality(Uncounted) \in Nat \ {0}
  <2>1. h \in Uncounted
    BY <1>1 DEF Uncounted
  <2> QED  BY <2>1, Handlers, FS_EmptySet
<1>5. Len(stamps) + Cardinality(Uncounted) <= commits /\ commits \in 0 .. MaxChanges
  BY DEF Inv, Counted, TypeOK
<1>6. Len(stamps') \in 1 .. MaxChanges
  <2>1. Len(stamps') <= commits
    BY <1>3, <1>4, <1>5
  <2> QED  BY <2>1, <1>3, <1>5, Elements DEF Inv
<1>7. new.id = h.id /\ new.at = h.at /\ new.ver = Len(stamps')
  BY <1>2 DEF Handler
<1>8. new \in Handler
  BY <1>2, <1>6 DEF Handler
<1> HIDE DEF new
<1>9. TypeOK'
  BY <1>1, <1>3, <1>8 DEF Inv, TypeOK
<1>10. Counted'
  <2>1. IsFiniteSet(handlers')
    BY <1>1, FS_AddElement, FS_RemoveElement DEF Inv, Counted
  <2>2. Uncounted' = Uncounted \ {h}
    BY <1>1, <1>6, <1>7 DEF Uncounted
  <2>3. Cardinality(Uncounted') = Cardinality(Uncounted) - 1
    BY <2>2, <1>4, Handlers, FS_RemoveElement
  <2>4. Len(stamps') + Cardinality(Uncounted') <= commits'
    BY <2>3, <1>1, <1>3, <1>4, <1>5
  <2>5. ASSUME NEW t \in Servers, mode'[t] = "inprocess"
        PROVE  Len(log'[t]) + Cardinality(At(t)') <= commits'
    <3>1. At(t)' = At(t)
      BY <2>5, <1>1, <1>7 DEF At
    <3> QED  BY <2>5, <3>1, <1>1 DEF Inv, Counted
  <2>6. \A g \in handlers' : mode'[g.at] # "down"
    BY <1>1, <1>7 DEF Inv, Counted
  <2> QED  BY <2>1, <2>4, <2>5, <2>6 DEF Counted
<1>11. Committed'
  <2>1. \A g \in handlers' : g.id <= commits' /\ g.ver <= Len(stamps')
    BY <1>1, <1>2, <1>3, <1>6, <1>7 DEF Inv, Committed, TypeOK, Handler
  <2>2. \A i \in 1 .. Len(stamps') : stamps'[i] <= commits
    BY <1>2, <1>3 DEF Inv, Committed
  <2> QED  BY <1>1, <2>1, <2>2 DEF Inv, Committed
<1>12. BusPrefixes'
  <2>1. \A s \in Servers : mode[s] = "bridged" =>
          Len(log[s]) <= Len(stamps') /\ \A i \in 1 .. Len(log[s]) : log[s][i] = stamps'[i]
    BY <1>3, Elements DEF Inv, BusPrefixes
  <2>2. \A s \in Servers : \A i \in 1 .. Len(inbox[s]) : inbox[s][i] \in 1 .. Len(stamps')
    BY <1>3 DEF Inv, BusPrefixes
  <2> QED  BY <1>1, <2>1, <2>2 DEF Inv, BusPrefixes
<1>13. Heard' /\ PullCoversAnnouncement'
  BY <1>1 DEF Inv, Heard, PullCoversAnnouncement
<1> QED  BY <1>9, <1>10, <1>11, <1>12, <1>13 DEF Inv

\* PUBLISH: the version is the last message of whoever is subscribed.
LEMMA PublishInv == ASSUME Inv, NEW h \in handlers, Publish(h), UNCHANGED route PROVE Inv'
<1>1. /\ h.ver # 0 /\ handlers' = handlers \ {h}
      /\ inbox' = [s \in Servers |-> IF ear[s] = "subscribed" THEN Append(inbox[s], h.ver)
                                    ELSE inbox[s]]
      /\ heard' = [s \in Servers |-> IF ear[s] = "subscribed" THEN Max2(heard[s], h.ver)
                                    ELSE heard[s]]
      /\ UNCHANGED <<commits, stamps, mode, ear, log, phase, call, version, held,
                    promised, reported, route, faults>>
  BY DEF Publish, server, agent
<1>2. h.ver \in 1 .. MaxChanges /\ h.ver \in 1 .. Len(stamps)
  BY <1>1, Elements DEF Inv, TypeOK, Handler, Committed
<1>3. ASSUME NEW s \in Servers
      PROVE  /\ inbox'[s] \in Seq(1 .. MaxChanges) /\ heard'[s] \in 0 .. MaxChanges
             /\ Len(inbox'[s]) \in Nat /\ Len(inbox[s]) \in Nat /\ Len(inbox[s]) <= Len(inbox'[s])
             /\ \A i \in 1 .. Len(inbox[s]) : inbox'[s][i] = inbox[s][i]
             /\ \A i \in 1 .. Len(inbox'[s]) : i \in 1 .. Len(inbox[s]) \/ inbox'[s][i] = h.ver
             /\ inbox'[s] # inbox[s] => ear[s] = "subscribed"
             /\ \/ heard'[s] = heard[s]
                \/ /\ heard'[s] = h.ver /\ Len(inbox'[s]) \in 1 .. Len(inbox'[s])
                   /\ inbox'[s][Len(inbox'[s])] = h.ver
  <2>1. inbox[s] \in Seq(1 .. MaxChanges) /\ heard[s] \in 0 .. MaxChanges
    BY DEF Inv, TypeOK
  <2>2. CASE ear[s] = "subscribed"
    <3>1. inbox'[s] = Append(inbox[s], h.ver) /\ heard'[s] = Max2(heard[s], h.ver)
      BY <2>2, <1>1
    <3>2. /\ Append(inbox[s], h.ver) \in Seq(1 .. MaxChanges)
          /\ Len(Append(inbox[s], h.ver)) = Len(inbox[s]) + 1 /\ Len(inbox[s]) \in Nat
          /\ \A i \in 1 .. Len(inbox[s]) : Append(inbox[s], h.ver)[i] = inbox[s][i]
          /\ Append(inbox[s], h.ver)[Len(inbox[s]) + 1] = h.ver
      BY <2>1, <1>2
    <3>3. heard'[s] = heard[s] \/ heard'[s] = h.ver
      BY <3>1 DEF Max2
    <3> QED  BY <3>1, <3>2, <3>3, <2>1, <2>2, <1>2
  <2>3. CASE ear[s] # "subscribed"
    BY <2>1, <2>3, <1>1, Elements DEF Inv
  <2> QED  BY <2>2, <2>3
<1>4. TypeOK'
  <2>1. inbox' \in [Servers -> Seq(1 .. MaxChanges)] /\ heard' \in [Servers -> 0 .. MaxChanges]
    BY <1>1, <1>3
  <2> QED  BY <1>1, <2>1 DEF Inv, TypeOK
<1>5. Counted'
  BY <1>1, CountedKept DEF Inv, Counted
<1>6. Committed' /\ PullCoversAnnouncement'
  BY <1>1 DEF Inv, Committed, PullCoversAnnouncement
<1>7. BusPrefixes'
  <2>1. \A s \in Servers : \A i \in 1 .. Len(inbox'[s]) : inbox'[s][i] \in 1 .. Len(stamps)
    BY <1>2, <1>3 DEF Inv, BusPrefixes
  <2>2. \A s \in Servers : inbox'[s] # <<>> => ear[s] = "subscribed"
    BY <1>3 DEF Inv, BusPrefixes
  <2> QED  BY <1>1, <2>1, <2>2 DEF Inv, BusPrefixes
<1>8. Heard'
  <2>1. ASSUME NEW s \in Servers
        PROVE  \/ heard'[s] <= Len(log[s])
               \/ \E i \in 1 .. Len(inbox'[s]) : heard'[s] <= inbox'[s][i]
    <3>1. CASE heard'[s] = heard[s]
      <4>1. CASE heard[s] <= Len(log[s])
        BY <3>1, <4>1
      <4>2. ASSUME NEW i \in 1 .. Len(inbox[s]), heard[s] <= inbox[s][i]
            PROVE  \E j \in 1 .. Len(inbox'[s]) : heard'[s] <= inbox'[s][j]
        <5>1. i \in 1 .. Len(inbox'[s]) /\ inbox'[s][i] = inbox[s][i]
          BY <1>3
        <5> QED  BY <5>1, <4>2, <3>1
      <4> QED  BY <4>1, <4>2 DEF Inv, Heard
    <3>2. CASE /\ heard'[s] = h.ver /\ Len(inbox'[s]) \in 1 .. Len(inbox'[s])
               /\ inbox'[s][Len(inbox'[s])] = h.ver
      BY <3>2, <1>2
    <3> QED  BY <1>3, <3>1, <3>2
  <2> QED  BY <1>1, <2>1 DEF Heard
<1> QED  BY <1>4, <1>5, <1>6, <1>7, <1>8 DEF Inv

-------------------------------------------------------------------------------
(* The agents: their steps leave servers, handlers and Redis alone.        *)

\* What an agent's step has to keep: the types of its own state and that what it
\* was promised, and has read, was committed.
LEMMA AgentKeeps ==
  ASSUME Inv, UNCHANGED <<commits, handlers, stamps, inbox, heard, mode, ear, log, route>>,
         TypeOK',
         \A a \in Agents : \A c \in promised'[a] : c <= commits,
         \A a \in Agents : call'[a].policies <= commits /\ held'[a] <= commits,
         PullCoversAnnouncement'
  PROVE  Inv'
<1>1. Counted'
  BY CountedKept DEF Inv, Counted
<1>2. Committed' /\ BusPrefixes' /\ Heard'
  BY DEF Inv, Committed, BusPrefixes, Heard
<1> QED  BY <1>1, <1>2 DEF Inv

LEMMA HeartbeatInv ==
  ASSUME Inv, NEW a \in Agents, NEW s \in Servers, Heartbeat(a, s), UNCHANGED route PROVE Inv'
<1>1. /\ phase[a] = "idle" /\ reported' = [reported EXCEPT ![a] = version[a]]
      /\ UNCHANGED <<commits, handlers, stamps, inbox, heard, mode, ear, log, call, version,
                    held, route, faults>>
  BY DEF Heartbeat, redis, server
<1>2. \/ UNCHANGED <<promised, phase>>
      \/ /\ promised' = [promised EXCEPT ![a] = ToSet(log[s])]
         /\ phase' = [phase EXCEPT ![a] = "hung"] \/ phase' = [phase EXCEPT ![a] = "pulling"]
  <2>1. CASE version[a] < BusVersion(s)
    <3>1. PICK o \in RelockOutcomes :
            phase' = [phase EXCEPT ![a] = IF o = "hang" THEN "hung" ELSE "pulling"]
      BY <2>1 DEF Heartbeat
    <3> QED  BY <2>1, <3>1 DEF Heartbeat
  <2>2. CASE ~(version[a] < BusVersion(s))
    BY <2>2 DEF Heartbeat
  <2> QED  BY <2>1, <2>2
<1>3. \A c \in ToSet(log[s]) : c \in 1 .. MaxChanges /\ c <= commits
  <2>1. \A c \in ToSet(log[s]) : \E i \in 1 .. Len(log[s]) : c = log[s][i]
    <3>1. log[s] \in Seq(1 .. MaxChanges)
      BY DEF Inv, TypeOK
    <3> QED  BY <3>1 DEF ToSet
  <2> QED  BY <2>1, Elements DEF Inv, Committed
<1>4. phase'[a] # "reading" /\ \A b \in Agents : b # a => phase'[b] = phase[b] /\ promised'[b] = promised[b]
  BY <1>1, <1>2 DEF Inv, TypeOK
<1>5. \A b \in Agents : promised'[b] = promised[b] \/ promised'[b] = ToSet(log[s])
  BY <1>2 DEF Inv, TypeOK
<1>6. TypeOK'
  <2>1. phase' \in [Agents -> {"idle", "pulling", "reading", "hung"}]
    BY <1>1, <1>2 DEF Inv, TypeOK
  <2>2. promised' \in [Agents -> SUBSET (1 .. MaxChanges)]
    BY <1>2, <1>3 DEF Inv, TypeOK
  <2>3. reported' \in [Agents -> 0 .. MaxChanges]
    BY <1>1 DEF Inv, TypeOK
  <2> QED  BY <1>1, <2>1, <2>2, <2>3 DEF Inv, TypeOK
<1>7. \A b \in Agents : \A c \in promised'[b] : c <= commits
  BY <1>3, <1>5 DEF Inv, Committed
<1>8. PullCoversAnnouncement'
  BY <1>1, <1>4 DEF Inv, PullCoversAnnouncement
<1> QED  BY <1>1, <1>6, <1>7, <1>8, AgentKeeps DEF Inv, Committed

\* Everything announced to the agent is committed, so the read covers it.
LEMMA ReadPoliciesInv ==
  ASSUME Inv, NEW a \in Agents, NEW s \in Servers, ReadPolicies(a, s), UNCHANGED route PROVE Inv'
<1> DEFINE new == [at |-> s, policies |-> commits]
<1>1. /\ phase' = [phase EXCEPT ![a] = "reading"] /\ call' = [call EXCEPT ![a] = new]
      /\ UNCHANGED <<commits, handlers, stamps, inbox, heard, mode, ear, log, version, held,
                    promised, reported, route, faults>>
  BY DEF ReadPolicies, redis, server
<1>2. new \in [at : Servers, policies : 0 .. MaxChanges] /\ new.policies = commits /\ commits \in Nat
  BY DEF Inv, TypeOK
<1> HIDE DEF new
<1>3. /\ call'[a] = new /\ \A b \in Agents : b # a => call'[b] = call[b] /\ phase'[b] = phase[b]
  BY <1>1 DEF Inv, TypeOK
<1>4. TypeOK'
  BY <1>1, <1>2 DEF Inv, TypeOK
<1>5. \A b \in Agents : call'[b].policies <= commits
  BY <1>2, <1>3 DEF Inv, Committed
<1>6. PullCoversAnnouncement'
  <2>1. promised[a] \subseteq 1 .. commits
    <3>1. promised[a] \subseteq 1 .. MaxChanges /\ \A c \in promised[a] : c <= commits
      BY DEF Inv, TypeOK, Committed
    <3> QED  BY <3>1, <1>2
  <2> QED  BY <1>1, <1>2, <1>3, <2>1 DEF Inv, PullCoversAnnouncement
<1> QED  BY <1>1, <1>4, <1>5, <1>6, AgentKeeps DEF Inv, Committed

LEMMA AnswerInv == ASSUME Inv, NEW a \in Agents, Answer(a), UNCHANGED route PROVE Inv'
<1>1. /\ phase[a] = "reading" /\ phase' = [phase EXCEPT ![a] = "idle"]
      /\ version' = [version EXCEPT ![a] = BusVersion(call[a].at)]
      /\ held' = [held EXCEPT ![a] = call[a].policies]
      /\ UNCHANGED <<commits, handlers, stamps, inbox, heard, mode, ear, log, call, promised,
                    reported, route, faults>>
  BY DEF Answer, redis, server
<1>2. BusVersion(call[a].at) \in 0 .. MaxChanges
  <2>1. call[a].at \in Servers
    BY DEF Inv, TypeOK
  <2>2. \A s \in Servers : Len(log[s]) \in 0 .. MaxChanges
    <3>1. ASSUME NEW s \in Servers PROVE Len(log[s]) <= commits
      <4>0. /\ commits \in Nat /\ Len(log[s]) \in Nat /\ Len(stamps) \in Nat
            /\ Cardinality(Uncounted) \in Nat /\ Cardinality(At(s)) \in Nat
            /\ Len(stamps) + Cardinality(Uncounted) <= commits
        <5>1. commits \in Nat
          BY DEF Inv, TypeOK
        <5> QED  BY <5>1, Handlers, Elements DEF Inv, Counted
      <4>1. CASE mode[s] = "bridged"
        <5>1. Len(log[s]) <= Len(stamps)
          BY <4>1 DEF Inv, BusPrefixes
        <5> QED  BY <4>0, <5>1
      <4>2. CASE mode[s] = "inprocess"
        <5>1. Len(log[s]) + Cardinality(At(s)) <= commits
          BY <4>2 DEF Inv, Counted
        <5> QED  BY <4>0, <5>1
      <4>3. CASE mode[s] = "down"
        BY <4>3 DEF Inv, BusPrefixes, TypeOK
      <4> QED  BY <4>1, <4>2, <4>3 DEF Inv, TypeOK
    <3>2. commits \in 0 .. MaxChanges
      BY DEF Inv, TypeOK
    <3> QED  BY <3>1, <3>2, Elements DEF Inv
  <2> QED  BY <2>1, <2>2 DEF BusVersion
<1>3. TypeOK'
  BY <1>1, <1>2 DEF Inv, TypeOK
<1>4. \A b \in Agents : held'[b] <= commits
  BY <1>1 DEF Inv, TypeOK, Committed
<1>5. PullCoversAnnouncement'
  BY <1>1 DEF Inv, TypeOK, PullCoversAnnouncement
<1> QED  BY <1>1, <1>3, <1>4, <1>5, AgentKeeps DEF Inv, Committed

LEMMA PullFailsInv == ASSUME Inv, NEW a \in Agents, PullFails(a), UNCHANGED route PROVE Inv'
<1>1. /\ phase' = [phase EXCEPT ![a] = "idle"] /\ faults < MaxFaults /\ faults' = faults + 1
      /\ UNCHANGED <<commits, handlers, stamps, inbox, heard, mode, ear, log, call, version,
                    held, promised, reported, route>>
  BY DEF PullFails, Fault, redis, server
<1>2. TypeOK'
  <2>1. faults' \in 0 .. MaxFaults
    BY <1>1, SyncAssumption DEF SyncAssumption, Inv, TypeOK
  <2>2. phase' \in [Agents -> {"idle", "pulling", "reading", "hung"}]
    BY <1>1 DEF Inv, TypeOK
  <2> QED  BY <1>1, <2>1, <2>2 DEF Inv, TypeOK
<1>3. PullCoversAnnouncement'
  BY <1>1 DEF Inv, TypeOK, PullCoversAnnouncement
<1> QED  BY <1>1, <1>2, <1>3, AgentKeeps DEF Inv, Committed

LEMMA AgentRestartsInv == ASSUME Inv, NEW a \in Agents, AgentRestarts(a), UNCHANGED route PROVE Inv'
<1>1. /\ phase' = [phase EXCEPT ![a] = "idle"] /\ version' = [version EXCEPT ![a] = 0]
      /\ held' = [held EXCEPT ![a] = 0] /\ promised' = [promised EXCEPT ![a] = {}]
      /\ faults < MaxFaults /\ faults' = faults + 1
      /\ UNCHANGED <<commits, handlers, stamps, inbox, heard, mode, ear, log, call, reported, route>>
  BY DEF AgentRestarts, Fault, redis, server
<1>2. TypeOK'
  <2>1. faults' \in 0 .. MaxFaults /\ 0 \in 0 .. MaxChanges
    BY <1>1, SyncAssumption DEF SyncAssumption, Inv, TypeOK
  <2>2. /\ phase' \in [Agents -> {"idle", "pulling", "reading", "hung"}]
        /\ promised' \in [Agents -> SUBSET (1 .. MaxChanges)]
    BY <1>1 DEF Inv, TypeOK
  <2>3. version' \in [Agents -> 0 .. MaxChanges] /\ held' \in [Agents -> 0 .. MaxChanges]
    BY <1>1, <2>1 DEF Inv, TypeOK
  <2> QED  BY <1>1, <2>1, <2>2, <2>3 DEF Inv, TypeOK
<1>3. commits \in Nat
  BY DEF Inv, TypeOK
<1>4. \A b \in Agents : (\A c \in promised'[b] : c <= commits) /\ held'[b] <= commits
  BY <1>1, <1>3 DEF Inv, TypeOK, Committed
<1>5. PullCoversAnnouncement'
  BY <1>1 DEF Inv, TypeOK, PullCoversAnnouncement
<1> QED  BY <1>1, <1>2, <1>4, <1>5, AgentKeeps DEF Inv, Committed

-------------------------------------------------------------------------------
(* The theorems.                                                           *)

LEMMA StutterInv == ASSUME Inv, UNCHANGED vars PROVE Inv'
<1>1. UNCHANGED <<commits, handlers, stamps, inbox, heard, mode, ear, log, phase, call, version,
                  held, promised, reported, route, faults>>
  BY DEF vars, redis, server, agent
<1>2. TypeOK'
  BY <1>1 DEF Inv, TypeOK
<1>3. Counted'
  BY <1>1, CountedKept DEF Inv, Counted
<1>4. Committed' /\ BusPrefixes'
  BY <1>1 DEF Inv, Committed, BusPrefixes
<1>5. Heard' /\ PullCoversAnnouncement'
  BY <1>1 DEF Inv, Heard, PullCoversAnnouncement
<1> QED  BY <1>2, <1>3, <1>4, <1>5 DEF Inv

LEMMA StepInv == Inv /\ [Next]_vars => Inv'
<1> SUFFICES ASSUME Inv, [Next]_vars PROVE Inv'
  OBVIOUS
<1>1. CASE UNCHANGED vars
  BY <1>1, StutterInv
<1>2. ASSUME Step, UNCHANGED route PROVE Inv'
  <2>1. ASSUME NEW s \in Servers, Serve(s) \/ Commit(s) PROVE Inv'
    BY <1>2, <2>1, StartInv, SubscribeInv, RelayInv, CommitInv DEF Serve
  <2>2. ASSUME NEW h \in handlers, Handle(h) \/ PublishFails(h) PROVE Inv'
    BY <1>2, <2>2, PublishInProcessInv, CountInv, PublishInv, PublishFailsInv DEF Handle
  <2>3. ASSUME NEW s \in Servers, StartWithoutRedis(s) \/ ListenerDies(s) \/ Crash(s) PROVE Inv'
    BY <1>2, <2>3, StartWithoutRedisInv, ListenerDiesInv, CrashInv
  <2>4. ASSUME NEW a \in Agents, Sync(a) \/ PullFails(a) \/ AgentRestarts(a) PROVE Inv'
    <3>1. CASE Sync(a)
      <4>1. ASSUME NEW s \in route[a], Heartbeat(a, s) \/ ReadPolicies(a, s) PROVE Inv'
        <5>1. s \in Servers
          BY DEF Inv, TypeOK
        <5> QED  BY <1>2, <4>1, <5>1, HeartbeatInv, ReadPoliciesInv
      <4> QED  BY <1>2, <3>1, <4>1, AnswerInv DEF Sync
    <3> QED  BY <1>2, <2>4, <3>1, PullFailsInv, AgentRestartsInv
  <2> QED  BY <1>2, <2>1, <2>2, <2>3, <2>4 DEF Step
<1> QED  BY <1>1, <1>2 DEF Next

\* The invariant of every behaviour, from which the theorems follow.
LEMMA Invariance == Spec => []Inv
BY InitInv, StepInv, PTL DEF Spec

\* No state component ever leaves its type; in particular Redis and every bus count
\* each committed change at most once.
THEOREM TypeCorrect == Spec => []TypeOK
<1>1. Inv => TypeOK
  BY DEF Inv
<1> QED  BY <1>1, Invariance, PTL

\* GetPolicies after an announcement returns every change announced
\* (publish_policy_event after the commit, grpc_server.py GetPolicies).
THEOREM PullsCover == Spec => []PullCoversAnnouncement
<1>1. Inv => PullCoversAnnouncement
  BY DEF Inv
<1> QED  BY <1>1, Invariance, PTL

\* A bus that has relayed what it received has every version published to it
\* (RedisEventBridge._relay_loop with PolicyEventBus.relay).
THEOREM GapsHeal == Spec => []NextEventHealsGap
<1>1. Inv => NextEventHealsGap
  <2> SUFFICES ASSUME Inv, NEW s \in Servers, inbox[s] = <<>> PROVE heard[s] <= BusVersion(s)
    BY DEF NextEventHealsGap
  <2>1. ~ \E i \in 1 .. Len(inbox[s]) : TRUE
    OBVIOUS
  <2> QED  BY <2>1 DEF Inv, Heard, BusVersion
<1> QED  BY <1>1, Invariance, PTL

\* Only a relayed event changes the version of a bus that stays bridged, and it
\* appends to it, in whatever order the events arrive.
THEOREM BusesGrow == Spec => BusNeverGoesBack
<1>1. Inv /\ [Next]_vars => [\A s \in Servers : mode[s] = "bridged" /\ mode'[s] = "bridged"
                                                => IsPrefix(log[s], log'[s])]_vars
  <2> SUFFICES ASSUME Inv, Next, NEW s \in Servers, mode[s] = "bridged", mode'[s] = "bridged"
               PROVE  IsPrefix(log[s], log'[s])
    OBVIOUS
  <2>1. log[s] \in Seq(1 .. MaxChanges) /\ log \in [Servers -> Seq(1 .. MaxChanges)]
    BY DEF Inv, TypeOK
  <2>2. CASE log'[s] = log[s]
    <3>1. Len(log[s]) \in Nat /\ log[s] = SubSeq(log[s], 1, Len(log[s]))
      BY <2>1, SubSeqFull
    <3> QED  BY <2>2, <3>1 DEF IsPrefix
  <2>3. CASE Relay(s)
    <3>0. Len(log[s]) \in Nat /\ Len(log[s]) <= Len(log'[s])
      BY <2>1, <2>3, RelayFacts DEF Max2
    <3>1. /\ log'[s] \in Seq(1 .. MaxChanges)
          /\ \A i \in 1 .. Len(log[s]) : log'[s][i] = log[s][i]
      BY <2>1, <2>3, <3>0, RelayFacts DEF Inv, BusPrefixes
    <3>2. SubSeq(log'[s], 1, Len(log[s])) = log[s]
      <4> DEFINE old == log[s]
                 new == SubSeq(log'[s], 1, Len(log[s]))
      <4>1. /\ new \in Seq(1 .. MaxChanges)
            /\ Len(new) = IF 1 <= Len(old) THEN Len(old) - 1 + 1 ELSE 0
            /\ \A i \in 1 .. Len(old) - 1 + 1 : new[i] = log'[s][1 + i - 1]
        <5>1. \A i \in 1 .. Len(old) : log'[s][i] \in 1 .. MaxChanges
          BY <2>1, <3>1, Element
        <5>2. 1 \in Int /\ Len(old) \in Int
          BY <3>0
        <5> QED  BY <5>1, <5>2, SubSeqProperties
      <4>2. Len(old) \in Nat /\ old \in Seq(1 .. MaxChanges) /\ \A i \in 1 .. Len(old) : log'[s][i] = old[i]
        BY <2>1, <3>0, <3>1
      <4> HIDE DEF old, new
      <4>3. Len(new) = Len(old) /\ \A i \in 1 .. Len(old) : new[i] = old[i]
        BY <4>1, <4>2
      <4>4. new = old
        BY <4>1, <4>2, <4>3, SeqEqual
      <4> QED  BY <4>4 DEF old, new
    <3>3. SubSeq(log[s], 1, Len(log[s])) = log[s]
      BY <2>1, SubSeqFull
    <3> QED  BY <3>0, <3>2, <3>3 DEF IsPrefix
  <2>4. log'[s] = log[s] \/ Relay(s)
    <3> USE DEF server
    <3>1. ASSUME NEW t \in Servers, Serve(t) \/ Commit(t)
          PROVE  log'[s] = log[s] \/ Relay(s)
      BY <3>1, <2>1 DEF Serve, Start, Subscribe, Relay, Commit
    <3>2. ASSUME NEW h \in handlers, Handle(h) \/ PublishFails(h) PROVE log'[s] = log[s]
      BY <3>2, <2>1 DEF Handle, PublishInProcess, Count, Publish, PublishFails
    <3>3. ASSUME NEW t \in Servers, StartWithoutRedis(t) \/ ListenerDies(t) \/ Crash(t)
          PROVE  log'[s] = log[s]
      <4>1. mode \in [Servers -> {"down", "bridged", "inprocess"}]
        BY DEF Inv, TypeOK
      <4> QED  BY <3>3, <2>1, <4>1 DEF StartWithoutRedis, ListenerDies, Crash
    <3>4. ASSUME NEW a \in Agents, Sync(a) \/ PullFails(a) \/ AgentRestarts(a)
          PROVE  log'[s] = log[s]
      BY <3>4 DEF Sync, Heartbeat, ReadPolicies, Answer, PullFails, AgentRestarts
    <3> QED  BY <3>1, <3>2, <3>3, <3>4 DEF Next, Step
  <2> QED  BY <2>2, <2>3, <2>4
<1> QED  BY <1>1, Invariance, PTL DEF Spec, BusNeverGoesBack
===============================================================================
