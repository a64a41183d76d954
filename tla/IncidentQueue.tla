---------------------------- MODULE IncidentQueue ----------------------------
(***************************************************************************)
(* The agent's persistent incident queue (agent/src/incident_queue.cpp): a *)
(* SQLite table guarded by one mutex, with de-duplication by hash, a size  *)
(* limit kept by evicting the oldest rows, and a Peek/Remove protocol for  *)
(* an uploader.                                                            *)
(*                                                                         *)
(* Every public method holds mutex_ from its first to its last statement,  *)
(* so a method is one action, with one exception: Enqueue commits its      *)
(* eviction and its insertion separately, and a crash can fall in between. *)
(* That gap is the state pending # NoIncident, in which nobody else can    *)
(* take the mutex.  Any write may be refused by the storage (full disk,    *)
(* I/O error); the code mostly carries on, and so do the actions.          *)
(*                                                                         *)
(* Abstracted: the payload columns (a key stands for the seven hashed      *)
(* fields), the statistics counters, and calls that change nothing (a      *)
(* duplicate, a closed queue).                                             *)
(***************************************************************************)
EXTENDS Integers, FiniteSets

CONSTANTS
  Keys,        \* values of ComputeHash: one per distinguishable incident
  Times,       \* values of queued_at, seconds since the epoch
  MaxSize,     \* max_size_: rows kept, 0 for no limit
  Limits,      \* limits that Drain and Peek are called with
  NoIncident,  \* no Enqueue stands between its eviction and its insertion
  MaxId,       \* bound: rows ever inserted
  MaxRetry,    \* bound: retry_count of a row
  MaxFaults    \* bound: writes the storage refuses

ASSUME QueueAssumption ==
  /\ Times \subseteq Int
  /\ MaxSize \in Nat
  /\ Limits \subseteq Nat
  /\ MaxId \in Nat /\ MaxRetry \in Nat /\ MaxFaults \in Nat
  /\ NoIncident \notin [key : Keys, at : Times]

VARIABLES
  rows,       \* the incident_queue table
  lastId,     \* the AUTOINCREMENT counter that SQLite keeps with the table
  open,       \* db_ # nullptr
  pending,    \* the incident an Enqueue has made room for but not inserted
  peeked,     \* rows an uploader copied with Peek, to be removed later
  faults,     \* writes refused so far
  missed,     \* history: evictions among them
  released,   \* history: rowids handed to or deleted for the caller
  discarded   \* history: rowids lost to eviction

queueVars == <<rows, lastId, open, pending, peeked, faults, missed,
          released, discarded>>
consumer == <<peeked, released>>

Incident == [key : Keys, at : Times]
Row == [id : 1 .. MaxId, key : Keys, at : Times, retry : 0 .. MaxRetry]

IdsOf(S) == {r.id : r \in S}
KeysOf(S) == {r.key : r \in S}

(***************************************************************************)
(* ORDER BY queued_at ASC LIMIT n: any n rows with nothing older left out. *)
(* SQL leaves the order of equal times open.                               *)
(***************************************************************************)
Oldest(n) ==
  {S \in SUBSET rows :
     /\ Cardinality(S) = IF n < Cardinality(rows) THEN n ELSE Cardinality(rows)
     /\ \A s \in S, r \in rows \ S : s.at <= r.at}

QueueTypeOK ==
  /\ rows \subseteq Row
  /\ lastId \in 0 .. MaxId
  /\ open \in BOOLEAN
  /\ pending \in Incident \cup {NoIncident}
  /\ peeked \subseteq Row
  /\ faults \in 0 .. MaxFaults
  /\ missed \in 0 .. MaxFaults
  /\ released \subseteq 1 .. MaxId
  /\ discarded \subseteq 1 .. MaxId

QueueInit ==
  /\ rows = {} /\ lastId = 0
  /\ open = FALSE
  /\ pending = NoIncident
  /\ peeked = {}
  /\ faults = 0 /\ missed = 0
  /\ released = {} /\ discarded = {}

-----------------------------------------------------------------------------
\* The mutex is free and the database is open: a method gets past its guard.
Ready == open /\ pending = NoIncident

\* The storage refuses one more write.
Refused == faults < MaxFaults /\ faults' = faults + 1

\* Mutant of InsertRow: rowids without AUTOINCREMENT (largest present + 1).
InsertRowReusingIds(i) ==
  LET used == IdsOf(rows) \cup {0}
      top == CHOOSE m \in used : \A u \in used : u <= m
  IN IF i.key \in KeysOf(rows)
       THEN UNCHANGED <<rows, lastId>>
       ELSE /\ lastId < MaxId
            /\ lastId' = top + 1
            /\ rows' = rows \cup {[id |-> top + 1, key |-> i.key,
                                   at |-> i.at, retry |-> 0]}

\* Mutant of InsertRow: queued_at stays 0 when the caller gives none.
InsertRowWithoutTime(i) ==
  /\ i.key \notin KeysOf(rows)
  /\ lastId < MaxId
  /\ lastId' = lastId + 1
  /\ rows' = rows \cup {[id |-> lastId + 1, key |-> i.key,
                         at |-> 0, retry |-> 0]}

\* The INSERT statement: a fresh rowid, unless the UNIQUE hash is taken.
InsertRow(i) ==
  IF i.key \in KeysOf(rows)
    THEN UNCHANGED <<rows, lastId>>
    ELSE /\ lastId < MaxId
         /\ lastId' = lastId + 1
         /\ rows' = rows \cup {[id |-> lastId + 1, key |-> i.key,
                                at |-> i.at, retry |-> 0]}

\* The DELETE statements of Remove and RemoveBatch: ids already gone match
\* nothing.
DeleteRows(ids) ==
  /\ rows' = {r \in rows : r.id \notin ids}
  /\ released' = released \cup (ids \cap IdsOf(rows))

AtCapacity == MaxSize > 0 /\ Cardinality(rows) >= MaxSize
IsDuplicate(key) == key \in KeysOf(rows)

\* Mutant of EvictOldest: makes no room for the incident to come.
EvictOneTooFew ==
  \E S \in Oldest(Cardinality(rows) - MaxSize) :
    /\ rows' = rows \ S
    /\ discarded' = discarded \cup IdsOf(S)

\* Mutant of EvictOldest: ORDER BY queued_at DESC.
EvictNewest ==
  \E s \in rows :
    /\ \A r \in rows : r.at <= s.at
    /\ rows' = rows \ {s}
    /\ discarded' = discarded \cup {s.id}

\* EvictOldest(count - max_size_ + 1), committed on its own.
EvictOldest ==
  \E S \in Oldest(Cardinality(rows) - MaxSize + 1) :
    /\ rows' = rows \ S
    /\ discarded' = discarded \cup IdsOf(S)

Start ==
  /\ ~open
  /\ open' = TRUE
  /\ UNCHANGED <<rows, lastId, pending, faults, missed, discarded, consumer>>

Stop ==
  /\ Ready
  /\ open' = FALSE
  /\ UNCHANGED <<rows, lastId, pending, faults, missed, discarded, consumer>>

\* The process dies; the next one finds the committed table.
QueueCrash ==
  /\ open' = FALSE
  /\ pending' = NoIncident
  /\ peeked' = {}
  /\ UNCHANGED <<rows, lastId, faults, missed, released, discarded>>

-----------------------------------------------------------------------------
\* Enqueue below the limit: one INSERT.
EnqueueDirect(i) ==
  /\ Ready
  /\ ~IsDuplicate(i.key)
  /\ ~AtCapacity
  /\ \/ InsertRow(i) /\ UNCHANGED faults
     \/ Refused /\ UNCHANGED <<rows, lastId>>
  /\ UNCHANGED <<open, pending, missed, discarded, consumer>>

\* Mutant of EnqueueEvict: eviction before the duplicate check.
EnqueueEvictUnchecked(i) ==
  /\ Ready
  /\ AtCapacity
  /\ pending' = i
  /\ EvictOldest
  /\ UNCHANGED <<lastId, open, faults, missed, consumer>>

\* Enqueue at the limit, first commit: make room.  A refused eviction is
\* logged and the insertion goes ahead.
EnqueueEvict(i) ==
  /\ Ready
  /\ ~IsDuplicate(i.key)
  /\ AtCapacity
  /\ pending' = i
  /\ \/ EvictOldest /\ UNCHANGED <<faults, missed>>
     \/ Refused /\ missed' = missed + 1 /\ UNCHANGED <<rows, discarded>>
  /\ UNCHANGED <<lastId, open, consumer>>

\* Enqueue at the limit, second commit: insert.
EnqueueInsert ==
  /\ pending # NoIncident
  /\ pending' = NoIncident
  /\ \/ InsertRow(pending) /\ UNCHANGED faults
     \/ Refused /\ UNCHANGED <<rows, lastId>>
  /\ UNCHANGED <<open, missed, discarded, consumer>>

\* Mutant of Drain: deletes by time, up to the newest row it returns.
DrainByTime(n) ==
  /\ Ready
  /\ \E S \in Oldest(n) :
       /\ released' = released \cup IdsOf(S)
       /\ rows' = {r \in rows : \A s \in S : r.at > s.at}
  /\ UNCHANGED <<lastId, open, pending, peeked, faults, missed, discarded>>

\* Drain returns the oldest rows and deletes them in one transaction, whose
\* outcome it does not look at.
Drain(n) ==
  /\ Ready
  /\ \E S \in Oldest(n) :
       /\ released' = released \cup IdsOf(S)
       /\ \/ rows' = rows \ S /\ UNCHANGED faults
          \/ Refused /\ UNCHANGED rows
  /\ UNCHANGED <<lastId, open, pending, peeked, missed, discarded>>

Peek(n) ==
  /\ Ready
  /\ peeked' \in Oldest(n)
  /\ UNCHANGED <<rows, lastId, open, pending, faults, missed, released,
                 discarded>>

\* The uploader confirms one row, or a batch, of its copy.
Remove(s) ==
  /\ Ready
  /\ \/ DeleteRows({s.id}) /\ UNCHANGED faults
     \/ Refused /\ UNCHANGED <<rows, released>>
  /\ UNCHANGED <<lastId, open, pending, peeked, missed, discarded>>

RemoveBatch(S) ==
  /\ Ready
  /\ \/ DeleteRows(IdsOf(S)) /\ UNCHANGED faults
     \/ Refused /\ UNCHANGED <<rows, released>>
  /\ UNCHANGED <<lastId, open, pending, peeked, missed, discarded>>

IncrementRetry(s) ==
  /\ Ready
  /\ \A r \in rows : r.id = s.id => r.retry < MaxRetry
  /\ rows' = {IF r.id = s.id THEN [r EXCEPT !.retry = @ + 1] ELSE r
                : r \in rows}
  /\ UNCHANGED <<lastId, open, pending, peeked, faults, missed, released,
                 discarded>>

Clear ==
  /\ Ready
  /\ \/ DeleteRows(IdsOf(rows)) /\ UNCHANGED faults
     \/ Refused /\ UNCHANGED <<rows, released>>
  /\ UNCHANGED <<lastId, open, pending, peeked, missed, discarded>>

QueueNext ==
  \/ Start \/ Stop \/ QueueCrash
  \/ \E i \in Incident : EnqueueDirect(i) \/ EnqueueEvict(i)
  \/ EnqueueInsert
  \/ \E n \in Limits : Drain(n) \/ Peek(n)
  \/ \E s \in peeked : Remove(s) \/ IncrementRetry(s)
  \/ \E S \in SUBSET peeked : RemoveBatch(S)
  \/ Clear

QueueSpec == QueueInit /\ [][QueueNext]_queueVars

-----------------------------------------------------------------------------
\* The queue outgrows max_size_ by at most one row for each eviction that the
\* storage refused (Enqueue goes on to insert after a failed EvictOldest), and
\* while an Enqueue is between its two commits it has left a slot free.
SizeBound ==
  MaxSize > 0 =>
    Cardinality(rows) + (IF pending = NoIncident THEN 0 ELSE 1)
      <= MaxSize + missed

\* A rowid that an uploader remembers from Peek never comes to name another
\* incident, whatever was evicted, drained, cleared or inserted since: a late
\* Remove or IncrementRetry cannot hit the wrong row.
SnapshotNamesSameIncident ==
  \A s \in peeked, r \in rows : s.id = r.id => s.key = r.key /\ s.at = r.at

\* Every incident that was ever inserted is still in the table, was handed to
\* or deleted for the caller, or was evicted: restarts, crashes and refused
\* writes lose none.
NothingVanishes ==
  1 .. lastId \subseteq IdsOf(rows) \cup released \cup discarded

\* Unless the process dies or the storage refuses the insertion, an Enqueue
\* that evicted rows also inserts its incident: a duplicate report never costs
\* a queued incident (the duplicate check comes before the eviction).
EvictionPaysForInsert ==
  [][pending # NoIncident /\ pending' = NoIncident
       => \/ ~open'
          \/ faults' = faults + 1
          \/ \E r \in rows' \ rows : r.key = pending.key /\ r.at = pending.at]_queueVars

\* A row without its retry counter.
View(r) == [id |-> r.id, key |-> r.key, at |-> r.at]
Views(R) == {View(r) : r \in R}

Abstraction ==
  INSTANCE DurableQueue WITH
    held <- Views(rows),
    handed <- released,
    dropped <- discarded,
    Capacity <- MaxSize

\* The queue is a durable store of incidents (module DurableQueue): it accepts
\* under fresh ids, gives up only the oldest and only for lack of room, and
\* hands over only what it holds.
ImplementsDurableQueue == Abstraction!Spec
==============================================================================
