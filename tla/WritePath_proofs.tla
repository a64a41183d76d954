-------------------------- MODULE WritePath_proofs --------------------------
(***************************************************************************)
(* Proofs about what happens to a write on its way through the agent: that *)
(* it gets the verdict it was decided for and a denial is recorded         *)
(* (WriteVerdict), and that an incident that was stored is not lost before *)
(* somebody takes it (IncidentQueue).                                      *)
(*                                                                         *)
(* For the queue one inductive invariant carries all of the checked ones;  *)
(* it adds that rowids are used once (Fresh, UniqueIds), that an Enqueue   *)
(* past its eviction still has no duplicate in the table (Pending), and    *)
(* that the table is finite, so that its size can be counted.              *)
(***************************************************************************)
EXTENDS IncidentQueue, WriteVerdict, FiniteSetTheorems, SequenceTheorems, TLAPS

\* No id in use anywhere lies beyond the counter.
Fresh ==
  IdsOf(rows) \cup IdsOf(peeked) \cup released \cup discarded \subseteq 1 .. lastId

\* Rowid is a key of the table.
UniqueIds == \A r, s \in rows : r.id = s.id => r = s

\* While an Enqueue is between its commits the database is open and the
\* duplicate check it made still holds.
Pending == pending # NoIncident => open /\ ~IsDuplicate(pending.key)

QueueInv ==
  /\ QueueTypeOK
  /\ missed <= faults
  /\ Fresh
  /\ UniqueIds
  /\ Pending
  /\ SnapshotNamesSameIncident
  /\ NothingVanishes

-----------------------------------------------------------------------------
\* What Oldest returns are rows.
LEMMA OldestAreRows == \A n : \A S \in Oldest(n) : S \subseteq rows
  BY DEF Oldest

\* Deleting rows whose ids are accounted for keeps the invariant; every
\* deletion of the queue is of this form.
LEMMA DeletionStep ==
  ASSUME QueueInv,
         rows' \subseteq rows,
         released \subseteq released', released' \subseteq released \cup IdsOf(rows),
         discarded \subseteq discarded', discarded' \subseteq discarded \cup IdsOf(rows),
         IdsOf(rows) \subseteq IdsOf(rows)' \cup released' \cup discarded',
         UNCHANGED <<lastId, open, peeked>>,
         faults' \in 0 .. MaxFaults, missed' \in 0 .. faults',
         \/ UNCHANGED pending
         \/ pending' \in Incident /\ open /\ ~IsDuplicate(pending'.key)
  PROVE  QueueInv'
<1>1. IdsOf(rows) \subseteq 1 .. MaxId
  BY DEF QueueInv, QueueTypeOK, Row, IdsOf
<1>2. KeysOf(rows)' \subseteq KeysOf(rows) /\ IdsOf(rows)' \subseteq IdsOf(rows)
  BY DEF KeysOf, IdsOf
<1>3. QueueTypeOK' /\ missed' <= faults'
  BY <1>1, QueueAssumption DEF QueueInv, QueueTypeOK, QueueAssumption
<1>4. Fresh'
  BY <1>2 DEF QueueInv, Fresh, IdsOf
<1>5. UniqueIds' /\ SnapshotNamesSameIncident'
  BY DEF QueueInv, UniqueIds, SnapshotNamesSameIncident
<1>6. Pending'
  BY <1>2 DEF QueueInv, Pending, IsDuplicate
<1>7. NothingVanishes'
  BY DEF QueueInv, NothingVanishes
<1> QED  BY <1>3, <1>4, <1>5, <1>6, <1>7 DEF QueueInv

\* InsertRow of an incident keeps the invariant, whatever becomes of pending
\* as long as no Enqueue is left half done.
LEMMA InsertionStep ==
  ASSUME QueueInv, NEW i \in Incident, InsertRow(i), pending' = NoIncident,
         faults' \in faults .. MaxFaults,
         UNCHANGED <<open, peeked, missed, released, discarded>>
  PROVE  QueueInv'
<1>1. CASE i.key \in KeysOf(rows)
  <2>1. UNCHANGED <<rows, lastId>>
    BY <1>1 DEF InsertRow
  <2> QED
    BY <2>1 DEF QueueInv, QueueTypeOK, Fresh, UniqueIds, Pending, IsDuplicate, KeysOf,
                IdsOf, SnapshotNamesSameIncident, NothingVanishes
<1>2. CASE i.key \notin KeysOf(rows)
  <2> DEFINE new == [id |-> lastId + 1, key |-> i.key, at |-> i.at, retry |-> 0]
  <2>1. rows' = rows \cup {new} /\ lastId < MaxId /\ lastId' = lastId + 1
    BY <1>2 DEF InsertRow
  <2>2. lastId \in Nat /\ MaxId \in Nat /\ MaxRetry \in Nat
    BY QueueAssumption DEF QueueInv, QueueTypeOK
  <2>3. new \in Row /\ new.id = lastId + 1
    BY <2>1, <2>2 DEF Row, Incident
  <2> HIDE DEF new
  <2>4. \A r \in rows \cup peeked : r.id \in 1 .. lastId
    BY DEF QueueInv, Fresh, IdsOf
  <2>5. QueueTypeOK' /\ missed' <= faults'
    BY <2>1, <2>2, <2>3 DEF QueueInv, QueueTypeOK
  <2>6. IdsOf(rows)' = IdsOf(rows) \cup {lastId + 1}
    BY <2>1, <2>3 DEF IdsOf
  <2>7. Fresh'
    BY <2>1, <2>2, <2>6 DEF QueueInv, Fresh, IdsOf
  <2>8. UniqueIds'
    BY <2>1, <2>2, <2>3, <2>4 DEF QueueInv, UniqueIds
  <2>9. SnapshotNamesSameIncident'
    BY <2>1, <2>2, <2>3, <2>4 DEF QueueInv, SnapshotNamesSameIncident
  <2>10. NothingVanishes'
    <3>1. 1 .. lastId + 1 = (1 .. lastId) \cup {lastId + 1}
      BY <2>2
    <3> QED  BY <2>1, <2>6, <3>1 DEF QueueInv, NothingVanishes
  <2> QED  BY <2>5, <2>7, <2>8, <2>9, <2>10 DEF QueueInv, Pending
<1> QED  BY <1>1, <1>2

\* Clearing the pending Enqueue, or dying, keeps the invariant.
LEMMA AbandonStep ==
  ASSUME QueueInv, pending' = NoIncident, open' \in BOOLEAN,
         peeked' \subseteq peeked \cup rows,
         faults' \in faults .. MaxFaults,
         UNCHANGED <<rows, lastId, missed, released, discarded>>
  PROVE  QueueInv'
<1>1. peeked' \subseteq Row
  BY DEF QueueInv, QueueTypeOK
<1>2. QueueTypeOK' /\ missed' <= faults'
  BY <1>1 DEF QueueInv, QueueTypeOK
<1>3. Fresh' /\ NothingVanishes'
  BY DEF QueueInv, Fresh, NothingVanishes, IdsOf
<1>4. UniqueIds' /\ SnapshotNamesSameIncident'
  BY DEF QueueInv, UniqueIds, SnapshotNamesSameIncident
<1> QED  BY <1>2, <1>3, <1>4 DEF QueueInv, Pending

\* A refused write is counted within its bound.
LEMMA RefusedIsBounded ==
  ASSUME QueueInv, Refused  PROVE faults' = faults + 1 /\ faults' \in faults .. MaxFaults
  BY QueueAssumption DEF QueueInv, QueueTypeOK, Refused, QueueAssumption

\* The invariant holds of the empty, closed queue of a first start.
LEMMA InitInv == QueueInit => QueueInv
<1> SUFFICES ASSUME QueueInit PROVE QueueInv  OBVIOUS
<1>1. 0 \in 0 .. MaxId /\ 0 \in 0 .. MaxFaults
  BY QueueAssumption DEF QueueAssumption
<1>2. QueueTypeOK
  BY <1>1, Zenon DEF QueueInit, QueueTypeOK
<1>3. missed <= faults
  BY DEF QueueInit
<1>4. Fresh /\ NothingVanishes
  BY DEF QueueInit, Fresh, NothingVanishes, IdsOf
<1> QED
  BY <1>2, <1>3, <1>4 DEF QueueInit, QueueInv, UniqueIds, Pending, SnapshotNamesSameIncident

\* One step per operation of the queue.
LEMMA NextInv == QueueInv /\ [QueueNext]_queueVars => QueueInv'
<1> SUFFICES ASSUME QueueInv, [QueueNext]_queueVars PROVE QueueInv'  OBVIOUS
<1> USE RefusedIsBounded
<1>0. /\ faults \in faults .. MaxFaults /\ missed \in 0 .. faults
      /\ open \in BOOLEAN
  BY QueueAssumption DEF QueueInv, QueueTypeOK, QueueAssumption
<1>1. CASE UNCHANGED queueVars
  BY <1>1 DEF queueVars, QueueInv, QueueTypeOK, Fresh, UniqueIds, Pending, IsDuplicate,
              KeysOf, IdsOf, SnapshotNamesSameIncident, NothingVanishes
<1>2. CASE Start
  <2>1. pending' = NoIncident
    BY <1>2 DEF Start, QueueInv, Pending
  <2> QED  BY <1>0, <1>2, <2>1, AbandonStep DEF Start, consumer
<1>3. CASE Stop
  BY <1>0, <1>3, AbandonStep DEF Stop, Ready, consumer
<1>4. CASE QueueCrash
  BY <1>0, <1>4, AbandonStep DEF QueueCrash
<1>5. ASSUME NEW i \in Incident, EnqueueDirect(i)  PROVE QueueInv'
  <2>1. CASE InsertRow(i) /\ UNCHANGED faults
    BY <1>0, <1>5, <2>1, InsertionStep DEF EnqueueDirect, Ready, consumer
  <2>2. CASE Refused /\ UNCHANGED <<rows, lastId>>
    BY <1>0, <1>5, <2>2, AbandonStep DEF EnqueueDirect, Ready, consumer
  <2> QED  BY <1>5, <2>1, <2>2 DEF EnqueueDirect
<1>6. ASSUME NEW i \in Incident, EnqueueEvict(i)  PROVE QueueInv'
  <2>1. /\ open /\ ~IsDuplicate(i.key) /\ pending' = i
        /\ UNCHANGED <<lastId, open, peeked, released>>
    BY <1>6 DEF EnqueueEvict, Ready, consumer
  <2>2. CASE EvictOldest /\ UNCHANGED <<faults, missed>>
    <3>1. PICK S : /\ S \subseteq rows /\ rows' = rows \ S
                   /\ discarded' = discarded \cup IdsOf(S)
      BY <2>2, OldestAreRows DEF EvictOldest
    <3>2. IdsOf(S) \subseteq IdsOf(rows) /\ IdsOf(rows) \subseteq IdsOf(rows)' \cup IdsOf(S)
      BY <3>1 DEF IdsOf
    <3>3. faults' \in 0 .. MaxFaults /\ missed' \in 0 .. faults'
      BY <1>0, <2>2
    <3> QED  BY <2>1, <3>1, <3>2, <3>3, DeletionStep
  <2>3. CASE Refused /\ missed' = missed + 1 /\ UNCHANGED <<rows, discarded>>
    <3>1. missed' \in 0 .. faults'
      BY <1>0, <2>3
    <3>2. IdsOf(rows)' = IdsOf(rows)
      BY <2>3 DEF IdsOf
    <3>3. faults' \in 0 .. MaxFaults
      BY <1>0, <2>3
    <3> QED  BY <2>1, <2>3, <3>1, <3>2, <3>3, DeletionStep
  <2> QED  BY <1>6, <2>2, <2>3 DEF EnqueueEvict
<1>7. CASE EnqueueInsert
  <2>1. pending \in Incident
    BY <1>7 DEF EnqueueInsert, QueueInv, QueueTypeOK
  <2>2. CASE InsertRow(pending) /\ UNCHANGED faults
    BY <1>0, <1>7, <2>1, <2>2, InsertionStep DEF EnqueueInsert, consumer
  <2>3. CASE Refused /\ UNCHANGED <<rows, lastId>>
    BY <1>0, <1>7, <2>3, AbandonStep DEF EnqueueInsert, consumer
  <2> QED  BY <1>7, <2>2, <2>3 DEF EnqueueInsert
<1>8. ASSUME NEW n \in Limits, Drain(n)  PROVE QueueInv'
  <2>1. PICK S : /\ S \subseteq rows /\ released' = released \cup IdsOf(S)
                 /\ \/ rows' = rows \ S /\ UNCHANGED faults
                    \/ Refused /\ UNCHANGED rows
    BY <1>8, OldestAreRows DEF Drain
  <2>2. IdsOf(S) \subseteq IdsOf(rows) /\ IdsOf(rows) \subseteq IdsOf(rows)' \cup IdsOf(S)
    BY <2>1 DEF IdsOf
  <2>3. faults' \in 0 .. MaxFaults /\ missed' \in 0 .. faults'
    BY <1>0, <1>8, <2>1 DEF Drain
  <2> QED  BY <1>8, <2>1, <2>2, <2>3, DeletionStep DEF Drain
<1>9. ASSUME NEW n \in Limits, Peek(n)  PROVE QueueInv'
  <2>1. peeked' \subseteq rows
    BY <1>9, OldestAreRows DEF Peek
  <2>2. QueueTypeOK' /\ Fresh' /\ NothingVanishes'
    BY <1>9, <2>1 DEF Peek, QueueInv, QueueTypeOK, Fresh, NothingVanishes, IdsOf
  <2>3. UniqueIds' /\ SnapshotNamesSameIncident'
    BY <1>9, <2>1 DEF Peek, QueueInv, UniqueIds, SnapshotNamesSameIncident
  <2> QED  BY <1>9, <2>2, <2>3 DEF Peek, QueueInv, Ready, Pending
<1>10. ASSUME NEW ids,
              \/ DeleteRows(ids) /\ UNCHANGED faults
              \/ Refused /\ UNCHANGED <<rows, released>>,
              UNCHANGED <<lastId, open, pending, peeked, missed, discarded>>
       PROVE  QueueInv'
  <2>1. faults' \in 0 .. MaxFaults /\ missed' \in 0 .. faults'
    BY <1>0, <1>10
  <2>2. CASE DeleteRows(ids)
    <3>1. IdsOf(rows) \subseteq IdsOf(rows)' \cup released'
      BY <2>2 DEF DeleteRows, IdsOf
    <3> QED  BY <1>10, <2>1, <2>2, <3>1, DeletionStep DEF DeleteRows
  <2>3. CASE UNCHANGED <<rows, released>>
    <3>1. IdsOf(rows)' = IdsOf(rows)
      BY <2>3 DEF IdsOf
    <3> QED  BY <1>10, <2>1, <2>3, <3>1, DeletionStep
  <2> QED  BY <1>10, <2>2, <2>3
<1>11. ASSUME NEW s \in peeked, Remove(s)  PROVE QueueInv'
  BY <1>10, <1>11 DEF Remove
<1>12. ASSUME NEW S \in SUBSET peeked, RemoveBatch(S)  PROVE QueueInv'
  BY <1>10, <1>12 DEF RemoveBatch
<1>13. CASE Clear
  BY <1>10, <1>13 DEF Clear
<1>14. ASSUME NEW s \in peeked, IncrementRetry(s)  PROVE QueueInv'
  <2> DEFINE bump(r) == IF r.id = s.id THEN [r EXCEPT !.retry = @ + 1] ELSE r
  <2>1. \A r \in rows : bump(r) \in Row /\ bump(r).id = r.id
                        /\ bump(r).key = r.key /\ bump(r).at = r.at
    BY <1>14, QueueAssumption
       DEF IncrementRetry, QueueInv, QueueTypeOK, Row, QueueAssumption
  <2>2. rows' = {bump(r) : r \in rows}
    BY <1>14 DEF IncrementRetry
  <2> HIDE DEF bump
  <2>3. IdsOf(rows)' = IdsOf(rows) /\ KeysOf(rows)' = KeysOf(rows)
    BY <2>1, <2>2 DEF IdsOf, KeysOf
  <2>4. rows' \subseteq Row
    BY <2>1, <2>2
  <2>5. QueueTypeOK' /\ Fresh' /\ NothingVanishes'
    BY <1>14, <2>3, <2>4
       DEF IncrementRetry, QueueInv, QueueTypeOK, Fresh, NothingVanishes, IdsOf
  <2>6. UniqueIds' /\ SnapshotNamesSameIncident'
    BY <1>14, <2>1, <2>2
       DEF IncrementRetry, QueueInv, UniqueIds, SnapshotNamesSameIncident
  <2> QED  BY <1>14, <2>3, <2>5, <2>6 DEF IncrementRetry, QueueInv, Ready, Pending
<1> QED
  BY <1>1, <1>2, <1>3, <1>4, <1>5, <1>6, <1>7, <1>8, <1>9, <1>11, <1>12,
     <1>13, <1>14 DEF QueueNext

\* The inductive invariant, whatever the operations, crashes and refusals.
THEOREM QueueInvariance == QueueSpec => []QueueInv
  BY InitInv, NextInv, PTL DEF QueueSpec

\* Every variable stays within its type: in particular the recorded rowids
\* stay those of the AUTOINCREMENT counter.
THEOREM TypeCorrect == QueueSpec => []QueueTypeOK
  BY QueueInvariance, PTL DEF QueueInv

\* A rowid copied by Peek names the same incident as long as the copy lives.
THEOREM SnapshotsStayValid == QueueSpec => []SnapshotNamesSameIncident
  BY QueueInvariance, PTL DEF QueueInv

\* Every incident ever inserted is stored, handed over or evicted.
THEOREM NoLoss == QueueSpec => []NothingVanishes
  BY QueueInvariance, PTL DEF QueueInv

\* Enqueue never evicts without inserting, short of a crash or a storage
\* error.
THEOREM EvictionPays == QueueSpec => EvictionPaysForInsert
<1>1. ASSUME QueueInv, [QueueNext]_queueVars, pending # NoIncident, pending' = NoIncident
      PROVE  \/ ~open'
             \/ faults' = faults + 1
             \/ \E r \in rows' \ rows : r.key = pending.key /\ r.at = pending.at
  <2>1. EnqueueInsert \/ QueueCrash
    BY <1>1 DEF QueueNext, queueVars, Start, Stop, EnqueueDirect, EnqueueEvict, Drain,
                Peek, Remove, IncrementRetry, RemoveBatch, Clear, Ready, QueueInv,
                Pending
  <2>2. pending.key \notin KeysOf(rows)
    BY <1>1 DEF QueueInv, Pending, IsDuplicate
  <2>3. CASE EnqueueInsert /\ InsertRow(pending)
    <3> DEFINE new == [id |-> lastId + 1, key |-> pending.key,
                       at |-> pending.at, retry |-> 0]
    <3>1. rows' = rows \cup {new}
      BY <2>2, <2>3 DEF InsertRow
    <3>2. new \notin rows
      BY <2>2 DEF KeysOf
    <3> QED  BY <3>1, <3>2
  <2> QED  BY <2>1, <2>3 DEF EnqueueInsert, QueueCrash, Refused
<1> QED  BY <1>1, QueueInvariance, PTL DEF QueueSpec, EvictionPaysForInsert

-----------------------------------------------------------------------------
(***************************************************************************)
(* The size of the table.  The invariant adds finiteness, without which    *)
(* Cardinality says nothing.                                               *)
(***************************************************************************)
SizeInv == IsFiniteSet(rows) /\ SizeBound

\* Evicting to make room leaves exactly one slot free.
LEMMA EvictionSize ==
  ASSUME QueueInv, IsFiniteSet(rows), AtCapacity, EvictOldest
  PROVE  IsFiniteSet(rows') /\ Cardinality(rows') = MaxSize - 1
<1> DEFINE n == Cardinality(rows)
<1>1. n \in Nat /\ MaxSize \in Nat /\ MaxSize > 0 /\ n >= MaxSize
  BY QueueAssumption, FS_CardinalityType DEF AtCapacity, QueueAssumption
<1>2. PICK S \in SUBSET rows : /\ rows' = rows \ S
                               /\ Cardinality(S) = n - MaxSize + 1
  BY <1>1 DEF EvictOldest, Oldest
<1>3. /\ IsFiniteSet(rows \ S)
      /\ Cardinality(rows \ S) = n - Cardinality(rows \cap S)
  BY FS_Difference
<1>4. rows \cap S = S
  BY <1>2
<1> QED  BY <1>1, <1>2, <1>3, <1>4

\* An insertion adds at most one row.
LEMMA InsertionSize ==
  ASSUME NEW i, IsFiniteSet(rows), InsertRow(i)
  PROVE  IsFiniteSet(rows') /\ Cardinality(rows') <= Cardinality(rows) + 1
<1>1. Cardinality(rows) \in Nat
  BY FS_CardinalityType
<1>2. CASE i.key \in KeysOf(rows)
  BY <1>1, <1>2 DEF InsertRow
<1>3. CASE i.key \notin KeysOf(rows)
  <2>1. PICK new : rows' = rows \cup {new}
    BY <1>3 DEF InsertRow
  <2> QED  BY <1>1, <2>1, FS_AddElement
<1> QED  BY <1>2, <1>3

\* Rewriting the retry counters adds no row.
LEMMA RetrySize ==
  ASSUME IsFiniteSet(rows), NEW s, IncrementRetry(s)
  PROVE  IsFiniteSet(rows') /\ Cardinality(rows') <= Cardinality(rows)
<1> DEFINE f == [r \in rows |->
                   IF r.id = s.id THEN [r EXCEPT !.retry = @ + 1] ELSE r]
<1>1. rows' = {f[r] : r \in rows}
  BY DEF IncrementRetry
<1>2. f \in Surjection(rows, rows')
  BY <1>1 DEF Surjection
<1> QED  BY <1>2, FS_Surjection

\* The table stays finite and within its bound.
THEOREM SizeInvariance == QueueSpec => []SizeInv
<1>1. QueueInit => SizeInv
  BY FS_EmptySet, QueueAssumption DEF QueueInit, SizeInv, SizeBound, QueueAssumption
<1>2. ASSUME QueueInv, SizeInv, [QueueNext]_queueVars  PROVE SizeInv'
  <2>1. /\ Cardinality(rows) \in Nat /\ IsFiniteSet(rows)
        /\ MaxSize \in Nat /\ missed \in Nat
    BY <1>2, QueueAssumption, FS_CardinalityType
       DEF SizeInv, QueueAssumption, QueueInv, QueueTypeOK
  <2>2. ASSUME rows' \subseteq rows, UNCHANGED missed,
               pending' = pending \/ pending' = NoIncident
        PROVE  SizeInv'
    <3>1. /\ IsFiniteSet(rows') /\ Cardinality(rows') <= Cardinality(rows)
          /\ Cardinality(rows') \in Nat
      BY <2>1, <2>2, FS_Subset, FS_CardinalityType
    <3> QED  BY <1>2, <2>1, <2>2, <3>1 DEF SizeInv, SizeBound
  <2>3. ASSUME NEW i \in Incident, EnqueueDirect(i)  PROVE SizeInv'
    <3>1. pending' = NoIncident /\ UNCHANGED missed /\ ~AtCapacity
      BY <2>3 DEF EnqueueDirect, Ready
    <3>2. CASE InsertRow(i)
      <4>1. /\ IsFiniteSet(rows') /\ Cardinality(rows') \in Nat
            /\ Cardinality(rows') <= Cardinality(rows) + 1
        BY <2>1, <3>2, InsertionSize, FS_CardinalityType
      <4> QED  BY <2>1, <3>1, <4>1 DEF SizeInv, SizeBound, AtCapacity
    <3> QED  BY <2>2, <2>3, <3>1, <3>2 DEF EnqueueDirect
  <2>4. ASSUME NEW i \in Incident, EnqueueEvict(i)  PROVE SizeInv'
    <3>1. pending' = i /\ pending = NoIncident /\ AtCapacity
      BY <2>4 DEF EnqueueEvict, Ready
    <3>2. CASE EvictOldest /\ UNCHANGED missed
      <4>1. IsFiniteSet(rows') /\ Cardinality(rows') = MaxSize - 1
        BY <1>2, <2>1, <3>1, <3>2, EvictionSize
      <4> QED  BY <2>1, <3>2, <4>1 DEF SizeInv, SizeBound
    <3>3. CASE UNCHANGED rows /\ missed' = missed + 1
      BY <1>2, <2>1, <3>1, <3>3 DEF SizeInv, SizeBound
    <3> QED  BY <2>4, <3>2, <3>3 DEF EnqueueEvict
  <2>5. CASE EnqueueInsert
    <3>1. pending # NoIncident /\ pending' = NoIncident /\ UNCHANGED missed
      BY <2>5 DEF EnqueueInsert
    <3>2. CASE InsertRow(pending)
      <4>1. /\ IsFiniteSet(rows') /\ Cardinality(rows') \in Nat
            /\ Cardinality(rows') <= Cardinality(rows) + 1
        BY <2>1, <3>2, InsertionSize, FS_CardinalityType
      <4> QED  BY <1>2, <2>1, <3>1, <4>1 DEF SizeInv, SizeBound
    <3> QED  BY <2>2, <2>5, <3>1, <3>2 DEF EnqueueInsert
  <2>6. ASSUME NEW n \in Limits, Drain(n) \/ Peek(n)  PROVE SizeInv'
    BY <2>2, <2>6 DEF Drain, Peek
  <2>7. ASSUME NEW s \in peeked, Remove(s)  PROVE SizeInv'
    BY <2>2, <2>7 DEF Remove, DeleteRows
  <2>8. ASSUME NEW S \in SUBSET peeked, RemoveBatch(S)  PROVE SizeInv'
    BY <2>2, <2>8 DEF RemoveBatch, DeleteRows
  <2>9. ASSUME NEW s \in peeked, IncrementRetry(s)  PROVE SizeInv'
    <3>1. /\ IsFiniteSet(rows') /\ Cardinality(rows') <= Cardinality(rows)
          /\ Cardinality(rows') \in Nat
      BY <2>1, <2>9, RetrySize, FS_CardinalityType
    <3> QED  BY <1>2, <2>1, <2>9, <3>1 DEF SizeInv, SizeBound, IncrementRetry
  <2>10. CASE Start \/ Stop \/ QueueCrash \/ Clear \/ UNCHANGED queueVars
    BY <2>2, <2>10 DEF Start, Stop, QueueCrash, Clear, DeleteRows, queueVars
  <2> QED
    BY <1>2, <2>3, <2>4, <2>5, <2>6, <2>7, <2>8, <2>9, <2>10 DEF QueueNext
<1> QED  BY <1>1, <1>2, QueueInvariance, PTL DEF QueueSpec

\* The queue holds at most MaxSize rows plus one per eviction refused.
THEOREM SizeIsBounded == QueueSpec => []SizeBound
  BY SizeInvariance, PTL DEF SizeInv

-----------------------------------------------------------------------------
(***************************************************************************)
(* The queue implements DurableQueue.  Since ids are unique, leaving the   *)
(* retry counters out gives as many views as there are rows.               *)
(***************************************************************************)
\* There are as many views as rows.
LEMMA ViewsSize ==
  ASSUME NEW R, IsFiniteSet(R), \A r, s \in R : r.id = s.id => r = s
  PROVE  Cardinality(Views(R)) = Cardinality(R)
<1> DEFINE f == [r \in R |-> View(r)]
<1>1. f \in Surjection(R, Views(R))
  BY DEF Surjection, Views
<1>2. \A r, s \in R : f[r] = f[s] => r = s
  BY DEF View
<1>3. f \in Injection(R, Views(R))
  BY <1>1, <1>2 DEF Injection, IsInjective, Surjection
<1> QED  BY <1>1, <1>3, FS_Surjection

\* Views of the present rows, and of the rows that a step removes or keeps.
LEMMA ViewsOfSubset ==
  ASSUME NEW R, NEW Q \in SUBSET R, \A r, s \in R : r.id = s.id => r = s
  PROVE  /\ Views(Q) \subseteq Views(R)
         /\ Views(R) \ Views(Q) = Views(R \ Q)
         /\ {h.id : h \in Views(R)} = IdsOf(R)
         /\ {h.key : h \in Views(R)} = KeysOf(R)
<1>1. \A r, s \in R : View(r) = View(s) => r = s
  BY DEF View
<1>2. \A r : View(r).id = r.id /\ View(r).key = r.key
  BY DEF View
<1> QED  BY <1>1, <1>2 DEF Views, IdsOf, KeysOf

\* Every deletion other than an eviction is a Hand of the abstract queue.
LEMMA HandStep ==
  ASSUME QueueInv, rows' \subseteq rows, UNCHANGED discarded,
         released \subseteq released', released' \subseteq released \cup IdsOf(rows),
         IdsOf(rows \ rows') \subseteq released'
  PROVE  Abstraction!Hand
<1>1. /\ Views(rows') \subseteq Views(rows)
      /\ Views(rows) \ Views(rows') = Views(rows \ rows')
      /\ {h.id : h \in Views(rows)} = IdsOf(rows)
  BY ViewsOfSubset DEF QueueInv, UniqueIds
<1>2. {h.id : h \in Views(rows \ rows')} = IdsOf(rows \ rows')
  BY ViewsOfSubset DEF QueueInv, UniqueIds
<1> QED
  BY <1>1, <1>2 DEF Abstraction!Hand, Abstraction!Ids

\* An insertion is an Accept, or nothing when the hash is taken.
LEMMA AcceptStep ==
  ASSUME QueueInv, NEW i \in Incident, InsertRow(i), UNCHANGED <<released, discarded>>
  PROVE  \/ Abstraction!Accept
         \/ UNCHANGED <<Views(rows), released, discarded>>
<1>1. CASE i.key \in KeysOf(rows)
  BY <1>1 DEF InsertRow, Views
<1>2. CASE i.key \notin KeysOf(rows)
  <2> DEFINE new == [id |-> lastId + 1, key |-> i.key, at |-> i.at, retry |-> 0]
  <2>1. rows' = rows \cup {new}
    BY <1>2 DEF InsertRow
  <2>2. /\ {h.id : h \in Views(rows)} = IdsOf(rows)
        /\ {h.key : h \in Views(rows)} = KeysOf(rows)
    BY ViewsOfSubset DEF QueueInv, UniqueIds
  <2>3. View(new).id = lastId + 1 /\ View(new).key = i.key
    BY DEF View
  <2>4. lastId + 1 \notin IdsOf(rows) \cup released \cup discarded
    BY DEF QueueInv, Fresh, QueueTypeOK
  <2>5. Views(rows') = Views(rows) \cup {View(new)}
    BY <2>1 DEF Views
  <2>6. View(new) \in Views(rows') \ Views(rows)
    BY <1>2, <2>2, <2>3, <2>5
  <2> HIDE DEF new
  <2> QED
    BY <1>2, <2>2, <2>3, <2>4, <2>5, <2>6
       DEF Abstraction!Accept, Abstraction!Ids
<1> QED  BY <1>1, <1>2

\* Making room is a Drop.
LEMMA DropStep ==
  ASSUME QueueInv, IsFiniteSet(rows), AtCapacity, EvictOldest, UNCHANGED released
  PROVE  Abstraction!Drop
<1>1. PICK S \in SUBSET rows : /\ rows' = rows \ S
                               /\ discarded' = discarded \cup IdsOf(S)
                               /\ \A s \in S, r \in rows \ S : s.at <= r.at
  BY DEF EvictOldest, Oldest
<1>2. IsFiniteSet(rows') /\ Cardinality(rows') = MaxSize - 1
  BY EvictionSize
<1>3. UniqueIds /\ UniqueIds'
  BY <1>1 DEF QueueInv, UniqueIds
<1>4. /\ Cardinality(Views(rows)) = Cardinality(rows)
      /\ Cardinality(Views(rows')) = MaxSize - 1
  BY <1>2, <1>3, ViewsSize DEF UniqueIds
<1>5. /\ Views(rows') \subseteq Views(rows)
      /\ Views(rows) \ Views(rows') = Views(S)
      /\ {h.id : h \in Views(S)} = IdsOf(S)
  <2>1. rows' \in SUBSET rows /\ rows \ rows' = S
    BY <1>1
  <2> QED  BY <1>3, <2>1, ViewsOfSubset DEF UniqueIds
<1>6. \A g \in Views(S), h \in Views(rows') : g.at <= h.at
  BY <1>1 DEF Views, View
<1>7. MaxSize > 0 /\ Cardinality(Views(rows)) >= MaxSize
  BY <1>4 DEF AtCapacity
<1>8. discarded' = discarded \cup {g.id : g \in Views(rows) \ Views(rows')}
  BY <1>1, <1>5
<1>9. \A g \in Views(rows) \ Views(rows'), h \in Views(rows') : g.at <= h.at
  BY <1>5, <1>6
<1>10. \A T : Abstraction!Cardinality(T) = Cardinality(T)
  BY DEF Abstraction!Cardinality, Cardinality
<1> QED
  BY <1>4, <1>5, <1>7, <1>8, <1>9, <1>10 DEF Abstraction!Drop

abstractVars == <<Views(rows), released, discarded>>

\* A deletion that may be refused is a Hand or nothing.
LEMMA TakeStep ==
  ASSUME QueueInv, NEW ids, UNCHANGED discarded,
         DeleteRows(ids) \/ UNCHANGED <<rows, released>>
  PROVE  Abstraction!Hand \/ UNCHANGED abstractVars
<1>1. CASE DeleteRows(ids)
  <2>1. IdsOf(rows \ rows') \subseteq released'
    BY <1>1 DEF DeleteRows, IdsOf
  <2> QED  BY <1>1, <2>1, HandStep DEF DeleteRows
<1>2. CASE UNCHANGED <<rows, released>>
  BY <1>2 DEF abstractVars, Views
<1> QED  BY <1>1, <1>2

\* Whatever the operations, crashes and refused writes, the queue behaves as a
\* DurableQueue of the same capacity.
THEOREM Refinement == QueueSpec => ImplementsDurableQueue
<1>1. QueueInit => Abstraction!Init
  BY DEF QueueInit, Abstraction!Init, Views
<1>2. ASSUME QueueInv, SizeInv, [QueueNext]_queueVars
      PROVE  Abstraction!Next \/ UNCHANGED abstractVars
  <2> USE DEF Abstraction!Next
  <2>1. CASE UNCHANGED <<rows, released, discarded>>
    BY <2>1 DEF abstractVars, Views
  <2>2. ASSUME NEW i \in Incident, EnqueueDirect(i)
        PROVE  Abstraction!Next \/ UNCHANGED abstractVars
    <3>1. UNCHANGED <<released, discarded>>
      BY <2>2 DEF EnqueueDirect, consumer
    <3> QED
      BY <1>2, <2>1, <2>2, <3>1, AcceptStep DEF EnqueueDirect, abstractVars
  <2>3. ASSUME NEW i \in Incident, EnqueueEvict(i)
        PROVE  Abstraction!Next \/ UNCHANGED abstractVars
    <3>1. AtCapacity /\ UNCHANGED released
      BY <2>3 DEF EnqueueEvict, consumer
    <3>2. CASE EvictOldest
      BY <1>2, <3>1, <3>2, DropStep DEF SizeInv
    <3> QED  BY <2>1, <2>3, <3>1, <3>2 DEF EnqueueEvict
  <2>4. CASE EnqueueInsert
    <3>1. pending \in Incident /\ UNCHANGED <<released, discarded>>
      BY <1>2, <2>4 DEF EnqueueInsert, QueueInv, QueueTypeOK, consumer
    <3> QED
      BY <1>2, <2>1, <2>4, <3>1, AcceptStep DEF EnqueueInsert, abstractVars
  <2>5. ASSUME NEW n \in Limits, Drain(n)
        PROVE  Abstraction!Next \/ UNCHANGED abstractVars
    <3>1. PICK S : /\ S \subseteq rows /\ released' = released \cup IdsOf(S)
                   /\ rows' = rows \ S \/ UNCHANGED rows
      BY <2>5, OldestAreRows DEF Drain
    <3>2. /\ IdsOf(S) \subseteq IdsOf(rows)
          /\ rows' \subseteq rows /\ rows \ rows' \subseteq S
      BY <3>1 DEF IdsOf
    <3>3. IdsOf(rows \ rows') \subseteq IdsOf(S)
      BY <3>2 DEF IdsOf
    <3> QED  BY <1>2, <2>5, <3>1, <3>2, <3>3, HandStep DEF Drain
  <2>6. ASSUME NEW s \in peeked, Remove(s)
        PROVE  Abstraction!Next \/ UNCHANGED abstractVars
    BY <1>2, <2>6, TakeStep DEF Remove
  <2>7. ASSUME NEW S \in SUBSET peeked, RemoveBatch(S)
        PROVE  Abstraction!Next \/ UNCHANGED abstractVars
    BY <1>2, <2>7, TakeStep DEF RemoveBatch
  <2>8. CASE Clear
    BY <1>2, <2>8, TakeStep DEF Clear
  <2>9. ASSUME NEW s \in peeked, IncrementRetry(s)
        PROVE  UNCHANGED abstractVars
    <3> DEFINE bump(r) == IF r.id = s.id THEN [r EXCEPT !.retry = @ + 1] ELSE r
    <3>1. \A r \in rows : View(bump(r)) = View(r)
      BY <1>2 DEF QueueInv, QueueTypeOK, Row, View
    <3>2. rows' = {bump(r) : r \in rows} /\ UNCHANGED <<released, discarded>>
      BY <2>9 DEF IncrementRetry
    <3> HIDE DEF bump
    <3>3. Views(rows') = Views(rows)
      BY <3>1, <3>2 DEF Views
    <3> QED  BY <3>2, <3>3 DEF abstractVars
  <2>10. CASE Start \/ Stop \/ QueueCrash
    BY <2>1, <2>10 DEF Start, Stop, QueueCrash, consumer
  <2>11. ASSUME NEW n \in Limits, Peek(n)
         PROVE  UNCHANGED abstractVars
    BY <2>1, <2>11 DEF Peek, abstractVars, Views
  <2>12. CASE UNCHANGED queueVars
    BY <2>1, <2>12 DEF queueVars
  <2> QED
    BY <1>2, <2>2, <2>3, <2>4, <2>5, <2>6, <2>7, <2>8, <2>9, <2>10, <2>11,
       <2>12 DEF QueueNext
<1>3. ASSUME QueueInv, SizeInv, [QueueNext]_queueVars
      PROVE  [Abstraction!Next]_<<Views(rows), released, discarded>>
  BY <1>2, <1>3 DEF abstractVars
<1> QED
  BY <1>1, <1>3, QueueInvariance, SizeInvariance, PTL
     DEF QueueSpec, Abstraction!Spec, ImplementsDurableQueue

-----------------------------------------------------------------------------
-----------------------------------------------------------------------------
(* The invariant.                                                          *)

\* TypeOK without the length of the inbox, which follows from Capacity and Requests.
Typed ==
  /\ state \in [Writes -> {"new", "waiting", "allowed", "denied"}]
  /\ cause \in [Writes -> {"none", "bypass", "answer", "timeout", "closed"}]
  /\ age \in [Writes -> 0 .. DriverTimeout]
  /\ connected \in BOOLEAN /\ inbox \in Seq(Writes)
  /\ listener \in {"off", "get", "reply"} \cup InCallback
  /\ current \in Writes \cup {NoWrite} /\ verdict \in Verdicts /\ clock \in Nat
  /\ dialog \in {"none", "open", "prompt", "closed"}
  /\ running \in BOOLEAN /\ callback \in BOOLEAN /\ queueOpen \in BOOLEAN
  /\ service \in {"down", "starting", "up", "clearing", "closing", "joining",
                  "queue", "stopped"}
  /\ starts \in 0 .. MaxStarts
  /\ decision \in [Writes -> Verdicts \cup {"none"}]
  /\ posted \subseteq Writes /\ incidents \subseteq Writes /\ lost \subseteq Writes
  /\ dangling \in BOOLEAN

Capacity == IsFiniteSet(Waiting) /\ Cardinality(Waiting) <= MaxInFlight

\* The inbox holds different requests, which wait and are not decided.
Requests ==
  /\ \A i, j \in DOMAIN inbox : inbox[i] = inbox[j] => i = j
  /\ \A i \in DOMAIN inbox :
       state[inbox[i]] = "waiting" /\ decision[inbox[i]] = "none" /\ inbox[i] # current
  /\ current = NoWrite <=> listener \in {"off", "get"}

\* The verdict about to be replied is that of the current request; no other request
\* with a decision still waits.
Decisions ==
  /\ \A w \in Writes :
       /\ state[w] = "new" => decision[w] = "none" /\ cause[w] = "none" /\ w # current
       /\ state[w] = "waiting" =>
            /\ cause[w] = "none"
            /\ decision[w] # "none" => w = current /\ listener = "reply"
       /\ w = current => cause[w] # "answer"
       /\ w = current /\ listener \in InCallback => decision[w] = "none"
       /\ w = current /\ listener = "evaluate" => verdict = "allow"
       /\ w = current /\ listener = "reply" =>
            verdict = IF decision[w] = "none" THEN "allow" ELSE decision[w]
       /\ decision[w] # "none" => w \in posted \cup incidents \cup lost
  /\ AnsweredAsRecorded

\* A stop that has cleared the callback finds the listener outside of it.
Lifecycle ==
  /\ callback => service = "up"
  /\ service \notin {"up", "clearing"} => listener \notin InCallback
  /\ service \in {"down", "queue", "stopped"} => listener = "off"

\* The timers of the server call and the dialog; an open dialog ends at its own.
Timers ==
  /\ listener = "ttd" => clock <= TtdTime
  /\ Asking => /\ dialog # "none" /\ clock <= WaitLimit
               /\ dialog = "open" => clock <= DialogTime

Inv == Typed /\ Capacity /\ Requests /\ Decisions /\ Lifecycle /\ Timers

-----------------------------------------------------------------------------
LEMMA VerdictLimits ==
  /\ NoWrite \notin Writes
  /\ DialogTime \in Nat \ {0} /\ Grace \in Nat \ {0} /\ TtdTime \in 0 .. DialogTime
  /\ DriverTimeout \in Nat /\ MaxInFlight \in Nat /\ MaxStarts \in Nat
  /\ WaitLimit = DialogTime + Grace /\ WaitLimit \in Nat
BY VerdictAssumption DEF WaitLimit

\* What no state of Waiting exceeds stays within it when no request is added.
LEMMA FewerWait ==
  ASSUME Capacity, Waiting' \subseteq Waiting
  PROVE  Capacity'
BY FS_Subset, FS_CardinalityType, VerdictLimits DEF Capacity

LEMMA Init_Inv == Init => Inv
<1> SUFFICES ASSUME Init PROVE Inv
  OBVIOUS
<1>1. Typed
  <2>1. age \in [Writes -> 0 .. DriverTimeout] /\ starts \in 0 .. MaxStarts /\ inbox \in Seq(Writes)
    BY VerdictLimits DEF Init
  <2> QED  BY <2>1 DEF Init, Typed, Verdicts
<1>2. Capacity
  <2>1. Waiting = {}
    BY DEF Init, Waiting
  <2> QED  BY <2>1, FS_EmptySet, VerdictLimits DEF Capacity
<1>3. Requests /\ Lifecycle /\ Timers
  BY DEF Init, Requests, Lifecycle, Timers, InCallback, Asking
<1>4. Decisions
  BY VerdictLimits DEF Init, Decisions, AnsweredAsRecorded, InCallback
<1> QED  BY <1>1, <1>2, <1>3, <1>4 DEF Inv
-----------------------------------------------------------------------------
(* Steps that leave the requests and what is recorded of them alone.       *)

LEMMA SameRequests ==
  ASSUME Inv, UNCHANGED <<state, inbox, decision, current>>,
         listener' \in {"off", "get"} <=> listener \in {"off", "get"}
  PROVE  Capacity' /\ Requests'
<1>1. Waiting' = Waiting
  BY DEF Waiting
<1> QED  BY <1>1, FewerWait DEF Inv, Requests

\* The listener, in its callback or on its way out of it without a violation, and the user.
LEMMA DeciderInv ==
  ASSUME Inv,
         \/ EvaluateClean \/ EvaluateByServer \/ EvaluateByUser
         \/ User \/ DialogTimesOut \/ ListenerExits
  PROVE  Inv'
<1>1. UNCHANGED <<state, cause, age, connected, inbox, current, running, callback, queueOpen,
                  service, starts, posted, decision, incidents, lost, dangling>>
  BY DEF EvaluateClean, EvaluateByServer, EvaluateByUser, User, UserDecides, UserSubmitsNothing,
         UserDismissesPrompt, DialogTimesOut, ListenerExits, driver, control, history
<1>2. ASSUME \/ UserDecides \/ UserSubmitsNothing \/ UserDismissesPrompt \/ DialogTimesOut
      PROVE  Inv'
  <2>1. /\ listener = "dialog" /\ UNCHANGED <<listener, clock>>
        /\ verdict' \in Verdicts /\ dialog' \in {"open", "prompt", "closed"}
        /\ dialog' = "open" => clock < DialogTime
    BY <1>2 DEF UserDecides, UserSubmitsNothing, UserDismissesPrompt, DialogTimesOut, Asking,
               Verdicts, Inv, Typed
  <2>2. Typed'
    BY <1>1, <2>1 DEF Inv, Typed
  <2>3. Capacity' /\ Requests'
    BY <1>1, <2>1, SameRequests
  <2>4. Decisions'
    BY <1>1, <2>1 DEF Inv, Decisions, AnsweredAsRecorded
  <2>5. Lifecycle' /\ Timers'
    BY <1>1, <2>1, VerdictLimits DEF Inv, Typed, Lifecycle, Timers, Asking, WaitLimit
  <2> QED  BY <2>2, <2>3, <2>4, <2>5 DEF Inv
<1>3. CASE EvaluateClean \/ EvaluateByServer \/ EvaluateByUser
  <2>1. /\ listener = "evaluate" /\ listener' \in {"reply", "ttd", "dialog"} /\ UNCHANGED verdict
        /\ dialog' \in {"none", "open", "prompt", "closed"} /\ clock' \in Nat
        /\ listener' \in {"ttd", "dialog"} => clock' = 0
        /\ listener' = "dialog" => dialog' = "open"
    BY <1>3 DEF EvaluateClean, EvaluateByServer, EvaluateByUser, Inv, Typed
  <2>2. Typed'
    BY <1>1, <2>1 DEF Inv, Typed, InCallback
  <2>3. Capacity' /\ Requests'
    BY <1>1, <2>1, SameRequests
  <2>4. Decisions'
    BY <1>1, <2>1 DEF Inv, Decisions, AnsweredAsRecorded, InCallback
  <2>5. Lifecycle' /\ Timers'
    BY <1>1, <2>1, VerdictLimits DEF Inv, Typed, Lifecycle, Timers, Asking, InCallback
  <2> QED  BY <2>2, <2>3, <2>4, <2>5 DEF Inv
<1>4. CASE ListenerExits
  <2>1. listener = "get" /\ listener' = "off" /\ UNCHANGED <<verdict, clock, dialog>>
    BY <1>4 DEF ListenerExits
  <2>2. Typed'
    BY <1>1, <2>1 DEF Inv, Typed
  <2>3. Capacity' /\ Requests'
    BY <1>1, <2>1, SameRequests
  <2>4. Decisions'
    BY <1>1, <2>1 DEF Inv, Decisions, AnsweredAsRecorded, InCallback
  <2>5. Lifecycle' /\ Timers'
    BY <1>1, <2>1 DEF Inv, Lifecycle, Timers, Asking, InCallback
  <2> QED  BY <2>2, <2>3, <2>4, <2>5 DEF Inv
<1> QED  BY <1>2, <1>3, <1>4 DEF User

\* The service, except where it closes the port.
LEMMA ServiceInv ==
  ASSUME Inv, StartPipeline \/ StopPipeline \/ ClearCallback \/ JoinListener \/ StopQueue
  PROVE  Inv'
<1>1. UNCHANGED <<state, cause, age, connected, inbox, listener, current, verdict, clock, dialog,
                  posted, decision, incidents, lost, dangling, starts, running>>
  BY DEF StartPipeline, StopPipeline, ClearCallback, JoinListener, StopQueue, driver, worker, history
<1>2. Typed'
  <2>1. callback \in BOOLEAN /\ queueOpen \in BOOLEAN
    BY DEF Inv, Typed
  <2>2. service' \in {"up", "clearing", "closing", "queue", "stopped"}
    BY DEF StartPipeline, StopPipeline, ClearCallback, JoinListener, StopQueue, Go
  <2>3. callback' \in BOOLEAN
    BY <2>1 DEF StartPipeline, StopPipeline, ClearCallback, JoinListener, StopQueue
  <2>4. queueOpen' \in BOOLEAN
    BY <2>1 DEF StartPipeline, StopPipeline, ClearCallback, JoinListener, StopQueue
  <2> QED  BY <1>1, <2>2, <2>3, <2>4 DEF Inv, Typed
<1>3. Capacity' /\ Requests'
  BY <1>1, SameRequests
<1>4. Decisions' /\ Timers'
  BY <1>1 DEF Inv, Decisions, AnsweredAsRecorded, Timers, Asking
<1>5. Lifecycle'
  BY <1>1 DEF StartPipeline, StopPipeline, ClearCallback, JoinListener, StopQueue, Go, Inv, Lifecycle
<1> QED  BY <1>2, <1>3, <1>4, <1>5 DEF Inv

LEMMA StartInv == ASSUME Inv, StartDriverComm PROVE Inv'
<1>1. /\ UNCHANGED <<state, cause, age, inbox, current, verdict, clock, dialog, callback,
                     posted, decision, incidents, lost, dangling>>
      /\ service = "down" /\ service' = "starting" /\ listener' = "get"
      /\ starts < MaxStarts /\ starts' = starts + 1
      /\ queueOpen' = TRUE /\ connected' = TRUE /\ running' = TRUE
  BY DEF StartDriverComm, Go, history
<1>2. listener = "off"
  BY <1>1 DEF Inv, Lifecycle
<1>3. Typed'
  <2>1. starts' \in 0 .. MaxStarts
    BY <1>1, VerdictLimits DEF Inv, Typed
  <2> QED  BY <1>1, <2>1 DEF Inv, Typed
<1>4. Capacity' /\ Requests'
  BY <1>1, <1>2, SameRequests
<1>5. Decisions' /\ Timers' /\ Lifecycle'
  BY <1>1, <1>2 DEF Inv, Decisions, AnsweredAsRecorded, InCallback, Timers, Asking, Lifecycle
<1> QED  BY <1>3, <1>4, <1>5 DEF Inv

LEMMA TickInv == ASSUME Inv, Tick PROVE Inv'
<1>1. /\ UNCHANGED <<state, cause, connected, inbox, listener, current, verdict, dialog, running,
                     callback, queueOpen, service, starts, posted, decision, incidents, lost, dangling>>
      /\ age' = [w \in Writes |-> IF w \in Waiting THEN age[w] + 1 ELSE age[w]]
      /\ clock' = IF listener \in {"ttd", "dialog"} THEN clock + 1 ELSE clock
  BY DEF Tick, control, history
<1>2. /\ \A w \in Waiting : age[w] < DriverTimeout
      /\ listener = "ttd" => clock < TtdTime
      /\ Asking => clock < WaitLimit /\ ~(dialog = "open" /\ clock = DialogTime)
  BY DEF Tick, Idle
<1>3. age' \in [Writes -> 0 .. DriverTimeout]
  BY <1>1, <1>2, VerdictLimits DEF Inv, Typed
<1>4. Typed'
  BY <1>1, <1>3 DEF Inv, Typed
<1>5. Capacity' /\ Requests'
  BY <1>1, SameRequests
<1>6. Decisions' /\ Lifecycle'
  BY <1>1 DEF Inv, Decisions, AnsweredAsRecorded, Lifecycle
<1>7. Timers'
  BY <1>1, <1>2, VerdictLimits DEF Inv, Typed, Timers, Asking, WaitLimit
<1> QED  BY <1>4, <1>5, <1>6, <1>7 DEF Inv
-----------------------------------------------------------------------------
(* The driver.                                                             *)

LEMMA WriteInv == ASSUME Inv, NEW w \in Writes, Write(w) PROVE Inv'
<1>1. /\ state[w] = "new"
      /\ UNCHANGED <<age, connected, listener, current, verdict, clock, dialog, running, callback,
                     queueOpen, service, starts, posted, decision, incidents, lost, dangling>>
  BY DEF Write, worker, control, history
<1>2. decision[w] = "none" /\ w # current /\ cause[w] = "none"
  BY <1>1 DEF Inv, Decisions
<1>3. Lifecycle' /\ Timers'
  BY <1>1 DEF Inv, Lifecycle, Timers, Asking
<1>4. CASE connected
  <2>1. /\ Cardinality(Waiting) < MaxInFlight /\ state' = [state EXCEPT ![w] = "waiting"]
        /\ inbox' = Append(inbox, w) /\ UNCHANGED cause
    BY <1>4 DEF Write
  <2>2. /\ inbox' \in Seq(Writes) /\ DOMAIN inbox = 1 .. Len(inbox)
        /\ DOMAIN inbox' = 1 .. Len(inbox) + 1 /\ Len(inbox) \in Nat
        /\ \A i \in 1 .. Len(inbox) : inbox'[i] = inbox[i]
        /\ inbox'[Len(inbox) + 1] = w
    BY <2>1, AppendProperties DEF Inv, Typed
  <2>3. Typed'
    BY <1>1, <2>1, <2>2 DEF Inv, Typed
  <2>4. Capacity'
    <3>1. Waiting' = Waiting \cup {w} /\ w \notin Waiting
      BY <1>1, <2>1 DEF Waiting, Inv, Typed
    <3>2. IsFiniteSet(Waiting') /\ Cardinality(Waiting') = Cardinality(Waiting) + 1
      BY <3>1, FS_AddElement DEF Inv, Capacity
    <3> QED  BY <2>1, <3>2, FS_CardinalityType, VerdictLimits DEF Inv, Capacity
  <2>5. Requests'
    <3>1. \A i \in 1 .. Len(inbox) : inbox[i] \in Writes /\ inbox[i] # w
      <4>1. \A i \in 1 .. Len(inbox) : inbox[i] \in Writes
        BY <2>2 DEF Inv, Typed
      <4>2. \A i \in 1 .. Len(inbox) : state[inbox[i]] = "waiting"
        BY <2>2 DEF Inv, Requests
      <4> QED  BY <1>1, <4>1, <4>2
    <3>2. \A i, j \in DOMAIN inbox' : inbox'[i] = inbox'[j] => i = j
      BY <2>2, <3>1 DEF Inv, Requests
    <3>3. \A i \in DOMAIN inbox' :
            state'[inbox'[i]] = "waiting" /\ decision[inbox'[i]] = "none" /\ inbox'[i] # current
      BY <1>2, <2>1, <2>2, <3>1 DEF Inv, Typed, Requests
    <3> QED  BY <1>1, <3>2, <3>3 DEF Inv, Requests
  <2>6. Decisions'
    BY <1>1, <1>2, <2>1 DEF Inv, Typed, Decisions, AnsweredAsRecorded
  <2> QED  BY <1>3, <2>3, <2>4, <2>5, <2>6 DEF Inv
<1>5. CASE ~connected
  <2>1. /\ state' = [state EXCEPT ![w] = "allowed"] /\ cause' = [cause EXCEPT ![w] = "bypass"]
        /\ UNCHANGED inbox
    BY <1>5 DEF Write
  <2>2. Typed'
    BY <1>1, <2>1 DEF Inv, Typed
  <2>3. Capacity'
    <3>1. Waiting' \subseteq Waiting
      BY <2>1 DEF Waiting, Inv, Typed
    <3> QED  BY <3>1, FewerWait DEF Inv
  <2>4. Requests'
    BY <1>1, <2>1 DEF Inv, Typed, Requests
  <2>5. Decisions'
    BY <1>1, <1>2, <2>1 DEF Inv, Typed, Decisions, AnsweredAsRecorded
  <2> QED  BY <1>3, <2>2, <2>3, <2>4, <2>5 DEF Inv
<1> QED  BY <1>4, <1>5

\* A message taken out of the inbox leaves the others.
LEMMA WithdrawnMessage ==
  ASSUME inbox \in Seq(Writes), NEW i \in DOMAIN inbox, \A j, k \in DOMAIN inbox : inbox[j] = inbox[k] => j = k
  PROVE  /\ Withdrawn(i) \in Seq(Writes)
         /\ \A j, k \in DOMAIN Withdrawn(i) : Withdrawn(i)[j] = Withdrawn(i)[k] => j = k
         /\ \A j \in DOMAIN Withdrawn(i) : \E k \in DOMAIN inbox : k # i /\ Withdrawn(i)[j] = inbox[k]
<1> DEFINE n == Len(inbox)
           a == SubSeq(inbox, 1, i - 1)
           b == SubSeq(inbox, i + 1, n)
<1>1. n \in Nat /\ DOMAIN inbox = 1 .. n /\ i \in 1 .. n
  OBVIOUS
<1>2. a \in Seq(Writes) /\ Len(a) = i - 1 /\ \A j \in 1 .. i - 1 : a[j] = inbox[j]
  BY <1>1, SubSeqProperties
<1>3. b \in Seq(Writes) /\ Len(b) = n - i /\ \A j \in 1 .. n - i : b[j] = inbox[i + j]
  BY <1>1, SubSeqProperties
<1>4. Withdrawn(i) = a \o b
  BY DEF Withdrawn
<1> HIDE DEF a, b
<1>5. /\ Withdrawn(i) \in Seq(Writes) /\ DOMAIN Withdrawn(i) = 1 .. n - 1
      /\ \A j \in 1 .. n - 1 : Withdrawn(i)[j] = IF j <= i - 1 THEN a[j] ELSE b[j - (i - 1)]
  <2>1. /\ a \o b \in Seq(Writes) /\ Len(a \o b) = Len(a) + Len(b)
        /\ \A j \in 1 .. Len(a) + Len(b) : (a \o b)[j] = IF j <= Len(a) THEN a[j] ELSE b[j - Len(a)]
    BY <1>2, <1>3, ConcatProperties
  <2>2. Len(a) + Len(b) = n - 1 /\ DOMAIN (a \o b) = 1 .. Len(a \o b)
    BY <1>1, <1>2, <1>3, <2>1
  <2> QED  BY <1>2, <1>4, <2>1, <2>2
<1>6. \A j \in 1 .. n - 1 : Withdrawn(i)[j] = inbox[IF j < i THEN j ELSE j + 1]
  <2> SUFFICES ASSUME NEW j \in 1 .. n - 1
               PROVE  Withdrawn(i)[j] = inbox[IF j < i THEN j ELSE j + 1]
    OBVIOUS
  <2>1. CASE j < i
    <3>1. j \in 1 .. i - 1 /\ j <= i - 1
      BY <1>1, <2>1
    <3> QED  BY <1>2, <1>5, <2>1, <3>1
  <2>2. CASE ~(j < i)
    <3>1. j - (i - 1) \in 1 .. n - i /\ ~(j <= i - 1) /\ i + (j - (i - 1)) = j + 1
      BY <1>1, <2>2
    <3> QED  BY <1>3, <1>5, <2>2, <3>1
  <2> QED  BY <2>1, <2>2
<1> QED
  <2> SUFFICES ASSUME NEW j \in 1 .. n - 1, NEW k \in 1 .. n - 1
               PROVE  /\ Withdrawn(i)[j] = Withdrawn(i)[k] => j = k
                      /\ \E m \in DOMAIN inbox : m # i /\ Withdrawn(i)[j] = inbox[m]
    BY <1>5
  <2> DEFINE at(m) == IF m < i THEN m ELSE m + 1
  <2>1. at(j) \in 1 .. n /\ at(k) \in 1 .. n /\ at(j) # i /\ (at(j) = at(k) => j = k)
    BY <1>1
  <2>2. Withdrawn(i)[j] = inbox[at(j)] /\ Withdrawn(i)[k] = inbox[at(k)]
    BY <1>6
  <2> QED  BY <1>1, <2>1, <2>2

LEMMA TimeoutInv == ASSUME Inv, NEW w \in Writes, Timeout(w) PROVE Inv'
<1>1. /\ state[w] = "waiting" /\ state' = [state EXCEPT ![w] = "allowed"]
      /\ cause' = [cause EXCEPT ![w] = "timeout"]
      /\ UNCHANGED <<age, connected, listener, current, verdict, clock, dialog, running, callback,
                     queueOpen, service, starts, posted, decision, incidents, lost, dangling>>
  BY DEF Timeout, worker, control, history
<1>2. /\ inbox' \in Seq(Writes)
      /\ \A j, k \in DOMAIN inbox' : inbox'[j] = inbox'[k] => j = k
      /\ \A j \in DOMAIN inbox' : inbox'[j] # w /\ \E k \in DOMAIN inbox : inbox'[j] = inbox[k]
  <2>1. CASE \E i \in DOMAIN inbox : inbox[i] = w
    <3>1. PICK i \in DOMAIN inbox : inbox[i] = w /\ inbox' = Withdrawn(i)
      BY <2>1 DEF Timeout
    <3> QED  BY <3>1, WithdrawnMessage DEF Inv, Typed, Requests
  <2>2. CASE ~\E i \in DOMAIN inbox : inbox[i] = w
    BY <2>2 DEF Timeout, Inv, Typed, Requests
  <2> QED  BY <2>1, <2>2
<1>3. Typed'
  BY <1>1, <1>2 DEF Inv, Typed
<1>4. Capacity'
  <2>1. Waiting' \subseteq Waiting
    BY <1>1 DEF Waiting, Inv, Typed
  <2> QED  BY <2>1, FewerWait DEF Inv
<1>5. Requests'
  BY <1>1, <1>2 DEF Inv, Typed, Requests
<1>6. Decisions'
  BY <1>1 DEF Inv, Typed, Decisions, AnsweredAsRecorded
<1>7. Lifecycle' /\ Timers'
  BY <1>1 DEF Inv, Lifecycle, Timers, Asking
<1> QED  BY <1>3, <1>4, <1>5, <1>6, <1>7 DEF Inv

\* What closing the port does to the requests; incident work may be lost at the same time.
LEMMA PortCloses ==
  ASSUME Inv, ClosePort, current' \in {current, NoWrite}, UNCHANGED decision,
         current' = NoWrite <=> listener' \in {"off", "get"},
         current' # NoWrite => listener' = listener /\ verdict' = verdict,
         posted \cup incidents \cup lost \subseteq posted' \cup incidents' \cup lost'
  PROVE  /\ state' \in [Writes -> {"new", "waiting", "allowed", "denied"}]
         /\ cause' \in [Writes -> {"none", "bypass", "answer", "timeout", "closed"}]
         /\ connected' \in BOOLEAN /\ inbox' \in Seq(Writes) /\ UNCHANGED age
         /\ Capacity' /\ Requests' /\ Decisions'
<1>1. /\ state' = [w \in Writes |-> IF w \in Waiting THEN "allowed" ELSE state[w]]
      /\ cause' = [w \in Writes |-> IF w \in Waiting THEN "closed" ELSE cause[w]]
      /\ inbox' = <<>> /\ connected' = FALSE /\ UNCHANGED age
  BY DEF ClosePort
<1>2. \A w \in Writes : /\ w \in Waiting <=> state[w] = "waiting"
                        /\ state'[w] # "waiting"
                        /\ ~(w \in Waiting) => state'[w] = state[w] /\ cause'[w] = cause[w]
                        /\ w \in Waiting => state'[w] = "allowed" /\ cause'[w] = "closed"
  BY <1>1 DEF Waiting
<1>3. Capacity'
  <2>1. Waiting' \subseteq Waiting
    BY <1>2 DEF Waiting
  <2> QED  BY <2>1, FewerWait DEF Inv
<1>4. Requests'
  BY <1>1 DEF Requests
<1>5. \A w \in Writes : w = current' => w = current /\ listener' = listener /\ verdict' = verdict
  BY VerdictLimits
<1>6. AnsweredAsRecorded'
  BY <1>2 DEF Inv, Decisions, AnsweredAsRecorded
<1>7. Decisions'
  BY <1>2, <1>5, <1>6 DEF Inv, Decisions
<1>8. /\ state' \in [Writes -> {"new", "waiting", "allowed", "denied"}]
      /\ cause' \in [Writes -> {"none", "bypass", "answer", "timeout", "closed"}]
  <2>1. /\ state \in [Writes -> {"new", "waiting", "allowed", "denied"}]
        /\ cause \in [Writes -> {"none", "bypass", "answer", "timeout", "closed"}]
    BY DEF Inv, Typed
  <2> QED  BY <1>1, <2>1
<1>9. UNCHANGED age /\ connected' \in BOOLEAN /\ inbox' \in Seq(Writes)
  <2>1. UNCHANGED age /\ connected' \in BOOLEAN
    BY <1>1
  <2>2. <<>> \in Seq(Writes)
    BY EmptySeq
  <2> QED  BY <1>1, <2>1, <2>2
<1> QED  BY <1>3, <1>4, <1>7, <1>8, <1>9

LEMMA StopDriverCommInv == ASSUME Inv, StopDriverComm PROVE Inv'
<1>1. /\ service = "closing" /\ service' = "joining" /\ running' = FALSE /\ ClosePort
      /\ UNCHANGED <<listener, current, verdict, clock, dialog, callback, queueOpen, starts,
                     posted, decision, incidents, lost, dangling>>
  BY DEF StopDriverComm, Go, worker, history
<1>2. /\ state' \in [Writes -> {"new", "waiting", "allowed", "denied"}]
      /\ cause' \in [Writes -> {"none", "bypass", "answer", "timeout", "closed"}]
      /\ connected' \in BOOLEAN /\ inbox' \in Seq(Writes) /\ UNCHANGED age
      /\ Capacity' /\ Requests' /\ Decisions'
  <2>1. current = NoWrite <=> listener \in {"off", "get"}
    BY DEF Inv, Requests
  <2> QED  BY <1>1, <2>1, PortCloses
<1>3. Typed'
  BY <1>1, <1>2 DEF Inv, Typed
<1>4. Lifecycle' /\ Timers'
  BY <1>1 DEF Inv, Lifecycle, Timers, Asking
<1> QED  BY <1>2, <1>3, <1>4 DEF Inv

LEMMA ProcessEndsInv == ASSUME Inv, ProcessEnds PROVE Inv'
<1>1. /\ service' = "down" /\ ClosePort
      /\ listener' = "off" /\ current' = NoWrite /\ dialog' = "none"
      /\ running' = FALSE /\ callback' = FALSE /\ queueOpen' = FALSE
      /\ lost' = lost \cup posted /\ posted' = {}
      /\ UNCHANGED <<verdict, clock, starts, decision, incidents, dangling>>
  BY DEF ProcessEnds
<1>2. current # NoWrite => listener \notin {"off", "get"}
  BY DEF Inv, Requests
<1>3. /\ state' \in [Writes -> {"new", "waiting", "allowed", "denied"}]
      /\ cause' \in [Writes -> {"none", "bypass", "answer", "timeout", "closed"}]
      /\ connected' \in BOOLEAN /\ inbox' \in Seq(Writes) /\ UNCHANGED age
      /\ Capacity' /\ Requests' /\ Decisions'
  BY <1>1, PortCloses
<1>4. Typed'
  BY <1>1, <1>3 DEF Inv, Typed
<1>5. Lifecycle' /\ Timers'
  BY <1>1 DEF Lifecycle, Timers, Asking, InCallback
<1> QED  BY <1>3, <1>4, <1>5 DEF Inv
-----------------------------------------------------------------------------
(* The listener's other steps.                                             *)

LEMMA ReceiveInv == ASSUME Inv, Receive PROVE Inv'
<1>1. /\ listener = "get" /\ inbox # <<>> /\ current' = Head(inbox) /\ inbox' = Tail(inbox)
      /\ verdict' = "allow" /\ listener' = IF callback THEN "evaluate" ELSE "reply"
      /\ UNCHANGED <<state, cause, age, connected, clock, dialog, running, callback,
                     queueOpen, service, starts, posted, decision, incidents, lost, dangling>>
  BY DEF Receive, control, history
<1>2. /\ inbox' \in Seq(Writes) /\ DOMAIN inbox = 1 .. Len(inbox) /\ Len(inbox) \in Nat \ {0}
      /\ current' = inbox[1] /\ current' \in Writes /\ DOMAIN inbox' = 1 .. Len(inbox) - 1
      /\ \A i \in 1 .. Len(inbox) - 1 : inbox'[i] = inbox[i + 1]
  BY <1>1, HeadTailProperties DEF Inv, Typed
<1>3. state[current'] = "waiting" /\ decision[current'] = "none" /\ cause[current'] = "none"
  BY <1>2 DEF Inv, Requests, Decisions
<1>4. Typed'
  BY <1>1, <1>2 DEF Inv, Typed, Verdicts, InCallback
<1>5. Capacity'
  <2>1. Waiting' = Waiting
    BY <1>1 DEF Waiting
  <2> QED  BY <2>1, FewerWait DEF Inv
<1>6. Requests'
  <2>1. \A i \in 1 .. Len(inbox) - 1 : i + 1 \in 1 .. Len(inbox) /\ inbox'[i] # inbox[1]
    BY <1>2 DEF Inv, Requests
  <2>2. \A i, j \in DOMAIN inbox' : inbox'[i] = inbox'[j] => i = j
    <3> SUFFICES ASSUME NEW i \in 1 .. Len(inbox) - 1, NEW j \in 1 .. Len(inbox) - 1,
                        inbox'[i] = inbox'[j]
                 PROVE  i = j
      BY <1>2
    <3>1. inbox[i + 1] = inbox[j + 1] /\ i + 1 \in DOMAIN inbox /\ j + 1 \in DOMAIN inbox
      BY <1>2, <2>1
    <3> QED  BY <3>1 DEF Inv, Requests
  <2>3. \A i \in DOMAIN inbox' :
          state[inbox'[i]] = "waiting" /\ decision[inbox'[i]] = "none" /\ inbox'[i] # current'
    BY <1>2, <2>1 DEF Inv, Requests
  <2>4. current' # NoWrite /\ listener' \notin {"off", "get"}
    BY <1>1, <1>2, VerdictLimits
  <2> QED  BY <1>1, <2>2, <2>3, <2>4 DEF Requests
<1>7. Decisions'
  <2>1. AnsweredAsRecorded'
    BY <1>1 DEF Inv, Decisions, AnsweredAsRecorded
  <2> QED  BY <1>1, <1>3, <2>1 DEF Inv, Decisions, InCallback
<1>8. Lifecycle' /\ Timers'
  BY <1>1 DEF Inv, Lifecycle, Timers, Asking, InCallback
<1> QED  BY <1>4, <1>5, <1>6, <1>7, <1>8 DEF Inv

\* A verdict reached in the callback, by whatever way.
LEMMA ConcludedInv ==
  ASSUME Inv, listener \in InCallback, NEW v \in Verdicts, Conclude(v),
         dialog' \in {"none", "open", "prompt", "closed"}, dangling' \in BOOLEAN,
         UNCHANGED <<state, cause, age, connected, inbox, current, clock, running, callback,
                     queueOpen, service, starts, incidents, lost>>
  PROVE  Inv'
<1>1. /\ listener' = "reply" /\ verdict' = v
      /\ decision' = [decision EXCEPT ![current] = v] /\ posted' = posted \cup {current}
  BY DEF Conclude
<1>2. current \in Writes /\ decision[current] = "none" /\ state[current] # "new" /\ cause[current] # "answer"
  <2>1. current # NoWrite
    BY DEF Inv, Requests, InCallback
  <2> QED  BY <2>1 DEF Inv, Typed, Decisions
<1>3. /\ decision'[current] = v /\ decision' \in [Writes -> Verdicts \cup {"none"}] /\ v # "none"
      /\ \A w \in Writes \ {current} : decision'[w] = decision[w]
  BY <1>1, <1>2 DEF Inv, Typed, Verdicts
<1>4. Typed'
  BY <1>1, <1>2, <1>3 DEF Inv, Typed
<1>5. Capacity'
  <2>1. Waiting' = Waiting
    BY DEF Waiting
  <2> QED  BY <2>1, FewerWait DEF Inv
<1>6. Requests'
  <2>1. \A i \in DOMAIN inbox : inbox[i] \in Writes \ {current}
    BY DEF Inv, Typed, Requests
  <2>2. \A i \in DOMAIN inbox' :
          state'[inbox'[i]] = "waiting" /\ decision'[inbox'[i]] = "none" /\ inbox'[i] # current'
    BY <1>3, <2>1 DEF Inv, Requests
  <2>3. current' # NoWrite /\ listener' \notin {"off", "get"}
    BY <1>1, <1>2, VerdictLimits
  <2> QED  BY <2>2, <2>3 DEF Inv, Requests
<1>7. Decisions'
  <2>1. state[current] # "denied"
    BY <1>2 DEF Inv, Decisions, AnsweredAsRecorded
  <2>2. AnsweredAsRecorded'
    BY <1>2, <1>3, <2>1 DEF Inv, Decisions, AnsweredAsRecorded
  <2>3. \A w \in Writes :
          /\ state'[w] = "waiting" /\ decision'[w] # "none" => w = current'
          /\ decision'[w] # "none" => w \in posted' \cup incidents' \cup lost'
    BY <1>1, <1>2, <1>3 DEF Inv, Decisions, InCallback
  <2> QED  BY <1>1, <1>2, <1>3, <2>2, <2>3 DEF Inv, Decisions, InCallback
<1>8. Lifecycle' /\ Timers'
  BY <1>1 DEF Inv, Lifecycle, Timers, Asking, InCallback
<1> QED  BY <1>4, <1>5, <1>6, <1>7, <1>8 DEF Inv

LEMMA VerdictInv == ASSUME Inv, EvaluateLocally \/ ServerVerdict \/ ShowDialogReturns PROVE Inv'
<1>1. CASE EvaluateLocally \/ ServerVerdict
  <2>1. /\ listener \in InCallback /\ \E v \in Verdicts : Conclude(v)
        /\ UNCHANGED <<state, cause, age, connected, inbox, current, clock, dialog, running, callback,
                       queueOpen, service, starts, incidents, lost, dangling>>
    BY <1>1 DEF EvaluateLocally, ServerVerdict, InCallback, driver, control
  <2>2. dialog \in {"none", "open", "prompt", "closed"} /\ dangling \in BOOLEAN
    BY DEF Inv, Typed
  <2> QED  BY <2>1, <2>2, ConcludedInv
<1>2. CASE ShowDialogReturns
  <2> DEFINE v == IF dialog = "closed" THEN verdict ELSE "block"
  <2>1. /\ listener \in InCallback /\ Conclude(v) /\ dialog' = "none"
        /\ dangling' = (dangling \/ dialog # "closed")
        /\ UNCHANGED <<state, cause, age, connected, inbox, current, clock, running, callback,
                       queueOpen, service, starts, incidents, lost>>
    BY <1>2 DEF ShowDialogReturns, Asking, InCallback, driver, control
  <2>2. v \in Verdicts /\ dangling' \in BOOLEAN
    BY <2>1 DEF Inv, Typed, Verdicts
  <2> HIDE DEF v
  <2> QED  BY <2>1, <2>2, ConcludedInv
<1> QED  BY <1>1, <1>2

LEMMA ReplyInv == ASSUME Inv, Reply PROVE Inv'
<1>1. /\ listener = "reply" /\ current' = NoWrite /\ listener' = IF running THEN "get" ELSE "off"
      /\ UNCHANGED <<age, connected, inbox, verdict, clock, dialog, running, callback,
                     queueOpen, service, starts, posted, decision, incidents, lost, dangling>>
  BY DEF Reply, control, history
<1>2. current \in Writes /\ cause[current] # "answer" /\ state[current] # "new"
      /\ verdict = IF decision[current] = "none" THEN "allow" ELSE decision[current]
  <2>1. current # NoWrite
    BY <1>1 DEF Inv, Requests
  <2> QED  BY <1>1, <2>1 DEF Inv, Typed, Decisions
<1>3. \A w \in Writes \ {current} : state'[w] = state[w] /\ cause'[w] = cause[w]
  BY <1>2 DEF Reply, Inv, Typed
<1>4. \/ /\ state[current] = "waiting" /\ cause'[current] = "answer"
         /\ state'[current] = IF verdict = "block" THEN "denied" ELSE "allowed"
      \/ state[current] # "waiting" /\ state'[current] = state[current] /\ cause'[current] = cause[current]
  BY <1>2 DEF Reply, Inv, Typed
<1>5. Typed'
  <2>1. /\ state' \in [Writes -> {"new", "waiting", "allowed", "denied"}]
        /\ cause' \in [Writes -> {"none", "bypass", "answer", "timeout", "closed"}]
    BY <1>2 DEF Reply, Inv, Typed
  <2> QED  BY <1>1, <2>1 DEF Inv, Typed
<1>6. Capacity'
  <2>1. Waiting' \subseteq Waiting
    BY <1>2, <1>3, <1>4 DEF Waiting
  <2> QED  BY <2>1, FewerWait DEF Inv
<1>7. Requests'
  <2>1. \A i \in DOMAIN inbox : inbox[i] \in Writes \ {current}
    BY DEF Inv, Typed, Requests
  <2>2. \A i \in DOMAIN inbox' :
          state'[inbox'[i]] = "waiting" /\ decision'[inbox'[i]] = "none" /\ inbox'[i] # current'
    BY <1>1, <1>3, <2>1, VerdictLimits DEF Inv, Requests
  <2> QED  BY <1>1, <2>2 DEF Inv, Requests
<1>8. Decisions'
  <2>1. AnsweredAsRecorded'
    BY <1>1, <1>2, <1>3, <1>4 DEF Inv, Decisions, AnsweredAsRecorded
  <2>2. \A w \in Writes :
          /\ w # current'
          /\ state'[w] = "new" => decision[w] = "none" /\ cause'[w] = "none"
          /\ state'[w] = "waiting" => cause'[w] = "none" /\ decision[w] = "none"
          /\ decision[w] # "none" => w \in posted \cup incidents \cup lost
    BY <1>1, <1>2, <1>3, <1>4, VerdictLimits DEF Inv, Decisions
  <2> QED  BY <1>1, <2>1, <2>2 DEF Decisions
<1>9. Lifecycle' /\ Timers'
  BY <1>1 DEF Inv, Lifecycle, Timers, Asking, InCallback
<1> QED  BY <1>5, <1>6, <1>7, <1>8, <1>9 DEF Inv

LEMMA PostVerdictWorkInv == ASSUME Inv, NEW w \in Writes, PostVerdictWork(w) PROVE Inv'
<1>1. /\ UNCHANGED <<state, cause, age, connected, inbox, listener, current, verdict, clock, dialog,
                     running, callback, queueOpen, service, starts, decision, dangling>>
      /\ w \in posted /\ posted' = posted \ {w}
      /\ \/ incidents' = incidents \cup {w} /\ UNCHANGED lost
         \/ lost' = lost \cup {w} /\ UNCHANGED incidents
  BY DEF PostVerdictWork, driver, worker, control
<1>2. Typed'
  BY <1>1 DEF Inv, Typed
<1>3. Capacity' /\ Requests'
  BY <1>1, SameRequests
<1>4. posted \cup incidents \cup lost = posted' \cup incidents' \cup lost'
  BY <1>1
<1>5. Decisions'
  BY <1>1, <1>4 DEF Inv, Decisions, AnsweredAsRecorded
<1>6. Lifecycle' /\ Timers'
  BY <1>1 DEF Inv, Lifecycle, Timers, Asking
<1> QED  BY <1>2, <1>3, <1>5, <1>6 DEF Inv

-----------------------------------------------------------------------------
LEMMA Next_Inv == Inv /\ [Next]_vars => Inv'
<1> SUFFICES ASSUME Inv, [Next]_vars PROVE Inv'
  OBVIOUS
<1>1. ASSUME NEW w \in Writes, Write(w) \/ Timeout(w) \/ PostVerdictWork(w) PROVE Inv'
  BY <1>1, WriteInv, TimeoutInv, PostVerdictWorkInv
<1>2. CASE Listen
  BY <1>2, ReceiveInv, ReplyInv, DeciderInv, VerdictInv DEF Listen
<1>3. CASE User \/ DialogTimesOut
  BY <1>3, DeciderInv
<1>4. CASE StartDriverComm \/ StartPipeline \/ StopPipeline
  BY <1>4, StartInv, ServiceInv
<1>5. CASE Stopping
  BY <1>5, ServiceInv, StopDriverCommInv, ProcessEndsInv DEF Stopping, Exit
<1>6. CASE Crash
  BY <1>6, ProcessEndsInv DEF Crash
<1>7. CASE Tick
  BY <1>7, TickInv
<1>8. CASE UNCHANGED vars
  <2>1. UNCHANGED <<state, cause, age, connected, inbox, listener, current, verdict, clock, dialog,
                    running, callback, queueOpen, service, starts, posted, decision, incidents, lost,
                    dangling>>
    BY <1>8 DEF vars, driver, worker, control, history
  <2>2. Typed'
    BY <2>1 DEF Inv, Typed
  <2>3. Capacity' /\ Requests'
    BY <2>1, SameRequests
  <2>4. Decisions' /\ Lifecycle' /\ Timers'
    BY <2>1 DEF Inv, Decisions, AnsweredAsRecorded, Lifecycle, Timers, Asking
  <2> QED  BY <2>2, <2>3, <2>4 DEF Inv
<1> QED  BY <1>1, <1>2, <1>3, <1>4, <1>5, <1>6, <1>7, <1>8 DEF Next

LEMMA Invariance == Spec => []Inv
BY Init_Inv, Next_Inv, PTL DEF Spec

\* Different requests that wait: the inbox is not longer than their number.
LEMMA InboxIsShort == Inv => Len(inbox) <= MaxInFlight
<1> SUFFICES ASSUME Inv PROVE Len(inbox) <= MaxInFlight
  OBVIOUS
<1>1. /\ inbox \in Seq(Writes) /\ Len(inbox) \in Nat /\ DOMAIN inbox = 1 .. Len(inbox)
      /\ \A i \in 1 .. Len(inbox) : inbox[i] \in Waiting
  BY DEF Inv, Typed, Requests, Waiting
<1>2. inbox \in Injection(1 .. Len(inbox), Waiting)
  <2>1. inbox \in [1 .. Len(inbox) -> Waiting]
    BY <1>1
  <2>2. \A i, j \in 1 .. Len(inbox) : inbox[i] = inbox[j] => i = j
    BY <1>1 DEF Inv, Requests
  <2> QED  BY <2>1, <2>2 DEF Injection, IsInjective
<1>3. Cardinality(1 .. Len(inbox)) <= Cardinality(Waiting)
  BY <1>2, FS_Injection DEF Inv, Capacity
<1>4. Cardinality(1 .. Len(inbox)) = Len(inbox)
  BY <1>1, FS_Interval
<1> QED  BY <1>1, <1>3, <1>4, FS_CardinalityType, VerdictLimits DEF Inv, Capacity

LEMMA InvSuffices == Inv => RecordsMatchOutcomes
<1> SUFFICES ASSUME Inv PROVE RecordsMatchOutcomes
  OBVIOUS
<1>1. TypeOK
  BY InboxIsShort DEF Inv, Typed, TypeOK
<1>2. AnsweredAsRecorded
  BY DEF Inv, Decisions
<1>3. DenialsAreRecorded
  BY DEF Inv, Decisions, AnsweredAsRecorded, DenialsAreRecorded
<1> QED  BY <1>1, <1>2, <1>3 DEF RecordsMatchOutcomes

(***************************************************************************)
(* However requests, timeouts, stops and crashes meet, a reply is applied  *)
(* to the request its verdict was reached for, a write is denied only by a *)
(* decision to block it, and that decision's incident is queued, on its    *)
(* way, or was lost with the process or the queue (Conclude, Reply).       *)
(***************************************************************************)
THEOREM RecordsMatch == Spec => []RecordsMatchOutcomes
BY Invariance, InvSuffices, PTL

-----------------------------------------------------------------------------
LEMMA StepWaits ==
  ASSUME Inv, [Next]_vars,
         NEW w \in Writes, cause[w] # "closed", cause'[w] = "closed", service' # "down"
  PROVE  ~(current = w /\ listener \in InCallback)
<1>1. CASE StopDriverComm
  BY <1>1 DEF StopDriverComm, Go, Inv, Lifecycle
<1>2. ASSUME NEW v \in Writes, Write(v) \/ Timeout(v) PROVE FALSE
  BY <1>2 DEF Write, Timeout, Inv, Typed
<1>3. CASE Reply
  BY <1>3 DEF Reply, Inv, Typed
<1>4. CASE ProcessEnds
  BY <1>4 DEF ProcessEnds
<1>5. CASE UNCHANGED cause
  BY <1>5
<1>6. ASSUME NEW v \in Writes, PostVerdictWork(v) PROVE UNCHANGED cause
  BY <1>6 DEF PostVerdictWork, driver
<1>7. CASE Listen /\ ~Reply
  <2>1. UNCHANGED cause
    BY <1>7 DEF Listen, Receive, ListenerExits, EvaluateClean, EvaluateLocally, EvaluateByServer,
           EvaluateByUser, ServerVerdict, ShowDialogReturns, driver
  <2> QED  BY <1>5, <2>1
<1>8. CASE User \/ DialogTimesOut \/ StartDriverComm \/ StartPipeline \/ StopPipeline \/ Tick
  <2>1. UNCHANGED cause
    BY <1>8 DEF User, UserDecides, UserSubmitsNothing, UserDismissesPrompt, DialogTimesOut,
           StartDriverComm, StartPipeline, StopPipeline, Tick, driver
  <2> QED  BY <1>5, <2>1
<1>9. CASE ClearCallback \/ JoinListener \/ StopQueue
  <2>1. UNCHANGED cause
    BY <1>9 DEF ClearCallback, JoinListener, StopQueue, driver
  <2> QED  BY <1>5, <2>1
<1>10. CASE UNCHANGED vars
  BY <1>5, <1>10 DEF vars, driver
<1> QED
  BY <1>1, <1>2, <1>3, <1>4, <1>5, <1>6, <1>7, <1>8, <1>9, <1>10 DEF Next, Stopping, Exit, Crash

(***************************************************************************)
(* A stop of the service closes the port only once no request is in the    *)
(* callback: SetVerdictCallback(nullptr) waits for the one that is, and    *)
(* none enters it afterwards.                                              *)
(***************************************************************************)
THEOREM StopWaits == Spec => StopWaitsForDecision
<1>1. Inv /\ [Next]_vars =>
        [\A w \in Writes : cause[w] # "closed" /\ cause'[w] = "closed" /\ service' # "down"
                           => ~(current = w /\ listener \in InCallback)]_vars
  BY StepWaits
<1> QED  BY <1>1, Invariance, PTL DEF Spec, StopWaitsForDecision
-----------------------------------------------------------------------------
LEMMA StepDangles ==
  ASSUME Inv, [Next]_vars, ~dangling, dangling'
  PROVE  dialog = "prompt"
<1>1. CASE ShowDialogReturns
  BY <1>1, VerdictLimits DEF ShowDialogReturns, Inv, Typed, Timers, Asking, WaitLimit
<1>2. CASE ~ShowDialogReturns
  <2>1. ASSUME NEW w \in Writes, Write(w) \/ Timeout(w) \/ PostVerdictWork(w) PROVE FALSE
    BY <2>1 DEF Write, Timeout, PostVerdictWork, history
  <2>2. CASE Listen
    BY <1>2, <2>2 DEF Listen, Receive, Reply, ListenerExits, EvaluateClean, EvaluateLocally,
           EvaluateByServer, EvaluateByUser, ServerVerdict, history
  <2>3. CASE User \/ DialogTimesOut \/ StartDriverComm \/ StartPipeline \/ StopPipeline \/ Tick
    BY <2>3 DEF User, UserDecides, UserSubmitsNothing, UserDismissesPrompt, DialogTimesOut,
           StartDriverComm, StartPipeline, StopPipeline, Tick, history
  <2>4. CASE Stopping \/ Crash
    BY <2>4 DEF Stopping, ClearCallback, StopDriverComm, JoinListener, StopQueue, Exit, Crash,
           ProcessEnds, history
  <2>5. CASE UNCHANGED vars
    BY <2>5 DEF vars, history
  <2> QED  BY <2>1, <2>2, <2>3, <2>4, <2>5 DEF Next
<1> QED  BY <1>1, <1>2

LEMMA StepTimesOut ==
  ASSUME WaitLimit < DriverTimeout, Inv, [Next]_vars,
         NEW w \in Writes, cause[w] # "timeout", cause'[w] = "timeout"
  PROVE  ~(current = w /\ listener \in {"ttd", "dialog"} /\ clock = age[w])
<1>1. ASSUME NEW v \in Writes, Timeout(v)
      PROVE  ~(current = w /\ listener \in {"ttd", "dialog"} /\ clock = age[w])
  <2>1. v = w /\ age[w] = DriverTimeout
    BY <1>1 DEF Timeout, Inv, Typed
  <2>2. listener \in {"ttd", "dialog"} => clock <= WaitLimit
    BY VerdictLimits DEF Inv, Typed, Timers, Asking
  <2> QED  BY <2>1, <2>2, VerdictLimits DEF Inv, Typed
<1>2. ASSUME NEW v \in Writes, Write(v) PROVE FALSE
  BY <1>2 DEF Write, Inv, Typed
<1>3. CASE Reply
  BY <1>3 DEF Reply, Inv, Typed
<1>4. CASE ClosePort
  BY <1>4 DEF ClosePort
<1>5. CASE UNCHANGED cause
  BY <1>5
<1>6. ASSUME NEW v \in Writes, PostVerdictWork(v) PROVE UNCHANGED cause
  BY <1>6 DEF PostVerdictWork, driver
<1>7. CASE Listen /\ ~Reply
  <2>1. UNCHANGED cause
    BY <1>7 DEF Listen, Receive, ListenerExits, EvaluateClean, EvaluateLocally, EvaluateByServer,
           EvaluateByUser, ServerVerdict, ShowDialogReturns, driver
  <2> QED  BY <1>5, <2>1
<1>8. CASE User \/ DialogTimesOut \/ StartDriverComm \/ StartPipeline \/ StopPipeline \/ Tick
  <2>1. UNCHANGED cause
    BY <1>8 DEF User, UserDecides, UserSubmitsNothing, UserDismissesPrompt, DialogTimesOut,
           StartDriverComm, StartPipeline, StopPipeline, Tick, driver
  <2> QED  BY <1>5, <2>1
<1>9. CASE ClearCallback \/ JoinListener \/ StopQueue
  <2>1. UNCHANGED cause
    BY <1>9 DEF ClearCallback, JoinListener, StopQueue, driver
  <2> QED  BY <1>5, <2>1
<1>10. CASE UNCHANGED vars
  BY <1>5, <1>10 DEF vars, driver
<1> QED
  BY <1>1, <1>2, <1>3, <1>4, <1>5, <1>6, <1>7, <1>8, <1>9, <1>10
     DEF Next, Stopping, StopDriverComm, Exit, Crash, ProcessEnds

(***************************************************************************)
(* Where the driver's timeout is longer than the dialog's with its grace   *)
(* (150 s, 125 s), ShowDialog leaves its thread behind only under a        *)
(* message box, and a request that times out has waited for the listener,  *)
(* not only for its own dialog or server call.                             *)
(***************************************************************************)
THEOREM TimersOutlast ==
  ASSUME WaitLimit < DriverTimeout
  PROVE  Spec => TimersOutlastEachOther
<1>1. Inv /\ [Next]_vars => [~dangling /\ dangling' => dialog = "prompt"]_vars
  BY StepDangles
<1>2. Inv /\ [Next]_vars =>
        [\A w \in Writes :
           cause[w] # "timeout" /\ cause'[w] = "timeout"
             => ~(current = w /\ listener \in {"ttd", "dialog"} /\ clock = age[w])]_vars
  BY StepTimesOut
<1> QED
  BY <1>1, <1>2, Invariance, PTL
     DEF Spec, TimersOutlastEachOther, DanglesOnlyUnderPrompt, OnlyQueuedWritesTimeOut
=============================================================================
