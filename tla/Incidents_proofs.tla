--------------------------- MODULE Incidents_proofs ---------------------------
(***************************************************************************)
(* Proofs about module Incidents.  What a field was worth after so many    *)
(* transactions (ValueAt, a CHOOSE) is replaced by the relation Holds,     *)
(* which an induction over steps can carry: a transaction either leaves it *)
(* alone, or is the new last writer of the field.                          *)
(***************************************************************************)
EXTENDS Incidents, TLAPS

-----------------------------------------------------------------------------
(* The history as a relation.                                              *)

EntryIn(q, n, f) == {h \in q[n].history : h.field = f}
Holds(q, i, f, n, v) ==
  \E m \in 1 .. n :
    /\ q[m].inc = i
    /\ \E h \in EntryIn(q, m, f) : EntryIn(q, m, f) = {h} /\ h.new = v
    /\ \A k \in m + 1 .. n : q[k].inc = i => EntryIn(q, k, f) = {}

\* Only the first n transactions count.
LEMMA SamePrefix ==
  ASSUME NEW q, NEW r, NEW n \in Nat, \A k \in 1 .. n : r[k] = q[k],
         NEW i, NEW f, NEW v, Holds(q, i, f, n, v)
  PROVE  Holds(r, i, f, n, v)
<1>1. PICK m \in 1 .. n :
         /\ q[m].inc = i
         /\ \E h \in EntryIn(q, m, f) : EntryIn(q, m, f) = {h} /\ h.new = v
         /\ \A k \in m + 1 .. n : q[k].inc = i => EntryIn(q, k, f) = {}
  BY DEF Holds
<1>2. \A k \in 1 .. n : EntryIn(r, k, f) = EntryIn(q, k, f)
  BY DEF EntryIn
<1>3. \A k \in m + 1 .. n : k \in 1 .. n
  OBVIOUS
<1> QED  BY <1>1, <1>2, <1>3 DEF Holds

\* A value holds as long as no transaction has an entry for its field.
LEMMA NoEntry ==
  ASSUME NEW q, NEW i, NEW f, NEW v, NEW n \in Nat, NEW p \in Nat, n <= p,
         Holds(q, i, f, n, v),
         \A k \in n + 1 .. p : q[k].inc = i => EntryIn(q, k, f) = {}
  PROVE  Holds(q, i, f, p, v)
<1>1. PICK m \in 1 .. n :
         /\ q[m].inc = i
         /\ \E h \in EntryIn(q, m, f) : EntryIn(q, m, f) = {h} /\ h.new = v
         /\ \A k \in m + 1 .. n : q[k].inc = i => EntryIn(q, k, f) = {}
  BY DEF Holds
<1>2. m \in 1 .. p /\ \A k \in m + 1 .. p : k \in m + 1 .. n \/ k \in n + 1 .. p
  OBVIOUS
<1> QED  BY <1>1, <1>2 DEF Holds

\* An entry of the last transaction holds.
LEMMA NewEntry ==
  ASSUME NEW q, NEW i, NEW f, NEW n \in Nat \ {0}, q[n].inc = i,
         NEW h, EntryIn(q, n, f) = {h}
  PROVE  Holds(q, i, f, n, h.new)
<1>1. n \in 1 .. n /\ n + 1 .. n = {}
  OBVIOUS
<1> QED  BY <1>1 DEF Holds

\* What holds is the value.
LEMMA HoldsIsValue ==
  ASSUME NEW i, NEW f, NEW v, NEW n \in Nat, Holds(txs, i, f, n, v)
  PROVE  v = ValueAt(i, f, n)
<1>1. PICK m \in 1 .. n :
         /\ txs[m].inc = i
         /\ \E h \in EntryIn(txs, m, f) : EntryIn(txs, m, f) = {h} /\ h.new = v
         /\ \A k \in m + 1 .. n : txs[k].inc = i => EntryIn(txs, k, f) = {}
  BY DEF Holds
<1>2. \A k \in 1 .. n : Entry(k, f) = EntryIn(txs, k, f)
  BY DEF Entry, EntryIn
<1> DEFINE W == Writers(i, f, n)
           last == CHOOSE x \in W : \A k \in W : k <= x
<1>3. W \subseteq 1 .. n /\ m \in W
  BY <1>1, <1>2 DEF Writers
<1>4. \A k \in W : k <= m
  <2> SUFFICES ASSUME NEW k \in W, k > m PROVE FALSE
    BY <1>3
  <2>1. k \in m + 1 .. n /\ txs[k].inc = i /\ Entry(k, f) # {}
    BY <1>3 DEF Writers
  <2> QED  BY <2>1, <1>1, <1>2, <1>3
<1> HIDE DEF W
<1>5. last \in W /\ \A k \in W : k <= last
  BY <1>3, <1>4
<1> HIDE DEF last
<1>6. last = m
  BY <1>3, <1>4, <1>5
<1>7. PICK h \in Entry(m, f) : Entry(m, f) = {h} /\ h.new = v
  BY <1>1, <1>2
<1>8. (CHOOSE g \in Entry(m, f) : TRUE) = h
  BY <1>7
<1>9. ValueAt(i, f, n) = (CHOOSE g \in Entry(last, f) : TRUE).new
  BY DEF ValueAt, last, W
<1> QED  BY <1>6, <1>7, <1>8, <1>9

-----------------------------------------------------------------------------
(* Types.                                                                  *)

Values == Statuses \cup Severities \cup {None, "dict"}
Datas == Updates \cup {SetStatus(v) : v \in Statuses}
HistoryRec == [field : Fields, old : Values, new : Values]
Audits == Updates \cup {None, [f \in {} |-> None]}
ChangeOps == {"update", "set_status", "escalate"}
TxRec == [op : {"report", "add_note", "smart_note"} \cup ChangeOps, inc : Ids,
          history : SUBSET HistoryRec, note : BOOLEAN, audit : Audits, seen : Nat]
ReportReq == [op : {"report"}, of : Ids, report : Reports]
ChangeReq == [op : ChangeOps, of : Ids, data : Datas, snap : Row, seen : Nat]
RetryReq == [op : {"retry"}, of : Entries, count : 0 .. MaxRetries - 1]
Copied == [row : Row, at : Nat]
SiemEvent == [inc : Ids, severity : Severities, channel : Channels \cup {"unknown"},
              type : {"file_blocked", "incident_created"}]
Dead == [count : 0 .. MaxRetries, permanent : BOOLEAN, dismissed : BOOLEAN]

RowTyped == row \in [Ids -> Row \cup {None}]
ArchiveTyped == archive \in [Ids -> Copied \cup {None}]
MoveTyped == move # None => /\ DOMAIN move \subseteq Ids
                            /\ \A i \in DOMAIN move : move[i] \in Copied
LogTyped == txs \in Seq(TxRec) /\ Len(txs) <= commits /\ commits \in 0 .. MaxCommits
ReqTyped == req \in [Slots -> {None} \cup ReportReq \cup ChangeReq \cup RetryReq]
SiemTyped == siem \subseteq SiemEvent
DlqTyped == dlq \in [Entries -> Dead \cup {None}] /\ granted \in [Entries -> Nat]
Typed == /\ RowTyped /\ ArchiveTyped /\ MoveTyped /\ LogTyped
         /\ ReqTyped /\ SiemTyped /\ DlqTyped

LEMMA Element == ASSUME NEW S, NEW q \in Seq(S)
                 PROVE  Len(q) \in Nat /\ \A k \in 1 .. Len(q) : q[k] \in S
OBVIOUS

LEMMA Limits == MaxRetries \in Nat \ {0} /\ MaxCommits \in Nat
BY IncidentsAssumption

LEMMA DeadIsNotNone == ASSUME NEW x \in Dead PROVE x # None
<1>1. x \in [count : Nat, permanent : BOOLEAN, dismissed : BOOLEAN]
  BY Limits DEF Dead
<1> QED  BY <1>1, IncidentsAssumption

LEMMA LogCounts ==
  ASSUME LogTyped
  PROVE  /\ Len(txs) \in Nat /\ commits \in Nat /\ MaxCommits \in Nat
         /\ \A n \in 1 .. Len(txs) : txs[n] \in TxRec
<1>1. MaxCommits \in Nat
  BY IncidentsAssumption
<1>2. Len(txs) \in Nat /\ \A n \in 1 .. Len(txs) : txs[n] \in TxRec
  BY Element DEF LogTyped
<1> QED  BY <1>1, <1>2 DEF LogTyped

\* What a report is stored as, and what the SIEM is sent about it.
LEMMA ReportTypes ==
  ASSUME NEW r \in Reports, NEW i \in Ids
  PROVE  /\ Stored(r) \in Row /\ Stored(r).custom_attributes = None
         /\ Event(i, r) \in SiemEvent
         /\ First(Stored(r)) \subseteq HistoryRec
<1>1. r.severity \in Int /\ r.channel \in Int /\ r.action \in {"", "log", "block"}
  BY IncidentsAssumption
<1>a. \A n \in DOMAIN ProtoSeverity : ProtoSeverity[n] \in Severities
  <2>1. ProtoSeverity \in Seq(Severities)
    BY DEF ProtoSeverity, Severities
  <2> QED  BY <2>1
<1>b. \A n \in DOMAIN ProtoChannel : ProtoChannel[n] \in Channels
  <2>1. ProtoChannel \in Seq(Channels)
    BY DEF ProtoChannel, Channels
  <2> QED  BY <2>1
<1>2. Lookup(ProtoSeverity, r.severity, "medium") \in Severities
  BY <1>a DEF Lookup, Severities
<1>3. Lookup(ProtoChannel, r.channel, "usb") \in Channels
  BY <1>b DEF Lookup, Channels
<1>4. Lookup(ProtoChannel, r.channel, "unknown") \in Channels \cup {"unknown"}
  BY <1>b DEF Lookup
<1>5. Stored(r) \in Row /\ Stored(r).custom_attributes = None
  BY <1>1, <1>2, <1>3 DEF Stored, Row, Statuses
<1>6. Event(i, r) \in SiemEvent
  BY <1>1, <1>2, <1>4 DEF Event, SiemEvent
<1>7. \A f \in Fields : Stored(r)[f] \in Values
  BY <1>5 DEF Fields, Values, Row
<1> HIDE DEF Stored
<1>8. First(Stored(r)) \subseteq HistoryRec
  BY <1>7 DEF First, HistoryRec, Values
<1> QED  BY <1>5, <1>6, <1>8

\* Requests of changes: what may be asked for.
LEMMA DataTypes ==
  ASSUME NEW data \in Datas
  PROVE  /\ DOMAIN data \subseteq Fields
         /\ \A f \in DOMAIN data : data[f] \in ValuesOf[f] \cup {None}
<1>1. CASE data \in Updates
  BY <1>1, IncidentsAssumption
<1>2. CASE \E v \in Statuses : data = SetStatus(v)
  BY <1>2 DEF SetStatus, Fields, ValuesOf
<1> QED  BY <1>1, <1>2 DEF Datas

\* A change of a row that has no custom attributes never writes them.
LEMMA WrittenTypes ==
  ASSUME NEW data \in Datas, NEW snap \in Row, snap.custom_attributes = None
  PROVE  /\ Written(snap, data) \subseteq {"status", "severity"}
         /\ Written(snap, data) \subseteq DOMAIN data
         /\ "status" \in Written(snap, data) => data["status"] \in Statuses
         /\ "severity" \in Written(snap, data) => data["severity"] \in Severities
         /\ History(snap, data) \subseteq HistoryRec
<1>1. Written(snap, data) \subseteq DOMAIN data /\ \A f \in Written(snap, data) : data[f] # None
  BY DEF Written
<1>2. "custom_attributes" \notin Written(snap, data)
  BY DEF Written, Differs
<1>3. Written(snap, data) \subseteq {"status", "severity"}
  BY <1>1, <1>2, DataTypes DEF Fields
<1>4. \A f \in Written(snap, data) : data[f] \in ValuesOf[f]
  BY <1>1, DataTypes
<1>5. /\ "status" \in Written(snap, data) => data["status"] \in Statuses
      /\ "severity" \in Written(snap, data) => data["severity"] \in Severities
  BY <1>4 DEF ValuesOf
<1>6. \A f \in Written(snap, data) : snap[f] \in Values /\ data[f] \in Values
  BY <1>3, <1>5 DEF Values, Row
<1>7. History(snap, data) \subseteq HistoryRec
  BY <1>3, <1>6 DEF History, HistoryRec, Fields, Values
<1> QED  BY <1>1, <1>3, <1>5, <1>7

-----------------------------------------------------------------------------
(* Types are kept.                                                         *)

\* The row that a change leaves.
Changed(r, snap, data) == [f \in DOMAIN r |-> IF f \in Written(snap, data) THEN data[f] ELSE r[f]]
LEMMA ChangedTypes ==
  ASSUME NEW r \in Row, NEW data \in Datas, NEW snap \in Row, snap.custom_attributes = None
  PROVE  /\ Changed(r, snap, data) \in Row
         /\ Changed(r, snap, data).custom_attributes = r.custom_attributes
         /\ Changed(r, snap, data).channel = r.channel /\ Changed(r, snap, data).action = r.action
         /\ \A f \in Fields : Changed(r, snap, data)[f] =
                              IF f \in Written(snap, data) THEN data[f] ELSE r[f]
<1> DEFINE c == Changed(r, snap, data)
<1>1. DOMAIN r = {"status", "severity", "custom_attributes", "channel", "action"}
  BY DEF Row
<1>2. c = [f \in {"status", "severity", "custom_attributes", "channel", "action"} |->
             IF f \in Written(snap, data) THEN data[f] ELSE r[f]]
  BY <1>1 DEF Changed
<1>3. /\ c.status \in Statuses /\ c.severity \in Severities
      /\ c.custom_attributes = r.custom_attributes /\ c.channel = r.channel /\ c.action = r.action
  BY <1>2, WrittenTypes DEF Row
<1>4. c = [status |-> c.status, severity |-> c.severity, custom_attributes |-> c.custom_attributes,
           channel |-> c.channel, action |-> c.action]
  BY <1>2
<1> HIDE DEF c
<1>5. c \in Row
  BY <1>3, <1>4 DEF Row
<1>6. \A f \in Fields : c[f] = IF f \in Written(snap, data) THEN data[f] ELSE r[f]
  BY <1>2 DEF Fields
<1> QED  BY <1>3, <1>5, <1>6 DEF c

\* No snapshot has custom attributes, since no row has.
Plain == /\ \A i \in Ids : row[i] # None => row[i].custom_attributes = None
         /\ \A s \in Slots : Changes(s) => req[s].snap.custom_attributes = None

LEMMA Init_Typed == Init => Typed /\ Plain
<1> SUFFICES ASSUME Init PROVE Typed /\ Plain
  OBVIOUS
<1>1. MaxCommits \in Nat
  BY IncidentsAssumption
<1> QED
  BY <1>1 DEF Init, Typed, Plain, RowTyped, ArchiveTyped, MoveTyped, LogTyped, ReqTyped, SiemTyped,
              DlqTyped, Changes

\* The transaction of a step, if it commits one on the log.
Logged(t) == t \in TxRec /\ txs' = Append(txs, t)

LEMMA ReportStep ==
  ASSUME Typed, Plain, NEW s \in Slots, NEW i \in Ids, NEW r \in Reports, Report(s, i, r)
  PROVE  /\ Typed' /\ Plain'
         /\ Logged(Tx("report", i, First(Stored(r)), FALSE, None, Len(txs)))
<1> DEFINE t == Tx("report", i, First(Stored(r)), FALSE, None, Len(txs))
<1> USE DEF Typed
<1>1. Len(txs) \in Nat /\ commits \in Nat /\ MaxCommits \in Nat
  BY LogCounts
<1>2. t \in TxRec
  BY <1>1, ReportTypes DEF Tx, TxRec, Audits
<1> HIDE DEF t
<1>3. LogTyped'
  <2>1. txs' = Append(txs, t) /\ commits' = commits + 1 /\ commits < MaxCommits
    BY DEF Report, Commits, t
  <2> QED  BY <1>1, <1>2, <2>1 DEF LogTyped
<1>4. RowTyped' /\ (\A j \in Ids : row'[j] # None => row'[j].custom_attributes = None)
  BY ReportTypes DEF RowTyped, Report, Plain
<1>5. ReqTyped' /\ (\A z \in Slots : Changes(z)' => req'[z].snap.custom_attributes = None)
  <2>1. req' = [req EXCEPT ![s] = [op |-> "report", of |-> i, report |-> r]]
    BY DEF Report
  <2>2. [op |-> "report", of |-> i, report |-> r] \in ReportReq
    BY DEF ReportReq
  <2> QED  BY <2>1, <2>2 DEF ReqTyped, Changes, Plain
<1>6. ArchiveTyped' /\ MoveTyped' /\ SiemTyped' /\ DlqTyped'
  BY DEF ArchiveTyped, MoveTyped, SiemTyped, DlqTyped, Report, aged
<1> QED  BY <1>2, <1>3, <1>4, <1>5, <1>6 DEF Logged, Plain, Report, t

LEMMA LoadStep ==
  ASSUME Typed, Plain, NEW s \in Slots, NEW op \in ChangeOps, NEW i \in Ids, NEW data \in Datas,
         Load(s, op, i, data)
  PROVE  Typed' /\ Plain'
<1> USE DEF Typed
<1>1. Len(txs) \in Nat
  BY DEF LogTyped
<1>2. row[i] \in Row /\ row[i].custom_attributes = None
  BY DEF RowTyped, Plain, Load
<1> DEFINE q == [op |-> op, of |-> i, data |-> data, snap |-> row[i], seen |-> Len(txs)]
<1>3. q \in ChangeReq /\ q.snap.custom_attributes = None
  BY <1>1, <1>2 DEF ChangeReq
<1>4. req' = [req EXCEPT ![s] = q] /\ UNCHANGED <<row, txs, siem, dlq, granted, commits, aged>>
  BY DEF Load
<1> HIDE DEF q
<1>5. ReqTyped' /\ (\A z \in Slots : Changes(z)' => req'[z].snap.custom_attributes = None)
  BY <1>3, <1>4 DEF ReqTyped, Changes, Plain
<1> QED
  BY <1>4, <1>5 DEF Plain, RowTyped, ArchiveTyped, MoveTyped, LogTyped, SiemTyped, DlqTyped, aged

\* The request of a change.
LEMMA ChangeOf ==
  ASSUME Typed, Plain, NEW s \in Slots, Changes(s)
  PROVE  req[s] \in ChangeReq /\ req[s].snap.custom_attributes = None
BY DEF Typed, Plain, ReqTyped, Changes, ReportReq, ChangeReq, RetryReq, ChangeOps

UpdateTx(q) == Tx(q.op, q.of, History(q.snap, q.data), q.op = "escalate",
                  IF q.op = "update" THEN q.data ELSE None, q.seen)
\* An update asks for one of Updates: the smart responses have operations of their own.
Asked == \A s \in Slots : Changes(s) /\ req[s].op = "update" => req[s].data \in Updates

LEMMA CommitUpdateStep ==
  ASSUME Typed, Plain, Asked, NEW s \in Slots, CommitUpdate(s)
  PROVE  Typed' /\ Plain' /\ Logged(UpdateTx(req[s]))
<1> DEFINE q == req[s]
<1> USE DEF Typed
<1>1. q \in ChangeReq /\ q.snap.custom_attributes = None
  BY ChangeOf DEF CommitUpdate
<1>2. Len(txs) \in Nat /\ commits \in Nat /\ MaxCommits \in Nat
  BY LogCounts
<1>3. UpdateTx(q) \in TxRec
  <2>1. q.op = "update" => q.data \in Updates
    BY DEF Asked, CommitUpdate
  <2>2. History(q.snap, q.data) \subseteq HistoryRec
    BY <1>1, WrittenTypes DEF ChangeReq
  <2> QED  BY <1>1, <2>1, <2>2 DEF UpdateTx, Tx, TxRec, ChangeReq, Audits
<1>4. LogTyped' /\ txs' = Append(txs, UpdateTx(q))
  <2>1. txs' = Append(txs, UpdateTx(q)) /\ commits' = commits + 1 /\ commits < MaxCommits
    BY DEF CommitUpdate, UpdateTx, Commits
  <2> QED  BY <1>2, <1>3, <2>1 DEF LogTyped
<1>5. row[q.of] \in Row /\ q.of \in Ids
  BY <1>1 DEF RowTyped, ChangeReq, CommitUpdate
<1>6. row' = [row EXCEPT ![q.of] = Changed(row[q.of], q.snap, q.data)]
  BY DEF CommitUpdate, Changed
<1>7. Changed(row[q.of], q.snap, q.data) \in Row
      /\ Changed(row[q.of], q.snap, q.data).custom_attributes = row[q.of].custom_attributes
  BY <1>1, <1>5, ChangedTypes DEF ChangeReq
<1>8. RowTyped' /\ (\A j \in Ids : row'[j] # None => row'[j].custom_attributes = None)
  BY <1>5, <1>6, <1>7 DEF RowTyped, Plain, CommitUpdate
<1>9. ReqTyped' /\ (\A z \in Slots : Changes(z)' => req'[z].snap.custom_attributes = None)
  BY DEF ReqTyped, Changes, Plain, CommitUpdate
<1>10. ArchiveTyped' /\ MoveTyped' /\ SiemTyped' /\ DlqTyped'
  BY DEF ArchiveTyped, MoveTyped, SiemTyped, DlqTyped, CommitUpdate, aged
<1> QED  BY <1>3, <1>4, <1>8, <1>9, <1>10 DEF Logged, Plain

VanishedTx(q) == Tx(q.op, q.of, {}, FALSE, q.data, q.seen)
LEMMA VanishedStep ==
  ASSUME Typed, Plain, Asked, NEW s \in Slots, Vanished(s)
  PROVE  /\ Typed' /\ Plain'
         /\ \/ UNCHANGED txs
            \/ /\ Logged(VanishedTx(req[s])) /\ req[s].op = "update"
               /\ Written(req[s].snap, req[s].data) = {}
<1> DEFINE q == req[s]
<1> USE DEF Typed
<1>1. q \in ChangeReq
  BY ChangeOf DEF Vanished
<1>2. Len(txs) \in Nat /\ commits \in Nat /\ MaxCommits \in Nat
  BY LogCounts
<1>3. ReqTyped' /\ (\A z \in Slots : Changes(z)' => req'[z].snap.custom_attributes = None)
  BY DEF ReqTyped, Changes, Plain, Vanished
<1>4. RowTyped' /\ ArchiveTyped' /\ MoveTyped' /\ SiemTyped' /\ DlqTyped' /\ row' = row
  BY DEF RowTyped, ArchiveTyped, MoveTyped, SiemTyped, DlqTyped, Vanished, aged
<1>5. CASE q.op = "update" /\ Written(q.snap, q.data) = {}
  <2>1. VanishedTx(q) \in TxRec
    BY <1>1, <1>5 DEF VanishedTx, Tx, TxRec, ChangeReq, Audits, Asked, Vanished
  <2>2. txs' = Append(txs, VanishedTx(q)) /\ commits' = commits + 1 /\ commits < MaxCommits
    BY <1>5 DEF Vanished, VanishedTx, Commits
  <2>3. LogTyped'
    BY <1>2, <2>1, <2>2 DEF LogTyped
  <2> QED  BY <1>3, <1>4, <1>5, <2>1, <2>2, <2>3 DEF Logged, Plain
<1>6. CASE ~(q.op = "update" /\ Written(q.snap, q.data) = {})
  <2>1. UNCHANGED <<txs, commits>>
    BY <1>6 DEF Vanished
  <2> QED  BY <1>3, <1>4, <2>1 DEF LogTyped, Plain
<1> QED  BY <1>5, <1>6

NoteTx(op, i) == Tx(op, i, {}, TRUE, Audit(op), Len(txs))
LEMMA AddNoteStep ==
  ASSUME Typed, Plain, NEW s \in Slots, NEW i \in Ids, NEW op \in {"add_note", "smart_note"},
         AddNote(s, op, i)
  PROVE  Typed' /\ Plain' /\ Logged(NoteTx(op, i))
<1> USE DEF Typed
<1>1. Len(txs) \in Nat /\ commits \in Nat /\ MaxCommits \in Nat
  BY LogCounts
<1>2. NoteTx(op, i) \in TxRec
  BY <1>1 DEF NoteTx, Tx, TxRec, Audit, Audits
<1>3. txs' = Append(txs, NoteTx(op, i)) /\ commits' = commits + 1 /\ commits < MaxCommits
  BY DEF AddNote, NoteTx, Commits
<1>4. LogTyped'
  BY <1>1, <1>2, <1>3 DEF LogTyped
<1> QED
  BY <1>2, <1>3, <1>4 DEF Logged, Plain, Changes, AddNote, RowTyped, ArchiveTyped, MoveTyped,
                          ReqTyped, SiemTyped, DlqTyped, aged

LEMMA EmitStep ==
  ASSUME Typed, Plain, NEW s \in Slots, Emit(s)
  PROVE  /\ Typed' /\ Plain' /\ req[s] \in ReportReq
         /\ siem' \subseteq siem \cup {Event(req[s].of, req[s].report)}
<1> USE DEF Typed
<1>1. req[s] \in ReportReq
  BY DEF Emit, ReqTyped, ReportReq, ChangeReq, RetryReq, ChangeOps
<1>2. Event(req[s].of, req[s].report) \in SiemEvent
  BY <1>1, ReportTypes DEF ReportReq
<1>3. siem' \subseteq siem \cup {Event(req[s].of, req[s].report)}
  BY DEF Emit
<1>4. SiemTyped'
  BY <1>2, <1>3 DEF SiemTyped
<1> QED
  BY <1>1, <1>3, <1>4 DEF Plain, Changes, Emit, RowTyped, ArchiveTyped, MoveTyped, LogTyped, ReqTyped,
                          DlqTyped, aged

\* The archive job.
LEMMA CopyStep ==
  ASSUME Typed, Plain, Copy
  PROVE  /\ Typed' /\ Plain' /\ DOMAIN move' \subseteq {i \in Ids : row[i] # None}
         /\ \A i \in DOMAIN move' : move'[i] = [row |-> row[i], at |-> Len(txs)]
<1> USE DEF Typed
<1>1. PICK is \in SUBSET {i \in Ids : row[i] # None} \ {{}} : move' = Chosen(is)
  BY DEF Copy
<1>2. DOMAIN move' = is /\ \A i \in is : move'[i] = [row |-> row[i], at |-> Len(txs)]
  BY <1>1 DEF Chosen
<1>3. MoveTyped'
  <2>1. \A i \in is : row[i] \in Row /\ Len(txs) \in Nat
    BY LogCounts DEF RowTyped
  <2>2. \A i \in is : move'[i] \in Copied
    BY <1>2, <2>1 DEF Copied
  <2> QED  BY <1>2, <2>2 DEF MoveTyped
<1> QED
  BY <1>2, <1>3 DEF Plain, Changes, Copy, RowTyped, ArchiveTyped, LogTyped, ReqTyped, SiemTyped, DlqTyped

LEMMA MovedStep ==
  ASSUME Typed, Plain, Moved
  PROVE  /\ Typed' /\ Plain'
         /\ \A i \in Ids : IF i \in DOMAIN move THEN row'[i] = None /\ archive'[i] = move[i]
                           ELSE row'[i] = row[i] /\ archive'[i] = archive[i]
<1> USE DEF Typed
<1>1. DOMAIN move \subseteq Ids /\ \A i \in DOMAIN move : move[i] \in Copied
  BY DEF MoveTyped, Moved
<1>2. row' = [i \in Ids |-> IF i \in DOMAIN move THEN None ELSE row[i]]
  BY DEF Moved
<1>3. archive' = [i \in Ids |-> IF i \in DOMAIN move THEN move[i] ELSE archive[i]]
  BY DEF Moved
<1>4. RowTyped' /\ ArchiveTyped'
  BY <1>1, <1>2, <1>3 DEF RowTyped, ArchiveTyped
<1>5. LogTyped'
  <2>1. UNCHANGED txs /\ commits' = commits + 1 /\ commits < MaxCommits
    BY DEF Moved, Commits
  <2> QED  BY <2>1, LogCounts DEF LogTyped
<1>6. MoveTyped' /\ ReqTyped' /\ SiemTyped' /\ DlqTyped'
  BY DEF MoveTyped, ReqTyped, SiemTyped, DlqTyped, Moved
<1> QED  BY <1>2, <1>3, <1>4, <1>5, <1>6 DEF Plain, Changes, Moved

LEMMA NotMovedStep ==
  ASSUME Typed, Plain, NotMoved PROVE Typed' /\ Plain'
BY DEF Typed, Plain, Changes, NotMoved, RowTyped, ArchiveTyped, MoveTyped, LogTyped, ReqTyped,
       SiemTyped, DlqTyped

LEMMA CrashStep ==
  ASSUME Typed, Plain, Crash PROVE Typed' /\ Plain'
BY DEF Typed, Plain, Changes, Crash, RowTyped, ArchiveTyped, MoveTyped, LogTyped, ReqTyped,
       SiemTyped, DlqTyped, aged

-----------------------------------------------------------------------------
(* The dead letter queue: its counters and those of the retries in flight. *)

Counts == /\ RetriesAreCounted
          /\ \A s \in Slots : req[s] # None /\ req[s].op = "retry" =>
               dlq[req[s].of] # None /\ req[s].count <= granted[req[s].of]

LEMMA Init_Counts == Init => Counts
BY DEF Init, Counts, RetriesAreCounted

LEMMA OpenEntry ==
  ASSUME Typed, NEW e \in Entries, dlq[e] # None
  PROVE  /\ dlq[e].count \in 0 .. MaxRetries /\ dlq[e].permanent \in BOOLEAN
         /\ dlq[e].dismissed \in BOOLEAN /\ granted[e] \in Nat /\ MaxRetries \in Nat \ {0}
         /\ dlq[e] \in Dead
<1>1. dlq[e] \in Dead
  BY DEF Typed, DlqTyped
<1> QED  BY <1>1, IncidentsAssumption DEF Dead, Typed, DlqTyped

LEMMA NewEntryOfQueue ==
  ASSUME Typed, Plain, Counts, NEW e \in Entries, Enqueue(e)
  PROVE  Typed' /\ Plain' /\ Counts'
<1> DEFINE x == [count |-> 0, permanent |-> FALSE, dismissed |-> FALSE]
<1>1. x \in Dead /\ MaxRetries \in Nat \ {0}
  BY Limits DEF Dead
<1>2. dlq' = [dlq EXCEPT ![e] = x] /\ UNCHANGED <<row, txs, req, siem, granted, aged>>
      /\ commits' = commits + 1 /\ commits < MaxCommits
  BY DEF Enqueue, Commits
<1>3. LogTyped'
  BY <1>2, LogCounts DEF Typed, LogTyped
<1>4. DlqTyped'
  BY <1>1, <1>2 DEF Typed, DlqTyped
<1>5. x.count = 0 /\ x.permanent = FALSE /\ granted[e] \in Nat /\ x # None
  BY <1>1, DeadIsNotNone DEF Typed, DlqTyped
<1> HIDE DEF x
<1>6. dlq'[e] = x /\ \A d \in Entries \ {e} : dlq'[d] = dlq[d]
  BY <1>2 DEF Typed, DlqTyped
<1>7. RetriesAreCounted'
  BY <1>1, <1>2, <1>5, <1>6 DEF Counts, RetriesAreCounted
<1>8. \A s \in Slots : req'[s] # None /\ req'[s].op = "retry" =>
         dlq'[req'[s].of] # None /\ req'[s].count <= granted'[req'[s].of]
  BY <1>2, <1>5, <1>6 DEF Counts, Typed, ReqTyped, ReportReq, ChangeReq, RetryReq, ChangeOps, DlqTyped
<1> QED
  BY <1>2, <1>3, <1>4, <1>7, <1>8 DEF Typed, Plain, Changes, RowTyped, ArchiveTyped, MoveTyped, ReqTyped,
                                      SiemTyped, aged, Counts

LEMMA LoadRetryStep ==
  ASSUME Typed, Plain, Counts, NEW s \in Slots, NEW e \in Entries, LoadRetry(s, e)
  PROVE  Typed' /\ Plain' /\ Counts'
<1> DEFINE q == [op |-> "retry", of |-> e, count |-> dlq[e].count]
<1>1. /\ dlq[e] # None /\ dlq[e].count \in 0 .. MaxRetries - 1 /\ dlq[e].count <= granted[e]
  BY OpenEntry DEF LoadRetry, Counts, RetriesAreCounted
<1>2. q \in RetryReq /\ q.op = "retry" /\ q.of = e /\ q.count <= granted[e]
  BY <1>1 DEF RetryReq
<1>3. req' = [req EXCEPT ![s] = q] /\ UNCHANGED <<row, txs, siem, dlq, granted, commits, aged>>
  BY DEF LoadRetry
<1> HIDE DEF q
<1>4. req'[s] = q /\ \A z \in Slots \ {s} : req'[z] = req[z]
  BY <1>3 DEF Typed, ReqTyped
<1>5. ReqTyped'
  BY <1>2, <1>3 DEF Typed, ReqTyped
<1>6. \A z \in Slots : req'[z] # None /\ req'[z].op = "retry" =>
         dlq'[req'[z].of] # None /\ req'[z].count <= granted'[req'[z].of]
  BY <1>1, <1>2, <1>3, <1>4 DEF Counts
<1>7. \A z \in Slots : Changes(z)' => Changes(z) /\ req'[z] = req[z]
  BY <1>2, <1>4 DEF Changes
<1> QED
  BY <1>3, <1>5, <1>6, <1>7 DEF Typed, Plain, RowTyped, ArchiveTyped, MoveTyped, LogTyped, SiemTyped,
                                DlqTyped, aged, Counts, RetriesAreCounted

LEMMA CommitRetryStep ==
  ASSUME Typed, Plain, Counts, NEW s \in Slots, CommitRetry(s)
  PROVE  Typed' /\ Plain' /\ Counts'
<1> DEFINE e == req[s].of
           n == req[s].count + 1
           p == dlq[e].permanent \/ Exhausted(n)
           x == [dlq[e] EXCEPT !.count = n, !.permanent = p]
<1>1. req[s] \in RetryReq
  BY DEF CommitRetry, Typed, ReqTyped, ReportReq, ChangeReq, RetryReq, ChangeOps
<1>2. e \in Entries /\ n \in 1 .. MaxRetries /\ MaxRetries \in Nat \ {0}
  BY <1>1, Limits DEF RetryReq
<1>3. dlq[e] # None /\ n <= granted[e] + 1
  BY <1>1, <1>2 DEF Counts, CommitRetry, RetryReq, Typed, DlqTyped
<1>4. /\ dlq[e] \in Dead /\ dlq[e].permanent \in BOOLEAN /\ granted[e] \in Nat
  BY <1>2, <1>3, OpenEntry
<1>5. /\ x \in Dead /\ x.count = n /\ x.permanent \in BOOLEAN
      /\ x.permanent <=> (dlq[e].permanent \/ n >= MaxRetries)
  <2>1. p \in BOOLEAN /\ (p <=> (dlq[e].permanent \/ n >= MaxRetries))
    BY DEF Exhausted
  <2>2. n \in 0 .. MaxRetries
    BY <1>2
  <2> HIDE DEF p, n
  <2> QED  BY <1>4, <2>1, <2>2 DEF Dead
<1>6. x # None
  BY <1>5, DeadIsNotNone
<1>7. /\ dlq' = [dlq EXCEPT ![e] = x]
      /\ granted' = [granted EXCEPT ![e] = @ + 1]
      /\ req' = [req EXCEPT ![s] = None] /\ UNCHANGED <<row, txs, siem, aged>>
      /\ commits' = commits + 1 /\ commits < MaxCommits
  <2>1. dlq' = [dlq EXCEPT ![e].count = n, ![e].permanent = @ \/ Exhausted(n)]
    BY DEF CommitRetry
  <2>2. dlq' = [dlq EXCEPT ![e] = [@ EXCEPT !.count = n, !.permanent = p]]
    BY <1>2, <1>4, <2>1 DEF Typed, DlqTyped, Dead
  <2> QED  BY <2>2 DEF CommitRetry, Commits
<1> HIDE DEF e, n, p, x
<1>8. /\ dlq'[e] = x /\ granted'[e] = granted[e] + 1
      /\ \A d \in Entries \ {e} : dlq'[d] = dlq[d] /\ granted'[d] = granted[d]
      /\ \A d \in Entries : granted[d] \in Nat
  BY <1>2, <1>7 DEF Typed, DlqTyped
<1>9. DlqTyped' /\ ReqTyped'
  BY <1>2, <1>4, <1>5, <1>7 DEF Typed, DlqTyped, ReqTyped
<1>10. LogTyped'
  BY <1>7, LogCounts DEF Typed, LogTyped
<1>11. RetriesAreCounted'
  <2> SUFFICES ASSUME NEW d \in Entries, dlq'[d] # None
               PROVE  /\ dlq'[d].count <= granted'[d]
                      /\ dlq'[d].permanent => granted'[d] >= MaxRetries
                      /\ ~dlq'[d].permanent => dlq'[d].count < MaxRetries
    BY DEF RetriesAreCounted
  <2>1. CASE d # e
    BY <2>1, <1>8 DEF Counts, RetriesAreCounted
  <2>2. CASE d = e
    <3>1. dlq[e].permanent => granted[e] >= MaxRetries
      BY <1>2, <1>3 DEF Counts, RetriesAreCounted
    <3>2. CASE dlq'[d].permanent
      BY <3>1, <3>2, <2>2, <1>2, <1>3, <1>4, <1>5, <1>8
    <3>3. CASE ~dlq'[d].permanent
      BY <3>3, <2>2, <1>2, <1>3, <1>4, <1>5, <1>8
    <3> QED  BY <3>2, <3>3
  <2> QED  BY <2>1, <2>2
<1>12. \A z \in Slots : req'[z] # None /\ req'[z].op = "retry" =>
          dlq'[req'[z].of] # None /\ req'[z].count <= granted'[req'[z].of]
  <2> SUFFICES ASSUME NEW z \in Slots, req'[z] # None, req'[z].op = "retry"
               PROVE  dlq'[req'[z].of] # None /\ req'[z].count <= granted'[req'[z].of]
    OBVIOUS
  <2>1. req'[z] = req[z]
    BY <1>7 DEF Typed, ReqTyped
  <2>2. req[z] \in RetryReq
    BY <2>1 DEF Typed, ReqTyped, ReportReq, ChangeReq, RetryReq, ChangeOps
  <2>3. req[z].of \in Entries /\ req[z].count \in Nat
    BY <2>2, <1>2 DEF RetryReq
  <2>4. dlq[req[z].of] # None /\ req[z].count <= granted[req[z].of]
    BY <2>1 DEF Counts
  <2> QED  BY <2>1, <2>3, <2>4, <1>6, <1>8
<1>13. \A z \in Slots : Changes(z)' => Changes(z) /\ req'[z] = req[z]
  BY <1>7 DEF Changes, Typed, ReqTyped
<1> QED
  BY <1>7, <1>9, <1>10, <1>11, <1>12, <1>13 DEF Typed, Plain, RowTyped, ArchiveTyped, MoveTyped, SiemTyped,
                                                aged, Counts

LEMMA DismissStep ==
  ASSUME Typed, Plain, Counts, NEW e \in Entries, Dismiss(e)
  PROVE  Typed' /\ Plain' /\ Counts'
<1> DEFINE x == [dlq[e] EXCEPT !.dismissed = TRUE]
<1>1. dlq[e] \in Dead
  BY OpenEntry DEF Dismiss
<1>2. x \in Dead /\ x.count = dlq[e].count /\ x.permanent = dlq[e].permanent
  BY <1>1 DEF Dead
<1>3. x # None
  BY <1>2, DeadIsNotNone
<1>4. /\ dlq' = [dlq EXCEPT ![e] = x] /\ UNCHANGED <<row, txs, req, siem, granted, aged>>
      /\ commits' = commits + 1 /\ commits < MaxCommits
  BY <1>1 DEF Dismiss, Commits, Dead
<1> HIDE DEF x
<1>5. dlq'[e] = x /\ dlq[e] # None /\ \A d \in Entries \ {e} : dlq'[d] = dlq[d]
  BY <1>4 DEF Dismiss, Typed, DlqTyped
<1>6. DlqTyped'
  BY <1>2, <1>4 DEF Typed, DlqTyped
<1>7. LogTyped'
  BY <1>4, LogCounts DEF Typed, LogTyped
<1>8. RetriesAreCounted'
  BY <1>2, <1>4, <1>5 DEF Counts, RetriesAreCounted
<1>9. \A z \in Slots : req'[z] # None /\ req'[z].op = "retry" =>
         dlq'[req'[z].of] # None /\ req'[z].count <= granted'[req'[z].of]
  BY <1>3, <1>4, <1>5 DEF Counts, Typed, ReqTyped, ReportReq, ChangeReq, RetryReq, ChangeOps, DlqTyped
<1> QED
  BY <1>4, <1>6, <1>7, <1>8, <1>9 DEF Typed, Plain, Changes, RowTyped, ArchiveTyped, MoveTyped, ReqTyped,
                                      SiemTyped, aged, Counts

-----------------------------------------------------------------------------
(* What the log says of rows, snapshots and copies.                        *)

Known(i) == row[i] # None \/ archive[i] # None
KnownAfter(i) == row'[i] # None \/ archive'[i] # None
\* r is what the first n transactions of q made of incident i.
Replayed(q, i, n, r) ==
  /\ n \in 0 .. Len(q) /\ r.custom_attributes = None
  /\ \A f \in Fields : Holds(q, i, f, n, r[f])

SmartOps == {"set_status", "escalate", "smart_note"}
OldValues(q, t) ==
  t.op # "report" => \A h \in t.history : Holds(q, t.inc, h.field, t.seen, h.old)
\* Of a transaction t, the n-th of q.
Accepted(q, n, t) ==
  t.op = "update" => \A f \in DOMAIN t.audit :
    \/ t.audit[f] = None
    \/ Holds(q, t.inc, f, n, t.audit[f])
    \/ /\ f # "custom_attributes" /\ Holds(q, t.inc, f, t.seen, t.audit[f])
       /\ \E m \in t.seen + 1 .. n - 1 : q[m].inc = t.inc /\ EntryIn(q, m, f) # {}
    \/ f = "custom_attributes" /\ Holds(q, t.inc, f, n, None)
Audited(t) ==
  t.op # "report" /\ (t.history # {} \/ t.note) => (t.audit = None <=> t.op \in SmartOps)
Fact(q, n) ==
  /\ q[n].seen \in 0 .. n - 1 /\ OldValues(q, q[n]) /\ Accepted(q, n, q[n]) /\ Audited(q[n])

Facts == \A n \in 1 .. Len(txs) : Fact(txs, n)
RowsReplay == \A i \in Ids : row[i] # None => /\ archive[i] = None
                                              /\ Replayed(txs, i, Len(txs), row[i])
ArchiveReplays ==
  \A i \in Ids : archive[i] # None => Replayed(txs, i, archive[i].at, archive[i].row)
SnapsReplay ==
  \A s \in Slots : Changes(s) =>
    Known(req[s].of) /\ Replayed(txs, req[s].of, req[s].seen, req[s].snap)
MoveReplays ==
  move # None => \A i \in DOMAIN move :
    /\ row[i] # None /\ Replayed(txs, i, move[i].at, move[i].row)
    /\ move[i].row.channel = row[i].channel /\ move[i].row.action = row[i].action
AllKnown == \A n \in 1 .. Len(txs) : Known(txs[n].inc)
Customs == \A i \in Ids : Known(i) => Holds(txs, i, "custom_attributes", Len(txs), None)

Replays == /\ Facts /\ RowsReplay /\ ArchiveReplays /\ SnapsReplay /\ MoveReplays
           /\ AllKnown /\ Customs /\ Asked

\* What was said of a log is true of a longer one.
LEMMA LongerReplay ==
  ASSUME NEW q, NEW r, Len(q) \in Nat, Len(r) \in Nat, Len(q) <= Len(r),
         \A k \in 1 .. Len(q) : r[k] = q[k],
         NEW i, NEW n, NEW x, Replayed(q, i, n, x)
  PROVE  Replayed(r, i, n, x)
<1>1. n \in Nat /\ n \in 0 .. Len(q) /\ n \in 0 .. Len(r)
  BY DEF Replayed
<1>2. \A k \in 1 .. n : r[k] = q[k]
  BY <1>1
<1>3. \A f \in Fields : Holds(r, i, f, n, x[f])
  BY <1>1, <1>2, SamePrefix DEF Replayed
<1> QED  BY <1>1, <1>3 DEF Replayed

LEMMA LongerFact ==
  ASSUME NEW q, NEW r, NEW n \in Nat \ {0}, \A k \in 1 .. n : r[k] = q[k], Fact(q, n)
  PROVE  Fact(r, n)
<1> DEFINE t == q[n]
<1>1. r[n] = t /\ t.seen \in 0 .. n - 1 /\ t.seen \in Nat
  BY DEF Fact
<1>2. \A k \in 1 .. t.seen : r[k] = q[k]
  BY <1>1
<1>3. OldValues(q, t) /\ Accepted(q, n, t) /\ Audited(t)
  BY DEF Fact
<1> HIDE DEF t
<1>4. OldValues(r, t)
  BY <1>1, <1>2, <1>3, SamePrefix DEF OldValues
<1>5. Accepted(r, n, t)
  <2> SUFFICES ASSUME t.op = "update", NEW f \in DOMAIN t.audit
               PROVE  \/ t.audit[f] = None
                      \/ Holds(r, t.inc, f, n, t.audit[f])
                      \/ /\ f # "custom_attributes" /\ Holds(r, t.inc, f, t.seen, t.audit[f])
                         /\ \E m \in t.seen + 1 .. n - 1 : r[m].inc = t.inc /\ EntryIn(r, m, f) # {}
                      \/ f = "custom_attributes" /\ Holds(r, t.inc, f, n, None)
    BY DEF Accepted
  <2>1. CASE t.audit[f] = None
    BY <2>1
  <2>2. CASE Holds(q, t.inc, f, n, t.audit[f])
    BY <2>2, SamePrefix
  <2>3. CASE /\ f # "custom_attributes" /\ Holds(q, t.inc, f, t.seen, t.audit[f])
             /\ \E m \in t.seen + 1 .. n - 1 : q[m].inc = t.inc /\ EntryIn(q, m, f) # {}
    <3>1. Holds(r, t.inc, f, t.seen, t.audit[f])
      BY <1>1, <1>2, <2>3, SamePrefix
    <3>2. PICK m \in t.seen + 1 .. n - 1 : q[m].inc = t.inc /\ EntryIn(q, m, f) # {}
      BY <2>3
    <3>3. r[m] = q[m]
      BY <1>1, <3>2
    <3>4. EntryIn(r, m, f) = EntryIn(q, m, f)
      BY <3>3 DEF EntryIn
    <3> QED  BY <2>3, <3>1, <3>2, <3>3, <3>4
  <2>4. CASE f = "custom_attributes" /\ Holds(q, t.inc, f, n, None)
    BY <2>4, SamePrefix
  <2> QED  BY <1>3, <2>1, <2>2, <2>3, <2>4 DEF Accepted
<1> QED  BY <1>1, <1>3, <1>4, <1>5 DEF Fact

\* The log after a transaction.
LEMMA LogAfter ==
  ASSUME Typed, NEW t, Logged(t)
  PROVE  /\ Len(txs) \in Nat /\ Len(txs') = Len(txs) + 1 /\ t \in TxRec
         /\ txs'[Len(txs) + 1] = t
         /\ \A k \in 1 .. Len(txs) : txs'[k] = txs[k]
         /\ \A k \in 1 .. Len(txs) : txs[k] \in TxRec
BY LogCounts DEF Typed, LogTyped, Logged

LEMMA CarriedOver ==
  ASSUME Typed, NEW t, Logged(t), NEW i, NEW f, NEW v, Holds(txs, i, f, Len(txs), v),
         t.inc = i => \A h \in t.history : h.field # f
  PROVE  Holds(txs', i, f, Len(txs) + 1, v)
<1>1. Holds(txs', i, f, Len(txs), v)
  BY LogAfter, SamePrefix
<1>2. \A k \in Len(txs) + 1 .. Len(txs) + 1 : txs'[k].inc = i => EntryIn(txs', k, f) = {}
  BY LogAfter DEF EntryIn
<1> HIDE DEF Logged
<1> QED  BY <1>1, <1>2, LogAfter, NoEntry

\* What a transaction does not change: everything about earlier ones, and what is known
\* of the other incidents.
LEMMA LoggedReplays ==
  ASSUME Typed, Replays, NEW t, Logged(t)
  PROVE  /\ \A n \in 1 .. Len(txs) : Fact(txs', n)
         /\ \A i, n, x : Replayed(txs, i, n, x) => Replayed(txs', i, n, x)
         /\ \A i, x : t.inc # i /\ Replayed(txs, i, Len(txs), x) => Replayed(txs', i, Len(txs'), x)
         /\ \A i : (t.inc = i => \A h \in t.history : h.field # "custom_attributes")
                   /\ Holds(txs, i, "custom_attributes", Len(txs), None)
                   => Holds(txs', i, "custom_attributes", Len(txs'), None)
<1>1. \A n \in 1 .. Len(txs) : Fact(txs', n)
  <2> SUFFICES ASSUME NEW n \in 1 .. Len(txs) PROVE Fact(txs', n)
    OBVIOUS
  <2>1. Fact(txs, n) /\ n \in Nat \ {0} /\ \A k \in 1 .. n : txs'[k] = txs[k]
    BY LogAfter DEF Replays, Facts
  <2> QED  BY <2>1, LongerFact
<1>2. ASSUME NEW i, NEW n, NEW x, Replayed(txs, i, n, x) PROVE Replayed(txs', i, n, x)
  <2>1. /\ Len(txs) \in Nat /\ Len(txs') \in Nat /\ Len(txs) <= Len(txs')
        /\ \A k \in 1 .. Len(txs) : txs'[k] = txs[k]
    BY LogAfter
  <2> QED  BY <1>2, <2>1, LongerReplay
<1>3. ASSUME NEW i, NEW x, t.inc # i, Replayed(txs, i, Len(txs), x) PROVE Replayed(txs', i, Len(txs'), x)
  <2>1. \A f \in Fields : Holds(txs', i, f, Len(txs) + 1, x[f])
    BY <1>3, CarriedOver DEF Replayed
  <2>2. Len(txs') = Len(txs) + 1 /\ Len(txs') \in 0 .. Len(txs')
    BY LogAfter
  <2> QED  BY <1>3, <2>1, <2>2 DEF Replayed
<1>4. ASSUME NEW i, t.inc = i => \A h \in t.history : h.field # "custom_attributes",
             Holds(txs, i, "custom_attributes", Len(txs), None)
      PROVE  Holds(txs', i, "custom_attributes", Len(txs'), None)
  BY <1>4, CarriedOver, LogAfter
<1> QED  BY <1>1, <1>2, <1>3, <1>4

-----------------------------------------------------------------------------
(* Steps that commit a transaction.                                        *)

\* What LoggedReplays leaves to each of them.
LEMMA FactsGrow ==
  ASSUME Typed, Replays, NEW t, Logged(t), Fact(txs', Len(txs) + 1)
  PROVE  Facts'
<1>1. \A n \in 1 .. Len(txs') : n \in 1 .. Len(txs) \/ n = Len(txs) + 1
  BY LogAfter
<1> QED  BY <1>1, LoggedReplays DEF Facts

LEMMA KnownGrows ==
  ASSUME Typed, Replays, NEW t, Logged(t), \A i : Known(i) => KnownAfter(i), KnownAfter(t.inc)
  PROVE  AllKnown'
<1>1. \A n \in 1 .. Len(txs') : n \in 1 .. Len(txs) \/ n = Len(txs) + 1
  BY LogAfter
<1>2. \A n \in 1 .. Len(txs) : txs'[n] = txs[n] /\ Known(txs[n].inc)
  BY LogAfter DEF Replays, AllKnown
<1>3. txs'[Len(txs) + 1] = t
  BY LogAfter
<1> SUFFICES ASSUME NEW n \in 1 .. Len(txs') PROVE KnownAfter(txs'[n].inc)
  BY DEF AllKnown, Known, KnownAfter
<1>4. CASE n \in 1 .. Len(txs)
  BY <1>2, <1>4
<1>5. CASE n = Len(txs) + 1
  BY <1>3, <1>5
<1> QED  BY <1>1, <1>4, <1>5

LEMMA ReportReplays ==
  ASSUME Typed, Plain, Replays, NEW s \in Slots, NEW i \in Ids, NEW r \in Reports, Report(s, i, r)
  PROVE  Replays'
<1> DEFINE t == Tx("report", i, First(Stored(r)), FALSE, None, Len(txs))
           n == Len(txs) + 1
<1>1. Logged(t)
  BY ReportStep
<1>2. /\ t.op = "report" /\ t.inc = i /\ t.history = First(Stored(r)) /\ t.seen = Len(txs)
  BY DEF Tx
<1>3. /\ row[i] = None /\ archive[i] = None
      /\ row' = [row EXCEPT ![i] = Stored(r)] /\ UNCHANGED <<archive, move>>
      /\ req' = [req EXCEPT ![s] = [op |-> "report", of |-> i, report |-> r]]
  BY DEF Report, aged
<1>4. Stored(r) # None /\ Stored(r).custom_attributes = None
  <2>1. Stored(r) \in Row /\ Stored(r).custom_attributes = None
    BY ReportTypes
  <2> HIDE DEF Stored
  <2> QED  BY <2>1, IncidentsAssumption
<1>5. row'[i] = Stored(r) /\ \A j \in Ids \ {i} : row'[j] = row[j]
  BY <1>3 DEF Typed, RowTyped
<1> HIDE DEF t
<1>6. Len(txs) \in Nat /\ Len(txs') = n /\ txs'[n] = t
  BY <1>1, LogAfter
<1>7. \A f \in Fields : Holds(txs', i, f, n, Stored(r)[f])
  <2> SUFFICES ASSUME NEW f \in Fields PROVE Holds(txs', i, f, n, Stored(r)[f])
    OBVIOUS
  <2> DEFINE h == [field |-> f, old |-> None, new |-> Stored(r)[f]]
  <2>1. EntryIn(txs', n, f) = {h}
    BY <1>2, <1>6 DEF EntryIn, First
  <2>2. h.new = Stored(r)[f] /\ n \in Nat \ {0} /\ txs'[n].inc = i
    BY <1>2, <1>6
  <2> HIDE DEF h
  <2> QED  BY <2>1, <2>2, NewEntry
<1>8. Facts'
  <2>1. Fact(txs', n)
    BY <1>2, <1>6 DEF Fact, OldValues, Accepted, Audited
  <2> QED  BY <1>1, <2>1, FactsGrow
<1>9. RowsReplay'
  <2>1. Replayed(txs', i, Len(txs'), Stored(r))
    BY <1>4, <1>6, <1>7 DEF Replayed
  <2>2. \A j \in Ids \ {i} : row[j] # None => archive[j] = None /\ Replayed(txs', j, Len(txs'), row[j])
    BY <1>1, <1>2, LoggedReplays DEF Replays, RowsReplay
  <2> QED  BY <1>3, <1>5, <2>1, <2>2 DEF RowsReplay
<1>10. ArchiveReplays'
  BY <1>1, <1>3, LoggedReplays DEF Replays, ArchiveReplays
<1>11. \A j : Known(j) => KnownAfter(j)
  BY <1>3, <1>4, <1>5 DEF Known, KnownAfter, Typed, RowTyped
<1>12. SnapsReplay'
  <2> SUFFICES ASSUME NEW z \in Slots, Changes(z)'
               PROVE  KnownAfter(req'[z].of) /\ Replayed(txs', req'[z].of, req'[z].seen, req'[z].snap)
    BY DEF SnapsReplay, Known, KnownAfter
  <2>1. Changes(z) /\ req'[z] = req[z]
    BY <1>3 DEF Changes, Typed, ReqTyped
  <2>2. Known(req[z].of) /\ Replayed(txs, req[z].of, req[z].seen, req[z].snap)
    BY <2>1 DEF Replays, SnapsReplay
  <2>3. Replayed(txs', req[z].of, req[z].seen, req[z].snap)
    BY <1>1, <2>2, LoggedReplays
  <2> QED  BY <1>11, <2>1, <2>2, <2>3
<1>13. MoveReplays'
  <2> SUFFICES ASSUME move # None, NEW j \in DOMAIN move
               PROVE  /\ row'[j] # None /\ Replayed(txs', j, move[j].at, move[j].row)
                      /\ move[j].row.channel = row'[j].channel /\ move[j].row.action = row'[j].action
    BY <1>3 DEF MoveReplays
  <2>1. /\ row[j] # None /\ Replayed(txs, j, move[j].at, move[j].row)
        /\ move[j].row.channel = row[j].channel /\ move[j].row.action = row[j].action /\ j \in Ids
    BY DEF Replays, MoveReplays, Typed, MoveTyped
  <2>2. j # i
    BY <1>3, <2>1
  <2> QED  BY <1>1, <1>5, <2>1, <2>2, LoggedReplays
<1>14. AllKnown'
  <2>1. KnownAfter(t.inc)
    BY <1>2, <1>4, <1>5 DEF KnownAfter
  <2> QED  BY <1>1, <1>11, <2>1, KnownGrows
<1>15. Customs'
  <2> SUFFICES ASSUME NEW j \in Ids, KnownAfter(j) PROVE Holds(txs', j, "custom_attributes", Len(txs'), None)
    BY DEF Customs, Known, KnownAfter
  <2>1. CASE j = i
    BY <2>1, <1>4, <1>6, <1>7 DEF Fields
  <2>2. CASE j # i
    <3>1. Known(j)
      BY <2>2, <1>3, <1>5 DEF Known, KnownAfter
    <3> QED  BY <3>1, <2>2, <1>1, <1>2, LoggedReplays DEF Replays, Customs
  <2> QED  BY <2>1, <2>2
<1>16. Asked'
  BY <1>3 DEF Asked, Changes, Replays, Typed, ReqTyped
<1> QED  BY <1>8, <1>9, <1>10, <1>12, <1>13, <1>14, <1>15, <1>16 DEF Replays

\* The entries of a change: one for each field written.
LEMMA HistoryEntries ==
  ASSUME NEW data \in Datas, NEW snap \in Row, snap.custom_attributes = None, NEW f
  PROVE  {h \in History(snap, data) : h.field = f} =
           IF f \in Written(snap, data) THEN {[field |-> f, old |-> snap[f], new |-> data[f]]} ELSE {}
<1>1. Written(snap, data) \subseteq {"status", "severity"}
  BY WrittenTypes
<1>2. \A h \in History(snap, data) : \E g \in Written(snap, data) :
         h = [field |-> g, old |-> snap[g], new |-> data[g]]
  BY <1>1 DEF History
<1>3. \A g \in Written(snap, data) : [field |-> g, old |-> snap[g], new |-> data[g]] \in History(snap, data)
  BY <1>1 DEF History
<1> HIDE DEF History, Written
<1>4. CASE f \in Written(snap, data)
  BY <1>2, <1>3, <1>4
<1>5. CASE f \notin Written(snap, data)
  BY <1>2, <1>5
<1> QED  BY <1>4, <1>5

\* What a change adds to the log.
LEMMA ChangeLogged ==
  ASSUME Typed, Plain, Replays, NEW s \in Slots, Changes(s), Logged(UpdateTx(req[s]))
  PROVE  /\ Fact(txs', Len(txs) + 1)
         /\ \A f \in Written(req[s].snap, req[s].data) :
              Holds(txs', req[s].of, f, Len(txs) + 1, req[s].data[f])
         /\ \A f, v : /\ f \notin Written(req[s].snap, req[s].data)
                      /\ Holds(txs, req[s].of, f, Len(txs), v)
                      => Holds(txs', req[s].of, f, Len(txs) + 1, v)
         /\ \A h \in History(req[s].snap, req[s].data) : h.field # "custom_attributes"
<1> DEFINE q == req[s]
           t == UpdateTx(q)
           W == Written(q.snap, q.data)
           n == Len(txs) + 1
<1>1. q \in ChangeReq /\ q.snap.custom_attributes = None
  BY ChangeOf
<1>2. /\ q.of \in Ids /\ q.data \in Datas /\ q.snap \in Row /\ q.op \in ChangeOps
  BY <1>1 DEF ChangeReq
<1>3. /\ t.op = q.op /\ t.inc = q.of /\ t.history = History(q.snap, q.data) /\ t.seen = q.seen
      /\ t.audit = IF q.op = "update" THEN q.data ELSE None
  BY DEF UpdateTx, Tx
<1>4. /\ Known(q.of) /\ q.seen \in 0 .. Len(txs)
      /\ \A f \in Fields : Holds(txs, q.of, f, q.seen, q.snap[f])
  BY DEF Replays, SnapsReplay, Replayed
<1>5. q.op = "update" => q.data \in Updates
  BY DEF Replays, Asked
<1>6. W \subseteq {"status", "severity"} /\ W \subseteq DOMAIN q.data /\ DOMAIN q.data \subseteq Fields
  BY <1>1, <1>2, WrittenTypes, DataTypes
<1>7. \A f : {h \in t.history : h.field = f} =
               IF f \in W THEN {[field |-> f, old |-> q.snap[f], new |-> q.data[f]]} ELSE {}
  BY <1>1, <1>2, <1>3, HistoryEntries
<1>8. \A h \in t.history : h.field \in W /\ h.old = q.snap[h.field]
  <2> SUFFICES ASSUME NEW h \in t.history PROVE h.field \in W /\ h.old = q.snap[h.field]
    OBVIOUS
  <2>1. h \in {g \in t.history : g.field = h.field}
    OBVIOUS
  <2>2. h.field \in W
    BY <2>1, <1>7
  <2>3. h = [field |-> h.field, old |-> q.snap[h.field], new |-> q.data[h.field]]
    BY <2>1, <2>2, <1>7
  <2> QED  BY <2>2, <2>3
<1>9. Logged(t)
  OBVIOUS
<1>10. \A f \in DOMAIN q.data :
          f \notin W => \/ q.data[f] = None
                        \/ f = "custom_attributes"
                        \/ q.data[f] = q.snap[f]
  BY DEF Written, Differs
<1> HIDE DEF t, W
<1>11. /\ Len(txs) \in Nat /\ n \in Nat \ {0} /\ txs'[n] = t /\ Len(txs') = n
       /\ \A k \in 1 .. Len(txs) : txs'[k] = txs[k]
  BY <1>9, LogAfter
<1>12. \A f : EntryIn(txs', n, f) =
                IF f \in W THEN {[field |-> f, old |-> q.snap[f], new |-> q.data[f]]} ELSE {}
  BY <1>7, <1>11 DEF EntryIn
<1>13. \A f \in W : Holds(txs', q.of, f, n, q.data[f])
  <2> SUFFICES ASSUME NEW f \in W PROVE Holds(txs', q.of, f, n, q.data[f])
    OBVIOUS
  <2> DEFINE h == [field |-> f, old |-> q.snap[f], new |-> q.data[f]]
  <2>1. EntryIn(txs', n, f) = {h} /\ h.new = q.data[f] /\ txs'[n].inc = q.of
    BY <1>3, <1>11, <1>12
  <2> HIDE DEF h
  <2> QED  BY <2>1, <1>11, NewEntry
<1>14. \A f, v : f \notin W /\ Holds(txs, q.of, f, Len(txs), v) => Holds(txs', q.of, f, n, v)
  <2> SUFFICES ASSUME NEW f, NEW v, f \notin W, Holds(txs, q.of, f, Len(txs), v)
               PROVE  Holds(txs', q.of, f, n, v)
    OBVIOUS
  <2>1. \A h \in t.history : h.field # f
    BY <1>8
  <2> QED  BY <1>9, <2>1, CarriedOver
<1>15. \A f \in Fields : Holds(txs', q.of, f, q.seen, q.snap[f])
  <2>1. q.seen \in Nat /\ \A k \in 1 .. q.seen : txs'[k] = txs[k]
    BY <1>4, <1>11
  <2> QED  BY <2>1, <1>4, SamePrefix
<1>16. OldValues(txs', t)
  BY <1>3, <1>6, <1>8, <1>15 DEF OldValues
<1>17. Accepted(txs', n, t)
  <2> SUFFICES ASSUME q.op = "update", NEW f \in DOMAIN q.data, q.data[f] # None
               PROVE  \/ Holds(txs', q.of, f, n, q.data[f])
                      \/ /\ f # "custom_attributes" /\ Holds(txs', q.of, f, q.seen, q.data[f])
                         /\ \E m \in q.seen + 1 .. n - 1 : txs'[m].inc = q.of /\ EntryIn(txs', m, f) # {}
                      \/ f = "custom_attributes" /\ Holds(txs', q.of, f, n, None)
    BY <1>3 DEF Accepted
  <2>1. CASE f \in W
    BY <2>1, <1>13
  <2>2. CASE f \notin W /\ f = "custom_attributes"
    BY <2>2, <1>2, <1>4, <1>14 DEF Replays, Customs
  <2>3. CASE f \notin W /\ f # "custom_attributes"
    <3>1. Holds(txs', q.of, f, q.seen, q.data[f])
      BY <2>3, <1>6, <1>10, <1>15
    <3>2. CASE \E m \in q.seen + 1 .. n - 1 : txs'[m].inc = q.of /\ EntryIn(txs', m, f) # {}
      BY <2>3, <3>1, <3>2
    <3>3. CASE \A m \in q.seen + 1 .. n - 1 : txs'[m].inc = q.of => EntryIn(txs', m, f) = {}
      <4>1. q.seen \in Nat /\ q.seen <= n /\ \A m \in q.seen + 1 .. n : m \in q.seen + 1 .. n - 1 \/ m = n
        BY <1>4, <1>11
      <4>2. EntryIn(txs', n, f) = {}
        BY <2>3, <1>12
      <4> QED  BY <3>1, <3>3, <4>1, <4>2, <1>11, NoEntry
    <3> QED  BY <3>2, <3>3
  <2> QED  BY <2>1, <2>2, <2>3
<1>18. Audited(t)
  BY <1>2, <1>3, <1>5, IncidentsAssumption DEF Audited, ChangeOps, SmartOps
<1>19. Fact(txs', n)
  BY <1>3, <1>4, <1>11, <1>16, <1>17, <1>18 DEF Fact
<1> QED  BY <1>3, <1>6, <1>8, <1>13, <1>14, <1>19 DEF W

\* What every transaction on an incident that is known leaves true: all but the rows.
LEMMA OthersReplay ==
  ASSUME Typed, Replays, NEW t, Logged(t), Fact(txs', Len(txs) + 1), UNCHANGED <<archive, move>>,
         \A i \in Ids : row'[i] # None <=> row[i] # None,
         \A h \in t.history : h.field # "custom_attributes", Known(t.inc), t.inc \in Ids,
         \A z \in Slots : Changes(z)' => Changes(z) /\ req'[z] = req[z]
  PROVE  Facts' /\ ArchiveReplays' /\ SnapsReplay' /\ AllKnown' /\ Customs' /\ Asked'
<1>1. Facts'
  BY FactsGrow
<1>2. ArchiveReplays'
  BY LoggedReplays DEF Replays, ArchiveReplays
<1>3. \A i \in Ids : Known(i) <=> KnownAfter(i)
  BY DEF Known, KnownAfter
<1>4. SnapsReplay'
  <2> SUFFICES ASSUME NEW z \in Slots, Changes(z)'
               PROVE  KnownAfter(req'[z].of) /\ Replayed(txs', req'[z].of, req'[z].seen, req'[z].snap)
    BY DEF SnapsReplay, Known, KnownAfter
  <2>1. Changes(z) /\ req'[z] = req[z]
    OBVIOUS
  <2>2. Known(req[z].of) /\ Replayed(txs, req[z].of, req[z].seen, req[z].snap)
    BY <2>1 DEF Replays, SnapsReplay
  <2>3. req[z].of \in Ids
    BY <2>1 DEF Typed, ReqTyped, Changes, ReportReq, ChangeReq, RetryReq, ChangeOps
  <2>4. Replayed(txs', req[z].of, req[z].seen, req[z].snap)
    BY <2>2, LoggedReplays
  <2> QED  BY <1>3, <2>1, <2>2, <2>3, <2>4
<1>5. AllKnown'
  <2>1. \A n \in 1 .. Len(txs') : n \in 1 .. Len(txs) \/ n = Len(txs) + 1
    BY LogAfter
  <2>2. \A n \in 1 .. Len(txs) : txs'[n] = txs[n] /\ Known(txs[n].inc) /\ txs[n].inc \in Ids
    BY LogAfter DEF Replays, AllKnown, TxRec
  <2>3. txs'[Len(txs) + 1] = t
    BY LogAfter
  <2> SUFFICES ASSUME NEW n \in 1 .. Len(txs') PROVE KnownAfter(txs'[n].inc)
    BY DEF AllKnown, Known, KnownAfter
  <2>4. CASE n \in 1 .. Len(txs)
    BY <1>3, <2>2, <2>4
  <2>5. CASE n = Len(txs) + 1
    BY <1>3, <2>3, <2>5
  <2> QED  BY <2>1, <2>4, <2>5
<1>6. Customs'
  <2> SUFFICES ASSUME NEW j \in Ids, KnownAfter(j)
               PROVE  Holds(txs', j, "custom_attributes", Len(txs'), None)
    BY DEF Customs, Known, KnownAfter
  <2> QED  BY <1>3, LoggedReplays DEF Replays, Customs
<1>7. Asked'
  BY DEF Asked, Changes, Replays
<1> QED  BY <1>1, <1>2, <1>4, <1>5, <1>6, <1>7

LEMMA CommitUpdateReplays ==
  ASSUME Typed, Plain, Replays, NEW s \in Slots, CommitUpdate(s)
  PROVE  Replays'
<1> DEFINE q == req[s]
           t == UpdateTx(q)
           c == Changed(row[q.of], q.snap, q.data)
<1>1. q \in ChangeReq /\ q.snap.custom_attributes = None /\ Changes(s)
  BY ChangeOf DEF CommitUpdate
<1>2. /\ q.of \in Ids /\ q.data \in Datas /\ q.snap \in Row
  BY <1>1 DEF ChangeReq
<1>3. Logged(t)
  BY CommitUpdateStep DEF Replays
<1>4. t.inc = q.of /\ t.history = History(q.snap, q.data)
  BY DEF UpdateTx, Tx
<1>5. /\ row[q.of] # None /\ row[q.of] \in Row
      /\ UNCHANGED <<archive, move>> /\ req' = [req EXCEPT ![s] = None]
  BY <1>2 DEF CommitUpdate, aged, Typed, RowTyped
<1>6. row' = [row EXCEPT ![q.of] = c]
  BY DEF CommitUpdate, Changed
<1>7. /\ c # None /\ c.custom_attributes = row[q.of].custom_attributes
      /\ c.channel = row[q.of].channel /\ c.action = row[q.of].action
      /\ \A f \in Fields : c[f] = IF f \in Written(q.snap, q.data) THEN q.data[f] ELSE row[q.of][f]
  <2>1. c \in Row
    BY <1>1, <1>2, <1>5, ChangedTypes
  <2>2. c # None
    BY <2>1, IncidentsAssumption
  <2> QED  BY <1>1, <1>2, <1>5, <2>2, ChangedTypes
<1>8. /\ Fact(txs', Len(txs) + 1)
      /\ \A f \in Written(q.snap, q.data) : Holds(txs', q.of, f, Len(txs) + 1, q.data[f])
      /\ \A f, v : f \notin Written(q.snap, q.data) /\ Holds(txs, q.of, f, Len(txs), v)
                   => Holds(txs', q.of, f, Len(txs) + 1, v)
      /\ \A h \in t.history : h.field # "custom_attributes"
  BY <1>1, <1>3, <1>4, ChangeLogged
<1> HIDE DEF c, t
<1>9. row'[q.of] = c /\ \A i \in Ids \ {q.of} : row'[i] = row[i]
  BY <1>2, <1>6 DEF Typed, RowTyped
<1>10. Len(txs) \in Nat /\ Len(txs') = Len(txs) + 1
  BY <1>3, LogAfter
<1>11. Facts' /\ ArchiveReplays' /\ SnapsReplay' /\ AllKnown' /\ Customs' /\ Asked'
  <2>1. \A i \in Ids : row'[i] # None <=> row[i] # None
    BY <1>5, <1>7, <1>9
  <2>2. \A z \in Slots : Changes(z)' => Changes(z) /\ req'[z] = req[z]
    BY <1>5 DEF Changes, Typed, ReqTyped
  <2>3. Known(t.inc) /\ t.inc \in Ids
    BY <1>2, <1>4, <1>5 DEF Known
  <2> QED  BY <1>3, <1>5, <1>8, <2>1, <2>2, <2>3, OthersReplay
<1>12. RowsReplay'
  <2>1. row[q.of].custom_attributes = None /\ archive[q.of] = None
        /\ \A f \in Fields : Holds(txs, q.of, f, Len(txs), row[q.of][f])
    BY <1>2, <1>5 DEF Replays, RowsReplay, Replayed
  <2>2. \A f \in Fields : Holds(txs', q.of, f, Len(txs'), c[f])
    BY <1>7, <1>8, <1>10, <2>1
  <2>3. Replayed(txs', q.of, Len(txs'), c)
    BY <1>7, <1>10, <2>1, <2>2 DEF Replayed
  <2>4. \A j \in Ids \ {q.of} :
          row[j] # None => archive[j] = None /\ Replayed(txs', j, Len(txs'), row[j])
    BY <1>3, <1>4, LoggedReplays DEF Replays, RowsReplay
  <2> QED  BY <1>5, <1>9, <2>1, <2>3, <2>4 DEF RowsReplay
<1>13. MoveReplays'
  <2> SUFFICES ASSUME move # None, NEW j \in DOMAIN move
               PROVE  /\ row'[j] # None /\ Replayed(txs', j, move[j].at, move[j].row)
                      /\ move[j].row.channel = row'[j].channel /\ move[j].row.action = row'[j].action
    BY <1>5 DEF MoveReplays
  <2>1. /\ row[j] # None /\ Replayed(txs, j, move[j].at, move[j].row)
        /\ move[j].row.channel = row[j].channel /\ move[j].row.action = row[j].action /\ j \in Ids
    BY DEF Replays, MoveReplays, Typed, MoveTyped
  <2>2. Replayed(txs', j, move[j].at, move[j].row)
    BY <1>3, <2>1, LoggedReplays
  <2> QED  BY <1>7, <1>9, <2>1, <2>2
<1> QED  BY <1>11, <1>12, <1>13 DEF Replays

\* A transaction without history changes no row.
LEMMA NoHistory ==
  ASSUME Typed, Replays, NEW t, Logged(t), t.history = {}, UNCHANGED <<row, archive, move>>
  PROVE  RowsReplay' /\ MoveReplays'
<1>1. Len(txs) \in Nat /\ Len(txs') = Len(txs) + 1
  BY LogAfter
<1>2. RowsReplay'
  <2> SUFFICES ASSUME NEW i \in Ids, row[i] # None
               PROVE  archive[i] = None /\ Replayed(txs', i, Len(txs'), row[i])
    BY DEF RowsReplay
  <2>1. archive[i] = None /\ row[i].custom_attributes = None
        /\ \A f \in Fields : Holds(txs, i, f, Len(txs), row[i][f])
    BY DEF Replays, RowsReplay, Replayed
  <2>2. \A f \in Fields : Holds(txs', i, f, Len(txs) + 1, row[i][f])
    BY <2>1, CarriedOver
  <2> QED  BY <1>1, <2>1, <2>2 DEF Replayed
<1>3. MoveReplays'
  <2> SUFFICES ASSUME move # None, NEW j \in DOMAIN move
               PROVE  /\ row[j] # None /\ Replayed(txs', j, move[j].at, move[j].row)
                      /\ move[j].row.channel = row[j].channel /\ move[j].row.action = row[j].action
    BY DEF MoveReplays
  <2> QED  BY LoggedReplays DEF Replays, MoveReplays
<1> QED  BY <1>2, <1>3

\* A step that commits nothing on incidents.
LEMMA QuietReplays ==
  ASSUME Replays, UNCHANGED <<row, archive, move, txs>>,
         \A z \in Slots : Changes(z)' => Changes(z) /\ req'[z] = req[z]
  PROVE  Replays'
<1>1. SnapsReplay' /\ Asked'
  BY DEF Replays, SnapsReplay, Asked, Known, Changes
<1> QED
  BY <1>1 DEF Replays, Facts, RowsReplay, ArchiveReplays, MoveReplays, AllKnown, Customs, Known

LEMMA VanishedReplays ==
  ASSUME Typed, Plain, Replays, NEW s \in Slots, Vanished(s)
  PROVE  Replays'
<1> DEFINE q == req[s]
<1>1. /\ UNCHANGED <<row, archive, move>> /\ Changes(s) /\ req' = [req EXCEPT ![s] = None]
  BY DEF Vanished, aged
<1>2. \A z \in Slots : Changes(z)' => Changes(z) /\ req'[z] = req[z]
  BY <1>1 DEF Changes, Typed, ReqTyped
<1>3. CASE UNCHANGED txs
  BY <1>1, <1>2, <1>3, QuietReplays
<1>4. CASE Logged(VanishedTx(q)) /\ q.op = "update" /\ Written(q.snap, q.data) = {}
  <2>1. History(q.snap, q.data) = {}
    BY <1>4 DEF History
  <2>2. UpdateTx(q) = VanishedTx(q)
    BY <1>4, <2>1 DEF UpdateTx, VanishedTx
  <2>3. VanishedTx(q).history = {} /\ VanishedTx(q).inc = q.of
    BY DEF VanishedTx, Tx
  <2>4. Fact(txs', Len(txs) + 1)
    BY <1>1, <1>4, <2>2, ChangeLogged
  <2>5. Known(q.of) /\ q.of \in Ids
    BY <1>1, ChangeOf DEF Replays, SnapsReplay, ChangeReq
  <2>6. Facts' /\ ArchiveReplays' /\ SnapsReplay' /\ AllKnown' /\ Customs' /\ Asked'
    BY <1>1, <1>2, <1>4, <2>3, <2>4, <2>5, OthersReplay
  <2> QED  BY <1>1, <1>4, <2>3, <2>6, NoHistory DEF Replays
<1> QED  BY <1>3, <1>4, VanishedStep DEF Replays

LEMMA AddNoteReplays ==
  ASSUME Typed, Plain, Replays, NEW s \in Slots, NEW i \in Ids, NEW op \in {"add_note", "smart_note"},
         AddNote(s, op, i)
  PROVE  Replays'
<1> DEFINE t == NoteTx(op, i)
<1>1. Logged(t)
  BY AddNoteStep
<1>2. /\ t.op = op /\ t.inc = i /\ t.history = {} /\ t.audit = Audit(op) /\ t.seen = Len(txs)
  BY DEF NoteTx, Tx
<1>3. row[i] # None /\ UNCHANGED <<row, archive, move, req>>
  BY DEF AddNote, aged
<1> HIDE DEF t
<1>4. Fact(txs', Len(txs) + 1)
  <2>1. Audited(t) /\ OldValues(txs', t) /\ Accepted(txs', Len(txs) + 1, t)
    BY <1>2, IncidentsAssumption DEF Audited, OldValues, Accepted, Audit, SmartOps
  <2> QED  BY <1>1, <1>2, <2>1, LogAfter DEF Fact
<1>5. Facts' /\ ArchiveReplays' /\ SnapsReplay' /\ AllKnown' /\ Customs' /\ Asked'
  <2>1. Known(t.inc) /\ t.inc \in Ids /\ \A h \in t.history : h.field # "custom_attributes"
    BY <1>2, <1>3 DEF Known
  <2>2. \A z \in Slots : Changes(z)' => Changes(z) /\ req'[z] = req[z]
    BY <1>3 DEF Changes
  <2> QED  BY <1>1, <1>3, <1>4, <2>1, <2>2, OthersReplay
<1> QED  BY <1>1, <1>2, <1>3, <1>5, NoHistory DEF Replays

-----------------------------------------------------------------------------
(* Steps of requests and of the archive job.                               *)

LEMMA LoadReplays ==
  ASSUME Typed, Plain, Replays, NEW s \in Slots, NEW op \in ChangeOps, NEW i \in Ids, NEW data \in Datas,
         op = "update" => data \in Updates, Load(s, op, i, data)
  PROVE  Replays'
<1> DEFINE q == [op |-> op, of |-> i, data |-> data, snap |-> row[i], seen |-> Len(txs)]
<1>1. q.op = op /\ q.of = i /\ q.data = data /\ q.snap = row[i] /\ q.seen = Len(txs)
  OBVIOUS
<1>2. /\ row[i] # None /\ req' = [req EXCEPT ![s] = q] /\ UNCHANGED <<row, archive, move, txs>>
  BY DEF Load, aged
<1> HIDE DEF q
<1>3. req'[s] = q /\ \A z \in Slots \ {s} : req'[z] = req[z]
  BY <1>2 DEF Typed, ReqTyped
<1>4. SnapsReplay'
  <2>1. Known(i) /\ Replayed(txs, i, Len(txs), row[i])
    BY <1>2 DEF Known, Replays, RowsReplay
  <2> SUFFICES ASSUME NEW z \in Slots, Changes(z)'
               PROVE  KnownAfter(req'[z].of) /\ Replayed(txs', req'[z].of, req'[z].seen, req'[z].snap)
    BY DEF SnapsReplay, Known, KnownAfter
  <2>2. CASE z = s
    BY <1>1, <1>2, <1>3, <2>1, <2>2 DEF Known, KnownAfter
  <2>3. CASE z # s
    <3>1. req'[z] = req[z] /\ Changes(z)
      BY <1>3, <2>3 DEF Changes
    <3> QED  BY <1>2, <3>1 DEF Replays, SnapsReplay, Known, KnownAfter
  <2> QED  BY <2>2, <2>3
<1>5. Asked'
  BY <1>1, <1>3 DEF Replays, Asked, Changes
<1> QED
  BY <1>2, <1>4, <1>5 DEF Replays, Facts, RowsReplay, ArchiveReplays, MoveReplays, AllKnown, Customs, Known

LEMMA CopyReplays ==
  ASSUME Typed, Plain, Replays, Copy
  PROVE  Replays'
<1>1. UNCHANGED <<row, archive, txs, req>>
  BY DEF Copy
<1>2. MoveReplays'
  <2> SUFFICES ASSUME NEW i \in DOMAIN move'
               PROVE  /\ row[i] # None /\ Replayed(txs, i, move'[i].at, move'[i].row)
                      /\ move'[i].row.channel = row[i].channel /\ move'[i].row.action = row[i].action
    BY <1>1 DEF MoveReplays
  <2>1. i \in Ids /\ row[i] # None /\ move'[i].at = Len(txs) /\ move'[i].row = row[i]
    BY CopyStep
  <2> QED  BY <2>1 DEF Replays, RowsReplay
<1> QED
  BY <1>1, <1>2 DEF Replays, Facts, RowsReplay, ArchiveReplays, SnapsReplay, AllKnown, Customs, Asked,
                    Known, Changes

\* What the deletion makes of the row of each incident.
LEMMA MovedRows ==
  ASSUME Typed, Plain, Replays, Moved
  PROVE  /\ UNCHANGED <<txs, req, siem>> /\ move' = None
         /\ \A i \in Ids :
              \/ /\ i \in DOMAIN move /\ row[i] # None /\ row'[i] = None
                 /\ archive'[i] = move[i] /\ move[i] # None
                 /\ Replayed(txs, i, move[i].at, move[i].row)
                 /\ move[i].row.channel = row[i].channel /\ move[i].row.action = row[i].action
              \/ i \notin DOMAIN move /\ row'[i] = row[i] /\ archive'[i] = archive[i]
<1>1. UNCHANGED <<txs, req, siem>> /\ move' = None /\ move # None
  BY DEF Moved
<1>2. \A i \in DOMAIN move : move[i] # None
  <2>1. \A i \in DOMAIN move : move[i] \in [row : Row, at : Nat]
    BY <1>1 DEF Typed, MoveTyped, Copied
  <2> QED  BY <2>1, IncidentsAssumption
<1>3. \A i \in DOMAIN move :
        /\ row[i] # None /\ Replayed(txs, i, move[i].at, move[i].row)
        /\ move[i].row.channel = row[i].channel /\ move[i].row.action = row[i].action
  BY <1>1 DEF Replays, MoveReplays
<1>4. \A i \in Ids : IF i \in DOMAIN move THEN row'[i] = None /\ archive'[i] = move[i]
                     ELSE row'[i] = row[i] /\ archive'[i] = archive[i]
  BY MovedStep
<1> QED  BY <1>1, <1>2, <1>3, <1>4

LEMMA MovedReplays ==
  ASSUME Typed, Plain, Replays, Moved
  PROVE  Replays'
<1>1. UNCHANGED <<txs, req>> /\ move' = None
  BY MovedRows
<1>2. \A i \in Ids : Known(i) <=> KnownAfter(i)
  BY MovedRows DEF Known, KnownAfter
<1>3. RowsReplay'
  BY MovedRows DEF Replays, RowsReplay
<1>4. ArchiveReplays'
  BY MovedRows DEF Replays, ArchiveReplays
<1>5. SnapsReplay'
  <2> SUFFICES ASSUME NEW z \in Slots, Changes(z)
               PROVE  KnownAfter(req[z].of) /\ Replayed(txs, req[z].of, req[z].seen, req[z].snap)
    BY <1>1 DEF SnapsReplay, Known, KnownAfter, Changes
  <2>1. req[z].of \in Ids
    BY ChangeOf DEF ChangeReq
  <2> QED  BY <1>2, <2>1 DEF Replays, SnapsReplay
<1>6. AllKnown'
  <2> SUFFICES ASSUME NEW n \in 1 .. Len(txs) PROVE KnownAfter(txs[n].inc)
    BY <1>1 DEF AllKnown, Known, KnownAfter
  <2>1. txs[n].inc \in Ids
    BY LogCounts DEF Typed, TxRec
  <2> QED  BY <1>2, <2>1 DEF Replays, AllKnown
<1>7. Customs'
  <2> SUFFICES ASSUME NEW i \in Ids, KnownAfter(i) PROVE Holds(txs, i, "custom_attributes", Len(txs), None)
    BY <1>1 DEF Customs, Known, KnownAfter
  <2> QED  BY <1>2 DEF Replays, Customs
<1>8. Facts' /\ MoveReplays' /\ Asked'
  BY <1>1 DEF Replays, Facts, MoveReplays, Asked, Changes
<1> QED  BY <1>3, <1>4, <1>5, <1>6, <1>7, <1>8 DEF Replays

-----------------------------------------------------------------------------
(* What the SIEM has been told, or will be.                                *)

Told == siem \cup {Event(req[s].of, req[s].report) :
                     s \in {z \in Slots : req[z] # None /\ req[z].op = "report"}}
Tells(e) ==
  /\ Known(e.inc)
  /\ e.channel \in {Last(e.inc).channel, "unknown"}
  /\ e.channel = "unknown" => Last(e.inc).channel = "usb"
  /\ e.type = "file_blocked" <=> Last(e.inc).action = "block"
  /\ \E n \in 1 .. Len(txs) : txs[n].op = "report" /\ txs[n].inc = e.inc
                              /\ Holds(txs, e.inc, "severity", n, e.severity)
Announced == \A e \in Told : Tells(e)

\* The channel and the action of an incident never change, nor does what was reported.
LEMMA TellsOn ==
  ASSUME Typed, NEW e, Tells(e), UNCHANGED txs \/ \E t : Logged(t),
         KnownAfter(e.inc),
         Last(e.inc)'.channel = Last(e.inc).channel, Last(e.inc)'.action = Last(e.inc).action
  PROVE  Tells(e)'
<1>1. \E n \in 1 .. Len(txs') : txs'[n].op = "report" /\ txs'[n].inc = e.inc
                                /\ Holds(txs', e.inc, "severity", n, e.severity)
  <2>1. PICK n \in 1 .. Len(txs) : txs[n].op = "report" /\ txs[n].inc = e.inc
                                   /\ Holds(txs, e.inc, "severity", n, e.severity)
    BY DEF Tells
  <2>2. CASE UNCHANGED txs
    BY <2>1, <2>2
  <2>3. CASE \E t : Logged(t)
    <3>1. /\ Len(txs) \in Nat /\ Len(txs') = Len(txs) + 1
          /\ \A k \in 1 .. Len(txs) : txs'[k] = txs[k]
      BY <2>3, LogAfter
    <3>2. n \in Nat /\ n \in 1 .. Len(txs') /\ \A k \in 1 .. n : txs'[k] = txs[k]
      BY <3>1
    <3>3. Holds(txs', e.inc, "severity", n, e.severity)
      BY <2>1, <3>2, SamePrefix
    <3> QED  BY <2>1, <3>1, <3>2, <3>3
  <2> QED  BY <2>2, <2>3
<1> QED  BY <1>1 DEF Tells, Known, KnownAfter

LEMMA ToldIncidents == ASSUME Typed, NEW e \in Told PROVE e.inc \in Ids
<1>1. \A s \in Slots : req[s] # None /\ req[s].op = "report" => req[s] \in ReportReq
  BY DEF Typed, ReqTyped, ReportReq, ChangeReq, RetryReq, ChangeOps
<1>2. siem \subseteq SiemEvent
  BY DEF Typed, SiemTyped
<1> QED  BY <1>1, <1>2 DEF Told, SiemEvent, ReportReq, Event

\* Steps that announce nothing new.
LEMMA AnnouncedOn ==
  ASSUME Typed, Announced, Told' \subseteq Told, UNCHANGED txs \/ \E t : Logged(t),
         \A i \in Ids : Known(i) => /\ KnownAfter(i)
                                    /\ Last(i)'.channel = Last(i).channel
                                    /\ Last(i)'.action = Last(i).action
  PROVE  Announced'
<1> SUFFICES ASSUME NEW e \in Told' PROVE Tells(e)'
  BY DEF Announced
<1>1. Tells(e) /\ e.inc \in Ids /\ Known(e.inc)
  BY ToldIncidents DEF Announced, Tells
<1> QED  BY <1>1, TellsOn

\* No incident changes its table, and no request becomes a report.
LEMMA StillAnnounced ==
  ASSUME Typed, Announced, UNCHANGED siem, UNCHANGED <<row, archive>>,
         UNCHANGED txs \/ \E t : Logged(t),
         \A z \in Slots : req'[z] # None /\ req'[z].op = "report" => req'[z] = req[z]
  PROVE  Announced'
<1>1. Told' \subseteq Told
  BY DEF Told
<1>2. \A i : Known(i) => KnownAfter(i) /\ Last(i)' = Last(i)
  BY DEF Known, KnownAfter, Last
<1> QED  BY <1>1, <1>2, AnnouncedOn

LEMMA ReportAnnounced ==
  ASSUME Typed, Plain, Replays, Announced, NEW s \in Slots, NEW i \in Ids, NEW r \in Reports,
         Report(s, i, r)
  PROVE  Announced'
<1> DEFINE t == Tx("report", i, First(Stored(r)), FALSE, None, Len(txs))
           ev == Event(i, r)
           n == Len(txs) + 1
<1>1. Logged(t) /\ t.op = "report" /\ t.inc = i /\ t.history = First(Stored(r))
  BY ReportStep DEF Tx
<1>2. /\ row[i] = None /\ archive[i] = None /\ row' = [row EXCEPT ![i] = Stored(r)]
      /\ UNCHANGED <<archive, siem>>
      /\ req' = [req EXCEPT ![s] = [op |-> "report", of |-> i, report |-> r]]
  BY DEF Report, aged
<1>3. Stored(r) # None
  <2>1. Stored(r) \in Row
    BY ReportTypes
  <2> HIDE DEF Stored
  <2> QED  BY <2>1, IncidentsAssumption
<1>4. row'[i] = Stored(r) /\ \A j \in Ids \ {i} : row'[j] = row[j]
  BY <1>2 DEF Typed, RowTyped
<1>5. Told' \subseteq Told \cup {ev}
  <2> DEFINE q == [op |-> "report", of |-> i, report |-> r]
  <2>1. Event(q.of, q.report) = ev /\ req'[s] = q /\ \A z \in Slots \ {s} : req'[z] = req[z]
    BY <1>2 DEF Typed, ReqTyped
  <2> HIDE DEF q, ev
  <2> QED  BY <1>2, <2>1 DEF Told
<1>6. /\ ev.inc = i /\ ev.severity = Stored(r).severity
      /\ ev.channel \in {Stored(r).channel, "unknown"}
      /\ ev.channel = "unknown" => Stored(r).channel = "usb"
      /\ ev.type = "file_blocked" <=> Stored(r).action = "block"
  <2>1. \A k \in DOMAIN ProtoChannel : ProtoChannel[k] # "unknown"
    <3>1. ProtoChannel \in Seq(Channels)
      BY DEF ProtoChannel, Channels
    <3>2. "unknown" \notin Channels
      BY DEF Channels
    <3> QED  BY <3>1, <3>2
  <2>2. Lookup(ProtoChannel, r.channel, "unknown") \in {Lookup(ProtoChannel, r.channel, "usb"), "unknown"}
        /\ (Lookup(ProtoChannel, r.channel, "unknown") = "unknown"
              => Lookup(ProtoChannel, r.channel, "usb") = "usb")
    BY <2>1 DEF Lookup
  <2>3. r.action \in {"", "log", "block"}
    BY IncidentsAssumption
  <2> QED  BY <2>2, <2>3 DEF Event, Stored
<1> HIDE DEF t
<1>7. Len(txs) \in Nat /\ Len(txs') = n /\ txs'[n] = t
  BY <1>1, LogAfter
<1>8. Holds(txs', i, "severity", n, Stored(r).severity)
  <2> DEFINE h == [field |-> "severity", old |-> None, new |-> Stored(r)["severity"]]
  <2>1. EntryIn(txs', n, "severity") = {x \in First(Stored(r)) : x.field = "severity"}
    BY <1>1, <1>7 DEF EntryIn
  <2>2. {x \in First(Stored(r)) : x.field = "severity"} = {h}
    BY DEF First, Fields
  <2>3. h.new = Stored(r).severity /\ n \in Nat \ {0} /\ txs'[n].inc = i
    BY <1>1, <1>7
  <2> HIDE DEF h
  <2> QED  BY <2>1, <2>2, <2>3, NewEntry
<1> HIDE DEF ev
<1>9. Tells(ev)'
  <2>1. KnownAfter(i) /\ Last(i)' = Stored(r)
    BY <1>3, <1>4 DEF KnownAfter, Last
  <2>2. n \in 1 .. Len(txs')
    BY <1>7
  <2>3. \E m \in 1 .. Len(txs') : txs'[m].op = "report" /\ txs'[m].inc = ev.inc
                                  /\ Holds(txs', ev.inc, "severity", m, ev.severity)
    BY <1>1, <1>6, <1>7, <1>8, <2>2
  <2> QED  BY <1>6, <2>1, <2>3 DEF Tells, Known, KnownAfter
<1>10. \A e \in Told : Tells(e)'
  <2> SUFFICES ASSUME NEW e \in Told PROVE Tells(e)'
    OBVIOUS
  <2>1. Tells(e) /\ e.inc \in Ids /\ Known(e.inc)
    BY ToldIncidents DEF Announced, Tells
  <2>2. e.inc # i
    BY <1>2, <2>1 DEF Known
  <2>3. KnownAfter(e.inc) /\ Last(e.inc)' = Last(e.inc)
    BY <1>2, <1>4, <2>1, <2>2 DEF Known, KnownAfter, Last
  <2> QED  BY <1>1, <2>1, <2>3, TellsOn
<1> QED  BY <1>5, <1>9, <1>10 DEF Announced

LEMMA EmitAnnounced ==
  ASSUME Typed, Plain, Announced, NEW s \in Slots, Emit(s)
  PROVE  Announced'
<1>1. req[s] # None /\ req[s].op = "report" /\ req' = [req EXCEPT ![s] = None]
      /\ UNCHANGED <<row, archive, txs>>
  BY DEF Emit, aged
<1>2. siem' \subseteq siem \cup {Event(req[s].of, req[s].report)}
  BY EmitStep
<1>3. \A z \in Slots : req'[z] # None /\ req'[z].op = "report" => req'[z] = req[z]
  BY <1>1 DEF Typed, ReqTyped
<1>4. Told' \subseteq Told
  BY <1>1, <1>2, <1>3 DEF Told
<1>5. \A i : Known(i) => KnownAfter(i) /\ Last(i)' = Last(i)
  BY <1>1 DEF Known, KnownAfter, Last
<1> QED  BY <1>1, <1>4, <1>5, AnnouncedOn

LEMMA CommitUpdateAnnounced ==
  ASSUME Typed, Plain, Replays, Announced, NEW s \in Slots, CommitUpdate(s)
  PROVE  Announced'
<1> DEFINE q == req[s]
           c == Changed(row[q.of], q.snap, q.data)
<1>1. q \in ChangeReq /\ q.snap.custom_attributes = None
  BY ChangeOf DEF CommitUpdate
<1>2. q.of \in Ids /\ q.data \in Datas /\ q.snap \in Row
  BY <1>1 DEF ChangeReq
<1>3. /\ row[q.of] # None /\ row[q.of] \in Row
      /\ UNCHANGED <<archive, siem>> /\ req' = [req EXCEPT ![s] = None]
  BY <1>2 DEF CommitUpdate, aged, Typed, RowTyped
<1>4. row' = [row EXCEPT ![q.of] = c]
  BY DEF CommitUpdate, Changed
<1>5. c # None /\ c.channel = row[q.of].channel /\ c.action = row[q.of].action
  <2>1. c \in Row /\ c.channel = row[q.of].channel /\ c.action = row[q.of].action
    BY <1>1, <1>2, <1>3, ChangedTypes
  <2> QED  BY <2>1, IncidentsAssumption
<1>6. Logged(UpdateTx(q))
  BY CommitUpdateStep DEF Replays
<1> HIDE DEF c
<1>7. row'[q.of] = c /\ \A i \in Ids \ {q.of} : row'[i] = row[i]
  BY <1>2, <1>4 DEF Typed, RowTyped
<1>8. \A i \in Ids : Known(i) => /\ KnownAfter(i)
                                 /\ Last(i)'.channel = Last(i).channel
                                 /\ Last(i)'.action = Last(i).action
  BY <1>3, <1>5, <1>7 DEF Known, KnownAfter, Last
<1>9. Told' \subseteq Told
  BY <1>3 DEF Told, Typed, ReqTyped
<1> QED  BY <1>6, <1>8, <1>9, AnnouncedOn

LEMMA MovedAnnounced ==
  ASSUME Typed, Plain, Replays, Announced, Moved
  PROVE  Announced'
<1>1. \A i \in Ids : Known(i) => /\ KnownAfter(i)
                                 /\ Last(i)'.channel = Last(i).channel
                                 /\ Last(i)'.action = Last(i).action
  BY MovedRows DEF Known, KnownAfter, Last
<1>2. UNCHANGED <<txs, req, siem>>
  BY MovedRows
<1>3. Told' \subseteq Told
  BY <1>2 DEF Told
<1> QED  BY <1>1, <1>2, <1>3, AnnouncedOn

-----------------------------------------------------------------------------
(* All of it together.                                                     *)

Inv == Typed /\ Plain /\ Counts /\ Replays /\ Announced

\* Steps that leave the dead letter queue and the retries in flight alone.
LEMMA CountsOn ==
  ASSUME Counts, UNCHANGED <<dlq, granted>>,
         \A z \in Slots : req'[z] # None /\ req'[z].op = "retry" => req'[z] = req[z]
  PROVE  Counts'
BY DEF Counts, RetriesAreCounted

LEMMA Init_Inv == Init => Inv
<1> SUFFICES ASSUME Init PROVE Inv
  OBVIOUS
<1>1. Typed /\ Plain /\ Counts
  BY Init_Typed, Init_Counts
<1>2. txs = <<>> /\ siem = {} /\ move = None /\ (\A i \in Ids : row[i] = None /\ archive[i] = None)
      /\ (\A s \in Slots : req[s] = None)
  BY DEF Init
<1>3. Replays
  BY <1>2 DEF Replays, Facts, RowsReplay, ArchiveReplays, SnapsReplay, MoveReplays, AllKnown, Customs,
              Asked, Changes, Known
<1>4. Announced
  BY <1>2 DEF Announced, Told
<1> QED  BY <1>1, <1>3, <1>4 DEF Inv

\* A step that commits nothing on incidents, and begins neither a change nor a report.
LEMMA QuietInv ==
  ASSUME Inv, Typed', Plain', Counts', UNCHANGED <<row, archive, move, txs, siem>>,
         \A z \in Slots : req'[z] = req[z] \/ req'[z] = None
                          \/ req'[z].op \notin ChangeOps \cup {"report"}
  PROVE  Inv'
<1>1. \A z \in Slots : Changes(z)' => Changes(z) /\ req'[z] = req[z]
  BY DEF Changes, ChangeOps
<1>2. Replays'
  BY <1>1, QuietReplays DEF Inv
<1>3. \A z \in Slots : req'[z] # None /\ req'[z].op = "report" => req'[z] = req[z]
  OBVIOUS
<1>4. Announced'
  BY <1>3, StillAnnounced DEF Inv
<1> QED  BY <1>2, <1>4 DEF Inv

LEMMA ReportInv ==
  ASSUME Inv, NEW s \in Slots, NEW i \in Ids, NEW r \in Reports, Report(s, i, r)
  PROVE  Inv'
<1>1. \A z \in Slots : req'[z] # None /\ req'[z].op = "retry" => req'[z] = req[z]
  BY DEF Report, Inv, Typed, ReqTyped
<1>2. Counts'
  BY <1>1, CountsOn DEF Inv, Report
<1> QED  BY <1>2, ReportStep, ReportReplays, ReportAnnounced DEF Inv

LEMMA LoadInv ==
  ASSUME Inv, NEW s \in Slots, NEW op \in ChangeOps, NEW i \in Ids, NEW data \in Datas,
         op = "update" => data \in Updates, Load(s, op, i, data)
  PROVE  Inv'
<1> DEFINE q == [op |-> op, of |-> i, data |-> data, snap |-> row[i], seen |-> Len(txs)]
<1>1. req' = [req EXCEPT ![s] = q] /\ q.op = op
      /\ UNCHANGED <<row, archive, move, txs, siem, dlq, granted>>
  BY DEF Load, aged
<1>2. op # "retry" /\ op # "report"
  BY DEF ChangeOps
<1> HIDE DEF q
<1>3. \A z \in Slots : req'[z] # None /\ req'[z].op \in {"retry", "report"} => req'[z] = req[z]
  BY <1>1, <1>2 DEF Inv, Typed, ReqTyped
<1>4. Counts'
  BY <1>1, <1>3, CountsOn DEF Inv
<1>5. Announced'
  BY <1>1, <1>3, StillAnnounced DEF Inv
<1> QED  BY <1>4, <1>5, LoadStep, LoadReplays DEF Inv

LEMMA CommitUpdateInv ==
  ASSUME Inv, NEW s \in Slots, CommitUpdate(s)
  PROVE  Inv'
<1>1. \A z \in Slots : req'[z] # None /\ req'[z].op = "retry" => req'[z] = req[z]
  BY DEF CommitUpdate, Inv, Typed, ReqTyped
<1>2. Counts'
  BY <1>1, CountsOn DEF Inv, CommitUpdate
<1>3. Typed' /\ Plain'
  BY CommitUpdateStep DEF Inv, Replays
<1> QED  BY <1>2, <1>3, CommitUpdateReplays, CommitUpdateAnnounced DEF Inv

LEMMA VanishedInv ==
  ASSUME Inv, NEW s \in Slots, Vanished(s)
  PROVE  Inv'
<1>1. \A z \in Slots : req'[z] # None => req'[z] = req[z]
  BY DEF Vanished, Inv, Typed, ReqTyped
<1>2. UNCHANGED <<row, archive, siem, dlq, granted>>
  BY DEF Vanished, aged
<1>3. Counts'
  BY <1>1, <1>2, CountsOn DEF Inv
<1>4. Typed' /\ Plain' /\ (UNCHANGED txs \/ \E t : Logged(t))
  BY VanishedStep DEF Inv, Replays
<1>5. Announced'
  BY <1>1, <1>2, <1>4, StillAnnounced DEF Inv
<1> QED  BY <1>3, <1>4, <1>5, VanishedReplays DEF Inv

LEMMA AddNoteInv ==
  ASSUME Inv, NEW s \in Slots, NEW i \in Ids, NEW op \in {"add_note", "smart_note"}, AddNote(s, op, i)
  PROVE  Inv'
<1>1. UNCHANGED <<row, archive, req, siem, dlq, granted>>
  BY DEF AddNote, aged
<1>2. Counts'
  BY <1>1, CountsOn DEF Inv
<1>3. Typed' /\ Plain' /\ \E t : Logged(t)
  BY AddNoteStep DEF Inv
<1>4. Announced'
  BY <1>1, <1>3, StillAnnounced DEF Inv
<1> QED  BY <1>2, <1>3, <1>4, AddNoteReplays DEF Inv

LEMMA EmitInv ==
  ASSUME Inv, NEW s \in Slots, Emit(s)
  PROVE  Inv'
<1>1. \A z \in Slots : req'[z] = req[z] \/ req'[z] = None
  BY DEF Emit, Inv, Typed, ReqTyped
<1>2. UNCHANGED <<row, archive, move, txs, dlq, granted>>
  BY DEF Emit, aged
<1>3. Counts'
  BY <1>1, <1>2, CountsOn DEF Inv
<1>4. Replays'
  BY <1>1, <1>2, QuietReplays DEF Inv, Changes
<1> QED  BY <1>3, <1>4, EmitStep, EmitAnnounced DEF Inv

\* The archive job.
LEMMA ArchiveInv ==
  ASSUME Inv, Copy \/ Moved \/ NotMoved
  PROVE  Inv'
<1>1. UNCHANGED <<req, txs, siem, dlq, granted>>
  BY DEF Copy, Moved, NotMoved
<1>2. Counts'
  BY <1>1, CountsOn DEF Inv
<1>3. CASE Copy
  <2>1. Announced'
    BY <1>1, <1>3, StillAnnounced DEF Copy, Inv
  <2> QED  BY <1>2, <1>3, <2>1, CopyStep, CopyReplays DEF Inv
<1>4. CASE Moved
  BY <1>2, <1>4, MovedStep, MovedReplays, MovedAnnounced DEF Inv
<1>5. CASE NotMoved
  <2>1. UNCHANGED <<row, archive>> /\ move' = None
    BY <1>5 DEF NotMoved
  <2>2. Announced'
    BY <1>1, <2>1, StillAnnounced DEF Inv
  <2>3. Replays'
    BY <1>1, <2>1 DEF Inv, Replays, Facts, RowsReplay, ArchiveReplays, SnapsReplay, MoveReplays, AllKnown,
                      Customs, Asked, Changes, Known
  <2> QED  BY <1>2, <1>5, <2>2, <2>3, NotMovedStep DEF Inv
<1> QED  BY <1>3, <1>4, <1>5

LEMMA QueueInv ==
  ASSUME Inv, NEW e \in Entries,
         Enqueue(e) \/ Dismiss(e) \/ (\E s \in Slots : LoadRetry(s, e) \/ CommitRetry(s))
  PROVE  Inv'
<1>1. CASE Enqueue(e)
  BY <1>1, NewEntryOfQueue, QuietInv DEF Inv, Enqueue, aged
<1>2. CASE Dismiss(e)
  BY <1>2, DismissStep, QuietInv DEF Inv, Dismiss, aged
<1>3. ASSUME NEW s \in Slots, LoadRetry(s, e) PROVE Inv'
  <2>1. \A z \in Slots : req'[z] = req[z] \/ req'[z].op = "retry"
    BY <1>3 DEF LoadRetry, Inv, Typed, ReqTyped
  <2>2. UNCHANGED <<row, archive, move, txs, siem>>
    BY <1>3 DEF LoadRetry, aged
  <2> QED  BY <1>3, <2>1, <2>2, LoadRetryStep, QuietInv DEF Inv, ChangeOps
<1>4. ASSUME NEW s \in Slots, CommitRetry(s) PROVE Inv'
  <2>1. \A z \in Slots : req'[z] = req[z] \/ req'[z] = None
    BY <1>4 DEF CommitRetry, Inv, Typed, ReqTyped
  <2>2. UNCHANGED <<row, archive, move, txs, siem>>
    BY <1>4 DEF CommitRetry, aged
  <2> QED  BY <1>4, <2>1, <2>2, CommitRetryStep, QuietInv DEF Inv
<1> QED  BY <1>1, <1>2, <1>3, <1>4

LEMMA CrashInv == ASSUME Inv, Crash PROVE Inv'
<1>1. (\A z \in Slots : req'[z] = None) /\ UNCHANGED <<row, archive, move, txs, siem, dlq, granted>>
  BY DEF Crash, aged
<1>2. Counts'
  BY <1>1, CountsOn DEF Inv
<1> QED  BY <1>1, <1>2, CrashStep, QuietInv DEF Inv

LEMMA Next_Inv == Inv /\ [Next]_vars => Inv'
<1> SUFFICES ASSUME Inv, [Next]_vars PROVE Inv'
  OBVIOUS
<1>1. ASSUME NEW s \in Slots, NEW i \in Ids, NEW r \in Reports, Report(s, i, r) PROVE Inv'
  BY <1>1, ReportInv
<1>2. ASSUME NEW s \in Slots, NEW i \in Ids, LoadUpdate(s, i) PROVE Inv'
  BY <1>2, LoadInv DEF LoadUpdate, Datas, ChangeOps
<1>3. ASSUME NEW s \in Slots, NEW i \in Ids, LoadSetStatus(s, i) PROVE Inv'
  <2>1. PICK v \in Wanted : Load(s, "set_status", i, SetStatus(v))
    BY <1>3 DEF LoadSetStatus
  <2>2. SetStatus(v) \in Datas
    BY IncidentsAssumption DEF Datas
  <2> QED  BY <2>1, <2>2, LoadInv DEF ChangeOps
<1>4. ASSUME NEW s \in Slots, NEW i \in Ids, LoadEscalate(s, i) PROVE Inv'
  BY <1>4, LoadInv DEF LoadEscalate, Datas, Statuses, ChangeOps
<1>5. ASSUME NEW s \in Slots, NEW i \in Ids, NEW op \in {"add_note", "smart_note"}, AddNote(s, op, i)
      PROVE  Inv'
  BY <1>5, AddNoteInv
<1>6. ASSUME NEW s \in Slots, Emit(s) \/ CommitUpdate(s) \/ Vanished(s) PROVE Inv'
  BY <1>6, EmitInv, CommitUpdateInv, VanishedInv
<1>7. ASSUME NEW s \in Slots, CommitRetry(s) PROVE Inv'
  <2>1. req[s].of \in Entries
    BY <1>7 DEF CommitRetry, Inv, Typed, ReqTyped, ReportReq, ChangeReq, RetryReq, ChangeOps
  <2> QED  BY <1>7, <2>1, QueueInv
<1>8. ASSUME NEW e \in Entries, Enqueue(e) \/ Dismiss(e) \/ \E s \in Slots : LoadRetry(s, e) PROVE Inv'
  BY <1>8, QueueInv
<1>9. CASE Copy \/ Moved \/ NotMoved
  BY <1>9, ArchiveInv
<1>10. CASE Crash
  BY <1>10, CrashInv
<1>11. CASE UNCHANGED vars
  <2>1. UNCHANGED <<row, archive, move, txs, req, siem, dlq, granted, commits>>
    BY <1>11 DEF vars, aged
  <2>2. Typed' /\ Plain' /\ Counts'
    BY <2>1 DEF Inv, Typed, Plain, Counts, RowTyped, ArchiveTyped, MoveTyped, LogTyped, ReqTyped, SiemTyped,
                DlqTyped, Changes, RetriesAreCounted
  <2> QED  BY <2>1, <2>2, QuietInv
<1> QED  BY <1>1, <1>2, <1>3, <1>4, <1>5, <1>6, <1>7, <1>8, <1>9, <1>10, <1>11 DEF Next

-----------------------------------------------------------------------------
(* The properties.                                                         *)

\* What Inv says of the tables, read with HoldsIsValue: types, and each incident in one
\* table (Report, Moved).
LEMMA InvTables == Inv => TablesAreSound
<1> SUFFICES ASSUME Inv PROVE TablesAreSound
  OBVIOUS
<1>1. TypeOK
  <2>1. \A s \in Slots : req[s] # None => req[s].of \in Ids \cup Entries
    BY DEF Inv, Typed, ReqTyped, ReportReq, ChangeReq, RetryReq
  <2> QED
    BY <2>1 DEF TypeOK, Inv, Typed, RowTyped, ArchiveTyped, SiemTyped, DlqTyped, LogTyped, Copied, SiemEvent,
                Dead
<1>2. ArchivedOnce
  <2> SUFFICES ASSUME NEW i \in Ids
               PROVE  /\ (\E n \in DOMAIN txs : txs[n].op = "report" /\ txs[n].inc = i)
                           => (row[i] = None <=> archive[i] # None)
                      /\ archive[i] # None =>
                           \A f \in Fields : archive[i].row[f] = ValueAt(i, f, archive[i].at)
    BY DEF ArchivedOnce
  <2>1. ASSUME NEW n \in DOMAIN txs, txs[n].inc = i PROVE row[i] = None <=> archive[i] # None
    <3>1. n \in 1 .. Len(txs)
      BY <2>1 DEF Inv, Typed, LogTyped
    <3> QED  BY <2>1, <3>1 DEF Inv, Replays, AllKnown, RowsReplay, Known
  <2>2. ASSUME archive[i] # None, NEW f \in Fields
        PROVE  archive[i].row[f] = ValueAt(i, f, archive[i].at)
    <3>1. archive[i].at \in 0 .. Len(txs) /\ Holds(txs, i, f, archive[i].at, archive[i].row[f])
      BY <2>2 DEF Inv, Replays, ArchiveReplays, Replayed
    <3>2. archive[i].at \in Nat
      BY <3>1
    <3> QED  BY <3>1, <3>2, HoldsIsValue
  <2> QED  BY <2>1, <2>2
<1> QED  BY <1>1, <1>2 DEF TablesAreSound

LEMMA InvHistory == Inv => HistoryReplaysTheRow
<1> SUFFICES ASSUME Inv PROVE HistoryReplaysTheRow
  OBVIOUS
<1>1. ASSUME NEW i \in Ids, NEW f \in Fields, row[i] # None PROVE row[i][f] = ValueAt(i, f, Len(txs))
  <2>1. Len(txs) \in Nat /\ Holds(txs, i, f, Len(txs), row[i][f])
    BY <1>1, LogCounts DEF Inv, Typed, Replays, RowsReplay, Replayed
  <2> QED  BY <2>1, HoldsIsValue
<1>2. ASSUME NEW n \in 1 .. Len(txs), txs[n].op # "report", NEW h \in txs[n].history
      PROVE  h.old = ValueAt(txs[n].inc, h.field, txs[n].seen)
  <2>1. txs[n].seen \in Nat
    BY <1>2, LogCounts DEF Inv, Typed, TxRec
  <2>2. Holds(txs, txs[n].inc, h.field, txs[n].seen, h.old)
    BY <1>2 DEF Inv, Replays, Facts, Fact, OldValues
  <2> QED  BY <2>1, <2>2, HoldsIsValue
<1> QED  BY <1>1, <1>2 DEF HistoryReplaysTheRow

LEMMA InvAudit == Inv => AuditTellsTheChanges
<1> SUFFICES ASSUME Inv PROVE AuditTellsTheChanges
  OBVIOUS
<1>1. AcceptedUpdatesTakeEffect
  <2> SUFFICES ASSUME NEW n \in 1 .. Len(txs), txs[n].op = "update", NEW f \in DOMAIN txs[n].audit
               PROVE  \/ txs[n].audit[f] = None
                      \/ txs[n].audit[f] = ValueAt(txs[n].inc, f, n)
                      \/ /\ f # "custom_attributes"
                         /\ txs[n].audit[f] = ValueAt(txs[n].inc, f, txs[n].seen)
                         /\ \E m \in txs[n].seen + 1 .. n - 1 : m \in Writers(txs[n].inc, f, n)
                      \/ f = "custom_attributes" /\ ValueAt(txs[n].inc, f, n) = None
    BY DEF AcceptedUpdatesTakeEffect
  <2>1. n \in Nat /\ txs[n].seen \in Nat
    BY LogCounts DEF Inv, Typed, TxRec
  <2>2. Accepted(txs, n, txs[n])
    BY DEF Inv, Replays, Facts, Fact
  <2>3. \A m \in txs[n].seen + 1 .. n - 1 :
          txs[m].inc = txs[n].inc /\ EntryIn(txs, m, f) # {} => m \in Writers(txs[n].inc, f, n)
    BY <2>1 DEF Writers, Entry, EntryIn
  <2>4. \A v, k : k \in Nat /\ Holds(txs, txs[n].inc, f, k, v) => v = ValueAt(txs[n].inc, f, k)
    BY HoldsIsValue
  <2> QED  BY <2>1, <2>2, <2>3, <2>4 DEF Accepted
<1>2. OnlySmartResponsesEscapeTheAudit
  BY DEF Inv, Replays, Facts, Fact, Audited, SmartOps, OnlySmartResponsesEscapeTheAudit
<1> QED  BY <1>1, <1>2 DEF AuditTellsTheChanges

LEMMA InvEvents == Inv => EventsTellTheRow
<1> SUFFICES ASSUME Inv, NEW e \in siem
             PROVE  /\ row[e.inc] # None \/ archive[e.inc] # None
                    /\ e.channel \in {Last(e.inc).channel, "unknown"}
                    /\ e.channel = "unknown" => Last(e.inc).channel = "usb"
                    /\ e.type = "file_blocked" <=> Last(e.inc).action = "block"
                    /\ \E n \in 1 .. Len(txs) : txs[n].op = "report" /\ txs[n].inc = e.inc
                                               /\ e.severity = ValueAt(e.inc, "severity", n)
  BY DEF EventsTellTheRow
<1>1. Tells(e)
  BY DEF Inv, Announced, Told
<1>2. PICK n \in 1 .. Len(txs) : txs[n].op = "report" /\ txs[n].inc = e.inc
                                 /\ Holds(txs, e.inc, "severity", n, e.severity)
  BY <1>1 DEF Tells
<1>3. e.severity = ValueAt(e.inc, "severity", n)
  <2>1. n \in Nat
    BY <1>2
  <2> QED  BY <1>2, <2>1, HoldsIsValue
<1> QED  BY <1>1, <1>2, <1>3 DEF Tells, Known

LEMMA Invariance == Spec => []Inv
BY Init_Inv, Next_Inv, PTL DEF Spec

\* Rows hold what their columns allow, and a reported incident is in exactly one table,
\* in the archive as it was when the job copied it (archive_old_incidents).
THEOREM TablesSound == Spec => []TablesAreSound
BY Invariance, InvTables, PTL

\* The history replayed gives the row, and old values are those of the snapshot
\* (update_incident).
THEOREM HistoryReplays == Spec => []HistoryReplaysTheRow
BY Invariance, InvHistory, PTL

\* Audited updates are in force or were overtaken, and what the audit log misses is due
\* to smart responses (smart_respond).
THEOREM AuditTells == Spec => []AuditTellsTheChanges
BY Invariance, InvAudit, PTL

\* What the SIEM was told is about a committed incident (ReportIncident, emit).
THEOREM EventsTell == Spec => []EventsTellTheRow
BY Invariance, InvEvents, PTL

\* No entry of the dead letter queue is given up before its retries were granted (retry).
THEOREM RetriesCounted == Spec => []RetriesAreCounted
<1>1. Inv => RetriesAreCounted
  BY DEF Inv, Counts
<1> QED  BY <1>1, Invariance, PTL
=============================================================================
