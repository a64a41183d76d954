------------------------------ MODULE Incidents ------------------------------
(***************************************************************************)
(* Incidents on the server: reported by agents (ReportIncident in          *)
(* grpc_server.py), announced to the SIEM (siem_emitter.py), changed by    *)
(* people (api/incidents.py, incident_service.py) and by smart responses   *)
(* (smart_response.py), moved to the archive when they are old             *)
(* (db_maintenance.py, tasks/archive_job.py); and the dead letter queue    *)
(* (dead_letter_queue.py).                                                 *)
(*                                                                         *)
(* Handlers interleave at their awaits.  A handler that changes fields has *)
(* loaded the incident before (Load); what it writes, and the old values   *)
(* of the history entries, come from that snapshot, and one transaction    *)
(* holds the row, the history and the notes.  The row is locked from the   *)
(* flush to the commit, so transactions on it are in commit order.  The    *)
(* tables incident_history, incident_notes and audit_logs are kept as the  *)
(* sequence of transactions that filled them; the history and the notes of *)
(* an incident are deleted with its row (ON DELETE CASCADE).               *)
(*                                                                         *)
(* Abstracted: the fields no operation changes; the text of notes and      *)
(* mails; identifiers of users.  No code of the repository calls enqueue:  *)
(* entries of the dead letter queue are put there by an external caller.   *)
(***************************************************************************)
EXTENDS Integers, Sequences, FiniteSets, TLC

CONSTANTS
  Ids,         \* incidents
  Entries,     \* entries of the dead letter queue
  Slots,       \* handlers in flight
  Reports,     \* reports agents send: [severity, channel, action]
  Updates,     \* update requests, functions from some of Fields
  Wanted,      \* statuses that smart responses set
  None,        \* nothing: no row, no request, no value
  MaxRetries,  \* max_retries of an entry
  MaxCommits   \* bound: transactions committed

Statuses == {"new", "in_progress", "resolved", "dismissed", "escalated"}
Severities == {"info", "low", "medium", "high", "critical"}
Channels == {"usb", "network_share", "clipboard", "browser_upload", "email",
             "http_upload", "discover"}
Fields == {"status", "severity", "custom_attributes"}

\* The columns of an incident, and what a request may set a field to.
Row == [status : Statuses, severity : Severities, custom_attributes : {None, "dict"},
        channel : Channels, action : {"log", "block"}]
ValuesOf == [status |-> Statuses, severity |-> Severities, custom_attributes |-> {"dict"}]

\* Enums of the wire are any integers; requests are validated by their schemas; and
\* nothing is no row, no request and no record of a table.
ASSUME IncidentsAssumption ==
  /\ MaxRetries \in Nat \ {0} /\ MaxCommits \in Nat
  /\ Reports \subseteq [severity : Int, channel : Int, action : {"", "log", "block"}]
  /\ Wanted \subseteq Statuses
  /\ \A u \in Updates : /\ DOMAIN u \subseteq Fields
                        /\ \A f \in DOMAIN u : u[f] \in ValuesOf[f] \cup {None}
  /\ None \notin Row /\ None \notin [row : Row, at : Nat] /\ None \notin Updates
  /\ None \notin [count : Nat, permanent : BOOLEAN, dismissed : BOOLEAN]
  /\ None # [f \in {} |-> None]

VARIABLES
  row,      \* the table incidents
  archive,  \* the table incidents_archive: per incident [row, at], at: transactions seen
  move,     \* the archive job between its INSERT and its commit: what it has copied
  txs,      \* transactions committed on incidents, with what they inserted
  req,      \* handlers in flight
  siem,     \* events the SIEM has received
  dlq,      \* the table dead_letter_queue
  granted,  \* history: retries granted to each entry
  commits   \* transactions so far

aged == <<archive, move>>
vars == <<row, txs, req, siem, dlq, granted, commits, aged>>

(***************************************************************************)
(* Reports.  The two maps give an enum the wire did not set a value each:  *)
(* the table takes USB for a channel the SIEM event calls unknown.         *)
(***************************************************************************)
ProtoSeverity == <<"info", "low", "medium", "high", "critical">>
ProtoChannel == <<"usb", "network_share", "clipboard", "browser_upload", "email",
                  "http_upload", "discover">>
Lookup(map, n, default) == IF n \in DOMAIN map THEN map[n] ELSE default

Stored_(r) ==  \* a mutant: the channel column takes the SIEM's default
  [status |-> "new", severity |-> Lookup(ProtoSeverity, r.severity, "medium"),
   custom_attributes |-> None, channel |-> Lookup(ProtoChannel, r.channel, "unknown"),
   action |-> IF r.action = "" THEN "log" ELSE r.action]
\* The Incident that create_incident_from_report builds: the part that is kept.
Stored(r) == [status |-> "new", severity |-> Lookup(ProtoSeverity, r.severity, "medium"),
              custom_attributes |-> None,
              channel |-> Lookup(ProtoChannel, r.channel, "usb"),
              action |-> IF r.action = "" THEN "log" ELSE r.action]

\* A new row writes no history; the property below counts what it holds as the
\* first value of each field.
First(stored) == {[field |-> f, old |-> None, new |-> stored[f]] : f \in Fields}

Event_(i, r) ==  \* a mutant: severities the wire did not set are low to the SIEM
  [inc |-> i, severity |-> Lookup(ProtoSeverity, r.severity, "low"),
   channel |-> Lookup(ProtoChannel, r.channel, "unknown"),
   type |-> IF r.action = "block" THEN "file_blocked" ELSE "incident_created"]
\* The event: the record handed to the emitter, as build_ecs_event classifies it.
Event(i, r) == [inc |-> i, severity |-> Lookup(ProtoSeverity, r.severity, "medium"),
                channel |-> Lookup(ProtoChannel, r.channel, "unknown"),
                type |-> IF r.action = "block" THEN "file_blocked" ELSE "incident_created"]

Init ==
  /\ row = [i \in Ids |-> None] /\ txs = <<>>
  /\ archive = [i \in Ids |-> None] /\ move = None
  /\ req = [s \in Slots |-> None] /\ siem = {}
  /\ dlq = [e \in Entries |-> None] /\ granted = [e \in Entries |-> 0]
  /\ commits = 0

Commits == commits < MaxCommits /\ commits' = commits + 1

Tx(op, i, history, note, audit, seen) ==
  [op |-> op, inc |-> i, history |-> history, note |-> note, audit |-> audit,
   seen |-> seen]

\* ReportIncident up to its commit.  An agent that is not registered fails the
\* foreign key and nothing is stored; that attempt is a stutter and left out.
Report(s, i, r) ==
  /\ req[s] = None /\ row[i] = None /\ archive[i] = None /\ Commits
  /\ row' = [row EXCEPT ![i] = Stored(r)]
  /\ txs' = Append(txs, Tx("report", i, First(Stored(r)), FALSE, None, Len(txs)))
  /\ req' = [req EXCEPT ![s] = [op |-> "report", of |-> i, report |-> r]]
  /\ UNCHANGED <<siem, dlq, granted, aged>>

\* emit and the answer: the SIEM may be disabled, unreachable or refuse; the
\* agent is answered success in every case and nothing is tried again.
Emit(s) ==
  /\ req[s] # None /\ req[s].op = "report"
  /\ siem' \in {siem, siem \cup {Event(req[s].of, req[s].report)}}
  /\ req' = [req EXCEPT ![s] = None]
  /\ UNCHANGED <<row, txs, dlq, granted, commits, aged>>
-----------------------------------------------------------------------------
(* Changes by people and by smart responses.                               *)

\* The update that the smart responses set_status and escalate make.
SetStatus(v) == [f \in {"status"} |-> v]

\* get_incident: the handler has its snapshot.
Load(s, op, i, data) ==
  /\ req[s] = None /\ row[i] # None /\ commits < MaxCommits
  /\ req' = [req EXCEPT ![s] = [op |-> op, of |-> i, data |-> data, snap |-> row[i],
                                seen |-> Len(txs)]]
  /\ UNCHANGED <<row, txs, siem, dlq, granted, commits, aged>>

\* PATCH: a body without fields is refused.
LoadUpdate(s, i) == \E data \in Updates : Load(s, "update", i, data)
LoadSetStatus(s, i) == \E v \in Wanted : Load(s, "set_status", i, SetStatus(v))
LoadEscalate(s, i) == Load(s, "escalate", i, SetStatus("escalated"))

Differs_(f, old, new) == f = "status" /\ old # new  \* a mutant: other enums compare equal
\* The comparison as strings in update_incident: the new string of a dictionary
\* is None, which is also the old string of a column that is NULL.
Differs(f, old, new) == IF f = "custom_attributes" THEN old # None ELSE old # new

\* The fields update_incident sets: not null, and different from the snapshot.
Written(snap, data) == {f \in DOMAIN data : data[f] # None /\ Differs(f, snap[f], data[f])}

History_(snap, data) ==  \* a mutant: the value a severity replaces is not recorded
  {[field |-> f, old |-> data[f], new |-> data[f]] : f \in Written(snap, data)}
History(snap, data) ==
  {[field |-> f, old |-> snap[f], new |-> IF f = "custom_attributes" THEN None ELSE data[f]] :
     f \in Written(snap, data)}

Changes(s) == req[s] # None /\ req[s].op \in {"update", "set_status", "escalate"}
\* The handler's transaction: the row, its history, the note of an escalation, and
\* the audit entry.  smart_respond adds its audit entry after the action has
\* committed and never commits it: the session is closed and the entry is gone.
CommitUpdate(s) ==
  /\ Changes(s) /\ row[req[s].of] # None /\ Commits
  /\ LET q == req[s] IN
       /\ row' = [row EXCEPT ![q.of] =
                    [f \in DOMAIN @ |-> IF f \in Written(q.snap, q.data) THEN q.data[f] ELSE @[f]]]
       /\ txs' = Append(txs, Tx(q.op, q.of, History(q.snap, q.data), q.op = "escalate",
                                IF q.op = "update" THEN q.data ELSE None, q.seen))
  /\ req' = [req EXCEPT ![s] = None]
  /\ UNCHANGED <<siem, dlq, granted, aged>>

\* The row has been archived since: its UPDATE, or its note, fails, and so does the
\* handler.  Only a PATCH without anything to write commits its audit entry first.
Vanished(s) ==
  /\ Changes(s) /\ row[req[s].of] = None
  /\ LET q == req[s] IN
       IF q.op = "update" /\ Written(q.snap, q.data) = {}
       THEN /\ Commits
            /\ txs' = Append(txs, Tx(q.op, q.of, {}, FALSE, q.data, q.seen))
       ELSE UNCHANGED <<txs, commits>>
  /\ req' = [req EXCEPT ![s] = None]
  /\ UNCHANGED <<row, siem, dlq, granted, aged>>

Audit_(op) == None   \* a mutant: notes are not audited
\* What a note of a person is audited as; a smart response's note is not.
Audit(op) == IF op = "add_note" THEN [f \in {} |-> None] ELSE None

\* A note: by POST .../notes, or by the smart responses add_note and send_email, which
\* sends nothing: the note is all there is of the mail.
AddNote(s, op, i) ==
  /\ req[s] = None /\ row[i] # None /\ Commits
  /\ txs' = Append(txs, Tx(op, i, {}, TRUE, Audit(op), Len(txs)))
  /\ UNCHANGED <<row, req, siem, dlq, granted, aged>>
-----------------------------------------------------------------------------
(* The archive job, one at a time.                                         *)

Chosen(is) == [i \in is |-> [row |-> row[i], at |-> Len(txs)]]
Copy_ ==  \* a mutant: the INSERT is committed before the DELETE
  /\ move = None /\ Commits
  /\ \E is \in SUBSET {i \in Ids : row[i] # None} \ {{}} :
       move' = Chosen(is) /\ archive' = Chosen(is) @@ archive
  /\ UNCHANGED <<row, txs, req, siem, dlq, granted>>
\* archive_old_incidents up to its INSERT: the rows older than the cutoff.
Copy ==
  /\ move = None /\ commits < MaxCommits
  /\ \E is \in SUBSET {i \in Ids : row[i] # None} \ {{}} : move' = Chosen(is)
  /\ UNCHANGED <<row, txs, req, siem, dlq, granted, commits, archive>>

\* DELETE with the same cutoff, and the commit.  A statement sees what is committed
\* when it begins.
Moved ==
  /\ move # None /\ Commits
  /\ archive' = [i \in Ids |-> IF i \in DOMAIN move THEN move[i] ELSE archive[i]]
  /\ row' = [i \in Ids |-> IF i \in DOMAIN move THEN None ELSE row[i]]
  /\ move' = None
  /\ UNCHANGED <<txs, req, siem, dlq, granted>>

\* The job fails or ends: nothing of its transaction is left.
NotMoved ==
  /\ move # None /\ move' = None
  /\ UNCHANGED <<row, txs, req, siem, dlq, granted, commits, archive>>
-----------------------------------------------------------------------------
(* The dead letter queue.                                                  *)

Enqueue(e) ==
  /\ dlq[e] = None /\ Commits
  /\ dlq' = [dlq EXCEPT ![e] = [count |-> 0, permanent |-> FALSE, dismissed |-> FALSE]]
  /\ UNCHANGED <<row, txs, req, siem, granted, aged>>

\* retry has read the entry: a permanent or dismissed one is refused.
LoadRetry(s, e) ==
  /\ req[s] = None /\ dlq[e] # None /\ commits < MaxCommits
  /\ ~dlq[e].permanent /\ ~dlq[e].dismissed
  /\ req' = [req EXCEPT ![s] = [op |-> "retry", of |-> e, count |-> dlq[e].count]]
  /\ UNCHANGED <<row, txs, siem, dlq, granted, commits, aged>>

Exhausted_(n) == n > MaxRetries  \* a mutant: one attempt too many
Exhausted(n) == n >= MaxRetries

\* The counter is written from the value read; is_permanent is written only when
\* it is set, so a stale counter may be written over a higher one.
CommitRetry(s) ==
  /\ req[s] # None /\ req[s].op = "retry" /\ Commits
  /\ LET e == req[s].of
         n == req[s].count + 1
     IN /\ dlq' = [dlq EXCEPT ![e].count = n, ![e].permanent = @ \/ Exhausted(n)]
        /\ granted' = [granted EXCEPT ![e] = @ + 1]
  /\ req' = [req EXCEPT ![s] = None]
  /\ UNCHANGED <<row, txs, siem, aged>>

Dismiss(e) ==
  /\ dlq[e] # None /\ ~dlq[e].dismissed /\ Commits
  /\ dlq' = [dlq EXCEPT ![e].dismissed = TRUE]
  /\ UNCHANGED <<row, txs, req, siem, granted, aged>>

\* The process stops: handlers and what they have not committed are gone.
Crash ==
  /\ req' = [s \in Slots |-> None]
  /\ UNCHANGED <<row, txs, siem, dlq, granted, commits, aged>>

Next ==
  \/ \E s \in Slots :
       \/ \E i \in Ids : \/ \E r \in Reports : Report(s, i, r)
                         \/ LoadUpdate(s, i) \/ LoadSetStatus(s, i) \/ LoadEscalate(s, i)
                         \/ \E op \in {"add_note", "smart_note"} : AddNote(s, op, i)
       \/ Emit(s) \/ CommitUpdate(s) \/ Vanished(s) \/ CommitRetry(s)
       \/ \E e \in Entries : LoadRetry(s, e)
  \/ \E e \in Entries : Enqueue(e) \/ Dismiss(e)
  \/ Copy \/ Moved \/ NotMoved
  \/ Crash

Spec == Init /\ [][Next]_vars
-----------------------------------------------------------------------------
(* Properties.                                                             *)

\* Types: every row holds values its columns allow, whatever was sent, and the
\* counters of the dead letter queue stay in their range.
TypeOK ==
  /\ row \in [Ids -> Row \cup {None}]
  /\ archive \in [Ids -> [row : Row, at : Nat] \cup {None}]
  /\ siem \subseteq [inc : Ids, severity : Severities, channel : Channels \cup {"unknown"},
                    type : {"file_blocked", "incident_created"}]
  /\ dlq \in [Entries -> [count : 0 .. MaxRetries, permanent : BOOLEAN, dismissed : BOOLEAN]
                         \cup {None}]
  /\ Len(txs) <= commits /\ commits \in 0 .. MaxCommits
  /\ \A s \in Slots : req[s] # None => req[s].of \in Ids \cup Entries

Entry(n, f) == {h \in txs[n].history : h.field = f}
Writers(i, f, n) == {m \in 1 .. n : txs[m].inc = i /\ Entry(m, f) # {}}
\* What the first n transactions leave in a field, going by their history.
ValueAt(i, f, n) ==
  LET last == CHOOSE m \in Writers(i, f, n) : \A k \in Writers(i, f, n) : k <= m
  IN (CHOOSE h \in Entry(last, f) : TRUE).new

Last(i) == IF row[i] # None THEN row[i] ELSE archive[i].row

(***************************************************************************)
(* The history of an incident, replayed, gives its row: no handler changes *)
(* a field without an entry for it or the other way round, though an entry *)
(* holds what its handler had loaded and others have committed since.  An  *)
(* old value is always the one that was in force when the handler loaded   *)
(* the incident, so the chain of old and new values breaks only where      *)
(* handlers overlap (update_incident).                                     *)
(***************************************************************************)
HistoryReplaysTheRow ==
  /\ \A i \in Ids, f \in Fields : row[i] # None => row[i][f] = ValueAt(i, f, Len(txs))
  /\ \A n \in 1 .. Len(txs) : txs[n].op # "report" =>
       \A h \in txs[n].history : h.old = ValueAt(txs[n].inc, h.field, txs[n].seen)

(***************************************************************************)
(* An update that is accepted and audited is in force when it commits,     *)
(* with two exceptions: the value it asks for was the one it had loaded    *)
(* and another handler has changed it since, so that nothing is written;   *)
(* and custom attributes, which are never stored (Differs), although the   *)
(* request is answered 200 and audited.                                    *)
(***************************************************************************)
AcceptedUpdatesTakeEffect ==
  \A n \in 1 .. Len(txs) :
    LET t == txs[n] IN
      t.op = "update" => \A f \in DOMAIN t.audit :
        \/ t.audit[f] = None
        \/ t.audit[f] = ValueAt(t.inc, f, n)
        \/ /\ f # "custom_attributes"
           /\ t.audit[f] = ValueAt(t.inc, f, t.seen)
           /\ \E m \in t.seen + 1 .. n - 1 : m \in Writers(t.inc, f, n)
        \/ f = "custom_attributes" /\ ValueAt(t.inc, f, n) = None

(***************************************************************************)
(* An incident that was reported is in the table or in the archive, never  *)
(* in both or in none, whatever handlers and crashes meet the job; and in  *)
(* the archive as it was when the job copied it.  What is committed on it  *)
(* between the copy and the deletion is lost, and only that.               *)
(***************************************************************************)
ArchivedOnce ==
  \A i \in Ids :
    /\ (\E n \in DOMAIN txs : txs[n].op = "report" /\ txs[n].inc = i)
         => (row[i] = None <=> archive[i] # None)
    /\ archive[i] # None =>
         \A f \in Fields : archive[i].row[f] = ValueAt(i, f, archive[i].at)

\* The tables incidents and incidents_archive (db_maintenance.py).
TablesAreSound == TypeOK /\ ArchivedOnce

(***************************************************************************)
(* Smart responses are the only changes the audit log does not know: their *)
(* entry is never committed (smart_respond), while every change through    *)
(* PATCH and every note through POST commits together with its entry, even *)
(* across a crash.                                                         *)
(***************************************************************************)
OnlySmartResponsesEscapeTheAudit ==
  \A n \in 1 .. Len(txs) :
    txs[n].op # "report" /\ (txs[n].history # {} \/ txs[n].note) =>
      (txs[n].audit = None <=> txs[n].op \in {"set_status", "escalate", "smart_note"})

\* The audit log and what it is about (api/incidents.py, smart_response.py).
AuditTellsTheChanges == AcceptedUpdatesTakeEffect /\ OnlySmartResponsesEscapeTheAudit

(***************************************************************************)
(* What the SIEM holds is about committed incidents and agrees with them   *)
(* as they were stored: a crash between the commit and emit loses an event *)
(* for good, but never announces an incident that was rolled back.  The    *)
(* one disagreement is a channel the agent left unset.                     *)
(***************************************************************************)
EventsTellTheRow ==
  \A e \in siem :
    /\ row[e.inc] # None \/ archive[e.inc] # None
    /\ e.channel \in {Last(e.inc).channel, "unknown"}
    /\ e.channel = "unknown" => Last(e.inc).channel = "usb"
    /\ e.type = "file_blocked" <=> Last(e.inc).action = "block"
    /\ \E n \in 1 .. Len(txs) : txs[n].op = "report" /\ txs[n].inc = e.inc
                               /\ e.severity = ValueAt(e.inc, "severity", n)

(***************************************************************************)
(* An entry of the dead letter queue is permanent only after max_retries   *)
(* retries were granted, and is open only while its counter is below the   *)
(* limit.  The counter never exceeds the retries granted; overlapping      *)
(* retries make it fall behind them, also below the limit of an entry that *)
(* is permanent already (retry writes the counter it had read).            *)
(***************************************************************************)
RetriesAreCounted ==
  \A e \in Entries : dlq[e] # None =>
    /\ dlq[e].count <= granted[e]
    /\ dlq[e].permanent => granted[e] >= MaxRetries
    /\ ~dlq[e].permanent => dlq[e].count < MaxRetries
=============================================================================
