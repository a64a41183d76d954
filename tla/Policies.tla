------------------------------- MODULE Policies -------------------------------
(***************************************************************************)
(* Policy administration and the stream that tells subscribers about it    *)
(* (server/api/policies.py, services/policy_service.py, PolicyUpdates in   *)
(* grpc_server.py, the in-process bus of policy_events.py).                *)
(*                                                                         *)
(* A handler loads the policy, then writes in one transaction what it      *)
(* changed and an audit entry, and publishes an event after the commit.    *)
(* SQLAlchemy writes only the columns whose new value differs from the     *)
(* loaded one, so activate or suspend may commit an audit entry for a      *)
(* change that was not written: there loading is an action of its own.     *)
(* Elsewhere what was loaded has no effect, and loading is part of the     *)
(* commit.  A subscriber keeps a copy  *)
(* of the policies: a full synchronisation if it is behind, then one event *)
(* at a time, each with the policy as it is when the event is sent.        *)
(*                                                                         *)
(* Abstracted: a rule or an exception with its conditions is a "part", a   *)
(* number; of the scalar fields only status and whether a response rule is *)
(* set are kept; the audit log is kept as the table it describes (what     *)
(* replaying its entries gives).  Crashes and Redis are in PolicySync; the *)
(* subscriber is external (no client in this repository reads the stream). *)
(***************************************************************************)
EXTENDS Integers, FiniteSets, Sequences

CONSTANTS
  Ids,         \* ids of policies and templates
  Template,    \* the id of a row with is_template
  Clients,     \* requests in flight
  NoPolicy,    \* no row
  NoReq,       \* no request
  MaxCommits   \* bound: transactions committed

ASSUME PoliciesAssumption == Template \in Ids /\ MaxCommits \in Nat

VARIABLES
  table,     \* policies with their rules and exceptions
  used,      \* ids given out, deleted policies included
  audited,   \* history: what the audit log says the table is
  req,       \* requests in flight
  parts,     \* parts inserted so far
  commits,   \* transactions so far
  ver,       \* the version of the event bus
  stream,    \* the PolicyUpdates call of one subscriber
  copy,      \* the subscriber's policies
  held,      \* the version the subscriber has seen
  raced,     \* history: policies two requests have changed at the same time
  strayed,   \* history: policies that lost a part to another policy's URL
  nulled,    \* history: policies with an update to null
  astray     \* history: policies the stream failed to tell its subscriber about

vars == <<table, used, audited, req, parts, commits, ver, stream, copy, held,
          raced, strayed, nulled, astray>>
subscriber == <<stream, copy, held>>
history == <<raced, strayed, nulled>>

Statuses == {"active", "suspended", "draft"}
MaxPart == 2 * MaxCommits + 3
Policy == [status : Statuses, response : BOOLEAN, parts : SUBSET (1 .. MaxPart),
           template : BOOLEAN]

Request == [op : {"activate", "suspend", "add", "modify", "remove"}, id : Ids,
            snap : Statuses, at : {"loaded", "committed"}]

ASSUME NoneAssumption == NoPolicy \notin Policy /\ NoReq \notin Request

\* get_policy: templates cannot be reached through the API.
IsPolicy(id) == table[id] # NoPolicy /\ ~table[id].template
Active(id) == IsPolicy(id) /\ table[id].status = "active"
AllParts == UNION {table[id].parts : id \in {i \in Ids : table[i] # NoPolicy}}

Draft_(new) ==  \* a mutant: new policies are in force at once
  [status |-> "active", response |-> FALSE, parts |-> new, template |-> FALSE]
\* A new Policy, with the defaults of its columns.
Draft(new) == [status |-> "draft", response |-> FALSE, parts |-> new, template |-> FALSE]

Off == [on |-> FALSE, queue |-> <<>>, sync |-> {}, at |-> 0]

(***************************************************************************)
(* The server has just started: its version is 0 whatever the database     *)
(* holds, so a policy that is active already is one that no version counts *)
(* and that a subscriber at version 0 is not told about.                   *)
(***************************************************************************)
Init ==
  /\ \E id \in Ids \ {Template}, s \in Statuses :
       /\ table = [i \in Ids |->
                     CASE i = Template -> [Draft({1, 2}) EXCEPT !.template = TRUE]
                       [] i = id -> [Draft({3}) EXCEPT !.status = s]
                       [] OTHER -> NoPolicy]
       /\ used = {Template, id}
       /\ astray = IF s = "active" THEN {id} ELSE {}
  /\ audited = table
  /\ req = [c \in Clients |-> NoReq]
  /\ parts = 3 /\ commits = 0 /\ ver = 0
  /\ stream = Off /\ copy = [id \in Ids |-> NoPolicy] /\ held = 0
  /\ raced = {} /\ strayed = {} /\ nulled = {}

-----------------------------------------------------------------------------
(* Requests.                                                               *)

\* activate_policy and suspend_policy have loaded the policy with its status.
Load(c, op, id) ==
  /\ req[c] = NoReq /\ IsPolicy(id) /\ commits < MaxCommits
  /\ req' = [req EXCEPT ![c] = [op |-> op, id |-> id, snap |-> table[id].status,
                                at |-> "loaded"]]
  /\ raced' = IF \E d \in Clients : req[d] # NoReq /\ req[d].at = "loaded" /\ req[d].id = id
              THEN raced \cup {id} ELSE raced
  /\ UNCHANGED <<table, used, audited, parts, commits, ver, strayed, nulled, astray>>
  /\ UNCHANGED subscriber

Loaded(c, op) == req[c] # NoReq /\ req[c].at = "loaded" /\ req[c].op = op

(***************************************************************************)
(* The transaction: row is what the table has for the policy afterwards,   *)
(* told what the audit entry says.  A write to a row that has been deleted *)
(* fails with the whole transaction.                                       *)
(***************************************************************************)
Commit(c, id, row, told, event) ==
  /\ commits < MaxCommits /\ commits' = commits + 1
  /\ table' = [table EXCEPT ![id] = row] /\ used' = used \cup {id}
  /\ audited' = [audited EXCEPT ![id] = told]
  /\ req' = [req EXCEPT ![c] = [op |-> event, id |-> id,
                                snap |-> "draft", at |-> "committed"]]
  /\ UNCHANGED <<ver, raced>> /\ UNCHANGED subscriber

Fails(c) ==
  /\ req' = [req EXCEPT ![c] = NoReq]
  /\ UNCHANGED <<table, used, audited, parts, commits, ver, astray>>
  /\ UNCHANGED history /\ UNCHANGED subscriber

\* create_policy, with at most one rule.
CreatePolicy(c, id) ==
  /\ req[c] = NoReq /\ id \notin used
  /\ \E n \in {0, 1} :
       /\ parts' = parts + n
       /\ LET row == Draft((parts + 1) .. (parts + n)) IN Commit(c, id, row, row, "add")
  /\ UNCHANGED <<strayed, nulled, astray>>

\* create_from_template: the clone has parts of its own.
Clone_(t) == table[t].parts  \* a mutant: the template's rules are shared
Clone(t) == (parts + 1) .. (parts + Cardinality(table[t].parts))
CreateFromTemplate(c, id) ==
  /\ req[c] = NoReq /\ id \notin used
  /\ parts' = parts + Cardinality(table[Template].parts)
  /\ LET row == Draft(Clone(Template)) IN Commit(c, id, row, row, "add")
  /\ UNCHANGED <<strayed, nulled, astray>>

\* The policy has been deleted meanwhile: reloading it fails, unless the
\* deletion commits even later and there is nothing to write.
Gone(c, dirty) ==
  \/ Fails(c)
  \/ ~dirty /\ Commit(c, req[c].id, NoPolicy, NoPolicy, "modify")
            /\ UNCHANGED <<parts, strayed, nulled, astray>>

\* A column is written only if it was loaded with another value.
Written(now, loaded, new) == IF loaded = new THEN now ELSE new

\* activate_policy, suspend_policy.
SetStatus_(c, s) == [table[req[c].id] EXCEPT !.status = req[c].snap]  \* a mutant: not written
SetStatus(c, s) == [table[req[c].id] EXCEPT !.status = Written(@, req[c].snap, s)]
ChangeStatus(c, op, s) ==
  LET id == req[c].id IN
  /\ Loaded(c, op)
  /\ IF table[id] # NoPolicy
     THEN /\ Commit(c, id, SetStatus(c, s), [audited[id] EXCEPT !.status = s], "modify")
          /\ UNCHANGED <<parts, strayed, nulled, astray>>
     ELSE Gone(c, req[c].snap # s)

\* update_policy: a field that is null in the request is audited, not written.
UpdatePolicy(c, id, value) ==
  /\ req[c] = NoReq /\ IsPolicy(id)
  /\ Commit(c, id,
            IF value THEN [table[id] EXCEPT !.response = TRUE] ELSE table[id],
            [audited[id] EXCEPT !.response = value], "modify")
  /\ nulled' = IF value THEN nulled ELSE nulled \cup {id}
  /\ UNCHANGED <<parts, strayed, astray>>

\* delete_policy cascades to rules, exceptions and conditions.
DeletePolicy(c, id) ==
  /\ req[c] = NoReq /\ IsPolicy(id)
  /\ Commit(c, id, NoPolicy, NoPolicy, "remove")
  /\ UNCHANGED <<parts, strayed, nulled, astray>>

\* add_rule, add_exception.
WithPart(row) == [row EXCEPT !.parts = @ \cup {parts + 1}]
AddPart(c, id) ==
  /\ req[c] = NoReq /\ IsPolicy(id)
  /\ Commit(c, id, WithPart(table[id]), WithPart(audited[id]), "modify")
  /\ parts' = parts + 1
  /\ UNCHANGED <<strayed, nulled, astray>>

(***************************************************************************)
(* remove_rule, remove_exception: the part is found by its own id alone,   *)
(* whoever it belongs to; audit entry and event name the policy of the URL.*)
(***************************************************************************)
Without(row, part) == IF row = NoPolicy THEN NoPolicy ELSE [row EXCEPT !.parts = @ \ {part}]
RemovePart(c, id, part) ==
  LET owner == {i \in Ids : table[i] # NoPolicy /\ part \in table[i].parts} IN
  /\ req[c] = NoReq /\ IsPolicy(id)
  /\ commits < MaxCommits /\ commits' = commits + 1
  /\ table' = [i \in Ids |-> Without(table[i], part)]
  /\ audited' = [audited EXCEPT ![id] = Without(@, part)]
  /\ strayed' = strayed \cup (owner \ {id})
  /\ astray' = astray \cup (owner \ {id})
  /\ req' = [req EXCEPT ![c] = [op |-> "modify", id |-> id, snap |-> "draft",
                                at |-> "committed"]]
  /\ UNCHANGED <<used, parts, ver, raced, nulled>> /\ UNCHANGED subscriber

\* publish_policy_event without Redis: the version counts, subscribers queue.
Event(c, n) == [kind |-> req[c].op, id |-> req[c].id, ver |-> n]
Queued_(c) == Append(stream.queue, Event(c, ver))  \* a mutant: counted afterwards
Queued__(c) ==                                     \* a mutant: removals are not sent
  IF req[c].op = "remove" THEN stream.queue ELSE Append(stream.queue, Event(c, ver + 1))
Queued(c) == Append(stream.queue, Event(c, ver + 1))
Publish(c) ==
  /\ req[c] # NoReq /\ req[c].at = "committed"
  /\ ver' = ver + 1
  /\ stream' = IF stream.on THEN [stream EXCEPT !.queue = Queued(c)] ELSE stream
  /\ req' = [req EXCEPT ![c] = NoReq]
  /\ UNCHANGED <<table, used, audited, parts, commits, copy, held, astray>> /\ UNCHANGED history

-----------------------------------------------------------------------------
(* The stream.                                                             *)

RequestsUnchanged == UNCHANGED <<table, used, audited, req, parts, commits, ver>> /\ UNCHANGED history

(***************************************************************************)
(* PolicyUpdates: subscribe, then a full synchronisation if the subscriber *)
(* is behind.  It sends the active policies and cannot tell of others: a   *)
(* policy that was removed or suspended meanwhile stays in the copy.       *)
(***************************************************************************)
SyncRead == {[id |-> id, row |-> table[id]] : id \in {i \in Ids : Active(i)}}
Behind_ == held + 1 < ver  \* a mutant: one version of tolerance
Behind == held < ver
Connect ==
  /\ ~stream.on
  /\ stream' = [Off EXCEPT !.on = TRUE, !.at = ver,
                           !.sync = IF Behind THEN SyncRead ELSE {}]
  /\ astray' = IF Behind
               THEN astray \cup {id \in Ids : copy[id] # NoPolicy /\ ~Active(id)}
               ELSE astray
  /\ UNCHANGED <<copy, held>> /\ RequestsUnchanged

\* One policy of the synchronisation, which already carries the new version.
SendSync ==
  \E s \in stream.sync :
    /\ stream' = [stream EXCEPT !.sync = @ \ {s}]
    /\ copy' = [copy EXCEPT ![s.id] = s.row]
    /\ held' = stream.at
    /\ astray' = IF s.row = table[s.id] THEN astray \ {s.id} ELSE astray
    /\ RequestsUnchanged

(***************************************************************************)
(* One event.  The policy is read again for it; its response rule is not   *)
(* loaded with it, and reading it then fails, so that the update of a      *)
(* policy with a response rule is sent without the policy.                 *)
(***************************************************************************)
Payload(e) ==
  IF e.kind # "remove" /\ IsPolicy(e.id) /\ ~table[e.id].response
  THEN table[e.id] ELSE NoPolicy
SendEvent ==
  /\ stream.on /\ stream.sync = {} /\ stream.queue # <<>>
  /\ LET e == Head(stream.queue) IN
     /\ stream' = [stream EXCEPT !.queue = Tail(@)]
     /\ held' = e.ver
     /\ copy' = [copy EXCEPT ![e.id] = IF Payload(e) # NoPolicy \/ e.kind = "remove"
                                       THEN Payload(e) ELSE @]
     /\ astray' = IF Payload(e) # NoPolicy \/ e.kind = "remove" THEN astray \ {e.id}
                  ELSE IF IsPolicy(e.id) THEN astray \cup {e.id} ELSE astray
  /\ RequestsUnchanged

\* The call ends; unsubscribe drops the queue.
Disconnect ==
  /\ stream.on
  /\ astray' = IF held = stream.at THEN astray \cup {s.id : s \in stream.sync} ELSE astray
  /\ stream' = Off
  /\ UNCHANGED <<copy, held>> /\ RequestsUnchanged

-----------------------------------------------------------------------------
Next ==
  \/ \E c \in Clients :
       \/ \E id \in Ids :
            \/ CreatePolicy(c, id) \/ CreateFromTemplate(c, id)
            \/ \E op \in {"activate", "suspend"} : Load(c, op, id)
            \/ \E value \in BOOLEAN : UpdatePolicy(c, id, value)
            \/ DeletePolicy(c, id) \/ AddPart(c, id)
            \/ \E part \in AllParts : RemovePart(c, id, part)
       \/ ChangeStatus(c, "activate", "active") \/ ChangeStatus(c, "suspend", "suspended")
       \/ Publish(c)
  \/ Connect \/ SendSync \/ SendEvent \/ Disconnect

Spec == Init /\ [][Next]_vars

-----------------------------------------------------------------------------
TypeOK ==
  /\ table \in [Ids -> Policy \cup {NoPolicy}] /\ audited \in [Ids -> Policy \cup {NoPolicy}]
  /\ {id \in Ids : table[id] # NoPolicy} \subseteq used
  /\ req \in [Clients -> Request \cup {NoReq}]
  /\ copy \in [Ids -> Policy \cup {NoPolicy}]
  /\ held <= ver /\ ver <= commits
  /\ \A i \in DOMAIN stream.queue : stream.queue[i].ver \in 1 .. ver

(***************************************************************************)
(* The audit log tells what became of a policy, unless two requests        *)
(* changed it at the same time, a part of it was removed under another     *)
(* policy's URL, or an update asked for null (api/policies.py:208-252,     *)
(* policy_service.py:143-170).                                             *)
(***************************************************************************)
AuditTellsTheTable ==
  \A id \in Ids \ (raced \cup strayed \cup nulled) : audited[id] = table[id]

(***************************************************************************)
(* A subscriber that has been sent everything agrees with the table on     *)
(* what is active, except about the policies the stream left out: those    *)
(* with a response rule, gone while it was away, cut off in the middle of  *)
(* a synchronisation, or changed under another policy's URL                *)
(* (grpc_server.py:372-437).                                               *)
(***************************************************************************)
Settled ==
  /\ stream.on /\ stream.queue = <<>> /\ stream.sync = {}
  /\ \A c \in Clients : req[c] # NoReq => req[c].at = "loaded"
Agrees(id) ==
  IF Active(id) THEN copy[id] = table[id]
  ELSE copy[id] = NoPolicy \/ copy[id].status # "active"
SettledStreamsAgree == Settled => \A id \in Ids \ astray : Agrees(id)

\* create_from_template deep-copies (policy_service.py:218-292): a part has one
\* owner, so no change to a clone reaches its template.
PartsHaveOneOwner ==
  \A i, j \in Ids : i # j /\ table[i] # NoPolicy /\ table[j] # NoPolicy
                    => table[i].parts \cap table[j].parts = {}

\* The tables policies and audit_logs, after every request (api/policies.py).
TablesAreSound == TypeOK /\ AuditTellsTheTable /\ PartsHaveOneOwner

(***************************************************************************)
(* A policy comes into force only through activate: creating, cloning or   *)
(* losing a race never activates it, and a template is never in force      *)
(* (policy_service.py:180-191, 224-228).                                   *)
(***************************************************************************)
OnlyActivateActivates ==
  [][\A id \in Ids :
       Active(id)' /\ ~Active(id) =>
         /\ IsPolicy(id)
         /\ \E c \in Clients : Loaded(c, "activate") /\ req[c].id = id]_vars
=============================================================================
