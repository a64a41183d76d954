----------------------------- MODULE Policies_proofs -----------------------------
(***************************************************************************)
(* Proofs about module Policies: for any number of policies, requests and  *)
(* commits the tables stay sound, only activate brings a policy into       *)
(* force, and a subscriber that has been sent everything agrees with the   *)
(* table where the stream is known to tell of it.                          *)
(***************************************************************************)
EXTENDS Policies, FiniteSetTheorems, SequenceTheorems, TLAPS

-----------------------------------------------------------------------------
(* The invariant.                                                          *)

Kinds == {"add", "modify", "remove"}
EventRec == [kind : Kinds, id : Ids, ver : Nat]
Stream == [on : BOOLEAN, queue : Seq(EventRec), sync : SUBSET [id : Ids, row : Policy], at : Nat]
Rows == [Ids -> Policy \cup {NoPolicy}]

\* parts and commits: what the type of a policy's parts rests on.
Typed ==
  /\ table \in Rows /\ audited \in Rows /\ copy \in Rows
  /\ used \subseteq Ids
  /\ req \in [Clients -> Request \cup {NoReq}]
  /\ commits \in 0 .. MaxCommits /\ parts \in Nat /\ parts <= 2 * commits + 3
  /\ ver \in Nat /\ held \in Nat /\ held <= ver
  /\ stream \in Stream

\* What the rows and the requests are about: ids given out, parts given out, no template
\* but the one there is.
IsLoaded(c) == req[c] # NoReq /\ req[c].at = "loaded"
IsPending(c) == req[c] # NoReq /\ req[c].at = "committed"
Owned ==
  /\ \A id \in Ids :
       /\ table[id] # NoPolicy => id \in used
       /\ audited[id] = NoPolicy <=> table[id] = NoPolicy
       /\ table[id] # NoPolicy => /\ table[id].parts \subseteq 1 .. parts
                                  /\ table[id].template <=> id = Template
       /\ audited[id] # NoPolicy => audited[id].parts \subseteq 1 .. parts
  /\ table[Template] # NoPolicy /\ table[Template].parts \subseteq {1, 2}
  /\ \A c \in Clients : req[c] # NoReq =>
       /\ req[c].id \in used \ {Template}
       /\ IsPending(c) => req[c].op \in Kinds
  /\ PartsHaveOneOwner

\* A request that has loaded a policy nobody else has loaded still has its status.
Loads ==
  /\ \A c \in Clients : IsLoaded(c) /\ req[c].id \notin raced /\ table[req[c].id] # NoPolicy
                        => table[req[c].id].status = req[c].snap
  /\ \A c, d \in Clients : c # d /\ IsLoaded(c) /\ IsLoaded(d) /\ req[c].id = req[d].id
                           => req[c].id \in raced

\* Every version is a commit that was published.
Pending == {c \in Clients : IsPending(c)}
Counted == IsFiniteSet(Pending) /\ Cardinality(Pending) + ver <= commits

Sound == Typed /\ Owned /\ AuditTellsTheTable /\ Loads /\ Counted

\* The queue: in the order of the versions, all of them news.  The synchronisation has each
\* policy once.
Queue ==
  /\ stream.at <= ver
  /\ \A i \in DOMAIN stream.queue :
       stream.queue[i].ver \in 1 .. ver /\ stream.queue[i].ver > held /\ stream.queue[i].ver > stream.at
  /\ \A i, j \in DOMAIN stream.queue : i < j => stream.queue[i].ver < stream.queue[j].ver
  /\ ~stream.on => stream.queue = <<>> /\ stream.sync = {}
  /\ stream.sync # {} => held <= stream.at
  /\ \A s, t \in stream.sync : s.id = t.id => s = t

\* An event that will tell the subscriber of the row: of a row that is gone only a removal
\* does.
Tells(kind, id) == kind = "remove" \/ table[id] # NoPolicy
InQueue(id) == \E i \in DOMAIN stream.queue : stream.queue[i].id = id /\ Tells(stream.queue[i].kind, id)
InRequest(id) == \E c \in Clients : IsPending(c) /\ req[c].id = id /\ Tells(req[c].op, id)
Announced(id) == InQueue(id) \/ InRequest(id)

Removals ==
  /\ \A c \in Clients : IsPending(c) /\ req[c].op = "remove" => table[req[c].id] = NoPolicy
  /\ \A i \in DOMAIN stream.queue :
       /\ stream.queue[i].id \in used \ {Template}
       /\ stream.queue[i].kind = "remove" => table[stream.queue[i].id] = NoPolicy

InSync(id) == \E s \in stream.sync : s.id = id /\ s.row = table[id]
ToCome(id) == Agrees(id) \/ Announced(id) \/ InSync(id) \/ (~stream.on /\ held < ver)
Told ==
  /\ \A id \in Ids \ astray : ToCome(id)
  /\ \A s \in stream.sync :
       /\ s.id # Template /\ s.id \in used /\ s.row.status = "active"
       /\ s.row = table[s.id] \/ Announced(s.id) \/ s.id \in astray
  /\ copy[Template] = NoPolicy
  /\ \A id \in Ids : id \notin used => copy[id] = NoPolicy

Inv == Sound /\ Queue /\ Removals /\ Told

-----------------------------------------------------------------------------
LEMMA Limits == Template \in Ids /\ MaxCommits \in Nat /\ MaxPart = 2 * MaxCommits + 3
                /\ NoPolicy \notin Policy /\ NoReq \notin Request
BY PoliciesAssumption, NoneAssumption DEF MaxPart

LEMMA Drafts ==
  ASSUME NEW new \in SUBSET (1 .. MaxPart)
  PROVE  /\ Draft(new) \in Policy /\ Draft(new).status = "draft" /\ Draft(new).parts = new
         /\ ~Draft(new).template
BY DEF Draft, Policy, Statuses

LEMMA Init_Inv == Init => Inv
<1> SUFFICES ASSUME Init PROVE Inv
  OBVIOUS
<1>1. PICK id0 \in Ids \ {Template}, s \in Statuses :
        /\ table = [i \in Ids |->
                      CASE i = Template -> [Draft({1, 2}) EXCEPT !.template = TRUE]
                        [] i = id0 -> [Draft({3}) EXCEPT !.status = s]
                        [] OTHER -> NoPolicy]
        /\ used = {Template, id0}
        /\ astray = IF s = "active" THEN {id0} ELSE {}
  BY DEF Init
<1> DEFINE t == [Draft({1, 2}) EXCEPT !.template = TRUE]
           p == [Draft({3}) EXCEPT !.status = s]
<1>2. /\ t \in Policy /\ t.template = TRUE /\ t.parts = {1, 2} /\ t.status = "draft"
      /\ p \in Policy /\ p.template = FALSE /\ p.parts = {3} /\ p.status = s
      /\ t # NoPolicy /\ p # NoPolicy
  <2>1. 1 \in 1 .. MaxPart /\ 2 \in 1 .. MaxPart /\ 3 \in 1 .. MaxPart
    BY Limits
  <2>2. t \in Policy /\ t.template = TRUE /\ t.parts = {1, 2} /\ t.status = "draft"
    BY <2>1 DEF Draft, Policy, Statuses
  <2>3. p \in Policy /\ p.template = FALSE /\ p.parts = {3} /\ p.status = s
    BY <2>1 DEF Draft, Policy, Statuses
  <2> QED  BY <2>2, <2>3, Limits
<1> HIDE DEF t, p
<1>3. /\ table[Template] = t /\ table[id0] = p
      /\ \A i \in Ids \ {Template, id0} : table[i] = NoPolicy
      /\ table \in Rows
  <2>1. table = [i \in Ids |-> CASE i = Template -> t [] i = id0 -> p [] OTHER -> NoPolicy]
    BY <1>1 DEF t, p
  <2> QED  BY <1>2, <2>1, Limits DEF Rows
<1>4. /\ audited = table /\ req = [c \in Clients |-> NoReq] /\ parts = 3 /\ commits = 0 /\ ver = 0
      /\ stream = Off /\ copy = [id \in Ids |-> NoPolicy] /\ held = 0
      /\ raced = {} /\ strayed = {} /\ nulled = {}
  BY DEF Init
<1>5. /\ stream.on = FALSE /\ stream.queue = <<>> /\ stream.sync = {} /\ stream.at = 0
      /\ stream \in Stream
  BY <1>4, EmptySeq DEF Off, Stream
<1>6. Typed
  <2>1. table \in Rows /\ audited \in Rows /\ copy \in Rows
    BY <1>3, <1>4 DEF Rows
  <2>2. used \subseteq Ids /\ req \in [Clients -> Request \cup {NoReq}]
    BY <1>1, <1>4, Limits
  <2>3. /\ commits \in 0 .. MaxCommits /\ parts \in Nat /\ parts <= 2 * commits + 3
        /\ ver \in Nat /\ held \in Nat /\ held <= ver
    BY <1>4, Limits
  <2> QED  BY <1>5, <2>1, <2>2, <2>3 DEF Typed
<1>7. Owned
  <2>1. \A c \in Clients : req[c] = NoReq
    BY <1>4
  <2>2. PartsHaveOneOwner
    BY <1>2, <1>3 DEF PartsHaveOneOwner
  <2>3. ASSUME NEW id \in Ids
        PROVE  /\ table[id] # NoPolicy => id \in used
               /\ table[id] # NoPolicy => /\ table[id].parts \subseteq 1 .. parts
                                          /\ table[id].template <=> id = Template
    <3>1. {1, 2} \subseteq 1 .. parts /\ {3} \subseteq 1 .. parts
      BY <1>4
    <3> DEFINE mine == {Template, id0}
    <3>0. used = mine /\ Template \in mine /\ id0 \in mine /\ id0 # Template
      BY <1>1
    <3> HIDE DEF mine
    <3>2. CASE id = Template
      <4>1. table[id] = t
        BY <1>3, <3>2
      <4> QED  BY <1>2, <3>0, <3>1, <3>2, <4>1
    <3>3. CASE id = id0
      <4>1. table[id] = p
        BY <1>3, <3>3
      <4> QED  BY <1>2, <3>0, <3>1, <3>3, <4>1
    <3>4. CASE id \notin {Template, id0}
      BY <1>3, <3>4
    <3> QED  BY <3>2, <3>3, <3>4
  <2> QED  BY <1>2, <1>3, <1>4, <2>1, <2>2, <2>3 DEF Owned
<1>8. AuditTellsTheTable /\ Loads
  BY <1>4 DEF AuditTellsTheTable, Loads, IsLoaded
<1>9. Counted
  <2>1. Pending = {}
    BY <1>4 DEF Pending, IsPending
  <2> QED  BY <1>4, <2>1, FS_EmptySet DEF Counted
<1>10. Queue /\ Removals
  BY <1>4, <1>5 DEF Queue, Removals, IsPending
<1>11. Told
  <2>1. \A id \in Ids \ astray : ~Active(id)
    BY <1>1, <1>2, <1>3 DEF Active, IsPolicy
  <2>2. \A id \in Ids : copy[id] = NoPolicy
    BY <1>4
  <2> QED  BY <1>5, <2>1, <2>2, Limits DEF Told, ToCome, Agrees
<1> QED  BY <1>6, <1>7, <1>8, <1>9, <1>10, <1>11 DEF Inv, Sound
-----------------------------------------------------------------------------
(* Requests.                                                               *)

\* A request becomes pending with its commit.
LEMMA CountOne ==
  ASSUME Sound, NEW c \in Clients, Pending' \subseteq Pending \cup {c}, ~IsPending(c),
         commits' = commits + 1, UNCHANGED ver
  PROVE  Counted'
<1>1. IsFiniteSet(Pending \cup {c}) /\ Cardinality(Pending \cup {c}) = Cardinality(Pending) + 1
  BY FS_AddElement DEF Sound, Counted, Pending
<1>2. IsFiniteSet(Pending') /\ Cardinality(Pending') <= Cardinality(Pending) + 1
  BY <1>1, FS_Subset
<1> QED  BY <1>2, FS_CardinalityType DEF Sound, Typed, Counted

\* The requests of others are where they were, this one may announce.
LEMMA StaysAnnounced ==
  ASSUME NEW c \in Clients, ~IsPending(c), UNCHANGED stream, NEW i \in Ids, Announced(i),
         \A d \in Clients \ {c} : req'[d] = req[d], table'[i] = NoPolicy => table[i] = NoPolicy
  PROVE  Announced(i)'
<1>1. \A k \in Kinds \cup {"activate", "suspend"} : Tells(k, i) => Tells(k, i)'
  BY DEF Tells
<1> QED  BY <1>1 DEF Announced, InQueue, InRequest, IsPending, Tells

LEMMA CommitInv ==
  ASSUME Inv, NEW c \in Clients, ~IsPending(c), NEW id \in Ids \ {Template},
         NEW row \in Policy \cup {NoPolicy}, NEW told \in Policy \cup {NoPolicy}, NEW event \in Kinds,
         Commit(c, id, row, told, event), UNCHANGED <<strayed, astray>>, nulled \subseteq nulled',
         row = NoPolicy <=> told = NoPolicy,
         row # NoPolicy =>
           /\ ~row.template /\ row.parts \subseteq 1 .. parts' /\ told.parts \subseteq 1 .. parts'
           /\ \A i \in Ids \ {id} : table[i] # NoPolicy => row.parts \cap table[i].parts = {}
           /\ \A d \in Clients \ {c} : IsLoaded(d) /\ req[d].id = id /\ id \notin raced
                                       => row.status = req[d].snap,
         parts' \in Nat, parts <= parts', parts' <= 2 * (commits + 1) + 3,
         id \in used /\ table[id] = NoPolicy => row = NoPolicy,
         id \notin raced \cup strayed \cup nulled' => told = row,
         event = "remove" => row = NoPolicy,
         event = "remove" \/ row # NoPolicy \/ table[id] = NoPolicy
  PROVE  Inv'
<1> DEFINE r == [op |-> event, id |-> id, snap |-> "draft", at |-> "committed"]
<1>1. /\ commits < MaxCommits /\ commits' = commits + 1
      /\ table' = [table EXCEPT ![id] = row] /\ used' = used \cup {id}
      /\ audited' = [audited EXCEPT ![id] = told] /\ req' = [req EXCEPT ![c] = r]
      /\ UNCHANGED <<ver, raced, stream, copy, held>>
  BY DEF Commit, subscriber
<1>2. r \in Request /\ r # NoReq /\ r.op = event /\ r.id = id /\ r.at = "committed"
  BY Limits DEF Request, Kinds, Statuses
<1> HIDE DEF r
<1>3. /\ table'[id] = row /\ audited'[id] = told /\ req'[c] = r
      /\ \A i \in Ids \ {id} : table'[i] = table[i] /\ audited'[i] = audited[i]
      /\ \A d \in Clients \ {c} : req'[d] = req[d]
  BY <1>1 DEF Inv, Sound, Typed, Rows
<1>4. Typed'
  <2>1. table' \in Rows /\ audited' \in Rows
    BY <1>1 DEF Inv, Sound, Typed, Rows
  <2>2. req' \in [Clients -> Request \cup {NoReq}]
    BY <1>1, <1>2 DEF Inv, Sound, Typed
  <2>3. commits' \in 0 .. MaxCommits
    BY <1>1, Limits DEF Inv, Sound, Typed
  <2> QED  BY <1>1, <2>1, <2>2, <2>3 DEF Inv, Sound, Typed
<1>5. parts \in Nat /\ 1 .. parts \subseteq 1 .. parts'
  BY DEF Inv, Sound, Typed
<1>6. Owned'
  <2>1. ASSUME NEW i \in Ids
        PROVE  /\ table'[i] # NoPolicy => i \in used'
               /\ audited'[i] = NoPolicy <=> table'[i] = NoPolicy
               /\ table'[i] # NoPolicy => /\ table'[i].parts \subseteq 1 .. parts'
                                          /\ table'[i].template <=> i = Template
               /\ audited'[i] # NoPolicy => audited'[i].parts \subseteq 1 .. parts'
    <3>1. CASE i = id
      BY <1>1, <1>3, <3>1 DEF Policy
    <3>2. CASE i # id
      BY <1>1, <1>3, <1>5, <3>2 DEF Inv, Sound, Owned
    <3> QED  BY <3>1, <3>2
  <2>2. table'[Template] # NoPolicy /\ table'[Template].parts \subseteq {1, 2}
    BY <1>3, Limits DEF Inv, Sound, Owned
  <2>3. ASSUME NEW d \in Clients, req'[d] # NoReq
        PROVE  /\ req'[d].id \in used' \ {Template}
               /\ IsPending(d)' => req'[d].op \in Kinds
    <3>1. CASE d = c
      BY <1>1, <1>2, <1>3, <3>1
    <3>2. CASE d # c
      BY <1>1, <1>3, <2>3, <3>2 DEF Inv, Sound, Owned, IsPending
    <3> QED  BY <3>1, <3>2
  <2>4. PartsHaveOneOwner'
    BY <1>3 DEF Inv, Sound, Owned, PartsHaveOneOwner
  <2> QED  BY <2>1, <2>2, <2>3, <2>4 DEF Owned
<1>7. AuditTellsTheTable'
  BY <1>1, <1>3 DEF Inv, Sound, AuditTellsTheTable
<1>8. Loads'
  <2>1. \A d \in Clients : IsLoaded(d)' => d # c /\ IsLoaded(d) /\ req'[d] = req[d]
    BY <1>2, <1>3 DEF IsLoaded
  <2>2. ASSUME NEW d \in Clients, IsLoaded(d)', req'[d].id \notin raced, table'[req'[d].id] # NoPolicy
        PROVE  table'[req'[d].id].status = req'[d].snap
    <3>1. req[d].id \in Ids
      BY <2>1, <2>2 DEF Inv, Sound, Typed, Request, IsLoaded
    <3>2. CASE req[d].id = id
      BY <1>3, <2>1, <2>2, <3>2
    <3>3. CASE req[d].id # id
      BY <1>3, <2>1, <2>2, <3>1, <3>3 DEF Inv, Sound, Loads
    <3> QED  BY <3>2, <3>3
  <2> QED  BY <1>1, <2>1, <2>2 DEF Inv, Sound, Loads
<1>9. Counted'
  <2>1. Pending' \subseteq Pending \cup {c}
    BY <1>3 DEF Pending, IsPending
  <2> QED  BY <1>1, <2>1, CountOne DEF Inv
<1>10. Queue'
  BY <1>1 DEF Inv, Queue
<1>11. Removals'
  <2>1. ASSUME NEW d \in Clients, IsPending(d)', req'[d].op = "remove"
        PROVE  table'[req'[d].id] = NoPolicy
    <3>1. CASE d = c
      BY <1>2, <1>3, <2>1, <3>1
    <3>2. CASE d # c
      <4>1. IsPending(d) /\ req'[d] = req[d] /\ req[d].id \in used /\ req[d].id \in Ids
        BY <1>3, <2>1, <3>2 DEF Inv, Sound, Typed, Owned, IsPending, Request
      <4> QED  BY <1>3, <2>1, <4>1 DEF Inv, Removals
    <3> QED  BY <3>1, <3>2
  <2>2. ASSUME NEW i \in DOMAIN stream.queue
        PROVE  /\ stream.queue[i].id \in used' \ {Template}
               /\ stream.queue[i].kind = "remove" => table'[stream.queue[i].id] = NoPolicy
    <3>1. stream.queue[i].id \in used \ {Template} /\ stream.queue[i].id \in Ids
      BY DEF Inv, Removals, Sound, Typed
    <3> QED  BY <1>1, <1>3, <3>1 DEF Inv, Removals
  <2> QED  BY <1>1, <2>1, <2>2 DEF Removals
<1>12. ASSUME NEW i \in Ids, Announced(i) PROVE Announced(i)'
  <2>1. CASE i = id /\ (event = "remove" \/ row # NoPolicy)
    BY <1>2, <1>3, <2>1 DEF Announced, InRequest, IsPending, Tells
  <2>2. CASE ~(i = id /\ (event = "remove" \/ row # NoPolicy))
    BY <1>1, <1>3, <1>12, <2>2, StaysAnnounced
  <2> QED  BY <2>1, <2>2
<1>13. ASSUME NEW i \in Ids PROVE table'[i] = table[i] \/ Announced(i)'
  <2>1. CASE i = id /\ (event = "remove" \/ row # NoPolicy)
    BY <1>2, <1>3, <2>1 DEF Announced, InRequest, IsPending, Tells
  <2>2. CASE ~(i = id /\ (event = "remove" \/ row # NoPolicy))
    BY <1>3, <2>2
  <2> QED  BY <2>1, <2>2
<1>14. Told'
  <2>1. ASSUME NEW i \in Ids \ astray PROVE ToCome(i)'
    <3>1. CASE table'[i] # table[i]
      BY <1>13, <3>1 DEF ToCome
    <3>2. CASE table'[i] = table[i]
      <4>1. ToCome(i)
        BY DEF Inv, Told
      <4>2. (Agrees(i) => Agrees(i)') /\ (InSync(i) => InSync(i)')
        BY <1>1, <3>2 DEF Agrees, Active, IsPolicy, InSync
      <4> QED  BY <1>1, <1>12, <4>1, <4>2 DEF ToCome
    <3> QED  BY <3>1, <3>2
  <2>2. ASSUME NEW s \in stream.sync
        PROVE  /\ s.id # Template /\ s.id \in used' /\ s.row.status = "active"
               /\ s.row = table'[s.id] \/ Announced(s.id)' \/ s.id \in astray
    <3>1. /\ s.id # Template /\ s.id \in used /\ s.row.status = "active"
          /\ s.row = table[s.id] \/ Announced(s.id) \/ s.id \in astray
      BY DEF Inv, Told
    <3>2. s.id \in Ids
      BY DEF Inv, Sound, Typed, Stream
    <3> QED  BY <1>1, <1>12, <1>13, <3>1, <3>2
  <2> QED  BY <1>1, <2>1, <2>2 DEF Inv, Told
<1> QED  BY <1>4, <1>6, <1>7, <1>8, <1>9, <1>10, <1>11, <1>14 DEF Inv, Sound
\* A new row, of a policy whose id was never given out.
LEMMA NewRowInv ==
  ASSUME Inv, NEW c \in Clients, req[c] = NoReq, NEW id \in Ids \ used, NEW row \in Policy,
         Commit(c, id, row, row, "add"), UNCHANGED <<strayed, nulled, astray>>,
         ~row.template, row.parts = (parts + 1) .. parts',
         parts' \in Nat, parts <= parts', parts' <= 2 * (commits + 1) + 3
  PROVE  Inv'
<1>1. id # Template /\ table[id] = NoPolicy /\ ~IsPending(c) /\ row # NoPolicy
  BY Limits DEF Inv, Sound, Owned, IsPending
<1>2. parts \in Nat /\ row.parts \subseteq 1 .. parts'
  BY DEF Inv, Sound, Typed
<1>3. \A i \in Ids \ {id} : table[i] # NoPolicy => row.parts \cap table[i].parts = {}
  BY <1>2 DEF Inv, Sound, Owned
<1>4. \A d \in Clients \ {c} : IsLoaded(d) => req[d].id # id
  BY DEF Inv, Sound, Owned, IsLoaded
<1> QED  BY <1>1, <1>2, <1>3, <1>4, CommitInv DEF Kinds

LEMMA CreateInv == ASSUME Inv, NEW c \in Clients, NEW id \in Ids, CreatePolicy(c, id) PROVE Inv'
<1>1. PICK n \in {0, 1} :
        /\ parts' = parts + n
        /\ Commit(c, id, Draft((parts + 1) .. (parts + n)), Draft((parts + 1) .. (parts + n)), "add")
  BY DEF CreatePolicy
<1>2. /\ req[c] = NoReq /\ id \in Ids \ used /\ UNCHANGED <<strayed, nulled, astray>>
      /\ commits < MaxCommits
  BY <1>1 DEF CreatePolicy, Commit
<1>3. parts' \in Nat /\ parts <= parts' /\ parts' <= 2 * (commits + 1) + 3
  BY <1>1 DEF Inv, Sound, Typed
<1>4. (parts + 1) .. (parts + n) \in SUBSET (1 .. MaxPart)
  BY <1>1, <1>2, <1>3, Limits DEF Inv, Sound, Typed
<1> QED  BY <1>1, <1>2, <1>3, <1>4, Drafts, NewRowInv

\* The template has two rules, as it was seeded, less those removed under another URL.
LEMMA PartsOfTemplate == ASSUME Inv PROVE Cardinality(table[Template].parts) \in 0 .. 2
<1>1. IsFiniteSet({1, 2}) /\ Cardinality({1, 2}) = 2
  <2>1. IsFiniteSet({1}) /\ Cardinality({1}) = 1
    BY FS_Singleton
  <2>2. IsFiniteSet({1} \cup {2}) /\ Cardinality({1} \cup {2}) = Cardinality({1}) + 1
    BY <2>1, FS_AddElement
  <2>3. {1} \cup {2} = {1, 2}
    OBVIOUS
  <2> QED  BY <2>1, <2>2, <2>3
<1>2. table[Template].parts \subseteq {1, 2}
  BY DEF Inv, Sound, Owned
<1>3. IsFiniteSet(table[Template].parts) /\ Cardinality(table[Template].parts) <= 2
  BY <1>1, <1>2, FS_Subset
<1> QED  BY <1>3, FS_CardinalityType

LEMMA CreateFromTemplateInv ==
  ASSUME Inv, NEW c \in Clients, NEW id \in Ids, CreateFromTemplate(c, id) PROVE Inv'
<1> DEFINE n == Cardinality(table[Template].parts)
<1>1. /\ parts' = parts + n
      /\ Commit(c, id, Draft((parts + 1) .. (parts + n)), Draft((parts + 1) .. (parts + n)), "add")
      /\ req[c] = NoReq /\ id \in Ids \ used /\ UNCHANGED <<strayed, nulled, astray>>
      /\ commits < MaxCommits
  BY DEF CreateFromTemplate, Clone, Commit
<1>2. n \in 0 .. 2
  BY PartsOfTemplate
<1> HIDE DEF n
<1>3. parts' \in Nat /\ parts <= parts' /\ parts' <= 2 * (commits + 1) + 3
  BY <1>1, <1>2 DEF Inv, Sound, Typed
<1>4. (parts + 1) .. (parts + n) \in SUBSET (1 .. MaxPart)
  BY <1>1, <1>2, <1>3, Limits DEF Inv, Sound, Typed
<1> QED  BY <1>1, <1>3, <1>4, Drafts, NewRowInv

\* What the rows of policies have in common; the row of the request's policy among them.
LEMMA RowFacts ==
  ASSUME Inv, NEW id \in Ids, table[id] # NoPolicy
  PROVE  /\ table[id] \in Policy /\ audited[id] \in Policy
         /\ table[id].parts \subseteq 1 .. parts /\ audited[id].parts \subseteq 1 .. parts
         /\ parts \in Nat /\ parts <= 2 * (commits + 1) + 3
         /\ \A i \in Ids \ {id} : table[i] # NoPolicy => table[id].parts \cap table[i].parts = {}
         /\ id \in used
         /\ IsPolicy(id) => id # Template /\ ~table[id].template
         /\ id # Template => ~table[id].template
         /\ \A d \in Clients : IsLoaded(d) /\ req[d].id = id /\ id \notin raced
                               => table[id].status = req[d].snap
<1>1. table[id] \in Policy /\ audited[id] \in Policy
  BY DEF Inv, Sound, Typed, Rows, Owned
<1>2. parts \in Nat /\ parts <= 2 * (commits + 1) + 3
  BY DEF Inv, Sound, Typed
<1>3. \A i \in Ids \ {id} : table[i] # NoPolicy => table[id].parts \cap table[i].parts = {}
  BY DEF Inv, Sound, Owned, PartsHaveOneOwner
<1>4. \A d \in Clients : IsLoaded(d) /\ req[d].id = id /\ id \notin raced
                         => table[id].status = req[d].snap
  BY DEF Inv, Sound, Loads
<1> QED  BY <1>1, <1>2, <1>3, <1>4 DEF Inv, Sound, Owned, IsPolicy

\* A commit that changes columns of a row but not its parts.
LEMMA UpdatedRowInv ==
  ASSUME Inv, NEW c \in Clients, ~IsPending(c), NEW id \in Ids \ {Template}, table[id] # NoPolicy,
         NEW row \in Policy, NEW told \in Policy, Commit(c, id, row, told, "modify"),
         UNCHANGED <<strayed, astray, parts>>, nulled \subseteq nulled',
         row.template = table[id].template, row.parts = table[id].parts, told.parts = audited[id].parts,
         \A d \in Clients \ {c} : IsLoaded(d) /\ req[d].id = id /\ id \notin raced
                                  => row.status = req[d].snap,
         id \notin raced \cup strayed \cup nulled' => told = row
  PROVE  Inv'
<1>1. row # NoPolicy /\ told # NoPolicy
  BY Limits
<1> QED  BY <1>1, RowFacts, CommitInv DEF Kinds

LEMMA UpdateInv ==
  ASSUME Inv, NEW c \in Clients, NEW id \in Ids, NEW value \in BOOLEAN, UpdatePolicy(c, id, value)
  PROVE  Inv'
<1> DEFINE row == IF value THEN [table[id] EXCEPT !.response = TRUE] ELSE table[id]
           told == [audited[id] EXCEPT !.response = value]
<1>1. /\ req[c] = NoReq /\ IsPolicy(id) /\ Commit(c, id, row, told, "modify")
      /\ nulled' = (IF value THEN nulled ELSE nulled \cup {id})
      /\ UNCHANGED <<parts, strayed, astray>>
  BY DEF UpdatePolicy
<1>2. ~IsPending(c) /\ table[id] # NoPolicy
  BY <1>1 DEF IsPending, IsPolicy
<1>3. id # Template
  BY <1>1, <1>2, RowFacts
<1>4. /\ row \in Policy /\ told \in Policy
      /\ row.template = table[id].template /\ row.parts = table[id].parts
      /\ row.status = table[id].status /\ told.parts = audited[id].parts
  BY <1>2, RowFacts DEF Policy
<1>5. id \notin raced \cup strayed \cup nulled' => told = row
  BY <1>1 DEF Inv, Sound, AuditTellsTheTable
<1>6. \A d \in Clients \ {c} : IsLoaded(d) /\ req[d].id = id /\ id \notin raced
                               => row.status = req[d].snap
  BY <1>2, <1>4, RowFacts
<1>7. nulled \subseteq nulled'
  BY <1>1
<1> HIDE DEF row, told
<1> QED  BY <1>1, <1>2, <1>3, <1>4, <1>5, <1>6, <1>7, UpdatedRowInv

LEMMA AddPartInv == ASSUME Inv, NEW c \in Clients, NEW id \in Ids, AddPart(c, id) PROVE Inv'
<1> DEFINE row == WithPart(table[id])
           told == WithPart(audited[id])
<1>1. /\ req[c] = NoReq /\ IsPolicy(id) /\ Commit(c, id, row, told, "modify")
      /\ parts' = parts + 1 /\ UNCHANGED <<nulled, strayed, astray>> /\ commits < MaxCommits
  BY DEF AddPart, Commit
<1>2. ~IsPending(c) /\ table[id] # NoPolicy
  BY <1>1 DEF IsPending, IsPolicy
<1>3. id # Template /\ parts \in Nat /\ parts' <= 2 * (commits + 1) + 3
  BY <1>1, <1>2, RowFacts DEF Inv, Sound, Typed
<1>4. parts + 1 \in 1 .. MaxPart /\ 1 .. parts \subseteq 1 .. parts'
  BY <1>1, <1>3, Limits DEF Inv, Sound, Typed
<1>5. /\ row \in Policy /\ row.template = table[id].template /\ row.status = table[id].status
      /\ row.parts = table[id].parts \cup {parts + 1}
  BY <1>2, <1>4, RowFacts DEF Policy, WithPart
<1>6. told \in Policy /\ told.parts = audited[id].parts \cup {parts + 1}
  BY <1>2, <1>4, RowFacts DEF Policy, WithPart
<1>7. id \notin raced \cup strayed \cup nulled' => told = row
  BY <1>1 DEF Inv, Sound, AuditTellsTheTable
<1> HIDE DEF row, told
<1>8. row # NoPolicy /\ told # NoPolicy /\ ~row.template
  BY <1>2, <1>3, <1>5, <1>6, RowFacts, Limits
<1>9. row.parts \subseteq 1 .. parts' /\ told.parts \subseteq 1 .. parts'
  BY <1>1, <1>2, <1>3, <1>4, <1>5, <1>6, RowFacts
<1>10. \A i \in Ids \ {id} : table[i] # NoPolicy => row.parts \cap table[i].parts = {}
  <2>1. \A i \in Ids : table[i] # NoPolicy => parts + 1 \notin table[i].parts
    BY <1>3, RowFacts
  <2> QED  BY <1>2, <1>5, <2>1, RowFacts
<1>11. \A d \in Clients \ {c} : IsLoaded(d) /\ req[d].id = id /\ id \notin raced
                                => row.status = req[d].snap
  BY <1>2, <1>5, RowFacts
<1>12. parts' \in Nat /\ parts <= parts'
  BY <1>1, <1>3
<1> QED
  BY <1>1, <1>2, <1>3, <1>5, <1>6, <1>7, <1>8, <1>9, <1>10, <1>11, <1>12, CommitInv DEF Kinds

LEMMA DeleteInv == ASSUME Inv, NEW c \in Clients, NEW id \in Ids, DeletePolicy(c, id) PROVE Inv'
<1>1. /\ req[c] = NoReq /\ IsPolicy(id) /\ Commit(c, id, NoPolicy, NoPolicy, "remove")
      /\ UNCHANGED <<parts, strayed, nulled, astray>>
  BY DEF DeletePolicy
<1>2. ~IsPending(c) /\ table[id] # NoPolicy
  BY <1>1 DEF IsPending, IsPolicy
<1>3. id # Template /\ parts \in Nat /\ parts <= parts' /\ parts' <= 2 * (commits + 1) + 3
  BY <1>1, <1>2, RowFacts
<1> QED  BY <1>1, <1>2, <1>3, CommitInv DEF Kinds
\* A request that is not pending is taken up or given up: nothing else changes.
LEMMA RequestInv ==
  ASSUME Inv, NEW c \in Clients, ~IsPending(c), ~IsPending(c)',
         req' = [req EXCEPT ![c] = req'[c]], req'[c] \in Request \cup {NoReq},
         req'[c] # NoReq => /\ IsPolicy(req'[c].id) /\ req'[c].snap = table[req'[c].id].status
                            /\ \A d \in Clients \ {c} : IsLoaded(d) /\ req[d].id = req'[c].id
                                                        => req'[c].id \in raced',
         raced \subseteq raced',
         UNCHANGED <<table, used, audited, parts, commits, ver, strayed, nulled, astray, stream, copy, held>>
  PROVE  Inv'
<1>1. \A d \in Clients \ {c} : req'[d] = req[d]
  BY DEF Inv, Sound, Typed
<1>2. Typed'
  <2>1. req' \in [Clients -> Request \cup {NoReq}]
    BY DEF Inv, Sound, Typed
  <2> QED  BY <2>1 DEF Inv, Sound, Typed
<1>3. Owned'
  <2>1. ASSUME NEW d \in Clients, req'[d] # NoReq
        PROVE  /\ req'[d].id \in used \ {Template}
               /\ IsPending(d)' => req'[d].op \in Kinds
    <3>1. CASE d = c
      <4>1. req'[c].id \in Ids /\ IsPolicy(req'[c].id) /\ table[req'[c].id] # NoPolicy
        BY <2>1, <3>1 DEF Request, IsPolicy
      <4> QED  BY <3>1, <4>1, RowFacts
    <3>2. CASE d # c
      BY <1>1, <2>1, <3>2 DEF Inv, Sound, Owned, IsPending
    <3> QED  BY <3>1, <3>2
  <2> QED  BY <2>1 DEF Inv, Sound, Owned, PartsHaveOneOwner
<1>4. AuditTellsTheTable'
  BY DEF Inv, Sound, AuditTellsTheTable
<1>5. Loads'
  BY <1>1 DEF Inv, Sound, Loads, IsLoaded
<1>6. Pending' = Pending
  BY <1>1 DEF Pending, IsPending
<1>7. \A i \in Ids : Announced(i)' <=> Announced(i)
  BY <1>1 DEF Announced, InQueue, InRequest, IsPending, Tells
<1>8. Queue' /\ Removals'
  BY <1>1 DEF Inv, Queue, Removals, IsPending
<1>9. Told'
  <2>1. \A s \in stream.sync : s.id \in Ids
    BY DEF Inv, Sound, Typed, Stream
  <2> QED  BY <1>7, <2>1 DEF Inv, Told, ToCome, Agrees, Active, IsPolicy, InSync
<1> QED  BY <1>2, <1>3, <1>4, <1>5, <1>6, <1>8, <1>9 DEF Inv, Sound, Counted

LEMMA LoadInv ==
  ASSUME Inv, NEW c \in Clients, NEW op \in {"activate", "suspend"}, NEW id \in Ids, Load(c, op, id)
  PROVE  Inv'
<1> DEFINE r == [op |-> op, id |-> id, snap |-> table[id].status, at |-> "loaded"]
<1>1. /\ req[c] = NoReq /\ IsPolicy(id) /\ req' = [req EXCEPT ![c] = r]
      /\ raced' = (IF \E d \in Clients : req[d] # NoReq /\ req[d].at = "loaded" /\ req[d].id = id
                   THEN raced \cup {id} ELSE raced)
      /\ UNCHANGED <<table, used, audited, parts, commits, ver, strayed, nulled, astray, stream, copy, held>>
  BY DEF Load, subscriber
<1>2. table[id] \in Policy
  BY <1>1, RowFacts DEF IsPolicy
<1>3. r \in Request /\ r.id = id /\ r.snap = table[id].status /\ r.at = "loaded"
  BY <1>2 DEF Request, Policy
<1> HIDE DEF r
<1>4. req'[c] = r
  BY <1>1 DEF Inv, Sound, Typed
<1>5. ~IsPending(c) /\ ~IsPending(c)'
  BY <1>1, <1>3, <1>4 DEF IsPending
<1>6. raced \subseteq raced' /\ \A d \in Clients : IsLoaded(d) /\ req[d].id = id => id \in raced'
  BY <1>1 DEF IsLoaded
<1> QED  BY <1>1, <1>3, <1>4, <1>5, <1>6, RequestInv

LEMMA FailsInv == ASSUME Inv, NEW c \in Clients, ~IsPending(c), Fails(c) PROVE Inv'
<1>1. /\ req' = [req EXCEPT ![c] = NoReq]
      /\ UNCHANGED <<table, used, audited, parts, commits, ver, raced, strayed, nulled, astray,
                     stream, copy, held>>
  BY DEF Fails, history, subscriber
<1>2. req'[c] = NoReq
  BY <1>1 DEF Inv, Sound, Typed
<1> QED  BY <1>1, <1>2, RequestInv DEF IsPending

LEMMA ChangeStatusInv ==
  ASSUME Inv, NEW c \in Clients, NEW op \in {"activate", "suspend"}, NEW s \in {"active", "suspended"},
         ChangeStatus(c, op, s)
  PROVE  Inv'
<1> DEFINE id == req[c].id
           row == SetStatus(c, s)
           told == [audited[id] EXCEPT !.status = s]
<1>1. IsLoaded(c) /\ ~IsPending(c) /\ id \in Ids \ {Template} /\ id \in used
  BY DEF ChangeStatus, Loaded, IsLoaded, IsPending, Inv, Sound, Typed, Owned, Request
<1>2. CASE table[id] # NoPolicy
  <2>1. Commit(c, id, row, told, "modify") /\ UNCHANGED <<parts, strayed, nulled, astray>>
    BY <1>2 DEF ChangeStatus
  <2>2. row = [table[id] EXCEPT !.status = Written(table[id].status, req[c].snap, s)]
    BY DEF SetStatus
  <2>3. Written(table[id].status, req[c].snap, s) \in Statuses
    BY <1>1, <1>2, RowFacts DEF Written, Statuses, Policy
  <2>4. /\ row \in Policy /\ row.template = table[id].template /\ row.parts = table[id].parts
        /\ told \in Policy /\ told.parts = audited[id].parts
    BY <1>1, <1>2, <2>2, <2>3, RowFacts DEF Policy, Statuses
  <2>5. id \notin raced \cup strayed \cup nulled => told = row
    <3>1. ASSUME id \notin raced \cup strayed \cup nulled PROVE told = row
      <4>1. audited[id] = table[id] /\ table[id].status = req[c].snap
        BY <1>1, <1>2, <3>1 DEF Inv, Sound, AuditTellsTheTable, Loads
      <4>2. Written(table[id].status, req[c].snap, s) = s
        BY <4>1 DEF Written
      <4> QED  BY <2>2, <4>1, <4>2
    <3> QED  BY <3>1
  <2>6. \A d \in Clients \ {c} : ~(IsLoaded(d) /\ req[d].id = id /\ id \notin raced)
    BY <1>1 DEF Inv, Sound, Loads
  <2> HIDE DEF id, row, told
  <2> QED  BY <1>1, <1>2, <2>1, <2>4, <2>5, <2>6, UpdatedRowInv
<1>3. CASE table[id] = NoPolicy
  <2>1. \/ Fails(c)
        \/ Commit(c, id, NoPolicy, NoPolicy, "modify") /\ UNCHANGED <<parts, strayed, nulled, astray>>
    BY <1>3 DEF ChangeStatus, Gone
  <2>2. parts \in Nat /\ parts <= 2 * (commits + 1) + 3
    BY DEF Inv, Sound, Typed
  <2>3. ASSUME Commit(c, id, NoPolicy, NoPolicy, "modify"), UNCHANGED <<parts, strayed, nulled, astray>>
        PROVE  Inv'
    <3> HIDE DEF id
    <3> QED  BY <1>1, <1>3, <2>2, <2>3, CommitInv DEF Kinds
  <2> QED  BY <1>1, <2>1, <2>3, FailsInv
<1> QED  BY <1>2, <1>3

-----------------------------------------------------------------------------
\* A part is removed from whatever row has it.
LEMMA WithoutPart ==
  ASSUME NEW row \in Policy, NEW part
  PROVE  /\ Without(row, part) \in Policy /\ Without(row, part) # NoPolicy
         /\ Without(row, part).status = row.status /\ Without(row, part).template = row.template
         /\ Without(row, part).parts = row.parts \ {part}
         /\ part \notin row.parts => Without(row, part) = row
<1>1. row # NoPolicy
  BY Limits
<1>2. Without(row, part) = [row EXCEPT !.parts = @ \ {part}]
  BY <1>1 DEF Without
<1>3. part \notin row.parts => row.parts \ {part} = row.parts
  OBVIOUS
<1>4. part \notin row.parts => Without(row, part) = row
  BY <1>2, <1>3 DEF Policy
<1>5. Without(row, part) \in Policy
  BY <1>2 DEF Policy
<1> QED  BY <1>2, <1>4, <1>5, Limits DEF Policy

LEMMA RemovePartInv ==
  ASSUME Inv, NEW c \in Clients, NEW id \in Ids, NEW part \in AllParts, RemovePart(c, id, part)
  PROVE  Inv'
<1> DEFINE owner == {i \in Ids : table[i] # NoPolicy /\ part \in table[i].parts}
           r == [op |-> "modify", id |-> id, snap |-> "draft", at |-> "committed"]
<1>1. /\ req[c] = NoReq /\ IsPolicy(id) /\ commits < MaxCommits /\ commits' = commits + 1
      /\ table' = [i \in Ids |-> Without(table[i], part)]
      /\ audited' = [audited EXCEPT ![id] = Without(audited[id], part)]
      /\ strayed' = strayed \cup (owner \ {id}) /\ astray' = astray \cup (owner \ {id})
      /\ req' = [req EXCEPT ![c] = r]
      /\ UNCHANGED <<used, parts, ver, raced, nulled, stream, copy, held>>
  BY DEF RemovePart, subscriber
<1>2. /\ r \in Request /\ r # NoReq /\ r.op = "modify" /\ r.id = id /\ r.at = "committed"
      /\ ~IsPending(c) /\ table[id] # NoPolicy
  BY <1>1, Limits DEF Request, Statuses, IsPending, IsPolicy
<1>3. id \in used \ {Template}
  BY <1>1, <1>2, RowFacts
<1> HIDE DEF r
<1>4. req'[c] = r /\ \A d \in Clients \ {c} : req'[d] = req[d]
  BY <1>1 DEF Inv, Sound, Typed
<1>5. ASSUME NEW i \in Ids
      PROVE  /\ table'[i] = NoPolicy <=> table[i] = NoPolicy
             /\ table[i] # NoPolicy => /\ table'[i] \in Policy
                                       /\ table'[i].status = table[i].status
                                       /\ table'[i].template = table[i].template
                                       /\ table'[i].parts \subseteq table[i].parts
             /\ i \notin owner => table'[i] = table[i]
  <2>1. CASE table[i] = NoPolicy
    BY <1>1, <2>1 DEF Without
  <2>2. CASE table[i] # NoPolicy
    <3>1. table[i] \in Policy /\ table'[i] = Without(table[i], part)
      BY <1>1, <2>2, RowFacts
    <3> QED  BY <2>2, <3>1, WithoutPart
  <2> QED  BY <2>1, <2>2
<1>6. /\ audited'[id] \in Policy /\ audited'[id] # NoPolicy /\ audited'[id].parts \subseteq audited[id].parts
      /\ audited'[id] = Without(audited[id], part)
      /\ \A i \in Ids \ {id} : audited'[i] = audited[i]
  <2>1. audited \in Rows /\ audited[id] \in Policy
    BY <1>2, RowFacts DEF Inv, Sound, Typed
  <2> QED  BY <1>1, <2>1, WithoutPart DEF Rows
<1>7. Typed'
  <2>1. table' \in Rows
    BY <1>1, <1>5 DEF Rows
  <2>2. audited' \in Rows
    BY <1>1, <1>6 DEF Rows, Inv, Sound, Typed
  <2>3. req' \in [Clients -> Request \cup {NoReq}]
    BY <1>1, <1>2 DEF Inv, Sound, Typed
  <2>4. commits' \in 0 .. MaxCommits /\ parts <= 2 * commits' + 3
    BY <1>1, Limits DEF Inv, Sound, Typed
  <2> QED  BY <1>1, <2>1, <2>2, <2>3, <2>4 DEF Inv, Sound, Typed
<1>8. Owned'
  <2>1. ASSUME NEW i \in Ids
        PROVE  /\ table'[i] # NoPolicy => i \in used'
               /\ audited'[i] = NoPolicy <=> table'[i] = NoPolicy
               /\ table'[i] # NoPolicy => /\ table'[i].parts \subseteq 1 .. parts'
                                          /\ table'[i].template <=> i = Template
               /\ audited'[i] # NoPolicy => audited'[i].parts \subseteq 1 .. parts'
    <3>1. CASE i = id
      BY <1>1, <1>2, <1>5, <1>6, <3>1 DEF Inv, Sound, Owned
    <3>2. CASE i # id
      BY <1>1, <1>5, <1>6, <3>2 DEF Inv, Sound, Owned
    <3> QED  BY <3>1, <3>2
  <2>2. table'[Template] # NoPolicy /\ table'[Template].parts \subseteq {1, 2}
    BY <1>5, Limits DEF Inv, Sound, Owned
  <2>3. ASSUME NEW d \in Clients, req'[d] # NoReq
        PROVE  /\ req'[d].id \in used' \ {Template}
               /\ IsPending(d)' => req'[d].op \in Kinds
    BY <1>1, <1>2, <1>3, <1>4, <2>3 DEF Inv, Sound, Owned, IsPending, Kinds
  <2>4. PartsHaveOneOwner'
    BY <1>5 DEF Inv, Sound, Owned, PartsHaveOneOwner
  <2> QED  BY <2>1, <2>2, <2>3, <2>4 DEF Owned
<1>9. AuditTellsTheTable'
  <2>1. ASSUME NEW i \in Ids \ (raced' \cup strayed' \cup nulled') PROVE audited'[i] = table'[i]
    <3>1. audited[i] = table[i]
      BY <1>1, <2>1 DEF Inv, Sound, AuditTellsTheTable
    <3>2. CASE i = id
      BY <1>1, <1>6, <3>1, <3>2
    <3>3. CASE i # id
      BY <1>1, <1>5, <1>6, <2>1, <3>1, <3>3
    <3> QED  BY <3>2, <3>3
  <2> QED  BY <2>1 DEF AuditTellsTheTable
<1>10. Loads'
  <2>1. \A d \in Clients : IsLoaded(d)' => IsLoaded(d) /\ req'[d] = req[d] /\ req[d].id \in Ids
    BY <1>2, <1>4 DEF IsLoaded, Inv, Sound, Typed, Request
  <2> QED  BY <1>1, <1>5, <2>1 DEF Inv, Sound, Loads
<1>11. Counted'
  <2>1. Pending' \subseteq Pending \cup {c}
    BY <1>4 DEF Pending, IsPending
  <2> QED  BY <1>1, <1>2, <2>1, CountOne DEF Inv
<1>12. Queue' /\ Removals'
  <2>1. \A d \in Clients : IsPending(d)' /\ req'[d].op = "remove"
                           => IsPending(d) /\ req'[d] = req[d] /\ req[d].id \in Ids
    BY <1>2, <1>4 DEF IsPending, Inv, Sound, Typed, Request
  <2>2. \A i \in DOMAIN stream.queue : stream.queue[i].id \in Ids
    BY DEF Inv, Sound, Typed, Removals
  <2> QED  BY <1>1, <1>5, <2>1, <2>2 DEF Inv, Queue, Removals
<1>13. \A i \in Ids : Announced(i) => Announced(i)'
  BY <1>1, <1>2, <1>4, <1>5, StaysAnnounced
<1>14. Announced(id)'
  BY <1>2, <1>4, <1>5 DEF Announced, InRequest, IsPending, Tells
<1>15. Told'
  <2>1. ASSUME NEW i \in Ids \ astray' PROVE ToCome(i)'
    <3>1. CASE i = id
      BY <1>14, <3>1 DEF ToCome
    <3>2. CASE i # id
      <4>1. table'[i] = table[i] /\ ToCome(i)
        BY <1>1, <1>5, <2>1, <3>2 DEF Inv, Told
      <4>2. (Agrees(i) => Agrees(i)') /\ (InSync(i) => InSync(i)')
        BY <1>1, <4>1 DEF Agrees, Active, IsPolicy, InSync
      <4> QED  BY <1>1, <1>13, <4>1, <4>2 DEF ToCome
    <3> QED  BY <3>1, <3>2
  <2>2. ASSUME NEW s \in stream.sync
        PROVE  /\ s.id # Template /\ s.id \in used' /\ s.row.status = "active"
               /\ s.row = table'[s.id] \/ Announced(s.id)' \/ s.id \in astray'
    <3>1. /\ s.id # Template /\ s.id \in used /\ s.row.status = "active"
          /\ s.row = table[s.id] \/ Announced(s.id) \/ s.id \in astray
      BY DEF Inv, Told
    <3>2. s.id \in Ids
      BY DEF Inv, Sound, Typed, Stream
    <3> QED  BY <1>1, <1>5, <1>13, <1>14, <3>1, <3>2
  <2> QED  BY <1>1, <2>1, <2>2 DEF Inv, Told
<1> QED  BY <1>7, <1>8, <1>9, <1>10, <1>11, <1>12, <1>15 DEF Inv, Sound
-----------------------------------------------------------------------------
(* Events and the stream.                                                  *)

LEMMA PublishInv == ASSUME Inv, NEW c \in Clients, Publish(c) PROVE Inv'
<1> DEFINE e == [kind |-> req[c].op, id |-> req[c].id, ver |-> ver + 1]
           q == stream.queue
<1>1. /\ IsPending(c) /\ ver' = ver + 1 /\ req' = [req EXCEPT ![c] = NoReq]
      /\ stream' = IF stream.on THEN [stream EXCEPT !.queue = Append(q, e)] ELSE stream
      /\ UNCHANGED <<table, used, audited, parts, commits, copy, held, astray, raced, strayed, nulled>>
  BY DEF Publish, Queued, Event, IsPending, history
<1>2. /\ req[c].id \in used \ {Template} /\ req[c].id \in Ids /\ req[c].op \in Kinds
      /\ req[c].op = "remove" => table[req[c].id] = NoPolicy
  BY <1>1 DEF Inv, Sound, Typed, Owned, Removals, IsPending, Request
<1>3. req'[c] = NoReq /\ \A d \in Clients \ {c} : req'[d] = req[d]
  BY <1>1 DEF Inv, Sound, Typed
<1>4. /\ stream \in Stream /\ q \in Seq(EventRec) /\ Len(q) \in Nat /\ DOMAIN q = 1 .. Len(q)
      /\ ver \in Nat /\ held \in Nat /\ held <= ver
  BY DEF Inv, Sound, Typed, Stream
<1>5. e \in EventRec /\ e.kind = req[c].op /\ e.id = req[c].id /\ e.ver = ver + 1
  BY <1>2, <1>4 DEF EventRec
<1> HIDE DEF e
<1>6. stream.on => /\ Append(q, e) \in Seq(EventRec) /\ DOMAIN Append(q, e) = 1 .. Len(q) + 1
                   /\ \A i \in 1 .. Len(q) : Append(q, e)[i] = q[i]
                   /\ Append(q, e)[Len(q) + 1] = e
  BY <1>4, <1>5, AppendProperties
<1> HIDE DEF q
<1>7. /\ stream'.on = stream.on /\ stream'.sync = stream.sync /\ stream'.at = stream.at
      /\ stream'.queue = (IF stream.on THEN Append(q, e) ELSE q)
      /\ stream' \in Stream
  BY <1>1, <1>4, <1>6 DEF Stream, q
<1>8. Typed'
  <2>1. req' \in [Clients -> Request \cup {NoReq}]
    BY <1>1 DEF Inv, Sound, Typed
  <2>2. ver' \in Nat /\ held <= ver'
    BY <1>1, <1>4
  <2> QED  BY <1>1, <1>7, <2>1, <2>2 DEF Inv, Sound, Typed
<1>9. Owned' /\ AuditTellsTheTable' /\ Loads'
  BY <1>1, <1>3 DEF Inv, Sound, Owned, PartsHaveOneOwner, AuditTellsTheTable, Loads, IsLoaded, IsPending
<1>10. Counted'
  <2>1. c \in Pending /\ Pending' = Pending \ {c}
    BY <1>1, <1>3 DEF Pending, IsPending
  <2>2. IsFiniteSet(Pending') /\ Cardinality(Pending') = Cardinality(Pending) - 1
    BY <2>1, FS_RemoveElement DEF Inv, Sound, Counted
  <2> QED  BY <1>1, <1>4, <2>2, FS_CardinalityType DEF Inv, Sound, Counted, Typed
<1>11. Queue'
  <2>1. stream.at <= ver /\ stream.at \in Nat
    BY <1>4 DEF Inv, Queue, Stream
  <2>2. ASSUME NEW i \in DOMAIN stream'.queue
        PROVE  /\ stream'.queue[i].ver \in 1 .. ver' /\ stream'.queue[i].ver > held
               /\ stream'.queue[i].ver > stream.at
    <3>1. CASE i \in 1 .. Len(q)
      <4>1. stream'.queue[i] = q[i] /\ q[i].ver \in 1 .. ver /\ q[i].ver > held /\ q[i].ver > stream.at
        BY <1>4, <1>6, <1>7, <3>1 DEF Inv, Queue, q
      <4> QED  BY <1>1, <1>4, <4>1
    <3>2. CASE i \notin 1 .. Len(q)
      <4>1. stream'.queue[i] = e
        BY <1>4, <1>6, <1>7, <2>2, <3>2
      <4> QED  BY <1>1, <1>4, <1>5, <2>1, <4>1
    <3> QED  BY <3>1, <3>2
  <2>3. ASSUME NEW i \in DOMAIN stream'.queue, NEW j \in DOMAIN stream'.queue, i < j
        PROVE  stream'.queue[i].ver < stream'.queue[j].ver
    <3>1. i \in 1 .. Len(q) /\ stream'.queue[i] = q[i] /\ q[i].ver \in 1 .. ver
      BY <1>4, <1>6, <1>7, <2>3 DEF Inv, Queue, q
    <3>2. CASE j \in 1 .. Len(q)
      BY <1>4, <1>6, <1>7, <2>3, <3>1, <3>2 DEF Inv, Queue, q
    <3>3. CASE j \notin 1 .. Len(q)
      <4>1. stream'.queue[j] = e
        BY <1>4, <1>6, <1>7, <2>3, <3>3
      <4> QED  BY <1>4, <1>5, <3>1, <4>1
    <3> QED  BY <3>2, <3>3
  <2>4. ~stream'.on => stream'.queue = <<>> /\ stream'.sync = {}
    BY <1>7 DEF Inv, Queue, q
  <2>5. /\ stream'.sync # {} => held <= stream'.at
        /\ \A s, t \in stream'.sync : s.id = t.id => s = t
    BY <1>7 DEF Inv, Queue
  <2> QED  BY <1>1, <1>4, <1>7, <2>1, <2>2, <2>3, <2>4, <2>5 DEF Queue
<1>12. Removals'
  <2>1. ASSUME NEW i \in DOMAIN stream'.queue
        PROVE  /\ stream'.queue[i].id \in used \ {Template}
               /\ stream'.queue[i].kind = "remove" => table[stream'.queue[i].id] = NoPolicy
    <3>1. CASE i \in 1 .. Len(q)
      BY <1>4, <1>6, <1>7, <3>1 DEF Inv, Removals, q
    <3>2. CASE i \notin 1 .. Len(q)
      <4>1. stream'.queue[i] = e
        BY <1>4, <1>6, <1>7, <2>1, <3>2
      <4> QED  BY <1>2, <1>5, <4>1
    <3> QED  BY <3>1, <3>2
  <2> QED  BY <1>1, <1>3, <2>1 DEF Inv, Removals, IsPending
<1>13. ASSUME NEW i \in Ids, Announced(i), stream.on PROVE Announced(i)'
  <2>1. CASE InQueue(i)
    <3>1. PICK k \in 1 .. Len(q) : q[k].id = i /\ Tells(q[k].kind, i)
      BY <1>4, <2>1 DEF InQueue, q
    <3>2. k \in DOMAIN stream'.queue /\ stream'.queue[k] = q[k]
      BY <1>4, <1>6, <1>7, <1>13
    <3> QED  BY <1>1, <3>1, <3>2 DEF Announced, InQueue, Tells
  <2>2. CASE InRequest(i)
    <3>1. PICK d \in Clients : IsPending(d) /\ req[d].id = i /\ Tells(req[d].op, i)
      BY <2>2 DEF InRequest
    <3>2. CASE d = c
      <4>1. Len(q) + 1 \in DOMAIN stream'.queue /\ stream'.queue[Len(q) + 1] = e
        BY <1>4, <1>6, <1>7, <1>13
      <4> QED  BY <1>1, <1>5, <3>1, <3>2, <4>1 DEF Announced, InQueue, Tells
    <3>3. CASE d # c
      BY <1>1, <1>3, <3>1, <3>3 DEF Announced, InRequest, IsPending, Tells
    <3> QED  BY <3>2, <3>3
  <2> QED  BY <1>13, <2>1, <2>2 DEF Announced
<1>14. Told'
  <2>1. ASSUME NEW i \in Ids \ astray PROVE ToCome(i)'
    <3>1. CASE ~stream.on
      <4>1. ~stream'.on /\ held < ver'
        BY <1>1, <1>4, <1>7, <3>1
      <4> QED  BY <1>1, <4>1 DEF ToCome
    <3>2. CASE stream.on
      <4>1. ToCome(i)
        BY DEF Inv, Told
      <4>2. (Agrees(i) => Agrees(i)') /\ (InSync(i) => InSync(i)')
        BY <1>1, <1>7 DEF Agrees, Active, IsPolicy, InSync
      <4> QED  BY <1>13, <3>2, <4>1, <4>2 DEF ToCome
    <3> QED  BY <3>1, <3>2
  <2>2. ASSUME NEW s \in stream.sync
        PROVE  /\ s.id # Template /\ s.id \in used /\ s.row.status = "active"
               /\ s.row = table[s.id] \/ Announced(s.id)' \/ s.id \in astray
    <3>1. stream.on /\ s.id \in Ids
      BY <1>4 DEF Inv, Queue, Stream
    <3> QED  BY <1>13, <3>1 DEF Inv, Told
  <2> QED  BY <1>1, <1>7, <2>1, <2>2 DEF Inv, Told
<1> QED  BY <1>8, <1>9, <1>10, <1>11, <1>12, <1>14 DEF Inv, Sound

\* Steps of the stream leave the tables and the requests alone.
LEMMA SoundStays ==
  ASSUME Inv, RequestsUnchanged, stream' \in Stream, copy' \in Rows, held' \in Nat, held' <= ver
  PROVE  /\ Sound'
         /\ \A i \in Ids : InRequest(i)' <=> InRequest(i)
         /\ UNCHANGED <<table, used, req, ver>>
<1>1. UNCHANGED <<table, used, audited, req, parts, commits, ver, raced, strayed, nulled>>
  BY DEF RequestsUnchanged, history
<1>2. Typed' /\ Owned'
  BY <1>1 DEF Inv, Sound, Typed, Owned, IsPending, PartsHaveOneOwner
<1>3. AuditTellsTheTable' /\ Loads' /\ Counted'
  BY <1>1 DEF Inv, Sound, AuditTellsTheTable, Loads, IsLoaded, Counted, Pending, IsPending
<1>4. \A i \in Ids : InRequest(i)' <=> InRequest(i)
  BY <1>1 DEF InRequest, IsPending, Tells
<1> QED  BY <1>1, <1>2, <1>3, <1>4 DEF Sound

LEMMA ConnectInv == ASSUME Inv, Connect PROVE Inv'
<1>1. /\ ~stream.on /\ RequestsUnchanged /\ UNCHANGED <<copy, held>>
      /\ astray' = IF Behind THEN astray \cup {id \in Ids : copy[id] # NoPolicy /\ ~Active(id)} ELSE astray
  BY DEF Connect
<1>2. /\ stream'.on = TRUE /\ stream'.queue = <<>> /\ stream'.at = ver
      /\ stream'.sync = IF Behind THEN SyncRead ELSE {}
  BY DEF Connect, Off
<1>3. \A s \in SyncRead : /\ s.id \in Ids /\ Active(s.id) /\ s.row = table[s.id] /\ s.row \in Policy
                          /\ s.id # Template /\ s.id \in used /\ s.row.status = "active"
  <2>1. ASSUME NEW id \in Ids, Active(id)
        PROVE  table[id] \in Policy /\ id # Template /\ id \in used /\ table[id].status = "active"
    BY <2>1, RowFacts DEF Active, IsPolicy
  <2> QED  BY <2>1 DEF SyncRead
<1>4. stream' \in Stream
  <2>1. SyncRead \subseteq [id : Ids, row : Policy]
    BY <1>3 DEF SyncRead
  <2>2. ver \in Nat /\ <<>> \in Seq(EventRec)
    BY EmptySeq DEF Inv, Sound, Typed
  <2>3. stream' = [Off EXCEPT !.on = TRUE, !.at = ver, !.sync = IF Behind THEN SyncRead ELSE {}]
    BY DEF Connect
  <2> QED  BY <2>1, <2>2, <2>3 DEF Stream, Off
<1>5. copy' \in Rows /\ held' \in Nat /\ held' <= ver
  BY <1>1 DEF Inv, Sound, Typed
<1>6. Sound' /\ (\A i \in Ids : InRequest(i)' <=> InRequest(i)) /\ UNCHANGED <<table, used, req, ver>>
  BY <1>1, <1>4, <1>5, SoundStays
<1>7. Queue' /\ Removals'
  <2>1. \A s, t \in SyncRead : s.id = t.id => s = t
    BY DEF SyncRead
  <2>2. stream'.sync # {} => held' <= stream'.at
    BY <1>1, <1>2 DEF Inv, Sound, Typed, Behind
  <2> QED  BY <1>1, <1>2, <1>6, <2>1, <2>2 DEF Inv, Sound, Typed, Queue, Removals, IsPending
<1>8. stream.queue = <<>> /\ stream.sync = {}
  BY <1>1 DEF Inv, Queue
<1>9. ASSUME NEW i \in Ids \ astray' PROVE ToCome(i)'
  <2>1. ToCome(i) /\ ~InQueue(i) /\ ~InSync(i)
    BY <1>1, <1>8, <1>9 DEF Inv, Told, InQueue, InSync
  <2>2. Agrees(i) => Agrees(i)'
    BY <1>1, <1>6 DEF Agrees, Active, IsPolicy
  <2>3. CASE Behind /\ Active(i)
    <3>1. [id |-> i, row |-> table[i]] \in SyncRead
      BY <2>3 DEF SyncRead
    <3> QED  BY <1>2, <1>6, <2>3, <3>1 DEF ToCome, InSync
  <2>4. CASE Behind /\ ~Active(i)
    <3>1. copy[i] = NoPolicy
      BY <1>1, <1>9, <2>4
    <3> QED  BY <2>2, <2>4, <3>1 DEF Agrees, ToCome
  <2>5. CASE ~Behind
    <3>1. Agrees(i) \/ InRequest(i)
      BY <2>1, <2>5 DEF ToCome, Announced, Behind
    <3> QED  BY <1>6, <2>2, <3>1 DEF ToCome, Announced
  <2> QED  BY <2>3, <2>4, <2>5
<1>10. Told'
  BY <1>1, <1>2, <1>3, <1>6, <1>9 DEF Inv, Told
<1> QED  BY <1>6, <1>7, <1>10 DEF Inv

LEMMA SendSyncInv == ASSUME Inv, SendSync PROVE Inv'
<1>1. PICK s \in stream.sync :
        /\ stream' = [stream EXCEPT !.sync = @ \ {s}]
        /\ copy' = [copy EXCEPT ![s.id] = s.row] /\ held' = stream.at
        /\ astray' = IF s.row = table[s.id] THEN astray \ {s.id} ELSE astray
        /\ RequestsUnchanged
  BY DEF SendSync
<1>2. /\ stream \in Stream /\ s.id \in Ids /\ s.row \in Policy /\ stream.at \in Nat /\ stream.on
      /\ s.id # Template /\ s.id \in used /\ s.row.status = "active"
      /\ s.row = table[s.id] \/ Announced(s.id) \/ s.id \in astray
  BY DEF Inv, Sound, Typed, Stream, Queue, Told
<1>3. /\ stream'.on = stream.on /\ stream'.queue = stream.queue /\ stream'.at = stream.at
      /\ stream'.sync = stream.sync \ {s} /\ stream' \in Stream
  BY <1>1, <1>2 DEF Stream
<1>4. /\ copy'[s.id] = s.row /\ copy' \in Rows
      /\ \A i \in Ids \ {s.id} : copy'[i] = copy[i]
  BY <1>1, <1>2 DEF Inv, Sound, Typed, Rows
<1>5. Sound' /\ (\A i \in Ids : InRequest(i)' <=> InRequest(i)) /\ UNCHANGED <<table, used, req, ver>>
  <2>1. stream.at <= ver
    BY DEF Inv, Queue
  <2> QED  BY <1>1, <1>2, <1>3, <1>4, <2>1, SoundStays
<1>6. \A i \in Ids : Announced(i)' <=> Announced(i)
  BY <1>3, <1>5 DEF Announced, InQueue, Tells
<1>7. Queue' /\ Removals'
  BY <1>1, <1>2, <1>3, <1>5 DEF Inv, Queue, Removals, IsPending
<1>8. ASSUME NEW i \in Ids \ astray' PROVE ToCome(i)'
  <2>1. CASE i = s.id /\ s.row = table[s.id]
    <3>1. Active(i)' => copy'[i] = table'[i]
      BY <1>4, <1>5, <2>1
    <3>2. ~Active(i)' => FALSE
      <4>1. table[i] # NoPolicy /\ i # Template /\ table[i].status = "active"
        BY <1>2, <2>1, Limits
      <4> QED  BY <1>5, <4>1, RowFacts DEF Active, IsPolicy
    <3> QED  BY <3>1, <3>2 DEF ToCome, Agrees
  <2>2. CASE i = s.id /\ s.row # table[s.id]
    BY <1>1, <1>2, <1>6, <1>8, <2>2 DEF ToCome
  <2>3. CASE i # s.id
    <3>1. ToCome(i)
      BY <1>1, <1>8, <2>3 DEF Inv, Told
    <3>2. (Agrees(i) => Agrees(i)') /\ (InSync(i) => InSync(i)')
      BY <1>3, <1>4, <1>5, <2>3 DEF Agrees, Active, IsPolicy, InSync
    <3> QED  BY <1>2, <1>6, <3>1, <3>2 DEF ToCome
  <2> QED  BY <2>1, <2>2, <2>3
<1>9. ASSUME NEW t \in stream'.sync
      PROVE  /\ t.id # Template /\ t.id \in used /\ t.row.status = "active"
             /\ t.row = table[t.id] \/ Announced(t.id)' \/ t.id \in astray'
  <2>1. t \in stream.sync /\ t.id \in Ids
    BY <1>2, <1>3, <1>9 DEF Stream
  <2>2. /\ t.id # Template /\ t.id \in used /\ t.row.status = "active"
        /\ t.row = table[t.id] \/ Announced(t.id) \/ t.id \in astray
    BY <2>1 DEF Inv, Told
  <2>3. CASE t.id = s.id /\ s.row = table[s.id] /\ t.row # table[t.id]
    <3>1. t = s
      BY <2>1, <2>3 DEF Inv, Queue
    <3> QED  BY <1>3, <1>9, <3>1
  <2>4. CASE ~(t.id = s.id /\ s.row = table[s.id]) \/ t.row = table[t.id]
    BY <1>1, <1>6, <2>1, <2>2, <2>4
  <2> QED  BY <2>3, <2>4
<1>10. Told'
  <2>1. copy'[Template] = NoPolicy /\ \A id \in Ids : id \notin used => copy'[id] = NoPolicy
    BY <1>2, <1>4, Limits DEF Inv, Told
  <2>2. /\ table' = table /\ used' = used
    BY <1>5
  <2> QED  BY <1>8, <1>9, <2>1, <2>2 DEF Told
<1> QED  BY <1>5, <1>7, <1>10 DEF Inv
LEMMA SendEventInv == ASSUME Inv, SendEvent PROVE Inv'
<1> DEFINE q == stream.queue
           e == Head(q)
           tells == Payload(e) # NoPolicy \/ e.kind = "remove"
           new == IF tells THEN Payload(e) ELSE copy[e.id]
<1>1. /\ stream.on /\ stream.sync = {} /\ q # <<>>
      /\ stream' = [stream EXCEPT !.queue = Tail(q)] /\ held' = e.ver
      /\ copy' = [copy EXCEPT ![e.id] = new]
      /\ astray' = IF tells THEN astray \ {e.id}
                   ELSE IF IsPolicy(e.id) THEN astray \cup {e.id} ELSE astray
      /\ RequestsUnchanged
  BY DEF SendEvent
<1>2. /\ stream \in Stream /\ q \in Seq(EventRec) /\ Len(q) \in Nat /\ Len(q) >= 1
      /\ 1 \in DOMAIN q /\ q[1] = e /\ e \in EventRec
      /\ Tail(q) \in Seq(EventRec) /\ DOMAIN Tail(q) = 1 .. Len(q) - 1 /\ DOMAIN q = 1 .. Len(q)
      /\ \A i \in 1 .. Len(q) - 1 : Tail(q)[i] = q[i + 1]
  <2>1. stream \in Stream /\ q \in Seq(EventRec)
    BY DEF Inv, Sound, Typed, Stream
  <2> QED  BY <1>1, <2>1
<1>3. /\ e.id \in Ids /\ e.id \in used /\ e.id # Template /\ e.kind \in Kinds /\ e.ver \in 1 .. ver
      /\ e.kind = "remove" => table[e.id] = NoPolicy
  BY <1>2 DEF Inv, Queue, Removals, EventRec
<1>4. \A i \in 1 .. Len(q) - 1 :
        /\ q[i + 1].ver \in 1 .. ver /\ q[i + 1].ver > e.ver /\ q[i + 1].ver > stream.at
        /\ i + 1 \in DOMAIN q
  BY <1>2 DEF Inv, Queue
<1>5. \A i, j \in 1 .. Len(q) - 1 : i < j => q[i + 1].ver < q[j + 1].ver
  <2>1. \A i, j \in 1 .. Len(q) - 1 : i < j => i + 1 \in DOMAIN q /\ j + 1 \in DOMAIN q /\ i + 1 < j + 1
    BY <1>2
  <2> QED  BY <2>1 DEF Inv, Queue
<1>6. /\ \A i \in 1 .. Len(q) - 1 : /\ q[i + 1].id \in used \ {Template}
                                    /\ q[i + 1].kind = "remove" => table[q[i + 1].id] = NoPolicy
  BY <1>4 DEF Inv, Removals
<1>7. /\ table[e.id] # NoPolicy => table[e.id] \in Policy /\ IsPolicy(e.id)
      /\ Payload(e) \in Policy \cup {NoPolicy}
      /\ e.kind = "remove" => Payload(e) = NoPolicy
      /\ Payload(e) # NoPolicy => Payload(e) = table[e.id] /\ IsPolicy(e.id)
  BY <1>3, RowFacts DEF Payload, IsPolicy
<1> HIDE DEF e
<1>8. /\ stream'.on /\ stream'.queue = Tail(q) /\ stream'.sync = {} /\ stream'.at = stream.at
      /\ stream' \in Stream
  BY <1>1, <1>2 DEF Stream
<1> HIDE DEF q
<1>9. new \in Policy \cup {NoPolicy}
  BY <1>3, <1>7 DEF Inv, Sound, Typed, Rows
<1> HIDE DEF new
<1>10. /\ copy' \in Rows /\ copy'[e.id] = new
       /\ \A i \in Ids \ {e.id} : copy'[i] = copy[i]
  BY <1>1, <1>3, <1>9 DEF Inv, Sound, Typed, Rows
<1>11. Sound' /\ (\A i \in Ids : InRequest(i)' <=> InRequest(i)) /\ UNCHANGED <<table, used, req, ver>>
  BY <1>1, <1>3, <1>8, <1>10, SoundStays DEF Inv, Sound, Typed
<1>12. Queue'
  <2>1. \A i \in DOMAIN stream'.queue :
          /\ stream'.queue[i].ver \in 1 .. ver' /\ stream'.queue[i].ver > held'
          /\ stream'.queue[i].ver > stream'.at
    BY <1>1, <1>2, <1>4, <1>8, <1>11
  <2>2. \A i, j \in DOMAIN stream'.queue : i < j => stream'.queue[i].ver < stream'.queue[j].ver
    <3> DEFINE rest == stream'.queue
    <3>1. DOMAIN rest = 1 .. Len(q) - 1 /\ \A i \in 1 .. Len(q) - 1 : rest[i] = q[i + 1]
      BY <1>2, <1>8
    <3> HIDE DEF rest
    <3>2. \A i, j \in DOMAIN rest : i < j => rest[i].ver < rest[j].ver
      BY <1>5, <3>1
    <3> QED  BY <3>2 DEF rest
  <2> QED  BY <1>8, <1>11, <2>1, <2>2 DEF Inv, Queue
<1>13. Removals'
  BY <1>2, <1>6, <1>8, <1>11 DEF Inv, Removals, IsPending
<1>14. ASSUME NEW i \in Ids, Announced(i), i # e.id \/ ~Tells(e.kind, i) PROVE Announced(i)'
  <2>1. CASE InRequest(i)
    BY <1>11, <2>1 DEF Announced
  <2>2. CASE InQueue(i)
    <3>1. PICK k \in 1 .. Len(q) : q[k].id = i /\ Tells(q[k].kind, i)
      BY <1>2, <2>2 DEF InQueue, q
    <3>2. k # 1
      BY <1>2, <1>14, <3>1
    <3>3. k - 1 \in 1 .. Len(q) - 1 /\ (k - 1) + 1 = k
      BY <1>2, <3>1, <3>2
    <3>4. k - 1 \in DOMAIN stream'.queue /\ stream'.queue[k - 1] = q[k]
      BY <1>2, <1>8, <3>3
    <3> QED  BY <1>11, <3>1, <3>4 DEF Announced, InQueue, Tells
  <2> QED  BY <1>14, <2>1, <2>2 DEF Announced
<1>15. ASSUME NEW i \in Ids \ astray' PROVE ToCome(i)'
  <2>1. CASE i # e.id
    <3>1. ToCome(i) /\ ~InSync(i)
      BY <1>1, <1>15, <2>1 DEF Inv, Told, InSync
    <3>2. Agrees(i) => Agrees(i)'
      BY <1>10, <1>11, <2>1 DEF Agrees, Active, IsPolicy
    <3> QED  BY <1>1, <1>14, <2>1, <3>1, <3>2 DEF ToCome
  <2>2. CASE i = e.id /\ Payload(e) # NoPolicy
    <3>1. copy'[i] = table[i] /\ IsPolicy(i)
      BY <1>7, <1>10, <2>2 DEF new
    <3> QED  BY <1>11, <3>1 DEF ToCome, Agrees, Active, IsPolicy
  <2>3. CASE i = e.id /\ Payload(e) = NoPolicy /\ e.kind = "remove"
    <3>1. copy'[i] = NoPolicy /\ table[i] = NoPolicy
      BY <1>3, <1>10, <2>3 DEF new
    <3> QED  BY <1>11, <3>1 DEF ToCome, Agrees, Active, IsPolicy
  <2>4. CASE i = e.id /\ Payload(e) = NoPolicy /\ e.kind # "remove"
    <3>1. ~IsPolicy(i) /\ i \notin astray
      BY <1>1, <1>15, <2>4
    <3>2. table[i] = NoPolicy /\ copy'[i] = copy[i]
      BY <1>7, <1>10, <2>4, <3>1 DEF new
    <3>3. ToCome(i) /\ ~InSync(i)
      BY <1>1, <3>1 DEF Inv, Told, InSync
    <3>4. Agrees(i) => Agrees(i)'
      BY <1>11, <3>2 DEF Agrees, Active, IsPolicy
    <3>5. ~Tells(e.kind, i)
      BY <2>4, <3>2 DEF Tells
    <3> QED  BY <1>1, <1>14, <3>3, <3>4, <3>5 DEF ToCome
  <2> QED  BY <2>1, <2>2, <2>3, <2>4
<1>16. Told'
  <2>1. copy'[Template] = NoPolicy /\ \A id \in Ids : id \notin used => copy'[id] = NoPolicy
    BY <1>3, <1>10, Limits DEF Inv, Told
  <2> QED  BY <1>8, <1>11, <1>15, <2>1 DEF Told
<1> QED  BY <1>11, <1>12, <1>13, <1>16 DEF Inv

LEMMA DisconnectInv == ASSUME Inv, Disconnect PROVE Inv'
<1>1. /\ astray' = IF held = stream.at THEN astray \cup {s.id : s \in stream.sync} ELSE astray
      /\ stream' = Off /\ UNCHANGED <<copy, held>> /\ RequestsUnchanged
  BY DEF Disconnect
<1>2. /\ ~stream'.on /\ stream'.queue = <<>> /\ stream'.sync = {} /\ stream'.at = 0
      /\ stream' \in Stream
  BY <1>1, EmptySeq DEF Off, Stream
<1>3. Sound' /\ (\A i \in Ids : InRequest(i)' <=> InRequest(i)) /\ UNCHANGED <<table, used, req, ver>>
  BY <1>1, <1>2, SoundStays DEF Inv, Sound, Typed
<1>4. Queue' /\ Removals'
  BY <1>2, <1>3 DEF Inv, Sound, Typed, Queue, Removals, IsPending
<1>5. ASSUME NEW i \in Ids \ astray' PROVE ToCome(i)'
  <2>1. ToCome(i)
    BY <1>1, <1>5 DEF Inv, Told
  <2>2. Agrees(i) => Agrees(i)'
    BY <1>1, <1>3 DEF Agrees, Active, IsPolicy
  <2>3. InQueue(i) => held < ver
    BY DEF InQueue, Inv, Queue, Sound, Typed
  <2>4. InSync(i) => held < ver
    <3>1. stream.sync # {} => held <= stream.at /\ stream.at <= ver
      BY DEF Inv, Queue
    <3>2. InSync(i) => stream.sync # {} /\ held # stream.at
      BY <1>1, <1>5 DEF InSync
    <3>3. held \in Nat /\ ver \in Nat /\ stream.at \in Nat
      BY DEF Inv, Sound, Typed, Stream
    <3> QED  BY <3>1, <3>2, <3>3
  <2> QED  BY <1>1, <1>2, <1>3, <2>1, <2>2, <2>3, <2>4 DEF ToCome, Announced
<1>6. Told'
  BY <1>1, <1>2, <1>3, <1>5 DEF Inv, Told
<1> QED  BY <1>3, <1>4, <1>6 DEF Inv

-----------------------------------------------------------------------------
LEMMA Next_Inv == ASSUME Inv, [Next]_vars PROVE Inv'
<1>1. ASSUME NEW c \in Clients, NEW id \in Ids, CreatePolicy(c, id) PROVE Inv'
  BY <1>1, CreateInv
<1>2. ASSUME NEW c \in Clients, NEW id \in Ids, CreateFromTemplate(c, id) PROVE Inv'
  BY <1>2, CreateFromTemplateInv
<1>3. ASSUME NEW c \in Clients, NEW id \in Ids, NEW op \in {"activate", "suspend"}, Load(c, op, id)
      PROVE  Inv'
  BY <1>3, LoadInv
<1>4. ASSUME NEW c \in Clients, NEW id \in Ids, NEW value \in BOOLEAN, UpdatePolicy(c, id, value)
      PROVE  Inv'
  BY <1>4, UpdateInv
<1>5. ASSUME NEW c \in Clients, NEW id \in Ids, DeletePolicy(c, id) PROVE Inv'
  BY <1>5, DeleteInv
<1>6. ASSUME NEW c \in Clients, NEW id \in Ids, AddPart(c, id) PROVE Inv'
  BY <1>6, AddPartInv
<1>7. ASSUME NEW c \in Clients, NEW id \in Ids, NEW part \in AllParts, RemovePart(c, id, part) PROVE Inv'
  BY <1>7, RemovePartInv
<1>8. ASSUME NEW c \in Clients,
             ChangeStatus(c, "activate", "active") \/ ChangeStatus(c, "suspend", "suspended")
      PROVE  Inv'
  BY <1>8, ChangeStatusInv
<1>9. ASSUME NEW c \in Clients, Publish(c) PROVE Inv'
  BY <1>9, PublishInv
<1>10. CASE Connect \/ SendSync \/ SendEvent \/ Disconnect
  BY <1>10, ConnectInv, SendSyncInv, SendEventInv, DisconnectInv
<1>11. CASE UNCHANGED vars
  <2>1. /\ UNCHANGED <<table, used, audited, req, parts, commits, ver, raced, strayed, nulled>>
        /\ UNCHANGED <<stream, copy, held, astray>>
    BY <1>11 DEF vars
  <2>2. Sound' /\ (\A i \in Ids : InRequest(i)' <=> InRequest(i))
    BY <2>1, SoundStays DEF RequestsUnchanged, history, Inv, Sound, Typed
  <2>3. Queue' /\ Removals'
    BY <2>1 DEF Inv, Queue, Removals, IsPending
  <2>4. \A i \in Ids : ToCome(i)' <=> ToCome(i)
    BY <2>1, <2>2 DEF ToCome, Agrees, Active, IsPolicy, Announced, InQueue, InSync, Tells
  <2>5. \A i \in Ids : Announced(i)' <=> Announced(i)
    BY <2>1, <2>2 DEF Announced, InQueue, Tells
  <2>6. \A s \in stream.sync : s.id \in Ids
    BY DEF Inv, Sound, Typed, Stream
  <2>7. Told'
    BY <2>1, <2>4, <2>5, <2>6 DEF Inv, Told
  <2> QED  BY <2>2, <2>3, <2>7 DEF Inv
<1> QED  BY <1>1, <1>2, <1>3, <1>4, <1>5, <1>6, <1>7, <1>8, <1>9, <1>10, <1>11 DEF Next

LEMMA Invariance == Spec => []Inv
<1>1. Init => Inv
  BY Init_Inv
<1>2. Inv /\ [Next]_vars => Inv'
  BY Next_Inv
<1> QED  BY <1>1, <1>2, PTL DEF Spec

(***************************************************************************)
(* After every request the tables are of their type, every version is a    *)
(* commit that was published, the audit log tells what became of a policy  *)
(* outside the known exceptions, and no part has two owners                *)
(* (api/policies.py, policy_service.py).                                   *)
(***************************************************************************)
THEOREM Tables == Spec => []TablesAreSound
<1>1. Inv => TablesAreSound
  <2> SUFFICES ASSUME Inv PROVE TablesAreSound
    OBVIOUS
  <2>1. {id \in Ids : table[id] # NoPolicy} \subseteq used
    BY DEF Inv, Sound, Owned
  <2>2. ver <= commits
    BY FS_CardinalityType DEF Inv, Sound, Typed, Counted
  <2>3. TypeOK
    BY <2>1, <2>2 DEF TypeOK, Inv, Sound, Typed, Rows, Queue
  <2> QED  BY <2>3 DEF TablesAreSound, Inv, Sound, Owned
<1> QED  BY <1>1, Invariance, PTL

(***************************************************************************)
(* A subscriber that has been sent everything agrees with the table about  *)
(* every policy the stream is not known to have left out                   *)
(* (grpc_server.py:372-437).                                               *)
(***************************************************************************)
THEOREM StreamsAgree == Spec => []SettledStreamsAgree
<1>1. Inv => SettledStreamsAgree
  BY DEF Inv, Told, SettledStreamsAgree, Settled, ToCome, Announced, InQueue, InRequest, InSync, IsPending
<1> QED  BY <1>1, Invariance, PTL

\* Nothing but activate brings a policy into force.
LEMMA OthersDoNotActivate ==
  ASSUME Inv, NEW c \in Clients, NEW id \in Ids, NEW row, NEW told, NEW event, Commit(c, id, row, told, event),
         row \in Policy /\ ~row.template /\ row.status = "active"
           => IsPolicy(id) /\ table[id].status = "active",
         row \in Policy \cup {NoPolicy}
  PROVE  \A i \in Ids : Active(i)' => Active(i)
<1>1. table' = [table EXCEPT ![id] = row]
  BY DEF Commit
<1>2. table'[id] = row /\ \A i \in Ids \ {id} : table'[i] = table[i]
  BY <1>1 DEF Inv, Sound, Typed, Rows
<1> QED  BY <1>2 DEF Active, IsPolicy
LEMMA ActivatesOnly ==
  ASSUME Inv, NEW c \in Clients, NEW op \in {"activate", "suspend"}, NEW s \in {"active", "suspended"},
         op = "suspend" => s = "suspended", ChangeStatus(c, op, s), NEW i \in Ids, Active(i)', ~Active(i)
  PROVE  IsPolicy(i) /\ Loaded(c, "activate") /\ req[c].id = i
<1> DEFINE id == req[c].id
<1>1. Loaded(c, op) /\ id \in Ids /\ id # Template
  BY DEF ChangeStatus, Loaded, Inv, Sound, Typed, Owned, Request
<1>2. CASE table[id] # NoPolicy
  <2> DEFINE row == SetStatus(c, s)
             told == [audited[id] EXCEPT !.status = s]
  <2>1. Commit(c, id, row, told, "modify") /\ table[id] \in Policy /\ IsPolicy(id)
    BY <1>1, <1>2, RowFacts DEF ChangeStatus, IsPolicy
  <2>2. row \in Policy /\ row.status \in {table[id].status, s}
    BY <2>1 DEF SetStatus, Written, Policy, Statuses
  <2> HIDE DEF row, told, id
  <2>3. table' = [table EXCEPT ![id] = row]
    BY <2>1 DEF Commit
  <2>4. i = id /\ row.status = "active"
    BY <1>1, <2>3 DEF Active, IsPolicy, Inv, Sound, Typed, Rows
  <2>5. op = "activate"
    BY <2>1, <2>2, <2>4 DEF Active
  <2> QED  BY <1>1, <2>1, <2>4, <2>5 DEF id
<1>3. CASE table[id] = NoPolicy
  <2>1. Fails(c) \/ Commit(c, id, NoPolicy, NoPolicy, "modify")
    BY <1>3 DEF ChangeStatus, Gone
  <2>2. ~Fails(c)
    BY DEF Fails, Active, IsPolicy
  <2> HIDE DEF id
  <2> QED  BY <1>1, <2>1, <2>2, Limits, OthersDoNotActivate
<1> QED  BY <1>2, <1>3

LEMMA Next_OnlyActivate ==
  ASSUME Inv, [Next]_vars, NEW i \in Ids, Active(i)', ~Active(i)
  PROVE  IsPolicy(i) /\ \E c \in Clients : Loaded(c, "activate") /\ req[c].id = i
<1>1. ASSUME NEW c \in Clients, NEW id \in Ids, NEW n \in Nat, commits < MaxCommits, parts + n <= MaxPart,
             Commit(c, id, Draft((parts + 1) .. (parts + n)), Draft((parts + 1) .. (parts + n)), "add")
      PROVE  FALSE
  <2>1. (parts + 1) .. (parts + n) \in SUBSET (1 .. MaxPart)
    BY <1>1, Limits DEF Inv, Sound, Typed
  <2> QED  BY <1>1, <2>1, Drafts, OthersDoNotActivate
<1>2. ASSUME NEW c \in Clients, NEW id \in Ids, CreatePolicy(c, id) PROVE FALSE
  <2>1. PICK n \in {0, 1} : Commit(c, id, Draft((parts + 1) .. (parts + n)),
                                   Draft((parts + 1) .. (parts + n)), "add")
    BY <1>2 DEF CreatePolicy
  <2>2. commits < MaxCommits /\ parts + n <= MaxPart
    BY <2>1, Limits DEF Commit, Inv, Sound, Typed
  <2> QED  BY <1>1, <2>1, <2>2
<1>3. ASSUME NEW c \in Clients, NEW id \in Ids, CreateFromTemplate(c, id) PROVE FALSE
  <2> DEFINE n == Cardinality(table[Template].parts)
  <2>1. Commit(c, id, Draft((parts + 1) .. (parts + n)), Draft((parts + 1) .. (parts + n)), "add")
        /\ commits < MaxCommits
    BY <1>3 DEF CreateFromTemplate, Clone, Commit
  <2>2. n \in 0 .. 2
    BY PartsOfTemplate
  <2> HIDE DEF n
  <2>3. parts + n <= MaxPart
    BY <2>1, <2>2, Limits DEF Inv, Sound, Typed
  <2> QED  BY <1>1, <2>1, <2>2, <2>3
<1>4. ASSUME NEW c \in Clients, NEW id \in Ids, NEW op \in {"activate", "suspend"}, Load(c, op, id)
      PROVE  FALSE
  BY <1>4 DEF Load, Active, IsPolicy
<1>5. ASSUME NEW c \in Clients, NEW id \in Ids, NEW value \in BOOLEAN, UpdatePolicy(c, id, value)
      PROVE  FALSE
  <2> DEFINE row == IF value THEN [table[id] EXCEPT !.response = TRUE] ELSE table[id]
             told == [audited[id] EXCEPT !.response = value]
  <2>1. Commit(c, id, row, told, "modify") /\ IsPolicy(id) /\ table[id] \in Policy
    BY <1>5, RowFacts DEF UpdatePolicy, IsPolicy
  <2>2. row \in Policy /\ row.status = table[id].status
    BY <2>1 DEF Policy
  <2> HIDE DEF row, told
  <2> QED  BY <2>1, <2>2, OthersDoNotActivate
<1>6. ASSUME NEW c \in Clients, NEW id \in Ids, DeletePolicy(c, id) PROVE FALSE
  BY <1>6, Limits, OthersDoNotActivate DEF DeletePolicy
<1>7. ASSUME NEW c \in Clients, NEW id \in Ids, AddPart(c, id) PROVE FALSE
  <2> DEFINE row == WithPart(table[id])
             told == WithPart(audited[id])
  <2>1. Commit(c, id, row, told, "modify") /\ IsPolicy(id) /\ table[id] \in Policy /\ commits < MaxCommits
    BY <1>7, RowFacts DEF AddPart, IsPolicy, Commit
  <2>2. parts + 1 \in 1 .. MaxPart
    BY <2>1, Limits DEF Inv, Sound, Typed
  <2>3. row \in Policy /\ row.status = table[id].status
    BY <2>1, <2>2 DEF WithPart, Policy
  <2> HIDE DEF row, told
  <2> QED  BY <2>1, <2>3, OthersDoNotActivate
<1>8. ASSUME NEW c \in Clients, NEW id \in Ids, NEW part \in AllParts, RemovePart(c, id, part)
      PROVE  FALSE
  <2>1. table' = [j \in Ids |-> Without(table[j], part)]
    BY <1>8 DEF RemovePart
  <2>2. table'[i] = Without(table[i], part) /\ table[i] # NoPolicy
    BY <2>1 DEF Without, Active, IsPolicy
  <2>3. table[i] \in Policy
    BY <2>2, RowFacts
  <2>4. table'[i].status = table[i].status /\ table'[i].template = table[i].template
    BY <2>2, <2>3 DEF Without, Policy
  <2> QED  BY <2>2, <2>4 DEF Active, IsPolicy
<1>9. ASSUME NEW c \in Clients,
             ChangeStatus(c, "activate", "active") \/ ChangeStatus(c, "suspend", "suspended")
      PROVE  IsPolicy(i) /\ Loaded(c, "activate") /\ req[c].id = i
  BY <1>9, ActivatesOnly
<1>10. ASSUME UNCHANGED table PROVE FALSE
  BY <1>10 DEF Active, IsPolicy
<1>11. ASSUME NEW c \in Clients, Publish(c) PROVE FALSE
  BY <1>10, <1>11 DEF Publish
<1>12. CASE Connect \/ SendSync \/ SendEvent \/ Disconnect
  BY <1>10, <1>12 DEF Connect, SendSync, SendEvent, Disconnect, RequestsUnchanged
<1>13. CASE UNCHANGED vars
  BY <1>10, <1>13 DEF vars
<1> QED  BY <1>2, <1>3, <1>4, <1>5, <1>6, <1>7, <1>8, <1>9, <1>11, <1>12, <1>13 DEF Next

(***************************************************************************)
(* A policy comes into force only through activate, whatever else is in    *)
(* flight (policy_service.py:180-191, 224-228).                            *)
(***************************************************************************)
THEOREM OnlyActivate == Spec => OnlyActivateActivates
<1>1. Inv /\ [Next]_vars
      => [\A id \in Ids :
            Active(id)' /\ ~Active(id) =>
              /\ IsPolicy(id)
              /\ \E c \in Clients : Loaded(c, "activate") /\ req[c].id = id]_vars
  BY Next_OnlyActivate
<1> QED  BY <1>1, Invariance, PTL DEF Spec, OnlyActivateActivates
=============================================================================
