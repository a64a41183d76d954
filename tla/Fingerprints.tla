----------------------------- MODULE Fingerprints -----------------------------
(***************************************************************************)
(* The index of document fingerprints: FingerprintIndex (server/detection/ *)
(* analyzers/fingerprint_analyzer.py) behind the API (server/api/          *)
(* fingerprints.py).  The records are in memory, and every change writes   *)
(* all of them over the one file, which is not atomic: a write that fails, *)
(* or a server that ends in it, may leave a file that cannot be parsed,    *)
(* and _load begins with no record then.                                   *)
(*                                                                         *)
(* Abstracted: a record is its id, which stands for a document; the size   *)
(* of shingles is the default one.                                         *)
(***************************************************************************)
EXTENDS Analyzers

CONSTANTS
  Ids,        \* records that uploads may create
  Document,   \* per record: the hashes of the shingles of its document
  MaxChanges  \* bound: uploads, deletions and restarts

VARIABLES
  index,      \* _records
  disk,       \* the records in the file ...
  readable,   \* ... if it can be parsed
  kept,       \* history: uploads answered 201 that nobody tried to delete since
  gone,       \* history: deletions answered 200
  lost,       \* history: the server has started with a file it could not read
  changes     \* uploads, deletions and restarts so far

library == <<index, disk, readable, kept, gone, lost, changes>>

LibraryInit ==
  /\ index = {} /\ disk = {} /\ readable = TRUE
  /\ kept = {} /\ gone = {} /\ lost = FALSE /\ changes = 0

Change == changes < MaxChanges /\ changes' = changes + 1

Written_(new) == disk' = new \ index      \* a mutant: only what is new is written
Written(new) == disk' = new

\* _save of the records new: it succeeds, or raises with the file as it was or torn.
Saved(new) == Written(new) /\ readable' = TRUE
NotSaved == readable' \in {readable, FALSE} /\ UNCHANGED disk

\* FingerprintIndex.add and remove: memory changes before the file.
Added(id) == index' = index \cup {id}
Removed(id) == index' = index \ {id}

\* POST /api/fingerprints: the record has a new id.
Upload(id) ==
  /\ Change /\ id \notin index \cup kept \cup gone
  /\ Added(id)
  /\ \/ Saved(index') /\ kept' = kept \cup {id}
     \/ NotSaved /\ UNCHANGED kept
  /\ UNCHANGED <<gone, lost>>

\* DELETE /api/fingerprints/{id}
Delete(id) ==
  /\ Change /\ id \in index
  /\ Removed(id) /\ kept' = kept \ {id}
  /\ \/ Saved(index') /\ gone' = gone \cup {id}
     \/ NotSaved /\ UNCHANGED gone
  /\ UNCHANGED lost

\* The end of the server, perhaps in a save whose client got no answer, and the next
\* server's _load.
Restart ==
  /\ Change
  /\ readable' \in {readable, FALSE}
  /\ index' = IF readable' THEN disk ELSE {}
  /\ lost' = (lost \/ ~readable')
  /\ UNCHANGED <<disk, kept, gone>>

\* FingerprintIndex.search
Search(hash) == {id \in index : Similar(Simhash(Document[id]), hash)}

LibraryNext == Restart \/ \E id \in Ids : Upload(id) \/ Delete(id)
-----------------------------------------------------------------------------
(* Properties.                                                             *)

(***************************************************************************)
(* A fingerprint whose upload was acknowledged is found by its own         *)
(* document until somebody deletes it, over failed saves of others and     *)
(* restarts; a deletion that was acknowledged is final.  The exception is  *)
(* a start with a torn file, which loses every record, and the next upload *)
(* then overwrites the file.                                               *)
(***************************************************************************)
FingerprintsStay ==
  /\ ~lost => \A id \in kept : id \in Search(Simhash(Document[id]))
  /\ index \cap gone = {}
=============================================================================
