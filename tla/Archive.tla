------------------------------- MODULE Archive -------------------------------
(***************************************************************************)
(* ArchiveInspector (server/detection/archive_inspector.py): the recursive *)
(* extraction of an archive, with its limits on depth, files, bytes and    *)
(* compression ratio.                                                      *)
(*                                                                         *)
(* An archive is a tree, a function from paths (sequences of positions) to *)
(* nodes; <<>> is the archive itself and p \o <<i>> the i-th member of p.  *)
(* The call stack of _extract_recursive is the sequence of open archives,  *)
(* each with the members it has yet to read.  An exception of a limit ends *)
(* the whole walk; any other one ends the archive it was raised in and     *)
(* leaves an entry in errors.                                              *)
(*                                                                         *)
(* Abstracted: names are kept as far as they can be equal or refused; of   *)
(* the bytes only sizes and what libraries make of them are kept (kind,    *)
(* corrupt).                                                               *)
(***************************************************************************)
EXTENDS Integers, Sequences, FiniteSets

CONSTANTS
  Trees,      \* archives to inspect
  BadNames,   \* names that _validate_member_path refuses
  MaxDepth,   \* limits.max_depth
  MaxBytes,   \* limits.max_total_size
  MaxFiles,   \* limits.max_files
  MaxRatio    \* limits.max_ratio

ASSUME ArchiveAssumption ==
  MaxDepth \in Nat /\ MaxBytes \in Nat /\ MaxFiles \in Nat /\ MaxRatio \in Nat

VARIABLES
  tree,       \* the archive
  open,       \* archives being read, outermost first: [path, todo]
  bytes,      \* state.total_bytes
  files,      \* state.total_files
  inspected,  \* paths given to the file inspector
  errors,     \* paths an entry of state.errors is about
  limit       \* the safety limit that ended the walk, or "none"

walk == <<tree, open, bytes, files, inspected, errors, limit>>

Streams == {"gzip", "bzip2"}                       \* one member, without a name
Containers == {"zip", "rar", "tar", "7z"} \cup Streams
Kinds == Containers \cup {"file", "dir", "link"}
\* packed is the compressed size an archive states for a member; suffixed, whether
\* its name has the suffix of its kind; fails, what of it raises: reading it from its
\* archive ("read") or, once it is read, opening or inspecting it ("content").
Node == [kind : Kinds, name : STRING, size : Nat, packed : Nat, suffixed : BOOLEAN,
         fails : {"no", "read", "content"}]

Prefix(p, q) == Len(p) <= Len(q) /\ SubSeq(q, 1, Len(p)) = p
Members(p) == {q \in DOMAIN tree : Len(q) = Len(p) + 1 /\ Prefix(p, q)}
Parent(q) == SubSeq(q, 1, Len(q) - 1)
Position(q) == q[Len(q)]

\* Trees are finite, and only archives have members; streams have one.
ASSUME TreesAssumption ==
  \A t \in Trees :
    /\ t \in [DOMAIN t -> Node] /\ IsFiniteSet(DOMAIN t)
    /\ << >> \in DOMAIN t /\ DOMAIN t \subseteq Seq(Nat \ {0})
    /\ \A p \in DOMAIN t \ {<< >>} :
         /\ Parent(p) \in DOMAIN t /\ t[Parent(p)].kind \in Containers
         /\ t[Parent(p)].kind \in Streams => Position(p) = 1

\* The member that reading q by its name gives: the last one of that name.  tar
\* reads by member, a stream has no names, and 7z extracts to files, later members
\* over earlier ones.
Source(q) ==
  IF tree[Parent(q)].kind \in {"tar"} \cup Streams THEN q
  ELSE CHOOSE r \in Members(Parent(q)) :
         /\ tree[r].name = tree[q].name
         /\ \A t \in Members(Parent(q)) :
              tree[t].name = tree[q].name => Position(t) <= Position(r)

IsArchive_(p) ==  \* a mutant: every type is known by its suffix only
  tree[p].kind \in Containers /\ tree[p].suffixed
\* _is_archive: by magic bytes, then by suffix.  The magic of bzip2 is compared with
\* five bytes and never equal, so bzip2 is known by its suffix only.
IsArchive(p) ==
  tree[p].kind \in Containers /\ (tree[p].kind = "bzip2" => tree[p].suffixed)

\* _check_ratio: a compressed size of 0 passes.
RatioPasses(packed, size) == packed = 0 \/ size <= MaxRatio * packed

TooDeep(p) == Len(p) > MaxDepth

ArchiveInit ==
  /\ tree \in Trees
  /\ open = << >> /\ bytes = 0 /\ files = 0
  /\ inspected = {} /\ errors = {} /\ limit = "start"

Top == open[Len(open)]
Kind == tree[Top.path].kind
Outer == SubSeq(open, 1, Len(open) - 1)
\* The open archives once the innermost one has no more to do with q.
Past(q) == Append(Outer, [Top EXCEPT !.todo = @ \ {q}])

\* An ArchiveSafetyError passes every handler up to inspect.
Abort(why) == limit' = why /\ open' = << >> /\ UNCHANGED <<tree, bytes, files, inspected, errors>>

\* What opening the archive p gives: the members to read, or what goes wrong.  7z
\* checks every name and then extracts every member before it reads the first file.
Names(p) == {tree[q].name : q \in Members(p)}
Opening(p) ==
  IF tree[p].kind = "7z" /\ Names(p) \cap BadNames # {} THEN "path"
  ELSE IF \/ tree[p].fails = "content"
          \/ tree[p].kind = "7z" /\ \E q \in Members(p) : tree[q].fails = "read" THEN "error"
  ELSE "none"
Todo(p) == IF tree[p].kind = "7z" THEN {Source(q) : q \in Members(p)} ELSE Members(p)

\* _inspect_file: to the file inspector, and into errors if that raises.
InspectFile(p) ==
  IF tree[p].fails = "content"
  THEN errors' = errors \cup {p} /\ UNCHANGED inspected
  ELSE inspected' = inspected \cup {p} /\ UNCHANGED errors

(***************************************************************************)
(* _extract_recursive on what was read as p while frames are open: too     *)
(* deep, a file, or an archive to open.                                    *)
(***************************************************************************)
Recurse(p, frames) ==
  \/ /\ TooDeep(p)
     /\ limit' = "depth" /\ open' = << >> /\ UNCHANGED <<inspected, errors>>
  \/ /\ ~TooDeep(p) /\ ~IsArchive(p)
     /\ InspectFile(p) /\ open' = frames /\ limit' = "none"
  \/ /\ ~TooDeep(p) /\ IsArchive(p) /\ Opening(p) = "path"
     /\ limit' = "path" /\ open' = << >> /\ UNCHANGED <<inspected, errors>>
  \/ /\ ~TooDeep(p) /\ IsArchive(p) /\ Opening(p) = "error"
     /\ errors' = errors \cup {p} /\ open' = frames /\ limit' = "none" /\ UNCHANGED inspected
  \/ /\ ~TooDeep(p) /\ IsArchive(p) /\ Opening(p) = "none"
     /\ open' = Append(frames, [path |-> p, todo |-> Todo(p)])
     /\ limit' = "none" /\ UNCHANGED <<inspected, errors>>

Begin ==
  /\ limit = "start"
  /\ Recurse(<< >>, << >>) /\ UNCHANGED <<tree, bytes, files>>

Walking == limit = "none" /\ open # << >>
\* The end of the loop over the members of an archive.
Return == Walking /\ Top.todo = {} /\ open' = Outer
          /\ UNCHANGED <<tree, bytes, files, inspected, errors, limit>>

\* The member whose turn it is: in the order of the archive, or for the files that a
\* 7z left in a directory in any order.
MemberTurn(q) ==
  /\ Walking /\ q \in Top.todo
  /\ Kind # "7z" => \A r \in Top.todo : Position(q) <= Position(r)

\* Members that are not files: only a tar has links, and notes them.
Skip(q) ==
  /\ MemberTurn(q) /\ tree[q].kind \in {"dir", "link"}
  /\ open' = Past(q)
  /\ errors' = IF tree[q].kind = "link" THEN errors \cup {q} ELSE errors
  /\ UNCHANGED <<tree, bytes, files, inspected, limit>>

Refused(q) == Kind \notin Streams /\ tree[q].name \in BadNames
Refuse(q) ==
  /\ MemberTurn(q) /\ tree[q].kind \notin {"dir", "link"} /\ Refused(q)
  /\ open' = Past(q) /\ errors' = errors \cup {q}
  /\ UNCHANGED <<tree, bytes, files, inspected, limit>>

\* A stream is compared with its whole file; tar and 7z have no sizes to compare.
Packed(q) == IF Kind \in Streams THEN tree[Top.path].size ELSE tree[q].packed

\* check_files is not called for a stream, although add counts what is in it.
Counted(q) == Kind \notin Streams

\* The checks, with the sizes that the archive states for q, in their order.
Exceeded(q) ==
  IF Counted(q) /\ files >= MaxFiles THEN "files"
  ELSE IF Kind \notin {"tar", "7z"} /\ ~RatioPasses(Packed(q), tree[q].size) THEN "ratio"
  ELSE IF bytes + tree[q].size > MaxBytes THEN "size" ELSE "none"

\* A stream is decompressed before the checks and a zip, rar or tar member is read
\* after them; the members of an open 7z have been read.
Unreadable(q) == tree[Source(q)].fails = "read" /\ (Kind \in Streams \/ Exceeded(q) = "none")

FileTurn(q) == MemberTurn(q) /\ tree[q].kind \notin {"dir", "link"} /\ ~Refused(q)

BreakOff(q) ==
  /\ FileTurn(q) /\ Unreadable(q)
  /\ open' = Outer /\ errors' = errors \cup {Top.path}
  /\ UNCHANGED <<tree, bytes, files, inspected, limit>>

Stop(q) == FileTurn(q) /\ ~Unreadable(q) /\ Exceeded(q) # "none" /\ Abort(Exceeded(q))

\* The data read is of Source(q), though the checks were about q.
Read(q) ==
  /\ FileTurn(q) /\ ~Unreadable(q) /\ Exceeded(q) = "none"
  /\ bytes' = bytes + tree[Source(q)].size /\ files' = files + 1
  /\ Recurse(Source(q), Past(q))
  /\ UNCHANGED tree

Walk == \/ Begin \/ Return
        \/ \E q \in DOMAIN tree : Skip(q) \/ Refuse(q) \/ BreakOff(q) \/ Stop(q) \/ Read(q)

ArchiveSpec == ArchiveInit /\ [][Walk]_walk

WalkedAll == limit # "start" /\ open = << >>
-----------------------------------------------------------------------------
(* Properties.                                                             *)

\* The open archives are nested in one another, and the walk is never deeper than
\* max_depth and one.
ArchiveTypeOK ==
  /\ \A p \in DOMAIN tree : tree[p] \in Node
  /\ Len(open) <= MaxDepth + 1
  /\ \A k \in DOMAIN open : /\ Len(open[k].path) = k - 1 /\ open[k].todo \subseteq Members(open[k].path)
                            /\ k > 1 => Parent(open[k].path) = open[k - 1].path
  /\ inspected \subseteq DOMAIN tree /\ errors \subseteq DOMAIN tree
  /\ limit \in {"start", "none", "depth", "path", "files", "ratio", "size"}

Leaves == {p \in DOMAIN tree : tree[p].kind = "file"}
\* In an archive of this name twice, p is in the one that cannot be read.
Shadowed(p) == \E q \in DOMAIN tree : q # << >> /\ Prefix(q, p) /\ Source(q) # q
\* p is in a bzip2 stream that is not known for one.
Hidden(p) == \E q \in DOMAIN tree : Prefix(q, p) /\ tree[q].kind = "bzip2" /\ ~tree[q].suffixed

(***************************************************************************)
(* Unless a limit ended the walk, which the message says, every file of    *)
(* the archive has been inspected or lies under an entry in errors, across *)
(* formats, nesting and failures at any member.  Two kinds of files are    *)
(* left out and nothing says so: those another member of the same name     *)
(* takes the place of (Source), and those in a bzip2 stream without its    *)
(* suffix (IsArchive).                                                     *)
(***************************************************************************)
EverythingIsAccountedFor ==
  WalkedAll /\ limit = "none" =>
    \A p \in Leaves : \/ p \in inspected \/ \E e \in errors : Prefix(e, p)
                      \/ Shadowed(p) \/ Hidden(p)

(***************************************************************************)
(* The limits hold of the walk as a whole: no more than max_files files    *)
(* are inspected (or the one that is not in an archive), none deeper than  *)
(* max_depth, and the files inspected have together no more bytes than     *)
(* max_total_size unless two members have one name.  This bounds what is   *)
(* inspected, not what is held: see CheckedBeforeExtraction.  total_files  *)
(* itself exceeds max_files by the streams it counts without a check, one  *)
(* in another, and where max_files is 0 by one more of them.  Nothing      *)
(* under a refused name is inspected, however deep (a stream has no        *)
(* names).                                                                 *)
(***************************************************************************)
Most == IF MaxFiles = 0 THEN 1 ELSE MaxFiles
\* The sizes of these nodes of an archive together.
Together(t, nodes) ==
  LET sum[S \in SUBSET DOMAIN t] ==
        IF S = {} THEN 0 ELSE LET p == CHOOSE x \in S : TRUE IN t[p].size + sum[S \ {p}]
  IN sum[nodes]
LimitsHold ==
  /\ Cardinality(inspected) <= Most
  /\ \A p \in inspected : Len(p) <= MaxDepth
  /\ Together(tree, inspected \ {<< >>}) <= MaxBytes \/ \E p \in DOMAIN tree : Shadowed(p)
  /\ files <= Most + MaxDepth
  /\ \A p \in inspected, q \in DOMAIN tree :
       Prefix(q, p) /\ q # << >> /\ tree[q].name \in BadNames => tree[Parent(q)].kind \in Streams

\* What inspect promises of an archive (archive_inspector.py): its limits hold, and what
\* it does not inspect it names.
InspectionIsSound == ArchiveTypeOK /\ EverythingIsAccountedFor /\ LimitsHold

(***************************************************************************)
(* Violated, against the module's first lines ("safety controls to prevent *)
(* zip bombs and resource exhaustion"): a limit ends the walk before what  *)
(* exceeds it is extracted.  A stream is decompressed whole before the     *)
(* checks of its ratio and size, and a 7z extracted whole before the first *)
(* check of any member.                                                    *)
(***************************************************************************)
CheckedBeforeExtraction ==
  [][\A q \in DOMAIN tree : Stop(q) => Kind \notin Streams \cup {"7z"}]_walk
=============================================================================
