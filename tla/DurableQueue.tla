---------------------------- MODULE DurableQueue -----------------------------
(***************************************************************************)
(* What the agent's incident queue promises, with no database, mutex,      *)
(* crash or retry counter: a set of accepted incidents, of which the       *)
(* consumer takes any, and the queue itself gives up only the oldest, only *)
(* at its capacity and only as many as make room for one more.             *)
(***************************************************************************)
EXTENDS Integers, FiniteSets

CONSTANT Capacity   \* incidents kept, 0 for no limit

VARIABLES
  held,      \* accepted incidents: records with fields id, key and at
  handed,    \* ids given to, or deleted for, the consumer
  dropped    \* ids the queue gave up

Ids == {h.id : h \in held}

Init == held = {} /\ handed = {} /\ dropped = {}

\* A new incident: its key is not held, its id was never used.
Accept ==
  /\ \E h \in held' \ held :
       /\ held' = held \cup {h}
       /\ h.key \notin {g.key : g \in held}
       /\ h.id \notin Ids \cup handed \cup dropped
  /\ UNCHANGED <<handed, dropped>>

\* Make room for one incident by giving up the oldest.
Drop ==
  /\ Capacity > 0
  /\ Cardinality(held) >= Capacity
  /\ held' \subseteq held
  /\ Cardinality(held') = Capacity - 1
  /\ \A g \in held \ held', h \in held' : g.at <= h.at
  /\ dropped' = dropped \cup {g.id : g \in held \ held'}
  /\ UNCHANGED handed

\* The consumer takes what it is given, or is handed a copy it may get again.
Hand ==
  /\ held' \subseteq held
  /\ handed \subseteq handed'
  /\ handed' \subseteq handed \cup Ids
  /\ {g.id : g \in held \ held'} \subseteq handed'
  /\ UNCHANGED dropped

Next == Accept \/ Drop \/ Hand

Spec == Init /\ [][Next]_<<held, handed, dropped>>
==============================================================================
