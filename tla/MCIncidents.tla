----------------------------- MODULE MCIncidents -----------------------------
\* Two handlers at a time on an incident and an entry of the dead letter queue.
EXTENDS Incidents

\* One report with every field set and one with the wire's defaults.
ReportsUsed == {[severity |-> 4, channel |-> 5, action |-> "block"],
                [severity |-> 0, channel |-> 0, action |-> ""]}

\* Single fields, a null, and two fields of which one may be stale.
UpdatesUsed == {[status |-> "resolved"], [status |-> "new"], [severity |-> None],
                [custom_attributes |-> "dict"],
                [status |-> "escalated", severity |-> "low"]}

\* Incidents and entries of the queue share nothing but the handlers' process: they
\* are explored apart.
Apart == (\E e \in Entries : dlq[e] # None) => \A i \in Ids : row[i] = None /\ archive[i] = None

Symmetry == Permutations(Slots)
=============================================================================
