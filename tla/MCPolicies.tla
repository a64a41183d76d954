----------------------------- MODULE MCPolicies -----------------------------
\* Two requests at a time on a template and two policies.
EXTENDS Policies, TLC

Symmetry == Permutations(Clients) \cup Permutations(Ids \ {Template})
=============================================================================
