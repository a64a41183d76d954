----------------------------- MODULE MCSessions -----------------------------
\* Two requests at a time, two accounts of which one is still to be created.
EXTENDS Sessions, TLC

Symmetry ==
  Permutations(Users) \cup Permutations(Passwords)
  \cup Permutations(Secrets) \cup Permutations(Clients)
=============================================================================
