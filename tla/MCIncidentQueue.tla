--------------------------- MODULE MCIncidentQueue ---------------------------
(* Model values and mutants of IncidentQueue for TLC. *)
EXTENDS IncidentQueue, TLC

KeySymmetry == Permutations(Keys)
==============================================================================
