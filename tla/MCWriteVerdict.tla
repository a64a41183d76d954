---------------------------- MODULE MCWriteVerdict ----------------------------
(* Model values of WriteVerdict for TLC.  No symmetry: liveness is checked. *)
EXTENDS WriteVerdict

===============================================================================
