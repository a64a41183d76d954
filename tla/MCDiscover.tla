------------------------------ MODULE MCDiscover ------------------------------
(* Model values of Discover for TLC, which the configurations give. *)
EXTENDS Discover

===============================================================================
