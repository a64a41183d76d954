----------------------------- MODULE MCPolicySync -----------------------------
(* Model values of PolicySync for TLC, which the configurations give. *)
EXTENDS PolicySync

===============================================================================
