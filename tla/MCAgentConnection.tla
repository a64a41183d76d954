-------------------------- MODULE MCAgentConnection --------------------------
(* Two agents on machines with the same hostname. *)
EXTENDS AgentConnection

CONSTANTS a1, a2, h1
MCHost == a1 :> h1 @@ a2 :> h1
=============================================================================
