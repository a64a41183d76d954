---------------------------- MODULE MCAgentService ----------------------------
(* Model values of AgentService for TLC: one component of each kind, in the *)
(* order of main.cpp.                                                       *)
EXTENDS AgentService

AllKinds == <<"queue", "client", "driver", "clipboard", "scanner">>
===============================================================================
