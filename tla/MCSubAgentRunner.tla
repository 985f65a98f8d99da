-------------------------- MODULE MCSubAgentRunner --------------------------
(* SubAgentRunner with two sub-agents, two attempts and any two of two blocks *)
(* and a transaction, handled at the same time.                               *)
EXTENDS SubAgentRunner
=============================================================================
