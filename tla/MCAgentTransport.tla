-------------------------- MODULE MCAgentTransport --------------------------
(* Instances of AgentTransport.  Producers are interchangeable. *)
EXTENDS AgentTransport, TLC

Symmetry == Permutations(Producers)
=============================================================================
