------------------------- MODULE MCAgentIntegration -------------------------
(* Two files are the same to every run. *)
EXTENDS AgentIntegration, TLC

FileSymmetry == Permutations(Files)
=============================================================================
