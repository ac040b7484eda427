---------------------------- MODULE MCAgentTurn -----------------------------
(* Small instances of AgentTurn for TLC. *)
EXTENDS AgentTurn, TLC

(* Processes and requests are interchangeable. *)
Symmetries == Permutations(Processes) \cup Permutations(Requests)
=============================================================================
