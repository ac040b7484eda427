------------------------ MODULE MCPrincipalSessions ------------------------
(* Small instances of PrincipalSessions for TLC. *)
EXTENDS PrincipalSessions, TLC

(* Connections, ids, requests and turns are interchangeable, and so are      *)
(* delegators and their keys: at first every key has its grant.              *)
Symmetries ==
    Permutations(Conns) \cup Permutations(FreshIds) \cup Permutations(Requests)
        \cup Permutations(Turns) \cup Permutations(Delegators) \cup Permutations(Keys)
=============================================================================
