------------------------ MODULE MCPersonalityStore -------------------------
(* A small instance of PersonalityStore for TLC. *)
EXTENDS PersonalityStore, TLC

(* Connections, editors, requests and bodies are interchangeable. *)
Symmetries ==
    Permutations(Conns) \cup Permutations(Editors) \cup Permutations(Requests)
        \cup Permutations(Bodies)
=============================================================================
