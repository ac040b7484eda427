-------------------------- MODULE MCScopedService ---------------------------
(* Small instances of ScopedService for TLC. *)
EXTENDS ScopedService, TLC

(* Calls are interchangeable; used where no liveness is checked. *)
Symmetries == Permutations(Calls)
=============================================================================
