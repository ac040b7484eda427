------------------------- MODULE MCModelSelection --------------------------
(* Small instances of ModelSelection for TLC. *)
EXTENDS ModelSelection, TLC

(* m1 is a local model and m2 a remote one. *)
TwoModels == {"m1" :> "local" @@ "m2" :> "remote"}

(* A process without settings, and one with them. *)
Legacy == {Empty} \cup TwoModels

(* A rollout gives m1 another target and another data flow. *)
Rollout == {"m1" :> "local", "m1" :> "remote"}

Symmetries ==
    Permutations(FreshIds) \cup Permutations(Requests) \cup Permutations(Turns)
        \cup Permutations(Processes)
=============================================================================
