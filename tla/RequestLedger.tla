--------------------------- MODULE RequestLedger ----------------------------
(***************************************************************************)
(* What a caller of ask may rely on, whatever fails on the way: a request  *)
(* id is admitted once for ever, its turn goes forward through the stages  *)
(* below at most once and only while its conversation is open, and it is   *)
(* acknowledged only when it was answered and closed.  AgentTurn, the      *)
(* conversation lifecycle of runtime.py over mcp_store.py, implements this.*)
(***************************************************************************)
EXTENDS Naturals, Sequences, Tables

CONSTANT Requests

VARIABLES
    entry,          \* request -> [stage, inferences, open], the admitted ones
    acknowledged    \* requests a caller received an answer for

vars == <<entry, acknowledged>>

(* The messages a conversation holds at each stage. *)
Stages == <<"admitted", "asked", "answered">>

Init == entry = Empty /\ acknowledged = {}

Admit(r) ==
    /\ r \notin DOMAIN entry
    /\ entry' = Put(entry, r, [stage |-> 1, inferences |-> 0, open |-> TRUE])
    /\ UNCHANGED acknowledged

(* The question is recorded before the model hears it, the answer after. *)
Record(r) ==
    /\ entry[r].open
    /\ entry[r].stage < Len(Stages)
    /\ entry[r].inferences = entry[r].stage - 1
    /\ entry' = [entry EXCEPT ![r].stage = @ + 1]
    /\ UNCHANGED acknowledged

Infer(r) ==
    /\ entry[r].open
    /\ Stages[entry[r].stage] = "asked"
    /\ entry[r].inferences = 0
    /\ entry' = [entry EXCEPT ![r].inferences = 1]
    /\ UNCHANGED acknowledged

Close(r) ==
    /\ entry' = [entry EXCEPT ![r].open = FALSE]
    /\ UNCHANGED acknowledged

Acknowledge(r) ==
    /\ ~entry[r].open
    /\ Stages[entry[r].stage] = "answered"
    /\ acknowledged' = acknowledged \cup {r}
    /\ UNCHANGED entry

Next ==
    \/ \E r \in Requests : Admit(r)
    \/ \E r \in DOMAIN entry : Record(r) \/ Infer(r) \/ Close(r) \/ Acknowledge(r)

Spec == Init /\ [][Next]_vars
=============================================================================
