---------------------------- MODULE RevisionLog -----------------------------
(***************************************************************************)
(* What personality editors may rely on: the personality of an agent is a  *)
(* log that only grows, each entry made on top of exactly the one its      *)
(* editor had seen, at most one per request id; a save is answered with    *)
(* the entry it made, and a reader is shown the end of the log.            *)
(* PersonalityStore, the transactions of personality.py, implements this.  *)
(***************************************************************************)
EXTENDS Naturals, Sequences, Tables

CONSTANTS
    Saves,          \* possible saves: [by, request, base, body]
    MaxRevision

VARIABLES
    log,            \* the revisions
    told            \* what the last step told a caller: [revision, save], or None

vars == <<log, told>>

Told(n, s) == [revision |-> n, save |-> s]

Init == log = <<>> /\ told = None

(* The operator's import makes the first revision, on top of none. *)
Import(s) ==
    /\ log = <<>> /\ s.base = 0
    /\ log' = <<s>>
    /\ told' = None

Save(s) ==
    /\ s.base = Len(log) /\ s.base \in 1..(MaxRevision - 1)
    /\ \A n \in 1..Len(log) : log[n].request # s.request
    /\ log' = Append(log, s)
    /\ told' \in {None, Told(Len(log) + 1, s)}

Answer(n) == log' = log /\ told' = Told(n, log[n])

Show == log' = log /\ log # <<>> /\ told' = Told(Len(log), None)

Silence == log' = log /\ told' = None

Next ==
    \/ \E s \in Saves : Import(s) \/ Save(s)
    \/ \E n \in 1..Len(log) : Answer(n)
    \/ Show
    \/ Silence

Spec == Init /\ [][Next]_vars
=============================================================================
