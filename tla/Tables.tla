------------------------------- MODULE Tables -------------------------------
(***************************************************************************)
(* Database tables as functions from primary keys to rows, and the two     *)
(* kinds of session id.  Shared by every module of the project.            *)
(***************************************************************************)
EXTENDS Integers

CONSTANT None           \* SQL NULL, Python None

(* The table f with row y stored under key x. *)
Put(f, x, y) == [z \in DOMAIN f \cup {x} |-> IF z = x THEN y ELSE f[z]]

(* The table f without the rows whose keys are in S. *)
Drop(f, S) == [z \in DOMAIN f \ S |-> f[z]]

Empty == [x \in {} |-> x]

(* uuid4: an id of its own, and uuid5 of "flamoris-handoff:delegator:      *)
(* parent:request": equal exactly for equal names.  The two never meet.    *)
UuidV4(u) == <<None, None, u>>
HandoffId(d, s, r) == <<d, s, r>>

(* The walks of n links from session s to its ancestors, along the parents *)
(* that the table link records: what the recursive queries visit.          *)
Walks(link, s, n) ==
    {w \in [0..n -> {s} \cup {link[c].parent : c \in DOMAIN link}] :
        /\ w[0] = s
        /\ \A i \in 1..n : w[i-1] \in DOMAIN link /\ w[i] = link[w[i-1]].parent}
=============================================================================
