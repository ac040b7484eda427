-------------------------- MODULE SessionAuthority --------------------------
(***************************************************************************)
(* What the principal-session store promises its callers, with every       *)
(* operation a single step: no transaction, no lock, no clock.  A session  *)
(* is a short-lived authority for one principal; a handoff replaces it by  *)
(* exactly one successor; a turn (conversation) is admitted under a live   *)
(* session.  PrincipalSessions, the database-level description of          *)
(* principals.py, mcp_store.py and the retention SQL, implements this.     *)
(***************************************************************************)
EXTENDS Integers, FiniteSets, Tables

CONSTANTS
    Delegators, Keys,       \* transport identities; (human, agent, project) triples
    FreshIds, Requests,     \* random uuids; request uuids of handoffs
    Turns,                  \* conversation ids
    MaxSessions, MaxDelegatorSessions

VARIABLES
    session,        \* id -> [delegator, keys], the retained sessions
    revoked,        \* the ones among them that may do nothing any more
    continuation,   \* child id -> [parent, request], the handoffs among them
    turn,           \* conversation id -> [session, answered, closed]
    issued          \* every id ever given a session

vars == <<session, revoked, continuation, turn, issued>>

-----------------------------------------------------------------------------
Own(d) == {s \in DOMAIN session : session[s].delegator = d}

Room(d) == /\ Cardinality(DOMAIN session) < MaxSessions
           /\ Cardinality(Own(d)) < MaxDelegatorSessions

Live(s) == s \in DOMAIN session \ revoked

TurnsOf(s) == {t \in DOMAIN turn : turn[t].session = s}

Complete(s) == \A t \in TurnsOf(s) : turn[t].closed /\ turn[t].answered

-----------------------------------------------------------------------------
Init ==
    /\ session = Empty /\ revoked = {}
    /\ continuation = Empty
    /\ turn = Empty
    /\ issued = {}

Lease(d, k) == [delegator |-> d, keys |-> k]

Issue(d, k, u) ==
    /\ Room(d)
    /\ UuidV4(u) \notin issued
    /\ session' = Put(session, UuidV4(u), Lease(d, k))
    /\ issued' = issued \cup {UuidV4(u)}
    /\ UNCHANGED <<revoked, continuation, turn>>

(* The successor appears, the source dies and the link is recorded at once, *)
(* and only when every turn of the source ended with an answer.             *)
Handoff(d, s, r) ==
    /\ Room(d)
    /\ Live(s) /\ session[s].delegator = d
    /\ Complete(s)
    /\ HandoffId(d, s, r) \notin issued
    /\ session' = Put(session, HandoffId(d, s, r), session[s])
    /\ revoked' = revoked \cup {s}
    /\ continuation' = Put(continuation, HandoffId(d, s, r), [parent |-> s, request |-> r])
    /\ issued' = issued \cup {HandoffId(d, s, r)}
    /\ UNCHANGED turn

Admit(s, t) ==
    /\ Live(s)
    /\ t \notin DOMAIN turn
    /\ turn' = Put(turn, t, [session |-> s, answered |-> FALSE, closed |-> FALSE])
    /\ UNCHANGED <<session, revoked, continuation, issued>>

Answer(t) ==
    /\ t \in DOMAIN turn /\ ~turn[t].closed
    /\ turn' = [turn EXCEPT ![t].answered = TRUE]
    /\ UNCHANGED <<session, revoked, continuation, issued>>

Close(t) ==
    /\ t \in DOMAIN turn
    /\ turn' = [turn EXCEPT ![t].closed = TRUE]
    /\ UNCHANGED <<session, revoked, continuation, issued>>

Revoke(s) ==
    /\ Live(s)
    /\ revoked' = revoked \cup {s}
    /\ UNCHANGED <<session, continuation, turn, issued>>

(* Retention forgets whole sessions, newest of a lineage first, and never  *)
(* one with a turn still open.                                             *)
Retire(S) ==
    /\ \A s \in S : \A t \in TurnsOf(s) : turn[t].closed
    /\ \A c \in DOMAIN continuation : continuation[c].parent \notin S
    /\ session' = Drop(session, S)
    /\ revoked' = revoked \ S
    /\ continuation' = Drop(continuation, S)
    /\ UNCHANGED <<turn, issued>>

Next ==
    \/ \E d \in Delegators, k \in Keys, u \in FreshIds : Issue(d, k, u)
    \/ \E d \in Delegators, s \in DOMAIN session, r \in Requests : Handoff(d, s, r)
    \/ \E s \in DOMAIN session, t \in Turns : Admit(s, t)
    \/ \E t \in Turns : Answer(t) \/ Close(t)
    \/ \E s \in DOMAIN session : Revoke(s)
    \/ \E S \in SUBSET DOMAIN session : Retire(S)

Spec == Init /\ [][Next]_vars
=============================================================================
