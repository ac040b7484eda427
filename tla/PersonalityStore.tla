-------------------------- MODULE PersonalityStore --------------------------
(***************************************************************************)
(* The personality of one agent (personality.py over migration 004): an    *)
(* immutable list of revisions and a head row, read and edited by several  *)
(* people through any number of processes.  Transactions run a statement   *)
(* at a time under READ COMMITTED; their writes appear at their commit.    *)
(* The row lock on the head is held exactly by the connections past the    *)
(* statement that took it, as HeadLock reads off pc.  A lost connection,   *)
(* a lock timeout or a constraint violation is Abort.                      *)
(*                                                                         *)
(* The digest kept with a revision stands for the request it hashes, so a  *)
(* row is the save that made it.  grant[e] is all that authorize finds for *)
(* an editor (a delegator and human): a valid session and the enabled row  *)
(* of personality_grants; any of it may change between two statements.     *)
(***************************************************************************)
EXTENDS Integers, FiniteSets, Tables

CONSTANTS Editors, Requests, Bodies, Conns,
          Readers,      \* clients that page through the history
          MaxRevision   \* 256

ASSUME RevisionAssumption == MaxRevision \in Nat \ {0}
Errors == {"personality_forbidden", "personality_unavailable", "update_identity_mismatch",
           "revision_conflict", "personality_capacity"}

ASSUME NoneAssumption ==
    None \notin Editors /\ None \notin Requests /\ None \notin Errors

VARIABLES
    version,    \* core.personality_versions: revision -> the save that made it
    head,       \* core.agent_personalities: the current revision, 0 if there is no row
    grant,
    pc, call,   \* per connection: the next statement, [save, head as read, allowed]
    walk,       \* per reader: [cursor, seen, top] of a walk through the history
    told        \* what the last step told a caller: [revision, save] or [error], or None

tables == <<version, head>>
vars == <<version, head, grant, pc, call, walk, told>>

-----------------------------------------------------------------------------
Rights == {"none", "read", "edit"}      \* CHECK (NOT can_edit OR can_read)
Locked == {"reauthorize", "decide", "insert"}
Steps == {"idle", "lockHead", "import"} \cup Locked

Imports == [by : {None}, request : {None}, base : {0}, body : Bodies]
Saves == [by : Editors, request : Requests, base : 1..MaxRevision, body : Bodies] \cup Imports

NoSave == [by |-> None, request |-> None, base |-> 0, body |-> None]
NoCall == [save |-> NoSave, head |-> 0, allowed |-> FALSE]
NoWalk == [cursor |-> MaxRevision + 1, seen |-> {}, top |-> 0]
Told(n, s) == [revision |-> n, save |-> s]
Refused(error) == [error |-> error]

(* authorize *)
Authorized(e, edit) == grant[e] = "edit" \/ (grant[e] = "read" /\ ~edit)

MutantNoHeadLock == FALSE

HeadLock == \E p \in Conns : pc[p] \in Locked

Made(r) == {n \in DOMAIN version : version[n].request = r}

(* Primary key, unique request id and the check on revision of 004. *)
Insertable(n, s) ==
    n \notin DOMAIN version /\ n \in 1..MaxRevision /\ Made(s.request) = {}

-----------------------------------------------------------------------------
Init ==
    /\ version = Empty
    /\ head = 0
    /\ grant \in [Editors -> Rights]
    /\ pc = [p \in Conns |-> "idle"]
    /\ call = [p \in Conns |-> NoCall]
    /\ walk = [w \in Readers |-> NoWalk]
    /\ told = None

Go(p, step, c) ==
    /\ pc' = [pc EXCEPT ![p] = step]
    /\ call' = [call EXCEPT ![p] = c]
    /\ told' = None

End(p, answer) ==
    /\ pc' = [pc EXCEPT ![p] = "idle"]
    /\ call' = [call EXCEPT ![p] = NoCall]
    /\ told' = answer

(* save: the session and its grant, and then the wait for the head. *)
SaveBegin(p, s) ==
    /\ pc[p] = "idle"
    /\ IF Authorized(s.by, TRUE) THEN Go(p, "lockHead", [NoCall EXCEPT !.save = s])
       ELSE End(p, Refused("personality_forbidden"))
    /\ UNCHANGED <<tables, grant, walk>>

LockHead(p) ==
    /\ pc[p] = "lockHead" /\ ~HeadLock
    /\ IF head = 0 THEN End(p, Refused("personality_unavailable"))
       ELSE Go(p, "reauthorize",
               [call[p] EXCEPT !.head = head, !.allowed = Authorized(call[p].save.by, TRUE)])
    /\ UNCHANGED <<tables, grant, walk>>

MutantTrustFirstCheck(p) ==
    /\ pc[p] = "reauthorize"
    /\ Go(p, "decide", call[p])
    /\ UNCHANGED <<tables, grant, walk>>

Reauthorize(p) ==
    /\ pc[p] = "reauthorize"
    /\ IF Authorized(call[p].save.by, TRUE) THEN Go(p, "decide", call[p])
       ELSE End(p, Refused("personality_forbidden"))
    /\ UNCHANGED <<tables, grant, walk>>

MutantLastWriteWins(s, h) == IF h >= MaxRevision THEN "personality_capacity" ELSE None

MutantCapacityOffByOne(s, h) ==
    CASE h # s.base -> "revision_conflict"
      [] h = s.base /\ h > MaxRevision -> "personality_capacity"
      [] OTHER -> None

(* Why a save that is not a repetition is refused, if it is. *)
Refusal(s, h) ==
    CASE h # s.base -> "revision_conflict"
      [] h = s.base /\ h >= MaxRevision -> "personality_capacity"
      [] OTHER -> None

MutantConflictFirst(p) ==
    LET s == call[p].save
        h == call[p].head
    IN /\ pc[p] = "decide"
       /\ \/ Refusal(s, h) # None /\ End(p, Refused(Refusal(s, h)))
          \/ \E n \in Made(s.request) : Refusal(s, h) = None /\ End(p, Told(n, s))
          \/ Made(s.request) = {} /\ Refusal(s, h) = None /\ Go(p, "insert", call[p])
       /\ UNCHANGED <<tables, grant, walk>>

(* The request id seen before is answered as before if it is the same save *)
(* by the same editor; a new one must be on top of the head.               *)
Decide(p) ==
    LET s == call[p].save
        h == call[p].head
    IN /\ pc[p] = "decide"
       /\ \/ \E n \in Made(s.request) :
               End(p, IF version[n] = s THEN Told(n, s) ELSE Refused("update_identity_mismatch"))
          \/ Made(s.request) = {} /\ Refusal(s, h) # None /\ End(p, Refused(Refusal(s, h)))
          \/ Made(s.request) = {} /\ Refusal(s, h) = None /\ Go(p, "insert", call[p])
       /\ UNCHANGED <<tables, grant, walk>>

(* Insert the revision, move the head, commit; the answer may get lost. *)
CommitSave(p) ==
    LET s == call[p].save
        n == call[p].head + 1
    IN /\ pc[p] = "insert" /\ Insertable(n, s)
       /\ version' = Put(version, n, s)
       /\ head' = n
       /\ \E answer \in {None, Told(n, s)} : End(p, answer)
       /\ UNCHANGED <<grant, walk>>

(* import_personality holds the agent's row from its check to its commit. *)
ImportBegin(p, s) ==
    /\ pc[p] = "idle" /\ \A q \in Conns : pc[q] # "import"
    /\ IF head = 0 THEN Go(p, "import", [NoCall EXCEPT !.save = s])
       ELSE End(p, Refused("revision_conflict"))
    /\ UNCHANGED <<tables, grant, walk>>

ImportCommit(p) ==
    /\ pc[p] = "import" /\ Insertable(1, call[p].save)
    /\ version' = Put(version, 1, call[p].save)
    /\ head' = 1
    /\ End(p, None)
    /\ UNCHANGED <<grant, walk>>

Abort(p) ==
    /\ pc[p] # "idle"
    /\ End(p, None)
    /\ UNCHANGED <<tables, grant, walk>>

-----------------------------------------------------------------------------
MutantGetUnguarded(e) ==
    /\ told' = IF Authorized(e, FALSE) THEN Told(head, None) ELSE Refused("personality_forbidden")
    /\ UNCHANGED <<tables, grant, pc, call, walk>>

(* get shows an editor the revision that the head points at. *)
Get(e) ==
    /\ told' = CASE ~Authorized(e, FALSE) -> Refused("personality_forbidden")
                 [] Authorized(e, FALSE) /\ head \notin DOMAIN version ->
                      Refused("personality_unavailable")
                 [] OTHER -> Told(head, None)
    /\ UNCHANGED <<tables, grant, pc, call, walk>>

MutantDefaultCursor(w) == IF walk[w].seen = {} THEN MaxRevision ELSE walk[w].cursor

(* Where a page starts: a first page names no cursor, which means 257. *)
From(w) == walk[w].cursor

(* history: one revision below the cursor, and the cursor of the next page *)
(* unless it was the first.  A finished walk (cursor 1) starts over.       *)
Page(w) ==
    LET below == {n \in DOMAIN version : n < From(w)}
        n == CHOOSE m \in below : \A k \in below : k <= m
    IN /\ \E e \in Editors : Authorized(e, FALSE)
       /\ walk' = [walk EXCEPT ![w] =
                     IF below = {} THEN NoWalk
                     ELSE [cursor |-> n, seen |-> @.seen \cup {n},
                           top |-> IF @.seen = {} THEN head ELSE @.top]]
       /\ told' = None
       /\ UNCHANGED <<tables, grant, pc, call>>

ChangeGrant(e, right) ==
    /\ grant[e] # right
    /\ grant' = [grant EXCEPT ![e] = right]
    /\ call' = [p \in Conns |->
                 [call[p] EXCEPT !.allowed = @ \/ (pc[p] \in Locked /\ call[p].save.by = e
                                                   /\ right = "edit")]]
    /\ told' = None
    /\ UNCHANGED <<tables, pc, walk>>

-----------------------------------------------------------------------------
Next ==
    \/ \E p \in Conns :
         \/ \E s \in Saves \ Imports : SaveBegin(p, s)
         \/ \E s \in Imports : ImportBegin(p, s)
         \/ LockHead(p) \/ Reauthorize(p) \/ Decide(p) \/ CommitSave(p)
         \/ ImportCommit(p) \/ Abort(p)
    \/ \E w \in Readers : Page(w)
    \/ \E e \in Editors : Get(e) \/ \E right \in Rights : ChangeGrant(e, right)

Spec == Init /\ [][Next]_vars

-----------------------------------------------------------------------------
(* Every variable has its type. *)
TypeOK ==
    /\ head \in 0..MaxRevision
    /\ DOMAIN version \subseteq 1..MaxRevision
    /\ \A n \in DOMAIN version : version[n] \in Saves
    /\ grant \in [Editors -> Rights]
    /\ pc \in [Conns -> Steps]
    /\ call \in [Conns -> [save : Saves \cup {NoSave}, head : 0..MaxRevision,
                          allowed : BOOLEAN]]
    /\ walk \in [Readers -> [cursor : 1..(MaxRevision + 1), seen : SUBSET (1..MaxRevision),
                             top : 0..MaxRevision]]
    /\ told \in {None} \cup [error : Errors]
                \cup [revision : 1..MaxRevision, save : Saves \cup {None}]

(* The checks of save (personality.py:187-200), made under the head lock,  *)
(* come before the constraints of migration 004 and agree with them: an    *)
(* editor is never refused by a constraint, at the 256th revision either.  *)
ChecksPrecedeConstraints ==
    \A p \in Conns : pc[p] = "insert" => Insertable(call[p].head + 1, call[p].save)

(* No save goes through on a right to edit that was gone before it got the *)
(* head lock, however long it waited (personality.py:186).                 *)
NoStaleAuthority ==
    \A p \in Conns : pc[p] \in {"decide", "insert"} => call[p].allowed

(* A client that pages through the history (personality.py:154-165) misses *)
(* no revision between the newest of its first page and where it stands,   *)
(* whatever is saved meanwhile and however full the history is.            *)
WalkContiguous ==
    \A w \in Readers : walk[w].seen # {} => walk[w].seen = walk[w].cursor..walk[w].top

(* A save that is in the history is never answered as a conflict, as out   *)
(* of capacity or as another's request: a retry after a lost answer may    *)
(* only fail for want of authority (personality.py:187-196 before 197).    *)
RetryHonoured ==
    [][\A p \in Conns :
         (\E n \in DOMAIN version : version[n] = call[p].save) /\ pc[p] = "decide" /\ pc'[p] = "idle"
           => told' \in {None} \cup [revision : DOMAIN version, save : {call[p].save}]]_vars

(* The transactions implement the one-step log of revisions. *)
Log == INSTANCE RevisionLog WITH
    log <- [n \in 1..head |-> version[n]],
    told <- IF told \in [error : Errors] THEN None ELSE told

Implements == Log!Spec
=============================================================================
