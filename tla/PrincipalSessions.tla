------------------------- MODULE PrincipalSessions --------------------------
(***************************************************************************)
(* Principal sessions as the database sees them: connections that run the  *)
(* transactions of PrincipalSessions.open (principals.py) and the          *)
(* admission transaction of MCPStore.start (mcp_store.py) one statement at *)
(* a time under READ COMMITTED, the owner's retention job (migrations 003  *)
(* and 005), the operator's grant changes, and the clock.                  *)
(*                                                                         *)
(* A transaction's writes become visible at its commit, so the last step   *)
(* of each makes them all.  The locks are not variables of their own: a    *)
(* lock is held exactly while its transaction stands past the statement    *)
(* that took it, and AdvisoryLock, RowExclusive and RowShare read that off *)
(* pc.  A lock timeout, a constraint violation, a lost connection or a     *)
(* crash is Abort.  Operators named Mutant... are seeded faults: each is   *)
(* used only in place of the definition that follows it.                   *)
(***************************************************************************)
EXTENDS Integers, FiniteSets, Tables

CONSTANTS
    Delegators, Keys,       \* transport identities; (human, agent, project) triples
    FreshIds, Requests,     \* random uuids; request uuids of handoffs
    Turns,                  \* conversation ids
    Conns,                  \* database connections, of any number of processes
    MaxSessions, MaxDelegatorSessions,  \* 128 and 32 in the code
    HandoffLimit,           \* 31: a session this deep has no successor
    WalkLimit,              \* 32: rows the recursive lineage queries visit
    Lifetime, Grace,        \* 900 s and 1 h
    MaxTime                 \* bound on the clock

ASSUME CapacityAssumption == MaxSessions \in Nat /\ MaxDelegatorSessions \in Nat
ASSUME LimitAssumption == HandoffLimit \in Nat /\ WalkLimit \in Nat /\ HandoffLimit < WalkLimit
ASSUME ClockAssumption == Lifetime \in Nat \ {0} /\ Grace \in Nat /\ MaxTime \in Nat
ASSUME NoneAssumption == None \notin Delegators /\ None \notin Conns

VARIABLES
    session,        \* chat.principal_sessions: id -> row
    continuation,   \* chat.principal_continuations: child id -> row
    conversation,   \* chat.conversations of client agent-mcp: id -> row
    granted,        \* the enabled (delegator, keys): every joined row is enabled
    now,            \* clock_timestamp()
    pc, call,       \* per connection: the next statement, the call's arguments
    reply,          \* the session id the last step returned to its caller
    issued          \* history: every id a session was ever committed under

tables == <<session, continuation, conversation>>
vars == <<tables, granted, now, pc, call, reply, issued>>

-----------------------------------------------------------------------------
OpenSteps == {"find", "lockSource", "source", "pending", "resolve", "insert"}
SourceLocked == {"source", "pending", "resolve", "insert"}
Steps == {"idle", "admit"} \cup OpenSteps

NoCall == [delegator |-> None, keys |-> None, on |-> None, request |-> None]

MutantNoAdvisoryLock == FALSE

(* pg_advisory_xact_lock(1179402567, 18): one namespace transaction at a time. *)
AdvisoryLock == \E q \in Conns : pc[q] \in OpenSteps

(* Row locks on session s held by connections other than p: FOR UPDATE by  *)
(* a handoff of s, FOR SHARE by an ask being admitted under s.             *)
MutantNoRowExclusive(p, s) == FALSE

RowExclusive(p, s) ==
    \E q \in Conns \ {p} : pc[q] \in SourceLocked /\ call[q].on = s

MutantNoRowShare(p, s) == FALSE

RowShare(p, s) ==
    \E q \in Conns \ {p} : pc[q] = "admit" /\ call[q].on = s

MutantGrantOnly(d, s) ==
    s \in DOMAIN session /\ session[s].delegator = d /\ <<d, session[s].keys>> \in granted

(* The predicate of require_on. *)
Valid(d, s) ==
    /\ s \in DOMAIN session
    /\ session[s].delegator = d
    /\ ~session[s].revoked
    /\ session[s].expires > now
    /\ <<d, session[s].keys>> \in granted

Own(d) == {s \in DOMAIN session : session[s].delegator = d}

TurnsOf(s) == {t \in DOMAIN conversation : conversation[t].session = s}

MutantPendingIfOpen(s) == \E t \in TurnsOf(s) : ~conversation[t].closed

Pending(s) ==
    \E t \in TurnsOf(s) : ~conversation[t].closed \/ ~conversation[t].answered

(* The depth of s in its lineage, as far as the query walks: one row for    *)
(* each number of links.                                                   *)
HandoffDepth(s) == Cardinality({n \in 1..WalkLimit : Walks(continuation, s, n) # {}})

SamePrincipal(a, b) ==
    /\ {a, b} \subseteq DOMAIN session
    /\ session[a].delegator = session[b].delegator
    /\ session[a].keys = session[b].keys

(* continues_on: may a turn under s carry on the history of session h?  The *)
(* query stops at the first session that is gone or another principal's.   *)
ContinuesOn(s, h) ==
    \E n \in 0..(WalkLimit - 1) : \E w \in Walks(continuation, s, n) :
        w[n] = h /\ \A i \in 0..n : SamePrincipal(w[i], s)

(* A session and all its turns are past their grace period (003). *)
Retirable(s) ==
    /\ session[s].expires + Grace <= now
    /\ \A t \in TurnsOf(s) : conversation[t].closed /\ conversation[t].ended + Grace <= now

-----------------------------------------------------------------------------
Init ==
    /\ session = Empty
    /\ continuation = Empty
    /\ conversation = Empty
    /\ granted = Delegators \X Keys
    /\ now = 0
    /\ pc = [p \in Conns |-> "idle"]
    /\ call = [p \in Conns |-> NoCall]
    /\ reply = None
    /\ issued = {}

(* Transaction control: begin, go on, and end (by commit or rollback). *)
Begin(p, step, arguments) ==
    /\ pc[p] = "idle"
    /\ pc' = [pc EXCEPT ![p] = step]
    /\ call' = [call EXCEPT ![p] = arguments]
    /\ reply' = None

End(p, id) ==
    /\ pc' = [pc EXCEPT ![p] = "idle"]
    /\ call' = [call EXCEPT ![p] = NoCall]
    /\ reply' = id

(* A read that lets the transaction go on, or refuses it. *)
Check(p, ok, next) ==
    /\ \/ ok /\ pc' = [pc EXCEPT ![p] = next] /\ reply' = None /\ UNCHANGED call
       \/ ~ok /\ End(p, None)
    /\ UNCHANGED <<tables, granted, now, issued>>

-----------------------------------------------------------------------------
(* PrincipalSessions.open *)

OpenBegin(p) ==
    /\ ~AdvisoryLock
    /\ \E d \in Delegators, k \in Keys :
         \/ Begin(p, "resolve", [NoCall EXCEPT !.delegator = d, !.keys = k])
         \/ \E s \in issued, r \in Requests :
              Begin(p, "find", [delegator |-> d, keys |-> k, on |-> s, request |-> r])
    /\ UNCHANGED <<tables, granted, now, issued>>

MutantFindAnyChild(p) ==
    /\ pc[p] = "find"
    /\ IF \E x \in DOMAIN continuation : continuation[x].parent = call[p].on
       THEN /\ \E x \in DOMAIN continuation :
                 /\ continuation[x].parent = call[p].on /\ Valid(call[p].delegator, x)
                 /\ End(p, x)
            /\ UNCHANGED <<tables, granted, now, issued>>
       ELSE Check(p, TRUE, "lockSource")

(* Was this source already handed off?  The same request gets its child    *)
(* back, any other one is refused.                                         *)
FindContinuation(p) ==
    LET c == call[p]
        child == HandoffId(c.delegator, c.on, c.request)
        existing == {x \in DOMAIN continuation : continuation[x].parent = c.on}
    IN /\ pc[p] = "find"
       /\ IF existing = {}
          THEN Check(p, TRUE, "lockSource")
          ELSE /\ IF /\ child \in existing
                     /\ Valid(c.delegator, child)
                     /\ session[child].keys = c.keys
                  THEN End(p, child)
                  ELSE End(p, None)
               /\ UNCHANGED <<tables, granted, now, issued>>

(* SELECT ... FOR UPDATE waits for asks under admission and other updates. *)
LockSource(p) ==
    /\ pc[p] = "lockSource"
    /\ ~RowShare(p, call[p].on) /\ ~RowExclusive(p, call[p].on)
    /\ Check(p, TRUE, "source")

RequireSource(p) ==
    LET c == call[p]
    IN /\ pc[p] = "source"
       /\ Check(p, Valid(c.delegator, c.on) /\ session[c.on].keys = c.keys, "pending")

MutantDepthOffByOne(p) ==
    /\ pc[p] = "pending"
    /\ Check(p, ~Pending(call[p].on) /\ HandoffDepth(call[p].on) <= HandoffLimit, "resolve")

CheckPending(p) ==
    /\ pc[p] = "pending"
    /\ Check(p, ~Pending(call[p].on) /\ HandoffDepth(call[p].on) < HandoffLimit, "resolve")

Resolve(p) ==
    LET d == call[p].delegator
    IN /\ pc[p] = "resolve"
       /\ Check(p, /\ <<d, call[p].keys>> \in granted
                   /\ Cardinality(DOMAIN session) < MaxSessions
                   /\ Cardinality(Own(d)) < MaxDelegatorSessions,
                "insert")

(* What the tables refuse: primary and unique keys, the foreign key to the *)
(* parent, and the trigger against historical ids.                         *)
Conflict(id, s) ==
    \/ id \in DOMAIN session
    \/ TurnsOf(id) # {}
    \/ s # None /\ s \notin DOMAIN session
    \/ s # None /\ \E c \in DOMAIN continuation : continuation[c].parent = s

MutantSessionWithoutKeys(c) ==
    [delegator |-> c.delegator, keys |-> None, expires |-> now + Lifetime, revoked |-> FALSE]

NewSession(c) ==
    [delegator |-> c.delegator, keys |-> c.keys, expires |-> now + Lifetime, revoked |-> FALSE]

(* INSERT, configure, link to the source, revoke the source, commit.  A    *)
(* configure that refuses is Abort.                                        *)
CommitOpen(p) ==
    LET c == call[p]
        id(u) == IF c.on = None THEN UuidV4(u) ELSE HandoffId(c.delegator, c.on, c.request)
    IN /\ pc[p] = "insert"
       /\ \E u \in FreshIds :
            /\ c.on = None => UuidV4(u) \notin issued
            /\ ~Conflict(id(u), c.on)
            /\ IF c.on = None
               THEN /\ session' = Put(session, id(u), NewSession(c))
                    /\ UNCHANGED continuation
               ELSE /\ session' = Put([session EXCEPT ![c.on].revoked = TRUE],
                                      id(u), NewSession(c))
                    /\ continuation' = Put(continuation, id(u),
                                           [parent |-> c.on, request |-> c.request])
            /\ issued' = issued \cup {id(u)}
            /\ End(p, id(u))
       /\ UNCHANGED <<conversation, granted, now>>

-----------------------------------------------------------------------------
(* MCPStore.start: admission of one ask under a session *)

(* require_on(lock=True): FOR SHARE waits for a handoff of the session,    *)
(* then sees what that handoff committed.                                  *)
AskBegin(p) ==
    \E d \in Delegators, s \in issued, t \in Turns :
        /\ t \notin DOMAIN conversation
        /\ ~RowExclusive(p, s)
        /\ Valid(d, s)
        /\ Begin(p, "admit", [delegator |-> d, keys |-> session[s].keys,
                              on |-> s, request |-> t])
        /\ UNCHANGED <<tables, granted, now, issued>>

(* The conversation's primary key is the request fence. *)
CommitAsk(p) ==
    LET c == call[p]
    IN /\ pc[p] = "admit"
       /\ \/ /\ c.request \notin DOMAIN conversation
             /\ conversation' = Put(conversation, c.request,
                    [session |-> c.on, answered |-> FALSE, closed |-> FALSE, ended |-> None])
          \/ /\ c.request \in DOMAIN conversation
             /\ UNCHANGED conversation
       /\ End(p, None)
       /\ UNCHANGED <<session, continuation, granted, now, issued>>

Abort(p) ==
    /\ pc[p] # "idle"
    /\ End(p, None)
    /\ UNCHANGED <<tables, granted, now, issued>>

-----------------------------------------------------------------------------
(* Statements on connections of their own, one transaction each *)

SaveAnswer(t) ==
    /\ ~conversation[t].answered /\ ~conversation[t].closed
    /\ conversation' = [conversation EXCEPT ![t].answered = TRUE]
    /\ UNCHANGED <<session, continuation>>

CloseRuntime(t) ==
    /\ ~conversation[t].closed
    /\ conversation' = [conversation EXCEPT ![t].closed = TRUE, ![t].ended = now]
    /\ UNCHANGED <<session, continuation>>

(* An owner may set revoked_at by hand; the trigger keeps it set. *)
RevokeSession(s) ==
    /\ ~session[s].revoked
    /\ ~RowShare(None, s) /\ ~RowExclusive(None, s)
    /\ session' = [session EXCEPT ![s].revoked = TRUE]
    /\ UNCHANGED <<continuation, conversation>>

(* What a retention batch may take: no ancestor of a retained session, and *)
(* SKIP LOCKED passes over rows another transaction holds.                 *)
Candidates ==
    {s \in DOMAIN session :
        /\ Retirable(s)
        /\ \A c \in DOMAIN continuation : continuation[c].parent # s
        /\ ~RowShare(None, s) /\ ~RowExclusive(None, s)}

(* retire_principal_sessions(|S|): the oldest first.  The advisory lock is *)
(* tried, not awaited, and with the row locks covers the whole statement.  *)
RetireSessions ==
    /\ ~AdvisoryLock
    /\ \E S \in SUBSET Candidates :
         /\ S # {}
         /\ \A s \in S, x \in Candidates \ S : session[s].expires <= session[x].expires
         /\ session' = Drop(session, S)
         /\ continuation' = Drop(continuation, S)
    /\ UNCHANGED conversation

TableStep ==
    /\ \/ \E t \in DOMAIN conversation : SaveAnswer(t) \/ CloseRuntime(t)
       \/ \E s \in DOMAIN session : RevokeSession(s)
       \/ RetireSessions
    /\ reply' = None
    /\ UNCHANGED <<granted, now, pc, call, issued>>

(* An operator disables or enables a grant, a membership, a human, an      *)
(* agent or a project.                                                     *)
ChangeGrant(g) ==
    /\ granted' = IF g \in granted THEN granted \ {g} ELSE granted \cup {g}
    /\ reply' = None
    /\ UNCHANGED <<tables, now, pc, call, issued>>

Tick ==
    /\ now < MaxTime
    /\ now' = now + 1
    /\ reply' = None
    /\ UNCHANGED <<tables, granted, pc, call, issued>>

-----------------------------------------------------------------------------
ConnStep(p) ==
    \/ OpenBegin(p) \/ FindContinuation(p) \/ LockSource(p) \/ RequireSource(p)
    \/ CheckPending(p) \/ Resolve(p) \/ CommitOpen(p)
    \/ AskBegin(p) \/ CommitAsk(p)
    \/ Abort(p)

Next ==
    \/ \E p \in Conns : ConnStep(p)
    \/ TableStep
    \/ \E g \in Delegators \X Keys : ChangeGrant(g)
    \/ Tick

Spec == Init /\ [][Next]_vars

-----------------------------------------------------------------------------
(* The rows and control state have their types; sessions, links and recorded *)
(* conversations speak of ids that were issued.                              *)
TypeOK ==
    /\ session \in [DOMAIN session ->
         [delegator : Delegators, keys : Keys, expires : Nat, revoked : BOOLEAN]]
    /\ DOMAIN session \subseteq issued /\ IsFiniteSet(issued)
    /\ continuation \in [DOMAIN continuation -> [parent : issued, request : Requests]]
    /\ DOMAIN continuation \subseteq issued
    /\ conversation \in [DOMAIN conversation ->
         [session : issued, answered : BOOLEAN, closed : BOOLEAN, ended : Nat \cup {None}]]
    /\ DOMAIN conversation \subseteq Turns
    /\ granted \subseteq Delegators \X Keys
    /\ now \in Nat
    /\ pc \in [Conns -> Steps]
    /\ call \in [Conns -> [delegator : Delegators \cup {None}, keys : Keys \cup {None},
                           on : issued \cup {None}, request : Requests \cup Turns \cup {None}]]
    /\ reply \in issued \cup {None}

(* However many connections open sessions at once, the retained sessions -   *)
(* expired and revoked ones included - never exceed the 128 of the namespace *)
(* or the 32 of one delegator (principals.py 135-143).                       *)
CapacityBound ==
    /\ Cardinality(DOMAIN session) <= MaxSessions
    /\ \A d \in Delegators : Cardinality(Own(d)) <= MaxDelegatorSessions

(* Once a session has been handed off, every turn ever admitted under it is  *)
(* closed and answered: no ask slips in beside the handoff, and none is left *)
(* behind without its answer (principals.py 92-108, mcp_store.py 196-217).   *)
HandedOffComplete ==
    \A c \in DOMAIN continuation :
        /\ continuation[c].parent \in DOMAIN session => session[continuation[c].parent].revoked
        /\ ~Pending(continuation[c].parent)

(* A session has one successor in all of history: retries, rival handoffs    *)
(* and the retirement of the successor never make a second one.              *)
OneSuccessor ==
    \A d1, d2 \in Delegators, r1, r2 \in Requests, s \in issued :
        {HandoffId(d1, s, r1), HandoffId(d2, s, r2)} \subseteq issued
            => d1 = d2 /\ r1 = r2

(* Every retained session still has its whole ancestry, of one principal,    *)
(* and the bounded walk of continues_on reaches all of it: retirement never  *)
(* cuts a lineage and the handoff limit never outruns the walk.              *)
LineageReachable ==
    /\ \A c \in DOMAIN continuation :
         {c, continuation[c].parent} \subseteq DOMAIN session
    /\ \A s \in DOMAIN session, n \in 0..Cardinality(DOMAIN continuation) :
         \A w \in Walks(continuation, s, n) : ContinuesOn(s, w[n])

(* Nothing unfinished survives its session: a conversation whose session was *)
(* retired is closed, even when an ask raced the retention job.              *)
RetiredQuiescent ==
    \A t \in DOMAIN conversation :
        conversation[t].session \notin DOMAIN session => conversation[t].closed

(* An id stands for one grant of authority for ever: its row never changes   *)
(* but to be revoked, and once retired it never comes back, although the id  *)
(* of a handoff is computed from its arguments (principals.py 77-79, 97-100, *)
(* the triggers of migrations 002 and 003).                                  *)
OneGrantPerId ==
    [][\A s \in issued \cap DOMAIN session' :
        /\ s \in DOMAIN session
        /\ session'[s] \in {session[s], [session[s] EXCEPT !.revoked = TRUE]}
      ]_vars

(* An id handed to a caller names a committed, unrevoked session of exactly  *)
(* the principal it asked for; a handoff, first try or retry, returns the    *)
(* session that this very request committed.                                 *)
ReplyBinding ==
    [][\A p \in Conns :
        pc[p] # "idle" /\ pc'[p] = "idle" /\ reply' # None =>
            /\ reply' \in DOMAIN session'
            /\ ~session'[reply'].revoked
            /\ session'[reply'].delegator = call[p].delegator
            /\ session'[reply'].keys = call[p].keys
            /\ call[p].on # None =>
                 continuation'[reply'] = [parent |-> call[p].on, request |-> call[p].request]
      ]_vars

-----------------------------------------------------------------------------
(* The detailed tables implement the one-step authority: locks, statement    *)
(* interleavings and the clock are invisible to a caller.                    *)
Authority == INSTANCE SessionAuthority WITH
    session <- [s \in DOMAIN session |->
        [delegator |-> session[s].delegator, keys |-> session[s].keys]],
    revoked <- {s \in DOMAIN session : session[s].revoked},
    turn <- [t \in DOMAIN conversation |->
        [session |-> conversation[t].session, answered |-> conversation[t].answered,
         closed |-> conversation[t].closed]]

Implements == Authority!Spec
=============================================================================
