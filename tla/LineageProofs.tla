---------------------------- MODULE LineageProofs ----------------------------
(***************************************************************************)
(* The lineages of PrincipalSessions: that retention never cuts one, and   *)
(* that the limit on handoffs keeps every one within the bounded walk of   *)
(* continues_on (principals.py 109-119 and 171-201).  First what a walk    *)
(* through a table of links is, then the invariant that bounds the walks.  *)
(***************************************************************************)
EXTENDS PrincipalSessionsProofs

(* The beginning of a walk is a walk. *)
LEMMA WalkPrefix ==
    ASSUME NEW link, NEW s, NEW n \in Nat, NEW m \in 0..n, NEW w \in Walks(link, s, n)
    PROVE  [i \in 0..m |-> w[i]] \in Walks(link, s, m)
BY DEF Walks

(* A walk of the links that are left is a walk of all the links. *)
LEMMA WalkFewerLinks ==
    ASSUME NEW link, NEW more, DOMAIN link \subseteq DOMAIN more,
           \A x \in DOMAIN link : link[x] = more[x],
           NEW s, NEW n \in Nat, NEW w \in Walks(link, s, n)
    PROVE  w \in Walks(more, s, n)
<1>1. /\ w \in [0..n -> {s} \cup {link[c].parent : c \in DOMAIN link}] /\ w[0] = s
      /\ \A i \in 1..n : w[i-1] \in DOMAIN link /\ w[i] = link[w[i-1]].parent
  BY DEF Walks
<1>2. {link[c].parent : c \in DOMAIN link} \subseteq {more[c].parent : c \in DOMAIN more}
  OBVIOUS
<1>3. w \in [0..n -> {s} \cup {more[c].parent : c \in DOMAIN more}]
  BY <1>1, <1>2
<1>4. \A i \in 1..n : w[i-1] \in DOMAIN more /\ w[i] = more[w[i-1]].parent
  BY <1>1
<1> QED BY <1>1, <1>3, <1>4 DEF Walks

(* Every session a walk reaches was entered through a link that names it. *)
LEMMA WalkReachesParents ==
    ASSUME NEW link, NEW s, NEW n \in Nat, NEW w \in Walks(link, s, n)
    PROVE  /\ w[0] = s
           /\ \A i \in 1..n : \E c \in DOMAIN link : w[i] = link[c].parent
BY DEF Walks

(* A new link of a session x that no link names can only be the first of a *)
(* walk: any other walk goes through the links that were there before.     *)
LEMMA WalkNewLink ==
    ASSUME NEW link, NEW x, NEW y, \A c \in DOMAIN link : link[c].parent # x, y.parent # x,
           NEW s, NEW n \in Nat, NEW w \in Walks(Put(link, x, y), s, n)
    PROVE  /\ s # x => w \in Walks(link, s, n)
           /\ s = x /\ n > 0 =>
                [i \in 0..(n-1) |-> w[i+1]] \in Walks(link, y.parent, n - 1)
<1> DEFINE more == Put(link, x, y)
           Parents(t) == {t[c].parent : c \in DOMAIN t}
<1>1. /\ DOMAIN more = DOMAIN link \cup {x}
      /\ more[x] = y /\ \A c \in DOMAIN link : c # x => more[c] = link[c]
  BY DEF Put
<1>2. /\ w \in [0..n -> {s} \cup Parents(more)] /\ w[0] = s
      /\ \A i \in 1..n : w[i-1] \in DOMAIN more /\ w[i] = more[w[i-1]].parent
  BY DEF Walks
<1> HIDE DEF more
<1>3. \A i \in 1..n : w[i] # x
  BY <1>1, <1>2
<1>4. \A i \in 1..n : w[i-1] # x => /\ w[i-1] \in DOMAIN link
                                    /\ w[i] = link[w[i-1]].parent
                                    /\ w[i] \in Parents(link)
  BY <1>1, <1>2
<1>5. CASE s # x
  <2>1. \A i \in 0..n : w[i] # x
    BY <1>2, <1>3, <1>5
  <2>2. \A i \in 1..n : i - 1 \in 0..n
    OBVIOUS
  <2>3. \A i \in 1..n : w[i-1] \in DOMAIN link /\ w[i] = link[w[i-1]].parent /\ w[i] \in Parents(link)
    BY <1>4, <2>1, <2>2
  <2>4. w \in [0..n -> {s} \cup Parents(link)]
    BY <1>2, <2>3
  <2> QED BY <1>2, <1>5, <2>3, <2>4 DEF Walks
<1>6. CASE s = x /\ n > 0
  <2> DEFINE v == [i \in 0..(n-1) |-> w[i+1]]
  <2>1. w[1] = y.parent
    BY <1>1, <1>2, <1>6
  <2>2. ASSUME NEW i \in 1..(n-1)
        PROVE  /\ w[i] \in DOMAIN link /\ w[i+1] = link[w[i]].parent
               /\ w[i+1] \in Parents(link)
    <3>1. PICK j \in 1..n : j = i + 1 /\ j - 1 = i /\ i \in 1..n
      OBVIOUS
    <3> QED BY <1>3, <1>4, <3>1
  <2>3. \A i \in 1..(n-1) : v[i-1] = w[i] /\ v[i] = w[i+1]
    OBVIOUS
  <2>4. v[0] = w[1] /\ v = [i \in 0..(n-1) |-> v[i]]
    BY <1>6
  <2> HIDE DEF v
  <2>5. \A i \in 1..(n-1) : v[i-1] \in DOMAIN link /\ v[i] = link[v[i-1]].parent /\ v[i] \in Parents(link)
    BY <2>2, <2>3
  <2>6. ASSUME NEW i \in 0..(n-1) PROVE v[i] \in {y.parent} \cup Parents(link)
    <3>1. i = 0 \/ i \in 1..(n-1)
      OBVIOUS
    <3> QED BY <2>1, <2>4, <2>5, <3>1
  <2>7. v \in [0..(n-1) -> {y.parent} \cup Parents(link)]
    BY <2>4, <2>6
  <2>8. v \in Walks(link, y.parent, n - 1)
    BY <1>6, <2>1, <2>4, <2>5, <2>7 DEF Walks
  <2> QED BY <1>6, <2>8 DEF v
<1> QED BY <1>5, <1>6

-----------------------------------------------------------------------------
(* A lineage that the query finds shorter than the limit has no walk as    *)
(* long as the limit: the rows it counts are of every length up to the     *)
(* longest (principals.py 109-119).                                        *)
LEMMA DepthBounds ==
    ASSUME NEW s, HandoffDepth(s) < HandoffLimit
    PROVE  Walks(continuation, s, HandoffLimit) = {}
<1> DEFINE S == {n \in 1..WalkLimit : Walks(continuation, s, n) # {}}
<1> SUFFICES ASSUME NEW w \in Walks(continuation, s, HandoffLimit) PROVE FALSE
  OBVIOUS
<1>0. HandoffLimit \in Nat /\ WalkLimit \in Nat /\ HandoffLimit < WalkLimit
  BY LimitAssumption
<1>1. IsFiniteSet(1..WalkLimit) /\ IsFiniteSet(1..HandoffLimit)
      /\ Cardinality(1..HandoffLimit) = HandoffLimit
  BY <1>0, FS_Interval
<1>2. ASSUME NEW m \in 1..HandoffLimit PROVE m \in S
  <2>1. m \in 0..HandoffLimit /\ m \in 1..WalkLimit
    BY <1>0
  <2>2. Walks(continuation, s, m) # {}
    BY <1>0, <2>1, WalkPrefix
  <2> QED BY <2>1, <2>2
<1>3. IsFiniteSet(S) /\ 1..HandoffLimit \subseteq S
  BY <1>1, <1>2, FS_Subset
<1>4. HandoffLimit <= Cardinality(S) /\ Cardinality(S) \in Nat
  BY <1>1, <1>3, FS_Subset, FS_CardinalityType
<1> QED BY <1>0, <1>4 DEF HandoffDepth

(* A transaction about to commit a handoff has a source with no walk as    *)
(* long as the limit: what it counted holds until it inserts the link.     *)
DepthHeld ==
    \A p \in Conns :
        pc[p] \in {"resolve", "insert"} /\ call[p].on # None =>
            Walks(continuation, call[p].on, HandoffLimit) = {}

(* No lineage is longer than the limit. *)
Shallow == \A s \in DOMAIN session : Walks(continuation, s, HandoffLimit + 1) = {}

(* All that a session continues is retained, and of its principal. *)
OnePrincipal ==
    \A s \in DOMAIN session, n \in 0..HandoffLimit :
        \A w \in Walks(continuation, s, n) : \A i \in 0..n : SamePrincipal(w[i], s)

LineageInv == IInv /\ DepthHeld /\ Shallow /\ OnePrincipal

(* The invariant gives the property: a walk of any length is at most as    *)
(* long as the limit, so that continues_on takes it.                       *)
LEMMA LineageSuffices == LineageInv => LineageReachable
<1> SUFFICES ASSUME LineageInv PROVE LineageReachable
  OBVIOUS
<1>0. HandoffLimit \in Nat /\ WalkLimit \in Nat /\ HandoffLimit < WalkLimit
  BY LimitAssumption
<1>1. \A c \in DOMAIN continuation : {c, continuation[c].parent} \subseteq DOMAIN session
  BY DEF LineageInv, IInv, LinkOK
<1>2. Cardinality(DOMAIN continuation) \in Nat
  BY FS_Subset, FS_CardinalityType DEF LineageInv, IInv, TypeOK
<1>3. ASSUME NEW s \in DOMAIN session, NEW n \in 0..Cardinality(DOMAIN continuation),
             NEW w \in Walks(continuation, s, n)
      PROVE  ContinuesOn(s, w[n])
  <2>1. n \in Nat
    BY <1>2
  <2>2. n <= HandoffLimit
    <3> SUFFICES ASSUME HandoffLimit + 1 <= n PROVE FALSE
      BY <1>0, <2>1
    <3>1. HandoffLimit + 1 \in 0..n
      BY <1>0, <2>1
    <3>2. Walks(continuation, s, HandoffLimit + 1) # {}
      BY <2>1, <3>1, WalkPrefix
    <3> QED BY <3>2 DEF LineageInv, Shallow
  <2>3. n \in 0..HandoffLimit /\ n \in 0..(WalkLimit - 1)
    BY <1>0, <2>1, <2>2
  <2>4. \A i \in 0..n : SamePrincipal(w[i], s)
    BY <2>3 DEF LineageInv, OnePrincipal
  <2> QED BY <2>3, <2>4 DEF ContinuesOn
<1> QED BY <1>1, <1>3 DEF LineageReachable

(* Steps that write no link and keep every session with its principal.     *)
LEMMA LinksKept ==
    ASSUME LineageInv, IInv', UNCHANGED continuation, DOMAIN session' = DOMAIN session,
           \A s \in DOMAIN session : /\ session'[s].delegator = session[s].delegator
                                      /\ session'[s].keys = session[s].keys,
           \A p \in Conns :
               pc'[p] \in {"resolve", "insert"} /\ call'[p].on # None =>
                   Walks(continuation, call'[p].on, HandoffLimit) = {}
    PROVE  LineageInv'
<1>1. DepthHeld' /\ Shallow'
  BY DEF LineageInv, DepthHeld, Shallow
<1>2. \A a, b : SamePrincipal(a, b) => SamePrincipal(a, b)'
  BY DEF SamePrincipal
<1>3. OnePrincipal'
  BY <1>2 DEF LineageInv, OnePrincipal
<1> QED BY <1>1, <1>3 DEF LineageInv

(* The depth is counted after the source was locked, and no other handoff  *)
(* goes on until the namespace lock is given back.                         *)
LEMMA MoveKeepsLineage ==
    ASSUME LineageInv, IInv', NEW p \in Conns, Moves(p) \/ CommitAsk(p)
    PROVE  LineageInv'
<1>1. ConnStep(p) /\ IInv /\ UNCHANGED <<session, continuation>>
  BY MoveLeavesTables DEF Moves, ConnStep, LineageInv, CommitAsk
<1>2. ASSUME NEW q \in Conns, pc'[q] \in {"resolve", "insert"}, call'[q].on # None
      PROVE  Walks(continuation, call'[q].on, HandoffLimit) = {}
  <2>1. CASE q # p
    BY <1>1, <1>2, <2>1, OthersKeepPlace DEF LineageInv, DepthHeld
  <2>2. CASE q = p
    <3>1. pc \in [Conns -> Steps] /\ DOMAIN call = Conns
      BY <1>1 DEF IInv, TypeOK
    <3>2. CASE OpenBegin(p)
      BY <1>2, <2>2, <3>1, <3>2 DEF OpenBegin, Begin, NoCall
    <3>3. CASE CheckPending(p)
      <4>1. HandoffDepth(call[p].on) < HandoffLimit /\ call'[p] = call[p]
        BY <1>2, <2>2, <3>1, <3>3 DEF CheckPending, Check, End
      <4> QED BY <2>2, <4>1, DepthBounds
    <3>4. CASE Resolve(p)
      <4>1. pc[p] = "resolve" /\ call'[p] = call[p]
        BY <1>2, <2>2, <3>1, <3>4 DEF Resolve, Check, End
      <4> QED BY <1>2, <2>2, <4>1 DEF LineageInv, DepthHeld
    <3>5. ASSUME FindContinuation(p) \/ LockSource(p) \/ RequireSource(p) \/ AskBegin(p)
                 \/ Abort(p) \/ CommitAsk(p)
          PROVE  FALSE
      BY <1>2, <2>2, <3>1, <3>5 DEF FindContinuation, LockSource, RequireSource, AskBegin, Abort,
         CommitAsk, Begin, Check, End
    <3> QED BY <3>2, <3>3, <3>4, <3>5 DEF Moves
  <2> QED BY <2>1, <2>2
<1> QED BY <1>1, <1>2, LinksKept

(* While a transaction commits, no other one is inside the namespace. *)
LEMMA CommitAlone ==
    ASSUME IInv, NEW p \in Conns, NEW id, Committed(p, id), ConnStep(p), IInv'
    PROVE  \A q \in Conns : pc'[q] \notin {"resolve", "insert"}
<1>1. pc[p] = "insert" /\ pc'[p] = "idle"
  BY DEF Committed, End, IInv, TypeOK
<1>2. \A q \in Conns : q # p => pc'[q] = pc[q] /\ pc[q] \notin OpenSteps
  BY <1>1, OthersKeepPlace DEF IInv, OneNamespace, OpenSteps
<1> QED BY <1>1, <1>2 DEF OpenSteps

(* The new session is the head of its lineage: what it continues was there *)
(* before, one link shorter, and of the same principal.                    *)
LEMMA CommitKeepsLineage ==
    ASSUME LineageInv, NEW p \in Conns, CommitOpen(p), IInv'
    PROVE  LineageInv'
<1>0. /\ IInv /\ ConnStep(p)
      /\ HandoffLimit \in Nat
  BY LimitAssumption DEF LineageInv, ConnStep
<1>1. PICK id : Committed(p, id)
  BY <1>0, CommitEffect
<1>2. PICK c : c = call[p]
  OBVIOUS
<1>3. /\ id \notin DOMAIN session /\ DOMAIN session' = DOMAIN session \cup {id}
      /\ session'[id].delegator = c.delegator /\ session'[id].keys = c.keys
      /\ \A x \in DOMAIN session : /\ session'[x].delegator = session[x].delegator
                                   /\ session'[x].keys = session[x].keys
  BY <1>0, <1>1, <1>2, CommitTypes DEF Committed, NewSession
<1>4. \A x \in DOMAIN continuation : {x, continuation[x].parent} \subseteq DOMAIN session
  BY <1>0 DEF IInv, LinkOK
<1>5. \A a, b : SamePrincipal(a, b) => SamePrincipal(a, b)'
  BY <1>3 DEF SamePrincipal
<1>6. SamePrincipal(id, id)'
  BY <1>3 DEF SamePrincipal
<1>7. DepthHeld'
  BY <1>0, <1>1, CommitAlone DEF DepthHeld
<1>8. CASE c.on = None
  <2>1. UNCHANGED continuation
    BY <1>1, <1>2, <1>8 DEF Committed
  <2>2. \A n \in Nat : \A w \in Walks(continuation, id, n) : n = 0
    <3> SUFFICES ASSUME NEW n \in Nat, n # 0, NEW w \in Walks(continuation, id, n) PROVE FALSE
      OBVIOUS
    <3>1. w[0] = id /\ \A i \in 1..n : w[i - 1] \in DOMAIN continuation
      BY DEF Walks
    <3>2. 1 \in 1..n /\ 1 - 1 = 0
      OBVIOUS
    <3>3. id \in DOMAIN continuation
      BY <3>1, <3>2
    <3> QED BY <1>3, <1>4, <3>3
  <2>3. Shallow'
    BY <1>0, <1>3, <2>1, <2>2 DEF LineageInv, Shallow
  <2>4. ASSUME NEW s \in DOMAIN session', NEW n \in 0..HandoffLimit,
               NEW w \in Walks(continuation, s, n), NEW i \in 0..n
        PROVE  SamePrincipal(w[i], s)'
    <3>1. CASE s # id
      BY <1>3, <1>5, <3>1 DEF LineageInv, OnePrincipal
    <3>2. CASE s = id
      <4>1. n \in Nat
        BY <1>0
      <4>2. n = 0 /\ i = 0
        BY <2>2, <3>2, <4>1
      <4>3. w[0] = id
        BY <3>2 DEF Walks
      <4> QED BY <1>6, <3>2, <4>2, <4>3
    <3> QED BY <3>1, <3>2
  <2>5. OnePrincipal'
    BY <2>1, <2>4 DEF OnePrincipal
  <2> QED BY <1>7, <2>3, <2>5 DEF LineageInv
<1>9. CASE c.on # None
  <2>1. PICK y : y = [parent |-> c.on, request |-> c.request]
    OBVIOUS
  <2>2. continuation' = Put(continuation, id, y) /\ y.parent = c.on
    BY <1>1, <1>2, <1>9, <2>1 DEF Committed
  <2>3. /\ c.on \in DOMAIN session
        /\ session[c.on].delegator = c.delegator /\ session[c.on].keys = c.keys
    BY <1>0, <1>1, <1>2, <1>9, CommitFacts
  <2>4. Walks(continuation, c.on, HandoffLimit) = {}
    BY <1>1, <1>2, <1>9 DEF LineageInv, DepthHeld, Committed
  <2>5. (\A x \in DOMAIN continuation : continuation[x].parent # id) /\ y.parent # id
    BY <1>3, <1>4, <2>2, <2>3
  <2>6. ASSUME NEW s, NEW n \in Nat, NEW w \in Walks(continuation', s, n)
        PROVE  /\ s # id => w \in Walks(continuation, s, n)
               /\ s = id /\ n > 0 =>
                    [i \in 0..(n-1) |-> w[i+1]] \in Walks(continuation, c.on, n - 1)
    BY <2>2, <2>5, <2>6, WalkNewLink
  <2>7. Shallow'
    <3> SUFFICES ASSUME NEW s \in DOMAIN session',
                        NEW w \in Walks(continuation', s, HandoffLimit + 1)
                 PROVE  FALSE
      BY DEF Shallow
    <3>1. PICK n \in Nat : n = HandoffLimit + 1 /\ n > 0 /\ n - 1 = HandoffLimit
      BY <1>0
    <3>2. w \in Walks(continuation', s, n)
      BY <3>1
    <3>3. CASE s # id
      <4>1. w \in Walks(continuation, s, HandoffLimit + 1)
        BY <2>6, <3>1, <3>2, <3>3
      <4> QED BY <1>3, <3>3, <4>1 DEF LineageInv, Shallow
    <3>4. CASE s = id
      BY <2>4, <2>6, <3>1, <3>2, <3>4
    <3> QED BY <3>3, <3>4
  <2>8. ASSUME NEW s \in DOMAIN session', NEW n \in 0..HandoffLimit,
               NEW w \in Walks(continuation', s, n), NEW i \in 0..n
        PROVE  SamePrincipal(w[i], s)'
    <3>1. n \in Nat
      BY <1>0
    <3>2. CASE s # id
      BY <1>3, <1>5, <2>6, <3>1, <3>2 DEF LineageInv, OnePrincipal
    <3>3. CASE s = id /\ i = 0
      BY <1>6, <3>3 DEF Walks
    <3>4. CASE s = id /\ i # 0
      <4>1. n > 0 /\ n - 1 \in 0..HandoffLimit /\ i - 1 \in 0..(n-1) /\ (i - 1) + 1 = i
        BY <1>0, <3>1, <3>4
      <4>2. PICK v : v = [j \in 0..(n-1) |-> w[j+1]]
        OBVIOUS
      <4>3. v \in Walks(continuation, c.on, n - 1)
        BY <2>6, <3>1, <3>4, <4>1, <4>2
      <4>4. v[i-1] = w[i]
        BY <4>1, <4>2
      <4>5. SamePrincipal(w[i], c.on)
        BY <2>3, <4>1, <4>3, <4>4 DEF LineageInv, OnePrincipal
      <4> QED BY <1>3, <2>3, <3>4, <4>5 DEF SamePrincipal
    <3> QED BY <3>2, <3>3, <3>4
  <2>9. OnePrincipal'
    BY <2>8 DEF OnePrincipal
  <2> QED BY <1>7, <2>7, <2>9 DEF LineageInv
<1> QED BY <1>8, <1>9

(* Retention takes only heads of lineages: a walk that is left is a walk   *)
(* that was there, and all it reaches is still named by a link.            *)
LEMMA RetireKeepsLineage ==
    ASSUME LineageInv, RetireSessions, UNCHANGED <<pc, call>>, IInv'
    PROVE  LineageInv'
<1>0. IInv /\ HandoffLimit \in Nat
  BY LimitAssumption DEF LineageInv
<1>1. PICK S \in SUBSET Candidates :
         session' = Drop(session, S) /\ continuation' = Drop(continuation, S)
  BY DEF RetireSessions
<1>2. /\ DOMAIN session' = DOMAIN session \ S /\ DOMAIN continuation' \subseteq DOMAIN continuation
      /\ \A x \in DOMAIN session' : session'[x] = session[x]
      /\ \A x \in DOMAIN continuation' : continuation'[x] = continuation[x]
  BY <1>1 DEF Drop
<1>3. \A c \in DOMAIN continuation : continuation[c].parent \in DOMAIN session \ S
  BY <1>0, <1>1 DEF Candidates, IInv, LinkOK
<1>4. ASSUME NEW s, NEW n \in Nat, NEW w \in Walks(continuation', s, n)
      PROVE  w \in Walks(continuation, s, n)
  BY <1>2, <1>4, WalkFewerLinks
<1>5. DepthHeld'
  BY DEF RetireSessions, AdvisoryLock, OpenSteps, DepthHeld
<1>6. Shallow'
  BY <1>0, <1>2, <1>4 DEF LineageInv, Shallow
<1>7. ASSUME NEW s \in DOMAIN session', NEW n \in 0..HandoffLimit,
             NEW w \in Walks(continuation', s, n), NEW i \in 0..n
      PROVE  SamePrincipal(w[i], s)'
  <2>1. n \in Nat
    BY <1>0
  <2>2. w \in Walks(continuation, s, n) /\ s \in DOMAIN session
    BY <1>2, <1>4, <2>1
  <2>3. SamePrincipal(w[i], s)
    BY <2>2 DEF LineageInv, OnePrincipal
  <2>4. w[i] \in DOMAIN session'
    <3>1. CASE i = 0
      BY <2>2, <3>1 DEF Walks
    <3>2. CASE i # 0
      <4>1. i \in 1..n
        BY <2>1, <3>2
      <4> QED BY <1>2, <1>3, <2>1, <2>2, <4>1, WalkReachesParents
    <3> QED BY <3>1, <3>2
  <2> QED BY <1>2, <2>3, <2>4 DEF SamePrincipal
<1>8. OnePrincipal'
  BY <1>7 DEF OnePrincipal
<1> QED BY <1>5, <1>6, <1>8 DEF LineageInv

-----------------------------------------------------------------------------
LEMMA InitLineage == Init => LineageInv
<1> SUFFICES ASSUME Init PROVE LineageInv
  OBVIOUS
<1>1. IInv
  BY InitInv
<1>2. DepthHeld
  BY DEF Init, DepthHeld
<1>3. Shallow /\ OnePrincipal
  BY DEF Init, Empty, Shallow, OnePrincipal
<1> QED BY <1>1, <1>2, <1>3 DEF LineageInv

LEMMA NextLineage == LineageInv /\ [Next]_vars => LineageInv'
<1> SUFFICES ASSUME LineageInv, [Next]_vars PROVE LineageInv'
  OBVIOUS
<1>1. IInv /\ IInv'
  BY NextInv DEF LineageInv
<1>2. \A p \in Conns :
         pc[p] \in {"resolve", "insert"} /\ call[p].on # None =>
             Walks(continuation, call[p].on, HandoffLimit) = {}
  BY DEF LineageInv, DepthHeld
<1>3. ASSUME NEW p \in Conns, ConnStep(p) PROVE LineageInv'
  BY <1>1, <1>3, MoveKeepsLineage, CommitKeepsLineage DEF ConnStep, Moves
<1>4. CASE TableStep
  <2>1. UNCHANGED <<pc, call>>
    BY <1>4 DEF TableStep
  <2>2. CASE RetireSessions
    BY <1>1, <2>1, <2>2, RetireKeepsLineage
  <2>3. ASSUME NEW t \in DOMAIN conversation, SaveAnswer(t) \/ CloseRuntime(t) PROVE LineageInv'
    BY <1>1, <1>2, <2>1, <2>3, LinksKept DEF SaveAnswer, CloseRuntime
  <2>4. ASSUME NEW s \in DOMAIN session, RevokeSession(s) PROVE LineageInv'
    <3>1. session \in [DOMAIN session ->
            [delegator : Delegators, keys : Keys, expires : Nat, revoked : BOOLEAN]]
      BY <1>1 DEF IInv, TypeOK
    <3>2. /\ UNCHANGED continuation /\ DOMAIN session' = DOMAIN session
          /\ \A x \in DOMAIN session : /\ session'[x].delegator = session[x].delegator
                                       /\ session'[x].keys = session[x].keys
      BY <2>4, <3>1 DEF RevokeSession
    <3> QED BY <1>1, <1>2, <2>1, <3>2, LinksKept
  <2> QED BY <1>4, <2>2, <2>3, <2>4 DEF TableStep
<1>5. CASE (\E g \in Delegators \X Keys : ChangeGrant(g)) \/ Tick \/ UNCHANGED vars
  <2>1. UNCHANGED <<session, continuation, pc, call>>
    BY <1>5 DEF ChangeGrant, Tick, vars, tables
  <2> QED BY <1>1, <1>2, <2>1, LinksKept
<1> QED BY <1>3, <1>4, <1>5 DEF Next

LEMMA LineageInvariant == Spec => []LineageInv
<1> QED BY InitLineage, NextLineage, PTL DEF Spec

(* Every retained session keeps its whole ancestry, of one principal, and  *)
(* continues_on reaches all of it, however many handoffs, retirements and  *)
(* processes there are: 31 < 32 is what it takes (principals.py 118 and    *)
(* 183, migration 005).                                                    *)
THEOREM LineageStaysReachable == Spec => []LineageReachable
<1> QED BY LineageInvariant, LineageSuffices, PTL

(* No retained session is ever more handoffs away from its first one than  *)
(* the limit, however many are under way at once: the depth that one       *)
(* transaction counts is still the depth when it commits (principals.py    *)
(* 109-119).                                                               *)
THEOREM DepthStaysBounded ==
    Spec => [](\A s \in DOMAIN session : HandoffDepth(s) <= HandoffLimit)
<1>1. ASSUME LineageInv, NEW s \in DOMAIN session PROVE HandoffDepth(s) <= HandoffLimit
  <2> DEFINE S == {n \in 1..WalkLimit : Walks(continuation, s, n) # {}}
  <2>0. HandoffLimit \in Nat /\ WalkLimit \in Nat
    BY LimitAssumption
  <2>1. ASSUME NEW n \in S PROVE n \in 1..HandoffLimit
    <3> SUFFICES ASSUME HandoffLimit + 1 <= n PROVE FALSE
      BY <2>0
    <3>1. n \in Nat /\ HandoffLimit + 1 \in 0..n
      BY <2>0
    <3>2. Walks(continuation, s, HandoffLimit + 1) # {}
      BY <3>1, WalkPrefix
    <3> QED BY <1>1, <3>2 DEF LineageInv, Shallow
  <2>2. /\ IsFiniteSet(1..HandoffLimit) /\ Cardinality(1..HandoffLimit) = HandoffLimit
        /\ S \subseteq 1..HandoffLimit
    BY <2>0, <2>1, FS_Interval
  <2>3. Cardinality(S) <= Cardinality(1..HandoffLimit)
    <3> HIDE DEF S
    <3> QED BY <2>2, FS_Subset
  <2> QED BY <2>2, <2>3 DEF HandoffDepth
<1>2. LineageInv => \A s \in DOMAIN session : HandoffDepth(s) <= HandoffLimit
  BY <1>1
<1> QED BY <1>2, LineageInvariant, PTL
=============================================================================
