---------------------- MODULE PrincipalSessionsProofs -----------------------
(***************************************************************************)
(* Theorems of PrincipalSessions for every number of connections, sessions *)
(* and turns.  The inductive invariant says what each lock is good for:    *)
(* the advisory lock keeps a count true until it is used, FOR UPDATE keeps *)
(* a source alive and complete until it is revoked, and FOR SHARE keeps an *)
(* ask's session alive until its conversation is stored.                   *)
(***************************************************************************)
EXTENDS PrincipalSessions, FiniteSetTheorems, TLAPS

(* At most one connection is inside a namespace transaction. *)
OneNamespace ==
    \A p, q \in Conns : pc[p] \in OpenSteps /\ pc[q] \in OpenSteps => p = q

(* A handoff that holds its source FOR UPDATE excludes admissions under it. *)
RowLocks ==
    \A p, q \in Conns :
        pc[p] \in SourceLocked /\ pc[q] = "admit" /\ call[p].on # None
            => call[p].on # call[q].on

(* The arguments a transaction carries are of the kind its steps need. *)
CallOK ==
    \A p \in Conns :
        /\ pc[p] \in OpenSteps =>
             /\ call[p].delegator \in Delegators /\ call[p].keys \in Keys
             /\ call[p].on # None \/ pc[p] \notin {"resolve", "insert"} =>
                  call[p].on \in issued /\ call[p].request \in Requests
        /\ pc[p] = "admit" => call[p].on \in issued /\ call[p].request \in Turns

(* What a handoff has checked of its source stays true until it commits. *)
SourceHeld ==
    \A p \in Conns :
        LET s == call[p].on
        IN /\ pc[p] \in SourceLocked \cup {"lockSource"} /\ s # None =>
                \A c \in DOMAIN continuation : continuation[c].parent # s
           /\ pc[p] \in {"pending", "resolve", "insert"} /\ s # None =>
                /\ s \in DOMAIN session /\ ~session[s].revoked
                /\ session[s].delegator = call[p].delegator /\ session[s].keys = call[p].keys
           /\ pc[p] \in {"resolve", "insert"} /\ s # None => ~Pending(s)

(* The room a transaction counted is still there when it inserts. *)
RoomHeld ==
    \A p \in Conns :
        pc[p] = "insert" =>
            /\ Cardinality(DOMAIN session) < MaxSessions
            /\ Cardinality(Own(call[p].delegator)) < MaxDelegatorSessions

(* An ask's session outlives the ask's admission. *)
AdmitHeld ==
    \A p \in Conns :
        pc[p] = "admit" => call[p].on \in DOMAIN session /\ ~session[call[p].on].revoked

(* Retained links join two retained sessions of one principal and carry    *)
(* the child's id.                                                         *)
LinkOK ==
    \A c \in DOMAIN continuation :
        LET s == continuation[c].parent
        IN /\ {c, s} \subseteq DOMAIN session
           /\ session[s].revoked
           /\ session[s].delegator = session[c].delegator /\ session[s].keys = session[c].keys
           /\ c = HandoffId(session[c].delegator, s, continuation[c].request)
           /\ ~Pending(s)

(* Ids record their history: a handoff's source was issued before it and is *)
(* never unrevoked again.                                                   *)
IssuedOK ==
    \A id \in issued :
        \/ \E u \in FreshIds : id = UuidV4(u)
        \/ \E d \in Delegators, s \in issued, r \in Requests :
              /\ id = HandoffId(d, s, r)
              /\ s \in DOMAIN session => session[s].revoked

IInv ==
    /\ TypeOK /\ CapacityBound /\ OneSuccessor /\ RetiredQuiescent
    /\ OneNamespace /\ RowLocks /\ CallOK /\ SourceHeld /\ RoomHeld
    /\ AdmitHeld /\ LinkOK /\ IssuedOK

-----------------------------------------------------------------------------
(* The types of the control state alone, and of the tables alone. *)
ControlTypeOK ==
    /\ pc \in [Conns -> Steps]
    /\ call \in [Conns -> [delegator : Delegators \cup {None}, keys : Keys \cup {None},
                           on : issued \cup {None}, request : Requests \cup Turns \cup {None}]]
    /\ reply \in issued \cup {None}

(* Every step of a connection leaves the control state well typed. *)
LEMMA ControlType ==
    ASSUME IInv, NEW p \in Conns, ConnStep(p)
    PROVE  ControlTypeOK'
<1>0. /\ ControlTypeOK /\ TypeOK /\ CallOK /\ SourceHeld
      /\ issued \subseteq issued'
  BY DEF IInv, TypeOK, ControlTypeOK, ConnStep, OpenBegin, FindContinuation, LockSource,
         RequireSource, CheckPending, Resolve, CommitOpen, AskBegin, CommitAsk, Abort, Check
<1>1. CASE OpenBegin(p)
  <2>1. ASSUME NEW step \in OpenSteps,
               NEW c \in [delegator : Delegators \cup {None}, keys : Keys \cup {None},
                          on : issued \cup {None}, request : Requests \cup Turns \cup {None}],
               Begin(p, step, c), UNCHANGED issued
        PROVE  ControlTypeOK'
    BY <1>0, <2>1 DEF Begin, ControlTypeOK, Steps
  <2>2. PICK d \in Delegators, k \in Keys :
             \/ Begin(p, "resolve", [NoCall EXCEPT !.delegator = d, !.keys = k])
             \/ \E s \in issued, r \in Requests :
                  Begin(p, "find", [delegator |-> d, keys |-> k, on |-> s, request |-> r])
    BY <1>1 DEF OpenBegin
  <2> QED BY <1>1, <2>1, <2>2 DEF OpenBegin, NoCall, OpenSteps
<1>2. CASE FindContinuation(p)
  <2>1. ASSUME NEW id \in issued \cup {None}, End(p, id), UNCHANGED issued
        PROVE  ControlTypeOK'
    BY <1>0, <2>1 DEF End, NoCall, ControlTypeOK, Steps
  <2>2. ASSUME Check(p, TRUE, "lockSource") PROVE ControlTypeOK'
    BY <1>0, <2>2 DEF Check, ControlTypeOK, Steps, OpenSteps
  <2>3. CASE Check(p, TRUE, "lockSource")
    BY <2>2, <2>3
  <2>4. CASE End(p, None) /\ UNCHANGED issued
    BY <2>1, <2>4
  <2>5. PICK id : id = HandoffId(call[p].delegator, call[p].on, call[p].request)
    OBVIOUS
  <2>6. CASE id \in DOMAIN continuation /\ End(p, id) /\ UNCHANGED issued
    BY <1>0, <2>1, <2>6 DEF TypeOK
  <2> QED BY <1>2, <2>3, <2>4, <2>5, <2>6 DEF FindContinuation
<1>3. CASE LockSource(p)
  BY <1>0, <1>3 DEF LockSource, Check, End, NoCall, ControlTypeOK, Steps, OpenSteps
<1>4. CASE RequireSource(p)
  BY <1>0, <1>4 DEF RequireSource, Check, End, NoCall, ControlTypeOK, Steps, OpenSteps
<1>5. CASE CheckPending(p)
  BY <1>0, <1>5 DEF CheckPending, Check, End, NoCall, ControlTypeOK, Steps, OpenSteps
<1>6. CASE Resolve(p)
  BY <1>0, <1>6 DEF Resolve, Check, End, NoCall, ControlTypeOK, Steps, OpenSteps
<1>7. CASE CommitOpen(p)
  BY <1>0, <1>7 DEF CommitOpen, End, NoCall, ControlTypeOK, Steps, OpenSteps
<1>8. CASE AskBegin(p)
  BY <1>0, <1>8 DEF AskBegin, Begin, Valid, ControlTypeOK, TypeOK, Steps, OpenSteps
<1>9. CASE CommitAsk(p)
  BY <1>0, <1>9 DEF CommitAsk, End, NoCall, ControlTypeOK, Steps, OpenSteps
<1>10. CASE Abort(p)
  BY <1>0, <1>10 DEF Abort, End, NoCall, ControlTypeOK, Steps, OpenSteps
<1> QED BY <1>1, <1>2, <1>3, <1>4, <1>5, <1>6, <1>7, <1>8, <1>9, <1>10 DEF ConnStep

-----------------------------------------------------------------------------
(* The steps that only move one connection and write no table. *)
Moves(p) ==
    \/ OpenBegin(p) \/ FindContinuation(p) \/ LockSource(p) \/ RequireSource(p)
    \/ CheckPending(p) \/ Resolve(p) \/ AskBegin(p) \/ Abort(p)

LEMMA MoveLeavesTables ==
    ASSUME NEW p \in Conns, Moves(p)
    PROVE  UNCHANGED <<session, continuation, conversation, granted, now, issued>>
BY DEF Moves, OpenBegin, FindContinuation, LockSource, RequireSource, CheckPending, Resolve,
       AskBegin, Abort, Check, tables

(* A connection other than the one that steps keeps its place. *)
LEMMA OthersKeepPlace ==
    ASSUME IInv, NEW p \in Conns, ConnStep(p), NEW q \in Conns, q # p
    PROVE  pc'[q] = pc[q] /\ call'[q] = call[q]
BY DEF IInv, TypeOK, ConnStep, OpenBegin, FindContinuation, LockSource, RequireSource,
       CheckPending, Resolve, CommitOpen, AskBegin, CommitAsk, Abort, Begin, End, Check

(* Where a step can leave the connection that takes it. *)
LEMMA StepTargets ==
    ASSUME IInv, NEW p \in Conns, ConnStep(p)
    PROVE  /\ pc'[p] \in OpenSteps \ {"find", "resolve"} =>
                pc[p] \in OpenSteps /\ call'[p] = call[p]
           /\ pc'[p] \in {"find", "resolve"} =>
                \/ OpenBegin(p)
                \/ pc[p] = "pending" /\ call'[p] = call[p]
           /\ pc'[p] = "admit" => AskBegin(p)
<1>1. pc \in [Conns -> Steps] /\ call \in [Conns -> [delegator : Delegators \cup {None}, keys : Keys \cup {None},
                           on : issued \cup {None}, request : Requests \cup Turns \cup {None}]]
  BY DEF IInv, TypeOK
<1>2. CASE OpenBegin(p)
  BY <1>1, <1>2 DEF OpenBegin, Begin, OpenSteps
<1>3. CASE AskBegin(p)
  BY <1>1, <1>3 DEF AskBegin, Begin, OpenSteps
<1>4. CASE FindContinuation(p) \/ LockSource(p) \/ RequireSource(p) \/ CheckPending(p) \/ Resolve(p)
  BY <1>1, <1>4 DEF FindContinuation, LockSource, RequireSource, CheckPending, Resolve, Check, End, OpenSteps
<1>5. CASE CommitOpen(p) \/ CommitAsk(p) \/ Abort(p)
  BY <1>1, <1>5 DEF CommitOpen, CommitAsk, Abort, End, OpenSteps
<1> QED BY <1>2, <1>3, <1>4, <1>5 DEF ConnStep

(* The locks exclude each other after every step of a connection. *)
LEMMA LocksHold ==
    ASSUME IInv, NEW p \in Conns, ConnStep(p)
    PROVE  OneNamespace' /\ RowLocks'
<1>1. OneNamespace'
  <2>1. SUFFICES ASSUME NEW q \in Conns, q # p, pc'[q] \in OpenSteps, pc'[p] \in OpenSteps
                 PROVE  FALSE
    BY OthersKeepPlace DEF OneNamespace, IInv
  <2>2. pc[q] \in OpenSteps
    BY <2>1, OthersKeepPlace
  <2>3. OpenBegin(p) \/ pc[p] \in OpenSteps
    BY <2>1, StepTargets DEF OpenSteps
  <2> QED BY <2>1, <2>2, <2>3 DEF OpenBegin, AdvisoryLock, IInv, OneNamespace
<1>2. RowLocks'
  <2> SUFFICES ASSUME NEW q \in Conns, NEW r \in Conns,
                      pc'[q] \in SourceLocked, pc'[r] = "admit", call'[q].on # None
               PROVE  call'[q].on # call'[r].on
    BY DEF RowLocks
  <2>1. q # r
    BY DEF SourceLocked
  <2>2. CASE q # p /\ r # p
    BY <2>2, OthersKeepPlace DEF IInv, RowLocks
  <2>3. CASE q = p
    <3>1. pc[r] = "admit" /\ call'[r].on = call[r].on
      BY <2>1, <2>3, OthersKeepPlace
    <3>2. CASE pc[p] \in SourceLocked /\ call'[p] = call[p]
      BY <2>3, <3>1, <3>2 DEF IInv, RowLocks
    <3>3. CASE LockSource(p)
      BY <2>1, <2>3, <3>1, <3>3 DEF LockSource, RowShare, Check, IInv, TypeOK, End
    <3>4. CASE OpenBegin(p)
      BY <2>3, <3>4 DEF OpenBegin, Begin, NoCall, SourceLocked, IInv, TypeOK
    <3>5. CASE pc'[p] \notin SourceLocked
      BY <2>3, <3>5
    <3>6. CASE FindContinuation(p) \/ AskBegin(p) \/ CommitOpen(p) \/ CommitAsk(p) \/ Abort(p)
      <4>1. pc'[p] \in {"lockSource", "idle", "admit"}
        BY <3>6 DEF FindContinuation, AskBegin, CommitOpen, CommitAsk, Abort, Begin, Check, End,
                    IInv, TypeOK
      <4> QED BY <4>1, <3>5 DEF SourceLocked
    <3>7. CASE RequireSource(p) \/ CheckPending(p) \/ Resolve(p)
      <4>1. pc[p] \in SourceLocked /\ (pc'[p] = "idle" \/ call'[p] = call[p])
        BY <3>7 DEF RequireSource, CheckPending, Resolve, Check, End, SourceLocked, IInv, TypeOK
      <4> QED BY <4>1, <3>2, <3>5 DEF SourceLocked
    <3> QED BY <3>3, <3>4, <3>6, <3>7 DEF ConnStep
  <2>4. CASE r = p
    <3>1. AskBegin(p) /\ pc[q] \in SourceLocked /\ call'[q].on = call[q].on
      BY <2>1, <2>4, StepTargets, OthersKeepPlace
    <3> QED BY <2>1, <2>4, <3>1 DEF AskBegin, RowExclusive, Begin, IInv, TypeOK
  <2> QED BY <2>2, <2>3, <2>4
<1> QED BY <1>1, <1>2

(* Arguments stay of the right kind. *)
LEMMA CallKept ==
    ASSUME IInv, NEW p \in Conns, ConnStep(p)
    PROVE  CallOK'
<1>1. SUFFICES ASSUME NEW q \in Conns
               PROVE  (/\ pc[q] \in OpenSteps =>
                            /\ call[q].delegator \in Delegators /\ call[q].keys \in Keys
                            /\ call[q].on # None \/ pc[q] \notin {"resolve", "insert"} =>
                                 call[q].on \in issued /\ call[q].request \in Requests
                       /\ pc[q] = "admit" => call[q].on \in issued /\ call[q].request \in Turns)'
  BY DEF CallOK
<1>2. issued \subseteq issued'
  BY DEF ConnStep, OpenBegin, FindContinuation, LockSource, RequireSource, CheckPending, Resolve,
         CommitOpen, AskBegin, CommitAsk, Abort, Check
<1>3. CASE q # p
  BY <1>2, <1>3, OthersKeepPlace DEF IInv, CallOK
<1>4. CASE q = p /\ OpenBegin(p)
  <2>1. PICK d \in Delegators, k \in Keys :
             \/ Begin(p, "resolve", [NoCall EXCEPT !.delegator = d, !.keys = k])
             \/ \E s \in issued, r \in Requests :
                  Begin(p, "find", [delegator |-> d, keys |-> k, on |-> s, request |-> r])
    BY <1>4 DEF OpenBegin
  <2>2. CASE Begin(p, "resolve", [NoCall EXCEPT !.delegator = d, !.keys = k])
    BY <1>4, <2>2 DEF Begin, NoCall, OpenSteps, IInv, TypeOK
  <2>3. CASE \E s \in issued, r \in Requests :
               Begin(p, "find", [delegator |-> d, keys |-> k, on |-> s, request |-> r])
    BY <1>2, <1>4, <2>3 DEF Begin, OpenSteps, IInv, TypeOK
  <2> QED BY <2>1, <2>2, <2>3
<1>5. CASE q = p /\ AskBegin(p)
  BY <1>5 DEF AskBegin, Begin, OpenSteps, IInv, TypeOK
<1>6. CASE q = p /\ (FindContinuation(p) \/ LockSource(p) \/ RequireSource(p)
                    \/ CheckPending(p) \/ Resolve(p))
  BY <1>6 DEF FindContinuation, LockSource, RequireSource, CheckPending, Resolve, Check, End,
              OpenSteps, IInv, TypeOK, CallOK
<1>7. CASE q = p /\ (CommitOpen(p) \/ CommitAsk(p) \/ Abort(p))
  BY <1>7 DEF CommitOpen, CommitAsk, Abort, End, OpenSteps, IInv, TypeOK
<1> QED BY <1>3, <1>4, <1>5, <1>6, <1>7 DEF ConnStep

(* The reads of a transaction establish what its later statements rely on. *)
LEMMA MoveHolds ==
    ASSUME IInv, NEW p \in Conns, Moves(p)
    PROVE  SourceHeld' /\ RoomHeld' /\ AdmitHeld'
<1>1. ConnStep(p)
  BY DEF Moves, ConnStep
<1>2. UNCHANGED <<session, continuation, conversation>>
  BY MoveLeavesTables
<1>3. \A s : Pending(s)' = Pending(s)
  BY <1>2 DEF Pending, TurnsOf
<1>4. \A d : Own(d)' = Own(d)
  BY <1>2 DEF Own
<1>5. pc \in [Conns -> Steps] /\ call \in [Conns -> [delegator : Delegators \cup {None}, keys : Keys \cup {None},
                           on : issued \cup {None}, request : Requests \cup Turns \cup {None}]]
  BY DEF IInv, TypeOK
<1>6. SourceHeld'
  <2>1. SUFFICES ASSUME NEW q \in Conns, call'[q].on # None
                 PROVE  /\ pc'[q] \in SourceLocked \cup {"lockSource"} =>
                             \A c \in DOMAIN continuation : continuation[c].parent # call'[q].on
                        /\ pc'[q] \in {"pending", "resolve", "insert"} =>
                             /\ call'[q].on \in DOMAIN session /\ ~session[call'[q].on].revoked
                             /\ session[call'[q].on].delegator = call'[q].delegator
                             /\ session[call'[q].on].keys = call'[q].keys
                        /\ pc'[q] \in {"resolve", "insert"} => ~Pending(call'[q].on)
    BY <1>2, <1>3 DEF SourceHeld
  <2>2. CASE q # p
    BY <1>1, <2>1, <2>2, OthersKeepPlace DEF IInv, SourceHeld
  <2>3. CASE q = p /\ OpenBegin(p)
    BY <1>5, <2>1, <2>3 DEF OpenBegin, Begin, NoCall, SourceLocked
  <2>4. CASE q = p /\ FindContinuation(p)
    BY <1>5, <2>1, <2>4 DEF FindContinuation, Check, End, SourceLocked
  <2>5. CASE q = p /\ LockSource(p)
    BY <1>5, <2>1, <2>5 DEF LockSource, Check, End, SourceLocked, IInv, SourceHeld
  <2>6. CASE q = p /\ RequireSource(p)
    BY <1>5, <2>1, <2>6 DEF RequireSource, Valid, Check, End, SourceLocked, IInv, SourceHeld
  <2>7. CASE q = p /\ CheckPending(p)
    BY <1>5, <2>1, <2>7 DEF CheckPending, Check, End, SourceLocked, IInv, SourceHeld
  <2>8. CASE q = p /\ Resolve(p)
    BY <1>5, <2>1, <2>8 DEF Resolve, Check, End, SourceLocked, IInv, SourceHeld
  <2>9. CASE q = p /\ (AskBegin(p) \/ Abort(p))
    BY <1>5, <2>1, <2>9 DEF AskBegin, Abort, Begin, End, SourceLocked
  <2> QED BY <2>2, <2>3, <2>4, <2>5, <2>6, <2>7, <2>8, <2>9 DEF Moves
<1>7. RoomHeld'
  <2>1. SUFFICES ASSUME NEW q \in Conns, pc'[q] = "insert"
                 PROVE  /\ Cardinality(DOMAIN session) < MaxSessions
                        /\ Cardinality(Own(call'[q].delegator)) < MaxDelegatorSessions
    BY <1>2, <1>4 DEF RoomHeld
  <2>2. CASE q # p
    BY <1>1, <2>1, <2>2, OthersKeepPlace DEF IInv, RoomHeld
  <2>3. CASE q = p
    <3>1. Resolve(p)
      BY <1>5, <2>1, <2>3 DEF Moves, OpenBegin, FindContinuation, LockSource, RequireSource,
             CheckPending, AskBegin, Abort, Begin, Check, End
    <3> QED BY <1>5, <2>1, <2>3, <3>1 DEF Resolve, Check, End
  <2> QED BY <2>2, <2>3
<1>8. AdmitHeld'
  <2>1. SUFFICES ASSUME NEW q \in Conns, pc'[q] = "admit"
                 PROVE  call'[q].on \in DOMAIN session /\ ~session[call'[q].on].revoked
    BY <1>2 DEF AdmitHeld
  <2>2. CASE q # p
    BY <1>1, <2>1, <2>2, OthersKeepPlace DEF IInv, AdmitHeld
  <2>3. CASE q = p
    <3>1. AskBegin(p)
      BY <1>1, <2>1, <2>3, StepTargets
    <3> QED BY <1>5, <2>1, <2>3, <3>1 DEF AskBegin, Valid, Begin
  <2> QED BY <2>2, <2>3
<1> QED BY <1>6, <1>7, <1>8

(* What only speaks of the tables survives any step that leaves them alone. *)
LEMMA TableFactsKept ==
    ASSUME IInv, UNCHANGED <<session, continuation, conversation, issued>>
    PROVE  CapacityBound' /\ OneSuccessor' /\ RetiredQuiescent' /\ LinkOK' /\ IssuedOK'
BY DEF IInv, CapacityBound, OneSuccessor, RetiredQuiescent, LinkOK, IssuedOK, Own, Pending, TurnsOf

LEMMA MovePreserves ==
    ASSUME IInv, NEW p \in Conns, Moves(p)
    PROVE  IInv'
<1>1. ConnStep(p)
  BY DEF Moves, ConnStep
<1>2. TypeOK'
  BY <1>1, ControlType, MoveLeavesTables DEF IInv, TypeOK, ControlTypeOK
<1>3. CapacityBound' /\ OneSuccessor' /\ RetiredQuiescent' /\ LinkOK' /\ IssuedOK'
  BY MoveLeavesTables, TableFactsKept
<1> QED BY <1>1, <1>2, <1>3, LocksHold, CallKept, MoveHolds DEF IInv

-----------------------------------------------------------------------------
(* The commit of open: a new row, and for a handoff a revoked source with  *)
(* its link.                                                               *)
Committed(p, id) ==
    LET c == call[p]
    IN /\ pc[p] = "insert"
       /\ c.on # None => id = HandoffId(c.delegator, c.on, c.request)
       /\ c.on = None => \E u \in FreshIds : id = UuidV4(u)
       /\ id \notin issued /\ id \notin DOMAIN session
       /\ DOMAIN session' = DOMAIN session \cup {id}
       /\ session'[id] = NewSession(c)
       /\ \A x \in DOMAIN session :
            session'[x] = IF x = c.on /\ c.on # None
                          THEN [session[x] EXCEPT !.revoked = TRUE] ELSE session[x]
       /\ IF c.on = None THEN continuation' = continuation
          ELSE continuation' = Put(continuation, id, [parent |-> c.on, request |-> c.request])
       /\ issued' = issued \cup {id}
       /\ session' = [x \in DOMAIN session' |-> session'[x]]
       /\ End(p, id)
       /\ UNCHANGED <<conversation, granted, now>>

LEMMA CommitEffect ==
    ASSUME IInv, NEW p \in Conns, CommitOpen(p)
    PROVE  \E id : Committed(p, id)
<1> DEFINE c == call[p]
           id(u) == IF c.on = None THEN UuidV4(u) ELSE HandoffId(c.delegator, c.on, c.request)
<1>1. PICK u \in FreshIds :
         /\ c.on = None => UuidV4(u) \notin issued
         /\ ~Conflict(id(u), c.on)
         /\ IF c.on = None
            THEN /\ session' = Put(session, id(u), NewSession(c))
                 /\ UNCHANGED continuation
            ELSE /\ session' = Put([session EXCEPT ![c.on].revoked = TRUE],
                                   id(u), NewSession(c))
                 /\ continuation' = Put(continuation, id(u),
                                        [parent |-> c.on, request |-> c.request])
         /\ issued' = issued \cup {id(u)}
         /\ End(p, id(u))
  BY DEF CommitOpen
<1>2. pc[p] = "insert" /\ UNCHANGED <<conversation, granted, now>>
  BY DEF CommitOpen
<1>3. c.on # None => /\ c.on \in DOMAIN session /\ ~session[c.on].revoked
                     /\ c.delegator \in Delegators /\ c.on \in issued
  BY <1>2 DEF IInv, SourceHeld, CallOK, OpenSteps
<1>4. id(u) \notin issued
  <2>1. CASE c.on = None
    BY <1>1, <2>1
  <2>2. CASE c.on # None
    BY <1>3, <2>2, NoneAssumption DEF IInv, IssuedOK, HandoffId, UuidV4
  <2> QED BY <2>1, <2>2
<1>5. id(u) \notin DOMAIN session
  BY <1>1 DEF Conflict
<1>6. session = [x \in DOMAIN session |-> session[x]]
  BY DEF IInv, TypeOK
<1>7. /\ DOMAIN session' = DOMAIN session \cup {id(u)}
      /\ session'[id(u)] = NewSession(c)
      /\ \A x \in DOMAIN session :
            session'[x] = IF x = c.on /\ c.on # None
                          THEN [session[x] EXCEPT !.revoked = TRUE] ELSE session[x]
      /\ session' = [x \in DOMAIN session' |-> session'[x]]
  <2> HIDE DEF id
  <2>1. CASE c.on = None
    BY <1>1, <1>5, <1>6, <2>1 DEF Put
  <2>2. CASE c.on # None
    BY <1>1, <1>3, <1>5, <1>6, <2>2 DEF Put
  <2> QED BY <2>1, <2>2
<1>8. Committed(p, id(u))
  BY <1>1, <1>2, <1>4, <1>5, <1>7 DEF Committed
<1> QED BY <1>8

(* Everything the committing transaction read still holds when it writes. *)
LEMMA CommitFacts ==
    ASSUME IInv, NEW p \in Conns, NEW id, Committed(p, id)
    PROVE  /\ call[p].delegator \in Delegators /\ call[p].keys \in Keys
           /\ Cardinality(DOMAIN session) < MaxSessions
           /\ Cardinality(Own(call[p].delegator)) < MaxDelegatorSessions
           /\ call[p].on # None =>
                /\ call[p].on \in issued /\ call[p].request \in Requests
                /\ call[p].on \in DOMAIN session /\ ~session[call[p].on].revoked
                /\ session[call[p].on].delegator = call[p].delegator
                /\ session[call[p].on].keys = call[p].keys
                /\ ~Pending(call[p].on)
                /\ \A c \in DOMAIN continuation : continuation[c].parent # call[p].on
BY DEF Committed, IInv, CallOK, SourceHeld, RoomHeld, OpenSteps, SourceLocked

LEMMA CommitTypes ==
    ASSUME IInv, NEW p \in Conns, NEW id, Committed(p, id)
    PROVE  /\ TypeOK'
           /\ \A x \in DOMAIN session :
                /\ session'[x].delegator = session[x].delegator
                /\ session'[x].keys = session[x].keys
                /\ session[x].revoked => session'[x].revoked
                /\ x # call[p].on => session'[x] = session[x]
                /\ x = call[p].on /\ call[p].on # None => session'[x].revoked
<1> DEFINE Row == [delegator : Delegators, keys : Keys, expires : Nat, revoked : BOOLEAN]
           Link(I) == [parent : I, request : Requests]
<1>1. TypeOK
  BY DEF IInv
<1>2. /\ call[p].delegator \in Delegators /\ call[p].keys \in Keys
      /\ call[p].on # None => call[p].on \in issued /\ call[p].request \in Requests
  BY CommitFacts
<1>3. \A x \in DOMAIN session : session[x] \in Row
  BY <1>1 DEF TypeOK
<1>4. session'[id] \in Row
  BY <1>1, <1>2, ClockAssumption DEF Committed, NewSession, TypeOK
<1>5. \A x \in DOMAIN session :
        /\ session'[x] \in Row
        /\ session'[x].delegator = session[x].delegator
        /\ session'[x].keys = session[x].keys
        /\ session[x].revoked => session'[x].revoked
        /\ x # call[p].on => session'[x] = session[x]
        /\ x = call[p].on /\ call[p].on # None => session'[x].revoked
  BY <1>3 DEF Committed
<1>6. session' \in [DOMAIN session' -> Row]
  BY <1>4, <1>5 DEF Committed
<1>7. DOMAIN session' \subseteq issued' /\ IsFiniteSet(issued')
  BY <1>1, FS_AddElement DEF Committed, TypeOK
<1>8. continuation' \in [DOMAIN continuation' -> Link(issued')] /\ DOMAIN continuation' \subseteq issued'
  <2>1. \A c \in DOMAIN continuation : continuation[c] \in Link(issued')
    BY <1>1 DEF TypeOK, Committed
  <2>2. CASE call[p].on = None
    BY <1>1, <2>1, <2>2 DEF TypeOK, Committed
  <2>3. CASE call[p].on # None
    <3>1. [parent |-> call[p].on, request |-> call[p].request] \in Link(issued')
      BY <1>2, <2>3 DEF Committed
    <3>2. continuation' = Put(continuation, id, [parent |-> call[p].on, request |-> call[p].request])
      BY <2>3 DEF Committed
    <3>3. DOMAIN continuation \subseteq issued /\ issued' = issued \cup {id}
      BY <1>1 DEF TypeOK, Committed
    <3>4. DOMAIN continuation' = DOMAIN continuation \cup {id}
      BY <3>2 DEF Put
    <3>5. ASSUME NEW x \in DOMAIN continuation' PROVE continuation'[x] \in Link(issued')
      <4> HIDE DEF Link
      <4> QED BY <2>1, <3>1, <3>2, <3>4, <3>5 DEF Put
    <3>6. continuation' = [x \in DOMAIN continuation' |-> continuation'[x]]
      BY <3>2 DEF Put
    <3> HIDE DEF Link
    <3> QED BY <3>3, <3>4, <3>5, <3>6
  <2> QED BY <2>2, <2>3
<1>9. conversation' \in [DOMAIN conversation' ->
         [session : issued', answered : BOOLEAN, closed : BOOLEAN, ended : Nat \cup {None}]]
      /\ DOMAIN conversation' \subseteq Turns
      /\ granted' \subseteq Delegators \X Keys /\ now' \in Nat
  BY <1>1 DEF TypeOK, Committed
<1>10. ControlTypeOK'
  BY <1>1 DEF TypeOK, Committed, End, NoCall, ControlTypeOK, Steps
<1> QED BY <1>5, <1>6, <1>7, <1>8, <1>9, <1>10 DEF TypeOK, ControlTypeOK

(* The new row fits where it was counted to fit. *)
LEMMA CommitFits ==
    ASSUME IInv, NEW p \in Conns, NEW id, Committed(p, id)
    PROVE  CapacityBound'
<1>1. IsFiniteSet(DOMAIN session)
  BY FS_Subset DEF IInv, TypeOK
<1>2. Cardinality(DOMAIN session') = Cardinality(DOMAIN session) + 1
  BY <1>1, FS_AddElement DEF Committed
<1>3. ASSUME NEW d \in Delegators
      PROVE  Cardinality(Own(d)') <= MaxDelegatorSessions
  <2>1. Own(d) \subseteq DOMAIN session /\ IsFiniteSet(Own(d)) /\ id \notin Own(d)
    BY <1>1, FS_Subset DEF Own, Committed
  <2>2. CASE d = call[p].delegator
    <3>1. Own(d)' = Own(d) \cup {id}
      BY <2>2, CommitTypes DEF Own, Committed, NewSession
    <3>2. Cardinality(Own(d)') = Cardinality(Own(d)) + 1
      BY <2>1, <3>1, FS_AddElement
    <3>3. Cardinality(Own(d)) < MaxDelegatorSessions /\ Cardinality(Own(d)) \in Nat
      BY <2>1, <2>2, CommitFacts, FS_CardinalityType
    <3> QED BY <3>2, <3>3, CapacityAssumption
  <2>3. CASE d # call[p].delegator
    <3>1. Own(d)' = Own(d)
      BY <2>3, CommitTypes DEF Own, Committed, NewSession
    <3> QED BY <3>1 DEF IInv, CapacityBound
  <2> QED BY <2>2, <2>3
<1> QED BY <1>1, <1>2, <1>3, FS_CardinalityType, CommitFacts, CapacityAssumption DEF CapacityBound

LEMMA CommitOpenPreserves ==
    ASSUME IInv, NEW p \in Conns, CommitOpen(p)
    PROVE  IInv'
<1>1. PICK id : Committed(p, id)
  BY CommitEffect
<1>2. ConnStep(p)
  BY DEF ConnStep
<1> DEFINE c == call[p]
<1>3. \A x \in DOMAIN session :
        /\ session'[x].delegator = session[x].delegator
        /\ session'[x].keys = session[x].keys
        /\ session[x].revoked => session'[x].revoked
        /\ x # c.on => session'[x] = session[x]
        /\ x = c.on /\ c.on # None => session'[x].revoked
  BY <1>1, CommitTypes
<1>4. \A s : Pending(s)' = Pending(s)
  BY <1>1 DEF Committed, Pending, TurnsOf
<1>5. OneSuccessor'
  <2>1. SUFFICES ASSUME NEW d1 \in Delegators, NEW d2 \in Delegators,
                        NEW r1 \in Requests, NEW r2 \in Requests, NEW s \in issued',
                        HandoffId(d1, s, r1) \in issued', HandoffId(d2, s, r2) \in issued'
                 PROVE  d1 = d2 /\ r1 = r2
    BY DEF OneSuccessor
  <2>2. issued' = issued \cup {id} /\ id \notin issued /\ id \notin DOMAIN session
    BY <1>1 DEF Committed
  <2>3. IssuedOK
    BY DEF IInv
  <2>4. CASE c.on = None
    <3>1. \A d \in Delegators : \A x, r : HandoffId(d, x, r) # id
      BY <1>1, <2>4, NoneAssumption DEF Committed, HandoffId, UuidV4
    <3>2. s \in issued
      BY <2>1, <2>2, <2>3, <3>1, NoneAssumption DEF IssuedOK, HandoffId, UuidV4
    <3> QED BY <2>1, <2>2, <3>1, <3>2 DEF IInv, OneSuccessor
  <2>5. CASE c.on # None
    <3>1. id = HandoffId(c.delegator, c.on, c.request) /\ c.on \in DOMAIN session /\ ~session[c.on].revoked
          /\ c.on \in issued
      BY <1>1, <2>5, CommitFacts DEF Committed
    <3>2. s \in issued
      <4>1. CASE HandoffId(d1, s, r1) = id
        BY <3>1, <4>1 DEF HandoffId
      <4>2. CASE HandoffId(d1, s, r1) \in issued
        BY <2>3, <4>2, NoneAssumption DEF IssuedOK, HandoffId, UuidV4
      <4> QED BY <2>1, <2>2, <4>1, <4>2
    <3>3. \A d \in Delegators : \A r : HandoffId(d, c.on, r) \notin issued
      BY <2>3, <3>1, NoneAssumption DEF IssuedOK, HandoffId, UuidV4
    <3>4. CASE s = c.on
      BY <2>1, <2>2, <3>1, <3>3, <3>4 DEF HandoffId
    <3>5. CASE s # c.on
      <4>1. HandoffId(d1, s, r1) # id /\ HandoffId(d2, s, r2) # id
        BY <3>1, <3>5 DEF HandoffId
      <4> QED BY <2>1, <2>2, <3>2, <4>1 DEF IInv, OneSuccessor
    <3> QED BY <3>4, <3>5
  <2> QED BY <2>4, <2>5
<1>6. RetiredQuiescent'
  BY <1>1 DEF Committed, IInv, RetiredQuiescent
<1>7. LinkOK'
  <2>1. SUFFICES ASSUME NEW x \in DOMAIN continuation'
                 PROVE  LET s == continuation'[x].parent
                        IN /\ {x, s} \subseteq DOMAIN session'
                           /\ session'[s].revoked
                           /\ session'[s].delegator = session'[x].delegator
                           /\ session'[s].keys = session'[x].keys
                           /\ x = HandoffId(session'[x].delegator, s, continuation'[x].request)
                           /\ ~Pending(s)
    BY <1>4 DEF LinkOK
  <2>2. CASE x = id
    <3>1. c.on # None
      BY <1>1, <2>1, <2>2 DEF Committed, IInv, LinkOK
    <3>2. continuation'[x] = [parent |-> c.on, request |-> c.request]
      BY <1>1, <2>2, <3>1 DEF Committed, Put
    <3> QED BY <1>1, <1>3, <2>2, <3>1, <3>2, CommitFacts DEF Committed, NewSession
  <2>3. CASE x # id
    <3>1. x \in DOMAIN continuation /\ continuation'[x] = continuation[x]
      BY <1>1, <2>1, <2>3 DEF Committed, Put
    <3> QED BY <1>1, <1>3, <3>1 DEF Committed, IInv, LinkOK
  <2> QED BY <2>2, <2>3
<1>8. IssuedOK'
  <2>1. SUFFICES ASSUME NEW x \in issued'
                 PROVE  \/ \E u \in FreshIds : x = UuidV4(u)
                        \/ \E d \in Delegators, s \in issued', r \in Requests :
                              /\ x = HandoffId(d, s, r)
                              /\ s \in DOMAIN session' => session'[s].revoked
    BY DEF IssuedOK
  <2>2. CASE x = id
    BY <1>1, <1>3, <2>2, CommitFacts DEF Committed
  <2>3. CASE x \in issued
    BY <1>1, <1>3, <2>3 DEF Committed, IInv, IssuedOK
  <2> QED BY <1>1, <2>2, <2>3 DEF Committed
<1>9. pc'[p] = "idle" /\ \A q \in Conns : pc'[q] \notin OpenSteps
  <2>1. pc'[p] = "idle"
    BY <1>1 DEF Committed, End, IInv, TypeOK
  <2>2. ASSUME NEW q \in Conns, q # p PROVE pc'[q] \notin OpenSteps
    BY <1>1, <1>2, <2>2, OthersKeepPlace DEF Committed, IInv, OneNamespace, OpenSteps
  <2> QED BY <2>1, <2>2 DEF OpenSteps
<1>10. SourceHeld' /\ RoomHeld'
  BY <1>9 DEF SourceHeld, RoomHeld, SourceLocked, OpenSteps
<1>11. AdmitHeld'
  <2>1. SUFFICES ASSUME NEW q \in Conns, pc'[q] = "admit"
                 PROVE  call'[q].on \in DOMAIN session' /\ ~session'[call'[q].on].revoked
    BY DEF AdmitHeld
  <2>2. q # p /\ pc[q] = "admit" /\ call'[q] = call[q]
    BY <1>2, <1>9, <2>1, OthersKeepPlace
  <2>3. call[q].on \in DOMAIN session /\ ~session[call[q].on].revoked
    BY <2>2 DEF IInv, AdmitHeld
  <2>4. session'[call[q].on] = session[call[q].on]
    <3>1. CASE c.on = None
      BY <1>1, <2>3, <3>1 DEF Committed
    <3>2. CASE c.on # None
      BY <1>1, <1>3, <2>2, <2>3, <3>2 DEF Committed, IInv, RowLocks, SourceLocked
    <3> QED BY <3>1, <3>2
  <2> QED BY <1>1, <2>2, <2>3, <2>4 DEF Committed
<1> QED BY <1>1, <1>2, <1>5, <1>6, <1>7, <1>8, <1>10, <1>11,
           CommitTypes, CommitFits, LocksHold, CallKept DEF IInv

-----------------------------------------------------------------------------
(* Admission stores a conversation under a session that is still there. *)
LEMMA CommitAskPreserves ==
    ASSUME IInv, NEW p \in Conns, CommitAsk(p)
    PROVE  IInv'
<1> DEFINE s == call[p].on
           Row(I) == [session : I, answered : BOOLEAN, closed : BOOLEAN, ended : Nat \cup {None}]
<1>1. ConnStep(p) /\ pc[p] = "admit" /\ UNCHANGED <<session, continuation, granted, now, issued>>
  BY DEF ConnStep, CommitAsk
<1>2. s \in DOMAIN session /\ ~session[s].revoked /\ s \in issued /\ call[p].request \in Turns
  BY <1>1 DEF IInv, AdmitHeld, CallOK
<1>3. \/ conversation' = conversation
      \/ /\ call[p].request \notin DOMAIN conversation
         /\ conversation' = Put(conversation, call[p].request,
             [session |-> s, answered |-> FALSE, closed |-> FALSE, ended |-> None])
  BY DEF CommitAsk
<1>4. ASSUME NEW x, x # s PROVE Pending(x)' = Pending(x)
  <2>1. /\ \A t \in DOMAIN conversation :
             t \in DOMAIN conversation' /\ conversation'[t] = conversation[t]
        /\ \A t \in DOMAIN conversation' \ DOMAIN conversation : conversation'[t].session = s
    BY <1>3 DEF Put
  <2>2. TurnsOf(x)' = TurnsOf(x)
    BY <1>4, <2>1 DEF TurnsOf
  <2>3. TurnsOf(x) \subseteq DOMAIN conversation
    BY DEF TurnsOf
  <2> QED BY <2>1, <2>2, <2>3 DEF Pending
<1>5. TypeOK'
  <2>1. conversation' \in [DOMAIN conversation' -> Row(issued)] /\ DOMAIN conversation' \subseteq Turns
    <3>1. CASE conversation' = conversation
      BY <3>1 DEF IInv, TypeOK
    <3>2. CASE conversation' = Put(conversation, call[p].request,
                 [session |-> s, answered |-> FALSE, closed |-> FALSE, ended |-> None])
      <4>1. [session |-> s, answered |-> FALSE, closed |-> FALSE, ended |-> None] \in Row(issued)
        BY <1>2
      <4>2. conversation \in [DOMAIN conversation -> Row(issued)] /\ DOMAIN conversation \subseteq Turns
        BY DEF IInv, TypeOK
      <4> HIDE DEF Row, s
      <4> QED BY <1>2, <3>2, <4>1, <4>2 DEF Put
    <3> QED BY <1>3, <3>1, <3>2
  <2> QED BY <1>1, <2>1, ControlType DEF IInv, TypeOK, ControlTypeOK
<1>6. CapacityBound' /\ OneSuccessor' /\ IssuedOK'
  BY <1>1 DEF IInv, CapacityBound, OneSuccessor, IssuedOK, Own
<1>7. RetiredQuiescent'
  BY <1>1, <1>2, <1>3 DEF Put, IInv, RetiredQuiescent
<1>8. LinkOK'
  BY <1>1, <1>2, <1>4 DEF IInv, LinkOK
<1>9. pc'[p] = "idle" /\ \A q \in Conns : q # p => pc'[q] = pc[q] /\ call'[q] = call[q]
  BY <1>1, OthersKeepPlace DEF CommitAsk, End, IInv, TypeOK
<1>10. SourceHeld'
  <2>1. SUFFICES ASSUME NEW q \in Conns, q # p, call[q].on # None
                 PROVE  /\ pc[q] \in SourceLocked \cup {"lockSource"} =>
                             \A c \in DOMAIN continuation : continuation[c].parent # call[q].on
                        /\ pc[q] \in {"pending", "resolve", "insert"} =>
                             /\ call[q].on \in DOMAIN session /\ ~session[call[q].on].revoked
                             /\ session[call[q].on].delegator = call[q].delegator
                             /\ session[call[q].on].keys = call[q].keys
                        /\ pc[q] \in {"resolve", "insert"} => ~Pending(call[q].on)'
    BY <1>1, <1>9 DEF SourceHeld, SourceLocked
  <2>2. pc[q] \in {"resolve", "insert"} => call[q].on # s
    BY <1>1, <2>1 DEF IInv, RowLocks, SourceLocked
  <2>3. pc[q] \in {"resolve", "insert"} => ~Pending(call[q].on)
    BY <2>1 DEF IInv, SourceHeld
  <2>4. call'[q] = call[q]
    BY <1>9, <2>1
  <2>5. pc[q] \in {"resolve", "insert"} => ~Pending(call[q].on)'
    BY <1>4, <2>2, <2>3, <2>4
  <2> QED BY <2>1, <2>5 DEF IInv, SourceHeld
<1>11. RoomHeld' /\ AdmitHeld'
  BY <1>1, <1>9 DEF IInv, RoomHeld, AdmitHeld, Own
<1> QED BY <1>1, <1>5, <1>6, <1>7, <1>8, <1>10, <1>11, LocksHold, CallKept DEF IInv

(* The steps that move no connection. *)
LEMMA ControlKept ==
    ASSUME IInv, UNCHANGED <<pc, call, issued>>
    PROVE  OneNamespace' /\ RowLocks' /\ CallOK' /\ OneSuccessor'
BY DEF IInv, OneNamespace, RowLocks, CallOK, OneSuccessor

(* A turn that gains its answer or is closed never becomes pending again. *)
LEMMA TurnStepPreserves ==
    ASSUME IInv, NEW t \in DOMAIN conversation, SaveAnswer(t) \/ CloseRuntime(t),
           UNCHANGED <<granted, now, pc, call, issued>>, reply' = None
    PROVE  IInv'
<1>1. UNCHANGED <<session, continuation>>
  BY DEF SaveAnswer, CloseRuntime
<1>2. /\ DOMAIN conversation' = DOMAIN conversation
      /\ \A x \in DOMAIN conversation :
           /\ conversation'[x].session = conversation[x].session
           /\ conversation[x].closed => conversation'[x].closed
           /\ conversation[x].answered => conversation'[x].answered
  BY DEF SaveAnswer, CloseRuntime, IInv, TypeOK
<1>3. \A s : Pending(s)' => Pending(s)
  BY <1>2 DEF Pending, TurnsOf
<1>4. TypeOK'
  <2> DEFINE Row == [session : issued, answered : BOOLEAN, closed : BOOLEAN, ended : Nat \cup {None}]
  <2>1. conversation \in [DOMAIN conversation -> Row] /\ now \in Nat
    BY DEF IInv, TypeOK
  <2>2. conversation' \in [DOMAIN conversation -> Row]
    <3>1. CASE SaveAnswer(t)
      BY <2>1, <3>1 DEF SaveAnswer
    <3>2. CASE CloseRuntime(t)
      <4>1. [conversation[t] EXCEPT !.closed = TRUE, !.ended = now] \in Row
        BY <2>1
      <4>2. conversation' = [conversation EXCEPT ![t] =
                               [conversation[t] EXCEPT !.closed = TRUE, !.ended = now]]
        BY <2>1, <3>2 DEF CloseRuntime
      <4> HIDE DEF Row
      <4> QED BY <2>1, <4>1, <4>2
    <3> QED BY <3>1, <3>2
  <2> QED BY <1>1, <1>2, <2>2 DEF IInv, TypeOK
<1>5. CapacityBound' /\ IssuedOK' /\ RoomHeld' /\ AdmitHeld'
  BY <1>1 DEF IInv, CapacityBound, IssuedOK, RoomHeld, AdmitHeld, Own
<1>6. RetiredQuiescent' /\ LinkOK' /\ SourceHeld'
  BY <1>1, <1>2, <1>3 DEF IInv, RetiredQuiescent, LinkOK, SourceHeld
<1> QED BY <1>4, <1>5, <1>6, ControlKept DEF IInv

(* Revocation by hand waits for the row locks. *)
LEMMA RevokePreserves ==
    ASSUME IInv, NEW s \in DOMAIN session, RevokeSession(s),
           UNCHANGED <<granted, now, pc, call, issued>>, reply' = None
    PROVE  IInv'
<1>1. /\ session' = [session EXCEPT ![s].revoked = TRUE]
      /\ UNCHANGED <<continuation, conversation>>
      /\ ~RowShare(None, s) /\ ~RowExclusive(None, s)
  BY DEF RevokeSession
<1>2. /\ DOMAIN session' = DOMAIN session
      /\ \A x \in DOMAIN session :
           /\ session'[x].delegator = session[x].delegator
           /\ session'[x].keys = session[x].keys
           /\ session[x].revoked => session'[x].revoked
           /\ x # s => session'[x] = session[x]
  BY <1>1 DEF IInv, TypeOK
<1>3. \A q \in Conns : pc[q] \in SourceLocked \cup {"admit"} => call[q].on # s
  BY <1>1, NoneAssumption DEF RowShare, RowExclusive
<1>4. \A x : Pending(x)' = Pending(x)
  BY <1>1 DEF Pending, TurnsOf
<1>5. \A d : Own(d)' = Own(d)
  BY <1>2 DEF Own
<1>6. TypeOK'
  <2> DEFINE R == [delegator : Delegators, keys : Keys, expires : Nat, revoked : BOOLEAN]
  <2>1. session[s] \in R /\ session \in [DOMAIN session -> R]
    BY DEF IInv, TypeOK
  <2>2. [session[s] EXCEPT !.revoked = TRUE] \in R
    BY <2>1
  <2>3. session' = [session EXCEPT ![s] = [session[s] EXCEPT !.revoked = TRUE]]
    BY <1>1
  <2> HIDE DEF R
  <2>4. session' \in [DOMAIN session -> R]
    BY <2>1, <2>2, <2>3
  <2>5. session' \in [DOMAIN session' -> R] /\ DOMAIN session' \subseteq issued'
    BY <1>2, <2>4 DEF IInv, TypeOK
  <2> USE DEF R
  <2> QED BY <1>1, <2>5 DEF IInv, TypeOK
<1>7. CapacityBound' /\ RoomHeld'
  BY <1>2, <1>5 DEF IInv, CapacityBound, RoomHeld
<1>8. IssuedOK' /\ RetiredQuiescent' /\ LinkOK'
  BY <1>1, <1>2, <1>4 DEF IInv, IssuedOK, RetiredQuiescent, LinkOK
<1>9. SourceHeld' /\ AdmitHeld'
  BY <1>1, <1>2, <1>3, <1>4 DEF IInv, SourceHeld, AdmitHeld, SourceLocked
<1> QED BY <1>6, <1>7, <1>8, <1>9, ControlKept DEF IInv

(* Retention takes nothing that a link, a lock or an open turn needs. *)
LEMMA RetirePreserves ==
    ASSUME IInv, RetireSessions, UNCHANGED <<granted, now, pc, call, issued>>, reply' = None
    PROVE  IInv'
<1>1. PICK S \in SUBSET Candidates :
         session' = Drop(session, S) /\ continuation' = Drop(continuation, S)
  BY DEF RetireSessions
<1>2. UNCHANGED conversation /\ ~AdvisoryLock
  BY DEF RetireSessions
<1>3. /\ DOMAIN session' = DOMAIN session \ S /\ DOMAIN continuation' = DOMAIN continuation \ S
      /\ \A x \in DOMAIN session' : session'[x] = session[x]
      /\ \A x \in DOMAIN continuation' : continuation'[x] = continuation[x]
  BY <1>1 DEF Drop
<1>4. \A s \in S :
        /\ s \in DOMAIN session
        /\ \A t \in TurnsOf(s) : conversation[t].closed
        /\ \A c \in DOMAIN continuation : continuation[c].parent # s
        /\ \A q \in Conns : pc[q] \in SourceLocked \cup {"admit"} => call[q].on # s
  BY <1>1, NoneAssumption DEF Candidates, Retirable, RowShare, RowExclusive
<1>5. \A x : Pending(x)' = Pending(x)
  BY <1>2 DEF Pending, TurnsOf
<1>6. TypeOK'
  <2>1. session' \in [DOMAIN session' ->
          [delegator : Delegators, keys : Keys, expires : Nat, revoked : BOOLEAN]]
        /\ DOMAIN session' \subseteq issued
    BY <1>1 DEF Drop, IInv, TypeOK
  <2>2. continuation' \in [DOMAIN continuation' -> [parent : issued, request : Requests]]
        /\ DOMAIN continuation' \subseteq issued
    BY <1>1 DEF Drop, IInv, TypeOK
  <2> QED BY <1>2, <2>1, <2>2 DEF IInv, TypeOK
<1>7. IsFiniteSet(DOMAIN session) /\ DOMAIN session' \subseteq DOMAIN session
  BY <1>3, FS_Subset DEF IInv, TypeOK
<1>8. CapacityBound'
  <2>1. Cardinality(DOMAIN session') <= MaxSessions
    BY <1>7, FS_Subset, FS_CardinalityType, CapacityAssumption DEF IInv, CapacityBound
  <2>2. ASSUME NEW d \in Delegators PROVE Cardinality(Own(d)') <= MaxDelegatorSessions
    <3>1. Own(d)' \subseteq Own(d) /\ Own(d) \subseteq DOMAIN session
      BY <1>3 DEF Own
    <3>2. IsFiniteSet(Own(d)) /\ IsFiniteSet(Own(d)')
      BY <1>7, <3>1, FS_Subset
    <3> QED BY <3>1, <3>2, FS_Subset, FS_CardinalityType, CapacityAssumption DEF IInv, CapacityBound
  <2> QED BY <2>1, <2>2 DEF CapacityBound
<1>9. RetiredQuiescent'
  BY <1>2, <1>3, <1>4 DEF IInv, RetiredQuiescent, TurnsOf
<1>10. LinkOK'
  BY <1>3, <1>4, <1>5 DEF IInv, LinkOK
<1>11. IssuedOK'
  BY <1>3 DEF IInv, IssuedOK
<1>12. SourceHeld' /\ RoomHeld'
  BY <1>2 DEF AdvisoryLock, SourceHeld, RoomHeld, SourceLocked, OpenSteps
<1>13. AdmitHeld'
  BY <1>3, <1>4 DEF IInv, AdmitHeld
<1> QED BY <1>6, <1>8, <1>9, <1>10, <1>11, <1>12, <1>13, ControlKept DEF IInv

(* The clock, the grants and stuttering touch nothing the invariant reads. *)
LEMMA EnvironmentPreserves ==
    ASSUME IInv, UNCHANGED <<session, continuation, conversation, pc, call, issued>>,
           granted' \subseteq Delegators \X Keys, now' \in Nat, reply' \in issued \cup {None}
    PROVE  IInv'
<1>1. TypeOK'
  BY DEF IInv, TypeOK
<1>2. SourceHeld' /\ RoomHeld' /\ AdmitHeld'
  BY DEF IInv, SourceHeld, RoomHeld, AdmitHeld, Own, Pending, TurnsOf
<1> QED BY <1>1, <1>2, ControlKept, TableFactsKept DEF IInv

-----------------------------------------------------------------------------
(* Initially nothing exists. *)
LEMMA InitInv == Init => IInv
<1> SUFFICES ASSUME Init PROVE IInv
  OBVIOUS
<1>1. \A x \in {} : FALSE
  OBVIOUS
<1>2. DOMAIN session = {} /\ DOMAIN continuation = {} /\ DOMAIN conversation = {}
  BY DEF Init, Empty
<1>3. TypeOK
  BY <1>2, FS_EmptySet DEF Init, Empty, TypeOK, Steps, NoCall
<1>4. CapacityBound
  <2>1. \A d : Own(d) = {}
    BY <1>2 DEF Own
  <2> QED BY <1>2, <2>1, FS_EmptySet, CapacityAssumption DEF CapacityBound
<1>5. OneSuccessor /\ RetiredQuiescent /\ LinkOK /\ IssuedOK
  BY <1>2 DEF Init, OneSuccessor, RetiredQuiescent, LinkOK, IssuedOK
<1>6. OneNamespace /\ RowLocks /\ CallOK /\ SourceHeld /\ RoomHeld /\ AdmitHeld
  BY DEF Init, OneNamespace, RowLocks, CallOK, SourceHeld, RoomHeld, AdmitHeld, SourceLocked, OpenSteps
<1> QED BY <1>3, <1>4, <1>5, <1>6 DEF IInv

(* Every step keeps the invariant. *)
LEMMA NextInv == IInv /\ [Next]_vars => IInv'
<1> SUFFICES ASSUME IInv, [Next]_vars PROVE IInv'
  OBVIOUS
<1>1. ASSUME NEW p \in Conns, ConnStep(p) PROVE IInv'
  BY <1>1, MovePreserves, CommitOpenPreserves, CommitAskPreserves DEF ConnStep, Moves
<1>2. CASE TableStep
  <2>1. UNCHANGED <<granted, now, pc, call, issued>> /\ reply' = None
    BY <1>2 DEF TableStep
  <2> QED BY <1>2, <2>1, TurnStepPreserves, RevokePreserves, RetirePreserves DEF TableStep
<1>3. ASSUME NEW g \in Delegators \X Keys, ChangeGrant(g) PROVE IInv'
  BY <1>3, EnvironmentPreserves DEF ChangeGrant, tables, IInv, TypeOK
<1>4. CASE Tick
  BY <1>4, EnvironmentPreserves DEF Tick, tables, IInv, TypeOK
<1>5. CASE UNCHANGED vars
  BY <1>5, EnvironmentPreserves DEF vars, tables, IInv, TypeOK
<1> QED BY <1>1, <1>2, <1>3, <1>4, <1>5 DEF Next

LEMMA Invariant == Spec => []IInv
<1> QED BY InitInv, NextInv, PTL DEF Spec

-----------------------------------------------------------------------------
(* The rows, links, conversations and control state are always well typed. *)
THEOREM TypeCorrect == Spec => []TypeOK
<1>1. IInv => TypeOK
  BY DEF IInv
<1> QED BY <1>1, Invariant, PTL

(* No interleaving of any number of connections exceeds a session bound. *)
THEOREM CapacityHolds == Spec => []CapacityBound
<1>1. IInv => CapacityBound
  BY DEF IInv
<1> QED BY <1>1, Invariant, PTL

(* Handoff and admission exclude each other: no turn of a session that was *)
(* handed off is, or becomes, unfinished.                                  *)
THEOREM HandoffExcludesAdmission == Spec => []HandedOffComplete
<1>1. IInv => HandedOffComplete
  BY DEF IInv, LinkOK, HandedOffComplete
<1> QED BY <1>1, Invariant, PTL

(* No session is ever handed off twice, retirement included. *)
THEOREM HandoffOnce == Spec => []OneSuccessor
<1>1. IInv => OneSuccessor
  BY DEF IInv
<1> QED BY <1>1, Invariant, PTL

(* Retirement leaves no open conversation behind. *)
THEOREM RetirementIsQuiet == Spec => []RetiredQuiescent
<1>1. IInv => RetiredQuiescent
  BY DEF IInv
<1> QED BY <1>1, Invariant, PTL

(* A session's row is only ever revoked, and the id of a retired session,  *)
(* which a handoff could compute again, never comes back.                  *)
THEOREM GrantsAreOnce == Spec => OneGrantPerId
<1> DEFINE Same(s) == /\ s \in DOMAIN session
                      /\ session'[s] \in {session[s], [session[s] EXCEPT !.revoked = TRUE]}
<1>1. ASSUME IInv, [Next]_vars, NEW s \in issued, s \in DOMAIN session' PROVE Same(s)
  <2>1. CASE UNCHANGED session
    BY <1>1, <2>1
  <2>2. ASSUME NEW p \in Conns, CommitOpen(p) PROVE Same(s)
    <3>1. PICK id : Committed(p, id)
      BY <1>1, <2>2, CommitEffect
    <3> QED BY <1>1, <3>1 DEF Committed
  <2>3. ASSUME NEW x \in DOMAIN session, RevokeSession(x) PROVE Same(s)
    BY <1>1, <2>3 DEF RevokeSession, IInv, TypeOK
  <2>4. CASE RetireSessions
    <3>1. PICK S : session' = Drop(session, S)
      BY <2>4 DEF RetireSessions
    <3> QED BY <1>1, <3>1 DEF Drop
  <2>5. ASSUME NEW p \in Conns, ConnStep(p), ~CommitOpen(p) PROVE UNCHANGED session
    BY <2>5, MoveLeavesTables DEF ConnStep, Moves, CommitAsk
  <2>6. CASE TableStep
    BY <2>1, <2>3, <2>4, <2>6 DEF TableStep, SaveAnswer, CloseRuntime
  <2>7. CASE (\E g \in Delegators \X Keys : ChangeGrant(g)) \/ Tick \/ UNCHANGED vars
    BY <2>1, <2>7 DEF ChangeGrant, Tick, vars, tables
  <2> QED BY <1>1, <2>1, <2>2, <2>5, <2>6, <2>7 DEF Next
<1>2. IInv /\ [Next]_vars => [\A s \in issued \cap DOMAIN session' : Same(s)]_vars
  BY <1>1
<1> QED BY <1>2, Invariant, PTL DEF Spec, OneGrantPerId

(* A reply names a live session of the principal, and of the very handoff, *)
(* that was asked for.                                                     *)
THEOREM RepliesBind == Spec => ReplyBinding
<1>1. ASSUME IInv, [Next]_vars, NEW p \in Conns, pc[p] # "idle", pc'[p] = "idle", reply' # None
      PROVE  /\ reply' \in DOMAIN session'
             /\ ~session'[reply'].revoked
             /\ session'[reply'].delegator = call[p].delegator
             /\ session'[reply'].keys = call[p].keys
             /\ call[p].on # None =>
                  continuation'[reply'] = [parent |-> call[p].on, request |-> call[p].request]
  <2>1. PICK q \in Conns : ConnStep(q)
    BY <1>1 DEF Next, TableStep, ChangeGrant, Tick, vars
  <2>2. q = p
    BY <1>1, <2>1, OthersKeepPlace
  <2>3. FindContinuation(p) \/ CommitOpen(p)
    BY <1>1, <2>1, <2>2 DEF ConnStep, OpenBegin, LockSource, RequireSource, CheckPending, Resolve,
       AskBegin, CommitAsk, Abort, Begin, End, Check
  <2>4. CASE FindContinuation(p)
    <3> DEFINE c == call[p]
               child == HandoffId(c.delegator, c.on, c.request)
    <3>1. /\ reply' = child /\ child \in DOMAIN continuation
          /\ Valid(c.delegator, child) /\ session[child].keys = c.keys
          /\ UNCHANGED <<session, continuation>>
      BY <1>1, <2>4 DEF FindContinuation, Check, End, tables
    <3>2. child = HandoffId(session[child].delegator, continuation[child].parent, continuation[child].request)
      BY <1>1, <3>1 DEF IInv, LinkOK
    <3>3. continuation[child].parent = c.on /\ continuation[child].request = c.request
      BY <3>2 DEF HandoffId
    <3>4. continuation[child] \in [parent : issued, request : Requests]
      BY <1>1, <3>1 DEF IInv, TypeOK
    <3>5. continuation[child] = [parent |-> c.on, request |-> c.request]
      BY <3>3, <3>4
    <3> QED BY <3>1, <3>5 DEF Valid
  <2>5. CASE CommitOpen(p)
    <3>1. PICK id : Committed(p, id)
      BY <1>1, <2>5, CommitEffect
    <3>2. reply' = id
      BY <3>1 DEF Committed, End
    <3> QED BY <3>1, <3>2 DEF Committed, NewSession, Put
  <2> QED BY <2>3, <2>4, <2>5
<1>2. IInv /\ [Next]_vars => [\A p \in Conns :
        pc[p] # "idle" /\ pc'[p] = "idle" /\ reply' # None =>
            /\ reply' \in DOMAIN session'
            /\ ~session'[reply'].revoked
            /\ session'[reply'].delegator = call[p].delegator
            /\ session'[reply'].keys = call[p].keys
            /\ call[p].on # None =>
                 continuation'[reply'] = [parent |-> call[p].on, request |-> call[p].request]
      ]_vars
  BY <1>1
<1> QED BY <1>2, Invariant, PTL DEF Spec, ReplyBinding

-----------------------------------------------------------------------------
(* Refinement: what a caller of the authority sees of the tables. *)
Leases(f) == [s \in DOMAIN f |-> [delegator |-> f[s].delegator, keys |-> f[s].keys]]
Revoked(f) == {s \in DOMAIN f : f[s].revoked}
TurnTable(f) ==
    [t \in DOMAIN f |-> [session |-> f[t].session, answered |-> f[t].answered, closed |-> f[t].closed]]

(* A handoff's commit is the authority's handoff, any other commit of open *)
(* is its issue.                                                           *)
LEMMA CommitRefines ==
    ASSUME IInv, NEW p \in Conns, NEW id, Committed(p, id)
    PROVE  Authority!Next
<1> DEFINE c == call[p]
           bar == Leases(session)
<1>1. /\ DOMAIN bar = DOMAIN session
      /\ \A s \in DOMAIN session : bar[s].delegator = session[s].delegator /\ bar[s].keys = session[s].keys
      /\ Authority!Own(c.delegator) = Own(c.delegator)
  BY DEF Leases, Own, Authority!Own
<1>2. Authority!Room(c.delegator)
  <2>1. \A S : Authority!Cardinality(S) = Cardinality(S)
    BY DEF Authority!Cardinality, Cardinality
  <2>2. Cardinality(DOMAIN bar) < MaxSessions /\ Cardinality(Own(c.delegator)) < MaxDelegatorSessions
    BY <1>1, CommitFacts
  <2> QED BY <1>1, <2>1, <2>2 DEF Authority!Room, Leases
<1>3. TurnTable(conversation)' = TurnTable(conversation)
  BY DEF Committed, TurnTable
<1>4. Leases(session') = Authority!Put(bar, id, [delegator |-> c.delegator, keys |-> c.keys])
  <2>1. session'[id] = NewSession(c) /\ DOMAIN session' = DOMAIN session \cup {id} /\ id \notin DOMAIN session
    BY DEF Committed
  <2>2. Leases(session')[id] = [delegator |-> c.delegator, keys |-> c.keys]
    BY <2>1 DEF Leases, NewSession
  <2>3. \A x \in DOMAIN session : Leases(session')[x] = bar[x]
    BY <2>1, CommitTypes DEF Leases
  <2>4. Leases(session') = [x \in DOMAIN session' |-> Leases(session')[x]]
    BY DEF Leases
  <2> HIDE DEF bar
  <2> QED BY <1>1, <2>1, <2>2, <2>3, <2>4 DEF Authority!Put
<1>5. CASE c.on = None
  <2>1. PICK u \in FreshIds : id = UuidV4(u)
    BY <1>5 DEF Committed
  <2>2. Revoked(session') = Revoked(session)
    BY <1>5 DEF Committed, Revoked, NewSession
  <2>3. Authority!Issue(c.delegator, c.keys, u)
    BY <1>2, <1>3, <1>4, <1>5, <2>1, <2>2
       DEF Committed, Authority!Issue, Authority!UuidV4, UuidV4, Authority!Lease, Leases, Revoked, TurnTable
  <2> QED BY <2>3, CommitFacts DEF Authority!Next
<1>6. CASE c.on # None
  <2>1. id = HandoffId(c.delegator, c.on, c.request)
    BY <1>6 DEF Committed
  <2>2. /\ c.on \in DOMAIN bar /\ c.delegator \in Delegators /\ c.request \in Requests
        /\ bar[c.on] = [delegator |-> c.delegator, keys |-> c.keys]
        /\ c.on \notin Revoked(session)
    BY <1>6, CommitFacts DEF Leases, Revoked
  <2>3. Revoked(session') = Revoked(session) \cup {c.on}
    <3>1. ~session'[id].revoked /\ id # c.on /\ DOMAIN session' = DOMAIN session \cup {id}
      BY CommitFacts, <1>6 DEF Committed, NewSession
    <3>2. \A x \in DOMAIN session : session'[x].revoked <=> session[x].revoked \/ x = c.on
      BY CommitTypes, <1>6
    <3> QED BY <1>6, <3>1, <3>2, CommitFacts DEF Revoked
  <2>4. Authority!Complete(c.on)
    BY <1>6, CommitFacts DEF Authority!Complete, Authority!TurnsOf, Pending, TurnsOf, TurnTable
  <2>5. Authority!Live(c.on)
    BY <1>1, <1>6, <2>2 DEF Authority!Live, Leases, Revoked
  <2>0. PICK d \in Delegators, s \in DOMAIN session, r \in Requests :
             d = c.delegator /\ s = c.on /\ r = c.request
    BY <1>1, <2>2
  <2>6. Authority!Handoff(d, s, r)
    <3>1. continuation' = Put(continuation, id, [parent |-> c.on, request |-> c.request])
      BY <1>6 DEF Committed
    <3>2. continuation' = Authority!Put(continuation, id, [parent |-> c.on, request |-> c.request])
      BY <3>1 DEF Put, Authority!Put
    <3>3. Authority!HandoffId(c.delegator, c.on, c.request) = id
      BY <2>1 DEF HandoffId, Authority!HandoffId
    <3>4. Leases(session') = Authority!Put(bar, id, bar[c.on])
      <4> HIDE DEF bar
      <4> QED BY <1>4, <2>2
    <3>5. bar[c.on].delegator = c.delegator
      BY <2>2
    <3>6. id \notin issued /\ issued' = issued \cup {id}
      BY DEF Committed
    <3> QED BY <1>2, <1>3, <2>0, <2>3, <2>4, <2>5, <3>2, <3>3, <3>4, <3>5, <3>6
       DEF Authority!Handoff, Leases, Revoked, TurnTable
  <2> QED BY <2>6 DEF Authority!Next
<1> QED BY <1>5, <1>6

(* Every other change of the tables is the authority's step of that name. *)
LEMMA AskRefines ==
    ASSUME IInv, NEW p \in Conns, CommitAsk(p)
    PROVE  [Authority!Next]_Authority!vars
<1>1. /\ call[p].on \in DOMAIN session /\ ~session[call[p].on].revoked
      /\ call[p].request \in Turns
      /\ UNCHANGED <<session, continuation, issued>>
  BY DEF CommitAsk, IInv, AdmitHeld, CallOK
<1>2. CASE conversation' = conversation
  BY <1>1, <1>2 DEF Authority!vars
<1>3. CASE /\ call[p].request \notin DOMAIN conversation
           /\ conversation' = Put(conversation, call[p].request,
                  [session |-> call[p].on, answered |-> FALSE, closed |-> FALSE, ended |-> None])
  <2>1. PICK s \in DOMAIN session, t \in Turns : s = call[p].on /\ t = call[p].request
    BY <1>1
  <2>2. TurnTable(conversation') = Authority!Put(TurnTable(conversation), t,
                                      [session |-> s, answered |-> FALSE, closed |-> FALSE])
    BY <1>3, <2>1 DEF TurnTable, Put, Authority!Put
  <2>3. Authority!Admit(s, t)
    BY <1>1, <1>3, <2>1, <2>2 DEF Authority!Admit, Authority!Live, TurnTable
  <2> QED BY <2>3 DEF Authority!Next
<1> QED BY <1>2, <1>3 DEF CommitAsk

LEMMA TurnRefines ==
    ASSUME IInv, NEW t \in DOMAIN conversation, SaveAnswer(t) \/ CloseRuntime(t), UNCHANGED issued
    PROVE  Authority!Next
<1> DEFINE bar == TurnTable(conversation)
           Row == [session : issued, answered : BOOLEAN, closed : BOOLEAN, ended : Nat \cup {None}]
<1>1. t \in Turns /\ conversation \in [DOMAIN conversation -> Row]
      /\ UNCHANGED <<session, continuation>>
  BY DEF IInv, TypeOK, SaveAnswer, CloseRuntime
<1>2. CASE SaveAnswer(t)
  <2>1. TurnTable(conversation') = [bar EXCEPT ![t].answered = TRUE]
    BY <1>1, <1>2 DEF SaveAnswer, TurnTable
  <2>2. Authority!Answer(t)
    BY <1>1, <1>2, <2>1 DEF SaveAnswer, Authority!Answer, TurnTable
  <2> QED BY <1>1, <2>2 DEF Authority!Next
<1>3. CASE CloseRuntime(t)
  <2>1. TurnTable(conversation') = [bar EXCEPT ![t].closed = TRUE]
    <3>1. conversation' = [conversation EXCEPT ![t] =
                             [conversation[t] EXCEPT !.closed = TRUE, !.ended = now]]
      BY <1>1, <1>3 DEF CloseRuntime
    <3> QED BY <1>1, <3>1 DEF TurnTable
  <2>2. Authority!Close(t)
    BY <1>1, <1>3, <2>1 DEF CloseRuntime, Authority!Close, TurnTable
  <2> QED BY <1>1, <2>2 DEF Authority!Next
<1> QED BY <1>2, <1>3

LEMMA RevokeRefines ==
    ASSUME IInv, NEW s \in DOMAIN session, RevokeSession(s), UNCHANGED issued
    PROVE  Authority!Next
<1>1. /\ Leases(session') = Leases(session)
      /\ Revoked(session') = Revoked(session) \cup {s}
      /\ ~session[s].revoked /\ UNCHANGED <<continuation, conversation>>
  BY DEF RevokeSession, IInv, TypeOK, Leases, Revoked
<1>2. Authority!Revoke(s)
  BY <1>1 DEF Authority!Revoke, Authority!Live, Leases, Revoked
<1> QED BY <1>2 DEF Authority!Next

LEMMA RetireRefines ==
    ASSUME IInv, RetireSessions, UNCHANGED issued
    PROVE  Authority!Next
<1>1. PICK S \in SUBSET Candidates :
         session' = Drop(session, S) /\ continuation' = Drop(continuation, S)
  BY DEF RetireSessions
<1>2. /\ S \in SUBSET DOMAIN session
      /\ \A s \in S : \A t \in TurnsOf(s) : conversation[t].closed
      /\ \A c \in DOMAIN continuation : continuation[c].parent \notin S
      /\ UNCHANGED conversation
  BY <1>1 DEF Candidates, Retirable, RetireSessions
<1>3. /\ Leases(session') = Authority!Drop(Leases(session), S)
      /\ Revoked(session') = Revoked(session) \ S
      /\ continuation' = Authority!Drop(continuation, S)
  BY <1>1, <1>2 DEF Drop, Authority!Drop, Leases, Revoked
<1>4. Authority!Retire(S)
  BY <1>2, <1>3 DEF Authority!Retire, Authority!TurnsOf, TurnsOf, Leases, Revoked, TurnTable
<1> QED BY <1>2, <1>4 DEF Authority!Next

(* Every behaviour of connections, locks and clock is one of the authority. *)
THEOREM ImplementsAuthority == Spec => Implements
<1>1. Init => Authority!Init
  BY DEF Init, Authority!Init, Empty, Authority!Empty
<1>2. ASSUME IInv, [Next]_vars
      PROVE  [Authority!Next]_Authority!vars
  <2>1. ASSUME NEW p \in Conns, ConnStep(p)
        PROVE  [Authority!Next]_Authority!vars
    <3>1. CASE Moves(p)
      BY <3>1, MoveLeavesTables DEF Authority!vars
    <3>2. CASE CommitOpen(p)
      BY <1>2, <3>2, CommitEffect, CommitRefines
    <3>3. CASE CommitAsk(p)
      BY <1>2, <3>3, AskRefines
    <3> QED BY <2>1, <3>1, <3>2, <3>3 DEF ConnStep, Moves
  <2>2. CASE TableStep
    BY <1>2, <2>2, TurnRefines, RevokeRefines, RetireRefines DEF TableStep
  <2>3. CASE Tick \/ UNCHANGED vars \/ \E g \in Delegators \X Keys : ChangeGrant(g)
    <3>1. UNCHANGED <<session, continuation, conversation, issued>>
      BY <2>3 DEF Tick, vars, tables, ChangeGrant
    <3> QED BY <3>1 DEF Authority!vars
  <2> QED BY <1>2, <2>1, <2>2, <2>3 DEF Next
<1> QED BY <1>1, <1>2, Invariant, PTL DEF Spec, Implements, Authority!Spec
=============================================================================
