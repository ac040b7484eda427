----------------------- MODULE PersonalityStoreProofs -----------------------
(***************************************************************************)
(* Theorems of PersonalityStore for every number of editors, connections   *)
(* and readers, and every capacity.  The inductive invariant says what the *)
(* head's row lock is good for: the head that a save has read, and what it *)
(* found out about its request, stay true until it inserts.                *)
(***************************************************************************)
EXTENDS PersonalityStore, Sequences, TLAPS

(* The revisions are numbered without a gap, and no two have one request. *)
Gapless == DOMAIN version = 1..head

OneRequest ==
    \A m, n \in DOMAIN version : version[m].request = version[n].request => m = n

(* At most one connection holds the head, and at most one the agent. *)
OneHolder ==
    /\ \A p, q \in Conns : pc[p] \in Locked /\ pc[q] \in Locked => p = q
    /\ \A p, q \in Conns : pc[p] = "import" /\ pc[q] = "import" => p = q

(* A transaction carries the save of its kind. *)
CallOK ==
    \A p \in Conns :
        /\ pc[p] \in Locked \cup {"lockHead"} => call[p].save \in Saves \ Imports
        /\ pc[p] = "import" => call[p].save \in Imports

(* The head that a connection has read under the lock is still the head. *)
HeadHeld ==
    \A p \in Conns :
        /\ pc[p] \in Locked => call[p].head = head /\ head # 0
        /\ pc[p] = "import" => head = 0

(* What a save found out before its insert is still so. *)
Decided ==
    \A p \in Conns :
        pc[p] = "insert" =>
            /\ call[p].save.base = head /\ head < MaxRevision
            /\ Made(call[p].save.request) = {}

(* allowed records every moment since the lock. *)
Recorded ==
    \A p \in Conns :
        pc[p] \in Locked /\ grant[call[p].save.by] = "edit" => call[p].allowed

(* A walk stands between the first revision and the head of its first page. *)
WalkOK ==
    \A w \in Readers :
        /\ walk[w].seen = {} => walk[w].cursor = MaxRevision + 1
        /\ walk[w].seen # {} => /\ walk[w].seen = walk[w].cursor..walk[w].top
                                /\ walk[w].cursor <= walk[w].top
                                /\ walk[w].top <= head

IInv ==
    /\ TypeOK /\ Gapless /\ OneRequest /\ OneHolder /\ CallOK
    /\ HeadHeld /\ Decided /\ Recorded /\ NoStaleAuthority /\ WalkOK

-----------------------------------------------------------------------------
Answers == {None} \cup [error : Errors]
             \cup [revision : 1..MaxRevision, save : Saves \cup {None}]

Calls == [save : Saves \cup {NoSave}, head : 0..MaxRevision, allowed : BOOLEAN]

LEMMA NoCallType == NoCall \in Calls
  BY RevisionAssumption DEF NoCall, Calls

LEMMA InitInv == Init => IInv
<1> SUFFICES ASSUME Init PROVE IInv
  OBVIOUS
<1>1. TypeOK
  BY RevisionAssumption, NoCallType DEF Init, TypeOK, Empty, Calls, Steps, NoWalk
<1>2. Gapless /\ OneRequest
  BY DEF Init, Gapless, OneRequest, Empty
<1>3. OneHolder /\ CallOK /\ HeadHeld /\ Decided /\ Recorded /\ NoStaleAuthority
  BY DEF Init, OneHolder, CallOK, HeadHeld, Decided, Recorded, NoStaleAuthority, Locked
<1>4. WalkOK
  BY DEF Init, WalkOK, NoWalk
<1> QED BY <1>1, <1>2, <1>3, <1>4 DEF IInv

(* A connection that ends without a write disturbs nothing. *)
LEMMA EndInv ==
    ASSUME IInv, NEW p \in Conns, NEW answer \in Answers, End(p, answer),
           UNCHANGED <<tables, grant, walk>>
    PROVE  IInv'
<1> USE DEF IInv, End
<1>0. /\ UNCHANGED <<version, head, grant, walk>>
      /\ \A q \in Conns : pc'[q] = (IF q = p THEN "idle" ELSE pc[q])
      /\ \A q \in Conns : call'[q] = (IF q = p THEN NoCall ELSE call[q])
  BY DEF tables, TypeOK
<1>1. TypeOK'
  <2>1. pc' \in [Conns -> Steps]
    BY DEF TypeOK, Steps
  <2>2. call' \in [Conns -> Calls]
    BY NoCallType DEF TypeOK, Calls
  <2> QED BY <1>0, <2>1, <2>2 DEF TypeOK, Calls, Answers
<1>2. Gapless' /\ OneRequest' /\ WalkOK'
  BY <1>0 DEF Gapless, OneRequest, WalkOK
<1>3. OneHolder' /\ CallOK' /\ HeadHeld'
  BY <1>0 DEF OneHolder, CallOK, HeadHeld, Locked
<1>4. Decided' /\ Recorded' /\ NoStaleAuthority'
  BY <1>0 DEF Decided, Recorded, NoStaleAuthority, Made, Locked
<1> QED BY <1>1, <1>2, <1>3, <1>4

(* A connection that goes on with a call fit for its next step, where no   *)
(* other holds what that step holds, disturbs nothing.                     *)
LEMMA GoInv ==
    ASSUME IInv, NEW p \in Conns, NEW step \in Steps \ {"idle"}, NEW c \in Calls, Go(p, step, c),
           UNCHANGED <<tables, grant, walk>>,
           step \in Locked => pc[p] \in Locked \/ ~HeadLock,
           step = "import" => \A q \in Conns : pc[q] # "import",
           step \in Locked \cup {"lockHead"} => c.save \in Saves \ Imports,
           step = "import" => c.save \in Imports /\ head = 0,
           step \in Locked => c.head = head /\ head # 0,
           step = "insert" => /\ c.save.base = head /\ head < MaxRevision
                              /\ Made(c.save.request) = {},
           step \in Locked /\ grant[c.save.by] = "edit" => c.allowed,
           step \in {"decide", "insert"} => c.allowed
    PROVE  IInv'
<1> USE DEF IInv, Go
<1>0. /\ UNCHANGED <<version, head, grant, walk>>
      /\ \A q \in Conns : pc'[q] = (IF q = p THEN step ELSE pc[q])
      /\ \A q \in Conns : call'[q] = (IF q = p THEN c ELSE call[q])
  BY DEF tables, TypeOK
<1>1. TypeOK'
  <2>1. pc' \in [Conns -> Steps] /\ call' \in [Conns -> Calls] /\ told' = None
    BY DEF TypeOK, Calls
  <2> QED BY <1>0, <2>1 DEF TypeOK, Calls
<1>2. Gapless' /\ OneRequest' /\ WalkOK'
  BY <1>0 DEF Gapless, OneRequest, WalkOK
<1>3. OneHolder'
  BY <1>0 DEF OneHolder, HeadLock, Locked
<1>4. CallOK' /\ HeadHeld'
  BY <1>0 DEF CallOK, HeadHeld, Locked
<1>5. Decided' /\ Recorded' /\ NoStaleAuthority'
  BY <1>0 DEF Decided, Recorded, NoStaleAuthority, Made, Locked
<1> QED BY <1>1, <1>2, <1>3, <1>4, <1>5

LEMMA FirstCall ==
    ASSUME NEW s \in Saves
    PROVE  [NoCall EXCEPT !.save = s] \in Calls /\ [NoCall EXCEPT !.save = s].save = s
  BY NoCallType DEF Calls

LEMMA RefusedType ==
    ASSUME NEW error \in Errors
    PROVE  Refused(error) \in Answers
  BY DEF Refused, Answers

LEMMA ToldType ==
    ASSUME NEW n \in 1..MaxRevision, NEW s \in Saves \cup {None}
    PROVE  Told(n, s) \in Answers
  BY DEF Told, Answers

LEMMA SaveBeginInv ==
    ASSUME IInv, NEW p \in Conns, NEW s \in Saves \ Imports, SaveBegin(p, s)
    PROVE  IInv'
<1>1. CASE End(p, Refused("personality_forbidden"))
  BY <1>1, EndInv, RefusedType DEF SaveBegin, Errors
<1>2. CASE Go(p, "lockHead", [NoCall EXCEPT !.save = s])
  <2> DEFINE c == [NoCall EXCEPT !.save = s]
  <2>1. c \in Calls /\ c.save = s /\ Go(p, "lockHead", c)
    BY <1>2, FirstCall
  <2> HIDE DEF c
  <2> QED BY <2>1, GoInv DEF SaveBegin, Steps, Locked
<1> QED BY <1>1, <1>2 DEF SaveBegin

LEMMA ImportBeginInv ==
    ASSUME IInv, NEW p \in Conns, NEW s \in Imports, ImportBegin(p, s)
    PROVE  IInv'
<1>1. CASE End(p, Refused("revision_conflict"))
  BY <1>1, EndInv, RefusedType DEF ImportBegin, Errors
<1>2. CASE head = 0 /\ Go(p, "import", [NoCall EXCEPT !.save = s])
  <2> DEFINE c == [NoCall EXCEPT !.save = s]
  <2>1. c \in Calls /\ c.save = s /\ Go(p, "import", c)
    BY <1>2, FirstCall DEF Saves
  <2> HIDE DEF c
  <2> QED BY <1>2, <2>1, GoInv DEF ImportBegin, Steps, Locked
<1> QED BY <1>1, <1>2 DEF ImportBegin

LEMMA LockHeadInv ==
    ASSUME IInv, NEW p \in Conns, LockHead(p)
    PROVE  IInv'
<1>1. CASE End(p, Refused("personality_unavailable"))
  BY <1>1, EndInv, RefusedType DEF LockHead, Errors
<1>2. CASE head # 0 /\ ~End(p, Refused("personality_unavailable"))
  <2> DEFINE c == [call[p] EXCEPT !.head = head, !.allowed = Authorized(call[p].save.by, TRUE)]
  <2>1. call[p] \in Calls /\ head \in 0..MaxRevision /\ call[p].save \in Saves \ Imports
    BY DEF IInv, TypeOK, Calls, LockHead, CallOK, Locked
  <2>2. /\ c \in Calls /\ c.save = call[p].save /\ c.head = head
        /\ c.allowed = Authorized(call[p].save.by, TRUE)
    BY <2>1 DEF Calls, Authorized
  <2>3. Go(p, "reauthorize", c) /\ ~HeadLock
    BY <1>2 DEF LockHead
  <2> HIDE DEF c
  <2>4. grant[c.save.by] = "edit" => c.allowed
    BY <2>2 DEF Authorized
  <2> QED BY <1>2, <2>1, <2>2, <2>3, <2>4, GoInv DEF LockHead, Steps, Locked
<1> QED BY <1>1, <1>2 DEF LockHead

LEMMA ReauthorizeInv ==
    ASSUME IInv, NEW p \in Conns, Reauthorize(p)
    PROVE  IInv'
<1>1. CASE End(p, Refused("personality_forbidden"))
  BY <1>1, EndInv, RefusedType DEF Reauthorize, Errors
<1>2. CASE Authorized(call[p].save.by, TRUE) /\ Go(p, "decide", call[p])
  <2>1. pc[p] \in Locked
    BY DEF Reauthorize, Locked
  <2>2. /\ call[p] \in Calls /\ call[p].save \in Saves \ Imports
        /\ call[p].head = head /\ head # 0 /\ call[p].allowed
    BY <1>2, <2>1 DEF IInv, TypeOK, Calls, CallOK, HeadHeld, Recorded, Authorized
  <2> QED BY <1>2, <2>1, <2>2, GoInv DEF Reauthorize, Steps, Locked
<1> QED BY <1>1, <1>2 DEF Reauthorize

LEMMA RefusalType ==
    ASSUME NEW s \in Saves, NEW h \in 0..MaxRevision
    PROVE  /\ Refusal(s, h) \in Errors \cup {None}
           /\ Refusal(s, h) = None => h = s.base /\ h < MaxRevision
  BY RevisionAssumption, NoneAssumption DEF Refusal, Errors

LEMMA DecideInv ==
    ASSUME IInv, NEW p \in Conns, Decide(p)
    PROVE  IInv'
<1> DEFINE s == call[p].save
           h == call[p].head
<1>0. /\ pc[p] \in Locked /\ call[p] \in Calls /\ s \in Saves \ Imports /\ h = head /\ h # 0
      /\ h \in 0..MaxRevision /\ call[p].allowed
  BY DEF IInv, TypeOK, Calls, Decide, CallOK, HeadHeld, NoStaleAuthority, Locked
<1>1. ASSUME NEW n \in Made(s.request),
             End(p, IF version[n] = s THEN Told(n, s) ELSE Refused("update_identity_mismatch"))
      PROVE  IInv'
  <2>1. n \in 1..MaxRevision
    BY <1>1 DEF Made, IInv, TypeOK
  <2>2. (IF version[n] = s THEN Told(n, s) ELSE Refused("update_identity_mismatch")) \in Answers
    BY <1>0, <2>1, ToldType, RefusedType DEF Errors
  <2> QED BY <1>1, <2>2, EndInv DEF Decide
<1>2. CASE Refusal(s, h) # None /\ End(p, Refused(Refusal(s, h)))
  <2>1. Refused(Refusal(s, h)) \in Answers
    BY <1>0, <1>2, RefusalType, RefusedType
  <2> QED BY <1>2, <2>1, EndInv DEF Decide
<1>3. CASE Made(s.request) = {} /\ Refusal(s, h) = None /\ Go(p, "insert", call[p])
  <2>1. s.base = head /\ head < MaxRevision
    BY <1>0, <1>3, RefusalType
  <2> QED BY <1>0, <1>3, <2>1, GoInv DEF Decide, Steps, Locked
<1> QED BY <1>1, <1>2, <1>3 DEF Decide

(* A write on top of the head, by the only connection that may make one.   *)
LEMMA WriteInv ==
    ASSUME IInv, NEW p \in Conns, NEW s \in Saves, NEW answer \in Answers, End(p, answer),
           head < MaxRevision, Made(s.request) = {},
           version' = Put(version, head + 1, s), head' = head + 1, UNCHANGED <<grant, walk>>,
           \A q \in Conns \ {p} : pc[q] \notin Locked \cup {"import"}
    PROVE  IInv'
<1> USE DEF IInv, End
<1>0. /\ UNCHANGED <<grant, walk>>
      /\ \A q \in Conns : pc'[q] = (IF q = p THEN "idle" ELSE pc[q])
      /\ \A q \in Conns : call'[q] = (IF q = p THEN NoCall ELSE call[q])
      /\ head \in 0..MaxRevision /\ head' = head + 1 /\ head' \in 1..MaxRevision
      /\ told' = answer
  BY RevisionAssumption DEF TypeOK
<1>1. /\ DOMAIN version = 1..head /\ DOMAIN version' = 1..(head + 1)
      /\ version'[head + 1] = s
      /\ \A n \in 1..head : version'[n] = version[n]
  BY <1>0 DEF Gapless, Put
<1>2. TypeOK'
  <2>1. pc' \in [Conns -> Steps]
    BY DEF TypeOK, Steps
  <2>2. call' \in [Conns -> Calls]
    BY NoCallType DEF TypeOK, Calls
  <2>3. DOMAIN version' \subseteq 1..MaxRevision /\ \A n \in DOMAIN version' : version'[n] \in Saves
    <3>1. /\ \A n \in 1..(head + 1) : n \in 1..head \/ n = head + 1
          /\ 1..(head + 1) \subseteq 1..MaxRevision
      BY <1>0, RevisionAssumption
    <3>2. \A n \in 1..head : version[n] \in Saves
      BY <1>1 DEF TypeOK
    <3> QED BY <1>1, <3>1, <3>2
  <2> QED BY <1>0, <2>1, <2>2, <2>3 DEF TypeOK, Calls, Answers
<1>3. Gapless' /\ OneRequest'
  <2>1. \A n \in 1..(head + 1) : n \in 1..head \/ n = head + 1
    BY <1>0
  <2>2. \A n \in 1..head : version[n].request # s.request
    BY <1>1 DEF Made
  <2>3. \A m, n \in 1..head : version[m].request = version[n].request => m = n
    BY <1>1 DEF OneRequest
  <2>4. \A m, n \in 1..(head + 1) : version'[m].request = version'[n].request => m = n
    BY <1>1, <2>1, <2>2, <2>3
  <2> QED BY <1>0, <1>1, <2>4 DEF Gapless, OneRequest
<1>4. OneHolder' /\ CallOK' /\ HeadHeld'
  BY <1>0 DEF OneHolder, CallOK, HeadHeld, Locked
<1>5. Decided' /\ Recorded' /\ NoStaleAuthority'
  BY <1>0 DEF Decided, Recorded, NoStaleAuthority, Locked
<1>6. WalkOK'
  <2>1. \A w \in Readers : walk[w].top \in 0..MaxRevision
    BY DEF TypeOK
  <2> QED BY <1>0, <2>1 DEF WalkOK
<1> QED BY <1>2, <1>3, <1>4, <1>5, <1>6

LEMMA CommitSaveInv ==
    ASSUME IInv, NEW p \in Conns, CommitSave(p)
    PROVE  IInv'
<1>1. PICK answer \in {None, Told(call[p].head + 1, call[p].save)} : End(p, answer)
  BY DEF CommitSave
<1>2. /\ pc[p] = "insert" /\ pc[p] \in Locked /\ call[p].head = head /\ head # 0
      /\ head < MaxRevision /\ Made(call[p].save.request) = {} /\ head \in 0..MaxRevision
      /\ call[p].save \in Saves
  BY DEF CommitSave, IInv, HeadHeld, Decided, Locked, CallOK, TypeOK
<1>3. \A q \in Conns \ {p} : pc[q] \notin Locked \cup {"import"}
  BY <1>2 DEF IInv, OneHolder, HeadHeld
<1>4. answer \in Answers
  <2>1. head + 1 \in 1..MaxRevision
    BY <1>2, RevisionAssumption
  <2> QED BY <1>1, <1>2, <2>1, ToldType DEF Answers
<1> QED BY <1>1, <1>2, <1>3, <1>4, WriteInv DEF CommitSave

LEMMA ImportCommitInv ==
    ASSUME IInv, NEW p \in Conns, ImportCommit(p)
    PROVE  IInv'
<1>1. pc[p] = "import" /\ head = 0 /\ call[p].save \in Saves /\ head < MaxRevision
  BY RevisionAssumption DEF ImportCommit, IInv, HeadHeld, CallOK, Saves
<1>2. Made(call[p].save.request) = {}
  BY <1>1 DEF IInv, Gapless, Made
<1>3. \A q \in Conns \ {p} : pc[q] \notin Locked \cup {"import"}
  BY <1>1 DEF IInv, OneHolder, HeadHeld
<1>4. /\ End(p, None) /\ None \in Answers /\ UNCHANGED <<grant, walk>>
      /\ version' = Put(version, head + 1, call[p].save) /\ head' = head + 1
  BY <1>1 DEF ImportCommit, Answers
<1> QED BY <1>1, <1>2, <1>3, <1>4, WriteInv

LEMMA GetInv ==
    ASSUME IInv, NEW e \in Editors, Get(e)
    PROVE  IInv'
<1>1. told' \in Answers
  <2>1. CASE head \in DOMAIN version
    <3>1. head \in 1..MaxRevision
      BY <2>1 DEF IInv, TypeOK
    <3> QED BY <2>1, <3>1, ToldType, RefusedType DEF Get, Errors
  <2>2. CASE head \notin DOMAIN version
    BY <2>2, RefusedType DEF Get, Errors
  <2> QED BY <2>1, <2>2
<1>2. UNCHANGED <<version, head, grant, pc, call, walk>>
  BY DEF Get, tables
<1> QED BY <1>1, <1>2 DEF IInv, TypeOK, Answers, Gapless, OneRequest, OneHolder, CallOK, HeadHeld,
               Decided, Recorded, NoStaleAuthority, WalkOK, Made

(* The largest element of a non-empty initial piece of the naturals. *)
LEMMA Largest ==
    ASSUME NEW h \in Nat, NEW c \in Nat, NEW below, below = {n \in 1..h : n < c}, below # {}
    PROVE  (CHOOSE m \in below : \A k \in below : k <= m) = IF c <= h THEN c - 1 ELSE h
<1> DEFINE top == IF c <= h THEN c - 1 ELSE h
<1>1. top \in below /\ \A k \in below : k <= top
  OBVIOUS
<1>2. \A m \in below : (\A k \in below : k <= m) => m = top
  BY <1>1
<1> QED BY <1>1, <1>2

LEMMA PageInv ==
    ASSUME IInv, NEW w \in Readers, Page(w)
    PROVE  IInv'
<1> DEFINE below == {n \in DOMAIN version : n < From(w)}
           n == CHOOSE m \in below : \A k \in below : k <= m
           new == IF below = {} THEN NoWalk
                  ELSE [cursor |-> n, seen |-> walk[w].seen \cup {n},
                        top |-> IF walk[w].seen = {} THEN head ELSE walk[w].top]
<1>1. /\ UNCHANGED <<version, head, grant, pc, call>> /\ told' = None
      /\ walk' = [walk EXCEPT ![w] = new]
  BY DEF Page, tables
<1>2. /\ walk[w].cursor \in 1..(MaxRevision + 1) /\ walk[w].seen \subseteq 1..MaxRevision
      /\ walk[w].top \in 0..MaxRevision /\ head \in 0..MaxRevision /\ MaxRevision \in Nat
      /\ DOMAIN version = 1..head
      /\ walk \in [Readers -> [cursor : 1..(MaxRevision + 1), seen : SUBSET (1..MaxRevision),
                             top : 0..MaxRevision]]
  BY RevisionAssumption DEF IInv, TypeOK, Gapless
<1>3. below # {} => n = (IF walk[w].cursor <= head THEN walk[w].cursor - 1 ELSE head)
                    /\ n \in 1..head
  <2> SUFFICES ASSUME below # {} PROVE n = (IF walk[w].cursor <= head THEN walk[w].cursor - 1 ELSE head)
                                       /\ n \in 1..head
    OBVIOUS
  <2>1. below = {k \in 1..head : k < walk[w].cursor} /\ head \in Nat /\ walk[w].cursor \in Nat
    BY <1>2 DEF From
  <2>2. n = IF walk[w].cursor <= head THEN walk[w].cursor - 1 ELSE head
    BY <2>1, Largest
  <2>3. PICK k \in 1..head : k < walk[w].cursor
    BY <2>1
  <2> HIDE DEF n
  <2> QED BY <1>2, <2>2, <2>3
<1> HIDE DEF n, below
<1>4. /\ new \in [cursor : 1..(MaxRevision + 1), seen : SUBSET (1..MaxRevision), top : 0..MaxRevision]
      /\ new.seen = {} => new.cursor = MaxRevision + 1
      /\ new.seen # {} => /\ new.seen = new.cursor..new.top
                          /\ new.cursor <= new.top /\ new.top <= head
  <2>1. CASE below = {}
    BY <1>2, <2>1 DEF NoWalk
  <2>2. CASE below # {} /\ walk[w].seen = {}
    <3>1. n = head /\ n \in 1..head
      BY <1>2, <1>3, <2>2 DEF IInv, WalkOK
    <3>2. new = [cursor |-> head, seen |-> {head}, top |-> head]
      BY <2>2, <3>1
    <3> HIDE DEF new
    <3> QED BY <1>2, <3>1, <3>2
  <2>3. CASE below # {} /\ walk[w].seen # {}
    <3>1. /\ walk[w].seen = walk[w].cursor..walk[w].top
          /\ walk[w].cursor <= walk[w].top /\ walk[w].top <= head
      BY <2>3 DEF IInv, WalkOK
    <3>2. n = walk[w].cursor - 1 /\ n \in 1..head
      BY <1>2, <1>3, <2>3, <3>1
    <3>3. walk[w].seen \cup {n} = n..walk[w].top
      BY <1>2, <3>1, <3>2
    <3>4. new = [cursor |-> n, seen |-> n..walk[w].top, top |-> walk[w].top]
      BY <2>3, <3>3
    <3> HIDE DEF new
    <3> QED BY <1>2, <3>1, <3>2, <3>4
  <2> QED BY <2>1, <2>2, <2>3
<1> HIDE DEF new
<1>5. \A v \in Readers : walk'[v] = IF v = w THEN new ELSE walk[v]
  BY <1>1, <1>2
<1>6. WalkOK'
  BY <1>1, <1>4, <1>5 DEF IInv, WalkOK
<1>7. walk' \in [Readers -> [cursor : 1..(MaxRevision + 1), seen : SUBSET (1..MaxRevision),
                            top : 0..MaxRevision]]
  BY <1>1, <1>2, <1>4
<1> QED BY <1>1, <1>6, <1>7 DEF IInv, TypeOK, Gapless, OneRequest, OneHolder, CallOK, HeadHeld,
               Decided, Recorded, NoStaleAuthority, Made

LEMMA ChangeGrantInv ==
    ASSUME IInv, NEW e \in Editors, NEW right \in Rights, ChangeGrant(e, right)
    PROVE  IInv'
<1> DEFINE allows(p) == call[p].allowed \/ (pc[p] \in Locked /\ call[p].save.by = e /\ right = "edit")
<1>1. /\ UNCHANGED <<version, head, pc, walk>> /\ told' = None
      /\ grant' = [grant EXCEPT ![e] = right]
      /\ call' = [p \in Conns |-> [call[p] EXCEPT !.allowed = allows(p)]]
  BY DEF ChangeGrant, tables
<1>2. \A p \in Conns : call[p] \in Calls
  BY DEF IInv, TypeOK, Calls
<1> HIDE DEF allows
<1>3. \A p \in Conns : /\ call'[p] \in Calls /\ call'[p].save = call[p].save
                       /\ call'[p].head = call[p].head /\ call'[p].allowed = allows(p)
  <2>1. ASSUME NEW p \in Conns
        PROVE  /\ call'[p] = [call[p] EXCEPT !.allowed = allows(p)]
               /\ call[p] \in Calls /\ allows(p) \in BOOLEAN
    BY <1>1, <1>2 DEF allows, Calls
  <2> QED BY <2>1 DEF Calls
<1>4. TypeOK'
  <2>1. call' \in [Conns -> Calls] /\ grant' \in [Editors -> Rights]
    BY <1>1, <1>3 DEF IInv, TypeOK
  <2> QED BY <1>1, <2>1 DEF IInv, TypeOK, Calls
<1>5. Gapless' /\ OneRequest' /\ OneHolder' /\ WalkOK'
  BY <1>1 DEF IInv, Gapless, OneRequest, OneHolder, WalkOK
<1>6. CallOK' /\ HeadHeld' /\ Decided' /\ NoStaleAuthority'
  <2>1. CallOK' /\ HeadHeld'
    BY <1>1, <1>3 DEF IInv, CallOK, HeadHeld
  <2>2. Decided'
    <3>1. ASSUME NEW p \in Conns, pc[p] = "insert"
          PROVE  /\ call'[p].save.base = head /\ head < MaxRevision
                 /\ {n \in DOMAIN version : version[n].request = call'[p].save.request} = {}
      <4>1. call'[p].save = call[p].save
        BY <1>3
      <4> QED BY <3>1, <4>1 DEF IInv, Decided, Made
    <3> QED BY <1>1, <3>1 DEF Decided, Made
  <2>3. NoStaleAuthority'
    BY <1>1, <1>3 DEF IInv, NoStaleAuthority, allows
  <2> QED BY <2>1, <2>2, <2>3
<1>7. Recorded'
  <2>1. \A d : grant'[d] = "edit" => grant[d] = "edit" \/ (d = e /\ right = "edit") \/ d \notin Editors
    BY <1>1 DEF IInv, TypeOK
  <2>2. \A p \in Conns : pc[p] \in Locked => call[p].save.by \in Editors
    BY DEF IInv, CallOK, Saves
  <2> SUFFICES ASSUME NEW p \in Conns, pc[p] \in Locked, grant'[call[p].save.by] = "edit"
               PROVE  call'[p].allowed
    BY <1>1, <1>3 DEF Recorded
  <2>3. allows(p)
    BY <2>1, <2>2 DEF IInv, Recorded, allows
  <2> QED BY <1>3, <2>3
<1> QED BY <1>4, <1>5, <1>6, <1>7 DEF IInv

LEMMA NextInv == IInv /\ [Next]_vars => IInv'
<1> SUFFICES ASSUME IInv, [Next]_vars PROVE IInv'
  OBVIOUS
<1>1. ASSUME NEW p \in Conns, Abort(p) PROVE IInv'
  BY <1>1, EndInv DEF Abort, Answers
<1>2. CASE UNCHANGED vars
  BY <1>2 DEF vars, tables, IInv, TypeOK, Gapless, OneRequest, OneHolder, CallOK, HeadHeld,
              Decided, Recorded, NoStaleAuthority, WalkOK, Made
<1> QED BY <1>1, <1>2, SaveBeginInv, ImportBeginInv, LockHeadInv, ReauthorizeInv, DecideInv,
           CommitSaveInv, ImportCommitInv, GetInv, PageInv, ChangeGrantInv DEF Next

(* IInv holds in every reachable state. *)
THEOREM Invariant == Spec => []IInv
  BY InitInv, NextInv, PTL DEF Spec

-----------------------------------------------------------------------------
(* Type correctness, for any number of connections and editors. *)
THEOREM TypeCorrect == Spec => []TypeOK
<1>1. IInv => TypeOK
  BY DEF IInv
<1> QED BY <1>1, Invariant, PTL

(* The checks made under the head's lock leave nothing for the constraints *)
(* of migration 004 to refuse, at the last revision either.                *)
THEOREM ConstraintsAgree == Spec => []ChecksPrecedeConstraints
<1>1. IInv => ChecksPrecedeConstraints
  <2> SUFFICES ASSUME IInv, NEW p \in Conns, pc[p] = "insert"
               PROVE  Insertable(call[p].head + 1, call[p].save)
    BY DEF ChecksPrecedeConstraints
  <2>1. /\ call[p].head = head /\ head < MaxRevision /\ head \in 0..MaxRevision
        /\ Made(call[p].save.request) = {} /\ DOMAIN version = 1..head
    BY DEF IInv, HeadHeld, Decided, Gapless, TypeOK, Locked
  <2> QED BY <2>1, RevisionAssumption DEF Insertable
<1> QED BY <1>1, Invariant, PTL

(* No save goes through on an authority lost before it got the lock. *)
THEOREM AuthorityIsFresh == Spec => []NoStaleAuthority
<1>1. IInv => NoStaleAuthority
  BY DEF IInv
<1> QED BY <1>1, Invariant, PTL

(* A walk through the history misses nothing, whatever is saved meanwhile. *)
THEOREM WalkMissesNothing == Spec => []WalkContiguous
<1>1. IInv => WalkContiguous
  BY DEF IInv, WalkOK, WalkContiguous
<1> QED BY <1>1, Invariant, PTL

(* A retry of a save that is in the history is answered with its revision, *)
(* or refused for want of authority, but never called a conflict.          *)
THEOREM RetriesAreHonoured == Spec => RetryHonoured
<1> DEFINE Kept(p) ==
        (\E n \in DOMAIN version : version[n] = call[p].save) /\ pc[p] = "decide" /\ pc'[p] = "idle"
          => told' \in {None} \cup [revision : DOMAIN version, save : {call[p].save}]
<1>1. ASSUME IInv, [Next]_vars, NEW p \in Conns
      PROVE  Kept(p)
  <2> SUFFICES ASSUME NEW n \in DOMAIN version, version[n] = call[p].save,
                      pc[p] = "decide", pc'[p] = "idle"
               PROVE  told' \in {None} \cup [revision : DOMAIN version, save : {call[p].save}]
    OBVIOUS
  <2>0. pc \in [Conns -> Steps]
    BY <1>1 DEF IInv, TypeOK
  <2>1. CASE Decide(p)
    <3>1. n \in Made(call[p].save.request)
      BY DEF Made
    <3>2. PICK m \in Made(call[p].save.request) :
            End(p, IF version[m] = call[p].save THEN Told(m, call[p].save)
                   ELSE Refused("update_identity_mismatch"))
      BY <2>0, <2>1, <3>1 DEF Decide, Go
    <3>3. m \in DOMAIN version /\ version[m] = call[p].save
      BY <1>1, <3>1, <3>2 DEF IInv, OneRequest, Made
    <3>4. told' = Told(m, call[p].save)
      BY <3>2, <3>3 DEF End
    <3> QED BY <3>3, <3>4 DEF Told
  <2>2. CASE Abort(p)
    BY <2>2 DEF Abort, End
  <2>3. CASE ~Decide(p) /\ ~Abort(p)
    <3>1. ASSUME NEW q \in Conns, q # p, NEW step, pc' = [pc EXCEPT ![q] = step] PROVE FALSE
      BY <2>0, <3>1
    <3>2. ASSUME NEW q \in Conns, q # p, NEW step, NEW c, Go(q, step, c) PROVE FALSE
      BY <3>1, <3>2 DEF Go
    <3>3. ASSUME NEW q \in Conns, q # p, NEW a, End(q, a) PROVE FALSE
      BY <3>1, <3>3 DEF End
    <3>4. ASSUME pc' = pc PROVE FALSE
      BY <3>4
    <3>5. ASSUME NEW q \in Conns, NEW s, SaveBegin(q, s) \/ ImportBegin(q, s) PROVE FALSE
      BY <3>2, <3>3, <3>5 DEF SaveBegin, ImportBegin
    <3>6. ASSUME NEW q \in Conns,
                 LockHead(q) \/ Reauthorize(q) \/ CommitSave(q) \/ ImportCommit(q)
          PROVE  FALSE
      BY <3>2, <3>3, <3>6 DEF LockHead, Reauthorize, CommitSave, ImportCommit
    <3>7. ASSUME NEW q \in Conns, Decide(q) \/ Abort(q) PROVE FALSE
      BY <2>3, <3>2, <3>3, <3>7 DEF Decide, Abort
    <3>8. ASSUME NEW w \in Readers, Page(w) PROVE FALSE
      BY <3>4, <3>8 DEF Page
    <3>9. ASSUME NEW e \in Editors, Get(e) PROVE FALSE
      BY <3>4, <3>9 DEF Get
    <3>10. ASSUME NEW e \in Editors, NEW right \in Rights, ChangeGrant(e, right) PROVE FALSE
      BY <3>4, <3>10 DEF ChangeGrant
    <3>11. ASSUME UNCHANGED vars PROVE FALSE
      BY <3>4, <3>11 DEF vars
    <3> QED BY <1>1, <3>5, <3>6, <3>7, <3>8, <3>9, <3>10, <3>11 DEF Next
  <2> QED BY <2>1, <2>2, <2>3
<1>2. IInv /\ [Next]_vars => [\A p \in Conns : Kept(p)]_vars
  BY <1>1
<1> QED BY <1>2, Invariant, PTL DEF Spec, RetryHonoured

-----------------------------------------------------------------------------
(* The history as the abstract log has it, and what a caller is told. *)
log == [n \in 1..head |-> version[n]]
shown == IF told \in [error : Errors] THEN None ELSE told

LEMMA LogIs ==
    ASSUME IInv
    PROVE  /\ log \in Seq(Saves) /\ Len(log) = head /\ head \in 0..MaxRevision
           /\ \A n \in 1..head : n \in DOMAIN version /\ log[n] = version[n]
<1>1. head \in 0..MaxRevision /\ head \in Nat /\ \A n \in 1..head : version[n] \in Saves
  BY RevisionAssumption DEF IInv, TypeOK, Gapless
<1>2. log \in [1..head -> Saves]
  BY <1>1 DEF log
<1> QED BY <1>1, <1>2 DEF log, IInv, Gapless

(* A refusal shows the log's callers nothing, an answer itself. *)
LEMMA RefusedShown ==
    ASSUME NEW error \in Errors, told' = Refused(error)
    PROVE  shown' = None
  BY DEF shown, Refused

LEMMA NoneShown ==
    ASSUME told' = None
    PROVE  shown' = None
  BY DEF shown

LEMMA ToldShown ==
    ASSUME NEW n, NEW s, told' = Told(n, s)
    PROVE  shown' = Log!Told(n, s)
<1>1. Told(n, s) \notin [error : Errors]
  BY DEF Told
<1> QED BY <1>1 DEF shown, Told, Log!Told

LEMMA SameLog ==
    ASSUME UNCHANGED <<version, head>>
    PROVE  log' = log
  BY DEF log

LEMMA SilenceRefines ==
    ASSUME UNCHANGED <<version, head>>,
           told' = None \/ \E error \in Errors : told' = Refused(error)
    PROVE  Log!Silence
<1>1. shown' = None
  BY RefusedShown, NoneShown
<1> QED BY <1>1, SameLog DEF Log!Silence, log, shown

LEMMA DecideRefines ==
    ASSUME IInv, NEW p \in Conns, Decide(p)
    PROVE  Log!Next
<1> DEFINE s == call[p].save
           h == call[p].head
<1>1. UNCHANGED <<version, head>>
  BY DEF Decide, tables
<1>2. ASSUME NEW n \in Made(s.request), version[n] = s, told' = Told(n, s)
      PROVE  Log!Next
  <2>1. n \in 1..head /\ log[n] = s /\ Len(log) = head
    BY <1>2, LogIs DEF Made, IInv, Gapless
  <2>2. log' = log /\ shown' = Log!Told(n, log[n])
    BY <1>1, <1>2, <2>1, SameLog, ToldShown
  <2> QED BY <2>1, <2>2 DEF Log!Next, Log!Answer, log, shown
<1>3. ASSUME told' = None \/ \E error \in Errors : told' = Refused(error)
      PROVE  Log!Next
  BY <1>1, <1>3, SilenceRefines DEF Log!Next
<1>4. ASSUME NEW n \in Made(s.request), version[n] # s,
             told' = Refused("update_identity_mismatch")
      PROVE  Log!Next
  BY <1>3, <1>4 DEF Errors
<1>5. ASSUME Refusal(s, h) # None, told' = Refused(Refusal(s, h)) PROVE Log!Next
  <2>1. pc[p] \in Locked
    BY DEF Decide, Locked
  <2>2. s \in Saves /\ h \in 0..MaxRevision
    BY <2>1 DEF IInv, CallOK, TypeOK
  <2>3. Refusal(s, h) \in Errors
    BY <1>5, <2>2, RefusalType
  <2> QED BY <1>3, <1>5, <2>3
<1> QED BY <1>2, <1>3, <1>4, <1>5 DEF Decide, End, Go

LEMMA CommitSaveRefines ==
    ASSUME IInv, NEW p \in Conns, CommitSave(p)
    PROVE  Log!Next
<1> DEFINE s == call[p].save
<1>1. PICK answer \in {None, Told(call[p].head + 1, s)} : End(p, answer)
  BY DEF CommitSave
<1>2. /\ pc[p] = "insert" /\ pc[p] \in Locked /\ call[p].head = head /\ head # 0
      /\ s.base = head /\ head < MaxRevision /\ Made(s.request) = {}
      /\ head \in 0..MaxRevision /\ s \in Saves
  BY DEF CommitSave, IInv, HeadHeld, Decided, Locked, CallOK, TypeOK
<1>3. /\ version' = Put(version, head + 1, s) /\ head' = head + 1 /\ DOMAIN version = 1..head
      /\ told' = answer
  BY <1>1, <1>2 DEF CommitSave, IInv, Gapless, End
<1>4. log' = Append(log, s)
  <2>1. log' = [n \in 1..(head + 1) |-> version'[n]]
    BY <1>3 DEF log
  <2>2. /\ version'[head + 1] = s
        /\ \A n \in 1..head : version'[n] = version[n]
    BY <1>2, <1>3 DEF Put
  <2>3. Append(log, s) = [n \in 1..(head + 1) |-> IF n = head + 1 THEN s ELSE log[n]]
    BY LogIs
  <2>4. ASSUME NEW n \in 1..(head + 1)
        PROVE  version'[n] = IF n = head + 1 THEN s ELSE log[n]
    <3>1. n \in 1..head \/ n = head + 1
      BY <1>2
    <3> QED BY <2>2, <3>1, LogIs
  <2> QED BY <2>1, <2>3, <2>4
<1>5. shown' \in {None, Log!Told(Len(log) + 1, s)}
  <2>1. Len(log) = call[p].head
    BY <1>2, LogIs
  <2> QED BY <1>1, <1>3, <2>1, NoneShown, ToldShown
<1>6. /\ s.base = Len(log) /\ s.base \in 1..(MaxRevision - 1)
      /\ \A n \in 1..Len(log) : log[n].request # s.request
  <2>1. \A n \in 1..head : version[n].request # s.request
    BY <1>2, <1>3 DEF Made
  <2> QED BY <1>2, <2>1, LogIs, RevisionAssumption
<1> QED BY <1>2, <1>4, <1>5, <1>6 DEF Log!Next, Log!Save, log, shown

LEMMA ImportCommitRefines ==
    ASSUME IInv, NEW p \in Conns, ImportCommit(p)
    PROVE  Log!Next
<1> DEFINE s == call[p].save
<1>1. head = 0 /\ s \in Imports /\ s \in Saves /\ s.base = 0
  BY DEF ImportCommit, IInv, HeadHeld, CallOK, Saves, Imports
<1>2. /\ version' = Put(version, 1, s) /\ head' = 1 /\ told' = None
  BY DEF ImportCommit, End
<1>3. log = <<>> /\ Len(log) = 0
  BY <1>1, LogIs
<1>4. log' = <<s>>
  <2>1. log' = [n \in 1..1 |-> version'[n]] /\ version'[1] = s
    BY <1>2 DEF log, Put
  <2> QED BY <2>1
<1>5. shown' = None
  BY <1>2, NoneShown
<1> QED BY <1>1, <1>3, <1>4, <1>5 DEF Log!Next, Log!Import, log, shown

LEMMA GetRefines ==
    ASSUME IInv, NEW e \in Editors, Get(e)
    PROVE  Log!Next
<1>1. UNCHANGED <<version, head>>
  BY DEF Get, tables
<1>2. CASE told' = Told(head, None) /\ head \in DOMAIN version
  <2>1. log # <<>> /\ Len(log) = head
    BY <1>2, LogIs DEF IInv, Gapless
  <2>2. log' = log /\ shown' = Log!Told(Len(log), None)
    BY <1>1, <1>2, <2>1, SameLog, ToldShown
  <2> QED BY <2>1, <2>2 DEF Log!Next, Log!Show, log, shown
<1>3. CASE told' = Refused("personality_forbidden") \/ told' = Refused("personality_unavailable")
  BY <1>1, <1>3, SilenceRefines DEF Log!Next, Errors
<1> QED BY <1>2, <1>3 DEF Get

(* A step that writes nothing and answers with a refusal or not at all. *)
LEMMA QuietRefines ==
    ASSUME NEW p \in Conns,
           \/ \E s \in Saves : SaveBegin(p, s) \/ ImportBegin(p, s)
           \/ LockHead(p) \/ Reauthorize(p) \/ Abort(p)
    PROVE  Log!Next
<1>1. UNCHANGED <<version, head>>
  BY DEF SaveBegin, ImportBegin, LockHead, Reauthorize, Abort, tables
<1>2. told' = None \/ \E error \in Errors : told' = Refused(error)
  BY DEF SaveBegin, ImportBegin, LockHead, Reauthorize, Abort, Go, End, Errors
<1> QED BY <1>1, <1>2, SilenceRefines DEF Log!Next

(* The transactions implement the one-step log. *)
THEOREM ImplementsLog == Spec => Implements
<1>1. Init => Log!Init
  BY DEF Init, Log!Init, Empty
<1>2. ASSUME IInv, [Next]_vars
      PROVE  [Log!Next]_Log!vars
  <2>1. CASE UNCHANGED vars
    BY <2>1 DEF vars, tables, Log!vars
  <2>2. ASSUME NEW w \in Readers, Page(w) PROVE Log!Next
    BY <2>2, SilenceRefines DEF Page, tables, Log!Next
  <2>3. ASSUME NEW e \in Editors, NEW right \in Rights, ChangeGrant(e, right) PROVE Log!Next
    BY <2>3, SilenceRefines DEF ChangeGrant, tables, Log!Next
  <2>4. Imports \subseteq Saves
    BY DEF Saves
  <2> QED BY <1>2, <2>1, <2>2, <2>3, <2>4, QuietRefines, DecideRefines, CommitSaveRefines,
             ImportCommitRefines, GetRefines DEF Next
<1> QED BY <1>1, <1>2, Invariant, PTL DEF Spec, Implements, Log!Spec

-----------------------------------------------------------------------------
(* The history itself.  A save goes in only on top of the revision that its  *)
(* editor named, so that every revision but the first names the one before   *)
(* it, and only the first is imported.                                       *)
Chained ==
    \A n \in DOMAIN version : version[n].base = n - 1 /\ (n = 1 <=> version[n] \in Imports)

(* What a step may do to the tables: nothing, or one revision on the head.   *)
Extends ==
    /\ head' = head + 1
    /\ DOMAIN version' = DOMAIN version \cup {head + 1}
    /\ \A n \in DOMAIN version : version'[n] = version[n]
    /\ version'[head + 1].base = head
    /\ head = 0 <=> version'[head + 1] \in Imports

LEMMA Bases ==
    /\ \A s \in Imports : s.base = 0
    /\ \A s \in Saves \ Imports : s \in Saves /\ s \notin Imports
BY DEF Imports, Saves

LEMMA WriteExtends ==
    ASSUME IInv, NEW p \in Conns, CommitSave(p) \/ ImportCommit(p) PROVE Extends
<1>1. CASE CommitSave(p)
  <2>1. pc[p] = "insert" /\ pc[p] \in Locked
    BY <1>1 DEF CommitSave, Locked
  <2>2. PICK s : s = call[p].save
    OBVIOUS
  <2>3. /\ s \in Saves \ Imports /\ s.base = head /\ call[p].head = head /\ head # 0
        /\ head + 1 \notin DOMAIN version
    BY <1>1, <2>1, <2>2 DEF CommitSave, Insertable, IInv, CallOK, HeadHeld, Decided
  <2>4. version' = Put(version, head + 1, s) /\ head' = head + 1
    BY <1>1, <2>2, <2>3 DEF CommitSave
  <2> QED BY <2>3, <2>4 DEF Extends, Put
<1>2. CASE ImportCommit(p)
  <2>1. PICK s : s = call[p].save
    OBVIOUS
  <2>2. s \in Imports /\ s.base = 0 /\ head = 0 /\ 1 \notin DOMAIN version
    BY <1>2, <2>1, Bases DEF ImportCommit, Insertable, IInv, CallOK, HeadHeld
  <2>3. version' = Put(version, 1, s) /\ head' = 1 /\ head + 1 = 1
    BY <1>2, <2>1, <2>2 DEF ImportCommit
  <2> QED BY <2>2, <2>3 DEF Extends, Put
<1> QED BY <1>1, <1>2

LEMMA NextExtends == ASSUME IInv, [Next]_vars PROVE Extends \/ UNCHANGED tables
<1>1. ASSUME NEW p \in Conns, NEW s, SaveBegin(p, s) \/ ImportBegin(p, s)
      PROVE  UNCHANGED tables
  BY <1>1 DEF SaveBegin, ImportBegin
<1>2. ASSUME NEW p \in Conns, LockHead(p) \/ Reauthorize(p) \/ Decide(p) \/ Abort(p)
      PROVE  UNCHANGED tables
  BY <1>2 DEF LockHead, Reauthorize, Decide, Abort
<1>3. ASSUME NEW e, NEW right, Page(e) \/ Get(e) \/ ChangeGrant(e, right)
      PROVE  UNCHANGED tables
  BY <1>3 DEF Page, Get, ChangeGrant
<1> QED BY <1>1, <1>2, <1>3, WriteExtends DEF Next, vars, tables

LEMMA NextChained == IInv /\ Chained /\ [Next]_vars => Chained'
<1> SUFFICES ASSUME IInv, Chained, [Next]_vars PROVE Chained'
  OBVIOUS
<1>1. CASE UNCHANGED tables
  BY <1>1 DEF Chained, tables
<1>2. CASE Extends
  <2>1. DOMAIN version = 1..head /\ head \in Nat
    BY DEF IInv, Gapless, TypeOK
  <2>2. ASSUME NEW n \in DOMAIN version
        PROVE  version'[n].base = n - 1 /\ (n = 1 <=> version'[n] \in Imports)
    BY <1>2, <2>2 DEF Chained, Extends
  <2>3. /\ version'[head + 1].base = (head + 1) - 1
        /\ head + 1 = 1 <=> version'[head + 1] \in Imports
    BY <1>2, <2>1 DEF Extends
  <2> QED BY <1>2, <2>2, <2>3 DEF Chained, Extends
<1> QED BY <1>1, <1>2, NextExtends

(* The history is one chain of edits from one import: each revision was      *)
(* saved on top of exactly the one before it, over all the retries, lost     *)
(* answers and rival editors (personality.py:197-226).                       *)
THEOREM HistoryIsAChain == Spec => []Chained
<1>1. Init => Chained
  BY DEF Init, Empty, Chained
<1> QED BY <1>1, Invariant, NextChained, PTL DEF Spec

(* Revisions are immutable and the head only ever moves on by one.           *)
Appended ==
    /\ \A n \in DOMAIN version : n \in DOMAIN version' /\ version'[n] = version[n]
    /\ head' = head \/ head' = head + 1

AppendOnly == [][Appended]_vars

(* No transaction, refused, repeated or aborted, changes or loses a revision:*)
(* that a revision is immutable is up to personality.py, no trigger says so. *)
THEOREM RevisionsAreImmutable == Spec => AppendOnly
<1>1. IInv /\ [Next]_vars => [Appended]_vars
  BY NextExtends DEF Extends, Appended, tables
<1> QED BY <1>1, Invariant, PTL DEF Spec, AppendOnly
=============================================================================
