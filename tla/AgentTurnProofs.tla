-------------------------- MODULE AgentTurnProofs ---------------------------
(***************************************************************************)
(* Proofs about AgentTurn, for any number of processes, requests, messages *)
(* carried over and personality saves.  The invariant IInv rests on one    *)
(* idea: a session whose start was heard to commit owns its conversation.  *)
(* Nobody else owns it, ever, so that what the owner knows about it from   *)
(* its own steps stays true.                                               *)
(***************************************************************************)
EXTENDS AgentTurn, SequenceTheorems, TLAPS

(* What a session knows about itself and its conversation. *)
SessionFacts(p) ==
    LET t == turn[p]
    IN /\ t.step # "idle" => t.request \in Requests
       /\ t.step \in StartSteps => ~t.runtime /\ t.said = <<>>
       /\ t.step \in StartSteps \cup AskSteps => ~t.failed /\ ~t.answered
       /\ t.step \in AskSteps => t.runtime
       /\ t.step \in {"close", "release"} /\ ~t.runtime => t.failed
       /\ t.answered \/ t.lease = "known" => t.runtime
       /\ t.lease = "known" => ~t.failed

(* The conversation of an owner exists, is open until the owner closes it,   *)
(* and holds what the owner wrote, which is what it remembers of it unless a *)
(* save failed.                                                              *)
OwnerFacts(p) ==
    LET t == turn[p]
        c == conversation[t.request]
    IN t.runtime =>
         /\ t.request \in DOMAIN conversation
         /\ t.step \in AskSteps \cup {"close"} => c.open
         /\ t.step = "release" /\ t.clean => ~c.open
         /\ t.lease = "known" => ~c.open
         /\ ~t.failed => c.messages = t.said
         /\ t.step \in {"ask", "saveUser"} => c.messages = <<>> /\ executions[t.request] = 0
         /\ t.step = "execute" =>
              c.messages = <<<<"user", t.request>>>> /\ executions[t.request] = 0
         /\ t.step \in {"executing", "saveAnswer"} =>
              c.messages = <<<<"user", t.request>>>> /\ executions[t.request] = 1
         /\ t.answered => c.messages = <<<<"user", t.request>>, <<"assistant", t.request>>>>

(* What a session read from its parent is still there when it starts. *)
SnapshotFacts(p) ==
    LET t == turn[p]
    IN t.step \in {"validate", "start"} =>
         /\ t.persona \in Nat
         /\ t.parent # None =>
              /\ t.parent \in DOMAIN conversation
              /\ ~conversation[t.parent].open
              /\ t.persona = conversation[t.parent].persona
              /\ t.history = LastOf(conversation[t.parent].history
                                      \o conversation[t.parent].messages)

OneOwner ==
    \A p, q \in Processes :
        p # q /\ turn[p].runtime /\ turn[q].runtime => turn[p].request # turn[q].request

Executed ==
    \A r \in Requests :
        executions[r] <= 1 /\ (r \notin DOMAIN conversation => executions[r] = 0)

IInv ==
    /\ TypeOK
    /\ \A p \in Processes : SessionFacts(p) /\ OwnerFacts(p) /\ SnapshotFacts(p)
    /\ OneOwner
    /\ Executed
    /\ OkMeansDurable
    /\ LineageFrozen

-----------------------------------------------------------------------------
(* The type of one session and of one stored conversation. *)
Session ==
    [step : Steps, request : Requests \cup {None}, parent : Requests \cup {None},
     history : Seq(Messages), persona : Nat \cup {None}, said : Seq(Messages),
     runtime : BOOLEAN, failed : BOOLEAN, answered : BOOLEAN, clean : BOOLEAN,
     lease : {"none", "held", "known", "unknown"}]

Row ==
    [parent : Requests \cup {None}, persona : Nat, history : Seq(Messages),
     messages : Seq(Messages), open : BOOLEAN]

(* The carried window is a sequence of the same messages. *)
LEMMA LastOfType ==
    ASSUME NEW S, NEW s \in Seq(S), NEW t \in Seq(S) PROVE LastOf(s \o t) \in Seq(S)
<1>1. s \o t \in Seq(S)
  BY ConcatProperties
<1>2. CASE Len(s \o t) <= Window
  BY <1>1, <1>2 DEF LastOf
<1>3. CASE ~(Len(s \o t) <= Window)
  <2> DEFINE k == Len(s \o t) - Window + 1
  <2>1. Len(s \o t) \in Nat /\ Window \in Nat
    BY <1>1, LenProperties, WindowAssumption
  <2>2. k \in 1..Len(s \o t) + 1 /\ Len(s \o t) \in k - 1 .. Len(s \o t)
    BY <1>3, <2>1
  <2>3. SubSeq(s \o t, k, Len(s \o t)) \in Seq(S)
    BY <1>1, <2>1, <2>2, SubSeqProperties
  <2> QED BY <1>3, <2>3 DEF LastOf
<1> QED BY <1>2, <1>3

LEMMA NewTurnType == NewTurn \in Session /\ <<>> \in Seq(Messages)
BY DEF NewTurn, Session, Steps

LEMMA InitIInv == Init => IInv
<1> SUFFICES ASSUME Init PROVE IInv
  OBVIOUS
<1>1. TypeOK
  <2>1. turn \in [Processes -> Session]
    BY NewTurnType DEF Init
  <2>2. DOMAIN conversation = {}
    BY DEF Init, Empty
  <2> QED BY <2>1, <2>2 DEF Init, TypeOK, Session, Empty
<1>2. \A p \in Processes : SessionFacts(p) /\ OwnerFacts(p) /\ SnapshotFacts(p)
  BY DEF Init, NewTurn, SessionFacts, OwnerFacts, SnapshotFacts, StartSteps, AskSteps
<1>3. OneOwner /\ Executed
  BY DEF Init, NewTurn, OneOwner, Executed
<1>4. OkMeansDurable /\ LineageFrozen
  BY DEF Init, Empty, OkMeansDurable, LineageFrozen
<1> QED BY <1>1, <1>2, <1>3, <1>4 DEF IInv

-----------------------------------------------------------------------------
(* What a step of process p leaves alone: the other sessions, every          *)
(* conversation that p does not own, all closed ones, and what any of them   *)
(* started from.  Only a new conversation can get a new owner.               *)
Frame(p) ==
    /\ \A q \in Processes \ {p} : turn'[q] = turn[q]
    /\ turn'[p].runtime =>
         /\ turn'[p].request = turn[p].request
         /\ turn[p].runtime \/ turn[p].request \notin DOMAIN conversation
    /\ DOMAIN conversation \subseteq DOMAIN conversation'
    /\ \A s \in DOMAIN conversation :
         /\ \/ s = turn[p].request /\ turn[p].runtime
            \/ conversation'[s] = conversation[s] /\ executions'[s] = executions[s]
         /\ ~conversation[s].open => conversation'[s] = conversation[s]
         /\ conversation'[s].parent = conversation[s].parent
         /\ conversation'[s].persona = conversation[s].persona
         /\ conversation'[s].history = conversation[s].history

LEMMA OthersKeep ==
    ASSUME IInv, NEW p \in Processes, Frame(p)
    PROVE  /\ \A q \in Processes \ {p} :
                SessionFacts(q)' /\ OwnerFacts(q)' /\ SnapshotFacts(q)'
           /\ OneOwner'
<1>1. ASSUME NEW q \in Processes \ {p} PROVE SessionFacts(q)'
  BY <1>1 DEF IInv, SessionFacts, Frame
<1>2. ASSUME NEW q \in Processes \ {p} PROVE OwnerFacts(q)'
  <2> DEFINE r == turn[q].request
  <2>1. turn'[q] = turn[q]
    BY <1>2 DEF Frame
  <2>2. CASE ~turn[q].runtime
    BY <2>1, <2>2 DEF OwnerFacts
  <2>3. CASE turn[q].runtime
    <3>1. OwnerFacts(q) /\ r \in DOMAIN conversation
      BY <2>3 DEF IInv, OwnerFacts
    <3>2. ~(r = turn[p].request /\ turn[p].runtime)
      BY <2>3 DEF IInv, OneOwner
    <3>3. r \in DOMAIN conversation' /\ conversation'[r] = conversation[r]
          /\ executions'[r] = executions[r]
      BY <3>1, <3>2 DEF Frame
    <3> QED BY <2>1, <3>1, <3>3 DEF OwnerFacts
  <2> QED BY <2>2, <2>3
<1>3. ASSUME NEW q \in Processes \ {p} PROVE SnapshotFacts(q)'
  BY <1>3 DEF IInv, SnapshotFacts, Frame
<1>4. OneOwner'
  <2> SUFFICES ASSUME NEW q1 \in Processes, NEW q2 \in Processes, q1 # q2,
                      turn'[q1].runtime, turn'[q2].runtime
               PROVE  turn'[q1].request # turn'[q2].request
    BY DEF OneOwner
  <2>1. \A q \in Processes : turn[q].runtime => turn[q].request \in DOMAIN conversation
    BY DEF IInv, OwnerFacts
  <2> QED BY <2>1 DEF IInv, OneOwner, Frame
<1> QED BY <1>1, <1>2, <1>3, <1>4

LEMMA RowsKeep ==
    ASSUME IInv, NEW p \in Processes, Frame(p), NEW r \in DOMAIN conversation
    PROVE  /\ r \in acknowledged =>
                /\ r \in DOMAIN conversation'
                /\ ~conversation'[r].open
                /\ conversation'[r].messages = <<<<"user", r>>, <<"assistant", r>>>>
           /\ conversation'[r].parent # None =>
                /\ conversation'[r].parent \in DOMAIN conversation' \ {r}
                /\ ~conversation'[conversation'[r].parent].open
                /\ conversation'[r].persona = conversation'[conversation'[r].parent].persona
                /\ conversation'[r].history =
                     LastOf(conversation'[conversation'[r].parent].history
                              \o conversation'[conversation'[r].parent].messages)
BY DEF IInv, OkMeansDurable, LineageFrozen, Frame

(* A step that stores no new conversation, acknowledges nothing and starts   *)
(* no inference preserves everything but what is proved of p itself.         *)
LEMMA QuietStep ==
    ASSUME IInv, NEW p \in Processes, Frame(p), DOMAIN conversation' = DOMAIN conversation,
           UNCHANGED <<executions, acknowledged>>,
           TypeOK', SessionFacts(p)', OwnerFacts(p)', SnapshotFacts(p)'
    PROVE  IInv'
<1>1. \A q \in Processes : SessionFacts(q)' /\ OwnerFacts(q)' /\ SnapshotFacts(q)'
  BY OthersKeep
<1>2. OneOwner' /\ Executed'
  BY OthersKeep DEF IInv, Executed
<1>3. acknowledged \subseteq DOMAIN conversation
  BY DEF IInv, OkMeansDurable
<1>4. OkMeansDurable' /\ LineageFrozen'
  BY <1>3, RowsKeep DEF OkMeansDurable, LineageFrozen
<1> QED BY <1>1, <1>2, <1>4 DEF IInv

(* A step that only changes the session of p. *)
LEMMA SessionStep ==
    ASSUME IInv, NEW p \in Processes, NEW t \in Session, turn' = [turn EXCEPT ![p] = t],
           UNCHANGED <<conversation, revision, executions, acknowledged>>,
           t.runtime => t.request = turn[p].request /\ turn[p].runtime,
           SessionFacts(p)', OwnerFacts(p)', SnapshotFacts(p)'
    PROVE  IInv'
<1>1. turn' \in [Processes -> Session] /\ turn'[p] = t
  BY DEF IInv, TypeOK, Session
<1>2. TypeOK'
  BY <1>1 DEF IInv, TypeOK, Session
<1>3. Frame(p)
  BY <1>1 DEF Frame
<1> QED BY <1>2, <1>3, QuietStep

LEMMA Typed ==
    ASSUME IInv, NEW p \in Processes
    PROVE  /\ turn[p] \in Session /\ turn \in [Processes -> Session]
           /\ SessionFacts(p) /\ OwnerFacts(p) /\ SnapshotFacts(p)
           /\ conversation \in [DOMAIN conversation -> Row]
BY DEF IInv, TypeOK, Session, Row

-----------------------------------------------------------------------------
LEMMA BeginStep == ASSUME IInv, NEW p \in Processes, Begin(p) PROVE IInv'
<1>1. PICK r \in Requests, q \in Requests \cup {None} :
        turn' = [turn EXCEPT ![p] = [NewTurn EXCEPT !.step = "resolve", !.request = r,
                                                    !.parent = q, !.lease = "held"]]
  BY DEF Begin
<1> DEFINE t == [NewTurn EXCEPT !.step = "resolve", !.request = r, !.parent = q,
                                !.lease = "held"]
<1>2. t \in Session /\ t.step = "resolve" /\ t.request = r /\ ~t.runtime /\ ~t.failed
      /\ t.said = <<>> /\ ~t.answered /\ t.lease = "held"
  BY NewTurnType DEF NewTurn, Session, Steps, StartSteps
<1>3. turn'[p] = t
  BY <1>1, Typed
<1>4. SessionFacts(p)' /\ OwnerFacts(p)' /\ SnapshotFacts(p)'
  BY <1>2, <1>3 DEF SessionFacts, OwnerFacts, SnapshotFacts, StartSteps, AskSteps
<1> QED BY <1>1, <1>2, <1>4, SessionStep DEF Begin

LEMMA CrashStep == ASSUME IInv, NEW p \in Processes, Crash(p) PROVE IInv'
<1> DEFINE t == [NewTurn EXCEPT !.lease = "unknown"]
<1>1. t \in Session /\ t.step = "idle" /\ ~t.runtime /\ ~t.answered /\ t.lease = "unknown"
  BY NewTurnType DEF NewTurn, Session, Steps
<1>2. turn' = [turn EXCEPT ![p] = t] /\ turn'[p] = t
  BY Typed DEF Crash
<1>3. SessionFacts(p)' /\ OwnerFacts(p)' /\ SnapshotFacts(p)'
  BY <1>1, <1>2 DEF SessionFacts, OwnerFacts, SnapshotFacts, StartSteps, AskSteps
<1> QED BY <1>1, <1>2, <1>3, SessionStep DEF Crash

(* A start that fails leaves a session without a conversation of its own. *)
LEMMA FailStartStep ==
    ASSUME IInv, NEW p \in Processes, turn[p].step \in StartSteps, FailStart(p),
           UNCHANGED <<conversation, revision, executions, acknowledged>>
    PROVE  IInv'
<1> DEFINE t == [turn[p] EXCEPT !.step = "close", !.failed = TRUE, !.lease = "unknown"]
<1>1. t \in Session /\ t.step = "close" /\ t.request = turn[p].request /\ t.failed
      /\ t.runtime = turn[p].runtime /\ t.answered = turn[p].answered /\ t.lease = "unknown"
  BY Typed DEF Session, Steps
<1>2. turn' = [turn EXCEPT ![p] = t] /\ turn'[p] = t
  BY Typed DEF FailStart, Session
<1>3. SessionFacts(p)' /\ OwnerFacts(p)' /\ SnapshotFacts(p)'
  BY <1>1, <1>2, Typed DEF SessionFacts, OwnerFacts, SnapshotFacts, StartSteps, AskSteps
<1> QED BY <1>1, <1>2, <1>3, Typed, SessionStep DEF SessionFacts

(* A session goes from one step to the next and knows as much as before. *)
LEMMA GoStep ==
    ASSUME IInv, NEW p \in Processes, NEW s \in Steps, Go(p, s),
           UNCHANGED <<conversation, revision, executions, acknowledged>>,
           <<turn[p].step, s>> \in
             {<<"resolve", "open">>, <<"validate", "start">>, <<"ask", "saveUser">>,
              <<"ask", "close">>, <<"execute", "close">>, <<"executing", "saveAnswer">>,
              <<"executing", "close">>}
    PROVE  IInv'
<1> DEFINE t == [turn[p] EXCEPT !.step = s]
<1>1. /\ t \in Session /\ t.step = s /\ t.request = turn[p].request /\ t.failed = turn[p].failed
      /\ t.runtime = turn[p].runtime /\ t.answered = turn[p].answered
      /\ t.lease = turn[p].lease /\ t.parent = turn[p].parent
      /\ t.persona = turn[p].persona /\ t.history = turn[p].history /\ t.said = turn[p].said
  BY Typed DEF Session
<1>2. turn' = [turn EXCEPT ![p] = t] /\ turn'[p] = t
  BY Typed DEF Go, Session
<1>3. SessionFacts(p)'
  BY <1>1, <1>2, Typed DEF SessionFacts, StartSteps, AskSteps
<1>4. OwnerFacts(p)'
  BY <1>1, <1>2, Typed DEF OwnerFacts, SessionFacts, StartSteps, AskSteps
<1>5. SnapshotFacts(p)'
  BY <1>1, <1>2, Typed DEF SnapshotFacts
<1> QED BY <1>1, <1>2, <1>3, <1>4, <1>5, SessionStep

LEMMA OpenStoreStep == ASSUME IInv, NEW p \in Processes, OpenStore(p) PROVE IInv'
<1>1. turn[p].step = "open"
  BY DEF OpenStore, At
<1>2. CASE FailStart(p)
  BY <1>1, <1>2, FailStartStep DEF OpenStore, StartSteps
<1>3. CASE /\ turn[p].parent # None => Selectable(turn[p].parent)
           /\ turn' = [turn EXCEPT ![p].step = "validate",
                                   ![p].history = Snapshot(turn[p].parent).history,
                                   ![p].persona = Snapshot(turn[p].parent).persona]
  <2> DEFINE n == Snapshot(turn[p].parent)
             t == [turn[p] EXCEPT !.step = "validate", !.history = n.history,
                                  !.persona = n.persona]
  <2>1. /\ n.history \in Seq(Messages) /\ n.persona \in Nat
        /\ turn[p].parent # None =>
             /\ n.persona = conversation[turn[p].parent].persona
             /\ n.history = LastOf(conversation[turn[p].parent].history
                                     \o conversation[turn[p].parent].messages)
    <3>1. CASE turn[p].parent = None
      BY <3>1, NewTurnType DEF Snapshot, IInv, TypeOK
    <3>2. CASE turn[p].parent # None
      <4>1. conversation[turn[p].parent] \in Row
        BY <1>3, <3>2, Typed DEF Selectable
      <4>2. /\ conversation[turn[p].parent].history \in Seq(Messages)
            /\ conversation[turn[p].parent].messages \in Seq(Messages)
            /\ conversation[turn[p].parent].persona \in Nat
        BY <4>1 DEF Row
      <4> QED BY <3>2, <4>2, LastOfType DEF Snapshot
    <3> QED BY <3>1, <3>2
  <2> HIDE DEF n
  <2>2. /\ t \in Session /\ t.step = "validate" /\ t.request = turn[p].request
        /\ t.failed = turn[p].failed /\ t.runtime = turn[p].runtime
        /\ t.answered = turn[p].answered /\ t.lease = turn[p].lease
        /\ t.parent = turn[p].parent /\ t.persona = n.persona /\ t.history = n.history
        /\ t.said = turn[p].said
    BY <2>1, Typed DEF Session, Steps, StartSteps
  <2>3. turn' = [turn EXCEPT ![p] = t] /\ turn'[p] = t
    BY <1>3, Typed DEF Session, n
  <2>4. SessionFacts(p)'
    BY <1>1, <2>2, <2>3, Typed DEF SessionFacts, StartSteps, AskSteps
  <2>5. OwnerFacts(p)'
    BY <1>1, <2>2, <2>3, Typed DEF OwnerFacts, SessionFacts, StartSteps, AskSteps
  <2>6. SnapshotFacts(p)'
    BY <1>3, <2>1, <2>2, <2>3 DEF SnapshotFacts, OpenStore, Selectable
  <2> QED BY <2>2, <2>3, <2>4, <2>5, <2>6, SessionStep DEF OpenStore
<1> QED BY <1>2, <1>3 DEF OpenStore

-----------------------------------------------------------------------------
(* The row of a new conversation. *)
LEMMA NewRow ==
    ASSUME IInv, NEW p \in Processes, turn[p].step = "start"
    PROVE  NewConversation(turn[p]) \in Row
<1>1. turn[p] \in Session /\ turn[p].persona \in Nat
  BY Typed DEF SnapshotFacts
<1> QED BY <1>1, NewTurnType DEF Session, Row, NewConversation

(* The conversation is stored; whether p hears of it decides who owns it. *)
LEMMA AdmitStep ==
    ASSUME IInv, NEW p \in Processes, turn[p].step = "start",
           turn[p].request \notin DOMAIN conversation,
           conversation' = Put(conversation, turn[p].request, NewConversation(turn[p])),
           NEW t \in Session, turn' = [turn EXCEPT ![p] = t],
           t.request = turn[p].request, ~t.answered, t.lease # "known", t.said = <<>>,
           \/ t.step = "ask" /\ t.runtime /\ ~t.failed
           \/ t.step = "close" /\ ~t.runtime /\ t.failed,
           UNCHANGED <<revision, executions, acknowledged>>
    PROVE  IInv'
<1> DEFINE r == turn[p].request
           c == NewConversation(turn[p])
<1>1. c \in Row /\ c.parent = turn[p].parent /\ c.persona = turn[p].persona
      /\ c.history = turn[p].history /\ c.messages = <<>> /\ c.open
  BY NewRow DEF NewConversation
<1>2. r \in Requests /\ executions[r] = 0
  BY Typed DEF SessionFacts, IInv, Executed
<1>3. /\ DOMAIN conversation' = DOMAIN conversation \cup {r}
      /\ conversation'[r] = c
      /\ \A s \in DOMAIN conversation : conversation'[s] = conversation[s]
  BY DEF Put
<1> HIDE DEF c
<1>4. turn' \in [Processes -> Session] /\ turn'[p] = t
      /\ \A q \in Processes \ {p} : turn'[q] = turn[q]
  BY Typed
<1>5. conversation' \in [DOMAIN conversation' -> Row]
  <2>1. \A s \in DOMAIN conversation' : conversation'[s] \in Row
    BY <1>1, <1>3, Typed
  <2>2. conversation' = [s \in DOMAIN conversation' |-> conversation'[s]]
    BY DEF Put
  <2> QED BY <2>1, <2>2
<1>6. TypeOK'
  BY <1>2, <1>3, <1>4, <1>5 DEF IInv, TypeOK, Session, Row
<1>7. Frame(p)
  BY <1>3, <1>4 DEF Frame
<1>8. SessionFacts(p)' /\ SnapshotFacts(p)'
  BY <1>2, <1>4 DEF SessionFacts, SnapshotFacts, StartSteps, AskSteps
<1>9. OwnerFacts(p)'
  BY <1>1, <1>2, <1>3, <1>4 DEF OwnerFacts, AskSteps
<1>10. \A q \in Processes : SessionFacts(q)' /\ OwnerFacts(q)' /\ SnapshotFacts(q)'
  BY <1>7, <1>8, <1>9, OthersKeep
<1>11. OneOwner' /\ Executed'
  BY <1>3, <1>7, OthersKeep DEF IInv, Executed
<1>12. OkMeansDurable'
  <2>1. acknowledged \subseteq DOMAIN conversation
    BY DEF IInv, OkMeansDurable
  <2> QED BY <1>7, <2>1, RowsKeep DEF OkMeansDurable
<1>13. LineageFrozen'
  <2>1. c.parent # None =>
          /\ c.parent \in DOMAIN conversation \ {r}
          /\ ~conversation[c.parent].open
          /\ c.persona = conversation[c.parent].persona
          /\ c.history = LastOf(conversation[c.parent].history
                                  \o conversation[c.parent].messages)
    BY <1>1, Typed DEF SnapshotFacts
  <2>2. c.parent # None =>
          /\ c.parent \in DOMAIN conversation' \ {r}
          /\ ~conversation'[c.parent].open
          /\ c.persona = conversation'[c.parent].persona
          /\ c.history = LastOf(conversation'[c.parent].history
                                  \o conversation'[c.parent].messages)
    BY <1>3, <2>1
  <2> QED BY <1>3, <1>7, <2>2, RowsKeep DEF LineageFrozen
<1> QED BY <1>6, <1>10, <1>11, <1>12, <1>13 DEF IInv

LEMMA StartStoreStep == ASSUME IInv, NEW p \in Processes, StartStore(p) PROVE IInv'
<1> DEFINE r == turn[p].request
           heard == [turn[p] EXCEPT !.step = "ask", !.runtime = TRUE]
           unheard == [turn[p] EXCEPT !.step = "close", !.failed = TRUE, !.lease = "unknown"]
<1>1. turn[p].step = "start"
  BY DEF StartStore, At
<1>2. /\ ~turn[p].runtime /\ ~turn[p].failed /\ ~turn[p].answered
      /\ turn[p].lease # "known" /\ turn[p].said = <<>>
  BY <1>1, Typed DEF SessionFacts, StartSteps
<1>3. /\ heard \in Session /\ heard.step = "ask" /\ heard.runtime /\ ~heard.failed
      /\ heard.request = r /\ ~heard.answered /\ heard.lease # "known" /\ heard.said = <<>>
  BY <1>2, Typed DEF Session, Steps, AskSteps
<1>4. /\ unheard \in Session /\ unheard.step = "close" /\ ~unheard.runtime /\ unheard.failed
      /\ unheard.request = r /\ ~unheard.answered /\ unheard.lease # "known"
      /\ unheard.said = <<>>
  BY <1>2, Typed DEF Session, Steps
<1>5. CASE FailStart(p) /\ UNCHANGED conversation
  BY <1>1, <1>5, FailStartStep DEF StartStore, StartSteps
<1>6. CASE /\ ~Fenced(r)
           /\ conversation' = Put(conversation, r, NewConversation(turn[p]))
           /\ \/ turn' = [turn EXCEPT ![p].step = "ask", ![p].runtime = TRUE]
              \/ FailStart(p)
  <2>1. r \notin DOMAIN conversation
    BY <1>6 DEF Fenced
  <2>2. turn' = [turn EXCEPT ![p] = heard] \/ turn' = [turn EXCEPT ![p] = unheard]
    BY <1>6, Typed DEF FailStart, Session
  <2>3. UNCHANGED <<revision, executions, acknowledged>>
    BY DEF StartStore
  <2>4. CASE turn' = [turn EXCEPT ![p] = heard]
    BY <1>1, <1>3, <1>6, <2>1, <2>3, <2>4, AdmitStep
  <2>5. CASE turn' = [turn EXCEPT ![p] = unheard]
    BY <1>1, <1>4, <1>6, <2>1, <2>3, <2>5, AdmitStep
  <2> QED BY <2>2, <2>4, <2>5
<1> QED BY <1>5, <1>6 DEF StartStore

-----------------------------------------------------------------------------
(* What a session keeps when it goes on, or when a save fails. *)
LEMMA GoType ==
    ASSUME IInv, NEW p \in Processes, NEW s \in Steps, Go(p, s)
    PROVE  /\ turn' \in [Processes -> Session]
           /\ \A q \in Processes \ {p} : turn'[q] = turn[q]
           /\ turn'[p].step = s /\ turn'[p].failed = turn[p].failed
           /\ turn'[p].request = turn[p].request /\ turn'[p].runtime = turn[p].runtime
           /\ turn'[p].answered = turn[p].answered /\ turn'[p].lease = turn[p].lease
           /\ turn'[p].said = turn[p].said
<1> DEFINE t == [turn[p] EXCEPT !.step = s]
<1>1. turn' = [turn EXCEPT ![p] = t]
  BY DEF Go
<1>2. t \in Session /\ t.step = s /\ t.failed = turn[p].failed /\ t.said = turn[p].said
      /\ t.request = turn[p].request /\ t.runtime = turn[p].runtime
      /\ t.answered = turn[p].answered /\ t.lease = turn[p].lease
  BY Typed DEF Session
<1> HIDE DEF t
<1> QED BY <1>1, <1>2, Typed

LEMMA FailSaveType ==
    ASSUME IInv, NEW p \in Processes, FailSave(p)
    PROVE  /\ turn' \in [Processes -> Session]
           /\ \A q \in Processes \ {p} : turn'[q] = turn[q]
           /\ turn'[p].step = "close" /\ turn'[p].failed
           /\ turn'[p].request = turn[p].request /\ turn'[p].runtime = turn[p].runtime
           /\ turn'[p].answered = turn[p].answered /\ turn'[p].lease = turn[p].lease
<1> DEFINE t == [turn[p] EXCEPT !.step = "close", !.failed = TRUE]
<1>1. turn' = [turn EXCEPT ![p] = t]
  BY Typed DEF FailSave, Session
<1>2. t \in Session /\ t.step = "close" /\ t.failed
      /\ t.request = turn[p].request /\ t.runtime = turn[p].runtime
      /\ t.answered = turn[p].answered /\ t.lease = turn[p].lease
  BY Typed DEF Session, Steps
<1> HIDE DEF t
<1> QED BY <1>1, <1>2, Typed

(* What it keeps, and remembers, when a save is heard to succeed. *)
LEMMA HeardType ==
    ASSUME IInv, NEW p \in Processes, NEW s \in Steps, NEW role \in {"user", "assistant"},
           turn[p].request \in Requests, Heard(p, role, s)
    PROVE  /\ turn' \in [Processes -> Session]
           /\ \A q \in Processes \ {p} : turn'[q] = turn[q]
           /\ turn'[p].step = s /\ turn'[p].failed = turn[p].failed
           /\ turn'[p].request = turn[p].request /\ turn'[p].runtime = turn[p].runtime
           /\ turn'[p].answered = (role = "assistant") /\ turn'[p].lease = turn[p].lease
           /\ turn'[p].said = Append(turn[p].said, <<role, turn[p].request>>)
<1>1. PICK said : said = Append(turn[p].said, <<role, turn[p].request>>)
  OBVIOUS
<1>2. PICK answered \in BOOLEAN : answered = (role = "assistant")
  OBVIOUS
<1> DEFINE t == [turn[p] EXCEPT !.step = s, !.said = said, !.answered = answered]
<1>3. said \in Seq(Messages)
  <2>1. <<role, turn[p].request>> \in Messages
    BY DEF Messages
  <2>2. turn[p].said \in Seq(Messages)
    BY Typed DEF Session
  <2> QED BY <1>1, <2>1, <2>2, AppendProperties
<1>4. turn' = [turn EXCEPT ![p] = t]
  BY <1>1, <1>2, Typed DEF Heard, Session
<1>5. t \in Session /\ t.step = s /\ t.failed = turn[p].failed
      /\ t.request = turn[p].request /\ t.runtime = turn[p].runtime
      /\ t.answered = answered /\ t.lease = turn[p].lease /\ t.said = said
  BY <1>3, Typed DEF Session
<1> HIDE DEF t
<1> QED BY <1>1, <1>2, <1>4, <1>5, Typed

(* The owner writes one message into its open conversation. *)
LEMMA WrittenRows ==
    ASSUME IInv, NEW p \in Processes, turn[p].step \in AskSteps, NEW role,
           role \in {"user", "assistant"}, Written(p, role)
    PROVE  LET r == turn[p].request
           IN /\ r \in Requests /\ r \in DOMAIN conversation /\ turn[p].runtime
              /\ conversation[r].open
              /\ DOMAIN conversation' = DOMAIN conversation
              /\ conversation' \in [DOMAIN conversation -> Row]
              /\ \A s \in DOMAIN conversation \ {r} : conversation'[s] = conversation[s]
              /\ conversation'[r].messages = Append(conversation[r].messages, <<role, r>>)
              /\ conversation'[r].open
              /\ conversation'[r].parent = conversation[r].parent
              /\ conversation'[r].persona = conversation[r].persona
              /\ conversation'[r].history = conversation[r].history
<1> DEFINE r == turn[p].request
<1>1. turn[p].runtime /\ r \in DOMAIN conversation /\ conversation[r].open /\ r \in Requests
  BY Typed DEF SessionFacts, OwnerFacts, AskSteps
<1>2. conversation[r] \in Row
  BY <1>1, Typed
<1>3. Append(conversation[r].messages, <<role, r>>) \in Seq(Messages)
  <2>1. <<role, r>> \in Messages
    BY <1>1 DEF Messages
  <2>2. conversation[r].messages \in Seq(Messages)
    BY <1>2 DEF Row
  <2> QED BY <2>1, <2>2, AppendProperties
<1>4. conversation' = [conversation EXCEPT ![r].messages = Append(@, <<role, r>>)]
  BY DEF Written
<1>5. [conversation[r] EXCEPT !.messages = Append(@, <<role, r>>)] \in Row
  BY <1>2, <1>3 DEF Row
<1>6. conversation' \in [DOMAIN conversation -> Row]
  BY <1>1, <1>4, <1>5, Typed
<1> QED BY <1>1, <1>2, <1>4, <1>6 DEF Row

LEMMA SaveUserStep == ASSUME IInv, NEW p \in Processes, SaveUser(p) PROVE IInv'
<1> DEFINE r == turn[p].request
<1>1. turn[p].step = "saveUser" /\ turn[p].step \in AskSteps
      /\ UNCHANGED <<revision, executions, acknowledged>>
  BY DEF SaveUser, At, AskSteps
<1>2. /\ r \in Requests /\ turn[p].runtime /\ r \in DOMAIN conversation
      /\ conversation[r].open /\ conversation[r].messages = <<>> /\ executions[r] = 0
      /\ ~turn[p].answered /\ ~turn[p].failed /\ turn[p].lease # "known"
      /\ turn[p].said = <<>>
  BY <1>1, Typed DEF SessionFacts, OwnerFacts, AskSteps
<1>3. Heard(p, "user", "execute") \/ FailSave(p)
  BY DEF SaveUser
<1>4. /\ turn' \in [Processes -> Session]
      /\ \A q \in Processes \ {p} : turn'[q] = turn[q]
      /\ \/ turn'[p].step = "close" /\ turn'[p].failed
         \/ /\ turn'[p].step = "execute" /\ ~turn'[p].failed
            /\ turn'[p].said = <<<<"user", r>>>>
      /\ turn'[p].request = r /\ turn'[p].runtime /\ ~turn'[p].answered
      /\ turn'[p].lease # "known"
  <2>1. CASE Heard(p, "user", "execute")
    <3>1. /\ turn' \in [Processes -> Session]
          /\ \A q \in Processes \ {p} : turn'[q] = turn[q]
          /\ turn'[p].step = "execute" /\ turn'[p].failed = turn[p].failed
          /\ turn'[p].request = r /\ turn'[p].runtime = turn[p].runtime
          /\ turn'[p].answered = FALSE /\ turn'[p].lease = turn[p].lease
          /\ turn'[p].said = Append(turn[p].said, <<"user", r>>)
      BY <1>2, <2>1, HeardType DEF Steps, AskSteps
    <3>2. Append(<<>>, <<"user", r>>) = <<<<"user", r>>>>
      OBVIOUS
    <3> QED BY <1>2, <3>1, <3>2
  <2>2. CASE FailSave(p)
    BY <1>2, <2>2, FailSaveType
  <2> QED BY <1>3, <2>1, <2>2
<1>5. SessionFacts(p)' /\ SnapshotFacts(p)'
  BY <1>2, <1>4 DEF SessionFacts, SnapshotFacts, StartSteps, AskSteps
<1>6. CASE Written(p, "user")
  <2>1. /\ DOMAIN conversation' = DOMAIN conversation
        /\ conversation' \in [DOMAIN conversation -> Row]
        /\ conversation'[r].messages = <<<<"user", r>>>>
        /\ conversation'[r].open
    <3>1. conversation'[r].messages = Append(<<>>, <<"user", r>>)
      BY <1>1, <1>2, <1>6, WrittenRows
    <3>2. Append(<<>>, <<"user", r>>) = <<<<"user", r>>>>
      OBVIOUS
    <3> QED BY <1>1, <1>6, <3>1, <3>2, WrittenRows
  <2>2. Frame(p)
    BY <1>1, <1>2, <1>4, <1>6, WrittenRows DEF Frame
  <2>3. TypeOK'
    BY <1>1, <1>4, <2>1 DEF IInv, TypeOK, Session, Row
  <2>4. OwnerFacts(p)'
    BY <1>1, <1>2, <1>4, <2>1 DEF OwnerFacts, AskSteps
  <2> QED BY <1>1, <1>5, <2>1, <2>2, <2>3, <2>4, QuietStep
<1>7. CASE FailSave(p) /\ UNCHANGED conversation
  <2>1. turn'[p].step = "close" /\ turn'[p].failed
    BY <1>7, FailSaveType
  <2>2. Frame(p)
    BY <1>1, <1>2, <1>4, <1>7 DEF Frame
  <2>3. TypeOK'
    BY <1>1, <1>4, <1>7 DEF IInv, TypeOK, Session
  <2>4. OwnerFacts(p)'
    BY <1>1, <1>2, <1>4, <1>7, <2>1 DEF OwnerFacts, AskSteps
  <2> QED BY <1>1, <1>5, <1>7, <2>2, <2>3, <2>4, QuietStep
<1> QED BY <1>6, <1>7 DEF SaveUser

(* The one provider call: nobody else can have made it. *)
LEMMA ExecuteStep == ASSUME IInv, NEW p \in Processes, Execute(p) PROVE IInv'
<1> DEFINE r == turn[p].request
<1>1. turn[p].step = "execute" /\ UNCHANGED <<conversation, revision, acknowledged>>
  BY DEF Execute, At
<1>2. /\ r \in Requests /\ turn[p].runtime /\ r \in DOMAIN conversation
      /\ conversation[r].open /\ conversation[r].messages = <<<<"user", r>>>>
      /\ executions[r] = 0 /\ ~turn[p].answered /\ ~turn[p].failed /\ turn[p].lease # "known"
      /\ conversation[r].messages = turn[p].said
  BY <1>1, Typed DEF SessionFacts, OwnerFacts, AskSteps
<1>3. CASE Go(p, "close") /\ UNCHANGED executions
  BY <1>1, <1>3, GoStep DEF Steps
<1>4. CASE executions' = [executions EXCEPT ![r] = @ + 1] /\ Go(p, "executing")
  <2>1. /\ executions' \in [Requests -> Nat] /\ executions'[r] = 1
        /\ \A s \in Requests \ {r} : executions'[s] = executions[s]
    BY <1>2, <1>4 DEF IInv, TypeOK
  <2>2. /\ turn' \in [Processes -> Session]
        /\ \A q \in Processes \ {p} : turn'[q] = turn[q]
        /\ turn'[p].step = "executing" /\ ~turn'[p].failed /\ turn'[p].request = r
        /\ turn'[p].runtime /\ ~turn'[p].answered /\ turn'[p].lease # "known"
        /\ turn'[p].said = turn[p].said
    BY <1>2, <1>4, GoType DEF Steps, AskSteps
  <2>3. TypeOK'
    BY <1>1, <2>1, <2>2 DEF IInv, TypeOK, Session
  <2>4. DOMAIN conversation \subseteq Requests
    BY DEF IInv, TypeOK
  <2>5. Frame(p)
    BY <1>1, <1>2, <2>1, <2>2, <2>4 DEF Frame
  <2>6. SessionFacts(p)' /\ SnapshotFacts(p)'
    BY <1>2, <2>2 DEF SessionFacts, SnapshotFacts, StartSteps, AskSteps
  <2>7. OwnerFacts(p)'
    BY <1>1, <1>2, <2>1, <2>2 DEF OwnerFacts, AskSteps
  <2>8. \A q \in Processes : SessionFacts(q)' /\ OwnerFacts(q)' /\ SnapshotFacts(q)'
    BY <2>5, <2>6, <2>7, OthersKeep
  <2>9. OneOwner'
    BY <2>5, OthersKeep
  <2>10. Executed'
    BY <1>1, <1>2, <2>1 DEF IInv, Executed
  <2>11. OkMeansDurable' /\ LineageFrozen'
    BY <1>1 DEF IInv, OkMeansDurable, LineageFrozen
  <2> QED BY <2>3, <2>8, <2>9, <2>10, <2>11 DEF IInv
<1> QED BY <1>3, <1>4 DEF Execute

(* A question and its answer. *)
LEMMA AppendPair == ASSUME NEW a, NEW b PROVE Append(<<a>>, b) = <<a, b>>
<1> DEFINE S == {a, b}
<1>1. <<a>> \in Seq(S) /\ b \in S /\ <<a, b>> \in Seq(S)
  OBVIOUS
<1>2. Append(<<a>>, b) \in Seq(S) /\ Len(Append(<<a>>, b)) = 2
      /\ Append(<<a>>, b)[1] = a /\ Append(<<a>>, b)[2] = b
  BY <1>1, AppendProperties
<1>3. Len(<<a, b>>) = 2 /\ <<a, b>>[1] = a /\ <<a, b>>[2] = b
  OBVIOUS
<1>4. \A i \in 1..2 : Append(<<a>>, b)[i] = <<a, b>>[i]
  <2>1. \A i \in 1..2 : i = 1 \/ i = 2
    OBVIOUS
  <2> QED BY <1>2, <1>3, <2>1
<1> HIDE DEF S
<1>5. Len(Append(<<a>>, b)) = Len(<<a, b>>)
      /\ \A i \in 1..Len(Append(<<a>>, b)) : Append(<<a>>, b)[i] = <<a, b>>[i]
  BY <1>2, <1>3, <1>4
<1> QED BY <1>1, <1>2, <1>5, SeqEqual

LEMMA SaveAnswerStep == ASSUME IInv, NEW p \in Processes, SaveAnswer(p) PROVE IInv'
<1> DEFINE r == turn[p].request
<1>1. turn[p].step = "saveAnswer" /\ turn[p].step \in AskSteps
      /\ UNCHANGED <<revision, executions, acknowledged>>
  BY DEF SaveAnswer, At, AskSteps
<1>2. /\ r \in Requests /\ turn[p].runtime /\ r \in DOMAIN conversation
      /\ conversation[r].open /\ conversation[r].messages = <<<<"user", r>>>>
      /\ ~turn[p].answered /\ ~turn[p].failed /\ turn[p].lease # "known"
      /\ turn[p].said = <<<<"user", r>>>>
  BY <1>1, Typed DEF SessionFacts, OwnerFacts, AskSteps
<1>3. Heard(p, "assistant", "close") \/ FailSave(p)
  BY DEF SaveAnswer
<1>4. /\ turn' \in [Processes -> Session]
      /\ \A q \in Processes \ {p} : turn'[q] = turn[q]
      /\ turn'[p].step = "close" /\ turn'[p].request = r /\ turn'[p].runtime
      /\ turn'[p].lease # "known"
      /\ turn'[p].failed \/ turn'[p].said = <<<<"user", r>>, <<"assistant", r>>>>
  <2>1. CASE Heard(p, "assistant", "close")
    <3>1. /\ turn' \in [Processes -> Session]
          /\ \A q \in Processes \ {p} : turn'[q] = turn[q]
          /\ turn'[p].step = "close" /\ turn'[p].request = r
          /\ turn'[p].runtime = turn[p].runtime /\ turn'[p].lease = turn[p].lease
          /\ turn'[p].said = Append(turn[p].said, <<"assistant", r>>)
      BY <1>2, <2>1, HeardType DEF Steps
    <3>2. Append(<<<<"user", r>>>>, <<"assistant", r>>) = <<<<"user", r>>, <<"assistant", r>>>>
      BY AppendPair
    <3> QED BY <1>2, <3>1, <3>2
  <2>2. CASE FailSave(p)
    BY <1>2, <2>2, FailSaveType
  <2> QED BY <1>3, <2>1, <2>2
<1>5. SessionFacts(p)' /\ SnapshotFacts(p)'
  BY <1>2, <1>4 DEF SessionFacts, SnapshotFacts, StartSteps, AskSteps
<1>6. CASE Written(p, "assistant")
  <2>1. /\ DOMAIN conversation' = DOMAIN conversation
        /\ conversation' \in [DOMAIN conversation -> Row]
        /\ conversation'[r].messages = <<<<"user", r>>, <<"assistant", r>>>>
        /\ conversation'[r].open
    <3>1. /\ DOMAIN conversation' = DOMAIN conversation
          /\ conversation' \in [DOMAIN conversation -> Row]
          /\ conversation'[r].messages
               = Append(conversation[r].messages, <<"assistant", r>>)
          /\ conversation'[r].open
      BY <1>1, <1>6, WrittenRows
    <3>2. Append(<<<<"user", r>>>>, <<"assistant", r>>) = <<<<"user", r>>, <<"assistant", r>>>>
      BY AppendPair
    <3> QED BY <1>2, <3>1, <3>2
  <2>2. Frame(p)
    BY <1>1, <1>2, <1>4, <1>6, WrittenRows DEF Frame
  <2>3. TypeOK'
    BY <1>1, <1>4, <2>1 DEF IInv, TypeOK, Session, Row
  <2>4. OwnerFacts(p)'
    BY <1>1, <1>2, <1>4, <2>1 DEF OwnerFacts, AskSteps
  <2> QED BY <1>1, <1>5, <2>1, <2>2, <2>3, <2>4, QuietStep
<1>7. CASE FailSave(p) /\ UNCHANGED conversation
  <2>1. ~turn'[p].answered /\ turn'[p].failed
    BY <1>2, <1>7, FailSaveType
  <2>2. Frame(p)
    BY <1>1, <1>2, <1>4, <1>7 DEF Frame
  <2>3. TypeOK'
    BY <1>1, <1>4, <1>7 DEF IInv, TypeOK, Session
  <2>4. OwnerFacts(p)'
    BY <1>1, <1>2, <1>4, <1>7, <2>1 DEF OwnerFacts, AskSteps
  <2> QED BY <1>1, <1>5, <1>7, <2>2, <2>3, <2>4, QuietStep
<1> QED BY <1>6, <1>7 DEF SaveAnswer

-----------------------------------------------------------------------------
(* The owner ends its conversation, or is told it failed to. *)
LEMMA CloseStoreStep == ASSUME IInv, NEW p \in Processes, CloseStore(p) PROVE IInv'
<1> DEFINE r == turn[p].request
<1>1. turn[p].step = "close" /\ UNCHANGED <<revision, executions, acknowledged>>
  BY DEF CloseStore, At
<1>2. PICK clean \in BOOLEAN :
        /\ turn' = [turn EXCEPT ![p].step = "release", ![p].clean = clean]
        /\ \/ ~(turn[p].runtime /\ clean) /\ UNCHANGED conversation
           \/ turn[p].runtime /\ conversation' = [conversation EXCEPT ![r].open = FALSE]
  BY DEF CloseStore
<1> DEFINE t == [turn[p] EXCEPT !.step = "release", !.clean = clean]
<1>3. /\ t \in Session /\ t.step = "release" /\ t.clean = clean /\ t.failed = turn[p].failed
      /\ t.request = r /\ t.runtime = turn[p].runtime /\ t.said = turn[p].said
      /\ t.answered = turn[p].answered /\ t.lease = turn[p].lease
  BY Typed DEF Session, Steps
<1>4. turn' = [turn EXCEPT ![p] = t] /\ turn'[p] = t
  BY <1>2, Typed DEF Session
<1> HIDE DEF t
<1>5. SessionFacts(p)' /\ SnapshotFacts(p)'
  BY <1>1, <1>3, <1>4, Typed DEF SessionFacts, SnapshotFacts, StartSteps, AskSteps
<1>6. CASE ~(turn[p].runtime /\ clean) /\ UNCHANGED conversation
  <2>1. OwnerFacts(p)'
    BY <1>1, <1>3, <1>4, <1>6, Typed DEF OwnerFacts, AskSteps
  <2> QED BY <1>1, <1>3, <1>4, <1>5, <1>6, <2>1, SessionStep
<1>7. CASE turn[p].runtime /\ conversation' = [conversation EXCEPT ![r].open = FALSE]
  <2>1. r \in DOMAIN conversation /\ conversation[r] \in Row /\ conversation[r].open
    BY <1>1, <1>7, Typed DEF OwnerFacts
  <2>2. /\ DOMAIN conversation' = DOMAIN conversation
        /\ conversation' \in [DOMAIN conversation -> Row]
        /\ \A s \in DOMAIN conversation \ {r} : conversation'[s] = conversation[s]
        /\ ~conversation'[r].open
        /\ conversation'[r].messages = conversation[r].messages
        /\ conversation'[r].parent = conversation[r].parent
        /\ conversation'[r].persona = conversation[r].persona
        /\ conversation'[r].history = conversation[r].history
    BY <1>7, <2>1, Typed DEF Row
  <2>3. turn' \in [Processes -> Session] /\ \A q \in Processes \ {p} : turn'[q] = turn[q]
    BY <1>3, <1>4, Typed
  <2>4. TypeOK'
    BY <1>1, <2>2, <2>3 DEF IInv, TypeOK, Session, Row
  <2>5. Frame(p)
    BY <1>1, <1>3, <1>4, <1>7, <2>1, <2>2, <2>3 DEF Frame
  <2>6. OwnerFacts(p)'
    <3>1. /\ turn'[p].step = "release" /\ turn'[p].request = r
          /\ turn'[p].answered = turn[p].answered
          /\ turn'[p].said = turn[p].said /\ turn'[p].failed = turn[p].failed
      BY <1>3, <1>4, Typed
    <3>2. /\ turn[p].answered =>
               conversation[r].messages = <<<<"user", r>>, <<"assistant", r>>>>
          /\ ~turn[p].failed => conversation[r].messages = turn[p].said
      <4>1. OwnerFacts(p)
        BY Typed
      <4> QED BY <1>7, <4>1 DEF OwnerFacts
    <3> QED BY <2>1, <2>2, <3>1, <3>2 DEF OwnerFacts, AskSteps
  <2> QED BY <1>1, <1>5, <2>2, <2>4, <2>5, <2>6, QuietStep
<1> QED BY <1>2, <1>6, <1>7

(* The lease ends, and the caller is told ok when there is an answer and the *)
(* cleanup was clean: the conversation is then closed, and complete.         *)
LEMMA ReleaseStep == ASSUME IInv, NEW p \in Processes, Release(p) PROVE IInv'
<1> DEFINE r == turn[p].request
<1>1. turn[p].step = "release" /\ UNCHANGED <<conversation, revision, executions>>
  BY DEF Release, At
<1>2. PICK lease \in {LeaseOutcome(turn[p]), "unknown"} :
        turn' = [turn EXCEPT ![p].step = "idle", ![p].lease = lease]
  BY DEF Release
<1> DEFINE t == [turn[p] EXCEPT !.step = "idle", !.lease = lease]
<1>3. lease = "unknown" \/ (lease = "known" /\ turn[p].clean /\ ~turn[p].failed)
  BY <1>2 DEF LeaseOutcome
<1>4. /\ t \in Session /\ t.step = "idle" /\ t.lease = lease /\ t.request = r
      /\ t.runtime = turn[p].runtime /\ t.answered = turn[p].answered
      /\ t.failed = turn[p].failed /\ t.said = turn[p].said
  BY <1>3, Typed DEF Session, Steps
<1>5. turn' = [turn EXCEPT ![p] = t] /\ turn'[p] = t
  BY <1>2, Typed DEF Session
<1> HIDE DEF t
<1>6. /\ lease = "known" => turn[p].runtime /\ ~conversation[r].open
      /\ turn[p].answered => turn[p].runtime
      /\ turn[p].runtime => r \in DOMAIN conversation
      /\ turn[p].answered /\ turn[p].clean => ~conversation[r].open
      /\ turn[p].answered =>
           conversation[r].messages = <<<<"user", r>>, <<"assistant", r>>>>
      /\ turn[p].runtime /\ ~turn[p].failed => conversation[r].messages = turn[p].said
      /\ r \in Requests
  BY <1>1, <1>3, Typed DEF SessionFacts, OwnerFacts
<1>7. SessionFacts(p)' /\ SnapshotFacts(p)'
  BY <1>1, <1>3, <1>4, <1>5, <1>6 DEF SessionFacts, SnapshotFacts, StartSteps, AskSteps
<1>8. OwnerFacts(p)'
  BY <1>1, <1>4, <1>5, <1>6 DEF OwnerFacts, AskSteps
<1>9. CASE UNCHANGED acknowledged
  BY <1>1, <1>4, <1>5, <1>7, <1>8, <1>9, SessionStep
<1>10. CASE turn[p].answered /\ turn[p].clean /\ acknowledged' = acknowledged \cup {r}
  <2>1. turn' \in [Processes -> Session] /\ \A q \in Processes \ {p} : turn'[q] = turn[q]
    BY <1>4, <1>5, Typed
  <2>2. TypeOK'
    BY <1>1, <1>6, <1>10, <2>1 DEF IInv, TypeOK, Session
  <2>3. Frame(p)
    BY <1>1, <1>4, <1>5, <2>1 DEF Frame
  <2>4. \A q \in Processes : SessionFacts(q)' /\ OwnerFacts(q)' /\ SnapshotFacts(q)'
    BY <1>7, <1>8, <2>3, OthersKeep
  <2>5. OneOwner' /\ Executed' /\ LineageFrozen'
    BY <1>1, <2>3, OthersKeep DEF IInv, Executed, LineageFrozen
  <2>6. OkMeansDurable'
    BY <1>1, <1>6, <1>10 DEF IInv, OkMeansDurable
  <2> QED BY <2>2, <2>4, <2>5, <2>6 DEF IInv
<1>11. \/ UNCHANGED acknowledged
       \/ turn[p].answered /\ turn[p].clean /\ acknowledged' = acknowledged \cup {r}
  BY DEF Release
<1> QED BY <1>9, <1>10, <1>11

LEMMA SavePersonalityStep == ASSUME IInv, SavePersonality PROVE IInv'
<1>1. UNCHANGED <<turn, conversation, executions, acknowledged>> /\ revision' \in Nat
  BY DEF SavePersonality, IInv, TypeOK
<1> QED BY <1>1 DEF IInv, TypeOK, SessionFacts, OwnerFacts, SnapshotFacts, OneOwner, Executed,
                    OkMeansDurable, LineageFrozen

LEMMA StutterStep == ASSUME IInv, UNCHANGED vars PROVE IInv'
BY DEF vars, IInv, TypeOK, SessionFacts, OwnerFacts, SnapshotFacts, OneOwner, Executed,
       OkMeansDurable, LineageFrozen

LEMMA NextIInv == IInv /\ [Next]_vars => IInv'
<1> SUFFICES ASSUME IInv, [Next]_vars PROVE IInv'
  OBVIOUS
<1>1. ASSUME NEW p \in Processes, Resolve(p) PROVE IInv'
  BY <1>1, GoStep, FailStartStep DEF Resolve, At, Steps, StartSteps
<1>2. ASSUME NEW p \in Processes, Validate(p) PROVE IInv'
  BY <1>2, GoStep, FailStartStep DEF Validate, At, Steps, StartSteps
<1>3. ASSUME NEW p \in Processes, AskValidate(p) PROVE IInv'
  BY <1>3, GoStep DEF AskValidate, At, Steps, AskSteps
<1>4. ASSUME NEW p \in Processes, ExecuteDone(p) PROVE IInv'
  BY <1>4, GoStep DEF ExecuteDone, At, Steps, AskSteps
<1> QED BY <1>1, <1>2, <1>3, <1>4, BeginStep, OpenStoreStep, StartStoreStep, SaveUserStep,
           ExecuteStep, SaveAnswerStep, CloseStoreStep, ReleaseStep, CrashStep,
           SavePersonalityStep, StutterStep DEF Next

LEMMA InvariantHolds == Spec => []IInv
BY InitIInv, NextIInv, PTL DEF Spec

-----------------------------------------------------------------------------
(* Every reachable state is well typed. *)
THEOREM TurnsTyped == Spec => []TypeOK
<1>1. IInv => TypeOK
  BY DEF IInv
<1> QED BY <1>1, InvariantHolds, PTL

(* No request id ever costs a second provider call, however many processes   *)
(* retry it.                                                                 *)
THEOREM InferenceOnce == Spec => []AtMostOnce
<1>1. IInv => AtMostOnce
  BY DEF IInv, Executed, AtMostOnce
<1> QED BY <1>1, InvariantHolds, PTL

(* An acknowledged answer is durable, complete and closed, for ever. *)
THEOREM AcknowledgedIsDurable == Spec => []OkMeansDurable
<1>1. IInv => OkMeansDurable
  BY DEF IInv
<1> QED BY <1>1, InvariantHolds, PTL

(* A lease that ended known belongs to a recorded and closed conversation,   *)
(* which holds what its session heard to be saved and nothing else.          *)
THEOREM LeaseIsHonest == Spec => []KnownLease
<1>1. IInv => KnownLease
  BY DEF IInv, SessionFacts, OwnerFacts, KnownLease
<1> QED BY <1>1, InvariantHolds, PTL

(* The updater finds uncertain work while any process is inside a turn. *)
THEOREM UpdaterIsWarned == Spec => []UpdaterSees
<1>1. IInv => UpdaterSees
  BY DEF IInv, SessionFacts, OwnerFacts, UpdaterSees, Uncertain
<1> QED BY <1>1, InvariantHolds, PTL

(* What a conversation inherited stays what its parent held. *)
THEOREM InheritanceIsFrozen == Spec => []LineageFrozen
<1>1. IInv => LineageFrozen
  BY DEF IInv
<1> QED BY <1>1, InvariantHolds, PTL

-----------------------------------------------------------------------------
(* The refinement of RequestLedger.  What the ledger shows of a conversation *)
(* is its row and its count of provider calls: steps that keep both are      *)
(* stuttering steps.                                                         *)
Ledger_vars == <<[r \in DOMAIN conversation |->
                    [stage |-> Len(conversation[r].messages) + 1,
                     inferences |-> executions[r], open |-> conversation[r].open]],
                 acknowledged>>

LEMMA InitLedger == Init => Ledger!Init
BY DEF Init, Ledger!Init, Empty, Ledger!Empty

LEMMA StartLedger ==
    ASSUME IInv, NEW p \in Processes, NEW r, r = turn[p].request, StartStore(p)
    PROVE  Ledger!Admit(r) \/ UNCHANGED Ledger_vars
<1>1. CASE UNCHANGED conversation
  BY <1>1 DEF StartStore, Ledger_vars
<1>2. CASE ~Fenced(r) /\ conversation' = Put(conversation, r, NewConversation(turn[p]))
  <2>1. r \in Requests /\ r \notin DOMAIN conversation /\ executions[r] = 0
        /\ UNCHANGED <<executions, acknowledged>>
    BY <1>2, Typed DEF StartStore, At, SessionFacts, Fenced, IInv, Executed
  <2>2. /\ DOMAIN conversation' = DOMAIN conversation \cup {r}
        /\ conversation'[r].messages = <<>> /\ conversation'[r].open = TRUE
        /\ \A s \in DOMAIN conversation : conversation'[s] = conversation[s]
    BY <1>2, <2>1 DEF Put, NewConversation
  <2>3. Len(conversation'[r].messages) + 1 = 1
    BY <2>2
  <2> QED BY <2>1, <2>2, <2>3 DEF Ledger!Admit, Ledger!Put, Ledger!vars
<1> QED BY <1>1, <1>2 DEF StartStore

(* One message more is one stage further, at the stage and with the calls    *)
(* that the ledger allows.                                                   *)
LEMMA WrittenLedger ==
    ASSUME IInv, NEW p \in Processes, NEW r, r = turn[p].request,
           NEW role \in {"user", "assistant"}, Written(p, role),
           \/ turn[p].step = "saveUser" \/ turn[p].step = "saveAnswer",
           UNCHANGED <<executions, acknowledged>>
    PROVE  r \in DOMAIN conversation /\ Ledger!Record(r)
<1>1. turn[p].step \in AskSteps
  BY DEF AskSteps
<1>2. /\ r \in DOMAIN conversation /\ conversation[r].open
      /\ DOMAIN conversation' = DOMAIN conversation
      /\ \A s \in DOMAIN conversation \ {r} : conversation'[s] = conversation[s]
      /\ conversation'[r].messages = Append(conversation[r].messages, <<role, r>>)
      /\ conversation'[r].open
  BY <1>1, WrittenRows
<1>3. conversation[r].messages \in Seq(Messages) /\ conversation[r].open \in BOOLEAN
      /\ conversation'[r].open \in BOOLEAN
  BY <1>1, <1>2, WrittenRows, Typed DEF Row
<1>4. Len(conversation'[r].messages) = Len(conversation[r].messages) + 1
      /\ Len(conversation[r].messages) \in Nat
  BY <1>2, <1>3
<1>5. /\ Len(conversation[r].messages) = executions[r]
      /\ Len(conversation[r].messages) < 2
  <2>1. CASE turn[p].step = "saveUser"
    <3>1. conversation[r].messages = <<>> /\ executions[r] = 0
      BY <2>1, Typed DEF SessionFacts, OwnerFacts, AskSteps
    <3> QED BY <3>1
  <2>2. CASE turn[p].step = "saveAnswer"
    <3>1. conversation[r].messages = <<<<"user", r>>>> /\ executions[r] = 1
      BY <2>2, Typed DEF SessionFacts, OwnerFacts, AskSteps
    <3> QED BY <3>1
  <2> QED BY <2>1, <2>2
<1>6. Len(Ledger!Stages) = 3
  BY DEF Ledger!Stages
<1>7. conversation'[r].open = conversation[r].open
  BY <1>2, <1>3
<1>8. executions' = executions /\ acknowledged' = acknowledged
  OBVIOUS
<1> DEFINE Shown(c, n) == [stage |-> Len(c.messages) + 1, inferences |-> n, open |-> c.open]
           View == [s \in DOMAIN conversation |-> Shown(conversation[s], executions[s])]
<1>9. /\ View[r].open
      /\ View[r].stage < Len(Ledger!Stages)
      /\ View[r].inferences = View[r].stage - 1
  BY <1>2, <1>4, <1>5, <1>6
<1>10. View' = [View EXCEPT ![r] = [View[r] EXCEPT !.stage = View[r].stage + 1]]
  <2>1. \A s \in DOMAIN conversation \ {r} :
          Shown(conversation'[s], executions'[s]) = View[s]
    BY <1>2, <1>8
  <2>2. Shown(conversation'[r], executions'[r]) = [View[r] EXCEPT !.stage = View[r].stage + 1]
    <3>1. View[r] = [stage |-> Len(conversation[r].messages) + 1, inferences |-> executions[r],
                     open |-> conversation[r].open]
      BY <1>2
    <3>2. [View[r] EXCEPT !.stage = View[r].stage + 1]
            = [stage |-> Len(conversation'[r].messages) + 1, inferences |-> executions[r],
               open |-> conversation[r].open]
      <4> HIDE DEF View
      <4> QED BY <3>1, <1>4
    <3> QED BY <3>2, <1>7, <1>8
  <2>3. View' = [s \in DOMAIN conversation |-> Shown(conversation'[s], executions'[s])]
    BY <1>2
  <2>4. DOMAIN View = DOMAIN conversation
    OBVIOUS
  <2> HIDE DEF Shown, View
  <2> QED BY <1>2, <2>1, <2>2, <2>3, <2>4
<1> QED BY <1>2, <1>8, <1>9, <1>10 DEF Ledger!Record

LEMMA ExecuteLedger ==
    ASSUME IInv, NEW p \in Processes, NEW r, r = turn[p].request, Execute(p)
    PROVE  (r \in DOMAIN conversation /\ Ledger!Infer(r)) \/ UNCHANGED Ledger_vars
<1>1. CASE UNCHANGED executions
  BY <1>1 DEF Execute, Ledger_vars
<1>2. CASE executions' = [executions EXCEPT ![r] = @ + 1]
  <2>1. /\ r \in DOMAIN conversation /\ conversation[r].open /\ executions[r] = 0
        /\ conversation[r].messages = <<<<"user", r>>>> /\ r \in Requests
        /\ UNCHANGED <<conversation, acknowledged>>
    BY Typed DEF Execute, At, SessionFacts, OwnerFacts, AskSteps
  <2>2. Len(conversation[r].messages) + 1 = 2 /\ Ledger!Stages[2] = "asked"
    BY <2>1 DEF Ledger!Stages
  <2>3. executions'[r] = 1
        /\ \A s \in DOMAIN conversation \ {r} : executions'[s] = executions[s]
    BY <1>2, <2>1 DEF IInv, TypeOK
  <2> DEFINE Shown(c, n) == [stage |-> Len(c.messages) + 1, inferences |-> n, open |-> c.open]
             View == [s \in DOMAIN conversation |-> Shown(conversation[s], executions[s])]
  <2>4. View[r].open /\ Ledger!Stages[View[r].stage] = "asked" /\ View[r].inferences = 0
    BY <2>1, <2>2
  <2>5. View' = [View EXCEPT ![r] = [View[r] EXCEPT !.inferences = 1]]
    <3>1. View' = [s \in DOMAIN conversation |-> Shown(conversation[s], executions'[s])]
      BY <2>1
    <3>2. \A s \in DOMAIN conversation \ {r} : Shown(conversation[s], executions'[s]) = View[s]
      BY <2>3
    <3>3. Shown(conversation[r], executions'[r]) = [View[r] EXCEPT !.inferences = 1]
      <4>1. View[r] = [stage |-> Len(conversation[r].messages) + 1,
                       inferences |-> executions[r], open |-> conversation[r].open]
        BY <2>1
      <4> HIDE DEF View
      <4> QED BY <2>3, <4>1
    <3>4. DOMAIN View = DOMAIN conversation
      OBVIOUS
    <3> HIDE DEF Shown, View
    <3> QED BY <2>1, <3>1, <3>2, <3>3, <3>4
  <2> QED BY <2>1, <2>4, <2>5 DEF Ledger!Infer
<1> QED BY <1>1, <1>2 DEF Execute

LEMMA CloseLedger ==
    ASSUME IInv, NEW p \in Processes, NEW r, r = turn[p].request, CloseStore(p)
    PROVE  (r \in DOMAIN conversation /\ Ledger!Close(r)) \/ UNCHANGED Ledger_vars
<1>1. CASE UNCHANGED conversation
  BY <1>1 DEF CloseStore, Ledger_vars
<1>2. CASE turn[p].runtime /\ conversation' = [conversation EXCEPT ![r].open = FALSE]
  <2>1. r \in DOMAIN conversation /\ conversation[r] \in Row
        /\ UNCHANGED <<executions, acknowledged>>
    BY <1>2, Typed DEF OwnerFacts, CloseStore
  <2>2. /\ DOMAIN conversation' = DOMAIN conversation
        /\ \A s \in DOMAIN conversation \ {r} : conversation'[s] = conversation[s]
        /\ conversation'[r].open = FALSE
        /\ conversation'[r].messages = conversation[r].messages
    BY <1>2, <2>1, Typed DEF Row
  <2> QED BY <2>1, <2>2 DEF Ledger!Close
<1> QED BY <1>1, <1>2 DEF CloseStore

LEMMA ReleaseLedger ==
    ASSUME IInv, NEW p \in Processes, NEW r, r = turn[p].request, Release(p)
    PROVE  (r \in DOMAIN conversation /\ Ledger!Acknowledge(r)) \/ UNCHANGED Ledger_vars
<1>1. UNCHANGED <<conversation, executions>> /\ turn[p].step = "release"
  BY DEF Release, At
<1>2. CASE UNCHANGED acknowledged
  BY <1>1, <1>2 DEF Ledger_vars
<1>3. CASE turn[p].answered /\ turn[p].clean /\ acknowledged' = acknowledged \cup {r}
  <2>1. /\ r \in DOMAIN conversation /\ ~conversation[r].open
        /\ conversation[r].messages = <<<<"user", r>>, <<"assistant", r>>>>
    BY <1>1, <1>3, Typed DEF SessionFacts, OwnerFacts
  <2>2. Len(conversation[r].messages) + 1 = 3 /\ Ledger!Stages[3] = "answered"
    BY <2>1 DEF Ledger!Stages
  <2> QED BY <1>1, <1>3, <2>1, <2>2 DEF Ledger!Acknowledge
<1>4. \/ UNCHANGED acknowledged
      \/ turn[p].answered /\ turn[p].clean /\ acknowledged' = acknowledged \cup {r}
  BY DEF Release
<1> QED BY <1>2, <1>3, <1>4

LEMMA NextLedger == IInv /\ [Next]_vars => [Ledger!Next]_(Ledger!vars)
<1> SUFFICES ASSUME IInv, [Next]_vars PROVE Ledger!Next \/ UNCHANGED Ledger_vars
  BY DEF Ledger!vars, Ledger_vars
<1>1. ASSUME NEW p \in Processes,
             \/ Begin(p) \/ Resolve(p) \/ OpenStore(p) \/ Validate(p) \/ AskValidate(p)
             \/ ExecuteDone(p) \/ Crash(p)
      PROVE  UNCHANGED Ledger_vars
  BY <1>1 DEF Begin, Resolve, OpenStore, Validate, AskValidate, ExecuteDone, Crash, Ledger_vars
<1>2. ASSUME NEW p \in Processes,
             StartStore(p) \/ SaveUser(p) \/ SaveAnswer(p) \/ Execute(p) \/ CloseStore(p) \/ Release(p)
      PROVE  Ledger!Next \/ UNCHANGED Ledger_vars
  <2>1. PICK r : r = turn[p].request
    OBVIOUS
  <2>2. CASE StartStore(p)
    <3>1. r \in Requests
      BY <2>1, <2>2, Typed DEF StartStore, At, SessionFacts
    <3> QED BY <2>1, <2>2, <3>1, StartLedger DEF Ledger!Next
  <2>3. CASE (SaveUser(p) \/ SaveAnswer(p)) /\ UNCHANGED conversation
    BY <2>3 DEF SaveUser, SaveAnswer, Ledger_vars
  <2>4. CASE SaveUser(p) /\ Written(p, "user")
    <3>1. turn[p].step = "saveUser" /\ UNCHANGED <<executions, acknowledged>>
      BY <2>4 DEF SaveUser, At
    <3>2. r \in DOMAIN conversation /\ Ledger!Record(r)
      BY <2>1, <2>4, <3>1, WrittenLedger
    <3> QED BY <3>2 DEF Ledger!Next
  <2>5. CASE SaveAnswer(p) /\ Written(p, "assistant")
    <3>1. turn[p].step = "saveAnswer" /\ UNCHANGED <<executions, acknowledged>>
      BY <2>5 DEF SaveAnswer, At
    <3>2. r \in DOMAIN conversation /\ Ledger!Record(r)
      BY <2>1, <2>5, <3>1, WrittenLedger
    <3> QED BY <3>2 DEF Ledger!Next
  <2>6. CASE Execute(p) \/ CloseStore(p) \/ Release(p)
    BY <2>1, <2>6, ExecuteLedger, CloseLedger, ReleaseLedger DEF Ledger!Next
  <2> QED BY <1>2, <2>2, <2>3, <2>4, <2>5, <2>6 DEF SaveUser, SaveAnswer
<1>3. CASE SavePersonality \/ UNCHANGED vars
  BY <1>3 DEF SavePersonality, vars, Ledger_vars
<1> QED BY <1>1, <1>2, <1>3 DEF Next

(* Whatever fails and is repeated, a caller sees the forward-only ledger. *)
THEOREM ImplementsLedger == Spec => Implements
BY InitLedger, NextLedger, InvariantHolds, PTL DEF Spec, Implements, Ledger!Spec

-----------------------------------------------------------------------------
(* What a conversation can hold.  The model keeps messages apart by role,    *)
(* and so can say what the ledger cannot: the question comes first and the   *)
(* answer last, an answer is never without its provider call, and a provider *)
(* call never without the question that was saved for it.                    *)
Shaped(r, messages, calls) ==
    LET question == <<"user", r>>
        answer == <<"assistant", r>>
    IN /\ messages \in {<<>>, <<question>>, <<question, answer>>}
       /\ messages = <<question, answer>> => calls = 1
       /\ calls = 1 => messages # <<>>

Transcripts ==
    \A r \in DOMAIN conversation : Shaped(r, conversation[r].messages, executions[r])

(* How a step may change conversation r: while it is open, and only by the   *)
(* next thing that its turn has to write.                                    *)
Kept(r) == conversation'[r] = conversation[r] /\ executions'[r] = executions[r]

Asked(r) ==
    /\ conversation[r].messages = <<>> /\ executions[r] = 0
    /\ conversation'[r].messages = <<<<"user", r>>>> /\ executions'[r] = 0

Inferred(r) ==
    /\ conversation[r].messages = <<<<"user", r>>>>
    /\ conversation'[r].messages = conversation[r].messages /\ executions'[r] = 1

Answered(r) ==
    /\ conversation[r].messages = <<<<"user", r>>>> /\ executions[r] = 1
    /\ conversation'[r].messages = <<<<"user", r>>, <<"assistant", r>>>>
    /\ executions'[r] = 1

Ended(r) ==
    /\ conversation'[r].messages = conversation[r].messages
    /\ executions'[r] = executions[r]

Advances(r) ==
    /\ r \in DOMAIN conversation'
    /\ \/ Kept(r)
       \/ conversation[r].open /\ (Asked(r) \/ Inferred(r) \/ Answered(r) \/ Ended(r))

Opens(r) == conversation'[r].messages = <<>> /\ executions'[r] = 0

Forward ==
    /\ \A r \in DOMAIN conversation : Advances(r)
    /\ \A r \in DOMAIN conversation' \ DOMAIN conversation : Opens(r)

LEMMA StartForward == ASSUME IInv, NEW p \in Processes, StartStore(p) PROVE Forward
<1>1. turn[p].request \in Requests /\ executions' = executions
  BY Typed DEF StartStore, At, SessionFacts
<1>2. CASE UNCHANGED conversation
  BY <1>1, <1>2 DEF Forward, Advances, Kept
<1>3. CASE /\ ~Fenced(turn[p].request)
           /\ conversation' = Put(conversation, turn[p].request, NewConversation(turn[p]))
  <2>1. PICK r : r = turn[p].request
    OBVIOUS
  <2>2. executions[r] = 0
    BY <1>1, <1>3, <2>1 DEF Fenced, IInv, Executed
  <2>3. /\ DOMAIN conversation' = DOMAIN conversation \cup {r}
        /\ conversation'[r].messages = <<>>
        /\ \A s \in DOMAIN conversation : conversation'[s] = conversation[s]
    BY <1>3, <2>1 DEF Put, NewConversation, Fenced
  <2> QED BY <1>1, <2>2, <2>3 DEF Forward, Advances, Kept, Opens
<1> QED BY <1>2, <1>3 DEF StartStore

LEMMA SavesForward ==
    ASSUME IInv, NEW p \in Processes, SaveUser(p) \/ SaveAnswer(p) PROVE Forward
<1>1. executions' = executions
  BY DEF SaveUser, SaveAnswer
<1>2. CASE UNCHANGED conversation
  BY <1>1, <1>2 DEF Forward, Advances, Kept
<1>3. CASE SaveUser(p) /\ Written(p, "user")
  <2>1. PICK r : r = turn[p].request
    OBVIOUS
  <2>2. turn[p].step = "saveUser" /\ turn[p].step \in AskSteps
    BY <1>3 DEF SaveUser, At, AskSteps
  <2>3. conversation[r].messages = <<>> /\ executions[r] = 0
    BY <2>1, <2>2, Typed DEF SessionFacts, OwnerFacts
  <2>4. /\ r \in DOMAIN conversation /\ conversation[r].open
        /\ DOMAIN conversation' = DOMAIN conversation
        /\ \A s \in DOMAIN conversation \ {r} : conversation'[s] = conversation[s]
        /\ conversation'[r].messages = Append(conversation[r].messages, <<"user", r>>)
    BY <1>3, <2>1, <2>2, WrittenRows
  <2>5. conversation'[r].messages = <<<<"user", r>>>>
    BY <2>3, <2>4
  <2> QED BY <1>1, <2>3, <2>4, <2>5 DEF Forward, Advances, Kept, Asked
<1>4. CASE SaveAnswer(p) /\ Written(p, "assistant")
  <2>1. PICK r : r = turn[p].request
    OBVIOUS
  <2>2. turn[p].step = "saveAnswer" /\ turn[p].step \in AskSteps
    BY <1>4 DEF SaveAnswer, At, AskSteps
  <2>3. conversation[r].messages = <<<<"user", r>>>> /\ executions[r] = 1
    BY <2>1, <2>2, Typed DEF SessionFacts, OwnerFacts
  <2>4. /\ r \in DOMAIN conversation /\ conversation[r].open
        /\ DOMAIN conversation' = DOMAIN conversation
        /\ \A s \in DOMAIN conversation \ {r} : conversation'[s] = conversation[s]
        /\ conversation'[r].messages = Append(conversation[r].messages, <<"assistant", r>>)
    BY <1>4, <2>1, <2>2, WrittenRows
  <2>5. conversation'[r].messages = <<<<"user", r>>, <<"assistant", r>>>>
    BY <2>3, <2>4, AppendPair
  <2> QED BY <1>1, <2>3, <2>4, <2>5 DEF Forward, Advances, Kept, Answered
<1> QED BY <1>2, <1>3, <1>4 DEF SaveUser, SaveAnswer

LEMMA ExecuteForward == ASSUME IInv, NEW p \in Processes, Execute(p) PROVE Forward
<1>1. PICK r : r = turn[p].request
  OBVIOUS
<1>2. /\ r \in DOMAIN conversation /\ r \in Requests /\ conversation[r].open
      /\ conversation[r].messages = <<<<"user", r>>>> /\ executions[r] = 0
      /\ conversation' = conversation
  BY <1>1, Typed DEF Execute, At, SessionFacts, OwnerFacts, AskSteps
<1>3. CASE UNCHANGED executions
  BY <1>2, <1>3 DEF Forward, Advances, Kept
<1>4. CASE executions' = [executions EXCEPT ![r] = @ + 1]
  <2>1. executions'[r] = 1 /\ \A s \in DOMAIN conversation \ {r} : executions'[s] = executions[s]
    BY <1>2, <1>4 DEF IInv, TypeOK
  <2> QED BY <1>2, <2>1 DEF Forward, Advances, Kept, Inferred
<1> QED BY <1>1, <1>3, <1>4 DEF Execute

LEMMA CloseForward == ASSUME IInv, NEW p \in Processes, CloseStore(p) PROVE Forward
<1>1. PICK r : r = turn[p].request
  OBVIOUS
<1>2. executions' = executions
  BY DEF CloseStore
<1>3. CASE UNCHANGED conversation
  BY <1>2, <1>3 DEF Forward, Advances, Kept
<1>4. CASE turn[p].runtime /\ conversation' = [conversation EXCEPT ![r].open = FALSE]
  <2>1. r \in DOMAIN conversation /\ conversation[r].open
    BY <1>1, <1>4, Typed DEF CloseStore, At, OwnerFacts
  <2>2. /\ DOMAIN conversation' = DOMAIN conversation
        /\ \A s \in DOMAIN conversation \ {r} : conversation'[s] = conversation[s]
        /\ conversation'[r].messages = conversation[r].messages
    BY <1>4, <2>1, Typed DEF Row
  <2> QED BY <1>2, <2>1, <2>2 DEF Forward, Advances, Kept, Ended
<1> QED BY <1>1, <1>3, <1>4 DEF CloseStore

LEMMA NextForward == ASSUME IInv, [Next]_vars PROVE Forward
<1>1. ASSUME UNCHANGED <<conversation, executions>> PROVE Forward
  BY <1>1 DEF Forward, Advances, Kept
<1>2. CASE SavePersonality \/ UNCHANGED vars
  BY <1>1, <1>2 DEF SavePersonality, vars
<1>3. ASSUME NEW p \in Processes,
             \/ Begin(p) \/ Resolve(p) \/ OpenStore(p) \/ Validate(p) \/ AskValidate(p)
             \/ ExecuteDone(p) \/ Release(p) \/ Crash(p)
      PROVE  Forward
  BY <1>1, <1>3
     DEF Begin, Resolve, OpenStore, Validate, AskValidate, ExecuteDone, Release, Crash
<1> QED BY <1>2, <1>3, StartForward, SavesForward, ExecuteForward, CloseForward DEF Next

(* The shapes of one transcript, before and after a step. *)
LEMMA OneTranscript ==
    ASSUME NEW r, NEW before, NEW after, NEW i, NEW j, Shaped(r, before, i),
           \/ after = before /\ j = i
           \/ after = <<<<"user", r>>>> /\ (j = 0 \/ j = 1)
           \/ after = <<<<"user", r>>, <<"assistant", r>>>> /\ j = 1
    PROVE  Shaped(r, after, j)
<1> DEFINE question == <<"user", r>>
           answer == <<"assistant", r>>
<1>1. Len(<<>>) = 0 /\ Len(<<question>>) = 1 /\ Len(<<question, answer>>) = 2
  OBVIOUS
<1>2. <<question>> # <<>> /\ <<question, answer>> # <<>> /\ <<question>> # <<question, answer>>
  BY <1>1
<1> QED BY <1>2 DEF Shaped

LEMMA NextTranscripts == IInv /\ Transcripts /\ [Next]_vars => Transcripts'
<1> SUFFICES ASSUME IInv, Transcripts, [Next]_vars, NEW r \in DOMAIN conversation'
             PROVE  Shaped(r, conversation'[r].messages, executions'[r])
  BY DEF Transcripts, Shaped
<1>1. Forward
  BY NextForward
<1>2. CASE r \in DOMAIN conversation
  <2>1. PICK before, after, i, j :
          /\ before = conversation[r].messages /\ i = executions[r]
          /\ after = conversation'[r].messages /\ j = executions'[r]
    OBVIOUS
  <2>2. \/ after = before /\ j = i
        \/ after = <<<<"user", r>>>> /\ (j = 0 \/ j = 1)
        \/ after = <<<<"user", r>>, <<"assistant", r>>>> /\ j = 1
    BY <1>1, <1>2, <2>1 DEF Forward, Advances, Kept, Asked, Inferred, Answered, Ended
  <2>3. Shaped(r, before, i)
    BY <1>2, <2>1 DEF Transcripts
  <2>4. Shaped(r, after, j)
    BY <2>2, <2>3, OneTranscript
  <2> QED BY <2>1, <2>4
<1>3. CASE r \notin DOMAIN conversation
  BY <1>1, <1>3 DEF Forward, Opens, Shaped
<1> QED BY <1>2, <1>3

(* Every conversation is empty, a question, or its question and its answer,  *)
(* whatever commits were lost and whichever process died: no statement is    *)
(* ever repeated or out of order (runtime.py 174-213, mcp_store.py 241-262). *)
THEOREM TranscriptsHaveOneShape == Spec => []Transcripts
<1>1. Init => Transcripts
  BY DEF Init, Empty, Transcripts
<1> QED BY <1>1, InvariantHolds, NextTranscripts, PTL DEF Spec

(* A conversation is never lost, and one that is closed is final: its row    *)
(* never changes again and its request id costs no further inference.        *)
ClosedStays ==
    \A r \in DOMAIN conversation :
        /\ r \in DOMAIN conversation'
        /\ ~conversation[r].open => Kept(r)

ClosedIsFinal == [][ClosedStays]_vars

(* A closed conversation is final: cleanup, retries of its id, rival         *)
(* processes and continuations from it leave it as it is.                    *)
THEOREM ClosedConversationsAreFinal == Spec => ClosedIsFinal
<1>1. IInv /\ [Next]_vars => [ClosedStays]_vars
  BY NextForward DEF Forward, Advances, ClosedStays
<1> QED BY <1>1, InvariantHolds, PTL DEF Spec, ClosedIsFinal

-----------------------------------------------------------------------------
(* Every change to a stored conversation, and every provider call for it, is *)
(* a step of a process that runs and owns it.                                *)
Untouched(r) ==
    /\ r \in DOMAIN conversation'
    /\ conversation'[r] = conversation[r]
    /\ executions'[r] = executions[r]

Works(p, r) == ~At(p, "idle") /\ turn[p].runtime /\ turn[p].request = r

LEMMA OwnStep ==
    ASSUME IInv, NEW p \in Processes, NEW r \in DOMAIN conversation, ~Works(p, r),
           StartStore(p) \/ SaveUser(p) \/ SaveAnswer(p) \/ Execute(p) \/ CloseStore(p)
    PROVE  Untouched(r)
<1>1. PICK own : own = turn[p].request
  OBVIOUS
<1>2. CASE StartStore(p)
  <2>1. executions' = executions
    BY <1>2 DEF StartStore
  <2>2. CASE UNCHANGED conversation
    BY <2>1, <2>2 DEF Untouched
  <2>3. CASE ~Fenced(own) /\ conversation' = Put(conversation, own, NewConversation(turn[p]))
    BY <2>1, <2>3 DEF Fenced, Put, Untouched
  <2> QED BY <1>1, <1>2, <2>2, <2>3 DEF StartStore
<1>3. CASE SaveUser(p) \/ SaveAnswer(p)
  <2>1. turn[p].step \in AskSteps /\ ~At(p, "idle") /\ executions' = executions
    BY <1>3 DEF SaveUser, SaveAnswer, At, AskSteps
  <2>2. own # r
    BY <1>1, <2>1, Typed DEF Works, SessionFacts
  <2>3. CASE UNCHANGED conversation
    BY <2>1, <2>3 DEF Untouched
  <2>4. CASE Written(p, "user") \/ Written(p, "assistant")
    BY <1>1, <2>1, <2>2, <2>4, WrittenRows DEF Untouched
  <2> QED BY <1>3, <2>3, <2>4 DEF SaveUser, SaveAnswer
<1>4. CASE Execute(p)
  <2>1. turn[p].step \in AskSteps /\ ~At(p, "idle") /\ conversation' = conversation
    BY <1>4 DEF Execute, At, AskSteps
  <2>2. own # r
    BY <1>1, <2>1, Typed DEF Works, SessionFacts
  <2>3. r \in Requests
    BY DEF IInv, TypeOK
  <2>4. executions'[r] = executions[r]
    BY <1>1, <1>4, <2>2, <2>3 DEF Execute, IInv, TypeOK
  <2> QED BY <2>1, <2>4 DEF Untouched
<1>5. CASE CloseStore(p)
  <2>1. executions' = executions /\ ~At(p, "idle")
    BY <1>5 DEF CloseStore, At
  <2>2. CASE UNCHANGED conversation
    BY <2>1, <2>2 DEF Untouched
  <2>3. CASE turn[p].runtime /\ conversation' = [conversation EXCEPT ![own].open = FALSE]
    <3>1. own # r
      BY <1>1, <2>1, <2>3 DEF Works
    <3> QED BY <2>1, <2>3, <3>1, Typed DEF Untouched
  <2> QED BY <1>1, <1>5, <2>2, <2>3 DEF CloseStore
<1> QED BY <1>2, <1>3, <1>4, <1>5

OrphansStayStep == \A r \in Orphans : Untouched(r)

LEMMA NextOrphans == ASSUME IInv, [Next]_vars PROVE OrphansStayStep
<1> SUFFICES ASSUME NEW r \in DOMAIN conversation,
                    \A p \in Processes : ~Works(p, r)
             PROVE  Untouched(r)
  BY DEF OrphansStayStep, Orphans, Works
<1>1. ASSUME UNCHANGED <<conversation, executions>> PROVE Untouched(r)
  BY <1>1 DEF Untouched
<1>2. CASE SavePersonality \/ UNCHANGED vars
  BY <1>1, <1>2 DEF SavePersonality, vars
<1>3. ASSUME NEW p \in Processes,
             \/ Begin(p) \/ Resolve(p) \/ OpenStore(p) \/ Validate(p) \/ AskValidate(p)
             \/ ExecuteDone(p) \/ Release(p) \/ Crash(p)
      PROVE  Untouched(r)
  BY <1>1, <1>3
     DEF Begin, Resolve, OpenStore, Validate, AskValidate, ExecuteDone, Release, Crash
<1> QED BY <1>2, <1>3, OwnStep DEF Next

(* What a process left unfinished stays for the updater to find: whoever     *)
(* comes later neither takes it over nor ends it, nor calls the provider for *)
(* it again.                                                                 *)
THEOREM OrphansAreLeftAlone == Spec => OrphansStay
<1>1. IInv /\ [Next]_vars => [OrphansStayStep]_vars
  BY NextOrphans
<1>2. OrphansStayStep <=>
        \A r \in Orphans :
          /\ r \in DOMAIN conversation'
          /\ conversation'[r] = conversation[r]
          /\ executions'[r] = executions[r]
  BY DEF OrphansStayStep, Untouched
<1> QED BY <1>1, <1>2, InvariantHolds, PTL DEF Spec, OrphansStay
=============================================================================
