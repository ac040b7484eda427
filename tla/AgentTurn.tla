----------------------------- MODULE AgentTurn ------------------------------
(***************************************************************************)
(* One turn of the Agent, end to end: AgentService._run (mcp_service.py)   *)
(* drives an AgentSession (runtime.py) over an MCPStore (mcp_store.py) and *)
(* a model provider.  Several processes run turns against one database;    *)
(* callers repeat a request id as they like, in any process.               *)
(*                                                                         *)
(* Every await and every database statement is a step of its own.  A       *)
(* provider error, a timeout and a cancellation have the same effect on    *)
(* state: the turn goes to its cleanup without an answer.  A statement     *)
(* either commits and says so, fails, or commits while the connection is   *)
(* lost (Written).  The authority of the session is PrincipalSessions';    *)
(* here a refusal is one of the ways a start fails.  A message is its role *)
(* and request; the text a Studio attachment adds to the carried window is *)
(* left out.  Operators named Mutant... are seeded faults, used only in    *)
(* place of the next definition.                                           *)
(***************************************************************************)
EXTENDS Naturals, Sequences, Tables

CONSTANTS
    Processes,      \* each runs one turn at a time
    Requests,       \* request ids of one scope; a conversation id is a hash of it
    Window,         \* 12: messages carried from one conversation to the next
    MaxRevision     \* bound on personality saves

ASSUME WindowAssumption == Window \in Nat
ASSUME RevisionAssumption == MaxRevision \in Nat \ {0}
ASSUME NoneAssumption == None \notin Requests

VARIABLES
    turn,           \* per process: its AgentSession and where it stands
    conversation,   \* chat.conversations with their messages, by request id
    revision,       \* the current personality revision
    executions,     \* per request: provider calls ever started
    acknowledged    \* requests a caller was told ok for

vars == <<turn, conversation, revision, executions, acknowledged>>

-----------------------------------------------------------------------------
StartSteps == {"resolve", "open", "validate", "start"}
AskSteps == {"ask", "saveUser", "execute", "executing", "saveAnswer"}
Steps == {"idle", "close", "release"} \cup StartSteps \cup AskSteps

(* A session that has not started: AgentSession.__init__, MCPStore.__init__. *)
NewTurn ==
    [step |-> "idle", request |-> None, parent |-> None, history |-> <<>>, persona |-> None,
     said |-> <<>>, runtime |-> FALSE, failed |-> FALSE, answered |-> FALSE, clean |-> FALSE,
     lease |-> "none"]

At(p, step) == turn[p].step = step

Go(p, step) == turn' = [turn EXCEPT ![p].step = step]

(* start raised: the session is poisoned and its update lease ends unknown. *)
FailStart(p) ==
    turn' = [turn EXCEPT ![p].step = "close", ![p].failed = TRUE, ![p].lease = "unknown"]

MutantSaveNotPoisoned(p) == Go(p, "close")

(* save raised: poisoned as well, with the lease still held. *)
FailSave(p) == turn' = [turn EXCEPT ![p].step = "close", ![p].failed = TRUE]

LastOf(s) == IF Len(s) <= Window THEN s ELSE SubSeq(s, Len(s) - Window + 1, Len(s))

MutantParentMayRun(q) == q \in DOMAIN conversation

(* The parent that MCPStore.open selects: an agent-mcp conversation of the *)
(* same scope, closed and ended.                                           *)
Selectable(q) == q \in DOMAIN conversation /\ ~conversation[q].open

MutantPersonaNotRestored(q) ==
    IF q = None THEN [history |-> <<>>, persona |-> revision]
    ELSE [history |-> LastOf(conversation[q].history \o conversation[q].messages),
          persona |-> None]

(* What a turn starts from: the current personality and no history, or its *)
(* parent's snapshot and the window over the parent's window and messages. *)
Snapshot(q) ==
    IF q = None THEN [history |-> <<>>, persona |-> revision]
    ELSE [history |-> LastOf(conversation[q].history \o conversation[q].messages),
          persona |-> conversation[q].persona]

-----------------------------------------------------------------------------
Init ==
    /\ turn = [p \in Processes |-> NewTurn]
    /\ conversation = Empty
    /\ revision = 1
    /\ executions = [r \in Requests |-> 0]
    /\ acknowledged = {}

Begin(p) ==
    /\ At(p, "idle")
    /\ \E r \in Requests, q \in Requests \cup {None} :
         turn' = [turn EXCEPT ![p] = [NewTurn EXCEPT !.step = "resolve", !.request = r,
                                                     !.parent = q, !.lease = "held"]]
    /\ UNCHANGED <<conversation, revision, executions, acknowledged>>

-----------------------------------------------------------------------------
(* AgentSession.start *)

Resolve(p) ==
    /\ At(p, "resolve")
    /\ Go(p, "open") \/ FailStart(p)
    /\ UNCHANGED <<conversation, revision, executions, acknowledged>>

(* MCPStore.open and restore_context. *)
OpenStore(p) ==
    LET t == turn[p]
    IN /\ At(p, "open")
       /\ \/ /\ t.request \notin DOMAIN conversation
             /\ t.parent # None => Selectable(t.parent)
             /\ turn' = [turn EXCEPT ![p].step = "validate",
                                     ![p].history = Snapshot(t.parent).history,
                                     ![p].persona = Snapshot(t.parent).persona]
          \/ FailStart(p)
       /\ UNCHANGED <<conversation, revision, executions, acknowledged>>

Validate(p) ==
    /\ At(p, "validate")
    /\ Go(p, "start") \/ FailStart(p)
    /\ UNCHANGED <<conversation, revision, executions, acknowledged>>

MutantNoPrimaryKey(r) == FALSE

MutantFencedInMemory(r) ==
    \E p \in Processes : ~At(p, "idle") /\ turn[p].runtime /\ turn[p].request = r

(* The conversation's id is taken: UniqueViolation, duplicate_request. *)
Fenced(r) == r \in DOMAIN conversation

NewConversation(t) ==
    [parent |-> t.parent, persona |-> t.persona, history |-> t.history,
     messages |-> <<>>, open |-> TRUE]

MutantRuntimeBeforeCommit(p) ==
    LET r == turn[p].request
    IN /\ At(p, "start")
       /\ \/ /\ ~Fenced(r)
             /\ conversation' = Put(conversation, r, NewConversation(turn[p]))
             /\ turn' = [turn EXCEPT ![p].step = "ask", ![p].runtime = TRUE]
          \/ /\ turn' = [turn EXCEPT ![p].step = "close", ![p].runtime = TRUE,
                                     ![p].failed = TRUE, ![p].lease = "unknown"]
             /\ UNCHANGED conversation
       /\ UNCHANGED <<revision, executions, acknowledged>>

(* MCPStore.start: instance and conversation in one transaction.  Only a   *)
(* commit that is heard of gives the session its runtime.                  *)
StartStore(p) ==
    LET r == turn[p].request
    IN /\ At(p, "start")
       /\ \/ /\ ~Fenced(r)
             /\ conversation' = Put(conversation, r, NewConversation(turn[p]))
             /\ \/ turn' = [turn EXCEPT ![p].step = "ask", ![p].runtime = TRUE]
                \/ FailStart(p)
          \/ FailStart(p) /\ UNCHANGED conversation
       /\ UNCHANGED <<revision, executions, acknowledged>>

-----------------------------------------------------------------------------
(* AgentSession.ask *)

AskValidate(p) ==
    /\ At(p, "ask")
    /\ Go(p, "saveUser") \/ Go(p, "close")
    /\ UNCHANGED <<conversation, revision, executions, acknowledged>>

Written(p, role) ==
    LET r == turn[p].request
    IN conversation' = [conversation EXCEPT ![r].messages = Append(@, <<role, r>>)]

(* save returned: the message joins AgentSession.history, whose window     *)
(* (AGENT_CONTEXT_MESSAGES) is taken to hold the two of this one ask.      *)
Heard(p, role, step) ==
    turn' = [turn EXCEPT ![p].step = step, ![p].said = Append(@, <<role, turn[p].request>>),
                         ![p].answered = (role = "assistant")]

SaveUser(p) ==
    /\ At(p, "saveUser")
    /\ \/ Written(p, "user") /\ (Heard(p, "user", "execute") \/ FailSave(p))
       \/ FailSave(p) /\ UNCHANGED conversation
    /\ UNCHANGED <<revision, executions, acknowledged>>

Execute(p) ==
    /\ At(p, "execute")
    /\ \/ /\ executions' = [executions EXCEPT ![turn[p].request] = @ + 1]
          /\ Go(p, "executing")
       \/ Go(p, "close") /\ UNCHANGED executions
    /\ UNCHANGED <<conversation, revision, acknowledged>>

MutantRetryInference(p) ==
    /\ At(p, "executing")
    /\ Go(p, "saveAnswer") \/ Go(p, "execute") \/ Go(p, "close")
    /\ executions[turn[p].request] < 3
    /\ UNCHANGED <<conversation, revision, executions, acknowledged>>

ExecuteDone(p) ==
    /\ At(p, "executing")
    /\ Go(p, "saveAnswer") \/ Go(p, "close")
    /\ UNCHANGED <<conversation, revision, executions, acknowledged>>

SaveAnswer(p) ==
    /\ At(p, "saveAnswer")
    /\ \/ Written(p, "assistant") /\ (Heard(p, "assistant", "close") \/ FailSave(p))
       \/ FailSave(p) /\ UNCHANGED conversation
    /\ UNCHANGED <<revision, executions, acknowledged>>

-----------------------------------------------------------------------------
(* AgentSession.aclose, shielded in _run *)

MutantCleanupErrorIgnored(p) ==
    LET r == turn[p].request
    IN /\ At(p, "close")
       /\ turn' = [turn EXCEPT ![p].step = "release", ![p].clean = TRUE]
       /\ \/ UNCHANGED conversation
          \/ turn[p].runtime /\ conversation' = [conversation EXCEPT ![r].open = FALSE]
       /\ UNCHANGED <<revision, executions, acknowledged>>

(* store.close: close_runtime when there is a runtime, then the connection. *)
CloseStore(p) ==
    LET r == turn[p].request
    IN /\ At(p, "close")
       /\ \E clean \in BOOLEAN :
            /\ turn' = [turn EXCEPT ![p].step = "release", ![p].clean = clean]
            /\ \/ ~(turn[p].runtime /\ clean) /\ UNCHANGED conversation
               \/ turn[p].runtime /\ conversation' = [conversation EXCEPT ![r].open = FALSE]
       /\ UNCHANGED <<revision, executions, acknowledged>>

LeaseOutcome(t) == IF t.clean /\ ~t.failed THEN "known" ELSE "unknown"

(* client.aclose, then the lease, then the response: ok only when the turn *)
(* was answered and nothing in the cleanup raised.                         *)
Release(p) ==
    LET t == turn[p]
    IN /\ At(p, "release")
       /\ \/ /\ turn' = [turn EXCEPT ![p].step = "idle", ![p].lease = LeaseOutcome(t)]
             /\ acknowledged' = IF t.answered /\ t.clean
                                THEN acknowledged \cup {t.request} ELSE acknowledged
          \/ /\ turn' = [turn EXCEPT ![p].step = "idle", ![p].lease = "unknown"]
             /\ UNCHANGED acknowledged
       /\ UNCHANGED <<conversation, revision, executions>>

-----------------------------------------------------------------------------
(* The process dies: no code of it runs.  Its statements in flight are those *)
(* of the step before.                                                       *)
Crash(p) ==
    /\ ~At(p, "idle")
    /\ turn' = [turn EXCEPT ![p] = [NewTurn EXCEPT !.lease = "unknown"]]
    /\ UNCHANGED <<conversation, revision, executions, acknowledged>>

(* Somebody saves a new personality revision while turns run. *)
SavePersonality ==
    /\ revision < MaxRevision
    /\ revision' = revision + 1
    /\ UNCHANGED <<turn, conversation, executions, acknowledged>>

(* inspect_domain: the updater may not act while this holds. *)
Uncertain == \E r \in DOMAIN conversation : conversation[r].open

Next ==
    \/ \E p \in Processes :
        \/ Begin(p)
        \/ Resolve(p) \/ OpenStore(p) \/ Validate(p) \/ StartStore(p)
        \/ AskValidate(p) \/ SaveUser(p) \/ Execute(p) \/ ExecuteDone(p) \/ SaveAnswer(p)
        \/ CloseStore(p) \/ Release(p)
        \/ Crash(p)
    \/ SavePersonality

Spec == Init /\ [][Next]_vars

-----------------------------------------------------------------------------
Messages == {"user", "assistant"} \X Requests

(* Sessions and rows have their types; a stored conversation names a parent  *)
(* request or none, and always a personality revision.                       *)
TypeOK ==
    /\ turn \in [Processes ->
         [step : Steps, request : Requests \cup {None}, parent : Requests \cup {None},
          history : Seq(Messages), persona : Nat \cup {None}, said : Seq(Messages),
          runtime : BOOLEAN, failed : BOOLEAN, answered : BOOLEAN, clean : BOOLEAN,
          lease : {"none", "held", "known", "unknown"}]]
    /\ conversation \in [DOMAIN conversation ->
         [parent : Requests \cup {None}, persona : Nat, history : Seq(Messages),
          messages : Seq(Messages), open : BOOLEAN]]
    /\ DOMAIN conversation \subseteq Requests
    /\ revision \in Nat
    /\ executions \in [Requests -> Nat]
    /\ acknowledged \subseteq Requests

(* A request id costs at most one provider call, over all retries, rival     *)
(* processes, crashes and lost commits (the fence of mcp_store.py 49-54 and  *)
(* 218).                                                                     *)
AtMostOnce == \A r \in Requests : executions[r] <= 1

(* A caller that was told ok can rely on it: the conversation is closed and  *)
(* holds exactly its question and its answer (mcp_service.py 73-106).        *)
OkMeansDurable ==
    \A r \in acknowledged :
        /\ r \in DOMAIN conversation
        /\ ~conversation[r].open
        /\ conversation[r].messages = <<<<"user", r>>, <<"assistant", r>>>>

(* An update lease that ended known vouches for the database: the turn's own *)
(* conversation was recorded, is closed, and holds what the session believes *)
(* it holds, neither less nor a message more - although start or a save may  *)
(* have failed after their commit and the cleanup gone well (runtime.py      *)
(* 109-115, 208-213, 215-235).                                               *)
KnownLease ==
    \A p \in Processes :
        turn[p].lease = "known" =>
            /\ turn[p].request \in DOMAIN conversation
            /\ ~conversation[turn[p].request].open
            /\ conversation[turn[p].request].messages = turn[p].said

(* The updater's one query is enough: while a turn is between its admission  *)
(* and its cleanup, in whatever process, inspect_domain finds uncertain work *)
(* (updater.py 30-36).                                                       *)
UpdaterSees ==
    ~Uncertain => \A p \in Processes : turn[p].step \notin AskSteps

(* Unfinished conversations whose process is gone, or has given them up. *)
Orphans ==
    {r \in DOMAIN conversation :
        /\ conversation[r].open
        /\ \A p \in Processes :
             ~At(p, "idle") /\ turn[p].runtime => turn[p].request # r}

(* Such a conversation stays as it is, for the updater to see and a human to *)
(* settle: no retry of its id, restarted process or other session's cleanup  *)
(* takes it over, closes it, or repeats its provider call (updater.py 30-36, *)
(* "No process restart or missing PID makes a provider request safe to       *)
(* replay").                                                                 *)
OrphansStay ==
    [][\A r \in Orphans :
          /\ r \in DOMAIN conversation'
          /\ conversation'[r] = conversation[r]
          /\ executions'[r] = executions[r]]_vars

(* A continued conversation holds, for ever, what its parent held when it    *)
(* ended: the parent is closed and can change no more, the window ends with  *)
(* the parent's last messages, and the personality is the parent's even when *)
(* it was edited since (mcp_store.py 55-158, 169-177).                       *)
LineageFrozen ==
    \A r \in DOMAIN conversation :
        LET c == conversation[r]
        IN c.parent # None =>
             /\ c.parent \in DOMAIN conversation \ {r}
             /\ ~conversation[c.parent].open
             /\ c.persona = conversation[c.parent].persona
             /\ c.history = LastOf(conversation[c.parent].history
                                     \o conversation[c.parent].messages)

-----------------------------------------------------------------------------
(* Every failure and retry looks, from outside, like the forward-only ledger *)
(* of requests.                                                              *)
Ledger == INSTANCE RequestLedger WITH
    entry <- [r \in DOMAIN conversation |->
        [stage |-> Len(conversation[r].messages) + 1, inferences |-> executions[r],
         open |-> conversation[r].open]]

Implements == Ledger!Spec
=============================================================================
