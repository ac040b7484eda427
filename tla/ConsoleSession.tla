--------------------------- MODULE ConsoleSession ---------------------------
(***************************************************************************)
(* The interactive console (chat.py): one AgentSession (runtime.py) over a *)
(* PostgresStore for many asks, unlike the one-ask sessions of AgentTurn.  *)
(* Several consoles may run at once on one agent and project.  The window  *)
(* of the prompt (prompts.py) and the provider clients (direct_execution,  *)
(* intelligence) are part of it.                                           *)
(*                                                                         *)
(* A statement commits, fails, or commits while the connection is lost.  A *)
(* message is its role and the number of the ask it belongs to; personality*)
(* and policy, which go before the messages, are left out.                 *)
(***************************************************************************)
EXTENDS Integers, Sequences, Tables

CONSTANTS
    Consoles,
    Window,         \* AGENT_CONTEXT_MESSAGES within 1..64: messages in a prompt
    PreviousLimit,  \* AGENT_PREVIOUS_MESSAGES within 1..64
    MaxConversations, MaxAsks   \* bounds

ASSUME WindowAssumption == Window \in 1..64 /\ PreviousLimit \in 1..64
ASSUME NoneAssumption == None \notin Nat

VARIABLES
    conversation,   \* chat.conversations in the order of their commits: [messages, open]
    console,        \* per console: its AgentSession
    asks            \* asks made so far, of all consoles

vars == <<conversation, console, asks>>

Steps == {"idle", "resolve", "open", "read", "validate", "start", "prompt", "saveUser", "execute",
          "saveAnswer", "close"}

NewConsole ==
    [step |-> "idle", conv |-> None, newest |-> 0, previous |-> <<>>, history |-> <<>>,
     sent |-> <<>>, failed |-> FALSE, resolved |-> FALSE, lease |-> "none"]

At(c, step) == console[c].step = step
Go(c, step) == console' = [console EXCEPT ![c].step = step]
Message(role, n) == [role |-> role, ask |-> n]

(* s[-n:] *)
LastOf(n, s) == IF Len(s) <= n THEN s ELSE SubSeq(s, Len(s) - n + 1, Len(s))

(* The conversation's messages once m is saved. *)
Saved(c, m) == [conversation EXCEPT ![console[c].conv].messages = Append(@, m)]

-----------------------------------------------------------------------------
Init ==
    /\ conversation = <<>>
    /\ console = [c \in Consoles |-> NewConsole]
    /\ asks = 0

Begin(c) ==
    /\ At(c, "idle")
    /\ console' = [console EXCEPT ![c] = [NewConsole EXCEPT !.step = "resolve", !.lease = "held"]]
    /\ UNCHANGED <<conversation, asks>>

FailStart(c) ==
    console' = [console EXCEPT ![c].step = "close", ![c].failed = TRUE, ![c].lease = "unknown"]

Resolve(c) ==
    /\ At(c, "resolve")
    /\ \/ console' = [console EXCEPT ![c].step = "open", ![c].resolved = TRUE]
       \/ FailStart(c)
    /\ UNCHANGED <<conversation, asks>>

(* PostgresStore.open finds the newest conversation, whosever it is and    *)
(* whether or not it still runs, if it is to load one (LOAD_PREVIOUS).     *)
(* Here that is the last one committed; the code's created_at is when its  *)
(* transaction began, so of two starts that overlap it may be the other.   *)
(* No property depends on which of them it is.                             *)
Open(c) ==
    /\ At(c, "open")
    /\ \/ Go(c, "validate")
       \/ /\ conversation # <<>>
          /\ console' = [console EXCEPT ![c].step = "read", ![c].newest = Len(conversation)]
       \/ FailStart(c)
    /\ UNCHANGED <<conversation, asks>>

(* Its messages are a second statement. *)
ReadPrevious(c) ==
    /\ At(c, "read")
    /\ \/ console' = [console EXCEPT
                        ![c].step = "validate", ![c].newest = 0,
                        ![c].previous = LastOf(PreviousLimit,
                                               conversation[console[c].newest].messages)]
       \/ FailStart(c)
    /\ UNCHANGED <<conversation, asks>>

Validate(c) ==
    /\ At(c, "validate")
    /\ (console[c].resolved /\ Go(c, "start")) \/ FailStart(c)
    /\ UNCHANGED <<conversation, asks>>

Start(c) ==
    LET started == Append(conversation, [messages |-> <<>>, open |-> TRUE])
    IN /\ At(c, "start") /\ Len(conversation) < MaxConversations
       /\ \/ /\ conversation' = started
             /\ console' = [console EXCEPT ![c].step = "prompt", ![c].conv = Len(started)]
          \/ conversation' \in {conversation, started} /\ FailStart(c)
       /\ UNCHANGED asks

-----------------------------------------------------------------------------
(* ask builds its prompt before it saves the question. *)
Ask(c) ==
    LET question == Message("user", asks + 1)
    IN /\ At(c, "prompt") /\ asks < MaxAsks
       /\ asks' = asks + 1
       /\ console' = [console EXCEPT
                        ![c].step = "saveUser",
                        ![c].sent = LastOf(Window, Append(console[c].history, question))]
       /\ UNCHANGED conversation

Refuse(c) ==
    /\ At(c, "saveUser")    \* validate refuses the prompt: nothing is saved
    /\ Go(c, "prompt")
    /\ UNCHANGED <<conversation, asks>>

(* _save: an error, with or without its commit, poisons the session, and   *)
(* the console leaves its loop.                                            *)
SaveFails(c, m) ==
    /\ conversation' \in {conversation, Saved(c, m)}
    /\ console' = [console EXCEPT ![c].step = "close", ![c].failed = TRUE]

Question(c) == console[c].sent[Len(console[c].sent)]

SaveUser(c) ==
    LET m == Question(c)
    IN /\ At(c, "saveUser")
       /\ \/ /\ conversation' = Saved(c, m)
             /\ console' = [console EXCEPT ![c].step = "execute",
                                           ![c].history = LastOf(Window, Append(@, m))]
          \/ SaveFails(c, m)
       /\ UNCHANGED asks

MutantForgetsQuestion(c) ==
    /\ At(c, "execute")
    /\ \/ Go(c, "saveAnswer")
       \/ console' = [console EXCEPT
                        ![c].step = "prompt",
                        ![c].history = SubSeq(@, 1, Len(@) - 1)]
    /\ UNCHANGED <<conversation, asks>>

(* The model is called.  A refusal, an unusable answer or a timeout leaves *)
(* the question where it is, and the console asks for the next one.        *)
Execute(c) ==
    /\ At(c, "execute")
    /\ Go(c, "saveAnswer") \/ Go(c, "prompt")
    /\ UNCHANGED <<conversation, asks>>

MutantRetrySave(c) ==
    LET m == Message("assistant", Question(c).ask)
    IN /\ At(c, "saveAnswer")
       /\ \/ /\ conversation' = Saved(c, m)
             /\ console' = [console EXCEPT ![c].step = "prompt",
                                           ![c].history = LastOf(Window, Append(@, m))]
          \/ /\ Len(conversation[console[c].conv].messages) < 2 * MaxAsks
             /\ conversation' = Saved(c, m) /\ UNCHANGED console
       /\ UNCHANGED asks

SaveAnswer(c) ==
    LET m == Message("assistant", Question(c).ask)
    IN /\ At(c, "saveAnswer")
       /\ \/ /\ conversation' = Saved(c, m)
             /\ console' = [console EXCEPT ![c].step = "prompt",
                                           ![c].history = LastOf(Window, Append(@, m))]
          \/ SaveFails(c, m)
       /\ UNCHANGED asks

-----------------------------------------------------------------------------
(* /bye, end of input, or Ctrl-C, which cancels what is awaited.  A second *)
(* Ctrl-C inside a synchronous save is left out: it would be raised there  *)
(* as KeyboardInterrupt, which _save does not take for a failed save       *)
(* (runtime.py:208-213).                                                   *)
Leave(c) ==
    /\ console[c].step \in {"prompt", "execute"}
    /\ Go(c, "close")
    /\ UNCHANGED <<conversation, asks>>

MutantCleanIfClosed(c, clean) == IF clean THEN "known" ELSE "unknown"

(* aclose: the outcome is known if the store and the client closed and     *)
(* nothing failed before.                                                  *)
Outcome(c, clean) == IF clean /\ ~console[c].failed THEN "known" ELSE "unknown"

Close(c) ==
    LET closed == IF console[c].conv = None THEN conversation
                  ELSE [conversation EXCEPT ![console[c].conv].open = FALSE]
    IN /\ At(c, "close")
       /\ \E clean \in BOOLEAN :
            /\ IF clean THEN conversation' = closed ELSE conversation' \in {conversation, closed}
            /\ console' = [console EXCEPT ![c].step = "idle", ![c].resolved = FALSE,
                                          ![c].lease = Outcome(c, clean)]
       /\ UNCHANGED asks

(* The process dies: its lease stays held, its conversation open. *)
Crash(c) ==
    /\ ~At(c, "idle")
    /\ Go(c, "idle")
    /\ UNCHANGED <<conversation, asks>>

Next ==
    \E c \in Consoles :
        \/ Begin(c) \/ Resolve(c) \/ Open(c) \/ ReadPrevious(c) \/ Validate(c) \/ Start(c)
        \/ Ask(c) \/ Refuse(c) \/ SaveUser(c) \/ Execute(c) \/ SaveAnswer(c)
        \/ Leave(c) \/ Close(c) \/ Crash(c)

Spec == Init /\ [][Next]_vars

-----------------------------------------------------------------------------
Own(c) == conversation[console[c].conv].messages

(* What the model is sent is what the transcript says: the last messages   *)
(* of this conversation, unanswered questions included, however many asks  *)
(* failed before (runtime.py:164-173, prompts.py:89).                      *)
SentIsRecorded ==
    \A c \in Consoles : At(c, "execute") => console[c].sent = LastOf(Window, Own(c))

InOrder(ms) ==
    \A n \in 2..Len(ms) : ms[n].role = "assistant" => ms[n - 1] = Message("user", ms[n].ask)

(* An answer stands right after its own question, once, in every           *)
(* transcript, although a save may fail after its commit (runtime.py:180); *)
(* so it does in what a console reads of an earlier conversation, even one *)
(* that another console still writes (db.py:96-137).                       *)
AnswersFollow ==
    /\ \A i \in 1..Len(conversation) :
         LET ms == conversation[i].messages
         IN InOrder(ms) /\ (ms # <<>> => ms[1].role = "user")
    /\ \A c \in Consoles : InOrder(console[c].previous)

(* The updater is told of a known outcome only when the conversation is    *)
(* closed and its transcript ends as the console saw it end                *)
(* (runtime.py:215-235).                                                   *)
KnownOutcome ==
    \A c \in Consoles :
        console[c].lease = "known" /\ console[c].conv # None =>
            /\ ~conversation[console[c].conv].open
            /\ console[c].history = LastOf(Window, Own(c))
=============================================================================
