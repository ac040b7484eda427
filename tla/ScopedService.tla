--------------------------- MODULE ScopedService ----------------------------
(***************************************************************************)
(* Admission inside one server process: the coroutines of                  *)
(* ScopedAgentService (scoped_service.py) and AgentService (mcp_service.py)*)
(* on one event loop, the worker threads they await, and the shutdown of   *)
(* the service.  A step is what a coroutine does between two awaits, so    *)
(* everything it tests and sets in one step is atomic; whatever it learned *)
(* before an await may be stale after it.  What the operations do to the   *)
(* database is PrincipalSessions' and AgentTurn's; here a worker thread    *)
(* only runs and ends.  A refused call returns at once and leaves no       *)
(* trace, so refusals that change nothing are not steps.  Operators named  *)
(* Mutant... are seeded faults, used only in place of the next definition. *)
(***************************************************************************)
EXTENDS Naturals, FiniteSets, Tables

CONSTANTS
    Calls,          \* coroutines the server runs at once; each serves call after call
    SettingsLimit   \* 2: settings operations at once

ASSUME CallsAssumption == IsFiniteSet(Calls)
ASSUME SettingsAssumption == SettingsLimit \in Nat
ASSUME NoneAssumption == None \notin Calls /\ None # "ready"

VARIABLES
    step,               \* per call: where its coroutine awaits
    active,             \* self.active: the call whose turn runs
    continuing,         \* self.continuing: a handoff is being served
    continuation_task,  \* self.continuation_task: its transaction, named by its call
    transitions,        \* the handoff transactions whose thread still runs
    probing,            \* self.probing: an availability probe runs
    settings_active,    \* self.settings_active
    closing,            \* self.closing
    shutdown,           \* where aclose stands: "up", "handoff", "turn", "down"
    awaited,            \* the task aclose waits for
    cancelled,          \* the turn that aclose cancelled
    reply               \* what the last step told its caller: a probe's state, or None

vars == <<step, active, continuing, continuation_task, transitions, probing,
          settings_active, closing, shutdown, awaited, cancelled, reply>>
admission == <<active, continuing, continuation_task, transitions, probing, settings_active>>
closure == <<closing, shutdown, awaited, cancelled>>

-----------------------------------------------------------------------------
Steps == {"idle", "require", "turn", "cleanup", "transition", "drain",
          "settings", "open", "authorize", "probe"}

At(c, s) == step[c] = s

Go(c, s) == step' = [step EXCEPT ![c] = s]

Init ==
    /\ step = [c \in Calls |-> "idle"]
    /\ active = None
    /\ continuing = FALSE
    /\ continuation_task = None
    /\ transitions = {}
    /\ probing = FALSE
    /\ settings_active = 0
    /\ closing = FALSE
    /\ shutdown = "up"
    /\ awaited = None
    /\ cancelled = None
    /\ reply = None

-----------------------------------------------------------------------------
(* ask_scoped, then _run *)

AskStart(c) ==
    /\ At(c, "idle")
    /\ ~closing /\ active = None /\ ~continuing
    /\ Go(c, "require")
    /\ reply' = None
    /\ UNCHANGED <<admission, closure>>

MutantNoRecheck(c) ==
    /\ At(c, "require")
    /\ IF closing \/ active # None
       THEN Go(c, "idle") /\ UNCHANGED active
       ELSE Go(c, "turn") /\ active' = c
    /\ reply' = None
    /\ UNCHANGED <<continuing, continuation_task, transitions, probing, settings_active, closure>>

(* The binding was required in threads; before the turn starts, everything *)
(* is tested again.  The authority, or maintenance, may refuse as well.    *)
(* The awaits of require and models.require are one wait here: no flag is  *)
(* tested between them.                                                    *)
AskRun(c) ==
    /\ At(c, "require")
    /\ \/ /\ ~continuing /\ ~closing /\ active = None
          /\ Go(c, "turn") /\ active' = c
       \/ Go(c, "idle") /\ UNCHANGED active
    /\ reply' = None
    /\ UNCHANGED <<continuing, continuation_task, transitions, probing, settings_active, closure>>

(* The session answers, fails, or the caller goes away.  Nothing makes the *)
(* provider answer.                                                        *)
TurnEnd(c) ==
    /\ At(c, "turn")
    /\ Go(c, "cleanup")
    /\ reply' = None
    /\ UNCHANGED <<admission, closure>>

(* CancelledError at the turn's await. *)
TurnCancelled(c) == cancelled = c /\ TurnEnd(c)

(* session.aclose in the finally, shielded; then active is reset. *)
Cleanup(c) ==
    /\ At(c, "cleanup")
    /\ Go(c, "idle")
    /\ active' = None
    /\ reply' = None
    /\ UNCHANGED <<continuing, continuation_task, transitions, probing, settings_active, closure>>

-----------------------------------------------------------------------------
(* continue_session *)

MutantHandoffDuringProbe(c) ==
    /\ At(c, "idle")
    /\ ~closing /\ active = None /\ ~continuing
    /\ Go(c, "transition")
    /\ continuing' = TRUE /\ continuation_task' = c
    /\ transitions' = transitions \cup {c}
    /\ reply' = None
    /\ UNCHANGED <<active, probing, settings_active, closure>>

HandoffStart(c) ==
    /\ At(c, "idle")
    /\ ~closing /\ active = None /\ ~probing /\ ~continuing
    /\ Go(c, "transition")
    /\ continuing' = TRUE /\ continuation_task' = c
    /\ transitions' = transitions \cup {c}
    /\ reply' = None
    /\ UNCHANGED <<active, probing, settings_active, closure>>

(* The transaction commits or is refused, within the database's timeouts. *)
Transition(c) ==
    /\ transitions' = transitions \ {c}
    /\ reply' = None
    /\ UNCHANGED <<step, active, continuing, continuation_task, probing, settings_active, closure>>

Resume(c) ==
    /\ Go(c, "idle")
    /\ continuing' = FALSE /\ continuation_task' = None
    /\ reply' = None
    /\ UNCHANGED <<active, transitions, probing, settings_active, closure>>

HandoffEnd(c) ==
    /\ step[c] \in {"transition", "drain"}
    /\ c \notin transitions
    /\ Resume(c)

MutantAbandonHandoff(c) == At(c, "transition") /\ Resume(c)

(* Cancelled while it waits: it goes on waiting in a shielded scope, so    *)
(* that the flags outlive the transaction.  A second cancellation from the *)
(* transport, which is that of a scope, does not reach it there; a native  *)
(* task.cancel() would, and is left out.                                   *)
HandoffCancelled(c) ==
    /\ At(c, "transition")
    /\ Go(c, "drain")
    /\ reply' = None
    /\ UNCHANGED <<admission, closure>>

-----------------------------------------------------------------------------
(* settings_operation and open_session: one worker thread each *)

MutantSettingsNotCounted(c) ==
    /\ At(c, "idle") /\ ~closing
    /\ Go(c, "settings")
    /\ reply' = None
    /\ UNCHANGED <<admission, closure>>

SettingsStart(c) ==
    /\ At(c, "idle")
    /\ ~closing /\ settings_active < SettingsLimit
    /\ Go(c, "settings")
    /\ settings_active' = settings_active + 1
    /\ reply' = None
    /\ UNCHANGED <<active, continuing, continuation_task, transitions, probing, closure>>

SettingsEnd(c) ==
    /\ At(c, "settings")
    /\ Go(c, "idle")
    /\ settings_active' = settings_active - 1
    /\ reply' = None
    /\ UNCHANGED <<active, continuing, continuation_task, transitions, probing, closure>>

OpenStart(c) ==
    /\ At(c, "idle")
    /\ ~closing
    /\ Go(c, "open")
    /\ reply' = None
    /\ UNCHANGED <<admission, closure>>

OpenEnd(c) ==
    /\ At(c, "open")
    /\ Go(c, "idle")
    /\ reply' = None
    /\ UNCHANGED <<admission, closure>>

-----------------------------------------------------------------------------
(* availability *)

AvailabilityStart(c) ==
    /\ At(c, "idle")
    /\ Go(c, "authorize")
    /\ reply' = None
    /\ UNCHANGED <<admission, closure>>

(* Authorized, or not; then one probe at a time, and none beside a turn or *)
(* a handoff.                                                              *)
ProbeStart(c) ==
    /\ At(c, "authorize")
    /\ \/ /\ ~closing /\ active = None /\ ~probing /\ ~continuing
          /\ Go(c, "probe") /\ probing' = TRUE /\ reply' = None
       \/ /\ closing
          /\ Go(c, "idle") /\ UNCHANGED probing /\ reply' = "unavailable"
       \/ /\ ~closing /\ (active # None \/ probing \/ continuing)
          /\ Go(c, "idle") /\ UNCHANGED probing /\ reply' = "busy"
       \/ Go(c, "idle") /\ UNCHANGED probing /\ reply' = None
    /\ UNCHANGED <<active, continuing, continuation_task, transitions, settings_active, closure>>

EndProbe(c, answer) ==
    /\ At(c, "probe")
    /\ Go(c, "idle")
    /\ probing' = FALSE
    /\ reply' = answer
    /\ UNCHANGED <<active, continuing, continuation_task, transitions, settings_active, closure>>

(* Every prerequisite was found and the binding is still the caller's. *)
ProbeEnd(c) ==
    EndProbe(c, IF closing THEN "unavailable" ELSE IF active # None THEN "busy" ELSE "ready")

(* A prerequisite failed, or the caller went away. *)
ProbeFailed(c) == \E answer \in {"unavailable", "offline", "unknown", None} : EndProbe(c, answer)

MutantNoTimeout(c) == FALSE

MutantTimeoutLeavesProbing(c) ==
    /\ At(c, "probe")
    /\ Go(c, "idle")
    /\ reply' = "unavailable"
    /\ UNCHANGED <<admission, closure>>

(* asyncio.timeout(15): the one exit that does not depend on the provider. *)
ProbeTimeout(c) == EndProbe(c, "unavailable")

-----------------------------------------------------------------------------
(* aclose *)

CloseStart ==
    /\ ~closing
    /\ closing' = TRUE
    /\ shutdown' = "handoff"
    /\ awaited' = continuation_task
    /\ reply' = None
    /\ UNCHANGED <<step, admission, cancelled>>

MutantCloseWithoutCancel ==
    /\ shutdown = "handoff" /\ awaited \notin transitions
    /\ shutdown' = "turn"
    /\ awaited' = active
    /\ reply' = None
    /\ UNCHANGED <<step, admission, closing, cancelled>>

(* The handoff's transaction has ended: cancel the turn, if one runs. *)
CloseTurn ==
    /\ shutdown = "handoff" /\ awaited \notin transitions
    /\ shutdown' = "turn"
    /\ awaited' = active /\ cancelled' = active
    /\ reply' = None
    /\ UNCHANGED <<step, admission, closing>>

CloseEnd ==
    /\ shutdown = "turn" /\ (awaited = None \/ active # awaited)
    /\ shutdown' = "down"
    /\ reply' = None
    /\ UNCHANGED <<step, admission, closing, awaited, cancelled>>

-----------------------------------------------------------------------------
Begins(c) ==
    \/ AskStart(c) \/ HandoffStart(c) \/ SettingsStart(c) \/ OpenStart(c)
    \/ AvailabilityStart(c)

(* What a call does by itself: threads and cleanups are bounded by the     *)
(* timeouts of the database, the probe by its own.                         *)
Continues(c) ==
    \/ AskRun(c) \/ TurnCancelled(c) \/ Cleanup(c)
    \/ HandoffEnd(c)
    \/ SettingsEnd(c) \/ OpenEnd(c) \/ ProbeStart(c) \/ ProbeTimeout(c)

Next ==
    \/ \E c \in Calls :
        \/ Begins(c) \/ Continues(c)
        \/ TurnEnd(c) \/ HandoffCancelled(c) \/ ProbeEnd(c) \/ ProbeFailed(c)
    \/ \E c \in transitions : Transition(c)
    \/ CloseStart \/ CloseTurn \/ CloseEnd

(* The event loop runs every coroutine that can run; nothing is assumed of *)
(* callers, of the provider, or of when the service is closed.             *)
Fairness ==
    /\ \A c \in Calls : WF_vars(Continues(c)) /\ WF_vars(c \in transitions /\ Transition(c))
    /\ WF_vars(CloseTurn) /\ WF_vars(CloseEnd)

Spec == Init /\ [][Next]_vars /\ Fairness

-----------------------------------------------------------------------------
Doing(s) == {c \in Calls : step[c] \in s}

(* The flags have their types. *)
TypeOK ==
    /\ step \in [Calls -> Steps]
    /\ {active, continuation_task, awaited, cancelled} \subseteq Calls \cup {None}
    /\ {continuing, probing, closing} \subseteq BOOLEAN
    /\ transitions \subseteq Calls
    /\ settings_active \in Nat
    /\ shutdown \in {"up", "handoff", "turn", "down"}
    /\ reply \in {"ready", "busy", "unavailable", "offline", "unknown", None}

(* The flags always account for the calls in progress, so a call that was    *)
(* refused, failed, timed out or cancelled never leaves the service busy for *)
(* ever, and no more settings operations run than two (scoped_service.py     *)
(* 112-115, 173-175, 193-195, 249-251, 273; mcp_service.py 64-66, 107).      *)
Accounted ==
    /\ Doing({"turn", "cleanup"}) = {active} \ {None}
    /\ Doing({"transition", "drain"}) = {continuation_task} \ {None}
    /\ continuing <=> continuation_task # None
    /\ Cardinality(Doing({"probe"})) = IF probing THEN 1 ELSE 0
    /\ settings_active = Cardinality(Doing({"settings"}))
    /\ settings_active <= SettingsLimit

(* No turn runs beside the transaction of a handoff, though both may have    *)
(* been admitted before an await of the other, and though the handoff's      *)
(* caller may be gone (scoped_service.py 112, 328, 342, 157-160).            *)
TurnXorHandoff == active # None => transitions = {}

(* When aclose has returned, no turn runs and no handoff is being committed, *)
(* and neither can begin any more (scoped_service.py 98-105, mcp_service.py  *)
(* 111-116).                                                                 *)
DownIsQuiet == shutdown = "down" => active = None /\ transitions = {}

(* Only a service that is open, runs no turn and serves no handoff at that   *)
(* very moment is reported ready, although the probe's tests were made       *)
(* before an await (scoped_service.py 247-264).                              *)
ReadyIsTrue ==
    [][reply' = "ready" => ~closing' /\ active' = None /\ ~continuing' /\ transitions' = {}]_vars

(* aclose returns, even when the provider never answers the turn it cancels. *)
ShutdownCompletes == closing ~> shutdown = "down"

(* Every call returns, except while its turn waits for the provider.         *)
CallsReturn == \A c \in Calls : ~At(c, "idle") ~> step[c] \in {"idle", "turn"}
=============================================================================
