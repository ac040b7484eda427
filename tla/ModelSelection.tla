--------------------------- MODULE ModelSelection ---------------------------
(***************************************************************************)
(* Which model a turn runs on: model_settings.py with the parts of         *)
(* scoped_service.py and mcp_store.py that use it.  A session keeps the    *)
(* model it was opened with in an immutable row; each process has its own  *)
(* registry of models, changed only by a restart; an operator grants       *)
(* models; a handoff gives a conversation a session with another model.    *)
(* One principal; its sessions and turns are those of SessionAuthority,    *)
(* whose steps this module takes together with its own, and which          *)
(* PrincipalSessions shows the database to implement.                      *)
(*                                                                         *)
(* A database statement that reads what another step may change is a step. *)
(* The advisory lock and the row locks of a transaction are held exactly   *)
(* while its process stands at the steps named below.  A refusal, an       *)
(* error, a timeout or a lost connection is Fail, a crash is Restart.      *)
(***************************************************************************)
EXTENDS Integers, FiniteSets, Tables

CONSTANTS
    Caller, Principal,  \* the delegator and its (human, agent, project)
    FreshIds, Requests, Turns, Processes,
    Models,             \* public model ids
    Targets, Remote,    \* what a registry may map them to; the remote ones
    Registries,         \* registries a process may be configured with
    MayDisable,         \* may settings be switched off again?
    WalkLimit,          \* 32
    MaxSessions

ASSUME RemoteAssumption == Remote \subseteq Targets
ASSUME RegistryAssumption ==
    \A c \in Registries : DOMAIN c \subseteq Models /\ \A m \in DOMAIN c : c[m] \in Targets
ASSUME NoneAssumption ==
    None \notin [model : Models, target : Targets] /\ None \notin Turns /\ None # Caller

VARIABLES
    session, revoked, continuation, turn, issued,   \* SessionAuthority
    selected,   \* chat.principal_options: session id -> [option, consent]
    record,     \* what a conversation's metadata says: [option, parent]
    registry,   \* per process: model id -> target; Empty if settings are off
    grant,      \* core.model_grants, with the model's row in runtime.models
    work,       \* per process: what it is doing
    told        \* a successful answer to a handoff in the last step, or None

authority == <<session, revoked, continuation, turn, issued>>
rows == <<selected, record>>
vars == <<authority, rows, registry, grant, work, told>>

Authority == INSTANCE SessionAuthority WITH
    Delegators <- {Caller}, Keys <- {Principal}, MaxDelegatorSessions <- MaxSessions

-----------------------------------------------------------------------------
OpenSteps == {"issue"}
HandoffSteps == {"source", "bind", "handoff", "confirm"}
AskSteps == {"construct", "openStore", "lock", "model", "admit", "infer", "close"}
Steps == {"idle"} \cup OpenSteps \cup HandoffSteps \cup AskSteps

Options == [model : Models, target : Targets]
Idle == [step |-> "idle", session |-> None, request |-> None, option |-> None,
         consent |-> FALSE, turn |-> None, parent |-> None, allowed |-> FALSE]

At(p, step) == work[p].step = step
Go(p, w) == work' = [work EXCEPT ![p] = w] /\ told' = None
Proceed(p, step) == Go(p, [work[p] EXCEPT !.step = step])

(* pg_advisory_xact_lock, and the row lock of a handoff on its source. *)
NamespaceLock == \E q \in Processes : work[q].step \in {"issue", "handoff"}
RowExclusive(s) == \E q \in Processes : At(q, "handoff") /\ work[q].session = s

(* FOR SHARE by a turn being admitted. *)
RowShare(s) == \E q \in Processes : work[q].step \in {"model", "admit"} /\ work[q].session = s

(* The registry's entry; its digest covers all of it. *)
Option(p, m) == [model |-> m, target |-> registry[p][m]]
IsRemote(o) == o # None /\ o.target \in Remote

(* allowed_on *)
Allowed(o) == grant[o.model] = "remote" \/ (grant[o.model] = "local" /\ ~IsRemote(o))

(* What bind_on asks before it keeps a model for a session. *)
Bindable(p, m, consent) ==
    /\ m \in DOMAIN registry[p]
    /\ Allowed(Option(p, m))
    /\ IsRemote(Option(p, m)) => consent

MutantModelIdOnly(p, s) ==
    /\ Authority!Live(s) /\ s \in DOMAIN selected
    /\ selected[s].option.model \in DOMAIN registry[p]
    /\ Allowed(Option(p, selected[s].option.model))

(* require: the session is live, and its model still registered here with  *)
(* the same digest, granted, and consented to if remote.                   *)
Require(p, s) ==
    /\ Authority!Live(s) /\ s \in DOMAIN selected
    /\ selected[s].option.model \in DOMAIN registry[p]
    /\ selected[s].option = Option(p, selected[s].option.model)
    /\ Allowed(selected[s].option)
    /\ IsRemote(selected[s].option) => selected[s].consent

(* What require returns: this process's entry for the model. *)
Chosen(p, s) == Option(p, selected[s].option.model)

(* The sessions that s continues, as far as continues_on walks. *)
Ancestors(s) ==
    {a \in DOMAIN session :
        \E n \in 0..(WalkLimit - 1) : \E w \in Walks(continuation, s, n) : w[n] = a}

(* May a turn on option o under s carry on the closed conversation q? *)
Continuable(s, o, q) ==
    /\ q \in DOMAIN record /\ turn[q].closed
    /\ IF turn[q].session = s
       THEN /\ record[q].option = o
            /\ IsRemote(o) => IsRemote(record[q].option)
       ELSE turn[q].session \in Ancestors(s)

-----------------------------------------------------------------------------
Init ==
    /\ Authority!Init
    /\ selected = Empty /\ record = Empty
    /\ registry \in [Processes -> Registries]
    /\ grant \in [Models -> {"none", "local", "remote"}]
    /\ work = [p \in Processes |-> Idle]
    /\ told = None

(* PrincipalSessions.open with bind_on, without one if settings are off. *)
OpenBegin(p, m, consent) ==
    /\ At(p, "idle") /\ ~NamespaceLock
    /\ \/ registry[p] = Empty /\ Go(p, [Idle EXCEPT !.step = "issue"])
       \/ /\ Bindable(p, m, consent)
          /\ Go(p, [Idle EXCEPT !.step = "issue", !.option = Option(p, m), !.consent = consent])
    /\ UNCHANGED <<authority, rows, registry, grant>>

Keep(s, w) ==
    selected' = IF w.option = None THEN selected
                ELSE Put(selected, s, [option |-> w.option, consent |-> w.consent])

CommitOpen(p) ==
    /\ At(p, "issue")
    /\ \E u \in FreshIds : Authority!Issue(Caller, Principal, u) /\ Keep(UuidV4(u), work[p])
    /\ Go(p, Idle)
    /\ UNCHANGED <<record, registry, grant>>

(* continue_session: a handoff that exists is looked up, not made again. *)
ContinueBegin(p, s, r, m, consent) ==
    LET child == HandoffId(Caller, s, r)
        w == [Idle EXCEPT !.request = r, !.option = Option(p, m), !.consent = consent]
    IN /\ At(p, "idle")
       /\ m \in DOMAIN registry[p] /\ (IsRemote(Option(p, m)) => consent)
       /\ \/ /\ Authority!Live(child)
             /\ Go(p, [w EXCEPT !.step = "confirm", !.session = child])
          \/ /\ child \notin DOMAIN session /\ Authority!Live(s)
             /\ Go(p, [w EXCEPT !.step = "source", !.session = s])
       /\ UNCHANGED <<authority, rows, registry, grant>>

MutantAnySource(p) ==
    /\ At(p, "source")
    /\ Proceed(p, "bind")
    /\ UNCHANGED <<authority, rows, registry, grant>>

RequireSource(p) ==
    /\ At(p, "source") /\ Require(p, work[p].session)
    /\ Proceed(p, "bind")
    /\ UNCHANGED <<authority, rows, registry, grant>>

(* Inside open: a handoff committed meanwhile is returned as it is.  The   *)
(* reads up to bind_on are one step, and the limit on handoffs, which      *)
(* PrincipalSessions has, is left out: the code hands off less often.      *)
Bind(p) ==
    LET s == work[p].session
        child == HandoffId(Caller, s, work[p].request)
    IN /\ At(p, "bind") /\ ~NamespaceLock /\ ~RowShare(s)
       /\ \/ /\ Authority!Live(child)
             /\ Go(p, [work[p] EXCEPT !.step = "confirm", !.session = child])
          \/ /\ \A c \in DOMAIN continuation : continuation[c].parent # s
             /\ Authority!Live(s) /\ Authority!Complete(s)
             /\ Bindable(p, work[p].option.model, work[p].consent)
             /\ Proceed(p, "handoff")
       /\ UNCHANGED <<authority, rows, registry, grant>>

CommitHandoff(p) ==
    LET s == work[p].session
        child == HandoffId(Caller, s, work[p].request)
    IN /\ At(p, "handoff")
       /\ Authority!Handoff(Caller, s, work[p].request)
       /\ Keep(child, work[p])
       /\ Go(p, [work[p] EXCEPT !.step = "confirm", !.session = child])
       /\ UNCHANGED <<record, registry, grant>>

MutantConfirmAny(p) ==
    /\ At(p, "confirm") /\ Require(p, work[p].session)
    /\ work' = [work EXCEPT ![p] = Idle]
    /\ told' = [session |-> work[p].session, option |-> work[p].option,
                consent |-> work[p].consent]
    /\ UNCHANGED <<authority, rows, registry, grant>>

(* After the commit, on a connection of its own: the session must have the *)
(* model this call asked for, and may be used as things stand now.         *)
Confirm(p) ==
    /\ At(p, "confirm") /\ Require(p, work[p].session)
    /\ Chosen(p, work[p].session) = work[p].option
    /\ work' = [work EXCEPT ![p] = Idle]
    /\ told' = [session |-> work[p].session, option |-> work[p].option,
                consent |-> work[p].consent]
    /\ UNCHANGED <<authority, rows, registry, grant>>

-----------------------------------------------------------------------------
(* ask: the authority is required here, and again for the turn itself. *)
AskBegin(p, s, t, q) ==
    /\ At(p, "idle")
    /\ Authority!Live(s) /\ (registry[p] # Empty => Require(p, s))
    /\ Go(p, [Idle EXCEPT !.step = "construct", !.session = s, !.turn = t, !.parent = q])
    /\ UNCHANGED <<authority, rows, registry, grant>>

Construct(p) ==
    LET s == work[p].session
    IN /\ At(p, "construct")
       /\ \/ registry[p] = Empty /\ Proceed(p, "openStore")
          \/ /\ registry[p] # Empty /\ Require(p, s)
             /\ Go(p, [work[p] EXCEPT !.step = "openStore", !.option = Chosen(p, s)])
       /\ UNCHANGED <<authority, rows, registry, grant>>

OpenStore(p) ==
    LET w == work[p]
    IN /\ At(p, "openStore")
       /\ Authority!Live(w.session) /\ w.turn \notin DOMAIN turn
       /\ w.parent # None => Continuable(w.session, w.option, w.parent)
       /\ Proceed(p, "lock")
       /\ UNCHANGED <<authority, rows, registry, grant>>

(* MCPStore.start: require_on FOR SHARE; the model on a second connection; *)
(* and the conversation.                                                   *)
StartLock(p) ==
    LET w == work[p]
    IN /\ At(p, "lock")
       /\ Authority!Live(w.session) /\ ~RowExclusive(w.session)
       /\ Go(p, [w EXCEPT !.step = "model",
                          !.allowed = w.option = None \/ Allowed(w.option)])
       /\ UNCHANGED <<authority, rows, registry, grant>>

MutantModelCheckedBefore(p) ==
    /\ At(p, "model")
    /\ Proceed(p, "admit")
    /\ UNCHANGED <<authority, rows, registry, grant>>

StartModel(p) ==
    LET w == work[p]
    IN /\ At(p, "model")
       /\ w.option # None => /\ Require(p, w.session)
                             /\ Chosen(p, w.session) = w.option
       /\ Proceed(p, "admit")
       /\ UNCHANGED <<authority, rows, registry, grant>>

Admit(p) ==
    LET w == work[p]
    IN /\ At(p, "admit")
       /\ Authority!Admit(w.session, w.turn)
       /\ record' = Put(record, w.turn, [option |-> w.option, parent |-> w.parent])
       /\ Proceed(p, "infer")
       /\ UNCHANGED <<selected, registry, grant>>

(* The model is called, and its answer saved. *)
Infer(p) ==
    /\ At(p, "infer")
    /\ Authority!Answer(work[p].turn)
    /\ Proceed(p, "close")
    /\ UNCHANGED <<rows, registry, grant>>

CloseTurn(p) ==
    /\ work[p].step \in {"infer", "close"}
    /\ Authority!Close(work[p].turn)
    /\ Go(p, Idle)
    /\ UNCHANGED <<rows, registry, grant>>

Fail(p) ==
    /\ ~At(p, "idle")
    /\ Go(p, Idle)
    /\ UNCHANGED <<authority, rows, registry, grant>>

-----------------------------------------------------------------------------
Restart(p, c) ==
    /\ c # registry[p] /\ (c = Empty => MayDisable)
    /\ registry' = [registry EXCEPT ![p] = c]
    /\ Go(p, Idle)
    /\ UNCHANGED <<authority, rows, grant>>

ChangeGrant(m, g) ==
    /\ grant' = [grant EXCEPT ![m] = g]
    /\ work' = [p \in Processes |->
                 [work[p] EXCEPT !.allowed =
                    @ \/ (At(p, "model") /\ work[p].option # None
                           /\ work[p].option.model = m
                           /\ (g = "remote" \/ (g = "local" /\ ~IsRemote(work[p].option))))]]
    /\ told' = None
    /\ UNCHANGED <<authority, rows, registry>>

Revoke(s) ==
    /\ ~RowShare(s) /\ ~RowExclusive(s)
    /\ Authority!Revoke(s)
    /\ told' = None
    /\ UNCHANGED <<rows, registry, grant, work>>

MutantKeepsOptions(S) ==
    /\ ~NamespaceLock /\ \A s \in S : ~RowShare(s)
    /\ Authority!Retire(S)
    /\ told' = None
    /\ UNCHANGED <<rows, registry, grant, work>>

(* Retention takes the model rows of its sessions with them (ON DELETE     *)
(* CASCADE); the conversations stay.                                       *)
Retire(S) ==
    /\ ~NamespaceLock /\ \A s \in S : ~RowShare(s)
    /\ Authority!Retire(S)
    /\ selected' = Drop(selected, S)
    /\ told' = None
    /\ UNCHANGED <<record, registry, grant, work>>

ProcessStep(p) ==
    \/ \E m \in Models, consent \in BOOLEAN :
         \/ OpenBegin(p, m, consent)
         \/ \E s \in issued, r \in Requests : ContinueBegin(p, s, r, m, consent)
    \/ CommitOpen(p)
    \/ RequireSource(p) \/ Bind(p) \/ CommitHandoff(p) \/ Confirm(p)
    \/ \E s \in issued, t \in Turns, q \in Turns \cup {None} : AskBegin(p, s, t, q)
    \/ Construct(p) \/ OpenStore(p) \/ StartLock(p) \/ StartModel(p) \/ Admit(p)
    \/ Infer(p) \/ CloseTurn(p)
    \/ Fail(p)
    \/ \E c \in Registries : Restart(p, c)

Next ==
    \/ \E p \in Processes : ProcessStep(p)
    \/ \E m \in Models, g \in {"none", "local", "remote"} : ChangeGrant(m, g)
    \/ \E s \in DOMAIN session : Revoke(s)
    \/ \E s \in DOMAIN session : Retire({s})

Spec == Init /\ [][Next]_vars

-----------------------------------------------------------------------------
(* Every variable of this module has its type. *)
TypeOK ==
    /\ DOMAIN session \subseteq issued /\ DOMAIN selected \subseteq DOMAIN session
    /\ \A s \in DOMAIN selected : selected[s] \in [option : Options, consent : BOOLEAN]
    /\ DOMAIN record = DOMAIN turn /\ DOMAIN record \subseteq Turns
    /\ \A t \in DOMAIN record :
         record[t] \in [option : Options \cup {None}, parent : DOMAIN record \cup {None}]
    /\ \A t \in DOMAIN turn : turn[t].session \in issued
    /\ registry \in [Processes -> Registries]
    /\ grant \in [Models -> {"none", "local", "remote"}]
    /\ work \in [Processes ->
         [step : Steps, session : issued \cup {None}, request : Requests \cup {None},
          option : Options \cup {None}, consent : BOOLEAN, turn : Turns \cup {None},
          parent : Turns \cup {None}, allowed : BOOLEAN]]
    /\ told \in {None} \cup [session : issued, option : Options, consent : BOOLEAN]

(* A model is called only with what the caller chose: the very target that *)
(* the session was opened with, whatever the registries of the other       *)
(* processes say, and with its consent if that target is remote (the       *)
(* repeated require at scoped_service.py:335, 178 and mcp_store.py:206).   *)
TurnUsesSelection ==
    \A p \in Processes :
        LET w == work[p]
        IN At(p, "infer") /\ w.option # None =>
             /\ record[w.turn].option = w.option
             /\ w.session \in DOMAIN selected /\ turn[w.turn].session = w.session
             /\ selected[w.session].option = w.option
             /\ IsRemote(w.option) => selected[w.session].consent

(* No turn is admitted on a grant that was gone before its session was     *)
(* locked: what was granted when the turn was built does not count, and a  *)
(* revocation that races the admission may only lose to it                 *)
(* (mcp_store.py:203-207).                                                 *)
NoStaleGrant == \A p \in Processes : At(p, "admit") => work[p].allowed

(* No conversation that was classified carries on one that never was: not  *)
(* through its session, and not through a handoff of a session from before *)
(* the settings (scoped_service.py:139-140, mcp_store.py:98-107).          *)
ClassifiedHistory ==
    \A t \in DOMAIN record :
        record[t].option # None /\ record[t].parent # None
            => record[record[t].parent].option # None

(* A handoff is acknowledged only for the model it asked for: a repetition *)
(* that names another one never hears of the session the first committed   *)
(* (scoped_service.py:136-152).                                            *)
HandoffAnswersItsTarget ==
    told # None =>
        /\ Authority!Live(told.session) /\ told.session \in DOMAIN continuation
        /\ selected[told.session].option = told.option
        /\ IsRemote(told.option) => selected[told.session].consent

(* "A remote conversation can only continue a previously admitted remote   *)
(* snapshot": the comment at mcp_store.py:100 on the test below it.        *)
RemoteContinuesRemote ==
    \A t \in DOMAIN record :
        IsRemote(record[t].option) /\ record[t].parent # None
            => IsRemote(record[record[t].parent].option)

(* "Local-only or legacy-unclassified history cannot be exported":         *)
(* docs/PHASES.md:26, of the second half.                                  *)
UnclassifiedNotExported ==
    \A t \in DOMAIN record :
        IsRemote(record[t].option) /\ record[t].parent # None
            => record[record[t].parent].option # None
=============================================================================
