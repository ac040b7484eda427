------------------------ MODULE ModelSelectionProofs ------------------------
(***************************************************************************)
(* Theorems of ModelSelection for every number of processes, sessions,     *)
(* turns, models and registries, switched on and off as may be.  The       *)
(* inductive invariant says what a process may rely on at each of its      *)
(* steps, whatever the others do: Fit.                                     *)
(***************************************************************************)
EXTENDS ModelSelection, TLAPS

Works ==
    [step : Steps, session : issued \cup {None}, request : Requests \cup {None},
     option : Options \cup {None}, consent : BOOLEAN, turn : Turns \cup {None},
     parent : Turns \cup {None}, allowed : BOOLEAN]

Running == {"infer", "close"}

(* The arguments that a step needs are there. *)
Supplied(w) ==
    /\ w.step \in AskSteps => w.session \in issued /\ w.turn \in Turns
    /\ w.step \in {"lock", "model", "admit"} => w.parent \in DOMAIN record \cup {None}
    /\ w.step \in {"source", "bind", "handoff"} => w.session \in issued /\ w.request \in Requests
    /\ w.step = "confirm" =>
         \E s \in issued, r \in Requests : w.session = HandoffId(Caller, s, r)

(* The turn in progress is open, under its session and with its model. *)
Open(w) ==
    w.step \in Running =>
        /\ w.turn \in DOMAIN turn /\ ~turn[w.turn].closed
        /\ turn[w.turn].session = w.session /\ record[w.turn].option = w.option

(* From the check in its admission on, a turn has the model of its session. *)
Held(w) ==
    w.step \in {"admit", "infer"} /\ w.option # None =>
        /\ w.session \in DOMAIN selected
        /\ selected[w.session].option = w.option
        /\ IsRemote(w.option) => selected[w.session].consent

(* allowed records every moment since the lock. *)
Recorded(w) ==
    /\ w.step = "model" /\ (w.option = None \/ Allowed(w.option)) => w.allowed
    /\ w.step = "admit" => w.allowed

Fit(w) == w \in Works /\ Supplied(w) /\ Open(w) /\ Held(w) /\ Recorded(w)

TurnOK ==
    \A t \in DOMAIN turn : turn[t] \in [session : issued, answered : BOOLEAN, closed : BOOLEAN]

(* A retained session was opened afresh, or is the successor of another. *)
LineageOK ==
    \A s \in DOMAIN session : (\E u \in FreshIds : s = UuidV4(u)) \/ s \in DOMAIN continuation

(* A turn is run by one process. *)
OneRunner ==
    \A p, q \in Processes :
        work[p].step \in Running /\ work[q].step \in Running /\ work[p].turn = work[q].turn => p = q

IInv ==
    /\ TypeOK /\ TurnOK /\ LineageOK /\ OneRunner /\ HandoffAnswersItsTarget
    /\ \A p \in Processes : Fit(work[p])

-----------------------------------------------------------------------------
LEMMA IdleFits == Idle \in Works /\ Idle.step = "idle" /\ Fit(Idle)
<1>1. Idle \in Works /\ Idle.step = "idle"
  BY DEF Idle, Works, Steps
<1> QED BY <1>1 DEF Fit, Supplied, Open, Held, Recorded, AskSteps, Running

LEMMA InitInv == Init => IInv
<1> SUFFICES ASSUME Init PROVE IInv
  OBVIOUS
<1> USE DEF Init, Authority!Init
<1>1. TypeOK
  BY IdleFits DEF TypeOK, Empty, Authority!Empty, Works
<1>2. TurnOK /\ LineageOK /\ HandoffAnswersItsTarget
  BY DEF TurnOK, LineageOK, HandoffAnswersItsTarget, Authority!Empty
<1>3. OneRunner
  BY IdleFits DEF OneRunner, Running
<1>4. \A p \in Processes : Fit(work[p])
  BY IdleFits
<1> QED BY <1>1, <1>2, <1>3, <1>4 DEF IInv

(* What a process at work relies on survives a step of another that grows  *)
(* the tables and leaves its turn and its session's model alone.           *)
LEMMA FitStays ==
    ASSUME NEW w, Fit(w), UNCHANGED grant,
           issued \subseteq issued', DOMAIN record \subseteq DOMAIN record',
           Open(w)', Held(w)'
    PROVE  Fit(w)'
<1>1. (w \in Works)' /\ Supplied(w)'
  BY DEF Fit, Works, Supplied
<1>2. Recorded(w)'
  BY DEF Fit, Recorded, Allowed, IsRemote
<1> QED BY <1>1, <1>2 DEF Fit

(* A process goes on with what fits its next step; nothing else changes.   *)
LEMMA GoInv ==
    ASSUME IInv, NEW p \in Processes, NEW w, Fit(w), Go(p, w),
           UNCHANGED <<authority, rows, grant>>, registry' \in [Processes -> Registries],
           w.step \in Running => work[p].step \in Running /\ w.turn = work[p].turn
    PROVE  IInv'
<1> USE DEF IInv, Go
<1>0. /\ UNCHANGED <<session, revoked, continuation, turn, issued, selected, record, grant>>
      /\ work \in [Processes -> Works] /\ w \in Works
      /\ \A q \in Processes : work'[q] = (IF q = p THEN w ELSE work[q])
      /\ told' = None
  BY DEF authority, rows, TypeOK, Works, Fit
<1>1. TypeOK'
  <2>1. work' \in [Processes -> Works]
    BY <1>0
  <2> QED BY <1>0, <2>1 DEF TypeOK, Works
<1>2. TurnOK' /\ LineageOK' /\ HandoffAnswersItsTarget'
  BY <1>0 DEF TurnOK, LineageOK, HandoffAnswersItsTarget
<1>3. OneRunner'
  BY <1>0 DEF OneRunner
<1>4. ASSUME NEW q \in Processes PROVE Fit(work[q])'
  <2>1. PICK v : v = work'[q]
    OBVIOUS
  <2>2. Fit(v)
    BY <1>0, <2>1
  <2>3. Open(v)' /\ Held(v)'
    BY <1>0, <2>2 DEF Fit, Open, Held, IsRemote
  <2>4. Fit(v)'
    BY <1>0, <2>2, <2>3, FitStays
  <2> QED BY <2>1, <2>4
<1> QED BY <1>1, <1>2, <1>3, <1>4

LEMMA NowFits ==
    ASSUME IInv, NEW p \in Processes
    PROVE  Fit(work[p]) /\ work[p] \in Works
  BY DEF IInv, Fit

LEMMA QuietInv ==
    ASSUME IInv, NEW p \in Processes, Go(p, Idle),
           UNCHANGED <<authority, rows, grant>>, registry' \in [Processes -> Registries]
    PROVE  IInv'
  BY IdleFits, GoInv DEF Running

LEMMA OptionType ==
    ASSUME IInv, NEW p \in Processes, NEW m \in DOMAIN registry[p]
    PROVE  Option(p, m) \in Options /\ Option(p, m) # None /\ m \in Models
  BY RegistryAssumption, NoneAssumption DEF IInv, TypeOK, Option, Options

LEMMA OpenBeginInv ==
    ASSUME IInv, NEW p \in Processes, NEW m \in Models, NEW consent \in BOOLEAN,
           OpenBegin(p, m, consent)
    PROVE  IInv'
<1> DEFINE Fits(w) == Go(p, w) /\ w \in Works /\ w.step = "issue"
<1>1. PICK w : Fits(w)
  <2>1. CASE Go(p, [Idle EXCEPT !.step = "issue"])
    BY <2>1, IdleFits DEF Works, Steps, OpenSteps
  <2>2. CASE /\ Bindable(p, m, consent)
             /\ Go(p, [Idle EXCEPT !.step = "issue", !.option = Option(p, m), !.consent = consent])
    <3>1. Option(p, m) \in Options
      BY <2>2, OptionType DEF Bindable
    <3> DEFINE w == [Idle EXCEPT !.step = "issue", !.option = Option(p, m), !.consent = consent]
    <3>2. w \in Works /\ w.step = "issue"
      BY <3>1, IdleFits DEF Works, Steps, OpenSteps
    <3> QED BY <2>2, <3>2
  <2> QED BY <2>1, <2>2 DEF OpenBegin
<1>2. Fit(w)
  BY <1>1 DEF Fit, Supplied, Open, Held, Recorded, AskSteps, Running
<1> QED BY <1>1, <1>2, GoInv DEF OpenBegin, Running, IInv, TypeOK

LEMMA ContinueBeginInv ==
    ASSUME IInv, NEW p \in Processes, NEW s \in issued, NEW r \in Requests, NEW m \in Models,
           NEW consent \in BOOLEAN, ContinueBegin(p, s, r, m, consent)
    PROVE  IInv'
<1> DEFINE child == HandoffId(Caller, s, r)
           base == [Idle EXCEPT !.request = r, !.option = Option(p, m), !.consent = consent]
<1>1. base \in Works /\ base.request = r
  <2>1. Option(p, m) \in Options
    BY OptionType DEF ContinueBegin
  <2> QED BY <2>1, IdleFits DEF Works
<1> HIDE DEF base
<1>2. CASE Authority!Live(child) /\ Go(p, [base EXCEPT !.step = "confirm", !.session = child])
  <2>1. child \in issued
    BY <1>2 DEF IInv, TypeOK, Authority!Live
  <2>2. PICK w : w = [base EXCEPT !.step = "confirm", !.session = child]
    OBVIOUS
  <2>3. w \in Works /\ w.step = "confirm" /\ w.session = child
    BY <1>1, <2>1, <2>2 DEF Works, Steps, HandoffSteps
  <2>4. Fit(w)
    BY <2>3 DEF Fit, Supplied, Open, Held, Recorded, AskSteps, Running
  <2> QED BY <1>2, <2>2, <2>3, <2>4, GoInv DEF ContinueBegin, Running, IInv, TypeOK
<1>3. CASE Go(p, [base EXCEPT !.step = "source", !.session = s])
  <2>1. PICK w : w = [base EXCEPT !.step = "source", !.session = s]
    OBVIOUS
  <2>2. w \in Works /\ w.step = "source" /\ w.session = s /\ w.request = r
    BY <1>1, <2>1 DEF Works, Steps, HandoffSteps
  <2>3. Fit(w)
    BY <2>2 DEF Fit, Supplied, Open, Held, Recorded, AskSteps, Running
  <2> QED BY <1>3, <2>1, <2>2, <2>3, GoInv DEF ContinueBegin, Running, IInv, TypeOK
<1> QED BY <1>2, <1>3 DEF ContinueBegin, base

(* A process proceeds to a step that asks for no more than it has.         *)
LEMMA ProceedInv ==
    ASSUME IInv, NEW p \in Processes, NEW w, w \in Works, Go(p, w),
           UNCHANGED <<authority, rows, registry, grant>>,
           w.step \notin Running, Supplied(w), Held(w), Recorded(w)
    PROVE  IInv'
<1>1. Fit(w)
  BY DEF Fit, Open
<1> QED BY <1>1, GoInv DEF IInv, TypeOK

LEMMA RequireSourceInv ==
    ASSUME IInv, NEW p \in Processes, RequireSource(p)
    PROVE  IInv'
<1>1. PICK w : w = [work[p] EXCEPT !.step = "bind"]
  OBVIOUS
<1>2. /\ w \in Works /\ w.step = "bind"
      /\ w.session = work[p].session /\ w.request = work[p].request
  BY <1>1, NowFits DEF Works, Steps, HandoffSteps
<1>3. work[p].session \in issued /\ work[p].request \in Requests
  BY NowFits DEF Fit, Supplied, RequireSource, At
<1>4. Supplied(w) /\ Held(w) /\ Recorded(w)
  BY <1>2, <1>3 DEF Supplied, Held, Recorded, AskSteps
<1> QED BY <1>1, <1>2, <1>4, ProceedInv DEF RequireSource, Proceed, Running

LEMMA BindInv ==
    ASSUME IInv, NEW p \in Processes, Bind(p)
    PROVE  IInv'
<1> DEFINE s == work[p].session
           child == HandoffId(Caller, s, work[p].request)
<1>1. s \in issued /\ work[p].request \in Requests
  BY NowFits DEF Fit, Supplied, Bind, At
<1>2. CASE Authority!Live(child) /\ Go(p, [work[p] EXCEPT !.step = "confirm", !.session = child])
  <2>1. child \in issued
    BY <1>2 DEF IInv, TypeOK, Authority!Live
  <2>2. PICK w : w = [work[p] EXCEPT !.step = "confirm", !.session = child]
    OBVIOUS
  <2>3. w \in Works /\ w.step = "confirm" /\ w.session = child
    BY <2>1, <2>2, NowFits DEF Works, Steps, HandoffSteps
  <2>4. Supplied(w) /\ Held(w) /\ Recorded(w)
    BY <1>1, <2>3 DEF Supplied, Held, Recorded, AskSteps
  <2> QED BY <1>2, <2>2, <2>3, <2>4, ProceedInv DEF Bind, Running
<1>3. CASE Proceed(p, "handoff")
  <2>1. PICK w : w = [work[p] EXCEPT !.step = "handoff"]
    OBVIOUS
  <2>2. /\ w \in Works /\ w.step = "handoff"
        /\ w.session = s /\ w.request = work[p].request
    BY <2>1, NowFits DEF Works, Steps, HandoffSteps
  <2>3. Supplied(w) /\ Held(w) /\ Recorded(w)
    BY <1>1, <2>2 DEF Supplied, Held, Recorded, AskSteps
  <2> QED BY <1>3, <2>1, <2>2, <2>3, ProceedInv DEF Bind, Proceed, Running
<1> QED BY <1>2, <1>3 DEF Bind

-----------------------------------------------------------------------------
LEMMA AskBeginInv ==
    ASSUME IInv, NEW p \in Processes, NEW s \in issued, NEW t \in Turns, NEW q \in Turns \cup {None},
           AskBegin(p, s, t, q)
    PROVE  IInv'
<1>1. PICK w : w = [Idle EXCEPT !.step = "construct", !.session = s, !.turn = t, !.parent = q]
  OBVIOUS
<1>2. w \in Works /\ w.step = "construct" /\ w.session = s /\ w.turn = t
  BY <1>1, IdleFits DEF Works, Steps, AskSteps
<1>3. Supplied(w) /\ Held(w) /\ Recorded(w)
  BY <1>2 DEF Supplied, Held, Recorded, AskSteps
<1> QED BY <1>1, <1>2, <1>3, ProceedInv DEF AskBegin, Running

(* What a turn under way has been supplied with. *)
LEMMA TurnArguments ==
    ASSUME IInv, NEW p \in Processes, work[p].step \in AskSteps
    PROVE  work[p].session \in issued /\ work[p].turn \in Turns
  BY NowFits DEF Fit, Supplied

LEMMA ConstructInv ==
    ASSUME IInv, NEW p \in Processes, Construct(p)
    PROVE  IInv'
<1>1. PICK o : Go(p, [work[p] EXCEPT !.step = "openStore", !.option = o]) /\ o \in Options \cup {None}
  <2>1. CASE Proceed(p, "openStore")
    <3>1. [work[p] EXCEPT !.step = "openStore"]
            = [work[p] EXCEPT !.step = "openStore", !.option = work[p].option]
      BY NowFits DEF Works
    <3> QED BY <2>1, <3>1, NowFits DEF Proceed, Works
  <2>2. CASE /\ Require(p, work[p].session)
             /\ Go(p, [work[p] EXCEPT !.step = "openStore", !.option = Chosen(p, work[p].session)])
    BY <2>2, OptionType DEF Require, Chosen
  <2> QED BY <2>1, <2>2 DEF Construct
<1>2. PICK w : w = [work[p] EXCEPT !.step = "openStore", !.option = o]
  OBVIOUS
<1>3. /\ w \in Works /\ w.step = "openStore"
      /\ w.session = work[p].session /\ w.turn = work[p].turn
  BY <1>1, <1>2, NowFits DEF Works, Steps, AskSteps
<1>4. Supplied(w) /\ Held(w) /\ Recorded(w)
  BY <1>3, TurnArguments DEF Construct, At, Supplied, Held, Recorded, AskSteps
<1> QED BY <1>1, <1>2, <1>3, <1>4, ProceedInv DEF Construct, Running

LEMMA OpenStoreInv ==
    ASSUME IInv, NEW p \in Processes, OpenStore(p)
    PROVE  IInv'
<1>1. PICK w : w = [work[p] EXCEPT !.step = "lock"]
  OBVIOUS
<1>2. /\ w \in Works /\ w.step = "lock" /\ w.session = work[p].session
      /\ w.turn = work[p].turn /\ w.parent = work[p].parent
  BY <1>1, NowFits DEF Works, Steps, AskSteps
<1>3. w.parent \in DOMAIN record \cup {None}
  BY <1>2 DEF OpenStore, Continuable
<1>4. Supplied(w) /\ Held(w) /\ Recorded(w)
  BY <1>2, <1>3, TurnArguments DEF OpenStore, At, Supplied, Held, Recorded, AskSteps
<1> QED BY <1>1, <1>2, <1>4, ProceedInv DEF OpenStore, Proceed, Running

(* The grant is looked at as of the moment the session is locked. *)
LEMMA StartLockInv ==
    ASSUME IInv, NEW p \in Processes, StartLock(p)
    PROVE  IInv'
<1>1. PICK a \in BOOLEAN : a = (work[p].option = None \/ Allowed(work[p].option))
  OBVIOUS
<1>2. PICK w : w = [work[p] EXCEPT !.step = "model", !.allowed = a]
  OBVIOUS
<1>3. /\ w \in Works /\ w.step = "model" /\ w.session = work[p].session
      /\ w.turn = work[p].turn /\ w.parent = work[p].parent /\ w.option = work[p].option
      /\ w.allowed = a
  BY <1>2, NowFits DEF Works, Steps, AskSteps
<1>4. w.parent \in DOMAIN record \cup {None}
  BY <1>3, NowFits DEF StartLock, At, Fit, Supplied
<1>5. Supplied(w) /\ Held(w) /\ Recorded(w)
  BY <1>1, <1>3, <1>4, TurnArguments DEF StartLock, At, Supplied, Held, Recorded, AskSteps
<1>6. Go(p, w)
  BY <1>1, <1>2 DEF StartLock
<1> QED BY <1>3, <1>5, <1>6, ProceedInv DEF StartLock, Running

LEMMA StartModelInv ==
    ASSUME IInv, NEW p \in Processes, StartModel(p)
    PROVE  IInv'
<1>1. PICK w : w = [work[p] EXCEPT !.step = "admit"]
  OBVIOUS
<1>2. /\ w \in Works /\ w.step = "admit" /\ w.session = work[p].session
      /\ w.turn = work[p].turn /\ w.parent = work[p].parent /\ w.option = work[p].option
      /\ w.allowed = work[p].allowed
  BY <1>1, NowFits DEF Works, Steps, AskSteps
<1>3. w.parent \in DOMAIN record \cup {None}
  BY <1>2, NowFits DEF StartModel, At, Fit, Supplied
<1>4. w.option # None =>
        /\ w.session \in DOMAIN selected
        /\ selected[w.session].option = w.option /\ Allowed(w.option)
        /\ IsRemote(w.option) => selected[w.session].consent
  BY <1>2 DEF StartModel, Require, Chosen
<1>5. w.allowed
  BY <1>2, <1>4, NowFits DEF StartModel, At, Fit, Recorded
<1>6. Supplied(w) /\ Held(w) /\ Recorded(w)
  BY <1>2, <1>3, <1>4, <1>5, TurnArguments DEF StartModel, At, Supplied, Held, Recorded, AskSteps
<1> QED BY <1>1, <1>2, <1>6, ProceedInv DEF StartModel, Proceed, Running

LEMMA ConfirmInv ==
    ASSUME IInv, NEW p \in Processes, Confirm(p)
    PROVE  IInv'
<1> DEFINE s == work[p].session
<1>1. /\ s \in DOMAIN session /\ Authority!Live(s) /\ s \in DOMAIN selected
      /\ selected[s].option = work[p].option
      /\ IsRemote(work[p].option) => selected[s].consent
  BY DEF Confirm, Require, Chosen, Authority!Live
<1>2. s \in DOMAIN continuation
  <2>1. PICK s0 \in issued, r \in Requests : s = HandoffId(Caller, s0, r)
    BY NowFits DEF Fit, Supplied, Confirm, At
  <2>2. \A u \in FreshIds : s # UuidV4(u)
    BY <2>1, NoneAssumption DEF HandoffId, UuidV4
  <2> QED BY <1>1, <2>2 DEF IInv, LineageOK
<1>3. /\ work[p].option \in Options /\ work[p].consent \in BOOLEAN /\ s \in issued
      /\ told' = [session |-> s, option |-> work[p].option, consent |-> work[p].consent]
  BY <1>1, NowFits DEF IInv, TypeOK, Confirm, Works
<1>4. /\ UNCHANGED <<session, revoked, continuation, turn, issued, selected, record, grant, registry>>
      /\ \A q \in Processes : work'[q] = (IF q = p THEN Idle ELSE work[q])
      /\ work' \in [Processes -> Works]
  BY NowFits, IdleFits DEF Confirm, authority, rows, IInv, TypeOK, Works
<1>5. TypeOK'
  BY <1>3, <1>4 DEF IInv, TypeOK, Works
<1>6. HandoffAnswersItsTarget'
  BY <1>1, <1>2, <1>3, <1>4 DEF HandoffAnswersItsTarget, Authority!Live, IsRemote
<1>7. TurnOK' /\ LineageOK' /\ OneRunner'
  BY <1>4, IdleFits DEF IInv, TurnOK, LineageOK, OneRunner, Running
<1>8. ASSUME NEW q \in Processes PROVE Fit(work[q])'
  <2>1. PICK v : v = work'[q]
    OBVIOUS
  <2>2. Fit(v)
    BY <1>4, <2>1, NowFits, IdleFits
  <2>3. Open(v)' /\ Held(v)'
    BY <1>4, <2>2 DEF Fit, Open, Held, IsRemote
  <2>4. Fit(v)'
    BY <1>4, <2>2, <2>3, FitStays
  <2> QED BY <2>1, <2>4
<1> QED BY <1>5, <1>6, <1>7, <1>8 DEF IInv

-----------------------------------------------------------------------------
(* A new session appears with the model its process has chosen, and nobody *)
(* relies on it yet.                                                       *)
LEMMA NewSessionInv ==
    ASSUME IInv, NEW p \in Processes, NEW w, NEW s, s \notin issued,
           DOMAIN session' = DOMAIN session \cup {s}, issued' = issued \cup {s},
           DOMAIN continuation \subseteq DOMAIN continuation',
           (\E u \in FreshIds : s = UuidV4(u)) \/ s \in DOMAIN continuation',
           Keep(s, work[p]), Go(p, w), UNCHANGED <<turn, record, registry, grant>>,
           (w \in Works)', Supplied(w)', w.step \in {"idle", "confirm"}
    PROVE  IInv'
<1> USE DEF IInv, Go
<1>0. /\ DOMAIN session \subseteq issued /\ DOMAIN selected \subseteq DOMAIN session
      /\ \A x \in DOMAIN selected : selected[x] \in [option : Options, consent : BOOLEAN]
      /\ work \in [Processes -> Works] /\ work[p] \in Works /\ told' = None
      /\ \A q \in Processes : work'[q] = (IF q = p THEN w ELSE work[q])
  BY DEF TypeOK, Works
<1>1. /\ DOMAIN selected' \subseteq DOMAIN selected \cup {s}
      /\ \A x \in DOMAIN selected : x \in DOMAIN selected' /\ selected'[x] = selected[x]
      /\ \A x \in DOMAIN selected' : selected'[x] \in [option : Options, consent : BOOLEAN]
  BY <1>0 DEF Keep, Put, Works
<1>2. work' \in [Processes -> Works']
  BY <1>0 DEF Works
<1>3. TypeOK'
  BY <1>0, <1>1, <1>2 DEF TypeOK, Works
<1>4. TurnOK' /\ LineageOK' /\ HandoffAnswersItsTarget'
  BY <1>0 DEF TurnOK, LineageOK, HandoffAnswersItsTarget
<1>5. OneRunner'
  BY <1>0 DEF OneRunner, Running
<1>6. ASSUME NEW q \in Processes PROVE Fit(work[q])'
  <2>1. PICK v : v = work'[q]
    OBVIOUS
  <2>2. CASE q = p
    <3>1. v = w
      BY <1>0, <2>1, <2>2
    <3>2. Open(w)' /\ Held(w)' /\ Recorded(w)'
      BY DEF Open, Held, Recorded, Running
    <3> QED BY <2>1, <3>1, <3>2 DEF Fit
  <2>3. CASE q # p
    <3>1. Fit(v)
      BY <1>0, <2>1, <2>3
    <3>2. Open(v)' /\ Held(v)'
      BY <1>1, <3>1 DEF Fit, Open, Held, IsRemote
    <3>3. Fit(v)'
      BY <3>1, <3>2, FitStays
    <3> QED BY <2>1, <3>3
  <2> QED BY <2>2, <2>3
<1> QED BY <1>3, <1>4, <1>5, <1>6

LEMMA CommitOpenInv ==
    ASSUME IInv, NEW p \in Processes, CommitOpen(p)
    PROVE  IInv'
<1>1. PICK u \in FreshIds : Authority!Issue(Caller, Principal, u) /\ Keep(UuidV4(u), work[p])
  BY DEF CommitOpen
<1>2. PICK w : w = Idle
  OBVIOUS
<1>3. /\ UuidV4(u) \notin issued
      /\ DOMAIN session' = DOMAIN session \cup {UuidV4(u)}
      /\ issued' = issued \cup {UuidV4(u)}
      /\ UNCHANGED <<continuation, turn>>
  BY <1>1 DEF Authority!Issue, Authority!Put, Authority!UuidV4, UuidV4
<1>4. (w \in Works)' /\ w.step = "idle" /\ Supplied(w)'
  BY <1>2, <1>3, IdleFits DEF Works, Supplied, AskSteps
<1> QED BY <1>1, <1>2, <1>3, <1>4, NewSessionInv DEF CommitOpen

LEMMA CommitHandoffInv ==
    ASSUME IInv, NEW p \in Processes, CommitHandoff(p)
    PROVE  IInv'
<1> DEFINE s == work[p].session
           r == work[p].request
           child == HandoffId(Caller, s, r)
<1>1. s \in issued /\ r \in Requests /\ work[p] \in Works
  BY NowFits DEF Fit, Supplied, CommitHandoff, At
<1>2. /\ child \notin issued
      /\ DOMAIN session' = DOMAIN session \cup {child}
      /\ DOMAIN continuation' = DOMAIN continuation \cup {child}
      /\ issued' = issued \cup {child}
      /\ UNCHANGED turn
  BY DEF CommitHandoff, Authority!Handoff, Authority!Put, Authority!HandoffId, HandoffId
<1>3. PICK w : w = [work[p] EXCEPT !.step = "confirm", !.session = child]
  OBVIOUS
<1>4. (w \in Works)' /\ w.step = "confirm" /\ w.session = child
  BY <1>1, <1>2, <1>3 DEF Works, Steps, HandoffSteps
<1>5. Supplied(w)'
  BY <1>1, <1>2, <1>4 DEF Supplied, AskSteps
<1> QED BY <1>1, <1>2, <1>3, <1>4, <1>5, NewSessionInv DEF CommitHandoff

(* The turn tables change under one process, which goes on with w.         *)
LEMMA TurnInv ==
    ASSUME IInv, NEW p \in Processes, NEW w, w \in Works, Go(p, w),
           UNCHANGED <<session, revoked, continuation, issued, selected, registry, grant>>,
           NEW t \in Turns, DOMAIN turn' = DOMAIN turn \cup {t}, DOMAIN record' = DOMAIN turn',
           turn'[t] \in [session : issued, answered : BOOLEAN, closed : BOOLEAN],
           record'[t] \in [option : Options \cup {None}, parent : DOMAIN record' \cup {None}],
           \A x \in DOMAIN turn \ {t} : turn'[x] = turn[x] /\ record'[x] = record[x],
           \A q \in Processes \ {p} : work[q].step \in Running => work[q].turn # t,
           w.step \in Running => w.turn = t,
           Supplied(w)', Open(w)', Held(w), w.step \notin {"model", "admit"}
    PROVE  IInv'
<1> USE DEF IInv, Go
<1>0. /\ work \in [Processes -> Works] /\ told' = None
      /\ \A q \in Processes : work'[q] = (IF q = p THEN w ELSE work[q])
      /\ DOMAIN record = DOMAIN turn
  BY DEF TypeOK, Works
<1>1. TypeOK'
  <2>1. work' \in [Processes -> Works]
    BY <1>0
  <2>2. \A x \in DOMAIN record' :
          record'[x] \in [option : Options \cup {None}, parent : DOMAIN record' \cup {None}]
    BY <1>0 DEF TypeOK
  <2>3. \A x \in DOMAIN turn' : turn'[x].session \in issued'
    BY DEF TypeOK
  <2> QED BY <1>0, <2>1, <2>2, <2>3 DEF TypeOK, Works
<1>2. TurnOK' /\ LineageOK' /\ HandoffAnswersItsTarget'
  BY <1>0 DEF TurnOK, LineageOK, HandoffAnswersItsTarget
<1>3. OneRunner'
  BY <1>0 DEF OneRunner
<1>4. ASSUME NEW q \in Processes PROVE Fit(work[q])'
  <2>1. PICK v : v = work'[q]
    OBVIOUS
  <2>2. CASE q = p
    <3>1. v = w
      BY <1>0, <2>1, <2>2
    <3>2. (w \in Works)' /\ Held(w)' /\ Recorded(w)'
      BY DEF Works, Held, Recorded, IsRemote
    <3> QED BY <2>1, <3>1, <3>2 DEF Fit
  <2>3. CASE q # p
    <3>1. Fit(v) /\ (v.step \in Running => v.turn # t)
      BY <1>0, <2>1, <2>3
    <3>2. Open(v)' /\ Held(v)'
      BY <1>0, <3>1 DEF Fit, Open, Held, IsRemote
    <3>3. Fit(v)'
      BY <1>0, <3>1, <3>2, FitStays
    <3> QED BY <2>1, <3>3
  <2> QED BY <2>2, <2>3
<1> QED BY <1>1, <1>2, <1>3, <1>4

LEMMA AdmitInv ==
    ASSUME IInv, NEW p \in Processes, Admit(p)
    PROVE  IInv'
<1> DEFINE s == work[p].session
<1> PICK t : t = work[p].turn
  OBVIOUS
<1>1. /\ s \in issued /\ t \in Turns /\ work[p] \in Works
      /\ work[p].parent \in DOMAIN record \cup {None} /\ DOMAIN record = DOMAIN turn
  BY NowFits DEF Admit, At, Fit, Supplied, AskSteps, IInv, TypeOK
<1>2. /\ t \notin DOMAIN turn
      /\ turn' = [z \in DOMAIN turn \cup {t} |->
                    IF z = t THEN [session |-> s, answered |-> FALSE, closed |-> FALSE]
                    ELSE turn[z]]
      /\ UNCHANGED <<session, revoked, continuation, issued, selected, registry, grant>>
  BY DEF Admit, Authority!Admit, Authority!Put
<1>3. record' = [z \in DOMAIN record \cup {t} |->
                   IF z = t THEN [option |-> work[p].option, parent |-> work[p].parent]
                   ELSE record[z]]
  BY DEF Admit, Put
<1>4. PICK w : w = [work[p] EXCEPT !.step = "infer"]
  OBVIOUS
<1>5. /\ w \in Works /\ w.step = "infer" /\ w.session = s /\ w.turn = t
      /\ w.option = work[p].option
  BY <1>1, <1>4 DEF Works, Steps, AskSteps
<1>6. /\ DOMAIN turn' = DOMAIN turn \cup {t} /\ DOMAIN record' = DOMAIN turn'
      /\ turn'[t] = [session |-> s, answered |-> FALSE, closed |-> FALSE]
      /\ record'[t] = [option |-> work[p].option, parent |-> work[p].parent]
      /\ \A x \in DOMAIN turn \ {t} : turn'[x] = turn[x] /\ record'[x] = record[x]
  BY <1>1, <1>2, <1>3
<1>7. \A q \in Processes \ {p} : work[q].step \in Running => work[q].turn # t
  BY <1>2, NowFits DEF Fit, Open
<1>8. Supplied(w)' /\ Open(w)'
  BY <1>1, <1>2, <1>5, <1>6 DEF Supplied, Open, AskSteps
<1>9. Held(w)
  BY <1>5, NowFits DEF Admit, At, Fit, Held
<1>10. /\ turn'[t] \in [session : issued, answered : BOOLEAN, closed : BOOLEAN]
       /\ record'[t] \in [option : Options \cup {None}, parent : DOMAIN record' \cup {None}]
  BY <1>1, <1>6 DEF Works
<1>11. /\ Go(p, w) /\ w.step \notin {"model", "admit"}
       /\ UNCHANGED <<session, revoked, continuation, issued, selected, registry, grant>>
  BY <1>2, <1>4, <1>5 DEF Admit, Proceed
<1>12. /\ t \in Turns /\ w \in Works /\ w.turn = t
       /\ DOMAIN turn' = DOMAIN turn \cup {t} /\ DOMAIN record' = DOMAIN turn'
       /\ \A x \in DOMAIN turn \ {t} : turn'[x] = turn[x] /\ record'[x] = record[x]
  BY <1>1, <1>5, <1>6
<1> QED BY <1>7, <1>8, <1>9, <1>10, <1>11, <1>12, TurnInv

(* The turn a process runs is of the tables, and of no other process. *)
LEMMA RunningTurn ==
    ASSUME IInv, NEW p \in Processes, work[p].step \in Running
    PROVE  /\ work[p].turn \in DOMAIN turn /\ work[p].turn \in Turns
           /\ DOMAIN turn = DOMAIN turn \cup {work[p].turn} /\ DOMAIN record = DOMAIN turn
           /\ turn[work[p].turn] \in [session : issued, answered : BOOLEAN, closed : BOOLEAN]
           /\ record[work[p].turn]
                \in [option : Options \cup {None}, parent : DOMAIN record \cup {None}]
           /\ \A q \in Processes \ {p} :
                work[q].step \in Running => work[q].turn # work[p].turn
<1>1. work[p].turn \in DOMAIN turn
  BY NowFits DEF Fit, Open
<1> QED BY <1>1 DEF IInv, TypeOK, TurnOK, OneRunner

LEMMA InferInv ==
    ASSUME IInv, NEW p \in Processes, Infer(p)
    PROVE  IInv'
<1> PICK t : t = work[p].turn
  OBVIOUS
<1>0. work[p].step = "infer" /\ work[p].step \in Running
  BY DEF Infer, At, Running
<1>1. /\ turn' = [turn EXCEPT ![t].answered = TRUE]
      /\ UNCHANGED <<session, revoked, continuation, issued, selected, record, registry, grant>>
  BY DEF Infer, Authority!Answer, rows
<1>2. PICK w : w = [work[p] EXCEPT !.step = "close"]
  OBVIOUS
<1>3. /\ w \in Works /\ w.step = "close" /\ w.session = work[p].session /\ w.turn = t
      /\ w.option = work[p].option
  BY <1>2, NowFits DEF Works, Steps, AskSteps
<1>4. /\ DOMAIN turn' = DOMAIN turn
      /\ turn'[t] \in [session : issued, answered : BOOLEAN, closed : BOOLEAN]
      /\ turn'[t].session = turn[t].session /\ turn'[t].closed = turn[t].closed
      /\ \A x \in DOMAIN turn \ {t} : turn'[x] = turn[x]
  BY <1>0, <1>1, RunningTurn
<1>5. Open(w)'
  BY <1>0, <1>1, <1>3, <1>4, RunningTurn, NowFits DEF Fit, Open
<1>6. Supplied(w)' /\ Held(w)
  BY <1>0, <1>1, <1>3, TurnArguments DEF Supplied, Held, AskSteps
<1>7. /\ Go(p, w) /\ w.step \notin {"model", "admit"}
      /\ UNCHANGED <<session, revoked, continuation, issued, selected, registry, grant>>
  BY <1>1, <1>2, <1>3 DEF Infer, Proceed
<1>8. /\ t \in Turns /\ DOMAIN turn' = DOMAIN turn \cup {t} /\ DOMAIN record' = DOMAIN turn'
      /\ record'[t] \in [option : Options \cup {None}, parent : DOMAIN record' \cup {None}]
      /\ \A x \in DOMAIN turn \ {t} : turn'[x] = turn[x] /\ record'[x] = record[x]
      /\ \A q \in Processes \ {p} : work[q].step \in Running => work[q].turn # t
  BY <1>0, <1>1, <1>4, RunningTurn
<1> QED BY <1>3, <1>4, <1>5, <1>6, <1>7, <1>8, TurnInv

LEMMA CloseTurnInv ==
    ASSUME IInv, NEW p \in Processes, CloseTurn(p)
    PROVE  IInv'
<1> PICK t : t = work[p].turn
  OBVIOUS
<1>0. work[p].step \in Running
  BY DEF CloseTurn, Running
<1>1. /\ turn' = [turn EXCEPT ![t].closed = TRUE]
      /\ UNCHANGED <<session, revoked, continuation, issued, selected, record, registry, grant>>
  BY DEF CloseTurn, Authority!Close, rows
<1>2. PICK w : w = Idle
  OBVIOUS
<1>3. w \in Works /\ w.step = "idle" /\ w.step \notin Running
  BY <1>2, IdleFits DEF Running
<1>4. /\ DOMAIN turn' = DOMAIN turn
      /\ turn'[t] \in [session : issued, answered : BOOLEAN, closed : BOOLEAN]
      /\ \A x \in DOMAIN turn \ {t} : turn'[x] = turn[x]
  BY <1>0, <1>1, RunningTurn
<1>5. Supplied(w)' /\ Open(w)' /\ Held(w)
  BY <1>3 DEF Supplied, Open, Held, AskSteps
<1>6. /\ Go(p, w) /\ w.step \notin {"model", "admit"}
      /\ UNCHANGED <<session, revoked, continuation, issued, selected, registry, grant>>
  BY <1>1, <1>2, <1>3 DEF CloseTurn
<1>7. /\ t \in Turns /\ DOMAIN turn' = DOMAIN turn \cup {t} /\ DOMAIN record' = DOMAIN turn'
      /\ record'[t] \in [option : Options \cup {None}, parent : DOMAIN record' \cup {None}]
      /\ \A x \in DOMAIN turn \ {t} : turn'[x] = turn[x] /\ record'[x] = record[x]
      /\ \A q \in Processes \ {p} : work[q].step \in Running => work[q].turn # t
  BY <1>0, <1>1, <1>4, RunningTurn
<1> QED BY <1>3, <1>4, <1>5, <1>6, <1>7, TurnInv

-----------------------------------------------------------------------------
LEMMA FailInv ==
    ASSUME IInv, NEW p \in Processes, Fail(p)
    PROVE  IInv'
  BY QuietInv DEF Fail, IInv, TypeOK

LEMMA RestartInv ==
    ASSUME IInv, NEW p \in Processes, NEW c \in Registries, Restart(p, c)
    PROVE  IInv'
<1>1. registry' \in [Processes -> Registries]
  BY DEF Restart, IInv, TypeOK
<1> QED BY <1>1, QuietInv DEF Restart

(* A grant given while a turn waits for its model is recorded with it. *)
LEMMA ChangeGrantInv ==
    ASSUME IInv, NEW m \in Models, NEW g \in {"none", "local", "remote"}, ChangeGrant(m, g)
    PROVE  IInv'
<1> DEFINE late(q) ==
        /\ At(q, "model") /\ work[q].option # None /\ work[q].option.model = m
        /\ (g = "remote" \/ (g = "local" /\ ~IsRemote(work[q].option)))
           next(q) == [work[q] EXCEPT !.allowed = work[q].allowed \/ late(q)]
<1>1. /\ UNCHANGED <<session, revoked, continuation, turn, issued, selected, record, registry>>
      /\ told' = None /\ grant' = [grant EXCEPT ![m] = g] /\ grant \in [Models -> {"none", "local", "remote"}]
      /\ work' = [q \in Processes |-> next(q)]
  BY DEF ChangeGrant, authority, rows, IInv, TypeOK
<1>2. ASSUME NEW q \in Processes
      PROVE  /\ next(q) \in Works
             /\ next(q).step = work[q].step /\ next(q).session = work[q].session
             /\ next(q).request = work[q].request /\ next(q).option = work[q].option
             /\ next(q).turn = work[q].turn /\ next(q).parent = work[q].parent
             /\ next(q).allowed = (work[q].allowed \/ late(q))
  <2>1. PICK b \in BOOLEAN : b = (work[q].allowed \/ late(q))
    BY NowFits DEF Works
  <2>2. next(q) = [work[q] EXCEPT !.allowed = b]
    BY <2>1
  <2> HIDE DEF next
  <2> QED BY <2>1, <2>2, NowFits DEF Works
<1>3. TypeOK'
  <2>1. work' \in [Processes -> Works]
    BY <1>1, <1>2
  <2>2. grant' \in [Models -> {"none", "local", "remote"}]
    BY <1>1
  <2> QED BY <1>1, <2>1, <2>2 DEF IInv, TypeOK, Works
<1>4. TurnOK' /\ LineageOK' /\ HandoffAnswersItsTarget'
  BY <1>1 DEF IInv, TurnOK, LineageOK, HandoffAnswersItsTarget
<1>5. OneRunner'
  <2>1. \A q \in Processes : work'[q].step = work[q].step /\ work'[q].turn = work[q].turn
    BY <1>1, <1>2
  <2> QED BY <2>1 DEF IInv, OneRunner
<1>6. ASSUME NEW q \in Processes PROVE Fit(work[q])'
  <2>1. PICK v : v = next(q)
    OBVIOUS
  <2>2. v = work'[q]
    BY <1>1, <2>1
  <2>3. /\ v \in Works /\ v.step = work[q].step /\ v.session = work[q].session
        /\ v.request = work[q].request /\ v.option = work[q].option
        /\ v.turn = work[q].turn /\ v.parent = work[q].parent
        /\ v.allowed = (work[q].allowed \/ late(q))
    BY <1>2, <2>1
  <2>4. (v \in Works)' /\ Supplied(v)'
    BY <1>1, <2>3, NowFits DEF Fit, Works, Supplied
  <2>5. Open(v)' /\ Held(v)'
    BY <1>1, <2>3, NowFits DEF Fit, Open, Held, IsRemote
  <2>6. Recorded(v)'
    <3>1. CASE v.step = "admit"
      BY <2>3, <3>1, NowFits DEF Fit, Recorded
    <3>2. CASE v.step = "model" /\ v.option = None
      BY <2>3, <3>2, NowFits DEF Fit, Recorded
    <3>3. CASE v.step = "model" /\ v.option # None /\ v.option.model = m
      BY <1>1, <2>3, <3>3 DEF Recorded, Allowed, IsRemote, At
    <3>4. CASE v.step = "model" /\ v.option # None /\ v.option.model # m
      <4>1. v.option.model \in Models
        BY <2>3, <3>4 DEF Works, Options
      <4>2. grant'[v.option.model] = grant[v.option.model]
        BY <1>1, <3>4, <4>1
      <4> QED BY <2>3, <3>4, <4>2, NowFits DEF Fit, Recorded, Allowed, IsRemote
    <3> QED BY <3>1, <3>2, <3>3, <3>4 DEF Recorded
  <2>7. Fit(v)'
    BY <2>4, <2>5, <2>6 DEF Fit
  <2> QED BY <2>2, <2>7
<1> QED BY <1>3, <1>4, <1>5, <1>6 DEF IInv

(* Sessions die or are forgotten, but none that a turn still relies on.    *)
LEMMA SessionsShrinkInv ==
    ASSUME IInv, UNCHANGED <<turn, issued, record, registry, grant, work>>, told' = None,
           DOMAIN session' \subseteq DOMAIN session,
           DOMAIN session' \cap DOMAIN continuation \subseteq DOMAIN continuation',
           DOMAIN selected' = DOMAIN selected \cap DOMAIN session',
           \A s \in DOMAIN selected' : selected'[s] = selected[s],
           \A p \in Processes :
             work[p].step \in {"admit", "infer"} /\ work[p].session \in DOMAIN selected
               => work[p].session \in DOMAIN session'
    PROVE  IInv'
<1> USE DEF IInv
<1>1. TypeOK'
  BY DEF TypeOK
<1>2. TurnOK' /\ HandoffAnswersItsTarget' /\ OneRunner'
  BY DEF TurnOK, HandoffAnswersItsTarget, OneRunner
<1>3. LineageOK'
  BY DEF LineageOK
<1>4. ASSUME NEW p \in Processes PROVE Fit(work[p])'
  <2>1. PICK v : v = work[p]
    OBVIOUS
  <2>2. Fit(v) /\ v = work'[p]
    BY <2>1
  <2>3. Open(v)'
    BY <2>2 DEF Fit, Open
  <2>4. Held(v)'
    BY <2>1, <2>2 DEF Fit, Held, IsRemote
  <2>5. Fit(v)'
    BY <2>2, <2>3, <2>4, FitStays
  <2> QED BY <2>2, <2>5
<1> QED BY <1>1, <1>2, <1>3, <1>4

LEMMA RevokeInv ==
    ASSUME IInv, NEW s \in DOMAIN session, Revoke(s)
    PROVE  IInv'
<1>1. /\ UNCHANGED <<session, continuation, turn, issued, selected, record, registry, grant, work>>
      /\ told' = None
  BY DEF Revoke, Authority!Revoke, rows
<1>2. DOMAIN selected \subseteq DOMAIN session
  BY DEF IInv, TypeOK
<1> QED BY <1>1, <1>2, SessionsShrinkInv

LEMMA RetireInv ==
    ASSUME IInv, NEW s \in DOMAIN session, Retire({s})
    PROVE  IInv'
<1>1. /\ UNCHANGED <<turn, issued, record, registry, grant, work>> /\ told' = None
      /\ ~RowShare(s)
      /\ \A t \in DOMAIN turn : turn[t].session = s => turn[t].closed
  BY DEF Retire, Authority!Retire, Authority!TurnsOf
<1>2. /\ DOMAIN session' = DOMAIN session \ {s}
      /\ DOMAIN continuation' = DOMAIN continuation \ {s}
  BY DEF Retire, Authority!Retire, Authority!Drop
<1>3. /\ DOMAIN selected' = DOMAIN selected \ {s}
      /\ \A x \in DOMAIN selected' : selected'[x] = selected[x]
      /\ DOMAIN selected \subseteq DOMAIN session
  BY DEF Retire, Drop, IInv, TypeOK
<1>4. ASSUME NEW p \in Processes, work[p].step \in {"admit", "infer"}
      PROVE  work[p].session # s
  <2>1. CASE work[p].step = "admit"
    BY <1>1, <2>1 DEF RowShare
  <2>2. CASE work[p].step = "infer"
    BY <1>1, <2>2, NowFits DEF Fit, Open, Running
  <2> QED BY <1>4, <2>1, <2>2
<1> QED BY <1>1, <1>2, <1>3, <1>4, SessionsShrinkInv

LEMMA NextInv == IInv /\ [Next]_vars => IInv'
<1> SUFFICES ASSUME IInv, [Next]_vars PROVE IInv'
  OBVIOUS
<1>1. CASE UNCHANGED vars
  <2>1. /\ UNCHANGED <<session, continuation, turn, issued, selected, record, registry, grant, work>>
        /\ UNCHANGED <<revoked, told>>
    BY <1>1 DEF vars, authority, rows
  <2>2. TypeOK' /\ TurnOK' /\ LineageOK' /\ OneRunner' /\ HandoffAnswersItsTarget'
    BY <2>1 DEF IInv, TypeOK, TurnOK, LineageOK, OneRunner, HandoffAnswersItsTarget,
                Authority!Live, IsRemote
  <2>3. ASSUME NEW p \in Processes PROVE Fit(work[p])'
    <3>1. PICK v : v = work[p]
      OBVIOUS
    <3>2. Fit(v) /\ v = work'[p]
      BY <2>1, <3>1, NowFits
    <3>3. Open(v)' /\ Held(v)'
      BY <2>1, <3>2 DEF Fit, Open, Held, IsRemote
    <3>4. Fit(v)'
      BY <2>1, <3>2, <3>3, FitStays
    <3> QED BY <3>2, <3>4
  <2> QED BY <2>2, <2>3 DEF IInv
<1>2. ASSUME NEW p \in Processes, ProcessStep(p) PROVE IInv'
  BY <1>2, OpenBeginInv, ContinueBeginInv, CommitOpenInv, RequireSourceInv, BindInv,
     CommitHandoffInv, ConfirmInv, AskBeginInv, ConstructInv, OpenStoreInv, StartLockInv,
     StartModelInv, AdmitInv, InferInv, CloseTurnInv, FailInv, RestartInv DEF ProcessStep
<1> QED BY <1>1, <1>2, ChangeGrantInv, RevokeInv, RetireInv DEF Next

-----------------------------------------------------------------------------
(* The invariant that the other theorems rest on: at each of its steps a   *)
(* process has what that step relies on, whatever the others do.           *)
THEOREM Invariant == Spec => []IInv
<1> QED BY InitInv, NextInv, PTL DEF Spec

(* Every variable has its type. *)
THEOREM TypeCorrect == Spec => []TypeOK
<1>1. IInv => TypeOK
  BY DEF IInv
<1> QED BY <1>1, Invariant, PTL

(* Inference runs on the very target that the session was opened with, for *)
(* any number of processes with any registries, restarted as may be        *)
(* (scoped_service.py:178, mcp_store.py:206).                              *)
THEOREM TurnsUseTheirSelection == Spec => []TurnUsesSelection
<1>1. ASSUME IInv PROVE TurnUsesSelection
  BY <1>1, NowFits DEF TurnUsesSelection, At, Fit, Open, Held, Running
<1> QED BY <1>1, Invariant, PTL

(* No turn is admitted on a grant revoked before its session was locked    *)
(* (mcp_store.py:203-207).                                                 *)
THEOREM GrantsAreFresh == Spec => []NoStaleGrant
<1>1. ASSUME IInv PROVE NoStaleGrant
  BY <1>1, NowFits DEF NoStaleGrant, At, Fit, Recorded
<1> QED BY <1>1, Invariant, PTL

(* A handoff is acknowledged only with the model it asked for, and only to *)
(* a session that still may be used (scoped_service.py:136-152).           *)
THEOREM HandoffsAnswerTheirTarget == Spec => []HandoffAnswersItsTarget
<1>1. IInv => HandoffAnswersItsTarget
  BY DEF IInv
<1> QED BY <1>1, Invariant, PTL

-----------------------------------------------------------------------------
(* Choosing models adds no step to the sessions: whatever the processes do *)
(* here, the session store sees only what SessionAuthority allows, and so  *)
(* what PrincipalSessions implements (principals.py, model_settings.py).   *)
THEOREM SessionsStayTheirOwn == Spec => Authority!Spec
<1>1. Init => Authority!Init
  BY DEF Init
<1>2. ASSUME IInv, [Next]_vars
      PROVE  [Authority!Next]_Authority!vars
  <2> USE DEF authority, Authority!vars
  <2>1. CASE UNCHANGED vars
    BY <2>1 DEF vars
  <2>2. ASSUME NEW p \in Processes, CommitOpen(p) PROVE Authority!Next
    BY <2>2 DEF CommitOpen, Authority!Next
  <2>3. ASSUME NEW p \in Processes, CommitHandoff(p) PROVE Authority!Next
    <3>1. work[p].session \in DOMAIN session /\ work[p].request \in Requests
      BY <1>2, <2>3, NowFits DEF CommitHandoff, At, Fit, Supplied, Authority!Handoff, Authority!Live
    <3> QED BY <2>3, <3>1 DEF CommitHandoff, Authority!Next
  <2>4. ASSUME NEW p \in Processes, Admit(p) PROVE Authority!Next
    <3>1. work[p].session \in DOMAIN session /\ work[p].turn \in Turns
      BY <1>2, <2>4, NowFits DEF Admit, At, AskSteps, Fit, Supplied, Authority!Admit, Authority!Live
    <3> QED BY <2>4, <3>1 DEF Admit, Authority!Next
  <2>5. ASSUME NEW p \in Processes, Infer(p) \/ CloseTurn(p) PROVE Authority!Next
    <3>1. work[p].turn \in Turns
      BY <1>2, <2>5, NowFits DEF Infer, CloseTurn, At, AskSteps, Fit, Supplied
    <3> QED BY <2>5, <3>1 DEF Infer, CloseTurn, Authority!Next
  <2>6. ASSUME NEW p \in Processes, ProcessStep(p),
               ~CommitOpen(p), ~CommitHandoff(p), ~Admit(p), ~Infer(p), ~CloseTurn(p)
        PROVE  UNCHANGED authority
    BY <2>6 DEF ProcessStep, OpenBegin, ContinueBegin, RequireSource, Bind, Confirm, AskBegin,
                Construct, OpenStore, StartLock, StartModel, Fail, Restart
  <2>7. ASSUME NEW p \in Processes, ProcessStep(p) PROVE Authority!Next \/ UNCHANGED authority
    BY <2>2, <2>3, <2>4, <2>5, <2>6, <2>7
  <2>8. ASSUME NEW s \in DOMAIN session, Revoke(s) PROVE Authority!Next
    BY <2>8 DEF Revoke, Authority!Next
  <2>9. ASSUME NEW s \in DOMAIN session, Retire({s}) PROVE Authority!Next
    BY <2>9 DEF Retire, Authority!Next
  <2>10. ASSUME NEW m \in Models, NEW g \in {"none", "local", "remote"}, ChangeGrant(m, g)
         PROVE  UNCHANGED authority
    BY <2>10 DEF ChangeGrant
  <2> QED BY <1>2, <2>1, <2>7, <2>8, <2>9, <2>10 DEF Next
<1> QED BY <1>1, <1>2, Invariant, PTL DEF Spec, Authority!Spec

-----------------------------------------------------------------------------
(* Histories.  What a process has chosen agrees with whether it has        *)
(* settings at all.                                                        *)
Settled(p, w) ==
    /\ w.step = "construct" => w.option = None
    /\ w.step \in {"issue", "openStore", "lock", "model", "admit"} =>
         (w.option = None <=> registry[p] = Empty)
    /\ w.step \in {"source", "bind", "handoff"} => registry[p] # Empty

(* The source of a handoff has a model for as long as it is retained. *)
Sourced(w) ==
    w.step \in {"bind", "handoff"} /\ w.session \in DOMAIN session => w.session \in DOMAIN selected

(* A classified turn that was let continue another continues a classified one. *)
Continues(w) ==
    w.step \in {"lock", "model", "admit"} /\ w.option # None /\ w.parent # None =>
        w.parent \in DOMAIN record /\ record[w.parent].option # None

WorkOK == \A p \in Processes : Settled(p, work[p]) /\ Sourced(work[p]) /\ Continues(work[p])

(* Only a session with a model is handed off to another. *)
LinksOK == \A c \in DOMAIN continuation : continuation[c].parent \in DOMAIN selected

(* A turn under a session with a model is classified. *)
TurnsClassified ==
    \A t \in DOMAIN record : turn[t].session \in DOMAIN selected => record[t].option # None

HistoryInv == IInv /\ WorkOK /\ LinksOK /\ TurnsClassified /\ ClassifiedHistory

(* How the settings are rolled out: by the time a session keeps a model,   *)
(* every process has them, and none loses them while such a session lasts. *)
SwitchedOnTogether == DOMAIN selected # {} => \A p \in Processes : registry[p] # Empty

(* One process goes on, and no table changes. *)
LEMMA GoKeepsHistory ==
    ASSUME HistoryInv, IInv', NEW p \in Processes, NEW w, work' = [work EXCEPT ![p] = w],
           UNCHANGED <<session, continuation, turn, selected, record>>,
           \A q \in Processes \ {p} : registry'[q] = registry[q],
           Settled(p, w)', Sourced(w), Continues(w)
    PROVE  HistoryInv'
<1>1. \A q \in Processes : work'[q] = (IF q = p THEN w ELSE work[q])
  BY DEF HistoryInv, IInv, TypeOK
<1>2. ASSUME NEW q \in Processes PROVE (Settled(q, work[q]) /\ Sourced(work[q]) /\ Continues(work[q]))'
  <2>1. CASE q = p
    BY <1>1, <2>1 DEF Settled, Sourced, Continues
  <2>2. CASE q # p
    BY <1>1, <2>2 DEF HistoryInv, WorkOK, Settled, Sourced, Continues
  <2> QED BY <2>1, <2>2
<1>3. LinksOK' /\ TurnsClassified' /\ ClassifiedHistory'
  BY DEF HistoryInv, LinksOK, TurnsClassified, ClassifiedHistory
<1> QED BY <1>2, <1>3 DEF HistoryInv, WorkOK

LEMMA QuietKeepsHistory ==
    ASSUME HistoryInv, IInv', NEW p \in Processes, NEW w, work' = [work EXCEPT ![p] = w],
           UNCHANGED <<session, continuation, turn, selected, record>>,
           \A q \in Processes \ {p} : registry'[q] = registry[q],
           w.step \in {"idle", "confirm", "infer", "close"}
    PROVE  HistoryInv'
BY GoKeepsHistory DEF Settled, Sourced, Continues

(* With a registered model at hand the settings are on. *)
LEMMA RegisteredMeansOn ==
    ASSUME IInv, NEW p \in Processes, NEW m \in DOMAIN registry[p]
    PROVE  registry[p] # Empty /\ Option(p, m) # None
BY OptionType DEF Empty

(* What the session's model is was chosen with the settings on. *)
LEMMA RequiredMeansOn ==
    ASSUME IInv, NEW p \in Processes, NEW s, Require(p, s)
    PROVE  registry[p] # Empty /\ Chosen(p, s) # None /\ s \in DOMAIN selected
BY RegisteredMeansOn DEF Require, Chosen

(* The steps of a process that only read the tables. *)
LEMMA ReadsKeepHistory ==
    ASSUME HistoryInv, IInv', NEW p \in Processes,
           \/ \E m \in Models, consent \in BOOLEAN :
                \/ OpenBegin(p, m, consent)
                \/ \E s \in issued, r \in Requests : ContinueBegin(p, s, r, m, consent)
           \/ RequireSource(p) \/ Bind(p) \/ Confirm(p)
           \/ \E s \in issued, t \in Turns, q \in Turns \cup {None} : AskBegin(p, s, t, q)
           \/ Construct(p) \/ StartLock(p) \/ StartModel(p)
           \/ Fail(p) \/ \E c \in Registries : Restart(p, c)
    PROVE  HistoryInv'
<1>0. /\ IInv /\ work[p] \in Works /\ Settled(p, work[p])
      /\ Sourced(work[p]) /\ Continues(work[p])
  BY NowFits DEF HistoryInv, WorkOK
<1>1. ASSUME NEW m \in Models, NEW consent \in BOOLEAN, OpenBegin(p, m, consent)
      PROVE  HistoryInv'
  <2>1. CASE registry[p] = Empty /\ Go(p, [Idle EXCEPT !.step = "issue"])
    <3>1. PICK w : w = [Idle EXCEPT !.step = "issue"]
      OBVIOUS
    <3>2. w.step = "issue" /\ w.option = None
      BY <3>1 DEF Idle
    <3>3. Settled(p, w)' /\ Sourced(w) /\ Continues(w)
      BY <1>1, <2>1, <3>2 DEF OpenBegin, Settled, Sourced, Continues
    <3> QED BY <1>1, <2>1, <3>1, <3>3, GoKeepsHistory DEF OpenBegin, Go, authority, rows
  <2>2. CASE /\ Bindable(p, m, consent)
             /\ Go(p, [Idle EXCEPT !.step = "issue", !.option = Option(p, m), !.consent = consent])
    <3>1. PICK w : w = [Idle EXCEPT !.step = "issue", !.option = Option(p, m), !.consent = consent]
      OBVIOUS
    <3>2. w.step = "issue" /\ w.option = Option(p, m)
      BY <3>1 DEF Idle
    <3>3. registry[p] # Empty /\ Option(p, m) # None
      BY <1>0, <2>2, RegisteredMeansOn DEF Bindable
    <3>4. Settled(p, w)' /\ Sourced(w) /\ Continues(w)
      BY <1>1, <3>2, <3>3 DEF OpenBegin, Settled, Sourced, Continues
    <3> QED BY <1>1, <2>2, <3>1, <3>4, GoKeepsHistory DEF OpenBegin, Go, authority, rows
  <2> QED BY <1>1, <2>1, <2>2 DEF OpenBegin
<1>2. ASSUME NEW m \in Models, NEW consent \in BOOLEAN, NEW s \in issued, NEW r \in Requests,
             ContinueBegin(p, s, r, m, consent)
      PROVE  HistoryInv'
  <2>1. PICK w : w = [Idle EXCEPT !.request = r, !.option = Option(p, m), !.consent = consent]
    OBVIOUS
  <2>2. PICK v : v = [w EXCEPT !.step = "confirm", !.session = HandoffId(Caller, s, r)]
    OBVIOUS
  <2>3. PICK x : x = [w EXCEPT !.step = "source", !.session = s]
    OBVIOUS
  <2>4. v.step = "confirm" /\ x.step = "source"
    BY <2>1, <2>2, <2>3 DEF Idle
  <2>5. Go(p, v) \/ Go(p, x)
    BY <1>2, <2>1, <2>2, <2>3 DEF ContinueBegin
  <2>6. registry[p] # Empty /\ UNCHANGED <<authority, rows, registry>>
    BY <1>0, <1>2, RegisteredMeansOn DEF ContinueBegin
  <2>7. Settled(p, x)' /\ Sourced(x) /\ Continues(x)
    BY <2>4, <2>6 DEF Settled, Sourced, Continues
  <2> QED BY <2>4, <2>5, <2>6, <2>7, GoKeepsHistory, QuietKeepsHistory DEF Go, authority, rows
<1>3. CASE RequireSource(p)
  <2>1. PICK w : w = [work[p] EXCEPT !.step = "bind"]
    OBVIOUS
  <2>2. w.step = "bind" /\ w.session = work[p].session
    BY <1>0, <2>1 DEF Works
  <2>3. Settled(p, w)' /\ Sourced(w) /\ Continues(w)
    BY <1>0, <1>3, <2>2, RequiredMeansOn DEF RequireSource, Settled, Sourced, Continues
  <2> QED BY <1>3, <2>1, <2>3, GoKeepsHistory DEF RequireSource, Proceed, Go, authority, rows
<1>4. CASE Bind(p)
  <2>1. PICK v : v = [work[p] EXCEPT !.step = "confirm",
                             !.session = HandoffId(Caller, work[p].session, work[p].request)]
    OBVIOUS
  <2>2. PICK w : w = [work[p] EXCEPT !.step = "handoff"]
    OBVIOUS
  <2>3. v.step = "confirm" /\ w.step = "handoff" /\ w.session = work[p].session
    BY <1>0, <2>1, <2>2 DEF Works
  <2>4. Go(p, v) \/ Go(p, w)
    BY <1>4, <2>1, <2>2 DEF Bind, Proceed
  <2>5. work[p].step = "bind" /\ UNCHANGED <<authority, rows, registry>>
    BY <1>4 DEF Bind, At
  <2>6. Settled(p, w)' /\ Sourced(w) /\ Continues(w)
    BY <1>0, <2>3, <2>5 DEF Settled, Sourced, Continues
  <2> QED BY <2>3, <2>4, <2>5, <2>6, GoKeepsHistory, QuietKeepsHistory DEF Go, authority, rows
<1>5. CASE Confirm(p) \/ Fail(p)
  BY <1>5, IdleFits, QuietKeepsHistory DEF Confirm, Fail, Go, authority, rows
<1>6. ASSUME NEW s \in issued, NEW t \in Turns, NEW q \in Turns \cup {None}, AskBegin(p, s, t, q)
      PROVE  HistoryInv'
  <2>1. PICK w : w = [Idle EXCEPT !.step = "construct", !.session = s, !.turn = t, !.parent = q]
    OBVIOUS
  <2>2. w.step = "construct" /\ w.option = None
    BY <2>1 DEF Idle
  <2>3. Settled(p, w)' /\ Sourced(w) /\ Continues(w)
    BY <2>2 DEF Settled, Sourced, Continues
  <2> QED BY <1>6, <2>1, <2>3, GoKeepsHistory DEF AskBegin, Go, authority, rows
<1>7. CASE Construct(p)
  <2>1. work[p].step = "construct" /\ work[p].option = None /\ UNCHANGED registry
    BY <1>0, <1>7 DEF Construct, At, Settled
  <2>2. PICK v : v = [work[p] EXCEPT !.step = "openStore"]
    OBVIOUS
  <2>3. PICK w : w = [work[p] EXCEPT !.step = "openStore", !.option = Chosen(p, work[p].session)]
    OBVIOUS
  <2>4. /\ v.step = "openStore" /\ v.option = None
        /\ w.step = "openStore" /\ w.option = Chosen(p, work[p].session)
    BY <1>0, <2>1, <2>2, <2>3 DEF Works
  <2>5. UNCHANGED <<authority, rows>>
    BY <1>7 DEF Construct
  <2>6. CASE registry[p] = Empty /\ Go(p, v)
    <3>1. Settled(p, v)' /\ Sourced(v) /\ Continues(v)
      BY <2>1, <2>4, <2>6 DEF Settled, Sourced, Continues
    <3> QED BY <2>1, <2>5, <2>6, <3>1, GoKeepsHistory DEF Go, authority, rows
  <2>7. CASE registry[p] # Empty /\ Require(p, work[p].session) /\ Go(p, w)
    <3>1. w.option # None
      BY <1>0, <2>4, <2>7, RequiredMeansOn
    <3>2. Settled(p, w)' /\ Sourced(w) /\ Continues(w)
      BY <2>1, <2>4, <2>7, <3>1 DEF Settled, Sourced, Continues
    <3> QED BY <2>1, <2>5, <2>7, <3>2, GoKeepsHistory DEF Go, authority, rows
  <2> QED BY <1>7, <2>2, <2>3, <2>6, <2>7 DEF Construct, Proceed
<1>8. CASE StartLock(p)
  <2>1. PICK w : w = [work[p] EXCEPT !.step = "model",
                        !.allowed = work[p].option = None \/ Allowed(work[p].option)]
    OBVIOUS
  <2>2. w.step = "model" /\ w.option = work[p].option /\ w.parent = work[p].parent
    BY <1>0, <2>1 DEF Works
  <2>3. Settled(p, w)' /\ Sourced(w) /\ Continues(w)
    BY <1>0, <1>8, <2>2 DEF StartLock, At, Settled, Sourced, Continues
  <2> QED BY <1>8, <2>1, <2>3, GoKeepsHistory DEF StartLock, Go, authority, rows
<1>10. CASE StartModel(p)
  <2>1. PICK w : w = [work[p] EXCEPT !.step = "admit"]
    OBVIOUS
  <2>2. w.step = "admit" /\ w.option = work[p].option /\ w.parent = work[p].parent
    BY <1>0, <2>1 DEF Works
  <2>3. Settled(p, w)' /\ Sourced(w) /\ Continues(w)
    BY <1>0, <1>10, <2>2 DEF StartModel, At, Settled, Sourced, Continues
  <2> QED BY <1>10, <2>1, <2>3, GoKeepsHistory DEF StartModel, Proceed, Go, authority, rows
<1>9. ASSUME NEW c \in Registries, Restart(p, c) PROVE HistoryInv'
  <2>1. \A q \in Processes \ {p} : registry'[q] = registry[q]
    BY <1>0, <1>9 DEF Restart, IInv, TypeOK
  <2> QED BY <1>9, <2>1, IdleFits, QuietKeepsHistory DEF Restart, Go, authority, rows
<1> QED BY <1>1, <1>2, <1>3, <1>4, <1>5, <1>6, <1>7, <1>8, <1>9, <1>10

(* What OpenStore lets a classified turn carry on is classified: within    *)
(* its session by the comparison of the two models, and across handoffs    *)
(* because every session that was handed off had a model.                  *)
LEMMA ContinuableIsClassified ==
    ASSUME HistoryInv, NEW s, NEW o, o # None, NEW q, Continuable(s, o, q)
    PROVE  q \in DOMAIN record /\ record[q].option # None
<1>1. CASE turn[q].session = s
  BY <1>1 DEF Continuable
<1>2. CASE turn[q].session # s
  <2>1. q \in DOMAIN record /\ turn[q].session \in Ancestors(s)
    BY <1>2 DEF Continuable
  <2>2. PICK n \in 0..(WalkLimit - 1) :
           \E w \in Walks(continuation, s, n) : w[n] = turn[q].session
    BY <2>1 DEF Ancestors
  <2>3. PICK w \in Walks(continuation, s, n) : w[n] = turn[q].session
    BY <2>2
  <2>4. w[0] = s /\ \A i \in 1..n : w[i-1] \in DOMAIN continuation
                                   /\ w[i] = continuation[w[i-1]].parent
    BY DEF Walks
  <2>5. n \in 1..n
    BY <1>2, <2>3, <2>4
  <2>6. turn[q].session \in DOMAIN selected
    BY <2>3, <2>4, <2>5 DEF HistoryInv, LinksOK
  <2> QED BY <2>1, <2>6 DEF HistoryInv, TurnsClassified
<1> QED BY <1>1, <1>2

LEMMA OpenStoreKeepsHistory ==
    ASSUME HistoryInv, IInv', NEW p \in Processes, OpenStore(p)
    PROVE  HistoryInv'
<1>1. PICK w : w = [work[p] EXCEPT !.step = "lock"]
  OBVIOUS
<1>2. /\ w.step = "lock" /\ w.session = work[p].session
      /\ w.option = work[p].option /\ w.parent = work[p].parent
  BY <1>1, NowFits DEF HistoryInv, Works
<1>3. work[p].step = "openStore" /\ UNCHANGED registry /\ Settled(p, work[p])
  BY DEF OpenStore, At, HistoryInv, WorkOK
<1>4. w.option # None /\ w.parent # None => Continuable(w.session, w.option, w.parent)
  BY <1>2 DEF OpenStore
<1>5. Settled(p, w)' /\ Sourced(w) /\ Continues(w)
  BY <1>2, <1>3, <1>4, ContinuableIsClassified DEF Settled, Sourced, Continues
<1> QED BY <1>1, <1>5, GoKeepsHistory DEF OpenStore, Proceed, Go, authority, rows

(* A new session keeps a model or none; no turn, no link and no handoff    *)
(* speaks of it yet, and the one that made it starts from a source with    *)
(* a model.                                                                *)
LEMMA NewSessionKeepsHistory ==
    ASSUME HistoryInv, IInv', NEW p \in Processes, NEW w, NEW s, s \notin issued,
           DOMAIN session' = DOMAIN session \cup {s},
           \A c \in DOMAIN continuation' :
               \/ c \in DOMAIN continuation /\ continuation'[c] = continuation[c]
               \/ continuation'[c].parent \in DOMAIN selected,
           Keep(s, work[p]), Go(p, w), UNCHANGED <<turn, record, registry>>,
           w.step \in {"idle", "confirm"}
    PROVE  HistoryInv'
<1>1. IInv /\ \A q \in Processes : work'[q] = (IF q = p THEN w ELSE work[q])
  BY DEF HistoryInv, IInv, TypeOK, Go
<1>2. DOMAIN selected \subseteq DOMAIN selected' /\ DOMAIN selected' \subseteq DOMAIN selected \cup {s}
  BY DEF Keep, Put
<1>3. ASSUME NEW q \in Processes PROVE (Settled(q, work[q]) /\ Sourced(work[q]) /\ Continues(work[q]))'
  <2>1. CASE q = p
    BY <1>1, <2>1 DEF Settled, Sourced, Continues
  <2>2. CASE q # p
    <3>1. PICK v : v = work[q]
      OBVIOUS
    <3>2. work'[q] = v /\ Settled(q, v) /\ Sourced(v) /\ Continues(v)
      BY <1>1, <2>2, <3>1 DEF HistoryInv, WorkOK
    <3>3. v.step \in {"bind", "handoff"} => v.session # s
      BY <1>1, <3>1, NowFits DEF Fit, Supplied
    <3>4. (Settled(q, v) /\ Sourced(v) /\ Continues(v))'
      BY <1>2, <3>2, <3>3 DEF Settled, Sourced, Continues
    <3> QED BY <3>2, <3>4
  <2> QED BY <2>1, <2>2
<1>4. LinksOK'
  BY <1>2 DEF HistoryInv, LinksOK
<1>5. TurnsClassified'
  <2>1. \A t \in DOMAIN record : turn[t].session # s
    BY <1>1 DEF IInv, TypeOK
  <2> QED BY <1>2, <2>1 DEF HistoryInv, TurnsClassified
<1>6. ClassifiedHistory'
  BY DEF HistoryInv, ClassifiedHistory
<1> QED BY <1>3, <1>4, <1>5, <1>6 DEF HistoryInv, WorkOK

LEMMA CommitKeepsHistory ==
    ASSUME HistoryInv, IInv', NEW p \in Processes, CommitOpen(p) \/ CommitHandoff(p)
    PROVE  HistoryInv'
<1>1. CASE CommitOpen(p)
  <2>1. PICK u \in FreshIds : Authority!Issue(Caller, Principal, u) /\ Keep(UuidV4(u), work[p])
    BY <1>1 DEF CommitOpen
  <2>2. PICK s, w : s = UuidV4(u) /\ w = Idle
    OBVIOUS
  <2>3. /\ s \notin issued /\ DOMAIN session' = DOMAIN session \cup {s}
        /\ UNCHANGED <<continuation, turn>>
    BY <2>1, <2>2 DEF Authority!Issue, Authority!Put, Authority!UuidV4, UuidV4
  <2>4. w.step = "idle"
    BY <2>2, IdleFits
  <2> QED BY <1>1, <2>1, <2>2, <2>3, <2>4, NewSessionKeepsHistory DEF CommitOpen
<1>2. CASE CommitHandoff(p)
  <2>1. PICK s, w : /\ s = HandoffId(Caller, work[p].session, work[p].request)
                    /\ w = [work[p] EXCEPT !.step = "confirm", !.session = s]
    OBVIOUS
  <2>2. /\ s \notin issued /\ DOMAIN session' = DOMAIN session \cup {s}
        /\ work[p].session \in DOMAIN session /\ UNCHANGED turn
        /\ continuation' = [z \in DOMAIN continuation \cup {s} |->
              IF z = s THEN [parent |-> work[p].session, request |-> work[p].request]
              ELSE continuation[z]]
    BY <1>2, <2>1 DEF CommitHandoff, Authority!Handoff, Authority!Live, Authority!Put,
       Authority!HandoffId, HandoffId
  <2>3. work[p].session \in DOMAIN selected
    BY <1>2, <2>2 DEF CommitHandoff, At, HistoryInv, WorkOK, Sourced
  <2>4. \A c \in DOMAIN continuation' :
           \/ c \in DOMAIN continuation /\ continuation'[c] = continuation[c]
           \/ continuation'[c].parent \in DOMAIN selected
    BY <2>2, <2>3
  <2>5. w.step = "confirm"
    BY <2>1, NowFits DEF HistoryInv, Works
  <2> QED BY <1>2, <2>1, <2>2, <2>4, <2>5, NewSessionKeepsHistory DEF CommitHandoff
<1> QED BY <1>1, <1>2

(* An unclassified turn is admitted only where the settings are off, and   *)
(* then no session has a model yet.                                        *)
LEMMA AdmitKeepsHistory ==
    ASSUME HistoryInv, SwitchedOnTogether, IInv', NEW p \in Processes, Admit(p)
    PROVE  HistoryInv'
<1>1. PICK v, w, t : v = work[p] /\ w = [v EXCEPT !.step = "infer"] /\ t = v.turn
  OBVIOUS
<1>2. /\ IInv /\ v \in Works /\ v.step = "admit" /\ w.step = "infer"
      /\ Settled(p, v) /\ Continues(v) /\ DOMAIN record = DOMAIN turn
  BY <1>1, NowFits DEF Admit, At, HistoryInv, WorkOK, IInv, TypeOK, Works
<1>3. /\ t \notin DOMAIN turn /\ DOMAIN turn' = DOMAIN turn \cup {t}
      /\ turn'[t].session = v.session
      /\ \A x \in DOMAIN turn : turn'[x] = turn[x]
      /\ UNCHANGED <<session, continuation, selected, registry>>
  BY <1>1 DEF Admit, Authority!Admit, Authority!Put
<1>4. /\ DOMAIN record' = DOMAIN record \cup {t}
      /\ record'[t] = [option |-> v.option, parent |-> v.parent]
      /\ \A x \in DOMAIN record : record'[x] = record[x]
  BY <1>1, <1>2, <1>3 DEF Admit, Put
<1>5. \A q \in Processes : work'[q] = (IF q = p THEN w ELSE work[q])
  BY <1>1, <1>2 DEF Admit, Proceed, Go, IInv, TypeOK
<1>6. ASSUME NEW q \in Processes PROVE (Settled(q, work[q]) /\ Sourced(work[q]) /\ Continues(work[q]))'
  <2>1. CASE q = p
    BY <1>2, <1>5, <2>1 DEF Settled, Sourced, Continues
  <2>2. CASE q # p
    BY <1>3, <1>4, <1>5, <2>2 DEF HistoryInv, WorkOK, Settled, Sourced, Continues
  <2> QED BY <2>1, <2>2
<1>7. LinksOK'
  BY <1>3 DEF HistoryInv, LinksOK
<1>8. TurnsClassified'
  <2>1. v.session \in DOMAIN selected => v.option # None
    BY <1>2 DEF SwitchedOnTogether, Settled
  <2> QED BY <1>2, <1>3, <1>4, <2>1 DEF HistoryInv, TurnsClassified
<1>9. ClassifiedHistory'
  <2>1. ASSUME NEW x \in DOMAIN record, record[x].option # None, record[x].parent # None
        PROVE  record[x].parent \in DOMAIN record /\ record[record[x].parent].option # None
    BY <1>2, <2>1 DEF HistoryInv, ClassifiedHistory, IInv, TypeOK
  <2>2. v.option # None /\ v.parent # None =>
           v.parent \in DOMAIN record /\ record[v.parent].option # None
    BY <1>2 DEF Continues
  <2> QED BY <1>4, <2>1, <2>2 DEF ClassifiedHistory
<1> QED BY <1>6, <1>7, <1>8, <1>9 DEF HistoryInv, WorkOK

(* A turn that ends keeps its session and its record. *)
LEMMA EndKeepsHistory ==
    ASSUME HistoryInv, IInv', NEW p \in Processes, Infer(p) \/ CloseTurn(p)
    PROVE  HistoryInv'
<1>1. PICK w : w.step \in {"idle", "close"} /\ work' = [work EXCEPT ![p] = w]
  <2>1. PICK v : v = [work[p] EXCEPT !.step = "close"]
    OBVIOUS
  <2>2. v.step = "close"
    BY <2>1, NowFits DEF HistoryInv, Works
  <2>3. work' = [work EXCEPT ![p] = v] \/ work' = [work EXCEPT ![p] = Idle]
    BY <2>1 DEF Infer, CloseTurn, Proceed, Go
  <2> QED BY <2>2, <2>3, IdleFits
<1>2. /\ DOMAIN turn' = DOMAIN turn /\ DOMAIN record = DOMAIN turn
      /\ \A t \in DOMAIN turn : turn'[t].session = turn[t].session
      /\ UNCHANGED <<session, continuation, selected, record, registry>>
  BY DEF Infer, CloseTurn, Authority!Answer, Authority!Close, rows, HistoryInv, IInv, TypeOK, TurnOK
<1>3. \A q \in Processes : work'[q] = (IF q = p THEN w ELSE work[q])
  BY <1>1 DEF HistoryInv, IInv, TypeOK
<1>4. ASSUME NEW q \in Processes PROVE (Settled(q, work[q]) /\ Sourced(work[q]) /\ Continues(work[q]))'
  <2>1. CASE q = p
    BY <1>1, <1>3, <2>1 DEF Settled, Sourced, Continues
  <2>2. CASE q # p
    BY <1>2, <1>3, <2>2 DEF HistoryInv, WorkOK, Settled, Sourced, Continues
  <2> QED BY <2>1, <2>2
<1>5. LinksOK' /\ TurnsClassified' /\ ClassifiedHistory'
  BY <1>2 DEF HistoryInv, LinksOK, TurnsClassified, ClassifiedHistory
<1> QED BY <1>4, <1>5 DEF HistoryInv, WorkOK

(* A grant changes what a process may still do, not what it chose. *)
LEMMA GrantKeepsHistory ==
    ASSUME HistoryInv, IInv', NEW m \in Models, NEW g, ChangeGrant(m, g)
    PROVE  HistoryInv'
<1>1. UNCHANGED <<session, continuation, turn, selected, record, registry>>
  BY DEF ChangeGrant, authority, rows
<1>2. ASSUME NEW q \in Processes PROVE (Settled(q, work[q]) /\ Sourced(work[q]) /\ Continues(work[q]))'
  <2>1. PICK v : v = work[q]
    OBVIOUS
  <2>2. v \in Works /\ Settled(q, v) /\ Sourced(v) /\ Continues(v)
    BY <2>1, NowFits DEF HistoryInv, WorkOK
  <2>3. PICK w : w = work'[q]
    OBVIOUS
  <2>4. w.step = v.step /\ w.session = v.session /\ w.option = v.option /\ w.parent = v.parent
    BY <2>1, <2>2, <2>3 DEF ChangeGrant, Works
  <2>5. Settled(q, w)' /\ Sourced(w)' /\ Continues(w)'
    BY <1>1, <2>2, <2>4 DEF Settled, Sourced, Continues
  <2> QED BY <2>3, <2>5
<1>3. LinksOK' /\ TurnsClassified' /\ ClassifiedHistory'
  BY <1>1 DEF HistoryInv, LinksOK, TurnsClassified, ClassifiedHistory
<1> QED BY <1>2, <1>3 DEF HistoryInv, WorkOK

(* A session that goes takes its model with it, and was no link's parent. *)
LEMMA RetireKeepsHistory ==
    ASSUME HistoryInv, IInv', NEW s \in DOMAIN session, Revoke(s) \/ Retire({s})
    PROVE  HistoryInv'
<1>1. UNCHANGED <<turn, record, registry, work>>
  BY DEF Revoke, Retire, Authority!Revoke, Authority!Retire, rows
<1>2. /\ \A x \in DOMAIN session' : x \in DOMAIN session /\ (x \in DOMAIN selected => x \in DOMAIN selected')
      /\ DOMAIN selected' \subseteq DOMAIN selected
      /\ \A c \in DOMAIN continuation' : c \in DOMAIN continuation /\ continuation'[c] = continuation[c]
      /\ \A c \in DOMAIN continuation' :
            continuation[c].parent \in DOMAIN selected => continuation[c].parent \in DOMAIN selected'
  <2>1. CASE Revoke(s)
    BY <2>1 DEF Revoke, Authority!Revoke, rows
  <2>2. CASE Retire({s})
    BY <2>2 DEF Retire, Authority!Retire, Authority!Drop, Drop
  <2> QED BY <2>1, <2>2
<1>3. WorkOK'
  BY <1>1, <1>2 DEF HistoryInv, WorkOK, Settled, Sourced, Continues
<1>4. LinksOK' /\ TurnsClassified' /\ ClassifiedHistory'
  BY <1>1, <1>2 DEF HistoryInv, LinksOK, TurnsClassified, ClassifiedHistory
<1> QED BY <1>3, <1>4 DEF HistoryInv

-----------------------------------------------------------------------------
LEMMA InitHistory == Init => HistoryInv
<1> SUFFICES ASSUME Init PROVE HistoryInv
  OBVIOUS
<1>1. IInv
  BY InitInv
<1>2. WorkOK
  BY IdleFits DEF Init, WorkOK, Settled, Sourced, Continues
<1>3. LinksOK /\ TurnsClassified /\ ClassifiedHistory
  BY DEF Init, Authority!Init, Authority!Empty, Empty, LinksOK, TurnsClassified, ClassifiedHistory
<1> QED BY <1>1, <1>2, <1>3 DEF HistoryInv

LEMMA NextHistory == HistoryInv /\ SwitchedOnTogether /\ [Next]_vars => HistoryInv'
<1> SUFFICES ASSUME HistoryInv, SwitchedOnTogether, [Next]_vars PROVE HistoryInv'
  OBVIOUS
<1>1. IInv'
  BY NextInv DEF HistoryInv
<1>2. ASSUME NEW p \in Processes, ProcessStep(p) PROVE HistoryInv'
  BY <1>1, <1>2, ReadsKeepHistory, OpenStoreKeepsHistory, CommitKeepsHistory, AdmitKeepsHistory,
     EndKeepsHistory DEF ProcessStep
<1>3. ASSUME NEW m \in Models, NEW g, ChangeGrant(m, g) PROVE HistoryInv'
  BY <1>1, <1>3, GrantKeepsHistory
<1>4. ASSUME NEW s \in DOMAIN session, Revoke(s) \/ Retire({s}) PROVE HistoryInv'
  BY <1>1, <1>4, RetireKeepsHistory
<1>5. CASE UNCHANGED vars
  BY <1>1, <1>5 DEF vars, authority, rows, HistoryInv, WorkOK, Settled, Sourced, Continues, LinksOK,
     TurnsClassified, ClassifiedHistory
<1> QED BY <1>2, <1>3, <1>4, <1>5 DEF Next

(* No classified conversation carries on one that was never classified,    *)
(* over any number of handoffs, as long as the settings come on everywhere *)
(* before the first session keeps a model and stay on                      *)
(* (scoped_service.py:139-140, mcp_store.py:98-107).                       *)
THEOREM HistoriesStayClassified == Spec /\ []SwitchedOnTogether => []ClassifiedHistory
<1>1. HistoryInv => ClassifiedHistory
  BY DEF HistoryInv
<1> QED BY <1>1, InitHistory, NextHistory, PTL DEF Spec

(* One process whose settings, once on, are never taken away again is such *)
(* a rollout: it needs no coordination.                                    *)
THEOREM OneProcessStaysClassified ==
    ASSUME NEW p, Processes = {p}, ~MayDisable
    PROVE  Spec => []ClassifiedHistory
<1>1. Init => SwitchedOnTogether
  BY DEF Init, Empty, SwitchedOnTogether
<1>2. HistoryInv /\ SwitchedOnTogether /\ [Next]_vars => SwitchedOnTogether'
  <2> SUFFICES ASSUME HistoryInv, SwitchedOnTogether, [Next]_vars, DOMAIN selected' # {}
               PROVE  registry'[p] # Empty
    BY DEF SwitchedOnTogether
  <2>0. IInv /\ IInv' /\ Settled(p, work[p])
    BY NextInv DEF HistoryInv, WorkOK
  <2>1. CASE UNCHANGED <<selected, registry>>
    BY <2>1 DEF SwitchedOnTogether
  <2>2. CASE CommitOpen(p) \/ CommitHandoff(p)
    <3>1. UNCHANGED registry
      BY <2>2 DEF CommitOpen, CommitHandoff
    <3>2. CASE UNCHANGED selected
      BY <3>1, <3>2 DEF SwitchedOnTogether
    <3>3. CASE selected' # selected
      <4>1. registry[p] # Empty
        BY <2>0, <2>2, <3>3 DEF CommitOpen, CommitHandoff, At, Keep, Settled
      <4> QED BY <3>1, <4>1
    <3> QED BY <3>2, <3>3
  <2>3. ASSUME NEW c \in Registries, Restart(p, c) PROVE registry'[p] # Empty
    BY <2>0, <2>3 DEF Restart, IInv, TypeOK
  <2>4. ASSUME NEW s \in DOMAIN session, Revoke(s) \/ Retire({s}) PROVE registry'[p] # Empty
    <3>1. UNCHANGED registry /\ DOMAIN selected' \subseteq DOMAIN selected
      BY <2>4 DEF Revoke, Retire, Drop, rows
    <3> QED BY <3>1 DEF SwitchedOnTogether
  <2>5. ASSUME ProcessStep(p), ~CommitOpen(p), ~CommitHandoff(p), \A c \in Registries : ~Restart(p, c)
        PROVE  UNCHANGED <<selected, registry>>
    BY <2>5 DEF ProcessStep, OpenBegin, ContinueBegin, RequireSource, Bind, Confirm, AskBegin,
       Construct, OpenStore, StartLock, StartModel, Admit, Infer, CloseTurn, Fail, rows
  <2>6. CASE (\E m \in Models, g \in {"none", "local", "remote"} : ChangeGrant(m, g)) \/ UNCHANGED vars
    BY <2>1, <2>6 DEF ChangeGrant, vars, rows
  <2> QED BY <2>1, <2>2, <2>3, <2>4, <2>5, <2>6 DEF Next
<1>3. HistoryInv => ClassifiedHistory
  BY DEF HistoryInv
<1> QED BY <1>1, <1>2, <1>3, InitHistory, NextHistory, PTL DEF Spec

-----------------------------------------------------------------------------
(* Continuations.  A session that was handed off is dead for ever, has one *)
(* successor, and none of its turns is unfinished.                         *)
HandedOff ==
    \A c \in DOMAIN continuation :
        /\ continuation[c].parent \in revoked /\ Authority!Complete(continuation[c].parent)
        /\ \A e \in DOMAIN continuation : continuation[e].parent = continuation[c].parent => e = c

(* What a turn on option o under s may rely on about the one it carries on. *)
Carried(s, o, q) ==
    /\ q \in DOMAIN record /\ turn[q].closed
    /\ IF turn[q].session = s THEN record[q].option = o ELSE turn[q].answered

Joining == {"lock", "model", "admit"}

Joined(w) == w.step \in Joining /\ w.parent # None => Carried(w.session, w.option, w.parent)

Continued ==
    \A t \in DOMAIN record :
        record[t].parent # None => Carried(turn[t].session, record[t].option, record[t].parent)

CarryInv == IInv /\ HandedOff /\ (\A p \in Processes : Joined(work[p])) /\ Continued

(* A conversation is never forgotten, moved or recorded anew, and what has *)
(* been answered or closed remains so.                                     *)
LEMMA TurnsAdvance ==
    ASSUME IInv, [Next]_vars, NEW t \in DOMAIN turn
    PROVE  /\ t \in DOMAIN turn' /\ turn'[t].session = turn[t].session
           /\ turn[t].answered => turn'[t].answered
           /\ turn[t].closed => turn'[t].closed
           /\ t \in DOMAIN record' /\ record'[t] = record[t]
<1>0. /\ turn[t] \in [session : issued, answered : BOOLEAN, closed : BOOLEAN]
      /\ DOMAIN record = DOMAIN turn
  BY DEF IInv, TurnOK, TypeOK
<1>1. CASE UNCHANGED <<turn, record>>
  BY <1>0, <1>1
<1>2. ASSUME NEW p \in Processes, Admit(p)
      PROVE  /\ t \in DOMAIN turn' /\ turn'[t] = turn[t]
             /\ t \in DOMAIN record' /\ record'[t] = record[t]
  BY <1>0, <1>2 DEF Admit, Authority!Admit, Authority!Put, Put
<1>3. ASSUME NEW p \in Processes, Infer(p) \/ CloseTurn(p)
      PROVE  /\ t \in DOMAIN turn' /\ turn'[t].session = turn[t].session
             /\ turn[t].answered => turn'[t].answered
             /\ turn[t].closed => turn'[t].closed
             /\ UNCHANGED record
  BY <1>0, <1>3 DEF Infer, CloseTurn, Authority!Answer, Authority!Close, rows
<1>4. ASSUME NEW p \in Processes, ProcessStep(p), ~Admit(p), ~Infer(p), ~CloseTurn(p)
      PROVE  UNCHANGED <<turn, record>>
  BY <1>4 DEF ProcessStep, OpenBegin, CommitOpen, Authority!Issue, ContinueBegin, RequireSource,
     Bind, CommitHandoff, Authority!Handoff, Confirm, AskBegin, Construct, OpenStore, StartLock,
     StartModel, Fail, Restart, authority, rows
<1>5. ASSUME ~\E p \in Processes : ProcessStep(p)
      PROVE  UNCHANGED <<turn, record>>
  BY <1>5 DEF Next, ChangeGrant, Revoke, Authority!Revoke, Retire, Authority!Retire, vars,
     authority, rows
<1> QED BY <1>0, <1>1, <1>2, <1>3, <1>4, <1>5

(* A conversation is recorded by the admission of its turn and not         *)
(* otherwise.                                                              *)
LEMMA OnlyAdmitRecords ==
    ASSUME [Next]_vars, NEW t \in DOMAIN record', t \notin DOMAIN record
    PROVE  \E p \in Processes : Admit(p)
<1> SUFFICES ASSUME \A p \in Processes : ~Admit(p) PROVE UNCHANGED record
  OBVIOUS
<1>1. ASSUME NEW p \in Processes, ProcessStep(p) PROVE UNCHANGED record
  BY <1>1 DEF ProcessStep, OpenBegin, CommitOpen, ContinueBegin, RequireSource, Bind, CommitHandoff,
     Confirm, AskBegin, Construct, OpenStore, StartLock, StartModel, Infer, CloseTurn, Fail, Restart,
     rows
<1>2. CASE ~\E p \in Processes : ProcessStep(p)
  BY <1>2 DEF Next, ChangeGrant, Revoke, Retire, rows, vars
<1> QED BY <1>1, <1>2

(* Where a process that goes on stands. *)
LEMMA Goes ==
    ASSUME work \in [Processes -> Works], NEW p \in Processes, NEW w, Go(p, w)
    PROVE  work'[p] = w
  BY DEF Go

LEMMA Proceeds ==
    ASSUME work \in [Processes -> Works], NEW p \in Processes, NEW x, Proceed(p, x)
    PROVE  /\ work'[p].step = x /\ work'[p].session = work[p].session
           /\ work'[p].option = work[p].option /\ work'[p].parent = work[p].parent
<1>1. PICK w : w = [work[p] EXCEPT !.step = x]
  OBVIOUS
<1>2. work'[p] = w
  BY <1>1, Goes DEF Proceed
<1>3. work[p] \in Works
  OBVIOUS
<1>4. /\ w.step = x /\ w.session = work[p].session
      /\ w.option = work[p].option /\ w.parent = work[p].parent
  BY <1>1, <1>3 DEF Works
<1> QED BY <1>2, <1>4

(* A process comes to the admission of a turn by OpenStore alone, with the *)
(* session, the option and the parent that were tested there.              *)
LEMMA JoinsByOpenStore ==
    ASSUME IInv, [Next]_vars, NEW p \in Processes, work'[p].step \in Joining
    PROVE  /\ OpenStore(p) \/ work[p].step \in Joining
           /\ work'[p].session = work[p].session
           /\ work'[p].option = work[p].option /\ work'[p].parent = work[p].parent
<1> DEFINE Same == /\ work'[p].session = work[p].session
                   /\ work'[p].option = work[p].option /\ work'[p].parent = work[p].parent
<1>0. /\ work \in [Processes -> Works] /\ work[p] \in Works
      /\ Idle.step \notin Joining
  BY NowFits, IdleFits DEF IInv, TypeOK, Works, Joining
<1>1. CASE UNCHANGED work
  BY <1>1
<1>2. ASSUME NEW q \in Processes, ProcessStep(q), q # p
      PROVE  work'[p] = work[p]
  BY <1>0, <1>2 DEF ProcessStep, OpenBegin, CommitOpen, ContinueBegin, RequireSource,
     Bind, CommitHandoff, Confirm, AskBegin, Construct, OpenStore, StartLock,
     StartModel, Admit, Infer, CloseTurn, Fail, Restart, Proceed, Go
<1>3. CASE ProcessStep(p)
  <2>1. CASE OpenStore(p)
    BY <1>0, <2>1, Proceeds DEF OpenStore
  <2>2. CASE StartLock(p)
    <3>1. PICK w : /\ w = [work[p] EXCEPT !.step = "model", !.allowed = w.allowed]
                   /\ Go(p, w)
      <4>1. PICK a : a = (work[p].option = None \/ Allowed(work[p].option))
        OBVIOUS
      <4>2. PICK w : w = [work[p] EXCEPT !.step = "model", !.allowed = a]
        OBVIOUS
      <4>3. w.allowed = a
        BY <1>0, <4>2 DEF Works
      <4> QED BY <2>2, <4>1, <4>2, <4>3 DEF StartLock
    <3>2. w.session = work[p].session /\ w.option = work[p].option /\ w.parent = work[p].parent
      BY <1>0, <3>1 DEF Works
    <3>3. work[p].step \in Joining
      BY <2>2 DEF StartLock, At, Joining
    <3> QED BY <1>0, <3>1, <3>2, <3>3, Goes
  <2>3. CASE StartModel(p)
    BY <1>0, <2>3, Proceeds DEF StartModel, At, Joining
  <2>4. ASSUME NEW m \in Models, NEW consent \in BOOLEAN, OpenBegin(p, m, consent)
        PROVE  work'[p].step \notin Joining
    <3>1. PICK w, u : /\ w = [Idle EXCEPT !.step = "issue"]
                      /\ u = [Idle EXCEPT !.step = "issue", !.option = Option(p, m), !.consent = consent]
      OBVIOUS
    <3>2. w.step \notin Joining /\ u.step \notin Joining
      BY <3>1 DEF Idle, Joining
    <3> QED BY <1>0, <2>4, <3>1, <3>2, Goes DEF OpenBegin
  <2>5. ASSUME NEW m \in Models, NEW consent \in BOOLEAN, NEW s \in issued, NEW r \in Requests,
               ContinueBegin(p, s, r, m, consent)
        PROVE  work'[p].step \notin Joining
    <3>1. PICK w, x, y :
            /\ w = [Idle EXCEPT !.request = r, !.option = Option(p, m), !.consent = consent]
            /\ x = [w EXCEPT !.step = "confirm", !.session = HandoffId(Caller, s, r)]
            /\ y = [w EXCEPT !.step = "source", !.session = s]
      OBVIOUS
    <3>2. x.step \notin Joining /\ y.step \notin Joining
      BY <3>1 DEF Idle, Joining
    <3>3. Go(p, x) \/ Go(p, y)
      BY <2>5, <3>1 DEF ContinueBegin
    <3> QED BY <1>0, <3>2, <3>3, Goes
  <2>6. ASSUME NEW s \in issued, NEW t \in Turns, NEW q \in Turns \cup {None}, AskBegin(p, s, t, q)
        PROVE  work'[p].step \notin Joining
    <3>1. PICK w : w = [Idle EXCEPT !.step = "construct", !.session = s, !.turn = t, !.parent = q]
      OBVIOUS
    <3>2. w.step \notin Joining
      BY <3>1 DEF Idle, Joining
    <3> QED BY <1>0, <2>6, <3>1, <3>2, Goes DEF AskBegin
  <2>7. ASSUME NEW c \in Registries,
               CommitOpen(p) \/ Confirm(p) \/ CloseTurn(p) \/ Fail(p) \/ Restart(p, c)
        PROVE  work'[p].step \notin Joining
    BY <1>0, <2>7 DEF CommitOpen, Confirm, CloseTurn, Fail, Restart, Go
  <2>8. CASE RequireSource(p) \/ Admit(p) \/ Infer(p)
    BY <1>0, <2>8, Proceeds DEF RequireSource, Admit, Infer, Joining
  <2>9. CASE Bind(p) \/ CommitHandoff(p)
    <3>1. PICK child : child = HandoffId(Caller, work[p].session, work[p].request)
      OBVIOUS
    <3>2. PICK w : w = [work[p] EXCEPT !.step = "confirm", !.session = child]
      OBVIOUS
    <3>3. w.step \notin Joining
      BY <1>0, <3>2 DEF Works, Joining
    <3>4. Go(p, w) \/ Proceed(p, "handoff")
      BY <2>9, <3>1, <3>2 DEF Bind, CommitHandoff
    <3>5. CASE Go(p, w)
      BY <1>0, <3>3, <3>5, Goes
    <3>6. CASE Proceed(p, "handoff")
      <4>1. work'[p].step = "handoff"
        BY <1>0, <3>6, Proceeds
      <4> QED BY <4>1 DEF Joining
    <3> QED BY <3>4, <3>5, <3>6
  <2>10. CASE Construct(p)
    <3>1. PICK w : w = [work[p] EXCEPT !.step = "openStore", !.option = Chosen(p, work[p].session)]
      OBVIOUS
    <3>2. w.step \notin Joining
      BY <1>0, <3>1 DEF Works, Joining
    <3>3. Go(p, w) \/ Proceed(p, "openStore")
      BY <2>10, <3>1 DEF Construct
    <3>4. CASE Go(p, w)
      BY <1>0, <3>2, <3>4, Goes
    <3>5. CASE Proceed(p, "openStore")
      <4>1. work'[p].step = "openStore"
        BY <1>0, <3>5, Proceeds
      <4> QED BY <4>1 DEF Joining
    <3> QED BY <3>3, <3>4, <3>5
  <2>11. /\ ~\E m \in Models, consent \in BOOLEAN : OpenBegin(p, m, consent)
         /\ ~\E m \in Models, consent \in BOOLEAN, s \in issued, r \in Requests :
               ContinueBegin(p, s, r, m, consent)
         /\ ~\E s \in issued, t \in Turns, q \in Turns \cup {None} : AskBegin(p, s, t, q)
    BY <2>4, <2>5, <2>6
  <2>12. \/ OpenStore(p) \/ StartLock(p) \/ StartModel(p)
         \/ RequireSource(p) \/ Admit(p) \/ Infer(p)
         \/ Bind(p) \/ CommitHandoff(p) \/ Construct(p)
         \/ \E c \in Registries :
               CommitOpen(p) \/ Confirm(p) \/ CloseTurn(p) \/ Fail(p) \/ Restart(p, c)
    <3>1. Registries # {}
      BY <1>3 DEF IInv, TypeOK
    <3> QED BY <1>3, <2>11, <3>1 DEF ProcessStep
  <2> QED BY <2>1, <2>2, <2>3, <2>7, <2>8, <2>9, <2>10, <2>12
<1>4. ASSUME NEW m \in Models, NEW g, ChangeGrant(m, g)
      PROVE  Same /\ work'[p].step = work[p].step
  BY <1>0, <1>4 DEF ChangeGrant, Works
<1>5. ASSUME NEW s \in DOMAIN session, Revoke(s) \/ Retire({s}) PROVE UNCHANGED work
  BY <1>5 DEF Revoke, Retire
<1> QED BY <1>1, <1>2, <1>3, <1>4, <1>5 DEF Next, vars

(* Whatever the sessions' own steps do, in any order: the source of a      *)
(* handoff is complete when it dies, and nothing is admitted to it later.  *)
LEMMA HandedOffStays ==
    ASSUME IInv, HandedOff, [Authority!Next]_(Authority!vars)
    PROVE  HandedOff'
<1> USE DEF Authority!Complete, Authority!TurnsOf
<1>0. \A t \in DOMAIN turn : turn[t] \in [session : issued, answered : BOOLEAN, closed : BOOLEAN]
  BY DEF IInv, TurnOK
<1>1. CASE UNCHANGED Authority!vars
  BY <1>1 DEF Authority!vars, HandedOff
<1>2. ASSUME NEW d, NEW k, NEW u, Authority!Issue(d, k, u) PROVE HandedOff'
  BY <1>2 DEF Authority!Issue, HandedOff
<1>3. ASSUME NEW d, NEW s, NEW r, Authority!Handoff(d, s, r) PROVE HandedOff'
  <2>1. PICK h : h = Authority!HandoffId(d, s, r)
    OBVIOUS
  <2>2. /\ s \notin revoked /\ Authority!Complete(s) /\ revoked' = revoked \cup {s} /\ UNCHANGED turn
        /\ DOMAIN continuation' = DOMAIN continuation \cup {h}
        /\ continuation'[h].parent = s
        /\ \A c \in DOMAIN continuation : c # h => continuation'[c] = continuation[c]
    BY <1>3, <2>1 DEF Authority!Handoff, Authority!Live, Authority!Put
  <2>3. \A c \in DOMAIN continuation : continuation[c].parent # s
    BY <2>2 DEF HandedOff
  <2> QED BY <2>2, <2>3 DEF HandedOff
<1>4. ASSUME NEW s, NEW t, Authority!Admit(s, t) PROVE HandedOff'
  <2>1. /\ s \notin revoked /\ t \notin DOMAIN turn /\ UNCHANGED <<revoked, continuation>>
        /\ DOMAIN turn' = DOMAIN turn \cup {t} /\ turn'[t].session = s
        /\ \A x \in DOMAIN turn : turn'[x] = turn[x]
    BY <1>4 DEF Authority!Admit, Authority!Live, Authority!Put
  <2> QED BY <2>1 DEF HandedOff
<1>5. ASSUME NEW t, Authority!Answer(t) \/ Authority!Close(t) PROVE HandedOff'
  <2>1. UNCHANGED <<revoked, continuation>> /\ DOMAIN turn' = DOMAIN turn
    BY <1>5 DEF Authority!Answer, Authority!Close
  <2>2. \A x \in DOMAIN turn : /\ turn'[x].session = turn[x].session
                               /\ turn[x].answered => turn'[x].answered
                               /\ turn[x].closed => turn'[x].closed
    BY <1>0, <1>5 DEF Authority!Answer, Authority!Close
  <2> QED BY <2>1, <2>2 DEF HandedOff
<1>6. ASSUME NEW s, Authority!Revoke(s) PROVE HandedOff'
  BY <1>6 DEF Authority!Revoke, HandedOff
<1>7. ASSUME NEW S, Authority!Retire(S) PROVE HandedOff'
  <2>1. /\ revoked' = revoked \ S /\ UNCHANGED turn
        /\ \A c \in DOMAIN continuation : continuation[c].parent \notin S
        /\ DOMAIN continuation' = DOMAIN continuation \ S
        /\ \A c \in DOMAIN continuation' : continuation'[c] = continuation[c]
    BY <1>7 DEF Authority!Retire, Authority!Drop
  <2> QED BY <2>1 DEF HandedOff
<1> QED BY <1>1, <1>2, <1>3, <1>4, <1>5, <1>6, <1>7 DEF Authority!Next

(* The test of MCPStore.open settles what it lets a turn carry on: within  *)
(* the session by the comparison of the two models, across a handoff       *)
(* because the sessions it walks through were complete when they ended.    *)
LEMMA ContinuableIsCarried ==
    ASSUME IInv, HandedOff, NEW s, NEW o, NEW q, Continuable(s, o, q)
    PROVE  Carried(s, o, q)
<1>1. q \in DOMAIN record /\ q \in DOMAIN turn /\ turn[q].closed
  BY DEF Continuable, IInv, TypeOK
<1>2. CASE turn[q].session = s
  BY <1>1, <1>2 DEF Continuable, Carried
<1>3. CASE turn[q].session # s
  <2>1. PICK n \in 0..(WalkLimit - 1) :
           \E w \in Walks(continuation, s, n) : w[n] = turn[q].session
    BY <1>3 DEF Continuable, Ancestors
  <2>2. PICK w \in Walks(continuation, s, n) : w[n] = turn[q].session
    BY <2>1
  <2>3. w[0] = s /\ \A i \in 1..n : w[i-1] \in DOMAIN continuation
                                   /\ w[i] = continuation[w[i-1]].parent
    BY DEF Walks
  <2>4. n \in 1..n
    BY <1>3, <2>2, <2>3
  <2>5. Authority!Complete(turn[q].session)
    BY <2>2, <2>3, <2>4 DEF HandedOff
  <2>6. turn[q].answered
    BY <1>1, <2>5 DEF Authority!Complete, Authority!TurnsOf
  <2> QED BY <1>1, <1>3, <2>6 DEF Carried
<1> QED BY <1>2, <1>3

LEMMA CarriedStays ==
    ASSUME IInv, [Next]_vars, NEW s, NEW o, NEW q, Carried(s, o, q)
    PROVE  Carried(s, o, q)'
<1>1. q \in DOMAIN turn
  BY DEF Carried, IInv, TypeOK
<1> QED BY <1>1, TurnsAdvance DEF Carried

LEMMA NextCarries == CarryInv /\ [Next]_vars /\ [Authority!Next]_(Authority!vars) => CarryInv'
<1> SUFFICES ASSUME CarryInv, [Next]_vars, [Authority!Next]_(Authority!vars) PROVE CarryInv'
  OBVIOUS
<1>1. IInv /\ IInv' /\ HandedOff /\ HandedOff'
  BY NextInv, HandedOffStays DEF CarryInv
<1>2. ASSUME NEW p \in Processes, work'[p].step \in Joining, work'[p].parent # None
      PROVE  Carried(work[p].session, work[p].option, work[p].parent)'
  <2>1. PICK s, o, q : s = work[p].session /\ o = work[p].option /\ q = work[p].parent
    OBVIOUS
  <2>2. /\ OpenStore(p) \/ work[p].step \in Joining
        /\ s = work'[p].session /\ o = work'[p].option /\ q = work'[p].parent
    BY <1>1, <1>2, <2>1, JoinsByOpenStore
  <2>3. CASE OpenStore(p)
    <3>1. Continuable(s, o, q)
      BY <1>2, <2>1, <2>2, <2>3 DEF OpenStore
    <3>2. Carried(s, o, q)'
      BY <1>1, <3>1, ContinuableIsCarried, CarriedStays
    <3> QED BY <2>2, <3>2 DEF Carried
  <2>4. CASE work[p].step \in Joining
    <3>1. Carried(s, o, q)
      BY <1>2, <2>1, <2>2, <2>4 DEF CarryInv, Joined
    <3>2. Carried(s, o, q)'
      BY <1>1, <3>1, CarriedStays
    <3> QED BY <2>2, <3>2 DEF Carried
  <2> QED BY <2>2, <2>3, <2>4
<1>3. ASSUME NEW t \in DOMAIN record', record'[t].parent # None
      PROVE  Carried(turn[t].session, record[t].option, record[t].parent)'
  <2>1. CASE t \in DOMAIN record
    <3>1. t \in DOMAIN turn
      BY <1>1, <2>1 DEF IInv, TypeOK
    <3>2. turn'[t].session = turn[t].session /\ record'[t] = record[t]
      BY <1>1, <3>1, TurnsAdvance
    <3>3. Carried(turn[t].session, record[t].option, record[t].parent)
      BY <1>3, <2>1, <3>2 DEF CarryInv, Continued
    <3> QED BY <1>1, <3>2, <3>3, CarriedStays
  <2>2. CASE t \notin DOMAIN record
    <3>1. PICK p \in Processes : Admit(p)
      BY <1>1, <1>3, <2>2, OnlyAdmitRecords
    <3>2. PICK w : w = work[p]
      OBVIOUS
    <3>3. /\ w.step = "admit" /\ t = w.turn /\ turn'[t].session = w.session
          /\ record'[t] = [option |-> w.option, parent |-> w.parent]
      BY <1>1, <1>3, <2>2, <3>1, <3>2 DEF Admit, At, Authority!Admit, Authority!Put, Put
    <3>4. Carried(w.session, w.option, w.parent)
      BY <1>3, <3>2, <3>3 DEF CarryInv, Joined, Joining
    <3> QED BY <1>1, <3>3, <3>4, CarriedStays
  <2> QED BY <2>1, <2>2
<1>4. (\A p \in Processes : Joined(work[p]))' /\ Continued'
  BY <1>2, <1>3 DEF Joined, Joining, Continued, Carried
<1> QED BY <1>1, <1>4 DEF CarryInv

-----------------------------------------------------------------------------
(* What a turn carries on is closed for good; within its session it has    *)
(* the turn's own model, so that there a remote model continues only what  *)
(* a remote one began, and across handoffs it was answered, however many   *)
(* handoffs lie between (mcp_store.py:90-107, principals.py:100-108).      *)
THEOREM ContinuationsAreSettled == Spec => []Continued
<1>1. Init => CarryInv
  BY InitInv, IdleFits DEF Init, Authority!Init, Authority!Empty, Empty, CarryInv, HandedOff, Joined,
     Joining, Continued
<1>2. CarryInv => Continued
  BY DEF CarryInv
<1> QED BY <1>1, <1>2, NextCarries, SessionsStayTheirOwn, PTL DEF Spec, Authority!Spec

(* A session that was handed off, with models as without, is dead, has one *)
(* successor and no unfinished turn, now and ever after: the promises of   *)
(* the sessions survive the composition (principals.py:97-108, 144-158).   *)
THEOREM HandoffsEndSessions == Spec => []HandedOff
<1>1. Init => HandedOff
  BY DEF Init, Authority!Init, Authority!Empty, HandedOff
<1>2. IInv /\ HandedOff /\ [Authority!Next]_(Authority!vars) => HandedOff'
  BY HandedOffStays
<1> QED BY <1>1, <1>2, Invariant, SessionsStayTheirOwn, PTL DEF Spec, Authority!Spec

(* "Local-only or legacy-unclassified history cannot be exported"          *)
(* (docs/PHASES.md:26), of the second half: it is so under the rollout     *)
(* that the sentence takes for granted.                                    *)
THEOREM UnclassifiedStaysHome == Spec /\ []SwitchedOnTogether => []UnclassifiedNotExported
<1>1. ClassifiedHistory => UnclassifiedNotExported
  BY DEF ClassifiedHistory, UnclassifiedNotExported, IsRemote
<1> QED BY <1>1, HistoriesStayClassified, PTL
=============================================================================
