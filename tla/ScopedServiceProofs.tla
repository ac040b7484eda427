------------------------ MODULE ScopedServiceProofs -------------------------
(***************************************************************************)
(* Proofs about ScopedService, for any number of calls and any limit on    *)
(* settings operations.  Everything rests on the invariant IInv: the flags *)
(* account for the calls, at most one of a turn, a handoff and (for the    *)
(* last two) a probe is admitted, and each stage of the shutdown has got   *)
(* rid of what it waited for.                                              *)
(***************************************************************************)
EXTENDS ScopedService, FiniteSetTheorems, TLAPS

(* Where a call that owns the turn, the handoff or a probe may stand. *)
TurnAccounted == Doing({"turn", "cleanup"}) = {active} \ {None}

HandoffAccounted ==
    /\ Doing({"transition", "drain"}) = {continuation_task} \ {None}
    /\ continuing <=> continuation_task # None

ProbeAccounted == Cardinality(Doing({"probe"})) = IF probing THEN 1 ELSE 0

SettingsAccounted ==
    /\ settings_active = Cardinality(Doing({"settings"}))
    /\ settings_active <= SettingsLimit

(* What was admitted excludes what was not. *)
Exclusive ==
    /\ transitions \subseteq {continuation_task}
    /\ active # None => ~continuing
    /\ probing => ~continuing

(* Each stage of aclose is past the previous one's obstacle. *)
Draining ==
    /\ closing <=> shutdown # "up"
    /\ shutdown = "handoff" => transitions \subseteq {awaited}
    /\ shutdown \in {"turn", "down"} => transitions = {}
    /\ shutdown = "turn" => active \in {None, awaited}
    /\ shutdown = "down" => active = None

IInv ==
    /\ TypeOK
    /\ TurnAccounted /\ HandoffAccounted /\ ProbeAccounted /\ SettingsAccounted
    /\ Exclusive
    /\ Draining

-----------------------------------------------------------------------------
(* Sets of calls that stand somewhere are finite, and one more or one less  *)
(* call changes their number by one.                                        *)
LEMMA Counting ==
    ASSUME NEW D, D \subseteq Calls, NEW c \in Calls
    PROVE  /\ Cardinality(D) \in Nat
           /\ c \notin D => Cardinality(D \cup {c}) = Cardinality(D) + 1
           /\ c \in D => Cardinality(D \ {c}) = Cardinality(D) - 1 /\ Cardinality(D) > 0
<1>1. IsFiniteSet(D)
  BY CallsAssumption, FS_Subset
<1>2. Cardinality(D) \in Nat
  BY <1>1, FS_CardinalityType
<1>3. c \notin D => Cardinality(D \cup {c}) = Cardinality(D) + 1
  BY <1>1, FS_AddElement
<1>4. c \in D => Cardinality(D \ {c}) = Cardinality(D) - 1
  BY <1>1, FS_RemoveElement
<1>5. c \in D => Cardinality(D) > 0
  BY <1>1, <1>2, FS_EmptySet
<1> QED BY <1>2, <1>3, <1>4, <1>5

(* A call that moves from one step to another leaves the sets it was in and *)
(* joins those it goes to; every other set of calls stays as it was.        *)
LEMMA Moves ==
    ASSUME step \in [Calls -> Steps], NEW c \in Calls, NEW t \in Steps, Go(c, t), NEW S
    PROVE  /\ step' \in [Calls -> Steps]
           /\ step[c] \notin S /\ t \in S => c \notin Doing(S) /\ Doing(S)' = Doing(S) \cup {c}
           /\ step[c] \in S /\ t \notin S => c \in Doing(S) /\ Doing(S)' = Doing(S) \ {c}
           /\ (step[c] \in S <=> t \in S) => Doing(S)' = Doing(S)
BY DEF Go, Doing

(* A step that moves nobody keeps every set of calls. *)
LEMMA Stays == ASSUME UNCHANGED step, NEW S PROVE Doing(S)' = Doing(S)
BY DEF Doing

LEMMA InitIInv == Init => IInv
<1> SUFFICES ASSUME Init PROVE IInv
  OBVIOUS
<1>1. TypeOK
  BY DEF Init, TypeOK, Steps
<1>2. \A S : "idle" \notin S => Doing(S) = {}
  BY DEF Init, Doing
<1>3. Doing({"turn", "cleanup"}) = {} /\ Doing({"transition", "drain"}) = {}
      /\ Doing({"probe"}) = {} /\ Doing({"settings"}) = {}
  BY <1>2
<1>4. Cardinality({}) = 0
  BY FS_EmptySet
<1> QED BY <1>1, <1>3, <1>4, SettingsAssumption
     DEF Init, IInv, TurnAccounted, HandoffAccounted, ProbeAccounted, SettingsAccounted,
         Exclusive, Draining

-----------------------------------------------------------------------------
Replies == {"ready", "busy", "unavailable", "offline", "unknown", None}

(* Calls move between steps at which they own nothing, or keep what they    *)
(* own: no flag changes.                                                    *)
LEMMA QuietStep ==
    ASSUME IInv, NEW c \in Calls, NEW t \in Steps, Go(c, t), reply' \in Replies,
           UNCHANGED <<admission, closure>>,
           step[c] \in {"turn", "cleanup"} <=> t \in {"turn", "cleanup"},
           step[c] \in {"transition", "drain"} <=> t \in {"transition", "drain"},
           step[c] = "probe" <=> t = "probe",
           step[c] = "settings" <=> t = "settings"
    PROVE  IInv'
<1>1. step' \in [Calls -> Steps]
  BY Moves DEF IInv, TypeOK
<1>2. /\ Doing({"turn", "cleanup"})' = Doing({"turn", "cleanup"})
      /\ Doing({"transition", "drain"})' = Doing({"transition", "drain"})
      /\ Doing({"probe"})' = Doing({"probe"})
      /\ Doing({"settings"})' = Doing({"settings"})
  BY Moves DEF IInv, TypeOK
<1>3. TypeOK'
  BY <1>1 DEF IInv, TypeOK, admission, closure, Replies
<1>4. TurnAccounted' /\ HandoffAccounted' /\ ProbeAccounted' /\ SettingsAccounted'
  BY <1>2 DEF IInv, TurnAccounted, HandoffAccounted, ProbeAccounted, SettingsAccounted,
              admission
<1>5. Exclusive' /\ Draining'
  BY DEF IInv, Exclusive, Draining, admission, closure
<1> QED BY <1>3, <1>4, <1>5 DEF IInv

(* The turn begins: no handoff is being served, and the service is open.    *)
LEMMA AskRunStep == ASSUME IInv, NEW c \in Calls, AskRun(c) PROVE IInv'
<1>1. CASE Go(c, "idle") /\ UNCHANGED active
  <2>1. step[c] = "require" /\ reply' \in Replies /\ UNCHANGED <<admission, closure>>
    BY <1>1 DEF AskRun, At, admission, Replies
  <2> QED BY <1>1, <2>1, QuietStep DEF Steps
<1>2. CASE ~continuing /\ ~closing /\ active = None /\ Go(c, "turn") /\ active' = c
  <2>1. step[c] = "require" /\ "turn" \in Steps /\ step \in [Calls -> Steps]
    BY DEF AskRun, At, Steps, IInv, TypeOK
  <2>2. /\ step' \in [Calls -> Steps]
        /\ Doing({"turn", "cleanup"})' = Doing({"turn", "cleanup"}) \cup {c}
        /\ Doing({"transition", "drain"})' = Doing({"transition", "drain"})
        /\ Doing({"probe"})' = Doing({"probe"})
        /\ Doing({"settings"})' = Doing({"settings"})
    BY <1>2, <2>1, Moves
  <2>3. TypeOK'
    BY <1>2, <2>2 DEF AskRun, IInv, TypeOK, closure
  <2>4. TurnAccounted'
    BY <1>2, <2>2, NoneAssumption DEF IInv, TurnAccounted
  <2>5. HandoffAccounted' /\ ProbeAccounted' /\ SettingsAccounted'
    BY <2>2 DEF AskRun, IInv, HandoffAccounted, ProbeAccounted, SettingsAccounted
  <2>6. Exclusive' /\ Draining'
    BY <1>2 DEF AskRun, IInv, TypeOK, Exclusive, Draining, closure
  <2> QED BY <2>3, <2>4, <2>5, <2>6 DEF IInv
<1> QED BY <1>1, <1>2 DEF AskRun

LEMMA CleanupStep == ASSUME IInv, NEW c \in Calls, Cleanup(c) PROVE IInv'
<1>1. step[c] = "cleanup" /\ "idle" \in Steps /\ step \in [Calls -> Steps] /\ Go(c, "idle")
  BY DEF Cleanup, At, Steps, IInv, TypeOK
<1>2. /\ step' \in [Calls -> Steps]
      /\ c \in Doing({"turn", "cleanup"})
      /\ Doing({"turn", "cleanup"})' = Doing({"turn", "cleanup"}) \ {c}
      /\ Doing({"transition", "drain"})' = Doing({"transition", "drain"})
      /\ Doing({"probe"})' = Doing({"probe"})
      /\ Doing({"settings"})' = Doing({"settings"})
  BY <1>1, Moves
<1>3. TypeOK'
  BY <1>2 DEF Cleanup, IInv, TypeOK, closure
<1>4. TurnAccounted'
  BY <1>2 DEF Cleanup, IInv, TurnAccounted
<1>5. HandoffAccounted' /\ ProbeAccounted' /\ SettingsAccounted'
  BY <1>2 DEF Cleanup, IInv, HandoffAccounted, ProbeAccounted, SettingsAccounted
<1>6. Exclusive' /\ Draining'
  BY DEF Cleanup, IInv, Exclusive, Draining, closure
<1> QED BY <1>3, <1>4, <1>5, <1>6 DEF IInv

LEMMA HandoffStartStep == ASSUME IInv, NEW c \in Calls, HandoffStart(c) PROVE IInv'
<1>1. step[c] = "idle" /\ "transition" \in Steps /\ step \in [Calls -> Steps]
      /\ Go(c, "transition")
  BY DEF HandoffStart, At, Steps, IInv, TypeOK
<1>2. /\ step' \in [Calls -> Steps]
      /\ Doing({"turn", "cleanup"})' = Doing({"turn", "cleanup"})
      /\ Doing({"transition", "drain"})' = Doing({"transition", "drain"}) \cup {c}
      /\ Doing({"probe"})' = Doing({"probe"})
      /\ Doing({"settings"})' = Doing({"settings"})
  BY <1>1, Moves
<1>3. continuation_task = None /\ transitions = {} /\ c # None
  BY NoneAssumption DEF HandoffStart, IInv, TypeOK, HandoffAccounted, Exclusive
<1>4. TypeOK'
  BY <1>2 DEF HandoffStart, IInv, TypeOK, closure
<1>5. HandoffAccounted'
  BY <1>2, <1>3 DEF HandoffStart, IInv, HandoffAccounted
<1>6. TurnAccounted' /\ ProbeAccounted' /\ SettingsAccounted'
  BY <1>2 DEF HandoffStart, IInv, TurnAccounted, ProbeAccounted, SettingsAccounted
<1>7. Exclusive' /\ Draining'
  BY <1>3 DEF HandoffStart, IInv, TypeOK, Exclusive, Draining, closure
<1> QED BY <1>4, <1>5, <1>6, <1>7 DEF IInv

LEMMA TransitionStep == ASSUME IInv, NEW c \in transitions, Transition(c) PROVE IInv'
<1>1. UNCHANGED step
  BY DEF Transition
<1>2. \A S : Doing(S)' = Doing(S)
  BY <1>1, Stays
<1>3. TypeOK'
  BY DEF Transition, IInv, TypeOK, closure
<1>4. TurnAccounted' /\ HandoffAccounted' /\ ProbeAccounted' /\ SettingsAccounted'
  BY <1>2 DEF Transition, IInv, TurnAccounted, HandoffAccounted, ProbeAccounted,
              SettingsAccounted
<1>5. Exclusive' /\ Draining'
  BY DEF Transition, IInv, Exclusive, Draining, closure
<1> QED BY <1>3, <1>4, <1>5 DEF IInv

LEMMA HandoffEndStep == ASSUME IInv, NEW c \in Calls, HandoffEnd(c) PROVE IInv'
<1>1. step[c] \in {"transition", "drain"} /\ "idle" \in Steps /\ step \in [Calls -> Steps]
      /\ Go(c, "idle") /\ c \notin transitions
  BY DEF HandoffEnd, Resume, Steps, IInv, TypeOK
<1>2. /\ step' \in [Calls -> Steps]
      /\ Doing({"turn", "cleanup"})' = Doing({"turn", "cleanup"})
      /\ c \in Doing({"transition", "drain"})
      /\ Doing({"transition", "drain"})' = Doing({"transition", "drain"}) \ {c}
      /\ Doing({"probe"})' = Doing({"probe"})
      /\ Doing({"settings"})' = Doing({"settings"})
  BY <1>1, Moves
<1>3. continuation_task = c /\ transitions = {}
  BY <1>1, <1>2 DEF IInv, HandoffAccounted, Exclusive
<1>4. TypeOK'
  BY <1>2 DEF HandoffEnd, Resume, IInv, TypeOK, closure
<1>5. HandoffAccounted'
  BY <1>2, <1>3 DEF HandoffEnd, Resume, IInv, HandoffAccounted
<1>6. TurnAccounted' /\ ProbeAccounted' /\ SettingsAccounted'
  BY <1>2 DEF HandoffEnd, Resume, IInv, TurnAccounted, ProbeAccounted, SettingsAccounted
<1>7. Exclusive' /\ Draining'
  BY <1>3 DEF HandoffEnd, Resume, IInv, Exclusive, Draining, closure
<1> QED BY <1>4, <1>5, <1>6, <1>7 DEF IInv

LEMMA SettingsStartStep == ASSUME IInv, NEW c \in Calls, SettingsStart(c) PROVE IInv'
<1>1. step[c] = "idle" /\ "settings" \in Steps /\ step \in [Calls -> Steps]
      /\ Go(c, "settings")
  BY DEF SettingsStart, At, Steps, IInv, TypeOK
<1>2. /\ step' \in [Calls -> Steps]
      /\ Doing({"turn", "cleanup"})' = Doing({"turn", "cleanup"})
      /\ Doing({"transition", "drain"})' = Doing({"transition", "drain"})
      /\ Doing({"probe"})' = Doing({"probe"})
      /\ c \notin Doing({"settings"})
      /\ Doing({"settings"})' = Doing({"settings"}) \cup {c}
  BY <1>1, Moves
<1>3. Cardinality(Doing({"settings"}) \cup {c}) = Cardinality(Doing({"settings"})) + 1
  BY <1>2, Counting DEF Doing
<1>4. TypeOK'
  BY <1>2 DEF SettingsStart, IInv, TypeOK, closure
<1>5. SettingsAccounted'
  <2>1. /\ settings_active \in Nat /\ settings_active < SettingsLimit
        /\ settings_active = Cardinality(Doing({"settings"}))
        /\ settings_active' = settings_active + 1
    BY DEF SettingsStart, IInv, TypeOK, SettingsAccounted
  <2>2. settings_active' = Cardinality(Doing({"settings"})')
    BY <1>2, <1>3, <2>1
  <2>3. settings_active' <= SettingsLimit
    BY <2>1, SettingsAssumption
  <2> QED BY <2>2, <2>3 DEF SettingsAccounted
<1>6. TurnAccounted' /\ HandoffAccounted' /\ ProbeAccounted'
  BY <1>2 DEF SettingsStart, IInv, TurnAccounted, HandoffAccounted, ProbeAccounted
<1>7. Exclusive' /\ Draining'
  BY DEF SettingsStart, IInv, Exclusive, Draining, closure
<1> QED BY <1>4, <1>5, <1>6, <1>7 DEF IInv

LEMMA SettingsEndStep == ASSUME IInv, NEW c \in Calls, SettingsEnd(c) PROVE IInv'
<1>1. step[c] = "settings" /\ "idle" \in Steps /\ step \in [Calls -> Steps] /\ Go(c, "idle")
  BY DEF SettingsEnd, At, Steps, IInv, TypeOK
<1>2. /\ step' \in [Calls -> Steps]
      /\ Doing({"turn", "cleanup"})' = Doing({"turn", "cleanup"})
      /\ Doing({"transition", "drain"})' = Doing({"transition", "drain"})
      /\ Doing({"probe"})' = Doing({"probe"})
      /\ c \in Doing({"settings"})
      /\ Doing({"settings"})' = Doing({"settings"}) \ {c}
  BY <1>1, Moves
<1>3. /\ Cardinality(Doing({"settings"}) \ {c}) = Cardinality(Doing({"settings"})) - 1
      /\ Cardinality(Doing({"settings"})) > 0
  BY <1>2, Counting DEF Doing
<1>4. TypeOK'
  BY <1>2, <1>3 DEF SettingsEnd, IInv, TypeOK, SettingsAccounted, closure
<1>5. SettingsAccounted'
  <2>1. /\ settings_active \in Nat /\ settings_active <= SettingsLimit
        /\ settings_active = Cardinality(Doing({"settings"}))
        /\ settings_active' = settings_active - 1
    BY DEF SettingsEnd, IInv, TypeOK, SettingsAccounted
  <2>2. settings_active' = Cardinality(Doing({"settings"})')
    BY <1>2, <1>3, <2>1
  <2>3. settings_active' <= SettingsLimit
    BY <2>1, SettingsAssumption
  <2> QED BY <2>2, <2>3 DEF SettingsAccounted
<1>6. TurnAccounted' /\ HandoffAccounted' /\ ProbeAccounted'
  BY <1>2 DEF SettingsEnd, IInv, TurnAccounted, HandoffAccounted, ProbeAccounted
<1>7. Exclusive' /\ Draining'
  BY DEF SettingsEnd, IInv, Exclusive, Draining, closure
<1> QED BY <1>4, <1>5, <1>6, <1>7 DEF IInv

(* A probe is admitted, or refused on the spot. *)
LEMMA ProbeStartStep == ASSUME IInv, NEW c \in Calls, ProbeStart(c) PROVE IInv'
<1>1. CASE Go(c, "idle") /\ UNCHANGED probing /\ reply' \in Replies
  <2>1. step[c] = "authorize" /\ UNCHANGED <<admission, closure>>
    BY <1>1 DEF ProbeStart, At, admission
  <2> QED BY <1>1, <2>1, QuietStep DEF Steps
<1>2. CASE /\ ~closing /\ active = None /\ ~probing /\ ~continuing
           /\ Go(c, "probe") /\ probing' = TRUE /\ reply' = None
  <2>1. step[c] = "authorize" /\ "probe" \in Steps /\ step \in [Calls -> Steps]
    BY DEF ProbeStart, At, Steps, IInv, TypeOK
  <2>2. /\ step' \in [Calls -> Steps]
        /\ Doing({"turn", "cleanup"})' = Doing({"turn", "cleanup"})
        /\ Doing({"transition", "drain"})' = Doing({"transition", "drain"})
        /\ c \notin Doing({"probe"})
        /\ Doing({"probe"})' = Doing({"probe"}) \cup {c}
        /\ Doing({"settings"})' = Doing({"settings"})
    BY <1>2, <2>1, Moves
  <2>3. Cardinality(Doing({"probe"}) \cup {c}) = Cardinality(Doing({"probe"})) + 1
    BY <2>2, Counting DEF Doing
  <2>4. TypeOK'
    BY <1>2, <2>2 DEF ProbeStart, IInv, TypeOK, closure
  <2>5. ProbeAccounted'
    BY <1>2, <2>2, <2>3 DEF IInv, ProbeAccounted
  <2>6. TurnAccounted' /\ HandoffAccounted' /\ SettingsAccounted'
    BY <2>2 DEF ProbeStart, IInv, TurnAccounted, HandoffAccounted, SettingsAccounted
  <2>7. Exclusive' /\ Draining'
    BY <1>2 DEF ProbeStart, IInv, TypeOK, Exclusive, Draining, closure
  <2> QED BY <2>4, <2>5, <2>6, <2>7 DEF IInv
<1> QED BY <1>1, <1>2 DEF ProbeStart, Replies

(* While some call probes, probing is set. *)
LEMMA ProbeIsMarked == ASSUME IInv, NEW c \in Calls, step[c] = "probe" PROVE probing
<1>1. c \in Doing({"probe"})
  BY DEF Doing
<1>2. Cardinality(Doing({"probe"})) > 0
  BY <1>1, Counting DEF Doing
<1> QED BY <1>2 DEF IInv, ProbeAccounted

LEMMA EndProbeStep ==
    ASSUME IInv, NEW c \in Calls, NEW answer \in Replies, EndProbe(c, answer)
    PROVE  IInv'
<1>1. step[c] = "probe" /\ "idle" \in Steps /\ step \in [Calls -> Steps] /\ Go(c, "idle")
  BY DEF EndProbe, At, Steps, IInv, TypeOK
<1>2. /\ step' \in [Calls -> Steps]
      /\ Doing({"turn", "cleanup"})' = Doing({"turn", "cleanup"})
      /\ Doing({"transition", "drain"})' = Doing({"transition", "drain"})
      /\ c \in Doing({"probe"})
      /\ Doing({"probe"})' = Doing({"probe"}) \ {c}
      /\ Doing({"settings"})' = Doing({"settings"})
  BY <1>1, Moves
<1>3. Cardinality(Doing({"probe"}) \ {c}) = Cardinality(Doing({"probe"})) - 1
  BY <1>2, Counting DEF Doing
<1>4. probing
  BY <1>1, ProbeIsMarked
<1>5. TypeOK'
  BY <1>2 DEF EndProbe, IInv, TypeOK, Replies, closure
<1>6. ProbeAccounted'
  BY <1>2, <1>3, <1>4 DEF EndProbe, IInv, ProbeAccounted
<1>7. TurnAccounted' /\ HandoffAccounted' /\ SettingsAccounted'
  BY <1>2 DEF EndProbe, IInv, TurnAccounted, HandoffAccounted, SettingsAccounted
<1>8. Exclusive' /\ Draining'
  BY DEF EndProbe, IInv, Exclusive, Draining, closure
<1> QED BY <1>5, <1>6, <1>7, <1>8 DEF IInv

(* The three steps of aclose move no call. *)
LEMMA CloseStep == ASSUME IInv, CloseStart \/ CloseTurn \/ CloseEnd PROVE IInv'
<1>1. UNCHANGED <<step, admission>> /\ reply' = None
  BY DEF CloseStart, CloseTurn, CloseEnd
<1>2. \A S : Doing(S)' = Doing(S)
  BY <1>1, Stays
<1>3. TypeOK'
  BY <1>1 DEF CloseStart, CloseTurn, CloseEnd, IInv, TypeOK, admission
<1>4. TurnAccounted' /\ HandoffAccounted' /\ ProbeAccounted' /\ SettingsAccounted'
  BY <1>1, <1>2 DEF IInv, TurnAccounted, HandoffAccounted, ProbeAccounted,
                    SettingsAccounted, admission
<1>5. Exclusive'
  BY <1>1 DEF IInv, Exclusive, admission
<1>6. Draining'
  <2>1. CASE CloseStart
    BY <1>1, <2>1 DEF CloseStart, IInv, TypeOK, Exclusive, Draining, admission
  <2>2. CASE CloseTurn
    BY <1>1, <2>2 DEF CloseTurn, IInv, TypeOK, Draining, admission
  <2>3. CASE CloseEnd
    BY <1>1, <2>3 DEF CloseEnd, IInv, TypeOK, Draining, admission
  <2> QED BY <2>1, <2>2, <2>3
<1> QED BY <1>3, <1>4, <1>5, <1>6 DEF IInv

-----------------------------------------------------------------------------
LEMMA StutterStep == ASSUME IInv, UNCHANGED vars PROVE IInv'
<1>1. \A S : Doing(S)' = Doing(S)
  BY Stays DEF vars
<1> QED BY <1>1 DEF vars, IInv, TypeOK, TurnAccounted, HandoffAccounted, ProbeAccounted,
                    SettingsAccounted, Exclusive, Draining

LEMMA NextIInv == IInv /\ [Next]_vars => IInv'
<1> SUFFICES ASSUME IInv, [Next]_vars PROVE IInv'
  OBVIOUS
<1>1. ASSUME NEW c \in Calls, Begins(c) PROVE IInv'
  <2>1. CASE AskStart(c)
    BY <2>1, QuietStep DEF AskStart, At, Steps, Replies
  <2>2. CASE HandoffStart(c)
    BY <2>2, HandoffStartStep
  <2>3. CASE SettingsStart(c)
    BY <2>3, SettingsStartStep
  <2>4. CASE OpenStart(c)
    BY <2>4, QuietStep DEF OpenStart, At, Steps, Replies
  <2>5. CASE AvailabilityStart(c)
    BY <2>5, QuietStep DEF AvailabilityStart, At, Steps, Replies
  <2> QED BY <1>1, <2>1, <2>2, <2>3, <2>4, <2>5 DEF Begins
<1>2. ASSUME NEW c \in Calls, TurnEnd(c) PROVE IInv'
  BY <1>2, QuietStep DEF TurnEnd, At, Steps, Replies
<1>3. ASSUME NEW c \in Calls, Continues(c) PROVE IInv'
  <2>1. CASE AskRun(c)
    BY <2>1, AskRunStep
  <2>2. CASE TurnCancelled(c)
    BY <1>2, <2>2 DEF TurnCancelled
  <2>3. CASE Cleanup(c)
    BY <2>3, CleanupStep
  <2>4. CASE HandoffEnd(c)
    BY <2>4, HandoffEndStep
  <2>5. CASE SettingsEnd(c)
    BY <2>5, SettingsEndStep
  <2>6. CASE OpenEnd(c)
    BY <2>6, QuietStep DEF OpenEnd, At, Steps, Replies
  <2>7. CASE ProbeStart(c)
    BY <2>7, ProbeStartStep
  <2>8. CASE ProbeTimeout(c)
    BY <2>8, EndProbeStep DEF ProbeTimeout, Replies
  <2> QED BY <1>3, <2>1, <2>2, <2>3, <2>4, <2>5, <2>6, <2>7, <2>8 DEF Continues
<1>4. ASSUME NEW c \in Calls, HandoffCancelled(c) PROVE IInv'
  BY <1>4, QuietStep DEF HandoffCancelled, At, Steps, Replies
<1>5. ASSUME NEW c \in Calls, ProbeEnd(c) PROVE IInv'
  BY <1>5, EndProbeStep DEF ProbeEnd, Replies
<1>6. ASSUME NEW c \in Calls, ProbeFailed(c) PROVE IInv'
  BY <1>6, EndProbeStep DEF ProbeFailed, Replies
<1>7. ASSUME NEW c \in transitions, Transition(c) PROVE IInv'
  BY <1>7, TransitionStep
<1> QED BY <1>1, <1>2, <1>3, <1>4, <1>5, <1>6, <1>7, CloseStep, StutterStep DEF Next

LEMMA InvariantHolds == Spec => []IInv
BY InitIInv, NextIInv, PTL DEF Spec

-----------------------------------------------------------------------------
(* The flags keep their types. *)
THEOREM FlagsTyped == Spec => []TypeOK
<1>1. IInv => TypeOK
  BY DEF IInv
<1> QED BY <1>1, InvariantHolds, PTL

(* The flags account for the calls in progress, and no more settings        *)
(* operations run than the limit, however many calls there are.             *)
THEOREM FlagsAccount == Spec => []Accounted
<1>1. IInv => Accounted
  BY DEF IInv, Accounted, TurnAccounted, HandoffAccounted, ProbeAccounted, SettingsAccounted
<1> QED BY <1>1, InvariantHolds, PTL

(* No turn runs beside the transaction of a handoff. *)
THEOREM TurnExcludesHandoff == Spec => []TurnXorHandoff
<1>1. IInv => TurnXorHandoff
  BY NoneAssumption DEF IInv, TypeOK, TurnXorHandoff, Exclusive, HandoffAccounted
<1> QED BY <1>1, InvariantHolds, PTL

(* When aclose has returned nothing runs any more, and nothing begins. *)
THEOREM ShutdownIsQuiet == Spec => []DownIsQuiet
<1>1. IInv => DownIsQuiet
  BY DEF IInv, DownIsQuiet, Draining
<1> QED BY <1>1, InvariantHolds, PTL

(* Ready is only ever reported of a service that is open and idle. *)
THEOREM ReadyIsNotStale == Spec => ReadyIsTrue
<1>1. ASSUME IInv, Next, reply' = "ready"
      PROVE  ~closing' /\ active' = None /\ ~continuing' /\ transitions' = {}
  <2>1. PICK c \in Calls : ProbeEnd(c) /\ ~closing /\ active = None
    BY <1>1, NoneAssumption
       DEF Next, Begins, Continues, AskStart, HandoffStart, SettingsStart, OpenStart,
           AvailabilityStart, AskRun, TurnCancelled, TurnEnd, Cleanup, HandoffEnd, Resume,
           SettingsEnd, OpenEnd, ProbeStart, ProbeTimeout, HandoffCancelled, ProbeEnd,
           ProbeFailed, EndProbe, Transition, CloseStart, CloseTurn, CloseEnd
  <2>2. probing
    BY <1>1, <2>1, ProbeIsMarked DEF ProbeEnd, EndProbe, At
  <2>3. ~continuing /\ transitions = {}
    BY <1>1, <2>2, NoneAssumption DEF IInv, TypeOK, Exclusive, HandoffAccounted
  <2> QED BY <2>1, <2>3 DEF ProbeEnd, EndProbe, closure
<1>2. ASSUME IInv, [Next]_vars
      PROVE  [reply' = "ready" => ~closing' /\ active' = None /\ ~continuing'
                                    /\ transitions' = {}]_vars
  BY <1>1, <1>2
<1> QED BY <1>2, InvariantHolds, PTL DEF Spec, ReadyIsTrue

-----------------------------------------------------------------------------
(* Why a shutdown can end.  It never waits for more than one thing, and for *)
(* none that is not on its way out: a handoff's transaction, whose call     *)
(* still holds the flags and beside which no turn runs, and then the turn   *)
(* that it has cancelled.                                                   *)
WaitsForItsOwn ==
    /\ shutdown = "handoff" /\ awaited \in transitions =>
         /\ continuation_task = awaited /\ step[awaited] \in {"transition", "drain"}
         /\ active = None
    /\ shutdown = "turn" /\ active # None =>
         /\ active = awaited /\ active = cancelled
         /\ step[active] \in {"turn", "cleanup"}

(* A service that is closing takes on nothing: no transaction, no turn, no  *)
(* probe and no settings operation begins, and what was there only ends.    *)
Dwindles ==
    [][closing =>
         /\ transitions' \subseteq transitions /\ active' \in {active, None}
         /\ settings_active' <= settings_active /\ (probing' => probing)
         /\ \A c \in Calls : step'[c] \in {"idle", "cleanup", "drain", "authorize", step[c]}]_vars

(* The turn that aclose waits for is the one that it has cancelled. *)
Cancelled == shutdown = "turn" => cancelled = awaited

LEMMA NextCancelled == Cancelled /\ [Next]_vars => Cancelled'
<1> SUFFICES ASSUME Cancelled, [Next]_vars PROVE Cancelled'
  OBVIOUS
<1>1. CASE UNCHANGED closure
  BY <1>1 DEF Cancelled, closure
<1>2. CASE CloseStart \/ CloseTurn \/ CloseEnd
  BY <1>2 DEF CloseStart, CloseTurn, CloseEnd, Cancelled
<1>3. ASSUME NEW c \in Calls,
             \/ Begins(c) \/ Continues(c)
             \/ TurnEnd(c) \/ HandoffCancelled(c) \/ ProbeEnd(c) \/ ProbeFailed(c)
      PROVE  UNCHANGED closure
  BY <1>3 DEF Begins, Continues, AskStart, HandoffStart, SettingsStart, OpenStart, AvailabilityStart,
     AskRun, TurnCancelled, TurnEnd, Cleanup, HandoffEnd, Resume, SettingsEnd, OpenEnd, ProbeStart,
     ProbeTimeout, HandoffCancelled, ProbeEnd, ProbeFailed, EndProbe
<1>4. ASSUME NEW c \in transitions, Transition(c) PROVE UNCHANGED closure
  BY <1>4 DEF Transition
<1> QED BY <1>1, <1>2, <1>3, <1>4 DEF Next, vars, closure

(* Shutdown waits only for the transaction of a call that is ending and for *)
(* the turn it cancelled, so that nothing but the fairness of the event     *)
(* loop and of the worker thread lies between it and its end                *)
(* (scoped_service.py 98-105, mcp_service.py 111-116).                      *)
THEOREM ShutdownWaitsForItsOwn == Spec => []WaitsForItsOwn
<1>1. Init => Cancelled
  BY DEF Init, Cancelled
<1>2. IInv /\ Cancelled => WaitsForItsOwn
  <2> SUFFICES ASSUME IInv, Cancelled PROVE WaitsForItsOwn
    OBVIOUS
  <2>1. /\ transitions \subseteq {continuation_task} /\ transitions \subseteq Calls
        /\ continuing <=> continuation_task # None
        /\ active # None => ~continuing
        /\ active \in Calls \cup {None} /\ continuation_task \in Calls \cup {None}
    BY DEF IInv, TypeOK, Exclusive, HandoffAccounted
  <2>2. continuation_task # None => step[continuation_task] \in {"transition", "drain"}
    BY <2>1 DEF IInv, HandoffAccounted, Doing
  <2>3. active # None => step[active] \in {"turn", "cleanup"}
    BY <2>1 DEF IInv, TurnAccounted, Doing
  <2>4. shutdown = "turn" => active \in {None, awaited} /\ cancelled = awaited
    BY DEF IInv, Draining, Cancelled
  <2> QED BY <2>1, <2>2, <2>3, <2>4, NoneAssumption DEF WaitsForItsOwn
<1> QED BY <1>1, <1>2, NextCancelled, InvariantHolds, PTL DEF Spec

(* Whatever callers do, a closing service only ever has less to do, also    *)
(* when they were admitted before an await and resume after it              *)
(* (scoped_service.py 112, 193, 247, 328, 342; mcp_service.py 61).          *)
THEOREM ClosingDwindles == Spec => Dwindles
<1> DEFINE Less ==
        /\ transitions' \subseteq transitions /\ active' \in {active, None}
        /\ settings_active' <= settings_active /\ (probing' => probing)
       Ended ==
        \A c \in Calls : step'[c] \in {"idle", "cleanup", "drain", "authorize", step[c]}
<1>1. ASSUME IInv, Next, closing PROVE Less /\ Ended
  <2>1. /\ step \in [Calls -> Steps] /\ settings_active \in Nat
    BY <1>1 DEF IInv, TypeOK
  <2>2. ASSUME NEW c \in Calls, NEW s \in {"idle", "cleanup", "drain", "authorize"}, Go(c, s)
        PROVE  Ended
    BY <2>1, <2>2 DEF Go
  <2>3. ASSUME NEW c \in Calls, Begins(c) PROVE Less /\ Ended
    <3>1. AvailabilityStart(c)
      BY <1>1, <2>3 DEF Begins, AskStart, HandoffStart, SettingsStart, OpenStart
    <3> QED BY <2>1, <2>2, <3>1 DEF AvailabilityStart, admission
  <2>4. ASSUME NEW c \in Calls, TurnEnd(c) \/ HandoffCancelled(c) \/ OpenEnd(c)
        PROVE  Less /\ Ended
    <3>1. Less
      BY <2>1, <2>4 DEF TurnEnd, HandoffCancelled, OpenEnd, admission
    <3>2. Ended
      BY <2>2, <2>4 DEF TurnEnd, HandoffCancelled, OpenEnd
    <3> QED BY <3>1, <3>2
  <2>5. ASSUME NEW c \in Calls, AskRun(c) \/ Cleanup(c) \/ HandoffEnd(c) \/ SettingsEnd(c)
        PROVE  Less /\ Ended
    <3>1. Less
      BY <1>1, <2>1, <2>5 DEF AskRun, Cleanup, HandoffEnd, Resume, SettingsEnd
    <3>2. Ended
      BY <1>1, <2>2, <2>5 DEF AskRun, Cleanup, HandoffEnd, Resume, SettingsEnd
    <3> QED BY <3>1, <3>2
  <2>6. ASSUME NEW c \in Calls, ProbeStart(c) \/ ProbeTimeout(c) \/ ProbeEnd(c) \/ ProbeFailed(c)
        PROVE  Less /\ Ended
    <3>1. Less
      BY <1>1, <2>1, <2>6 DEF ProbeStart, ProbeTimeout, ProbeEnd, ProbeFailed, EndProbe
    <3>2. Ended
      BY <1>1, <2>2, <2>6 DEF ProbeStart, ProbeTimeout, ProbeEnd, ProbeFailed, EndProbe
    <3> QED BY <3>1, <3>2
  <2>7. ASSUME NEW c \in transitions, Transition(c) PROVE Less /\ Ended
    BY <2>1, <2>7 DEF Transition
  <2>8. CASE CloseStart \/ CloseTurn \/ CloseEnd
    BY <2>1, <2>8 DEF CloseStart, CloseTurn, CloseEnd, admission
  <2> QED BY <1>1, <2>3, <2>4, <2>5, <2>6, <2>7, <2>8 DEF Next, Continues, TurnCancelled
<1>2. IInv /\ [Next]_vars => [closing => Less /\ Ended]_vars
  BY <1>1
<1> QED BY <1>2, InvariantHolds, PTL DEF Spec, Dwindles
=============================================================================
