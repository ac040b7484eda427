----------------------- MODULE ConsoleSessionProofs -----------------------
(***************************************************************************)
(* Theorems of ConsoleSession for any number of consoles, conversations    *)
(* and asks and any window.  The inductive invariant says what the window  *)
(* of a console has to do with the transcript it writes: Fit.              *)
(***************************************************************************)
EXTENDS ConsoleSession, SequenceTheorems, TLAPS

Messages == [role : {"user", "assistant"}, ask : Nat]

Conversations == [messages : Seq(Messages), open : BOOLEAN]

Sessions ==
    [step : Steps, conv : Nat \cup {None}, newest : Nat, previous : Seq(Messages),
     history : Seq(Messages), sent : Seq(Messages), failed : BOOLEAN, resolved : BOOLEAN,
     lease : {"none", "held", "known", "unknown"}]

Starting == {"resolve", "open", "read", "validate", "start"}
Talking == {"prompt", "saveUser", "execute", "saveAnswer"}

Transcript(ms) == InOrder(ms) /\ (ms # <<>> => ms[1].role = "user")

Final(ms) == ms[Len(ms)]

TypeOK ==
    /\ conversation \in Seq(Conversations)
    /\ console \in [Consoles -> Sessions]
    /\ asks \in Nat

(* A console has a conversation of its own, if it has one. *)
OneWriter ==
    \A c \in Consoles : console[c].conv # None =>
        /\ console[c].conv \in 1..Len(conversation)
        /\ \A d \in Consoles \ {c} : console[d].conv # console[c].conv

Live(w) ==
    /\ w.conv \in 1..Len(conversation)
    /\ w.history = LastOf(Window, conversation[w.conv].messages)

(* The window of a session that has not failed is the end of its           *)
(* transcript, and what it sends is that of the question it has saved.     *)
Fit(w) ==
    /\ w.step \in Starting => w.history = <<>> /\ w.conv = None
    /\ w.step = "read" => w.newest \in 1..Len(conversation)
    /\ w.step \in Starting \cup Talking => ~w.failed
    /\ w.step \in Talking \cup {"close"} /\ ~w.failed => Live(w)
    /\ w.step = "saveUser" =>
         /\ w.sent # <<>> /\ Final(w.sent).role = "user"
         /\ w.sent = LastOf(Window, Append(w.history, Final(w.sent)))
    /\ w.step \in {"execute", "saveAnswer"} =>
         /\ w.sent = LastOf(Window, conversation[w.conv].messages)
         /\ w.sent # <<>> /\ Final(w.sent).role = "user"
         /\ conversation[w.conv].messages # <<>>
         /\ Final(conversation[w.conv].messages) = Final(w.sent)
    /\ w.lease = "known" =>
         /\ w.step = "idle"
         /\ w.conv # None => Live(w) /\ ~conversation[w.conv].open

IInv ==
    /\ TypeOK /\ OneWriter /\ AnswersFollow
    /\ \A c \in Consoles : Fit(console[c])

-----------------------------------------------------------------------------
LEMMA MessageType ==
    ASSUME NEW role \in {"user", "assistant"}, NEW n \in Nat
    PROVE  /\ Message(role, n) \in Messages
           /\ Message(role, n).role = role /\ Message(role, n).ask = n
  BY DEF Message, Messages

LEMMA WindowIs == Window \in Nat \ {0} /\ PreviousLimit \in Nat \ {0}
  BY WindowAssumption

(* The last n of s are a sequence of the last elements of s. *)
LEMMA LastOfIs ==
    ASSUME NEW S, NEW s \in Seq(S), NEW n \in Nat \ {0}
    PROVE  /\ LastOf(n, s) \in Seq(S)
           /\ Len(LastOf(n, s)) = IF Len(s) <= n THEN Len(s) ELSE n
           /\ \A i \in 1..Len(LastOf(n, s)) :
                LastOf(n, s)[i] = s[Len(s) - Len(LastOf(n, s)) + i]
<1>1. Len(s) \in Nat /\ DOMAIN s = 1..Len(s) /\ \A i \in 1..Len(s) : s[i] \in S
  OBVIOUS
<1>2. CASE Len(s) <= n
  BY <1>1, <1>2 DEF LastOf
<1>3. CASE ~(Len(s) <= n)
  <2> DEFINE m == Len(s) - n + 1
  <2>1. m \in 1..Len(s) /\ m \in Int /\ Len(s) \in Int /\ Len(s) - m + 1 = n
    BY <1>1, <1>3
  <2>2. \A i \in m..Len(s) : s[i] \in S
    BY <1>1, <2>1
  <2>3. /\ SubSeq(s, m, Len(s)) \in Seq(S)
        /\ Len(SubSeq(s, m, Len(s))) = n
        /\ \A i \in 1..n : SubSeq(s, m, Len(s))[i] = s[m + i - 1]
    <3> HIDE DEF m
    <3> QED BY <2>1, <2>2, SubSeqProperties
  <2>4. LastOf(n, s) = SubSeq(s, m, Len(s))
    BY <1>3 DEF LastOf
  <2>5. \A i \in 1..n : m + i - 1 = Len(s) - n + i
    BY <1>1
  <2> QED BY <1>3, <2>3, <2>4, <2>5
<1> QED BY <1>2, <1>3

LEMMA AppendIs ==
    ASSUME NEW S, NEW s \in Seq(S), NEW m \in S
    PROVE  /\ Append(s, m) \in Seq(S) /\ Len(Append(s, m)) = Len(s) + 1
           /\ Append(s, m)[Len(s) + 1] = m
           /\ \A i \in 1..Len(s) : Append(s, m)[i] = s[i]
           /\ Append(s, m) # <<>>
  OBVIOUS

(* The positions of a window are positions of the whole. *)
LEMMA Inside ==
    ASSUME NEW n \in Nat \ {0}, NEW ls \in Nat, NEW lt \in Nat,
           lt = IF ls <= n THEN ls ELSE n
    PROVE  /\ \A i \in 1..lt : ls - lt + i \in 1..ls
           /\ \A i \in 2..lt : /\ i \in 1..lt /\ i - 1 \in 1..lt
                              /\ ls - lt + i \in 2..ls
                              /\ ls - lt + (i - 1) = (ls - lt + i) - 1
           /\ ls - lt + lt = ls
           /\ ls # 0 => lt # 0 /\ lt \in 1..lt
  OBVIOUS

LEMMA AppendEnds ==
    ASSUME NEW S, NEW s \in Seq(S), NEW m \in S
    PROVE  Append(s, m) \in Seq(S) /\ Append(s, m) # <<>> /\ Final(Append(s, m)) = m
  BY AppendIs DEF Final

(* A window keeps all that the next window needs. *)
LEMMA WindowMoves ==
    ASSUME NEW S, NEW s \in Seq(S), NEW m \in S, NEW n \in Nat \ {0}
    PROVE  LastOf(n, Append(LastOf(n, s), m)) = LastOf(n, Append(s, m))
<1>1. PICK t \in Seq(S) : t = LastOf(n, s)
  BY LastOfIs
<1>2. PICK x \in Seq(S), y \in Seq(S) : x = Append(t, m) /\ y = Append(s, m)
  BY AppendIs
<1>3. PICK a \in Seq(S), b \in Seq(S) : a = LastOf(n, x) /\ b = LastOf(n, y)
  BY LastOfIs
<1>4. PICK ls \in Nat, lt \in Nat, la \in Nat, lb \in Nat :
        ls = Len(s) /\ lt = Len(t) /\ la = Len(a) /\ lb = Len(b)
  BY LenProperties
<1>5. /\ lt = IF ls <= n THEN ls ELSE n
      /\ \A i \in 1..lt : t[i] = s[ls - lt + i]
  BY <1>1, <1>4, LastOfIs
<1>6. Len(x) = lt + 1 /\ x[lt + 1] = m /\ \A i \in 1..lt : x[i] = t[i]
  BY <1>2, <1>4, AppendIs
<1>7. Len(y) = ls + 1 /\ y[ls + 1] = m /\ \A i \in 1..ls : y[i] = s[i]
  BY <1>2, <1>4, AppendIs
<1>8. PICK lx \in Nat, ly \in Nat : lx = lt + 1 /\ ly = ls + 1
  OBVIOUS
<1>9. /\ la = IF lx <= n THEN lx ELSE n
      /\ \A i \in 1..la : a[i] = x[lx - la + i]
      /\ lb = IF ly <= n THEN ly ELSE n
      /\ \A i \in 1..lb : b[i] = y[ly - lb + i]
  <2>1. lx = Len(x) /\ ly = Len(y)
    BY <1>6, <1>7, <1>8
  <2> QED BY <1>3, <1>4, <2>1, LastOfIs
<1>10. /\ la = lb
       /\ \A i \in 1..la :
            /\ i = la => lx - la + i = lt + 1 /\ ly - la + i = ls + 1
            /\ i # la => /\ lx - la + i \in 1..lt
                         /\ ly - la + i \in 1..ls
                         /\ ls - lt + (lx - la + i) = ly - la + i
  <2>1. /\ lt = IF ls <= n THEN ls ELSE n
        /\ la = IF lt + 1 <= n THEN lt + 1 ELSE n
        /\ lb = IF ls + 1 <= n THEN ls + 1 ELSE n
    BY <1>5, <1>8, <1>9
  <2> QED BY <1>8, <2>1
<1>11. ASSUME NEW i \in 1..la PROVE a[i] = b[i]
  <2>1. PICK j : j = lx - la + i
    OBVIOUS
  <2>2. PICK k : k = ly - la + i
    OBVIOUS
  <2>3. a[i] = x[j] /\ b[i] = y[k]
    BY <1>9, <1>10, <2>1, <2>2
  <2>4. CASE i = la
    BY <1>6, <1>7, <1>10, <2>1, <2>2, <2>3, <2>4
  <2>5. CASE i # la
    <3>1. j \in 1..lt /\ k \in 1..ls /\ ls - lt + j = k
      BY <1>10, <2>1, <2>2, <2>5
    <3> QED BY <1>5, <1>6, <1>7, <2>3, <3>1
  <2> QED BY <2>4, <2>5
<1>12. a = b
  BY <1>4, <1>10, <1>11, SeqEqual
<1> QED BY <1>1, <1>2, <1>3, <1>12

(* The newest message is in the window, at its end. *)
LEMMA WindowEnds ==
    ASSUME NEW S, NEW s \in Seq(S), NEW n \in Nat \ {0}, s # <<>>
    PROVE  /\ LastOf(n, s) \in Seq(S) /\ LastOf(n, s) # <<>>
           /\ Final(LastOf(n, s)) = Final(s)
<1>1. PICK t \in Seq(S) : t = LastOf(n, s)
  BY LastOfIs
<1>2. PICK ls \in Nat, lt \in Nat : ls = Len(s) /\ lt = Len(t)
  BY LenProperties
<1>3. /\ lt = IF ls <= n THEN ls ELSE n
      /\ \A i \in 1..lt : t[i] = s[ls - lt + i]
  BY <1>1, <1>2, LastOfIs
<1>4. ls # 0
  BY <1>2, EmptySeq
<1>5. lt # 0 /\ lt \in 1..lt /\ ls - lt + lt = ls
  BY <1>3, <1>4, Inside
<1>6. t[lt] = s[ls] /\ t # <<>>
  BY <1>2, <1>3, <1>5
<1> QED BY <1>1, <1>2, <1>6 DEF Final

LEMMA WindowInOrder ==
    ASSUME NEW s \in Seq(Messages), NEW n \in Nat \ {0}, InOrder(s)
    PROVE  LastOf(n, s) \in Seq(Messages) /\ InOrder(LastOf(n, s))
<1>1. PICK t \in Seq(Messages) : t = LastOf(n, s)
  BY LastOfIs
<1>2. PICK ls \in Nat, lt \in Nat : ls = Len(s) /\ lt = Len(t)
  BY LenProperties
<1>3. /\ lt = IF ls <= n THEN ls ELSE n
      /\ \A i \in 1..lt : t[i] = s[ls - lt + i]
  BY <1>1, <1>2, LastOfIs
<1>4. ASSUME NEW i \in 2..lt, t[i].role = "assistant"
      PROVE  t[i - 1] = Message("user", t[i].ask)
  <2>1. PICK k : k = ls - lt + i
    OBVIOUS
  <2>2. i \in 1..lt /\ i - 1 \in 1..lt /\ k \in 2..ls /\ ls - lt + (i - 1) = k - 1
    BY <1>3, <2>1, Inside
  <2>3. t[i] = s[k] /\ t[i - 1] = s[k - 1]
    BY <1>3, <2>1, <2>2
  <2> QED BY <1>2, <1>4, <2>2, <2>3 DEF InOrder
<1> QED BY <1>1, <1>2, <1>4 DEF InOrder

(* A transcript is continued by a question, or by the answer to its last.  *)
LEMMA TranscriptGrows ==
    ASSUME NEW s \in Seq(Messages), NEW m \in Messages, Transcript(s),
           \/ m.role = "user"
           \/ s # <<>> /\ Final(s).role = "user" /\ m.ask = Final(s).ask
    PROVE  Append(s, m) \in Seq(Messages) /\ Transcript(Append(s, m))
<1> DEFINE t == Append(s, m)
<1>1. /\ t \in Seq(Messages) /\ Len(t) = Len(s) + 1 /\ Len(s) \in Nat
      /\ t[Len(s) + 1] = m /\ \A i \in 1..Len(s) : t[i] = s[i]
  BY AppendIs
<1> HIDE DEF t
<1>2. s # <<>> => Len(s) >= 1
  OBVIOUS
<1>3. t[1].role = "user"
  <2>1. CASE s = <<>>
    BY <1>1, <2>1
  <2>2. CASE s # <<>>
    <3>1. 1 \in 1..Len(s)
      BY <1>1, <1>2, <2>2
    <3> QED BY <1>1, <2>2, <3>1 DEF Transcript
  <2> QED BY <2>1, <2>2
<1>4. ASSUME NEW i \in 2..Len(t), t[i].role = "assistant"
      PROVE  t[i - 1] = Message("user", t[i].ask)
  <2>1. CASE i <= Len(s)
    <3>1. i \in 2..Len(s) /\ i \in 1..Len(s) /\ i - 1 \in 1..Len(s)
      BY <1>1, <2>1
    <3> QED BY <1>1, <1>4, <3>1 DEF Transcript, InOrder
  <2>2. CASE i = Len(s) + 1
    <3>1. s # <<>> /\ Final(s).role = "user" /\ m.ask = Final(s).ask /\ t[i] = m
      BY <1>1, <1>4, <2>2
    <3>2. t[i - 1] = Final(s) /\ Final(s) \in Messages
      <4>1. Len(s) \in 1..Len(s) /\ i - 1 = Len(s)
        BY <1>1, <1>2, <2>2, <3>1
      <4> QED BY <1>1, <4>1 DEF Final
    <3> QED BY <3>1, <3>2 DEF Message, Messages
  <2> QED BY <1>1, <2>1, <2>2
<1> QED BY <1>1, <1>3, <1>4 DEF Transcript, InOrder, t

-----------------------------------------------------------------------------
LEMMA NewType ==
    /\ NewConsole \in Sessions /\ NewConsole.step = "idle" /\ NewConsole.conv = None
    /\ NewConsole.history = <<>> /\ NewConsole.previous = <<>> /\ NewConsole.lease = "none"
    /\ ~NewConsole.failed
  BY DEF NewConsole, Sessions, Steps

LEMMA NothingInOrder == InOrder(<<>>) /\ Transcript(<<>>)
  BY DEF InOrder, Transcript

LEMMA InitInv == Init => IInv
<1> SUFFICES ASSUME Init PROVE IInv
  OBVIOUS
<1>1. TypeOK
  BY NewType DEF Init, TypeOK
<1>2. OneWriter
  BY NewType DEF Init, OneWriter
<1>3. AnswersFollow
  BY NewType, NothingInOrder DEF Init, AnswersFollow
<1>4. \A c \in Consoles : Fit(console[c])
  BY NewType DEF Init, Fit, Starting, Talking
<1> QED BY <1>1, <1>2, <1>3, <1>4 DEF IInv

LEMMA NowFits ==
    ASSUME IInv, NEW c \in Consoles
    PROVE  Fit(console[c]) /\ console[c] \in Sessions /\ InOrder(console[c].previous)
  BY DEF IInv, TypeOK, AnswersFollow

LEMMA TranscriptsOK ==
    ASSUME IInv, NEW i \in 1..Len(conversation)
    PROVE  /\ conversation[i] \in Conversations /\ conversation[i].messages \in Seq(Messages)
           /\ Transcript(conversation[i].messages)
<1>1. conversation[i] \in Conversations
  BY DEF IInv, TypeOK
<1> QED BY <1>1 DEF IInv, AnswersFollow, Transcript, Conversations

(* A step of one console: it goes on as w, and may have changed its own    *)
(* conversation, or added one.                                             *)
LEMMA StepInv ==
    ASSUME IInv, NEW c \in Consoles, NEW w \in Sessions,
           console' = [console EXCEPT ![c] = w], asks' \in Nat,
           conversation' \in Seq(Conversations), Len(conversation) <= Len(conversation'),
           \A i \in 1..Len(conversation') : Transcript(conversation'[i].messages),
           InOrder(w.previous),
           \A d \in Consoles \ {c} : console[d].conv # None =>
             /\ conversation'[console[d].conv] = conversation[console[d].conv]
             /\ w.conv # console[d].conv,
           w.conv # None => w.conv \in 1..Len(conversation'),
           Fit(w)'
    PROVE  IInv'
<1> USE DEF IInv
<1>1. /\ console' \in [Consoles -> Sessions]
      /\ \A d \in Consoles : console'[d] = IF d = c THEN w ELSE console[d]
  BY DEF TypeOK
<1>2. TypeOK'
  BY <1>1 DEF TypeOK
<1>3. PICK old \in Nat, new \in Nat :
        old = Len(conversation) /\ new = Len(conversation') /\ old <= new
  BY LenProperties DEF TypeOK
<1>4. \A d \in Consoles \ {c} : console[d].conv # None =>
        console[d].conv \in 1..old /\ console[d].conv \in 1..new
  BY <1>3 DEF OneWriter
<1>5. OneWriter'
  <2> SUFFICES ASSUME NEW d \in Consoles, console'[d].conv # None
               PROVE  /\ console'[d].conv \in 1..new
                      /\ \A e \in Consoles \ {d} : console'[e].conv # console'[d].conv
    BY <1>3 DEF OneWriter
  <2> QED BY <1>1, <1>3, <1>4 DEF OneWriter
<1>6. AnswersFollow'
  BY <1>1 DEF AnswersFollow, Transcript
<1>7. ASSUME NEW d \in Consoles PROVE Fit(console[d])'
  <2>1. PICK v : v = console'[d]
    OBVIOUS
  <2>2. CASE d = c
    BY <1>1, <2>1, <2>2
  <2>3. CASE d # c
    <3>1. Fit(v) /\ v = console[d]
      BY <1>1, <2>1, <2>3
    <3>2. v.conv # None => v.conv \in 1..new /\ conversation'[v.conv] = conversation[v.conv]
      BY <1>4, <2>3, <3>1
    <3>3. Live(v) => Live(v)' /\ v.conv # None
      BY <1>3, <3>2, NoneAssumption DEF Live
    <3>4. v.step = "read" => v.newest \in 1..new
      BY <1>3, <3>1 DEF Fit
    <3>5. Fit(v)'
      BY <1>3, <3>1, <3>2, <3>3, <3>4, NoneAssumption DEF Fit, Live, Talking
    <3> QED BY <2>1, <3>5
  <2> QED BY <2>2, <2>3
<1> QED BY <1>2, <1>5, <1>6, <1>7

(* A step that leaves every conversation as it is.                         *)
LEMMA QuietStep ==
    ASSUME IInv, NEW c \in Consoles, NEW w \in Sessions,
           console' = [console EXCEPT ![c] = w], asks' \in Nat, UNCHANGED conversation,
           InOrder(w.previous), w.conv \in {None, console[c].conv}, Fit(w)'
    PROVE  IInv'
<1>1. /\ conversation' \in Seq(Conversations) /\ Len(conversation) <= Len(conversation')
      /\ \A i \in 1..Len(conversation') : Transcript(conversation'[i].messages)
  BY TranscriptsOK DEF IInv, TypeOK
<1>2. \A d \in Consoles \ {c} : console[d].conv # None =>
        /\ conversation'[console[d].conv] = conversation[console[d].conv]
        /\ w.conv # console[d].conv
  BY DEF IInv, OneWriter
<1>3. w.conv # None => w.conv \in 1..Len(conversation')
  BY DEF IInv, OneWriter
<1> QED BY <1>1, <1>2, <1>3, StepInv

LEMMA BeginInv ==
    ASSUME IInv, NEW c \in Consoles, Begin(c)
    PROVE  IInv'
<1>1. PICK w : w = [NewConsole EXCEPT !.step = "resolve", !.lease = "held"]
  OBVIOUS
<1>2. /\ w \in Sessions /\ w.step = "resolve" /\ w.lease = "held" /\ w.conv = None
      /\ w.history = <<>> /\ w.previous = <<>> /\ ~w.failed
  BY <1>1, NewType DEF Sessions, Steps
<1>3. Fit(w)'
  BY <1>2 DEF Fit, Starting, Talking
<1>4. console' = [console EXCEPT ![c] = w] /\ asks' \in Nat /\ UNCHANGED conversation
  BY <1>1 DEF Begin, IInv, TypeOK
<1> QED BY <1>2, <1>3, <1>4, NothingInOrder, QuietStep

(* The conversations with a new one, as yet empty. *)
LEMMA ConversationAdded ==
    ASSUME IInv, NEW cs, cs = Append(conversation, [messages |-> <<>>, open |-> TRUE])
    PROVE  /\ cs \in Seq(Conversations) /\ Len(cs) = Len(conversation) + 1
           /\ Len(conversation) \in Nat
           /\ cs[Len(cs)] = [messages |-> <<>>, open |-> TRUE]
           /\ \A i \in 1..Len(conversation) : cs[i] = conversation[i]
           /\ \A i \in 1..Len(cs) : Transcript(cs[i].messages)
<1>1. PICK new : new = [messages |-> <<>>, open |-> TRUE]
  OBVIOUS
<1>2. new \in Conversations /\ new.messages = <<>>
  BY <1>1, EmptySeq DEF Conversations
<1>3. /\ cs \in Seq(Conversations) /\ Len(cs) = Len(conversation) + 1
      /\ cs[Len(conversation) + 1] = new
      /\ \A i \in 1..Len(conversation) : cs[i] = conversation[i]
  BY <1>1, <1>2, AppendIs DEF IInv, TypeOK
<1>4. PICK n \in Nat : n = Len(conversation)
  BY LenProperties DEF IInv, TypeOK
<1>5. ASSUME NEW i \in 1..(n + 1) PROVE Transcript(cs[i].messages)
  <2>1. CASE i \in 1..n
    BY <1>3, <1>4, <2>1, TranscriptsOK
  <2>2. CASE i = n + 1
    BY <1>2, <1>3, <1>4, <2>2, NothingInOrder
  <2>3. i \in 1..n \/ i = n + 1
    OBVIOUS
  <2> QED BY <2>1, <2>2, <2>3
<1> QED BY <1>1, <1>3, <1>4, <1>5

(* One that begins to converse may fail, a new conversation behind it.     *)
LEMMA FailStartInv ==
    ASSUME IInv, NEW c \in Consoles, console[c].step \in Starting, FailStart(c),
           UNCHANGED asks,
           \/ UNCHANGED conversation
           \/ conversation' = Append(conversation, [messages |-> <<>>, open |-> TRUE])
    PROVE  IInv'
<1>1. PICK now \in Sessions : now = console[c]
  BY NowFits
<1>2. PICK w : w = [now EXCEPT !.step = "close", !.failed = TRUE, !.lease = "unknown"]
  OBVIOUS
<1>3. /\ w \in Sessions /\ w.step = "close" /\ w.failed /\ w.lease = "unknown"
      /\ w.conv = now.conv /\ w.previous = now.previous
  BY <1>2 DEF Sessions, Steps
<1>4. w.conv = None /\ InOrder(w.previous)
  BY <1>1, <1>3, NowFits DEF Fit
<1>5. Fit(w)'
  BY <1>3 DEF Fit, Starting, Talking
<1>6. console' = [console EXCEPT ![c] = w] /\ asks' \in Nat
  BY <1>1, <1>2 DEF FailStart, IInv, TypeOK
<1>7. CASE UNCHANGED conversation
  BY <1>3, <1>4, <1>5, <1>6, <1>7, QuietStep
<1>8. CASE conversation' = Append(conversation, [messages |-> <<>>, open |-> TRUE])
  <2>1. PICK cs : cs = conversation'
    OBVIOUS
  <2>2. /\ cs \in Seq(Conversations) /\ Len(cs) = Len(conversation) + 1
        /\ Len(conversation) \in Nat
        /\ \A i \in 1..Len(conversation) : cs[i] = conversation[i]
        /\ \A i \in 1..Len(cs) : Transcript(cs[i].messages)
    BY <1>8, <2>1, ConversationAdded
  <2>3. \A d \in Consoles \ {c} : console[d].conv # None =>
          conversation'[console[d].conv] = conversation[console[d].conv] /\ w.conv # console[d].conv
    BY <1>4, <2>1, <2>2 DEF IInv, OneWriter
  <2>4. Len(conversation) <= Len(conversation')
    BY <2>1, <2>2
  <2> QED BY <1>3, <1>4, <1>5, <1>6, <2>1, <2>2, <2>3, <2>4, StepInv
<1> QED BY <1>7, <1>8

LEMMA ResolveInv ==
    ASSUME IInv, NEW c \in Consoles, Resolve(c)
    PROVE  IInv'
<1>1. CASE FailStart(c)
  BY <1>1, FailStartInv DEF Resolve, At, Starting
<1>2. CASE console' = [console EXCEPT ![c].step = "open", ![c].resolved = TRUE]
  <2>1. PICK now \in Sessions : now = console[c]
    BY NowFits
  <2>2. PICK w : w = [now EXCEPT !.step = "open", !.resolved = TRUE]
    OBVIOUS
  <2>3. /\ w \in Sessions /\ w.step = "open" /\ w.conv = now.conv /\ w.history = now.history
        /\ w.previous = now.previous /\ w.lease = now.lease /\ w.failed = now.failed
    BY <2>2 DEF Sessions, Steps
  <2>4. /\ now.conv = None /\ now.history = <<>> /\ now.lease # "known" /\ ~now.failed
        /\ InOrder(now.previous)
    BY <2>1, NowFits DEF Resolve, At, Fit, Starting
  <2>5. Fit(w)'
    BY <2>3, <2>4 DEF Fit, Starting, Talking
  <2>6. console' = [console EXCEPT ![c] = w] /\ asks' \in Nat /\ UNCHANGED conversation
    BY <1>2, <2>1, <2>2 DEF Resolve, IInv, TypeOK
  <2> QED BY <2>3, <2>4, <2>5, <2>6, QuietStep
<1> QED BY <1>1, <1>2 DEF Resolve

(* It goes on to start, with nothing but what it knows already. *)
LEMMA GoStartInv ==
    ASSUME IInv, NEW c \in Consoles, NEW step \in {"validate", "start"},
           console[c].step \in Starting, Go(c, step), UNCHANGED <<conversation, asks>>
    PROVE  IInv'
<1>1. PICK now \in Sessions : now = console[c]
  BY NowFits
<1>2. PICK w : w = [now EXCEPT !.step = step]
  OBVIOUS
<1>3. /\ w \in Sessions /\ w.step = step /\ w.conv = now.conv /\ w.history = now.history
      /\ w.previous = now.previous /\ w.lease = now.lease /\ w.failed = now.failed
  BY <1>2 DEF Sessions, Steps
<1>4. /\ now.conv = None /\ now.history = <<>> /\ now.lease # "known" /\ ~now.failed
      /\ InOrder(now.previous)
  BY <1>1, NowFits DEF Fit, Starting
<1>5. Fit(w)'
  BY <1>3, <1>4 DEF Fit, Starting, Talking
<1>6. console' = [console EXCEPT ![c] = w] /\ asks' \in Nat /\ UNCHANGED conversation
  BY <1>1, <1>2 DEF Go, IInv, TypeOK
<1> QED BY <1>3, <1>4, <1>5, <1>6, QuietStep

LEMMA OpenInv ==
    ASSUME IInv, NEW c \in Consoles, Open(c)
    PROVE  IInv'
<1>1. CASE FailStart(c)
  BY <1>1, FailStartInv DEF Open, At, Starting
<1>2. CASE Go(c, "validate")
  BY <1>2, GoStartInv DEF Open, At, Starting
<1>3. CASE /\ conversation # <<>>
           /\ console' = [console EXCEPT ![c].step = "read", ![c].newest = Len(conversation)]
  <2>1. PICK now \in Sessions : now = console[c]
    BY NowFits
  <2>2. PICK n \in Nat : n = Len(conversation) /\ n \in 1..Len(conversation)
    BY <1>3, EmptySeq, LenProperties DEF IInv, TypeOK
  <2>3. PICK w : w = [now EXCEPT !.step = "read", !.newest = n]
    OBVIOUS
  <2>4. /\ w \in Sessions /\ w.step = "read" /\ w.newest = n /\ w.conv = now.conv
        /\ w.history = now.history /\ w.previous = now.previous /\ w.lease = now.lease
        /\ w.failed = now.failed
    BY <2>3 DEF Sessions, Steps
  <2>5. /\ now.conv = None /\ now.history = <<>> /\ now.lease # "known" /\ ~now.failed
        /\ InOrder(now.previous)
    BY <2>1, NowFits DEF Open, At, Fit, Starting
  <2>6. console' = [console EXCEPT ![c] = w] /\ asks' \in Nat /\ UNCHANGED conversation
    BY <1>3, <2>1, <2>2, <2>3 DEF Open, IInv, TypeOK
  <2>7. Fit(w)'
    BY <2>2, <2>4, <2>5, <2>6 DEF Fit, Starting, Talking
  <2> QED BY <2>4, <2>5, <2>6, <2>7, QuietStep
<1> QED BY <1>1, <1>2, <1>3 DEF Open

LEMMA ReadPreviousInv ==
    ASSUME IInv, NEW c \in Consoles, ReadPrevious(c)
    PROVE  IInv'
<1> DEFINE seen == LastOf(PreviousLimit, conversation[console[c].newest].messages)
<1>1. CASE FailStart(c)
  BY <1>1, FailStartInv DEF ReadPrevious, At, Starting
<1>2. CASE console' = [console EXCEPT ![c].step = "validate", ![c].newest = 0,
                                      ![c].previous = seen]
  <2>1. PICK now \in Sessions : now = console[c]
    BY NowFits
  <2>2. seen \in Seq(Messages) /\ InOrder(seen)
    <3>1. console[c].newest \in 1..Len(conversation)
      BY NowFits DEF ReadPrevious, At, Fit
    <3>2. PICK ms \in Seq(Messages) : ms = conversation[console[c].newest].messages /\ InOrder(ms)
      BY <3>1, TranscriptsOK DEF Transcript
    <3>3. LastOf(PreviousLimit, ms) \in Seq(Messages) /\ InOrder(LastOf(PreviousLimit, ms))
      BY <3>2, WindowInOrder, WindowIs
    <3> QED BY <3>2, <3>3
  <2> HIDE DEF seen
  <2>3. PICK ps \in Seq(Messages) : ps = seen
    BY <2>2
  <2>4. PICK w : w = [now EXCEPT !.step = "validate", !.newest = 0, !.previous = ps]
    OBVIOUS
  <2>5. /\ w \in Sessions /\ w.step = "validate" /\ w.conv = now.conv /\ w.history = now.history
        /\ w.previous = ps /\ w.lease = now.lease /\ w.failed = now.failed
    BY <2>4 DEF Sessions, Steps
  <2>6. now.conv = None /\ now.history = <<>> /\ now.lease # "known" /\ ~now.failed
    BY <2>1, NowFits DEF ReadPrevious, At, Fit, Starting
  <2>7. Fit(w)'
    BY <2>5, <2>6 DEF Fit, Starting, Talking
  <2>8. console' = [console EXCEPT ![c] = w] /\ asks' \in Nat /\ UNCHANGED conversation
    BY <1>2, <2>1, <2>3, <2>4 DEF ReadPrevious, IInv, TypeOK
  <2> QED BY <2>2, <2>3, <2>5, <2>6, <2>7, <2>8, QuietStep
<1> QED BY <1>1, <1>2 DEF ReadPrevious

LEMMA ValidateInv ==
    ASSUME IInv, NEW c \in Consoles, Validate(c)
    PROVE  IInv'
<1>1. CASE FailStart(c)
  BY <1>1, FailStartInv DEF Validate, At, Starting
<1>2. CASE Go(c, "start")
  BY <1>2, GoStartInv DEF Validate, At, Starting
<1> QED BY <1>1, <1>2 DEF Validate

LEMMA StartInv ==
    ASSUME IInv, NEW c \in Consoles, Start(c)
    PROVE  IInv'
<1>1. CASE FailStart(c)
  BY <1>1, FailStartInv DEF Start, At, Starting
<1>2. CASE /\ conversation' = Append(conversation, [messages |-> <<>>, open |-> TRUE])
           /\ console' = [console EXCEPT ![c].step = "prompt",
                                         ![c].conv = Len(conversation')]
  <2>1. PICK now \in Sessions : now = console[c]
    BY NowFits
  <2>2. PICK cs : cs = conversation'
    OBVIOUS
  <2>3. /\ cs \in Seq(Conversations) /\ Len(cs) = Len(conversation) + 1
        /\ Len(conversation) \in Nat
        /\ cs[Len(cs)] = [messages |-> <<>>, open |-> TRUE]
        /\ \A i \in 1..Len(conversation) : cs[i] = conversation[i]
        /\ \A i \in 1..Len(cs) : Transcript(cs[i].messages)
    BY <1>2, <2>2, ConversationAdded
  <2>4. PICK new \in Nat : new = Len(cs) /\ new \in 1..new /\ new \notin 1..Len(conversation)
    BY <2>3
  <2>5. PICK w : w = [now EXCEPT !.step = "prompt", !.conv = new]
    OBVIOUS
  <2>6. /\ w \in Sessions /\ w.step = "prompt" /\ w.conv = new /\ w.history = now.history
        /\ w.previous = now.previous /\ w.lease = now.lease /\ w.failed = now.failed
    BY <2>4, <2>5 DEF Sessions, Steps
  <2>7. now.history = <<>> /\ now.lease # "known" /\ ~now.failed /\ InOrder(now.previous)
    BY <2>1, NowFits DEF Start, At, Fit, Starting
  <2>8. Live(w)'
    <3>1. LastOf(Window, <<>>) = <<>>
      BY WindowAssumption DEF LastOf
    <3> QED BY <2>2, <2>3, <2>4, <2>6, <2>7, <3>1 DEF Live
  <2>9. Fit(w)'
    BY <2>6, <2>7, <2>8, NoneAssumption, <2>4 DEF Fit, Starting, Talking
  <2>10. console' = [console EXCEPT ![c] = w] /\ asks' \in Nat
    BY <1>2, <2>1, <2>2, <2>4, <2>5 DEF Start, IInv, TypeOK
  <2>11. \A d \in Consoles \ {c} : console[d].conv # None =>
           conversation'[console[d].conv] = conversation[console[d].conv] /\ w.conv # console[d].conv
    BY <2>2, <2>3, <2>4, <2>6 DEF IInv, OneWriter
  <2>12. /\ conversation' \in Seq(Conversations) /\ Len(conversation) <= Len(conversation')
         /\ \A i \in 1..Len(conversation') : Transcript(conversation'[i].messages)
         /\ w.conv \in 1..Len(conversation') /\ InOrder(w.previous)
    BY <2>2, <2>3, <2>4, <2>6, <2>7
  <2> QED BY <2>6, <2>9, <2>10, <2>11, <2>12, StepInv
<1> QED BY <1>1, <1>2 DEF Start

-----------------------------------------------------------------------------
(* One that converses: what it has, from the invariant.                    *)
LEMMA AtWork ==
    ASSUME IInv, NEW c \in Consoles, NEW now \in Sessions, now = console[c], now.step \in Talking
    PROVE  /\ ~now.failed /\ now.lease # "known" /\ InOrder(now.previous) /\ now.conv # None
           /\ now.conv \in 1..Len(conversation)
           /\ conversation[now.conv] \in Conversations
           /\ conversation[now.conv].messages \in Seq(Messages)
           /\ Transcript(conversation[now.conv].messages)
           /\ now.history = LastOf(Window, conversation[now.conv].messages)
<1>1. /\ ~now.failed /\ now.lease # "known" /\ InOrder(now.previous) /\ Live(now)
  BY NowFits DEF Fit, Talking
<1>2. PICK i \in 1..Len(conversation) : i = now.conv
  BY <1>1 DEF Live
<1>3. now.conv # None
  BY <1>2, LenProperties, NoneAssumption DEF IInv, TypeOK
<1> QED BY <1>1, <1>2, <1>3, TranscriptsOK DEF Live

(* It goes on to a step that needs no more than it has. *)
LEMMA GoInv ==
    ASSUME IInv, NEW c \in Consoles, NEW step \in {"prompt", "saveAnswer", "close", "idle"},
           Go(c, step), UNCHANGED <<conversation, asks>>, console[c].step # "idle",
           step \in {"prompt", "close"} => console[c].step \in Talking,
           step = "saveAnswer" => console[c].step = "execute"
    PROVE  IInv'
<1>1. PICK now \in Sessions : now = console[c]
  BY NowFits
<1>2. PICK w : w = [now EXCEPT !.step = step]
  OBVIOUS
<1>3. /\ w \in Sessions /\ w.step = step /\ w.conv = now.conv /\ w.history = now.history
      /\ w.sent = now.sent /\ w.previous = now.previous /\ w.lease = now.lease
      /\ w.failed = now.failed
  BY <1>2 DEF Sessions, Steps
<1>4. now.lease # "known" /\ InOrder(now.previous) /\ Fit(now)
  BY <1>1, NowFits DEF Fit
<1>5. step # "idle" => Live(w)' /\ ~w.failed
  BY <1>1, <1>3, <1>4 DEF Fit, Live, Talking
<1>6. Fit(w)'
  BY <1>1, <1>3, <1>4, <1>5 DEF Fit, Starting, Talking
<1>7. console' = [console EXCEPT ![c] = w] /\ asks' \in Nat
  BY <1>1, <1>2 DEF Go, IInv, TypeOK
<1> QED BY <1>1, <1>3, <1>4, <1>6, <1>7, QuietStep

LEMMA AskInv ==
    ASSUME IInv, NEW c \in Consoles, Ask(c)
    PROVE  IInv'
<1>1. PICK now \in Sessions : now = console[c]
  BY NowFits
<1>2. PICK m : m = Message("user", asks + 1)
  OBVIOUS
<1>3. m \in Messages /\ m.role = "user" /\ asks + 1 \in Nat
  BY <1>2, MessageType DEF IInv, TypeOK
<1>4. now.step \in Talking /\ now.history \in Seq(Messages)
  BY <1>1 DEF Ask, At, Talking, Sessions
<1>5. PICK x \in Seq(Messages) : x = Append(now.history, m) /\ x # <<>> /\ Final(x) = m
  <2>1. PICK h \in Seq(Messages) : h = now.history
    BY <1>4
  <2>2. Append(h, m) \in Seq(Messages) /\ Append(h, m) # <<>> /\ Final(Append(h, m)) = m
    BY <1>3, AppendEnds
  <2> QED BY <2>1, <2>2
<1>6. PICK sent \in Seq(Messages) : sent = LastOf(Window, x) /\ sent # <<>> /\ Final(sent) = m
  <2>1. Window \in Nat \ {0}
    BY WindowAssumption
  <2>2. /\ LastOf(Window, x) \in Seq(Messages) /\ LastOf(Window, x) # <<>>
        /\ Final(LastOf(Window, x)) = Final(x)
    BY <1>5, <2>1, WindowEnds
  <2> QED BY <1>5, <2>2
<1>7. PICK w : w = [now EXCEPT !.step = "saveUser", !.sent = sent]
  OBVIOUS
<1>8. /\ w \in Sessions /\ w.step = "saveUser" /\ w.conv = now.conv /\ w.history = now.history
      /\ w.sent = sent /\ w.previous = now.previous /\ w.lease = now.lease
      /\ w.failed = now.failed
  BY <1>7 DEF Sessions, Steps
<1>9. UNCHANGED conversation /\ asks' \in Nat
  BY <1>3 DEF Ask
<1>10. Live(w)' /\ ~w.failed /\ w.lease # "known" /\ InOrder(w.previous)
  BY <1>1, <1>4, <1>8, <1>9, AtWork DEF Live
<1>11. Fit(w)'
  BY <1>3, <1>5, <1>6, <1>8, <1>10 DEF Fit, Starting, Talking
<1>12. console' = [console EXCEPT ![c] = w]
  BY <1>1, <1>2, <1>5, <1>6, <1>7 DEF Ask, IInv, TypeOK
<1> QED BY <1>1, <1>8, <1>9, <1>10, <1>11, <1>12, QuietStep

(* A message saved: the console's own transcript grows, no other does.     *)
LEMMA SavedIs ==
    ASSUME IInv, NEW c \in Consoles, NEW now \in Sessions, now = console[c],
           now.step \in Talking, NEW m \in Messages,
           \/ m.role = "user"
           \/ /\ conversation[now.conv].messages # <<>>
              /\ Final(conversation[now.conv].messages).role = "user"
              /\ m.ask = Final(conversation[now.conv].messages).ask,
           NEW cs, cs = Saved(c, m)
    PROVE  /\ cs \in Seq(Conversations) /\ Len(cs) = Len(conversation)
           /\ Len(conversation) \in Nat
           /\ cs[now.conv].messages = Append(conversation[now.conv].messages, m)
           /\ cs[now.conv].messages \in Seq(Messages) /\ cs[now.conv].messages # <<>>
           /\ Final(cs[now.conv].messages) = m
           /\ LastOf(Window, Append(now.history, m)) = LastOf(Window, cs[now.conv].messages)
           /\ \A i \in 1..Len(conversation) : i # now.conv => cs[i] = conversation[i]
           /\ \A i \in 1..Len(cs) : Transcript(cs[i].messages)
<1>1. PICK i \in 1..Len(conversation) : i = now.conv
  BY AtWork
<1>2. PICK old \in Conversations : old = conversation[i]
  BY <1>1, AtWork
<1>3. PICK ms \in Seq(Messages) : ms = old.messages
  BY <1>2 DEF Conversations
<1>4. Transcript(ms) /\ now.history = LastOf(Window, ms)
  BY <1>1, <1>2, <1>3, AtWork
<1>5. PICK grown \in Seq(Messages) :
        grown = Append(ms, m) /\ Transcript(grown) /\ grown # <<>> /\ Final(grown) = m
  <2>1. Append(ms, m) \in Seq(Messages) /\ Append(ms, m) # <<>> /\ Final(Append(ms, m)) = m
    BY AppendEnds
  <2>2. \/ m.role = "user"
        \/ ms # <<>> /\ Final(ms).role = "user" /\ m.ask = Final(ms).ask
    BY <1>1, <1>2, <1>3
  <2>3. Transcript(Append(ms, m))
    BY <1>4, <2>2, TranscriptGrows
  <2> QED BY <2>1, <2>3
<1>6. PICK new : new = [old EXCEPT !.messages = grown]
  OBVIOUS
<1>7. new \in Conversations /\ new.messages = grown
  BY <1>6 DEF Conversations
<1>8. cs = [conversation EXCEPT ![i] = new]
  BY <1>1, <1>2, <1>3, <1>5, <1>6 DEF Saved
<1>9. /\ conversation \in Seq(Conversations)
      /\ cs \in Seq(Conversations) /\ Len(cs) = Len(conversation)
      /\ \A j \in 1..Len(conversation) : cs[j] = IF j = i THEN new ELSE conversation[j]
  BY <1>7, <1>8, ExceptSeq DEF IInv, TypeOK
<1>10. LastOf(Window, Append(now.history, m)) = LastOf(Window, grown)
  BY <1>4, <1>5, WindowMoves, WindowAssumption
<1>11. \A j \in 1..Len(cs) : Transcript(cs[j].messages)
  BY <1>5, <1>7, <1>9, TranscriptsOK
<1> QED BY <1>1, <1>2, <1>3, <1>5, <1>7, <1>9, <1>10, <1>11, LenProperties

(* A save goes through: the window moves on with the transcript. *)
LEMMA SaveInv ==
    ASSUME IInv, NEW c \in Consoles, NEW now \in Sessions, now = console[c],
           now.step \in {"saveUser", "saveAnswer"}, NEW m \in Messages, NEW step \in {"execute", "prompt"},
           \/ m.role = "user"
           \/ /\ conversation[now.conv].messages # <<>>
              /\ Final(conversation[now.conv].messages).role = "user"
              /\ m.ask = Final(conversation[now.conv].messages).ask,
           step = "execute" =>
             /\ m.role = "user" /\ now.sent # <<>> /\ Final(now.sent) = m
             /\ now.sent = LastOf(Window, Append(now.history, m)),
           conversation' = Saved(c, m), UNCHANGED asks,
           console' = [console EXCEPT ![c].step = step,
                                      ![c].history = LastOf(Window, Append(@, m))]
    PROVE  IInv'
<1>1. now.step \in Talking
  BY DEF Talking
<1>2. PICK cs : cs = conversation'
  OBVIOUS
<1>3. /\ cs \in Seq(Conversations) /\ Len(cs) = Len(conversation) /\ Len(conversation) \in Nat
      /\ cs[now.conv].messages \in Seq(Messages) /\ cs[now.conv].messages # <<>>
      /\ Final(cs[now.conv].messages) = m
      /\ LastOf(Window, Append(now.history, m)) = LastOf(Window, cs[now.conv].messages)
      /\ \A i \in 1..Len(conversation) : i # now.conv => cs[i] = conversation[i]
      /\ \A i \in 1..Len(cs) : Transcript(cs[i].messages)
  BY <1>1, <1>2, SavedIs, SMTT(60)
<1>4. PICK h \in Seq(Messages) :
        h = LastOf(Window, Append(now.history, m)) /\ h = LastOf(Window, cs[now.conv].messages)
  <2>1. PICK ms \in Seq(Messages) : ms = cs[now.conv].messages
    BY <1>3
  <2>2. Window \in Nat \ {0}
    BY WindowIs
  <2>3. LastOf(Window, ms) \in Seq(Messages)
    BY <2>2, LastOfIs
  <2> QED BY <1>3, <2>1, <2>3
<1>5. PICK w : w = [now EXCEPT !.step = step, !.history = h]
  OBVIOUS
<1>6. /\ w \in Sessions /\ w.step = step /\ w.conv = now.conv /\ w.history = h
      /\ w.sent = now.sent /\ w.previous = now.previous /\ w.lease = now.lease
      /\ w.failed = now.failed
  BY <1>5 DEF Sessions, Steps
<1>7. /\ ~now.failed /\ now.lease # "known" /\ InOrder(now.previous)
      /\ now.conv # None /\ now.conv \in 1..Len(conversation)
  BY <1>1, AtWork
<1>8. Live(w)'
  BY <1>2, <1>3, <1>4, <1>6, <1>7 DEF Live
<1>9. Fit(w)'
  BY <1>2, <1>3, <1>4, <1>6, <1>7, <1>8 DEF Fit, Starting, Talking
<1>10. console' = [console EXCEPT ![c] = w]
  BY <1>4, <1>5 DEF IInv, TypeOK
<1>11. \A d \in Consoles \ {c} : console[d].conv # None =>
         conversation'[console[d].conv] = conversation[console[d].conv] /\ w.conv # console[d].conv
  BY <1>2, <1>3, <1>6, <1>7 DEF IInv, OneWriter
<1>12. /\ conversation' \in Seq(Conversations) /\ Len(conversation) <= Len(conversation')
       /\ \A i \in 1..Len(conversation') : Transcript(conversation'[i].messages)
       /\ w.conv \in 1..Len(conversation') /\ InOrder(w.previous) /\ asks' \in Nat
  BY <1>2, <1>3, <1>6, <1>7 DEF IInv, TypeOK
<1> QED BY <1>6, <1>9, <1>10, <1>11, <1>12, StepInv

(* A save that fails poisons the session, whether or not it committed.     *)
LEMMA SaveFailsInv ==
    ASSUME IInv, NEW c \in Consoles, NEW now \in Sessions, now = console[c],
           now.step \in {"saveUser", "saveAnswer"}, NEW m \in Messages,
           \/ m.role = "user"
           \/ /\ conversation[now.conv].messages # <<>>
              /\ Final(conversation[now.conv].messages).role = "user"
              /\ m.ask = Final(conversation[now.conv].messages).ask,
           SaveFails(c, m), UNCHANGED asks
    PROVE  IInv'
<1>1. now.step \in Talking
  BY DEF Talking
<1>2. /\ now.lease # "known" /\ InOrder(now.previous)
      /\ now.conv # None /\ now.conv \in 1..Len(conversation)
  BY <1>1, AtWork
<1>3. PICK w : w = [now EXCEPT !.step = "close", !.failed = TRUE]
  OBVIOUS
<1>4. /\ w \in Sessions /\ w.step = "close" /\ w.conv = now.conv /\ w.previous = now.previous
      /\ w.lease = now.lease /\ w.failed
  BY <1>3 DEF Sessions, Steps
<1>5. Fit(w)'
  BY <1>2, <1>4 DEF Fit, Starting, Talking
<1>6. console' = [console EXCEPT ![c] = w] /\ asks' \in Nat
  BY <1>3 DEF SaveFails, IInv, TypeOK
<1>7. CASE UNCHANGED conversation
  BY <1>2, <1>4, <1>5, <1>6, <1>7, QuietStep
<1>8. CASE conversation' = Saved(c, m)
  <2>1. PICK cs : cs = conversation'
    OBVIOUS
  <2>2. /\ cs \in Seq(Conversations) /\ Len(cs) = Len(conversation) /\ Len(conversation) \in Nat
        /\ \A i \in 1..Len(conversation) : i # now.conv => cs[i] = conversation[i]
        /\ \A i \in 1..Len(cs) : Transcript(cs[i].messages)
    BY <1>1, <1>8, <2>1, SavedIs
  <2>3. \A d \in Consoles \ {c} : console[d].conv # None =>
          conversation'[console[d].conv] = conversation[console[d].conv] /\ w.conv # console[d].conv
    BY <1>2, <1>4, <2>1, <2>2 DEF IInv, OneWriter
  <2>4. /\ conversation' \in Seq(Conversations) /\ Len(conversation) <= Len(conversation')
        /\ \A i \in 1..Len(conversation') : Transcript(conversation'[i].messages)
        /\ w.conv \in 1..Len(conversation') /\ InOrder(w.previous)
    BY <1>2, <1>4, <2>1, <2>2
  <2> QED BY <1>4, <1>5, <1>6, <2>3, <2>4, StepInv
<1> QED BY <1>7, <1>8 DEF SaveFails

LEMMA SaveUserInv ==
    ASSUME IInv, NEW c \in Consoles, SaveUser(c)
    PROVE  IInv'
<1>1. PICK now \in Sessions : now = console[c] /\ now.step = "saveUser"
  BY NowFits DEF SaveUser, At
<1>2. PICK m : m = Question(c)
  OBVIOUS
<1>3. /\ now.sent # <<>> /\ m = Final(now.sent) /\ m.role = "user"
      /\ now.sent = LastOf(Window, Append(now.history, m))
  BY <1>1, <1>2, NowFits DEF Fit, Question, Final
<1>4. m \in Messages
  <2>1. PICK sent \in Seq(Messages) : sent = now.sent /\ sent # <<>>
    BY <1>3 DEF Sessions
  <2>2. Len(sent) \in 1..Len(sent)
    BY <2>1, EmptySeq
  <2> QED BY <1>3, <2>1, <2>2 DEF Final
<1>5. CASE SaveFails(c, m)
  BY <1>1, <1>3, <1>4, <1>5, SaveFailsInv DEF SaveUser
<1>6. CASE /\ conversation' = Saved(c, m)
           /\ console' = [console EXCEPT ![c].step = "execute",
                                         ![c].history = LastOf(Window, Append(@, m))]
  BY <1>1, <1>3, <1>4, <1>6, SaveInv DEF SaveUser
<1> QED BY <1>2, <1>5, <1>6 DEF SaveUser

LEMMA SaveAnswerInv ==
    ASSUME IInv, NEW c \in Consoles, SaveAnswer(c)
    PROVE  IInv'
<1>1. PICK now \in Sessions : now = console[c] /\ now.step = "saveAnswer"
  BY NowFits DEF SaveAnswer, At
<1>2. PICK m : m = Message("assistant", Question(c).ask)
  OBVIOUS
<1>3. /\ Question(c) = Final(now.sent)
      /\ conversation[now.conv].messages # <<>>
      /\ Final(conversation[now.conv].messages) = Final(now.sent)
      /\ Final(now.sent).role = "user" /\ now.sent # <<>>
  BY <1>1, NowFits DEF Fit, Question, Final
<1>4. Final(now.sent) \in Messages
  <2>1. PICK sent \in Seq(Messages) : sent = now.sent /\ sent # <<>>
    BY <1>3 DEF Sessions
  <2>2. Len(sent) \in 1..Len(sent)
    BY <2>1, EmptySeq
  <2> QED BY <2>1, <2>2 DEF Final
<1>5. m \in Messages /\ m.ask = Final(conversation[now.conv].messages).ask
  BY <1>2, <1>3, <1>4, MessageType DEF Messages
<1>6. CASE SaveFails(c, m)
  BY <1>1, <1>3, <1>5, <1>6, SaveFailsInv DEF SaveAnswer
<1>7. CASE /\ conversation' = Saved(c, m)
           /\ console' = [console EXCEPT ![c].step = "prompt",
                                         ![c].history = LastOf(Window, Append(@, m))]
  BY <1>1, <1>3, <1>5, <1>7, SaveInv DEF SaveAnswer
<1> QED BY <1>2, <1>6, <1>7 DEF SaveAnswer

LEMMA RefuseInv ==
    ASSUME IInv, NEW c \in Consoles, Refuse(c)
    PROVE  IInv'
  BY GoInv DEF Refuse, At, Talking

LEMMA ExecuteInv ==
    ASSUME IInv, NEW c \in Consoles, Execute(c)
    PROVE  IInv'
  BY GoInv DEF Execute, At, Talking

LEMMA LeaveInv ==
    ASSUME IInv, NEW c \in Consoles, Leave(c)
    PROVE  IInv'
  BY GoInv DEF Leave, Talking

LEMMA CrashInv ==
    ASSUME IInv, NEW c \in Consoles, Crash(c)
    PROVE  IInv'
  BY GoInv DEF Crash, At

(* A close that reports a known outcome has closed the conversation of a   *)
(* session that had not failed.                                            *)
LEMMA CloseInv ==
    ASSUME IInv, NEW c \in Consoles, Close(c)
    PROVE  IInv'
<1> DEFINE closed == IF console[c].conv = None THEN conversation
                     ELSE [conversation EXCEPT ![console[c].conv].open = FALSE]
<1>1. PICK clean \in BOOLEAN :
        /\ IF clean THEN conversation' = closed ELSE conversation' \in {conversation, closed}
        /\ console' = [console EXCEPT ![c].step = "idle", ![c].resolved = FALSE,
                                      ![c].lease = Outcome(c, clean)]
  BY DEF Close
<1>2. PICK now \in Sessions : now = console[c]
  BY NowFits
<1>3. PICK lease \in {"known", "unknown"} : lease = Outcome(c, clean)
  BY DEF Outcome
<1>4. lease = "known" => clean /\ ~now.failed
  BY <1>2, <1>3 DEF Outcome
<1>5. PICK w : w = [now EXCEPT !.step = "idle", !.resolved = FALSE, !.lease = lease]
  OBVIOUS
<1>6. /\ w \in Sessions /\ w.step = "idle" /\ w.conv = now.conv /\ w.history = now.history
      /\ w.previous = now.previous /\ w.lease = lease /\ w.failed = now.failed
  BY <1>5 DEF Sessions, Steps
<1>7. InOrder(now.previous) /\ (~now.failed => Live(now))
  BY <1>2, NowFits DEF Close, At, Fit, Talking
<1>8. console' = [console EXCEPT ![c] = w] /\ asks' \in Nat
  BY <1>1, <1>2, <1>3, <1>5 DEF Close, IInv, TypeOK
<1>9. CASE UNCHANGED conversation
  <2>1. CASE lease = "known" /\ now.conv # None
    <3>1. PICK i \in 1..Len(conversation) : i = now.conv
      BY <1>4, <1>7, <2>1 DEF Live
    <3>2. conversation' = [conversation EXCEPT ![i].open = FALSE]
      BY <1>1, <1>2, <1>4, <2>1, <3>1
    <3>3. conversation'[i].open = FALSE
      BY <3>1, <3>2, TranscriptsOK DEF IInv, TypeOK, Conversations
    <3>4. Fit(w)'
      BY <1>4, <1>6, <1>7, <1>9, <2>1, <3>1, <3>3 DEF Fit, Live, Starting, Talking
    <3> QED BY <1>6, <1>7, <1>8, <1>9, <1>2, <3>4, QuietStep
  <2>2. CASE ~(lease = "known" /\ now.conv # None)
    <3>1. Fit(w)'
      BY <1>6, <2>2 DEF Fit, Starting, Talking
    <3> QED BY <1>6, <1>7, <1>8, <1>9, <1>2, <3>1, QuietStep
  <2> QED BY <2>1, <2>2
<1>10. CASE now.conv # None /\ conversation' = [conversation EXCEPT ![now.conv].open = FALSE]
  <2>1. PICK i \in 1..Len(conversation) : i = now.conv
    BY <1>2, <1>10 DEF IInv, OneWriter
  <2>2. PICK old \in Conversations : old = conversation[i]
    BY <2>1, TranscriptsOK
  <2>3. PICK new : new = [old EXCEPT !.open = FALSE]
    OBVIOUS
  <2>4. new \in Conversations /\ new.messages = old.messages /\ ~new.open
    BY <2>3 DEF Conversations
  <2>5. PICK cs : cs = conversation'
    OBVIOUS
  <2>6. cs = [conversation EXCEPT ![i] = new]
    BY <1>10, <2>1, <2>2, <2>3, <2>5
  <2>7. /\ conversation \in Seq(Conversations)
        /\ cs \in Seq(Conversations) /\ Len(cs) = Len(conversation)
        /\ \A j \in 1..Len(conversation) : cs[j] = IF j = i THEN new ELSE conversation[j]
    BY <2>4, <2>6, ExceptSeq DEF IInv, TypeOK
  <2>8. \A j \in 1..Len(cs) : cs[j].messages = conversation[j].messages
    BY <2>2, <2>4, <2>7
  <2>9. \A j \in 1..Len(cs) : Transcript(cs[j].messages)
    BY <2>7, <2>8, TranscriptsOK
  <2>10. lease = "known" => Live(w)' /\ ~cs[i].open
    BY <1>4, <1>6, <1>7, <2>1, <2>4, <2>5, <2>7, <2>8 DEF Live
  <2>11. Fit(w)'
    BY <1>6, <2>1, <2>5, <2>10 DEF Fit, Starting, Talking
  <2>12. \A d \in Consoles \ {c} : console[d].conv # None =>
           conversation'[console[d].conv] = conversation[console[d].conv] /\ w.conv # console[d].conv
    BY <1>2, <1>6, <1>10, <2>1, <2>5, <2>7 DEF IInv, OneWriter
  <2>13. Len(conversation) \in Nat
    BY <2>7, LenProperties
  <2>14. /\ conversation' \in Seq(Conversations) /\ Len(conversation) <= Len(conversation')
         /\ \A j \in 1..Len(conversation') : Transcript(conversation'[j].messages)
         /\ w.conv \in 1..Len(conversation') /\ InOrder(w.previous)
    BY <1>6, <1>7, <2>1, <2>5, <2>7, <2>9, <2>13
  <2> QED BY <1>6, <1>8, <2>11, <2>12, <2>14, StepInv
<1> QED BY <1>1, <1>2, <1>9, <1>10

LEMMA NextInv ==
    ASSUME IInv, [Next]_vars
    PROVE  IInv'
<1>1. CASE UNCHANGED vars
  BY <1>1 DEF vars, IInv, TypeOK, OneWriter, AnswersFollow, Fit, Live
<1>2. CASE Next
  <2>1. PICK c \in Consoles :
          \/ Begin(c) \/ Resolve(c) \/ Open(c) \/ ReadPrevious(c) \/ Validate(c) \/ Start(c)
          \/ Ask(c) \/ Refuse(c) \/ SaveUser(c) \/ Execute(c) \/ SaveAnswer(c)
          \/ Leave(c) \/ Close(c) \/ Crash(c)
    BY <1>2 DEF Next
  <2> QED BY <2>1, BeginInv, ResolveInv, OpenInv, ReadPreviousInv, ValidateInv, StartInv, AskInv,
             RefuseInv, SaveUserInv, ExecuteInv, SaveAnswerInv, LeaveInv, CloseInv, CrashInv
<1> QED BY <1>1, <1>2

-----------------------------------------------------------------------------
(* The inductive invariant: the consoles write apart, and the window of a  *)
(* session that has not failed is the end of its transcript.               *)
THEOREM Invariant == Spec => []IInv
  BY InitInv, NextInv, PTL DEF Spec

(* What the model is sent is the end of the recorded transcript, whatever  *)
(* asks failed before (runtime.py:164-173, prompts.py:89).                 *)
THEOREM SentMatchesTranscript == Spec => []SentIsRecorded
<1>1. IInv => SentIsRecorded
  BY NowFits DEF SentIsRecorded, At, Fit, Own
<1> QED BY <1>1, Invariant, PTL

(* An answer stands right after its own question, in every transcript and  *)
(* in what a console reads of an earlier one (runtime.py:180, db.py:96).   *)
THEOREM AnswersStayInOrder == Spec => []AnswersFollow
<1>1. IInv => AnswersFollow
  BY DEF IInv
<1> QED BY <1>1, Invariant, PTL

(* A known outcome is reported of a closed conversation only, whose        *)
(* transcript is what the console saw (runtime.py:215-235).                *)
THEOREM KnownOutcomesAreTrue == Spec => []KnownOutcome
<1>1. IInv => KnownOutcome
  BY NowFits DEF KnownOutcome, Fit, Live, Own
<1> QED BY <1>1, Invariant, PTL

-----------------------------------------------------------------------------
(* The only one that writes conversation i, while it does.                 *)
Writer(c, i) == console[c].step \in Talking \cup {"close"} /\ console[c].conv = i

(* A conversation is open as long as somebody writes it.                   *)
Held ==
    \A c \in Consoles : \A i \in 1..Len(conversation) : Writer(c, i) => conversation[i].open

(* A transcript has lost nothing and has changed nothing of what it had.   *)
Grown(i) ==
    LET old == conversation[i].messages
        new == conversation'[i].messages
    IN Len(old) <= Len(new) /\ \A k \in 1..Len(old) : new[k] = old[k]

(* What a step may do to the conversations, and by whom.                   *)
Writing(i) ==
    \/ conversation'[i] = conversation[i]
    \/ \E c \in Consoles :
         /\ Writer(c, i) /\ Grown(i)
         /\ conversation'[i].open = conversation[i].open \/ ~Writer(c, i)'

Moves ==
    /\ Len(conversation) <= Len(conversation')
    /\ \A i \in 1..Len(conversation) : Writing(i)
    /\ \A i \in 1..Len(conversation') : i \in 1..Len(conversation) \/ conversation'[i].open
    /\ \A c \in Consoles : \A i \in 1..Len(conversation) : Writer(c, i)' => Writer(c, i)

(* A console becomes a writer only by Start.                               *)
LEMMA NoNewWriter ==
    ASSUME IInv, NEW c \in Consoles, NEW w, console' = [console EXCEPT ![c] = w],
           w.step \in Talking \cup {"close"} =>
             \/ w.conv = None
             \/ w.conv = console[c].conv /\ console[c].step \in Talking \cup {"close"}
             \/ w.conv \notin 1..Len(conversation)
    PROVE  \A d \in Consoles : \A i \in 1..Len(conversation) : Writer(d, i)' => Writer(d, i)
<1>1. console'[c] = w /\ \A d \in Consoles \ {c} : console'[d] = console[d]
  BY DEF IInv, TypeOK
<1>2. None \notin 1..Len(conversation)
  BY LenProperties, NoneAssumption DEF IInv, TypeOK
<1> QED BY <1>1, <1>2 DEF Writer

LEMMA FailStartMoves ==
    ASSUME IInv, NEW c \in Consoles, FailStart(c), console[c].step \in Starting
    PROVE  \A d \in Consoles : \A i \in 1..Len(conversation) : Writer(d, i)' => Writer(d, i)
<1>1. PICK now \in Sessions : now = console[c] /\ now.conv = None
  BY NowFits DEF Fit
<1>2. PICK w : w = [now EXCEPT !.step = "close", !.failed = TRUE, !.lease = "unknown"]
  OBVIOUS
<1>3. w.conv = None /\ console' = [console EXCEPT ![c] = w]
  BY <1>1, <1>2 DEF FailStart, Sessions
<1> QED BY <1>3, NoNewWriter

LEMMA GoMoves ==
    ASSUME IInv, NEW c \in Consoles, NEW step, Go(c, step),
           step \notin Talking \cup {"close"} \/ console[c].step \in Talking
    PROVE  \A d \in Consoles : \A i \in 1..Len(conversation) : Writer(d, i)' => Writer(d, i)
<1>1. PICK now \in Sessions : now = console[c]
  BY NowFits
<1>2. PICK w : w = [now EXCEPT !.step = step]
  OBVIOUS
<1>3. w.step = step /\ w.conv = now.conv /\ console' = [console EXCEPT ![c] = w]
  BY <1>1, <1>2 DEF Go, Sessions
<1> QED BY <1>1, <1>3, NoNewWriter

(* A step that keeps the conversations needs only that. *)
LEMMA QuietMoves ==
    ASSUME IInv, UNCHANGED conversation,
           \A d \in Consoles : \A i \in 1..Len(conversation) : Writer(d, i)' => Writer(d, i)
    PROVE  Moves
<1>1. PICK n \in Nat : n = Len(conversation)
  BY LenProperties DEF IInv, TypeOK
<1> QED BY <1>1 DEF Moves, Writing

LEMMA StartingMoves ==
    ASSUME IInv, NEW c \in Consoles,
           Begin(c) \/ Resolve(c) \/ Open(c) \/ ReadPrevious(c) \/ Validate(c)
    PROVE  Moves
<1>1. UNCHANGED conversation
  BY DEF Begin, Resolve, Open, ReadPrevious, Validate
<1>2. CASE FailStart(c) /\ console[c].step \in Starting
  BY <1>1, <1>2, FailStartMoves, QuietMoves
<1>3. CASE \E step \in {"validate", "start"} : Go(c, step)
  BY <1>1, <1>3, GoMoves, QuietMoves DEF Talking
<1>4. CASE \E w : console' = [console EXCEPT ![c] = w] /\ w.step \notin Talking \cup {"close"}
  BY <1>1, <1>4, NoNewWriter, QuietMoves
<1>5. PICK now \in Sessions : now = console[c]
  BY NowFits
<1>6. CASE Begin(c)
  <2>1. PICK w : w = [NewConsole EXCEPT !.step = "resolve", !.lease = "held"]
    OBVIOUS
  <2>2. w.step = "resolve" /\ console' = [console EXCEPT ![c] = w]
    BY <1>6, <2>1 DEF Begin, NewConsole
  <2> QED BY <1>4, <2>2 DEF Talking
<1>7. CASE Resolve(c) /\ ~FailStart(c)
  <2>1. PICK w : w = [now EXCEPT !.step = "open", !.resolved = TRUE]
    OBVIOUS
  <2>2. w.step = "open" /\ console' = [console EXCEPT ![c] = w]
    BY <1>5, <1>7, <2>1 DEF Resolve, Sessions
  <2> QED BY <1>4, <2>2 DEF Talking
<1>8. CASE Open(c) /\ ~FailStart(c) /\ ~Go(c, "validate")
  <2>1. PICK w : w = [now EXCEPT !.step = "read", !.newest = Len(conversation)]
    OBVIOUS
  <2>2. w.step = "read" /\ console' = [console EXCEPT ![c] = w]
    BY <1>5, <1>8, <2>1 DEF Open, Sessions
  <2> QED BY <1>4, <2>2 DEF Talking
<1>9. CASE ReadPrevious(c) /\ ~FailStart(c)
  <2>1. PICK last : last = LastOf(PreviousLimit, conversation[now.newest].messages)
    OBVIOUS
  <2>2. PICK w : w = [now EXCEPT !.step = "validate", !.newest = 0, !.previous = last]
    OBVIOUS
  <2>3. w.step = "validate" /\ console' = [console EXCEPT ![c] = w]
    BY <1>5, <1>9, <2>1, <2>2 DEF ReadPrevious, Sessions
  <2> QED BY <1>4, <2>3 DEF Talking
<1> QED BY <1>2, <1>3, <1>6, <1>7, <1>8, <1>9
        DEF Resolve, Open, ReadPrevious, Validate, At, Starting

LEMMA TalkingMoves ==
    ASSUME IInv, NEW c \in Consoles, Ask(c) \/ Refuse(c) \/ Execute(c) \/ Leave(c) \/ Crash(c)
    PROVE  Moves
<1>1. UNCHANGED conversation
  BY DEF Ask, Refuse, Execute, Leave, Crash
<1>2. CASE \E step \in {"prompt", "saveAnswer", "close"} : Go(c, step) /\ console[c].step \in Talking
  BY <1>1, <1>2, GoMoves, QuietMoves
<1>3. CASE Crash(c)
  BY <1>1, <1>3, GoMoves, QuietMoves DEF Crash, Talking
<1>4. CASE Ask(c)
  <2>1. PICK now \in Sessions : now = console[c] /\ now.step \in Talking
    BY <1>4, NowFits DEF Ask, At, Talking
  <2>2. PICK sent : sent = LastOf(Window, Append(now.history, Message("user", asks + 1)))
    OBVIOUS
  <2>3. PICK w : w = [now EXCEPT !.step = "saveUser", !.sent = sent]
    OBVIOUS
  <2>4. w.conv = now.conv /\ console' = [console EXCEPT ![c] = w]
    BY <1>4, <2>1, <2>2, <2>3 DEF Ask, Sessions
  <2> QED BY <1>1, <2>1, <2>4, NoNewWriter, QuietMoves
<1> QED BY <1>2, <1>3, <1>4 DEF Refuse, Execute, Leave, At, Talking

LEMMA StartMoves == ASSUME IInv, NEW c \in Consoles, Start(c) PROVE Moves
<1>1. PICK added : added = Append(conversation, [messages |-> <<>>, open |-> TRUE])
  OBVIOUS
<1>2. PICK n \in Nat : n = Len(conversation) /\ Len(added) = n + 1 /\ added[n + 1].open
                      /\ \A i \in 1..n : added[i] = conversation[i]
  BY <1>1, ConversationAdded
<1>3. CASE conversation' \in {conversation, added} /\ FailStart(c)
  <2>1. \A d \in Consoles : \A i \in 1..Len(conversation) : Writer(d, i)' => Writer(d, i)
    BY <1>3, FailStartMoves DEF Start, At, Starting
  <2>2. CASE UNCHANGED conversation
    BY <2>1, <2>2, QuietMoves
  <2>3. CASE conversation' = added
    <3>1. \A i \in 1..(n + 1) : i \in 1..n \/ i = n + 1
      OBVIOUS
    <3> QED BY <1>2, <2>1, <2>3, <3>1 DEF Moves, Writing
  <2> QED BY <1>3, <2>2, <2>3
<1>4. CASE conversation' = added /\ console' = [console EXCEPT ![c].step = "prompt",
                                                             ![c].conv = Len(added)]
  <2>1. PICK now \in Sessions : now = console[c]
    BY NowFits
  <2>2. PICK w : w = [now EXCEPT !.step = "prompt", !.conv = Len(added)]
    OBVIOUS
  <2>3. w.conv = n + 1 /\ console' = [console EXCEPT ![c] = w]
    BY <1>2, <1>4, <2>1, <2>2 DEF Sessions
  <2>4. w.conv \notin 1..Len(conversation)
    BY <1>2, <2>3
  <2>5. \A d \in Consoles : \A i \in 1..Len(conversation) : Writer(d, i)' => Writer(d, i)
    BY <2>3, <2>4, NoNewWriter
  <2>6. \A i \in 1..(n + 1) : i \in 1..n \/ i = n + 1
    OBVIOUS
  <2> QED BY <1>2, <1>4, <2>5, <2>6 DEF Moves, Writing
<1> QED BY <1>1, <1>3, <1>4 DEF Start

(* A save by the one writer, heard of or not. *)
LEMMA SaveMoves ==
    ASSUME IInv, NEW c \in Consoles, NEW now \in Sessions, now = console[c],
           now.step \in Talking, NEW m \in Messages,
           \/ m.role = "user"
           \/ /\ conversation[now.conv].messages # <<>>
              /\ Final(conversation[now.conv].messages).role = "user"
              /\ m.ask = Final(conversation[now.conv].messages).ask,
           conversation' \in {conversation, Saved(c, m)},
           \A d \in Consoles : \A i \in 1..Len(conversation) : Writer(d, i)' => Writer(d, i)
    PROVE  Moves
<1>1. CASE UNCHANGED conversation
  BY <1>1, QuietMoves
<1>2. CASE conversation' = Saved(c, m)
  <2>1. PICK cs : cs = conversation'
    OBVIOUS
  <2>2. PICK i \in 1..Len(conversation) : i = now.conv
    BY AtWork
  <2>3. PICK old \in Seq(Messages) : old = conversation[i].messages
    BY <2>2, AtWork
  <2>4. /\ Len(cs) = Len(conversation) /\ Len(conversation) \in Nat
        /\ cs[i].messages = Append(old, m)
        /\ \A j \in 1..Len(conversation) : j # i => cs[j] = conversation[j]
    <3>1. cs = Saved(c, m)
      BY <1>2, <2>1
    <3>2. /\ Len(cs) = Len(conversation) /\ Len(conversation) \in Nat
          /\ cs[now.conv].messages = Append(conversation[now.conv].messages, m)
          /\ \A j \in 1..Len(conversation) : j # now.conv => cs[j] = conversation[j]
      BY <3>1, SavedIs, SMTT(60)
    <3> QED BY <2>2, <2>3, <3>2
  <2>5. cs[i].open = conversation[i].open
    <3>1. PICK row \in Conversations : row = conversation[i]
      BY TranscriptsOK
    <3>2. PICK new : new = [row EXCEPT !.messages = Append(row.messages, m)]
      OBVIOUS
    <3>3. new.open = row.open
      BY <3>2 DEF Conversations
    <3>4. cs = [conversation EXCEPT ![i] = new]
      BY <1>2, <2>1, <2>2, <3>1, <3>2 DEF Saved
    <3>5. new \in Conversations
      BY <2>3, <3>1, <3>2, AppendIs DEF Conversations
    <3>6. cs[i] = new
      BY <3>4, <3>5, ExceptSeq DEF IInv, TypeOK
    <3> QED BY <3>1, <3>3, <3>6
  <2>6. Len(old) <= Len(Append(old, m)) /\ \A k \in 1..Len(old) : Append(old, m)[k] = old[k]
    BY AppendIs, LenProperties
  <2>7. Grown(i)
    BY <2>1, <2>3, <2>4, <2>6 DEF Grown
  <2>8. Writer(c, i)
    BY <2>2 DEF Writer
  <2> QED BY <2>1, <2>4, <2>5, <2>7, <2>8 DEF Moves, Writing
<1> QED BY <1>1, <1>2

LEMMA SavesMove ==
    ASSUME IInv, NEW c \in Consoles, SaveUser(c) \/ SaveAnswer(c) PROVE Moves
<1>1. PICK now \in Sessions : now = console[c] /\ now.step \in {"saveUser", "saveAnswer"}
  BY NowFits DEF SaveUser, SaveAnswer, At
<1>2. /\ now.sent # <<>> /\ Question(c) = Final(now.sent) /\ Final(now.sent).role = "user"
      /\ now.step = "saveAnswer" =>
           /\ conversation[now.conv].messages # <<>>
           /\ Final(conversation[now.conv].messages) = Final(now.sent)
  BY <1>1, NowFits DEF Fit, Question, Final
<1>3. Final(now.sent) \in Messages
  <2>1. PICK sent \in Seq(Messages) : sent = now.sent /\ sent # <<>>
    BY <1>2 DEF Sessions
  <2>2. Len(sent) \in 1..Len(sent)
    BY <2>1, EmptySeq
  <2> QED BY <2>1, <2>2 DEF Final
<1>4. PICK m : m = IF now.step = "saveUser" THEN Question(c)
                   ELSE Message("assistant", Question(c).ask)
  OBVIOUS
<1>5. /\ m \in Messages
      /\ \/ m.role = "user"
         \/ /\ conversation[now.conv].messages # <<>>
            /\ Final(conversation[now.conv].messages).role = "user"
            /\ m.ask = Final(conversation[now.conv].messages).ask
  BY <1>1, <1>2, <1>3, <1>4, MessageType DEF Messages
<1>6. /\ conversation' \in {conversation, Saved(c, m)}
      /\ \/ SaveFails(c, m)
         \/ \E step \in {"execute", "prompt"} :
              console' = [console EXCEPT ![c].step = step,
                                         ![c].history = LastOf(Window, Append(@, m))]
  BY <1>1, <1>4 DEF SaveUser, SaveAnswer, SaveFails, At
<1>7. ASSUME NEW w, console' = [console EXCEPT ![c] = w], w.conv = now.conv
      PROVE  \A d \in Consoles : \A i \in 1..Len(conversation) : Writer(d, i)' => Writer(d, i)
  BY <1>1, <1>7, NoNewWriter DEF Talking
<1>8. CASE SaveFails(c, m)
  <2>1. PICK w : w = [now EXCEPT !.step = "close", !.failed = TRUE]
    OBVIOUS
  <2>2. w.conv = now.conv /\ console' = [console EXCEPT ![c] = w]
    BY <1>1, <1>8, <2>1 DEF SaveFails, Sessions
  <2> QED BY <1>1, <1>5, <1>6, <1>7, <2>2, SaveMoves DEF Talking
<1>9. ASSUME NEW step, console' = [console EXCEPT
                                     ![c].step = step,
                                     ![c].history = LastOf(Window, Append(@, m))]
      PROVE  Moves
  <2>1. PICK window : window = LastOf(Window, Append(now.history, m))
    OBVIOUS
  <2>2. PICK w : w = [now EXCEPT !.step = step, !.history = window]
    OBVIOUS
  <2>3. w.conv = now.conv /\ console' = [console EXCEPT ![c] = w]
    BY <1>1, <1>9, <2>1, <2>2 DEF Sessions
  <2> QED BY <1>1, <1>5, <1>6, <1>7, <2>3, SaveMoves DEF Talking
<1> QED BY <1>6, <1>8, <1>9

LEMMA CloseMoves == ASSUME IInv, NEW c \in Consoles, Close(c) PROVE Moves
<1>1. PICK now \in Sessions : now = console[c] /\ now.step = "close"
  BY NowFits DEF Close, At
<1>2. PICK lease : console' = [console EXCEPT ![c].step = "idle", ![c].resolved = FALSE,
                                             ![c].lease = lease]
  BY DEF Close
<1>3. PICK w : w = [now EXCEPT !.step = "idle", !.resolved = FALSE, !.lease = lease]
  OBVIOUS
<1>4. w.step = "idle" /\ console' = [console EXCEPT ![c] = w]
  BY <1>1, <1>2, <1>3 DEF Sessions
<1>5. /\ \A d \in Consoles : \A i \in 1..Len(conversation) : Writer(d, i)' => Writer(d, i)
      /\ \A i \in 1..Len(conversation) : ~Writer(c, i)'
  <2>1. w.step \notin Talking \cup {"close"}
    BY <1>4 DEF Talking
  <2>2. console'[c] = w
    BY <1>4 DEF IInv, TypeOK
  <2> QED BY <1>4, <2>1, <2>2, NoNewWriter DEF Writer
<1>6. CASE UNCHANGED conversation
  BY <1>5, <1>6, QuietMoves
<1>7. CASE now.conv # None /\ conversation' = [conversation EXCEPT ![now.conv].open = FALSE]
  <2>1. PICK i \in 1..Len(conversation) : i = now.conv
    BY <1>1, <1>7 DEF IInv, OneWriter
  <2>2. PICK old \in Conversations : old = conversation[i]
    BY <2>1, TranscriptsOK
  <2>3. PICK new : new = [old EXCEPT !.open = FALSE]
    OBVIOUS
  <2>4. new \in Conversations /\ new.messages = old.messages
    BY <2>3 DEF Conversations
  <2>5. PICK cs : cs = conversation'
    OBVIOUS
  <2>6. cs = [conversation EXCEPT ![i] = new]
    BY <1>7, <2>1, <2>2, <2>3, <2>5
  <2>7. /\ conversation \in Seq(Conversations)
        /\ cs \in Seq(Conversations) /\ Len(cs) = Len(conversation)
        /\ \A j \in 1..Len(conversation) : cs[j] = IF j = i THEN new ELSE conversation[j]
    BY <2>4, <2>6, ExceptSeq DEF IInv, TypeOK
  <2>8. Len(conversation) \in Nat /\ Len(old.messages) \in Nat
    BY <2>7, LenProperties DEF Conversations
  <2>9. Grown(i)
    BY <2>2, <2>4, <2>5, <2>7, <2>8 DEF Grown
  <2>10. Writer(c, i)
    BY <1>1, <2>1 DEF Writer
  <2> QED BY <1>5, <2>5, <2>7, <2>8, <2>9, <2>10 DEF Moves, Writing
<1> QED BY <1>1, <1>6, <1>7 DEF Close

LEMMA NextMoves == IInv /\ [Next]_vars => Moves
<1> SUFFICES ASSUME IInv, [Next]_vars PROVE Moves
  OBVIOUS
<1>1. CASE UNCHANGED vars
  <2>1. UNCHANGED <<conversation, console>>
    BY <1>1 DEF vars
  <2> QED BY <2>1, QuietMoves DEF Writer
<1>2. CASE Next
  <2>1. PICK c \in Consoles :
          \/ Begin(c) \/ Resolve(c) \/ Open(c) \/ ReadPrevious(c) \/ Validate(c) \/ Start(c)
          \/ Ask(c) \/ Refuse(c) \/ SaveUser(c) \/ Execute(c) \/ SaveAnswer(c)
          \/ Leave(c) \/ Close(c) \/ Crash(c)
    BY <1>2 DEF Next
  <2> QED BY <2>1, StartingMoves, TalkingMoves, StartMoves, SavesMove, CloseMoves
<1> QED BY <1>1, <1>2

LEMMA NextHeld == IInv /\ Held /\ [Next]_vars => Held'
<1> SUFFICES ASSUME IInv, Held, [Next]_vars,
                    NEW c \in Consoles, NEW i \in 1..Len(conversation'), Writer(c, i)'
             PROVE  conversation'[i].open
  BY DEF Held
<1>1. Moves
  BY NextMoves
<1>2. CASE i \in 1..Len(conversation)
  <2>1. Writer(c, i) /\ conversation[i].open
    BY <1>1, <1>2 DEF Moves, Held
  <2>2. \A d \in Consoles : Writer(d, i) => d = c
    <3>1. None \notin 1..Len(conversation)
      BY LenProperties, NoneAssumption DEF IInv, TypeOK
    <3> QED BY <1>2, <2>1, <3>1 DEF Writer, IInv, OneWriter
  <2> QED BY <1>1, <1>2, <2>1, <2>2 DEF Moves, Writing
<1>3. CASE i \notin 1..Len(conversation)
  BY <1>1, <1>3 DEF Moves
<1> QED BY <1>2, <1>3

(* A conversation that some console still writes is open, whichever other   *)
(* console reads it meanwhile: LOAD_PREVIOUS takes the newest conversation, *)
(* and a closed one has its transcript for good (db.py:96-137).            *)
THEOREM WritersHoldOpen == Spec => []Held
<1>1. Init => Held
  BY DEF Init, Held
<1> QED BY <1>1, Invariant, NextHeld, PTL DEF Spec

ClosedStays ==
    \A i \in 1..Len(conversation) :
        /\ i \in 1..Len(conversation')
        /\ Grown(i)
        /\ ~conversation[i].open => conversation'[i] = conversation[i]

ClosedIsFinal == [][ClosedStays]_vars

(* No conversation is lost, no saved message ever changes, and what is      *)
(* closed stays as it is: saves whose answer got lost, failed closes and    *)
(* other consoles included (runtime.py:180-235).                           *)
THEOREM ClosedConversationsAreFinal == Spec => ClosedIsFinal
<1>1. IInv /\ Held /\ [Next]_vars => [ClosedStays]_vars
  <2> SUFFICES ASSUME IInv, Held, [Next]_vars PROVE ClosedStays
    OBVIOUS
  <2>1. Moves
    BY NextMoves
  <2>2. PICK n \in Nat : n = Len(conversation)
    BY LenProperties DEF IInv, TypeOK
  <2>3. PICK k \in Nat : k = Len(conversation')
    BY NextInv, LenProperties DEF IInv, TypeOK
  <2>4. ASSUME NEW i \in 1..Len(conversation), conversation'[i] = conversation[i]
        PROVE  Grown(i)
    <3>1. Len(conversation[i].messages) \in Nat
      BY TranscriptsOK, LenProperties DEF Conversations
    <3> QED BY <2>4, <3>1 DEF Grown
  <2>5. ASSUME NEW i \in 1..Len(conversation)
        PROVE  Grown(i) /\ (~conversation[i].open => conversation'[i] = conversation[i])
    BY <2>1, <2>4, <2>5 DEF Moves, Writing, Held
  <2>6. \A i \in 1..Len(conversation) : i \in 1..Len(conversation')
    BY <2>1, <2>2, <2>3 DEF Moves
  <2> QED BY <2>5, <2>6 DEF ClosedStays
<1> QED BY <1>1, Invariant, WritersHoldOpen, PTL DEF Spec, ClosedIsFinal
=============================================================================
