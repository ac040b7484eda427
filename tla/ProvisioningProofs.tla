------------------------- MODULE ProvisioningProofs -------------------------
(***************************************************************************)
(* Theorems of Provisioning for any number of commands with any plans.     *)
(* The inductive invariant accounts for the rows of open transactions:     *)
(* each is of one transaction, of its own statements, and what statements  *)
(* have compared is still so when the transaction commits.                 *)
(***************************************************************************)
EXTENDS Provisioning, TLAPS

Rows == UNION {[K -> [value : Values, by : Runs]] : K \in SUBSET Keys}

States == [txn : Nat, at : Nat, own : Rows]

Txn(r) == Plan[r][run[r].txn]

TypeOK == table \in Rows /\ run \in [Runs -> States]

(* A command is at a statement of one of its transactions, or at its end. *)
Placed ==
    \A r \in Runs :
        /\ run[r].txn \in 0..Len(Plan[r])
        /\ Running(r) => run[r].at \in 1..(Len(Txn(r)) + 1)
        /\ ~Running(r) => run[r].at = 1

(* Its uncommitted rows are those of its transaction. *)
OwnRows ==
    \A r \in Runs : \A k \in DOMAIN run[r].own :
        /\ Running(r) /\ run[r].own[k].by = r
        /\ \E j \in DOMAIN Txn(r) : Txn(r)[j].key = k

(* No key has two rows. *)
Apart ==
    \A r \in Runs :
        /\ DOMAIN run[r].own \cap DOMAIN table = {}
        /\ \A q \in Runs \ {r} : DOMAIN run[r].own \cap DOMAIN run[q].own = {}

(* A statement that has compared a row found it, with its value. *)
Compared ==
    \A r \in Runs : Running(r) =>
        \A j \in DOMAIN Txn(r) : j < run[r].at /\ Txn(r)[j].do # "put" =>
            Txn(r)[j].key \in Visible(r) /\ Value(r, Txn(r)[j].key) = Txn(r)[j].value

IInv == TypeOK /\ Placed /\ OwnRows /\ Apart /\ Compared /\ LeftWhole

-----------------------------------------------------------------------------
LEMMA EmptyRows == Empty \in Rows /\ DOMAIN Empty = {}
<1>1. Empty \in [{} -> [value : Values, by : Runs]]
  BY DEF Empty
<1> QED BY <1>1 DEF Rows, Empty

LEMMA StoppedState ==
    Stopped \in States /\ Stopped.txn = 0 /\ Stopped.at = 1 /\ DOMAIN Stopped.own = {}
  BY EmptyRows DEF Stopped, States

LEMMA PlanType ==
    ASSUME NEW r \in Runs
    PROVE  /\ Len(Plan[r]) \in Nat /\ DOMAIN Plan[r] = 1..Len(Plan[r]) /\ 1 \in DOMAIN Plan[r]
           /\ \A i \in DOMAIN Plan[r] :
                /\ Len(Plan[r][i]) \in Nat /\ DOMAIN Plan[r][i] = 1..Len(Plan[r][i])
                /\ \A j \in DOMAIN Plan[r][i] : Plan[r][i][j] \in Statements
<1>1. Plan[r] \in Seq(Seq(Statements)) /\ Plan[r] # <<>>
  BY PlanAssumption
<1>2. \A i \in DOMAIN Plan[r] : Plan[r][i] \in Seq(Statements)
  BY <1>1
<1>3. Len(Plan[r]) \in Nat /\ DOMAIN Plan[r] = 1..Len(Plan[r]) /\ Len(Plan[r]) # 0
  BY <1>1
<1>4. \A i \in DOMAIN Plan[r] :
        /\ Len(Plan[r][i]) \in Nat /\ DOMAIN Plan[r][i] = 1..Len(Plan[r][i])
        /\ \A j \in DOMAIN Plan[r][i] : Plan[r][i][j] \in Statements
  BY <1>2
<1> QED BY <1>3, <1>4

LEMMA InitInv == Init => IInv
<1> SUFFICES ASSUME Init PROVE IInv
  OBVIOUS
<1>1. /\ table = Empty /\ DOMAIN table = {} /\ table \in Rows
      /\ \A r \in Runs : run[r] \in States /\ run[r].txn = 0 /\ run[r].at = 1 /\ DOMAIN run[r].own = {}
      /\ run \in [Runs -> States]
  BY EmptyRows, StoppedState DEF Init
<1>2. TypeOK /\ Placed
  BY <1>1, PlanType DEF TypeOK, Placed, Running
<1>3. OwnRows /\ Apart /\ Compared
  BY <1>1 DEF OwnRows, Apart, Compared, Running
<1>4. LeftWhole
  BY <1>1 DEF LeftWhole
<1> QED BY <1>2, <1>3, <1>4 DEF IInv

(* The committed rows have not changed. *)
LEMMA WholeKept ==
    ASSUME LeftWhole, UNCHANGED table
    PROVE  LeftWhole'
  BY DEF LeftWhole

(* A command is placed if it stands still, or moves within its plan. *)
LEMMA PlacedKept ==
    ASSUME Placed, NEW r \in Runs,
           \A q \in Runs \ {r} : run'[q] = run[q],
           run'[r].txn \in 0..Len(Plan[r]),
           run'[r].txn # 0 => run'[r].at \in 1..(Len(Plan[r][run'[r].txn]) + 1),
           run'[r].txn = 0 => run'[r].at = 1
    PROVE  Placed'
  BY DEF Placed, Running, Txn

(* A command that gives up leaves nothing, and one that begins has nothing. *)
LEMMA FreshInv ==
    ASSUME IInv, NEW r \in Runs, NEW w \in States, run' = [run EXCEPT ![r] = w], UNCHANGED table,
           w.txn \in {0, 1}, w.at = 1, DOMAIN w.own = {}
    PROVE  IInv'
<1> USE DEF IInv
<1>1. /\ run' \in [Runs -> States]
      /\ \A q \in Runs : run'[q] = IF q = r THEN w ELSE run[q]
  BY DEF TypeOK
<1>2. TypeOK'
  BY <1>1 DEF TypeOK
<1>3. Placed'
  BY <1>1, PlanType DEF Placed, Running, Txn
<1>4. OwnRows'
  BY <1>1 DEF OwnRows, Running, Txn
<1>5. Apart'
  BY <1>1 DEF Apart
<1>6. Compared'
  <2> SUFFICES ASSUME NEW q \in Runs, Running(q)'
               PROVE  (\A j \in DOMAIN Txn(q) : j < run[q].at /\ Txn(q)[j].do # "put" =>
                        Txn(q)[j].key \in Visible(q) /\ Value(q, Txn(q)[j].key) = Txn(q)[j].value)'
    BY DEF Compared
  <2>1. CASE q = r
    <3>1. w.txn = 1 /\ DOMAIN Plan[r][1] = 1..Len(Plan[r][1])
      BY <1>1, <2>1, PlanType DEF Running
    <3>2. run'[q].at = 1 /\ DOMAIN Txn(q)' = 1..Len(Plan[r][1]) /\ Len(Plan[r][1]) \in Nat
      BY <1>1, <2>1, <3>1, PlanType DEF Txn
    <3>3. \A j \in DOMAIN Txn(q)' : ~(j < run'[q].at)
      BY <3>2
    <3> QED BY <3>3
  <2>2. CASE q # r
    BY <1>1, <2>2 DEF Compared, Running, Txn, Visible, Value
  <2> QED BY <2>1, <2>2
<1>7. LeftWhole'
  BY WholeKept
<1> QED BY <1>2, <1>3, <1>4, <1>5, <1>6, <1>7

(* A statement done, with the row it has compared or inserted.              *)
LEMMA StatementInv ==
    ASSUME IInv, NEW r \in Runs, Running(r), ~Ended(r), NEW w \in States,
           run' = [run EXCEPT ![r] = w], UNCHANGED table,
           w.txn = run[r].txn, w.at = run[r].at + 1,
           DOMAIN run[r].own \subseteq DOMAIN w.own,
           \A k \in DOMAIN run[r].own : w.own[k] = run[r].own[k],
           \A k \in DOMAIN w.own \ DOMAIN run[r].own :
             /\ k = Statement(r).key /\ w.own[k].by = r
             /\ k \notin DOMAIN table /\ ~Blocked(r, k),
           Statement(r).do # "put" =>
             \/ Statement(r).key \in DOMAIN table
                /\ table[Statement(r).key].value = Statement(r).value
             \/ Statement(r).key \in DOMAIN w.own \ DOMAIN table
                /\ w.own[Statement(r).key].value = Statement(r).value
    PROVE  IInv'
<1> USE DEF IInv
<1>1. /\ run' \in [Runs -> States]
      /\ \A q \in Runs : run'[q] = IF q = r THEN w ELSE run[q]
  BY DEF TypeOK
<1>2. /\ run[r].txn \in DOMAIN Plan[r] /\ Len(Txn(r)) \in Nat /\ DOMAIN Txn(r) = 1..Len(Txn(r))
      /\ run[r].at \in 1..Len(Txn(r)) /\ Statement(r) = Txn(r)[run[r].at]
  <2>1. run[r].txn \in 0..Len(Plan[r]) /\ run[r].txn # 0 /\ run[r].at \in 1..(Len(Txn(r)) + 1)
    BY DEF Placed, Running
  <2>2. run[r].txn \in DOMAIN Plan[r]
    BY <2>1, PlanType
  <2>3. Len(Txn(r)) \in Nat /\ DOMAIN Txn(r) = 1..Len(Txn(r))
    BY <2>2, PlanType DEF Txn
  <2>4. ~(run[r].at > Len(Txn(r)))
    BY DEF Ended, Txn
  <2>5. run[r].at \in 1..Len(Txn(r))
    BY <2>1, <2>3, <2>4
  <2>6. Statement(r) = Txn(r)[run[r].at]
    BY DEF Statement, Txn
  <2> QED BY <2>2, <2>3, <2>5, <2>6
<1>3. Txn(r)' = Txn(r) /\ \A q \in Runs \ {r} : Txn(q)' = Txn(q)
  BY <1>1 DEF Txn
<1>4. TypeOK'
  BY <1>1 DEF TypeOK
<1>5. Placed'
  <2>1. /\ run'[r].txn \in 0..Len(Plan[r]) /\ run'[r].txn # 0
        /\ run'[r].at \in 1..(Len(Plan[r][run'[r].txn]) + 1)
    <3>1. /\ run'[r].txn = run[r].txn /\ run'[r].at = run[r].at + 1
          /\ run[r].txn \in 0..Len(Plan[r]) /\ run[r].txn # 0
      BY <1>1 DEF Placed, Running
    <3>2. run[r].at + 1 \in 1..(Len(Txn(r)) + 1)
      BY <1>2
    <3> QED BY <3>1, <3>2 DEF Txn
  <2> QED BY <1>1, <2>1, PlacedKept
<1>6. OwnRows'
  <2> SUFFICES ASSUME NEW q \in Runs, NEW k \in DOMAIN run'[q].own
               PROVE  (/\ Running(q) /\ run[q].own[k].by = q
                       /\ \E j \in DOMAIN Txn(q) : Txn(q)[j].key = k)'
    BY DEF OwnRows
  <2>1. CASE q # r
    BY <1>1, <2>1 DEF OwnRows, Running, Txn
  <2>2. CASE q = r /\ k \in DOMAIN run[r].own
    BY <1>1, <2>2 DEF OwnRows, Running, Txn
  <2>3. CASE q = r /\ k \notin DOMAIN run[r].own
    <3>1. k = Txn(r)[run[r].at].key /\ w.own[k].by = r /\ run[r].at \in DOMAIN Txn(r)
      BY <1>1, <1>2, <2>3
    <3> QED BY <1>1, <1>3, <2>3, <3>1 DEF Running
  <2> QED BY <2>1, <2>2, <2>3
<1>7. Apart'
  BY <1>1 DEF Apart, Blocked
<1>8. Compared'
  <2> SUFFICES ASSUME NEW q \in Runs, Running(q)', NEW j \in DOMAIN Txn(q)',
                      j < run'[q].at, (Txn(q)')[j].do # "put"
               PROVE  (Txn(q)[j].key \in Visible(q) /\ Value(q, Txn(q)[j].key) = Txn(q)[j].value)'
    BY DEF Compared
  <2>1. CASE q # r
    BY <1>1, <2>1 DEF Compared, Running, Txn, Visible, Value
  <2>2. CASE q = r /\ j < run[r].at
    <3>1. Txn(r)[j].key \in Visible(r) /\ Value(r, Txn(r)[j].key) = Txn(r)[j].value
      BY <1>3, <2>2 DEF Compared
    <3> QED BY <1>1, <1>3, <2>2, <3>1 DEF Visible, Value
  <2>3. CASE q = r /\ j = run[r].at
    BY <1>1, <1>2, <1>3, <2>3 DEF Visible, Value
  <2>4. q = r => j < run[r].at \/ j = run[r].at
    BY <1>1, <1>2, <1>3 DEF States
  <2> QED BY <2>1, <2>2, <2>3, <2>4
<1>9. LeftWhole'
  BY WholeKept
<1> QED BY <1>4, <1>5, <1>6, <1>7, <1>8, <1>9

LEMMA PutRows ==
    ASSUME NEW f \in Rows, NEW k \in Keys, NEW y \in [value : Values, by : Runs]
    PROVE  /\ Put(f, k, y) \in Rows /\ DOMAIN Put(f, k, y) = DOMAIN f \cup {k}
           /\ Put(f, k, y)[k] = y
           /\ \A x \in DOMAIN f \ {k} : Put(f, k, y)[x] = f[x]
<1>1. DOMAIN f \subseteq Keys /\ \A x \in DOMAIN f : f[x] \in [value : Values, by : Runs]
  BY DEF Rows
<1>2. Put(f, k, y) \in [DOMAIN f \cup {k} -> [value : Values, by : Runs]]
  BY <1>1 DEF Put
<1>3. DOMAIN f \cup {k} \in SUBSET Keys
  BY <1>1
<1> QED BY <1>2, <1>3 DEF Rows, Put

(* The statement that a running command is at. *)
LEMMA AtStatement ==
    ASSUME IInv, NEW r \in Runs, Running(r), ~Ended(r)
    PROVE  /\ Statement(r) \in Statements /\ run[r] \in States
           /\ run[r].txn \in DOMAIN Plan[r] /\ run[r].at \in DOMAIN Txn(r)
           /\ Statement(r) = Txn(r)[run[r].at]
<1>1. run[r].txn \in DOMAIN Plan[r] /\ run[r].at \in DOMAIN Plan[r][run[r].txn]
  BY PlanType DEF IInv, Placed, Running, Txn, Ended
<1> QED BY <1>1, PlanType DEF IInv, TypeOK, Statement, Txn

LEMMA RollbackInv ==
    ASSUME IInv, NEW r \in Runs, Rollback(r), UNCHANGED table
    PROVE  IInv'
<1>1. PICK w : w = Stopped
  OBVIOUS
<1> QED BY <1>1, StoppedState, FreshInv DEF Rollback

LEMMA BeginInv ==
    ASSUME IInv, NEW r \in Runs, Begin(r)
    PROVE  IInv'
<1>1. PICK w : w = [run[r] EXCEPT !.txn = 1]
  OBVIOUS
<1>2. run[r] \in States /\ run[r].txn = 0 /\ run[r].at = 1 /\ DOMAIN run[r].own = {}
  BY DEF IInv, TypeOK, Begin, Running, Placed, OwnRows
<1>3. w \in States /\ w.txn = 1 /\ w.at = 1 /\ DOMAIN w.own = {}
  BY <1>1, <1>2 DEF States
<1> QED BY <1>1, <1>3, FreshInv DEF Begin

(* A row that was found as it should be. *)
LEMMA AdvanceInv ==
    ASSUME IInv, NEW r \in Runs, Running(r), ~Ended(r), Advance(r), UNCHANGED table,
           Statement(r).do # "put" =>
             Statement(r).key \in Visible(r) /\ Value(r, Statement(r).key) = Statement(r).value
    PROVE  IInv'
<1>1. PICK w : w = [run[r] EXCEPT !.at = run[r].at + 1]
  OBVIOUS
<1>2. /\ w \in States /\ w.txn = run[r].txn /\ w.at = run[r].at + 1 /\ w.own = run[r].own
      /\ run' = [run EXCEPT ![r] = w]
  BY <1>1, AtStatement DEF Advance, States
<1>3. Statement(r).do # "put" =>
        \/ Statement(r).key \in DOMAIN table
           /\ table[Statement(r).key].value = Statement(r).value
        \/ Statement(r).key \in DOMAIN w.own \ DOMAIN table
           /\ w.own[Statement(r).key].value = Statement(r).value
  BY <1>2 DEF Visible, Value
<1> QED BY <1>2, <1>3, StatementInv

LEMMA InsertInv ==
    ASSUME IInv, NEW r \in Runs, Running(r), ~Ended(r), Insert(r), UNCHANGED table,
           Statement(r).key \notin Visible(r), ~Blocked(r, Statement(r).key)
    PROVE  IInv'
<1>1. PICK k : k = Statement(r).key
  OBVIOUS
<1>2. PICK row : row = [value |-> Statement(r).value, by |-> r]
  OBVIOUS
<1>3. k \in Keys /\ row \in [value : Values, by : Runs] /\ run[r].own \in Rows
  BY <1>1, <1>2, AtStatement DEF Statements, States
<1>4. PICK f \in Rows : f = run[r].own
  BY <1>3
<1>5. PICK state \in States : state = run[r]
  BY DEF IInv, TypeOK
<1>6. PICK own \in Rows : own = Put(f, k, row)
  BY <1>3, <1>4, PutRows
<1>7. /\ DOMAIN own = DOMAIN f \cup {k} /\ own[k] = row
      /\ \A x \in DOMAIN f \ {k} : own[x] = f[x]
  BY <1>6 DEF Put
<1>8. PICK w : w = [state EXCEPT !.at = state.at + 1, !.own = own]
  OBVIOUS
<1>9. /\ w \in States /\ w.txn = run[r].txn /\ w.at = run[r].at + 1 /\ w.own = own
  <2>1. PICK n \in Nat : n = state.at + 1
    BY DEF States
  <2>2. w = [[state EXCEPT !.at = n] EXCEPT !.own = own]
    BY <1>8, <2>1
  <2>3. PICK moved : moved = [state EXCEPT !.at = n]
    OBVIOUS
  <2>4. moved \in States /\ moved.txn = state.txn /\ moved.at = n
    BY <2>3 DEF States
  <2>5. w = [moved EXCEPT !.own = own]
    BY <2>2, <2>3
  <2>6. w \in States /\ w.txn = moved.txn /\ w.at = moved.at /\ w.own = own
    BY <2>4, <2>5 DEF States
  <2> QED BY <1>5, <2>1, <2>4, <2>6
<1>10. run' = [run EXCEPT ![r] = w]
  BY <1>5, <1>1, <1>2, <1>4, <1>6, <1>8 DEF Insert, IInv, TypeOK
<1>11. \A x \in DOMAIN w.own \ DOMAIN run[r].own :
         /\ x = Statement(r).key /\ w.own[x].by = r
         /\ x \notin DOMAIN table /\ ~Blocked(r, x)
  BY <1>1, <1>2, <1>4, <1>7, <1>9 DEF Visible
<1>12. /\ DOMAIN run[r].own \subseteq DOMAIN w.own
       /\ \A x \in DOMAIN run[r].own : w.own[x] = run[r].own[x]
       /\ Statement(r).key \in DOMAIN w.own \ DOMAIN table
       /\ w.own[Statement(r).key].value = Statement(r).value
  BY <1>1, <1>2, <1>4, <1>7, <1>9 DEF Visible
<1> QED BY <1>9, <1>10, <1>11, <1>12, StatementInv

LEMMA SetupInv ==
    ASSUME IInv, NEW r \in Runs, Setup(r)
    PROVE  IInv'
  BY AdvanceInv, RollbackInv, InsertInv DEF Setup, Doing

LEMMA PutRowInv ==
    ASSUME IInv, NEW r \in Runs, PutRow(r)
    PROVE  IInv'
  BY AdvanceInv, InsertInv DEF PutRow, Doing

LEMMA VerifyInv ==
    ASSUME IInv, NEW r \in Runs, Verify(r)
    PROVE  IInv'
  BY AdvanceInv, RollbackInv DEF Verify, Doing

-----------------------------------------------------------------------------
(* A transaction that has reached its end has compared every row it names. *)
LEMMA EndedCompared ==
    ASSUME IInv, NEW r \in Runs, Running(r), Ended(r), NEW j \in DOMAIN Txn(r)
    PROVE  Txn(r)[j].key \in Visible(r) /\ Value(r, Txn(r)[j].key) = Txn(r)[j].value
<1> DEFINE c(n) == Txn(r)[n].key \in Visible(r) /\ Value(r, Txn(r)[n].key) = Txn(r)[n].value
<1>1. /\ run[r].txn \in DOMAIN Plan[r] /\ DOMAIN Txn(r) = 1..Len(Txn(r))
      /\ Len(Txn(r)) \in Nat /\ Txn(r)[j] \in Statements
  BY PlanType DEF IInv, Placed, Running, Txn
<1>2. \A n \in DOMAIN Txn(r) : n < run[r].at
  BY <1>1 DEF IInv, TypeOK, States, Ended, Txn
<1>3. \A n \in DOMAIN Txn(r) : Txn(r)[n].do # "put" => c(n)
  BY <1>2 DEF IInv, Compared
<1>4. CASE Txn(r)[j].do = "put"
  <2>1. PICK n \in DOMAIN Txn(r) : Verifies(Txn(r)[n], Txn(r)[j])
    BY <1>1, <1>4, PutAssumption DEF Txn
  <2>2. /\ Txn(r)[n].do = "verify" /\ Txn(r)[n].key = Txn(r)[j].key
        /\ Txn(r)[n].value = Txn(r)[j].value
    BY <2>1 DEF Verifies
  <2>3. c(n)
    BY <1>3, <2>2
  <2> QED BY <2>2, <2>3
<1> QED BY <1>3, <1>4

LEMMA CommitInv ==
    ASSUME IInv, NEW r \in Runs, Commit(r)
    PROVE  IInv'
<1> USE DEF IInv
<1>1. PICK w : w = IF run[r].txn = Len(Plan[r]) THEN Stopped
                   ELSE [Stopped EXCEPT !.txn = run[r].txn + 1]
  OBVIOUS
<1>2. run[r].txn \in DOMAIN Plan[r] /\ run[r].txn \in 1..Len(Plan[r]) /\ Len(Plan[r]) \in Nat
  BY PlanType DEF Commit, Placed, Running
<1>3. w \in States /\ w.txn \in 0..Len(Plan[r]) /\ w.at = 1 /\ DOMAIN w.own = {}
  BY <1>1, <1>2, StoppedState DEF States
<1>4. /\ run' \in [Runs -> States]
      /\ \A q \in Runs : run'[q] = IF q = r THEN w ELSE run[q]
  BY <1>1, <1>3 DEF Commit, TypeOK
<1>5. /\ DOMAIN table' = DOMAIN table \cup DOMAIN run[r].own
      /\ \A k \in DOMAIN table : table'[k] = table[k]
      /\ \A k \in DOMAIN run[r].own : table'[k] = run[r].own[k]
  BY DEF Commit, Visible, Apart
<1>6. TypeOK'
  <2>1. table \in Rows /\ run[r].own \in Rows
    BY DEF TypeOK, States
  <2>2. /\ DOMAIN table' \subseteq Keys
        /\ \A k \in DOMAIN table' : table'[k] \in [value : Values, by : Runs]
    BY <1>5, <2>1 DEF Rows
  <2>3. table' \in [DOMAIN table' -> [value : Values, by : Runs]]
    BY <2>2 DEF Commit
  <2> QED BY <1>4, <2>2, <2>3 DEF TypeOK, Rows
<1>7. Placed'
  <2>1. w.txn # 0 => w.txn \in DOMAIN Plan[r] /\ Len(Plan[r][w.txn]) \in Nat
    BY <1>3, PlanType
  <2> QED BY <1>3, <1>4, <2>1, PlacedKept
<1>8. OwnRows'
  BY <1>3, <1>4 DEF OwnRows, Running, Txn
<1>9. Apart'
  BY <1>3, <1>4, <1>5 DEF Apart
<1>10. Compared'
  <2> SUFFICES ASSUME NEW q \in Runs, Running(q)', NEW j \in DOMAIN Txn(q)',
                      j < run'[q].at, (Txn(q)')[j].do # "put"
               PROVE  (Txn(q)[j].key \in Visible(q) /\ Value(q, Txn(q)[j].key) = Txn(q)[j].value)'
    BY DEF Compared
  <2>1. CASE q = r
    <3>1. w.txn \in DOMAIN Plan[r] /\ Txn(r)' = Plan[r][w.txn]
      BY <1>3, <1>4, <2>1, PlanType DEF Running, Txn
    <3>2. j \in 1..Len(Plan[r][w.txn]) /\ j < 1
      BY <1>3, <1>4, <2>1, <3>1, PlanType
    <3> QED BY <3>1, <3>2, PlanType
  <2>2. CASE q # r
    <3>1. run'[q] = run[q] /\ Running(q) /\ Txn(q)' = Txn(q)
      BY <1>4, <2>2 DEF Running, Txn
    <3>2. Txn(q)[j].key \in Visible(q) /\ Value(q, Txn(q)[j].key) = Txn(q)[j].value
      BY <3>1 DEF Compared
    <3>3. DOMAIN run[q].own \cap DOMAIN run[r].own = {} /\ DOMAIN run[q].own \cap DOMAIN table = {}
      BY <2>2 DEF Apart
    <3> QED BY <1>5, <3>1, <3>2, <3>3 DEF Visible, Value
  <2> QED BY <2>1, <2>2
<1>11. LeftWhole'
  <2> SUFFICES ASSUME NEW q \in Runs, NEW i \in 1..Len(Plan[q]), NEW j \in 1..Len(Plan[q][i]),
                      Plan[q][i][j].key \in DOMAIN table', table'[Plan[q][i][j].key].by = q,
                      NEW n \in 1..Len(Plan[q][i])
               PROVE  /\ Plan[q][i][n].key \in DOMAIN table'
                      /\ table'[Plan[q][i][n].key].value = Plan[q][i][n].value
    BY DEF LeftWhole
  <2>1. CASE Plan[q][i][j].key \in DOMAIN table
    <3>1. table[Plan[q][i][j].key].by = q
      BY <1>5, <2>1
    <3>2. /\ Plan[q][i][n].key \in DOMAIN table
          /\ table[Plan[q][i][n].key].value = Plan[q][i][n].value
      BY <2>1, <3>1 DEF LeftWhole
    <3> QED BY <1>5, <3>2
  <2>2. CASE Plan[q][i][j].key \notin DOMAIN table
    <3>1. Plan[q][i][j].key \in DOMAIN run[r].own /\ q = r
      BY <1>5, <2>2 DEF OwnRows
    <3>2. PICK m \in DOMAIN Txn(r) : Txn(r)[m].key = Plan[q][i][j].key
      BY <3>1 DEF OwnRows
    <3>3. i \in DOMAIN Plan[r] /\ j \in DOMAIN Plan[r][i] /\ n \in DOMAIN Plan[r][i]
      BY <3>1, PlanType
    <3>4. i = run[r].txn
      BY <1>2, <3>1, <3>2, <3>3, KeysAssumption DEF Txn
    <3>5. /\ Plan[q][i][n].key \in Visible(r)
          /\ Value(r, Plan[q][i][n].key) = Plan[q][i][n].value
      BY <3>1, <3>3, <3>4, EndedCompared DEF Commit, Txn
    <3> QED BY <1>5, <3>5 DEF Visible, Value
  <2> QED BY <2>1, <2>2
<1> QED BY <1>6, <1>7, <1>8, <1>9, <1>10, <1>11

LEMMA NextInv == IInv /\ [Next]_vars => IInv'
<1> SUFFICES ASSUME IInv, [Next]_vars PROVE IInv'
  OBVIOUS
<1>1. CASE UNCHANGED <<table, run>>
  <2>1. TypeOK' /\ Placed' /\ OwnRows' /\ Apart'
    BY <1>1 DEF IInv, TypeOK, Placed, OwnRows, Apart, Running, Txn
  <2>2. Compared'
    BY <1>1 DEF IInv, Compared, Running, Txn, Visible, Value
  <2> QED BY <1>1, <2>1, <2>2, WholeKept DEF IInv
<1>2. ASSUME NEW r \in Runs, LockTimeout(r) \/ Fail(r) PROVE IInv'
  BY <1>2, RollbackInv DEF LockTimeout, Fail
<1> QED BY <1>1, <1>2, BeginInv, SetupInv, PutRowInv, VerifyInv, CommitInv
     DEF Next, Work, Disable, vars

-----------------------------------------------------------------------------
(* The invariant of the theorem below. *)
THEOREM Invariant == Spec => []IInv
<1> QED BY InitInv, NextInv, PTL DEF Spec

(* Whatever number of commands overlap, fail and are repeated, a           *)
(* transaction that left a row behind left them all, with the values       *)
(* configured for it, and one that commits, having inserted rows or only   *)
(* found them, sees them all (setup.py:37-163, register_runtime.py:22-50). *)
THEOREM TransactionsAreWhole == Spec => []WholeTransactions
<1>1. IInv => WholeTransactions
  <2> SUFFICES ASSUME IInv PROVE EndsRight
    BY DEF IInv, WholeTransactions
  <2>1. ASSUME NEW r \in Runs, Running(r), Ended(r), NEW j \in 1..Len(Plan[r][run[r].txn])
        PROVE  /\ Txn(r)[j].key \in Visible(r)
               /\ Value(r, Txn(r)[j].key) = Txn(r)[j].value
    <3>1. j \in DOMAIN Txn(r)
      BY <2>1, PlanType DEF IInv, Placed, Running, Txn
    <3> QED BY <2>1, <3>1, EndedCompared
  <2> QED BY <2>1 DEF EndsRight, Txn
<1> QED BY <1>1, Invariant, PTL

(* A key that once named an identity names it for ever: what old instances *)
(* and conversations refer to is never given another meaning               *)
(* (register_runtime.py:3-4).                                              *)
NeverRepointed ==
    [][\A k \in DOMAIN table : k \in DOMAIN table' /\ table'[k] = table[k]]_vars

(* No step of any command gives a key that has an identity another one     *)
(* (register_runtime.py:3-4).                                              *)
THEOREM IdentitiesAreFinal == Spec => NeverRepointed
<1>1. ASSUME [Next]_vars
      PROVE  [\A k \in DOMAIN table : k \in DOMAIN table' /\ table'[k] = table[k]]_vars
  <2>1. ASSUME NEW r \in Runs, Commit(r)
        PROVE  \A k \in DOMAIN table : k \in DOMAIN table' /\ table'[k] = table[k]
    BY <2>1 DEF Commit, Visible
  <2>2. ASSUME NEW r \in Runs, Begin(r) \/ Setup(r) \/ PutRow(r) \/ Verify(r) \/ LockTimeout(r) \/ Fail(r)
        PROVE  UNCHANGED table
    BY <2>2 DEF Begin, Setup, PutRow, Verify, LockTimeout, Fail
  <2> QED BY <1>1, <2>1, <2>2 DEF Next, Work, Disable
<1> QED BY <1>1, PTL DEF Spec, NeverRepointed
=============================================================================
