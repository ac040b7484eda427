---------------------------- MODULE Provisioning ----------------------------
(***************************************************************************)
(* The operator's commands that create identities: setup.py (project,      *)
(* human, agent, membership, application), register_runtime.py (host and   *)
(* model) and the registration of models in model_settings.py.  Each runs  *)
(* its transactions a statement at a time; several may run at once, die    *)
(* and be run again.  A row an open transaction has inserted is seen by it *)
(* alone, and makes an insert of the same key wait: until the transaction  *)
(* ends, or until lock_timeout ends the wait (db.py:30).                   *)
(*                                                                         *)
(* A key names a row of one of the tables; a value is the identity that a  *)
(* command compares (names, a served model, the agent's project).          *)
(***************************************************************************)
EXTENDS Integers, Sequences, Tables

CONSTANTS
    Runs,       \* the commands, each with its configuration
    Keys, Values,
    Plan        \* run -> its transactions, each a sequence of statements

Statements == [do : {"setup", "put", "verify"}, key : Keys, value : Values]

ASSUME PlanAssumption ==
    Plan \in [Runs -> Seq(Seq(Statements))] /\ \A r \in Runs : Plan[r] # <<>>

Verifies(v, s) == v.do = "verify" /\ v.key = s.key /\ v.value = s.value

(* What is put is compared before the transaction ends. *)
ASSUME PutAssumption ==
    \A r \in Runs : \A i \in DOMAIN Plan[r] : \A j \in DOMAIN Plan[r][i] :
        Plan[r][i][j].do = "put" =>
            \E n \in DOMAIN Plan[r][i] :
                n > j /\ Verifies(Plan[r][i][n], Plan[r][i][j])

(* Each transaction of a command is about tables of its own. *)
ASSUME KeysAssumption ==
    \A r \in Runs : \A i1, i2 \in DOMAIN Plan[r] :
        \A j1 \in DOMAIN Plan[r][i1], j2 \in DOMAIN Plan[r][i2] :
            Plan[r][i1][j1].key = Plan[r][i2][j2].key => i1 = i2

Flagged ==
    {k \in Keys : \E r \in Runs : \E i \in 1..Len(Plan[r]) : \E j \in 1..Len(Plan[r][i]) :
        Plan[r][i][j].do = "verify" /\ Plan[r][i][j].key = k}

VARIABLES
    table,      \* the committed rows: key -> [value, by]
    disabled,   \* rows that an operator disabled
    run         \* per run: [txn, at, own]; txn 0 when it does not run

vars == <<table, disabled, run>>

Stopped == [txn |-> 0, at |-> 1, own |-> Empty]

Running(r) == run[r].txn # 0
Ended(r) == run[r].at > Len(Plan[r][run[r].txn])
Statement(r) == Plan[r][run[r].txn][run[r].at]

(* What r sees: committed rows and its own. *)
Visible(r) == DOMAIN table \cup DOMAIN run[r].own
Value(r, k) == IF k \in DOMAIN table THEN table[k].value ELSE run[r].own[k].value

(* Another transaction has inserted this key and not ended. *)
Blocked(r, k) == \E q \in Runs \ {r} : k \in DOMAIN run[q].own

Rollback(r) == run' = [run EXCEPT ![r] = Stopped]

Advance(r) == run' = [run EXCEPT ![r].at = @ + 1]

Insert(r) ==
    run' = [run EXCEPT ![r].at = @ + 1,
                       ![r].own = Put(@, Statement(r).key,
                                      [value |-> Statement(r).value, by |-> r])]

-----------------------------------------------------------------------------
Init ==
    /\ table = Empty
    /\ disabled = {}
    /\ run = [r \in Runs |-> Stopped]

Begin(r) ==
    /\ ~Running(r)
    /\ run' = [run EXCEPT ![r].txn = 1]
    /\ UNCHANGED <<table, disabled>>

Doing(r, do) == Running(r) /\ ~Ended(r) /\ Statement(r).do = do

(* setup_identity: the row, if there is one, must be what is configured; a *)
(* missing one is inserted.  The read and the insert are one step, so that *)
(* a command that waited for a row that was committed may find it; in the  *)
(* code, whose read came before, it is a unique violation, which is Fail.  *)
Setup(r) ==
    LET k == Statement(r).key
    IN /\ Doing(r, "setup")
       /\ \/ k \in Visible(r) /\ Value(r, k) = Statement(r).value /\ Advance(r)
          \/ k \in Visible(r) /\ Value(r, k) # Statement(r).value /\ Rollback(r)
          \/ k \notin Visible(r) /\ ~Blocked(r, k) /\ Insert(r)
       /\ UNCHANGED <<table, disabled>>

MutantUpsert(r) ==
    LET k == Statement(r).key
    IN /\ Doing(r, "put") /\ ~Blocked(r, k)
       /\ IF k \in DOMAIN table
          THEN /\ table' = [table EXCEPT ![k].value = Statement(r).value]
               /\ Advance(r)
          ELSE Insert(r) /\ UNCHANGED table
       /\ UNCHANGED disabled

(* INSERT ... ON CONFLICT DO NOTHING, once no other transaction holds the  *)
(* key, and the comparison that follows it.                                *)
PutRow(r) ==
    LET k == Statement(r).key
    IN /\ Doing(r, "put") /\ ~Blocked(r, k)
       /\ IF k \in Visible(r) THEN Advance(r) ELSE Insert(r)
       /\ UNCHANGED <<table, disabled>>

Verify(r) ==
    LET k == Statement(r).key
    IN /\ Doing(r, "verify")
       /\ IF k \in Visible(r) \ disabled /\ Value(r, k) = Statement(r).value
          THEN Advance(r) ELSE Rollback(r)
       /\ UNCHANGED <<table, disabled>>

Commit(r) ==
    /\ Running(r) /\ Ended(r)
    /\ table' = [k \in Visible(r) |-> IF k \in DOMAIN table THEN table[k] ELSE run[r].own[k]]
    /\ run' = [run EXCEPT ![r] =
                 IF run[r].txn = Len(Plan[r]) THEN Stopped ELSE [Stopped EXCEPT !.txn = run[r].txn + 1]]
    /\ UNCHANGED disabled

(* A crash, a lost connection or a unique violation. *)
Fail(r) ==
    /\ Running(r)
    /\ Rollback(r)
    /\ UNCHANGED <<table, disabled>>

MutantWaitsForEver(r) == FALSE

(* Of what ends a wait for another's row (db.py:30), this alone is here:   *)
(* the deadlock detector and the statement timeout end it in the same way. *)
LockTimeout(r) ==
    /\ Running(r) /\ ~Ended(r) /\ Blocked(r, Statement(r).key)
    /\ Rollback(r)
    /\ UNCHANGED <<table, disabled>>

(* An operator's flag on a host or a model; setup reads no such flag. *)
Disable(k) ==
    /\ k \in DOMAIN table \cap Flagged
    /\ disabled' = IF k \in disabled THEN disabled \ {k} ELSE disabled \cup {k}
    /\ UNCHANGED <<table, run>>

Work(r) == Setup(r) \/ PutRow(r) \/ Verify(r) \/ Commit(r)

Next ==
    \/ \E r \in Runs : Begin(r) \/ Work(r) \/ LockTimeout(r) \/ Fail(r)
    \/ \E k \in Keys : Disable(k)

Spec == Init /\ [][Next]_vars

(* A started command goes on by itself: each of its statements is answered *)
(* or is ended by its time limit, if nothing else ends it before.          *)
Fairness == \A r \in Runs : WF_vars(Work(r) \/ LockTimeout(r))

FairSpec == Spec /\ Fairness

-----------------------------------------------------------------------------
(* All or nothing: where a transaction left one row behind, every row it   *)
(* names is there, with the value configured for it.                       *)
LeftWhole ==
    \A r \in Runs : \A i \in 1..Len(Plan[r]) :
        (\E j \in 1..Len(Plan[r][i]) :
            Plan[r][i][j].key \in DOMAIN table /\ table[Plan[r][i][j].key].by = r)
        => \A j \in 1..Len(Plan[r][i]) :
             /\ Plan[r][i][j].key \in DOMAIN table
             /\ table[Plan[r][i][j].key].value = Plan[r][i][j].value

(* A transaction about to commit, with rows of its own or with none, sees  *)
(* every row it names, with the value configured for it.                   *)
EndsRight ==
    \A r \in Runs : Running(r) /\ Ended(r) =>
        \A j \in 1..Len(Plan[r][run[r].txn]) :
            LET s == Plan[r][run[r].txn][j]
            IN s.key \in Visible(r) /\ Value(r, s.key) = s.value

(* A command never succeeds over other identities than those configured,   *)
(* nor leaves a part of them, however the commands overlapped, failed or   *)
(* were repeated, and whether it inserted the rows or found them           *)
(* (setup.py:37-163, register_runtime.py:22-50, model_settings.py:177-189).*)
WholeTransactions == LeftWhole /\ EndsRight

(* Commands that wait for each other's rows, even in a circle, all come to *)
(* an end (model_settings.py:178 takes its models in the order of the      *)
(* registry, which another process may have in another order).             *)
CommandsEnd == \A r \in Runs : Running(r) ~> ~Running(r)
=============================================================================
