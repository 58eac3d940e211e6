----------------------------- MODULE Transactions -----------------------------
(***************************************************************************)
(* SaveSyncedData and NewDrip statement by statement, with the transaction *)
(* the database keeps for them, the connection that may break, and the     *)
(* context under which it was begun.                                       *)
(*                                                                         *)
(* Both functions mean to roll back in a deferred function, if `err` is    *)
(* set.  That is the error of BeginTx: those of the statements have        *)
(* variables of their own, and the one of Commit has none.  What rolls     *)
(* back is the driver, when the context ends, which it does because the    *)
(* callers of both functions cancel it when they return.                   *)
(***************************************************************************)
EXTENDS Naturals, Sequences

CONSTANT MaxRows \* bound: the deposits that are saved with one range

ASSUME TransactionsAssumption == MaxRows \in Nat

Writers == {"SaveSyncedData", "NewDrip"}

\* The statements of a call: one for each deposit and one for the height; the
\* drip, if there is one, and the status of its deposit.
Plans(w) ==
  IF w = "SaveSyncedData"
  THEN {[i \in 1..n + 1 |-> IF i <= n THEN "insert deposit" ELSE "update height"] : n \in 0..MaxRows}
  ELSE {<<"update status">>, <<"insert drip", "update status">>}

VARIABLES
  plan,    \* plan[w]: the statements of the call under way
  at,      \* at[w]: which of them is next
  result,  \* result[w]: "running", or what the caller was told
  ctx,     \* ctx[w]: whether the context of the call is live
  tx,      \* DB: tx[w]: whether a transaction is open
  pending, \* DB: pending[w]: the statements it has executed
  tables   \* DB: tables[w]: those that can be seen by others

callVars == <<plan, at, result>>
dbVars   == <<tx, pending, tables>>
vars     == <<callVars, ctx, dbVars>>

All(w) == DOMAIN plan[w]
Told(w, r) == result' = [result EXCEPT ![w] = r]
Over(w) == tx' = [tx EXCEPT ![w] = FALSE] /\ pending' = [pending EXCEPT ![w] = {}]

-----------------------------------------------------------------------------
(* The two functions *)

\* Bound: the transaction of the call before, minutes ago, is over.
Begin(w) ==
  /\ result[w] # "running" /\ ~tx[w]
  /\ \E p \in Plans(w) : plan' = [plan EXCEPT ![w] = p]
  /\ at' = [at EXCEPT ![w] = 1] /\ Told(w, "running")
  /\ ctx' = [ctx EXCEPT ![w] = TRUE]
  /\ tx' = [tx EXCEPT ![w] = TRUE]
  /\ tables' = [tables EXCEPT ![w] = {}]  \* this call's part of the tables
  /\ UNCHANGED pending

\* Mutant: a statement is executed outside of the transaction.
ExecuteOutside(w) ==
  /\ result[w] = "running" /\ at[w] \in All(w) /\ tx[w] /\ ctx[w]
  /\ tables' = [tables EXCEPT ![w] = @ \cup {at[w]}]
  /\ at' = [at EXCEPT ![w] = @ + 1]
  /\ UNCHANGED <<plan, result, ctx, tx, pending>>

Execute(w) ==
  /\ result[w] = "running" /\ at[w] \in All(w) /\ tx[w] /\ ctx[w]
  /\ pending' = [pending EXCEPT ![w] = @ \cup {at[w]}]
  /\ at' = [at EXCEPT ![w] = @ + 1]
  /\ UNCHANGED <<plan, result, ctx, tx, tables>>

\* A statement fails: the function returns, and the transaction stays open.
ExecuteFails(w) ==
  /\ result[w] = "running" /\ at[w] \in All(w)
  /\ Told(w, "error")
  /\ UNCHANGED <<plan, at, ctx, dbVars>>

Commit(w) ==
  /\ result[w] = "running" /\ at[w] \notin All(w) /\ tx[w] /\ ctx[w]
  /\ tables' = [tables EXCEPT ![w] = pending[w]]
  /\ Over(w)
  /\ Told(w, "ok")
  /\ UNCHANGED <<plan, at, ctx>>

\* The database commits, and the answer is lost.
CommitLosesAck(w) ==
  /\ result[w] = "running" /\ at[w] \notin All(w) /\ tx[w] /\ ctx[w]
  /\ tables' = [tables EXCEPT ![w] = pending[w]]
  /\ Over(w)
  /\ Told(w, "lost")
  /\ UNCHANGED <<plan, at, ctx>>

\* The commit does not reach the database; if it was not even tried because the
\* context has ended, the transaction is still open.
CommitFails(w) ==
  /\ result[w] = "running" /\ at[w] \notin All(w)
  /\ Told(w, "error")
  /\ IF ctx[w] THEN Over(w) ELSE UNCHANGED <<tx, pending>>
  /\ UNCHANGED <<plan, at, ctx, tables>>

Call(w) == \/ Execute(w) \/ ExecuteFails(w)
           \/ Commit(w) \/ CommitLosesAck(w) \/ CommitFails(w)

-----------------------------------------------------------------------------
(* Context, driver, database *)

\* The time is over, or the caller has returned and its deferred cancel runs.
ContextEnds(w) ==
  /\ ctx[w]
  /\ ctx' = [ctx EXCEPT ![w] = FALSE]
  /\ UNCHANGED <<callVars, dbVars>>

\* Mutant: the transaction is begun without the context of the call.
RollBackNever(w) == FALSE /\ UNCHANGED vars

\* The driver rolls a transaction back whose context has ended.
RollBack(w) ==
  /\ ~ctx[w] /\ tx[w]
  /\ Over(w)
  /\ UNCHANGED <<callVars, ctx, tables>>

\* The connection breaks, and the database rolls back.
Disconnect(w) ==
  /\ tx[w]
  /\ Over(w)
  /\ UNCHANGED <<callVars, ctx, tables>>

Init ==
  /\ plan = [w \in Writers |-> << >>] /\ at = [w \in Writers |-> 1]
  /\ result = [w \in Writers |-> "none"] /\ ctx = [w \in Writers |-> FALSE]
  /\ tx = [w \in Writers |-> FALSE] /\ pending = [w \in Writers |-> {}]
  /\ tables = [w \in Writers |-> {}]

\* The process ends, and the database rolls back what it had open.
Crash ==
  /\ result' = [w \in Writers |-> "none"] /\ ctx' = [w \in Writers |-> FALSE]
  /\ tx' = [w \in Writers |-> FALSE] /\ pending' = [w \in Writers |-> {}]
  /\ UNCHANGED <<plan, at, tables>>

Next == \/ Crash
        \/ \E w \in Writers : \/ Begin(w) \/ Call(w)
                              \/ ContextEnds(w) \/ RollBack(w) \/ Disconnect(w)

Spec == Init /\ [][Next]_vars

\* A call ends, its caller's cancel runs, and the driver looks at the context.
Fairness == \A w \in Writers : /\ WF_vars(Call(w))
                               /\ WF_vars(ContextEnds(w) /\ result[w] # "running")
                               /\ WF_vars(RollBack(w))

FairSpec == Spec /\ Fairness

-----------------------------------------------------------------------------
(* Properties *)

TypeOK ==
  /\ plan \in [Writers -> Seq({"insert deposit", "update height", "insert drip", "update status"})]
  /\ at \in [Writers -> Nat]
  /\ pending \in [Writers -> SUBSET Nat] /\ tables \in [Writers -> SUBSET Nat]
  /\ \A w \in Writers : /\ at[w] \in 1..Len(plan[w]) + 1
                        /\ pending[w] \subseteq All(w) /\ tables[w] \subseteq All(w)
                        /\ ~tx[w] => pending[w] = {}
  /\ result \in [Writers -> {"none", "running", "ok", "error", "lost"}]
  /\ ctx \in [Writers -> BOOLEAN] /\ tx \in [Writers -> BOOLEAN]

\* In the tables there is all of a call or nothing; a part is neither.
Saved(w) == IF tables[w] = {} THEN FALSE
            ELSE IF tables[w] = All(w) THEN TRUE ELSE "part"

Atomic == INSTANCE AtomicWrite WITH saved <- [w \in Writers |-> Saved(w)]

\* Rows and cursor, or drip and status, appear together or not at all, and after
\* an error nothing of them appears later, although no function rolls back.
WritesAreAtomic == Atomic!Spec

\* Every transaction ends and gives its locks and its connection back, also when
\* a statement has failed and the function has left it open.
TransactionEnds == \A w \in Writers : tx[w] ~> ~tx[w]
=============================================================================
