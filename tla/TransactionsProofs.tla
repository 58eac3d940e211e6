-------------------------- MODULE TransactionsProofs --------------------------
(***************************************************************************)
(* The transactions of the repository implement atomic writes, for any     *)
(* number of rows.                                                         *)
(***************************************************************************)
EXTENDS Transactions, SequenceTheorems, TLAPS

-----------------------------------------------------------------------------
(* The inductive invariant *)

\* What an open transaction has executed while its call is running: all
\* statements before the next one.
Executed ==
  \A w \in Writers : result[w] = "running" =>
    /\ plan[w] # << >>
    /\ tx[w] => pending[w] = 1..at[w] - 1

\* Nothing of a call is in the tables before it is told so, nor after an error.
NothingEarly ==
  \A w \in Writers : result[w] \in {"running", "error"} => tables[w] = {}

WriteInv == TypeOK /\ Executed /\ NothingEarly

Statement == {"insert deposit", "update height", "insert drip", "update status"}

\* A call has a statement at least.
LEMMA PlanIsSequence ==
  ASSUME NEW w \in Writers, NEW p \in Plans(w)
  PROVE  p \in Seq(Statement) /\ p # << >>
<1>1. CASE w = "SaveSyncedData"
  <2>1. PICK n \in 0..MaxRows :
          p = [i \in 1..n + 1 |-> IF i <= n THEN "insert deposit" ELSE "update height"]
    BY <1>1 DEF Plans
  <2>2. n + 1 \in Nat /\ 1 \in 1..n + 1
    BY TransactionsAssumption
  <2>3. p \in [1..n + 1 -> Statement]
    BY <2>1 DEF Statement
  <2>4. p \in Seq(Statement)
    BY <2>2, <2>3
  <2>5. 1 \in DOMAIN p
    BY <2>2, <2>3
  <2>6. DOMAIN << >> = {}
    OBVIOUS
  <2>7. QED
    BY <2>4, <2>5, <2>6
<1>2. CASE w # "SaveSyncedData"
  <2>1. p = <<"update status">> \/ p = <<"insert drip", "update status">>
    BY <1>2 DEF Plans
  <2>2. <<"update status">> \in Seq(Statement) /\ <<"insert drip", "update status">> \in Seq(Statement)
    BY DEF Statement
  <2>3. <<"update status">> # << >> /\ <<"insert drip", "update status">> # << >>
    OBVIOUS
  <2>4. QED
    BY <2>1, <2>2, <2>3
<1>3. QED
  BY <1>1, <1>2

LEMMA WriteInit == Init => WriteInv
BY DEF Init, WriteInv, TypeOK, Executed, NothingEarly, All, Writers

\* Every step keeps the invariant.
LEMMA WriteStep == WriteInv /\ [Next]_vars => WriteInv'
<1> SUFFICES ASSUME WriteInv, [Next]_vars PROVE WriteInv'
  OBVIOUS
<1> USE DEF WriteInv
<1>1. CASE UNCHANGED vars
  BY <1>1 DEF TypeOK, Executed, NothingEarly, All, vars, callVars, dbVars
<1>2. CASE Crash
  BY <1>2 DEF Crash, TypeOK, Executed, NothingEarly, All
<1>3. ASSUME NEW w \in Writers, Begin(w) PROVE WriteInv'
  <2>1. PICK p \in Plans(w) : plan' = [plan EXCEPT ![w] = p]
    BY <1>3 DEF Begin
  <2>2. p \in Seq(Statement) /\ p # << >> /\ Len(p) \in Nat
    BY <2>1, PlanIsSequence
  <2>3. plan \in [Writers -> Seq(Statement)] /\ plan' \in [Writers -> Seq(Statement)]
    BY <2>1, <2>2 DEF TypeOK, Statement
  <2>4. /\ plan'[w] = p /\ at'[w] = 1 /\ result'[w] = "running" /\ pending'[w] = {} /\ tables'[w] = {}
        /\ \A v \in Writers \ {w} : /\ plan'[v] = plan[v] /\ at'[v] = at[v] /\ result'[v] = result[v]
                                    /\ pending'[v] = pending[v] /\ tables'[v] = tables[v] /\ tx'[v] = tx[v]
    BY <1>3, <2>1, <2>3 DEF Begin, Told, TypeOK
  <2>5. /\ at' \in [Writers -> Nat] /\ pending' \in [Writers -> SUBSET Nat]
        /\ tables' \in [Writers -> SUBSET Nat] /\ ctx' \in [Writers -> BOOLEAN]
        /\ tx' \in [Writers -> BOOLEAN]
        /\ result' \in [Writers -> {"none", "running", "ok", "error", "lost"}]
    BY <1>3 DEF Begin, Told, TypeOK
  <2>6. ASSUME NEW v \in Writers
        PROVE  /\ at'[v] \in 1..Len(plan'[v]) + 1
               /\ pending'[v] \subseteq DOMAIN plan'[v] /\ tables'[v] \subseteq DOMAIN plan'[v]
               /\ ~tx'[v] => pending'[v] = {}
    <3>1. CASE v = w
      BY <2>2, <2>4, <3>1
    <3>2. CASE v # w
      BY <2>4, <3>2 DEF TypeOK, All
    <3>3. QED
      BY <3>1, <3>2
  <2>7. TypeOK'
    BY <2>3, <2>5, <2>6 DEF TypeOK, All, Statement
  <2>8. Executed'
    <3>1. ASSUME NEW v \in Writers, result'[v] = "running"
          PROVE  plan'[v] # << >> /\ (tx'[v] => pending'[v] = 1..at'[v] - 1)
      <4>1. CASE v = w
        <5>1. 1..1 - 1 = {}
          OBVIOUS
        <5>2. QED
          BY <2>2, <2>4, <4>1, <5>1
      <4>2. CASE v # w
        BY <2>4, <3>1, <4>2 DEF Executed
      <4>3. QED
        BY <4>1, <4>2
    <3>2. QED
      BY <3>1 DEF Executed
  <2>9. NothingEarly'
    BY <1>3 DEF Begin, Told, TypeOK, NothingEarly
  <2>10. QED
    BY <2>7, <2>8, <2>9
<1>4. ASSUME NEW w \in Writers, Execute(w) PROVE WriteInv'
  <2>1. plan[w] \in Seq(Statement)
    BY DEF TypeOK, Statement
  <2>2. Len(plan[w]) \in Nat /\ at[w] \in 1..Len(plan[w])
    BY <1>4, <2>1 DEF Execute, All
  <2>3. /\ at'[w] = at[w] + 1 /\ pending'[w] = pending[w] \cup {at[w]} /\ result[w] = "running"
        /\ tx[w] /\ UNCHANGED <<plan, result, ctx, tx, tables>>
        /\ \A v \in Writers \ {w} : at'[v] = at[v] /\ pending'[v] = pending[v]
    BY <1>4 DEF Execute, TypeOK
  <2>4. at' \in [Writers -> Nat] /\ pending' \in [Writers -> SUBSET Nat]
    <3>1. at[w] + 1 \in Nat /\ pending[w] \cup {at[w]} \in SUBSET Nat
      <4>1. at[w] \in Nat /\ pending[w] \subseteq Nat
        BY DEF TypeOK
      <4>2. QED
        BY <4>1
    <3>2. at' = [at EXCEPT ![w] = at[w] + 1] /\ pending' = [pending EXCEPT ![w] = pending[w] \cup {at[w]}]
      BY <1>4 DEF Execute
    <3>3. at \in [Writers -> Nat] /\ pending \in [Writers -> SUBSET Nat]
      BY DEF TypeOK
    <3>4. QED
      BY <3>1, <3>2, <3>3
  <2>5. ASSUME NEW v \in Writers
        PROVE  /\ at'[v] \in 1..Len(plan[v]) + 1 /\ pending'[v] \subseteq DOMAIN plan[v]
               /\ ~tx[v] => pending'[v] = {}
    <3>1. CASE v = w
      <4>1. at[w] + 1 \in 1..Len(plan[w]) + 1 /\ at[w] \in DOMAIN plan[w]
        BY <2>1, <2>2
      <4>2. pending[w] \subseteq DOMAIN plan[w]
        BY DEF TypeOK, All
      <4>3. QED
        BY <2>3, <3>1, <4>1, <4>2
    <3>2. CASE v # w
      BY <2>3, <3>2 DEF TypeOK, All
    <3>3. QED
      BY <3>1, <3>2
  <2>6. TypeOK'
    BY <2>3, <2>4, <2>5 DEF TypeOK, All
  <2>7. Executed'
    <3>1. ASSUME NEW v \in Writers, result[v] = "running"
          PROVE  plan[v] # << >> /\ (tx[v] => pending'[v] = 1..at'[v] - 1)
      <4>1. CASE v = w
        <5>1. plan[w] # << >> /\ pending[w] = 1..at[w] - 1
          BY <2>3 DEF Executed
        <5>2. (1..at[w] - 1) \cup {at[w]} = 1..(at[w] + 1) - 1
          BY <2>2
        <5>3. QED
          BY <2>3, <4>1, <5>1, <5>2
      <4>2. CASE v # w
        BY <2>3, <3>1, <4>2 DEF Executed
      <4>3. QED
        BY <4>1, <4>2
    <3>2. QED
      BY <2>3, <3>1 DEF Executed
  <2>8. NothingEarly'
    BY <2>3 DEF NothingEarly
  <2>9. QED
    BY <2>6, <2>7, <2>8
<1>5. ASSUME NEW w \in Writers, ExecuteFails(w) PROVE WriteInv'
  BY <1>5 DEF ExecuteFails, Told, dbVars, TypeOK, Executed, NothingEarly, All
<1>6. ASSUME NEW w \in Writers, Commit(w) \/ CommitLosesAck(w) \/ CommitFails(w)
      PROVE  WriteInv'
  <2>1. TypeOK'
    <3>1. UNCHANGED <<plan, at, ctx>>
      BY <1>6 DEF Commit, CommitLosesAck, CommitFails
    <3>2. /\ result' \in [Writers -> {"none", "running", "ok", "error", "lost"}]
          /\ tx' \in [Writers -> BOOLEAN] /\ pending' \in [Writers -> SUBSET Nat]
          /\ tables' \in [Writers -> SUBSET Nat]
      <4>1. PICK r \in {"ok", "error", "lost"} : result' = [result EXCEPT ![w] = r]
        BY <1>6 DEF Commit, CommitLosesAck, CommitFails, Told
      <4>2. Over(w) \/ UNCHANGED <<tx, pending>>
        BY <1>6 DEF Commit, CommitLosesAck, CommitFails
      <4>3. tables' = [tables EXCEPT ![w] = pending[w]] \/ UNCHANGED tables
        BY <1>6 DEF Commit, CommitLosesAck, CommitFails
      <4>4. result' \in [Writers -> {"none", "running", "ok", "error", "lost"}]
        BY <4>1 DEF TypeOK
      <4>5. tx' \in [Writers -> BOOLEAN]
        BY <4>2 DEF Over, TypeOK
      <4>6. pending' \in [Writers -> SUBSET Nat]
        BY <4>2 DEF Over, TypeOK
      <4>7. tables' \in [Writers -> SUBSET Nat]
        BY <4>3 DEF TypeOK
      <4>8. QED
        BY <4>4, <4>5, <4>6, <4>7
    <3>3. ASSUME NEW v \in Writers
          PROVE  /\ pending'[v] \subseteq All(v) /\ tables'[v] \subseteq All(v)
                 /\ ~tx'[v] => pending'[v] = {}
      BY <1>6 DEF Commit, CommitLosesAck, CommitFails, Over, TypeOK
    <3>4. QED
      BY <3>1, <3>2, <3>3 DEF TypeOK, All
  <2>2. Executed'
    <3>1. PICK r \in {"ok", "error", "lost"} : result' = [result EXCEPT ![w] = r]
      BY <1>6 DEF Commit, CommitLosesAck, CommitFails, Told
    <3>2. /\ UNCHANGED <<plan, at>> /\ result'[w] # "running"
          /\ \A v \in Writers \ {w} : result'[v] = result[v]
      <4>1. UNCHANGED <<plan, at>>
        BY <1>6 DEF Commit, CommitLosesAck, CommitFails
      <4>2. QED
        BY <3>1, <4>1 DEF TypeOK
    <3>3. \A v \in Writers \ {w} : tx'[v] = tx[v] /\ pending'[v] = pending[v]
      BY <1>6 DEF Commit, CommitLosesAck, CommitFails, Over, TypeOK
    <3>4. QED
      BY <3>1, <3>2, <3>3 DEF Executed
  <2>3. NothingEarly'
    BY <1>6 DEF Commit, CommitLosesAck, CommitFails, Told, Over, TypeOK, NothingEarly
  <2>4. QED
    BY <2>1, <2>2, <2>3
<1>7. ASSUME NEW w \in Writers, ContextEnds(w) \/ RollBack(w) \/ Disconnect(w)
      PROVE  WriteInv'
  <2>1. UNCHANGED <<callVars, tables>>
    BY <1>7 DEF ContextEnds, RollBack, Disconnect, dbVars
  <2>2. ctx' \in [Writers -> BOOLEAN]
    BY <1>7 DEF ContextEnds, RollBack, Disconnect, TypeOK
  <2>3. Over(w) \/ UNCHANGED <<tx, pending>>
    BY <1>7 DEF ContextEnds, RollBack, Disconnect, dbVars
  <2>4. TypeOK'
    BY <2>1, <2>2, <2>3 DEF Over, callVars, TypeOK, All
  <2>5. Executed' /\ NothingEarly'
    BY <2>1, <2>3 DEF Over, callVars, TypeOK, Executed, NothingEarly
  <2>6. QED
    BY <2>4, <2>5
<1>8. QED
  BY <1>1, <1>2, <1>3, <1>4, <1>5, <1>6, <1>7 DEF Next, Call

\* The variables have their types, and a transaction that is over has nothing
\* pending, however many rows a range has.
THEOREM TransactionsTypeCorrect == Spec => []TypeOK
<1>1. WriteInv => TypeOK
  BY DEF WriteInv
<1>2. QED
  BY WriteInit, WriteStep, <1>1, PTL DEF Spec

-----------------------------------------------------------------------------
(* Refinement *)

\* What a call has executed when it comes to Commit is all of it.
LEMMA CommitWritesAll ==
  ASSUME WriteInv, NEW w \in Writers, result[w] = "running", at[w] \notin All(w), tx[w]
  PROVE  pending[w] = All(w) /\ All(w) # {}
<1>1. plan[w] \in Seq(Statement) /\ at[w] \in 1..Len(plan[w]) + 1
  BY DEF WriteInv, TypeOK, Statement
<1>2. Len(plan[w]) \in Nat /\ All(w) = 1..Len(plan[w])
  BY <1>1 DEF All
<1>3. at[w] = Len(plan[w]) + 1
  BY <1>1, <1>2
<1>4. pending[w] = 1..Len(plan[w])
  BY <1>2, <1>3 DEF WriteInv, Executed
<1>5. All(w) # {}
  <2>1. plan[w] # << >>
    BY DEF WriteInv, Executed
  <2>2. Len(plan[w]) # 0
    BY <1>1, <2>1, EmptySeq
  <2>3. 1 \in 1..Len(plan[w])
    BY <1>2, <2>2
  <2>4. QED
    BY <1>2, <2>3
<1>6. QED
  BY <1>2, <1>4, <1>5

\* The part of the abstract state that a step leaves alone.
LEMMA SavedDependsOn ==
  ASSUME NEW w \in Writers, tables'[w] = tables[w], plan'[w] = plan[w]
  PROVE  Saved(w)' = Saved(w)
BY DEF Saved, All

\* Every step of the repository is a step of AtomicWrite or a stutter.
LEMMA StepIsAtomic == WriteInv /\ [Next]_vars => [Atomic!Next]_(Atomic!vars)
<1> SUFFICES ASSUME WriteInv, [Next]_vars PROVE [Atomic!Next]_(Atomic!vars)
  OBVIOUS
<1> DEFINE visible == [w \in Writers |-> Saved(w)]
<1>r. result \in [Writers -> {"none", "running", "ok", "error", "lost"}]
  BY DEF WriteInv, TypeOK
<1>s. ASSUME UNCHANGED <<plan, tables>> PROVE UNCHANGED visible
  BY <1>s DEF Saved, All
<1>1. CASE UNCHANGED vars
  <2>1. UNCHANGED visible /\ UNCHANGED result
    BY <1>1, <1>s DEF vars, callVars, dbVars
  <2>2. QED
    BY <2>1 DEF Atomic!vars
<1>2. CASE Crash
  <2>1. UNCHANGED visible /\ result' = [w \in Writers |-> "none"]
    BY <1>2, <1>s DEF Crash
  <2>2. Atomic!Stop
    BY <2>1 DEF Atomic!Stop
  <2>3. QED
    BY <2>2 DEF Atomic!Next
<1>3. ASSUME NEW w \in Writers, Begin(w) PROVE Atomic!Next
  <2>1. /\ result[w] # "running" /\ result' = [result EXCEPT ![w] = "running"]
        /\ tables' = [tables EXCEPT ![w] = {}]
    BY <1>3 DEF Begin, Told
  <2>2. PICK p \in Plans(w) : plan' = [plan EXCEPT ![w] = p]
    BY <1>3 DEF Begin
  <2>3. tables'[w] = {} /\ Saved(w)' = FALSE
    BY <2>1 DEF Saved, WriteInv, TypeOK
  <2>4. \A v \in Writers \ {w} : tables'[v] = tables[v] /\ plan'[v] = plan[v]
    BY <2>1, <2>2 DEF WriteInv, TypeOK
  <2>5. \A v \in Writers \ {w} : Saved(v)' = Saved(v)
    BY <2>4, SavedDependsOn
  <2>6. visible' = [visible EXCEPT ![w] = FALSE]
    BY <2>3, <2>5
  <2>7. Atomic!Start(w)
    BY <2>1, <2>6 DEF Atomic!Start
  <2>8. QED
    BY <2>7 DEF Atomic!Next
<1>4. ASSUME NEW w \in Writers, Execute(w) \/ ContextEnds(w) \/ RollBack(w) \/ Disconnect(w)
      PROVE  UNCHANGED Atomic!vars
  <2>1. UNCHANGED <<plan, tables, result>>
    BY <1>4 DEF Execute, ContextEnds, RollBack, Disconnect, callVars, dbVars
  <2>2. UNCHANGED visible
    BY <2>1, <1>s
  <2>3. QED
    BY <2>1, <2>2 DEF Atomic!vars
<1>5. ASSUME NEW w \in Writers, ExecuteFails(w) \/ CommitFails(w) PROVE Atomic!Next
  <2>1. /\ UNCHANGED <<plan, tables>>
        /\ result[w] = "running" /\ result' = [result EXCEPT ![w] = "error"]
    BY <1>5 DEF ExecuteFails, CommitFails, Told, dbVars
  <2>2. UNCHANGED visible
    BY <2>1, <1>s
  <2>3. Atomic!Fail(w)
    BY <2>1, <2>2 DEF Atomic!Fail
  <2>4. QED
    BY <2>3 DEF Atomic!Next
<1>6. ASSUME NEW w \in Writers, Commit(w) \/ CommitLosesAck(w) PROVE Atomic!Next
  <2>1. /\ result[w] = "running" /\ at[w] \notin All(w) /\ tx[w]
        /\ tables' = [tables EXCEPT ![w] = pending[w]] /\ UNCHANGED plan
        /\ \/ result' = [result EXCEPT ![w] = "ok"]
           \/ result' = [result EXCEPT ![w] = "lost"]
    BY <1>6 DEF Commit, CommitLosesAck, Told
  <2>2. pending[w] = All(w) /\ All(w) # {}
    BY <2>1, CommitWritesAll
  <2>3. tables'[w] = All(w)' /\ tables'[w] # {}
    BY <2>1, <2>2 DEF All, WriteInv, TypeOK
  <2>4. Saved(w)' = TRUE
    BY <2>3 DEF Saved
  <2>5. \A v \in Writers \ {w} : tables'[v] = tables[v] /\ plan'[v] = plan[v]
    BY <2>1 DEF WriteInv, TypeOK
  <2>6. \A v \in Writers \ {w} : Saved(v)' = Saved(v)
    BY <2>5, SavedDependsOn
  <2>7. visible' = [visible EXCEPT ![w] = TRUE]
    BY <2>4, <2>6
  <2>8. Atomic!Succeed(w) \/ Atomic!LoseAnswer(w)
    BY <2>1, <2>7 DEF Atomic!Succeed, Atomic!LoseAnswer
  <2>9. QED
    BY <2>8 DEF Atomic!Next
<1>7. QED
  BY <1>1, <1>2, <1>3, <1>4, <1>5, <1>6 DEF Next, Call

\* SaveSyncedData and NewDrip write all or nothing, and nothing if they report
\* an error of a statement or of the commit, however many rows there are: what
\* BridgeSync and Faucet take as one step.
THEOREM TransactionsAreAtomic == Spec => WritesAreAtomic
<1>1. Init => Atomic!Init
  BY DEF Init, Atomic!Init, Saved
<1>2. QED
  BY WriteInit, WriteStep, StepIsAtomic, <1>1, PTL DEF Spec, WritesAreAtomic, Atomic!Spec
=============================================================================
