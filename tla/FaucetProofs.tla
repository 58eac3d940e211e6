---------------------------- MODULE FaucetProofs ----------------------------
(***************************************************************************)
(* What Faucet guarantees for every value of its constants.                *)
(***************************************************************************)
EXTENDS Faucet, TLAPS

-----------------------------------------------------------------------------
(* Rows of the `deposits` table *)

\* UPDATE of the status of one row leaves everything else as it was.
LEMMA SetStatusFacts ==
  ASSUME NEW table \in Seq(Row), NEW i, NEW s \in DepositStatus
  PROVE  /\ SetStatus(table, i, s) \in Seq(Row)
         /\ DOMAIN SetStatus(table, i, s) = DOMAIN table
         /\ \A j \in DOMAIN table :
              /\ SetStatus(table, i, s)[j].event = table[j].event
              /\ SetStatus(table, i, s)[j].height = table[j].height
              /\ SetStatus(table, i, s)[j].status = IF j = i THEN s ELSE table[j].status
<1> DEFINE new == SetStatus(table, i, s)
<1>1. /\ table \in [1..Len(table) -> Row] /\ Len(table) \in Nat
      /\ \A j \in DOMAIN table : table[j] \in Row
  OBVIOUS
<1>2. new \in [1..Len(table) -> Row]
  BY <1>1 DEF SetStatus, Row
<1>3. new \in Seq(Row) /\ DOMAIN new = DOMAIN table
  BY <1>1, <1>2
<1>4. ASSUME NEW j \in DOMAIN table
      PROVE  /\ new[j].event = table[j].event /\ new[j].height = table[j].height
             /\ new[j].status = IF j = i THEN s ELSE table[j].status
  <2>1. table[j] \in Row
    BY <1>1
  <2>2. CASE j = i
    BY <2>1, <2>2 DEF SetStatus, Row
  <2>3. CASE j # i
    BY <2>3 DEF SetStatus
  <2>4. QED
    BY <2>2, <2>3
<1>5. QED
  BY <1>3, <1>4

\* The rows that NewDeposit, or the syncer, adds.
RowsAdded ==
  /\ DOMAIN deposits \subseteq DOMAIN deposits'
  /\ \A i \in DOMAIN deposits : deposits'[i] = deposits[i]
  /\ \A i \in DOMAIN deposits' \ DOMAIN deposits :
       deposits'[i].status \in {Unprocessed, Ignored}

LEMMA NewDepositAddsRows ==
  ASSUME TypeOK, NewDeposit
  PROVE  RowsAdded /\ deposits' \in Seq(Row)
<1>1. PICK row \in Row : row.status \in {Unprocessed, Ignored} /\ deposits' = Append(deposits, row)
  BY DEF NewDeposit
<1>2. deposits \in Seq(Row)
  BY DEF TypeOK
<1>3. /\ deposits' \in Seq(Row)
      /\ DOMAIN deposits = 1..Len(deposits) /\ DOMAIN deposits' = 1..(Len(deposits) + 1)
      /\ \A i \in 1..Len(deposits) : deposits'[i] = deposits[i]
      /\ deposits'[Len(deposits) + 1] = row /\ Len(deposits) \in Nat
  BY <1>1, <1>2
<1> HIDE DEF Row
<1>4. QED
  BY <1>1, <1>3 DEF RowsAdded

-----------------------------------------------------------------------------
(* Type correctness *)

LEMMA TypeCommit ==
  ASSUME TypeOK, fpc = "persist", CommitNewDrip
  PROVE  /\ deposits' \in Seq(Row) /\ DOMAIN deposits' = DOMAIN deposits
         /\ drips' \in SUBSET Drip
<1>1. deposits \in Seq(Row) /\ cur \in Drip /\ drips \in SUBSET Drip
  BY DEF TypeOK
<1>2. Processing \in DepositStatus
  BY DEF DepositStatus
<1>3. QED
  BY <1>1, <1>2, SetStatusFacts DEF CommitNewDrip, InsertDrip, UpdateDeposit

LEMMA InitType == Init => TypeOK
<1> SUFFICES ASSUME Init PROVE TypeOK
  OBVIOUS
<1> USE DEF Init, InitFaucet
<1>1. deposits \in Seq(Row) /\ todo \in SUBSET (DOMAIN deposits)
  OBVIOUS
<1>2. balance \in 0..MaxBalance
  BY FaucetAssumption
<1>3. staleNonce \in BOOLEAN
  OBVIOUS
<1>4. QED
  BY <1>1, <1>2, <1>3 DEF TypeOK

LEMMA TypeStep ==
  ASSUME TypeOK, [Next]_vars
  PROVE  TypeOK'
<1> USE FaucetAssumption DEF TypeOK, loopVars, l2Vars
<1>1. CASE MineTx \/ RevertTx
  <2>1. PICK tx \in pool : Include(tx)
    BY <1>1 DEF MineTx, RevertTx
  <2>2. reverted' \in SUBSET mined'
    <3>1. CASE MineTx
      BY <3>1 DEF MineTx, Include
    <3>2. CASE RevertTx
      BY <3>2 DEF RevertTx, Include
    <3>3. QED
      BY <1>1, <3>1, <3>2
  <2>3. balance' \in 0..MaxBalance
    <3>1. balance' = balance \/ balance' = balance - 1
      BY <1>1 DEF MineTx, RevertTx
    <3>2. QED
      BY <2>1, <3>1 DEF Include
  <2>4. QED
    BY <2>1, <2>2, <2>3 DEF Include
<1>2. CASE DropTx \/ TopUp
  BY <1>2 DEF DropTx, TopUp
<1>3. CASE Initial \/ Crash
  <2>1. staleNonce' \in BOOLEAN
    BY <1>3 DEF Initial, Crash
  <2>2. QED
    BY <1>3, <2>1 DEF Initial, Crash, EndLoop
<1>4. CASE NewDeposit
  <2>1. DOMAIN deposits \subseteq DOMAIN deposits' /\ deposits' \in Seq(Row)
    BY <1>4, NewDepositAddsRows DEF RowsAdded
  <2>2. QED
    BY <1>4, <2>1 DEF NewDeposit
<1>5. CASE BeginSend \/ BeginCheck
  BY <1>5 DEF BeginSend, BeginCheck, ToDecide, ToCheck, FirstIds, IdsWithStatus
<1>6. CASE SkipSend \/ SkipCheck \/ EndSend \/ AbortSend \/ EndCheck
  BY <1>6 DEF SkipSend, SkipCheck, EndSend, AbortSend, EndCheck, EndLoop
<1>7. CASE Decline
  <2>1. PICK i \in todo : deposits' = SetStatus(deposits, i, Ignored) /\ todo' = todo \ {i}
    BY <1>7 DEF Decline
  <2>2. deposits' \in Seq(Row) /\ DOMAIN deposits' = DOMAIN deposits
    BY <2>1, SetStatusFacts DEF DepositStatus
  <2>3. QED
    BY <1>7, <2>1, <2>2 DEF Decline
<1>8. CASE Approve
  <2>1. PICK i \in todo :
          /\ todo' = todo \ {i}
          /\ cur' = [pid |-> i, tx |-> [to |-> Receiver(i), nonce |-> nonce]]
          /\ recset' = recset \cup {Receiver(i)}
    BY <1>8 DEF Approve
  <2>2. i \in Nat \ {0} /\ Receiver(i) \in Receivers
    <3>1. deposits[i] \in Row /\ i \in DOMAIN deposits /\ deposits \in Seq(Row)
      OBVIOUS
    <3>2. QED
      BY <3>1 DEF Row, Receiver
  <2>3. cur' \in Drip
    BY <2>1, <2>2 DEF Drip, Tx
  <2>4. QED
    BY <1>8, <2>1, <2>2, <2>3 DEF Approve
<1>9. CASE NewDrip
  BY <1>9, TypeCommit DEF NewDrip, NextNonce
<1>10. CASE NewDripLosesAck
  BY <1>10, TypeCommit DEF NewDripLosesAck, EndLoop
<1>11. CASE Broadcast \/ BroadcastFails
  <2>1. fpc = "broadcast" => Holding(cur.tx) \in SUBSET Tx
    BY DEF Holding, Drip
  <2>2. QED
    BY <1>11, <2>1 DEF Broadcast, BroadcastFails, EndLoop
<1>12. CASE Settle
  <2>1. PICK d \in drips : deposits' = SetStatus(deposits, d.pid, Done) /\ todo' = todo \ {d.pid}
    BY <1>12 DEF Settle
  <2>2. deposits' \in Seq(Row) /\ DOMAIN deposits' = DOMAIN deposits
    BY <2>1, SetStatusFacts DEF DepositStatus
  <2>3. QED
    BY <1>12, <2>1, <2>2 DEF Settle
<1>13. CASE Resend
  <2>1. PICK d \in drips : todo' = todo \ {d.pid} /\ pool' = Holding(d.tx)
    BY <1>13 DEF Resend
  <2>2. pool' \in SUBSET Tx
    BY <2>1 DEF Holding, Drip
  <2>3. QED
    BY <1>13, <2>1, <2>2 DEF Resend
<1>14. CASE ResendFails
  BY <1>14 DEF ResendFails
<1>15. CASE UNCHANGED vars
  BY <1>15 DEF vars
<1>16. QED
  BY <1>1, <1>2, <1>3, <1>4, <1>5, <1>6, <1>7, <1>8, <1>9, <1>10, <1>11, <1>12, <1>13, <1>14,
     <1>15 DEF Next, FaucetStep, SendDrips, CheckDrips, L2

\* Every variable keeps the type its Go, SQL or L2 counterpart has; in
\* particular the streams hold rows of the table only, and the drip that is
\* being saved or sent is a complete one.
THEOREM FaucetTypeCorrect == Spec => []TypeOK
<1>1. Init => TypeOK
  BY InitType
<1>2. TypeOK /\ [Next]_vars => TypeOK'
  BY TypeStep
<1>3. QED
  BY <1>1, <1>2, PTL DEF Spec

-----------------------------------------------------------------------------
(* The inductive invariant *)

\* What the goroutine knows of the rows it still has to look at, and of the
\* drip it is about to save or send.
LoopInv ==
  /\ fpc \in {"off", "tick", "wait"} => todo = {}
  /\ fpc \in {"send", "persist", "broadcast"} => \A i \in todo : deposits[i].status = Unprocessed
  /\ fpc = "check" => \A i \in todo : deposits[i].status = Processing
  /\ fpc = "persist" => /\ cur.pid \in DOMAIN deposits \ todo
                        /\ deposits[cur.pid].status = Unprocessed
                        /\ cur.tx.to = Receiver(cur.pid) /\ HasGotDrip(cur.tx.to)
                        /\ cur.tx.nonce = nonce
  /\ fpc = "broadcast" => cur \in drips

OneDripEach == \A d, e \in drips : d.tx.to = e.tx.to => d = e

DoneIsMined == \A d \in drips : deposits[d.pid].status = Done => d.tx \in mined

\* The mined transactions have exactly the nonces below the account's, and only
\* contracts refused one.
MinedInv ==
  /\ \A tx \in mined : tx.nonce < chainNonce
  /\ \A n \in 0..(chainNonce - 1) : \E tx \in mined : tx.nonce = n
  /\ \A tx \in reverted : tx.to \in Contracts

\* Unless a nonce was reused, the drips of a running faucet have exactly the
\* nonces below the one in memory.
NonceInv ==
  ~staleNonce /\ fpc # "off" =>
    /\ \A d \in drips : d.tx.nonce < nonce
    /\ \A n \in 0..(nonce - 1) : \E d \in drips : d.tx.nonce = n

FaucetInv == /\ TypeOK /\ LoopInv /\ TablesAgree /\ OneDripEach /\ SavedBeforeSent
             /\ MinedInv /\ DoneIsMined /\ NonceInv /\ NoncesInOrder

\* An action that changes neither table.
LEMMA TablesUnchanged ==
  ASSUME FaucetInv, UNCHANGED <<deposits, drips>>, mined \subseteq mined',
         staleNonce => staleNonce'
  PROVE  TablesAgree' /\ OneDripEach' /\ DoneIsMined' /\ NoncesInOrder'
<1>1. TablesAgree' /\ OneDripEach'
  BY DEF FaucetInv, TablesAgree, OneDripEach, Receiver
<1>2. DoneIsMined'
  BY DEF FaucetInv, DoneIsMined
<1>3. NoncesInOrder'
  BY DEF FaucetInv, NoncesInOrder
<1>4. QED
  BY <1>1, <1>2, <1>3

\* Rows that are added have no drip.
LEMMA RowsAddedKeepInv ==
  ASSUME FaucetInv, TypeOK', RowsAdded,
         UNCHANGED <<drips, fpc, nonce, loopVars, l2Vars, staleNonce>>
  PROVE  FaucetInv'
<1>1. \A i \in DOMAIN deposits : i \in DOMAIN deposits' /\ deposits'[i] = deposits[i]
  BY DEF RowsAdded
<1>2. \A d \in drips : d.pid \in DOMAIN deposits
  BY DEF FaucetInv, TablesAgree
<1>3. todo \subseteq DOMAIN deposits
  BY DEF FaucetInv, TypeOK
<1>4. LoopInv'
  BY <1>1, <1>3 DEF FaucetInv, LoopInv, Receiver, HasGotDrip, loopVars
<1>5. TablesAgree'
  <2>1. ASSUME NEW i \in DOMAIN deposits'
        PROVE  deposits'[i].status \in {Processing, Done} <=> \E d \in drips' : d.pid = i
    <3>1. CASE i \in DOMAIN deposits
      BY <1>1, <3>1 DEF FaucetInv, TablesAgree
    <3>2. CASE i \notin DOMAIN deposits
      BY <1>2, <3>2 DEF RowsAdded, Unprocessed, Ignored, Processing, Done
    <3>3. QED
      BY <3>1, <3>2
  <2>2. QED
    BY <1>1, <1>2, <2>1 DEF FaucetInv, TablesAgree, Receiver
<1>6. OneDripEach' /\ SavedBeforeSent' /\ MinedInv' /\ NonceInv' /\ NoncesInOrder'
  BY DEF FaucetInv, OneDripEach, SavedBeforeSent, MinedInv, NonceInv, NoncesInOrder, l2Vars
<1>7. DoneIsMined'
  BY <1>1, <1>2 DEF FaucetInv, DoneIsMined, l2Vars
<1>8. QED
  BY <1>4, <1>5, <1>6, <1>7 DEF FaucetInv

\* The status of one row changes and no drip does.
LEMMA StatusChange ==
  ASSUME FaucetInv, NEW i \in DOMAIN deposits, NEW s \in DepositStatus,
         deposits' = SetStatus(deposits, i, s), UNCHANGED <<drips, l2Vars, nonce, fpc, staleNonce>>,
         s \in {Processing, Done} <=> deposits[i].status \in {Processing, Done},
         s = Done => \A d \in drips : d.pid = i => d.tx \in mined
  PROVE  /\ TablesAgree' /\ OneDripEach' /\ SavedBeforeSent' /\ MinedInv' /\ DoneIsMined'
         /\ NonceInv' /\ NoncesInOrder'
<1>1. /\ DOMAIN deposits' = DOMAIN deposits
      /\ \A j \in DOMAIN deposits :
           /\ deposits'[j].event = deposits[j].event
           /\ deposits'[j].status = IF j = i THEN s ELSE deposits[j].status
  BY SetStatusFacts DEF FaucetInv, TypeOK
<1>2. \A d \in drips : d.pid \in DOMAIN deposits
  BY DEF FaucetInv, TablesAgree
<1>3. TablesAgree'
  BY <1>1, <1>2 DEF FaucetInv, TablesAgree, Receiver
<1>4. DoneIsMined'
  BY <1>1, <1>2 DEF FaucetInv, DoneIsMined, l2Vars
<1>5. OneDripEach' /\ SavedBeforeSent' /\ MinedInv' /\ NonceInv' /\ NoncesInOrder'
  BY DEF FaucetInv, OneDripEach, SavedBeforeSent, MinedInv, NonceInv, NoncesInOrder, l2Vars
<1>6. QED
  BY <1>3, <1>4, <1>5

\* NewDrip's transaction, whether its answer arrives or not.
LEMMA NewDripEffect ==
  ASSUME FaucetInv, fpc = "persist", CommitNewDrip, UNCHANGED l2Vars
  PROVE  /\ DOMAIN deposits' = DOMAIN deposits
         /\ \A j \in todo : deposits'[j].status = deposits[j].status
         /\ drips' = drips \cup {cur}
         /\ TablesAgree' /\ OneDripEach' /\ SavedBeforeSent' /\ MinedInv' /\ DoneIsMined'
<1>1. /\ cur.pid \in DOMAIN deposits \ todo /\ deposits[cur.pid].status = Unprocessed
      /\ cur.tx.to = Receiver(cur.pid) /\ \A d \in drips : d.tx.to # cur.tx.to
      /\ todo \subseteq DOMAIN deposits
  BY DEF FaucetInv, LoopInv, HasGotDrip, TypeOK
<1>2. drips' = drips \cup {cur} /\ \A d \in drips : d.pid # cur.pid
  BY DEF CommitNewDrip, InsertDrip
<1>3. /\ DOMAIN deposits' = DOMAIN deposits
      /\ \A j \in DOMAIN deposits :
           /\ deposits'[j].event = deposits[j].event
           /\ deposits'[j].status = IF j = cur.pid THEN Processing ELSE deposits[j].status
  BY SetStatusFacts DEF FaucetInv, TypeOK, CommitNewDrip, UpdateDeposit, DepositStatus
<1>4. TablesAgree'
  <2>1. \A i \in DOMAIN deposits :
          deposits'[i].status \in {Processing, Done} <=> \E d \in drips' : d.pid = i
    BY <1>1, <1>2, <1>3 DEF FaucetInv, TablesAgree
  <2>2. \A d \in drips' : d.pid \in DOMAIN deposits /\ d.tx.to = To[deposits'[d.pid].event]
    BY <1>1, <1>2, <1>3 DEF FaucetInv, TablesAgree, Receiver
  <2>3. \A d, e \in drips' : d.pid = e.pid => d = e
    BY <1>2 DEF FaucetInv, TablesAgree
  <2>4. QED
    BY <1>3, <2>1, <2>2, <2>3 DEF TablesAgree, Receiver
<1>5. OneDripEach'
  BY <1>1, <1>2 DEF FaucetInv, OneDripEach
<1>6. SavedBeforeSent' /\ MinedInv'
  BY <1>2 DEF FaucetInv, SavedBeforeSent, MinedInv, l2Vars
<1>7. DoneIsMined'
  <2>1. \A d \in drips : d.pid \in DOMAIN deposits
    BY DEF FaucetInv, TablesAgree
  <2>2. QED
    BY <1>1, <1>2, <1>3, <2>1 DEF FaucetInv, DoneIsMined, l2Vars, Processing, Done
<1>8. QED
  BY <1>1, <1>2, <1>3, <1>4, <1>5, <1>6, <1>7

\* The faucet, and L2, add no row, and change nothing of a row but its status;
\* what is ignored stays so.
LEMMA RowsKept ==
  ASSUME FaucetInv, FaucetStep \/ L2
  PROVE  /\ DOMAIN deposits' = DOMAIN deposits
         /\ \A i \in DOMAIN deposits :
              /\ deposits'[i].event = deposits[i].event
              /\ deposits'[i].height = deposits[i].height
              /\ deposits[i].status = Ignored => deposits'[i].status = Ignored
<1>1. ASSUME NEW i \in DOMAIN deposits, NEW s \in DepositStatus, deposits[i].status # Ignored,
             deposits' = SetStatus(deposits, i, s)
      PROVE  /\ DOMAIN deposits' = DOMAIN deposits
             /\ \A j \in DOMAIN deposits :
                  /\ deposits'[j].event = deposits[j].event
                  /\ deposits'[j].height = deposits[j].height
                  /\ deposits[j].status = Ignored => deposits'[j].status = Ignored
  BY <1>1, SetStatusFacts DEF FaucetInv, TypeOK
<1>2. CASE Decline
  <2>1. PICK i \in todo : deposits' = SetStatus(deposits, i, Ignored)
    BY <1>2 DEF Decline
  <2>2. i \in DOMAIN deposits /\ deposits[i].status = Unprocessed
    BY <1>2, <2>1 DEF Decline, FaucetInv, TypeOK, LoopInv
  <2>3. QED
    BY <1>1, <2>1, <2>2 DEF DepositStatus, Unprocessed, Ignored
<1>3. CASE NewDrip \/ NewDripLosesAck
  <2>1. deposits' = SetStatus(deposits, cur.pid, Processing)
    BY <1>3 DEF NewDrip, NewDripLosesAck, CommitNewDrip, UpdateDeposit
  <2>2. cur.pid \in DOMAIN deposits /\ deposits[cur.pid].status = Unprocessed
    BY <1>3 DEF NewDrip, NewDripLosesAck, FaucetInv, LoopInv
  <2>3. QED
    BY <1>1, <2>1, <2>2 DEF DepositStatus, Unprocessed, Ignored
<1>4. CASE Settle
  <2>1. PICK d \in drips : deposits' = SetStatus(deposits, d.pid, Done) /\ d.pid \in todo
    BY <1>4 DEF Settle, IsNext
  <2>2. d.pid \in DOMAIN deposits /\ deposits[d.pid].status = Processing
    BY <1>4, <2>1 DEF Settle, FaucetInv, TypeOK, LoopInv
  <2>3. QED
    BY <1>1, <2>1, <2>2 DEF DepositStatus, Processing, Ignored
<1>5. CASE UNCHANGED deposits
  BY <1>5
<1>6. QED
  BY <1>2, <1>3, <1>4, <1>5 DEF FaucetStep, SendDrips, CheckDrips, L2, Initial, MineTx, RevertTx,
     Include, DropTx, TopUp, BeginSend, SkipSend, Approve, Broadcast, BroadcastFails, EndSend,
     AbortSend, BeginCheck, SkipCheck, Resend, ResendFails, EndCheck

\* A transaction that may be mined next has not been mined.
LEMMA IncludeEffect ==
  ASSUME FaucetInv, NEW tx \in pool, Include(tx)
  PROVE  /\ tx \notin mined /\ tx.nonce = chainNonce
         /\ mined' = mined \cup {tx} /\ pool' = pool \ {tx}
         /\ UNCHANGED <<deposits, drips, fpc, nonce, todo, cur, staleNonce>>
         /\ chainNonce' = chainNonce + 1 /\ chainNonce \in Nat /\ mined \in SUBSET Tx
<1>1. /\ tx.nonce = chainNonce /\ mined' = mined \cup {tx} /\ pool' = pool \ {tx}
      /\ UNCHANGED <<deposits, drips, fpc, nonce, todo, cur, staleNonce>>
      /\ chainNonce' = chainNonce + 1
  BY DEF Include, loopVars
<1>2. chainNonce \in Nat /\ mined \in SUBSET Tx
  BY DEF FaucetInv, TypeOK
<1>3. tx \notin mined
  BY <1>1, <1>2 DEF FaucetInv, MinedInv
<1>4. QED
  BY <1>1, <1>2, <1>3

LEMMA FaucetInvInductive ==
  ASSUME FaucetInv, TypeOK', [Next]_vars
  PROVE  FaucetInv'
<1>1. CASE MineTx \/ RevertTx
  <2>1. PICK tx \in pool : /\ Include(tx)
                           /\ \/ reverted' = reverted
                              \/ tx.to \in Contracts /\ reverted' = reverted \cup {tx}
    BY <1>1 DEF MineTx, RevertTx
  <2>2. /\ tx.nonce = chainNonce /\ mined' = mined \cup {tx} /\ pool' = pool \ {tx}
        /\ UNCHANGED <<deposits, drips, fpc, nonce, todo, cur, staleNonce>>
        /\ chainNonce' = chainNonce + 1 /\ chainNonce \in Nat /\ mined \in SUBSET Tx
    BY <2>1, IncludeEffect
  <2>3. LoopInv' /\ NonceInv'
    BY <2>2 DEF FaucetInv, LoopInv, NonceInv, Receiver, HasGotDrip
  <2>4. SavedBeforeSent'
    BY <2>2 DEF FaucetInv, SavedBeforeSent
  <2>5. MinedInv'
    <3>1. \A t \in mined' : t.nonce < chainNonce'
      BY <2>2 DEF FaucetInv, MinedInv, Tx
    <3>2. ASSUME NEW n \in 0..(chainNonce' - 1) PROVE \E t \in mined' : t.nonce = n
      <4>1. CASE n = chainNonce
        BY <2>2, <4>1
      <4>2. CASE n # chainNonce
        <5>1. n \in 0..(chainNonce - 1)
          BY <2>2, <4>2
        <5>2. QED
          BY <2>2, <5>1 DEF FaucetInv, MinedInv
      <4>3. QED
        BY <4>1, <4>2
    <3>3. \A t \in reverted' : t.to \in Contracts
      BY <2>1 DEF FaucetInv, MinedInv
    <3>4. QED
      BY <3>1, <3>2, <3>3 DEF MinedInv
  <2>6. QED
    BY <2>2, <2>3, <2>4, <2>5, TablesUnchanged DEF FaucetInv
<1>2. CASE DropTx \/ TopUp
  <2>1. /\ UNCHANGED <<deposits, drips, fpc, nonce, todo, cur, staleNonce, chainNonce, mined, reverted>>
        /\ pool' \subseteq pool
    BY <1>2 DEF DropTx, TopUp, loopVars
  <2>2. LoopInv' /\ NonceInv' /\ SavedBeforeSent' /\ MinedInv'
    BY <2>1 DEF FaucetInv, LoopInv, NonceInv, SavedBeforeSent, MinedInv, Receiver, HasGotDrip
  <2>3. QED
    BY <2>1, <2>2, TablesUnchanged DEF FaucetInv
<1>3. CASE Initial
  <2>1. /\ UNCHANGED <<deposits, drips, todo, cur, chainNonce, mined, reverted, pool>>
        /\ fpc' = "tick" /\ fpc = "off" /\ nonce' = chainNonce
    BY <1>3 DEF Initial, loopVars, l2Vars
  <2>2. /\ staleNonce => staleNonce'
        /\ ~staleNonce' => \A d \in drips : d.tx \in mined
    BY <1>3 DEF Initial
  <2>3. LoopInv' /\ SavedBeforeSent' /\ MinedInv'
    BY <2>1 DEF FaucetInv, LoopInv, SavedBeforeSent, MinedInv
  <2>4. NonceInv'
    <3>1. ASSUME ~staleNonce'
          PROVE  /\ \A d \in drips : d.tx.nonce < chainNonce
                 /\ \A n \in 0..(chainNonce - 1) : \E d \in drips : d.tx.nonce = n
      BY <2>2, <3>1 DEF FaucetInv, MinedInv, SavedBeforeSent
    <3>2. QED
      BY <2>1, <3>1 DEF NonceInv
  <2>5. QED
    BY <2>1, <2>2, <2>3, <2>4, TablesUnchanged DEF FaucetInv
<1>4. CASE NewDeposit
  BY <1>4, NewDepositAddsRows, RowsAddedKeepInv DEF NewDeposit, FaucetInv
<1>5. CASE Decline
  <2>1. PICK i \in todo : deposits' = SetStatus(deposits, i, Ignored) /\ todo' = todo \ {i}
    BY <1>5 DEF Decline
  <2>2. /\ i \in DOMAIN deposits /\ deposits[i].status = Unprocessed /\ todo \subseteq DOMAIN deposits
        /\ fpc = "send" /\ UNCHANGED <<drips, l2Vars, nonce, fpc, staleNonce>>
    BY <1>5, <2>1 DEF Decline, FaucetInv, TypeOK, LoopInv
  <2>3. /\ TablesAgree' /\ OneDripEach' /\ SavedBeforeSent' /\ MinedInv' /\ DoneIsMined'
        /\ NonceInv' /\ NoncesInOrder'
    BY <2>1, <2>2, StatusChange DEF DepositStatus, Ignored, Unprocessed, Processing, Done
  <2>4. \A j \in todo' : deposits'[j].status = Unprocessed
    <3>1. \A j \in DOMAIN deposits :
            deposits'[j].status = IF j = i THEN Ignored ELSE deposits[j].status
      BY <2>1, SetStatusFacts DEF FaucetInv, TypeOK, DepositStatus
    <3>2. QED
      BY <2>1, <2>2, <3>1 DEF FaucetInv, LoopInv
  <2>5. QED
    BY <2>2, <2>3, <2>4 DEF FaucetInv, LoopInv
<1>6. CASE Settle
  <2>1. PICK d \in drips : /\ deposits' = SetStatus(deposits, d.pid, Done) /\ todo' = todo \ {d.pid}
                           /\ d.pid \in todo /\ d.tx \in mined
    BY <1>6 DEF Settle, IsNext, HasReceipt
  <2>2. /\ d.pid \in DOMAIN deposits /\ deposits[d.pid].status = Processing
        /\ todo \subseteq DOMAIN deposits
        /\ fpc = "check" /\ UNCHANGED <<drips, l2Vars, nonce, fpc, staleNonce>>
    BY <1>6, <2>1 DEF Settle, FaucetInv, TypeOK, LoopInv
  <2>3. \A e \in drips : e.pid = d.pid => e.tx \in mined
    BY <2>1 DEF FaucetInv, TablesAgree
  <2>4. /\ TablesAgree' /\ OneDripEach' /\ SavedBeforeSent' /\ MinedInv' /\ DoneIsMined'
        /\ NonceInv' /\ NoncesInOrder'
    BY <2>1, <2>2, <2>3, StatusChange DEF DepositStatus
  <2>5. \A j \in todo' : deposits'[j].status = Processing
    BY <2>1, <2>2, SetStatusFacts DEF FaucetInv, TypeOK, LoopInv, DepositStatus
  <2>6. QED
    BY <2>2, <2>4, <2>5 DEF FaucetInv, LoopInv
<1>7. CASE NewDrip
  <2>1. /\ fpc = "persist" /\ CommitNewDrip /\ nonce' = nonce + 1 /\ fpc' = "broadcast"
        /\ UNCHANGED <<todo, cur, l2Vars, staleNonce>>
    BY <1>7 DEF NewDrip, NextNonce, loopVars
  <2>2. /\ \A j \in todo : deposits'[j].status = deposits[j].status
        /\ drips' = drips \cup {cur}
        /\ TablesAgree' /\ OneDripEach' /\ SavedBeforeSent' /\ MinedInv' /\ DoneIsMined'
    BY <2>1, NewDripEffect
  <2>3. cur.tx.nonce = nonce /\ nonce \in Nat /\ \A d \in drips : d.tx.nonce \in Nat
    BY <2>1 DEF FaucetInv, LoopInv, TypeOK, Drip, Tx
  <2>4. LoopInv'
    BY <2>1, <2>2 DEF FaucetInv, LoopInv
  <2>5. ASSUME ~staleNonce'
        PROVE  /\ \A d \in drips' : d.tx.nonce < nonce'
               /\ \A n \in 0..nonce : \E d \in drips' : d.tx.nonce = n
               /\ \A d, e \in drips' : d.tx.nonce = e.tx.nonce => d = e
    <3>1. /\ \A d \in drips : d.tx.nonce < nonce
          /\ \A n \in 0..(nonce - 1) : \E d \in drips : d.tx.nonce = n
          /\ \A d, e \in drips : d.tx.nonce = e.tx.nonce => d = e
      BY <2>1, <2>5 DEF FaucetInv, NonceInv, NoncesInOrder
    <3>2. \A n \in 0..nonce : n = nonce \/ n \in 0..(nonce - 1)
      BY <2>3
    <3>3. QED
      BY <2>1, <2>2, <2>3, <3>1, <3>2
  <2>6. NonceInv'
    BY <2>1, <2>3, <2>5 DEF NonceInv
  <2>7. NoncesInOrder'
    <3>1. ASSUME ~staleNonce', NEW d \in drips', NEW n \in 0..d.tx.nonce
          PROVE  \E e \in drips' : e.tx.nonce = n
      <4>1. d.tx.nonce \in Nat /\ d.tx.nonce < nonce + 1
        BY <2>1, <2>2, <2>3, <2>5, <3>1
      <4>2. n \in 0..nonce
        BY <2>3, <4>1
      <4>3. QED
        BY <2>5, <3>1, <4>2
    <3>2. QED
      BY <2>5, <3>1 DEF NoncesInOrder
  <2>8. QED
    BY <2>2, <2>4, <2>6, <2>7 DEF FaucetInv
<1>8. CASE NewDripLosesAck
  <2>1. /\ fpc = "persist" /\ CommitNewDrip /\ fpc' = "wait" /\ todo' = {} /\ staleNonce'
        /\ UNCHANGED l2Vars
    BY <1>8 DEF NewDripLosesAck, EndLoop
  <2>2. TablesAgree' /\ OneDripEach' /\ SavedBeforeSent' /\ MinedInv' /\ DoneIsMined'
    BY <2>1, NewDripEffect
  <2>3. LoopInv' /\ NonceInv' /\ NoncesInOrder'
    BY <2>1 DEF LoopInv, NonceInv, NoncesInOrder
  <2>4. QED
    BY <2>2, <2>3 DEF FaucetInv
<1>9. CASE Approve
  <2>1. PICK i \in todo :
          /\ todo' = todo \ {i} /\ HasGotDrip(Receiver(i))
          /\ cur' = [pid |-> i, tx |-> [to |-> Receiver(i), nonce |-> nonce]]
    BY <1>9 DEF Approve
  <2>2. /\ fpc = "send" /\ fpc' = "persist" /\ UNCHANGED <<deposits, drips, nonce, l2Vars, staleNonce>>
        /\ todo \subseteq DOMAIN deposits
    BY <1>9 DEF Approve, FaucetInv, TypeOK
  <2>3. LoopInv'
    BY <2>1, <2>2 DEF FaucetInv, LoopInv, HasGotDrip, Receiver
  <2>4. SavedBeforeSent' /\ MinedInv' /\ NonceInv'
    BY <2>2 DEF FaucetInv, SavedBeforeSent, MinedInv, NonceInv, l2Vars
  <2>5. QED
    BY <2>2, <2>3, <2>4, TablesUnchanged DEF FaucetInv, l2Vars
<1>10. CASE /\ UNCHANGED <<deposits, drips, chainNonce, mined, reverted, staleNonce>>
            /\ pool' \subseteq pool \cup {d.tx : d \in drips}
            /\ fpc' # "off" => fpc # "off" /\ nonce' = nonce
            /\ LoopInv'
  <2>1. SavedBeforeSent' /\ MinedInv' /\ NonceInv'
    BY <1>10 DEF FaucetInv, SavedBeforeSent, MinedInv, NonceInv
  <2>2. QED
    BY <1>10, <2>1, TablesUnchanged DEF FaucetInv
<1>11. CASE BeginSend \/ BeginCheck
  <2>1. LoopInv'
    BY <1>11 DEF BeginSend, BeginCheck, ToDecide, ToCheck, FirstIds, IdsWithStatus, LoopInv
  <2>2. QED
    BY <1>10, <1>11, <2>1 DEF BeginSend, BeginCheck, l2Vars
<1>12. CASE SkipSend \/ SkipCheck \/ EndSend \/ AbortSend \/ EndCheck \/ Crash
  <2>1. LoopInv'
    BY <1>12 DEF SkipSend, SkipCheck, EndSend, AbortSend, EndCheck, Crash, EndLoop, LoopInv,
                 FaucetInv, loopVars
  <2>2. QED
    BY <1>10, <1>12, <2>1 DEF SkipSend, SkipCheck, EndSend, AbortSend, EndCheck, Crash, EndLoop,
                              l2Vars
<1>13. CASE Broadcast \/ BroadcastFails
  <2>1. LoopInv'
    BY <1>13 DEF Broadcast, BroadcastFails, EndLoop, LoopInv, FaucetInv
  <2>2. cur \in drips
    BY <1>13 DEF Broadcast, BroadcastFails, LoopInv, FaucetInv
  <2>3. QED
    BY <1>10, <1>13, <2>1, <2>2 DEF Broadcast, BroadcastFails, EndLoop, Holding
<1>14. CASE Resend \/ ResendFails
  <2>1. LoopInv'
    BY <1>14 DEF Resend, ResendFails, LoopInv, FaucetInv
  <2>2. QED
    BY <1>10, <1>14, <2>1 DEF Resend, ResendFails, Holding, l2Vars
<1>15. CASE UNCHANGED vars
  <2>1. LoopInv'
    BY <1>15 DEF vars, loopVars, LoopInv, FaucetInv, Receiver, HasGotDrip
  <2>2. QED
    BY <1>10, <1>15, <2>1 DEF vars, l2Vars
<1>16. QED
  BY <1>1, <1>2, <1>3, <1>4, <1>5, <1>6, <1>7, <1>8, <1>9, <1>11, <1>12, <1>13, <1>14, <1>15
     DEF Next, FaucetStep, SendDrips, CheckDrips, L2

LEMMA FaucetInvInit == Init => FaucetInv
<1> SUFFICES ASSUME Init, TypeOK PROVE FaucetInv
  BY InitType
<1> USE DEF Init, InitFaucet
<1>1. LoopInv /\ TablesAgree /\ OneDripEach /\ SavedBeforeSent
  BY DEF LoopInv, TablesAgree, OneDripEach, SavedBeforeSent
<1>2. MinedInv /\ DoneIsMined /\ NonceInv /\ NoncesInOrder
  BY DEF MinedInv, DoneIsMined, NonceInv, NoncesInOrder
<1>3. QED
  BY <1>1, <1>2 DEF FaucetInv

LEMMA FaucetInvAlways == Spec => []FaucetInv
<1>1. Init => FaucetInv
  BY FaucetInvInit
<1>2. FaucetInv /\ TypeOK' /\ [Next]_vars => FaucetInv'
  BY FaucetInvInductive
<1>3. QED
  BY <1>1, <1>2, FaucetTypeCorrect, PTL DEF Spec

\* The two tables agree at any moment: a deposit is being processed or done
\* exactly if it has a drip, and then it has one only, to its receiver.
THEOREM FaucetTablesAgree == Spec => []TablesAgree
<1>1. FaucetInv => TablesAgree
  BY DEF FaucetInv
<1>2. QED
  BY <1>1, FaucetInvAlways, PTL

\* Every transaction that reached the chain or the pool is in the `drips` table.
THEOREM FaucetSavesBeforeSending == Spec => []SavedBeforeSent
<1>1. FaucetInv => SavedBeforeSent
  BY DEF FaucetInv
<1>2. QED
  BY <1>1, FaucetInvAlways, PTL

\* No address is paid twice, whatever crashes, errors, lost answers, evictions
\* and reused nonces do.
THEOREM FaucetPaysOnce == Spec => []PaidAtMostOnce
<1>1. FaucetInv => PaidAtMostOnce
  BY DEF FaucetInv, SavedBeforeSent, OneDripEach, PaidAtMostOnce
<1>2. QED
  BY <1>1, FaucetInvAlways, PTL

\* A deposit is marked as done only after its own drip was mined, and only a
\* receiver that refused its drip has not got it.
THEOREM FaucetDoneIsPaid == Spec => []DoneIsPaid
<1>1. FaucetInv => DoneIsPaid
  BY DEF FaucetInv, DoneIsMined, MinedInv, DoneIsPaid, GotMetis
<1>2. QED
  BY <1>1, FaucetInvAlways, PTL

\* Unless a nonce was reused after a restart or a lost answer, the drips have
\* different nonces without a gap, whichever step of the loop failed.
THEOREM FaucetNoncesInOrder == Spec => []NoncesInOrder
<1>1. FaucetInv => NoncesInOrder
  BY DEF FaucetInv
<1>2. QED
  BY <1>1, FaucetInvAlways, PTL

-----------------------------------------------------------------------------
(* The faucet implements DepositLedger *)

Granted == {d.pid : d \in drips}
Paid    == {d.pid : d \in {e \in drips : e.tx \in mined \ reverted}}
Lost    == {d.pid : d \in {e \in drips : e.tx \in reverted}}

\* Every step of the faucet, of L2 or of the table's environment is a step of
\* the ledger, or changes nothing the ledger has.
LEMMA LedgerStep ==
  ASSUME FaucetInv, [Next]_vars
  PROVE  [Ledger!Next]_Ledger!vars
<1> USE DEF Granted, Paid, Lost, Ledger!SetStatus, SetStatus, Ledger!Unprocessed, Unprocessed,
           Ledger!Processing, Processing, Ledger!Ignored, Ignored, Ledger!Done, Done
<1>1. CASE MineTx \/ RevertTx
  <2>1. PICK tx \in pool :
          /\ Include(tx)
          /\ \/ reverted' = reverted
             \/ tx.to \in Contracts /\ reverted' = reverted \cup {tx}
    BY <1>1 DEF MineTx, RevertTx
  <2>2. /\ tx \notin mined /\ mined' = mined \cup {tx} /\ UNCHANGED <<deposits, drips>>
        /\ reverted \subseteq mined
    BY <2>1, IncludeEffect DEF FaucetInv, TypeOK
  <2>3. PICK d \in drips : d.tx = tx
    BY <2>1 DEF FaucetInv, SavedBeforeSent
  <2>4. \A e \in drips : (e.tx = tx => e = d) /\ (e.pid = d.pid => e = d)
    BY <2>3 DEF FaucetInv, OneDripEach, TablesAgree
  <2>5. d.pid \in DOMAIN deposits /\ d.pid \in Granted /\ d.pid \notin Paid \cup Lost
    BY <2>2, <2>3, <2>4 DEF FaucetInv, TablesAgree
  <2>6. CASE reverted' = reverted
    <3>1. Paid' = Paid \cup {d.pid} /\ Lost' = Lost
      BY <2>2, <2>3, <2>4, <2>6
    <3>2. Ledger!Pay(d.pid)
      BY <2>2, <2>5, <3>1 DEF Ledger!Pay
    <3>3. QED
      BY <2>5, <3>2 DEF Ledger!Next
  <2>7. CASE tx.to \in Contracts /\ reverted' = reverted \cup {tx}
    <3>1. Lost' = Lost \cup {d.pid} /\ Paid' = Paid
      BY <2>2, <2>3, <2>4, <2>7
    <3>2. Ledger!Receiver(d.pid) = tx.to
      BY <2>3 DEF FaucetInv, TablesAgree, Receiver, Ledger!Receiver
    <3>3. Ledger!Lose(d.pid)
      BY <2>2, <2>5, <2>7, <3>1, <3>2 DEF Ledger!Lose
    <3>4. QED
      BY <2>5, <3>3 DEF Ledger!Next
  <2>8. QED
    BY <2>1, <2>6, <2>7
<1>2. CASE NewDeposit
  <2>1. RowsAdded /\ UNCHANGED <<drips, mined, reverted>>
    BY <1>2, NewDepositAddsRows DEF NewDeposit, FaucetInv, l2Vars
  <2>2. Ledger!Record
    BY <2>1 DEF Ledger!Record, RowsAdded
  <2>3. QED
    BY <2>2 DEF Ledger!Next
<1>3. CASE Decline
  <2>1. PICK i \in todo : deposits' = SetStatus(deposits, i, Ignored)
    BY <1>3 DEF Decline
  <2>2. i \in DOMAIN deposits /\ deposits[i].status = Unprocessed /\ UNCHANGED <<drips, mined, reverted>>
    BY <1>3, <2>1 DEF Decline, FaucetInv, TypeOK, LoopInv, l2Vars
  <2>3. Ledger!Ignore(i)
    BY <2>1, <2>2 DEF Ledger!Ignore
  <2>4. QED
    BY <2>2, <2>3 DEF Ledger!Next
<1>4. CASE NewDrip \/ NewDripLosesAck
  <2>1. /\ drips' = drips \cup {cur} /\ deposits' = SetStatus(deposits, cur.pid, Processing)
        /\ UNCHANGED <<mined, reverted>>
    BY <1>4 DEF NewDrip, NewDripLosesAck, CommitNewDrip, InsertDrip, UpdateDeposit, l2Vars
  <2>2. /\ cur.pid \in DOMAIN deposits /\ deposits[cur.pid].status = Unprocessed
        /\ cur.tx.to = Receiver(cur.pid) /\ \A d \in drips : d.tx.to # cur.tx.to
    BY <1>4 DEF NewDrip, NewDripLosesAck, FaucetInv, LoopInv, HasGotDrip
  <2>3. PICK i \in DOMAIN deposits : i = cur.pid
    BY <2>2
  <2>4. cur.tx \notin mined /\ cur.tx \notin reverted
    BY <2>2 DEF FaucetInv, SavedBeforeSent, TypeOK
  <2>5. Granted' = Granted \cup {i} /\ Paid' = Paid /\ Lost' = Lost
    BY <2>1, <2>3, <2>4
  <2>6. \A j \in Granted : Ledger!Receiver(j) # Ledger!Receiver(i)
    BY <2>2, <2>3 DEF Ledger!Receiver, Receiver, FaucetInv, TablesAgree
  <2>7. Ledger!Grant(i)
    BY <2>1, <2>2, <2>3, <2>5, <2>6 DEF Ledger!Grant
  <2>8. QED
    BY <2>7 DEF Ledger!Next
<1>5. CASE Settle
  <2>1. PICK d \in drips : /\ deposits' = SetStatus(deposits, d.pid, Done)
                           /\ d.pid \in todo /\ d.tx \in mined
    BY <1>5 DEF Settle, IsNext, HasReceipt
  <2>2. /\ d.pid \in DOMAIN deposits /\ deposits[d.pid].status = Processing
        /\ UNCHANGED <<drips, mined, reverted>>
    BY <1>5, <2>1 DEF Settle, FaucetInv, TypeOK, LoopInv, l2Vars
  <2>3. Ledger!Settle(d.pid)
    BY <2>1, <2>2 DEF Ledger!Settle
  <2>4. QED
    BY <2>2, <2>3 DEF Ledger!Next
<1>6. CASE UNCHANGED <<deposits, drips, mined, reverted>>
  BY <1>6 DEF Ledger!vars
<1>7. QED
  BY <1>1, <1>2, <1>3, <1>4, <1>5, <1>6 DEF Next, FaucetStep, SendDrips, CheckDrips, L2, Initial,
     Crash, DropTx, TopUp, BeginSend, SkipSend, Approve, Broadcast, BroadcastFails, EndSend,
     AbortSend, BeginCheck, SkipCheck, Resend, ResendFails, EndCheck, vars, l2Vars

\* The faucet implements the abstract ledger: each deposit is ignored or granted
\* once, each receiver is granted one drip, each drip is paid once and before
\* its deposit is done, and none of this is ever undone.
THEOREM FaucetImplementsLedger == Spec => KeepsLedger
<1>1. Init => Ledger!Init
  BY DEF Init, InitFaucet, Ledger!Init
<1>2. FaucetInv /\ [Next]_vars => [Ledger!Next]_Ledger!vars
  BY LedgerStep
<1>3. QED
  BY <1>1, <1>2, FaucetInvAlways, PTL DEF Spec, KeepsLedger, Ledger!Spec
=============================================================================
