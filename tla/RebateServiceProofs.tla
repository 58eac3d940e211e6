------------------------ MODULE RebateServiceProofs ------------------------
(***************************************************************************)
(* What the whole process guarantees for every value of its constants: the *)
(* invariants of the syncer and of the faucet still hold when both work on *)
(* one table.                                                              *)
(***************************************************************************)
EXTENDS RebateService, Sequences, TLAPS

SP == INSTANCE BridgeSyncProofs
FP == INSTANCE FaucetProofs WITH
        Event <- Sync!Event, Heights <- Sync!Heights, MaxDeposits <- 0

-----------------------------------------------------------------------------
(* The two instances that RebateService makes, and those that come with    *)
(* the theorems about them, are the same.                                  *)

LEMMA Assumptions == SP!SyncAssumption /\ FP!FaucetAssumption
  BY ServiceAssumption DEF Sync!SyncAssumption, Fct!FaucetAssumption, SP!SyncAssumption,
     FP!FaucetAssumption, Sync!IsFiniteSet, SP!IsFiniteSet, Sync!Heights, SP!Heights

LEMMA SameSync ==
  /\ Sync!Syncer \/ Sync!L1 => SP!Syncer \/ SP!L1
  /\ Sync!Crash => SP!Crash
<1> USE DEF Sync!chainVars, SP!chainVars, Sync!dbVars, SP!dbVars, Sync!runVars, SP!runVars,
      Sync!history, SP!history, Sync!Heights, SP!Heights, Sync!Event, SP!Event, Sync!ForgetRun,
      SP!ForgetRun, Sync!Logs, SP!Logs, Sync!NodeHead, SP!NodeHead, Sync!CommitSyncedData,
      SP!CommitSyncedData, Sync!RowSeqs, SP!RowSeqs, Sync!NewRow, SP!NewRow, Sync!StatusOf,
      SP!StatusOf, Sync!SavedHeight, SP!SavedHeight, Sync!Ignored, SP!Ignored, Sync!Unprocessed,
      SP!Unprocessed, Sync!Cardinality, SP!Cardinality, Sync!IsFiniteSet, SP!IsFiniteSet,
      Sync!Bijection, SP!Bijection, Sync!Injection, SP!Injection, Sync!Surjection,
      SP!Surjection, Sync!IsInjective, SP!IsInjective
<1>1. Sync!Prefight => SP!Prefight
  BY DEF Sync!Prefight, SP!Prefight, Sync!AfterSaved, SP!AfterSaved, Sync!NoHeight, SP!NoHeight
<1>2. Sync!StartRun => SP!StartRun
  BY DEF Sync!StartRun, SP!StartRun, Sync!ConfirmedHeight, SP!ConfirmedHeight
<1>3. Sync!BeginRange => SP!BeginRange
  BY DEF Sync!BeginRange, SP!BeginRange, Sync!More, SP!More, Sync!EndOfRange, SP!EndOfRange
<1>4. Sync!EndRun => SP!EndRun
  BY DEF Sync!EndRun, SP!EndRun, Sync!More, SP!More
<1>5. Sync!FilterERC20Deposits => SP!FilterERC20Deposits
  BY DEF Sync!FilterERC20Deposits, SP!FilterERC20Deposits
<1>6. Sync!FilterETHDeposits => SP!FilterETHDeposits
  BY DEF Sync!FilterETHDeposits, SP!FilterETHDeposits
<1>7. Sync!SaveSyncedData => SP!SaveSyncedData
  BY DEF Sync!SaveSyncedData, SP!SaveSyncedData, Sync!AfterRange, SP!AfterRange
<1>8. Sync!SaveLosesAck => SP!SaveLosesAck
  BY DEF Sync!SaveLosesAck, SP!SaveLosesAck
<1>9. Sync!RunFails => SP!RunFails
  BY DEF Sync!RunFails, SP!RunFails, Sync!InRange, SP!InRange
<1>10. Sync!MineBlock => SP!MineBlock
  BY DEF Sync!MineBlock, SP!MineBlock, Sync!Mined, SP!Mined
<1>11. Sync!Reorg => SP!Reorg
  BY DEF Sync!Reorg, SP!Reorg
<1>12. Sync!Crash => SP!Crash
  BY DEF Sync!Crash, SP!Crash
<1>13. QED
  BY <1>1, <1>2, <1>3, <1>4, <1>5, <1>6, <1>7, <1>8, <1>9, <1>10, <1>11, <1>12
     DEF Sync!Syncer, SP!Syncer, Sync!L1, SP!L1

LEMMA SameFaucet ==
  /\ Fct!FaucetStep \/ Fct!L2 => FP!FaucetStep \/ FP!L2
  /\ Fct!Crash => FP!Crash
<1> USE DEF Fct!loopVars, FP!loopVars, Fct!l2Vars, FP!l2Vars, Fct!NoDrip, FP!NoDrip,
      Fct!EndLoop, FP!EndLoop, Fct!Receiver, FP!Receiver, Fct!Accepts, FP!Accepts, Fct!Holding,
      FP!Holding, Fct!Include, FP!Include, Fct!IsNext, FP!IsNext, Fct!SetStatus, FP!SetStatus,
      Fct!CommitNewDrip, FP!CommitNewDrip, Fct!InsertDrip, FP!InsertDrip, Fct!UpdateDeposit,
      FP!UpdateDeposit, Fct!FirstIds, FP!FirstIds, Fct!IdsWithStatus, FP!IdsWithStatus,
      Fct!Cardinality, FP!Cardinality, Fct!IsFiniteSet, FP!IsFiniteSet, Fct!Unprocessed,
      FP!Unprocessed, Fct!Processing, FP!Processing, Fct!Done, FP!Done, Fct!Ignored, FP!Ignored
<1>1. Fct!Initial => FP!Initial
  BY DEF Fct!Initial, FP!Initial
<1>2. Fct!BeginSend => FP!BeginSend
  BY DEF Fct!BeginSend, FP!BeginSend, Fct!ToDecide, FP!ToDecide
<1>3. Fct!SkipSend => FP!SkipSend
  BY DEF Fct!SkipSend, FP!SkipSend
<1>4. Fct!Decline => FP!Decline
  BY DEF Fct!Decline, FP!Decline
<1>5. Fct!Approve => FP!Approve
  BY DEF Fct!Approve, FP!Approve, Fct!HasGotDrip, FP!HasGotDrip, Fct!GotMetis, FP!GotMetis
<1>6. Fct!NewDrip => FP!NewDrip
  BY DEF Fct!NewDrip, FP!NewDrip, Fct!NextNonce, FP!NextNonce
<1>7. Fct!NewDripLosesAck => FP!NewDripLosesAck
  BY DEF Fct!NewDripLosesAck, FP!NewDripLosesAck
<1>8. Fct!Broadcast => FP!Broadcast
  BY DEF Fct!Broadcast, FP!Broadcast
<1>9. Fct!BroadcastFails => FP!BroadcastFails
  BY DEF Fct!BroadcastFails, FP!BroadcastFails
<1>10. Fct!EndSend => FP!EndSend
  BY DEF Fct!EndSend, FP!EndSend
<1>11. Fct!AbortSend => FP!AbortSend
  BY DEF Fct!AbortSend, FP!AbortSend
<1>12. Fct!BeginCheck => FP!BeginCheck
  BY DEF Fct!BeginCheck, FP!BeginCheck, Fct!ToCheck, FP!ToCheck
<1>13. Fct!SkipCheck => FP!SkipCheck
  BY DEF Fct!SkipCheck, FP!SkipCheck
<1>14. Fct!Settle => FP!Settle
  BY DEF Fct!Settle, FP!Settle, Fct!HasReceipt, FP!HasReceipt
<1>15. Fct!Resend => FP!Resend
  BY DEF Fct!Resend, FP!Resend
<1>16. Fct!ResendFails => FP!ResendFails
  BY DEF Fct!ResendFails, FP!ResendFails
<1>17. Fct!EndCheck => FP!EndCheck
  BY DEF Fct!EndCheck, FP!EndCheck
<1>18. Fct!MineTx => FP!MineTx
  BY DEF Fct!MineTx, FP!MineTx
<1>19. Fct!RevertTx => FP!RevertTx
  BY DEF Fct!RevertTx, FP!RevertTx
<1>20. Fct!DropTx => FP!DropTx
  BY DEF Fct!DropTx, FP!DropTx
<1>21. Fct!TopUp => FP!TopUp
  BY DEF Fct!TopUp, FP!TopUp
<1>22. Fct!Crash => FP!Crash
  BY DEF Fct!Crash, FP!Crash
<1>23. QED
  BY <1>1, <1>2, <1>3, <1>4, <1>5, <1>6, <1>7, <1>8, <1>9, <1>10, <1>11, <1>12, <1>13, <1>14,
     <1>15, <1>16, <1>17, <1>18, <1>19, <1>20, <1>21, <1>22
     DEF Fct!FaucetStep, FP!FaucetStep, Fct!SendDrips, FP!SendDrips, Fct!CheckDrips,
         FP!CheckDrips, Fct!L2, FP!L2

LEMMA SameInit == Init => SP!Init /\ FP!Init
  BY DEF Init, Sync!Init, SP!Init, Fct!InitFaucet, FP!InitFaucet, FP!Init, Sync!Heights,
     SP!Heights, Sync!NoHeight, SP!NoHeight, Fct!NoDrip, FP!NoDrip

\* A step of the process is one of the syncer or L1, one of the faucet or L2, or
\* one of neither that leaves the table alone.
BySync   == (SP!Syncer \/ SP!L1) /\ UNCHANGED faucetVars
ByFaucet == (FP!FaucetStep \/ FP!L2) /\ UNCHANGED syncVars
ByNone   == [SP!Next]_SP!vars /\ [FP!Next]_FP!vars /\ UNCHANGED deposits

LEMMA Step == [Next]_vars => BySync \/ ByFaucet \/ ByNone
<1> SUFFICES ASSUME [Next]_vars PROVE BySync \/ ByFaucet \/ ByNone
  OBVIOUS
<1> USE DEF SP!vars, SP!chainVars, SP!dbVars, SP!runVars, SP!history,
            FP!vars, FP!loopVars, FP!l2Vars, syncVars, faucetVars
<1>1. SP!Crash \/ FP!Crash => UNCHANGED deposits
  BY DEF SP!Crash, FP!Crash
<1>2. CASE SyncerStep
  BY <1>2, SameSync DEF SyncerStep, BySync
<1>3. CASE FaucetStep
  BY <1>3, SameFaucet DEF FaucetStep, ByFaucet
<1>4. CASE Crash
  <2>1. SP!Crash \/ UNCHANGED syncVars
    BY <1>4, SameSync DEF Crash
  <2>2. FP!Crash \/ UNCHANGED faucetVars
    BY <1>4, SameFaucet DEF Crash
  <2>3. UNCHANGED deposits
    BY <1>1, <1>4, SameSync, SameFaucet DEF Crash
  <2>4. [SP!Next]_SP!vars
    BY <2>1, <2>3 DEF SP!Next
  <2>5. [FP!Next]_FP!vars
    BY <2>2, <2>3 DEF FP!Next
  <2>6. QED
    BY <2>3, <2>4, <2>5 DEF ByNone
<1>5. CASE UNCHANGED vars
  BY <1>5 DEF vars, ByNone
<1>6. QED
  BY <1>2, <1>3, <1>4, <1>5 DEF Next

-----------------------------------------------------------------------------
(* The rows *)

\* Only deposits that may earn a drip are not ignored.
RowsEarn ==
  \A i \in DOMAIN deposits :
    deposits[i].status # SP!Ignored =>
      deposits[i].event \notin MetisDeposits /\ DripHeight <= deposits[i].height

ServiceInv == SP!TypeOK /\ FP!FaucetInv /\ RowsEarn

\* The syncer adds rows, whose status is right, and leaves the others alone.
LEMMA SyncerAddsRows ==
  ASSUME SP!TypeOK, BySync
  PROVE  /\ FP!RowsAdded /\ SP!TypeOK' /\ (RowsEarn => RowsEarn')
<1>1. SP!TypeOK'
  BY Assumptions, SP!TypeStep DEF BySync, SP!Next
<1>2. CASE SP!CommitSyncedData
  <2>1. /\ DOMAIN deposits \subseteq DOMAIN deposits'
        /\ \A i \in DOMAIN deposits : deposits'[i] = deposits[i]
        /\ \A i \in DOMAIN deposits' \ DOMAIN deposits :
             \E l \in erc20Logs \cup ethLogs : deposits'[i] = SP!NewRow(l)
    BY <1>2, Assumptions, SP!CommitEffect
  <2>2. ASSUME NEW l \in erc20Logs \cup ethLogs
        PROVE  /\ SP!NewRow(l).status \in {SP!Unprocessed, SP!Ignored}
               /\ SP!NewRow(l).status # SP!Ignored =>
                    SP!NewRow(l).event \notin MetisDeposits /\ DripHeight <= SP!NewRow(l).height
    <3>1. l.block \in Nat /\ DripHeight \in Nat
      BY Assumptions DEF SP!TypeOK, SP!Heights, SP!SyncAssumption
    <3>2. QED
      BY <3>1 DEF SP!NewRow, SP!StatusOf, SP!Unprocessed, SP!Ignored
  <2>3. FP!RowsAdded
    BY <2>1, <2>2 DEF FP!RowsAdded, FP!Unprocessed, FP!Ignored, SP!Unprocessed, SP!Ignored
  <2>4. RowsEarn => RowsEarn'
    BY <2>1, <2>2 DEF RowsEarn
  <2>5. QED
    BY <1>1, <2>3, <2>4
<1>3. CASE UNCHANGED deposits
  BY <1>1, <1>3 DEF FP!RowsAdded, RowsEarn
<1>4. QED
  BY <1>2, <1>3 DEF BySync, SP!Syncer, SP!L1, SP!Prefight, SP!StartRun, SP!BeginRange, SP!EndRun,
     SP!FilterERC20Deposits, SP!FilterETHDeposits, SP!SaveSyncedData, SP!SaveLosesAck,
     SP!RunFails, SP!MineBlock, SP!Reorg, SP!dbVars

LEMMA SameRow == SP!Row = FP!Row
  BY DEF SP!Row, FP!Row, SP!Event, Sync!Event, SP!Heights, Sync!Heights, SP!DepositStatus,
     FP!DepositStatus, SP!Unprocessed, FP!Unprocessed, SP!Processing, FP!Processing, SP!Done,
     FP!Done, SP!Ignored, FP!Ignored

\* What each part relies on is kept by the other one.
LEMMA ServiceStep == ServiceInv /\ [Next]_vars => ServiceInv'
<1> SUFFICES ASSUME ServiceInv, [Next]_vars PROVE ServiceInv'
  OBVIOUS
<1>1. CASE BySync
  <2>1. FP!RowsAdded /\ SP!TypeOK' /\ RowsEarn'
    BY <1>1, SyncerAddsRows DEF ServiceInv
  <2>2. /\ UNCHANGED <<drips, fpc, nonce, FP!loopVars, FP!l2Vars, staleNonce>>
    BY <1>1 DEF BySync, faucetVars, FP!loopVars, FP!l2Vars
  <2>3. FP!TypeOK'
    <3>1. deposits' \in Seq(FP!Row)
      BY <2>1, SameRow DEF SP!TypeOK
    <3>2. todo' \in SUBSET (DOMAIN deposits')
      BY <2>1, <2>2 DEF ServiceInv, FP!FaucetInv, FP!TypeOK, FP!RowsAdded, FP!loopVars
    <3>3. QED
      BY <2>2, <3>1, <3>2 DEF ServiceInv, FP!FaucetInv, FP!TypeOK, FP!loopVars, FP!l2Vars
  <2>4. FP!FaucetInv'
    BY <2>1, <2>2, <2>3, Assumptions, FP!RowsAddedKeepInv DEF ServiceInv
  <2>5. QED
    BY <2>1, <2>4 DEF ServiceInv
<1>2. CASE ByFaucet
  <2>1. FP!FaucetInv'
    <3>1. FP!TypeOK'
      BY <1>2, Assumptions, FP!TypeStep DEF ServiceInv, FP!FaucetInv, ByFaucet, FP!Next
    <3>2. QED
      BY <1>2, <3>1, Assumptions, FP!FaucetInvInductive DEF ServiceInv, ByFaucet, FP!Next
  <2>2. SP!TypeOK'
    <3>1. deposits' \in Seq(SP!Row)
      BY <2>1, SameRow DEF FP!FaucetInv, FP!TypeOK
    <3>2. QED
      BY <1>2, <3>1 DEF ServiceInv, SP!TypeOK, ByFaucet, syncVars
  <2>3. RowsEarn'
    <3>1. /\ DOMAIN deposits' = DOMAIN deposits
          /\ \A i \in DOMAIN deposits :
               /\ deposits'[i].event = deposits[i].event
               /\ deposits'[i].height = deposits[i].height
               /\ deposits[i].status = FP!Ignored => deposits'[i].status = FP!Ignored
      BY <1>2, Assumptions, FP!RowsKept DEF ServiceInv, ByFaucet
    <3>2. QED
      BY <3>1 DEF ServiceInv, RowsEarn, FP!Ignored, SP!Ignored
  <2>4. QED
    BY <2>1, <2>2, <2>3 DEF ServiceInv
<1>3. CASE ByNone
  <2>1. SP!TypeOK'
    BY <1>3, Assumptions, SP!TypeStep DEF ServiceInv, ByNone
  <2>2. FP!TypeOK'
    BY <1>3, Assumptions, FP!TypeStep DEF ServiceInv, FP!FaucetInv, ByNone
  <2>3. FP!FaucetInv'
    BY <1>3, <2>2, Assumptions, FP!FaucetInvInductive DEF ServiceInv, ByNone
  <2>4. QED
    BY <1>3, <2>1, <2>3 DEF ServiceInv, RowsEarn, ByNone
<1>4. QED
  BY <1>1, <1>2, <1>3, Step

LEMMA ServiceInvAlways == Spec => []ServiceInv
<1>1. Init => ServiceInv
  <2> SUFFICES ASSUME Init PROVE ServiceInv
    OBVIOUS
  <2>1. FP!FaucetInv
    BY Assumptions, SameInit, FP!FaucetInvInit
  <2>2. SP!SyncInv
    BY Assumptions, SameInit, SP!SyncInvInit
  <2>3. RowsEarn
    BY SameInit DEF SP!Init, RowsEarn
  <2>4. QED
    BY <2>1, <2>2, <2>3 DEF ServiceInv, SP!SyncInv
<1>2. QED
  BY <1>1, ServiceStep, PTL DEF Spec

\* One deposit never leads to two drips, however many rows the syncer made of it.
THEOREM ServiceRebatesOnce == Spec => []OneRebatePerDeposit
<1>1. ServiceInv => OneRebatePerDeposit
  BY DEF ServiceInv, FP!FaucetInv, FP!TablesAgree, FP!OneDripEach, FP!Receiver,
     OneRebatePerDeposit
<1>2. QED
  BY <1>1, ServiceInvAlways, PTL

-----------------------------------------------------------------------------
(* The process implements DepositLedger *)

LEMMA SameLedger ==
  /\ FP!Ledger!Init => Fct!Ledger!Init
  /\ [FP!Ledger!Next]_FP!Ledger!vars => [Fct!Ledger!Next]_Fct!Ledger!vars
  BY DEF FP!Ledger!Init, Fct!Ledger!Init, FP!Ledger!Next, Fct!Ledger!Next, FP!Ledger!vars,
     Fct!Ledger!vars, FP!Ledger!Record, Fct!Ledger!Record, FP!Ledger!Ignore, Fct!Ledger!Ignore,
     FP!Ledger!Grant, Fct!Ledger!Grant, FP!Ledger!Pay, Fct!Ledger!Pay, FP!Ledger!Lose,
     Fct!Ledger!Lose, FP!Ledger!Settle, Fct!Ledger!Settle, FP!Ledger!Receiver,
     Fct!Ledger!Receiver, FP!Ledger!SetStatus, Fct!Ledger!SetStatus, FP!Ledger!Unprocessed,
     Fct!Ledger!Unprocessed, FP!Ledger!Processing, Fct!Ledger!Processing, FP!Ledger!Done,
     Fct!Ledger!Done, FP!Ledger!Ignored, Fct!Ledger!Ignored

\* The process as a whole keeps the ledger, whatever the order in which syncer
\* and faucet write the table they share.
THEOREM ServiceImplementsLedger == Spec => KeepsLedger
<1>1. Init => Fct!Ledger!Init
  BY Assumptions, SameInit, SameLedger DEF FP!Init, FP!InitFaucet, FP!Ledger!Init
<1>2. ServiceInv /\ [Next]_vars => [Fct!Ledger!Next]_Fct!Ledger!vars
  <2> SUFFICES ASSUME ServiceInv, [Next]_vars PROVE [FP!Ledger!Next]_FP!Ledger!vars
    BY SameLedger
  <2>1. CASE BySync
    <3>1. FP!RowsAdded /\ UNCHANGED <<drips, mined, reverted>>
      BY <2>1, SyncerAddsRows DEF ServiceInv, BySync, faucetVars
    <3>2. FP!Ledger!Record
      BY <3>1 DEF FP!RowsAdded, FP!Ledger!Record, FP!Unprocessed, FP!Ledger!Unprocessed,
         FP!Ignored, FP!Ledger!Ignored
    <3>3. QED
      BY <3>2 DEF FP!Ledger!Next
  <2>2. CASE ByFaucet
    BY <2>2, Assumptions, FP!LedgerStep DEF ServiceInv, ByFaucet, FP!Next
  <2>3. CASE ByNone
    BY <2>3, Assumptions, FP!LedgerStep DEF ServiceInv, ByNone
  <2>4. QED
    BY <2>1, <2>2, <2>3, Step
<1>3. QED
  BY <1>1, <1>2, ServiceInvAlways, PTL DEF Spec, KeepsLedger, Fct!KeepsLedger, Fct!Ledger!Spec

-----------------------------------------------------------------------------
(* Drips are earned *)

\* The faucet changes nothing the syncer relies on.
LEMMA FaucetKeepsSyncInv ==
  ASSUME ServiceInv, ServiceInv', SP!SyncInv, ByFaucet
  PROVE  SP!SyncInv'
<1>1. /\ DOMAIN deposits' = DOMAIN deposits
      /\ \A i \in DOMAIN deposits : /\ deposits'[i].event = deposits[i].event
                                    /\ deposits'[i].height = deposits[i].height
  BY Assumptions, FP!RowsKept DEF ServiceInv, ByFaucet
<1>2. UNCHANGED syncVars
  BY DEF ByFaucet
<1>3. SP!TypeOK' /\ SP!CursorInv' /\ SP!RangeInv'
  BY <1>2 DEF ServiceInv, SP!SyncInv, SP!CursorInv, SP!RangeInv, syncVars
<1>4. SP!LogsInv'
  BY <1>2 DEF SP!SyncInv, SP!LogsInv, SP!AllLogs, syncVars
<1>5. SP!RowsInv'
  BY <1>1, <1>2 DEF SP!SyncInv, SP!RowsInv, syncVars
<1>6. SP!NoMissedDeposit'
  BY <1>1, <1>2 DEF SP!SyncInv, SP!NoMissedDeposit, SP!Recorded, SP!Synced, syncVars
<1>7. QED
  BY <1>3, <1>4, <1>5, <1>6 DEF SP!SyncInv

LEMMA SyncInvAlways ==
  ASSUME Sync!Finality
  PROVE  Spec => []SP!SyncInv
<1> SP!Finality
  BY DEF Sync!Finality, SP!Finality
<1>1. Init => SP!SyncInv
  BY Assumptions, SameInit, SP!SyncInvInit
<1>2. ServiceInv /\ ServiceInv' /\ SP!SyncInv /\ [Next]_vars => SP!SyncInv'
  <2> SUFFICES ASSUME ServiceInv, ServiceInv', SP!SyncInv, [Next]_vars PROVE SP!SyncInv'
    OBVIOUS
  <2>1. CASE ByFaucet
    BY <2>1, FaucetKeepsSyncInv
  <2>2. CASE BySync
    BY <2>2, Assumptions, SP!SyncInvInductive DEF ServiceInv, BySync, SP!Next
  <2>3. CASE ByNone
    BY <2>3, Assumptions, SP!SyncInvInductive DEF ServiceInv, ByNone
  <2>4. QED
    BY <2>1, <2>2, <2>3, Step
<1>3. QED
  BY <1>1, <1>2, ServiceInvAlways, PTL DEF Spec

\* With final blocks every drip stands for a deposit that is still on the L1
\* chain, is not of Metis, and is not before the height from which drips are
\* given.
THEOREM ServiceRebatesAreEarned ==
  ASSUME Sync!Finality
  PROVE  Spec => []RebatesAreEarned
<1>1. ServiceInv /\ SP!SyncInv => RebatesAreEarned
  <2> SUFFICES ASSUME ServiceInv, SP!SyncInv, NEW d \in drips
               PROVE  /\ deposits[d.pid].event \in chain[deposits[d.pid].height]
                      /\ deposits[d.pid].event \notin MetisDeposits
                      /\ deposits[d.pid].height >= DripHeight
    BY DEF RebatesAreEarned
  <2>1. d.pid \in DOMAIN deposits /\ deposits[d.pid].status \in {FP!Processing, FP!Done}
    BY DEF ServiceInv, FP!FaucetInv, FP!TablesAgree
  <2>2. deposits[d.pid].status # SP!Ignored
    BY <2>1 DEF FP!Processing, FP!Done, SP!Ignored
  <2>3. deposits[d.pid] \in SP!Row
    BY <2>1 DEF ServiceInv, SP!TypeOK
  <2>4. deposits[d.pid].height \in Nat /\ DripHeight \in Nat
    BY <2>3, Assumptions DEF SP!Row, SP!Heights, SP!SyncAssumption
  <2>5. QED
    BY <2>1, <2>2, <2>4 DEF ServiceInv, RowsEarn, SP!SyncInv, SP!RowsInv
<1>2. QED
  BY <1>1, ServiceInvAlways, SyncInvAlways, PTL

\* The syncer misses no deposit of a final block, also while the faucet changes
\* the table.
THEOREM ServiceMissesNoDeposit ==
  ASSUME Sync!Finality
  PROVE  Spec => []Sync!NoMissedDeposit
<1>1. SP!SyncInv => Sync!NoMissedDeposit
  BY DEF SP!SyncInv, SP!NoMissedDeposit, Sync!NoMissedDeposit, SP!Synced, Sync!Synced,
     SP!Recorded, Sync!Recorded
<1>2. QED
  BY <1>1, SyncInvAlways, PTL
=============================================================================
