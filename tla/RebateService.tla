--------------------------- MODULE RebateService ---------------------------
(***************************************************************************)
(* The whole process, as main composes it: the data syncer and the faucet  *)
(* are two goroutines that share the `deposits` table and nothing else.    *)
(* The syncer adds rows, the faucet changes the status of rows.  When the  *)
(* process stops or is killed both lose their memory at once; when it is   *)
(* started each of them initialises itself.                                *)
(***************************************************************************)
EXTENDS Integers

CONSTANTS
  \* of BridgeSync
  ERC20Deposits, MetisDeposits, ETHDeposits, StartFrom, ConfirmationNumber, RangeSync,
  DripHeight, MaxHead, MaxReorg, MaxLag, MaxLostAcks,
  \* of Faucet
  Receivers, To, Contracts, Stuck, BatchLimit, PendingLimit, MinBalance, ReservedBalance, MaxBalance

VARIABLES
  deposits,
  \* of BridgeSync
  head, chain, dbHeight, pc, height, targetHeight, endHeight, erc20Logs, ethLogs, lostAcks,
  skipped,
  \* of Faucet
  drips, fpc, nonce, todo, recset, cur, chainNonce, balance, pool, mined, reverted, staleNonce

Sync == INSTANCE BridgeSync

\* NewDeposit, which MaxDeposits bounds, is not used: the syncer adds the rows.
Fct == INSTANCE Faucet WITH Event <- Sync!Event, Heights <- Sync!Heights, MaxDeposits <- 0

ASSUME ServiceAssumption == Sync!SyncAssumption /\ Fct!FaucetAssumption

syncVars   == <<head, chain, dbHeight, pc, height, targetHeight, endHeight, erc20Logs,
                ethLogs, lostAcks, skipped>>
faucetVars == <<drips, fpc, nonce, todo, recset, cur, chainNonce, balance, pool, mined,
                reverted, staleNonce>>
vars == <<deposits, syncVars, faucetVars>>

Init == Sync!Init /\ Fct!InitFaucet

\* The first goroutine of main, and L1 which it follows.
SyncerStep == (Sync!Syncer \/ Sync!L1) /\ UNCHANGED faucetVars

\* The second goroutine of main, and L2.
FaucetStep == (Fct!FaucetStep \/ Fct!L2) /\ UNCHANGED syncVars

\* A signal, a fatal error of one goroutine, or the end of the machine.
Crash == \/ Sync!Crash /\ Fct!Crash
         \/ Sync!Crash /\ fpc = "off" /\ UNCHANGED faucetVars
         \/ Fct!Crash /\ pc = "down" /\ UNCHANGED syncVars

Next == SyncerStep \/ FaucetStep \/ Crash

Spec == Init /\ [][Next]_vars

\* Both goroutines run, their calls succeed at some time when they are made
\* again and again, and what stays in the pool is mined, as in the modules that
\* describe them.  Here, unlike there, the process is killed finitely often only.
Fairness ==
  /\ <>[][~Crash]_vars
  /\ WF_vars(Sync!Syncer /\ UNCHANGED faucetVars)
  /\ SF_vars(Sync!FilterERC20Deposits /\ UNCHANGED faucetVars)
  /\ SF_vars(Sync!FilterETHDeposits /\ UNCHANGED faucetVars)
  /\ SF_vars(Sync!SaveSyncedData /\ UNCHANGED faucetVars)
  /\ WF_vars(Fct!FaucetStep /\ UNCHANGED syncVars)
  /\ SF_vars(Fct!BeginSend /\ UNCHANGED syncVars)
  /\ SF_vars((Fct!Decline \/ Fct!Approve) /\ UNCHANGED syncVars)
  /\ SF_vars(Fct!NewDrip /\ UNCHANGED syncVars)
  /\ SF_vars(Fct!BeginCheck /\ UNCHANGED syncVars)
  /\ SF_vars(Fct!Settle /\ UNCHANGED syncVars)
  /\ SF_vars(Fct!Resend /\ UNCHANGED syncVars)
  /\ SF_vars((Fct!MineTx \/ Fct!RevertTx) /\ UNCHANGED syncVars)

FairSpec == Spec /\ Fairness

-----------------------------------------------------------------------------
(* Properties *)

\* The process as a whole does what the abstract ledger promises, also when the
\* syncer adds rows while the faucet reads or updates others, and when a commit
\* that lost its answer made it add a deposit twice.
KeepsLedger == Fct!KeepsLedger

\* Every drip is for a deposit of the canonical L1 chain, of a token that is
\* not Metis, and not before the height from which drips are given.
RebatesAreEarned ==
  \A d \in drips :
    LET row == deposits[d.pid]
    IN /\ row.event \in chain[row.height]
       /\ row.event \notin MetisDeposits
       /\ row.height >= DripHeight

\* One deposit never leads to two drips, however many rows it has.
OneRebatePerDeposit ==
  \A d, e \in drips : deposits[d.pid].event = deposits[e.pid].event => d = e

\* From the bridge to the drip: every deposit of a final block gets its decision
\* and, if a drip was granted, the drip arrives, unless the account is too poor
\* or a nonce was reused.
DepositHandled ==
  \A e \in Sync!Event, h \in StartFrom + 1..MaxHead - (ConfirmationNumber + MaxLag + 1) :
    (e \in chain[h] /\ head > h + ConfirmationNumber + MaxLag) ~>
      \/ \E i \in DOMAIN deposits :
           deposits[i].event = e /\ deposits[i].status \in {Sync!Done, Sync!Ignored}
      \/ staleNonce \/ balance < MinBalance \/ balance < ReservedBalance
=============================================================================
