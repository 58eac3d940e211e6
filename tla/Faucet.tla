------------------------------- MODULE Faucet -------------------------------
(***************************************************************************)
(* The faucet: services.Faucet with the part of repository.Metis it uses.  *)
(* It turns the unprocessed rows of the `deposits` table into drips, that  *)
(* is transactions which send some Metis to the receiver of the deposit,   *)
(* and follows every drip until it is mined.                               *)
(*                                                                         *)
(* The L2 chain is the environment: a pool of transactions that may forget *)
(* one, and an account whose transactions are mined in the order of their  *)
(* nonces.  A drip is reverted if its receiver has become a contract that  *)
(* refuses it.  Nobody else signs for the account.  The unit of `balance`  *)
(* is what one drip costs, its fee included.                               *)
(***************************************************************************)
EXTENDS DepositTable

CONSTANTS
  Event,           \* deposit events
  Heights,         \* block numbers of L1
  Receivers,       \* addresses on L2
  To,              \* To[e]: the receiver of the deposit event e
  Contracts,       \* receivers that may become contracts and refuse a drip
  Stuck,           \* events whose evaluation always fails (say, no decimals())
  BatchLimit,      \* rows GetDepositTxStream returns at most: LIMIT 100
  PendingLimit,    \* rows GetPendingDripsStream returns at most: LIMIT 20
  MinBalance,      \* the balance SendDrips asks for: 0.5 Metis
  ReservedBalance, \* -reserved: the balance CheckDrips asks for
  MaxBalance,      \* bound: the balance after the account is topped up
  MaxDeposits      \* bound: rows of the `deposits` table

ASSUME FaucetAssumption ==
  /\ To \in [Event -> Receivers]
  /\ Contracts \subseteq Receivers /\ Stuck \subseteq Event
  /\ BatchLimit \in Nat \ {0} /\ PendingLimit \in Nat \ {0}
  /\ MinBalance \in Nat \ {0} /\ ReservedBalance \in Nat
  /\ MaxBalance \in Nat /\ MaxDeposits \in Nat

VARIABLES
  deposits,   \* DB: the `deposits` table
  drips,      \* DB: the `drips` table
  fpc,        \* where the faucet goroutine is
  nonce,      \* Faucet.nonce
  todo,       \* the ids of the rows that the stream being read still holds
  recset,     \* tryToSendDrip: the receivers of this loop
  cur,        \* tryToSendDrip: the drip being made, or NoDrip
  chainNonce, \* L2: the nonce of the account in the last block
  balance,    \* L2: the balance of the account
  pool,       \* L2: transactions accepted and not mined
  mined,      \* L2: transactions mined
  reverted,   \* L2: those of them that had no effect
  staleNonce  \* history: a nonce of a drip that is not mined was taken as free

loopVars == <<todo, recset, cur>>
l2Vars   == <<chainNonce, balance, pool, mined, reverted>>
vars     == <<deposits, drips, fpc, nonce, loopVars, l2Vars, staleNonce>>

Row  == [event : Event, height : Heights, status : DepositStatus]
Tx   == [to : Receivers, nonce : Nat]
Drip == [pid : Nat \ {0}, tx : Tx]
NoDrip == [pid |-> 0]

Receiver(i) == To[deposits[i].event]

-----------------------------------------------------------------------------
(* L2 *)

\* The pool holds one transaction of an account for each nonce.
Holding(tx) == {u \in pool : u.nonce # tx.nonce} \cup {tx}

\* Whether a node may take a transaction that is sent to it.  One that has the
\* nonce of another in the pool replaces it if it pays enough more.
Accepts(tx) == tx.nonce >= chainNonce /\ balance > 0

\* The receiver got a drip: its balance, or else its nonce, is not 0 any more.
GotMetis(to) == \E tx \in mined \ reverted : tx.to = to

\* The account's next transaction gets into a block.
Include(tx) ==
  /\ balance > 0
  /\ tx \in pool /\ tx.nonce = chainNonce
  /\ mined' = mined \cup {tx} /\ pool' = pool \ {tx}
  /\ chainNonce' = chainNonce + 1
  /\ UNCHANGED <<deposits, drips, fpc, nonce, loopVars, staleNonce>>

MineTx == \E tx \in pool : /\ Include(tx)
                          /\ balance' = balance - 1
                          /\ UNCHANGED reverted

\* The gas was estimated for an address without code.  Only the fee is paid.
RevertTx == \E tx \in pool : /\ Include(tx) /\ tx.to \in Contracts
                            /\ balance' \in {balance - 1, balance}
                            /\ reverted' = reverted \cup {tx}

\* A node restarts or evicts a transaction from its pool.
DropTx ==
  /\ \E tx \in pool : pool' = pool \ {tx}
  /\ UNCHANGED <<deposits, drips, fpc, nonce, loopVars, chainNonce, balance, mined, reverted, staleNonce>>

TopUp ==
  /\ balance < MaxBalance
  /\ balance' = MaxBalance
  /\ UNCHANGED <<deposits, drips, fpc, nonce, loopVars, chainNonce, pool, mined, reverted, staleNonce>>

-----------------------------------------------------------------------------
(* Start and stop *)

EndLoop(next) == /\ fpc' = next
                 /\ todo' = {} /\ recset' = {} /\ cur' = NoDrip

\* Initial takes the nonce of the last block, not one from the `drips` table.
Initial ==
  /\ fpc = "off"
  /\ nonce' = chainNonce
  /\ fpc' = "tick"
  /\ staleNonce' = (staleNonce \/ \E d \in drips : d.tx \notin mined)
  /\ UNCHANGED <<deposits, drips, loopVars, l2Vars>>

\* The process is stopped or killed; the variables of Faucet are lost.
Crash ==
  /\ fpc # "off"
  /\ EndLoop("off") /\ nonce' = 0
  /\ UNCHANGED <<deposits, drips, l2Vars, staleNonce>>

-----------------------------------------------------------------------------
(* SendDrips *)

\* Mutants: the query does not select by status; it selects among the first
\* rows of the table only.
ToDecideAllRows     == FirstIds(DOMAIN deposits, BatchLimit)
ToDecideLimitsFirst == FirstIds(DOMAIN deposits, BatchLimit) \cap IdsWithStatus(deposits, Unprocessed)

\* The rows of the query for deposits.
ToDecide == FirstIds(IdsWithStatus(deposits, Unprocessed), BatchLimit)

\* checkBalance and GetBridgeTokens succeed and the stream is opened: its rows
\* are those that are unprocessed now.
BeginSend ==
  /\ fpc = "tick"
  /\ balance >= MinBalance
  /\ todo' = ToDecide
  /\ fpc' = "send"
  /\ UNCHANGED <<deposits, drips, nonce, recset, cur, l2Vars, staleNonce>>

\* The balance is too low, or a call before the stream fails.
SkipSend ==
  /\ fpc = "tick"
  /\ fpc' = "wait"
  /\ UNCHANGED <<deposits, drips, nonce, loopVars, l2Vars, staleNonce>>

\* Mutant: only drips of deposits that are done count.
HasGotDripDone(to) ==
  \A d \in drips : d.tx.to = to => deposits[d.pid].status # Done

\* HasGotDrip: its result is whether the address has NOT got a drip.
HasGotDrip(to) == \A d \in drips : d.tx.to # to

\* shouldTransfer finds a reason to give no drip, and NewDrip ignores the
\* deposit.  Apart from `recset` and earlier drips the reasons are outside the
\* model: the token, the amount, the price, and what the receiver did on L2.
Decline ==
  /\ fpc = "send"
  /\ \E i \in todo :
       /\ IsNext(i, todo)
       /\ deposits[i].event \in Stuck => Receiver(i) \in recset
       /\ todo' = todo \ {i}
       /\ deposits' = SetStatus(deposits, i, Ignored)
  /\ UNCHANGED <<drips, fpc, nonce, recset, cur, l2Vars, staleNonce>>

\* shouldTransfer finds none, and makeDripTx signs a transaction.
Approve ==
  /\ fpc = "send"
  /\ balance > 0
  /\ \E i \in todo :
       /\ IsNext(i, todo)
       /\ deposits[i].event \notin Stuck
       /\ Receiver(i) \notin recset
       /\ HasGotDrip(Receiver(i)) /\ ~GotMetis(Receiver(i))
       /\ todo' = todo \ {i}
       /\ cur' = [pid |-> i, tx |-> [to |-> Receiver(i), nonce |-> nonce]]
       /\ recset' = recset \cup {Receiver(i)}
  /\ fpc' = "persist"
  /\ UNCHANGED <<deposits, drips, nonce, l2Vars, staleNonce>>

\* Mutants: a statement of NewDrip's transaction is left out.
InsertNothing == UNCHANGED drips
UpdateNothing == UNCHANGED deposits

\* INSERT INTO `drips`, whose primary key is `pid`.
InsertDrip == /\ \A d \in drips : d.pid # cur.pid
              /\ drips' = drips \cup {cur}

UpdateDeposit == deposits' = SetStatus(deposits, cur.pid, Processing)

\* NewDrip's transaction takes effect.
CommitNewDrip == InsertDrip /\ UpdateDeposit

\* Mutant: the nonce is not counted.
NextNonceSame == nonce

NextNonce == nonce + 1

NewDrip ==
  /\ fpc = "persist"
  /\ CommitNewDrip
  /\ nonce' = NextNonce
  /\ fpc' = "broadcast"
  /\ UNCHANGED <<loopVars, l2Vars, staleNonce>>

\* The database commits but the connection fails before the answer: the loop
\* ends and the nonce is not counted.
NewDripLosesAck ==
  /\ fpc = "persist"
  /\ CommitNewDrip
  /\ EndLoop("wait")
  /\ staleNonce' = TRUE
  /\ UNCHANGED <<nonce, l2Vars>>

\* SendTransaction: the node takes the transaction.
Broadcast ==
  /\ fpc = "broadcast"
  /\ Accepts(cur.tx)
  /\ pool' = Holding(cur.tx)
  /\ cur' = NoDrip
  /\ fpc' = "send"
  /\ UNCHANGED <<deposits, drips, nonce, todo, recset, chainNonce, balance, mined, reverted,
                 staleNonce>>

\* SendTransaction reports an error, and the loop ends; the node may have
\* taken the transaction all the same.
BroadcastFails ==
  /\ fpc = "broadcast"
  /\ UNCHANGED pool \/ (Accepts(cur.tx) /\ pool' = Holding(cur.tx))
  /\ EndLoop("wait")
  /\ UNCHANGED <<deposits, drips, nonce, chainNonce, balance, mined, reverted, staleNonce>>

\* The stream is read to its end.
EndSend ==
  /\ fpc = "send" /\ todo = {}
  /\ EndLoop("wait")
  /\ UNCHANGED <<deposits, drips, nonce, l2Vars, staleNonce>>

\* One of the calls before SendTransaction fails, NewDrip among them, or the
\* five minutes are over: the whole loop ends, the rows left are not looked at.
AbortSend ==
  /\ fpc = "persist" \/ (fpc = "send" /\ todo # {})
  /\ EndLoop("wait")
  /\ UNCHANGED <<deposits, drips, nonce, l2Vars, staleNonce>>

-----------------------------------------------------------------------------
(* CheckDrips *)

\* Mutant: the query does not look at the status.
ToCheckAllDrips == FirstIds({d.pid : d \in drips}, PendingLimit)

\* The rows of the query for pending drips, which joins the tables.
ToCheck == FirstIds(IdsWithStatus(deposits, Processing) \cap {d.pid : d \in drips}, PendingLimit)

\* The balance is not below the reserve and the stream is opened.
BeginCheck ==
  /\ fpc = "wait"
  /\ balance >= ReservedBalance
  /\ todo' = ToCheck
  /\ fpc' = "check"
  /\ UNCHANGED <<deposits, drips, nonce, recset, cur, l2Vars, staleNonce>>

\* The balance is below the reserve, or the call for it fails.
SkipCheck ==
  /\ fpc = "wait"
  /\ fpc' = "tick"
  /\ UNCHANGED <<deposits, drips, nonce, loopVars, l2Vars, staleNonce>>

\* Mutant: any answer counts as a receipt.
HasReceiptAlways(tx) == TRUE

\* getTxStatus: there is a receipt, whatever its status.
HasReceipt(tx) == tx \in mined

Settle ==
  /\ fpc = "check"
  /\ \E d \in drips :
       /\ IsNext(d.pid, todo)
       /\ HasReceipt(d.tx)
       /\ todo' = todo \ {d.pid}
       /\ deposits' = SetStatus(deposits, d.pid, Done)
  /\ UNCHANGED <<drips, fpc, nonce, recset, cur, l2Vars, staleNonce>>

\* There is none yet, and the transaction is sent once more ...
Resend ==
  /\ fpc = "check"
  /\ \E d \in drips :
       /\ IsNext(d.pid, todo)
       /\ Accepts(d.tx)
       /\ todo' = todo \ {d.pid}
       /\ pool' = Holding(d.tx)
  /\ UNCHANGED <<deposits, drips, fpc, nonce, recset, cur, chainNonce, balance, mined, reverted,
                 staleNonce>>

\* ... or the node does not take it, which the code does not look at.
ResendFails ==
  /\ fpc = "check"
  /\ \E d \in drips : IsNext(d.pid, todo) /\ todo' = todo \ {d.pid}
  /\ UNCHANGED <<deposits, drips, fpc, nonce, recset, cur, l2Vars, staleNonce>>

\* The stream is read to its end, or a call fails, or the time is over.
EndCheck ==
  /\ fpc = "check"
  /\ EndLoop("tick")
  /\ UNCHANGED <<deposits, drips, nonce, l2Vars, staleNonce>>

-----------------------------------------------------------------------------
(* Specification *)

\* What the syncer does to the table while the faucet runs.
NewDeposit ==
  /\ Len(deposits) < MaxDeposits
  /\ \E row \in Row : /\ row.status \in {Unprocessed, Ignored}
                      /\ deposits' = Append(deposits, row)
  /\ UNCHANGED <<drips, fpc, nonce, loopVars, l2Vars, staleNonce>>

InitFaucet ==
  /\ drips = {} /\ fpc = "off" /\ nonce = 0
  /\ todo = {} /\ recset = {} /\ cur = NoDrip
  /\ chainNonce = 0 /\ balance = MaxBalance /\ pool = {}
  /\ mined = {} /\ reverted = {}
  /\ staleNonce = FALSE

Init == deposits = << >> /\ InitFaucet

SendDrips == \/ BeginSend \/ SkipSend \/ Decline \/ Approve
             \/ NewDrip \/ NewDripLosesAck
             \/ Broadcast \/ BroadcastFails \/ EndSend \/ AbortSend
CheckDrips == \/ BeginCheck \/ SkipCheck \/ Settle
              \/ Resend \/ ResendFails \/ EndCheck
L2 == MineTx \/ RevertTx \/ DropTx \/ TopUp

FaucetStep == Initial \/ SendDrips \/ CheckDrips

Next == FaucetStep \/ L2 \/ Crash \/ NewDeposit

Spec == Init /\ [][Next]_vars

\* The process is restarted, its timer fires every minute, and a call that is
\* made again and again succeeds at some time: Decline and Approve are the two
\* ways in which evaluating a deposit can succeed.  The process is not killed
\* in every SendDrips, some of them get to their end.  A transaction that stays in
\* the pool, or comes back again and again, is mined.
Fairness ==
  /\ WF_vars(FaucetStep)
  /\ SF_vars(BeginSend) /\ SF_vars(Decline \/ Approve) /\ SF_vars(NewDrip)
  /\ SF_vars(EndSend \/ AbortSend \/ BroadcastFails)
  /\ SF_vars(BeginCheck) /\ SF_vars(Settle) /\ SF_vars(Resend)
  /\ SF_vars(MineTx \/ RevertTx)

FairSpec == Spec /\ Fairness

-----------------------------------------------------------------------------
(* Properties *)

TypeOK ==
  /\ deposits \in Seq(Row)
  /\ drips \in SUBSET Drip
  /\ fpc \in {"off", "tick", "send", "persist", "broadcast", "wait", "check"}
  /\ nonce \in Nat /\ chainNonce \in Nat /\ balance \in 0..MaxBalance
  /\ todo \in SUBSET (DOMAIN deposits)
  /\ recset \in SUBSET Receivers
  /\ cur \in Drip \cup {NoDrip}
  /\ fpc \in {"persist", "broadcast"} => cur \in Drip
  /\ pool \in SUBSET Tx /\ mined \in SUBSET Tx /\ reverted \in SUBSET mined
  /\ staleNonce \in BOOLEAN

HasStatus(i, s) == i \in DOMAIN deposits /\ deposits[i].status = s

\* A deposit is being processed or done exactly if it has a drip, and then it
\* has one only, which goes to its receiver: wherever a crash or an error falls
\* between evaluating, saving and sending, the two tables agree (NewDrip,
\* UpdateDripStatus).
TablesAgree ==
  /\ \A i \in DOMAIN deposits :
       deposits[i].status \in {Processing, Done} <=> \E d \in drips : d.pid = i
  /\ \A d \in drips : d.pid \in DOMAIN deposits /\ d.tx.to = Receiver(d.pid)
  /\ \A d, e \in drips : d.pid = e.pid => d = e

\* Nothing is sent that the `drips` table does not hold: a transaction is saved
\* before it is sent, so that CheckDrips can send it again (tryToSendDrip).
SavedBeforeSent == pool \cup mined \subseteq {d.tx : d \in drips}

\* No address is paid twice, although a deposit may have several rows, a user
\* several deposits, and drips are sent again until they are mined
\* (HasGotDrip, tryToCheckDrip).
PaidAtMostOnce == \A t, u \in mined : t.to = u.to => t = u

\* A deposit is done only if its drip was mined, and then its receiver has the
\* drip, unless it refused it: getTxStatus does not look at the receipt's status,
\* and a drip that was reverted is not made again.
DoneIsPaid ==
  \A d \in drips : deposits[d.pid].status = Done =>
    d.tx \in mined /\ (GotMetis(d.tx.to) \/ d.tx.to \in Contracts)

\* As long as no nonce was reused, the drips have different nonces without a
\* gap between them, so that each of them can be mined (NewDrip fails after the
\* nonce was signed, SendTransaction fails after it was counted).
NoncesInOrder ==
  ~staleNonce =>
    /\ \A d, e \in drips : d.tx.nonce = e.tx.nonce => d = e
    /\ \A d \in drips : \A n \in 0..d.tx.nonce : \E e \in drips : e.tx.nonce = n

\* The faucet does what DepositLedger promises: a drip is granted when NewDrip
\* commits, and paid or lost when its transaction is mined.
Ledger == INSTANCE DepositLedger WITH
  table   <- deposits,
  granted <- {d.pid : d \in drips},
  paid    <- {d.pid : d \in {e \in drips : e.tx \in mined \ reverted}},
  lost    <- {d.pid : d \in {e \in drips : e.tx \in reverted}}

KeepsLedger == Ledger!Spec

\* Every unprocessed deposit is decided at some time, if the account has the
\* balance for it, unless it is behind one whose evaluation always fails: that
\* one ends the loop whenever it is met.
DepositDecided ==
  \A i \in 1..MaxDeposits :
    HasStatus(i, Unprocessed) ~>
      \/ ~HasStatus(i, Unprocessed) \/ balance < MinBalance
      \/ \E j \in 1..i : HasStatus(j, Unprocessed) /\ deposits[j].event \in Stuck

\* Every saved drip is mined and settled at some time, also if it was never
\* sent, forgotten by the pool or limited out of a batch, if the account keeps
\* its reserve and no nonce was reused.
DripSettled ==
  \A i \in 1..MaxDeposits :
    HasStatus(i, Processing) ~>
      HasStatus(i, Done) \/ staleNonce \/ balance < ReservedBalance

-----------------------------------------------------------------------------
(* What the documentation says and the code does not do *)

\* "0.01 Metis Token will be airdropped to first time users!" (README.md:3): a
\* drip that is not mined still can be mined.
DripsCanBeMined ==
  \A d \in drips : d.tx \in mined \/ d.tx.nonce >= chainNonce
=============================================================================
