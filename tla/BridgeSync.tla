----------------------------- MODULE BridgeSync -----------------------------
(***************************************************************************)
(* The data syncer: services.DataSync with the part of repository.Metis it *)
(* uses.  It follows the L1 chain with a height cursor, reads the deposit  *)
(* events of one range of blocks at a time and saves them together with    *)
(* the cursor in one transaction.                                          *)
(*                                                                         *)
(* The L1 chain is the environment: it grows, it reorganises its last      *)
(* blocks, and it is seen through RPC nodes that may lag behind it.  The   *)
(* process may be killed between any two steps and is restarted.           *)
(***************************************************************************)
EXTENDS DepositTable, Functions

CONSTANTS
  ERC20Deposits,      \* ERC20DepositInitiated events that may occur on L1
  MetisDeposits,      \* those of them whose L2 token is Metis itself
  ETHDeposits,        \* ETHDepositInitiated events that may occur on L1
  StartFrom,          \* -start-block
  ConfirmationNumber, \* -confirm
  RangeSync,          \* -range
  DripHeight,         \* -height
  MaxHead,            \* bound: the L1 chain never grows beyond this block
  MaxReorg,           \* how many of its last blocks the L1 chain may replace
  MaxLag,             \* how many blocks an RPC node may be behind the chain
  MaxLostAcks         \* bound: commits that succeed and report an error

Event   == ERC20Deposits \cup ETHDeposits
Heights == 0..MaxHead

ASSUME SyncAssumption ==
  /\ IsFiniteSet(ERC20Deposits) /\ IsFiniteSet(ETHDeposits)
  /\ ERC20Deposits \cap ETHDeposits = {}
  /\ MetisDeposits \subseteq ERC20Deposits
  /\ MaxHead \in Nat /\ StartFrom \in Heights
  /\ ConfirmationNumber \in Nat /\ RangeSync \in Nat \ {0}
  /\ DripHeight \in Nat
  /\ MaxReorg \in Nat /\ MaxLag \in Nat /\ MaxLostAcks \in Nat

\* What an operator has to choose for a scanned block to be final: blocks at
\* the confirmation depth are not replaced and every RPC node has them, and
\* the first scan starts above the confirmation depth.
Finality == /\ MaxReorg <= ConfirmationNumber
            /\ MaxLag <= ConfirmationNumber
            /\ ConfirmationNumber <= StartFrom

VARIABLES
  head,         \* L1: number of the last block
  chain,        \* L1: chain[h] is the set of deposit events of block h
  deposits,     \* DB: the `deposits` table
  dbHeight,     \* DB: `number` of the row of the `height` table, or NoHeight
  pc,           \* where the syncer goroutine is
  height,       \* DataSync.height
  targetHeight, \* tryToSync: the height this run syncs up to
  endHeight,    \* tryToSync: the end of the range being synced
  erc20Logs,    \* syncWithRange: the logs read so far
  ethLogs,
  lostAcks,     \* history: number of commits that reported an error
  skipped       \* history: a restart before the first save

chainVars == <<head, chain>>
dbVars    == <<deposits, dbHeight>>
runVars   == <<targetHeight, endHeight, erc20Logs, ethLogs>>
history   == <<lostAcks, skipped>>
vars == <<chainVars, dbVars, pc, height, runVars, history>>

NoHeight == -1                        \* the `height` table is empty
InRange  == {"erc20", "eth", "save"}  \* the pc values inside syncWithRange

Row == [event : Event, height : Heights, status : DepositStatus]

-----------------------------------------------------------------------------
(* The L1 chain *)

Mined == UNION {chain[h] : h \in Heights}

MineBlock ==
  /\ head < MaxHead
  /\ head' = head + 1
  /\ \E S \in SUBSET (Event \ Mined) : chain' = [chain EXCEPT ![head + 1] = S]
  /\ UNCHANGED <<dbVars, pc, height, runVars, history>>

\* The contents of the last k blocks are replaced.  Every event is the log of
\* one transaction, and a chain holds a transaction at most once.
Reorg ==
  /\ \E k \in 1..MaxReorg :
       /\ k <= head
       /\ LET kept == 0..(head - k)
              free == Event \ UNION {chain[h] : h \in kept}
          IN \E branch \in [(head - k + 1)..head -> SUBSET free] :
               /\ \A g, h \in DOMAIN branch : g # h => branch[g] \cap branch[h] = {}
               /\ chain' = [h \in Heights |->
                              IF h \in DOMAIN branch THEN branch[h] ELSE chain[h]]
  /\ UNCHANGED <<head, dbVars, pc, height, runVars, history>>

\* The last block of some RPC node that may answer a call.
NodeHead == {n \in Heights : n <= head /\ head <= n + MaxLag}

\* eth_getLogs for the blocks height..endHeight, answered by a node whose last
\* block is n: it has no logs of the blocks it has not seen.
Logs(n, events) ==
  {l \in [block : Heights \cap height..endHeight, event : events] :
      l.block <= n /\ l.event \in chain[l.block]}

-----------------------------------------------------------------------------
(* The syncer *)

\* Mutant: the height from which drips are given is not looked at.
StatusOfAnyHeight(h, e) == IF e \in MetisDeposits THEN Ignored ELSE Unprocessed

StatusOf(h, e) ==
  IF e \in MetisDeposits \/ DripHeight > h THEN Ignored ELSE Unprocessed

NewRow(l) == [event |-> l.event, height |-> l.block, status |-> StatusOf(l.block, l.event)]

\* The rows inserted for a set of logs, one for each log, in some order.
RowSeqs(logs) ==
  {[i \in 1..Cardinality(logs) |-> NewRow(order[i])] :
      order \in Bijection(1..Cardinality(logs), logs)}

ForgetRun == /\ targetHeight' = 0 /\ endHeight' = 0
             /\ erc20Logs' = {} /\ ethLogs' = {}

\* Mutant: the cursor that was saved before a restart is not used.
AfterSavedIsStart == StartFrom

\* InitHeight: the row it inserts means "synced up to", what it returns "next
\* block to read".
AfterSaved == dbHeight + 1

Prefight ==
  /\ pc = "down"
  /\ IF dbHeight = NoHeight
     THEN height' = StartFrom /\ dbHeight' = StartFrom
     ELSE height' = AfterSaved /\ UNCHANGED dbHeight
  /\ skipped' = (skipped \/ dbHeight = StartFrom)
  /\ pc' = "idle"
  /\ UNCHANGED <<chainVars, deposits, runVars, lostAcks>>

\* Mutant: the last block is taken for the confirmed one.
ConfirmedHeightIsHead(block) == block

\* The height up to which a run may sync, from the answer of eth_blockNumber.
ConfirmedHeight(block) ==
  IF block > ConfirmationNumber THEN block - ConfirmationNumber ELSE block

\* The timer fires and Run asks a node for its last block.
StartRun ==
  /\ pc = "idle"
  /\ \E block \in NodeHead : targetHeight' = ConfirmedHeight(block)
  /\ pc' = "loop"
  /\ UNCHANGED <<chainVars, dbVars, height, endHeight, erc20Logs, ethLogs, history>>

\* Mutant: the loop ends one block early.
MoreTooLate == height + 1 < targetHeight

\* The condition of tryToSync's loop.
More == height < targetHeight

EndOfRange == IF height + RangeSync > targetHeight THEN targetHeight
                                                   ELSE height + RangeSync
BeginRange ==
  /\ pc = "loop" /\ More
  /\ endHeight' = EndOfRange
  /\ pc' = "erc20"
  /\ UNCHANGED <<chainVars, dbVars, height, targetHeight, erc20Logs, ethLogs, history>>

EndRun ==
  /\ pc = "loop" /\ ~More
  /\ pc' = "idle"
  /\ ForgetRun
  /\ UNCHANGED <<chainVars, dbVars, height, history>>

\* The two event filters are two calls, and two nodes may answer them.
FilterERC20Deposits ==
  /\ pc = "erc20"
  /\ \E n \in NodeHead : erc20Logs' = Logs(n, ERC20Deposits)
  /\ pc' = "eth"
  /\ UNCHANGED <<chainVars, dbVars, height, targetHeight, endHeight, ethLogs, history>>

FilterETHDeposits ==
  /\ pc = "eth"
  /\ \E n \in NodeHead : ethLogs' = Logs(n, ETHDeposits)
  /\ pc' = "save"
  /\ UNCHANGED <<chainVars, dbVars, height, targetHeight, endHeight, erc20Logs, history>>

\* Mutant: the target of the run is saved.
SavedHeightIsTarget == targetHeight

\* `tail`, the new cursor.
SavedHeight == endHeight

\* SaveSyncedData's transaction takes effect: all the rows and the cursor.
CommitSyncedData ==
  /\ \E r \in RowSeqs(erc20Logs), s \in RowSeqs(ethLogs) :
       deposits' = deposits \o r \o s
  /\ dbHeight' = SavedHeight

\* Mutant: the cursor stays on the last block of the range.
AfterRangeIsEnd == endHeight

AfterRange == endHeight + 1

SaveSyncedData ==
  /\ pc = "save"
  /\ CommitSyncedData
  /\ height' = AfterRange
  /\ pc' = "loop"
  /\ endHeight' = 0 /\ erc20Logs' = {} /\ ethLogs' = {}
  /\ UNCHANGED <<chainVars, targetHeight, history>>

\* The database commits but the connection fails before the answer: the run
\* ends with an error and the cursor in memory stays where it was.
SaveLosesAck ==
  /\ pc = "save" /\ lostAcks < MaxLostAcks
  /\ CommitSyncedData
  /\ lostAcks' = lostAcks + 1
  /\ pc' = "idle"
  /\ ForgetRun
  /\ UNCHANGED <<chainVars, height, skipped>>

\* Any call of syncWithRange fails, or its ten minutes are over, and nothing
\* is saved: the run ends and the next one starts at the same height.
RunFails ==
  /\ pc \in InRange
  /\ pc' = "idle"
  /\ ForgetRun
  /\ UNCHANGED <<chainVars, dbVars, height, history>>

\* The process is stopped or killed; the variables of DataSync are lost.
Crash ==
  /\ pc # "down"
  /\ pc' = "down" /\ height' = 0
  /\ ForgetRun
  /\ UNCHANGED <<chainVars, dbVars, history>>

Init ==
  /\ head = 0 /\ chain = [h \in Heights |-> {}]
  /\ deposits = << >> /\ dbHeight = NoHeight
  /\ pc = "down" /\ height = 0
  /\ targetHeight = 0 /\ endHeight = 0 /\ erc20Logs = {} /\ ethLogs = {}
  /\ lostAcks = 0 /\ skipped = FALSE

Syncer == \/ Prefight \/ StartRun \/ BeginRange \/ EndRun
          \/ FilterERC20Deposits \/ FilterETHDeposits
          \/ SaveSyncedData \/ SaveLosesAck \/ RunFails

L1 == MineBlock \/ Reorg

Next == Syncer \/ L1 \/ Crash

Spec == Init /\ [][Next]_vars

\* The process is restarted whenever it is down, its timer fires every five
\* minutes, and a call that is made again and again succeeds at some time.
\* The chain need not grow.
Fairness ==
  /\ SF_vars(Prefight) /\ SF_vars(StartRun)
  /\ SF_vars(BeginRange) /\ SF_vars(EndRun)
  /\ SF_vars(FilterERC20Deposits) /\ SF_vars(FilterETHDeposits)
  /\ SF_vars(SaveSyncedData)

FairSpec == Spec /\ Fairness

-----------------------------------------------------------------------------
(* Properties *)

TypeOK ==
  /\ head \in Heights
  /\ chain \in [Heights -> SUBSET Event]
  /\ deposits \in Seq(Row)
  /\ dbHeight \in Heights \cup {NoHeight}
  /\ pc \in {"down", "idle", "loop"} \cup InRange
  /\ height \in Nat /\ targetHeight \in Heights /\ endHeight \in Heights
  /\ erc20Logs \in SUBSET [block : Heights, event : ERC20Deposits]
  /\ ethLogs \in SUBSET [block : Heights, event : ETHDeposits]
  /\ lostAcks \in 0..MaxLostAcks /\ skipped \in BOOLEAN

Recorded(h, e) == \E i \in DOMAIN deposits : deposits[i].event = e /\ deposits[i].height = h

\* The blocks the syncer has been over.  The start block is read with the first
\* range, unless a restart finds the row that InitHeight inserted for it.
Synced == {h \in StartFrom..dbHeight : h = StartFrom => dbHeight > StartFrom /\ ~skipped}

\* Every deposit of the canonical chain in a block between the start block
\* and the saved cursor is in the table, whatever the order of range scans,
\* failed runs, lost commits, restarts and reorganisations (tryToSync,
\* syncWithRange, InitHeight).  The start block itself is missed only by a
\* restart before the first range is saved.
NoMissedDeposit == \A h \in Synced : \A e \in chain[h] : Recorded(h, e)

\* Every row of the table is a deposit of the canonical chain, at the height
\* the row says: no row was read from a block that was replaced later.
RecordedIsCanonical ==
  \A i \in DOMAIN deposits : deposits[i].event \in chain[deposits[i].height]

\* As long as no commit lost its answer a deposit has one row at most: neither
\* a failed run nor a restart makes the syncer read a saved block again.
NoDuplicateRow ==
  lostAcks = 0 => \A i, j \in DOMAIN deposits :
                    deposits[i].event = deposits[j].event => i = j

\* A commit that lost its answer costs at most one more row for a deposit,
\* also when a lagging node then moves the saved cursor back.
ExtraRowsBounded ==
  \A e \in Event :
    Cardinality({i \in DOMAIN deposits : deposits[i].event = e}) <= 1 + lostAcks

\* The saved cursor never moves back, as long as no commit lost its answer.
CursorNeverMovesBack ==
  [][lostAcks = 0 => dbHeight' >= dbHeight]_vars

\* Every block behind the confirmation depth (and behind the lag of the node
\* that answers) is scanned at some time.
SyncCatchesUp ==
  \A h \in StartFrom + 1..MaxHead - (ConfirmationNumber + MaxLag + 1) :
    (head > h + ConfirmationNumber + MaxLag) ~> (dbHeight >= h)
=============================================================================
