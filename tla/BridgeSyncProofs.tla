-------------------------- MODULE BridgeSyncProofs --------------------------
(***************************************************************************)
(* What BridgeSync guarantees for every value of its constants.            *)
(***************************************************************************)
EXTENDS BridgeSync, FiniteSetTheorems, SequenceTheorems, TLAPS

-----------------------------------------------------------------------------
(* The rows inserted for a set of logs *)

Log == [block : Heights, event : Event]

\* The logs that one answer of eth_getLogs holds have the right type.
LEMMA LogsType ==
  ASSUME NEW n, NEW events
  PROVE  Logs(n, events) \in SUBSET [block : Heights, event : events]
  BY DEF Logs

LEMMA FiniteLogs ==
  ASSUME NEW logs \in SUBSET Log
  PROVE  IsFiniteSet(logs) /\ Cardinality(logs) \in Nat
<1>1. IsFiniteSet(Heights)
  BY FS_Interval, SyncAssumption DEF Heights
<1>2. IsFiniteSet(Event)
  BY FS_Union, SyncAssumption DEF Event
<1> DEFINE pair(l) == <<l.block, l.event>>
<1>3. IsFiniteSet(Heights \X Event)
  BY <1>1, <1>2, FS_Product
<1>4. [l \in logs |-> pair(l)] \in Injection(logs, Heights \X Event)
  BY DEF Log, Injection, IsInjective
<1>5. QED
  BY <1>3, <1>4, FS_Injection, FS_CardinalityType

\* RowSeqs(logs) holds sequences of rows with exactly one row for each log.
LEMMA RowSeqsFacts ==
  ASSUME NEW logs \in SUBSET Log, NEW r \in RowSeqs(logs)
  PROVE  /\ r \in Seq(Row)
         /\ \A i \in 1..Len(r) : \E l \in logs : r[i] = NewRow(l)
         /\ \A l \in logs : \E i \in 1..Len(r) : r[i] = NewRow(l)
         /\ \A i, j \in 1..Len(r) : i # j =>
              \E l, m \in logs : l # m /\ r[i] = NewRow(l) /\ r[j] = NewRow(m)
<1> DEFINE n == Cardinality(logs)
<1>1. n \in Nat
  BY FiniteLogs
<1>2. PICK order \in Bijection(1..n, logs) : r = [i \in 1..n |-> NewRow(order[i])]
  BY DEF RowSeqs
<1>3. /\ order \in [1..n -> logs]
      /\ \A i, j \in 1..n : i # j => order[i] # order[j]
      /\ \A l \in logs : \E i \in 1..n : order[i] = l
  BY <1>2 DEF Bijection, Injection, Surjection, IsInjective
<1>4. ASSUME NEW l \in logs PROVE NewRow(l) \in Row
  BY <1>4 DEF Log, NewRow, Row, StatusOf, DepositStatus, Ignored, Unprocessed
<1> HIDE DEF n
<1>5. r \in [1..n -> Row]
  BY <1>2, <1>3, <1>4
<1>6. r \in Seq(Row) /\ Len(r) = n
  BY <1>1, <1>5
<1>7. QED
  BY <1>2, <1>3, <1>6

-----------------------------------------------------------------------------
(* The L1 chain *)

Disjoint == \A g, h \in Heights : g # h => chain[g] \cap chain[h] = {}

\* A new block changes the chain above the head only.
LEMMA MineBlockEffect ==
  ASSUME TypeOK, MineBlock
  PROVE  /\ head' \in Heights /\ head' = head + 1
         /\ chain' \in [Heights -> SUBSET Event]
         /\ \A h \in Heights : h <= head => chain'[h] = chain[h]
         /\ Disjoint => Disjoint'
<1>1. PICK S \in SUBSET (Event \ Mined) : chain' = [chain EXCEPT ![head + 1] = S]
  BY DEF MineBlock
<1>2. head' \in Heights /\ head' = head + 1
  BY SyncAssumption DEF TypeOK, MineBlock, Heights
<1>3. S \in SUBSET Event /\ \A h \in Heights : chain[h] \cap S = {}
  BY <1>1 DEF Mined
<1>4. chain' \in [Heights -> SUBSET Event]
  BY <1>1, <1>3 DEF TypeOK
<1>5. \A h \in Heights : chain'[h] = IF h = head + 1 THEN S ELSE chain[h]
  BY <1>1, <1>2 DEF TypeOK
<1>6. \A h \in Heights : h <= head => h # head + 1
  BY SyncAssumption DEF TypeOK, Heights
<1>7. Disjoint => Disjoint'
  BY <1>3, <1>5 DEF Disjoint
<1>8. QED
  BY <1>2, <1>4, <1>5, <1>6, <1>7

\* A reorganisation leaves all but the last MaxReorg blocks alone.
LEMMA ReorgEffect ==
  ASSUME TypeOK, Reorg
  PROVE  /\ head' = head
         /\ chain' \in [Heights -> SUBSET Event]
         /\ \A h \in Heights : h + MaxReorg <= head \/ h > head => chain'[h] = chain[h]
         /\ Disjoint /\ (\A h \in Heights : h > head => chain[h] = {}) => Disjoint'
<1>1. PICK k \in 1..MaxReorg :
        /\ k <= head
        /\ LET kept == 0..(head - k)
               free == Event \ UNION {chain[h] : h \in kept}
           IN \E branch \in [(head - k + 1)..head -> SUBSET free] :
                /\ \A g, h \in DOMAIN branch : g # h => branch[g] \cap branch[h] = {}
                /\ chain' = [h \in Heights |->
                               IF h \in DOMAIN branch THEN branch[h] ELSE chain[h]]
  BY DEF Reorg
<1> DEFINE free == Event \ UNION {chain[h] : h \in 0..(head - k)}
           top == (head - k + 1)..head
<1>2. PICK branch \in [top -> SUBSET free] :
        /\ \A g, h \in DOMAIN branch : g # h => branch[g] \cap branch[h] = {}
        /\ chain' = [h \in Heights |-> IF h \in DOMAIN branch THEN branch[h] ELSE chain[h]]
  BY <1>1
<1>3. DOMAIN branch = top
  BY <1>2
<1>4. k \in Nat /\ head \in Nat /\ k <= head /\ k <= MaxReorg
  BY <1>1, SyncAssumption DEF TypeOK, Heights
<1>5. free \subseteq Event /\ \A h \in 0..(head - k) : chain[h] \cap free = {}
  OBVIOUS
<1> HIDE DEF free
<1>6. \A h \in top : branch[h] \subseteq free
  BY <1>2
<1>7. \A h \in Heights : chain'[h] = IF h \in top THEN branch[h] ELSE chain[h]
  BY <1>2, <1>3
<1>8. chain' \in [Heights -> SUBSET Event]
  BY <1>2, <1>3, <1>5, <1>6 DEF TypeOK
<1>9. \A h \in Heights : h + MaxReorg <= head \/ h > head => h \notin top
  BY <1>4, SyncAssumption DEF Heights
<1>10. ASSUME Disjoint, \A h \in Heights : h > head => chain[h] = {},
              NEW g \in Heights, NEW h \in Heights, g # h
       PROVE  chain'[g] \cap chain'[h] = {}
  <2>1. \A x \in Heights : x \notin top => x \in 0..(head - k) \/ chain[x] = {}
    BY <1>4, <1>10, SyncAssumption DEF Heights
  <2>2. \A x \in Heights : x \notin top => chain[x] \cap free = {}
    BY <1>5, <2>1
  <2> HIDE DEF top
  <2>3. CASE g \in top /\ h \in top
    BY <1>2, <1>3, <1>7, <1>10, <2>3
  <2>4. CASE g \notin top /\ h \notin top
    BY <1>7, <1>10, <2>4 DEF Disjoint
  <2>5. CASE g \in top /\ h \notin top
    BY <1>6, <1>7, <2>2, <2>5
  <2>6. CASE g \notin top /\ h \in top
    BY <1>6, <1>7, <2>2, <2>6
  <2>7. QED
    BY <2>3, <2>4, <2>5, <2>6
<1>11. head' = head
  BY DEF Reorg
<1> HIDE DEF top
<1>12. Disjoint /\ (\A h \in Heights : h > head => chain[h] = {}) => Disjoint'
  BY <1>10 DEF Disjoint
<1>13. QED
  BY <1>7, <1>8, <1>9, <1>11, <1>12

-----------------------------------------------------------------------------
(* Type correctness *)

LEMMA TypeCommit ==
  ASSUME TypeOK, CommitSyncedData
  PROVE  deposits' \in Seq(Row) /\ dbHeight' = endHeight
<1>1. PICK r \in RowSeqs(erc20Logs), s \in RowSeqs(ethLogs) : deposits' = deposits \o r \o s
  BY DEF CommitSyncedData, SavedHeight
<1>2. erc20Logs \in SUBSET Log /\ ethLogs \in SUBSET Log
  BY DEF TypeOK, Event, Log
<1>3. r \in Seq(Row) /\ s \in Seq(Row)
  BY <1>2, RowSeqsFacts
<1>4. deposits \o r \in Seq(Row)
  BY <1>3, ConcatProperties DEF TypeOK
<1>5. dbHeight' = endHeight
  BY DEF CommitSyncedData, SavedHeight
<1>6. QED
  BY <1>1, <1>3, <1>4, <1>5, ConcatProperties

LEMMA TypeStep ==
  ASSUME TypeOK, [Next]_vars
  PROVE  TypeOK'
<1> USE SyncAssumption DEF TypeOK, Heights, NoHeight, InRange, runVars, dbVars, chainVars, history
<1>1. CASE MineBlock
  BY <1>1, MineBlockEffect DEF MineBlock
<1>2. CASE Reorg
  BY <1>2, ReorgEffect DEF Reorg
<1>3. CASE Prefight
  BY <1>3 DEF Prefight, AfterSaved
<1>4. CASE StartRun
  BY <1>4 DEF StartRun, NodeHead, ConfirmedHeight
<1>5. CASE BeginRange
  BY <1>5 DEF BeginRange, More, EndOfRange
<1>6. CASE EndRun
  BY <1>6 DEF EndRun, More, ForgetRun
<1>7. CASE FilterERC20Deposits
  <2>1. PICK n \in NodeHead : erc20Logs' = Logs(n, ERC20Deposits)
    BY <1>7 DEF FilterERC20Deposits
  <2>2. erc20Logs' \in SUBSET [block : Heights, event : ERC20Deposits]
    BY <2>1, LogsType
  <2>3. QED
    BY <1>7, <2>2 DEF FilterERC20Deposits
<1>8. CASE FilterETHDeposits
  <2>1. PICK n \in NodeHead : ethLogs' = Logs(n, ETHDeposits)
    BY <1>8 DEF FilterETHDeposits
  <2>2. ethLogs' \in SUBSET [block : Heights, event : ETHDeposits]
    BY <2>1, LogsType
  <2>3. QED
    BY <1>8, <2>2 DEF FilterETHDeposits
<1>9. CASE SaveSyncedData
  BY <1>9, TypeCommit DEF SaveSyncedData, AfterRange
<1>10. CASE SaveLosesAck
  BY <1>10, TypeCommit DEF SaveLosesAck, ForgetRun
<1>11. CASE RunFails
  BY <1>11 DEF RunFails, ForgetRun
<1>12. CASE Crash
  BY <1>12 DEF Crash, ForgetRun
<1>13. CASE UNCHANGED vars
  BY <1>13 DEF vars, history
<1>14. QED
  BY <1>1, <1>2, <1>3, <1>4, <1>5, <1>6, <1>7, <1>8, <1>9, <1>10, <1>11, <1>12, <1>13
     DEF Next, Syncer, L1

\* Every variable keeps the type its Go or SQL counterpart has; in particular
\* the cursor, the heights of the rows and the ranges read are block numbers.
THEOREM SyncTypeCorrect == Spec => []TypeOK
<1>1. Init => TypeOK
  BY SyncAssumption DEF Init, TypeOK, Heights, NoHeight, InRange, Row
<1>2. TypeOK /\ [Next]_vars => TypeOK'
  BY TypeStep
<1>3. QED
  BY <1>1, <1>2, PTL DEF Spec

-----------------------------------------------------------------------------
(* No deposit is missed and none is read from a block that is replaced     *)

\* What SaveSyncedData leaves in the table: the old rows, and exactly one row
\* for every log of the range.
LEMMA CommitEffect ==
  ASSUME TypeOK, CommitSyncedData
  PROVE  LET logs == erc20Logs \cup ethLogs IN
         /\ DOMAIN deposits \subseteq DOMAIN deposits'
         /\ \A i \in DOMAIN deposits : deposits'[i] = deposits[i]
         /\ \A i \in DOMAIN deposits' \ DOMAIN deposits :
              \E l \in logs : deposits'[i] = NewRow(l)
         /\ \A l \in logs : \E i \in DOMAIN deposits' : deposits'[i] = NewRow(l)
         /\ \A i, j \in DOMAIN deposits' \ DOMAIN deposits : i # j =>
              \E l, m \in logs : l # m /\ deposits'[i] = NewRow(l) /\ deposits'[j] = NewRow(m)
<1> DEFINE logs == erc20Logs \cup ethLogs
<1>1. PICK r \in RowSeqs(erc20Logs), s \in RowSeqs(ethLogs) : deposits' = deposits \o r \o s
  BY DEF CommitSyncedData, SavedHeight
<1>2. /\ erc20Logs \in SUBSET Log /\ ethLogs \in SUBSET Log
      /\ \A l \in erc20Logs, m \in ethLogs : l # m
  BY SyncAssumption DEF TypeOK, Event, Log
<1>3. /\ r \in Seq(Row)
      /\ \A i \in 1..Len(r) : \E l \in erc20Logs : r[i] = NewRow(l)
      /\ \A l \in erc20Logs : \E i \in 1..Len(r) : r[i] = NewRow(l)
      /\ \A i, j \in 1..Len(r) : i # j =>
              \E l, m \in erc20Logs : l # m /\ r[i] = NewRow(l) /\ r[j] = NewRow(m)
  BY <1>2, RowSeqsFacts
<1>4. /\ s \in Seq(Row)
      /\ \A i \in 1..Len(s) : \E l \in ethLogs : s[i] = NewRow(l)
      /\ \A l \in ethLogs : \E i \in 1..Len(s) : s[i] = NewRow(l)
      /\ \A i, j \in 1..Len(s) : i # j =>
              \E l, m \in ethLogs : l # m /\ s[i] = NewRow(l) /\ s[j] = NewRow(m)
  BY <1>2, RowSeqsFacts
<1> DEFINE a == Len(deposits)
           b == Len(r)
           c == Len(s)
<1>5. /\ a \in Nat /\ b \in Nat /\ c \in Nat
      /\ DOMAIN deposits = 1..a
      /\ DOMAIN deposits' = 1..(a + b + c)
      /\ \A i \in 1..a : deposits'[i] = deposits[i]
      /\ \A i \in 1..b : deposits'[a + i] = r[i]
      /\ \A i \in 1..c : deposits'[a + b + i] = s[i]
  <2>1. deposits \in Seq(Row)
    BY DEF TypeOK
  <2>2. /\ deposits \o r \in Seq(Row) /\ Len(deposits \o r) = a + b
        /\ \A i \in 1..a : (deposits \o r)[i] = deposits[i]
        /\ \A i \in 1..b : (deposits \o r)[a + i] = r[i]
    BY <1>3, <2>1
  <2>3. /\ deposits' \in Seq(Row) /\ Len(deposits') = a + b + c
        /\ \A i \in 1..(a + b) : deposits'[i] = (deposits \o r)[i]
        /\ \A i \in 1..c : deposits'[a + b + i] = s[i]
    BY <1>1, <1>4, <2>2
  <2>4. a \in Nat /\ b \in Nat /\ c \in Nat
    BY <1>3, <1>4, <2>1
  <2>5. DOMAIN deposits = 1..a /\ DOMAIN deposits' = 1..(a + b + c)
    BY <2>1, <2>3
  <2> HIDE DEF a, b, c
  <2>6. \A i \in 1..a : i \in 1..(a + b)
    BY <2>4
  <2>7. \A i \in 1..b : a + i \in 1..(a + b)
    BY <2>4
  <2>8. \A i \in 1..a : deposits'[i] = deposits[i]
    BY <2>2, <2>3, <2>6
  <2>9. \A i \in 1..b : deposits'[a + i] = r[i]
    BY <2>2, <2>3, <2>7
  <2>10. QED
    BY <2>3, <2>4, <2>5, <2>8, <2>9
<1> HIDE DEF a, b, c
<1>6. \A i \in DOMAIN deposits' \ DOMAIN deposits :
        \/ \E k \in 1..b : i = a + k /\ deposits'[i] = r[k]
        \/ \E k \in 1..c : i = a + b + k /\ deposits'[i] = s[k]
  <2>1. TAKE i \in DOMAIN deposits' \ DOMAIN deposits
  <2>2. i \in Nat /\ a < i /\ i <= a + b + c
    BY <1>5
  <2>3. CASE i <= a + b
    <3>1. i - a \in 1..b /\ i = a + (i - a)
      BY <1>5, <2>2, <2>3
    <3>2. QED
      BY <1>5, <3>1
  <2>4. CASE i > a + b
    <3>1. i - (a + b) \in 1..c /\ i = a + b + (i - (a + b))
      BY <1>5, <2>2, <2>4
    <3>2. QED
      BY <1>5, <3>1
  <2>5. QED
    BY <1>5, <2>2, <2>3, <2>4
<1>7. \A i \in DOMAIN deposits' \ DOMAIN deposits : \E l \in logs : deposits'[i] = NewRow(l)
  <2>1. /\ \A k \in 1..b : \E l \in logs : r[k] = NewRow(l)
        /\ \A k \in 1..c : \E l \in logs : s[k] = NewRow(l)
    BY <1>3, <1>4 DEF b, c
  <2> HIDE DEF logs
  <2>2. QED
    BY <1>6, <2>1
<1>8. \A l \in logs : \E i \in DOMAIN deposits' : deposits'[i] = NewRow(l)
  <2>1. (\A i \in 1..b : a + i \in DOMAIN deposits') /\ (\A i \in 1..c : a + b + i \in DOMAIN deposits')
    BY <1>5
  <2>2. ASSUME NEW l \in erc20Logs
        PROVE  \E i \in DOMAIN deposits' : deposits'[i] = NewRow(l)
    <3>1. PICK k \in 1..b : r[k] = NewRow(l)
      BY <1>3, <2>2 DEF b
    <3>2. QED
      BY <1>5, <2>1, <3>1
  <2>3. ASSUME NEW l \in ethLogs
        PROVE  \E i \in DOMAIN deposits' : deposits'[i] = NewRow(l)
    <3>1. PICK k \in 1..c : s[k] = NewRow(l)
      BY <1>4, <2>3 DEF c
    <3>2. QED
      BY <1>5, <2>1, <3>1
  <2>4. QED
    BY <2>2, <2>3
<1>9. ASSUME NEW i \in DOMAIN deposits' \ DOMAIN deposits,
             NEW j \in DOMAIN deposits' \ DOMAIN deposits, i # j
      PROVE  \E l, m \in logs : l # m /\ deposits'[i] = NewRow(l) /\ deposits'[j] = NewRow(m)
  <2>1. CASE \E k, n \in 1..b : i = a + k /\ deposits'[i] = r[k] /\ j = a + n /\ deposits'[j] = r[n]
    <3>1. PICK k \in 1..b, n \in 1..b :
            i = a + k /\ deposits'[i] = r[k] /\ j = a + n /\ deposits'[j] = r[n]
      BY <2>1
    <3>2. k # n
      BY <1>9, <3>1
    <3>3. PICK l \in erc20Logs, m \in erc20Logs : l # m /\ r[k] = NewRow(l) /\ r[n] = NewRow(m)
      BY <1>3, <3>2 DEF b
    <3>4. QED
      BY <3>1, <3>3
  <2>2. CASE \E k, n \in 1..c :
               i = a + b + k /\ deposits'[i] = s[k] /\ j = a + b + n /\ deposits'[j] = s[n]
    <3>1. PICK k \in 1..c, n \in 1..c :
            i = a + b + k /\ deposits'[i] = s[k] /\ j = a + b + n /\ deposits'[j] = s[n]
      BY <2>2
    <3>2. k # n
      BY <1>9, <3>1
    <3>3. PICK l \in ethLogs, m \in ethLogs : l # m /\ s[k] = NewRow(l) /\ s[n] = NewRow(m)
      BY <1>4, <3>2 DEF c
    <3>4. QED
      BY <3>1, <3>3
  <2>3. CASE \E k \in 1..b, n \in 1..c : deposits'[i] = r[k] /\ deposits'[j] = s[n]
    <3>1. \E l \in erc20Logs, m \in ethLogs : deposits'[i] = NewRow(l) /\ deposits'[j] = NewRow(m)
      BY <1>3, <1>4, <2>3 DEF b, c
    <3>2. QED
      BY <1>2, <3>1
  <2>4. CASE \E k \in 1..c, n \in 1..b : deposits'[i] = s[k] /\ deposits'[j] = r[n]
    <3>1. \E l \in ethLogs, m \in erc20Logs : deposits'[i] = NewRow(l) /\ deposits'[j] = NewRow(m)
      BY <1>3, <1>4, <2>4 DEF b, c
    <3>2. QED
      BY <1>2, <3>1
  <2> HIDE DEF logs
  <2>5. QED
    BY <1>6, <1>9, <2>1, <2>2, <2>3, <2>4
<1>10. DOMAIN deposits \subseteq DOMAIN deposits' /\ \A i \in DOMAIN deposits : deposits'[i] = deposits[i]
  BY <1>5
<1> HIDE DEF logs
<1>11. QED
  BY <1>7, <1>8, <1>9, <1>10 DEF logs

\* The logs of the blocks height..endHeight that a node which has all of them
\* returns.
AllLogs(events) ==
  {l \in [block : Heights \cap height..endHeight, event : events] :
      l.event \in chain[l.block]}

\* The cursor in memory is never beyond the block after the saved one, and
\* everything behind the saved one is final.
CursorInv ==
  /\ dbHeight # NoHeight => /\ StartFrom <= dbHeight
                            /\ dbHeight = StartFrom \/ dbHeight + ConfirmationNumber <= head
  /\ pc # "down" => /\ dbHeight # NoHeight /\ StartFrom <= height /\ height <= dbHeight + 1
                    /\ ~skipped /\ dbHeight = StartFrom => height = StartFrom

\* A range ends at the confirmed height at most.
RangeInv ==
  /\ pc # "down" /\ height < targetHeight => targetHeight + ConfirmationNumber <= head
  /\ pc \in InRange => /\ height < targetHeight
                      /\ height <= endHeight /\ endHeight <= targetHeight

\* The answers of the two calls belong to one and the same chain.
LogsInv ==
  /\ pc \in {"eth", "save"} => erc20Logs = AllLogs(ERC20Deposits)
  /\ pc = "save" => ethLogs = AllLogs(ETHDeposits)

\* A row was read from a final block.
RowsInv ==
  \A i \in DOMAIN deposits : /\ deposits[i].height + ConfirmationNumber <= head
                             /\ deposits[i].event \in chain[deposits[i].height]

SyncInv == TypeOK /\ CursorInv /\ RangeInv /\ LogsInv /\ RowsInv /\ NoMissedDeposit

\* A change of the chain that leaves the blocks at the confirmation depth
\* alone and does not shorten it keeps what the syncer knows true.
LEMMA ChainChangeKeepsInv ==
  ASSUME Finality, SyncInv, TypeOK',
         head' \in Heights, head <= head',
         \A h \in Heights : h + MaxReorg <= head => chain'[h] = chain[h],
         UNCHANGED <<dbVars, pc, height, runVars, history>>
  PROVE  SyncInv'
<1> USE SyncAssumption DEF Heights, history
<1>1. head \in Nat /\ head' \in Nat /\ \A h \in Heights : h + ConfirmationNumber <= head =>
                        h + ConfirmationNumber <= head' /\ chain'[h] = chain[h]
  BY DEF Finality, SyncInv, TypeOK
<1>2. CursorInv'
  BY <1>1 DEF SyncInv, TypeOK, CursorInv, dbVars, NoHeight
<1>3. RangeInv'
  BY <1>1 DEF SyncInv, TypeOK, RangeInv, runVars, dbVars
<1>4. LogsInv'
  <2>1. pc \in InRange => \A h \in Heights \cap height..endHeight : chain'[h] = chain[h]
    <3>1. pc \in InRange => /\ height \in Nat /\ endHeight \in Nat /\ head \in Nat
                            /\ endHeight + ConfirmationNumber <= head
      BY <1>1 DEF SyncInv, TypeOK, RangeInv, InRange
    <3>2. QED
      BY <1>1, <3>1
  <2>2. ASSUME pc \in InRange, NEW events PROVE AllLogs(events)' = AllLogs(events)
    <3>1. height' = height /\ endHeight' = endHeight
      BY DEF runVars
    <3>2. QED
      BY <2>1, <2>2, <3>1 DEF AllLogs
  <2>3. pc' = pc /\ erc20Logs' = erc20Logs /\ ethLogs' = ethLogs
    BY DEF runVars
  <2>4. QED
    BY <2>2, <2>3 DEF SyncInv, LogsInv, InRange
<1>5. RowsInv'
  <2>1. \A i \in DOMAIN deposits : deposits[i].height \in Heights
    <3>1. deposits \in Seq(Row)
      BY DEF SyncInv, TypeOK
    <3>2. \A i \in DOMAIN deposits : deposits[i] \in Row
      BY <3>1
    <3>3. QED
      BY <3>2 DEF Row
  <2>2. deposits' = deposits
    BY DEF dbVars
  <2>3. ASSUME NEW i \in DOMAIN deposits
        PROVE  /\ deposits[i].height + ConfirmationNumber <= head'
               /\ deposits[i].event \in chain'[deposits[i].height]
    BY <1>1, <2>1 DEF SyncInv, RowsInv
  <2>4. QED
    BY <2>2, <2>3 DEF RowsInv
<1>6. NoMissedDeposit'
  <2>1. Synced' = Synced
    BY DEF Synced, dbVars
  <2>2. dbHeight # NoHeight => \A h \in Synced : h \in Heights /\ chain'[h] = chain[h]
    BY <1>1 DEF SyncInv, TypeOK, CursorInv, Synced
  <2>3. dbHeight = NoHeight => Synced = {}
    BY DEF Synced, NoHeight
  <2>4. QED
    BY <2>1, <2>2, <2>3 DEF SyncInv, NoMissedDeposit, Recorded, dbVars
<1>7. QED
  BY <1>2, <1>3, <1>4, <1>5, <1>6 DEF SyncInv

\* A node that may be asked has every block of a range that is being synced.
LEMMA NodeHasRange ==
  ASSUME Finality, SyncInv, pc \in InRange, NEW n \in NodeHead, NEW events
  PROVE  Logs(n, events) = AllLogs(events)
<1>1. endHeight + MaxLag <= head /\ endHeight \in Nat /\ height \in Nat /\ head \in Nat
  BY SyncAssumption DEF Finality, SyncInv, TypeOK, RangeInv, InRange, Heights
<1>2. n \in Nat /\ head <= n + MaxLag
  BY SyncAssumption DEF NodeHead, Heights
<1>3. \A h \in Heights \cap height..endHeight : h <= n
  BY <1>1, <1>2, SyncAssumption DEF Heights
<1>4. QED
  BY <1>3 DEF Logs, AllLogs

\* The transaction of SaveSyncedData, whether its answer arrives or not.
LEMMA CommitKeepsInv ==
  ASSUME Finality, SyncInv, pc = "save", CommitSyncedData, UNCHANGED <<chainVars, skipped>>
  PROVE  /\ RowsInv' /\ NoMissedDeposit'
         /\ dbHeight' = endHeight
         /\ StartFrom <= endHeight /\ endHeight + ConfirmationNumber <= head
<1> USE SyncAssumption DEF Heights
<1>1. /\ dbHeight' = endHeight /\ endHeight \in Heights
      /\ StartFrom <= height /\ height <= endHeight /\ height <= dbHeight + 1
      /\ ~skipped /\ dbHeight = StartFrom => height = StartFrom
      /\ endHeight + ConfirmationNumber <= head
      /\ dbHeight # NoHeight
  BY TypeCommit DEF SyncInv, TypeOK, CursorInv, RangeInv, InRange
<1>2. erc20Logs = AllLogs(ERC20Deposits) /\ ethLogs = AllLogs(ETHDeposits)
  BY DEF SyncInv, LogsInv
<1>3. \A l \in erc20Logs \cup ethLogs :
        /\ l.block \in Heights /\ l.block <= endHeight /\ l.event \in chain[l.block]
        /\ NewRow(l).height = l.block /\ NewRow(l).event = l.event
  BY <1>1, <1>2 DEF AllLogs, NewRow, SyncInv, TypeOK
<1>4. RowsInv'
  <2>1. ASSUME NEW i \in DOMAIN deposits'
        PROVE  /\ deposits'[i].height + ConfirmationNumber <= head
               /\ deposits'[i].event \in chain[deposits'[i].height]
    <3>1. CASE i \in DOMAIN deposits
      BY <3>1, CommitEffect DEF SyncInv, RowsInv
    <3>2. CASE i \notin DOMAIN deposits
      <4>1. PICK l \in erc20Logs \cup ethLogs : deposits'[i] = NewRow(l)
        BY <3>2, CommitEffect DEF SyncInv
      <4>2. QED
        BY <1>1, <1>3, <4>1 DEF SyncInv, TypeOK
    <3>3. QED
      BY <3>1, <3>2
  <2>2. QED
    BY <2>1 DEF RowsInv, chainVars
<1>5. NoMissedDeposit'
  <2> SUFFICES ASSUME NEW h \in Synced', NEW e \in chain[h]
               PROVE  Recorded(h, e)'
    BY DEF NoMissedDeposit, chainVars
  <2>1. h \in Heights /\ e \in Event /\ h <= endHeight /\ StartFrom <= h /\ (h = StartFrom => ~skipped)
    BY <1>1 DEF SyncInv, TypeOK, Synced
  <2>2. CASE h < height
    <3>1. h \in Synced
      BY <1>1, <2>1, <2>2 DEF SyncInv, TypeOK, Synced
    <3>2. Recorded(h, e)
      BY <3>1 DEF SyncInv, NoMissedDeposit
    <3>3. PICK i \in DOMAIN deposits : deposits[i].event = e /\ deposits[i].height = h
      BY <3>2 DEF Recorded
    <3>4. i \in DOMAIN deposits' /\ deposits'[i] = deposits[i]
      BY CommitEffect DEF SyncInv
    <3>5. QED
      BY <3>3, <3>4 DEF Recorded
  <2>3. CASE height <= h
    <3> DEFINE l == [block |-> h, event |-> e]
    <3>1. h \in Heights \cap height..endHeight
      BY <2>1, <2>3, <1>1 DEF SyncInv, TypeOK
    <3>2. l \in erc20Logs \cup ethLogs
      BY <1>2, <2>1, <3>1 DEF AllLogs, Event
    <3>3. \E i \in DOMAIN deposits' : deposits'[i] = NewRow(l)
      BY <3>2, CommitEffect DEF SyncInv
    <3>4. QED
      BY <3>3 DEF Recorded, NewRow
  <2>4. QED
    BY <1>1, <2>1, <2>2, <2>3 DEF SyncInv, TypeOK
<1>6. QED
  BY <1>1, <1>4, <1>5 DEF SyncInv, TypeOK

LEMMA SyncInvInductive ==
  ASSUME Finality, SyncInv, TypeOK', [Next]_vars
  PROVE  SyncInv'
<1> USE SyncAssumption DEF Heights, NoHeight, InRange, history
<1>1. CASE MineBlock
  <2>1. head' = head + 1 /\ head' \in Heights /\ \A h \in Heights : h <= head => chain'[h] = chain[h]
    BY <1>1, MineBlockEffect DEF SyncInv
  <2>2. head <= head' /\ \A h \in Heights : h + MaxReorg <= head => chain'[h] = chain[h]
    BY <2>1 DEF SyncInv, TypeOK
  <2>3. QED
    BY <1>1, <2>1, <2>2, ChainChangeKeepsInv DEF MineBlock
<1>2. CASE Reorg
  <2>1. head' = head /\ \A h \in Heights : h + MaxReorg <= head => chain'[h] = chain[h]
    BY <1>2, ReorgEffect DEF SyncInv
  <2>2. head' \in Heights /\ head <= head'
    BY <2>1 DEF SyncInv, TypeOK
  <2>3. QED
    BY <1>2, <2>1, <2>2, ChainChangeKeepsInv DEF Reorg
<1>3. CASE Prefight
  <2>1. CursorInv' /\ RangeInv' /\ LogsInv'
    BY <1>3 DEF Prefight, AfterSaved, SyncInv, TypeOK, CursorInv, RangeInv, LogsInv, chainVars, runVars
  <2>2. RowsInv'
    BY <1>3 DEF Prefight, AfterSaved, SyncInv, RowsInv, chainVars
  <2>3. Synced' \subseteq Synced
    <3>1. CASE dbHeight = NoHeight
      BY <1>3, <3>1 DEF Prefight, SyncInv, TypeOK, Synced
    <3>2. CASE dbHeight # NoHeight
      BY <1>3, <3>2 DEF Prefight, SyncInv, TypeOK, Synced
    <3>3. QED
      BY <3>1, <3>2
  <2>4. chain' = chain /\ deposits' = deposits
    BY <1>3 DEF Prefight, chainVars
  <2>5. NoMissedDeposit'
    BY <2>3, <2>4 DEF SyncInv, NoMissedDeposit, Recorded
  <2>6. QED
    BY <2>1, <2>2, <2>5 DEF SyncInv
<1>4. ASSUME UNCHANGED <<chainVars, dbVars, skipped>> PROVE RowsInv' /\ NoMissedDeposit'
  BY <1>4 DEF SyncInv, RowsInv, NoMissedDeposit, Synced, Recorded, chainVars, dbVars
<1>5. CASE StartRun
  <2>1. CursorInv' /\ RangeInv' /\ LogsInv'
    BY <1>5 DEF StartRun, NodeHead, ConfirmedHeight, SyncInv, TypeOK, CursorInv, RangeInv,
                LogsInv, Finality, chainVars, dbVars
  <2>2. QED
    BY <1>4, <1>5, <2>1 DEF StartRun, SyncInv
<1>6. CASE BeginRange
  <2>1. CursorInv' /\ RangeInv' /\ LogsInv'
    BY <1>6 DEF BeginRange, More, EndOfRange, SyncInv, TypeOK, CursorInv, RangeInv, LogsInv,
                chainVars, dbVars
  <2>2. QED
    BY <1>4, <1>6, <2>1 DEF BeginRange, More, SyncInv
<1>7. CASE EndRun \/ RunFails \/ Crash
  <2>1. /\ UNCHANGED <<chainVars, dbVars, skipped>> /\ targetHeight' = 0
        /\ pc' \in {"idle", "down"} /\ pc # "down"
        /\ pc' = "idle" => height' = height
    BY <1>7 DEF EndRun, More, RunFails, Crash, ForgetRun
  <2>2. CursorInv'
    BY <2>1 DEF SyncInv, CursorInv, chainVars, dbVars
  <2>3. RangeInv' /\ LogsInv'
    BY <2>1 DEF SyncInv, TypeOK, RangeInv, LogsInv
  <2>4. QED
    BY <1>4, <2>1, <2>2, <2>3 DEF SyncInv
<1>8. CASE FilterERC20Deposits
  <2>1. erc20Logs' = AllLogs(ERC20Deposits)
    BY <1>8, NodeHasRange DEF FilterERC20Deposits
  <2>2. AllLogs(ERC20Deposits)' = AllLogs(ERC20Deposits)
    BY <1>8 DEF FilterERC20Deposits, AllLogs, chainVars
  <2>3. CursorInv' /\ RangeInv'
    BY <1>8 DEF FilterERC20Deposits, SyncInv, TypeOK, CursorInv, RangeInv, chainVars, dbVars
  <2>4. LogsInv'
    BY <1>8, <2>1, <2>2 DEF FilterERC20Deposits, LogsInv
  <2>5. QED
    BY <1>4, <1>8, <2>3, <2>4 DEF FilterERC20Deposits, SyncInv
<1>9. CASE FilterETHDeposits
  <2>1. ethLogs' = AllLogs(ETHDeposits) /\ erc20Logs' = AllLogs(ERC20Deposits)
    BY <1>9, NodeHasRange DEF FilterETHDeposits, SyncInv, LogsInv
  <2>2. /\ AllLogs(ERC20Deposits)' = AllLogs(ERC20Deposits)
        /\ AllLogs(ETHDeposits)' = AllLogs(ETHDeposits)
    BY <1>9 DEF FilterETHDeposits, AllLogs, chainVars
  <2>3. CursorInv' /\ RangeInv'
    BY <1>9 DEF FilterETHDeposits, SyncInv, TypeOK, CursorInv, RangeInv, chainVars, dbVars
  <2>4. LogsInv'
    BY <1>9, <2>1, <2>2 DEF FilterETHDeposits, LogsInv
  <2>5. QED
    BY <1>4, <1>9, <2>3, <2>4 DEF FilterETHDeposits, SyncInv
<1>10. CASE SaveSyncedData
  <2>1. /\ RowsInv' /\ NoMissedDeposit' /\ dbHeight' = endHeight
        /\ StartFrom <= endHeight /\ endHeight + ConfirmationNumber <= head
    BY <1>10, CommitKeepsInv DEF SaveSyncedData, AfterRange
  <2>2. CursorInv' /\ RangeInv' /\ LogsInv'
    BY <1>10, <2>1 DEF SaveSyncedData, AfterRange, SyncInv, TypeOK, CursorInv, RangeInv, LogsInv, chainVars
  <2>3. QED
    BY <2>1, <2>2 DEF SyncInv
<1>11. CASE SaveLosesAck
  <2>1. /\ RowsInv' /\ NoMissedDeposit' /\ dbHeight' = endHeight
        /\ StartFrom <= endHeight /\ endHeight + ConfirmationNumber <= head
    BY <1>11, CommitKeepsInv DEF SaveLosesAck
  <2>2. CursorInv' /\ RangeInv' /\ LogsInv'
    BY <1>11, <2>1 DEF SaveLosesAck, ForgetRun, SyncInv, TypeOK, CursorInv, RangeInv, LogsInv,
                       chainVars
  <2>3. QED
    BY <2>1, <2>2 DEF SyncInv
<1>12. CASE UNCHANGED vars
  <2>1. CursorInv' /\ RangeInv'
    BY <1>12 DEF vars, history, chainVars, dbVars, runVars, SyncInv, CursorInv, RangeInv
  <2>2. \A events : AllLogs(events)' = AllLogs(events)
    BY <1>12 DEF vars, history, chainVars, runVars, AllLogs
  <2>3. LogsInv'
    BY <1>12, <2>2 DEF vars, history, runVars, SyncInv, LogsInv
  <2>4. QED
    BY <1>4, <1>12, <2>1, <2>3 DEF vars, history, SyncInv
<1>13. QED
  BY <1>1, <1>2, <1>3, <1>5, <1>6, <1>7, <1>8, <1>9, <1>10, <1>11, <1>12 DEF Next, Syncer, L1

LEMMA SyncInvInit == Init => SyncInv
  BY SyncAssumption DEF Init, SyncInv, TypeOK, CursorInv, RangeInv, LogsInv, RowsInv,
     NoMissedDeposit, Heights, NoHeight, InRange, Row

LEMMA SyncInvAlways ==
  ASSUME Finality
  PROVE  Spec => []SyncInv
<1>1. Init => SyncInv
  BY SyncInvInit
<1>2. SyncInv /\ TypeOK' /\ [Next]_vars => SyncInv'
  BY SyncInvInductive
<1>3. QED
  BY <1>1, <1>2, SyncTypeCorrect, PTL DEF Spec

\* Whatever the order of scans, failures, lost answers, restarts, lagging nodes
\* and reorganisations no deeper than the confirmation depth, every deposit
\* between the start block and the saved cursor is in the table.
THEOREM SyncMissesNoDeposit ==
  ASSUME Finality
  PROVE  Spec => []NoMissedDeposit
<1>1. SyncInv => NoMissedDeposit
  BY DEF SyncInv
<1>2. QED
  BY <1>1, SyncInvAlways, PTL

\* Under the same assumptions no row stands for a deposit that a
\* reorganisation removed.
THEOREM SyncRecordsCanonicalDeposits ==
  ASSUME Finality
  PROVE  Spec => []RecordedIsCanonical
<1>1. SyncInv => RecordedIsCanonical
  BY DEF SyncInv, RowsInv, RecordedIsCanonical
<1>2. QED
  BY <1>1, SyncInvAlways, PTL

-----------------------------------------------------------------------------
(* No deposit is recorded twice                                            *)

ChainInv == Disjoint /\ \A h \in Heights : h > head => chain[h] = {}

\* As long as no commit lost its answer the cursor in memory is the block
\* after the saved one (or the start block, saved by InitHeight before it was
\* scanned), and no row is of a block beyond the saved one.
OnceInv ==
  /\ ChainInv
  /\ dbHeight = NoHeight => deposits = << >>
  /\ lostAcks = 0 =>
       /\ pc # "down" => height = dbHeight + 1 \/ (height = dbHeight /\ deposits = << >>)
       /\ \A i \in DOMAIN deposits : deposits[i].height <= dbHeight
       /\ NoDuplicateRow

LEMMA ChainInvInductive ==
  ASSUME TypeOK, ChainInv, [Next]_vars
  PROVE  ChainInv'
<1>1. CASE MineBlock
  <2>1. PICK S \in SUBSET (Event \ Mined) : chain' = [chain EXCEPT ![head + 1] = S]
    BY <1>1 DEF MineBlock
  <2>2. head' = head + 1 /\ head \in Nat /\ Disjoint'
    BY <1>1, MineBlockEffect, SyncAssumption DEF TypeOK, ChainInv, Heights
  <2>3. \A h \in Heights : h > head' => chain'[h] = {}
    BY <2>1, <2>2, SyncAssumption DEF TypeOK, ChainInv, Heights
  <2>4. QED
    BY <2>2, <2>3 DEF ChainInv
<1>2. CASE Reorg
  <2>1. /\ head' = head
        /\ \A h \in Heights : h + MaxReorg <= head \/ h > head => chain'[h] = chain[h]
        /\ Disjoint /\ (\A h \in Heights : h > head => chain[h] = {}) => Disjoint'
    BY <1>2, ReorgEffect
  <2>2. QED
    BY <2>1 DEF ChainInv
<1>3. ASSUME UNCHANGED chainVars PROVE ChainInv'
  BY <1>3 DEF ChainInv, Disjoint, chainVars
<1>4. QED
  BY <1>1, <1>2, <1>3 DEF Next, Syncer, L1, Prefight, AfterSaved, StartRun, BeginRange, More, EndRun, More,
     FilterERC20Deposits, FilterETHDeposits, SaveSyncedData, SaveLosesAck, RunFails, Crash, vars

\* The rows of one more range: their heights lie in the range, each is of a
\* deposit of its own, and an older row of the same deposit has the same height.
LEMMA CommitNewRows ==
  ASSUME SyncInv, ChainInv, pc = "save", CommitSyncedData
  PROVE  LET new == DOMAIN deposits' \ DOMAIN deposits IN
         /\ DOMAIN deposits \subseteq DOMAIN deposits'
         /\ \A i \in DOMAIN deposits : deposits'[i] = deposits[i] /\ deposits[i].height \in Heights
         /\ \A i \in new : /\ deposits'[i].height \in Heights
                           /\ height <= deposits'[i].height /\ deposits'[i].height <= endHeight
         /\ \A i \in DOMAIN deposits, j \in new :
              deposits'[i].event = deposits'[j].event => deposits'[i].height = deposits'[j].height
         /\ \A i, j \in new : deposits'[i].event = deposits'[j].event => i = j
<1> DEFINE logs == erc20Logs \cup ethLogs
           old == DOMAIN deposits
           new == DOMAIN deposits' \ DOMAIN deposits
<1>1. \A l \in logs : /\ l = [block |-> l.block, event |-> l.event]
                      /\ l.block \in Heights /\ height <= l.block /\ l.block <= endHeight
                      /\ l.event \in chain[l.block]
                      /\ NewRow(l).height = l.block /\ NewRow(l).event = l.event
  BY SyncAssumption DEF SyncInv, TypeOK, LogsInv, AllLogs, NewRow, Heights
<1>2. /\ \A i \in old : i \in DOMAIN deposits' /\ deposits'[i] = deposits[i]
      /\ \A i \in new : \E l \in logs : deposits'[i] = NewRow(l)
      /\ \A i, j \in new : i # j =>
           \E l, m \in logs : l # m /\ deposits'[i] = NewRow(l) /\ deposits'[j] = NewRow(m)
  BY CommitEffect DEF SyncInv
<1>3. \A i \in old : /\ deposits[i].height \in Heights
                     /\ deposits[i].event \in chain[deposits[i].height]
  <2>1. \A i \in DOMAIN deposits : deposits[i] \in Row
    BY DEF SyncInv, TypeOK
  <2>2. QED
    BY <2>1 DEF SyncInv, RowsInv, Row
<1> HIDE DEF logs
<1>4. ASSUME NEW i \in old, NEW j \in new, deposits'[i].event = deposits'[j].event
      PROVE  deposits'[i].height = deposits'[j].height
  <2>1. PICK l \in logs : deposits'[j] = NewRow(l)
    BY <1>2
  <2>2. CASE deposits[i].height # l.block
    <3>1. chain[deposits[i].height] \cap chain[l.block] = {}
      BY <1>1, <1>3, <2>2 DEF ChainInv, Disjoint
    <3>2. QED
      BY <1>1, <1>2, <1>3, <1>4, <2>1, <3>1
  <2>3. QED
    BY <1>1, <1>2, <2>1, <2>2
<1>5. ASSUME NEW i \in new, NEW j \in new, i # j PROVE deposits'[i].event # deposits'[j].event
  <2>1. PICK l \in logs, m \in logs : l # m /\ deposits'[i] = NewRow(l) /\ deposits'[j] = NewRow(m)
    BY <1>2, <1>5
  <2>2. CASE l.block = m.block
    BY <1>1, <2>1, <2>2
  <2>3. CASE l.block # m.block
    <3>1. chain[l.block] \cap chain[m.block] = {}
      BY <1>1, <2>3 DEF ChainInv, Disjoint
    <3>2. QED
      BY <1>1, <2>1, <3>1
  <2>4. QED
    BY <2>2, <2>3
<1>6. \A i \in new : /\ deposits'[i].height \in Heights
                     /\ height <= deposits'[i].height /\ deposits'[i].height <= endHeight
  BY <1>1, <1>2
<1>7. DOMAIN deposits \subseteq DOMAIN deposits'
  BY <1>2
<1>8. QED
  BY <1>2, <1>3, <1>4, <1>5, <1>6, <1>7

\* If every older row is of a block before the range, none of its deposits is
\* recorded again.
LEMMA CommitKeepsOneRow ==
  ASSUME SyncInv, ChainInv, pc = "save", CommitSyncedData, NoDuplicateRow,
         lostAcks = 0, \A i \in DOMAIN deposits : deposits[i].height < height
  PROVE  /\ \A i \in DOMAIN deposits' : deposits'[i].height <= endHeight
         /\ \A i, j \in DOMAIN deposits' : deposits'[i].event = deposits'[j].event => i = j
<1> DEFINE old == DOMAIN deposits
           new == DOMAIN deposits' \ DOMAIN deposits
<1>1. /\ old \subseteq DOMAIN deposits'
      /\ \A i \in old : deposits'[i] = deposits[i] /\ deposits[i].height \in Heights
      /\ \A i \in new : /\ deposits'[i].height \in Heights
                        /\ height <= deposits'[i].height /\ deposits'[i].height <= endHeight
      /\ \A i \in old, j \in new :
           deposits'[i].event = deposits'[j].event => deposits'[i].height = deposits'[j].height
      /\ \A i, j \in new : deposits'[i].event = deposits'[j].event => i = j
  BY CommitNewRows
<1>2. height \in Nat /\ endHeight \in Nat /\ height <= endHeight
  BY SyncAssumption DEF SyncInv, TypeOK, RangeInv, InRange, Heights
<1> HIDE DEF new
<1>3. \A i \in old : deposits'[i].height < height /\ deposits'[i].height \in Nat
  BY <1>1, SyncAssumption DEF Heights
<1>4. \A i \in DOMAIN deposits' : i \in old \/ i \in new
  BY DEF new
<1>5. \A i \in DOMAIN deposits' : deposits'[i].height <= endHeight
  BY <1>1, <1>2, <1>3, <1>4
<1>6. \A i \in old, j \in new : deposits'[i].event # deposits'[j].event
  BY <1>1, <1>2, <1>3, SyncAssumption DEF Heights
<1>7. \A i, j \in old : deposits'[i].event = deposits'[j].event => i = j
  BY <1>1 DEF NoDuplicateRow
<1>8. QED
  BY <1>1, <1>4, <1>5, <1>6, <1>7

LEMMA OnceInvInductive ==
  ASSUME Finality, SyncInv, OnceInv, [Next]_vars
  PROVE  OnceInv' /\ (lostAcks = 0 => dbHeight' >= dbHeight)
<1> USE SyncAssumption DEF Heights, NoHeight, history
<1>1. ChainInv'
  BY ChainInvInductive DEF SyncInv, OnceInv
<1>2. CASE SaveSyncedData \/ SaveLosesAck
  <2>1. /\ CommitSyncedData /\ pc = "save" /\ UNCHANGED chainVars
        /\ \/ lostAcks' = lostAcks /\ height' = endHeight + 1
           \/ lostAcks' = lostAcks + 1
    BY <1>2 DEF SaveSyncedData, AfterRange, SaveLosesAck
  <2>2. /\ dbHeight' = endHeight /\ endHeight \in Nat /\ height \in Nat /\ lostAcks \in Nat
        /\ dbHeight \in Nat /\ height <= endHeight
    BY <2>1, TypeCommit DEF SyncInv, TypeOK, RangeInv, CursorInv, InRange
  <2>3. CASE lostAcks = 0
    <3>1. /\ \A i \in DOMAIN deposits : deposits[i].height < height
          /\ dbHeight <= height /\ NoDuplicateRow
      <4>1. \A i \in DOMAIN deposits : deposits[i] \in Row
        BY DEF SyncInv, TypeOK
      <4>2. QED
        BY <2>1, <2>2, <2>3, <4>1 DEF OnceInv, Row
    <3>2. /\ \A i \in DOMAIN deposits' : deposits'[i].height <= endHeight
          /\ \A i, j \in DOMAIN deposits' : deposits'[i].event = deposits'[j].event => i = j
      BY <2>1, <2>3, <3>1, CommitKeepsOneRow DEF OnceInv
    <3>3. QED
      BY <1>1, <2>1, <2>2, <2>3, <3>1, <3>2 DEF OnceInv, NoDuplicateRow
  <2>4. CASE lostAcks # 0
    BY <1>1, <2>1, <2>2, <2>4 DEF OnceInv
  <2>5. QED
    BY <2>3, <2>4
<1>3. CASE Prefight
  <2>1. /\ UNCHANGED <<deposits, lostAcks>>
        /\ \/ dbHeight = NoHeight /\ height' = StartFrom /\ dbHeight' = StartFrom
           \/ dbHeight # NoHeight /\ height' = dbHeight + 1 /\ dbHeight' = dbHeight
    BY <1>3 DEF Prefight, AfterSaved
  <2>2. NoDuplicateRow' <=> NoDuplicateRow
    BY <2>1 DEF NoDuplicateRow
  <2>3. QED
    BY <1>1, <2>1, <2>2 DEF OnceInv, SyncInv, TypeOK
<1>4. CASE /\ UNCHANGED <<deposits, dbHeight, lostAcks>>
           /\ pc' # "down" => pc # "down" /\ height' = height
  <2>1. NoDuplicateRow' <=> NoDuplicateRow
    BY <1>4 DEF NoDuplicateRow
  <2>2. QED
    BY <1>1, <1>4, <2>1 DEF OnceInv, SyncInv, TypeOK
<1>5. QED
  BY <1>2, <1>3, <1>4 DEF Next, Syncer, L1, MineBlock, Reorg, StartRun, BeginRange, More, EndRun, More,
     FilterERC20Deposits, FilterETHDeposits, RunFails, Crash, InRange, vars, dbVars

LEMMA OnceInvAlways ==
  ASSUME Finality
  PROVE  Spec => [](SyncInv /\ OnceInv)
<1>1. Init => OnceInv
  BY SyncAssumption DEF Init, OnceInv, ChainInv, Disjoint, NoDuplicateRow, Heights
<1>2. SyncInv /\ OnceInv /\ [Next]_vars => OnceInv'
  BY OnceInvInductive
<1>3. QED
  BY <1>1, <1>2, SyncInvAlways, PTL DEF Spec

\* As long as every commit got its answer, no deposit has two rows: failed
\* runs and restarts never make the syncer save a block twice.
THEOREM SyncRecordsOnce ==
  ASSUME Finality
  PROVE  Spec => []NoDuplicateRow
<1>1. OnceInv => NoDuplicateRow
  BY DEF OnceInv, NoDuplicateRow
<1>2. QED
  BY <1>1, OnceInvAlways, PTL

\* As long as every commit got its answer, the saved cursor never moves back.
THEOREM SyncCursorMonotone ==
  ASSUME Finality
  PROVE  Spec => CursorNeverMovesBack
<1>1. SyncInv /\ OnceInv /\ [Next]_vars => [lostAcks = 0 => dbHeight' >= dbHeight]_vars
  BY OnceInvInductive
<1>2. QED
  BY <1>1, OnceInvAlways, PTL DEF Spec, CursorNeverMovesBack

-----------------------------------------------------------------------------
(* How many rows a deposit may have                                        *)

RowsOf(e) == {i \in DOMAIN deposits : deposits[i].event = e}

\* The block that is read next, after a restart if the process is down.
NextHeight == IF pc = "down" THEN dbHeight + 1 ELSE height

\* A deposit that will be read again, since its block was saved by a commit that
\* lost its answer, has a row less than such commits allow.
ExtraInv ==
  /\ ExtraRowsBounded
  /\ \A i \in DOMAIN deposits : deposits[i].height >= NextHeight =>
       Cardinality(RowsOf(deposits[i].event)) <= lostAcks

LEMMA RowsOfFinite ==
  ASSUME TypeOK, NEW e
  PROVE  IsFiniteSet(RowsOf(e)) /\ Cardinality(RowsOf(e)) \in Nat
<1>1. DOMAIN deposits = 1..Len(deposits) /\ Len(deposits) \in Nat
  BY DEF TypeOK
<1>2. IsFiniteSet(1..Len(deposits)) /\ RowsOf(e) \subseteq 1..Len(deposits)
  BY <1>1, FS_Interval DEF RowsOf
<1>3. QED
  BY <1>2, FS_Subset, FS_CardinalityType

\* A commit adds a row to a deposit of the range at most, and then every row of
\* that deposit is of a block of the range.
LEMMA CommitAddsOneRow ==
  ASSUME SyncInv, ChainInv, pc = "save", CommitSyncedData, NEW e
  PROVE  \/ RowsOf(e)' = RowsOf(e)
         \/ /\ Cardinality(RowsOf(e)') = Cardinality(RowsOf(e)) + 1
            /\ \A i \in RowsOf(e)' : /\ deposits'[i].height \in Heights
                                     /\ height <= deposits'[i].height
                                     /\ deposits'[i].height <= endHeight
<1> DEFINE new == DOMAIN deposits' \ DOMAIN deposits
<1>1. /\ DOMAIN deposits \subseteq DOMAIN deposits'
      /\ \A i \in DOMAIN deposits : deposits'[i] = deposits[i] /\ deposits[i].height \in Heights
      /\ \A i \in new : /\ deposits'[i].height \in Heights
                        /\ height <= deposits'[i].height /\ deposits'[i].height <= endHeight
      /\ \A i \in DOMAIN deposits, j \in new :
           deposits'[i].event = deposits'[j].event => deposits'[i].height = deposits'[j].height
      /\ \A i, j \in new : deposits'[i].event = deposits'[j].event => i = j
  BY CommitNewRows
<1>2. \A i \in DOMAIN deposits' : i \in DOMAIN deposits \/ i \in new
  OBVIOUS
<1>3. \A i : i \in RowsOf(e)' <=> i \in DOMAIN deposits' /\ deposits'[i].event = e
  BY DEF RowsOf
<1>4. \A i : i \in RowsOf(e) <=> i \in DOMAIN deposits /\ deposits[i].event = e
  BY DEF RowsOf
<1>5. CASE \A j \in new : deposits'[j].event # e
  <2>1. \A i : i \in RowsOf(e)' <=> i \in RowsOf(e)
    BY <1>1, <1>2, <1>3, <1>4, <1>5
  <2>2. QED
    BY <2>1
<1>6. CASE \E j \in new : deposits'[j].event = e
  <2>1. PICK j \in new : deposits'[j].event = e
    BY <1>6
  <2>2. j \notin RowsOf(e) /\ RowsOf(e)' = RowsOf(e) \cup {j}
    <3>1. j \notin RowsOf(e)
      BY <1>4, <2>1
    <3>2. \A i : i \in RowsOf(e)' <=> i \in RowsOf(e) \/ i = j
      BY <1>1, <1>2, <1>3, <1>4, <2>1
    <3>3. QED
      BY <3>1, <3>2
  <2>3. Cardinality(RowsOf(e)') = Cardinality(RowsOf(e)) + 1
    BY <2>2, RowsOfFinite, FS_AddElement DEF SyncInv
  <2> HIDE DEF new
  <2>4. \A i \in RowsOf(e)' : deposits'[i].height = deposits'[j].height
    BY <1>1, <1>2, <1>3, <2>1
  <2>5. QED
    BY <1>1, <2>1, <2>3, <2>4
<1>7. QED
  BY <1>5, <1>6

LEMMA ExtraInvInductive ==
  ASSUME SyncInv, SyncInv', OnceInv, ExtraInv, [Next]_vars
  PROVE  ExtraInv'
<1> USE SyncAssumption DEF Heights, NoHeight, history
<1>1. /\ lostAcks \in Nat
      /\ \A e : Cardinality(RowsOf(e)) \in Nat
      /\ \A e \in Event : Cardinality(RowsOf(e)) <= 1 + lostAcks
  <2>1. lostAcks \in Nat
    BY DEF SyncInv, TypeOK
  <2>2. \A e : Cardinality(RowsOf(e)) \in Nat
    BY RowsOfFinite DEF SyncInv
  <2>3. \A e \in Event : Cardinality(RowsOf(e)) <= 1 + lostAcks
    BY DEF ExtraInv, ExtraRowsBounded, RowsOf
  <2>4. QED
    BY <2>1, <2>2, <2>3
<1>2. \A i \in DOMAIN deposits : deposits[i].event \in Event /\ deposits[i].height \in Heights
  <2>1. \A i \in DOMAIN deposits : deposits[i] \in Row
    BY DEF SyncInv, TypeOK
  <2>2. QED
    BY <2>1 DEF Row
<1>3. CASE SaveSyncedData \/ SaveLosesAck
  <2>1. /\ CommitSyncedData /\ pc = "save" /\ pc' \in {"loop", "idle"}
        /\ \/ lostAcks' = lostAcks /\ height' = endHeight + 1
           \/ lostAcks' = lostAcks + 1 /\ height' = height
    BY <1>3 DEF SaveSyncedData, AfterRange, SaveLosesAck
  <2>2. height \in Nat /\ endHeight \in Nat /\ height <= endHeight
    BY <2>1 DEF SyncInv, TypeOK, RangeInv, InRange
  <2>3. NextHeight = height /\ NextHeight' = height'
    BY <2>1 DEF NextHeight
  <2>4. \A e : \/ RowsOf(e)' = RowsOf(e)
               \/ /\ Cardinality(RowsOf(e)') = Cardinality(RowsOf(e)) + 1
                  /\ \A i \in RowsOf(e)' : /\ deposits'[i].height \in Heights
                                           /\ height <= deposits'[i].height
                                           /\ deposits'[i].height <= endHeight
    BY <2>1, CommitAddsOneRow DEF OnceInv
  \* Before the commit a deposit of the range had a row less.
  <2>5. ASSUME NEW e, NEW i \in RowsOf(e), height <= deposits[i].height
        PROVE  Cardinality(RowsOf(e)) <= lostAcks
    BY <2>3, <2>5 DEF ExtraInv, RowsOf
  <2>6. ASSUME NEW e, RowsOf(e)' # RowsOf(e)
        PROVE  Cardinality(RowsOf(e)') <= lostAcks + 1
    <3>1. CASE RowsOf(e) = {}
      <4>1. Cardinality(RowsOf(e)) = 0
        BY <3>1, FS_EmptySet
      <4>2. Cardinality(RowsOf(e)') = Cardinality(RowsOf(e)) + 1
        BY <2>4, <2>6
      <4>3. QED
        BY <1>1, <4>1, <4>2
    <3>2. CASE RowsOf(e) # {}
      <4>1. PICK i \in RowsOf(e) : TRUE
        BY <3>2
      <4>2. i \in RowsOf(e)' /\ deposits'[i] = deposits[i]
        BY <2>1, <4>1, CommitNewRows DEF RowsOf, OnceInv
      <4>3. QED
        BY <1>1, <2>4, <2>5, <2>6, <4>1, <4>2
    <3>3. QED
      BY <3>1, <3>2
  <2>7. ExtraRowsBounded'
    <3>1. ASSUME NEW e \in Event PROVE Cardinality(RowsOf(e)') <= 1 + lostAcks'
      <4>1. Cardinality(RowsOf(e)') <= 1 + lostAcks
        <5>1. CASE RowsOf(e)' = RowsOf(e)
          BY <1>1, <5>1
        <5>2. CASE RowsOf(e)' # RowsOf(e)
          BY <1>1, <2>6, <5>2
        <5>3. QED
          BY <5>1, <5>2
      <4>2. Cardinality(RowsOf(e)') \in Nat
        BY <1>1, <2>4
      <4>3. QED
        BY <1>1, <2>1, <4>1, <4>2
    <3>2. QED
      BY <3>1 DEF ExtraRowsBounded, RowsOf
  <2>8. ASSUME NEW i \in DOMAIN deposits', deposits'[i].height >= NextHeight'
        PROVE  Cardinality(RowsOf(deposits[i].event))' <= lostAcks'
    <3>1. PICK e : e = deposits'[i].event
      OBVIOUS
    <3>2. e \in Event /\ deposits'[i].height \in Heights
      <4>1. deposits'[i] \in Row
        BY <2>8 DEF SyncInv, TypeOK
      <4>2. QED
        BY <3>1, <4>1 DEF Row
    <3>3. i \in RowsOf(e)'
      BY <2>8, <3>1 DEF RowsOf
    <3>4. CASE RowsOf(e)' # RowsOf(e)
      <4>1. deposits'[i].height <= endHeight
        BY <2>4, <3>3, <3>4
      <4>2. lostAcks' = lostAcks + 1
        BY <2>1, <2>2, <2>3, <2>8, <3>2, <4>1
      <4>3. QED
        BY <2>6, <3>1, <3>4, <4>2
    <3>5. CASE RowsOf(e)' = RowsOf(e)
      <4>1. CASE lostAcks' = lostAcks + 1
        <5>1. Cardinality(RowsOf(e)) <= lostAcks + 1
          BY <1>1, <3>2
        <5>2. QED
          BY <3>1, <3>5, <4>1, <5>1
      <4>2. CASE lostAcks' = lostAcks /\ height' = endHeight + 1
        <5>1. i \in RowsOf(e) /\ deposits'[i] = deposits[i]
          BY <2>1, <3>3, <3>5, CommitNewRows DEF RowsOf, OnceInv
        <5>2. height <= deposits[i].height
          BY <2>2, <2>3, <2>8, <3>2, <4>2, <5>1
        <5>3. Cardinality(RowsOf(e)) <= lostAcks
          BY <2>5, <5>1, <5>2
        <5>4. QED
          BY <3>1, <3>5, <4>2, <5>3
      <4>3. QED
        BY <2>1, <4>1, <4>2
    <3>6. QED
      BY <3>4, <3>5
  <2>9. QED
    BY <2>7, <2>8 DEF ExtraInv
\* Every other step leaves the table alone, and reads no older block next.
<1>4. ASSUME UNCHANGED <<deposits, lostAcks>>,
             deposits # << >> => NextHeight' = NextHeight \/ (pc' = "down" /\ height <= dbHeight' + 1 /\ pc # "down")
      PROVE  ExtraInv'
  <2>1. ExtraRowsBounded'
    BY <1>4 DEF ExtraInv, ExtraRowsBounded
  <2>2. ASSUME NEW i \in DOMAIN deposits', deposits'[i].height >= NextHeight'
        PROVE  Cardinality(RowsOf(deposits[i].event))' <= lostAcks'
    <3>1. deposits[i].height >= NextHeight
      <4>1. deposits # << >> /\ deposits[i].height \in Heights /\ i \in DOMAIN deposits
        BY <1>2, <1>4, <2>2
      <4>2. height \in Nat /\ dbHeight' \in Int
        BY DEF SyncInv, TypeOK
      <4>3. CASE NextHeight' = NextHeight
        BY <1>4, <2>2, <4>3
      <4>4. CASE pc' = "down" /\ height <= dbHeight' + 1 /\ pc # "down"
        <5>1. PICK n \in Int : n = dbHeight'
          BY <4>2
        <5>2. NextHeight' = n + 1 /\ NextHeight = height /\ height <= n + 1
          BY <4>4, <5>1 DEF NextHeight
        <5>3. deposits[i].height \in Nat /\ deposits[i].height >= n + 1
          BY <1>4, <2>2, <4>1, <5>2
        <5>4. QED
          BY <4>2, <5>2, <5>3
      <4>5. QED
        BY <1>4, <4>1, <4>3, <4>4
    <3>2. Cardinality(RowsOf(deposits[i].event)) <= lostAcks
      BY <1>4, <2>2, <3>1 DEF ExtraInv
    <3>3. QED
      BY <1>4, <3>2 DEF RowsOf
  <2>3. QED
    BY <2>1, <2>2 DEF ExtraInv
<1>5. CASE Prefight
  <2>1. /\ UNCHANGED <<deposits, lostAcks>> /\ pc = "down" /\ pc' = "idle"
        /\ dbHeight # NoHeight => height' = dbHeight + 1
    BY <1>5 DEF Prefight, AfterSaved
  <2>2. dbHeight = NoHeight => deposits = << >>
    BY DEF OnceInv
  <2>3. QED
    BY <1>4, <2>1, <2>2 DEF NextHeight
<1>6. CASE Crash
  <2>1. UNCHANGED <<deposits, dbHeight, lostAcks>> /\ pc # "down" /\ pc' = "down"
    BY <1>6 DEF Crash, dbVars
  <2>2. height <= dbHeight + 1
    BY <2>1 DEF SyncInv, CursorInv
  <2>3. QED
    BY <1>4, <2>1, <2>2
<1>7. CASE /\ UNCHANGED <<deposits, dbHeight, lostAcks, height>>
           /\ pc = "down" <=> pc' = "down"
  BY <1>4, <1>7 DEF NextHeight
<1>8. QED
  BY <1>3, <1>5, <1>6, <1>7 DEF Next, Syncer, L1, MineBlock, Reorg, StartRun, BeginRange, More, EndRun,
     FilterERC20Deposits, FilterETHDeposits, RunFails, InRange, vars, dbVars

\* Each commit that lost its answer costs a deposit at most one more row, also if
\* a lagging node then moves the saved cursor back.
THEOREM SyncExtraRowsBounded ==
  ASSUME Finality
  PROVE  Spec => []ExtraRowsBounded
<1>1. Init => ExtraInv
  BY FS_EmptySet, SyncAssumption DEF Init, ExtraInv, ExtraRowsBounded
<1>2. SyncInv /\ SyncInv' /\ OnceInv /\ ExtraInv /\ [Next]_vars => ExtraInv'
  BY ExtraInvInductive
<1>3. ExtraInv => ExtraRowsBounded
  BY DEF ExtraInv
<1>4. QED
  BY <1>1, <1>2, <1>3, OnceInvAlways, PTL DEF Spec
=============================================================================
