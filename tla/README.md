# A formal model of metis-bridge-rebate

The service gives a first-time user of the Metis bridge a little Metis (a
*drip*), so that the user can pay gas on L2.  It is one Go process beside a
MySQL database.  One goroutine, the *data syncer*, copies the deposit events of
the L1 bridge contract into the table `deposits`; another one, the *faucet*,
looks at each deposit once, refuses it or signs, saves and sends a transaction
that transfers the drip, and follows that transaction until it is mined.

The modules below describe the service in TLA+, TLC checks small instances of
them, and TLAPS proves the most important properties for every instance.  Names
of actions and variables are those of the code where TLA+ allows it.
`PROJECT.json` maps each definition to its lines.

## 1. Inventory

| Component | Code | State | Operations | Talks to |
|---|---|---|---|---|
| Data syncer | `internal/services/datasync.go`, `internal/repository/dbsync.go` | `DataSync.height`; in a run: target, range, logs | `Prefight`, `Run`/`tryToSync`/`syncWithRange`, `InitHeight`, `SaveSyncedData` | L1 node (block number, header, two event filters), tables `height` and `deposits` |
| Faucet | `internal/services/faucet.go`, `internal/repository/faucet.go` | `Faucet.nonce`; in a loop: open stream, `recset`, the drip being made | `Initial`, `SendDrips`, `CheckDrips`, `NewDrip`, `HasGotDrip`, `UpdateDripStatus` | tables `deposits` and `drips`, L2 node, L1 node (decimals), price service |
| Tables | `migrations/`, `internal/repository/datamodel.go` | `height` (one row), `deposits`, `drips` | queries by status with LIMIT, inserts, updates | both goroutines |
| Transactions | `SaveSyncedData`, `NewDrip` | an open transaction with its context | statements, commit, a deferred rollback | database |
| Row streams | `GetDepositTxStream`, `GetPendingDripsStream` | channel of 5, an open query | a producer goroutine per loop, the loop that ranges over it | database, faucet |
| Process | `main.go`, `Start` of both services | two contexts, three timers, the error group | start, signal, fatal error, exit | both goroutines |
| Drip decision | `services/policy`, `shouldTransfer`, `calMetisDrip`, `Faucet.Initial`, the flags of `main.go` | the policies, the default drip; in a loop: the list of bridge tokens, `recset`, what was found out so far | `Match`, the checks in their order, the amount | faucet, both chains, price service, token list |
| Token prices | `internal/utils/uniswap.go` | a cache with time stamps | `GetToken` | GraphQL client |
| GraphQL client | `internal/graphql` | none | `CallContext` | price service |
| Unit conversion | `internal/utils/ether.go` | none | `ToEther`, `ToWei` | drip decision |
| Event iterators | `internal/goabi/L1StandardBridge.go` (generated), go-ethereum's subscription | channel of logs, a goroutine per filter | two filters, `Next`, `Close` | L1 node, syncer |
| Token list, addresses | `internal/utils/bridge-token.go`, `address.go`, `chainId.go` | none | `GetBridgeTokens`, tables of addresses, the key file | drip decision |
| ERC20 binding; schema, image, deployment | `internal/goabi/ERC20.go`; `migrations/`, `Dockerfile`, `docker-compose.yml` | none | `decimals()`; none | |

The two goroutines share the table `deposits` and nothing else: the syncer
appends rows, the faucet reads rows and changes their status.  A deposit goes
from *unprocessed* to *ignored*, or to *processing* (its drip is saved) and then
to *done* (its transaction has a receipt).

**What is hard here.** The process may stop between any two steps, and what it
knows is spread over memory (cursor, nonce, receivers of a loop), the database
and two chains. Every remote call can fail, or succeed and report a failure: a
commit, and a transaction that was sent. L1 reorganises its last blocks and is
seen through nodes that lag. L2's pool forgets transactions, mines those of one
account in the order of their nonces only, and may revert them. The list
`hazards` of `PROJECT.json` names each such place with the properties that cover
it.

**What makes each part correct.**

- Syncer: no deposit behind the cursor is missed; no row is of a block that was
  replaced; nothing is recorded twice, and after a lost answer at most once
  more; the cursor does not move back; every final block is scanned at some time.
- Faucet: no address is paid twice; nothing is sent that is not saved; the two
  tables agree; done means mined, and paid unless the receiver refused; nonces
  have no gaps and no repetitions; every deposit is decided and every drip
  settled at some time.
- Process: a drip is given only for a canonical deposit that earns it, once; a
  deposit on L1 leads to a decision and a granted drip arrives.  A signal or a
  failure ends all of it in one more round at most; the exit code is 0 if and only
  if both services had started, and then only after a signal.  A signal that
  comes while one of them starts gives 1.
- Transactions: all of it or nothing, and nothing after an error; none stays open.
- Streams and iterators: no row or log is lost or handled out of order unless
  an error is reported; no goroutine is left behind, no connection lost.
- Decision: a drip is granted or refused for something that held while it was
  decided; neither a failed call nor the want of a policy refuses it; its wei
  are the flag's, or the gas of the deposit, or the limit, up to rounding, and a
  price for which there is no such amount is never granted.
- Prices: read no longer ago than the cache's duration and one call, and denied
  only if there was none.

## 2. Modules

| Module | Describes |
|---|---|
| `DepositTable` | the status of a deposit and the queries and updates by status; extended by all others |
| `BridgeSync` | the data syncer, over an L1 chain |
| `DepositLedger` | abstract specification: what the service promises |
| `Faucet` | the faucet, over an L2 pool and account; implements `DepositLedger` |
| `RebateService` | both over one table, with crashes of the whole process; implements `DepositLedger` |
| `OrderedRead` | abstract specification: item after item of one answer, and no end without an error before the last |
| `EventIterator` | the two filters of a range and the goroutines that feed them: what `BridgeSync` takes as two steps; implements `OrderedRead` |
| `RowStream` | the streams of rows and the loops over them: what `Faucet` takes as a set; implements `OrderedRead` |
| `AtomicWrite` | abstract specification: all or nothing, what the services expect of a write |
| `Transactions` | `SaveSyncedData` and `NewDrip` by statements; implements `AtomicWrite` |
| `Ether` | wei and floats of ether, the operators `ToEther` and `ToWei`; extended by `DripDecision` |
| `SendLoop` | abstract specification: what `Faucet` takes a loop of `SendDrips` for, seen by one receiver |
| `DripDecision` | the choice between `Faucet`'s `Decline` and `Approve`, call by call; implements `SendLoop` |
| `PriceCache` | `GetToken`, which the decision asks for prices, with time |
| `Lifecycle` | how `main` starts and ends: what `RebateService` takes as a crash |
| `BridgeSyncProofs`, `FaucetProofs`, `RebateServiceProofs`, `TransactionsProofs`, `LifecycleProofs`, `PriceCacheProofs`, `DripDecisionProofs` | theorems about the module of that name |
| `OrderedReadProofs` | theorems about the two modules that implement `OrderedRead` |
| `MC...` | instances for TLC |

The first five are the core.  The other modules each open up one step of it:
they share no variables with it, and their properties, or the abstract
specification they implement, are what makes the step a fair summary of the code.

### BridgeSync

`pc` is where the goroutine is: `down` (no process), `idle` (waiting for the
timer), `loop` (at the condition of `tryToSync`'s loop), and `erc20`, `eth`,
`save` (inside `syncWithRange`, before the first filter, the second filter, and
`SaveSyncedData`).  `height` is `DataSync.height`; `dbHeight` and `deposits` are
the tables.

| Action | Code |
|---|---|
| `Prefight` | `Prefight`, `InitHeight`: an empty `height` table gets the start block, otherwise the next block is the saved one plus 1 |
| `StartRun` | the timer, `Run`, `eth_blockNumber` and the subtraction of the confirmation number |
| `BeginRange`, `EndRun` | the condition and the head of the loop |
| `FilterERC20Deposits`, `FilterETHDeposits` | the two filters with their iterators |
| `SaveSyncedData` | the transaction and `height = endHeight + 1` |
| `SaveLosesAck` | the same transaction commits and its answer is lost |
| `RunFails` | every other failing call, or a timeout: nothing is saved |
| `Crash` | signal, fatal error, end of the machine |

The header call before the filters only matters when it fails (`RunFails`): the
hash it returns is stored and never read.  L1 is `MineBlock` and `Reorg`, which
replaces the contents of at most `MaxReorg` last blocks; an event is in at most
one block of the chain.  Each call is answered by a node that is at most
`MaxLag` blocks behind (`NodeHead`, `Logs`).

`Finality` is what an operator has to choose for a scanned block to be final:
neither reorganisations nor lag reach below the confirmation depth, and the
start block is above the confirmation number.  Without it the code keeps none of
these properties (section 6).

The start block is a special case: `InitHeight` stores it as synced and returns
it as the next to read.  `skipped` remembers that the process was started anew
while the table still had that row: then, and only then, may its deposits be
missing, and `NoMissedDeposit` excludes them.

### Faucet

`fpc`: `off`, `tick` (before `SendDrips`), `send` (reading the stream),
`persist` (a transaction is signed and not saved), `broadcast` (saved and not
sent), `wait` (before `CheckDrips`), `check` (reading the stream of pending
drips).  `todo` is what the open stream still holds, `recset` and `cur` are
local variables of `tryToSendDrip`.

| Action | Code |
|---|---|
| `Initial` | the nonce of the last block |
| `BeginSend`, `SkipSend` | `checkBalance`, `GetBridgeTokens`, the stream; one of them fails |
| `Decline` | `shouldTransfer` finds a reason, `NewDrip` with no drip |
| `Approve` | `shouldTransfer` finds none, `makeDripTx`, `recset` |
| `NewDrip`, `NewDripLosesAck` | the transaction of two statements; it commits and its answer is lost |
| `Broadcast`, `BroadcastFails` | `SendTransaction`; it fails, with or without effect |
| `EndSend`, `AbortSend` | end of the stream; any other error |
| `BeginCheck`, `SkipCheck`, `EndCheck` | balance and stream of `tryToCheckDrip` |
| `Settle`, `Resend`, `ResendFails` | receipt and `UpdateDripStatus`; no receipt and another `SendTransaction` |
| `MineTx`, `RevertTx`, `DropTx`, `TopUp` | the L2 chain, its pool, and the operator who funds the account |
| `NewDeposit` | what the syncer does to the table (replaced by the syncer itself in `RebateService`) |

`Contracts` are the receivers that may become contracts after
`shouldTransfer` has looked; a drip to one of them may be mined without effect
(`reverted`).  `CheckDrips` does not look at the status of a receipt, so that its
deposit is done all the same.  `DoneIsPaid` says how far this can go, and the
ledger has the outcome `lost` for it.

A drip costs one unit of `balance`, its fee included; an amount below one drip
cannot be told from none.  The reasons to refuse a drip that depend on earlier
drips (`recset`, the `drips` table, the receiver's balance and nonce on L2) are
guards of `Approve`; all others are the choice between `Approve` and `Decline`.
`Stuck` events are those whose evaluation always fails, say because the token
has no `decimals()`.

### RebateService

Instances of the two modules over one `deposits`.  Their crashes happen
together; each initialises itself.  A process without `-faucet` is a behaviour
in which `fpc` stays `off`.

### EventIterator

`Filter`, `FilterFails`: `eth_getLogs`, whose answer is then in memory.  `Send`,
`SubscriptionEnds`: the goroutine of the subscription, which puts the logs into
the iterator's channel and then closes `Err()`.  `Take`, `LearnEnd`,
`Exhausted`, `UnpackFails`: `Next`, whose `select` may see the end before the
last logs.  `Unsubscribe`, `Closed`: the deferred calls of `Close`.  What is in
go-ethereum and not under `src/` is marked external in the map.  `NoLogLost` is
`OrderedRead`'s specification under a refinement mapping: a filter's answer is
read log after log, and the range goes on to its end only after the last one.

### Transactions

`Execute`, `ExecuteFails`, `Commit`, `CommitLosesAck`, `CommitFails` are the
statements of one call, `ContextEnds` its timeout or its caller's `cancel`,
`RollBack` what the driver does then, `Disconnect` and `Crash` the database's
rollback.  `tables[w]` is this call's part of the tables.  The deferred function
of both calls is no action: the `err` it looks at is that of `BeginTx`, so it
never rolls back, and whether the model is still right about atomicity without it
is the question of the run.

### RowStream

`producer` is at the query, at `rows.Next`, at the `select` that offers a row,
or closing; `loop` is receiving or working on a row.  `Offer` and `OfferGivesUp`
are the `select`'s two cases: the second one goes on with the next row, since a
`return` is missing there.  `RowsEnd` is `rows.Next` returning false, also
because the connection broke, which `rows.Err` would tell and nobody asks.
`RowsInOrder` is `OrderedRead`'s specification again, here with readers that are
`Fooled`: an answer that breaks off may look like its end, and nothing else may.
The parts of the specification are named after the streams (`StreamInit`,
`RowProducer`, ...), so that one module can extend this one and `EventIterator`.

### DripDecision

`step` is the next thing to be found out.  `Initial` takes the policies and the
`-drip` flag, and refuses to start without a policy that matches everything;
`BeginLoop` downloads the list of bridge tokens.  `Check` and `GetPrice` are the
conditions of `shouldTransfer` in their order, `GasRebate` and `DefaultRebate`
are `calMetisDrip`, `Sign` is `makeDripTx`, `CallFails` the failure of whatever
call the step makes, and `NewDrip` and `EndLoop` go on to the next deposit or
loop.  `Change` lets receiver and prices change between two calls, and `seen`
remembers how they have been: a property can only say that something held *at
some time* while the deposit was decided.  A price of 0 makes the amount infinite
and the conversion panic.  A token has one name here, while the code looks for
its L2 address on the list and asks its L1 address for a price: the list pairs
the two.  The price of Ether in USD is a constant, and those of the tokens in
Ether change: their product is what the checks see.  `EndLoop` may find that a drip was saved although
`NewDrip` reported an error.

`ApprovesOnce` is `SendLoop`'s specification under the mapping `LoopPhase`: a
decision that has come to *grant* is `Faucet`'s `persist`, every step before it is
`send`, and whether the policy at hand gives one drip only (`FirstOnly`; `main`'s
does) says whether a saved drip stands against another one.  So the looks at
`recset` and at the `drips` table, which are up to seven calls apart from the
signature, amount to guards of the one step `Approve`.

Amounts are integers of wei and floats of ether as in `Ether`: every operation
rounds to `Precision` bits, the product of the two prices in `InUSD` among them,
and `ToWei` takes the whole ether as they are and adds the digits behind the
point (`Digits`), which are formatted to as many as a wei needs; a carry out of
them would be lost.  Prices, limits and what may be written behind `-drip` are
any fractions.  `OneToken` is what the tokens' `decimals()` say, as the size of
one token in its smallest unit. The assumption of `Ether`, that a float below 1
is more than half a wei away from 1, holds of 53 bits and 10^18 wei and is what
makes that correct.  Two more assumptions are there for the proofs, and TLC
evaluates them: `PowersAssumption` says that a power of 2 is twice the one before,
which a prover does not know; `ScopeAssumption` that the floats
have exponents (`MaxShift`) for the amounts, prices and limits that come up,
as 64-bit floats have for all amounts of wei that exist.

### PriceCache

The service keeps one figure for each hour of trade.  A price is the time at
which it was read.  `Hit`, `Query`, `Receive`, `NoTokenInfo` and `QueryFails`
are `GetToken` with the client's `CallContext`; `Read` is the service, which
replies with data or with a document of errors, `Trade` and `List` the exchange,
`Tick` the clock, `Restart` a new process with an empty cache.  `PriceIsFresh` is about the time at
which a price was read: the figure for Ether that the service then had is that of
the last hour, and can be as much older.

### Lifecycle

`base` says that `basectx` has ended and `failed` that a function of the error
group has; either ends `egctx`.  `sync` and `faucet` are where the goroutines are
in `Start`, with the state of their timers: *wait* while one runs, *due* when it
has fired (*pause* and *paused* for the five seconds between `SendDrips` and
`CheckDrips`).  A `select` with both its timer and its context ready may pick
either; `late` counts, for each kind of work, how often it began after the end
of `egctx`, and `started` has the services that have started, or have nothing to
do since the faucet is closed.

### Abstractions

Addresses, amounts, tokens, hashes and log messages are model values or absent.
In the core a database transaction is one step, which commits, fails, or commits
without an answer; a stream is the set of its rows, handled in order; the loop
over an iterator is one step; a verdict is a choice; and the process just stops.
The first four are checked refinements: `Transactions` implements `AtomicWrite`,
`RowStream` and `EventIterator` implement `OrderedRead`, `DripDecision` implements
`SendLoop`, and those three abstract specifications say what the core takes for
granted; that a verdict is also justified and its amount right is in the other
properties of `DripDecision`.  The last one is argued by the properties of both
sides (`Lifecycle`).  Rows of one status
come in id order, which InnoDB does for `idx_status` and for the primary key
alike.  In the core the timers are fairness: no property is about five or one
minutes.

## 3. Runs

| Run | Module, cfg | Asks |
|---|---|---|
| `sync` | `MCBridgeSync` | the safety of the syncer under failures, restarts, reorganisations, lag; does it catch up |
| `faucet` | `MCFaucet` | the safety of the faucet, and the ledger |
| `faucet_live` | `MCFaucetLive.cfg` | is every deposit decided, every drip settled |
| `service` | `MCRebateService` | both over one table |
| `service_live` | `MCRebateLive.cfg` | from the bridge to the drip |
| `transactions` | `MCTransactions` | are the two writes atomic although no function rolls back |
| `reads` | `MCOrderedRead` | are the syncer's loops ordered reads of the node's answers and the faucet's of their queries, and do they leave nothing behind |
| `decision` | `MCDripDecision` | is every verdict justified by what held meanwhile, and the amount as near as the floats allow; do the decisions of a loop approve a receiver once |
| `prices` | `MCPriceCache` | how old is a price, and is it denied only if there was none |
| `lifecycle` | `MCLifecycle` | does everything end, when, and with which exit code |
| `nonce_reuse` | `MCFaucet`, `MCNonceReuse.cfg` | can every saved drip be mined: no (section 6) |
| `decimal_drip` | `MCDripDecision`, `MCDecimalDrip.cfg` | are the wei of a flag what a test of the conversion expects: no (section 6) |

**Bounds.**  `sync`: a Metis deposit, which is one of the ERC20 deposits, and an
ETH deposit (each goes through its own filter), blocks 0 to 8, confirmation depth
2, reorganisations of 2 blocks, a lag of 1, ranges of 2 blocks, 2 lost answers.
From the start block 2 that leaves five blocks to scan, hence two full ranges and
a cut one, a restart at each cursor, the one before the first save among them,
and two repetitions of a range with different cuts.  `faucet`: four rows of three
deposits, hence one that is recorded twice, for two receivers, one of which may
become a contract; batches of 2, so that rows are left for the next loop; a
balance of 2 drips, which is the reserve, so that the faucet falls below the
reserve and below the minimum and is topped up.  `faucet_live` has batches of 1
and a stuck deposit, so that head-of-line blocking and a limited batch happen.
`service` has three deposits of two receivers, one of them a contract,
`service_live` one deposit; both have shorter chains (blocks up to 5 and 4),
whose detail the runs of the parts have already checked; a deposit is recorded
twice by one lost answer.

`reads`: the loops of both services, which share nothing, so that one of them reads
while the other has not begun. Up to 4 logs of each event with a channel of 2, so
that the goroutine waits for room and may still be waiting when `Close` comes; the
real channel has 128 places, which only makes that rarer.  3 rows and a channel of
1 instead of 5, hence a producer that is full, one row in its hand and one not
read.  `transactions`: ranges of 0, 1 and 2 deposits and both plans of `NewDrip`,
each writer once at a time; the table of a call is forgotten when the next call
of the same writer begins.

`decision`: lists with a campaign behind `main`'s policy, which is then chosen for
all that the campaign does not match, and with a campaign only (the faucet does
not start); five deposits of Ether, a stable
token and another one, inside the campaign's window and at its end, with gas
below and above the limit; two lists of bridge tokens; `-drip` left out, a quarter
of a wei, and 23/20, which is no float of 5 bits. The world changes twice while one deposit is decided, which
is enough to pass each check in a world of its own that fails the one before;
prices are 0, 5/8 and 21/16 of an Ether, which costs 6.5 USD, so that products and
quotients have to be rounded and a price is below 1; the limit is 9.5 USD. Floats
have 5 bits and an ether 100 wei: the smallest sizes that keep the assumption of
`Ether` and still tell a wrong digit from rounding; exponents up to 13 are those
of all numbers that come up. `decimal_drip` has 1000 wei to an ether, so that
the four amounts of the test are whole numbers of wei. `prices`: time runs to 7,
with a duration and an hour of 3 and calls of 1, so that an entry expires twice
and the hour changes. `lifecycle`: runs of up to 2 ranges; restarts are not
bounded.

Symmetry is not used: the deposits differ in kind or receiver, and symmetry is
unsound for the liveness runs.

**Fairness.**  The container is restarted unless stopped (`docker-compose.yml`),
both timers are reset after every run, and a remote call that is made again and
again succeeds at some time: hence strong fairness of the successful outcomes
and weak fairness of a goroutine's next step.  There is none for failures,
reorganisations, growth of the chain, lost transactions or top-ups, except that
in `Faucet` a loop that begins again and again also ends, however it ends.
`MineTx \/ RevertTx` is strongly fair: what comes back to the pool again and
again is mined, with or without effect.
`RebateService` assumes instead of the last but one point that the process is
killed finitely often, because each strong fairness condition multiplies the
graph that TLC has to search.

The other modules have weak fairness of each goroutine, since Go schedules what
can run and each call in it has a time limit: of the reader and each producer in
`EventIterator`, of the loop and each producer in `RowStream`, of a call, its
caller's `cancel` and the driver in `Transactions`, of the goroutines and
`eg.Wait` in `Lifecycle`.  No outcome is favoured there, so that the calls may
fail every time.  The two requests for a chain id use a context that never ends:
there is no fairness for them, and the liveness properties of `Lifecycle` say so.
`DripDecision` and `PriceCache` have safety properties only.

## 4. Proofs

`BridgeSyncProofs` proves, for all constants that satisfy `SyncAssumption`,
`TypeOK`; and under `Finality` also `NoMissedDeposit`, `RecordedIsCanonical`,
`NoDuplicateRow`, `ExtraRowsBounded` and `CursorNeverMovesBack`.  The inductive
invariant is `SyncInv`:

- `CursorInv` relates the cursor in memory to the saved one, and both to the
  confirmation depth of the chain;
- `RangeInv` says where target and end of a range are in each `pc`;
- `LogsInv` says that the logs read so far are exactly the canonical ones of the
  range, which is where finality is used: a block of the range has the
  confirmation depth on top of it, hence a node that answers has it, and no
  later reorganisation reaches it;
- `RowsInv` says that each row is canonical and at most as high as the cursor.

The start block counts as scanned once the cursor has passed it, unless the
process was started anew before (`skipped`).

`NoMissedDeposit` alone is not inductive: it says nothing of the logs that are
about to be saved.  `NoDuplicateRow` and the cursor's monotonicity need
`OnceInv` too: without lost answers the cursor in memory is one above the saved
one, except before the first save.  `ExtraRowsBounded` needs `ExtraInv`: a deposit
whose block will be read again has a row less than the lost answers allow, since
one of them is the reason why it will be.

`FaucetProofs` proves, for all constants that satisfy `FaucetAssumption`,
`TypeOK`, `TablesAgree`, `SavedBeforeSent`, `PaidAtMostOnce`, `DoneIsPaid`,
`NoncesInOrder`, and that `Spec` implements `Ledger!Spec` (`KeepsLedger`).  The
inductive invariant `FaucetInv` adds `LoopInv` (which rows an open stream
holds, and that they are still unprocessed or processing), `OneDripEach` (no two
drips of one receiver, which is what makes `PaidAtMostOnce` inductive),
`MinedInv` and `DoneIsMined` (what is on the chain was saved, and what is done is
on the chain, in force or reverted) and `NonceInv` (how the nonce in memory, the
chain's nonce and the saved nonces are related as long as none was reused).

`RebateServiceProofs` proves of the composition, under the assumptions of both
parts, `OneRebatePerDeposit` and `KeepsLedger`; and under `Finality` also
`RebatesAreEarned` and that the syncer misses no deposit in the table it now
shares with the faucet.  Nothing is proved twice: the module holds instances of
`BridgeSyncProofs` and `FaucetProofs`, each over the variables of the
composition, and shows that every step is one of the syncer, which to the faucet
only adds rows, or one of the faucet, which to the syncer only changes the status
of rows (`Step`, `SyncerAddsRows`, `FaucetKeepsSyncInv`).  The invariant
`ServiceInv` is the syncer's types, `FaucetInv`, and `RowsEarn`: a row that is
not ignored is not of Metis and not before the height from which drips are
given.  `RebatesAreEarned` needs that and `RowsInv` of the syncer.

`TransactionsProofs` proves for any number of rows that the statements of
`SaveSyncedData` and `NewDrip` implement `AtomicWrite` (`WritesAreAtomic`), hence
that the single steps `SaveSyncedData` and `NewDrip` of the core are what the
code amounts to.  `WriteInv` adds to the types that a running call has executed
exactly the statements before the next one (`Executed`), which makes the commit
write all of them, and that nothing of a call can be seen before it commits or
after it was told of an error (`NothingEarly`).

`LifecycleProofs` proves `TypeOK`, `OneMoreRound` and `ExitCodeIsRight` for
runs of any length.  `LateInv` says where a goroutine can be after it has begun
something late: nowhere from where it could begin the same again, since a timer
is reset after the work it starts and none fires after the end of the context.
`StartInv` relates the exit code to the start: without a failure a service that is
past its start has started, and after one there is a service that returned without
having started.

`PriceCacheProofs` proves `TypeOK`, `PriceIsFresh` and `NoInfoIsTrue` for any
tokens, durations and hour.  `CacheInv` bounds the age of a price when it was
stored by one call, `CallInv` bounds the time of a call, and `ThereInv` says that
a price that was there when a query began cannot be found missing by it: tokens
are not taken off the exchange, and the hour that is asked for is that of the
query and not of the answer.

`DripDecisionProofs` proves `TypeOK`, `GrantIsEarned`, `RefusalIsEarned`,
`DefaultIsRight`, `RebateIsRight` and `ApprovesOnce` for any policies, tokens, deposits, prices and flags, and any
number of changes of the world while a deposit is decided. In `DecisionInv`,
`ChecksInv` says of each `step` what the checks before it have established: that
some world seen so far met that demand of the policy (`Earned`), which stays true
since `seen` only grows; and between the price and the comparison of the amount,
that `rate` is the token's value in a world seen. A refusal needs that there is a
policy (`HasMatchAll`, which `Initial` insists on) and that the world asked is
among those seen; that a failed call refuses nothing is in the verdict it leads
to. `ChosenMatches` is the lemma about the loop over the policies, whose `Max` it
shows to be there. `ToWeiIsNearest` is about `utils.ToWei` alone: for every
fraction of ether that a float can be it gives the nearest whole wei,
although it cuts the formatted digits at the point and drops what a carry would
have added before it. `DefaultIsRight` compares the drip with the flag as it was
written and not with the float it is read as, whose rounding it counts
(`AskedIsNear`, `DefaultDripIsAsked`); `AmountInv` says that from the start of the
faucet to the signature the default drip is that of the flag.

`RebateIsRight` rests on a lemma for each operation.  `AtMost` compares two
fractions up to a number of roundings, each of which is worth one part in
2^`Precision`; it is added up along a chain and kept by products (`AtMostChain`,
`AtMostScaled`), and `IsClose` has it both ways, so that a quotient can be followed
as well.  `FloatIsClose` says that a float is one rounding away from the number
it stands for, since the `Exponents` in scope include one at which the number has
`Precision` bits (`NearestIsClose`, `PowersGrow`).  `WeiIsAbout` is the conversion to wei.  The gas in Metis takes two
roundings, the limit in Metis two with the rounded price in USD, and the comparison of
the two, made with rounded values, can be wrong by some more: `GasForLimit` and
`LimitForGas` say that whichever is taken stands for the other one then.
`FourWithinFive` adds four roundings up to less than five parts in 2^`Precision`,
and `RebateIsAbout` is the sum of it: five parts and one wei.  `RebateInv` carries the
price from `GasRebate` to the verdict, as that of a world seen, and the price of 0
to the panic.

`ApprovesOnce` needs beside `DecisionInv` only `LoopInv`: since a deposit was found
not to be in `recset` nothing was put there, and between two deposits there is
neither policy nor verdict.  `StepOfLoop` maps each step: the checks and calls
stutter, `Sign` is `Approve`, and an `EndLoop` that finds a drip saved is an
`EndSend` from `persist`.

`OrderedReadProofs` is about both loops over a bounded channel and holds for any
number of items and any capacity. Of the iterators it proves `TypeOK`,
`NoGoroutineLeft` and `NoLogLost`. In `ReadInv`, `Feeds` says that the channel
holds the last of the logs that were sent, in order, `Progress` that rows and
channel together are all that was sent, and `InOrder` that the rows are the ones
to expect; so an empty channel after the end of the subscription means that all
logs were taken. Only `Close` asks a goroutine to end, so that one that ends
while it is read has sent all its logs. Of the streams it proves `StreamTypeOK`
and `RowsInOrder`. In `StreamInv`, `Flow` says that the rows handled are the
first ones and that, as long as the context is live, the row at work, those in
the channel and the one in the producer's hand continue them without a gap
(`Whole`), or do so up to an error, which is then the last item (`Broken`). The
live context is the point: once it has ended the producer may skip a row, and
nothing more is handled. Each step of `EventIterator` or `RowStream` is then a
step of `OrderedRead` or a stutter (`ReadSteps`, `StreamSteps`).

Each proof has one step for each action of the next-state relation and under it
one for each part of the invariant the action can disturb.  The type invariants
of the syncer, the faucet, the transactions and the lifecycle are theorems and not
part of the runs; those of the other modules are both.

Model-checked only:

- That powers of two double (`PowersAssumption`), which is an induction over data.
- All liveness properties (`SyncCatchesUp`, `DepositDecided`, `DripSettled`,
  `DepositHandled`, `ReadEnds`, `ConnectionReturned`, `LoopReturns`,
  `TransactionEnds`, `ProcessEnds`), which are out of this prover's reach, as is
  `ENABLED`.

## 5. Plan

The order was: the syncer and the faucet with their proofs, the ledger and the
composition with its own; then each step of the core that hides a mechanism of
its own, the ones with goroutines first, and what they implement; then the
amounts and the requests to other services; and last the proofs about these
mechanisms.  All of that is built: every safety property and every refinement
that a run checks is a theorem, except where the run shows what the code does not
do.  What could still be added is a theorem that puts the refinements
together, `Faucet` over `Transactions`, `RowStream` and `DripDecision` in one module;
today each of them shares no variables with the core.

## 6. Where documents and code disagree

`nonce_reuse` checks `DripsCanBeMined` and finds it violated: a nonce can be used
by two drips, of which one is never mined, and its receiver is refused for ever.
There are two ways to it.  `NewDrip` commits and reports an error, so that the
nonce is not counted (`faucet.go:134-138`); this is the shortest trace.  Or the
process is started again with drips that are not mined, and takes the nonce of
the last block (`faucet.go:60`), which one of them has; a trace of this kind is
one step longer.

`decimal_drip` checks `DripIsAsTested` and finds it violated: `TestFromEther`
(`internal/utils/ether_test.go:40`) expects 10^17 wei of 0.1 ether, the code prints
the float with 18 digits, which gives 6 wei more.  A float of 53 bits with 18 digits
is beyond the integers of TLC; with 5 bits and 1000 wei to an ether the same flag
gives 102 wei instead of 100.  What does hold is `DefaultIsRight`: the wei are as near
to the flag as a float can be.

More places were noticed while the modules were written.  The models do what the
code does there, and no property asks for the other reading:

- `InitHeight` stores the start block as synced and returns it as the next to
  read; after a restart before the first save it is skipped (`dbsync.go:17-25`).
  `NoMissedDeposit` excludes the start block in this case only.
- A range has `RangeSync` + 1 blocks (`datasync.go:65`; "range sync at once",
  `main.go:52`).
- On a chain not longer than the confirmation number the last block itself is
  synced (`datasync.go:55-58`).  `Finality` excludes it.
- `SendDrips` asks for 0.5 Metis, not for `-reserved` (`faucet.go:360`).
- `CheckDrips` does not look at the status of a receipt (`faucet.go:307`): a drip
  that was reverted is done.

## 7. Not modelled

The ERC20 binding is generated, and of it only `decimals()` is called, whose
answer is a constant of `DripDecision` and whose failure is in `CallFails`.  The
schema, the image and the deployment do not run; what the schema says of keys and
statuses is in `DepositTable`.  Partly modelled are the bindings of the bridge
contract, of which the service uses two filters, and the tables of addresses and
chain ids with the reading of the key file, which are constants or failures at
start.  Logging is left out.  Two processes at once are not modelled either: the
nonce in memory and the cursor assume that there is only one, which
`docker-compose.yml` starts.  A reorganisation below the confirmation depth is in
`BridgeSync`, but no property speaks of what follows it: `Finality` excludes it, and
the code does nothing about it.  Negative amounts and prices, which no source of
them produces, are not inputs of `Ether`.
