# hxscanner: models, checks and proofs

hxscanner copies the blocks of an hx_node into PostgreSQL. A websocket client
asks the node for one block after another; the scan loop stores the block, its
transactions, operations, contract receipts and their events, and hands each
operation to five plugins that keep derived tables (balances, token contracts,
accounts). There are no database transactions: every statement commits by
itself, the only record of progress is one row of `scan_configs`, and a failed
call is answered with `logger.Fatal` (the process exits) or with a Go `break`
out of whichever loop encloses it. What can go wrong is therefore a matter of
where the process stops, which break is taken, and what the next process finds.

## Inventory

| part | source | state | operations | what makes it correct |
|---|---|---|---|---|
| process | `hxscanner.go` | ctx, `stop` channel, `-scan_from` | dial, open database, resume, wait for SIGINT, close | resumes where nothing is lost; stops when asked |
| scan loop | `src/scanner/scanner.go` | block number, nested indexes, `end` | `ScanBlocksFrom` | the checkpoint covers only stored blocks; every block is reached |
| row DAOs | `src/db/daos.go`, `sqls/init.sql` | tables | find, insert, update | one row per key; no row without its parents |
| node client | `src/nodeservice/node.go` | `_ws`, `_client` | `GetBlock`, `GetTxReceipts`, `ListAssets`, `GetAddressBalances`, `InvokeContractOffline`, ping, close | an answer is the node's, or an error |
| JSON-RPC codec | `wsjsonrpc/jsonrpc/client.go` | pending calls, ids | write request, read response | an answer reaches the call that asked |
| address balances | `src/plugins/asset_balance_update_util.go`, `asset_maybe_change_plugin.go`, `transfer_plugin.go`, `src/db/asset_daos.go` | `asset`, `address_balance` | `updateAddressBalance` | one current row per address and asset |
| token plugins | `src/plugins/token_contract_*.go`, `src/db/token_daos.go` | token tables | register, Inited, Transfer, withdraws | each token event recorded once, and as recent as the event |
| account plugin | `src/plugins/account_register_plugin.go` | `account` | find or insert | one row per owner |
| operation tables | `scanner.go`, `src/nodeservice/operations.go`, `daos.go` | `tbl_*`, schema cache | create table and index, match columns, insert | an operation's fields are stored |
| logging, config, views | `src/log`, `src/config`, `sqls/views.sql` | - | - | not modelled: I/O, plain structs, read-only SQL |

Three goroutines share `_ws` and the database handle: the scan, the one that
waits for `ctx.Done()` and closes the connection, and a ping loop; net/rpc's
input loop is a fourth on the connection. `main` itself waits for SIGINT and
then runs its deferred closes. The hard behaviours are the crash between two
autocommitted statements, the break that abandons part of a block while the loop
goes on, the shutdown that pulls the connection away from a scan in mid-block,
answers that are lost after the statement committed, errors the plugins assign
and forget, and balances read *now* for operations long past. `PROJECT.json`
lists each hazard at its line, with the properties that cover it or the reason
why none does.

## Modules

Scanner is the skeleton; each of the other modules takes one part of a block's
work, repeats as much of the loop around it as its state needs (the program
counter, the checkpoint, the restarts) and leaves out what does not touch its
tables. They share no variables, so a composition would only interleave them:
the two compositions that matter, two scanners on the same tables and the
goroutines on the same connection, are modules of their own.

| module | models | EXTENDS / INSTANCE |
|---|---|---|
| `Scanner` | `main`, `ScanBlocksFrom`, row DAOs | - |
| `ScanLedger` | what the scan promises of the database | instantiated by `Scanner` |
| `TwoScanners` | two processes on one database | extends `Scanner`, and instantiates it as `Other` |
| `AddressBalance` | `updateAddressBalance` and its callers | - |
| `TokenContracts` | token and account plugins | - |
| `OperationTables` | the dynamic tables and `tableSchemaCache` | - |
| `NodeClient` | `node.go` and the client codec, four goroutines | - |
| `ScannerProofs` | theorems about `Scanner` | extends `Scanner` |
| `LedgerProofs` | the refinement of `ScanLedger` | extends `ScannerProofs` |
| `RowProofs` | theorems about the rows Scanner stores | extends `ScannerProofs` |
| `TwoScannersProofs` | theorems about two scanners | extends `TwoScanners` and `RowProofs`, and instantiates `RowProofs` for the second process |
| `AddressBalanceProofs`, `TokenContractsProofs`, `OperationTablesProofs`, `NodeClientProofs` | theorems about the module of that name | extend it |
| `MC*` | small values of the constants | extend the module they are named for |

**Scanner.** The program counter `pc` names the place between two calls that may
fail or where the process may die, `n`, `t`, `o`, `r`, `e` are the block and the
positions in its transactions, operations, receipts and events. A table is the
number of rows each key has, since nothing but `blocks` has a unique key; a
find-then-insert is `FindOrInsert`, and `FailedInsert` is one whose answer was
lost, committed or not. `checkpoints` is the set of values in the
`last_scanned_block_number` rows. The constant `Faults` says what may fail:

| fault | effect |
|---|---|
| `dial` | `ConnectHxNode` fails and `main` drops the error: `_ws` stays nil |
| `get_block` | the goroutine ends and the process stays up (`ended`) |
| `get_contract_invoke_object` | break out of the transaction loop: `AbandonBlock` |
| `db_block` | block row or previous id: the goroutine ends |
| `db_tx` | transaction row: `AbandonBlock` |
| `db_op` | break out of the operation loop: `FindOperationFails` |
| `rows_err` | a find whose `rows.Next()` failed says "not found": `rows.Err()` sits after an if/else that returns in both branches |
| `other_scanner` | another process inserts between a find and what it decides, so a find may miss a row that is there by the time of the insert, and the checkpoint's row may be found and then be another's |
| `kill` | SIGTERM, panic, `logger.Fatal` on any call: `ProcessEnds` at any step |
| `sigint` | `cancel()`; then the connection is closed, database calls fail, and `ProcessEnds`, each at any later step |

Two observers are read by no action: `waived`, the highest `-scan_from` given
(those blocks the operator chose to skip), and `lost`, the transactions a failed
call made a loop abandon. Data is reduced to what the properties tell apart: an
operation is plain, contract or of unknown type; its JSON, its dynamic columns
and the plugins' own work are one step each. The sleeps and log lines are left
out. The model assumes that a transaction is in one block and that a receipt's
events carry the receipt's transaction and operation number, as the node reports
them.

**ScanLedger** is the abstract specification: a set of stored blocks that grows
in chain order and never shrinks, and a checkpoint all of whose predecessors are
stored, which only a process given `-scan_from` takes back. Scanner implements it
under `stored <- BlocksDone` (the blocks all of whose rows are there),
`checkpoint <- Checkpoint`, `flagged <- flag >= 0`: the many statements that
write a block's rows are stutters but the one that completes it. Its point is
what a state invariant cannot say: no failure, restart or repeated scan ever
undoes a block or completes one before its predecessors.

**TwoScanners** is Scanner beside an instance of Scanner that has its own
process variables and the same tables, node and observers.

**AddressBalance** is `updateAddressBalance` and the plugins that call it. An
operation yields a queue of (address, asset) keys, in the plugins' registration
order, and each key goes through balance query, asset lookup, `list_assets` when
unknown, and find-or-insert of the row. A balance is the number of operations
that changed it at the node, so "older" and "newer" can be said of two balances.
A contract fee, which changes a balance no property of the operation names, is
in the chain. `ListLimit` is the 100 of `list_assets(0, 100)`: an asset past it
stops every process. The conversion by `10^precision` is one-to-one and left
out.

The loop around the plugins has the breaks of Scanner: a failed block ends the
goroutine (`GetBlockFails`), failed receipts or a failed transaction row leave
the rest of the block (`AbandonBlock`), an operation without a name or with
failed rows the rest of its transaction (`AbandonTransaction`), and
`FinishBlock` moves the checkpoint past whatever they left out. The receipts'
call fails under the fault of its name and whenever SIGINT has closed the
connection between the check and the call; once SIGINT is in, any database call
may fail too (`DbCallFails`). The observer `unread` holds the keys whose
operation a break left out, whose deposits had no receipt, or whose balance was
read from a closed connection, until they are updated from an answer.

A table row is found, or it is missed: `rows_err` is the fault of the same name
in Scanner, and a find that breaks off is followed by `list_assets` (and a fatal
insert of an asset that is there: `SaveAssetAgain`, `asset_id` being a primary
key) or by a second balance row. `balances` therefore holds the sequence of rows
of each key, an update is of any one of them, and `MaxRows` bounds them.

**TokenContracts** is the create plugin, the event loop of the invoke plugin and
the account plugin. What the node keeps of a contract is a version per field
(how many events changed it), so that a row can be compared with the event it is
to reflect. Every table holds the sequence of rows of each key, since a find
that breaks off (`rows_err`) is followed by a second insert; `MaxRows` bounds
them. Broken off at the find of an event's token, it says "no token" with a nil
error, and the event is passed over: `TokenMissed`, which the observer `missed`
remembers. The named result `err` is the set of work whose failure it stands
for: an assignment that overwrites it moves that work into the observer
`hidden`, a `return` with it non-empty is fatal, and the `:=` of the Inited case,
whose err is another variable, hides it at once. `fits` says that an amount is
below the 10^18 a `decimal(36, 18)` holds. Deposits appear only because they
assign `err`; a receipt is the one at the operation's position, as in the code.
The breaks of the loop put the operations they leave out into the observer
`unseen`. A failed update of a token may have been committed (`InitedFails`).
`ChainAssumption` is what the node's chain gives the plugins to rely on: a
transaction's id is its own (the DAOs find history rows by txid and op_num), a
transaction without a contract operation has no receipts, and a token is
registered once, before any of its events (the contract's id is made by the
transaction that registers it).

**OperationTables** is the part of the operation loop that creates a type's
table from the first operation stored, its index, the per-process schema cache
and the insert of the properties that have a column. `Folded` are the types
whose unquoted table name is another table's (three of `OperationNames`).

In these three modules `Start` resumes at the checkpoint plus 1. Scanner's other
two ways to resume are not repeated in them: `-scan_from`, by which the operator
skips blocks (or scans them again), is at its default, and the read of the
checkpoint's row does not break off, which would start again at block 1. What
they say of blocks "below the checkpoint" is to be read with Scanner's `waived`
excepted.

**NodeClient** has the scan goroutine inside one call, net/rpc's input loop, the
ping goroutine and the one that closes the connection, all on one websocket.
`pending` is the codec's map, `seq` the next id. The node answers in order and
may be given a longer fork between two answers. Faults: `dial` (no connection),
`pong` (a message answers a ping: no id, result or error, which the codec reads
as id 0), `error`, `odd` (a result that does not unmarshal into the reply's
type), `garbled` (a message that is no JSON, or whose id is no number, for an
answer or in reply to a ping: `ReadResponseHeaderFails` ends the input loop with
the socket up and fails what is pending, as `InputEnds` does for a gone socket),
`silent` (no answer ever), `drop` (the node closes), `sigint`. `_ws`,
`_client` and the socket are closed and cleared in separate steps. A process has
no successor here: none of this state outlives it.

## Runs

| run | shows | bounds |
|---|---|---|
| `scan_faults` | rows unique and parented, checkpoint complete and monotone, previous ids filled, ScanLedger implemented, the checkpoint reaches every produced block, the goroutine returns after SIGINT; under every fault but `rows_err` and `other_scanner` | 3 blocks, 3 transactions, 2 processes, `-scan_from` -1 or 1, checkpoint every 2 blocks |
| `two_scanners` | with two scanners, broken-off finds, kills and failed calls: no orphan, complete checkpoint, neither passes over a block, though rows multiply | 2 blocks, 2 transactions, each scanner started once |
| `lost_transactions` | violated: a failed receipt query leaves transactions out for good | 1 process |
| `lost_events` | violated: a kill between receipt and events | 2 processes |
| `balances` | checkpointed balances current, stale ones have their operation ahead, none goes back; under breaks, kills, shutdowns and finds that break off | 4 blocks, 2 processes, `MaxRows` 2 |
| `balances_live` | while no find breaks off: one row per address and asset, and its asset there; every balance catches up while a scanner runs, or a break skipped it | 4 blocks, 2 processes |
| `balance_shutdown` | violated: a closed connection reads as balance 0 | 1 process |
| `tokens` | rows single and of known tokens; below the checkpoint registrations, initialisations, transfers and balances are recorded or their failure was hidden; an operation that ends with an error stops the scan; nothing goes back; under every fault but `rows_err` | 3 blocks, 5 transactions, 2 contracts, 2 users, 2 processes |
| `tokens_rows` | with finds that break off and kills: initialisations and transfers are recorded in one of the rows or passed over by a missed find, and a last error still stops the scan unless its event was | 3 blocks, 4 transactions, 2 processes, `MaxRows` 2 |
| `transfers_in_history` | violated: the second transfer of an operation has no row | no fault |
| `operation_tables` | operations stored or skipped, never passed over; cache and columns are the table's; a row lacks only what the table lacks | 3 blocks, 4 types, 3 processes |
| `node_client` | results belong to their calls, no call hangs on an answer nobody can bring, nil means past the head, ids are the block's, the client ends for one of four reasons only (closed, dropped, a result of another type, a message that does not decode), SIGINT ends a call | 2 blocks with 2 forks each, 4 calls, 1 ping |

The chain of the core runs has a block with a contract transaction (two
operations, one receipt, two events) before one whose operation has no name, an
empty block, and a block with a plain transaction. Two
of everything nested is enough for each break to skip something and for each
loop to be left in the middle; two processes give every crash point a successor
that finds what is there; a checkpoint every second block puts one write in the
middle of the chain (the code's 100 differs only in how much is scanned again).
The balances' chain has a deposit of a contract and a transfer in one block, an
operation without a name, and an asset `list_assets` leaves out. Two rows of a
key are enough for an update to be of either and for one to be left behind; what
holds only without broken-off finds has runs without them.
The tokens' chain has each event at a place where what follows it matters: an
initialisation before two transfers of one operation, a transfer back in the
next block (so that a restart re-applies the first block against a node that has
moved on), an error as the last event, and the same error before deposits, which
`tokens_rows` leaves out for the registration behind it that no scan passes. The
operation tables' chain has for one type an operation with a property the first
lacked and without one it had. Four calls are a whole block, a typed call and
the next block's first call; one ping is enough for a message without a call
before, between and after answers. Deadlock checking is off because a run ends:
the starts, calls and blocks are bounded, and a dead or `ended` process is a
state the program really rests in. `MaxStarts`, `MaxOps`, `MaxEvents`,
`MaxCalls`, `MaxPings`, `MaxRows` and the length of the chain are the only bounds.

**Fairness.** In Scanner and AddressBalance only `WF_vars(ScanStep)`: the Go
scheduler goes on running a goroutine that can run, and each call returns or
fails. Nothing restarts the process, the node need not produce blocks, main need
not exit after SIGINT. `CatchesUp` and `BalancesCatchUp` therefore claim progress
only while the scan runs with a connection, and `InterruptStopsScan` follows from
the loop alone. NodeClient adds `WF_vars(InputStep)` and `WF_vars(CloseStep)`,
one goroutine each; the node is not fair (it may never answer), so
`InterruptEndsCall` rests on closing the socket alone, and a waiting scan step is
not enabled. The other modules state safety only.

**What the violated runs mean.** Each quotes a comment of the code. They also
delimit the positive properties: `CheckpointComplete` excludes exactly the
transactions in `lost`, and says of a receipt only that its row is there;
`TransfersRecorded` asks for one history row per operation, not one per
transfer, and excuses what is in `hidden`; the properties of the balances excuse
`unread`, which is what a break costs in the derived tables and the only way a
balance goes back (a read that a shutdown emptied).

**What the observers excuse.** `waived` excuses
the blocks up to `-scan_from k`, k itself included although hxscanner.go:36 calls
it the block to scan from. `lost`, `unseen` and `unread` are the same
weakness of the loop seen from three tables: a break leaves operations out and
the checkpoint passes them. `missed` is that of the finds: `rows.Err()` behind
an if/else that returns in both branches. They are exact in one direction only:
what is not in them is right; what is in them may be right by a later scan.
`IdsAreTheBlocks` in the same way excuses the fork switch between the two calls
of `GetBlock`, and says that nothing else mispairs ids.

## Proofs

Every invariant and every action property of the passing runs is also a theorem,
for every chain, every bound and every set of faults the assumptions named in
the modules allow, and so is the refinement of `ScanLedger`. Each proof is the
same in outline: an inductive invariant, checked with TLC on the bounded instance
of the module's run before it was proved; lemmas that say which actions write a
variable at all; one lemma per conjunct that a step keeps it, by cases on the
actions; and the theorem, which reads the property off the invariant.

**ScannerProofs** (assuming `ChainAssumption` and `ParameterAssumption`):

* `TypeCorrect`. `TypeOK` is not inductive: that a row is written under a key of
  its table needs the loop indexes to be in range where the program counter says
  they are. `TypeInv` adds that (`IndexesInRange`).
* `CheckpointIsComplete`, with every fault allowed. `CheckpointComplete` looks
  only below the checkpoint. `ScanInv` adds what the scan has done so far: blocks
  below `n` are done; transactions of block `n` below `t` are done or in `lost`;
  operations of the transaction below `o` are done and those of the current one
  as far as `pc` says; receipts below `r` are stored. The argument has two
  halves: no step takes a row away (`RowsKeptStep`, hence `DoneKept`), and each
  loop index moves past an element only when it is done or marked lost (the four
  `...ScannedStep` lemmas). The checkpoint takes only the values `n - 1` at the
  head and `n` after a block, both covered. At a start the checkpoint itself is
  the witness that the blocks below the new `n` are done, and a larger
  `-scan_from` raises `waived` with it.
* `CheckpointIsMonotone`, when neither `rows_err` nor `other_scanner` is among
  the faults. (With them the resume query may miss the checkpoint's row, the scan
  starts at block 1 and the checkpoint does go back.) The invariant is
  `CheckpointBehind`: there is one checkpoint, and a process without
  `-scan_from` is past it.

**LedgerProofs**: `ScannerImplementsLedger`, while no find misses a row
(`~RowsMissed`: neither of those two faults) and a transaction is in one block
only (`TransactionsInOneBlock`; a repeated transaction would complete two blocks
at once). The invariant is what the theorems above rest on, and `WithinHead`: the
scan is inside of blocks the node has. That a step completes no block but `n` is
`OthersUntouched` (the rows it writes belong to a transaction of block `n`) and
`OtherBlocksKept`; that the blocks before `n` are already complete is
`BlocksScanned`; that none is undone is `RowsKeptStep`; and a write of the
checkpoint is a `Record` by `CheckpointScanned` and `CheckpointNeverBack`.

**RowProofs**:

* `NoRowsAreOrphans`, with every fault. A step gives no key but the scan's own a
  row (`NewRowsStep`), and where the scan writes a row its parents are there:
  `ScanInv` has that for transactions, operations and receipts; `EventsBefore`
  adds that a receipt's events below `e` are stored.
* `NoRowsAreDuplicates`, assuming `~RowsMissed` (a find that misses a row is
  followed by a second insert). Find-or-insert keeps rows single by itself. The events do
  not: they are inserted without a find, only because the receipt was not there,
  so the invariant needs `EventsAhead`: the events from `e` on are not stored.
* `PreviousIdsAreFilled`, assuming `~RowsMissed`. `IdsFilled` says which ids are
  there at each place of the scan: the last block's may still be missing, and
  is filled in before the next block's transactions are reached, also by a
  process that restarts between the two.

**TwoScannersProofs**: `CheckpointIsCompleteForBoth`, `NoRowsAreOrphansForBoth`,
`NothingIsSkippedByEither`. No step of either process is looked at again: the
first's facts are `RowProofs`, the second's its instance under the second's
variables. The one new lemma is rely-guarantee, `RowInvUnderSharing`: `RowInv`
of one process survives any step that leaves its own variables alone, takes no
row back (`SharedKept`, what every step of the other guarantees) and keeps
`SharedInv`, the part of the invariant about the tables.

**NodeClientProofs**: `ClientTypeCorrect`, `AnswersAreOfTheirCalls`,
`WaitingCallsArePending`, `NilBlocksArePastHead`, `IdsAreOfTheirBlock`,
`ShutdownsHaveReasons`. `AnswersItsCall` speaks of the answer handed over;
`ClientInv` follows it back along the wires. `WireInv`: every request and answer
on the wire but a ping's has an id below `seq`, and one whose id is pending
belongs to the call being made, so that a late answer can do no harm. `CallInv`:
at most the last id is pending, and only while the client runs. `BlockInv`: what
`GetBlock` holds between its two calls, with a fork no later than the node's,
which is what ties the ids to the block.

**OperationTablesProofs**: `TablesTypeCorrect`, `OperationsAreStored`,
`CacheIsCorrect`, `RowsAreOfTheirTable`, `ColumnsAreOfOneOperation`. The cache is
right because no entry is made before its table is there and no step changes an
existing table's columns (`SchemaInv`); rows outlive the process, so `RowsInv`
says of every row, not of the last insert, that its table exists; `StoredInv` is
the loop's frontier, as in `ScanInv`.

**AddressBalanceProofs**: `BalancesTypeCorrect`, `RowsAreSingleWithAsset`,
`CheckpointedAreCurrent`, `StaleArePending`, `BalancesOnlyMoveOn`. Only
`RowsAreSingleWithAsset` assumes that no find breaks off (`~RowsMissed`); the
others hold of whichever rows there are. `BalanceInv`
explains why reading *now* is sound: what is stored, and what was read and not
yet stored, is never ahead of the node, and what was read is never behind the
row it will replace. That rests on `VersionFacts`, that the node's count of
changes only grows with the block, which is proved from finite cardinalities.
`AppliedInv` is the frontier, with the keys still queued and those in `unread`
excepted, so that a break keeps it by what it adds to `unread`; `TrackedInv`
adds the keys that no operation of a block touched, whose version the block left
alone, and with it a stale balance must have its operation ahead or be in
`unread`.

**TokenContractsProofs** (assuming its `ChainAssumption` too):
`TokensTypeCorrect`, `RowsAreSingleOfKnownTokens`, `RegistrationsAreRecorded`,
`InitialisationsAreRecorded`, `TransfersAreRecorded`, `LastErrorsStopTheScan`,
`NothingRecordedGoesBack`. Only `RowsAreSingleOfKnownTokens` assumes that no
find breaks off (`~RowsMissed`). The difficulty is `err`: work that failed is excused
only while its failure is known, and one assignment moves it from `err` to
`hidden`. `EventInv` says of an event behind the scan that what it asks for is
done, in `hidden` or in `missed`, and of the events before `ev` of the operation at hand done,
in `hidden` or in `err`. A step keeps this since work leaves those sets only by
being done or with the process (`FailedStep`), what is done stays done and
recent (`GoodKept`, which needs `VersionInv`: nothing stored is ahead of the
node), and the scan passes an operation only with `err` empty (`DoneStep`). A
token that gets its row has no event behind the scan (`NewTokenFacts`, from
`ChainAssumption`), so events skipped because their token was unknown stay
skipped rightly; operations whose receipts a failed query withheld are `unseen`
and excused (`SeenHere`). `LastErrorInv` holds the failed last event's error in
`err` until the plugin returns, which is why no checkpoint passes it.

Only model-checked: the liveness properties `CatchesUp`, `InterruptStopsScan`,
`BalancesCatchUp` and `InterruptEndsCall` (fairness and ENABLED are outside the
prover's reach), and the four properties that are violated, whose
counterexamples are TLC's.

## Not modelled, and the plan

Next, in order: abstract specifications for the plugins' tables in the manner of
`ScanLedger` (balances and token rows that move only forward behind a
checkpoint), with their refinements proved from `AddressInv` and `TokenInv`; the
refinement of a one-call client by `NodeClient`; and whether
`PreviousIdsFilled` holds for two scanners.

Left out:

* what a fork does to rows already stored (`scanner.go:82` keeps the first block
  row and adds the new transactions): it needs two versions of every block in
  the database, and the code has no word on which is right. NodeClient has the
  fork up to the block that `GetBlock` returns;
* the JSON-RPC server and its tests: the scanner runs no server;
* `FindHxTransactionByTxid`, which nothing in the scan calls;
* column types and values, JSON formatting, decimal conversion, sleeps, logging,
  configuration, and the reporting views;
* the unsynchronised reads of `_ws` by the ping goroutine: a data race whose
  worst outcome, a nil dereference, is the `kill` of Scanner and the
  `ProcessEnds` of NodeClient.
