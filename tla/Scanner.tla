------------------------------- MODULE Scanner -------------------------------
(***************************************************************************)
(* The scan loop of hxscanner: the goroutine main() starts, which resumes  *)
(* from the checkpoint in scan_configs, fetches block after block from     *)
(* hx_node and stores each block, its transactions, its operations, their  *)
(* receipts and the receipts' events in PostgreSQL, one autocommitted      *)
(* statement at a time.                                                    *)
(*                                                                         *)
(* An action is what happens between two places where the process can die  *)
(* or a call can fail.  logger.Fatal is os.Exit, so it is ProcessEnds, as  *)
(* are a panic and the SIGTERM of stop.sh.  The other error paths are a Go *)
(* "break", and which loop the break leaves decides what is lost:          *)
(*   - in the block part it leaves the scan loop: the goroutine returns    *)
(*     and the process stays up doing nothing;                             *)
(*   - in the transaction loop it abandons the rest of the block, and in   *)
(*     the operation loop the rest of the transaction, and the scan goes   *)
(*     on to the next block as if this one were complete.                  *)
(***************************************************************************)
EXTENDS Integers, Sequences

CONSTANTS
    Txids,          \* transaction ids
    Chain,          \* the node's blocks: Chain[b] is the sequence of txids of block b
    Ops,            \* Ops[x]: the kinds of x's operations, in order
    Receipts,       \* Receipts[x]: what get_contract_invoke_object returns for x
    MaxOps,         \* bound: operations (and receipts' op numbers) of a transaction
    MaxEvents,      \* bound: events of a receipt
    Interval,       \* a checkpoint is written every Interval blocks (100 in the code)
    ScanFromFlags,  \* values -scan_from may be given; -1 is the default
    MaxStarts,      \* bound: how many times the program is started
    Faults          \* which calls may fail, which signals may arrive

Heights == DOMAIN Chain
OpNums  == 1 .. MaxOps
OpKeys  == Txids \X OpNums
EventKeys == OpKeys \X (1 .. MaxEvents)

\* "contract": type 76..81; "unknown": a type past the end of OperationNames.
OpKinds == {"plain", "contract", "unknown"}

AllFaults == {"dial", "get_block", "get_contract_invoke_object",
              "db_block", "db_tx", "db_op", "rows_err", "other_scanner",
              "kill", "sigint"}

ASSUME ChainAssumption ==
    /\ Chain \in Seq(Seq(Txids))
    /\ MaxOps \in Nat /\ MaxEvents \in Nat
    /\ Ops \in [Txids -> Seq(OpKinds)]
    /\ \A x \in Txids : Len(Ops[x]) <= MaxOps
    /\ Receipts \in [Txids -> Seq([op_num : OpNums, events : 0 .. MaxEvents])]

ASSUME ParameterAssumption ==
    /\ Interval \in Nat \ {0}
    /\ ScanFromFlags \subseteq Nat \cup {-1}
    /\ MaxStarts \in Nat
    /\ Faults \subseteq AllFaults

VARIABLES
    head,           \* the node's highest block
    starts,         \* how many times the program has been started
    conn,           \* _ws: "none" (never dialled), "open", or "closed" and set to nil
    stopping,       \* ctx has been cancelled: SIGINT reached main
    flag,           \* this process's -scan_from
    pc,             \* where the scan goroutine is; "down" when there is no process
    end,            \* ScanBlocksFrom's end
    n,              \* scannedBlockNum
    t, o, r, e,     \* txIndex, opIndex, positions in OpReceipts and Events (from 1)
    got,            \* txReceipts # nil
    (***********************************************************************)
    (* The tables: how many rows each key has.  Only blocks has its key as *)
    (* PRIMARY KEY; the others have a serial id and would take duplicates. *)
    (***********************************************************************)
    blocks, blockId, transactions, opTables, operations,
    opReceipts, receiptEvents,
    applied,        \* the operations every plugin has been applied to
    checkpoints,    \* the values of the last_scanned_block_number rows of scan_configs
    (***********************************************************************)
    (* Observers, read by no action.                                       *)
    (***********************************************************************)
    waived,         \* the highest -scan_from so far: blocks the operator gave up
    lost            \* transactions a failed call made a loop abandon

procVars == <<starts, conn, stopping, flag>>
indexVars == <<t, o, r, e, got>>
scanVars == <<pc, end, n, indexVars>>
blockRows == <<blocks, blockId>>
receiptRows == <<opReceipts, receiptEvents>>
rowVars == <<blockRows, transactions, opTables, operations, receiptRows, applied>>
dbVars == <<rowVars, checkpoints>>
ghostVars == <<waived, lost>>
vars == <<head, procVars, scanVars, dbVars, ghostVars>>

Running == pc \notin {"down", "ended"}
Tx == Chain[n][t]               \* the transaction being stored
Key == <<Tx, o>>                \* (trxid, index_in_tx) of the operation being stored
Receipt == Receipts[Tx][r]

-----------------------------------------------------------------------------
(* Rows: every table is written as "find, and insert when not found".      *)

NoRows(Keys) == [k \in Keys |-> 0]

Insert(table, key) == [table EXCEPT ![key] = @ + 1]

MutFoundNever(table, key) == FALSE
Found(table, key) == table[key] > 0

\* Every find returns "not found, no error" when rows.Next() fails, since it
\* looks at rows.Err() only where it cannot be reached; and what it returned is
\* stale when another scanner has inserted the row before this one acts on it.
RowsMissed == "rows_err" \in Faults \/ "other_scanner" \in Faults

FindResults(table, key) ==
    {Found(table, key)} \cup (IF RowsMissed THEN {FALSE} ELSE {})

FindOrInsert(table, key) ==
    {IF found THEN table ELSE Insert(table, key) : found \in FindResults(table, key)}

\* A failing call may fail before or after the server committed the insert.
FailedInsert(table, key) == {table} \cup FindOrInsert(table, key)

(* scan_configs has no unique key either: a find that misses the row inserts *)
(* another, and a later find returns either of them.                       *)

GetLastScannedBlockNumber ==
    checkpoints \cup (IF checkpoints = {} \/ "rows_err" \in Faults THEN {0} ELSE {})

SaveConfig(v) ==
    IF checkpoints = {} \/ RowsMissed THEN {checkpoints \cup {v}} ELSE {}

\* An update whose find returned the value already writes nothing, also when
\* another scanner has changed it since; otherwise it changes every row.
UpdateLastScannedBlockNumber(v) ==
    SaveConfig(v) \cup {IF c = v THEN checkpoints ELSE {v} : c \in checkpoints}
                  \cup (IF "other_scanner" \in Faults THEN {checkpoints} ELSE {})

IsHxNodeConnected == conn = "open"

(* Calls to the node.  With the socket closed by the shutdown a call either *)
(* sees _ws = nil and returns nil without an error, or holds the old client *)
(* and fails; when Dial failed at start-up it always sees nil.             *)
NodeCallFails(call) == conn = "closed" \/ (IsHxNodeConnected /\ call \in Faults)

(* Calls to the database may fail at any time, and once main returns after  *)
(* SIGINT its deferred CloseDb makes them fail.                            *)
DbCallFails(call) == call \in Faults \/ stopping

CheckTransactionHasContractOp(x) == \E j \in DOMAIN Ops[x] : Ops[x][j] = "contract"

-----------------------------------------------------------------------------
(* The process.                                                            *)

Init ==
    /\ head = 0 /\ starts = 0
    /\ conn = "none" /\ stopping = FALSE /\ flag = -1
    /\ pc = "down" /\ end = FALSE /\ n = 0
    /\ t = 1 /\ o = 1 /\ r = 1 /\ e = 1 /\ got = FALSE
    /\ blocks = NoRows(Heights) /\ blockId = NoRows(Heights)
    /\ transactions = NoRows(Txids)
    /\ opTables = NoRows(OpKeys) /\ operations = NoRows(OpKeys)
    /\ opReceipts = NoRows(OpKeys) /\ receiptEvents = NoRows(EventKeys)
    /\ applied = {}
    /\ checkpoints = {}
    /\ waived = 0 /\ lost = {}

MutStartAtCheckpointPlus2(f, c) == IF f >= 0 THEN f + 1 ELSE c + 2
MutStartBeforeCheckpoint(f, c) == IF f >= 0 THEN f + 1 ELSE c - 1

\* The block ScanBlocksFrom is started at.
StartBlock(f, c) == (IF f >= 0 THEN f ELSE c) + 1

\* main: connect (the error of ConnectHxNode is dropped), open the database,
\* read the checkpoint and start the scan goroutine.
Start ==
    /\ pc = "down" /\ starts < MaxStarts
    /\ starts' = starts + 1
    /\ \/ conn' = "open"
       \/ "dial" \in Faults /\ conn' = "none"
    /\ stopping' = FALSE
    /\ flag' \in ScanFromFlags
    /\ \E c \in GetLastScannedBlockNumber : n' = StartBlock(flag', c)
    /\ waived' = IF flag' > waived THEN flag' ELSE waived
    /\ pc' = "loop" /\ end' = FALSE
    /\ UNCHANGED <<head, indexVars, dbVars, lost>>

\* SIGINT: main logs and cancels ctx.  Once ScanBlocksFrom has returned,
\* signal.Stop(stop) has run and SIGINT is an ordinary kill.
Interrupt ==
    /\ "sigint" \in Faults
    /\ Running /\ ~stopping
    /\ stopping' = TRUE
    /\ UNCHANGED <<head, starts, conn, flag, scanVars, dbVars, ghostVars>>

\* CloseHxNodeConn, run by the goroutine waiting for ctx.Done and by main's
\* deferred call, while the scan goroutine may still be anywhere.
CloseHxNodeConn ==
    /\ stopping /\ IsHxNodeConnected /\ pc # "down"
    /\ conn' = "closed"
    /\ UNCHANGED <<head, starts, stopping, flag, scanVars, dbVars, ghostVars>>

\* The process is gone: main returned or logger.Fatal ran after SIGINT;
\* logger.Fatal on a failed call; a panic; SIGTERM.
ProcessEnds ==
    /\ pc # "down"
    /\ stopping \/ "kill" \in Faults
    /\ pc' = "down" /\ end' = FALSE /\ n' = 0
    /\ t' = 1 /\ o' = 1 /\ r' = 1 /\ e' = 1 /\ got' = FALSE
    /\ conn' = "none" /\ stopping' = FALSE /\ flag' = -1
    /\ UNCHANGED <<head, starts, dbVars, ghostVars>>

\* The node appends a block to the chain.
NodeProducesBlock ==
    /\ head < Len(Chain)
    /\ head' = head + 1
    /\ UNCHANGED <<procVars, scanVars, dbVars, ghostVars>>

-----------------------------------------------------------------------------
(* The loop: fetch a block, or write the checkpoint at the head.           *)

MutLoopHeadForgetsCancel ==
    /\ pc = "loop"
    /\ pc' = IF end THEN "ended" ELSE "fetch"
    /\ UNCHANGED <<head, procVars, end, n, indexVars, dbVars, ghostVars>>
\* end is tested before ctx.Done, and the break of the select leaves only the
\* select: one more block is scanned after the cancellation is seen.
LoopHead ==
    /\ pc = "loop"
    /\ pc' = IF end THEN "ended" ELSE "fetch"
    /\ end' = (end \/ stopping)
    /\ UNCHANGED <<head, procVars, n, indexVars, dbVars, ghostVars>>

\* GetBlock: get_block and fetch_block_transactions.
GetBlock ==
    /\ pc = "fetch"
    /\ pc' = IF IsHxNodeConnected /\ n <= head THEN "block" ELSE "atHead"
    /\ UNCHANGED <<head, procVars, end, n, indexVars, dbVars, ghostVars>>

GetBlockFails ==
    /\ pc = "fetch"
    /\ NodeCallFails("get_block")
    /\ pc' = "ended"
    /\ UNCHANGED <<head, procVars, end, n, indexVars, dbVars, ghostVars>>

MutHeadCheckpointNotDecremented(b) == b
MutHeadCheckpointOffByOne(b) == IF b > 1 THEN b - 2 ELSE 0

\* What the scan records when there is no block b yet.
HeadCheckpoint(b) == b - 1

UpdateLastScannedAtHead ==
    /\ pc = "atHead"
    /\ checkpoints' \in UpdateLastScannedBlockNumber(HeadCheckpoint(n))
    /\ pc' = "loop"
    /\ UNCHANGED <<head, procVars, end, n, indexVars, rowVars, ghostVars>>

-----------------------------------------------------------------------------
(* The block row, and the block_id of the block before it.                 *)

SaveBlock ==
    /\ pc = "block"
    /\ blocks' = IF Found(blocks, n) THEN blocks ELSE Insert(blocks, n)
    /\ pc' = "previous"
    /\ UNCHANGED <<head, procVars, end, n, indexVars, blockId, transactions,
                   opTables, operations, receiptRows, applied, checkpoints, ghostVars>>

\* A block that is there and was not found violates the primary key.
SaveBlockFails ==
    /\ pc = "block"
    /\ \/ DbCallFails("db_block") /\ ~Found(blocks, n) /\ blocks' = Insert(blocks, n)
       \/ DbCallFails("db_block") /\ UNCHANGED blocks
       \/ Found(blocks, n) /\ FALSE \in FindResults(blocks, n) /\ UNCHANGED blocks
    /\ pc' = "ended"
    /\ UNCHANGED <<head, procVars, end, n, indexVars, blockId, transactions,
                   opTables, operations, receiptRows, applied, checkpoints, ghostVars>>

\* block.Previous names block b - 1; blockId[b] is 0 while block_id is "".
Previous(b) == b - 1

MutPreviousIdOnItself ==
    IF n > 1 /\ Found(blocks, n - 1) /\ blockId[n - 1] = 0
    THEN [blockId EXCEPT ![n] = Previous(n)]
    ELSE blockId
PreviousIdFilled ==
    IF n > 1 /\ Found(blocks, n - 1) /\ blockId[n - 1] = 0
    THEN [blockId EXCEPT ![n - 1] = Previous(n)]
    ELSE blockId

UpdatePreviousBlockHash ==
    /\ pc = "previous"
    /\ \/ blockId' = PreviousIdFilled
       \/ n > 1 /\ FALSE \in FindResults(blocks, n - 1) /\ UNCHANGED blockId
    /\ pc' = "tx" /\ t' = 1
    /\ UNCHANGED <<head, procVars, end, n, o, r, e, got, blocks, transactions,
                   opTables, operations, receiptRows, applied, checkpoints, ghostVars>>

UpdatePreviousBlockHashFails ==
    /\ pc = "previous" /\ n > 1
    /\ DbCallFails("db_block")
    /\ blockId' \in {blockId, PreviousIdFilled}
    /\ pc' = "ended"
    /\ UNCHANGED <<head, procVars, end, n, indexVars, blocks, transactions,
                   opTables, operations, receiptRows, applied, checkpoints, ghostVars>>

-----------------------------------------------------------------------------
(* The transaction loop.                                                   *)

\* A break in the transaction loop: the rest of the block is never looked at.
AbandonBlock ==
    /\ pc' = "mark"
    /\ lost' = lost \cup {Chain[n][i] : i \in t .. Len(Chain[n])}
    /\ UNCHANGED <<end, n, indexVars, waived>>

\* GetTxReceipts, for a transaction with a contract operation.  Without a
\* connection it returns nil and no error.
GetTxReceipts ==
    /\ pc = "tx" /\ t <= Len(Chain[n])
    /\ got' = (CheckTransactionHasContractOp(Tx) /\ IsHxNodeConnected)
    /\ lost' = IF CheckTransactionHasContractOp(Tx) /\ ~got' THEN lost \cup {Tx} ELSE lost
    /\ pc' = "txRow"
    /\ UNCHANGED <<head, procVars, end, n, t, o, r, e, dbVars, waived>>

GetTxReceiptsFails ==
    /\ pc = "tx" /\ t <= Len(Chain[n])
    /\ CheckTransactionHasContractOp(Tx)
    /\ NodeCallFails("get_contract_invoke_object")
    /\ AbandonBlock
    /\ UNCHANGED <<head, procVars, dbVars>>

SaveTransaction ==
    /\ pc = "txRow"
    /\ transactions' \in FindOrInsert(transactions, Tx)
    /\ pc' = "op" /\ o' = 1
    /\ UNCHANGED <<head, procVars, end, n, t, r, e, got, blockRows, opTables,
                   operations, receiptRows, applied, checkpoints, ghostVars>>

MutSaveTransactionFailsAndGoesOn ==
    /\ pc = "txRow"
    /\ DbCallFails("db_tx")
    /\ transactions' \in FailedInsert(transactions, Tx)
    /\ pc' = "op" /\ o' = 1
    /\ UNCHANGED <<head, procVars, end, n, t, r, e, got, blockRows, opTables,
                   operations, receiptRows, applied, checkpoints, ghostVars>>
SaveTransactionFails ==
    /\ pc = "txRow"
    /\ DbCallFails("db_tx")
    /\ transactions' \in FailedInsert(transactions, Tx)
    /\ AbandonBlock
    /\ UNCHANGED <<head, procVars, blockRows, opTables, operations, receiptRows,
                   applied, checkpoints>>

TransactionsDone ==
    /\ pc = "tx" /\ t > Len(Chain[n])
    /\ pc' = "mark"
    /\ UNCHANGED <<head, procVars, end, n, indexVars, dbVars, ghostVars>>

-----------------------------------------------------------------------------
(* The operation loop.                                                     *)

\* A break in the operation loop: on to the receipts of the transaction.
LeaveOpLoop ==
    /\ pc' = "receipts" /\ r' = 1
    /\ UNCHANGED <<end, n, t, o, e, got>>

\* GetOperationNameByOperationType fails on a type it does not know.
OpTypeUnknown ==
    /\ pc = "op" /\ o <= Len(Ops[Tx])
    /\ Ops[Tx][o] = "unknown"
    /\ LeaveOpLoop
    /\ UNCHANGED <<head, procVars, dbVars, ghostVars>>

\* The row in the operation type's own table, which is created when missing.
SaveOperation ==
    /\ pc = "op" /\ o <= Len(Ops[Tx])
    /\ Ops[Tx][o] # "unknown"
    /\ opTables' \in FindOrInsert(opTables, Key)
    /\ pc' = "base"
    /\ UNCHANGED <<head, procVars, end, n, indexVars, blockRows, transactions,
                   operations, receiptRows, applied, checkpoints, ghostVars>>

SaveBaseOperation ==
    /\ pc = "base"
    /\ operations' \in FindOrInsert(operations, Key)
    /\ pc' = "plugins"
    /\ UNCHANGED <<head, procVars, end, n, indexVars, blockRows, transactions,
                   opTables, receiptRows, applied, checkpoints, ghostVars>>

\* CheckTableExist or FindBaseOperation fails.
FindOperationFails ==
    /\ \/ pc = "op" /\ o <= Len(Ops[Tx]) /\ Ops[Tx][o] # "unknown"
       \/ pc = "base"
    /\ DbCallFails("db_op")
    /\ LeaveOpLoop
    /\ lost' = lost \cup {Tx}
    /\ UNCHANGED <<head, procVars, dbVars, waived>>

ApplyPluginsToOperation ==
    /\ pc = "plugins"
    /\ applied' = applied \cup {Key}
    /\ pc' = "op" /\ o' = o + 1
    /\ UNCHANGED <<head, procVars, end, n, t, r, e, got, blockRows, transactions,
                   opTables, operations, receiptRows, checkpoints, ghostVars>>

OpsDone ==
    /\ pc = "op" /\ o > Len(Ops[Tx])
    /\ LeaveOpLoop
    /\ UNCHANGED <<head, procVars, dbVars, ghostVars>>

-----------------------------------------------------------------------------
(* The receipts, each followed by its events, in separate statements.      *)

ReceiptKey == <<Tx, Receipt.op_num>>

FindContractOpReceipt ==
    /\ pc = "receipts" /\ got /\ r <= Len(Receipts[Tx])
    /\ TRUE \in FindResults(opReceipts, ReceiptKey)
    /\ r' = r + 1
    /\ UNCHANGED <<head, procVars, pc, end, n, t, o, e, got, dbVars, ghostVars>>

SaveContractOpReceipt ==
    /\ pc = "receipts" /\ got /\ r <= Len(Receipts[Tx])
    /\ FALSE \in FindResults(opReceipts, ReceiptKey)
    /\ opReceipts' = Insert(opReceipts, ReceiptKey)
    /\ pc' = "events" /\ e' = 1
    /\ UNCHANGED <<head, procVars, end, n, t, o, r, got, blockRows, transactions,
                   opTables, operations, receiptEvents, applied, checkpoints, ghostVars>>

MutSaveReceiptEventsFromLast ==
    /\ pc = "events" /\ e <= Receipt.events
    /\ receiptEvents' = Insert(receiptEvents, <<ReceiptKey, Receipt.events + 1 - e>>)
    /\ e' = e + 1
    /\ UNCHANGED <<head, procVars, pc, end, n, t, o, r, got, blockRows, transactions,
                   opTables, operations, opReceipts, applied, checkpoints, ghostVars>>
SaveReceiptEvent ==
    /\ pc = "events" /\ e <= Receipt.events
    /\ receiptEvents' = Insert(receiptEvents, <<ReceiptKey, e>>)
    /\ e' = e + 1
    /\ UNCHANGED <<head, procVars, pc, end, n, t, o, r, got, blockRows, transactions,
                   opTables, operations, opReceipts, applied, checkpoints, ghostVars>>

EventsDone ==
    /\ pc = "events" /\ e > Receipt.events
    /\ pc' = "receipts" /\ r' = r + 1
    /\ UNCHANGED <<head, procVars, end, n, t, o, e, got, dbVars, ghostVars>>

ReceiptsDone ==
    /\ pc = "receipts" /\ (got => r > Len(Receipts[Tx]))
    /\ pc' = "tx" /\ t' = t + 1
    /\ UNCHANGED <<head, procVars, end, n, o, r, e, got, dbVars, ghostVars>>

-----------------------------------------------------------------------------
(* The end of a block.                                                     *)

MutNextBlockSame(b) == b
MutNextBlockTwoOn(b) == b + 2
NextBlock(b) == b + 1

FinishBlock ==
    /\ pc = "mark"
    /\ IF n % Interval = 0
       THEN checkpoints' \in UpdateLastScannedBlockNumber(n)
       ELSE UNCHANGED checkpoints
    /\ n' = NextBlock(n)
    /\ pc' = "loop"
    /\ t' = 1 /\ o' = 1 /\ r' = 1 /\ e' = 1 /\ got' = FALSE
    /\ UNCHANGED <<head, procVars, end, rowVars, ghostVars>>

ScanStep ==
    \/ LoopHead \/ GetBlock \/ GetBlockFails \/ UpdateLastScannedAtHead
    \/ SaveBlock \/ SaveBlockFails
    \/ UpdatePreviousBlockHash \/ UpdatePreviousBlockHashFails
    \/ GetTxReceipts \/ GetTxReceiptsFails
    \/ SaveTransaction \/ SaveTransactionFails \/ TransactionsDone
    \/ OpTypeUnknown \/ SaveOperation \/ SaveBaseOperation \/ FindOperationFails
    \/ ApplyPluginsToOperation \/ OpsDone
    \/ FindContractOpReceipt \/ SaveContractOpReceipt \/ SaveReceiptEvent
    \/ EventsDone \/ ReceiptsDone \/ FinishBlock

Next ==
    \/ Start \/ Interrupt \/ CloseHxNodeConn \/ ProcessEnds \/ NodeProducesBlock
    \/ ScanStep

\* The Go scheduler keeps running a goroutine that can run; nothing else is
\* promised: no supervisor restarts the process, the node need not produce.
Spec == Init /\ [][Next]_vars /\ WF_vars(ScanStep)

-----------------------------------------------------------------------------
(* Properties.                                                             *)

PcValues == {"down", "loop", "fetch", "atHead", "block", "previous", "tx", "txRow",
             "op", "base", "plugins", "receipts", "events", "mark", "ended"}

ProcessTypeOK ==
    /\ head \in 0 .. Len(Chain) /\ starts \in 0 .. MaxStarts
    /\ conn \in {"none", "open", "closed"} /\ stopping \in BOOLEAN
    /\ flag \in Nat \cup {-1}
    /\ pc \in PcValues

ScanTypeOK ==
    /\ end \in BOOLEAN /\ got \in BOOLEAN
    /\ n \in Nat /\ t \in Nat /\ o \in Nat /\ r \in Nat /\ e \in Nat
    /\ checkpoints \subseteq Nat /\ waived \in Nat
    /\ lost \subseteq Txids

RowsTypeOK ==
    /\ blocks \in [Heights -> Nat] /\ blockId \in [Heights -> Nat]
    /\ transactions \in [Txids -> Nat]
    /\ opTables \in [OpKeys -> Nat] /\ operations \in [OpKeys -> Nat]
    /\ opReceipts \in [OpKeys -> Nat] /\ receiptEvents \in [EventKeys -> Nat]
    /\ applied \subseteq OpKeys

\* Every variable stays in its type; in particular the scan is never asked for
\* a negative block and never leaves the index range of a row it writes.
TypeOK == ProcessTypeOK /\ ScanTypeOK /\ RowsTypeOK

\* No key ever has two rows, however often blocks are scanned again after a
\* crash and whether or not a failing insert was committed: what the find
\* before each insert is for, since only blocks has a unique key.
NoDuplicateRows ==
    /\ \A b \in Heights : blocks[b] <= 1
    /\ \A x \in Txids : transactions[x] <= 1
    /\ \A k \in OpKeys : opTables[k] <= 1 /\ operations[k] <= 1 /\ opReceipts[k] <= 1
    /\ \A k \in EventKeys : receiptEvents[k] <= 1
    /\ \A c, d \in checkpoints : c = d

TxidsOf(b) == {Chain[b][i] : i \in DOMAIN Chain[b]}

\* At every instant, hence also after a crash between any two statements, a
\* row's parents are stored: the block of a transaction, the transaction of an
\* operation or a receipt, the operation's own table row before its row in
\* operations, that before any plugin, and the earlier events of a receipt.
NoOrphanRows ==
    /\ \A x \in Txids : transactions[x] > 0 =>
            \E b \in Heights : x \in TxidsOf(b) /\ blocks[b] > 0
    /\ \A k \in OpKeys :
            /\ opTables[k] > 0 => transactions[k[1]] > 0
            /\ operations[k] > 0 => opTables[k] > 0
            /\ k \in applied => operations[k] > 0
            /\ opReceipts[k] > 0 => transactions[k[1]] > 0
    /\ \A k \in OpKeys : \A i \in 1 .. MaxEvents : receiptEvents[<<k, i>>] > 0 =>
            /\ opReceipts[k] > 0
            /\ \A h \in 1 .. i : receiptEvents[<<k, h>>] > 0

\* The operations the loop reaches: those before the first unknown type.
Reached(x) == {j \in DOMAIN Ops[x] : \A i \in 1 .. j : Ops[x][i] # "unknown"}

OperationDone(x, j) ==
    /\ opTables[<<x, j>>] > 0
    /\ operations[<<x, j>>] > 0
    /\ <<x, j>> \in applied

ReceiptsStored(x) ==
    CheckTransactionHasContractOp(x) =>
        \A i \in DOMAIN Receipts[x] : opReceipts[<<x, Receipts[x][i].op_num>>] > 0

TransactionDone(x) ==
    /\ transactions[x] > 0
    /\ \A j \in Reached(x) : OperationDone(x, j)
    /\ ReceiptsStored(x)

BlockDone(b) ==
    /\ b \in Heights
    /\ blocks[b] > 0
    /\ \A i \in DOMAIN Chain[b] : Chain[b][i] \in lost \/ TransactionDone(Chain[b][i])

\* The blocks a checkpoint says are scanned, but for those the operator passed
\* over with -scan_from.
Recorded == UNION {waived + 1 .. c : c \in checkpoints}

\* The checkpoint never runs ahead of the rows: every block up to
\* last_scanned_block_number that the operator did not pass over with
\* -scan_from is stored with its transactions, operations (each handed to every
\* plugin) and receipts, but for transactions a failed call made a loop abandon.
\* Resuming from the checkpoint therefore loses nothing more, wherever the
\* process died.
CheckpointComplete == \A b \in Recorded : BlockDone(b)

\* Below the checkpoint the block_id of each block has been filled in from the
\* previous field of the next one, though the two blocks may have been scanned
\* by different processes.
PreviousIdsFilled == \A b \in Recorded : b + 1 \in Recorded => blockId[b] = b

\* The checkpoint goes back only in a process given -scan_from: neither a
\* restart nor a node that is behind or unreachable makes finished work undone.
CheckpointMonotone ==
    [][flag >= 0 \/ \A c \in checkpoints : \E d \in checkpoints' : d >= c]_checkpoints

\* What the tables say of the chain, taken together, develops as ScanLedger
\* promises: each block's rows become complete in chain order though they are
\* written statement by statement, by processes that die, scan again and find
\* half of them there, and a failed call never undoes or reorders that.
BlocksDone == {b \in Heights : BlockDone(b)}
Checkpoint == IF checkpoints = {} THEN 0 ELSE CHOOSE c \in checkpoints : TRUE

Ledger == INSTANCE ScanLedger WITH
    stored <- BlocksDone,
    checkpoint <- Checkpoint,
    flagged <- flag >= 0

LedgerImplemented == Ledger!Spec

\* A scanner that keeps running with a connection records every block the node
\* has: each of the nested loops ends and the checkpoint reaches the head.
CatchesUp ==
    \A b \in Heights :
        (Running /\ IsHxNodeConnected /\ head >= b)
            ~> ((\E c \in checkpoints : c >= b) \/ ~Running \/ ~IsHxNodeConnected)

\* After SIGINT the scan goroutine stops by itself, also when the process is
\* slow to exit: the break that leaves only the select costs one more block.
InterruptStopsScan == (Running /\ stopping) ~> ~Running

\* scanner.go:127 "find or save txs": every transaction of a recorded block is
\* found or saved.  Does not hold: a failed get_contract_invoke_object abandons
\* the transaction and all after it, and the checkpoint passes the block.
TransactionsSaved ==
    \A b \in Recorded : \A i \in DOMAIN Chain[b] : transactions[Chain[b][i]] > 0

\* daos.go:470 "save events to single table": the events of every stored
\* receipt of a recorded block are stored.  Does not hold: when the process
\* dies between the receipt and its events, the next scan finds the receipt.
EventsSaved ==
    \A b \in Recorded : \A i \in DOMAIN Chain[b] :
        LET x == Chain[b][i] IN
        \A j \in DOMAIN Receipts[x] : \A h \in 1 .. Receipts[x][j].events :
            opReceipts[<<x, Receipts[x][j].op_num>>] > 0 =>
                receiptEvents[<<<<x, Receipts[x][j].op_num>>, h>>] > 0
=============================================================================
