---------------------------- MODULE LedgerProofs ----------------------------
(***************************************************************************)
(* The proof that Scanner implements ScanLedger.  The statements that      *)
(* write a block's rows are stutters of the ledger but the one that        *)
(* completes the block; what has to be shown is that it completes no       *)
(* other block, and none before its predecessors.                          *)
(***************************************************************************)
EXTENDS ScannerProofs

\* A node reports a transaction in one block only: every model of the scan
\* takes that for granted.
TransactionsInOneBlock ==
    \A b, c \in Heights : \A i \in DOMAIN Chain[b], j \in DOMAIN Chain[c] :
        Chain[b][i] = Chain[c][j] => b = c

-----------------------------------------------------------------------------
(* Which actions lose a transaction, move the head, or enter a block.       *)

Losing == GetTxReceipts \/ GetTxReceiptsFails \/ SaveTransactionFails \/ FindOperationFails

StepKind ==
    /\ Losing \/ lost' = lost
    /\ NodeProducesBlock \/ head' = head
    /\ pc' \in BlockPcs => GetBlock \/ pc \in BlockPcs

\* Every step is of the kind its action says.
LEMMA StepKinds == [Next]_vars => StepKind
<1> SUFFICES ASSUME [Next]_vars PROVE StepKind
  OBVIOUS
<1> USE DEF StepKind
<1>1. CASE Start
  BY <1>1 DEF Start, Losing, BlockPcs, scanVars, ghostVars
<1>2. CASE Interrupt
  BY <1>2 DEF Interrupt, Losing, BlockPcs, scanVars, ghostVars
<1>3. CASE CloseHxNodeConn
  BY <1>3 DEF CloseHxNodeConn, Losing, BlockPcs, scanVars, ghostVars
<1>4. CASE ProcessEnds
  BY <1>4 DEF ProcessEnds, Losing, BlockPcs, scanVars, ghostVars
<1>5. CASE NodeProducesBlock
  BY <1>5 DEF NodeProducesBlock, Losing, BlockPcs, scanVars, ghostVars
<1>6. CASE LoopHead
  BY <1>6 DEF LoopHead, Losing, BlockPcs, scanVars, ghostVars
<1>7. CASE GetBlock
  BY <1>7 DEF GetBlock, Losing, BlockPcs, scanVars, ghostVars
<1>8. CASE GetBlockFails
  BY <1>8 DEF GetBlockFails, Losing, BlockPcs, scanVars, ghostVars
<1>9. CASE UpdateLastScannedAtHead
  BY <1>9 DEF UpdateLastScannedAtHead, Losing, BlockPcs, scanVars, ghostVars
<1>10. CASE SaveBlock
  BY <1>10 DEF SaveBlock, Losing, BlockPcs, scanVars, ghostVars
<1>11. CASE SaveBlockFails
  BY <1>11 DEF SaveBlockFails, Losing, BlockPcs, scanVars, ghostVars
<1>12. CASE UpdatePreviousBlockHash
  BY <1>12 DEF UpdatePreviousBlockHash, Losing, BlockPcs, scanVars, ghostVars
<1>13. CASE UpdatePreviousBlockHashFails
  BY <1>13 DEF UpdatePreviousBlockHashFails, Losing, BlockPcs, scanVars, ghostVars
<1>14. CASE GetTxReceipts
  BY <1>14 DEF GetTxReceipts, Losing, BlockPcs, scanVars, ghostVars
<1>15. CASE GetTxReceiptsFails
  BY <1>15 DEF GetTxReceiptsFails, AbandonBlock, Losing, BlockPcs, scanVars, ghostVars
<1>16. CASE SaveTransaction
  BY <1>16 DEF SaveTransaction, Losing, BlockPcs, scanVars, ghostVars
<1>17. CASE SaveTransactionFails
  BY <1>17 DEF SaveTransactionFails, AbandonBlock, Losing, BlockPcs, scanVars, ghostVars
<1>18. CASE TransactionsDone
  BY <1>18 DEF TransactionsDone, Losing, BlockPcs, scanVars, ghostVars
<1>19. CASE OpTypeUnknown
  BY <1>19 DEF OpTypeUnknown, LeaveOpLoop, Losing, BlockPcs, scanVars, ghostVars
<1>20. CASE SaveOperation
  BY <1>20 DEF SaveOperation, Losing, BlockPcs, scanVars, ghostVars
<1>21. CASE SaveBaseOperation
  BY <1>21 DEF SaveBaseOperation, Losing, BlockPcs, scanVars, ghostVars
<1>22. CASE FindOperationFails
  BY <1>22 DEF FindOperationFails, LeaveOpLoop, Losing, BlockPcs, scanVars, ghostVars
<1>23. CASE ApplyPluginsToOperation
  BY <1>23 DEF ApplyPluginsToOperation, Losing, BlockPcs, scanVars, ghostVars
<1>24. CASE OpsDone
  BY <1>24 DEF OpsDone, LeaveOpLoop, Losing, BlockPcs, scanVars, ghostVars
<1>25. CASE FindContractOpReceipt
  BY <1>25 DEF FindContractOpReceipt, Losing, BlockPcs, scanVars, ghostVars
<1>26. CASE SaveContractOpReceipt
  BY <1>26 DEF SaveContractOpReceipt, Losing, BlockPcs, scanVars, ghostVars
<1>27. CASE SaveReceiptEvent
  BY <1>27 DEF SaveReceiptEvent, Losing, BlockPcs, scanVars, ghostVars
<1>28. CASE EventsDone
  BY <1>28 DEF EventsDone, Losing, BlockPcs, scanVars, ghostVars
<1>29. CASE ReceiptsDone
  BY <1>29 DEF ReceiptsDone, Losing, BlockPcs, scanVars, ghostVars
<1>30. CASE FinishBlock
  BY <1>30 DEF FinishBlock, Losing, BlockPcs, scanVars, ghostVars
<1>31. CASE UNCHANGED vars
  BY <1>31 DEF vars, scanVars, ghostVars
<1> QED
  BY <1>1, <1>2, <1>3, <1>4, <1>5, <1>6, <1>7, <1>8, <1>9, <1>10, <1>11,
     <1>12, <1>13, <1>14, <1>15, <1>16, <1>17, <1>18, <1>19, <1>20, <1>21,
     <1>22, <1>23, <1>24, <1>25, <1>26, <1>27, <1>28, <1>29, <1>30, <1>31
     DEF Next, ScanStep

-----------------------------------------------------------------------------
(* What a step leaves alone: every transaction outside the block the scan   *)
(* is inside of, and every block but that one.                              *)

\* No row of x, nor whether x is lost, changes.
Untouched(x) ==
    /\ transactions'[x] = transactions[x]
    /\ \A j \in OpNums :
          /\ opTables'[<<x, j>>] = opTables[<<x, j>>]
          /\ operations'[<<x, j>>] = operations[<<x, j>>]
          /\ <<x, j>> \in applied' <=> <<x, j>> \in applied
          /\ opReceipts'[<<x, j>>] = opReceipts[<<x, j>>]
    /\ x \in lost' <=> x \in lost

\* An insert, or find-or-insert, changes the row of its own key only.
LEMMA InsertElsewhere ==
    ASSUME NEW Keys, NEW table \in [Keys -> Nat], NEW key, NEW k \in Keys, k # key
    PROVE  /\ Insert(table, key)[k] = table[k]
           /\ \A new \in FindOrInsert(table, key) : new[k] = table[k]
           /\ \A new \in FailedInsert(table, key) : new[k] = table[k]
<1>1. Insert(table, key)[k] = table[k]
  BY DEF Insert
<1>2. \A new \in FindOrInsert(table, key) : new[k] = table[k]
  BY <1>1 DEF FindOrInsert
<1> QED
  BY <1>1, <1>2 DEF FailedInsert

\* ... in the tables of operations and receipts in particular.
LEMMA OperationElsewhere ==
    ASSUME NEW table \in [OpKeys -> Nat], NEW key, NEW k \in OpKeys, k # key
    PROVE  /\ Insert(table, key)[k] = table[k]
           /\ \A new \in FindOrInsert(table, key) : new[k] = table[k]
BY InsertElsewhere

\* While the scan is at a transaction of block n, the rows it writes are that
\* transaction's.
LEMMA OthersUntouched ==
    ASSUME TypeInv, [Next]_vars, NEW x \in Txids,
           pc \in BlockPcs => \A i \in DOMAIN Chain[n] : Chain[n][i] # x
    PROVE  Untouched(x)
<1>a. RowsTypeOK /\ IndexesInRange /\ ScanTypeOK
  BY DEF TypeInv, TypeOK
<1>b. pc \in TxPcs => Tx \in Txids /\ Tx # x
  BY <1>a, KeysInRange DEF IndexesInRange, TxPcs, BlockPcs, Tx
<1>c. pc = "tx" /\ t <= Len(Chain[n]) => t \in DOMAIN Chain[n] /\ Tx # x
  BY <1>a, ChainFacts DEF IndexesInRange, ScanTypeOK, BlockPcs, Tx
<1>d. \A j \in OpNums : <<x, j>> \in OpKeys
  BY DEF OpKeys
<1>e. pc \in TxPcs => \A j \in OpNums : <<x, j>> # Key /\ <<x, j>> # ReceiptKey
  BY <1>b DEF Key, ReceiptKey
<1>f. pc \in {"tx"} \cup TxPcs =>
          \A i \in t .. Len(Chain[n]) : Chain[n][i] # x
  BY <1>a, ChainFacts DEF IndexesInRange, ScanTypeOK, BlockPcs, TxPcs
<1>1. CASE SaveBlock \/ SaveBlockFails
  BY <1>1 DEF SaveBlock, SaveBlockFails, receiptRows, ghostVars, Untouched
<1>2. CASE UpdatePreviousBlockHash \/ UpdatePreviousBlockHashFails
  BY <1>2 DEF UpdatePreviousBlockHash, UpdatePreviousBlockHashFails, receiptRows,
              ghostVars, Untouched
<1>3. CASE SaveTransaction
  <2>1. transactions'[x] = transactions[x]
    <3>1. transactions \in [Txids -> Nat] /\ x # Tx
      BY <1>3, <1>a, <1>b DEF SaveTransaction, RowsTypeOK, TxPcs
    <3>2. \A new \in FindOrInsert(transactions, Tx) : new[x] = transactions[x]
      BY <3>1, InsertElsewhere
    <3> QED
      BY <1>3, <3>2 DEF SaveTransaction
  <2> QED
    BY <1>3, <2>1 DEF SaveTransaction, receiptRows, ghostVars, Untouched
<1>4. CASE SaveTransactionFails
  <2>1. transactions'[x] = transactions[x]
    <3>1. transactions \in [Txids -> Nat] /\ x # Tx
      BY <1>4, <1>a, <1>b DEF SaveTransactionFails, RowsTypeOK, TxPcs
    <3>2. \A new \in FailedInsert(transactions, Tx) : new[x] = transactions[x]
      BY <3>1, InsertElsewhere
    <3> QED
      BY <1>4, <3>2 DEF SaveTransactionFails
  <2>2. x \in lost' <=> x \in lost
    BY <1>4, <1>f DEF SaveTransactionFails, AbandonBlock, TxPcs
  <2> QED
    BY <1>4, <2>1, <2>2 DEF SaveTransactionFails, receiptRows, Untouched
<1>5. CASE SaveOperation
  <2>1. \A j \in OpNums : opTables'[<<x, j>>] = opTables[<<x, j>>]
    <3> SUFFICES ASSUME NEW j \in OpNums PROVE opTables'[<<x, j>>] = opTables[<<x, j>>]
      OBVIOUS
    <3>1. opTables \in [OpKeys -> Nat] /\ <<x, j>> \in OpKeys /\ <<x, j>> # Key
      BY <1>5, <1>a, <1>d, <1>e DEF SaveOperation, RowsTypeOK, TxPcs
    <3>2. \A new \in FindOrInsert(opTables, Key) : new[<<x, j>>] = opTables[<<x, j>>]
      BY <3>1, OperationElsewhere
    <3> QED
      BY <1>5, <3>2 DEF SaveOperation
  <2> QED
    BY <1>5, <2>1 DEF SaveOperation, receiptRows, ghostVars, Untouched
<1>6. CASE SaveBaseOperation
  <2>1. \A j \in OpNums : operations'[<<x, j>>] = operations[<<x, j>>]
    <3> SUFFICES ASSUME NEW j \in OpNums PROVE operations'[<<x, j>>] = operations[<<x, j>>]
      OBVIOUS
    <3>1. operations \in [OpKeys -> Nat] /\ <<x, j>> \in OpKeys /\ <<x, j>> # Key
      BY <1>6, <1>a, <1>d, <1>e DEF SaveBaseOperation, RowsTypeOK, TxPcs
    <3>2. \A new \in FindOrInsert(operations, Key) : new[<<x, j>>] = operations[<<x, j>>]
      BY <3>1, OperationElsewhere
    <3> QED
      BY <1>6, <3>2 DEF SaveBaseOperation
  <2> QED
    BY <1>6, <2>1 DEF SaveBaseOperation, receiptRows, ghostVars, Untouched
<1>7. CASE ApplyPluginsToOperation
  <2>1. \A j \in OpNums : <<x, j>> \in applied' <=> <<x, j>> \in applied
    BY <1>7, <1>e DEF ApplyPluginsToOperation, TxPcs
  <2> QED
    BY <1>7, <2>1 DEF ApplyPluginsToOperation, receiptRows, ghostVars, Untouched
<1>8. CASE SaveContractOpReceipt
  <2>1. \A j \in OpNums : opReceipts'[<<x, j>>] = opReceipts[<<x, j>>]
    <3> SUFFICES ASSUME NEW j \in OpNums PROVE opReceipts'[<<x, j>>] = opReceipts[<<x, j>>]
      OBVIOUS
    <3>1. opReceipts \in [OpKeys -> Nat] /\ <<x, j>> \in OpKeys /\ <<x, j>> # ReceiptKey
      BY <1>8, <1>a, <1>d, <1>e DEF SaveContractOpReceipt, RowsTypeOK, TxPcs
    <3>2. Insert(opReceipts, ReceiptKey)[<<x, j>>] = opReceipts[<<x, j>>]
      BY <3>1, OperationElsewhere
    <3> QED
      BY <1>8, <3>2 DEF SaveContractOpReceipt
  <2> QED
    BY <1>8, <2>1 DEF SaveContractOpReceipt, ghostVars, Untouched
<1>9. CASE SaveReceiptEvent
  BY <1>9 DEF SaveReceiptEvent, ghostVars, Untouched
<1>10. CASE GetTxReceipts
  <2>1. x \in lost' <=> x \in lost
    BY <1>10, <1>c DEF GetTxReceipts
  <2> QED
    BY <1>10, <2>1 DEF GetTxReceipts, dbVars, rowVars, receiptRows, Untouched
<1>11. CASE GetTxReceiptsFails
  <2>1. x \in lost' <=> x \in lost
    BY <1>11, <1>f DEF GetTxReceiptsFails, AbandonBlock
  <2> QED
    BY <1>11, <2>1 DEF GetTxReceiptsFails, dbVars, rowVars, receiptRows, Untouched
<1>12. CASE FindOperationFails
  <2>1. x \in lost' <=> x \in lost
    BY <1>12, <1>b DEF FindOperationFails, TxPcs
  <2> QED
    BY <1>12, <2>1 DEF FindOperationFails, dbVars, rowVars, receiptRows, Untouched
<1>13. CASE UNCHANGED rowVars /\ UNCHANGED lost
  BY <1>13 DEF rowVars, receiptRows, Untouched
<1> QED
  BY <1>1, <1>2, <1>3, <1>4, <1>5, <1>6, <1>7, <1>8, <1>9, <1>10, <1>11, <1>12, <1>13,
     OnlyRowWrites, StepKinds
     DEF RowWrite, StepKind, Losing

\* So a step outside block b neither completes nor undoes it.
LEMMA OtherBlocksKept ==
    ASSUME TransactionsInOneBlock, TypeInv, [Next]_vars, NEW b \in Heights,
           pc \in BlockPcs => b # n
    PROVE  BlockDone(b)' <=> BlockDone(b)
<1>a. RowsTypeOK /\ IndexesInRange
  BY DEF TypeInv, TypeOK
<1>1. blocks'[b] = blocks[b]
  <2>1. CASE SaveBlock \/ SaveBlockFails
    <3>1. n \in Heights /\ n # b
      BY <2>1, <1>a DEF SaveBlock, SaveBlockFails, BlockPcs, IndexesInRange
    <3> QED
      BY <2>1, <3>1, <1>a DEF SaveBlock, SaveBlockFails, Insert, RowsTypeOK
  <2>2. CASE ~SaveBlock /\ ~SaveBlockFails
    BY <2>2, OnlyRowWrites
       DEF RowWrite, rowVars, blockRows, UpdatePreviousBlockHash,
           UpdatePreviousBlockHashFails, SaveTransaction, SaveTransactionFails,
           SaveOperation, SaveBaseOperation, ApplyPluginsToOperation,
           SaveContractOpReceipt, SaveReceiptEvent
  <2> QED
    BY <2>1, <2>2
<1>2. ASSUME NEW x \in Txids, Untouched(x)
      PROVE  (x \in lost \/ TransactionDone(x))' <=> (x \in lost \/ TransactionDone(x))
  <2>1. \A j \in Reached(x) : OperationDone(x, j)' <=> OperationDone(x, j)
    BY <1>2, TransactionFacts, ReachedFacts DEF Untouched, OperationDone
  <2>2. ReceiptsStored(x)' <=> ReceiptsStored(x)
    BY <1>2, TransactionFacts DEF Untouched, ReceiptsStored
  <2> QED
    BY <1>2, <2>1, <2>2 DEF Untouched, TransactionDone
<1>3. \A i \in DOMAIN Chain[b] : Chain[b][i] \in Txids /\ Untouched(Chain[b][i])
  <2> SUFFICES ASSUME NEW i \in DOMAIN Chain[b]
               PROVE  Chain[b][i] \in Txids /\ Untouched(Chain[b][i])
    OBVIOUS
  <2>1. Chain[b][i] \in Txids
    BY ChainFacts
  <2>2. pc \in BlockPcs => \A j \in DOMAIN Chain[n] : Chain[n][j] # Chain[b][i]
    BY <1>a DEF IndexesInRange, TransactionsInOneBlock
  <2> QED
    BY <2>1, <2>2, OthersUntouched
<1> QED
  BY <1>1, <1>2, <1>3 DEF BlockDone

-----------------------------------------------------------------------------
(* Every step of the scan is a step of the ledger, or a stutter.            *)

\* The scan is inside of blocks the node has.
WithinHead == pc \in BlockPcs => n <= head

LedgerInv == TypeInv /\ ScanInv /\ CheckpointBehind /\ WithinHead

\* Every step keeps the scan within the node's blocks.
LEMMA WithinHeadStep == TypeInv /\ WithinHead /\ [Next]_vars => WithinHead'
<1> SUFFICES ASSUME TypeInv, WithinHead, [Next]_vars, pc' \in BlockPcs PROVE (n <= head)'
  BY DEF WithinHead
<1>a. n \in Nat /\ head \in Nat
  BY DEF TypeInv, TypeOK, ScanTypeOK, ProcessTypeOK
<1>1. n' = n
  BY OnlyMoves DEF Start, ProcessEnds, UpdateLastScannedAtHead, FinishBlock, BlockPcs
<1>2. head' >= head
  BY <1>a, StepKinds DEF StepKind, NodeProducesBlock
<1>3. n <= head
  BY StepKinds DEF StepKind, GetBlock, WithinHead, BlockPcs
<1> QED
  BY <1>a, <1>1, <1>2, <1>3, TypeInvStep DEF TypeInv, TypeOK, ProcessTypeOK

\* The one row of scan_configs, or 0 while there is none, is the checkpoint.
LEMMA CheckpointValue ==
    ASSUME \A c, d \in checkpoints : c = d
    PROVE  /\ checkpoints = {} => Checkpoint = 0
           /\ \A c \in checkpoints : Checkpoint = c
<1>1. checkpoints = {} => Checkpoint = 0
  BY DEF Checkpoint
<1>2. ASSUME NEW c \in checkpoints PROVE Checkpoint = c
  <2>1. (CHOOSE d \in checkpoints : TRUE) \in checkpoints
    BY <1>2
  <2> QED
    BY <1>2, <2>1 DEF Checkpoint
<1> QED
  BY <1>1, <1>2

\* Writing the checkpoint is a Record of the ledger.
LEMMA RecordStep ==
    ASSUME ~RowsMissed, LedgerInv, LedgerInv', UpdateLastScannedAtHead \/ FinishBlock
    PROVE  [Ledger!Next]_(Ledger!ledger)
<1>a. /\ checkpoints \subseteq Nat /\ checkpoints' \subseteq Nat
      /\ flag \in Nat \cup {-1} /\ waived \in Nat
  BY DEF LedgerInv, TypeInv, TypeOK, ScanTypeOK, ProcessTypeOK
<1>b. UNCHANGED <<head, waived, flag, rowVars, lost>>
  BY DEF UpdateLastScannedAtHead, FinishBlock, procVars, ghostVars
<1>1. BlocksDone' = BlocksDone
  BY <1>b DEF BlocksDone, BlockDone, TransactionDone, OperationDone, ReceiptsStored,
              rowVars, blockRows, receiptRows
<1>2. CASE checkpoints' = checkpoints
  <2>1. Checkpoint' = Checkpoint
    BY <1>2 DEF Checkpoint
  <2> QED
    BY <1>1, <1>b, <2>1 DEF Ledger!ledger
<1>3. CASE checkpoints' # checkpoints
  <2>1. [Next]_vars
    BY DEF Next, ScanStep
  <2>2. PICK d \in Nat : checkpoints' = {d}
    <3>1. \E d : checkpoints' = {d}
      <4>1. CASE UpdateLastScannedAtHead
        BY <1>3, <4>1, CheckpointWritten DEF UpdateLastScannedAtHead
      <4>2. CASE FinishBlock
        BY <1>3, <4>2, CheckpointWritten DEF FinishBlock
      <4> QED
        BY <4>1, <4>2
    <3> QED
      BY <3>1, <1>a
  <2>3. Checkpoint' = d
    <3>1. (CHOOSE c \in {d} : TRUE) = d
      OBVIOUS
    <3> QED
      BY <2>2, <3>1 DEF Checkpoint
  <2>4. waived + 1 .. d \subseteq BlocksDone
    BY <1>b, <1>1, <2>2 DEF LedgerInv, ScanInv, CheckpointScanned
  <2>5. d >= Checkpoint \/ flag >= 0
    <3>1. CASE checkpoints = {}
      BY <3>1, <2>2 DEF Checkpoint
    <3>2. ASSUME NEW c \in checkpoints PROVE d >= Checkpoint \/ flag >= 0
      <4>1. Checkpoint = c
        BY <3>2, CheckpointValue DEF LedgerInv, CheckpointBehind
      <4>2. NeverBack
        BY <2>1, CheckpointNeverBack DEF LedgerInv
      <4> QED
        BY <1>3, <2>2, <3>2, <4>1, <4>2 DEF NeverBack
    <3> QED
      BY <3>1, <3>2
  <2>6. Ledger!Record
    BY <1>b, <1>1, <2>3, <2>4, <2>5 DEF Ledger!Record
  <2> QED
    BY <2>6 DEF Ledger!Next
<1> QED
  BY <1>2, <1>3

\* So is every other step one of the ledger's, or none.
LEMMA LedgerStep ==
    ASSUME TransactionsInOneBlock, ~RowsMissed, LedgerInv, LedgerInv', [Next]_vars
    PROVE  [Ledger!Next]_(Ledger!ledger)
<1>a. /\ TypeInv /\ n \in Nat /\ head \in Nat /\ waived \in Nat
      /\ flag \in Nat \cup {-1} /\ flag' \in Nat \cup {-1} /\ waived' \in Nat
  BY DEF LedgerInv, TypeInv, TypeOK, ScanTypeOK, ProcessTypeOK
<1>b. UNCHANGED <<rowVars, lost>> => BlocksDone' = BlocksDone
  BY DEF BlocksDone, BlockDone, TransactionDone, OperationDone, ReceiptsStored,
         rowVars, blockRows, receiptRows
<1>c. UNCHANGED checkpoints => Checkpoint' = Checkpoint
  BY DEF Checkpoint
<1>1. CASE Start
  <2>1. UNCHANGED <<head, rowVars, lost, checkpoints>>
    BY <1>1 DEF Start, dbVars
  <2>2. waived' = waived \/ (flag' >= 0 /\ waived' > waived)
    BY <1>1, <1>a DEF Start
  <2>3. (flag >= 0)' \in BOOLEAN
    OBVIOUS
  <2>4. Ledger!Change
    BY <2>1, <2>2, <2>3, <1>a, <1>b, <1>c DEF Ledger!Change
  <2> QED
    BY <2>4 DEF Ledger!Next
<1>2. CASE ProcessEnds
  <2>1. UNCHANGED <<head, rowVars, lost, checkpoints, waived>>
    BY <1>2 DEF ProcessEnds, dbVars, ghostVars
  <2>2. (flag >= 0)' \in BOOLEAN
    OBVIOUS
  <2>3. Ledger!Change
    BY <2>1, <2>2, <1>b, <1>c DEF Ledger!Change
  <2> QED
    BY <2>3 DEF Ledger!Next
<1>3. CASE UpdateLastScannedAtHead \/ FinishBlock
  BY <1>3, RecordStep
<1>4. CASE NodeProducesBlock
  <2>1. UNCHANGED <<rowVars, lost, checkpoints, waived, flag>> /\ head' = head + 1
    BY <1>4 DEF NodeProducesBlock, procVars, dbVars, ghostVars
  <2>2. Ledger!Produce
    BY <2>1, <1>b, <1>c DEF Ledger!Produce
  <2> QED
    BY <2>2 DEF Ledger!Next
<1>5. CASE /\ UNCHANGED <<n, checkpoints, waived, flag>>
           /\ ~NodeProducesBlock
  <2>1. UNCHANGED <<head, Checkpoint, waived, flag>>
    BY <1>5, <1>c, StepKinds DEF StepKind
  <2>2. BlocksDone \subseteq BlocksDone'
    BY <1>a, RowsKeptStep, DoneKept
  <2>3. \A b \in BlocksDone' \ BlocksDone : pc \in BlockPcs /\ b = n
    <3> SUFFICES ASSUME NEW b \in BlocksDone', b \notin BlocksDone
                 PROVE  pc \in BlockPcs /\ b = n
      OBVIOUS
    <3>1. b \in Heights /\ BlockDone(b)' /\ ~BlockDone(b)
      BY DEF BlocksDone
    <3> QED
      BY <3>1, <1>a, OtherBlocksKept
  <2>4. CASE BlocksDone' = BlocksDone
    BY <2>1, <2>4 DEF Ledger!ledger
  <2>5. CASE BlocksDone' # BlocksDone
    <3>1. pc \in BlockPcs /\ n \notin BlocksDone /\ BlocksDone' = BlocksDone \cup {n}
      BY <2>2, <2>3, <2>5
    <3>2. n \in 1 .. head
      BY <3>1, <1>a DEF LedgerInv, WithinHead, TypeInv, IndexesInRange, BlockPcs
    <3>3. waived + 1 .. n - 1 \subseteq BlocksDone
      BY <3>1 DEF LedgerInv, ScanInv, BlocksScanned, BlockPcs
    <3>4. Ledger!Store(n)
      BY <2>1, <3>1, <3>2, <3>3 DEF Ledger!Store
    <3> QED
      BY <3>2, <3>4 DEF Ledger!Next
  <2> QED
    BY <2>4, <2>5
<1> QED
  BY <1>1, <1>2, <1>3, <1>4, <1>5, OnlyMoves

\* The first state of the scan is one of the ledger's.
LEMMA LedgerInit == Init => Ledger!Init
<1> SUFFICES ASSUME Init PROVE Ledger!Init
  OBVIOUS
<1>1. BlocksDone = {}
  BY DEF Init, BlocksDone, BlockDone, NoRows
<1>2. Checkpoint = 0
  BY DEF Init, Checkpoint
<1>3. (flag >= 0) = FALSE
  BY DEF Init
<1> QED
  BY <1>1, <1>2, <1>3 DEF Init, Ledger!Init

\* The scan implements ScanLedger, whatever fails and wherever the process is
\* killed, while no find misses a row and no other scanner writes: blocks become
\* complete one at a time and in chain order, none is undone, and the checkpoint
\* stays inside of them and goes back only under -scan_from.
THEOREM ScannerImplementsLedger ==
    ASSUME TransactionsInOneBlock, ~RowsMissed
    PROVE  Spec => LedgerImplemented
<1>1. Init => LedgerInv /\ Ledger!Init
  BY TypeInvInit, ScanInvInit, LedgerInit
     DEF LedgerInv, Init, CheckpointBehind, WithinHead, BlockPcs
<1>2. LedgerInv /\ [Next]_vars => LedgerInv'
  BY TypeInvStep, BlocksScannedStep, TransactionsScannedStep, OperationsScannedStep,
     ReceiptsScannedStep, CheckpointBehindStep, WithinHeadStep
     DEF LedgerInv, ScanInv
<1>3. LedgerInv /\ LedgerInv' /\ [Next]_vars => [Ledger!Next]_(Ledger!ledger)
  BY LedgerStep
<1> QED
  BY <1>1, <1>2, <1>3, PTL DEF Spec, LedgerImplemented, Ledger!Spec
=============================================================================
