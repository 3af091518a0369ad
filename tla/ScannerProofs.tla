---------------------------- MODULE ScannerProofs ----------------------------
(***************************************************************************)
(* Proofs about Scanner, for every chain, every set of faults and every    *)
(* number of restarts.                                                     *)
(***************************************************************************)
EXTENDS Scanner, TLAPS

-----------------------------------------------------------------------------
(* Where the scan is inside the chain: what the program counter says of the *)
(* loop indexes.  TypeOK is not inductive without it, since Tx and Key are  *)
(* rows of the tables only while the indexes are in range.                  *)

BlockPcs == {"block", "previous", "tx", "txRow", "op", "base", "plugins",
             "receipts", "events", "mark"}
TxPcs == {"txRow", "op", "base", "plugins", "receipts", "events"}

IndexesInRange ==
    /\ pc # "down" => n >= 1
    /\ t >= 1 /\ o >= 1 /\ r >= 1 /\ e >= 1
    /\ pc \in BlockPcs => n \in Heights
    /\ pc \in TxPcs => t \in DOMAIN Chain[n]
    /\ pc \in {"base", "plugins"} => o \in DOMAIN Ops[Tx] /\ Ops[Tx][o] # "unknown"
    /\ pc = "events" => got /\ r \in DOMAIN Receipts[Tx]

TypeInv == TypeOK /\ IndexesInRange

\* What the assumptions on the constants say of a block and its transactions.
LEMMA ChainFacts ==
    /\ Len(Chain) \in Nat
    /\ Heights = 1 .. Len(Chain)
    /\ \A b \in Heights :
          /\ Len(Chain[b]) \in Nat
          /\ DOMAIN Chain[b] = 1 .. Len(Chain[b])
          /\ \A i \in DOMAIN Chain[b] : Chain[b][i] \in Txids
BY ChainAssumption DEF ChainAssumption, Heights

\* ... and of a transaction's operations and receipts.
LEMMA TransactionFacts ==
    ASSUME NEW x \in Txids
    PROVE  /\ Len(Ops[x]) \in Nat
           /\ DOMAIN Ops[x] = 1 .. Len(Ops[x])
           /\ DOMAIN Ops[x] \subseteq OpNums
           /\ Len(Receipts[x]) \in Nat
           /\ DOMAIN Receipts[x] = 1 .. Len(Receipts[x])
           /\ \A i \in DOMAIN Receipts[x] :
                 /\ Receipts[x][i].op_num \in OpNums
                 /\ Receipts[x][i].events \in 0 .. MaxEvents
<1>1. Ops[x] \in Seq(OpKinds) /\ Len(Ops[x]) <= MaxOps /\ MaxOps \in Nat
  BY ChainAssumption DEF ChainAssumption
<1>2. Receipts[x] \in Seq([op_num : OpNums, events : 0 .. MaxEvents])
  BY ChainAssumption DEF ChainAssumption
<1>3. DOMAIN Ops[x] = 1 .. Len(Ops[x]) /\ Len(Ops[x]) \in Nat
  BY <1>1
<1>4. DOMAIN Ops[x] \subseteq OpNums
  BY <1>1, <1>3 DEF OpNums
<1> DEFINE ReceiptSet == [op_num : OpNums, events : 0 .. MaxEvents]
<1>5. Receipts[x] \in Seq(ReceiptSet)
  BY <1>2
<1>6. /\ \A i \in DOMAIN Receipts[x] : Receipts[x][i] \in ReceiptSet
      /\ DOMAIN Receipts[x] = 1 .. Len(Receipts[x])
      /\ Len(Receipts[x]) \in Nat
  <2> HIDE DEF ReceiptSet
  <2> QED
    BY <1>5
<1> QED
  BY <1>3, <1>4, <1>6

\* Inserting a row, and finding or inserting one, keep the type of a table.
LEMMA InsertType ==
    ASSUME NEW Keys, NEW table \in [Keys -> Nat], NEW key
    PROVE  /\ Insert(table, key) \in [Keys -> Nat]
           /\ FindOrInsert(table, key) \subseteq [Keys -> Nat]
           /\ FailedInsert(table, key) \subseteq [Keys -> Nat]
<1>1. Insert(table, key) \in [Keys -> Nat]
  <2>1. CASE key \in Keys
    <3>1. table[key] + 1 \in Nat
      BY <2>1
    <3> QED
      BY <3>1 DEF Insert
  <2>2. CASE key \notin Keys
    <3>1. Insert(table, key) = table
      BY <2>2 DEF Insert
    <3> QED
      BY <3>1
  <2> QED
    BY <2>1, <2>2
<1>2. FindOrInsert(table, key) \subseteq [Keys -> Nat]
  BY <1>1 DEF FindOrInsert
<1> QED
  BY <1>1, <1>2 DEF FailedInsert

\* The row keys the scan is working on are keys of the tables.
LEMMA KeysInRange ==
    ASSUME TypeInv
    PROVE  /\ pc \in TxPcs => Tx \in Txids
           /\ pc \in {"base", "plugins"} => Key \in OpKeys
           /\ pc = "op" /\ o <= Len(Ops[Tx]) => Key \in OpKeys /\ o \in DOMAIN Ops[Tx]
           /\ pc = "events" => r <= Len(Receipts[Tx])
           /\ pc \in {"receipts", "events"} /\ r <= Len(Receipts[Tx]) =>
                 /\ ReceiptKey \in OpKeys
                 /\ r \in DOMAIN Receipts[Tx]
                 /\ Receipt.events \in 0 .. MaxEvents
<1> USE DEF TypeInv
<1>1. ASSUME pc \in TxPcs PROVE Tx \in Txids
  BY <1>1, ChainFacts DEF IndexesInRange, TxPcs, BlockPcs, Tx
<1>2. ASSUME pc \in {"base", "plugins"} PROVE Key \in OpKeys
  <2>1. Tx \in Txids
    BY <1>1, <1>2 DEF TxPcs
  <2> QED
    BY <2>1, <1>2, TransactionFacts DEF IndexesInRange, Key, OpKeys
<1>3. ASSUME pc = "op", o <= Len(Ops[Tx]) PROVE Key \in OpKeys /\ o \in DOMAIN Ops[Tx]
  <2>1. Tx \in Txids
    BY <1>1, <1>3 DEF TxPcs
  <2>2. o \in DOMAIN Ops[Tx]
    BY <2>1, <1>3, TransactionFacts DEF IndexesInRange, TypeOK, ScanTypeOK
  <2> QED
    BY <2>1, <2>2, TransactionFacts DEF Key, OpKeys
<1>4. ASSUME pc \in {"receipts", "events"}, r <= Len(Receipts[Tx])
      PROVE  /\ ReceiptKey \in OpKeys
             /\ r \in DOMAIN Receipts[Tx]
             /\ Receipt.events \in 0 .. MaxEvents
  <2>1. Tx \in Txids
    BY <1>1, <1>4 DEF TxPcs
  <2>2. r \in DOMAIN Receipts[Tx]
    BY <2>1, <1>4, TransactionFacts DEF IndexesInRange, TypeOK, ScanTypeOK
  <2> QED
    BY <2>1, <2>2, TransactionFacts DEF ReceiptKey, Receipt, OpKeys
<1>5. ASSUME pc = "events" PROVE r <= Len(Receipts[Tx])
  <2>1. Tx \in Txids
    BY <1>1, <1>5 DEF TxPcs
  <2> QED
    BY <2>1, <1>5, TransactionFacts DEF IndexesInRange
<1> QED
  BY <1>1, <1>2, <1>3, <1>4, <1>5

-----------------------------------------------------------------------------
(* Which actions write which table.                                        *)

RowWrite ==
    \/ SaveBlock \/ SaveBlockFails
    \/ UpdatePreviousBlockHash \/ UpdatePreviousBlockHashFails
    \/ SaveTransaction \/ SaveTransactionFails
    \/ SaveOperation \/ SaveBaseOperation \/ ApplyPluginsToOperation
    \/ SaveContractOpReceipt \/ SaveReceiptEvent

\* The scan writes rows in these actions and in no other.
LEMMA OnlyRowWrites == [Next]_vars => RowWrite \/ UNCHANGED rowVars
<1> SUFFICES ASSUME [Next]_vars, ~RowWrite PROVE UNCHANGED rowVars
  OBVIOUS
<1>1. ASSUME Start PROVE UNCHANGED rowVars
  BY <1>1 DEF Start, dbVars
<1>2. ASSUME Interrupt PROVE UNCHANGED rowVars
  BY <1>2 DEF Interrupt, dbVars
<1>3. ASSUME CloseHxNodeConn PROVE UNCHANGED rowVars
  BY <1>3 DEF CloseHxNodeConn, dbVars
<1>4. ASSUME ProcessEnds PROVE UNCHANGED rowVars
  BY <1>4 DEF ProcessEnds, dbVars
<1>5. ASSUME NodeProducesBlock PROVE UNCHANGED rowVars
  BY <1>5 DEF NodeProducesBlock, dbVars
<1>6. ASSUME LoopHead PROVE UNCHANGED rowVars
  BY <1>6 DEF LoopHead, dbVars
<1>7. ASSUME GetBlock PROVE UNCHANGED rowVars
  BY <1>7 DEF GetBlock, dbVars
<1>8. ASSUME GetBlockFails PROVE UNCHANGED rowVars
  BY <1>8 DEF GetBlockFails, dbVars
<1>9. ASSUME UpdateLastScannedAtHead PROVE UNCHANGED rowVars
  BY <1>9 DEF UpdateLastScannedAtHead, dbVars
<1>10. ASSUME GetTxReceipts PROVE UNCHANGED rowVars
  BY <1>10 DEF GetTxReceipts, dbVars
<1>11. ASSUME GetTxReceiptsFails PROVE UNCHANGED rowVars
  BY <1>11 DEF GetTxReceiptsFails, dbVars
<1>12. ASSUME TransactionsDone PROVE UNCHANGED rowVars
  BY <1>12 DEF TransactionsDone, dbVars
<1>13. ASSUME OpTypeUnknown PROVE UNCHANGED rowVars
  BY <1>13 DEF OpTypeUnknown, dbVars
<1>14. ASSUME FindOperationFails PROVE UNCHANGED rowVars
  BY <1>14 DEF FindOperationFails, dbVars
<1>15. ASSUME OpsDone PROVE UNCHANGED rowVars
  BY <1>15 DEF OpsDone, dbVars
<1>16. ASSUME FindContractOpReceipt PROVE UNCHANGED rowVars
  BY <1>16 DEF FindContractOpReceipt, dbVars
<1>17. ASSUME EventsDone PROVE UNCHANGED rowVars
  BY <1>17 DEF EventsDone, dbVars
<1>18. ASSUME ReceiptsDone PROVE UNCHANGED rowVars
  BY <1>18 DEF ReceiptsDone, dbVars
<1>19. ASSUME FinishBlock PROVE UNCHANGED rowVars
  BY <1>19 DEF FinishBlock, dbVars
<1>20. ASSUME UNCHANGED vars PROVE UNCHANGED rowVars
  BY <1>20 DEF vars, dbVars
<1> QED
  BY <1>1, <1>2, <1>3, <1>4, <1>5, <1>6, <1>7, <1>8, <1>9, <1>10, <1>11, <1>12, <1>13,
     <1>14, <1>15, <1>16, <1>17, <1>18, <1>19, <1>20
     DEF Next, ScanStep, RowWrite

-----------------------------------------------------------------------------
(* Type correctness.                                                       *)

\* The first state is well typed.
LEMMA TypeInvInit == Init => TypeInv
<1> SUFFICES ASSUME Init PROVE TypeInv
  OBVIOUS
<1>1. ProcessTypeOK
  <2>1. head \in 0 .. Len(Chain) /\ starts \in 0 .. MaxStarts
    BY ChainFacts, ParameterAssumption DEF Init, ParameterAssumption
  <2> QED
    BY <2>1 DEF Init, ProcessTypeOK, PcValues
<1>2. ScanTypeOK
  BY DEF Init, ScanTypeOK
<1>3. RowsTypeOK
  BY DEF Init, RowsTypeOK, NoRows
<1>4. IndexesInRange
  BY DEF Init, IndexesInRange, BlockPcs, TxPcs
<1> QED
  BY <1>1, <1>2, <1>3, <1>4 DEF TypeInv, TypeOK

\* Every step keeps the tables well typed: a row is written under a key of its
\* table only.
LEMMA RowsTypeStep == TypeInv /\ [Next]_vars => RowsTypeOK'
<1> SUFFICES ASSUME TypeInv, [Next]_vars PROVE RowsTypeOK'
  OBVIOUS
<1>0. RowsTypeOK
  BY DEF TypeInv, TypeOK
<1>a. n \in Nat /\ (n > 1 => PreviousIdFilled \in [Heights -> Nat])
  <2>1. n \in Nat
    BY DEF TypeInv, TypeOK, ScanTypeOK
  <2>2. ASSUME n > 1 PROVE [blockId EXCEPT ![n - 1] = Previous(n)] \in [Heights -> Nat]
    <3>1. Previous(n) \in Nat
      BY <2>1, <2>2 DEF Previous
    <3>2. blockId \in [Heights -> Nat]
      BY <1>0 DEF RowsTypeOK
    <3> QED
      BY <3>1, <3>2
  <2> QED
    BY <1>0, <2>1, <2>2 DEF PreviousIdFilled, RowsTypeOK
<1>b. ~(n > 1) => PreviousIdFilled = blockId
  BY DEF PreviousIdFilled
<1>1. CASE SaveBlock
  BY <1>1, <1>0, InsertType, KeysInRange
     DEF SaveBlock, RowsTypeOK, blockRows, receiptRows
<1>2. CASE SaveBlockFails
  <2>1. blocks' = blocks \/ blocks' = Insert(blocks, n)
    BY <1>2 DEF SaveBlockFails
  <2>2. blocks' \in [Heights -> Nat]
    BY <2>1, <1>0, InsertType DEF RowsTypeOK
  <2> QED
    BY <1>2, <1>0, <2>2 DEF SaveBlockFails, RowsTypeOK, receiptRows
<1>3. CASE UpdatePreviousBlockHash
  BY <1>3, <1>0, <1>a, <1>b
     DEF UpdatePreviousBlockHash, RowsTypeOK, blockRows, receiptRows
<1>4. CASE UpdatePreviousBlockHashFails
  BY <1>4, <1>0, <1>a, <1>b
     DEF UpdatePreviousBlockHashFails, RowsTypeOK, blockRows, receiptRows
<1>5. CASE SaveTransaction
  BY <1>5, <1>0, InsertType, KeysInRange
     DEF SaveTransaction, RowsTypeOK, blockRows, receiptRows
<1>6. CASE SaveTransactionFails
  BY <1>6, <1>0, InsertType, KeysInRange
     DEF SaveTransactionFails, RowsTypeOK, blockRows, receiptRows
<1>7. CASE SaveOperation
  BY <1>7, <1>0, InsertType, KeysInRange
     DEF SaveOperation, RowsTypeOK, blockRows, receiptRows
<1>8. CASE SaveBaseOperation
  BY <1>8, <1>0, InsertType, KeysInRange
     DEF SaveBaseOperation, RowsTypeOK, blockRows, receiptRows
<1>9. CASE ApplyPluginsToOperation
  BY <1>9, <1>0, InsertType, KeysInRange
     DEF ApplyPluginsToOperation, RowsTypeOK, blockRows, receiptRows
<1>10. CASE SaveContractOpReceipt
  BY <1>10, <1>0, InsertType, KeysInRange
     DEF SaveContractOpReceipt, RowsTypeOK, blockRows, receiptRows
<1>11. CASE SaveReceiptEvent
  BY <1>11, <1>0, InsertType DEF SaveReceiptEvent, RowsTypeOK, blockRows
<1>12. CASE UNCHANGED rowVars
  BY <1>12, <1>0 DEF RowsTypeOK, rowVars, blockRows, receiptRows
<1> QED
  BY <1>1, <1>2, <1>3, <1>4, <1>5, <1>6, <1>7, <1>8, <1>9, <1>10, <1>11, <1>12,
     OnlyRowWrites
     DEF RowWrite

\* Every step keeps the process's own variables well typed.
LEMMA ProcessTypeStep == TypeInv /\ [Next]_vars => ProcessTypeOK'
<1> SUFFICES ASSUME TypeInv, [Next]_vars PROVE ProcessTypeOK'
  OBVIOUS
<1> USE DEF TypeInv, TypeOK
<1>1. CASE Start
  <2>1. starts' \in 0 .. MaxStarts
    BY <1>1, ParameterAssumption DEF Start, ProcessTypeOK, ParameterAssumption
  <2>2. flag' \in Nat \cup {-1}
    BY <1>1, ParameterAssumption DEF Start, ParameterAssumption
  <2> QED
    BY <1>1, <2>1, <2>2 DEF Start, ProcessTypeOK, PcValues
<1>2. CASE Interrupt
  BY <1>2, ChainFacts, ParameterAssumption
     DEF Interrupt, ProcessTypeOK, PcValues, ParameterAssumption, procVars, scanVars
<1>3. CASE CloseHxNodeConn
  BY <1>3, ChainFacts, ParameterAssumption
     DEF CloseHxNodeConn, ProcessTypeOK, PcValues, ParameterAssumption, procVars,
         scanVars
<1>4. CASE ProcessEnds
  BY <1>4, ChainFacts, ParameterAssumption
     DEF ProcessEnds, ProcessTypeOK, PcValues, ParameterAssumption, procVars, scanVars
<1>5. CASE NodeProducesBlock
  BY <1>5, ChainFacts, ParameterAssumption
     DEF NodeProducesBlock, ProcessTypeOK, PcValues, ParameterAssumption, procVars,
         scanVars
<1>6. CASE LoopHead
  BY <1>6, ChainFacts, ParameterAssumption
     DEF LoopHead, ProcessTypeOK, PcValues, ParameterAssumption, procVars, scanVars
<1>7. CASE GetBlock
  BY <1>7, ChainFacts, ParameterAssumption
     DEF GetBlock, ProcessTypeOK, PcValues, ParameterAssumption, procVars, scanVars
<1>8. CASE GetBlockFails
  BY <1>8, ChainFacts, ParameterAssumption
     DEF GetBlockFails, ProcessTypeOK, PcValues, ParameterAssumption, procVars, scanVars
<1>9. CASE UpdateLastScannedAtHead
  BY <1>9, ChainFacts, ParameterAssumption
     DEF UpdateLastScannedAtHead, HeadCheckpoint, ProcessTypeOK, PcValues,
         ParameterAssumption, procVars, scanVars
<1>10. CASE SaveBlock
  BY <1>10, ChainFacts, ParameterAssumption
     DEF SaveBlock, ProcessTypeOK, PcValues, ParameterAssumption, procVars, scanVars
<1>11. CASE SaveBlockFails
  BY <1>11, ChainFacts, ParameterAssumption
     DEF SaveBlockFails, ProcessTypeOK, PcValues, ParameterAssumption, procVars,
         scanVars
<1>12. CASE UpdatePreviousBlockHash
  BY <1>12, ChainFacts, ParameterAssumption
     DEF UpdatePreviousBlockHash, ProcessTypeOK, PcValues, ParameterAssumption,
         procVars, scanVars
<1>13. CASE UpdatePreviousBlockHashFails
  BY <1>13, ChainFacts, ParameterAssumption
     DEF UpdatePreviousBlockHashFails, ProcessTypeOK, PcValues, ParameterAssumption,
         procVars, scanVars
<1>14. CASE GetTxReceipts
  BY <1>14, ChainFacts, ParameterAssumption
     DEF GetTxReceipts, ProcessTypeOK, PcValues, ParameterAssumption, procVars, scanVars
<1>15. CASE GetTxReceiptsFails
  BY <1>15, ChainFacts, ParameterAssumption
     DEF GetTxReceiptsFails, AbandonBlock, ProcessTypeOK, PcValues, ParameterAssumption,
         procVars, scanVars
<1>16. CASE SaveTransaction
  BY <1>16, ChainFacts, ParameterAssumption
     DEF SaveTransaction, ProcessTypeOK, PcValues, ParameterAssumption, procVars,
         scanVars
<1>17. CASE SaveTransactionFails
  BY <1>17, ChainFacts, ParameterAssumption
     DEF SaveTransactionFails, AbandonBlock, ProcessTypeOK, PcValues,
         ParameterAssumption, procVars, scanVars
<1>18. CASE TransactionsDone
  BY <1>18, ChainFacts, ParameterAssumption
     DEF TransactionsDone, ProcessTypeOK, PcValues, ParameterAssumption, procVars,
         scanVars
<1>19. CASE OpTypeUnknown
  BY <1>19, ChainFacts, ParameterAssumption
     DEF OpTypeUnknown, LeaveOpLoop, ProcessTypeOK, PcValues, ParameterAssumption,
         procVars, scanVars
<1>20. CASE SaveOperation
  BY <1>20, ChainFacts, ParameterAssumption
     DEF SaveOperation, ProcessTypeOK, PcValues, ParameterAssumption, procVars, scanVars
<1>21. CASE SaveBaseOperation
  BY <1>21, ChainFacts, ParameterAssumption
     DEF SaveBaseOperation, ProcessTypeOK, PcValues, ParameterAssumption, procVars,
         scanVars
<1>22. CASE FindOperationFails
  BY <1>22, ChainFacts, ParameterAssumption
     DEF FindOperationFails, LeaveOpLoop, ProcessTypeOK, PcValues, ParameterAssumption,
         procVars, scanVars
<1>23. CASE ApplyPluginsToOperation
  BY <1>23, ChainFacts, ParameterAssumption
     DEF ApplyPluginsToOperation, ProcessTypeOK, PcValues, ParameterAssumption,
         procVars, scanVars
<1>24. CASE OpsDone
  BY <1>24, ChainFacts, ParameterAssumption
     DEF OpsDone, LeaveOpLoop, ProcessTypeOK, PcValues, ParameterAssumption, procVars,
         scanVars
<1>25. CASE FindContractOpReceipt
  BY <1>25, ChainFacts, ParameterAssumption
     DEF FindContractOpReceipt, ProcessTypeOK, PcValues, ParameterAssumption, procVars,
         scanVars
<1>26. CASE SaveContractOpReceipt
  BY <1>26, ChainFacts, ParameterAssumption
     DEF SaveContractOpReceipt, ProcessTypeOK, PcValues, ParameterAssumption, procVars,
         scanVars
<1>27. CASE SaveReceiptEvent
  BY <1>27, ChainFacts, ParameterAssumption
     DEF SaveReceiptEvent, ProcessTypeOK, PcValues, ParameterAssumption, procVars,
         scanVars
<1>28. CASE EventsDone
  BY <1>28, ChainFacts, ParameterAssumption
     DEF EventsDone, ProcessTypeOK, PcValues, ParameterAssumption, procVars, scanVars
<1>29. CASE ReceiptsDone
  BY <1>29, ChainFacts, ParameterAssumption
     DEF ReceiptsDone, ProcessTypeOK, PcValues, ParameterAssumption, procVars, scanVars
<1>30. CASE FinishBlock
  BY <1>30, ChainFacts, ParameterAssumption
     DEF FinishBlock, NextBlock, ProcessTypeOK, PcValues, ParameterAssumption, procVars,
         scanVars
<1>31. CASE UNCHANGED vars
  BY <1>31 DEF ProcessTypeOK, PcValues, ParameterAssumption, procVars, scanVars, vars
<1> QED
  BY <1>1, <1>2, <1>3, <1>4, <1>5, <1>6, <1>7, <1>8, <1>9, <1>10, <1>11, <1>12, <1>13,
     <1>14, <1>15, <1>16, <1>17, <1>18, <1>19, <1>20, <1>21, <1>22, <1>23, <1>24, <1>25,
     <1>26, <1>27, <1>28, <1>29, <1>30, <1>31
     DEF Next, ScanStep

\* The successor of a natural number.
LEMMA SuccessorFacts ==
    ASSUME NEW k \in Nat, NEW m, m = k + 1
    PROVE  m \in Nat /\ m >= 1 /\ m - 1 = k
OBVIOUS

\* Where a process starts to scan: after -scan_from, or after a checkpoint.
LEMMA StartFacts ==
    ASSUME ScanTypeOK, Start
    PROVE  /\ flag' \in Nat \cup {-1}
           /\ n' \in Nat /\ n' >= 1
           /\ ~(flag' < 0) => flag' \in Nat /\ n' = flag' + 1
           /\ flag' < 0 =>
                 \E c \in GetLastScannedBlockNumber : c \in Nat /\ n' = c + 1
<1>1. flag' \in Nat \cup {-1}
  BY ParameterAssumption DEF Start, ParameterAssumption
<1>2. PICK c \in GetLastScannedBlockNumber : n' = StartBlock(flag', c)
  BY DEF Start
<1>3. c \in Nat
  BY DEF ScanTypeOK, GetLastScannedBlockNumber
<1>4. CASE flag' \in Nat
  <2>1. n' = flag' + 1 /\ ~(flag' < 0)
    BY <1>2, <1>4 DEF StartBlock
  <2>2. n' \in Nat /\ n' >= 1
    BY <1>4, <2>1, SuccessorFacts
  <2> QED
    BY <1>1, <1>4, <2>1, <2>2
<1>5. CASE flag' = -1
  <2>1. n' = c + 1 /\ flag' < 0
    BY <1>2, <1>3, <1>5 DEF StartBlock
  <2>2. n' \in Nat /\ n' >= 1
    BY <1>3, <2>1, SuccessorFacts
  <2> QED
    BY <1>1, <1>3, <2>1, <2>2
<1> QED
  BY <1>1, <1>4, <1>5

\* What writing the checkpoint v leaves in scan_configs.
LEMMA CheckpointWritten ==
    ASSUME NEW v, NEW written \in UpdateLastScannedBlockNumber(v)
    PROVE  /\ \/ written = checkpoints \cup {v}
              \/ written = checkpoints
              \/ written = {v}
           /\ ~RowsMissed =>
                 \/ written = {v}
                 \/ written = checkpoints
BY DEF UpdateLastScannedBlockNumber, SaveConfig, RowsMissed

\* Every step keeps the scan's counters natural numbers, in particular the
\* checkpoint n - 1 and the abandoned transactions.
LEMMA ScanTypeStep == TypeInv /\ [Next]_vars => ScanTypeOK'
<1> SUFFICES ASSUME TypeInv, [Next]_vars PROVE ScanTypeOK'
  OBVIOUS
<1> USE DEF TypeInv, TypeOK
<1>1. CASE Start
  <2>1. flag' \in Nat \cup {-1}
    BY <1>1, StartFacts
  <2>2. n' \in Nat
    BY <1>1, StartFacts
  <2>3. waived' \in Nat
    BY <1>1, <2>1 DEF Start, ScanTypeOK
  <2> QED
    BY <1>1, <2>2, <2>3 DEF Start, ScanTypeOK, indexVars, dbVars
<1>2. CASE Interrupt
  BY <1>2, ChainFacts
     DEF Interrupt, ScanTypeOK, IndexesInRange, BlockPcs, scanVars, indexVars, dbVars,
         ghostVars
<1>3. CASE CloseHxNodeConn
  BY <1>3, ChainFacts
     DEF CloseHxNodeConn, ScanTypeOK, IndexesInRange, BlockPcs, scanVars, indexVars,
         dbVars, ghostVars
<1>4. CASE ProcessEnds
  BY <1>4, ChainFacts
     DEF ProcessEnds, ScanTypeOK, IndexesInRange, BlockPcs, scanVars, indexVars, dbVars,
         ghostVars
<1>5. CASE NodeProducesBlock
  BY <1>5, ChainFacts
     DEF NodeProducesBlock, ScanTypeOK, IndexesInRange, BlockPcs, scanVars, indexVars,
         dbVars, ghostVars
<1>6. CASE LoopHead
  BY <1>6, ChainFacts
     DEF LoopHead, ScanTypeOK, IndexesInRange, BlockPcs, scanVars, indexVars, dbVars,
         ghostVars
<1>7. CASE GetBlock
  BY <1>7, ChainFacts
     DEF GetBlock, ScanTypeOK, IndexesInRange, BlockPcs, scanVars, indexVars, dbVars,
         ghostVars
<1>8. CASE GetBlockFails
  BY <1>8, ChainFacts
     DEF GetBlockFails, ScanTypeOK, IndexesInRange, BlockPcs, scanVars, indexVars,
         dbVars, ghostVars
<1>9. CASE UpdateLastScannedAtHead
  <2>1. n \in Nat /\ n >= 1
    BY <1>9 DEF UpdateLastScannedAtHead, ScanTypeOK, IndexesInRange
  <2>2. HeadCheckpoint(n) \in Nat
    BY <2>1 DEF HeadCheckpoint
  <2>3. checkpoints' \in UpdateLastScannedBlockNumber(HeadCheckpoint(n))
    BY <1>9 DEF UpdateLastScannedAtHead
  <2>4. checkpoints' \subseteq checkpoints \cup {HeadCheckpoint(n)}
    BY <2>3, CheckpointWritten
  <2>5. checkpoints' \subseteq Nat
    BY <2>2, <2>4 DEF ScanTypeOK
  <2> QED
    BY <1>9, <2>5 DEF UpdateLastScannedAtHead, ScanTypeOK, indexVars, ghostVars
<1>10. CASE SaveBlock
  BY <1>10, ChainFacts
     DEF SaveBlock, ScanTypeOK, IndexesInRange, BlockPcs, scanVars, indexVars, dbVars,
         ghostVars
<1>11. CASE SaveBlockFails
  BY <1>11, ChainFacts
     DEF SaveBlockFails, ScanTypeOK, IndexesInRange, BlockPcs, scanVars, indexVars,
         dbVars, ghostVars
<1>12. CASE UpdatePreviousBlockHash
  BY <1>12, ChainFacts
     DEF UpdatePreviousBlockHash, ScanTypeOK, IndexesInRange, BlockPcs, scanVars,
         indexVars, dbVars, ghostVars
<1>13. CASE UpdatePreviousBlockHashFails
  BY <1>13, ChainFacts
     DEF UpdatePreviousBlockHashFails, ScanTypeOK, IndexesInRange, BlockPcs, scanVars,
         indexVars, dbVars, ghostVars
<1>14. CASE GetTxReceipts
  <2>1. Tx \in Txids
    BY <1>14, ChainFacts DEF GetTxReceipts, Tx, ScanTypeOK, IndexesInRange, BlockPcs
  <2>2. got' \in BOOLEAN /\ lost' \subseteq Txids
    BY <1>14, <2>1 DEF GetTxReceipts, ScanTypeOK
  <2> QED
    BY <1>14, <2>2 DEF GetTxReceipts, ScanTypeOK, dbVars
<1>15. CASE GetTxReceiptsFails
  BY <1>15, ChainFacts
     DEF GetTxReceiptsFails, AbandonBlock, ScanTypeOK, IndexesInRange, BlockPcs,
         scanVars, indexVars, dbVars, ghostVars
<1>16. CASE SaveTransaction
  BY <1>16, ChainFacts
     DEF SaveTransaction, ScanTypeOK, IndexesInRange, BlockPcs, scanVars, indexVars,
         dbVars, ghostVars
<1>17. CASE SaveTransactionFails
  BY <1>17, ChainFacts
     DEF SaveTransactionFails, AbandonBlock, ScanTypeOK, IndexesInRange, BlockPcs,
         scanVars, indexVars, dbVars, ghostVars
<1>18. CASE TransactionsDone
  BY <1>18, ChainFacts
     DEF TransactionsDone, ScanTypeOK, IndexesInRange, BlockPcs, scanVars, indexVars,
         dbVars, ghostVars
<1>19. CASE OpTypeUnknown
  BY <1>19, ChainFacts
     DEF OpTypeUnknown, LeaveOpLoop, ScanTypeOK, IndexesInRange, BlockPcs, scanVars,
         indexVars, dbVars, ghostVars
<1>20. CASE SaveOperation
  BY <1>20, ChainFacts
     DEF SaveOperation, ScanTypeOK, IndexesInRange, BlockPcs, scanVars, indexVars,
         dbVars, ghostVars
<1>21. CASE SaveBaseOperation
  BY <1>21, ChainFacts
     DEF SaveBaseOperation, ScanTypeOK, IndexesInRange, BlockPcs, scanVars, indexVars,
         dbVars, ghostVars
<1>22. CASE FindOperationFails
  <2>1. Tx \in Txids
    BY <1>22, KeysInRange DEF FindOperationFails, TxPcs
  <2>2. lost' \subseteq Txids
    BY <1>22, <2>1 DEF FindOperationFails, ScanTypeOK
  <2> QED
    BY <1>22, <2>2 DEF FindOperationFails, LeaveOpLoop, ScanTypeOK, dbVars
<1>23. CASE ApplyPluginsToOperation
  BY <1>23, ChainFacts
     DEF ApplyPluginsToOperation, ScanTypeOK, IndexesInRange, BlockPcs, scanVars,
         indexVars, dbVars, ghostVars
<1>24. CASE OpsDone
  BY <1>24, ChainFacts
     DEF OpsDone, LeaveOpLoop, ScanTypeOK, IndexesInRange, BlockPcs, scanVars,
         indexVars, dbVars, ghostVars
<1>25. CASE FindContractOpReceipt
  BY <1>25, ChainFacts
     DEF FindContractOpReceipt, ScanTypeOK, IndexesInRange, BlockPcs, scanVars,
         indexVars, dbVars, ghostVars
<1>26. CASE SaveContractOpReceipt
  BY <1>26, ChainFacts
     DEF SaveContractOpReceipt, ScanTypeOK, IndexesInRange, BlockPcs, scanVars,
         indexVars, dbVars, ghostVars
<1>27. CASE SaveReceiptEvent
  BY <1>27, ChainFacts
     DEF SaveReceiptEvent, ScanTypeOK, IndexesInRange, BlockPcs, scanVars, indexVars,
         dbVars, ghostVars
<1>28. CASE EventsDone
  BY <1>28, ChainFacts
     DEF EventsDone, ScanTypeOK, IndexesInRange, BlockPcs, scanVars, indexVars, dbVars,
         ghostVars
<1>29. CASE ReceiptsDone
  BY <1>29, ChainFacts
     DEF ReceiptsDone, ScanTypeOK, IndexesInRange, BlockPcs, scanVars, indexVars,
         dbVars, ghostVars
<1>30. CASE FinishBlock
  <2>1. n' \in Nat
    BY <1>30 DEF FinishBlock, NextBlock, ScanTypeOK
  <2>2. checkpoints' \subseteq checkpoints \cup {n}
    BY <1>30, CheckpointWritten DEF FinishBlock
  <2>3. checkpoints' \subseteq Nat
    BY <2>2 DEF ScanTypeOK
  <2> QED
    BY <1>30, <2>1, <2>3 DEF FinishBlock, ScanTypeOK, ghostVars
<1>31. CASE UNCHANGED vars
  BY <1>31
     DEF ScanTypeOK, IndexesInRange, BlockPcs, scanVars, indexVars, dbVars, ghostVars,
         vars
<1> QED
  BY <1>1, <1>2, <1>3, <1>4, <1>5, <1>6, <1>7, <1>8, <1>9, <1>10, <1>11, <1>12, <1>13,
     <1>14, <1>15, <1>16, <1>17, <1>18, <1>19, <1>20, <1>21, <1>22, <1>23, <1>24, <1>25,
     <1>26, <1>27, <1>28, <1>29, <1>30, <1>31
     DEF Next, ScanStep

\* Every step keeps the loop indexes where the program counter says they are.
LEMMA IndexesStep == TypeInv /\ [Next]_vars => IndexesInRange'
<1> SUFFICES ASSUME TypeInv, [Next]_vars PROVE IndexesInRange'
  OBVIOUS
<1> USE DEF TypeInv, TypeOK
<1>1. CASE Start
  <2>2. n' >= 1
    BY <1>1, StartFacts
  <2> QED
    BY <1>1, <2>2 DEF Start, IndexesInRange, BlockPcs, TxPcs, indexVars
<1>2. CASE Interrupt
  BY <1>2, ChainFacts, KeysInRange
     DEF Interrupt, IndexesInRange, ScanTypeOK, BlockPcs, TxPcs, Tx, scanVars, indexVars
<1>3. CASE CloseHxNodeConn
  BY <1>3, ChainFacts, KeysInRange
     DEF CloseHxNodeConn, IndexesInRange, ScanTypeOK, BlockPcs, TxPcs, Tx, scanVars,
         indexVars
<1>4. CASE ProcessEnds
  BY <1>4, ChainFacts, KeysInRange
     DEF ProcessEnds, IndexesInRange, ScanTypeOK, BlockPcs, TxPcs, Tx, scanVars,
         indexVars
<1>5. CASE NodeProducesBlock
  BY <1>5, ChainFacts, KeysInRange
     DEF NodeProducesBlock, IndexesInRange, ScanTypeOK, BlockPcs, TxPcs, Tx, scanVars,
         indexVars
<1>6. CASE LoopHead
  BY <1>6, ChainFacts, KeysInRange
     DEF LoopHead, IndexesInRange, ScanTypeOK, BlockPcs, TxPcs, Tx, scanVars, indexVars
<1>7. CASE GetBlock
  <2>1. pc' = "block" => n \in Heights
    BY <1>7, ChainFacts DEF GetBlock, ProcessTypeOK, ScanTypeOK, IndexesInRange
  <2> QED
    BY <1>7, <2>1 DEF GetBlock, IndexesInRange, BlockPcs, TxPcs, indexVars
<1>8. CASE GetBlockFails
  BY <1>8, ChainFacts, KeysInRange
     DEF GetBlockFails, IndexesInRange, ScanTypeOK, BlockPcs, TxPcs, Tx, scanVars,
         indexVars
<1>9. CASE UpdateLastScannedAtHead
  BY <1>9, ChainFacts, KeysInRange
     DEF UpdateLastScannedAtHead, HeadCheckpoint, IndexesInRange, ScanTypeOK, BlockPcs,
         TxPcs, Tx, scanVars, indexVars
<1>10. CASE SaveBlock
  BY <1>10, ChainFacts, KeysInRange
     DEF SaveBlock, IndexesInRange, ScanTypeOK, BlockPcs, TxPcs, Tx, scanVars, indexVars
<1>11. CASE SaveBlockFails
  BY <1>11, ChainFacts, KeysInRange
     DEF SaveBlockFails, IndexesInRange, ScanTypeOK, BlockPcs, TxPcs, Tx, scanVars,
         indexVars
<1>12. CASE UpdatePreviousBlockHash
  BY <1>12, ChainFacts, KeysInRange
     DEF UpdatePreviousBlockHash, IndexesInRange, ScanTypeOK, BlockPcs, TxPcs, Tx,
         scanVars, indexVars
<1>13. CASE UpdatePreviousBlockHashFails
  BY <1>13, ChainFacts, KeysInRange
     DEF UpdatePreviousBlockHashFails, IndexesInRange, ScanTypeOK, BlockPcs, TxPcs, Tx,
         scanVars, indexVars
<1>14. CASE GetTxReceipts
  BY <1>14, ChainFacts, KeysInRange
     DEF GetTxReceipts, IndexesInRange, ScanTypeOK, BlockPcs, TxPcs, Tx, scanVars,
         indexVars
<1>15. CASE GetTxReceiptsFails
  BY <1>15, ChainFacts, KeysInRange
     DEF GetTxReceiptsFails, AbandonBlock, IndexesInRange, ScanTypeOK, BlockPcs, TxPcs,
         Tx, scanVars, indexVars
<1>16. CASE SaveTransaction
  BY <1>16, ChainFacts, KeysInRange
     DEF SaveTransaction, IndexesInRange, ScanTypeOK, BlockPcs, TxPcs, Tx, scanVars,
         indexVars
<1>17. CASE SaveTransactionFails
  BY <1>17, ChainFacts, KeysInRange
     DEF SaveTransactionFails, AbandonBlock, IndexesInRange, ScanTypeOK, BlockPcs,
         TxPcs, Tx, scanVars, indexVars
<1>18. CASE TransactionsDone
  BY <1>18, ChainFacts, KeysInRange
     DEF TransactionsDone, IndexesInRange, ScanTypeOK, BlockPcs, TxPcs, Tx, scanVars,
         indexVars
<1>19. CASE OpTypeUnknown
  BY <1>19, ChainFacts, KeysInRange
     DEF OpTypeUnknown, LeaveOpLoop, IndexesInRange, ScanTypeOK, BlockPcs, TxPcs, Tx,
         scanVars, indexVars
<1>20. CASE SaveOperation
  BY <1>20, ChainFacts, KeysInRange
     DEF SaveOperation, IndexesInRange, ScanTypeOK, BlockPcs, TxPcs, Tx, scanVars,
         indexVars
<1>21. CASE SaveBaseOperation
  BY <1>21, ChainFacts, KeysInRange
     DEF SaveBaseOperation, IndexesInRange, ScanTypeOK, BlockPcs, TxPcs, Tx, scanVars,
         indexVars
<1>22. CASE FindOperationFails
  BY <1>22, ChainFacts, KeysInRange
     DEF FindOperationFails, LeaveOpLoop, IndexesInRange, ScanTypeOK, BlockPcs, TxPcs,
         Tx, scanVars, indexVars
<1>23. CASE ApplyPluginsToOperation
  BY <1>23, ChainFacts, KeysInRange
     DEF ApplyPluginsToOperation, IndexesInRange, ScanTypeOK, BlockPcs, TxPcs, Tx,
         scanVars, indexVars
<1>24. CASE OpsDone
  BY <1>24, ChainFacts, KeysInRange
     DEF OpsDone, LeaveOpLoop, IndexesInRange, ScanTypeOK, BlockPcs, TxPcs, Tx,
         scanVars, indexVars
<1>25. CASE FindContractOpReceipt
  BY <1>25, ChainFacts, KeysInRange
     DEF FindContractOpReceipt, IndexesInRange, ScanTypeOK, BlockPcs, TxPcs, Tx,
         scanVars, indexVars
<1>26. CASE SaveContractOpReceipt
  BY <1>26, ChainFacts, KeysInRange
     DEF SaveContractOpReceipt, IndexesInRange, ScanTypeOK, BlockPcs, TxPcs, Tx,
         scanVars, indexVars
<1>27. CASE SaveReceiptEvent
  BY <1>27, ChainFacts, KeysInRange
     DEF SaveReceiptEvent, IndexesInRange, ScanTypeOK, BlockPcs, TxPcs, Tx, scanVars,
         indexVars
<1>28. CASE EventsDone
  BY <1>28, ChainFacts, KeysInRange
     DEF EventsDone, IndexesInRange, ScanTypeOK, BlockPcs, TxPcs, Tx, scanVars,
         indexVars
<1>29. CASE ReceiptsDone
  BY <1>29, ChainFacts, KeysInRange
     DEF ReceiptsDone, IndexesInRange, ScanTypeOK, BlockPcs, TxPcs, Tx, scanVars,
         indexVars
<1>30. CASE FinishBlock
  BY <1>30, ChainFacts, KeysInRange
     DEF FinishBlock, NextBlock, IndexesInRange, ScanTypeOK, BlockPcs, TxPcs, Tx,
         scanVars, indexVars
<1>31. CASE UNCHANGED vars
  BY <1>31
     DEF IndexesInRange, ScanTypeOK, BlockPcs, TxPcs, Tx, scanVars, indexVars, vars
<1> QED
  BY <1>1, <1>2, <1>3, <1>4, <1>5, <1>6, <1>7, <1>8, <1>9, <1>10, <1>11, <1>12, <1>13,
     <1>14, <1>15, <1>16, <1>17, <1>18, <1>19, <1>20, <1>21, <1>22, <1>23, <1>24, <1>25,
     <1>26, <1>27, <1>28, <1>29, <1>30, <1>31
     DEF Next, ScanStep

\* The inductive step of the type invariant.
LEMMA TypeInvStep == TypeInv /\ [Next]_vars => TypeInv'
BY ProcessTypeStep, ScanTypeStep, RowsTypeStep, IndexesStep DEF TypeInv, TypeOK

\* The type invariant with the ranges of the indexes holds in every state.
LEMMA TypeInvInvariant == Spec => []TypeInv
BY TypeInvInit, TypeInvStep, PTL DEF Spec

\* Every variable stays in its type, whatever fails and however often the
\* program is restarted: the scan never asks for a negative block and never
\* writes under a key outside the tables.
THEOREM TypeCorrect == Spec => []TypeOK
<1>1. TypeInv => TypeOK
  BY DEF TypeInv
<1> QED
  BY <1>1, TypeInvInvariant, PTL
-----------------------------------------------------------------------------
(* Rows stay.  The sets below name, for the proofs, the keys that have a    *)
(* row and what is complete; none of them ever loses an element.            *)

StoredBlocks == {b \in Heights : blocks[b] > 0}
StoredTxs == {x \in Txids : transactions[x] > 0}
StoredOpTables == {k \in OpKeys : opTables[k] > 0}
StoredOps == {k \in OpKeys : operations[k] > 0}
StoredReceipts == {k \in OpKeys : opReceipts[k] > 0}
DoneOps == StoredOpTables \cap StoredOps \cap applied
ReachedOps == {k \in OpKeys : k[2] \in Reached(k[1])}
ContractTxs == {x \in Txids : CheckTransactionHasContractOp(x)}
AccountedTxs == lost \cup {x \in Txids : TransactionDone(x)}

RowsKept ==
    /\ StoredBlocks \subseteq StoredBlocks'
    /\ StoredTxs \subseteq StoredTxs'
    /\ StoredOpTables \subseteq StoredOpTables'
    /\ StoredOps \subseteq StoredOps'
    /\ StoredReceipts \subseteq StoredReceipts'
    /\ applied \subseteq applied'
    /\ lost \subseteq lost'

\* An insert, or find-or-insert, leaves every key that had a row with one and
\* gives one to its own key.
LEMMA InsertKeeps ==
    ASSUME NEW Keys, NEW table \in [Keys -> Nat], NEW key, NEW k \in Keys
    PROVE  /\ table[k] > 0 => Insert(table, key)[k] > 0
           /\ k = key => Insert(table, key)[k] > 0
           /\ \A new \in FindOrInsert(table, key) :
                 (table[k] > 0 => new[k] > 0) /\ (k = key => new[k] > 0)
           /\ \A new \in FailedInsert(table, key) : table[k] > 0 => new[k] > 0
<1>1. (table[k] > 0 => Insert(table, key)[k] > 0) /\ (k = key => Insert(table, key)[k] >
      0)
  BY DEF Insert
<1>2. \A new \in FindOrInsert(table, key) :
         (table[k] > 0 => new[k] > 0) /\ (k = key => new[k] > 0)
  BY <1>1 DEF FindOrInsert, FindResults, Found
<1> QED
  BY <1>1, <1>2 DEF FailedInsert

\* A transaction once abandoned stays marked so.
LEMMA LostKept == [Next]_vars => lost \subseteq lost'
<1> SUFFICES ASSUME [Next]_vars PROVE lost \subseteq lost'
  OBVIOUS
<1>1. CASE Start
  BY <1>1 DEF Start, ghostVars
<1>2. CASE Interrupt
  BY <1>2 DEF Interrupt, ghostVars
<1>3. CASE CloseHxNodeConn
  BY <1>3 DEF CloseHxNodeConn, ghostVars
<1>4. CASE ProcessEnds
  BY <1>4 DEF ProcessEnds, ghostVars
<1>5. CASE NodeProducesBlock
  BY <1>5 DEF NodeProducesBlock, ghostVars
<1>6. CASE LoopHead
  BY <1>6 DEF LoopHead, ghostVars
<1>7. CASE GetBlock
  BY <1>7 DEF GetBlock, ghostVars
<1>8. CASE GetBlockFails
  BY <1>8 DEF GetBlockFails, ghostVars
<1>9. CASE UpdateLastScannedAtHead
  BY <1>9 DEF UpdateLastScannedAtHead, ghostVars
<1>10. CASE SaveBlock
  BY <1>10 DEF SaveBlock, ghostVars
<1>11. CASE SaveBlockFails
  BY <1>11 DEF SaveBlockFails, ghostVars
<1>12. CASE UpdatePreviousBlockHash
  BY <1>12 DEF UpdatePreviousBlockHash, ghostVars
<1>13. CASE UpdatePreviousBlockHashFails
  BY <1>13 DEF UpdatePreviousBlockHashFails, ghostVars
<1>14. CASE GetTxReceipts
  BY <1>14 DEF GetTxReceipts, ghostVars
<1>15. CASE GetTxReceiptsFails
  BY <1>15 DEF GetTxReceiptsFails, AbandonBlock, ghostVars
<1>16. CASE SaveTransaction
  BY <1>16 DEF SaveTransaction, ghostVars
<1>17. CASE SaveTransactionFails
  BY <1>17 DEF SaveTransactionFails, AbandonBlock, ghostVars
<1>18. CASE TransactionsDone
  BY <1>18 DEF TransactionsDone, ghostVars
<1>19. CASE OpTypeUnknown
  BY <1>19 DEF OpTypeUnknown, ghostVars
<1>20. CASE SaveOperation
  BY <1>20 DEF SaveOperation, ghostVars
<1>21. CASE SaveBaseOperation
  BY <1>21 DEF SaveBaseOperation, ghostVars
<1>22. CASE FindOperationFails
  BY <1>22 DEF FindOperationFails, ghostVars
<1>23. CASE ApplyPluginsToOperation
  BY <1>23 DEF ApplyPluginsToOperation, ghostVars
<1>24. CASE OpsDone
  BY <1>24 DEF OpsDone, ghostVars
<1>25. CASE FindContractOpReceipt
  BY <1>25 DEF FindContractOpReceipt, ghostVars
<1>26. CASE SaveContractOpReceipt
  BY <1>26 DEF SaveContractOpReceipt, ghostVars
<1>27. CASE SaveReceiptEvent
  BY <1>27 DEF SaveReceiptEvent, ghostVars
<1>28. CASE EventsDone
  BY <1>28 DEF EventsDone, ghostVars
<1>29. CASE ReceiptsDone
  BY <1>29 DEF ReceiptsDone, ghostVars
<1>30. CASE FinishBlock
  BY <1>30 DEF FinishBlock, ghostVars
<1>31. CASE UNCHANGED vars
  BY <1>31 DEF vars, ghostVars
<1> QED
  BY <1>1, <1>2, <1>3, <1>4, <1>5, <1>6, <1>7, <1>8, <1>9, <1>10, <1>11, <1>12, <1>13,
     <1>14, <1>15, <1>16, <1>17, <1>18, <1>19, <1>20, <1>21, <1>22, <1>23, <1>24, <1>25,
     <1>26, <1>27, <1>28, <1>29, <1>30, <1>31
     DEF Next, ScanStep

\* No step ever removes a row: there is no DELETE in the scan.
LEMMA RowsKeptStep == TypeInv /\ [Next]_vars => RowsKept
<1> SUFFICES ASSUME TypeInv, [Next]_vars PROVE RowsKept
  OBVIOUS
<1>0. RowsTypeOK /\ lost \subseteq lost'
  BY LostKept DEF TypeInv, TypeOK
<1>1. CASE SaveBlock
  BY <1>1, <1>0, InsertKeeps
     DEF SaveBlock, RowsKept, RowsTypeOK, StoredBlocks, StoredTxs, StoredOpTables,
         StoredOps, StoredReceipts, rowVars,
         blockRows, receiptRows
<1>2. CASE SaveBlockFails
  BY <1>2, <1>0, InsertKeeps
     DEF SaveBlockFails, RowsKept, RowsTypeOK, StoredBlocks, StoredTxs, StoredOpTables,
         StoredOps, StoredReceipts, rowVars,
         blockRows, receiptRows
<1>3. CASE UpdatePreviousBlockHash
  BY <1>3, <1>0, InsertKeeps
     DEF UpdatePreviousBlockHash, RowsKept, RowsTypeOK, StoredBlocks, StoredTxs,
         StoredOpTables, StoredOps, StoredReceipts, rowVars,
         blockRows, receiptRows
<1>4. CASE UpdatePreviousBlockHashFails
  BY <1>4, <1>0, InsertKeeps
     DEF UpdatePreviousBlockHashFails, RowsKept, RowsTypeOK, StoredBlocks, StoredTxs,
         StoredOpTables, StoredOps, StoredReceipts, rowVars,
         blockRows, receiptRows
<1>5. CASE SaveTransaction
  BY <1>5, <1>0, InsertKeeps
     DEF SaveTransaction, RowsKept, RowsTypeOK, StoredBlocks, StoredTxs, StoredOpTables,
         StoredOps, StoredReceipts, rowVars,
         blockRows, receiptRows
<1>6. CASE SaveTransactionFails
  BY <1>6, <1>0, InsertKeeps
     DEF SaveTransactionFails, RowsKept, RowsTypeOK, StoredBlocks, StoredTxs,
         StoredOpTables, StoredOps, StoredReceipts, rowVars,
         blockRows, receiptRows
<1>7. CASE SaveOperation
  BY <1>7, <1>0, InsertKeeps
     DEF SaveOperation, RowsKept, RowsTypeOK, StoredBlocks, StoredTxs, StoredOpTables,
         StoredOps, StoredReceipts, rowVars,
         blockRows, receiptRows
<1>8. CASE SaveBaseOperation
  BY <1>8, <1>0, InsertKeeps
     DEF SaveBaseOperation, RowsKept, RowsTypeOK, StoredBlocks, StoredTxs,
         StoredOpTables, StoredOps, StoredReceipts, rowVars,
         blockRows, receiptRows
<1>9. CASE ApplyPluginsToOperation
  BY <1>9, <1>0, InsertKeeps
     DEF ApplyPluginsToOperation, RowsKept, RowsTypeOK, StoredBlocks, StoredTxs,
         StoredOpTables, StoredOps, StoredReceipts, rowVars,
         blockRows, receiptRows
<1>10. CASE SaveContractOpReceipt
  BY <1>10, <1>0, InsertKeeps
     DEF SaveContractOpReceipt, RowsKept, RowsTypeOK, StoredBlocks, StoredTxs,
         StoredOpTables, StoredOps, StoredReceipts, rowVars,
         blockRows, receiptRows
<1>11. CASE SaveReceiptEvent
  BY <1>11, <1>0, InsertKeeps
     DEF SaveReceiptEvent, RowsKept, RowsTypeOK, StoredBlocks, StoredTxs,
         StoredOpTables, StoredOps, StoredReceipts, rowVars,
         blockRows, receiptRows
<1>12. CASE UNCHANGED rowVars
  BY <1>12, <1>0
     DEF RowsKept, RowsTypeOK, StoredBlocks, StoredTxs, StoredOpTables, StoredOps,
         StoredReceipts, rowVars,
         blockRows, receiptRows
<1> QED
  BY <1>1, <1>2, <1>3, <1>4, <1>5, <1>6, <1>7, <1>8, <1>9, <1>10, <1>11, <1>12,
     OnlyRowWrites
     DEF RowWrite

\* The operations the loop reaches are operations of the transaction.
LEMMA ReachedFacts ==
    ASSUME NEW x \in Txids
    PROVE  /\ Reached(x) \subseteq DOMAIN Ops[x]
           /\ \A j \in Reached(x) : <<x, j>> \in ReachedOps
BY TransactionFacts DEF Reached, ReachedOps, OpKeys

\* Hence what is complete stays complete.
LEMMA DoneKept ==
    ASSUME RowsKept
    PROVE  /\ DoneOps \subseteq DoneOps'
           /\ AccountedTxs \subseteq AccountedTxs'
           /\ BlocksDone \subseteq BlocksDone'
           /\ lost' \subseteq AccountedTxs'
<1>1. DoneOps \subseteq DoneOps'
  BY DEF RowsKept, DoneOps
<1>2. ASSUME NEW x \in Txids, TransactionDone(x) PROVE TransactionDone(x)'
  <2>1. (transactions[x] > 0)'
    BY <1>2 DEF TransactionDone, RowsKept, StoredTxs
  <2>2. ASSUME NEW j \in Reached(x) PROVE OperationDone(x, j)'
    <3>1. <<x, j>> \in OpKeys /\ OperationDone(x, j)
      BY <1>2, ReachedFacts DEF TransactionDone, ReachedOps
    <3> QED
      BY <3>1 DEF OperationDone, RowsKept, StoredOpTables, StoredOps
  <2>3. ReceiptsStored(x)'
    <3>1. ASSUME CheckTransactionHasContractOp(x), NEW i \in DOMAIN Receipts[x]
          PROVE  (opReceipts[<<x, Receipts[x][i].op_num>>] > 0)'
      <4>1. <<x, Receipts[x][i].op_num>> \in OpKeys
        BY TransactionFacts DEF OpKeys
      <4> QED
        BY <1>2, <3>1, <4>1
           DEF TransactionDone, ReceiptsStored, RowsKept, StoredReceipts
    <3> QED
      BY <3>1 DEF ReceiptsStored
  <2> QED
    BY <2>1, <2>2, <2>3 DEF TransactionDone
<1>3. AccountedTxs \subseteq AccountedTxs'
  BY <1>2 DEF AccountedTxs, RowsKept
<1>4. ASSUME NEW b \in Heights, BlockDone(b) PROVE BlockDone(b)'
  <2>1. (blocks[b] > 0)'
    BY <1>4 DEF BlockDone, RowsKept, StoredBlocks
  <2>2. ASSUME NEW i \in DOMAIN Chain[b]
        PROVE  (Chain[b][i] \in lost \/ TransactionDone(Chain[b][i]))'
    BY <1>2, <1>4, ChainFacts DEF BlockDone, RowsKept
  <2> QED
    BY <2>1, <2>2 DEF BlockDone
<1>5. BlocksDone \subseteq BlocksDone'
  BY <1>4 DEF BlocksDone
<1>6. lost' \subseteq AccountedTxs'
  BY DEF AccountedTxs
<1> QED
  BY <1>1, <1>3, <1>5, <1>6

\* When a transaction and a block are complete, said with the sets.
LEMMA AccountedWhen ==
    ASSUME NEW x \in Txids,
           x \in StoredTxs,
           \A j \in Reached(x) : <<x, j>> \in DoneOps,
           x \in ContractTxs =>
               \A i \in DOMAIN Receipts[x] : <<x, Receipts[x][i].op_num>> \in
                  StoredReceipts
    PROVE  x \in AccountedTxs
<1>1. ReceiptsStored(x)
  BY DEF ReceiptsStored, ContractTxs, StoredReceipts
<1>2. \A j \in Reached(x) : OperationDone(x, j)
  BY DEF OperationDone, DoneOps, StoredOpTables, StoredOps
<1> QED
  BY <1>1, <1>2 DEF AccountedTxs, TransactionDone, StoredTxs

\* A block whose row is stored and whose transactions are all accounted for
\* is done.
LEMMA BlockDoneWhen ==
    ASSUME NEW b \in Heights,
           b \in StoredBlocks,
           \A i \in DOMAIN Chain[b] : Chain[b][i] \in AccountedTxs
    PROVE  b \in BlocksDone
BY DEF BlocksDone, BlockDone, StoredBlocks, AccountedTxs
-----------------------------------------------------------------------------
(* What the scan has done so far.  CheckpointComplete speaks of the blocks  *)
(* below the checkpoint only; it is inductive together with what is known   *)
(* of the blocks below n, of the transactions of block n below t, of the    *)
(* operations below o and of the receipts below r.                          *)

CheckpointScanned ==
    \A c \in checkpoints : \A b \in waived + 1 .. c : b \in BlocksDone

BlocksScanned == pc # "down" => \A b \in waived + 1 .. n - 1 : b \in BlocksDone

TransactionsScanned ==
    /\ pc \in BlockPcs \ {"block"} => n \in StoredBlocks
    /\ pc \in TxPcs \cup {"tx"} =>
          \A i \in DOMAIN Chain[n] : i < t => Chain[n][i] \in AccountedTxs
    /\ pc = "mark" => \A i \in DOMAIN Chain[n] : Chain[n][i] \in AccountedTxs

OperationsScanned ==
    /\ pc \in TxPcs \ {"txRow"} => Tx \in StoredTxs
    /\ pc \in {"op", "base", "plugins"} =>
          \A j \in Reached(Tx) : j < o => <<Tx, j>> \in DoneOps
    /\ pc \in {"base", "plugins"} => Key \in StoredOpTables
    /\ pc = "plugins" => Key \in StoredOps
    /\ pc \in {"receipts", "events"} =>
          Tx \in lost \/ \A j \in Reached(Tx) : <<Tx, j>> \in DoneOps

ReceiptsScanned ==
    /\ pc \in TxPcs => (Tx \in ContractTxs => got \/ Tx \in lost)
    /\ pc \in {"receipts", "events"} =>
          \A i \in DOMAIN Receipts[Tx] : i < r /\ got =>
              <<Tx, Receipts[Tx][i].op_num>> \in StoredReceipts
    /\ pc = "events" => ReceiptKey \in StoredReceipts

ScanInv ==
    /\ CheckpointScanned
    /\ BlocksScanned
    /\ TransactionsScanned
    /\ OperationsScanned
    /\ ReceiptsScanned

\* Every step keeps what is known of the transactions of block n: one is left
\* behind only when it is done or abandoned.
LEMMA TransactionsScannedStep == TypeInv /\ ScanInv /\ [Next]_vars =>
      TransactionsScanned'
<1> SUFFICES ASSUME TypeInv, ScanInv, [Next]_vars PROVE TransactionsScanned'
  OBVIOUS
<1>a. IndexesInRange /\ RowsTypeOK /\ ScanTypeOK
  BY DEF TypeInv, TypeOK
<1>0. /\ RowsKept
      /\ DoneOps \subseteq DoneOps'
      /\ AccountedTxs \subseteq AccountedTxs'
      /\ BlocksDone \subseteq BlocksDone'
      /\ lost' \subseteq AccountedTxs'
      /\ lost \subseteq AccountedTxs
  BY RowsKeptStep, DoneKept DEF AccountedTxs
<1>1. CASE Start
  BY <1>1, <1>0, ChainFacts
     DEF Start, ScanInv, TransactionsScanned, RowsKept, BlockPcs, TxPcs,
         scanVars, indexVars
<1>2. CASE Interrupt
  BY <1>2, <1>0, ChainFacts
     DEF Interrupt, ScanInv, TransactionsScanned, RowsKept, BlockPcs, TxPcs, scanVars,
         indexVars
<1>3. CASE CloseHxNodeConn
  BY <1>3, <1>0, ChainFacts
     DEF CloseHxNodeConn, ScanInv, TransactionsScanned, RowsKept, BlockPcs, TxPcs,
         scanVars, indexVars
<1>4. CASE ProcessEnds
  BY <1>4, <1>0, ChainFacts
     DEF ProcessEnds, ScanInv, TransactionsScanned, RowsKept, BlockPcs, TxPcs, scanVars,
         indexVars
<1>5. CASE NodeProducesBlock
  BY <1>5, <1>0, ChainFacts
     DEF NodeProducesBlock, ScanInv, TransactionsScanned, RowsKept, BlockPcs, TxPcs,
         scanVars, indexVars
<1>6. CASE LoopHead
  BY <1>6, <1>0, ChainFacts
     DEF LoopHead, ScanInv, TransactionsScanned, RowsKept, BlockPcs, TxPcs, scanVars,
         indexVars
<1>7. CASE GetBlock
  BY <1>7, <1>0, ChainFacts
     DEF GetBlock, ScanInv, TransactionsScanned, RowsKept, BlockPcs, TxPcs, scanVars,
         indexVars
<1>8. CASE GetBlockFails
  BY <1>8, <1>0, ChainFacts
     DEF GetBlockFails, ScanInv, TransactionsScanned, RowsKept, BlockPcs, TxPcs,
         scanVars, indexVars
<1>9. CASE UpdateLastScannedAtHead
  BY <1>9, <1>0, ChainFacts
     DEF UpdateLastScannedAtHead, HeadCheckpoint, ScanInv, TransactionsScanned,
         RowsKept, BlockPcs, TxPcs, scanVars, indexVars
<1>10. CASE SaveBlock
  <2>1. n \in Heights /\ n \in StoredBlocks'
    BY <1>10, <1>a, InsertKeeps
       DEF SaveBlock, IndexesInRange, BlockPcs, RowsTypeOK, StoredBlocks, Found
  <2> QED
    BY <1>10, <2>1 DEF SaveBlock, TransactionsScanned, BlockPcs, TxPcs
<1>11. CASE SaveBlockFails
  BY <1>11, <1>0, ChainFacts
     DEF SaveBlockFails, ScanInv, TransactionsScanned, RowsKept, BlockPcs, TxPcs,
         scanVars, indexVars
<1>12. CASE UpdatePreviousBlockHash
  <2>1. pc = "previous" /\ pc' = "tx" /\ n' = n /\ t' = 1
    BY <1>12 DEF UpdatePreviousBlockHash
  <2>2. n \in StoredBlocks' /\ n \in Heights
    BY <1>0, <2>1
       DEF ScanInv, TransactionsScanned, RowsKept, BlockPcs, TypeInv, IndexesInRange
  <2>3. \A i \in DOMAIN Chain[n] : ~(i < 1)
    BY <2>2, ChainFacts
  <2> QED
    BY <2>1, <2>2, <2>3 DEF TransactionsScanned, TxPcs
<1>13. CASE UpdatePreviousBlockHashFails
  BY <1>13, <1>0, ChainFacts
     DEF UpdatePreviousBlockHashFails, ScanInv, TransactionsScanned, RowsKept, BlockPcs,
         TxPcs, scanVars, indexVars
<1>14. CASE GetTxReceipts
  BY <1>14, <1>0, ChainFacts
     DEF GetTxReceipts, ScanInv, TransactionsScanned, RowsKept, BlockPcs, TxPcs,
         scanVars, indexVars
<1>15. CASE GetTxReceiptsFails
  <2>1. n' = n /\ n \in Heights /\ t \in Nat /\ pc' = "mark"
    BY <1>15, <1>a
       DEF GetTxReceiptsFails, AbandonBlock, IndexesInRange, BlockPcs, ScanTypeOK
  <2>2. ASSUME NEW i \in DOMAIN Chain[n], i < t PROVE Chain[n][i] \in AccountedTxs'
    BY <1>15, <1>0, <2>2 DEF GetTxReceiptsFails, ScanInv, TransactionsScanned, TxPcs
  <2>3. ASSUME NEW i \in DOMAIN Chain[n], ~(i < t) PROVE Chain[n][i] \in AccountedTxs'
    <3>1. i \in t .. Len(Chain[n])
      BY <2>1, <2>3, ChainFacts
    <3> QED
      BY <1>15, <1>0, <3>1 DEF GetTxReceiptsFails, AbandonBlock
  <2>4. n \in StoredBlocks'
    BY <1>15, <1>0
       DEF GetTxReceiptsFails, ScanInv, TransactionsScanned, BlockPcs, RowsKept
  <2> QED
    BY <2>1, <2>2, <2>3, <2>4 DEF TransactionsScanned, TxPcs
<1>16. CASE SaveTransaction
  BY <1>16, <1>0, ChainFacts
     DEF SaveTransaction, ScanInv, TransactionsScanned, RowsKept, BlockPcs, TxPcs,
         scanVars, indexVars
<1>17. CASE SaveTransactionFails
  <2>1. n' = n /\ n \in Heights /\ t \in Nat /\ pc' = "mark"
    BY <1>17, <1>a
       DEF SaveTransactionFails, AbandonBlock, IndexesInRange, BlockPcs, ScanTypeOK
  <2>2. ASSUME NEW i \in DOMAIN Chain[n], i < t PROVE Chain[n][i] \in AccountedTxs'
    BY <1>17, <1>0, <2>2 DEF SaveTransactionFails, ScanInv, TransactionsScanned, TxPcs
  <2>3. ASSUME NEW i \in DOMAIN Chain[n], ~(i < t) PROVE Chain[n][i] \in AccountedTxs'
    <3>1. i \in t .. Len(Chain[n])
      BY <2>1, <2>3, ChainFacts
    <3> QED
      BY <1>17, <1>0, <3>1 DEF SaveTransactionFails, AbandonBlock
  <2>4. n \in StoredBlocks'
    BY <1>17, <1>0
       DEF SaveTransactionFails, ScanInv, TransactionsScanned, BlockPcs, RowsKept
  <2> QED
    BY <2>1, <2>2, <2>3, <2>4 DEF TransactionsScanned, TxPcs
<1>18. CASE TransactionsDone
  <2>1. ASSUME NEW i \in DOMAIN Chain[n] PROVE Chain[n][i] \in AccountedTxs'
    <3>1. i < t
      BY <1>18, <1>a, ChainFacts
         DEF TransactionsDone, IndexesInRange, BlockPcs, ScanTypeOK
    <3> QED
      BY <1>18, <1>0, <3>1 DEF TransactionsDone, ScanInv, TransactionsScanned
  <2>2. n \in StoredBlocks'
    BY <1>18, <1>0
       DEF TransactionsDone, ScanInv, TransactionsScanned, BlockPcs, RowsKept
  <2> QED
    BY <1>18, <2>1, <2>2 DEF TransactionsDone, TransactionsScanned, TxPcs
<1>19. CASE OpTypeUnknown
  BY <1>19, <1>0, ChainFacts
     DEF OpTypeUnknown, LeaveOpLoop, ScanInv, TransactionsScanned, RowsKept, BlockPcs,
         TxPcs, scanVars, indexVars
<1>20. CASE SaveOperation
  BY <1>20, <1>0, ChainFacts
     DEF SaveOperation, ScanInv, TransactionsScanned, RowsKept, BlockPcs, TxPcs,
         scanVars, indexVars
<1>21. CASE SaveBaseOperation
  BY <1>21, <1>0, ChainFacts
     DEF SaveBaseOperation, ScanInv, TransactionsScanned, RowsKept, BlockPcs, TxPcs,
         scanVars, indexVars
<1>22. CASE FindOperationFails
  BY <1>22, <1>0, ChainFacts
     DEF FindOperationFails, LeaveOpLoop, ScanInv, TransactionsScanned, RowsKept,
         BlockPcs, TxPcs, scanVars, indexVars
<1>23. CASE ApplyPluginsToOperation
  BY <1>23, <1>0, ChainFacts
     DEF ApplyPluginsToOperation, ScanInv, TransactionsScanned, RowsKept, BlockPcs,
         TxPcs, scanVars, indexVars
<1>24. CASE OpsDone
  BY <1>24, <1>0, ChainFacts
     DEF OpsDone, LeaveOpLoop, ScanInv, TransactionsScanned, RowsKept, BlockPcs, TxPcs,
         scanVars, indexVars
<1>25. CASE FindContractOpReceipt
  BY <1>25, <1>0, ChainFacts
     DEF FindContractOpReceipt, ScanInv, TransactionsScanned, RowsKept, BlockPcs, TxPcs,
         scanVars, indexVars
<1>26. CASE SaveContractOpReceipt
  BY <1>26, <1>0, ChainFacts
     DEF SaveContractOpReceipt, ScanInv, TransactionsScanned, RowsKept, BlockPcs, TxPcs,
         scanVars, indexVars
<1>27. CASE SaveReceiptEvent
  BY <1>27, <1>0, ChainFacts
     DEF SaveReceiptEvent, ScanInv, TransactionsScanned, RowsKept, BlockPcs, TxPcs,
         scanVars, indexVars
<1>28. CASE EventsDone
  BY <1>28, <1>0, ChainFacts
     DEF EventsDone, ScanInv, TransactionsScanned, RowsKept, BlockPcs, TxPcs, scanVars,
         indexVars
<1>29. CASE ReceiptsDone
  <2>1. Tx \in Txids
    BY <1>29, KeysInRange DEF ReceiptsDone, TxPcs
  <2>2. Tx \in AccountedTxs
    <3>1. CASE Tx \in lost
      BY <3>1, <1>0
    <3>2. CASE Tx \notin lost
      <4>1. Tx \in StoredTxs /\ \A j \in Reached(Tx) : <<Tx, j>> \in DoneOps
        BY <1>29, <3>2 DEF ReceiptsDone, ScanInv, OperationsScanned, TxPcs
      <4>2. ASSUME Tx \in ContractTxs, NEW i \in DOMAIN Receipts[Tx]
            PROVE  <<Tx, Receipts[Tx][i].op_num>> \in StoredReceipts
        <5>1. got /\ i < r
          BY <1>29, <1>a, <2>1, <3>2, <4>2, TransactionFacts
             DEF ReceiptsDone, ScanInv, ReceiptsScanned, TxPcs, ScanTypeOK
        <5> QED
          BY <1>29, <4>2, <5>1 DEF ReceiptsDone, ScanInv, ReceiptsScanned
      <4> QED
        BY <2>1, <4>1, <4>2, AccountedWhen
    <3> QED
      BY <3>1, <3>2
  <2>3. ASSUME NEW i \in DOMAIN Chain[n], i < t + 1 PROVE Chain[n][i] \in AccountedTxs'
    <3>1. i < t \/ i = t
      BY <1>29, <2>3, <1>a, ChainFacts
         DEF ReceiptsDone, IndexesInRange, BlockPcs, ScanTypeOK
    <3> QED
      BY <1>29, <1>0, <2>2, <3>1
         DEF ReceiptsDone, ScanInv, TransactionsScanned, TxPcs, Tx
  <2>4. n \in StoredBlocks'
    BY <1>29, <1>0 DEF ReceiptsDone, ScanInv, TransactionsScanned, BlockPcs, RowsKept
  <2> QED
    BY <1>29, <2>3, <2>4 DEF ReceiptsDone, TransactionsScanned, TxPcs
<1>30. CASE FinishBlock
  BY <1>30, <1>0, ChainFacts
     DEF FinishBlock, NextBlock, ScanInv, TransactionsScanned, RowsKept, BlockPcs,
         TxPcs, scanVars, indexVars
<1>31. CASE UNCHANGED vars
  BY <1>31, <1>0
     DEF ScanInv, TransactionsScanned, RowsKept, BlockPcs, TxPcs, scanVars, indexVars,
         vars
<1> QED
  BY <1>1, <1>2, <1>3, <1>4, <1>5, <1>6, <1>7, <1>8, <1>9, <1>10, <1>11, <1>12, <1>13,
     <1>14, <1>15, <1>16, <1>17, <1>18, <1>19, <1>20, <1>21, <1>22, <1>23, <1>24, <1>25,
     <1>26, <1>27, <1>28, <1>29, <1>30, <1>31
     DEF Next, ScanStep

\* Every step keeps what is known of the operations of the transaction: the
\* loop is left early only on an unknown type or with the transaction abandoned.
LEMMA OperationsScannedStep == TypeInv /\ ScanInv /\ [Next]_vars => OperationsScanned'
<1> SUFFICES ASSUME TypeInv, ScanInv, [Next]_vars PROVE OperationsScanned'
  OBVIOUS
<1>a. IndexesInRange /\ RowsTypeOK /\ ScanTypeOK
  BY DEF TypeInv, TypeOK
<1>0. /\ RowsKept
      /\ DoneOps \subseteq DoneOps'
      /\ AccountedTxs \subseteq AccountedTxs'
      /\ BlocksDone \subseteq BlocksDone'
      /\ lost' \subseteq AccountedTxs'
      /\ lost \subseteq AccountedTxs
  BY RowsKeptStep, DoneKept DEF AccountedTxs
<1>1. CASE Start
  BY <1>1, <1>0, KeysInRange
     DEF Start, ScanInv, OperationsScanned, RowsKept, TxPcs, Tx, Key,
         scanVars, indexVars
<1>2. CASE Interrupt
  BY <1>2, <1>0, KeysInRange
     DEF Interrupt, ScanInv, OperationsScanned, RowsKept, TxPcs, Tx, Key, scanVars,
         indexVars
<1>3. CASE CloseHxNodeConn
  BY <1>3, <1>0, KeysInRange
     DEF CloseHxNodeConn, ScanInv, OperationsScanned, RowsKept, TxPcs, Tx, Key,
         scanVars, indexVars
<1>4. CASE ProcessEnds
  BY <1>4, <1>0, KeysInRange
     DEF ProcessEnds, ScanInv, OperationsScanned, RowsKept, TxPcs, Tx, Key, scanVars,
         indexVars
<1>5. CASE NodeProducesBlock
  BY <1>5, <1>0, KeysInRange
     DEF NodeProducesBlock, ScanInv, OperationsScanned, RowsKept, TxPcs, Tx, Key,
         scanVars, indexVars
<1>6. CASE LoopHead
  BY <1>6, <1>0, KeysInRange
     DEF LoopHead, ScanInv, OperationsScanned, RowsKept, TxPcs, Tx, Key, scanVars,
         indexVars
<1>7. CASE GetBlock
  BY <1>7, <1>0, KeysInRange
     DEF GetBlock, ScanInv, OperationsScanned, RowsKept, TxPcs, Tx, Key, scanVars,
         indexVars
<1>8. CASE GetBlockFails
  BY <1>8, <1>0, KeysInRange
     DEF GetBlockFails, ScanInv, OperationsScanned, RowsKept, TxPcs, Tx, Key, scanVars,
         indexVars
<1>9. CASE UpdateLastScannedAtHead
  BY <1>9, <1>0, KeysInRange
     DEF UpdateLastScannedAtHead, HeadCheckpoint, ScanInv, OperationsScanned, RowsKept,
         TxPcs, Tx, Key, scanVars, indexVars
<1>10. CASE SaveBlock
  BY <1>10, <1>0, KeysInRange
     DEF SaveBlock, ScanInv, OperationsScanned, RowsKept, TxPcs, Tx, Key, scanVars,
         indexVars
<1>11. CASE SaveBlockFails
  BY <1>11, <1>0, KeysInRange
     DEF SaveBlockFails, ScanInv, OperationsScanned, RowsKept, TxPcs, Tx, Key, scanVars,
         indexVars
<1>12. CASE UpdatePreviousBlockHash
  BY <1>12, <1>0, KeysInRange
     DEF UpdatePreviousBlockHash, ScanInv, OperationsScanned, RowsKept, TxPcs, Tx, Key,
         scanVars, indexVars
<1>13. CASE UpdatePreviousBlockHashFails
  BY <1>13, <1>0, KeysInRange
     DEF UpdatePreviousBlockHashFails, ScanInv, OperationsScanned, RowsKept, TxPcs, Tx,
         Key, scanVars, indexVars
<1>14. CASE GetTxReceipts
  BY <1>14, <1>0, KeysInRange
     DEF GetTxReceipts, ScanInv, OperationsScanned, RowsKept, TxPcs, Tx, Key, scanVars,
         indexVars
<1>15. CASE GetTxReceiptsFails
  BY <1>15, <1>0, KeysInRange
     DEF GetTxReceiptsFails, AbandonBlock, ScanInv, OperationsScanned, RowsKept, TxPcs,
         Tx, Key, scanVars, indexVars
<1>16. CASE SaveTransaction
  <2>1. Tx \in Txids
    BY <1>16, KeysInRange DEF SaveTransaction, TxPcs
  <2>2. Tx \in StoredTxs'
    BY <1>16, <1>a, <2>1, InsertKeeps DEF SaveTransaction, RowsTypeOK, StoredTxs
  <2>3. \A j \in Reached(Tx) : ~(j < 1)
    BY <2>1, ReachedFacts, TransactionFacts
  <2> QED
    BY <1>16, <2>2, <2>3 DEF SaveTransaction, OperationsScanned, TxPcs, Tx
<1>17. CASE SaveTransactionFails
  BY <1>17, <1>0, KeysInRange
     DEF SaveTransactionFails, AbandonBlock, ScanInv, OperationsScanned, RowsKept,
         TxPcs, Tx, Key, scanVars, indexVars
<1>18. CASE TransactionsDone
  BY <1>18, <1>0, KeysInRange
     DEF TransactionsDone, ScanInv, OperationsScanned, RowsKept, TxPcs, Tx, Key,
         scanVars, indexVars
<1>19. CASE OpTypeUnknown
  <2>1. Tx \in Txids /\ o \in DOMAIN Ops[Tx]
    BY <1>19, KeysInRange DEF OpTypeUnknown, TxPcs
  <2>2. ASSUME NEW j \in Reached(Tx) PROVE <<Tx, j>> \in DoneOps
    <3>1. ~(o \in 1 .. j)
      BY <1>19 DEF OpTypeUnknown, Reached
    <3>2. j < o
      BY <2>1, <3>1, ReachedFacts, TransactionFacts
    <3> QED
      BY <1>19, <3>2 DEF OpTypeUnknown, ScanInv, OperationsScanned
  <2>3. Tx \in StoredTxs
    BY <1>19 DEF OpTypeUnknown, ScanInv, OperationsScanned, TxPcs
  <2> QED
    BY <1>19, <1>0, <2>2, <2>3
       DEF OpTypeUnknown, LeaveOpLoop, OperationsScanned, RowsKept, TxPcs, Tx
<1>20. CASE SaveOperation
  <2>1. Key \in OpKeys
    BY <1>20, KeysInRange DEF SaveOperation
  <2>2. Key \in StoredOpTables'
    BY <1>20, <1>a, <2>1, InsertKeeps DEF SaveOperation, RowsTypeOK, StoredOpTables
  <2>3. Tx \in StoredTxs /\ \A j \in Reached(Tx) : j < o => <<Tx, j>> \in DoneOps
    BY <1>20 DEF SaveOperation, ScanInv, OperationsScanned, TxPcs
  <2> QED
    BY <1>20, <1>0, <2>2, <2>3
       DEF SaveOperation, OperationsScanned, RowsKept, TxPcs, Tx, Key, indexVars
<1>21. CASE SaveBaseOperation
  <2>1. Key \in OpKeys
    BY <1>21, KeysInRange DEF SaveBaseOperation
  <2>2. Key \in StoredOps'
    BY <1>21, <1>a, <2>1, InsertKeeps DEF SaveBaseOperation, RowsTypeOK, StoredOps
  <2>3. /\ Tx \in StoredTxs /\ Key \in StoredOpTables
        /\ \A j \in Reached(Tx) : j < o => <<Tx, j>> \in DoneOps
    BY <1>21 DEF SaveBaseOperation, ScanInv, OperationsScanned, TxPcs
  <2> QED
    BY <1>21, <1>0, <2>2, <2>3
       DEF SaveBaseOperation, OperationsScanned, RowsKept, TxPcs, Tx, Key, indexVars
<1>22. CASE FindOperationFails
  BY <1>22, <1>0, KeysInRange
     DEF FindOperationFails, LeaveOpLoop, ScanInv, OperationsScanned, RowsKept, TxPcs,
         Tx, Key, scanVars, indexVars
<1>23. CASE ApplyPluginsToOperation
  <2>1. /\ Tx \in StoredTxs /\ Key \in StoredOpTables /\ Key \in StoredOps
        /\ \A j \in Reached(Tx) : j < o => <<Tx, j>> \in DoneOps
    BY <1>23 DEF ApplyPluginsToOperation, ScanInv, OperationsScanned, TxPcs
  <2>2. <<Tx, o>> \in DoneOps'
    BY <1>23, <1>0, <2>1 DEF ApplyPluginsToOperation, DoneOps, RowsKept, Key
  <2>3. Tx \in Txids
    BY <1>23, KeysInRange DEF ApplyPluginsToOperation, TxPcs
  <2>4. ASSUME NEW j \in Reached(Tx), j < o + 1 PROVE <<Tx, j>> \in DoneOps'
    <3>1. j < o \/ j = o
      BY <1>a, <2>3, <2>4, ReachedFacts, TransactionFacts DEF ScanTypeOK
    <3> QED
      BY <1>0, <2>1, <2>2, <3>1
  <2> QED
    BY <1>23, <1>0, <2>1, <2>4
       DEF ApplyPluginsToOperation, OperationsScanned, RowsKept, TxPcs, Tx
<1>24. CASE OpsDone
  <2>1. Tx \in Txids
    BY <1>24, KeysInRange DEF OpsDone, TxPcs
  <2>2. ASSUME NEW j \in Reached(Tx) PROVE <<Tx, j>> \in DoneOps
    <3>1. j < o
      BY <1>24, <1>a, <2>1, ReachedFacts, TransactionFacts DEF OpsDone, ScanTypeOK
    <3> QED
      BY <1>24, <3>1 DEF OpsDone, ScanInv, OperationsScanned
  <2>3. Tx \in StoredTxs
    BY <1>24 DEF OpsDone, ScanInv, OperationsScanned, TxPcs
  <2> QED
    BY <1>24, <1>0, <2>2, <2>3
       DEF OpsDone, LeaveOpLoop, OperationsScanned, RowsKept, TxPcs, Tx
<1>25. CASE FindContractOpReceipt
  BY <1>25, <1>0, KeysInRange
     DEF FindContractOpReceipt, ScanInv, OperationsScanned, RowsKept, TxPcs, Tx, Key,
         scanVars, indexVars
<1>26. CASE SaveContractOpReceipt
  BY <1>26, <1>0, KeysInRange
     DEF SaveContractOpReceipt, ScanInv, OperationsScanned, RowsKept, TxPcs, Tx, Key,
         scanVars, indexVars
<1>27. CASE SaveReceiptEvent
  BY <1>27, <1>0, KeysInRange
     DEF SaveReceiptEvent, ScanInv, OperationsScanned, RowsKept, TxPcs, Tx, Key,
         scanVars, indexVars
<1>28. CASE EventsDone
  BY <1>28, <1>0, KeysInRange
     DEF EventsDone, ScanInv, OperationsScanned, RowsKept, TxPcs, Tx, Key, scanVars,
         indexVars
<1>29. CASE ReceiptsDone
  BY <1>29, <1>0, KeysInRange
     DEF ReceiptsDone, ScanInv, OperationsScanned, RowsKept, TxPcs, Tx, Key, scanVars,
         indexVars
<1>30. CASE FinishBlock
  BY <1>30, <1>0, KeysInRange
     DEF FinishBlock, NextBlock, ScanInv, OperationsScanned, RowsKept, TxPcs, Tx, Key,
         scanVars, indexVars
<1>31. CASE UNCHANGED vars
  BY <1>31, <1>0
     DEF ScanInv, OperationsScanned, RowsKept, TxPcs, Tx, Key, scanVars, indexVars, vars
<1> QED
  BY <1>1, <1>2, <1>3, <1>4, <1>5, <1>6, <1>7, <1>8, <1>9, <1>10, <1>11, <1>12, <1>13,
     <1>14, <1>15, <1>16, <1>17, <1>18, <1>19, <1>20, <1>21, <1>22, <1>23, <1>24, <1>25,
     <1>26, <1>27, <1>28, <1>29, <1>30, <1>31
     DEF Next, ScanStep

\* Every step keeps what is known of the receipts of the transaction.
LEMMA ReceiptsScannedStep == TypeInv /\ ScanInv /\ [Next]_vars => ReceiptsScanned'
<1> SUFFICES ASSUME TypeInv, ScanInv, [Next]_vars PROVE ReceiptsScanned'
  OBVIOUS
<1>a. IndexesInRange /\ RowsTypeOK /\ ScanTypeOK
  BY DEF TypeInv, TypeOK
<1>0. /\ RowsKept
      /\ DoneOps \subseteq DoneOps'
      /\ AccountedTxs \subseteq AccountedTxs'
      /\ BlocksDone \subseteq BlocksDone'
      /\ lost' \subseteq AccountedTxs'
      /\ lost \subseteq AccountedTxs
  BY RowsKeptStep, DoneKept DEF AccountedTxs
<1>1. CASE Start
  BY <1>1, <1>0, KeysInRange
     DEF Start, ScanInv, ReceiptsScanned, RowsKept, TxPcs, Tx, ReceiptKey,
         Receipt, scanVars, indexVars
<1>2. CASE Interrupt
  BY <1>2, <1>0, KeysInRange
     DEF Interrupt, ScanInv, ReceiptsScanned, RowsKept, TxPcs, Tx, ReceiptKey, Receipt,
         scanVars, indexVars
<1>3. CASE CloseHxNodeConn
  BY <1>3, <1>0, KeysInRange
     DEF CloseHxNodeConn, ScanInv, ReceiptsScanned, RowsKept, TxPcs, Tx, ReceiptKey,
         Receipt, scanVars, indexVars
<1>4. CASE ProcessEnds
  BY <1>4, <1>0, KeysInRange
     DEF ProcessEnds, ScanInv, ReceiptsScanned, RowsKept, TxPcs, Tx, ReceiptKey,
         Receipt, scanVars, indexVars
<1>5. CASE NodeProducesBlock
  BY <1>5, <1>0, KeysInRange
     DEF NodeProducesBlock, ScanInv, ReceiptsScanned, RowsKept, TxPcs, Tx, ReceiptKey,
         Receipt, scanVars, indexVars
<1>6. CASE LoopHead
  BY <1>6, <1>0, KeysInRange
     DEF LoopHead, ScanInv, ReceiptsScanned, RowsKept, TxPcs, Tx, ReceiptKey, Receipt,
         scanVars, indexVars
<1>7. CASE GetBlock
  BY <1>7, <1>0, KeysInRange
     DEF GetBlock, ScanInv, ReceiptsScanned, RowsKept, TxPcs, Tx, ReceiptKey, Receipt,
         scanVars, indexVars
<1>8. CASE GetBlockFails
  BY <1>8, <1>0, KeysInRange
     DEF GetBlockFails, ScanInv, ReceiptsScanned, RowsKept, TxPcs, Tx, ReceiptKey,
         Receipt, scanVars, indexVars
<1>9. CASE UpdateLastScannedAtHead
  BY <1>9, <1>0, KeysInRange
     DEF UpdateLastScannedAtHead, HeadCheckpoint, ScanInv, ReceiptsScanned, RowsKept,
         TxPcs, Tx, ReceiptKey, Receipt, scanVars, indexVars
<1>10. CASE SaveBlock
  BY <1>10, <1>0, KeysInRange
     DEF SaveBlock, ScanInv, ReceiptsScanned, RowsKept, TxPcs, Tx, ReceiptKey, Receipt,
         scanVars, indexVars
<1>11. CASE SaveBlockFails
  BY <1>11, <1>0, KeysInRange
     DEF SaveBlockFails, ScanInv, ReceiptsScanned, RowsKept, TxPcs, Tx, ReceiptKey,
         Receipt, scanVars, indexVars
<1>12. CASE UpdatePreviousBlockHash
  BY <1>12, <1>0, KeysInRange
     DEF UpdatePreviousBlockHash, ScanInv, ReceiptsScanned, RowsKept, TxPcs, Tx,
         ReceiptKey, Receipt, scanVars, indexVars
<1>13. CASE UpdatePreviousBlockHashFails
  BY <1>13, <1>0, KeysInRange
     DEF UpdatePreviousBlockHashFails, ScanInv, ReceiptsScanned, RowsKept, TxPcs, Tx,
         ReceiptKey, Receipt, scanVars, indexVars
<1>14. CASE GetTxReceipts
  <2>1. Tx \in ContractTxs => got' \/ Tx \in lost'
    BY <1>14 DEF GetTxReceipts, ContractTxs
  <2> QED
    BY <1>14, <2>1 DEF GetTxReceipts, ReceiptsScanned, TxPcs, Tx
<1>15. CASE GetTxReceiptsFails
  BY <1>15, <1>0, KeysInRange
     DEF GetTxReceiptsFails, AbandonBlock, ScanInv, ReceiptsScanned, RowsKept, TxPcs,
         Tx, ReceiptKey, Receipt, scanVars, indexVars
<1>16. CASE SaveTransaction
  BY <1>16, <1>0, KeysInRange
     DEF SaveTransaction, ScanInv, ReceiptsScanned, RowsKept, TxPcs, Tx, ReceiptKey,
         Receipt, scanVars, indexVars
<1>17. CASE SaveTransactionFails
  BY <1>17, <1>0, KeysInRange
     DEF SaveTransactionFails, AbandonBlock, ScanInv, ReceiptsScanned, RowsKept, TxPcs,
         Tx, ReceiptKey, Receipt, scanVars, indexVars
<1>18. CASE TransactionsDone
  BY <1>18, <1>0, KeysInRange
     DEF TransactionsDone, ScanInv, ReceiptsScanned, RowsKept, TxPcs, Tx, ReceiptKey,
         Receipt, scanVars, indexVars
<1>19. CASE OpTypeUnknown
  <2>1. Tx \in Txids
    BY <1>19, KeysInRange DEF OpTypeUnknown, TxPcs
  <2>2. \A i \in DOMAIN Receipts[Tx] : ~(i < 1)
    BY <2>1, TransactionFacts
  <2>3. Tx \in ContractTxs => got \/ Tx \in lost
    BY <1>19 DEF OpTypeUnknown, ScanInv, ReceiptsScanned, TxPcs
  <2> QED
    BY <1>19, <1>0, <2>2, <2>3
       DEF OpTypeUnknown, LeaveOpLoop, ReceiptsScanned, RowsKept, TxPcs, Tx
<1>20. CASE SaveOperation
  BY <1>20, <1>0, KeysInRange
     DEF SaveOperation, ScanInv, ReceiptsScanned, RowsKept, TxPcs, Tx, ReceiptKey,
         Receipt, scanVars, indexVars
<1>21. CASE SaveBaseOperation
  BY <1>21, <1>0, KeysInRange
     DEF SaveBaseOperation, ScanInv, ReceiptsScanned, RowsKept, TxPcs, Tx, ReceiptKey,
         Receipt, scanVars, indexVars
<1>22. CASE FindOperationFails
  <2>1. Tx \in Txids
    BY <1>22, KeysInRange DEF FindOperationFails, TxPcs
  <2>2. \A i \in DOMAIN Receipts[Tx] : ~(i < 1)
    BY <2>1, TransactionFacts
  <2>3. Tx \in ContractTxs => got \/ Tx \in lost
    BY <1>22 DEF FindOperationFails, ScanInv, ReceiptsScanned, TxPcs
  <2> QED
    BY <1>22, <1>0, <2>2, <2>3
       DEF FindOperationFails, LeaveOpLoop, ReceiptsScanned, RowsKept, TxPcs, Tx
<1>23. CASE ApplyPluginsToOperation
  BY <1>23, <1>0, KeysInRange
     DEF ApplyPluginsToOperation, ScanInv, ReceiptsScanned, RowsKept, TxPcs, Tx,
         ReceiptKey, Receipt, scanVars, indexVars
<1>24. CASE OpsDone
  <2>1. Tx \in Txids
    BY <1>24, KeysInRange DEF OpsDone, TxPcs
  <2>2. \A i \in DOMAIN Receipts[Tx] : ~(i < 1)
    BY <2>1, TransactionFacts
  <2>3. Tx \in ContractTxs => got \/ Tx \in lost
    BY <1>24 DEF OpsDone, ScanInv, ReceiptsScanned, TxPcs
  <2> QED
    BY <1>24, <1>0, <2>2, <2>3
       DEF OpsDone, LeaveOpLoop, ReceiptsScanned, RowsKept, TxPcs, Tx
<1>25. CASE FindContractOpReceipt
  <2>1. r \in DOMAIN Receipts[Tx] /\ ReceiptKey \in OpKeys /\ Tx \in Txids
    BY <1>25, KeysInRange DEF FindContractOpReceipt, TxPcs
  <2>2. <<Tx, Receipts[Tx][r].op_num>> \in StoredReceipts
    BY <1>25, <2>1
       DEF FindContractOpReceipt, FindResults, Found, StoredReceipts, ReceiptKey,
           Receipt
  <2>3. ASSUME NEW i \in DOMAIN Receipts[Tx], i < r + 1, got
        PROVE  <<Tx, Receipts[Tx][i].op_num>> \in StoredReceipts'
    <3>1. i < r \/ i = r
      BY <1>a, <2>1, <2>3, TransactionFacts DEF ScanTypeOK
    <3> QED
      BY <1>25, <1>0, <2>2, <2>3, <3>1
         DEF FindContractOpReceipt, ScanInv, ReceiptsScanned, RowsKept
  <2>4. Tx \in ContractTxs => got \/ Tx \in lost
    BY <1>25 DEF FindContractOpReceipt, ScanInv, ReceiptsScanned, TxPcs
  <2> QED
    BY <1>25, <1>0, <2>3, <2>4
       DEF FindContractOpReceipt, ReceiptsScanned, RowsKept, TxPcs, Tx
<1>26. CASE SaveContractOpReceipt
  <2>1. ReceiptKey \in OpKeys
    BY <1>26, KeysInRange DEF SaveContractOpReceipt
  <2>2. ReceiptKey \in StoredReceipts'
    BY <1>26, <1>a, <2>1, InsertKeeps
       DEF SaveContractOpReceipt, RowsTypeOK, StoredReceipts
  <2>3. /\ Tx \in ContractTxs => got \/ Tx \in lost
        /\ \A i \in DOMAIN Receipts[Tx] : i < r /\ got =>
              <<Tx, Receipts[Tx][i].op_num>> \in StoredReceipts
    BY <1>26 DEF SaveContractOpReceipt, ScanInv, ReceiptsScanned, TxPcs
  <2> QED
    BY <1>26, <1>0, <2>2, <2>3
       DEF SaveContractOpReceipt, ReceiptsScanned, RowsKept, TxPcs, Tx, ReceiptKey,
           Receipt
<1>27. CASE SaveReceiptEvent
  BY <1>27, <1>0, KeysInRange
     DEF SaveReceiptEvent, ScanInv, ReceiptsScanned, RowsKept, TxPcs, Tx, ReceiptKey,
         Receipt, scanVars, indexVars
<1>28. CASE EventsDone
  <2>1. r \in DOMAIN Receipts[Tx] /\ Tx \in Txids
    BY <1>28, KeysInRange DEF EventsDone, TxPcs
  <2>2. <<Tx, Receipts[Tx][r].op_num>> \in StoredReceipts
    BY <1>28 DEF EventsDone, ScanInv, ReceiptsScanned, ReceiptKey, Receipt
  <2>3. ASSUME NEW i \in DOMAIN Receipts[Tx], i < r + 1, got
        PROVE  <<Tx, Receipts[Tx][i].op_num>> \in StoredReceipts'
    <3>1. i < r \/ i = r
      BY <1>a, <2>1, <2>3, TransactionFacts DEF ScanTypeOK
    <3> QED
      BY <1>28, <1>0, <2>2, <2>3, <3>1
         DEF EventsDone, ScanInv, ReceiptsScanned, RowsKept
  <2>4. Tx \in ContractTxs => got \/ Tx \in lost
    BY <1>28 DEF EventsDone, ScanInv, ReceiptsScanned, TxPcs
  <2> QED
    BY <1>28, <1>0, <2>3, <2>4 DEF EventsDone, ReceiptsScanned, RowsKept, TxPcs, Tx
<1>29. CASE ReceiptsDone
  BY <1>29, <1>0, KeysInRange
     DEF ReceiptsDone, ScanInv, ReceiptsScanned, RowsKept, TxPcs, Tx, ReceiptKey,
         Receipt, scanVars, indexVars
<1>30. CASE FinishBlock
  BY <1>30, <1>0, KeysInRange
     DEF FinishBlock, NextBlock, ScanInv, ReceiptsScanned, RowsKept, TxPcs, Tx,
         ReceiptKey, Receipt, scanVars, indexVars
<1>31. CASE UNCHANGED vars
  BY <1>31, <1>0
     DEF ScanInv, ReceiptsScanned, RowsKept, TxPcs, Tx, ReceiptKey, Receipt, scanVars,
         indexVars, vars
<1> QED
  BY <1>1, <1>2, <1>3, <1>4, <1>5, <1>6, <1>7, <1>8, <1>9, <1>10, <1>11, <1>12, <1>13,
     <1>14, <1>15, <1>16, <1>17, <1>18, <1>19, <1>20, <1>21, <1>22, <1>23, <1>24, <1>25,
     <1>26, <1>27, <1>28, <1>29, <1>30, <1>31
     DEF Next, ScanStep

\* Only four actions move the scan to another block, or write the checkpoint,
\* or start and end the process.
LEMMA OnlyMoves ==
    [Next]_vars =>
        \/ Start \/ ProcessEnds \/ UpdateLastScannedAtHead \/ FinishBlock
        \/ /\ UNCHANGED <<n, checkpoints, waived, flag>>
           /\ (pc' = "down") = (pc = "down")
<1> SUFFICES ASSUME [Next]_vars,
                    ~Start, ~ProcessEnds, ~UpdateLastScannedAtHead, ~FinishBlock
             PROVE  /\ UNCHANGED <<n, checkpoints, waived, flag>>
                    /\ (pc' = "down") = (pc = "down")
  OBVIOUS
<1>1. CASE Interrupt
  BY <1>1 DEF Interrupt, procVars, scanVars, dbVars, ghostVars
<1>2. CASE CloseHxNodeConn
  BY <1>2 DEF CloseHxNodeConn, procVars, scanVars, dbVars, ghostVars
<1>3. CASE NodeProducesBlock
  BY <1>3 DEF NodeProducesBlock, procVars, scanVars, dbVars, ghostVars
<1>4. CASE LoopHead
  BY <1>4 DEF LoopHead, procVars, scanVars, dbVars, ghostVars
<1>5. CASE GetBlock
  BY <1>5 DEF GetBlock, procVars, scanVars, dbVars, ghostVars
<1>6. CASE GetBlockFails
  BY <1>6 DEF GetBlockFails, procVars, scanVars, dbVars, ghostVars
<1>7. CASE SaveBlock
  BY <1>7 DEF SaveBlock, procVars, scanVars, dbVars, ghostVars
<1>8. CASE SaveBlockFails
  BY <1>8 DEF SaveBlockFails, procVars, scanVars, dbVars, ghostVars
<1>9. CASE UpdatePreviousBlockHash
  BY <1>9 DEF UpdatePreviousBlockHash, procVars, scanVars, dbVars, ghostVars
<1>10. CASE UpdatePreviousBlockHashFails
  BY <1>10 DEF UpdatePreviousBlockHashFails, procVars, scanVars, dbVars, ghostVars
<1>11. CASE GetTxReceipts
  BY <1>11 DEF GetTxReceipts, procVars, scanVars, dbVars, ghostVars
<1>12. CASE GetTxReceiptsFails
  BY <1>12 DEF GetTxReceiptsFails, AbandonBlock, procVars, scanVars, dbVars, ghostVars
<1>13. CASE SaveTransaction
  BY <1>13 DEF SaveTransaction, procVars, scanVars, dbVars, ghostVars
<1>14. CASE SaveTransactionFails
  BY <1>14 DEF SaveTransactionFails, AbandonBlock, procVars, scanVars, dbVars, ghostVars
<1>15. CASE TransactionsDone
  BY <1>15 DEF TransactionsDone, procVars, scanVars, dbVars, ghostVars
<1>16. CASE OpTypeUnknown
  BY <1>16 DEF OpTypeUnknown, LeaveOpLoop, procVars, scanVars, dbVars, ghostVars
<1>17. CASE SaveOperation
  BY <1>17 DEF SaveOperation, procVars, scanVars, dbVars, ghostVars
<1>18. CASE SaveBaseOperation
  BY <1>18 DEF SaveBaseOperation, procVars, scanVars, dbVars, ghostVars
<1>19. CASE FindOperationFails
  BY <1>19 DEF FindOperationFails, LeaveOpLoop, procVars, scanVars, dbVars, ghostVars
<1>20. CASE ApplyPluginsToOperation
  BY <1>20 DEF ApplyPluginsToOperation, procVars, scanVars, dbVars, ghostVars
<1>21. CASE OpsDone
  BY <1>21 DEF OpsDone, LeaveOpLoop, procVars, scanVars, dbVars, ghostVars
<1>22. CASE FindContractOpReceipt
  BY <1>22 DEF FindContractOpReceipt, procVars, scanVars, dbVars, ghostVars
<1>23. CASE SaveContractOpReceipt
  BY <1>23 DEF SaveContractOpReceipt, procVars, scanVars, dbVars, ghostVars
<1>24. CASE SaveReceiptEvent
  BY <1>24 DEF SaveReceiptEvent, procVars, scanVars, dbVars, ghostVars
<1>25. CASE EventsDone
  BY <1>25 DEF EventsDone, procVars, scanVars, dbVars, ghostVars
<1>26. CASE ReceiptsDone
  BY <1>26 DEF ReceiptsDone, procVars, scanVars, dbVars, ghostVars
<1>27. CASE UNCHANGED vars
  BY <1>27 DEF vars, procVars, scanVars, dbVars, ghostVars
<1> QED
  BY <1>1, <1>2, <1>3, <1>4, <1>5, <1>6, <1>7, <1>8, <1>9, <1>10, <1>11, <1>12, <1>13,
     <1>14, <1>15, <1>16, <1>17, <1>18, <1>19, <1>20, <1>21, <1>22, <1>23, <1>24, <1>25,
     <1>26, <1>27
     DEF Next, ScanStep

\* Intervals of blocks: raising the lower end shrinks one, and can empty it.
LEMMA IntervalFacts ==
    ASSUME NEW v \in Nat, NEW w \in Nat, NEW k \in Nat, v >= w
    PROVE  /\ v + 1 .. k \subseteq w + 1 .. k
           /\ v + 1 .. w = {}
           /\ (w + 1) - 1 = w
OBVIOUS

\* Every step keeps the blocks below n, and those below the checkpoint, done.
LEMMA BlocksScannedStep ==
    TypeInv /\ ScanInv /\ [Next]_vars => CheckpointScanned' /\ BlocksScanned'
<1> SUFFICES ASSUME TypeInv, ScanInv, [Next]_vars
             PROVE  CheckpointScanned' /\ BlocksScanned'
  OBVIOUS
<1>a. IndexesInRange /\ ScanTypeOK
  BY DEF TypeInv, TypeOK
<1>0. BlocksDone \subseteq BlocksDone'
  BY RowsKeptStep, DoneKept
<1>1. CASE Start
  <2>1. checkpoints' = checkpoints
    BY <1>1 DEF Start, dbVars
  <2>a. flag' \in Nat \cup {-1}
    BY <1>1, <1>a, StartFacts
  <2>2. waived \in Nat /\ waived' \in Nat /\ waived' >= waived /\ waived' >= flag'
    BY <1>1, <1>a, <2>a DEF Start, ScanTypeOK
  <2>3. ASSUME NEW c \in checkpoints PROVE \A b \in waived' + 1 .. c : b \in BlocksDone'
    <3>1. waived' + 1 .. c \subseteq waived + 1 .. c
      BY <1>a, <2>2, IntervalFacts DEF ScanTypeOK
    <3> QED
      BY <1>0, <3>1 DEF ScanInv, CheckpointScanned
  <2>4. CheckpointScanned'
    BY <2>1, <2>3 DEF CheckpointScanned
  <2>5. BlocksScanned'
    <3>1. CASE flag' < 0
      <4>1. PICK c \in GetLastScannedBlockNumber : c \in Nat /\ n' = c + 1
        BY <1>1, <1>a, <3>1, StartFacts
      <4>2. n' - 1 = c
        BY <4>1
      <4>3. CASE c \in checkpoints
        BY <2>3, <4>2, <4>3 DEF BlocksScanned
      <4>4. CASE c \notin checkpoints
        <5>1. c = 0
          BY <4>1, <4>4 DEF GetLastScannedBlockNumber
        <5>2. waived' + 1 .. n' - 1 = {}
          BY <2>2, <4>2, <5>1
        <5> QED
          BY <5>2 DEF BlocksScanned
      <4> QED
        BY <4>3, <4>4
    <3>2. CASE ~(flag' < 0)
      <4>1. flag' \in Nat /\ n' = flag' + 1
        BY <1>1, <1>a, <3>2, StartFacts
      <4>2. waived' + 1 .. n' - 1 = {}
        BY <2>2, <4>1, IntervalFacts
      <4> QED
        BY <4>2 DEF BlocksScanned
    <3> QED
      BY <3>1, <3>2
  <2> QED
    BY <2>4, <2>5
<1>2. CASE ProcessEnds
  BY <1>2, <1>0
     DEF ProcessEnds, ScanInv, CheckpointScanned, BlocksScanned, dbVars, ghostVars
<1>3. CASE UpdateLastScannedAtHead
  <2>1. \A b \in waived + 1 .. n - 1 : b \in BlocksDone
    BY <1>3 DEF UpdateLastScannedAtHead, ScanInv, BlocksScanned
  <2>2. \A c \in checkpoints' : c \in checkpoints \/ c = n - 1
    BY <1>3, CheckpointWritten DEF UpdateLastScannedAtHead, HeadCheckpoint
  <2> QED
    BY <1>3, <1>0, <2>1, <2>2
       DEF UpdateLastScannedAtHead, ScanInv, CheckpointScanned, BlocksScanned, ghostVars
<1>4. CASE FinishBlock
  <2>1. n \in Nat /\ n' = n + 1 /\ waived' = waived /\ waived \in Nat
    BY <1>4, <1>a DEF FinishBlock, NextBlock, ScanTypeOK, ghostVars
  <2>2. n \in BlocksDone
    BY <1>4, <1>a, BlockDoneWhen
       DEF FinishBlock, IndexesInRange, BlockPcs, ScanInv, TransactionsScanned
  <2>3. \A b \in waived + 1 .. n : b \in BlocksDone'
    <3> SUFFICES ASSUME NEW b \in waived + 1 .. n PROVE b \in BlocksDone'
      OBVIOUS
    <3>1. b = n \/ b \in waived + 1 .. n - 1
      BY <2>1
    <3> QED
      BY <1>4, <1>0, <2>2, <3>1 DEF FinishBlock, ScanInv, BlocksScanned
  <2>4. \A c \in checkpoints' : c \in checkpoints \/ c = n
    BY <1>4, CheckpointWritten DEF FinishBlock
  <2>5. CheckpointScanned'
    BY <1>0, <2>1, <2>3, <2>4 DEF ScanInv, CheckpointScanned
  <2>6. BlocksScanned'
    BY <2>1, <2>3 DEF BlocksScanned
  <2> QED
    BY <2>5, <2>6
<1>5. CASE /\ UNCHANGED <<n, checkpoints, waived, flag>>
           /\ (pc' = "down") = (pc = "down")
  BY <1>5, <1>0 DEF ScanInv, CheckpointScanned, BlocksScanned
<1> QED
  BY <1>1, <1>2, <1>3, <1>4, <1>5, OnlyMoves

\* The first state satisfies the scan's invariant.
LEMMA ScanInvInit == Init => ScanInv
<1> SUFFICES ASSUME Init PROVE ScanInv
  OBVIOUS
<1>1. CheckpointScanned
  BY DEF Init, CheckpointScanned
<1> QED
  BY <1>1
     DEF Init, ScanInv, BlocksScanned, TransactionsScanned, OperationsScanned,
         ReceiptsScanned, BlockPcs, TxPcs

\* The scan's invariant holds in every state.
LEMMA ScanInvInvariant == Spec => [](TypeInv /\ ScanInv)
<1>1. Init => TypeInv /\ ScanInv
  BY TypeInvInit, ScanInvInit
<1>2. TypeInv /\ ScanInv /\ [Next]_vars => (TypeInv /\ ScanInv)'
  BY TypeInvStep, BlocksScannedStep, TransactionsScannedStep, OperationsScannedStep,
     ReceiptsScannedStep
     DEF ScanInv
<1> QED
  BY <1>1, <1>2, PTL DEF Spec

\* Whatever fails and wherever the process is killed, the checkpoint in
\* scan_configs covers only blocks whose rows are all there (but for the
\* transactions a failed call made a loop abandon).
THEOREM CheckpointIsComplete == Spec => []CheckpointComplete
<1>1. ScanInv => CheckpointComplete
  BY DEF ScanInv, CheckpointScanned, CheckpointComplete, Recorded, BlocksDone
<1> QED
  BY <1>1, ScanInvInvariant, PTL

-----------------------------------------------------------------------------
(* The checkpoint goes back only under -scan_from: a process without it is  *)
(* always past the checkpoint it started from.                              *)

CheckpointBehind ==
    /\ \A c, d \in checkpoints : c = d
    /\ pc # "down" /\ flag < 0 => \A c \in checkpoints : c < n

\* Every step keeps a process without -scan_from past the one checkpoint.
LEMMA CheckpointBehindStep ==
    ASSUME ~RowsMissed, TypeInv, CheckpointBehind, [Next]_vars
    PROVE  CheckpointBehind'
<1>a. ScanTypeOK /\ IndexesInRange
  BY DEF TypeInv, TypeOK
<1>1. CASE Start
  <2>1. checkpoints' = checkpoints
    BY <1>1 DEF Start, dbVars
  <2>2. ASSUME flag' < 0, NEW c \in checkpoints PROVE c < n'
    <3>1. PICK d \in GetLastScannedBlockNumber : d \in Nat /\ n' = d + 1
      BY <1>1, <1>a, <2>2, StartFacts
    <3>2. d = c
      BY <3>1, <2>2 DEF GetLastScannedBlockNumber, CheckpointBehind, RowsMissed
    <3> QED
      BY <3>1, <3>2
  <2> QED
    BY <2>1, <2>2 DEF CheckpointBehind
<1>2. CASE ProcessEnds
  BY <1>2 DEF ProcessEnds, CheckpointBehind, dbVars
<1>3. CASE UpdateLastScannedAtHead
  <2>1. n \in Nat /\ n' = n /\ flag' = flag /\ pc # "down"
    BY <1>3, <1>a DEF UpdateLastScannedAtHead, ScanTypeOK, procVars
  <2>2. checkpoints' = {n - 1} \/ checkpoints' = checkpoints
    BY <1>3, CheckpointWritten DEF UpdateLastScannedAtHead, HeadCheckpoint
  <2> QED
    BY <2>1, <2>2 DEF CheckpointBehind
<1>4. CASE FinishBlock
  <2>1. n \in Nat /\ n' = n + 1 /\ flag' = flag /\ pc # "down"
    BY <1>4, <1>a DEF FinishBlock, NextBlock, ScanTypeOK, procVars
  <2>2. checkpoints' = {n} \/ checkpoints' = checkpoints
    BY <1>4, CheckpointWritten DEF FinishBlock
  <2>3. n < n' /\ \A c \in checkpoints : c \in Nat /\ (c < n => c < n')
    BY <1>a, <2>1 DEF ScanTypeOK
  <2> QED
    BY <2>1, <2>2, <2>3 DEF CheckpointBehind
<1>5. CASE /\ UNCHANGED <<n, checkpoints, waived, flag>>
           /\ (pc' = "down") = (pc = "down")
  BY <1>5 DEF CheckpointBehind
<1> QED
  BY <1>1, <1>2, <1>3, <1>4, <1>5, OnlyMoves

NeverBack ==
    [flag >= 0 \/ \A c \in checkpoints : \E d \in checkpoints' : d >= c]_checkpoints

\* So such a process writes no lower checkpoint.
LEMMA CheckpointNeverBack ==
    ASSUME ~RowsMissed, TypeInv, CheckpointBehind, [Next]_vars
    PROVE  NeverBack
<1> SUFFICES ASSUME checkpoints' # checkpoints, ~(flag >= 0), NEW c \in checkpoints
             PROVE  \E d \in checkpoints' : d >= c
  BY DEF NeverBack
<1>a. ScanTypeOK /\ ProcessTypeOK
  BY DEF TypeInv, TypeOK
<1>b. flag < 0
  BY <1>a DEF ProcessTypeOK
<1>1. UpdateLastScannedAtHead \/ FinishBlock
  BY OnlyMoves DEF Start, ProcessEnds, dbVars
<1>2. pc # "down" /\ (checkpoints' = {n - 1} \/ checkpoints' = {n})
  BY <1>1, CheckpointWritten DEF UpdateLastScannedAtHead, HeadCheckpoint, FinishBlock
<1>3. c < n /\ c \in Nat /\ n \in Nat
  BY <1>a, <1>b, <1>2 DEF CheckpointBehind, ScanTypeOK
<1>4. n - 1 >= c /\ n >= c
  BY <1>3
<1> QED
  BY <1>2, <1>4

\* While no find misses a row that is there, no restart and no node that is
\* behind or out of reach makes the checkpoint go back; only a process given
\* -scan_from does.
THEOREM CheckpointIsMonotone ==
    ASSUME ~RowsMissed
    PROVE  Spec => CheckpointMonotone
<1>1. Init => TypeInv /\ CheckpointBehind
  BY TypeInvInit DEF Init, CheckpointBehind
<1>2. TypeInv /\ CheckpointBehind /\ [Next]_vars => (TypeInv /\ CheckpointBehind)'
  BY TypeInvStep, CheckpointBehindStep
<1>3. TypeInv /\ CheckpointBehind /\ [Next]_vars => NeverBack
  BY CheckpointNeverBack
<1>4. Spec => [][flag >= 0 \/ \A c \in checkpoints : \E d \in checkpoints' : d >= c]_checkpoints
  BY <1>1, <1>2, <1>3, PTL DEF Spec, NeverBack
<1> QED
  BY <1>4 DEF CheckpointMonotone
=============================================================================
