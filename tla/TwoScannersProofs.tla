-------------------------- MODULE TwoScannersProofs --------------------------
(***************************************************************************)
(* Proofs about two scanners on one database.  Both are Scanner, so what   *)
(* is known of one process and its steps (RowProofs, as it stands) is      *)
(* known of the other (P, the same theorems with the second process's      *)
(* variables).  New is only that neither is harmed by the other's steps:   *)
(* all that a scan's invariant knows of the tables is that rows are there, *)
(* and no step of either takes a row back (RowInvUnderSharing).            *)
(***************************************************************************)
EXTENDS TwoScanners, RowProofs

P == INSTANCE RowProofs WITH
    starts <- starts2, conn <- conn2, stopping <- stopping2, flag <- flag2,
    pc <- pc2, end <- end2, n <- n2, t <- t2, o <- o2, r <- r2, e <- e2, got <- got2

\* The instance of Scanner that takes the second process's steps is the one the
\* proofs about Scanner are instantiated for: the same actions, one by one.
LEMMA SameScanner == (Other!Init <=> P!Init) /\ (Other!Next <=> P!Next)
<1>1. Other!Init <=> P!Init
  BY DEF Other!Init, P!Init, Other!NoRows, P!NoRows, Other!Heights, P!Heights,
         Other!OpKeys, P!OpKeys, Other!OpNums, P!OpNums, Other!EventKeys, P!EventKeys
<1>2. /\ Other!Start <=> P!Start
      /\ Other!Interrupt <=> P!Interrupt
      /\ Other!CloseHxNodeConn <=> P!CloseHxNodeConn
      /\ Other!ProcessEnds <=> P!ProcessEnds
      /\ Other!NodeProducesBlock <=> P!NodeProducesBlock
  BY DEF Other!Start, P!Start, Other!Interrupt, P!Interrupt, Other!CloseHxNodeConn,
         P!CloseHxNodeConn, Other!ProcessEnds, P!ProcessEnds,
         Other!NodeProducesBlock, P!NodeProducesBlock,
         Other!GetLastScannedBlockNumber, P!GetLastScannedBlockNumber,
         Other!StartBlock, P!StartBlock, Other!Running, P!Running,
         Other!IsHxNodeConnected, P!IsHxNodeConnected, Other!procVars,
         P!procVars, Other!scanVars, P!scanVars, Other!indexVars, P!indexVars,
         Other!dbVars, P!dbVars, Other!rowVars, P!rowVars, Other!blockRows,
         P!blockRows, Other!receiptRows, P!receiptRows, Other!ghostVars,
         P!ghostVars
<1>3. /\ Other!LoopHead <=> P!LoopHead
      /\ Other!GetBlock <=> P!GetBlock
      /\ Other!GetBlockFails <=> P!GetBlockFails
      /\ Other!UpdateLastScannedAtHead <=> P!UpdateLastScannedAtHead
      /\ Other!FinishBlock <=> P!FinishBlock
  BY DEF Other!LoopHead, P!LoopHead, Other!GetBlock, P!GetBlock, Other!GetBlockFails,
         P!GetBlockFails, Other!UpdateLastScannedAtHead,
         P!UpdateLastScannedAtHead, Other!FinishBlock, P!FinishBlock,
         Other!IsHxNodeConnected, P!IsHxNodeConnected, Other!NodeCallFails,
         P!NodeCallFails, Other!HeadCheckpoint, P!HeadCheckpoint,
         Other!UpdateLastScannedBlockNumber, P!UpdateLastScannedBlockNumber,
         Other!SaveConfig, P!SaveConfig, Other!RowsMissed, P!RowsMissed,
         Other!NextBlock, P!NextBlock, Other!procVars, P!procVars,
         Other!scanVars, P!scanVars, Other!indexVars, P!indexVars,
         Other!dbVars, P!dbVars, Other!rowVars, P!rowVars, Other!blockRows,
         P!blockRows, Other!receiptRows, P!receiptRows, Other!ghostVars,
         P!ghostVars
<1>4. /\ Other!SaveBlock <=> P!SaveBlock
      /\ Other!SaveBlockFails <=> P!SaveBlockFails
      /\ Other!UpdatePreviousBlockHash <=> P!UpdatePreviousBlockHash
      /\ Other!UpdatePreviousBlockHashFails <=> P!UpdatePreviousBlockHashFails
  BY DEF Other!SaveBlock, P!SaveBlock, Other!SaveBlockFails, P!SaveBlockFails,
         Other!UpdatePreviousBlockHash, P!UpdatePreviousBlockHash,
         Other!UpdatePreviousBlockHashFails, P!UpdatePreviousBlockHashFails,
         Other!Found, P!Found, Other!Insert, P!Insert, Other!FindResults,
         P!FindResults, Other!RowsMissed, P!RowsMissed, Other!DbCallFails,
         P!DbCallFails, Other!Previous, P!Previous, Other!PreviousIdFilled,
         P!PreviousIdFilled, Other!procVars, P!procVars, Other!scanVars,
         P!scanVars, Other!indexVars, P!indexVars, Other!dbVars, P!dbVars,
         Other!rowVars, P!rowVars, Other!blockRows, P!blockRows,
         Other!receiptRows, P!receiptRows, Other!ghostVars, P!ghostVars
<1>5. /\ Other!GetTxReceipts <=> P!GetTxReceipts
      /\ Other!GetTxReceiptsFails <=> P!GetTxReceiptsFails
      /\ Other!SaveTransaction <=> P!SaveTransaction
      /\ Other!SaveTransactionFails <=> P!SaveTransactionFails
      /\ Other!TransactionsDone <=> P!TransactionsDone
  BY DEF Other!GetTxReceipts, P!GetTxReceipts, Other!GetTxReceiptsFails,
         P!GetTxReceiptsFails, Other!SaveTransaction, P!SaveTransaction,
         Other!SaveTransactionFails, P!SaveTransactionFails,
         Other!TransactionsDone, P!TransactionsDone, Other!Tx, P!Tx,
         Other!CheckTransactionHasContractOp, P!CheckTransactionHasContractOp,
         Other!IsHxNodeConnected, P!IsHxNodeConnected, Other!NodeCallFails,
         P!NodeCallFails, Other!DbCallFails, P!DbCallFails,
         Other!AbandonBlock, P!AbandonBlock, Other!FindOrInsert,
         P!FindOrInsert, Other!FailedInsert, P!FailedInsert,
         Other!FindResults, P!FindResults, Other!Found, P!Found, Other!Insert,
         P!Insert, Other!RowsMissed, P!RowsMissed, Other!procVars, P!procVars,
         Other!scanVars, P!scanVars, Other!indexVars, P!indexVars,
         Other!dbVars, P!dbVars, Other!rowVars, P!rowVars, Other!blockRows,
         P!blockRows, Other!receiptRows, P!receiptRows, Other!ghostVars,
         P!ghostVars
<1>6. /\ Other!OpTypeUnknown <=> P!OpTypeUnknown
      /\ Other!SaveOperation <=> P!SaveOperation
      /\ Other!SaveBaseOperation <=> P!SaveBaseOperation
      /\ Other!FindOperationFails <=> P!FindOperationFails
      /\ Other!ApplyPluginsToOperation <=> P!ApplyPluginsToOperation
      /\ Other!OpsDone <=> P!OpsDone
  BY DEF Other!OpTypeUnknown, P!OpTypeUnknown, Other!SaveOperation, P!SaveOperation,
         Other!SaveBaseOperation, P!SaveBaseOperation,
         Other!FindOperationFails, P!FindOperationFails,
         Other!ApplyPluginsToOperation, P!ApplyPluginsToOperation,
         Other!OpsDone, P!OpsDone, Other!Tx, P!Tx, Other!Key, P!Key,
         Other!LeaveOpLoop, P!LeaveOpLoop, Other!DbCallFails, P!DbCallFails,
         Other!FindOrInsert, P!FindOrInsert, Other!FindResults, P!FindResults,
         Other!Found, P!Found, Other!Insert, P!Insert, Other!RowsMissed,
         P!RowsMissed, Other!procVars, P!procVars, Other!scanVars, P!scanVars,
         Other!indexVars, P!indexVars, Other!dbVars, P!dbVars, Other!rowVars,
         P!rowVars, Other!blockRows, P!blockRows, Other!receiptRows,
         P!receiptRows, Other!ghostVars, P!ghostVars
<1>7. /\ Other!FindContractOpReceipt <=> P!FindContractOpReceipt
      /\ Other!SaveContractOpReceipt <=> P!SaveContractOpReceipt
      /\ Other!SaveReceiptEvent <=> P!SaveReceiptEvent
      /\ Other!EventsDone <=> P!EventsDone
      /\ Other!ReceiptsDone <=> P!ReceiptsDone
  BY DEF Other!FindContractOpReceipt, P!FindContractOpReceipt,
         Other!SaveContractOpReceipt, P!SaveContractOpReceipt,
         Other!SaveReceiptEvent, P!SaveReceiptEvent, Other!EventsDone,
         P!EventsDone, Other!ReceiptsDone, P!ReceiptsDone, Other!Tx, P!Tx,
         Other!Receipt, P!Receipt, Other!ReceiptKey, P!ReceiptKey,
         Other!FindResults, P!FindResults, Other!Found, P!Found, Other!Insert,
         P!Insert, Other!RowsMissed, P!RowsMissed, Other!procVars, P!procVars,
         Other!scanVars, P!scanVars, Other!indexVars, P!indexVars,
         Other!dbVars, P!dbVars, Other!rowVars, P!rowVars, Other!blockRows,
         P!blockRows, Other!receiptRows, P!receiptRows, Other!ghostVars,
         P!ghostVars
<1> QED
  BY <1>1, <1>2, <1>3, <1>4, <1>5, <1>6, <1>7
     DEF Other!Next, P!Next, Other!ScanStep, P!ScanStep

\* What each process knows of the tables it shares with the other is the same.
LEMMA SameTables ==
    /\ (P!SharedKept <=> SharedKept)
    /\ (P!SharedInv <=> SharedInv)
    /\ (P!SharedInv' <=> SharedInv')
    /\ P!BlocksDone = BlocksDone
<1>1. P!Heights = Heights /\ P!OpKeys = OpKeys /\ P!EventKeys = EventKeys
  BY DEF P!Heights, Heights, P!OpKeys, OpKeys, P!OpNums, OpNums, P!EventKeys, EventKeys
<1>2. /\ P!StoredBlocks = StoredBlocks /\ P!StoredTxs = StoredTxs
      /\ P!StoredOpTables = StoredOpTables /\ P!StoredOps = StoredOps
      /\ P!StoredReceipts = StoredReceipts /\ P!StoredEvents = StoredEvents
  BY <1>1 DEF P!StoredBlocks, StoredBlocks, P!StoredTxs, StoredTxs,
     P!StoredOpTables, StoredOpTables, P!StoredOps, StoredOps,
     P!StoredReceipts, StoredReceipts, P!StoredEvents, StoredEvents
<1>3. P!BlocksDone = BlocksDone
  <2>1. ASSUME NEW x PROVE P!TransactionDone(x) <=> TransactionDone(x)
    BY DEF P!TransactionDone, TransactionDone, P!Reached, Reached,
       P!OperationDone, OperationDone, P!ReceiptsStored, ReceiptsStored,
       P!CheckTransactionHasContractOp, CheckTransactionHasContractOp
  <2>2. ASSUME NEW b PROVE P!BlockDone(b) <=> BlockDone(b)
    BY <1>1, <2>1 DEF P!BlockDone, BlockDone
  <2> QED
    BY <1>1, <2>2 DEF P!BlocksDone, BlocksDone
<1>4. /\ P!StoredBlocks' = StoredBlocks' /\ P!StoredTxs' = StoredTxs'
      /\ P!StoredOpTables' = StoredOpTables' /\ P!StoredOps' = StoredOps'
      /\ P!StoredReceipts' = StoredReceipts' /\ P!StoredEvents' = StoredEvents'
  BY <1>1 DEF P!StoredBlocks, StoredBlocks, P!StoredTxs, StoredTxs,
     P!StoredOpTables, StoredOpTables, P!StoredOps, StoredOps,
     P!StoredReceipts, StoredReceipts, P!StoredEvents, StoredEvents
<1>5. P!SharedKept <=> SharedKept
  BY <1>2, <1>4 DEF P!SharedKept, SharedKept, P!RowsKept, RowsKept
<1>6. \A b : P!TxidsOf(b) = TxidsOf(b)
  BY DEF P!TxidsOf, TxidsOf
<1>7. P!SharedInv <=> SharedInv
  BY <1>1, <1>2, <1>3, <1>6
     DEF P!SharedInv, SharedInv, P!RowsTypeOK, RowsTypeOK,
         P!CheckpointScanned, CheckpointScanned, P!OrphanFree, OrphanFree
<1>8. (P!SharedInv <=> SharedInv)'
  BY <1>7, PTL
<1> QED
  BY <1>3, <1>5, <1>7, <1>8

-----------------------------------------------------------------------------
(* What holds of both.                                                     *)

BothInv == RowInv /\ DownAtZero /\ P!RowInv /\ P!DownAtZero

\* The facts about Scanner that are needed of the second process.
LEMMA OtherFacts ==
    /\ P!Init => P!RowInv
    /\ P!RowInv /\ [P!Next]_(P!vars) => P!RowInv' /\ P!SharedKept
    /\ P!DownAtZero /\ [P!Next]_(P!vars) => P!DownAtZero'
    /\ P!RowInv /\ P!SharedKept /\ P!SharedInv' /\ UNCHANGED <<procVars2, scanVars2>>
          => P!RowInv'
<1> USE ChainAssumption, ParameterAssumption
    DEF ChainAssumption, ParameterAssumption, P!OpKinds, OpKinds, P!OpNums, OpNums,
        P!AllFaults, AllFaults
<1>1. P!Init => P!RowInv
  BY P!RowInvInit
<1>2. P!RowInv /\ [P!Next]_(P!vars) => P!RowInv' /\ P!SharedKept
  BY P!RowInvStep, P!SharedKeptStep
<1>3. P!DownAtZero /\ [P!Next]_(P!vars) => P!DownAtZero'
  BY P!DownAtZeroStep
<1>4. P!RowInv /\ P!SharedKept /\ P!SharedInv' /\ UNCHANGED <<procVars2, scanVars2>>
          => P!RowInv'
  BY P!RowInvUnderSharing
     DEF procVars2, scanVars2, P!procVars, P!scanVars, P!indexVars
<1> QED
  BY <1>1, <1>2, <1>3, <1>4

\* Both processes start from tables without rows.
LEMMA BothInvInit == InitBoth => BothInv
BY RowInvInit, OtherFacts, SameScanner
   DEF InitBoth, BothInv, DownAtZero, P!DownAtZero, Init, P!Init

\* A step of either keeps the invariant of the one that takes it, as in Scanner,
\* and that of the other, whose rows stay where they are.
LEMMA BothInvStep == BothInv /\ [NextBoth]_<<vars, procVars2, scanVars2>> => BothInv'
<1> SUFFICES ASSUME BothInv, [NextBoth]_<<vars, procVars2, scanVars2>> PROVE BothInv'
  OBVIOUS
<1> USE DEF BothInv
<1>1. ASSUME [Next]_vars, UNCHANGED <<procVars2, scanVars2>> PROVE BothInv'
  <2>1. RowInv' /\ DownAtZero' /\ SharedKept
    BY <1>1, RowInvStep, DownAtZeroStep, SharedKeptStep
  <2>2. SharedInv'
    BY <2>1 DEF SharedInv, RowInv, TypeInv, TypeOK, ProcessTypeOK, ScanTypeOK, ScanInv
  <2>3. P!RowInv'
    BY <1>1, <2>1, <2>2, SameTables, OtherFacts
  <2>4. P!DownAtZero'
    BY <1>1 DEF P!DownAtZero, scanVars2
  <2> QED
    BY <2>1, <2>3, <2>4
<1>2. ASSUME [P!Next]_(P!vars), UNCHANGED <<procVars, scanVars>> PROVE BothInv'
  <2>1. P!RowInv' /\ P!DownAtZero' /\ P!SharedKept
    BY <1>2, OtherFacts
  <2>2. P!SharedInv'
    BY <2>1 DEF P!SharedInv, P!RowInv, P!TypeInv, P!TypeOK, P!ProcessTypeOK,
                P!ScanTypeOK, P!ScanInv
  <2>3. RowInv'
    BY <1>2, <2>1, <2>2, SameTables, RowInvUnderSharing
  <2>4. DownAtZero'
    BY <1>2 DEF DownAtZero, scanVars
  <2> QED
    BY <2>1, <2>3, <2>4
<1> QED
  BY <1>1, <1>2, SameScanner DEF NextBoth, First, Second

\* So both invariants hold in every state.
LEMMA BothInvInvariant == SpecBoth => []BothInv
BY BothInvInit, BothInvStep, PTL DEF SpecBoth

\* With two scanners on one database, whatever calls fail and however stale
\* the finds of each, the checkpoint is never ahead of the rows.
THEOREM CheckpointIsCompleteForBoth == SpecBoth => []CheckpointComplete
<1>1. BothInv => CheckpointComplete
  BY DEF BothInv, RowInv, ScanInv, CheckpointScanned, CheckpointComplete, Recorded,
         BlocksDone
<1> QED
  BY <1>1, BothInvInvariant, PTL

\* ... and every row has its parents.
THEOREM NoRowsAreOrphansForBoth == SpecBoth => []NoOrphanRows
<1>1. BothInv => NoOrphanRows
  BY OrphanFreeSuffices DEF BothInv, RowInv, TypeInv, TypeOK
<1> QED
  BY <1>1, BothInvInvariant, PTL

\* ... and all blocks before the one either is at are stored, though the
\* other may have written the checkpoint it started from.
THEOREM NothingIsSkippedByEither == SpecBoth => []NothingSkippedByEither
<1>1. BothInv => NothingSkippedByEither
  <2> SUFFICES ASSUME BothInv PROVE NothingSkippedByEither
    OBVIOUS
  <2>1. waived \in Nat /\ (pc = "down" => n = 0) /\ (pc2 = "down" => n2 = 0)
    BY DEF BothInv, RowInv, TypeInv, TypeOK, ScanTypeOK, DownAtZero, P!DownAtZero
  <2>2. waived + 1 .. 0 - 1 = {}
    BY <2>1
  <2>3. \A b \in waived + 1 .. n - 1 : b \in BlocksDone
    BY <2>1, <2>2 DEF BothInv, RowInv, ScanInv, BlocksScanned
  <2>4. \A b \in waived + 1 .. n2 - 1 : b \in BlocksDone
    BY <2>1, <2>2, SameTables DEF BothInv, P!RowInv, P!ScanInv, P!BlocksScanned
  <2> QED
    BY <2>3, <2>4 DEF NothingSkippedByEither, BlocksDone
<1> QED
  BY <1>1, BothInvInvariant, PTL
=============================================================================
