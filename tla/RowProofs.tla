------------------------------ MODULE RowProofs ------------------------------
(***************************************************************************)
(* Proofs about the rows Scanner stores: none without its parents, none    *)
(* twice, and the block ids that are filled in one block late.             *)
(***************************************************************************)
EXTENDS ScannerProofs

StoredEvents == {k \in EventKeys : receiptEvents[k] > 0}

-----------------------------------------------------------------------------
(* A new row is always one of the key the scan is at.                       *)

\* An insert, or find-or-insert, gives no key but its own a row.
LEMMA InsertAdds ==
    ASSUME NEW Keys, NEW table \in [Keys -> Nat], NEW key,
           NEW new \in {Insert(table, key)} \cup FindOrInsert(table, key)
                           \cup FailedInsert(table, key)
    PROVE  {k \in Keys : new[k] > 0} \subseteq
               {k \in Keys : table[k] > 0} \cup {k \in Keys : k = key}
<1>1. ASSUME NEW k \in Keys, k # key PROVE new[k] = table[k]
  BY <1>1 DEF FailedInsert, FindOrInsert, Insert
<1> QED
  BY <1>1

NewRows ==
    /\ StoredBlocks' \subseteq StoredBlocks \cup {b \in Heights : pc = "block" /\ b = n}
    /\ StoredTxs' \subseteq StoredTxs \cup {x \in Txids : pc = "txRow" /\ x = Tx}
    /\ StoredOpTables' \subseteq StoredOpTables \cup
            {k \in OpKeys : pc = "op" /\ o <= Len(Ops[Tx]) /\ k = Key}
    /\ StoredOps' \subseteq StoredOps \cup {k \in OpKeys : pc = "base" /\ k = Key}
    /\ applied' \subseteq applied \cup {k \in OpKeys : pc = "plugins" /\ k = Key}
    /\ StoredReceipts' \subseteq StoredReceipts \cup
            {k \in OpKeys : pc = "receipts" /\ k = ReceiptKey}
    /\ StoredEvents' \subseteq StoredEvents \cup
            {k \in EventKeys : pc = "events" /\ k = <<ReceiptKey, e>>}

\* A step adds rows to one table at most, and under the key the scan is at.
LEMMA NewRowsStep == TypeInv /\ [Next]_vars => NewRows
<1> SUFFICES ASSUME TypeInv, [Next]_vars PROVE NewRows
  OBVIOUS
<1> USE DEF NewRows
<1>0. RowsTypeOK
  BY DEF TypeInv, TypeOK
<1>1. CASE SaveBlock \/ SaveBlockFails
  <2>1. StoredBlocks' \subseteq StoredBlocks \cup {k \in Heights : k = n}
    BY <1>1, <1>0, InsertAdds DEF SaveBlock, SaveBlockFails, RowsTypeOK, StoredBlocks
  <2> QED
    BY <1>1, <2>1
       DEF SaveBlock, SaveBlockFails, receiptRows,
           StoredTxs, StoredOpTables, StoredOps, StoredReceipts, StoredEvents
<1>2. CASE UpdatePreviousBlockHash \/ UpdatePreviousBlockHashFails
  BY <1>2
     DEF UpdatePreviousBlockHash, UpdatePreviousBlockHashFails, receiptRows,
         StoredBlocks, StoredTxs, StoredOpTables, StoredOps, StoredReceipts, StoredEvents
<1>3. CASE SaveTransaction
  <2>1. StoredTxs' \subseteq StoredTxs \cup {k \in Txids : k = Tx}
    BY <1>3, <1>0, InsertAdds DEF SaveTransaction, RowsTypeOK, StoredTxs
  <2> QED
    BY <1>3, <2>1 DEF SaveTransaction, blockRows, receiptRows,
       StoredBlocks, StoredOpTables, StoredOps, StoredReceipts, StoredEvents
<1>4. CASE SaveTransactionFails
  <2>1. StoredTxs' \subseteq StoredTxs \cup {k \in Txids : k = Tx}
    BY <1>4, <1>0, InsertAdds DEF SaveTransactionFails, RowsTypeOK, StoredTxs
  <2> QED
    BY <1>4, <2>1 DEF SaveTransactionFails, blockRows, receiptRows,
       StoredBlocks, StoredOpTables, StoredOps, StoredReceipts, StoredEvents
<1>5. CASE SaveOperation
  <2>1. StoredOpTables' \subseteq StoredOpTables \cup {k \in OpKeys : k = Key}
    BY <1>5, <1>0, InsertAdds DEF SaveOperation, RowsTypeOK, StoredOpTables
  <2> QED
    BY <1>5, <2>1 DEF SaveOperation, blockRows, receiptRows,
       StoredBlocks, StoredTxs, StoredOps, StoredReceipts, StoredEvents
<1>6. CASE SaveBaseOperation
  <2>1. StoredOps' \subseteq StoredOps \cup {k \in OpKeys : k = Key}
    BY <1>6, <1>0, InsertAdds DEF SaveBaseOperation, RowsTypeOK, StoredOps
  <2> QED
    BY <1>6, <2>1 DEF SaveBaseOperation, blockRows, receiptRows,
       StoredBlocks, StoredTxs, StoredOpTables, StoredReceipts, StoredEvents
<1>7. CASE ApplyPluginsToOperation
  BY <1>7, KeysInRange
     DEF ApplyPluginsToOperation, blockRows, receiptRows, StoredBlocks, StoredTxs,
         StoredOpTables, StoredOps, StoredReceipts, StoredEvents
<1>8. CASE SaveContractOpReceipt
  <2>1. StoredReceipts' \subseteq StoredReceipts \cup {k \in OpKeys : k = ReceiptKey}
    BY <1>8, <1>0, InsertAdds DEF SaveContractOpReceipt, RowsTypeOK, StoredReceipts
  <2> QED
    BY <1>8, <2>1 DEF SaveContractOpReceipt, blockRows,
       StoredBlocks, StoredTxs, StoredOpTables, StoredOps, StoredEvents
<1>9. CASE SaveReceiptEvent
  <2>1. StoredEvents' \subseteq StoredEvents \cup {k \in EventKeys : k = <<ReceiptKey, e>>}
    <3> DEFINE key == <<ReceiptKey, e>>
    <3>1. /\ receiptEvents \in [EventKeys -> Nat]
          /\ receiptEvents' = Insert(receiptEvents, key)
      BY <1>9, <1>0 DEF SaveReceiptEvent, RowsTypeOK
    <3> HIDE DEF key
    <3>2. StoredEvents' \subseteq StoredEvents \cup {k \in EventKeys : k = key}
      BY <3>1, InsertAdds DEF StoredEvents
    <3> QED
      BY <3>2 DEF key
  <2> QED
    BY <1>9, <2>1 DEF SaveReceiptEvent, blockRows,
       StoredBlocks, StoredTxs, StoredOpTables, StoredOps, StoredReceipts
<1>10. CASE UNCHANGED rowVars
  BY <1>10
     DEF rowVars, blockRows, receiptRows,
         StoredBlocks, StoredTxs, StoredOpTables, StoredOps, StoredReceipts, StoredEvents
<1> QED
  BY <1>1, <1>2, <1>3, <1>4, <1>5, <1>6, <1>7, <1>8, <1>9, <1>10, OnlyRowWrites
     DEF RowWrite

-----------------------------------------------------------------------------
(* The events of a receipt.  They are inserted without looking for them, so *)
(* that the receipt had none when its row was inserted is all that keeps    *)
(* them single, and that they are inserted in order keeps them gapless.     *)

\* An event is written, or the events of a receipt are begun or waited with.
LEMMA AtEvents ==
    ASSUME [Next]_vars, pc' = "events"
    PROVE  \/ SaveContractOpReceipt
           \/ SaveReceiptEvent
           \/ pc = "events" /\ UNCHANGED <<n, t, r, e, rowVars>>
<1>1. CASE Start \/ ProcessEnds
  BY <1>1 DEF Start, ProcessEnds
<1>2. CASE Interrupt \/ CloseHxNodeConn \/ NodeProducesBlock
  BY <1>2 DEF Interrupt, CloseHxNodeConn, NodeProducesBlock, scanVars, indexVars, dbVars
<1>3. CASE LoopHead \/ GetBlock \/ GetBlockFails \/ UpdateLastScannedAtHead
  BY <1>3 DEF LoopHead, GetBlock, GetBlockFails, UpdateLastScannedAtHead
<1>4. CASE \/ SaveBlock \/ SaveBlockFails
           \/ UpdatePreviousBlockHash \/ UpdatePreviousBlockHashFails
  BY <1>4 DEF SaveBlock, SaveBlockFails, UpdatePreviousBlockHash,
              UpdatePreviousBlockHashFails
<1>5. CASE \/ GetTxReceipts \/ GetTxReceiptsFails
           \/ SaveTransaction \/ SaveTransactionFails \/ TransactionsDone
  BY <1>5 DEF GetTxReceipts, GetTxReceiptsFails, SaveTransaction, SaveTransactionFails,
              TransactionsDone, AbandonBlock
<1>6. CASE \/ OpTypeUnknown \/ SaveOperation \/ SaveBaseOperation \/ FindOperationFails
           \/ ApplyPluginsToOperation \/ OpsDone
  BY <1>6 DEF OpTypeUnknown, SaveOperation, SaveBaseOperation, FindOperationFails,
              ApplyPluginsToOperation, OpsDone, LeaveOpLoop
<1>7. CASE FindContractOpReceipt \/ EventsDone \/ ReceiptsDone \/ FinishBlock
  BY <1>7 DEF FindContractOpReceipt, EventsDone, ReceiptsDone, FinishBlock
<1>8. CASE UNCHANGED vars
  BY <1>8 DEF vars, scanVars, indexVars, dbVars
<1> QED
  BY <1>1, <1>2, <1>3, <1>4, <1>5, <1>6, <1>7, <1>8 DEF Next, ScanStep

\* No event is ever removed.
LEMMA EventsKept ==
    ASSUME TypeInv, [Next]_vars
    PROVE  StoredEvents \subseteq StoredEvents'
<1>1. CASE SaveReceiptEvent
  <2> DEFINE key == <<ReceiptKey, e>>
  <2>1. /\ receiptEvents \in [EventKeys -> Nat]
        /\ receiptEvents' = Insert(receiptEvents, key)
    BY <1>1 DEF SaveReceiptEvent, TypeInv, TypeOK, RowsTypeOK
  <2> HIDE DEF key
  <2> QED
    BY <2>1, InsertKeeps DEF StoredEvents
<1>2. CASE receiptEvents' = receiptEvents
  BY <1>2 DEF StoredEvents
<1> QED
  BY <1>1, <1>2, OnlyRowWrites
     DEF RowWrite, rowVars, receiptRows, SaveBlock, SaveBlockFails,
         UpdatePreviousBlockHash, UpdatePreviousBlockHashFails, SaveTransaction,
         SaveTransactionFails, SaveOperation, SaveBaseOperation,
         ApplyPluginsToOperation, SaveContractOpReceipt

EventsBefore ==
    pc = "events" => \A h \in 1 .. MaxEvents : h < e => <<ReceiptKey, h>> \in StoredEvents

\* Every step keeps the events before the scan's stored.
LEMMA EventsBeforeStep ==
    ASSUME TypeInv, EventsBefore, [Next]_vars
    PROVE  EventsBefore'
<1> SUFFICES ASSUME pc' = "events", NEW h \in 1 .. MaxEvents, h < e'
             PROVE  <<ReceiptKey', h>> \in StoredEvents'
  BY DEF EventsBefore
<1>a. RowsTypeOK /\ ScanTypeOK /\ IndexesInRange
  BY DEF TypeInv, TypeOK
<1>b. MaxEvents \in Nat
  BY ChainAssumption DEF ChainAssumption
<1>1. CASE SaveContractOpReceipt
  BY <1>1, <1>b DEF SaveContractOpReceipt
<1>2. CASE SaveReceiptEvent
  <2>1. ReceiptKey' = ReceiptKey /\ ReceiptKey \in OpKeys
    BY <1>2, KeysInRange DEF SaveReceiptEvent, ReceiptKey, Receipt, Tx
  <2>2. h < e \/ h = e
    BY <1>2, <1>a, <1>b DEF SaveReceiptEvent, ScanTypeOK
  <2>3. <<ReceiptKey, h>> \in EventKeys
    BY <2>1 DEF EventKeys
  <2>4. receiptEvents \in [EventKeys -> Nat] /\ receiptEvents' = Insert(receiptEvents, <<ReceiptKey, e>>)
    BY <1>2, <1>a DEF SaveReceiptEvent, RowsTypeOK
  <2>5. h < e => receiptEvents[<<ReceiptKey, h>>] > 0
    BY <1>2, <2>3 DEF SaveReceiptEvent, EventsBefore, StoredEvents
  <2>6. receiptEvents'[<<ReceiptKey, h>>] > 0
    BY <2>2, <2>3, <2>4, <2>5, InsertKeeps
  <2> QED
    BY <2>1, <2>3, <2>6 DEF StoredEvents
<1>3. CASE pc = "events" /\ UNCHANGED <<n, t, r, e, rowVars>>
  BY <1>3 DEF EventsBefore, StoredEvents, ReceiptKey, Receipt, Tx, rowVars, receiptRows
<1> QED
  BY <1>1, <1>2, <1>3, AtEvents

-----------------------------------------------------------------------------
(* A row is stored after its parents.                                       *)

OrphanFree ==
    /\ \A x \in StoredTxs : \E b \in StoredBlocks : x \in TxidsOf(b)
    /\ \A k \in StoredOpTables \cup StoredReceipts : k[1] \in StoredTxs
    /\ StoredOps \subseteq StoredOpTables
    /\ applied \subseteq StoredOps
    /\ \A k \in StoredEvents :
          /\ k[1] \in StoredReceipts
          /\ \A h \in 1 .. MaxEvents : h <= k[2] => <<k[1], h>> \in StoredEvents

\* Which is NoOrphanRows, said with the sets of keys that have a row.
LEMMA OrphanFreeSuffices == RowsTypeOK /\ OrphanFree => NoOrphanRows
<1> SUFFICES ASSUME RowsTypeOK, OrphanFree PROVE NoOrphanRows
  OBVIOUS
<1>1. ASSUME NEW x \in Txids, transactions[x] > 0
      PROVE  \E b \in Heights : x \in TxidsOf(b) /\ blocks[b] > 0
  BY <1>1 DEF OrphanFree, StoredTxs, StoredBlocks
<1>2. ASSUME NEW k \in OpKeys
      PROVE  /\ opTables[k] > 0 => transactions[k[1]] > 0
             /\ operations[k] > 0 => opTables[k] > 0
             /\ k \in applied => operations[k] > 0
             /\ opReceipts[k] > 0 => transactions[k[1]] > 0
  BY DEF OrphanFree, StoredTxs, StoredOpTables, StoredOps, StoredReceipts
<1>3. ASSUME NEW k \in OpKeys, NEW i \in 1 .. MaxEvents, receiptEvents[<<k, i>>] > 0
      PROVE  /\ opReceipts[k] > 0
             /\ \A h \in 1 .. i : receiptEvents[<<k, h>>] > 0
  <2>1. <<k, i>> \in StoredEvents
    BY <1>3 DEF StoredEvents, EventKeys
  <2>2. MaxEvents \in Nat /\ \A h \in 1 .. i : h \in 1 .. MaxEvents /\ h <= i
    BY ChainAssumption DEF ChainAssumption
  <2>3. <<k, i>>[1] = k /\ <<k, i>>[2] = i
    OBVIOUS
  <2>4. /\ k \in StoredReceipts
        /\ \A h \in 1 .. MaxEvents : h <= i => <<k, h>> \in StoredEvents
    BY <2>1, <2>3 DEF OrphanFree
  <2> QED
    BY <2>2, <2>4 DEF StoredReceipts, StoredEvents
<1> QED
  BY <1>1, <1>2, <1>3 DEF NoOrphanRows

\* Every step stores a row only when the scan has stored its parents.
LEMMA OrphanFreeStep ==
    ASSUME TypeInv, ScanInv, EventsBefore, OrphanFree, [Next]_vars
    PROVE  OrphanFree'
<1>a. RowsKept /\ NewRows
  BY RowsKeptStep, NewRowsStep
<1>b. IndexesInRange /\ ScanTypeOK
  BY DEF TypeInv, TypeOK
<1>1. ASSUME NEW x \in StoredTxs' PROVE \E b \in StoredBlocks' : x \in TxidsOf(b)
  <2>1. CASE x \in StoredTxs
    BY <1>a, <2>1 DEF OrphanFree, RowsKept
  <2>2. CASE pc = "txRow" /\ x = Tx
    <3>1. n \in StoredBlocks /\ x \in TxidsOf(n)
      BY <1>b, <2>2
         DEF ScanInv, TransactionsScanned, IndexesInRange, BlockPcs, TxPcs, Tx, TxidsOf
    <3> QED
      BY <1>a, <3>1 DEF RowsKept
  <2> QED
    BY <1>a, <2>1, <2>2 DEF NewRows
<1>2. ASSUME NEW k \in StoredOpTables' \cup StoredReceipts' PROVE k[1] \in StoredTxs'
  <2>1. CASE k \in StoredOpTables \cup StoredReceipts
    BY <1>a, <2>1 DEF OrphanFree, RowsKept
  <2>2. CASE pc \in {"op", "receipts"} /\ k[1] = Tx
    BY <1>a, <2>2 DEF ScanInv, OperationsScanned, TxPcs, RowsKept
  <2> QED
    BY <1>a, <2>1, <2>2 DEF NewRows, Key, ReceiptKey
<1>3. StoredOps' \subseteq StoredOpTables'
  BY <1>a DEF NewRows, RowsKept, OrphanFree, ScanInv, OperationsScanned
<1>4. applied' \subseteq StoredOps'
  BY <1>a DEF NewRows, RowsKept, OrphanFree, ScanInv, OperationsScanned
<1>5. ASSUME NEW k \in StoredEvents'
      PROVE  /\ k[1] \in StoredReceipts'
             /\ \A h \in 1 .. MaxEvents : h <= k[2] => <<k[1], h>> \in StoredEvents'
  <2>0. StoredEvents \subseteq StoredEvents'
    BY EventsKept
  <2>1. CASE k \in StoredEvents
    BY <1>a, <2>0, <2>1 DEF OrphanFree, RowsKept
  <2>2. CASE pc = "events" /\ k = <<ReceiptKey, e>>
    <3>1. ReceiptKey \in StoredReceipts
      BY <2>2 DEF ScanInv, ReceiptsScanned
    <3>2. ASSUME NEW h \in 1 .. MaxEvents, h <= e PROVE <<ReceiptKey, h>> \in StoredEvents'
      <4>1. h < e \/ h = e
        BY <1>b, <3>2, ChainAssumption DEF ScanTypeOK, ChainAssumption
      <4> QED
        BY <2>0, <2>2, <4>1 DEF EventsBefore
    <3> QED
      BY <1>a, <2>2, <3>1, <3>2 DEF RowsKept
  <2> QED
    BY <1>a, <2>1, <2>2 DEF NewRows
<1> QED
  BY <1>1, <1>2, <1>3, <1>4, <1>5 DEF OrphanFree

\* The scan's invariant, with the order in which rows are stored.
RowInv == TypeInv /\ ScanInv /\ EventsBefore /\ OrphanFree

\* It holds at first.
LEMMA RowInvInit == Init => RowInv
<1> SUFFICES ASSUME Init PROVE EventsBefore /\ OrphanFree
  BY TypeInvInit, ScanInvInit DEF RowInv
<1> QED
  BY DEF Init, EventsBefore, OrphanFree, NoRows, StoredBlocks, StoredTxs,
         StoredOpTables, StoredOps, StoredReceipts, StoredEvents

\* Every step keeps it.
LEMMA RowInvStep == RowInv /\ [Next]_vars => RowInv'
BY TypeInvStep, BlocksScannedStep, TransactionsScannedStep, OperationsScannedStep,
   ReceiptsScannedStep, EventsBeforeStep, OrphanFreeStep
   DEF RowInv, ScanInv

\* So it holds in every state.
LEMMA RowInvInvariant == Spec => []RowInv
BY RowInvInit, RowInvStep, PTL DEF Spec

\* At every instant, hence wherever the process is killed and whatever call
\* fails, every row's parents are stored, in all seven tables.
THEOREM NoRowsAreOrphans == Spec => []NoOrphanRows
<1>1. RowInv => NoOrphanRows
  BY OrphanFreeSuffices DEF RowInv, TypeInv, TypeOK
<1> QED
  BY <1>1, RowInvInvariant, PTL

-----------------------------------------------------------------------------
(* What a step does to the tables, the checkpoint and the waived blocks, as *)
(* seen by anyone else who relies on them.                                  *)

SharedKept ==
    /\ RowsKept
    /\ StoredEvents \subseteq StoredEvents'
    /\ waived' >= waived

SharedInv ==
    /\ head \in 0 .. Len(Chain)
    /\ checkpoints \subseteq Nat /\ waived \in Nat /\ lost \subseteq Txids
    /\ RowsTypeOK
    /\ CheckpointScanned
    /\ OrphanFree

\* No step takes back a row, or a block once waived.
LEMMA SharedKeptStep == RowInv /\ [Next]_vars => SharedKept
<1> SUFFICES ASSUME RowInv, [Next]_vars PROVE waived' >= waived
  BY RowsKeptStep, EventsKept DEF RowInv, SharedKept
<1>1. waived \in Nat /\ waived' \in Nat
  BY TypeInvStep DEF RowInv, TypeInv, TypeOK, ScanTypeOK
<1>2. ASSUME Start PROVE waived' >= waived
  <2>1. flag' \in Int
    BY <1>2, TypeInvStep DEF RowInv, TypeInv, TypeOK, ProcessTypeOK
  <2> QED
    BY <1>1, <1>2, <2>1 DEF Start
<1>3. ASSUME ProcessEnds \/ UpdateLastScannedAtHead \/ FinishBlock
      PROVE  waived' = waived
  BY <1>3 DEF ProcessEnds, UpdateLastScannedAtHead, FinishBlock, ghostVars
<1> QED
  BY <1>1, <1>2, <1>3, OnlyMoves

DownAtZero == pc = "down" => n = 0

\* A process that is not there is at no block.
LEMMA DownAtZeroStep == DownAtZero /\ [Next]_vars => DownAtZero'
BY OnlyMoves DEF DownAtZero, Start, ProcessEnds, UpdateLastScannedAtHead, FinishBlock

\* The scan's invariant survives what anyone else does to the tables, as long
\* as no row is taken back: all it knows of them is that rows are there.
LEMMA RowInvUnderSharing ==
    ASSUME RowInv, SharedKept, SharedInv', UNCHANGED <<procVars, scanVars>>
    PROVE  RowInv'
<1>a. /\ UNCHANGED <<starts, conn, stopping, flag, pc, end, n, t, o, r, e, got>>
      /\ Tx' = Tx /\ Key' = Key /\ Receipt' = Receipt /\ ReceiptKey' = ReceiptKey
  BY DEF procVars, scanVars, indexVars, Tx, Key, Receipt, ReceiptKey
<1>b. TypeInv /\ ScanInv /\ EventsBefore /\ ScanTypeOK /\ ProcessTypeOK /\ IndexesInRange
  BY DEF RowInv, TypeInv, TypeOK
<1>c. /\ RowsKept
      /\ DoneOps \subseteq DoneOps'
      /\ AccountedTxs \subseteq AccountedTxs'
      /\ BlocksDone \subseteq BlocksDone'
      /\ lost \subseteq lost'
  BY DoneKept DEF SharedKept, RowsKept
<1>1. TypeInv'
  BY <1>a, <1>b
     DEF SharedInv, TypeInv, TypeOK, ProcessTypeOK, ScanTypeOK, IndexesInRange
<1>2. BlocksScanned'
  <2>1. waived \in Nat /\ waived' \in Nat /\ waived' >= waived
    BY <1>b DEF ScanTypeOK, SharedInv, SharedKept
  <2>2. waived' + 1 .. n - 1 \subseteq waived + 1 .. n - 1
    BY <2>1
  <2> QED
    BY <1>a, <1>b, <1>c, <2>2 DEF ScanInv, BlocksScanned
<1>3. TransactionsScanned'
  BY <1>a, <1>b, <1>c DEF ScanInv, TransactionsScanned, RowsKept
<1>4. OperationsScanned'
  BY <1>a, <1>b, <1>c DEF ScanInv, OperationsScanned, RowsKept
<1>5. ReceiptsScanned'
  BY <1>a, <1>b, <1>c DEF ScanInv, ReceiptsScanned, RowsKept
<1>6. EventsBefore'
  BY <1>a, <1>b DEF EventsBefore, SharedKept
<1> QED
  BY <1>1, <1>2, <1>3, <1>4, <1>5, <1>6 DEF RowInv, ScanInv, SharedInv

-----------------------------------------------------------------------------
(* One row per key.  The find before an insert sees to it where there is    *)
(* one; events have none, and are single because their receipt is.          *)

Single(table) == \A k \in DOMAIN table : table[k] <= 1

\* When no find misses a row, finding or inserting keeps the rows single, also
\* when the insert fails; so does an insert of a row that is not there.
LEMMA InsertSingle ==
    ASSUME NEW Keys, NEW table \in [Keys -> Nat], NEW key, Single(table)
    PROVE  /\ ~Found(table, key) => Single(Insert(table, key))
           /\ ~RowsMissed => \A new \in FindOrInsert(table, key) : Single(new)
           /\ ~RowsMissed => \A new \in FailedInsert(table, key) : Single(new)
<1>1. ASSUME ~Found(table, key) PROVE Single(Insert(table, key))
  <2> SUFFICES ASSUME NEW k \in Keys PROVE Insert(table, key)[k] <= 1
    BY DEF Single, Insert
  <2>1. CASE k = key
    BY <1>1, <2>1 DEF Found, Insert
  <2>2. CASE k # key
    BY <2>2 DEF Single, Insert
  <2> QED
    BY <2>1, <2>2
<1>2. ASSUME ~RowsMissed PROVE \A new \in FindOrInsert(table, key) : Single(new)
  BY <1>1, <1>2 DEF FindOrInsert, FindResults
<1> QED
  BY <1>1, <1>2 DEF FailedInsert

EventsAhead ==
    pc = "events" => \A h \in 1 .. MaxEvents : h >= e => <<ReceiptKey, h>> \notin StoredEvents

\* Every step keeps the events that are still to be written unwritten.
LEMMA EventsAheadStep ==
    ASSUME ~RowsMissed, RowInv, EventsAhead, [Next]_vars
    PROVE  EventsAhead'
<1> SUFFICES ASSUME pc' = "events", NEW h \in 1 .. MaxEvents, h >= e'
             PROVE  <<ReceiptKey', h>> \notin StoredEvents'
  BY DEF EventsAhead
<1>a. TypeInv /\ OrphanFree /\ ScanTypeOK /\ h \in Nat
  BY DEF RowInv, TypeInv, TypeOK
<1>b. NewRows
  BY <1>a, NewRowsStep
<1>1. CASE SaveContractOpReceipt
  <2>1. ReceiptKey' = ReceiptKey /\ StoredEvents' = StoredEvents
    BY <1>1 DEF SaveContractOpReceipt, ReceiptKey, Receipt, Tx, StoredEvents
  <2>2. ReceiptKey \notin StoredReceipts
    BY <1>1 DEF SaveContractOpReceipt, FindResults, Found, StoredReceipts
  <2> QED
    BY <1>a, <2>1, <2>2 DEF OrphanFree
<1>2. CASE SaveReceiptEvent
  <2>1. ReceiptKey' = ReceiptKey /\ e' = e + 1 /\ pc = "events"
    BY <1>2 DEF SaveReceiptEvent, ReceiptKey, Receipt, Tx
  <2>2. h >= e /\ h # e
    BY <1>a, <2>1 DEF ScanTypeOK
  <2>3. <<ReceiptKey, h>> # <<ReceiptKey, e>>
    BY <2>2
  <2> QED
    BY <1>b, <2>1, <2>2, <2>3 DEF EventsAhead, NewRows
<1>3. CASE pc = "events" /\ UNCHANGED <<n, t, r, e, rowVars>>
  BY <1>3 DEF EventsAhead, StoredEvents, ReceiptKey, Receipt, Tx, rowVars, receiptRows
<1> QED
  BY <1>1, <1>2, <1>3, AtEvents

RowsSingle ==
    /\ Single(blocks) /\ Single(transactions)
    /\ Single(opTables) /\ Single(operations)
    /\ Single(opReceipts) /\ Single(receiptEvents)

\* Every step inserts a row only where there is none.
LEMMA RowsSingleStep ==
    ASSUME ~RowsMissed, RowInv, EventsAhead, RowsSingle, [Next]_vars
    PROVE  RowsSingle'
<1>0. TypeInv /\ RowsTypeOK
  BY DEF RowInv, TypeInv, TypeOK
<1> USE DEF RowsSingle
<1>1. CASE SaveBlock \/ SaveBlockFails
  <2>1. Single(blocks')
    BY <1>0, <1>1, InsertSingle DEF SaveBlock, SaveBlockFails, RowsTypeOK
  <2> QED
    BY <1>1, <2>1 DEF SaveBlock, SaveBlockFails, receiptRows
<1>2. CASE UpdatePreviousBlockHash \/ UpdatePreviousBlockHashFails
  BY <1>2 DEF UpdatePreviousBlockHash, UpdatePreviousBlockHashFails, receiptRows
<1>3. CASE SaveTransaction \/ SaveTransactionFails
  <2>1. Single(transactions')
    BY <1>0, <1>3, InsertSingle DEF SaveTransaction, SaveTransactionFails, RowsTypeOK
  <2> QED
    BY <1>3, <2>1 DEF SaveTransaction, SaveTransactionFails, blockRows, receiptRows
<1>4. CASE SaveOperation
  <2>1. Single(opTables')
    BY <1>0, <1>4, InsertSingle DEF SaveOperation, RowsTypeOK
  <2> QED
    BY <1>4, <2>1 DEF SaveOperation, blockRows, receiptRows
<1>5. CASE SaveBaseOperation
  <2>1. Single(operations')
    BY <1>0, <1>5, InsertSingle DEF SaveBaseOperation, RowsTypeOK
  <2> QED
    BY <1>5, <2>1 DEF SaveBaseOperation, blockRows, receiptRows
<1>6. CASE ApplyPluginsToOperation
  BY <1>6 DEF ApplyPluginsToOperation, blockRows, receiptRows
<1>7. CASE SaveContractOpReceipt
  <2>1. Single(opReceipts')
    BY <1>0, <1>7, InsertSingle DEF SaveContractOpReceipt, RowsTypeOK, FindResults
  <2> QED
    BY <1>7, <2>1 DEF SaveContractOpReceipt, blockRows
<1>8. CASE SaveReceiptEvent
  <2> DEFINE key == <<ReceiptKey, e>>
  <2>1. /\ receiptEvents \in [EventKeys -> Nat]
        /\ receiptEvents' = Insert(receiptEvents, key)
    BY <1>0, <1>8 DEF SaveReceiptEvent, RowsTypeOK
  <2>2. key \in EventKeys /\ key \notin StoredEvents
    <3>1. ReceiptKey \in OpKeys /\ e \in 1 .. MaxEvents
      BY <1>0, <1>8, KeysInRange, ChainAssumption
         DEF SaveReceiptEvent, TypeInv, TypeOK, ScanTypeOK, IndexesInRange, ChainAssumption
    <3> QED
      BY <1>8, <3>1 DEF SaveReceiptEvent, EventsAhead, EventKeys
  <2>3. ~Found(receiptEvents, key)
    BY <2>2 DEF Found, StoredEvents
  <2> HIDE DEF key
  <2>4. Single(receiptEvents')
    BY <2>1, <2>3, InsertSingle
  <2> QED
    BY <1>8, <2>4 DEF SaveReceiptEvent, blockRows
<1>9. CASE UNCHANGED rowVars
  BY <1>9 DEF rowVars, blockRows, receiptRows
<1> QED
  BY <1>1, <1>2, <1>3, <1>4, <1>5, <1>6, <1>7, <1>8, <1>9, OnlyRowWrites DEF RowWrite

\* While no find misses a row and no other scanner writes, no key of any table
\* ever has two rows, though only blocks has a unique key, a failed insert may
\* have been committed, and every restart scans blocks again.
THEOREM NoRowsAreDuplicates ==
    ASSUME ~RowsMissed
    PROVE  Spec => []NoDuplicateRows
<1>1. Init => EventsAhead /\ RowsSingle /\ CheckpointBehind
  BY DEF Init, EventsAhead, RowsSingle, Single, NoRows, CheckpointBehind
<1>2. RowInv /\ EventsAhead /\ RowsSingle /\ CheckpointBehind /\ [Next]_vars =>
        EventsAhead' /\ RowsSingle' /\ CheckpointBehind'
  BY EventsAheadStep, RowsSingleStep, CheckpointBehindStep DEF RowInv
<1>3. RowInv /\ RowsSingle /\ CheckpointBehind => NoDuplicateRows
  BY DEF RowInv, TypeInv, TypeOK, RowsTypeOK, RowsSingle, Single, CheckpointBehind,
         NoDuplicateRows
<1> QED
  BY <1>1, <1>2, <1>3, RowInvInvariant, PTL DEF Spec

-----------------------------------------------------------------------------
(* The block_id of a block is filled in when the next block is scanned,     *)
(* maybe by another process.                                                *)

AfterPrevious == BlockPcs \ {"block", "previous"}

IdsFilled ==
    /\ \A b \in Heights : blockId[b] \in {0, b}
    /\ \A c \in checkpoints : \A b \in waived + 1 .. c - 1 : blockId[b] = b
    /\ pc # "down" => \A b \in waived + 1 .. n - 2 : blockId[b] = b
    /\ pc \in AfterPrevious /\ waived + 1 <= n - 1 => blockId[n - 1] = n - 1

\* The transactions of a block are reached through the previous block's id only.
LEMMA OnlyAfterPrevious ==
    ASSUME [Next]_vars, pc' \in AfterPrevious
    PROVE  pc \in AfterPrevious \/ UpdatePreviousBlockHash
<1> SUFFICES ASSUME ~UpdatePreviousBlockHash PROVE pc \in AfterPrevious
  OBVIOUS
<1> USE DEF AfterPrevious, BlockPcs
<1>1. CASE Start \/ ProcessEnds
  BY <1>1 DEF Start, ProcessEnds
<1>2. CASE Interrupt \/ CloseHxNodeConn \/ NodeProducesBlock
  BY <1>2 DEF Interrupt, CloseHxNodeConn, NodeProducesBlock, scanVars
<1>3. CASE LoopHead \/ GetBlock \/ GetBlockFails \/ UpdateLastScannedAtHead
  BY <1>3 DEF LoopHead, GetBlock, GetBlockFails, UpdateLastScannedAtHead
<1>4. CASE SaveBlock \/ SaveBlockFails \/ UpdatePreviousBlockHashFails
  BY <1>4 DEF SaveBlock, SaveBlockFails, UpdatePreviousBlockHashFails
<1>5. CASE \/ GetTxReceipts \/ GetTxReceiptsFails
           \/ SaveTransaction \/ SaveTransactionFails \/ TransactionsDone
  BY <1>5 DEF GetTxReceipts, GetTxReceiptsFails, SaveTransaction, SaveTransactionFails,
              TransactionsDone
<1>6. CASE \/ OpTypeUnknown \/ SaveOperation \/ SaveBaseOperation \/ FindOperationFails
           \/ ApplyPluginsToOperation \/ OpsDone
  BY <1>6 DEF OpTypeUnknown, SaveOperation, SaveBaseOperation, FindOperationFails,
              ApplyPluginsToOperation, OpsDone
<1>7. CASE \/ FindContractOpReceipt \/ SaveContractOpReceipt \/ SaveReceiptEvent
           \/ EventsDone \/ ReceiptsDone \/ FinishBlock
  BY <1>7 DEF FindContractOpReceipt, SaveContractOpReceipt, SaveReceiptEvent, EventsDone,
              ReceiptsDone, FinishBlock
<1>8. CASE UNCHANGED vars
  BY <1>8 DEF vars, scanVars
<1> QED
  BY <1>1, <1>2, <1>3, <1>4, <1>5, <1>6, <1>7, <1>8 DEF Next, ScanStep

\* An id is filled in once, with the block's own.
LEMMA FilledOnce ==
    ASSUME TypeInv, \A b \in Heights : blockId[b] \in {0, b}, [Next]_vars
    PROVE  /\ \A b \in Heights : blockId'[b] \in {0, b} /\ (blockId[b] = b => blockId'[b] = b)
           /\ UpdatePreviousBlockHash \/ UpdatePreviousBlockHashFails \/ blockId' = blockId
<1>a. /\ blockId \in [Heights -> Nat] /\ n \in Nat
      /\ pc = "previous" => n \in Heights
  BY DEF TypeInv, TypeOK, RowsTypeOK, ScanTypeOK, IndexesInRange, BlockPcs
<1>1. UpdatePreviousBlockHash \/ UpdatePreviousBlockHashFails \/ blockId' = blockId
  BY OnlyRowWrites
     DEF RowWrite, rowVars, blockRows, SaveBlock, SaveBlockFails, SaveTransaction,
         SaveTransactionFails, SaveOperation, SaveBaseOperation,
         ApplyPluginsToOperation, SaveContractOpReceipt, SaveReceiptEvent
<1>2. ASSUME NEW b \in Heights
      PROVE  PreviousIdFilled[b] \in {0, b} /\ (blockId[b] = b => PreviousIdFilled[b] = b)
  BY <1>a, <1>2 DEF PreviousIdFilled, Previous
<1>3. UpdatePreviousBlockHash \/ UpdatePreviousBlockHashFails =>
          blockId' = PreviousIdFilled \/ blockId' = blockId
  BY DEF UpdatePreviousBlockHash, UpdatePreviousBlockHashFails
<1> QED
  BY <1>1, <1>2, <1>3

\* Intervals that end one block early.
LEMMA InnerInterval ==
    ASSUME NEW v \in Nat, NEW w \in Nat, NEW k \in Nat, v >= w
    PROVE  /\ v + 1 .. k - 1 \subseteq w + 1 .. k - 1
           /\ (w + 1) - 2 = w - 1
           /\ v + 1 .. w - 1 = {}
OBVIOUS

\* Every step keeps the ids filled in up to the block before the scan's.
LEMMA IdsFilledStep ==
    ASSUME ~RowsMissed, TypeInv, TypeInv', ScanInv, IdsFilled, [Next]_vars
    PROVE  IdsFilled'
<1>a. /\ n \in Nat /\ n' \in Nat /\ waived \in Nat /\ waived' \in Nat
      /\ checkpoints \subseteq Nat /\ ScanTypeOK
      /\ pc \in BlockPcs => n \in Heights
      /\ blockId \in [Heights -> Nat]
  BY DEF TypeInv, TypeOK, ScanTypeOK, RowsTypeOK, IndexesInRange
<1>b. \A b \in Heights : blockId'[b] \in {0, b} /\ (blockId[b] = b => blockId'[b] = b)
  BY FilledOnce DEF IdsFilled
<1>c. \A b : blockId[b] = b /\ blockId' = blockId => blockId'[b] = b
  OBVIOUS
<1>1. CASE Start
  <2>1. blockId' = blockId /\ checkpoints' = checkpoints /\ pc' = "loop"
    BY <1>1 DEF Start, dbVars, rowVars, blockRows
  <2>a. flag' \in Nat \cup {-1}
    BY <1>1, <1>a, StartFacts
  <2>2. waived \in Nat /\ waived' \in Nat /\ waived' >= waived /\ waived' >= flag'
    BY <1>1, <1>a, <2>a DEF Start
  <2>3. \A c \in checkpoints : \A b \in waived' + 1 .. c - 1 : blockId[b] = b
    <3> SUFFICES ASSUME NEW c \in checkpoints, NEW b \in waived' + 1 .. c - 1
                 PROVE  blockId[b] = b
      OBVIOUS
    <3>1. b \in waived + 1 .. c - 1
      BY <1>a, <2>2, InnerInterval
    <3> QED
      BY <3>1 DEF IdsFilled
  <2>4. \A b \in waived' + 1 .. n' - 2 : blockId[b] = b
    <3>1. CASE flag' < 0
      <4>1. PICK c \in GetLastScannedBlockNumber : c \in Nat /\ n' = c + 1
        BY <1>1, <1>a, <3>1, StartFacts
      <4>2. n' - 2 = c - 1
        BY <4>1
      <4>3. CASE c \in checkpoints
        BY <2>3, <4>2, <4>3
      <4>4. CASE c \notin checkpoints
        <5>1. c = 0
          BY <4>4 DEF GetLastScannedBlockNumber
        <5>2. waived' + 1 .. n' - 2 = {}
          BY <2>2, <4>2, <5>1
        <5> QED
          BY <5>2
      <4> QED
        BY <4>3, <4>4
    <3>2. CASE ~(flag' < 0)
      <4>1. flag' \in Nat /\ n' = flag' + 1
        BY <1>1, <1>a, <3>2, StartFacts
      <4>2. waived' + 1 .. n' - 2 = {}
        BY <2>2, <4>1, InnerInterval
      <4> QED
        BY <4>2
    <3> QED
      BY <3>1, <3>2
  <2> QED
    BY <1>b, <2>1, <2>3, <2>4 DEF IdsFilled, AfterPrevious, BlockPcs
<1>2. CASE ProcessEnds
  BY <1>2, <1>b DEF ProcessEnds, IdsFilled, AfterPrevious, BlockPcs, dbVars, rowVars,
                    blockRows, ghostVars
<1>3. CASE UpdateLastScannedAtHead
  <2>1. UNCHANGED <<blockId, n, waived>> /\ pc # "down" /\ pc' = "loop"
    BY <1>3 DEF UpdateLastScannedAtHead, rowVars, blockRows, ghostVars
  <2>2. \A c \in checkpoints' : c \in checkpoints \/ c = n - 1
    BY <1>3, CheckpointWritten DEF UpdateLastScannedAtHead, HeadCheckpoint
  <2>3. (n - 1) - 1 = n - 2
    BY <1>a
  <2> QED
    BY <1>b, <2>1, <2>2, <2>3 DEF IdsFilled, AfterPrevious, BlockPcs
<1>4. CASE FinishBlock
  <2>1. UNCHANGED <<blockId, waived>> /\ pc = "mark" /\ n' = n + 1 /\ pc' = "loop"
    BY <1>4 DEF FinishBlock, NextBlock, rowVars, blockRows, ghostVars
  <2>2. \A c \in checkpoints' : c \in checkpoints \/ c = n
    BY <1>4, CheckpointWritten DEF FinishBlock
  <2>3. \A b \in waived + 1 .. n - 1 : blockId[b] = b
    <3> SUFFICES ASSUME NEW b \in waived + 1 .. n - 1 PROVE blockId[b] = b
      OBVIOUS
    <3>1. b \in waived + 1 .. n - 2 \/ (b = n - 1 /\ waived + 1 <= n - 1)
      BY <1>a
    <3> QED
      BY <2>1, <3>1 DEF IdsFilled, AfterPrevious, BlockPcs
  <2>4. n' - 2 = n - 1
    BY <1>a, <2>1
  <2> QED
    BY <1>b, <2>1, <2>2, <2>3, <2>4 DEF IdsFilled, AfterPrevious, BlockPcs
<1>5. CASE UpdatePreviousBlockHash \/ UpdatePreviousBlockHashFails
  <2>1. /\ UNCHANGED <<n, waived, checkpoints>>
        /\ pc = "previous" /\ n \in Heights
    BY <1>5, <1>a
       DEF UpdatePreviousBlockHash, UpdatePreviousBlockHashFails, BlockPcs, ghostVars
  <2>2. \A b \in waived + 1 .. n - 1 : b \in BlocksDone
    BY <2>1 DEF ScanInv, BlocksScanned
  <2>3. \A b \in waived + 1 .. n - 2 : blockId'[b] = b
    <3> SUFFICES ASSUME NEW b \in waived + 1 .. n - 2 PROVE blockId'[b] = b
      OBVIOUS
    <3>1. b \in waived + 1 .. n - 1
      BY <1>a
    <3>2. b \in Heights
      BY <2>2, <3>1 DEF BlocksDone
    <3> QED
      BY <1>b, <2>1, <3>2 DEF IdsFilled
  <2>4. \A c \in checkpoints : \A b \in waived + 1 .. c - 1 : blockId'[b] = b
    <3> SUFFICES ASSUME NEW c \in checkpoints, NEW b \in waived + 1 .. c - 1
                 PROVE  blockId'[b] = b
      OBVIOUS
    <3>1. b \in waived + 1 .. c
      BY <1>a
    <3>2. b \in Heights
      BY <3>1 DEF ScanInv, CheckpointScanned, BlocksDone
    <3> QED
      BY <1>b, <3>2 DEF IdsFilled
  <2>5. ASSUME UpdatePreviousBlockHash, waived + 1 <= n - 1 PROVE blockId'[n - 1] = n - 1
    <3>1. n - 1 \in waived + 1 .. n - 1 /\ n > 1 /\ n - 1 # 0
      BY <1>a, <2>5
    <3>2. n - 1 \in Heights /\ Found(blocks, n - 1)
      BY <2>2, <3>1 DEF BlocksDone, BlockDone, Found
    <3>3. blockId' = PreviousIdFilled
      BY <2>5, <3>2 DEF UpdatePreviousBlockHash, FindResults
    <3>4. PreviousIdFilled[n - 1] = n - 1
      BY <1>a, <3>1, <3>2 DEF PreviousIdFilled, Previous, IdsFilled
    <3> QED
      BY <3>3, <3>4
  <2>6. pc' \in AfterPrevious => UpdatePreviousBlockHash
    BY <1>5 DEF UpdatePreviousBlockHashFails, AfterPrevious, BlockPcs
  <2> QED
    BY <1>b, <2>1, <2>3, <2>4, <2>5, <2>6 DEF IdsFilled
<1>6. CASE /\ UNCHANGED <<n, checkpoints, waived, flag>>
           /\ (pc' = "down") = (pc = "down")
           /\ ~UpdatePreviousBlockHash /\ ~UpdatePreviousBlockHashFails
  <2>1. blockId' = blockId
    BY <1>6, FilledOnce DEF IdsFilled
  <2> QED
    BY <1>6, <1>b, <2>1, OnlyAfterPrevious DEF IdsFilled
<1> QED
  BY <1>1, <1>2, <1>3, <1>4, <1>5, <1>6, OnlyMoves

\* While no find misses a row, every block below the checkpoint whose successor
\* is below it too has its block_id, though the two may have been scanned by
\* different processes.
THEOREM PreviousIdsAreFilled ==
    ASSUME ~RowsMissed
    PROVE  Spec => []PreviousIdsFilled
<1>1. Init => IdsFilled
  BY DEF Init, IdsFilled, NoRows, AfterPrevious, BlockPcs
<1>2. TypeInv /\ TypeInv' /\ ScanInv /\ IdsFilled /\ [Next]_vars => IdsFilled'
  BY IdsFilledStep
<1>3. TypeInv /\ IdsFilled => PreviousIdsFilled
  <2> SUFFICES ASSUME TypeInv, IdsFilled, NEW c \in checkpoints, NEW d \in checkpoints,
                      NEW b \in waived + 1 .. d, b + 1 \in waived + 1 .. c
               PROVE  blockId[b] = b
    BY DEF PreviousIdsFilled, Recorded
  <2>1. b \in waived + 1 .. c - 1
    BY DEF TypeInv, TypeOK, ScanTypeOK
  <2> QED
    BY <2>1 DEF IdsFilled
<1> QED
  BY <1>1, <1>2, <1>3, ScanInvInvariant, PTL DEF Spec
=============================================================================
