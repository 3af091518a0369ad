------------------------ MODULE OperationTablesProofs ------------------------
(***************************************************************************)
(* Proofs about OperationTables, for every chain, every division of the    *)
(* types into named, nameless and folded ones, and every set of faults.    *)
(***************************************************************************)
EXTENDS OperationTables, TLAPS

-----------------------------------------------------------------------------
(* The inductive invariant.                                                 *)

\* The scan has an operation in hand.
OpPcs == {"create", "index", "exist", "schema", "insert"}

PositionInv ==
    /\ pc # "down" => n \in 1 .. Len(Chain) + 1
    /\ pc = "op" => n \in Heights
    /\ pc \in OpPcs => n \in Heights /\ i \in DOMAIN Chain[n]
    /\ i >= 1

\* A table has the columns of some operation of its type; the cache remembers
\* only tables that are there, which is why CREATE TABLE makes no entry stale.
SchemaInv ==
    /\ \A t \in tables : \E b \in Heights : \E j \in DOMAIN Chain[b] :
          Chain[b][j].type = t /\ columns[t] = Chain[b][j].props \cup AddedProps
    /\ CacheIsTheTable
    /\ \A t \in Types : tableSchemaCache[t] # <<>> => t \in tables
    /\ pc \in OpPcs \ {"create"} => Type \in tables
    /\ pc = "insert" => tableSchemaCache[Type] # <<>>

RowsInv ==
    /\ rows \in [OpKeys -> Seq(SUBSET PropsStored)]
    /\ RowsHoldTheirColumns
    /\ \A b \in Heights : \A j \in DOMAIN Chain[b] :
          rows[<<b, j>>] # <<>> => Chain[b][j].type \in tables

\* The operations the scan need not come back to.
Settled == {k \in OpKeys : rows[k] # <<>>} \cup lost

StoredInv ==
    /\ \A b \in 1 .. lastScanned : \A j \in DOMAIN Chain[b] : <<b, j>> \in Settled
    /\ pc # "down" => \A b \in 1 .. n - 1 : \A j \in DOMAIN Chain[b] : <<b, j>> \in Settled
    /\ pc \in {"op"} \cup OpPcs =>
          \A j \in DOMAIN Chain[n] : j < i => <<n, j>> \in Settled

TablesInv == TypeOK /\ PositionInv /\ SchemaInv /\ RowsInv /\ StoredInv

-----------------------------------------------------------------------------
(* The constants, and the operation in hand.                                *)

\* What the assumptions say of a block and its operations.
LEMMA ChainFacts ==
    /\ Len(Chain) \in Nat /\ Heights = 1 .. Len(Chain)
    /\ \A b \in Heights : Len(Chain[b]) \in Nat /\ DOMAIN Chain[b] = 1 .. Len(Chain[b])
    /\ \A b \in Heights : \A j \in DOMAIN Chain[b] :
          /\ <<b, j>> \in OpKeys
          /\ Chain[b][j].type \in Types
          /\ OpJson(Chain[b][j]) \in SUBSET PropsStored
<1> DEFINE Operation == [type : Types, props : SUBSET Props]
<1>1. /\ Chain \in Seq(Seq(Operation))
      /\ MaxOps \in Nat /\ \A b \in Heights : Len(Chain[b]) <= MaxOps
  BY OperationsAssumption DEF OperationsAssumption
<1>2. \A op \in Operation : op.type \in Types /\ OpJson(op) \in SUBSET PropsStored
  BY DEF OpJson, PropsStored
<1> HIDE DEF Operation
<1>3. Len(Chain) \in Nat /\ Heights = 1 .. Len(Chain)
  BY <1>1 DEF Heights
<1>4. ASSUME NEW S, NEW s \in Seq(S)
      PROVE  Len(s) \in Nat /\ DOMAIN s = 1 .. Len(s) /\ \A j \in DOMAIN s : s[j] \in S
  BY <1>4
<1>5. ASSUME NEW b \in Heights PROVE Chain[b] \in Seq(Operation)
  BY <1>1, <1>3, <1>4
<1>6. ASSUME NEW b \in Heights
      PROVE  Len(Chain[b]) \in Nat /\ DOMAIN Chain[b] = 1 .. Len(Chain[b])
  BY <1>4, <1>5
<1>7. ASSUME NEW b \in Heights, NEW j \in DOMAIN Chain[b]
      PROVE  /\ <<b, j>> \in OpKeys
             /\ Chain[b][j].type \in Types
             /\ OpJson(Chain[b][j]) \in SUBSET PropsStored
  <2>1. Chain[b][j] \in Operation
    BY <1>4, <1>5
  <2>2. j \in 1 .. MaxOps
    BY <1>1, <1>6
  <2> QED
    BY <1>2, <2>1, <2>2 DEF OpKeys
<1> QED
  BY <1>3, <1>6, <1>7

\* The operation in hand is one of the chain's.
LEMMA OpFacts ==
    ASSUME TypeOK, PositionInv, pc \in OpPcs \/ AtOperation
    PROVE  /\ n \in Heights /\ i \in DOMAIN Chain[n]
           /\ Type \in Types /\ Key \in OpKeys
           /\ OpJson(Op) \in SUBSET PropsStored
<1>1. n \in Heights /\ i \in DOMAIN Chain[n]
  BY ChainFacts DEF PositionInv, AtOperation, TypeOK, OpPcs
<1> QED
  BY <1>1, ChainFacts DEF Op, Type, Key

-----------------------------------------------------------------------------
(* Who writes what.                                                         *)

\* Only CREATE TABLE changes the tables, and it makes a new one.
LEMMA OnlyTableWrites ==
    [Next]_vars =>
        \/ UNCHANGED <<tables, columns>>
        \/ /\ pc = "create" /\ Type \notin tables
           /\ tables' = tables \cup {Type}
           /\ columns' = [columns EXCEPT ![Type] = OpJson(Op)]
           /\ UNCHANGED tableSchemaCache \/ pc' = "down"
BY DEF Next, ScanStep, Start, ProcessEnds, NodeProducesBlock, GetBlock,
       UpdateLastScannedAtHead, FinishBlock, AbandonTransaction, CheckTableExist,
       CreateTable, CreateTableFails, CreateIndex, CreateIndexFails,
       CheckOperationExist, CheckOperationExistFails, CachedGetTableSchema,
       GetTableSchemaFails, InsertDynamicOperation, InsertDynamicOperationFails,
       Dies, schema, vars

\* Only the insert writes an operation's row.
LEMMA OnlyRowWrites ==
    [Next]_vars => UNCHANGED rows \/ (pc = "insert" /\ rows' = Inserted)
BY DEF Next, ScanStep, Start, ProcessEnds, NodeProducesBlock, GetBlock,
       UpdateLastScannedAtHead, FinishBlock, AbandonTransaction, CheckTableExist,
       CreateTable, CreateTableFails, CreateIndex, CreateIndexFails,
       CheckOperationExist, CheckOperationExistFails, CachedGetTableSchema,
       GetTableSchemaFails, InsertDynamicOperation, InsertDynamicOperationFails, vars

\* The cache is filled in when a row is to be inserted, and emptied only with
\* the end of the process.
LEMMA OnlyCacheWrites ==
    [Next]_vars =>
        \/ UNCHANGED tableSchemaCache
        \/ tableSchemaCache' = [t \in Types |-> <<>>]
        \/ /\ pc = "schema"
           /\ tableSchemaCache' = [tableSchemaCache EXCEPT ![Type] =
                                      IF @ = <<>> THEN <<columns[Type]>> ELSE @]
           /\ UNCHANGED <<tables, columns>>
BY DEF Next, ScanStep, Start, ProcessEnds, NodeProducesBlock, GetBlock,
       UpdateLastScannedAtHead, FinishBlock, AbandonTransaction, CheckTableExist,
       CreateTable, CreateTableFails, CreateIndex, CreateIndexFails,
       CheckOperationExist, CheckOperationExistFails, CachedGetTableSchema,
       GetTableSchemaFails, InsertDynamicOperation, InsertDynamicOperationFails,
       Dies, schema, vars

\* Where the scan goes from each place.
LEMMA Moves ==
    [Next]_vars =>
        \/ pc' = "down" /\ n' \in {n, 0} /\ i' \in {i, 1}
        \/ pc = "down" /\ pc' = "loop" /\ n' = lastScanned + 1 /\ i' = i
        \/ pc = "loop" /\ n <= head /\ pc' = "op" /\ n' = n /\ i' = 1
        \/ pc' = pc /\ UNCHANGED <<n, i>>
        \/ pc = "op" /\ i > Len(Chain[n]) /\ pc' = "loop" /\ n' = n + 1 /\ i' = 1
        \/ pc = "op" /\ pc' = "op" /\ n' = n /\ AbandonTransaction
        \/ AtOperation /\ pc' = "create" /\ UNCHANGED <<n, i>>
        \/ AtOperation /\ pc' = "exist" /\ Type \in tables /\ UNCHANGED <<n, i, tables>>
        \/ pc = "create" /\ pc' = "index" /\ UNCHANGED <<n, i>> /\ Type \in tables'
        \/ pc = "index" /\ pc' = "exist" /\ UNCHANGED <<n, i, tables>>
        \/ pc = "exist" /\ pc' = "schema" /\ UNCHANGED <<n, i, tables>>
        \/ pc = "schema" /\ CachedGetTableSchema
        \/ pc = "exist" /\ rows[Key] # <<>> /\ pc' = "op" /\ n' = n /\ i' = i + 1
        \/ pc = "insert" /\ rows' = Inserted /\ pc' = "op" /\ n' = n /\ i' = i + 1
BY DEF Next, ScanStep, Start, ProcessEnds, NodeProducesBlock, GetBlock,
       UpdateLastScannedAtHead, FinishBlock, AbandonTransaction, CheckTableExist,
       CreateTable, CreateTableFails, CreateIndex, CreateIndexFails,
       CheckOperationExist, CheckOperationExistFails, CachedGetTableSchema,
       GetTableSchemaFails, InsertDynamicOperation, InsertDynamicOperationFails,
       Dies, OpDone, loop, schema, vars, Finds, AtOperation

-----------------------------------------------------------------------------
(* Types.                                                                   *)

SchemaTypes ==
    /\ tableSchemaCache \in [Types -> {<<>>} \cup {<<c>> : c \in SUBSET PropsStored}]
    /\ tables \subseteq Types /\ indexes \subseteq tables
    /\ columns \in [Types -> SUBSET PropsStored]

\* Tables and columns, and what is remembered of them, are of the chain's types
\* and properties, and an index is of a table.
LEMMA SchemaTypesStep ==
    ASSUME TypeOK, PositionInv, SchemaInv, [Next]_vars
    PROVE  SchemaTypes'
<1>0. SchemaTypes
  BY DEF TypeOK, SchemaTypes
<1>1. tables' \subseteq Types /\ columns' \in [Types -> SUBSET PropsStored] /\ tables \subseteq tables'
  <2>1. CASE UNCHANGED <<tables, columns>>
    BY <1>0, <2>1 DEF SchemaTypes
  <2>2. CASE /\ pc = "create" /\ tables' = tables \cup {Type}
             /\ columns' = [columns EXCEPT ![Type] = OpJson(Op)]
    <3>1. Type \in Types /\ OpJson(Op) \in SUBSET PropsStored
      BY <2>2, OpFacts DEF OpPcs
    <3> QED
      BY <1>0, <2>2, <3>1 DEF SchemaTypes
  <2> QED
    BY <2>1, <2>2, OnlyTableWrites
<1>2. indexes' \subseteq tables'
  <2>1. indexes' \subseteq indexes \/ (pc = "index" /\ indexes' \subseteq indexes \cup {Type})
    BY DEF Next, ScanStep, Start, ProcessEnds, NodeProducesBlock, GetBlock,
       UpdateLastScannedAtHead, FinishBlock, AbandonTransaction, CheckTableExist,
       CreateTable, CreateTableFails, CreateIndex, CreateIndexFails,
       CheckOperationExist, CheckOperationExistFails, CachedGetTableSchema,
       GetTableSchemaFails, InsertDynamicOperation, InsertDynamicOperationFails,
       schema, vars
  <2>2. pc = "index" => Type \in tables
    BY DEF SchemaInv, OpPcs
  <2> QED
    BY <1>0, <1>1, <2>1, <2>2 DEF SchemaTypes
<1>3. tableSchemaCache' \in [Types -> {<<>>} \cup {<<c>> : c \in SUBSET PropsStored}]
  <2>1. CASE UNCHANGED tableSchemaCache
    BY <1>0, <2>1 DEF SchemaTypes
  <2>2. CASE tableSchemaCache' = [t \in Types |-> <<>>]
    BY <2>2
  <2>3. CASE tableSchemaCache' = [tableSchemaCache EXCEPT ![Type] =
                                     IF @ = <<>> THEN <<columns[Type]>> ELSE @]
             /\ pc = "schema"
    <3>1. Type \in Types /\ columns[Type] \in SUBSET PropsStored
      BY <1>0, <2>3, OpFacts DEF OpPcs, SchemaTypes
    <3> QED
      BY <1>0, <2>3, <3>1 DEF SchemaTypes
  <2> QED
    BY <2>1, <2>2, <2>3, OnlyCacheWrites
<1> QED
  BY <1>1, <1>2, <1>3 DEF SchemaTypes

ScanTypes ==
    /\ head \in 0 .. Len(Chain) /\ starts \in 0 .. MaxStarts
    /\ pc \in {"down", "loop", "op", "create", "index", "exist", "schema", "insert"}
    /\ n \in Nat /\ i \in Nat
    /\ lastScanned \in 0 .. Len(Chain) /\ lost \subseteq OpKeys

\* The checkpoint is written for a block that has been scanned, or for the one
\* before the block that is not there yet; head and starts only count.
LEMMA CheckpointWrites ==
    [Next]_vars =>
        /\ \/ UNCHANGED lastScanned
           \/ pc = "loop" /\ lastScanned' = n - 1
           \/ pc = "op" /\ i > Len(Chain[n]) /\ lastScanned' = n
        /\ head' = head \/ (head < Len(Chain) /\ head' = head + 1)
        /\ starts' = starts \/ (starts < MaxStarts /\ starts' = starts + 1)
BY DEF Next, ScanStep, Start, ProcessEnds, NodeProducesBlock, GetBlock,
       UpdateLastScannedAtHead, FinishBlock, AbandonTransaction, CheckTableExist,
       CreateTable, CreateTableFails, CreateIndex, CreateIndexFails,
       CheckOperationExist, CheckOperationExistFails, CachedGetTableSchema,
       GetTableSchemaFails, InsertDynamicOperation, InsertDynamicOperationFails,
       Dies, OpDone, loop, vars, HeadCheckpoint

\* Operations are lost only with a transaction that is abandoned.
LEMMA LostWrites ==
    [Next]_vars =>
        \/ UNCHANGED lost
        \/ AbandonTransaction
BY DEF Next, ScanStep, Start, ProcessEnds, NodeProducesBlock, GetBlock,
       UpdateLastScannedAtHead, FinishBlock, CheckTableExist,
       CreateTable, CreateTableFails, CreateIndex, CreateIndexFails,
       CheckOperationExist, CheckOperationExistFails, CachedGetTableSchema,
       GetTableSchemaFails, InsertDynamicOperation, InsertDynamicOperationFails,
       Dies, OpDone, loop, vars

\* The scan stays inside the chain.
LEMMA PositionInvStep ==
    ASSUME TypeOK, PositionInv, [Next]_vars
    PROVE  PositionInv' /\ n' \in Nat /\ i' \in Nat
<1>0. /\ Len(Chain) \in Nat /\ Heights = 1 .. Len(Chain)
      /\ \A b \in Heights : Len(Chain[b]) \in Nat /\ DOMAIN Chain[b] = 1 .. Len(Chain[b])
      /\ n \in Nat /\ i \in Nat /\ head \in 0 .. Len(Chain) /\ lastScanned \in 0 .. Len(Chain)
  BY ChainFacts DEF TypeOK
<1>1. CASE pc' = "down" /\ n' \in {n, 0} /\ i' \in {i, 1}
  BY <1>0, <1>1 DEF PositionInv, OpPcs
<1>2. CASE pc = "op" /\ pc' = "op" /\ n' = n /\ AbandonTransaction
  BY <1>0, <1>2 DEF AbandonTransaction, PositionInv, OpPcs
<1>3. CASE pc = "down" /\ pc' = "loop" /\ n' = lastScanned + 1 /\ i' = i
  BY <1>0, <1>3 DEF PositionInv, OpPcs
<1>4. CASE pc = "loop" /\ n <= head /\ pc' = "op" /\ n' = n /\ i' = 1
  BY <1>0, <1>4 DEF PositionInv, OpPcs
<1>5. CASE pc = "op" /\ pc' = "loop" /\ n' = n + 1 /\ i' = 1
  BY <1>0, <1>5 DEF PositionInv, OpPcs
<1>6. CASE AtOperation /\ pc' \in OpPcs /\ UNCHANGED <<n, i>>
  BY <1>0, <1>6 DEF PositionInv, OpPcs, AtOperation
<1>7. CASE pc \in OpPcs /\ pc' \in OpPcs /\ UNCHANGED <<n, i>>
  BY <1>0, <1>7 DEF PositionInv, OpPcs
<1>8. CASE pc \in OpPcs /\ pc' = "op" /\ n' = n /\ i' = i + 1
  BY <1>0, <1>8 DEF PositionInv, OpPcs
<1>9. CASE pc' = pc /\ UNCHANGED <<n, i>>
  BY <1>0, <1>9 DEF PositionInv, OpPcs
<1> QED
  BY <1>1, <1>2, <1>3, <1>4, <1>5, <1>6, <1>7, <1>8, <1>9, Moves
     DEF OpPcs, CachedGetTableSchema, loop

\* ... and so does the checkpoint.
LEMMA ScanTypesStep ==
    ASSUME TypeOK, PositionInv, [Next]_vars
    PROVE  ScanTypes'
<1>0. /\ Len(Chain) \in Nat /\ Heights = 1 .. Len(Chain)
      /\ ScanTypes /\ MaxStarts \in Nat
  BY ChainFacts, ParameterAssumption DEF TypeOK, ScanTypes, ParameterAssumption
<1>1. head' \in 0 .. Len(Chain)
  BY <1>0, CheckpointWrites DEF ScanTypes
<1>2. starts' \in 0 .. MaxStarts
  BY <1>0, CheckpointWrites DEF ScanTypes
<1>3. pc' \in {"down", "loop", "op", "create", "index", "exist", "schema", "insert"}
  BY <1>0, Moves DEF ScanTypes, CachedGetTableSchema
<1>4. lastScanned' \in 0 .. Len(Chain)
  BY <1>0, CheckpointWrites DEF ScanTypes, PositionInv
<1>5. lost' \subseteq OpKeys
  <2>1. CASE AbandonTransaction
    <3>1. n \in Heights /\ \A j \in DOMAIN Chain[n] : <<n, j>> \in OpKeys
      BY <2>1, ChainFacts DEF AbandonTransaction, PositionInv
    <3>2. i .. Len(Chain[n]) \subseteq DOMAIN Chain[n]
      BY <1>0, <3>1, ChainFacts DEF PositionInv, ScanTypes
    <3>3. lost' = lost \cup ({n} \X (i .. Len(Chain[n])))
      BY <2>1 DEF AbandonTransaction
    <3> QED
      BY <1>0, <3>1, <3>2, <3>3 DEF ScanTypes
  <2> QED
    BY <1>0, <2>1, LostWrites DEF ScanTypes
<1> QED
  BY <1>1, <1>2, <1>3, <1>4, <1>5, PositionInvStep DEF ScanTypes

-----------------------------------------------------------------------------
(* Tables, rows and the checkpoint.                                         *)

\* What the tables and the cache are stays so; no table changes its columns.
LEMMA SchemaInvStep ==
    ASSUME TypeOK, PositionInv, SchemaInv, [Next]_vars
    PROVE  SchemaInv' /\ tables \subseteq tables' /\ \A t \in tables : columns'[t] = columns[t]
<1>0. SchemaTypes
  BY DEF TypeOK, SchemaTypes
<1>t. tables \subseteq tables' /\ \A t \in tables : columns'[t] = columns[t]
  BY OnlyTableWrites, <1>0 DEF SchemaTypes
<1>1. ASSUME NEW t \in tables'
      PROVE  \E b \in Heights : \E j \in DOMAIN Chain[b] :
                Chain[b][j].type = t /\ columns'[t] = Chain[b][j].props \cup AddedProps
  <2>1. CASE t \in tables
    BY <1>t, <2>1 DEF SchemaInv
  <2>2. CASE /\ pc = "create" /\ t = Type
             /\ columns' = [columns EXCEPT ![Type] = OpJson(Op)]
    <3>1. n \in Heights /\ i \in DOMAIN Chain[n] /\ Type \in Types
      BY <2>2, OpFacts DEF OpPcs
    <3>2. columns'[t] = OpJson(Op)
      BY <1>0, <2>2, <3>1 DEF SchemaTypes
    <3>3. Chain[n][i].type = t /\ columns'[t] = Chain[n][i].props \cup AddedProps
      BY <2>2, <3>2 DEF Type, Op, OpJson
    <3> QED
      BY <3>1, <3>3
  <2> QED
    BY <2>1, <2>2, OnlyTableWrites
<1>2. ASSUME NEW t \in Types
      PROVE  /\ tableSchemaCache'[t] \in {<<>>, <<columns'[t]>>}
             /\ tableSchemaCache'[t] # <<>> => t \in tables'
  <2>0. /\ tableSchemaCache[t] \in {<<>>, <<columns[t]>>}
        /\ tableSchemaCache[t] # <<>> => t \in tables
    BY DEF SchemaInv, CacheIsTheTable
  <2>1. CASE UNCHANGED tableSchemaCache
    BY <1>t, <2>0, <2>1
  <2>2. CASE tableSchemaCache' = [u \in Types |-> <<>>]
    BY <2>2
  <2>3. CASE /\ pc = "schema"
             /\ tableSchemaCache' = [tableSchemaCache EXCEPT ![Type] =
                                        IF @ = <<>> THEN <<columns[Type]>> ELSE @]
             /\ UNCHANGED <<tables, columns>>
    <3>1. Type \in tables
      BY <2>3 DEF SchemaInv, OpPcs
    <3> QED
      BY <1>0, <2>0, <2>3, <3>1 DEF SchemaTypes
  <2> QED
    BY <2>1, <2>2, <2>3, OnlyCacheWrites
<1>3. pc' \in OpPcs \ {"create"} => Type' \in tables'
  BY <1>t, Moves DEF SchemaInv, OpPcs, Type, Op, CachedGetTableSchema, loop
<1>4. ASSUME pc' = "insert" PROVE tableSchemaCache'[Type'] # <<>>
  <2>1. CASE CachedGetTableSchema
    <3>1. Type' = Type /\ Type \in Types
      BY <2>1, OpFacts DEF CachedGetTableSchema, loop, Type, Op, OpPcs
    <3> QED
      BY <1>0, <2>1, <3>1 DEF CachedGetTableSchema, SchemaTypes
  <2>2. CASE pc = "insert" /\ UNCHANGED <<n, i>>
    <3>1. UNCHANGED tableSchemaCache
      BY <1>4, <2>2 DEF Next, ScanStep, Start, ProcessEnds, NodeProducesBlock, GetBlock,
         UpdateLastScannedAtHead, FinishBlock, AbandonTransaction, CheckTableExist,
         CreateTable, CreateTableFails, CreateIndex, CreateIndexFails,
         CheckOperationExist, CheckOperationExistFails, CachedGetTableSchema,
         GetTableSchemaFails, InsertDynamicOperation, InsertDynamicOperationFails,
         Dies, vars
    <3> QED
      BY <2>2, <3>1 DEF SchemaInv, Type, Op
  <2> QED
    BY <1>4, <2>1, <2>2, Moves
<1> QED
  BY <1>t, <1>1, <1>2, <1>3, <1>4 DEF SchemaInv, CacheIsTheTable

\* A row is inserted with the columns of its table.
LEMMA RowsInvStep ==
    ASSUME TypeOK, PositionInv, SchemaInv, RowsInv, [Next]_vars
    PROVE  RowsInv' /\ \A k \in OpKeys : rows[k] # <<>> => rows'[k] # <<>>
<1>t. tables \subseteq tables' /\ \A t \in tables : columns'[t] = columns[t]
  BY SchemaInvStep
<1>0. rows \in [OpKeys -> Seq(SUBSET PropsStored)]
  BY DEF RowsInv
<1> DEFINE Holds(b, j, row, cols) ==
              /\ row = (Chain[b][j].props \cup AddedProps) \cap cols[Chain[b][j].type]
              /\ {"block_num", "trxid", "index_in_tx", "memo", "guarantee_id"} \subseteq row
<1>h. \A b \in Heights : \A j \in DOMAIN Chain[b] :
         /\ rows[<<b, j>>] # <<>> => Chain[b][j].type \in tables
         /\ \A r \in DOMAIN rows[<<b, j>>] : Holds(b, j, rows[<<b, j>>][r], columns)
  BY DEF RowsInv, RowsHoldTheirColumns
<1>k. \A b \in Heights : \A j \in DOMAIN Chain[b] :
         \A r \in DOMAIN rows[<<b, j>>] : Holds(b, j, rows[<<b, j>>][r], columns')
  <2> SUFFICES ASSUME NEW b \in Heights, NEW j \in DOMAIN Chain[b],
                      NEW r \in DOMAIN rows[<<b, j>>]
               PROVE  Holds(b, j, rows[<<b, j>>][r], columns')
    OBVIOUS
  <2>1. rows[<<b, j>>] \in Seq(SUBSET PropsStored)
    BY <1>0, ChainFacts
  <2>2. rows[<<b, j>>] # <<>>
    BY <2>1
  <2> QED
    BY <1>h, <1>t, <2>2
<1>1. CASE UNCHANGED rows
  BY <1>0, <1>1, <1>h, <1>k, <1>t DEF RowsInv, RowsHoldTheirColumns
<1>2. CASE pc = "insert" /\ rows' = Inserted
  <2> DEFINE row == OpJson(Op) \cap tableSchemaCache[Type][1]
  <2>1. /\ n \in Heights /\ i \in DOMAIN Chain[n] /\ Type \in Types /\ Key \in OpKeys
        /\ OpJson(Op) \in SUBSET PropsStored /\ Type \in tables
        /\ tableSchemaCache[Type] = <<columns[Type]>>
    BY <1>2, OpFacts DEF SchemaInv, CacheIsTheTable, OpPcs
  <2>2. row \in SUBSET PropsStored /\ Holds(n, i, row, columns)
    <3>1. row = (Chain[n][i].props \cup AddedProps) \cap columns[Chain[n][i].type]
      BY <2>1 DEF OpJson, Op, Type
    <3>2. AddedProps \subseteq columns[Type]
      BY <2>1 DEF SchemaInv
    <3>3. {"block_num", "trxid", "index_in_tx", "memo", "guarantee_id"} \subseteq AddedProps
      BY DEF AddedProps, Position
    <3> QED
      BY <2>1, <3>1, <3>2, <3>3 DEF Type, Op
  <2>3. rows' = [rows EXCEPT ![Key] = Append(rows[Key], row)]
    BY <1>2 DEF Inserted
  <2>4. rows[Key] \in Seq(SUBSET PropsStored)
    BY <1>0, <2>1
  <2> HIDE DEF row, Holds
  <2>5. Append(rows[Key], row) \in Seq(SUBSET PropsStored) /\ Append(rows[Key], row) # <<>>
    BY <2>2, <2>4
  <2>6. rows' \in [OpKeys -> Seq(SUBSET PropsStored)]
    BY <1>0, <2>3, <2>5
  <2>7. \A k \in OpKeys : rows[k] # <<>> => rows'[k] # <<>>
    BY <1>0, <2>1, <2>3, <2>5
  <2>8. ASSUME NEW b \in Heights, NEW j \in DOMAIN Chain[b]
        PROVE  /\ rows'[<<b, j>>] # <<>> => Chain[b][j].type \in tables'
               /\ \A r \in DOMAIN rows'[<<b, j>>] : Holds(b, j, rows'[<<b, j>>][r], columns')
    <3>1. <<b, j>> \in OpKeys
      BY ChainFacts
    <3>2. CASE <<b, j>> = Key
      <4>1. b = n /\ j = i /\ Chain[b][j].type = Type
        BY <3>2 DEF Key, Type, Op
      <4>2. Holds(b, j, row, columns')
        BY <1>t, <2>1, <2>2, <4>1 DEF Holds
      <4>3. rows'[<<b, j>>] = Append(rows[<<b, j>>], row) /\ rows[<<b, j>>] \in Seq(SUBSET PropsStored)
        BY <1>0, <2>3, <3>1, <3>2
      <4>4. ASSUME NEW r \in DOMAIN rows'[<<b, j>>]
            PROVE  \/ r \in DOMAIN rows[<<b, j>>] /\ rows'[<<b, j>>][r] = rows[<<b, j>>][r]
                   \/ rows'[<<b, j>>][r] = row
        BY <2>2, <4>3
      <4> QED
        BY <1>k, <1>t, <2>1, <4>1, <4>2, <4>4
    <3>3. CASE <<b, j>> # Key
      <4>1. rows'[<<b, j>>] = rows[<<b, j>>]
        BY <1>0, <2>3, <3>1, <3>3
      <4> QED
        BY <1>h, <1>k, <1>t, <4>1
    <3> QED
      BY <3>2, <3>3
  <2> QED
    BY <2>6, <2>7, <2>8 DEF RowsInv, RowsHoldTheirColumns, Holds
<1> QED
  BY <1>1, <1>2, OnlyRowWrites

\* The scan leaves an operation behind only when it is stored or skipped.
LEMMA StoredInvStep ==
    ASSUME TypeOK, PositionInv, SchemaInv, RowsInv, StoredInv, [Next]_vars
    PROVE  StoredInv'
<1>0. /\ Len(Chain) \in Nat /\ Heights = 1 .. Len(Chain)
      /\ \A b \in Heights : Len(Chain[b]) \in Nat /\ DOMAIN Chain[b] = 1 .. Len(Chain[b])
      /\ n \in Nat /\ i \in Nat /\ lastScanned \in Nat
      /\ n' \in Nat /\ i' \in Nat
  BY ChainFacts, PositionInvStep DEF TypeOK
<1>1. Settled \subseteq Settled'
  <2>1. lost \subseteq lost'
    BY LostWrites DEF AbandonTransaction
  <2> QED
    BY <2>1, RowsInvStep DEF Settled
<1>2. ASSUME NEW b \in 1 .. lastScanned', NEW j \in DOMAIN Chain[b]
      PROVE  <<b, j>> \in Settled'
  <2>1. CASE UNCHANGED lastScanned
    BY <1>1, <2>1 DEF StoredInv
  <2>2. CASE pc = "loop" /\ lastScanned' = n - 1
    BY <1>1, <2>2 DEF StoredInv
  <2>3. CASE pc = "op" /\ i > Len(Chain[n]) /\ lastScanned' = n
    <3>1. b = n \/ b \in 1 .. n - 1
      BY <1>0, <2>3
    <3>2. b = n => j < i
      BY <1>0, <2>3 DEF PositionInv
    <3> QED
      BY <1>1, <2>3, <3>1, <3>2 DEF StoredInv
  <2> QED
    BY <2>1, <2>2, <2>3, CheckpointWrites
<1>3. ASSUME pc' # "down", NEW b \in 1 .. n' - 1, NEW j \in DOMAIN Chain[b]
      PROVE  <<b, j>> \in Settled'
  <2>1. CASE n' = n /\ pc # "down"
    BY <1>1, <2>1 DEF StoredInv
  <2>2. CASE n' = lastScanned + 1
    <3>1. b \in 1 .. lastScanned
      BY <1>0, <2>2
    <3> QED
      BY <1>1, <3>1 DEF StoredInv
  <2>3. CASE pc = "op" /\ i > Len(Chain[n]) /\ n' = n + 1
    <3>1. b = n \/ b \in 1 .. n - 1
      BY <1>0, <2>3
    <3>2. b = n => j < i
      BY <1>0, <2>3 DEF PositionInv
    <3> QED
      BY <1>1, <2>3, <3>1, <3>2 DEF StoredInv
  <2> QED
    BY <1>3, <2>1, <2>2, <2>3, Moves DEF CachedGetTableSchema, loop, AtOperation
<1>4. ASSUME pc' \in {"op"} \cup OpPcs, NEW j \in DOMAIN Chain[n'], j < i'
      PROVE  <<n', j>> \in Settled'
  <2>1. CASE UNCHANGED <<n, i>> /\ pc \in {"op"} \cup OpPcs
    BY <1>1, <1>4, <2>1 DEF StoredInv
  <2>2. CASE i' = 1 /\ n' \in Heights
    BY <1>0, <1>4, <2>2
  <2>3. CASE pc = "op" /\ n' = n /\ AbandonTransaction
    <3>1. n \in Heights /\ j \in 1 .. Len(Chain[n])
      BY <1>0, <1>4, <2>3 DEF PositionInv
    <3>2. j < i \/ j \in i .. Len(Chain[n])
      BY <1>0, <3>1
    <3>3. j \in i .. Len(Chain[n]) => <<n, j>> \in lost'
      BY <2>3 DEF AbandonTransaction
    <3> QED
      BY <1>1, <2>3, <3>1, <3>2, <3>3, <1>0 DEF StoredInv, Settled
  <2>4. CASE /\ pc \in {"exist", "insert"} /\ n' = n /\ i' = i + 1
             /\ rows'[Key] # <<>>
    <3>1. n \in Heights /\ i \in DOMAIN Chain[n] /\ Key \in OpKeys
      BY <2>4, OpFacts DEF OpPcs
    <3>2. j < i \/ j = i
      BY <1>0, <1>4, <2>4, <3>1
    <3>3. Key \in Settled'
      BY <2>4, <3>1 DEF Settled, OpKeys
    <3> QED
      BY <1>1, <1>4, <2>4, <3>2, <3>3 DEF StoredInv, Key, OpPcs
  <2>5. ASSUME pc = "exist", rows[Key] # <<>> PROVE rows'[Key] # <<>>
    BY <2>5, OpFacts, RowsInvStep DEF OpPcs
  <2>6. ASSUME pc = "insert", rows' = Inserted PROVE rows'[Key] # <<>>
    <3>1. Key \in OpKeys
      BY <2>6, OpFacts DEF OpPcs
    <3>2. rows[Key] \in Seq(SUBSET PropsStored) /\ rows \in [OpKeys -> Seq(SUBSET PropsStored)]
      BY <3>1 DEF RowsInv
    <3>3. \A row : Append(rows[Key], row) # <<>>
      BY <3>2
    <3> QED
      BY <2>6, <3>1, <3>2, <3>3 DEF Inserted
  <2>7. pc = "loop" /\ n' = n /\ pc' = "op" => n' \in Heights
    BY PositionInvStep DEF PositionInv
  <2> QED
    BY <1>4, <2>1, <2>2, <2>3, <2>4, <2>5, <2>6, <2>7, Moves
       DEF OpPcs, AtOperation, CachedGetTableSchema, loop
<1> QED
  BY <1>2, <1>3, <1>4 DEF StoredInv

-----------------------------------------------------------------------------
(* The invariant, and what follows from it.                                 *)

\* It holds at first ...
LEMMA TablesInvInit == Init => TablesInv
<1> SUFFICES ASSUME Init PROVE TablesInv
  OBVIOUS
<1>0. Len(Chain) \in Nat /\ MaxStarts \in Nat
  BY ChainFacts, ParameterAssumption DEF ParameterAssumption
<1>1. rows \in [OpKeys -> Seq(SUBSET PropsStored)] /\ \A k \in OpKeys : rows[k] = <<>>
  BY DEF Init
<1>2. ScanTypes
  <2>1. head = 0 /\ starts = 0 /\ lastScanned = 0 /\ n = 0 /\ i = 1
    BY DEF Init
  <2>2. head \in 0 .. Len(Chain) /\ starts \in 0 .. MaxStarts /\ lastScanned \in 0 .. Len(Chain)
    BY <1>0, <2>1
  <2> QED
    BY <2>1, <2>2 DEF Init, ScanTypes
<1>3. SchemaTypes
  BY DEF Init, SchemaTypes
<1>4. TypeOK
  BY <1>1, <1>2, <1>3 DEF TypeOK, ScanTypes, SchemaTypes
<1>5. PositionInv /\ SchemaInv
  BY DEF Init, PositionInv, SchemaInv, CacheIsTheTable, OpPcs
<1>6. RowsInv
  BY <1>1, ChainFacts DEF RowsInv, RowsHoldTheirColumns
<1>7. StoredInv
  BY DEF Init, StoredInv, OpPcs
<1> QED
  BY <1>4, <1>5, <1>6, <1>7 DEF TablesInv

\* ... and in every state.
LEMMA TablesInvInvariant == Spec => []TablesInv
<1>1. TablesInv /\ [Next]_vars => TablesInv'
  <2> SUFFICES ASSUME TablesInv, [Next]_vars PROVE TablesInv'
    OBVIOUS
  <2> USE DEF TablesInv
  <2>1. PositionInv' /\ SchemaInv' /\ RowsInv' /\ StoredInv'
    BY PositionInvStep, SchemaInvStep, RowsInvStep, StoredInvStep
  <2>2. ScanTypes' /\ SchemaTypes'
    BY ScanTypesStep, SchemaTypesStep
  <2>3. \A k \in OpKeys : \A j \in DOMAIN rows'[k] : rows'[k][j] \subseteq PropsStored
    <3>1. \A k \in OpKeys : rows'[k] \in Seq(SUBSET PropsStored)
      BY <2>1 DEF RowsInv
    <3>2. ASSUME NEW S, NEW s \in Seq(S) PROVE \A j \in DOMAIN s : s[j] \in S
      BY <3>2
    <3> QED
      BY <3>1, <3>2
  <2> QED
    BY <2>1, <2>2, <2>3 DEF TypeOK, ScanTypes, SchemaTypes
<1> QED
  BY <1>1, TablesInvInit, PTL DEF Spec

\* Every variable stays in its type: no row is looked for outside the chain, and
\* only tables that exist have an index.
THEOREM TablesTypeCorrect == Spec => []TypeOK
BY TablesInvInvariant, PTL DEF TablesInv

\* The checkpoint never passes an operation that is neither in its table nor
\* skipped by a break, though tables are created on the way and the process
\* dies at every one whose name is folded.
THEOREM OperationsAreStored == Spec => []OperationsStored
<1>1. TablesInv => OperationsStored
  <2> SUFFICES ASSUME TablesInv, NEW b \in 1 .. lastScanned, NEW j \in DOMAIN Chain[b]
               PROVE  rows[<<b, j>>] # <<>> \/ <<b, j>> \in lost
    BY DEF OperationsStored
  <2> QED
    BY DEF TablesInv, StoredInv, Settled
<1> QED
  BY <1>1, TablesInvInvariant, PTL

\* The cache never holds columns that are not the table's.
THEOREM CacheIsCorrect == Spec => []CacheIsTheTable
BY TablesInvInvariant, PTL DEF TablesInv, SchemaInv

\* Every row holds exactly the properties its table has columns for.
THEOREM RowsAreOfTheirTable == Spec => []RowsHoldTheirColumns
BY TablesInvInvariant, PTL DEF TablesInv, RowsInv

\* A table's columns come from one operation and never change.
THEOREM ColumnsAreOfOneOperation == Spec => ColumnsOfOneOperation
<1> DEFINE Fixed == \A t \in tables :
              /\ columns'[t] = columns[t]
              /\ \E b \in Heights : \E j \in DOMAIN Chain[b] :
                    Chain[b][j].type = t /\ columns[t] = Chain[b][j].props \cup AddedProps
<1>1. TablesInv /\ [Next]_vars => [Fixed]_vars
  BY SchemaInvStep DEF TablesInv, SchemaInv
<1> QED
  BY <1>1, TablesInvInvariant, PTL DEF Spec, ColumnsOfOneOperation
=============================================================================
