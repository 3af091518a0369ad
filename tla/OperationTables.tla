--------------------------- MODULE OperationTables ---------------------------
(***************************************************************************)
(* The tables of the operation types.  When the scan meets the first       *)
(* operation of a type it creates the type's table, with a column for each *)
(* property that operation happens to have, and an index; each operation   *)
(* of the type is then inserted with the properties the table has columns  *)
(* for.  The table's columns are read once per process and remembered in   *)
(* tableSchemaCache.                                                       *)
(*                                                                         *)
(* Only CREATE TABLE and the column names are quoted.  PostgreSQL folds an *)
(* unquoted table name to lower case and rejects one with "::", so the     *)
(* tables of three types of OperationNames are created and never found     *)
(* again by the statements that follow.                                    *)
(*                                                                         *)
(* Every statement commits by itself; logger.Fatal ends the process and    *)
(* the next one resumes from the checkpoint.  The scan loop is Scanner's,  *)
(* with one transaction per block.  Two ways to resume are left to Scanner *)
(* and TwoScanners: -scan_from, which skips the operations below it, and a *)
(* broken-off read of the checkpoint's row, which starts from block 1.     *)
(***************************************************************************)
EXTENDS Integers, Sequences, FiniteSets

CONSTANTS
    Types,          \* operation types
    Nameless,       \* the types past the end of OperationNames
    Folded,         \* the types whose table has another name when it is not quoted
    Props,          \* properties of operations
    MaxOps,         \* bound: operations of a block
    Chain,          \* Chain[b]: the operations of block b, in order
    Interval,       \* a checkpoint is written every Interval blocks
    MaxStarts,      \* bound: how many times the program is started
    Faults          \* which calls may fail

Heights == DOMAIN Chain
OpKeys == Heights \X (1 .. MaxOps)

ASSUME OperationsAssumption ==
    /\ Nameless \subseteq Types /\ Folded \subseteq Types
    /\ Chain \in Seq(Seq([type : Types, props : SUBSET Props]))
    /\ MaxOps \in Nat /\ \A b \in Heights : Len(Chain[b]) <= MaxOps

ASSUME ParameterAssumption ==
    /\ Interval \in Nat \ {0} /\ MaxStarts \in Nat
    /\ Faults \subseteq {"check_table", "db_op", "rows_err", "kill"}

VARIABLES
    head, starts,   \* as in Scanner
    pc, n, i,       \* the scan goroutine and its operation
    tableSchemaCache,
                    \* per type, <<>> or the columns GetTableSchema returned
    (***********************************************************************)
    (* The database.                                                       *)
    (***********************************************************************)
    tables,         \* the types that have a table
    columns,        \* ... and the columns it was created with
    indexes,        \* the tables that have their index
    rows,           \* the rows of each operation: which properties they hold
    lastScanned,
    lost            \* observer: operations a break of the operation loop skipped

vars == <<head, starts, pc, n, i, tableSchemaCache, tables, columns, indexes, rows,
          lastScanned, lost>>
schema == <<tables, columns, indexes>>

Op == Chain[n][i]
Type == Op.type
Key == <<n, i>>

\* What the loop puts into every operation's JSON: where it is, and memo and
\* guarantee_id when they are missing.
Position == {"block_num", "trxid", "index_in_tx"}
MutOnlyPosition == Position
AddedProps == Position \cup {"memo", "guarantee_id"}
OpJson(op) == op.props \cup AddedProps

-----------------------------------------------------------------------------
(* The process and the scan loop.                                          *)

Init ==
    /\ head = 0 /\ starts = 0
    /\ pc = "down" /\ n = 0 /\ i = 1
    /\ tableSchemaCache = [t \in Types |-> <<>>]
    /\ tables = {} /\ columns = [t \in Types |-> {}] /\ indexes = {}
    /\ rows = [k \in OpKeys |-> <<>>]
    /\ lastScanned = 0 /\ lost = {}

\* Without -scan_from, and with the checkpoint's row read.
Start ==
    /\ pc = "down" /\ starts < MaxStarts
    /\ starts' = starts + 1
    /\ pc' = "loop" /\ n' = lastScanned + 1
    /\ UNCHANGED <<head, i, tableSchemaCache, schema, rows, lastScanned, lost>>

\* A logger.Fatal, or a kill: the cache goes with the process.
Dies ==
    /\ pc' = "down" /\ n' = 0 /\ i' = 1
    /\ tableSchemaCache' = [t \in Types |-> <<>>]
    /\ UNCHANGED <<head, starts, lastScanned, lost>>

ProcessEnds ==
    /\ "kill" \in Faults
    /\ pc # "down"
    /\ Dies
    /\ UNCHANGED <<schema, rows>>

NodeProducesBlock ==
    /\ head < Len(Chain)
    /\ head' = head + 1
    /\ UNCHANGED <<starts, pc, n, i, tableSchemaCache, schema, rows, lastScanned, lost>>

GetBlock ==
    /\ pc = "loop" /\ n <= head
    /\ pc' = "op" /\ i' = 1
    /\ UNCHANGED <<head, starts, n, tableSchemaCache, schema, rows, lastScanned, lost>>

MutHeadCheckpointTwoBack == n - 2
HeadCheckpoint == n - 1

UpdateLastScannedAtHead ==
    /\ pc = "loop" /\ n > head
    /\ lastScanned' = HeadCheckpoint
    /\ UNCHANGED <<head, starts, pc, n, i, tableSchemaCache, schema, rows, lost>>

FinishBlock ==
    /\ pc = "op" /\ i > Len(Chain[n])
    /\ lastScanned' = IF n % Interval = 0 THEN n ELSE lastScanned
    /\ n' = n + 1 /\ pc' = "loop" /\ i' = 1
    /\ UNCHANGED <<head, starts, tableSchemaCache, schema, rows, lost>>

\* A break in the operation loop: a type without a name, or CheckTableExist's
\* error.  The transaction's other operations are skipped with this one.
AbandonTransaction ==
    /\ pc = "op" /\ i <= Len(Chain[n])
    /\ Type \in Nameless \/ "check_table" \in Faults
    /\ lost' = lost \cup ({n} \X (i .. Len(Chain[n])))
    /\ i' = Len(Chain[n]) + 1
    /\ UNCHANGED <<head, starts, pc, n, tableSchemaCache, schema, rows, lastScanned>>

-----------------------------------------------------------------------------
(* The table of an operation's type.                                       *)

AtOperation == pc = "op" /\ i <= Len(Chain[n]) /\ Type \notin Nameless
loop == <<head, starts, n, i, lastScanned, lost>>

\* What a find of a row that may be there returns when rows.Next() can break
\* off: rows.Err() is looked at only where it cannot be reached.
Finds(there) == {there} \cup (IF "rows_err" \in Faults THEN {FALSE} ELSE {})

MutSchemaReadFirst ==
    /\ AtOperation
    /\ \E exists \in Finds(Type \in tables) : pc' = IF exists THEN "exist" ELSE "create"
    /\ tableSchemaCache' = [tableSchemaCache EXCEPT ![Type] =
            IF @ = <<>> THEN <<columns[Type]>> ELSE @]
    /\ UNCHANGED <<loop, schema, rows>>
CheckTableExist ==
    /\ AtOperation
    /\ \E exists \in Finds(Type \in tables) : pc' = IF exists THEN "exist" ELSE "create"
    /\ UNCHANGED <<loop, tableSchemaCache, schema, rows>>

MutCreateTableReplaces ==
    /\ pc = "create"
    /\ tables' = tables \cup {Type}
    /\ columns' = [columns EXCEPT ![Type] = OpJson(Op)]
    /\ pc' = "index"
    /\ UNCHANGED <<loop, tableSchemaCache, indexes, rows>>
CreateTable ==
    /\ pc = "create" /\ Type \notin tables
    /\ tables' = tables \cup {Type}
    /\ columns' = [columns EXCEPT ![Type] = OpJson(Op)]
    /\ pc' = "index"
    /\ UNCHANGED <<loop, tableSchemaCache, indexes, rows>>

\* CREATE TABLE fails on a table that is there and was not found; any
\* statement may fail, before or after the server committed it.
CreateTableFails ==
    /\ pc = "create"
    /\ \/ (Type \in tables \/ "db_op" \in Faults) /\ UNCHANGED schema
       \/ Type \notin tables /\ "db_op" \in Faults
          /\ tables' = tables \cup {Type}
          /\ columns' = [columns EXCEPT ![Type] = OpJson(Op)]
          /\ UNCHANGED indexes
    /\ Dies
    /\ UNCHANGED rows

\* Only the statement after CREATE TABLE creates the index: a table whose
\* creation was cut short never gets it.
CreateIndex ==
    /\ pc = "index" /\ Type \notin Folded
    /\ indexes' = indexes \cup {Type}
    /\ pc' = "exist"
    /\ UNCHANGED <<loop, tableSchemaCache, tables, columns, rows>>

CreateIndexFails ==
    /\ pc = "index"
    /\ Type \in Folded \/ "db_op" \in Faults
    /\ indexes' \in {indexes} \cup (IF Type \in Folded THEN {} ELSE {indexes \cup {Type}})
    /\ Dies
    /\ UNCHANGED <<tables, columns, rows>>

-----------------------------------------------------------------------------
(* The operation's row.                                                    *)

OpDone == pc' = "op" /\ i' = i + 1 /\ UNCHANGED <<head, starts, n, lastScanned, lost>>

CheckOperationExist ==
    /\ pc = "exist" /\ Type \notin Folded
    /\ \E exists \in Finds(rows[Key] # <<>>) :
          IF exists THEN OpDone ELSE pc' = "schema" /\ UNCHANGED loop
    /\ UNCHANGED <<tableSchemaCache, schema, rows>>

MutFoldedNameSkipped ==
    /\ pc = "exist"
    /\ Type \in Folded
    /\ OpDone
    /\ UNCHANGED <<tableSchemaCache, schema, rows>>
\* The SELECT names public.tbl_... without quotes.
CheckOperationExistFails ==
    /\ pc = "exist"
    /\ Type \in Folded \/ "db_op" \in Faults
    /\ Dies
    /\ UNCHANGED <<schema, rows>>

\* cachedGetTableSchema; GetTableSchema does look at rows.Err().
CachedGetTableSchema ==
    /\ pc = "schema"
    /\ tableSchemaCache' = [tableSchemaCache EXCEPT ![Type] =
            IF @ = <<>> THEN <<columns[Type]>> ELSE @]
    /\ pc' = "insert"
    /\ UNCHANGED <<loop, schema, rows>>

GetTableSchemaFails ==
    /\ pc = "schema" /\ tableSchemaCache[Type] = <<>>
    /\ "db_op" \in Faults \/ "rows_err" \in Faults
    /\ Dies
    /\ UNCHANGED <<schema, rows>>

Inserted == [rows EXCEPT ![Key] = Append(@, OpJson(Op) \cap tableSchemaCache[Type][1])]

InsertDynamicOperation ==
    /\ pc = "insert"
    /\ rows' = Inserted
    /\ OpDone
    /\ UNCHANGED <<tableSchemaCache, schema>>

InsertDynamicOperationFails ==
    /\ pc = "insert"
    /\ "db_op" \in Faults
    /\ rows' \in {rows, Inserted}
    /\ Dies
    /\ UNCHANGED schema

ScanStep ==
    \/ GetBlock \/ UpdateLastScannedAtHead \/ FinishBlock \/ AbandonTransaction
    \/ CheckTableExist \/ CreateTable \/ CreateTableFails
    \/ CreateIndex \/ CreateIndexFails
    \/ CheckOperationExist \/ CheckOperationExistFails
    \/ CachedGetTableSchema \/ GetTableSchemaFails
    \/ InsertDynamicOperation \/ InsertDynamicOperationFails

Next == Start \/ ProcessEnds \/ NodeProducesBlock \/ ScanStep

Spec == Init /\ [][Next]_vars

-----------------------------------------------------------------------------
(* Properties.                                                             *)

PropsStored == Props \cup AddedProps

TypeOK ==
    /\ head \in 0 .. Len(Chain) /\ starts \in 0 .. MaxStarts
    /\ pc \in {"down", "loop", "op", "create", "index", "exist", "schema", "insert"}
    /\ n \in Nat /\ i \in Nat
    /\ tableSchemaCache \in [Types -> {<<>>} \cup {<<c>> : c \in SUBSET PropsStored}]
    /\ tables \subseteq Types /\ indexes \subseteq tables
    /\ columns \in [Types -> SUBSET PropsStored]
    /\ \A k \in OpKeys : \A j \in DOMAIN rows[k] : rows[k][j] \subseteq PropsStored
    /\ lastScanned \in 0 .. Len(Chain) /\ lost \subseteq OpKeys

\* The checkpoint passes an operation only when it is in its type's table, or
\* a break skipped it.  In particular it never passes one whose table has a name
\* that is folded: the process dies at it, at every restart again.
OperationsStored ==
    \A b \in 1 .. lastScanned : \A j \in DOMAIN Chain[b] :
        rows[<<b, j>>] # <<>> \/ <<b, j>> \in lost

\* A table's columns are the properties of one of its operations (with those
\* the loop adds) and never change, whichever process created it and wherever
\* creation was cut short.
ColumnsOfOneOperation ==
    [][\A t \in tables : /\ columns'[t] = columns[t]
                         /\ \E b \in Heights : \E j \in DOMAIN Chain[b] :
                               Chain[b][j].type = t /\ columns[t] = Chain[b][j].props \cup AddedProps]_vars

\* What the process remembers of a table is what the table is, also when it
\* was created by this process after the cache was first asked for another.
CacheIsTheTable ==
    \A t \in Types : tableSchemaCache[t] \in {<<>>, <<columns[t]>>}

\* A stored operation holds every property its table has a column for, and so
\* lacks exactly those the operation that made the table lacked; its position,
\* memo and guarantee_id are held by every row of every table.
RowsHoldTheirColumns ==
    \A b \in Heights : \A j \in DOMAIN Chain[b] : \A r \in DOMAIN rows[<<b, j>>] :
        LET op == Chain[b][j] IN
        /\ rows[<<b, j>>][r] = (op.props \cup AddedProps) \cap columns[op.type]
        /\ {"block_num", "trxid", "index_in_tx", "memo", "guarantee_id"}
                \subseteq rows[<<b, j>>][r]
=============================================================================
