---------------------------- MODULE AddressBalance ----------------------------
(***************************************************************************)
(* The asset balances of addresses (table address_balance).  A plugin that *)
(* meets an operation touching an address asks hx_node for the address's   *)
(* balances as they are now, not as of the operation's block, looks the    *)
(* asset up in the asset table (filling it from list_assets when it is not *)
(* there), and inserts or updates the balance row.  The scan reads blocks  *)
(* long produced, is killed and resumes from the checkpoint, while the     *)
(* node goes on; each database statement commits by itself.                *)
(*                                                                         *)
(* A balance is modelled by its version: the number of operations that     *)
(* changed it, so 0 is an address the node has no balance for.  The scan   *)
(* loop is the one of Scanner with its breaks, each of which leaves        *)
(* operations of the block unapplied and the checkpoint free to pass them; *)
(* the rows Scanner keeps are left out.  So are two ways to resume, which  *)
(* are Scanner's: -scan_from, here at its default, and a broken-off read   *)
(* of the checkpoint's row, which starts again from block 1.               *)
(***************************************************************************)
EXTENDS Integers, Sequences, FiniteSets, SequencesExt

CONSTANTS
    Addrs, Assets,  \* addresses and asset ids
    NodeAssets,     \* the node's assets in the order list_assets reports them
    ListLimit,      \* how many of them it reports (100 in the code)
    Chain,          \* Chain[b]: the transactions of block b, each its operations
    Interval,       \* a checkpoint is written every Interval blocks
    MaxStarts,      \* bound: how many times the program is started
    MaxRows,        \* bound: rows of a key before every find of it sees one
    Faults          \* which calls may fail, which signals may arrive

Heights == DOMAIN Chain
Keys == Addrs \X Assets

(***************************************************************************)
(* An operation: its type; props, the properties of its JSON the plugins   *)
(* read (the asset in "amount" stands for the object holding it);          *)
(* deposits, the deposit_to_address changes of its receipt; and changes,   *)
(* the balances it changed at the node.  An "unreadable" operation is one  *)
(* the scan cannot take apart or whose type has no name.                   *)
(***************************************************************************)
AddrProps == {"addr", "caller_addr", "lock_balance_addr", "foreclose_addr",
              "from_addr", "to_addr"}
AssetProps == {"asset_id", "lock_asset_id", "foreclose_asset_id", "amount"}
ContractOps == {"contract_register_operation", "contract_upgrade_operation",
                "native_contract_register_operation", "contract_invoke_operation",
                "storage_operation", "transfer_contract_operation"}

IsOperation(op) ==
    /\ DOMAIN op.props \subseteq AddrProps \cup AssetProps
    /\ \A p \in DOMAIN op.props : op.props[p] \in IF p \in AddrProps THEN Addrs ELSE Assets
    /\ op.type = "transfer_operation" => {"from_addr", "to_addr"} \subseteq DOMAIN op.props
    /\ op.deposits \in Seq(Keys)
    /\ op.deposits # <<>> => op.type \in ContractOps
    /\ op.changes \subseteq Keys

IsSequence(s) == Len(s) \in Nat /\ DOMAIN s = 1 .. Len(s)

ASSUME OperationsAssumption ==
    /\ IsSequence(Chain)
    /\ \A b \in Heights :
          /\ IsSequence(Chain[b])
          /\ \A m \in DOMAIN Chain[b] :
                /\ IsSequence(Chain[b][m])
                /\ \A j \in DOMAIN Chain[b][m] : IsOperation(Chain[b][m][j])

ASSUME ParameterAssumption ==
    /\ NodeAssets \in Seq(Assets) /\ ListLimit \in Nat
    /\ Interval \in Nat \ {0} /\ MaxStarts \in Nat /\ MaxRows \in Nat
    /\ Faults \subseteq {"kill", "sigint", "get_block", "get_contract_invoke_object",
                         "db_row", "rows_err"}

VARIABLES
    head,           \* the node's highest block
    starts,         \* how many times the program has been started
    conn,           \* _ws: "none" (no process), "open", or "closed" and set to nil
    stopping,       \* ctx has been cancelled
    pc, end, n,     \* the scan goroutine, as in Scanner
    x, i, got,      \* its transaction and operation; txReceipts # nil
    queue,          \* the keys its plugins have still to update, the current one first
    amount,         \* newBalance
    l,              \* position in the assets listed
    balances,       \* address_balance: the amounts in the rows of each key
    assets,         \* the asset table, by its primary key
    lastScanned,    \* scan_configs.last_scanned_block_number
    (***********************************************************************)
    (* Observers, read by no action.                                       *)
    (***********************************************************************)
    asked,          \* amount is the node's answer, not the lack of one
    unread          \* keys whose last update due was made without an answer of
                    \* the node, or was skipped together with its operation

procVars == <<starts, conn, stopping>>
loopVars == <<end, n, x, i, got>>
keyVars == <<queue, amount, l>>
dbVars == <<balances, assets, lastScanned>>
observers == <<asked, unread>>
vars == <<head, procVars, pc, loopVars, keyVars, dbVars, observers>>

Running == pc \notin {"down", "ended"}
IsHxNodeConnected == conn = "open"

\* After SIGINT main closes the database under the scan goroutine.
DbCallFails == stopping \/ "db_row" \in Faults

\* A find whose rows.Next() breaks off returns nil and no error: the
\* rows.Err() after it is never reached.
RowsMissed == "rows_err" \in Faults

\* The operations of the chain, as <<block, transaction, operation>>.
Operations ==
    UNION {UNION {{<<b, m, j>> : j \in DOMAIN Chain[b][m]} : m \in DOMAIN Chain[b]}
              : b \in Heights}
OpAt(q) == Chain[q[1]][q[2]][q[3]]

\* The node's balance of key k once blocks 1 .. b are applied.
Version(b, k) == Cardinality({q \in Operations : q[1] <= b /\ k \in OpAt(q).changes})

-----------------------------------------------------------------------------
(* What the plugins do with an operation.                                  *)

Has(op, p) == p \in DOMAIN op.props

\* The first of the named properties the operation has, alone in a sequence.
FirstOf(op, names) ==
    LET present == {p \in DOMAIN names : Has(op, names[p])}
    IN  IF present = {} THEN <<>> ELSE <<op.props[names[Min(present)]]>>

TransferPlugin(op) ==
    IF op.type = "transfer_operation" /\ Has(op, "amount")
    THEN << <<op.props["from_addr"], op.props["amount"]>>,
            <<op.props["to_addr"], op.props["amount"]>> >>
    ELSE <<>>

AssetMaybeChangePlugin(op) ==
    LET addr == FirstOf(op, <<"addr", "caller_addr", "lock_balance_addr", "foreclose_addr">>)
        asset == FirstOf(op, <<"asset_id", "lock_asset_id", "foreclose_asset_id", "amount">>)
    IN  IF addr # <<>> /\ asset # <<>> THEN << <<addr[1], asset[1]>> >> ELSE <<>>

\* The token plugin's withdraws, from the receipt when there is one.
ContractWithdraws(op, receipt) == IF receipt THEN op.deposits ELSE <<>>

Updates(op, receipt) ==
    TransferPlugin(op) \o AssetMaybeChangePlugin(op) \o ContractWithdraws(op, receipt)

\* The keys the plugins are due to update for an operation.
UpdatedBy(op) == ToSet(Updates(op, TRUE))

Key == Head(queue)
Listed == SubSeq(NodeAssets, 1, IF Len(NodeAssets) < ListLimit THEN Len(NodeAssets) ELSE ListLimit)

-----------------------------------------------------------------------------
(* The process.                                                            *)

Init ==
    /\ head = 0 /\ starts = 0 /\ conn = "none" /\ stopping = FALSE
    /\ pc = "down" /\ end = FALSE /\ n = 0 /\ x = 1 /\ i = 1 /\ got = FALSE
    /\ queue = <<>> /\ amount = 0 /\ l = 1
    /\ balances = [k \in Keys |-> <<>>] /\ assets = {} /\ lastScanned = 0
    /\ asked = FALSE /\ unread = {}

\* Without -scan_from, and with the checkpoint's row read.
Start ==
    /\ pc = "down" /\ starts < MaxStarts
    /\ starts' = starts + 1
    /\ conn' = "open" /\ stopping' = FALSE
    /\ pc' = "loop" /\ end' = FALSE
    /\ n' = lastScanned + 1
    /\ UNCHANGED <<head, x, i, got, keyVars, dbVars, observers>>

Interrupt ==
    /\ "sigint" \in Faults
    /\ Running /\ ~stopping
    /\ stopping' = TRUE
    /\ UNCHANGED <<head, starts, conn, pc, loopVars, keyVars, dbVars, observers>>

CloseHxNodeConn ==
    /\ stopping /\ IsHxNodeConnected
    /\ conn' = "closed"
    /\ UNCHANGED <<head, starts, stopping, pc, loopVars, keyVars, dbVars, observers>>

\* Whatever kills the process, and what it then has in memory.
Dies ==
    /\ pc' = "down" /\ end' = FALSE /\ n' = 0 /\ x' = 1 /\ i' = 1 /\ got' = FALSE
    /\ queue' = <<>> /\ amount' = 0 /\ l' = 1
    /\ conn' = "none" /\ stopping' = FALSE /\ asked' = FALSE
    /\ UNCHANGED <<head, starts, dbVars, unread>>

\* The end of main after SIGINT, SIGTERM, or a failed call: an error of a
\* plugin is a logger.Fatal.
ProcessEnds ==
    /\ pc # "down"
    /\ stopping \/ "kill" \in Faults
    /\ Dies

NodeProducesBlock ==
    /\ head < Len(Chain)
    /\ head' = head + 1
    /\ UNCHANGED <<procVars, pc, loopVars, keyVars, dbVars, observers>>

-----------------------------------------------------------------------------
(* The scan loop around the plugins.                                       *)

LoopHead ==
    /\ pc = "loop"
    /\ pc' = IF end THEN "ended" ELSE "fetch"
    /\ end' = (end \/ stopping)
    /\ UNCHANGED <<head, procVars, n, x, i, got, keyVars, dbVars, observers>>

GetBlock ==
    /\ pc = "fetch"
    /\ pc' = IF IsHxNodeConnected /\ n <= head THEN "tx" ELSE "atHead"
    /\ x' = 1
    /\ UNCHANGED <<head, procVars, end, n, i, got, keyVars, dbVars, observers>>

\* A break out of the scan loop: the block's call, or one of its rows.
GetBlockFails ==
    /\ pc = "fetch"
    /\ conn = "closed" \/ "get_block" \in Faults \/ DbCallFails
    /\ pc' = "ended"
    /\ UNCHANGED <<head, procVars, loopVars, keyVars, dbVars, observers>>

MutHeadCheckpointTwoBack == n - 2
HeadCheckpoint == n - 1

UpdateLastScannedAtHead ==
    /\ pc = "atHead"
    /\ lastScanned' = HeadCheckpoint
    /\ pc' = "loop"
    /\ UNCHANGED <<head, procVars, loopVars, keyVars, balances, assets, observers>>

Txs == Chain[n]
Ops == Txs[x]

CheckTransactionHasContractOp(tx) == \E j \in DOMAIN tx : tx[j].type \in ContractOps

\* nil and no error when the connection is already gone.
GetTxReceipts ==
    /\ pc = "tx" /\ x <= Len(Txs)
    /\ got' = (CheckTransactionHasContractOp(Ops) /\ IsHxNodeConnected)
    /\ pc' = "op" /\ i' = 1
    /\ UNCHANGED <<head, procVars, end, n, x, keyVars, dbVars, observers>>

ReceiptsFail ==
    /\ CheckTransactionHasContractOp(Ops)
    /\ conn = "closed" \/ "get_contract_invoke_object" \in Faults

\* The keys of operation j and the ones after it in transaction m.
KeysFrom(m, j) == UNION {UpdatedBy(Txs[m][o]) : o \in j .. Len(Txs[m])}

\* A break in the transaction loop: the receipts could not be asked for, or the
\* transaction's row could not be found or saved.
AbandonBlock ==
    /\ pc = "tx" /\ x <= Len(Txs)
    /\ ReceiptsFail \/ DbCallFails
    /\ unread' = unread \cup UNION {KeysFrom(m, 1) : m \in x .. Len(Txs)}
    /\ x' = Len(Txs) + 1
    /\ UNCHANGED <<head, procVars, pc, end, n, i, got, keyVars, dbVars, asked>>

\* A break in the operation loop: an operation without a name, or one whose
\* table or row could not be looked for.
AbandonTransaction ==
    /\ pc = "op" /\ i <= Len(Ops)
    /\ Ops[i].type = "unreadable" \/ DbCallFails
    /\ unread' = unread \cup KeysFrom(x, i)
    /\ pc' = "tx" /\ x' = x + 1
    /\ UNCHANGED <<head, procVars, end, n, i, got, keyVars, dbVars, asked>>

\* Without receipts the operation is applied and its deposits are not.
ApplyPlugins ==
    /\ pc = "op" /\ i <= Len(Ops)
    /\ Ops[i].type # "unreadable"
    /\ queue' = Updates(Ops[i], got)
    /\ unread' = unread \cup (IF got THEN {} ELSE ToSet(Ops[i].deposits))
    /\ pc' = "update"
    /\ UNCHANGED <<head, procVars, loopVars, amount, l, dbVars, asked>>

MutPluginsDoneSameOperation ==
    /\ pc = "update" /\ queue = <<>>
    /\ pc' = "op"
    /\ UNCHANGED <<head, procVars, loopVars, keyVars, dbVars, observers>>
PluginsDone ==
    /\ pc = "update" /\ queue = <<>>
    /\ pc' = "op" /\ i' = i + 1
    /\ UNCHANGED <<head, procVars, end, n, x, got, keyVars, dbVars, observers>>

TransactionDone ==
    /\ pc = "op" /\ i > Len(Ops)
    /\ pc' = "tx" /\ x' = x + 1
    /\ UNCHANGED <<head, procVars, end, n, i, got, keyVars, dbVars, observers>>

CheckpointAfterBlock == IF n % Interval = 0 THEN n ELSE lastScanned

\* Reached after the last transaction or a break out of them.
FinishBlock ==
    /\ pc = "tx" /\ x > Len(Txs)
    /\ lastScanned' = CheckpointAfterBlock
    /\ n' = n + 1 /\ pc' = "loop"
    /\ x' = 1 /\ i' = 1 /\ got' = FALSE
    /\ UNCHANGED <<head, procVars, end, keyVars, balances, assets, observers>>

-----------------------------------------------------------------------------
(* updateAddressBalance, for the first key of the queue.                   *)

MutBalanceAsOfBlock(k) == IF IsHxNodeConnected THEN Version(n, k) ELSE 0

\* get_addr_balances; nil and no error when the connection is gone, and a
\* key that is not in the result counts as 0.
BalanceReported(k) == IF IsHxNodeConnected THEN Version(head, k) ELSE 0

GetAddressBalances ==
    /\ pc = "update" /\ queue # <<>>
    /\ amount' = BalanceReported(Key)
    /\ asked' = IsHxNodeConnected
    /\ pc' = "asset"
    /\ UNCHANGED <<head, procVars, loopVars, queue, l, dbVars, unread>>

AssetNotFound(a) == a \notin assets \/ RowsMissed

FindAsset ==
    /\ pc = "asset" /\ Key[2] \in assets
    /\ pc' = "write"
    /\ UNCHANGED <<head, procVars, loopVars, keyVars, dbVars, observers>>

ListAssets ==
    /\ pc = "asset" /\ AssetNotFound(Key[2])
    /\ IsHxNodeConnected
    /\ pc' = "list" /\ l' = 1
    /\ UNCHANGED <<head, procVars, loopVars, queue, amount, dbVars, observers>>

\* Find, and save when not found, the next asset listed.
SaveAsset ==
    /\ pc = "list" /\ l <= Len(Listed)
    /\ assets' = assets \cup {Listed[l]}
    /\ l' = l + 1
    /\ UNCHANGED <<head, procVars, pc, loopVars, queue, amount, balances, lastScanned, observers>>

\* An asset that is there and was not found: asset_id is the primary key.
SaveAssetAgain ==
    /\ pc = "list" /\ l <= Len(Listed)
    /\ Listed[l] \in assets /\ AssetNotFound(Listed[l])
    /\ Dies

AssetsListed ==
    /\ pc = "list" /\ l > Len(Listed)
    /\ Key[2] \in ToSet(Listed)
    /\ pc' = "write"
    /\ UNCHANGED <<head, procVars, loopVars, keyVars, dbVars, observers>>

MutUnknownAssetSkipped ==
    /\ \/ pc = "list" /\ l > Len(Listed) /\ Key[2] \notin ToSet(Listed)
       \/ pc = "asset" /\ AssetNotFound(Key[2]) /\ ~IsHxNodeConnected
    /\ pc' = "update" /\ queue' = Tail(queue)
    /\ UNCHANGED <<head, procVars, loopVars, amount, l, dbVars, observers>>

\* "unknown asset id": the error goes up to a logger.Fatal.
UnknownAsset ==
    /\ \/ pc = "list" /\ l > Len(Listed) /\ Key[2] \notin ToSet(Listed)
       \/ pc = "asset" /\ AssetNotFound(Key[2]) /\ ~IsHxNodeConnected
    /\ Dies

Updated(k) == {[balances EXCEPT ![k] = [balances[k] EXCEPT ![j] = amount]] : j \in DOMAIN balances[k]}
Inserted(k) == [balances EXCEPT ![k] = Append(balances[k], amount)]

MutRowAlwaysInserted == {Inserted(Key)}
MutExistingRowKept == IF balances[Key] # <<>> THEN {balances} ELSE {Inserted(Key)}

\* FindAddressBalance and then UpdateAddressBalance, of any row found, or
\* SaveAddressBalance when there is none or the find missed it.
RowFoundOrInserted ==
    Updated(Key) \cup
        (IF balances[Key] = <<>> \/ (RowsMissed /\ Len(balances[Key]) < MaxRows)
         THEN {Inserted(Key)} ELSE {})

SaveOrUpdateAddressBalance ==
    /\ pc = "write"
    /\ balances' \in RowFoundOrInserted
    /\ unread' = IF asked THEN unread \ {Key} ELSE unread \cup {Key}
    /\ queue' = Tail(queue)
    /\ pc' = "update"
    /\ UNCHANGED <<head, procVars, loopVars, amount, l, assets, lastScanned, asked>>

ScanStep ==
    \/ LoopHead \/ GetBlock \/ GetBlockFails \/ UpdateLastScannedAtHead
    \/ GetTxReceipts \/ AbandonBlock \/ AbandonTransaction
    \/ ApplyPlugins \/ PluginsDone \/ TransactionDone \/ FinishBlock
    \/ GetAddressBalances \/ FindAsset \/ ListAssets \/ SaveAsset \/ SaveAssetAgain
    \/ AssetsListed \/ UnknownAsset \/ SaveOrUpdateAddressBalance

Next ==
    \/ Start \/ Interrupt \/ CloseHxNodeConn \/ ProcessEnds \/ NodeProducesBlock
    \/ ScanStep

Spec == Init /\ [][Next]_vars /\ WF_vars(ScanStep)

-----------------------------------------------------------------------------
(* Properties.                                                             *)

TypeOK ==
    /\ head \in 0 .. Len(Chain) /\ starts \in 0 .. MaxStarts
    /\ conn \in {"none", "open", "closed"} /\ stopping \in BOOLEAN /\ end \in BOOLEAN
    /\ pc \in {"down", "loop", "fetch", "atHead", "tx", "op", "update", "asset", "list",
               "write", "ended"}
    /\ n \in Nat /\ x \in Nat /\ i \in Nat /\ got \in BOOLEAN /\ amount \in Nat /\ l \in Nat
    /\ queue \in Seq(Keys)
    /\ pc \in {"asset", "list", "write"} => queue # <<>>
    /\ asked \in BOOLEAN /\ unread \subseteq Keys
    /\ balances \in [Keys -> Seq(Nat)]
    /\ assets \subseteq Assets
    /\ lastScanned \in Nat

\* While every find sees the rows there are, an address has one balance row per
\* asset however often its operations are applied again; and the asset whose
\* precision scaled it is in asset: the two writes are separate statements and
\* the process may die between them.
OneRowWithAsset ==
    \A k \in Keys : Len(balances[k]) <= 1 /\ (balances[k] # <<>> => k[2] \in assets)

\* A row of key k has a balance from block b or later.
HasBalanceOf(b, k) == \E j \in DOMAIN balances[k] : balances[k][j] >= Version(b, k)

\* The checkpoint passes a block only when every balance its operations make a
\* plugin update is stored and is at least as recent as the block, but for those
\* whose operation a break skipped, or that fell into the shutdown, and that
\* have not been updated since.  An asset the node does not list holds the
\* checkpoint back for good.  After a find that missed a row there are two, and
\* one of them is that recent.
CheckpointedBalancesCurrent ==
    \A q \in Operations : q[1] <= lastScanned =>
        \A k \in UpdatedBy(OpAt(q)) : k \in unread \/ HasBalanceOf(q[1], k)

\* The keys the plugins update for every operation that changes them.  A fee,
\* for one, changes a balance without being named in the operation.
Tracked == {k \in Keys : \A q \in Operations :
                k \in OpAt(q).changes => k \in UpdatedBy(OpAt(q))}

\* Between blocks a tracked balance that is not in the table as the node has it
\* has an operation that changed it still to be scanned, or was skipped or fell
\* into a shutdown: a rescan after a crash that reads today's balance for an
\* old operation does no harm.
StaleOnlyBeforePendingOperation ==
    pc = "loop" => \A k \in Tracked \ unread :
        Version(head, k) > 0 /\ (\A j \in DOMAIN balances[k] : balances[k][j] # Version(head, k)) =>
            \E q \in Operations : q[1] \in n .. head /\ k \in OpAt(q).changes

\* A stored balance the node was asked for is never replaced by an older one,
\* although operations are applied again in chain order after the later ones were.
BalancesNeverGoBack ==
    [][\A k \in Keys \ unread' : \A j \in DOMAIN balances[k] :
          j \in DOMAIN balances'[k] /\ balances'[k][j] >= balances[k][j]]_balances

\* While a scanner runs, the balances of the keys some produced operation
\* makes a plugin update become those the node reports, unless a break skipped
\* the operation or a shutdown's 0 was stored.
BalancesCatchUp ==
    \A q \in Operations : \A k \in UpdatedBy(OpAt(q)) :
        Running /\ conn = "open" /\ head >= q[1]
            ~> HasBalanceOf(q[1], k) \/ k \in unread \/ ~Running \/ conn # "open"

\* node.go:211 "the balances of each asset of an address": what is read for an
\* operation is a balance the node held at its block or later.  Does not hold:
\* with the connection closed GetAddressBalances returns nil and no error, and
\* 0 is stored.
BalanceReadIsTheNodes ==
    pc = "write" => \E b \in n .. head : amount = Version(b, Key)
=============================================================================
