---------------------------- MODULE TokenContracts ----------------------------
(***************************************************************************)
(* What the plugins record of token contracts and of accounts: a contract  *)
(* registered with a token's interface gets a row in token_contract; the   *)
(* Inited and Transfer events of its invocations update that row, add to   *)
(* the transfer history and refresh the token balances of the two parties, *)
(* which are asked of hx_node as they are now; an account_create operation *)
(* names its payer's address.                                              *)
(*                                                                         *)
(* The plugins' errors are the hard part.  Whatever ApplyOperation returns *)
(* is fatal, but most failures inside the event loop only set the named    *)
(* result err and continue, and the next assignment to err hides them.     *)
(* err is modelled by the work whose failure it stands for: {} is nil.     *)
(*                                                                         *)
(* What the node keeps of a contract is modelled by versions: how many     *)
(* events changed it.  The scan loop is Scanner's, with what does not      *)
(* touch these tables left out: the shutdown shows only as calls that      *)
(* fail, or that return nothing for want of a connection, and a scan that  *)
(* ends as one that is killed.  The deposits at the end of a receipt are   *)
(* AddressBalance's, and count here only because they assign err.  Two     *)
(* ways to resume are Scanner's: -scan_from, here at its default, and a    *)
(* broken-off read of the checkpoint's row, which starts from block 1.     *)
(***************************************************************************)
EXTENDS Integers, Sequences, FiniteSets, SequencesExt

CONSTANTS
    Contracts, Users,
    Nobody,         \* the empty address of a Transfer that mints or burns
    Txids, MaxOps,  \* transaction ids; bound: operations of a transaction
    Chain,          \* Chain[b]: the transactions of block b
    Interval,       \* a checkpoint is written every Interval blocks
    MaxStarts,      \* bound: how many times the program is started
    MaxRows,        \* bound: rows of a key before every find of it sees one
    Faults          \* which calls may fail, which signals may arrive

Heights == DOMAIN Chain
OpKeys == Txids \X (1 .. MaxOps)
BalanceKeys == Contracts \X Users

(***************************************************************************)
(* A transaction has an id, operations, and the receipts                   *)
(* get_contract_invoke_object reports for it.  An operation has a kind; a  *)
(* registration also a contract and whether its abi is a token's, another  *)
(* contract's or not decodable; an account_create an owner and a name.  An *)
(* "Unreadable" event is a Transfer whose argument is not the expected     *)
(* JSON; fits says that its amount is below the column's 10^18.            *)
(***************************************************************************)
AbiKinds == {"token", "other", "bad"}
EventNames == {"Inited", "Transfer", "Unreadable", "Approved"}

IsSequence(s) == Len(s) \in Nat /\ s = [j \in 1 .. Len(s) |-> s[j]]

IsEvent(v) ==
    /\ v.contract \in Contracts /\ v.name \in EventNames /\ v.fits \in BOOLEAN
    /\ v.from \in Users \cup {Nobody} /\ v.to \in Users \cup {Nobody}

IsTransaction(tx) ==
    /\ tx.id \in Txids
    /\ IsSequence(tx.ops) /\ Len(tx.ops) <= MaxOps /\ IsSequence(tx.receipts)
    /\ \A j \in DOMAIN tx.ops :
          /\ tx.ops[j].kind \in {"register", "account", "invoke"}
          /\ tx.ops[j].kind = "register" =>
                tx.ops[j].contract \in Contracts /\ tx.ops[j].abi \in AbiKinds
          /\ tx.ops[j].kind = "account" => tx.ops[j].owner \in Users
    /\ \A j \in DOMAIN tx.receipts :
          /\ IsSequence(tx.receipts[j].events)
          /\ \A v \in DOMAIN tx.receipts[j].events : IsEvent(tx.receipts[j].events[v])

ASSUME TransactionsAssumption ==
    /\ IsSequence(Chain)
    /\ \A b \in Heights :
          /\ IsSequence(Chain[b])
          /\ \A m \in DOMAIN Chain[b] : IsTransaction(Chain[b][m])

ASSUME ParameterAssumption ==
    /\ MaxOps \in Nat /\ Interval \in Nat \ {0} /\ MaxStarts \in Nat /\ MaxRows \in Nat
    /\ Faults \subseteq {"get_contract_invoke_object", "invoke_contract_offline",
                         "db_row", "db_token", "rows_err", "kill"}

\* The work of the plugins that can fail without ending the process.
Work == ({"history"} \X OpKeys) \cup ({"balance"} \X BalanceKeys)
            \cup ({"info", "supply"} \X Contracts)

VARIABLES
    head,           \* the node's highest block
    starts,         \* how many times the program has been started
    pc, n,          \* the scan goroutine, as in Scanner
    x, i, got,      \* its transaction and operation; txReceipts # nil
    ev,             \* the event the invoke plugin is at
    users,          \* usersToUpdate, the current one first
    err,            \* its named result
    (***********************************************************************)
    (* The tables, none of which has a unique key: the rows of each key.   *)
    (***********************************************************************)
    tokens,         \* token_contract by contract_id
    balances,       \* token_balance by contract_addr and owner_addr
    history,        \* token_contract_transfer_history by txid and op_num: the event
    accounts,       \* account by owner_addr: the name
    lastScanned,    \* scan_configs.last_scanned_block_number
    (***********************************************************************)
    (* Observers, read by no action.                                       *)
    (***********************************************************************)
    unseen,         \* operations a failure of the scan loop kept from the plugins
    hidden,         \* failed work whose error a later assignment hid
    missed          \* events passed over because a find missed their token's row

loopVars == <<pc, n, x, i, got>>
eventVars == <<ev, users, err>>
tables == <<tokens, balances, history, accounts>>
observers == <<unseen, hidden, missed>>
vars == <<head, starts, loopVars, eventVars, tables, lastScanned, observers>>

Unknown == -1
Tx == Chain[n][x]
Op == Tx.ops[i]
OpKey == <<Tx.id, i>>

-----------------------------------------------------------------------------
(* The node.                                                               *)

\* The receipt the plugins are given for operation j: the one at its position,
\* whatever its op_num.
ReceiptAt(tx, j) == IF j <= Len(tx.receipts) THEN <<tx.receipts[j]>> ELSE <<>>
Succeeded(tx, j) == ReceiptAt(tx, j) # <<>> /\ ReceiptAt(tx, j)[1].ok
EventsOf(tx, j) == IF Succeeded(tx, j) THEN ReceiptAt(tx, j)[1].events ELSE <<>>
CheckTransactionHasContractOp(tx) ==
    \E j \in DOMAIN tx.ops : tx.ops[j].kind \in {"register", "invoke"}

\* Every event of the chain, with its block.
Happened ==
    UNION {UNION {UNION {{<<h, m, j, v, EventsOf(Chain[h][m], j)[v]>>
        : v \in DOMAIN EventsOf(Chain[h][m], j)}
        : j \in DOMAIN Chain[h][m].ops} : m \in DOMAIN Chain[h]} : h \in Heights}

Parties(v) == {v.from, v.to} \ {Nobody}
Moves(v) == v.name = "Transfer"
Mints(v) == Moves(v) /\ Nobody \in {v.from, v.to}

\* The node's versions once blocks 1 .. b are applied: of what a contract says
\* of itself, of its supply, and of a user's balance.
InfoAt[b \in 0 .. Len(Chain)] == [c \in Contracts |->
    Cardinality({q \in Happened : q[1] <= b /\ q[5].contract = c /\ q[5].name = "Inited"})]
SupplyAt[b \in 0 .. Len(Chain)] == [c \in Contracts |->
    InfoAt[b][c] + Cardinality({q \in Happened : q[1] <= b /\ q[5].contract = c /\ Mints(q[5])})]
BalanceAt[b \in 0 .. Len(Chain)] == [k \in BalanceKeys |->
    Cardinality({q \in Happened : q[1] <= b /\ q[5].contract = k[1] /\ Moves(q[5])
                                    /\ k[2] \in Parties(q[5])})]
\* A balance a too large amount went into is itself too large for the column.
BalanceFits[b \in 0 .. Len(Chain)] == [k \in BalanceKeys |->
    \A q \in Happened : q[1] <= b /\ q[5].contract = k[1] /\ Moves(q[5]) /\ q[5].to = k[2]
                            => q[5].fits]

\* The operations of the chain, as <<block, transaction, operation>>.
Operations ==
    UNION {UNION {{<<b, m, j>> : j \in DOMAIN Chain[b][m].ops} : m \in DOMAIN Chain[b]}
              : b \in Heights}
OpAt(q) == Chain[q[1]][q[2]].ops[q[3]]
KeyAt(q) == <<Chain[q[1]][q[2]].id, q[3]>>
EventsAt(q) == EventsOf(Chain[q[1]][q[2]], q[3])

\* The names that addresses are given.
Names == {OpAt(q).name : q \in {o \in Operations : OpAt(o).kind = "account"}}

Registrations ==
    {q \in Operations : OpAt(q).kind = "register" /\ Succeeded(Chain[q[1]][q[2]], q[3])}

Precedes(p, q) ==
    \/ p[1] < q[1]
    \/ p[1] = q[1] /\ (p[2] < q[2] \/ (p[2] = q[2] /\ p[3] < q[3]))

\* What holds of the chain as a whole: a transaction's id is its own; the node
\* has receipts of transactions with a contract operation only; and a token is
\* registered once, before it has any events.
ASSUME ChainAssumption ==
    /\ \A p, q \in Operations : KeyAt(p) = KeyAt(q) => p = q
    /\ \A b \in Heights : \A m \in DOMAIN Chain[b] :
          Chain[b][m].receipts # <<>> => CheckTransactionHasContractOp(Chain[b][m])
    /\ \A r \in Registrations : OpAt(r).abi = "token" =>
          /\ \A q \in Registrations : OpAt(q).contract = OpAt(r).contract => q = r
          /\ \A e \in Happened : e[5].contract = OpAt(r).contract => ~Precedes(e, r)

-----------------------------------------------------------------------------
(* The process and the scan loop around the plugins.                       *)

Init ==
    /\ head = 0 /\ starts = 0
    /\ pc = "down" /\ n = 0 /\ x = 1 /\ i = 1 /\ got = FALSE
    /\ ev = 1 /\ users = <<>> /\ err = {}
    /\ tokens = [c \in Contracts |-> <<>>] /\ balances = [k \in BalanceKeys |-> <<>>]
    /\ history = [k \in OpKeys |-> <<>>] /\ accounts = [u \in Users |-> <<>>]
    /\ lastScanned = 0 /\ unseen = {} /\ hidden = {} /\ missed = {}

\* Without -scan_from, and with the checkpoint's row read.
Start ==
    /\ pc = "down" /\ starts < MaxStarts
    /\ starts' = starts + 1
    /\ pc' = "loop" /\ n' = lastScanned + 1
    /\ UNCHANGED <<head, x, i, got, eventVars, tables, lastScanned, observers>>

\* The end of the process and of what it has in memory.
Dies ==
    /\ pc' = "down" /\ n' = 0 /\ x' = 1 /\ i' = 1 /\ got' = FALSE
    /\ ev' = 1 /\ users' = <<>> /\ err' = {}
    /\ UNCHANGED <<head, starts, lastScanned, observers>>

ProcessEnds ==
    /\ "kill" \in Faults
    /\ pc # "down"
    /\ Dies
    /\ UNCHANGED tables

NodeProducesBlock ==
    /\ head < Len(Chain)
    /\ head' = head + 1
    /\ UNCHANGED <<starts, loopVars, eventVars, tables, lastScanned, observers>>

GetBlock ==
    /\ pc = "loop" /\ n <= head
    /\ pc' = "tx" /\ x' = 1
    /\ UNCHANGED <<head, starts, n, i, got, eventVars, tables, lastScanned, observers>>

MutHeadCheckpointTwoBack == n - 2
HeadCheckpoint == n - 1

UpdateLastScannedAtHead ==
    /\ pc = "loop" /\ n > head
    /\ lastScanned' = HeadCheckpoint
    /\ UNCHANGED <<head, starts, loopVars, eventVars, tables, observers>>

KeysFrom(m) == UNION {{Chain[n][q].id} \X (DOMAIN Chain[n][q].ops) : q \in m .. Len(Chain[n])}

\* GetTxReceipts, nil and no error without a connection.
GetTxReceipts ==
    /\ pc = "tx" /\ x <= Len(Chain[n])
    /\ got' \in {CheckTransactionHasContractOp(Tx)}
                \cup (IF "get_contract_invoke_object" \in Faults THEN {FALSE} ELSE {})
    /\ unseen' = IF CheckTransactionHasContractOp(Tx) /\ ~got'
                 THEN unseen \cup ({Tx.id} \X DOMAIN Tx.ops)
                 ELSE unseen \ ({Tx.id} \X DOMAIN Tx.ops)
    /\ pc' = "op" /\ i' = 1
    /\ UNCHANGED <<head, starts, n, x, eventVars, tables, lastScanned, hidden, missed>>

\* A break in the transaction loop: the receipts, or the transaction's row.
AbandonBlock ==
    /\ pc = "tx" /\ x <= Len(Chain[n])
    /\ \/ CheckTransactionHasContractOp(Tx) /\ "get_contract_invoke_object" \in Faults
       \/ "db_row" \in Faults
    /\ unseen' = unseen \cup KeysFrom(x)
    /\ x' = Len(Chain[n]) + 1
    /\ UNCHANGED <<head, starts, pc, n, i, got, eventVars, tables, lastScanned, hidden,
                   missed>>

\* A break in the operation loop: the operation's rows.  Every operation of the
\* chain has a name and decodes; one that does not is skipped the same way.
AbandonTransaction ==
    /\ pc = "op" /\ i <= Len(Tx.ops)
    /\ "db_row" \in Faults
    /\ unseen' = unseen \cup ({Tx.id} \X (i .. Len(Tx.ops)))
    /\ pc' = "tx" /\ x' = x + 1
    /\ UNCHANGED <<head, starts, n, i, got, eventVars, tables, lastScanned, hidden, missed>>

TransactionDone ==
    /\ pc = "op" /\ i > Len(Tx.ops)
    /\ pc' = "tx" /\ x' = x + 1
    /\ UNCHANGED <<head, starts, n, i, got, eventVars, tables, lastScanned, observers>>

FinishBlock ==
    /\ pc = "tx" /\ x > Len(Chain[n])
    /\ lastScanned' = IF n % Interval = 0 THEN n ELSE lastScanned
    /\ n' = n + 1 /\ pc' = "loop"
    /\ x' = 1 /\ i' = 1 /\ got' = FALSE
    /\ UNCHANGED <<head, starts, eventVars, tables, observers>>

-----------------------------------------------------------------------------
(* The account and the token registration plugins.                         *)

rest == <<head, starts, n, x, i, got, lastScanned, unseen>>

\* A find whose rows.Next() breaks off returns nil and no error: the
\* rows.Err() after it is never reached.
RowsMissed == "rows_err" \in Faults
MayBeInserted(rows) == rows = <<>> \/ (RowsMissed /\ Len(rows) < MaxRows)

Inserted(table, k, row) == [table EXCEPT ![k] = Append(@, row)]

\* A row of key k is found and kept, or there is none, or it is missed.
FoundOrInserted(table, k, row) ==
    (IF table[k] # <<>> THEN {table} ELSE {})
        \cup (IF MayBeInserted(table[k]) THEN {Inserted(table, k, row)} ELSE {})

AccountFoundOrInserted == FoundOrInserted(accounts, Op.owner, Op.name)

RegisterAccount ==
    /\ pc = "op" /\ i <= Len(Tx.ops)
    /\ accounts' \in IF Op.kind = "account" THEN AccountFoundOrInserted ELSE {accounts}
    /\ pc' = "create"
    /\ UNCHANGED <<rest, eventVars, tokens, balances, history, hidden, missed>>

RegisterAccountFails ==
    /\ pc = "op" /\ i <= Len(Tx.ops) /\ Op.kind = "account"
    /\ "db_token" \in Faults
    /\ accounts' \in {accounts} \cup AccountFoundOrInserted
    /\ Dies
    /\ UNCHANGED <<tokens, balances, history>>

Registration == Op.kind = "register" /\ got /\ Succeeded(Tx, i)
IsTokenRegistration == Registration /\ Op.abi = "token"

NotATokenRegistration ==
    /\ pc = "create"
    /\ ~IsTokenRegistration /\ ~(Registration /\ Op.abi = "bad")
    /\ pc' = "events" /\ ev' = 1
    /\ UNCHANGED <<rest, users, err, tables, hidden, missed>>

MutUndecodableSkipped ==
    /\ pc = "create"
    /\ Registration /\ Op.abi = "bad"
    /\ pc' = "events" /\ ev' = 1
    /\ UNCHANGED <<rest, users, err, tables, hidden, missed>>
\* decodeTokenRegisterOperation's error is returned, and fatal.
RegistrationUndecodable ==
    /\ pc = "create"
    /\ Registration /\ Op.abi = "bad"
    /\ Dies
    /\ UNCHANGED tables

\* An invoke_contract_offline that is answered with v, or is not.
Replies(v) == {v} \cup (IF "invoke_contract_offline" \in Faults THEN {Unknown} ELSE {})

InfoReplies(c) == Replies(InfoAt[head][c])
SupplyReplies(c) == Replies(SupplyAt[head][c])

\* The info and supply work of token c that none of these rows has.
Unanswered(c, rows) ==
    {w \in {"info", "supply"} : \A r \in DOMAIN rows : rows[r][w] = Unknown} \X {c}

\* Without an answer name, symbol and precision, or the supply, are NULL.
TokenFoundOrInserted ==
    UNION {FoundOrInserted(tokens, Op.contract,
                           [common |-> FALSE, info |-> info, supply |-> supply])
              : info \in InfoReplies(Op.contract), supply \in SupplyReplies(Op.contract)}

\* A token found keeps what it was inserted with, NULLs included.
SaveTokenContract ==
    /\ pc = "create" /\ IsTokenRegistration
    /\ tokens' \in TokenFoundOrInserted
    /\ hidden' = hidden \cup Unanswered(Op.contract, tokens'[Op.contract])
    /\ pc' = "events" /\ ev' = 1
    /\ UNCHANGED <<rest, users, err, balances, history, accounts, missed>>

\* A failing insert may still have been committed.
SaveTokenContractFails ==
    /\ pc = "create" /\ IsTokenRegistration
    /\ "db_token" \in Faults
    /\ tokens' \in {tokens} \cup TokenFoundOrInserted
    /\ Dies
    /\ UNCHANGED <<balances, history, accounts>>

-----------------------------------------------------------------------------
(* The invoke plugin's event loop.                                         *)

Events == IF got THEN EventsOf(Tx, i) ELSE <<>>
Event == Events[ev]
IsTokenContract == tokens[Event.contract] # <<>>
AtEvent == pc = "events" /\ ev <= Len(Events)
AtTokenEvent(name) == AtEvent /\ IsTokenContract /\ Event.name = name
atEvent == <<rest, users>>

\* An assignment to err: what it stood for until now is forgotten.
SetErr(work) == err' = work /\ hidden' = hidden \cup err
SetErrDone(done) == err' = {} /\ hidden' = (hidden \cup err) \ done

IsTokenContractFails ==
    /\ AtEvent
    /\ "db_token" \in Faults
    /\ Dies
    /\ UNCHANGED tables

SkipEvent ==
    /\ AtEvent
    /\ ~IsTokenContract \/ Event.name = "Approved"
    /\ SetErr({})
    /\ ev' = ev + 1
    /\ UNCHANGED <<atEvent, pc, tables, missed>>

\* The find of isTokenContract, or the one Inited makes after it, misses the
\* token's row: the event is passed over, and err is nil.
TokenMissed ==
    /\ AtEvent /\ IsTokenContract /\ RowsMissed
    /\ missed' = missed \cup {<<OpKey, ev>>}
    /\ SetErr({})
    /\ ev' = ev + 1
    /\ UNCHANGED <<atEvent, pc, tables>>

MutStateNotSet(row, info, supply) ==
    [common |-> row.common,
     info |-> IF info = Unknown THEN row.info ELSE info,
     supply |-> IF supply = Unknown THEN row.supply ELSE supply]
\* The row as Inited updates it, from what the two queries returned.
Initialised(row, info, supply) ==
    [common |-> TRUE,
     info |-> IF info = Unknown THEN row.info ELSE info,
     supply |-> IF supply = Unknown THEN row.supply ELSE supply]

\* UpdateTokenContract of the row found.
RowInited(r, info, supply) ==
    [tokens EXCEPT ![Event.contract][r] = Initialised(@, info, supply)]
InitedTables ==
    {RowInited(r, info, supply) : r \in DOMAIN tokens[Event.contract],
        info \in InfoReplies(Event.contract), supply \in SupplyReplies(Event.contract)}

Inited ==
    /\ AtTokenEvent("Inited")
    /\ \E info \in InfoReplies(Event.contract), supply \in SupplyReplies(Event.contract) :
          /\ \E r \in DOMAIN tokens[Event.contract] : tokens' = RowInited(r, info, supply)
          /\ hidden' = ((hidden \cup err) \ ({"info", "supply"} \X {Event.contract}))
                \cup Unanswered(Event.contract, <<[info |-> info, supply |-> supply]>>)
    /\ err' = {}
    /\ ev' = ev + 1
    /\ UNCHANGED <<atEvent, pc, balances, history, accounts, missed>>

\* This case declares an err of its own: no failure in it is ever returned.  The
\* update that failed may still have been committed.
InitedFails ==
    /\ AtTokenEvent("Inited")
    /\ "db_token" \in Faults
    /\ tokens' \in {tokens} \cup InitedTables
    /\ err' = {} /\ hidden' = hidden \cup err \cup ({"info", "supply"} \X {Event.contract})
    /\ ev' = ev + 1
    /\ UNCHANGED <<atEvent, pc, balances, history, accounts, missed>>

UnreadableTransfer ==
    /\ AtTokenEvent("Unreadable")
    /\ SetErr({<<"history", OpKey>>})
    /\ ev' = ev + 1
    /\ UNCHANGED <<atEvent, pc, tables, missed>>

BalanceKey(u) == <<Event.contract, u>>
TransferWork ==
    {<<"history", OpKey>>} \cup {<<"balance", BalanceKey(u)>> : u \in Parties(Event)}
        \cup (IF Mints(Event) THEN {<<"supply", Event.contract>>} ELSE {})

MutOnlyReceiver == IF Event.to = Nobody THEN <<>> ELSE <<Event.to>>
OrNone(u) == IF u = Nobody THEN <<>> ELSE <<u>>
UsersToUpdate ==
    OrNone(Event.from) \o (IF Event.to = Event.from THEN <<>> ELSE OrNone(Event.to))

\* The history's row is found by txid and op_num, without the event; the column
\* must hold the amount of one that is inserted.
HistoryFoundOrSaved ==
    {h \in FoundOrInserted(history, OpKey, ev) : h = history \/ Event.fits}

RecordTransfer ==
    /\ AtTokenEvent("Transfer")
    /\ history' \in HistoryFoundOrSaved
    /\ SetErrDone({<<"history", OpKey>>})
    /\ users' = UsersToUpdate
    /\ pc' = "users"
    /\ UNCHANGED <<rest, ev, tokens, balances, accounts, missed>>

\* The rest of the event is skipped: neither balance is refreshed.
RecordTransferFails ==
    /\ AtTokenEvent("Transfer")
    /\ \/ "db_token" \in Faults /\ history' \in {history} \cup HistoryFoundOrSaved
       \/ (history[OpKey] = <<>> \/ RowsMissed) /\ ~Event.fits /\ UNCHANGED history
    /\ SetErr(TransferWork)
    /\ ev' = ev + 1
    /\ UNCHANGED <<atEvent, pc, tokens, balances, accounts, missed>>

BKey == BalanceKey(Head(users))

MutBalanceAsOfBlock(k) == BalanceAt[n][k]
BalanceOf(k) == BalanceAt[head][k]

MutBalanceAlwaysInserted == {Inserted(balances, BKey, BalanceOf(BKey))}
\* A row found is updated; a row missed is followed by another.
BalanceUpdatedOrInserted ==
    {[balances EXCEPT ![BKey][r] = BalanceOf(BKey)] : r \in DOMAIN balances[BKey]}
        \cup (IF MayBeInserted(balances[BKey])
              THEN {Inserted(balances, BKey, BalanceOf(BKey))} ELSE {})

UpdateTokenBalance ==
    /\ pc = "users" /\ users # <<>>
    /\ BalanceFits[head][BKey]
    /\ balances' \in BalanceUpdatedOrInserted
    /\ SetErrDone({<<"balance", BKey>>})
    /\ users' = Tail(users)
    /\ UNCHANGED <<rest, pc, ev, tokens, history, accounts, missed>>

BalanceUnanswered ==
    /\ pc = "users" /\ users # <<>>
    /\ "invoke_contract_offline" \in Faults
    /\ SetErr({<<"balance", BKey>>})
    /\ users' = Tail(users)
    /\ UNCHANGED <<rest, pc, ev, tables, missed>>

UpdateTokenBalanceFails ==
    /\ pc = "users" /\ users # <<>>
    /\ \/ "db_token" \in Faults /\ BalanceFits[head][BKey]
          /\ balances' \in BalanceUpdatedOrInserted
       \/ ("db_token" \in Faults \/ ~BalanceFits[head][BKey]) /\ UNCHANGED balances
    /\ Dies
    /\ UNCHANGED <<tokens, history, accounts>>

TransferDone ==
    /\ pc = "users" /\ users = <<>> /\ ~Mints(Event)
    /\ ev' = ev + 1 /\ pc' = "events"
    /\ UNCHANGED <<atEvent, err, tables, hidden, missed>>

SupplyUpdated ==
    {[tokens EXCEPT ![Event.contract][r].supply = SupplyAt[head][Event.contract]]
        : r \in DOMAIN tokens[Event.contract]}

UpdateTotalSupply ==
    /\ pc = "users" /\ users = <<>> /\ Mints(Event)
    /\ tokens' \in SupplyUpdated
    /\ SetErrDone({<<"supply", Event.contract>>})
    /\ ev' = ev + 1 /\ pc' = "events"
    /\ UNCHANGED <<atEvent, balances, history, accounts, missed>>

SupplyUnanswered ==
    /\ pc = "users" /\ users = <<>> /\ Mints(Event)
    /\ "invoke_contract_offline" \in Faults \/ "db_token" \in Faults
    /\ SetErr({<<"supply", Event.contract>>})
    /\ ev' = ev + 1 /\ pc' = "events"
    /\ UNCHANGED <<atEvent, tables, missed>>

\* A failed update; or a row that was missed, whose nil is written to.
UpdateTotalSupplyFails ==
    /\ pc = "users" /\ users = <<>> /\ Mints(Event)
    /\ \/ "db_token" \in Faults /\ tokens' \in {tokens} \cup SupplyUpdated
       \/ RowsMissed /\ UNCHANGED tokens
    /\ Dies
    /\ UNCHANGED <<balances, history, accounts>>

\* The deposits of the receipt, each of which assigns err.
HasDeposits == got /\ Succeeded(Tx, i) /\ ReceiptAt(Tx, i)[1].deposits

MutErrorForgotten ==
    /\ pc = "events" /\ ev > Len(Events)
    /\ SetErr({})
    /\ pc' = "op" /\ i' = i + 1 /\ ev' = 1
    /\ UNCHANGED <<head, starts, n, x, got, lastScanned, unseen, missed, users, tables>>
PluginsDone ==
    /\ pc = "events" /\ ev > Len(Events)
    /\ HasDeposits \/ err = {}
    /\ SetErr({})
    /\ pc' = "op" /\ i' = i + 1 /\ ev' = 1
    /\ UNCHANGED <<head, starts, n, x, got, lastScanned, unseen, missed, users, tables>>

\* An error left by the last event is returned, and fatal.
PluginsFail ==
    /\ pc = "events" /\ ev > Len(Events)
    /\ IF HasDeposits THEN "db_token" \in Faults ELSE err # {}
    /\ Dies
    /\ UNCHANGED tables

ScanStep ==
    \/ GetBlock \/ UpdateLastScannedAtHead
    \/ GetTxReceipts \/ AbandonBlock \/ AbandonTransaction
    \/ TransactionDone \/ FinishBlock
    \/ RegisterAccount \/ RegisterAccountFails
    \/ NotATokenRegistration \/ RegistrationUndecodable
    \/ SaveTokenContract \/ SaveTokenContractFails
    \/ IsTokenContractFails \/ SkipEvent \/ TokenMissed \/ Inited \/ InitedFails
    \/ UnreadableTransfer \/ RecordTransfer \/ RecordTransferFails
    \/ UpdateTokenBalance \/ BalanceUnanswered \/ UpdateTokenBalanceFails
    \/ TransferDone \/ UpdateTotalSupply \/ SupplyUnanswered \/ UpdateTotalSupplyFails
    \/ PluginsDone \/ PluginsFail

Next ==
    \/ Start \/ ProcessEnds \/ NodeProducesBlock
    \/ ScanStep

Spec == Init /\ [][Next]_vars

-----------------------------------------------------------------------------
(* Properties.                                                             *)

TypeOK ==
    /\ head \in 0 .. Len(Chain) /\ starts \in 0 .. MaxStarts
    /\ pc \in {"down", "loop", "tx", "op", "create", "events", "users"}
    /\ n \in Nat /\ x \in Nat /\ i \in Nat /\ ev \in Nat /\ got \in BOOLEAN
    /\ users \in Seq(Users) /\ err \subseteq Work /\ hidden \subseteq Work
    /\ tokens \in [Contracts -> Seq([common : BOOLEAN, info : Int, supply : Int])]
    /\ balances \in [BalanceKeys -> Seq(Nat)] /\ history \in [OpKeys -> Seq(Nat)]
    /\ accounts \in [Users -> Seq(Names)]
    /\ lastScanned \in 0 .. Len(Chain) /\ unseen \subseteq OpKeys
    /\ missed \subseteq OpKeys \X Nat

\* Those whose last event is a transfer that cannot be read, or whose amount
\* cannot be stored, with no deposit after it to assign err again.
EndingWithAnError ==
    {q \in Operations :
        /\ EventsAt(q) # <<>> /\ ~ReceiptAt(Chain[q[1]][q[2]], q[3])[1].deposits
        /\ \/ Last(EventsAt(q)).name = "Unreadable"
           \/ Moves(Last(EventsAt(q))) /\ ~Last(EventsAt(q)).fits}

\* The checkpoint covers q and the scan loop handed it to the plugins.
IsRecorded(q) == q[1] <= lastScanned /\ KeyAt(q) \notin unseen

\* While every find sees the rows there are, and however often operations are
\* applied again, no contract, balance, operation or address has two rows; and
\* a balance or a transfer is never recorded of a contract that has no row.  Not
\* one of these tables has a key to see to it.
OneRowOfAKnownToken ==
    /\ \A c \in Contracts : Len(tokens[c]) <= 1
    /\ \A k \in BalanceKeys : Len(balances[k]) <= (IF tokens[k[1]] = <<>> THEN 0 ELSE 1)
    /\ \A q \in Operations :
          history[KeyAt(q)] # <<>> =>
              /\ Len(history[KeyAt(q)]) = 1
              /\ tokens[EventsAt(q)[history[KeyAt(q)][1]].contract] # <<>>
    /\ \A u \in Users : Len(accounts[u]) <= 1

AsRecent(c, field, version) ==
    (\E r \in DOMAIN tokens[c] : tokens[c][r][field] >= version) \/ <<field, c>> \in hidden

\* The checkpoint passes a token's registration only when the token is in
\* token_contract, with what the node then said of it unless a query failed;
\* and it never passes a registration that cannot be decoded.
TokensRegistered ==
    \A q \in Registrations : IsRecorded(q) =>
        /\ OpAt(q).abi # "bad"
        /\ OpAt(q).abi = "token" =>
              /\ tokens[OpAt(q).contract] # <<>>
              /\ AsRecent(OpAt(q).contract, "info", InfoAt[q[1]][OpAt(q).contract])
              /\ AsRecent(OpAt(q).contract, "supply", SupplyAt[q[1]][OpAt(q).contract])

\* The events of the recorded operations whose contract is a known token, but
\* those a broken-off find passed over without an error.
RecordedEvents ==
    {q \in Happened : /\ IsRecorded(q) /\ tokens[q[5].contract] # <<>>
                      /\ <<KeyAt(q), q[4]>> \notin missed}

\* Below the checkpoint a token that was initialised is "common" and its name
\* and supply are at least as recent as the event; only a failed query or
\* update, which the Inited case never returns, or a find that missed the
\* token's row leaves it behind.  After such a find a token may have two rows,
\* and it is one of them that the event is in.
TokensInited ==
    \A q \in RecordedEvents : q[5].name = "Inited" =>
        LET c == q[5].contract IN
        /\ (\E r \in DOMAIN tokens[c] : tokens[c][r].common) \/ <<"info", c>> \in hidden
        /\ AsRecent(c, "info", InfoAt[q[1]][c])
        /\ AsRecent(c, "supply", SupplyAt[q[1]][c])

\* Below the checkpoint every operation with a transfer is in the history and
\* the balances of both parties, and the supply when one of them is nobody, are
\* at least as recent as the transfer; what is not was made to fail, and the
\* failure hidden by a later assignment to err, or was never tried because a
\* find missed the token's row.
TransfersRecorded ==
    \A q \in RecordedEvents : q[5].name = "Transfer" =>
        LET c == q[5].contract IN
        /\ history[KeyAt(q)] # <<>> \/ <<"history", KeyAt(q)>> \in hidden
        /\ \A u \in Parties(q[5]) :
              \/ \E r \in DOMAIN balances[<<c, u>>] :
                    balances[<<c, u>>][r] >= BalanceAt[q[1]][<<c, u>>]
              \/ <<"balance", <<c, u>>>> \in hidden
        /\ Mints(q[5]) => AsRecent(c, "supply", SupplyAt[q[1]][c])

\* An operation whose last event is a transfer that cannot be read, or whose
\* amount cannot be stored, and whose receipt has no deposits, holds the
\* checkpoint back for good: the error of the event that was to be skipped is
\* what the plugin returns, at every restart again, until a find misses the
\* token's row and no one looks at the event.
LastErrorStopsScan ==
    \A q \in EndingWithAnError : IsRecorded(q) =>
        \/ tokens[Last(EventsAt(q)).contract] = <<>>
        \/ <<KeyAt(q), Len(EventsAt(q))>> \in missed
        \/ Moves(Last(EventsAt(q))) /\ history[KeyAt(q)] # <<>>

\* What the plugins recorded is only replaced by something more recent: no
\* balance, supply or token goes back, an initialised token stays initialised,
\* and a transfer's row and the first name of an address stay as they are.
NothingGoesBack ==
    [][/\ \A c \in Contracts : \A r \in DOMAIN tokens[c] :
            /\ r \in DOMAIN tokens'[c]
            /\ tokens'[c][r].info >= tokens[c][r].info
            /\ tokens'[c][r].supply >= tokens[c][r].supply
            /\ tokens[c][r].common => tokens'[c][r].common
       /\ \A k \in BalanceKeys : \A r \in DOMAIN balances[k] :
            r \in DOMAIN balances'[k] /\ balances'[k][r] >= balances[k][r]
       /\ \A k \in OpKeys : IsPrefix(history[k], history'[k])
       /\ \A u \in Users : IsPrefix(accounts[u], accounts'[u])]_tables

\* token_contract_invoke_plugin.go:123 "save transfer tx to token history
\* table": every transfer of a recorded operation has its row.  Does not hold:
\* the second transfer of an operation finds the first one's row.
TransfersInHistory ==
    \A q \in RecordedEvents : Moves(q[5]) => q[4] \in ToSet(history[KeyAt(q)])
=============================================================================
