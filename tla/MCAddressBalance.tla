--------------------------- MODULE MCAddressBalance ---------------------------
(***************************************************************************)
(* Two addresses and three assets: a deposit made by a contract, whose fee *)
(* changes a balance the plugins do not look at, with a transfer in the    *)
(* next transaction of the block; a locked balance before an operation     *)
(* without a name; transfers of the other assets, the last one of an asset *)
(* list_assets leaves out, which no restart gets past.                     *)
(***************************************************************************)
EXTENDS AddressBalance, TLC

CONSTANTS a1, a2, core, token, late

MCAddrs == {a1, a2}
MCAssets == {core, token, late}
MCNodeAssets == <<core, token, late>>

Invoke == [type |-> "contract_invoke_operation", props |-> "caller_addr" :> a1,
           deposits |-> << <<a2, core>> >>, changes |-> {<<a2, core>>, <<a1, core>>}]
Transfer(asset) ==
    [type |-> "transfer_operation",
     props |-> "from_addr" :> a2 @@ "to_addr" :> a1 @@ "amount" :> asset,
     deposits |-> <<>>, changes |-> {<<a2, asset>>, <<a1, asset>>}]
LockBalance ==
    [type |-> "lockbalance_operation",
     props |-> "lock_balance_addr" :> a2 @@ "lock_asset_id" :> core,
     deposits |-> <<>>, changes |-> {<<a2, core>>}]
Unreadable ==
    [type |-> "unreadable", props |-> "addr" :> a1, deposits |-> <<>>, changes |-> {}]

MCChain == << << <<Invoke>>, <<Transfer(core)>> >>, << <<LockBalance, Unreadable>> >>,
              << <<Transfer(token)>> >>, << <<Transfer(late)>> >> >>

KillOrSigint == {"kill", "sigint"}
EveryRowSeen == KillOrSigint \cup {"get_block", "get_contract_invoke_object", "db_row"}
EveryFault == EveryRowSeen \cup {"rows_err"}
=============================================================================
