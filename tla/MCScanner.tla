----------------------------- MODULE MCScanner -----------------------------
(***************************************************************************)
(* A small chain for model checking Scanner: a block with a contract       *)
(* transaction (two operations, one receipt with two events) before one    *)
(* whose operation has no name, an empty block, and a block with a plain   *)
(* transaction.                                                            *)
(***************************************************************************)
EXTENDS Scanner, TLC

CONSTANTS x1, x2, x3

MCTxids == {x1, x2, x3}
MCChain == << <<x1, x2>>, <<>>, <<x3>> >>
MCOps == x1 :> <<"contract", "plain">> @@ x2 :> <<"unknown">> @@ x3 :> <<"plain">>
MCReceipts == x1 :> << [op_num |-> 1, events |-> 2] >> @@ x2 :> <<>> @@ x3 :> <<>>

NoFlag == {-1}
FirstSkipped == {-1, 1}
EveryFaultSeen == AllFaults \ {"rows_err", "other_scanner"}
=============================================================================
