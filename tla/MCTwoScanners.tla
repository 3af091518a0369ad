--------------------------- MODULE MCTwoScanners ---------------------------
(***************************************************************************)
(* Two scanners on the shortest chain with everything in it: a contract    *)
(* transaction with two operations and a receipt with two events, and then *)
(* a block whose transaction stops being understood.                       *)
(***************************************************************************)
EXTENDS TwoScanners, TLC

CONSTANTS x1, x2

MCTxids == {x1, x2}
MCChain == << <<x1>>, <<x2>> >>
MCOps == x1 :> <<"contract">> @@ x2 :> <<"plain", "unknown">>
MCReceipts == x1 :> << [op_num |-> 1, events |-> 2] >> @@ x2 :> <<>>

NoFlag == {-1}
=============================================================================
