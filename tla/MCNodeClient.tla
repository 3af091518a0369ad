---------------------------- MODULE MCNodeClient ----------------------------
(***************************************************************************)
(* Two blocks, the first with a fork that has one transaction more and the *)
(* second with one that has fewer.  After a block the scan may ask for the *)
(* balances of an address, whose reply is any JSON and whose error ends    *)
(* the process, or for receipts, which are typed and passed over.          *)
(***************************************************************************)
EXTENDS NodeClient

MCTxs == << <<1, 2>>, <<2, 1>> >>
=============================================================================
