----------------------------- MODULE TwoScanners -----------------------------
(***************************************************************************)
(* Two scanners on one database and one node: an operator starts a second  *)
(* hxscanner while the first still runs, or before it is really gone.      *)
(* Nothing in the program keeps them apart.  Every find and the insert it  *)
(* decides are separate statements, so each scanner may act on a find the  *)
(* other has made stale: Scanner's fault "other_scanner".                  *)
(*                                                                         *)
(* The first scanner is Scanner itself and the second an instance of it:   *)
(* the tables, the node and the observers are shared, the process's state  *)
(* is doubled.                                                             *)
(***************************************************************************)
EXTENDS Scanner

VARIABLES
    starts2, conn2, stopping2, flag2,
    pc2, end2, n2, t2, o2, r2, e2, got2

procVars2 == <<starts2, conn2, stopping2, flag2>>
scanVars2 == <<pc2, end2, n2, t2, o2, r2, e2, got2>>

Other == INSTANCE Scanner WITH
    starts <- starts2, conn <- conn2, stopping <- stopping2, flag <- flag2,
    pc <- pc2, end <- end2, n <- n2, t <- t2, o <- o2, r <- r2, e <- e2, got <- got2

InitBoth == Init /\ Other!Init

First == Next /\ UNCHANGED <<procVars2, scanVars2>>
Second == Other!Next /\ UNCHANGED <<procVars, scanVars>>

NextBoth == First \/ Second

SpecBoth == InitBoth /\ [][NextBoth]_<<vars, procVars2, scanVars2>>

-----------------------------------------------------------------------------
(* The properties are Scanner's NoOrphanRows and CheckpointComplete, which *)
(* speak of the shared tables, and one of the two processes together.      *)

\* Neither scanner relies on rows that are not there: all blocks before the one
\* each is at, but for those waived with -scan_from, are stored, though
\* the other may meanwhile have replaced the checkpoint it started from by an
\* earlier or a later one.
NothingSkippedByEither ==
    \A m \in {n, n2} : \A b \in waived + 1 .. m - 1 : BlockDone(b)
=============================================================================
