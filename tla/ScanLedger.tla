----------------------------- MODULE ScanLedger -----------------------------
(***************************************************************************)
(* What the scanner promises of its database, without saying how: blocks   *)
(* become stored one at a time and in chain order, each with all its rows; *)
(* once stored a block stays stored; and the checkpoint names a block all  *)
(* of whose predecessors are stored, but for those the operator waived by  *)
(* starting with -scan_from.  Only a process started so takes it back.     *)
(***************************************************************************)
EXTENDS Integers

VARIABLES
    head,           \* the node's highest block
    stored,         \* the blocks whose rows are all there
    checkpoint,     \* the block the next process resumes after
    waived,         \* the highest -scan_from so far
    flagged         \* the running process was given -scan_from

ledger == <<head, stored, checkpoint, waived, flagged>>

Init ==
    /\ head = 0
    /\ stored = {}
    /\ checkpoint = 0
    /\ waived = 0
    /\ flagged = FALSE

Produce ==
    /\ head' = head + 1
    /\ UNCHANGED <<stored, checkpoint, waived, flagged>>

\* A process starts, with or without -scan_from, or ends.
Change ==
    /\ flagged' \in BOOLEAN
    /\ \/ waived' = waived
       \/ flagged' /\ waived' \in Nat /\ waived' > waived
    /\ UNCHANGED <<head, stored, checkpoint>>

Store(b) ==
    /\ b \in 1 .. head \ stored
    /\ waived + 1 .. b - 1 \subseteq stored
    /\ stored' = stored \cup {b}
    /\ UNCHANGED <<head, checkpoint, waived, flagged>>

Record ==
    /\ checkpoint' \in Nat
    /\ waived + 1 .. checkpoint' \subseteq stored
    /\ checkpoint' >= checkpoint \/ flagged
    /\ UNCHANGED <<head, stored, waived, flagged>>

Next ==
    \/ Produce
    \/ Change
    \/ \E b \in 1 .. head : Store(b)
    \/ Record

Spec == Init /\ [][Next]_ledger
=============================================================================
