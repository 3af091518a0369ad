------------------------ MODULE AddressBalanceProofs ------------------------
(***************************************************************************)
(* Proofs about AddressBalance, for every chain, every list of assets the  *)
(* node reports, every interval of checkpoints, every bound on rows and    *)
(* every set of faults; the one that says a key has one row assumes that   *)
(* no find misses a row.                                                   *)
(***************************************************************************)
EXTENDS AddressBalance, FiniteSetTheorems, SequenceTheorems, TLAPS

-----------------------------------------------------------------------------
(* The inductive invariant.                                                 *)

\* A block is being applied; an operation's keys are being updated; a key is,
\* with its balance read.
Updating == {"update", "asset", "list", "write"}
Reading == {"asset", "list", "write"}
InTransaction == {"op"} \cup Updating
InBlock == {"tx"} \cup InTransaction

PositionInv ==
    /\ lastScanned <= head
    /\ pc # "down" => n > lastScanned /\ n <= head + 1
    /\ pc \in InBlock => n <= head /\ x >= 1
    /\ pc \in InTransaction => x <= Len(Chain[n]) /\ i >= 1
    /\ pc \in Updating => i <= Len(Chain[n][x])
    /\ pc = "list" => l >= 1

\* The asset of the row to be written is in the table: it was found there, or
\* it is one of those listed and all of those have been saved.
AssetInv ==
    /\ \A k \in Keys : balances[k] # <<>> => k[2] \in assets
    /\ pc = "list" => \A m \in 1 .. Len(Listed) : m < l => Listed[m] \in assets
    /\ pc = "write" => Key[2] \in assets

\* A find that sees the rows there are inserts no second one.
SingleInv == ~RowsMissed => \A k \in Keys : Len(balances[k]) <= 1

\* The node's balances only move on, so what is stored, and what was read and is
\* still to be stored, is not ahead of them; and what was read is not behind any
\* row it may replace, nor behind the block being applied.
BalanceInv ==
    /\ \A k \in Keys : \A j \in DOMAIN balances[k] : balances[k][j] <= Version(head, k)
    /\ pc \in Reading => amount <= Version(head, Key)
    /\ pc \in Reading /\ asked =>
          /\ \A j \in DOMAIN balances[Key] : amount >= balances[Key][j]
          /\ amount >= Version(n, Key)

\* A balance k has in the table is from block b or later, or k was skipped or
\* fell into a shutdown.
Current(b, k) == k \in unread \/ HasBalanceOf(b, k)
OpApplied(b, m, j) == \A k \in UpdatedBy(Chain[b][m][j]) : Current(b, k)
TxApplied(b, m) == \A j \in DOMAIN Chain[b][m] : OpApplied(b, m, j)
Applied(b) == \A m \in DOMAIN Chain[b] : TxApplied(b, m)

\* The scan leaves current balances behind it: of the blocks below the
\* checkpoint and below n, of the transactions before x, of the operations
\* before i, and of operation i all but the keys still queued.
AppliedInv ==
    /\ \A b \in 1 .. lastScanned : Applied(b)
    /\ pc # "down" => \A b \in 1 .. n - 1 : Applied(b)
    /\ pc \in InBlock => \A m \in DOMAIN Chain[n] : m < x => TxApplied(n, m)
    /\ pc \in InTransaction => \A j \in DOMAIN Chain[n][x] : j < i => OpApplied(n, x, j)
    /\ pc \in Updating =>
          \A k \in UpdatedBy(Chain[n][x][i]) : Current(n, k) \/ k \in ToSet(queue)

\* A tracked key is as recent as the blocks behind the scan: those that changed
\* it updated it, the others left its version alone.
Recent(b, k) == Version(b, k) = 0 \/ Current(b, k)
TrackedInv ==
    /\ \A k \in Tracked : Recent(lastScanned, k)
    /\ pc # "down" => \A k \in Tracked : Recent(n - 1, k)

AddressInv ==
    /\ TypeOK /\ PositionInv /\ AssetInv /\ SingleInv /\ BalanceInv
    /\ AppliedInv /\ TrackedInv

-----------------------------------------------------------------------------
(* The chain and the node's balances.                                       *)

\* What the assumptions say of the chain.
LEMMA BlockFacts ==
    /\ Len(Chain) \in Nat /\ Heights = 1 .. Len(Chain)
    /\ \A b \in Heights :
          /\ Len(Chain[b]) \in Nat /\ DOMAIN Chain[b] = 1 .. Len(Chain[b])
          /\ \A m \in DOMAIN Chain[b] :
                Len(Chain[b][m]) \in Nat /\ DOMAIN Chain[b][m] = 1 .. Len(Chain[b][m])
  BY OperationsAssumption DEF IsSequence, Heights

\* Its operations, one by one.
LEMMA OperationsFacts ==
    \A q : q \in Operations <=>
        \E b \in Heights : \E m \in DOMAIN Chain[b] : \E j \in DOMAIN Chain[b][m] : q = <<b, m, j>>
  BY DEF Operations

\* The union of finitely many finite sets is finite.
LEMMA FiniteUnion ==
    ASSUME NEW len \in Nat, NEW F, \A m \in 1 .. len : IsFiniteSet(F[m])
    PROVE  IsFiniteSet(UNION {F[m] : m \in 1 .. len})
<1> DEFINE G == [m \in 1 .. len |-> F[m]]
           Parts == {F[m] : m \in 1 .. len}
<1>1. IsFiniteSet(1 .. len)
  BY FS_Interval
<1>2. G \in Surjection(1 .. len, Parts)
  BY DEF Surjection
<1>3. IsFiniteSet(Parts)
  BY <1>1, <1>2, FS_Surjection
<1>4. \A S \in Parts : IsFiniteSet(S)
  OBVIOUS
<1> QED
  BY <1>3, <1>4, FS_UNION

LEMMA OperationsFinite == IsFiniteSet(Operations)
<1> DEFINE OfTx(b, m) == {<<b, m, j>> : j \in DOMAIN Chain[b][m]}
           OfBlock(b) == UNION {OfTx(b, m) : m \in DOMAIN Chain[b]}
<1>1. ASSUME NEW b \in Heights, NEW m \in DOMAIN Chain[b]
      PROVE  IsFiniteSet(OfTx(b, m))
  <2> DEFINE F == [j \in DOMAIN Chain[b][m] |-> <<b, m, j>>]
  <2>1. IsFiniteSet(DOMAIN Chain[b][m])
    <3>1. Len(Chain[b][m]) \in Nat /\ DOMAIN Chain[b][m] = 1 .. Len(Chain[b][m])
      BY BlockFacts
    <3>2. IsFiniteSet(1 .. Len(Chain[b][m]))
      BY <3>1, FS_Interval
    <3> QED
      BY <3>1, <3>2
  <2>2. F \in Surjection(DOMAIN Chain[b][m], OfTx(b, m))
    BY DEF Surjection
  <2> QED
    BY <2>1, <2>2, FS_Surjection
<1>2. ASSUME NEW b \in Heights
      PROVE  IsFiniteSet(OfBlock(b))
  <2> DEFINE F == [m \in DOMAIN Chain[b] |-> OfTx(b, m)]
  <2>1. Len(Chain[b]) \in Nat /\ DOMAIN Chain[b] = 1 .. Len(Chain[b])
    BY BlockFacts
  <2>2. \A m \in 1 .. Len(Chain[b]) : IsFiniteSet(F[m])
    BY <1>1, <2>1
  <2>3. IsFiniteSet(UNION {F[m] : m \in 1 .. Len(Chain[b])})
    <3> HIDE DEF F
    <3> QED
      BY <2>1, <2>2, FiniteUnion
  <2>4. {F[m] : m \in 1 .. Len(Chain[b])} = {OfTx(b, m) : m \in DOMAIN Chain[b]}
    BY <2>1
  <2> QED
    BY <2>3, <2>4
<1> DEFINE B == [b \in Heights |-> OfBlock(b)]
<1>3. Len(Chain) \in Nat /\ Heights = 1 .. Len(Chain)
  BY BlockFacts
<1>4. \A b \in 1 .. Len(Chain) : IsFiniteSet(B[b])
  BY <1>2, <1>3
<1>5. IsFiniteSet(UNION {B[b] : b \in 1 .. Len(Chain)})
  <2> HIDE DEF B
  <2> QED
    BY <1>3, <1>4, FiniteUnion
<1>6. {B[b] : b \in 1 .. Len(Chain)} = {OfBlock(b) : b \in Heights}
  BY <1>3
<1> QED
  BY <1>5, <1>6 DEF Operations

\* The operations of blocks 1 .. b that changed k: Version counts them.
Changes(b, k) == {q \in Operations : q[1] <= b /\ k \in OpAt(q).changes}

LEMMA OperationIsInBlock ==
    ASSUME NEW q \in Operations
    PROVE  /\ q[1] \in Heights /\ q[2] \in DOMAIN Chain[q[1]] /\ q[3] \in DOMAIN Chain[q[1]][q[2]]
           /\ OpAt(q) = Chain[q[1]][q[2]][q[3]]
           /\ q[1] \in Nat /\ q[1] >= 1
           /\ IsOperation(OpAt(q))
<1>1. PICK b \in Heights : \E m \in DOMAIN Chain[b] : \E j \in DOMAIN Chain[b][m] : q = <<b, m, j>>
  BY OperationsFacts
<1>5. PICK m \in DOMAIN Chain[b] : \E j \in DOMAIN Chain[b][m] : q = <<b, m, j>>
  BY <1>1
<1>6. PICK j \in DOMAIN Chain[b][m] : q = <<b, m, j>>
  BY <1>5
<1>2. q[1] = b /\ q[2] = m /\ q[3] = j
  BY <1>6
<1>3. b \in Nat /\ b >= 1
  BY BlockFacts
<1>4. IsOperation(Chain[b][m][j])
  BY OperationsAssumption DEF Heights
<1> QED
  BY <1>2, <1>3, <1>4 DEF OpAt

\* A version is a number, is none before the first block, and only grows.
LEMMA VersionFacts ==
    ASSUME NEW k
    PROVE  /\ \A b \in Nat : Version(b, k) \in Nat
           /\ Version(0, k) = 0
           /\ \A a \in Nat, b \in Nat : a <= b => Version(a, k) <= Version(b, k)
<1>1. \A b : Version(b, k) = Cardinality(Changes(b, k))
  BY DEF Version, Changes
<1>2. \A b : IsFiniteSet(Changes(b, k))
  <2>1. \A b : Changes(b, k) \subseteq Operations
    BY DEF Changes
  <2> QED
    BY <2>1, OperationsFinite, FS_Subset
<1>3. \A b \in Nat : Version(b, k) \in Nat
  BY <1>1, <1>2, FS_CardinalityType
<1>4. Version(0, k) = 0
  <2>1. Changes(0, k) = {}
    BY OperationIsInBlock DEF Changes
  <2> QED
    BY <1>1, <2>1, FS_EmptySet
<1>5. ASSUME NEW a \in Nat, NEW b \in Nat, a <= b
      PROVE  Version(a, k) <= Version(b, k)
  <2>1. Changes(a, k) \subseteq Changes(b, k)
    BY <1>5, OperationIsInBlock DEF Changes
  <2> QED
    BY <1>1, <1>2, <2>1, FS_Subset
<1> QED
  BY <1>3, <1>4, <1>5

\* Blocks that do not change k leave its version alone.
LEMMA VersionUnchanged ==
    ASSUME NEW k, NEW a \in Nat, NEW b \in Nat, a <= b,
           \A q \in Operations : k \in OpAt(q).changes => ~(a < q[1] /\ q[1] <= b)
    PROVE  Version(b, k) = Version(a, k)
<1>1. \A q \in Operations : k \in OpAt(q).changes => (q[1] <= b <=> q[1] <= a)
  BY OperationIsInBlock
<1>2. Changes(b, k) = Changes(a, k)
  BY <1>1 DEF Changes
<1> QED
  BY <1>2 DEF Version, Changes

-----------------------------------------------------------------------------
(* The keys of an operation.                                                *)

\* The elements of a concatenation.
LEMMA ConcatElements ==
    ASSUME NEW S, NEW s \in Seq(S), NEW t \in Seq(S)
    PROVE  s \o t \in Seq(S) /\ ToSet(s \o t) = ToSet(s) \cup ToSet(t)
<1>1. s \o t \in Seq(S) /\ Len(s \o t) = Len(s) + Len(t)
  OBVIOUS
<1>2. /\ \A m \in DOMAIN s : m \in DOMAIN (s \o t) /\ (s \o t)[m] = s[m]
      /\ \A m \in DOMAIN t : Len(s) + m \in DOMAIN (s \o t) /\ (s \o t)[Len(s) + m] = t[m]
  OBVIOUS
<1>3. \A m \in DOMAIN (s \o t) :
          \/ m \in DOMAIN s
          \/ \E r \in DOMAIN t : m = Len(s) + r
  <2> SUFFICES ASSUME NEW m \in DOMAIN (s \o t), m \notin DOMAIN s
               PROVE  \E r \in DOMAIN t : m = Len(s) + r
    OBVIOUS
  <2>1. m - Len(s) \in DOMAIN t /\ m = Len(s) + (m - Len(s))
    BY <1>1
  <2> QED
    BY <2>1
<1>4. ToSet(s) \subseteq ToSet(s \o t) /\ ToSet(t) \subseteq ToSet(s \o t)
  BY <1>2 DEF ToSet
<1>5. ASSUME NEW e \in ToSet(s \o t)
      PROVE  e \in ToSet(s) \cup ToSet(t)
  <2>1. PICK m \in DOMAIN (s \o t) : e = (s \o t)[m]
    BY <1>5 DEF ToSet
  <2>2. CASE m \in DOMAIN s
    BY <1>2, <2>1, <2>2 DEF ToSet
  <2>3. CASE \E r \in DOMAIN t : m = Len(s) + r
    BY <1>2, <2>1, <2>3 DEF ToSet
  <2> QED
    BY <1>3, <2>2, <2>3
<1> QED
  BY <1>1, <1>4, <1>5

\* The first property present is one of them.
LEMMA FirstOfFacts ==
    ASSUME NEW S, NEW op, NEW names, DOMAIN names = 1 .. 4,
           \A m \in DOMAIN names : Has(op, names[m]) => op.props[names[m]] \in S
    PROVE  \/ FirstOf(op, names) = <<>>
           \/ \E e \in S : FirstOf(op, names) = <<e>>
<1> DEFINE present == {p \in DOMAIN names : Has(op, names[p])}
<1>1. ASSUME present # {}
      PROVE  \E m \in present : \A q \in present : m <= q
  <2>1. present \subseteq {1, 2, 3, 4}
    OBVIOUS
  <2>2. \/ 1 \in present
        \/ 1 \notin present /\ 2 \in present
        \/ 1 \notin present /\ 2 \notin present /\ 3 \in present
        \/ 1 \notin present /\ 2 \notin present /\ 3 \notin present /\ 4 \in present
    BY <1>1, <2>1
  <2> HIDE DEF present
  <2> QED
    BY <2>1, <2>2
<1>2. present # {} => Min(present) \in present
  BY <1>1 DEF Min
<1> QED
  BY <1>2 DEF FirstOf

\* The keys of an operation are keys; without its receipt those of its deposits
\* are missing.
LEMMA UpdatesFacts ==
    ASSUME NEW op, IsOperation(op), NEW receipt \in BOOLEAN
    PROVE  /\ Updates(op, receipt) \in Seq(Keys)
           /\ ToSet(Updates(op, receipt)) \subseteq Keys
           /\ ToSet(op.deposits) \subseteq Keys
           /\ ToSet(Updates(op, TRUE)) = ToSet(Updates(op, FALSE)) \cup ToSet(op.deposits)
<1> DEFINE addrNames == <<"addr", "caller_addr", "lock_balance_addr", "foreclose_addr">>
           assetNames == <<"asset_id", "lock_asset_id", "foreclose_asset_id", "amount">>
<1>1. \A p \in AddrProps : Has(op, p) => op.props[p] \in Addrs
  BY DEF IsOperation, Has
<1>2. \A p \in AssetProps : Has(op, p) => op.props[p] \in Assets
  BY DEF IsOperation, Has, AssetProps, AddrProps
<1>3. TransferPlugin(op) \in Seq(Keys)
  <2>1. CASE op.type = "transfer_operation" /\ Has(op, "amount")
    <3>1. /\ op.props["from_addr"] \in Addrs /\ op.props["to_addr"] \in Addrs
          /\ op.props["amount"] \in Assets
      BY <1>1, <1>2, <2>1 DEF IsOperation, Has, AddrProps, AssetProps
    <3> QED
      BY <2>1, <3>1 DEF TransferPlugin, Keys
  <2>2. CASE ~(op.type = "transfer_operation" /\ Has(op, "amount"))
    BY <2>2 DEF TransferPlugin
  <2> QED
    BY <2>1, <2>2
<1>4. AssetMaybeChangePlugin(op) \in Seq(Keys)
  <2>1. \A m \in DOMAIN addrNames : addrNames[m] \in AddrProps
    BY DEF AddrProps
  <2>2. \A m \in DOMAIN assetNames : assetNames[m] \in AssetProps
    BY DEF AssetProps
  <2>3. DOMAIN addrNames = 1 .. 4 /\ DOMAIN assetNames = 1 .. 4
    OBVIOUS
  <2> HIDE DEF addrNames, assetNames
  <2>4. /\ \A m \in DOMAIN addrNames : Has(op, addrNames[m]) => op.props[addrNames[m]] \in Addrs
        /\ \A m \in DOMAIN assetNames : Has(op, assetNames[m]) => op.props[assetNames[m]] \in Assets
    BY <1>1, <1>2, <2>1, <2>2
  <2>5. FirstOf(op, addrNames) = <<>> \/ \E e \in Addrs : FirstOf(op, addrNames) = <<e>>
    BY <2>3, <2>4, FirstOfFacts
  <2>6. FirstOf(op, assetNames) = <<>> \/ \E e \in Assets : FirstOf(op, assetNames) = <<e>>
    BY <2>3, <2>4, FirstOfFacts
  <2>7. AssetMaybeChangePlugin(op) =
            IF FirstOf(op, addrNames) # <<>> /\ FirstOf(op, assetNames) # <<>>
            THEN << <<FirstOf(op, addrNames)[1], FirstOf(op, assetNames)[1]>> >> ELSE <<>>
    BY DEF AssetMaybeChangePlugin, addrNames, assetNames
  <2> QED
    BY <2>5, <2>6, <2>7 DEF Keys
<1>5. op.deposits \in Seq(Keys)
  BY DEF IsOperation
<1>6. ToSet(op.deposits) \subseteq Keys
  BY <1>5 DEF ToSet
<1> DEFINE both == TransferPlugin(op) \o AssetMaybeChangePlugin(op)
<1>7. both \in Seq(Keys)
  BY <1>3, <1>4, ConcatElements
<1>8. Updates(op, TRUE) = both \o op.deposits /\ Updates(op, FALSE) = both \o <<>>
  BY DEF Updates, ContractWithdraws
<1>9. <<>> \in Seq(Keys) /\ ToSet(<<>>) = {}
  BY DEF ToSet
<1> HIDE DEF both
<1>10. /\ Updates(op, TRUE) \in Seq(Keys) /\ Updates(op, FALSE) \in Seq(Keys)
       /\ ToSet(Updates(op, TRUE)) = ToSet(both) \cup ToSet(op.deposits)
       /\ ToSet(Updates(op, FALSE)) = ToSet(both)
  <2>1. /\ both \o op.deposits \in Seq(Keys)
        /\ ToSet(both \o op.deposits) = ToSet(both) \cup ToSet(op.deposits)
    BY <1>5, <1>7, ConcatElements
  <2>2. both \o <<>> \in Seq(Keys) /\ ToSet(both \o <<>>) = ToSet(both) \cup ToSet(<<>>)
    BY <1>7, <1>9, ConcatElements
  <2> QED
    BY <1>8, <1>9, <2>1, <2>2
<1>11. Updates(op, receipt) \in Seq(Keys)
  BY <1>10
<1>12. ToSet(Updates(op, receipt)) \subseteq Keys
  BY <1>11 DEF ToSet
<1> QED
  BY <1>6, <1>10, <1>11, <1>12

\* So are the keys it is due to update.
LEMMA UpdatedByKeys ==
    ASSUME NEW op, IsOperation(op)
    PROVE  UpdatedBy(op) \subseteq Keys
  BY UpdatesFacts DEF UpdatedBy

-----------------------------------------------------------------------------
(* The steps, by what they write.                                           *)

\* A step of none of the named actions only touches the connection or the signal.
Quiet == UNCHANGED <<head, starts, pc, loopVars, keyVars, dbVars, observers>>

LEMMA Steps ==
    [Next]_vars =>
        \/ Quiet /\ (conn' = conn \/ conn' = "closed") /\ stopping' \in {stopping, TRUE}
        \/ Start \/ NodeProducesBlock \/ Dies
        \/ LoopHead \/ GetBlock \/ GetBlockFails \/ UpdateLastScannedAtHead
        \/ GetTxReceipts \/ AbandonBlock \/ AbandonTransaction
        \/ ApplyPlugins \/ PluginsDone \/ TransactionDone \/ FinishBlock
        \/ GetAddressBalances \/ FindAsset \/ ListAssets \/ SaveAsset
        \/ AssetsListed \/ SaveOrUpdateAddressBalance
  BY DEF Next, ScanStep, vars, procVars, loopVars, keyVars, dbVars, observers, Quiet,
         Interrupt, CloseHxNodeConn, ProcessEnds, UnknownAsset, SaveAssetAgain

\* Which steps write which variable.
LEMMA Writers ==
    ASSUME [Next]_vars
    PROVE  /\ head' = head \/ NodeProducesBlock
           /\ starts' = starts \/ Start
           /\ balances' = balances \/ SaveOrUpdateAddressBalance
           /\ assets' = assets \/ SaveAsset
           /\ lastScanned' = lastScanned \/ UpdateLastScannedAtHead \/ FinishBlock
           /\ \/ unread' = unread
              \/ AbandonBlock \/ AbandonTransaction \/ ApplyPlugins \/ SaveOrUpdateAddressBalance
           /\ n' = n \/ Start \/ FinishBlock \/ Dies
           /\ \/ UNCHANGED <<pc, x, i>> \/ pc' \notin InBlock
              \/ pc \in InTransaction /\ pc' \in InTransaction /\ UNCHANGED <<x, i>>
              \/ GetBlock \/ GetTxReceipts \/ AbandonBlock \/ AbandonTransaction
              \/ PluginsDone \/ TransactionDone
           /\ \/ UNCHANGED queue \/ ApplyPlugins \/ SaveOrUpdateAddressBalance \/ Dies
           /\ amount' = amount \/ GetAddressBalances \/ Dies
<1>1. head' = head \/ NodeProducesBlock
  BY Steps DEF Quiet, Start, NodeProducesBlock, Dies, LoopHead, GetBlock, GetBlockFails,
         UpdateLastScannedAtHead, GetTxReceipts, AbandonBlock, AbandonTransaction,
         ApplyPlugins, PluginsDone, TransactionDone, FinishBlock, GetAddressBalances,
         FindAsset, ListAssets, SaveAsset, AssetsListed, SaveOrUpdateAddressBalance
<1>2. starts' = starts \/ Start
  BY Steps DEF Quiet, Start, NodeProducesBlock, Dies, LoopHead, GetBlock, GetBlockFails,
         UpdateLastScannedAtHead, GetTxReceipts, AbandonBlock, AbandonTransaction,
         ApplyPlugins, PluginsDone, TransactionDone, FinishBlock, GetAddressBalances,
         FindAsset, ListAssets, SaveAsset, AssetsListed, SaveOrUpdateAddressBalance, procVars
<1>3. balances' = balances \/ SaveOrUpdateAddressBalance
  BY Steps DEF Quiet, Start, NodeProducesBlock, Dies, LoopHead, GetBlock, GetBlockFails,
         UpdateLastScannedAtHead, GetTxReceipts, AbandonBlock, AbandonTransaction,
         ApplyPlugins, PluginsDone, TransactionDone, FinishBlock, GetAddressBalances,
         FindAsset, ListAssets, SaveAsset, AssetsListed, SaveOrUpdateAddressBalance, dbVars
<1>4. assets' = assets \/ SaveAsset
  BY Steps DEF Quiet, Start, NodeProducesBlock, Dies, LoopHead, GetBlock, GetBlockFails,
         UpdateLastScannedAtHead, GetTxReceipts, AbandonBlock, AbandonTransaction,
         ApplyPlugins, PluginsDone, TransactionDone, FinishBlock, GetAddressBalances,
         FindAsset, ListAssets, SaveAsset, AssetsListed, SaveOrUpdateAddressBalance, dbVars
<1>5. lastScanned' = lastScanned \/ UpdateLastScannedAtHead \/ FinishBlock
  BY Steps DEF Quiet, Start, NodeProducesBlock, Dies, LoopHead, GetBlock, GetBlockFails,
         UpdateLastScannedAtHead, GetTxReceipts, AbandonBlock, AbandonTransaction,
         ApplyPlugins, PluginsDone, TransactionDone, FinishBlock, GetAddressBalances,
         FindAsset, ListAssets, SaveAsset, AssetsListed, SaveOrUpdateAddressBalance, dbVars
<1>6. \/ unread' = unread
      \/ AbandonBlock \/ AbandonTransaction \/ ApplyPlugins \/ SaveOrUpdateAddressBalance
  BY Steps DEF Quiet, Start, NodeProducesBlock, Dies, LoopHead, GetBlock, GetBlockFails,
         UpdateLastScannedAtHead, GetTxReceipts, AbandonBlock, AbandonTransaction,
         ApplyPlugins, PluginsDone, TransactionDone, FinishBlock, GetAddressBalances,
         FindAsset, ListAssets, SaveAsset, AssetsListed, SaveOrUpdateAddressBalance, observers
<1>7. n' = n \/ Start \/ FinishBlock \/ Dies
  BY Steps DEF Quiet, Start, NodeProducesBlock, Dies, LoopHead, GetBlock, GetBlockFails,
         UpdateLastScannedAtHead, GetTxReceipts, AbandonBlock, AbandonTransaction,
         ApplyPlugins, PluginsDone, TransactionDone, FinishBlock, GetAddressBalances,
         FindAsset, ListAssets, SaveAsset, AssetsListed, SaveOrUpdateAddressBalance, loopVars
<1>8. \/ UNCHANGED <<pc, x, i>> \/ pc' \notin InBlock
      \/ pc \in InTransaction /\ pc' \in InTransaction /\ UNCHANGED <<x, i>>
      \/ GetBlock \/ GetTxReceipts \/ AbandonBlock \/ AbandonTransaction
      \/ PluginsDone \/ TransactionDone
  BY Steps DEF Quiet, Start, NodeProducesBlock, Dies, LoopHead, GetBlock, GetBlockFails,
         UpdateLastScannedAtHead, GetTxReceipts, AbandonBlock, AbandonTransaction,
         ApplyPlugins, PluginsDone, TransactionDone, FinishBlock, GetAddressBalances,
         FindAsset, ListAssets, SaveAsset, AssetsListed, SaveOrUpdateAddressBalance, loopVars, InBlock, InTransaction, Updating
<1>9. UNCHANGED queue \/ ApplyPlugins \/ SaveOrUpdateAddressBalance \/ Dies
  BY Steps DEF Quiet, Start, NodeProducesBlock, Dies, LoopHead, GetBlock, GetBlockFails,
         UpdateLastScannedAtHead, GetTxReceipts, AbandonBlock, AbandonTransaction,
         ApplyPlugins, PluginsDone, TransactionDone, FinishBlock, GetAddressBalances,
         FindAsset, ListAssets, SaveAsset, AssetsListed, SaveOrUpdateAddressBalance, keyVars
<1>10. amount' = amount \/ GetAddressBalances \/ Dies
  BY Steps DEF Quiet, Start, NodeProducesBlock, Dies, LoopHead, GetBlock, GetBlockFails,
         UpdateLastScannedAtHead, GetTxReceipts, AbandonBlock, AbandonTransaction,
         ApplyPlugins, PluginsDone, TransactionDone, FinishBlock, GetAddressBalances,
         FindAsset, ListAssets, SaveAsset, AssetsListed, SaveOrUpdateAddressBalance, keyVars
<1> QED
  BY <1>1, <1>2, <1>3, <1>4, <1>5, <1>6, <1>7, <1>8, <1>9, <1>10

\* The assets listed are the node's first ones.
LEMMA ListedFacts ==
    /\ Len(Listed) \in Nat /\ DOMAIN Listed = 1 .. Len(Listed)
    /\ \A m \in Nat : m >= 1 /\ m <= Len(Listed) => Listed[m] \in Assets
<1> DEFINE last == IF Len(NodeAssets) < ListLimit THEN Len(NodeAssets) ELSE ListLimit
<1>1. NodeAssets \in Seq(Assets) /\ ListLimit \in Nat
  BY ParameterAssumption
<1>2. last \in Nat /\ last <= Len(NodeAssets)
  BY <1>1
<1> HIDE DEF last
<1>3. SubSeq(NodeAssets, 1, last) \in Seq(Assets)
  BY <1>1, <1>2
<1>4. Listed \in Seq(Assets)
  BY <1>3 DEF Listed, last
<1> QED
  BY <1>4

\* What is known of the transaction a step within it is about.
LEMMA TransactionFacts ==
    ASSUME TypeOK, PositionInv, pc \in InBlock, x <= Len(Chain[n])
    PROVE  /\ n \in Heights /\ x \in DOMAIN Chain[n]
           /\ DOMAIN Chain[n] = 1 .. Len(Chain[n]) /\ Len(Chain[n]) \in Nat
           /\ DOMAIN Chain[n][x] = 1 .. Len(Chain[n][x]) /\ Len(Chain[n][x]) \in Nat
<1>1. n \in Nat /\ n <= head /\ n > lastScanned /\ x \in Nat /\ x >= 1
      /\ lastScanned \in Nat /\ head \in 0 .. Len(Chain)
  BY DEF TypeOK, PositionInv, InBlock, InTransaction, Updating
<1>2. n \in Heights
  BY <1>1, BlockFacts
<1>3. x \in DOMAIN Chain[n]
  BY <1>1, <1>2, BlockFacts
<1> QED
  BY <1>2, <1>3, BlockFacts

\* What is known of the operation an operation step is about.
LEMMA OperationFacts ==
    ASSUME TypeOK, PositionInv, pc \in InTransaction, i <= Len(Chain[n][x])
    PROVE  /\ n \in Heights /\ x \in DOMAIN Chain[n] /\ i \in DOMAIN Chain[n][x]
           /\ IsOperation(Chain[n][x][i])
<1>1. i \in Nat /\ i >= 1 /\ x <= Len(Chain[n]) /\ pc \in InBlock
  BY DEF TypeOK, PositionInv, InBlock
<1>2. /\ n \in Heights /\ x \in DOMAIN Chain[n]
      /\ DOMAIN Chain[n][x] = 1 .. Len(Chain[n][x]) /\ Len(Chain[n][x]) \in Nat
  BY <1>1, TransactionFacts
<1>3. i \in DOMAIN Chain[n][x]
  BY <1>1, <1>2
<1> QED
  BY <1>2, <1>3, OperationsAssumption DEF Heights

\* The key being read is one of the queue, and what comes after it is in it too.
LEMMA KeyFacts ==
    ASSUME TypeOK, queue # <<>>
    PROVE  /\ Key \in Keys /\ Key[2] \in Assets /\ Tail(queue) \in Seq(Keys)
           /\ ToSet(queue) = {Key} \cup ToSet(Tail(queue))
<1>1. queue \in Seq(Keys)
  BY DEF TypeOK
<1>2. Key \in Keys /\ Tail(queue) \in Seq(Keys)
  BY <1>1 DEF Key
<1>3. Key[2] \in Assets
  BY <1>2 DEF Keys
<1>4. DOMAIN queue = 1 .. Len(queue) /\ Len(queue) \in Nat /\ Len(queue) >= 1
  BY <1>1
<1>5. DOMAIN Tail(queue) = 1 .. Len(queue) - 1
      /\ \A m \in 1 .. Len(queue) - 1 : Tail(queue)[m] = queue[m + 1]
  BY <1>1
<1>6. \A m \in DOMAIN queue : m = 1 \/ (m - 1 \in DOMAIN Tail(queue) /\ queue[m] = Tail(queue)[m - 1])
  BY <1>4, <1>5
<1>7. \A m \in DOMAIN Tail(queue) : m + 1 \in DOMAIN queue /\ queue[m + 1] = Tail(queue)[m]
  BY <1>4, <1>5
<1>8. Key = queue[1] /\ 1 \in DOMAIN queue
  BY <1>1, <1>4 DEF Key
<1>9. ToSet(queue) = {Key} \cup ToSet(Tail(queue))
  BY <1>6, <1>7, <1>8 DEF ToSet
<1> QED
  BY <1>2, <1>3, <1>9

-----------------------------------------------------------------------------
(* The initial state.                                                       *)

LEMMA AddressInit == Init => AddressInv
<1> SUFFICES ASSUME Init PROVE AddressInv
  OBVIOUS
<1>1. TypeOK
  <2>1. head \in 0 .. Len(Chain) /\ starts \in 0 .. MaxStarts
    BY BlockFacts, ParameterAssumption DEF Init
  <2>2. /\ conn \in {"none", "open", "closed"} /\ stopping \in BOOLEAN /\ end \in BOOLEAN
        /\ pc = "down" /\ queue = <<>> /\ asked \in BOOLEAN /\ got \in BOOLEAN
    BY DEF Init
  <2>3. n \in Nat /\ x \in Nat /\ i \in Nat /\ amount \in Nat /\ l \in Nat
    BY DEF Init
  <2>4. /\ unread \subseteq Keys /\ assets \subseteq Assets /\ lastScanned \in Nat
        /\ balances \in [Keys -> Seq(Nat)]
    <3>1. <<>> \in Seq(Nat)
      OBVIOUS
    <3> QED
      BY <3>1 DEF Init
  <2> QED
    BY <2>1, <2>2, <2>3, <2>4, EmptySeq DEF TypeOK
<1>2. PositionInv
  BY DEF Init, PositionInv, InBlock, InTransaction, Updating
<1>3. AssetInv
  BY DEF Init, AssetInv
<1>4. SingleInv
  BY DEF Init, SingleInv
<1>5. BalanceInv
  BY DEF Init, BalanceInv, Reading
<1>6. AppliedInv
  BY DEF Init, AppliedInv, InBlock, InTransaction, Updating
<1>7. TrackedInv
  BY VersionFacts DEF Init, TrackedInv, Recent
<1> QED
  BY <1>1, <1>2, <1>3, <1>4, <1>5, <1>6, <1>7 DEF AddressInv

-----------------------------------------------------------------------------
(* The steps keep the types and the positions.                              *)

LEMMA PositionStep ==
    ASSUME TypeOK, PositionInv, [Next]_vars
    PROVE  PositionInv'
<1>1. /\ head \in Nat /\ n \in Nat /\ lastScanned \in Nat /\ x \in Nat /\ i \in Nat /\ l \in Nat
      /\ lastScanned <= head
      /\ pc # "down" => n > lastScanned /\ n <= head + 1
      /\ pc \in InBlock => n <= head /\ x >= 1
      /\ pc \in InTransaction => x <= Len(Chain[n]) /\ i >= 1
      /\ pc \in Updating => i <= Len(Chain[n][x])
      /\ pc = "list" => l >= 1
  BY BlockFacts DEF TypeOK, PositionInv
<1>2. CASE Quiet
  BY <1>1, <1>2 DEF Quiet, loopVars, keyVars, dbVars, PositionInv
<1>3. CASE Start
  BY <1>1, <1>3 DEF Start, dbVars, PositionInv, InBlock, InTransaction, Updating
<1>4. CASE NodeProducesBlock
  BY <1>1, <1>4 DEF NodeProducesBlock, loopVars, keyVars, dbVars, PositionInv
<1>5. CASE Dies
  BY <1>1, <1>5 DEF Dies, dbVars, PositionInv, InBlock, InTransaction, Updating
<1>6. CASE LoopHead \/ GetBlock \/ GetBlockFails
  BY <1>1, <1>6 DEF LoopHead, GetBlock, GetBlockFails, loopVars, dbVars, PositionInv,
         InBlock, InTransaction, Updating
<1>7. CASE UpdateLastScannedAtHead \/ FinishBlock
  BY <1>1, <1>7, ParameterAssumption
     DEF UpdateLastScannedAtHead, FinishBlock, HeadCheckpoint, CheckpointAfterBlock, loopVars,
         PositionInv, InBlock, InTransaction, Updating
<1>8. CASE GetTxReceipts \/ TransactionDone \/ AbandonTransaction
  BY <1>1, <1>8 DEF GetTxReceipts, TransactionDone, AbandonTransaction, Txs, dbVars,
         PositionInv, InBlock, InTransaction, Updating
<1>9. CASE AbandonBlock
  <2>1. pc = "tx" /\ x <= Len(Txs) /\ UNCHANGED <<head, pc, n, i, dbVars>> /\ x' = Len(Txs) + 1
    BY <1>9 DEF AbandonBlock
  <2>2. Len(Txs) \in Nat
    BY <2>1, TransactionFacts DEF Txs, InBlock
  <2> QED
    BY <1>1, <2>1, <2>2 DEF dbVars, PositionInv, InBlock, InTransaction, Updating
<1>10. CASE ApplyPlugins \/ PluginsDone
  BY <1>1, <1>10 DEF ApplyPlugins, PluginsDone, Ops, Txs, loopVars, dbVars, PositionInv,
         InBlock, InTransaction, Updating
<1>11. CASE GetAddressBalances \/ FindAsset \/ ListAssets \/ SaveAsset
              \/ AssetsListed \/ SaveOrUpdateAddressBalance
  BY <1>1, <1>11 DEF GetAddressBalances, FindAsset, ListAssets, SaveAsset, AssetsListed,
         SaveOrUpdateAddressBalance, loopVars, dbVars, PositionInv, InBlock, InTransaction,
         Updating
<1> QED
  BY <1>2, <1>3, <1>4, <1>5, <1>6, <1>7, <1>8, <1>9, <1>10, <1>11, Steps

\* The facts of a write of a balance row: what was read is in some row, the
\* rows it did not go to are as they were, and a second row is due to a find
\* that missed the first.
LEMMA WriteFacts ==
    ASSUME TypeOK, SaveOrUpdateAddressBalance
    PROVE  /\ pc = "write" /\ Key \in Keys /\ UNCHANGED <<head, n, x, i, assets, lastScanned>>
           /\ pc' = "update" /\ queue' = Tail(queue)
           /\ unread' = IF asked THEN unread \ {Key} ELSE unread \cup {Key}
           /\ ToSet(queue) = {Key} \cup ToSet(queue')
           /\ balances' \in [Keys -> Seq(Nat)]
           /\ \A k \in Keys : k # Key => balances'[k] = balances[k]
           /\ \E r \in DOMAIN balances'[Key] :
                 /\ balances'[Key][r] = amount
                 /\ \A j \in DOMAIN balances'[Key] : j # r =>
                       j \in DOMAIN balances[Key] /\ balances'[Key][j] = balances[Key][j]
           /\ DOMAIN balances[Key] \subseteq DOMAIN balances'[Key]
           /\ \/ Len(balances'[Key]) = Len(balances[Key])
              \/ balances[Key] = <<>> /\ Len(balances'[Key]) = 1
              \/ RowsMissed
<1>1. queue # <<>> /\ balances \in [Keys -> Seq(Nat)] /\ amount \in Nat
  BY DEF TypeOK, SaveOrUpdateAddressBalance
<1>2. Key \in Keys /\ ToSet(queue) = {Key} \cup ToSet(Tail(queue))
  BY <1>1, KeyFacts
<1>3. queue' = Tail(queue) /\ balances' \in RowFoundOrInserted
  BY DEF SaveOrUpdateAddressBalance
<1>4. balances[Key] \in Seq(Nat)
  BY <1>1, <1>2
<1>5. PICK new \in Seq(Nat) :
          /\ balances' = [balances EXCEPT ![Key] = new]
          /\ \/ \E r \in DOMAIN balances[Key] : new = [balances[Key] EXCEPT ![r] = amount]
             \/ new = Append(balances[Key], amount) /\ (balances[Key] = <<>> \/ RowsMissed)
  <2>1. \A r \in DOMAIN balances[Key] : [balances[Key] EXCEPT ![r] = amount] \in Seq(Nat)
    BY <1>1, <1>4
  <2>2. Append(balances[Key], amount) \in Seq(Nat)
    BY <1>1, <1>4
  <2> QED
    BY <1>3, <2>1, <2>2 DEF RowFoundOrInserted, Updated, Inserted
<1>6. balances'[Key] = new /\ \A k \in Keys : k # Key => balances'[k] = balances[k]
  BY <1>1, <1>2, <1>5
<1>7. balances' \in [Keys -> Seq(Nat)]
  BY <1>1, <1>2, <1>5
<1>8. /\ \E r \in DOMAIN new :
            /\ new[r] = amount
            /\ \A j \in DOMAIN new : j # r => j \in DOMAIN balances[Key] /\ new[j] = balances[Key][j]
      /\ DOMAIN balances[Key] \subseteq DOMAIN new
      /\ \/ Len(new) = Len(balances[Key])
         \/ balances[Key] = <<>> /\ Len(new) = 1
         \/ RowsMissed
  <2>1. CASE \E r \in DOMAIN balances[Key] : new = [balances[Key] EXCEPT ![r] = amount]
    BY <1>4, <2>1
  <2>2. CASE new = Append(balances[Key], amount) /\ (balances[Key] = <<>> \/ RowsMissed)
    <3>1. Len(new) = Len(balances[Key]) + 1 /\ Len(new) \in DOMAIN new
      BY <1>1, <1>4, <2>2
    <3>2. new[Len(new)] = amount
      BY <1>1, <1>4, <2>2
    <3>3. \A j \in DOMAIN new : j # Len(new) => j \in DOMAIN balances[Key] /\ new[j] = balances[Key][j]
      BY <1>1, <1>4, <2>2
    <3>4. DOMAIN balances[Key] \subseteq DOMAIN new
      BY <1>1, <1>4, <2>2
    <3> QED
      BY <1>4, <2>2, <3>1, <3>2, <3>3, <3>4
  <2> QED
    BY <1>5, <2>1, <2>2
<1> QED
  BY <1>2, <1>3, <1>6, <1>7, <1>8 DEF SaveOrUpdateAddressBalance, loopVars

\* A key of an operation of the block is a key.
LEMMA KeysFromKeys ==
    ASSUME TypeOK, PositionInv, pc \in InBlock, x <= Len(Chain[n]),
           NEW m \in DOMAIN Chain[n], NEW j \in Nat, j >= 1
    PROVE  KeysFrom(m, j) \subseteq Keys
<1>1. n \in Heights
  BY TransactionFacts
<1>2. \A o \in j .. Len(Chain[n][m]) : o \in DOMAIN Chain[n][m]
  BY <1>1, BlockFacts
<1>3. \A o \in j .. Len(Chain[n][m]) : IsOperation(Chain[n][m][o])
  BY <1>1, <1>2, OperationsAssumption DEF Heights
<1>4. \A o \in j .. Len(Chain[n][m]) : UpdatedBy(Chain[n][m][o]) \subseteq Keys
  BY <1>3, UpdatedByKeys
<1> QED
  BY <1>4 DEF KeysFrom, Txs

LEMMA TypeStep ==
    ASSUME TypeOK, PositionInv, [Next]_vars
    PROVE  TypeOK'
<1>1. /\ head \in 0 .. Len(Chain) /\ starts \in 0 .. MaxStarts
      /\ n \in Nat /\ x \in Nat /\ i \in Nat /\ amount \in Nat /\ l \in Nat /\ lastScanned \in Nat
      /\ queue \in Seq(Keys) /\ (pc \in Reading => queue # <<>>)
      /\ unread \subseteq Keys /\ assets \subseteq Assets
      /\ balances \in [Keys -> Seq(Nat)]
      /\ pc # "down" => n >= 1
  BY DEF TypeOK, PositionInv, Reading
<1>2. head' \in 0 .. Len(Chain) /\ starts' \in 0 .. MaxStarts
  <2>1. \/ head' = head
        \/ head < Len(Chain) /\ head' = head + 1
    BY Writers DEF NodeProducesBlock
  <2>2. \/ starts' = starts
        \/ starts < MaxStarts /\ starts' = starts + 1
    BY Writers DEF Start
  <2> QED
    BY <1>1, <2>1, <2>2, BlockFacts, ParameterAssumption
<1>3. /\ conn' \in {"none", "open", "closed"} /\ stopping' \in BOOLEAN /\ end' \in BOOLEAN
      /\ asked' \in BOOLEAN /\ got' \in BOOLEAN
  <2>1. conn' \in {"none", "open", "closed"} /\ stopping' \in BOOLEAN
    BY Steps DEF TypeOK, Quiet, Start, NodeProducesBlock, Dies, LoopHead, GetBlock, GetBlockFails,
         UpdateLastScannedAtHead, GetTxReceipts, AbandonBlock, AbandonTransaction,
         ApplyPlugins, PluginsDone, TransactionDone, FinishBlock, GetAddressBalances,
         FindAsset, ListAssets, SaveAsset, AssetsListed, SaveOrUpdateAddressBalance, procVars
  <2>2. end' \in BOOLEAN /\ got' \in BOOLEAN
    BY Steps DEF TypeOK, Quiet, Start, NodeProducesBlock, Dies, LoopHead, GetBlock, GetBlockFails,
         UpdateLastScannedAtHead, GetTxReceipts, AbandonBlock, AbandonTransaction,
         ApplyPlugins, PluginsDone, TransactionDone, FinishBlock, GetAddressBalances,
         FindAsset, ListAssets, SaveAsset, AssetsListed, SaveOrUpdateAddressBalance, loopVars, IsHxNodeConnected, CheckTransactionHasContractOp
  <2>3. asked' \in BOOLEAN
    BY Steps DEF TypeOK, Quiet, Start, NodeProducesBlock, Dies, LoopHead, GetBlock, GetBlockFails,
         UpdateLastScannedAtHead, GetTxReceipts, AbandonBlock, AbandonTransaction,
         ApplyPlugins, PluginsDone, TransactionDone, FinishBlock, GetAddressBalances,
         FindAsset, ListAssets, SaveAsset, AssetsListed, SaveOrUpdateAddressBalance, observers, IsHxNodeConnected
  <2> QED
    BY <2>1, <2>2, <2>3
<1>4. pc' \in {"down", "loop", "fetch", "atHead", "tx", "op", "update", "asset", "list",
               "write", "ended"}
  BY Steps DEF TypeOK, Quiet, Start, NodeProducesBlock, Dies, LoopHead, GetBlock, GetBlockFails,
         UpdateLastScannedAtHead, GetTxReceipts, AbandonBlock, AbandonTransaction,
         ApplyPlugins, PluginsDone, TransactionDone, FinishBlock, GetAddressBalances,
         FindAsset, ListAssets, SaveAsset, AssetsListed, SaveOrUpdateAddressBalance
<1>5. n' \in Nat /\ x' \in Nat /\ i' \in Nat /\ l' \in Nat
  <2>1. n' \in {n, n + 1, lastScanned + 1, 0}
    BY Steps DEF Quiet, Start, NodeProducesBlock, Dies, LoopHead, GetBlock, GetBlockFails,
         UpdateLastScannedAtHead, GetTxReceipts, AbandonBlock, AbandonTransaction,
         ApplyPlugins, PluginsDone, TransactionDone, FinishBlock, GetAddressBalances,
         FindAsset, ListAssets, SaveAsset, AssetsListed, SaveOrUpdateAddressBalance, loopVars
  <2>2. i' \in {i, i + 1, 1}
    BY Steps DEF Quiet, Start, NodeProducesBlock, Dies, LoopHead, GetBlock, GetBlockFails,
         UpdateLastScannedAtHead, GetTxReceipts, AbandonBlock, AbandonTransaction,
         ApplyPlugins, PluginsDone, TransactionDone, FinishBlock, GetAddressBalances,
         FindAsset, ListAssets, SaveAsset, AssetsListed, SaveOrUpdateAddressBalance, loopVars
  <2>3. l' \in {l, l + 1, 1}
    BY Steps DEF Quiet, Start, NodeProducesBlock, Dies, LoopHead, GetBlock, GetBlockFails,
         UpdateLastScannedAtHead, GetTxReceipts, AbandonBlock, AbandonTransaction,
         ApplyPlugins, PluginsDone, TransactionDone, FinishBlock, GetAddressBalances,
         FindAsset, ListAssets, SaveAsset, AssetsListed, SaveOrUpdateAddressBalance, keyVars
  <2>4. x' \in {x, x + 1, 1} \/ AbandonBlock
    BY Steps DEF Quiet, Start, NodeProducesBlock, Dies, LoopHead, GetBlock, GetBlockFails,
         UpdateLastScannedAtHead, GetTxReceipts, AbandonBlock, AbandonTransaction,
         ApplyPlugins, PluginsDone, TransactionDone, FinishBlock, GetAddressBalances,
         FindAsset, ListAssets, SaveAsset, AssetsListed, SaveOrUpdateAddressBalance, loopVars
  <2>5. AbandonBlock => x' \in Nat
    <3>1. AbandonBlock => pc \in InBlock /\ x <= Len(Chain[n]) /\ x' = Len(Chain[n]) + 1
      BY DEF AbandonBlock, InBlock, Txs
    <3> QED
      BY <3>1, TransactionFacts
  <2> QED
    BY <1>1, <2>1, <2>2, <2>3, <2>4, <2>5
<1>6. amount' \in Nat
  <2>1. amount' \in {amount, 0} \/ \E k : amount' = Version(head, k)
    BY Writers DEF Dies, GetAddressBalances, BalanceReported
  <2>2. CASE \E k : amount' = Version(head, k)
    <3>1. PICK k : amount' = Version(head, k)
      BY <2>2
    <3>2. \A b \in Nat : Version(b, k) \in Nat
      BY VersionFacts
    <3> QED
      BY <1>1, <3>1, <3>2
  <2> QED
    BY <1>1, <2>1, <2>2
<1>7. queue' \in Seq(Keys) /\ (pc' \in Reading => queue' # <<>>)
  <2>1. CASE ApplyPlugins
    <3>1. i <= Len(Chain[n][x]) /\ pc \in InTransaction /\ got \in BOOLEAN
      BY <2>1 DEF ApplyPlugins, Ops, Txs, InTransaction, TypeOK
    <3>2. Updates(Chain[n][x][i], got) \in Seq(Keys)
      BY <3>1, OperationFacts, UpdatesFacts
    <3> QED
      BY <2>1, <3>2 DEF ApplyPlugins, Reading, Ops, Txs
  <2>2. CASE SaveOrUpdateAddressBalance
    BY <1>1, <2>2, KeyFacts DEF SaveOrUpdateAddressBalance, Reading
  <2>3. CASE Dies
    <3>1. <<>> \in Seq(Keys)
      OBVIOUS
    <3> QED
      BY <2>3, <3>1 DEF Dies, Reading
  <2>4. CASE queue' = queue
    <3>1. pc' \in Reading => queue # <<>>
      BY <1>1, <2>4, Steps DEF Quiet, Start, NodeProducesBlock, Dies, LoopHead, GetBlock, GetBlockFails,
         UpdateLastScannedAtHead, GetTxReceipts, AbandonBlock, AbandonTransaction,
         ApplyPlugins, PluginsDone, TransactionDone, FinishBlock, GetAddressBalances,
         FindAsset, ListAssets, SaveAsset, AssetsListed, SaveOrUpdateAddressBalance, Reading
    <3> QED
      BY <1>1, <2>4, <3>1
  <2> QED
    BY <2>1, <2>2, <2>3, <2>4, Writers
<1>8. unread' \subseteq Keys /\ balances' \in [Keys -> Seq(Nat)]
  <2>1. balances' \in [Keys -> Seq(Nat)]
    BY <1>1, WriteFacts, Writers
  <2>2. CASE ApplyPlugins
    <3>1. i <= Len(Chain[n][x]) /\ pc \in InTransaction
      BY <2>2 DEF ApplyPlugins, Ops, Txs, InTransaction
    <3>2. ToSet(Chain[n][x][i].deposits) \subseteq Keys
      BY <3>1, OperationFacts, UpdatesFacts
    <3> QED
      BY <1>1, <2>1, <2>2, <3>2 DEF ApplyPlugins, Ops, Txs
  <2>3. CASE AbandonBlock
    <3>1. pc \in InBlock /\ x <= Len(Chain[n]) /\ x \in Nat /\ x >= 1
      BY <2>3 DEF AbandonBlock, InBlock, InTransaction, Txs, TypeOK, PositionInv
    <3>2. \A m \in x .. Len(Chain[n]) : m \in DOMAIN Chain[n]
      BY <3>1, TransactionFacts
    <3>3. \A m \in x .. Len(Chain[n]) : KeysFrom(m, 1) \subseteq Keys
      BY <3>1, <3>2, KeysFromKeys
    <3> QED
      BY <1>1, <2>1, <2>3, <3>3 DEF AbandonBlock, Txs
  <2>4. CASE AbandonTransaction
    <3>1. pc \in InBlock /\ x <= Len(Chain[n]) /\ i \in Nat /\ i >= 1
      BY <2>4 DEF AbandonTransaction, InBlock, InTransaction, TypeOK, PositionInv
    <3>2. KeysFrom(x, i) \subseteq Keys
      BY <3>1, TransactionFacts, KeysFromKeys
    <3> QED
      BY <1>1, <2>1, <2>4, <3>2 DEF AbandonTransaction
  <2>5. CASE SaveOrUpdateAddressBalance
    BY <1>1, <2>1, <2>5, WriteFacts
  <2> QED
    BY <1>1, <2>1, <2>2, <2>3, <2>4, <2>5, Writers
<1>9. assets' \subseteq Assets
  <2>1. \/ assets' = assets
        \/ l <= Len(Listed) /\ pc = "list" /\ assets' = assets \cup {Listed[l]}
    BY Writers DEF SaveAsset
  <2>2. pc = "list" => l >= 1
    BY DEF PositionInv
  <2> QED
    BY <1>1, <2>1, <2>2, ListedFacts
<1>10. lastScanned' \in Nat
  <2>1. \/ lastScanned' = lastScanned
        \/ pc # "down" /\ lastScanned' \in {n - 1, n}
    BY Writers DEF UpdateLastScannedAtHead, FinishBlock, HeadCheckpoint, CheckpointAfterBlock
  <2> QED
    BY <1>1, <2>1
<1> QED
  BY <1>2, <1>3, <1>4, <1>5, <1>6, <1>7, <1>8, <1>9, <1>10 DEF TypeOK, Reading

-----------------------------------------------------------------------------
(* A row has its asset and is the only one; a balance does not go back.     *)

LEMMA AssetStep ==
    ASSUME TypeOK, AssetInv, [Next]_vars
    PROVE  AssetInv'
<1>1. /\ l \in Nat
      /\ \A k \in Keys : balances[k] # <<>> => k[2] \in assets
      /\ pc = "list" => \A m \in 1 .. Len(Listed) : m < l => Listed[m] \in assets
      /\ pc = "write" => Key[2] \in assets
  BY DEF TypeOK, AssetInv
<1>2. assets \subseteq assets'
  BY Writers DEF SaveAsset
<1>3. \A k \in Keys : balances'[k] # <<>> => k[2] \in assets'
  <2>1. CASE UNCHANGED balances
    BY <1>1, <1>2, <2>1
  <2>2. CASE SaveOrUpdateAddressBalance
    BY <1>1, <1>2, <2>2, WriteFacts
  <2> QED
    BY <2>1, <2>2, Writers
<1>4. ASSUME pc' = "list"
      PROVE  \A m \in 1 .. Len(Listed) : m < l' => Listed[m] \in assets'
  <2>1. \/ l' = 1
        \/ pc = "list" /\ l' = l /\ assets' = assets
        \/ pc = "list" /\ l' = l + 1 /\ assets' = assets \cup {Listed[l]}
    BY <1>4, Steps DEF Quiet, Start, NodeProducesBlock, Dies, LoopHead, GetBlock, GetBlockFails,
         UpdateLastScannedAtHead, GetTxReceipts, AbandonBlock, AbandonTransaction,
         ApplyPlugins, PluginsDone, TransactionDone, FinishBlock, GetAddressBalances,
         FindAsset, ListAssets, SaveAsset, AssetsListed, SaveOrUpdateAddressBalance, keyVars, dbVars
  <2> QED
    BY <1>1, <2>1, ListedFacts
<1>5. ASSUME pc' = "write"
      PROVE  Key'[2] \in assets'
  <2>1. /\ UNCHANGED <<queue, assets>>
        /\ \/ Key[2] \in assets
           \/ pc = "write"
           \/ pc = "list" /\ l > Len(Listed) /\ Key[2] \in ToSet(Listed)
    BY <1>5, Steps DEF Quiet, Start, NodeProducesBlock, Dies, LoopHead, GetBlock, GetBlockFails,
         UpdateLastScannedAtHead, GetTxReceipts, AbandonBlock, AbandonTransaction,
         ApplyPlugins, PluginsDone, TransactionDone, FinishBlock, GetAddressBalances,
         FindAsset, ListAssets, SaveAsset, AssetsListed, SaveOrUpdateAddressBalance, keyVars, dbVars
  <2>2. Key' = Key
    BY <2>1 DEF Key
  <2>3. CASE pc = "list" /\ l > Len(Listed) /\ Key[2] \in ToSet(Listed)
    <3>1. PICK m \in DOMAIN Listed : Key[2] = Listed[m]
      BY <2>3 DEF ToSet
    <3> QED
      BY <1>1, <2>1, <2>2, <2>3, <3>1, ListedFacts
  <2> QED
    BY <1>1, <2>1, <2>2, <2>3
<1>6. Listed' = Listed
  BY DEF Listed
<1> QED
  BY <1>3, <1>4, <1>5, <1>6 DEF AssetInv

LEMMA SingleStep ==
    ASSUME TypeOK, SingleInv, [Next]_vars
    PROVE  SingleInv'
<1>1. CASE UNCHANGED balances
  BY <1>1 DEF SingleInv, RowsMissed
<1>2. CASE SaveOrUpdateAddressBalance
  <2>1. balances \in [Keys -> Seq(Nat)] /\ balances' \in [Keys -> Seq(Nat)] /\ Key \in Keys
    BY <1>2, WriteFacts DEF TypeOK
  <2>2. \A k \in Keys : \/ Len(balances'[k]) = Len(balances[k])
                        \/ Len(balances'[k]) = 1
                        \/ RowsMissed
    BY <1>2, <2>1, WriteFacts
  <2>3. ASSUME ~RowsMissed, NEW k \in Keys
        PROVE  Len(balances'[k]) <= 1
    <3>1. Len(balances[k]) <= 1
      BY <2>3 DEF SingleInv
    <3>2. Len(balances'[k]) = Len(balances[k]) \/ Len(balances'[k]) = 1
      BY <2>2, <2>3
    <3>3. Len(balances[k]) \in Nat /\ Len(balances'[k]) \in Nat
      BY <2>1
    <3>4. \A c, d \in Nat : c <= 1 /\ (d = c \/ d = 1) => d <= 1
      OBVIOUS
    <3> QED
      BY <3>1, <3>2, <3>3, <3>4, Zenon
  <2> QED
    BY <2>3 DEF SingleInv, RowsMissed
<1> QED
  BY <1>1, <1>2, Writers

\* What the node is asked for is its version of the moment.
LEMMA BalanceStep ==
    ASSUME TypeOK, PositionInv, BalanceInv, [Next]_vars
    PROVE  BalanceInv'
<1>1. /\ balances \in [Keys -> Seq(Nat)] /\ head \in Nat /\ amount \in Nat /\ n \in Nat
      /\ \A k \in Keys : \A j \in DOMAIN balances[k] : balances[k][j] <= Version(head, k)
      /\ pc \in Reading => amount <= Version(head, Key) /\ queue # <<>> /\ n <= head
      /\ pc \in Reading /\ asked =>
            /\ \A j \in DOMAIN balances[Key] : amount >= balances[Key][j]
            /\ amount >= Version(n, Key)
  BY BlockFacts DEF TypeOK, PositionInv, BalanceInv, Reading, Updating, InBlock, InTransaction
<1>2. head' = head \/ head' = head + 1
  BY Writers DEF NodeProducesBlock
<1>3. head' \in Nat /\ head <= head'
  BY <1>1, <1>2
<1>4. \A k : /\ Version(head, k) \in Nat /\ Version(head', k) \in Nat
             /\ Version(head, k) <= Version(head', k)
  BY <1>1, <1>3, VersionFacts
<1>5. ASSUME NEW k \in Keys, NEW j \in DOMAIN balances'[k]
      PROVE  balances'[k][j] <= Version(head', k)
  <2>1. /\ Version(head, k) \in Nat /\ Version(head', k) \in Nat
        /\ Version(head, k) <= Version(head', k)
    BY <1>4
  <2>2. j \in DOMAIN balances[k] => balances[k][j] \in Nat /\ balances[k][j] <= Version(head, k)
    BY <1>1
  <2>3. CASE UNCHANGED balances
    BY <2>1, <2>2, <2>3
  <2>4. CASE SaveOrUpdateAddressBalance
    <3>1. pc \in Reading /\ Key \in Keys
      BY <2>4, WriteFacts DEF Reading
    <3>2. amount <= Version(head, Key)
      BY <1>1, <3>1
    <3>3. \/ k # Key /\ balances'[k] = balances[k]
          \/ k = Key /\ balances'[k][j] = amount
          \/ j \in DOMAIN balances[k] /\ balances'[k][j] = balances[k][j]
      BY <2>4, WriteFacts
    <3> QED
      BY <1>1, <2>1, <2>2, <3>2, <3>3
  <2> QED
    BY <2>3, <2>4, Writers
<1>6. ASSUME pc' \in Reading
      PROVE  /\ amount' <= Version(head', Key')
             /\ asked' => /\ \A j \in DOMAIN balances'[Key'] : amount' >= balances'[Key'][j]
                          /\ amount' >= Version(n', Key')
  <2>1. \/ GetAddressBalances
        \/ pc \in Reading /\ UNCHANGED <<queue, amount, n, balances, asked>>
    BY <1>6, Steps DEF Quiet, Start, NodeProducesBlock, Dies, LoopHead, GetBlock, GetBlockFails,
         UpdateLastScannedAtHead, GetTxReceipts, AbandonBlock, AbandonTransaction,
         ApplyPlugins, PluginsDone, TransactionDone, FinishBlock, GetAddressBalances,
         FindAsset, ListAssets, SaveAsset, AssetsListed, SaveOrUpdateAddressBalance, loopVars, keyVars, dbVars, observers, Reading
  <2>2. queue' = queue
    BY <2>1 DEF GetAddressBalances
  <2>3. Key' = Key
    BY <2>2 DEF Key
  <2>4. CASE GetAddressBalances
    <3>1. /\ pc = "update" /\ queue # <<>> /\ UNCHANGED <<head, n, balances>>
          /\ amount' = (IF IsHxNodeConnected THEN Version(head, Key) ELSE 0)
          /\ asked' = IsHxNodeConnected
      BY <2>4 DEF GetAddressBalances, BalanceReported, dbVars, loopVars
    <3>2. n <= head /\ Key \in Keys
      BY <3>1, KeyFacts DEF PositionInv, Updating, InBlock, InTransaction
    <3>3. Version(n, Key) <= Version(head, Key) /\ Version(head, Key) \in Nat
      BY <1>1, <3>2, VersionFacts
    <3>4. asked' => amount' = Version(head, Key)
      BY <3>1
    <3>5. amount' <= Version(head', Key')
      BY <2>3, <3>1, <3>3
    <3>6. asked' => \A j \in DOMAIN balances'[Key'] : amount' >= balances'[Key'][j]
      <4> SUFFICES ASSUME asked', NEW j \in DOMAIN balances[Key]
                   PROVE  amount' >= balances[Key][j]
        BY <2>3, <3>1
      <4>1. balances[Key][j] \in Nat /\ balances[Key][j] <= Version(head, Key)
        BY <1>1, <3>2
      <4> QED
        BY <3>3, <3>4, <4>1
    <3>7. asked' => amount' >= Version(n', Key')
      <4>1. Version(n, Key) \in Nat
        BY <1>1, VersionFacts
      <4> QED
        BY <2>3, <3>1, <3>3, <3>4, <4>1
    <3> QED
      BY <3>5, <3>6, <3>7
  <2>5. CASE pc \in Reading /\ UNCHANGED <<queue, amount, n, balances, asked>>
    <3>1. /\ Version(head, Key) \in Nat /\ Version(head', Key) \in Nat
          /\ Version(head, Key) <= Version(head', Key)
      BY <1>4
    <3> QED
      BY <1>1, <2>3, <2>5, <3>1
  <2> QED
    BY <2>1, <2>4, <2>5
<1>7. Version(n, Key)' = Version(n', Key') /\ Version(head, Key)' = Version(head', Key')
      /\ \A k : Version(head, k)' = Version(head', k)
  BY DEF Version, Operations, OpAt
<1> QED
  BY <1>5, <1>6, <1>7 DEF BalanceInv

\* A balance once current for a block the scan has come to stays current.
LEMMA CurrentKept ==
    ASSUME TypeOK, PositionInv, BalanceInv, [Next]_vars,
           NEW b \in Nat, b <= lastScanned \/ b <= n, pc # "down" \/ b <= lastScanned,
           NEW k \in Keys
    PROVE  /\ Current(b, k) => Current(b, k)'
           /\ Recent(b, k) => Recent(b, k)'
<1>1. /\ balances \in [Keys -> Seq(Nat)] /\ amount \in Nat /\ n \in Nat
      /\ lastScanned \in Nat /\ head \in Nat
  BY BlockFacts DEF TypeOK
<1>2. \/ UNCHANGED balances /\ unread \subseteq unread'
      \/ SaveOrUpdateAddressBalance
  BY Writers DEF AbandonBlock, AbandonTransaction, ApplyPlugins, dbVars
<1>3. Version(b, k)' = Version(b, k) /\ Version(b, k) \in Nat
  BY VersionFacts DEF Version, Operations, OpAt
<1>4. Current(b, k) => Current(b, k)'
  <2>1. CASE UNCHANGED balances /\ unread \subseteq unread'
    BY <1>3, <2>1 DEF Current, HasBalanceOf
  <2>2. CASE SaveOrUpdateAddressBalance
    <3>1. /\ Key \in Keys /\ pc = "write"
          /\ unread' = IF asked THEN unread \ {Key} ELSE unread \cup {Key}
      BY <2>2, WriteFacts
    <3>2. CASE k # Key
      <4>1. balances'[k] = balances[k]
        BY <2>2, <3>2, WriteFacts
      <4> QED
        BY <1>3, <3>1, <3>2, <4>1 DEF Current, HasBalanceOf
    <3>3. CASE k = Key /\ ~asked
      BY <3>1, <3>3 DEF Current
    <3>4. CASE k = Key /\ asked
      <4>1. amount >= Version(n, k) /\ n > lastScanned
        BY <3>1, <3>4 DEF BalanceInv, PositionInv, Reading
      <4>2. Version(b, k) <= Version(n, k) /\ Version(n, k) \in Nat
        <5>1. \A r \in Nat : Version(r, k) \in Nat /\ (b <= r => Version(b, k) <= Version(r, k))
          BY VersionFacts
        <5>2. b <= n
          BY <1>1, <4>1
        <5> QED
          BY <1>1, <5>1, <5>2
      <4>3. PICK r \in DOMAIN balances'[k] : balances'[k][r] = amount
        BY <2>2, <3>4, WriteFacts
      <4> QED
        BY <1>1, <1>3, <4>1, <4>2, <4>3 DEF Current, HasBalanceOf
    <3> QED
      BY <3>2, <3>3, <3>4
  <2> QED
    BY <1>2, <2>1, <2>2
<1> QED
  BY <1>3, <1>4 DEF Recent

-----------------------------------------------------------------------------
(* The scan leaves current balances behind it.                              *)

\* An operation applied in a block the scan has come to stays applied.
LEMMA OpAppliedKept ==
    ASSUME TypeOK, PositionInv, BalanceInv, [Next]_vars,
           NEW b \in Heights, b <= lastScanned \/ b <= n, pc # "down" \/ b <= lastScanned,
           NEW m \in DOMAIN Chain[b], NEW j \in DOMAIN Chain[b][m]
    PROVE  OpApplied(b, m, j) => OpApplied(b, m, j)'
<1>1. IsOperation(Chain[b][m][j])
  BY OperationsAssumption DEF Heights
<1>2. UpdatedBy(Chain[b][m][j]) \subseteq Keys
  BY <1>1, UpdatedByKeys
<1>3. b \in Nat
  BY BlockFacts
<1>4. \A k \in Keys : Current(b, k) => Current(b, k)'
  BY <1>3, CurrentKept
<1> QED
  BY <1>2, <1>4 DEF OpApplied

LEMMA AppliedKept ==
    ASSUME TypeOK, PositionInv, BalanceInv, [Next]_vars,
           NEW b \in Heights, b <= lastScanned \/ b <= n, pc # "down" \/ b <= lastScanned
    PROVE  /\ \A m \in DOMAIN Chain[b] : TxApplied(b, m) => TxApplied(b, m)'
           /\ Applied(b) => Applied(b)'
<1>1. ASSUME NEW m \in DOMAIN Chain[b], TxApplied(b, m)
      PROVE  TxApplied(b, m)'
  <2>1. \A j \in DOMAIN Chain[b][m] : OpApplied(b, m, j)'
    BY <1>1, OpAppliedKept DEF TxApplied
  <2> QED
    BY <2>1 DEF TxApplied
<1>2. \A m \in DOMAIN Chain[b] : TxApplied(b, m) => TxApplied(b, m)'
  BY <1>1
<1> QED
  BY <1>2 DEF Applied

\* Where the checkpoint, and the blocks behind a running scan, come to after a
\* step: where one of them was, or over the block that was finished.
LEMMA Frontier ==
    ASSUME TypeOK, PositionInv, [Next]_vars,
           NEW f, f = lastScanned' \/ (pc' # "down" /\ f = n' - 1)
    PROVE  /\ \/ f = lastScanned
              \/ pc # "down" /\ f = n - 1
              \/ FinishBlock /\ f = n /\ pc # "down"
           /\ f \in 0 .. Len(Chain) /\ (f <= lastScanned \/ f <= n)
           /\ pc # "down" \/ f <= lastScanned
<1>1. /\ lastScanned \in Nat /\ n \in Nat /\ head \in Nat /\ head <= Len(Chain)
      /\ lastScanned <= head /\ Len(Chain) \in Nat
      /\ pc # "down" => n > lastScanned /\ n <= head + 1
      /\ pc = "tx" => n <= head
  BY BlockFacts DEF TypeOK, PositionInv, InBlock
<1>2. \/ lastScanned' = lastScanned
      \/ pc # "down" /\ lastScanned' = n - 1
      \/ FinishBlock /\ lastScanned' = n
  BY Writers DEF UpdateLastScannedAtHead, FinishBlock, HeadCheckpoint, CheckpointAfterBlock
<1>3. \/ pc' = "down"
      \/ n' = lastScanned + 1
      \/ pc # "down" /\ n' = n
      \/ FinishBlock /\ n' = n + 1
  BY Steps DEF Quiet, Start, NodeProducesBlock, Dies, LoopHead, GetBlock, GetBlockFails,
         UpdateLastScannedAtHead, GetTxReceipts, AbandonBlock, AbandonTransaction,
         ApplyPlugins, PluginsDone, TransactionDone, FinishBlock, GetAddressBalances,
         FindAsset, ListAssets, SaveAsset, AssetsListed, SaveOrUpdateAddressBalance, loopVars
<1>4. FinishBlock => pc = "tx"
  BY DEF FinishBlock
<1>5. \/ f = lastScanned
      \/ pc # "down" /\ f = n - 1
      \/ FinishBlock /\ f = n /\ pc # "down"
  BY <1>1, <1>2, <1>3, <1>4
<1> QED
  BY <1>1, <1>4, <1>5

\* A finished block is applied.
LEMMA FinishedIsApplied ==
    ASSUME TypeOK, PositionInv, AppliedInv, FinishBlock
    PROVE  Applied(n) /\ n \in Heights
<1>1. pc = "tx" /\ x > Len(Chain[n]) /\ n \in Nat /\ n <= head /\ n > lastScanned
      /\ head \in 0 .. Len(Chain) /\ lastScanned \in Nat /\ x \in Nat
  BY DEF TypeOK, PositionInv, FinishBlock, Txs, InBlock
<1>2. n \in Heights
  BY <1>1, BlockFacts
<1>3. \A m \in DOMAIN Chain[n] : m < x
  BY <1>1, <1>2, BlockFacts
<1> QED
  BY <1>1, <1>2, <1>3 DEF AppliedInv, Applied, InBlock

LEMMA FrontierApplied ==
    ASSUME TypeOK, PositionInv, BalanceInv, AppliedInv, [Next]_vars,
           NEW f, f = lastScanned' \/ (pc' # "down" /\ f = n' - 1),
           NEW b \in 1 .. f
    PROVE  Applied(b)'
<1>1. /\ \/ f = lastScanned
         \/ pc # "down" /\ f = n - 1
         \/ FinishBlock /\ f = n /\ pc # "down"
      /\ f \in 0 .. Len(Chain) /\ (f <= lastScanned \/ f <= n)
      /\ pc # "down" \/ f <= lastScanned
  BY Frontier
<1>2. n \in Nat /\ lastScanned \in Nat
  BY DEF TypeOK
<1>3. b \in Heights /\ (b <= lastScanned \/ b <= n) /\ (pc # "down" \/ b <= lastScanned)
  BY <1>1, <1>2, BlockFacts
<1>4. Applied(b)
  <2>1. CASE f = lastScanned
    BY <2>1 DEF AppliedInv
  <2>2. CASE pc # "down" /\ f = n - 1
    BY <2>2 DEF AppliedInv
  <2>3. CASE FinishBlock /\ f = n /\ pc # "down"
    <3>1. b = n \/ b \in 1 .. n - 1
      BY <1>2, <2>3
    <3> QED
      BY <2>3, <3>1, FinishedIsApplied DEF AppliedInv
  <2> QED
    BY <1>1, <2>1, <2>2, <2>3
<1> QED
  BY <1>3, <1>4, AppliedKept

\* The block in hand after a step is the one that was, or has just been fetched.
LEMMA BlockInHand ==
    ASSUME TypeOK, PositionInv, [Next]_vars, pc' \in InBlock
    PROVE  /\ n' = n /\ n' \in Heights /\ n \in Nat /\ pc # "down"
           /\ DOMAIN Chain[n] = 1 .. Len(Chain[n]) /\ Len(Chain[n]) \in Nat
<1>1. n' = n /\ pc # "down"
  BY Steps DEF Quiet, Start, NodeProducesBlock, Dies, LoopHead, GetBlock, GetBlockFails,
         UpdateLastScannedAtHead, GetTxReceipts, AbandonBlock, AbandonTransaction,
         ApplyPlugins, PluginsDone, TransactionDone, FinishBlock, GetAddressBalances,
         FindAsset, ListAssets, SaveAsset, AssetsListed, SaveOrUpdateAddressBalance, loopVars, InBlock, InTransaction, Updating
<1>2. PositionInv' /\ TypeOK'
  BY PositionStep, TypeStep
<1>3. /\ n' \in Nat /\ n' <= head' /\ n' > lastScanned' /\ head' \in 0 .. Len(Chain)
      /\ lastScanned' \in Nat
  BY <1>2 DEF PositionInv, TypeOK, InBlock, InTransaction, Updating
<1>4. n' \in Heights
  BY <1>3, BlockFacts
<1> QED
  BY <1>1, <1>3, <1>4, BlockFacts

\* The transactions of the block in hand.
LEMMA TransactionsApplied ==
    ASSUME TypeOK, PositionInv, BalanceInv, AppliedInv, [Next]_vars,
           pc' \in InBlock, NEW m, m \in DOMAIN Chain[n'], m < x'
    PROVE  TxApplied(n, m)'
<1>1. /\ n' = n /\ n \in Heights /\ n \in Nat /\ pc # "down"
      /\ DOMAIN Chain[n] = 1 .. Len(Chain[n]) /\ Len(Chain[n]) \in Nat /\ x \in Nat
  BY BlockInHand DEF TypeOK
<1>2. m \in Nat /\ m >= 1 /\ m \in DOMAIN Chain[n]
  BY <1>1
<1>3. ASSUME pc \in InBlock, m < x
      PROVE  TxApplied(n, m)'
  <2>1. PICK b \in Heights : b = n
    BY <1>1
  <2>2. TxApplied(b, m) => TxApplied(b, m)'
    BY <1>1, <1>2, <2>1, AppliedKept
  <2>3. TxApplied(b, m)
    BY <1>1, <1>2, <1>3, <2>1 DEF AppliedInv
  <2> QED
    BY <1>1, <2>1, <2>2, <2>3 DEF TxApplied, OpApplied, Current, HasBalanceOf
<1>4. CASE UNCHANGED x /\ pc \in InBlock
  BY <1>3, <1>4
<1>5. CASE GetBlock
  BY <1>2, <1>5 DEF GetBlock
<1>6. CASE AbandonBlock
  <2>1. pc = "tx" /\ x <= Len(Chain[n]) /\ x' = Len(Chain[n]) + 1
        /\ unread' = unread \cup UNION {KeysFrom(r, 1) : r \in x .. Len(Chain[n])}
    BY <1>6 DEF AbandonBlock, Txs
  <2>2. CASE m < x
    BY <1>3, <2>1, <2>2 DEF InBlock
  <2>3. CASE m >= x
    <3>1. m \in x .. Len(Chain[n])
      BY <1>1, <1>2, <2>1, <2>3
    <3>2. KeysFrom(m, 1) \subseteq unread'
      BY <2>1, <3>1
    <3>3. \A j \in DOMAIN Chain[n][m] : j \in 1 .. Len(Chain[n][m])
      BY <1>1, <1>2, BlockFacts
    <3>4. \A j \in DOMAIN Chain[n][m] : UpdatedBy(Chain[n][m][j]) \subseteq unread'
      BY <3>2, <3>3 DEF KeysFrom, Txs
    <3> QED
      BY <1>1, <3>4 DEF TxApplied, OpApplied, Current
  <2> QED
    BY <1>1, <1>2, <2>2, <2>3
<1>7. CASE AbandonTransaction \/ TransactionDone
  <2>1. pc = "op" /\ x' = x + 1 /\ n' = n /\ i \in Nat
    BY <1>7 DEF AbandonTransaction, TransactionDone, TypeOK
  <2>2. CASE m < x
    BY <1>3, <2>1, <2>2 DEF InBlock, InTransaction
  <2>3. CASE m = x
    <3>1. ASSUME NEW j \in DOMAIN Chain[n][x]
          PROVE  OpApplied(n, m, j)'
      <4>1. j \in 1 .. Len(Chain[n][x]) /\ Len(Chain[n][x]) \in Nat
        BY <1>1, <1>2, <2>3, <3>1, BlockFacts
      <4>2. CASE j < i
        <5>1. OpApplied(n, x, j)
          BY <2>1, <3>1, <4>2 DEF AppliedInv, InTransaction
        <5>2. PICK b \in Heights : b = n
          BY <1>1
        <5>3. OpApplied(b, m, j) => OpApplied(b, m, j)'
          BY <1>1, <1>2, <2>3, <3>1, <5>2, OpAppliedKept
        <5> QED
          BY <1>1, <2>1, <2>3, <5>1, <5>2, <5>3 DEF OpApplied, Current, HasBalanceOf
      <4>3. CASE j >= i
        <5>1. AbandonTransaction
          BY <1>7, <2>1, <4>1, <4>3 DEF TransactionDone, Ops, Txs
        <5>2. unread' = unread \cup KeysFrom(x, i)
          BY <5>1 DEF AbandonTransaction
        <5>3. UpdatedBy(Chain[n][x][j]) \subseteq unread'
          BY <2>1, <4>1, <4>3, <5>2 DEF KeysFrom, Txs
        <5> QED
          BY <5>3, <1>1, <2>1, <2>3 DEF OpApplied, Current
      <4> QED
        BY <2>1, <4>1, <4>2, <4>3
    <3> QED
      BY <1>1, <2>3, <3>1 DEF TxApplied
  <2> QED
    BY <1>1, <1>2, <2>1, <2>2, <2>3
<1>8. \/ UNCHANGED x /\ pc \in InBlock
      \/ GetBlock \/ AbandonBlock \/ AbandonTransaction \/ TransactionDone
  BY Steps DEF Quiet, Start, NodeProducesBlock, Dies, LoopHead, GetBlock, GetBlockFails,
         UpdateLastScannedAtHead, GetTxReceipts, AbandonBlock, AbandonTransaction,
         ApplyPlugins, PluginsDone, TransactionDone, FinishBlock, GetAddressBalances,
         FindAsset, ListAssets, SaveAsset, AssetsListed, SaveOrUpdateAddressBalance, loopVars, InBlock, InTransaction, Updating
<1> QED
  BY <1>4, <1>5, <1>6, <1>7, <1>8

\* The operations of the transaction in hand.
LEMMA OperationsApplied ==
    ASSUME TypeOK, PositionInv, BalanceInv, AppliedInv, [Next]_vars,
           pc' \in InTransaction, NEW j, j \in DOMAIN Chain[n'][x'], j < i'
    PROVE  \A k \in UpdatedBy(Chain[n'][x'][j]) : Current(n, k)'
<1>1. /\ n' = n /\ n \in Heights /\ n \in Nat /\ pc # "down" /\ i \in Nat
      /\ DOMAIN Chain[n] = 1 .. Len(Chain[n]) /\ Len(Chain[n]) \in Nat
  BY BlockInHand DEF TypeOK, InBlock
<1>2. x' \in DOMAIN Chain[n]
  <2>1. TypeOK' /\ PositionInv'
    BY PositionStep, TypeStep
  <2> QED
    BY <1>1, <2>1 DEF TypeOK, PositionInv, InBlock
<1>3. j \in Nat /\ j >= 1
  BY <1>1, <1>2, BlockFacts
<1>4. \/ GetTxReceipts /\ i' = 1
      \/ PluginsDone /\ x' = x /\ i' = i + 1 /\ pc = "update" /\ queue = <<>>
      \/ pc \in InTransaction /\ UNCHANGED <<x, i>>
  BY Steps DEF Quiet, Start, NodeProducesBlock, Dies, LoopHead, GetBlock, GetBlockFails,
         UpdateLastScannedAtHead, GetTxReceipts, AbandonBlock, AbandonTransaction,
         ApplyPlugins, PluginsDone, TransactionDone, FinishBlock, GetAddressBalances,
         FindAsset, ListAssets, SaveAsset, AssetsListed, SaveOrUpdateAddressBalance, loopVars, InTransaction, Updating
<1>5. x' = x /\ pc \in InTransaction
  BY <1>3, <1>4 DEF InTransaction, Updating
<1>6. OpApplied(n, x, j)
  <2>1. j < i \/ (j = i /\ pc = "update" /\ queue = <<>>)
    BY <1>1, <1>3, <1>4
  <2>2. CASE j < i
    BY <1>1, <1>5, <2>2 DEF AppliedInv
  <2>3. CASE j = i /\ pc = "update" /\ queue = <<>>
    BY <2>3 DEF AppliedInv, OpApplied, Updating, ToSet
  <2> QED
    BY <2>1, <2>2, <2>3
<1>7. x \in DOMAIN Chain[n] /\ j \in DOMAIN Chain[n][x]
  BY <1>1, <1>2, <1>5
<1>8. \A k \in UpdatedBy(Chain[n][x][j]) : k \in Keys
  <2>1. IsOperation(Chain[n][x][j])
    BY <1>1, <1>7, OperationsAssumption DEF Heights
  <2> QED
    BY <2>1, UpdatedByKeys
<1> QED
  BY <1>1, <1>5, <1>6, <1>8, CurrentKept DEF OpApplied

\* The operation in hand: what is not current is queued.
LEMMA QueueApplied ==
    ASSUME TypeOK, PositionInv, BalanceInv, AppliedInv, [Next]_vars,
           pc' \in Updating, NEW k, k \in UpdatedBy(Chain[n'][x'][i'])
    PROVE  Current(n, k)' \/ k \in ToSet(queue')
<1>1. \/ ApplyPlugins
      \/ SaveOrUpdateAddressBalance
      \/ pc \in Updating /\ UNCHANGED <<queue, n, x, i>>
  BY Steps DEF Quiet, Start, NodeProducesBlock, Dies, LoopHead, GetBlock, GetBlockFails,
         UpdateLastScannedAtHead, GetTxReceipts, AbandonBlock, AbandonTransaction,
         ApplyPlugins, PluginsDone, TransactionDone, FinishBlock, GetAddressBalances,
         FindAsset, ListAssets, SaveAsset, AssetsListed, SaveOrUpdateAddressBalance, loopVars, keyVars, Updating
<1>2. n' = n /\ x' = x /\ i' = i /\ pc \in InTransaction /\ i <= Len(Chain[n][x])
  BY <1>1 DEF ApplyPlugins, SaveOrUpdateAddressBalance, Updating, PositionInv, InTransaction,
       loopVars, Ops, Txs
<1>3. /\ n \in Heights /\ x \in DOMAIN Chain[n] /\ i \in DOMAIN Chain[n][x]
      /\ IsOperation(Chain[n][x][i]) /\ n \in Nat /\ got \in BOOLEAN
  BY <1>2, OperationFacts DEF TypeOK
<1>4. k \in Keys
  BY <1>2, <1>3, UpdatedByKeys
<1>5. Current(n, k) => Current(n, k)'
  <2>1. pc # "down"
    BY <1>2 DEF InTransaction, Updating
  <2>2. PICK b \in Nat : b = n
    BY <1>3
  <2>3. Current(b, k) => Current(b, k)'
    BY <1>4, <2>1, <2>2, CurrentKept
  <2> QED
    BY <1>2, <2>2, <2>3 DEF Current, HasBalanceOf
<1>6. CASE ApplyPlugins
  <2>1. /\ queue' = Updates(Chain[n][x][i], got)
        /\ unread' = unread \cup (IF got THEN {} ELSE ToSet(Chain[n][x][i].deposits))
    BY <1>6 DEF ApplyPlugins, Ops, Txs
  <2>2. UpdatedBy(Chain[n][x][i]) =
            ToSet(Updates(Chain[n][x][i], FALSE)) \cup ToSet(Chain[n][x][i].deposits)
    BY <1>3, UpdatesFacts DEF UpdatedBy
  <2>3. CASE got
    <3>1. got = TRUE
      BY <1>3, <2>3
    <3> QED
      BY <1>2, <2>1, <3>1 DEF UpdatedBy
  <2>4. CASE ~got
    <3>1. got = FALSE
      BY <1>3, <2>4
    <3> QED
      BY <1>2, <2>1, <2>2, <3>1 DEF Current
  <2> QED
    BY <2>3, <2>4
<1>7. CASE SaveOrUpdateAddressBalance
  <2>1. Current(n, k) \/ k \in ToSet(queue)
    BY <1>2, <1>7 DEF AppliedInv, SaveOrUpdateAddressBalance, Updating
  <2>2. ToSet(queue) = {Key} \cup ToSet(queue')
    BY <1>7, WriteFacts
  <2>3. CASE k = Key
    <3>1. /\ pc = "write"
          /\ unread' = IF asked THEN unread \ {Key} ELSE unread \cup {Key}
      BY <1>7, WriteFacts
    <3>2. PICK r \in DOMAIN balances'[k] : balances'[k][r] = amount
      BY <1>7, <2>3, WriteFacts
    <3>3. asked => amount >= Version(n, k)
      BY <2>3, <3>1 DEF BalanceInv, Reading
    <3>4. Version(n, k)' = Version(n, k)
      BY <1>2 DEF Version, Operations, OpAt
    <3> QED
      BY <2>3, <3>1, <3>2, <3>3, <3>4 DEF Current, HasBalanceOf
  <2> QED
    BY <1>5, <2>1, <2>2, <2>3
<1>8. CASE pc \in Updating /\ UNCHANGED <<queue, n, x, i>>
  BY <1>5, <1>8 DEF AppliedInv
<1> QED
  BY <1>1, <1>6, <1>7, <1>8

LEMMA AppliedStep ==
    ASSUME TypeOK, PositionInv, BalanceInv, AppliedInv, [Next]_vars
    PROVE  AppliedInv'
<1>1. \A b \in 1 .. lastScanned' : Applied(b)'
  BY FrontierApplied
<1>2. pc' # "down" => \A b \in 1 .. n' - 1 : Applied(b)'
  BY FrontierApplied
<1>3. pc' \in InBlock => \A m \in DOMAIN Chain[n'] : m < x' => TxApplied(n, m)'
  BY TransactionsApplied
<1>4. pc' \in InTransaction =>
          \A j \in DOMAIN Chain[n'][x'] : j < i' => OpApplied(n, x, j)'
  <2>1. pc' \in InTransaction =>
            \A j \in DOMAIN Chain[n'][x'] : j < i' =>
                \A k \in UpdatedBy(Chain[n'][x'][j]) : Current(n, k)'
    BY OperationsApplied
  <2> QED
    BY <2>1 DEF OpApplied
<1>5. pc' \in Updating =>
          \A k \in UpdatedBy(Chain[n'][x'][i']) : Current(n, k)' \/ k \in ToSet(queue')
  BY QueueApplied
<1> QED
  BY <1>1, <1>2, <1>3, <1>4, <1>5 DEF AppliedInv

-----------------------------------------------------------------------------
(* The tracked keys are as recent as the blocks behind the scan.            *)

LEMMA TrackedFacts ==
    /\ Tracked \subseteq Keys
    /\ \A k \in Tracked : \A q \in Operations :
          k \in OpAt(q).changes => k \in UpdatedBy(OpAt(q))
  BY DEF Tracked

\* A finished block either updated a tracked key or did not change it.
LEMMA FinishedIsRecent ==
    ASSUME TypeOK, PositionInv, AppliedInv, TrackedInv, FinishBlock, NEW k \in Tracked
    PROVE  Recent(n, k)
<1>1. /\ pc = "tx" /\ n \in Nat /\ n <= head /\ n > lastScanned /\ lastScanned \in Nat
  BY DEF TypeOK, PositionInv, FinishBlock, InBlock
<1>2. n \in Heights /\ Applied(n)
  BY FinishedIsApplied
<1>3. CASE \E q \in Operations : q[1] = n /\ k \in OpAt(q).changes
  <2>1. PICK q \in Operations : q[1] = n /\ k \in UpdatedBy(OpAt(q))
    BY <1>3, TrackedFacts
  <2>2. q[2] \in DOMAIN Chain[n] /\ q[3] \in DOMAIN Chain[n][q[2]] /\ OpAt(q) = Chain[n][q[2]][q[3]]
    BY <2>1, OperationIsInBlock
  <2> QED
    BY <1>2, <2>1, <2>2 DEF Applied, TxApplied, OpApplied, Recent
<1>4. CASE ~ \E q \in Operations : q[1] = n /\ k \in OpAt(q).changes
  <2>1. n - 1 \in Nat /\ n - 1 <= n
    BY <1>1
  <2>2. \A q \in Operations : k \in OpAt(q).changes => ~(n - 1 < q[1] /\ q[1] <= n)
    BY <1>1, <1>4, OperationIsInBlock
  <2>3. Version(n, k) = Version(n - 1, k)
    BY <1>1, <2>1, <2>2, VersionUnchanged
  <2>4. Recent(n - 1, k)
    BY <1>1 DEF TrackedInv
  <2> QED
    BY <2>3, <2>4 DEF Recent, Current, HasBalanceOf
<1> QED
  BY <1>3, <1>4

LEMMA FrontierRecent ==
    ASSUME TypeOK, PositionInv, BalanceInv, AppliedInv, TrackedInv, [Next]_vars,
           NEW f, f = lastScanned' \/ (pc' # "down" /\ f = n' - 1),
           NEW k \in Tracked
    PROVE  Recent(f, k)'
<1>1. /\ \/ f = lastScanned
         \/ pc # "down" /\ f = n - 1
         \/ FinishBlock /\ f = n /\ pc # "down"
      /\ f \in 0 .. Len(Chain) /\ (f <= lastScanned \/ f <= n)
      /\ pc # "down" \/ f <= lastScanned
  BY Frontier
<1>2. Recent(f, k)
  BY <1>1, FinishedIsRecent DEF TrackedInv
<1>3. f \in Nat /\ k \in Keys
  BY <1>1, TrackedFacts, BlockFacts
<1> QED
  BY <1>1, <1>2, <1>3, CurrentKept

LEMMA TrackedStep ==
    ASSUME TypeOK, PositionInv, BalanceInv, AppliedInv, TrackedInv, [Next]_vars
    PROVE  TrackedInv'
<1>1. \A f : f = lastScanned' \/ (pc' # "down" /\ f = n' - 1) => \A k \in Tracked : Recent(f, k)'
  BY FrontierRecent
<1>2. \A k \in Tracked : Recent(lastScanned, k)'
  BY <1>1
<1>3. pc' # "down" => \A k \in Tracked : Recent(n - 1, k)'
  BY <1>1
<1>4. Tracked' = Tracked
  BY DEF Tracked, Operations, OpAt
<1> QED
  BY <1>2, <1>3, <1>4 DEF TrackedInv

-----------------------------------------------------------------------------
(* The theorems.                                                            *)

LEMMA AddressStep == AddressInv /\ [Next]_vars => AddressInv'
<1> SUFFICES ASSUME AddressInv, [Next]_vars PROVE AddressInv'
  OBVIOUS
<1>1. /\ TypeOK /\ PositionInv /\ AssetInv /\ SingleInv /\ BalanceInv
      /\ AppliedInv /\ TrackedInv
  BY DEF AddressInv
<1> QED
  BY <1>1, TypeStep, PositionStep, AssetStep, SingleStep, BalanceStep, AppliedStep, TrackedStep
     DEF AddressInv

LEMMA AddressInvariant == Spec => []AddressInv
  BY AddressInit, AddressStep, PTL DEF Spec

\* The state of the balance tables is of its types in every behaviour: a queued
\* key is an address and an asset, and a key is being read only while one is queued.
THEOREM BalancesTypeCorrect == Spec => []TypeOK
<1>1. AddressInv => TypeOK
  BY DEF AddressInv
<1> QED
  BY <1>1, AddressInvariant, PTL

\* updateAddressBalance finds before it saves and looks the asset up before it
\* writes: while no find misses a row that is there, whatever dies in between,
\* there is one row per address and asset, and its asset is in the asset table.
THEOREM RowsAreSingleWithAsset ==
    ASSUME ~RowsMissed
    PROVE  Spec => []OneRowWithAsset
<1>1. AddressInv => OneRowWithAsset
  BY DEF AddressInv, AssetInv, SingleInv, OneRowWithAsset
<1> QED
  BY <1>1, AddressInvariant, PTL

\* Below the checkpoint every balance an operation makes a plugin update is
\* stored and at least as recent as the operation's block, but for those whose
\* operation a break skipped or that fell into a shutdown; finds that miss rows
\* included.
THEOREM CheckpointedAreCurrent == Spec => []CheckpointedBalancesCurrent
<1>1. AddressInv => CheckpointedBalancesCurrent
  <2> SUFFICES ASSUME AddressInv, NEW q \in Operations, q[1] <= lastScanned,
                      NEW k \in UpdatedBy(OpAt(q))
               PROVE  k \in unread \/ HasBalanceOf(q[1], k)
    BY DEF CheckpointedBalancesCurrent
  <2>1. /\ q[1] \in Nat /\ q[1] >= 1 /\ q[2] \in DOMAIN Chain[q[1]]
        /\ q[3] \in DOMAIN Chain[q[1]][q[2]] /\ OpAt(q) = Chain[q[1]][q[2]][q[3]]
    BY OperationIsInBlock
  <2>2. lastScanned \in Nat /\ AppliedInv
    BY DEF AddressInv, TypeOK
  <2>3. q[1] \in 1 .. lastScanned
    BY <2>1, <2>2
  <2> QED
    BY <2>1, <2>2, <2>3 DEF AppliedInv, Applied, TxApplied, OpApplied, Current
<1> QED
  BY <1>1, AddressInvariant, PTL

\* Between blocks a tracked balance that no row has as the node has it has an
\* operation that changed it still to be scanned, or was skipped, or fell into
\* a shutdown.
THEOREM StaleArePending == Spec => []StaleOnlyBeforePendingOperation
<1>1. AddressInv => StaleOnlyBeforePendingOperation
  <2> SUFFICES ASSUME AddressInv, pc = "loop", NEW k \in Tracked \ unread,
                      Version(head, k) > 0,
                      \A j \in DOMAIN balances[k] : balances[k][j] # Version(head, k),
                      ~ \E q \in Operations : q[1] \in n .. head /\ k \in OpAt(q).changes
               PROVE  FALSE
    BY DEF StaleOnlyBeforePendingOperation
  <2>1. /\ n \in Nat /\ head \in Nat /\ n > lastScanned /\ n <= head + 1
        /\ lastScanned \in Nat /\ balances \in [Keys -> Seq(Nat)] /\ k \in Keys
    BY TrackedFacts, BlockFacts DEF AddressInv, TypeOK, PositionInv
  <2>2. n - 1 \in Nat /\ n - 1 <= head
    BY <2>1
  <2>3. \A q \in Operations : k \in OpAt(q).changes => ~(n - 1 < q[1] /\ q[1] <= head)
    BY <2>1, OperationIsInBlock
  <2>4. Version(head, k) = Version(n - 1, k)
    BY <2>1, <2>2, <2>3, VersionUnchanged
  <2>5. Version(head, k) \in Nat
    BY <2>1, VersionFacts
  <2>6. HasBalanceOf(n - 1, k)
    BY <2>4, <2>5 DEF AddressInv, TrackedInv, Recent, Current
  <2>7. PICK j \in DOMAIN balances[k] : balances[k][j] >= Version(head, k)
    BY <2>4, <2>6 DEF HasBalanceOf
  <2>8. balances[k][j] <= Version(head, k) /\ balances[k][j] \in Nat
    BY <2>1 DEF AddressInv, BalanceInv
  <2> QED
    BY <2>5, <2>7, <2>8
<1> QED
  BY <1>1, AddressInvariant, PTL

\* A stored balance the node was asked for is never replaced by an older one,
\* although a rescan applies old operations after later ones: what is written
\* was read after what it replaces, whichever row that is.
THEOREM BalancesOnlyMoveOn == Spec => BalancesNeverGoBack
<1>1. AddressInv /\ [Next]_vars =>
          [\A k \in Keys \ unread' : \A j \in DOMAIN balances[k] :
              j \in DOMAIN balances'[k] /\ balances'[k][j] >= balances[k][j]]_balances
  <2> SUFFICES ASSUME AddressInv, [Next]_vars, balances' # balances,
                      NEW k \in Keys \ unread', NEW j \in DOMAIN balances[k]
               PROVE  j \in DOMAIN balances'[k] /\ balances'[k][j] >= balances[k][j]
    OBVIOUS
  <2>1. SaveOrUpdateAddressBalance
    BY Writers
  <2>2. TypeOK /\ BalanceInv
    BY DEF AddressInv
  <2>3. /\ pc = "write" /\ Key \in Keys
        /\ unread' = IF asked THEN unread \ {Key} ELSE unread \cup {Key}
    BY <2>1, <2>2, WriteFacts
  <2>4. balances[k] \in Seq(Nat) /\ amount \in Nat
    BY <2>2 DEF TypeOK
  <2>5. balances[k][j] \in Nat
    BY <2>4
  <2>6. CASE k = Key
    <3>1. asked
      BY <2>3, <2>6
    <3>2. amount >= balances[k][j]
      BY <2>2, <2>3, <2>6, <3>1 DEF BalanceInv, Reading
    <3>3. /\ j \in DOMAIN balances'[k]
          /\ balances'[k][j] = amount \/ balances'[k][j] = balances[k][j]
      BY <2>1, <2>2, <2>6, WriteFacts
    <3> QED
      BY <2>5, <3>2, <3>3
  <2>7. CASE k # Key
    <3>1. balances'[k] = balances[k]
      BY <2>1, <2>2, <2>7, WriteFacts
    <3> QED
      BY <2>5, <3>1
  <2> QED
    BY <2>6, <2>7
<1> QED
  BY <1>1, AddressInvariant, PTL DEF Spec, BalancesNeverGoBack
=============================================================================
