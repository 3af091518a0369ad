------------------------ MODULE TokenContractsProofs ------------------------
(***************************************************************************)
(* Proofs about TokenContracts, for every chain whose transactions have    *)
(* ids of their own and whose tokens are registered once and before their  *)
(* events, every interval of checkpoints and every set of faults.          *)
(***************************************************************************)
EXTENDS TokenContracts, FiniteSetTheorems, SequenceTheorems, TLAPS

-----------------------------------------------------------------------------
(* The inductive invariant.                                                 *)

\* The scan is in a transaction's operations; its plugins are at one; the invoke
\* plugin is.
OpPcs == {"op", "create", "events", "users"}
PluginPcs == {"create", "events", "users"}
EventPcs == {"events", "users"}

PositionInv ==
    /\ lastScanned <= head
    /\ pc # "down" => lastScanned < n /\ n <= head + 1
    /\ pc \in {"tx"} \cup OpPcs => n <= head /\ x >= 1
    /\ pc \in OpPcs => x <= Len(Chain[n]) /\ i >= 1
    /\ pc \in PluginPcs => i <= Len(Tx.ops)
    /\ pc \in EventPcs => ev >= 1 /\ ev <= Len(Events) + 1

\* Without the receipts it needs the transaction is not seen by the plugins.
\* Between the plugins there is no error; the parties of a transfer are updated
\* once the transfer is recorded.
CallInv ==
    /\ pc \in OpPcs /\ CheckTransactionHasContractOp(Tx) /\ ~got =>
          {Tx.id} \X DOMAIN Tx.ops \subseteq unseen
    /\ pc \notin EventPcs => err = {}
    /\ pc = "users" =>
          /\ ev <= Len(Events) /\ Moves(Event)
          /\ tokens[Event.contract] # <<>> /\ history[OpKey] # <<>>

\* While no find misses a row: one of each key; and a history row holds one of
\* its operation's events.
RowInv == ~RowsMissed =>
    /\ OneRowOfAKnownToken
    /\ \A q \in Operations :
          history[KeyAt(q)] # <<>> => history[KeyAt(q)][1] \in DOMAIN EventsAt(q)

TokenRegistrations == {q \in Registrations : OpAt(q).abi = "token"}

\* What is stored is not ahead of the node; a token with a row is registered, and
\* what the row was inserted with, or was later given, is not behind the
\* registration, unless it is NULL.
VersionInv ==
    /\ \A c \in Contracts : \A r \in DOMAIN tokens[c] :
          tokens[c][r].info <= InfoAt[head][c] /\ tokens[c][r].supply <= SupplyAt[head][c]
    /\ \A k \in BalanceKeys : \A r \in DOMAIN balances[k] :
          balances[k][r] <= BalanceAt[head][k]
    /\ \A q \in TokenRegistrations : LET c == OpAt(q).contract IN
          \A r \in DOMAIN tokens[c] :
              /\ q[1] <= head
              /\ tokens[c][r].info = Unknown \/ tokens[c][r].info >= InfoAt[q[1]][c]
              /\ tokens[c][r].supply = Unknown \/ tokens[c][r].supply >= SupplyAt[q[1]][c]

(***************************************************************************)
(* What an operation, or an event, asks of the tables - the tokens t, the  *)
(* history h and the balances b - but for the work in the set failed.      *)
(***************************************************************************)
CommonGood(t, c, failed) == (\E r \in DOMAIN t[c] : t[c][r].common) \/ <<"info", c>> \in failed
InfoGood(t, c, block, failed) ==
    (\E r \in DOMAIN t[c] : t[c][r].info >= InfoAt[block][c]) \/ <<"info", c>> \in failed
SupplyGood(t, c, block, failed) ==
    (\E r \in DOMAIN t[c] : t[c][r].supply >= SupplyAt[block][c]) \/ <<"supply", c>> \in failed
HistoryGood(h, key, failed) == h[key] # <<>> \/ <<"history", key>> \in failed
BalanceGood(b, k, block, failed) ==
    (\E r \in DOMAIN b[k] : b[k][r] >= BalanceAt[block][k]) \/ <<"balance", k>> \in failed

RegistrationGood(t, q, failed) == LET c == OpAt(q).contract IN
    /\ OpAt(q).abi # "bad"
    /\ OpAt(q).abi = "token" =>
          t[c] # <<>> /\ InfoGood(t, c, q[1], failed) /\ SupplyGood(t, c, q[1], failed)

EventGood(t, h, b, e, failed) == LET c == e[5].contract IN t[c] # <<>> =>
    /\ e[5].name = "Inited" =>
          /\ CommonGood(t, c, failed)
          /\ InfoGood(t, c, e[1], failed) /\ SupplyGood(t, c, e[1], failed)
    /\ e[5].name = "Transfer" =>
          /\ HistoryGood(h, KeyAt(e), failed)
          /\ \A u \in Parties(e[5]) : BalanceGood(b, <<c, u>>, e[1], failed)
          /\ Mints(e[5]) => SupplyGood(t, c, e[1], failed)

LastEventGood(t, h, q) ==
    \/ t[Last(EventsAt(q)).contract] = <<>>
    \/ Moves(Last(EventsAt(q))) /\ h[KeyAt(q)] # <<>>

\* The operation q is behind the scan, or it is the one the plugins are at; the
\* plugins were done with it.
Behind(q) ==
    \/ q[1] <= lastScanned
    \/ pc # "down" /\ q[1] < n
    \/ pc \in {"tx"} \cup OpPcs /\ q[1] = n
          /\ (q[2] < x \/ (q[2] = x /\ pc \in OpPcs /\ q[3] < i))
Here(q) == pc \in PluginPcs /\ q[1] = n /\ q[2] = x /\ q[3] = i
Done(q) == Behind(q) /\ KeyAt(q) \notin unseen

RegisteredInv ==
    /\ \A q \in Registrations : Done(q) => RegistrationGood(tokens, q, hidden)
    /\ pc \in EventPcs => \A q \in Registrations :
          Here(q) /\ KeyAt(q) \notin unseen => RegistrationGood(tokens, q, hidden)

\* A find missed the event's token.
Missed(e) == <<KeyAt(e), e[4]>> \in missed

EventInv ==
    /\ \A e \in Happened : Done(e) /\ ~Missed(e) =>
          EventGood(tokens, history, balances, e, hidden)
    /\ pc \in EventPcs => \A e \in Happened : Here(e) /\ e[4] < ev /\ ~Missed(e) =>
          EventGood(tokens, history, balances, e, hidden \cup err)
    /\ pc = "users" => \A u \in Parties(Event) :
          \/ u \in ToSet(users)
          \/ BalanceGood(balances, BalanceKey(u), n, hidden \cup err)

\* An event with an error leaves the error for the next one, or the end, to find.
LastErrorInv ==
    /\ \A q \in EndingWithAnError : Done(q) /\ <<KeyAt(q), Len(EventsAt(q))>> \notin missed =>
          LastEventGood(tokens, history, q)
    /\ pc = "events" /\ ev > 1 /\ <<OpKey, ev - 1>> \notin missed => LET v == Events[ev - 1] IN tokens[v.contract] # <<>> =>
          /\ v.name = "Unreadable" => err # {}
          /\ Moves(v) /\ ~v.fits => err # {} \/ history[OpKey] # <<>>

TokenInv ==
    /\ TypeOK /\ PositionInv /\ CallInv /\ RowInv /\ VersionInv
    /\ RegisteredInv /\ EventInv /\ LastErrorInv

-----------------------------------------------------------------------------
(* The chain.                                                               *)

LEMMA SequenceFacts ==
    ASSUME NEW s, IsSequence(s)
    PROVE  Len(s) \in Nat /\ DOMAIN s = 1 .. Len(s) /\ (s # <<>> <=> Len(s) > 0)
<1>1. Len(s) \in Nat /\ s = [j \in 1 .. Len(s) |-> s[j]]
  BY DEF IsSequence
<1>2. DOMAIN s = 1 .. Len(s)
  BY <1>1
<1>3. s = <<>> => Len(s) = 0
  OBVIOUS
<1>4. ASSUME Len(s) = 0 PROVE s = <<>>
  <2>1. s = [j \in {} |-> s[j]]
    BY <1>1, <1>4
  <2> QED
    BY <2>1
<1> QED
  BY <1>1, <1>2, <1>3, <1>4

LEMMA ChainFacts ==
    /\ Len(Chain) \in Nat /\ Heights = 1 .. Len(Chain)
    /\ \A b \in Heights : Len(Chain[b]) \in Nat /\ DOMAIN Chain[b] = 1 .. Len(Chain[b])
    /\ \A b \in Heights : \A m \in DOMAIN Chain[b] : IsTransaction(Chain[b][m])
<1>1. IsSequence(Chain)
  BY TransactionsAssumption
<1>2. \A b \in Heights : IsSequence(Chain[b])
  BY TransactionsAssumption
<1> QED
  BY <1>1, <1>2, SequenceFacts, TransactionsAssumption DEF Heights

LEMMA TransactionFacts ==
    ASSUME NEW tx, IsTransaction(tx)
    PROVE  /\ tx.id \in Txids
           /\ Len(tx.ops) \in Nat /\ DOMAIN tx.ops = 1 .. Len(tx.ops) /\ Len(tx.ops) <= MaxOps
           /\ Len(tx.receipts) \in Nat /\ DOMAIN tx.receipts = 1 .. Len(tx.receipts)
           /\ \A j \in DOMAIN tx.ops : <<tx.id, j>> \in OpKeys
<1>1. /\ tx.id \in Txids /\ IsSequence(tx.ops) /\ Len(tx.ops) <= MaxOps
      /\ IsSequence(tx.receipts)
  BY DEF IsTransaction
<1>2. MaxOps \in Nat
  BY ParameterAssumption
<1>3. /\ Len(tx.ops) \in Nat /\ DOMAIN tx.ops = 1 .. Len(tx.ops)
      /\ Len(tx.receipts) \in Nat /\ DOMAIN tx.receipts = 1 .. Len(tx.receipts)
  BY <1>1, SequenceFacts
<1> QED
  BY <1>1, <1>2, <1>3 DEF OpKeys

\* A registration's contract and an account's owner are known.
LEMMA OpFacts ==
    ASSUME NEW tx, IsTransaction(tx), NEW j \in DOMAIN tx.ops
    PROVE  /\ tx.ops[j].kind = "register" => tx.ops[j].contract \in Contracts
           /\ tx.ops[j].kind = "account" => tx.ops[j].owner \in Users
  BY DEF IsTransaction

\* The events of an operation; those of a transaction without a contract
\* operation are none.
LEMMA EventsFacts ==
    ASSUME NEW tx, IsTransaction(tx), NEW j \in Nat \ {0}
    PROVE  /\ Len(EventsOf(tx, j)) \in Nat
           /\ DOMAIN EventsOf(tx, j) = 1 .. Len(EventsOf(tx, j))
           /\ \A v \in DOMAIN EventsOf(tx, j) : IsEvent(EventsOf(tx, j)[v])
           /\ EventsOf(tx, j) # <<>> => Succeeded(tx, j)
           /\ EventsOf(tx, j) # <<>> <=> Len(EventsOf(tx, j)) > 0
           /\ Succeeded(tx, j) => tx.receipts # <<>>
<1>1. /\ Len(tx.receipts) \in Nat /\ DOMAIN tx.receipts = 1 .. Len(tx.receipts)
  BY TransactionFacts
<1>2. CASE Succeeded(tx, j)
  <2>1. j <= Len(tx.receipts) /\ ReceiptAt(tx, j) = <<tx.receipts[j]>>
    BY <1>2 DEF Succeeded, ReceiptAt
  <2>2. j \in DOMAIN tx.receipts
    BY <1>1, <2>1
  <2>3. EventsOf(tx, j) = tx.receipts[j].events
    BY <1>2, <2>1 DEF EventsOf
  <2>4. IsSequence(tx.receipts[j].events)
        /\ \A v \in DOMAIN tx.receipts[j].events : IsEvent(tx.receipts[j].events[v])
    BY <2>2 DEF IsTransaction
  <2>5. tx.receipts # <<>>
    BY <1>1, <2>2
  <2> QED
    BY <1>2, <2>3, <2>4, <2>5, SequenceFacts
<1>3. CASE ~Succeeded(tx, j)
  BY <1>3 DEF EventsOf
<1> QED
  BY <1>2, <1>3

LEMMA OperationFacts ==
    /\ \A b \in Heights : \A m \in DOMAIN Chain[b] : \A j \in DOMAIN Chain[b][m].ops :
          <<b, m, j>> \in Operations
    /\ \A q \in Operations :
          /\ q = <<q[1], q[2], q[3]>>
          /\ q[1] \in Heights /\ q[2] \in DOMAIN Chain[q[1]]
          /\ q[3] \in DOMAIN Chain[q[1]][q[2]].ops
          /\ q[1] \in Nat \ {0} /\ q[2] \in Nat \ {0} /\ q[3] \in Nat \ {0}
          /\ IsTransaction(Chain[q[1]][q[2]])
          /\ KeyAt(q) \in OpKeys
<1>1. \A b \in Heights : \A m \in DOMAIN Chain[b] : \A j \in DOMAIN Chain[b][m].ops :
          <<b, m, j>> \in Operations
  BY DEF Operations
<1>2. ASSUME NEW q \in Operations
      PROVE  /\ q = <<q[1], q[2], q[3]>>
             /\ q[1] \in Heights /\ q[2] \in DOMAIN Chain[q[1]]
             /\ q[3] \in DOMAIN Chain[q[1]][q[2]].ops
             /\ q[1] \in Nat \ {0} /\ q[2] \in Nat \ {0} /\ q[3] \in Nat \ {0}
             /\ IsTransaction(Chain[q[1]][q[2]])
             /\ KeyAt(q) \in OpKeys
  <2>1. PICK b \in Heights : \E m \in DOMAIN Chain[b] : \E j \in DOMAIN Chain[b][m].ops :
            q = <<b, m, j>>
    BY DEF Operations
  <2>2. PICK m \in DOMAIN Chain[b] : \E j \in DOMAIN Chain[b][m].ops : q = <<b, m, j>>
    BY <2>1
  <2>3. PICK j \in DOMAIN Chain[b][m].ops : q = <<b, m, j>>
    BY <2>2
  <2>4. q[1] = b /\ q[2] = m /\ q[3] = j
    BY <2>3
  <2>5. IsTransaction(Chain[b][m]) /\ b \in Nat \ {0} /\ m \in Nat \ {0}
    BY ChainFacts
  <2>6. j \in Nat \ {0} /\ <<Chain[b][m].id, j>> \in OpKeys
    BY <2>5, TransactionFacts
  <2> QED
    BY <2>3, <2>4, <2>5, <2>6 DEF KeyAt
<1> QED
  BY <1>1, <1>2

LEMMA HappenedFacts ==
    /\ \A b \in Heights : \A m \in DOMAIN Chain[b] : \A j \in DOMAIN Chain[b][m].ops :
          \A v \in DOMAIN EventsOf(Chain[b][m], j) :
              <<b, m, j, v, EventsOf(Chain[b][m], j)[v]>> \in Happened
    /\ \A e \in Happened :
          /\ <<e[1], e[2], e[3]>> \in Operations
          /\ e[4] \in DOMAIN EventsAt(e) /\ e[4] \in Nat \ {0} /\ e[5] = EventsAt(e)[e[4]]
          /\ IsEvent(e[5]) /\ e[5].contract \in Contracts
<1>1. \A b \in Heights : \A m \in DOMAIN Chain[b] : \A j \in DOMAIN Chain[b][m].ops :
          \A v \in DOMAIN EventsOf(Chain[b][m], j) :
              <<b, m, j, v, EventsOf(Chain[b][m], j)[v]>> \in Happened
  BY DEF Happened
<1>2. ASSUME NEW e \in Happened
      PROVE  /\ <<e[1], e[2], e[3]>> \in Operations
             /\ e[4] \in DOMAIN EventsAt(e) /\ e[4] \in Nat \ {0} /\ e[5] = EventsAt(e)[e[4]]
             /\ IsEvent(e[5]) /\ e[5].contract \in Contracts
  <2>1. PICK b \in Heights : \E m \in DOMAIN Chain[b] : \E j \in DOMAIN Chain[b][m].ops :
            \E v \in DOMAIN EventsOf(Chain[b][m], j) :
                e = <<b, m, j, v, EventsOf(Chain[b][m], j)[v]>>
    BY DEF Happened
  <2>2. PICK m \in DOMAIN Chain[b] : \E j \in DOMAIN Chain[b][m].ops :
            \E v \in DOMAIN EventsOf(Chain[b][m], j) :
                e = <<b, m, j, v, EventsOf(Chain[b][m], j)[v]>>
    BY <2>1
  <2>3. PICK j \in DOMAIN Chain[b][m].ops : \E v \in DOMAIN EventsOf(Chain[b][m], j) :
            e = <<b, m, j, v, EventsOf(Chain[b][m], j)[v]>>
    BY <2>2
  <2>4. PICK v \in DOMAIN EventsOf(Chain[b][m], j) :
            e = <<b, m, j, v, EventsOf(Chain[b][m], j)[v]>>
    BY <2>3
  <2>5. /\ e[1] = b /\ e[2] = m /\ e[3] = j /\ e[4] = v
        /\ e[5] = EventsOf(Chain[b][m], j)[v]
    BY <2>4
  <2>6. <<b, m, j>> \in Operations /\ IsTransaction(Chain[b][m])
    BY ChainFacts, OperationFacts
  <2>7. j \in Nat \ {0}
    BY <2>6, TransactionFacts
  <2>8. v \in Nat \ {0} /\ IsEvent(EventsOf(Chain[b][m], j)[v])
    BY <2>6, <2>7, EventsFacts
  <2> QED
    BY <2>5, <2>6, <2>8 DEF EventsAt, IsEvent
<1> QED
  BY <1>1, <1>2

\* An event of the chain is made of its place and what is there.
LEMMA EventShape ==
    \A e \in Happened : e = <<e[1], e[2], e[3], e[4], e[5]>>
  BY DEF Happened

\* A finite family of finite sets.
LEMMA FiniteUnion ==
    ASSUME NEW S, IsFiniteSet(S), NEW F, F = [e \in S |-> F[e]],
           \A e \in S : IsFiniteSet(F[e])
    PROVE  IsFiniteSet(UNION {F[e] : e \in S})
<1> DEFINE Parts == {F[e] : e \in S}
<1>1. F \in Surjection(S, Parts)
  BY DEF Surjection
<1>2. IsFiniteSet(Parts)
  BY <1>1, FS_Surjection
<1> QED
  BY <1>2, FS_UNION

LEMMA HappenedFinite == IsFiniteSet(Happened)
<1> DEFINE At(h, m, j) == {<<h, m, j, v, EventsOf(Chain[h][m], j)[v]>>
                               : v \in DOMAIN EventsOf(Chain[h][m], j)}
           Of(h, m) == UNION {At(h, m, j) : j \in DOMAIN Chain[h][m].ops}
           In(h) == UNION {Of(h, m) : m \in DOMAIN Chain[h]}
<1>1. ASSUME NEW h \in Heights, NEW m \in DOMAIN Chain[h], NEW j \in DOMAIN Chain[h][m].ops
      PROVE  IsFiniteSet(At(h, m, j))
  <2> DEFINE events == EventsOf(Chain[h][m], j)
             F == [v \in DOMAIN events |-> {<<h, m, j, v, events[v]>>}]
  <2>1. Len(events) \in Nat /\ DOMAIN events = 1 .. Len(events)
    BY ChainFacts, TransactionFacts, EventsFacts
  <2>2. IsFiniteSet(DOMAIN events)
    BY <2>1, FS_Interval
  <2>3. \A v \in DOMAIN events : IsFiniteSet(F[v])
    BY FS_Singleton
  <2>4. UNION {F[v] : v \in DOMAIN events} = At(h, m, j)
    OBVIOUS
  <2>5. F = [v \in DOMAIN events |-> F[v]]
    OBVIOUS
  <2> HIDE DEF F, events
  <2> QED
    BY <2>2, <2>3, <2>4, <2>5, FiniteUnion
<1> HIDE DEF At
<1>2. ASSUME NEW h \in Heights, NEW m \in DOMAIN Chain[h]
      PROVE  IsFiniteSet(Of(h, m))
  <2> DEFINE F == [j \in DOMAIN Chain[h][m].ops |-> At(h, m, j)]
  <2>1. IsFiniteSet(DOMAIN Chain[h][m].ops)
    <3>1. Len(Chain[h][m].ops) \in Nat /\ DOMAIN Chain[h][m].ops = 1 .. Len(Chain[h][m].ops)
      BY ChainFacts, TransactionFacts
    <3> QED
      BY <3>1, FS_Interval
  <2>2. \A j \in DOMAIN Chain[h][m].ops : IsFiniteSet(F[j])
    BY <1>1
  <2>3. F = [j \in DOMAIN Chain[h][m].ops |-> F[j]]
    OBVIOUS
  <2>4. UNION {F[j] : j \in DOMAIN Chain[h][m].ops} = Of(h, m)
    OBVIOUS
  <2> HIDE DEF F, Of
  <2> QED
    BY <2>1, <2>2, <2>3, <2>4, FiniteUnion
<1> HIDE DEF Of
<1>3. ASSUME NEW h \in Heights
      PROVE  IsFiniteSet(In(h))
  <2> DEFINE F == [m \in DOMAIN Chain[h] |-> Of(h, m)]
  <2>1. IsFiniteSet(DOMAIN Chain[h])
    <3>1. Len(Chain[h]) \in Nat /\ DOMAIN Chain[h] = 1 .. Len(Chain[h])
      BY ChainFacts
    <3> QED
      BY <3>1, FS_Interval
  <2>2. \A m \in DOMAIN Chain[h] : IsFiniteSet(F[m])
    BY <1>2
  <2>3. F = [m \in DOMAIN Chain[h] |-> F[m]]
    OBVIOUS
  <2>4. UNION {F[m] : m \in DOMAIN Chain[h]} = In(h)
    OBVIOUS
  <2> HIDE DEF F, In
  <2> QED
    BY <2>1, <2>2, <2>3, <2>4, FiniteUnion
<1>4. Happened = UNION {In(h) : h \in Heights}
  BY DEF Happened, At, Of
<1> HIDE DEF In
<1> DEFINE F == [h \in Heights |-> In(h)]
<1>5. IsFiniteSet(Heights)
  BY ChainFacts, FS_Interval
<1>6. \A h \in Heights : IsFiniteSet(F[h])
  BY <1>3
<1>7. F = [h \in Heights |-> F[h]]
  OBVIOUS
<1>8. UNION {F[h] : h \in Heights} = Happened
  BY <1>4
<1> HIDE DEF F
<1> QED
  BY <1>5, <1>6, <1>7, <1>8, FiniteUnion

\* The events up to a block are finitely many, and the more the later the block.
LEMMA Counting ==
    ASSUME NEW A \in SUBSET Happened, NEW B \in SUBSET A
    PROVE  /\ Cardinality(A) \in Nat /\ Cardinality(B) \in Nat
           /\ Cardinality(B) <= Cardinality(A)
<1>1. IsFiniteSet(A)
  BY HappenedFinite, FS_Subset
<1>2. IsFiniteSet(B) /\ Cardinality(B) <= Cardinality(A)
  BY <1>1, FS_Subset
<1> QED
  BY <1>1, <1>2, FS_CardinalityType

\* Versions are numbers and only grow.
LEMMA VersionFacts ==
    ASSUME NEW a \in 0 .. Len(Chain), NEW b \in 0 .. Len(Chain), a <= b
    PROVE  /\ \A c \in Contracts :
                 /\ InfoAt[a][c] \in Nat /\ InfoAt[b][c] \in Nat /\ InfoAt[a][c] <= InfoAt[b][c]
                 /\ SupplyAt[a][c] \in Nat /\ SupplyAt[b][c] \in Nat
                 /\ SupplyAt[a][c] <= SupplyAt[b][c]
           /\ \A k \in BalanceKeys :
                 /\ BalanceAt[a][k] \in Nat /\ BalanceAt[b][k] \in Nat
                 /\ BalanceAt[a][k] <= BalanceAt[b][k]
<1>1. /\ a \in Int /\ b \in Int
      /\ \A e \in Happened : e[1] \in Int
  <2>1. a \in Int /\ b \in Int
    BY ChainFacts
  <2>2. ASSUME NEW e \in Happened PROVE e[1] \in Int
    <3> DEFINE q == <<e[1], e[2], e[3]>>
    <3>1. q \in Operations /\ q[1] = e[1]
      BY HappenedFacts
    <3>2. q[1] \in Nat
      BY <3>1, OperationFacts
    <3> QED
      BY <3>1, <3>2
  <2> QED
    BY <2>1, <2>2
<1>2. ASSUME NEW c \in Contracts
      PROVE  /\ InfoAt[a][c] \in Nat /\ InfoAt[b][c] \in Nat /\ InfoAt[a][c] <= InfoAt[b][c]
             /\ SupplyAt[a][c] \in Nat /\ SupplyAt[b][c] \in Nat
             /\ SupplyAt[a][c] <= SupplyAt[b][c]
  <2> DEFINE Info(h) == {q \in Happened : q[1] <= h /\ q[5].contract = c /\ q[5].name = "Inited"}
             Supply(h) == {q \in Happened : q[1] <= h /\ q[5].contract = c /\ Mints(q[5])}
  <2>1. \A h \in 0 .. Len(Chain) : /\ InfoAt[h][c] = Cardinality(Info(h))
                                   /\ SupplyAt[h][c] = InfoAt[h][c] + Cardinality(Supply(h))
    BY DEF InfoAt, SupplyAt
  <2>2. Info(a) \subseteq Info(b) /\ Info(b) \subseteq Happened
    BY <1>1
  <2>3. Supply(a) \subseteq Supply(b) /\ Supply(b) \subseteq Happened
    BY <1>1
  <2> HIDE DEF Info, Supply
  <2>4. /\ Cardinality(Info(a)) \in Nat /\ Cardinality(Info(b)) \in Nat
        /\ Cardinality(Info(a)) <= Cardinality(Info(b))
    BY <2>2, Counting
  <2>5. /\ Cardinality(Supply(a)) \in Nat /\ Cardinality(Supply(b)) \in Nat
        /\ Cardinality(Supply(a)) <= Cardinality(Supply(b))
    BY <2>3, Counting
  <2> QED
    BY <2>1, <2>4, <2>5
<1>3. ASSUME NEW k \in BalanceKeys
      PROVE  /\ BalanceAt[a][k] \in Nat /\ BalanceAt[b][k] \in Nat
             /\ BalanceAt[a][k] <= BalanceAt[b][k]
  <2> DEFINE Moved(h) == {q \in Happened : q[1] <= h /\ q[5].contract = k[1] /\ Moves(q[5])
                                              /\ k[2] \in Parties(q[5])}
  <2>1. \A h \in 0 .. Len(Chain) : BalanceAt[h][k] = Cardinality(Moved(h))
    BY DEF BalanceAt
  <2>2. Moved(a) \subseteq Moved(b) /\ Moved(b) \subseteq Happened
    BY <1>1
  <2> HIDE DEF Moved
  <2> QED
    BY <2>1, <2>2, Counting
<1> QED
  BY <1>2, <1>3

-----------------------------------------------------------------------------
(* Where the scan is.                                                       *)

\* The block, transaction and operation the scan is at.
LEMMA HereFacts ==
    ASSUME TypeOK, PositionInv
    PROVE  /\ n \in Nat /\ x \in Nat /\ i \in Nat /\ ev \in Nat /\ lastScanned \in Nat
           /\ head \in 0 .. Len(Chain) /\ head \in Nat /\ lastScanned <= head
           /\ pc # "down" => lastScanned < n /\ n <= head + 1
           /\ pc \in {"tx"} \cup OpPcs =>
                 n \in Heights /\ n \in 0 .. Len(Chain) /\ n <= head /\ x >= 1
           /\ pc \in OpPcs => x \in DOMAIN Chain[n] /\ IsTransaction(Tx) /\ i >= 1
           /\ pc \in PluginPcs => i \in DOMAIN Tx.ops /\ <<n, x, i>> \in Operations
           /\ pc \in EventPcs => ev >= 1 /\ ev <= Len(Events) + 1
<1>1. /\ n \in Nat /\ x \in Nat /\ i \in Nat /\ ev \in Nat /\ lastScanned \in Nat
      /\ head \in 0 .. Len(Chain) /\ head \in Nat /\ lastScanned <= head
      /\ pc # "down" => lastScanned < n /\ n <= head + 1
      /\ pc \in {"tx"} \cup OpPcs => n <= head /\ x >= 1
      /\ pc \in OpPcs => x <= Len(Chain[n]) /\ i >= 1
      /\ pc \in PluginPcs => i <= Len(Tx.ops)
      /\ pc \in EventPcs => ev >= 1 /\ ev <= Len(Events) + 1
  BY ChainFacts DEF TypeOK, PositionInv
<1>2. OpPcs \subseteq {"tx"} \cup OpPcs /\ PluginPcs \subseteq OpPcs
      /\ \A p \in {"tx"} \cup OpPcs : p # "down"
  BY DEF OpPcs, PluginPcs
<1>3. pc \in {"tx"} \cup OpPcs => n \in Heights /\ n \in 0 .. Len(Chain)
  BY <1>1, <1>2, ChainFacts
<1>4. pc \in OpPcs => x \in DOMAIN Chain[n] /\ IsTransaction(Tx)
  BY <1>1, <1>2, <1>3, ChainFacts DEF Tx
<1>5. pc \in PluginPcs => i \in DOMAIN Tx.ops
  BY <1>1, <1>2, <1>4, TransactionFacts
<1>6. pc \in PluginPcs => <<n, x, i>> \in Operations
  BY <1>2, <1>3, <1>4, <1>5, OperationFacts DEF Tx
<1> QED
  BY <1>1, <1>3, <1>4, <1>5, <1>6

\* The operation the plugins are at.
LEMMA PluginFacts ==
    ASSUME TypeOK, PositionInv, pc \in PluginPcs
    PROVE  /\ OpKey \in OpKeys /\ OpKey = KeyAt(<<n, x, i>>) /\ Op = OpAt(<<n, x, i>>)
           /\ Op.kind = "register" => Op.contract \in Contracts
           /\ Op.kind = "account" => Op.owner \in Users
           /\ Len(Events) \in Nat /\ DOMAIN Events = 1 .. Len(Events)
           /\ \A v \in DOMAIN Events : IsEvent(Events[v]) /\ Events[v].contract \in Contracts
           /\ Events # <<>> => got /\ Events = EventsAt(<<n, x, i>>)
<1>1. /\ i \in DOMAIN Tx.ops /\ IsTransaction(Tx) /\ <<n, x, i>> \in Operations
      /\ i \in Nat \ {0}
  <2>1. pc \in OpPcs
    BY DEF OpPcs, PluginPcs
  <2> QED
    BY <2>1, HereFacts
<1>2. OpKey = KeyAt(<<n, x, i>>) /\ Op = OpAt(<<n, x, i>>)
  BY DEF OpKey, KeyAt, Op, OpAt, Tx
<1>3. OpKey \in OpKeys
  BY <1>1, <1>2, OperationFacts
<1>4. /\ Op.kind = "register" => Op.contract \in Contracts
      /\ Op.kind = "account" => Op.owner \in Users
  BY <1>1, OpFacts DEF Op
<1>5. Events # <<>> => got /\ Events = EventsAt(<<n, x, i>>)
  BY DEF Events, EventsAt, Tx
<1>6. /\ Len(Events) \in Nat /\ DOMAIN Events = 1 .. Len(Events)
      /\ \A v \in DOMAIN Events : IsEvent(Events[v])
  <2>1. CASE got
    <3>1. Events = EventsOf(Tx, i)
      BY <2>1 DEF Events
    <3> QED
      BY <1>1, <3>1, EventsFacts
  <2>2. CASE ~got
    BY <2>2 DEF Events
  <2> QED
    BY <2>1, <2>2
<1>7. \A v \in DOMAIN Events : Events[v].contract \in Contracts
  BY <1>6 DEF IsEvent
<1> QED
  BY <1>2, <1>3, <1>4, <1>5, <1>6, <1>7

\* The event the invoke plugin is at.
LEMMA EventFacts ==
    ASSUME TypeOK, PositionInv, pc \in EventPcs, ev <= Len(Events)
    PROVE  /\ ev \in DOMAIN Events /\ IsEvent(Event) /\ Event.contract \in Contracts
           /\ \A u \in Parties(Event) : u \in Users /\ BalanceKey(u) \in BalanceKeys
           /\ got /\ Event = EventsAt(<<n, x, i>>)[ev] /\ ev \in DOMAIN EventsAt(<<n, x, i>>)
           /\ <<n, x, i, ev, Event>> \in Happened
<1>1. pc \in PluginPcs /\ pc \in OpPcs
  BY DEF PluginPcs, EventPcs, OpPcs
<1>2. ev \in Nat /\ ev >= 1
  BY HereFacts
<1>3. ev \in DOMAIN Events
  BY <1>1, <1>2, PluginFacts
<1>4. Events # <<>>
  BY <1>3
<1>5. /\ IsEvent(Event) /\ Event.contract \in Contracts
      /\ got /\ Events = EventsAt(<<n, x, i>>)
  BY <1>1, <1>3, <1>4, PluginFacts DEF Event
<1>6. \A u \in Parties(Event) : u \in Users /\ BalanceKey(u) \in BalanceKeys
  BY <1>5 DEF Parties, IsEvent, BalanceKey, BalanceKeys
<1>7. <<n, x, i, ev, Event>> \in Happened
  <2>1. n \in Heights /\ x \in DOMAIN Chain[n] /\ i \in DOMAIN Chain[n][x].ops
    BY <1>1, HereFacts DEF Tx
  <2>2. ev \in DOMAIN EventsOf(Chain[n][x], i) /\ Event = EventsOf(Chain[n][x], i)[ev]
    BY <1>3, <1>5 DEF EventsAt, Event
  <2> QED
    BY <2>1, <2>2, HappenedFacts
<1> QED
  BY <1>3, <1>5, <1>6, <1>7 DEF Event

-----------------------------------------------------------------------------
(* The steps, by what they write.                                           *)

LEMMA TokensWritten ==
    [Next]_vars =>
        \/ UNCHANGED tokens
        \/ pc = "create" /\ IsTokenRegistration /\ tokens' \in TokenFoundOrInserted
              /\ head' = head
        \/ AtTokenEvent("Inited") /\ tokens' \in InitedTables /\ head' = head
        \/ pc = "users" /\ users = <<>> /\ Mints(Event) /\ tokens' \in SupplyUpdated
              /\ head' = head
<1>1. Inited => AtTokenEvent("Inited") /\ tokens' \in InitedTables /\ head' = head
  BY DEF Inited, InitedTables, atEvent, rest
<1> QED
  BY <1>1
     DEF Next, ScanStep, vars, loopVars, eventVars, tables, observers, rest, atEvent,
         Start, ProcessEnds, NodeProducesBlock, GetBlock, UpdateLastScannedAtHead,
         GetTxReceipts, AbandonBlock, AbandonTransaction, TransactionDone, FinishBlock,
         RegisterAccount, RegisterAccountFails, NotATokenRegistration,
         RegistrationUndecodable, SaveTokenContract, SaveTokenContractFails,
         IsTokenContractFails, SkipEvent, TokenMissed, InitedFails, UnreadableTransfer,
         RecordTransfer, RecordTransferFails, UpdateTokenBalance, BalanceUnanswered,
         UpdateTokenBalanceFails, TransferDone, UpdateTotalSupply, SupplyUnanswered,
         UpdateTotalSupplyFails, PluginsDone, PluginsFail, Dies

LEMMA BalancesWritten ==
    [Next]_vars =>
        \/ UNCHANGED balances
        \/ pc = "users" /\ users # <<>> /\ UNCHANGED <<head, tokens>>
              /\ balances' \in BalanceUpdatedOrInserted
  BY DEF Next, ScanStep, vars, loopVars, eventVars, tables, observers, rest, atEvent,
         Start, ProcessEnds, NodeProducesBlock, GetBlock, UpdateLastScannedAtHead,
         GetTxReceipts, AbandonBlock, AbandonTransaction, TransactionDone, FinishBlock,
         RegisterAccount, RegisterAccountFails, NotATokenRegistration,
         RegistrationUndecodable, SaveTokenContract, SaveTokenContractFails,
         IsTokenContractFails, SkipEvent, TokenMissed, Inited, InitedFails, UnreadableTransfer,
         RecordTransfer, RecordTransferFails, UpdateTokenBalance, BalanceUnanswered,
         UpdateTokenBalanceFails, TransferDone, UpdateTotalSupply, SupplyUnanswered,
         UpdateTotalSupplyFails, PluginsDone, PluginsFail, Dies

LEMMA HistoryWritten ==
    [Next]_vars =>
        \/ UNCHANGED history
        \/ AtTokenEvent("Transfer") /\ UNCHANGED tokens
              /\ history' \in HistoryFoundOrSaved
  BY DEF Next, ScanStep, vars, loopVars, eventVars, tables, observers, rest, atEvent,
         Start, ProcessEnds, NodeProducesBlock, GetBlock, UpdateLastScannedAtHead,
         GetTxReceipts, AbandonBlock, AbandonTransaction, TransactionDone, FinishBlock,
         RegisterAccount, RegisterAccountFails, NotATokenRegistration,
         RegistrationUndecodable, SaveTokenContract, SaveTokenContractFails,
         IsTokenContractFails, SkipEvent, TokenMissed, Inited, InitedFails, UnreadableTransfer,
         RecordTransfer, RecordTransferFails, UpdateTokenBalance, BalanceUnanswered,
         UpdateTokenBalanceFails, TransferDone, UpdateTotalSupply, SupplyUnanswered,
         UpdateTotalSupplyFails, PluginsDone, PluginsFail, Dies

LEMMA AccountsWritten ==
    [Next]_vars =>
        \/ UNCHANGED accounts
        \/ pc = "op" /\ i <= Len(Tx.ops) /\ Op.kind = "account"
              /\ accounts' \in AccountFoundOrInserted
  BY DEF Next, ScanStep, vars, loopVars, eventVars, tables, observers, rest, atEvent,
         Start, ProcessEnds, NodeProducesBlock, GetBlock, UpdateLastScannedAtHead,
         GetTxReceipts, AbandonBlock, AbandonTransaction, TransactionDone, FinishBlock,
         RegisterAccount, RegisterAccountFails, NotATokenRegistration,
         RegistrationUndecodable, SaveTokenContract, SaveTokenContractFails,
         IsTokenContractFails, SkipEvent, TokenMissed, Inited, InitedFails, UnreadableTransfer,
         RecordTransfer, RecordTransferFails, UpdateTokenBalance, BalanceUnanswered,
         UpdateTokenBalanceFails, TransferDone, UpdateTotalSupply, SupplyUnanswered,
         UpdateTotalSupplyFails, PluginsDone, PluginsFail, Dies

\* What has failed is either in err, hidden, or forgotten with the process.
LEMMA FailedWritten ==
    [Next]_vars =>
        \/ UNCHANGED <<err, hidden>>
        \/ err' = {} /\ UNCHANGED hidden /\ pc' = "down"
        \/ pc \in EventPcs /\ hidden' = hidden \cup err /\ (err = {} \/ pc' # "down")
              /\ \/ err' = {}
                 \/ pc = "events" /\ err' = {<<"history", OpKey>>}
                 \/ AtTokenEvent("Transfer") /\ err' = TransferWork
                 \/ pc = "users" /\ users # <<>> /\ err' = {<<"balance", BKey>>}
                 \/ pc = "users" /\ users = <<>> /\ err' = {<<"supply", Event.contract>>}
        \/ SaveTokenContract \/ Inited \/ InitedFails
        \/ RecordTransfer \/ UpdateTokenBalance \/ UpdateTotalSupply
  BY DEF Next, ScanStep, vars, loopVars, eventVars, tables, observers, rest, atEvent,
         Start, ProcessEnds, NodeProducesBlock, GetBlock, UpdateLastScannedAtHead,
         GetTxReceipts, AbandonBlock, AbandonTransaction, TransactionDone, FinishBlock,
         RegisterAccount, RegisterAccountFails, NotATokenRegistration,
         RegistrationUndecodable, SaveTokenContract, SaveTokenContractFails,
         IsTokenContractFails, SkipEvent, TokenMissed, Inited, InitedFails, UnreadableTransfer,
         RecordTransfer, RecordTransferFails, UpdateTokenBalance, BalanceUnanswered,
         UpdateTokenBalanceFails, TransferDone, UpdateTotalSupply, SupplyUnanswered,
         UpdateTotalSupplyFails, PluginsDone, PluginsFail, Dies, SetErr, SetErrDone, EventPcs, AtTokenEvent, AtEvent

\* The head and the starts.
LEMMA HeadWritten ==
    [Next]_vars =>
        \/ UNCHANGED <<head, starts>>
        \/ head < Len(Chain) /\ head' = head + 1 /\ UNCHANGED <<starts, loopVars, eventVars>>
        \/ pc = "down" /\ starts < MaxStarts /\ starts' = starts + 1 /\ head' = head
  BY DEF Next, ScanStep, vars, loopVars, eventVars, tables, observers, rest, atEvent,
         Start, ProcessEnds, NodeProducesBlock, GetBlock, UpdateLastScannedAtHead,
         GetTxReceipts, AbandonBlock, AbandonTransaction, TransactionDone, FinishBlock,
         RegisterAccount, RegisterAccountFails, NotATokenRegistration,
         RegistrationUndecodable, SaveTokenContract, SaveTokenContractFails,
         IsTokenContractFails, SkipEvent, TokenMissed, Inited, InitedFails, UnreadableTransfer,
         RecordTransfer, RecordTransferFails, UpdateTokenBalance, BalanceUnanswered,
         UpdateTokenBalanceFails, TransferDone, UpdateTotalSupply, SupplyUnanswered,
         UpdateTotalSupplyFails, PluginsDone, PluginsFail, Dies

\* An event that a find passed over is never forgotten.
LEMMA MissedWritten ==
    [Next]_vars => UNCHANGED missed \/ TokenMissed
  BY DEF Next, ScanStep, vars, loopVars, eventVars, tables, observers, rest, atEvent,
         Start, ProcessEnds, NodeProducesBlock, GetBlock, UpdateLastScannedAtHead,
         GetTxReceipts, AbandonBlock, AbandonTransaction, TransactionDone, FinishBlock,
         RegisterAccount, RegisterAccountFails, NotATokenRegistration,
         RegistrationUndecodable, SaveTokenContract, SaveTokenContractFails,
         IsTokenContractFails, SkipEvent, TokenMissed, Inited, InitedFails, UnreadableTransfer,
         RecordTransfer, RecordTransferFails, UpdateTokenBalance, BalanceUnanswered,
         UpdateTokenBalanceFails, TransferDone, UpdateTotalSupply, SupplyUnanswered,
         UpdateTotalSupplyFails, PluginsDone, PluginsFail, Dies

-----------------------------------------------------------------------------
(* What a step may do to the tables.                                        *)

\* Table, Changed and Number stand for what they are defined as, so that the provers
\* take a table as one thing and not as the facts about its rows.
Table(S, R) == [S -> Seq(R)]
Changed(table, k, r, row) == [table EXCEPT ![k][r] = row]
Number == Nat
TokenRow == [common : BOOLEAN, info : Int, supply : Int]

LEMMA TypesOfTables ==
    ASSUME TypeOK
    PROVE  /\ tokens \in Table(Contracts, TokenRow) /\ balances \in Table(BalanceKeys, Number)
           /\ history \in Table(OpKeys, Number) /\ accounts \in Table(Users, Names)
  BY DEF TypeOK, Table, Number, TokenRow

LEMMA SeqFacts ==
    ASSUME NEW R, NEW rows \in Seq(R)
    PROVE  /\ Len(rows) \in Nat /\ DOMAIN rows = 1 .. Len(rows)
           /\ \A r \in DOMAIN rows : rows[r] \in R
           /\ rows # <<>> <=> 1 \in DOMAIN rows
           /\ rows # <<>> <=> Len(rows) >= 1
<1>1. Len(rows) \in Nat /\ DOMAIN rows = 1 .. Len(rows)
      /\ \A r \in DOMAIN rows : rows[r] \in R
  BY LenProperties, ElementOfSeq
<1>2. rows # <<>> => Len(rows) \in Nat \ {0}
  BY EmptySeq
<1>3. rows = <<>> => Len(rows) = 0
  BY EmptySeq
<1> QED
  BY <1>1, <1>2, <1>3

\* A row changed in place.
LEMMA RowChanged ==
    ASSUME NEW S, NEW R, NEW table \in Table(S, R), NEW k \in S, NEW r \in DOMAIN table[k],
           NEW row \in R, NEW after, after = Changed(table, k, r, row)
    PROVE  /\ after \in Table(S, R)
           /\ Len(after[k]) = Len(table[k]) /\ DOMAIN after[k] = DOMAIN table[k]
           /\ after[k] # <<>> /\ after[k][r] = row
           /\ \A j \in DOMAIN table[k] : j # r => after[k][j] = table[k][j]
           /\ \A m \in S : m # k => after[m] = table[m]
<1>1. table[k] \in Seq(R) /\ Len(table[k]) \in Nat /\ DOMAIN table[k] = 1 .. Len(table[k])
  BY SeqFacts DEF Table
<1> DEFINE changed == [table[k] EXCEPT ![r] = row]
<1>2. /\ changed \in Seq(R) /\ Len(changed) = Len(table[k])
      /\ \A j \in 1 .. Len(table[k]) : changed[j] = IF j = r THEN row ELSE table[k][j]
  BY <1>1, ExceptSeq
<1>3. after = [table EXCEPT ![k] = changed]
  BY DEF Changed
<1> HIDE DEF changed
<1>4. /\ after \in Table(S, R) /\ after[k] = changed
      /\ \A m \in S : m # k => after[m] = table[m]
  BY <1>2, <1>3 DEF Table
<1>5. DOMAIN changed = DOMAIN table[k] /\ changed # <<>>
  BY <1>1, <1>2, SeqFacts
<1>6. changed[r] = row /\ \A j \in DOMAIN table[k] : j # r => changed[j] = table[k][j]
  BY <1>1, <1>2
<1> QED
  BY <1>2, <1>4, <1>5, <1>6

LEMMA AppendFacts ==
    ASSUME NEW R, NEW rows \in Seq(R), NEW row \in R
    PROVE  /\ Append(rows, row) \in Seq(R)
           /\ Len(Append(rows, row)) = Len(rows) + 1
           /\ DOMAIN Append(rows, row) = 1 .. Len(rows) + 1
           /\ \A j \in 1 .. Len(rows) : Append(rows, row)[j] = rows[j]
           /\ Append(rows, row)[Len(rows) + 1] = row
           /\ Append(rows, row) # <<>>
<1>1. /\ Append(rows, row) \in Seq(R) /\ Len(Append(rows, row)) = Len(rows) + 1
      /\ \A j \in 1 .. Len(rows) : Append(rows, row)[j] = rows[j]
      /\ Append(rows, row)[Len(rows) + 1] = row
  OBVIOUS
<1>2. Len(rows) \in Nat
  BY SeqFacts
<1> QED
  BY <1>1, <1>2, SeqFacts

\* A row added behind the others.
LEMMA RowInserted ==
    ASSUME NEW S, NEW R, NEW table \in Table(S, R), NEW k \in S, NEW row \in R,
           NEW after, after = Inserted(table, k, row)
    PROVE  /\ after \in Table(S, R)
           /\ Len(after[k]) = Len(table[k]) + 1 /\ after[k] # <<>>
           /\ after[k] = Append(table[k], row)
           /\ \A j \in DOMAIN table[k] : j \in DOMAIN after[k] /\ after[k][j] = table[k][j]
           /\ \A j \in DOMAIN after[k] : j \in DOMAIN table[k] \/ after[k][j] = row
           /\ \E j \in DOMAIN after[k] : after[k][j] = row
           /\ \A m \in S : m # k => after[m] = table[m]
<1>1. table[k] \in Seq(R) /\ Len(table[k]) \in Nat /\ DOMAIN table[k] = 1 .. Len(table[k])
  BY SeqFacts DEF Table
<1> DEFINE grown == Append(table[k], row)
<1>2. /\ grown \in Seq(R) /\ Len(grown) = Len(table[k]) + 1 /\ grown # <<>>
      /\ DOMAIN grown = 1 .. Len(table[k]) + 1
      /\ \A j \in 1 .. Len(table[k]) : grown[j] = table[k][j]
      /\ grown[Len(table[k]) + 1] = row
  BY <1>1, AppendFacts
<1>3. after = [table EXCEPT ![k] = grown]
  BY DEF Inserted
<1> HIDE DEF grown
<1>4. /\ after \in Table(S, R) /\ after[k] = grown
      /\ \A m \in S : m # k => after[m] = table[m]
  BY <1>2, <1>3 DEF Table
<1>5. /\ Len(table[k]) + 1 \in DOMAIN grown
      /\ \A j \in DOMAIN table[k] : j \in DOMAIN grown /\ grown[j] = table[k][j]
      /\ \A j \in DOMAIN grown : j \in DOMAIN table[k] \/ grown[j] = row
  BY <1>1, <1>2
<1>6. \E j \in DOMAIN grown : grown[j] = row
  BY <1>2, <1>5
<1> QED
  BY <1>2, <1>4, <1>5, <1>6 DEF grown

\* A row found or inserted; while no find misses one, the only one.
LEMMA FoundOrInsertedFacts ==
    ASSUME NEW S, NEW R, NEW table \in Table(S, R), NEW k \in S, NEW row \in R,
           NEW after \in FoundOrInserted(table, k, row)
    PROVE  /\ after \in Table(S, R) /\ after[k] # <<>>
           /\ after = table \/ after = Inserted(table, k, row)
           /\ ~RowsMissed => after = table \/ table[k] = <<>>
           /\ \A m \in S : m # k => after[m] = table[m]
<1>1. \/ after = table /\ table[k] # <<>>
      \/ after = Inserted(table, k, row) /\ MayBeInserted(table[k])
  BY DEF FoundOrInserted
<1>2. CASE after = table /\ table[k] # <<>>
  BY <1>2
<1>3. CASE after = Inserted(table, k, row) /\ MayBeInserted(table[k])
  <2>1. /\ after \in Table(S, R) /\ after[k] # <<>>
        /\ \A m \in S : m # k => after[m] = table[m]
    BY <1>3, RowInserted
  <2> QED
    BY <1>3, <2>1 DEF MayBeInserted
<1> QED
  BY <1>1, <1>2, <1>3

\* Queries of the node answer with what it has, or not at all.
LEMMA RepliesFacts ==
    ASSUME TypeOK, PositionInv, NEW c \in Contracts
    PROVE  /\ \A info \in InfoReplies(c) :
                 info \in Int /\ info \in {Unknown, InfoAt[head][c]}
           /\ \A supply \in SupplyReplies(c) :
                 supply \in Int /\ supply \in {Unknown, SupplyAt[head][c]}
           /\ InfoAt[head][c] \in Nat /\ SupplyAt[head][c] \in Nat
<1>1. head \in 0 .. Len(Chain) /\ head <= head
  BY HereFacts
<1>2. InfoAt[head][c] \in Nat /\ SupplyAt[head][c] \in Nat
  BY <1>1, VersionFacts
<1> QED
  BY <1>2 DEF InfoReplies, SupplyReplies, Replies, Unknown

\* A token that is registered has a row then, and at most one more.
LEMMA TokenInserted ==
    ASSUME TypeOK, PositionInv, pc = "create", IsTokenRegistration,
           tokens' \in TokenFoundOrInserted
    PROVE  LET c == Op.contract IN
           /\ c \in Contracts /\ tokens' \in Table(Contracts, TokenRow) /\ tokens'[c] # <<>>
           /\ \A d \in Contracts : d # c => tokens'[d] = tokens[d]
           /\ tokens' = tokens \/ (Len(tokens'[c]) = Len(tokens[c]) + 1
                                     /\ (RowsMissed \/ tokens[c] = <<>>))
           /\ \A r \in DOMAIN tokens[c] : r \in DOMAIN tokens'[c] /\ tokens'[c][r] = tokens[c][r]
           /\ \A r \in DOMAIN tokens'[c] : r \in DOMAIN tokens[c] \/
                 /\ tokens'[c][r].info \in {Unknown, InfoAt[head][c]}
                 /\ tokens'[c][r].supply \in {Unknown, SupplyAt[head][c]}
<1> DEFINE c == Op.contract
<1>1. c \in Contracts
  BY PluginFacts DEF PluginPcs, IsTokenRegistration, Registration
<1>2. PICK info \in InfoReplies(c), supply \in SupplyReplies(c) :
          tokens' \in FoundOrInserted(tokens, c,
                          [common |-> FALSE, info |-> info, supply |-> supply])
  BY DEF TokenFoundOrInserted
<1> DEFINE row == [common |-> FALSE, info |-> info, supply |-> supply]
<1>3. /\ row \in TokenRow /\ row.info = info /\ row.supply = supply
      /\ info \in {Unknown, InfoAt[head][c]} /\ supply \in {Unknown, SupplyAt[head][c]}
  BY <1>1, <1>2, RepliesFacts DEF TokenRow
<1>4. tokens \in Table(Contracts, TokenRow)
  BY TypesOfTables
<1> HIDE DEF row, c
<1>5. tokens' \in FoundOrInserted(tokens, c, row)
  BY <1>2 DEF row
<1>6. /\ tokens' \in Table(Contracts, TokenRow) /\ tokens'[c] # <<>>
      /\ tokens' = tokens \/ tokens' = Inserted(tokens, c, row)
      /\ ~RowsMissed => tokens' = tokens \/ tokens[c] = <<>>
      /\ \A d \in Contracts : d # c => tokens'[d] = tokens[d]
  BY <1>1, <1>3, <1>4, <1>5, FoundOrInsertedFacts
<1>7. CASE tokens' = Inserted(tokens, c, row)
  <2>1. /\ Len(tokens'[c]) = Len(tokens[c]) + 1
        /\ \A j \in DOMAIN tokens[c] : j \in DOMAIN tokens'[c] /\ tokens'[c][j] = tokens[c][j]
        /\ \A j \in DOMAIN tokens'[c] : j \in DOMAIN tokens[c] \/ tokens'[c][j] = row
    BY <1>1, <1>3, <1>4, <1>7, RowInserted
  <2> QED
    BY <1>1, <1>3, <1>6, <1>7, <2>1 DEF c
<1>8. CASE tokens' = tokens
  BY <1>1, <1>6, <1>8 DEF c
<1> QED
  BY <1>6, <1>7, <1>8

\* A token keeps its rows, and what a row says is kept or is what the node says
\* now.  A token gets rows at its registration only; and while no find misses a
\* row, only its first.
LEMMA TokensStep ==
    ASSUME TypeOK, PositionInv, CallInv, [Next]_vars
    PROVE  /\ tokens' \in Table(Contracts, TokenRow)
           /\ \A c \in Contracts : \A r \in DOMAIN tokens[c] :
                 /\ r \in DOMAIN tokens'[c]
                 /\ tokens'[c][r].info \in {tokens[c][r].info, InfoAt[head][c]}
                 /\ tokens'[c][r].supply \in {tokens[c][r].supply, SupplyAt[head][c]}
                 /\ tokens[c][r].common => tokens'[c][r].common
           /\ \A c \in Contracts : \A r \in DOMAIN tokens'[c] : r \in DOMAIN tokens[c] \/
                 /\ pc = "create" /\ IsTokenRegistration /\ c = Op.contract /\ head' = head
                 /\ tokens'[c][r].info \in {Unknown, InfoAt[head][c]}
                 /\ tokens'[c][r].supply \in {Unknown, SupplyAt[head][c]}
           /\ \A c \in Contracts :
                 \/ Len(tokens'[c]) = Len(tokens[c])
                 \/ Len(tokens'[c]) = Len(tokens[c]) + 1 /\ (RowsMissed \/ tokens[c] = <<>>)
<1>1. tokens \in Table(Contracts, TokenRow)
  BY TypesOfTables
<1>2. CASE UNCHANGED tokens
  BY <1>1, <1>2
<1>3. CASE /\ pc = "create" /\ IsTokenRegistration /\ tokens' \in TokenFoundOrInserted
           /\ head' = head
  <2> DEFINE c == Op.contract
  <2>1. /\ c \in Contracts /\ tokens' \in Table(Contracts, TokenRow)
        /\ \A d \in Contracts : d # c => tokens'[d] = tokens[d]
        /\ tokens' = tokens \/ (Len(tokens'[c]) = Len(tokens[c]) + 1
                                  /\ (RowsMissed \/ tokens[c] = <<>>))
        /\ \A r \in DOMAIN tokens[c] : r \in DOMAIN tokens'[c] /\ tokens'[c][r] = tokens[c][r]
        /\ \A r \in DOMAIN tokens'[c] : r \in DOMAIN tokens[c] \/
              /\ tokens'[c][r].info \in {Unknown, InfoAt[head][c]}
              /\ tokens'[c][r].supply \in {Unknown, SupplyAt[head][c]}
    BY <1>3, TokenInserted
  <2> HIDE DEF c
  <2> QED
    BY <1>3, <2>1 DEF c
<1>4. CASE AtTokenEvent("Inited") /\ tokens' \in InitedTables /\ head' = head
  <2> DEFINE c == Event.contract
  <2>1. /\ pc \in EventPcs /\ ev <= Len(Events)
        /\ \E r \in DOMAIN tokens[c], info \in InfoReplies(c), supply \in SupplyReplies(c) :
              tokens' = [tokens EXCEPT ![c][r] = Initialised(tokens[c][r], info, supply)]
    <3>1. PICK r \in DOMAIN tokens[c], info \in InfoReplies(c), supply \in SupplyReplies(c) :
              tokens' = RowInited(r, info, supply)
      BY <1>4 DEF InitedTables
    <3> QED
      BY <1>4, <3>1 DEF RowInited, AtTokenEvent, AtEvent, EventPcs
  <2>2. c \in Contracts
    BY <2>1, EventFacts
  <2> HIDE DEF c
  <2>3. PICK r \in DOMAIN tokens[c], info \in InfoReplies(c), supply \in SupplyReplies(c) :
              tokens' = [tokens EXCEPT ![c][r] = Initialised(tokens[c][r], info, supply)]
    BY <2>1
  <2> DEFINE row == Initialised(tokens[c][r], info, supply)
  <2>4. tokens[c][r] \in TokenRow
    BY <1>1, <2>2, <2>3, SeqFacts DEF Table
  <2>5. /\ info \in Int /\ info \in {Unknown, InfoAt[head][c]}
        /\ supply \in Int /\ supply \in {Unknown, SupplyAt[head][c]}
    BY <2>2, <2>3, RepliesFacts
  <2>6. /\ row \in TokenRow /\ row.common
        /\ row.info \in {tokens[c][r].info, InfoAt[head][c]}
        /\ row.supply \in {tokens[c][r].supply, SupplyAt[head][c]}
    BY <2>4, <2>5 DEF Initialised, TokenRow
  <2> HIDE DEF row
  <2>7. r \in DOMAIN tokens[c] /\ tokens' = Changed(tokens, c, r, row)
    BY <2>3 DEF row, Changed
  <2>8. /\ tokens' \in Table(Contracts, TokenRow)
        /\ Len(tokens'[c]) = Len(tokens[c]) /\ DOMAIN tokens'[c] = DOMAIN tokens[c]
        /\ tokens'[c][r] = row
        /\ \A j \in DOMAIN tokens[c] : j # r => tokens'[c][j] = tokens[c][j]
        /\ \A m \in Contracts : m # c => tokens'[m] = tokens[m]
    BY <1>1, <2>2, <2>6, <2>7, RowChanged
  <2> QED
    BY <2>2, <2>3, <2>6, <2>8
<1>5. CASE /\ pc = "users" /\ users = <<>> /\ Mints(Event) /\ tokens' \in SupplyUpdated
           /\ head' = head
  <2> DEFINE c == Event.contract
  <2>1. pc \in EventPcs /\ ev <= Len(Events)
    BY <1>5 DEF CallInv, EventPcs
  <2>2. c \in Contracts
    BY <2>1, EventFacts
  <2>3. \E r \in DOMAIN tokens[c] :
            tokens' = [tokens EXCEPT ![c][r] = [tokens[c][r] EXCEPT !.supply = SupplyAt[head][c]]]
    BY <1>5 DEF SupplyUpdated
  <2> HIDE DEF c
  <2>4. PICK r \in DOMAIN tokens[c] :
            tokens' = [tokens EXCEPT ![c][r] = [tokens[c][r] EXCEPT !.supply = SupplyAt[head][c]]]
    BY <2>3
  <2> DEFINE row == [tokens[c][r] EXCEPT !.supply = SupplyAt[head][c]]
  <2>5. tokens[c][r] \in TokenRow /\ SupplyAt[head][c] \in Int
    BY <1>1, <2>2, <2>4, SeqFacts, RepliesFacts DEF Table
  <2>6. /\ row \in TokenRow /\ row.common = tokens[c][r].common
        /\ row.info = tokens[c][r].info /\ row.supply = SupplyAt[head][c]
    BY <2>5 DEF TokenRow
  <2> HIDE DEF row
  <2>7. r \in DOMAIN tokens[c] /\ tokens' = Changed(tokens, c, r, row)
    BY <2>4 DEF row, Changed
  <2>8. /\ tokens' \in Table(Contracts, TokenRow)
        /\ Len(tokens'[c]) = Len(tokens[c]) /\ DOMAIN tokens'[c] = DOMAIN tokens[c]
        /\ tokens'[c][r] = row
        /\ \A j \in DOMAIN tokens[c] : j # r => tokens'[c][j] = tokens[c][j]
        /\ \A m \in Contracts : m # c => tokens'[m] = tokens[m]
    BY <1>1, <2>2, <2>6, <2>7, RowChanged
  <2> QED
    BY <2>2, <2>4, <2>6, <2>8
<1> QED
  BY <1>2, <1>3, <1>4, <1>5, TokensWritten

\* A token that has a row keeps having one, and it gets its first at its
\* registration.
LEMMA TokenKnown ==
    ASSUME TypeOK, PositionInv, CallInv, [Next]_vars, NEW c \in Contracts
    PROVE  /\ tokens[c] # <<>> => tokens'[c] # <<>>
           /\ tokens[c] = <<>> /\ tokens'[c] # <<>> =>
                 pc = "create" /\ IsTokenRegistration /\ c = Op.contract
<1>1. tokens[c] \in Seq(TokenRow) /\ tokens'[c] \in Seq(TokenRow)
  BY TokensStep DEF TypeOK, TokenRow, Table
<1>2. /\ tokens[c] # <<>> <=> 1 \in DOMAIN tokens[c]
      /\ tokens'[c] # <<>> <=> 1 \in DOMAIN tokens'[c]
  BY <1>1, SeqFacts
<1> QED
  BY <1>2, TokensStep

\* A balance is kept or is the node's of now.
LEMMA BalancesStep ==
    ASSUME TypeOK, PositionInv, CallInv, [Next]_vars
    PROVE  /\ balances' \in Table(BalanceKeys, Number)
           /\ \A k \in BalanceKeys :
                 /\ \A r \in DOMAIN balances[k] :
                       /\ r \in DOMAIN balances'[k]
                       /\ balances'[k][r] \in {balances[k][r], BalanceAt[head][k]}
                 /\ \A r \in DOMAIN balances'[k] :
                       r \in DOMAIN balances[k] \/ balances'[k][r] = BalanceAt[head][k]
                 /\ \/ Len(balances'[k]) = Len(balances[k])
                    \/ /\ Len(balances'[k]) = Len(balances[k]) + 1
                       /\ RowsMissed \/ balances[k] = <<>>
                       /\ tokens' = tokens /\ tokens[k[1]] # <<>>
<1>1. balances \in Table(BalanceKeys, Number)
  BY TypesOfTables
<1>2. CASE UNCHANGED balances
  BY <1>1, <1>2
<1>3. CASE /\ pc = "users" /\ users # <<>> /\ UNCHANGED <<head, tokens>>
           /\ balances' \in BalanceUpdatedOrInserted
  <2>1. /\ pc \in EventPcs /\ ev <= Len(Events) /\ tokens[Event.contract] # <<>>
    BY <1>3 DEF CallInv, EventPcs
  <2>2. Head(users) \in Users
    BY <1>3, HeadTailProperties DEF TypeOK
  <2>3. BKey \in BalanceKeys /\ BKey[1] = Event.contract
    BY <2>1, <2>2, EventFacts DEF BKey, BalanceKey, BalanceKeys
  <2>4. head \in 0 .. Len(Chain) /\ head <= head
    BY HereFacts
  <2>5. BalanceOf(BKey) \in Nat /\ BalanceOf(BKey) = BalanceAt[head][BKey]
    BY <2>3, <2>4, VersionFacts DEF BalanceOf
  <2> DEFINE k == BKey
             now == BalanceOf(BKey)
  <2>6. \/ \E r \in DOMAIN balances[k] : balances' = Changed(balances, k, r, now)
        \/ MayBeInserted(balances[k]) /\ balances' = Inserted(balances, k, now)
    BY <1>3 DEF BalanceUpdatedOrInserted, Changed
  <2>7. k \in BalanceKeys /\ now \in Number /\ now = BalanceAt[head][k] /\ tokens[k[1]] # <<>>
    BY <2>1, <2>3, <2>5 DEF Number
  <2> HIDE DEF k, now
  <2>8. CASE \E r \in DOMAIN balances[k] : balances' = Changed(balances, k, r, now)
    <3>1. PICK r \in DOMAIN balances[k] : balances' = Changed(balances, k, r, now)
      BY <2>8
    <3>2. /\ balances' \in Table(BalanceKeys, Number)
          /\ Len(balances'[k]) = Len(balances[k]) /\ DOMAIN balances'[k] = DOMAIN balances[k]
          /\ balances'[k][r] = now
          /\ \A j \in DOMAIN balances[k] : j # r => balances'[k][j] = balances[k][j]
          /\ \A m \in BalanceKeys : m # k => balances'[m] = balances[m]
      BY <1>1, <2>7, <3>1, RowChanged
    <3> QED
      BY <2>7, <3>1, <3>2
  <2>9. CASE MayBeInserted(balances[k]) /\ balances' = Inserted(balances, k, now)
    <3>1. /\ balances' \in Table(BalanceKeys, Number)
          /\ Len(balances'[k]) = Len(balances[k]) + 1
          /\ \A j \in DOMAIN balances[k] :
                j \in DOMAIN balances'[k] /\ balances'[k][j] = balances[k][j]
          /\ \A j \in DOMAIN balances'[k] : j \in DOMAIN balances[k] \/ balances'[k][j] = now
          /\ \A m \in BalanceKeys : m # k => balances'[m] = balances[m]
      BY <1>1, <2>7, <2>9, RowInserted
    <3>2. RowsMissed \/ balances[k] = <<>>
      BY <2>9 DEF MayBeInserted
    <3> QED
      BY <1>3, <2>7, <2>9, <3>1, <3>2
  <2> QED
    BY <2>6, <2>8, <2>9
<1> QED
  BY <1>2, <1>3, BalancesWritten

\* A history row is kept; a new one is of the event the plugin is at.
LEMMA HistoryStep ==
    ASSUME TypeOK, PositionInv, [Next]_vars
    PROVE  /\ history' \in Table(OpKeys, Number)
           /\ \A k \in OpKeys :
                 \/ history'[k] = history[k]
                 \/ /\ k = OpKey /\ pc = "events" /\ ev <= Len(Events) /\ ev \in Nat
                    /\ history'[k] = Append(history[k], ev) /\ history'[k] # <<>>
                    /\ RowsMissed \/ history[k] = <<>>
                    /\ tokens' = tokens /\ tokens[Event.contract] # <<>>
<1>1. history \in Table(OpKeys, Number)
  BY TypesOfTables
<1>2. CASE UNCHANGED history
  BY <1>1, <1>2
<1>3. CASE /\ AtTokenEvent("Transfer") /\ UNCHANGED tokens
           /\ history' \in HistoryFoundOrSaved
  <2>1. pc = "events" /\ pc \in PluginPcs /\ ev <= Len(Events) /\ tokens[Event.contract] # <<>>
    BY <1>3 DEF AtTokenEvent, AtEvent, IsTokenContract, PluginPcs
  <2>2. OpKey \in OpKeys /\ ev \in Nat /\ ev \in Number
    BY <2>1, PluginFacts, HereFacts DEF Number
  <2>3. history' \in FoundOrInserted(history, OpKey, ev)
    BY <1>3 DEF HistoryFoundOrSaved
  <2>4. /\ history' \in Table(OpKeys, Number)
        /\ history' = history \/ history' = Inserted(history, OpKey, ev)
        /\ ~RowsMissed => history' = history \/ history[OpKey] = <<>>
        /\ \A m \in OpKeys : m # OpKey => history'[m] = history[m]
    BY <1>1, <2>2, <2>3, FoundOrInsertedFacts
  <2>5. CASE history' = history
    BY <2>4, <2>5
  <2>6. CASE history' = Inserted(history, OpKey, ev) /\ history' # history
    <3>1. history'[OpKey] = Append(history[OpKey], ev) /\ history'[OpKey] # <<>>
      BY <1>1, <2>2, <2>6, RowInserted
    <3> QED
      BY <1>3, <2>1, <2>2, <2>4, <2>6, <3>1
  <2> QED
    BY <2>4, <2>5, <2>6
<1> QED
  BY <1>2, <1>3, HistoryWritten

\* The first name of an address, and those that follow.
LEMMA AccountsStep ==
    ASSUME TypeOK, PositionInv, [Next]_vars
    PROVE  /\ accounts' \in Table(Users, Names)
           /\ \A u \in Users :
                 \/ accounts'[u] = accounts[u]
                 \/ /\ \E name \in Names : accounts'[u] = Append(accounts[u], name)
                    /\ RowsMissed \/ accounts[u] = <<>>
<1>1. accounts \in Table(Users, Names)
  BY TypesOfTables
<1>2. CASE UNCHANGED accounts
  BY <1>1, <1>2
<1>3. CASE /\ pc = "op" /\ i <= Len(Tx.ops) /\ Op.kind = "account"
           /\ accounts' \in AccountFoundOrInserted
  <2>1. /\ n \in Heights /\ x \in DOMAIN Chain[n] /\ IsTransaction(Tx) /\ i \in Nat /\ i >= 1
    BY <1>3, HereFacts DEF OpPcs
  <2>2. i \in DOMAIN Tx.ops
    BY <1>3, <2>1, TransactionFacts
  <2>3. Op.owner \in Users
    BY <1>3, <2>1, <2>2, OpFacts DEF Op
  <2>4. <<n, x, i>> \in Operations /\ OpAt(<<n, x, i>>) = Op
    BY <2>1, <2>2, OperationFacts DEF Tx, OpAt, Op
  <2>5. Op.name \in Names
    BY <1>3, <2>4 DEF Names
  <2>6. /\ accounts' \in Table(Users, Names)
        /\ accounts' = accounts \/ accounts' = Inserted(accounts, Op.owner, Op.name)
        /\ ~RowsMissed => accounts' = accounts \/ accounts[Op.owner] = <<>>
        /\ \A m \in Users : m # Op.owner => accounts'[m] = accounts[m]
    BY <1>1, <1>3, <2>3, <2>5, FoundOrInsertedFacts DEF AccountFoundOrInserted
  <2>7. CASE accounts' = accounts
    BY <2>6, <2>7
  <2>8. CASE accounts' = Inserted(accounts, Op.owner, Op.name) /\ accounts' # accounts
    <3>1. accounts'[Op.owner] = Append(accounts[Op.owner], Op.name)
      BY <1>1, <2>3, <2>5, <2>8, RowInserted
    <3> QED
      BY <2>5, <2>6, <2>8, <3>1
  <2> QED
    BY <2>6, <2>7, <2>8
<1> QED
  BY <1>2, <1>3, AccountsWritten

-----------------------------------------------------------------------------
(* The steps keep the types and the positions.                              *)

LEMMA ScanMoved ==
    [Next]_vars =>
        \/ UNCHANGED <<pc, n, x, i, got, ev>>
        \/ pc' = "down" /\ n' = 0 /\ x' = 1 /\ i' = 1 /\ got' = FALSE /\ ev' = 1
        \/ Start \/ GetBlock \/ GetTxReceipts \/ AbandonBlock \/ AbandonTransaction
        \/ TransactionDone \/ FinishBlock
        \/ /\ UNCHANGED <<n, x, i, got>>
           /\ \/ pc = "op" /\ i <= Len(Tx.ops) /\ pc' = "create" /\ ev' = ev
              \/ pc = "create" /\ pc' = "events" /\ ev' = 1
              \/ pc = "events" /\ ev <= Len(Events) /\ pc' = "events" /\ ev' = ev + 1
              \/ pc = "users" /\ pc' = "events" /\ ev' = ev + 1
              \/ pc = "events" /\ ev <= Len(Events) /\ pc' = "users" /\ ev' = ev
        \/ PluginsDone
  BY DEF Next, ScanStep, vars, loopVars, eventVars, tables, observers, rest, atEvent,
         Start, ProcessEnds, NodeProducesBlock, GetBlock, UpdateLastScannedAtHead,
         GetTxReceipts, AbandonBlock, AbandonTransaction, TransactionDone, FinishBlock,
         RegisterAccount, RegisterAccountFails, NotATokenRegistration,
         RegistrationUndecodable, SaveTokenContract, SaveTokenContractFails,
         IsTokenContractFails, SkipEvent, TokenMissed, Inited, InitedFails, UnreadableTransfer,
         RecordTransfer, RecordTransferFails, UpdateTokenBalance, BalanceUnanswered,
         UpdateTokenBalanceFails, TransferDone, UpdateTotalSupply, SupplyUnanswered,
         UpdateTotalSupplyFails, PluginsDone, PluginsFail, Dies, AtTokenEvent, AtEvent

LEMMA CheckpointMoved ==
    [Next]_vars =>
        \/ UNCHANGED lastScanned
        \/ UpdateLastScannedAtHead /\ UNCHANGED <<pc, n, head>>
        \/ FinishBlock
  BY DEF Next, ScanStep, vars, loopVars, eventVars, tables, observers, rest, atEvent,
         Start, ProcessEnds, NodeProducesBlock, GetBlock, UpdateLastScannedAtHead,
         GetTxReceipts, AbandonBlock, AbandonTransaction, TransactionDone, FinishBlock,
         RegisterAccount, RegisterAccountFails, NotATokenRegistration,
         RegistrationUndecodable, SaveTokenContract, SaveTokenContractFails,
         IsTokenContractFails, SkipEvent, TokenMissed, Inited, InitedFails, UnreadableTransfer,
         RecordTransfer, RecordTransferFails, UpdateTokenBalance, BalanceUnanswered,
         UpdateTokenBalanceFails, TransferDone, UpdateTotalSupply, SupplyUnanswered,
         UpdateTotalSupplyFails, PluginsDone, PluginsFail, Dies

LEMMA PositionStep ==
    ASSUME TypeOK, PositionInv, CallInv, [Next]_vars
    PROVE  PositionInv'
<1>1. /\ n \in Nat /\ x \in Nat /\ i \in Nat /\ ev \in Nat /\ lastScanned \in Nat
      /\ head \in Nat /\ lastScanned <= head
      /\ pc # "down" => lastScanned < n /\ n <= head + 1
      /\ pc \in {"tx"} \cup OpPcs => n <= head /\ x >= 1
      /\ pc \in OpPcs => x <= Len(Chain[n]) /\ i >= 1
      /\ pc \in PluginPcs => i <= Len(Tx.ops)
      /\ pc \in EventPcs => ev >= 1 /\ ev <= Len(Events) + 1
      /\ pc = "users" => ev <= Len(Events)
      /\ Interval \in Nat \ {0}
  BY ParameterAssumption, HereFacts DEF PositionInv, CallInv
<1>2. pc = "tx" => Len(Chain[n]) \in Nat
  BY HereFacts, ChainFacts
<1>3. /\ UNCHANGED <<n, x, i, got>> => Tx' = Tx /\ Events' = Events
      /\ UNCHANGED <<n, x>> => Tx' = Tx
  BY DEF Tx, Events
<1>4. PICK h \in Nat : head' = h /\ head <= h
  <2>1. head' \in {head, head + 1}
    BY HeadWritten
  <2> QED
    BY <1>1, <2>1
<1>5. CASE UNCHANGED <<pc, n, x, i, got, ev>>
  <2>1. lastScanned' = lastScanned \/ (pc = "loop" /\ n > head /\ lastScanned' = n - 1)
    BY <1>1, <1>5, CheckpointMoved
       DEF UpdateLastScannedAtHead, FinishBlock, HeadCheckpoint
  <2>2. (pc \in {"tx"} \cup OpPcs => pc # "loop") /\ (pc = "loop" => pc # "down")
    BY DEF OpPcs
  <2>3. Tx' = Tx /\ Events' = Events
    BY <1>3, <1>5
  <2>4. lastScanned' <= head' /\ (pc' # "down" => lastScanned' < n' /\ n' <= head' + 1)
    <3>1. lastScanned <= h /\ (pc # "down" => lastScanned < n /\ n <= h + 1)
      BY <1>1, <1>4
    <3>2. pc = "loop" /\ n > head => n - 1 <= h /\ n - 1 < n
      BY <1>1, <1>4, <2>2
    <3> QED
      BY <1>4, <1>5, <2>1, <3>1, <3>2
  <2>5. pc' \in {"tx"} \cup OpPcs => n' <= head' /\ x' >= 1
    BY <1>1, <1>4, <1>5
  <2>6. /\ pc' \in OpPcs => x' <= Len(Chain[n']) /\ i' >= 1
        /\ pc' \in PluginPcs => i' <= Len(Tx'.ops)
        /\ pc' \in EventPcs => ev' >= 1 /\ ev' <= Len(Events') + 1
    BY <1>1, <1>5, <2>3
  <2> QED
    BY <2>4, <2>5, <2>6 DEF PositionInv
<1>6. CASE pc' = "down"
  <2>1. lastScanned' <= head'
    BY <1>1, <1>4, <1>6, CheckpointMoved
       DEF FinishBlock, UpdateLastScannedAtHead, HeadCheckpoint, OpPcs
  <2> QED
    BY <1>6, <2>1 DEF PositionInv, OpPcs, PluginPcs, EventPcs
<1>7. CASE Start \/ GetBlock
  BY <1>1, <1>7 DEF Start, GetBlock, loopVars, PositionInv, OpPcs, PluginPcs, EventPcs
<1>8. CASE GetTxReceipts \/ AbandonBlock
  <2>1. CASE GetTxReceipts
    BY <1>1, <1>2, <2>1 DEF GetTxReceipts, PositionInv, OpPcs, PluginPcs, EventPcs
  <2>2. CASE AbandonBlock
    <3>1. /\ pc = "tx" /\ pc' = "tx" /\ x' = Len(Chain[n]) + 1
          /\ UNCHANGED <<head, n, lastScanned>>
      BY <2>2 DEF AbandonBlock
    <3> QED
      BY <1>1, <1>2, <3>1 DEF PositionInv, OpPcs, PluginPcs, EventPcs
  <2> QED
    BY <1>8, <2>1, <2>2
<1>9. CASE AbandonTransaction \/ TransactionDone \/ FinishBlock
  BY <1>1, <1>2, <1>9
     DEF AbandonTransaction, TransactionDone, FinishBlock, PositionInv, OpPcs, PluginPcs,
         EventPcs
<1>10. CASE /\ UNCHANGED <<n, x, i, got>>
            /\ \/ pc = "op" /\ i <= Len(Tx.ops) /\ pc' = "create" /\ ev' = ev
               \/ pc = "create" /\ pc' = "events" /\ ev' = 1
               \/ pc = "events" /\ ev <= Len(Events) /\ pc' = "events" /\ ev' = ev + 1
               \/ pc = "users" /\ pc' = "events" /\ ev' = ev + 1
               \/ pc = "events" /\ ev <= Len(Events) /\ pc' = "users" /\ ev' = ev
  <2>1. lastScanned' = lastScanned
    BY <1>10, CheckpointMoved DEF UpdateLastScannedAtHead, FinishBlock
  <2>2. Tx' = Tx /\ Events' = Events
    BY <1>3, <1>10
  <2>3. pc \in PluginPcs => Len(Events) \in Nat
    BY PluginFacts
  <2>4. /\ pc \in OpPcs /\ pc \in {"tx"} \cup OpPcs /\ pc # "down" /\ i <= Len(Tx.ops)
        /\ pc' \in PluginPcs
    BY <1>1, <1>10 DEF OpPcs, PluginPcs
  <2>5. pc' \in EventPcs => ev' >= 1 /\ ev' <= Len(Events) + 1
    BY <1>1, <1>10, <2>3 DEF PluginPcs, EventPcs
  <2>6. lastScanned' <= head' /\ lastScanned' < n' /\ n' <= head' + 1 /\ n' <= head'
    <3>1. lastScanned <= h /\ lastScanned < n /\ n <= h /\ n <= h + 1
      BY <1>1, <1>4, <2>4
    <3> QED
      BY <1>4, <1>10, <2>1, <3>1
  <2> QED
    BY <1>1, <1>10, <2>2, <2>4, <2>5, <2>6 DEF PositionInv
<1>11. CASE PluginsDone
  BY <1>1, <1>11 DEF PluginsDone, PositionInv, OpPcs, PluginPcs, EventPcs
<1> QED
  BY <1>5, <1>6, <1>7, <1>8, <1>9, <1>10, <1>11, ScanMoved

LEMMA TypeStep ==
    ASSUME TypeOK, PositionInv, CallInv, [Next]_vars
    PROVE  TypeOK'
<1>1. /\ head \in 0 .. Len(Chain) /\ starts \in 0 .. MaxStarts
      /\ n \in Nat /\ x \in Nat /\ i \in Nat /\ ev \in Nat /\ got \in BOOLEAN
      /\ users \in Seq(Users) /\ err \subseteq Work /\ hidden \subseteq Work
      /\ lastScanned \in 0 .. Len(Chain) /\ unseen \subseteq OpKeys
      /\ missed \subseteq OpKeys \X Nat
  BY DEF TypeOK
<1>2. head' \in 0 .. Len(Chain) /\ starts' \in 0 .. MaxStarts
  BY <1>1, HeadWritten, ChainFacts, ParameterAssumption
<1>3. pc' \in {"down", "loop", "tx", "op", "create", "events", "users"}
  BY ScanMoved DEF TypeOK, Start, GetBlock, GetTxReceipts, AbandonBlock, AbandonTransaction,
         TransactionDone, FinishBlock, PluginsDone
<1>4. /\ n' \in {n, n + 1, lastScanned + 1, 0}
      /\ x' \in {x, x + 1, 1} \/ (pc = "tx" /\ x' = Len(Chain[n]) + 1)
      /\ i' \in {i, i + 1, 1} /\ ev' \in {ev, ev + 1, 1}
  BY ScanMoved DEF Start, GetBlock, GetTxReceipts, AbandonBlock, AbandonTransaction,
         TransactionDone, FinishBlock, PluginsDone, eventVars
<1>5. n' \in Nat /\ x' \in Nat /\ i' \in Nat /\ ev' \in Nat
  <2>1. pc = "tx" => Len(Chain[n]) \in Nat
    BY HereFacts, ChainFacts
  <2>2. n' \in Nat
    BY <1>1, <1>4
  <2>3. x' \in Nat
    BY <1>1, <1>4, <2>1
  <2>4. i' \in Nat /\ ev' \in Nat
    BY <1>1, <1>4
  <2> QED
    BY <2>2, <2>3, <2>4
<1>6. got' \in BOOLEAN
  <2>1. CheckTransactionHasContractOp(Tx) \in BOOLEAN
    BY DEF CheckTransactionHasContractOp
  <2>2. got' \in {got, FALSE, CheckTransactionHasContractOp(Tx)}
    BY ScanMoved DEF Start, GetBlock, GetTxReceipts, AbandonBlock, AbandonTransaction,
         TransactionDone, FinishBlock, PluginsDone
  <2> QED
    BY <1>1, <2>1, <2>2
<1>7. users' \in Seq(Users)
  <2>1. \/ users' \in {users, <<>>}
        \/ users # <<>> /\ users' = Tail(users)
        \/ AtTokenEvent("Transfer") /\ users' = UsersToUpdate
    BY DEF Next, ScanStep, vars, loopVars, eventVars, tables, observers, rest, atEvent,
         Start, ProcessEnds, NodeProducesBlock, GetBlock, UpdateLastScannedAtHead,
         GetTxReceipts, AbandonBlock, AbandonTransaction, TransactionDone, FinishBlock,
         RegisterAccount, RegisterAccountFails, NotATokenRegistration,
         RegistrationUndecodable, SaveTokenContract, SaveTokenContractFails,
         IsTokenContractFails, SkipEvent, TokenMissed, Inited, InitedFails, UnreadableTransfer,
         RecordTransfer, RecordTransferFails, UpdateTokenBalance, BalanceUnanswered,
         UpdateTokenBalanceFails, TransferDone, UpdateTotalSupply, SupplyUnanswered,
         UpdateTotalSupplyFails, PluginsDone, PluginsFail, Dies
  <2>2. CASE AtTokenEvent("Transfer") /\ users' = UsersToUpdate
    <3>1. IsEvent(Event)
      BY <2>2, EventFacts DEF AtTokenEvent, AtEvent, EventPcs
    <3>2. OrNone(Event.from) \in Seq(Users) /\ OrNone(Event.to) \in Seq(Users)
      BY <3>1 DEF IsEvent, OrNone
    <3>3. <<>> \in Seq(Users)
      OBVIOUS
    <3> QED
      BY <2>2, <3>2, <3>3, ConcatProperties DEF UsersToUpdate
  <2>3. CASE users # <<>> /\ users' = Tail(users)
    BY <1>1, <2>3
  <2>4. CASE users' \in {users, <<>>}
    BY <1>1, <2>4, EmptySeq
  <2> QED
    BY <2>1, <2>2, <2>3, <2>4
<1>8. tokens' \in [Contracts -> Seq([common : BOOLEAN, info : Int, supply : Int])]
  BY TokensStep DEF TokenRow, Table
<1>9. balances' \in [BalanceKeys -> Seq(Nat)] /\ history' \in [OpKeys -> Seq(Nat)]
  BY BalancesStep, HistoryStep DEF Table, Number
<1>10. accounts' \in [Users -> Seq(Names)]
  BY AccountsStep DEF Table
<1>11. lastScanned' \in 0 .. Len(Chain)
  <2>1. lastScanned' \in {lastScanned, n - 1} \/ (pc = "tx" /\ lastScanned' = n)
    BY CheckpointMoved DEF UpdateLastScannedAtHead, HeadCheckpoint, FinishBlock
  <2>2. CASE lastScanned' = n - 1 /\ lastScanned' # lastScanned
    <3>1. pc = "loop"
      BY <1>1, <2>2, CheckpointMoved, HereFacts
         DEF UpdateLastScannedAtHead, FinishBlock
    <3> QED
      BY <1>1, <2>2, <3>1, HereFacts
  <2> QED
    BY <1>1, <2>1, <2>2, HereFacts
<1>12. unseen' \subseteq OpKeys
  <2>1. \/ unseen' \subseteq unseen
        \/ pc = "tx" /\ x <= Len(Chain[n]) /\ unseen' = unseen \cup ({Tx.id} \X DOMAIN Tx.ops)
        \/ pc = "tx" /\ unseen' = unseen \cup KeysFrom(x)
        \/ pc = "op" /\ unseen' = unseen \cup ({Tx.id} \X (i .. Len(Tx.ops)))
    BY DEF Next, ScanStep, vars, loopVars, eventVars, tables, observers, rest, atEvent,
         Start, ProcessEnds, NodeProducesBlock, GetBlock, UpdateLastScannedAtHead,
         GetTxReceipts, AbandonBlock, AbandonTransaction, TransactionDone, FinishBlock,
         RegisterAccount, RegisterAccountFails, NotATokenRegistration,
         RegistrationUndecodable, SaveTokenContract, SaveTokenContractFails,
         IsTokenContractFails, SkipEvent, TokenMissed, Inited, InitedFails, UnreadableTransfer,
         RecordTransfer, RecordTransferFails, UpdateTokenBalance, BalanceUnanswered,
         UpdateTokenBalanceFails, TransferDone, UpdateTotalSupply, SupplyUnanswered,
         UpdateTotalSupplyFails, PluginsDone, PluginsFail, Dies
  <2>2. ASSUME pc = "tx", NEW m \in x .. Len(Chain[n])
        PROVE  {Chain[n][m].id} \X DOMAIN Chain[n][m].ops \subseteq OpKeys
    <3>1. m \in DOMAIN Chain[n] /\ n \in Heights
      BY <2>2, HereFacts, ChainFacts
    <3>2. IsTransaction(Chain[n][m])
      BY <3>1, ChainFacts
    <3>3. \A j \in DOMAIN Chain[n][m].ops : <<Chain[n][m].id, j>> \in OpKeys
      BY <3>2, TransactionFacts
    <3> QED
      BY <3>3
  <2>3. pc = "tx" => KeysFrom(x) \subseteq OpKeys
    BY <2>2 DEF KeysFrom
  <2>4. pc = "tx" /\ x <= Len(Chain[n]) => {Tx.id} \X DOMAIN Tx.ops \subseteq OpKeys
    <3>1. pc = "tx" /\ x <= Len(Chain[n]) => x \in x .. Len(Chain[n])
      BY <1>1, HereFacts, ChainFacts
    <3> QED
      BY <2>2, <3>1 DEF Tx
  <2>5. pc = "op" => {Tx.id} \X (i .. Len(Tx.ops)) \subseteq OpKeys
    <3>1. pc = "op" => IsTransaction(Tx) /\ i >= 1 /\ i \in Nat
      BY HereFacts DEF OpPcs
    <3>2. pc = "op" => \A j \in i .. Len(Tx.ops) : <<Tx.id, j>> \in OpKeys
      BY <3>1, TransactionFacts
    <3> QED
      BY <3>2
  <2> QED
    BY <1>1, <2>1, <2>3, <2>4, <2>5
<1>13. err' \subseteq Work /\ hidden' \subseteq Work
  <2>1. pc = "create" /\ IsTokenRegistration =>
            \A rows : Unanswered(Op.contract, rows) \subseteq Work
    <3>1. pc = "create" /\ IsTokenRegistration => Op.contract \in Contracts
      BY PluginFacts DEF PluginPcs, IsTokenRegistration, Registration
    <3> QED
      BY <3>1 DEF Unanswered, Work
  <2>2. ASSUME pc \in EventPcs
        PROVE  {<<"history", OpKey>>} \subseteq Work
    <3>1. pc \in PluginPcs
      BY <2>2 DEF EventPcs, PluginPcs
    <3> QED
      BY <3>1, PluginFacts DEF Work
  <2>3. ASSUME pc \in EventPcs, ev <= Len(Events)
        PROVE  /\ TransferWork \subseteq Work
               /\ {<<"supply", Event.contract>>} \subseteq Work
               /\ {"info", "supply"} \X {Event.contract} \subseteq Work
               /\ \A rows : Unanswered(Event.contract, rows) \subseteq Work
    <3>1. Event.contract \in Contracts /\ \A u \in Parties(Event) : BalanceKey(u) \in BalanceKeys
      BY <2>3, EventFacts
    <3>2. /\ {<<"supply", Event.contract>>} \subseteq Work
          /\ {"info", "supply"} \X {Event.contract} \subseteq Work
          /\ \A rows : Unanswered(Event.contract, rows) \subseteq Work
      BY <3>1 DEF Work, Unanswered
    <3>3. TransferWork \subseteq Work
      BY <2>2, <2>3, <3>1, <3>2 DEF TransferWork, Work
    <3> QED
      BY <3>2, <3>3
  <2>4. pc = "users" /\ users # <<>> => {<<"balance", BKey>>} \subseteq Work
    <3>1. ASSUME pc = "users", users # <<>> PROVE BKey \in BalanceKeys
      <4>1. ev <= Len(Events) /\ Head(users) \in Users
        BY <1>1, <3>1, EmptySeq DEF CallInv
      <4> QED
        BY <3>1, <4>1, EventFacts DEF EventPcs, BKey, BalanceKey, BalanceKeys
    <3> QED
      BY <3>1 DEF Work
  <2>5. CASE UNCHANGED <<err, hidden>> \/ (err' = {} /\ UNCHANGED hidden)
    BY <1>1, <2>5
  <2>6. CASE /\ pc \in EventPcs /\ hidden' = hidden \cup err
             /\ \/ err' = {}
                \/ pc = "events" /\ err' = {<<"history", OpKey>>}
                \/ AtTokenEvent("Transfer") /\ err' = TransferWork
                \/ pc = "users" /\ users # <<>> /\ err' = {<<"balance", BKey>>}
                \/ pc = "users" /\ users = <<>> /\ err' = {<<"supply", Event.contract>>}
    BY <1>1, <2>2, <2>3, <2>4, <2>6 DEF AtTokenEvent, AtEvent, EventPcs, CallInv
  <2>7. CASE SaveTokenContract
    BY <1>1, <2>1, <2>7 DEF SaveTokenContract
  <2>8. CASE Inited \/ InitedFails
    BY <1>1, <2>3, <2>8 DEF Inited, InitedFails, AtTokenEvent, AtEvent, EventPcs
  <2>9. CASE RecordTransfer \/ UpdateTokenBalance \/ UpdateTotalSupply
    BY <1>1, <2>9 DEF RecordTransfer, UpdateTokenBalance, UpdateTotalSupply, SetErrDone
  <2> QED
    BY <2>5, <2>6, <2>7, <2>8, <2>9, FailedWritten
<1>14. missed' \subseteq OpKeys \X Nat
  <2>1. CASE TokenMissed
    <3>1. pc \in PluginPcs /\ missed' = missed \cup {<<OpKey, ev>>}
      BY <2>1 DEF TokenMissed, AtEvent, PluginPcs
    <3>2. OpKey \in OpKeys
      BY <3>1, PluginFacts
    <3> QED
      BY <1>1, <3>1, <3>2
  <2> QED
    BY <1>1, <2>1, MissedWritten
<1> QED
  BY <1>2, <1>3, <1>5, <1>6, <1>7, <1>8, <1>9, <1>10, <1>11, <1>12, <1>13, <1>14 DEF TypeOK

LEMMA UnseenWritten ==
    [Next]_vars =>
        \/ UNCHANGED unseen
        \/ GetTxReceipts \/ AbandonBlock \/ AbandonTransaction
  BY DEF Next, ScanStep, vars, loopVars, eventVars, tables, observers, rest, atEvent,
         Start, ProcessEnds, NodeProducesBlock, GetBlock, UpdateLastScannedAtHead,
         GetTxReceipts, AbandonBlock, AbandonTransaction, TransactionDone, FinishBlock,
         RegisterAccount, RegisterAccountFails, NotATokenRegistration,
         RegistrationUndecodable, SaveTokenContract, SaveTokenContractFails,
         IsTokenContractFails, SkipEvent, TokenMissed, Inited, InitedFails, UnreadableTransfer,
         RecordTransfer, RecordTransferFails, UpdateTokenBalance, BalanceUnanswered,
         UpdateTokenBalanceFails, TransferDone, UpdateTotalSupply, SupplyUnanswered,
         UpdateTotalSupplyFails, PluginsDone, PluginsFail, Dies

\* The users of a transfer are being updated.
LEMMA UsersWritten ==
    [Next]_vars /\ pc' = "users" =>
        \/ pc = "users" /\ UNCHANGED <<n, x, i, got, ev>>
        \/ RecordTransfer
  BY DEF Next, ScanStep, vars, loopVars, eventVars, tables, observers, rest, atEvent,
         Start, ProcessEnds, NodeProducesBlock, GetBlock, UpdateLastScannedAtHead,
         GetTxReceipts, AbandonBlock, AbandonTransaction, TransactionDone, FinishBlock,
         RegisterAccount, RegisterAccountFails, NotATokenRegistration,
         RegistrationUndecodable, SaveTokenContract, SaveTokenContractFails,
         IsTokenContractFails, SkipEvent, TokenMissed, Inited, InitedFails, UnreadableTransfer,
         RecordTransfer, RecordTransferFails, UpdateTokenBalance, BalanceUnanswered,
         UpdateTokenBalanceFails, TransferDone, UpdateTotalSupply, SupplyUnanswered,
         UpdateTotalSupplyFails, PluginsDone, PluginsFail, Dies, AtTokenEvent, AtEvent

LEMMA ErrorWritten ==
    [Next]_vars =>
        \/ pc' \in EventPcs
        \/ err' = {}
        \/ UNCHANGED err /\ pc \notin EventPcs
  BY DEF Next, ScanStep, vars, loopVars, eventVars, tables, observers, rest, atEvent,
         Start, ProcessEnds, NodeProducesBlock, GetBlock, UpdateLastScannedAtHead,
         GetTxReceipts, AbandonBlock, AbandonTransaction, TransactionDone, FinishBlock,
         RegisterAccount, RegisterAccountFails, NotATokenRegistration,
         RegistrationUndecodable, SaveTokenContract, SaveTokenContractFails,
         IsTokenContractFails, SkipEvent, TokenMissed, Inited, InitedFails, UnreadableTransfer,
         RecordTransfer, RecordTransferFails, UpdateTokenBalance, BalanceUnanswered,
         UpdateTokenBalanceFails, TransferDone, UpdateTotalSupply, SupplyUnanswered,
         UpdateTotalSupplyFails, PluginsDone, PluginsFail, Dies, SetErr, EventPcs, AtTokenEvent, AtEvent, SetErrDone,
         IsTokenContract

\* A transfer that is recorded has a row.
LEMMA TransferSets ==
    ASSUME TypeOK, PositionInv, RecordTransfer
    PROVE  OpKey \in OpKeys /\ history'[OpKey] # <<>>
<1>1. pc \in PluginPcs /\ history' \in FoundOrInserted(history, OpKey, ev)
  BY DEF RecordTransfer, AtTokenEvent, AtEvent, PluginPcs, HistoryFoundOrSaved
<1>2. OpKey \in OpKeys /\ ev \in Number
  BY <1>1, PluginFacts, HereFacts DEF Number
<1>3. history \in Table(OpKeys, Number)
  BY TypesOfTables
<1> QED
  BY <1>1, <1>2, <1>3, FoundOrInsertedFacts

LEMMA CallStep ==
    ASSUME TypeOK, PositionInv, CallInv, [Next]_vars
    PROVE  CallInv'
<1>1. /\ UNCHANGED <<n, x>> => Tx' = Tx
      /\ UNCHANGED <<n, x, i, got>> => Events' = Events /\ OpKey' = OpKey
      /\ UNCHANGED <<n, x, i, got, ev>> => Event' = Event
  BY DEF Tx, Events, OpKey, Event
<1>2. pc' \in OpPcs /\ CheckTransactionHasContractOp(Tx') /\ ~got' =>
          {Tx'.id} \X DOMAIN Tx'.ops \subseteq unseen'
  <2>1. CASE GetTxReceipts
    <3>1. Tx' = Tx
      BY <1>1, <2>1 DEF GetTxReceipts
    <3>2. CheckTransactionHasContractOp(Tx) /\ ~got' =>
              unseen' = unseen \cup ({Tx.id} \X DOMAIN Tx.ops)
      BY <2>1 DEF GetTxReceipts
    <3> QED
      BY <3>1, <3>2
  <2>2. CASE AbandonBlock \/ AbandonTransaction \/ TransactionDone \/ FinishBlock
    BY <2>2 DEF AbandonBlock, AbandonTransaction, TransactionDone, FinishBlock, OpPcs
  <2>3. CASE Start \/ GetBlock
    BY <2>3 DEF Start, GetBlock, OpPcs
  <2>4. CASE /\ UNCHANGED unseen
             /\ pc' \in OpPcs => pc \in OpPcs /\ UNCHANGED <<n, x, got>>
    BY <1>1, <2>4 DEF CallInv
  <2>5. \/ UNCHANGED <<pc, n, x, got>>
        \/ pc' = "down"
        \/ Start \/ GetBlock \/ GetTxReceipts \/ AbandonBlock \/ AbandonTransaction
        \/ TransactionDone \/ FinishBlock
        \/ pc \in OpPcs /\ UNCHANGED <<n, x, got>>
    BY ScanMoved DEF PluginsDone, OpPcs
  <2> QED
    BY <2>1, <2>2, <2>3, <2>4, <2>5, UnseenWritten DEF OpPcs
<1>3. pc' \notin EventPcs => err' = {}
  BY ErrorWritten DEF CallInv
<1>4. pc' = "users" =>
          /\ ev' <= Len(Events') /\ Moves(Event')
          /\ tokens'[Event'.contract] # <<>> /\ history'[OpKey'] # <<>>
  <2>1. CASE pc = "users" /\ UNCHANGED <<n, x, i, got, ev>>
    <3>1. Events' = Events /\ OpKey' = OpKey /\ Event' = Event
      BY <1>1, <2>1
    <3>2. /\ ev <= Len(Events) /\ Moves(Event)
          /\ tokens[Event.contract] # <<>> /\ history[OpKey] # <<>>
      BY <2>1 DEF CallInv
    <3>3. Event.contract \in Contracts /\ OpKey \in OpKeys
      BY <2>1, <3>2, EventFacts, PluginFacts DEF EventPcs, PluginPcs
    <3>4. tokens'[Event.contract] # <<>> /\ history'[OpKey] # <<>>
      BY <3>2, <3>3, TokenKnown, HistoryStep
    <3> QED
      BY <2>1, <3>1, <3>2, <3>4
  <2>2. CASE RecordTransfer
    <3>1. /\ UNCHANGED <<n, x, i, got, ev, tokens>> /\ AtTokenEvent("Transfer")
      BY <2>2 DEF RecordTransfer, rest
    <3>2. /\ ev <= Len(Events) /\ Moves(Event) /\ tokens[Event.contract] # <<>>
          /\ pc \in PluginPcs
      BY <3>1 DEF AtTokenEvent, AtEvent, IsTokenContract, Moves, PluginPcs
    <3>3. history'[OpKey] # <<>>
      BY <2>2, TransferSets
    <3> QED
      BY <1>1, <3>1, <3>2, <3>3
  <2> QED
    BY <2>1, <2>2, UsersWritten
<1> QED
  BY <1>2, <1>3, <1>4 DEF CallInv, CheckTransactionHasContractOp, Moves

-----------------------------------------------------------------------------
(* One row of each key, and no version that the node does not have.         *)

LEMMA RowStep ==
    ASSUME TypeOK, PositionInv, CallInv, RowInv, [Next]_vars
    PROVE  RowInv'
<1> SUFFICES ASSUME ~RowsMissed
             PROVE  /\ OneRowOfAKnownToken'
                    /\ \A q \in Operations : history'[KeyAt(q)] # <<>> =>
                          history'[KeyAt(q)][1] \in DOMAIN EventsAt(q)
  BY DEF RowInv, KeyAt, EventsAt, EventsOf, Succeeded, ReceiptAt
<1>1. ASSUME NEW c \in Contracts
      PROVE  /\ tokens[c] # <<>> => tokens'[c] # <<>>
             /\ Len(tokens'[c]) <= 1
  <2>1. tokens[c] # <<>> => tokens'[c] # <<>>
    BY TokenKnown
  <2>2. Len(tokens[c]) <= 1 /\ Len(<<>>) = 0
    BY DEF RowInv, OneRowOfAKnownToken
  <2>3. Len(tokens'[c]) = Len(tokens[c])
        \/ (Len(tokens'[c]) = Len(tokens[c]) + 1 /\ tokens[c] = <<>>)
    BY TokensStep
  <2> QED
    BY <2>1, <2>2, <2>3
<1>2. ASSUME NEW k \in BalanceKeys
      PROVE  Len(balances'[k]) <= (IF tokens'[k[1]] = <<>> THEN 0 ELSE 1)
  <2>1. k[1] \in Contracts /\ Len(<<>>) = 0
    BY DEF BalanceKeys
  <2>2. Len(balances[k]) \in Nat /\ Len(balances[k]) <= (IF tokens[k[1]] = <<>> THEN 0 ELSE 1)
    BY SeqFacts DEF RowInv, OneRowOfAKnownToken, TypeOK
  <2>3. \/ Len(balances'[k]) = Len(balances[k])
        \/ /\ Len(balances'[k]) = Len(balances[k]) + 1 /\ balances[k] = <<>>
           /\ tokens' = tokens /\ tokens[k[1]] # <<>>
    BY BalancesStep
  <2> QED
    BY <1>1, <2>1, <2>2, <2>3
<1>3. ASSUME NEW q \in Operations, history'[KeyAt(q)] # <<>>
      PROVE  /\ Len(history'[KeyAt(q)]) = 1
             /\ history'[KeyAt(q)][1] \in DOMAIN EventsAt(q)
             /\ tokens'[EventsAt(q)[history'[KeyAt(q)][1]].contract] # <<>>
  <2>1. KeyAt(q) \in OpKeys
    BY OperationFacts
  <2>2. CASE history'[KeyAt(q)] = history[KeyAt(q)]
    <3> DEFINE v == history[KeyAt(q)][1]
    <3>1. /\ Len(history[KeyAt(q)]) = 1 /\ v \in DOMAIN EventsAt(q)
          /\ tokens[EventsAt(q)[v].contract] # <<>>
      BY <1>3, <2>2 DEF RowInv, OneRowOfAKnownToken
    <3>2. EventsAt(q)[v].contract \in Contracts
      <4>1. IsTransaction(Chain[q[1]][q[2]]) /\ q[3] \in Nat \ {0}
        BY OperationFacts
      <4>2. IsEvent(EventsAt(q)[v])
        BY <3>1, <4>1, EventsFacts DEF EventsAt
      <4> QED
        BY <4>2 DEF IsEvent
    <3> QED
      BY <1>1, <2>2, <3>1, <3>2
  <2>3. CASE /\ KeyAt(q) = OpKey /\ pc = "events" /\ ev <= Len(Events) /\ ev \in Nat
             /\ history'[KeyAt(q)] = Append(history[KeyAt(q)], ev)
             /\ history[KeyAt(q)] = <<>>
             /\ tokens' = tokens /\ tokens[Event.contract] # <<>>
    <3>1. pc \in PluginPcs /\ pc \in EventPcs
      BY <2>3 DEF PluginPcs, EventPcs
    <3>2. <<n, x, i>> \in Operations /\ KeyAt(q) = KeyAt(<<n, x, i>>)
      BY <2>3, <3>1, HereFacts, PluginFacts
    <3>3. q = <<n, x, i>>
      BY <3>2, ChainAssumption
    <3>4. ev \in DOMAIN EventsAt(q) /\ Event = EventsAt(q)[ev]
      BY <2>3, <3>1, <3>3, EventFacts
    <3>5. Len(history'[KeyAt(q)]) = 1 /\ history'[KeyAt(q)][1] = ev
      BY <2>3
    <3> QED
      BY <2>3, <3>4, <3>5
  <2> QED
    BY <2>1, <2>2, <2>3, HistoryStep
<1>4. ASSUME NEW u \in Users
      PROVE  Len(accounts'[u]) <= 1
  <2>1. Len(accounts[u]) <= 1
    BY DEF RowInv, OneRowOfAKnownToken
  <2>2. CASE accounts[u] = <<>> /\ \E name \in Names : accounts'[u] = Append(accounts[u], name)
    <3>1. PICK name \in Names : accounts'[u] = Append(<<>>, name)
      BY <2>2
    <3>2. Len(Append(<<>>, name)) = 1
      OBVIOUS
    <3> QED
      BY <3>1, <3>2
  <2> QED
    BY <2>1, <2>2, AccountsStep
<1>5. OneRowOfAKnownToken'
  BY <1>1, <1>2, <1>3, <1>4
     DEF OneRowOfAKnownToken, KeyAt, EventsAt, EventsOf, Succeeded, ReceiptAt
<1> QED
  BY <1>3, <1>5

LEMMA RegistrationFacts ==
    ASSUME NEW r \in TokenRegistrations
    PROVE  /\ r \in Operations /\ r[1] \in 0 .. Len(Chain) /\ r[1] \in Nat
           /\ OpAt(r).contract \in Contracts /\ OpAt(r).abi = "token"
           /\ \A q \in TokenRegistrations : OpAt(q).contract = OpAt(r).contract => q = r
           /\ \A e \in Happened : e[5].contract = OpAt(r).contract => ~Precedes(e, r)
<1>1. r \in Registrations /\ r \in Operations /\ OpAt(r).kind = "register" /\ OpAt(r).abi = "token"
  BY DEF TokenRegistrations, Registrations
<1>2. r[1] \in Heights /\ IsTransaction(Chain[r[1]][r[2]]) /\ r[3] \in DOMAIN Chain[r[1]][r[2]].ops
  BY <1>1, OperationFacts
<1>3. r[1] \in 0 .. Len(Chain) /\ r[1] \in Nat
  BY <1>2, ChainFacts
<1>4. OpAt(r).contract \in Contracts
  BY <1>1, <1>2, OpFacts DEF OpAt
<1>5. /\ \A q \in Registrations : OpAt(q).contract = OpAt(r).contract => q = r
      /\ \A e \in Happened : e[5].contract = OpAt(r).contract => ~Precedes(e, r)
  BY <1>1, ChainAssumption
<1> QED
  BY <1>1, <1>3, <1>4, <1>5 DEF TokenRegistrations

\* The registration the plugins are at.
LEMMA RegistrationHere ==
    ASSUME TypeOK, PositionInv, pc = "create", IsTokenRegistration
    PROVE  /\ <<n, x, i>> \in TokenRegistrations /\ OpAt(<<n, x, i>>) = Op
           /\ Op.contract \in Contracts
<1>1. pc \in PluginPcs
  BY DEF PluginPcs
<1>2. <<n, x, i>> \in Operations /\ OpAt(<<n, x, i>>) = Op
  BY <1>1, HereFacts, PluginFacts
<1>3. <<n, x, i>> \in Registrations
  BY <1>2 DEF Registrations, IsTokenRegistration, Registration, Tx
<1>4. <<n, x, i>> \in TokenRegistrations
  BY <1>2, <1>3 DEF TokenRegistrations, IsTokenRegistration
<1> QED
  BY <1>2, <1>4, RegistrationFacts

LEMMA HeadStep ==
    ASSUME TypeOK, PositionInv, [Next]_vars
    PROVE  /\ head \in 0 .. Len(Chain) /\ head' \in 0 .. Len(Chain)
           /\ head \in Nat /\ head' \in Nat /\ head <= head'
  BY HeadWritten, HereFacts, ChainFacts

LEMMA VersionStep ==
    ASSUME TypeOK, PositionInv, CallInv, VersionInv, [Next]_vars
    PROVE  VersionInv'
<1>1. PICK h \in Nat : h = head' /\ h \in 0 .. Len(Chain) /\ head <= h
  BY HeadStep
<1>2. head \in 0 .. Len(Chain) /\ head \in Nat
  BY HeadStep
<1>3. ASSUME NEW c \in Contracts
      PROVE  /\ InfoAt[head][c] \in Nat /\ InfoAt[h][c] \in Nat /\ InfoAt[head][c] <= InfoAt[h][c]
             /\ SupplyAt[head][c] \in Nat /\ SupplyAt[h][c] \in Nat
             /\ SupplyAt[head][c] <= SupplyAt[h][c]
  BY <1>1, <1>2, VersionFacts
<1>4. ASSUME NEW c \in Contracts, NEW r \in DOMAIN tokens[c]
      PROVE  tokens[c][r].info \in Int /\ tokens[c][r].supply \in Int
  <2>1. tokens[c] \in Seq(TokenRow)
    BY DEF TypeOK, TokenRow
  <2>2. tokens[c][r] \in TokenRow
    BY <2>1, SeqFacts
  <2> QED
    BY <2>2 DEF TokenRow
<1>5. ASSUME NEW c \in Contracts, NEW r, r \in DOMAIN tokens'[c]
      PROVE  tokens'[c][r].info <= InfoAt[h][c] /\ tokens'[c][r].supply <= SupplyAt[h][c]
  <2>1. CASE r \in DOMAIN tokens[c]
    <3>1. tokens[c][r].info <= InfoAt[head][c] /\ tokens[c][r].supply <= SupplyAt[head][c]
      BY <2>1 DEF VersionInv
    <3>2. /\ tokens'[c][r].info \in {tokens[c][r].info, InfoAt[head][c]}
          /\ tokens'[c][r].supply \in {tokens[c][r].supply, SupplyAt[head][c]}
      BY <2>1, TokensStep
    <3>3. /\ tokens[c][r].info <= InfoAt[h][c] /\ InfoAt[head][c] <= InfoAt[h][c]
          /\ tokens[c][r].supply <= SupplyAt[h][c] /\ SupplyAt[head][c] <= SupplyAt[h][c]
      BY <1>3, <1>4, <2>1, <3>1
    <3> QED
      BY <3>2, <3>3
  <2>2. CASE r \notin DOMAIN tokens[c]
    <3>1. /\ tokens'[c][r].info \in {Unknown, InfoAt[head][c]}
          /\ tokens'[c][r].supply \in {Unknown, SupplyAt[head][c]}
      BY <1>5, <2>2, TokensStep
    <3> QED
      BY <1>3, <3>1 DEF Unknown
  <2> QED
    BY <2>1, <2>2
<1>6. ASSUME NEW k \in BalanceKeys, NEW r, r \in DOMAIN balances'[k]
      PROVE  balances'[k][r] <= BalanceAt[h][k]
  <2>1. /\ BalanceAt[head][k] \in Nat /\ BalanceAt[h][k] \in Nat
        /\ BalanceAt[head][k] <= BalanceAt[h][k]
    BY <1>1, <1>2, VersionFacts
  <2>2. CASE r \in DOMAIN balances[k] /\ balances'[k][r] = balances[k][r]
    <3>1. balances[k] \in Seq(Nat)
      BY DEF TypeOK
    <3>2. balances[k][r] \in Nat /\ balances[k][r] <= BalanceAt[head][k]
      BY <2>2, <3>1, SeqFacts DEF VersionInv
    <3> QED
      BY <2>1, <2>2, <3>2
  <2>3. CASE balances'[k][r] = BalanceAt[head][k]
    BY <2>1, <2>3
  <2> QED
    BY <1>6, <2>2, <2>3, BalancesStep
<1>7. ASSUME NEW q \in TokenRegistrations, NEW r, r \in DOMAIN tokens'[OpAt(q).contract]
      PROVE  LET c == OpAt(q).contract IN
             /\ q[1] <= h
             /\ tokens'[c][r].info = Unknown \/ tokens'[c][r].info >= InfoAt[q[1]][c]
             /\ tokens'[c][r].supply = Unknown \/ tokens'[c][r].supply >= SupplyAt[q[1]][c]
  <2> DEFINE c == OpAt(q).contract
  <2>1. c \in Contracts /\ q[1] \in 0 .. Len(Chain) /\ q[1] \in Nat
    BY RegistrationFacts
  <2>2. r \in DOMAIN tokens'[c]
    BY <1>7
  <2> HIDE DEF c
  <2>3. q[1] <= head
    <3>1. CASE r \in DOMAIN tokens[c]
      BY <3>1 DEF VersionInv, c
    <3>2. CASE r \notin DOMAIN tokens[c]
      <4>1. pc = "create" /\ IsTokenRegistration /\ c = Op.contract
        BY <2>1, <2>2, <3>2, TokensStep
      <4>2. q = <<n, x, i>>
        BY <4>1, RegistrationHere, RegistrationFacts DEF c
      <4>3. pc \in {"tx"} \cup OpPcs
        BY <4>1 DEF OpPcs
      <4> QED
        BY <4>2, <4>3, HereFacts
    <3> QED
      BY <3>1, <3>2
  <2>4. /\ InfoAt[q[1]][c] \in Nat /\ InfoAt[q[1]][c] <= InfoAt[head][c]
        /\ SupplyAt[q[1]][c] \in Nat /\ SupplyAt[q[1]][c] <= SupplyAt[head][c]
        /\ InfoAt[head][c] \in Nat /\ SupplyAt[head][c] \in Nat
    BY <1>2, <2>1, <2>3, VersionFacts
  <2>5. q[1] <= h
    BY <1>1, <1>2, <2>1, <2>3
  <2>6. CASE r \in DOMAIN tokens[c]
    <3>1. /\ tokens[c][r].info = Unknown \/ tokens[c][r].info >= InfoAt[q[1]][c]
          /\ tokens[c][r].supply = Unknown \/ tokens[c][r].supply >= SupplyAt[q[1]][c]
      BY <2>6 DEF VersionInv, c
    <3>2. /\ tokens'[c][r].info \in {tokens[c][r].info, InfoAt[head][c]}
          /\ tokens'[c][r].supply \in {tokens[c][r].supply, SupplyAt[head][c]}
      BY <2>1, <2>6, TokensStep
    <3>3. /\ tokens'[c][r].info = Unknown \/ tokens'[c][r].info >= InfoAt[q[1]][c]
          /\ tokens'[c][r].supply = Unknown \/ tokens'[c][r].supply >= SupplyAt[q[1]][c]
      BY <2>4, <3>1, <3>2
    <3> QED
      BY <2>5, <3>3 DEF c
  <2>7. CASE r \notin DOMAIN tokens[c]
    <3>1. /\ tokens'[c][r].info \in {Unknown, InfoAt[head][c]}
          /\ tokens'[c][r].supply \in {Unknown, SupplyAt[head][c]}
      BY <2>1, <2>2, <2>7, TokensStep
    <3>2. /\ tokens'[c][r].info = Unknown \/ tokens'[c][r].info >= InfoAt[q[1]][c]
          /\ tokens'[c][r].supply = Unknown \/ tokens'[c][r].supply >= SupplyAt[q[1]][c]
      BY <2>4, <3>1
    <3> QED
      BY <2>5, <3>2 DEF c
  <2> QED
    BY <2>6, <2>7
<1>8. head' = h
  BY <1>1
<1> HIDE DEF TokenRegistrations
<1>9. \A c \in Contracts : \A r \in DOMAIN tokens'[c] :
          tokens'[c][r].info <= InfoAt[head'][c] /\ tokens'[c][r].supply <= SupplyAt[head'][c]
  BY <1>5, <1>8
<1>10. \A k \in BalanceKeys : \A r \in DOMAIN balances'[k] :
          balances'[k][r] <= BalanceAt[head'][k]
  BY <1>6, <1>8
<1>11. \A q \in TokenRegistrations : LET c == OpAt(q).contract IN \A r \in DOMAIN tokens'[c] :
          /\ q[1] <= head'
          /\ tokens'[c][r].info = Unknown \/ tokens'[c][r].info >= InfoAt[q[1]][c]
          /\ tokens'[c][r].supply = Unknown \/ tokens'[c][r].supply >= SupplyAt[q[1]][c]
  BY <1>7, <1>8
<1> QED
  BY <1>9, <1>10, <1>11 DEF VersionInv

-----------------------------------------------------------------------------
(* What the plugins were done with.                                         *)

\* An operation that is behind the scan after a step was so before it, but for
\* the one the plugins are done with in the step.
LEMMA DoneStep ==
    ASSUME TypeOK, PositionInv, CallInv, [Next]_vars,
           NEW q, <<q[1], q[2], q[3]>> \in Operations, Done(q)'
    PROVE  Done(q) \/ (PluginsDone /\ Here(q) /\ KeyAt(q) \notin unseen)
<1> DEFINE o == <<q[1], q[2], q[3]>>
<1>1. /\ q[1] \in Nat /\ q[2] \in Nat /\ q[3] \in Nat /\ q[3] >= 1 /\ q[2] >= 1
      /\ q[1] \in Heights /\ q[2] \in DOMAIN Chain[q[1]]
      /\ q[2] <= Len(Chain[q[1]]) /\ Len(Chain[q[1]]) \in Nat
      /\ q[3] \in DOMAIN Chain[q[1]][q[2]].ops
      /\ q[3] <= Len(Chain[q[1]][q[2]].ops) /\ Len(Chain[q[1]][q[2]].ops) \in Nat
      /\ KeyAt(q) = <<Chain[q[1]][q[2]].id, q[3]>> /\ KeyAt(q) = KeyAt(o)
  <2>1. /\ o[1] = q[1] /\ o[2] = q[2] /\ o[3] = q[3]
    OBVIOUS
  <2>2. /\ o[1] \in Heights /\ o[2] \in DOMAIN Chain[o[1]]
        /\ o[3] \in DOMAIN Chain[o[1]][o[2]].ops
        /\ o[1] \in Nat \ {0} /\ o[2] \in Nat \ {0} /\ o[3] \in Nat \ {0}
        /\ IsTransaction(Chain[o[1]][o[2]])
    BY OperationFacts
  <2>3. /\ Len(Chain[o[1]]) \in Nat /\ DOMAIN Chain[o[1]] = 1 .. Len(Chain[o[1]])
        /\ Len(Chain[o[1]][o[2]].ops) \in Nat
        /\ DOMAIN Chain[o[1]][o[2]].ops = 1 .. Len(Chain[o[1]][o[2]].ops)
    BY <2>2, ChainFacts, TransactionFacts
  <2>4. o[2] <= Len(Chain[o[1]]) /\ o[3] <= Len(Chain[o[1]][o[2]].ops)
    BY <2>2, <2>3
  <2>5. KeyAt(q) = <<Chain[q[1]][q[2]].id, q[3]>> /\ KeyAt(q) = KeyAt(o)
    BY <2>1 DEF KeyAt
  <2> HIDE DEF o
  <2> QED
    BY <2>1, <2>2, <2>3, <2>4, <2>5
<1>2. /\ n \in Nat /\ x \in Nat /\ i \in Nat /\ lastScanned \in Nat
      /\ pc # "down" => lastScanned < n
  BY HereFacts
<1>3. KeyAt(q) \notin unseen' /\ Behind(q)'
  BY DEF Done, KeyAt
<1>4. /\ "tx" \in {"tx"} \cup OpPcs /\ OpPcs \subseteq {"tx"} \cup OpPcs
      /\ PluginPcs \subseteq OpPcs /\ "op" \in OpPcs /\ "tx" \notin OpPcs
      /\ "loop" \notin {"tx"} \cup OpPcs /\ "down" \notin {"tx"} \cup OpPcs
  BY DEF OpPcs, PluginPcs
<1>5. CASE GetTxReceipts
  <2>1. Behind(q)
    BY <1>1, <1>2, <1>3, <1>4, <1>5 DEF GetTxReceipts, Behind
  <2>2. KeyAt(q) \notin {Tx.id} \X DOMAIN Tx.ops
    <3>1. SUFFICES ASSUME KeyAt(q) \in {Tx.id} \X DOMAIN Tx.ops PROVE FALSE
      OBVIOUS
    <3>2. KeyAt(q) = <<Tx.id, q[3]>> /\ q[3] \in DOMAIN Tx.ops
      BY <1>1, <3>1
    <3>3. n \in Heights /\ x \in DOMAIN Chain[n] /\ pc = "tx"
      BY <1>4, <1>5, HereFacts, ChainFacts DEF GetTxReceipts
    <3>4. <<n, x, q[3]>> \in Operations /\ KeyAt(<<n, x, q[3]>>) = KeyAt(q)
      BY <3>2, <3>3, OperationFacts DEF Tx, KeyAt
    <3>5. o = <<n, x, q[3]>>
      BY <1>1, <3>4, ChainAssumption
    <3>6. q[1] = n /\ q[2] = x
      BY <3>5
    <3> QED
      BY <1>1, <1>2, <1>4, <2>1, <3>3, <3>6 DEF Behind
  <2>3. KeyAt(q) \notin unseen
    BY <1>3, <1>5, <2>2 DEF GetTxReceipts
  <2> QED
    BY <2>1, <2>3 DEF Done
<1>6. CASE AbandonBlock
  <2>1. /\ pc = "tx" /\ pc' = "tx" /\ n' = n /\ i' = i /\ lastScanned' = lastScanned
        /\ x' = Len(Chain[n]) + 1 /\ unseen' = unseen \cup KeysFrom(x)
    BY <1>6 DEF AbandonBlock
  <2>2. q[1] <= lastScanned \/ q[1] < n \/ q[1] = n
    BY <1>2, <1>3, <2>1 DEF Behind
  <2>3. CASE q[1] = n
    <3>1. q[2] < x
      <4>1. SUFFICES ASSUME q[2] >= x PROVE FALSE
        BY <1>1, <1>2
      <4>2. q[2] \in x .. Len(Chain[n])
        BY <1>1, <1>2, <2>3, <4>1
      <4>3. KeyAt(q) \in {Chain[n][q[2]].id} \X (DOMAIN Chain[n][q[2]].ops)
        BY <1>1, <2>3
      <4>4. KeyAt(q) \in KeysFrom(x)
        BY <4>2, <4>3 DEF KeysFrom
      <4> QED
        BY <1>3, <2>1, <4>4
    <3> QED
      BY <1>3, <1>4, <2>1, <2>3, <3>1 DEF Done, Behind
  <2>4. CASE q[1] # n
    BY <1>3, <2>1, <2>2, <2>4 DEF Done, Behind
  <2> QED
    BY <2>3, <2>4
<1>7. CASE AbandonTransaction
  <2>1. /\ pc = "op" /\ pc' = "tx" /\ n' = n /\ i' = i /\ lastScanned' = lastScanned
        /\ x' = x + 1 /\ unseen' = unseen \cup ({Tx.id} \X (i .. Len(Tx.ops)))
    BY <1>7 DEF AbandonTransaction
  <2>2. q[1] <= lastScanned \/ q[1] < n \/ (q[1] = n /\ q[2] < x + 1)
    BY <1>3, <1>4, <2>1 DEF Behind
  <2>3. CASE q[1] = n /\ q[2] = x
    <3>1. KeyAt(q) = <<Tx.id, q[3]>> /\ q[3] <= Len(Tx.ops) /\ Len(Tx.ops) \in Nat
      BY <1>1, <2>3 DEF Tx
    <3>2. q[3] < i
      <4>1. SUFFICES ASSUME q[3] >= i PROVE FALSE
        BY <1>1, <1>2
      <4>2. q[3] \in i .. Len(Tx.ops)
        BY <1>1, <1>2, <3>1, <4>1
      <4> QED
        BY <1>3, <2>1, <3>1, <4>2
    <3> QED
      BY <1>3, <1>4, <2>1, <2>3, <3>2 DEF Done, Behind
  <2>4. CASE q[1] # n \/ q[2] # x
    BY <1>1, <1>2, <1>3, <1>4, <2>1, <2>2, <2>4 DEF Done, Behind
  <2> QED
    BY <2>3, <2>4
<1>8. CASE TransactionDone
  <2>1. /\ pc = "op" /\ pc' = "tx" /\ n' = n /\ i' = i /\ lastScanned' = lastScanned
        /\ x' = x + 1 /\ i > Len(Tx.ops) /\ unseen' = unseen
    BY <1>8 DEF TransactionDone, observers
  <2>2. q[1] <= lastScanned \/ q[1] < n \/ (q[1] = n /\ q[2] < x + 1)
    BY <1>3, <1>4, <2>1 DEF Behind
  <2>3. q[1] = n /\ q[2] = x => q[3] < i
    BY <1>1, <1>2, <2>1 DEF Tx
  <2> QED
    BY <1>1, <1>2, <1>3, <1>4, <2>1, <2>2, <2>3 DEF Done, Behind
<1>9. CASE FinishBlock
  <2>1. /\ pc = "tx" /\ pc' = "loop" /\ n' = n + 1 /\ lastScanned' \in {lastScanned, n}
        /\ x > Len(Chain[n]) /\ unseen' = unseen
    BY <1>9 DEF FinishBlock, observers
  <2>2. q[1] <= lastScanned \/ q[1] <= n
    BY <1>1, <1>2, <1>3, <1>4, <2>1 DEF Behind
  <2>3. q[1] = n => q[2] < x
    BY <1>1, <1>2, <2>1
  <2> QED
    BY <1>1, <1>2, <1>3, <1>4, <2>1, <2>2, <2>3 DEF Done, Behind
<1>10. CASE PluginsDone
  <2>1. /\ pc = "events" /\ pc' = "op" /\ n' = n /\ x' = x /\ i' = i + 1
        /\ lastScanned' = lastScanned /\ unseen' = unseen
    BY <1>10 DEF PluginsDone
  <2>2. pc \in PluginPcs /\ pc \in OpPcs
    BY <2>1 DEF PluginPcs, OpPcs
  <2>3. \/ q[1] <= lastScanned \/ q[1] < n
        \/ q[1] = n /\ (q[2] < x \/ (q[2] = x /\ q[3] < i + 1))
    BY <1>3, <1>4, <2>1 DEF Behind
  <2> QED
    BY <1>1, <1>2, <1>3, <1>4, <1>10, <2>1, <2>2, <2>3 DEF Done, Behind, Here
<1>11. CASE UNCHANGED unseen /\ (Start \/ GetBlock \/ pc' = "down")
  <2>1. CASE Start
    BY <1>1, <1>2, <1>3, <1>4, <1>11, <2>1 DEF Start, Done, Behind
  <2>2. CASE GetBlock
    BY <1>1, <1>2, <1>3, <1>4, <1>11, <2>2 DEF GetBlock, Done, Behind
  <2>3. CASE pc' = "down"
    <3>1. lastScanned' = lastScanned
      BY <2>3, CheckpointMoved DEF FinishBlock, UpdateLastScannedAtHead
    <3> QED
      BY <1>3, <1>4, <1>11, <2>3, <3>1 DEF Done, Behind
  <2> QED
    BY <1>11, <2>1, <2>2, <2>3
<1>12. CASE /\ UNCHANGED <<unseen, n, x, i>>
            /\ pc' = pc \/ (pc \in OpPcs /\ pc' \in OpPcs)
  <2>1. lastScanned' = lastScanned \/ (pc = "loop" /\ pc' = "loop" /\ lastScanned' = n - 1)
    BY <1>2, <1>12, CheckpointMoved DEF FinishBlock, UpdateLastScannedAtHead, HeadCheckpoint
  <2>2. CASE lastScanned' = lastScanned
    BY <1>3, <1>4, <1>12, <2>2 DEF Done, Behind
  <2>3. CASE pc = "loop" /\ pc' = "loop" /\ lastScanned' = n - 1
    <3>1. q[1] <= n - 1 \/ q[1] < n
      BY <1>3, <1>4, <1>12, <2>3 DEF Behind
    <3> QED
      BY <1>1, <1>2, <1>3, <1>12, <2>3, <3>1 DEF Done, Behind
  <2> QED
    BY <2>1, <2>2, <2>3
<1>13. \/ GetTxReceipts \/ AbandonBlock \/ AbandonTransaction \/ TransactionDone \/ FinishBlock
       \/ PluginsDone
       \/ UNCHANGED unseen /\ (Start \/ GetBlock \/ pc' = "down")
       \/ UNCHANGED <<unseen, n, x, i>> /\ (pc' = pc \/ (pc \in OpPcs /\ pc' \in OpPcs))
  BY ScanMoved, UnseenWritten DEF OpPcs
<1> QED
  BY <1>5, <1>6, <1>7, <1>8, <1>9, <1>10, <1>11, <1>12, <1>13

\* Neither what the plugins were done with, nor what they are at, is ahead of
\* the node; and it does not come before what they are at.
LEMMA DoneFacts ==
    ASSUME TypeOK, PositionInv, NEW q, <<q[1], q[2], q[3]>> \in Operations,
           Done(q) \/ Here(q)
    PROVE  /\ q[1] \in 0 .. Len(Chain) /\ q[1] <= head
           /\ Done(q) /\ pc \in PluginPcs => Precedes(q, <<n, x, i>>)
<1> DEFINE o == <<q[1], q[2], q[3]>>
<1>1. q[1] \in Nat /\ q[1] \in 0 .. Len(Chain)
  <2>1. o[1] \in Heights /\ o[1] = q[1]
    BY OperationFacts
  <2> QED
    BY <2>1, ChainFacts
<1>2. /\ n \in Nat /\ lastScanned \in Nat /\ head \in Nat /\ lastScanned <= head
      /\ pc # "down" => lastScanned < n /\ n <= head + 1
      /\ pc \in {"tx"} \cup OpPcs => n <= head
  BY HereFacts
<1>3. PluginPcs \subseteq {"tx"} \cup OpPcs /\ "down" \notin PluginPcs
  BY DEF PluginPcs, OpPcs
<1>4. q[1] <= head
  <2>1. \/ q[1] <= lastScanned
        \/ pc # "down" /\ q[1] < n
        \/ pc \in {"tx"} \cup OpPcs /\ q[1] = n
    BY <1>3 DEF Done, Behind, Here
  <2> QED
    BY <1>1, <1>2, <2>1
<1>5. ASSUME Done(q), pc \in PluginPcs PROVE Precedes(q, <<n, x, i>>)
  <2>1. <<n, x, i>>[1] = n /\ <<n, x, i>>[2] = x /\ <<n, x, i>>[3] = i
    OBVIOUS
  <2>2. q[1] < n \/ (q[1] = n /\ (q[2] < x \/ (q[2] = x /\ q[3] < i)))
    BY <1>1, <1>2, <1>3, <1>5 DEF Done, Behind
  <2> QED
    BY <2>1, <2>2 DEF Precedes
<1> QED
  BY <1>1, <1>4, <1>5

-----------------------------------------------------------------------------
(* What was recorded stays so.                                              *)

\* The work w had failed and is done again.
Redone(w) ==
    \/ Inited /\ w \in {"info", "supply"} \X {Event.contract}
    \/ RecordTransfer /\ w = <<"history", OpKey>>
    \/ UpdateTokenBalance /\ w = <<"balance", BKey>>
    \/ UpdateTotalSupply /\ w = <<"supply", Event.contract>>

\* A failure is not forgotten before its work is done again, unless the process
\* ends.
LEMMA FailedStep ==
    ASSUME [Next]_vars
    PROVE  /\ \A w \in hidden : w \in hidden' \/ Redone(w)
           /\ pc' # "down" =>
                 \A w \in hidden \cup err : w \in hidden' \cup err' \/ Redone(w)
<1>1. CASE SaveTokenContract
  BY <1>1 DEF SaveTokenContract
<1>2. CASE Inited
  BY <1>2 DEF Inited, Redone
<1>3. CASE InitedFails
  BY <1>3 DEF InitedFails
<1>4. CASE RecordTransfer
  BY <1>4 DEF RecordTransfer, SetErrDone, Redone
<1>5. CASE UpdateTokenBalance
  BY <1>5 DEF UpdateTokenBalance, SetErrDone, Redone
<1>6. CASE UpdateTotalSupply
  BY <1>6 DEF UpdateTotalSupply, SetErrDone, Redone
<1>7. CASE UNCHANGED <<err, hidden>> \/ (err' = {} /\ UNCHANGED hidden /\ pc' = "down")
  BY <1>7
<1>8. CASE hidden' = hidden \cup err
  BY <1>8
<1> QED
  BY <1>1, <1>2, <1>3, <1>4, <1>5, <1>6, <1>7, <1>8, FailedWritten

\* What the work done again leaves in the tables.
LEMMA InitedSets ==
    ASSUME TypeOK, PositionInv, CallInv, Inited
    PROVE  LET c == Event.contract IN
           /\ c \in Contracts
           /\ \E r \in DOMAIN tokens'[c] : tokens'[c][r].common
           /\ (\E r \in DOMAIN tokens'[c] : tokens'[c][r].info = InfoAt[head][c])
                 \/ <<"info", c>> \in hidden'
           /\ (\E r \in DOMAIN tokens'[c] : tokens'[c][r].supply = SupplyAt[head][c])
                 \/ <<"supply", c>> \in hidden'
<1> DEFINE c == Event.contract
<1>1. /\ pc \in EventPcs /\ ev <= Len(Events)
      /\ \E info \in InfoReplies(c), supply \in SupplyReplies(c) :
            /\ \E r \in DOMAIN tokens[c] :
                  tokens' = [tokens EXCEPT ![c][r] = Initialised(tokens[c][r], info, supply)]
            /\ Unanswered(c, <<[info |-> info, supply |-> supply]>>) \subseteq hidden'
  BY DEF Inited, RowInited, AtTokenEvent, AtEvent, EventPcs
<1>2. c \in Contracts
  BY <1>1, EventFacts
<1> HIDE DEF c
<1>3. PICK info \in InfoReplies(c), supply \in SupplyReplies(c) :
            /\ \E r \in DOMAIN tokens[c] :
                  tokens' = [tokens EXCEPT ![c][r] = Initialised(tokens[c][r], info, supply)]
            /\ Unanswered(c, <<[info |-> info, supply |-> supply]>>) \subseteq hidden'
  BY <1>1
<1>4. PICK r \in DOMAIN tokens[c] :
            tokens' = [tokens EXCEPT ![c][r] = Initialised(tokens[c][r], info, supply)]
  BY <1>3
<1> DEFINE row == Initialised(tokens[c][r], info, supply)
<1>5. tokens \in Table(Contracts, TokenRow)
  BY TypesOfTables
<1>6. tokens[c][r] \in TokenRow
  BY <1>2, <1>4, <1>5, SeqFacts DEF Table
<1>7. /\ info \in Int /\ info \in {Unknown, InfoAt[head][c]}
      /\ supply \in Int /\ supply \in {Unknown, SupplyAt[head][c]}
  BY <1>2, <1>3, RepliesFacts
<1>8. /\ row \in TokenRow /\ row.common
      /\ row.info = InfoAt[head][c] \/ info = Unknown
      /\ row.supply = SupplyAt[head][c] \/ supply = Unknown
  BY <1>6, <1>7 DEF Initialised, TokenRow
<1> HIDE DEF row
<1>9. r \in DOMAIN tokens[c] /\ tokens' = Changed(tokens, c, r, row)
  BY <1>4 DEF row, Changed
<1>10. r \in DOMAIN tokens'[c] /\ tokens'[c][r] = row
  BY <1>2, <1>5, <1>8, <1>9, RowChanged
<1>11. /\ info = Unknown => <<"info", c>> \in hidden'
       /\ supply = Unknown => <<"supply", c>> \in hidden'
  <2> DEFINE answer == [info |-> info, supply |-> supply]
  <2>1. answer["info"] = info /\ answer["supply"] = supply
    OBVIOUS
  <2> HIDE DEF answer
  <2>2. DOMAIN <<answer>> = {1} /\ <<answer>>[1] = answer
    OBVIOUS
  <2>3. Unanswered(c, <<answer>>) = {w \in {"info", "supply"} : answer[w] = Unknown} \X {c}
    BY <2>2 DEF Unanswered
  <2>4. Unanswered(c, <<answer>>) \subseteq hidden'
    BY <1>3 DEF answer
  <2> QED
    BY <2>1, <2>3, <2>4
<1> QED
  BY <1>2, <1>8, <1>10, <1>11 DEF c

LEMMA SupplySets ==
    ASSUME TypeOK, PositionInv, CallInv, UpdateTotalSupply
    PROVE  LET c == Event.contract IN
           c \in Contracts /\ \E r \in DOMAIN tokens'[c] : tokens'[c][r].supply = SupplyAt[head][c]
<1> DEFINE c == Event.contract
<1>1. /\ pc \in EventPcs /\ ev <= Len(Events)
      /\ \E r \in DOMAIN tokens[c] :
            tokens' = [tokens EXCEPT ![c][r] = [tokens[c][r] EXCEPT !.supply = SupplyAt[head][c]]]
  BY DEF UpdateTotalSupply, CallInv, EventPcs, SupplyUpdated
<1>2. c \in Contracts
  BY <1>1, EventFacts
<1> HIDE DEF c
<1>3. PICK r \in DOMAIN tokens[c] :
            tokens' = [tokens EXCEPT ![c][r] = [tokens[c][r] EXCEPT !.supply = SupplyAt[head][c]]]
  BY <1>1
<1> DEFINE row == [tokens[c][r] EXCEPT !.supply = SupplyAt[head][c]]
<1>4. tokens \in Table(Contracts, TokenRow)
  BY TypesOfTables
<1>5. tokens[c][r] \in TokenRow /\ SupplyAt[head][c] \in Int
  BY <1>2, <1>3, <1>4, SeqFacts, RepliesFacts DEF Table
<1>6. row \in TokenRow /\ row.supply = SupplyAt[head][c]
  BY <1>5 DEF TokenRow
<1> HIDE DEF row
<1>7. r \in DOMAIN tokens[c] /\ tokens' = Changed(tokens, c, r, row)
  BY <1>3 DEF row, Changed
<1>8. r \in DOMAIN tokens'[c] /\ tokens'[c][r] = row
  BY <1>2, <1>4, <1>6, <1>7, RowChanged
<1> QED
  BY <1>2, <1>6, <1>8 DEF c

LEMMA BalanceSets ==
    ASSUME TypeOK, PositionInv, CallInv, UpdateTokenBalance
    PROVE  /\ BKey \in BalanceKeys
           /\ \E r \in DOMAIN balances'[BKey] : balances'[BKey][r] = BalanceAt[head][BKey]
<1> DEFINE k == BKey
           now == BalanceOf(BKey)
<1>1. /\ pc = "users" /\ users # <<>>
      /\ \/ \E r \in DOMAIN balances[k] : balances' = Changed(balances, k, r, now)
         \/ balances' = Inserted(balances, k, now)
  BY DEF UpdateTokenBalance, BalanceUpdatedOrInserted, Changed
<1>2. pc \in EventPcs /\ ev <= Len(Events) /\ Head(users) \in Users
  BY <1>1, HeadTailProperties DEF CallInv, EventPcs, TypeOK
<1>3. k \in BalanceKeys
  BY <1>2, EventFacts DEF BKey, BalanceKey, BalanceKeys
<1>4. head \in 0 .. Len(Chain) /\ head <= head
  BY HereFacts
<1>5. now \in Number /\ now = BalanceAt[head][k]
  BY <1>3, <1>4, VersionFacts DEF BalanceOf, Number
<1>6. balances \in Table(BalanceKeys, Number)
  BY TypesOfTables
<1> HIDE DEF k, now
<1>7. \E r \in DOMAIN balances'[k] : balances'[k][r] = now
  <2>1. CASE \E r \in DOMAIN balances[k] : balances' = Changed(balances, k, r, now)
    <3>1. PICK r \in DOMAIN balances[k] : balances' = Changed(balances, k, r, now)
      BY <2>1
    <3>2. r \in DOMAIN balances'[k] /\ balances'[k][r] = now
      BY <1>3, <1>5, <1>6, <3>1, RowChanged
    <3> QED
      BY <3>2
  <2>2. CASE balances' = Inserted(balances, k, now)
    BY <1>3, <1>5, <1>6, <2>2, RowInserted
  <2> QED
    BY <1>1, <2>1, <2>2
<1> QED
  BY <1>3, <1>5, <1>7 DEF k

\* Good but for the work in F before a step is good but for the work in G after
\* it, when G has what the step made fail and F's work that it did not do again.
LEMMA GoodKept ==
    ASSUME TypeOK, PositionInv, CallInv, [Next]_vars,
           NEW F, NEW G, hidden' \subseteq G, \A w \in F : w \in G \/ Redone(w),
           NEW b \in 0 .. Len(Chain), b <= head
    PROVE  /\ \A c \in Contracts :
                 /\ CommonGood(tokens, c, F) => CommonGood(tokens', c, G)
                 /\ InfoGood(tokens, c, b, F) => InfoGood(tokens', c, b, G)
                 /\ SupplyGood(tokens, c, b, F) => SupplyGood(tokens', c, b, G)
           /\ \A key \in OpKeys : HistoryGood(history, key, F) => HistoryGood(history', key, G)
           /\ \A k \in BalanceKeys :
                 BalanceGood(balances, k, b, F) => BalanceGood(balances', k, b, G)
<1>1. head \in 0 .. Len(Chain)
  BY HereFacts
<1>2. ASSUME NEW c \in Contracts
      PROVE  /\ InfoAt[head][c] >= InfoAt[b][c] /\ SupplyAt[head][c] >= SupplyAt[b][c]
             /\ \A r \in DOMAIN tokens[c] :
                   /\ r \in DOMAIN tokens'[c]
                   /\ tokens'[c][r].info \in {tokens[c][r].info, InfoAt[head][c]}
                   /\ tokens'[c][r].supply \in {tokens[c][r].supply, SupplyAt[head][c]}
                   /\ tokens[c][r].common => tokens'[c][r].common
  BY <1>1, <1>2, VersionFacts, TokensStep
<1>3. ASSUME NEW c \in Contracts, CommonGood(tokens, c, F)
      PROVE  CommonGood(tokens', c, G)
  <2>1. CASE Inited /\ c = Event.contract
    BY <2>1, InitedSets DEF CommonGood
  <2>2. CASE ~(Inited /\ c = Event.contract)
    <3>1. ~Redone(<<"info", c>>)
      BY <2>2 DEF Redone
    <3> QED
      BY <1>2, <1>3, <3>1 DEF CommonGood
  <2> QED
    BY <2>1, <2>2
<1>4. ASSUME NEW c \in Contracts, InfoGood(tokens, c, b, F)
      PROVE  InfoGood(tokens', c, b, G)
  <2>1. CASE Inited /\ c = Event.contract
    <3>1. (\E r \in DOMAIN tokens'[c] : tokens'[c][r].info = InfoAt[head][c])
              \/ <<"info", c>> \in G
      BY <2>1, InitedSets
    <3> QED
      BY <1>2, <1>4, <3>1 DEF InfoGood
  <2>2. CASE ~(Inited /\ c = Event.contract)
    <3>1. ~Redone(<<"info", c>>)
      BY <2>2 DEF Redone
    <3> QED
      BY <1>2, <1>4, <3>1 DEF InfoGood
  <2> QED
    BY <2>1, <2>2
<1>5. ASSUME NEW c \in Contracts, SupplyGood(tokens, c, b, F)
      PROVE  SupplyGood(tokens', c, b, G)
  <2>1. CASE (Inited \/ UpdateTotalSupply) /\ c = Event.contract
    <3>1. (\E r \in DOMAIN tokens'[c] : tokens'[c][r].supply = SupplyAt[head][c])
              \/ <<"supply", c>> \in G
      BY <2>1, InitedSets, SupplySets
    <3> QED
      BY <1>2, <1>5, <3>1 DEF SupplyGood
  <2>2. CASE ~((Inited \/ UpdateTotalSupply) /\ c = Event.contract)
    <3>1. ~Redone(<<"supply", c>>)
      BY <2>2 DEF Redone
    <3> QED
      BY <1>2, <1>5, <3>1 DEF SupplyGood
  <2> QED
    BY <2>1, <2>2
<1>6. ASSUME NEW key \in OpKeys, HistoryGood(history, key, F)
      PROVE  HistoryGood(history', key, G)
  <2>1. CASE RecordTransfer /\ key = OpKey
    BY <2>1, TransferSets DEF HistoryGood
  <2>2. CASE ~(RecordTransfer /\ key = OpKey)
    <3>1. ~Redone(<<"history", key>>)
      BY <2>2 DEF Redone
    <3>2. history[key] # <<>> => history'[key] # <<>>
      BY <1>6, HistoryStep
    <3> QED
      BY <1>6, <3>1, <3>2 DEF HistoryGood
  <2> QED
    BY <2>1, <2>2
<1>7. ASSUME NEW k \in BalanceKeys, BalanceGood(balances, k, b, F)
      PROVE  BalanceGood(balances', k, b, G)
  <2>1. BalanceAt[head][k] >= BalanceAt[b][k]
    BY <1>1, VersionFacts
  <2>2. CASE UpdateTokenBalance /\ k = BKey
    <3>1. \E r \in DOMAIN balances'[k] : balances'[k][r] = BalanceAt[head][k]
      BY <2>2, BalanceSets
    <3> QED
      BY <2>1, <3>1 DEF BalanceGood
  <2>3. CASE ~(UpdateTokenBalance /\ k = BKey)
    <3>1. ~Redone(<<"balance", k>>)
      BY <2>3 DEF Redone
    <3>2. \A r \in DOMAIN balances[k] :
              /\ r \in DOMAIN balances'[k]
              /\ balances'[k][r] \in {balances[k][r], BalanceAt[head][k]}
      BY BalancesStep
    <3> QED
      BY <1>7, <2>1, <3>1, <3>2 DEF BalanceGood
  <2> QED
    BY <2>2, <2>3
<1> QED
  BY <1>3, <1>4, <1>5, <1>6, <1>7

\* A token that gets its row has no event behind the scan.
LEMMA NewTokenFacts ==
    ASSUME TypeOK, PositionInv, CallInv, [Next]_vars,
           NEW e \in Happened, tokens[e[5].contract] = <<>>, tokens'[e[5].contract] # <<>>
    PROVE  ~Done(e) /\ pc = "create"
<1> DEFINE c == e[5].contract
<1>1. c \in Contracts /\ <<e[1], e[2], e[3]>> \in Operations
  BY HappenedFacts
<1>2. pc = "create" /\ IsTokenRegistration /\ c = Op.contract
  BY <1>1, TokenKnown
<1>3. ~Precedes(e, <<n, x, i>>)
  BY <1>2, RegistrationHere, RegistrationFacts
<1>4. Done(e) => Precedes(e, <<n, x, i>>)
  BY <1>1, <1>2, DoneFacts DEF PluginPcs
<1> QED
  BY <1>2, <1>3, <1>4

LEMMA EventKept ==
    ASSUME TypeOK, PositionInv, CallInv, [Next]_vars,
           NEW F, NEW G, hidden' \subseteq G, \A w \in F : w \in G \/ Redone(w),
           NEW e \in Happened, Done(e) \/ (Here(e) /\ pc \in EventPcs),
           EventGood(tokens, history, balances, e, F)
    PROVE  EventGood(tokens', history', balances', e, G)
<1> DEFINE c == e[5].contract
<1>1. SUFFICES ASSUME tokens'[c] # <<>>
               PROVE  EventGood(tokens', history', balances', e, G)
  BY DEF EventGood
<1>2. /\ c \in Contracts /\ <<e[1], e[2], e[3]>> \in Operations /\ KeyAt(e) \in OpKeys
      /\ \A u \in Parties(e[5]) : <<c, u>> \in BalanceKeys
  <2>1. c \in Contracts /\ <<e[1], e[2], e[3]>> \in Operations /\ IsEvent(e[5])
    BY HappenedFacts
  <2>2. KeyAt(e) = KeyAt(<<e[1], e[2], e[3]>>)
    BY DEF KeyAt
  <2>3. KeyAt(e) \in OpKeys
    BY <2>1, <2>2, OperationFacts
  <2>4. \A u \in Parties(e[5]) : <<c, u>> \in BalanceKeys
    BY <2>1 DEF IsEvent, Parties, BalanceKeys
  <2> QED
    BY <2>1, <2>3, <2>4
<1>3. tokens[c] # <<>>
  BY <1>1, NewTokenFacts DEF EventPcs
<1>4. e[1] \in 0 .. Len(Chain) /\ e[1] <= head
  BY <1>2, DoneFacts
<1> DEFINE b == e[1]
<1>5. /\ CommonGood(tokens, c, F) => CommonGood(tokens', c, G)
      /\ InfoGood(tokens, c, b, F) => InfoGood(tokens', c, b, G)
      /\ SupplyGood(tokens, c, b, F) => SupplyGood(tokens', c, b, G)
      /\ HistoryGood(history, KeyAt(e), F) => HistoryGood(history', KeyAt(e), G)
      /\ \A u \in Parties(e[5]) :
            BalanceGood(balances, <<c, u>>, b, F) => BalanceGood(balances', <<c, u>>, b, G)
  <2> HIDE DEF b, c
  <2>1. b \in 0 .. Len(Chain) /\ b <= head
    BY <1>4 DEF b
  <2>2. /\ \A d \in Contracts : tokens[d] # <<>> =>
                 /\ CommonGood(tokens, d, F) => CommonGood(tokens', d, G)
                 /\ InfoGood(tokens, d, b, F) => InfoGood(tokens', d, b, G)
                 /\ SupplyGood(tokens, d, b, F) => SupplyGood(tokens', d, b, G)
        /\ \A key \in OpKeys : HistoryGood(history, key, F) => HistoryGood(history', key, G)
        /\ \A k \in BalanceKeys :
                 BalanceGood(balances, k, b, F) => BalanceGood(balances', k, b, G)
    BY <2>1, GoodKept
  <2> QED
    BY <1>2, <1>3, <2>2
<1> QED
  BY <1>3, <1>5 DEF EventGood

LEMMA RegistrationKept ==
    ASSUME TypeOK, PositionInv, CallInv, [Next]_vars,
           NEW q \in Registrations, Done(q) \/ Here(q), RegistrationGood(tokens, q, hidden)
    PROVE  RegistrationGood(tokens', q, hidden')
<1> DEFINE c == OpAt(q).contract
<1>1. q \in Operations /\ OpAt(q).kind = "register"
  BY DEF Registrations
<1>2. c \in Contracts
  BY <1>1, OperationFacts, OpFacts DEF OpAt
<1>3. q[1] \in 0 .. Len(Chain) /\ q[1] <= head
  <2>1. q = <<q[1], q[2], q[3]>>
    BY <1>1, OperationFacts
  <2> QED
    BY <1>1, <2>1, DoneFacts
<1>4. ASSUME OpAt(q).abi = "token"
      PROVE  /\ tokens'[c] # <<>>
             /\ InfoGood(tokens', c, q[1], hidden') /\ SupplyGood(tokens', c, q[1], hidden')
  <2>1. /\ tokens[c] # <<>>
        /\ InfoGood(tokens, c, q[1], hidden) /\ SupplyGood(tokens, c, q[1], hidden)
    BY <1>4 DEF RegistrationGood
  <2>2. tokens'[c] # <<>>
    BY <1>2, <2>1, TokenKnown
  <2>3. \A w \in hidden : w \in hidden' \/ Redone(w)
    BY FailedStep
  <2> HIDE DEF c
  <2>4. \A d \in Contracts : tokens[d] # <<>> =>
            /\ InfoGood(tokens, d, q[1], hidden) => InfoGood(tokens', d, q[1], hidden')
            /\ SupplyGood(tokens, d, q[1], hidden) => SupplyGood(tokens', d, q[1], hidden')
    BY <1>3, <2>3, GoodKept
  <2> QED
    BY <1>2, <2>1, <2>2, <2>4
<1> QED
  BY <1>4 DEF RegistrationGood

-----------------------------------------------------------------------------
(* The steps keep what was recorded.                                        *)

\* An operation the plugins see, and that succeeded, they see with its receipt.
LEMMA SeenHere ==
    ASSUME TypeOK, PositionInv, CallInv,
           NEW q \in Operations, Here(q), KeyAt(q) \notin unseen,
           Succeeded(Chain[q[1]][q[2]], q[3])
    PROVE  got /\ Events = EventsAt(q) /\ q = <<n, x, i>>
<1>1. /\ q = <<n, x, i>> /\ q[1] = n /\ q[2] = x /\ q[3] = i
      /\ pc \in PluginPcs /\ pc \in OpPcs
  <2>1. q = <<q[1], q[2], q[3]>>
    BY OperationFacts
  <2> QED
    BY <2>1 DEF Here, PluginPcs, OpPcs
<1>2. /\ n \in Heights /\ x \in DOMAIN Chain[n] /\ IsTransaction(Tx) /\ i \in DOMAIN Tx.ops
      /\ i \in Nat \ {0} /\ Succeeded(Tx, i)
  BY <1>1, OperationFacts DEF Tx
<1>3. CheckTransactionHasContractOp(Tx)
  <2>1. Tx.receipts # <<>>
    BY <1>2, EventsFacts
  <2> QED
    BY <1>2, <2>1, ChainAssumption DEF Tx
<1>4. <<Tx.id, i>> \notin unseen
  BY <1>1 DEF KeyAt, Tx
<1>5. got
  BY <1>1, <1>2, <1>3, <1>4 DEF CallInv
<1> QED
  BY <1>1, <1>5 DEF Events, EventsAt, Tx

LEMMA EventsEntered ==
    [Next]_vars /\ pc \notin EventPcs /\ pc' \in EventPcs =>
        NotATokenRegistration \/ SaveTokenContract
  BY DEF Next, ScanStep, vars, loopVars, eventVars, tables, observers, rest, atEvent,
         Start, ProcessEnds, NodeProducesBlock, GetBlock, UpdateLastScannedAtHead,
         GetTxReceipts, AbandonBlock, AbandonTransaction, TransactionDone, FinishBlock,
         RegisterAccount, RegisterAccountFails, NotATokenRegistration,
         RegistrationUndecodable, SaveTokenContract, SaveTokenContractFails,
         IsTokenContractFails, SkipEvent, TokenMissed, Inited, InitedFails, UnreadableTransfer,
         RecordTransfer, RecordTransferFails, UpdateTokenBalance, BalanceUnanswered,
         UpdateTokenBalanceFails, TransferDone, UpdateTotalSupply, SupplyUnanswered,
         UpdateTotalSupplyFails, PluginsDone, PluginsFail, Dies, EventPcs, AtTokenEvent, AtEvent

LEMMA EventMoved ==
    [Next]_vars /\ pc \in EventPcs /\ pc' \in EventPcs =>
        /\ UNCHANGED <<n, x, i, got, unseen>>
        /\ \/ UNCHANGED <<pc, ev, users, tokens, history, balances, err, hidden>>
           \/ RecordTransfer \/ UpdateTokenBalance \/ BalanceUnanswered
           \/ SkipEvent \/ TokenMissed \/ Inited \/ InitedFails
           \/ UnreadableTransfer \/ RecordTransferFails
           \/ TransferDone \/ UpdateTotalSupply \/ SupplyUnanswered
  BY DEF Next, ScanStep, vars, loopVars, eventVars, tables, observers, rest, atEvent,
         Start, ProcessEnds, NodeProducesBlock, GetBlock, UpdateLastScannedAtHead,
         GetTxReceipts, AbandonBlock, AbandonTransaction, TransactionDone, FinishBlock,
         RegisterAccount, RegisterAccountFails, NotATokenRegistration,
         RegistrationUndecodable, SaveTokenContract, SaveTokenContractFails,
         IsTokenContractFails, SkipEvent, TokenMissed, Inited, InitedFails, UnreadableTransfer,
         RecordTransfer, RecordTransferFails, UpdateTokenBalance, BalanceUnanswered,
         UpdateTokenBalanceFails, TransferDone, UpdateTotalSupply, SupplyUnanswered,
         UpdateTotalSupplyFails, PluginsDone, PluginsFail, Dies, EventPcs

\* A registration the plugins go past.
LEMMA RegistrationEntered ==
    ASSUME TypeOK, PositionInv, CallInv, VersionInv, [Next]_vars,
           pc \notin EventPcs, pc' \in EventPcs,
           NEW q \in Registrations, Here(q)', KeyAt(q) \notin unseen'
    PROVE  RegistrationGood(tokens', q, hidden')
<1>1. NotATokenRegistration \/ SaveTokenContract
  BY EventsEntered
<1>2. pc = "create" /\ UNCHANGED <<n, x, i, got, unseen>>
  BY <1>1 DEF NotATokenRegistration, SaveTokenContract, rest
<1>3. /\ q \in Operations /\ Here(q) /\ KeyAt(q) \notin unseen
      /\ OpAt(q).kind = "register" /\ Succeeded(Chain[q[1]][q[2]], q[3])
  BY <1>2 DEF Registrations, Here, PluginPcs
<1>4. got /\ q = <<n, x, i>> /\ Succeeded(Tx, i)
  BY <1>3, SeenHere DEF Tx
<1>5. OpAt(q) = Op
  BY <1>2, <1>4, PluginFacts DEF PluginPcs
<1>6. Registration
  BY <1>3, <1>4, <1>5 DEF Registration
<1>7. CASE NotATokenRegistration
  BY <1>5, <1>6, <1>7 DEF NotATokenRegistration, IsTokenRegistration, RegistrationGood
<1>8. CASE SaveTokenContract
  <2> DEFINE c == Op.contract
  <2>1. /\ pc = "create" /\ IsTokenRegistration /\ tokens' \in TokenFoundOrInserted
        /\ Unanswered(c, tokens'[c]) \subseteq hidden'
        /\ Op.abi = "token"
    BY <1>8 DEF SaveTokenContract, IsTokenRegistration
  <2>2. q \in TokenRegistrations /\ c \in Contracts /\ OpAt(q).contract = c
    BY <1>4, <1>5, <2>1, RegistrationHere
  <2>3. tokens'[c] # <<>>
    BY <2>1, TokenInserted
  <2> HIDE DEF c, TokenRegistrations
  <2>4. \A r \in DOMAIN tokens'[c] :
            /\ tokens'[c][r].info = Unknown \/ tokens'[c][r].info >= InfoAt[q[1]][c]
            /\ tokens'[c][r].supply = Unknown \/ tokens'[c][r].supply >= SupplyAt[q[1]][c]
    <3>1. VersionInv'
      BY VersionStep
    <3>2. \A o \in TokenRegistrations : LET d == OpAt(o).contract IN \A r \in DOMAIN tokens'[d] :
              /\ tokens'[d][r].info = Unknown \/ tokens'[d][r].info >= InfoAt[o[1]][d]
              /\ tokens'[d][r].supply = Unknown \/ tokens'[d][r].supply >= SupplyAt[o[1]][d]
      BY <3>1 DEF VersionInv, OpAt, TokenRegistrations, Registrations, Succeeded, ReceiptAt
    <3> QED
      BY <2>2, <3>2
  <2>5. /\ (\A r \in DOMAIN tokens'[c] : tokens'[c][r].info = Unknown) => <<"info", c>> \in hidden'
        /\ (\A r \in DOMAIN tokens'[c] : tokens'[c][r].supply = Unknown)
              => <<"supply", c>> \in hidden'
    BY <2>1 DEF Unanswered
  <2>6. InfoGood(tokens', c, q[1], hidden') /\ SupplyGood(tokens', c, q[1], hidden')
    BY <2>4, <2>5 DEF InfoGood, SupplyGood
  <2> QED
    BY <2>2, <2>3, <2>6, <1>5, <2>1 DEF RegistrationGood
<1> QED
  BY <1>1, <1>7, <1>8

LEMMA RegisteredStep ==
    ASSUME TypeOK, PositionInv, CallInv, VersionInv, RegisteredInv, [Next]_vars
    PROVE  RegisteredInv'
<1>1. ASSUME NEW q \in Registrations, Done(q)'
      PROVE  RegistrationGood(tokens', q, hidden')
  <2>1. q \in Operations /\ q = <<q[1], q[2], q[3]>>
    BY OperationFacts DEF Registrations
  <2>2. Done(q) \/ (PluginsDone /\ Here(q) /\ KeyAt(q) \notin unseen)
    BY <1>1, <2>1, DoneStep
  <2>3. CASE Done(q)
    <3>1. RegistrationGood(tokens, q, hidden)
      BY <2>3 DEF RegisteredInv
    <3> QED
      BY <2>3, <3>1, RegistrationKept
  <2>4. CASE PluginsDone /\ Here(q) /\ KeyAt(q) \notin unseen
    <3>1. RegistrationGood(tokens, q, hidden)
      BY <2>4 DEF RegisteredInv, PluginsDone, EventPcs
    <3> QED
      BY <2>4, <3>1, RegistrationKept
  <2> QED
    BY <2>2, <2>3, <2>4
<1>2. ASSUME pc' \in EventPcs, NEW q \in Registrations, Here(q)', KeyAt(q) \notin unseen'
      PROVE  RegistrationGood(tokens', q, hidden')
  <2>1. CASE pc \in EventPcs
    <3>1. UNCHANGED <<n, x, i, unseen>>
      BY <1>2, <2>1, EventMoved
    <3>2. Here(q) /\ KeyAt(q) \notin unseen
      BY <1>2, <2>1, <3>1 DEF Here, EventPcs, PluginPcs
    <3>3. RegistrationGood(tokens, q, hidden)
      BY <2>1, <3>2 DEF RegisteredInv
    <3> QED
      BY <3>2, <3>3, RegistrationKept
  <2>2. CASE pc \notin EventPcs
    BY <1>2, <2>2, RegistrationEntered
  <2> QED
    BY <2>1, <2>2
<1>3. \A q \in Registrations : Done(q)' => RegistrationGood(tokens', q, hidden')
  BY <1>1
<1>4. pc' \in EventPcs => \A q \in Registrations :
          Here(q)' /\ KeyAt(q) \notin unseen' => RegistrationGood(tokens', q, hidden')
  BY <1>2
<1> QED
  BY <1>3, <1>4 DEF RegisteredInv, RegistrationGood, InfoGood, SupplyGood, Registrations,
         OpAt, KeyAt, Succeeded, ReceiptAt

LEMMA ConcatRange ==
    ASSUME NEW a, NEW b
    PROVE  /\ a \in ToSet(<<a>> \o <<b>>) /\ b \in ToSet(<<a>> \o <<b>>)
           /\ a \in ToSet(<<a>> \o <<>>) /\ a \in ToSet(<<>> \o <<a>>)
<1> DEFINE S == {a, b}
           s == <<a>> \o <<b>>
<1>1. /\ <<a>> \in Seq(S) /\ <<b>> \in Seq(S) /\ Len(<<a>>) = 1 /\ Len(<<b>>) = 1
      /\ <<a>>[1] = a /\ <<b>>[1] = b
  OBVIOUS
<1>2. s \in Seq(S) /\ Len(s) = 1 + 1
      /\ \A j \in 1 .. 1 + 1 : s[j] = IF j <= 1 THEN <<a>>[j] ELSE <<b>>[j - 1]
  BY <1>1, ConcatProperties
<1> HIDE DEF s
<1>3. 1 \in DOMAIN s /\ 2 \in DOMAIN s /\ s[1] = a /\ s[2] = b
  BY <1>1, <1>2
<1>4. a \in ToSet(s) /\ b \in ToSet(s)
  BY <1>3 DEF ToSet
<1>5. <<a>> \o <<>> = <<a>> /\ <<>> \o <<a>> = <<a>>
  BY <1>1, ConcatEmptySeq
<1>6. a \in ToSet(<<a>>)
  BY DEF ToSet
<1> QED
  BY <1>4, <1>5, <1>6 DEF s

\* Every party of a transfer is to be updated.
LEMMA PartiesUpdated ==
    \A u \in Parties(Event) : u \in ToSet(UsersToUpdate)
<1> DEFINE from == Event.from
           to == Event.to
<1>1. UsersToUpdate = OrNone(from) \o (IF to = from THEN <<>> ELSE OrNone(to))
  BY DEF UsersToUpdate
<1>2. \A u : OrNone(u) = IF u = Nobody THEN <<>> ELSE <<u>>
  BY DEF OrNone
<1> HIDE DEF from, to
<1>3. from # Nobody => from \in ToSet(UsersToUpdate)
  BY <1>1, <1>2, ConcatRange
<1>4. to # Nobody /\ to # from => to \in ToSet(UsersToUpdate)
  BY <1>1, <1>2, ConcatRange
<1> QED
  BY <1>3, <1>4 DEF Parties, from, to

LEMMA TailFacts ==
    ASSUME NEW S, NEW s \in Seq(S), s # <<>>
    PROVE  \A u \in ToSet(s) : u = Head(s) \/ u \in ToSet(Tail(s))
<1>1. /\ Len(s) \in Nat /\ Len(s) >= 1 /\ DOMAIN s = 1 .. Len(s)
      /\ Head(s) = s[1] /\ Tail(s) \in Seq(S) /\ Len(Tail(s)) = Len(s) - 1
      /\ DOMAIN Tail(s) = 1 .. Len(Tail(s))
      /\ \A j \in 1 .. Len(Tail(s)) : Tail(s)[j] = s[j + 1]
  BY EmptySeq, HeadTailProperties
<1>2. ASSUME NEW j \in DOMAIN s, j # 1
      PROVE  s[j] \in ToSet(Tail(s))
  <2>1. j - 1 \in DOMAIN Tail(s) /\ Tail(s)[j - 1] = s[j]
    BY <1>1, <1>2
  <2> QED
    BY <2>1 DEF ToSet
<1> QED
  BY <1>1, <1>2 DEF ToSet

\* An event the plugin goes past is good but for what failed.
LEMMA EventPassed ==
    ASSUME TypeOK, PositionInv, CallInv, EventInv, [Next]_vars,
           pc \in EventPcs, pc' \in EventPcs, ev' # ev, ev <= Len(Events),
           NEW e, e = <<n, x, i, ev, Event>>, <<OpKey, ev>> \notin missed'
    PROVE  EventGood(tokens', history', balances', e, hidden' \cup err')
<1> DEFINE c == Event.contract
<1>1. /\ e[1] = n /\ e[5] = Event /\ KeyAt(e) = OpKey
      /\ c \in Contracts /\ OpKey \in OpKeys
      /\ n \in 0 .. Len(Chain) /\ n <= head /\ head \in 0 .. Len(Chain)
      /\ \A u \in Parties(Event) : <<c, u>> = BalanceKey(u) /\ BalanceKey(u) \in BalanceKeys
  <2>1. e[1] = n /\ e[5] = Event /\ KeyAt(e) = OpKey
    BY DEF KeyAt, OpKey, Tx
  <2>2. pc \in {"tx"} \cup OpPcs /\ pc \in PluginPcs
    BY DEF EventPcs, OpPcs, PluginPcs
  <2>3. c \in Contracts /\ OpKey \in OpKeys
    BY <2>2, EventFacts, PluginFacts
  <2>4. \A u \in Parties(Event) : <<c, u>> = BalanceKey(u) /\ BalanceKey(u) \in BalanceKeys
    BY EventFacts DEF BalanceKey
  <2> QED
    BY <2>1, <2>2, <2>3, <2>4, HereFacts
<1>2. /\ InfoAt[head][c] >= InfoAt[n][c] /\ SupplyAt[head][c] >= SupplyAt[n][c]
  BY <1>1, VersionFacts
<1>3. CASE SkipEvent
  <2>1. tokens'[c] = <<>> \/ Event.name = "Approved"
    BY <1>3 DEF SkipEvent, IsTokenContract, tables
  <2> QED
    BY <1>1, <2>1 DEF EventGood
<1>4. CASE Inited
  <2>1. Event.name = "Inited"
    BY <1>4 DEF Inited, AtTokenEvent
  <2>2. /\ \E r \in DOMAIN tokens'[c] : tokens'[c][r].common
        /\ (\E r \in DOMAIN tokens'[c] : tokens'[c][r].info = InfoAt[head][c])
              \/ <<"info", c>> \in hidden'
        /\ (\E r \in DOMAIN tokens'[c] : tokens'[c][r].supply = SupplyAt[head][c])
              \/ <<"supply", c>> \in hidden'
    BY <1>4, InitedSets
  <2>3. /\ CommonGood(tokens', c, hidden' \cup err')
        /\ InfoGood(tokens', c, n, hidden' \cup err')
        /\ SupplyGood(tokens', c, n, hidden' \cup err')
    BY <1>2, <2>2 DEF CommonGood, InfoGood, SupplyGood
  <2> QED
    BY <1>1, <2>1, <2>3 DEF EventGood
<1>5. CASE InitedFails
  <2>1. Event.name = "Inited" /\ <<"info", c>> \in hidden' /\ <<"supply", c>> \in hidden'
    BY <1>5 DEF InitedFails, AtTokenEvent
  <2>2. /\ CommonGood(tokens', c, hidden' \cup err')
        /\ InfoGood(tokens', c, n, hidden' \cup err')
        /\ SupplyGood(tokens', c, n, hidden' \cup err')
    BY <2>1 DEF CommonGood, InfoGood, SupplyGood
  <2> QED
    BY <1>1, <2>1, <2>2 DEF EventGood
<1>6. CASE UnreadableTransfer
  <2>1. Event.name = "Unreadable"
    BY <1>6 DEF UnreadableTransfer, AtTokenEvent
  <2> QED
    BY <1>1, <2>1 DEF EventGood
<1>7. CASE RecordTransferFails
  <2>1. Event.name = "Transfer" /\ err' = TransferWork
    BY <1>7 DEF RecordTransferFails, AtTokenEvent, SetErr
  <2>2. /\ <<"history", OpKey>> \in err'
        /\ \A u \in Parties(Event) : <<"balance", <<c, u>>>> \in err'
        /\ Mints(Event) => <<"supply", c>> \in err'
    BY <2>1 DEF TransferWork, BalanceKey
  <2>3. /\ HistoryGood(history', OpKey, hidden' \cup err')
        /\ \A u \in Parties(Event) : BalanceGood(balances', <<c, u>>, n, hidden' \cup err')
        /\ Mints(Event) => SupplyGood(tokens', c, n, hidden' \cup err')
    BY <2>2 DEF HistoryGood, BalanceGood, SupplyGood
  <2> QED
    BY <1>1, <2>1, <2>3 DEF EventGood
<1>8. CASE TransferDone \/ UpdateTotalSupply \/ SupplyUnanswered
  <2>1. pc = "users" /\ users = <<>>
    BY <1>8 DEF TransferDone, UpdateTotalSupply, SupplyUnanswered
  <2>2. Event.name = "Transfer" /\ history[OpKey] # <<>>
    BY <2>1 DEF CallInv, Moves
  <2>3. HistoryGood(history', OpKey, hidden' \cup err')
    BY <1>1, <2>2, HistoryStep DEF HistoryGood
  <2>4. \A u \in Parties(Event) : BalanceGood(balances, BalanceKey(u), n, hidden \cup err)
    <3>1. \A u : u \notin ToSet(<<>>)
      BY DEF ToSet
    <3> QED
      BY <2>1, <3>1 DEF EventInv
  <2>5. \A k \in BalanceKeys : BalanceGood(balances, k, n, hidden \cup err) =>
            BalanceGood(balances', k, n, hidden' \cup err')
    <3>1. \A w \in hidden \cup err : w \in hidden' \cup err' \/ Redone(w)
      BY FailedStep DEF EventPcs
    <3> HIDE DEF c
    <3> QED
      BY <1>1, <3>1, GoodKept
  <2>6. \A u \in Parties(Event) : BalanceGood(balances', <<c, u>>, n, hidden' \cup err')
    BY <1>1, <2>4, <2>5
  <2>7. Mints(Event) => SupplyGood(tokens', c, n, hidden' \cup err')
    <3>1. CASE UpdateTotalSupply
      <4>1. \E r \in DOMAIN tokens'[c] : tokens'[c][r].supply = SupplyAt[head][c]
        BY <3>1, SupplySets
      <4> QED
        BY <1>2, <4>1 DEF SupplyGood
    <3>2. CASE TransferDone
      BY <3>2 DEF TransferDone
    <3>3. CASE SupplyUnanswered
      BY <3>3 DEF SupplyUnanswered, SetErr, SupplyGood
    <3> QED
      BY <1>8, <3>1, <3>2, <3>3
  <2> QED
    BY <1>1, <2>2, <2>3, <2>6, <2>7 DEF EventGood
<1>9. CASE RecordTransfer \/ UpdateTokenBalance \/ BalanceUnanswered \/ UNCHANGED ev
  BY <1>9 DEF RecordTransfer, UpdateTokenBalance, BalanceUnanswered
<1>10. ~TokenMissed
  BY DEF TokenMissed
<1> QED
  BY <1>3, <1>4, <1>5, <1>6, <1>7, <1>8, <1>9, <1>10, EventMoved

LEMMA MissedStays ==
    [Next]_vars => missed \subseteq missed'
  BY MissedWritten DEF TokenMissed

LEMMA EventStep ==
    ASSUME TypeOK, PositionInv, CallInv, EventInv, [Next]_vars
    PROVE  EventInv'
<1>1. /\ \A w \in hidden : w \in hidden' \/ Redone(w)
      /\ pc' \in EventPcs => \A w \in hidden \cup err : w \in hidden' \cup err' \/ Redone(w)
  BY FailedStep DEF EventPcs
<1>2. ASSUME NEW e \in Happened, Done(e)', <<KeyAt(e), e[4]>> \notin missed'
      PROVE  EventGood(tokens', history', balances', e, hidden')
  <2>5. ~Missed(e)
    BY <1>2, MissedStays DEF Missed
  <2>1. <<e[1], e[2], e[3]>> \in Operations
    BY HappenedFacts
  <2>2. Done(e) \/ (PluginsDone /\ Here(e) /\ KeyAt(e) \notin unseen)
    BY <1>2, <2>1, DoneStep
  <2>3. CASE Done(e)
    <3>1. EventGood(tokens, history, balances, e, hidden)
      BY <2>3, <2>5 DEF EventInv
    <3> QED
      BY <1>1, <2>3, <3>1, EventKept
  <2>4. CASE PluginsDone /\ Here(e) /\ KeyAt(e) \notin unseen
    <3>1. /\ pc = "events" /\ pc \in EventPcs /\ ev > Len(Events)
          /\ hidden' = hidden \cup err /\ ~Inited /\ ~RecordTransfer
          /\ ~UpdateTokenBalance /\ ~UpdateTotalSupply
      BY <2>4 DEF PluginsDone, SetErr, EventPcs, Inited, RecordTransfer, UpdateTokenBalance,
                  UpdateTotalSupply
    <3>2. got /\ Events = EventsAt(e)
      <4> DEFINE q == <<e[1], e[2], e[3]>>
      <4>1. /\ KeyAt(q) = KeyAt(e) /\ EventsAt(q) = EventsAt(e) /\ (Here(q) <=> Here(e))
            /\ q[1] = e[1] /\ q[2] = e[2] /\ q[3] = e[3]
        BY DEF KeyAt, EventsAt, Here
      <4>2. Succeeded(Chain[e[1]][e[2]], e[3])
        <5>1. IsTransaction(Chain[e[1]][e[2]]) /\ e[3] \in Nat \ {0}
          BY <2>1, <4>1, OperationFacts
        <5> DEFINE events == EventsOf(Chain[e[1]][e[2]], e[3])
        <5>2. /\ Len(events) \in Nat /\ DOMAIN events = 1 .. Len(events)
              /\ events # <<>> <=> Len(events) > 0
              /\ events # <<>> => Succeeded(Chain[e[1]][e[2]], e[3])
          BY <5>1, EventsFacts
        <5>3. e[4] \in DOMAIN events
          BY HappenedFacts DEF EventsAt
        <5> HIDE DEF events
        <5> QED
          BY <5>2, <5>3
      <4> HIDE DEF q
      <4>3. q \in Operations /\ Succeeded(Chain[q[1]][q[2]], q[3])
        BY <2>1, <4>1, <4>2 DEF q
      <4> QED
        BY <2>4, <4>1, <4>3, SeenHere
    <3>3. e[4] < ev
      <4>1. e[4] \in DOMAIN Events /\ Len(Events) \in Nat /\ DOMAIN Events = 1 .. Len(Events)
        BY <3>1, <3>2, HappenedFacts, PluginFacts DEF EventPcs, PluginPcs
      <4>2. ev \in Nat
        BY HereFacts
      <4> QED
        BY <3>1, <4>1, <4>2
    <3>4. EventGood(tokens, history, balances, e, hidden \cup err)
      BY <2>4, <2>5, <3>1, <3>3 DEF EventInv
    <3>5. \A w \in hidden \cup err : w \in hidden' \/ Redone(w)
      BY <3>1
    <3> QED
      BY <2>4, <3>1, <3>4, <3>5, EventKept
  <2> QED
    BY <2>2, <2>3, <2>4
<1>3. ASSUME pc' \in EventPcs, NEW e \in Happened, Here(e)', e[4] < ev',
             <<KeyAt(e), e[4]>> \notin missed'
      PROVE  EventGood(tokens', history', balances', e, hidden' \cup err')
  <2>1. CASE pc \in EventPcs
    <3>1. UNCHANGED <<n, x, i, got, unseen>> /\ ev' \in {ev, ev + 1}
      BY <1>3, <2>1, EventMoved
         DEF RecordTransfer, UpdateTokenBalance, BalanceUnanswered, SkipEvent, TokenMissed, Inited,
             InitedFails, UnreadableTransfer, RecordTransferFails, TransferDone,
             UpdateTotalSupply, SupplyUnanswered
    <3>2. Here(e)
      BY <1>3, <2>1, <3>1 DEF Here, EventPcs, PluginPcs
    <3>3. e[4] \in Nat /\ ev \in Nat
      BY HappenedFacts, HereFacts
    <3>4. CASE e[4] < ev
      <4>1. EventGood(tokens, history, balances, e, hidden \cup err)
        BY <1>3, <2>1, <3>2, <3>4, MissedStays DEF EventInv, Missed
      <4>2. \A w \in hidden \cup err : w \in hidden' \cup err' \/ Redone(w)
        BY <1>1, <1>3
      <4>3. hidden' \subseteq hidden' \cup err'
        OBVIOUS
      <4> QED
        BY <2>1, <3>2, <4>1, <4>2, <4>3, EventKept
    <3>5. CASE e[4] = ev /\ ev' # ev
      <4>1. ev <= Len(Events)
        BY <1>3, <2>1, <3>5, EventMoved
           DEF RecordTransfer, UpdateTokenBalance, BalanceUnanswered, SkipEvent, TokenMissed, Inited,
               InitedFails, UnreadableTransfer, RecordTransferFails, TransferDone,
               UpdateTotalSupply, SupplyUnanswered, AtTokenEvent, AtEvent, CallInv
      <4>2. Event = EventsAt(<<n, x, i>>)[ev]
        BY <2>1, <4>1, EventFacts
      <4>3. e[1] = n /\ e[2] = x /\ e[3] = i /\ e[5] = EventsAt(e)[e[4]]
        BY <3>2, HappenedFacts DEF Here
      <4>4. e[5] = Event
        BY <3>5, <4>2, <4>3 DEF EventsAt
      <4>5. e = <<n, x, i, ev, Event>>
        BY <3>5, <4>3, <4>4, EventShape
      <4>6. KeyAt(e) = OpKey
        BY <4>3 DEF KeyAt, OpKey, Tx
      <4> QED
        BY <1>3, <2>1, <3>5, <4>1, <4>5, <4>6, EventPassed
    <3> QED
      BY <1>3, <3>1, <3>3, <3>4, <3>5
  <2>2. CASE pc \notin EventPcs
    <3>1. ev' = 1
      BY <1>3, <2>2, EventsEntered DEF NotATokenRegistration, SaveTokenContract
    <3>2. e[4] \in Nat \ {0}
      BY HappenedFacts
    <3> QED
      BY <1>3, <3>1, <3>2
  <2> QED
    BY <2>1, <2>2
<1>4. ASSUME pc' = "users", NEW u \in Parties(Event')
      PROVE  \/ u \in ToSet(users')
             \/ BalanceGood(balances', <<Event'.contract, u>>, n', hidden' \cup err')
  <2>1. CASE RecordTransfer
    <3>1. users' = UsersToUpdate /\ UNCHANGED <<n, x, i, got, ev>>
      BY <2>1 DEF RecordTransfer, rest
    <3>2. Event' = Event
      BY <3>1 DEF Event, Events, Tx
    <3> QED
      BY <1>4, <3>1, <3>2, PartiesUpdated
  <2>2. CASE pc = "users" /\ UNCHANGED <<n, x, i, got, ev>>
    <3>1. Event' = Event
      BY <2>2 DEF Event, Events, Tx
    <3>2. /\ pc \in EventPcs /\ pc' \in EventPcs /\ ev <= Len(Events)
          /\ pc \in {"tx"} \cup OpPcs
      BY <1>4, <2>2 DEF EventPcs, OpPcs, CallInv
    <3>3. /\ BalanceKey(u) = <<Event.contract, u>> /\ BalanceKey(u) \in BalanceKeys
      BY <1>4, <3>1, <3>2, EventFacts DEF BalanceKey
    <3>4. n \in 0 .. Len(Chain) /\ n <= head /\ head \in 0 .. Len(Chain)
      BY <3>2, HereFacts
    <3>5. CASE BalanceGood(balances, BalanceKey(u), n, hidden \cup err)
      <4>1. \A w \in hidden \cup err : w \in hidden' \cup err' \/ Redone(w)
        BY <1>1, <3>2
      <4>2. hidden' \subseteq hidden' \cup err'
        OBVIOUS
      <4>3. \A k \in BalanceKeys : BalanceGood(balances, k, n, hidden \cup err) =>
                BalanceGood(balances', k, n, hidden' \cup err')
        BY <3>4, <4>1, <4>2, GoodKept
      <4> QED
        BY <2>2, <3>1, <3>3, <3>5, <4>3
    <3>6. CASE u \in ToSet(users)
      <4>1. \/ users' = users
            \/ /\ users # <<>> /\ users' = Tail(users)
               /\ UpdateTokenBalance \/ err' = {<<"balance", BKey>>}
        BY <1>4, <2>2, <3>2, EventMoved
           DEF RecordTransfer, UpdateTokenBalance, BalanceUnanswered, SkipEvent, TokenMissed, Inited,
               InitedFails, UnreadableTransfer, RecordTransferFails, TransferDone, SetErr,
               UpdateTotalSupply, SupplyUnanswered, AtTokenEvent, AtEvent
      <4>2. CASE users' = users
        BY <3>6, <4>2
      <4>3. CASE /\ users # <<>> /\ users' = Tail(users)
                 /\ UpdateTokenBalance \/ err' = {<<"balance", BKey>>}
        <5>1. u = Head(users) \/ u \in ToSet(Tail(users))
          BY <3>6, <4>3, TailFacts DEF TypeOK
        <5>2. CASE u = Head(users)
          <6>1. BKey = BalanceKey(u)
            BY <5>2 DEF BKey
          <6>2. CASE UpdateTokenBalance
            <7>1. \E r \in DOMAIN balances'[BKey] : balances'[BKey][r] = BalanceAt[head][BKey]
              BY <6>2, BalanceSets
            <7>2. BalanceAt[head][BKey] >= BalanceAt[n][BKey]
              BY <3>3, <3>4, <6>1, VersionFacts
            <7> QED
              BY <2>2, <3>1, <3>3, <6>1, <7>1, <7>2 DEF BalanceGood
          <6>3. CASE err' = {<<"balance", BKey>>}
            BY <2>2, <3>1, <3>3, <6>1, <6>3 DEF BalanceGood
          <6> QED
            BY <4>3, <6>2, <6>3
        <5> QED
          BY <4>3, <5>1, <5>2
      <4> QED
        BY <4>1, <4>2, <4>3
    <3> QED
      BY <1>4, <2>2, <3>1, <3>5, <3>6 DEF EventInv
  <2> QED
    BY <1>4, <2>1, <2>2, UsersWritten
<1>5. /\ \A e \in Happened : Done(e)' /\ <<KeyAt(e), e[4]>> \notin missed' =>
            EventGood(tokens', history', balances', e, hidden')
      /\ pc' \in EventPcs => \A e \in Happened :
            Here(e)' /\ e[4] < ev' /\ <<KeyAt(e), e[4]>> \notin missed' =>
                EventGood(tokens', history', balances', e, hidden' \cup err')
      /\ pc' = "users" => \A u \in Parties(Event') :
            \/ u \in ToSet(users')
            \/ BalanceGood(balances', <<Event'.contract, u>>, n', hidden' \cup err')
  BY <1>2, <1>3, <1>4
<1> QED
  BY <1>5 DEF EventInv, Missed, EventGood, CommonGood, InfoGood, SupplyGood, HistoryGood, BalanceGood,
              BalanceKey, KeyAt, Parties, Mints, Moves, ToSet

\* The last event of an operation that ends with an error.
LEMMA EndingFacts ==
    ASSUME NEW q \in EndingWithAnError
    PROVE  /\ q \in Operations /\ q = <<q[1], q[2], q[3]>> /\ KeyAt(q) \in OpKeys
           /\ EventsAt(q) # <<>> /\ Succeeded(Chain[q[1]][q[2]], q[3])
           /\ Len(EventsAt(q)) \in Nat \ {0}
           /\ Last(EventsAt(q)) = EventsAt(q)[Len(EventsAt(q))]
           /\ Last(EventsAt(q)).contract \in Contracts
           /\ \E e \in Happened : e[1] = q[1] /\ e[2] = q[2] /\ e[3] = q[3]
                                     /\ e[5] = Last(EventsAt(q))
<1>1. /\ q \in Operations /\ q = <<q[1], q[2], q[3]>> /\ KeyAt(q) \in OpKeys
      /\ EventsAt(q) # <<>> /\ IsTransaction(Chain[q[1]][q[2]]) /\ q[3] \in Nat \ {0}
      /\ q[1] \in Heights /\ q[2] \in DOMAIN Chain[q[1]]
      /\ q[3] \in DOMAIN Chain[q[1]][q[2]].ops
  BY OperationFacts DEF EndingWithAnError
<1> DEFINE events == EventsOf(Chain[q[1]][q[2]], q[3])
           v == Len(events)
<1>2. /\ Len(events) \in Nat /\ Len(events) > 0 /\ DOMAIN events = 1 .. Len(events)
      /\ \A j \in DOMAIN events : IsEvent(events[j])
      /\ Succeeded(Chain[q[1]][q[2]], q[3])
  BY <1>1, EventsFacts DEF EventsAt
<1>3. EventsAt(q) = events
  BY DEF EventsAt
<1>4. v \in DOMAIN events /\ Last(events) = events[v]
  BY <1>2 DEF Last
<1>5. Last(events).contract \in Contracts
  BY <1>2, <1>4 DEF IsEvent
<1>6. <<q[1], q[2], q[3], v, events[v]>> \in Happened
  BY <1>1, <1>4, HappenedFacts
<1>7. \E e \in Happened : e[1] = q[1] /\ e[2] = q[2] /\ e[3] = q[3] /\ e[5] = Last(events)
  <2> DEFINE e == <<q[1], q[2], q[3], v, events[v]>>
  <2>1. e \in Happened /\ e[1] = q[1] /\ e[2] = q[2] /\ e[3] = q[3] /\ e[5] = Last(events)
    BY <1>4, <1>6
  <2> QED
    BY <2>1
<1> QED
  BY <1>1, <1>2, <1>3, <1>4, <1>5, <1>7

LEMMA LastErrorStep ==
    ASSUME TypeOK, PositionInv, CallInv, LastErrorInv, [Next]_vars
    PROVE  LastErrorInv'
<1>1. ASSUME NEW q \in EndingWithAnError, Done(q)',
             <<KeyAt(q), Len(EventsAt(q))>> \notin missed'
      PROVE  LastEventGood(tokens', history', q)
  <2> DEFINE last == Last(EventsAt(q))
  <2>1. /\ q \in Operations /\ q = <<q[1], q[2], q[3]>> /\ KeyAt(q) \in OpKeys
        /\ last.contract \in Contracts
        /\ \E e \in Happened : e[1] = q[1] /\ e[2] = q[2] /\ e[3] = q[3] /\ e[5] = last
    BY EndingFacts
  <2> HIDE DEF last
  <2>2. Done(q) \/ (PluginsDone /\ Here(q) /\ KeyAt(q) \notin unseen)
    BY <1>1, <2>1, DoneStep
  <2>5. <<KeyAt(q), Len(EventsAt(q))>> \notin missed
    BY <1>1, MissedStays
  <2>3. CASE Done(q)
    <3>1. tokens[last.contract] = <<>> \/ (Moves(last) /\ history[KeyAt(q)] # <<>>)
      BY <2>3, <2>5 DEF LastErrorInv, LastEventGood, last
    <3>2. CASE tokens[last.contract] = <<>>
      <4>1. PICK e \in Happened : e[1] = q[1] /\ e[2] = q[2] /\ e[3] = q[3] /\ e[5] = last
        BY <2>1
      <4>2. Done(e)
        BY <2>3, <4>1 DEF Done, Behind, KeyAt
      <4>3. tokens'[last.contract] = <<>>
        BY <3>2, <4>1, <4>2, NewTokenFacts
      <4> QED
        BY <4>3 DEF LastEventGood, last
    <3>3. CASE Moves(last) /\ history[KeyAt(q)] # <<>>
      <4>1. history'[KeyAt(q)] # <<>>
        BY <2>1, <3>3, HistoryStep
      <4> QED
        BY <3>3, <4>1 DEF LastEventGood, last
    <3> QED
      BY <3>1, <3>2, <3>3
  <2>4. CASE PluginsDone /\ Here(q) /\ KeyAt(q) \notin unseen
    <3>1. /\ pc = "events" /\ ev > Len(Events) /\ (HasDeposits \/ err = {})
          /\ UNCHANGED <<tokens, history>>
      BY <2>4 DEF PluginsDone, tables
    <3>2. /\ got /\ Events = EventsAt(q) /\ q = <<n, x, i>>
      BY <2>1, <2>4, EndingFacts, SeenHere
    <3>3. ~HasDeposits
      <4>1. ~ReceiptAt(Chain[q[1]][q[2]], q[3])[1].deposits
        BY DEF EndingWithAnError
      <4>2. ~ReceiptAt(Tx, i)[1].deposits
        BY <3>2, <4>1 DEF Tx
      <4> QED
        BY <4>2 DEF HasDeposits
    <3>4. /\ Len(Events) \in Nat \ {0} /\ last = Events[Len(Events)] /\ ev = Len(Events) + 1
      <4>1. ev \in Nat /\ ev <= Len(Events) + 1
        BY <3>1, HereFacts DEF EventPcs
      <4> QED
        BY <3>1, <3>2, <4>1, EndingFacts DEF last
    <3>5. ev > 1 /\ Events[ev - 1] = last
      BY <3>4
    <3>6. tokens[last.contract] # <<>> =>
              /\ last.name = "Unreadable" => err # {}
              /\ Moves(last) /\ ~last.fits => err # {} \/ history[OpKey] # <<>>
      <4>1. OpKey = KeyAt(q) /\ ev - 1 = Len(EventsAt(q))
        BY <3>1, <3>2, <3>4, PluginFacts DEF PluginPcs
      <4> QED
        BY <2>5, <3>1, <3>5, <4>1 DEF LastErrorInv
    <3>7. last.name = "Unreadable" \/ (Moves(last) /\ ~last.fits)
      BY DEF EndingWithAnError, last
    <3>8. OpKey = KeyAt(q)
      BY <3>1, <3>2, PluginFacts DEF PluginPcs
    <3> QED
      BY <3>1, <3>3, <3>6, <3>7, <3>8 DEF LastEventGood, last
  <2> QED
    BY <2>2, <2>3, <2>4
<1>2. ASSUME pc' = "events", ev' > 1, tokens'[Events'[ev' - 1].contract] # <<>>,
             <<OpKey', ev' - 1>> \notin missed'
      PROVE  LET v == Events'[ev' - 1] IN
             /\ v.name = "Unreadable" => err' # {}
             /\ Moves(v) /\ ~v.fits => err' # {} \/ history'[OpKey'] # <<>>
  <2>1. pc \in EventPcs
    BY <1>2, EventsEntered DEF EventPcs, NotATokenRegistration, SaveTokenContract
  <2>2. UNCHANGED <<n, x, i, got>>
    BY <1>2, <2>1, EventMoved DEF EventPcs
  <2>3. Events' = Events /\ OpKey' = OpKey
    BY <2>2 DEF Events, OpKey, Tx
  <2>4. ev \in Nat
    BY HereFacts
  <2>5. CASE UNCHANGED <<pc, ev, tokens, history, err>>
    BY <1>2, <2>3, <2>5, MissedStays DEF LastErrorInv
  <2>6. CASE /\ ev' = ev + 1
             /\ \/ SkipEvent \/ TokenMissed \/ Inited \/ InitedFails
                \/ UnreadableTransfer \/ RecordTransferFails
    <3>1. Events'[ev' - 1] = Event
      BY <2>3, <2>4, <2>6 DEF Event
    <3>2. tokens'[Event.contract] # <<>>
      BY <1>2, <3>1
    <3>3. /\ Event.name = "Unreadable" => err' # {}
          /\ Moves(Event) => err' # {}
      <4>1. CASE SkipEvent
        BY <3>2, <4>1 DEF SkipEvent, IsTokenContract, tables, Moves
      <4>2. CASE Inited \/ InitedFails
        BY <4>2 DEF Inited, InitedFails, AtTokenEvent, Moves
      <4>5. ~TokenMissed
        BY <1>2, <2>3, <2>4, <2>6 DEF TokenMissed
      <4>3. CASE UnreadableTransfer
        BY <4>3 DEF UnreadableTransfer, SetErr
      <4>4. CASE RecordTransferFails
        BY <4>4 DEF RecordTransferFails, SetErr, TransferWork
      <4> QED
        BY <2>6, <4>1, <4>2, <4>3, <4>4, <4>5
    <3> QED
      BY <3>1, <3>3
  <2>7. CASE /\ ev' = ev + 1 /\ pc = "users"
             /\ TransferDone \/ UpdateTotalSupply \/ SupplyUnanswered
    <3>1. Events'[ev' - 1] = Event
      BY <2>3, <2>4, <2>7 DEF Event
    <3>2. Moves(Event) /\ history[OpKey] # <<>> /\ OpKey \in OpKeys
      BY <2>7, PluginFacts DEF CallInv, PluginPcs
    <3>3. history'[OpKey] # <<>>
      BY <3>2, HistoryStep
    <3> QED
      BY <2>3, <3>1, <3>2, <3>3 DEF Moves
  <2>8. CASE RecordTransfer \/ UpdateTokenBalance \/ BalanceUnanswered
    BY <1>2, <2>8 DEF RecordTransfer, UpdateTokenBalance, BalanceUnanswered
  <2>9. \/ UNCHANGED <<pc, ev, tokens, history, err>>
        \/ /\ ev' = ev + 1
           /\ \/ SkipEvent \/ TokenMissed \/ Inited \/ InitedFails
              \/ UnreadableTransfer \/ RecordTransferFails
        \/ /\ ev' = ev + 1 /\ pc = "users"
           /\ TransferDone \/ UpdateTotalSupply \/ SupplyUnanswered
        \/ RecordTransfer \/ UpdateTokenBalance \/ BalanceUnanswered
    BY <1>2, <2>1, EventMoved
       DEF EventPcs, SkipEvent, TokenMissed, Inited, InitedFails, UnreadableTransfer, RecordTransferFails,
           TransferDone, UpdateTotalSupply, SupplyUnanswered
  <2> QED
    BY <2>5, <2>6, <2>7, <2>8, <2>9
<1>3. /\ \A q \in EndingWithAnError : Done(q)' /\ <<KeyAt(q), Len(EventsAt(q))>> \notin missed' =>
            LastEventGood(tokens', history', q)
      /\ pc' = "events" /\ ev' > 1 /\ <<OpKey', ev' - 1>> \notin missed' =>
            LET v == Events'[ev' - 1] IN tokens'[v.contract] # <<>> =>
                /\ v.name = "Unreadable" => err' # {}
                /\ Moves(v) /\ ~v.fits => err' # {} \/ history'[OpKey'] # <<>>
  BY <1>1, <1>2
<1> QED
  BY <1>3 DEF LastErrorInv, LastEventGood, KeyAt, Moves, EventsAt, EventsOf, Succeeded, ReceiptAt,
              EndingWithAnError, Operations

-----------------------------------------------------------------------------
(* The invariant.                                                           *)

LEMMA InitFacts ==
    ASSUME Init
    PROVE  TokenInv
<1>1. /\ head = 0 /\ starts = 0 /\ pc = "down" /\ n = 0 /\ x = 1 /\ i = 1 /\ got = FALSE
      /\ ev = 1 /\ users = <<>> /\ err = {} /\ lastScanned = 0 /\ unseen = {} /\ hidden = {}
      /\ missed = {} /\ tokens = [c \in Contracts |-> <<>>] /\ balances = [k \in BalanceKeys |-> <<>>]
      /\ history = [k \in OpKeys |-> <<>>] /\ accounts = [u \in Users |-> <<>>]
  BY DEF Init
<1>2. /\ \A c \in Contracts : tokens[c] = <<>>
      /\ \A k \in BalanceKeys : balances[k] = <<>>
      /\ \A k \in OpKeys : history[k] = <<>>
      /\ \A u \in Users : accounts[u] = <<>>
  BY <1>1
<1>3. TypeOK
  <2>1. /\ head \in 0 .. Len(Chain) /\ lastScanned \in 0 .. Len(Chain)
        /\ starts \in 0 .. MaxStarts
    BY <1>1, ChainFacts, ParameterAssumption
  <2>2. /\ tokens \in [Contracts -> Seq([common : BOOLEAN, info : Int, supply : Int])]
        /\ balances \in [BalanceKeys -> Seq(Nat)] /\ history \in [OpKeys -> Seq(Nat)]
        /\ accounts \in [Users -> Seq(Names)] /\ users \in Seq(Users)
    BY <1>1, EmptySeq
  <2>3. /\ pc \in {"down", "loop", "tx", "op", "create", "events", "users"}
        /\ n \in Nat /\ x \in Nat /\ i \in Nat /\ ev \in Nat /\ got \in BOOLEAN
        /\ err \subseteq Work /\ hidden \subseteq Work /\ unseen \subseteq OpKeys
        /\ missed \subseteq OpKeys \X Nat
    BY <1>1
  <2> QED
    BY <2>1, <2>2, <2>3 DEF TypeOK
<1>4. PositionInv /\ CallInv
  BY <1>1 DEF PositionInv, CallInv, OpPcs, PluginPcs, EventPcs
<1>5. RowInv
  <2>1. \A q \in Operations : history[KeyAt(q)] = <<>>
    BY <1>2, OperationFacts
  <2>2. \A k \in BalanceKeys : k[1] \in Contracts
    BY DEF BalanceKeys
  <2>3. Len(<<>>) = 0
    OBVIOUS
  <2> QED
    BY <1>2, <2>1, <2>2, <2>3 DEF RowInv, OneRowOfAKnownToken
<1>6. VersionInv
  <2>1. \A r \in TokenRegistrations : OpAt(r).contract \in Contracts
    BY RegistrationFacts
  <2> HIDE DEF TokenRegistrations
  <2> QED
    BY <1>2, <2>1 DEF VersionInv
<1>7. ASSUME NEW q, <<q[1], q[2], q[3]>> \in Operations
      PROVE  ~Done(q)
  <2> DEFINE o == <<q[1], q[2], q[3]>>
  <2>1. o[1] \in Nat \ {0} /\ o[1] = q[1]
    BY <1>7, OperationFacts
  <2>2. q[1] \in Nat \ {0}
    BY <2>1
  <2> QED
    BY <1>1, <2>2 DEF Done, Behind, OpPcs
<1>8. RegisteredInv
  <2>1. \A q \in Registrations : <<q[1], q[2], q[3]>> \in Operations
    BY OperationFacts DEF Registrations
  <2> QED
    BY <1>1, <1>7, <2>1 DEF RegisteredInv, EventPcs
<1>9. EventInv
  <2>1. \A e \in Happened : <<e[1], e[2], e[3]>> \in Operations
    BY HappenedFacts
  <2> QED
    BY <1>1, <1>7, <2>1 DEF EventInv, EventPcs
<1>10. LastErrorInv
  <2>1. \A q \in EndingWithAnError : <<q[1], q[2], q[3]>> \in Operations
    BY EndingFacts
  <2> QED
    BY <1>1, <1>7, <2>1 DEF LastErrorInv
<1> QED
  BY <1>3, <1>4, <1>5, <1>6, <1>8, <1>9, <1>10 DEF TokenInv

LEMMA TokenStep ==
    TokenInv /\ [Next]_vars => TokenInv'
  BY TypeStep, PositionStep, CallStep, RowStep, VersionStep, RegisteredStep, EventStep,
     LastErrorStep DEF TokenInv

LEMMA TokenInvariant == Spec => []TokenInv
  BY InitFacts, TokenStep, PTL DEF Spec

\* What the properties call recorded the plugins were done with.
LEMMA RecordedIsDone ==
    ASSUME NEW q, IsRecorded(q)
    PROVE  Done(q)
  BY DEF IsRecorded, Done, Behind

-----------------------------------------------------------------------------
(* The theorems.                                                            *)

\* Every variable keeps its type: the scan stays on the chain, whatever fails and
\* whenever the process ends.
THEOREM TokensTypeCorrect == Spec => []TypeOK
<1>1. TokenInv => TypeOK
  BY DEF TokenInv
<1> QED
  BY <1>1, TokenInvariant, PTL

\* As long as no find breaks off, no contract, balance, operation or address has
\* two rows, and balances and transfers are of known tokens: the look-ups before
\* the inserts are then enough in tables without keys, for one scan and any
\* number of restarts.
THEOREM RowsAreSingleOfKnownTokens ==
    ASSUME ~RowsMissed
    PROVE  Spec => []OneRowOfAKnownToken
<1>1. TokenInv => OneRowOfAKnownToken
  BY DEF TokenInv, RowInv
<1> QED
  BY <1>1, TokenInvariant, PTL

\* The checkpoint never passes the registration of a token without its row: what
\* SaveTokenContract fails to do ends the process before the checkpoint moves.
THEOREM RegistrationsAreRecorded == Spec => []TokensRegistered
<1>1. ASSUME TokenInv PROVE TokensRegistered
  <2>1. ASSUME NEW q \in Registrations, IsRecorded(q)
        PROVE  RegistrationGood(tokens, q, hidden)
    BY <1>1, <2>1, RecordedIsDone DEF TokenInv, RegisteredInv
  <2> QED
    BY <2>1 DEF TokensRegistered, RegistrationGood, InfoGood, SupplyGood, AsRecent
<1> QED
  BY <1>1, TokenInvariant, PTL

\* Below the checkpoint an initialised token is common and as recent as its
\* Inited event, in one of its rows, unless the Inited case hid a failure or a
\* find missed the token and the event was passed over.
THEOREM InitialisationsAreRecorded == Spec => []TokensInited
<1>1. ASSUME TokenInv PROVE TokensInited
  <2>1. ASSUME NEW e \in RecordedEvents
        PROVE  EventGood(tokens, history, balances, e, hidden) /\ tokens[e[5].contract] # <<>>
    BY <1>1, RecordedIsDone DEF TokenInv, EventInv, RecordedEvents, Missed
  <2> QED
    BY <2>1 DEF TokensInited, EventGood, CommonGood, InfoGood, SupplyGood, AsRecent
<1> QED
  BY <1>1, TokenInvariant, PTL

\* Below the checkpoint a transfer is in the history and in the balances of both
\* parties, and a mint in the supply, in one of their rows, unless a later
\* assignment to err hid the failure, or a find missed the token and the event was
\* passed over.
THEOREM TransfersAreRecorded == Spec => []TransfersRecorded
<1>1. ASSUME TokenInv PROVE TransfersRecorded
  <2>1. ASSUME NEW e \in RecordedEvents
        PROVE  EventGood(tokens, history, balances, e, hidden) /\ tokens[e[5].contract] # <<>>
    BY <1>1, RecordedIsDone DEF TokenInv, EventInv, RecordedEvents, Missed
  <2> QED
    BY <2>1 DEF TransfersRecorded, EventGood, HistoryGood, BalanceGood, SupplyGood, AsRecent
<1> QED
  BY <1>1, TokenInvariant, PTL

\* An operation whose last event is a transfer that cannot be read or stored, with
\* no deposit after it, is never passed by the checkpoint, but where a find missed
\* the event's token: err is what is returned.
THEOREM LastErrorsStopTheScan == Spec => []LastErrorStopsScan
<1>1. ASSUME TokenInv PROVE LastErrorStopsScan
  BY <1>1, RecordedIsDone DEF TokenInv, LastErrorInv, LastErrorStopsScan, LastEventGood
<1> QED
  BY <1>1, TokenInvariant, PTL

LEMMA PrefixFacts ==
    ASSUME NEW R, NEW rows \in Seq(R)
    PROVE  /\ IsPrefix(rows, rows)
           /\ \A row \in R : IsPrefix(rows, Append(rows, row))
<1>1. Len(rows) \in Nat
  BY SeqFacts
<1>2. IsPrefix(rows, rows)
  BY <1>1 DEF IsPrefix
<1>3. ASSUME NEW row \in R PROVE IsPrefix(rows, Append(rows, row))
  <2> DEFINE grown == Append(rows, row)
             m == Len(rows)
  <2>1. /\ Len(grown) = m + 1 /\ \A j \in 1 .. m : grown[j] = rows[j]
    BY AppendFacts
  <2>2. \A j \in 1 .. m : rows[j] \in R /\ grown[j] \in R
    BY <1>1, <2>1, SeqFacts
  <2>3. m \in Nat
    BY <1>1
  <2> HIDE DEF grown, m
  <2> DEFINE a == SubSeq(rows, 1, m)
             b == SubSeq(grown, 1, m)
  <2>4. /\ a \in Seq(R) /\ Len(a) = (IF 1 <= m THEN m - 1 + 1 ELSE 0)
        /\ \A j \in 1 .. m - 1 + 1 : a[j] = rows[1 + j - 1]
    BY <2>2, <2>3, SubSeqProperties
  <2>5. /\ b \in Seq(R) /\ Len(b) = (IF 1 <= m THEN m - 1 + 1 ELSE 0)
        /\ \A j \in 1 .. m - 1 + 1 : b[j] = grown[1 + j - 1]
    BY <2>2, <2>3, SubSeqProperties
  <2> HIDE DEF a, b
  <2>6. Len(a) = m /\ Len(b) = m /\ \A j \in 1 .. m : a[j] = b[j]
    BY <2>1, <2>3, <2>4, <2>5
  <2>7. a = b
    BY <2>4, <2>5, <2>6, SeqEqual
  <2>8. Len(rows) <= Len(grown)
    BY <2>1, <2>3 DEF m
  <2> QED
    BY <2>7, <2>8 DEF IsPrefix, a, b, m, grown
<1> QED
  BY <1>2, <1>3

\* No balance, supply or token goes back in any row, an initialised token stays
\* initialised, and a transfer's row and an address's first name stay as they are,
\* through every restart and every operation applied again.
THEOREM NothingRecordedGoesBack == Spec => NothingGoesBack
<1> DEFINE Kept ==
        /\ \A c \in Contracts : \A r \in DOMAIN tokens[c] :
              /\ r \in DOMAIN tokens'[c]
              /\ tokens'[c][r].info >= tokens[c][r].info
              /\ tokens'[c][r].supply >= tokens[c][r].supply
              /\ tokens[c][r].common => tokens'[c][r].common
        /\ \A k \in BalanceKeys : \A r \in DOMAIN balances[k] :
              r \in DOMAIN balances'[k] /\ balances'[k][r] >= balances[k][r]
        /\ \A k \in OpKeys : IsPrefix(history[k], history'[k])
        /\ \A u \in Users : IsPrefix(accounts[u], accounts'[u])
<1>1. ASSUME TokenInv, [Next]_vars PROVE Kept
  <2>1. TypeOK /\ PositionInv /\ CallInv /\ VersionInv
    BY <1>1 DEF TokenInv
  <2>2. ASSUME NEW c \in Contracts, NEW r \in DOMAIN tokens[c]
        PROVE  /\ r \in DOMAIN tokens'[c]
               /\ tokens'[c][r].info >= tokens[c][r].info
               /\ tokens'[c][r].supply >= tokens[c][r].supply
               /\ tokens[c][r].common => tokens'[c][r].common
    <3>1. tokens[c] \in Seq(TokenRow)
      BY <2>1 DEF TypeOK, TokenRow
    <3>2. tokens[c][r] \in TokenRow
      BY <3>1, SeqFacts
    <3>3. /\ tokens[c][r].info \in Int /\ tokens[c][r].supply \in Int
          /\ tokens[c][r].info <= InfoAt[head][c] /\ tokens[c][r].supply <= SupplyAt[head][c]
      BY <2>1, <3>2 DEF VersionInv, TokenRow
    <3>4. InfoAt[head][c] \in Nat /\ SupplyAt[head][c] \in Nat
      BY <2>1, RepliesFacts
    <3>5. /\ r \in DOMAIN tokens'[c]
          /\ tokens'[c][r].info \in {tokens[c][r].info, InfoAt[head][c]}
          /\ tokens'[c][r].supply \in {tokens[c][r].supply, SupplyAt[head][c]}
          /\ tokens[c][r].common => tokens'[c][r].common
      BY <1>1, <2>1, TokensStep
    <3> QED
      BY <3>3, <3>4, <3>5
  <2>3. ASSUME NEW k \in BalanceKeys, NEW r \in DOMAIN balances[k]
        PROVE  r \in DOMAIN balances'[k] /\ balances'[k][r] >= balances[k][r]
    <3>1. balances[k] \in Seq(Nat)
      BY <2>1 DEF TypeOK
    <3>2. balances[k][r] \in Nat /\ balances[k][r] <= BalanceAt[head][k]
      BY <2>1, <3>1, SeqFacts DEF VersionInv
    <3>3. head \in 0 .. Len(Chain) /\ head <= head
      BY <2>1, HereFacts
    <3>4. BalanceAt[head][k] \in Nat
      BY <3>3, VersionFacts
    <3>5. /\ r \in DOMAIN balances'[k]
          /\ balances'[k][r] \in {balances[k][r], BalanceAt[head][k]}
      BY <1>1, <2>1, BalancesStep
    <3> QED
      BY <3>2, <3>4, <3>5
  <2>4. ASSUME NEW k \in OpKeys
        PROVE  IsPrefix(history[k], history'[k])
    <3>1. history[k] \in Seq(Nat)
      BY <2>1 DEF TypeOK
    <3>2. history'[k] = history[k] \/ (ev \in Nat /\ history'[k] = Append(history[k], ev))
      BY <1>1, <2>1, HistoryStep
    <3> QED
      BY <3>1, <3>2, PrefixFacts
  <2>5. ASSUME NEW u \in Users
        PROVE  IsPrefix(accounts[u], accounts'[u])
    <3>1. accounts[u] \in Seq(Names)
      BY <2>1 DEF TypeOK
    <3>2. accounts'[u] = accounts[u] \/ \E name \in Names : accounts'[u] = Append(accounts[u], name)
      BY <1>1, <2>1, AccountsStep
    <3> QED
      BY <3>1, <3>2, PrefixFacts
  <2> QED
    BY <2>2, <2>3, <2>4, <2>5
<1>2. TokenInv /\ [Next]_vars => [Kept]_tables
  BY <1>1
<1> HIDE DEF Kept
<1>3. Spec => [][Kept]_tables
  BY <1>2, TokenInvariant, PTL DEF Spec
<1> QED
  BY <1>3 DEF NothingGoesBack, Kept
=============================================================================
