--------------------------- MODULE NodeClientProofs ---------------------------
(***************************************************************************)
(* Proofs about NodeClient, for every chain and its forks, any number of   *)
(* calls and pings, and every set of faults.                               *)
(***************************************************************************)
EXTENDS NodeClient, TLAPS

-----------------------------------------------------------------------------
(* What is known of the call being made and of the messages on the wires.   *)
(* AnswersItsCall is not inductive by itself: an answer is of its call      *)
(* because the request with the call's id was, and because no message but a *)
(* pong has the id of a call that is still to be made.                      *)

Messages == [id : Nat, kind : Kinds, value : Values]

\* What may be said of an answer to the call in progress.
AnswersCall(a) ==
    /\ a.kind = "result" =>
          /\ n \in Heights
          /\ a.value.method = method /\ a.value.n = n
          /\ a.value.fork <= fork[n]
          /\ block # <<>> => block[1].fork <= a.value.fork
    /\ a.kind = "null" => n > asked

RequestsSent ==
    {q \in Requests : q.method # "ping" =>
        /\ q.id < seq /\ q.n >= 1
        /\ q.id \in pending => q.method = method /\ q.n = n}

MessagesSent ==
    {a \in Messages :
        /\ a.kind \notin {"pong", "garbled"} => a.id < seq
        /\ a.kind = "odd" => odd
        /\ a.kind = "garbled" => garbled
        /\ a.id \in pending => AnswersCall(a)}

WireInv == toNode \in Seq(RequestsSent) /\ toClient \in Seq(MessagesSent)

CallInv ==
    /\ pc = "waiting" /\ answer = <<>> => pending = {seq - 1}
    /\ pending # {} =>
          pending = {seq - 1} /\ answer = <<>> /\ ~shutdown /\ pc \in {"waiting", "down"}
    /\ answer # <<>> => pc \in {"waiting", "down"} /\ AnswersCall(answer[1])

ConnInv ==
    /\ ShutdownHasAReason
    /\ pc = "start" => socket = "none" /\ ~ws /\ ~shutdown

\* GetBlock holds a block only between its two calls.
BlockInv ==
    /\ block \in Seq([fork : Nat, ids : {<<>>}])
    /\ block # <<>> =>
          method = "fetch_block_transactions" /\ n \in Heights /\ block[1].fork <= fork[n]
    /\ pc \in {"start", "ready"} => method # "fetch_block_transactions"
    /\ method = "fetch_block_transactions" /\ pc \in {"call", "waiting"} => block # <<>>
    /\ method # "get_block" => n \in Heights

ReturnedInv ==
    /\ NilBlockIsPastHead
    /\ IdsAreTheBlocks
    /\ returned # <<>> /\ returned[1].block # <<>> /\ ~returned[1].err =>
          returned[1].n \in Heights /\ returned[1].block[1].fork \in Nat

ClientInv == TypeOK /\ WireInv /\ CallInv /\ ConnInv /\ BlockInv /\ ReturnedInv

-----------------------------------------------------------------------------
(* Queues.                                                                  *)

\* Sending to a queue, taking from it, and knowing more of its elements.
LEMMA QueueFacts ==
    ASSUME NEW S, NEW s \in Seq(S)
    PROVE  /\ s # <<>> => Head(s) \in S /\ Tail(s) \in Seq(S)
           /\ \A x \in S : Append(s, x) \in Seq(S)
           /\ \A T : S \subseteq T => s \in Seq(T)
<1>1. ASSUME NEW T, S \subseteq T PROVE s \in Seq(T)
  BY <1>1
<1> QED
  BY <1>1

\* What a call returned, and GetBlock's block, are empty or of one element.
LEMMA OneAtMost ==
    ASSUME NEW S, NEW x \in S
    PROVE  <<x>> \in Seq(S) /\ Len(<<x>>) = 1 /\ <<x>>[1] = x /\ <<x>> # <<>>
OBVIOUS

-----------------------------------------------------------------------------
(* The types.                                                               *)

\* What the assumptions on the constants say.
LEMMA NodeFacts ==
    /\ Len(Txs) \in Nat /\ Heights = 1 .. Len(Txs)
    /\ \A b \in Heights :
          Len(Txs[b]) \in Nat /\ DOMAIN Txs[b] = 1 .. Len(Txs[b]) /\ 1 \in DOMAIN Txs[b]
    /\ MaxPings \in Nat
    /\ OtherCalls \subseteq Methods \ {"get_block", "fetch_block_transactions"}
<1>1. /\ Txs \in Seq(Seq(Nat)) /\ \A b \in Heights : Txs[b] # <<>>
      /\ MaxPings \in Nat
      /\ OtherCalls \subseteq Methods \ {"get_block", "fetch_block_transactions"}
  BY ParameterAssumption DEF ParameterAssumption
<1>2. Len(Txs) \in Nat /\ Heights = 1 .. Len(Txs)
  BY <1>1 DEF Heights
<1>3. ASSUME NEW b \in Heights PROVE Txs[b] \in Seq(Nat)
  <2>1. ASSUME NEW S, NEW s \in Seq(S), NEW i \in 1 .. Len(s) PROVE s[i] \in S
    BY <2>1
  <2> QED
    BY <1>1, <1>2, <2>1
<1>4. ASSUME NEW b \in Heights
      PROVE  Len(Txs[b]) \in Nat /\ DOMAIN Txs[b] = 1 .. Len(Txs[b]) /\ 1 \in DOMAIN Txs[b]
  <2>1. ASSUME NEW s \in Seq(Nat), s # <<>>
        PROVE  Len(s) \in Nat /\ DOMAIN s = 1 .. Len(s) /\ 1 \in DOMAIN s
    BY <2>1
  <2> QED
    BY <1>1, <1>3, <2>1
<1> QED
  BY <1>1, <1>2, <1>4

\* Forks are numbered.
LEMMA ForkFacts ==
    ASSUME TypeOK
    PROVE  \A b \in Heights : fork[b] \in 1 .. Len(Txs[b]) /\ fork[b] \in Nat
BY NodeFacts DEF TypeOK

NodeTypes ==
    /\ head \in 0 .. Len(Txs)
    /\ \A b \in Heights : fork[b] \in DOMAIN Txs[b]
    /\ socket \in {"none", "up", "dropped", "closed"}
    /\ ws \in BOOLEAN /\ client \in BOOLEAN /\ stopping \in BOOLEAN
    /\ pings \in 0 .. MaxPings /\ odd \in BOOLEAN /\ garbled \in BOOLEAN

NodeGrows ==
    /\ head' >= head
    /\ \A b \in Heights : fork[b] <= fork'[b]
    /\ odd => odd'
    /\ garbled => garbled'

\* The environment and the connection keep their types, and the node forgets
\* neither a block nor a fork.
LEMMA NodeTypesStep ==
    ASSUME TypeOK, [Next]_vars
    PROVE  NodeTypes' /\ NodeGrows
<1>0. /\ NodeTypes
      /\ Len(Txs) \in Nat /\ MaxPings \in Nat
      /\ \A b \in Heights : DOMAIN Txs[b] = 1 .. Len(Txs[b]) /\ Len(Txs[b]) \in Nat
      /\ \A b \in Heights : fork[b] \in Nat
  BY NodeFacts, ForkFacts DEF TypeOK, NodeTypes
<1>1. ASSUME UNCHANGED fork PROVE \A b \in Heights : fork'[b] \in DOMAIN Txs[b] /\ fork[b] <= fork'[b]
  BY <1>0, <1>1 DEF NodeTypes
<1>2. ASSUME UNCHANGED node PROVE head' \in 0 .. Len(Txs) /\ head' >= head /\ UNCHANGED fork
  BY <1>0, <1>2 DEF NodeTypes, node
<1> USE DEF NodeTypes, NodeGrows
<1>3. CASE Produce
  <2>1. head' \in 0 .. Len(Txs) /\ head' >= head
    BY <1>0, <1>3 DEF Produce
  <2> QED
    BY <1>0, <1>1, <1>3, <2>1 DEF Produce, wires, conn, seen
<1>4. ASSUME NEW b \in Heights, SwitchFork(b) PROVE NodeTypes' /\ NodeGrows
  <2>1. \A h \in Heights : fork'[h] \in DOMAIN Txs[h] /\ fork[h] <= fork'[h]
    BY <1>0, <1>4 DEF SwitchFork
  <2>2. head' \in 0 .. Len(Txs) /\ head' >= head
    BY <1>0, <1>4 DEF SwitchFork
  <2> QED
    BY <1>0, <1>4, <2>1, <2>2 DEF SwitchFork, wires, conn, seen
<1>5. CASE NodeStep
  <2>1. UNCHANGED <<node, socket, conn, pings>>
    BY <1>5 DEF NodeStep, NodeAnswers, NodeSilent, NodePongs
  <2>2. /\ odd' \in BOOLEAN /\ (odd => odd')
        /\ garbled' \in BOOLEAN /\ (garbled => garbled')
    BY <1>0, <1>5 DEF NodeStep, NodeAnswers, NodeSilent, NodePongs, seen
  <2> QED
    BY <1>0, <1>1, <1>2, <2>1, <2>2 DEF conn
<1>6. CASE NodeDrops \/ ConnectHxNode \/ CloseStep \/ Cancel
  <2>1. UNCHANGED <<node, pings, odd, garbled>>
    BY <1>6 DEF NodeDrops, ConnectHxNode, CloseStep, CloseSocket, ForgetClient, Cancel, seen
  <2>2. /\ socket' \in {"none", "up", "dropped", "closed"}
        /\ ws' \in BOOLEAN /\ client' \in BOOLEAN /\ stopping' \in BOOLEAN
    BY <1>0, <1>6
       DEF NodeDrops, ConnectHxNode, CloseStep, CloseSocket, ForgetClient, Cancel, wires, conn
  <2> QED
    BY <1>0, <1>1, <1>2, <2>1, <2>2
<1>7. CASE Ping
  <2>1. UNCHANGED <<node, socket, conn, odd, garbled>> /\ pings' \in 0 .. MaxPings
    BY <1>0, <1>7 DEF Ping, seen
  <2> QED
    BY <1>0, <1>1, <1>2, <2>1 DEF conn
<1>8. CASE UNCHANGED <<node, socket, conn, pings, odd, garbled>>
  BY <1>0, <1>1, <1>2, <1>8 DEF conn
<1>9. CASE ProcessEnds \/ InputStep \/ UNCHANGED vars
  <2>1. UNCHANGED <<node, socket, conn, pings, odd, garbled>>
    BY <1>9 DEF ProcessEnds, InputStep, ReadResponse, Readable,
       ReadResponseHeaderFails, InputEnds, FailPending, vars, wires, seen
  <2> QED
    BY <1>8, <2>1
<1>10. CASE ScanStep /\ ~ConnectHxNode
  <2>1. UNCHANGED <<node, socket, conn, pings, odd, garbled>>
    BY <1>10 DEF ScanStep, NotConnected, TakeClient, NilClientPanics, WriteRequest,
       WriteRequestFails, GetBlockNil, GetBlockFails, GetBlockDecoded,
       FetchBlockTransactions, FetchBlockTransactionsFails, OtherCallReturns,
       afterCall, wires, seen
  <2> QED
    BY <1>8, <2>1
<1> QED
  BY <1>3, <1>4, <1>5, <1>6, <1>7, <1>9, <1>10 DEF Next

\* Only the scan goroutine and the input loop touch the call in progress.
LEMMA OthersLeaveTheCall ==
    [Next]_vars =>
        \/ ScanStep \/ InputStep
        \/ /\ UNCHANGED <<rpc, method, n, answer, block, returned, asked>>
           /\ pc' = pc \/ pc' = "down"
BY DEF Next, Produce, SwitchFork, NodeDrops, NodeStep, NodeAnswers, NodeSilent, NodePongs,
       Ping, Cancel, CloseStep, CloseSocket, ForgetClient, ProcessEnds, vars, scan, seen

\* What is taken from a wire is one of the messages known to be sent on it.
LEMMA WireFacts ==
    ASSUME WireInv
    PROVE  /\ toNode # <<>> =>
                 Head(toNode) \in RequestsSent /\ Tail(toNode) \in Seq(RequestsSent)
           /\ toClient # <<>> =>
                 Head(toClient) \in MessagesSent /\ Tail(toClient) \in Seq(MessagesSent)
BY QueueFacts DEF WireInv

AnswerTypes == Len(answer) <= 1 /\ answer \in Seq([kind : Kinds, value : Values])

\* An answer is the node's, or the client's error.
LEMMA AnswerTypesStep ==
    ASSUME TypeOK, WireInv, [Next]_vars
    PROVE  AnswerTypes'
<1>0. /\ AnswerTypes
      /\ <<>> \in Seq([kind : Kinds, value : Values])
      /\ \A x \in [kind : Kinds, value : Values] :
            Len(<<x>>) <= 1 /\ <<x>> \in Seq([kind : Kinds, value : Values])
  BY DEF TypeOK, AnswerTypes
<1>1. Error \in [kind : Kinds, value : Values]
  BY DEF Error, Kinds, Values
<1>e. Len(<<Error>>) <= 1 /\ <<Error>> \in Seq([kind : Kinds, value : Values])
  BY <1>0, <1>1
<1>2. CASE answer' \in {<<>>, answer, <<Error>>}
  <2>1. answer' = <<>> => AnswerTypes'
    BY <1>0 DEF AnswerTypes
  <2>2. answer' = answer => AnswerTypes'
    BY <1>0 DEF AnswerTypes
  <2>3. answer' = <<Error>> => AnswerTypes'
    BY <1>e DEF AnswerTypes
  <2> QED
    BY <1>2, <2>1, <2>2, <2>3
<1>3. CASE ReadResponse
  <2>1. Head(toClient) \in Messages
    BY <1>3, WireFacts DEF ReadResponse, Readable, MessagesSent
  <2>2. Handed(Head(toClient)) \in [kind : Kinds, value : Values]
    BY <2>1 DEF Handed, Messages
  <2>3. answer' = answer \/ answer' = <<Handed(Head(toClient))>>
    BY <1>3 DEF ReadResponse, Readable
  <2> QED
    BY <1>0, <2>2, <2>3 DEF AnswerTypes
<1>4. CASE ReadResponseHeaderFails \/ InputEnds
  BY <1>2, <1>4 DEF ReadResponseHeaderFails, Readable, InputEnds, FailPending
<1>5. CASE ScanStep
  <2>1. answer' \in {<<>>, answer, <<Error>>}
    BY <1>5 DEF ScanStep, ConnectHxNode, NotConnected, TakeClient, NilClientPanics,
       WriteRequest, WriteRequestFails, GetBlockNil, GetBlockFails, GetBlockDecoded,
       FetchBlockTransactions, FetchBlockTransactionsFails, OtherCallReturns
  <2> QED
    BY <1>2, <2>1
<1> QED
  BY <1>2, <1>3, <1>4, <1>5, OthersLeaveTheCall DEF InputStep

RpcTypes == seq \in Nat /\ pending \subseteq 0 .. seq - 1 /\ shutdown \in BOOLEAN

\* Calls are numbered from 0, and only calls made are pending.
LEMMA RpcTypesStep ==
    ASSUME TypeOK, [Next]_vars
    PROVE  RpcTypes'
<1>0. RpcTypes
  BY DEF TypeOK, RpcTypes
<1>1. CASE UNCHANGED rpc
  BY <1>0, <1>1 DEF RpcTypes, rpc
<1>2. CASE WriteRequest \/ WriteRequestFails
  <2>1. seq' = seq + 1 /\ pending' \in {pending, pending \cup {seq}} /\ shutdown' = shutdown
    BY <1>2 DEF WriteRequest, WriteRequestFails
  <2> QED
    BY <1>0, <2>1 DEF RpcTypes
<1>3. CASE InputStep
  <2>1. seq' = seq /\ pending' \subseteq pending /\ shutdown' \in BOOLEAN
    BY <1>0, <1>3 DEF InputStep, ReadResponse, Readable,
       ReadResponseHeaderFails, InputEnds, FailPending, RpcTypes, EndsInput
  <2> QED
    BY <1>0, <2>1 DEF RpcTypes
<1>4. ASSUME ScanStep, ~WriteRequest, ~WriteRequestFails PROVE UNCHANGED rpc
  BY <1>4 DEF ScanStep, ConnectHxNode, NotConnected, TakeClient, NilClientPanics,
     GetBlockNil, GetBlockFails, GetBlockDecoded, FetchBlockTransactions,
     FetchBlockTransactionsFails, OtherCallReturns, afterCall
<1> QED
  BY <1>1, <1>2, <1>3, <1>4, OthersLeaveTheCall

ScanTypes ==
    /\ pc \in {"start", "ready", "call", "waiting", "ended", "down"}
    /\ method \in Methods /\ n \in 1 .. Len(Txs) + 1
    /\ Len(block) <= 1 /\ Len(returned) <= 1
    /\ asked \in 0 .. head

\* The scan asks for the blocks of the chain and the one after them, and goes
\* past a block only when it has been one of the chain's.
LEMMA ScanTypesStep ==
    ASSUME TypeOK, BlockInv, [Next]_vars
    PROVE  ScanTypes'
<1>0. /\ ScanTypes
      /\ head \in 0 .. Len(Txs) /\ head' \in 0 .. Len(Txs) /\ head' >= head
      /\ Len(Txs) \in Nat /\ Heights = 1 .. Len(Txs)
      /\ OtherCalls \subseteq Methods /\ "get_block" \notin OtherCalls
  BY NodeFacts, NodeTypesStep DEF TypeOK, ScanTypes, NodeTypes, NodeGrows
<1>1. asked' \in 0 .. head'
  <2>1. asked' = asked \/ asked' = head
    <3>1. CASE ScanStep
      BY <3>1 DEF ScanStep, ConnectHxNode, NotConnected, TakeClient, NilClientPanics,
         WriteRequest, WriteRequestFails, GetBlockNil, GetBlockFails, GetBlockDecoded,
         FetchBlockTransactions, FetchBlockTransactionsFails, OtherCallReturns,
         afterCall, Asking, seen
    <3>2. CASE InputStep
      BY <3>2 DEF InputStep, ReadResponse, Readable,
         ReadResponseHeaderFails, InputEnds, FailPending, seen
    <3> QED
      BY <3>1, <3>2, OthersLeaveTheCall
  <2> QED
    BY <1>0, <2>1 DEF ScanTypes
<1>2. pc' \in {"start", "ready", "call", "waiting", "ended", "down"}
  <2>1. CASE ScanStep
    BY <1>0, <2>1 DEF ScanTypes, ScanStep, ConnectHxNode, NotConnected, TakeClient,
       NilClientPanics, WriteRequest, WriteRequestFails, GetBlockNil, GetBlockFails,
       GetBlockDecoded, FetchBlockTransactions, FetchBlockTransactionsFails,
       OtherCallReturns
  <2>2. CASE InputStep
    BY <1>0, <2>2 DEF ScanTypes, InputStep, ReadResponse, Readable,
       ReadResponseHeaderFails, InputEnds, FailPending
  <2> QED
    BY <1>0, <2>1, <2>2, OthersLeaveTheCall DEF ScanTypes
<1>3. method' \in Methods
  <2>1. CASE ScanStep
    BY <1>0, <2>1 DEF ScanTypes, ScanStep, ConnectHxNode, NotConnected, TakeClient,
       NilClientPanics, WriteRequest, WriteRequestFails, GetBlockNil, GetBlockFails,
       GetBlockDecoded, FetchBlockTransactions, FetchBlockTransactionsFails,
       OtherCallReturns, Methods
  <2>2. CASE InputStep
    BY <1>0, <2>2 DEF ScanTypes, InputStep, ReadResponse, Readable,
       ReadResponseHeaderFails, InputEnds, FailPending
  <2> QED
    BY <1>0, <2>1, <2>2, OthersLeaveTheCall DEF ScanTypes
<1>4. n' \in 1 .. Len(Txs) + 1
  <2>1. n' = n \/ (method # "get_block" /\ n' = n + 1)
    <3>1. CASE ScanStep
      BY <1>0, <3>1 DEF ScanStep, ConnectHxNode, NotConnected, TakeClient, NilClientPanics,
         WriteRequest, WriteRequestFails, GetBlockNil, GetBlockFails, GetBlockDecoded,
         FetchBlockTransactions, FetchBlockTransactionsFails, OtherCallReturns,
         Answered
    <3>2. CASE InputStep
      BY <3>2 DEF InputStep, ReadResponse, Readable, ReadResponseHeaderFails,
         InputEnds, FailPending
    <3> QED
      BY <3>1, <3>2, OthersLeaveTheCall
  <2> QED
    BY <1>0, <2>1 DEF ScanTypes, BlockInv
<1>5. Len(block') <= 1
  <2>1. CASE GetBlockDecoded
    BY <2>1 DEF GetBlockDecoded
  <2>2. ASSUME ScanStep, ~GetBlockDecoded PROVE block' = block \/ block' = <<>>
    BY <2>2 DEF ScanStep, ConnectHxNode, NotConnected, TakeClient, NilClientPanics,
       WriteRequest, WriteRequestFails, GetBlockNil, GetBlockFails,
       FetchBlockTransactions, FetchBlockTransactionsFails, OtherCallReturns, afterCall
  <2>3. InputStep => block' = block
    BY DEF InputStep, ReadResponse, Readable, ReadResponseHeaderFails, InputEnds, FailPending
  <2> QED
    BY <1>0, <2>1, <2>2, <2>3, OthersLeaveTheCall DEF ScanTypes
<1>6. Len(returned') <= 1
  <2>1. ASSUME NEW b, NEW err, NEW kind, Returns(b, err, kind) PROVE Len(returned') <= 1
    BY <2>1 DEF Returns
  <2>2. ASSUME ScanStep
        PROVE  returned' = returned \/ \E b, err, kind : Returns(b, err, kind)
    BY <2>2 DEF ScanStep, ConnectHxNode, NotConnected, TakeClient, NilClientPanics,
       WriteRequest, WriteRequestFails, GetBlockNil, GetBlockFails, GetBlockDecoded,
       FetchBlockTransactions, FetchBlockTransactionsFails, OtherCallReturns,
       afterCall, seen
  <2>3. InputStep => returned' = returned
    BY DEF InputStep, ReadResponse, Readable,
         ReadResponseHeaderFails, InputEnds, FailPending, seen
  <2> QED
    BY <1>0, <2>1, <2>2, <2>3, OthersLeaveTheCall DEF ScanTypes
<1> QED
  BY <1>1, <1>2, <1>3, <1>4, <1>5, <1>6 DEF ScanTypes

-----------------------------------------------------------------------------
(* The invariant, part by part.                                             *)

\* The first element of a sequence.
LEMMA FirstFacts ==
    ASSUME NEW S, NEW s \in Seq(S), s # <<>>
    PROVE  s[1] \in S
OBVIOUS

\* Every value a message carries has a fork that is a number.
LEMMA ValueFacts ==
    ASSUME NEW v \in Values
    PROVE  v.fork \in Nat
<1>1. CASE v = Nothing
  BY <1>1 DEF Nothing
<1>2. CASE v \in [method : Methods, n : Heights, fork : Nat]
  BY <1>2
<1> QED
  BY <1>1, <1>2 DEF Values

\* The fork of the block held, and that of an answer, are numbers.
LEMMA HeldFacts ==
    ASSUME TypeOK, BlockInv, [Next]_vars
    PROVE  /\ block # <<>> => block[1].fork \in Nat
           /\ answer # <<>> => Kind \in Kinds /\ Value \in Values /\ Value.fork \in Nat
           /\ \A b \in Heights : fork[b] \in Nat /\ fork'[b] \in Nat
<1>1. ASSUME block # <<>> PROVE block[1].fork \in Nat
  <2>1. block[1] \in [fork : Nat, ids : {<<>>}]
    BY <1>1, FirstFacts DEF BlockInv
  <2> QED
    BY <2>1
<1>2. ASSUME answer # <<>>
      PROVE  Kind \in Kinds /\ Value \in Values /\ Value.fork \in Nat
  <2>1. answer[1] \in [kind : Kinds, value : Values]
    BY <1>2, FirstFacts DEF TypeOK
  <2>2. Kind \in Kinds /\ Value \in Values
    BY <2>1 DEF Kind, Value
  <2> QED
    BY <2>2, ValueFacts
<1>3. ASSUME NEW b \in Heights PROVE fork[b] \in Nat /\ fork'[b] \in Nat
  BY NodeFacts, ForkFacts, NodeTypesStep DEF NodeTypes
<1> QED
  BY <1>1, <1>2, <1>3

\* GetBlock takes a block from the first call's answer, on the fork the node was
\* on then, and drops it when the second call is answered.
LEMMA BlockInvStep ==
    ASSUME TypeOK, CallInv, BlockInv, [Next]_vars
    PROVE  BlockInv'
<1>0. /\ Heights = 1 .. Len(Txs) /\ n \in 1 .. Len(Txs) + 1
      /\ OtherCalls \subseteq Methods \ {"get_block", "fetch_block_transactions"}
      /\ NodeGrows
      /\ <<>> \in Seq([fork : Nat, ids : {<<>>}])
  BY NodeFacts, NodeTypesStep DEF TypeOK
<1>1. CASE GetBlockDecoded
  <2>1. /\ answer # <<>> /\ Kind = "result" /\ pc' = "call"
        /\ method' = "fetch_block_transactions" /\ UNCHANGED <<n, fork>>
        /\ block' = <<[fork |-> Value.fork, ids |-> <<>>]>>
    BY <1>1 DEF GetBlockDecoded, Answered, afterCall, node
  <2>2. n \in Heights /\ Value.fork <= fork[n] /\ Value.fork \in Nat
    BY <2>1, HeldFacts DEF CallInv, AnswersCall, Kind, Value
  <2>3. block' \in Seq([fork : Nat, ids : {<<>>}]) /\ block'[1].fork = Value.fork /\ block' # <<>>
    BY <2>1, <2>2
  <2> QED
    BY <2>1, <2>2, <2>3 DEF BlockInv
<1>2. CASE FetchBlockTransactions
  <2>1. /\ method = "fetch_block_transactions" /\ pc' = "ready" /\ block' = <<>>
        /\ \/ method' = "get_block"
           \/ method' \in OtherCalls /\ n' = n
    BY <1>2 DEF FetchBlockTransactions, Answered
  <2> QED
    BY <1>0, <2>1 DEF BlockInv
<1>3. CASE FetchBlockTransactionsFails
  BY <1>0, <1>3 DEF FetchBlockTransactionsFails, Answered, BlockInv
<1>4. CASE OtherCallReturns
  <2>1. /\ method \in OtherCalls /\ pc' \in {"down", "ready"} /\ UNCHANGED block
        /\ \/ method' = "get_block"
           \/ method' \in OtherCalls /\ n' = n
    BY <1>4 DEF OtherCallReturns, Answered
  <2> QED
    BY <1>0, <2>1 DEF BlockInv
<1>5. CASE NotConnected
  BY <1>5 DEF NotConnected, BlockInv
<1>6. ASSUME UNCHANGED <<method, n, block>>,
             \/ pc' \in {pc, "down", "ended"}
             \/ pc' = "waiting" /\ pc = "call"
             \/ pc' \in {"ready", "call"} /\ method # "fetch_block_transactions"
      PROVE  BlockInv'
  <2>1. ASSUME block # <<>> PROVE block[1].fork <= fork'[n]
    <3>1. n \in Heights /\ block[1].fork <= fork[n] /\ fork[n] <= fork'[n]
      BY <1>0, <2>1 DEF BlockInv, NodeGrows
    <3>2. fork[n] \in Nat /\ fork'[n] \in Int /\ block[1].fork \in Nat
      BY <2>1, <3>1, HeldFacts
    <3> QED
      BY <3>1, <3>2
  <2> QED
    BY <1>6, <2>1 DEF BlockInv
<1>7. ASSUME ScanStep, ~GetBlockDecoded, ~FetchBlockTransactions,
             ~FetchBlockTransactionsFails, ~OtherCallReturns, ~NotConnected
      PROVE  /\ UNCHANGED <<method, n, block>>
             /\ \/ pc' \in {pc, "down", "ended"}
                \/ pc' = "waiting" /\ pc = "call"
                \/ pc' \in {"ready", "call"} /\ method # "fetch_block_transactions"
  BY <1>7 DEF ScanStep, ConnectHxNode, TakeClient, NilClientPanics, WriteRequest,
     WriteRequestFails, GetBlockNil, GetBlockFails, Answered, BlockInv
<1>8. InputStep => UNCHANGED <<method, n, block, pc>>
  BY DEF InputStep, ReadResponse, Readable, ReadResponseHeaderFails, InputEnds, FailPending
<1> QED
  BY <1>1, <1>2, <1>3, <1>4, <1>5, <1>6, <1>7, <1>8, OthersLeaveTheCall

\* A call is answered at most once, and is no longer pending then; while it
\* waits it is pending, and the input loop is reading.
LEMMA CallInvStep ==
    ASSUME TypeOK, WireInv, CallInv, BlockInv, [Next]_vars
    PROVE  /\ pc' = "waiting" /\ answer' = <<>> => pending' = {seq' - 1}
           /\ pending' # {} => /\ pending' = {seq' - 1} /\ answer' = <<>> /\ ~shutdown'
                               /\ pc' \in {"waiting", "down"}
           /\ answer' # <<>> => pc' \in {"waiting", "down"}
<1>0. seq \in Nat /\ (seq + 1) - 1 = seq
  BY DEF TypeOK
<1> USE <1>0 DEF CallInv
<1>1. CASE WriteRequest \/ WriteRequestFails
  <2>1. pending = {} /\ answer = <<>>
    BY <1>1 DEF WriteRequest, WriteRequestFails
  <2> QED
    BY <1>1, <2>1 DEF WriteRequest, WriteRequestFails
<1>2. CASE ReadResponse
  <2>1. /\ ~shutdown /\ UNCHANGED <<seq, pc>>
        /\ \/ /\ Called(Head(toClient).id) = {}
              /\ pending' = pending /\ UNCHANGED <<answer, shutdown>>
           \/ /\ Called(Head(toClient).id) # {}
              /\ pending' = pending \ Called(Head(toClient).id)
              /\ answer' = <<Handed(Head(toClient))>>
    BY <1>2 DEF ReadResponse, Readable
  <2>2. Called(Head(toClient).id) # {} => pending # {} /\ pending \ Called(Head(toClient).id) = {}
    BY DEF Called
  <2> QED
    BY <2>1, <2>2
<1>3. CASE ReadResponseHeaderFails \/ InputEnds
  BY <1>3 DEF ReadResponseHeaderFails, Readable, InputEnds, FailPending
<1>4. ASSUME ScanStep, ~WriteRequest, ~WriteRequestFails
      PROVE  /\ UNCHANGED rpc
             /\ \/ answer' = <<>> /\ pc = "waiting" /\ answer # <<>> /\ pc' # "waiting"
                \/ answer' = answer /\ pc' # "waiting" /\ pc # "waiting" /\ pc # "down"
  BY <1>4 DEF ScanStep, ConnectHxNode, NotConnected, TakeClient, NilClientPanics,
     GetBlockNil, GetBlockFails, GetBlockDecoded, FetchBlockTransactions,
     FetchBlockTransactionsFails, OtherCallReturns, Answered, afterCall
<1>5. ASSUME ScanStep, ~WriteRequest, ~WriteRequestFails PROVE pending = {} /\ pending' = {}
  BY <1>4, <1>5 DEF rpc
<1> QED
  BY <1>1, <1>2, <1>3, <1>4, <1>5, OthersLeaveTheCall DEF InputStep, rpc

\* The client is shut down only after the socket is gone, an odd result or a
\* message that does not decode.
LEMMA ConnInvStep ==
    ASSUME TypeOK, WireInv, ConnInv, [Next]_vars
    PROVE  ConnInv'
<1>1. (odd => odd') /\ (garbled => garbled')
  BY NodeTypesStep DEF NodeGrows
<1>2. CASE ReadResponse
  <2>1. Head(toClient).kind = "odd" => odd
    BY <1>2, WireFacts DEF ReadResponse, Readable, MessagesSent
  <2>2. shutdown' => Head(toClient).kind = "odd"
    BY <1>2 DEF ReadResponse, Readable, EndsInput
  <2>3. pc' = pc /\ socket' = socket /\ toClient # <<>> /\ socket \in {"up", "dropped"}
    BY <1>2 DEF ReadResponse, Readable
  <2> QED
    BY <1>1, <2>1, <2>2, <2>3 DEF ConnInv, ShutdownHasAReason
<1>3. CASE InputEnds
  BY <1>3 DEF InputEnds, FailPending, ConnInv, ShutdownHasAReason, wires, seen
<1>8. CASE ReadResponseHeaderFails
  <2>1. /\ toClient # <<>> /\ Head(toClient).kind = "garbled"
        /\ socket \in {"up", "dropped"} /\ UNCHANGED <<pc, socket, ws>>
    BY <1>8 DEF ReadResponseHeaderFails, Readable, conn
  <2>2. garbled
    BY <2>1, WireFacts DEF MessagesSent
  <2> QED
    BY <1>1, <2>1, <2>2 DEF ConnInv, ShutdownHasAReason
<1>4. CASE NodeDrops \/ CloseStep
  BY <1>4 DEF NodeDrops, CloseStep, CloseSocket, ForgetClient, ConnInv,
              ShutdownHasAReason, IsHxNodeConnected, conn, rpc, scan, wires, seen
<1>5. CASE ConnectHxNode
  BY <1>5 DEF ConnectHxNode, ConnInv, ShutdownHasAReason, rpc
<1>6. CASE /\ UNCHANGED <<socket, ws, shutdown>>
           /\ pc' = "start" => pc = "start"
  BY <1>1, <1>6 DEF ConnInv, ShutdownHasAReason
<1>7. CASE /\ [Next]_vars /\ ~InputStep /\ ~NodeDrops /\ ~CloseStep /\ ~ConnectHxNode
  <2>1. UNCHANGED <<socket, ws, shutdown>> /\ (pc' = "start" => pc = "start")
    BY <1>7 DEF Next, Produce, SwitchFork, NodeStep, NodeAnswers, NodeSilent, NodePongs,
       Ping, Cancel, ProcessEnds, ScanStep, NotConnected, TakeClient, NilClientPanics,
       WriteRequest, WriteRequestFails, GetBlockNil, GetBlockFails, GetBlockDecoded,
       FetchBlockTransactions, FetchBlockTransactionsFails, OtherCallReturns,
       afterCall, vars, wires, conn, rpc, scan
  <2> QED
    BY <1>6, <2>1
<1> QED
  BY <1>2, <1>3, <1>4, <1>5, <1>7, <1>8 DEF InputStep

\* While a call is pending, what is being asked does not change.
LEMMA CallEvolves ==
    ASSUME TypeOK, CallInv, [Next]_vars
    PROVE  /\ seq' >= seq
           /\ \/ pending' = {}
              \/ pending' = pending /\ UNCHANGED <<method, n, block, asked>>
              \/ pending' = {seq} /\ seq' = seq + 1
<1>0. seq \in Nat
  BY DEF TypeOK
<1>1. CASE WriteRequest \/ WriteRequestFails
  BY <1>0, <1>1 DEF WriteRequest, WriteRequestFails, CallInv
<1>2. CASE ReadResponse
  <2>1. pending = {} \/ pending = {seq - 1}
    BY DEF CallInv
  <2>2. pending' = {} \/ pending' = pending
    BY <1>2, <2>1 DEF ReadResponse, Readable, Called
  <2> QED
    BY <1>0, <1>2, <2>2 DEF ReadResponse, Readable, seen
<1>3. CASE ReadResponseHeaderFails \/ InputEnds
  BY <1>0, <1>3 DEF ReadResponseHeaderFails, Readable, InputEnds, FailPending, seen
<1>4. ASSUME ScanStep, ~WriteRequest, ~WriteRequestFails
      PROVE  /\ UNCHANGED rpc
             /\ answer # <<>> \/ pc \notin {"waiting", "down"}
  BY <1>4 DEF ScanStep, ConnectHxNode, NotConnected, TakeClient, NilClientPanics,
     GetBlockNil, GetBlockFails, GetBlockDecoded, FetchBlockTransactions,
     FetchBlockTransactionsFails, OtherCallReturns, Answered, afterCall
<1>5. ASSUME ScanStep, ~WriteRequest, ~WriteRequestFails PROVE pending' = {} /\ seq' = seq
  BY <1>4, <1>5 DEF rpc, CallInv
<1> QED
  BY <1>0, <1>1, <1>2, <1>3, <1>5, OthersLeaveTheCall DEF InputStep, rpc

\* An answer to the call in progress stays one while the call does not change.
LEMMA StillAnswers ==
    ASSUME TypeOK, BlockInv, [Next]_vars, UNCHANGED <<method, n, block, asked>>,
           NEW a, a.kind = "result" => a.value.fork \in Nat, AnswersCall(a)
    PROVE  AnswersCall(a)'
<1>1. ASSUME a.kind = "result" PROVE a.value.fork <= fork'[n]
  <2>1. n \in Heights /\ a.value.fork <= fork[n] /\ a.value.fork \in Nat
    BY <1>1 DEF AnswersCall
  <2>2. fork[n] <= fork'[n] /\ fork[n] \in Nat /\ fork'[n] \in Nat
    BY <2>1, HeldFacts, NodeTypesStep DEF NodeGrows
  <2> QED
    BY <2>1, <2>2
<1> QED
  BY <1>1 DEF AnswersCall

\* What was sent remains what it was, and is not of a call made later.
LEMMA SentStaysSent ==
    ASSUME TypeOK, CallInv, BlockInv, [Next]_vars
    PROVE  RequestsSent \subseteq RequestsSent' /\ MessagesSent \subseteq MessagesSent'
<1>0. seq \in Nat /\ seq' \in Nat /\ seq' >= seq /\ (odd => odd') /\ (garbled => garbled')
  BY RpcTypesStep, CallEvolves, NodeTypesStep DEF TypeOK, RpcTypes, NodeGrows
<1>1. ASSUME NEW q \in RequestsSent PROVE q \in RequestsSent'
  <2>1. CASE q.method = "ping"
    BY <2>1 DEF RequestsSent
  <2>2. CASE q.method # "ping"
    <3>1. /\ q \in Requests /\ q.id < seq /\ q.n >= 1
          /\ q.id \in pending => q.method = method /\ q.n = n
      BY <2>2 DEF RequestsSent
    <3>2. q.id \in Nat
      BY <2>2, <3>1 DEF Requests
    <3>3. q.id < seq' /\ q.id # seq
      BY <1>0, <3>1, <3>2
    <3>4. q.id \in pending' => q.method = method' /\ q.n = n'
      BY <3>1, <3>3, CallEvolves
    <3> QED
      BY <2>2, <3>1, <3>3, <3>4 DEF RequestsSent
  <2> QED
    BY <2>1, <2>2
<1>2. ASSUME NEW a \in MessagesSent PROVE a \in MessagesSent'
  <2>1. /\ a \in Messages
        /\ a.kind \notin {"pong", "garbled"} => a.id < seq
        /\ a.kind = "odd" => odd
        /\ a.kind = "garbled" => garbled
        /\ a.id \in pending => AnswersCall(a)
    BY DEF MessagesSent
  <2>2. a.id \in Nat /\ a.value \in Values
    BY <2>1 DEF Messages
  <2>3. a.kind \notin {"pong", "garbled"} => a.id < seq' /\ a.id # seq
    BY <1>0, <2>1, <2>2
  <2>4. a.value.fork \in Nat
    BY <2>2, ValueFacts
  <2>5. ASSUME a.id \in pending' PROVE AnswersCall(a)'
    <3>1. CASE pending' = pending /\ UNCHANGED <<method, n, block, asked>>
      BY <2>1, <2>4, <2>5, <3>1, StillAnswers
    <3>2. CASE pending' = {seq}
      <4>1. a.kind \in {"pong", "garbled"}
        BY <2>3, <2>5, <3>2
      <4> QED
        BY <4>1 DEF AnswersCall
    <3> QED
      BY <2>5, <3>1, <3>2, CallEvolves
  <2> QED
    BY <1>0, <2>1, <2>3, <2>5 DEF MessagesSent
<1> QED
  BY <1>1, <1>2

\* The node answers a request with a block it has, on the fork it is on; and
\* with "null" only when it has no such block yet.
LEMMA AnswersAreSound ==
    ASSUME TypeOK, BlockInv, NEW q \in RequestsSent, q.method # "ping",
           NEW a \in Answers(q)
    PROVE  a \in {m \in Messages :
                     m.id < seq /\ (m.id \in pending => AnswersCall(m))}
<1>0. /\ q \in [method : Methods, n : Nat, id : Nat]
      /\ q.id < seq /\ q.n >= 1
      /\ q.id \in pending => q.method = method /\ q.n = n
  BY DEF RequestsSent, Requests
<1>1. /\ Nothing \in Values
      /\ \A kind \in {"error", "odd", "garbled"} : Reply(q.id, kind, Nothing) \in Messages
  BY <1>0 DEF Reply, Messages, Kinds, Values
<1>2. CASE a \in {Reply(q.id, kind, Nothing) : kind \in {"error", "odd", "garbled"} \cap Faults}
  BY <1>0, <1>1, <1>2 DEF Reply, AnswersCall
<1>3. CASE q.n <= head /\ a = Reply(q.id, "result", Result(q))
  <2>1. q.n \in Heights /\ head \in 0 .. Len(Txs) /\ fork[q.n] \in Nat
    <3>1. q.n \in Nat /\ head \in 0 .. Len(Txs) /\ Len(Txs) \in Nat
      BY <1>0, NodeFacts DEF TypeOK
    <3>2. q.n \in 1 .. Len(Txs)
      BY <1>0, <1>3, <3>1
    <3> QED
      BY <3>1, <3>2, NodeFacts, ForkFacts
  <2>2. Result(q) \in Values /\ Result(q).method = q.method /\ Result(q).n = q.n
        /\ Result(q).fork = fork[q.n]
    BY <1>0, <2>1 DEF Result, Values
  <2>3. a \in Messages /\ a.id = q.id /\ a.kind = "result" /\ a.value = Result(q)
    BY <1>0, <1>3, <2>2 DEF Reply, Messages, Kinds
  <2>4. ASSUME q.id \in pending PROVE AnswersCall(a)
    <3>1. block # <<>> => block[1].fork <= fork[n]
      BY DEF BlockInv
    <3> QED
      BY <1>0, <2>1, <2>2, <2>3, <2>4, <3>1 DEF AnswersCall
  <2> QED
    BY <1>0, <2>3, <2>4
<1>4. CASE ~(q.n <= head) /\ a = Reply(q.id, "null", Nothing)
  <2>1. a \in Messages /\ a.id = q.id /\ a.kind = "null"
    BY <1>0, <1>1, <1>4 DEF Reply, Messages, Kinds
  <2>2. q.n > asked
    BY <1>0, <1>4 DEF TypeOK
  <2> QED
    BY <1>0, <2>1, <2>2 DEF AnswersCall
<1> QED
  BY <1>2, <1>3, <1>4 DEF Answers

\* So what is on the wires stays what it should be.
LEMMA WireInvStep ==
    ASSUME TypeOK, WireInv, CallInv, BlockInv, [Next]_vars
    PROVE  WireInv'
<1>0. /\ toNode \in Seq(RequestsSent') /\ toClient \in Seq(MessagesSent')
      /\ toNode # <<>> => Tail(toNode) \in Seq(RequestsSent')
      /\ toClient # <<>> => Tail(toClient) \in Seq(MessagesSent')
      /\ \A x \in RequestsSent' : Append(toNode, x) \in Seq(RequestsSent')
      /\ \A x \in MessagesSent' : Append(toClient, x) \in Seq(MessagesSent')
      /\ <<>> \in Seq(RequestsSent')
  BY SentStaysSent, QueueFacts DEF WireInv
<1> USE DEF WireInv
<1>1. CASE NodeAnswers
  <2>1. PICK a \in Answers(Head(toNode)) :
           /\ toClient' = Append(toClient, a)
           /\ odd' = (odd \/ a.kind = "odd") /\ garbled' = (garbled \/ a.kind = "garbled")
    BY <1>1 DEF NodeAnswers
  <2>2. /\ toNode # <<>> /\ Head(toNode).method # "ping" /\ toNode' = Tail(toNode)
        /\ UNCHANGED <<node, conn, rpc, scan, asked>>
    BY <1>1 DEF NodeAnswers
  <2>3. a \in Messages /\ a.id < seq /\ (a.id \in pending => AnswersCall(a))
    BY <2>2, WireFacts, AnswersAreSound
  <2>4. AnswersCall(a)' <=> AnswersCall(a)
    BY <2>2 DEF AnswersCall, node, scan
  <2>5. a \in MessagesSent'
    BY <2>1, <2>2, <2>3, <2>4 DEF MessagesSent, rpc
  <2> QED
    BY <1>0, <2>1, <2>2, <2>5
<1>2. CASE NodePongs
  <2>1. PICK kind \in {"pong", "garbled"} :
           /\ toClient' = Append(toClient, Reply(0, kind, Nothing))
           /\ garbled' = (garbled \/ kind = "garbled")
    BY <1>2 DEF NodePongs
  <2>2. Reply(0, kind, Nothing) \in MessagesSent'
    BY <2>1 DEF Reply, MessagesSent, Messages, Kinds, Values, AnswersCall
  <2> QED
    BY <1>0, <1>2, <2>1, <2>2 DEF NodePongs
<1>3. CASE Ping
  <2>1. [method |-> "ping"] \in RequestsSent'
    BY DEF RequestsSent, Requests
  <2> QED
    BY <1>0, <1>3, <2>1 DEF Ping
<1>4. CASE WriteRequest
  <2> DEFINE q == [method |-> method, n |-> n, id |-> seq]
  <2>1. q \in Requests /\ q.id = seq /\ q.n = n /\ q.method = method /\ q.n >= 1
    BY NodeFacts DEF TypeOK, Requests
  <2>2. seq' = seq + 1 /\ UNCHANGED <<method, n, toClient>> /\ toNode' = Append(toNode, q)
    BY <1>4 DEF WriteRequest
  <2>3. q \in RequestsSent'
    <3>1. seq < seq'
      BY <2>2 DEF TypeOK
    <3> HIDE DEF q
    <3> QED
      BY <2>1, <2>2, <3>1 DEF RequestsSent
  <2> QED
    BY <1>0, <2>2, <2>3
<1>5. CASE NodeSilent
  BY <1>0, <1>5 DEF NodeSilent
<1>6. CASE ReadResponse \/ ReadResponseHeaderFails
  BY <1>0, <1>6 DEF ReadResponse, ReadResponseHeaderFails, Readable
<1>7. CASE CloseSocket
  BY <1>0, <1>7 DEF CloseSocket
<1>8. CASE UNCHANGED <<toNode, toClient>>
  BY <1>0, <1>8
<1>9. CASE /\ [Next]_vars
           /\ ~NodeStep /\ ~Ping /\ ~WriteRequest /\ ~CloseSocket
           /\ ~ReadResponse /\ ~ReadResponseHeaderFails
  <2>1. UNCHANGED <<toNode, toClient>>
    BY <1>9 DEF Next, Produce, SwitchFork, NodeDrops, Cancel, CloseStep, ForgetClient,
       ProcessEnds, InputStep, InputEnds, FailPending, ScanStep, ConnectHxNode, NotConnected,
       TakeClient, NilClientPanics, WriteRequestFails, GetBlockNil, GetBlockFails,
       GetBlockDecoded, FetchBlockTransactions, FetchBlockTransactionsFails,
       OtherCallReturns, afterCall, vars, wires
  <2> QED
    BY <1>8, <2>1
<1> QED
  BY <1>1, <1>2, <1>3, <1>4, <1>5, <1>6, <1>7, <1>9 DEF NodeStep

\* What a call is handed answers it.
LEMMA AnswerStep ==
    ASSUME TypeOK, WireInv, CallInv, BlockInv, [Next]_vars
    PROVE  answer' # <<>> => AnswersCall(answer[1])'
<1> SUFFICES ASSUME answer' # <<>> PROVE AnswersCall(answer[1])'
  OBVIOUS
<1>1. CASE answer' = <<Error>>
  BY <1>1 DEF Error, AnswersCall
<1>2. CASE answer' = answer /\ UNCHANGED <<method, n, block, asked>>
  <2>1. AnswersCall(answer[1]) /\ Value.fork \in Nat
    BY <1>2, HeldFacts DEF CallInv
  <2> DEFINE a == answer[1]
  <2>2. AnswersCall(a) /\ a.value.fork \in Nat /\ answer'[1] = a
    BY <1>2, <2>1 DEF Value
  <2>3. ASSUME a.kind = "result" PROVE a.value.fork <= fork'[n]
    <3>1. n \in Heights /\ a.value.fork <= fork[n]
      BY <2>2, <2>3 DEF AnswersCall
    <3>2. fork[n] <= fork'[n] /\ fork[n] \in Nat /\ fork'[n] \in Nat
      BY <3>1, HeldFacts, NodeTypesStep DEF NodeGrows
    <3> QED
      BY <2>2, <3>1, <3>2
  <2> QED
    BY <1>2, <2>2, <2>3 DEF AnswersCall
<1>3. CASE ReadResponse /\ answer' = <<Handed(Head(toClient))>>
  <2>1. CASE Called(Head(toClient).id) # {}
    <3>1. Head(toClient).id \in pending /\ Head(toClient) \in MessagesSent
      BY <1>3, <2>1, WireFacts DEF ReadResponse, Readable, Called
    <3>2. AnswersCall(Head(toClient))
      BY <3>1 DEF MessagesSent
    <3>3. UNCHANGED <<method, n, block, asked, fork>>
      BY <1>3 DEF ReadResponse, Readable, node, seen
    <3> QED
      BY <1>3, <3>2, <3>3 DEF AnswersCall, Handed
  <2>2. CASE Called(Head(toClient).id) = {}
    BY <1>2, <1>3, <2>2 DEF ReadResponse, Readable, seen
  <2> QED
    BY <2>1, <2>2
<1>4. CASE InputStep
  BY <1>1, <1>2, <1>3, <1>4 DEF InputStep, ReadResponse, Readable,
         ReadResponseHeaderFails, InputEnds, FailPending, seen
<1>5. CASE ScanStep
  <2>1. \/ answer' = <<>> \/ answer' = <<Error>>
        \/ answer' = answer /\ pc \notin {"waiting", "down"}
    BY <1>5 DEF ScanStep, ConnectHxNode, NotConnected, TakeClient, NilClientPanics,
       WriteRequest, WriteRequestFails, GetBlockNil, GetBlockFails, GetBlockDecoded,
       FetchBlockTransactions, FetchBlockTransactionsFails, OtherCallReturns
  <2> QED
    BY <1>1, <2>1 DEF CallInv
<1> QED
  BY <1>2, <1>4, <1>5, OthersLeaveTheCall

\* What GetBlock returns is what its calls were answered with.
LEMMA ReturnedInvStep ==
    ASSUME TypeOK, CallInv, BlockInv, ReturnedInv, [Next]_vars
    PROVE  ReturnedInv'
<1>1. CASE UNCHANGED returned
  <2>1. ASSUME returned # <<>>, returned[1].block # <<>>, ~returned[1].err,
               fork[returned[1].n] > returned[1].block[1].fork
        PROVE  fork'[returned[1].n] > returned[1].block[1].fork
    <3>1. returned[1].n \in Heights /\ returned[1].block[1].fork \in Nat
      BY <2>1 DEF ReturnedInv
    <3> DEFINE m == returned[1].n
    <3>2. fork[m] <= fork'[m] /\ fork[m] \in Nat /\ fork'[m] \in Nat
      BY <3>1, HeldFacts, NodeTypesStep DEF NodeGrows
    <3> QED
      BY <2>1, <3>1, <3>2
  <2> QED
    BY <1>1, <2>1 DEF ReturnedInv, NilBlockIsPastHead, IdsAreTheBlocks
<1>2. ASSUME NEW b, NEW err, NEW kind, Returns(b, err, kind)
      PROVE  /\ returned' # <<>> /\ returned'[1].block = b /\ returned'[1].err = err
             /\ returned'[1].kind = kind /\ returned'[1].n = n
             /\ returned'[1].asked = asked
  BY <1>2 DEF Returns
<1>3. ASSUME Returns(<<>>, FALSE, "none") PROVE ReturnedInv'
  BY <1>2, <1>3 DEF ReturnedInv, NilBlockIsPastHead, IdsAreTheBlocks
<1>4. CASE GetBlockNil
  <2>1. Returns(<<>>, FALSE, Kind) /\ answer # <<>> /\ Kind \in {"null", "pong"}
    BY <1>4 DEF GetBlockNil, Answered
  <2>2. Kind = "null" => n > asked
    BY <2>1 DEF CallInv, AnswersCall, Kind
  <2> QED
    BY <1>2, <2>1, <2>2 DEF ReturnedInv, NilBlockIsPastHead, IdsAreTheBlocks
<1>5. ASSUME NEW b, NEW kind, Returns(b, TRUE, kind) PROVE ReturnedInv'
  BY <1>2, <1>5 DEF ReturnedInv, NilBlockIsPastHead, IdsAreTheBlocks
<1>6. CASE FetchBlockTransactions
  <2> DEFINE b == block[1].fork
             f == Value.fork
  <2>1. /\ pc = "waiting" /\ answer # <<>> /\ method = "fetch_block_transactions"
        /\ Kind = "result" /\ fork' = fork
        /\ Returns(<<[block[1] EXCEPT !.ids = IdsPaired(f)]>>, FALSE, Kind)
    BY <1>6 DEF FetchBlockTransactions, Answered, afterCall, node
  <2>2. block # <<>> /\ n \in Heights /\ block[1] \in [fork : Nat, ids : {<<>>}]
    BY <2>1, FirstFacts DEF BlockInv
  <2>3. b <= f /\ f <= fork[n] /\ b \in Nat /\ f \in Nat /\ fork[n] \in Nat
    BY <2>1, <2>2, HeldFacts DEF CallInv, AnswersCall, Kind, Value
  <2>4. f = b => IdsPaired(f) = [i \in 1 .. Txs[n][b] |-> <<b, i>>]
    BY DEF IdsPaired
  <2>5. f # b => fork[n] > b
    BY <2>3
  <2> DEFINE got == [block[1] EXCEPT !.ids = IdsPaired(f)]
  <2>6. got.fork = b /\ got.ids = IdsPaired(f)
    BY <2>2
  <2> HIDE DEF got, b, f
  <2>7. /\ returned' # <<>> /\ returned'[1].block = <<got>> /\ returned'[1].n = n
        /\ <<got>> # <<>> /\ <<got>>[1] = got
    BY <1>2, <2>1 DEF got
  <2> QED
    BY <2>1, <2>2, <2>3, <2>4, <2>5, <2>6, <2>7
       DEF ReturnedInv, NilBlockIsPastHead, IdsAreTheBlocks
<1>7. CASE GetBlockFails \/ FetchBlockTransactionsFails
  BY <1>5, <1>7 DEF GetBlockFails, FetchBlockTransactionsFails
<1>8. CASE NotConnected
  BY <1>1, <1>3, <1>8 DEF NotConnected
<1>9. ASSUME ScanStep, ~NotConnected, ~GetBlockNil, ~GetBlockFails,
             ~FetchBlockTransactions, ~FetchBlockTransactionsFails
      PROVE  UNCHANGED returned
  BY <1>9 DEF ScanStep, ConnectHxNode, TakeClient, NilClientPanics, WriteRequest,
     WriteRequestFails, GetBlockDecoded, OtherCallReturns, seen
<1>10. InputStep => UNCHANGED returned
  BY DEF InputStep, ReadResponse, Readable,
         ReadResponseHeaderFails, InputEnds, FailPending, seen
<1> QED
  BY <1>1, <1>4, <1>6, <1>7, <1>8, <1>9, <1>10, OthersLeaveTheCall

-----------------------------------------------------------------------------
(* The invariant, and what follows from it.                                 *)

\* It holds at first ...
LEMMA ClientInvInit == Init => ClientInv
<1> SUFFICES ASSUME Init PROVE ClientInv
  OBVIOUS
<1>1. TypeOK
  <2>1. Len(Txs) \in Nat /\ MaxPings \in Nat /\ 1 \in 1 .. Len(Txs) + 1
    BY NodeFacts
  <2>2. NodeTypes
    <3>1. \A b \in Heights : fork[b] \in DOMAIN Txs[b]
      BY NodeFacts DEF Init
    <3>2. head = 0 /\ pings = 0
      BY DEF Init
    <3>3. head \in 0 .. Len(Txs) /\ pings \in 0 .. MaxPings
      BY <2>1, <3>2
    <3> QED
      BY <3>1, <3>3 DEF Init, NodeTypes
  <2>3. ScanTypes /\ RpcTypes /\ AnswerTypes
    <3>1. head = 0 /\ asked = 0 /\ n = 1 /\ seq = 0 /\ pending = {} /\ answer = <<>>
      BY DEF Init
    <3>2. asked \in 0 .. head /\ n \in 1 .. Len(Txs) + 1 /\ seq \in Nat
      BY <2>1, <3>1
    <3>3. Len(block) <= 1 /\ Len(returned) <= 1 /\ Len(answer) <= 1
      BY DEF Init
    <3>4. pc = "start" /\ method \in Methods /\ shutdown \in BOOLEAN
      BY DEF Init, Methods
    <3>5. answer \in Seq([kind : Kinds, value : Values])
      BY <3>1
    <3> QED
      BY <3>1, <3>2, <3>3, <3>4, <3>5 DEF ScanTypes, RpcTypes, AnswerTypes
  <2>4. toNode \in Seq(Requests) /\ toClient \in Seq(Messages)
    BY DEF Init
  <2> QED
    BY <2>2, <2>3, <2>4
       DEF TypeOK, NodeTypes, ScanTypes, RpcTypes, AnswerTypes, Messages
<1>2. WireInv
  BY DEF Init, WireInv
<1>3. BlockInv
  BY DEF Init, BlockInv
<1> QED
  BY <1>1, <1>2, <1>3
     DEF Init, ClientInv, CallInv, ConnInv, ReturnedInv, ShutdownHasAReason,
         NilBlockIsPastHead, IdsAreTheBlocks

\* ... and in every state.
LEMMA ClientInvInvariant == Spec => []ClientInv
<1>1. ClientInv /\ [Next]_vars => ClientInv'
  <2> SUFFICES ASSUME ClientInv, [Next]_vars PROVE ClientInv'
    OBVIOUS
  <2> USE DEF ClientInv
  <2>1. TypeOK'
    <3>1. NodeTypes' /\ ScanTypes' /\ RpcTypes' /\ AnswerTypes'
      BY NodeTypesStep, ScanTypesStep, RpcTypesStep, AnswerTypesStep
    <3>2. WireInv'
      BY WireInvStep
    <3>3. toNode' \in Seq(Requests) /\ toClient' \in Seq(Messages)
      BY <3>2, QueueFacts DEF WireInv, RequestsSent, MessagesSent
    <3> QED
      BY <3>1, <3>3 DEF TypeOK, NodeTypes, ScanTypes, RpcTypes, AnswerTypes, Messages
  <2>2. CallInv'
    BY CallInvStep, AnswerStep DEF CallInv
  <2> QED
    BY <2>1, <2>2, WireInvStep, ConnInvStep, BlockInvStep, ReturnedInvStep
<1> QED
  BY <1>1, ClientInvInit, PTL DEF Spec

\* Every variable of the connection stays in its type; in particular the scan
\* asks for no block beyond the one after the chain's last.
THEOREM ClientTypeCorrect == Spec => []TypeOK
BY ClientInvInvariant, PTL DEF ClientInv

\* A call is never handed the answer of another, whatever messages come between
\* the answers or after their call.
THEOREM AnswersAreOfTheirCalls == Spec => []AnswersItsCall
<1>1. ClientInv => AnswersItsCall
  BY DEF ClientInv, CallInv, AnswersCall, AnswersItsCall, Kind, Value
<1> QED
  BY <1>1, ClientInvInvariant, PTL

\* No call is left waiting by an input loop that has ended: whichever goroutine
\* comes first, it is answered, failed, or never entered in pending.
THEOREM WaitingCallsArePending == Spec => []NoCallWaitsForNothing
<1>1. ClientInv => NoCallWaitsForNothing
  BY DEF ClientInv, CallInv, NoCallWaitsForNothing, TypeOK
<1> QED
  BY <1>1, ClientInvInvariant, PTL

\* A nil block without an error means the head of the chain, no connection, or
\* a pong taken for the answer of call 0.
THEOREM NilBlocksArePastHead == Spec => []NilBlockIsPastHead
<1>1. ClientInv => NilBlockIsPastHead
  BY DEF ClientInv, ReturnedInv
<1> QED
  BY <1>1, ClientInvInvariant, PTL

\* Every transaction of a block gets its own id, unless the node switched forks
\* between the two calls that report them.
THEOREM IdsAreOfTheirBlock == Spec => []IdsAreTheBlocks
<1>1. ClientInv => IdsAreTheBlocks
  BY DEF ClientInv, ReturnedInv
<1> QED
  BY <1>1, ClientInvInvariant, PTL

\* With the socket up, only a result of another type or a message that does not
\* decode makes the client unusable; no error of the node does.
THEOREM ShutdownsHaveReasons == Spec => []ShutdownHasAReason
<1>1. ClientInv => ShutdownHasAReason
  BY DEF ClientInv, ConnInv
<1> QED
  BY <1>1, ClientInvInvariant, PTL
=============================================================================
