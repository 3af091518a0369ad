------------------------------ MODULE NodeClient ------------------------------
(***************************************************************************)
(* The connection to hx_node: one websocket, over which the scan goroutine *)
(* makes one call at a time through net/rpc's client and this program's    *)
(* JSON-RPC codec.  Four goroutines share it:                              *)
(*   - the scan goroutine, inside GetBlock or another call of nodeservice; *)
(*   - the client's input loop, which reads a message, finds the call with *)
(*     its id in pending, and hands it the result or the error;            *)
(*   - the ping goroutine, which writes "ping" to the same socket;         *)
(*   - the goroutine that closes the connection when ctx is cancelled.     *)
(* No call has a timeout, and nothing dials again: when the input loop     *)
(* ends, every call of this process fails from then on.                    *)
(*                                                                         *)
(* The node is external: it answers in order, may be given a longer fork   *)
(* between two answers, and may fail in the ways Faults lists.  A block    *)
(* stands for its fork, and a transaction's id for the fork and position   *)
(* it was reported for.                                                    *)
(***************************************************************************)
EXTENDS Integers, Sequences

CONSTANTS
    Txs,            \* Txs[b][f]: how many transactions block b has on fork f
    OtherCalls,     \* the methods the scan calls after a block
    MaxCalls,       \* bound: calls made
    MaxPings,       \* bound: pings sent
    Faults          \* what may go wrong

Heights == DOMAIN Txs
Methods == {"get_block", "fetch_block_transactions", "get_contract_invoke_object",
            "invoke_contract_offline", "list_assets", "get_addr_balances"}

\* The calls whose reply is a slice of structs; the others take any JSON.
Typed == {"fetch_block_transactions", "get_contract_invoke_object", "list_assets"}

ASSUME ParameterAssumption ==
    /\ Txs \in Seq(Seq(Nat)) /\ \A b \in Heights : Txs[b] # <<>>
    /\ OtherCalls \subseteq Methods \ {"get_block", "fetch_block_transactions"}
    /\ MaxCalls \in Nat /\ MaxPings \in Nat
    /\ Faults \subseteq {"dial", "pong", "error", "odd", "garbled", "silent", "drop", "sigint"}

VARIABLES
    head, fork,     \* the node: its highest block, and the fork of each block
    socket,         \* the websocket: "none", "up", "dropped" by the node, "closed" here
    toNode, toClient,
    (***********************************************************************)
    (* The process.                                                        *)
    (***********************************************************************)
    ws, client,     \* _ws # nil, _client # nil
    stopping,       \* ctx has been cancelled
    seq, pending,   \* the next call's id; ids of the calls not yet answered
    shutdown,       \* the input loop has ended
    pc,             \* the scan goroutine
    method,         \* the call it is in
    n,              \* the block it is at
    answer,         \* what the call returned: <<>> until it does
    block,          \* GetBlock's block: <<>> or what was decoded so far
    pings,
    (***********************************************************************)
    (* Observers, read by no action.                                       *)
    (***********************************************************************)
    returned,       \* what GetBlock last returned, and on what answer
    asked,          \* head when get_block was last called
    odd,            \* the node has answered with a result of another type
    garbled         \* the node has sent a message that does not decode

node == <<head, fork>>
wires == <<socket, toNode, toClient>>
conn == <<ws, client, stopping>>
rpc == <<seq, pending, shutdown>>
scan == <<pc, method, n, answer, block>>
seen == <<returned, asked, odd, garbled>>
vars == <<node, wires, conn, rpc, scan, pings, seen>>

IsHxNodeConnected == ws

-----------------------------------------------------------------------------
(* The node.                                                               *)

Produce ==
    /\ head < Len(Txs)
    /\ head' = head + 1
    /\ UNCHANGED <<fork, wires, conn, rpc, scan, pings, seen>>

SwitchFork(b) ==
    /\ b <= head /\ fork[b] < Len(Txs[b])
    /\ fork' = [h \in Heights |-> IF h >= b /\ fork[h] < Len(Txs[h]) THEN fork[h] + 1 ELSE fork[h]]
    /\ UNCHANGED <<head, wires, conn, rpc, scan, pings, seen>>

Reply(id, kind, value) == [id |-> id, kind |-> kind, value |-> value]
Result(q) == [method |-> q.method, n |-> q.n, fork |-> fork[q.n]]
Nothing == [method |-> "", n |-> 0, fork |-> 0]

\* "odd" is a result of another JSON type than the method is documented with;
\* "garbled" a message that is no JSON, or whose id is no number.
Answers(q) ==
    {IF q.n <= head THEN Reply(q.id, "result", Result(q)) ELSE Reply(q.id, "null", Nothing)}
    \cup {Reply(q.id, kind, Nothing) : kind \in {"error", "odd", "garbled"} \cap Faults}

NodeAnswers ==
    /\ socket = "up" /\ toNode # <<>> /\ Head(toNode).method # "ping"
    /\ \E a \in Answers(Head(toNode)) :
          /\ toClient' = Append(toClient, a)
          /\ odd' = (odd \/ a.kind = "odd")
          /\ garbled' = (garbled \/ a.kind = "garbled")
    /\ toNode' = Tail(toNode)
    /\ UNCHANGED <<node, socket, conn, rpc, scan, pings, returned, asked>>

\* A request or a ping the node takes and never answers.
NodeSilent ==
    /\ socket = "up" /\ toNode # <<>>
    /\ Head(toNode).method = "ping" \/ "silent" \in Faults
    /\ toNode' = Tail(toNode)
    /\ UNCHANGED <<node, socket, toClient, conn, rpc, scan, pings, seen>>

\* An answer to "ping" has no id, result or error, and the codec reads id 0;
\* or it is plain text, as the ping is.
NodePongs ==
    /\ socket = "up" /\ toNode # <<>> /\ Head(toNode).method = "ping"
    /\ \E kind \in {"pong", "garbled"} \cap Faults :
          /\ toClient' = Append(toClient, Reply(0, kind, Nothing))
          /\ garbled' = (garbled \/ kind = "garbled")
    /\ toNode' = Tail(toNode)
    /\ UNCHANGED <<node, socket, conn, rpc, scan, pings, returned, asked, odd>>

NodeDrops ==
    /\ "drop" \in Faults
    /\ socket = "up"
    /\ socket' = "dropped"
    /\ UNCHANGED <<node, toNode, toClient, conn, rpc, scan, pings, seen>>

-----------------------------------------------------------------------------
(* Connecting, pinging and closing.                                        *)

Init ==
    /\ head = 0 /\ fork = [b \in Heights |-> 1]
    /\ socket = "none" /\ toNode = <<>> /\ toClient = <<>>
    /\ ws = FALSE /\ client = FALSE /\ stopping = FALSE
    /\ seq = 0 /\ pending = {} /\ shutdown = FALSE
    /\ pc = "start" /\ method = "get_block" /\ n = 1 /\ answer = <<>> /\ block = <<>>
    /\ pings = 0
    /\ returned = <<>> /\ asked = 0 /\ odd = FALSE /\ garbled = FALSE

\* main drops the error of a failed dial; there is no client then.
ConnectHxNode ==
    /\ pc = "start"
    /\ \/ socket' = "up" /\ ws' = TRUE /\ client' = TRUE
       \/ "dial" \in Faults /\ UNCHANGED <<socket, ws, client>>
    /\ pc' = "ready"
    /\ UNCHANGED <<node, toNode, toClient, stopping, rpc, method, n, answer, block, pings, seen>>

\* The error of the write is not looked at.
Ping ==
    /\ IsHxNodeConnected /\ pings < MaxPings /\ pc # "down"
    /\ pings' = pings + 1
    /\ toNode' = IF socket = "up" THEN Append(toNode, [method |-> "ping"]) ELSE toNode
    /\ UNCHANGED <<node, socket, toClient, conn, rpc, scan, seen>>

Cancel ==
    /\ "sigint" \in Faults
    /\ ~stopping /\ pc \notin {"start", "down"}
    /\ stopping' = TRUE
    /\ UNCHANGED <<node, wires, ws, client, rpc, scan, pings, seen>>

MutCloseOnlyForgets ==
    /\ stopping /\ IsHxNodeConnected /\ socket # "closed" /\ pc # "down"
    /\ ws' = FALSE /\ client' = FALSE
    /\ UNCHANGED <<node, wires, stopping, rpc, scan, pings, seen>>
\* CloseHxNodeConn closes the socket and then forgets it and the client: the
\* scan goroutine may be anywhere between its checks and its calls.
CloseSocket ==
    /\ stopping /\ IsHxNodeConnected /\ socket # "closed" /\ pc # "down"
    /\ socket' = "closed"
    /\ toNode' = <<>>
    /\ UNCHANGED <<node, toClient, conn, rpc, scan, pings, seen>>

ForgetClient ==
    /\ IsHxNodeConnected /\ socket = "closed" /\ pc # "down"
    /\ ws' = FALSE /\ client' = FALSE
    /\ UNCHANGED <<node, wires, stopping, rpc, scan, pings, seen>>

\* logger.Fatal(CloseHxNodeConn()), main's return, or a panic of the ping
\* goroutine on a _ws that has just become nil.
ProcessEnds ==
    /\ stopping /\ pc # "down"
    /\ pc' = "down"
    /\ UNCHANGED <<node, wires, conn, rpc, method, n, answer, block, pings, seen>>

-----------------------------------------------------------------------------
(* A call: the checks and the request, by the scan goroutine.              *)

Returns(b, err, kind) ==
    returned' = <<[n |-> n, block |-> b, err |-> err, kind |-> kind, asked |-> asked]>>

\* if !IsHxNodeConnected() { return }: no result and no error.
NotConnected ==
    /\ pc = "ready" /\ ~IsHxNodeConnected
    /\ IF method = "get_block" THEN Returns(<<>>, FALSE, "none") ELSE UNCHANGED returned
    /\ method' = "get_block"
    /\ n' = IF method = "get_block" THEN n ELSE n + 1
    /\ UNCHANGED <<node, wires, conn, rpc, pc, answer, block, pings, asked, odd, garbled>>

TakeClient ==
    /\ pc = "ready" /\ IsHxNodeConnected /\ seq < MaxCalls
    /\ pc' = "call"
    /\ UNCHANGED <<node, wires, conn, rpc, method, n, answer, block, pings, seen>>

\* _client became nil after _ws was looked at.
NilClientPanics ==
    /\ pc = "call" /\ ~client /\ method # "fetch_block_transactions"
    /\ pc' = "down"
    /\ UNCHANGED <<node, wires, conn, rpc, method, n, answer, block, pings, seen>>

\* GetBlock keeps the client it took for its second call.
HasClient == client \/ method = "fetch_block_transactions"

Error == [kind |-> "error", value |-> Nothing]

Asking == asked' = IF method = "get_block" THEN head ELSE asked

MutWriteDespiteShutdown ==
    /\ pc = "call" /\ HasClient
    /\ socket = "up" \/ shutdown
    /\ seq' = seq + 1 /\ pending' = pending \cup {seq}
    /\ toNode' = Append(toNode, [method |-> method, n |-> n, id |-> seq])
    /\ pc' = "waiting" /\ answer' = <<>>
    /\ Asking
    /\ UNCHANGED <<node, socket, toClient, conn, shutdown, method, n, block, pings,
                   returned, odd, garbled>>
WriteRequest ==
    /\ pc = "call" /\ HasClient
    /\ socket = "up" /\ ~shutdown
    /\ seq' = seq + 1 /\ pending' = pending \cup {seq}
    /\ toNode' = Append(toNode, [method |-> method, n |-> n, id |-> seq])
    /\ pc' = "waiting" /\ answer' = <<>>
    /\ Asking
    /\ UNCHANGED <<node, socket, toClient, conn, shutdown, method, n, block, pings,
                   returned, odd, garbled>>

\* ErrShutdown, or an error of the write on a socket that is gone.  A write to
\* a socket the node dropped may also seem to succeed.
WriteRequestFails ==
    /\ pc = "call" /\ HasClient
    /\ shutdown \/ socket \in {"dropped", "closed"}
    /\ seq' = seq + 1
    /\ \/ answer' = <<Error>> /\ UNCHANGED pending
       \/ ~shutdown /\ socket = "dropped" /\ answer' = <<>> /\ pending' = pending \cup {seq}
    /\ pc' = "waiting"
    /\ Asking
    /\ UNCHANGED <<node, wires, conn, shutdown, method, n, block, pings, returned, odd, garbled>>

-----------------------------------------------------------------------------
(* The input loop.                                                         *)

MutAnyPending(id) == pending
\* The calls a message with this id is the answer of.
Called(id) == pending \cap {id}

MutErrorEndsInput(kind) == kind = "error" \/ (kind = "odd" /\ method \in Typed)
\* The loop ends when the result cannot be unmarshalled into the reply.  An
\* error of the node, whatever its type, is only formatted.
EndsInput(kind) == kind = "odd" /\ method \in Typed

Handed(a) == [kind |-> a.kind, value |-> a.value]

Readable == socket \in {"up", "dropped"} /\ ~shutdown /\ toClient # <<>> /\ pc # "down"

ReadResponse ==
    /\ Readable /\ Head(toClient).kind # "garbled"
    /\ LET a == Head(toClient)
           calls == Called(a.id)
       IN  /\ pending' = pending \ calls
           /\ IF calls = {}
              THEN UNCHANGED <<answer, shutdown>>
              ELSE /\ answer' = <<Handed(a)>>
                   /\ shutdown' = EndsInput(a.kind)
    /\ toClient' = Tail(toClient)
    /\ UNCHANGED <<node, socket, toNode, conn, seq, pc, method, n, block, pings,
                   seen>>

\* The end of the loop fails what is pending.
FailPending ==
    /\ shutdown' = TRUE
    /\ answer' = IF pending # {} THEN <<Error>> ELSE answer
    /\ pending' = {}

\* The message does not decode: whatever it was meant to answer.
ReadResponseHeaderFails ==
    /\ Readable /\ Head(toClient).kind = "garbled"
    /\ FailPending
    /\ toClient' = Tail(toClient)
    /\ UNCHANGED <<node, socket, toNode, conn, seq, pc, method, n, block, pings, seen>>

\* The read fails: what has arrived from a dropped socket is read first, but
\* from one closed here nothing need be.
InputEnds ==
    /\ socket = "closed" \/ (socket = "dropped" /\ toClient = <<>>)
    /\ ~shutdown /\ pc # "down"
    /\ FailPending
    /\ UNCHANGED <<node, wires, conn, seq, pc, method, n, block, pings, seen>>

-----------------------------------------------------------------------------
(* The answer, back in the scan goroutine.                                 *)

Answered(m) == pc = "waiting" /\ answer # <<>> /\ method = m
Kind == answer[1].kind
Value == answer[1].value
afterCall == <<node, wires, conn, rpc, pings, asked, odd, garbled>>

MutNilBlockPassedOver ==
    /\ Answered("get_block") /\ Kind \in {"null", "pong"}
    /\ Returns(<<>>, FALSE, Kind)
    /\ pc' = "ready" /\ answer' = <<>> /\ n' = n + 1
    /\ UNCHANGED <<afterCall, method, block>>
\* err.Error() == "error <nil>": the node has no such block yet.
GetBlockNil ==
    /\ Answered("get_block") /\ Kind \in {"null", "pong"}
    /\ Returns(<<>>, FALSE, Kind)
    /\ pc' = "ready" /\ answer' = <<>>
    /\ UNCHANGED <<afterCall, method, n, block>>

MutErrorIsNil ==
    /\ Answered("get_block") /\ Kind \in {"error", "odd"}
    /\ Returns(<<>>, FALSE, Kind)
    /\ pc' = "ready" /\ answer' = <<>>
    /\ UNCHANGED <<afterCall, method, n, block>>
\* An error, or a result that is no block: the scan goroutine returns.
GetBlockFails ==
    /\ Answered("get_block") /\ Kind \in {"error", "odd"}
    /\ Returns(<<>>, TRUE, Kind)
    /\ pc' = "ended" /\ answer' = <<>>
    /\ UNCHANGED <<afterCall, method, n, block>>

GetBlockDecoded ==
    /\ Answered("get_block") /\ Kind = "result"
    /\ block' = <<[fork |-> Value.fork, ids |-> <<>>]>>
    /\ method' = "fetch_block_transactions"
    /\ pc' = "call" /\ answer' = <<>>
    /\ UNCHANGED <<afterCall, n, returned>>

\* The i-th id reported goes to the i-th transaction, whatever block it is of.
IdsPaired(f) ==
    [i \in 1 .. Txs[n][block[1].fork] |-> IF i <= Txs[n][f] THEN <<f, i>> ELSE <<>>]

FetchBlockTransactions ==
    /\ Answered("fetch_block_transactions") /\ Kind = "result"
    /\ Returns(<<[block[1] EXCEPT !.ids = IdsPaired(Value.fork)]>>, FALSE, Kind)
    /\ block' = <<>>
    /\ \/ method' = "get_block" /\ n' = n + 1
       \/ method' \in OtherCalls /\ n' = n
    /\ pc' = "ready" /\ answer' = <<>>
    /\ UNCHANGED afterCall

MutIdsMissingIgnored ==
    /\ Answered("fetch_block_transactions") /\ Kind # "result"
    /\ Returns(block, FALSE, Kind)
    /\ block' = <<>>
    /\ pc' = "ready" /\ method' = "get_block" /\ n' = n + 1 /\ answer' = <<>>
    /\ UNCHANGED afterCall
\* The block is returned too, but with an error.
FetchBlockTransactionsFails ==
    /\ Answered("fetch_block_transactions") /\ Kind # "result"
    /\ Returns(block, TRUE, Kind)
    /\ block' = <<>>
    /\ pc' = "ended" /\ answer' = <<>>
    /\ UNCHANGED <<afterCall, method, n>>

\* The other calls: their errors either end the process (logger.Fatal on a
\* plugin's error) or are passed over.
Fatal == {"list_assets", "get_addr_balances"}

OtherCallReturns ==
    /\ \E m \in OtherCalls : Answered(m)
    /\ pc' = IF Kind # "result" /\ method \in Fatal THEN "down" ELSE "ready"
    /\ \/ method' = "get_block" /\ n' = n + 1
       \/ method' \in OtherCalls /\ n' = n
    /\ answer' = <<>>
    /\ UNCHANGED <<afterCall, block, returned>>

ScanStep ==
    \/ ConnectHxNode \/ NotConnected \/ TakeClient \/ NilClientPanics
    \/ WriteRequest \/ WriteRequestFails
    \/ GetBlockNil \/ GetBlockFails \/ GetBlockDecoded
    \/ FetchBlockTransactions \/ FetchBlockTransactionsFails \/ OtherCallReturns

InputStep == ReadResponse \/ ReadResponseHeaderFails \/ InputEnds
CloseStep == CloseSocket \/ ForgetClient
NodeStep == NodeAnswers \/ NodeSilent \/ NodePongs

Next ==
    \/ Produce \/ (\E b \in Heights : SwitchFork(b)) \/ NodeDrops
    \/ NodeStep
    \/ Ping \/ Cancel \/ CloseStep \/ ProcessEnds
    \/ ScanStep \/ InputStep

\* The Go scheduler runs each goroutine that can run.  Nothing is assumed of
\* the node, and the process need not exit.
Spec ==
    /\ Init /\ [][Next]_vars
    /\ WF_vars(ScanStep) /\ WF_vars(InputStep) /\ WF_vars(CloseStep)

-----------------------------------------------------------------------------
(* Properties.                                                             *)

Kinds == {"result", "null", "pong", "error", "odd", "garbled"}
Values == {Nothing} \cup [method : Methods, n : Heights, fork : Nat]
Requests == [method : Methods, n : Nat, id : Nat] \cup {[method |-> "ping"]}

TypeOK ==
    /\ head \in 0 .. Len(Txs) /\ \A b \in Heights : fork[b] \in DOMAIN Txs[b]
    /\ socket \in {"none", "up", "dropped", "closed"}
    /\ toNode \in Seq(Requests) /\ toClient \in Seq([id : Nat, kind : Kinds, value : Values])
    /\ ws \in BOOLEAN /\ client \in BOOLEAN /\ stopping \in BOOLEAN
    /\ seq \in Nat /\ pending \subseteq 0 .. seq - 1 /\ shutdown \in BOOLEAN
    /\ pc \in {"start", "ready", "call", "waiting", "ended", "down"}
    /\ method \in Methods /\ n \in 1 .. Len(Txs) + 1
    /\ Len(answer) <= 1 /\ answer \in Seq([kind : Kinds, value : Values])
    /\ Len(block) <= 1 /\ Len(returned) <= 1
    /\ pings \in 0 .. MaxPings /\ asked \in 0 .. head /\ odd \in BOOLEAN
    /\ garbled \in BOOLEAN

\* A result a call returns is the node's answer to that very call, though
\* messages that answer no call arrive between the answers, and answers after
\* their call has returned.
AnswersItsCall ==
    answer # <<>> /\ Kind = "result" => Value.method = method /\ Value.n = n

\* No call waits for an answer that nobody can bring: it is pending, it is the
\* only one, and the input loop is still reading.  Without a timeout the scan
\* would hang on it for ever, whatever becomes of the connection.
NoCallWaitsForNothing ==
    pc = "waiting" /\ answer = <<>> => pending = {seq - 1} /\ ~shutdown

\* When GetBlock returns nil and no error, which the scan takes for the head of
\* the chain, the node had no such block when it was called, or there was
\* no connection, or a message without an id came before the answer of call 0.
NilBlockIsPastHead ==
    returned # <<>> /\ returned[1].block = <<>> /\ ~returned[1].err =>
        returned[1].kind \in {"none", "pong"} \/ returned[1].n > returned[1].asked

\* A block GetBlock returns without an error has each transaction's own id,
\* though the ids come from another call, unless the node switched forks.
IdsAreTheBlocks ==
    returned # <<>> /\ returned[1].block # <<>> /\ ~returned[1].err =>
        LET b == returned[1].block[1] IN
        \/ b.ids = [i \in 1 .. Txs[returned[1].n][b.fork] |-> <<b.fork, i>>]
        \/ fork[returned[1].n] > b.fork

\* client.go:96: the client is not shut down when an error of the node is not
\* the string it should be: it takes a lost or closed connection, a result of
\* another type, or a message that does not decode.
ShutdownHasAReason == shutdown => socket \in {"dropped", "closed"} \/ odd \/ garbled

\* After SIGINT a call ends even when the node never answers it: closing the
\* socket ends the input loop, which fails what is pending.
InterruptEndsCall == (pc = "waiting" /\ stopping) ~> pc # "waiting"
=============================================================================
