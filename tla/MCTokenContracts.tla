-------------------------- MODULE MCTokenContracts --------------------------
(***************************************************************************)
(* A token and another contract, two users.  In the first block an address *)
(* is named twice, the token is registered and initialised, and a minting  *)
(* is followed, in one operation, by a transfer.  In the second a transfer *)
(* goes back.  In the third an event of the other contract and a minting   *)
(* the column cannot hold end an operation with an error.  Behind it, come *)
(* to only when that transaction is abandoned, an operation whose transfer *)
(* cannot be read has deposits, and a registration cannot be decoded.  The *)
(* chain for the finds that miss rows ends before these, which would hold  *)
(* the checkpoint back whatever becomes of the error.                      *)
(***************************************************************************)
EXTENDS TokenContracts, TLC

CONSTANTS token, other, u1, u2, x1, x2, x3, x4, x5

MCContracts == {token, other}
MCUsers == {u1, u2}
MCTxids == {x1, x2, x3, x4, x5}

Register(c, abi) == [kind |-> "register", contract |-> c, abi |-> abi]
Account(u, name) == [kind |-> "account", owner |-> u, name |-> name]
Invoke == [kind |-> "invoke"]
Emitted(c, name, from, to) ==
    [contract |-> c, name |-> name, from |-> from, to |-> to, fits |-> TRUE]
TooLarge ==
    [contract |-> token, name |-> "Transfer", from |-> Nobody, to |-> u1, fits |-> FALSE]
Receipt(events, deposits) == [ok |-> TRUE, events |-> events, deposits |-> deposits]

Registering ==
    [id |-> x1, ops |-> <<Account(u1, "first"), Register(token, "token")>>,
     receipts |-> <<Receipt(<<>>, FALSE), Receipt(<<>>, FALSE)>>]
Initialising ==
    [id |-> x2, ops |-> <<Account(u1, "second"), Invoke>>,
     receipts |-> <<Receipt(<<>>, FALSE),
                    Receipt(<<Emitted(token, "Inited", Nobody, Nobody),
                              Emitted(token, "Transfer", Nobody, u1),
                              Emitted(token, "Transfer", u1, u2)>>, FALSE)>>]
PayingBack ==
    [id |-> x3, ops |-> <<Invoke>>,
     receipts |-> <<Receipt(<<Emitted(token, "Transfer", u2, u1)>>, FALSE)>>]
Unstorable ==
    [id |-> x4, ops |-> <<Invoke>>,
     receipts |-> <<Receipt(<<Emitted(other, "Inited", Nobody, Nobody), TooLarge>>, FALSE)>>]
Undecodable ==
    [id |-> x5, ops |-> <<Invoke, Register(other, "bad")>>,
     receipts |-> <<Receipt(<<Emitted(token, "Unreadable", Nobody, Nobody)>>, TRUE),
                    Receipt(<<>>, FALSE)>>]

MCChain == << <<Registering, Initialising>>, <<PayingBack>>, <<Unstorable, Undecodable>> >>
MCRowsChain == << <<Registering, Initialising>>, <<PayingBack>>, <<Unstorable>> >>
=============================================================================
