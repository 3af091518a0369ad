-------------------------- MODULE MCOperationTables --------------------------
(***************************************************************************)
(* A type whose second operation has a property the first has not, and     *)
(* the other way round, with the memo only in the second; a second type;   *)
(* a type without a name before another operation; and a last operation of *)
(* a type whose table's name is folded, which no restart gets past.        *)
(***************************************************************************)
EXTENDS OperationTables, TLC

CONSTANTS transfer, bonus, white_list, future, amount, fee

MCTypes == {transfer, bonus, white_list, future}
MCNameless == {future}
MCFolded == {white_list}
MCProps == {amount, fee, "memo"}

Operation(type, props) == [type |-> type, props |-> props]

MCChain ==
    << <<Operation(transfer, {amount}), Operation(bonus, {fee})>>,
       <<Operation(transfer, {fee, "memo"}), Operation(future, {amount}),
         Operation(bonus, {amount})>>,
       <<Operation(white_list, {fee})>> >>
=============================================================================
