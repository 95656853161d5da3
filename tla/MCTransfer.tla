----------------------------- MODULE MCTransfer -----------------------------
(***************************************************************************)
(* Small instances of Transfer for TLC: one or two transfers of one or two *)
(* blocks.                                                                 *)
(***************************************************************************)
EXTENDS TransferInductive

CONSTANTS t1, t2, b1, b2, n1, n2, i1, i2

OwnName  == [t \in Transfers |-> IF t = t1 THEN n1 ELSE n2]
SameName == [t \in Transfers |-> n1]

OwnId  == [t \in Transfers |-> IF t = t1 THEN i1 ELSE i2]
SameId == [t \in Transfers |-> i1]

OneBlock  == [t \in Transfers |-> IF t = t1 THEN <<b1>> ELSE <<b2>>]
TwoBlocks == [t \in Transfers |-> <<b1, b2>>]
OneEmpty  == [t \in Transfers |-> IF t = t1 THEN <<>> ELSE <<b2>>]

\* Shorter, longer and of the same length as a file of two blocks.
AnyEdit == {<<>>, <<b2>>, <<b2, b1>>, <<b1, b2, b1>>}
NoEdit  == {}
=============================================================================
