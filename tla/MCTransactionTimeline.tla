------------------------- MODULE MCTransactionTimeline -------------------------
(***************************************************************************)
(* Two transfers out of one wallet that pays one of them.                  *)
(***************************************************************************)
EXTENDS TransactionTimeline

CONSTANTS t1, t2, ann, bob

MCFrom == [t \in Transfers |-> ann]
MCTo == [t \in Transfers |-> bob]
MCAmount == [t \in Transfers |-> 2]
MCOpening == [w \in Wallets |-> IF w = ann THEN 3 ELSE 0]
=============================================================================
