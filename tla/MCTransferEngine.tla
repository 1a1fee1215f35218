--------------------------- MODULE MCTransferEngine ---------------------------
(***************************************************************************)
(* Instances of TransferEngine for TLC: three calls over two wallets.      *)
(*                                                                         *)
(*   reciprocal  r1 and r2 carry one key, a request and its retry; r3 pays *)
(*               back over the same wallets, in the opposite direction.    *)
(*   settlement  r1 and r3 settle one money request under different keys,  *)
(*               r2 retries r1.                                            *)
(*                                                                         *)
(* Wallet "a" opens with 2 and "b" with 0, so the order of the calls, and  *)
(* what envelopes reserve, decide who has enough.                          *)
(***************************************************************************)
EXTENDS TransferEngineInvariant

CONSTANTS r1, r2, r3, a, b, k1, k2, req

MCRank == [w \in Wallets |-> IF w = a THEN 1 ELSE 2]
MCOpening == [w \in Wallets |-> IF w = a THEN 2 ELSE 0]
MCOpeningStatus == [w \in Wallets |-> "ACTIVE"]

KeyTwo == [r \in Requests |-> IF r = r3 THEN k2 ELSE k1]

SenderReciprocal == [r \in Requests |-> IF r = r3 THEN b ELSE a]
ReceiverReciprocal == [r \in Requests |-> IF r = r3 THEN a ELSE b]
AmountReciprocal == [r \in Requests |-> IF r = r3 THEN 1 ELSE 2]

SenderOneWay == [r \in Requests |-> a]
ReceiverOneWay == [r \in Requests |-> b]
AmountOne == [r \in Requests |-> 1]

NoOrigins == [r \in Requests |-> NoOrigin]
SettlementOrigin == [r \in Requests |-> req]
=============================================================================
