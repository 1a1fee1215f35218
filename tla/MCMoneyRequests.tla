---------------------------- MODULE MCMoneyRequests ----------------------------
(***************************************************************************)
(* An instance of MoneyRequests for TLC.  Call m2 of create retries m1, and *)
(* three responses meet on the one request: the payer accepts it twice,    *)
(* under two keys, and declines it.  The payer opens without the sum, and  *)
(* a direct transfer may bring it, so a settlement may fail and be tried   *)
(* again.                                                                  *)
(***************************************************************************)
EXTENDS MoneyRequests

CONSTANTS m1, m2, c1, c2, c3, payer, requester, friend, k1, k2, top

MCRequester == [m \in Asks |-> requester]
MCPayer == [m \in Asks |-> payer]
MCSum == [m \in Asks |-> 1]
OneAsk == [m \in Asks |-> "ask"]
MCRequest == [c \in Responses |-> m1]
MCActor == [c \in Responses |-> payer]
MCDecision == [c \in Responses |-> IF c = c3 THEN "DECLINE" ELSE "ACCEPT"]
MCKey == [c \in Responses |-> IF c = c1 THEN k1 ELSE k2]
MCDirect == [k \in {top} |-> [from |-> friend, to |-> payer, amount |-> 1]]
MCOpening == [w \in Wallets |-> IF w = friend THEN 1 ELSE 0]
=============================================================================
