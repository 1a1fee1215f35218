--------------------------------- MODULE MCPots ---------------------------------
(***************************************************************************)
(* An instance of Pots for TLC: ann creates the pot and asks for two       *)
(* payouts under two keys; bob contributes, retries under the same key,    *)
(* and contributes again.  Two contributions reach the target.             *)
(***************************************************************************)
EXTENDS Pots

CONSTANTS d1, d2, d3, p1, p2, ann, bob, k1, k2, k3, k4

MCMember == [c \in Calls |-> IF c \in Payouts THEN ann ELSE bob]
MCAmount == [c \in Contributions |-> 1]
MCKey == [c \in Calls |-> CASE c = p1 -> k3 [] c = p2 -> k4
                            [] c = d3 -> k2 [] OTHER -> k1]
MCOpening == [w \in Wallets |-> IF w = bob THEN 2 ELSE 0]
=============================================================================
