------------------------------- MODULE MCSendPage -------------------------------
(***************************************************************************)
(* An instance of SendPage for TLC: two users sign in one after the other  *)
(* in one tab, and a transfer may be edited from a small to a large one.   *)
(***************************************************************************)
EXTENDS SendPage, TLC

CONSTANTS ann, ben, shop, ta, tb, small, big, all, sent

\* The users, each with a token, are alike.
Alike == {ta :> tb @@ tb :> ta @@ ann :> ben @@ ben :> ann}

MCOwner == [t \in Tokens |-> IF t = ta THEN ann ELSE ben]
MCReceiver == [i \in Intents |-> shop]
MCAmount == [i \in Intents |-> IF i = big THEN 2 ELSE 1]
MCOpening == [w \in Wallets |-> IF w = shop THEN 0 ELSE 2]
=============================================================================
