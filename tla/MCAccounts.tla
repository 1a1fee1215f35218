------------------------------ MODULE MCAccounts ------------------------------
(***************************************************************************)
(* An instance of Accounts for TLC.  x1 and x2 register one phone, x3 has  *)
(* another but the e-mail of x1, and the seed runs twice, for one and for  *)
(* two of its users.                                                       *)
(***************************************************************************)
EXTENDS Accounts

CONSTANTS x1, x2, x3, f1, f2, l1, s1, s2, t1, pa, pb, pc, pd, mail

MCFixture == <<f1, f2>>
MCTier == [s \in Seeds |-> IF s = s1 THEN 1 ELSE 2]
MCPhone ==
  [c \in Owners \cup Logins |->
     CASE c \in {x1, x2, l1} -> pa [] c = x3 -> pb [] c = f1 -> pc [] c = f2 -> pd]
MCUnique == [o \in Owners |-> {MCPhone[o]} \cup {m \in {mail} : o \in {x1, x3}}]
MCFrom == [t \in Transfers |-> x1]
MCTo == [t \in Transfers |-> f2]
MCAmount == [t \in Transfers |-> 1]
=============================================================================
