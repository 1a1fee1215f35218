------------------------------ MODULE MCSendMoney ------------------------------
(***************************************************************************)
(* An instance of SendMoney for TLC.  s3 retries s2, and s1 comes under    *)
(* the same key with another amount, more than the wallet holds; both are  *)
(* above the absolute threshold.  Amounts are in thousands of taka and the *)
(* policy is that of the code, except that two wrong answers, not three,   *)
(* end in review.                                                          *)
(***************************************************************************)
EXTENDS SendMoney, TLC

CONSTANTS s1, s2, s3, r1, r2, a1, a2, k1, payee

MCKey == [c \in Sends |-> k1]
MCReceiver == [c \in Sends |-> payee]
MCAmount == [c \in Sends |-> IF c = s1 THEN 30 ELSE 26]
\* Calls that differ in nothing but their name.
Alike == Permutations({s2, s3}) \cup Permutations(Releases) \cup Permutations(AnswerCalls)

MCOpening == [w \in Wallets |-> IF w = owner THEN 29 ELSE 0]
=============================================================================
