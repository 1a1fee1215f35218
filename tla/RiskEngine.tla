------------------------------ MODULE RiskEngine ------------------------------
(***************************************************************************)
(* RiskEngineService.evaluate: five rules over an intended payment and the *)
(* signals that gatherSignals reads, a score that sums the weights of the  *)
(* rules that fire, a level and a decision to block.  Pure operators; the  *)
(* weights are those of the code, the thresholds of the policy constants.  *)
(*                                                                         *)
(* A payment is [amount, balance], balance the sender's.  Signals are      *)
(* [hourly, known, fanout, idle]: rows of the last hour, whether the       *)
(* receiver was paid before, receivers of the last day, and days since the *)
(* last completed payment, or Never.                                       *)
(***************************************************************************)
EXTENDS Integers

CONSTANTS
  LargeAmount,        \* LARGE_AMOUNT_POISHA
  VelocityElevated,   \* VELOCITY_ELEVATED_PER_HOUR
  VelocityExtreme,    \* VELOCITY_EXTREME_PER_HOUR
  FanOut,             \* FANOUT_ELEVATED_PER_DAY
  DormancyDays,       \* DORMANCY_DAYS
  Never               \* daysSinceLastActivity is null

Rules == {"balance", "counterparty", "velocity", "fanout", "dormancy"}

\* The share of the balance in basis points, rounded down.  The rules that
\* compare it do not apply to an empty wallet.
ShareOfBalance(p) == (p.amount * 10000) \div p.balance

AtLeastShare(p, bps) == p.balance > 0 /\ ShareOfBalance(p) >= bps

IsLargeAbsolute(p) == p.amount >= LargeAmount

LargeRelativeToBalance(p) ==
  IF AtLeastShare(p, 9900) THEN 25 ELSE IF AtLeastShare(p, 9000) THEN 15 ELSE 0

NewCounterpartyLargeAmount(p, s) ==
  IF s.known \/ ~(IsLargeAbsolute(p) \/ AtLeastShare(p, 5000)) THEN 0
  ELSE IF IsLargeAbsolute(p) /\ AtLeastShare(p, 5000) THEN 45 ELSE 35

UnusualFrequency(s) ==
  IF s.hourly >= VelocityExtreme THEN 40 ELSE IF s.hourly >= VelocityElevated THEN 20 ELSE 0

ReceiverFanOut(s) == IF s.fanout >= FanOut THEN 25 ELSE 0

\* A new account, which has no last payment, is not dormant.
ActivityAfterDormancy(p, s) ==
  IF s.idle # Never /\ s.idle >= DormancyDays /\ (IsLargeAbsolute(p) \/ AtLeastShare(p, 5000))
  THEN 40 ELSE 0

Weight(p, s) ==
  [balance |-> LargeRelativeToBalance(p),
   counterparty |-> NewCounterpartyLargeAmount(p, s),
   velocity |-> UnusualFrequency(s),
   fanout |-> ReceiverFanOut(s),
   dormancy |-> ActivityAfterDormancy(p, s)]

Triggered(weight) == {r \in Rules : weight[r] > 0}

Score(weight) ==
  weight.balance + weight.counterparty + weight.velocity + weight.fanout + weight.dormancy

Level(score) == IF score >= 60 THEN "HIGH" ELSE IF score >= 30 THEN "MEDIUM" ELSE "LOW"

ShouldBlock(score) == score >= 90

\* gatherSignals could not be read: the engine fails open.
NeutralSignals == [hourly |-> 0, known |-> TRUE, fanout |-> 0, idle |-> Never]
=============================================================================
