------------------------------- MODULE SendMoney -------------------------------
(***************************************************************************)
(* SendMoneyUseCase.execute for one owner: rate limit, security challenge, *)
(* risk, engine, flag, composed of WalletSecurity, RiskEngine and          *)
(* ProcessCall.  Each gate reads what the others, the clock, a freeze or   *)
(* another call with the same key may change before the next.              *)
(***************************************************************************)
EXTENDS WalletSecurity

CONSTANTS
  Key,        \* Key[c], Receiver[c], Amount[c]: the command of call c
  Receiver,
  Amount,
  owner,      \* the sender's wallet
  ChallengeAbsolute,   \* CHALLENGE_ABSOLUTE_POISHA
  Hourly, Fanouts, Idles,   \* the values that the risk signals take
  LargeAmount, VelocityElevated, VelocityExtreme, FanOut, DormancyDays, Never,
  Keys, Wallets, Opening, MaxTransfer, Faults, NoCall

ASSUME SendAssumption ==
  /\ Key \in [Sends -> Keys]
  /\ Receiver \in [Sends -> Wallets]
  /\ Amount \in [Sends -> Nat]
  /\ owner \in Wallets /\ Opening \in [Wallets -> Nat]
  /\ ChallengeAbsolute \in Nat /\ MaxTransfer \in Nat
  /\ Hourly \subseteq Nat /\ Fanouts \subseteq Nat /\ Idles \subseteq Nat \cup {Never}
  /\ Faults \subseteq {"engine", "ack", "redis", "risk"}
  /\ NoCall \notin Sends

ASSUME PolicyAssumption ==
  /\ LargeAmount \in Nat /\ FanOut \in Nat /\ DormancyDays \in Nat
  /\ VelocityElevated \in Nat /\ VelocityExtreme \in Nat
  /\ VelocityElevated <= VelocityExtreme

VARIABLES
  verdict, funds, refused,   \* the engine: see ProcessCall
  paid,    \* paid[k]: the call whose command became the COMPLETED row of k
  at,      \* at[c]: where call c of send is
  level,   \* level[c]: the level of the assessment, "none" without one
  signs,   \* signs[c]: how many rules fired for a call that was blocked
  flags,   \* risk_flags
  reply    \* reply[c]: what c answered

sending == <<verdict, funds, refused, paid, at, level, signs, flags, reply>>
vars == <<security, sending>>

Usable == (Wallets \ {owner}) \cup {w \in {owner} : wallet = "ACTIVE"}

Order(c) == [from |-> owner, to |-> Receiver[c], amount |-> Amount[c]]

Orders == [k \in Keys |-> {Order(c) : c \in {d \in Sends : Key[d] = k}}]

Engine == INSTANCE ProcessCall WITH usable <- Usable, held <- [w \in Wallets |-> 0]

Risk == INSTANCE RiskEngine

-----------------------------------------------------------------------------
(* Types *)

SendSteps == {"new", "proving", "assessing", "processing", "flagging", "done"}
Levels == {"none", "LOW", "MEDIUM", "HIGH"}
Refusals == {"LIMITED", "CHALLENGED", "BLOCKED"}

-----------------------------------------------------------------------------
(* Pieces of actions *)

Continue(c, s) == at' = [at EXCEPT ![c] = s]

Answer(c, what) ==
  /\ Continue(c, "done")
  /\ reply' = [reply EXCEPT ![c] = what]

\* requiresChallenge
RequiresChallenge(payment) ==
  payment.amount >= ChallengeAbsolute \/ Risk!AtLeastShare(payment, 5000)

\* The payment, with the balance that a gate reads.
Payment(c) == [amount |-> Amount[c], balance |-> funds[owner]]

\* Mutant: the pass is looked up by the key, and its amount is not compared.
Authorised_ByKey(c) ==
  NewestPassed({h \in Sends : Key[h] = Key[c]}) # {}

\* hasPassedTransferChallenge: the newest pass of the key has the amount.
Authorised(c) ==
  \E h \in NewestPassed({g \in Sends : Key[g] = Key[c]}) : Amount[h] = Amount[c]

\* gatherSignals.  Whether the receiver was paid before is read from the
\* table; the counts and the idle time are any that the policy tells apart.
Signals(c) ==
  [hourly : Hourly, fanout : Fanouts, idle : Idles,
   known : {\E k \in Keys : paid[k] # NoCall /\ Receiver[paid[k]] = Receiver[c]}]

\* Mutant: every flag names the transaction of the key.
FlagOf_Always(c, completed) == [send |-> c, level |-> level[c], transaction |-> Key[c]]

FlagOf(c, completed) ==
  [send |-> c, level |-> level[c], transaction |-> IF completed THEN Key[c] ELSE "none"]

-----------------------------------------------------------------------------
(* The call *)

\* The rate limit, and the first read of the balance.
Start(c) ==
  /\ at[c] = "new"
  /\ \/ Answer(c, "LIMITED")
     \/ /\ Continue(c, IF RequiresChallenge(Payment(c)) THEN "proving" ELSE "assessing")
        /\ UNCHANGED reply
  /\ UNCHANGED <<security, verdict, funds, refused, paid, level, signs, flags>>

\* An authorised payment goes on; any other raises a challenge and throws.
ProveTransfer(c) ==
  /\ at[c] = "proving"
  /\ \/ Authorised(c) /\ Continue(c, "assessing") /\ UNCHANGED <<reply, challenge, raised>>
     \/ ~Authorised(c) /\ Raise(c) /\ Answer(c, "CHALLENGED")
  /\ UNCHANGED <<wallet, events, age, step, target, seen,
                 verdict, funds, refused, paid, level, signs, flags>>

\* assessRisk: no assessment at all, or one over signals that may be neutral.
\* A block is flagged without a transaction, and throws.
AssessRisk(c) ==
  /\ at[c] = "assessing"
  /\ \/ /\ Continue(c, "processing")
        /\ UNCHANGED <<level, signs, flags, reply>>
     \/ \E s \in Signals(c) \cup {Risk!NeutralSignals} :
          LET weight == Risk!Weight(Payment(c), s)
              score == Risk!Score(weight)
              flag == [send |-> c, level |-> Risk!Level(score), transaction |-> "none"]
          IN  /\ level' = [level EXCEPT ![c] = Risk!Level(score)]
              /\ \/ /\ Risk!ShouldBlock(score)
                    /\ signs' = [signs EXCEPT ![c] = Cardinality(Risk!Triggered(weight))]
                    /\ \/ flags' = flags \cup {flag}
                       \/ "risk" \in Faults /\ UNCHANGED flags
                    /\ Answer(c, "BLOCKED")
                 \/ /\ ~Risk!ShouldBlock(score)
                    /\ Continue(c, "processing")
                    /\ UNCHANGED <<signs, flags, reply>>
  /\ UNCHANGED <<security, verdict, funds, refused, paid>>

\* process(), and what is done with its answer.
Process(c) ==
  /\ at[c] = "processing"
  /\ UNCHANGED <<security, level, signs, flags>>
  /\ \E answer \in Engine!Answers :
       /\ \/ Engine!Pays(Key[c], Order(c), answer) /\ paid' = [paid EXCEPT ![Key[c]] = c]
          \/ /\ \/ Engine!Declines(Key[c], Order(c), answer)
                \/ Engine!Replays(Key[c], answer)
                \/ Engine!Rejects(Key[c], Order(c), answer)
                \/ Engine!Breaks(answer)
             /\ UNCHANGED paid
       /\ reply' = [reply EXCEPT ![c] = answer]
       /\ Continue(c, IF answer = "ERROR" \/ level[c] \in {"none", "LOW"} THEN "done"
                      ELSE "flagging")

\* recordAssessment, after the commit; its own error is swallowed.
Flag(c) ==
  /\ at[c] = "flagging"
  /\ \/ flags' = flags \cup {FlagOf(c, reply[c] = "COMPLETED")}
     \/ "risk" \in Faults /\ UNCHANGED flags
  /\ Continue(c, "done")
  /\ UNCHANGED <<security, verdict, funds, refused, paid, level, signs, reply>>

Elsewhere ==
  \/ SecurityNext /\ UNCHANGED sending
  \/ /\ UNCHANGED <<security, paid, at, level, signs, flags, reply>>
     /\ \E k \in Keys : Engine!Forget(k)

-----------------------------------------------------------------------------
Init ==
  /\ SecurityInit
  /\ Engine!Init
  /\ refused = {}
  /\ paid = [k \in Keys |-> NoCall]
  /\ at = [c \in Sends |-> "new"]
  /\ level = [c \in Sends |-> "none"]
  /\ signs = [c \in Sends |-> 0]
  /\ flags = {}
  /\ reply = [c \in Sends |-> "none"]

Next ==
  \/ \E c \in Sends :
       Start(c) \/ ProveTransfer(c) \/ AssessRisk(c) \/ Process(c) \/ Flag(c)
  \/ Elsewhere

Spec == Init /\ [][Next]_vars

-----------------------------------------------------------------------------
(* Safety *)

\* Every variable has its type, and a security event records a change.
TypeOK ==
  /\ SecurityTypeOK
  /\ verdict \in [Keys -> {"open", "paid", "declined"}]
  /\ funds \in [Wallets -> Int] /\ refused \subseteq Keys
  /\ paid \in [Keys -> Sends \cup {NoCall}]
  /\ at \in [Sends -> SendSteps]
  /\ level \in [Sends -> Levels] /\ signs \in [Sends -> 0..5]
  /\ flags \subseteq [send : Sends, level : Levels, transaction : Keys \cup {"none"}]
  /\ reply \in [Sends -> Engine!Answers \cup Refusals \cup {"none"}]

\* No large payment moves without a security answer: behind a COMPLETED row of
\* at least the absolute threshold there is a challenge that was raised for
\* its key and its amount and was PASSED, whichever calls shared the key and
\* whatever else was answered meanwhile.
LargePaymentsAreAuthorised ==
  \A k \in Keys :
    paid[k] # NoCall /\ Amount[paid[k]] >= ChallengeAbsolute =>
      \E h \in Sends :
        Key[h] = k /\ Amount[h] = Amount[paid[k]] /\ challenge[h] = "PASSED"

\* "A single rule firing is never sufficient to block", and a flag that names
\* a transaction names one whose money has moved.
RiskDecisionsAreGrounded ==
  /\ \A c \in Sends : reply[c] = "BLOCKED" => signs[c] >= 2
  /\ \A f \in flags : f.transaction # "none" => verdict[f.transaction] = "paid"
=============================================================================
