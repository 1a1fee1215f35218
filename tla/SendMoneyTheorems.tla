--------------------------- MODULE SendMoneyTheorems ---------------------------
(***************************************************************************)
(* Safety of sending money, of security challenges and of the wallet's     *)
(* status, for every set of calls, every policy and every choice of        *)
(* faults.  What makes it inductive: a call that may still raise its       *)
(* challenge has none, so that a challenge once PASSED or FAILED stays     *)
(* what it is; a call that a gate let through carries the gate's evidence; *)
(* and a wrong answer is followed by the call that acts on it.             *)
(*                                                                         *)
(* The same use case shows the wallet's balance, from a cache, and is      *)
(* called through a rate limiter.  Neither decides about a payment, so     *)
(* RedisLayer is a specification beside SendMoney, and its theorems are    *)
(* the second half of this module.                                         *)
(***************************************************************************)
EXTENDS SendMoney, RedisLayer, FiniteSetTheorems, TLAPS

-----------------------------------------------------------------------------
(* The invariant *)

\* The types that the proofs rely on.
StatusTypes ==
  /\ wallet \in WalletStatuses
  /\ challenge \in [Raisers -> ChallengeStatuses]
  /\ age \in [Raisers -> 0..2]
  /\ step \in [Releases \cup AnswerCalls -> ReleaseSteps \cup AnswerSteps]
  /\ target \in [AnswerCalls -> Raisers \cup {"none"}]

CallTypes ==
  /\ at \in [Sends -> SendSteps]
  /\ paid \in [Keys -> Sends \cup {NoCall}]
  /\ verdict \in [Keys -> {"open", "paid", "declined"}]
  /\ signs \in [Sends -> Nat]
  /\ reply \in [Sends -> Engine!Answers \cup Refusals \cup {"none"}]
  /\ \A f \in flags : f.transaction \in Keys \cup {"none"}

\* Who may still raise its challenge has not.
SendsRaiseOnce == \A c \in Sends : at[c] \in {"new", "proving"} => challenge[c] = "ABSENT"
ReleasesRaiseOnce ==
  \A r \in Releases : step[r] \in {"new", "proving"} => challenge[r] = "ABSENT"

OwnerIsProven == \E h \in Releases : challenge[h] = "PASSED"

\* An unfreeze past its gate rests on an answered challenge.
ReleasesHaveProof ==
  \A r \in Releases : step[r] = "releasing" => OwnerIsProven

\* The wrong answers of a day.
Guesses == {h \in Releases : challenge[h] = "FAILED" /\ age[h] < 2}

\* As WrongAnswerStopsTheWallet, for each challenge.
WrongAnswersAreHandled ==
  \A h \in Sends :
    challenge[h] = "FAILED" /\ wallet = "ACTIVE" =>
      \/ OwnerIsProven
      \/ \E b \in AnswerCalls :
           target[b] = h /\ step[b] \in {"looking", "freezing", "swallowed"}

SecurityInv ==
  /\ StatusTypes
  /\ ReleasesRaiseOnce
  /\ ReleasesHaveProof
  /\ WrongAnswersAreHandled
  /\ GuessingEndsInReview

\* A pass under the key of c with the amount of c.
Backed(c) ==
  \E h \in Sends : Key[h] = Key[c] /\ Amount[h] = Amount[c] /\ challenge[h] = "PASSED"

\* A large payment past its gate is backed.
LargeCallsAreBacked ==
  \A c \in Sends :
    at[c] \in {"assessing", "processing"} /\ Amount[c] >= ChallengeAbsolute => Backed(c)

\* The row of a key is its payer's.
PayersHaveTheKey == \A k \in Keys : paid[k] # NoCall => Key[paid[k]] = k

\* What a call that is about to flag was told is true, and a blocked call ends.
RepliesAreTrue ==
  \A c \in Sends :
    /\ at[c] = "flagging" /\ reply[c] = "COMPLETED" => verdict[Key[c]] = "paid"
    /\ reply[c] = "BLOCKED" => at[c] = "done"

SendInv ==
  /\ CallTypes
  /\ SendsRaiseOnce
  /\ LargeCallsAreBacked
  /\ PayersHaveTheKey
  /\ LargePaymentsAreAuthorised
  /\ RepliesAreTrue
  /\ RiskDecisionsAreGrounded


\* The inductive invariant.
GateInv == SecurityInv /\ SendInv

-----------------------------------------------------------------------------
(* Challenges and the status of the wallet *)

Settled(h) == challenge[h] \in {"PASSED", "FAILED"}

\* A challenge that is PASSED or FAILED stays so, and only a call raises its own.
LEMMA ChallengesStand ==
  ASSUME SecurityInv, SecurityNext
  PROVE  /\ \A h \in Raisers : Settled(h) => challenge'[h] = challenge[h]
         /\ \A c \in Sends : challenge[c] = "ABSENT" => challenge'[c] = "ABSENT"
         /\ challenge' \in [Raisers -> ChallengeStatuses]
<1> USE SecurityAssumption DEF SecurityInv, StatusTypes, ChallengeStatuses, Settled, Raisers
<1>1. CASE UNCHANGED challenge
  BY <1>1
<1>2. ASSUME NEW r \in Releases, Prove(r)
      PROVE  \/ UNCHANGED challenge
             \/ challenge[r] = "ABSENT" /\ challenge' = [challenge EXCEPT ![r] = "PENDING"]
  BY <1>2 DEF Prove, Raise, ReleasesRaiseOnce
<1>3. ASSUME NEW a \in AnswerCalls, Expire(a) \/ Pass(a) \/ Fail(a)
      PROVE  \E outcome \in {"EXPIRED", "PASSED", "FAILED"} :
               challenge' = Resolved(target[a], outcome)
  BY <1>3 DEF Expire, Pass, Fail
<1>4. ASSUME NEW a \in AnswerCalls, NEW outcome \in {"EXPIRED", "PASSED", "FAILED"},
             challenge' = Resolved(target[a], outcome)
      PROVE  /\ \A h \in Raisers : Settled(h) => challenge'[h] = challenge[h]
             /\ \A c \in Sends : challenge[c] = "ABSENT" => challenge'[c] = "ABSENT"
             /\ challenge' \in [Raisers -> ChallengeStatuses]
  BY <1>4 DEF Resolved
<1>5. UNCHANGED challenge \/ (\E r \in Releases : Prove(r))
        \/ (\E a \in AnswerCalls : Expire(a) \/ Pass(a) \/ Fail(a))
  BY DEF SecurityNext, Freeze, ReadWallet, Release, Verify, Look, FreezeAsSystem, Count,
     ReadStatus, MarkUnderReview, Grow
<1> QED
  BY <1>1, <1>2, <1>3, <1>4, <1>5

\* A security step keeps the types.
LEMMA StatusTyped ==
  ASSUME SecurityInv, SecurityNext
  PROVE  StatusTypes'
<1> USE SecurityAssumption DEF SecurityInv, StatusTypes, WalletStatuses, Raisers,
      ReleaseSteps, AnswerSteps, Goto
<1>1. challenge' \in [Raisers -> ChallengeStatuses]
  BY ChallengesStand
<1>2. CASE Freeze
  BY <1>1, <1>2 DEF Freeze, Transition
<1>3. ASSUME NEW r \in Releases, ReadWallet(r) \/ Prove(r) \/ Release(r)
      PROVE  StatusTypes'
  BY <1>1, <1>3 DEF ReadWallet, Prove, Release, Transition
<1>4. ASSUME NEW a \in AnswerCalls, Verify(a) \/ Expire(a) \/ Pass(a) \/ Fail(a)
      PROVE  StatusTypes'
  BY <1>1, <1>4 DEF Verify, Expire, Pass, Fail
<1>5. ASSUME NEW a \in AnswerCalls, Look(a) \/ FreezeAsSystem(a) \/ Count(a)
      PROVE  StatusTypes'
  BY <1>1, <1>5 DEF Look, FreezeAsSystem, Count, Transition
<1>6. ASSUME NEW a \in AnswerCalls, ReadStatus(a) \/ MarkUnderReview(a)
      PROVE  StatusTypes'
  BY <1>1, <1>6 DEF ReadStatus, MarkUnderReview, Transition
<1>7. ASSUME NEW h \in Raisers, Grow(h)
      PROVE  StatusTypes'
  <2>1. age'[h] \in 0..2 /\ age' = [age EXCEPT ![h] = @ + 1]
    BY <1>7 DEF Grow, Oldest
  <2> QED
    BY <1>1, <1>7, <2>1 DEF Grow
<1> QED
  BY <1>2, <1>3, <1>4, <1>5, <1>6, <1>7 DEF SecurityNext

\* What the statuses of the wallet follow.
LEMMA StatusSteps ==
  ASSUME SecurityInv, SecurityNext
  PROVE  /\ wallet = "UNDER_REVIEW" => wallet' = wallet
         /\ wallet # "ACTIVE" /\ wallet' = "ACTIVE" => OwnerIsProven
<1> USE DEF SecurityInv, StatusTypes, Transition
<1>1. CASE Freeze
  BY <1>1 DEF Freeze
<1>2. ASSUME NEW r \in Releases, Release(r)
      PROVE  (wallet = "UNDER_REVIEW" => wallet' = wallet) /\ OwnerIsProven
  BY <1>2 DEF Release, ReleasesHaveProof
<1>3. ASSUME NEW a \in AnswerCalls, FreezeAsSystem(a) \/ MarkUnderReview(a)
      PROVE  /\ wallet = "UNDER_REVIEW" => wallet' = wallet
             /\ wallet # "ACTIVE" => wallet' # "ACTIVE"
  BY <1>3 DEF FreezeAsSystem, MarkUnderReview
<1>4. \/ Freeze \/ UNCHANGED wallet
      \/ \E r \in Releases : Release(r)
      \/ \E a \in AnswerCalls : FreezeAsSystem(a) \/ MarkUnderReview(a)
  BY DEF SecurityNext, ReadWallet, Prove, Verify, Expire, Pass, Fail, Look, Count,
     ReadStatus, Grow
<1> QED
  BY <1>1, <1>2, <1>3, <1>4

\* An answered unfreeze challenge remains one.
LEMMA ProofStands ==
  ASSUME SecurityInv, SecurityNext, OwnerIsProven
  PROVE  OwnerIsProven'
BY ChallengesStand DEF OwnerIsProven, Settled, Raisers

\* The gate of unfreeze.
LEMMA ReleasesKept ==
  ASSUME SecurityInv, SecurityNext
  PROVE  ReleasesRaiseOnce' /\ ReleasesHaveProof'
<1> USE SecurityAssumption DEF SecurityInv, StatusTypes, Goto, Raisers
<1>1. ASSUME NEW r \in Releases, step'[r] \in {"new", "proving"}
      PROVE  challenge'[r] = "ABSENT"
  <2>1. step[r] \in {"new", "proving"} /\ challenge[r] = "ABSENT"
    BY <1>1 DEF SecurityNext, Freeze, ReadWallet, Prove, Release, Verify, Expire, Pass, Fail,
       Look, FreezeAsSystem, Count, ReadStatus, MarkUnderReview, Grow, ReleasesRaiseOnce
  <2>2. ASSUME NEW q \in Releases, Prove(q)
        PROVE  challenge'[r] = "ABSENT"
    BY <1>1, <2>1, <2>2 DEF Prove, Raise
  <2>3. ASSUME NEW a \in AnswerCalls, Expire(a) \/ Pass(a) \/ Fail(a)
        PROVE  challenge'[r] = "ABSENT"
    BY <2>1, <2>3 DEF Expire, Pass, Fail, Resolved
  <2> QED
    BY <2>1, <2>2, <2>3 DEF SecurityNext, Freeze, ReadWallet, Release, Verify, Look,
       FreezeAsSystem, Count, ReadStatus, MarkUnderReview, Grow
<1>2. ASSUME NEW r \in Releases, step'[r] = "releasing"
      PROVE  OwnerIsProven
  <2>1. CASE step[r] = "releasing"
    BY <2>1 DEF ReleasesHaveProof
  <2>2. CASE step[r] # "releasing"
    <3>1. Prove(r)
      BY <1>2, <2>2 DEF SecurityNext, Freeze, ReadWallet, Prove, Release, Verify, Expire,
         Pass, Fail, Look, FreezeAsSystem, Count, ReadStatus, MarkUnderReview, Grow
    <3> QED
      BY <1>2, <3>1 DEF Prove, NewestPassed, Passed, OwnerIsProven
  <2> QED
    BY <2>1, <2>2
<1> QED
  BY <1>1, <1>2, ProofStands DEF ReleasesRaiseOnce, ReleasesHaveProof

\* A wrong answer to a payment's challenge is followed by its freeze.
LEMMA WrongAnswersKept ==
  ASSUME SecurityInv, SecurityNext
  PROVE  WrongAnswersAreHandled'
<1> USE SecurityAssumption DEF SecurityInv, StatusTypes, Goto, Raisers
<1> DEFINE Acting(h, b) == target[b] = h /\ step[b] \in {"looking", "freezing", "swallowed"}
<1> SUFFICES ASSUME NEW h \in Sends, challenge'[h] = "FAILED", wallet' = "ACTIVE",
                    ~OwnerIsProven
             PROVE  \E b \in AnswerCalls : Acting(h, b)'
  BY ProofStands DEF WrongAnswersAreHandled
<1>1. wallet = "ACTIVE"
  BY StatusSteps
<1>2. CASE challenge[h] # "FAILED"
  <2>1. PICK a \in AnswerCalls : Fail(a) /\ target[a] = h
    <3>1. ASSUME NEW r \in Releases, Prove(r)
          PROVE  FALSE
      BY <1>2, <3>1 DEF Prove, Raise
    <3>2. \/ UNCHANGED challenge \/ (\E r \in Releases : Prove(r))
          \/ \E a \in AnswerCalls : Expire(a) \/ Pass(a) \/ Fail(a)
      BY DEF SecurityNext, Freeze, ReadWallet, Release, Verify, Look, FreezeAsSystem, Count,
         ReadStatus, MarkUnderReview, Grow
    <3>3. ASSUME NEW a \in AnswerCalls, Expire(a) \/ Pass(a)
          PROVE  FALSE
      BY <1>2, <3>3 DEF Expire, Pass, Resolved
    <3>4. ASSUME NEW a \in AnswerCalls, Fail(a)
          PROVE  target[a] = h
      BY <1>2, <3>4 DEF Fail, Resolved
    <3> QED
      BY <1>2, <3>1, <3>2, <3>3, <3>4
  <2> QED
    BY <2>1 DEF Fail
<1>3. CASE challenge[h] = "FAILED"
  <2>1. PICK b \in AnswerCalls : Acting(h, b)
    BY <1>1, <1>3 DEF WrongAnswersAreHandled
  <2>2. CASE UNCHANGED <<step[b], target[b]>>
    BY <2>1, <2>2
  <2>3. CASE ~UNCHANGED <<step[b], target[b]>>
    <3>1. Look(b) \/ FreezeAsSystem(b)
      BY <2>1, <2>3 DEF SecurityNext, Freeze, ReadWallet, Prove, Release, Verify, Expire, Pass,
         Fail, Look, FreezeAsSystem, Count, ReadStatus, MarkUnderReview, Grow
    <3>2. step'[b] \in {"freezing", "swallowed"} /\ target'[b] = h
      BY <1>1, <2>1, <3>1 DEF Look, FreezeAsSystem, Transition
    <3> QED
      BY <3>2
  <2> QED
    BY <2>2, <2>3
<1> QED
  BY <1>2, <1>3

\* What reaches the limit of wrong answers is handled until the review.
LEMMA GuessesKept ==
  ASSUME SecurityInv, SecurityNext
  PROVE  GuessingEndsInReview'
<1> USE SecurityAssumption DEF SecurityInv, StatusTypes, Goto, Raisers
<1> SUFFICES ASSUME Cardinality(Guesses') >= MaxAttempts, wallet' # "UNDER_REVIEW"
             PROVE  \E a \in AnswerCalls : step'[a] \in {"counting", "reading", "locking"}
  BY DEF GuessingEndsInReview, Guesses
<1>0. IsFiniteSet(Guesses) /\ Cardinality(Guesses) \in Nat
  BY FS_Subset, FS_CardinalityType DEF Guesses
<1>1. wallet # "UNDER_REVIEW"
  BY StatusSteps
<1>2. CASE Guesses' \subseteq Guesses
  <2>1. Cardinality(Guesses') <= Cardinality(Guesses) /\ Cardinality(Guesses') \in Nat
    BY <1>0, <1>2, FS_Subset, FS_CardinalityType
  <2>2. PICK b \in AnswerCalls : step[b] \in {"counting", "reading", "locking"}
    BY <1>0, <1>1, <2>1 DEF GuessingEndsInReview, Guesses
  <2>3. CASE Count(b)
    <3>1. Guesses \subseteq FailedUnfreezes(b) /\ FailedUnfreezes(b) \subseteq Releases
      BY DEF Guesses, FailedUnfreezes
    <3>2. Cardinality(Guesses) <= Cardinality(FailedUnfreezes(b))
          /\ Cardinality(FailedUnfreezes(b)) \in Nat
      BY <3>1, FS_Subset, FS_CardinalityType
    <3>3. Cardinality(FailedUnfreezes(b)) >= MaxAttempts
      BY <1>0, <2>1, <3>2
    <3> QED
      BY <2>3, <3>3 DEF Count
  <2>4. CASE ReadStatus(b)
    BY <2>4 DEF ReadStatus
  <2>5. CASE MarkUnderReview(b)
    BY <1>1, <2>5 DEF MarkUnderReview, Transition, WalletStatuses
  <2>6. CASE UNCHANGED step[b]
    BY <2>2, <2>6
  <2> QED
    BY <2>2, <2>3, <2>4, <2>5, <2>6 DEF SecurityNext, Freeze, ReadWallet, Prove, Release,
       Verify, Expire, Pass, Fail, Look, FreezeAsSystem, Count, ReadStatus, MarkUnderReview, Grow
<1>3. CASE ~(Guesses' \subseteq Guesses)
  <2>1. PICK h \in Releases : h \in Guesses' /\ h \notin Guesses
    BY <1>3 DEF Guesses
  <2>2. PICK a \in AnswerCalls : Fail(a) /\ target[a] = h
    <3>1. challenge[h] # "FAILED"
      <4>1. CASE UNCHANGED age
        BY <2>1, <4>1 DEF Guesses
      <4>2. ASSUME NEW g \in Raisers, Grow(g)
            PROVE  challenge[h] # "FAILED"
        <5>1. age'[h] >= age[h] /\ age[h] \in 0..2 /\ age'[h] \in 0..2
          BY <4>2, StatusTyped DEF Grow
        <5> QED
          BY <2>1, <4>2, <5>1 DEF Guesses, Grow
      <4> QED
        BY <4>1, <4>2 DEF SecurityNext, Freeze, ReadWallet, Prove, Release, Verify, Expire,
           Pass, Fail, Look, FreezeAsSystem, Count, ReadStatus, MarkUnderReview
    <3>2. challenge'[h] = "FAILED"
      BY <2>1 DEF Guesses
    <3>3. ASSUME NEW r \in Releases, Prove(r)
          PROVE  FALSE
      BY <3>1, <3>2, <3>3 DEF Prove, Raise
    <3>4. ASSUME NEW a \in AnswerCalls, Expire(a) \/ Pass(a)
          PROVE  FALSE
      BY <3>1, <3>2, <3>4 DEF Expire, Pass, Resolved
    <3>5. ASSUME NEW a \in AnswerCalls, Fail(a)
          PROVE  target[a] = h
      BY <3>1, <3>2, <3>5 DEF Fail, Resolved
    <3>6. \/ UNCHANGED challenge \/ (\E r \in Releases : Prove(r))
          \/ \E a \in AnswerCalls : Expire(a) \/ Pass(a) \/ Fail(a)
      BY DEF SecurityNext, Freeze, ReadWallet, Release, Verify, Look, FreezeAsSystem, Count,
         ReadStatus, MarkUnderReview, Grow
    <3> QED
      BY <3>1, <3>2, <3>3, <3>4, <3>5, <3>6
  <2> QED
    BY <2>2 DEF Fail
<1> QED
  BY <1>2, <1>3

\* A security step keeps the invariant of the wallet's security.
LEMMA SecurityKept ==
  ASSUME SecurityInv, SecurityNext
  PROVE  SecurityInv'
BY StatusTyped, ReleasesKept, WrongAnswersKept, GuessesKept DEF SecurityInv

\* And so does a payment that raises its challenge.
LEMMA RaiseKept ==
  ASSUME SecurityInv, NEW c \in Sends, challenge[c] = "ABSENT", Raise(c),
         UNCHANGED <<wallet, events, age, step, target, seen>>
  PROVE  /\ SecurityInv'
         /\ \A h \in Raisers : Settled(h) => challenge'[h] = challenge[h]
         /\ \A d \in Sends \ {c} : challenge'[d] = challenge[d]
<1> USE SecurityAssumption DEF SecurityInv, StatusTypes, Raise, Raisers
<1>1. challenge' \in [Raisers -> ChallengeStatuses]
  BY DEF ChallengeStatuses
<1>2. \A r \in Releases : challenge'[r] = challenge[r]
  OBVIOUS
<1>3. Guesses' = Guesses
  BY <1>2 DEF Guesses
<1>4. GuessingEndsInReview'
  BY <1>3 DEF GuessingEndsInReview, Guesses
<1>5. ReleasesRaiseOnce' /\ ReleasesHaveProof'
  BY <1>2 DEF ReleasesRaiseOnce, ReleasesHaveProof, OwnerIsProven
<1>6. WrongAnswersAreHandled'
  BY <1>2 DEF WrongAnswersAreHandled, OwnerIsProven
<1> QED
  BY <1>1, <1>4, <1>5, <1>6 DEF Settled

-----------------------------------------------------------------------------
(* The score *)

\* "A single rule firing is never sufficient to block": no weight reaches the
\* threshold, whatever the policy and the signals are.
LEMMA NoSingleRuleBlocks ==
  ASSUME NEW p, NEW s, Risk!ShouldBlock(Risk!Score(Risk!Weight(p, s)))
  PROVE  /\ Cardinality(Risk!Triggered(Risk!Weight(p, s))) \in Nat
         /\ Cardinality(Risk!Triggered(Risk!Weight(p, s))) >= 2
<1> DEFINE w == Risk!Weight(p, s)
           Fired == Risk!Triggered(w)
<1>1. /\ w.balance \in {0, 15, 25} /\ w.counterparty \in {0, 35, 45}
      /\ w.velocity \in {0, 20, 40} /\ w.fanout \in {0, 25} /\ w.dormancy \in {0, 40}
  BY DEF Risk!Weight, Risk!LargeRelativeToBalance, Risk!NewCounterpartyLargeAmount,
     Risk!UnusualFrequency, Risk!ReceiverFanOut, Risk!ActivityAfterDormancy
<1>2. w.balance + w.counterparty + w.velocity + w.fanout + w.dormancy >= 90
  BY DEF Risk!ShouldBlock, Risk!Score
<1>3. \A r \in Risk!Rules : r \in Fired <=> w[r] > 0
  BY DEF Risk!Triggered
<1>4. \E r, q \in Fired : r # q
  <2>1. \A b \in {0, 15, 25}, c \in {0, 35, 45}, v \in {0, 20, 40}, f \in {0, 25}, d \in {0, 40} :
          b + c + v + f + d >= 90 =>
            \/ b > 0 /\ (c > 0 \/ v > 0 \/ f > 0 \/ d > 0)
            \/ c > 0 /\ (v > 0 \/ f > 0 \/ d > 0)
            \/ v > 0 /\ (f > 0 \/ d > 0)
            \/ f > 0 /\ d > 0
    OBVIOUS
  <2>2. \/ w.balance > 0
             /\ (w.counterparty > 0 \/ w.velocity > 0 \/ w.fanout > 0 \/ w.dormancy > 0)
        \/ w.counterparty > 0 /\ (w.velocity > 0 \/ w.fanout > 0 \/ w.dormancy > 0)
        \/ w.velocity > 0 /\ (w.fanout > 0 \/ w.dormancy > 0)
        \/ w.fanout > 0 /\ w.dormancy > 0
    BY <1>1, <1>2, <2>1
  <2>3. /\ w.balance > 0 => "balance" \in Fired
        /\ w.counterparty > 0 => "counterparty" \in Fired
        /\ w.velocity > 0 => "velocity" \in Fired
        /\ w.fanout > 0 => "fanout" \in Fired
        /\ w.dormancy > 0 => "dormancy" \in Fired
    BY <1>3 DEF Risk!Rules
  <2> HIDE DEF w, Fired
  <2> QED
    BY <2>2, <2>3
<1>5. IsFiniteSet(Fired)
  <2>1. IsFiniteSet({"balance"} \cup {"counterparty"})
    BY FS_Singleton, FS_AddElement
  <2>2. IsFiniteSet({"balance"} \cup {"counterparty"} \cup {"velocity"})
    BY <2>1, FS_AddElement
  <2>3. IsFiniteSet({"balance"} \cup {"counterparty"} \cup {"velocity"} \cup {"fanout"})
    BY <2>2, FS_AddElement
  <2>4. IsFiniteSet({"balance"} \cup {"counterparty"} \cup {"velocity"} \cup {"fanout"}
                    \cup {"dormancy"})
    BY <2>3, FS_AddElement
  <2>5. Fired \subseteq {"balance"} \cup {"counterparty"} \cup {"velocity"} \cup {"fanout"}
                       \cup {"dormancy"}
    BY DEF Risk!Triggered, Risk!Rules
  <2> QED
    BY <2>4, <2>5, FS_Subset
<1>6. PICK r \in Fired, q \in Fired : r # q
  BY <1>4
<1>7. Cardinality({r} \cup {q}) = 2
  <2>1. IsFiniteSet({r}) /\ Cardinality({r}) = 1
    BY FS_Singleton
  <2>2. q \notin {r}
    BY <1>6
  <2> HIDE DEF w, Fired
  <2> QED
    BY <2>1, <2>2, FS_AddElement
<1>8. {r} \cup {q} \subseteq Fired
  OBVIOUS
<1> QED
  BY <1>5, <1>7, <1>8, FS_Subset, FS_CardinalityType

-----------------------------------------------------------------------------
(* Sending *)

\* What process() does to the verdict and tells the caller.
LEMMA ProcessFacts ==
  ASSUME CallTypes, NEW k \in Keys, NEW o, NEW answer \in Engine!Answers,
         \/ Engine!Pays(k, o, answer) \/ Engine!Declines(k, o, answer)
         \/ Engine!Replays(k, answer) \/ Engine!Rejects(k, o, answer)
         \/ Engine!Breaks(answer)
  PROVE  /\ verdict' \in [Keys -> {"open", "paid", "declined"}]
         /\ \A l \in Keys : verdict[l] = "paid" => verdict'[l] = "paid"
         /\ answer = "COMPLETED" => verdict'[k] = "paid"
<1> USE DEF CallTypes, Engine!Decide
<1>1. CASE Engine!Pays(k, o, answer)
  BY <1>1 DEF Engine!Pays, Engine!Pay, Engine!Acknowledged
<1>2. CASE Engine!Declines(k, o, answer)
  BY <1>2 DEF Engine!Declines, Engine!Decline, Engine!Acknowledged
<1>3. CASE Engine!Replays(k, answer)
  BY <1>3 DEF Engine!Replays, Engine!table
<1>4. CASE Engine!Rejects(k, o, answer)
  BY <1>4 DEF Engine!Rejects, Engine!table
<1>5. CASE Engine!Breaks(answer)
  BY <1>5 DEF Engine!Breaks, Engine!table
<1> QED
  BY <1>1, <1>2, <1>3, <1>4, <1>5

\* A pass stands when settled challenges stand, and with it what it backs.
LEMMA BackedStands ==
  ASSUME \A h \in Raisers : Settled(h) => challenge'[h] = challenge[h]
  PROVE  /\ \A c \in Sends : Backed(c) => Backed(c)'
         /\ LargePaymentsAreAuthorised /\ UNCHANGED paid => LargePaymentsAreAuthorised'
BY DEF Settled, Raisers, Backed, LargePaymentsAreAuthorised

LEMMA InitGate == Init => GateInv
<1> SUFFICES ASSUME Init
             PROVE  GateInv
  OBVIOUS
<1> USE SecurityAssumption, SendAssumption DEF Init, SecurityInit
<1>1. StatusTypes
  BY DEF StatusTypes, WalletStatuses, ChallengeStatuses, ReleaseSteps, AnswerSteps, Raisers
<1>2. ReleasesRaiseOnce /\ ReleasesHaveProof /\ WrongAnswersAreHandled
  BY DEF ReleasesRaiseOnce, ReleasesHaveProof, WrongAnswersAreHandled, Raisers
<1>3. Guesses = {}
  BY DEF Guesses, Raisers
<1>4. GuessingEndsInReview
  <2>1. Cardinality(Guesses) = 0
    BY <1>3, FS_EmptySet
  <2>2. ~(Cardinality(Guesses) >= MaxAttempts)
    BY <2>1
  <2> QED
    BY <2>2 DEF GuessingEndsInReview, Guesses
<1>5. CallTypes
  BY DEF CallTypes, SendSteps, Engine!Init
<1>6. SendsRaiseOnce /\ LargeCallsAreBacked /\ PayersHaveTheKey /\ LargePaymentsAreAuthorised
  BY DEF SendsRaiseOnce, LargeCallsAreBacked, PayersHaveTheKey, LargePaymentsAreAuthorised,
     Raisers
<1>7. RepliesAreTrue /\ RiskDecisionsAreGrounded
  BY DEF RepliesAreTrue, RiskDecisionsAreGrounded
<1> QED
  BY <1>1, <1>2, <1>4, <1>5, <1>6, <1>7 DEF GateInv, SecurityInv, SendInv

\* A step of the wallet's security keeps what sending relies on.
LEMMA ElsewhereKept ==
  ASSUME GateInv, Elsewhere
  PROVE  GateInv'
<1> USE DEF GateInv, sending
<1>1. CASE SecurityNext /\ UNCHANGED sending
  <2>1. SecurityInv' /\ CallTypes'
    BY <1>1, SecurityKept DEF SendInv, CallTypes
  <2>2. SendsRaiseOnce'
    BY <1>1, ChallengesStand DEF SendInv, SendsRaiseOnce
  <2>3. LargeCallsAreBacked' /\ LargePaymentsAreAuthorised'
    BY <1>1, ChallengesStand, BackedStands DEF SendInv, LargeCallsAreBacked
  <2>4. PayersHaveTheKey' /\ RepliesAreTrue' /\ RiskDecisionsAreGrounded'
    BY <1>1 DEF SendInv, PayersHaveTheKey, RepliesAreTrue, RiskDecisionsAreGrounded
  <2> QED
    BY <2>1, <2>2, <2>3, <2>4 DEF SendInv
<1>2. ASSUME NEW k \in Keys, Engine!Forget(k),
             UNCHANGED <<security, paid, at, level, signs, flags, reply>>
      PROVE  GateInv'
  <2>1. UNCHANGED verdict
    BY <1>2 DEF Engine!Forget, Engine!table
  <2>2. SecurityInv'
    BY <1>2 DEF security, SecurityInv, StatusTypes, ReleasesRaiseOnce, ReleasesHaveProof,
       WrongAnswersAreHandled, GuessingEndsInReview, OwnerIsProven
  <2>3. SendInv'
    BY <1>2, <2>1 DEF security, SendInv, CallTypes, SendsRaiseOnce, LargeCallsAreBacked, Backed,
       PayersHaveTheKey, LargePaymentsAreAuthorised, RepliesAreTrue, RiskDecisionsAreGrounded
  <2> QED
    BY <2>2, <2>3
<1> QED
  BY <1>1, <1>2 DEF Elsewhere

\* The steps of a call after its gate leave the wallet's security alone.
LEMMA SecurityUntouched == SecurityInv /\ UNCHANGED security => SecurityInv'
BY DEF security, SecurityInv, StatusTypes, ReleasesRaiseOnce, ReleasesHaveProof,
   WrongAnswersAreHandled, GuessingEndsInReview, OwnerIsProven

LEMMA StartKept ==
  ASSUME GateInv, NEW c \in Sends, Start(c)
  PROVE  GateInv'
<1> USE SendAssumption DEF GateInv, SendInv, Start, Continue, Answer, CallTypes
<1>1. SecurityInv' /\ UNCHANGED security
  BY SecurityUntouched
<1>2. CallTypes'
  BY DEF SendSteps, Refusals
<1>3. SendsRaiseOnce'
  BY <1>1 DEF SendsRaiseOnce, security
<1>4. LargeCallsAreBacked'
  <2>1. ASSUME Amount[c] >= ChallengeAbsolute
        PROVE  RequiresChallenge(Payment(c))
    BY <2>1 DEF RequiresChallenge, Payment
  <2> QED
    BY <1>1, <2>1 DEF LargeCallsAreBacked, Backed, security
<1>5. PayersHaveTheKey' /\ LargePaymentsAreAuthorised'
  BY <1>1 DEF PayersHaveTheKey, LargePaymentsAreAuthorised, security
<1>6. RepliesAreTrue' /\ RiskDecisionsAreGrounded'
  BY DEF RepliesAreTrue, RiskDecisionsAreGrounded
<1> QED
  BY <1>1, <1>2, <1>3, <1>4, <1>5, <1>6

LEMMA ProveTransferKept ==
  ASSUME GateInv, NEW c \in Sends, ProveTransfer(c)
  PROVE  GateInv'
<1> USE SendAssumption DEF GateInv, SendInv, ProveTransfer, Continue, Answer, CallTypes
<1>1. CASE UNCHANGED challenge
  <2>1. UNCHANGED security /\ SecurityInv' /\ Authorised(c) /\ UNCHANGED reply
        /\ at' = [at EXCEPT ![c] = "assessing"]
    <3>1. ~Raise(c)
      BY <1>1 DEF Raise, SendsRaiseOnce, SecurityInv, StatusTypes, Raisers
    <3> QED
      BY <1>1, <3>1, SecurityUntouched DEF security
  <2>2. Backed(c)'
    BY <2>1 DEF Authorised, NewestPassed, Passed, Backed, security
  <2>3. SendsRaiseOnce' /\ LargeCallsAreBacked'
    BY <2>1, <2>2 DEF SendsRaiseOnce, LargeCallsAreBacked, Backed, security
  <2>4. PayersHaveTheKey' /\ LargePaymentsAreAuthorised'
    BY <2>1 DEF PayersHaveTheKey, LargePaymentsAreAuthorised, security
  <2>5. CallTypes' /\ RepliesAreTrue' /\ RiskDecisionsAreGrounded'
    BY <2>1 DEF SendSteps, RepliesAreTrue, RiskDecisionsAreGrounded
  <2> QED
    BY <2>1, <2>3, <2>4, <2>5
<1>2. CASE ~UNCHANGED challenge
  <2>1. challenge[c] = "ABSENT" /\ Raise(c)
        /\ at' = [at EXCEPT ![c] = "done"] /\ reply' = [reply EXCEPT ![c] = "CHALLENGED"]
    BY <1>2 DEF SendsRaiseOnce
  <2>2. /\ SecurityInv'
        /\ \A h \in Raisers : Settled(h) => challenge'[h] = challenge[h]
        /\ \A d \in Sends \ {c} : challenge'[d] = challenge[d]
    BY <2>1, RaiseKept
  <2>3. SendsRaiseOnce'
    BY <2>1, <2>2 DEF SendsRaiseOnce
  <2>4. LargeCallsAreBacked' /\ LargePaymentsAreAuthorised'
    BY <2>1, <2>2, BackedStands DEF LargeCallsAreBacked
  <2>5. CallTypes' /\ PayersHaveTheKey' /\ RepliesAreTrue' /\ RiskDecisionsAreGrounded'
    BY <2>1 DEF SendSteps, Refusals, PayersHaveTheKey, RepliesAreTrue, RiskDecisionsAreGrounded
  <2> QED
    BY <2>2, <2>3, <2>4, <2>5
<1> QED
  BY <1>1, <1>2

LEMMA AssessRiskKept ==
  ASSUME GateInv, NEW c \in Sends, AssessRisk(c)
  PROVE  GateInv'
<1> USE SendAssumption DEF GateInv, SendInv, AssessRisk, Continue, Answer, CallTypes
<1>1. SecurityInv' /\ UNCHANGED security
  BY SecurityUntouched
<1>2. CASE /\ at' = [at EXCEPT ![c] = "processing"]
           /\ UNCHANGED <<signs, flags, reply>>
  <2>1. CallTypes'
    BY <1>2 DEF SendSteps
  <2>2. SendsRaiseOnce' /\ LargeCallsAreBacked'
    BY <1>1, <1>2 DEF SendsRaiseOnce, LargeCallsAreBacked, Backed, security
  <2>3. PayersHaveTheKey' /\ LargePaymentsAreAuthorised'
    BY <1>1, <1>2 DEF PayersHaveTheKey, LargePaymentsAreAuthorised, security
  <2>4. RepliesAreTrue' /\ RiskDecisionsAreGrounded'
    BY <1>2 DEF RepliesAreTrue, RiskDecisionsAreGrounded
  <2> QED
    BY <1>1, <2>1, <2>2, <2>3, <2>4
<1>3. CASE /\ at' = [at EXCEPT ![c] = "done"]
           /\ reply' = [reply EXCEPT ![c] = "BLOCKED"]
           /\ \E n \in Nat : n >= 2 /\ signs' = [signs EXCEPT ![c] = n]
           /\ \A f \in flags' : f \in flags \/ f.transaction = "none"
  <2>1. CallTypes'
    BY <1>3 DEF SendSteps, Refusals
  <2>2. SendsRaiseOnce' /\ LargeCallsAreBacked'
    BY <1>1, <1>3 DEF SendsRaiseOnce, LargeCallsAreBacked, Backed, security
  <2>3. PayersHaveTheKey' /\ LargePaymentsAreAuthorised'
    BY <1>1, <1>3 DEF PayersHaveTheKey, LargePaymentsAreAuthorised, security
  <2>4. RepliesAreTrue' /\ RiskDecisionsAreGrounded'
    BY <1>3 DEF RepliesAreTrue, RiskDecisionsAreGrounded
  <2> QED
    BY <1>1, <2>1, <2>2, <2>3, <2>4
<1>4. ASSUME NEW s, Risk!ShouldBlock(Risk!Score(Risk!Weight(Payment(c), s))),
             signs' = [signs EXCEPT ![c] =
                         Cardinality(Risk!Triggered(Risk!Weight(Payment(c), s)))]
      PROVE  \E n \in Nat : n >= 2 /\ signs' = [signs EXCEPT ![c] = n]
  BY <1>4, NoSingleRuleBlocks
<1> QED
  BY <1>2, <1>3, <1>4

LEMMA SendProcessKept ==
  ASSUME GateInv, NEW c \in Sends, Process(c)
  PROVE  GateInv'
<1> USE SendAssumption DEF GateInv, SendInv
<1>1. SecurityInv' /\ UNCHANGED <<security, level, signs, flags>> /\ at[c] = "processing"
  BY SecurityUntouched DEF Process
<1>2. PICK answer \in Engine!Answers :
        /\ \/ /\ Engine!Pays(Key[c], Order(c), answer) /\ paid' = [paid EXCEPT ![Key[c]] = c]
           \/ /\ \/ Engine!Declines(Key[c], Order(c), answer)
                 \/ Engine!Replays(Key[c], answer)
                 \/ Engine!Rejects(Key[c], Order(c), answer)
                 \/ Engine!Breaks(answer)
              /\ UNCHANGED paid
        /\ reply' = [reply EXCEPT ![c] = answer]
        /\ at' \in {[at EXCEPT ![c] = "done"], [at EXCEPT ![c] = "flagging"]}
  BY DEF Process, Continue
<1>3. /\ verdict' \in [Keys -> {"open", "paid", "declined"}]
      /\ \A l \in Keys : verdict[l] = "paid" => verdict'[l] = "paid"
      /\ answer = "COMPLETED" => verdict'[Key[c]] = "paid"
  BY <1>2, ProcessFacts
<1>4. CallTypes'
  BY <1>1, <1>2, <1>3 DEF CallTypes, SendSteps
<1>5. SendsRaiseOnce' /\ LargeCallsAreBacked'
  BY <1>1, <1>2 DEF CallTypes, SendsRaiseOnce, LargeCallsAreBacked, Backed, security
<1>6. LargePaymentsAreAuthorised' /\ PayersHaveTheKey'
  <2>1. CASE UNCHANGED paid
    BY <1>1, <2>1 DEF LargePaymentsAreAuthorised, PayersHaveTheKey, security
  <2>2. CASE paid' = [paid EXCEPT ![Key[c]] = c]
    BY <1>1, <2>2 DEF CallTypes, LargePaymentsAreAuthorised, PayersHaveTheKey,
       LargeCallsAreBacked, Backed, security
  <2> QED
    BY <1>2, <2>1, <2>2
<1>7. RepliesAreTrue'
  BY <1>1, <1>2, <1>3 DEF CallTypes, RepliesAreTrue, Engine!Answers
<1>8. RiskDecisionsAreGrounded'
  <2>1. \A d \in Sends : reply'[d] = "BLOCKED" => reply[d] = "BLOCKED"
    BY <1>2 DEF CallTypes, Engine!Answers
  <2>2. \A f \in flags : f.transaction # "none" => verdict'[f.transaction] = "paid"
    BY <1>3 DEF CallTypes, RiskDecisionsAreGrounded
  <2> QED
    BY <1>1, <2>1, <2>2 DEF RiskDecisionsAreGrounded
<1> QED
  BY <1>1, <1>4, <1>5, <1>6, <1>7, <1>8

LEMMA FlagKept ==
  ASSUME GateInv, NEW c \in Sends, Flag(c)
  PROVE  GateInv'
<1> USE SendAssumption DEF GateInv, SendInv, Flag, Continue, CallTypes
<1>1. SecurityInv' /\ UNCHANGED security
  BY SecurityUntouched
<1>2. CallTypes'
  <2>1. FlagOf(c, reply[c] = "COMPLETED").transaction \in Keys \cup {"none"}
    BY DEF FlagOf
  <2>2. \A f \in flags' : f.transaction \in Keys \cup {"none"}
    BY <2>1
  <2> QED
    BY <2>2 DEF SendSteps
<1>3. SendsRaiseOnce' /\ LargeCallsAreBacked'
  BY <1>1 DEF SendsRaiseOnce, LargeCallsAreBacked, Backed, security
<1>4. PayersHaveTheKey' /\ LargePaymentsAreAuthorised'
  BY <1>1 DEF PayersHaveTheKey, LargePaymentsAreAuthorised, security
<1>5. RepliesAreTrue' /\ RiskDecisionsAreGrounded'
  BY DEF RepliesAreTrue, RiskDecisionsAreGrounded, FlagOf
<1> QED
  BY <1>1, <1>2, <1>3, <1>4, <1>5

\* Every step keeps the invariant.
LEMMA StepGate == GateInv /\ [Next]_vars => GateInv'
<1> SUFFICES ASSUME GateInv, [Next]_vars
             PROVE  GateInv'
  OBVIOUS
<1>1. CASE UNCHANGED vars
  BY <1>1, SecurityUntouched DEF vars, security, sending, GateInv, SendInv, CallTypes,
     SendsRaiseOnce, LargeCallsAreBacked, Backed, PayersHaveTheKey, LargePaymentsAreAuthorised,
     RepliesAreTrue, RiskDecisionsAreGrounded
<1> QED
  BY <1>1, StartKept, ProveTransferKept, AssessRiskKept, SendProcessKept, FlagKept, ElsewhereKept
     DEF Next

-----------------------------------------------------------------------------
(* Theorems *)

\* The inductive invariant holds.
THEOREM GatesHold == Spec => []GateInv
BY InitGate, StepGate, PTL DEF Spec

\* No large payment moves without a security answer for its key and amount,
\* whichever calls share the key: SendMoneyUseCase.execute.
THEOREM LargePaymentsNeedAnAnswer == Spec => []LargePaymentsAreAuthorised
<1>1. GateInv => LargePaymentsAreAuthorised
  BY DEF GateInv, SendInv
<1> QED
  BY <1>1, GatesHold, PTL

\* A block rests on two rules at least, and a flag that names a transaction
\* names one that has moved money: RiskEngineService.
THEOREM RiskIsGrounded == Spec => []RiskDecisionsAreGrounded
<1>1. GateInv => RiskDecisionsAreGrounded
  BY DEF GateInv, SendInv
<1> QED
  BY <1>1, GatesHold, PTL

\* Any number of wrong answers, spread over any challenges and calls, ends in
\* review: AnswerSecurityChallengeUseCase.
THEOREM GuessersAreStopped == Spec => []GuessingEndsInReview
<1>1. GateInv => GuessingEndsInReview
  BY DEF GateInv, SecurityInv
<1> QED
  BY <1>1, GatesHold, PTL

\* A wallet that a wrong answer has stopped pays again only after its owner has
\* answered: freezeAfterWrongAnswer and unfreeze.
THEOREM WrongAnswersStop == Spec => []WrongAnswerStopsTheWallet
<1>1. GateInv => WrongAnswerStopsTheWallet
  BY DEF GateInv, SecurityInv, WrongAnswersAreHandled, WrongAnswerStopsTheWallet, OwnerIsProven
<1> QED
  BY <1>1, GatesHold, PTL

\* Who releases a wallet has answered an unfreeze challenge, and no step takes
\* a wallet out of review: WalletSecurityUseCases.unfreeze.
THEOREM ReleasesNeedProof == Spec => ReleasesAreProven
<1> DEFINE Proven ==
      /\ wallet = "UNDER_REVIEW" => wallet' = wallet
      /\ wallet = "FROZEN" /\ wallet' = "ACTIVE" =>
           \E h \in Releases : challenge[h] = "PASSED"
<1>1. GateInv /\ [Next]_vars => [Proven]_security
  <2> SUFFICES ASSUME GateInv, [Next]_vars, wallet' # wallet
               PROVE  Proven
    BY DEF security
  <2>1. SecurityNext
    BY DEF Next, Start, ProveTransfer, AssessRisk, Process, Flag, Elsewhere, vars, security
  <2> QED
    BY <2>1, StatusSteps DEF GateInv, OwnerIsProven
<1> QED
  BY <1>1, GatesHold, PTL DEF Spec, ReleasesAreProven
-----------------------------------------------------------------------------
(***************************************************************************)
(* What the balance cache and the rate limiter keep to, for any number of  *)
(* processes, screens, transfers and requests, any clock and any outages.  *)
(* Both are kept by dates: an entry of the cache is dated by the commit    *)
(* that its version missed, a counter of the limiter by the window that    *)
(* it counts.                                                              *)
(***************************************************************************)

-----------------------------------------------------------------------------
(* The balance cache *)

Callers == Views \cup Transfers
Done == {t \in Transfers : stage[t] # "new"}
Versions == 0..Cardinality(Transfers)

\* A fill has not taken longer than MaxDelay, and what it read was the balance
\* when it read it.
FillsAreDated ==
  \A v \in Views :
    stage[v] \in {"storing", "setting"} =>
      /\ held[v] \in 0..balance
      /\ readAt[v] <= now /\ now <= readAt[v] + MaxDelay
      /\ held[v] # balance => readAt[v] <= ended[held[v]]

\* An entry lives at most a TTL and its jitter, and one whose version has been
\* superseded was filled by a reader of that version.
EntryIsDated ==
  entry # Nothing =>
    /\ entry.version \in 0..balance /\ entry.expires \in Nat
    /\ now < entry.expires /\ entry.expires <= now + Ttl + Jitter
    /\ entry.version # balance =>
         entry.expires <= ended[entry.version] + Ttl + Jitter + MaxDelay

\* The inductive invariant of the cache.
CacheInv ==
  /\ now \in Nat /\ balance \in Nat
  /\ DOMAIN stage = Callers
  /\ held \in [Views -> Nat] /\ readAt \in [Views -> Nat]
  /\ ended \in [Versions -> Nat]
  /\ balance = Cardinality(Done)
  /\ FillsAreDated /\ EntryIsDated

\* A version that was superseded is one that was dated.
LEMMA CommitsAreCounted ==
  ASSUME CacheInv
  PROVE  /\ balance \in Versions /\ IsFiniteSet(Done) /\ Cardinality(Transfers) \in Nat
         /\ Done # Transfers => balance < Cardinality(Transfers)
<1>1. Done \subseteq Transfers /\ IsFiniteSet(Transfers)
  BY CacheAssumption DEF Done
<1>2. IsFiniteSet(Done) /\ Cardinality(Done) <= Cardinality(Transfers)
      /\ (Cardinality(Done) = Cardinality(Transfers) => Done = Transfers)
  BY <1>1, FS_Subset
<1>3. Cardinality(Done) \in Nat /\ Cardinality(Transfers) \in Nat
  BY <1>1, <1>2, FS_CardinalityType
<1> QED
  BY <1>2, <1>3 DEF CacheInv, Versions

\* What the end of a command leaves in the cache.
LEMMA EndLeaves ==
  ASSUME NEW c, NEW results, Ends(c, results)
  PROVE  entry' \in results \/ entry' = entry
BY DEF Ends

\* A step of one screen: the wallet and the transfers are left alone.
LEMMA ScreenKept ==
  ASSUME CacheInv, NEW v \in Views, UNCHANGED <<now, balance, ended>>,
         DOMAIN stage' = Callers, \A c \in Callers \ {v} : stage'[c] = stage[c],
         held' \in [Views -> Nat], readAt' \in [Views -> Nat],
         \A u \in Views \ {v} : held'[u] = held[u] /\ readAt'[u] = readAt[u],
         stage'[v] \in {"storing", "setting"} =>
           \/ stage[v] \in {"storing", "setting"} /\ held'[v] = held[v] /\ readAt'[v] = readAt[v]
           \/ held'[v] = balance /\ readAt'[v] = now,
         EntryIsDated'
  PROVE  CacheInv'
<1>1. Done' = Done
  BY CacheAssumption DEF Done, Callers
<1>2. FillsAreDated'
  BY BreakerAssumption DEF CacheInv, FillsAreDated, Callers
<1> QED
  BY <1>1, <1>2 DEF CacheInv

LEMMA ViewKept ==
  ASSUME CacheInv, NEW v \in Views, ViewStep(v), UNCHANGED now
  PROVE  CacheInv'
<1> USE DEF Step, Show
<1>1. /\ UNCHANGED <<now, balance, ended>>
      /\ DOMAIN stage' = Callers /\ \A c \in Callers \ {v} : stage'[c] = stage[c]
      /\ held' \in [Views -> Nat] /\ readAt' \in [Views -> Nat]
      /\ \A u \in Views \ {v} : held'[u] = held[u] /\ readAt'[u] = readAt[u]
  BY DEF ViewStep, LookUp, Get, Load, Store, Set, CacheInv, Callers
<1>2. v \in Callers
  BY DEF Callers
<1>3. CASE ~Set(v)
  <2>1. entry' = entry
    BY <1>3, EndLeaves DEF ViewStep, LookUp, Get, Load, Store
  <2>2. stage'[v] \in {"storing", "setting"} =>
          \/ stage[v] \in {"storing", "setting"} /\ held'[v] = held[v] /\ readAt'[v] = readAt[v]
          \/ held'[v] = balance /\ readAt'[v] = now
    BY <1>2, <1>3 DEF ViewStep, LookUp, Get, Load, Store, CacheInv
  <2>3. EntryIsDated'
    BY <1>1, <2>1 DEF CacheInv, EntryIsDated
  <2> QED
    BY <1>1, <2>2, <2>3, ScreenKept
<1>4. CASE Set(v)
  <2>1. stage[v] = "setting" /\ stage'[v] = "new"
    BY <1>2, <1>4 DEF Set, CacheInv
  <2>2. entry' = entry \/ \E j \in 0..Jitter : entry' = Entry(held[v], Ttl + j)
    BY <1>4, EndLeaves DEF Set
  <2>3. ASSUME NEW j \in 0..Jitter, entry' = Entry(held[v], Ttl + j)
        PROVE  EntryIsDated'
    <3>1. entry'.version = held[v] /\ entry'.expires = now + (Ttl + j)
      BY <2>3 DEF Entry
    <3>2. /\ held[v] \in 0..balance /\ readAt[v] \in Nat /\ now \in Nat
          /\ now <= readAt[v] + MaxDelay
          /\ held[v] # balance => readAt[v] <= ended[held[v]]
      BY <2>1 DEF CacheInv, FillsAreDated
    <3>3. held[v] \in Versions /\ ended[held[v]] \in Nat
      BY <3>2, CommitsAreCounted DEF CacheInv, Versions
    <3> QED
      BY <1>1, <3>1, <3>2, <3>3, CacheAssumption, BreakerAssumption DEF EntryIsDated
  <2>4. EntryIsDated'
    BY <1>1, <2>2, <2>3 DEF CacheInv, EntryIsDated
  <2> QED
    BY <1>1, <2>1, <2>4, ScreenKept
<1> QED
  BY <1>3, <1>4

\* A commit dates the version that it supersedes, which everybody who holds it
\* has read before.
LEMMA CommitKept ==
  ASSUME CacheInv, NEW t \in Transfers, Commit(t), UNCHANGED now
  PROVE  CacheInv'
<1> USE DEF Step
<1>1. /\ stage[t] = "new" /\ stage'[t] = "invalidating" /\ t \in Callers
      /\ DOMAIN stage' = Callers /\ \A c \in Callers \ {t} : stage'[c] = stage[c]
      /\ balance' = balance + 1 /\ UNCHANGED <<entry, held, readAt>>
  BY DEF Commit, CacheInv, Callers
<1>2. t \notin Done /\ Done' = Done \cup {t} /\ Done # Transfers
  BY <1>1 DEF Done, Callers
<1>3. balance \in Versions /\ IsFiniteSet(Done)
  BY CommitsAreCounted
<1>4. balance' = Cardinality(Done')
  BY <1>1, <1>2, <1>3, FS_AddElement DEF CacheInv
<1>5. /\ ended' \in [Versions -> Nat] /\ ended'[balance] = now
      /\ \A i \in Versions \ {balance} : ended'[i] = ended[i]
  BY <1>3 DEF Commit, CacheInv
<1>6. \A i \in 0..balance : i \in Versions
  BY CommitsAreCounted DEF Versions, CacheInv
<1>7. FillsAreDated'
  <2> SUFFICES ASSUME NEW v \in Views, stage'[v] \in {"storing", "setting"}
               PROVE  /\ held'[v] \in 0..balance'
                      /\ readAt'[v] <= now' /\ now' <= readAt'[v] + MaxDelay
                      /\ held'[v] # balance' => readAt'[v] <= ended'[held'[v]]
    BY DEF FillsAreDated
  <2>1. stage[v] \in {"storing", "setting"}
    BY <1>1, CacheAssumption DEF Callers
  <2>2. /\ held[v] \in 0..balance /\ readAt[v] <= now /\ now <= readAt[v] + MaxDelay
        /\ held[v] # balance => readAt[v] <= ended[held[v]]
    BY <2>1 DEF CacheInv, FillsAreDated
  <2> QED
    BY <1>1, <1>5, <1>6, <2>2 DEF CacheInv
<1>8. EntryIsDated'
  <2> SUFFICES ASSUME entry # Nothing
               PROVE  EntryIsDated'
    BY <1>1 DEF EntryIsDated
  <2>1. /\ entry.version \in 0..balance /\ entry.expires \in Nat
        /\ now < entry.expires /\ entry.expires <= now + Ttl + Jitter
        /\ entry.version # balance =>
             entry.expires <= ended[entry.version] + Ttl + Jitter + MaxDelay
    BY DEF CacheInv, EntryIsDated
  <2>2. entry.expires <= ended'[entry.version] + Ttl + Jitter + MaxDelay
    BY <1>5, <1>6, <2>1, CacheAssumption, BreakerAssumption DEF CacheInv
  <2> QED
    BY <1>1, <2>1, <2>2 DEF CacheInv, EntryIsDated
<1> QED
  BY <1>1, <1>4, <1>5, <1>7, <1>8 DEF CacheInv

LEMMA DeletionKept ==
  ASSUME CacheInv, NEW t \in Transfers, Invalidate(t) \/ Unlink(t), UNCHANGED now
  PROVE  CacheInv'
<1> USE DEF Step
<1>1. /\ UNCHANGED <<balance, ended, held, readAt>>
      /\ stage[t] # "new" /\ stage'[t] \in {"unlinking", "done"} /\ t \in Callers
      /\ DOMAIN stage' = Callers /\ \A c \in Callers \ {t} : stage'[c] = stage[c]
  BY DEF Invalidate, Unlink, CacheInv, Callers
<1>2. Done' = Done
  BY <1>1 DEF Done, Callers
<1>3. entry' \in {entry, Nothing}
  BY EndLeaves DEF Invalidate, Unlink
<1>4. EntryIsDated'
  BY <1>1, <1>3 DEF CacheInv, EntryIsDated
<1>5. FillsAreDated'
  BY <1>1, CacheAssumption DEF CacheInv, FillsAreDated, Callers
<1> QED
  BY <1>1, <1>2, <1>4, <1>5 DEF CacheInv

\* The clock ticks only while no fill is late, and drops what has expired.
LEMMA TickKeepsCache ==
  ASSUME CacheInv, FillsInTime, now' = now + 1, ExpireEntry
  PROVE  CacheInv'
<1>1. UNCHANGED <<balance, ended, stage, held, readAt>> /\ now' \in Nat
  BY DEF ExpireEntry, CacheInv
<1>2. Done' = Done
  BY <1>1 DEF Done
<1>3. FillsAreDated'
  BY <1>1, BreakerAssumption DEF CacheInv, FillsAreDated, FillsInTime
<1>4. EntryIsDated'
  <2>1. entry' = Nothing \/ (entry' = entry /\ entry # Nothing /\ ~(entry.expires <= now + 1))
    BY DEF ExpireEntry
  <2> QED
    BY <1>1, <2>1, CacheAssumption DEF CacheInv, EntryIsDated
<1> QED
  BY <1>1, <1>2, <1>3, <1>4 DEF CacheInv

LEMMA CacheUnchanged ==
  ASSUME CacheInv, UNCHANGED <<now, cache>>
  PROVE  CacheInv'
BY DEF cache, CacheInv, Done, FillsAreDated, EntryIsDated

LEMMA CacheStep == CacheInv /\ [LayerNext]_layer => CacheInv'
<1> SUFFICES ASSUME CacheInv, [LayerNext]_layer
             PROVE  CacheInv'
  OBVIOUS
<1>1. CASE ServiceNext /\ UNCHANGED <<cache, limiter>>
  BY <1>1, CacheUnchanged DEF ServiceNext, GoDown, Recover, CoolDown, Ping
<1>2. ASSUME NEW v \in Views, ViewStep(v), UNCHANGED now
      PROVE  CacheInv'
  BY <1>2, ViewKept
<1>3. ASSUME NEW t \in Transfers, TransferStep(t), UNCHANGED now
      PROVE  CacheInv'
  BY <1>3, CommitKept, DeletionKept DEF TransferStep
<1>4. CASE UNCHANGED <<now, cache>>
  BY <1>4, CacheUnchanged
<1>5. CASE Tick
  BY <1>5, TickKeepsCache DEF Tick
<1>6. CASE UNCHANGED layer
  BY <1>4, <1>6 DEF layer, service
<1> QED
  BY <1>1, <1>2, <1>3, <1>4, <1>5, <1>6 DEF LayerNext

\* The balance that the wallet screen shows is at most a TTL, its jitter and
\* one slow fill old, however fills, commits and lost deletions interleave:
\* getBalance and invalidateWalletCaches.
THEOREM ScreensAreRecent == LayerSpec => []ShownBalancesAreRecent
<1>1. LayerInit => CacheInv
  <2> SUFFICES ASSUME LayerInit
               PROVE  CacheInv
    OBVIOUS
  <2>1. now = 0 /\ balance = 0 /\ entry = Nothing
    BY DEF LayerInit, ServiceInit, CacheInit
  <2>2. Done = {}
    BY DEF LayerInit, CacheInit, Done
  <2>3. Cardinality(Done) = 0
    BY <2>2, FS_EmptySet
  <2>4. \A v \in Views : stage[v] = "new"
    BY DEF LayerInit, CacheInit
  <2> QED
    BY <2>1, <2>3, <2>4
    DEF LayerInit, CacheInit, CacheInv, Callers, Versions, FillsAreDated, EntryIsDated
<1>2. CacheInv => ShownBalancesAreRecent
  <2> SUFFICES ASSUME CacheInv, entry # Nothing, entry.version # balance
               PROVE  now <= ended[entry.version] + Ttl + Jitter + MaxDelay
    BY DEF ShownBalancesAreRecent
  <2>1. /\ entry.version \in 0..balance /\ entry.expires \in Nat /\ now < entry.expires
        /\ entry.expires <= ended[entry.version] + Ttl + Jitter + MaxDelay
    BY DEF CacheInv, EntryIsDated
  <2>2. ended[entry.version] \in Nat /\ now \in Nat
    BY <2>1, CommitsAreCounted DEF CacheInv, Versions
  <2> QED
    BY <2>1, <2>2, CacheAssumption, BreakerAssumption
<1> QED
  BY <1>1, <1>2, CacheStep, PTL DEF LayerSpec

-----------------------------------------------------------------------------
(* The rate limiter *)

\* A product of windows and parts, once and for all.
LEMMA Products ==
  ASSUME NEW a \in Nat, NEW b \in Nat, NEW p \in Nat \ {0}
  PROVE  /\ a * p \in Nat
         /\ (a + 1) * p = a * p + p /\ (a + 2) * p = a * p + p + p
         /\ a * p < b * p => a < b
         /\ a <= b => a * p <= b * p
OBVIOUS

\* The window of a time begins before it and ends after it.
LEMMA WindowHolds ==
  ASSUME NEW t \in Nat
  PROVE  /\ Window(t) \in Nat /\ Part(t) \in 0..(Parts - 1)
         /\ Window(t) * Parts <= t /\ t < (Window(t) + 1) * Parts
<1>1. /\ Window(t) \in Nat /\ Part(t) \in 0..(Parts - 1)
      /\ t = Window(t) * Parts + Part(t)
  BY LimiterAssumption DEF Window, Part
<1> QED
  BY <1>1, LimiterAssumption, Products

LEMMA WindowsAreOrdered ==
  ASSUME NEW s \in Nat, NEW t \in Nat, s <= t
  PROVE  Window(s) <= Window(t)
<1>1. Window(s) \in Nat /\ Window(t) \in Nat /\ Window(t) + 1 \in Nat
  BY WindowHolds
<1>2. Window(s) * Parts < (Window(t) + 1) * Parts
  <2>1. Window(s) * Parts <= s /\ t < (Window(t) + 1) * Parts
    BY WindowHolds
  <2>2. Window(s) * Parts \in Nat /\ (Window(t) + 1) * Parts \in Nat
    BY <1>1, LimiterAssumption, Products
  <2> QED
    BY <2>1, <2>2
<1>3. Window(s) < Window(t) + 1
  BY <1>1, <1>2, LimiterAssumption, Products
<1> QED
  BY <1>1, <1>3

\* The end of the window after w, until which w counts.
Until(w) == (w + 2) * Parts

\* A command that was sent is not late, and its window is one of the model's.
CommandsAreDated ==
  \A q \in Requests :
    /\ sentAt[q] \in 0..now
    /\ place[q] = "sent" => now <= sentAt[q] + MaxDelay

\* A counter lives until its window no longer counts, and meanwhile counts
\* whoever was let through.
CountersLast ==
  \A w \in Windows :
    /\ count[w] \in Nat /\ expires[w] \in Nat /\ admitted[w] \in Nat
    /\ count[w] > 0 => Until(w) <= expires[w]
    /\ now < Until(w) => admitted[w] <= count[w]

\* The inductive invariant of the limiter.
LimiterInv ==
  /\ now \in 0..MaxTime
  /\ DOMAIN place = Requests /\ DOMAIN sentAt = Requests
  /\ DOMAIN count = Windows /\ DOMAIN expires = Windows /\ DOMAIN admitted = Windows
  /\ CommandsAreDated /\ CountersLast

\* The window of a request that was sent, and that of the clock.
LEMMA SentWindow ==
  ASSUME LimiterInv, NEW q \in Requests, place[q] = "sent"
  PROVE  /\ sentAt[q] \in Nat /\ now \in Nat
         /\ Window(sentAt[q]) \in Windows
         /\ Window(sentAt[q]) * Parts <= now /\ now < Until(Window(sentAt[q]))
<1> DEFINE s == sentAt[q]
           w == Window(s)
<1>1. s \in Nat /\ now \in Nat /\ s <= now /\ now <= MaxTime /\ now <= s + MaxDelay
  BY BreakerAssumption DEF LimiterInv, CommandsAreDated
<1>2. w \in Nat /\ w * Parts <= s /\ s < (w + 1) * Parts
  BY <1>1, WindowHolds
<1>3. w <= Window(MaxTime) /\ Window(MaxTime) \in Nat
  BY <1>1, BreakerAssumption, WindowsAreOrdered, WindowHolds
<1>4. w * Parts \in Nat /\ (w + 1) * Parts = w * Parts + Parts /\ Until(w) = w * Parts + Parts + Parts
  BY <1>2, LimiterAssumption, Products DEF Until
<1> HIDE DEF w, s
<1>5. w \in Windows /\ w * Parts <= now /\ now < Until(w)
  BY <1>1, <1>2, <1>3, <1>4, LimiterAssumption, BreakerAssumption DEF Windows
<1> QED
  BY <1>1, <1>5 DEF w, s

\* What the script counts is at least what it let through.
LEMMA ScriptKept ==
  ASSUME LimiterInv, NEW q \in Requests, place[q] = "sent", NEW allowed \in BOOLEAN,
         Script(q, allowed), UNCHANGED now,
         \/ UNCHANGED admitted
         \/ /\ allowed
            /\ admitted' = [admitted EXCEPT ![Window(sentAt[q])] = @ + 1]
  PROVE  /\ DOMAIN count' = Windows /\ DOMAIN expires' = Windows /\ DOMAIN admitted' = Windows
         /\ CountersLast'
<1> DEFINE w == Window(sentAt[q])
<1>1. /\ w \in Windows /\ w * Parts <= now /\ now \in Nat
  BY SentWindow
<1>2. Until(w) <= now + Lifetime /\ now + Lifetime \in Nat
  <2>1. w \in Nat
    BY <1>1 DEF Windows
  <2>2. Until(w) = w * Parts + Parts + Parts /\ w * Parts \in Nat
    BY <2>1, LimiterAssumption, Products DEF Until
  <2> QED
    BY <1>1, <2>2, LimiterAssumption DEF Lifetime
<1>3. CASE ~allowed
  BY <1>3 DEF Script, LimiterInv, CountersLast
<1>4. CASE allowed
  <2>1. /\ count' = [count EXCEPT ![w] = @ + 1]
        /\ expires' = IF count[w] = 0 THEN [expires EXCEPT ![w] = now + Lifetime] ELSE expires
    BY <1>4 DEF Script
  <2>2. /\ DOMAIN count' = Windows /\ DOMAIN expires' = Windows /\ DOMAIN admitted' = Windows
        /\ count'[w] = count[w] + 1 /\ admitted'[w] \in {admitted[w], admitted[w] + 1}
        /\ expires'[w] = IF count[w] = 0 THEN now + Lifetime ELSE expires[w]
        /\ \A x \in Windows \ {w} :
             count'[x] = count[x] /\ expires'[x] = expires[x] /\ admitted'[x] = admitted[x]
    BY <1>1, <2>1 DEF LimiterInv
  <2>3. /\ count[w] \in Nat /\ expires[w] \in Nat /\ admitted[w] \in Nat
        /\ count[w] > 0 => Until(w) <= expires[w]
        /\ now < Until(w) => admitted[w] <= count[w]
    BY <1>1 DEF LimiterInv, CountersLast
  <2>4. /\ count'[w] \in Nat /\ expires'[w] \in Nat /\ admitted'[w] \in Nat
        /\ Until(w) <= expires'[w]
        /\ now < Until(w) => admitted'[w] <= count'[w]
    <3> HIDE DEF w
    <3> QED
      BY <1>2, <2>2, <2>3
  <2> HIDE DEF w
  <2>5. ASSUME NEW x \in Windows
        PROVE  /\ count'[x] \in Nat /\ expires'[x] \in Nat /\ admitted'[x] \in Nat
               /\ count'[x] > 0 => Until(x) <= expires'[x]
               /\ now < Until(x) => admitted'[x] <= count'[x]
    <3>1. CASE x = w
      BY <2>4, <3>1
    <3>2. CASE x # w
      BY <2>2, <3>2 DEF LimiterInv, CountersLast
    <3> QED
      BY <3>1, <3>2
  <2> QED
    BY <2>2, <2>5 DEF CountersLast
<1> QED
  BY <1>3, <1>4

LEMMA SendKept ==
  ASSUME LimiterInv, NEW q \in Requests, Send(q), UNCHANGED now
  PROVE  LimiterInv'
<1>1. /\ UNCHANGED <<count, expires, admitted>>
      /\ DOMAIN place' = Requests /\ DOMAIN sentAt' = Requests
      /\ \A r \in Requests \ {q} : place'[r] = place[r] /\ sentAt'[r] = sentAt[r]
      /\ sentAt'[q] = now \/ (sentAt'[q] = sentAt[q] /\ place'[q] # "sent")
  BY DEF Send, ConsumeFallback, Place, LimiterInv
<1>2. CommandsAreDated'
  BY <1>1, BreakerAssumption DEF LimiterInv, CommandsAreDated
<1> QED
  BY <1>1, <1>2 DEF LimiterInv, CountersLast

LEMMA ConsumeKept ==
  ASSUME LimiterInv, NEW q \in Requests, Consume(q), UNCHANGED now
  PROVE  LimiterInv'
<1>1. /\ place[q] = "sent" /\ place'[q] # "sent" /\ sentAt' = [sentAt EXCEPT ![q] = 0]
      /\ DOMAIN place' = Requests
      /\ \A r \in Requests \ {q} : place'[r] = place[r]
  BY DEF Consume, ConsumeFallback, Place, LimiterInv
<1>2. CommandsAreDated' /\ DOMAIN sentAt' = Requests
  BY <1>1 DEF LimiterInv, CommandsAreDated
<1>3. /\ DOMAIN count' = Windows /\ DOMAIN expires' = Windows /\ DOMAIN admitted' = Windows
      /\ CountersLast'
  <2>1. CASE up
    <3>1. PICK allowed \in BOOLEAN :
            /\ Script(q, allowed)
            /\ admitted' = IF allowed THEN [admitted EXCEPT ![Window(sentAt[q])] = @ + 1]
                           ELSE admitted
      BY <2>1 DEF Consume
    <3> QED
      BY <1>1, <3>1, ScriptKept
  <2>2. CASE ~up
    <3>1. UNCHANGED admitted
      BY <2>2 DEF Consume, ConsumeFallback
    <3>2. CASE UNCHANGED <<count, expires>>
      BY <3>1, <3>2 DEF LimiterInv, CountersLast
    <3>3. CASE \E allowed \in BOOLEAN : Script(q, allowed)
      BY <1>1, <3>1, <3>3, ScriptKept
    <3> QED
      BY <2>2, <3>2, <3>3 DEF Consume
  <2> QED
    BY <2>1, <2>2
<1> QED
  BY <1>1, <1>2, <1>3 DEF LimiterInv

\* A counter that expires is one whose window no longer counts.
LEMMA TickKeepsLimiter ==
  ASSUME LimiterInv, now < MaxTime, CommandsInTime, now' = now + 1, ExpireCounters
  PROVE  LimiterInv'
<1>1. /\ now \in Nat /\ now' \in 0..MaxTime
      /\ UNCHANGED <<place, sentAt, admitted>>
      /\ DOMAIN count' = Windows /\ DOMAIN expires' = Windows
  BY BreakerAssumption DEF LimiterInv, ExpireCounters
<1>2. CommandsAreDated'
  BY <1>1, BreakerAssumption DEF LimiterInv, CommandsAreDated, CommandsInTime
<1>3. ASSUME NEW w \in Windows
      PROVE  /\ count'[w] \in Nat /\ expires'[w] \in Nat /\ admitted'[w] \in Nat
             /\ count'[w] > 0 => Until(w) <= expires'[w]
             /\ now' < Until(w) => admitted'[w] <= count'[w]
  <2>1. /\ count[w] \in Nat /\ expires[w] \in Nat /\ admitted[w] \in Nat
        /\ count[w] > 0 => Until(w) <= expires[w]
        /\ now < Until(w) => admitted[w] <= count[w]
    BY DEF LimiterInv, CountersLast
  <2>2. Until(w) \in Nat
    BY LimiterAssumption, Products DEF Until, Windows
  <2>3. CASE expires[w] <= now + 1
    <3>1. count'[w] = 0 /\ expires'[w] = 0
      BY <2>3 DEF ExpireCounters
    <3> QED
      BY <1>1, <2>1, <2>2, <2>3, <3>1
  <2>4. CASE ~(expires[w] <= now + 1)
    <3>1. count'[w] = count[w] /\ expires'[w] = expires[w]
      BY <2>4 DEF ExpireCounters
    <3> QED
      BY <1>1, <2>1, <2>2, <3>1
  <2> QED
    BY <2>3, <2>4
<1> QED
  BY <1>1, <1>2, <1>3 DEF LimiterInv, CountersLast

LEMMA LimiterUnchanged ==
  ASSUME LimiterInv, UNCHANGED <<now, limiter>>
  PROVE  LimiterInv'
BY DEF limiter, LimiterInv, CommandsAreDated, CountersLast

LEMMA LimiterStep == LimiterInv /\ [LayerNext]_layer => LimiterInv'
<1> SUFFICES ASSUME LimiterInv, [LayerNext]_layer
             PROVE  LimiterInv'
  OBVIOUS
<1>1. CASE ServiceNext /\ UNCHANGED <<cache, limiter>>
  BY <1>1, LimiterUnchanged DEF ServiceNext, GoDown, Recover, CoolDown, Ping
<1>2. ASSUME NEW q \in Requests, Send(q) \/ Consume(q), UNCHANGED now
      PROVE  LimiterInv'
  BY <1>2, SendKept, ConsumeKept
<1>3. CASE UNCHANGED <<now, limiter>>
  BY <1>3, LimiterUnchanged
<1>4. CASE Tick
  BY <1>4, TickKeepsLimiter DEF Tick
<1>5. CASE UNCHANGED layer
  BY <1>3, <1>5 DEF layer, service
<1> QED
  BY <1>1, <1>2, <1>3, <1>4, <1>5 DEF LayerNext

\* The counters of this window and the last, as the script reads them, hide
\* nobody who was let through.
LEMMA EstimateIsFair ==
  ASSUME LimiterInv, NEW q \in Requests, place[q] = "sent", Script(q, TRUE)
  PROVE  /\ admitted[Window(sentAt[q])] < Limit
         /\ Window(now) = Window(sentAt[q]) => Estimated(admitted, sentAt[q]) < Limit * Parts
<1> DEFINE t == sentAt[q]
           w == Window(t)
           n == Parts - Part(t)
<1>1. t \in Nat /\ now \in Nat /\ w \in Windows /\ now < Until(w)
  BY SentWindow
<1>2. w \in Nat /\ n \in Nat /\ n > 0 /\ Parts \in Nat /\ Parts > 0 /\ Limit \in Nat
  BY <1>1, WindowHolds, LimiterAssumption
<1>3. admitted[w] <= count[w] /\ admitted[w] \in Nat /\ count[w] \in Nat
  BY <1>1 DEF LimiterInv, CountersLast
<1>4. Previous(count, w) * n + count[w] * Parts < Limit * Parts
  BY DEF Script, Estimated
<1>5. Previous(count, w) \in Nat /\ Previous(admitted, w) \in Nat
      /\ (Window(now) = w => Previous(admitted, w) <= Previous(count, w))
  <2>1. CASE w = 0
    BY <2>1 DEF Previous
  <2>2. CASE w # 0
    <3>1. w - 1 \in Windows /\ w - 1 \in Nat
      <4>1. Window(MaxTime) \in Nat
        BY BreakerAssumption, WindowHolds
      <4> HIDE DEF w
      <4> QED
        BY <1>1, <1>2, <2>2, <4>1 DEF Windows
    <3>2. now < (Window(now) + 1) * Parts
      BY <1>1, WindowHolds
    <3>3. Until(w - 1) = (w + 1) * Parts
      BY <1>2 DEF Until
    <3>4. /\ count[w - 1] \in Nat /\ admitted[w - 1] \in Nat
          /\ now < Until(w - 1) => admitted[w - 1] <= count[w - 1]
      BY <3>1 DEF LimiterInv, CountersLast
    <3> HIDE DEF w
    <3> QED
      BY <2>2, <3>2, <3>3, <3>4 DEF Previous
  <2> QED
    BY <2>1, <2>2
<1> DEFINE c == Previous(count, w)
           a == Previous(admitted, w)
<1>6. /\ c * n \in Nat /\ a * n \in Nat /\ count[w] * Parts \in Nat /\ admitted[w] * Parts \in Nat
      /\ admitted[w] * Parts <= count[w] * Parts /\ Limit * Parts \in Nat
      /\ a <= c => a * n <= c * n
  BY <1>2, <1>3, <1>5, Products
<1>7. admitted[w] * Parts < Limit * Parts
  BY <1>4, <1>6
<1>8. admitted[w] < Limit
  BY <1>2, <1>3, <1>7, Products
<1>9. Window(now) = w => a * n + admitted[w] * Parts < Limit * Parts
  BY <1>4, <1>5, <1>6
<1> QED
  BY <1>8, <1>9 DEF Estimated

\* The limit has no gap where two windows meet, whatever expires, arrives late
\* or is lost: the Lua script and the TTL of its counters.
THEOREM LimitSlides == LayerSpec => SlidingWindowHolds
<1>1. LayerInit => LimiterInv
  <2> SUFFICES ASSUME LayerInit
               PROVE  LimiterInv
    OBVIOUS
  <2>1. now = 0 /\ now \in 0..MaxTime
    BY BreakerAssumption DEF LayerInit, ServiceInit
  <2> QED
    BY <2>1 DEF LayerInit, LimiterInit, LimiterInv, CommandsAreDated, CountersLast
<1>2. ASSUME LimiterInv, [LayerNext]_layer, NEW q \in Requests, place[q] = "sent", place'[q] = "allowed"
      PROVE  /\ admitted[Window(sentAt[q])] < Limit
             /\ Window(now) = Window(sentAt[q]) => Estimated(admitted, sentAt[q]) < Limit * Parts
  <2>1. Consume(q)
    <3>1. ASSUME NEW r \in Requests, Send(r) \/ Consume(r)
          PROVE  r = q
      <4>1. CASE r # q
        <5>1. place'[q] = place[q]
          BY <1>2, <3>1, <4>1 DEF Send, Consume, ConsumeFallback, Place, LimiterInv
        <5> QED
          BY <1>2, <5>1
      <4> QED
        BY <4>1
    <3>2. ~Send(q)
      BY <1>2 DEF Send
    <3>3. ~UNCHANGED place
      BY <1>2
    <3> QED
      BY <1>2, <3>1, <3>2, <3>3 DEF LayerNext, layer, limiter, Tick, ExpireCounters
  <2>2. Script(q, TRUE)
    BY <1>2, <2>1 DEF Consume, ConsumeFallback, Place, LimiterInv
  <2> QED
    BY <1>2, <2>2, EstimateIsFair
<1>3. LimiterInv /\ [LayerNext]_layer =>
        [\A q \in Requests :
           place[q] = "sent" /\ place'[q] = "allowed" =>
             /\ admitted[Window(sentAt[q])] < Limit
             /\ Window(now) = Window(sentAt[q]) =>
                  Estimated(admitted, sentAt[q]) < Limit * Parts]_limiter
  BY <1>2
<1> QED
  BY <1>1, <1>3, LimiterStep, PTL DEF LayerSpec, SlidingWindowHolds
=============================================================================
