---------------------------- MODULE WalletSecurity ----------------------------
(***************************************************************************)
(* One owner's wallet status and security challenges: freeze and unfreeze  *)
(* of WalletSecurityUseCases, AnswerSecurityChallengeUseCase,              *)
(* SecurityQuestionService and the statements of their repositories.       *)
(*                                                                         *)
(* A call of send or of unfreeze raises at most one challenge, so it also  *)
(* names the challenge.  The freeze and the lock of a wrong answer are     *)
(* statements of the call that answered, after the one that fails the      *)
(* challenge; the other calls and the clock come in between.  A call that  *)
(* takes no further step has crashed.                                      *)
(***************************************************************************)
EXTENDS Integers, Sequences, FiniteSets

CONSTANTS
  Sends,        \* calls of SendMoneyUseCase.execute
  Releases,     \* calls of unfreeze
  AnswerCalls,  \* calls of AnswerSecurityChallengeUseCase.execute
  MaxAttempts,  \* MAX_UNFREEZE_ATTEMPTS
  MaxFreezes,   \* bound: how often the owner presses freeze
  SecurityFaults  \* "freeze": the freeze after a wrong answer fails

ASSUME SecurityAssumption ==
  /\ Sends \cap Releases = {} /\ Releases \cap AnswerCalls = {}
  /\ IsFiniteSet(Releases)
  /\ MaxAttempts \in Nat \ {0} /\ MaxFreezes \in Nat
  /\ SecurityFaults \subseteq {"freeze"}

VARIABLES
  wallet,     \* wallets.status
  events,     \* wallet_security_events, oldest first
  challenge,  \* challenge[h]: the status of the challenge that call h raised
  raised,     \* the challenges, oldest first
  age,        \* age[h]: 0 fresh, 1 past CHALLENGE_TTL_MINUTES, 2 past ATTEMPT_WINDOW_HOURS
  step,       \* step[c]: where a call of Releases or AnswerCalls is
  target,     \* target[a]: the challenge that call a answers
  seen        \* seen[a]: the status that markUnderReview read

Raisers == Sends \cup Releases

security == <<wallet, events, challenge, raised, age, step, target, seen>>

WalletStatuses == {"ACTIVE", "FROZEN", "UNDER_REVIEW"}
ChallengeStatuses == {"ABSENT", "PENDING", "PASSED", "FAILED", "EXPIRED"}
ReleaseSteps == {"new", "proving", "releasing", "done"}
AnswerSteps == {"new", "expiring", "right", "wrong", "looking", "freezing", "counting",
                "reading", "locking", "done", "swallowed"}

Goto(c, s) == step' = [step EXCEPT ![c] = s]

-----------------------------------------------------------------------------
(* The tables *)

\* transitionStatus: the compare-and-set on wallets.status and its event, in
\* one transaction, or nothing.
Transition(c, from, to, recorded) ==
  IF wallet \in from
  THEN /\ wallet' = to
       /\ events' = Append(events, [by |-> c, from |-> recorded, to |-> to])
  ELSE UNCHANGED <<wallet, events>>

Raise(c) ==
  /\ challenge' = [challenge EXCEPT ![c] = "PENDING"]
  /\ raised' = Append(raised, c)

\* resolveChallenge: a compare-and-set on PENDING, whose result nobody reads.
Resolved(h, outcome) ==
  [challenge EXCEPT ![h] = IF @ = "PENDING" THEN outcome ELSE @]

Passed(candidates) == {h \in candidates : challenge[h] = "PASSED"}

\* findPassedChallenge: ORDER BY created_at DESC, one row.
NewestPassed(candidates) ==
  LET Place(h) == CHOOSE i \in 1..Len(raised) : raised[i] = h
  IN  {h \in Passed(candidates) : \A g \in Passed(candidates) : Place(g) <= Place(h)}

\* Mutant: counts the attempts of one challenge only.
FailedUnfreezes_OwnOnly(a) ==
  {h \in {target[a]} : challenge[h] \in {"FAILED", "EXPIRED"} /\ age[h] < 2}

\* countRecentFailedUnfreezeAttempts
FailedUnfreezes(a) ==
  {h \in Releases : challenge[h] \in {"FAILED", "EXPIRED"} /\ age[h] < 2}

-----------------------------------------------------------------------------
(* Freeze and unfreeze *)

OwnFreezes == {i \in 1..Len(events) : events[i].by = "owner"}

\* freeze: everything before the compare-and-set only refuses earlier.
Freeze ==
  /\ Cardinality(OwnFreezes) < MaxFreezes
  /\ Transition("owner", {"ACTIVE"}, "FROZEN", "ACTIVE")
  /\ UNCHANGED <<challenge, raised, age, step, target, seen>>

ReadWallet(r) ==
  /\ step[r] = "new"
  /\ Goto(r, IF wallet = "FROZEN" THEN "proving" ELSE "done")
  /\ UNCHANGED <<wallet, events, challenge, raised, age, target, seen>>

\* Mutant: unfreeze asks for no proof.
Prove_NotAsked(r) ==
  /\ step[r] = "proving"
  /\ Goto(r, "releasing")
  /\ UNCHANGED <<wallet, events, challenge, raised, age, target, seen>>

\* hasPassedUnfreezeChallenge, or a challenge is raised and the call refused.
Prove(r) ==
  /\ step[r] = "proving"
  /\ IF \E h \in NewestPassed(Releases) : age[h] = 0
     THEN Goto(r, "releasing") /\ UNCHANGED <<challenge, raised>>
     ELSE Goto(r, "done") /\ Raise(r)
  /\ UNCHANGED <<wallet, events, age, target, seen>>

Release(r) ==
  /\ step[r] = "releasing"
  /\ Transition(r, {"FROZEN"}, "ACTIVE", "FROZEN")
  /\ Goto(r, "done")
  /\ UNCHANGED <<challenge, raised, age, target, seen>>

-----------------------------------------------------------------------------
(* Answering a challenge *)

\* verifyAnswer up to the verdict; a challenge that is not PENDING is GONE.
Verify(a) ==
  /\ step[a] = "new"
  /\ \E h \in Raisers :
       /\ challenge[h] # "ABSENT"
       /\ target' = [target EXCEPT ![a] = h]
       /\ IF challenge[h] # "PENDING" THEN Goto(a, "done")
          ELSE IF age[h] > 0 THEN Goto(a, "expiring")
          ELSE Goto(a, "right") \/ Goto(a, "wrong")
  /\ UNCHANGED <<wallet, events, challenge, raised, age, seen>>

Expire(a) ==
  /\ step[a] = "expiring"
  /\ challenge' = Resolved(target[a], "EXPIRED")
  /\ Goto(a, "done")
  /\ UNCHANGED <<wallet, events, raised, age, target, seen>>

Pass(a) ==
  /\ step[a] = "right"
  /\ challenge' = Resolved(target[a], "PASSED")
  /\ Goto(a, "done")
  /\ UNCHANGED <<wallet, events, raised, age, target, seen>>

\* failChallenge, and the consequence for the purpose of the challenge.
Fail(a) ==
  /\ step[a] = "wrong"
  /\ challenge' = Resolved(target[a], "FAILED")
  /\ Goto(a, IF target[a] \in Sends THEN "looking" ELSE "counting")
  /\ UNCHANGED <<wallet, events, raised, age, target, seen>>

\* freezeAfterWrongAnswer reads the status, and swallows every error.
Look(a) ==
  /\ step[a] = "looking"
  /\ \/ Goto(a, IF wallet = "ACTIVE" THEN "freezing" ELSE "done")
     \/ "freeze" \in SecurityFaults /\ Goto(a, "swallowed")
  /\ UNCHANGED <<wallet, events, challenge, raised, age, target, seen>>

\* Mutant: the freeze is left to the client's next call.
FreezeAsSystem_Forgotten(a) ==
  /\ step[a] = "freezing"
  /\ Goto(a, "done")
  /\ UNCHANGED <<wallet, events, challenge, raised, age, target, seen>>

FreezeAsSystem(a) ==
  /\ step[a] = "freezing"
  /\ \/ Transition(a, {"ACTIVE"}, "FROZEN", "ACTIVE") /\ Goto(a, "done")
     \/ "freeze" \in SecurityFaults /\ UNCHANGED <<wallet, events>> /\ Goto(a, "swallowed")
  /\ UNCHANGED <<challenge, raised, age, target, seen>>

Count(a) ==
  /\ step[a] = "counting"
  /\ Goto(a, IF Cardinality(FailedUnfreezes(a)) >= MaxAttempts THEN "reading" ELSE "done")
  /\ UNCHANGED <<wallet, events, challenge, raised, age, target, seen>>

\* markUnderReview reads the status it will record as the previous one.
ReadStatus(a) ==
  /\ step[a] = "reading"
  /\ seen' = [seen EXCEPT ![a] = wallet]
  /\ Goto(a, "locking")
  /\ UNCHANGED <<wallet, events, challenge, raised, age, target>>

MarkUnderReview(a) ==
  /\ step[a] = "locking"
  /\ Transition(a, {"ACTIVE", "FROZEN"}, "UNDER_REVIEW", seen[a])
  /\ Goto(a, "done")
  /\ UNCHANGED <<challenge, raised, age, target, seen>>

\* Nothing depends on how much older than its expiry a payment's challenge is.
Oldest(h) == IF h \in Sends THEN 1 ELSE 2

\* Time: the older of two challenges never looks the younger.
Grow(h) ==
  /\ age[h] < Oldest(h)
  /\ \E i \in 1..Len(raised) :
       /\ raised[i] = h
       /\ \A j \in 1..(i - 1) :
            age[raised[j]] > age[h] \/ age[raised[j]] = Oldest(raised[j])
  /\ age' = [age EXCEPT ![h] = @ + 1]
  /\ UNCHANGED <<wallet, events, challenge, raised, step, target, seen>>

-----------------------------------------------------------------------------
SecurityInit ==
  /\ wallet = "ACTIVE"
  /\ events = <<>>
  /\ challenge = [h \in Raisers |-> "ABSENT"]
  /\ raised = <<>>
  /\ age = [h \in Raisers |-> 0]
  /\ step = [c \in Releases \cup AnswerCalls |-> "new"]
  /\ target = [a \in AnswerCalls |-> "none"]
  /\ seen = [a \in AnswerCalls |-> "ACTIVE"]

SecurityNext ==
  \/ Freeze
  \/ \E r \in Releases : ReadWallet(r) \/ Prove(r) \/ Release(r)
  \/ \E a \in AnswerCalls :
       \/ Verify(a) \/ Expire(a) \/ Pass(a) \/ Fail(a)
       \/ Look(a) \/ FreezeAsSystem(a)
       \/ Count(a) \/ ReadStatus(a) \/ MarkUnderReview(a)
  \/ \E h \in Raisers : Grow(h)

SecurityTypeOK ==
  /\ wallet \in WalletStatuses
  /\ \A i \in 1..Len(events) :
       events[i].from \in WalletStatuses /\ events[i].to \in WalletStatuses \ {events[i].from}
  /\ challenge \in [Raisers -> ChallengeStatuses]
  /\ \A h \in Raisers : challenge[h] # "ABSENT" <=> \E i \in 1..Len(raised) : raised[i] = h
  /\ age \in [Raisers -> 0..2]
  /\ \A r \in Releases : step[r] \in ReleaseSteps
  /\ \A a \in AnswerCalls :
       /\ step[a] \in AnswerSteps
       /\ target[a] \in Raisers \cup {"none"}
       /\ seen[a] \in WalletStatuses

-----------------------------------------------------------------------------
(* Safety *)

\* Brute force ends in review: when the wrong answers of a day reach the
\* limit, and no answer is still being handled, the wallet is UNDER_REVIEW,
\* however the guesses were spread over challenges and calls.
GuessingEndsInReview ==
  Cardinality({h \in Releases : challenge[h] = "FAILED" /\ age[h] < 2}) >= MaxAttempts =>
    \/ wallet = "UNDER_REVIEW"
    \/ \E a \in AnswerCalls : step[a] \in {"counting", "reading", "locking"}

\* A wallet that a wrong answer to a payment's challenge has stopped pays again
\* only once its owner has answered an unfreeze challenge: a call that found
\* the answer wrong has frozen the wallet, or found it frozen.
WrongAnswerStopsTheWallet ==
  \A a \in AnswerCalls :
    target[a] \in Sends /\ challenge[target[a]] = "FAILED" /\ wallet = "ACTIVE" =>
      \/ \E b \in AnswerCalls :
           target[b] = target[a] /\ step[b] \in {"looking", "freezing", "swallowed"}
      \/ \E h \in Releases : challenge[h] = "PASSED"

-----------------------------------------------------------------------------
(* Action property *)

\* "Whoever releases the wallet has to prove they are the owner", and nobody
\* releases a wallet from review.
ReleasesAreProven ==
  [][/\ wallet = "UNDER_REVIEW" => wallet' = wallet
     /\ wallet = "FROZEN" /\ wallet' = "ACTIVE" =>
          \E h \in Releases : challenge[h] = "PASSED"]_security
=============================================================================
