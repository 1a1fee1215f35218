---------------------------- MODULE EnvelopeTheorems ----------------------------
(***************************************************************************)
(* Envelopes and their wallet, for every finite set of envelopes and every *)
(* set of calls.  The sum over the envelopes and the column of the wallet  *)
(* are kept together by the row lock: the call that has updated a row of   *)
(* an envelope is the owner of the wallet until both are committed.        *)
(***************************************************************************)
EXTENDS Envelopes, SumTheorems

\* The wallet's row is owned by the one call that is past its SELECT FOR UPDATE.
OwnersAreAdjusting ==
  \A c \in Calls : owner = c <=> pc[c] \in {"locked", "marked"}

\* What an adjustment has written to a row of an envelope is still possible
\* when it reaches the wallet.
MarkedRowsStand ==
  \A c \in Calls :
    pc[c] = "marked" =>
      Envelope[c] \in existing /\ held[Envelope[c]] + delta[c] >= 0

\* An envelope that is not there holds nothing.
OnlyRowsHold == \A e \in Envelopes \ existing : held[e] = 0

\* The inductive invariant.
EnvelopeInv ==
  /\ TypeOK
  /\ OwnersAreAdjusting /\ MarkedRowsStand /\ OnlyRowsHold
  /\ EnvelopesAreCovered

-----------------------------------------------------------------------------
(* The sum *)

\* The total of the model is the sum that the lemmas are about, now and next.
LEMMA TotalIsSum ==
  /\ HeldByEnvelopes = SumOver(held, Envelopes)
  /\ HeldByEnvelopes' = SumOver(held', Envelopes)
BY DEF HeldByEnvelopes, SumOver, MapThenSumSet, MapThenFoldSet

\* The total is a natural number, and no envelope holds more.
LEMMA TotalTyped ==
  ASSUME TypeOK
  PROVE  HeldByEnvelopes \in Nat /\ \A e \in Envelopes : held[e] <= HeldByEnvelopes
BY WalletAssumption, TotalIsSum, SumIsNat, SumBoundsEach DEF TypeOK

\* When one envelope changes, the total changes with it.
LEMMA TotalFollows ==
  ASSUME TypeOK, NEW e \in Envelopes, held'[e] \in Int,
         \A d \in Envelopes \ {e} : held'[d] = held[d]
  PROVE  HeldByEnvelopes' = HeldByEnvelopes - held[e] + held'[e]
<1>1. IsFiniteSet(Envelopes) /\ \A d \in Envelopes : held[d] \in Int
  BY WalletAssumption DEF TypeOK
<1>2. SumOver(held', Envelopes) = SumOver(held, Envelopes) - held[e] + held'[e]
  BY <1>1, SumExcept
<1> QED
  BY <1>2, TotalIsSum

-----------------------------------------------------------------------------
(* The steps *)

\* The steps that leave both tables alone, and move the call c at most.
LEMMA QuietStepKept ==
  ASSUME EnvelopeInv, NEW c \in Calls,
         List(c) \/ Ask(c) \/ Lookup(c) \/ LockWallet(c) \/ Mark(c) \/ Abort(c)
  PROVE  EnvelopeInv' /\ Drift' = Drift
<1> USE CallAssumption DEF EnvelopeInv
<1>1. UNCHANGED tables
  BY DEF List, Ask, Lookup, LockWallet, Mark, Abort
<1>2. HeldByEnvelopes' = HeldByEnvelopes /\ EnvelopesAreCovered' /\ OnlyRowsHold'
  BY <1>1, TotalIsSum DEF tables, wallet, EnvelopesAreCovered, OnlyRowsHold
<1>3. TypeOK'
  BY <1>1 DEF TypeOK, tables, wallet, Stages, Goto, AfterAdjusting,
              List, Ask, Lookup, LockWallet, Mark, Abort
<1>4. OwnersAreAdjusting'
  BY DEF TypeOK, OwnersAreAdjusting, Goto, AfterAdjusting,
         List, Ask, Lookup, LockWallet, Mark, Abort
<1>5. MarkedRowsStand'
  BY <1>1 DEF TypeOK, MarkedRowsStand, tables, Goto, AfterAdjusting,
              List, Ask, Lookup, LockWallet, Mark, Abort
<1> QED
  BY <1>1, <1>2, <1>3, <1>4, <1>5 DEF Drift, tables, wallet

\* A new envelope holds nothing yet.
LEMMA InsertKept ==
  ASSUME EnvelopeInv, NEW c \in Calls, Insert(c)
  PROVE  EnvelopeInv' /\ Drift' = Drift
<1> USE CallAssumption DEF EnvelopeInv, Insert
<1>1. HeldByEnvelopes' = HeldByEnvelopes /\ EnvelopesAreCovered'
  BY TotalIsSum DEF EnvelopesAreCovered, wallet
<1>2. TypeOK'
  BY DEF TypeOK, Stages, Goto, wallet
<1>3. OwnersAreAdjusting' /\ MarkedRowsStand' /\ OnlyRowsHold'
  BY DEF TypeOK, OwnersAreAdjusting, MarkedRowsStand, OnlyRowsHold, Goto
<1> QED
  BY <1>1, <1>2, <1>3 DEF Drift, wallet

\* The two updates of an adjustment are committed together, or neither is.
LEMMA ApplyKept ==
  ASSUME EnvelopeInv, NEW c \in Calls, Apply(c)
  PROVE  EnvelopeInv' /\ Drift' = Drift
<1> USE CallAssumption DEF EnvelopeInv, Apply
<1> DEFINE e == Envelope[c]
<1>1. e \in existing /\ e \in Envelopes /\ held[e] + delta[c] >= 0
  BY DEF MarkedRowsStand
<1>2. owner = c /\ \A d \in Calls : pc[d] = "marked" => d = c
  BY DEF OwnersAreAdjusting
<1>3. OwnersAreAdjusting' /\ MarkedRowsStand'
  BY <1>2 DEF TypeOK, OwnersAreAdjusting, MarkedRowsStand, Goto, AfterAdjusting
<1>4. CASE Fits(c)
  <2>1. TypeOK'
    BY <1>1, <1>4 DEF TypeOK, Fits, Stages, Goto, AfterAdjusting
  <2>2. HeldByEnvelopes' = HeldByEnvelopes + delta[c]
    BY <1>1, <1>4, TotalFollows, TotalTyped DEF TypeOK
  <2>3. EnvelopesAreCovered' /\ Drift' = Drift
    BY <1>4, <2>2, TotalTyped DEF TypeOK, EnvelopesAreCovered, Fits, Drift
  <2>4. OnlyRowsHold'
    BY <1>1, <1>4 DEF TypeOK, OnlyRowsHold
  <2> QED
    BY <1>3, <2>1, <2>3, <2>4
<1>5. CASE ~Fits(c)
  <2>1. TypeOK'
    BY <1>5 DEF TypeOK, Stages, Goto, AfterAdjusting
  <2>2. EnvelopesAreCovered' /\ Drift' = Drift
    BY <1>5, TotalIsSum DEF EnvelopesAreCovered, Drift
  <2> QED
    BY <1>3, <1>5, <2>1, <2>2 DEF OnlyRowsHold
<1> QED
  BY <1>4, <1>5

\* What a deleted envelope still held stays withheld by the wallet.
LEMMA DeleteKept ==
  ASSUME EnvelopeInv, NEW c \in Calls, Delete(c)
  PROVE  /\ EnvelopeInv'
         /\ Drift' # Drift => \E e \in existing : e \notin existing'
<1> USE CallAssumption DEF EnvelopeInv, Delete
<1> DEFINE e == Envelope[c]
<1>1. e \in Envelopes /\ \A d \in Calls : pc[d] = "marked" => Envelope[d] # e
  BY DEF RowIsLocked
<1>2. TypeOK'
  BY <1>1 DEF TypeOK, Stages, Goto, wallet
<1>3. HeldByEnvelopes' = HeldByEnvelopes - held[e]
  <2>1. held'[e] = 0 /\ \A d \in Envelopes \ {e} : held'[d] = held[d]
    BY <1>1 DEF TypeOK
  <2>2. HeldByEnvelopes' = HeldByEnvelopes - held[e] + held'[e]
    <3> HIDE DEF Delete, e
    <3> QED
      BY <1>1, <2>1, TotalFollows
  <2>3. held[e] \in Nat /\ HeldByEnvelopes \in Nat
    BY <1>1, TotalTyped DEF TypeOK
  <2> QED
    BY <2>1, <2>2, <2>3
<1>4. EnvelopesAreCovered'
  BY <1>1, <1>3, TotalTyped DEF TypeOK, EnvelopesAreCovered, wallet
<1>5. OwnersAreAdjusting' /\ MarkedRowsStand' /\ OnlyRowsHold'
  BY <1>1 DEF TypeOK, OwnersAreAdjusting, MarkedRowsStand, OnlyRowsHold, Goto
<1>6. e \notin existing => Drift' = Drift
  BY <1>1, <1>3, TotalTyped DEF TypeOK, OnlyRowsHold, Drift, wallet
<1> QED
  BY <1>2, <1>4, <1>5, <1>6

\* A transfer leaves what is withheld alone.
LEMMA PaymentKept ==
  ASSUME EnvelopeInv, NEW n \in Payments, Spend(n) \/ Receive(n)
  PROVE  EnvelopeInv' /\ Drift' = Drift
<1> USE WalletAssumption DEF EnvelopeInv, Spend, Receive
<1>1. HeldByEnvelopes' = HeldByEnvelopes
  BY TotalIsSum
<1>2. TypeOK' /\ EnvelopesAreCovered'
  BY <1>1, TotalTyped DEF TypeOK, EnvelopesAreCovered
<1>3. OwnersAreAdjusting' /\ MarkedRowsStand' /\ OnlyRowsHold'
  BY DEF OwnersAreAdjusting, MarkedRowsStand, OnlyRowsHold
<1> QED
  BY <1>1, <1>2, <1>3 DEF Drift

LEMMA InitKept == Init => EnvelopeInv
<1> SUFFICES ASSUME Init PROVE EnvelopeInv
  OBVIOUS
<1> USE CallAssumption, WalletAssumption DEF Init
<1>1. TypeOK
  BY DEF TypeOK, Stages
<1>2. HeldByEnvelopes = 0
  BY TotalIsSum, SumOfZeros
<1> QED
  BY <1>1, <1>2 DEF EnvelopeInv, OwnersAreAdjusting, MarkedRowsStand, OnlyRowsHold,
                    EnvelopesAreCovered

\* Every step keeps the invariant, and only a deletion makes the sums drift.
LEMMA StepKept ==
  ASSUME EnvelopeInv, [Next]_vars
  PROVE  /\ EnvelopeInv'
         /\ Drift' # Drift => \E e \in existing : e \notin existing'
<1>1. CASE Next
  BY <1>1, QuietStepKept, InsertKept, ApplyKept, DeleteKept, PaymentKept DEF Next, Step
<1>2. CASE UNCHANGED vars
  BY <1>2, TotalIsSum DEF vars, tables, wallet, EnvelopeInv, TypeOK, OwnersAreAdjusting,
              MarkedRowsStand, OnlyRowsHold, EnvelopesAreCovered, Drift, RowIsLocked
<1> QED
  BY <1>1, <1>2

-----------------------------------------------------------------------------
\* For every set of calls, every outcome of theirs and every transfer in
\* between, what the envelopes hold is withheld by the wallet, and there.
THEOREM EnvelopesStayCovered == Spec => []EnvelopesAreCovered
<1>1. EnvelopeInv => EnvelopesAreCovered
  BY DEF EnvelopeInv
<1> QED
  BY <1>1, InitKept, StepKept, PTL DEF Spec

\* remove may ignore the answer of adjustReservation: a release that an
\* envelope has accepted is never refused by the wallet.
THEOREM ReleasesAlwaysFit == Spec => []ReleasesFit
<1>1. EnvelopeInv => ReleasesFit
  <2> SUFFICES ASSUME EnvelopeInv, NEW c \in Calls, pc[c] = "marked", delta[c] <= 0
               PROVE  Fits(c)
    BY DEF ReleasesFit
  <2>1. Envelope[c] \in Envelopes /\ held[Envelope[c]] + delta[c] >= 0
    BY CallAssumption DEF EnvelopeInv, MarkedRowsStand
  <2>2. held[Envelope[c]] <= reserved /\ reserved <= balance
    BY <2>1, TotalTyped DEF EnvelopeInv, EnvelopesAreCovered, TypeOK
  <2> QED
    BY <2>1, <2>2 DEF EnvelopeInv, TypeOK, Fits
<1> QED
  BY <1>1, InitKept, StepKept, PTL DEF Spec

\* Envelopes and wallet disagree by no step but the deletion of an envelope
\* that holds something by then: every other step moves both, or neither.
THEOREM DriftNeedsDeletion == Spec => DriftOnlyByDeletion
<1>1. EnvelopeInv /\ [Next]_vars =>
        [Drift' # Drift => \E e \in existing : e \notin existing']_vars
  BY StepKept
<1> QED
  BY <1>1, InitKept, StepKept, PTL DEF Spec, DriftOnlyByDeletion
=============================================================================
