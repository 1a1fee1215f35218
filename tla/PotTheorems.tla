------------------------------ MODULE PotTheorems ------------------------------
(***************************************************************************)
(* A pot and its payouts, for every finite set of wallets and keys and     *)
(* every set of calls and faults.  The bookkeeping of a pot is written     *)
(* long after the transfers it is about; what makes it true all the same   *)
(* is that what it was computed from only grows: a key that is paid stays  *)
(* paid, and so does what the members have brought together.               *)
(***************************************************************************)
EXTENDS Pots, SumTheorems

\* A call is answered COMPLETED for a key that is paid, and goes on to its
\* bookkeeping only then.
AnswersAreTrue ==
  \A c \in Calls :
    /\ outcome[c] = "COMPLETED" => verdict[Key[c]] = "paid"
    /\ pc[c] \in {"new", "moving"} => outcome[c] = "none"
    /\ pc[c] = "closing" => outcome[c] = "COMPLETED"

\* Money only moves: no wallet is overdrawn, nothing is held, nothing is lost.
MoneyIsKept ==
  /\ \A w \in Wallets : funds[w] >= 0 /\ held[w] = 0
  /\ SumOver(funds, Wallets) = MostMoney

\* The pot has nothing but what the paid contributions brought, and a call
\* that is about to write FUNDED has seen the target there.
PotIsReceived ==
  /\ funds[Pot] <= AllReceived
  /\ \A c \in Calls : pc[c] = "funding" => AllReceived >= Target
  /\ status = "FUNDED" => AllReceived >= Target

Booked(u) == PaidKeys(u) \ Unbooked(u)

\* The breakdown has every contribution that some call has booked.
BookingsAreCounted ==
  \A u \in Users : SumOver(AmountOf, Booked(u)) <= contributed[u]

\* The inductive invariant.
PotInv ==
  /\ TypeOK
  /\ AnswersAreTrue /\ MoneyIsKept /\ PotIsReceived /\ BookingsAreCounted
  /\ SettledPotNamesItsPayout

-----------------------------------------------------------------------------
(* What has been received *)

ContributionKeys == {Key[c] : c \in Contributions}

\* The amount of a key is that of every contribution that carries it.
LEMMA AmountTyped ==
  /\ AmountOf \in [ContributionKeys -> Nat]
  /\ \A c \in Contributions : AmountOf[Key[c]] = Amount[c]
<1>1. ASSUME NEW c \in Contributions
      PROVE  Amount[CHOOSE d \in Contributions : Key[d] = Key[c]] = Amount[c]
  BY RetryAssumption
<1>2. Amount \in [Contributions -> Nat]
  BY CallAssumption
<1> QED
  BY <1>1, <1>2 DEF AmountOf, ContributionKeys

\* The paid keys are finitely many keys of contributions.
LEMMA PaidKeysTyped ==
  ASSUME NEW u
  PROVE  /\ PaidKeys(u) \subseteq ContributionKeys /\ IsFiniteSet(PaidKeys(u))
         /\ IsFiniteSet(Users)
<1>1. PaidKeys(u) \subseteq Keys /\ Users \subseteq Wallets
  BY DEF PaidKeys, Users
<1> QED
  BY <1>1, PotAssumption, FS_Subset DEF PaidKeys, ContributionKeys

\* The totals of the model are the sums that the lemmas are about.
LEMMA TotalsAreSums ==
  /\ \A u \in Users : Received[u] = SumOver(AmountOf, PaidKeys(u))
  /\ AllReceived = SumOver(Received, Users)
  /\ MostMoney = SumOver(Opening, Wallets)
BY DEF Received, AllReceived, MostMoney, SumOver, MapThenSumSet, MapThenFoldSet

LEMMA TotalsAreSumsNext ==
  /\ \A u \in Users : Received'[u] = SumOver(AmountOf, PaidKeys(u)')
  /\ AllReceived' = SumOver(Received', Users)
BY DEF Received, AllReceived, SumOver, MapThenSumSet, MapThenFoldSet

LEMMA ReceivedTyped ==
  /\ \A u \in Users : Received[u] \in Nat
  /\ AllReceived \in Nat
<1>1. ASSUME NEW u \in Users PROVE Received[u] \in Nat
  BY AmountTyped, PaidKeysTyped, TotalsAreSums, SumIsNat
<1> QED
  BY <1>1, PaidKeysTyped, TotalsAreSums, SumIsNat

\* When no contribution becomes paid, nothing is received.
LEMMA ReceivedStays ==
  ASSUME \A u \in Users : PaidKeys(u)' = PaidKeys(u)
  PROVE  AllReceived' = AllReceived
<1>1. \A u \in Users : Received'[u] = Received[u]
  BY TotalsAreSums, TotalsAreSumsNext
<1> QED
  BY <1>1, PaidKeysTyped, TotalsAreSums, TotalsAreSumsNext, SumAgrees

\* When a contribution becomes paid, its amount is received, once.
LEMMA ReceivedGrows ==
  ASSUME NEW c \in Contributions, Key[c] \notin PaidKeys(Member[c]),
         PaidKeys(Member[c])' = PaidKeys(Member[c]) \cup {Key[c]},
         \A u \in Users \ {Member[c]} : PaidKeys(u)' = PaidKeys(u)
  PROVE  AllReceived' = AllReceived + Amount[c]
<1> DEFINE m == Member[c]
<1>1. m \in Users
  BY CallAssumption DEF Calls
<1>2. \A u \in Users \ {m} : Received'[u] = Received[u]
  BY TotalsAreSums, TotalsAreSumsNext
<1>3. Received'[m] = Amount[c] + Received[m]
  <2>1. /\ IsFiniteSet(PaidKeys(m)) /\ \A k \in PaidKeys(m) : AmountOf[k] \in Int
        /\ AmountOf[Key[c]] = Amount[c] /\ Amount[c] \in Int
    BY PaidKeysTyped, AmountTyped, CallAssumption
  <2>2. SumOver(AmountOf, PaidKeys(m) \cup {Key[c]}) = Amount[c] + SumOver(AmountOf, PaidKeys(m))
    BY <2>1, SumAdd
  <2> QED
    BY <1>1, <2>2, TotalsAreSums, TotalsAreSumsNext
<1>4. /\ IsFiniteSet(Users) /\ \A u \in Users : Received[u] \in Int
      /\ AllReceived \in Int /\ Amount[c] \in Int
  BY PaidKeysTyped, ReceivedTyped, CallAssumption
<1>5. SumOver(Received', Users) = SumOver(Received, Users) - Received[m] + Received'[m]
  <2> HIDE DEF m
  <2>1. Received'[m] \in Int
    BY <1>1, <1>3, <1>4
  <2> QED
    BY <1>1, <1>2, <1>4, <2>1, SumExcept
<1> QED
  BY <1>1, <1>3, <1>4, <1>5, TotalsAreSums, TotalsAreSumsNext

-----------------------------------------------------------------------------
(* A transfer *)

EngineTypeOK ==
  /\ verdict \in [Keys -> {"open", "paid", "declined"}]
  /\ funds \in [Wallets -> Int] /\ held \in [Wallets -> Int]
  /\ usable \subseteq Wallets /\ refused \subseteq Keys

OrderType == [from : Wallets, to : Wallets, amount : Int]

\* Key k is paid with order o in this step.
Paying(k, o) ==
  /\ verdict[k] # "paid" /\ verdict'[k] = "paid"
  /\ \A j \in Keys \ {k} : verdict'[j] = verdict[j]
  /\ o.from # o.to /\ 0 < o.amount /\ o.amount <= funds[o.from] - held[o.from]
  /\ funds'[o.from] = funds[o.from] - o.amount
  /\ funds'[o.to] = funds[o.to] + o.amount
  /\ \A w \in Wallets \ {o.from, o.to} : funds'[w] = funds[w]

\* Nothing is paid in this step.
NotPaying ==
  /\ \A k \in Keys : verdict'[k] = "paid" <=> verdict[k] = "paid"
  /\ funds' = funds

\* What process() does is to pay the order, or not; it holds nothing; and it
\* answers COMPLETED only if the key is paid.
LEMMA ProcessPays ==
  ASSUME EngineTypeOK, NEW c \in Calls, NEW o \in OrderType, NEW answer,
         Process(c, o, answer)
  PROVE  /\ EngineTypeOK' /\ held' = held
         /\ Paying(Key[c], o) \/ NotPaying
         /\ answer = "COMPLETED" => verdict'[Key[c]] = "paid"
<1>1. Key[c] \in Keys
  BY CallAssumption
<1>2. CASE Engine!Pays(Key[c], o, answer)
  <2>1. /\ verdict[Key[c]] = "open" /\ verdict' = [verdict EXCEPT ![Key[c]] = "paid"]
        /\ o.from # o.to /\ o.amount > 0 /\ o.amount <= funds[o.from] - held[o.from]
        /\ funds' = [funds EXCEPT ![o.from] = @ - o.amount, ![o.to] = @ + o.amount]
        /\ UNCHANGED <<held, usable, refused>>
    BY <1>2 DEF Engine!Pays, Engine!Pay, Engine!Decide, Engine!Affordable
  <2>2. o.from \in Wallets /\ o.to \in Wallets /\ o.amount \in Int
    BY DEF OrderType
  <2>3. EngineTypeOK'
    BY <1>1, <2>1, <2>2 DEF EngineTypeOK
  <2>4. Paying(Key[c], o)
    BY <1>1, <2>1, <2>2 DEF EngineTypeOK, Paying
  <2> QED
    BY <2>1, <2>3, <2>4 DEF Paying
<1>3. CASE Engine!Declines(Key[c], o, answer)
  <2>1. /\ verdict[Key[c]] = "open" /\ verdict' = [verdict EXCEPT ![Key[c]] = "declined"]
        /\ UNCHANGED <<funds, held, usable, refused>>
        /\ answer # "COMPLETED"
    BY <1>3 DEF Engine!Declines, Engine!Decline, Engine!Decide, Engine!Acknowledged
  <2> QED
    BY <1>1, <2>1 DEF EngineTypeOK, NotPaying
<1>4. CASE Engine!Replays(Key[c], answer)
  BY <1>1, <1>4 DEF EngineTypeOK, NotPaying, Engine!Replays, Engine!table
<1>5. CASE Engine!Rejects(Key[c], o, answer)
  BY <1>1, <1>5 DEF EngineTypeOK, NotPaying, Engine!Rejects, Engine!table
<1>6. CASE Engine!Breaks(answer)
  BY <1>1, <1>6 DEF EngineTypeOK, NotPaying, Engine!Breaks, Engine!table
<1> QED
  BY <1>2, <1>3, <1>4, <1>5, <1>6 DEF Process

\* A payment keeps the money: it takes no more than is there.
LEMMA PayingKeepsMoney ==
  ASSUME EngineTypeOK, MoneyIsKept, held' = held, NEW k \in Keys, NEW o \in OrderType,
         Paying(k, o)
  PROVE  MoneyIsKept'
<1>1. o.from \in Wallets /\ o.to \in Wallets /\ o.amount \in Int
  BY DEF OrderType
<1>2. SumOver(funds', Wallets) = SumOver(funds, Wallets)
  <2>1. IsFiniteSet(Wallets) /\ \A w \in Wallets : funds[w] \in Int
    BY PotAssumption DEF EngineTypeOK
  <2> QED
    BY <1>1, <2>1, SumOfTransfer DEF Paying
<1>3. \A w \in Wallets : funds'[w] >= 0
  BY <1>1 DEF EngineTypeOK, MoneyIsKept, Paying
<1> QED
  BY <1>2, <1>3 DEF MoneyIsKept

-----------------------------------------------------------------------------
(* What has been booked *)

HasBooked(c) == outcome[c] = "COMPLETED" /\ pc[c] \in {"counting", "funding", "done"}

\* A booked key is paid, and some contribution with it has booked it.
LEMMA BookedMeans ==
  ASSUME NEW u \in Users
  PROVE  /\ Booked(u) = {k \in PaidKeys(u) : \E c \in Contributions : Key[c] = k /\ HasBooked(c)}
         /\ Booked(u)' = {k \in PaidKeys(u)' : \E c \in Contributions : Key[c] = k /\ HasBooked(c)'}
BY DEF Booked, Unbooked, HasBooked

LEMMA BookedTyped ==
  ASSUME NEW u \in Users
  PROVE  IsFiniteSet(Booked(u)) /\ \A k \in Booked(u) : AmountOf[k] \in Nat
<1>1. Booked(u) \subseteq PaidKeys(u)
  BY DEF Booked
<1> QED
  BY <1>1, PaidKeysTyped, AmountTyped, FS_Subset

\* A step in which no call books anything keeps the breakdown complete.
LEMMA NothingBooked ==
  ASSUME TypeOK, AnswersAreTrue, BookingsAreCounted, UNCHANGED contributed,
         \A c \in Contributions : HasBooked(c)' => HasBooked(c)
  PROVE  BookingsAreCounted'
<1> SUFFICES ASSUME NEW u \in Users
             PROVE  SumOver(AmountOf, Booked(u)') <= contributed[u]
  BY DEF BookingsAreCounted
<1>1. Booked(u)' \subseteq Booked(u)
  <2> SUFFICES ASSUME NEW k \in Booked(u)' PROVE k \in Booked(u)
    OBVIOUS
  <2>1. PICK c \in Contributions : Key[c] = k /\ HasBooked(c)
    BY BookedMeans
  <2>2. k \in Keys /\ \E d \in Contributions : Key[d] = k /\ Member[d] = u
    BY BookedMeans DEF PaidKeys
  <2>3. verdict[k] = "paid"
    BY <2>1 DEF AnswersAreTrue, HasBooked, Calls
  <2> QED
    BY <2>1, <2>2, <2>3, BookedMeans DEF PaidKeys
<1>2. SumOver(AmountOf, Booked(u)') <= SumOver(AmountOf, Booked(u))
  BY <1>1, BookedTyped, SumOfFewer
<1>3. /\ SumOver(AmountOf, Booked(u)) \in Nat /\ SumOver(AmountOf, Booked(u)') \in Nat
      /\ SumOver(AmountOf, Booked(u)) <= contributed[u] /\ contributed[u] \in Nat
  BY <1>1, BookedTyped, SumIsNat, FS_Subset DEF BookingsAreCounted, TypeOK
<1> QED
  BY <1>2, <1>3

\* A call that books adds its amount, and one key to what is booked.
LEMMA RecordCounted ==
  ASSUME PotInv, NEW c \in Contributions, Record(c)
  PROVE  BookingsAreCounted'
<1> DEFINE m == Member[c]
           k == Key[c]
<1>1. /\ m \in Users /\ c \in Calls /\ Amount[c] \in Nat
      /\ AmountOf[k] = Amount[c]
  BY CallAssumption, AmountTyped DEF Calls
<1>2. /\ contributed'[m] = contributed[m] + Amount[c]
      /\ \A u \in Users \ {m} : contributed'[u] = contributed[u]
  BY <1>1 DEF Record, PotInv, TypeOK
<1> SUFFICES ASSUME NEW u \in Users
             PROVE  SumOver(AmountOf, Booked(u)') <= contributed'[u]
  BY DEF BookingsAreCounted
<1>3. \A d \in Contributions \ {c} : HasBooked(d)' => HasBooked(d)
  BY <1>1 DEF Record, HasBooked, Goto, PotInv, TypeOK, Calls
<1>4. PaidKeys(u)' = PaidKeys(u)
  BY DEF Record, engine, PaidKeys
<1>5. Booked(u)' \subseteq Booked(u) \cup {k} /\ (u # m => Booked(u)' \subseteq Booked(u))
  <2> SUFFICES ASSUME NEW j \in Booked(u)', j \notin Booked(u) PROVE j = k /\ u = m
    OBVIOUS
  <2>1. j \in PaidKeys(u) /\ \E d \in Contributions : Key[d] = j /\ HasBooked(d)'
    BY <1>4, BookedMeans
  <2>2. j = k
    BY <1>3, <2>1, BookedMeans
  <2>3. u = m
    BY <2>1, <2>2, RetryAssumption DEF PaidKeys
  <2> QED
    BY <2>2, <2>3
<1>6. /\ SumOver(AmountOf, Booked(u)) \in Nat
      /\ SumOver(AmountOf, Booked(u)) <= contributed[u] /\ contributed[u] \in Nat
  BY BookedTyped, SumIsNat DEF PotInv, BookingsAreCounted, TypeOK
<1> HIDE DEF m, k
<1>7. SumOver(AmountOf, Booked(u)') \in Nat
  BY <1>1, <1>5, BookedTyped, FS_Subset, FS_AddElement, SumIsNat
<1>8. CASE Booked(u)' \subseteq Booked(u)
  <2>1. SumOver(AmountOf, Booked(u)') <= SumOver(AmountOf, Booked(u))
    BY <1>8, BookedTyped, SumOfFewer
  <2> QED
    BY <1>1, <1>2, <1>6, <1>7, <2>1
<1>9. CASE ~(Booked(u)' \subseteq Booked(u))
  <2>1. u = m /\ k \notin Booked(u)
    BY <1>5, <1>9
  <2>2. SumOver(AmountOf, Booked(u) \cup {k}) = Amount[c] + SumOver(AmountOf, Booked(u))
    BY <1>1, <2>1, BookedTyped, SumAdd
  <2>3. /\ IsFiniteSet(Booked(u) \cup {k})
        /\ \A j \in Booked(u) \cup {k} : AmountOf[j] \in Nat
    BY <1>1, BookedTyped, FS_AddElement
  <2>4. SumOver(AmountOf, Booked(u)') <= SumOver(AmountOf, Booked(u) \cup {k})
    BY <1>5, <2>3, SumOfFewer
  <2> QED
    BY <1>1, <1>2, <1>6, <1>7, <2>1, <2>2, <2>4
<1> QED
  BY <1>8, <1>9

-----------------------------------------------------------------------------
(* The steps *)

\* A step that pays nothing receives nothing, and keeps the money.
LEMMA NothingMoves ==
  ASSUME UNCHANGED <<verdict, funds, held>>
  PROVE  AllReceived' = AllReceived /\ (MoneyIsKept => MoneyIsKept')
<1>1. \A u \in Users : PaidKeys(u)' = PaidKeys(u)
  BY DEF PaidKeys
<1> QED
  BY <1>1, ReceivedStays DEF MoneyIsKept

LEMMA MoneyTyped ==
  ASSUME TypeOK, MoneyIsKept
  PROVE  MostMoney \in Nat /\ \A w \in Wallets : funds[w] \in 0..MostMoney
<1>1. \A w \in Wallets : funds[w] \in Nat
  BY DEF TypeOK, MoneyIsKept
<1> QED
  BY <1>1, PotAssumption, SumIsNat, SumBoundsEach DEF MoneyIsKept

\* The steps of calls that run no transfer and book nothing.
LEMMA BookkeepingKept ==
  ASSUME PotInv, NEW c \in Calls,
         \/ c \in Contributions /\ (Enter(c) \/ Count(c) \/ MarkFunded(c))
         \/ c \in Payouts /\ (Collect(c) \/ Close(c))
         \/ FailToBook(c) \/ Crash(c)
  PROVE  PotInv'
<1> USE DEF PotInv
<1>1. UNCHANGED engine /\ UNCHANGED contributed
  BY DEF Enter, Count, MarkFunded, Collect, Close, FailToBook, Crash, pot
<1>2. AllReceived' = AllReceived /\ MoneyIsKept' /\ AllReceived \in Nat
  BY <1>1, NothingMoves, ReceivedTyped DEF engine
<1>3. TypeOK'
  BY <1>1, CallAssumption, PotAssumption, MoneyTyped
     DEF TypeOK, engine, pot, Stages, Goto, Updated, Open, Calls,
         Enter, Count, MarkFunded, Collect, Close, FailToBook, Crash
<1>4. AnswersAreTrue'
  BY <1>1 DEF TypeOK, AnswersAreTrue, engine, Goto,
              Enter, Count, MarkFunded, Collect, Close, FailToBook, Crash
<1>5. PotIsReceived'
  BY <1>1, <1>2, PotAssumption
     DEF TypeOK, PotIsReceived, engine, pot, Goto, Updated,
         Enter, Count, MarkFunded, Collect, Close, FailToBook, Crash
<1>6. BookingsAreCounted'
  <2>1. \A d \in Contributions : HasBooked(d)' => HasBooked(d)
    BY CallAssumption DEF HasBooked, AnswersAreTrue, TypeOK, Goto, Calls,
       Enter, Count, MarkFunded, Collect, Close, FailToBook, Crash
  <2> QED
    BY <1>1, <2>1, NothingBooked
<1>7. SettledPotNamesItsPayout'
  BY <1>1, CallAssumption, PotAssumption
     DEF TypeOK, SettledPotNamesItsPayout, AnswersAreTrue, engine, pot, Updated, Open,
         Enter, Count, MarkFunded, Collect, Close, FailToBook, Crash, Calls
<1> QED
  BY <1>2, <1>3, <1>4, <1>5, <1>6, <1>7

LEMMA RecordKept ==
  ASSUME PotInv, NEW c \in Contributions, Record(c)
  PROVE  PotInv'
<1> USE DEF PotInv, Record
<1>1. AllReceived' = AllReceived /\ MoneyIsKept'
  BY NothingMoves DEF engine
<1>2. TypeOK'
  BY CallAssumption DEF TypeOK, engine, Stages, Goto, Calls
<1>3. AnswersAreTrue' /\ PotIsReceived' /\ SettledPotNamesItsPayout'
  BY <1>1 DEF TypeOK, AnswersAreTrue, PotIsReceived, SettledPotNamesItsPayout, engine, Goto, Calls
<1> QED
  BY <1>1, <1>2, <1>3, RecordCounted

\* The steps that are of no call.
LEMMA SurroundingsKept ==
  ASSUME PotInv, Elsewhere \/ \E u \in Users : Join(u)
  PROVE  PotInv'
<1> USE DEF PotInv
<1>1. UNCHANGED <<verdict, funds, held, status, settlement, contributed, calls>>
  BY DEF Elsewhere, Join, engine, pot, Engine!Forget, Engine!Regulate, Engine!table
<1>2. AllReceived' = AllReceived /\ MoneyIsKept'
  BY <1>1, NothingMoves
<1>3. usable' \subseteq Wallets /\ refused' \subseteq Keys /\ members' \subseteq Users
  BY DEF TypeOK, Elsewhere, Join, engine, pot, Engine!Forget, Engine!Regulate, Engine!table
<1>4. TypeOK'
  BY <1>1, <1>3 DEF TypeOK, calls
<1>5. AnswersAreTrue' /\ PotIsReceived' /\ SettledPotNamesItsPayout'
  BY <1>1, <1>2 DEF AnswersAreTrue, PotIsReceived, SettledPotNamesItsPayout, calls
<1>6. BookingsAreCounted'
  BY <1>1, NothingBooked DEF HasBooked, calls
<1> QED
  BY <1>2, <1>4, <1>5, <1>6

\* What a transfer moves, for a contribution and for a payout.
LEMMA TransfersAreOrders ==
  ASSUME TypeOK, MoneyIsKept
  PROVE  /\ \A c \in Contributions :
              /\ Deposit(c) \in OrderType /\ Deposit(c).from # Pot /\ Deposit(c).to = Pot
              /\ Deposit(c).amount = Amount[c] /\ Amount[c] \in Nat
         /\ \A p \in Payouts :
              Payout(p) \in OrderType /\ Payout(p).from = Pot /\ Payout(p).to # Pot
<1>1. ASSUME NEW c \in Contributions
      PROVE  /\ Deposit(c) \in OrderType /\ Deposit(c).from # Pot /\ Deposit(c).to = Pot
             /\ Deposit(c).amount = Amount[c] /\ Amount[c] \in Nat
  BY CallAssumption, PotAssumption DEF Deposit, OrderType, Calls, Users
<1>2. ASSUME NEW p \in Payouts
      PROVE  Payout(p) \in OrderType /\ Payout(p).from = Pot /\ Payout(p).to # Pot
  BY PotAssumption, MoneyTyped DEF Payout, OrderType, Users, TypeOK
<1> QED
  BY <1>1, <1>2

\* A contribution that is paid brings its amount to the pot.
LEMMA DepositIsReceived ==
  ASSUME PotInv, NEW c \in Contributions, Paying(Key[c], Deposit(c))
  PROVE  AllReceived' = AllReceived + Amount[c] /\ funds'[Pot] = funds[Pot] + Amount[c]
<1>1. Key[c] \in Keys /\ Member[c] \in Users
  BY CallAssumption DEF Calls
<1>2. PaidKeys(Member[c])' = PaidKeys(Member[c]) \cup {Key[c]} /\ Key[c] \notin PaidKeys(Member[c])
  BY <1>1 DEF PaidKeys, Paying
<1>3. \A u \in Users \ {Member[c]} : PaidKeys(u)' = PaidKeys(u)
  BY <1>1, RetryAssumption DEF PaidKeys, Paying
<1>4. AllReceived' = AllReceived + Amount[c]
  BY <1>2, <1>3, ReceivedGrows
<1> QED
  BY <1>4, TransfersAreOrders DEF Paying, PotInv

\* A payout that is paid takes from the pot, and is no contribution.
LEMMA PayoutIsNotReceived ==
  ASSUME PotInv, NEW p \in Payouts, Paying(Key[p], Payout(p))
  PROVE  AllReceived' = AllReceived /\ funds'[Pot] <= funds[Pot]
<1>1. Key[p] \in Keys /\ \A c \in Contributions : Key[c] # Key[p]
  BY CallAssumption DEF Calls
<1>2. \A u \in Users : PaidKeys(u)' = PaidKeys(u)
  BY <1>1 DEF PaidKeys, Paying
<1>3. Pot \in Wallets /\ funds[Pot] \in Int /\ Payout(p).amount \in Int
  BY PotAssumption, TransfersAreOrders DEF PotInv, TypeOK, OrderType
<1> QED
  BY <1>2, <1>3, ReceivedStays, TransfersAreOrders DEF Paying, PotInv

\* A key that is paid stays paid.
LEMMA PaidStaysPaid ==
  ASSUME NEW k \in Keys, NEW o, Paying(k, o) \/ NotPaying
  PROVE  \A j \in Keys : verdict[j] = "paid" => verdict'[j] = "paid"
BY DEF Paying, NotPaying

\* The steps that run a transfer.
LEMMA TransferKept ==
  ASSUME PotInv, NEW c \in Calls,
         \/ c \in Contributions /\ Contribute(c)
         \/ c \in Payouts /\ PayOut(c)
  PROVE  PotInv'
<1> USE DEF PotInv
<1>1. PICK o, stage :
        /\ \/ c \in Contributions /\ o = Deposit(c) /\ stage = "recording"
           \/ c \in Payouts /\ o = Payout(c) /\ stage = "closing"
        /\ Transfer(c, o, stage)
  BY DEF Contribute, PayOut
<1>2. o \in OrderType /\ stage \in {"recording", "closing"}
  BY <1>1, TransfersAreOrders
<1>3. PICK answer \in Engine!Answers :
        /\ Process(c, o, answer)
        /\ outcome' = [outcome EXCEPT ![c] = answer]
        /\ Goto(c, IF answer = "COMPLETED" THEN stage ELSE "done")
  BY <1>1 DEF Transfer
<1>4. /\ EngineTypeOK' /\ held' = held
      /\ Paying(Key[c], o) \/ NotPaying
      /\ answer = "COMPLETED" => verdict'[Key[c]] = "paid"
  BY <1>2, <1>3, ProcessPays DEF TypeOK, EngineTypeOK
<1>5. \A j \in Keys : verdict[j] = "paid" => verdict'[j] = "paid"
  BY <1>4, PaidStaysPaid, CallAssumption
<1>6. pc[c] = "moving" /\ UNCHANGED pot /\ UNCHANGED collected
  BY <1>1 DEF Transfer
<1>7. TypeOK'
  BY <1>2, <1>3, <1>4, <1>6 DEF TypeOK, EngineTypeOK, Goto, pot, Stages
<1>8. AnswersAreTrue'
  <2>1. \A d \in Calls : Key[d] \in Keys
    BY CallAssumption
  <2>2. \A d \in Calls \ {c} : outcome'[d] = outcome[d] /\ pc'[d] = pc[d]
    BY <1>3 DEF Goto, TypeOK
  <2>3. /\ outcome'[c] = answer
        /\ pc'[c] = IF answer = "COMPLETED" THEN stage ELSE "done"
    BY <1>3 DEF Goto, TypeOK
  <2> QED
    BY <1>2, <1>4, <1>5, <2>1, <2>2, <2>3 DEF AnswersAreTrue
<1>9. MoneyIsKept'
  BY <1>2, <1>4, PayingKeepsMoney, CallAssumption
     DEF TypeOK, EngineTypeOK, MoneyIsKept, NotPaying
<1>10. /\ AllReceived' >= AllReceived /\ AllReceived \in Nat /\ AllReceived' \in Int
       /\ funds'[Pot] - funds[Pot] <= AllReceived' - AllReceived
       /\ funds[Pot] \in Int /\ funds'[Pot] \in Int
  <2>1. AllReceived \in Nat /\ funds[Pot] \in Int /\ funds'[Pot] \in Int
    BY <1>7, ReceivedTyped, PotAssumption DEF TypeOK
  <2>2. CASE Paying(Key[c], o) /\ c \in Contributions /\ o = Deposit(c)
    BY <2>1, <2>2, DepositIsReceived, TransfersAreOrders
  <2>3. CASE Paying(Key[c], o) /\ c \in Payouts /\ o = Payout(c)
    BY <2>1, <2>3, PayoutIsNotReceived
  <2>4. CASE NotPaying
    <3>1. \A u \in Users : PaidKeys(u)' = PaidKeys(u)
      BY <2>4 DEF PaidKeys, NotPaying
    <3> QED
      BY <2>1, <2>4, <3>1, ReceivedStays DEF NotPaying
  <2> QED
    BY <1>1, <1>4, <2>2, <2>3, <2>4
<1>11. PotIsReceived'
  <2>1. \A d \in Calls : pc'[d] = "funding" => pc[d] = "funding"
    BY <1>2, <1>3 DEF Goto, TypeOK
  <2>2. status' = status /\ Target \in Nat
    BY <1>6, PotAssumption DEF pot
  <2> QED
    BY <1>10, <2>1, <2>2 DEF PotIsReceived
<1>12. BookingsAreCounted'
  <2>1. \A d \in Contributions : HasBooked(d)' => HasBooked(d)
    BY <1>2, <1>3, CallAssumption DEF HasBooked, Goto, TypeOK, Calls
  <2> QED
    BY <1>6, <2>1, NothingBooked DEF pot
<1>13. SettledPotNamesItsPayout'
  BY <1>5, <1>6 DEF SettledPotNamesItsPayout, TypeOK, pot
<1> QED
  BY <1>7, <1>8, <1>9, <1>11, <1>12, <1>13

-----------------------------------------------------------------------------
(* The invariant *)

LEMMA InitKept == Init => PotInv
<1> SUFFICES ASSUME Init PROVE PotInv
  OBVIOUS
<1> USE DEF Init, Engine!Init
<1>1. TypeOK
  <2>1. MostMoney \in Nat
    BY PotAssumption, TotalsAreSums, SumIsNat
  <2> QED
    BY <2>1, CallAssumption, PotAssumption DEF TypeOK, Stages, Users
<1>2. AnswersAreTrue /\ SettledPotNamesItsPayout
  BY DEF AnswersAreTrue, SettledPotNamesItsPayout
<1>3. MoneyIsKept
  BY PotAssumption, TotalsAreSums DEF MoneyIsKept
<1>4. PotIsReceived
  BY PotAssumption, ReceivedTyped DEF PotIsReceived
<1>5. BookingsAreCounted
  <2> SUFFICES ASSUME NEW u \in Users PROVE SumOver(AmountOf, Booked(u)) <= contributed[u]
    BY DEF BookingsAreCounted
  <2>1. Booked(u) = {}
    BY BookedMeans DEF HasBooked, Calls
  <2> QED
    BY <2>1, SumEmpty
<1> QED
  BY <1>1, <1>2, <1>3, <1>4, <1>5 DEF PotInv

LEMMA StutterKept ==
  ASSUME PotInv, UNCHANGED vars
  PROVE  PotInv'
<1> USE DEF PotInv, vars, engine, pot, calls
<1>1. AllReceived' = AllReceived /\ MoneyIsKept'
  BY NothingMoves
<1>2. TypeOK' /\ AnswersAreTrue' /\ PotIsReceived' /\ SettledPotNamesItsPayout'
  BY <1>1 DEF TypeOK, AnswersAreTrue, PotIsReceived, SettledPotNamesItsPayout
<1>3. BookingsAreCounted'
  BY NothingBooked DEF HasBooked
<1> QED
  BY <1>1, <1>2, <1>3

LEMMA StepKept == PotInv /\ [Next]_vars => PotInv'
<1> SUFFICES ASSUME PotInv, [Next]_vars PROVE PotInv'
  OBVIOUS
<1>1. ASSUME NEW c \in Contributions, ContributionStep(c) PROVE PotInv'
  BY <1>1, BookkeepingKept, TransferKept, RecordKept DEF ContributionStep, Calls
<1>2. ASSUME NEW p \in Payouts, PayoutStep(p) PROVE PotInv'
  BY <1>2, BookkeepingKept, TransferKept DEF PayoutStep, Calls
<1>3. ASSUME NEW c \in Calls, FailToBook(c) \/ Crash(c) PROVE PotInv'
  BY <1>3, BookkeepingKept
<1>4. CASE Elsewhere \/ \E u \in Users : Join(u)
  BY <1>4, SurroundingsKept
<1> QED
  BY <1>1, <1>2, <1>3, <1>4, StutterKept DEF Next

LEMMA PotIsConsistent == Spec => []PotInv
BY InitKept, StepKept, PTL DEF Spec

-----------------------------------------------------------------------------
(* The theorems *)

\* A pot is SETTLED exactly when it names a payout, and that payout has been
\* paid, though Close comes long after the transfer and may come twice.
THEOREM SettledPotsNamePayouts == Spec => []SettledPotNamesItsPayout
<1>1. PotInv => SettledPotNamesItsPayout
  BY DEF PotInv
<1> QED
  BY <1>1, PotIsConsistent, PTL

\* A FUNDED pot has received its target: markFundedIfTargetReached reads the
\* total and writes the status in two statements, between which a payout may
\* empty the pot, and what has been received does not go down.
THEOREM FundedPotsReachedTheirTargets == Spec => []FundedPotReachedItsTarget
<1>1. PotInv => FundedPotReachedItsTarget
  BY DEF PotInv, PotIsReceived, FundedPotReachedItsTarget
<1> QED
  BY <1>1, PotIsConsistent, PTL

\* The breakdown of recordContribution lacks at most the contributions whose
\* calls died or failed before they came to it.
THEOREM BreakdownsMissOnlyTheUnbooked == Spec => []BreakdownMissesOnlyTheUnbooked
<1>1. ASSUME PotInv PROVE BreakdownMissesOnlyTheUnbooked
  <2> SUFFICES ASSUME NEW u \in Users
               PROVE  contributed[u] >= Received[u] - SumOver(AmountOf, Unbooked(u))
    BY DEF BreakdownMissesOnlyTheUnbooked, SumOver, MapThenSumSet, MapThenFoldSet
  <2>1. /\ Unbooked(u) \subseteq PaidKeys(u) /\ IsFiniteSet(PaidKeys(u))
        /\ \A k \in PaidKeys(u) : AmountOf[k] \in Nat
    BY PaidKeysTyped, AmountTyped DEF Unbooked
  <2>2. SumOver(AmountOf, PaidKeys(u)) =
          SumOver(AmountOf, Unbooked(u)) + SumOver(AmountOf, Booked(u))
    BY <2>1, SumOfParts DEF Booked
  <2>3. SumOver(AmountOf, Unbooked(u)) \in Nat /\ SumOver(AmountOf, Booked(u)) \in Nat
    BY <2>1, BookedTyped, FS_Subset, SumIsNat
  <2>4. SumOver(AmountOf, Booked(u)) <= contributed[u] /\ contributed[u] \in Nat
    BY <1>1 DEF PotInv, BookingsAreCounted, TypeOK
  <2> QED
    BY <2>2, <2>3, <2>4, TotalsAreSums
<1> QED
  BY <1>1, PotIsConsistent, PTL

\* A settled pot stays settled by the same payout and a funded pot is never
\* reopened: the status is written by MarkFunded and Close alone, and each
\* write is conditional on the statuses it expects.
THEOREM PotsNeverGoBack == Spec => PotNeverGoesBack
<1> DEFINE Forward == /\ status = "SETTLED" => status' = "SETTLED" /\ settlement' = settlement
                      /\ status = "FUNDED" => status' # "OPEN"
<1>1. ASSUME [Next]_vars PROVE [Forward]_vars
  <2>1. CASE UNCHANGED vars
    BY <2>1
  <2>2. CASE Elsewhere \/ \E u \in Users : Join(u)
    BY <2>2 DEF Elsewhere, Join, pot
  <2>3. ASSUME NEW c \in Calls, FailToBook(c) \/ Crash(c) PROVE Forward
    BY <2>3 DEF FailToBook, Crash, pot
  <2>4. ASSUME NEW c \in Contributions, ContributionStep(c) PROVE Forward
    BY <2>4 DEF ContributionStep, Enter, Contribute, Transfer, Record, Count, MarkFunded,
                Updated, pot
  <2>5. ASSUME NEW p \in Payouts, PayoutStep(p) PROVE Forward
    BY <2>5 DEF PayoutStep, Collect, PayOut, Transfer, Close, Updated, Open, pot
  <2> QED
    BY <1>1, <2>1, <2>2, <2>3, <2>4, <2>5 DEF Next
<1> QED
  BY <1>1, PTL DEF Spec, PotNeverGoesBack
=============================================================================
