--------------------------------- MODULE Pots ---------------------------------
(***************************************************************************)
(* A group pot: PotUseCases.contribute, settle and join, and the           *)
(* statements of PrismaPotRepository they issue.                           *)
(*                                                                         *)
(* A pot owns a wallet, so a contribution and the payout are ordinary      *)
(* transfers.  Everything else about the pot, its status and the members'  *)
(* breakdown, is written by separate statements after the transfer has     *)
(* committed, from what was read before it.  Pots share nothing but the    *)
(* wallets of their members, so one pot is modelled; it has been created   *)
(* when the behaviour begins, by one database transaction.                 *)
(***************************************************************************)
EXTENDS Integers, FiniteSets, FiniteSetsExt

CONSTANTS
  Contributions,  \* calls of contribute
  Payouts,        \* calls of settle
  Member,         \* Member[c]: the authenticated user of call c
  Amount,         \* Amount[c]: what contribution c is to move
  Key,            \* Key[c]: the idempotency key of call c
  Creator,        \* the user who created the pot, a member from the start
  Pot,            \* the pot's wallet; a user is identified with the user's
  Target,         \* target_poisha
  Freezable,      \* the wallets that are frozen and unfrozen meanwhile
  MaxTransfer,
  Keys, Wallets, Opening, Faults,
  NoKey

\* "crash": the process of a call dies; "book": a statement after the transfer
\* fails; the others are those of ProcessCall.
FaultKinds == {"engine", "ack", "redis", "crash", "book"}

Calls == Contributions \cup Payouts
Users == Wallets \ {Pot}

ASSUME CallAssumption ==
  /\ Contributions \cap Payouts = {}
  /\ Member \in [Calls -> Users]
  /\ Amount \in [Contributions -> Nat]
  /\ Key \in [Calls -> Keys]
  /\ \A c \in Contributions : \A p \in Payouts : Key[c] # Key[p]

\* "Minted per attempt, reused if that attempt is retried": a key that is sent
\* again comes with the same contribution.
ASSUME RetryAssumption ==
  \A c, d \in Contributions :
    Key[c] = Key[d] => Member[c] = Member[d] /\ Amount[c] = Amount[d]

\* The pot's wallet is created with the pot, and empty.
ASSUME PotAssumption ==
  /\ IsFiniteSet(Keys) /\ IsFiniteSet(Wallets)
  /\ Creator \in Users
  /\ Pot \in Wallets
  /\ Target \in Nat \ {0}
  /\ Opening \in [Wallets -> Nat] /\ Opening[Pot] = 0
  /\ NoKey \notin Keys
  /\ MaxTransfer \in Nat
  /\ Freezable \subseteq Wallets
  /\ Faults \subseteq FaultKinds

VARIABLES
  verdict, funds, held, usable, refused,  \* the engine: see ProcessCall
  status,        \* the pot's row: status
  settlement,    \*   and settlement_transaction_id, named by its key, or NoKey
  members,       \* the users with a row in pot_members
  contributed,   \* contributed[u]: contributed_poisha of member u
  pc,            \* pc[c]: where call c is
  collected,     \* collected[p]: collectedPoisha as payout p read it
  outcome        \* outcome[c]: what process() answered c

engine == <<verdict, funds, held, usable, refused>>
pot == <<status, settlement, members, contributed>>
calls == <<pc, collected, outcome>>
vars == <<engine, pot, calls>>

-----------------------------------------------------------------------------
(* The engine *)

\* The transfers that contributions and payouts run.
Deposit(c) == [from |-> Member[c], to |-> Pot, amount |-> Amount[c]]
Payout(p) == [from |-> Pot, to |-> Creator, amount |-> collected[p]]

\* What a payout may have collected is at most everything there is.
MostMoney == MapThenSumSet(LAMBDA w : Opening[w], Wallets)

Orders ==
  [k \in Keys |->
     {Deposit(c) : c \in {d \in Contributions : Key[d] = k}} \cup
     {[from |-> Pot, to |-> Creator, amount |-> n] :
        n \in IF \E p \in Payouts : Key[p] = k THEN 1..MostMoney ELSE {}}]

Engine == INSTANCE ProcessCall

\* process() run by call c for order o.
Process(c, o, answer) ==
  \/ Engine!Pays(Key[c], o, answer)
  \/ Engine!Declines(Key[c], o, answer)
  \/ Engine!Replays(Key[c], answer)
  \/ Engine!Rejects(Key[c], o, answer)
  \/ Engine!Breaks(answer)

-----------------------------------------------------------------------------
(* Pieces of actions *)

Stages == {"new", "moving", "recording", "counting", "funding", "closing",
           "done", "failed", "crashed"}

Open == {"OPEN", "FUNDED"}

Goto(c, stage) == pc' = [pc EXCEPT ![c] = stage]

\* Run the transfer, and go on to the bookkeeping if it is COMPLETED.
Transfer(c, o, next) ==
  /\ pc[c] = "moving"
  /\ \E answer \in Engine!Answers :
       /\ Process(c, o, answer)
       /\ outcome' = [outcome EXCEPT ![c] = answer]
       /\ Goto(c, IF answer = "COMPLETED" THEN next ELSE "done")
  /\ UNCHANGED <<pot, collected>>

\* Mutant: the new status is written whatever the present one is.
Updated_Unconditional(to, expected) == to

\* updateStatus: UPDATE ... WHERE status IN (expected).
Updated(to, expected) == IF status \in expected THEN to ELSE status

-----------------------------------------------------------------------------
(* Contributing *)

\* join, joinByCode and addMemberByPhone come to the same insert.  The pot was
\* open when the call read it, and the insert may come any time later.
Join(u) ==
  /\ u \notin members
  /\ members' = members \cup {u}
  /\ UNCHANGED <<engine, status, settlement, contributed, calls>>

\* requireOpenPot and isMember.  Two reads, but nobody ever leaves a pot.
Enter(c) ==
  /\ pc[c] = "new"
  /\ Goto(c, IF status \in Open /\ Member[c] \in members THEN "moving" ELSE "done")
  /\ UNCHANGED <<engine, pot, collected, outcome>>

Contribute(c) == Transfer(c, Deposit(c), "recording")

\* Mutant: the total is overwritten with the amount.
Record_Overwrites(c) ==
  /\ pc[c] = "recording"
  /\ contributed' = [contributed EXCEPT ![Member[c]] = Amount[c]]
  /\ Goto(c, "counting")
  /\ UNCHANGED <<engine, status, settlement, members, collected, outcome>>

\* recordContribution: increments, also when the transfer was a replay.
Record(c) ==
  /\ pc[c] = "recording"
  /\ contributed' = [contributed EXCEPT ![Member[c]] = @ + Amount[c]]
  /\ Goto(c, "counting")
  /\ UNCHANGED <<engine, status, settlement, members, collected, outcome>>

\* Mutant: a pot that lacks one unit counts as funded.
Count_OffByOne(c) ==
  /\ pc[c] = "counting"
  /\ Goto(c, IF status = "OPEN" /\ funds[Pot] + 1 >= Target THEN "funding" ELSE "done")
  /\ UNCHANGED <<engine, pot, collected, outcome>>

\* markFundedIfTargetReached reads the pot,
Count(c) ==
  /\ pc[c] = "counting"
  /\ Goto(c, IF status = "OPEN" /\ funds[Pot] >= Target THEN "funding" ELSE "done")
  /\ UNCHANGED <<engine, pot, collected, outcome>>

\* and writes its status.
MarkFunded(c) ==
  /\ pc[c] = "funding"
  /\ status' = Updated("FUNDED", {"OPEN"})
  /\ Goto(c, "done")
  /\ UNCHANGED <<engine, settlement, members, contributed, collected, outcome>>

-----------------------------------------------------------------------------
(* Paying out *)

\* The checks of settle, and the amount it is going to move.
Collect(p) ==
  /\ pc[p] = "new"
  /\ IF Member[p] = Creator /\ status \in Open /\ funds[Pot] > 0
     THEN /\ Goto(p, "moving")
          /\ collected' = [collected EXCEPT ![p] = funds[Pot]]
     ELSE /\ Goto(p, "done")
          /\ UNCHANGED collected
  /\ UNCHANGED <<engine, pot, outcome>>

\* Mutant: the pot is closed before the transfer is known to be COMPLETED.
PayOut_AnyAnswer(p) ==
  /\ pc[p] = "moving"
  /\ \E answer \in Engine!Answers :
       /\ Process(p, Payout(p), answer)
       /\ outcome' = [outcome EXCEPT ![p] = answer]
  /\ Goto(p, "closing")
  /\ UNCHANGED <<pot, collected>>

PayOut(p) == Transfer(p, Payout(p), "closing")

Close(p) ==
  /\ pc[p] = "closing"
  /\ status' = Updated("SETTLED", Open)
  /\ settlement' = IF status \in Open THEN Key[p] ELSE settlement
  /\ Goto(p, "done")
  /\ UNCHANGED <<engine, members, contributed, collected, outcome>>

-----------------------------------------------------------------------------
(* Faults *)

\* A statement after the transfer fails, and the call throws.
FailToBook(c) ==
  /\ "book" \in Faults
  /\ pc[c] \in {"recording", "counting", "funding", "closing"}
  /\ Goto(c, "failed")
  /\ UNCHANGED <<engine, pot, collected, outcome>>

Crash(c) ==
  /\ "crash" \in Faults
  /\ pc[c] \notin {"new", "done", "failed", "crashed"}
  /\ Goto(c, "crashed")
  /\ UNCHANGED <<engine, pot, collected, outcome>>

\* Redis forgets, and the wallets are frozen and unfrozen.
Elsewhere ==
  /\ \/ \E k \in Keys : Engine!Forget(k)
     \/ Engine!Regulate /\ Wallets \ Freezable \subseteq usable' /\ UNCHANGED refused
  /\ UNCHANGED <<pot, calls>>

-----------------------------------------------------------------------------
Init ==
  /\ usable = Wallets
  /\ Engine!Init
  /\ refused = {}
  /\ status = "OPEN"
  /\ settlement = NoKey
  /\ members = {Creator}
  /\ contributed = [u \in Users |-> 0]
  /\ pc = [c \in Calls |-> "new"]
  /\ collected = [p \in Payouts |-> 0]
  /\ outcome = [c \in Calls |-> "none"]

ContributionStep(c) ==
  Enter(c) \/ Contribute(c) \/ Record(c) \/ Count(c) \/ MarkFunded(c)

PayoutStep(p) == Collect(p) \/ PayOut(p) \/ Close(p)

Next ==
  \/ \E c \in Contributions : ContributionStep(c)
  \/ \E p \in Payouts : PayoutStep(p)
  \/ \E c \in Calls : FailToBook(c) \/ Crash(c)
  \/ \E u \in Users : Join(u)
  \/ Elsewhere

Spec == Init /\ [][Next]_vars

-----------------------------------------------------------------------------
(* Reading the state *)

\* The contributions that are paid, one call for each key.
PaidKeys(u) == {k \in Keys : verdict[k] = "paid" /\
                             \E c \in Contributions : Key[c] = k /\ Member[c] = u}

AmountOf == [k \in {Key[c] : c \in Contributions} |->
               Amount[CHOOSE c \in Contributions : Key[c] = k]]

Received == [u \in Users |-> MapThenSumSet(LAMBDA k : AmountOf[k], PaidKeys(u))]

AllReceived == MapThenSumSet(LAMBDA u : Received[u], Users)

\* Paid keys none of whose calls has come to the end of its bookkeeping.
Unbooked(u) ==
  {k \in PaidKeys(u) : ~\E c \in Contributions :
                          Key[c] = k /\ outcome[c] = "COMPLETED" /\
                          pc[c] \in {"counting", "funding", "done"}}

-----------------------------------------------------------------------------
(* Safety *)

\* Every variable has its type.
TypeOK ==
  /\ verdict \in [Keys -> {"open", "paid", "declined"}]
  /\ funds \in [Wallets -> Int] /\ held \in [Wallets -> Int]
  /\ usable \subseteq Wallets /\ refused \subseteq Keys
  /\ status \in {"OPEN", "FUNDED", "SETTLED"}
  /\ settlement \in Keys \cup {NoKey}
  /\ members \subseteq Users
  /\ contributed \in [Users -> Nat]
  /\ pc \in [Calls -> Stages]
  /\ collected \in [Payouts -> 0..MostMoney]
  /\ outcome \in [Calls -> Engine!Answers \cup {"none"}]

\* A pot is SETTLED exactly when it names a payout, and the payout it names
\* has been paid (constraint pots_settlement_matches_status).
SettledPotNamesItsPayout ==
  /\ status = "SETTLED" <=> settlement # NoKey
  /\ settlement # NoKey => verdict[settlement] = "paid"

\* A pot is FUNDED only if its members have brought the target together,
\* although the total is read and the status written in two statements.
FundedPotReachedItsTarget == status = "FUNDED" => AllReceived >= Target

\* The breakdown never misses money for which a call was answered COMPLETED
\* and finished its bookkeeping: an update is lost only with its call.
BreakdownMissesOnlyTheUnbooked ==
  \A u \in Users :
    contributed[u] >= Received[u] - MapThenSumSet(LAMBDA k : AmountOf[k], Unbooked(u))

-----------------------------------------------------------------------------
(* Action properties *)

\* A settled pot stays settled, with the payout that settled it, and a funded
\* pot is never reopened, whichever of two late status writes comes first.
PotNeverGoesBack ==
  [][/\ status = "SETTLED" => status' = "SETTLED" /\ settlement' = settlement
     /\ status = "FUNDED" => status' # "OPEN"]_vars

-----------------------------------------------------------------------------
(* What the documentation says and the code does not do *)

\* pot.use-cases.ts: "Pays the pot out to its creator and closes it."
SettledPotIsEmpty == status = "SETTLED" => funds[Pot] = 0
=============================================================================
