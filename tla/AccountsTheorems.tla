--------------------------- MODULE AccountsTheorems ---------------------------
(***************************************************************************)
(* An account is one person's and its opening balance is issued once, for  *)
(* every set of registrations, seeds and transfers.  What makes it         *)
(* inductive: a registration whose row is not committed yet already holds  *)
(* its phone and its e-mail against all others, and one that is about to   *)
(* commit still has the balance of the genesis wallet that it read.        *)
(*                                                                         *)
(* The books drift only by seeds: registrations and transfers post what    *)
(* they change and nothing else, so a wallet on which no seed's posting    *)
(* lies about the balance has exactly the sum of its postings; and what is *)
(* posted to one wallet is posted against another in the same commit.      *)
(***************************************************************************)
EXTENDS Accounts, SumTheorems

Calls == Registrations \cup Logins \cup Seeds \cup Transfers

Stages ==
  {"new", "limited", "taken", "preparing", "inserting", "invalid", "conflict", "decrementing",
   "posting", "answering", "registered", "error", "refused", "in", "users", "looking",
   "issuing", "verifying", "complete", "failed", "done"}

\* Those who hold a phone and an e-mail: accounts, and rows not yet committed.
Holders == account \cup InFlight

HoldersAreDistinct ==
  \A o, p \in Holders : o # p => Unique[o] \cap Unique[p] = {}

\* The account of a registration is there once it has committed.
AccountsFollowCommits ==
  \A r \in Registrations \cap account : at[r] \in {"answering", "registered", "error"}

RefusalsAreTrue ==
  \A r \in Registrations :
    at[r] \in {"taken", "conflict"} =>
      \E o \in account : o # r /\ Unique[o] \cap Unique[r] # {}

\* The inductive invariant.
AccountsInv ==
  /\ at \in [Calls -> Stages]
  /\ account \subseteq Owners
  /\ next \in [Seeds -> Nat \ {0}]
  /\ HoldersAreDistinct
  /\ AccountsFollowCommits
  /\ RefusalsAreTrue

-----------------------------------------------------------------------------
\* Among holders nobody is added whose phone or e-mail another holder has.
LEMMA HoldersKept ==
  ASSUME AccountsInv, NEW o, Holders' \subseteq Holders \cup {o},
         o \notin Holders => ~Clash(o, account) /\ ~Clash(o, InFlight)
  PROVE  HoldersAreDistinct'
BY DEF AccountsInv, HoldersAreDistinct, Holders, Clash

LEMMA CheckKept ==
  ASSUME AccountsInv, NEW r \in Registrations, Check(r)
  PROVE  AccountsInv'
<1> USE AccountsAssumption DEF AccountsInv, Check, Goto, Calls, Stages
<1>1. r \notin account /\ at' \in [Calls -> Stages]
  BY DEF AccountsFollowCommits
<1>2. HoldersAreDistinct'
  BY <1>1 DEF HoldersAreDistinct, Holders, InFlight
<1>3. AccountsFollowCommits'
  BY <1>1 DEF AccountsFollowCommits
<1>4. RefusalsAreTrue'
  <2>1. ASSUME NEW o \in account, Phone[o] = Phone[r]
        PROVE  o # r /\ Unique[o] \cap Unique[r] # {}
    <3>1. o \in Owners /\ r \in Owners
      BY DEF Owners
    <3> QED
      BY <1>1, <2>1, <3>1
  <2>2. at'[r] = "taken" => \E o \in account : o # r /\ Unique[o] \cap Unique[r] # {}
    BY <2>1
  <2>3. at'[r] # "conflict" /\ \A q \in Registrations \ {r} : at'[q] = at[q]
    OBVIOUS
  <2> QED
    BY <2>2, <2>3 DEF RefusalsAreTrue
<1> QED
  BY <1>1, <1>2, <1>3, <1>4

LEMMA InsertUserKept ==
  ASSUME AccountsInv, NEW r \in Registrations, InsertUser(r)
  PROVE  AccountsInv'
<1> USE AccountsAssumption DEF AccountsInv, InsertUser, Goto, Calls, Stages
<1>1. r \notin account /\ at' \in [Calls -> Stages]
  BY DEF AccountsFollowCommits
<1>2. HoldersAreDistinct'
  <2>1. CASE Clash(r, account)
    <3>1. Holders' \subseteq Holders
      BY <2>1 DEF Holders, InFlight
    <3> QED
      BY <3>1 DEF HoldersAreDistinct
  <2>2. CASE ~Clash(r, account)
    <3>1. Holders' \subseteq Holders \cup {r}
      BY <2>2 DEF Holders, InFlight
    <3> QED
      BY <2>2, <3>1, HoldersKept
  <2> QED
    BY <2>1, <2>2
<1>3. AccountsFollowCommits'
  BY <1>1 DEF AccountsFollowCommits
<1>4. RefusalsAreTrue'
  BY DEF RefusalsAreTrue, Clash
<1> QED
  BY <1>1, <1>2, <1>3, <1>4

LEMMA RestOfRegistrationKept ==
  ASSUME AccountsInv, NEW r \in Registrations,
         Prepare(r) \/ Decrement(r) \/ Commit(r) \/ Answer(r) \/ Abort(r)
  PROVE  AccountsInv'
<1> USE AccountsAssumption DEF AccountsInv, Goto, Calls, Stages
<1>1. at' \in [Calls -> Stages] /\ account' \subseteq Owners /\ UNCHANGED next
  BY DEF Prepare, Decrement, Commit, Answer, Abort, Owners
<1>2. Holders' \subseteq Holders
  BY DEF Prepare, Decrement, Commit, Answer, Abort, Holders, InFlight
<1>3. HoldersAreDistinct'
  BY <1>2 DEF HoldersAreDistinct
<1>4. AccountsFollowCommits'
  BY DEF Prepare, Decrement, Commit, Answer, Abort, AccountsFollowCommits
<1>5. RefusalsAreTrue'
  BY DEF Prepare, Decrement, Commit, Answer, Abort, RefusalsAreTrue
<1> QED
  BY <1>1, <1>3, <1>4, <1>5

LEMMA UpsertUserKept ==
  ASSUME AccountsInv, NEW s \in Seeds, UpsertUser(s)
  PROVE  AccountsInv'
<1> USE AccountsAssumption DEF AccountsInv, UpsertUser, Goto, Calls, Stages, Advance
<1> DEFINE f == Fixture[next[s]]
<1>1. /\ at' \in [Calls -> Stages] /\ next' \in [Seeds -> Nat \ {0}]
      /\ \A r \in Registrations : at'[r] = at[r]
  <2>1. next[s] \in Nat /\ next[s] + 1 \in Nat \ {0}
    OBVIOUS
  <2>2. next' \in {next, [next EXCEPT ![s] = 1], [next EXCEPT ![s] = @ + 1]}
    OBVIOUS
  <2>3. next' \in [Seeds -> Nat \ {0}]
    BY <2>1, <2>2
  <2>4. \E stage \in {at[s], "looking", "failed"} : at' = [at EXCEPT ![s] = stage]
    OBVIOUS
  <2> QED
    BY <2>3, <2>4
<1>2. CASE UNCHANGED account
  <2>1. Holders' = Holders
    BY <1>1, <1>2 DEF Holders, InFlight
  <2> QED
    BY <1>1, <1>2, <2>1 DEF HoldersAreDistinct, AccountsFollowCommits, RefusalsAreTrue
<1>3. CASE account' # account
  <2>1. /\ More(s) /\ account' = account \cup {f}
        /\ ~Clash(f, account) /\ ~Clash(f, InFlight)
    BY <1>3
  <2>2. next[s] \in DOMAIN Fixture
    BY <2>1 DEF More
  <2>3. f \in Fixtures /\ f \notin Registrations
    BY <2>2 DEF Fixtures
  <2>4. Holders' \subseteq Holders \cup {f}
    BY <1>1, <2>1 DEF Holders, InFlight
  <2>5. HoldersAreDistinct'
    BY <2>1, <2>4, HoldersKept
  <2>6. AccountsFollowCommits' /\ RefusalsAreTrue'
    BY <1>1, <2>1, <2>3 DEF AccountsFollowCommits, RefusalsAreTrue
  <2> QED
    BY <1>1, <2>1, <2>3, <2>5, <2>6 DEF Owners
<1> QED
  BY <1>2, <1>3

\* The other steps concern neither an account nor a registration.
LEMMA OthersKept ==
  ASSUME AccountsInv,
         \/ \E l \in Logins : Login(l)
         \/ \E s \in Seeds : LookUp(s) \/ Issue(s) \/ VerifyBooks(s) \/ Interrupt(s)
         \/ \E t \in Transfers : Transfer(t)
  PROVE  AccountsInv'
<1> USE AccountsAssumption DEF AccountsInv, Goto, Calls, Stages, Advance
<1>1. ASSUME NEW s \in Seeds, LookUp(s) \/ Issue(s) \/ VerifyBooks(s) \/ Interrupt(s)
      PROVE  /\ next' \in [Seeds -> Nat \ {0}] /\ UNCHANGED account
             /\ at' \in [Calls -> Stages] /\ \A r \in Registrations : at'[r] = at[r]
  <2>1. next[s] \in Nat /\ next[s] + 1 \in Nat \ {0}
    OBVIOUS
  <2>2. next' \in {next, [next EXCEPT ![s] = @ + 1]} /\ UNCHANGED account
    BY <1>1 DEF LookUp, Issue, VerifyBooks, Interrupt
  <2>3. next' \in [Seeds -> Nat \ {0}]
    BY <2>1, <2>2
  <2>4. \E stage \in {at[s], "issuing", "verifying", "looking", "complete", "failed"} :
          at' = [at EXCEPT ![s] = stage]
    BY <1>1 DEF LookUp, Issue, VerifyBooks, Interrupt
  <2> QED
    BY <2>2, <2>3, <2>4
<1>2. ASSUME NEW c \in Logins \cup Transfers,
             (c \in Logins /\ Login(c)) \/ (c \in Transfers /\ Transfer(c))
      PROVE  /\ UNCHANGED <<next, account>>
             /\ at' \in [Calls -> Stages] /\ \A r \in Registrations : at'[r] = at[r]
  BY <1>2 DEF Login, Transfer
<1>3. /\ next' \in [Seeds -> Nat \ {0}] /\ UNCHANGED account
      /\ at' \in [Calls -> Stages] /\ \A r \in Registrations : at'[r] = at[r]
  BY <1>1, <1>2
<1> QED
  BY <1>3 DEF HoldersAreDistinct, Holders, InFlight, AccountsFollowCommits, RefusalsAreTrue

LEMMA InitAccounts == Init => AccountsInv
BY AccountsAssumption DEF Init, AccountsInv, Calls, Stages, HoldersAreDistinct, Holders, InFlight,
   AccountsFollowCommits, RefusalsAreTrue

LEMMA StepAccounts == AccountsInv /\ [Next]_vars => AccountsInv'
<1> SUFFICES ASSUME AccountsInv, [Next]_vars
             PROVE  AccountsInv'
  OBVIOUS
<1>1. CASE UNCHANGED vars
  BY <1>1 DEF vars, AccountsInv, Calls, Stages, HoldersAreDistinct, Holders, InFlight,
     AccountsFollowCommits, RefusalsAreTrue
<1> QED
  BY <1>1, CheckKept, InsertUserKept, RestOfRegistrationKept, UpsertUserKept, OthersKept DEF Next

-----------------------------------------------------------------------------
\* A phone and an e-mail are one account's, however registrations and seeds
\* interleave, and who is told that they are taken is told the truth:
\* RegisterUserUseCase, createWithWallet and seedUsers.
THEOREM AccountsStayDistinct == Spec => []AccountsAreDistinct
<1>1. AccountsInv => AccountsAreDistinct
  BY DEF AccountsInv, HoldersAreDistinct, Holders, RefusalsAreTrue, AccountsAreDistinct
<1> QED
  BY <1>1, InitAccounts, StepAccounts, PTL DEF Spec

-----------------------------------------------------------------------------
(* Adding up the ledger *)

Entry ==
  [wallet : Wallets, amount : Int, after : Int, of : Owners \cup Transfers,
   by : {"registration", "seed", "engine"}]

AmountsOf(L) == [i \in DOMAIN L |-> L[i].amount]

\* What the postings S of a ledger L come to.
Column(L, S) == MapThenSumSet(LAMBDA i : L[i].amount, S)

\* Running, of any ledger, as a function of the number of postings.
Tally(L, w) == [n \in 0..Len(L) |-> Column(L, {i \in 1..n : L[i].wallet = w})]

\* The column is a sum over a function.
LEMMA ColumnIsSum ==
  ASSUME NEW L, NEW S \in SUBSET DOMAIN L
  PROVE  Column(L, S) = SumOver(AmountsOf(L), S)
<1> DEFINE Total(g) ==
             g = [s \in SUBSET S |-> IF s = {} THEN 0 ELSE L[Pick(s)].amount + g[s \ {Pick(s)}]]
<1>1. ASSUME NEW g PROVE Sums(AmountsOf(L), g, S) <=> Total(g)
  BY PickIn DEF Sums, Part, AmountsOf
<1>2. Column(L, S) = (CHOOSE g : Total(g))[S]
  BY DEF Column, MapThenSumSet, MapThenFoldSet, Pick
<1>3. (CHOOSE g : Sums(AmountsOf(L), g, S)) = (CHOOSE g : Total(g))
  BY <1>1
<1> QED
  BY <1>2, <1>3, SumDef

\* One more posting, and postings that two ledgers share.
LEMMA ColumnAdd ==
  ASSUME NEW L \in Seq(Entry), NEW S \in SUBSET DOMAIN L, IsFiniteSet(S),
         NEW j \in DOMAIN L, j \notin S
  PROVE  /\ Column(L, S) \in Int
         /\ Column(L, S \cup {j}) = L[j].amount + Column(L, S)
<1>1. \A i \in DOMAIN L : L[i] \in Entry
  OBVIOUS
<1>2. \A i \in DOMAIN L : AmountsOf(L)[i] = L[i].amount /\ L[i].amount \in Int
  BY <1>1 DEF AmountsOf, Entry
<1>3. S \cup {j} \in SUBSET DOMAIN L
  OBVIOUS
<1>4. SumOver(AmountsOf(L), S) \in Int
  BY <1>2, SumIsInt
<1>5. SumOver(AmountsOf(L), S \cup {j}) = AmountsOf(L)[j] + SumOver(AmountsOf(L), S)
  BY <1>2, SumAdd
<1> QED
  BY <1>2, <1>3, <1>4, <1>5, ColumnIsSum

LEMMA ColumnAgrees ==
  ASSUME NEW L, NEW M, NEW S \in SUBSET DOMAIN L, S \subseteq DOMAIN M, IsFiniteSet(S),
         \A i \in S : L[i] = M[i]
  PROVE  Column(L, S) = Column(M, S)
<1>1. \A i \in S : AmountsOf(L)[i] = AmountsOf(M)[i]
  BY DEF AmountsOf
<1> QED
  BY <1>1, ColumnIsSum, SumAgrees

\* The running balance of a wallet, one posting later.
LEMMA RunningStep ==
  ASSUME NEW L \in Seq(Entry), NEW w, NEW k \in Nat, k < Len(L)
  PROVE  /\ Tally(L, w)[k] \in Int
         /\ Tally(L, w)[k + 1] =
              Tally(L, w)[k] + (IF L[k + 1].wallet = w THEN L[k + 1].amount ELSE 0)
<1> DEFINE S == {i \in 1..k : L[i].wallet = w}
           T == {i \in 1..(k + 1) : L[i].wallet = w}
<1>1. S \in SUBSET DOMAIN L /\ k + 1 \in DOMAIN L /\ k + 1 \notin S /\ L[k + 1] \in Entry
  OBVIOUS
<1>2. IsFiniteSet(S)
  <2>1. S \subseteq 1..k /\ k \in Int /\ 1 \in Int
    OBVIOUS
  <2> HIDE DEF S
  <2> QED
    BY <2>1, FS_Interval, FS_Subset
<1>3. Tally(L, w)[k] = Column(L, S) /\ Tally(L, w)[k + 1] = Column(L, T)
  BY DEF Tally
<1>4. /\ L[k + 1].wallet = w => T = S \cup {k + 1}
      /\ L[k + 1].wallet # w => T = S
  OBVIOUS
<1>5. L[k + 1].amount \in Int
  BY <1>1 DEF Entry
<1> HIDE DEF S, T
<1>6. /\ Column(L, S) \in Int
      /\ Column(L, S \cup {k + 1}) = L[k + 1].amount + Column(L, S)
  BY <1>1, <1>2, ColumnAdd
<1>7. CASE L[k + 1].wallet = w
  <2>1. Column(L, T) = L[k + 1].amount + Column(L, S)
    BY <1>4, <1>6, <1>7
  <2> QED
    BY <1>3, <1>5, <1>6, <1>7, <2>1
<1>8. CASE L[k + 1].wallet # w
  BY <1>3, <1>4, <1>6, <1>8
<1> QED
  BY <1>7, <1>8

\* Ledger M is L and two legs at its end.
Extends(M, L, a, b) ==
  /\ M \in Seq(Entry) /\ Len(M) = Len(L) + 2 /\ Len(L) \in Nat
  /\ DOMAIN L = 1..Len(L) /\ DOMAIN M = 1..(Len(L) + 2)
  /\ \A i \in 1..Len(L) : M[i] = L[i]
  /\ M[Len(L) + 1] = a /\ M[Len(L) + 2] = b

LEMMA LegsExtend ==
  ASSUME NEW L \in Seq(Entry), NEW a \in Entry, NEW b \in Entry, NEW M, M = L \o <<a, b>>
  PROVE  Extends(M, L, a, b)
BY DEF Extends

\* The running balances so far stay as they are.
LEMMA LegsKeepTallies ==
  ASSUME NEW L \in Seq(Entry), NEW a \in Entry, NEW b \in Entry, NEW M, Extends(M, L, a, b),
         NEW w \in Wallets, NEW k \in 0..Len(L)
  PROVE  Tally(M, w)[k] = Tally(L, w)[k]
<1> DEFINE S == {i \in 1..k : L[i].wallet = w}
<1>1. S = {i \in 1..k : M[i].wallet = w}
  BY DEF Extends
<1>2. S \in SUBSET DOMAIN L /\ S \subseteq DOMAIN M /\ \A i \in S : L[i] = M[i]
  BY DEF Extends
<1>3. IsFiniteSet(S)
  <2>1. S \subseteq 1..k /\ k \in Int /\ 1 \in Int
    OBVIOUS
  <2> HIDE DEF S
  <2> QED
    BY <2>1, FS_Interval, FS_Subset
<1>4. Tally(L, w)[k] = Column(L, S)
  BY DEF Tally
<1>5. Tally(M, w)[k] = Column(M, {i \in 1..k : M[i].wallet = w})
  BY DEF Tally, Extends
<1> HIDE DEF S
<1> QED
  BY <1>1, <1>2, <1>3, <1>4, <1>5, ColumnAgrees

\* ledger_conservation_check, of any ledger.
NetOf(L) == Column(L, DOMAIN L)

LEMMA LegsNet ==
  ASSUME NEW L \in Seq(Entry), NEW a \in Entry, NEW b \in Entry, NEW M, Extends(M, L, a, b)
  PROVE  NetOf(M) = NetOf(L) + a.amount + b.amount /\ NetOf(L) \in Int
<1> DEFINE n == Len(L)
           S == 1..n
           T == S \cup {n + 1}
<1>1. M \in Seq(Entry) /\ n + 1 \in DOMAIN M /\ n + 2 \in DOMAIN M /\ M[n + 1] = a /\ M[n + 2] = b
  BY DEF Extends
<1>2. /\ S \in SUBSET DOMAIN M /\ n + 1 \notin S /\ T \in SUBSET DOMAIN M /\ n + 2 \notin T
      /\ DOMAIN L = S /\ DOMAIN M = T \cup {n + 2} /\ \A i \in S : L[i] = M[i]
  BY DEF Extends
<1>3. IsFiniteSet(S)
  BY FS_Interval
<1>4. a.amount \in Int /\ b.amount \in Int
  BY DEF Entry
<1> HIDE DEF S
<1>5. IsFiniteSet(T)
  BY <1>3, FS_AddElement
<1> HIDE DEF n
<1>6. Column(M, S) \in Int /\ Column(M, T) = a.amount + Column(M, S)
  BY <1>1, <1>2, <1>3, ColumnAdd
<1> HIDE DEF T
<1>7. Column(M, T \cup {n + 2}) = b.amount + Column(M, T)
  BY <1>1, <1>2, <1>5, ColumnAdd
<1>8. Column(L, S) = Column(M, S)
  BY <1>2, <1>3, ColumnAgrees
<1>9. NetOf(L) = Column(L, S) /\ NetOf(M) = Column(M, T \cup {n + 2})
  BY <1>2 DEF NetOf
<1> QED
  BY <1>4, <1>6, <1>7, <1>8, <1>9

-----------------------------------------------------------------------------
(* The books *)

\* Wallet w is as honest as the seed's postings on it: if their balances are
\* the sums up to them, the balance column is the sum of all.
Honest(L, column, w) ==
  (\A i \in DOMAIN L : L[i].wallet = w /\ L[i].by = "seed" => L[i].after = Tally(L, w)[i])
  => column[w] = Tally(L, w)[Len(L)]

\* Posting i is the opening of account o.
Opens(i, o) == ledger[i].wallet = o /\ ledger[i].of = o

\* A seed issues to a fixture, and a registration that is about to commit has
\* the row lock and the balance that it read.
PostingsArePrepared ==
  /\ \A s \in Seeds : at[s] = "issuing" => next[s] \in DOMAIN Fixture
  /\ \A r \in Registrations :
       at[r] = "posting" => lock = r /\ after[r] = balance[Genesis] - Opening

\* Nothing is posted for a registration before it commits.
LedgerIsOfAccounts ==
  \A r \in Registrations \ account :
    balance[r] = 0 /\ \A i \in DOMAIN ledger : ledger[i].wallet # r /\ ledger[i].of # r

OpeningsAreSingle ==
  /\ \A o \in Owners : \A i, j \in DOMAIN ledger : Opens(i, o) /\ Opens(j, o) => i = j
  /\ \A r \in Registrations \cap account : \E i \in DOMAIN ledger : Opens(i, r)

BooksInv ==
  /\ balance \in [Wallets -> Int] /\ ledger \in Seq(Entry)
  /\ after \in [Registrations -> Int] /\ memory \in [Seeds -> Int]
  /\ PostingsArePrepared /\ LedgerIsOfAccounts /\ OpeningsAreSingle
  /\ NetOf(ledger) = 0
  /\ \A w \in Wallets : Honest(ledger, balance, w)

\* The definitions of the model, of the present ledger.
LEMMA BooksOfModel ==
  /\ Net = NetOf(ledger)
  /\ \A w \in Wallets : \A n \in 0..Len(ledger) : Running(w, n) = Tally(ledger, w)[n]
BY DEF Net, NetOf, Running, Tally, Column

\* A step that posts nothing and changes no balance.
LEMMA QuietStepKept ==
  ASSUME AccountsInv, BooksInv, UNCHANGED <<ledger, balance>>,
         after' \in [Registrations -> Int], memory' \in [Seeds -> Int],
         account \subseteq account', account' \cap Registrations = account \cap Registrations,
         PostingsArePrepared'
  PROVE  BooksInv'
BY DEF BooksInv, LedgerIsOfAccounts, OpeningsAreSingle, Opens

\* A posting in two legs keeps every wallet as honest as it was: each leg
\* either moves the balance by its amount, or is a seed's and sets it.
LEMMA HonestKept ==
  ASSUME ledger \in Seq(Entry), balance \in [Wallets -> Int],
         \A w \in Wallets : Honest(ledger, balance, w),
         NEW a \in Entry, NEW b \in Entry, a.wallet # b.wallet,
         ledger' = ledger \o <<a, b>>,
         \A w \in Wallets \ {a.wallet, b.wallet} : balance'[w] = balance[w],
         \A e \in {a, b} : \/ e.by = "seed" /\ balance'[e.wallet] = e.after
                           \/ balance'[e.wallet] = balance[e.wallet] + e.amount
  PROVE  \A w \in Wallets : Honest(ledger', balance', w)
<1> DEFINE n == Len(ledger)
<1>m. PICK M : M = ledger'
  OBVIOUS
<1>x. Extends(M, ledger, a, b)
  BY <1>m, LegsExtend
<1>1. /\ M \in Seq(Entry) /\ Len(M) = n + 2 /\ M[n + 1] = a /\ M[n + 2] = b
      /\ DOMAIN M = 1..(n + 2) /\ \A i \in 1..n : M[i] = ledger[i]
  BY <1>x DEF Extends
<1>2. n \in Nat /\ DOMAIN ledger = 1..n /\ a.amount \in Int /\ b.amount \in Int
  BY DEF Entry
<1> SUFFICES ASSUME NEW w \in Wallets,
                    \A i \in DOMAIN M : M[i].wallet = w /\ M[i].by = "seed"
                                        => M[i].after = Tally(M, w)[i]
             PROVE  balance'[w] = Tally(M, w)[n + 2]
  BY <1>m, <1>1 DEF Honest
<1> HIDE DEF n
<1>3. balance[w] = Tally(M, w)[n] /\ balance[w] \in Int
  <2>1. \A i \in 0..n : Tally(M, w)[i] = Tally(ledger, w)[i]
    BY <1>x, LegsKeepTallies DEF n
  <2>2. ASSUME NEW i \in DOMAIN ledger, ledger[i].wallet = w /\ ledger[i].by = "seed"
        PROVE  ledger[i].after = Tally(ledger, w)[i]
    <3>1. i \in DOMAIN M /\ M[i] = ledger[i] /\ i \in 0..n
      BY <1>1, <1>2
    <3> QED
      BY <2>1, <2>2, <3>1
  <2>3. balance[w] = Tally(ledger, w)[n] /\ balance[w] \in Int
    BY <2>2 DEF Honest, n
  <2> QED
    BY <1>2, <2>1, <2>3
<1>4. /\ Tally(M, w)[n + 1] =
           Tally(M, w)[n] + (IF a.wallet = w THEN a.amount ELSE 0)
      /\ Tally(M, w)[(n + 1) + 1] =
           Tally(M, w)[n + 1] + (IF b.wallet = w THEN b.amount ELSE 0)
  <2>1. n + 1 \in Nat /\ n < Len(M) /\ n + 1 < Len(M) /\ (n + 1) + 1 = n + 2
    BY <1>1, <1>2
  <2>2. ASSUME NEW k \in Nat, k < Len(M)
        PROVE  Tally(M, w)[k + 1] =
                 Tally(M, w)[k] + (IF M[k + 1].wallet = w THEN M[k + 1].amount ELSE 0)
    BY <1>1, <2>2, RunningStep
  <2>3. Tally(M, w)[n + 1] =
          Tally(M, w)[n] + (IF M[n + 1].wallet = w THEN M[n + 1].amount ELSE 0)
    BY <1>2, <2>1, <2>2
  <2>4. Tally(M, w)[(n + 1) + 1] =
          Tally(M, w)[n + 1] + (IF M[(n + 1) + 1].wallet = w THEN M[(n + 1) + 1].amount ELSE 0)
    BY <2>1, <2>2
  <2> QED
    BY <1>1, <2>1, <2>3, <2>4
<1>5. (n + 1) + 1 = n + 2
  BY <1>2
<1>6. CASE w = a.wallet
  <2>1. Tally(M, w)[n + 1] = balance[w] + a.amount /\ Tally(M, w)[n + 2] = balance[w] + a.amount
    BY <1>2, <1>3, <1>4, <1>5, <1>6
  <2>2. a.by = "seed" => a.after = Tally(M, w)[n + 1]
    <3>1. n + 1 \in DOMAIN M /\ M[n + 1] = a
      BY <1>1, <1>2
    <3> QED
      BY <1>6, <3>1
  <2> QED
    BY <1>6, <2>1, <2>2
<1>7. CASE w = b.wallet
  <2>1. Tally(M, w)[n + 2] = balance[w] + b.amount
    BY <1>2, <1>3, <1>4, <1>5, <1>7
  <2>2. b.by = "seed" => b.after = Tally(M, w)[n + 2]
    <3>1. n + 2 \in DOMAIN M /\ M[n + 2] = b
      BY <1>1, <1>2
    <3> QED
      BY <1>7, <3>1
  <2> QED
    BY <1>7, <2>1, <2>2
<1>8. CASE w \notin {a.wallet, b.wallet}
  BY <1>2, <1>3, <1>4, <1>5, <1>8
<1> QED
  BY <1>6, <1>7, <1>8

\* A posting keeps the books, if its legs cancel and it opens no account twice.
LEMMA PostingKept ==
  ASSUME BooksInv, NEW a \in Entry, NEW b \in Entry,
         ledger' = ledger \o <<a, b>>, a.wallet # b.wallet, a.amount = -b.amount,
         balance' \in [Wallets -> Int],
         \A w \in Wallets \ {a.wallet, b.wallet} : balance'[w] = balance[w],
         \A e \in {a, b} : \/ e.by = "seed" /\ balance'[e.wallet] = e.after
                           \/ balance'[e.wallet] = balance[e.wallet] + e.amount,
         account \subseteq account',
         \A r \in Registrations :
           r \in {a.wallet, a.of, b.wallet, b.of} => r \in account',
         \A r \in (Registrations \cap account') \ account : b.wallet = r /\ b.of = r,
         a.of # a.wallet,
         b.of = b.wallet => \A i \in DOMAIN ledger : ~Opens(i, b.wallet),
         after' \in [Registrations -> Int], memory' \in [Seeds -> Int],
         PostingsArePrepared'
  PROVE  BooksInv'
<1> DEFINE n == Len(ledger)
<1>1. PICK M : M = ledger'
  OBVIOUS
<1>2. ledger \in Seq(Entry) /\ Extends(M, ledger, a, b)
  BY <1>1, LegsExtend DEF BooksInv
<1>3. /\ M \in Seq(Entry) /\ n \in Nat /\ DOMAIN ledger = 1..n
      /\ DOMAIN M = 1..(n + 2) /\ \A i \in 1..n : M[i] = ledger[i]
      /\ M[n + 1] = a /\ M[n + 2] = b
  BY <1>2 DEF Extends
<1> HIDE DEF n
<1>4. ASSUME NEW i \in DOMAIN M
      PROVE  \/ i \in DOMAIN ledger /\ M[i] = ledger[i]
             \/ i = n + 1 /\ M[i] = a
             \/ i = n + 2 /\ M[i] = b
  <2>1. i \in 1..n \/ i = n + 1 \/ i = n + 2
    BY <1>3
  <2> QED
    BY <1>3, <2>1
<1>5. NetOf(M) = 0
  <2>1. NetOf(M) = NetOf(ledger) + a.amount + b.amount /\ NetOf(ledger) = 0
    BY <1>2, LegsNet DEF BooksInv
  <2>2. b.amount \in Int
    BY DEF Entry
  <2> QED
    BY <2>1, <2>2
<1>6. \A w \in Wallets : Honest(ledger', balance', w)
  BY HonestKept DEF BooksInv
<1>7. LedgerIsOfAccounts'
  <2> SUFFICES ASSUME NEW r \in Registrations \ account'
               PROVE  balance'[r] = 0 /\ \A i \in DOMAIN M : M[i].wallet # r /\ M[i].of # r
    BY <1>1 DEF LedgerIsOfAccounts
  <2>1. /\ r \notin {a.wallet, a.of, b.wallet, b.of} /\ r \in Wallets
        /\ r \in Registrations \ account
    BY DEF Wallets, Owners
  <2>2. balance[r] = 0 /\ \A i \in DOMAIN ledger : ledger[i].wallet # r /\ ledger[i].of # r
    BY <2>1 DEF BooksInv, LedgerIsOfAccounts
  <2> QED
    BY <1>4, <2>1, <2>2
<1>8. OpeningsAreSingle'
  <2>1. ASSUME NEW o \in Owners, NEW i \in DOMAIN M, M[i].wallet = o, M[i].of = o
        PROVE  (i \in DOMAIN ledger /\ Opens(i, o)) \/ i = n + 2
    <3>1. (i \in DOMAIN ledger /\ M[i] = ledger[i]) \/ i = n + 1 \/ i = n + 2
      BY <1>4
    <3>2. i # n + 1
      BY <1>3, <2>1
    <3> QED
      BY <2>1, <3>1, <3>2 DEF Opens
  <2>2. ASSUME NEW o \in Owners, NEW i \in DOMAIN M, M[i].wallet = o, M[i].of = o,
               NEW j \in DOMAIN M, M[j].wallet = o, M[j].of = o
        PROVE  i = j
    <3>1. CASE i \in DOMAIN ledger /\ Opens(i, o) /\ j \in DOMAIN ledger /\ Opens(j, o)
      BY <3>1 DEF BooksInv, OpeningsAreSingle
    <3>2. CASE i = n + 2 \/ j = n + 2
      <4>1. b.wallet = o /\ b.of = o
        BY <1>3, <2>2, <3>2
      <4>2. \A k \in DOMAIN ledger : ~Opens(k, o)
        BY <4>1
      <4> QED
        BY <2>1, <2>2, <4>2
    <3> QED
      BY <2>1, <2>2, <3>1, <3>2
  <2>3. ASSUME NEW r \in Registrations \cap account'
        PROVE  \E i \in DOMAIN M : M[i].wallet = r /\ M[i].of = r
    <3>1. CASE r \in account
      <4>1. PICK i \in DOMAIN ledger : Opens(i, r)
        BY <3>1 DEF BooksInv, OpeningsAreSingle
      <4>2. i \in DOMAIN M /\ M[i] = ledger[i]
        BY <1>3
      <4> QED
        BY <4>1, <4>2 DEF Opens
    <3>2. CASE r \notin account
      <4>1. n + 2 \in DOMAIN M
        BY <1>3
      <4> QED
        BY <1>3, <3>2, <4>1
    <3> QED
      BY <3>1, <3>2
  <2> QED
    BY <1>1, <2>2, <2>3 DEF OpeningsAreSingle, Opens
<1> QED
  BY <1>1, <1>3, <1>5, <1>6, <1>7, <1>8 DEF BooksInv

LEMMA CommitBooks ==
  ASSUME AccountsInv, BooksInv, NEW r \in Registrations, Commit(r)
  PROVE  BooksInv'
<1> DEFINE a == [wallet |-> Genesis, amount |-> -Opening, after |-> after[r], of |-> r,
                 by |-> "registration"]
           b == [wallet |-> r, amount |-> Opening, after |-> Opening, of |-> r,
                 by |-> "registration"]
<1>1. /\ r \in Owners /\ Genesis \notin Owners /\ Genesis # r /\ r \in Wallets /\ Genesis \in Wallets
      /\ Opening \in Int /\ balance \in [Wallets -> Int] /\ after \in [Registrations -> Int]
      /\ Genesis \notin Registrations
  BY AccountsAssumption DEF Owners, Wallets, BooksInv
<1>2. a \in Entry /\ b \in Entry
  BY <1>1 DEF Entry
<1>3. /\ ledger' = ledger \o <<a, b>> /\ account' = account \cup {r}
      /\ balance' = [balance EXCEPT ![Genesis] = after[r], ![r] = Opening]
  BY DEF Commit, Legs
<1>4. r \notin account /\ at[r] = "posting"
  BY DEF AccountsInv, AccountsFollowCommits, Commit
<1>5. lock = r /\ after[r] = balance[Genesis] - Opening /\ balance[r] = 0
  BY <1>4 DEF BooksInv, PostingsArePrepared, LedgerIsOfAccounts
<1>6. \A i \in DOMAIN ledger : ~Opens(i, r)
  BY <1>4 DEF BooksInv, LedgerIsOfAccounts, Opens
<1>7. /\ balance' \in [Wallets -> Int]
      /\ balance'[Genesis] = balance[Genesis] - Opening /\ balance'[r] = balance[r] + Opening
      /\ \A w \in Wallets \ {Genesis, r} : balance'[w] = balance[w]
  BY <1>1, <1>3, <1>5
<1>8. PostingsArePrepared'
  <2>1. ASSUME NEW q \in Registrations, at'[q] = "posting"
        PROVE  FALSE
    <3>1. q # r /\ at[q] = "posting"
      BY <2>1 DEF AccountsInv, Commit, Goto, Calls
    <3>2. lock = q
      BY <3>1 DEF BooksInv, PostingsArePrepared
    <3> QED
      BY <1>5, <3>1, <3>2
  <2>2. \A s \in Seeds : at'[s] = at[s] /\ next'[s] = next[s]
    BY AccountsAssumption DEF Commit, Goto, AccountsInv, Calls
  <2> QED
    BY <2>1, <2>2 DEF BooksInv, PostingsArePrepared
<1>9. balance'[Genesis] = balance[Genesis] + a.amount /\ a.amount = -b.amount
  BY <1>1, <1>7
<1>10. after' \in [Registrations -> Int] /\ memory' \in [Seeds -> Int]
  BY DEF Commit, BooksInv
<1>11. /\ a.wallet = Genesis /\ b.wallet = r /\ a.of = r /\ b.of = r /\ b.amount = Opening
  OBVIOUS
<1> HIDE DEF a, b
<1>12. /\ \A w \in Wallets \ {a.wallet, b.wallet} : balance'[w] = balance[w]
       /\ \A e \in {a, b} : \/ e.by = "seed" /\ balance'[e.wallet] = e.after
                            \/ balance'[e.wallet] = balance[e.wallet] + e.amount
       /\ \A q \in Registrations :
            q \in {a.wallet, a.of, b.wallet, b.of} => q \in account'
       /\ \A q \in (Registrations \cap account') \ account : b.wallet = q /\ b.of = q
       /\ a.of # a.wallet /\ a.wallet # b.wallet /\ account \subseteq account'
       /\ b.of = b.wallet => \A i \in DOMAIN ledger : ~Opens(i, b.wallet)
  BY <1>1, <1>3, <1>6, <1>7, <1>9, <1>11
<1>13. /\ ledger' = ledger \o <<a, b>> /\ a.amount = -b.amount
       /\ balance' \in [Wallets -> Int]
  BY <1>3, <1>7, <1>9
<1> QED
  BY <1>2, <1>8, <1>10, <1>12, <1>13, PostingKept

LEMMA IssueBooks ==
  ASSUME AccountsInv, BooksInv, NEW s \in Seeds, Issue(s)
  PROVE  BooksInv'
<1> DEFINE user == Fixture[next[s]]
           genesisAfter == memory[s] - Opening
           a == [wallet |-> Genesis, amount |-> -Opening, after |-> genesisAfter, of |-> user,
                 by |-> "seed"]
           b == [wallet |-> user, amount |-> Opening, after |-> Opening, of |-> user,
                 by |-> "seed"]
<1>1. /\ user \in Fixtures /\ user \notin Registrations /\ user \in Owners /\ user \in Wallets
      /\ Genesis \in Wallets /\ Genesis # user /\ Genesis \notin Registrations
      /\ memory \in [Seeds -> Int] /\ genesisAfter \in Int /\ Opening \in Int
      /\ balance \in [Wallets -> Int]
  BY AccountsAssumption DEF Issue, BooksInv, PostingsArePrepared, Fixtures, Owners, Wallets
<1>2. PostingsArePrepared'
  <2>1. ASSUME NEW q \in Registrations, at'[q] = "posting"
        PROVE  FALSE
    <3>1. at[q] = "posting" /\ lock = Nobody
      BY <2>1, AccountsAssumption DEF AccountsInv, Issue, Goto, Calls
    <3>2. lock = q
      BY <3>1 DEF BooksInv, PostingsArePrepared
    <3> QED
      BY <3>1, <3>2, AccountsAssumption
  <2>2. \A z \in Seeds : at'[z] = "issuing" => at[z] = "issuing" /\ next'[z] = next[z]
    BY DEF Issue, Goto, Advance, AccountsInv, Calls
  <2> QED
    BY <2>1, <2>2 DEF BooksInv, PostingsArePrepared
<1>3. after' \in [Registrations -> Int] /\ UNCHANGED account
  BY DEF Issue, BooksInv
<1>4. CASE IsPosted(user)
  <2>1. UNCHANGED <<ledger, balance, memory>>
    BY <1>4 DEF Issue
  <2> QED
    BY <1>2, <1>3, <2>1, QuietStepKept DEF BooksInv
<1>5. CASE ~IsPosted(user)
  <2>1. a \in Entry /\ b \in Entry
    BY <1>1 DEF Entry
  <2>2. /\ ledger' = ledger \o <<a, b>>
        /\ balance' = [balance EXCEPT ![Genesis] = genesisAfter, ![user] = Opening]
        /\ memory' = [memory EXCEPT ![s] = genesisAfter]
    BY <1>5 DEF Issue, Legs
  <2>3. /\ balance' \in [Wallets -> Int] /\ memory' \in [Seeds -> Int]
        /\ balance'[Genesis] = genesisAfter /\ balance'[user] = Opening
        /\ \A w \in Wallets \ {Genesis, user} : balance'[w] = balance[w]
    BY <1>1, <2>2
  <2>4. \A i \in DOMAIN ledger : ~Opens(i, user)
    BY <1>5 DEF IsPosted, Posted, Opens
  <2>5. /\ a.wallet = Genesis /\ b.wallet = user /\ a.of = user /\ b.of = user
        /\ a.amount = -b.amount /\ a.by = "seed" /\ b.by = "seed"
        /\ a.after = genesisAfter /\ b.after = Opening
    BY <1>1
  <2> HIDE DEF a, b, user, genesisAfter
  <2>6. /\ \A w \in Wallets \ {a.wallet, b.wallet} : balance'[w] = balance[w]
        /\ \A e \in {a, b} : \/ e.by = "seed" /\ balance'[e.wallet] = e.after
                             \/ balance'[e.wallet] = balance[e.wallet] + e.amount
        /\ \A q \in Registrations :
             q \in {a.wallet, a.of, b.wallet, b.of} => q \in account'
        /\ \A q \in (Registrations \cap account') \ account : b.wallet = q /\ b.of = q
        /\ a.of # a.wallet /\ a.wallet # b.wallet /\ account \subseteq account'
        /\ b.of = b.wallet => \A i \in DOMAIN ledger : ~Opens(i, b.wallet)
    BY <1>1, <1>3, <2>3, <2>4, <2>5
  <2> QED
    BY <1>2, <1>3, <2>1, <2>2, <2>3, <2>5, <2>6, PostingKept
<1> QED
  BY <1>4, <1>5

LEMMA TransferBooks ==
  ASSUME AccountsInv, BooksInv, NEW t \in Transfers, Transfer(t)
  PROVE  BooksInv'
<1> DEFINE a == [wallet |-> From[t], amount |-> -Amount[t], after |-> balance[From[t]] - Amount[t],
                 of |-> t, by |-> "engine"]
           b == [wallet |-> To[t], amount |-> Amount[t], after |-> balance[To[t]] + Amount[t],
                 of |-> t, by |-> "engine"]
<1>1. /\ From[t] \in account /\ To[t] \in account /\ account \subseteq Owners
      /\ From[t] \in Wallets /\ To[t] \in Wallets /\ From[t] # To[t]
      /\ t \notin Owners /\ Amount[t] \in Int /\ balance \in [Wallets -> Int]
  BY AccountsAssumption DEF Transfer, AccountsInv, Owners, Wallets, BooksInv
<1>2. a \in Entry /\ b \in Entry
  BY <1>1 DEF Entry
<1>3. /\ ledger' = ledger \o <<a, b>> /\ UNCHANGED account
      /\ balance' = [balance EXCEPT ![From[t]] = @ - Amount[t], ![To[t]] = @ + Amount[t]]
  BY DEF Transfer, Legs
<1>4. /\ balance' \in [Wallets -> Int]
      /\ balance'[From[t]] = balance[From[t]] - Amount[t]
      /\ balance'[To[t]] = balance[To[t]] + Amount[t]
      /\ \A w \in Wallets \ {From[t], To[t]} : balance'[w] = balance[w]
  BY <1>1, <1>3
<1>5. PostingsArePrepared'
  <2>1. /\ \A q \in Registrations : at'[q] = at[q] /\ after'[q] = after[q]
        /\ \A z \in Seeds : at'[z] = "issuing" => at[z] = "issuing" /\ next'[z] = next[z]
        /\ UNCHANGED lock
    BY AccountsAssumption DEF AccountsInv, Transfer, Goto, Calls
  <2>2. UNCHANGED balance[Genesis]
    BY <1>1, <1>4, AccountsAssumption DEF Wallets
  <2> QED
    BY <2>1, <2>2 DEF BooksInv, PostingsArePrepared
<1>6. after' \in [Registrations -> Int] /\ memory' \in [Seeds -> Int]
  BY DEF Transfer, BooksInv
<1>7. /\ a.wallet = From[t] /\ b.wallet = To[t] /\ a.of = t /\ b.of = t
      /\ a.amount = -b.amount
      /\ balance'[From[t]] = balance[From[t]] + a.amount
      /\ balance'[To[t]] = balance[To[t]] + b.amount
  BY <1>1, <1>4
<1>8. t \notin Registrations /\ \A w \in account : w # t
  BY <1>1 DEF Owners
<1> HIDE DEF a, b
<1>9. /\ \A w \in Wallets \ {a.wallet, b.wallet} : balance'[w] = balance[w]
      /\ \A e \in {a, b} : \/ e.by = "seed" /\ balance'[e.wallet] = e.after
                           \/ balance'[e.wallet] = balance[e.wallet] + e.amount
      /\ \A q \in Registrations :
           q \in {a.wallet, a.of, b.wallet, b.of} => q \in account'
      /\ \A q \in (Registrations \cap account') \ account : b.wallet = q /\ b.of = q
      /\ a.of # a.wallet /\ a.wallet # b.wallet /\ account \subseteq account'
      /\ b.of = b.wallet => \A i \in DOMAIN ledger : ~Opens(i, b.wallet)
  BY <1>1, <1>3, <1>4, <1>7, <1>8
<1> QED
  BY <1>2, <1>3, <1>4, <1>5, <1>6, <1>7, <1>9, PostingKept

\* The steps that post nothing.
LEMMA QuietRegistration ==
  ASSUME AccountsInv, BooksInv, NEW r \in Registrations,
         Check(r) \/ Prepare(r) \/ InsertUser(r) \/ Decrement(r) \/ Answer(r) \/ Abort(r)
  PROVE  BooksInv'
<1>1. /\ UNCHANGED <<ledger, balance, memory, next, account>>
      /\ \A q \in Registrations \ {r} : at'[q] = at[q]
      /\ \A s \in Seeds : at'[s] = at[s]
  BY AccountsAssumption DEF Check, Prepare, InsertUser, Decrement, Answer, Abort, Goto,
     AccountsInv, Calls
<1>2. CASE Decrement(r)
  <2>1. /\ lock = Nobody /\ lock' = r /\ after' = [after EXCEPT ![r] = balance[Genesis] - Opening]
    BY <1>2 DEF Decrement
  <2>2. balance[Genesis] - Opening \in Int
    BY AccountsAssumption DEF BooksInv, Wallets
  <2>3. after' \in [Registrations -> Int] /\ after'[r] = balance[Genesis] - Opening
    BY <2>1, <2>2 DEF BooksInv
  <2>4. \A q \in Registrations \ {r} : at'[q] # "posting"
    BY <1>1, <2>1, AccountsAssumption DEF BooksInv, PostingsArePrepared
  <2>5. PostingsArePrepared'
    BY <1>1, <2>1, <2>3, <2>4 DEF BooksInv, PostingsArePrepared
  <2> QED
    BY <1>1, <2>3, <2>5, QuietStepKept DEF BooksInv
<1>3. CASE ~Decrement(r)
  <2>1. UNCHANGED after /\ at'[r] # "posting" /\ (lock' = lock \/ lock = r)
    BY <1>3 DEF Check, Prepare, InsertUser, Answer, Abort, Goto, AccountsInv, Calls
  <2>2. PostingsArePrepared'
    BY <1>1, <2>1 DEF BooksInv, PostingsArePrepared
  <2> QED
    BY <1>1, <2>1, <2>2, QuietStepKept DEF BooksInv
<1> QED
  BY <1>2, <1>3

LEMMA QuietOthers ==
  ASSUME AccountsInv, BooksInv,
         \/ \E l \in Logins : Login(l)
         \/ \E s \in Seeds : UpsertUser(s) \/ LookUp(s) \/ VerifyBooks(s) \/ Interrupt(s)
  PROVE  BooksInv'
<1>1. ASSUME NEW l \in Logins, Login(l)
      PROVE  BooksInv'
  <2>1. /\ UNCHANGED <<account, balance, ledger, lock, after, next, memory>>
        /\ \A q \in Registrations : at'[q] = at[q]
        /\ \A s \in Seeds : at'[s] = "issuing" => at[s] = "issuing"
    BY <1>1, AccountsAssumption DEF Login, Goto, AccountsInv, Calls
  <2>2. PostingsArePrepared'
    BY <2>1 DEF BooksInv, PostingsArePrepared
  <2> QED
    BY <2>1, <2>2, QuietStepKept DEF BooksInv
<1>2. ASSUME NEW s \in Seeds, UpsertUser(s) \/ LookUp(s) \/ VerifyBooks(s) \/ Interrupt(s)
      PROVE  BooksInv'
  <2>1. /\ UNCHANGED <<balance, ledger, lock, after, memory>>
        /\ \A q \in Registrations : at'[q] = at[q]
        /\ \A z \in Seeds \ {s} : at'[z] = at[z] /\ next'[z] = next[z]
    BY <1>2, AccountsAssumption
    DEF UpsertUser, LookUp, VerifyBooks, Interrupt, Goto, Advance, AccountsInv, Calls
  <2>2. More(s) => next[s] \in DOMAIN Fixture
    BY AccountsAssumption DEF More, AccountsInv
  <2>3. at'[s] = "issuing" => next'[s] \in DOMAIN Fixture
    BY <1>2, <2>2 DEF UpsertUser, LookUp, VerifyBooks, Interrupt, Goto, Advance, AccountsInv, Calls
  <2>4. PostingsArePrepared'
    BY <2>1, <2>3 DEF BooksInv, PostingsArePrepared
  <2>5. account' = account \/ (More(s) /\ account' = account \cup {Fixture[next[s]]})
    BY <1>2 DEF UpsertUser, LookUp, VerifyBooks, Interrupt
  <2>6. account \subseteq account' /\ account' \cap Registrations = account \cap Registrations
    BY <2>2, <2>5, AccountsAssumption DEF Fixtures
  <2> QED
    BY <2>1, <2>4, <2>6, QuietStepKept DEF BooksInv
<1> QED
  BY <1>1, <1>2

LEMMA InitBooks == Init => BooksInv
<1> SUFFICES ASSUME Init
             PROVE  BooksInv
  OBVIOUS
<1>1. /\ balance \in [Wallets -> Int] /\ after \in [Registrations -> Int]
      /\ memory \in [Seeds -> Int]
  BY DEF Init
<1>2. ledger = <<>> /\ account = {} /\ \A w \in Wallets : balance[w] = 0
  BY DEF Init
<1>3. ledger \in Seq(Entry) /\ Len(ledger) = 0 /\ DOMAIN ledger = {}
  BY <1>2
<1>4. Column(ledger, {}) = 0
  <2>1. Column(ledger, {}) = SumOver(AmountsOf(ledger), {})
    BY ColumnIsSum
  <2> QED
    BY <2>1, SumEmpty
<1>5. \A w \in Wallets : Tally(ledger, w)[0] = 0
  <2> SUFFICES ASSUME NEW w \in Wallets
               PROVE  Tally(ledger, w)[0] = 0
    OBVIOUS
  <2>1. {i \in 1..0 : ledger[i].wallet = w} = {}
    OBVIOUS
  <2>2. Tally(ledger, w)[0] = Column(ledger, {i \in 1..0 : ledger[i].wallet = w})
    BY <1>3 DEF Tally
  <2> QED
    BY <1>4, <2>1, <2>2
<1>6. NetOf(ledger) = 0 /\ \A w \in Wallets : Honest(ledger, balance, w)
  BY <1>2, <1>3, <1>4, <1>5 DEF NetOf, Honest
<1>7. PostingsArePrepared
  BY AccountsAssumption DEF Init, PostingsArePrepared
<1>8. LedgerIsOfAccounts /\ OpeningsAreSingle
  BY <1>2, <1>3 DEF LedgerIsOfAccounts, OpeningsAreSingle, Owners, Wallets
<1> QED
  BY <1>1, <1>3, <1>6, <1>7, <1>8 DEF BooksInv

LEMMA StepBooks == AccountsInv /\ BooksInv /\ [Next]_vars => BooksInv'
<1> SUFFICES ASSUME AccountsInv, BooksInv, [Next]_vars
             PROVE  BooksInv'
  OBVIOUS
<1>1. CASE UNCHANGED vars
  <2>1. UNCHANGED <<account, balance, ledger, lock, at, after, next, memory>>
    BY <1>1 DEF vars
  <2>2. PostingsArePrepared'
    BY <2>1 DEF BooksInv, PostingsArePrepared
  <2> QED
    BY <2>1, <2>2, QuietStepKept DEF BooksInv
<1> QED
  BY <1>1, QuietRegistration, QuietOthers, CommitBooks, IssueBooks, TransferBooks DEF Next

-----------------------------------------------------------------------------
\* Money is issued once and the ledger nets to zero, however many seeds and
\* registrations race: createWithWallet, issueOpeningBalances and the primary
\* key of its transactions, ledger_conservation_check.
THEOREM OpeningsAreIssuedOnlyOnce == Spec => []OpeningsAreIssuedOnce
<1>1. ASSUME BooksInv, NEW o \in Owners
      PROVE  LET openings == {i \in DOMAIN ledger : ledger[i].wallet = o /\ ledger[i].of = o}
             IN  /\ Cardinality(openings) <= 1
                 /\ o \in account \cap Registrations => openings # {}
  <2> DEFINE openings == {i \in DOMAIN ledger : ledger[i].wallet = o /\ ledger[i].of = o}
  <2>1. \A i, j \in openings : i = j
    BY <1>1 DEF BooksInv, OpeningsAreSingle, Opens
  <2>2. o \in account \cap Registrations => openings # {}
    BY <1>1 DEF BooksInv, OpeningsAreSingle, Opens
  <2> HIDE DEF openings
  <2>3. openings = {} \/ \E i : openings = {i}
    BY <2>1
  <2>4. Cardinality(openings) <= 1
    <3>1. CASE openings = {}
      <4>1. Cardinality(openings) = 0
        BY <3>1, FS_EmptySet
      <4> QED
        BY <4>1
    <3>2. ASSUME NEW i, openings = {i}
          PROVE  Cardinality(openings) <= 1
      <4>1. Cardinality(openings) = 1
        BY <3>2, FS_Singleton
      <4> QED
        BY <4>1
    <3> QED
      BY <2>3, <3>1, <3>2
  <2> QED
    BY <2>2, <2>4 DEF openings
<1>2. BooksInv => Net = 0
  BY BooksOfModel DEF BooksInv
<1>3. BooksInv => OpeningsAreIssuedOnce
  BY <1>1, <1>2 DEF OpeningsAreIssuedOnce
<1> QED
  BY <1>3, InitAccounts, StepAccounts, InitBooks, StepBooks, PTL DEF Spec

\* Only a seed makes the books disagree, and its own posting shows it: a seed
\* assigns both balances, the genesis wallet's from memory, where registrations
\* and transfers move them.
THEOREM OnlySeedsMakeBooksDrift == Spec => []DriftIsTheSeeds
<1>1. ASSUME BooksInv, NEW w \in Drifting
      PROVE  \E i \in DOMAIN ledger :
               ledger[i].wallet = w /\ ledger[i].by = "seed" /\ ledger[i].after # Running(w, i)
  <2>1. ledger \in Seq(Entry) /\ Len(ledger) \in 0..Len(ledger) /\ DOMAIN ledger \subseteq 0..Len(ledger)
    BY <1>1 DEF BooksInv
  <2>2. w \in Wallets /\ balance[w] # Tally(ledger, w)[Len(ledger)]
    BY <2>1, BooksOfModel DEF Drifting
  <2>3. PICK i \in DOMAIN ledger :
          ledger[i].wallet = w /\ ledger[i].by = "seed" /\ ledger[i].after # Tally(ledger, w)[i]
    BY <1>1, <2>2 DEF BooksInv, Honest
  <2>4. Running(w, i) = Tally(ledger, w)[i]
    BY <2>1, <2>2, BooksOfModel
  <2> QED
    BY <2>3, <2>4
<1>2. BooksInv => DriftIsTheSeeds
  BY <1>1 DEF DriftIsTheSeeds
<1> QED
  BY <1>2, InitAccounts, StepAccounts, InitBooks, StepBooks, PTL DEF Spec
=============================================================================
