------------------------------- MODULE Accounts -------------------------------
(***************************************************************************)
(* How accounts and money come into being: RegisterUserUseCase with        *)
(* createWithWallet statement by statement, the seed, which issues the     *)
(* same openings from a balance that it keeps in memory, and the views     *)
(* wallet_balance_drift and ledger_conservation_check over what they and   *)
(* transfers post.  A login reads what registrations left.                 *)
(*                                                                         *)
(* An account is named by the registration or the fixture that made it.    *)
(* The genesis wallet exists; nothing in the program suspends an account.  *)
(***************************************************************************)
EXTENDS Integers, Sequences, FiniteSetsExt

CONSTANTS
  Registrations, Logins, Seeds, Transfers,   \* calls
  Fixture,    \* the users of the seed, in order
  Tier,       \* Tier[s]: how many of them seed s makes
  Phone,      \* Phone[c]: the phone of an account or of a login
  Unique,     \* Unique[o]: its values under a unique index, phone and e-mail
  From, To, Amount,   \* From[t], To[t], Amount[t]: a transfer between accounts
  Opening,    \* OPENING_BALANCE
  Genesis, Nobody

Fixtures == {Fixture[i] : i \in DOMAIN Fixture}
Owners == Registrations \cup Fixtures
Wallets == Owners \cup {Genesis}

ASSUME AccountsAssumption ==
  /\ Registrations \cap (Logins \cup Seeds \cup Transfers) = {}
  /\ Registrations \cap Fixtures = {} /\ Fixture \in Seq(Fixtures)
  /\ Transfers \cap Fixtures = {}   \* they name different transactions
  /\ Genesis \notin Owners /\ Nobody \notin Registrations
  /\ Tier \in [Seeds -> 0..Len(Fixture)]
  /\ \A o \in Owners : Phone[o] \in Unique[o]
  /\ From \in [Transfers -> Owners] /\ To \in [Transfers -> Owners]
  /\ \A t \in Transfers : From[t] # To[t]
  /\ Amount \in [Transfers -> Nat \ {0}] /\ Opening \in Nat \ {0}

VARIABLES
  account,   \* users with their wallets and security answers
  balance,   \* wallets.balance_poisha
  ledger,    \* ledger_entries, in the order of their commits
  lock,      \* who holds the row lock of the genesis wallet
  at,        \* at[c]: where call c is, or how it ended
  after,     \* after[r]: genesisAfter
  next,      \* next[s]: the loop variable of seed s
  memory     \* memory[s]: its genesisBalance

vars == <<account, balance, ledger, lock, at, after, next, memory>>

Goto(c, s) == at' = [at EXCEPT ![c] = s]

\* The transactions whose rows are committed.
Posted == {ledger[i].of : i \in DOMAIN ledger}

\* The two legs of a movement: what it moves, and the balance after each.
Legs(who, of, from, to, amount, fromAfter, toAfter) ==
  <<[wallet |-> from, amount |-> -amount, after |-> fromAfter, of |-> of, by |-> who],
    [wallet |-> to, amount |-> amount, after |-> toAfter, of |-> of, by |-> who]>>

\* What the first n entries add up to for wallet w.
Running(w, n) ==
  MapThenSumSet(LAMBDA i : ledger[i].amount, {i \in 1..n : ledger[i].wallet = w})

\* The rows of the view wallet_balance_drift.
Drifting == {w \in Wallets : balance[w] # Running(w, Len(ledger))}

\* ledger_conservation_check
Net == MapThenSumSet(LAMBDA i : ledger[i].amount, DOMAIN ledger)

-----------------------------------------------------------------------------
(* Registration *)

InFlight == {r \in Registrations : at[r] \in {"decrementing", "posting"}}

\* Mutant: the database has no unique index on phone and e-mail.
Clash_None(o, rows) == FALSE

\* A unique index refuses o beside one of these rows.
Clash(o, rows) == \E p \in rows : p # o /\ Unique[p] \cap Unique[o] # {}

\* The rate limit, and the pre-check for a good error message.
Check(r) ==
  /\ at[r] = "new"
  /\ \/ Goto(r, "limited")
     \/ Goto(r, IF \E o \in account : Phone[o] = Phone[r] THEN "taken" ELSE "preparing")
  /\ UNCHANGED <<account, balance, ledger, lock, after, next, memory>>

\* prepareAnswers refuses, or the answers and the password are hashed.
Prepare(r) ==
  /\ at[r] = "preparing"
  /\ Goto(r, "inserting") \/ Goto(r, "invalid")
  /\ UNCHANGED <<account, balance, ledger, lock, after, next, memory>>

\* The user, its wallet and its answers: waits for an uncommitted row under the
\* same unique value, and P2002 becomes RegistrationConflictError.
InsertUser(r) ==
  /\ at[r] = "inserting"
  /\ ~Clash(r, InFlight)
  /\ Goto(r, IF Clash(r, account) THEN "conflict" ELSE "decrementing")
  /\ UNCHANGED <<account, balance, ledger, lock, after, next, memory>>

\* Mutant: the balance is read, and written back later.
Decrement_ReadThenWrite(r) ==
  /\ at[r] = "decrementing"
  /\ after' = [after EXCEPT ![r] = balance[Genesis] - Opening]
  /\ Goto(r, "posting")
  /\ UNCHANGED <<account, balance, ledger, lock, next, memory>>

\* The atomic decrement of the genesis wallet: the row lock, and the balance.
Decrement(r) ==
  /\ at[r] = "decrementing" /\ lock = Nobody
  /\ lock' = r
  /\ after' = [after EXCEPT ![r] = balance[Genesis] - Opening]
  /\ Goto(r, "posting")
  /\ UNCHANGED <<account, balance, ledger, next, memory>>

\* The transaction row, its two legs, the new balance, COMMIT.  The caller may
\* not hear of it.
Commit(r) ==
  /\ at[r] = "posting"
  /\ account' = account \cup {r}
  /\ balance' = [balance EXCEPT ![Genesis] = after[r], ![r] = Opening]
  /\ ledger' = ledger \o Legs("registration", r, Genesis, r, Opening, after[r], Opening)
  /\ lock' = Nobody
  /\ Goto(r, "answering") \/ Goto(r, "error")
  /\ UNCHANGED <<after, next, memory>>

\* The audit row, whose failure is swallowed, and the token, whose is not.
Answer(r) ==
  /\ at[r] = "answering"
  /\ Goto(r, "registered") \/ Goto(r, "error")
  /\ UNCHANGED <<account, balance, ledger, lock, after, next, memory>>

\* Another error, or a crash, inside the transaction: ROLLBACK.
Abort(r) ==
  /\ at[r] \in {"inserting", "decrementing", "posting"}
  /\ lock' = IF lock = r THEN Nobody ELSE lock
  /\ Goto(r, "error")
  /\ UNCHANGED <<account, balance, ledger, after, next, memory>>

\* LoginUserUseCase: the rate limit, the credentials, the password.
Login(l) ==
  /\ at[l] = "new"
  /\ \/ Goto(l, "limited")
     \/ Goto(l, "refused")
     \/ (\E o \in account : Phone[o] = Phone[l]) /\ Goto(l, "in")
  /\ UNCHANGED <<account, balance, ledger, lock, after, next, memory>>

-----------------------------------------------------------------------------
(* The seed *)

More(s) == next[s] <= Tier[s]

Advance(s) == next' = [next EXCEPT ![s] = @ + 1]

\* seedUsers: an upsert by id, which meets the unique indexes too.
UpsertUser(s) ==
  /\ at[s] = "users"
  /\ IF ~More(s)
     THEN Goto(s, "looking") /\ next' = [next EXCEPT ![s] = 1] /\ UNCHANGED account
     ELSE /\ ~Clash(Fixture[next[s]], InFlight)
          /\ \/ ~Clash(Fixture[next[s]], account) /\ account' = account \cup {Fixture[next[s]]}
                /\ Advance(s) /\ UNCHANGED at
             \/ Clash(Fixture[next[s]], account) /\ Goto(s, "failed") /\ UNCHANGED <<account, next>>
  /\ UNCHANGED <<balance, ledger, lock, after, memory>>

\* issueOpeningBalances: has this opening been posted?  If so, it is skipped.
LookUp(s) ==
  /\ at[s] = "looking"
  /\ \/ ~More(s) /\ Goto(s, "verifying") /\ UNCHANGED next
     \/ More(s) /\ Fixture[next[s]] \in Posted /\ Advance(s) /\ UNCHANGED at
     \/ More(s) /\ Fixture[next[s]] \notin Posted /\ Goto(s, "issuing") /\ UNCHANGED next
  /\ UNCHANGED <<account, balance, ledger, lock, after, memory>>

\* Mutant: the opening is upserted.
IsPosted_Never(o) == FALSE

\* The primary key of the transaction refuses a second one.
IsPosted(o) == o \in Posted

\* issue, in one transaction: both balances are assigned, the genesis wallet's
\* from memory.
Issue(s) ==
  LET user == Fixture[next[s]]
      genesisAfter == memory[s] - Opening
  IN  /\ at[s] = "issuing" /\ lock = Nobody
      /\ IF IsPosted(user)
         THEN Goto(s, "failed") /\ UNCHANGED <<balance, ledger, next, memory>>
         ELSE /\ balance' = [balance EXCEPT ![Genesis] = genesisAfter, ![user] = Opening]
              /\ ledger' = ledger \o
                   Legs("seed", user, Genesis, user, Opening, genesisAfter, Opening)
              /\ memory' = [memory EXCEPT ![s] = genesisAfter]
              /\ Advance(s)
              /\ Goto(s, "looking")
      /\ UNCHANGED <<account, lock, after>>

\* "Prove the seed left the database consistent."
VerifyBooks(s) ==
  /\ at[s] = "verifying"
  /\ Goto(s, IF Net = 0 /\ Drifting = {} THEN "complete" ELSE "failed")
  /\ UNCHANGED <<account, balance, ledger, lock, after, next, memory>>

\* The seed is interrupted between two of its transactions.
Interrupt(s) ==
  /\ at[s] \in {"users", "looking", "issuing"}
  /\ Goto(s, "failed")
  /\ UNCHANGED <<account, balance, ledger, lock, after, next, memory>>

-----------------------------------------------------------------------------
\* The engine: one step, for which see TransferEngineRefinement.
Transfer(t) ==
  /\ at[t] = "new"
  /\ {From[t], To[t]} \subseteq account /\ balance[From[t]] >= Amount[t]
  /\ balance' = [balance EXCEPT ![From[t]] = @ - Amount[t], ![To[t]] = @ + Amount[t]]
  /\ ledger' = ledger \o Legs("engine", t, From[t], To[t], Amount[t],
                              balance[From[t]] - Amount[t], balance[To[t]] + Amount[t])
  /\ Goto(t, "done")
  /\ UNCHANGED <<account, lock, after, next, memory>>

Init ==
  /\ account = {}
  /\ balance = [w \in Wallets |-> 0]
  /\ ledger = <<>>
  /\ lock = Nobody
  /\ at = [c \in Registrations \cup Logins \cup Seeds \cup Transfers |->
             IF c \in Seeds THEN "users" ELSE "new"]
  /\ after = [r \in Registrations |-> 0]
  /\ next = [s \in Seeds |-> 1]
  /\ memory = [s \in Seeds |-> 0]

Next ==
  \/ \E r \in Registrations :
       \/ Check(r) \/ Prepare(r) \/ InsertUser(r) \/ Decrement(r) \/ Commit(r)
       \/ Answer(r) \/ Abort(r)
  \/ \E l \in Logins : Login(l)
  \/ \E s \in Seeds :
       UpsertUser(s) \/ LookUp(s) \/ Issue(s) \/ VerifyBooks(s) \/ Interrupt(s)
  \/ \E t \in Transfers : Transfer(t)

Spec == Init /\ [][Next]_vars

-----------------------------------------------------------------------------
(* Safety *)

\* Every variable has its type; the lock is held by a registration that posts,
\* and a seed stays within its tier.
TypeOK ==
  /\ account \subseteq Owners
  /\ balance \in [Wallets -> Int]
  /\ \A i \in DOMAIN ledger : ledger[i].wallet \in Wallets /\ ledger[i].amount # 0
  /\ lock # Nobody => lock \in Registrations /\ at[lock] = "posting"
  /\ after \in [Registrations -> Int]
  /\ \A s \in Seeds : next[s] \in 1..(Tier[s] + 1) /\ memory[s] <= 0

\* The books disagree only where the ledger says who made them: when the
\* balance of a wallet is not the sum of its postings, one of these is a
\* seed's, whose balance_after is not the sum up to it.  Registrations and
\* transfers, however they interleave, never make a balance drift.
DriftIsTheSeeds ==
  \A w \in Drifting : \E i \in DOMAIN ledger :
    ledger[i].wallet = w /\ ledger[i].by = "seed" /\ ledger[i].after # Running(w, i)

\* Money is issued once: an account has at most one opening, however many
\* seeds race for it, one that registered has exactly one, and the ledger nets
\* to zero.
OpeningsAreIssuedOnce ==
  /\ \A o \in Owners :
       LET openings == {i \in DOMAIN ledger : ledger[i].wallet = o /\ ledger[i].of = o}
       IN  /\ Cardinality(openings) <= 1
           /\ o \in account \cap Registrations => openings # {}
  /\ Net = 0

\* A phone and an e-mail belong to one account; and who is told that they are
\* taken is told the truth, although the check is made before the insertion
\* and an insertion that was seen may be rolled back.
AccountsAreDistinct ==
  /\ \A o, p \in account : o # p => Unique[o] \cap Unique[p] = {}
  /\ \A r \in Registrations :
       at[r] \in {"taken", "conflict"} =>
         \E o \in account : o # r /\ Unique[o] \cap Unique[r] # {}
=============================================================================
