------------------------------- MODULE Envelopes -------------------------------
(***************************************************************************)
(* Expense envelopes: EnvelopeUseCases.create, reserve, unlock and remove, *)
(* and the statements of PrismaEnvelopeRepository they issue.              *)
(*                                                                         *)
(* An envelope withholds part of a wallet's balance.  What it withholds is *)
(* in its own row, and in the sum wallets.reserved_poisha that the debit   *)
(* of a transfer reads.  adjustReservation moves both in one transaction;  *)
(* remove is three transactions, and create is two.                        *)
(*                                                                         *)
(* Wallets share nothing here, so one wallet is modelled.  Transfers are   *)
(* what they do to its balance: TransferEngine shows how.                  *)
(***************************************************************************)
EXTENDS Integers, FiniteSets, FiniteSetsExt

CONSTANTS
  Calls,       \* calls of the four operations
  Kind,        \* Kind[c]: "create", "reserve", "unlock" or "remove"
  Envelopes,   \* envelope ids
  Envelope,    \* Envelope[c]: the id that create mints, or that c names
  Amount,      \* Amount[c]: what reserve and unlock are asked to move
  Spelling,    \* Spelling[e]: the name of envelope e
  Name,        \* Name[e]: the same in lower case
  Payments,    \* the amounts of the transfers from and to the wallet
  Opening,     \* the wallet's balance when the behaviour begins
  MaxBalance,  \* a bound of the model: no transfer brings more than this
  MaxEnvelopes,  \* MAX_ENVELOPES_PER_WALLET
  NoCall

ASSUME CallAssumption ==
  /\ Kind \in [Calls -> {"create", "reserve", "unlock", "remove"}]
  /\ Envelope \in [Calls -> Envelopes]
  /\ Amount \in [Calls -> Nat]
  /\ NoCall \notin Calls

ASSUME WalletAssumption ==
  /\ IsFiniteSet(Envelopes)
  /\ Payments \subseteq Nat
  /\ Opening \in Nat
  /\ MaxBalance \in Nat
  /\ MaxEnvelopes \in Nat

VARIABLES
  balance,   \* the wallet's row: balance_poisha
  reserved,  \*   and reserved_poisha
  owner,     \* the call that holds FOR UPDATE on it, or NoCall
  existing,  \* the envelopes that have a row in expense_envelopes
  held,      \* held[e]: reserved_poisha of envelope e, 0 without a row
  pc,        \* pc[c]: where call c is
  delta      \* delta[c]: deltaPoisha of the adjustment that c runs

wallet == <<balance, reserved>>
tables == <<wallet, existing, held>>
vars == <<tables, owner, pc, delta>>

-----------------------------------------------------------------------------
(* Pieces of actions *)

Stages == {"new", "inserting", "locking", "locked", "marked", "deleting", "done"}

Goto(c, stage) == pc' = [pc EXCEPT ![c] = stage]

\* adjustReservation has returned: remove goes on whatever the outcome was.
AfterAdjusting(c) == IF Kind[c] = "remove" THEN "deleting" ELSE "done"

\* Another transaction has updated the row of e and not yet committed.
RowIsLocked(e) == \E c \in Calls : pc[c] = "marked" /\ Envelope[c] = e

-----------------------------------------------------------------------------
(* Create: a list, its checks, then an insert *)

List(c) ==
  /\ pc[c] = "new" /\ Kind[c] = "create"
  /\ Goto(c, IF \/ Cardinality(existing) >= MaxEnvelopes
                \/ \E e \in existing : Name[e] = Name[Envelope[c]]
             THEN "done" ELSE "inserting")
  /\ UNCHANGED <<tables, owner, delta>>

\* The unique index on (wallet_id, name) is case-sensitive.
Insert(c) ==
  /\ pc[c] = "inserting"
  /\ existing' = IF \E e \in existing : Spelling[e] = Spelling[Envelope[c]]
                 THEN existing ELSE existing \cup {Envelope[c]}
  /\ Goto(c, "done")
  /\ UNCHANGED <<wallet, held, owner, delta>>

-----------------------------------------------------------------------------
(* adjustReservation, run by reserve, unlock and remove *)

\* An amount of zero is refused by reserve, and released by unlock.
Ask(c) ==
  /\ pc[c] = "new" /\ Kind[c] \in {"reserve", "unlock"}
  /\ Goto(c, IF Kind[c] = "reserve" /\ Amount[c] = 0 THEN "done" ELSE "locking")
  /\ delta' = [delta EXCEPT ![c] = IF Kind[c] = "reserve" THEN Amount[c] ELSE -Amount[c]]
  /\ UNCHANGED <<tables, owner>>

\* Remove: findById, and the release of all that the envelope was seen to hold.
Lookup(c) ==
  LET e == Envelope[c]
  IN  /\ pc[c] = "new" /\ Kind[c] = "remove"
      /\ Goto(c, IF e \notin existing THEN "done"
                 ELSE IF held[e] > 0 THEN "locking" ELSE "deleting")
      /\ delta' = [delta EXCEPT ![c] = -held[e]]
      /\ UNCHANGED <<tables, owner>>

\* SELECT ... FOR UPDATE of the wallet.
LockWallet(c) ==
  /\ pc[c] = "locking"
  /\ owner = NoCall
  /\ owner' = c
  /\ Goto(c, "locked")
  /\ UNCHANGED <<tables, delta>>

\* Mutant: the envelope is not asked whether it holds that much.
Mark_Unchecked(c) ==
  /\ pc[c] = "locked"
  /\ IF Envelope[c] \in existing
     THEN Goto(c, "marked") /\ UNCHANGED owner
     ELSE Goto(c, AfterAdjusting(c)) /\ owner' = NoCall
  /\ UNCHANGED <<tables, delta>>

\* UPDATE of the envelope, where it exists and does not become negative.
Mark(c) ==
  /\ pc[c] = "locked"
  /\ IF Envelope[c] \in existing /\ held[Envelope[c]] + delta[c] >= 0
     THEN Goto(c, "marked") /\ UNCHANGED owner
     ELSE Goto(c, AfterAdjusting(c)) /\ owner' = NoCall
  /\ UNCHANGED <<tables, delta>>

\* Mutant: the sum may exceed the balance.
Fits_Unbounded(c) == reserved + delta[c] >= 0

\* The WHERE clause of the UPDATE of the wallet.
Fits(c) == 0 <= reserved + delta[c] /\ reserved + delta[c] <= balance

\* Mutant: a rejection keeps the update of the envelope.
Apply_KeepsEnvelope(c) ==
  /\ pc[c] = "marked"
  /\ held' = [held EXCEPT ![Envelope[c]] = @ + delta[c]]
  /\ reserved' = IF Fits(c) THEN reserved + delta[c] ELSE reserved
  /\ owner' = NoCall
  /\ Goto(c, AfterAdjusting(c))
  /\ UNCHANGED <<balance, existing, delta>>

\* UPDATE of the wallet, and COMMIT; or ReservationRejected, and ROLLBACK.
Apply(c) ==
  /\ pc[c] = "marked"
  /\ IF Fits(c)
     THEN /\ held' = [held EXCEPT ![Envelope[c]] = @ + delta[c]]
          /\ reserved' = reserved + delta[c]
     ELSE UNCHANGED <<held, reserved>>
  /\ owner' = NoCall
  /\ Goto(c, AfterAdjusting(c))
  /\ UNCHANGED <<balance, existing, delta>>

\* Remove: DELETE, of the envelope as it is by now.
Delete(c) ==
  /\ pc[c] = "deleting"
  /\ ~RowIsLocked(Envelope[c])
  /\ existing' = existing \ {Envelope[c]}
  /\ held' = [held EXCEPT ![Envelope[c]] = 0]
  /\ Goto(c, "done")
  /\ UNCHANGED <<wallet, owner, delta>>

-----------------------------------------------------------------------------
(* The environment *)

\* A statement fails or the process dies: PostgreSQL rolls back.
Abort(c) ==
  /\ pc[c] \notin {"new", "done"}
  /\ owner' = IF owner = c THEN NoCall ELSE owner
  /\ Goto(c, "done")
  /\ UNCHANGED <<tables, delta>>

\* A transfer from the wallet, with the guard of debitIfSufficient,
Spend(n) ==
  /\ owner = NoCall
  /\ balance - reserved >= n
  /\ balance' = balance - n
  /\ UNCHANGED <<reserved, existing, held, owner, pc, delta>>

\* and one to it.
Receive(n) ==
  /\ owner = NoCall
  /\ balance + n <= MaxBalance
  /\ balance' = balance + n
  /\ UNCHANGED <<reserved, existing, held, owner, pc, delta>>

-----------------------------------------------------------------------------
Init ==
  /\ balance = Opening
  /\ reserved = 0
  /\ owner = NoCall
  /\ existing = {}
  /\ held = [e \in Envelopes |-> 0]
  /\ pc = [c \in Calls |-> "new"]
  /\ delta = [c \in Calls |-> 0]

Step(c) ==
  \/ List(c) \/ Insert(c) \/ Ask(c) \/ Lookup(c)
  \/ LockWallet(c) \/ Mark(c) \/ Apply(c) \/ Delete(c)

Next ==
  \/ \E c \in Calls : Step(c) \/ Abort(c)
  \/ \E n \in Payments : Spend(n) \/ Receive(n)

Spec == Init /\ [][Next]_vars

-----------------------------------------------------------------------------
(* Reading the state *)

HeldByEnvelopes == MapThenSumSet(LAMBDA e : held[e], Envelopes)

\* drift_poisha of view wallet_reservation_drift
Drift == reserved - HeldByEnvelopes

-----------------------------------------------------------------------------
(* Safety *)

\* Every variable has its type.
TypeOK ==
  /\ balance \in Nat /\ reserved \in Nat
  /\ owner \in Calls \cup {NoCall}
  /\ existing \subseteq Envelopes
  /\ held \in [Envelopes -> Nat]
  /\ pc \in [Calls -> Stages]
  /\ delta \in [Calls -> Int]

\* The wallet withholds at least what its envelopes hold, and has it: every
\* envelope is covered by money that no transfer can spend.
EnvelopesAreCovered == HeldByEnvelopes <= reserved /\ reserved <= balance

\* The wallet accepts every release that its envelope has accepted, so remove
\* loses nothing by ignoring what adjustReservation answers here.
ReleasesFit == \A c \in Calls : pc[c] = "marked" /\ delta[c] <= 0 => Fits(c)

-----------------------------------------------------------------------------
(* Action properties *)

\* "The envelope and the wallet aggregate can never disagree": whatever fails
\* or interleaves, they drift apart only when an envelope is deleted.
DriftOnlyByDeletion ==
  [][Drift' # Drift => \E e \in existing : e \notin existing']_vars

=============================================================================
