----------------------- MODULE TransferEngineInvariant ------------------------
(***************************************************************************)
(* Why the safety properties of TransferEngine hold: an inductive          *)
(* invariant.  The properties speak of committed tables and of answers;    *)
(* what makes them inductive is what an open database transaction may rely *)
(* on between its statements, and that is spelled out here.                *)
(***************************************************************************)
EXTENDS TransferEngineRefinement

\* Stages of a call that has both row locks.
Locked == {"locked", "debited", "declined", "posted"}

\* A call in its database transaction has passed what never changes.
AttemptsAreValidated ==
  \A r \in Requests :
    pc[r] \in Attempting =>
      Amount[r] > 0 /\ Sender[r] # Receiver[r] /\ Pair(r) \subseteq ActiveOwner

\* Only a call that is locking, or has locked, its own pair owns a row.
OwnersAreLocking ==
  \A r \in Requests : \A w \in Wallets :
    owner[w] = r => pc[r] \in Locked \cup {"locking"} /\ w \in Pair(r)

\* A call that is still locking lacks a row; one that is past it lacks none.
LockedPairsAreOwned ==
  \A r \in Requests :
    /\ pc[r] = "locking" => \E w \in Pair(r) : owner[w] # r
    /\ pc[r] \in Locked => \A w \in Pair(r) : owner[w] = r

\* The snapshot read with the lock is the row for as long as the lock is held.
SnapshotsAreCurrent ==
  \A r \in Requests : \A w \in Wallets : owner[w] = r => seen[r][w] = RowOf(w)

\* The outcome of the conditional debit is still the outcome it would have.
DecisionsStand ==
  \A r \in Requests :
    /\ pc[r] \in {"debited", "posted"} => DebitGuard(r)
    /\ pc[r] = "declined" =>
         status[Sender[r]] = "ACTIVE" /\ balance[Sender[r]] - reserved[Sender[r]] < Amount[r]

\* A row, committed or not, is the only one with its key.
KeysAreExclusive ==
  /\ \A r \in Requests : HasRow(r) => RowsOf(Key[r]) = {}
  /\ \A q, r \in Requests : HasRow(q) /\ HasRow(r) /\ Key[q] = Key[r] => q = r

\* A settlement about to commit is the only one of its money request.
OriginsAreExclusive ==
  /\ \A r \in Requests : pc[r] = "posted" => ~OriginTaken(r)
  /\ \A q, r \in Requests :
       pc[q] = "posted" /\ pc[r] = "posted" /\ Origin[q] = Origin[r] /\ Origin[r] # NoOrigin
         => q = r

\* A committed row carries the key of the call that is its id.
RowsCarryTheirKey == \A t \in rows : t.key = Key[t.id]

\* The postings of row t, given the two balances they were taken at.
Legs(t, x, y) ==
  { [tx |-> t.id, wallet |-> Sender[t.id], amount |-> -Amount[t.id], after |-> x],
    [tx |-> t.id, wallet |-> Receiver[t.id], amount |-> Amount[t.id], after |-> y] }

EntriesOf(t) == {e \in ledger : e.tx = t.id}

LedgerIsExplained ==
  /\ \A e \in ledger : \E t \in rows : t.id = e.tx
  /\ \A t \in rows :
       /\ t.status = "FAILED" => EntriesOf(t) = {}
       /\ t.status = "COMPLETED" =>
            /\ Amount[t.id] > 0
            /\ \E e, f \in EntriesOf(t) : EntriesOf(t) = Legs(t, e.after, f.after)

\* A stored record that says COMPLETED names a completed row of its key.
RecordsAreTrue ==
  \A k \in Keys :
    redis[k].result = "COMPLETED" =>
      \E t \in rows : t.id = redis[k].tx /\ t.key = k /\ t.status = "COMPLETED"

\* The inductive invariant: what an open transaction relies on, together with
\* the properties of the tables and the answers that it supports.
IInv ==
  /\ TypeOK
  /\ AttemptsAreValidated /\ OwnersAreLocking /\ LockedPairsAreOwned
  /\ SnapshotsAreCurrent /\ DecisionsStand
  /\ KeysAreExclusive /\ OriginsAreExclusive /\ RowsCarryTheirKey
  /\ OneRowPerKey /\ OneSettlementPerOrigin
  /\ LedgerIsExplained /\ RecordsAreTrue
  /\ ReservedWithinBalance /\ CompletedAnswersAreTrue

\* An answer is the last thing a call does.
AnsweredCallsAreDone ==
  \A r \in Requests : reply[r] # NoReply => pc[r] = "done"
=============================================================================
