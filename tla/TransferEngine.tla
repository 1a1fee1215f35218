---------------------------- MODULE TransferEngine ----------------------------
(***************************************************************************)
(* The transaction engine: TransactionProcessor.process() and the one      *)
(* PostgreSQL transaction it runs, seen from many concurrent API calls.    *)
(*                                                                         *)
(* A member of Requests is one call of process().  It mints one            *)
(* transaction id, so the call also names the transaction row it may       *)
(* insert.  A client retry is another call with the same key.              *)
(*                                                                         *)
(* Shared state is what the calls really share: the wallet rows, the       *)
(* transactions and ledger_entries tables, the row locks of PostgreSQL and *)
(* the idempotency records in Redis.  Writes of an open database           *)
(* transaction are invisible to the others until it commits, so they are   *)
(* implied by the call's program counter and published by Commit.          *)
(*                                                                         *)
(* Participants of process() are USER and POT wallets: nothing in the code *)
(* addresses a SYSTEM wallet here, so the sufficiency exemption of         *)
(* debitIfSufficient for SYSTEM wallets does not occur.                    *)
(***************************************************************************)
EXTENDS Integers, FiniteSets, FiniteSetsExt

CONSTANTS
  Requests,      \* calls of process(), each the owner of one transaction id
  Keys,          \* pairs (initiator_user_id, idempotency_key)
  Wallets,       \* USER and POT wallets
  Rank,          \* the order of wallet ids: ORDER BY id
  Key,           \* Key[r]: the key of the command of call r
  Sender,        \* Sender[r], Receiver[r], Amount[r]: the command's movement
  Receiver,
  Amount,
  Origin,        \* Origin[r]: originRequestId, or NoOrigin
  NoOrigin,
  NoCall,        \* the owner of an unlocked row
  Opening,       \* Opening[w]: balance when the behaviour begins
  OpeningStatus, \* OpeningStatus[w]: status when the behaviour begins
  ActiveOwner,   \* wallets with no owner, or with an owner that is ACTIVE
  Earmarks,      \* totals that envelopes may reserve on a wallet
  MaxTransfer,   \* MAX_TRANSFER_POISHA
  MaxAttempts,   \* MAX_RETRY_ATTEMPTS
  Faults         \* which of FaultKinds the environment may inject

\* "redis": Redis fails or forgets; "database": a query fails, or contention
\* outlasts the attempts; "ack": the answer to a COMMIT is lost; "crash": the
\* process of a call dies.
FaultKinds == {"redis", "database", "ack", "crash"}

Statuses == {"ACTIVE", "FROZEN", "UNDER_REVIEW", "CLOSED"}

ASSUME CommandAssumption ==
  /\ Key \in [Requests -> Keys]
  /\ Sender \in [Requests -> Wallets]
  /\ Receiver \in [Requests -> Wallets]
  /\ Amount \in [Requests -> Nat]
  /\ NoCall \notin Requests

ASSUME WalletAssumption ==
  /\ Rank \in [Wallets -> Nat]
  /\ \A v, w \in Wallets : Rank[v] = Rank[w] => v = w
  /\ Opening \in [Wallets -> Nat]
  /\ OpeningStatus \in [Wallets -> Statuses]
  /\ ActiveOwner \subseteq Wallets
  /\ Earmarks \subseteq Nat

ASSUME PolicyAssumption ==
  /\ MaxTransfer \in Nat
  /\ MaxAttempts \in Nat \ {0}
  /\ Faults \subseteq FaultKinds

VARIABLES
  pc,        \* pc[r]: where call r is
  attempt,   \* attempt[r]: the attempt of withRetry that call r is in
  seen,      \* seen[r][w]: the snapshot of w that r read with its row lock
  share,     \* share[w]: calls holding FOR KEY SHARE on row w
  owner,     \* owner[w]: the call holding FOR UPDATE on row w, or NoCall
  balance,   \* balance[w], reserved[w], status[w]: the committed columns of w,
  reserved,  \* its row in table wallets
  status,
  rows,      \* the committed rows of table transactions
  ledger,    \* the committed rows of table ledger_entries
  redis,     \* redis[k]: the idempotency record stored under key k
  reply      \* reply[r]: what call r answered

wallet == <<balance, reserved, status>>
database == <<share, owner, wallet, rows, ledger>>
vars == <<pc, attempt, seen, share, owner, wallet, rows, ledger, redis, reply>>

-----------------------------------------------------------------------------
(* Types *)

\* Stages of a call inside its database transaction, after its INSERT.
Inserted == {"sharing", "locking", "locked", "debited", "declined", "posted"}

\* Stages that an error of the database can interrupt.
Attempting == Inserted \cup {"ready"}

Stages == Attempting \cup
  {"new", "reading", "validating", "settled", "duplicate", "rejected",
   "faulted", "done", "crashed"}

WalletRow == [balance : Int, reserved : Int, status : Statuses]

TransactionRow ==
  [id : Requests, key : Keys, status : {"COMPLETED", "FAILED"},
   origin : {Origin[r] : r \in Requests} \cup {NoOrigin}]

LedgerEntry == [tx : Requests, wallet : Wallets, amount : Int, after : Int]

NoRecord == [state |-> "none", tx |-> NoCall, result |-> "none"]
NoReply == [status |-> "none", tx |-> NoCall]

IdempotencyRecord ==
  [state : {"none", "PROCESSING", "COMPLETED", "FAILED"},
   tx : Requests \cup {NoCall},
   result : {"none", "COMPLETED", "FAILED"}]

Reply ==
  [status : {"none", "COMPLETED", "FAILED", "IN_FLIGHT", "ERROR"},
   tx : Requests \cup {NoCall}]

UnreadWallet == [balance |-> 0, reserved |-> 0, status |-> "CLOSED"]

-----------------------------------------------------------------------------
(* Reading the state *)

\* The two wallets of a movement.
Pair(r) == {Sender[r], Receiver[r]}

HasRow(r) == pc[r] \in Inserted

\* PostgreSQL's lock table: FOR UPDATE conflicts with every row lock,
\* FOR KEY SHARE only with FOR UPDATE.
CanShare(r, w) == owner[w] = NoCall
CanOwn(r, w) == owner[w] = NoCall /\ share[w] \subseteq {r}

\* The foreign keys of the inserted row are checked source first.
NextShare(r) == IF r \in share[Sender[r]] THEN Receiver[r] ELSE Sender[r]

\* lockForUpdate takes the rows in ascending id order.
NextLock(r) ==
  CHOOSE w \in Pair(r) :
    /\ owner[w] # r
    /\ \A v \in Pair(r) : owner[v] # r => Rank[w] <= Rank[v]

\* The row of w as a SELECT returns it.
RowOf(w) ==
  [balance |-> balance[w], reserved |-> reserved[w], status |-> status[w]]

RowsOf(k) == {t \in rows : t.key = k}

\* TransactionValidator.validate: what is checked outside the lock.
PassesValidation(r) ==
  /\ Amount[r] > 0
  /\ Amount[r] <= MaxTransfer
  /\ Sender[r] # Receiver[r]
  /\ Pair(r) \subseteq ActiveOwner
  /\ status[Sender[r]] = "ACTIVE"
  /\ status[Receiver[r]] # "CLOSED"

\* assertStillValidUnderLock, on the rows read with the locks.
StillValid(r) ==
  /\ seen[r][Sender[r]].status = "ACTIVE"
  /\ seen[r][Receiver[r]].status # "CLOSED"

\* Mutant: the debit looks at the balance and not at the reservation.
DebitGuard_IgnoresReserved(r) ==
  status[Sender[r]] = "ACTIVE" /\ balance[Sender[r]] >= Amount[r]

\* The WHERE clause of debitIfSufficient, on the current row.
DebitGuard(r) ==
  /\ status[Sender[r]] = "ACTIVE"
  /\ balance[Sender[r]] - reserved[Sender[r]] >= Amount[r]

\* Mutant: only the sender's leg is posted.
Postings_OneLeg(r) ==
  { [tx |-> r, wallet |-> Sender[r], amount |-> -Amount[r],
     after |-> seen[r][Sender[r]].balance - Amount[r]] }

\* The two postings, with the balances computed from the locked snapshots.
Postings(r) ==
  { [tx |-> r, wallet |-> Sender[r], amount |-> -Amount[r],
     after |-> seen[r][Sender[r]].balance - Amount[r]],
    [tx |-> r, wallet |-> Receiver[r], amount |-> Amount[r],
     after |-> seen[r][Receiver[r]].balance + Amount[r]] }

\* Mutant: the credit is skipped.
Moved_NoCredit(r) == [balance EXCEPT ![Sender[r]] = @ - Amount[r]]

\* UPDATE wallets SET balance = balance -/+ amount: relative to the row.
Moved(r) ==
  [balance EXCEPT ![Sender[r]] = @ - Amount[r], ![Receiver[r]] = @ + Amount[r]]

\* Mutant: the settlement link is not unique.
OriginTaken_NotUnique(r) == FALSE

\* unique(origin_request_id), over committed rows
OriginTaken(r) == Origin[r] # NoOrigin /\ \E t \in rows : t.origin = Origin[r]

Origin_InFlight(r) ==
  /\ Origin[r] # NoOrigin
  /\ \E q \in Requests \ {r} : pc[q] = "posted" /\ Origin[q] = Origin[r]

-----------------------------------------------------------------------------
(* Pieces of actions *)

Goto(r, stage) == pc' = [pc EXCEPT ![r] = stage]

Answer(r, outcome, tx) ==
  /\ Goto(r, "done")
  /\ reply' = [reply EXCEPT ![r] = [status |-> outcome, tx |-> tx]]

\* COMMIT and ROLLBACK both release every row lock of the call.
ReleaseLocks(r) ==
  /\ share' = [w \in Wallets |-> share[w] \ {r}]
  /\ owner' = [w \in Wallets |-> IF owner[w] = r THEN NoCall ELSE owner[w]]
  /\ seen' = [seen EXCEPT ![r] = [w \in Wallets |-> UnreadWallet]]

Rollback(r) == ReleaseLocks(r) /\ UNCHANGED <<wallet, rows, ledger>>

\* A write to Redis happens, or is lost: the adapter swallows the error.
Store(k, record) ==
  \/ redis' = [redis EXCEPT ![k] = record]
  \/ "redis" \in Faults /\ UNCHANGED redis

-----------------------------------------------------------------------------
(* Tier 1: RedisIdempotencyAdapter.reserve *)

\* Mutant: SET without NX, which overwrites what is stored under the key.
ReserveKey_Overwrites(r) ==
  /\ pc[r] = "new"
  /\ redis' = [redis EXCEPT ![Key[r]] =
                 [state |-> "PROCESSING", tx |-> r, result |-> "none"]]
  /\ Goto(r, "validating")
  /\ UNCHANGED <<attempt, seen, database, reply>>

\* SET NX succeeds: the key is claimed.
ReserveKey(r) ==
  /\ pc[r] = "new"
  /\ redis[Key[r]] = NoRecord
  /\ redis' = [redis EXCEPT ![Key[r]] =
                 [state |-> "PROCESSING", tx |-> r, result |-> "none"]]
  /\ Goto(r, "validating")
  /\ UNCHANGED <<attempt, seen, database, reply>>

\* SET NX reports that the key exists; a GET follows.
KeyIsTaken(r) ==
  /\ pc[r] = "new"
  /\ redis[Key[r]] # NoRecord
  /\ Goto(r, "reading")
  /\ UNCHANGED <<attempt, seen, database, redis, reply>>

\* The GET: in flight, a replay, or a record that expired in between.
ReadRecord(r) ==
  /\ pc[r] = "reading"
  /\ LET record == redis[Key[r]]
     IN  \/ /\ record.state = "PROCESSING"
            /\ Answer(r, "IN_FLIGHT", record.tx)
         \/ /\ record.state \in {"COMPLETED", "FAILED"}
            /\ Answer(r, record.result, record.tx)
         \/ /\ record.state = "none"
            /\ Goto(r, "validating")
            /\ UNCHANGED reply
  /\ UNCHANGED <<attempt, seen, database, redis>>

\* Redis throws: DEGRADED.  The SET NX may have been applied all the same.
ReserveDegraded(r) ==
  /\ "redis" \in Faults
  /\ pc[r] \in {"new", "reading"}
  /\ Goto(r, "validating")
  /\ \/ UNCHANGED redis
     \/ /\ pc[r] = "new" /\ redis[Key[r]] = NoRecord
        /\ redis' = [redis EXCEPT ![Key[r]] =
                       [state |-> "PROCESSING", tx |-> r, result |-> "none"]]
  /\ UNCHANGED <<attempt, seen, database, reply>>

-----------------------------------------------------------------------------
(* Validation outside the lock, and the database transaction *)

Validate(r) ==
  /\ pc[r] = "validating"
  /\ Goto(r, IF PassesValidation(r) THEN "ready" ELSE "rejected")
  /\ UNCHANGED <<attempt, seen, database, redis, reply>>

\* Mutants: no unique index on the key; an upsert instead of an insert.
Insert_NoIndex(r) ==
  /\ pc[r] = "ready"
  /\ Goto(r, "sharing")
  /\ UNCHANGED <<attempt, seen, database, redis, reply>>

Insert_Upsert(r) ==
  /\ pc[r] = "ready"
  /\ \A q \in Requests : Key[q] = Key[r] => ~HasRow(q)
  /\ rows' = rows \ RowsOf(Key[r])
  /\ Goto(r, "sharing")
  /\ UNCHANGED <<attempt, seen, share, owner, wallet, ledger, redis, reply>>

\* INSERT of the PENDING row.  The unique index waits for an uncommitted row
\* with the key, and reports a committed one.
Insert(r) ==
  /\ pc[r] = "ready"
  /\ \A q \in Requests : Key[q] = Key[r] => ~HasRow(q)
  /\ Goto(r, IF RowsOf(Key[r]) = {} THEN "sharing" ELSE "duplicate")
  /\ UNCHANGED <<attempt, seen, database, redis, reply>>

\* The foreign-key checks of the INSERT: FOR KEY SHARE on both wallets.
ShareRow(r) ==
  /\ pc[r] = "sharing"
  /\ CanShare(r, NextShare(r))
  /\ share' = [share EXCEPT ![NextShare(r)] = @ \cup {r}]
  /\ Goto(r, IF r \in share[Sender[r]] THEN "locking" ELSE "sharing")
  /\ UNCHANGED <<attempt, seen, owner, wallet, rows, ledger, redis, reply>>

\* Mutant: the pair is read with a plain SELECT, which takes no lock.
LockRow_PlainSelect(r) ==
  /\ pc[r] = "locking"
  /\ seen' = [seen EXCEPT ![r] =
               [w \in Wallets |-> IF w \in Pair(r) THEN RowOf(w) ELSE UnreadWallet]]
  /\ Goto(r, "locked")
  /\ UNCHANGED <<attempt, share, owner, wallet, rows, ledger, redis, reply>>

\* SELECT ... FOR UPDATE reaches the next row of the pair.
LockRow(r) ==
  /\ pc[r] = "locking"
  /\ CanOwn(r, NextLock(r))
  /\ owner' = [owner EXCEPT ![NextLock(r)] = r]
  /\ seen' = [seen EXCEPT ![r][NextLock(r)] = RowOf(NextLock(r))]
  /\ Goto(r, IF \E w \in Pair(r) : owner[w] = r THEN "locked" ELSE "locking")
  /\ UNCHANGED <<attempt, share, wallet, rows, ledger, redis, reply>>

\* The re-check throws: the row just inserted is rolled back.
RefuseUnderLock(r) ==
  /\ pc[r] = "locked"
  /\ ~StillValid(r)
  /\ Rollback(r)
  /\ Goto(r, "rejected")
  /\ UNCHANGED <<attempt, redis, reply>>

\* Mutant: the statuses are those that were validated before the lock.
Debit_NoRecheck(r) ==
  /\ pc[r] = "locked"
  /\ Goto(r, IF balance[Sender[r]] >= Amount[r] THEN "debited" ELSE "declined")
  /\ UNCHANGED <<attempt, seen, database, redis, reply>>

\* The re-check passes and the conditional debit reports whether it applied.
Debit(r) ==
  /\ pc[r] = "locked"
  /\ StillValid(r)
  /\ Goto(r, IF DebitGuard(r) THEN "debited" ELSE "declined")
  /\ UNCHANGED <<attempt, seen, database, redis, reply>>

\* Credit, postings and markCompleted.  A second settlement of one money
\* request breaks unique(origin_request_id): a raw error, hence a fault.
Post(r) ==
  /\ pc[r] = "debited"
  /\ ~Origin_InFlight(r)
  /\ \/ /\ ~OriginTaken(r)
        /\ Goto(r, "posted")
        /\ UNCHANGED <<seen, database>>
     \/ /\ OriginTaken(r)
        /\ Rollback(r)
        /\ Goto(r, "faulted")
  /\ UNCHANGED <<attempt, redis, reply>>

\* COMMIT: the row, the postings and both balances become visible at once.
Publish(r) ==
  /\ ReleaseLocks(r)
  /\ \/ /\ pc[r] = "posted"
        /\ rows' = rows \cup {[id |-> r, key |-> Key[r],
                               status |-> "COMPLETED", origin |-> Origin[r]]}
        /\ ledger' = ledger \cup Postings(r)
        /\ balance' = Moved(r)
        /\ UNCHANGED <<reserved, status>>
     \/ /\ pc[r] = "declined"
        /\ rows' = rows \cup {[id |-> r, key |-> Key[r],
                               status |-> "FAILED", origin |-> NoOrigin]}
        /\ UNCHANGED <<ledger, wallet>>

Commit(r) ==
  /\ Publish(r)
  /\ Goto(r, "settled")
  /\ UNCHANGED <<attempt, redis, reply>>

\* The COMMIT is applied and its acknowledgement is lost with the connection.
CommitUnacknowledged(r) ==
  /\ "ack" \in Faults
  /\ Publish(r)
  /\ Goto(r, "faulted")
  /\ UNCHANGED <<attempt, redis, reply>>

\* Mutant: retries without a bound.
Contention_Unbounded(r) ==
  /\ pc[r] \in Attempting
  /\ Rollback(r)
  /\ Goto(r, "ready")
  /\ UNCHANGED <<attempt, redis, reply>>

\* A lock timeout, a deadlock abort or a saturated pool: retried, then given up.
Contention(r) ==
  /\ pc[r] \in Attempting
  /\ Rollback(r)
  /\ \/ /\ attempt[r] < MaxAttempts
        /\ attempt' = [attempt EXCEPT ![r] = @ + 1]
        /\ Goto(r, "ready")
     \/ /\ "database" \in Faults
        /\ attempt[r] = MaxAttempts
        /\ UNCHANGED attempt
        /\ Goto(r, "faulted")
  /\ UNCHANGED <<redis, reply>>

\* Any other error of the database: not retried.
DatabaseError(r) ==
  /\ "database" \in Faults
  /\ pc[r] \in Attempting \cup {"validating"}
  /\ Rollback(r)
  /\ Goto(r, "faulted")
  /\ UNCHANGED <<attempt, redis, reply>>

-----------------------------------------------------------------------------
(* After the transaction: the rest of process(), and handleFailure *)

\* idempotency.complete, also for a durable FAILED row, then the answer.
StoreAnswer(r) ==
  /\ pc[r] = "settled"
  /\ \E t \in rows :
       /\ t.id = r
       /\ Store(Key[r], [state |-> "COMPLETED", tx |-> r, result |-> t.status])
       /\ Answer(r, t.status, r)
  /\ UNCHANGED <<attempt, seen, database>>

\* Mutant: a row found under the key is taken for a completed one.
ReplayRow_AlwaysCompleted(r) ==
  /\ pc[r] = "duplicate"
  /\ \E t \in RowsOf(Key[r]) : Answer(r, "COMPLETED", t.id)
  /\ UNCHANGED <<attempt, seen, database, redis>>

\* A duplicate is answered from the row it collided with; Redis is left alone.
ReplayRow(r) ==
  /\ pc[r] = "duplicate"
  /\ \/ \E t \in RowsOf(Key[r]) : Answer(r, t.status, t.id)
     \/ Answer(r, "ERROR", NoCall)   \* the lookup itself fails
  /\ UNCHANGED <<attempt, seen, database, redis>>

\* A business rejection without a row: idempotency.fail, then the answer.
RecordRejection(r) ==
  /\ pc[r] = "rejected"
  /\ Store(Key[r], [state |-> "FAILED", tx |-> r, result |-> "FAILED"])
  /\ Answer(r, "FAILED", r)
  /\ UNCHANGED <<attempt, seen, database>>

\* An infrastructure fault: idempotency.release, then the error is rethrown.
ReleaseKey(r) ==
  /\ pc[r] = "faulted"
  /\ Store(Key[r], NoRecord)
  /\ Answer(r, "ERROR", NoCall)
  /\ UNCHANGED <<attempt, seen, database>>

-----------------------------------------------------------------------------
(* The environment *)

\* The process serving the call dies; PostgreSQL rolls its transaction back.
Crash(r) ==
  /\ "crash" \in Faults
  /\ pc[r] \notin {"new", "done", "crashed"}
  /\ Rollback(r)
  /\ Goto(r, "crashed")
  /\ UNCHANGED <<attempt, redis, reply>>

\* Mutant: SET NX without an expiry.
ExpireClaim_Never(k) == FALSE /\ UNCHANGED vars

\* A claim whose call is over lapses after inFlightTtlSeconds.
ExpireClaim(k) ==
  /\ redis[k].state = "PROCESSING"
  /\ pc[redis[k].tx] \in {"done", "crashed"}
  /\ redis' = [redis EXCEPT ![k] = NoRecord]
  /\ UNCHANGED <<pc, attempt, seen, database, reply>>

\* An answer lapses resultTtlSeconds after it was stored, at whatever point the
\* other calls with its key are by then.
ExpireAnswer(k) ==
  /\ redis[k].state \in {"COMPLETED", "FAILED"}
  /\ redis' = [redis EXCEPT ![k] = NoRecord]
  /\ UNCHANGED <<pc, attempt, seen, database, reply>>

\* Redis evicts a record or loses it in a failover, or a claim lapses although
\* its call still runs.
LoseRecord(k) ==
  /\ "redis" \in Faults
  /\ redis[k] # NoRecord
  /\ redis' = [redis EXCEPT ![k] = NoRecord]
  /\ UNCHANGED <<pc, attempt, seen, database, reply>>

\* WalletSecurityUseCases through transitionStatus: one UPDATE of the row,
\* which waits for a FOR UPDATE lock but not for FOR KEY SHARE.
SetStatus(w, from, to) ==
  /\ owner[w] = NoCall
  /\ status[w] \in from
  /\ status' = [status EXCEPT ![w] = to]
  /\ UNCHANGED <<pc, attempt, seen, share, owner, balance, reserved, rows, ledger,
                 redis, reply>>

Freeze(w) == SetStatus(w, {"ACTIVE"}, "FROZEN")
Unfreeze(w) == SetStatus(w, {"FROZEN"}, "ACTIVE")
MarkUnderReview(w) == SetStatus(w, {"ACTIVE", "FROZEN"}, "UNDER_REVIEW")

\* adjustReservation, in its own transaction under the wallet's row lock.
AdjustReservation(w) ==
  /\ owner[w] = NoCall /\ share[w] = {}
  /\ \E n \in Earmarks :
       /\ n # reserved[w]
       /\ n <= balance[w]
       /\ reserved' = [reserved EXCEPT ![w] = n]
  /\ UNCHANGED <<pc, attempt, seen, share, owner, balance, status, rows, ledger,
                 redis, reply>>

-----------------------------------------------------------------------------
Init ==
  /\ pc = [r \in Requests |-> "new"]
  /\ attempt = [r \in Requests |-> 1]
  /\ seen = [r \in Requests |-> [w \in Wallets |-> UnreadWallet]]
  /\ share = [w \in Wallets |-> {}]
  /\ owner = [w \in Wallets |-> NoCall]
  /\ balance = Opening
  /\ reserved = [w \in Wallets |-> 0]
  /\ status = OpeningStatus
  /\ rows = {}
  /\ ledger = {}
  /\ redis = [k \in Keys |-> NoRecord]
  /\ reply = [r \in Requests |-> NoReply]

\* What a call does once its client has sent it.
CallStep(r) ==
  \/ ReadRecord(r) \/ Validate(r) \/ Insert(r) \/ ShareRow(r) \/ LockRow(r)
  \/ RefuseUnderLock(r) \/ Debit(r) \/ Post(r) \/ Commit(r) \/ Contention(r)
  \/ StoreAnswer(r) \/ ReplayRow(r) \/ RecordRejection(r) \/ ReleaseKey(r)

Arrive(r) == ReserveKey(r) \/ KeyIsTaken(r)

FaultStep(r) ==
  \/ ReserveDegraded(r) \/ CommitUnacknowledged(r) \/ DatabaseError(r) \/ Crash(r)

RedisStep(k) == ExpireClaim(k) \/ ExpireAnswer(k) \/ LoseRecord(k)

WalletStep(w) ==
  \/ Freeze(w) \/ Unfreeze(w) \/ MarkUnderReview(w) \/ AdjustReservation(w)

Next ==
  \/ \E r \in Requests : CallStep(r) \/ Arrive(r) \/ FaultStep(r)
  \/ \E k \in Keys : RedisStep(k)
  \/ \E w \in Wallets : WalletStep(w)

Spec == Init /\ [][Next]_vars

\* A running server keeps executing its calls, PostgreSQL ends a blocked
\* transaction at its timeout (Contention), and Redis expires a claim.
Fairness ==
  /\ \A r \in Requests : WF_vars(CallStep(r))
  /\ \A k \in Keys : WF_vars(ExpireClaim(k))

FairSpec == Spec /\ Fairness
-----------------------------------------------------------------------------
(* Type invariant *)

\* Every variable has its type; a lock names a call, a record names a call.
TypeOK ==
  /\ pc \in [Requests -> Stages]
  /\ attempt \in [Requests -> 1..MaxAttempts]
  /\ seen \in [Requests -> [Wallets -> WalletRow]]
  /\ share \in [Wallets -> SUBSET Requests]
  /\ owner \in [Wallets -> Requests \cup {NoCall}]
  /\ balance \in [Wallets -> Int]
  /\ reserved \in [Wallets -> Int]
  /\ status \in [Wallets -> Statuses]
  /\ rows \subseteq TransactionRow
  /\ ledger \subseteq LedgerEntry
  /\ redis \in [Keys -> IdempotencyRecord]
  /\ reply \in [Requests -> Reply]

-----------------------------------------------------------------------------
(* Safety *)

\* "One request = one transaction": however many calls carry a key, and
\* whatever Redis forgets, at most one row with that key is ever committed.
OneRowPerKey == \A t, u \in rows : t.key = u.key => t = u

\* The postings of a committed transaction: the debit and the credit if it is
\* COMPLETED, none if it is FAILED, and no posting without its transaction.
\* This is "money is never taken from one wallet without arriving in another"
\* and, with OneRowPerKey, "a retry is not a second payment".
RowsMatchLedger ==
  /\ \A t \in rows :
       LET entries == {e \in ledger : e.tx = t.id}
       IN  IF t.status = "FAILED"
           THEN entries = {}
           ELSE /\ Cardinality(entries) = 2
                /\ \E e \in entries :
                     e.wallet = Sender[t.id] /\ e.amount = -Amount[t.id]
                /\ \E e \in entries :
                     e.wallet = Receiver[t.id] /\ e.amount = Amount[t.id]
  /\ \A e \in ledger : \E t \in rows : t.id = e.tx

\* Reconciliation (view wallet_balance_drift): the balance column of every
\* wallet is what its postings add up to.
NoBalanceDrift ==
  \A w \in Wallets :
    balance[w] = Opening[w] +
      MapThenSumSet(LAMBDA e : e.amount, {e \in ledger : e.wallet = w})

\* Reserved money is never spent: wallets_balance_non_negative and the
\* reservation guard hold together although a transfer and a reservation
\* each look at a column the other one writes.
ReservedWithinBalance ==
  \A w \in Wallets : 0 <= reserved[w] /\ reserved[w] <= balance[w]

\* A money request is settled by at most one transaction, whatever keys the
\* accepting calls used (unique origin_request_id, written at completion).
OneSettlementPerOrigin ==
  \A t, u \in rows : t.origin # NoOrigin /\ t.origin = u.origin => t = u

\* A call that answers COMPLETED, fresh or replayed, names a transaction of
\* its own key that did complete.
CompletedAnswersAreTrue ==
  \A r \in Requests :
    reply[r].status = "COMPLETED" =>
      \E t \in rows : /\ t.id = reply[r].tx
                      /\ t.key = Key[r]
                      /\ t.status = "COMPLETED"

\* A call that answers FAILED, fresh or replayed, names a transaction of its
\* own key that has not moved money and never will.
FailedAnswersAreTrue ==
  \A r \in Requests :
    reply[r].status = "FAILED" =>
      /\ reply[r].tx \in Requests /\ Key[reply[r].tx] = Key[r]
      /\ \A t \in rows : t.id = reply[r].tx => t.status = "FAILED"

\* What a client is told of the transaction named in its answer is what the
\* tables say of it, although the answer may come from Redis, where any late
\* call with the key overwrites the record.
AnswersAreTrue == CompletedAnswersAreTrue /\ FailedAnswersAreTrue

-----------------------------------------------------------------------------
(* Action properties *)

\* Every change of a balance is posted in the same commit, and the posting's
\* balance_after is the balance the commit leaves: the snapshot read with the
\* lock is still current when the ledger row is written.
BalanceChangesArePosted ==
  [][\A w \in Wallets :
       balance'[w] # balance[w] =>
         \E e \in ledger' \ ledger :
           /\ e.wallet = w
           /\ e.amount = balance'[w] - balance[w]
           /\ e.after = balance'[w]]_vars

\* A wallet that is frozen or under review when a transfer commits does not
\* pay, however long before the freeze the transfer was validated.
OnlyActiveWalletsPay ==
  [][\A w \in Wallets :
       balance'[w] < balance[w] =>
         status[w] = "ACTIVE" /\ w \in ActiveOwner]_vars

\* Once a transaction row or a posting is committed it is never changed or
\* removed, and once a call has answered its answer stands.
HistoryIsAppendOnly ==
  [][/\ rows \subseteq rows'
     /\ ledger \subseteq ledger'
     /\ \A r \in Requests : reply[r] # NoReply => reply'[r] = reply[r]]_vars

-----------------------------------------------------------------------------
(* Liveness, under FairSpec *)

\* A call that has begun is answered, or its process has crashed: no wait for
\* a lock, a unique index or a retry lasts for ever.
EveryCallEnds ==
  \A r \in Requests : pc[r] # "new" ~> pc[r] \in {"done", "crashed"}

\* No key stays claimed for ever, whatever became of the call that claimed it.
EveryClaimIsLifted ==
  \A k \in Keys : redis[k].state = "PROCESSING" ~> redis[k].state # "PROCESSING"
=============================================================================
