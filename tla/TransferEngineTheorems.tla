------------------------ MODULE TransferEngineTheorems ------------------------
(***************************************************************************)
(* What TransferEngine guarantees, for every set of calls, keys and        *)
(* wallets, every bound and every choice of Faults.  The invariant of      *)
(* TransferEngineInvariant is inductive; the safety properties, the action *)
(* properties and the refinement of AtomicTransfer follow from it.         *)
(***************************************************************************)
EXTENDS TransferEngineMemory, Sequences, SumTheorems

USE DEF Pair, Statuses, wallet, database, vars

-----------------------------------------------------------------------------
(* Types *)

\* The stages an action may move to are stages.
LEMMA GotoType ==
  ASSUME NEW r \in Requests, NEW stage \in Stages,
         pc \in [Requests -> Stages], Goto(r, stage)
  PROVE  pc' \in [Requests -> Stages]
BY DEF Goto

\* Releasing locks keeps the types of the lock table and of the snapshots.
LEMMA ReleaseLocksType ==
  ASSUME NEW r \in Requests, TypeOK, ReleaseLocks(r)
  PROVE  /\ share' \in [Wallets -> SUBSET Requests]
         /\ owner' \in [Wallets -> Requests \cup {NoCall}]
         /\ seen' \in [Requests -> [Wallets -> WalletRow]]
<1>1. UnreadWallet \in WalletRow
  BY DEF UnreadWallet, WalletRow
<1> QED
  BY <1>1 DEF TypeOK, ReleaseLocks

LEMMA RollbackType ==
  ASSUME NEW r \in Requests, TypeOK, Rollback(r),
         pc' \in [Requests -> Stages],
         attempt' \in [Requests -> 1..MaxAttempts],
         redis' \in [Keys -> IdempotencyRecord],
         reply' \in [Requests -> Reply]
  PROVE  TypeOK'
BY ReleaseLocksType DEF Rollback, TypeOK

LEMMA AnswerType ==
  ASSUME NEW r \in Requests,
         NEW outcome \in {"none", "COMPLETED", "FAILED", "IN_FLIGHT", "ERROR"},
         NEW tx \in Requests \cup {NoCall},
         TypeOK, Answer(r, outcome, tx)
  PROVE  pc' \in [Requests -> Stages] /\ reply' \in [Requests -> Reply]
<1>1. [status |-> outcome, tx |-> tx] \in Reply
  BY DEF Reply
<1> QED
  BY <1>1 DEF TypeOK, Answer, Goto, Stages

LEMMA StoreType ==
  ASSUME NEW k \in Keys, NEW record \in IdempotencyRecord, TypeOK, Store(k, record)
  PROVE  redis' \in [Keys -> IdempotencyRecord]
BY DEF Store, TypeOK

\* Publishing keeps the types of the tables.
LEMMA PublishType ==
  ASSUME NEW r \in Requests, TypeOK, Publish(r)
  PROVE  /\ share' \in [Wallets -> SUBSET Requests]
         /\ owner' \in [Wallets -> Requests \cup {NoCall}]
         /\ seen' \in [Requests -> [Wallets -> WalletRow]]
         /\ balance' \in [Wallets -> Int]
         /\ reserved' \in [Wallets -> Int]
         /\ status' \in [Wallets -> Statuses]
         /\ rows' \subseteq TransactionRow
         /\ ledger' \subseteq LedgerEntry
<1> USE CommandAssumption
<1>1. ReleaseLocks(r)
  BY DEF Publish
<1>2. CASE pc[r] = "posted"
  <2>1. /\ rows' = rows \cup {[id |-> r, key |-> Key[r],
                               status |-> "COMPLETED", origin |-> Origin[r]]}
        /\ ledger' = ledger \cup Postings(r)
        /\ balance' = Moved(r)
        /\ UNCHANGED <<reserved, status>>
    BY <1>2 DEF Publish
  <2>2. [id |-> r, key |-> Key[r], status |-> "COMPLETED", origin |-> Origin[r]]
          \in TransactionRow
    BY DEF TransactionRow
  <2>3. /\ seen[r][Sender[r]].balance \in Int
        /\ seen[r][Receiver[r]].balance \in Int
    BY DEF TypeOK, WalletRow
  <2>4. Postings(r) \subseteq LedgerEntry
    BY <2>3 DEF Postings, LedgerEntry
  <2>5. Moved(r) \in [Wallets -> Int]
    BY DEF Moved, TypeOK
  <2> QED
    BY <1>1, <2>1, <2>2, <2>4, <2>5, ReleaseLocksType DEF TypeOK
<1>3. CASE pc[r] # "posted"
  <2>1. /\ rows' = rows \cup {[id |-> r, key |-> Key[r],
                               status |-> "FAILED", origin |-> NoOrigin]}
        /\ UNCHANGED <<ledger, wallet>>
    BY <1>3 DEF Publish
  <2>2. [id |-> r, key |-> Key[r], status |-> "FAILED", origin |-> NoOrigin]
          \in TransactionRow
    BY DEF TransactionRow
  <2> QED
    BY <1>1, <2>1, <2>2, ReleaseLocksType DEF TypeOK
<1> QED
  BY <1>2, <1>3

\* What a call of process() does keeps the types.
LEMMA CallType ==
  ASSUME TypeOK, NEW r \in Requests,
         CallStep(r) \/ Arrive(r) \/ FaultStep(r)
  PROVE  TypeOK'
<1> USE CommandAssumption, PolicyAssumption
<1>1. NoRecord \in IdempotencyRecord
  BY DEF NoRecord, IdempotencyRecord
<1>2. [state |-> "PROCESSING", tx |-> r, result |-> "none"] \in IdempotencyRecord
  BY DEF IdempotencyRecord
<1>3. CASE ReserveKey(r)
  <2>1. redis' \in [Keys -> IdempotencyRecord]
    BY <1>2, <1>3 DEF ReserveKey, TypeOK
  <2>2. pc' \in [Requests -> Stages]
    BY <1>3 DEF ReserveKey, TypeOK, Goto, Stages
  <2> QED
    BY <2>1, <2>2, <1>3 DEF ReserveKey, TypeOK
<1>4. CASE KeyIsTaken(r)
  BY <1>4 DEF KeyIsTaken, TypeOK, Goto, Stages
<1>5. CASE ReadRecord(r)
  <2>1. redis[Key[r]] \in IdempotencyRecord
    BY DEF TypeOK
  <2>2. pc' \in [Requests -> Stages] /\ reply' \in [Requests -> Reply]
    <3>1. CASE redis[Key[r]].state = "PROCESSING" /\ Answer(r, "IN_FLIGHT", redis[Key[r]].tx)
      BY <2>1, <3>1, AnswerType DEF IdempotencyRecord
    <3>2. CASE Answer(r, redis[Key[r]].result, redis[Key[r]].tx)
      BY <2>1, <3>2, AnswerType DEF IdempotencyRecord
    <3>3. CASE Goto(r, "validating") /\ UNCHANGED reply
      BY <3>3 DEF TypeOK, Goto, Stages
    <3> QED
      BY <1>5, <3>1, <3>2, <3>3 DEF ReadRecord
  <2> QED
    BY <2>2, <1>5 DEF ReadRecord, TypeOK
<1>6. CASE ReserveDegraded(r)
  <2>1. redis' \in [Keys -> IdempotencyRecord]
    BY <1>2, <1>6 DEF ReserveDegraded, TypeOK
  <2>2. pc' \in [Requests -> Stages]
    BY <1>6 DEF ReserveDegraded, TypeOK, Goto, Stages
  <2> QED
    BY <2>1, <2>2, <1>6 DEF ReserveDegraded, TypeOK
<1>7. CASE Validate(r)
  BY <1>7 DEF Validate, TypeOK, Goto, Stages, Attempting
<1>8. CASE Insert(r)
  BY <1>8 DEF Insert, TypeOK, Goto, Stages, Attempting, Inserted
<1>9. CASE ShareRow(r)
  <2>1. pc' \in [Requests -> Stages]
    BY <1>9 DEF ShareRow, TypeOK, Goto, Stages, Attempting, Inserted
  <2>2. share' \in [Wallets -> SUBSET Requests]
    BY <1>9 DEF ShareRow, TypeOK
  <2> QED
    BY <2>1, <2>2, <1>9 DEF ShareRow, TypeOK
<1>10. CASE LockRow(r)
  <2>1. pc' \in [Requests -> Stages]
    BY <1>10 DEF LockRow, TypeOK, Goto, Stages, Attempting, Inserted
  <2>2. owner' \in [Wallets -> Requests \cup {NoCall}]
    BY <1>10 DEF LockRow, TypeOK
  <2>3. \A w \in Wallets : RowOf(w) \in WalletRow
    BY DEF RowOf, WalletRow, TypeOK
  <2>4. seen' \in [Requests -> [Wallets -> WalletRow]]
    BY <2>3, <1>10 DEF LockRow, TypeOK
  <2> QED
    BY <2>1, <2>2, <2>4, <1>10 DEF LockRow, TypeOK
<1>11. CASE RefuseUnderLock(r)
  <2>1. pc' \in [Requests -> Stages]
    BY <1>11 DEF RefuseUnderLock, TypeOK, Goto, Stages
  <2> QED
    BY <2>1, <1>11, RollbackType DEF RefuseUnderLock, TypeOK
<1>12. CASE Debit(r)
  BY <1>12 DEF Debit, TypeOK, Goto, Stages, Attempting, Inserted
<1>13. CASE Post(r)
  <2>1. CASE Goto(r, "posted") /\ UNCHANGED <<seen, database>>
    BY <2>1, <1>13 DEF Post, TypeOK, Goto, Stages, Attempting, Inserted
  <2>2. CASE Rollback(r) /\ Goto(r, "faulted")
    <3>1. pc' \in [Requests -> Stages]
      BY <2>2 DEF TypeOK, Goto, Stages
    <3> QED
      BY <3>1, <2>2, <1>13, RollbackType DEF Post, TypeOK
  <2> QED
    BY <2>1, <2>2, <1>13 DEF Post
<1>14. CASE Commit(r)
  <2>1. pc' \in [Requests -> Stages]
    BY <1>14 DEF Commit, TypeOK, Goto, Stages
  <2> QED
    BY <2>1, <1>14, PublishType DEF Commit, TypeOK
<1>15. CASE CommitUnacknowledged(r)
  <2>1. pc' \in [Requests -> Stages]
    BY <1>15 DEF CommitUnacknowledged, TypeOK, Goto, Stages
  <2> QED
    BY <2>1, <1>15, PublishType DEF CommitUnacknowledged, TypeOK
<1>16. CASE Contention(r)
  <2>1. pc' \in [Requests -> Stages]
    BY <1>16 DEF Contention, TypeOK, Goto, Stages, Attempting
  <2>2. attempt' \in [Requests -> 1..MaxAttempts]
    <3>1. MaxAttempts \in Nat /\ attempt[r] \in 1..MaxAttempts
      BY DEF TypeOK
    <3>2. CASE attempt[r] < MaxAttempts /\ attempt' = [attempt EXCEPT ![r] = @ + 1]
      <4>1. attempt[r] + 1 \in 1..MaxAttempts
        BY <3>1, <3>2
      <4> QED
        BY <3>2, <4>1 DEF TypeOK
    <3>3. CASE UNCHANGED attempt
      BY <3>3 DEF TypeOK
    <3> QED
      BY <1>16, <3>2, <3>3 DEF Contention
  <2> QED
    BY <2>1, <2>2, <1>16, RollbackType DEF Contention, TypeOK
<1>17. CASE DatabaseError(r)
  <2>1. pc' \in [Requests -> Stages]
    BY <1>17 DEF DatabaseError, TypeOK, Goto, Stages
  <2> QED
    BY <2>1, <1>17, RollbackType DEF DatabaseError, TypeOK
<1>18. CASE StoreAnswer(r)
  <2>1. PICK t \in rows :
          /\ Store(Key[r], [state |-> "COMPLETED", tx |-> r, result |-> t.status])
          /\ Answer(r, t.status, r)
    BY <1>18 DEF StoreAnswer
  <2>2. t.status \in {"COMPLETED", "FAILED"}
    BY DEF TypeOK, TransactionRow
  <2>3. [state |-> "COMPLETED", tx |-> r, result |-> t.status] \in IdempotencyRecord
    BY <2>2 DEF IdempotencyRecord
  <2>4. redis' \in [Keys -> IdempotencyRecord]
    BY <2>1, <2>3, StoreType
  <2>5. pc' \in [Requests -> Stages] /\ reply' \in [Requests -> Reply]
    BY <2>1, <2>2, AnswerType
  <2> QED
    BY <2>4, <2>5, <1>18 DEF StoreAnswer, TypeOK
<1>19. CASE ReplayRow(r)
  <2>1. CASE \E t \in RowsOf(Key[r]) : Answer(r, t.status, t.id)
    <3>1. PICK t \in rows : Answer(r, t.status, t.id)
      BY <2>1, Zenon DEF RowsOf
    <3>2. t.status \in {"COMPLETED", "FAILED"} /\ t.id \in Requests
      BY DEF TypeOK, TransactionRow
    <3>3. pc' \in [Requests -> Stages] /\ reply' \in [Requests -> Reply]
      BY <3>1, <3>2, AnswerType
    <3> QED
      BY <3>3, <1>19 DEF ReplayRow, TypeOK
  <2>2. CASE Answer(r, "ERROR", NoCall)
    BY <2>2, <1>19, AnswerType DEF ReplayRow, TypeOK
  <2> QED
    BY <2>1, <2>2, <1>19 DEF ReplayRow
<1>20. CASE RecordRejection(r)
  <2>1. [state |-> "FAILED", tx |-> r, result |-> "FAILED"] \in IdempotencyRecord
    BY DEF IdempotencyRecord
  <2>2. redis' \in [Keys -> IdempotencyRecord]
    BY <2>1, <1>20, StoreType DEF RecordRejection
  <2> QED
    BY <2>2, <1>20, AnswerType DEF RecordRejection, TypeOK
<1>21. CASE ReleaseKey(r)
  <2>1. redis' \in [Keys -> IdempotencyRecord]
    BY <1>1, <1>21, StoreType DEF ReleaseKey
  <2> QED
    BY <2>1, <1>21, AnswerType DEF ReleaseKey, TypeOK
<1>22. CASE Crash(r)
  <2>1. pc' \in [Requests -> Stages]
    BY <1>22 DEF Crash, TypeOK, Goto, Stages
  <2> QED
    BY <2>1, <1>22, RollbackType DEF Crash, TypeOK
<1> QED
  BY <1>3, <1>4, <1>5, <1>6, <1>7, <1>8, <1>9, <1>10, <1>11, <1>12, <1>13, <1>14,
     <1>15, <1>16, <1>17, <1>18, <1>19, <1>20, <1>21, <1>22
  DEF CallStep, Arrive, FaultStep

\* What the environment does keeps the types.
LEMMA EnvironmentType ==
  ASSUME TypeOK,
         (\E k \in Keys : RedisStep(k)) \/ (\E w \in Wallets : WalletStep(w))
  PROVE  TypeOK'
<1> USE WalletAssumption
<1>1. ASSUME NEW k \in Keys, RedisStep(k)
      PROVE  TypeOK'
  <2>1. NoRecord \in IdempotencyRecord
    BY DEF NoRecord, IdempotencyRecord
  <2> QED
    BY <1>1, <2>1 DEF RedisStep, ExpireClaim, ExpireAnswer, LoseRecord, TypeOK
<1>2. ASSUME NEW w \in Wallets, WalletStep(w)
      PROVE  TypeOK'
  <2>1. CASE AdjustReservation(w)
    BY <2>1 DEF AdjustReservation, TypeOK
  <2>2. ASSUME NEW from, NEW to \in Statuses, SetStatus(w, from, to)
        PROVE  TypeOK'
    BY <2>2 DEF SetStatus, TypeOK
  <2>3. CASE Freeze(w)
    BY <2>3, <2>2 DEF Freeze
  <2>4. CASE Unfreeze(w)
    BY <2>4, <2>2 DEF Unfreeze
  <2>5. CASE MarkUnderReview(w)
    BY <2>5, <2>2 DEF MarkUnderReview
  <2> QED
    BY <1>2, <2>1, <2>3, <2>4, <2>5 DEF WalletStep
<1> QED
  BY <1>1, <1>2

LEMMA StepType == TypeOK /\ [Next]_vars => TypeOK'
<1> SUFFICES ASSUME TypeOK, [Next]_vars PROVE TypeOK'
  OBVIOUS
<1>1. CASE Next
  BY <1>1, CallType, EnvironmentType DEF Next
<1>2. CASE UNCHANGED vars
  BY <1>2 DEF TypeOK
<1> QED
  BY <1>1, <1>2

\* Every reachable state is well typed.
THEOREM TypeCorrect == Spec => []TypeOK
<1>1. Init => TypeOK
  <2> SUFFICES ASSUME Init PROVE TypeOK
    OBVIOUS
  <2>1. UnreadWallet \in WalletRow /\ NoRecord \in IdempotencyRecord /\ NoReply \in Reply
    BY DEF UnreadWallet, WalletRow, NoRecord, IdempotencyRecord, NoReply, Reply
  <2> QED
    BY <2>1, WalletAssumption, PolicyAssumption DEF Init, TypeOK, Stages
<1>2. TypeOK /\ [Next]_vars => TypeOK'
  BY StepType
<1> QED
  BY <1>1, <1>2, PTL DEF Spec

-----------------------------------------------------------------------------
(* What a step does to the invariant *)

\* A step of call r to stage s that leaves the tables, the locks and the
\* snapshots alone keeps the invariant, if r may be at stage s.
LEMMA QuietStep ==
  ASSUME IInv, TypeOK', NEW r \in Requests, NEW s \in Stages,
         pc' = [pc EXCEPT ![r] = s],
         UNCHANGED <<seen, database>>,
         s \in Attempting =>
           Amount[r] > 0 /\ Sender[r] # Receiver[r] /\ Pair(r) \subseteq ActiveOwner,
         \A w \in Wallets : owner[w] = r => s \in Locked \cup {"locking"},
         s = "locking" => \E w \in Pair(r) : owner[w] # r,
         s \in Locked => \A w \in Pair(r) : owner[w] = r,
         s \in {"debited", "posted"} => DebitGuard(r),
         s = "declined" =>
           status[Sender[r]] = "ACTIVE" /\ balance[Sender[r]] - reserved[Sender[r]] < Amount[r],
         s \in Inserted =>
           RowsOf(Key[r]) = {} /\ \A q \in Requests : HasRow(q) /\ Key[q] = Key[r] => q = r,
         s = "posted" =>
           /\ ~OriginTaken(r)
           /\ \A q \in Requests :
                pc[q] = "posted" /\ Origin[q] = Origin[r] /\ Origin[r] # NoOrigin => q = r,
         RecordsAreTrue', CompletedAnswersAreTrue'
  PROVE  IInv'
<1> USE DEF IInv
<1>0. /\ pc'[r] = s
      /\ \A q \in Requests : q # r => pc'[q] = pc[q]
      /\ \A q \in Requests : (q # r \/ pc[q] = s) => pc'[q] = pc[q]
  BY DEF TypeOK
<1>1. AttemptsAreValidated'
  BY <1>0 DEF AttemptsAreValidated
<1>2. OwnersAreLocking'
  BY <1>0 DEF OwnersAreLocking
<1>3. LockedPairsAreOwned'
  BY <1>0 DEF LockedPairsAreOwned
<1>4. SnapshotsAreCurrent'
  BY DEF SnapshotsAreCurrent, RowOf
<1>5. DecisionsStand'
  BY <1>0 DEF DecisionsStand, DebitGuard
<1>6. KeysAreExclusive'
  BY <1>0 DEF KeysAreExclusive, HasRow, RowsOf
<1>7. OriginsAreExclusive'
  BY <1>0 DEF OriginsAreExclusive, OriginTaken
<1>8. RowsCarryTheirKey' /\ OneRowPerKey' /\ OneSettlementPerOrigin'
  BY DEF RowsCarryTheirKey, OneRowPerKey, OneSettlementPerOrigin
<1>9. LedgerIsExplained'
  BY DEF LedgerIsExplained, EntriesOf, Legs
<1>10. ReservedWithinBalance'
  BY DEF ReservedWithinBalance
<1> QED
  BY <1>1, <1>2, <1>3, <1>4, <1>5, <1>6, <1>7, <1>8, <1>9, <1>10

\* A rolled back call leaves nothing behind.
LEMMA RollbackStep ==
  ASSUME IInv, TypeOK', NEW r \in Requests, NEW s \in Stages,
         pc' = [pc EXCEPT ![r] = s], s \notin Inserted, Rollback(r),
         s \in Attempting => pc[r] \in Attempting,
         UNCHANGED <<redis, reply>>
  PROVE  IInv'
<1> USE DEF IInv
<1>0. /\ pc'[r] = s
      /\ \A q \in Requests : q # r => pc'[q] = pc[q]
  BY DEF TypeOK
<1>a. /\ UNCHANGED <<wallet, rows, ledger>>
      /\ \A w \in Wallets : owner'[w] = IF owner[w] = r THEN NoCall ELSE owner[w]
      /\ \A q \in Requests : q # r => seen'[q] = seen[q]
  BY DEF Rollback, ReleaseLocks, TypeOK
<1>b. r # NoCall /\ \A q \in Requests : q # NoCall
  BY CommandAssumption
<1>c. \A q \in Requests : \A w \in Wallets : owner'[w] = q <=> (q # r /\ owner[w] = q)
  BY <1>a, <1>b
<1>d. Locked \subseteq Inserted /\ "locking" \in Inserted /\ Inserted \subseteq Attempting
  BY DEF Locked, Inserted, Attempting
<1>e. \A q \in Requests : Pair(q) \subseteq Wallets
  BY CommandAssumption
<1>1. AttemptsAreValidated'
  BY <1>0 DEF AttemptsAreValidated
<1>2. OwnersAreLocking'
  BY <1>0, <1>c DEF OwnersAreLocking
<1>3. LockedPairsAreOwned'
  BY <1>0, <1>c, <1>d, <1>e DEF LockedPairsAreOwned
<1>4. SnapshotsAreCurrent'
  BY <1>a, <1>c DEF SnapshotsAreCurrent, RowOf
<1>5. DecisionsStand'
  BY <1>0, <1>a, <1>d DEF DecisionsStand, DebitGuard, Locked
<1>6. KeysAreExclusive'
  BY <1>0, <1>a DEF KeysAreExclusive, HasRow, RowsOf
<1>7. OriginsAreExclusive'
  BY <1>0, <1>a, <1>d DEF OriginsAreExclusive, OriginTaken, Locked
<1>8. RowsCarryTheirKey' /\ OneRowPerKey' /\ OneSettlementPerOrigin'
  BY <1>a DEF RowsCarryTheirKey, OneRowPerKey, OneSettlementPerOrigin
<1>9. LedgerIsExplained'
  BY <1>a DEF LedgerIsExplained, EntriesOf, Legs
<1>10. ReservedWithinBalance'
  BY <1>a DEF ReservedWithinBalance
<1>11. RecordsAreTrue' /\ CompletedAnswersAreTrue'
  BY <1>a DEF RecordsAreTrue, CompletedAnswersAreTrue
<1> QED
  BY <1>1, <1>2, <1>3, <1>4, <1>5, <1>6, <1>7, <1>8, <1>9, <1>10, <1>11

LEMMA ShareRowStep ==
  ASSUME IInv, TypeOK', NEW r \in Requests, ShareRow(r)
  PROVE  IInv'
<1> USE DEF IInv
<1>0. /\ pc[r] = "sharing" /\ pc'[r] \in {"sharing", "locking"}
      /\ \A q \in Requests : q # r => pc'[q] = pc[q]
  BY DEF TypeOK, ShareRow, Goto
<1>a. UNCHANGED <<seen, owner, balance, reserved, status, rows, ledger, redis, reply>>
  BY DEF ShareRow
<1>b. {"sharing", "locking"} \subseteq Attempting /\ {"sharing", "locking"} \subseteq Inserted
  BY DEF Attempting, Inserted
<1>c. \A w \in Wallets : owner[w] # r
  BY <1>0 DEF OwnersAreLocking, Locked
<1>1. AttemptsAreValidated'
  BY <1>0, <1>b DEF AttemptsAreValidated
<1>2. OwnersAreLocking'
  BY <1>0, <1>a, <1>c DEF OwnersAreLocking
<1>3. LockedPairsAreOwned'
  BY <1>0, <1>a, <1>c, CommandAssumption DEF LockedPairsAreOwned, Locked
<1>4. SnapshotsAreCurrent'
  BY <1>a DEF SnapshotsAreCurrent, RowOf
<1>5. DecisionsStand'
  BY <1>0, <1>a DEF DecisionsStand, DebitGuard
<1>6. KeysAreExclusive'
  BY <1>0, <1>a, <1>b DEF KeysAreExclusive, HasRow, RowsOf
<1>7. OriginsAreExclusive'
  BY <1>0, <1>a DEF OriginsAreExclusive, OriginTaken
<1>8. RowsCarryTheirKey' /\ OneRowPerKey' /\ OneSettlementPerOrigin'
  BY <1>a DEF RowsCarryTheirKey, OneRowPerKey, OneSettlementPerOrigin
<1>9. LedgerIsExplained'
  BY <1>a DEF LedgerIsExplained, EntriesOf, Legs
<1>10. ReservedWithinBalance'
  BY <1>a DEF ReservedWithinBalance
<1>11. RecordsAreTrue' /\ CompletedAnswersAreTrue'
  BY <1>a DEF RecordsAreTrue, CompletedAnswersAreTrue
<1> QED
  BY <1>1, <1>2, <1>3, <1>4, <1>5, <1>6, <1>7, <1>8, <1>9, <1>10, <1>11

\* While a call is locking, the next row is one of its pair that it lacks.
LEMMA NextLockExists ==
  ASSUME NEW r \in Requests, \E w \in Pair(r) : owner[w] # r
  PROVE  NextLock(r) \in Pair(r) /\ owner[NextLock(r)] # r
<1> USE CommandAssumption, WalletAssumption
<1>1. /\ Sender[r] \in Wallets /\ Receiver[r] \in Wallets
      /\ Rank[Sender[r]] \in Nat /\ Rank[Receiver[r]] \in Nat
  OBVIOUS
<1>2. \E w \in Pair(r) :
        /\ owner[w] # r
        /\ \A v \in Pair(r) : owner[v] # r => Rank[w] <= Rank[v]
  <2>1. CASE owner[Sender[r]] = r
    BY <2>1, <1>1
  <2>2. CASE owner[Receiver[r]] = r
    BY <2>2, <1>1
  <2>3. CASE owner[Sender[r]] # r /\ owner[Receiver[r]] # r
    <3>1. CASE Rank[Sender[r]] <= Rank[Receiver[r]]
      BY <2>3, <3>1, <1>1
    <3>2. CASE Rank[Receiver[r]] <= Rank[Sender[r]]
      BY <2>3, <3>2, <1>1
    <3> QED
      BY <3>1, <3>2, <1>1
  <2> QED
    BY <2>1, <2>2, <2>3
<1> QED
  BY <1>2 DEF NextLock

LEMMA LockRowStep ==
  ASSUME IInv, TypeOK', NEW r \in Requests, LockRow(r)
  PROVE  IInv'
<1> USE DEF IInv
<1> DEFINE n == NextLock(r)
<1>0. /\ pc[r] = "locking" /\ pc'[r] \in {"locking", "locked"}
      /\ pc'[r] = "locked" <=> \E w \in Pair(r) : owner[w] = r
      /\ \A q \in Requests : q # r => pc'[q] = pc[q]
  BY DEF TypeOK, LockRow, Goto
<1>a. UNCHANGED <<share, balance, reserved, status, rows, ledger, redis, reply>>
  BY DEF LockRow
<1>b. /\ {"locking", "locked"} \subseteq Attempting
      /\ {"locking", "locked"} \subseteq Inserted
      /\ "locked" \in Locked
  BY DEF Attempting, Inserted, Locked
<1>c. /\ n \in Pair(r) /\ n \in Wallets /\ owner[n] = NoCall
      /\ \A q \in Requests : owner[n] # q
  BY <1>0, NextLockExists, CommandAssumption DEF LockedPairsAreOwned, LockRow, CanOwn
<1>d. \A w \in Wallets : owner'[w] = IF w = n THEN r ELSE owner[w]
  BY <1>c DEF LockRow, TypeOK
<1>e. \A q \in Requests : \A w \in Wallets :
        seen'[q][w] = IF q = r /\ w = n THEN RowOf(w) ELSE seen[q][w]
  BY <1>c DEF LockRow, TypeOK
<1>f. Sender[r] # Receiver[r]
  BY <1>0, <1>b DEF AttemptsAreValidated
<1>g. \A q \in Requests : Pair(q) \subseteq Wallets
  BY CommandAssumption
<1>1. AttemptsAreValidated'
  BY <1>0, <1>b DEF AttemptsAreValidated
<1>2. OwnersAreLocking'
  BY <1>0, <1>b, <1>c, <1>d DEF OwnersAreLocking
<1>3. LockedPairsAreOwned'
  <2>1. ASSUME NEW q \in Requests, q # r
        PROVE  /\ pc'[q] = "locking" => \E w \in Pair(q) : owner'[w] # q
               /\ pc'[q] \in Locked => \A w \in Pair(q) : owner'[w] = q
    BY <2>1, <1>0, <1>c, <1>d, <1>g DEF LockedPairsAreOwned
  <2>2. pc'[r] = "locking" => \E w \in Pair(r) : owner'[w] # r
    BY <1>0, <1>c, <1>d, <1>f, <1>g
  <2>3. pc'[r] \in Locked => \A w \in Pair(r) : owner'[w] = r
    BY <1>0, <1>c, <1>d, <1>g DEF Locked
  <2> QED
    BY <2>1, <2>2, <2>3 DEF LockedPairsAreOwned
<1>4. SnapshotsAreCurrent'
  BY <1>a, <1>c, <1>d, <1>e DEF SnapshotsAreCurrent, RowOf
<1>5. DecisionsStand'
  BY <1>0, <1>a DEF DecisionsStand, DebitGuard
<1>6. KeysAreExclusive'
  BY <1>0, <1>a, <1>b DEF KeysAreExclusive, HasRow, RowsOf
<1>7. OriginsAreExclusive'
  BY <1>0, <1>a DEF OriginsAreExclusive, OriginTaken
<1>8. RowsCarryTheirKey' /\ OneRowPerKey' /\ OneSettlementPerOrigin'
  BY <1>a DEF RowsCarryTheirKey, OneRowPerKey, OneSettlementPerOrigin
<1>9. LedgerIsExplained'
  BY <1>a DEF LedgerIsExplained, EntriesOf, Legs
<1>10. ReservedWithinBalance'
  BY <1>a DEF ReservedWithinBalance
<1>11. RecordsAreTrue' /\ CompletedAnswersAreTrue'
  BY <1>a DEF RecordsAreTrue, CompletedAnswersAreTrue
<1> QED
  BY <1>1, <1>2, <1>3, <1>4, <1>5, <1>6, <1>7, <1>8, <1>9, <1>10, <1>11

\* A commit: the row is new to its key and to its origin, the snapshots it
\* posts from are current, and no other call relies on the two wallets.
LEMMA PublishStep ==
  ASSUME IInv, TypeOK', NEW r \in Requests, NEW s \in {"settled", "faulted"},
         pc' = [pc EXCEPT ![r] = s], Publish(r), UNCHANGED <<redis, reply>>
  PROVE  IInv'
<1> USE DEF IInv
<1>t. PICK t0 :
        t0 = [id |-> r, key |-> Key[r],
              status |-> IF pc[r] = "posted" THEN "COMPLETED" ELSE "FAILED",
              origin |-> IF pc[r] = "posted" THEN Origin[r] ELSE NoOrigin]
  OBVIOUS
<1>0. /\ pc[r] \in {"posted", "declined"} /\ pc'[r] = s
      /\ \A q \in Requests : q # r => pc'[q] = pc[q]
  BY DEF TypeOK, Publish
<1>a. /\ rows' = rows \cup {t0}
      /\ UNCHANGED <<reserved, status>>
      /\ pc[r] = "posted" => ledger' = ledger \cup Postings(r) /\ balance' = Moved(r)
      /\ pc[r] = "declined" => UNCHANGED <<ledger, balance>>
  BY <1>t DEF Publish
<1>b. /\ \A w \in Wallets : owner'[w] = IF owner[w] = r THEN NoCall ELSE owner[w]
      /\ \A q \in Requests : q # r => seen'[q] = seen[q]
  BY DEF Publish, ReleaseLocks, TypeOK
<1>c. \A q \in Requests : \A w \in Wallets : owner'[w] = q <=> (q # r /\ owner[w] = q)
  BY <1>b, CommandAssumption
<1>d. /\ Locked \subseteq Inserted /\ "locking" \in Inserted /\ Inserted \subseteq Attempting
      /\ {"posted", "declined", "debited"} \subseteq Locked
      /\ s \notin Attempting
  BY DEF Locked, Inserted, Attempting
<1>e. \A q \in Requests : Pair(q) \subseteq Wallets
  BY CommandAssumption
<1>f. \A w \in Pair(r) : owner[w] = r
  BY <1>0, <1>d DEF LockedPairsAreOwned
<1>g. Amount[r] > 0 /\ Amount[r] \in Int /\ Sender[r] # Receiver[r]
      /\ Sender[r] \in Wallets /\ Receiver[r] \in Wallets
  BY <1>0, <1>d, CommandAssumption DEF AttemptsAreValidated
<1>h. \A w \in Wallets : w \notin Pair(r) => balance'[w] = balance[w]
  BY <1>0, <1>a, <1>g DEF Moved, TypeOK
<1>i. /\ RowsOf(Key[r]) = {}
      /\ \A t \in rows : t.key # Key[r] /\ t.id # r
      /\ \A q \in Requests : q # r /\ HasRow(q) => Key[q] # Key[r]
  BY <1>0, <1>d DEF KeysAreExclusive, HasRow, RowsOf, RowsCarryTheirKey
<1>j. \A e \in ledger : e.tx # r
  BY <1>i DEF LedgerIsExplained
<1>k. /\ t0.id = r /\ t0.key = Key[r]
      /\ t0.status = IF pc[r] = "posted" THEN "COMPLETED" ELSE "FAILED"
      /\ t0.origin = IF pc[r] = "posted" THEN Origin[r] ELSE NoOrigin
  BY <1>t
<1>1. AttemptsAreValidated'
  BY <1>0, <1>d DEF AttemptsAreValidated
<1>2. OwnersAreLocking'
  BY <1>0, <1>c DEF OwnersAreLocking
<1>3. LockedPairsAreOwned'
  BY <1>0, <1>c, <1>d, <1>e DEF LockedPairsAreOwned
<1>4. SnapshotsAreCurrent'
  BY <1>a, <1>b, <1>c, <1>f, <1>h DEF SnapshotsAreCurrent, RowOf
<1>5. DecisionsStand'
  <2>1. ASSUME NEW q \in Requests, q # r, pc[q] \in Locked
        PROVE  balance'[Sender[q]] = balance[Sender[q]]
    BY <2>1, <1>d, <1>e, <1>f, <1>h DEF LockedPairsAreOwned
  <2> QED
    BY <2>1, <1>0, <1>a, <1>d DEF DecisionsStand, DebitGuard
<1>6. KeysAreExclusive'
  <2>1. ASSUME NEW q \in Requests, HasRow(q)'
        PROVE  q # r /\ HasRow(q) /\ RowsOf(Key[q])' = {}
    <3>1. q # r /\ HasRow(q)
      BY <2>1, <1>0, <1>d DEF HasRow
    <3>2. RowsOf(Key[q]) = {} /\ Key[q] # Key[r]
      BY <3>1, <1>i DEF KeysAreExclusive
    <3> QED
      BY <3>1, <3>2, <1>a, <1>k DEF RowsOf
  <2> QED
    BY <2>1 DEF KeysAreExclusive
<1>7. OriginsAreExclusive'
  <2>1. ASSUME NEW q \in Requests, pc'[q] = "posted"
        PROVE  q # r /\ pc[q] = "posted" /\ ~OriginTaken(q)'
    <3>1. q # r /\ pc[q] = "posted"
      BY <2>1, <1>0, <1>d
    <3>2. ~OriginTaken(q)
      BY <3>1 DEF OriginsAreExclusive
    <3>3. Origin[q] # NoOrigin => t0.origin # Origin[q]
      BY <3>1, <1>0, <1>k DEF OriginsAreExclusive
    <3> QED
      BY <3>1, <3>2, <3>3, <1>a DEF OriginTaken
  <2> QED
    BY <2>1 DEF OriginsAreExclusive
<1>8. RowsCarryTheirKey' /\ OneRowPerKey'
  BY <1>a, <1>i, <1>k DEF RowsCarryTheirKey, OneRowPerKey
<1>9. OneSettlementPerOrigin'
  <2>1. t0.origin # NoOrigin => \A t \in rows : t.origin # t0.origin
    BY <1>0, <1>k DEF OriginsAreExclusive, OriginTaken
  <2> QED
    BY <2>1, <1>a DEF OneSettlementPerOrigin
<1>10. LedgerIsExplained'
  <2>1. \A e \in Postings(r) : e.tx = r
    BY DEF Postings
  <2>2. \A t \in rows : EntriesOf(t)' = EntriesOf(t)
    BY <2>1, <1>0, <1>a, <1>i DEF EntriesOf
  <2>3. EntriesOf(t0)' = IF pc[r] = "posted" THEN Postings(r) ELSE {}
    BY <2>1, <1>0, <1>a, <1>j, <1>k DEF EntriesOf
  <2>4. \A t \in rows' :
          /\ t.status = "FAILED" => EntriesOf(t)' = {}
          /\ t.status = "COMPLETED" =>
               /\ Amount[t.id] > 0
               /\ \E e, f \in EntriesOf(t)' : EntriesOf(t)' = Legs(t, e.after, f.after)
    <3>1. ASSUME NEW t \in rows
          PROVE  /\ t.status = "FAILED" => EntriesOf(t)' = {}
                 /\ t.status = "COMPLETED" =>
                      /\ Amount[t.id] > 0
                      /\ \E e, f \in EntriesOf(t)' : EntriesOf(t)' = Legs(t, e.after, f.after)
      BY <2>2 DEF LedgerIsExplained
    <3>2. t0.status = "FAILED" => EntriesOf(t0)' = {}
      BY <2>3, <1>k
    <3>3. ASSUME t0.status = "COMPLETED"
          PROVE  /\ Amount[t0.id] > 0
                 /\ \E e, f \in EntriesOf(t0)' : EntriesOf(t0)' = Legs(t0, e.after, f.after)
      <4>1. pc[r] = "posted" /\ EntriesOf(t0)' = Postings(r)
        BY <3>3, <2>3, <1>k
      <4> DEFINE e0 == [tx |-> r, wallet |-> Sender[r], amount |-> -Amount[r],
                        after |-> seen[r][Sender[r]].balance - Amount[r]]
                 f0 == [tx |-> r, wallet |-> Receiver[r], amount |-> Amount[r],
                        after |-> seen[r][Receiver[r]].balance + Amount[r]]
      <4>2. Postings(r) = {e0, f0}
        BY DEF Postings
      <4>3. Legs(t0, e0.after, f0.after) = {e0, f0}
        BY <1>k DEF Legs
      <4> HIDE DEF e0, f0
      <4>4. /\ e0 \in EntriesOf(t0)' /\ f0 \in EntriesOf(t0)'
            /\ EntriesOf(t0)' = Legs(t0, e0.after, f0.after)
        BY <4>1, <4>2, <4>3
      <4>5. \E e, f \in EntriesOf(t0)' : EntriesOf(t0)' = Legs(t0, e.after, f.after)
        BY <4>4, Zenon
      <4>6. Amount[t0.id] > 0
        BY <1>g, <1>k
      <4> QED
        BY <4>5, <4>6
    <3> QED
      BY <3>1, <3>2, <3>3, <1>a
  <2>5. \A e \in ledger' : \E t \in rows' : t.id = e.tx
    BY <2>1, <1>0, <1>a, <1>k DEF LedgerIsExplained
  <2>6. \A t \in rows' : /\ EntriesOf(t)' = {e \in ledger' : e.tx = t.id}
    BY DEF EntriesOf
  <2> QED
    BY <2>4, <2>5 DEF LedgerIsExplained, EntriesOf, Legs
<1>11. ReservedWithinBalance'
  <2>1. CASE pc[r] = "posted"
    <3>1. balance[Sender[r]] - reserved[Sender[r]] >= Amount[r]
      BY <2>1 DEF DecisionsStand, DebitGuard
    <3>2. /\ balance'[Sender[r]] = balance[Sender[r]] - Amount[r]
          /\ balance'[Receiver[r]] = balance[Receiver[r]] + Amount[r]
      BY <2>1, <1>a, <1>g DEF Moved, TypeOK
    <3>3. \A w \in Wallets :
            /\ balance[w] \in Int /\ reserved[w] \in Int
            /\ 0 <= reserved[w] /\ reserved[w] <= balance[w]
            /\ reserved'[w] = reserved[w]
      BY <1>a DEF ReservedWithinBalance, TypeOK
    <3>4. ASSUME NEW w \in Wallets
          PROVE  0 <= reserved'[w] /\ reserved'[w] <= balance'[w]
      <4>1. CASE w = Sender[r]
        BY <4>1, <3>1, <3>2, <3>3, <1>g
      <4>2. CASE w = Receiver[r]
        BY <4>2, <3>2, <3>3, <1>g
      <4>3. CASE w \notin Pair(r)
        BY <4>3, <3>3, <1>h
      <4> QED
        BY <4>1, <4>2, <4>3
    <3> QED
      BY <3>4 DEF ReservedWithinBalance
  <2>2. CASE pc[r] = "declined"
    BY <2>2, <1>a DEF ReservedWithinBalance
  <2> QED
    BY <2>1, <2>2, <1>0
<1>12. RecordsAreTrue' /\ CompletedAnswersAreTrue'
  BY <1>a DEF RecordsAreTrue, CompletedAnswersAreTrue
<1> QED
  BY <1>1, <1>2, <1>3, <1>4, <1>5, <1>6, <1>7, <1>8, <1>9, <1>10, <1>11, <1>12

\* Steps of the environment: a wallet's status and reservation change only
\* while no call owns the row, and Redis only ever forgets.
LEMMA EnvironmentStep ==
  ASSUME IInv, TypeOK',
         (\E k \in Keys : RedisStep(k)) \/ (\E w \in Wallets : WalletStep(w))
  PROVE  IInv'
<1> USE DEF IInv
<1>0. UNCHANGED <<pc, seen, owner, balance, rows, ledger, reply>>
  BY DEF RedisStep, ExpireClaim, ExpireAnswer, LoseRecord, WalletStep, Freeze, Unfreeze,
         MarkUnderReview, SetStatus, AdjustReservation
<1>a. \A w \in Wallets : (\E q \in Requests : owner[w] = q) =>
        status'[w] = status[w] /\ reserved'[w] = reserved[w]
  <2>1. CASE \E k \in Keys : RedisStep(k)
    BY <2>1 DEF RedisStep, ExpireClaim, ExpireAnswer, LoseRecord
  <2>2. CASE \E w \in Wallets : WalletStep(w)
    <3>1. PICK v \in Wallets : WalletStep(v)
      BY <2>2
    <3>2. owner[v] = NoCall /\ \A w \in Wallets : w # v => status'[w] = status[w] /\ reserved'[w] = reserved[w]
      BY <3>1 DEF WalletStep, Freeze, Unfreeze, MarkUnderReview, SetStatus,
                  AdjustReservation, TypeOK
    <3> QED
      BY <3>2, CommandAssumption
  <2> QED
    BY <2>1, <2>2
<1>b. \A q \in Requests : pc[q] \in Locked =>
        status'[Sender[q]] = status[Sender[q]] /\ reserved'[Sender[q]] = reserved[Sender[q]]
  BY <1>a, CommandAssumption DEF LockedPairsAreOwned
<1>c. {"debited", "posted", "declined"} \subseteq Locked
  BY DEF Locked
<1>1. AttemptsAreValidated' /\ OwnersAreLocking' /\ LockedPairsAreOwned'
  BY <1>0 DEF AttemptsAreValidated, OwnersAreLocking, LockedPairsAreOwned
<1>2. SnapshotsAreCurrent'
  BY <1>0, <1>a DEF SnapshotsAreCurrent, RowOf
<1>3. DecisionsStand'
  BY <1>0, <1>b, <1>c DEF DecisionsStand, DebitGuard
<1>4. KeysAreExclusive' /\ OriginsAreExclusive' /\ RowsCarryTheirKey'
  BY <1>0 DEF KeysAreExclusive, HasRow, RowsOf, OriginsAreExclusive, OriginTaken,
              RowsCarryTheirKey
<1>5. OneRowPerKey' /\ OneSettlementPerOrigin' /\ CompletedAnswersAreTrue'
  BY <1>0 DEF OneRowPerKey, OneSettlementPerOrigin, CompletedAnswersAreTrue
<1>6. LedgerIsExplained'
  BY <1>0 DEF LedgerIsExplained, EntriesOf, Legs
<1>7. RecordsAreTrue'
  <2>1. \A k \in Keys : redis'[k] = redis[k] \/ redis'[k] = NoRecord
    BY DEF RedisStep, ExpireClaim, ExpireAnswer, LoseRecord, WalletStep, Freeze, Unfreeze,
           MarkUnderReview, SetStatus, AdjustReservation, TypeOK
  <2> QED
    BY <2>1, <1>0 DEF RecordsAreTrue, NoRecord
<1>8. ReservedWithinBalance'
  <2>1. CASE UNCHANGED reserved
    BY <2>1, <1>0 DEF ReservedWithinBalance
  <2>2. CASE \E w \in Wallets : AdjustReservation(w)
    <3>1. PICK v \in Wallets, n \in Earmarks :
            n <= balance[v] /\ reserved' = [reserved EXCEPT ![v] = n]
      BY <2>2 DEF AdjustReservation
    <3>2. n \in Nat
      BY WalletAssumption
    <3> QED
      BY <3>1, <3>2, <1>0 DEF ReservedWithinBalance, TypeOK
  <2> QED
    BY <2>1, <2>2 DEF RedisStep, ExpireClaim, ExpireAnswer, LoseRecord, WalletStep, Freeze,
       Unfreeze, MarkUnderReview, SetStatus
<1> QED
  BY <1>1, <1>2, <1>3, <1>4, <1>5, <1>6, <1>7, <1>8

\* Calls outside their database transaction, or about to begin it, own no row.
LEMMA OutsideOwnsNothing ==
  ASSUME IInv, NEW r \in Requests, pc[r] \notin Locked \cup {"locking"}
  PROVE  \A w \in Wallets : owner[w] # r
BY DEF IInv, OwnersAreLocking

\* What a call does keeps the invariant.
LEMMA CallInv ==
  ASSUME IInv, TypeOK', NEW r \in Requests,
         CallStep(r) \/ Arrive(r) \/ FaultStep(r)
  PROVE  IInv'
<1> USE CommandAssumption
<1>t. TypeOK
  BY DEF IInv
<1>s. /\ {"sharing", "locking", "locked", "debited", "declined", "posted"} = Inserted
      /\ Attempting = Inserted \cup {"ready"}
      /\ Locked = {"locked", "debited", "declined", "posted"}
  BY DEF Inserted, Attempting, Locked
<1>w. \A q \in Requests : Pair(q) \subseteq Wallets /\ Sender[q] \in Pair(q)
  OBVIOUS
\* Steps of a call that is outside its database transaction and stays there.
<1>o. ASSUME NEW s \in Stages, s \notin Attempting, pc[r] \notin Inserted,
             pc' = [pc EXCEPT ![r] = s], UNCHANGED <<seen, database>>,
             RecordsAreTrue', CompletedAnswersAreTrue'
      PROVE  IInv'
  <2>1. \A w \in Wallets : owner[w] # r
    BY <1>o, <1>s, OutsideOwnsNothing
  <2>2. s \notin Inserted /\ s \notin Locked /\ s # "locking" /\ s # "declined" /\ s # "posted"
        /\ s # "debited"
    BY <1>o, <1>s
  <2> QED
    BY <1>o, <2>1, <2>2, QuietStep
\* ... that do not answer, and do not store an answer.
<1>u. ASSUME NEW s \in Stages, s \notin Attempting, pc[r] \notin Inserted, Goto(r, s),
             UNCHANGED <<seen, database, reply>>,
             \A k \in Keys : redis'[k] = redis[k] \/ redis'[k].result = "none"
      PROVE  IInv'
  <2>1. RecordsAreTrue' /\ CompletedAnswersAreTrue'
    BY <1>u DEF IInv, RecordsAreTrue, CompletedAnswersAreTrue
  <2> QED
    BY <1>o, <1>u, <2>1 DEF Goto
\* What may be written to Redis: a record that tells the truth.
<1>k. ASSUME NEW record \in IdempotencyRecord, Store(Key[r], record), UNCHANGED database,
             record.result = "COMPLETED" =>
               \E t \in rows : t.id = record.tx /\ t.key = Key[r] /\ t.status = "COMPLETED"
      PROVE  RecordsAreTrue'
  <2>1. \A k \in Keys : redis'[k] = redis[k] \/ (k = Key[r] /\ redis'[k] = record)
    BY <1>k, <1>t DEF Store, TypeOK
  <2>2. rows' = rows
    BY <1>k
  <2> QED
    BY <1>k, <2>1, <2>2 DEF IInv, RecordsAreTrue
<1>1. CASE ReserveKey(r)
  <2>1. \A k \in Keys : redis'[k] = redis[k] \/ redis'[k].result = "none"
    BY <1>1, <1>t DEF ReserveKey, TypeOK
  <2>2. "validating" \in Stages /\ "validating" \notin Attempting /\ pc[r] \notin Inserted
    BY <1>1, <1>s DEF ReserveKey, Stages
  <2> QED
    BY <1>1, <1>u, <2>1, <2>2 DEF ReserveKey
<1>2. CASE KeyIsTaken(r)
  <2>1. "reading" \in Stages /\ "reading" \notin Attempting /\ pc[r] \notin Inserted
    BY <1>2, <1>s DEF KeyIsTaken, Stages
  <2> QED
    BY <1>2, <1>u, <2>1 DEF KeyIsTaken
<1>3. CASE ReadRecord(r)
  <2>1. /\ "done" \in Stages /\ "done" \notin Attempting
        /\ "validating" \in Stages /\ "validating" \notin Attempting
        /\ pc[r] \notin Inserted /\ UNCHANGED <<seen, database, redis>>
    BY <1>3, <1>s DEF ReadRecord, Stages
  <2>2. CASE Goto(r, "validating") /\ UNCHANGED reply
    BY <2>1, <2>2, <1>u
  <2>3. CASE Answer(r, "IN_FLIGHT", redis[Key[r]].tx)
    <3>1. CompletedAnswersAreTrue' /\ RecordsAreTrue'
      BY <2>1, <2>3, <1>t DEF IInv, Answer, CompletedAnswersAreTrue, RecordsAreTrue, TypeOK
    <3> QED
      BY <2>1, <2>3, <3>1, <1>o DEF Answer, Goto
  <2>4. CASE Answer(r, redis[Key[r]].result, redis[Key[r]].tx)
    <3>1. RecordsAreTrue'
      BY <2>1 DEF IInv, RecordsAreTrue
    <3>2. CompletedAnswersAreTrue'
      BY <2>1, <2>4, <1>t DEF IInv, Answer, CompletedAnswersAreTrue, RecordsAreTrue, TypeOK
    <3> QED
      BY <2>1, <2>4, <3>1, <3>2, <1>o DEF Answer, Goto
  <2> QED
    BY <1>3, <2>2, <2>3, <2>4 DEF ReadRecord
<1>4. CASE ReserveDegraded(r)
  <2>1. \A k \in Keys : redis'[k] = redis[k] \/ redis'[k].result = "none"
    BY <1>4, <1>t DEF ReserveDegraded, TypeOK
  <2>2. "validating" \in Stages /\ "validating" \notin Attempting /\ pc[r] \notin Inserted
    BY <1>4, <1>s DEF ReserveDegraded, Stages
  <2> QED
    BY <1>4, <1>u, <2>1, <2>2 DEF ReserveDegraded
<1>5. CASE Validate(r)
  <2>1. pc[r] \notin Inserted /\ UNCHANGED <<seen, database, redis, reply>>
    BY <1>5, <1>s DEF Validate
  <2>2. CASE PassesValidation(r)
    <3>1. pc' = [pc EXCEPT ![r] = "ready"] /\ "ready" \in Stages
      BY <1>5, <2>2, <1>s DEF Validate, Goto, Stages
    <3>2. Amount[r] > 0 /\ Sender[r] # Receiver[r] /\ Pair(r) \subseteq ActiveOwner
      BY <2>2 DEF PassesValidation
    <3>3. \A w \in Wallets : owner[w] # r
      BY <2>1, <1>s, OutsideOwnsNothing
    <3>4. RecordsAreTrue' /\ CompletedAnswersAreTrue'
      BY <2>1 DEF IInv, RecordsAreTrue, CompletedAnswersAreTrue
    <3>5. "ready" \notin Inserted /\ "ready" \notin Locked
      BY <1>s
    <3> QED
      BY <2>1, <3>1, <3>2, <3>3, <3>4, <3>5, QuietStep
  <2>3. CASE ~PassesValidation(r)
    <3>1. "rejected" \in Stages /\ "rejected" \notin Attempting /\ Goto(r, "rejected")
      BY <1>5, <2>3, <1>s DEF Validate, Stages
    <3> QED
      BY <2>1, <3>1, <1>u
  <2> QED
    BY <2>2, <2>3
<1>6. CASE Insert(r)
  <2>1. /\ pc[r] = "ready" /\ UNCHANGED <<seen, database, redis, reply>>
        /\ \A q \in Requests : Key[q] = Key[r] => ~HasRow(q)
    BY <1>6 DEF Insert
  <2>2. CASE RowsOf(Key[r]) = {}
    <3>1. pc' = [pc EXCEPT ![r] = "sharing"] /\ "sharing" \in Stages
      BY <1>6, <2>2, <1>s DEF Insert, Goto, Stages
    <3>2. Amount[r] > 0 /\ Sender[r] # Receiver[r] /\ Pair(r) \subseteq ActiveOwner
      BY <2>1, <1>s DEF IInv, AttemptsAreValidated
    <3>3. \A w \in Wallets : owner[w] # r
      BY <2>1, <1>s, OutsideOwnsNothing
    <3>4. RecordsAreTrue' /\ CompletedAnswersAreTrue'
      BY <2>1 DEF IInv, RecordsAreTrue, CompletedAnswersAreTrue
    <3>5. "sharing" \notin Locked
      BY <1>s
    <3> QED
      BY <2>1, <2>2, <3>1, <3>2, <3>3, <3>4, <3>5, QuietStep
  <2>3. CASE RowsOf(Key[r]) # {}
    <3>1. /\ "duplicate" \in Stages /\ "duplicate" \notin Attempting /\ Goto(r, "duplicate")
          /\ pc[r] \notin Inserted
      BY <1>6, <2>1, <2>3, <1>s DEF Insert, Stages
    <3> QED
      BY <2>1, <3>1, <1>u
  <2> QED
    BY <2>2, <2>3
<1>7. CASE ShareRow(r)
  BY <1>7, ShareRowStep
<1>8. CASE LockRow(r)
  BY <1>8, LockRowStep
<1>9. CASE Debit(r)
  <2>1. pc[r] = "locked" /\ UNCHANGED <<seen, database, redis, reply>> /\ StillValid(r)
    BY <1>9 DEF Debit
  <2>2. PICK s \in {"debited", "declined"} :
          pc' = [pc EXCEPT ![r] = s] /\ (s = "debited" <=> DebitGuard(r))
    BY <1>9 DEF Debit, Goto
  <2>3. /\ Amount[r] > 0 /\ Sender[r] # Receiver[r] /\ Pair(r) \subseteq ActiveOwner
        /\ \A w \in Pair(r) : owner[w] = r
        /\ RowsOf(Key[r]) = {}
        /\ \A q \in Requests : HasRow(q) /\ Key[q] = Key[r] => q = r
    BY <2>1, <1>s DEF IInv, AttemptsAreValidated, LockedPairsAreOwned, KeysAreExclusive, HasRow
  <2>4. status[Sender[r]] = "ACTIVE"
    <3>1. seen[r][Sender[r]] = RowOf(Sender[r])
      BY <2>3, <1>w DEF IInv, SnapshotsAreCurrent
    <3>2. seen[r][Sender[r]].status = "ACTIVE"
      BY <2>1 DEF StillValid
    <3> QED
      BY <3>1, <3>2 DEF RowOf
  <2>5. s = "declined" => balance[Sender[r]] - reserved[Sender[r]] < Amount[r]
    <3>1. /\ balance[Sender[r]] \in Int /\ reserved[Sender[r]] \in Int /\ Amount[r] \in Int
      BY <1>t DEF TypeOK
    <3> QED
      BY <3>1, <2>2, <2>4 DEF DebitGuard
  <2>6. RecordsAreTrue' /\ CompletedAnswersAreTrue'
    BY <2>1 DEF IInv, RecordsAreTrue, CompletedAnswersAreTrue
  <2>7. s \in Stages /\ s \in Locked /\ s # "posted" /\ s # "locking"
    BY <1>s DEF Stages
  <2> QED
    BY <2>1, <2>2, <2>3, <2>4, <2>5, <2>6, <2>7, QuietStep
<1>10. CASE Post(r)
  <2>1. pc[r] = "debited" /\ ~Origin_InFlight(r) /\ UNCHANGED <<redis, reply>>
    BY <1>10 DEF Post
  <2>2. CASE ~OriginTaken(r) /\ Goto(r, "posted") /\ UNCHANGED <<seen, database>>
    <3>1. /\ Amount[r] > 0 /\ Sender[r] # Receiver[r] /\ Pair(r) \subseteq ActiveOwner
          /\ \A w \in Pair(r) : owner[w] = r
          /\ RowsOf(Key[r]) = {}
          /\ \A q \in Requests : HasRow(q) /\ Key[q] = Key[r] => q = r
          /\ DebitGuard(r)
      BY <2>1, <1>s DEF IInv, AttemptsAreValidated, LockedPairsAreOwned, KeysAreExclusive,
                        HasRow, DecisionsStand
    <3>2. \A q \in Requests :
            pc[q] = "posted" /\ Origin[q] = Origin[r] /\ Origin[r] # NoOrigin => q = r
      BY <2>1 DEF Origin_InFlight
    <3>3. RecordsAreTrue' /\ CompletedAnswersAreTrue'
      BY <2>1, <2>2 DEF IInv, RecordsAreTrue, CompletedAnswersAreTrue
    <3>4. "posted" \in Stages /\ "posted" \in Locked
      BY <1>s DEF Stages
    <3> QED
      BY <2>1, <2>2, <3>1, <3>2, <3>3, <3>4, QuietStep DEF Goto
  <2>3. CASE Rollback(r) /\ Goto(r, "faulted")
    <3>1. "faulted" \in Stages /\ "faulted" \notin Attempting /\ "faulted" \notin Inserted
      BY <1>s DEF Stages
    <3> QED
      BY <2>1, <2>3, <3>1, RollbackStep DEF Goto
  <2> QED
    BY <1>10, <2>2, <2>3 DEF Post
<1>r. ASSUME NEW s \in Stages, s \notin Attempting, Goto(r, s), Rollback(r),
             UNCHANGED <<redis, reply>>
      PROVE  IInv'
  <2>1. s \notin Inserted
    BY <1>r, <1>s
  <2> QED
    BY <1>r, <2>1, RollbackStep DEF Goto
<1>11. CASE RefuseUnderLock(r)
  <2>1. "rejected" \in Stages /\ "rejected" \notin Attempting
    BY <1>s DEF Stages
  <2> QED
    BY <1>11, <2>1, <1>r DEF RefuseUnderLock
<1>12. CASE DatabaseError(r)
  <2>1. "faulted" \in Stages /\ "faulted" \notin Attempting
    BY <1>s DEF Stages
  <2> QED
    BY <1>12, <2>1, <1>r DEF DatabaseError
<1>13. CASE Crash(r)
  <2>1. "crashed" \in Stages /\ "crashed" \notin Attempting
    BY <1>s DEF Stages
  <2> QED
    BY <1>13, <2>1, <1>r DEF Crash
<1>14. CASE Contention(r)
  <2>1. PICK s \in {"ready", "faulted"} : pc' = [pc EXCEPT ![r] = s]
    BY <1>14 DEF Contention, Goto
  <2>2. s \in Stages /\ s \notin Inserted
    BY <1>s DEF Stages
  <2>3. pc[r] \in Attempting /\ Rollback(r) /\ UNCHANGED <<redis, reply>>
    BY <1>14 DEF Contention
  <2> QED
    BY <2>1, <2>2, <2>3, RollbackStep
<1>15. CASE Commit(r)
  BY <1>15, PublishStep DEF Commit, Goto
<1>16. CASE CommitUnacknowledged(r)
  BY <1>16, PublishStep DEF CommitUnacknowledged, Goto
<1>d. "done" \in Stages /\ "done" \notin Attempting
  BY <1>s DEF Stages
<1>17. CASE StoreAnswer(r)
  <2>1. PICK t \in rows :
          /\ t.id = r
          /\ Store(Key[r], [state |-> "COMPLETED", tx |-> r, result |-> t.status])
          /\ Answer(r, t.status, r)
    BY <1>17 DEF StoreAnswer
  <2>2. pc[r] \notin Inserted /\ UNCHANGED <<seen, database>>
    BY <1>17, <1>s DEF StoreAnswer
  <2>3. t.key = Key[r]
    BY <2>1 DEF IInv, RowsCarryTheirKey
  <2>4. RecordsAreTrue'
    <3>1. t.status \in {"COMPLETED", "FAILED"}
      BY <1>t DEF TypeOK, TransactionRow
    <3>2. [state |-> "COMPLETED", tx |-> r, result |-> t.status] \in IdempotencyRecord
      BY <3>1 DEF IdempotencyRecord
    <3> QED
      BY <2>1, <2>2, <2>3, <3>2, <1>k
  <2>5. CompletedAnswersAreTrue'
    BY <2>1, <2>2, <2>3, <1>t DEF IInv, CompletedAnswersAreTrue, Answer, TypeOK
  <2> QED
    BY <2>1, <2>2, <2>4, <2>5, <1>d, <1>o DEF Answer, Goto
<1>18. CASE ReplayRow(r)
  <2>1. pc[r] \notin Inserted /\ UNCHANGED <<seen, database, redis>>
    BY <1>18, <1>s DEF ReplayRow
  <2>2. RecordsAreTrue'
    BY <2>1 DEF IInv, RecordsAreTrue
  <2>3. CASE \E t \in RowsOf(Key[r]) : Answer(r, t.status, t.id)
    <3>1. PICK t \in RowsOf(Key[r]) : Answer(r, t.status, t.id)
      BY <2>3, Zenon
    <3>2. CompletedAnswersAreTrue'
      BY <2>1, <3>1, <1>t DEF IInv, CompletedAnswersAreTrue, Answer, RowsOf, TypeOK
    <3> QED
      BY <2>1, <2>2, <3>1, <3>2, <1>d, <1>o DEF Answer, Goto
  <2>4. CASE Answer(r, "ERROR", NoCall)
    <3>1. CompletedAnswersAreTrue'
      BY <2>1, <2>4, <1>t DEF IInv, CompletedAnswersAreTrue, Answer, TypeOK
    <3> QED
      BY <2>1, <2>2, <2>4, <3>1, <1>d, <1>o DEF Answer, Goto
  <2> QED
    BY <1>18, <2>3, <2>4 DEF ReplayRow
<1>19. CASE RecordRejection(r)
  <2>1. pc[r] \notin Inserted /\ UNCHANGED <<seen, database>>
    BY <1>19, <1>s DEF RecordRejection
  <2>2. RecordsAreTrue'
    <3>1. [state |-> "FAILED", tx |-> r, result |-> "FAILED"] \in IdempotencyRecord
      BY DEF IdempotencyRecord
    <3> QED
      BY <1>19, <2>1, <3>1, <1>k DEF RecordRejection
  <2>3. CompletedAnswersAreTrue'
    BY <1>19, <2>1, <1>t DEF IInv, CompletedAnswersAreTrue, RecordRejection, Answer, TypeOK
  <2> QED
    BY <1>19, <2>1, <2>2, <2>3, <1>d, <1>o DEF RecordRejection, Answer, Goto
<1>20. CASE ReleaseKey(r)
  <2>1. pc[r] \notin Inserted /\ UNCHANGED <<seen, database>>
    BY <1>20, <1>s DEF ReleaseKey
  <2>2. RecordsAreTrue'
    <3>1. NoRecord \in IdempotencyRecord /\ NoRecord.result # "COMPLETED"
      BY DEF IdempotencyRecord, NoRecord
    <3> QED
      BY <1>20, <2>1, <3>1, <1>k DEF ReleaseKey
  <2>3. CompletedAnswersAreTrue'
    BY <1>20, <2>1, <1>t DEF IInv, CompletedAnswersAreTrue, ReleaseKey, Answer, TypeOK
  <2> QED
    BY <1>20, <2>1, <2>2, <2>3, <1>d, <1>o DEF ReleaseKey, Answer, Goto
<1> QED
  BY <1>1, <1>2, <1>3, <1>4, <1>5, <1>6, <1>7, <1>8, <1>9, <1>10, <1>11, <1>12, <1>13,
     <1>14, <1>15, <1>16, <1>17, <1>18, <1>19, <1>20
  DEF CallStep, Arrive, FaultStep

-----------------------------------------------------------------------------
(* The inductive invariant *)

LEMMA InitialInvariant == Init => IInv
<1> SUFFICES ASSUME Init PROVE IInv
  OBVIOUS
<1> USE CommandAssumption, WalletAssumption, PolicyAssumption
<1>1. TypeOK
  <2>1. UnreadWallet \in WalletRow /\ NoRecord \in IdempotencyRecord /\ NoReply \in Reply
    BY DEF UnreadWallet, WalletRow, NoRecord, IdempotencyRecord, NoReply, Reply
  <2> QED
    BY <2>1 DEF Init, TypeOK, Stages
<1>2. /\ \A r \in Requests : pc[r] = "new" /\ pc[r] \notin Attempting \cup Locked
      /\ \A w \in Wallets : owner[w] = NoCall
      /\ rows = {} /\ ledger = {}
  BY DEF Init, Attempting, Inserted, Locked
<1>3. AttemptsAreValidated /\ OwnersAreLocking /\ LockedPairsAreOwned /\ SnapshotsAreCurrent
  BY <1>2 DEF AttemptsAreValidated, OwnersAreLocking, LockedPairsAreOwned,
              SnapshotsAreCurrent
<1>4. DecisionsStand /\ KeysAreExclusive /\ OriginsAreExclusive
  BY <1>2 DEF DecisionsStand, KeysAreExclusive, OriginsAreExclusive, HasRow, Attempting
<1>5. RowsCarryTheirKey /\ OneRowPerKey /\ OneSettlementPerOrigin /\ LedgerIsExplained
  BY <1>2 DEF RowsCarryTheirKey, OneRowPerKey, OneSettlementPerOrigin, LedgerIsExplained
<1>6. RecordsAreTrue /\ CompletedAnswersAreTrue
  BY DEF Init, RecordsAreTrue, CompletedAnswersAreTrue, NoRecord, NoReply
<1>7. ReservedWithinBalance
  BY DEF Init, ReservedWithinBalance
<1> QED
  BY <1>1, <1>3, <1>4, <1>5, <1>6, <1>7 DEF IInv

LEMMA InductiveStep == IInv /\ [Next]_vars => IInv'
<1> SUFFICES ASSUME IInv, [Next]_vars PROVE IInv'
  OBVIOUS
<1>1. TypeOK'
  BY StepType DEF IInv
<1>2. CASE \E r \in Requests : CallStep(r) \/ Arrive(r) \/ FaultStep(r)
  BY <1>1, <1>2, CallInv
<1>3. CASE (\E k \in Keys : RedisStep(k)) \/ (\E w \in Wallets : WalletStep(w))
  BY <1>1, <1>3, EnvironmentStep
<1>4. CASE UNCHANGED vars
  <2>1. /\ AttemptsAreValidated' /\ OwnersAreLocking' /\ LockedPairsAreOwned'
        /\ SnapshotsAreCurrent'
    BY <1>4 DEF IInv, AttemptsAreValidated, OwnersAreLocking, LockedPairsAreOwned,
                SnapshotsAreCurrent, RowOf
  <2>2. DecisionsStand' /\ KeysAreExclusive' /\ OriginsAreExclusive'
    BY <1>4 DEF IInv, DecisionsStand, DebitGuard, KeysAreExclusive, HasRow, RowsOf,
                OriginsAreExclusive, OriginTaken
  <2>3. /\ RowsCarryTheirKey' /\ OneRowPerKey' /\ OneSettlementPerOrigin'
        /\ LedgerIsExplained'
    BY <1>4 DEF IInv, RowsCarryTheirKey, OneRowPerKey, OneSettlementPerOrigin,
                LedgerIsExplained, EntriesOf, Legs
  <2>4. RecordsAreTrue' /\ CompletedAnswersAreTrue' /\ ReservedWithinBalance'
    BY <1>4 DEF IInv, RecordsAreTrue, CompletedAnswersAreTrue, ReservedWithinBalance
  <2> QED
    BY <1>1, <2>1, <2>2, <2>3, <2>4 DEF IInv
<1> QED
  BY <1>2, <1>3, <1>4 DEF Next

\* Every reachable state satisfies the inductive invariant: whatever calls
\* interleave, an open transaction may rely on what it read with its locks.
THEOREM InvariantHolds == Spec => []IInv
BY InitialInvariant, InductiveStep, PTL DEF Spec

-----------------------------------------------------------------------------
(* Safety *)

\* process() commits at most one transaction row per idempotency key.
THEOREM NoDoubleProcessing == Spec => []OneRowPerKey
<1>1. IInv => OneRowPerKey
  BY DEF IInv
<1> QED
  BY <1>1, InvariantHolds, PTL

\* A money request is settled by at most one committed transaction.
THEOREM NoDoubleSettlement == Spec => []OneSettlementPerOrigin
<1>1. IInv => OneSettlementPerOrigin
  BY DEF IInv
<1> QED
  BY <1>1, InvariantHolds, PTL

\* What envelopes reserve is never spent, and no balance becomes negative.
THEOREM ReservationsHold == Spec => []ReservedWithinBalance
<1>1. IInv => ReservedWithinBalance
  BY DEF IInv
<1> QED
  BY <1>1, InvariantHolds, PTL

LEMMA TwoPostings ==
  ASSUME NEW x, NEW y, x # y
  PROVE  Cardinality({x, y}) = 2
<1>1. IsFiniteSet({x}) /\ Cardinality({x}) = 1
  BY FS_Singleton
<1>2. Cardinality({x} \cup {y}) = Cardinality({x}) + 1
  BY <1>1, FS_AddElement
<1>3. {x} \cup {y} = {x, y}
  OBVIOUS
<1> QED
  BY <1>1, <1>2, <1>3

LEMMA PostingsOfRows == IInv => RowsMatchLedger
<1> SUFFICES ASSUME IInv PROVE RowsMatchLedger
  OBVIOUS
<1> USE CommandAssumption
<1>1. \A e \in ledger : \E t \in rows : t.id = e.tx
  BY DEF IInv, LedgerIsExplained
<1>2. ASSUME NEW t \in rows
      PROVE  IF t.status = "FAILED"
             THEN EntriesOf(t) = {}
             ELSE /\ Cardinality(EntriesOf(t)) = 2
                  /\ \E e \in EntriesOf(t) :
                       e.wallet = Sender[t.id] /\ e.amount = -Amount[t.id]
                  /\ \E e \in EntriesOf(t) :
                       e.wallet = Receiver[t.id] /\ e.amount = Amount[t.id]
  <2>1. t.id \in Requests /\ t.status \in {"COMPLETED", "FAILED"}
    BY DEF IInv, TypeOK, TransactionRow
  <2>2. CASE t.status = "FAILED"
    BY <2>2 DEF IInv, LedgerIsExplained
  <2>3. CASE t.status = "COMPLETED"
    <3>1. Amount[t.id] > 0 /\ Amount[t.id] \in Nat
      BY <2>1, <2>3 DEF IInv, LedgerIsExplained
    <3>2. PICK e, f \in EntriesOf(t) : EntriesOf(t) = Legs(t, e.after, f.after)
      BY <2>3, Zenon DEF IInv, LedgerIsExplained
    <3> DEFINE out == [tx |-> t.id, wallet |-> Sender[t.id], amount |-> -Amount[t.id],
                       after |-> e.after]
               in == [tx |-> t.id, wallet |-> Receiver[t.id], amount |-> Amount[t.id],
                      after |-> f.after]
    <3>3. EntriesOf(t) = {out, in}
      BY <3>2 DEF Legs
    <3>4. out.amount = -Amount[t.id] /\ in.amount = Amount[t.id]
      OBVIOUS
    <3>5. out # in
      BY <3>1, <3>4
    <3>6. out.wallet = Sender[t.id] /\ in.wallet = Receiver[t.id]
      OBVIOUS
    <3> HIDE DEF out, in
    <3>7. Cardinality(EntriesOf(t)) = 2
      BY <3>3, <3>5, TwoPostings
    <3> QED
      BY <2>3, <3>3, <3>4, <3>6, <3>7
  <2> QED
    BY <2>1, <2>2, <2>3
<1> QED
  BY <1>1, <1>2 DEF RowsMatchLedger, EntriesOf

\* Money leaves one wallet only to arrive in another: a COMPLETED row has its
\* debit and its credit, a FAILED row has no posting, and no posting is stray.
THEOREM LedgerIsDoubleEntry == Spec => []RowsMatchLedger
BY PostingsOfRows, InvariantHolds, PTL

-----------------------------------------------------------------------------
(* Action properties *)

\* What a step may do to the tables: publish a transaction, change statuses,
\* change one reservation, or nothing.
LEMMA StepsOfTables ==
  ASSUME Next
  PROVE  \/ \E r \in Requests : Publish(r)
         \/ UNCHANGED <<balance, reserved, rows, ledger>>
         \/ \E w \in Wallets : AdjustReservation(w)
<1>1. CASE \E k \in Keys : RedisStep(k)
  BY <1>1 DEF RedisStep, ExpireClaim, ExpireAnswer, LoseRecord
<1>2. CASE \E w \in Wallets : WalletStep(w)
  BY <1>2 DEF WalletStep, Freeze, Unfreeze, MarkUnderReview, SetStatus
<1>3. CASE \E r \in Requests : CallStep(r) \/ Arrive(r) \/ FaultStep(r)
  <2>1. PICK r \in Requests : CallStep(r) \/ Arrive(r) \/ FaultStep(r)
    BY <1>3
  <2>2. CASE Commit(r) \/ CommitUnacknowledged(r)
    BY <2>2 DEF Commit, CommitUnacknowledged
  <2>3. CASE \/ RefuseUnderLock(r) \/ DatabaseError(r) \/ Crash(r) \/ Contention(r)
    BY <2>3 DEF RefuseUnderLock, DatabaseError, Crash, Contention, Rollback
  <2>4. CASE Post(r)
    BY <2>4 DEF Post, Rollback
  <2>5. CASE \/ ReserveKey(r) \/ KeyIsTaken(r) \/ ReadRecord(r) \/ ReserveDegraded(r)
             \/ Validate(r) \/ Insert(r) \/ ShareRow(r) \/ LockRow(r) \/ Debit(r)
    BY <2>5 DEF ReserveKey, KeyIsTaken, ReadRecord, ReserveDegraded, Validate, Insert,
                ShareRow, LockRow, Debit
  <2>6. CASE \/ StoreAnswer(r) \/ ReplayRow(r) \/ RecordRejection(r) \/ ReleaseKey(r)
    BY <2>6 DEF StoreAnswer, ReplayRow, RecordRejection, ReleaseKey
  <2> QED
    BY <2>1, <2>2, <2>3, <2>4, <2>5, <2>6 DEF CallStep, Arrive, FaultStep
<1> QED
  BY <1>1, <1>2, <1>3 DEF Next

\* What a call about to commit its postings may rely on.
LEMMA PostedCall ==
  ASSUME IInv, NEW r \in Requests, pc[r] = "posted", Publish(r)
  PROVE  /\ Sender[r] \in Wallets /\ Receiver[r] \in Wallets /\ Sender[r] # Receiver[r]
         /\ Amount[r] \in Nat /\ Amount[r] > 0
         /\ {Sender[r], Receiver[r]} \subseteq ActiveOwner
         /\ DebitGuard(r)
         /\ RowsOf(Key[r]) = {}
         /\ seen[r][Sender[r]].balance = balance[Sender[r]]
         /\ seen[r][Receiver[r]].balance = balance[Receiver[r]]
         /\ balance'[Sender[r]] = balance[Sender[r]] - Amount[r]
         /\ balance'[Receiver[r]] = balance[Receiver[r]] + Amount[r]
         /\ \A w \in Wallets \ {Sender[r], Receiver[r]} : balance'[w] = balance[w]
         /\ balance' = Moved(r) /\ ledger' = ledger \cup Postings(r)
         /\ rows' = rows \cup {[id |-> r, key |-> Key[r], status |-> "COMPLETED",
                                origin |-> Origin[r]]}
         /\ UNCHANGED <<reserved, status>>
<1> USE CommandAssumption
<1>0. pc[r] \in Attempting /\ pc[r] \in Locked /\ HasRow(r)
  BY DEF Attempting, Inserted, Locked, HasRow
<1>1. /\ Sender[r] # Receiver[r] /\ Amount[r] > 0
      /\ {Sender[r], Receiver[r]} \subseteq ActiveOwner
  BY <1>0 DEF IInv, AttemptsAreValidated
<1>2. DebitGuard(r)
  BY DEF IInv, DecisionsStand
<1>3. RowsOf(Key[r]) = {}
  BY <1>0 DEF IInv, KeysAreExclusive
<1>4. owner[Sender[r]] = r /\ owner[Receiver[r]] = r
  BY <1>0 DEF IInv, LockedPairsAreOwned
<1>5. seen[r][Sender[r]] = RowOf(Sender[r]) /\ seen[r][Receiver[r]] = RowOf(Receiver[r])
  BY <1>4 DEF IInv, SnapshotsAreCurrent
<1>6. /\ balance' = Moved(r) /\ ledger' = ledger \cup Postings(r)
      /\ rows' = rows \cup {[id |-> r, key |-> Key[r], status |-> "COMPLETED",
                             origin |-> Origin[r]]}
      /\ UNCHANGED <<reserved, status>>
  BY DEF Publish
<1>7. balance \in [Wallets -> Int]
  BY DEF IInv, TypeOK
<1>8. /\ balance'[Sender[r]] = balance[Sender[r]] - Amount[r]
      /\ balance'[Receiver[r]] = balance[Receiver[r]] + Amount[r]
      /\ \A w \in Wallets \ {Sender[r], Receiver[r]} : balance'[w] = balance[w]
  BY <1>1, <1>6, <1>7 DEF Moved
<1>9. /\ seen[r][Sender[r]].balance = balance[Sender[r]]
      /\ seen[r][Receiver[r]].balance = balance[Receiver[r]]
  BY <1>5 DEF RowOf
<1> QED
  BY <1>1, <1>2, <1>3, <1>6, <1>8, <1>9

\* Only a commit of postings changes a balance.
LEMMA BalancesMoveByPosting ==
  ASSUME [Next]_vars, balance' # balance
  PROVE  \E r \in Requests : Publish(r) /\ pc[r] = "posted"
<1>1. Next
  OBVIOUS
<1>2. ASSUME NEW w \in Wallets, AdjustReservation(w)
      PROVE  FALSE
  BY <1>2 DEF AdjustReservation
<1>3. PICK r \in Requests : Publish(r)
  BY <1>1, <1>2, StepsOfTables
<1>4. pc[r] = "posted"
  BY <1>3 DEF Publish
<1> QED
  BY <1>3, <1>4

\* Every change of a balance is posted in the same commit, at the balance the
\* commit leaves.
THEOREM BalancesArePosted == Spec => BalanceChangesArePosted
<1>1. ASSUME IInv, [Next]_vars, NEW w \in Wallets, balance'[w] # balance[w]
      PROVE  \E e \in ledger' \ ledger :
               e.wallet = w /\ e.amount = balance'[w] - balance[w] /\ e.after = balance'[w]
  <2>1. PICK r \in Requests : Publish(r) /\ pc[r] = "posted"
    BY <1>1, BalancesMoveByPosting
  <2>2. balance[w] \in Int
    BY <1>1 DEF IInv, TypeOK
  <2>3. w \in {Sender[r], Receiver[r]}
    BY <1>1, <2>1, PostedCall
  <2>4. PICK e \in Postings(r) :
          e.wallet = w /\ e.amount = balance'[w] - balance[w] /\ e.after = balance'[w]
    BY <1>1, <2>1, <2>2, <2>3, PostedCall DEF Postings
  <2>5. e.tx = r
    BY <2>4 DEF Postings
  <2>6. e \notin ledger
    BY <1>1, <2>1, <2>5, PostedCall DEF IInv, LedgerIsExplained, RowsCarryTheirKey, RowsOf
  <2>7. e \in ledger'
    BY <1>1, <2>1, <2>4, PostedCall
  <2> QED
    BY <2>4, <2>6, <2>7
<1>2. IInv /\ [Next]_vars =>
        [\A w \in Wallets :
           balance'[w] # balance[w] =>
             \E e \in ledger' \ ledger :
               /\ e.wallet = w
               /\ e.amount = balance'[w] - balance[w]
               /\ e.after = balance'[w]]_vars
  BY <1>1
<1> QED
  BY <1>2, InvariantHolds, PTL DEF Spec, BalanceChangesArePosted

\* Only a wallet that is ACTIVE at the commit pays, and only one whose owner
\* may act.
THEOREM PayersAreActive == Spec => OnlyActiveWalletsPay
<1>1. ASSUME IInv, [Next]_vars, NEW w \in Wallets, balance'[w] < balance[w]
      PROVE  status[w] = "ACTIVE" /\ w \in ActiveOwner
  <2>0. balance[w] \in Int
    BY <1>1 DEF IInv, TypeOK
  <2>1. PICK r \in Requests : Publish(r) /\ pc[r] = "posted"
    BY <1>1, <2>0, BalancesMoveByPosting
  <2>2. w = Sender[r]
    BY <1>1, <2>0, <2>1, PostedCall
  <2> QED
    BY <1>1, <2>1, <2>2, PostedCall DEF DebitGuard
<1>2. IInv /\ [Next]_vars =>
        [\A w \in Wallets :
           balance'[w] < balance[w] => status[w] = "ACTIVE" /\ w \in ActiveOwner]_vars
  BY <1>1
<1> QED
  BY <1>2, InvariantHolds, PTL DEF Spec, OnlyActiveWalletsPay

\* A call answers at most once, and then it is over.
LEMMA AnswerStep ==
  ASSUME TypeOK, [Next]_vars, NEW q \in Requests
  PROVE  /\ pc[q] = "done" => pc'[q] = "done" /\ reply'[q] = reply[q]
         /\ reply'[q] # reply[q] => pc'[q] = "done"
<1>t. pc \in [Requests -> Stages] /\ reply \in [Requests -> Reply]
  BY DEF TypeOK
<1>1. CASE UNCHANGED vars
  BY <1>1
<1>2. CASE \E k \in Keys : RedisStep(k)
  BY <1>2 DEF RedisStep, ExpireClaim, ExpireAnswer, LoseRecord
<1>3. CASE \E w \in Wallets : WalletStep(w)
  BY <1>3 DEF WalletStep, Freeze, Unfreeze, MarkUnderReview, SetStatus, AdjustReservation
<1>4. ASSUME NEW r \in Requests, CallStep(r) \/ Arrive(r) \/ FaultStep(r)
      PROVE  pc[r] # "done" /\ \A p \in Requests \ {r} : pc'[p] = pc[p] /\ reply'[p] = reply[p]
  <2>1. CASE Arrive(r)
    BY <2>1, <1>t DEF Arrive, ReserveKey, KeyIsTaken, Goto
  <2>2. CASE FaultStep(r)
    BY <2>2, <1>t DEF FaultStep, ReserveDegraded, CommitUnacknowledged, Publish, DatabaseError,
                      Crash, Goto, Attempting, Inserted
  <2>3. CASE \/ Validate(r) \/ Insert(r) \/ ShareRow(r) \/ LockRow(r) \/ RefuseUnderLock(r)
             \/ Debit(r) \/ Post(r) \/ Commit(r) \/ Contention(r)
    BY <2>3, <1>t DEF Validate, Insert, ShareRow, LockRow, RefuseUnderLock, Debit, Post, Commit,
                      Publish, Contention, Goto, Attempting, Inserted
  <2>4. CASE \/ ReadRecord(r) \/ StoreAnswer(r) \/ ReplayRow(r) \/ RecordRejection(r)
             \/ ReleaseKey(r)
    BY <2>4, <1>t DEF ReadRecord, StoreAnswer, ReplayRow, RecordRejection, ReleaseKey,
                      Answer, Goto
  <2> QED
    BY <1>4, <2>1, <2>2, <2>3, <2>4 DEF CallStep
<1>5. ASSUME NEW r \in Requests, CallStep(r) \/ Arrive(r) \/ FaultStep(r), reply'[r] # reply[r]
      PROVE  pc'[r] = "done"
  <2>1. ASSUME NEW outcome, NEW tx, Answer(r, outcome, tx)
        PROVE  pc'[r] = "done"
    BY <2>1, <1>t DEF Answer, Goto
  <2>2. CASE ~\E outcome, tx : Answer(r, outcome, tx)
    <3>1. ~ReadRecord(r) \/ UNCHANGED reply
      BY <2>2 DEF ReadRecord
    <3>2. ~StoreAnswer(r) /\ ~ReplayRow(r) /\ ~RecordRejection(r) /\ ~ReleaseKey(r)
      BY <2>2 DEF StoreAnswer, ReplayRow, RecordRejection, ReleaseKey
    <3>3. ~Arrive(r) /\ ~FaultStep(r)
      BY <1>5 DEF Arrive, ReserveKey, KeyIsTaken, FaultStep, ReserveDegraded,
                  CommitUnacknowledged, DatabaseError, Crash
    <3> QED
      BY <1>5, <3>1, <3>2, <3>3
      DEF CallStep, Validate, Insert, ShareRow, LockRow, RefuseUnderLock, Debit, Post, Commit,
          Contention
  <2> QED
    BY <2>1, <2>2
<1>6. CASE \E r \in Requests : CallStep(r) \/ Arrive(r) \/ FaultStep(r)
  BY <1>6, <1>4, <1>5
<1> QED
  BY <1>1, <1>2, <1>3, <1>6 DEF Next

LEMMA AnsweredIsDone == Spec => []AnsweredCallsAreDone
<1>1. Init => AnsweredCallsAreDone
  BY DEF Init, AnsweredCallsAreDone
<1>2. TypeOK /\ AnsweredCallsAreDone /\ [Next]_vars => AnsweredCallsAreDone'
  BY AnswerStep DEF AnsweredCallsAreDone
<1> QED
  BY <1>1, <1>2, TypeCorrect, PTL DEF Spec

\* No committed row or posting is ever changed or removed, and no answer is
\* ever given a second time.
THEOREM HistoryStands == Spec => HistoryIsAppendOnly
<1>1. ASSUME TypeOK, AnsweredCallsAreDone, [Next]_vars
      PROVE  [/\ rows \subseteq rows'
              /\ ledger \subseteq ledger'
              /\ \A r \in Requests : reply[r] # NoReply => reply'[r] = reply[r]]_vars
  <2>1. CASE UNCHANGED vars
    BY <2>1
  <2>2. CASE Next
    <3>1. ASSUME NEW r \in Requests, Publish(r)
          PROVE  rows \subseteq rows' /\ ledger \subseteq ledger'
      BY <3>1 DEF Publish
    <3>2. ASSUME NEW w \in Wallets, AdjustReservation(w)
          PROVE  rows \subseteq rows' /\ ledger \subseteq ledger'
      BY <3>2 DEF AdjustReservation
    <3>3. rows \subseteq rows' /\ ledger \subseteq ledger'
      BY <2>2, <3>1, <3>2, StepsOfTables
    <3>4. \A r \in Requests : reply[r] # NoReply => reply'[r] = reply[r]
      BY <1>1, AnswerStep DEF AnsweredCallsAreDone
    <3> QED
      BY <3>3, <3>4
  <2> QED
    BY <1>1, <2>1, <2>2
<1>2. TypeOK /\ AnsweredCallsAreDone /\ [Next]_vars =>
        [/\ rows \subseteq rows'
         /\ ledger \subseteq ledger'
         /\ \A r \in Requests : reply[r] # NoReply => reply'[r] = reply[r]]_vars
  BY <1>1
<1> QED
  BY <1>2, TypeCorrect, AnsweredIsDone, PTL DEF Spec, HistoryIsAppendOnly

-----------------------------------------------------------------------------
(* Answers *)

\* Stages of a call whose transaction has ended for good.
Ended == {"settled", "faulted", "done", "crashed"}

\* A row is that of a call whose transaction has ended.
RowsHaveEnded == \A t \in rows : pc[t.id] \in Ended

\* Call q carries key k, and has not moved money and never will.
HasFailed(q, k) ==
  /\ q \in Requests /\ Key[q] = k /\ pc[q] \in Ended
  /\ \A t \in rows : t.id = q => t.status = "FAILED"

\* Redis says FAILED, and a client is told FAILED, of a call that has failed.
FailuresAreTrue ==
  /\ \A k \in Keys : \A q : redis[k].result = "FAILED" /\ q = redis[k].tx => HasFailed(q, k)
  /\ \A r \in Requests : \A q :
       reply[r].status = "FAILED" /\ q = reply[r].tx => HasFailed(q, Key[r])

\* What makes FAILED answers true inductive.
AnswerInv == RowsHaveEnded /\ FailuresAreTrue

\* A call whose transaction has ended does not begin another one.
LEMMA TransactionsEnd ==
  ASSUME TypeOK, [Next]_vars, NEW q \in Requests, pc[q] \in Ended
  PROVE  pc'[q] \in Ended
<1> USE DEF Ended
<1>t. pc \in [Requests -> Stages]
  BY DEF TypeOK
<1>1. CASE UNCHANGED vars
  BY <1>1
<1>2. CASE \E k \in Keys : RedisStep(k)
  BY <1>2 DEF RedisStep, ExpireClaim, ExpireAnswer, LoseRecord
<1>3. CASE \E w \in Wallets : WalletStep(w)
  BY <1>3 DEF WalletStep, Freeze, Unfreeze, MarkUnderReview, SetStatus, AdjustReservation
<1>4. ASSUME NEW r \in Requests, CallStep(r) \/ Arrive(r) \/ FaultStep(r)
      PROVE  pc'[q] \in Ended
  <2>1. CASE Arrive(r)
    BY <2>1, <1>t DEF Arrive, ReserveKey, KeyIsTaken, Goto
  <2>2. CASE FaultStep(r)
    BY <2>2, <1>t DEF FaultStep, ReserveDegraded, CommitUnacknowledged, Publish, DatabaseError,
                      Crash, Goto, Attempting, Inserted
  <2>3. CASE \/ Validate(r) \/ Insert(r) \/ ShareRow(r) \/ LockRow(r) \/ RefuseUnderLock(r)
             \/ Debit(r) \/ Post(r) \/ Commit(r) \/ Contention(r)
    BY <2>3, <1>t DEF Validate, Insert, ShareRow, LockRow, RefuseUnderLock, Debit, Post, Commit,
                      Publish, Contention, Goto, Attempting, Inserted
  <2>4. CASE \/ ReadRecord(r) \/ StoreAnswer(r) \/ ReplayRow(r) \/ RecordRejection(r)
             \/ ReleaseKey(r)
    BY <2>4, <1>t DEF ReadRecord, StoreAnswer, ReplayRow, RecordRejection, ReleaseKey,
                      Answer, Goto
  <2> QED
    BY <1>4, <2>1, <2>2, <2>3, <2>4 DEF CallStep
<1> QED
  BY <1>1, <1>2, <1>3, <1>4 DEF Next

\* A row appears by the COMMIT of its own call, which ends its transaction.
LEMMA NewRows ==
  ASSUME TypeOK, [Next]_vars, NEW t \in rows', t \notin rows
  PROVE  t.id \in Requests /\ pc[t.id] \notin Ended /\ pc'[t.id] \in Ended
<1>1. PICK r \in Requests : Commit(r) \/ CommitUnacknowledged(r)
  <2>1. ASSUME NEW r \in Requests, CallStep(r) \/ Arrive(r) \/ FaultStep(r),
               ~Commit(r), ~CommitUnacknowledged(r)
        PROVE  rows' = rows
    BY <2>1
    DEF CallStep, Arrive, FaultStep, ReserveKey, KeyIsTaken, ReadRecord, ReserveDegraded,
        Validate, Insert, ShareRow, LockRow, RefuseUnderLock, Debit, Post, Contention,
        DatabaseError, Crash, Rollback, StoreAnswer, ReplayRow, RecordRejection, ReleaseKey,
        database, wallet
  <2>2. ASSUME NEW k \in Keys, RedisStep(k)
        PROVE  rows' = rows
    BY <2>2 DEF RedisStep, ExpireClaim, ExpireAnswer, LoseRecord, database
  <2>3. ASSUME NEW w \in Wallets, WalletStep(w)
        PROVE  rows' = rows
    BY <2>3 DEF WalletStep, Freeze, Unfreeze, MarkUnderReview, SetStatus, AdjustReservation
  <2>4. UNCHANGED vars => rows' = rows
    BY DEF vars
  <2> QED
    BY <2>1, <2>2, <2>3, <2>4 DEF Next
<1>2. Publish(r) /\ (Goto(r, "settled") \/ Goto(r, "faulted"))
  BY <1>1 DEF Commit, CommitUnacknowledged
<1>3. t.id = r
  BY <1>2 DEF Publish
<1>4. pc[r] \in {"posted", "declined"}
  BY <1>2 DEF Publish
<1> QED
  BY <1>2, <1>3, <1>4 DEF Goto, TypeOK, Ended

\* A call that has failed stays so.
LEMMA FailuresStand ==
  ASSUME TypeOK, [Next]_vars, NEW q, NEW k, HasFailed(q, k)
  PROVE  HasFailed(q, k)'
<1>1. pc'[q] \in Ended
  BY TransactionsEnd DEF HasFailed
<1>2. \A t \in rows' : t.id = q => t.status = "FAILED"
  BY NewRows DEF HasFailed
<1> QED
  BY <1>1, <1>2 DEF HasFailed

LEMMA AnswersKept ==
  ASSUME IInv, AnswerInv, [Next]_vars
  PROVE  AnswerInv'
<1> USE CommandAssumption
<1>t. /\ TypeOK /\ redis \in [Keys -> IdempotencyRecord] /\ reply \in [Requests -> Reply]
      /\ pc \in [Requests -> Stages] /\ \A t \in rows : t.id \in Requests
  BY DEF IInv, TypeOK, TransactionRow
<1>1. RowsHaveEnded'
  <2>1. ASSUME NEW t \in rows' PROVE pc'[t.id] \in Ended
    BY <1>t, <2>1, NewRows, TransactionsEnd DEF AnswerInv, RowsHaveEnded
  <2> QED
    BY <2>1 DEF RowsHaveEnded
\* Nothing is newly said to have failed.
<1>2. ASSUME \A k \in Keys : redis'[k] = redis[k] \/ redis'[k].result # "FAILED",
             \A p \in Requests : reply'[p] = reply[p] \/ reply'[p].status # "FAILED"
      PROVE  FailuresAreTrue'
  BY <1>t, <1>2, FailuresStand DEF AnswerInv, FailuresAreTrue
\* Only a call that has failed is newly said to have failed.
<1>3. ASSUME NEW r \in Requests, NEW f, HasFailed(f, Key[r])',
             \A k \in Keys : \/ redis'[k] = redis[k]
                             \/ k = Key[r] /\ (redis'[k].result = "FAILED" => redis'[k].tx = f),
             \A p \in Requests : \/ reply'[p] = reply[p]
                                 \/ p = r /\ (reply'[p].status = "FAILED" => reply'[p].tx = f)
      PROVE  FailuresAreTrue'
  BY <1>t, <1>3, FailuresStand DEF AnswerInv, FailuresAreTrue
<1>4. ASSUME NEW r \in Requests, ReadRecord(r)
      PROVE  FailuresAreTrue'
  <2>1. UNCHANGED redis
    BY <1>4 DEF ReadRecord
  <2>2. CASE redis[Key[r]].result = "FAILED"
    <3>1. PICK f : f = redis[Key[r]].tx
      OBVIOUS
    <3>2. HasFailed(f, Key[r])'
      BY <1>t, <2>2, <3>1, FailuresStand DEF AnswerInv, FailuresAreTrue
    <3>3. \A p \in Requests : \/ reply'[p] = reply[p]
                              \/ p = r /\ (reply'[p].status = "FAILED" => reply'[p].tx = f)
      BY <1>t, <1>4, <3>1 DEF ReadRecord, Answer
    <3> QED
      BY <1>3, <2>1, <3>2, <3>3
  <2>3. CASE redis[Key[r]].result # "FAILED"
    <3>1. \A p \in Requests : reply'[p] = reply[p] \/ reply'[p].status # "FAILED"
      BY <1>t, <1>4, <2>3 DEF ReadRecord, Answer
    <3> QED
      BY <1>2, <2>1, <3>1
  <2> QED
    BY <2>2, <2>3
<1>5. ASSUME NEW r \in Requests, NEW t \in rows, t.key = Key[r], t.status = "FAILED"
      PROVE  HasFailed(t.id, Key[r])'
  <2>1. HasFailed(t.id, Key[r])
    BY <1>5, <1>t
    DEF IInv, AnswerInv, RowsHaveEnded, RowsCarryTheirKey, OneRowPerKey, HasFailed
  <2> QED
    BY <1>t, <2>1, FailuresStand
<1>6. ASSUME NEW r \in Requests, StoreAnswer(r)
      PROVE  FailuresAreTrue'
  <2>1. PICK t \in rows :
          /\ t.id = r
          /\ Store(Key[r], [state |-> "COMPLETED", tx |-> r, result |-> t.status])
          /\ Answer(r, t.status, r)
    BY <1>6 DEF StoreAnswer
  <2>2. t.key = Key[r]
    BY <2>1 DEF IInv, RowsCarryTheirKey
  <2>3. CASE t.status = "FAILED"
    BY <1>t, <1>3, <1>5, <2>1, <2>2, <2>3 DEF Store, Answer
  <2>4. CASE t.status # "FAILED"
    BY <1>t, <1>2, <2>1, <2>4 DEF Store, Answer
  <2> QED
    BY <2>3, <2>4
<1>7. ASSUME NEW r \in Requests, ReplayRow(r)
      PROVE  FailuresAreTrue'
  <2>1. UNCHANGED redis
    BY <1>7 DEF ReplayRow
  <2>2. CASE Answer(r, "ERROR", NoCall)
    BY <1>t, <1>2, <2>1, <2>2 DEF Answer
  <2>3. CASE \E t \in RowsOf(Key[r]) : Answer(r, t.status, t.id)
    <3>1. PICK t \in rows : t.key = Key[r] /\ Answer(r, t.status, t.id)
      BY <2>3 DEF RowsOf
    <3>2. CASE t.status = "FAILED"
      BY <1>t, <1>3, <1>5, <2>1, <3>1, <3>2 DEF Answer
    <3>3. CASE t.status # "FAILED"
      BY <1>t, <1>2, <2>1, <3>1, <3>3 DEF Answer
    <3> QED
      BY <3>2, <3>3
  <2> QED
    BY <1>7, <2>2, <2>3 DEF ReplayRow
<1>8. ASSUME NEW r \in Requests, RecordRejection(r)
      PROVE  FailuresAreTrue'
  <2>1. \A t \in rows' : t.id # r
    BY <1>8 DEF RecordRejection, database, AnswerInv, RowsHaveEnded, Ended
  <2>2. HasFailed(r, Key[r])'
    BY <1>t, <1>8, <2>1 DEF RecordRejection, Answer, Goto, HasFailed, Ended
  <2> QED
    BY <1>t, <1>3, <1>8, <2>2 DEF RecordRejection, Store, Answer
<1>9. ASSUME NEW r \in Requests,
             \/ Arrive(r) \/ FaultStep(r) \/ Validate(r) \/ Insert(r) \/ ShareRow(r)
             \/ LockRow(r) \/ RefuseUnderLock(r) \/ Debit(r) \/ Post(r) \/ Commit(r)
             \/ Contention(r) \/ ReleaseKey(r)
      PROVE  FailuresAreTrue'
  <2>1. CASE Arrive(r)
    BY <1>t, <1>2, <2>1 DEF Arrive, ReserveKey, KeyIsTaken
  <2>2. CASE FaultStep(r)
    BY <1>t, <1>2, <2>2
    DEF FaultStep, ReserveDegraded, CommitUnacknowledged, DatabaseError, Crash
  <2>3. CASE ReleaseKey(r)
    BY <1>t, <1>2, <2>3 DEF ReleaseKey, Store, Answer, NoRecord
  <2>4. CASE \/ Validate(r) \/ Insert(r) \/ ShareRow(r) \/ LockRow(r) \/ RefuseUnderLock(r)
             \/ Debit(r) \/ Post(r) \/ Commit(r) \/ Contention(r)
    BY <1>2, <2>4
    DEF Validate, Insert, ShareRow, LockRow, RefuseUnderLock, Debit, Post, Commit, Contention
  <2> QED
    BY <1>9, <2>1, <2>2, <2>3, <2>4
<1>10. ASSUME NEW k \in Keys, RedisStep(k)
       PROVE  FailuresAreTrue'
  BY <1>t, <1>2, <1>10 DEF RedisStep, ExpireClaim, ExpireAnswer, LoseRecord, NoRecord
<1>11. ASSUME NEW w \in Wallets, WalletStep(w)
       PROVE  FailuresAreTrue'
  BY <1>2, <1>11 DEF WalletStep, Freeze, Unfreeze, MarkUnderReview, SetStatus, AdjustReservation
<1>12. CASE UNCHANGED vars
  BY <1>1, <1>2, <1>12 DEF vars, AnswerInv
<1> QED
  BY <1>1, <1>4, <1>6, <1>7, <1>8, <1>9, <1>10, <1>11, <1>12 DEF Next, CallStep, AnswerInv

\* What process() answers of the transaction it names, fresh or replayed from
\* Redis or from the row, is true of it: COMPLETED of one of the caller's key
\* that did complete, FAILED only of one that has not moved money and never
\* will.
THEOREM AnswersStayTrue == Spec => []AnswersAreTrue
<1>1. Init => AnswerInv
  BY DEF Init, AnswerInv, RowsHaveEnded, FailuresAreTrue, NoRecord, NoReply
<1>2. IInv /\ AnswerInv /\ [Next]_vars => AnswerInv'
  BY AnswersKept
<1>3. IInv /\ AnswerInv => AnswersAreTrue
  BY DEF IInv, AnswerInv, FailuresAreTrue, HasFailed, AnswersAreTrue, FailedAnswersAreTrue
<1> QED
  BY <1>1, <1>2, <1>3, InvariantHolds, PTL DEF Spec

-----------------------------------------------------------------------------
(* The balances are what their postings add up to *)

AmountPosted == [e \in LedgerEntry |-> e.amount]

EntriesAt(w) == {e \in ledger : e.wallet = w}

\* The reconciliation view, with its sum over a function.
BalancesReconcile ==
  /\ IsFiniteSet(ledger)
  /\ \A w \in Wallets : balance[w] = Opening[w] + SumOver(AmountPosted, EntriesAt(w))

\* The sum of a column of postings, written either way.
LEMMA PostingsAddUp ==
  ASSUME NEW S \in SUBSET LedgerEntry
  PROVE  MapThenSumSet(LAMBDA e : e.amount, S) = SumOver(AmountPosted, S)
<1> DEFINE Total(g) ==
             g = [s \in SUBSET S |-> IF s = {} THEN 0 ELSE Pick(s).amount + g[s \ {Pick(s)}]]
<1>1. ASSUME NEW g PROVE Sums(AmountPosted, g, S) <=> Total(g)
  BY PickIn DEF Sums, Part, AmountPosted
<1>2. MapThenSumSet(LAMBDA e : e.amount, S) = (CHOOSE g : Total(g))[S]
  BY DEF MapThenSumSet, MapThenFoldSet, Pick
<1>3. (CHOOSE g : Sums(AmountPosted, g, S)) = (CHOOSE g : Total(g))
  BY <1>1
<1> QED
  BY <1>2, <1>3, SumDef

\* A posting that is committed adds its amount to its wallet's column.
LEMMA EntryAdds ==
  ASSUME NEW S \in SUBSET LedgerEntry, IsFiniteSet(S), NEW e \in LedgerEntry, e \notin S
  PROVE  SumOver(AmountPosted, S \cup {e}) = e.amount + SumOver(AmountPosted, S)
BY SumAdd DEF AmountPosted, LedgerEntry

LEMMA PublishReconciles ==
  ASSUME IInv, BalancesReconcile, NEW r \in Requests, pc[r] = "posted", Publish(r)
  PROVE  BalancesReconcile'
<1> USE CommandAssumption
<1>1. PICK out \in LedgerEntry, in \in LedgerEntry :
        /\ Postings(r) = {out, in}
        /\ out.tx = r /\ out.wallet = Sender[r] /\ out.amount = -Amount[r]
        /\ in.tx = r /\ in.wallet = Receiver[r] /\ in.amount = Amount[r]
  <2> DEFINE o == [tx |-> r, wallet |-> Sender[r], amount |-> -Amount[r],
                   after |-> seen[r][Sender[r]].balance - Amount[r]]
             i == [tx |-> r, wallet |-> Receiver[r], amount |-> Amount[r],
                   after |-> seen[r][Receiver[r]].balance + Amount[r]]
  <2>1. seen[r][Sender[r]].balance \in Int /\ seen[r][Receiver[r]].balance \in Int
    BY DEF IInv, TypeOK, WalletRow
  <2>2. o \in LedgerEntry /\ i \in LedgerEntry
    BY <2>1 DEF LedgerEntry
  <2>3. Postings(r) = {o, i}
    BY DEF Postings
  <2> QED
    BY <2>2, <2>3
<1>2. ledger' = ledger \cup {out, in}
  BY <1>1, PostedCall
<1>3. out \notin ledger /\ in \notin ledger
  BY <1>1, PostedCall DEF IInv, LedgerIsExplained, RowsCarryTheirKey, RowsOf
<1>4. IsFiniteSet(ledger')
  <2>1. ledger' = (ledger \cup {out}) \cup {in}
    BY <1>2
  <2> QED
    BY <2>1, FS_AddElement DEF BalancesReconcile
<1> SUFFICES ASSUME NEW w \in Wallets
             PROVE  balance'[w] = Opening[w] + SumOver(AmountPosted, EntriesAt(w)')
  BY <1>4 DEF BalancesReconcile
<1>5. /\ EntriesAt(w) \in SUBSET LedgerEntry /\ IsFiniteSet(EntriesAt(w))
      /\ EntriesAt(w) \subseteq ledger
  BY FS_Subset DEF IInv, TypeOK, EntriesAt, BalancesReconcile
<1>6. SumOver(AmountPosted, EntriesAt(w)) \in Int
  BY <1>5, SumIsInt DEF AmountPosted, LedgerEntry
<1>7. /\ balance[w] = Opening[w] + SumOver(AmountPosted, EntriesAt(w))
      /\ balance[w] \in Int /\ Opening[w] \in Int
  BY WalletAssumption DEF BalancesReconcile, IInv, TypeOK
<1>8. CASE w = Sender[r]
  <2>1. EntriesAt(w)' = EntriesAt(w) \cup {out}
    BY <1>1, <1>2, <1>8, PostedCall DEF EntriesAt
  <2>2. SumOver(AmountPosted, EntriesAt(w)') = -Amount[r] + SumOver(AmountPosted, EntriesAt(w))
    BY <1>1, <1>3, <1>5, <2>1, EntryAdds
  <2> QED
    BY <1>6, <1>7, <1>8, <2>2, PostedCall
<1>9. CASE w = Receiver[r]
  <2>1. EntriesAt(w)' = EntriesAt(w) \cup {in}
    BY <1>1, <1>2, <1>9, PostedCall DEF EntriesAt
  <2>2. SumOver(AmountPosted, EntriesAt(w)') = Amount[r] + SumOver(AmountPosted, EntriesAt(w))
    BY <1>1, <1>3, <1>5, <2>1, EntryAdds
  <2> QED
    BY <1>6, <1>7, <1>9, <2>2, PostedCall
<1>10. CASE w \notin {Sender[r], Receiver[r]}
  <2>1. EntriesAt(w)' = EntriesAt(w)
    BY <1>1, <1>2, <1>10 DEF EntriesAt
  <2> QED
    BY <1>7, <1>10, <2>1, PostedCall
<1> QED
  BY <1>8, <1>9, <1>10

\* Reconciliation finds no drift: the balance column of every wallet, which is
\* updated in place, is its opening balance and the sum of its postings.
THEOREM BalancesNeverDrift == Spec => []NoBalanceDrift
<1>1. ASSUME IInv, BalancesReconcile PROVE NoBalanceDrift
  <2>1. \A w \in Wallets : EntriesAt(w) \in SUBSET LedgerEntry
    BY <1>1 DEF IInv, TypeOK, EntriesAt
  <2> QED
    BY <1>1, <2>1, PostingsAddUp DEF NoBalanceDrift, BalancesReconcile, EntriesAt
<1>2. Init => BalancesReconcile
  <2> SUFFICES ASSUME Init PROVE BalancesReconcile
    OBVIOUS
  <2>1. \A w \in Wallets : EntriesAt(w) = {}
    BY DEF Init, EntriesAt
  <2>2. SumOver(AmountPosted, {}) = 0
    BY SumEmpty
  <2>3. \A w \in Wallets : Opening[w] \in Int /\ balance[w] = Opening[w]
    BY WalletAssumption DEF Init
  <2>4. IsFiniteSet(ledger)
    BY FS_EmptySet DEF Init
  <2> QED
    BY <2>1, <2>2, <2>3, <2>4 DEF BalancesReconcile
<1>3. ASSUME IInv, BalancesReconcile, [Next]_vars PROVE BalancesReconcile'
  <2>1. CASE UNCHANGED <<balance, ledger>>
    BY <1>3, <2>1 DEF BalancesReconcile, EntriesAt
  <2>2. ASSUME NEW r \in Requests, Publish(r) PROVE BalancesReconcile'
    <3>1. CASE pc[r] = "posted"
      BY <1>3, <2>2, <3>1, PublishReconciles
    <3>2. CASE pc[r] # "posted"
      BY <2>1, <2>2, <3>2 DEF Publish
    <3> QED
      BY <3>1, <3>2
  <2>3. ASSUME NEW w \in Wallets, AdjustReservation(w) PROVE UNCHANGED <<balance, ledger>>
    BY <2>3 DEF AdjustReservation
  <2> QED
    BY <1>3, <2>1, <2>2, <2>3, StepsOfTables
<1> QED
  BY <1>1, <1>2, <1>3, InvariantHolds, PTL DEF Spec

-----------------------------------------------------------------------------
(* The engine implements AtomicTransfer *)

\* A commit decides the key of its call and no other.
LEMMA CommitDecides ==
  ASSUME IInv, NEW r \in Requests, Publish(r)
  PROVE  /\ VerdictOf(Key[r]) = "open"
         /\ VerdictOf(Key[r])' = IF pc[r] = "posted" THEN "paid" ELSE "declined"
         /\ \A k \in Keys \ {Key[r]} : VerdictOf(k)' = VerdictOf(k)
<1>1. PICK t :
        /\ t = [id |-> r, key |-> Key[r],
                status |-> IF pc[r] = "posted" THEN "COMPLETED" ELSE "FAILED",
                origin |-> IF pc[r] = "posted" THEN Origin[r] ELSE NoOrigin]
        /\ rows' = rows \cup {t}
  BY DEF Publish
<1>2. t.key = Key[r] /\ t.status = IF pc[r] = "posted" THEN "COMPLETED" ELSE "FAILED"
  BY <1>1
<1>3. HasRow(r)
  BY DEF Publish, HasRow, Inserted
<1>4. RowsOf(Key[r]) = {}
  BY <1>3 DEF IInv, KeysAreExclusive
<1>5. RowsOf(Key[r])' = {t}
  BY <1>1, <1>2, <1>4 DEF RowsOf
<1>6. \A k \in Keys \ {Key[r]} : RowsOf(k)' = RowsOf(k)
  BY <1>1, <1>2 DEF RowsOf
<1> QED
  BY <1>2, <1>4, <1>5, <1>6 DEF VerdictOf

LEMMA AtomicStep ==
  ASSUME IInv, IInv', [Next]_vars
  PROVE  [Atomic!Next]_<<[k \in Keys |-> VerdictOf(k)], balance, reserved,
                         {w \in Wallets : status[w] = "ACTIVE"}>>
<1> USE CommandAssumption, WalletAssumption
<1>t. TypeOK /\ TypeOK'
  BY DEF IInv
<1>0. CASE UNCHANGED vars
  BY <1>0 DEF VerdictOf, RowsOf
<1>1. ASSUME NEW r \in Requests, Publish(r)
      PROVE  Atomic!Next
  <2> DEFINE o == [from |-> Sender[r], to |-> Receiver[r], amount |-> Amount[r]]
  <2>1. o \in OrdersOf[Key[r]] /\ Key[r] \in Keys
    BY DEF OrdersOf
  <2>2. Atomic!Decide(Key[r], IF pc[r] = "posted" THEN "paid" ELSE "declined")
    BY <1>1, CommitDecides DEF Atomic!Decide
  <2>3. CASE pc[r] = "posted"
    <3>1. /\ balance' = [balance EXCEPT ![Sender[r]] = @ - Amount[r],
                                        ![Receiver[r]] = @ + Amount[r]]
          /\ UNCHANGED <<reserved, status>>
          /\ Sender[r] # Receiver[r] /\ Amount[r] > 0 /\ DebitGuard(r)
      BY <1>1, <2>3, PostedCall DEF Moved
    <3>2. Amount[r] <= balance[Sender[r]] - reserved[Sender[r]] /\ status[Sender[r]] = "ACTIVE"
      BY <3>1, <1>t DEF DebitGuard, TypeOK
    <3>3. Atomic!Pay(Key[r], o)
      BY <2>2, <2>3, <3>1, <3>2 DEF Atomic!Pay, Atomic!Affordable
    <3> QED
      BY <2>1, <3>3 DEF Atomic!Next
  <2>4. CASE pc[r] # "posted"
    <3>1. UNCHANGED <<balance, reserved, status>> /\ pc[r] = "declined"
      BY <1>1, <2>4 DEF Publish
    <3>2. status[Sender[r]] = "ACTIVE" /\ balance[Sender[r]] - reserved[Sender[r]] < Amount[r]
      BY <3>1 DEF IInv, DecisionsStand
    <3>3. ~(Amount[r] <= balance[Sender[r]] - reserved[Sender[r]])
      BY <3>2, <1>t DEF TypeOK
    <3>4. Atomic!Decline(Key[r], o)
      BY <2>2, <2>4, <3>1, <3>2, <3>3 DEF Atomic!Decline, Atomic!Affordable
    <3> QED
      BY <2>1, <3>4 DEF Atomic!Next
  <2> QED
    BY <2>3, <2>4
<1>2. ASSUME NEW w \in Wallets, AdjustReservation(w)
      PROVE  Atomic!Next
  <2>1. PICK n \in Earmarks : n <= balance[w] /\ reserved' = [reserved EXCEPT ![w] = n]
    BY <1>2 DEF AdjustReservation
  <2>2. n \in 0..balance[w]
    BY <2>1, <1>t DEF TypeOK
  <2>3. UNCHANGED <<balance, status, rows>>
    BY <1>2 DEF AdjustReservation
  <2>4. Atomic!Hold(w)
    BY <2>1, <2>2, <2>3 DEF Atomic!Hold, VerdictOf, RowsOf
  <2> QED
    BY <2>4 DEF Atomic!Next
<1>3. CASE UNCHANGED <<balance, reserved, rows, ledger>>
  <2>1. Atomic!Regulate
    BY <1>3 DEF Atomic!Regulate, VerdictOf, RowsOf
  <2> QED
    BY <2>1 DEF Atomic!Next
<1> QED
  BY <1>0, <1>1, <1>2, <1>3, StepsOfTables

\* The committed tables change as if each idempotency key were decided once,
\* in one step, whatever calls interleave, fail and retry, and whatever Redis
\* forgets.
THEOREM EngineIsAtomic == Spec => ImplementsAtomicTransfer
<1>1. Init => Atomic!Init
  BY DEF Init, Atomic!Init, VerdictOf, RowsOf
<1>2. IInv /\ IInv' /\ [Next]_vars =>
        [Atomic!Next]_<<[k \in Keys |-> VerdictOf(k)], balance, reserved,
                        {w \in Wallets : status[w] = "ACTIVE"}>>
  BY AtomicStep
<1> QED
  BY <1>1, <1>2, InvariantHolds, PTL DEF Spec, ImplementsAtomicTransfer, Atomic!Spec
-----------------------------------------------------------------------------
(* The verdicts that tier 1 keeps *)

\* Stages of a call that has passed tier 1 and has not answered, and those of
\* them at which it has certainly not committed.
Undecided == Attempting \cup {"validating", "rejected"}
Working == Undecided \cup {"settled", "faulted"}

\* The call r of key k works only while it holds the claim, finds what it was
\* told is there, and has its verdict in the record, or kept out of it by its
\* own claim when the record was not stored.
CallIsRemembered(k, r) ==
  /\ pc[r] # "duplicate"
  /\ pc[r] \in Working => redis[k].state = "PROCESSING" /\ redis[k].tx = r
  /\ pc[r] = "reading" => redis[k].state # "none"
  /\ reply[r].status \in {"COMPLETED", "FAILED"} =>
       \/ /\ redis[k].state \in {"COMPLETED", "FAILED"}
          /\ redis[k].tx = reply[r].tx /\ redis[k].result = reply[r].status
       \/ redis[k].state = "PROCESSING" /\ redis[k].tx = r

\* Of the calls of a remembered key this holds, and a row has been written
\* only by one that is past its commit.
Remembered(k) ==
  /\ \A r \in Requests : Key[r] = k => CallIsRemembered(k, r)
  /\ redis[k].state = "none" => redis[k] = NoRecord /\ RowsOf(k) = {}
  /\ \A r \in Requests : Key[r] = k /\ pc[r] \in Undecided => RowsOf(k) = {}

VerdictInv == \A k \in Keys \ forgotten : Remembered(k)

\* What other keys and the wallets do is nothing to a key.
LEMMA RememberedFrame ==
  ASSUME NEW k \in Keys, Remembered(k), redis'[k] = redis[k], RowsOf(k)' = RowsOf(k),
         \A r \in Requests : Key[r] = k => pc'[r] = pc[r] /\ reply'[r] = reply[r]
  PROVE  Remembered(k)'
BY DEF Remembered, CallIsRemembered

\* A call that holds the claim goes on, and keeps it.
LEMMA RememberedAtWork ==
  ASSUME TypeOK, NEW r \in Requests, Remembered(Key[r]),
         \/ Validate(r) \/ Insert(r) \/ ShareRow(r) \/ LockRow(r) \/ RefuseUnderLock(r)
         \/ Debit(r) \/ Post(r) \/ Contention(r) \/ DatabaseError(r)
  PROVE  Remembered(Key[r])'
<1>1. pc[r] \in Undecided /\ UNCHANGED <<redis, reply, rows>>
  BY DEF Validate, Insert, ShareRow, LockRow, RefuseUnderLock, Debit, Post, Contention,
     DatabaseError, Rollback, Undecided, Attempting, Inserted
<1>2. RowsOf(Key[r]) = {}
  BY <1>1 DEF Remembered
<1>3. \E stage \in Working : Goto(r, stage)
  <2>1. CASE Validate(r) \/ DatabaseError(r)
    BY <2>1 DEF Validate, DatabaseError, Working, Undecided, Attempting
  <2>2. CASE Insert(r)
    BY <1>2, <2>2 DEF Insert, Working, Undecided, Attempting, Inserted
  <2>3. CASE ShareRow(r) \/ LockRow(r) \/ RefuseUnderLock(r) \/ Debit(r)
    BY <2>3 DEF ShareRow, LockRow, RefuseUnderLock, Debit, Working, Undecided, Attempting,
       Inserted
  <2>4. CASE Post(r) \/ Contention(r)
    BY <2>4 DEF Post, Contention, Working, Undecided, Attempting, Inserted
  <2> QED
    BY <2>1, <2>2, <2>3, <2>4
<1>4. /\ pc'[r] \in Working /\ pc'[r] \notin {"duplicate", "reading"}
      /\ \A q \in Requests \ {r} : pc'[q] = pc[q]
  BY <1>3 DEF Goto, TypeOK, Working, Undecided, Attempting, Inserted
<1>5. RowsOf(Key[r])' = {}
  BY <1>1, <1>2 DEF RowsOf
<1> QED
  BY <1>1, <1>4, <1>5 DEF Remembered, CallIsRemembered, Working

\* The commit gives the key its row, and the claim is its only worker's.
LEMMA RememberedAtCommit ==
  ASSUME TypeOK, NEW r \in Requests, Remembered(Key[r]), Commit(r) \/ CommitUnacknowledged(r)
  PROVE  Remembered(Key[r])'
<1>1. pc[r] \in Undecided /\ UNCHANGED <<redis, reply>>
  BY DEF Commit, CommitUnacknowledged, Publish, Undecided, Attempting, Inserted
<1>2. pc'[r] \in {"settled", "faulted"} /\ \A q \in Requests \ {r} : pc'[q] = pc[q]
  BY DEF Commit, CommitUnacknowledged, Goto, TypeOK
<1>3. redis[Key[r]].state = "PROCESSING" /\ redis[Key[r]].tx = r
  BY <1>1 DEF Remembered, CallIsRemembered, Working
<1>4. \A q \in Requests \ {r} : Key[q] = Key[r] => pc[q] \notin Working
  BY <1>3 DEF Remembered, CallIsRemembered
<1>5. \A q \in Requests : Key[q] = Key[r] => CallIsRemembered(Key[r], q)'
  BY <1>1, <1>2, <1>3 DEF Remembered, CallIsRemembered
<1>6. \A q \in Requests : Key[q] = Key[r] => pc'[q] \notin Undecided
  BY <1>2, <1>4 DEF Working, Undecided, Attempting, Inserted
<1> QED
  BY <1>1, <1>3, <1>5, <1>6 DEF Remembered

\* The worker answers: its verdict is stored, or its claim stays; or it gives
\* the key back, which is to forget it.
LEMMA RememberedAtAnswer ==
  ASSUME TypeOK, NEW r \in Requests, Remembered(Key[r]), ~Forgets(Key[r]),
         StoreAnswer(r) \/ RecordRejection(r) \/ ReleaseKey(r)
  PROVE  Remembered(Key[r])'
<1> DEFINE k == Key[r]
<1>1. k \in Keys /\ pc[r] \in {"settled", "rejected", "faulted"} /\ UNCHANGED rows
  BY CommandAssumption DEF StoreAnswer, RecordRejection, ReleaseKey
<1>2. redis[k].state = "PROCESSING" /\ redis[k].tx = r
  BY <1>1 DEF Remembered, CallIsRemembered, Working, Undecided
<1>3. pc'[r] = "done" /\ \A q \in Requests \ {r} : pc'[q] = pc[q] /\ reply'[q] = reply[q]
  BY DEF StoreAnswer, RecordRejection, ReleaseKey, Answer, Goto, TypeOK
<1>4. \/ redis'[k] = redis[k]
      \/ /\ redis'[k].state \in {"COMPLETED", "FAILED"}
         /\ redis'[k].tx = reply'[r].tx /\ redis'[k].result = reply'[r].status
  <2>1. CASE StoreAnswer(r)
    <3>1. PICK t \in rows :
            /\ Store(k, [state |-> "COMPLETED", tx |-> r, result |-> t.status])
            /\ Answer(r, t.status, r)
      BY <2>1 DEF StoreAnswer
    <3> QED
      BY <1>1, <3>1 DEF Store, Answer, TypeOK
  <2>2. CASE RecordRejection(r)
    BY <1>1, <2>2 DEF RecordRejection, Store, Answer, TypeOK
  <2>3. CASE ReleaseKey(r)
    <3>1. redis[k] # NoRecord
      BY <1>2 DEF NoRecord
    <3>2. redis'[k] # NoRecord
      BY <3>1 DEF Forgets
    <3> QED
      BY <1>1, <2>3, <3>2 DEF ReleaseKey, Store, TypeOK
  <2> QED
    BY <2>1, <2>2, <2>3
<1>5. \A q \in Requests \ {r} :
        Key[q] = k => pc[q] \notin Working /\ reply[q].status \notin {"COMPLETED", "FAILED"}
  BY <1>2 DEF Remembered, CallIsRemembered
<1>6. \A q \in Requests : Key[q] = k => pc'[q] \notin Working
  BY <1>3, <1>5 DEF Working, Undecided, Attempting, Inserted
<1>7. redis'[k].state # "none"
  BY <1>2, <1>4
<1>8. ASSUME NEW q \in Requests, Key[q] = k
      PROVE  CallIsRemembered(k, q)'
  <2>1. pc'[q] # "duplicate"
    BY <1>3, <1>8 DEF Remembered, CallIsRemembered
  <2>2. reply'[q].status \in {"COMPLETED", "FAILED"} => q = r
    BY <1>3, <1>5, <1>8
  <2> QED
    BY <1>2, <1>4, <1>6, <1>7, <1>8, <2>1, <2>2 DEF CallIsRemembered
<1> QED
  BY <1>6, <1>7, <1>8 DEF Remembered, Working

\* Tier 1: the claim, what a call without it is told, and the degraded call,
\* which leaves the key remembered only if its claim was stored all the same.
LEMMA RememberedAtReserve ==
  ASSUME TypeOK, NEW r \in Requests, Remembered(Key[r]), ~Forgets(Key[r]),
         ReserveKey(r) \/ KeyIsTaken(r) \/ ReadRecord(r) \/ ReserveDegraded(r)
  PROVE  Remembered(Key[r])'
<1> DEFINE k == Key[r]
<1>1. k \in Keys /\ UNCHANGED rows
  BY CommandAssumption DEF ReserveKey, KeyIsTaken, ReadRecord, ReserveDegraded
<1>2. CASE ReserveKey(r) \/ ReserveDegraded(r)
  <2>1. /\ pc'[r] = "validating" /\ \A q \in Requests \ {r} : pc'[q] = pc[q]
        /\ redis[k] = NoRecord
        /\ redis'[k].state = "PROCESSING" /\ redis'[k].tx = r
        /\ UNCHANGED reply
    <3>1. CASE ReserveKey(r)
      BY <1>1, <3>1 DEF ReserveKey, Goto, TypeOK
    <3>2. CASE ReserveDegraded(r)
      <4>1. ~UNCHANGED redis
        BY <3>2 DEF Forgets
      <4> QED
        BY <1>1, <3>2, <4>1 DEF ReserveDegraded, Goto, TypeOK
    <3> QED
      BY <1>2, <3>1, <3>2
  <2>2. RowsOf(k) = {} /\ redis[k].state = "none"
    BY <2>1 DEF Remembered, NoRecord
  <2>3. \A q \in Requests :
          Key[q] = k => pc[q] \notin Working /\ pc[q] # "reading"
                        /\ reply[q].status \notin {"COMPLETED", "FAILED"}
    BY <2>2 DEF Remembered, CallIsRemembered
  <2>4. \A q \in Requests : Key[q] = k => CallIsRemembered(k, q)'
    BY <2>1, <2>3 DEF Remembered, CallIsRemembered
  <2>5. RowsOf(k)' = {}
    BY <1>1, <2>2 DEF RowsOf
  <2> QED
    BY <2>1, <2>4, <2>5 DEF Remembered
<1>3. CASE KeyIsTaken(r)
  <2>1. /\ pc'[r] = "reading" /\ \A q \in Requests \ {r} : pc'[q] = pc[q]
        /\ redis[k].state # "none" /\ UNCHANGED <<redis, reply>>
    BY <1>3 DEF KeyIsTaken, Goto, TypeOK, Remembered
  <2> QED
    BY <1>1, <2>1 DEF Remembered, CallIsRemembered, RowsOf, Working, Undecided, Attempting,
       Inserted
<1>4. CASE ReadRecord(r)
  <2>1. /\ pc'[r] = "done"
        /\ \A q \in Requests \ {r} : pc'[q] = pc[q] /\ reply'[q] = reply[q]
        /\ UNCHANGED redis
        /\ \/ reply'[r].status = "IN_FLIGHT"
           \/ /\ redis[k].state \in {"COMPLETED", "FAILED"}
              /\ reply'[r].status = redis[k].result /\ reply'[r].tx = redis[k].tx
    BY <1>4 DEF ReadRecord, Answer, Goto, TypeOK, Remembered, CallIsRemembered
  <2> QED
    BY <1>1, <2>1 DEF Remembered, CallIsRemembered, RowsOf, Working, Undecided, Attempting,
       Inserted
<1> QED
  BY <1>2, <1>3, <1>4

LEMMA RememberedByCall ==
  ASSUME TypeOK, NEW r \in Requests, Remembered(Key[r]), ~Forgets(Key[r]),
         CallStep(r) \/ Arrive(r) \/ FaultStep(r)
  PROVE  Remembered(Key[r])'
<1>1. ~ReplayRow(r)
  BY DEF ReplayRow, Remembered, CallIsRemembered
<1>2. ASSUME Crash(r)
      PROVE  Remembered(Key[r])'
  <2>1. /\ pc'[r] = "crashed" /\ \A q \in Requests \ {r} : pc'[q] = pc[q]
        /\ UNCHANGED <<redis, reply, rows>>
    BY <1>2 DEF Crash, Rollback, Goto, TypeOK
  <2> QED
    BY <2>1 DEF Remembered, CallIsRemembered, RowsOf, Working, Undecided, Attempting, Inserted
<1> QED
  BY <1>1, <1>2, RememberedAtWork, RememberedAtCommit, RememberedAtAnswer, RememberedAtReserve
  DEF CallStep, Arrive, FaultStep

\* A call touches its own key's record, row and verdict, and no other's.
LEMMA CallsOfOtherKeys ==
  ASSUME TypeOK, NEW r \in Requests, NEW k \in Keys, k # Key[r],
         CallStep(r) \/ Arrive(r) \/ FaultStep(r)
  PROVE  /\ redis'[k] = redis[k] /\ RowsOf(k)' = RowsOf(k)
         /\ \A q \in Requests : Key[q] = k => pc'[q] = pc[q] /\ reply'[q] = reply[q]
<1>1. \A q \in Requests \ {r} : pc'[q] = pc[q] /\ reply'[q] = reply[q]
  BY DEF CallStep, Arrive, FaultStep, ReadRecord, Validate, Insert, ShareRow, LockRow,
     RefuseUnderLock, Debit, Post, Commit, Contention, StoreAnswer, ReplayRow, RecordRejection,
     ReleaseKey, ReserveKey, KeyIsTaken, ReserveDegraded, CommitUnacknowledged, DatabaseError,
     Crash, Answer, Goto, TypeOK
<1>2. redis'[k] = redis[k]
  BY DEF CallStep, Arrive, FaultStep, ReadRecord, Validate, Insert, ShareRow, LockRow,
     RefuseUnderLock, Debit, Post, Commit, Contention, StoreAnswer, ReplayRow, RecordRejection,
     ReleaseKey, ReserveKey, KeyIsTaken, ReserveDegraded, CommitUnacknowledged, DatabaseError,
     Crash, Store, TypeOK
<1>3. UNCHANGED rows \/ \E t : rows' = rows \cup {t} /\ t.key = Key[r]
  <2>1. CASE Publish(r)
    <3>1. ASSUME NEW t, rows' = rows \cup {t}, t.key = Key[r]
          PROVE  \E u : rows' = rows \cup {u} /\ u.key = Key[r]
      BY <3>1
    <3>2. CASE pc[r] = "posted"
      BY <2>1, <3>1, <3>2 DEF Publish
    <3>3. CASE pc[r] = "declined"
      BY <2>1, <3>1, <3>3 DEF Publish
    <3> QED
      BY <2>1, <3>2, <3>3 DEF Publish
  <2>2. CASE ~Publish(r)
    BY <2>2 DEF CallStep, Arrive, FaultStep, ReadRecord, Validate, Insert, ShareRow, LockRow,
       RefuseUnderLock, Debit, Post, Commit, Contention, StoreAnswer, ReplayRow, RecordRejection,
       ReleaseKey, ReserveKey, KeyIsTaken, ReserveDegraded, CommitUnacknowledged, DatabaseError,
       Crash, Rollback
  <2> QED
    BY <2>1, <2>2
<1>4. RowsOf(k)' = RowsOf(k)
  BY <1>3 DEF RowsOf
<1> QED
  BY <1>1, <1>2, <1>4

LEMMA VerdictStep ==
  ASSUME TypeOK, VerdictInv, RememberingNext
  PROVE  VerdictInv'
<1> SUFFICES ASSUME NEW k \in Keys, k \notin forgotten'
             PROVE  Remembered(k)'
  BY DEF VerdictInv
<1>1. Remembered(k) /\ ~Forgets(k)
  BY DEF VerdictInv, RememberingNext
<1>2. ASSUME NEW r \in Requests, CallStep(r) \/ Arrive(r) \/ FaultStep(r)
      PROVE  Remembered(k)'
  <2>1. CASE Key[r] = k
    BY <1>1, <1>2, <2>1, RememberedByCall
  <2>2. CASE Key[r] # k
    BY <1>1, <1>2, <2>2, CallsOfOtherKeys, RememberedFrame
  <2> QED
    BY <2>1, <2>2
<1>3. ASSUME NEW j \in Keys, RedisStep(j)
      PROVE  Remembered(k)'
  <2>1. /\ redis' = [redis EXCEPT ![j] = NoRecord] /\ redis[j] # NoRecord
        /\ UNCHANGED <<pc, reply, rows>>
    BY <1>3 DEF RedisStep, ExpireClaim, ExpireAnswer, LoseRecord, NoRecord
  <2>2. j # k
    BY <1>1, <2>1 DEF Forgets, TypeOK
  <2> QED
    BY <1>1, <2>1, <2>2, RememberedFrame DEF RowsOf, TypeOK
<1>4. ASSUME NEW w \in Wallets, WalletStep(w)
      PROVE  Remembered(k)'
  <2>1. UNCHANGED <<redis, pc, reply, rows>>
    BY <1>4 DEF WalletStep, Freeze, Unfreeze, MarkUnderReview, SetStatus, AdjustReservation
  <2> QED
    BY <1>1, <2>1, RememberedFrame DEF RowsOf
<1> QED
  BY <1>2, <1>3, <1>4 DEF RememberingNext, Next

\* Two calls with one key never give contradictory verdicts while tier 1
\* remembers the key, whatever fails, interleaves or crashes meanwhile: the
\* claim keeps one call at work, and its record the verdict for those who come.
\* Nothing is assumed of Faults or of the settlements.
THEOREM VerdictsAgreeWhileRemembered == RememberingSpec => []VerdictsAgree
<1>1. Init /\ forgotten = {} => VerdictInv
  BY CommandAssumption
  DEF Init, VerdictInv, Remembered, CallIsRemembered, RowsOf, NoRecord, NoReply, Working,
      Undecided, Attempting, Inserted
<1>2. IInv /\ VerdictInv /\ [RememberingNext]_<<vars, forgotten>> => VerdictInv'
  <2>1. ASSUME VerdictInv, UNCHANGED <<vars, forgotten>>
        PROVE  VerdictInv'
    BY <2>1 DEF VerdictInv, Remembered, CallIsRemembered, RowsOf
  <2> QED
    BY <2>1, VerdictStep DEF IInv
<1>3. IInv /\ VerdictInv => VerdictsAgree
  <2> SUFFICES ASSUME IInv, VerdictInv, NEW q \in Requests, NEW r \in Requests,
                      Key[q] = Key[r], Key[q] \notin forgotten,
                      reply[q].status \in {"COMPLETED", "FAILED"},
                      reply[r].status \in {"COMPLETED", "FAILED"}
               PROVE  reply[q] = reply[r]
    BY DEF VerdictsAgree
  <2>1. reply[q].tx = reply[r].tx /\ reply[q].status = reply[r].status
    BY CommandAssumption DEF VerdictInv, Remembered, CallIsRemembered
  <2>2. reply[q] \in Reply /\ reply[r] \in Reply
    BY DEF IInv, TypeOK
  <2> QED
    BY <2>1, <2>2 DEF Reply
<1>4. [RememberingNext]_<<vars, forgotten>> => [Next]_vars
  BY DEF RememberingNext
<1> QED
  BY <1>1, <1>2, <1>3, <1>4, InvariantHolds, PTL DEF RememberingSpec, Spec

-----------------------------------------------------------------------------
(***************************************************************************)
(* The timeline of a transfer.  TransactionTimeline looks at the same      *)
(* calls statement by statement, with variables of its own; what the       *)
(* collector that the attempts share leaves true is that the last event is *)
(* the outcome.  The attempts that were rolled back may leave events       *)
(* before it, but none after it.                                           *)
(***************************************************************************)
VARIABLES at, tries, phase, collected, timeline, row, moved, column

Timeline == INSTANCE TransactionTimeline
  WITH Transfers <- Requests, From <- Sender, To <- Receiver,
       attempt <- tries, ledger <- moved, balance <- column

Final(events) == events[Len(events)]

Outcome(p) == IF p = "COMPLETED" THEN "TRANSACTION_COMPLETED" ELSE "TRANSACTION_FAILED"

Events ==
  {"TRANSACTION_INITIATED", "SENDER_VERIFIED", "RECEIVER_VERIFIED", "VALIDATION_PASSED",
   "PROCESSING_STARTED", "WALLETS_LOCKED", "BALANCE_CHECKED", "SENDER_DEBITED",
   "RECEIVER_CREDITED", "LEDGER_POSTED", "TRANSACTION_COMPLETED", "TRANSACTION_FAILED"}

\* The batch e ends in the event of the outcome.
Decides(e, outcome) == e \in Seq(Events) /\ e # <<>> /\ Final(e) = outcome

\* One transfer at statement a, in phase p, with the events c collected, the
\* timeline l and the row r: once the outcome is decided it is the last event
\* collected, and nothing is visible before the COMMIT.
Sound(a, p, c, l, r) ==
  /\ c \in Seq(Events)
  /\ a \in {"locking", "checking", "rejecting"} => p = "PROCESSING"
  /\ a \in {"rejecting", "flushing", "auditing"} => c # <<>> /\ Final(c) = Outcome(p)
  /\ a # "done" => r = "none" /\ l = <<>>
  /\ r # "none" =>
       l # <<>> /\ Final(l) = Outcome(IF r = "COMPLETED" THEN "COMPLETED" ELSE "FAILED")
  /\ r = "none" => l = <<>>

TimelineInv ==
  /\ DOMAIN at = Requests /\ DOMAIN phase = Requests /\ DOMAIN collected = Requests
  /\ DOMAIN timeline = Requests /\ DOMAIN row = Requests
  /\ \A t \in Requests : Sound(at[t], phase[t], collected[t], timeline[t], row[t])

\* A step that changes one transfer alone.
LEMMA OneChanged ==
  ASSUME TimelineInv, NEW t \in Requests,
         DOMAIN at' = Requests, DOMAIN phase' = Requests, DOMAIN collected' = Requests,
         DOMAIN timeline' = Requests, DOMAIN row' = Requests,
         \A u \in Requests \ {t} :
           /\ at'[u] = at[u] /\ phase'[u] = phase[u] /\ collected'[u] = collected[u]
           /\ timeline'[u] = timeline[u] /\ row'[u] = row[u],
         Sound(at'[t], phase'[t], collected'[t], timeline'[t], row'[t])
  PROVE  TimelineInv'
<1>1. ASSUME NEW u \in Requests
      PROVE  Sound(at'[u], phase'[u], collected'[u], timeline'[u], row'[u])
  <2>1. CASE u = t
    BY <2>1
  <2>2. CASE u # t
    BY <2>2 DEF TimelineInv
  <2> QED
    BY <2>1, <2>2
<1> QED
  BY <1>1 DEF TimelineInv

LEMMA Appended ==
  ASSUME NEW s \in Seq(Events), NEW e \in Seq(Events), e # <<>>
  PROVE  /\ s \o e \in Seq(Events) /\ s \o e # <<>>
         /\ Final(s \o e) = Final(e)
<1>1. s \o e \in Seq(Events) /\ Len(s \o e) = Len(s) + Len(e) /\ Len(e) > 0
  OBVIOUS
<1>2. (s \o e)[Len(s) + Len(e)] = e[Len(e)]
  BY <1>1
<1> QED
  BY <1>1, <1>2 DEF Final

\* The batches that the steps record, and the last event of the two that decide.
LEMMA Batches ==
  /\ <<"TRANSACTION_INITIATED">> \in Seq(Events)
  /\ <<"SENDER_VERIFIED", "RECEIVER_VERIFIED", "VALIDATION_PASSED">> \in Seq(Events)
  /\ <<"PROCESSING_STARTED">> \in Seq(Events) /\ <<"WALLETS_LOCKED">> \in Seq(Events)
  /\ <<"BALANCE_CHECKED", "SENDER_DEBITED">> \in Seq(Events)
  /\ <<"RECEIVER_CREDITED">> \in Seq(Events) /\ <<"LEDGER_POSTED">> \in Seq(Events)
  /\ Decides(<<"BALANCE_CHECKED", "TRANSACTION_FAILED">>, "TRANSACTION_FAILED")
  /\ Decides(<<"TRANSACTION_COMPLETED">>, "TRANSACTION_COMPLETED")
<1>1. ASSUME NEW S, NEW x \in S, NEW y \in S, NEW z \in S
      PROVE  <<x>> \in Seq(S) /\ <<x, y>> \in Seq(S) /\ <<x, y, z>> \in Seq(S)
  OBVIOUS
<1>2. ASSUME NEW x, NEW y
      PROVE  <<x>> # <<>> /\ Final(<<x>>) = x /\ <<x, y>> # <<>> /\ Final(<<x, y>>) = y
  BY DEF Final
<1>3. /\ <<"BALANCE_CHECKED", "TRANSACTION_FAILED">> \in Seq(Events)
      /\ <<"TRANSACTION_COMPLETED">> \in Seq(Events)
  BY <1>1 DEF Events
<1>4. /\ Decides(<<"BALANCE_CHECKED", "TRANSACTION_FAILED">>, "TRANSACTION_FAILED")
      /\ Decides(<<"TRANSACTION_COMPLETED">>, "TRANSACTION_COMPLETED")
  BY <1>2, <1>3, Zenon DEF Decides
<1> QED
  BY <1>1, <1>4 DEF Events

PhaseBecomes(t, p) ==
  \/ phase' = [phase EXCEPT ![t] = p]
  \/ p = phase[t] /\ UNCHANGED phase

LEMMA PhaseMoves ==
  ASSUME NEW t, NEW p
  PROVE  /\ Timeline!Move(t, p) => PhaseBecomes(t, p)
         /\ UNCHANGED phase => PhaseBecomes(t, phase[t])
BY DEF Timeline!Move, PhaseBecomes

\* A step that records the events e, goes to the statement a and leaves the
\* phase p.
LEMMA RecordStepKept ==
  ASSUME TimelineInv, NEW t \in Requests, NEW e \in Seq(Events), NEW a, NEW p,
         Timeline!Record(t, e), Timeline!Goto(t, a), PhaseBecomes(t, p),
         UNCHANGED <<timeline, row>>, at[t] # "done",
         a \in {"locking", "checking", "rejecting"} => p = "PROCESSING",
         a \in {"rejecting", "flushing", "auditing"} => Decides(e, Outcome(p))
  PROVE  TimelineInv'
<1> USE DEF TimelineInv, Timeline!Record, Timeline!Goto, PhaseBecomes
<1>1. collected[t] \o e \in Seq(Events)
  BY DEF Sound
<1>2. e # <<>> => collected[t] \o e # <<>> /\ Final(collected[t] \o e) = Final(e)
  BY Appended DEF Sound
<1>3. Sound(a, p, collected[t] \o e, timeline[t], row[t])
  BY <1>1, <1>2 DEF Sound, Decides
<1>4. /\ at'[t] = a /\ phase'[t] = p /\ collected'[t] = collected[t] \o e
      /\ timeline'[t] = timeline[t] /\ row'[t] = row[t]
  OBVIOUS
<1> QED
  BY <1>3, <1>4, OneChanged

\* The steps before the outcome: they write nothing that is visible.
LEMMA EarlyStepKept ==
  ASSUME TimelineInv, NEW t \in Requests,
         Timeline!Initiate(t) \/ Timeline!Validate(t) \/ Timeline!Start(t) \/ Timeline!LockWallets(t) \/ Timeline!Credit(t) \/ Timeline!PostEntries(t)
  PROVE  TimelineInv'
<1> USE Batches, PhaseMoves
<1>1. CASE Timeline!Initiate(t)
  BY <1>1, RecordStepKept DEF Timeline!Initiate
<1>2. CASE Timeline!Validate(t)
  <2>1. CASE Timeline!Goto(t, "refused") /\ UNCHANGED <<collected, phase>>
    BY <1>2, <2>1, OneChanged DEF Timeline!Validate, Timeline!Goto, TimelineInv, Sound
  <2>2. CASE Timeline!Goto(t, "starting")
             /\ Timeline!Record(t, <<"SENDER_VERIFIED", "RECEIVER_VERIFIED", "VALIDATION_PASSED">>)
             /\ Timeline!Move(t, "VALIDATED")
    BY <1>2, <2>2, RecordStepKept DEF Timeline!Validate
  <2> QED
    BY <1>2, <2>1, <2>2 DEF Timeline!Validate
<1>3. CASE Timeline!Start(t)
  BY <1>3, RecordStepKept DEF Timeline!Start
<1>4. CASE Timeline!LockWallets(t)
  <2>1. phase[t] = "PROCESSING"
    BY <1>4 DEF Timeline!LockWallets, TimelineInv, Sound
  <2> QED
    BY <1>4, <2>1, RecordStepKept DEF Timeline!LockWallets
<1>5. CASE Timeline!Credit(t)
  BY <1>5, RecordStepKept DEF Timeline!Credit
<1>6. CASE Timeline!PostEntries(t)
  BY <1>6, RecordStepKept DEF Timeline!PostEntries
<1> QED
  BY <1>1, <1>2, <1>3, <1>4, <1>5, <1>6

\* The outcome is recorded last, whether the money moves or not.
LEMMA OutcomeStepKept ==
  ASSUME TimelineInv, NEW t \in Requests,
         Timeline!CheckBalance(t) \/ Timeline!Complete(t) \/ Timeline!Reject(t) \/ Timeline!Flush(t)
  PROVE  TimelineInv'
<1> USE DEF TimelineInv
<1>1. CASE Timeline!CheckBalance(t)
  <2>1. phase[t] = "PROCESSING" /\ at[t] = "checking"
        /\ UNCHANGED <<phase, timeline, row>>
    BY <1>1 DEF Timeline!CheckBalance, Sound
  <2>2. CASE Timeline!Record(t, <<"BALANCE_CHECKED", "SENDER_DEBITED">>) /\ Timeline!Goto(t, "crediting")
    BY <2>1, <2>2, Batches, PhaseMoves, RecordStepKept
  <2>3. CASE Timeline!Record(t, <<"BALANCE_CHECKED", "TRANSACTION_FAILED">>) /\ Timeline!Goto(t, "rejecting")
    <3>1. Decides(<<"BALANCE_CHECKED", "TRANSACTION_FAILED">>, Outcome("PROCESSING"))
      BY Batches DEF Outcome
    <3>2. <<"BALANCE_CHECKED", "TRANSACTION_FAILED">> \in Seq(Events)
      BY Batches DEF Decides
    <3> QED
      BY <2>1, <2>3, <3>1, <3>2, PhaseMoves, RecordStepKept
  <2> QED
    BY <1>1, <2>2, <2>3 DEF Timeline!CheckBalance
<1>2. CASE Timeline!Complete(t)
  <2>1. /\ Decides(<<"TRANSACTION_COMPLETED">>, Outcome("COMPLETED"))
        /\ <<"TRANSACTION_COMPLETED">> \in Seq(Events)
    BY Batches DEF Outcome, Decides
  <2>2. /\ Timeline!Record(t, <<"TRANSACTION_COMPLETED">>) /\ Timeline!Goto(t, "flushing")
        /\ PhaseBecomes(t, "COMPLETED")
        /\ UNCHANGED <<timeline, row>> /\ at[t] = "completing"
    BY <1>2, PhaseMoves DEF Timeline!Complete
  <2> QED
    BY <2>1, <2>2, RecordStepKept
<1>3. CASE Timeline!Reject(t)
  BY <1>3, OneChanged DEF Timeline!Reject, Sound, Timeline!Goto
<1>4. CASE Timeline!Flush(t)
  BY <1>4, OneChanged DEF Timeline!Flush, Sound, Timeline!Goto
<1> QED
  BY <1>1, <1>2, <1>3, <1>4

LEMMA EndStepKept ==
  ASSUME TimelineInv, NEW t \in Requests, Timeline!Commit(t) \/ Timeline!Abort(t)
  PROVE  TimelineInv'
<1> USE DEF TimelineInv
<1>1. CASE Timeline!Commit(t)
  <2>1. /\ at[t] = "auditing" /\ at' = [at EXCEPT ![t] = "done"]
        /\ timeline' = [timeline EXCEPT ![t] = collected[t]]
        /\ row' = [row EXCEPT ![t] = IF phase[t] = "COMPLETED" THEN "COMPLETED" ELSE "FAILED"]
        /\ UNCHANGED <<phase, collected>>
    BY <1>1 DEF Timeline!Commit, Timeline!Goto
  <2> QED
    BY <2>1, OneChanged DEF Sound, Outcome
<1>2. CASE Timeline!Abort(t)
  <2>1. CASE phase' = [phase EXCEPT ![t] = "VALIDATED"] /\ Timeline!Goto(t, "starting")
    BY <1>2, <2>1, OneChanged DEF Timeline!Abort, Timeline!Inside, Timeline!Holding, Sound, Timeline!Goto
  <2>2. CASE Timeline!Goto(t, "error") /\ UNCHANGED phase
    BY <1>2, <2>2, OneChanged DEF Timeline!Abort, Timeline!Inside, Timeline!Holding, Sound, Timeline!Goto
  <2> QED
    BY <1>2, <2>1, <2>2 DEF Timeline!Abort
<1> QED
  BY <1>1, <1>2

\* For every set of transfers that contend, and every number of attempts, a
\* timeline exists only for a transfer with a row and ends in the event of the
\* row's status: flushAll writes the collector in the transaction that decides,
\* after the outcome was recorded.
THEOREM TimelinesEndInTheOutcome == Timeline!Spec => []Timeline!TimelineEndsInTheOutcome
<1>1. Timeline!Init => TimelineInv
  BY DEF Timeline!Init, TimelineInv, Sound
<1>2. TimelineInv /\ [Timeline!Next]_(Timeline!vars) => TimelineInv'
  <2> SUFFICES ASSUME TimelineInv, [Timeline!Next]_(Timeline!vars)
               PROVE  TimelineInv'
    OBVIOUS
  <2>1. CASE Timeline!Next
    BY <2>1, EarlyStepKept, OutcomeStepKept, EndStepKept DEF Timeline!Next
  <2>2. CASE UNCHANGED Timeline!vars
    BY <2>2 DEF Timeline!vars, TimelineInv
  <2> QED
    BY <2>1, <2>2
<1>3. TimelineInv => Timeline!TimelineEndsInTheOutcome
  BY DEF TimelineInv, Sound, Timeline!TimelineEndsInTheOutcome, Final, Outcome
<1> QED
  BY <1>1, <1>2, <1>3, PTL DEF Timeline!Spec
=============================================================================
