-------------------------- MODULE TransactionTimeline --------------------------
(***************************************************************************)
(* The timeline of a transfer: TransactionEventCollector and its flush,    *)
(* the phases of TransactionStateMachine, and the attempts of withRetry    *)
(* that share one collector.  The wallets, their locks and the rejection   *)
(* under the lock are those of TransferEngine with one step for the pair;  *)
(* what matters here is at which statement an attempt ends.                *)
(***************************************************************************)
EXTENDS Integers, Sequences, FiniteSets

CONSTANTS
  Transfers,        \* calls of process() whose key was reserved
  Wallets,
  From, To, Amount, \* From[t], To[t], Amount[t]: the command of t, From[t] # To[t]
  Opening,          \* Opening[w]: the balance of w at the start
  MaxAttempts       \* MAX_RETRY_ATTEMPTS

VARIABLES
  at,         \* at[t]: the statement that t executes next
  attempt,    \* attempt[t]: which attempt of withRetry
  phase,      \* phase[t]: the local variable of process and executeMoneyMovement
  collected,  \* collected[t]: the events in the collector
  timeline,   \* timeline[t]: transaction_events, committed
  row,        \* row[t]: the committed status of the transaction, or "none"
  ledger,     \* the transfers whose postings are committed
  balance

vars == <<at, attempt, phase, collected, timeline, row, ledger, balance>>

-----------------------------------------------------------------------------
(* The state machine *)

\* LEGAL_TRANSITIONS
Legal ==
  [CREATED    |-> {"VALIDATING", "CANCELLED"},
   VALIDATING |-> {"VALIDATED", "FAILED", "CANCELLED"},
   VALIDATED  |-> {"PROCESSING", "FAILED", "CANCELLED"},
   PROCESSING |-> {"COMPLETED", "FAILED"},
   COMPLETED  |-> {"REVERSING"},
   REVERSING  |-> {"REVERSED", "FAILED"},
   FAILED |-> {}, CANCELLED |-> {}, REVERSED |-> {}]

Phases == DOMAIN Legal

\* PHASE_TO_STATUS
PersistedStatus(p) ==
  CASE p \in {"COMPLETED", "REVERSING"} -> "COMPLETED"
    [] p \in {"FAILED", "CANCELLED"}    -> "FAILED"
    [] p = "REVERSED"                   -> "REVERSED"
    [] OTHER                            -> "PENDING"

\* goti_guard_transaction_write
TriggerAllows(from, to) ==
  /\ from = "COMPLETED" => to \in {"COMPLETED", "REVERSED"}
  /\ from \in {"FAILED", "REVERSED"} => to = from

-----------------------------------------------------------------------------
(* Pieces of actions *)

Holding == {"checking", "crediting", "posting", "completing", "rejecting", "flushing",
            "auditing"}
Inside == Holding \cup {"locking"}

Goto(t, s) == at' = [at EXCEPT ![t] = s]

\* transition, which throws when the table has no such edge.
Move(t, to) == to \in Legal[phase[t]] /\ phase' = [phase EXCEPT ![t] = to]

\* TransactionEventCollector.record
Record(t, events) == collected' = [collected EXCEPT ![t] = @ \o events]

Pair(t) == {From[t], To[t]}

\* createCollector, once per call of process().
Initiate(t) ==
  /\ at[t] = "new"
  /\ Record(t, <<"TRANSACTION_INITIATED">>)
  /\ Move(t, "VALIDATING")
  /\ Goto(t, "validating")
  /\ UNCHANGED <<attempt, timeline, row, ledger, balance>>

\* A transfer that does not pass validation leaves no row and no timeline.
Validate(t) ==
  /\ at[t] = "validating"
  /\ \/ /\ Record(t, <<"SENDER_VERIFIED", "RECEIVER_VERIFIED", "VALIDATION_PASSED">>)
        /\ Move(t, "VALIDATED")
        /\ Goto(t, "starting")
     \/ Goto(t, "refused") /\ UNCHANGED <<collected, phase>>
  /\ UNCHANGED <<attempt, timeline, row, ledger, balance>>

\* An attempt, from the phase that validation left, up to its INSERT.
Start(t) ==
  /\ at[t] = "starting"
  /\ Move(t, "PROCESSING")
  /\ Record(t, <<"PROCESSING_STARTED">>)
  /\ Goto(t, "locking")
  /\ UNCHANGED <<attempt, timeline, row, ledger, balance>>

LockWallets(t) ==
  /\ at[t] = "locking"
  /\ \A u \in Transfers : at[u] \in Holding => Pair(u) \cap Pair(t) = {}
  /\ Record(t, <<"WALLETS_LOCKED">>)
  /\ Goto(t, "checking")
  /\ UNCHANGED <<attempt, phase, timeline, row, ledger, balance>>

\* debitIfSufficient; what it writes is seen at the commit.
CheckBalance(t) ==
  /\ at[t] = "checking"
  /\ IF balance[From[t]] >= Amount[t]
     THEN Record(t, <<"BALANCE_CHECKED", "SENDER_DEBITED">>) /\ Goto(t, "crediting")
     ELSE Record(t, <<"BALANCE_CHECKED", "TRANSACTION_FAILED">>) /\ Goto(t, "rejecting")
  /\ UNCHANGED <<attempt, phase, timeline, row, ledger, balance>>

Credit(t) ==
  /\ at[t] = "crediting"
  /\ Record(t, <<"RECEIVER_CREDITED">>)
  /\ Goto(t, "posting")
  /\ UNCHANGED <<attempt, phase, timeline, row, ledger, balance>>

PostEntries(t) ==
  /\ at[t] = "posting"
  /\ Record(t, <<"LEDGER_POSTED">>)
  /\ Goto(t, "completing")
  /\ UNCHANGED <<attempt, phase, timeline, row, ledger, balance>>

\* markCompleted, after the transition.
Complete(t) ==
  /\ at[t] = "completing"
  /\ Move(t, "COMPLETED")
  /\ TriggerAllows("PENDING", PersistedStatus("COMPLETED"))
  /\ Record(t, <<"TRANSACTION_COMPLETED">>)
  /\ Goto(t, "flushing")
  /\ UNCHANGED <<attempt, timeline, row, ledger, balance>>

\* markFailed: the phase stays PROCESSING.
Reject(t) ==
  /\ at[t] = "rejecting"
  /\ TriggerAllows("PENDING", "FAILED")
  /\ Goto(t, "flushing")
  /\ UNCHANGED <<attempt, phase, collected, timeline, row, ledger, balance>>

\* createMany: the batch is every event of the collector.
Flush(t) ==
  /\ at[t] = "flushing"
  /\ Goto(t, "auditing")
  /\ UNCHANGED <<attempt, phase, collected, timeline, row, ledger, balance>>

\* The audit row, and COMMIT: all of it is visible at once.
Commit(t) ==
  /\ at[t] = "auditing"
  /\ timeline' = [timeline EXCEPT ![t] = collected[t]]
  /\ IF phase[t] = "COMPLETED"
     THEN /\ row' = [row EXCEPT ![t] = "COMPLETED"]
          /\ ledger' = ledger \cup {t}
          /\ balance' = [balance EXCEPT ![From[t]] = @ - Amount[t], ![To[t]] = @ + Amount[t]]
     ELSE row' = [row EXCEPT ![t] = "FAILED"] /\ UNCHANGED <<ledger, balance>>
  /\ Goto(t, "done")
  /\ UNCHANGED <<attempt, phase, collected>>

\* A timeout, a deadlock or another error at any statement up to the COMMIT:
\* ROLLBACK.  Contention is tried again, with the same collector.
Abort(t) ==
  /\ at[t] \in Inside
  /\ \/ /\ attempt[t] < MaxAttempts
        /\ attempt' = [attempt EXCEPT ![t] = @ + 1]
        /\ phase' = [phase EXCEPT ![t] = "VALIDATED"]
        /\ Goto(t, "starting")
     \/ Goto(t, "error") /\ UNCHANGED <<attempt, phase>>
  /\ UNCHANGED <<collected, timeline, row, ledger, balance>>

-----------------------------------------------------------------------------
Init ==
  /\ at = [t \in Transfers |-> "new"]
  /\ attempt = [t \in Transfers |-> 1]
  /\ phase = [t \in Transfers |-> "CREATED"]
  /\ collected = [t \in Transfers |-> <<>>]
  /\ timeline = [t \in Transfers |-> <<>>]
  /\ row = [t \in Transfers |-> "none"]
  /\ ledger = {}
  /\ balance = Opening

Next ==
  \E t \in Transfers :
    \/ Initiate(t) \/ Validate(t) \/ Start(t) \/ LockWallets(t) \/ CheckBalance(t)
    \/ Credit(t) \/ PostEntries(t) \/ Complete(t) \/ Reject(t) \/ Flush(t)
    \/ Commit(t) \/ Abort(t)

Spec == Init /\ [][Next]_vars

-----------------------------------------------------------------------------
(* Properties *)

Tells(t, event) == \E i \in DOMAIN timeline[t] : timeline[t][i] = event

\* The timeline ends in the outcome: the last event of a committed transfer is
\* the notification of what its row says, and only a committed transfer has
\* events, whatever the attempts before it left in the collector.
TimelineEndsInTheOutcome ==
  \A t \in Transfers :
    LET last == IF row[t] = "COMPLETED" THEN "TRANSACTION_COMPLETED" ELSE "TRANSACTION_FAILED"
    IN  IF row[t] = "none" THEN timeline[t] = <<>>
        ELSE timeline[t] # <<>> /\ timeline[t][Len(timeline[t])] = last

\* "A timeline that could disagree with the ledger would be worse than no
\* timeline": it tells of a completion exactly when the money has moved.
TimelineAgreesWithLedger ==
  \A t \in Transfers : Tells(t, "TRANSACTION_COMPLETED") <=> t \in ledger
=============================================================================
