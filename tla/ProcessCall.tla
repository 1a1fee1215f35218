------------------------------ MODULE ProcessCall ------------------------------
(***************************************************************************)
(* TransactionProcessor.process() as the features that call it see it: a   *)
(* change of the tables in one step, as in AtomicTransfer, which           *)
(* TransferEngine is shown to implement, and an answer.                    *)
(*                                                                         *)
(* The answer is COMPLETED, FAILED or a thrown ERROR.  It is less certain  *)
(* than the change: a commit whose acknowledgement is lost is answered     *)
(* ERROR, a claim of the key by another call is answered ERROR, and a      *)
(* rejection without a row is remembered by Redis alone, for               *)
(* resultTtlSeconds at most.                                               *)
(***************************************************************************)
EXTENDS AtomicTransfer

CONSTANTS
  MaxTransfer,  \* MAX_TRANSFER_POISHA
  Faults        \* which of "engine", "ack", "redis" may occur

VARIABLES
  refused    \* keys for which Redis remembers a rejection without a row

table == <<verdict, funds, held, usable>>

Answers == {"COMPLETED", "FAILED", "ERROR"}

\* The answer to a commit, unless its acknowledgement is lost.
Acknowledged(told, answer) ==
  answer = told \/ ("ack" \in Faults /\ answer = "ERROR")

\* What validation, or the check under the lock, refuses.
Refusable(o) ==
  o.from \notin usable \/ o.from = o.to \/ o.amount \notin 1..MaxTransfer

Pays(k, o, answer) ==
  /\ ~Refusable(o)
  /\ Pay(k, o)
  /\ Acknowledged("COMPLETED", answer)
  /\ UNCHANGED refused

Declines(k, o, answer) ==
  /\ ~Refusable(o)
  /\ Decline(k, o)
  /\ Acknowledged("FAILED", answer)
  /\ UNCHANGED refused

\* The key is decided, or Redis remembers its rejection.
Replays(k, answer) ==
  /\ \/ verdict[k] = "paid" /\ answer = "COMPLETED"
     \/ verdict[k] = "declined" /\ answer = "FAILED"
     \/ k \in refused /\ answer = "FAILED"
  /\ UNCHANGED <<table, refused>>

\* A rejection leaves no row.  A key that is decided gets here when its claim
\* was lost, has lapsed or was released before its answer was stored.
Rejects(k, o, answer) ==
  /\ Refusable(o)
  /\ answer = "FAILED"
  /\ \/ refused' = refused \cup {k}
     \/ "redis" \in Faults /\ UNCHANGED refused
  /\ UNCHANGED table

\* Another call holds the key, or the infrastructure fails.
Breaks(answer) ==
  /\ "engine" \in Faults
  /\ answer = "ERROR"
  /\ UNCHANGED <<table, refused>>

\* A rejection lapses after resultTtlSeconds, or Redis loses it earlier.
Forget(k) ==
  /\ k \in refused
  /\ refused' = refused \ {k}
  /\ UNCHANGED table
=============================================================================
