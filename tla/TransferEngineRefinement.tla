----------------------- MODULE TransferEngineRefinement -----------------------
(***************************************************************************)
(* TransferEngine implements AtomicTransfer.  The abstract state is read   *)
(* off the committed tables alone: what Redis holds, who holds which row   *)
(* lock and how far a call has come are invisible to it, so every step of  *)
(* the engine but a commit, a status change and a reservation stutters.    *)
(***************************************************************************)
EXTENDS TransferEngine

\* The orders that the calls carrying key k ask for.
OrdersOf ==
  [k \in Keys |-> {[from |-> Sender[r], to |-> Receiver[r], amount |-> Amount[r]] :
                     r \in {q \in Requests : Key[q] = k}}]

\* A row decides its key.
VerdictOf(k) ==
  IF \E t \in RowsOf(k) : t.status = "COMPLETED" THEN "paid"
  ELSE IF RowsOf(k) = {} THEN "open" ELSE "declined"

Atomic ==
  INSTANCE AtomicTransfer WITH
    Orders  <- OrdersOf,
    verdict <- [k \in Keys |-> VerdictOf(k)],
    funds   <- balance,
    held    <- reserved,
    usable  <- {w \in Wallets : status[w] = "ACTIVE"}

\* Whatever calls interleave, crash, time out or retry, and whatever Redis
\* loses, the tables change as if each key were decided once, in one step,
\* on the balances, reservations and statuses of that very instant.
ImplementsAtomicTransfer == Atomic!Spec
=============================================================================
