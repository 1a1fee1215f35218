---------------------------- MODULE AtomicTransfer ----------------------------
(***************************************************************************)
(* What the transaction engine promises, without calls, locks, Redis or    *)
(* retries: "one request = one transaction", decided at one instant.       *)
(*                                                                         *)
(* An idempotency key is open until it is decided, once and for good.  To  *)
(* decide it is to pay one of its orders, when the payer is usable and has *)
(* enough that is not held, or to decline it, when the payer is usable and *)
(* has not.  Everything a caller may observe of the database is a result   *)
(* of such steps.                                                          *)
(***************************************************************************)
EXTENDS Integers

CONSTANTS
  Keys,     \* idempotency keys
  Wallets,
  Orders,   \* Orders[k]: the movements that requests with key k may ask for
  Opening   \* Opening[w]: the funds of w when the behaviour begins

VARIABLES
  verdict,  \* verdict[k]: "open", "paid" or "declined"
  funds,    \* funds[w]: the balance of w
  held,     \* held[w]: the part of it that envelopes reserve
  usable    \* the wallets that may pay

Init ==
  /\ verdict = [k \in Keys |-> "open"]
  /\ funds = Opening
  /\ held = [w \in Wallets |-> 0]
  /\ usable \in SUBSET Wallets

Affordable(o) == o.amount <= funds[o.from] - held[o.from]

Decide(k, v) == verdict[k] = "open" /\ verdict' = [verdict EXCEPT ![k] = v]

Pay(k, o) ==
  /\ Decide(k, "paid")
  /\ o.from \in usable /\ o.from # o.to /\ o.amount > 0 /\ Affordable(o)
  /\ funds' = [funds EXCEPT ![o.from] = @ - o.amount, ![o.to] = @ + o.amount]
  /\ UNCHANGED <<held, usable>>

Decline(k, o) ==
  /\ Decide(k, "declined")
  /\ o.from \in usable /\ ~Affordable(o)
  /\ UNCHANGED <<funds, held, usable>>

Hold(w) ==
  /\ \E n \in 0..funds[w] : held' = [held EXCEPT ![w] = n]
  /\ UNCHANGED <<verdict, funds, usable>>

Regulate ==
  /\ usable' \in SUBSET Wallets
  /\ UNCHANGED <<verdict, funds, held>>

Next ==
  \/ \E k \in Keys : \E o \in Orders[k] : Pay(k, o) \/ Decline(k, o)
  \/ \E w \in Wallets : Hold(w)
  \/ Regulate

Spec == Init /\ [][Next]_<<verdict, funds, held, usable>>
=============================================================================
