------------------------- MODULE TransferEngineMemory -------------------------
(***************************************************************************)
(* What two calls with one key are told, beside TransferEngine.  Tier 1    *)
(* keeps one verdict for all of them only while it remembers the key, and  *)
(* it is made to forget: claims lapse after inFlightTtlSeconds, answers    *)
(* after resultTtlSeconds, faults release them, Redis loses them, and a    *)
(* degraded call works without a claim.  The history variable tells for    *)
(* which keys this has happened, so that the property names exactly what   *)
(* an honest client may hear two verdicts about.                           *)
(***************************************************************************)
EXTENDS TransferEngineInvariant

VARIABLE
  forgotten  \* the keys that tier 1 has not remembered all along

\* The record of k goes away, or a call with key k works without one.
Forgets(k) ==
  \/ redis[k] # NoRecord /\ redis'[k] = NoRecord
  \/ \E r \in Requests : Key[r] = k /\ ReserveDegraded(r) /\ UNCHANGED redis

RememberingNext ==
  /\ Next
  /\ forgotten' = forgotten \cup {k \in Keys : Forgets(k)}

RememberingSpec ==
  Init /\ forgotten = {} /\ [][RememberingNext]_<<vars, forgotten>>

\* Two calls with one key never give contradictory verdicts, a retry between
\* attempts, a fault and a crash included, unless tier 1 has forgotten the key
\* meanwhile.  A rejection without a row is nowhere else: once it has lapsed the
\* same key may complete.
VerdictsAgree ==
  \A q, r \in Requests :
    /\ Key[q] = Key[r] /\ Key[q] \notin forgotten
    /\ {reply[q].status, reply[r].status} \subseteq {"COMPLETED", "FAILED"}
    => reply[q] = reply[r]
=============================================================================
