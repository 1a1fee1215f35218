----------------------------- MODULE RedisService -----------------------------
(***************************************************************************)
(* RedisService: the circuit breaker that every Redis command of a process *)
(* goes through.  A command is sent, or refused at once while the circuit  *)
(* is open; later it ends, and its end is accounted for whatever has       *)
(* become of the circuit meanwhile.  The cooldown is an event of the clock *)
(* after which isAvailable itself closes the circuit.                      *)
(*                                                                         *)
(* A command fails only while the server is down, and then it may have     *)
(* been executed or not.                                                   *)
(***************************************************************************)
EXTENDS Integers

CONSTANTS
  Processes,   \* API processes, each with its own breaker
  Threshold,   \* circuitFailureThreshold
  MaxOutages,  \* bound: how often the server goes down
  MaxDelay,    \* bound: ticks that a command, or the fill of a cache entry, takes
  MaxTime      \* bound on the clock

ASSUME BreakerAssumption ==
  /\ Threshold \in Nat \ {0} /\ MaxOutages \in Nat
  /\ MaxDelay \in Nat /\ MaxTime \in Nat

VARIABLES
  now,        \* the clock of the entries and the windows
  up,         \* the server answers
  outages,    \* how often it went down
  failures,   \* failures[p]: circuit.consecutiveFailures
  circuit,    \* circuit[p]: "closed", "open", or "cooled" once the cooldown has elapsed
  probe       \* probe[p]: the health check's PING is "idle" or "sent"

breaker == <<failures, circuit>>
service == <<now, up, outages, breaker, probe>>

\* Mutant: openedAt is kept until a command succeeds, and none is let through.
Admits_NeverAgain(p) == circuit[p] = "closed" /\ UNCHANGED breaker

\* isAvailable: TRUE, with its side effect, or not enabled.
Admits(p) ==
  \/ circuit[p] = "closed" /\ UNCHANGED breaker
  \/ /\ circuit[p] = "cooled"
     /\ circuit' = [circuit EXCEPT ![p] = "closed"]
     /\ failures' = [failures EXCEPT ![p] = 0]

Refuses(p) == circuit[p] = "open" /\ UNCHANGED breaker

RecordSuccess(p) ==
  /\ failures' = [failures EXCEPT ![p] = 0]
  /\ circuit' = [circuit EXCEPT ![p] = "closed"]

RecordFailure(p) ==
  /\ failures' = [failures EXCEPT ![p] = @ + 1]
  /\ circuit' = IF circuit[p] = "closed" /\ failures[p] + 1 >= Threshold
                THEN [circuit EXCEPT ![p] = "open"] ELSE circuit

-----------------------------------------------------------------------------
(* The server and the clock *)

GoDown ==
  /\ up /\ outages < MaxOutages
  /\ up' = FALSE /\ outages' = outages + 1
  /\ UNCHANGED <<now, breaker, probe>>

Recover ==
  /\ ~up /\ up' = TRUE
  /\ UNCHANGED <<now, outages, breaker, probe>>

CoolDown(p) ==
  /\ circuit[p] = "open"
  /\ circuit' = [circuit EXCEPT ![p] = "cooled"]
  /\ UNCHANGED <<now, up, outages, failures, probe>>

\* The health endpoint: ping, then isAvailable once more.
Ping(p) ==
  \/ /\ probe[p] = "idle" /\ Admits(p)
     /\ probe' = [probe EXCEPT ![p] = "sent"]
     /\ UNCHANGED <<now, up, outages>>
  \/ /\ probe[p] = "sent"
     /\ IF up THEN RecordSuccess(p) ELSE RecordFailure(p)
     /\ probe' = [probe EXCEPT ![p] = "idle"]
     /\ UNCHANGED <<now, up, outages>>

ServiceInit ==
  /\ now = 0 /\ up = TRUE /\ outages = 0
  /\ failures = [p \in Processes |-> 0]
  /\ circuit = [p \in Processes |-> "closed"]
  /\ probe = [p \in Processes |-> "idle"]

ServiceNext == GoDown \/ Recover \/ \E p \in Processes : CoolDown(p) \/ Ping(p)

ServiceTypeOK ==
  /\ now \in 0..MaxTime /\ up \in BOOLEAN /\ outages \in 0..MaxOutages
  /\ failures \in [Processes -> Nat]
  /\ circuit \in [Processes -> {"closed", "open", "cooled"}]
  /\ probe \in [Processes -> {"idle", "sent"}]
=============================================================================
