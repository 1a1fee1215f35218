------------------------------ MODULE RateLimiter ------------------------------
(***************************************************************************)
(* RedisRateLimiterAdapter.consume for one user and one action: the Lua    *)
(* script of the sliding window over two counters in Redis, and, when      *)
(* Redis fails, a fixed window in the memory of each process.  Time is     *)
(* counted in ticks, Parts of them to a window.                            *)
(***************************************************************************)
EXTENDS RedisService, FiniteSets

CONSTANTS
  Requests,   \* calls of consume
  Server,     \* Server[q]: the process that serves request q
  Parts,      \* ticks to a window
  Limit,      \* transactionMax
  FallbackMax \* fallbackMaxPerInstance

\* A command is given up long before a window is over.
ASSUME LimiterAssumption ==
  /\ Parts \in Nat \ {0} /\ MaxDelay <= Parts
  /\ Limit \in Nat /\ FallbackMax \in Nat

VARIABLES
  count,      \* count[w]: the counter of window w in Redis, 0 when it has none
  expires,    \* expires[w]: when that counter expires
  fallback,   \* fallback[p]: [window, count], the counter of process p
  place,      \* place[q]: where request q is
  sentAt,     \* sentAt[q]: the time that request q computed its window from
  admitted    \* admitted[w]: the requests that the script let through in window w

limiter == <<count, expires, fallback, place, sentAt, admitted>>

Window(t) == t \div Parts
Part(t) == t % Parts
Windows == 0..Window(MaxTime)

Previous(f, w) == IF w = 0 THEN 0 ELSE f[w - 1]

\* previous * (1 - elapsedRatio) + current, times Parts.
Estimated(f, t) == Previous(f, Window(t)) * (Parts - Part(t)) + f[Window(t)] * Parts

\* Mutant: the counter lives for one window.
Lifetime_OneWindow == Parts

\* EXPIRE currentKey, windowTtl * 2
Lifetime == 2 * Parts

Place(q, s) == place' = [place EXCEPT ![q] = s]

\* The Lua script, in one step, and whether it lets the request through.
Script(q, allowed) ==
  LET w == Window(sentAt[q])
  IN  /\ allowed = (Estimated(count, sentAt[q]) < Limit * Parts)
      /\ IF allowed
         THEN /\ count' = [count EXCEPT ![w] = @ + 1]
              /\ expires' = IF count[w] = 0 THEN [expires EXCEPT ![w] = now + Lifetime]
                            ELSE expires
         ELSE UNCHANGED <<count, expires>>

\* consumeFallback: the counter of another window is overwritten.
ConsumeFallback(q, t) ==
  LET p == Server[q]
      n == IF fallback[p].window = Window(t) THEN fallback[p].count + 1 ELSE 1
  IN  /\ fallback' = [fallback EXCEPT ![p] = [window |-> Window(t), count |-> n]]
      /\ Place(q, IF n <= FallbackMax THEN "allowed locally" ELSE "refused")
      /\ UNCHANGED admitted

\* consume up to the command, or the open circuit.
Send(q) ==
  /\ place[q] = "new"
  /\ \/ /\ Admits(Server[q]) /\ Place(q, "sent")
        /\ sentAt' = [sentAt EXCEPT ![q] = now]
        /\ UNCHANGED <<fallback, admitted>>
     \/ Refuses(Server[q]) /\ ConsumeFallback(q, now) /\ UNCHANGED sentAt
  /\ UNCHANGED <<count, expires>>

\* The script was executed and answered; or it was not, or its answer was lost.
Consume(q) ==
  /\ place[q] = "sent"
  /\ \/ /\ up /\ RecordSuccess(Server[q])
        /\ \E allowed \in BOOLEAN :
             /\ Script(q, allowed)
             /\ Place(q, IF allowed THEN "allowed" ELSE "refused")
             /\ admitted' = IF allowed THEN [admitted EXCEPT ![Window(sentAt[q])] = @ + 1]
                            ELSE admitted
        /\ UNCHANGED fallback
     \/ /\ ~up /\ RecordFailure(Server[q])
        /\ \/ UNCHANGED <<count, expires>>
           \/ \E allowed \in BOOLEAN : Script(q, allowed)
        /\ ConsumeFallback(q, sentAt[q])
  /\ sentAt' = [sentAt EXCEPT ![q] = 0]

\* No command takes longer than MaxDelay.
CommandsInTime == \A q \in Requests : place[q] = "sent" => now < sentAt[q] + MaxDelay

ExpireCounters ==
  /\ count' = [w \in Windows |-> IF expires[w] <= now + 1 THEN 0 ELSE count[w]]
  /\ expires' = [w \in Windows |-> IF expires[w] <= now + 1 THEN 0 ELSE expires[w]]
  /\ UNCHANGED <<fallback, place, sentAt, admitted>>

LimiterInit ==
  /\ count = [w \in Windows |-> 0]
  /\ expires = [w \in Windows |-> 0]
  /\ fallback = [p \in Processes |-> [window |-> 0, count |-> 0]]
  /\ place = [q \in Requests |-> "new"]
  /\ sentAt = [q \in Requests |-> 0]
  /\ admitted = [w \in Windows |-> 0]

LimiterTypeOK ==
  /\ count \in [Windows -> 0..Cardinality(Requests)]
  /\ \A w \in Windows : count[w] > 0 => expires[w] > now
  /\ place \in [Requests -> {"new", "sent", "allowed", "allowed locally", "refused"}]
  /\ admitted \in [Windows -> Nat]

-----------------------------------------------------------------------------
\* The limit has no gap at the boundary of two windows: whenever the script
\* lets a request through, fewer than the limit were let through before in its
\* window, and, unless the script runs after that window has ended, so were
\* they with those of the last window weighted by the share of it that still
\* counts.  Counters that expire, scripts that arrive late and answers that are
\* lost never make it forget one.
SlidingWindowHolds ==
  [][\A q \in Requests :
       place[q] = "sent" /\ place'[q] = "allowed" =>
         /\ admitted[Window(sentAt[q])] < Limit
         /\ Window(now) = Window(sentAt[q]) => Estimated(admitted, sentAt[q]) < Limit * Parts
    ]_limiter
=============================================================================
