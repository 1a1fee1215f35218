------------------------------ MODULE RedisLayer ------------------------------
(***************************************************************************)
(* The balance cache and the rate limiter over one Redis server and the    *)
(* circuit breakers of the processes, so that a failure which one of them  *)
(* meets makes the other do without Redis.                                 *)
(***************************************************************************)
EXTENDS BalanceCache, RateLimiter

layer == <<service, cache, limiter>>

Tick ==
  /\ now < MaxTime /\ FillsInTime /\ CommandsInTime
  /\ now' = now + 1
  /\ ExpireEntry /\ ExpireCounters
  /\ UNCHANGED <<up, outages, breaker, probe>>

LayerInit == ServiceInit /\ CacheInit /\ LimiterInit

LayerNext ==
  \/ ServiceNext /\ UNCHANGED <<cache, limiter>>
  \/ /\ \/ \E v \in Views : ViewStep(v)
        \/ \E t \in Transfers : TransferStep(t)
     /\ UNCHANGED <<now, up, outages, probe, limiter>>
  \/ /\ \E q \in Requests : Send(q) \/ Consume(q)
     /\ UNCHANGED <<now, up, outages, probe, cache>>
  \/ Tick

LayerSpec == LayerInit /\ [][LayerNext]_layer

\* The server comes back, cooldowns elapse, and the health check goes on.
FairLayerSpec ==
  /\ LayerSpec
  /\ WF_layer(Recover /\ UNCHANGED <<cache, limiter>>)
  /\ \A p \in Processes :
       /\ WF_layer(CoolDown(p) /\ UNCHANGED <<cache, limiter>>)
       /\ WF_layer(Ping(p) /\ UNCHANGED <<cache, limiter>>)

LayerTypeOK == ServiceTypeOK /\ CacheTypeOK /\ LimiterTypeOK

-----------------------------------------------------------------------------
\* Redis is used again after an outage: once the server stays up, every process
\* comes to send it commands and never refuses one again, although each kept
\* counting failures of commands it had sent before, and a circuit that cooled
\* during the outage was closed and opened again.
CircuitsClose ==
  <>[]up => \A p \in Processes : <>[](circuit[p] = "closed")
=============================================================================
