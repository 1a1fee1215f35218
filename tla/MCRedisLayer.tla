----------------------------- MODULE MCRedisLayer -----------------------------
(***************************************************************************)
(* An instance of RedisLayer for TLC: one process, so that what the cache  *)
(* meets opens the circuit of the limiter; windows of two ticks.           *)
(***************************************************************************)
EXTENDS RedisLayer

CONSTANTS v1, t1, q1, q2, p1

MCHome == [c \in Views \cup Transfers |-> p1]
MCServer == [q \in Requests |-> p1]
=============================================================================
