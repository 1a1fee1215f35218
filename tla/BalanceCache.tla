----------------------------- MODULE BalanceCache -----------------------------
(***************************************************************************)
(* The balance that the wallet screen shows: getBalance reads the cache,   *)
(* else the wallet's row, and stores what it read with a TTL; a transfer   *)
(* commits a new balance and then deletes the entry, and the deletion may  *)
(* fail.  A balance is its version, the number of commits before it.       *)
(***************************************************************************)
EXTENDS RedisService, FiniteSets

CONSTANTS
  Views,       \* screens that call getBalance, one call at a time
  Transfers,   \* committed transfers of the wallet
  Home,        \* Home[c]: the process that serves call c
  Ttl,         \* BALANCE_CACHE_TTL_SECONDS, in ticks
  Jitter,      \* ttlJitterSeconds
  Nothing

ASSUME CacheAssumption ==
  /\ Views \cap Transfers = {} /\ IsFiniteSet(Transfers)
  /\ Ttl \in Nat \ {0} /\ Jitter \in Nat

VARIABLES
  balance,   \* the version in PostgreSQL
  ended,     \* ended[v]: when version v was superseded
  entry,     \* the cache entry, [version, expires], or Nothing
  stage,     \* stage[c]: where call c is
  held,      \* held[v]: the version that view v read from PostgreSQL
  readAt     \* readAt[v]: when

cache == <<balance, ended, entry, stage, held, readAt>>

Step(c, s) == stage' = [stage EXCEPT ![c] = s]

\* Mutant: the entry is stored for good.
Entry_Forever(v, lifetime) == [version |-> v, expires |-> MaxTime + 1]

\* set, with the TTL and its jitter.
Entry(v, lifetime) == [version |-> v, expires |-> now + lifetime]

\* The end of a command that changes the entry to some member of results:
\* executed, or failed and executed or not.
Ends(c, results) ==
  \/ up /\ RecordSuccess(Home[c]) /\ entry' \in results
  \/ ~up /\ RecordFailure(Home[c]) /\ entry' \in results \cup {entry}

-----------------------------------------------------------------------------
(* getBalance *)

\* The screen has its answer, and asks again later.
Show(v) ==
  /\ Step(v, "new")
  /\ held' = [held EXCEPT ![v] = 0] /\ readAt' = [readAt EXCEPT ![v] = 0]

LookUp(v) ==
  /\ stage[v] = "new"
  /\ \/ Admits(Home[v]) /\ Step(v, "getting")
     \/ Refuses(Home[v]) /\ Step(v, "loading")
  /\ UNCHANGED <<balance, ended, entry, held, readAt>>

Get(v) ==
  /\ stage[v] = "getting"
  /\ Ends(v, {entry})
  /\ Step(v, IF up /\ entry # Nothing THEN "new" ELSE "loading")
  /\ UNCHANGED <<balance, ended, held, readAt>>

Load(v) ==
  /\ stage[v] = "loading"
  /\ held' = [held EXCEPT ![v] = balance]
  /\ readAt' = [readAt EXCEPT ![v] = now]
  /\ Step(v, "storing")
  /\ UNCHANGED <<breaker, balance, ended, entry>>

Store(v) ==
  /\ stage[v] = "storing"
  /\ \/ Admits(Home[v]) /\ Step(v, "setting") /\ UNCHANGED <<held, readAt>>
     \/ Refuses(Home[v]) /\ Show(v)
  /\ UNCHANGED <<balance, ended, entry>>

Set(v) ==
  /\ stage[v] = "setting"
  /\ Ends(v, {Entry(held[v], Ttl + j) : j \in 0..Jitter})
  /\ Show(v)
  /\ UNCHANGED <<balance, ended>>

-----------------------------------------------------------------------------
(* A transfer, and invalidateWalletCaches *)

Commit(t) ==
  /\ stage[t] = "new"
  /\ balance' = balance + 1
  /\ ended' = [ended EXCEPT ![balance] = now]
  /\ Step(t, "invalidating")
  /\ UNCHANGED <<breaker, entry, held, readAt>>

Invalidate(t) ==
  /\ stage[t] = "invalidating"
  /\ \/ Admits(Home[t]) /\ Step(t, "unlinking")
     \/ Refuses(Home[t]) /\ Step(t, "done")
  /\ UNCHANGED <<balance, ended, entry, held, readAt>>

Unlink(t) ==
  /\ stage[t] = "unlinking"
  /\ Ends(t, {Nothing})
  /\ Step(t, "done")
  /\ UNCHANGED <<balance, ended, held, readAt>>

-----------------------------------------------------------------------------
\* No fill takes longer than MaxDelay.
FillsInTime ==
  \A v \in Views : stage[v] \in {"storing", "setting"} => now < readAt[v] + MaxDelay

\* An entry whose TTL has run out is gone at the next tick.
ExpireEntry ==
  /\ entry' = IF entry # Nothing /\ entry.expires <= now + 1 THEN Nothing ELSE entry
  /\ UNCHANGED <<balance, ended, stage, held, readAt>>

CacheInit ==
  /\ balance = 0
  /\ ended = [v \in 0..Cardinality(Transfers) |-> 0]
  /\ entry = Nothing
  /\ stage = [c \in Views \cup Transfers |-> "new"]
  /\ held = [v \in Views |-> 0] /\ readAt = [v \in Views |-> 0]

ViewStep(v) == LookUp(v) \/ Get(v) \/ Load(v) \/ Store(v) \/ Set(v)
TransferStep(t) == Commit(t) \/ Invalidate(t) \/ Unlink(t)

CacheTypeOK ==
  /\ balance \in Nat
  /\ entry # Nothing => entry.version \in 0..balance /\ entry.expires > now
  /\ \A v \in Views : held[v] \in 0..balance /\ readAt[v] \in 0..now

-----------------------------------------------------------------------------
\* The balance that a screen shows is at most a TTL, its jitter and one slow
\* fill old, although a fill that read the row before a commit may store it
\* after the deletion, and although deletions are lost.
ShownBalancesAreRecent ==
  entry # Nothing /\ entry.version # balance =>
    now <= ended[entry.version] + Ttl + Jitter + MaxDelay
=============================================================================
