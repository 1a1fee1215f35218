# Goti: a verification of where the money is

Goti is a peer-to-peer wallet: a web page, a NestJS API over PostgreSQL (the authority)
and Redis (a helper that may fail). This directory holds TLA+ models of the parts of it
that decide where money is and who may move it, the TLC runs that check them on small
instances, and TLAPS proofs of the properties that matter most for every instance. Paths
below are relative to the repository's `src/`, unless they are `.tla` or `.cfg` files of
this directory.

1. [The system](#1-the-system): components, their state, what makes them correct
2. [Plan](#2-plan): modules in order, what is done and what is left
3. [The models](#3-the-models): which variable and which action is which code
4. [Runs](#4-runs): what each one asks, its bounds, what it shows
5. [Proofs](#5-proofs): what holds for every instance, and why
6. [Disagreements found](#6-disagreements-found)
7. [What is not modelled](#7-what-is-not-modelled)

## 1. The system

```
 web client (one tab: session, list, send page)
   |  HTTP, answers lost or late
 HTTP controllers
   |-- wallet, history, user ......... reads, through the cache
   |-- send money ---- rate limit -> challenge -> risk --+
   |-- money requests -- claim -> settle -> give back ---+--> TransactionProcessor.process()
   |-- pots ---------- check -> transfer -> bookkeeping -+       |-- Redis: idempotency record (tier 1)
   |-- envelopes ----- wallets.reserved_poisha                   |-- one PostgreSQL transaction
   |-- wallet security  wallets.status                           |     transactions, wallets, ledger_entries
                                                                 |-- Redis: cache invalidation
```

Every feature that moves money calls the same `process()`. The features share
the `wallets` rows with it: envelopes write `reserved_poisha`, wallet security
writes `status`, and a transfer reads both under its row lock. Nothing else is
shared between features but tables and Redis; there are no messages or
background workers.

| Component | State it keeps | Operations | What is hard | What makes it correct |
|---|---|---|---|---|
| Transaction engine (`application/transaction-engine/`) | `transactions`, `ledger_entries`, `wallets.balance_poisha`; row locks while it runs | `process`, with `withRetry`, `executeMoneyMovement`, `commitRejection`, `handleFailure` | concurrent calls on the same wallets or key, lock waits and deadlocks, bounded retries, a commit whose acknowledgement is lost, a crash between commit and Redis | one row per key; a debit and a credit or nothing; `balance_after` is the balance; only active wallets pay; an answer is true of the transaction it names; every call ends |
| Idempotency store (`redis-idempotency.adapter.ts`) | one record per (user, key), PROCESSING for 60 s, an answer for 24 h | `reserve`, `complete`, `fail`, `release` | failures before or after a write is applied, records that expire or vanish, unconditional late writes | it only ever saves work: the tables are right without it; no claim stays for ever |
| Wallet security (`wallet-security.use-cases.ts`) | `wallets.status`, security events | freeze, unfreeze, review, `freezeAsSystem` | a status changed while transfers are between validation and lock; a previous status read before the compare-and-set | a frozen wallet does not pay; the event log tells the transition that happened |
| Envelopes (`envelope.use-cases.ts`) | `expense_envelopes`, `wallets.reserved_poisha` | create, reserve, unlock, remove | two rows that must agree, a count before an insert, a removal in two transactions | the wallet reserves exactly what its envelopes do, and never more than it has |
| Money requests (`money-request.use-cases.ts`) | `money_requests.status` | create, respond | claim, settlement and compensation are three transactions; the settlement's answer may lie | money moves only for an accepted request, once; an acceptance is settled or given back |
| Pots (`pot.use-cases.ts`) | `pots`, `pot_members`, a wallet | create, join, contribute, settle | bookkeeping after the commit, from what was read before it; replayed answers; two payouts | status tells the truth about payout and target; nothing is left in a closed pot; the breakdown adds up |
| State machine (`transaction.state-machine.ts`) | the phase of an attempt, in memory | `transition`, `toPersistedStatus` | two encodings of it, in code and in a trigger | both allow the same status changes |
| Timeline (`transaction-event.service.ts`) | events collected in memory, flushed in the transaction | `createCollector`, `record`, `flushAll` | one collector for all attempts of a call | the events stored tell what happened |
| Recovery (`transaction-recovery.service.ts`) | none | sweep of PENDING rows, reconciliation | nothing calls it | |
| Security challenges (`security-challenge.use-cases.ts`, `security-question.service.ts`) | challenges with their status and age | raise, answer, expire, count wrong answers | concurrent wrong answers spread over challenges, expiry, reuse of a passed one, a swallowed freeze | guesses end in review; a wrong answer stops the wallet; a large payment has its answer |
| Send gates (`wallet.use-cases.ts`) | none | rate limit, challenge, risk, then the engine, then the record of the assessment | what is read at a gate is used after the others; calls that share a key | no payment without its gate; no record of a payment that was not made |
| Risk engine (`risk-engine.service.ts`) | flags (reads history) | `assess`, `recordAssessment` | thresholds, combinations of rules, signals that cannot be read | one sign alone never blocks |
| Balance cache (`redis-cache.adapter.ts`) | a cached balance with a TTL | get, set, invalidate | a load that began before a commit and is stored after the invalidation; a lost deletion | how stale a screen may be is bounded |
| Rate limiter (`redis-rate-limiter.adapter.ts`) | a sliding window in Redis, a fallback window in memory | `consume` | window boundaries, expiring counters, late and lost answers | no burst at a boundary |
| Redis client (`redis.service.ts`) | a circuit per process | commands, health probe | failures of one feature open the circuit of all; recovery needs traffic | an open circuit closes again |
| Registration and seed (`prisma-query.repositories.ts`, `auth.use-cases.ts`, `prisma/seed.ts`) | users, wallets, the genesis wallet | `register`, `createWithWallet`, `issueOpeningBalances` | concurrent registrations of one phone, interrupted and repeated seeds, the shared genesis row | money is issued once per user; an account is one person's; the books agree |
| Web session and list (`AuthContext.tsx`, `useAsync.ts`, `TransactionPages.tsx`) | the token, the page shown, requests on their way | login, register, sign out, navigate, filter, reload | late answers of an earlier filter, page or user | what is shown belongs to the user and the filter it names |
| Send page (`SendMoneyPage.tsx`, `SecurityChallengeDialog.tsx`) | the form, its idempotency key, the dialog | review, confirm, retry, answer, send another | lost answers, edited retries, a challenge between tries, unmounting | one transfer begun is one payment at most |

The rest, history queries, audit, domain values and the other pages, keeps no
state that the modelled parts depend on; `PROJECT.json` lists it with the reasons.

## 2. Plan

Most important first. A module is written so that it can be proved about: data as
CONSTANTS with named assumptions, one action per operation, no RECURSIVE operator.

| # | Module | What it is | Status |
|---|---|---|---|
| 1 | `AtomicTransfer` | abstract: a key is decided once, in one step | done |
| 2 | `TransferEngine` | the engine, tier 1 and PostgreSQL's locks in detail | done, checked |
| 3 | `TransferEngineRefinement`, `TransferEngineInvariant` | 2 implements 1; the inductive invariant | done, checked |
| 3a | `TransferEngineMemory` | 2 with a history of the keys that tier 1 has forgotten | done, checked |
| 4 | `TransferEngineTheorems`, `SumTheorems` | TLAPS proofs about 2, 3 and 3a; sums over finite sets | done, proved |
| 5 | `ProcessCall` | `process()` as its callers see it: 1 with its answers | done, through 6 and 7 |
| 6 | `MoneyRequests`, `MoneyRequestTheorems` | requests over 5 | done, checked, safety proved |
| 7 | `Pots`, `PotTheorems` | a pot over 5 | done, checked, safety proved |
| 8 | `Envelopes`, `EnvelopeTheorems` | envelopes and the sum on the wallet, `wallet_reservation_drift` | done, checked, safety proved |
| 9 | `WalletSecurity` | freezes, unfreezes, review, and the challenges that decide them | done, through 11 |
| 10 | `RiskEngine` | the scoring, as operators | done, through 11 |
| 11 | `SendMoney`, `SendMoneyTheorems` | 9 and 10 in front of 5 | done, checked, proved |
| 12 | `RedisService`, `BalanceCache`, `RateLimiter`, `RedisLayer` | Redis, its circuit breakers, and two adapters over them | done, checked; safety proved, in `SendMoneyTheorems` |
| 13 | `Accounts`, `AccountsTheorems` | registration, seed and issuance | done, checked; accounts and books proved |
| 14 | `ClientSession`, `SendPage`, `SendPageTheorems` | the tab; the send page over the server's gates and 5 | done, checked, proved |
| 15 | `TransactionTimeline` | the collector, the phases, the attempts | done; what holds is proved, in `TransferEngineTheorems`; what does not is a run |

Every invariant and every action property of the runs is proved now; what only TLC
checks is liveness. What could come next: an abstract specification of the answers of
`process()`, with errors and rejections, that the engine refines (section 3,
`ProcessCall`, says how far the proofs go today); a second large amount class in
`SendPage`; the pots and money-request pages, which mint a key per press and are
described in section 6.

## 3. The models

### `AtomicTransfer` and `TransferEngine`

`AtomicTransfer` is the promise: each idempotency key is *open* until one step
pays one of its orders (the payer usable, with enough that is not held) or
declines it (usable, without enough), for good. Holding and regulating wallets
are the other two steps.

`TransferEngine` is the code. A member of `Requests` is one call of `process()`;
it mints one transaction id, so it names its row too. A retry by the client is
another call with the same `Key`.

| Variable | Code |
|---|---|
| `pc`, `attempt` | where the call is in `process`, and the attempt of `withRetry` |
| `seen` | the two `WalletSnapshot`s that `lockForUpdate` returned |
| `share`, `owner` | PostgreSQL's FOR KEY SHARE and FOR UPDATE locks on `wallets` |
| `balance`, `reserved`, `status` | committed columns of `wallets` |
| `rows`, `ledger` | committed rows of `transactions` and `ledger_entries` |
| `redis` | the idempotency record of each key |
| `reply` | what the call answered |

Writes of an open transaction are invisible to others under Read Committed, so
they are implied by `pc` and appear in `Publish`, at the commit. In order:

| Action | Code |
|---|---|
| `ReserveKey`, `KeyIsTaken`, `ReadRecord`, `ReserveDegraded` | `reserve`: SET NX, then GET; Redis throwing at either |
| `Validate` | `TransactionValidator.validate`, before any lock |
| `Insert`, `ShareRow` | INSERT of the PENDING row: the unique index on the key, then the two foreign-key checks |
| `LockRow` | `lockForUpdate`: FOR UPDATE in id order |
| `RefuseUnderLock`, `Debit` | `assertStillValidUnderLock`, `debitIfSufficient` |
| `Post` | `credit`, `postEntries`, `markCompleted` with the unique `origin_request_id` |
| `Commit`, `CommitUnacknowledged` | COMMIT of the transfer or of `commitRejection`'s FAILED row; its acknowledgement may be lost |
| `Contention`, `DatabaseError` | `withRetry` on a retryable error, up to `MAX_RETRY_ATTEMPTS`; any other error |
| `StoreAnswer`, `ReplayRow`, `RecordRejection`, `ReleaseKey` | `idempotency.complete`, and the three branches of `handleFailure` |
| `Crash`, `ExpireClaim`, `ExpireAnswer`, `LoseRecord` | the process dies; the 60 s TTL; the 24 h TTL; Redis forgets |
| `Freeze`, `Unfreeze`, `MarkUnderReview`, `AdjustReservation` | the other writers of `wallets` |

Choices a reader should know of:

- `Validate` is one step although it reads both wallets. What it reads of the
  receiver (not CLOSED) never changes, as nothing in the code closes a wallet.
- `Store` may lose the write when `"redis"` is among the faults: the adapter
  swallows the error. Its writes are unconditional, as in the code, so a late call
  overwrites another's record.
- A client may send a second call while the first runs, and a claim may be lost
  while its call still runs (`LoseRecord`). The two TTLs need no fault:
  `ExpireClaim` waits for the call to be over, `ExpireAnswer` may come to a COMPLETED
  or FAILED record at any time.
- `CommitUnacknowledged` is the commit followed by an error. A commit that lands
  after the server has already given up is not modelled.
- The timeline rows of the transaction are in `TransactionTimeline`; its audit row
  is part of the commit and nothing reads it back.

`TransferEngineRefinement` reads the abstract state off the tables: the verdict on a
key is its row, `funds` is `balance`, `held` is `reserved`, `usable` is ACTIVE.
Redis, locks and program counters are invisible to it.

`TransferEngineMemory` adds a history variable: `forgotten` holds the keys whose
record has gone away (expired, released or lost) or on which a call has worked without
one (`ReserveDegraded`). The steps of the engine are the same. It is there to say
exactly how much tier 1 promises about the verdicts that two calls of one key hear
(`VerdictsAgree`): they agree on every key that is not `forgotten`. A rejection without
a row is known to its record alone, so once the 24 h are over the same key may complete,
with nothing having failed.

### `ProcessCall`

`AtomicTransfer` plus what callers of `process()` get back: COMPLETED, FAILED or an
error. It is the interface that `MoneyRequests`, `Pots`, `SendMoney` and `SendPage`
are built on, by INSTANCE, so that their state stays small. `Pays` and `Declines` may
be answered by an error (the lost acknowledgement); `Replays` answers from either
tier; `Rejects` is a rejection without a row, which only Redis remembers
(`refused`); `Breaks` is a conflict or a fault without effect.

A decided key may be rejected: validation runs before the index sees the key, so it is
enough that the record of the key is gone, because Redis lost it, because it lapsed, or
because a call that could not tell whether its commit was applied released it. `Forget`
is the same for a rejection: after 24 h, or earlier if Redis loses it.

What ties it to the engine is proved in two parts. `EngineIsAtomic`: the engine's
tables move only by the steps of `AtomicTransfer`. `AnswersStayTrue`: COMPLETED is
answered only for a key that is paid, FAILED only of a transaction that moved nothing
and never will. On what conditions a call is rejected, and when it is answered an
error, is read off the engine's actions and not itself proved.

### `MoneyRequests`

`Asks` are calls of create (each mints one request id), `Responses` calls of
respond. `status` is the request's row, `settled` the COMPLETED transaction whose
`origin_request_id` it is, `overdue` the clock against `expires_at`. `Read` is
`findById` with the checks on what it returned; `Expire`, `Decline` and `Claim`
are `resolveIfPending`, later, from that stale read; `Settle` is `process()`;
`Confirm` and `Reopen` follow its answer, and `Reopened` is the conditional
update of `restoreAfterFailedSettlement`. `LoseAnswer` is a `resolveIfPending` that was
applied and threw: for the claim this is outside the `try`, so nothing gives the
request back (`"stranded"`). The process may die anywhere, the
compensation may fail (its error is swallowed: also `"stranded"`), wallets are frozen,
a direct transfer may bring the payer the money.

### `Pots`

One pot: pots share nothing but their members' wallets. `status`, `settlement`,
`members`, `contributed` are its rows; `collected[p]` is the balance that payout
`p` read and is going to move. `Transfer` is `process()`; `Record`, `Count`,
`MarkFunded` and `Close` are the statements after it, each of which may fail
(`FailToBook`) or never run (`Crash`). `Join` has no guard on the status: the
call read an open pot, which the pot was at the start, and inserts any time later.

### `Envelopes`

One wallet, its envelopes, and calls of create, reserve, unlock and remove.
`adjustReservation` is taken statement by statement: `LockWallet` (FOR UPDATE),
`Mark` (the envelope's conditional UPDATE, which locks its row), `Apply` (the
wallet's, and COMMIT or ROLLBACK). `List` and `Insert` are create's two
transactions; `Lookup`, the adjustment and `Delete` are remove's three, and it
ignores what the second answers. `Spend` and `Receive` are what transfers do to
the balance: they wait for `owner`, and `Spend` has the debit's guard.

### `WalletSecurity`, `RiskEngine`, `SendMoney`

One owner, one wallet. A member of `Sends` is a call of `SendMoneyUseCase.execute`,
of `Releases` a call of unfreeze, of `AnswerCalls` a call of
`AnswerSecurityChallengeUseCase.execute`. A challenge is named by the call that
raised it; `challenge` is its status, `raised` the order, `age` how its creation
compares with the two windows the code asks about.

| Action | Code |
|---|---|
| `Freeze`, `FreezeAsSystem` | `freeze`, `freezeAsSystem` with its swallowed error |
| `ReadWallet`, `Prove`, `Release` | unfreeze: the status read, `hasPassedUnfreezeChallenge` or `raiseChallenge`, the compare-and-set |
| `Verify`, `Expire`, `Pass`, `Fail` | the answer: the challenge found PENDING and in time, and the update of its status, which asks again that it is PENDING |
| `Look`, `Count`, `ReadStatus`, `MarkUnderReview` | after a wrong answer: the freeze for a payment's challenge; the count and the review for an unfreeze's |
| `Grow` | time passes for a challenge, oldest first |
| `Start`, `ProveTransfer`, `AssessRisk`, `Process`, `Flag` | the gates of send, in their order, the engine, and `recordAssessment` |

What an answer says is a choice between right and wrong. The engine is
`ProcessCall` by INSTANCE, whose `usable` is the wallet of `WalletSecurity`: the
promise that `EngineIsAtomic` proves of the detailed one. `paid` remembers which
call's command became the row of a key, for the properties. `RiskEngine` has the
points, thresholds and levels of the code as operators; the signals a call reads
are chosen from small sets around the thresholds, or neutral when they cannot be
read. The rate limit in front is `RateLimiter`.

### `RedisService`, `BalanceCache`, `RateLimiter`, `RedisLayer`

`RedisService` is the server, up or down, and in each process the circuit: closed,
open, or open with its cooldown elapsed (`cooled`), in which state the next
`isAvailable` resets it. `Ping` is the health probe. A command that meets a server
that is down fails, executed or not.

`BalanceCache` counts the commits of one wallet: the balance is the version, so
that an entry tells how old it is. `LookUp`, `Get`, `Load`, `Store`, `Set` are
`getBalance`; `Commit`, `Invalidate`, `Unlink` a transfer and its deletion.
`RateLimiter` has `consume`: `Send` and `Consume` are the script, one atomic step
in Redis, and the fallback counter of a process; the weights of the sliding window
are multiplied by `Parts`, the ticks of a window, so that they stay integers.
`RedisLayer` joins the two over one service: a failure that a balance read meets
counts against the limiter's circuit. Time is a clock there; `FillsInTime` and
`CommandsInTime` keep a fill and a command within `MaxDelay` ticks, as the command
timeout does (a fill that stalls for longer in the process is outside the model).

### `Accounts`

`Check`, `Prepare`, `InsertUser`, `Decrement`, `Commit`, `Answer`, `Abort` are
`register` and `createWithWallet`: the check of phone and e-mail, then one database
transaction whose unique indexes see the uncommitted rows of others (`Clash`), and whose
UPDATE of the genesis wallet takes its row lock (`lock`) and computes from the committed
row. `UpsertUser`, `LookUp`, `Issue`, `VerifyBooks`, `Interrupt` are the seed, which
keeps the genesis balance in a local variable (`memory`). `Transfer` moves money between
accounts meanwhile, in one step, as the engine's commit does.

### `ClientSession` and `SendPage`

One tab. `session` is the token, `mount` counts the pages mounted (a component's
state and its `mounted` reference die with it), `list` is `useAsync` in the
transaction list and `loads` its requests on their way, each with the request id
and the token it was sent with. `late` is a login whose form was left before it was
answered: the promise goes on and signs in, or clears the session, when it comes
back. `SendPage` adds the form with its key, the requests from posting to answer
(`sends`), and the server: `Arrive` is the gates up to `MustProve`, `Process` the
engine by `ProcessCall`, `Disconnect` a lost answer, `Receive` the page's
reaction, by status and code (`Answer`, `Reply`, from the exception filter and the client's
parser). `payer` remembers the transfer begun to which a payment belongs.

### `TransactionTimeline`

The calls of `process()` that reserved their key, statement by statement, with the
events each statement records, the phase, the collector that `process` creates
once, and the attempts that share it. What other transactions see changes at
`Commit` only.

## 4. Runs

Two kinds: runs that TLC must finish without an error, and runs in which TLC must
find that the code does not do what a comment says (section 6).

| Run | Question | Instance |
|---|---|---|
| `engine_faults` | do the tables stay right when everything around them fails, and when may two calls of one key hear different verdicts? | 3 calls, 2 of them one key, all settling one money request; one attempt each; all faults; `RememberingSpec` |
| `engine_contention` | is what is read under the lock what is written, and are reservations never spent? | a request, its retry, and a transfer back over the same two wallets; two attempts; freezes and reservations; no faults |
| `engine_progress` | does every call end, is every claim lifted? | two reciprocal transfers; two attempts; all faults; `FairSpec` |
| `money_requests` | does money move only for accepted requests, and does every acceptance come to something? | one request asked for twice, two accepts under two keys, one decline, an expiry, a top-up, freezes of the payer; all faults; `FairSpec` |
| `pots` | does the pot's row tell the truth, however late it is written? | a contribution, its retry, a second one, two payouts; target = both contributions; all faults, freezes of the contributor |
| `envelopes` | is what envelopes hold always withheld, and there? | two creates, two reservations, a release and a removal; transfers of 1 each way; balance 0 to 3 |
| `sending` | can a payment or a release pass its gate without proof, does guessing end? | three sends under one key with two amounts above the threshold, two unfreezes, two answers, a freeze; two wrong answers end in review (three in the code); all faults |
| `redis_layer` | how stale is a balance, does the window hold, does the circuit close? | one process; a balance read against a transfer; two requests; a window of two ticks, a clock of four; one outage; `FairLayerSpec` |
| `accounts` | are the books right, is money issued once, are accounts distinct? | three registrations, two with one phone and two with one e-mail; two seeds of one and two users; a transfer and a login |
| `web` | does the tab show what it says, and pay once? | two users; three pages mounted; three loads; two transfers begun, three requests posted; a small and a large amount; all faults |
| `pot_money_stranded`, `timeline_disagrees` | section 6 | instances as small as those above |

Why these bounds are enough to be interesting. Every conflict in the engine is
between two calls, on a wallet, a key or an origin; the third call is there so that
a call may come after two others have met (a replay of a retry, a claim released
and taken again). Two wallets make every transfer conflict with every other, in
both directions, and with `Opening` 2 and 0 the order of the calls decides which
of them has enough. `MaxAttempts` is 2 where contention is the question (a first
attempt and a last one), and 1 where faults are (a failed attempt is there a
fault). Envelopes reserve 0 or 1, so a reservation may make a payment just fail.
Amounts are 1 and 2: the code compares and adds them only. In `money_requests`
the payer opens without the money, so a settlement may fail, be given back, and
succeed. In `pots` the contributions reach the target exactly. In `envelopes` the balance
suffices for one of the two reservations or for both, depending on the transfers.

In `sending` three calls share a key: two of one amount and one of another, so an
answer given for one amount may be tried on the other, and either may be the one
that pays; two wrong answers, spread over two challenges and counted at once, are
the smallest case in which each may count before the other. The amounts are chosen around
`LARGE_AMOUNT_POISHA` and the shares of the balance, so that one rule, two rules, and the
score that blocks all occur; the signals that count earlier payments are there kept at their
lowest, and the idle days take both sides of their threshold. In `redis_layer` a
clock of four ticks has two whole windows and the beginning of a third: a script that
was sent in the first may run in the second, and the second is weighted with the
first and forgets it; a TTL of one tick ends within them. In `accounts` each
conflict that two unique indexes allow occurs, and every order of two seeds with
registrations. In `web` three mounts are a page, another user's page and a third
that answers to both may reach; with two transfers begun and three requests, one
of them is retried.

Symmetry is used where calls or users are interchangeable, and no liveness is asked: in
`engine_faults` (the two calls of one key, which carry the same command), in `sending` (the two equal sends, the unfreezes, the answers) and in `web` (the two users
with their tokens).

Each property has a mutant: a plausible bug in one definition (an unlocked read,
a dropped index, an unconditional update), named `<Definition>_<Bug>` beside it,
under which TLC finds the property violated in the same run.

`CHECK_DEADLOCK FALSE` everywhere: calls are finite, and the system stops when all
have been answered.

**Fairness.** `FairSpec` has weak fairness of what a running server does by
itself: `CallStep(r)` for each call that has begun (a Node.js process keeps
running its handlers; PostgreSQL ends a blocked transaction at its lock timeout,
which is `Contention`, one of the steps), `ExpireClaim(k)` (Redis expires keys; no
property needs the same of `ExpireAnswer`),
and in `MoneyRequests` `Proceed(c)` for each response. Arrivals, freezes, faults
and crashes are never forced. `EveryCallEnds` excuses a crashed call; so does
`AcceptanceIsSettledOrGivenBack`, together with a claim whose answer was lost and a
compensation that failed. Nothing in the program cures those three: no sweep looks for
ACCEPTED requests without a settlement.

In `RedisLayer`, `FairLayerSpec` has weak fairness of `Recover` (the server comes back),
`CoolDown` (a clock) and `Ping` (the orchestrator calls the health endpoint for
ever). The probe is needed: without traffic a circuit that has opened stays open,
as `isAvailable` alone looks at the cooldown. User traffic is not forced.
`CircuitsClose` says that once the server is up for good every circuit is, from some
moment on, closed for good; while the server comes and goes a reset of `isAvailable`
that the next command undoes would not be worth a property.

## 5. Proofs

`tlapm` checks `TransferEngineTheorems`, `MoneyRequestTheorems`, `PotTheorems`,
`EnvelopeTheorems`, `SendMoneyTheorems` (whose second half is about `RedisLayer`),
`AccountsTheorems`, `SendPageTheorems` and `SumTheorems` with no step left out.

`SumTheorems` is what the theorems on books, pots and envelopes share. The models add up
columns with `MapThenSumSet`, which is defined by recursion; what such a
sum is for the empty set, and what one element adds to it (`SumEmpty`, `SumAdd`), is
proved for every finite set and every function of integers, and with it how two sums
compare (`SumExcept`, `SumOfTransfer`, `SumOfSubset`, `SumOfSums`). The usual route,
the induction theorem of the library, is closed, because it takes the property as a
parameter that is an operator. The lemmas go by a minimal counterexample instead: among
the subsets of a finite set for which the fact is wrong there would be a smallest one
(`Minimal`), and a set of subsets is an ordinary parameter. Sums are over finite sets:
of pots and envelopes that is assumed; the ledger of the engine is finite as it grows
by two postings at a time.

### The engine

The theorems hold for every set of calls, keys and wallets, every
bound and every choice of `Faults`, from the named assumptions of
`TransferEngine`: commands are total functions into their types
(`CommandAssumption`), wallet ids are totally ordered and opening balances are
natural numbers (`WalletAssumption`), `MaxAttempts` is positive and `Faults` are
known ones (`PolicyAssumption`). `EngineIsAtomic` and the step lemmas use no more.

| Theorem | Property |
|---|---|
| `TypeCorrect` | `TypeOK` |
| `InvariantHolds` | `IInv` |
| `NoDoubleProcessing` | `OneRowPerKey` |
| `NoDoubleSettlement` | `OneSettlementPerOrigin` |
| `LedgerIsDoubleEntry` | `RowsMatchLedger` |
| `ReservationsHold` | `ReservedWithinBalance` |
| `AnswersStayTrue` | `AnswersAreTrue` |
| `BalancesNeverDrift` | `NoBalanceDrift` |
| `VerdictsAgreeWhileRemembered` | `VerdictsAgree`, of `RememberingSpec` |
| `BalancesArePosted` | `BalanceChangesArePosted` |
| `PayersAreActive` | `OnlyActiveWalletsPay` |
| `HistoryStands` | `HistoryIsAppendOnly` |
| `EngineIsAtomic` | `ImplementsAtomicTransfer` |

**The argument.** The properties speak of committed tables, and none is inductive:
a call that is about to commit may be anywhere. `IInv` adds what an open
transaction relies on between its statements:

- `OwnersAreLocking`, `LockedPairsAreOwned`: who is past `lockForUpdate` owns both
  rows, and nobody else owns any;
- `SnapshotsAreCurrent`: hence what was read with the lock is still the row, which
  is why `balance_after`, computed from the snapshot, is the balance although the
  UPDATE is relative;
- `DecisionsStand`: hence the outcome of the conditional debit is still the one it
  would have at the commit, which is the instant at which the abstract
  specification decides the key;
- `KeysAreExclusive`, `OriginsAreExclusive`: the unique indexes, over committed
  and uncommitted rows together;
- `AttemptsAreValidated`: what validation established and nothing can change;
- `LedgerIsExplained`, `RecordsAreTrue`: the tables, and Redis where it says
  COMPLETED.

The first half of `TransferEngineTheorems` proves `TypeOK` and one preservation lemma
per conjunct and group of actions, and puts them together (`InitialInvariant`,
`InductiveStep`, `InvariantHolds`); the action properties follow from the invariant.
For the refinement, `CommitDecides` shows that a commit is `Pay` or `Decline` of the
abstract specification and `AtomicStep` that every other step is `Hold`, `Regulate` or
a stutter. Three properties need more than `IInv`:

- *Answers.* COMPLETED answers are true because records that say so are
  (`RecordsAreTrue`). FAILED is harder, for most rejections leave no row, and a
  transaction without a row might still get one. `AnswerInv` says that a row is that of
  a call whose transaction has ended (`RowsHaveEnded`), and that whatever Redis or an
  answer calls FAILED has ended too, and not with a COMPLETED row (`FailuresAreTrue`). A
  transaction that has ended does not begin again (`TransactionsEnd`), so what is once
  true of it stays true, in whatever order the unconditional writes reach Redis.
- *No drift.* `BalancesReconcile`: each balance is its opening and the sum of its
  postings. A commit adds two postings that no other has (`PublishReconciles`): by
  `LedgerIsExplained`, a call whose transaction is open has none.
- *Verdicts.* `VerdictInv` says of every key that is not `forgotten`: the one call at
  work on it holds its claim, a row of it was written by a call that is past its commit,
  and a verdict that was given is what the record keeps, or what the giver's own claim
  keeps others from deciding again (`Remembered`). What other keys do
  leaves this alone (`RememberedFrame`), and of the steps of the key itself each either
  keeps it or is one by which tier 1 forgets (`Forgets`). No fault is excluded and
  nothing is assumed of the settlements: a fault that matters releases or loses the
  record, and the refusal of a second settlement by `unique(origin_request_id)`
  releases it too. `AnswerInv` is what remains true of the keys that are forgotten.

### Money requests

From `AskAssumption`, `ResponseAssumption` and `EngineAssumption`: total functions
into their types, sentinels that are none of the values they stand beside, and
unrelated transfers that use keys of their own.

| Theorem | Property |
|---|---|
| `RequestsAreTyped` | `TypeOK` |
| `SettlementsStand` | `SettledRequestsAreAccepted` |
| `SettlersAreAlone` | `OneSettlerAtATime` |
| `DecisionsStand` | `DecisionsAreFinal` |
| `AsksAgree` | `RetriedAsksAgree` |
| `AcceptancesArePaid` | `AcceptedAnswersAreSettled`, assuming `KeysAreOwn`: no key is used for two requests |

`ClaimInv` is inductive: besides the types, `ClaimsAreExclusive` (a call between
its compare-and-set and its answer is the only one there for its request, which is
ACCEPTED, and unsettled until that call has run its transfer) and
`SettledRequestsAreAccepted`. The exclusion survives a crash because a dead claim
leaves the request ACCEPTED, and a compensation because it asks, in its own WHERE,
whether a settlement exists. `PaymentInv` relates the answers to the engine's
table: a key of a response that is paid has settled the request of that response.
It is inductive only under `KeysAreOwn`, for a reused key replays the answer of the
transfer it was used for first; the code does not enforce `KeysAreOwn`, as a
client may send a key (the default, `money-request-<id>`, is the request's own).

### Pots

From `CallAssumption`, `RetryAssumption` and `PotAssumption`: keys and wallets are
finitely many, contributions and payouts have no key in common, the pot's wallet opens
empty (it is created with the pot, at zero), and a key that is sent again comes with
the same contribution, which is the contract of the page (`PotsPage.tsx:222-224`: a key
is "reused if that attempt is retried").

| Theorem | Property |
|---|---|
| `SettledPotsNamePayouts` | `SettledPotNamesItsPayout` |
| `FundedPotsReachedTheirTargets` | `FundedPotReachedItsTarget` |
| `BreakdownsMissOnlyTheUnbooked` | `BreakdownMissesOnlyTheUnbooked` |
| `PotsNeverGoBack` | `PotNeverGoesBack` |

`PotInv`: a call goes on to its bookkeeping only for a key that is paid; money only
moves, so no wallet has more than all had (`MoneyIsKept`, which is where the sum over
the wallets is needed: the payout, of a balance read earlier, is one of the orders its
key was declared with); the pot's balance is at most what paid contributions brought
(`PotIsReceived`), so a call that has read the target there has seen it
received; and what a member's row says is at least the sum of the keys that some call
has booked (`BookingsAreCounted`). What the bookkeeping was computed from only grows,
which is why it may be written late.

### Envelopes

From `CallAssumption` and `WalletAssumption`: commands are total, envelopes finitely
many.

| Theorem | Property |
|---|---|
| `EnvelopesStayCovered` | `EnvelopesAreCovered` |
| `ReleasesAlwaysFit` | `ReleasesFit` |
| `DriftNeedsDeletion` | `DriftOnlyByDeletion` |

`EnvelopeInv`: one call at most is past `lockForUpdate`, and it is the owner
(`OwnersAreAdjusting`); what it has written to the envelope's row is still possible
when it reaches the wallet (`MarkedRowsStand`); an envelope without a row holds nothing.
The wallet withholds what the envelopes hold *or more*: the deletion of an envelope that
has just been reserved on breaks the equality, and `DriftNeedsDeletion` says that no
other step does.

### Sending

From `SecurityAssumption`, `SendAssumption` and `PolicyAssumption`: the sets of
calls are disjoint, commands are total functions into their types, thresholds are
numbers, `NoCall` is none of the calls; for any number of calls and keys.

| Theorem | Property |
|---|---|
| `GatesHold` | `GateInv` |
| `LargePaymentsNeedAnAnswer` | `LargePaymentsAreAuthorised` |
| `RiskIsGrounded` | `RiskDecisionsAreGrounded` |
| `GuessersAreStopped` | `GuessingEndsInReview` |
| `WrongAnswersStop` | `WrongAnswerStopsTheWallet` |
| `ReleasesNeedProof` | `ReleasesAreProven` |

`GateInv` joins `SecurityInv` and `SendInv`. The argument for the large payments: a
call past its gate has a passed challenge for its own key and amount, a passed
challenge stays passed, and the engine pays a key by the command of a call that is
at it. For the guesses: the count of wrong answers grows by one step of a call that
afterwards counts, so the last one to store its answer counts them all; the
counting of a set that grows by one is where `FiniteSetTheorems` comes in, and why
`Releases` is finite. A rule that fired has positive points, and no rule has 90: the
score that blocks needs two.

### Accounts

From `AccountsAssumption`: the kinds of calls are disjoint, transfers and fixtures name
different transactions, tiers are prefixes of the fixture list, amounts are positive.

| Theorem | Property |
|---|---|
| `AccountsStayDistinct` | `AccountsAreDistinct` |
| `OpeningsAreIssuedOnlyOnce` | `OpeningsAreIssuedOnce` |
| `OnlySeedsMakeBooksDrift` | `DriftIsTheSeeds` |

`AccountsInv` says that committed and uncommitted rows together respect the
unique indexes (`HoldersAreDistinct`), that an account is there once its
transaction has committed, and that a refusal names a value that an account has.
`BooksInv` adds the books: nothing is posted for a registration before it commits, an
account has one opening, all postings net to zero, and each wallet is `Honest`: unless a
posting of a seed lies about its balance, the balance is the sum of its postings. It
holds of the genesis wallet, which registrations write with a value computed earlier,
because the row lock keeps that value current (`PostingsArePrepared`).

### The cache and the limiter

From `CacheAssumption`, `LimiterAssumption` and `BreakerAssumption`. `MaxDelay <= Parts`
says that a command does not outlive a window: the client gives a command up after one
second (`redis.config.ts:86`, `commandTimeoutMs`), the windows have 60 and 300.

| Theorem | Property |
|---|---|
| `ScreensAreRecent` | `ShownBalancesAreRecent` |
| `LimitSlides` | `SlidingWindowHolds` |

`CacheInv`: a fill is no older than `MaxDelay`, and an entry whose version has been
superseded was filled by a reader of that version, so it expires at most a TTL, its
jitter and one fill after the version ended, whether its deletion was lost or
overtaken. `LimiterInv`: a counter lives until its window has stopped to count, and
until then counts everyone it let through, so what a later script reads of it is not
too little. `SlidingWindowHolds` speaks of the sliding estimate only for a script that
runs in the window it was sent in: one that runs later still has the limit of its own
window, but the counter before that may have expired on its way.

### The tab

From `SessionAssumption` and `SendPageAssumption`, for any number of tokens, users,
filters, pages, loads, transfers begun and requests.

| Theorem | Property |
|---|---|
| `TabHolds` | `TabInv` |
| `ListsAreCurrent` | `ShownDataIsCurrent` |
| `AttemptsPayOnce` | `OnePaymentPerAttempt` |
| `CompletionsAreOwn` | `CompletedIsThisTransfer` |

`TabInv`: a load that the page still waits for was asked by this mount with this
filter, and with this session unless a late login overtook it
(`AwaitedLoadsAreCurrent`); a key stands for one transfer begun, also of pages that
are gone (`KeysAreTheAttempts`); a request that the page waits for is its own
(`AwaitedRequestsAreCurrent`); and what a key paid is what it stands for
(`PaymentsAreTheAttempts`).

### The timeline

`TimelinesEndInTheOutcome`: only a transfer with a row has a timeline, and the last
event of it is the outcome of that row. `TransactionTimeline` has state of its own, so
`TransferEngineTheorems` takes it by INSTANCE, as `Timeline`. The invariant `Sound`
follows the outcome from the statement that records it to the commit. Together with
`timeline_disagrees` this says how far a timeline may be trusted: its end, and not
what precedes it.

### Only model-checked

Liveness (`EveryCallEnds`, `EveryClaimIsLifted`, `AcceptanceIsSettledOrGivenBack`,
`CircuitsClose`): temporal reasoning with fairness needs ENABLED, which is beyond this
prover. The two violation runs are counterexamples and need no proof. That the answers
of `process()` are those of `ProcessCall` is proved as far as section 3 says.

## 6. Disagreements found

Each is a run in which TLC finds the behaviour.

| Run | The repository says | The code does |
|---|---|---|
| `pot_money_stranded` | `pot.use-cases.ts:283`: settle "Pays the pot out to its creator and closes it." | A contribution that passed the open check before the payout read the balance, and commits after, stays in a SETTLED pot. Later payouts throw `PotClosedError`. |
| `timeline_disagrees` | `transaction-event.service.ts:111-114`: "a transfer that committed always has its events, and one that rolled back has none. A timeline that could disagree with the ledger would be worse than no timeline" | The collector is created once per call (`transaction.processor.ts:149`) and shared by the attempts of `withRetry`. An attempt that reached TRANSACTION_COMPLETED and was rolled back leaves its events to the one that commits; when that one is refused, the timeline tells of a completion. |

Seen in the models or while writing them, and not made into runs.

Engine:
- `transaction-lock.service.ts:89-90` says that with locks in id order "No cycle can
  form". The INSERT before it share-locks both wallets through its foreign keys, so
  two reciprocal transfers may block each other's FOR UPDATE; PostgreSQL aborts one,
  `withRetry` repeats it, and `EveryCallEnds` holds.
- `transaction.types.ts:56` says of a duplicate that the original result is returned;
  validation runs before the index sees the key, so without its Redis record a
  retry of a completed transfer from a wallet frozen since is answered FAILED.
- `transaction.processor.ts:73-76` says that a rejection is committed as FAILED; only
  insufficient funds leaves a row. The others are known to Redis alone, which is why
  `refused` is a variable of `ProcessCall`. Redis keeps them for 24 h by design, so a
  client that retries later may see the same key COMPLETED.
- `LEGAL_TRANSITIONS` has REVERSING to FAILED, which maps to COMPLETED to FAILED, which
  the trigger refuses. No code reverses anything yet.
- An idempotency key reused for a second money request replays the first transfer's
  answer: no fingerprint of the command is compared.

Envelopes, pots and requests:
- `envelope.use-cases.ts:233` says that money is never stranded; a reservation that
  commits between remove's release and its delete goes with the row, and the wallet
  withholds the money for good (`DriftOnlyByDeletion`: in no other way). Two
  concurrent creates may pass the limit of twelve, or the case-insensitive name.
- A payout is one transfer: a pot above `MAX_TRANSFER_POISHA` is refused for ever. A
  retried contribution is answered from the first execution and recorded again, which
  `hardening-safety.sql:163-164` says should not happen.
- A crash between claim and settlement, or a claim whose acknowledgement is lost (it
  is outside the `try`, `money-request.use-cases.ts:260`), leaves a request ACCEPTED and
  unpaid.

Sending:
- A retry of an executed payment may be asked a challenge, because the balance against
  which the amount is large has dropped by that very payment.
- `previousStatus` of a review event is a stale read.
- An unfreeze pass, "single-use" by `security-question.service.ts:256`, is never
  consumed: `consumeChallenge` (354-356) has no callers, and its condition on PENDING
  matches no PASSED row.

Redis:
- A request of an old window that fails late overwrites the fallback counter
  (`redis-rate-limiter.adapter.ts:102-104`).
- After the cooldown all traffic passes, where the comment of `isAvailable` speaks of
  one probe.
- `redis-cache.adapter.ts:69-70` says that after an invalidation a miss reads the
  truth; a fill that began earlier may write the old balance after the deletion.
  `ShownBalancesAreRecent` bounds how long it stays. The invalidation in wallet security
  deletes a key that nothing writes.

Accounts:
- `seed.ts:276` calls the issuance idempotent; a resumed or repeated seed starts from
  a genesis balance of zero in memory (272) and overwrites the row, and resets
  what seeded accounts have received. `DriftIsTheSeeds` says that nothing else drifts.

Web:
- A key kept for an edited transfer after a lost answer shows the first one's
  completion for the new intent. A dialog may show the challenge of an earlier amount; the
  first 428 does not open it, as the handler closes over the previous error.
- The pots and money-request pages mint a key per press, so a retried contribution
  pays twice, although `PotsPage.tsx:222-224` says it cannot.
- A 401 of an old token clears a newer session; a login whose form was left replaces
  or clears the session under the page shown (the exception that `overtaken` names).
- Where Redis has forgotten a rejection, a transfer shown FAILED may be paid by an
  earlier request that was lost on the way.

Recovery:
- `sweepStalePending` and `reconcile` have no callers. Comments
  (`transaction-recovery.service.ts:62-64`, `hardening.sql:362-363`) say that the reconciler
  freezes a drifting wallet; nothing does.

## 7. What is not modelled

- **Time.** Outside `RedisLayer`, TTLs and expiries are actions that may happen;
  durations are not compared, except the two windows of a challenge (`age`).
- **PostgreSQL** is its row locks, unique indexes, foreign keys and atomic
  commits, as the code relies on them. Isolation is Read Committed. A deadlock is
  ended by `Contention`, without naming the victim.
- **Redis** is a map that may fail, before or after applying a write, and forget.
- **Money** is a natural number: the code uses bigint, which does not overflow,
  and one currency.
- **The audit log** is append-only and nothing in the program reads it back.
- **History, lists, previews and the profile** are queries; the one list that is
  modelled is the page's, for its asynchrony.
- **Domain values** (`money.ts`, `domain-errors.ts`): what the retry policy and the
  HTTP statuses read of the error table is in `TransferEngine` and `SendPage`.
- **Recovery** is dead code (section 6).
- **Authentication**: hashing and signing are library calls; what remains of it is
  a login that finds an account (`Accounts`) and a token that expires (`ClientSession`).
- **HTTP**: parsing, validation and wiring; the codes that the send page branches on
  are in `SendPage`.
- **The other pages** (pots, envelopes, money requests, security, profile) follow the
  pattern of the list page, with forms that post once; the two that mint their key
  per press are described in section 6 and would need a model of their own over
  `Pots` and `MoneyRequests`.
- **The seed** after the openings (sample traffic of the development tier) and its reset,
  which truncates the tables.
- **`peek` and `reset`** of the limiter and **`getOrLoad`** of the cache have no callers.
