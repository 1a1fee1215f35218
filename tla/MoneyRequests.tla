----------------------------- MODULE MoneyRequests -----------------------------
(***************************************************************************)
(* Money requests: CreateMoneyRequestUseCase, RespondToMoneyRequestUseCase *)
(* and the three statements of PrismaMoneyRequestRepository they issue.    *)
(*                                                                         *)
(* A request is a claim and holds no money.  To accept it is to take it    *)
(* with a compare-and-set, to run an ordinary transfer, and to give it     *)
(* back when the transfer fails or throws.  The three are separate, so     *)
(* other responses, the clock and a crash come in between, and a transfer  *)
(* that threw may have been committed.                                     *)
(*                                                                         *)
(* A member of Asks is one call of create; it mints one request id, so it  *)
(* also names the request it may insert.  A member of Responses is one     *)
(* call of respond.  A user is identified with the user's wallet.          *)
(***************************************************************************)
EXTENDS Integers, FiniteSets

CONSTANTS
  Asks,       \* calls of CreateMoneyRequestUseCase.execute
  AskKey,     \* AskKey[m]: (requester_user_id, idempotency_key) of the call
  Requester,  \* Requester[m], Payer[m], Sum[m]: who asks whom for how much
  Payer,
  Sum,
  Responses,  \* calls of RespondToMoneyRequestUseCase.execute
  Request,    \* Request[c]: the request that call c responds to
  Actor,      \* Actor[c]: the authenticated user
  Decision,   \* Decision[c]: "ACCEPT" or "DECLINE"
  Key,        \* Key[c]: the key of the transfer that call c would run
  Direct,     \* Direct[k]: the order of an unrelated transfer with key k
  Freezable,  \* the wallets that are frozen and unfrozen meanwhile
  MaxTransfer,
  Keys, Wallets, Opening, Faults,
  NoKey, NoAsk, Refused

\* "crash": the process of a call dies; "restore": the statement that gives a
\* request back fails; "ack": also the answer to a decision of a request is
\* lost; the others are those of ProcessCall.
FaultKinds == {"engine", "ack", "redis", "crash", "restore"}

ASSUME AskAssumption ==
  /\ Requester \in [Asks -> Wallets]
  /\ Payer \in [Asks -> Wallets]
  /\ Sum \in [Asks -> Nat]
  /\ {NoAsk, Refused} \cap Asks = {}
  /\ NoAsk # Refused

ASSUME ResponseAssumption ==
  /\ Request \in [Responses -> Asks]
  /\ Actor \in [Responses -> Wallets]
  /\ Decision \in [Responses -> {"ACCEPT", "DECLINE"}]
  /\ Key \in [Responses -> Keys]
  /\ NoKey \notin Keys

ASSUME EngineAssumption ==
  /\ DOMAIN Direct \subseteq Keys
  /\ Direct \in [DOMAIN Direct -> [from : Wallets, to : Wallets, amount : Nat]]
  /\ \A c \in Responses : Key[c] \notin DOMAIN Direct
  /\ Opening \in [Wallets -> Nat]
  /\ MaxTransfer \in Nat
  /\ Freezable \subseteq Wallets
  /\ Faults \subseteq FaultKinds

VARIABLES
  verdict, funds, held, usable, refused,   \* the engine: see ProcessCall
  status,    \* status[m]: the request's row, "ABSENT" before it is inserted
  settled,   \* settled[m]: the key whose COMPLETED row has origin m, or NoKey
  overdue,   \* the requests whose expires_at has passed
  answered,  \* answered[m]: the request that create call m answered with
  pc,        \* pc[c]: where response c is
  outcome,   \* outcome[c]: what process() answered c
  reply      \* reply[c]: what c answered

engine == <<verdict, funds, held, usable, refused>>
request == <<status, settled, overdue, answered>>
response == <<pc, outcome, reply>>
vars == <<engine, request, response>>

-----------------------------------------------------------------------------
(* The engine *)

\* The transfer of an accepted request.
Order(c) ==
  [from |-> Payer[Request[c]], to |-> Requester[Request[c]], amount |-> Sum[Request[c]]]

Orders ==
  [k \in Keys |-> IF k \in DOMAIN Direct THEN {Direct[k]}
                  ELSE {Order(c) : c \in {d \in Responses : Key[d] = k}}]

Engine == INSTANCE ProcessCall

-----------------------------------------------------------------------------
(* Types *)

RequestStatuses == {"ABSENT", "REQUESTED", "ACCEPTED", "DECLINED", "EXPIRED"}

Stages == {"new", "expiring", "declining", "claiming", "settling", "answering",
           "done", "stranded", "crashed"}

Replies == {"none", "ACCEPTED", "DECLINED", "REQUESTED", "ERROR"}

-----------------------------------------------------------------------------
(* Pieces of actions *)

Goto(c, stage) == pc' = [pc EXCEPT ![c] = stage]

Reply(c, answer) ==
  /\ Goto(c, "done")
  /\ reply' = [reply EXCEPT ![c] = answer]

SameContent(m, n) == Payer[m] = Payer[n] /\ Sum[m] = Sum[n]

\* Mutant: find, then update.
ResolveIfPending_Unconditional(c, decided, answer) ==
  /\ status' = [status EXCEPT ![Request[c]] = decided]
  /\ answer

\* resolveIfPending: UPDATE ... WHERE status = 'REQUESTED', then what follows
\* if a row was updated; otherwise the caller throws AlreadyResolved.
ResolveIfPending(c, decided, answer) ==
  \/ /\ status[Request[c]] = "REQUESTED"
     /\ status' = [status EXCEPT ![Request[c]] = decided]
     /\ answer
  \/ /\ status[Request[c]] # "REQUESTED"
     /\ Reply(c, "ERROR")
     /\ UNCHANGED status
-----------------------------------------------------------------------------
(* Creating a request *)

\* Mutant: no unique index on (requester_user_id, idempotency_key).
Existing_None(m) == {}

\* Requests that the unique index finds under the key of m.
Existing(m) == {n \in Asks : AskKey[n] = AskKey[m] /\ status[n] # "ABSENT"}

Create(m) ==
  /\ answered[m] = NoAsk
  /\ \/ /\ Sum[m] > 0 /\ Payer[m] # Requester[m] /\ Existing(m) = {}
        /\ status' = [status EXCEPT ![m] = "REQUESTED"]
        /\ answered' = [answered EXCEPT ![m] = m]
     \/ /\ Sum[m] > 0 /\ Payer[m] # Requester[m]
        /\ \E n \in Existing(m) :
             answered' = [answered EXCEPT ![m] = IF SameContent(m, n) THEN n ELSE Refused]
        /\ UNCHANGED status
     \/ \* rate limited, or an amount or a payer that is refused
        /\ answered' = [answered EXCEPT ![m] = Refused]
        /\ UNCHANGED status
  /\ UNCHANGED <<engine, settled, overdue, response>>

-----------------------------------------------------------------------------
(* Responding to a request *)

\* findById, and the checks on the row it returned.
Read(c) ==
  LET m == Request[c]
  IN  /\ pc[c] = "new"
      /\ IF status[m] # "REQUESTED" \/ Actor[c] # Payer[m]
         THEN Reply(c, "ERROR")
         ELSE /\ Goto(c, IF m \in overdue THEN "expiring"
                         ELSE IF Decision[c] = "ACCEPT" THEN "claiming" ELSE "declining")
              /\ UNCHANGED reply
      /\ UNCHANGED <<engine, request, outcome>>

Expire(c) ==
  /\ pc[c] = "expiring"
  /\ ResolveIfPending(c, "EXPIRED", Reply(c, "ERROR"))
  /\ UNCHANGED <<engine, settled, overdue, answered, outcome>>

Decline(c) ==
  /\ pc[c] = "declining"
  /\ ResolveIfPending(c, "DECLINED", Reply(c, "DECLINED"))
  /\ UNCHANGED <<engine, settled, overdue, answered, outcome>>

\* The rate limit of TRANSACTION stands between the read and the claim.
Limited(c) ==
  /\ pc[c] = "claiming"
  /\ Reply(c, "ERROR")
  /\ UNCHANGED <<engine, request, outcome>>

Claim(c) ==
  /\ pc[c] = "claiming"
  /\ ResolveIfPending(c, "ACCEPTED", Goto(c, "settling") /\ UNCHANGED reply)
  /\ UNCHANGED <<engine, settled, overdue, answered, outcome>>

\* process(), whose row is the settlement of the request if it completes.
\* A second settlement breaks unique(origin_request_id) and rolls back.
Settle(c) ==
  /\ pc[c] = "settling"
  /\ \E answer \in Engine!Answers :
       /\ outcome' = [outcome EXCEPT ![c] = answer]
       /\ \/ /\ settled[Request[c]] = NoKey
             /\ Engine!Pays(Key[c], Order(c), answer)
             /\ settled' = [settled EXCEPT ![Request[c]] = Key[c]]
          \/ /\ settled[Request[c]] # NoKey /\ answer = "ERROR"
             /\ UNCHANGED <<engine, settled>>
          \/ /\ \/ Engine!Declines(Key[c], Order(c), answer)
                \/ Engine!Replays(Key[c], answer)
                \/ Engine!Rejects(Key[c], Order(c), answer)
                \/ Engine!Breaks(answer)
             /\ UNCHANGED settled
  /\ Goto(c, "answering")
  /\ UNCHANGED <<status, overdue, answered, reply>>

\* Mutant: an answer FAILED is not told from COMPLETED.
Confirm_AnyAnswer(c) ==
  /\ pc[c] = "answering" /\ outcome[c] \in {"COMPLETED", "FAILED"}
  /\ Reply(c, "ACCEPTED")
  /\ UNCHANGED <<engine, request, outcome>>

Confirm(c) ==
  /\ pc[c] = "answering" /\ outcome[c] = "COMPLETED"
  /\ Reply(c, "ACCEPTED")
  /\ UNCHANGED <<engine, request, outcome>>

\* Mutant: the request is given back without asking for a settlement.
Reopened_Unchecked(m) ==
  IF status[m] = "ACCEPTED" THEN [status EXCEPT ![m] = "REQUESTED"] ELSE status

\* restoreAfterFailedSettlement: UPDATE ... WHERE status = 'ACCEPTED' and no
\* settlement exists.
Reopened(m) ==
  IF status[m] = "ACCEPTED" /\ settled[m] = NoKey
  THEN [status EXCEPT ![m] = "REQUESTED"] ELSE status

\* Mutant: a thrown error leaves the claim in place.
Reopen_OnFailedOnly(c) ==
  /\ pc[c] = "answering" /\ outcome[c] \in {"FAILED", "ERROR"}
  /\ status' = IF outcome[c] = "FAILED" THEN Reopened(Request[c]) ELSE status
  /\ Reply(c, IF outcome[c] = "FAILED" THEN "REQUESTED" ELSE "ERROR")
  /\ UNCHANGED <<engine, settled, overdue, answered, outcome>>

\* The transfer failed or threw: restoreToPending, whose own error is
\* swallowed, and the answer.
Reopen(c) ==
  /\ pc[c] = "answering" /\ outcome[c] \in {"FAILED", "ERROR"}
  /\ reply' = [reply EXCEPT ![c] = IF outcome[c] = "FAILED" THEN "REQUESTED" ELSE "ERROR"]
  /\ \/ status' = Reopened(Request[c]) /\ Goto(c, "done")
     \/ "restore" \in Faults /\ UNCHANGED status /\ Goto(c, "stranded")
  /\ UNCHANGED <<engine, settled, overdue, answered, outcome>>

-----------------------------------------------------------------------------
(* The environment *)

\* The statement of resolveIfPending is applied and its answer is lost with the
\* connection.  The claim stands outside the try, so nothing gives it back.
LoseAnswer(c) ==
  /\ "ack" \in Faults
  /\ status[Request[c]] = "REQUESTED"
  /\ \E decided \in {"EXPIRED", "DECLINED", "ACCEPTED"} :
       /\ pc[c] = CASE decided = "EXPIRED" -> "expiring"
                    [] decided = "DECLINED" -> "declining"
                    [] decided = "ACCEPTED" -> "claiming"
       /\ status' = [status EXCEPT ![Request[c]] = decided]
       /\ Goto(c, IF decided = "ACCEPTED" THEN "stranded" ELSE "done")
  /\ reply' = [reply EXCEPT ![c] = "ERROR"]
  /\ UNCHANGED <<engine, settled, overdue, answered, outcome>>

Crash(c) ==
  /\ "crash" \in Faults
  /\ pc[c] \notin {"new", "done", "stranded", "crashed"}
  /\ Goto(c, "crashed")
  /\ UNCHANGED <<engine, request, outcome, reply>>

\* expires_at passes.
Lapse(m) ==
  /\ status[m] # "ABSENT" /\ m \notin overdue
  /\ overdue' = overdue \cup {m}
  /\ UNCHANGED <<engine, status, settled, answered, response>>

\* Everything else that goes on in the tables.
Elsewhere ==
  /\ \/ \E k \in DOMAIN Direct : Engine!Pay(k, Direct[k]) /\ UNCHANGED refused
     \/ Engine!Regulate /\ Wallets \ Freezable \subseteq usable' /\ UNCHANGED refused
     \/ \E k \in Keys : Engine!Forget(k)
  /\ UNCHANGED <<request, response>>

-----------------------------------------------------------------------------
Init ==
  /\ usable = Wallets
  /\ Engine!Init
  /\ refused = {}
  /\ status = [m \in Asks |-> "ABSENT"]
  /\ settled = [m \in Asks |-> NoKey]
  /\ overdue = {}
  /\ answered = [m \in Asks |-> NoAsk]
  /\ pc = [c \in Responses |-> "new"]
  /\ outcome = [c \in Responses |-> "none"]
  /\ reply = [c \in Responses |-> "none"]

\* What a response does once its client has sent it.
Proceed(c) ==
  \/ Expire(c) \/ Decline(c) \/ Limited(c) \/ Claim(c)
  \/ Settle(c) \/ Confirm(c) \/ Reopen(c)

Next ==
  \/ \E m \in Asks : Create(m) \/ Lapse(m)
  \/ \E c \in Responses : Read(c) \/ Proceed(c) \/ LoseAnswer(c) \/ Crash(c)
  \/ Elsewhere

Spec == Init /\ [][Next]_vars

\* A running server keeps executing its calls.
FairSpec == Spec /\ \A c \in Responses : WF_vars(Proceed(c))

-----------------------------------------------------------------------------
(* Safety *)

\* Every variable has its type.
TypeOK ==
  /\ verdict \in [Keys -> {"open", "paid", "declined"}]
  /\ funds \in [Wallets -> Int] /\ held \in [Wallets -> Int]
  /\ usable \subseteq Wallets /\ refused \subseteq Keys
  /\ status \in [Asks -> RequestStatuses]
  /\ settled \in [Asks -> Keys \cup {NoKey}]
  /\ overdue \subseteq Asks
  /\ answered \in [Asks -> Asks \cup {NoAsk, Refused}]
  /\ pc \in [Responses -> Stages]
  /\ outcome \in [Responses -> Engine!Answers \cup {"none"}]
  /\ reply \in [Responses -> Replies]

\* A request whose money has moved is ACCEPTED and stays so: whatever the
\* transfer answered, it is never given back, declined or expired.
SettledRequestsAreAccepted ==
  \A m \in Asks : settled[m] # NoKey => status[m] = "ACCEPTED"

\* "Only the winner reaches the engine": two responses never run a transfer
\* for one request at a time, and one that does finds the request unsettled.
\* The claim alone prevents a second settlement; unique(origin_request_id) is
\* the second line of defence and is never what refuses.
OneSettlerAtATime ==
  \A c, d \in Responses :
    pc[c] = "settling" =>
      /\ status[Request[c]] = "ACCEPTED" /\ settled[Request[c]] = NoKey
      /\ pc[d] \in {"settling", "answering"} /\ Request[d] = Request[c] => d = c

\* An answer ACCEPTED means that the requester has been paid for this very
\* request, provided that no key is used for two requests.
AcceptedAnswersAreSettled ==
  \A c \in Responses :
    reply[c] = "ACCEPTED" =>
      settled[Request[c]] # NoKey /\ verdict[settled[Request[c]]] = "paid"

\* Retried calls of create put one claim into the payer's inbox, and each is
\* answered with a request that asks for what it asked.
RetriedAsksAgree ==
  \A m, n \in Asks :
    /\ AskKey[m] = AskKey[n] /\ status[m] # "ABSENT" /\ status[n] # "ABSENT" => m = n
    /\ answered[m] = n => status[n] # "ABSENT" /\ SameContent(m, n)

-----------------------------------------------------------------------------
(* Action properties *)

\* A decision is final, except that an acceptance without a settlement may be
\* given back to the payer; nothing is settled that is not claimed.
DecisionsAreFinal ==
  [][\A m \in Asks :
       /\ status[m] \in {"DECLINED", "EXPIRED"} => status'[m] = status[m]
       /\ status[m] = "ACCEPTED" /\ status'[m] # status[m] =>
            status'[m] = "REQUESTED" /\ settled'[m] = NoKey
       /\ settled[m] # NoKey => settled'[m] = settled[m]]_vars

-----------------------------------------------------------------------------
(* Liveness, under FairSpec *)

\* An acceptance is settled or given back, unless the process that claimed it
\* died, the answer to its claim was lost, or the statement that gives it back
\* failed.
AcceptanceIsSettledOrGivenBack ==
  \A m \in Asks :
    status[m] = "ACCEPTED" ~>
      \/ settled[m] # NoKey
      \/ status[m] = "REQUESTED"
      \/ \E c \in Responses : Request[c] = m /\ pc[c] \in {"crashed", "stranded"}
=============================================================================
