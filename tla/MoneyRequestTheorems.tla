-------------------------- MODULE MoneyRequestTheorems --------------------------
(***************************************************************************)
(* Safety of money requests, for every set of calls and every choice of    *)
(* faults.  What makes it inductive is the claim: a call between its       *)
(* compare-and-set and its answer is the only one there for its request,   *)
(* and the request is ACCEPTED all the while.                              *)
(***************************************************************************)
EXTENDS MoneyRequests, TLAPS

Claiming == {"settling", "answering"}

\* A call that has claimed its request holds the claim alone, and until it has
\* run its transfer the request is unsettled.
ClaimsAreExclusive ==
  \A c \in Responses :
    pc[c] \in Claiming =>
      /\ status[Request[c]] = "ACCEPTED"
      /\ pc[c] = "settling" => settled[Request[c]] = NoKey
      /\ \A d \in Responses : pc[d] \in Claiming /\ Request[d] = Request[c] => d = c

\* The inductive invariant.
ClaimInv == TypeOK /\ ClaimsAreExclusive /\ SettledRequestsAreAccepted

EngineTypeOK ==
  /\ verdict \in [Keys -> {"open", "paid", "declined"}]
  /\ funds \in [Wallets -> Int] /\ held \in [Wallets -> Int]
  /\ usable \subseteq Wallets /\ refused \subseteq Keys

OrderType == [from : Wallets, to : Wallets, amount : Nat]

-----------------------------------------------------------------------------
(* Types *)

\* An order of a response has the type of an order.
LEMMA OrderTyped == \A c \in Responses : Order(c) \in OrderType
BY AskAssumption, ResponseAssumption DEF Order, OrderType

\* A movement of the engine keeps the types of its tables.
LEMMA PayTyped ==
  ASSUME EngineTypeOK, NEW k \in Keys, NEW o \in OrderType, Engine!Pay(k, o)
  PROVE  /\ verdict' \in [Keys -> {"open", "paid", "declined"}]
         /\ funds' \in [Wallets -> Int] /\ held' \in [Wallets -> Int]
         /\ usable' \subseteq Wallets
BY DEF EngineTypeOK, OrderType, Engine!Pay, Engine!Decide

\* Whatever process() does and answers, the types of the engine's tables hold.
LEMMA ProcessTyped ==
  ASSUME EngineTypeOK, NEW k \in Keys, NEW o \in OrderType, NEW answer,
         \/ Engine!Pays(k, o, answer) \/ Engine!Declines(k, o, answer)
         \/ Engine!Replays(k, answer) \/ Engine!Rejects(k, o, answer)
         \/ Engine!Breaks(answer)
  PROVE  EngineTypeOK'
<1>1. CASE Engine!Pays(k, o, answer)
  BY <1>1, PayTyped DEF EngineTypeOK, Engine!Pays
<1>2. CASE Engine!Declines(k, o, answer)
  BY <1>2 DEF EngineTypeOK, Engine!Declines, Engine!Decline, Engine!Decide
<1>3. CASE Engine!Replays(k, answer)
  BY <1>3 DEF EngineTypeOK, Engine!Replays, Engine!table
<1>4. CASE Engine!Rejects(k, o, answer)
  BY <1>4 DEF EngineTypeOK, Engine!Rejects, Engine!table
<1>5. CASE Engine!Breaks(answer)
  BY <1>5 DEF EngineTypeOK, Engine!Breaks, Engine!table
<1> QED
  BY <1>1, <1>2, <1>3, <1>4, <1>5

\* What goes on elsewhere keeps them too.
LEMMA ElsewhereTyped ==
  ASSUME EngineTypeOK, Elsewhere
  PROVE  EngineTypeOK'
<1>1. ASSUME NEW k \in DOMAIN Direct, Engine!Pay(k, Direct[k]), UNCHANGED refused
      PROVE  EngineTypeOK'
  <2>1. k \in Keys /\ Direct[k] \in OrderType
    BY EngineAssumption DEF OrderType
  <2> QED
    BY <1>1, <2>1, PayTyped DEF EngineTypeOK
<1>2. CASE Engine!Regulate /\ UNCHANGED refused
  BY <1>2 DEF EngineTypeOK, Engine!Regulate
<1>3. ASSUME NEW k \in Keys, Engine!Forget(k)
      PROVE  EngineTypeOK'
  BY <1>3 DEF EngineTypeOK, Engine!Forget, Engine!table
<1> QED
  BY <1>1, <1>2, <1>3 DEF Elsewhere

\* The variables of the feature itself.
RequestTypeOK ==
  /\ status \in [Asks -> RequestStatuses]
  /\ settled \in [Asks -> Keys \cup {NoKey}]
  /\ overdue \subseteq Asks
  /\ answered \in [Asks -> Asks \cup {NoAsk, Refused}]
  /\ pc \in [Responses -> Stages]
  /\ outcome \in [Responses -> Engine!Answers \cup {"none"}]
  /\ reply \in [Responses -> Replies]

LEMMA TypesSplit == TypeOK <=> EngineTypeOK /\ RequestTypeOK
BY DEF TypeOK, EngineTypeOK, RequestTypeOK

LEMMA InitTyped == Init => TypeOK
BY EngineAssumption, AskAssumption, ResponseAssumption
   DEF Init, Engine!Init, TypeOK, RequestStatuses, Stages, Replies

\* Every step keeps the types.
LEMMA StepTyped == TypeOK /\ [Next]_vars => TypeOK'
<1> SUFFICES ASSUME TypeOK, [Next]_vars
             PROVE  TypeOK'
  OBVIOUS
<1> USE AskAssumption, ResponseAssumption
<1>1. EngineTypeOK /\ RequestTypeOK
  BY TypesSplit
<1>2. ASSUME NEW m \in Asks, Create(m)
      PROVE  TypeOK'
  BY <1>1, <1>2 DEF Create, Existing, EngineTypeOK, RequestTypeOK, TypeOK,
     RequestStatuses, engine, response
<1>3. ASSUME NEW m \in Asks, Lapse(m)
      PROVE  TypeOK'
  BY <1>1, <1>3 DEF Lapse, EngineTypeOK, RequestTypeOK, TypeOK, engine, response
<1>4. ASSUME NEW c \in Responses, Read(c)
      PROVE  TypeOK'
  BY <1>1, <1>4 DEF Read, Reply, Goto, EngineTypeOK, RequestTypeOK, TypeOK,
     engine, request, Stages, Replies
<1>5. ASSUME NEW c \in Responses, Expire(c) \/ Decline(c) \/ Claim(c)
      PROVE  TypeOK'
  BY <1>1, <1>5 DEF Expire, Decline, Claim, ResolveIfPending, Reply, Goto,
     EngineTypeOK, RequestTypeOK, TypeOK, engine, Stages, Replies, RequestStatuses
<1>5a. ASSUME NEW c \in Responses, LoseAnswer(c)
       PROVE  TypeOK'
  BY <1>1, <1>5a DEF LoseAnswer, Goto, EngineTypeOK, RequestTypeOK, TypeOK, engine,
     Stages, Replies, RequestStatuses
<1>6. ASSUME NEW c \in Responses, Limited(c) \/ Confirm(c) \/ Crash(c)
      PROVE  TypeOK'
  BY <1>1, <1>6 DEF Limited, Confirm, Crash, Reply, Goto, EngineTypeOK,
     RequestTypeOK, TypeOK, engine, request, Stages, Replies
<1>7. ASSUME NEW c \in Responses, Reopen(c)
      PROVE  TypeOK'
  BY <1>1, <1>7 DEF Reopen, Reopened, Goto, EngineTypeOK, RequestTypeOK, TypeOK,
     engine, Stages, Replies, RequestStatuses
<1>8. ASSUME NEW c \in Responses, Settle(c)
      PROVE  TypeOK'
  <2> DEFINE m == Request[c]
  <2>1. Order(c) \in OrderType /\ Key[c] \in Keys
    BY OrderTyped
  <2>2. EngineTypeOK'
    <3>1. CASE UNCHANGED engine
      BY <1>1, <3>1 DEF EngineTypeOK, engine
    <3>2. CASE ~UNCHANGED engine
      BY <1>1, <1>8, <2>1, <3>2, ProcessTyped DEF Settle
    <3> QED
      BY <3>1, <3>2
  <2>3. RequestTypeOK'
    BY <1>1, <1>8 DEF Settle, Goto, RequestTypeOK, Stages
  <2> QED
    BY <2>2, <2>3 DEF TypeOK, EngineTypeOK, RequestTypeOK
<1>9. CASE Elsewhere
  BY <1>1, <1>9, ElsewhereTyped DEF Elsewhere, EngineTypeOK, RequestTypeOK, TypeOK,
     request, response
<1>10. CASE UNCHANGED vars
  BY <1>10 DEF TypeOK, vars, engine, request, response
<1> QED
  BY <1>2, <1>3, <1>4, <1>5, <1>5a, <1>6, <1>7, <1>8, <1>9, <1>10 DEF Next, Proceed

\* Every reachable state of money requests is well typed.
THEOREM RequestsAreTyped == Spec => []TypeOK
<1> QED
  BY InitTyped, StepTyped, PTL DEF Spec

-----------------------------------------------------------------------------
(* The claim *)

LEMMA InitClaim == Init => ClaimInv
BY InitTyped DEF Init, ClaimInv, ClaimsAreExclusive, SettledRequestsAreAccepted, Claiming

\* Every step keeps the claims exclusive and the settlements accepted.
LEMMA StepClaim == ClaimInv /\ [Next]_vars => ClaimInv'
<1> SUFFICES ASSUME ClaimInv, [Next]_vars
             PROVE  ClaimsAreExclusive' /\ SettledRequestsAreAccepted'
  BY StepTyped DEF ClaimInv
<1> USE AskAssumption, ResponseAssumption
        DEF ClaimInv, ClaimsAreExclusive, SettledRequestsAreAccepted, Claiming
<1>1. RequestTypeOK
  BY TypesSplit
<1>2. ASSUME NEW m \in Asks, Create(m)
      PROVE  ClaimsAreExclusive' /\ SettledRequestsAreAccepted'
  BY <1>1, <1>2 DEF Create, Existing, RequestTypeOK, response
<1>3. ASSUME NEW m \in Asks, Lapse(m)
      PROVE  ClaimsAreExclusive' /\ SettledRequestsAreAccepted'
  BY <1>3 DEF Lapse, response
<1>4. ASSUME NEW c \in Responses, Read(c)
      PROVE  ClaimsAreExclusive' /\ SettledRequestsAreAccepted'
  BY <1>1, <1>4 DEF Read, Reply, Goto, RequestTypeOK, request
<1>5. ASSUME NEW c \in Responses, Expire(c) \/ Decline(c)
      PROVE  ClaimsAreExclusive' /\ SettledRequestsAreAccepted'
  BY <1>1, <1>5 DEF Expire, Decline, ResolveIfPending, Reply, Goto, RequestTypeOK
<1>6. ASSUME NEW c \in Responses, Claim(c)
      PROVE  ClaimsAreExclusive' /\ SettledRequestsAreAccepted'
  BY <1>1, <1>6 DEF Claim, ResolveIfPending, Reply, Goto, RequestTypeOK
<1>6a. ASSUME NEW c \in Responses, LoseAnswer(c)
       PROVE  ClaimsAreExclusive' /\ SettledRequestsAreAccepted'
  BY <1>1, <1>6a DEF LoseAnswer, Goto, RequestTypeOK
<1>7. ASSUME NEW c \in Responses, Limited(c) \/ Confirm(c) \/ Crash(c)
      PROVE  ClaimsAreExclusive' /\ SettledRequestsAreAccepted'
  BY <1>1, <1>7 DEF Limited, Confirm, Crash, Reply, Goto, RequestTypeOK, request
<1>8. ASSUME NEW c \in Responses, Reopen(c)
      PROVE  ClaimsAreExclusive' /\ SettledRequestsAreAccepted'
  BY <1>1, <1>8 DEF Reopen, Reopened, Goto, RequestTypeOK
<1>9. ASSUME NEW c \in Responses, Settle(c)
      PROVE  ClaimsAreExclusive' /\ SettledRequestsAreAccepted'
  <2>1. /\ pc[c] = "settling" /\ pc' = [pc EXCEPT ![c] = "answering"]
        /\ settled' = settled \/ settled' = [settled EXCEPT ![Request[c]] = Key[c]]
        /\ status' = status
    BY <1>9 DEF Settle, Goto
  <2> QED
    BY <1>1, <2>1 DEF RequestTypeOK
<1>10. CASE Elsewhere
  BY <1>10 DEF Elsewhere, request, response
<1>11. CASE UNCHANGED vars
  BY <1>11 DEF vars, request, response
<1> QED
  BY <1>2, <1>3, <1>4, <1>5, <1>6, <1>6a, <1>7, <1>8, <1>9, <1>10, <1>11 DEF Next, Proceed

\* The claims are exclusive in every reachable state.
THEOREM ClaimsHold == Spec => []ClaimInv
<1> QED
  BY InitClaim, StepClaim, PTL DEF Spec

\* A request whose money has moved is ACCEPTED, whatever became of the answer.
THEOREM SettlementsStand == Spec => []SettledRequestsAreAccepted
<1>1. ClaimInv => SettledRequestsAreAccepted
  BY DEF ClaimInv
<1> QED
  BY ClaimsHold, <1>1, PTL

\* One response at a time runs the transfer of a request, and unsettled.
THEOREM SettlersAreAlone == Spec => []OneSettlerAtATime
<1>1. ClaimInv => OneSettlerAtATime
  BY ResponseAssumption DEF ClaimInv, ClaimsAreExclusive, Claiming, OneSettlerAtATime
<1> QED
  BY ClaimsHold, <1>1, PTL

-----------------------------------------------------------------------------
(* Decisions *)

\* What a step may do to the decision on one request.
DecisionStep(m) ==
  /\ status[m] \in {"DECLINED", "EXPIRED"} => status'[m] = status[m]
  /\ status[m] = "ACCEPTED" /\ status'[m] # status[m] =>
       status'[m] = "REQUESTED" /\ settled'[m] = NoKey
  /\ settled[m] # NoKey => settled'[m] = settled[m]

\* A response disturbs no decision but by compare-and-set, by its settlement,
\* or by giving back what is not settled.
LEMMA ResponseStep ==
  ASSUME ClaimInv, NEW m \in Asks, NEW c \in Responses,
         Read(c) \/ Proceed(c) \/ LoseAnswer(c) \/ Crash(c)
  PROVE  DecisionStep(m)
<1> USE ResponseAssumption DEF DecisionStep
<1>1. RequestTypeOK
  BY TypesSplit DEF ClaimInv
<1>2. CASE Read(c) \/ Crash(c) \/ Limited(c) \/ Confirm(c)
  BY <1>2 DEF Read, Crash, Limited, Confirm, request
<1>3. CASE Expire(c) \/ Decline(c) \/ Claim(c) \/ LoseAnswer(c)
  BY <1>1, <1>3 DEF Expire, Decline, Claim, LoseAnswer, ResolveIfPending, RequestTypeOK
<1>4. CASE Settle(c)
  BY <1>1, <1>4 DEF Settle, RequestTypeOK, ClaimInv, ClaimsAreExclusive, Claiming
<1>5. CASE Reopen(c)
  BY <1>1, <1>5 DEF Reopen, Reopened, RequestTypeOK
<1> QED
  BY <1>2, <1>3, <1>4, <1>5 DEF Proceed

\* Decisions are final, except that an unsettled acceptance may be given back.
THEOREM DecisionsStand == Spec => DecisionsAreFinal
<1>1. ASSUME ClaimInv, Next, NEW m \in Asks
      PROVE  DecisionStep(m)
  <2>1. RequestTypeOK
    BY <1>1, TypesSplit DEF ClaimInv
  <2>2. CASE \E n \in Asks : Create(n) \/ Lapse(n)
    BY <2>1, <2>2 DEF Create, Lapse, Existing, RequestTypeOK, DecisionStep
  <2>3. CASE \E c \in Responses : Read(c) \/ Proceed(c) \/ LoseAnswer(c) \/ Crash(c)
    BY <1>1, <2>3, ResponseStep
  <2>4. CASE Elsewhere
    BY <2>4 DEF Elsewhere, request, DecisionStep
  <2> QED
    BY <1>1, <2>2, <2>3, <2>4 DEF Next
<1>2. ClaimInv /\ [Next]_vars => [\A m \in Asks : DecisionStep(m)]_vars
  BY <1>1
<1>3. ASSUME [\A m \in Asks : DecisionStep(m)]_vars
      PROVE  [\A m \in Asks :
                /\ status[m] \in {"DECLINED", "EXPIRED"} => status'[m] = status[m]
                /\ status[m] = "ACCEPTED" /\ status'[m] # status[m] =>
                     status'[m] = "REQUESTED" /\ settled'[m] = NoKey
                /\ settled[m] # NoKey => settled'[m] = settled[m]]_vars
  BY <1>3 DEF DecisionStep
<1> QED
  BY ClaimsHold, <1>2, <1>3, PTL DEF Spec, DecisionsAreFinal
-----------------------------------------------------------------------------
(* Retried requests *)

\* Creating keeps one request per key, and answers with one that agrees.
LEMMA StepAsks == TypeOK /\ RetriedAsksAgree /\ [Next]_vars => RetriedAsksAgree'
<1> SUFFICES ASSUME TypeOK, RetriedAsksAgree, [Next]_vars
             PROVE  RetriedAsksAgree'
  OBVIOUS
<1> USE AskAssumption, ResponseAssumption DEF RetriedAsksAgree
<1>1. RequestTypeOK
  BY TypesSplit
<1>2. ASSUME NEW m \in Asks, Create(m)
      PROVE  RetriedAsksAgree'
  BY <1>1, <1>2 DEF Create, Existing, SameContent, RequestTypeOK
<1>3. ASSUME NEW c \in Responses, Expire(c) \/ Decline(c) \/ Claim(c) \/ LoseAnswer(c)
      PROVE  RetriedAsksAgree'
  BY <1>1, <1>3 DEF Expire, Decline, Claim, LoseAnswer, ResolveIfPending, RequestTypeOK, SameContent
<1>4. ASSUME NEW c \in Responses, Reopen(c)
      PROVE  RetriedAsksAgree'
  BY <1>1, <1>4 DEF Reopen, Reopened, RequestTypeOK, SameContent
<1>5. ASSUME UNCHANGED <<status, answered>>
      PROVE  RetriedAsksAgree'
  BY <1>5 DEF SameContent
<1> QED
  BY <1>2, <1>3, <1>4, <1>5 DEF Next, Proceed, Lapse, Read, Limited, Settle, Confirm,
     Crash, Elsewhere, vars, request

\* A retried create puts one claim into the inbox, and its answer agrees.
THEOREM AsksAgree == Spec => []RetriedAsksAgree
<1>1. Init => RetriedAsksAgree
  BY AskAssumption DEF Init, RetriedAsksAgree
<1> QED
  BY <1>1, InitTyped, StepTyped, StepAsks, PTL DEF Spec

-----------------------------------------------------------------------------
(* Answers *)

\* No key is used for two requests.
KeysAreOwn == \A c, d \in Responses : Key[c] = Key[d] => Request[c] = Request[d]

\* What is paid under the key of a response has settled its request, and what
\* is answered COMPLETED is paid.
PaymentInv ==
  /\ \A c \in Responses :
       /\ verdict[Key[c]] = "paid" => settled[Request[c]] = Key[c]
       /\ outcome[c] = "COMPLETED" => verdict[Key[c]] = "paid"
       /\ reply[c] = "ACCEPTED" => outcome[c] = "COMPLETED" /\ pc[c] = "done"
  /\ \A m \in Asks : settled[m] # NoKey => verdict[settled[m]] = "paid"

\* A decided key stays decided, and only the orders of a key pay it.
LEMMA SettleOutcome ==
  ASSUME TypeOK, NEW c \in Responses, Settle(c)
  PROVE  /\ \A k \in Keys : verdict[k] = "paid" => verdict'[k] = "paid"
         /\ \A k \in Keys \ {Key[c]} : verdict'[k] = verdict[k]
         /\ outcome'[c] = "COMPLETED" => verdict'[Key[c]] = "paid"
         /\ verdict'[Key[c]] = "paid" /\ verdict[Key[c]] # "paid" =>
              settled[Request[c]] = NoKey /\ settled' = [settled EXCEPT ![Request[c]] = Key[c]]
         /\ settled' # settled =>
              /\ settled[Request[c]] = NoKey /\ verdict'[Key[c]] = "paid"
              /\ settled' = [settled EXCEPT ![Request[c]] = Key[c]]
         /\ \A d \in Responses \ {c} : outcome'[d] = outcome[d]
<1> DEFINE k == Key[c]
<1>0. k \in Keys /\ verdict \in [Keys -> {"open", "paid", "declined"}]
  BY ResponseAssumption DEF TypeOK
<1>1. PICK answer \in Engine!Answers :
        /\ outcome' = [outcome EXCEPT ![c] = answer]
        /\ \/ /\ settled[Request[c]] = NoKey
              /\ Engine!Pays(k, Order(c), answer)
              /\ settled' = [settled EXCEPT ![Request[c]] = k]
           \/ /\ answer = "ERROR"
              /\ UNCHANGED <<engine, settled>>
           \/ /\ \/ Engine!Declines(k, Order(c), answer)
                 \/ Engine!Replays(k, answer)
                 \/ Engine!Rejects(k, Order(c), answer)
                 \/ Engine!Breaks(answer)
              /\ UNCHANGED settled
  BY DEF Settle
<1>2. outcome'[c] = answer /\ \A d \in Responses \ {c} : outcome'[d] = outcome[d]
  BY <1>1 DEF TypeOK
<1>3. CASE Engine!Pays(k, Order(c), answer) /\ settled[Request[c]] = NoKey
           /\ settled' = [settled EXCEPT ![Request[c]] = k]
  BY <1>0, <1>2, <1>3 DEF Engine!Pays, Engine!Pay, Engine!Decide
<1>4. CASE answer = "ERROR" /\ UNCHANGED <<engine, settled>>
  BY <1>0, <1>2, <1>4 DEF engine
<1>5. CASE Engine!Declines(k, Order(c), answer) /\ UNCHANGED settled
  BY <1>0, <1>2, <1>5 DEF Engine!Declines, Engine!Decline, Engine!Decide, Engine!Acknowledged
<1>6. CASE Engine!Replays(k, answer) /\ UNCHANGED settled
  BY <1>0, <1>2, <1>6 DEF Engine!Replays, Engine!table
<1>7. CASE (Engine!Rejects(k, Order(c), answer) \/ Engine!Breaks(answer)) /\ UNCHANGED settled
  BY <1>0, <1>2, <1>7 DEF Engine!Rejects, Engine!Breaks, Engine!table
<1> QED
  BY <1>1, <1>3, <1>4, <1>5, <1>6, <1>7

\* What goes on elsewhere pays no key of a response, and takes nothing back.
LEMMA ElsewherePays ==
  ASSUME TypeOK, Elsewhere
  PROVE  /\ \A k \in Keys : verdict[k] = "paid" => verdict'[k] = "paid"
         /\ \A c \in Responses : verdict'[Key[c]] = verdict[Key[c]]
<1>1. verdict \in [Keys -> {"open", "paid", "declined"}]
  BY DEF TypeOK
<1>2. ASSUME NEW k \in DOMAIN Direct, Engine!Pay(k, Direct[k])
      PROVE  /\ \A j \in Keys : verdict[j] = "paid" => verdict'[j] = "paid"
             /\ \A c \in Responses : verdict'[Key[c]] = verdict[Key[c]]
  BY <1>1, <1>2, EngineAssumption, ResponseAssumption DEF Engine!Pay, Engine!Decide
<1>3. CASE UNCHANGED verdict
  BY <1>3
<1> QED
  BY <1>2, <1>3 DEF Elsewhere, Engine!Regulate, Engine!Forget, Engine!table

\* Every step keeps the payments in order.
LEMMA StepPayments ==
  ASSUME KeysAreOwn
  PROVE  TypeOK /\ PaymentInv /\ [Next]_vars => PaymentInv'
<1> SUFFICES ASSUME TypeOK, PaymentInv, [Next]_vars
             PROVE  PaymentInv'
  OBVIOUS
<1> USE ResponseAssumption DEF PaymentInv
<1>1. RequestTypeOK
  BY TypesSplit
<1>2. ASSUME NEW c \in Responses, Settle(c)
      PROVE  PaymentInv'
  <2>1. reply' = reply /\ pc[c] = "settling" /\ pc' = [pc EXCEPT ![c] = "answering"]
    BY <1>2 DEF Settle, Goto
  <2>2. \A d \in Responses : outcome'[d] = "COMPLETED" => verdict'[Key[d]] = "paid"
    BY <1>2, SettleOutcome
  <2>3. \A d \in Responses : verdict'[Key[d]] = "paid" => settled'[Request[d]] = Key[d]
    BY <1>1, <1>2, SettleOutcome DEF KeysAreOwn, RequestTypeOK
  <2>4. \A m \in Asks : settled'[m] # NoKey => verdict'[settled'[m]] = "paid"
    BY <1>1, <1>2, SettleOutcome DEF RequestTypeOK
  <2>5. \A d \in Responses : reply'[d] = "ACCEPTED" => outcome'[d] = "COMPLETED" /\ pc'[d] = "done"
    <3> SUFFICES ASSUME NEW d \in Responses, reply[d] = "ACCEPTED"
                 PROVE  outcome'[d] = "COMPLETED" /\ pc'[d] = "done"
      BY <2>1
    <3>1. d # c
      BY <2>1
    <3>2. outcome'[d] = outcome[d]
      BY <1>2, <3>1, SettleOutcome
    <3> QED
      BY <1>1, <2>1, <3>1, <3>2 DEF RequestTypeOK
  <2> QED
    BY <2>2, <2>3, <2>4, <2>5
<1>3. CASE Elsewhere
  BY <1>1, <1>3, ElsewherePays DEF Elsewhere, request, response, RequestTypeOK
<1>4. ASSUME UNCHANGED <<verdict, settled, outcome>>,
             \A c \in Responses : reply'[c] = "ACCEPTED" =>
                \/ reply[c] = "ACCEPTED" /\ pc'[c] = pc[c]
                \/ outcome[c] = "COMPLETED" /\ pc'[c] = "done"
      PROVE  PaymentInv'
  BY <1>4
<1>5. ASSUME NEW c \in Responses, Confirm(c)
      PROVE  PaymentInv'
  BY <1>1, <1>4, <1>5 DEF Confirm, Reply, Goto, engine, request, RequestTypeOK
<1>6. ASSUME NEW c \in Responses,
             Read(c) \/ Expire(c) \/ Decline(c) \/ Limited(c) \/ Claim(c) \/ Reopen(c) \/ Crash(c)
      PROVE  PaymentInv'
  BY <1>1, <1>4, <1>6 DEF Read, Expire, Decline, Limited, Claim, Reopen, Crash,
     ResolveIfPending, Reply, Goto, engine, request, RequestTypeOK
<1>6a. ASSUME NEW c \in Responses, LoseAnswer(c)
       PROVE  PaymentInv'
  <2>1. /\ UNCHANGED <<verdict, settled, outcome>>
        /\ pc[c] # "done" /\ reply'[c] = "ERROR"
        /\ \A d \in Responses \ {c} : pc'[d] = pc[d] /\ reply'[d] = reply[d]
    BY <1>1, <1>6a DEF LoseAnswer, Goto, engine, RequestTypeOK
  <2> QED
    BY <1>4, <2>1
<1>7. ASSUME NEW m \in Asks, Create(m) \/ Lapse(m)
      PROVE  PaymentInv'
  BY <1>4, <1>7 DEF Create, Lapse, engine, response
<1>8. CASE UNCHANGED vars
  BY <1>4, <1>8 DEF vars, engine, request, response
<1> QED
  BY <1>2, <1>3, <1>5, <1>6, <1>6a, <1>7, <1>8 DEF Next, Proceed

\* An answer ACCEPTED is backed by a payment of this very request, for every
\* interleaving with other responses, faults and crashes, when no key is used
\* for two requests.
THEOREM AcceptancesArePaid ==
  ASSUME KeysAreOwn
  PROVE  Spec => []AcceptedAnswersAreSettled
<1>1. Init => PaymentInv
  BY ResponseAssumption DEF Init, PaymentInv, Engine!Init
<1>2. TypeOK /\ PaymentInv /\ [Next]_vars => PaymentInv'
  BY StepPayments
<1>3. TypeOK /\ PaymentInv => AcceptedAnswersAreSettled
  BY ResponseAssumption DEF PaymentInv, AcceptedAnswersAreSettled
<1> QED
  BY <1>1, <1>2, <1>3, InitTyped, StepTyped, PTL DEF Spec
=============================================================================
