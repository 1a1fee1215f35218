--------------------------- MODULE SendPageTheorems ---------------------------
(***************************************************************************)
(* Safety of the tab and of the send page, for every number of pages,      *)
(* requests and users.  What makes it inductive: the request that a page   *)
(* awaits was sent by this page, with the session, the filter or the key   *)
(* that the page still has; any other request has an older number.         *)
(***************************************************************************)
EXTENDS SendPage, TLAPS

-----------------------------------------------------------------------------
(* The invariant of the tab *)

ListType ==
  [filter : Filters, id : Nat, state : {"loading", "shown", "failed"},
   data : Contents \cup {Nothing}]

LoadType == [mount : Nat, id : Nat, token : Tokens, filter : Filters]

ClientTypes ==
  /\ session \in Tokens \cup {Nothing}
  /\ route \in Routes /\ (session = Nothing <=> route = "login")
  /\ mount \in Nat
  /\ list \in ListType
  /\ loads \subseteq LoadType

\* The load that the list awaits asks for what the list shows.
AwaitedLoadsAreCurrent ==
  \A l \in loads :
    /\ l.mount <= mount
    /\ route = "list" /\ l.mount = mount =>
         /\ l.id <= list.id
         /\ l.id = list.id =>
              l.filter = list.filter /\ (l.token = session \/ overtaken = mount)

ClientInv == ClientTypes /\ AwaitedLoadsAreCurrent /\ ShownDataIsCurrent

-----------------------------------------------------------------------------
(* The invariant of the page and of the server *)

Told == [code : Results \cup {"none", "ERROR", "UNAUTHENTICATED", "CHALLENGE"}, challenge : Nat]

FormType ==
  [step : {"compose", "confirm", "processing", "done"}, intent : Intents \cup {Unpaid},
   key : Nat, attempt : Nat, error : Told, seen : Told, result : Results \cup {"none"},
   dialog : Nat, waiting : Nat]

RequestType ==
  [number : Nat \ {0}, mount : Nat, token : Tokens \cup {Nothing}, key : Keys,
   intent : Intents \cup {Unpaid}, attempt : Nat, phase : {"sent", "processing", "answered"},
   open : BOOLEAN, answer : Told]

ChallengeType ==
  [key : Keys, amount : {Amount[i] : i \in Intents \cup {Unpaid}},
   status : {"PENDING", "PASSED", "FAILED"}]

PageTypes ==
  /\ form \in FormType
  /\ attempts \in 0..MaxAttempts /\ posted \in Nat
  /\ sends \subseteq RequestType
  /\ challenges \in Seq(ChallengeType)
  /\ verdict \in [Keys -> {"open", "paid", "declined"}]
  /\ payer \in [Keys -> Nat \cup {Unpaid}]

\* A transfer begun has the key that was minted when it began.
KeysAreTheAttempts ==
  /\ form.key = form.attempt
  /\ route = "send" => form.key \in 1..attempts
  /\ \A r \in sends : r.key = r.attempt

\* The request that the page awaits is of the transfer begun on it.
AwaitedRequestsAreCurrent ==
  \A r \in sends :
    /\ r.number <= posted
    /\ Awaits(r) => r.attempt = form.attempt

\* The row of a key is paid by the transfer that has the key, and so says who
\* was told.
PaymentsAreTheAttempts ==
  /\ \A k \in Keys : payer[k] # Unpaid => payer[k] = k
  /\ \A k \in Keys : verdict[k] = "paid" => payer[k] = k
  /\ \A r \in sends : r.answer.code = "COMPLETED" => verdict[r.key] = "paid"

PageInv ==
  /\ PageTypes /\ KeysAreTheAttempts /\ AwaitedRequestsAreCurrent /\ PaymentsAreTheAttempts
  /\ CompletedIsThisTransfer

\* The inductive invariant.
TabInv == ClientInv /\ PageInv

-----------------------------------------------------------------------------
(* The tab *)

\* A page just mounted awaits no load but its own.
LEMMA MountKept ==
  ASSUME ClientInv, NEW r \in Routes, NEW token \in Tokens \cup {Nothing}, NEW inFlight,
         inFlight \subseteq loads, Mount(r, token, inFlight), session' = token,
         token = Nothing <=> r = "login"
  PROVE  ClientInv'
<1> USE SessionAssumption DEF ClientInv, ClientTypes, Mount, Load, Routes
<1>1. ClientTypes'
  <2>1. CASE r = "list"
    <3>1. [mount |-> mount + 1, id |-> 1, token |-> token, filter |-> Unfiltered] \in LoadType
      BY <2>1 DEF LoadType
    <3>2. list' \in ListType
      BY <2>1 DEF ListType
    <3> QED
      BY <2>1, <3>1, <3>2
  <2>2. CASE r # "list"
    BY <2>2 DEF NoList, ListType
  <2> QED
    BY <2>1, <2>2
<1>2. \A l \in inFlight : l.mount \in Nat /\ l.mount <= mount
  BY DEF AwaitedLoadsAreCurrent, LoadType
<1>3. AwaitedLoadsAreCurrent'
  <2>1. CASE r = "list"
    BY <1>2, <2>1 DEF AwaitedLoadsAreCurrent
  <2>2. CASE r # "list"
    BY <1>2, <2>2 DEF AwaitedLoadsAreCurrent
  <2> QED
    BY <2>1, <2>2
<1>4. ShownDataIsCurrent'
  BY DEF ShownDataIsCurrent
<1> QED
  BY <1>1, <1>3, <1>4

\* Without a session the form is shown, and nothing of a list.
LEMMA ClearKept ==
  ASSUME ClientInv, ClearSession, mount' = mount, loads' \subseteq loads
  PROVE  ClientInv'
BY SessionAssumption DEF ClientInv, ClientTypes, ClearSession, Routes, NoList, ListType,
   AwaitedLoadsAreCurrent, ShownDataIsCurrent

LEMMA UntouchedKept ==
  ASSUME ClientInv, UNCHANGED <<session, route, mount, list, loads, overtaken>>
  PROVE  ClientInv'
BY DEF ClientInv, ClientTypes, AwaitedLoadsAreCurrent, ShownDataIsCurrent

LEMMA AskKept ==
  ASSUME ClientInv, NEW f \in Filters, Ask(f)
  PROVE  ClientInv'
<1> USE SessionAssumption DEF ClientInv, ClientTypes, Ask, Load, Routes
<1>1. list.id \in Nat /\ session \in Tokens
  BY DEF ListType
<1>2. ClientTypes'
  <2>1. [mount |-> mount, id |-> list.id + 1, token |-> session, filter |-> f] \in LoadType
    BY <1>1 DEF LoadType
  <2>2. list' \in ListType
    BY <1>1 DEF ListType
  <2> QED
    BY <2>1, <2>2
<1>3. \A l \in loads : l.id \in Nat /\ l.mount \in Nat
  BY DEF LoadType
<1>4. AwaitedLoadsAreCurrent'
  BY <1>1, <1>3 DEF AwaitedLoadsAreCurrent
<1>5. ShownDataIsCurrent'
  BY DEF ShownDataIsCurrent
<1> QED
  BY <1>2, <1>4, <1>5

LEMMA ReceiveListKept ==
  ASSUME ClientInv, NEW load \in loads, ReceiveList(load)
  PROVE  ClientInv'
<1> USE SessionAssumption DEF ClientInv, ClientTypes, ReceiveList
<1>1. CASE Unauthorised(load)
  BY <1>1, ClearKept DEF Unauthorised
<1>2. ASSUME NEW state \in {"shown", "failed"}, NEW data \in Contents \cup {Nothing},
             Settle(load, state, data), UNCHANGED <<session, route>>,
             state = "shown" =>
               data.user = Owner[load.token] /\ data.filter = load.filter
      PROVE  ClientInv'
  <2>1. CASE Awaited(load)
    <3>1. list' = [list EXCEPT !.state = state, !.data = data] /\ list' \in ListType
      BY <1>2, <2>1 DEF Settle, ListType
    <3>2. list'.id = list.id /\ list'.filter = list.filter
      BY <3>1 DEF ListType
    <3>3. AwaitedLoadsAreCurrent'
      BY <1>2, <3>2 DEF AwaitedLoadsAreCurrent
    <3>4. load.filter = list.filter /\ (load.token = session \/ overtaken = mount)
      BY <2>1 DEF Awaited, AwaitedLoadsAreCurrent, LoadType, ListType
    <3>5. ShownDataIsCurrent'
      BY <1>2, <3>1, <3>2, <3>4 DEF ShownDataIsCurrent, ListType
    <3> QED
      BY <1>2, <3>1, <3>3, <3>5
  <2>2. CASE ~Awaited(load)
    BY <1>2, <2>2 DEF Settle, AwaitedLoadsAreCurrent, ShownDataIsCurrent
  <2> QED
    BY <2>1, <2>2
<1>3. CASE Answered(load)
  <2>1. [user |-> Owner[load.token], filter |-> load.filter] \in Contents
    BY DEF Contents, LoadType
  <2> QED
    BY <1>2, <1>3, <2>1 DEF Answered
<1>4. CASE Failed(load)
  BY <1>2, <1>4 DEF Failed
<1> QED
  BY <1>1, <1>3, <1>4

\* A step of the tab keeps the invariant of the tab.
LEMMA ClientKept ==
  ASSUME ClientInv, SessionStep
  PROVE  ClientInv'
<1> USE SessionAssumption
<1>1. \A t \in Tokens : Login(t) \/ Register(t) => ClientInv'
  BY MountKept DEF Login, Register, SignIn, Routes
<1>2. ASSUME NEW t \in Tokens, LateLogin(t)
      PROVE  ClientInv'
  <2>1. CASE Mount("list", t, loads)
    BY <1>2, <2>1, MountKept DEF LateLogin, SignIn, Routes
  <2>2. CASE route = "list" /\ overtaken' = mount /\ UNCHANGED <<route, mount, list, loads>>
    BY <1>2, <2>2 DEF LateLogin, SignIn, ClientInv, ClientTypes, AwaitedLoadsAreCurrent,
       ShownDataIsCurrent
  <2> QED
    BY <1>2, <2>1, <2>2 DEF LateLogin
<1>3. ASSUME NEW t \in Tokens, Expire(t)
      PROVE  ClientInv'
  BY <1>3, UntouchedKept DEF Expire
<1>4. CASE LeaveForm
  BY <1>4, MountKept DEF LeaveForm, ClientInv, ClientTypes, Routes
<1>5. CASE LateRefusal \/ SignOut
  BY <1>5, ClearKept DEF LateRefusal, SignOut
<1>6. CASE GoTo("list") \/ GoTo("send")
  BY <1>6, MountKept DEF GoTo, Guarded, ClientInv, ClientTypes, Routes
<1>7. CASE ReloadTab
  BY <1>7, MountKept DEF ReloadTab, ClientInv, ClientTypes, Routes
<1> QED
  BY <1>1, <1>2, <1>3, <1>4, <1>5, <1>6, <1>7, AskKept, ReceiveListKept DEF SessionStep

-----------------------------------------------------------------------------
(* The page *)

LEMMA NoFormTyped == NoForm \in FormType /\ NoForm.key = 0 /\ NoForm.attempt = 0
BY DEF NoForm, Form, FormType, NoAnswer, Answer, Told, Results

\* What the page relies on depends on these variables.
LEMMA PageUntouched ==
  ASSUME PageInv,
         UNCHANGED <<form, attempts, posted, sends, route, mount, verdict, payer>>,
         challenges' \in Seq(ChallengeType)
  PROVE  PageInv'
BY DEF PageInv, PageTypes, KeysAreTheAttempts, AwaitedRequestsAreCurrent, Awaits,
   PaymentsAreTheAttempts, CompletedIsThisTransfer

\* The page is changed, but neither its transfer nor what it awaits.
LEMMA FormKept ==
  ASSUME PageInv, form' \in FormType,
         form'.key = form.key, form'.attempt = form.attempt,
         form'.waiting \in {form.waiting, 0},
         form'.result = "COMPLETED" => CompletedIsThisTransfer',
         UNCHANGED <<attempts, posted, sends, route, mount, challenges, verdict, payer>>
  PROVE  PageInv'
<1>1. \A r \in sends : r.number # 0
  BY DEF PageInv, PageTypes, RequestType
<1>2. AwaitedRequestsAreCurrent'
  BY <1>1 DEF PageInv, AwaitedRequestsAreCurrent, Awaits
<1>3. CompletedIsThisTransfer'
  BY DEF CompletedIsThisTransfer
<1> QED
  BY <1>2, <1>3 DEF PageInv, PageTypes, KeysAreTheAttempts, PaymentsAreTheAttempts

\* The transfer of a page just mounted, or begun again.
LEMMA NewFormKept ==
  ASSUME PageInv, NewForm, posted' = posted,
         \A q \in sends' : q \in RequestType /\
           \E r \in sends : /\ q.number = r.number /\ q.key = r.key /\ q.attempt = r.attempt
                            /\ q.answer = r.answer,
         UNCHANGED <<challenges, verdict, payer>>
  PROVE  PageInv'
<1> USE SendPageAssumption DEF PageInv, PageTypes, NewForm
<1>1. attempts \in Nat /\ attempts + 1 \in 1..MaxAttempts /\ attempts' = attempts + 1
  OBVIOUS
<1>2. /\ form' \in FormType /\ form'.key = attempts + 1 /\ form'.attempt = attempts + 1
      /\ form'.waiting = 0 /\ form'.result = "none"
  BY <1>1 DEF Form, FreshKey, FormType, NoAnswer, Answer, Told, Results
<1>3. PageTypes'
  BY <1>1, <1>2
<1>4. KeysAreTheAttempts'
  BY <1>1, <1>2 DEF KeysAreTheAttempts
<1>5. AwaitedRequestsAreCurrent'
  <2>1. \A q \in sends' : q.number # 0
    BY DEF RequestType
  <2>2. \A q \in sends' : ~Awaits(q)'
    BY <1>2, <2>1 DEF Awaits
  <2> QED
    BY <2>2 DEF AwaitedRequestsAreCurrent
<1>6. PaymentsAreTheAttempts'
  BY DEF PaymentsAreTheAttempts
<1>7. CompletedIsThisTransfer'
  BY <1>2 DEF CompletedIsThisTransfer
<1> QED
  BY <1>7, <1>3, <1>4, <1>5, <1>6

Waiting(base, error, n) ==
  [base EXCEPT !.step = "processing", !.seen = base.error, !.error = error, !.waiting = n]

LEMMA SubmittedForm ==
  ASSUME NEW base \in FormType, NEW error \in Told, NEW n \in Nat
  PROVE  LET f == Waiting(base, error, n)
         IN  /\ f \in FormType /\ f.key = base.key /\ f.attempt = base.attempt
             /\ f.waiting = n /\ f.result = base.result
<1>1. base.error \in Told
  BY DEF FormType
<1> QED
  BY <1>1 DEF FormType, Waiting

\* A request goes out with the key of the transfer begun.
LEMMA SubmitKept ==
  ASSUME ClientTypes, PageInv, route = "send", NEW base \in FormType, Submit(base),
         base.key = form.key, base.attempt = form.attempt, base.result = form.result,
         challenges' \in Seq(ChallengeType),
         UNCHANGED <<client, verdict, payer>>
  PROVE  PageInv'
<1> USE SendPageAssumption DEF PageInv, PageTypes, Submit, client
<1>1. form.attempt \in 1..attempts /\ form.key = form.attempt /\ form.intent \in Intents \cup {Unpaid}
  BY DEF KeysAreTheAttempts, FormType
<1>2. form.key \in Keys
  <2>1. form.attempt \in Nat /\ attempts \in 0..MaxAttempts /\ MaxAttempts \in Nat /\ MaxSends \in Nat
    BY DEF FormType
  <2> QED
    BY <1>1, <2>1 DEF Keys
<1>3. NoAnswer \in Told
  BY DEF NoAnswer, Answer, Told, Results
<1>4. /\ form' \in FormType /\ form'.key = form.key /\ form'.attempt = form.attempt
      /\ form'.waiting = posted + 1 /\ form'.result = form.result
  <2>1. posted + 1 \in Nat
    OBVIOUS
  <2>2. form' = Waiting(base, NoAnswer, posted + 1)
    BY DEF Waiting
  <2> QED
    BY <1>3, <2>1, <2>2, SubmittedForm
<1> DEFINE new == [number |-> posted + 1, mount |-> mount, token |-> session, key |-> SubmittedKey,
                   intent |-> form.intent, attempt |-> form.attempt, phase |-> "sent",
                   open |-> TRUE, answer |-> NoAnswer]
<1>5. /\ new \in RequestType /\ new.key = form.key /\ new.attempt = form.attempt
      /\ new.answer.code = "none" /\ new.number = posted + 1
  BY <1>1, <1>2, <1>3 DEF RequestType, SubmittedKey, ClientTypes, NoAnswer, Answer, FormType
<1>6. sends' = sends \cup {new} /\ posted' = posted + 1 /\ UNCHANGED attempts
  OBVIOUS
<1> HIDE DEF new
<1>7. PageTypes'
  BY <1>4, <1>5, <1>6
<1>8. KeysAreTheAttempts'
  BY <1>1, <1>4, <1>5, <1>6 DEF KeysAreTheAttempts
<1>9. AwaitedRequestsAreCurrent'
  <2>1. \A r \in sends : r.number \in Nat /\ r.number <= posted
    BY DEF AwaitedRequestsAreCurrent, RequestType
  <2> QED
    BY <1>4, <1>5, <1>6, <2>1 DEF AwaitedRequestsAreCurrent, Awaits
<1>10. PaymentsAreTheAttempts' /\ CompletedIsThisTransfer'
  BY <1>4, <1>5, <1>6 DEF PaymentsAreTheAttempts, CompletedIsThisTransfer
<1> QED
  BY <1>7, <1>8, <1>9, <1>10

\* Requests are answered, processed or disconnected; none is added.
LEMMA RequestsKept ==
  ASSUME PageInv,
         \A q \in sends' : q \in RequestType /\
           \E r \in sends : /\ q.number = r.number /\ q.mount = r.mount /\ q.key = r.key
                            /\ q.attempt = r.attempt
                            /\ q.answer = r.answer \/ q.answer.code # "COMPLETED",
         challenges' \in Seq(ChallengeType),
         UNCHANGED <<form, attempts, posted, route, mount, verdict, payer>>
  PROVE  PageInv'
<1> USE DEF PageInv
<1>1. PageTypes'
  BY DEF PageTypes
<1>2. KeysAreTheAttempts' /\ AwaitedRequestsAreCurrent'
  BY DEF KeysAreTheAttempts, AwaitedRequestsAreCurrent, Awaits
<1>3. PaymentsAreTheAttempts' /\ CompletedIsThisTransfer'
  BY DEF PaymentsAreTheAttempts, CompletedIsThisTransfer
<1> QED
  BY <1>1, <1>2, <1>3

\* What process() decides, and tells.
LEMMA ProcessKept ==
  ASSUME PageInv, NEW r \in sends, Process(r),
         UNCHANGED <<client, form, attempts, posted, frozen, challenges>>
  PROVE  PageInv'
<1> USE DEF PageInv, PageTypes
<1> DEFINE k == r.key
<1>1. k \in Keys /\ r.attempt = k /\ r \in RequestType /\ k \in Nat
  BY SendPageAssumption DEF KeysAreTheAttempts, RequestType, Keys
<1>2. PICK answer \in Engine!Answers :
        /\ \/ /\ Engine!Pays(k, Order(r.token, r.intent), answer)
              /\ payer' = [payer EXCEPT ![k] = r.attempt]
           \/ /\ \/ Engine!Declines(k, Order(r.token, r.intent), answer)
                 \/ Engine!Replays(k, answer)
                 \/ Engine!Rejects(k, Order(r.token, r.intent), answer)
                 \/ Engine!Breaks(answer)
              /\ UNCHANGED payer
        /\ Reply(r, answer, 0)
  BY DEF Process
<1>3. /\ verdict' \in [Keys -> {"open", "paid", "declined"}]
      /\ \A l \in Keys : verdict[l] = "paid" => verdict'[l] = "paid"
      /\ \A l \in Keys : verdict'[l] = "paid" => payer'[l] = l
      /\ \A l \in Keys : payer[l] = payer'[l] \/ payer'[l] = l
      /\ answer = "COMPLETED" => verdict'[k] = "paid"
      /\ payer' \in [Keys -> Nat \cup {Unpaid}]
  <2> USE <1>1 DEF Engine!Decide, PaymentsAreTheAttempts
  <2>1. CASE Engine!Pays(k, Order(r.token, r.intent), answer) /\ payer' = [payer EXCEPT ![k] = k]
    BY <2>1 DEF Engine!Pays, Engine!Pay, Engine!Acknowledged
  <2>2. CASE Engine!Declines(k, Order(r.token, r.intent), answer) /\ UNCHANGED payer
    BY <2>2 DEF Engine!Declines, Engine!Decline, Engine!Acknowledged
  <2>3. CASE Engine!Replays(k, answer) /\ UNCHANGED payer
    BY <2>3 DEF Engine!Replays, Engine!table
  <2>4. CASE Engine!Rejects(k, Order(r.token, r.intent), answer) /\ UNCHANGED payer
    BY <2>4 DEF Engine!Rejects, Engine!table
  <2>5. CASE Engine!Breaks(answer) /\ UNCHANGED payer
    BY <2>5 DEF Engine!Breaks, Engine!table
  <2> QED
    BY <1>2, <2>1, <2>2, <2>3, <2>4, <2>5
<1> DEFINE told == [r EXCEPT !.phase = "answered", !.answer = Answer(answer, 0)]
<1>4. /\ told \in RequestType /\ told.number = r.number /\ told.mount = r.mount
      /\ told.key = k /\ told.attempt = r.attempt /\ told.answer.code = answer
  <2>1. Answer(answer, 0) \in Told /\ Answer(answer, 0).code = answer
    BY DEF Answer, Told, Results, Engine!Answers
  <2> QED
    BY <1>1, <2>1 DEF RequestType
<1>5. sends' \subseteq sends \cup {told}
  BY <1>2 DEF Reply, Replace
<1> HIDE DEF told
<1>6. PageTypes'
  BY <1>3, <1>4, <1>5
<1>7. KeysAreTheAttempts' /\ AwaitedRequestsAreCurrent'
  BY <1>1, <1>4, <1>5 DEF client, KeysAreTheAttempts, AwaitedRequestsAreCurrent, Awaits
<1>8. PaymentsAreTheAttempts'
  <2>1. \A l \in Keys : payer'[l] # Unpaid => payer'[l] = l
    BY <1>3 DEF PaymentsAreTheAttempts
  <2>2. \A q \in sends : q.key \in Keys
    BY DEF RequestType
  <2> QED
    BY <1>1, <1>3, <1>4, <1>5, <2>1, <2>2 DEF PaymentsAreTheAttempts
<1>9. CompletedIsThisTransfer'
  <2>1. ASSUME NEW l \in Keys, payer[l] = form.attempt
        PROVE  \E j \in Keys : payer'[j] = form.attempt
    <3>1. form.attempt # Unpaid
      BY SendPageAssumption DEF FormType
    <3>2. payer[l] = l
      BY <2>1, <3>1 DEF PaymentsAreTheAttempts
    <3> QED
      BY <1>3, <2>1, <3>2
  <2> QED
    BY <2>1 DEF client, CompletedIsThisTransfer
<1> QED
  BY <1>6, <1>7, <1>8, <1>9

\* The gates answer, or let the request through.
LEMMA ArriveKept ==
  ASSUME PageInv, NEW r \in sends, Arrive(r),
         UNCHANGED <<client, form, attempts, posted, frozen, engine>>
  PROVE  PageInv'
<1> USE DEF PageInv, PageTypes
<1>1. r \in RequestType
  OBVIOUS
<1>2. challenges' \in Seq(ChallengeType)
  <2>1. [key |-> r.key, amount |-> Amount[r.intent], status |-> "PENDING"] \in ChallengeType
    BY <1>1 DEF RequestType, ChallengeType
  <2> QED
    BY <2>1 DEF Arrive
<1>3. \E q : /\ sends' \subseteq sends \cup {q}
             /\ q \in RequestType /\ q.number = r.number /\ q.mount = r.mount /\ q.key = r.key
             /\ q.attempt = r.attempt /\ (q.answer = r.answer \/ q.answer.code # "COMPLETED")
  <2>1. ASSUME NEW code \in {"ERROR", "UNAUTHENTICATED", "CHALLENGE"}, NEW c \in Nat,
               Reply(r, code, c)
        PROVE  \E q : /\ sends' \subseteq sends \cup {q} /\ q \in RequestType
                      /\ q.number = r.number /\ q.mount = r.mount /\ q.key = r.key
                      /\ q.attempt = r.attempt /\ q.answer.code # "COMPLETED"
    <3> DEFINE q == [r EXCEPT !.phase = "answered", !.answer = Answer(code, c)]
    <3>1. sends' \subseteq sends \cup {q}
      BY <2>1 DEF Reply, Replace
    <3>2. Answer(code, c) \in Told /\ Answer(code, c).code # "COMPLETED"
      BY DEF Answer, Told, Results
    <3>3. /\ q \in RequestType /\ q.number = r.number /\ q.mount = r.mount /\ q.key = r.key
          /\ q.attempt = r.attempt /\ q.answer.code # "COMPLETED"
      BY <1>1, <3>2 DEF RequestType
    <3> HIDE DEF q
    <3> QED
      BY <3>1, <3>3
  <2>2. CASE Replace(r, {[r EXCEPT !.phase = "processing"]})
    <3> DEFINE q == [r EXCEPT !.phase = "processing"]
    <3>1. sends' \subseteq sends \cup {q}
      BY <2>2 DEF Replace
    <3>2. /\ q \in RequestType /\ q.number = r.number /\ q.mount = r.mount /\ q.key = r.key
          /\ q.attempt = r.attempt /\ q.answer = r.answer
      BY <1>1 DEF RequestType
    <3> HIDE DEF q
    <3> QED
      BY <3>1, <3>2
  <2>3. Len(challenges) + 1 \in Nat
    OBVIOUS
  <2> QED
    BY <2>1, <2>2, <2>3 DEF Arrive
<1> QED
  BY <1>2, <1>3, RequestsKept DEF client, engine

\* Requests of the tab, some of them closed or gone.
Remaining ==
  \A q \in sends' : q \in RequestType /\
    \E r \in sends : /\ q.number = r.number /\ q.mount = r.mount /\ q.key = r.key
                     /\ q.attempt = r.attempt /\ q.answer = r.answer

\* The page hears of its request, or of a connection that is lost.
LEMMA HeardKept ==
  ASSUME PageInv, Remaining, form' \in FormType,
         form'.key = form.key, form'.attempt = form.attempt,
         form'.waiting \in {form.waiting, 0},
         CompletedIsThisTransfer',
         UNCHANGED <<attempts, posted, route, mount, challenges, verdict, payer>>
  PROVE  PageInv'
<1> USE DEF PageInv, Remaining
<1>1. PageTypes'
  BY DEF PageTypes
<1>2. KeysAreTheAttempts'
  BY DEF KeysAreTheAttempts
<1>3. AwaitedRequestsAreCurrent'
  <2>1. \A q \in sends' : q.number # 0
    BY DEF RequestType
  <2> QED
    BY <2>1 DEF AwaitedRequestsAreCurrent, Awaits
<1>4. PaymentsAreTheAttempts'
  BY DEF PaymentsAreTheAttempts
<1> QED
  BY <1>1, <1>2, <1>3, <1>4

\* The page goes, or is not there.
LEMMA LeftKept ==
  ASSUME PageInv, Remaining, route' # "send", form' = NoForm,
         UNCHANGED <<attempts, posted, challenges, verdict, payer>>
  PROVE  PageInv'
<1> USE NoFormTyped DEF PageInv, Remaining
<1>1. PageTypes'
  BY DEF PageTypes
<1>2. KeysAreTheAttempts' /\ AwaitedRequestsAreCurrent'
  BY DEF KeysAreTheAttempts, AwaitedRequestsAreCurrent, Awaits
<1>3. PaymentsAreTheAttempts' /\ CompletedIsThisTransfer'
  BY DEF PaymentsAreTheAttempts, CompletedIsThisTransfer
<1> QED
  BY <1>1, <1>2, <1>3

\* An error is shown, or the challenge of the error before.
LEMMA ShownForm ==
  ASSUME form \in FormType, NEW error \in Told, Shows(error)
  PROVE  /\ form' \in FormType /\ form'.key = form.key /\ form'.attempt = form.attempt
         /\ form'.waiting = 0 /\ form'.result = form.result
<1> DEFINE back == [form EXCEPT !.step = "confirm", !.waiting = 0, !.seen = NoAnswer]
<1>1. NoAnswer \in Told
  BY DEF NoAnswer, Answer, Told, Results
<1>2. /\ back \in FormType /\ back.key = form.key /\ back.attempt = form.attempt
      /\ back.waiting = 0 /\ back.result = form.result
  BY <1>1 DEF FormType
<1>3. form.seen.challenge \in Nat
  BY DEF FormType, Told
<1>4. form' \in {[back EXCEPT !.dialog = form.seen.challenge], [back EXCEPT !.error = error]}
  BY DEF Shows
<1> HIDE DEF back
<1>5. CASE form' = [back EXCEPT !.dialog = form.seen.challenge]
  BY <1>2, <1>3, <1>5 DEF FormType
<1>6. CASE form' = [back EXCEPT !.error = error]
  BY <1>2, <1>6 DEF FormType
<1> QED
  BY <1>4, <1>5, <1>6

LEMMA PageStepKept ==
  ASSUME PageInv, PageStep
  PROVE  PageInv'
<1> USE DEF PageInv, PageTypes
<1>1. /\ form' \in FormType /\ form'.key = form.key /\ form'.attempt = form.attempt
      /\ form'.waiting = form.waiting /\ form'.result = form.result
  <2>1. CASE Back
    BY <2>1 DEF Back, FormType
  <2>2. CASE Cancel
    BY <2>2 DEF Cancel, FormType
  <2>3. ASSUME NEW j \in Intents, Review(j)
        PROVE  /\ form' \in FormType /\ form'.key = form.key /\ form'.attempt = form.attempt
               /\ form'.waiting = form.waiting /\ form'.result = form.result
    BY <2>3 DEF Review, FormType
  <2> QED
    BY <2>1, <2>2, <2>3 DEF PageStep
<1>2. CompletedIsThisTransfer'
  BY <1>1 DEF PageStep, client, engine, CompletedIsThisTransfer
<1> QED
  BY <1>1, <1>2, FormKept DEF PageStep, client, engine

LEMMA ResolvedChallenge ==
  ASSUME NEW ch \in ChallengeType, NEW outcome \in {"PASSED", "FAILED"}
  PROVE  [ch EXCEPT !.status = outcome] \in ChallengeType
BY DEF ChallengeType

\* A request whose page is gone.
Closed(r) == [r EXCEPT !.open = FALSE]

LEMMA ClosedRequest ==
  ASSUME NEW r \in RequestType
  PROVE  /\ Closed(r) \in RequestType /\ Closed(r).number = r.number
         /\ Closed(r).mount = r.mount /\ Closed(r).key = r.key
         /\ Closed(r).attempt = r.attempt /\ Closed(r).answer = r.answer
BY DEF Closed, RequestType

LEMMA ResolvedChallenges ==
  ASSUME challenges \in Seq(ChallengeType), NEW c, NEW outcome \in {"PASSED", "FAILED"}
  PROVE  [challenges EXCEPT ![c].status = outcome] \in Seq(ChallengeType)
<1>1. CASE c \in 1..Len(challenges)
  <2>1. challenges[c] \in ChallengeType
    BY <1>1
  <2>2. [challenges[c] EXCEPT !.status = outcome] \in ChallengeType
    BY <2>1, ResolvedChallenge
  <2>3. [challenges EXCEPT ![c].status = outcome]
        = [challenges EXCEPT ![c] = [challenges[c] EXCEPT !.status = outcome]]
    OBVIOUS
  <2> QED
    BY <1>1, <2>2, <2>3
<1>2. CASE c \notin 1..Len(challenges)
  <2>1. [challenges EXCEPT ![c].status = outcome] = challenges
    BY <1>2
  <2> QED
    BY <2>1
<1> QED
  BY <1>1, <1>2

LEMMA SubmitStepKept ==
  ASSUME ClientTypes, PageInv, SubmitStep
  PROVE  PageInv'
<1> USE DEF PageInv, PageTypes
<1>1. CASE Confirm /\ UNCHANGED <<challenges, frozen>>
  BY <1>1, SubmitKept DEF Confirm, At, SubmitStep, engine
<1>2. CASE AnswerDialog
  <2>1. challenges' \in Seq(ChallengeType)
    BY <1>2, ResolvedChallenges DEF AnswerDialog
  <2>2. CASE Submit([form EXCEPT !.dialog = 0])
    <3> DEFINE base == [form EXCEPT !.dialog = 0]
    <3>1. /\ base \in FormType /\ base.key = form.key /\ base.attempt = form.attempt
          /\ base.result = form.result
      BY DEF FormType
    <3> HIDE DEF base
    <3> QED
      BY <1>2, <2>1, <2>2, <3>1, SubmitKept DEF AnswerDialog, SubmitStep, engine, base
  <2>3. CASE UNCHANGED page
    BY <2>1, <2>3, PageUntouched DEF SubmitStep, client, engine, page
  <2> QED
    BY <1>2, <2>2, <2>3 DEF AnswerDialog
<1> QED
  BY <1>1, <1>2 DEF SubmitStep

LEMMA NetworkKept ==
  ASSUME TabInv, NetworkStep
  PROVE  TabInv'
<1> USE DEF TabInv, PageInv, PageTypes
<1>1. ASSUME NEW r \in sends, Disconnect(r), UNCHANGED <<session, route, list>>
      PROVE  TabInv'
  <2>1. ClientInv'
    BY <1>1, UntouchedKept DEF NetworkStep
  <2>2. Remaining
    <3> DEFINE q == [r EXCEPT !.open = FALSE]
    <3>1. /\ q \in RequestType /\ q.number = r.number /\ q.mount = r.mount /\ q.key = r.key
          /\ q.attempt = r.attempt /\ q.answer = r.answer
      BY DEF RequestType
    <3>2. sends' \subseteq sends \cup {q}
      BY <1>1 DEF Disconnect, Replace
    <3> HIDE DEF q
    <3> QED
      BY <3>1, <3>2 DEF Remaining
  <2>3. Answer("ERROR", 0) \in Told
    BY DEF Answer, Told
  <2>4. /\ form' \in FormType /\ form'.key = form.key /\ form'.attempt = form.attempt
        /\ form'.waiting \in {form.waiting, 0} /\ form'.result = form.result
    BY <1>1, <2>3, ShownForm DEF Disconnect
  <2>5. CompletedIsThisTransfer'
    BY <1>1, <2>4 DEF CompletedIsThisTransfer, NetworkStep, engine
  <2> QED
    BY <1>1, <2>1, <2>2, <2>4, <2>5, HeardKept DEF NetworkStep, engine
<1>2. ASSUME NEW r \in sends, Receive(r)
      PROVE  TabInv'
  <2>1. Remaining
    BY <1>2 DEF Remaining, Receive, Replace
  <2>2. CASE ClearSession /\ Unmounting
    <3>1. ClientInv'
      BY <2>2, ClearKept DEF NetworkStep
    <3>2. route' # "send" /\ form' = NoForm
      BY <2>2 DEF ClearSession, Unmounting
    <3> QED
      BY <2>1, <3>1, <3>2, LeftKept DEF NetworkStep, engine
  <2>3. CASE r.answer.code # "UNAUTHENTICATED" /\ UNCHANGED <<session, route, list>>
    <3>1. ClientInv'
      BY <2>3, UntouchedKept DEF NetworkStep
    <3>2. r.answer \in Told
      BY DEF RequestType
    <3>3. CASE UNCHANGED form \/ Shows(r.answer)
      <4>1. /\ form' \in FormType /\ form'.key = form.key /\ form'.attempt = form.attempt
            /\ form'.waiting \in {form.waiting, 0} /\ form'.result = form.result
        BY <3>2, <3>3, ShownForm
      <4>2. CompletedIsThisTransfer'
        BY <2>3, <4>1 DEF CompletedIsThisTransfer, NetworkStep, engine
      <4> QED
        BY <2>1, <2>3, <3>1, <4>1, <4>2, HeardKept DEF NetworkStep, engine
    <3>4. CASE /\ Awaits(r) /\ r.answer.code \in Results
               /\ form' = [form EXCEPT !.step = "done", !.waiting = 0, !.seen = NoAnswer,
                                       !.result = r.answer.code]
      <4>1. NoAnswer \in Told
        BY DEF NoAnswer, Answer, Told, Results
      <4>2. /\ form' \in FormType /\ form'.key = form.key /\ form'.attempt = form.attempt
            /\ form'.waiting = 0 /\ form'.result = r.answer.code
        BY <3>4, <4>1 DEF FormType
      <4>3. r.attempt = form.attempt /\ r.key = r.attempt /\ r.key \in Keys
        BY <3>4 DEF AwaitedRequestsAreCurrent, KeysAreTheAttempts, RequestType
      <4>4. r.answer.code = "COMPLETED" => payer[r.key] = form.attempt
        BY <4>3 DEF PaymentsAreTheAttempts
      <4>5. CompletedIsThisTransfer'
        BY <4>2, <4>3, <4>4 DEF CompletedIsThisTransfer, NetworkStep, engine
      <4> QED
        BY <2>1, <2>3, <3>1, <4>2, <4>5, HeardKept DEF NetworkStep, engine
    <3> QED
      BY <1>2, <2>3, <3>3, <3>4 DEF Receive
  <2> QED
    BY <1>2, <2>2, <2>3 DEF Receive
<1> QED
  BY <1>1, <1>2 DEF NetworkStep

LEMMA SessionStepKept ==
  ASSUME TabInv, SessionStep, UNCHANGED <<challenges, frozen, engine>>
  PROVE  PageInv'
<1> USE DEF TabInv, PageInv, PageTypes
<1>1. ASSUME Unmounting, UNCHANGED <<attempts, posted, sends>>,
             route' = "send" => UNCHANGED <<route, mount>>
      PROVE  PageInv'
  <2>1. CASE route' = "send"
    BY <1>1, <2>1, PageUntouched DEF Unmounting, engine
  <2>2. CASE route' # "send"
    BY <1>1, <2>2, LeftKept DEF Unmounting, engine, Remaining
  <2> QED
    BY <2>1, <2>2
<1>2. ASSUME \/ \E t \in Tokens : Login(t) \/ Register(t) \/ LateLogin(t) \/ Expire(t)
             \/ LeaveForm \/ LateRefusal \/ SignOut
             \/ GoTo("list")
             \/ \E f \in Filters : Ask(f)
             \/ \E load \in loads : ReceiveList(load)
      PROVE  route' = "send" => UNCHANGED <<route, mount>>
  BY <1>2 DEF Login, Register, LateLogin, Expire, LeaveForm, LateRefusal, SignOut, GoTo, Ask,
     ReceiveList, Answered, Failed, Unauthorised, ClearSession, Mount, SignIn
<1>3. CASE GoTo("send") /\ NewForm /\ UNCHANGED <<posted, sends>>
  BY <1>3, NewFormKept DEF engine
<1>4. ASSUME ReloadTab,
             IF route' = "send" THEN NewForm ELSE form' = NoForm /\ UNCHANGED attempts,
             sends' = {[r EXCEPT !.open = FALSE] : r \in {s \in sends : s.phase # "answered"}},
             UNCHANGED posted
      PROVE  PageInv'
  <2>1. \A r \in sends : /\ Closed(r) \in RequestType /\ Closed(r).number = r.number
                         /\ Closed(r).mount = r.mount /\ Closed(r).key = r.key
                         /\ Closed(r).attempt = r.attempt /\ Closed(r).answer = r.answer
    BY ClosedRequest
  <2>2. Remaining
    <3>1. sends' = {Closed(r) : r \in {s \in sends : s.phase # "answered"}}
      BY <1>4 DEF Closed
    <3> QED
      BY <1>4, <2>1, <3>1 DEF Remaining
  <2>3. CASE route' = "send"
    BY <1>4, <2>2, <2>3, NewFormKept DEF engine, Remaining
  <2>4. CASE route' # "send"
    BY <1>4, <2>2, <2>4, LeftKept DEF engine
  <2> QED
    BY <2>3, <2>4
<1> QED
  BY <1>1, <1>2, <1>3, <1>4 DEF SessionStep

LEMMA InitTab == Init => TabInv
<1> SUFFICES ASSUME Init
             PROVE  TabInv
  OBVIOUS
<1> USE SessionAssumption, SendPageAssumption DEF Init, SessionInit
<1>1. ClientInv
  BY DEF ClientInv, ClientTypes, Routes, NoList, ListType, AwaitedLoadsAreCurrent,
     ShownDataIsCurrent
<1>2. PageTypes
  BY NoFormTyped DEF PageTypes
<1>3. KeysAreTheAttempts /\ AwaitedRequestsAreCurrent
  BY NoFormTyped DEF KeysAreTheAttempts, AwaitedRequestsAreCurrent
<1>4. PaymentsAreTheAttempts /\ CompletedIsThisTransfer
  BY DEF PaymentsAreTheAttempts, CompletedIsThisTransfer
<1> QED
  BY <1>1, <1>2, <1>3, <1>4 DEF TabInv, PageInv

\* Every step keeps the invariant.
LEMMA StepTab == TabInv /\ [Next]_vars => TabInv'
<1> SUFFICES ASSUME TabInv, [Next]_vars
             PROVE  TabInv'
  OBVIOUS
<1> USE DEF TabInv
<1>1. CASE UNCHANGED vars
  BY <1>1, UntouchedKept, PageUntouched DEF vars, client, page, engine, PageInv, PageTypes
<1>2. CASE PageStep
  BY <1>2, PageStepKept, UntouchedKept DEF PageStep, client
<1>3. CASE SubmitStep
  BY <1>3, SubmitStepKept, UntouchedKept DEF SubmitStep, client, ClientInv
<1>4. CASE AgainStep
  BY <1>4, NewFormKept, UntouchedKept DEF AgainStep, SendAnother, client, engine, PageInv, PageTypes
<1>5. CASE ServerStep
  BY <1>5, ArriveKept, ProcessKept, UntouchedKept DEF ServerStep, client
<1>6. CASE NetworkStep
  BY <1>6, NetworkKept
<1>7. CASE SessionStep /\ UNCHANGED <<challenges, frozen, engine>>
  BY <1>7, SessionStepKept, ClientKept
<1>8. CASE Elsewhere /\ UNCHANGED <<client, page, challenges, payer>>
  <2>1. UNCHANGED verdict
    BY <1>8 DEF Elsewhere, Engine!Forget, Engine!table
  <2> QED
    BY <1>8, <2>1, UntouchedKept, PageUntouched DEF client, page, PageInv, PageTypes
<1> QED
  BY <1>1, <1>2, <1>3, <1>4, <1>5, <1>6, <1>7, <1>8 DEF Next

-----------------------------------------------------------------------------
(* Theorems *)

\* The inductive invariant holds.
THEOREM TabHolds == Spec => []TabInv
BY InitTab, StepTab, PTL DEF Spec

\* A list that is shown is that of the user signed in and of the filter
\* selected, whatever was asked before and by whom: useAsync and AuthContext.
THEOREM ListsAreCurrent == Spec => []ShownDataIsCurrent
<1>1. TabInv => ShownDataIsCurrent
  BY DEF TabInv, ClientInv
<1> QED
  BY <1>1, TabHolds, PTL

\* One transfer begun on the page is paid at most once, however often it is
\* sent, lost, edited or challenged: SendMoneyPage and its idempotency key.
THEOREM AttemptsPayOnce == Spec => []OnePaymentPerAttempt
<1>1. TabInv => OnePaymentPerAttempt
  BY DEF TabInv, PageInv, PaymentsAreTheAttempts, OnePaymentPerAttempt
<1> QED
  BY <1>1, TabHolds, PTL

\* A page that says completed says it of its own transfer.
THEOREM CompletionsAreOwn == Spec => []CompletedIsThisTransfer
<1>1. TabInv => CompletedIsThisTransfer
  BY DEF TabInv, PageInv
<1> QED
  BY <1>1, TabHolds, PTL
=============================================================================
