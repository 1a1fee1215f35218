-------------------------------- MODULE SendPage --------------------------------
(***************************************************************************)
(* SendMoneyPage, the security dialog on top of it and the requests that   *)
(* they make, in the tab of ClientSession.  A request may be lost before   *)
(* or after the server has acted on it.  On the server's side are the      *)
(* gates of SendMoney, in one step, and the engine of ProcessCall.         *)
(***************************************************************************)
EXTENDS ClientSession, Sequences

CONSTANTS
  Intents,     \* what the form may say: Receiver[i], Amount[i] and a note
  Receiver,
  Amount,
  Large,       \* those whose amount requires a security answer
  MaxAttempts, \* bound: transfers begun
  MaxSends,    \* bound: requests posted
  Wallets, Opening, MaxTransfer, Faults,
  Unpaid

Keys == 1..(MaxAttempts + MaxSends)

ASSUME SendPageAssumption ==
  /\ Large \subseteq Intents
  /\ Receiver \in [Intents -> Wallets] /\ Amount \in [Intents -> Nat]
  /\ \A t \in Tokens : Owner[t] \in Wallets
  /\ MaxAttempts \in Nat \ {0} /\ MaxSends \in Nat \ {0} /\ MaxTransfer \in Nat
  /\ Opening \in [Wallets -> Nat]
  /\ Faults \subseteq {"engine", "ack", "redis"}
  /\ Unpaid \notin Nat

VARIABLES
  form,        \* the state of the send page
  attempts,    \* how many transfers were begun: pages mounted, and "Send another"
  posted,      \* how many requests were sent
  sends,       \* the requests on their way or in the server
  challenges,  \* the challenges raised, in order
  frozen,      \* the wallets that a wrong answer froze
  verdict, funds, refused,   \* the engine: see ProcessCall
  payer        \* payer[k]: the attempt whose order became the COMPLETED row of k

page == <<form, attempts, posted, sends>>
engine == <<verdict, funds, refused, payer>>
vars == <<client, page, challenges, frozen, engine>>

Order(token, i) == [from |-> Owner[token], to |-> Receiver[i], amount |-> Amount[i]]

Engine == INSTANCE ProcessCall
  WITH usable <- Wallets \ frozen, held <- [w \in Wallets |-> 0],
       Orders <- [k \in Keys |-> {Order(t, i) : t \in Tokens, i \in Intents}]

-----------------------------------------------------------------------------
(* Answers: the envelope of DomainExceptionFilter *)

Results == {"COMPLETED", "FAILED"}

\* toBody: an answer, with the challenge that the body of a 428 carries, or 0.
\* Of STATUS_BY_CODE the client tells apart a result, "UNAUTHENTICATED" (401),
\* "CHALLENGE" (428), and "ERROR", which is only displayed, like NetworkError.
Answer(code, c) == [code |-> code, challenge |-> c]
NoAnswer == Answer("none", 0)

-----------------------------------------------------------------------------
(* Pieces of actions *)

\* Mutant: "Send another" does not mint a key, only a mounted page does.
FreshKey_OncePerPage == IF route = "send" THEN form.key ELSE attempts + 1

\* newIdempotencyKey: attempts counts its calls.
FreshKey == attempts + 1

\* Mutant: a key per press of the button, as PotsPage mints them.
SubmittedKey_PerPress == MaxAttempts + posted + 1

\* The key of the page, whatever was edited since it was minted.
SubmittedKey == form.key

Form(key, attempt) ==
  [step |-> "compose", intent |-> Unpaid, key |-> key, attempt |-> attempt, error |-> NoAnswer,
   seen |-> NoAnswer, result |-> "none", dialog |-> 0, waiting |-> 0]

NoForm == Form(0, 0)

\* The state of a page just mounted, and what startOver resets.
NewForm ==
  /\ attempts < MaxAttempts
  /\ attempts' = attempts + 1
  /\ form' = Form(FreshKey, attempts + 1)

\* The page goes with its route.
Unmounting == form' = IF route' = "send" THEN form ELSE NoForm

\* submit: the request of the last render goes out, and the closure keeps the
\* error of that render.
Submit(base) ==
  /\ posted < MaxSends
  /\ posted' = posted + 1
  /\ form' = [base EXCEPT !.step = "processing", !.seen = base.error, !.error = NoAnswer,
                          !.waiting = posted + 1]
  /\ sends' = sends \cup {[number |-> posted + 1, mount |-> mount, token |-> session,
                           key |-> SubmittedKey, intent |-> form.intent,
                           attempt |-> form.attempt, phase |-> "sent", open |-> TRUE,
                           answer |-> NoAnswer]}
  /\ UNCHANGED attempts

\* The page under no dialog.
At(s) == route = "send" /\ form.dialog = 0 /\ form.step = s

Awaits(r) == route = "send" /\ r.mount = mount /\ r.number = form.waiting

\* What submit does with an error: the challenge of the error that it had seen
\* before opens the dialog and clears the error; otherwise the error is shown.
Shows(error) ==
  LET back == [form EXCEPT !.step = "confirm", !.waiting = 0, !.seen = NoAnswer]
  IN  form' = IF form.seen.challenge # 0 THEN [back EXCEPT !.dialog = form.seen.challenge]
                                         ELSE [back EXCEPT !.error = error]

Replace(r, replies) == sends' = (sends \ {r}) \cup replies

\* The server answers; nobody hears it once the connection is closed.
Reply(r, code, c) ==
  Replace(r, {s \in {[r EXCEPT !.phase = "answered", !.answer = Answer(code, c)]} : r.open})

-----------------------------------------------------------------------------
(* The page *)

\* The fields are filled in, and goToConfirm; the way back.
Review(i) == At("compose") /\ form' = [form EXCEPT !.step = "confirm", !.intent = i]
Back == At("confirm") /\ form' = [form EXCEPT !.step = "compose"]

\* "Confirm and send", and the retry button of the error banner.
Confirm == At("confirm") /\ Submit(form)

\* startOver
SendAnother == At("done") /\ NewForm

\* The dialog.  The server passes a pending challenge, or fails it and freezes
\* the wallet, or reports it gone; a pass that reaches the page submits again.
AnswerDialog ==
  LET c == form.dialog IN
  /\ route = "send" /\ c # 0 /\ session \notin expired
  /\ challenges[c].status = "PENDING"
  /\ \/ /\ challenges' = [challenges EXCEPT ![c].status = "PASSED"]
        /\ \/ Submit([form EXCEPT !.dialog = 0])
           \/ UNCHANGED page
        /\ UNCHANGED frozen
     \/ /\ challenges' = [challenges EXCEPT ![c].status = "FAILED"]
        /\ frozen' = frozen \cup {Owner[session]}
        /\ UNCHANGED page

Cancel ==
  /\ route = "send" /\ form.dialog # 0
  /\ form' = [form EXCEPT !.dialog = 0]

-----------------------------------------------------------------------------
(* The server *)

\* A large transfer asks for a pass under its key and its amount.
MustProve(r) ==
  /\ r.intent \in Large
  /\ \A c \in DOMAIN challenges :
       challenges[c] # [key |-> r.key, amount |-> Amount[r.intent], status |-> "PASSED"]

\* JwtAuthGuard, and the gates of SendMoneyUseCase.
Arrive(r) ==
  /\ r.phase = "sent"
  /\ \/ /\ r.token \in expired
        /\ Reply(r, "UNAUTHENTICATED", 0)
        /\ UNCHANGED challenges
     \/ /\ r.token \notin expired
        /\ Reply(r, "ERROR", 0)
        /\ UNCHANGED challenges
     \/ /\ r.token \notin expired /\ MustProve(r)
        /\ challenges' = Append(challenges, [key |-> r.key, amount |-> Amount[r.intent],
                                             status |-> "PENDING"])
        /\ Reply(r, "CHALLENGE", Len(challenges) + 1)
     \/ /\ r.token \notin expired /\ ~MustProve(r)
        /\ Replace(r, {[r EXCEPT !.phase = "processing"]})
        /\ UNCHANGED challenges

\* process()
Process(r) ==
  /\ r.phase = "processing"
  /\ \E answer \in Engine!Answers :
       /\ \/ /\ Engine!Pays(r.key, Order(r.token, r.intent), answer)
             /\ payer' = [payer EXCEPT ![r.key] = r.attempt]
          \/ /\ \/ Engine!Declines(r.key, Order(r.token, r.intent), answer)
                \/ Engine!Replays(r.key, answer)
                \/ Engine!Rejects(r.key, Order(r.token, r.intent), answer)
                \/ Engine!Breaks(answer)
             /\ UNCHANGED payer
       /\ Reply(r, answer, 0)

\* request() rejects with NetworkError; the server may know of the request.
Disconnect(r) ==
  /\ r.open
  /\ Replace(r, {s \in {[r EXCEPT !.open = FALSE]} : r.phase # "answered"})
  /\ IF Awaits(r) THEN Shows(Answer("ERROR", 0)) ELSE UNCHANGED form

\* request() reads the answer, and a 401 clears the session; useAction tells
\* the page, if it is still there.
Receive(r) ==
  /\ r.open /\ r.phase = "answered"
  /\ Replace(r, {})
  /\ \/ r.answer.code = "UNAUTHENTICATED" /\ ClearSession /\ Unmounting
     \/ /\ r.answer.code # "UNAUTHENTICATED"
        /\ UNCHANGED <<session, route, list>>
        /\ IF ~Awaits(r) THEN UNCHANGED form
           ELSE IF r.answer.code \in Results
             THEN form' = [form EXCEPT !.step = "done", !.waiting = 0, !.seen = NoAnswer,
                                       !.result = r.answer.code]
             ELSE Shows(r.answer)

-----------------------------------------------------------------------------
(* The tab and the server *)

PageStep ==
  /\ Back \/ Cancel \/ \E i \in Intents : Review(i)
  /\ UNCHANGED <<client, attempts, posted, sends, challenges, frozen, engine>>

SubmitStep ==
  /\ \/ Confirm /\ UNCHANGED <<challenges, frozen>>
     \/ AnswerDialog
  /\ UNCHANGED <<client, engine>>

AgainStep == SendAnother /\ UNCHANGED <<client, posted, sends, challenges, frozen, engine>>

ServerStep ==
  /\ UNCHANGED <<client, form, attempts, posted, frozen>>
  /\ \E r \in sends :
       \/ Arrive(r) /\ UNCHANGED engine
       \/ Process(r) /\ UNCHANGED challenges

NetworkStep ==
  /\ \/ \E r \in sends : Disconnect(r) /\ UNCHANGED <<session, route, list>>
     \/ \E r \in sends : Receive(r)
  /\ UNCHANGED <<issued, expired, mount, loads, late, overtaken>>
  /\ UNCHANGED <<attempts, posted, challenges, frozen, engine>>

\* The tab; a page of the send route begins a transfer.
SessionStep ==
  \/ /\ \/ \E t \in Tokens : Login(t) \/ Register(t) \/ LateLogin(t) \/ Expire(t)
        \/ LeaveForm \/ LateRefusal \/ SignOut
        \/ GoTo("list")
        \/ \E f \in Filters : Ask(f)
        \/ \E load \in loads : ReceiveList(load)
     /\ Unmounting /\ UNCHANGED <<attempts, posted, sends>>
  \/ GoTo("send") /\ NewForm /\ UNCHANGED <<posted, sends>>
  \/ /\ ReloadTab
     /\ IF route' = "send" THEN NewForm ELSE form' = NoForm /\ UNCHANGED attempts
     /\ sends' = {[r EXCEPT !.open = FALSE] : r \in {s \in sends : s.phase # "answered"}}
     /\ UNCHANGED posted

\* An owner proves who they are, and Redis forgets.
Elsewhere ==
  \/ /\ frozen' \in {frozen \ {w} : w \in frozen}
     /\ UNCHANGED <<verdict, funds, refused>>
  \/ UNCHANGED frozen /\ \E k \in Keys : Engine!Forget(k)

Init ==
  /\ SessionInit
  /\ form = NoForm
  /\ attempts = 0 /\ posted = 0 /\ sends = {}
  /\ challenges = <<>> /\ frozen = {}
  /\ verdict = [k \in Keys |-> "open"] /\ funds = Opening /\ refused = {}
  /\ payer = [k \in Keys |-> Unpaid]

Next ==
  \/ PageStep \/ SubmitStep \/ AgainStep \/ ServerStep \/ NetworkStep
  \/ SessionStep /\ UNCHANGED <<challenges, frozen, engine>>
  \/ Elsewhere /\ UNCHANGED <<client, page, challenges, payer>>

Spec == Init /\ [][Next]_vars

-----------------------------------------------------------------------------
(* Safety *)

\* One transfer begun is at most one payment, however often its request is
\* sent, lost, edited or answered with an error: "the key must identify one
\* INTENT, and stay stable across every retry of that intent".
OnePaymentPerAttempt ==
  \A k, l \in Keys : payer[k] # Unpaid /\ payer[k] = payer[l] => k = l

\* A page that shows a completed transfer shows one that was paid for the
\* transfer begun on it, and never the replay of an earlier one.
CompletedIsThisTransfer ==
  route = "send" /\ form.result = "COMPLETED" => \E k \in Keys : payer[k] = form.attempt
=============================================================================
