----------------------------- MODULE ClientSession -----------------------------
(***************************************************************************)
(* One browser tab of the web client: the session of AuthContext, the      *)
(* route guard, and the pages that load data through useAsync, of which    *)
(* the list of transactions stands for all.  Requests travel with the      *)
(* token that was current when they were sent and are answered in any      *)
(* order, or never; whatever page or session is there by then receives the *)
(* answer, also that of a login whose form was left for the other form.    *)
(***************************************************************************)
EXTENDS Integers, FiniteSets

CONSTANTS
  Tokens,      \* the access tokens that the server may issue
  Owner,       \* Owner[t]: the user whom token t names
  Filters,     \* what the list may be filtered by
  Unfiltered,  \* the filter of a page just mounted
  MaxMounts,   \* bound: pages mounted in the tab
  MaxLoads,    \* bound: mount plus the requests of the list then mounted
  Nothing

ASSUME SessionAssumption ==
  /\ DOMAIN Owner = Tokens
  /\ Unfiltered \in Filters
  /\ MaxMounts \in Nat \ {0} /\ MaxLoads \in Nat \ {0}
  /\ Nothing \notin Tokens

VARIABLES
  session,   \* the token of the session in memory and in sessionStorage
  issued,    \* the tokens issued
  expired,   \* those past their lifetime
  route,     \* the route shown
  mount,     \* how many pages were mounted; the last is the one shown
  list,      \* the state of useAsync in the list page
  loads,     \* the list requests on their way
  late,      \* a login whose form was left is on its way
  overtaken  \* the mount whose session such a login replaced under it, or 0

client == <<session, issued, expired, route, mount, list, loads, late, overtaken>>

-----------------------------------------------------------------------------
Routes == {"login", "list", "send"}
Contents == [user : {Owner[t] : t \in Tokens}, filter : Filters]

\* No list is mounted.
NoList == [filter |-> Unfiltered, id |-> 0, state |-> "failed", data |-> Nothing]

\* useAsync: the effect that runs on mount and whenever a dependency changes.
Load(m, id, token, f, inFlight) ==
  /\ list' = [filter |-> f, id |-> id, state |-> "loading", data |-> Nothing]
  /\ loads' = inFlight \cup {[mount |-> m, id |-> id, token |-> token, filter |-> f]}

\* A page is mounted: a new instance, with a state of its own.
Mount(r, token, inFlight) ==
  /\ mount < MaxMounts
  /\ mount' = mount + 1
  /\ route' = r
  /\ IF r = "list" THEN Load(mount + 1, 1, token, Unfiltered, inFlight)
                   ELSE list' = NoList /\ loads' = inFlight

\* RequireAuth: without a session every route but the two forms is /login.
Guarded == session # Nothing

\* logout, and the handler of a 401, whichever request it answers: the page
\* shown is unmounted.
ClearSession == session' = Nothing /\ route' = "login" /\ list' = NoList

\* Mutant: a superseded request may still write its answer.
Awaited_AnyRequest(load) == route = "list" /\ load.mount = mount

\* The stale-response and the unmount guard of useAsync.
Awaited(load) == route = "list" /\ load.mount = mount /\ load.id = list.id

Settle(load, state, data) ==
  list' = IF Awaited(load) THEN [list EXCEPT !.state = state, !.data = data] ELSE list

-----------------------------------------------------------------------------
(* The session *)

\* persist stores the token, and the form navigates to the wallet.
SignIn(t) ==
  /\ t \notin issued
  /\ issued' = issued \cup {t}
  /\ session' = t
  /\ UNCHANGED expired

\* LoginPage, answered with a token.  A refused login is a 401, which clears a
\* session that is not there, and is displayed.
Login(t) ==
  /\ route = "login"
  /\ SignIn(t)
  /\ Mount("list", t, loads)
  /\ UNCHANGED <<late, overtaken>>

\* RegisterPage: a user who has never signed in.
Register(t) == (\A u \in issued : Owner[u] # Owner[t]) /\ Login(t)

\* Login and register are linked to each other, and the form that is left may
\* have been submitted.
LeaveForm ==
  /\ route = "login" /\ ~late
  /\ late' = TRUE
  /\ Mount("login", Nothing, loads)
  /\ UNCHANGED <<session, issued, expired, overtaken>>

\* Its answer: the wallet is mounted, unless it is the page shown already; or a
\* 401.
LateLogin(t) ==
  /\ late /\ late' = FALSE
  /\ SignIn(t)
  /\ \/ Mount("list", t, loads) /\ UNCHANGED overtaken
     \/ route = "list" /\ overtaken' = mount /\ UNCHANGED <<route, mount, list, loads>>

LateRefusal ==
  /\ late /\ late' = FALSE
  /\ ClearSession
  /\ UNCHANGED <<issued, expired, mount, loads, overtaken>>

SignOut ==
  /\ route # "login"
  /\ ClearSession
  /\ UNCHANGED <<issued, expired, mount, loads, late, overtaken>>

Expire(t) ==
  /\ t \in issued \ expired
  /\ expired' = expired \cup {t}
  /\ UNCHANGED <<session, issued, route, mount, list, loads, late, overtaken>>

\* A link to another page; there are several lists.  With a session, the forms
\* lead to the wallet.
GoTo(r) ==
  /\ Guarded /\ (r = "list" \/ route # r)
  /\ Mount(r, session, loads)
  /\ UNCHANGED <<session, issued, expired, late, overtaken>>

\* The tab is reloaded: every request is forgotten, and restoreSession drops a
\* token that the tab knows to be expired.
ReloadTab ==
  /\ \/ session' = session /\ Mount(route, session, {})
     \/ /\ session \in expired
        /\ session' = Nothing /\ Mount("login", Nothing, {})
  /\ late' = FALSE
  /\ UNCHANGED <<issued, expired, overtaken>>

-----------------------------------------------------------------------------
(* The list *)

\* Another filter, the retry button of the error banner, or "Refresh".
Ask(f) ==
  /\ route = "list" /\ mount + list.id < MaxLoads
  /\ Load(mount, list.id + 1, session, f, loads)
  /\ UNCHANGED <<session, issued, expired, route, mount, late, overtaken>>

\* JwtAuthGuard lets a live token through: the list is the owner's.
Answered(load) ==
  /\ load.token \notin expired
  /\ Settle(load, "shown", [user |-> Owner[load.token], filter |-> load.filter])
  /\ UNCHANGED <<session, route>>

\* The request fails on the network, or on the server.
Failed(load) ==
  /\ Settle(load, "failed", Nothing)
  /\ UNCHANGED <<session, route>>

\* An expired token is answered 401.
Unauthorised(load) ==
  /\ load.token \in expired
  /\ ClearSession

ReceiveList(load) ==
  /\ Answered(load) \/ Failed(load) \/ Unauthorised(load)
  /\ loads' = loads \ {load}
  /\ UNCHANGED <<issued, expired, mount, late, overtaken>>

-----------------------------------------------------------------------------
SessionInit ==
  /\ session = Nothing /\ issued = {} /\ expired = {}
  /\ route = "login" /\ mount = 0
  /\ list = NoList /\ loads = {}
  /\ late = FALSE /\ overtaken = 0

SessionTypeOK ==
  /\ issued \subseteq Tokens /\ expired \subseteq issued
  /\ session \in issued \cup {Nothing}
  /\ route \in Routes /\ (route = "login" <=> session = Nothing)
  /\ mount \in 0..MaxMounts
  /\ list \in [filter : Filters, id : 0..MaxLoads, state : {"loading", "shown", "failed"},
               data : Contents \cup {Nothing}]
  /\ late \in BOOLEAN /\ overtaken \in 0..MaxMounts
  /\ loads \subseteq [mount : 1..MaxMounts, id : 1..MaxLoads, token : Tokens, filter : Filters]

\* The list shown is that of the user signed in and of the filter selected,
\* whatever was asked before and by whom: an answer that another request, page
\* or session has superseded is never shown.  Only the answer to a login whose
\* form was left may change the user under the page that is shown.
ShownDataIsCurrent ==
  route = "list" /\ list.state = "shown" =>
    /\ list.data.filter = list.filter
    /\ list.data.user = Owner[session] \/ overtaken = mount
=============================================================================
