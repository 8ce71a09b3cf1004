----------------------------- MODULE SessionGate -----------------------------
(***************************************************************************)
(* Signing in and out: the routes and their two guards (App.tsx,           *)
(* ProtectedRoute, RedirectIfAuthenticated), the login, setup and account   *)
(* pages, and the accounts they talk to: routers/auth.py with its rate     *)
(* limiter, or the demo's mockApi.ts.  One browser tab; other clients sign *)
(* in, set up and let sessions end.                                        *)
(***************************************************************************)
EXTENDS Accounts

CONSTANTS
    Credentials,   \* <<name, password>>: what the visitor types
    Guesses,       \* the same, of other clients
    Budgets        \* bound on a run: how many forms, page loads, losses and changes
                   \* of the session elsewhere it has, and whether others sign in

ASSUME SessionAssumption ==
    /\ Credentials \subseteq Names \X Passwords
    /\ Guesses \subseteq Names \X Passwords
    /\ Budgets \subseteq [events : Nat, others : BOOLEAN]

VARIABLES
    page,          \* the location: a path and its returnTo
    pending,       \* the forms whose mutation is pending
    budget,        \* what is left of it
    left,          \* history: the visitor logged out, and nobody signed in since
    behind         \* history: a rename the tab was not told of, or told too early

vars == <<client, faults, mode, accountVars, cookie, page, pending, budget, left, behind>>

(***************************************************************************)
(* Routes and guards                                                       *)
(***************************************************************************)

(* '/' and '/account' stand for PROTECTED_ROUTES.                          *)
Protected == {"home", "account"}
Guest == {"login", "setup"}
Paths == Protected \cup Guest
Forms == {"login", "setup", "logout", "username", "password"}

(* A returnTo that is no path of the app falls back to '/'.                *)
SanitizeReturnTo(value) == IF value \in Paths THEN value ELSE "home"
Location(path, returnTo) == [at |-> path, back |-> SanitizeReturnTo(returnTo)]

ProtectedRouteAdmits(c) == ~IsLoading(c, Me) /\ ~IsError(c, Me) /\ Data(c, Me) # None

(* Mutant of RedirectIfAuthenticatedAdmits: an error is not admitted.      *)
GuestWithoutError(c) == ~IsLoading(c, Me) /\ ~IsError(c, Me) /\ Data(c, Me) = None

RedirectIfAuthenticatedAdmits(c) == ~IsLoading(c, Me) /\ Data(c, Me) = None

(* The page that is mounted: none behind a guard that waits or redirects.  *)
Screen(c, path) ==
    IF \/ path \in Protected /\ ProtectedRouteAdmits(c)
       \/ path \in Guest /\ RedirectIfAuthenticatedAdmits(c)
    THEN path ELSE "none"

ScreenQueries(screen) ==
    CASE screen \in Guest -> {SetupStatus}
      [] screen = "account" -> {Me}
      [] OTHER -> {}

Showing == Screen(client, page.at)
Displayed == {Me} \cup ScreenQueries(Showing)

(* What React makes of a client and a location: a guard that is mounted    *)
(* fetches the user, a page that is mounted its queries; a page that goes  *)
(* takes its forms with it.                                                *)
Render(c, location, waiting, as) ==
    LET remounted == (location.at \in Guest) # (page.at \in Guest)
        guarded == IF remounted THEN FetchAll(c, {Me}, as) ELSE c
        screen == Screen(guarded, location.at)
    IN /\ client' = IF screen # Showing
                    THEN FetchAll(guarded, ScreenQueries(screen), as) ELSE guarded
       /\ page' = location
       /\ pending' = IF screen # Showing THEN {} ELSE waiting

(* The form of LoginPage or SetupPage, not its spinner or its redirect.    *)
FormShown ==
    /\ Showing \in Guest
    /\ ~IsLoading(client, SetupStatus)
    /\ (Data(client, SetupStatus) = TRUE) => Showing = "setup"
    /\ (Data(client, SetupStatus) = FALSE) => Showing = "login"

Redirect(path, returnTo) ==
    /\ Render(client, Location(path, returnTo), pending, cookie)
    /\ UNCHANGED <<mode, accountVars, cookie, faults, left, behind, budget>>

(* The redirect each guard and page renders, when it does.                 *)
ProtectedRoute ==
    /\ page.at \in Protected
    /\ ~IsLoading(client, Me)
    /\ IsError(client, Me) \/ Data(client, Me) = None

RedirectIfAuthenticated ==
    /\ page.at \in Guest
    /\ ~IsLoading(client, Me)
    /\ Data(client, Me) # None

LoginPageToSetup == Showing = "login" /\ Data(client, SetupStatus) = TRUE
SetupPageToLogin == Showing = "setup" /\ Data(client, SetupStatus) = FALSE

Redirects ==
    \/ ProtectedRoute /\ Redirect("login", page.at)
    \/ RedirectIfAuthenticated /\ Redirect(page.back, None)
    \/ LoginPageToSetup /\ Redirect("setup", None)
    \/ SetupPageToLogin /\ Redirect("login", None)

(* React runs the effects of what it rendered before the visitor's next    *)
(* event; in the demo a handler and its callbacks are one task.            *)
Idle ==
    /\ ~ProtectedRoute /\ ~RedirectIfAuthenticated
    /\ ~LoginPageToSetup /\ ~SetupPageToLogin
    /\ mode = "demo" => client.answers = <<>>

(***************************************************************************)
(* The visitor                                                             *)
(***************************************************************************)

(* The bound.  A fetch that every page load starts over would never end.   *)
Event ==
    /\ budget.events > 0
    /\ budget' = [budget EXCEPT !.events = @ - 1]

(* mutate() of a form: its button is disabled while its call is pending.   *)
(* Bound: one call of a kind in flight, also when the page was left and    *)
(* opened again meanwhile.                                                 *)
Submit(form, method, path, body) ==
    /\ Idle
    /\ form \notin pending
    /\ \A call \in Mutating(client) \cup received \cup CheckedHere : call.path # path
    /\ Event
    /\ client' = Send(client, Call(method, path, cookie, body))
    /\ pending' = pending \cup {form}
    /\ UNCHANGED <<mode, accountVars, cookie, page, left, behind, faults>>

(* LoginPage: the two inputs and the button.                               *)
Login(name, password) ==
    /\ FormShown /\ Showing = "login"
    /\ Submit("login", "POST", <<"login">>, <<name, password, page.back>>)

(* SetupPage: the button is disabled when the two passwords differ.        *)
Setup(name, password) ==
    /\ FormShown /\ Showing = "setup"
    /\ Submit("setup", "POST", <<"setup">>, <<name, password>>)

ChangeUsername(name) ==
    /\ Showing = "account"
    /\ Submit("username", "PATCH", <<"me", "username">>, name)

(* AccountPage.handleSubmit sends nothing when the confirmation differs.   *)
ChangePassword(current, new, confirm) ==
    /\ Showing = "account"
    /\ new = confirm
    /\ Submit("password", "PATCH", <<"me", "password">>, <<current, new>>)

(* The button of Layout, on every protected page.                          *)
Logout ==
    /\ Showing \in Protected
    /\ Submit("logout", "POST", <<"logout">>, None)

(* A link of Layout.                                                       *)
Navigate(path) ==
    /\ Idle
    /\ Showing \in Protected \ {path}
    /\ Render(client, Location(path, None), pending, cookie)
    /\ UNCHANGED <<mode, accountVars, cookie, faults, left, behind, budget>>

(* A page load: an address is typed, or the tab is reloaded.  Nobody waits *)
(* for the calls in flight any more; a change that reached the server is   *)
(* executed there all the same, and what is being checked goes on.  The    *)
(* demo's server is unloaded with the page.                                *)
Load(location) ==
    /\ Idle
    /\ page' = location
    /\ client' = FetchAll(EmptyClient({Me, SetupStatus}), {Me}, cookie)
    /\ \E kept \in SUBSET {call \in client.sent \ CheckedHere : call.method # "GET"} :
        /\ mode = "demo" => kept = {}
        /\ received' = received \cup kept
    /\ pending' = {}
    /\ Event
    /\ UNCHANGED <<mode, users, checking, failures, cookie, faults, left, behind>>

Focus ==
    /\ Idle
    /\ LET c == FetchAll(client, Displayed, cookie)
       IN Render(c, page, pending, cookie)
    /\ UNCHANGED <<mode, accountVars, cookie, faults, left, behind, budget>>

(* DemoBanner's button: the seed, and a reload.                            *)
ResetDemo ==
    /\ mode = "demo" /\ Idle
    /\ users' = <<SeedUser>>
    /\ cookie' = 0
    /\ client' = FetchAll(EmptyClient({Me, SetupStatus}), {Me}, 0)
    /\ pending' = {}
    /\ Event
    /\ UNCHANGED <<mode, received, checking, failures, faults, page, left, behind>>

(***************************************************************************)
(* Answers                                                                 *)
(***************************************************************************)

FormOf(call) ==
    CASE call.path = <<"login">> -> "login"
      [] call.path = <<"setup">> -> "setup"
      [] call.path = <<"logout">> -> "logout"
      [] call.path = <<"me", "username">> -> "username"
      [] call.path = <<"me", "password">> -> "password"

(* Whether it succeeded is only displayed.                                 *)
Ended(call) == pending \ {FormOf(call)}

QueryAnswered(a, c) ==
    /\ a.call.method = "GET"
    /\ Render(Settle(c, a), page, pending, cookie)
    /\ UNCHANGED <<cookie, left>>

(* No mutation has an onError.                                             *)
MutationFailed(a, c) ==
    /\ a.call.method # "GET" /\ ~a.ok
    /\ Render(c, page, Ended(a.call), cookie)
    /\ UNCHANGED <<cookie, left>>

(* onSuccess of login and setup: the answer's cookie, the user, the way    *)
(* back.                                                                   *)
SignedIn(a, c) ==
    /\ a.ok /\ a.call.path \in {<<"login">>, <<"setup">>}
    /\ cookie' = a.data.id
    /\ LET returnTo == IF a.call.path = <<"login">> THEN a.call.body[3] ELSE "home"
       IN Render(SetQueryData(c, Me, a.data), Location(returnTo, None),
                 Ended(a.call), a.data.id)
    /\ left' = FALSE

(* Mutant of LoggedOut: the cache is kept.                                 *)
LoggedOutKeepingCache(a, c) ==
    /\ a.ok /\ a.call.path = <<"logout">>
    /\ cookie' = 0
    /\ Render(c, Location("login", None), Ended(a.call), 0)
    /\ left' = (Mutating(c) = {})

(* onSuccess of logout: the cache is cleared.  A mutation in flight is not *)
(* stopped by that; left is about a logout without one.                    *)
LoggedOut(a, c) ==
    /\ a.ok /\ a.call.path = <<"logout">>
    /\ cookie' = 0
    /\ Render(Clear(c), Location("login", None), Ended(a.call), 0)
    /\ left' = (Mutating(c) = {})

(* Mutant of Renamed: the cached user stays.                               *)
RenamedElsewhere(a, c) ==
    /\ a.ok /\ a.call.path = <<"me", "username">>
    /\ Render(c, page, Ended(a.call), cookie)
    /\ UNCHANGED <<cookie, left>>

Renamed(a, c) ==
    /\ a.ok /\ a.call.path = <<"me", "username">>
    /\ Render(SetQueryData(c, Me, a.data), page, Ended(a.call), cookie)
    /\ UNCHANGED <<cookie, left>>

PasswordChanged(a, c) ==
    /\ a.ok /\ a.call.path = <<"me", "password">>
    /\ Render(c, page, Ended(a.call), cookie)
    /\ UNCHANGED <<cookie, left>>

(* An answer that writes the user, and names it as it no longer is.        *)
WritesUser(a) == a.ok /\ a.call.path \in {Me, <<"login">>, <<"setup">>, <<"me", "username">>}
Outdated(a) == WritesUser(a) /\ a.data # User(a.data.id)

(* Renamed's setQueryData leaves the fetch in flight alone: an older       *)
(* answer overwrites it later.                                             *)
Overtaken(a) ==
    /\ a.call.path = <<"me", "username">>
    /\ \E older \in AnswersOf(client) : Outdated(older)

Deliver(i) ==
    LET a == client.answers[i]
        c == WithoutAnswer(i)
    IN /\ \/ QueryAnswered(a, c)
          \/ MutationFailed(a, c)
          \/ SignedIn(a, c)
          \/ LoggedOut(a, c)
          \/ Renamed(a, c)
          \/ PasswordChanged(a, c)
       /\ behind' = (behind \/ Overtaken(a))
       /\ UNCHANGED <<mode, accountVars, faults, budget>>

(***************************************************************************)
(* Around the tab                                                          *)
(***************************************************************************)

ChangeElsewhere ==
    /\ mode = "real"
    /\ Event
    /\ UNCHANGED <<client, faults, mode, accountVars, page, pending, behind>>

(* Another client guesses a password, or finds the setup page open.        *)
Attempt(path, body) ==
    /\ budget.others
    /\ \E from \in Others : Elsewhere(from, path, body)
    /\ UNCHANGED <<page, pending, budget, left, behind>>

(* The cookie expires, another tab logs out, or the server restarts with a *)
(* generated SECRET_KEY.                                                   *)
SessionEnds ==
    /\ cookie # 0
    /\ cookie' = 0
    /\ ChangeElsewhere
    /\ UNCHANGED left

(* Another tab of the browser signs in.                                    *)
SignInElsewhere ==
    /\ cookie = 0
    /\ cookie' \in DOMAIN users
    /\ ChangeElsewhere
    /\ left' = FALSE

Init ==
    /\ AccountsInit
    /\ faults = 0
    /\ page = Location("account", None)
    /\ client = FetchAll(EmptyClient({Me, SetupStatus}), {Me}, cookie)
    /\ pending = {}
    /\ budget \in Budgets
    /\ left = FALSE
    /\ behind = FALSE

Visitor ==
    \/ \E typed \in Credentials :
        Login(typed[1], typed[2]) \/ Setup(typed[1], typed[2])
    \/ \E n \in Names : ChangeUsername(n)
    \/ \E p, q, confirm \in Passwords : p # q /\ ChangePassword(p, q, confirm)
    \/ Logout
    \/ \E path \in Protected : Navigate(path)
    \/ Load(page)
    \/ Load(Location("account", None))
    \/ Focus
    \/ ResetDemo

(* A fetch of the user that succeeds makes up for what went unheard, when  *)
(* nothing outdated can arrive after it.                                   *)
Heard(call) ==
    /\ Serve(call)
    /\ behind' = (behind /\ ~(/\ Fetches(call, Me) /\ CurrentUser(call) # 0
                             /\ \A a \in AnswersOf(client) : ~Outdated(a)))

(* A change of an earlier page, of which this one hears nothing.           *)
Unheard(call) ==
    /\ Serve(call)
    /\ behind' = (behind \/ \E id \in DOMAIN users : users'[id].name # users[id].name)

Server ==
    \/ \E call \in client.sent : Heard(call)
    \/ \E call \in received : Unheard(call)
    \/ (\E r \in checking : Finish(r)) /\ UNCHANGED behind
    \/ Tick /\ UNCHANGED behind

Next ==
    \/ Visitor
    \/ Redirects
    \/ Server /\ UNCHANGED <<page, pending, budget, left>>
    \/ \E i \in Arrivable : Deliver(i)
    \/ mode = "real" /\ NetworkFails /\ Event
         /\ UNCHANGED <<mode, accountVars, cookie, page, pending, left, behind>>
    \/ \E guess \in Guesses :
        Attempt(<<"login">>, Append(guess, "home")) \/ Attempt(<<"setup">>, guess)
    \/ SessionEnds
    \/ SignInElsewhere

Spec == Init /\ [][Next]_vars

(* A fetch is answered, in the demo when its handler's turn comes and      *)
(* otherwise when a thread is free, and its answer arrives: a query has    *)
(* one at a time, and the demo one altogether, so that this is weak        *)
(* fairness of its Deliver.  A thread gets done; redirects are followed.   *)
(* Nothing is assumed of the visitor.                                      *)
Fairness ==
    /\ \A k \in {Me, SetupStatus} :
        /\ SF_vars(/\ \E call \in client.sent : Fetches(call, k) /\ Heard(call)
                   /\ UNCHANGED <<page, pending, budget, left>>)
        /\ []<>(\A a \in AnswersOf(client) : ~Fetches(a.call, k))
    /\ []<>(mode = "demo" => client.answers = <<>>)
    /\ WF_vars(\E r \in checking : Finish(r) /\ UNCHANGED <<page, pending, budget, left, behind>>)
    /\ WF_vars(Redirects)

FairSpec == Spec /\ Fairness

(***************************************************************************)
(* Properties                                                              *)
(***************************************************************************)

(* Types, and two facts the pages rely on: usernames are unique although   *)
(* two setups may pass their check, and a query has one fetch in flight.   *)
TypeOK ==
    /\ AccountsTypeOK
    /\ Data(client, Me) \in {None} \cup [id : DOMAIN users, name : Names]
    /\ Data(client, SetupStatus) \in {None} \cup BOOLEAN
    /\ \A call \in client.sent : call.as \in 0 .. Len(users)
    /\ \A k \in DOMAIN client.cache :
        Cardinality({call \in CallsOf(client) : Fetches(call, k)}) <= 1
    /\ page \in [at : Paths, back : Paths]
    /\ pending \subseteq Forms

(* After a logout that had no other change in flight, the tab shows no     *)
(* page behind ProtectedRoute until somebody signs in: neither a fetch     *)
(* that was in flight nor the cached user brings one back.                 *)
LoggedOutStaysOut == left => Showing \notin Protected

(* At rest, the name AccountPage and the header know is the account's,     *)
(* although a rename writes the cache while fetches of it are in flight,   *)
(* until a rename goes unheard or its answer comes before an older one.    *)
AccountIsCurrent ==
    /\ faults = 0 /\ ~behind
    /\ CallsOf(client) = {}
    /\ Showing \in Protected
    /\ cookie # 0 /\ Data(client, Me).id = cookie
    => Data(client, Me) = User(cookie)

(* The limiter checks and records in two critical sections: as many        *)
(* attempts pass it as threads were verifying at once, but no more.        *)
AttemptsBounded ==
    \A k \in LimiterKeys : Len(failures[k]) < MaxAttempts + Cardinality(Threads)

(* Who is not taken for signed in is offered a form to sign in, through    *)
(* the guards' spinners and the redirects between login and setup.         *)
FormOffered ==
    []<>(FormShown \/ Data(client, Me) # None)

(* ProtectedRoute.tsx:23: a visitor who is sent away from a protected page *)
(* finds the login form, unless the session or its query recovers.         *)
SentAwayFindsForm ==
    /\ page.at \in Protected
    /\ IsError(client, Me)
    /\ cookie = 0
    ~> (FormShown \/ cookie # 0 \/ ~IsError(client, Me))
=============================================================================
