------------------------------- MODULE Accounts -------------------------------
(***************************************************************************)
(* The account endpoints the UI talks to: routers/auth.py with the login   *)
(* rate limiter, or their imitation in the demo (demo/mockApi.ts).  The    *)
(* session is a signed cookie: a request acts as the user whose cookie it  *)
(* was sent with, and the browser's cookie changes when the answer of a    *)
(* login, a setup or a logout arrives.  The demo keeps a flag instead.     *)
(***************************************************************************)
EXTENDS QueryCache, Integers, FiniteSets

CONSTANTS
    Names, Passwords,
    SeedUser,      \* the account of the demo, or of a server that has one
    Modes,         \* the builds of a run: "real", "demo"
    MaxAttempts,   \* LOGIN_RATE_LIMIT_MAX_ATTEMPTS
    Window,        \* LOGIN_RATE_LIMIT_WINDOW_SECONDS, in ticks
    Others,        \* the addresses of the other clients
    Threads        \* the pool that runs the endpoints

ASSUME AccountsAssumption ==
    /\ Modes \subseteq {"real", "demo"}
    /\ SeedUser \in [name : Names, password : Passwords]
    /\ MaxAttempts \in Nat \ {0}
    /\ Window \in Nat \ {0}
    /\ "here" \notin Others
    /\ IsFiniteSet(Threads) /\ Threads # {}

VARIABLES
    mode,
    users,         \* the rows of users, in the order of their id
    cookie,        \* whose session the browser's cookie is, 0 for none
    received,      \* changes of pages since unloaded, not executed yet
    checking,      \* logins and setups between their check and their write
    failures       \* the rate limiter: the ages of a key's failed attempts

accountVars == <<users, received, checking, failures>>

Me == <<"currentUser">>
SetupStatus == <<"setupStatus">>

(* This tab, and the clients whose answers nobody here waits for.          *)
Clients == {"here"} \cup Others
LimiterKeys == Clients \cup Names

User(id) == [id |-> id, name |-> users[id].name]
Taken(name, ids) == \E id \in ids : users[id].name = name

AccountsTypeOK ==
    /\ mode \in Modes
    /\ users \in Seq([name : Names, password : Passwords])
    /\ \A i, j \in DOMAIN users : users[i].name = users[j].name => i = j
    /\ cookie \in 0 .. Len(users)
    /\ \A call \in received : mode = "real" /\ call.method # "GET"
    /\ \A r \in checking : r.from \in Clients /\ r.thread \in Threads
    /\ \A r, q \in checking : r.thread = q.thread => r = q
    /\ failures \in [LimiterKeys -> Seq(0 .. Window - 1)]

(* A server without an account, or with one, of which the browser may have *)
(* a session.  The demo is seeded and keeps its flag across page loads.    *)
AccountsInit ==
    /\ mode \in Modes
    /\ users \in {<<>>, <<SeedUser>>}
    /\ mode = "demo" => users # <<>>
    /\ cookie \in 0 .. Len(users)
    /\ received = {}
    /\ checking = {}
    /\ failures = [k \in LimiterKeys |-> <<>>]

(***************************************************************************)
(* LoginRateLimiter.  An attempt is dropped when its age reaches the       *)
(* window; the code drops it when it looks next.                           *)
(***************************************************************************)

Fresh(ages) ==
    LET fresh[n \in 0 .. Len(ages)] ==
            IF n = 0 THEN <<>>
            ELSE IF ages[n] >= Window THEN fresh[n - 1]
            ELSE Append(fresh[n - 1], ages[n])
    IN fresh[Len(ages)]

(* Mutant of IsBlocked: off by one.                                        *)
IsBlockedLate(key) == Len(failures[key]) > MaxAttempts

IsBlocked(key) == Len(failures[key]) >= MaxAttempts

RecordFailures(keys) ==
    failures' = [k \in LimiterKeys |->
        IF k \in keys THEN Append(failures[k], 0) ELSE failures[k]]

Reset(keys) ==
    failures' = [k \in LimiterKeys |-> IF k \in keys THEN <<>> ELSE failures[k]]

Tick ==
    /\ \E k \in LimiterKeys : failures[k] # <<>>
    /\ failures' = [k \in LimiterKeys |->
         Fresh([i \in DOMAIN failures[k] |-> failures[k][i] + 1])]
    /\ UNCHANGED <<client, faults, mode, users, cookie, received, checking>>

(***************************************************************************)
(* The real endpoints.  Each runs on a thread of the pool, whichever is    *)
(* free.  login and setup check first and write after a password was       *)
(* hashed; the others act at once.                                         *)
(***************************************************************************)

Free == Threads \ {r.thread : r \in checking}
Request(call, from) == [call |-> call, from |-> from, thread |-> CHOOSE t \in Free : TRUE]

CheckedHere == {r.call : r \in {q \in checking : q.from = "here"}}
LoginKeys(r) == {r.from, r.call.body[1]}

(* The answer, unless nobody waits for it any more.                        *)
Done(r, ok, data) ==
    /\ client' = IF r.from = "here" /\ r.call \in client.sent
                 THEN Answered(client, Answer(r.call, ok, data)) ELSE client
    /\ received' = IF r.from = "here" THEN received \ {r.call} ELSE received
    /\ checking' = checking \ {r}

Writing(r) ==
    /\ received' = IF r.from = "here" THEN received \ {r.call} ELSE received
    /\ checking' = checking \cup {r}
    /\ UNCHANGED client

CheckLogin(r) ==
    /\ IF \E k \in LoginKeys(r) : IsBlocked(k) THEN Done(r, FALSE, None) ELSE Writing(r)
    /\ UNCHANGED <<users, failures>>

VerifyLogin(r) ==
    LET Matches(id) == users[id] = [name |-> r.call.body[1], password |-> r.call.body[2]]
    IN /\ \/ \E id \in DOMAIN users :
               /\ Matches(id)
               /\ Reset(LoginKeys(r))
               /\ Done(r, TRUE, User(id))
          \/ /\ \A id \in DOMAIN users : ~Matches(id)
             /\ RecordFailures(LoginKeys(r))
             /\ Done(r, FALSE, None)
       /\ UNCHANGED users

CheckSetup(r) ==
    /\ IF users # <<>> THEN Done(r, FALSE, None) ELSE Writing(r)
    /\ UNCHANGED <<users, failures>>

(* Mutant of InsertUser: usernames need not be unique.                     *)
InsertAnyUser(r) ==
    /\ users' = Append(users, [name |-> r.call.body[1], password |-> r.call.body[2]])
    /\ Done(r, TRUE, [id |-> Len(users) + 1, name |-> r.call.body[1]])
    /\ UNCHANGED failures

(* The INSERT; usernames are unique.                                       *)
InsertUser(r) ==
    /\ \/ /\ ~Taken(r.call.body[1], DOMAIN users)
          /\ users' = Append(users, [name |-> r.call.body[1], password |-> r.call.body[2]])
          /\ Done(r, TRUE, [id |-> Len(users) + 1, name |-> r.call.body[1]])
       \/ /\ Taken(r.call.body[1], DOMAIN users)
          /\ Done(r, FALSE, None)
          /\ UNCHANGED users
    /\ UNCHANGED failures

(* get_current_user, and the demo's requireLogin, which asks the flag.     *)
CurrentUser(call) == IF mode = "demo" THEN cookie ELSE call.as
NotAuthenticated(r) == CurrentUser(r.call) = 0 /\ Done(r, FALSE, None) /\ UNCHANGED users

ServeMe(r) ==
    \/ NotAuthenticated(r)
    \/ LET id == CurrentUser(r.call)
       IN /\ id # 0
          /\ Done(r, TRUE, User(id))
          /\ UNCHANGED users

ServeUsername(r) ==
    \/ NotAuthenticated(r)
    \/ LET id == CurrentUser(r.call)
       IN /\ id # 0
          /\ IF Taken(r.call.body, DOMAIN users \ {id})
             THEN Done(r, FALSE, None) /\ UNCHANGED users
             ELSE /\ users' = [users EXCEPT ![id].name = r.call.body]
                  /\ Done(r, TRUE, [id |-> id, name |-> r.call.body])

ServePassword(r) ==
    \/ NotAuthenticated(r)
    \/ LET id == CurrentUser(r.call)
       IN /\ id # 0
          /\ IF users[id].password # r.call.body[1]
             THEN Done(r, FALSE, None) /\ UNCHANGED users
             ELSE /\ users' = [users EXCEPT ![id].password = r.call.body[2]]
                  /\ Done(r, TRUE, None)

(* The session is cleared by the answer; the demo asks for no login.       *)
ServeLogout(r) == Done(r, mode = "demo" \/ CurrentUser(r.call) # 0, None) /\ UNCHANGED users

ServeSetupStatus(r) == Done(r, TRUE, users = <<>>) /\ UNCHANGED users

(* The demo's login, and its missing setup route.                          *)
DemoLogin(r) ==
    /\ LET ok == users[1] = [name |-> r.call.body[1], password |-> r.call.body[2]]
       IN Done(r, ok, IF ok THEN User(1) ELSE None)
    /\ UNCHANGED <<users, failures>>

DemoNotFound(r) == Done(r, FALSE, None) /\ UNCHANGED <<users, failures>>

Simple(r) ==
    CASE r.call.path = Me -> ServeMe(r)
      [] r.call.path = SetupStatus -> ServeSetupStatus(r)
      [] r.call.path = <<"logout">> -> ServeLogout(r)
      [] r.call.path = <<"me", "username">> -> ServeUsername(r)
      [] r.call.path = <<"me", "password">> -> ServePassword(r)

IsLogin(r) == r.call.path = <<"login">>
IsSetup(r) == r.call.path = <<"setup">>

(* The first step of a request the tab has sent.                           *)
Serve(call) ==
    LET r == Request(call, "here")
    IN /\ Free # {}
       /\ call \notin CheckedHere
       /\ mode = "demo" => client.answers = <<>>
       /\ \/ IsLogin(r) /\ mode = "real" /\ CheckLogin(r)
          \/ IsSetup(r) /\ mode = "real" /\ CheckSetup(r)
          \/ IsLogin(r) /\ mode = "demo" /\ DemoLogin(r)
          \/ IsSetup(r) /\ mode = "demo" /\ DemoNotFound(r)
          \/ ~IsLogin(r) /\ ~IsSetup(r) /\ Simple(r) /\ UNCHANGED failures
       /\ UNCHANGED <<mode, cookie, faults>>

(* The second step of a login or a setup.                                  *)
Finish(r) ==
    /\ \/ IsLogin(r) /\ VerifyLogin(r)
       \/ IsSetup(r) /\ InsertUser(r)
    /\ UNCHANGED <<mode, cookie, faults>>

(* Another client guesses a password, or finds the setup page open, as     *)
(* often and as often at once as there are free threads.                   *)
Elsewhere(from, path, body) ==
    LET r == Request(Call("POST", path, 0, body), from)
    IN /\ mode = "real"
       /\ Free # {}
       /\ \/ IsLogin(r) /\ CheckLogin(r)
          \/ IsSetup(r) /\ CheckSetup(r)
       /\ UNCHANGED <<mode, cookie, faults>>
=============================================================================
