--------------------------- MODULE SessionGateProofs ---------------------------
(***************************************************************************)
(* Proofs about SessionGate for every value of its constants: any names    *)
(* and passwords, any limit and window of the rate limiter, any number of  *)
(* page loads, losses and forms, any number of threads and of clients.      *)
(*                                                                         *)
(* The inductive invariant is SessionInv; its parts say what the tab       *)
(* (ClientInv), the accounts (UsersInv, CheckingInv), what earlier pages    *)
(* sent (ReceivedInv), the rate limiter (LimiterInv) and a tab that was    *)
(* logged out (OutInv) rely on.                                            *)
(* NameInv, over it, is about the account's name.                          *)
(***************************************************************************)
EXTENDS SessionGate, QueryCacheProofs

Keys == {Me, SetupStatus}
Persons == [id : Nat \ {0}, name : Names]
Values == {None} \cup BOOLEAN \cup Persons
Locations == [at : Paths, back : Paths]

(* What the tab may send.                                                  *)
Requests ==
    [method : {"GET"}, path : Keys, as : Nat, body : {None}]
    \cup [method : {"POST"}, path : {<<"login">>}, as : Nat,
          body : Names \X Passwords \X Paths]
    \cup [method : {"POST"}, path : {<<"setup">>}, as : Nat,
          body : Names \X Passwords]
    \cup [method : {"POST"}, path : {<<"logout">>}, as : Nat, body : {None}]
    \cup [method : {"PATCH"}, path : {<<"me", "username">>}, as : Nat, body : Names]
    \cup [method : {"PATCH"}, path : {<<"me", "password">>}, as : Nat,
          body : Passwords \X Passwords]

Answers == [call : Requests, ok : BOOLEAN, data : Values]

(* What an answer brings is about one of n accounts.                       *)
AnswerOK(a, n) ==
    a.ok =>
        /\ a.call.path \in {Me, <<"login">>, <<"setup">>, <<"me", "username">>}
             => a.data \in [id : 1 .. n, name : Names]
        /\ a.call.path = SetupStatus => a.data \in BOOLEAN

ClientOK(c, n) ==
    /\ IsClient(c, Keys, Values, Requests, Answers)
    /\ Data(c, Me) \in {None} \cup [id : 1 .. n, name : Names]
    /\ Data(c, SetupStatus) \in {None} \cup BOOLEAN
    /\ \A call \in CallsOf(c) : call.as <= n
    /\ \A a \in AnswersOf(c) : AnswerOK(a, n)
    /\ OneFetchEach(c)

ClientInv ==
    /\ ClientOK(client, Len(users))
    /\ page \in Locations
    /\ pending \subseteq Forms

UsersInv ==
    /\ mode \in Modes
    /\ users \in Seq([name : Names, password : Passwords])
    /\ \A i, j \in DOMAIN users : users[i].name = users[j].name => i = j
    /\ mode = "demo" => Len(users) = 1 /\ checking = {}
    /\ cookie \in 0 .. Len(users)

IsEntry(call) == call.path \in {<<"login">>, <<"setup">>}

(* A login or a setup of some client, on a thread of the pool.             *)
IsChecked(r) ==
    /\ r.thread \in Threads
    /\ r.from \in Clients
    /\ r.call.method = "POST"
    /\ IsEntry(r.call)
    /\ r.call.body[1] \in Names
    /\ r.call.body[2] \in Passwords

CheckingInv ==
    /\ \A r \in checking : IsChecked(r)
    /\ \A r, q \in checking : r.thread = q.thread => r = q

(* What earlier pages left to be executed.                                 *)
ReceivedInv ==
    \A call \in received :
        /\ mode = "real"
        /\ call \in Requests /\ call.method # "GET"
        /\ call.as <= Len(users)

(* A login that passed the limiter is counted as the failure it may be.    *)
Trying(k) == {r.thread : r \in {q \in checking : IsLogin(q) /\ k \in LoginKeys(q)}}

LimiterInv ==
    /\ failures \in [LimiterKeys -> Seq(0 .. Window - 1)]
    /\ \A k \in LimiterKeys :
        Len(failures[k]) + Cardinality(Trying(k)) < MaxAttempts + Cardinality(Threads)

(* A tab that was logged out has no user, no session to ask for one with,  *)
(* no answer that brings one, and no change in flight but a new login.     *)
Out(c) ==
    /\ Data(c, Me) = None
    /\ \A call \in CallsOf(c) :
        /\ Fetches(call, Me) => call.as = 0
        /\ call.method # "GET" => IsEntry(call)
    /\ \A a \in AnswersOf(c) : Fetches(a.call, Me) => ~a.ok

OutInv == left => cookie = 0 /\ Out(client)

SessionInv ==
    /\ ClientInv
    /\ UsersInv
    /\ CheckingInv
    /\ ReceivedInv
    /\ LimiterInv
    /\ OutInv


USE DEF Keys, Persons, Locations

(***************************************************************************)
(* Tabs                                                                    *)
(***************************************************************************)

LEMMA Paths2 ==
    /\ Me # SetupStatus
    /\ Me \notin {<<"login">>, <<"setup">>, <<"logout">>, <<"me", "username">>, <<"me", "password">>}
    /\ SetupStatus \notin
         {<<"login">>, <<"setup">>, <<"logout">>, <<"me", "username">>, <<"me", "password">>}
    /\ <<"login">> \notin {<<"setup">>, <<"logout">>, <<"me", "username">>, <<"me", "password">>}
    /\ <<"setup">> \notin {<<"logout">>, <<"me", "username">>, <<"me", "password">>}
    /\ <<"logout">> \notin {<<"me", "username">>, <<"me", "password">>}
    /\ <<"me", "username">> # <<"me", "password">>
BY DEF Me, SetupStatus

LEMMA Sessions ==
    ASSUME NEW n \in Nat, NEW who \in 0 .. n
    PROVE  who <= n /\ who \in Nat
OBVIOUS

LEMMA CallsTyped ==
    ASSUME NEW c, NEW n, ClientOK(c, n)
    PROVE  /\ CallsOf(c) \subseteq Requests
           /\ AnswersOf(c) \subseteq Answers
           /\ \A a \in AnswersOf(c) : a.call \in CallsOf(c)
<1>1. c.sent \subseteq Requests /\ AnswersOf(c) \subseteq Answers
  BY ClientFields DEF ClientOK
<1>2. \A a \in Answers : a.call \in Requests
  BY DEF Answers
<1> QED
  BY <1>1, <1>2 DEF CallsOf

(* A request is a GET of a query, and what its body is depends on its path. *)
LEMMA RequestShapes ==
    ASSUME NEW call \in Requests
    PROVE  /\ call.method = "GET" <=> call.path \in Keys
           /\ call.as \in Nat
           /\ call.path \in Keys \cup {<<"login">>, <<"setup">>, <<"logout">>,
                                       <<"me", "username">>, <<"me", "password">>}
           /\ call.path = <<"login">> => call.body \in Names \X Passwords \X Paths
           /\ call.path = <<"setup">> => call.body \in Names \X Passwords
           /\ call.path = <<"me", "username">> => call.body \in Names
           /\ call.path = <<"me", "password">> => call.body \in Passwords \X Passwords
           /\ IsEntry(call) => call.method = "POST"
BY Paths2 DEF Requests, IsEntry

LEMMA ExtendsOK ==
    ASSUME NEW n \in Nat, NEW who \in 0 .. n, NEW c, NEW d, ClientOK(c, n),
           Extends(c, d, Keys, who), IsClient(d, Keys, Values, Requests, Answers)
    PROVE  ClientOK(d, n)
<1>1. /\ AnswersOf(d) = AnswersOf(c)
      /\ \A call \in CallsOf(d) \ CallsOf(c) : IsFetch(call, Keys, who)
  BY ExtendsCalls
<1>2. \A call \in CallsOf(d) : call.as <= n
  <2> TAKE call \in CallsOf(d)
  <2>1. CASE call \in CallsOf(c)
    BY <2>1 DEF ClientOK
  <2>2. CASE call \notin CallsOf(c)
    <3>1. call.as = who
      BY <1>1, <2>2, IsFetchGet
    <3> QED
      BY <3>1, Sessions
  <2> QED
    BY <2>1, <2>2
<1>3. OneFetchEach(d)
  BY ExtendsOneFetch DEF ClientOK
<1>4. d.cache = c.cache
  BY DEF Extends
<1> QED
  BY <1>1, <1>2, <1>3, <1>4 DEF ClientOK, Data

(* What is left of a tab: fewer calls and answers, the data of another.    *)
LEMMA NarrowerOK ==
    ASSUME NEW n, NEW c, NEW d, ClientOK(c, n),
           IsClient(d, Keys, Values, Requests, Answers),
           CallsOf(d) \subseteq CallsOf(c), AnswersOf(d) \subseteq AnswersOf(c),
           Data(d, Me) \in {None} \cup [id : 1 .. n, name : Names],
           Data(d, SetupStatus) \in {None} \cup BOOLEAN
    PROVE  ClientOK(d, n)
BY DEF ClientOK, OneFetchEach

LEMMA GrowOK ==
    ASSUME NEW n \in Nat, NEW m \in Nat, n <= m, NEW c, ClientOK(c, n)
    PROVE  ClientOK(c, m)
<1>1. CallsOf(c) \subseteq Requests
  BY CallsTyped
<1>2. \A call \in CallsOf(c) : call.as <= m
  BY <1>1, RequestShapes DEF ClientOK
<1>3. [id : 1 .. n, name : Names] \subseteq [id : 1 .. m, name : Names]
  OBVIOUS
<1>4. \A a \in AnswersOf(c) : AnswerOK(a, m)
  BY <1>3 DEF ClientOK, AnswerOK
<1>5. Data(c, Me) \in {None} \cup [id : 1 .. m, name : Names]
  BY <1>3 DEF ClientOK
<1> QED
  BY <1>2, <1>4, <1>5 DEF ClientOK

LEMMA FetchAllOK ==
    ASSUME NEW n \in Nat, NEW who \in 0 .. n, NEW c, ClientOK(c, n), NEW keys \in SUBSET Keys
    PROVE  /\ ClientOK(FetchAll(c, keys, who), n)
           /\ Extends(c, FetchAll(c, keys, who), Keys, who)
<1>1. \A k \in Keys : Call("GET", k, who, None) \in Requests
  <2> TAKE k \in Keys
  <2>1. who \in Nat
    BY Sessions
  <2> HIDE DEF Keys
  <2>2. Call("GET", k, who, None)
          \in [method : {"GET"}, path : Keys, as : Nat, body : {None}]
    BY <2>1 DEF Call
  <2> QED
    BY <2>2 DEF Requests
<1>2. IsClient(c, Keys, Values, Requests, Answers)
  BY DEF ClientOK
<1>3. /\ IsClient(FetchAll(c, keys, who), Keys, Values, Requests, Answers)
      /\ Extends(c, FetchAll(c, keys, who), Keys, who)
  BY <1>1, <1>2, FetchAllExtends
<1> QED
  BY <1>3, ExtendsOK

(* A page load.                                                            *)
LEMMA EmptyOK ==
    ASSUME NEW n \in Nat, NEW who \in 0 .. n
    PROVE  LET c == EmptyClient({Me, SetupStatus})
               d == FetchAll(c, {Me}, who)
           IN /\ ClientOK(d, n)
              /\ Extends(c, d, Keys, who)
              /\ CallsOf(c) = {} /\ c.sent = {} /\ AnswersOf(c) = {}
              /\ Data(c, Me) = None
<1> DEFINE c == EmptyClient({Me, SetupStatus})
<1>1. /\ IsClient(c, Keys, Values, Requests, Answers)
      /\ c.sent = {} /\ c.answers = <<>>
      /\ Data(c, Me) = None /\ Data(c, SetupStatus) = None
  BY DEF EmptyClient, EmptyEntry, IsClient, Data, Values
<1> HIDE DEF c
<1>2. AnswersOf(c) = {} /\ CallsOf(c) = {}
  BY <1>1 DEF AnswersOf, CallsOf, ToSet
<1>3. ClientOK(c, n)
  BY <1>1, <1>2 DEF ClientOK, OneFetchEach
<1>4. {Me} \in SUBSET Keys
  OBVIOUS
<1>5. ClientOK(FetchAll(c, {Me}, who), n) /\ Extends(c, FetchAll(c, {Me}, who), Keys, who)
  BY <1>3, <1>4, FetchAllOK
<1> QED
  BY <1>1, <1>2, <1>5 DEF c

LEMMA OutExtends ==
    ASSUME NEW c, NEW d, Out(c), Extends(c, d, Keys, 0)
    PROVE  Out(d)
<1>1. /\ AnswersOf(d) = AnswersOf(c)
      /\ \A call \in CallsOf(d) \ CallsOf(c) : IsFetch(call, Keys, 0)
  BY ExtendsCalls
<1>2. \A call \in CallsOf(d) :
        /\ Fetches(call, Me) => call.as = 0
        /\ call.method # "GET" => IsEntry(call)
  BY <1>1, IsFetchGet DEF Out
<1>3. d.cache = c.cache
  BY DEF Extends
<1> QED
  BY <1>1, <1>2, <1>3 DEF Out, Data

LEMMA OutNarrower ==
    ASSUME NEW c, NEW d, Out(c), CallsOf(d) \subseteq CallsOf(c),
           AnswersOf(d) \subseteq AnswersOf(c), Data(d, Me) = None
    PROVE  Out(d)
BY DEF Out

(* What React makes of a tab.                                              *)
LEMMA RenderOK ==
    ASSUME NEW n \in Nat, NEW who \in 0 .. n, NEW c, ClientOK(c, n),
           NEW location \in Locations, NEW waiting \in SUBSET Forms,
           Render(c, location, waiting, who)
    PROVE  /\ ClientOK(client', n)
           /\ Extends(c, client', Keys, who)
           /\ page' \in Locations
           /\ pending' \subseteq Forms
<1> DEFINE remounted == (location.at \in Guest) # (page.at \in Guest)
           guarded == IF remounted THEN FetchAll(c, {Me}, who) ELSE c
           screen == Screen(guarded, location.at)
<1>1. ClientOK(guarded, n) /\ Extends(c, guarded, Keys, who)
  <2>1. {Me} \in SUBSET Keys
    OBVIOUS
  <2>2. /\ ClientOK(FetchAll(c, {Me}, who), n)
        /\ Extends(c, FetchAll(c, {Me}, who), Keys, who)
    BY <2>1, FetchAllOK
  <2> QED
    BY <2>2, ExtendsRefl
<1>2. ScreenQueries(screen) \in SUBSET Keys
  <2> HIDE DEF screen
  <2> QED
    BY DEF ScreenQueries, Guest
<1>3. /\ client' = IF screen # Showing
                   THEN FetchAll(guarded, ScreenQueries(screen), who) ELSE guarded
      /\ page' = location
      /\ pending' = IF screen # Showing THEN {} ELSE waiting
  BY DEF Render
<1> HIDE DEF guarded, screen
<1>4. /\ ClientOK(FetchAll(guarded, ScreenQueries(screen), who), n)
      /\ Extends(guarded, FetchAll(guarded, ScreenQueries(screen), who), Keys, who)
  BY <1>1, <1>2, FetchAllOK
<1>5. Extends(c, FetchAll(guarded, ScreenQueries(screen), who), Keys, who)
  BY <1>1, <1>4, ExtendsTrans
<1> QED
  BY <1>1, <1>3, <1>4, <1>5

(***************************************************************************)
(* Steps of the tab                                                        *)
(***************************************************************************)

LEMMA SomeUsers ==
    ASSUME UsersInv
    PROVE  /\ Len(users) \in Nat
           /\ cookie \in 0 .. Len(users)
           /\ users \in Seq([name : Names, password : Passwords])
<1>1. users \in Seq([name : Names, password : Passwords]) /\ Len(users) \in Nat
  BY DEF UsersInv
<1> QED
  BY <1>1 DEF UsersInv

LEMMA AccountsKept ==
    ASSUME UsersInv, CheckingInv, ReceivedInv, LimiterInv, UNCHANGED <<mode, accountVars>>,
           cookie' \in 0 .. Len(users)
    PROVE  UsersInv' /\ CheckingInv' /\ ReceivedInv' /\ LimiterInv'
<1>1. \A k : Trying(k)' = Trying(k)
  BY DEF Trying, LoginKeys, IsLogin, accountVars
<1> QED
  BY <1>1 DEF UsersInv, CheckingInv, ReceivedInv, LimiterInv, accountVars

LEMMA TabStep ==
    ASSUME SessionInv, UNCHANGED <<mode, accountVars>>, cookie' \in 0 .. Len(users),
           ClientOK(client', Len(users)), page' \in Locations, pending' \subseteq Forms,
           left' => cookie' = 0 /\ Out(client')
    PROVE  SessionInv'
<1>1. UsersInv' /\ CheckingInv' /\ ReceivedInv' /\ LimiterInv'
  BY AccountsKept DEF SessionInv
<1>2. ClientInv'
  BY DEF ClientInv, accountVars
<1>3. OutInv'
  BY DEF OutInv
<1> QED
  BY <1>1, <1>2, <1>3 DEF SessionInv

LEMMA RenderStep ==
    ASSUME SessionInv, UNCHANGED <<mode, accountVars>>,
           NEW c, ClientOK(c, Len(users)),
           NEW who \in 0 .. Len(users), NEW location \in Locations,
           NEW waiting \in SUBSET Forms, Render(c, location, waiting, who),
           cookie' = who, left' => who = 0 /\ Out(c)
    PROVE  SessionInv'
<1>1. Len(users) \in Nat
  BY SomeUsers DEF SessionInv
<1>2. /\ ClientOK(client', Len(users))
      /\ Extends(c, client', Keys, who)
      /\ page' \in Locations
      /\ pending' \subseteq Forms
  BY <1>1, RenderOK
<1>3. left' => cookie' = 0 /\ Out(client')
  BY <1>2, OutExtends
<1> QED
  BY <1>2, <1>3, TabStep

LEMMA LocationOK ==
    ASSUME NEW path \in Paths, NEW value
    PROVE  Location(path, value) \in Locations
BY DEF Location, SanitizeReturnTo, Paths, Protected

LEMMA RedirectStep ==
    ASSUME SessionInv, NEW path \in Paths, NEW value, Redirect(path, value)
    PROVE  SessionInv'
<1>1. /\ ClientOK(client, Len(users)) /\ pending \in SUBSET Forms
      /\ cookie \in 0 .. Len(users)
      /\ left => cookie = 0 /\ Out(client)
  BY SomeUsers DEF SessionInv, ClientInv, OutInv
<1>2. Location(path, value) \in Locations
  BY LocationOK
<1>3. /\ Render(client, Location(path, value), pending, cookie)
      /\ UNCHANGED <<mode, accountVars>> /\ cookie' = cookie /\ left' = left
  BY DEF Redirect
<1> QED
  BY <1>1, <1>2, <1>3, RenderStep

LEMMA RedirectsStep ==
    ASSUME SessionInv, Redirects
    PROVE  SessionInv'
<1>1. page.at \in Paths /\ page.back \in Paths
  BY DEF SessionInv, ClientInv
<1>2. {"login", "setup"} \subseteq Paths
  BY DEF Paths, Guest
<1> QED
  BY <1>1, <1>2, RedirectStep DEF Redirects

LEMMA NavigateStep ==
    ASSUME SessionInv, NEW path \in Protected, Navigate(path)
    PROVE  SessionInv'
<1>1. Redirect(path, None)
  BY DEF Navigate, Redirect
<1> QED
  BY <1>1, RedirectStep DEF Paths

LEMMA FocusStep ==
    ASSUME SessionInv, Focus
    PROVE  SessionInv'
<1> DEFINE c == FetchAll(client, Displayed, cookie)
<1>1. /\ ClientOK(client, Len(users)) /\ pending \in SUBSET Forms
      /\ cookie \in 0 .. Len(users) /\ Len(users) \in Nat
      /\ left => cookie = 0 /\ Out(client)
      /\ page \in Locations
  BY SomeUsers DEF SessionInv, ClientInv, OutInv
<1>2. Displayed \in SUBSET Keys
  BY DEF Displayed, ScreenQueries
<1>3. ClientOK(c, Len(users)) /\ Extends(client, c, Keys, cookie)
  BY <1>1, <1>2, FetchAllOK
<1>4. /\ Render(c, page, pending, cookie)
      /\ UNCHANGED <<mode, accountVars>> /\ cookie' = cookie /\ left' = left
  BY DEF Focus
<1> HIDE DEF c
<1>5. left => Out(c)
  BY <1>1, <1>3, OutExtends
<1> QED
  BY <1>1, <1>3, <1>4, <1>5, RenderStep

LEMMA LoadStep ==
    ASSUME SessionInv, NEW location \in Locations, Load(location)
    PROVE  SessionInv'
<1> DEFINE c == EmptyClient({Me, SetupStatus})
           d == FetchAll(c, {Me}, cookie)
<1>1. /\ cookie \in 0 .. Len(users) /\ Len(users) \in Nat
      /\ left => cookie = 0
      /\ ClientOK(client, Len(users))
  BY SomeUsers DEF SessionInv, ClientInv, OutInv
<1>2. /\ ClientOK(d, Len(users)) /\ Extends(c, d, Keys, cookie)
      /\ CallsOf(c) = {} /\ c.sent = {} /\ AnswersOf(c) = {} /\ Data(c, Me) = None
  <2> HIDE DEF Keys
  <2> QED
    BY <1>1, EmptyOK
<1>3. /\ client' = d /\ page' = location /\ pending' = {}
      /\ UNCHANGED <<mode, users, checking, failures>> /\ cookie' = cookie /\ left' = left
  BY DEF Load
<1> HIDE DEF c, d
<1>4. left => Out(d)
  <2>1. Out(c)
    BY <1>2 DEF Out
  <2>2. left => Extends(c, d, Keys, 0)
    BY <1>1, <1>2
  <2> HIDE DEF Keys
  <2> QED
    BY <2>1, <2>2, OutExtends
<1>5. PICK kept \in SUBSET {call \in client.sent \ CheckedHere : call.method # "GET"} :
        (mode = "demo" => kept = {}) /\ received' = received \cup kept
  BY DEF Load
<1>6. ReceivedInv'
  <2>1. \A call \in kept :
          /\ mode = "real"
          /\ call \in Requests /\ call.method # "GET" /\ call.as <= Len(users)
    <3>1. kept \subseteq CallsOf(client) /\ CallsOf(client) \subseteq Requests
      BY <1>1, CallsTyped DEF CallsOf
    <3>2. mode \in {"real", "demo"}
      BY AccountsAssumption DEF SessionInv, UsersInv
    <3> QED
      BY <1>1, <1>5, <3>1, <3>2 DEF ClientOK
  <2> QED
    BY <1>3, <1>5, <2>1 DEF SessionInv, ReceivedInv
<1>7. UsersInv' /\ CheckingInv' /\ LimiterInv'
  <2>1. \A k : Trying(k)' = Trying(k)
    BY <1>3 DEF Trying, LoginKeys, IsLogin
  <2> QED
    BY <1>3, <2>1 DEF SessionInv, UsersInv, CheckingInv, LimiterInv
<1> HIDE DEF Keys
<1>8. ClientInv' /\ OutInv'
  BY <1>1, <1>2, <1>3, <1>4 DEF ClientInv, OutInv
<1> QED
  BY <1>6, <1>7, <1>8 DEF SessionInv

(* A form is submitted.                                                    *)
LEMMA SubmitStep ==
    ASSUME SessionInv, NEW form \in Forms, NEW method, NEW path, NEW body,
           Submit(form, method, path, body),
           Call(method, path, cookie, body) \in Requests, method # "GET",
           left => path \in {<<"login">>, <<"setup">>}
    PROVE  SessionInv'
<1> DEFINE n == Len(users)
           call == Call(method, path, cookie, body)
<1>1. /\ ClientOK(client, n) /\ pending \subseteq Forms /\ page \in Locations
      /\ cookie \in 0 .. n /\ n \in Nat
      /\ left => cookie = 0 /\ Out(client)
  BY SomeUsers DEF SessionInv, ClientInv, OutInv
<1>2. /\ client' = Send(client, call) /\ pending' = pending \cup {form}
      /\ UNCHANGED <<mode, accountVars>> /\ cookie' = cookie /\ page' = page /\ left' = left
  BY DEF Submit
<1>3. call.method = method /\ call.path = path /\ call.as = cookie /\ call \in Requests
  BY DEF Call
<1> HIDE DEF call
<1>4. /\ IsClient(client', Keys, Values, Requests, Answers)
      /\ client'.cache = client.cache
      /\ client'.sent = client.sent \cup {call}
      /\ client'.answers = client.answers
  <2>1. IsClient(client, Keys, Values, Requests, Answers)
    BY <1>1 DEF ClientOK
  <2>2. /\ IsClient(Send(client, call), Keys, Values, Requests, Answers)
        /\ Send(client, call).cache = client.cache
        /\ Send(client, call).sent = client.sent \cup {call}
        /\ Send(client, call).answers = client.answers
    BY <1>3, <2>1, SendKeeps
  <2> QED
    BY <1>2, <2>2
<1>5. CallsOf(client') = CallsOf(client) \cup {call} /\ AnswersOf(client') = AnswersOf(client)
  BY <1>4 DEF CallsOf, AnswersOf
<1>6. \A k : Data(client', k) = Data(client, k)
  BY <1>4 DEF Data
<1>7. ClientOK(client', n)
  <2>1. OneFetchEach(client')
    BY <1>1, <1>3, <1>5 DEF ClientOK, OneFetchEach
  <2>2. \A c \in CallsOf(client') : c.as <= n
    BY <1>1, <1>3, <1>5 DEF ClientOK
  <2> QED
    BY <1>1, <1>4, <1>5, <1>6, <2>1, <2>2 DEF ClientOK
<1>8. OutInv'
  <2>1. ASSUME left
        PROVE  Out(client')
    <3>1. IsEntry(call)
      BY <1>3, <2>1 DEF IsEntry
    <3>2. \A c \in CallsOf(client') :
            /\ Fetches(c, Me) => c.as = 0
            /\ c.method # "GET" => IsEntry(c)
      BY <1>1, <1>3, <1>5, <2>1, <3>1 DEF Out, Fetches
    <3> QED
      BY <1>1, <1>5, <1>6, <2>1, <3>2 DEF Out
  <2> QED
    BY <1>1, <1>2, <2>1 DEF OutInv
<1>9. UsersInv' /\ CheckingInv' /\ ReceivedInv' /\ LimiterInv'
  BY <1>1, <1>2, AccountsKept DEF SessionInv
<1>10. ClientInv'
  <2>1. users' = users
    BY <1>2 DEF accountVars
  <2> QED
    BY <1>1, <1>2, <1>7, <2>1 DEF ClientInv
<1> QED
  BY <1>8, <1>9, <1>10 DEF SessionInv

(* A page behind ProtectedRoute shows a user.                              *)
LEMMA ProtectedHasUser ==
    ASSUME Showing \in Protected
    PROVE  Data(client, Me) # None
BY DEF Showing, Screen, ProtectedRouteAdmits, Guest, Protected

LEMMA LeftShowsNoForm ==
    ASSUME SessionInv, left
    PROVE  Showing \notin Protected
BY ProtectedHasUser DEF SessionInv, OutInv, Out

LEMMA VisitorSubmits ==
    ASSUME SessionInv,
           \/ \E typed \in Credentials :
                Login(typed[1], typed[2]) \/ Setup(typed[1], typed[2])
           \/ \E name \in Names : ChangeUsername(name)
           \/ \E p, q, confirm \in Passwords : p # q /\ ChangePassword(p, q, confirm)
           \/ Logout
    PROVE  SessionInv'
<1>0. /\ cookie \in Nat /\ page.back \in Paths
      /\ {"login", "setup", "logout", "username", "password"} \subseteq Forms
  BY SomeUsers, Sessions DEF SessionInv, ClientInv, Forms
<1>1. ASSUME NEW typed \in Credentials, Login(typed[1], typed[2])
      PROVE  SessionInv'
  <2> DEFINE body == <<typed[1], typed[2], page.back>>
  <2>1. body \in Names \X Passwords \X Paths
    BY <1>0, SessionAssumption
  <2>2. Submit("login", "POST", <<"login">>, body)
    BY <1>1 DEF Login
  <2> HIDE DEF body
  <2>3. Call("POST", <<"login">>, cookie, body)
          \in [method : {"POST"}, path : {<<"login">>}, as : Nat,
               body : Names \X Passwords \X Paths]
    BY <1>0, <2>1 DEF Call
  <2>4. Call("POST", <<"login">>, cookie, body) \in Requests
    BY <2>3 DEF Requests
  <2> QED
    BY <1>0, <2>2, <2>4, SubmitStep
<1>2. ASSUME NEW typed \in Credentials, Setup(typed[1], typed[2])
      PROVE  SessionInv'
  <2> DEFINE body == <<typed[1], typed[2]>>
  <2>1. body \in Names \X Passwords
    BY SessionAssumption
  <2>2. Submit("setup", "POST", <<"setup">>, body)
    BY <1>2 DEF Setup
  <2> HIDE DEF body
  <2>3. Call("POST", <<"setup">>, cookie, body)
          \in [method : {"POST"}, path : {<<"setup">>}, as : Nat,
               body : Names \X Passwords]
    BY <1>0, <2>1 DEF Call
  <2>4. Call("POST", <<"setup">>, cookie, body) \in Requests
    BY <2>3 DEF Requests
  <2> QED
    BY <1>0, <2>2, <2>4, SubmitStep
<1>3. ASSUME NEW name \in Names, ChangeUsername(name)
      PROVE  SessionInv'
  <2>1. ~left /\ Submit("username", "PATCH", <<"me", "username">>, name)
    BY <1>3, LeftShowsNoForm DEF ChangeUsername, Protected
  <2>2. Call("PATCH", <<"me", "username">>, cookie, name)
          \in [method : {"PATCH"}, path : {<<"me", "username">>}, as : Nat, body : Names]
    BY <1>0 DEF Call
  <2>3. Call("PATCH", <<"me", "username">>, cookie, name) \in Requests
    BY <2>2 DEF Requests
  <2> QED
    BY <1>0, <2>1, <2>3, SubmitStep
<1>4. ASSUME NEW p \in Passwords, NEW q \in Passwords, NEW confirm \in Passwords,
             ChangePassword(p, q, confirm)
      PROVE  SessionInv'
  <2> DEFINE body == <<p, q>>
  <2>1. body \in Passwords \X Passwords
    OBVIOUS
  <2>2. ~left /\ Submit("password", "PATCH", <<"me", "password">>, body)
    BY <1>4, LeftShowsNoForm DEF ChangePassword, Protected
  <2> HIDE DEF body
  <2>3. Call("PATCH", <<"me", "password">>, cookie, body)
          \in [method : {"PATCH"}, path : {<<"me", "password">>}, as : Nat,
               body : Passwords \X Passwords]
    BY <1>0, <2>1 DEF Call
  <2>4. Call("PATCH", <<"me", "password">>, cookie, body) \in Requests
    BY <2>3 DEF Requests
  <2> QED
    BY <1>0, <2>2, <2>4, SubmitStep
<1>5. ASSUME Logout
      PROVE  SessionInv'
  <2>1. ~left /\ Submit("logout", "POST", <<"logout">>, None)
    BY <1>5, LeftShowsNoForm DEF Logout
  <2>2. Call("POST", <<"logout">>, cookie, None)
          \in [method : {"POST"}, path : {<<"logout">>}, as : Nat, body : {None}]
    BY <1>0 DEF Call
  <2>3. Call("POST", <<"logout">>, cookie, None) \in Requests
    BY <2>2 DEF Requests
  <2> QED
    BY <1>0, <2>1, <2>3, SubmitStep
<1> QED
  BY <1>1, <1>2, <1>3, <1>4, <1>5

(***************************************************************************)
(* Answers that arrive                                                     *)
(***************************************************************************)

LEMMA SetOK ==
    ASSUME NEW n, NEW c, ClientOK(c, n), NEW k \in Keys, NEW data \in Values,
           k = Me => data \in [id : 1 .. n, name : Names], k = SetupStatus => data \in BOOLEAN
    PROVE  LET d == SetQueryData(c, k, data)
           IN /\ ClientOK(d, n)
              /\ d.sent = c.sent /\ d.answers = c.answers
              /\ k # Me => Data(d, Me) = Data(c, Me)
<1> DEFINE d == SetQueryData(c, k, data)
<1>1. IsClient(c, Keys, Values, Requests, Answers)
  BY DEF ClientOK
<1>2. /\ IsClient(d, Keys, Values, Requests, Answers)
      /\ d.sent = c.sent /\ d.answers = c.answers
      /\ Data(d, k) = data
      /\ \A q \in Keys \ {k} : d.cache[q] = c.cache[q]
  BY <1>1, SetQueryDataKeeps
<1> HIDE DEF d
<1>3. /\ CallsOf(d) = CallsOf(c) /\ AnswersOf(d) = AnswersOf(c)
      /\ \A q \in Keys \ {k} : Data(d, q) = Data(c, q)
  BY <1>2 DEF CallsOf, AnswersOf, Data
<1>4. /\ Data(d, Me) \in {None} \cup [id : 1 .. n, name : Names]
      /\ Data(d, SetupStatus) \in {None} \cup BOOLEAN
  <2>1. CASE k = Me
    BY <1>2, <1>3, <2>1, Paths2 DEF ClientOK
  <2>2. CASE k = SetupStatus
    BY <1>2, <1>3, <2>2, Paths2 DEF ClientOK
  <2> QED
    BY <2>1, <2>2
<1>5. ClientOK(d, n)
  BY <1>2, <1>3, <1>4, NarrowerOK
<1> QED
  BY <1>2, <1>3, <1>5 DEF d

LEMMA PersonTyped ==
    ASSUME NEW n \in Nat, NEW data \in [id : 1 .. n, name : Names]
    PROVE  data \in Persons /\ data \in Values /\ data.id \in 0 .. n
<1>1. data \in Persons
  OBVIOUS
<1>2. data.id \in 0 .. n
  OBVIOUS
<1> QED
  BY <1>1, <1>2 DEF Values

LEMMA SettleOK ==
    ASSUME NEW n \in Nat, NEW c, ClientOK(c, n), NEW a \in Answers, AnswerOK(a, n),
           a.call.method = "GET"
    PROVE  LET d == Settle(c, a)
           IN /\ ClientOK(d, n)
              /\ d.sent = c.sent /\ d.answers = c.answers
              /\ ~(a.ok /\ Fetches(a.call, Me)) => Data(d, Me) = Data(c, Me)
<1> DEFINE d == Settle(c, a)
           k == a.call.path
<1>1. /\ a.call \in Requests /\ a.data \in Values
      /\ k \in Keys
  BY RequestShapes DEF Answers
<1>2. CASE a.ok
  <2>1. d = SetQueryData(c, k, a.data)
    BY <1>2 DEF Settle
  <2>2. (k = Me => a.data \in [id : 1 .. n, name : Names]) /\ (k = SetupStatus => a.data \in BOOLEAN)
    BY <1>2 DEF AnswerOK
  <2>3. k = Me <=> Fetches(a.call, Me)
    BY DEF Fetches
  <2> HIDE DEF d, k
  <2>4. /\ ClientOK(SetQueryData(c, k, a.data), n)
        /\ SetQueryData(c, k, a.data).sent = c.sent
        /\ SetQueryData(c, k, a.data).answers = c.answers
        /\ k # Me => Data(SetQueryData(c, k, a.data), Me) = Data(c, Me)
    BY <1>1, <2>2, SetOK
  <2> QED
    BY <1>2, <2>1, <2>3, <2>4 DEF d
<1>3. CASE ~a.ok
  <2>1. d = [c EXCEPT !.cache[k].error = TRUE]
    BY <1>3 DEF Settle
  <2>2. IsClient(c, Keys, Values, Requests, Answers)
    BY DEF ClientOK
  <2> HIDE DEF d, k
  <2>3. /\ IsClient(d, Keys, Values, Requests, Answers)
        /\ d.sent = c.sent /\ d.answers = c.answers
        /\ \A q \in Keys : Data(d, q) = Data(c, q)
    BY <1>1, <2>1, <2>2, SetErrorKeeps
  <2>4. CallsOf(d) = CallsOf(c) /\ AnswersOf(d) = AnswersOf(c)
    BY <2>3 DEF CallsOf, AnswersOf
  <2>5. ClientOK(d, n)
    BY <2>3, <2>4, NarrowerOK DEF ClientOK
  <2> QED
    BY <2>3, <2>5 DEF d
<1> QED
  BY <1>2, <1>3

LEMMA ClearOK ==
    ASSUME NEW n, NEW c, ClientOK(c, n)
    PROVE  LET d == Clear(c)
           IN /\ ClientOK(d, n)
              /\ d.sent \subseteq c.sent
              /\ Mutating(c) = {} => Out(d)
<1> DEFINE e == CancelAll(c, DOMAIN c.cache)
           new == [k \in DOMAIN e.cache |-> EmptyEntry]
           d == Clear(c)
<1>1. IsClient(c, Keys, Values, Requests, Answers) /\ DOMAIN c.cache = Keys
  BY ClientFields DEF ClientOK
<1>2. /\ IsClient(e, Keys, Values, Requests, Answers)
      /\ e.cache = c.cache
      /\ e.sent = {call \in c.sent : ~(call.method = "GET" /\ call.path \in Keys)}
      /\ AnswersOf(e) \subseteq
           {a \in AnswersOf(c) : ~(a.call.method = "GET" /\ a.call.path \in Keys)}
  BY <1>1, CancelAllKeeps
<1>3. d = [e EXCEPT !.cache = new]
  BY DEF Clear
<1>4. new \in [Keys -> [data : Values, error : BOOLEAN]]
  BY <1>1, <1>2 DEF EmptyEntry, Values
<1>5. \A k \in Keys : new[k].data = None
  BY <1>1, <1>2 DEF EmptyEntry
<1> HIDE DEF e, new, d
<1>6. /\ IsClient(d, Keys, Values, Requests, Answers)
      /\ d.cache = new /\ d.sent = e.sent /\ d.answers = e.answers
  BY <1>2, <1>3, <1>4 DEF IsClient
<1>7. CallsOf(d) = CallsOf(e) /\ AnswersOf(d) = AnswersOf(e)
  BY <1>6 DEF CallsOf, AnswersOf
<1>8. /\ CallsOf(d) \subseteq {call \in CallsOf(c) : ~(call.method = "GET" /\ call.path \in Keys)}
      /\ AnswersOf(d) \subseteq AnswersOf(c)
  BY <1>2, <1>7 DEF CallsOf
<1>9. Data(d, Me) = None /\ Data(d, SetupStatus) = None
  BY <1>5, <1>6 DEF Data
<1>10. ClientOK(d, n)
  BY <1>6, <1>8, <1>9, NarrowerOK
<1>11. ASSUME Mutating(c) = {}
       PROVE  Out(d)
  <2>1. \A call \in CallsOf(c) : call.method = "GET" /\ call.path \in Keys
    BY <1>11, CallsTyped, RequestShapes DEF Mutating
  <2>2. CallsOf(d) = {}
    BY <1>8, <2>1
  <2>3. AnswersOf(d) = {}
    BY <2>2 DEF CallsOf
  <2> QED
    BY <1>9, <2>2, <2>3 DEF Out
<1> QED
  BY <1>2, <1>6, <1>10, <1>11 DEF d

LEMMA DeliverStep ==
    ASSUME SessionInv, NEW i \in Arrivable, Deliver(i)
    PROVE  SessionInv'
<1> DEFINE n == Len(users)
           a == client.answers[i]
           c == WithoutAnswer(i)
<1>1. /\ ClientOK(client, n) /\ pending \subseteq Forms /\ page \in Locations
      /\ cookie \in 0 .. n /\ n \in Nat
      /\ left => cookie = 0 /\ Out(client)
  BY SomeUsers DEF SessionInv, ClientInv, OutInv
<1>2. /\ \/ QueryAnswered(a, c)
         \/ MutationFailed(a, c)
         \/ SignedIn(a, c)
         \/ LoggedOut(a, c)
         \/ Renamed(a, c)
         \/ PasswordChanged(a, c)
      /\ UNCHANGED <<mode, accountVars>>
  BY DEF Deliver
<1>3. /\ IsClient(c, Keys, Values, Requests, Answers)
      /\ c.cache = client.cache
      /\ c.sent = client.sent
      /\ AnswersOf(c) \subseteq AnswersOf(client)
      /\ a \in AnswersOf(client)
  <2>1. IsClient(client, Keys, Values, Requests, Answers)
    BY <1>1 DEF ClientOK
  <2> QED
    BY <2>1, WithoutAnswerKeeps
<1> HIDE DEF a, c
<1>4. a \in Answers /\ a.call \in Requests /\ a.call \in CallsOf(client) /\ AnswerOK(a, n)
  BY <1>1, <1>3, CallsTyped DEF ClientOK, CallsOf
<1>5. /\ CallsOf(c) \subseteq CallsOf(client)
      /\ \A k : Data(c, k) = Data(client, k)
  BY <1>3 DEF CallsOf, Data
<1>6. ClientOK(c, n)
  BY <1>1, <1>3, <1>5, NarrowerOK DEF ClientOK
<1>7. left => Out(c)
  BY <1>1, <1>3, <1>5, OutNarrower DEF Out
<1>8. Ended(a.call) \in SUBSET Forms /\ pending \in SUBSET Forms
  BY <1>1 DEF Ended
<1>9. left => a.call.method = "GET" \/ IsEntry(a.call)
  BY <1>1, <1>4 DEF Out
<1>10. CASE QueryAnswered(a, c)
  <2> DEFINE d == Settle(c, a)
  <2>1. /\ a.call.method = "GET"
        /\ Render(d, page, pending, cookie)
        /\ cookie' = cookie /\ left' = left
    BY <1>10 DEF QueryAnswered
  <2>2. /\ ClientOK(d, n)
        /\ d.sent = c.sent /\ d.answers = c.answers
        /\ ~(a.ok /\ Fetches(a.call, Me)) => Data(d, Me) = Data(c, Me)
    BY <1>1, <1>4, <1>6, <2>1, SettleOK
  <2> HIDE DEF d
  <2>3. CallsOf(d) = CallsOf(c) /\ AnswersOf(d) = AnswersOf(c)
    BY <2>2 DEF CallsOf, AnswersOf
  <2>4. left => Out(d)
    <3>1. left => ~(a.ok /\ Fetches(a.call, Me))
      BY <1>1, <1>3 DEF Out
    <3> QED
      BY <1>7, <2>2, <2>3, <3>1, OutNarrower DEF Out
  <2> QED
    BY <1>1, <1>2, <1>8, <2>1, <2>2, <2>4, RenderStep
<1>11. CASE MutationFailed(a, c) \/ PasswordChanged(a, c)
  <2>1. Render(c, page, Ended(a.call), cookie) /\ cookie' = cookie /\ left' = left
    BY <1>11 DEF MutationFailed, PasswordChanged
  <2> QED
    BY <1>1, <1>2, <1>5, <1>6, <1>7, <1>8, <2>1, RenderStep
<1>12. CASE SignedIn(a, c)
  <2> DEFINE d == SetQueryData(c, Me, a.data)
             returnTo == IF a.call.path = <<"login">> THEN a.call.body[3] ELSE "home"
  <2>1. /\ a.ok /\ IsEntry(a.call)
        /\ cookie' = a.data.id
        /\ Render(d, Location(returnTo, None), Ended(a.call), a.data.id)
        /\ ~left'
    BY <1>12 DEF SignedIn, IsEntry
  <2>2. a.data \in [id : 1 .. n, name : Names]
    BY <1>4, <2>1 DEF AnswerOK, IsEntry
  <2>3. a.data \in Persons /\ a.data \in Values /\ a.data.id \in 0 .. n
    BY <1>1, <2>2, PersonTyped
  <2>4. ClientOK(d, n) /\ d.sent = c.sent
    BY <1>6, <2>2, <2>3, Paths2, SetOK
  <2>5. returnTo \in Paths
    <3>1. CASE a.call.path = <<"login">>
      <4>1. a.call.body \in Names \X Passwords \X Paths
        BY <1>4, <3>1, RequestShapes
      <4> QED
        BY <3>1, <4>1
    <3>2. CASE a.call.path # <<"login">>
      BY <3>2 DEF Paths, Protected
    <3> QED
      BY <3>1, <3>2
  <2> HIDE DEF d, returnTo
  <2>6. Location(returnTo, None) \in Locations
    BY <2>5, LocationOK
  <2> QED
    BY <1>2, <1>8, <2>1, <2>3, <2>4, <2>6, RenderStep
<1>13. CASE LoggedOut(a, c)
  <2> DEFINE d == Clear(c)
  <2>1. /\ cookie' = 0
        /\ Render(d, Location("login", None), Ended(a.call), 0)
        /\ left' = (Mutating(c) = {})
    BY <1>13 DEF LoggedOut
  <2>2. /\ ClientOK(d, n)
        /\ d.sent \subseteq c.sent
        /\ Mutating(c) = {} => Out(d)
    BY <1>6, ClearOK
  <2> HIDE DEF d
  <2>3. Location("login", None) \in Locations
    BY LocationOK DEF Paths, Guest
  <2>4. 0 \in 0 .. n
    BY <1>1
  <2>5. left' => Out(d)
    BY <2>1, <2>2
  <2> QED
    BY <1>2, <1>8, <2>1, <2>2, <2>3, <2>4, <2>5, RenderStep
<1>14. CASE Renamed(a, c)
  <2> DEFINE d == SetQueryData(c, Me, a.data)
  <2>1. /\ a.ok /\ a.call.path = <<"me", "username">>
        /\ Render(d, page, Ended(a.call), cookie)
        /\ cookie' = cookie /\ left' = left
    BY <1>14 DEF Renamed
  <2>2. a.data \in [id : 1 .. n, name : Names]
    BY <1>4, <2>1 DEF AnswerOK
  <2>3. a.data \in Persons /\ a.data \in Values
    BY <1>1, <2>2, PersonTyped
  <2>4. ClientOK(d, n) /\ d.sent = c.sent
    BY <1>6, <2>2, <2>3, Paths2, SetOK
  <2> HIDE DEF d
  <2>5. ~left
    <3>1. a.call.method # "GET" /\ ~IsEntry(a.call)
      BY <1>4, <2>1, RequestShapes, Paths2 DEF IsEntry
    <3> QED
      BY <1>9, <3>1
  <2> QED
    BY <1>1, <1>2, <1>8, <2>1, <2>4, <2>5, RenderStep
<1> QED
  BY <1>2, <1>10, <1>11, <1>12, <1>13, <1>14

(* An answer is given, or lost on its way.                                 *)
LEMMA AnsweredOK ==
    ASSUME NEW n, NEW c, ClientOK(c, n), NEW call \in c.sent, NEW ok \in BOOLEAN,
           NEW data \in Values, AnswerOK(Answer(call, ok, data), n)
    PROVE  LET d == Answered(c, Answer(call, ok, data))
           IN /\ ClientOK(d, n)
              /\ Out(c) /\ ~(Fetches(call, Me) /\ ok) => Out(d)
<1> DEFINE a == Answer(call, ok, data)
           d == Answered(c, a)
<1>1. IsClient(c, Keys, Values, Requests, Answers) /\ call \in Requests
  BY ClientFields DEF ClientOK
<1>2. a \in Answers /\ a.call = call /\ a.ok = ok
  BY <1>1 DEF Answer, Answers
<1> HIDE DEF a
<1>3. /\ IsClient(d, Keys, Values, Requests, Answers)
      /\ d.cache = c.cache
      /\ d.sent = c.sent \ {call}
      /\ AnswersOf(d) = AnswersOf(c) \cup {a}
  BY <1>1, <1>2, AnsweredKeeps
<1> HIDE DEF d
<1>4. CallsOf(d) \subseteq CallsOf(c)
  BY <1>2, <1>3 DEF CallsOf
<1>5. \A k : Data(d, k) = Data(c, k)
  BY <1>3 DEF Data
<1>6. AnswerOK(a, n)
  BY DEF a
<1>7. ClientOK(d, n)
  BY <1>3, <1>4, <1>5, <1>6 DEF ClientOK, OneFetchEach
<1>8. Out(c) /\ ~(Fetches(call, Me) /\ ok) => Out(d)
  BY <1>2, <1>3, <1>4, <1>5 DEF Out
<1> QED
  BY <1>3, <1>7, <1>8 DEF d, a

LEMMA NetworkFailsStep ==
    ASSUME SessionInv, NetworkFails,
           UNCHANGED <<mode, accountVars, cookie, page, pending, left>>
    PROVE  SessionInv'
<1> DEFINE n == Len(users)
<1>1. /\ ClientOK(client, n) /\ pending \subseteq Forms /\ page \in Locations
      /\ cookie \in 0 .. n /\ n \in Nat
      /\ left => cookie = 0 /\ Out(client)
  BY SomeUsers DEF SessionInv, ClientInv, OutInv
<1>2. ASSUME NEW call \in client.sent, client' = Answered(client, Answer(call, FALSE, None))
      PROVE  SessionInv'
  <2>1. AnswerOK(Answer(call, FALSE, None), n)
    BY DEF AnswerOK, Answer
  <2>2. None \in Values /\ FALSE \in BOOLEAN
    BY DEF Values
  <2>3. /\ ClientOK(client', n)
        /\ Out(client) => Out(client')
    BY <1>1, <1>2, <2>1, <2>2, AnsweredOK
  <2> QED
    BY <1>1, <2>3, TabStep
<1>3. ASSUME NEW i \in DOMAIN client.answers,
             client' = [client EXCEPT !.answers[i].ok = FALSE]
      PROVE  SessionInv'
  <2> DEFINE a == [client.answers[i] EXCEPT !.ok = FALSE]
  <2>1. IsClient(client, Keys, Values, Requests, Answers)
    BY <1>1 DEF ClientOK
  <2>2. client.answers[i] \in AnswersOf(client)
    BY DEF AnswersOf, ToSet
  <2>3. client.answers[i] \in Answers /\ client.answers[i].call \in CallsOf(client)
    BY <1>1, <2>2, CallsTyped
  <2>4. a \in Answers /\ a.call = client.answers[i].call /\ ~a.ok
    BY <2>3 DEF Answers
  <2>5. /\ IsClient(client', Keys, Values, Requests, Answers)
        /\ client'.cache = client.cache
        /\ client'.sent = client.sent
        /\ AnswersOf(client') \subseteq AnswersOf(client) \cup {a}
    BY <1>3, <2>1, <2>4, LostAnswerKeeps
  <2> HIDE DEF a
  <2>6. /\ CallsOf(client') \subseteq CallsOf(client)
        /\ \A k : Data(client', k) = Data(client, k)
    BY <2>3, <2>4, <2>5 DEF CallsOf, Data
  <2>7. ClientOK(client', n)
    BY <1>1, <2>4, <2>5, <2>6 DEF ClientOK, OneFetchEach, AnswerOK
  <2>8. left => Out(client')
    BY <1>1, <2>4, <2>5, <2>6 DEF Out
  <2> QED
    BY <1>1, <2>6, <2>7, <2>8, TabStep
<1> QED
  BY <1>2, <1>3 DEF NetworkFails

LEMMA SessionsElsewhereStep ==
    ASSUME SessionInv, SessionEnds \/ SignInElsewhere
    PROVE  SessionInv'
<1>1. /\ ClientOK(client, Len(users)) /\ pending \subseteq Forms /\ page \in Locations
      /\ Len(users) \in Nat /\ users \in Seq([name : Names, password : Passwords])
      /\ left => cookie = 0 /\ Out(client)
  BY SomeUsers DEF SessionInv, ClientInv, OutInv
<1>2. cookie' \in 0 .. Len(users)
  BY <1>1 DEF SessionEnds, SignInElsewhere
<1>3. UNCHANGED <<client, mode, accountVars, page, pending>>
  BY DEF SessionEnds, SignInElsewhere, ChangeElsewhere
<1>4. left' => cookie' = 0 /\ left
  BY DEF SessionEnds, SignInElsewhere
<1> QED
  BY <1>1, <1>2, <1>3, <1>4, TabStep

LEMMA ResetDemoStep ==
    ASSUME SessionInv, ResetDemo
    PROVE  SessionInv'
<1> DEFINE c == EmptyClient({Me, SetupStatus})
           d == FetchAll(c, {Me}, 0)
<1>1. /\ users' = <<SeedUser>> /\ cookie' = 0 /\ mode = "demo"
      /\ client' = d /\ pending' = {}
      /\ UNCHANGED <<mode, received, checking, failures, page, left>>
  BY DEF ResetDemo
<1>2. checking = {} /\ mode \in Modes
  BY <1>1 DEF SessionInv, UsersInv
<1>3. /\ users' \in Seq([name : Names, password : Passwords])
      /\ Len(users') = 1 /\ DOMAIN users' = {1}
  BY <1>1, AccountsAssumption
<1>4. UsersInv'
  <2>1. \A i, j \in DOMAIN users' : users'[i].name = users'[j].name => i = j
    BY <1>3
  <2>2. cookie' \in 0 .. Len(users') /\ mode' \in Modes /\ checking' = {}
    BY <1>1, <1>2, <1>3
  <2> QED
    BY <1>3, <2>1, <2>2 DEF UsersInv
<1>5. LimiterInv' /\ CheckingInv'
  <2>1. \A k : Trying(k)' = Trying(k)
    BY <1>1 DEF Trying, LoginKeys, IsLogin
  <2> QED
    BY <1>1, <2>1 DEF SessionInv, LimiterInv, CheckingInv
<1>6. ReceivedInv'
  <2>1. received = {}
    BY <1>1 DEF SessionInv, ReceivedInv
  <2> QED
    BY <1>1, <2>1 DEF ReceivedInv
<1>7. /\ ClientOK(d, 1) /\ Extends(c, d, Keys, 0)
      /\ CallsOf(c) = {} /\ AnswersOf(c) = {} /\ Data(c, Me) = None
  <2>1. 1 \in Nat /\ 0 \in 0 .. 1
    OBVIOUS
  <2> HIDE DEF Keys
  <2> QED
    BY <2>1, EmptyOK
<1> HIDE DEF c, d
<1>8. OutInv'
  <2>1. Out(c)
    BY <1>7 DEF Out
  <2> HIDE DEF Keys
  <2>2. Out(d)
    BY <1>7, <2>1, OutExtends
  <2> QED
    BY <1>1, <2>2 DEF OutInv
<1>9. ClientInv'
  BY <1>1, <1>3, <1>7 DEF ClientInv, SessionInv
<1> QED
  BY <1>4, <1>5, <1>6, <1>8, <1>9 DEF SessionInv

(***************************************************************************)
(* Steps of the server                                                     *)
(***************************************************************************)

(* The threads that try a key.                                             *)
LEMMA TryingThreads ==
    ASSUME CheckingInv, NEW k
    PROVE  /\ Trying(k) \subseteq Threads /\ IsFiniteSet(Trying(k))
           /\ Cardinality(Trying(k)) \in Nat /\ Cardinality(Threads) \in Nat
           /\ Cardinality(Trying(k)) <= Cardinality(Threads)
           /\ \A T \in SUBSET Trying(k) :
                Cardinality(T) \in Nat /\ Cardinality(T) <= Cardinality(Trying(k))
<1>1. Trying(k) \in SUBSET Threads
  BY DEF Trying, CheckingInv, IsChecked
<1>2. IsFiniteSet(Threads)
  BY AccountsAssumption
<1> QED
  BY <1>1, <1>2, FS_Subset, FS_CardinalityType

(* What the tab knows after a request was answered, also when nobody       *)
(* waits for the answer.                                                   *)
LEMMA DoneStep ==
    ASSUME SessionInv, NEW r, NEW ok \in BOOLEAN, NEW data \in Values, Done(r, ok, data),
           UNCHANGED <<mode, cookie, page, pending, left>>,
           Len(users') \in Nat, Len(users) <= Len(users'),
           r.call \in client.sent => AnswerOK(Answer(r.call, ok, data), Len(users')),
           left /\ r.call \in client.sent => ~(Fetches(r.call, Me) /\ ok)
    PROVE  /\ ClientInv' /\ CheckingInv' /\ ReceivedInv' /\ OutInv'
           /\ checking' = checking \ {r}
<1> DEFINE n == Len(users)
           m == Len(users')
           d == Answered(client, Answer(r.call, ok, data))
<1>1. /\ ClientOK(client, n) /\ pending \subseteq Forms /\ page \in Locations
      /\ cookie \in 0 .. n /\ n \in Nat
      /\ left => cookie = 0 /\ Out(client)
  BY SomeUsers DEF SessionInv, ClientInv, OutInv
<1>2. m \in Nat /\ n <= m
  OBVIOUS
<1>3. ClientOK(client, m)
  BY <1>1, <1>2, GrowOK
<1>4. /\ client' = client \/ (r.call \in client.sent /\ client' = d)
      /\ checking' = checking \ {r} /\ received' \subseteq received
  BY DEF Done
<1> HIDE DEF n, m
<1>5. /\ ClientOK(client', m)
      /\ left => Out(client')
  <2>1. CASE client' = client
    BY <1>1, <1>3, <2>1
  <2>2. CASE r.call \in client.sent /\ client' = d
    <3>1. /\ ClientOK(d, m)
          /\ Out(client) /\ ~(Fetches(r.call, Me) /\ ok) => Out(d)
      BY <1>3, <2>2, AnsweredOK DEF m
    <3> HIDE DEF d
    <3> QED
      BY <1>1, <2>2, <3>1
  <2> QED
    BY <1>4, <2>1, <2>2
<1>6. ClientInv'
  BY <1>1, <1>5 DEF ClientInv, m
<1>7. OutInv'
  BY <1>1, <1>5 DEF OutInv
<1>8. CheckingInv'
  BY <1>4 DEF SessionInv, CheckingInv, IsChecked
<1>9. ReceivedInv'
  <2>1. received' \subseteq received /\ mode' = mode /\ n <= m
    BY <1>2, <1>4
  <2> SUFFICES ASSUME NEW call \in received
               PROVE  /\ mode = "real" /\ call \in Requests /\ call.method # "GET"
                      /\ call.as <= m
    BY <2>1 DEF ReceivedInv, m
  <2>2. /\ mode = "real" /\ call \in Requests /\ call.method # "GET"
        /\ call.as <= n
    BY DEF SessionInv, ReceivedInv, n
  <2>3. call.as \in Nat
    BY <2>2, RequestShapes
  <2> QED
    BY <1>1, <1>2, <2>2, <2>3
<1> QED
  BY <1>4, <1>6, <1>7, <1>8, <1>9

(* Requests that are no longer checked free their place.                   *)
LEMMA FewerChecked ==
    ASSUME UsersInv, checking' \subseteq checking, UNCHANGED <<mode, cookie>>,
           users' \in Seq([name : Names, password : Passwords]), Len(users') = Len(users),
           \A i, j \in DOMAIN users' : users'[i].name = users'[j].name => i = j
    PROVE  UsersInv'
BY DEF UsersInv

(* A request that is no longer checked tries no key, and one that is newly *)
(* checked tries none when it is no login.                                 *)
LEMMA FewerTries ==
    ASSUME LimiterInv, CheckingInv, UNCHANGED failures,
           \A r \in checking' \ checking : ~IsLogin(r)
    PROVE  LimiterInv'
<1> SUFFICES ASSUME NEW k \in LimiterKeys
             PROVE  Len(failures[k]) + Cardinality(Trying(k)')
                      < MaxAttempts + Cardinality(Threads)
  BY DEF LimiterInv, LimiterKeys, Clients
<1>1. Trying(k)' \in SUBSET Trying(k)
  BY DEF Trying, LoginKeys, IsLogin
<1>2. /\ Cardinality(Trying(k)) \in Nat /\ Cardinality(Threads) \in Nat
      /\ Cardinality(Trying(k)') \in Nat /\ Cardinality(Trying(k)') <= Cardinality(Trying(k))
  BY <1>1, TryingThreads
<1>3. /\ Len(failures[k]) \in Nat
      /\ Len(failures[k]) + Cardinality(Trying(k)) < MaxAttempts + Cardinality(Threads)
  BY DEF LimiterInv
<1> QED
  BY <1>2, <1>3, AccountsAssumption

(* A step that answers a request and leaves the accounts and the limiter.  *)
LEMMA AnswerStep ==
    ASSUME SessionInv, NEW r, NEW ok \in BOOLEAN, NEW data \in Values, Done(r, ok, data),
           UNCHANGED <<mode, users, failures, cookie, page, pending, left>>,
           r.call \in client.sent => AnswerOK(Answer(r.call, ok, data), Len(users)),
           left /\ r.call \in client.sent => ~(Fetches(r.call, Me) /\ ok)
    PROVE  SessionInv'
<1>1. /\ Len(users) \in Nat /\ users \in Seq([name : Names, password : Passwords])
      /\ \A i, j \in DOMAIN users : users[i].name = users[j].name => i = j
  BY SomeUsers DEF SessionInv, UsersInv
<1>2. Len(users') \in Nat /\ Len(users) <= Len(users')
  BY <1>1
<1>3. ClientInv' /\ CheckingInv' /\ ReceivedInv' /\ OutInv' /\ checking' = checking \ {r}
  BY <1>2, DoneStep
<1>4. UsersInv'
  BY <1>1, <1>3, FewerChecked DEF SessionInv
<1>5. LimiterInv'
  BY <1>3, FewerTries DEF SessionInv
<1> QED
  BY <1>3, <1>4, <1>5 DEF SessionInv

LEMMA RefusedStep ==
    ASSUME SessionInv, NEW r, Done(r, FALSE, None),
           UNCHANGED <<mode, users, failures, cookie, page, pending, left>>
    PROVE  SessionInv'
<1>1. None \in Values /\ FALSE \in BOOLEAN
  BY DEF Values
<1>2. AnswerOK(Answer(r.call, FALSE, None), Len(users))
  BY DEF AnswerOK, Answer
<1> QED
  BY <1>1, <1>2, AnswerStep

(* The account an id names.                                                *)
LEMMA UserTyped ==
    ASSUME UsersInv, NEW id \in 1 .. Len(users)
    PROVE  /\ User(id) \in [id : 1 .. Len(users), name : Names]
           /\ User(id) \in Values
           /\ users[id] \in [name : Names, password : Passwords]
<1>1. Len(users) \in Nat /\ users \in Seq([name : Names, password : Passwords])
  BY SomeUsers
<1>2. users[id] \in [name : Names, password : Passwords]
  <2> DEFINE T == [name : Names, password : Passwords]
  <2> HIDE DEF T
  <2>1. \A s \in Seq(T) : \A i \in 1 .. Len(s) : s[i] \in T
    OBVIOUS
  <2>2. users \in Seq(T)
    BY <1>1 DEF T
  <2>3. users[id] \in T
    BY <2>1, <2>2
  <2> QED
    BY <2>3 DEF T
<1>3. User(id) \in [id : 1 .. Len(users), name : Names]
  BY <1>2 DEF User
<1>4. User(id) \in Values
  <2> HIDE DEF Persons
  <2> QED
    BY <1>1, <1>3, PersonTyped
<1> QED
  BY <1>2, <1>3, <1>4

(* Who a request acts as.                                                  *)
LEMMA CurrentUserTyped ==
    ASSUME SessionInv, NEW call \in client.sent \cup received
    PROVE  /\ CurrentUser(call) \in 0 .. Len(users)
           /\ left /\ call.path = Me => CurrentUser(call) = 0
           /\ call \in Requests
           /\ call.path \in Keys => call \in client.sent
<1>1. /\ ClientOK(client, Len(users))
      /\ cookie \in 0 .. Len(users) /\ Len(users) \in Nat
      /\ left => cookie = 0 /\ Out(client)
  BY SomeUsers DEF SessionInv, ClientInv, OutInv
<1>2. call \in Requests /\ call.as <= Len(users)
  <2>1. CASE call \in received
    BY <2>1 DEF SessionInv, ReceivedInv
  <2>2. CASE call \in client.sent
    BY <1>1, <2>2, CallsTyped DEF CallsOf, ClientOK
  <2> QED
    BY <2>1, <2>2
<1>3. call.as \in Nat
  BY <1>2, RequestShapes
<1>4. call.path \in Keys => call.method = "GET"
  BY <1>2, RequestShapes
<1>5. call.path \in Keys => call \in client.sent
  BY <1>4 DEF SessionInv, ReceivedInv
<1>6. left /\ call.path = Me => call.as = 0 /\ cookie = 0
  <2> SUFFICES ASSUME left, call.path = Me PROVE call.as = 0 /\ cookie = 0
    OBVIOUS
  <2>1. call \in CallsOf(client) /\ Fetches(call, Me)
    BY <1>4, <1>5 DEF CallsOf, Fetches
  <2> QED
    BY <1>1, <2>1 DEF Out
<1>7. call.as \in 0 .. Len(users)
  BY <1>1, <1>2, <1>3
<1> QED
  BY <1>1, <1>2, <1>5, <1>6, <1>7 DEF CurrentUser

(* The requests that are served in one step.                               *)
LEMMA SimpleStep ==
    ASSUME SessionInv, NEW call \in client.sent \cup received, NEW r, r.call = call,
           ~IsEntry(call), Simple(r), UNCHANGED <<failures, mode, cookie, page, pending, left>>
    PROVE  SessionInv'
<1> DEFINE n == Len(users)
           id == CurrentUser(call)
<1>1. /\ n \in Nat /\ users \in Seq([name : Names, password : Passwords])
      /\ \A i, j \in DOMAIN users : users[i].name = users[j].name => i = j
      /\ DOMAIN users = 1 .. n /\ UsersInv
  BY SomeUsers DEF SessionInv, UsersInv
<1>2. /\ id \in 0 .. n
      /\ left /\ call.path = Me => id = 0
      /\ call \in Requests /\ r.call = call
  BY CurrentUserTyped
<1>3. call.path \in Keys \cup {<<"logout">>, <<"me", "username">>, <<"me", "password">>}
  BY <1>2, RequestShapes DEF IsEntry
<1>4. None \in Values /\ BOOLEAN \subseteq Values
  BY DEF Values
<1> HIDE DEF n, id
<1>5. ASSUME NotAuthenticated(r)
      PROVE  SessionInv'
  BY <1>5, RefusedStep DEF NotAuthenticated
<1>6. CASE call.path = Me
  <2>1. ServeMe(r)
    BY <1>2, <1>6, Paths2 DEF Simple
  <2>2. CASE id # 0 /\ Done(r, TRUE, User(id)) /\ UNCHANGED users
    <3>1. ~left
      BY <1>2, <1>6, <2>2
    <3>2. User(id) \in [id : 1 .. n, name : Names] /\ User(id) \in Values
      BY <1>1, <1>2, <2>2, UserTyped DEF n
    <3>3. AnswerOK(Answer(r.call, TRUE, User(id)), Len(users))
      BY <1>2, <1>6, <3>2, Paths2 DEF AnswerOK, Answer, n
    <3>4. TRUE \in BOOLEAN
      OBVIOUS
    <3> QED
      BY <2>2, <3>1, <3>2, <3>3, <3>4, AnswerStep
  <2> QED
    BY <1>2, <1>5, <2>1, <2>2 DEF ServeMe, id
<1>7. CASE call.path = SetupStatus
  <2>1. Done(r, TRUE, users = <<>>) /\ UNCHANGED users
    BY <1>2, <1>7, Paths2 DEF Simple, ServeSetupStatus
  <2> DEFINE empty == users = <<>>
  <2>2. empty \in BOOLEAN /\ empty \in Values /\ TRUE \in BOOLEAN
    BY <1>4
  <2>3. ~Fetches(r.call, Me)
    BY <1>2, <1>7, Paths2 DEF Fetches
  <2> HIDE DEF empty
  <2>4. AnswerOK(Answer(r.call, TRUE, empty), Len(users))
    BY <1>2, <1>7, <2>2, Paths2 DEF AnswerOK, Answer
  <2>5. Done(r, TRUE, empty)
    BY <2>1 DEF empty
  <2> QED
    BY <2>1, <2>2, <2>3, <2>4, <2>5, AnswerStep
<1>8. CASE call.path = <<"logout">>
  <2> DEFINE ok == mode = "demo" \/ CurrentUser(r.call) # 0
  <2>1. Done(r, ok, None) /\ UNCHANGED users
    BY <1>2, <1>8, Paths2 DEF Simple, ServeLogout
  <2>2. ok \in BOOLEAN
    OBVIOUS
  <2> HIDE DEF ok
  <2>3. ~Fetches(r.call, Me)
    BY <1>2, <1>8, Paths2 DEF Fetches
  <2>4. AnswerOK(Answer(r.call, ok, None), Len(users))
    BY <1>2, <1>8, Paths2 DEF AnswerOK, Answer
  <2> QED
    BY <1>4, <2>1, <2>2, <2>3, <2>4, AnswerStep
<1>9. ASSUME NEW row \in [name : Names, password : Passwords], id # 0,
             users' = [users EXCEPT ![id] = row],
             NEW data \in Values, Done(r, TRUE, data),
             \A i \in 1 .. n : i # id => users[i].name # row.name,
             AnswerOK(Answer(r.call, TRUE, data), n), ~Fetches(r.call, Me)
      PROVE  SessionInv'
  <2>1. /\ users' \in Seq([name : Names, password : Passwords])
        /\ Len(users') = n /\ DOMAIN users' = 1 .. n
        /\ users'[id] = row
        /\ \A i \in 1 .. n : i # id => users'[i] = users[i]
    BY <1>1, <1>2, <1>9 DEF n
  <2>2. \A i, j \in DOMAIN users' : users'[i].name = users'[j].name => i = j
    BY <1>1, <1>9, <2>1
  <2>3. Len(users') \in Nat /\ Len(users) <= Len(users')
    BY <1>1, <2>1 DEF n
  <2>4. AnswerOK(Answer(r.call, TRUE, data), Len(users'))
    BY <1>9, <2>1
  <2>5. TRUE \in BOOLEAN
    OBVIOUS
  <2>6. ClientInv' /\ CheckingInv' /\ ReceivedInv' /\ OutInv' /\ checking' = checking \ {r}
    BY <1>9, <2>3, <2>4, <2>5, DoneStep
  <2>7. UsersInv'
    BY <1>1, <2>1, <2>2, <2>6, FewerChecked DEF n
  <2>8. LimiterInv'
    BY <2>6, FewerTries DEF SessionInv
  <2> QED
    BY <2>6, <2>7, <2>8 DEF SessionInv
<1>10. CASE call.path = <<"me", "username">>
  <2>1. ServeUsername(r)
    BY <1>2, <1>10, Paths2 DEF Simple
  <2>2. CASE id # 0 /\ Taken(call.body, DOMAIN users \ {id}) /\ Done(r, FALSE, None)
             /\ UNCHANGED users
    BY <2>2, RefusedStep
  <2>3. CASE /\ id # 0 /\ ~Taken(call.body, DOMAIN users \ {id})
             /\ users' = [users EXCEPT ![id].name = call.body]
             /\ Done(r, TRUE, [id |-> id, name |-> call.body])
    <3> DEFINE row == [users[id] EXCEPT !.name = call.body]
               data == [id |-> id, name |-> call.body]
    <3>1. call.body \in Names
      BY <1>2, <1>10, RequestShapes
    <3>2. users[id] \in [name : Names, password : Passwords]
      BY <1>1, <1>2, <2>3, UserTyped DEF n
    <3>3. row \in [name : Names, password : Passwords] /\ row.name = call.body
      BY <3>1, <3>2
    <3>4. users' = [users EXCEPT ![id] = row]
      BY <2>3
    <3>5. data \in [id : 1 .. n, name : Names]
      BY <1>1, <1>2, <2>3, <3>1
    <3>6. data \in Values
      BY <1>1, <3>5, PersonTyped
    <3> HIDE DEF row, data
    <3>7. AnswerOK(Answer(r.call, TRUE, data), n)
      BY <1>2, <1>10, <3>5, Paths2 DEF AnswerOK, Answer
    <3>8. ~Fetches(r.call, Me)
      BY <1>2, <1>10, Paths2 DEF Fetches
    <3>9. \A i \in 1 .. n : i # id => users[i].name # row.name
      BY <1>1, <2>3, <3>3 DEF Taken
    <3>10. Done(r, TRUE, data) /\ id # 0
      BY <2>3 DEF data
    <3> QED
      BY <1>9, <3>3, <3>4, <3>6, <3>7, <3>8, <3>9, <3>10
  <2> QED
    BY <1>2, <1>5, <2>1, <2>2, <2>3 DEF ServeUsername, id
<1>11. CASE call.path = <<"me", "password">>
  <2>1. ServePassword(r)
    BY <1>2, <1>11, Paths2 DEF Simple
  <2>2. CASE Done(r, FALSE, None) /\ UNCHANGED users
    BY <2>2, RefusedStep
  <2>3. CASE /\ id # 0
             /\ users' = [users EXCEPT ![id].password = call.body[2]]
             /\ Done(r, TRUE, None)
    <3> DEFINE row == [users[id] EXCEPT !.password = call.body[2]]
    <3>1. call.body[2] \in Passwords
      <4>1. call.body \in Passwords \X Passwords
        BY <1>2, <1>11, RequestShapes
      <4> QED
        BY <4>1
    <3>2. users[id] \in [name : Names, password : Passwords]
      BY <1>1, <1>2, <2>3, UserTyped DEF n
    <3>3. row \in [name : Names, password : Passwords] /\ row.name = users[id].name
      BY <3>1, <3>2
    <3>4. users' = [users EXCEPT ![id] = row]
      BY <2>3
    <3> HIDE DEF row
    <3>5. AnswerOK(Answer(r.call, TRUE, None), n)
      BY <1>2, <1>11, Paths2 DEF AnswerOK, Answer
    <3>6. ~Fetches(r.call, Me)
      BY <1>2, <1>11, Paths2 DEF Fetches
    <3>7. \A i \in 1 .. n : i # id => users[i].name # row.name
      BY <1>1, <1>2, <2>3, <3>3
    <3> QED
      BY <1>4, <1>9, <2>3, <3>3, <3>4, <3>5, <3>6, <3>7
  <2> QED
    BY <1>2, <1>5, <2>1, <2>2, <2>3 DEF ServePassword, id
<1> QED
  BY <1>3, <1>6, <1>7, <1>8, <1>10, <1>11

(***************************************************************************)
(* Logins and setups                                                       *)
(***************************************************************************)



(* The first step of a login or a setup that passes.                       *)
LEMMA WritingStep ==
    ASSUME SessionInv, NEW r, IsChecked(r), Writing(r), mode # "demo",
           \A q \in checking : q.thread # r.thread,
           IsLogin(r) => \A k \in LoginKeys(r) : ~IsBlocked(k),
           UNCHANGED <<mode, users, failures, cookie, page, pending, left>>
    PROVE  SessionInv'
<1>1. /\ checking' = checking \cup {r} /\ client' = client
      /\ received' \subseteq received
  BY DEF Writing
<1>2. ClientInv' /\ OutInv' /\ UsersInv' /\ ReceivedInv'
  BY <1>1 DEF SessionInv, ClientInv, OutInv, UsersInv, ReceivedInv
<1>3. CheckingInv'
  <2>1. \A q \in checking' : IsChecked(q)
    BY <1>1 DEF SessionInv, CheckingInv
  <2>2. \A p, q \in checking' : p.thread = q.thread => p = q
    BY <1>1 DEF SessionInv, CheckingInv
  <2> QED
    BY <2>1, <2>2 DEF CheckingInv, IsChecked, Clients, IsEntry
<1>4. LimiterInv'
  <2>1. CASE ~IsLogin(r)
    BY <1>1, <2>1, FewerTries DEF SessionInv
  <2>2. CASE IsLogin(r)
    <3> SUFFICES ASSUME NEW k \in LimiterKeys
                 PROVE  Len(failures[k]) + Cardinality(Trying(k)')
                          < MaxAttempts + Cardinality(Threads)
      BY DEF SessionInv, LimiterInv, LimiterKeys, Clients
    <3>1. CASE k \in LoginKeys(r)
      <4>1. ~(Len(failures[k]) >= MaxAttempts)
        BY <2>2, <3>1 DEF IsBlocked
      <4>2. Len(failures[k]) \in Nat /\ MaxAttempts \in Nat
        BY AccountsAssumption DEF SessionInv, LimiterInv
      <4>3. Trying(k)' \in SUBSET Threads
        BY <1>3 DEF Trying, CheckingInv, IsChecked
      <4>4. /\ Cardinality(Trying(k)') \in Nat /\ Cardinality(Threads) \in Nat
            /\ Cardinality(Trying(k)') <= Cardinality(Threads)
        BY <4>3, AccountsAssumption, FS_Subset, FS_CardinalityType
      <4> QED
        BY <4>1, <4>2, <4>4
    <3>2. CASE k \notin LoginKeys(r)
      <4>1. Trying(k)' = Trying(k)
        BY <1>1, <3>2 DEF Trying, LoginKeys, IsLogin
      <4> QED
        BY <4>1 DEF SessionInv, LimiterInv
    <3> QED
      BY <3>1, <3>2
  <2> QED
    BY <2>1, <2>2
<1> QED
  BY <1>2, <1>3, <1>4 DEF SessionInv

LEMMA CheckLoginStep ==
    ASSUME SessionInv, NEW r, IsChecked(r), IsLogin(r), CheckLogin(r), mode # "demo",
           \A q \in checking : q.thread # r.thread,
           UNCHANGED <<mode, cookie, page, pending, left>>
    PROVE  SessionInv'
<1>1. UNCHANGED <<users, failures>>
  BY DEF CheckLogin
<1>2. CASE \E k \in LoginKeys(r) : IsBlocked(k)
  <2>1. Done(r, FALSE, None)
    BY <1>2 DEF CheckLogin
  <2> QED
    BY <1>1, <2>1, RefusedStep
<1>3. CASE ~\E k \in LoginKeys(r) : IsBlocked(k)
  <2>1. Writing(r)
    BY <1>3 DEF CheckLogin
  <2> QED
    BY <1>1, <1>3, <2>1, WritingStep
<1> QED
  BY <1>2, <1>3

LEMMA CheckSetupStep ==
    ASSUME SessionInv, NEW r, IsChecked(r), IsSetup(r), CheckSetup(r), mode # "demo",
           \A q \in checking : q.thread # r.thread,
           UNCHANGED <<mode, cookie, page, pending, left>>
    PROVE  SessionInv'
<1>1. UNCHANGED <<users, failures>>
  BY DEF CheckSetup
<1>2. CASE users # <<>>
  <2>1. Done(r, FALSE, None)
    BY <1>2 DEF CheckSetup
  <2> QED
    BY <1>1, <2>1, RefusedStep
<1>3. CASE users = <<>>
  <2>1. Writing(r)
    BY <1>3 DEF CheckSetup
  <2>2. ~IsLogin(r)
    BY Paths2 DEF IsLogin, IsSetup
  <2> QED
    BY <1>1, <1>3, <2>1, <2>2, WritingStep
<1> QED
  BY <1>2, <1>3

(* The limiter when a login was verified: the attempt is no longer counted *)
(* as one that may fail, and when it did it is counted as a failure.       *)
LEMMA RecordKeeps ==
    ASSUME SessionInv, NEW r \in checking, IsLogin(r), RecordFailures(LoginKeys(r)),
           checking' = checking \ {r}
    PROVE  LimiterInv'
<1>1. /\ failures \in [LimiterKeys -> Seq(0 .. Window - 1)]
      /\ 0 \in 0 .. Window - 1 /\ MaxAttempts \in Nat
      /\ CheckingInv
  BY AccountsAssumption DEF SessionInv, LimiterInv
<1>2. failures' \in [LimiterKeys -> Seq(0 .. Window - 1)]
  <2> DEFINE Ages == Seq(0 .. Window - 1)
  <2>1. \A x \in Ages : Append(x, 0) \in Ages
    BY <1>1
  <2> HIDE DEF Ages
  <2>2. failures \in [LimiterKeys -> Ages]
    BY <1>1 DEF Ages
  <2>3. failures' \in [LimiterKeys -> Ages]
    BY <2>1, <2>2 DEF RecordFailures
  <2> QED
    BY <2>3 DEF Ages
<1>3. ASSUME NEW k \in LimiterKeys
      PROVE  Len(failures'[k]) + Cardinality(Trying(k)') < MaxAttempts + Cardinality(Threads)
  <2>1. Trying(k)' \in SUBSET Trying(k)
    BY DEF Trying, LoginKeys, IsLogin
  <2>2. /\ Cardinality(Trying(k)) \in Nat /\ Cardinality(Threads) \in Nat
        /\ Cardinality(Trying(k)') \in Nat
        /\ Cardinality(Trying(k)') <= Cardinality(Trying(k))
        /\ IsFiniteSet(Trying(k))
    BY <1>1, <2>1, TryingThreads
  <2>3. /\ Len(failures[k]) \in Nat
        /\ Len(failures[k]) + Cardinality(Trying(k)) < MaxAttempts + Cardinality(Threads)
    BY DEF SessionInv, LimiterInv
  <2>4. CASE k \notin LoginKeys(r)
    <3>1. failures'[k] = failures[k]
      BY <2>4 DEF RecordFailures
    <3> QED
      BY <1>1, <2>2, <2>3, <3>1
  <2>5. CASE k \in LoginKeys(r)
    <3>1. Len(failures'[k]) = Len(failures[k]) + 1
      BY <1>1, <2>5 DEF RecordFailures
    <3>2. r.thread \in Trying(k)
      BY <2>5 DEF Trying
    <3>3. Trying(k)' = Trying(k) \ {r.thread}
      BY <1>1 DEF Trying, LoginKeys, IsLogin, CheckingInv
    <3>4. Cardinality(Trying(k)') = Cardinality(Trying(k)) - 1
      BY <2>2, <3>2, <3>3, FS_RemoveElement
    <3> QED
      BY <1>1, <2>2, <2>3, <3>1, <3>4
  <2> QED
    BY <2>4, <2>5
<1>4. LimiterKeys' = LimiterKeys
  BY DEF LimiterKeys, Clients
<1> QED
  BY <1>2, <1>3, <1>4 DEF LimiterInv

LEMMA ResetKeeps ==
    ASSUME SessionInv, NEW keys, Reset(keys), checking' \subseteq checking
    PROVE  LimiterInv'
<1>1. /\ failures \in [LimiterKeys -> Seq(0 .. Window - 1)]
      /\ MaxAttempts \in Nat \ {0} /\ CheckingInv
  BY AccountsAssumption DEF SessionInv, LimiterInv
<1>2. failures' \in [LimiterKeys -> Seq(0 .. Window - 1)]
  <2> DEFINE Ages == Seq(0 .. Window - 1)
  <2>1. <<>> \in Ages
    BY <1>1
  <2> HIDE DEF Ages
  <2>2. failures \in [LimiterKeys -> Ages]
    BY <1>1 DEF Ages
  <2>3. failures' \in [LimiterKeys -> Ages]
    BY <2>1, <2>2 DEF Reset
  <2> QED
    BY <2>3 DEF Ages
<1>3. ASSUME NEW k \in LimiterKeys
      PROVE  Len(failures'[k]) + Cardinality(Trying(k)') < MaxAttempts + Cardinality(Threads)
  <2>1. Trying(k)' \in SUBSET Trying(k)
    BY DEF Trying, LoginKeys, IsLogin
  <2>2. /\ Cardinality(Trying(k)) \in Nat /\ Cardinality(Threads) \in Nat
        /\ Cardinality(Trying(k)') \in Nat
        /\ Cardinality(Trying(k)') <= Cardinality(Trying(k))
        /\ Cardinality(Trying(k)) <= Cardinality(Threads)
    BY <1>1, <2>1, TryingThreads
  <2>3. /\ Len(failures[k]) \in Nat
        /\ Len(failures[k]) + Cardinality(Trying(k)) < MaxAttempts + Cardinality(Threads)
    BY DEF SessionInv, LimiterInv
  <2>4. Len(failures'[k]) \in {0, Len(failures[k])}
    BY <1>1 DEF Reset
  <2>5. CASE Len(failures'[k]) = 0
    BY <1>1, <2>2, <2>5
  <2>6. CASE Len(failures'[k]) = Len(failures[k])
    BY <1>1, <2>2, <2>3, <2>6
  <2> QED
    BY <2>4, <2>5, <2>6
<1>4. LimiterKeys' = LimiterKeys
  BY DEF LimiterKeys, Clients
<1> QED
  BY <1>2, <1>3, <1>4 DEF LimiterInv

LEMMA SeqOfElements ==
    ASSUME NEW T, NEW S, NEW s \in Seq(T), \A i \in 1 .. Len(s) : s[i] \in S
    PROVE  s \in Seq(S)
<1>1. s \in [1 .. Len(s) -> S] /\ Len(s) \in Nat
  OBVIOUS
<1> QED
  BY <1>1, SeqDef

(* An attempt that the window has passed is dropped.                       *)
LEMMA FreshKeeps ==
    ASSUME NEW ages \in Seq(Nat)
    PROVE  Fresh(ages) \in Seq(0 .. Window - 1) /\ Len(Fresh(ages)) <= Len(ages)
<1> DEFINE K == {i \in DOMAIN ages : ages[i] >= Window}
           Is(f) == f = [n \in 0 .. Len(ages) |->
                            IF n = 0 THEN <<>>
                            ELSE IF ages[n] >= Window THEN f[n - 1]
                            ELSE Append(f[n - 1], ages[n])]
           fresh == CHOOSE f : Is(f)
<1>1. \A n \in 1 .. Len(ages) : n \in K <=> ages[n] >= Window
  OBVIOUS
<1>2. \A f : Is(f) <=> IsFilter(f, ages, K)
  <2> TAKE f
  <2> HIDE DEF K
  <2>1. \A n \in 0 .. Len(ages) : n # 0 => n \in 1 .. Len(ages)
    OBVIOUS
  <2> QED
    BY <1>1, <2>1 DEF IsFilter
<1>3. \E f : Is(f)
  BY <1>2, FilterExists
<1> HIDE DEF Is
<1>4. Is(fresh)
  BY <1>3
<1>5. Fresh(ages) = fresh[Len(ages)]
  BY DEF Fresh, Is
<1> HIDE DEF fresh, K
<1>6. IsFilter(fresh, ages, K)
  BY <1>2, <1>4
<1> DEFINE result == fresh[Len(ages)]
<1>7. /\ result \in Seq(Nat) /\ Len(result) <= Len(ages)
      /\ ToSet(result) \subseteq Survivors(ages, K)
  <2> DEFINE T == Nat
  <2>1. ages \in Seq(T)
    OBVIOUS
  <2> HIDE DEF T
  <2>2. \A f : IsFilter(f, ages, K) =>
            /\ f[Len(ages)] \in Seq(T) /\ Len(f[Len(ages)]) <= Len(ages)
            /\ ToSet(f[Len(ages)]) \subseteq Survivors(ages, K)
    BY <2>1, FilterKeeps
  <2> QED
    BY <1>6, <2>2 DEF T
<1> HIDE DEF result
<1>8. \A i \in 1 .. Len(result) : result[i] \in 0 .. Window - 1
  <2> TAKE i \in 1 .. Len(result)
  <2>1. result[i] \in ToSet(result)
    BY <1>7 DEF ToSet
  <2>2. PICK j \in DOMAIN ages \ K : result[i] = ages[j]
    BY <1>7, <2>1 DEF Survivors
  <2>3. ages[j] \in Nat /\ ~(ages[j] >= Window)
    BY <2>2 DEF K
  <2> QED
    BY <2>2, <2>3, AccountsAssumption
<1>9. result \in Seq(0 .. Window - 1)
  BY <1>7, <1>8, SeqOfElements
<1> QED
  BY <1>5, <1>7, <1>9 DEF result

LEMMA TickStep ==
    ASSUME SessionInv, Tick, UNCHANGED <<page, pending, budget, left>>
    PROVE  SessionInv'
<1>1. /\ UNCHANGED <<client, mode, users, cookie, received, checking, page, pending, left>>
      /\ failures' = [k \in LimiterKeys |->
           Fresh([i \in DOMAIN failures[k] |-> failures[k][i] + 1])]
  BY DEF Tick
<1>2. failures \in [LimiterKeys -> Seq(0 .. Window - 1)]
  BY DEF SessionInv, LimiterInv
<1>3. \A s \in Seq(0 .. Window - 1) :
        LET older == [i \in DOMAIN s |-> s[i] + 1]
        IN older \in Seq(Nat) /\ Len(older) = Len(s)
  <2> TAKE s \in Seq(0 .. Window - 1)
  <2> DEFINE older == [i \in DOMAIN s |-> s[i] + 1]
  <2>1. /\ Len(s) \in Nat /\ DOMAIN s = 1 .. Len(s)
        /\ \A i \in 1 .. Len(s) : s[i] \in 0 .. Window - 1
    BY LenProperties, ElementOfSeq
  <2>2. \A i \in 1 .. Len(s) : s[i] + 1 \in Nat
    BY <2>1, AccountsAssumption
  <2>3. older \in [1 .. Len(s) -> Nat]
    BY <2>1, <2>2
  <2> HIDE DEF older
  <2>4. older \in Seq(Nat)
    BY <2>1, <2>3, SeqDef
  <2>5. DOMAIN older = 1 .. Len(s) /\ DOMAIN older = 1 .. Len(older) /\ Len(older) \in Nat
    BY <2>3, <2>4
  <2>6. Len(older) = Len(s)
    BY <2>1, <2>5
  <2> QED
    BY <2>4, <2>6 DEF older
<1>4. ASSUME NEW k \in LimiterKeys
      PROVE  /\ failures'[k] \in Seq(0 .. Window - 1)
             /\ Len(failures'[k]) \in Nat /\ Len(failures'[k]) <= Len(failures[k])
  <2> DEFINE older == [i \in DOMAIN failures[k] |-> failures[k][i] + 1]
  <2>1. failures[k] \in Seq(0 .. Window - 1)
    BY <1>2
  <2>2. older \in Seq(Nat) /\ Len(older) = Len(failures[k])
    BY <1>3, <2>1
  <2>3. failures'[k] = Fresh(older)
    BY <1>1
  <2> HIDE DEF older
  <2>4. /\ Fresh(older) \in Seq(0 .. Window - 1)
        /\ Len(Fresh(older)) <= Len(older)
    BY <2>2, FreshKeeps
  <2>5. Len(Fresh(older)) \in Nat
    BY <2>4
  <2> QED
    BY <2>2, <2>3, <2>4, <2>5
<1>5. failures' \in [LimiterKeys -> Seq(0 .. Window - 1)]
  <2> DEFINE Ages == Seq(0 .. Window - 1)
  <2>1. \A k \in LimiterKeys : failures'[k] \in Ages
    BY <1>4
  <2> HIDE DEF Ages
  <2>2. failures' \in [LimiterKeys -> Ages]
    BY <1>1, <2>1
  <2> QED
    BY <2>2 DEF Ages
<1>6. ASSUME NEW k \in LimiterKeys
      PROVE  Len(failures'[k]) + Cardinality(Trying(k)') < MaxAttempts + Cardinality(Threads)
  <2>1. Trying(k)' = Trying(k)
    BY <1>1 DEF Trying, LoginKeys, IsLogin
  <2>2. /\ Cardinality(Trying(k)) \in Nat /\ Cardinality(Threads) \in Nat
    BY TryingThreads DEF SessionInv
  <2>3. /\ Len(failures[k]) \in Nat /\ MaxAttempts \in Nat
        /\ Len(failures[k]) + Cardinality(Trying(k)) < MaxAttempts + Cardinality(Threads)
    BY AccountsAssumption DEF SessionInv, LimiterInv
  <2>4. Len(failures'[k]) \in Nat /\ Len(failures'[k]) <= Len(failures[k])
    BY <1>4
  <2> QED
    BY <2>1, <2>2, <2>3, <2>4
<1>7. LimiterInv'
  BY <1>5, <1>6 DEF LimiterInv, LimiterKeys, Clients
<1>8. ClientInv' /\ UsersInv' /\ CheckingInv' /\ ReceivedInv' /\ OutInv'
  BY <1>1 DEF SessionInv, ClientInv, OutInv, UsersInv, CheckingInv, ReceivedInv
<1> QED
  BY <1>7, <1>8 DEF SessionInv

(* A request of the other two kinds is no fetch.                           *)
LEMMA EntryIsNoFetch ==
    ASSUME NEW r, IsChecked(r)
    PROVE  ~Fetches(r.call, Me)
BY DEF IsChecked, Fetches

LEMMA VerifyLoginStep ==
    ASSUME SessionInv, NEW r \in checking, IsLogin(r), VerifyLogin(r),
           UNCHANGED <<mode, cookie, page, pending, left>>
    PROVE  SessionInv'
<1> DEFINE n == Len(users)
<1>1. /\ n \in Nat /\ users \in Seq([name : Names, password : Passwords])
      /\ \A i, j \in DOMAIN users : users[i].name = users[j].name => i = j
      /\ UsersInv /\ DOMAIN users = 1 .. n
  BY SomeUsers DEF SessionInv, UsersInv
<1>2. IsChecked(r) /\ ~Fetches(r.call, Me)
  BY EntryIsNoFetch DEF SessionInv, CheckingInv
<1>3. users' = users /\ Len(users') \in Nat /\ Len(users) <= Len(users')
  BY <1>1 DEF VerifyLogin
<1>4. ASSUME checking' = checking \ {r}
      PROVE  UsersInv'
  BY <1>1, <1>3, <1>4, FewerChecked
<1>5. CASE \E id \in DOMAIN users :
               Reset(LoginKeys(r)) /\ Done(r, TRUE, User(id))
  <2>1. PICK id \in DOMAIN users : Reset(LoginKeys(r)) /\ Done(r, TRUE, User(id))
    BY <1>5
  <2>2. User(id) \in [id : 1 .. n, name : Names] /\ User(id) \in Values
    BY <1>1, UserTyped
  <2> DEFINE data == User(id)
  <2>3. AnswerOK(Answer(r.call, TRUE, data), Len(users'))
    <3>1. r.call.path # SetupStatus
      BY <1>2, Paths2 DEF IsChecked, IsEntry
    <3> QED
      BY <1>3, <2>2, <3>1 DEF AnswerOK, Answer
  <2>4. Done(r, TRUE, data) /\ data \in Values /\ TRUE \in BOOLEAN
    BY <2>1, <2>2
  <2> HIDE DEF data
  <2>5. ClientInv' /\ CheckingInv' /\ ReceivedInv' /\ OutInv' /\ checking' = checking \ {r}
    BY <1>2, <1>3, <2>3, <2>4, DoneStep
  <2>6. LimiterInv'
    BY <2>1, <2>5, ResetKeeps
  <2> QED
    BY <1>4, <2>5, <2>6 DEF SessionInv
<1>6. CASE RecordFailures(LoginKeys(r)) /\ Done(r, FALSE, None)
  <2>1. AnswerOK(Answer(r.call, FALSE, None), Len(users'))
    BY DEF AnswerOK, Answer
  <2>2. None \in Values /\ FALSE \in BOOLEAN
    BY DEF Values
  <2>3. ClientInv' /\ CheckingInv' /\ ReceivedInv' /\ OutInv' /\ checking' = checking \ {r}
    BY <1>3, <1>6, <2>1, <2>2, DoneStep
  <2>4. LimiterInv'
    BY <1>6, <2>3, RecordKeeps
  <2> QED
    BY <1>4, <2>3, <2>4 DEF SessionInv
<1> QED
  BY <1>5, <1>6 DEF VerifyLogin

(* The INSERT.                                                             *)
LEMMA InsertUserStep ==
    ASSUME SessionInv, NEW r \in checking, IsSetup(r), InsertUser(r),
           UNCHANGED <<mode, cookie, page, pending, left>>
    PROVE  SessionInv'
<1> DEFINE n == Len(users)
           name == r.call.body[1]
           row == [name |-> name, password |-> r.call.body[2]]
           data == [id |-> n + 1, name |-> name]
<1>1. /\ n \in Nat /\ users \in Seq([name : Names, password : Passwords])
      /\ \A i, j \in DOMAIN users : users[i].name = users[j].name => i = j
      /\ UsersInv /\ DOMAIN users = 1 .. n /\ cookie \in 0 .. n
  BY SomeUsers DEF SessionInv, UsersInv
<1>2. IsChecked(r) /\ ~Fetches(r.call, Me)
  BY EntryIsNoFetch DEF SessionInv, CheckingInv
<1>3. row \in [name : Names, password : Passwords] /\ name \in Names /\ row.name = name
  BY <1>2 DEF IsChecked
<1>4. CASE Taken(name, DOMAIN users) /\ Done(r, FALSE, None) /\ UNCHANGED <<users, failures>>
  BY <1>4, RefusedStep
<1>5. CASE /\ ~Taken(name, DOMAIN users)
           /\ users' = Append(users, row)
           /\ Done(r, TRUE, data)
           /\ UNCHANGED failures
  <2>1. checking' = checking \ {r}
    BY <1>5 DEF Done
  <2>2. /\ users' \in Seq([name : Names, password : Passwords])
        /\ Len(users') = n + 1 /\ DOMAIN users' = 1 .. n + 1
        /\ users'[n + 1] = row
        /\ \A i \in 1 .. n : users'[i] = users[i]
    <3> DEFINE T == [name : Names, password : Passwords]
    <3> HIDE DEF T, row
    <3>1. users \in Seq(T) /\ row \in T
      BY <1>1, <1>3 DEF T
    <3>2. \A s \in Seq(T) : \A x \in T :
            /\ Append(s, x) \in Seq(T)
            /\ Len(Append(s, x)) = Len(s) + 1 /\ DOMAIN Append(s, x) = 1 .. Len(s) + 1
            /\ Append(s, x)[Len(s) + 1] = x
            /\ \A i \in 1 .. Len(s) : Append(s, x)[i] = s[i]
      OBVIOUS
    <3> QED
      BY <1>5, <3>1, <3>2 DEF T
  <2>3. \A i \in 1 .. n : users[i].name # name
    BY <1>1, <1>5 DEF Taken
  <2>4. \A i, j \in DOMAIN users' : users'[i].name = users'[j].name => i = j
    <3> HIDE DEF n, row, name
    <3>1. \A i \in DOMAIN users' : i \in 1 .. n \/ i = n + 1
      BY <1>1, <2>2
    <3> QED
      BY <1>1, <1>3, <2>2, <2>3, <3>1
  <2>5. data \in [id : 1 .. n + 1, name : Names] /\ data \in Values
    <3>1. n + 1 \in Nat /\ n + 1 \in 1 .. n + 1
      BY <1>1
    <3>2. data \in [id : 1 .. n + 1, name : Names]
      BY <1>3, <3>1
    <3> HIDE DEF data
    <3> QED
      BY <3>1, <3>2, PersonTyped
  <2> HIDE DEF data
  <2>6. AnswerOK(Answer(r.call, TRUE, data), Len(users'))
    <3>1. r.call.path # SetupStatus
      BY <1>2, Paths2 DEF IsChecked, IsEntry
    <3> QED
      BY <2>2, <2>5, <3>1 DEF AnswerOK, Answer
  <2>7. Len(users') \in Nat /\ Len(users) <= Len(users') /\ TRUE \in BOOLEAN
    BY <1>1, <2>2
  <2>8. ClientInv' /\ CheckingInv' /\ ReceivedInv' /\ OutInv'
    BY <1>2, <1>5, <2>5, <2>6, <2>7, DoneStep
  <2>9. LimiterInv'
    BY <1>5, <2>1, FewerTries DEF SessionInv
  <2>10. UsersInv'
    <3>1. mode' # "demo" /\ mode' \in Modes
      BY <1>1 DEF UsersInv
    <3>2. cookie' \in 0 .. Len(users')
      <4> HIDE DEF n
      <4> QED
        BY <1>1, <2>2
    <3> QED
      BY <2>2, <2>4, <3>1, <3>2 DEF UsersInv
  <2> QED
    BY <2>8, <2>9, <2>10 DEF SessionInv
<1> QED
  BY <1>4, <1>5 DEF InsertUser

LEMMA FinishStep ==
    ASSUME SessionInv, NEW r \in checking, Finish(r), UNCHANGED <<page, pending, budget, left>>
    PROVE  SessionInv'
BY VerifyLoginStep, InsertUserStep DEF Finish

(* What the tab sent is checked as a request of it.                        *)
LEMMA SentIsChecked ==
    ASSUME NEW call \in Requests, IsEntry(call), NEW r, r.call = call,
           r.from = "here", r.thread \in Threads
    PROVE  IsChecked(r)
<1>1. call.method = "POST" /\ call.body[1] \in Names /\ call.body[2] \in Passwords
  BY RequestShapes, Paths2 DEF IsEntry
<1> QED
  BY <1>1 DEF IsChecked, Clients

LEMMA DemoLoginStep ==
    ASSUME SessionInv, NEW r, IsChecked(r), mode = "demo", DemoLogin(r),
           UNCHANGED <<mode, cookie, page, pending, left>>
    PROVE  SessionInv'
<1> DEFINE ok == users[1] = [name |-> r.call.body[1], password |-> r.call.body[2]]
           data == IF ok THEN User(1) ELSE None
<1>1. UsersInv /\ 1 \in 1 .. Len(users)
  <2>1. Len(users) = 1
    BY DEF SessionInv, UsersInv
  <2>2. 1 \in 1 .. Len(users)
    BY <2>1
  <2> QED
    BY <2>2 DEF SessionInv
<1>2. User(1) \in [id : 1 .. Len(users), name : Names] /\ User(1) \in Values
  BY <1>1, UserTyped
<1>3. data \in Values /\ ok \in BOOLEAN
  BY <1>2 DEF Values
<1>4. Done(r, ok, data) /\ UNCHANGED <<users, failures>>
  BY DEF DemoLogin
<1>5. AnswerOK(Answer(r.call, ok, data), Len(users))
  <2>1. r.call.path # SetupStatus
    BY Paths2 DEF IsChecked, IsEntry
  <2> QED
    BY <1>2, <2>1 DEF AnswerOK, Answer
<1>6. ~Fetches(r.call, Me)
  BY EntryIsNoFetch
<1> HIDE DEF ok, data
<1> QED
  BY <1>3, <1>4, <1>5, <1>6, AnswerStep

LEMMA ServeStep ==
    ASSUME SessionInv, NEW call \in client.sent \cup received, Serve(call),
           UNCHANGED <<page, pending, budget, left>>
    PROVE  SessionInv'
<1> DEFINE r == Request(call, "here")
<1>1. /\ r.call = call /\ r.from = "here" /\ r.thread \in Threads
      /\ \A q \in checking : q.thread # r.thread
  BY DEF Serve, Request, Free
<1>2. UNCHANGED <<mode, cookie, page, pending, left>>
  BY DEF Serve
<1>3. \/ IsLogin(r) /\ mode = "real" /\ CheckLogin(r)
      \/ IsSetup(r) /\ mode = "real" /\ CheckSetup(r)
      \/ IsLogin(r) /\ mode = "demo" /\ DemoLogin(r)
      \/ IsSetup(r) /\ mode = "demo" /\ DemoNotFound(r)
      \/ ~IsLogin(r) /\ ~IsSetup(r) /\ Simple(r) /\ UNCHANGED failures
  BY DEF Serve
<1> HIDE DEF r
<1>4. call \in Requests
  BY CurrentUserTyped
<1>5. IsLogin(r) \/ IsSetup(r) => IsChecked(r)
  BY <1>1, <1>4, SentIsChecked DEF IsLogin, IsSetup, IsEntry
<1>6. ~IsLogin(r) /\ ~IsSetup(r) => ~IsEntry(call)
  BY <1>1 DEF IsLogin, IsSetup, IsEntry
<1>7. CASE IsLogin(r) /\ mode = "real" /\ CheckLogin(r)
  BY <1>1, <1>2, <1>5, <1>7, CheckLoginStep
<1>8. CASE IsSetup(r) /\ mode = "real" /\ CheckSetup(r)
  BY <1>1, <1>2, <1>5, <1>8, CheckSetupStep
<1>9. CASE IsLogin(r) /\ mode = "demo" /\ DemoLogin(r)
  BY <1>2, <1>5, <1>9, DemoLoginStep
<1>10. CASE IsSetup(r) /\ mode = "demo" /\ DemoNotFound(r)
  BY <1>2, <1>10, RefusedStep DEF DemoNotFound
<1>11. CASE ~IsLogin(r) /\ ~IsSetup(r) /\ Simple(r) /\ UNCHANGED failures
  BY <1>1, <1>2, <1>6, <1>11, SimpleStep
<1> QED
  BY <1>3, <1>7, <1>8, <1>9, <1>10, <1>11

(* Another client's login or setup.                                        *)
LEMMA AttemptStep ==
    ASSUME SessionInv, NEW path, NEW body, Attempt(path, body),
           path \in {<<"login">>, <<"setup">>}, body[1] \in Names, body[2] \in Passwords
    PROVE  SessionInv'
<1>1. PICK from \in Others : Elsewhere(from, path, body)
  BY DEF Attempt
<1> DEFINE r == Request(Call("POST", path, 0, body), from)
<1>2. /\ mode = "real"
      /\ (IsLogin(r) /\ CheckLogin(r)) \/ (IsSetup(r) /\ CheckSetup(r))
      /\ UNCHANGED <<mode, cookie, page, pending, left>>
  BY <1>1 DEF Attempt, Elsewhere
<1>3. r.thread \in Threads /\ \A q \in checking : q.thread # r.thread
  BY <1>1 DEF Elsewhere, Request, Free
<1>4. IsChecked(r)
  BY <1>3 DEF IsChecked, IsEntry, Clients, Call, Request
<1> HIDE DEF r
<1> QED
  BY <1>2, <1>3, <1>4, CheckLoginStep, CheckSetupStep

(***************************************************************************)
(* The invariant                                                           *)
(***************************************************************************)

LEMMA InitSession == Init => SessionInv
<1> SUFFICES ASSUME Init PROVE SessionInv
  OBVIOUS
<1> DEFINE c == EmptyClient({Me, SetupStatus})
           n == Len(users)
<1>1. /\ mode \in Modes /\ users \in {<<>>, <<SeedUser>>}
      /\ mode = "demo" => users # <<>>
      /\ cookie \in 0 .. n /\ checking = {} /\ received = {}
      /\ failures = [k \in LimiterKeys |-> <<>>]
      /\ client = FetchAll(c, {Me}, cookie)
      /\ page = Location("account", None) /\ pending = {} /\ left = FALSE
  BY DEF Init, AccountsInit
<1>2. /\ users \in Seq([name : Names, password : Passwords])
      /\ n \in 0 .. 1 /\ DOMAIN users = 1 .. n
      /\ mode = "demo" => n = 1
  <2>1. CASE users = <<>>
    BY <1>1, <2>1
  <2>2. CASE users = <<SeedUser>>
    <3> DEFINE T == [name : Names, password : Passwords]
    <3>1. SeedUser \in T
      BY AccountsAssumption
    <3> HIDE DEF T
    <3>2. users \in Seq(T) /\ n = 1 /\ DOMAIN users = 1 .. 1
      BY <2>2, <3>1
    <3> QED
      BY <3>2 DEF T
  <2> QED
    BY <1>1, <2>1, <2>2
<1>3. \A k : Trying(k) = {}
  BY <1>1 DEF Trying
<1>4. UsersInv
  <2>1. \A i, j \in DOMAIN users : i = j
    <3> HIDE DEF n
    <3> QED
      BY <1>2
  <2> QED
    BY <1>1, <1>2, <2>1 DEF UsersInv
<1>5. LimiterInv
  <2>1. /\ \A k \in LimiterKeys : failures[k] = <<>> /\ Cardinality(Trying(k)) = 0
        /\ Cardinality(Threads) \in Nat
    BY <1>1, <1>3, AccountsAssumption, FS_EmptySet, FS_CardinalityType
  <2>2. <<>> \in Seq(0 .. Window - 1) /\ Len(<<>>) = 0
    OBVIOUS
  <2>3. failures \in [LimiterKeys -> Seq(0 .. Window - 1)]
    <3> DEFINE Ages == Seq(0 .. Window - 1)
    <3>1. <<>> \in Ages
      BY <2>2
    <3> HIDE DEF Ages
    <3>2. failures \in [LimiterKeys -> Ages]
      BY <1>1, <3>1
    <3> QED
      BY <3>2 DEF Ages
  <2> QED
    BY <2>1, <2>2, <2>3, AccountsAssumption DEF LimiterInv
<1> HIDE DEF n
<1>6. n \in Nat
  BY <1>2
<1>7. /\ ClientOK(client, n) /\ Extends(c, client, Keys, cookie) /\ c.sent = {}
  <2> HIDE DEF Keys
  <2> QED
    BY <1>1, <1>6, EmptyOK
<1> HIDE DEF c
<1>8. CheckingInv /\ ReceivedInv
  BY <1>1 DEF CheckingInv, ReceivedInv
<1>9. ClientInv
  <2>1. page \in Locations
    BY <1>1, LocationOK DEF Paths, Protected
  <2> QED
    BY <1>1, <1>7, <2>1 DEF ClientInv, n
<1> QED
  BY <1>1, <1>4, <1>5, <1>8, <1>9 DEF SessionInv, OutInv

LEMMA VisitorStep ==
    ASSUME SessionInv, Visitor
    PROVE  SessionInv'
<1>1. CASE Load(page) \/ Load(Location("account", None))
  <2>1. page \in Locations /\ Location("account", None) \in Locations
    BY LocationOK DEF SessionInv, ClientInv, Paths, Protected
  <2> QED
    BY <1>1, <2>1, LoadStep
<1>2. CASE \E path \in Protected : Navigate(path)
  BY <1>2, NavigateStep
<1>3. CASE Focus
  BY <1>3, FocusStep
<1>4. CASE ResetDemo
  BY <1>4, ResetDemoStep
<1>5. CASE \/ \E typed \in Credentials :
                Login(typed[1], typed[2]) \/ Setup(typed[1], typed[2])
           \/ \E name \in Names : ChangeUsername(name)
           \/ \E p, q, confirm \in Passwords : p # q /\ ChangePassword(p, q, confirm)
           \/ Logout
  BY <1>5, VisitorSubmits
<1> QED
  BY <1>1, <1>2, <1>3, <1>4, <1>5 DEF Visitor

LEMMA NextSession == SessionInv /\ [Next]_vars => SessionInv'
<1> SUFFICES ASSUME SessionInv, [Next]_vars PROVE SessionInv'
  OBVIOUS
<1>1. CASE Visitor
  BY <1>1, VisitorStep
<1>2. CASE Redirects
  BY <1>2, RedirectsStep
<1>3. CASE Server /\ UNCHANGED <<page, pending, budget, left>>
  BY <1>3, ServeStep, FinishStep, TickStep DEF Server, Heard, Unheard
<1>4. CASE \E i \in Arrivable : Deliver(i)
  BY <1>4, DeliverStep
<1>5. CASE mode = "real" /\ NetworkFails /\ Event
            /\ UNCHANGED <<mode, accountVars, cookie, page, pending, left, behind>>
  BY <1>5, NetworkFailsStep
<1>6. CASE \E guess \in Guesses :
              Attempt(<<"login">>, Append(guess, "home")) \/ Attempt(<<"setup">>, guess)
  <2>1. PICK guess \in Guesses :
              Attempt(<<"login">>, Append(guess, "home")) \/ Attempt(<<"setup">>, guess)
    BY <1>6
  <2>2. PICK name \in Names, password \in Passwords : guess = <<name, password>>
    BY SessionAssumption
  <2>3. /\ guess[1] \in Names /\ guess[2] \in Passwords
        /\ Append(guess, "home")[1] \in Names /\ Append(guess, "home")[2] \in Passwords
    BY <2>2
  <2> QED
    BY <2>1, <2>3, AttemptStep
<1>7. CASE SessionEnds \/ SignInElsewhere
  BY <1>7, SessionsElsewhereStep
<1>8. CASE UNCHANGED vars
  <2>1. /\ UNCHANGED <<mode, accountVars>> /\ cookie' = cookie
        /\ client' = client /\ page' = page /\ pending' = pending /\ left' = left
    BY <1>8 DEF vars
  <2>2. /\ cookie \in 0 .. Len(users) /\ ClientOK(client, Len(users))
        /\ page \in Locations /\ pending \subseteq Forms
        /\ left => cookie = 0 /\ Out(client)
    BY SomeUsers DEF SessionInv, ClientInv, OutInv
  <2> QED
    BY <2>1, <2>2, TabStep
<1> QED
  BY <1>1, <1>2, <1>3, <1>4, <1>5, <1>6, <1>7, <1>8 DEF Next

(* The inductive invariant holds in every reachable state.                 *)
THEOREM SessionInvariant == Spec => []SessionInv
BY InitSession, NextSession, PTL DEF Spec

(***************************************************************************)
(* What follows                                                            *)
(***************************************************************************)

(* The pages' data, the accounts and the requests have their types; also   *)
(* with two setups between check and insert usernames are unique, and a    *)
(* query never has two fetches in flight (users.username is UNIQUE,        *)
(* models.py; TanStack Query joins the fetch in flight).                   *)
THEOREM SessionTypes == Spec => []TypeOK
<1>1. SessionInv => TypeOK
  <2> SUFFICES ASSUME SessionInv PROVE TypeOK
    OBVIOUS
  <2> DEFINE n == Len(users)
  <2>1. /\ n \in Nat /\ cookie \in 0 .. n /\ DOMAIN users = 1 .. n
        /\ UsersInv /\ ClientInv /\ CheckingInv /\ ReceivedInv /\ LimiterInv
    BY SomeUsers DEF SessionInv
  <2>2. AccountsTypeOK
    BY <2>1 DEF AccountsTypeOK, UsersInv, LimiterInv, CheckingInv, IsChecked, ReceivedInv
  <2>3. /\ ClientOK(client, n) /\ page \in Locations /\ pending \subseteq Forms
        /\ IsClient(client, Keys, Values, Requests, Answers)
    BY <2>1 DEF ClientInv, ClientOK
  <2>4. \A call \in client.sent : call.as \in 0 .. n
    <3>1. client.sent \subseteq Requests /\ client.sent \subseteq CallsOf(client)
      BY <2>3, ClientFields DEF CallsOf
    <3>2. \A call \in client.sent : call.as \in Nat /\ call.as <= n
      BY <2>3, <3>1, RequestShapes DEF ClientOK
    <3> QED
      BY <2>1, <3>2
  <2>5. ASSUME NEW k \in DOMAIN client.cache
        PROVE  Cardinality({call \in CallsOf(client) : Fetches(call, k)}) <= 1
    <3> DEFINE fetches == {call \in CallsOf(client) : Fetches(call, k)}
    <3>1. \A x, y \in fetches : x = y
      BY <2>3 DEF ClientOK, OneFetchEach, Fetches
    <3>2. fetches = {} \/ \E x : fetches = {x}
      BY <3>1
    <3> HIDE DEF fetches
    <3>3. Cardinality(fetches) \in {0, 1}
      BY <3>2, FS_EmptySet, FS_Singleton
    <3>4. Cardinality(fetches) <= 1
      BY <3>3
    <3> QED
      BY <3>4 DEF fetches
  <2>6. Data(client, Me) \in {None} \cup [id : DOMAIN users, name : Names]
    BY <2>1, <2>3 DEF ClientOK
  <2> QED
    BY <2>2, <2>3, <2>4, <2>5, <2>6 DEF TypeOK, ClientOK
<1> QED
  BY <1>1, SessionInvariant, PTL

(* After a logout without another change in flight no page behind          *)
(* ProtectedRoute is shown until somebody signs in: onSuccess of logout    *)
(* clears the cache (Layout.tsx), and what arrives later brings no user.   *)
THEOREM LogoutIsFinal == Spec => []LoggedOutStaysOut
<1>1. SessionInv => LoggedOutStaysOut
  BY LeftShowsNoForm DEF LoggedOutStaysOut
<1> QED
  BY <1>1, SessionInvariant, PTL

(* However the check and the record of LoginRateLimiter interleave, a key  *)
(* has fewer failures than the limit and the number of threads together.   *)
THEOREM LimiterIsBounded == Spec => []AttemptsBounded
<1>1. SessionInv => AttemptsBounded
  <2> SUFFICES ASSUME SessionInv, NEW k \in LimiterKeys
               PROVE  Len(failures[k]) < MaxAttempts + Cardinality(Threads)
    BY DEF AttemptsBounded
  <2>1. Cardinality(Trying(k)) \in Nat /\ Cardinality(Threads) \in Nat
    BY TryingThreads DEF SessionInv
  <2>2. /\ Len(failures[k]) \in Nat /\ MaxAttempts \in Nat
        /\ Len(failures[k]) + Cardinality(Trying(k)) < MaxAttempts + Cardinality(Threads)
    BY AccountsAssumption DEF SessionInv, LimiterInv
  <2> QED
    BY <2>1, <2>2
<1> QED
  BY <1>1, SessionInvariant, PTL
=============================================================================
