----------------------------- MODULE AdminUiProofs -----------------------------
(***************************************************************************)
(* Proofs about AdminUi for every value of its constants: any tokens,      *)
(* operations, targets and visits, losses, and answers in any order.       *)
(*                                                                         *)
(* The inductive invariant is AdminInv; its parts say what the server      *)
(* (ServerInv), the tab (ClientInv) and the mounted component (ViewInv)    *)
(* rely on.                                                                *)
(***************************************************************************)
EXTENDS AdminUi, QueryCacheProofs

(* What the server keeps.                                                  *)
Statuses == {"absent", "active", "inactive"}
Configs == [target : Targets, fetched : BOOLEAN]
TokenRecords == [state : {"unused", "live", "revoked", "deleted"}, grants : SUBSET Operations]
Servers ==
    [config : {None} \cup Configs, ops : [Operations -> Statuses],
     tokens : [Tokens -> TokenRecords], snapshot : {None} \cup Specs]

ServerInv == mode \in Modes /\ server \in Servers

(* The tokens that can no longer be used.                                  *)
IsGone(t) == server.tokens[t].state \in {"revoked", "deleted"}
Gone == {t \in Tokens : IsGone(t)}

(* What a query holds; a list calls no token revoked that is not gone.     *)
Lists == UNION {[S -> {"live", "revoked"}] : S \in SUBSET Tokens}
RevokedIn(list) == {t \in DOMAIN list : list[t] = "revoked"}
Pairs == Operations \X {"active", "inactive"}

KeyData(k, gone) ==
    CASE k = <<"tokens">> -> {list \in Lists : RevokedIn(list) \subseteq gone}
      [] k[1] = "token" -> SUBSET Operations
      [] k[1] = "operations" -> SUBSET Pairs
      [] k = <<"backendConfig">> -> Configs
      [] k = <<"schemaSnapshots">> -> Specs

Values ==
    {None} \cup Tokens \cup BOOLEAN \cup UNION {KeyData(k, Tokens) : k \in QueryKeys}

(* What the tab sends.                                                     *)
TokenPaths(kind) == {<<kind, t>> : t \in Tokens}
RefreshPaths == {<<"refresh", "button">>, <<"refresh", "save">>}
Lists1 == {<<grants>> : grants \in SUBSET Operations}
Requests ==
    [method : {"GET"}, path : QueryKeys, as : {None}, body : {None}]
    \cup [method : {"POST"}, path : {<<"tokens">>}, as : {None}, body : Lists1]
    \cup [method : {"PATCH"}, path : TokenPaths("token"), as : {None}, body : Lists1]
    \cup [method : {"POST"}, path : TokenPaths("revoke"), as : {None}, body : {None}]
    \cup [method : {"DELETE"}, path : TokenPaths("token"), as : {None}, body : {None}]
    \cup [method : {"PUT"}, path : {<<"backendConfig">>}, as : {None},
          body : Targets \X BOOLEAN \X BOOLEAN]
    \cup [method : {"POST"}, path : RefreshPaths, as : {None}, body : {None}]

Answers == [call : Requests, ok : BOOLEAN, data : Values]

AnswerOK(a, gone) ==
    a.ok =>
        /\ a.call.method = "GET" => a.data \in KeyData(a.call.path, gone)
        /\ a.call.method = "POST" /\ a.call.path = <<"tokens">> => a.data \in Tokens
        /\ a.call.path[1] = "refresh" => a.data \in BOOLEAN

(* The tab: only a token that is gone is being deleted.                    *)
ClientOK(c, gone) ==
    /\ IsClient(c, QueryKeys, Values, Requests, Answers)
    /\ \A k \in QueryKeys : Data(c, k) \in {None} \cup KeyData(k, gone)
    /\ \A call \in c.sent : call.method = "DELETE" => call.path[2] \in gone
    /\ \A a \in AnswersOf(c) : AnswerOK(a, gone)
    /\ OneFetchEach(c)

ClientInv == ClientOK(client, Gone)

(* The components' states.                                                 *)
ListViews ==
    [confirm : Tokens \cup {None}, revoking : Tokens \cup {None}, deleting : BOOLEAN]
FormViews ==
    [selected : SUBSET Operations, saving : BOOLEAN, issued : Tokens \cup {None}]
ConfigViews ==
    [target : Targets \cup {None}, dialog : BOOLEAN, saving : BOOLEAN,
     refreshing : SUBSET {"button", "save"}, notice : BOOLEAN]

(* What is revoked is what the dialog asks about; a warning is about a     *)
(* target.                                                                 *)
ViewOK(c, p, v) ==
    /\ p = <<"tokens">> => v \in ListViews /\ v.revoking \in {None, v.confirm}
    /\ IsForm(p) => v = None \/ v \in FormViews
    /\ p = <<"dashboard">> =>
        \/ v = None
        \/ /\ v \in ConfigViews
           /\ Data(c, <<"backendConfig">>) # None \/ v.dialog => v.target \in Targets
    /\ ~IsForm(p) /\ p \notin {<<"tokens">>, <<"dashboard">>} => v = None

ViewInv ==
    /\ visits \in Visits
    /\ page \in Routes
    /\ ViewOK(client, page, view)

AdminInv ==
    /\ ServerInv
    /\ ClientInv
    /\ ViewInv

(* What the server has of the tab's earlier loads.                         *)
ReceivedInv ==
    \A call \in received : mode = "real" /\ call \in Requests /\ call.method # "GET"

(***************************************************************************)
(* Routes, queries and requests                                            *)
(***************************************************************************)

LEMMA Routing ==
    ASSUME NEW p \in Routes
    PROVE  /\ \/ p = <<"tokens">>
              \/ p = <<"tokens", "new">>
              \/ \E t \in Tokens : p = <<"edit", t>>
              \/ p = <<"dashboard">>
              \/ p = <<"snapshots">>
              \/ \E f \in Filters : p = <<"operations", f>>
           /\ Queries(p) \subseteq QueryKeys
<1>1. Queries(p) \subseteq QueryKeys
  BY DEF QueryKeys
<1> QED
  BY <1>1 DEF Routes, TokenRoutes, ConfigRoutes

LEMMA PageKinds ==
    /\ ~IsForm(<<"tokens">>) /\ ~IsForm(<<"dashboard">>) /\ ~IsForm(<<"snapshots">>)
    /\ IsForm(<<"tokens", "new">>)
    /\ \A x : IsForm(<<"edit", x>>) /\ ~IsForm(<<"operations", x>>)
    /\ Queries(<<"tokens">>) = {<<"tokens">>}
    /\ Queries(<<"tokens", "new">>) = {<<"operations", "all">>}
    /\ \A t \in Tokens : Queries(<<"edit", t>>) = {<<"operations", "all">>, <<"token", t>>}
    /\ Queries(<<"dashboard">>) = {<<"backendConfig">>, <<"schemaSnapshots">>}
    /\ Queries(<<"snapshots">>) = {<<"schemaSnapshots">>}
    /\ \A f \in Filters : Queries(<<"operations", f>>) = {<<"operations", f>>}
<1>1. /\ <<"tokens">>[1] = "tokens" /\ <<"tokens", "new">>[1] = "tokens"
      /\ <<"dashboard">>[1] = "dashboard" /\ <<"snapshots">>[1] = "snapshots"
      /\ \A x : <<"edit", x>>[1] = "edit" /\ <<"operations", x>>[1] = "operations"
      /\ \A x : <<"edit", x>>[2] = x
  OBVIOUS
<1>2. /\ <<"tokens">> # <<"tokens", "new">>
      /\ \A x : <<"edit", x>> # <<"tokens">> /\ <<"edit", x>> # <<"tokens", "new">>
  BY <1>1
<1> QED
  BY <1>1, <1>2 DEF IsForm, Queries

LEMMA KeyKinds ==
    /\ <<"tokens">> \in QueryKeys /\ <<"backendConfig">> \in QueryKeys
    /\ <<"schemaSnapshots">> \in QueryKeys
    /\ \A t \in Tokens : <<"token", t>> \in QueryKeys
    /\ \A f \in Filters : <<"operations", f>> \in QueryKeys
    /\ \A k \in QueryKeys :
        \/ k = <<"tokens">>
        \/ k = <<"backendConfig">>
        \/ k = <<"schemaSnapshots">>
        \/ \E t \in Tokens : k = <<"token", t>>
        \/ \E f \in Filters : k = <<"operations", f>>
<1>1. /\ <<"tokens">> \in Routes /\ <<"tokens", "new">> \in Routes
      /\ <<"dashboard">> \in Routes /\ <<"snapshots">> \in Routes
      /\ \A t \in Tokens : <<"edit", t>> \in Routes
      /\ \A f \in Filters : <<"operations", f>> \in Routes
  BY DEF Routes, TokenRoutes, ConfigRoutes
<1>2. \A p \in Routes : Queries(p) \subseteq QueryKeys
  BY Routing
<1>3. "all" \in Filters
  BY DEF Filters
<1>4. ASSUME NEW k \in QueryKeys
      PROVE  \/ k = <<"tokens">>
             \/ k = <<"backendConfig">>
             \/ k = <<"schemaSnapshots">>
             \/ \E t \in Tokens : k = <<"token", t>>
             \/ \E f \in Filters : k = <<"operations", f>>
  <2>1. PICK p \in Routes : k \in Queries(p)
    BY DEF QueryKeys
  <2> QED
    BY <1>3, <2>1, Routing, PageKinds
<1> QED
  BY <1>1, <1>2, <1>4, PageKinds

LEMMA KeyDataIs ==
    ASSUME NEW gone
    PROVE  /\ KeyData(<<"tokens">>, gone) = {list \in Lists : RevokedIn(list) \subseteq gone}
           /\ KeyData(<<"backendConfig">>, gone) = Configs
           /\ KeyData(<<"schemaSnapshots">>, gone) = Specs
           /\ \A t : KeyData(<<"token", t>>, gone) = SUBSET Operations
           /\ \A f : KeyData(<<"operations", f>>, gone) = SUBSET Pairs
<1>1. /\ <<"tokens">>[1] = "tokens" /\ <<"backendConfig">>[1] = "backendConfig"
      /\ <<"schemaSnapshots">>[1] = "schemaSnapshots"
      /\ \A x : <<"token", x>>[1] = "token" /\ <<"operations", x>>[1] = "operations"
  OBVIOUS
<1>2. /\ <<"tokens">> # <<"backendConfig">> /\ <<"tokens">> # <<"schemaSnapshots">>
      /\ <<"backendConfig">> # <<"schemaSnapshots">>
      /\ \A x : /\ <<"token", x>> \notin {<<"tokens">>, <<"backendConfig">>, <<"schemaSnapshots">>}
                /\ <<"operations", x>> \notin
                     {<<"tokens">>, <<"backendConfig">>, <<"schemaSnapshots">>}
  BY <1>1
<1> QED
  BY <1>1, <1>2 DEF KeyData

LEMMA KeyDataTyped ==
    ASSUME NEW k \in QueryKeys, NEW gone
    PROVE  /\ KeyData(k, gone) \subseteq Values
           /\ \A more : gone \subseteq more => KeyData(k, gone) \subseteq KeyData(k, more)
<1>1. ASSUME NEW more, k # <<"tokens">>
      PROVE  KeyData(k, gone) = KeyData(k, more)
  <2>1. CASE k = <<"backendConfig">> \/ k = <<"schemaSnapshots">>
    BY <2>1, KeyDataIs
  <2>2. ASSUME NEW t \in Tokens, k = <<"token", t>>
        PROVE  KeyData(k, gone) = KeyData(k, more)
    BY <2>2, KeyDataIs
  <2>3. ASSUME NEW f \in Filters, k = <<"operations", f>>
        PROVE  KeyData(k, gone) = KeyData(k, more)
    BY <2>3, KeyDataIs
  <2> QED
    BY <1>1, <2>1, <2>2, <2>3, KeyKinds
<1>2. ASSUME NEW more, gone \subseteq more \/ more = Tokens, k = <<"tokens">>
      PROVE  KeyData(k, gone) \subseteq KeyData(k, more)
  <2>1. \A list \in Lists : RevokedIn(list) \subseteq Tokens
    BY DEF Lists, RevokedIn
  <2> QED
    BY <1>2, <2>1, KeyDataIs
<1>3. KeyData(k, gone) \subseteq KeyData(k, Tokens)
  BY <1>1, <1>2
<1>4. KeyData(k, Tokens) \subseteq Values
  BY DEF Values
<1> QED
  BY <1>1, <1>2, <1>3, <1>4

(* What a request is depends on its method and path.                       *)
LEMMA RequestShapes ==
    ASSUME NEW call \in Requests
    PROVE  /\ call.method = "GET" => call.path \in QueryKeys /\ call.body = None
           /\ call.method = "PATCH" =>
                \E t \in Tokens : call.path = <<"token", t>> /\ call.body \in Lists1
           /\ call.method = "DELETE" => \E t \in Tokens : call.path = <<"token", t>>
           /\ call.method = "PUT" => /\ call.path = <<"backendConfig">>
                                     /\ call.body \in Targets \X BOOLEAN \X BOOLEAN
           /\ call.method = "POST" => \/ call.path = <<"tokens">> /\ call.body \in Lists1
                                      \/ \E t \in Tokens : call.path = <<"revoke", t>>
                                      \/ call.path \in RefreshPaths
           /\ call.method \in {"GET", "PATCH", "DELETE", "PUT", "POST"}
<1> HIDE DEF Lists1
<1> QED
  BY DEF Requests, TokenPaths

LEMMA CallsTyped ==
    ASSUME NEW c, NEW gone, ClientOK(c, gone)
    PROVE  /\ CallsOf(c) \subseteq Requests
           /\ AnswersOf(c) \subseteq Answers
           /\ c.sent \subseteq CallsOf(c)
           /\ \A a \in AnswersOf(c) : a.call \in CallsOf(c)
<1>1. c.sent \subseteq Requests /\ AnswersOf(c) \subseteq Answers
  BY ClientFields DEF ClientOK
<1>2. \A a \in Answers : a.call \in Requests
  BY DEF Answers
<1> QED
  BY <1>1, <1>2 DEF CallsOf

(***************************************************************************)
(* Tabs                                                                    *)
(***************************************************************************)

LEMMA GetIsRequest == \A k \in QueryKeys : Call("GET", k, None, None) \in Requests
<1> TAKE k \in QueryKeys
<1>1. Call("GET", k, None, None)
        \in [method : {"GET"}, path : QueryKeys, as : {None}, body : {None}]
  BY DEF Call
<1> QED
  BY <1>1 DEF Requests

LEMMA ExtendsOK ==
    ASSUME NEW c, NEW d, NEW gone, ClientOK(c, gone), Extends(c, d, QueryKeys, None),
           IsClient(d, QueryKeys, Values, Requests, Answers)
    PROVE  ClientOK(d, gone)
<1>1. /\ AnswersOf(d) = AnswersOf(c)
      /\ d.cache = c.cache
      /\ \A call \in d.sent \ c.sent : IsFetch(call, QueryKeys, None)
  BY ExtendsCalls DEF Extends
<1>2. \A call \in d.sent : call.method = "DELETE" => call \in c.sent
  BY <1>1, IsFetchGet
<1>3. OneFetchEach(d)
  BY ExtendsOneFetch DEF ClientOK
<1> QED
  BY <1>1, <1>2, <1>3 DEF ClientOK, Data

LEMMA FetchAllOK ==
    ASSUME NEW c, NEW gone, ClientOK(c, gone), NEW keys \in SUBSET QueryKeys
    PROVE  /\ ClientOK(FetchAll(c, keys, None), gone)
           /\ Extends(c, FetchAll(c, keys, None), QueryKeys, None)
<1>1. IsClient(c, QueryKeys, Values, Requests, Answers)
  BY DEF ClientOK
<1>2. /\ IsClient(FetchAll(c, keys, None), QueryKeys, Values, Requests, Answers)
      /\ Extends(c, FetchAll(c, keys, None), QueryKeys, None)
  BY <1>1, GetIsRequest, FetchAllExtends
<1> QED
  BY <1>2, ExtendsOK

(* What is left of a tab.                                                  *)
LEMMA NarrowerOK ==
    ASSUME NEW gone, NEW c, NEW d, ClientOK(c, gone),
           IsClient(d, QueryKeys, Values, Requests, Answers),
           d.sent \subseteq c.sent, AnswersOf(d) \subseteq AnswersOf(c),
           \A k \in QueryKeys : Data(d, k) = Data(c, k)
    PROVE  ClientOK(d, gone)
<1>1. CallsOf(d) \subseteq CallsOf(c)
  BY DEF CallsOf
<1> QED
  BY <1>1 DEF ClientOK, OneFetchEach

LEMMA CancelAllOK ==
    ASSUME NEW gone, NEW c, ClientOK(c, gone), NEW keys
    PROVE  LET d == CancelAll(c, keys)
           IN ClientOK(d, gone) /\ d.cache = c.cache
<1> DEFINE d == CancelAll(c, keys)
<1>1. IsClient(c, QueryKeys, Values, Requests, Answers)
  BY DEF ClientOK
<1>2. /\ IsClient(d, QueryKeys, Values, Requests, Answers)
      /\ d.cache = c.cache
      /\ d.sent \subseteq c.sent
      /\ AnswersOf(d) \subseteq AnswersOf(c)
  BY <1>1, CancelAllKeeps
<1> HIDE DEF d
<1>3. \A k \in QueryKeys : Data(d, k) = Data(c, k)
  BY <1>2 DEF Data
<1>4. ClientOK(d, gone)
  BY <1>2, <1>3, NarrowerOK
<1> QED
  BY <1>2, <1>4 DEF d

LEMMA InvalidateOnOK ==
    ASSUME NEW gone, NEW c, ClientOK(c, gone), NEW prefix, page \in Routes
    PROVE  ClientOK(InvalidateOn(c, prefix), gone) /\ InvalidateOn(c, prefix).cache = c.cache
<1> DEFINE keys == {k \in Queries(page) : IsPrefix(prefix, k)}
           d == CancelAll(c, {k \in keys : Data(c, k) # None})
<1>1. keys \in SUBSET QueryKeys
  BY Routing
<1>2. ClientOK(d, gone) /\ d.cache = c.cache
  BY CancelAllOK
<1>3. InvalidateOn(c, prefix) = FetchAll(d, keys, None)
  BY DEF InvalidateOn, Invalidate
<1> HIDE DEF d, keys
<1>4. ClientOK(FetchAll(d, keys, None), gone) /\ FetchAll(d, keys, None).cache = d.cache
  BY <1>1, <1>2, FetchAllOK DEF Extends
<1> QED
  BY <1>2, <1>3, <1>4

LEMMA SendOK ==
    ASSUME NEW gone, NEW c, ClientOK(c, gone), NEW call \in Requests, call.method # "GET",
           call.method = "DELETE" => call.path[2] \in gone
    PROVE  ClientOK(Send(c, call), gone) /\ Send(c, call).cache = c.cache
<1> DEFINE d == Send(c, call)
<1>1. IsClient(c, QueryKeys, Values, Requests, Answers)
  BY DEF ClientOK
<1>2. /\ IsClient(d, QueryKeys, Values, Requests, Answers)
      /\ d.cache = c.cache
      /\ d.sent = c.sent \cup {call}
      /\ d.answers = c.answers
  BY <1>1, SendKeeps
<1> HIDE DEF d
<1>3. AnswersOf(d) = AnswersOf(c) /\ CallsOf(d) = CallsOf(c) \cup {call}
  BY <1>2 DEF AnswersOf, CallsOf
<1>4. OneFetchEach(d)
  BY <1>3 DEF ClientOK, OneFetchEach
<1>5. \A k : Data(d, k) = Data(c, k)
  BY <1>2 DEF Data
<1>6. ClientOK(d, gone)
  BY <1>2, <1>3, <1>4, <1>5 DEF ClientOK
<1> QED
  BY <1>2, <1>6 DEF d

(* More tokens are gone.                                                   *)
LEMMA LaterOK ==
    ASSUME NEW gone, NEW more, gone \subseteq more, NEW c, ClientOK(c, gone)
    PROVE  ClientOK(c, more)
<1>1. \A k \in QueryKeys : KeyData(k, gone) \subseteq KeyData(k, more)
  BY KeyDataTyped
<1>2. \A a \in AnswersOf(c) : a.call.method = "GET" => a.call.path \in QueryKeys
  BY CallsTyped, RequestShapes
<1>3. \A a \in AnswersOf(c) : AnswerOK(a, more)
  BY <1>1, <1>2 DEF ClientOK, AnswerOK
<1>4. \A k \in QueryKeys : Data(c, k) \in {None} \cup KeyData(k, more)
  BY <1>1 DEF ClientOK
<1>5. \A call \in c.sent : call.method = "DELETE" => call.path[2] \in more
  BY DEF ClientOK
<1> QED
  BY <1>3, <1>4, <1>5 DEF ClientOK

LEMMA AnsweredOK ==
    ASSUME NEW gone, NEW c, ClientOK(c, gone), NEW call \in c.sent, NEW ok \in BOOLEAN,
           NEW data \in Values, AnswerOK(Answer(call, ok, data), gone)
    PROVE  LET d == Answered(c, Answer(call, ok, data))
           IN ClientOK(d, gone) /\ d.cache = c.cache
<1> DEFINE a == Answer(call, ok, data)
           d == Answered(c, a)
<1>1. IsClient(c, QueryKeys, Values, Requests, Answers) /\ call \in Requests
  BY ClientFields DEF ClientOK
<1>2. a \in Answers /\ a.call = call
  BY <1>1 DEF Answer, Answers
<1>3. AnswerOK(a, gone)
  OBVIOUS
<1> HIDE DEF a
<1>4. /\ IsClient(d, QueryKeys, Values, Requests, Answers)
      /\ d.cache = c.cache
      /\ d.sent = c.sent \ {call}
      /\ AnswersOf(d) = AnswersOf(c) \cup {a}
  BY <1>1, <1>2, AnsweredKeeps
<1> HIDE DEF d
<1>5. CallsOf(d) \subseteq CallsOf(c)
  BY <1>2, <1>4 DEF CallsOf
<1>6. \A k : Data(d, k) = Data(c, k)
  BY <1>4 DEF Data
<1>7. ClientOK(d, gone)
  BY <1>3, <1>4, <1>5, <1>6 DEF ClientOK, OneFetchEach
<1> QED
  BY <1>4, <1>7 DEF d, a

LEMMA SettleOK ==
    ASSUME NEW gone, NEW c, ClientOK(c, gone), NEW a \in Answers, AnswerOK(a, gone),
           a.call.method = "GET"
    PROVE  ClientOK(Settle(c, a), gone)
<1> DEFINE k == a.call.path
<1>1. IsClient(c, QueryKeys, Values, Requests, Answers)
  BY DEF ClientOK
<1>2. a.call \in Requests
  BY DEF Answers
<1>3. k \in QueryKeys
  BY <1>2, RequestShapes
<1>4. CASE a.ok
  <2> DEFINE d == SetQueryData(c, k, a.data)
  <2>1. a.data \in KeyData(k, gone) /\ a.data \in Values
    BY <1>3, <1>4, KeyDataTyped DEF AnswerOK
  <2>2. Settle(c, a) = d
    BY <1>4 DEF Settle
  <2> HIDE DEF k
  <2>3. /\ IsClient(d, QueryKeys, Values, Requests, Answers)
        /\ d.sent = c.sent /\ d.answers = c.answers
        /\ Data(d, k) = a.data
        /\ \A q \in QueryKeys \ {k} : d.cache[q] = c.cache[q]
    BY <1>1, <1>3, <2>1, SetQueryDataKeeps
  <2> HIDE DEF d
  <2>4. AnswersOf(d) = AnswersOf(c) /\ CallsOf(d) = CallsOf(c)
    BY <2>3 DEF AnswersOf, CallsOf
  <2>5. \A q \in QueryKeys : Data(d, q) \in {None} \cup KeyData(q, gone)
    BY <2>1, <2>3 DEF ClientOK, Data
  <2> QED
    BY <2>2, <2>3, <2>4, <2>5 DEF ClientOK, OneFetchEach
<1>5. CASE ~a.ok
  <2> DEFINE d == [c EXCEPT !.cache[k].error = TRUE]
  <2>1. Settle(c, a) = d
    BY <1>5 DEF Settle
  <2> HIDE DEF k
  <2>2. /\ IsClient(d, QueryKeys, Values, Requests, Answers)
        /\ d.sent = c.sent /\ d.answers = c.answers
        /\ \A q \in QueryKeys : Data(d, q) = Data(c, q)
    BY <1>1, <1>3, SetErrorKeeps
  <2> HIDE DEF d
  <2>3. AnswersOf(d) = AnswersOf(c)
    BY <2>2 DEF AnswersOf
  <2> QED
    BY <2>1, <2>2, <2>3, NarrowerOK
<1> QED
  BY <1>4, <1>5

(***************************************************************************)
(* Components                                                              *)
(***************************************************************************)

LEMMA RouteKinds ==
    /\ <<"tokens">> # <<"dashboard">> /\ <<"tokens">> # <<"tokens", "new">>
    /\ <<"tokens">> # <<"snapshots">> /\ <<"dashboard">> # <<"snapshots">>
    /\ <<"dashboard">> # <<"tokens", "new">>
    /\ \A x : /\ <<"edit", x>> # <<"tokens">> /\ <<"edit", x>> # <<"dashboard">>
              /\ <<"operations", x>> # <<"tokens">> /\ <<"operations", x>> # <<"dashboard">>
    /\ <<"tokens">> \in Routes
<1>1. /\ <<"tokens">>[1] = "tokens" /\ <<"dashboard">>[1] = "dashboard"
      /\ <<"snapshots">>[1] = "snapshots" /\ <<"tokens", "new">>[1] = "tokens"
      /\ \A x : <<"edit", x>>[1] = "edit" /\ <<"operations", x>>[1] = "operations"
  OBVIOUS
<1>2. <<"tokens">> \in Routes
  BY DEF Routes, TokenRoutes
<1> QED
  BY <1>1, <1>2

LEMMA FreshOK ==
    ASSUME NEW gone, NEW c, ClientOK(c, gone), NEW p \in Routes
    PROVE  ViewOK(c, p, Fresh(c, p))
<1>1. \A k \in QueryKeys : Data(c, k) \in {None} \cup KeyData(k, gone)
  BY DEF ClientOK
<1>2. CASE p = <<"tokens">>
  <2>1. Fresh(c, p) = [confirm |-> None, revoking |-> None, deleting |-> FALSE]
    BY <1>2, PageKinds, RouteKinds DEF Fresh
  <2>2. Fresh(c, p) \in ListViews /\ Fresh(c, p).revoking = None
    BY <2>1 DEF ListViews
  <2>3. ~IsForm(p) /\ p # <<"dashboard">>
    BY <1>2, PageKinds, RouteKinds
  <2> QED
    BY <1>2, <2>2, <2>3 DEF ViewOK
<1>3. CASE IsForm(p)
  <2> DEFINE grants == IF p[1] = "edit" THEN Data(c, <<"token", p[2]>>) ELSE None
             selected == IF grants = None THEN {} ELSE grants
  <2>1. p = <<"tokens", "new">> \/ \E t \in Tokens : p = <<"edit", t>>
    BY <1>3, Routing, PageKinds
  <2>2. p # <<"tokens">> /\ p # <<"dashboard">>
    BY <1>3, PageKinds
  <2>3. Fresh(c, p) = [selected |-> selected, saving |-> FALSE, issued |-> None]
    BY <1>3, <2>2 DEF Fresh
  <2>4. grants \in {None} \cup SUBSET Operations
    <3>1. CASE p = <<"tokens", "new">>
      BY <3>1
    <3>2. ASSUME NEW t \in Tokens, p = <<"edit", t>>
          PROVE  grants \in {None} \cup SUBSET Operations
      <4>1. grants = Data(c, <<"token", t>>)
        BY <3>2
      <4>2. <<"token", t>> \in QueryKeys /\ KeyData(<<"token", t>>, gone) = SUBSET Operations
        BY KeyKinds, KeyDataIs
      <4> QED
        BY <1>1, <4>1, <4>2
    <3> QED
      BY <2>1, <3>1, <3>2
  <2> HIDE DEF grants
  <2>5. selected \in SUBSET Operations
    BY <2>4
  <2> HIDE DEF selected
  <2> QED
    BY <1>3, <2>2, <2>3, <2>5 DEF ViewOK, FormViews
<1>4. CASE p = <<"dashboard">>
  <2> DEFINE config == Data(c, <<"backendConfig">>)
             target == IF config = None THEN None ELSE config.target
  <2>1. ~IsForm(p) /\ p # <<"tokens">>
    BY <1>4, PageKinds, RouteKinds
  <2>2. Fresh(c, p) = [target |-> target, dialog |-> FALSE, saving |-> FALSE,
                       refreshing |-> {}, notice |-> FALSE]
    BY <1>4, <2>1 DEF Fresh
  <2>3. config \in {None} \cup Configs
    BY <1>1, KeyKinds, KeyDataIs
  <2>4. /\ target \in Targets \cup {None}
        /\ config # None => target \in Targets
    BY <2>3 DEF Configs
  <2> HIDE DEF target
  <2>5. /\ Fresh(c, p) \in ConfigViews
        /\ Fresh(c, p).target = target /\ Fresh(c, p).dialog = FALSE
    BY <2>2, <2>4 DEF ConfigViews
  <2> QED
    BY <1>4, <2>1, <2>4, <2>5 DEF ViewOK
<1>5. CASE ~IsForm(p) /\ p \notin {<<"tokens">>, <<"dashboard">>}
  <2>1. Fresh(c, p) = None
    BY <1>5 DEF Fresh
  <2> QED
    BY <1>5, <2>1 DEF ViewOK
<1> QED
  BY <1>2, <1>3, <1>4, <1>5 DEF ViewOK

(* No component is no component.                                           *)
LEMMA NoneOK ==
    ASSUME NEW c, NEW p, p # <<"tokens">>
    PROVE  ViewOK(c, p, None)
BY DEF ViewOK

LEMMA ListIsMounted ==
    ASSUME NEW c
    PROVE  Component(c, <<"tokens">>) = <<"tokens">> /\ <<"tokens">> # None
<1>1. Component(c, <<"tokens">>) = <<"tokens">>
  BY PageKinds, RouteKinds DEF Component
<1> QED
  BY <1>1, RouteKinds, PagesAssumption

(* A component that is kept is on the same page, and the form of the       *)
(* configuration knows as before whether there is one.                     *)
LEMMA KeptOK ==
    ASSUME NEW c, NEW d, NEW p \in Routes, NEW v, ViewOK(c, p, v),
           Component(d, p) = Component(c, p), Component(d, p) # None
    PROVE  ViewOK(d, p, v)
<1>1. CASE p # <<"dashboard">>
  BY <1>1 DEF ViewOK
<1>2. CASE p = <<"dashboard">>
  <2> DEFINE had == Data(c, <<"backendConfig">>) # None
             has == Data(d, <<"backendConfig">>) # None
  <2>1. ~IsForm(p) /\ p # <<"tokens">>
    BY <1>2, PageKinds, RouteKinds
  <2>2. <<"config", had>> = <<"config", has>>
    BY <1>2, <2>1 DEF Component
  <2>3. had = has
    <3>1. <<"config", had>>[2] = <<"config", has>>[2]
      BY <2>2
    <3> HIDE DEF had, has
    <3> QED
      BY <3>1
  <2> QED
    BY <2>1, <2>3 DEF ViewOK
<1> QED
  BY <1>1, <1>2

LEMMA RenderOK ==
    ASSUME NEW gone, NEW c, ClientOK(c, gone), page \in Routes, NEW p \in Routes, NEW v,
           p = page => ViewOK(client, page, v), Render(c, p, v)
    PROVE  /\ ClientOK(client', gone)
           /\ page' \in Routes
           /\ ViewOK(client', page', view')
<1> DEFINE entered == p # page
           fetched == IF entered THEN FetchAll(c, Queries(p), None) ELSE c
           component == Component(fetched, p)
<1>1. /\ client' = fetched /\ page' = p
      /\ view' = IF component = None THEN None
                 ELSE IF ~entered /\ component = Component(client, page) THEN v
                 ELSE Fresh(fetched, p)
  BY DEF Render
<1>2. ClientOK(fetched, gone)
  <2>1. Queries(p) \in SUBSET QueryKeys
    BY Routing
  <2>2. ClientOK(FetchAll(c, Queries(p), None), gone)
    BY <2>1, FetchAllOK
  <2> QED
    BY <2>2
<1>3. component = None => p # <<"tokens">>
  BY ListIsMounted
<1> HIDE DEF fetched
<1>4. ViewOK(fetched, p, view')
  <2>1. CASE component = None
    BY <1>1, <1>3, <2>1, NoneOK
  <2>2. CASE component # None /\ ~entered /\ component = Component(client, page)
    <3>1. view' = v /\ p = page
      BY <1>1, <2>2
    <3> QED
      BY <2>2, <3>1, KeptOK
  <2>3. CASE component # None /\ ~(~entered /\ component = Component(client, page))
    BY <1>1, <1>2, <2>3, FreshOK
  <2> QED
    BY <2>1, <2>2, <2>3
<1> QED
  BY <1>1, <1>2, <1>4

(***************************************************************************)
(* Steps of the tab                                                        *)
(***************************************************************************)

LEMMA TabStep ==
    ASSUME AdminInv, UNCHANGED <<mode, server, visits>>, ClientOK(client', Gone),
           page' \in Routes, ViewOK(client', page', view')
    PROVE  AdminInv'
<1>1. Gone' = Gone
  BY DEF Gone, IsGone
<1> QED
  BY <1>1 DEF AdminInv, ServerInv, ClientInv, ViewInv

LEMMA RenderStep ==
    ASSUME AdminInv, UNCHANGED <<mode, server, visits>>, NEW c, ClientOK(c, Gone),
           NEW p \in Routes, NEW v, p = page => ViewOK(client, page, v), Render(c, p, v)
    PROVE  AdminInv'
BY RenderOK, TabStep DEF AdminInv, ViewInv

LEMMA GoStep ==
    ASSUME AdminInv, NEW p \in Routes, Go(p)
    PROVE  AdminInv'
BY RenderStep DEF Go, AdminInv, ClientInv, ViewInv

LEMMA VisitStep ==
    ASSUME AdminInv, Visit
    PROVE  AdminInv'
<1>1. PICK p \in visits.pages : Go(p)
  BY DEF Visit
<1>2. visits.pages \subseteq Routes
  BY PagesAssumption DEF AdminInv, ViewInv
<1> QED
  BY <1>1, <1>2, GoStep

LEMMA FocusStep ==
    ASSUME AdminInv, Focus
    PROVE  AdminInv'
<1>1. page \in Routes /\ ViewOK(client, page, view) /\ ClientOK(client, Gone)
  BY DEF AdminInv, ViewInv, ClientInv
<1>2. Queries(page) \in SUBSET QueryKeys
  BY <1>1, Routing
<1>3. ClientOK(FetchAll(client, Queries(page), None), Gone)
  BY <1>1, <1>2, FetchAllOK
<1> QED
  BY <1>1, <1>3, RenderStep DEF Focus

LEMMA EmptyOK ==
    ASSUME NEW gone
    PROVE  ClientOK(EmptyClient(QueryKeys), gone)
<1> DEFINE c == EmptyClient(QueryKeys)
<1>1. /\ IsClient(c, QueryKeys, Values, Requests, Answers)
      /\ c.sent = {} /\ c.answers = <<>>
      /\ \A k \in QueryKeys : Data(c, k) = None
  BY DEF EmptyClient, EmptyEntry, IsClient, Data, Values
<1> HIDE DEF c
<1>2. AnswersOf(c) = {} /\ CallsOf(c) = {}
  BY <1>1 DEF AnswersOf, CallsOf, ToSet
<1>3. ClientOK(c, gone)
  BY <1>1, <1>2 DEF ClientOK, OneFetchEach
<1> QED
  BY <1>3 DEF c

(* A tab that has just been loaded.                                        *)
LEMMA LoadedOK ==
    ASSUME NEW gone, NEW p \in Routes
    PROVE  LET c == FetchAll(EmptyClient(QueryKeys), Queries(p), None)
               v == IF Component(c, p) = None THEN None ELSE Fresh(c, p)
           IN ClientOK(c, gone) /\ ViewOK(c, p, v)
<1> DEFINE c == FetchAll(EmptyClient(QueryKeys), Queries(p), None)
<1>1. Queries(p) \in SUBSET QueryKeys
  BY Routing
<1>2. ClientOK(c, gone)
  BY <1>1, EmptyOK, FetchAllOK
<1> HIDE DEF c
<1>3. Component(c, p) = None => p # <<"tokens">>
  BY ListIsMounted
<1>4. ViewOK(c, p, IF Component(c, p) = None THEN None ELSE Fresh(c, p))
  BY <1>2, <1>3, NoneOK, FreshOK
<1> QED
  BY <1>2, <1>4 DEF c

LEMMA LoadStep ==
    ASSUME AdminInv, Load
    PROVE  AdminInv'
<1> DEFINE c == FetchAll(EmptyClient(QueryKeys), Queries(page), None)
<1>1. /\ client' = c /\ page' = page
      /\ view' = IF Component(client', page) = None THEN None ELSE Fresh(client', page)
      /\ UNCHANGED <<mode, server, visits>>
  BY DEF Load, Event
<1>2. page \in Routes
  BY DEF AdminInv, ViewInv
<1>3. /\ ClientOK(c, Gone)
      /\ ViewOK(c, page, IF Component(c, page) = None THEN None ELSE Fresh(c, page))
  BY <1>2, LoadedOK
<1> HIDE DEF c
<1> QED
  BY <1>1, <1>2, <1>3, TabStep

LEMMA SetViewStep ==
    ASSUME AdminInv, NEW v, SetView(v), ViewOK(client, page, v)
    PROVE  AdminInv'
<1>1. /\ client' = client /\ page' = page /\ view' = v
      /\ UNCHANGED <<mode, server, visits>>
  BY DEF SetView
<1> QED
  BY <1>1, TabStep DEF AdminInv, ClientInv, ViewInv

LEMMA SubmitStep ==
    ASSUME AdminInv, NEW method, NEW path, NEW body, NEW v, Submit(method, path, body, v),
           Call(method, path, None, body) \in Requests, method # "GET",
           method = "DELETE" => path[2] \in Gone, ViewOK(client, page, v)
    PROVE  AdminInv'
<1> DEFINE call == Call(method, path, None, body)
<1>1. /\ client' = Send(client, call) /\ page' = page /\ view' = v
      /\ UNCHANGED <<mode, server, visits>>
  BY DEF Submit, Event
<1>2. call.method = method /\ call.path = path
  BY DEF Call
<1>3. ClientOK(client, Gone) /\ page \in Routes
  BY DEF AdminInv, ClientInv, ViewInv
<1> HIDE DEF call
<1>4. ClientOK(client', Gone) /\ client'.cache = client.cache
  BY <1>1, <1>2, <1>3, SendOK DEF call
<1>5. ViewOK(client', page', view')
  BY <1>1, <1>4 DEF ViewOK, Data
<1> QED
  BY <1>1, <1>3, <1>4, <1>5, TabStep

(***************************************************************************)
(* The visitor on the pages of tokens                                      *)
(***************************************************************************)

LEMMA ListStep ==
    ASSUME AdminInv,
           \/ \E t \in Tokens : AskRevoke(t) \/ HandleDelete(t)
           \/ CancelRevoke
           \/ ConfirmRevoke
    PROVE  AdminInv'
<1>1. page = <<"tokens">>
  BY DEF AskRevoke, HandleDelete, CancelRevoke, ConfirmRevoke, Row, OnTokens
<1>2. /\ view \in ListViews /\ view.revoking \in {None, view.confirm}
      /\ ClientOK(client, Gone)
  BY <1>1 DEF AdminInv, ViewInv, ViewOK, ClientInv
<1>3. \A v : v \in ListViews /\ v.revoking \in {None, v.confirm} => ViewOK(client, page, v)
  BY <1>1, PageKinds, RouteKinds DEF ViewOK
<1>4. ASSUME NEW t \in Tokens, AskRevoke(t)
      PROVE  AdminInv'
  <2> DEFINE v == [view EXCEPT !.confirm = t]
  <2>1. v \in ListViews /\ v.confirm = t /\ v.revoking = view.revoking
    BY <1>2 DEF ListViews
  <2>2. SetView(v) /\ view.confirm = None
    BY <1>4 DEF AskRevoke
  <2> HIDE DEF v
  <2> QED
    BY <1>2, <1>3, <2>1, <2>2, SetViewStep
<1>5. ASSUME NEW t \in Tokens, HandleDelete(t)
      PROVE  AdminInv'
  <2> DEFINE v == [view EXCEPT !.deleting = TRUE]
             list == Data(client, <<"tokens">>)
  <2>1. v \in ListViews /\ v.confirm = view.confirm /\ v.revoking = view.revoking
    BY <1>2 DEF ListViews
  <2>2. /\ Submit("DELETE", <<"token", t>>, None, v)
        /\ list # None /\ t \in DOMAIN list /\ list[t] = "revoked"
    BY <1>5 DEF HandleDelete, Row, Rows
  <2>3. list \in {None} \cup KeyData(<<"tokens">>, Gone)
    BY <1>2, KeyKinds DEF ClientOK
  <2> HIDE DEF list, v
  <2>4. t \in Gone
    BY <2>2, <2>3, KeyDataIs DEF RevokedIn
  <2>5. Call("DELETE", <<"token", t>>, None, None) \in Requests
    <3>1. Call("DELETE", <<"token", t>>, None, None)
            \in [method : {"DELETE"}, path : TokenPaths("token"), as : {None}, body : {None}]
      BY DEF Call, TokenPaths
    <3> QED
      BY <3>1 DEF Requests
  <2>6. <<"token", t>>[2] \in Gone
    BY <2>4
  <2> QED
    BY <1>2, <1>3, <2>1, <2>2, <2>5, <2>6, SubmitStep
<1>6. ASSUME CancelRevoke
      PROVE  AdminInv'
  <2> DEFINE v == [view EXCEPT !.confirm = None]
  <2>1. v \in ListViews /\ v.confirm = None /\ v.revoking = view.revoking
    BY <1>2 DEF ListViews
  <2>2. SetView(v) /\ view.revoking # view.confirm
    BY <1>6 DEF CancelRevoke
  <2> HIDE DEF v
  <2> QED
    BY <1>2, <1>3, <2>1, <2>2, SetViewStep
<1>7. ASSUME ConfirmRevoke
      PROVE  AdminInv'
  <2> DEFINE v == [view EXCEPT !.revoking = view.confirm]
             t == view.confirm
  <2>1. v \in ListViews /\ v.confirm = t /\ v.revoking = t
    BY <1>2 DEF ListViews
  <2>2. Submit("POST", <<"revoke", t>>, None, v) /\ t # None
    BY <1>7 DEF ConfirmRevoke
  <2>3. t \in Tokens
    BY <1>2, <2>2 DEF ListViews
  <2> HIDE DEF v, t
  <2>4. Call("POST", <<"revoke", t>>, None, None) \in Requests
    <3>1. Call("POST", <<"revoke", t>>, None, None)
            \in [method : {"POST"}, path : TokenPaths("revoke"), as : {None}, body : {None}]
      BY <2>3 DEF Call, TokenPaths
    <3> QED
      BY <3>1 DEF Requests
  <2> QED
    BY <1>3, <2>1, <2>2, <2>4, SubmitStep
<1> QED
  BY <1>4, <1>5, <1>6, <1>7

LEMMA ViewsTyped ==
    ASSUME NEW S, NEW v \in Views(S)
    PROVE  v \subseteq S
BY DEF Views, GroupViews, MethodViews, FilteredOperations

LEMMA FormStep ==
    ASSUME AdminInv,
           \/ \E o \in Operations : ToggleOperation(o)
           \/ ToggleBulk
           \/ SubmitForm
    PROVE  AdminInv'
<1>1. Editing
  BY DEF ToggleOperation, ToggleBulk, SubmitForm, Offered
<1>2. /\ IsForm(page) /\ view \in FormViews
      /\ ClientOK(client, Gone) /\ page \in Routes
  BY <1>1 DEF Editing, AdminInv, ViewInv, ViewOK, ClientInv
<1>3. \A v \in FormViews : ViewOK(client, page, v)
  BY <1>2, PageKinds, RouteKinds DEF ViewOK
<1>4. ASSUME NEW selected \in SUBSET Operations
      PROVE  [view EXCEPT !.selected = selected] \in FormViews
  BY <1>2 DEF FormViews
<1>5. Data(client, <<"operations", "all">>) # None => Checkboxes \subseteq Operations
  <2>1. "all" \in Filters
    BY DEF Filters
  <2>2. Data(client, <<"operations", "all">>) \in {None} \cup SUBSET Pairs
    BY <1>2, <2>1, KeyKinds, KeyDataIs DEF ClientOK
  <2> QED
    BY <2>2 DEF Checkboxes, Pairs
<1>6. view.selected \in SUBSET Operations
  BY <1>2 DEF FormViews
<1>7. ASSUME NEW o \in Operations, ToggleOperation(o)
      PROVE  AdminInv'
  <2> DEFINE selected == ToggleEach(view.selected, {o})
  <2>1. selected \in SUBSET Operations
    BY <1>6 DEF ToggleEach
  <2>2. SetView([view EXCEPT !.selected = selected])
    BY <1>7 DEF ToggleOperation
  <2> HIDE DEF selected
  <2> QED
    BY <1>3, <1>4, <2>1, <2>2, SetViewStep
<1>8. ASSUME ToggleBulk
      PROVE  AdminInv'
  <2>1. PICK v \in Views(Checkboxes) :
          SetView([view EXCEPT !.selected =
              ToggleAll(view.selected, v, ~AllSelected(view.selected, v))])
    BY <1>8 DEF ToggleBulk
  <2>2. v \subseteq Operations
    BY <1>5, <1>8, ViewsTyped DEF ToggleBulk, Offered
  <2> DEFINE selected == ToggleAll(view.selected, v, ~AllSelected(view.selected, v))
  <2>3. selected \in SUBSET Operations
    BY <1>6, <2>2 DEF ToggleAll, ToggleEach
  <2>4. SetView([view EXCEPT !.selected = selected])
    BY <2>1
  <2> HIDE DEF selected
  <2> QED
    BY <1>3, <1>4, <2>3, <2>4, SetViewStep
<1>9. ASSUME SubmitForm
      PROVE  AdminInv'
  <2> DEFINE v == [view EXCEPT !.saving = TRUE]
             body == <<view.selected>>
  <2>1. v \in FormViews
    BY <1>2 DEF FormViews
  <2>2. body \in Lists1
    BY <1>6 DEF Lists1
  <2>3. IF page = <<"tokens", "new">>
        THEN Submit("POST", <<"tokens">>, body, v)
        ELSE Submit("PATCH", <<"token", page[2]>>, body, v)
    BY <1>9 DEF SubmitForm, Edited
  <2> HIDE DEF v, body
  <2>4. CASE page = <<"tokens", "new">>
    <3>1. Call("POST", <<"tokens">>, None, body)
            \in [method : {"POST"}, path : {<<"tokens">>}, as : {None}, body : Lists1]
      BY <2>2 DEF Call
    <3>2. Call("POST", <<"tokens">>, None, body) \in Requests
      BY <3>1 DEF Requests
    <3> QED
      BY <1>3, <2>1, <2>3, <2>4, <3>2, SubmitStep
  <2>5. CASE page # <<"tokens", "new">>
    <3>1. PICK t \in Tokens : page = <<"edit", t>>
      BY <1>2, <2>5, Routing, PageKinds
    <3>2. page[2] = t
      BY <3>1
    <3>3. Call("PATCH", <<"token", t>>, None, body)
            \in [method : {"PATCH"}, path : TokenPaths("token"), as : {None}, body : Lists1]
      BY <2>2 DEF Call, TokenPaths
    <3>4. Call("PATCH", <<"token", t>>, None, body) \in Requests
      BY <3>3 DEF Requests
    <3> QED
      BY <1>3, <2>1, <2>3, <2>5, <3>2, <3>4, SubmitStep
  <2> QED
    BY <2>4, <2>5
<1> QED
  BY <1>7, <1>8, <1>9

LEMMA TokenVisitorStep ==
    ASSUME AdminInv, TokenVisitor
    PROVE  AdminInv'
<1>1. <<"tokens">> \in Routes
  BY RouteKinds
<1>2. CASE CancelForm \/ CloseValue
  BY <1>1, <1>2, GoStep DEF CancelForm, CloseValue
<1> QED
  BY <1>2, ListStep, FormStep DEF TokenVisitor

(***************************************************************************)
(* The visitor on the dashboard                                            *)
(***************************************************************************)

LEMMA OnDashboard ==
    ASSUME AdminInv, OnForm
    PROVE  /\ page = <<"dashboard">> /\ view \in ConfigViews
           /\ ConfigData # None \/ view.dialog => view.target \in Targets
           /\ ~IsForm(page) /\ page # <<"tokens">>
<1>1. page = <<"dashboard">> /\ view # None /\ ViewOK(client, page, view)
  BY DEF OnForm, AdminInv, ViewInv
<1>2. /\ view \in ConfigViews
      /\ ConfigData # None \/ view.dialog => view.target \in Targets
  BY <1>1 DEF ViewOK, ConfigData
<1>3. ~IsForm(page) /\ page # <<"tokens">>
  BY <1>1, PageKinds, RouteKinds
<1> QED
  BY <1>1, <1>2, <1>3

LEMMA TargetedOK ==
    ASSUME AdminInv, OnForm, NEW v \in ConfigViews, v.target \in Targets
    PROVE  ViewOK(client, page, v)
BY OnDashboard DEF ViewOK

LEMMA ClosedOK ==
    ASSUME AdminInv, OnForm, NEW v \in ConfigViews, v.target = view.target, ~v.dialog
    PROVE  ViewOK(client, page, v)
BY OnDashboard DEF ViewOK, ConfigData

LEMMA SaveStep ==
    ASSUME AdminInv, OnForm, view.target \in Targets, NEW warned \in BOOLEAN, Save(warned)
    PROVE  AdminInv'
<1> DEFINE free == NothingOpen /\ <<"backendConfig">> \notin unseen
           body == <<view.target, warned, free>>
           v == [view EXCEPT !.saving = TRUE, !.dialog = FALSE]
<1>1. view \in ConfigViews
  BY OnDashboard
<1>2. v \in ConfigViews /\ v.target = view.target
  BY <1>1 DEF ConfigViews
<1>3. Submit("PUT", <<"backendConfig">>, body, v)
  BY DEF Save
<1>4. body \in Targets \X BOOLEAN \X BOOLEAN
  <2>1. free \in BOOLEAN
    OBVIOUS
  <2> HIDE DEF free
  <2> QED
    BY <2>1
<1> HIDE DEF body, v
<1>5. Call("PUT", <<"backendConfig">>, None, body) \in Requests
  <2>1. Call("PUT", <<"backendConfig">>, None, body)
          \in [method : {"PUT"}, path : {<<"backendConfig">>}, as : {None},
               body : Targets \X BOOLEAN \X BOOLEAN]
    BY <1>4 DEF Call
  <2> QED
    BY <2>1 DEF Requests
<1>6. ViewOK(client, page, v)
  BY <1>2, TargetedOK
<1> QED
  BY <1>3, <1>5, <1>6, SubmitStep

LEMMA ConfigVisitorStep ==
    ASSUME AdminInv, ConfigVisitor
    PROVE  AdminInv'
<1>1. ASSUME NEW target \in Targets, TypeTarget(target)
      PROVE  AdminInv'
  <2> DEFINE v == [view EXCEPT !.target = target]
  <2>1. SetView(v) /\ OnForm
    BY <1>1 DEF TypeTarget, FormFree
  <2>2. v \in ConfigViews /\ v.target = target
    BY <2>1, OnDashboard DEF ConfigViews
  <2> HIDE DEF v
  <2> QED
    BY <2>1, <2>2, TargetedOK, SetViewStep
<1>2. CASE AskSwitch
  <2> DEFINE v == [view EXCEPT !.dialog = TRUE]
  <2>1. SetView(v) /\ OnForm /\ ConfigData # None
    BY <1>2 DEF AskSwitch, FormFree, UrlChanged
  <2>2. v \in ConfigViews /\ v.target = view.target /\ view.target \in Targets
    BY <2>1, OnDashboard DEF ConfigViews
  <2> HIDE DEF v
  <2> QED
    BY <2>1, <2>2, TargetedOK, SetViewStep
<1>3. CASE SubmitConfig
  <2>1. OnForm /\ view.target # None /\ Save(FALSE)
    BY <1>3 DEF SubmitConfig, FormFree
  <2>2. view.target \in Targets
    BY <2>1, OnDashboard DEF ConfigViews
  <2> QED
    BY <2>1, <2>2, SaveStep
<1>4. CASE ConfirmSwitch
  BY <1>4, OnDashboard, SaveStep DEF ConfirmSwitch
<1>5. CASE CancelSwitch
  <2> DEFINE v == [view EXCEPT !.dialog = FALSE]
  <2>1. SetView(v) /\ OnForm
    BY <1>5 DEF CancelSwitch
  <2>2. v \in ConfigViews /\ v.target = view.target /\ ~v.dialog
    BY <2>1, OnDashboard DEF ConfigViews
  <2> HIDE DEF v
  <2> QED
    BY <2>1, <2>2, ClosedOK, SetViewStep
<1>6. CASE SubmitRefresh
  <2> DEFINE v == [view EXCEPT !.refreshing = {"button"}]
  <2>1. /\ Submit("POST", <<"refresh", "button">>, None, v)
        /\ OnForm /\ ConfigData # None
    BY <1>6 DEF SubmitRefresh, FormFree
  <2>2. v \in ConfigViews /\ v.target = view.target /\ view.target \in Targets
    BY <2>1, OnDashboard DEF ConfigViews
  <2> HIDE DEF v
  <2>3. Call("POST", <<"refresh", "button">>, None, None) \in Requests
    <3>1. Call("POST", <<"refresh", "button">>, None, None)
            \in [method : {"POST"}, path : RefreshPaths, as : {None}, body : {None}]
      BY DEF Call, RefreshPaths
    <3> QED
      BY <3>1 DEF Requests
  <2>4. ViewOK(client, page, v)
    BY <2>1, <2>2, TargetedOK
  <2> QED
    BY <2>1, <2>3, <2>4, SubmitStep
<1>7. CASE CloseNotice
  <2> DEFINE v == [view EXCEPT !.notice = FALSE]
  <2>1. SetView(v) /\ OnForm
    BY <1>7 DEF CloseNotice
  <2>2. /\ v \in ConfigViews /\ v.target = view.target /\ v.dialog = view.dialog
        /\ view.dialog => view.target \in Targets
    BY <2>1, OnDashboard DEF ConfigViews
  <2> HIDE DEF v
  <2>3. ViewOK(client, page, v)
    BY <2>1, <2>2, TargetedOK, ClosedOK
  <2> QED
    BY <2>1, <2>3, SetViewStep
<1>8. visits.targets \subseteq Targets
  BY PagesAssumption DEF AdminInv, ViewInv
<1> QED
  BY <1>1, <1>2, <1>3, <1>4, <1>5, <1>6, <1>7, <1>8 DEF ConfigVisitor

(***************************************************************************)
(* What a callback leaves of the component's state                         *)
(***************************************************************************)

LEMMA ViewIsOK ==
    ASSUME AdminInv
    PROVE  ViewOK(client, page, view) /\ page \in Routes /\ ClientOK(client, Gone)
BY DEF AdminInv, ViewInv, ClientInv

LEMMA RevokeEndedOK ==
    ASSUME AdminInv, NEW t, NEW confirm,
           OnTokens => confirm \in Tokens \cup {None}
    PROVE  ViewOK(client, page, RevokeEnded(t, confirm))
<1> DEFINE v == [view EXCEPT !.revoking = None, !.confirm = confirm]
<1>1. CASE OnTokens /\ view.revoking = t
  <2>1. page = <<"tokens">> /\ view \in ListViews
    BY <1>1, ViewIsOK DEF OnTokens, ViewOK
  <2>2. v \in ListViews /\ v.revoking = None
    BY <1>1, <2>1 DEF ListViews
  <2>3. RevokeEnded(t, confirm) = v
    BY <1>1 DEF RevokeEnded
  <2>4. ~IsForm(page) /\ page # <<"dashboard">>
    BY <2>1, PageKinds, RouteKinds
  <2> HIDE DEF v
  <2> QED
    BY <2>1, <2>2, <2>3, <2>4 DEF ViewOK
<1>2. CASE ~(OnTokens /\ view.revoking = t)
  <2>1. RevokeEnded(t, confirm) = view
    BY <1>2 DEF RevokeEnded
  <2> QED
    BY <2>1, ViewIsOK
<1> QED
  BY <1>1, <1>2

LEMMA DeleteEndedOK ==
    ASSUME AdminInv
    PROVE  ViewOK(client, page, DeleteEnded)
<1> DEFINE v == [view EXCEPT !.deleting = FALSE]
<1>1. CASE OnTokens /\ view.deleting
  <2>1. /\ page = <<"tokens">> /\ view \in ListViews
        /\ view.revoking \in {None, view.confirm}
    BY <1>1, ViewIsOK DEF OnTokens, ViewOK
  <2>2. v \in ListViews /\ v.revoking = view.revoking /\ v.confirm = view.confirm
    BY <2>1 DEF ListViews
  <2>3. DeleteEnded = v
    BY <1>1 DEF DeleteEnded
  <2>4. ~IsForm(page) /\ page # <<"dashboard">>
    BY <2>1, PageKinds, RouteKinds
  <2> HIDE DEF v
  <2> QED
    BY <2>1, <2>2, <2>3, <2>4 DEF ViewOK
<1>2. CASE ~(OnTokens /\ view.deleting)
  <2>1. DeleteEnded = view
    BY <1>2 DEF DeleteEnded
  <2> QED
    BY <2>1, ViewIsOK
<1> QED
  BY <1>1, <1>2

LEMMA FormEndedOK ==
    ASSUME AdminInv, NEW call, NEW issued \in Tokens \cup {None}
    PROVE  ViewOK(client, page, FormEnded(call, issued))
<1> DEFINE v == [view EXCEPT !.saving = FALSE, !.issued = issued]
<1>1. CASE FormWaits(call)
  <2>1. IsForm(page) /\ view # None
    BY <1>1 DEF FormWaits, IsForm
  <2>2. view \in FormViews
    BY <2>1, ViewIsOK DEF ViewOK
  <2>3. v \in FormViews
    BY <2>2 DEF FormViews
  <2>4. FormEnded(call, issued) = v
    BY <1>1 DEF FormEnded
  <2>5. page # <<"tokens">> /\ page # <<"dashboard">>
    BY <2>1, PageKinds
  <2> HIDE DEF v
  <2> QED
    BY <2>1, <2>3, <2>4, <2>5 DEF ViewOK
<1>2. CASE ~FormWaits(call)
  <2>1. FormEnded(call, issued) = view
    BY <1>2 DEF FormEnded
  <2> QED
    BY <2>1, ViewIsOK
<1> QED
  BY <1>1, <1>2

(* The form of the configuration with other flags.                         *)
LEMMA SameTargetOK ==
    ASSUME AdminInv, OnForm, NEW v \in ConfigViews, v.target = view.target,
           v.dialog = view.dialog
    PROVE  ViewOK(client, page, v)
BY OnDashboard DEF ViewOK, ConfigData

LEMMA SaveEndedOK ==
    ASSUME AdminInv
    PROVE  /\ ViewOK(client, page, SavedView)
           /\ ViewOK(client, page,
                     IF SaveWaits THEN [view EXCEPT !.saving = FALSE] ELSE view)
<1> DEFINE v == [view EXCEPT !.saving = FALSE, !.refreshing = @ \cup {"save"}]
           w == [view EXCEPT !.saving = FALSE]
<1>1. CASE SaveWaits
  <2>1. OnForm
    BY <1>1 DEF SaveWaits
  <2>2. view \in ConfigViews
    BY <2>1, OnDashboard
  <2>3. /\ v \in ConfigViews /\ v.target = view.target /\ v.dialog = view.dialog
        /\ w \in ConfigViews /\ w.target = view.target /\ w.dialog = view.dialog
    BY <2>2 DEF ConfigViews
  <2>4. SavedView = v
    BY <1>1 DEF SavedView
  <2> HIDE DEF v, w
  <2>5. ViewOK(client, page, v) /\ ViewOK(client, page, w)
    BY <2>1, <2>3, SameTargetOK
  <2> QED
    BY <1>1, <2>4, <2>5 DEF w
<1>2. CASE ~SaveWaits
  BY <1>2, ViewIsOK DEF SavedView
<1> QED
  BY <1>1, <1>2

LEMMA RefreshEndedOK ==
    ASSUME AdminInv, NEW kind, NEW notice \in BOOLEAN
    PROVE  ViewOK(client, page, RefreshEnded(kind, notice))
<1> DEFINE shown == view.notice \/ notice
           v == [view EXCEPT !.refreshing = @ \ {kind}, !.notice = shown]
<1>1. CASE OnForm /\ kind \in view.refreshing
  <2>1. view \in ConfigViews
    BY <1>1, OnDashboard
  <2>2. RefreshEnded(kind, notice) = v
    BY <1>1 DEF RefreshEnded
  <2>3. shown \in BOOLEAN
    OBVIOUS
  <2> HIDE DEF shown
  <2>4. v \in ConfigViews /\ v.target = view.target /\ v.dialog = view.dialog
    BY <2>1, <2>3 DEF ConfigViews
  <2> HIDE DEF v
  <2> QED
    BY <1>1, <2>2, <2>4, SameTargetOK
<1>2. CASE ~(OnForm /\ kind \in view.refreshing)
  <2>1. RefreshEnded(kind, notice) = view
    BY <1>2 DEF RefreshEnded
  <2> QED
    BY <2>1, ViewIsOK
<1> QED
  BY <1>1, <1>2

(***************************************************************************)
(* Answers arrive                                                          *)
(***************************************************************************)

LEMMA ArrivedOK ==
    ASSUME AdminInv, NEW i \in Arrivable
    PROVE  /\ ClientOK(WithoutAnswer(i), Gone)
           /\ client.answers[i] \in Answers
           /\ AnswerOK(client.answers[i], Gone)
<1> DEFINE d == WithoutAnswer(i)
<1>1. ClientOK(client, Gone) /\ IsClient(client, QueryKeys, Values, Requests, Answers)
  BY ViewIsOK DEF ClientOK
<1>2. /\ IsClient(d, QueryKeys, Values, Requests, Answers)
      /\ d.cache = client.cache
      /\ d.sent = client.sent
      /\ AnswersOf(d) \subseteq AnswersOf(client)
      /\ client.answers[i] \in AnswersOf(client)
  BY <1>1, WithoutAnswerKeeps
<1> HIDE DEF d
<1>3. \A k \in QueryKeys : Data(d, k) = Data(client, k)
  BY <1>2 DEF Data
<1>4. ClientOK(d, Gone)
  BY <1>1, <1>2, <1>3, NarrowerOK
<1>5. client.answers[i] \in Answers /\ AnswerOK(client.answers[i], Gone)
  BY <1>1, <1>2, CallsTyped DEF ClientOK
<1> QED
  BY <1>4, <1>5 DEF d

LEMMA QueryAnsweredStep ==
    ASSUME AdminInv, UNCHANGED <<mode, server, visits>>, NEW c, ClientOK(c, Gone),
           NEW a \in Answers, AnswerOK(a, Gone), QueryAnswered(a, c)
    PROVE  AdminInv'
<1>1. a.call.method = "GET" /\ Render(Settle(c, a), page, view)
  BY DEF QueryAnswered
<1>2. ClientOK(Settle(c, a), Gone)
  BY <1>1, SettleOK
<1> QED
  BY <1>1, <1>2, ViewIsOK, RenderStep

LEMMA TokenAnsweredStep ==
    ASSUME AdminInv, UNCHANGED <<mode, server, visits>>, NEW c, ClientOK(c, Gone),
           NEW a \in Answers, AnswerOK(a, Gone), TokenAnswered(a, c)
    PROVE  AdminInv'
<1> DEFINE d == InvalidateOn(c, <<"tokens">>)
<1>1. page \in Routes /\ <<"tokens">> \in Routes
  BY ViewIsOK, RouteKinds
<1>2. ClientOK(d, Gone)
  BY <1>1, InvalidateOnOK
<1> HIDE DEF d
<1>3. CASE Revoked(a, c)
  <2>1. Render(d, page, RevokeEnded(a.call.path[2], None))
    BY <1>3 DEF Revoked, d
  <2>2. ViewOK(client, page, RevokeEnded(a.call.path[2], None))
    BY RevokeEndedOK
  <2> QED
    BY <1>1, <1>2, <2>1, <2>2, RenderStep
<1>4. CASE Deleted(a, c)
  BY <1>1, <1>2, <1>4, DeleteEndedOK, RenderStep DEF Deleted, d
<1>5. CASE Created(a, c)
  <2>1. a.data \in Tokens \cup {None}
    BY <1>5 DEF Created, AnswerOK
  <2>2. ViewOK(client, page, FormEnded(a.call, a.data))
    BY <2>1, FormEndedOK
  <2>3. Render(d, page, FormEnded(a.call, a.data))
    BY <1>5 DEF Created, d
  <2> QED
    BY <1>1, <1>2, <2>2, <2>3, RenderStep
<1>6. CASE Updated(a, c)
  <2>1. ViewOK(client, page, FormEnded(a.call, None))
    BY FormEndedOK
  <2>2. Render(d, <<"tokens">>, FormEnded(a.call, None))
    BY <1>6 DEF Updated, d
  <2> QED
    BY <1>1, <1>2, <2>1, <2>2, RenderStep
<1>7. CASE TokenCallFailed(a, c)
  <2> DEFINE t == a.call.path[2]
             confirm == IF OnTokens THEN view.confirm ELSE None
  <2>1. ViewOK(client, page, RevokeEnded(t, confirm))
    <3>1. OnTokens => confirm \in Tokens \cup {None}
      BY ViewIsOK DEF OnTokens, ViewOK, ListViews
    <3> HIDE DEF t, confirm
    <3> QED
      BY <3>1, RevokeEndedOK
  <2>2. ViewOK(client, page, FormEnded(a.call, None))
    BY FormEndedOK
  <2>3. \/ Render(c, page, RevokeEnded(t, confirm))
        \/ Render(c, page, DeleteEnded)
        \/ Render(c, page, FormEnded(a.call, None))
    BY <1>7 DEF TokenCallFailed
  <2> HIDE DEF t, confirm
  <2> QED
    BY <1>1, <2>1, <2>2, <2>3, DeleteEndedOK, RenderStep
<1> QED
  BY <1>3, <1>4, <1>5, <1>6, <1>7 DEF TokenAnswered

LEMMA ConfigAnsweredStep ==
    ASSUME AdminInv, UNCHANGED <<mode, server, visits>>, NEW c, ClientOK(c, Gone),
           NEW a \in Answers, AnswerOK(a, Gone), ConfigAnswered(a, c)
    PROVE  AdminInv'
<1>1. page \in Routes
  BY ViewIsOK
<1>2. CASE Saved(a, c)
  <2> DEFINE d == InvalidateBackend(c)
             call == Call("POST", <<"refresh", "save">>, None, None)
  <2>1. ClientOK(d, Gone)
    BY <1>1, InvalidateOnOK DEF InvalidateBackend
  <2>2. call \in Requests /\ call.method # "GET" /\ call.method # "DELETE"
    <3>1. call \in [method : {"POST"}, path : RefreshPaths, as : {None}, body : {None}]
      BY DEF Call, RefreshPaths
    <3>2. call.method = "POST"
      BY DEF Call
    <3> QED
      BY <3>1, <3>2 DEF Requests
  <2>3. Render(Send(d, call), page, SavedView)
    BY <1>2 DEF Saved, SendRefresh
  <2> HIDE DEF d, call
  <2>4. ClientOK(Send(d, call), Gone)
    BY <2>1, <2>2, SendOK
  <2> QED
    BY <1>1, <2>3, <2>4, SaveEndedOK, RenderStep
<1>3. CASE Refreshed(a, c)
  <2> DEFINE d == InvalidateOn(InvalidateOn(InvalidateOn(c, <<"backendConfig">>),
                                            <<"schemaSnapshots">>), <<"operations">>)
             v == RefreshEnded(a.call.path[2], a.data)
  <2>1. ClientOK(d, Gone)
    BY <1>1, InvalidateOnOK
  <2>2. Render(d, page, v) /\ a.data \in BOOLEAN
    BY <1>3 DEF Refreshed, AnswerOK
  <2>3. ViewOK(client, page, v)
    BY <2>2, RefreshEndedOK
  <2> HIDE DEF d, v
  <2> QED
    BY <1>1, <2>1, <2>2, <2>3, RenderStep
<1>4. CASE ConfigCallFailed(a, c)
  <2> DEFINE v == IF SaveWaits THEN [view EXCEPT !.saving = FALSE] ELSE view
             w == RefreshEnded(a.call.path[2], FALSE)
  <2>1. Render(c, page, v) \/ Render(c, page, w)
    BY <1>4 DEF ConfigCallFailed
  <2>2. ViewOK(client, page, v) /\ ViewOK(client, page, w)
    BY SaveEndedOK, RefreshEndedOK
  <2> HIDE DEF v, w
  <2> QED
    BY <1>1, <2>1, <2>2, RenderStep
<1> QED
  BY <1>2, <1>3, <1>4 DEF ConfigAnswered

LEMMA DeliverStep ==
    ASSUME AdminInv, NEW i \in Arrivable, Deliver(i)
    PROVE  AdminInv'
<1> DEFINE a == client.answers[i]
           c == WithoutAnswer(i)
<1>1. /\ QueryAnswered(a, c) \/ TokenAnswered(a, c) \/ ConfigAnswered(a, c)
      /\ UNCHANGED <<mode, server, visits>>
  BY DEF Deliver
<1>2. ClientOK(c, Gone) /\ a \in Answers /\ AnswerOK(a, Gone)
  BY ArrivedOK
<1> HIDE DEF a, c
<1> QED
  BY <1>1, <1>2, QueryAnsweredStep, TokenAnsweredStep, ConfigAnsweredStep

(***************************************************************************)
(* Steps of the server                                                     *)
(***************************************************************************)

Life == [t \in Tokens |-> server.tokens[t].state]
LifeStep == Lifecycle!Next \/ UNCHANGED Life

LEMMA ServerFields ==
    ASSUME server \in Servers
    PROVE  /\ server.config \in {None} \cup Configs
           /\ server.ops \in [Operations -> Statuses]
           /\ server.tokens \in [Tokens -> TokenRecords]
           /\ server.snapshot \in {None} \cup Specs
           /\ \A t \in Tokens :
                /\ server.tokens[t].state \in {"unused", "live", "revoked", "deleted"}
                /\ server.tokens[t].grants \in SUBSET Operations
           /\ DOMAIN server.tokens = Tokens
<1>1. /\ server.config \in {None} \cup Configs
      /\ server.ops \in [Operations -> Statuses]
      /\ server.tokens \in [Tokens -> TokenRecords]
      /\ server.snapshot \in {None} \cup Specs
  BY DEF Servers
<1>2. \A x \in TokenRecords :
        /\ x.state \in {"unused", "live", "revoked", "deleted"}
        /\ x.grants \in SUBSET Operations
  BY DEF TokenRecords
<1> QED
  BY <1>1, <1>2

(* One token changes.                                                      *)
LEMMA TokenWritten ==
    ASSUME server \in Servers, NEW t \in Tokens, NEW x \in TokenRecords,
           server' = [server EXCEPT !.tokens[t] = x]
    PROVE  /\ server' \in Servers
           /\ Life' = [Life EXCEPT ![t] = x.state]
           /\ \A u \in Tokens \ {t} : server'.tokens[u] = server.tokens[u]
           /\ server'.tokens[t] = x
<1> DEFINE tokens == [server.tokens EXCEPT ![t] = x]
<1>1. server.tokens \in [Tokens -> TokenRecords]
  BY ServerFields
<1>2. server' = [server EXCEPT !.tokens = tokens]
  OBVIOUS
<1>3. tokens \in [Tokens -> TokenRecords]
  BY <1>1
<1>4. tokens[t] = x /\ \A u \in Tokens \ {t} : tokens[u] = server.tokens[u]
  BY <1>1
<1> HIDE DEF tokens
<1>5. server' \in Servers /\ server'.tokens = tokens
  BY <1>2, <1>3 DEF Servers
<1>6. Life' = [Life EXCEPT ![t] = x.state]
  <2> DEFINE States(f) == [u \in Tokens |-> f[u].state]
             after == [u \in Tokens |-> tokens[u].state]
             before == [u \in Tokens |-> server.tokens[u].state]
  <2>1. \A u \in Tokens : after[u] = IF u = t THEN x.state ELSE before[u]
    BY <1>4
  <2>2. Life' = after /\ Life = before
    <3>1. Life' = States(server'.tokens) /\ Life = before
      BY Zenon DEF Life
    <3>2. after = States(tokens)
      OBVIOUS
    <3> HIDE DEF States, after
    <3> QED
      BY <1>5, <3>1, <3>2
  <2>3. DOMAIN after = Tokens /\ DOMAIN before = Tokens
    OBVIOUS
  <2>4. after = [u \in Tokens |-> after[u]]
    OBVIOUS
  <2> HIDE DEF after, before
  <2>5. after = [before EXCEPT ![t] = x.state]
    BY <2>1, <2>3, <2>4
  <2> QED
    BY <2>2, <2>5
<1> QED
  BY <1>4, <1>5, <1>6

(* The tokens' states stay.                                                *)
LEMMA StatesKept ==
    ASSUME \A t \in Tokens : server'.tokens[t].state = server.tokens[t].state
    PROVE  LifeStep /\ Gone' = Gone
BY DEF LifeStep, Life, Gone, IsGone

LEMMA StateAdvanced ==
    ASSUME server \in Servers, NEW t \in Tokens, NEW x \in TokenRecords,
           server' = [server EXCEPT !.tokens[t] = x],
           \/ x.state = server.tokens[t].state
           \/ server.tokens[t].state = "unused" /\ x.state = "live"
           \/ server.tokens[t].state = "live" /\ x.state = "revoked"
           \/ server.tokens[t].state = "revoked" /\ x.state = "deleted"
    PROVE  server' \in Servers /\ LifeStep /\ Gone \subseteq Gone'
<1>1. /\ server' \in Servers
      /\ Life' = [Life EXCEPT ![t] = x.state]
      /\ \A u \in Tokens \ {t} : server'.tokens[u] = server.tokens[u]
      /\ server'.tokens[t] = x
  BY TokenWritten
<1>2. Gone \subseteq Gone'
  BY <1>1 DEF Gone, IsGone
<1>3. Life[t] = server.tokens[t].state
  BY DEF Life
<1>4. CASE x.state = server.tokens[t].state
  <2>1. LifeStep
    <3>1. \A u \in Tokens : server'.tokens[u].state = server.tokens[u].state
      BY <1>1, <1>4
    <3> QED
      BY <3>1, StatesKept
  <2> QED
    BY <1>1, <1>2, <2>1
<1>5. CASE server.tokens[t].state = "unused" /\ x.state = "live"
  <2>1. Lifecycle!Issue(t)
    BY <1>1, <1>3, <1>5 DEF Lifecycle!Issue, Lifecycle!Advance, Life
  <2> QED
    BY <1>1, <1>2, <2>1 DEF LifeStep, Lifecycle!Next
<1>6. CASE server.tokens[t].state = "live" /\ x.state = "revoked"
  <2>1. Lifecycle!Revoke(t)
    BY <1>1, <1>3, <1>6 DEF Lifecycle!Revoke, Lifecycle!Advance, Life
  <2> QED
    BY <1>1, <1>2, <2>1 DEF LifeStep, Lifecycle!Next
<1>7. CASE server.tokens[t].state = "revoked" /\ x.state = "deleted"
  <2>1. Lifecycle!Delete(t)
    BY <1>1, <1>3, <1>7 DEF Lifecycle!Delete, Lifecycle!Advance, Life
  <2> QED
    BY <1>1, <1>2, <2>1 DEF LifeStep, Lifecycle!Next
<1> QED
  BY <1>4, <1>5, <1>6, <1>7

(* A request is executed and answered.                                     *)
LEMMA RespondedStep ==
    ASSUME AdminInv, UNCHANGED <<mode, page, view, visits>>,
           server' \in Servers, Gone \subseteq Gone',
           NEW call \in client.sent, NEW ok \in BOOLEAN, NEW data \in Values,
           client' = Answered(client, Answer(call, ok, data)),
           AnswerOK(Answer(call, ok, data), Gone')
    PROVE  AdminInv'
<1> DEFINE more == Gone'
           d == Answered(client, Answer(call, ok, data))
<1>1. ViewOK(client, page, view) /\ page \in Routes /\ ClientOK(client, Gone)
  BY ViewIsOK
<1>2. Gone \subseteq more /\ AnswerOK(Answer(call, ok, data), more)
  OBVIOUS
<1> HIDE DEF more
<1>3. ClientOK(client, more)
  BY <1>1, <1>2, LaterOK
<1>4. ClientOK(d, more) /\ d.cache = client.cache
  BY <1>2, <1>3, AnsweredOK
<1>5. client' = d
  OBVIOUS
<1> HIDE DEF d
<1>6. ViewOK(client', page', view')
  BY <1>1, <1>4, <1>5 DEF ViewOK, Data
<1>7. ClientOK(client', Gone')
  BY <1>4, <1>5 DEF more
<1> QED
  BY <1>6, <1>7 DEF AdminInv, ServerInv, ClientInv, ViewInv

LEMMA ServerDataOK ==
    ASSUME AdminInv, NEW k \in QueryKeys
    PROVE  ServerData(k) \in {None} \cup KeyData(k, Gone)
<1>1. server \in Servers
  BY DEF AdminInv, ServerInv
<1>2. CASE k = <<"tokens">>
  <2> DEFINE S == {u \in Tokens : Exists(u)}
             list == [t \in S |-> server.tokens[t].state]
  <2>1. ServerData(k) = list
    BY <1>2 DEF ServerData
  <2>2. \A t \in S : server.tokens[t].state \in {"live", "revoked"}
    BY DEF Exists
  <2>3. S \in SUBSET Tokens /\ list \in [S -> {"live", "revoked"}]
    BY <2>2
  <2>4. RevokedIn(list) \subseteq Gone
    BY DEF RevokedIn, Gone, IsGone
  <2> HIDE DEF S, list
  <2>5. list \in Lists
    BY <2>3 DEF Lists
  <2> QED
    BY <1>2, <2>1, <2>4, <2>5, KeyDataIs
<1>3. ASSUME NEW t \in Tokens, k = <<"token", t>>
      PROVE  ServerData(k) \in {None} \cup KeyData(k, Gone)
  <2>1. k[1] = "token" /\ k[2] = t /\ k # <<"tokens">>
    <3>1. <<"token", t>>[1] = "token" /\ <<"tokens">>[1] = "tokens" /\ <<"token", t>>[2] = t
      OBVIOUS
    <3> QED
      BY <1>3, <3>1
  <2>2. ServerData(k) = IF Exists(t) THEN server.tokens[t].grants ELSE None
    BY <2>1 DEF ServerData
  <2> QED
    BY <1>1, <1>3, <2>2, ServerFields, KeyDataIs
<1>4. ASSUME NEW f \in Filters, k = <<"operations", f>>
      PROVE  ServerData(k) \in {None} \cup KeyData(k, Gone)
  <2>1. k[1] = "operations" /\ k # <<"tokens">>
    <3>1. <<"operations", f>>[1] = "operations" /\ <<"tokens">>[1] = "tokens"
      OBVIOUS
    <3> QED
      BY <1>4, <3>1
  <2>2. ServerData(k) \subseteq AllOperations
    BY <2>1 DEF ServerData
  <2>3. AllOperations \subseteq Pairs
    BY <1>1, ServerFields DEF AllOperations, Listed, Pairs, Statuses
  <2> QED
    BY <1>4, <2>2, <2>3, KeyDataIs
<1>5. CASE k = <<"backendConfig">>
  <2>1. k[1] = "backendConfig" /\ k # <<"tokens">>
    <3>1. <<"backendConfig">>[1] = "backendConfig" /\ <<"tokens">>[1] = "tokens"
      OBVIOUS
    <3> QED
      BY <1>5, <3>1
  <2>2. ServerData(k) = server.config
    BY <1>5, <2>1 DEF ServerData
  <2> QED
    BY <1>1, <1>5, <2>2, ServerFields, KeyDataIs
<1>6. CASE k = <<"schemaSnapshots">>
  <2>1. k[1] = "schemaSnapshots" /\ k # <<"tokens">> /\ k # <<"backendConfig">>
    <3>1. /\ <<"schemaSnapshots">>[1] = "schemaSnapshots" /\ <<"tokens">>[1] = "tokens"
          /\ <<"backendConfig">>[1] = "backendConfig"
      OBVIOUS
    <3> QED
      BY <1>6, <3>1
  <2>2. ServerData(k) = server.snapshot
    BY <1>6, <2>1 DEF ServerData
  <2> QED
    BY <1>1, <1>6, <2>2, ServerFields, KeyDataIs
<1> QED
  BY <1>2, <1>3, <1>4, <1>5, <1>6, KeyKinds

LEMMA SameServer ==
    ASSUME AdminInv, UNCHANGED server
    PROVE  server' \in Servers /\ LifeStep /\ Gone' = Gone
BY StatesKept DEF AdminInv, ServerInv

LEMMA AnswerIs ==
    ASSUME NEW call, NEW ok, NEW data
    PROVE  /\ Answer(call, ok, data).call = call
           /\ Answer(call, ok, data).ok = ok
           /\ Answer(call, ok, data).data = data
BY DEF Answer

LEMMA PlainValues == None \in Values /\ Tokens \subseteq Values /\ BOOLEAN \subseteq Values
BY DEF Values

(* The kinds of requests whose answer has a body.                          *)
LEMMA PathKinds ==
    /\ \A x : /\ <<"token", x>>[1] = "token" /\ <<"revoke", x>>[1] = "revoke"
              /\ <<"token", x>>[2] = x
              /\ <<"revoke", x>> # <<"tokens">> /\ <<"token", x>> # <<"tokens">>
    /\ <<"tokens">>[1] = "tokens" /\ <<"backendConfig">>[1] = "backendConfig"
    /\ \A path \in RefreshPaths : path[1] = "refresh" /\ path # <<"tokens">>
<1>1. /\ \A x : /\ <<"token", x>>[1] = "token" /\ <<"revoke", x>>[1] = "revoke"
                /\ <<"token", x>>[2] = x
      /\ <<"tokens">>[1] = "tokens" /\ <<"backendConfig">>[1] = "backendConfig"
      /\ \A path \in RefreshPaths : path[1] = "refresh"
  BY DEF RefreshPaths
<1> QED
  BY <1>1

LEMMA ServeQueryStep ==
    ASSUME AdminInv, UNCHANGED <<page, view, visits>>, NEW call \in client.sent,
           ServeQuery(call)
    PROVE  AdminInv' /\ LifeStep
<1> DEFINE data == ServerData(call.path)
           ok == data # None
           a == Answer(call, ok, data)
<1>1. /\ call.method = "GET" /\ client' = Answered(client, a)
      /\ server' = server /\ mode' = mode
  BY DEF ServeQuery, Respond
<1>2. server' \in Servers /\ LifeStep /\ Gone' = Gone
  BY <1>1, SameServer
<1>3. call.path \in QueryKeys
  BY <1>1, ViewIsOK, CallsTyped, RequestShapes
<1>4. data \in {None} \cup KeyData(call.path, Gone)
  BY <1>3, ServerDataOK
<1>5. data \in Values
  BY <1>3, <1>4, KeyDataTyped, PlainValues
<1>6. ok \in BOOLEAN /\ (ok => data \in KeyData(call.path, Gone))
  BY <1>4
<1> HIDE DEF data, ok
<1>7. AnswerOK(a, Gone')
  <2>1. a.call = call /\ a.ok = ok /\ a.data = data
    BY AnswerIs
  <2>2. call.path[1] # "refresh"
    <3>1. /\ <<"tokens">>[1] = "tokens" /\ <<"backendConfig">>[1] = "backendConfig"
          /\ <<"schemaSnapshots">>[1] = "schemaSnapshots"
          /\ \A x : <<"token", x>>[1] = "token" /\ <<"operations", x>>[1] = "operations"
      OBVIOUS
    <3> QED
      BY <1>3, <3>1, KeyKinds
  <2> HIDE DEF a
  <2> QED
    BY <1>1, <1>2, <1>6, <2>1, <2>2 DEF AnswerOK
<1> QED
  BY <1>1, <1>2, <1>5, <1>6, <1>7, RespondedStep

LEMMA PlainAnswerOK ==
    ASSUME NEW call, call.method # "GET", call.path # <<"tokens">>, call.path[1] # "refresh",
           NEW ok, NEW data, NEW gone
    PROVE  AnswerOK(Answer(call, ok, data), gone)
BY AnswerIs DEF AnswerOK

LEMMA CreatedAnswerOK ==
    ASSUME NEW call, call.method = "POST", call.path = <<"tokens">>,
           NEW t \in Tokens, NEW gone
    PROVE  AnswerOK(Answer(call, TRUE, t), gone)
<1> DEFINE a == Answer(call, TRUE, t)
<1>1. a.call = call /\ a.data = t
  BY DEF Answer
<1>2. call.path[1] # "refresh"
  BY PathKinds
<1> HIDE DEF a
<1>3. AnswerOK(a, gone)
  BY <1>1, <1>2 DEF AnswerOK
<1> QED
  BY <1>3 DEF a

(* A mutation the server may have, and what its execution does.            *)
Executable(call) ==
    /\ call \in Requests
    /\ call.method = "DELETE" => mode = "real" \/ call.path[2] \in Gone

Executed(call, ok, data) ==
    /\ server' \in Servers
    /\ LifeStep
    /\ Gone \subseteq Gone'
    /\ AnswerOK(Answer(call, ok, data), Gone')

LEMMA CreateStep ==
    ASSUME AdminInv, NEW call, Executable(call),
           call.method = "POST", call.path = <<"tokens">>,
           NEW t \in Tokens, CreateToken(t, call.body[1])
    PROVE  Executed(call, TRUE, t)
<1> DEFINE grants == call.body[1]
           x == Token("live", grants)
<1>1. server \in Servers
  BY DEF AdminInv, ServerInv
<1>2. grants \in SUBSET Operations
  <2>1. call \in Requests
    BY DEF Executable
  <2>2. call.body \in Lists1
    BY <2>1, RequestShapes, PathKinds
  <2> QED
    BY <2>2 DEF Lists1
<1>3. server.tokens[t].state = "unused" /\ server' = [server EXCEPT !.tokens[t] = x]
  BY DEF CreateToken
<1> HIDE DEF grants
<1>4. x \in TokenRecords /\ x.state = "live"
  BY <1>2 DEF Token, TokenRecords
<1> HIDE DEF x
<1>5. server' \in Servers /\ LifeStep /\ Gone \subseteq Gone'
  BY <1>1, <1>3, <1>4, StateAdvanced
<1>6. AnswerOK(Answer(call, TRUE, t), Gone')
  BY CreatedAnswerOK
<1> QED
  BY <1>5, <1>6 DEF Executed

(* A call about one token that exists, or not.                             *)
LEMMA TokenCallStep ==
    ASSUME AdminInv, NEW call, Executable(call), NEW t \in Tokens, NEW ok \in BOOLEAN,
           \/ call.method = "PATCH" /\ call.path = <<"token", t>> /\ UpdateToken(t, call.body[1], ok)
           \/ call.method = "POST" /\ call.path = <<"revoke", t>> /\ RevokeToken(t, ok)
           \/ call.method = "DELETE" /\ call.path = <<"token", t>> /\ DeleteToken(t, ok)
    PROVE  Executed(call, ok, None)
<1> DEFINE Change(x) == server' = [server EXCEPT !.tokens[t] = x]
<1>1. server \in Servers /\ server.tokens[t] \in TokenRecords
  BY ServerFields DEF AdminInv, ServerInv
<1>2. /\ call \in Requests
      /\ call.method = "DELETE" => mode = "real" \/ call.path[2] \in Gone
  BY DEF Executable
<1>3. AnswerOK(Answer(call, ok, None), Gone')
  <2>1. call.method # "GET" /\ call.path # <<"tokens">> /\ call.path[1] # "refresh"
    BY PathKinds
  <2> QED
    BY <2>1, PlainAnswerOK
<1>4. server' \in Servers /\ LifeStep /\ Gone \subseteq Gone'
  <2>1. CASE server' = server
    BY <2>1, SameServer
  <2>2. ASSUME server' # server, call.method = "PATCH", UpdateToken(t, call.body[1], ok)
        PROVE  server' \in Servers /\ LifeStep /\ Gone \subseteq Gone'
    <3> DEFINE grants == call.body[1]
               x == [server.tokens[t] EXCEPT !.grants = grants]
    <3>1. grants \in SUBSET Operations
      <4>1. call.body \in Lists1
        BY <1>2, <2>2, RequestShapes
      <4> QED
        BY <4>1 DEF Lists1
    <3>2. server' = [server EXCEPT !.tokens[t].grants = grants]
      BY <2>2 DEF UpdateToken
    <3> HIDE DEF grants
    <3>3. x \in TokenRecords /\ x.state = server.tokens[t].state
      BY <1>1, <3>1 DEF TokenRecords
    <3>4. Change(x)
      BY <3>2
    <3> HIDE DEF x
    <3> QED
      BY <1>1, <3>3, <3>4, StateAdvanced
  <2>3. ASSUME server' # server, RevokeToken(t, ok)
        PROVE  server' \in Servers /\ LifeStep /\ Gone \subseteq Gone'
    <3> DEFINE x == [server.tokens[t] EXCEPT !.state = "revoked"]
    <3>1. /\ server' = [server EXCEPT !.tokens[t].state = "revoked"]
          /\ server.tokens[t].state \in {"live", "revoked"}
      BY <2>3 DEF RevokeToken, Exists
    <3>2. x \in TokenRecords /\ x.state = "revoked"
      BY <1>1 DEF TokenRecords
    <3>3. Change(x)
      BY <3>1
    <3> HIDE DEF x
    <3> QED
      BY <1>1, <3>1, <3>2, <3>3, StateAdvanced
  <2>4. ASSUME server' # server, call.method = "DELETE", call.path = <<"token", t>>,
               DeleteToken(t, ok)
        PROVE  server' \in Servers /\ LifeStep /\ Gone \subseteq Gone'
    <3> DEFINE x == Token("deleted", {})
    <3>1. Change(x) /\ ok
      BY <2>4 DEF DeleteToken
    <3>2. server.tokens[t].state = "revoked"
      <4>1. mode = "real" \/ t \in Gone
        BY <1>2, <2>4, PathKinds
      <4>2. ok = IF mode = "demo" THEN Exists(t) ELSE server.tokens[t].state = "revoked"
        BY <2>4 DEF DeleteToken
      <4> QED
        BY <3>1, <4>1, <4>2 DEF Gone, IsGone, Exists
    <3>3. x \in TokenRecords /\ x.state = "deleted"
      BY DEF Token, TokenRecords
    <3> HIDE DEF x
    <3> QED
      BY <1>1, <3>1, <3>2, <3>3, StateAdvanced
  <2> QED
    BY <2>1, <2>2, <2>3, <2>4
<1> QED
  BY <1>3, <1>4 DEF Executed

LEMMA ExecuteTokensStep ==
    ASSUME AdminInv, NEW call, Executable(call), NEW ok \in BOOLEAN, NEW data,
           ExecuteTokens(call, ok, data)
    PROVE  Executed(call, ok, data)
<1>1. CASE /\ call.method = "POST" /\ call.path = <<"tokens">>
           /\ ok /\ data \in Tokens
           /\ CreateToken(data, call.body[1])
  <2>1. ok = TRUE
    BY <1>1
  <2> QED
    BY <1>1, <2>1, CreateStep
<1>2. ASSUME data = None, NEW t \in Tokens,
             \/ call.method = "PATCH" /\ call.path = <<"token", t>> /\ UpdateToken(t, call.body[1], ok)
             \/ call.method = "POST" /\ call.path = <<"revoke", t>> /\ RevokeToken(t, ok)
             \/ call.method = "DELETE" /\ call.path = <<"token", t>> /\ DeleteToken(t, ok)
      PROVE  Executed(call, ok, data)
  BY <1>2, TokenCallStep
<1> QED
  BY <1>1, <1>2 DEF ExecuteTokens

LEMMA StoredIs ==
    ASSUME NEW target \in Targets
    PROVE  Stored(target) \in Targets
BY ServerAssumption DEF Stored

LEMMA ExecuteUpsertStep ==
    ASSUME AdminInv, NEW call, Executable(call), NEW ok \in BOOLEAN, NEW data,
           ExecuteUpsert(call, ok, data)
    PROVE  Executed(call, ok, data)
<1> DEFINE target == call.body[1]
           wiped == [t \in Tokens |-> Token(server.tokens[t].state, {})]
           absent == [o \in Operations |-> "absent"]
           new == Config(Stored(target), FALSE)
<1>1. call.method = "PUT" /\ UpsertBackendConfig(target)
  BY DEF ExecuteUpsert
<1>2. server \in Servers
  BY DEF AdminInv, ServerInv
<1>3. call \in Requests
  BY DEF Executable
<1>4. call.path = <<"backendConfig">> /\ target \in Targets
  <2>1. /\ call.path = <<"backendConfig">>
        /\ call.body \in Targets \X BOOLEAN \X BOOLEAN
    BY <1>1, <1>3, RequestShapes
  <2> QED
    BY <2>1
<1> HIDE DEF target
<1>5. new \in Configs
  BY <1>4, StoredIs DEF Config, Configs
<1>6. /\ wiped \in [Tokens -> TokenRecords]
      /\ \A t \in Tokens : wiped[t].state = server.tokens[t].state
  <2>1. \A t \in Tokens : /\ Token(server.tokens[t].state, {}) \in TokenRecords
                          /\ Token(server.tokens[t].state, {}).state = server.tokens[t].state
    BY <1>2, ServerFields DEF Token, TokenRecords
  <2> QED
    BY <2>1
<1>7. absent \in [Operations -> Statuses]
  BY DEF Statuses
<1>8. /\ server' \in Servers
      /\ \A t \in Tokens : server'.tokens[t].state = server.tokens[t].state
  <2>1. CASE Switches(target)
    <3>1. server' = [server EXCEPT !.ops = absent, !.tokens = wiped, !.config = new]
      BY <1>1, <2>1 DEF UpsertBackendConfig, Wiped
    <3> HIDE DEF absent, wiped, new
    <3>2. server' \in Servers /\ server'.tokens = wiped
      BY <1>2, <1>5, <1>6, <1>7, <3>1 DEF Servers
    <3> QED
      BY <1>6, <3>2
  <2>2. CASE ~Switches(target)
    <3> DEFINE config == IF server.config = None THEN new ELSE server.config
    <3>1. server' = [server EXCEPT !.config = config]
      BY <1>1, <2>2 DEF UpsertBackendConfig
    <3>2. config \in {None} \cup Configs
      BY <1>2, <1>5, ServerFields
    <3> HIDE DEF config
    <3>3. server' \in Servers /\ server'.tokens = server.tokens
      BY <1>2, <3>1, <3>2 DEF Servers
    <3> QED
      BY <3>3
  <2> QED
    BY <2>1, <2>2
<1>9. LifeStep /\ Gone' = Gone
  BY <1>8, StatesKept
<1>10. AnswerOK(Answer(call, ok, data), Gone')
  <2>1. call.method # "GET" /\ call.path # <<"tokens">> /\ call.path[1] # "refresh"
    BY <1>1, <1>4, PathKinds
  <2> QED
    BY <2>1, PlainAnswerOK
<1> QED
  BY <1>8, <1>9, <1>10 DEF Executed

LEMMA RefreshedAnswerOK ==
    ASSUME NEW call, call.method = "POST", call.path[1] = "refresh",
           NEW ok, NEW changed \in BOOLEAN, NEW gone
    PROVE  AnswerOK(Answer(call, ok, changed), gone)
<1> DEFINE a == Answer(call, ok, changed)
<1>1. a.call = call /\ a.data = changed
  BY DEF Answer
<1>2. call.path # <<"tokens">>
  BY PathKinds
<1> HIDE DEF a
<1>3. AnswerOK(a, gone)
  BY <1>1, <1>2 DEF AnswerOK
<1> QED
  BY <1>3 DEF a

LEMMA RefreshedServer ==
    ASSUME AdminInv, server.config # None, NEW spec \in Specs, RefreshedTo(spec)
    PROVE  server' \in Servers /\ LifeStep /\ Gone' = Gone
<1> DEFINE ops == IF mode = "demo" /\ Listed("absent") # Operations
                  THEN server.ops ELSE Synced(spec)
           config == [server.config EXCEPT !.fetched = TRUE]
<1>1. server' = [server EXCEPT !.config.fetched = TRUE, !.ops = ops, !.snapshot = spec]
  BY DEF RefreshedTo
<1>2. server \in Servers
  BY DEF AdminInv, ServerInv
<1>3. ops \in [Operations -> Statuses]
  BY <1>2, ServerFields DEF Synced, Statuses
<1> HIDE DEF ops
<1>4. config \in Configs
  BY <1>2, ServerFields DEF Configs
<1>5. server' = [server EXCEPT !.config = config, !.ops = ops, !.snapshot = spec]
  BY <1>1
<1> HIDE DEF config
<1>6. server' \in Servers /\ server'.tokens = server.tokens
  BY <1>2, <1>3, <1>4, <1>5 DEF Servers
<1> QED
  BY <1>6, StatesKept

LEMMA ExecuteRefreshStep ==
    ASSUME AdminInv, NEW call, NEW ok \in BOOLEAN, NEW data, ExecuteRefresh(call, ok, data)
    PROVE  Executed(call, ok, data)
<1>1. /\ call.method = "POST" /\ call.path[1] = "refresh"
      /\ data \in BOOLEAN /\ RefreshBackendConfig(ok, data)
  BY DEF ExecuteRefresh
<1>2. server' \in Servers /\ LifeStep /\ Gone' = Gone
  <2>1. CASE server' = server
    BY <2>1, SameServer
  <2> QED
    BY <1>1, <2>1, RefreshedServer DEF RefreshBackendConfig
<1>3. AnswerOK(Answer(call, ok, data), Gone')
  BY <1>1, RefreshedAnswerOK
<1> QED
  BY <1>2, <1>3 DEF Executed

LEMMA ExecuteStep ==
    ASSUME AdminInv, NEW call, Executable(call), NEW ok \in BOOLEAN, NEW data,
           Execute(call, ok, data)
    PROVE  Executed(call, ok, data)
BY ExecuteTokensStep, ExecuteUpsertStep, ExecuteRefreshStep DEF Execute

LEMMA ServeMutationStep ==
    ASSUME AdminInv, UNCHANGED <<page, view, visits>>, NEW call \in client.sent,
           ServeMutation(call)
    PROVE  AdminInv' /\ LifeStep
<1>1. PICK ok \in BOOLEAN, data \in Results : Execute(call, ok, data) /\ Respond(call, ok, data)
  BY DEF ServeMutation
<1>2. Executable(call)
  BY ViewIsOK, CallsTyped DEF ClientOK, Executable
<1>3. Executed(call, ok, data)
  BY <1>1, <1>2, ExecuteStep
<1>4. client' = Answered(client, Answer(call, ok, data)) /\ mode' = mode
  BY <1>1 DEF Respond
<1>5. data \in Values
  BY PlainValues DEF Results
<1> QED
  BY <1>3, <1>4, <1>5, RespondedStep DEF Executed

LEMMA ServeStep ==
    ASSUME AdminInv, NEW call \in client.sent, Serve(call)
    PROVE  AdminInv' /\ LifeStep
BY ServeQueryStep, ServeMutationStep DEF Serve, pageVars

(* The server changes, and the tab does not hear of it.                    *)
LEMMA UntoldStep ==
    ASSUME AdminInv, UNCHANGED <<client, mode, page, view, visits>>,
           server' \in Servers, Gone \subseteq Gone'
    PROVE  AdminInv'
<1> DEFINE more == Gone'
<1>1. ViewOK(client, page, view) /\ page \in Routes /\ ClientOK(client, Gone)
  BY ViewIsOK
<1> HIDE DEF more
<1>2. ClientOK(client, more)
  BY <1>1, LaterOK DEF more
<1>3. ClientOK(client', Gone')
  BY <1>2 DEF more
<1> QED
  BY <1>1, <1>3 DEF AdminInv, ServerInv, ClientInv, ViewInv

LEMMA UnheardStep ==
    ASSUME AdminInv, ReceivedInv, NEW call \in received, Unheard(call)
    PROVE  AdminInv' /\ LifeStep
<1>1. PICK ok \in BOOLEAN, data \in Results : Execute(call, ok, data)
  BY DEF Unheard, ServeReceived
<1>2. Executable(call)
  BY DEF ReceivedInv, Executable
<1>3. Executed(call, ok, data)
  BY <1>1, <1>2, ExecuteStep
<1>4. UNCHANGED <<client, mode, page, view, visits>>
  BY DEF Unheard, ServeReceived, pageVars
<1> QED
  BY <1>3, <1>4, UntoldStep DEF Executed

LEMMA ScheduledSyncStep ==
    ASSUME AdminInv, ScheduledSync
    PROVE  AdminInv' /\ LifeStep
<1>1. PICK spec \in Specs : server.config # None /\ RefreshedTo(spec)
  BY DEF ScheduledSync, RunScheduledSync
<1>2. server' \in Servers /\ LifeStep /\ Gone' = Gone
  BY <1>1, RefreshedServer
<1>3. UNCHANGED <<client, mode, page, view, visits>>
  BY DEF ScheduledSync, Event
<1> QED
  BY <1>2, <1>3, UntoldStep

(***************************************************************************)
(* Failures                                                                *)
(***************************************************************************)

LEMMA FailedAnswerOK ==
    ASSUME NEW call, NEW data, NEW gone
    PROVE  AnswerOK(Answer(call, FALSE, data), gone)
BY DEF AnswerOK, Answer

(* A call fails, and the server is as it was.                              *)
LEMMA FailedCallStep ==
    ASSUME AdminInv, UNCHANGED <<mode, server, page, view, visits>>, NEW call \in client.sent,
           client' = Answered(client, Answer(call, FALSE, None))
    PROVE  AdminInv' /\ LifeStep
<1>1. server' \in Servers /\ LifeStep /\ Gone' = Gone
  BY SameServer
<1>2. AnswerOK(Answer(call, FALSE, None), Gone')
  BY FailedAnswerOK
<1> QED
  BY <1>1, <1>2, PlainValues, RespondedStep

LEMMA LostAnswerStep ==
    ASSUME AdminInv, UNCHANGED <<mode, server, page, view, visits>>,
           NEW i \in DOMAIN client.answers,
           client' = [client EXCEPT !.answers[i].ok = FALSE]
    PROVE  AdminInv' /\ LifeStep
<1> DEFINE a == [client.answers[i] EXCEPT !.ok = FALSE]
           d == [client EXCEPT !.answers[i].ok = FALSE]
<1>1. ClientOK(client, Gone) /\ IsClient(client, QueryKeys, Values, Requests, Answers)
  BY ViewIsOK DEF ClientOK
<1>2. client.answers \in Seq(Answers)
  BY <1>1, ClientFields
<1>3. client.answers[i] \in Answers
  BY <1>2
<1>4. a \in Answers /\ a.ok = FALSE /\ a.call = client.answers[i].call
  BY <1>3 DEF Answers
<1> HIDE DEF a
<1>5. /\ IsClient(d, QueryKeys, Values, Requests, Answers)
      /\ d.cache = client.cache
      /\ d.sent = client.sent
      /\ AnswersOf(d) \subseteq AnswersOf(client) \cup {a}
      /\ client.answers[i] \in AnswersOf(client)
  BY <1>1, <1>4, LostAnswerKeeps DEF a
<1>6. client' = d
  OBVIOUS
<1> HIDE DEF d
<1>7. CallsOf(d) \subseteq CallsOf(client)
  BY <1>4, <1>5 DEF CallsOf
<1>8. \A k : Data(d, k) = Data(client, k)
  BY <1>5 DEF Data
<1>9. AnswerOK(a, Gone)
  BY <1>4 DEF AnswerOK
<1>10. ClientOK(d, Gone)
  BY <1>1, <1>5, <1>7, <1>8, <1>9 DEF ClientOK, OneFetchEach
<1>11. ViewOK(client', page', view') /\ page' \in Routes
  BY <1>6, <1>8, ViewIsOK DEF ViewOK
<1>12. LifeStep
  BY SameServer
<1> QED
  BY <1>6, <1>10, <1>11, <1>12, TabStep

LEMMA FailureStep ==
    ASSUME AdminInv, Failure
    PROVE  AdminInv' /\ LifeStep
<1>1. UNCHANGED <<mode, server, page, view, visits>>
  BY DEF Failure, Event, RefreshFails, Respond
<1>2. \/ \E call \in client.sent : client' = Answered(client, Answer(call, FALSE, None))
      \/ \E i \in DOMAIN client.answers : client' = [client EXCEPT !.answers[i].ok = FALSE]
  BY DEF Failure, NetworkFails, RefreshFails, Respond
<1> QED
  BY <1>1, <1>2, FailedCallStep, LostAnswerStep

(***************************************************************************)
(* The invariant                                                           *)
(***************************************************************************)

LEMMA VisitorStep ==
    ASSUME AdminInv, Visitor
    PROVE  AdminInv' /\ LifeStep /\ UNCHANGED server
<1>1. AdminInv'
  BY VisitStep, TokenVisitorStep, ConfigVisitorStep, FocusStep, LoadStep DEF Visitor
<1>2. UNCHANGED server
  BY DEF Visitor, Visit, Go, Focus, Load, TokenVisitor, AskRevoke, HandleDelete,
         CancelRevoke, ConfirmRevoke, ToggleOperation, ToggleBulk, SubmitForm, CancelForm,
         CloseValue, ConfigVisitor, TypeTarget, AskSwitch, SubmitConfig, ConfirmSwitch,
         CancelSwitch, SubmitRefresh, CloseNotice, Save, Submit, SetView
<1> QED
  BY <1>1, <1>2, SameServer

(* Only a page load gives the server a call that nobody waits for.         *)
LEMMA ReceivedStep ==
    ASSUME AdminInv, ReceivedInv, [Next]_vars
    PROVE  ReceivedInv'
<1>1. mode' = mode
  <2>1. CASE Visitor
    BY <2>1 DEF Visitor, Visit, Go, Focus, Load, TokenVisitor, AskRevoke, HandleDelete,
         CancelRevoke, ConfirmRevoke, ToggleOperation, ToggleBulk, SubmitForm, CancelForm,
         CloseValue, ConfigVisitor, TypeTarget, AskSwitch, SubmitConfig, ConfirmSwitch,
         CancelSwitch, SubmitRefresh, CloseNotice, Save, Submit, SetView
  <2> QED
    BY <2>1 DEF Next, Serve, ServeQuery, ServeMutation, Respond, Deliver, Unheard,
         ServeReceived, ScheduledSync, Failure, RefreshFails, vars
<1>2. \/ received' \subseteq received
      \/ /\ mode = "real"
         /\ \A call \in received' \ received : call \in client.sent /\ call.method # "GET"
  <2>1. CASE Load
    <3>1. PICK kept \in SUBSET {call \in client.sent : call.method # "GET"} :
            /\ mode = "demo" => kept = {}
            /\ received' = received \cup kept
      BY <2>1 DEF Load
    <3>2. mode \in {"real", "demo"}
      BY ServerAssumption DEF AdminInv, ServerInv
    <3> QED
      BY <3>1, <3>2
  <2>2. CASE Visitor /\ ~Load
    BY <2>2 DEF Visitor, Visit, Go, Focus, TokenVisitor, AskRevoke, HandleDelete,
         CancelRevoke, ConfirmRevoke, ToggleOperation, ToggleBulk, SubmitForm, CancelForm,
         CloseValue, ConfigVisitor, TypeTarget, AskSwitch, SubmitConfig, ConfirmSwitch,
         CancelSwitch, SubmitRefresh, CloseNotice, Save, Submit, SetView
  <2> QED
    BY <2>1, <2>2 DEF Next, Serve, ServeQuery, ServeMutation, Respond, Deliver, Unheard,
         ServeReceived, ScheduledSync, Failure, RefreshFails, vars
<1>3. client.sent \subseteq Requests
  BY ViewIsOK, CallsTyped
<1> QED
  BY <1>1, <1>2, <1>3 DEF ReceivedInv

LEMMA NextStep ==
    ASSUME AdminInv, ReceivedInv, [Next]_vars
    PROVE  AdminInv' /\ LifeStep
<1>1. CASE Visitor
  BY <1>1, VisitorStep
<1>2. ASSUME NEW call \in client.sent, Serve(call)
      PROVE  AdminInv' /\ LifeStep
  BY <1>2, ServeStep
<1>3. ASSUME NEW i \in Arrivable, Deliver(i)
      PROVE  AdminInv' /\ LifeStep
  <2>1. UNCHANGED server
    BY <1>3 DEF Deliver
  <2> QED
    BY <1>3, <2>1, DeliverStep, SameServer
<1>4. CASE Failure
  BY <1>4, FailureStep
<1>6. CASE (\E call \in received : Unheard(call)) \/ ScheduledSync
  BY <1>6, UnheardStep, ScheduledSyncStep
<1>5. CASE UNCHANGED vars
  <2>1. UNCHANGED <<client, mode, server, page, view, visits>>
    BY <1>5 DEF vars, pageVars
  <2>2. ClientOK(client', Gone) /\ page' \in Routes /\ ViewOK(client', page', view')
    BY <2>1, ViewIsOK
  <2> QED
    BY <2>1, <2>2, TabStep, SameServer
<1> QED
  BY <1>1, <1>2, <1>3, <1>4, <1>5, <1>6 DEF Next

LEMMA InitServer ==
    ASSUME Init
    PROVE  ServerInv /\ ReceivedInv /\ Lifecycle!Init
<1> DEFINE used(target) == Config(target, TRUE)
           active == [o \in Operations |-> "active"]
           absent == [o \in Operations |-> "absent"]
           issued == [t \in Tokens |->
                IF t \in Issued THEN Token("live", Operations) ELSE Token("unused", {})]
<1>1. /\ mode \in Modes /\ received = {}
      /\ \/ \E target \in Targets :
            server = [config |-> used(target), ops |-> active, tokens |-> issued,
                      snapshot |-> Operations]
         \/ server = [config |-> None, ops |-> absent, tokens |-> NewTokens, snapshot |-> None]
  BY DEF Init, ServerInit
<1>2. (\A target \in Targets : used(target) \in Configs) /\ Operations \in Specs
  BY ServerAssumption DEF Config, Configs
<1>3. active \in [Operations -> Statuses] /\ absent \in [Operations -> Statuses]
  BY DEF Statuses
<1>4. /\ Token("unused", {}) \in TokenRecords /\ Token("live", Operations) \in TokenRecords
      /\ Token("unused", {}).state = "unused" /\ Token("live", Operations).state = "live"
  BY DEF Token, TokenRecords
<1>5. /\ issued \in [Tokens -> TokenRecords]
      /\ \A t \in Tokens : issued[t].state \in {"unused", "live"}
  BY <1>4
<1>6. /\ NewTokens \in [Tokens -> TokenRecords]
      /\ \A t \in Tokens : NewTokens[t].state \in {"unused", "live"}
  BY <1>4 DEF NewTokens
<1> HIDE DEF used, active, absent, issued
<1>7. /\ server \in Servers
      /\ server.tokens = issued \/ server.tokens = NewTokens
  BY <1>1, <1>2, <1>3, <1>5, <1>6 DEF Servers
<1>8. \A t \in Tokens : server.tokens[t].state \in {"unused", "live"}
  BY <1>5, <1>6, <1>7
<1>9. Lifecycle!Init
  BY <1>8 DEF Lifecycle!Init
<1> QED
  BY <1>1, <1>7, <1>9 DEF ServerInv, ReceivedInv

LEMMA InitInv ==
    ASSUME Init
    PROVE  AdminInv /\ ReceivedInv /\ Lifecycle!Init
<1> DEFINE c == FetchAll(EmptyClient(QueryKeys), Queries(page), None)
<1>1. /\ visits \in Visits
      /\ page \in visits.pages
      /\ client = c
      /\ view = IF Component(client, page) = None THEN None ELSE Fresh(client, page)
  BY DEF Init
<1>2. page \in Routes
  BY <1>1, PagesAssumption
<1>3. /\ ClientOK(c, Gone)
      /\ ViewOK(c, page, IF Component(c, page) = None THEN None ELSE Fresh(c, page))
  BY <1>2, LoadedOK
<1> HIDE DEF c
<1> QED
  BY <1>1, <1>2, <1>3, InitServer DEF AdminInv, ClientInv, ViewInv

(* The server, the tab and the mounted component are always as AdminInv    *)
(* says: DashboardPage.tsx, TokensPage.tsx and TokenEditPage.tsx with the  *)
(* query client of main.tsx, against either build's endpoints.             *)
THEOREM AdminInvariant == Spec => [](AdminInv /\ ReceivedInv)
<1>1. Init => AdminInv /\ ReceivedInv
  BY InitInv
<1>2. AdminInv /\ ReceivedInv /\ [Next]_vars => (AdminInv /\ ReceivedInv)'
  BY NextStep, ReceivedStep
<1> QED
  BY <1>1, <1>2, PTL DEF Spec

LEMMA InvImpliesType ==
    ASSUME AdminInv, ReceivedInv
    PROVE  TypeOK
<1>1. server \in Servers /\ mode \in Modes
  BY DEF AdminInv, ServerInv
<1>2. ServerTypeOK
  <2>1. /\ Configs = [target : Targets, fetched : BOOLEAN]
        /\ Statuses = {"absent", "active", "inactive"}
        /\ TokenRecords = [state : {"unused", "live", "revoked", "deleted"},
                           grants : SUBSET Operations]
    BY DEF Configs, Statuses, TokenRecords
  <2> QED
    BY <1>1, <2>1, ServerFields DEF ServerTypeOK, ReceivedInv
<1>3. visits \in Visits /\ page \in Routes /\ ViewOK(client, page, view)
  BY DEF AdminInv, ViewInv
<1>4. \A call \in client.sent : call.method = "GET" => call.path \in QueryKeys
  BY ViewIsOK, CallsTyped, RequestShapes
<1>5. CASE page = <<"tokens">>
  <2>1. view.confirm \in Tokens \cup {None} /\ view.revoking \in {None, view.confirm}
    BY <1>3, <1>5 DEF ViewOK, ListViews
  <2>2. ~IsForm(page) /\ page # <<"dashboard">>
    BY <1>5, PageKinds, RouteKinds
  <2> QED
    BY <1>2, <1>3, <1>4, <1>5, <2>1, <2>2 DEF TypeOK
<1>6. CASE IsForm(page)
  <2>1. page # <<"tokens">> /\ page # <<"dashboard">>
    BY <1>6, PageKinds
  <2>2. view # None =>
          view.selected \subseteq Operations /\ view.issued \in Tokens \cup {None}
    BY <1>3, <1>6 DEF ViewOK, FormViews
  <2> QED
    BY <1>2, <1>3, <1>4, <1>6, <2>1, <2>2 DEF TypeOK
<1>7. CASE page = <<"dashboard">>
  <2>1. page # <<"tokens">> /\ ~IsForm(page)
    BY <1>7, PageKinds, RouteKinds
  <2>2. view # None =>
          view.target \in Targets \cup {None} /\ view.refreshing \subseteq {"button", "save"}
    BY <1>3, <1>7 DEF ViewOK, ConfigViews
  <2> QED
    BY <1>2, <1>3, <1>4, <1>7, <2>1, <2>2 DEF TypeOK
<1>8. CASE ~IsForm(page) /\ page \notin {<<"tokens">>, <<"dashboard">>}
  <2>1. view = None
    BY <1>3, <1>8 DEF ViewOK
  <2> QED
    BY <1>2, <1>3, <1>4, <2>1 DEF TypeOK
<1> QED
  BY <1>5, <1>6, <1>7, <1>8

(* Types, for every value of the constants: the dialog of a revocation     *)
(* that is pending cannot be closed (TokensPage.tsx:184), a form holds     *)
(* operations, and a route that shows no component keeps no state.         *)
THEOREM AdminTypes == Spec => []TypeOK
<1>1. AdminInv /\ ReceivedInv => TypeOK
  BY InvImpliesType
<1> QED
  BY <1>1, AdminInvariant, PTL

(* The admin UI gives each token the life TokenLifecycle allows it, with   *)
(* the real server and with the demo, whose DELETE asks nothing: the       *)
(* button of a revoked row (TokensPage.tsx:150) is the only way to it.     *)
THEOREM LifecycleRefinement == Spec => ImplementsLifecycle
<1>1. Init => Lifecycle!Init
  BY InitInv
<1>2. AdminInv /\ ReceivedInv /\ [Next]_vars => [Lifecycle!Next]_Life
  BY NextStep DEF LifeStep
<1>3. Spec => Lifecycle!Init /\ [][Lifecycle!Next]_Life
  BY <1>1, <1>2, AdminInvariant, PTL DEF Spec
<1>4. Life = [t \in Tokens |-> server.tokens[t].state]
  BY DEF Life
<1> QED
  BY <1>3, <1>4, PTL DEF ImplementsLifecycle, Lifecycle!Spec, Life
===============================================================================
