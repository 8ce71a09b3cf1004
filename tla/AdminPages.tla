------------------------------ MODULE AdminPages ------------------------------
(***************************************************************************)
(* The pages behind the login as React keeps them: which is mounted, the   *)
(* queries it observes, and the state of the component on it that has any: *)
(* TokensPage, TokenForm or ConfigForm.  A component that goes loses its   *)
(* state; the requests it sent go on, and so do their callbacks.           *)
(***************************************************************************)
EXTENDS AdminServer

CONSTANTS Visits   \* bound on a run: the pages it opens, the URLs it types or finds,
                   \* and how many events it has

VARIABLES
    page,          \* the route, with its parameter or filter
    view,          \* the state of the mounted component, or None
    visits,        \* the one of this behaviour
    spent,         \* mutations, page loads, scheduled syncs and losses so far
    unseen         \* history: queries whose changes the tab was not told of

pageVars == <<page, view, visits, spent>>

Filters == {"all", "active", "inactive"}

(* useQuery of each page.                                                  *)
Queries(p) ==
    CASE p = <<"tokens">> -> {<<"tokens">>}
      [] p = <<"tokens", "new">> -> {<<"operations", "all">>}
      [] p[1] = "edit" -> {<<"operations", "all">>, <<"token", p[2]>>}
      [] p = <<"dashboard">> -> {<<"backendConfig">>, <<"schemaSnapshots">>}
      [] p[1] = "operations" -> {p}
      [] p = <<"snapshots">> -> {<<"schemaSnapshots">>}

TokenRoutes == {<<"tokens">>, <<"tokens", "new">>} \cup {<<"edit", t>> : t \in Tokens}
ConfigRoutes ==
    {<<"dashboard">>, <<"snapshots">>} \cup {<<"operations", f>> : f \in Filters}

Routes == TokenRoutes \cup ConfigRoutes

ASSUME PagesAssumption ==
    /\ Visits \subseteq [pages : SUBSET Routes, targets : SUBSET Targets, events : Nat]
    /\ None \notin Routes

QueryKeys == UNION {Queries(p) : p \in Routes}

IsForm(p) == p = <<"tokens", "new">> \/ p[1] = "edit"

(* The component under the page, None behind its spinner, with its key:    *)
(* it starts over when that changes.                                       *)
Component(c, p) ==
    CASE IsForm(p) -> IF \E k \in Queries(p) : IsLoading(c, k) THEN None ELSE p
      [] p = <<"dashboard">> ->
            IF IsLoading(c, <<"backendConfig">>) THEN None
            ELSE <<"config", Data(c, <<"backendConfig">>) # None>>
      [] OTHER -> p

(* Its useState: a form takes what the cache holds when it is mounted.     *)
Fresh(c, p) ==
    LET config == Data(c, <<"backendConfig">>)
        grants == IF p[1] = "edit" THEN Data(c, <<"token", p[2]>>) ELSE None
    IN CASE p = <<"tokens">> -> [confirm |-> None, revoking |-> None, deleting |-> FALSE]
         [] IsForm(p) ->
                [selected |-> IF grants = None THEN {} ELSE grants,
                 saving |-> FALSE, issued |-> None]
         [] p = <<"dashboard">> ->
                [target |-> IF config = None THEN None ELSE config.target,
                 dialog |-> FALSE, saving |-> FALSE, refreshing |-> {}, notice |-> FALSE]
         [] OTHER -> None

(* What is on the screen after an event that leaves the client c, the      *)
(* route p and the component's state v; a page that is entered fetches.    *)
Render(c, p, v) ==
    LET entered == p # page
        fetched == IF entered THEN FetchAll(c, Queries(p), None) ELSE c
        component == Component(fetched, p)
    IN /\ client' = fetched
       /\ page' = p
       /\ view' = IF component = None THEN None
                  ELSE IF ~entered /\ component = Component(client, page) THEN v
                  ELSE Fresh(fetched, p)

Event ==
    /\ spent < visits.events
    /\ spent' = spent + 1
    /\ UNCHANGED visits

(* In the demo a handler and the callbacks of its answer are one task.     *)
Idle == mode = "demo" => client.answers = <<>>

(* A mutation is sent.  Bound: one call of a kind in flight.               *)
Submit(method, path, body, v) ==
    /\ Idle
    /\ \A call \in Mutating(client) \cup received : call.method # method \/ call.path # path
    /\ Event
    /\ client' = Send(client, Call(method, path, None, body))
    /\ view' = v
    /\ UNCHANGED <<mode, server, received, faults, page>>

(* A control that only changes the component's state.                      *)
SetView(v) ==
    /\ Idle
    /\ view' = v
    /\ UNCHANGED <<client, mode, server, received, faults, page, visits, spent>>

InvalidateOn(c, prefix) == Invalidate(c, prefix, Queries(page), None)

QueryAnswered(a, c) ==
    /\ a.call.method = "GET"
    /\ Render(Settle(c, a), page, view)

Go(p) ==
    /\ Idle
    /\ Render(client, p, view)
    /\ UNCHANGED <<mode, server, received, faults, visits, spent>>

Focus ==
    /\ Idle
    /\ Render(FetchAll(client, Queries(page), None), page, view)
    /\ UNCHANGED <<mode, server, received, faults, visits, spent>>

(* The tab is reloaded.  The server goes on with the mutations that have   *)
(* reached it; in the demo they are the tab's own tasks.                   *)
Load ==
    /\ Idle
    /\ Event
    /\ \E kept \in SUBSET {call \in client.sent : call.method # "GET"} :
        /\ mode = "demo" => kept = {}
        /\ received' = received \cup kept
    /\ client' = FetchAll(EmptyClient(QueryKeys), Queries(page), None)
    /\ view' = IF Component(client', page) = None THEN None ELSE Fresh(client', page)
    /\ UNCHANGED <<mode, server, faults, page>>
=============================================================================
