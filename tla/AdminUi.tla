------------------------------- MODULE AdminUi -------------------------------
(***************************************************************************)
(* The admin UI at work: one tab of it, on the pages of visits, and the    *)
(* server or the demo behind it.                                           *)
(***************************************************************************)
EXTENDS TokenPages, ConfigPages

VARIABLES
    owed,          \* history: a switch was made here, and no refresh since
    regranted      \* history: what was granted since the last switch

vars == <<client, mode, server, received, faults, pageVars, unseen, owed, regranted>>

Grants(t) == server.tokens[t].grants
Nothing == [t \in Tokens |-> {}]

Init ==
    /\ visits \in Visits
    /\ ServerInit
    /\ server.config # None => server.config.target \in visits.targets
    /\ faults = 0
    /\ page \in visits.pages \cap {<<"dashboard">>, <<"tokens">>}
    /\ client = FetchAll(EmptyClient(QueryKeys), Queries(page), None)
    /\ view = IF Component(client, page) = None THEN None ELSE Fresh(client, page)
    /\ spent = 0
    /\ unseen = {}
    /\ owed = FALSE
    /\ regranted = [t \in Tokens |-> Grants(t)]

(* Links of the header, of a row, of a card; the address bar.  The id of a *)
(* token is not guessed before there is one.                               *)
Known(p) == p[1] = "edit" => server.tokens[p[2]].state # "unused"
Visit == \E p \in visits.pages \ {page} : Known(p) /\ Go(p) /\ UNCHANGED owed

Switched == server.config # None /\ server'.config.target # server.config.target

(* What the administrator has asked for: a box ticked, a token created.    *)
Ticked(t) ==
    IF page = <<"edit", t>> /\ page' = page /\ view # None /\ view' # None
    THEN view'.selected \ view.selected ELSE {}
IssuedNow(t) ==
    IF server.tokens[t].state = "unused" THEN server'.tokens[t].grants ELSE {}
Track ==
    regranted' = IF Switched THEN Nothing
                 ELSE [t \in Tokens |-> regranted[t] \cup Ticked(t) \cup IssuedNow(t)]

Visitor ==
    /\ \/ Visit
       \/ page \in TokenRoutes /\ TokenVisitor /\ UNCHANGED owed
       \/ page \in ConfigRoutes /\ ConfigVisitor /\ UNCHANGED owed
       \/ Focus /\ UNCHANGED owed
       \/ Load /\ owed' = FALSE
    /\ UNCHANGED unseen

(* The queries whose answer a step changes; those for which the tab still  *)
(* holds an answer from before a change.                                   *)
Changed == {k \in QueryKeys : ServerData(k)' # ServerData(k)}
Overtaken(c) ==
    {k \in QueryKeys : \E a \in AnswersOf(c) : Fetches(a.call, k) /\ a.data # ServerData(k)}

(* A form is not told of the grants a switch takes from its token.         *)
Untold(call) == IF call.method = "PUT" THEN {k \in Changed : k[1] = "token"} ELSE {}

Serve(call) ==
    /\ Idle
    /\ \/ ServeQuery(call) /\ unseen' = unseen \ {call.path}
       \/ ServeMutation(call) /\ unseen' = unseen \cup Untold(call)
    /\ owed' = CASE call.method = "PUT" -> owed \/ Switches(call.body[1])
                 [] call.path[1] = "refresh" -> FALSE
                 [] OTHER -> owed
    /\ UNCHANGED pageVars

(* What answers a mutation makes the tab fetch again what it changes; an   *)
(* older answer to a fetch that it does not start over comes after it.     *)
Deliver(i) ==
    LET a == client.answers[i]
        c == WithoutAnswer(i)
    IN /\ QueryAnswered(a, c) \/ TokenAnswered(a, c) \/ ConfigAnswered(a, c)
       /\ unseen' = IF a.call.method = "GET" THEN unseen ELSE unseen \cup Overtaken(client')
       /\ UNCHANGED <<mode, server, received, faults, visits, spent, owed>>

(* What the tab does not hear of: the mutations of its earlier loads.      *)
Unheard(call) ==
    /\ ServeReceived(call)
    /\ unseen' = unseen \cup Changed
    /\ UNCHANGED <<pageVars, owed>>

ScheduledSync ==
    /\ Event
    /\ RunScheduledSync
    /\ unseen' = unseen \cup Changed
    /\ UNCHANGED <<client, mode, received, faults, page, view, owed>>

(* The network fails, or the backend that should list its operations.      *)
Failure ==
    /\ mode = "real" /\ Event
    /\ \/ NetworkFails /\ UNCHANGED <<mode, server, received, owed>>
       \/ \E call \in client.sent : RefreshFails(call) /\ owed' = FALSE
    /\ UNCHANGED <<page, view, unseen>>

Next ==
    /\ \/ Visitor
       \/ \E call \in client.sent : Serve(call)
       \/ \E i \in Arrivable : Deliver(i)
       \/ \E call \in received : Unheard(call)
       \/ ScheduledSync
       \/ Failure
    /\ Track

Spec == Init /\ [][Next]_vars

(* As long as one is owed the server executes a refresh it has received.   *)
(* The answer to a save arrives, in the demo any answer, where it is the   *)
(* same task: there is one at a time, so that this is weak fairness of its *)
(* Deliver.  Nothing is assumed of the visitor.                            *)
Fairness ==
    /\ SF_vars(/\ owed
               /\ \E call \in client.sent : call.path[1] = "refresh" /\ Serve(call)
               /\ Track)
    /\ []<>(\A a \in AnswersOf(client) : a.call.method # "PUT")
    /\ []<>(mode = "demo" => client.answers = <<>>)

FairSpec == Spec /\ Fairness

(***************************************************************************)
(* Properties                                                              *)
(***************************************************************************)

(* Types; the dialog of a revocation that is pending cannot be closed      *)
(* (TokensPage.tsx:184).                                                   *)
TypeOK ==
    /\ ServerTypeOK
    /\ visits \in Visits /\ page \in Routes
    /\ \A call \in client.sent : call.method = "GET" => call.path \in QueryKeys
    /\ view # None =>
        CASE page = <<"tokens">> ->
                /\ view.confirm \in Tokens \cup {None}
                /\ view.revoking \in {None, view.confirm}
          [] IsForm(page) ->
                view.selected \subseteq Operations /\ view.issued \in Tokens \cup {None}
          [] page = <<"dashboard">> ->
                view.target \in Targets \cup {None} /\ view.refreshing \subseteq {"button", "save"}

AtRest == faults = 0 /\ CallsOf(client) = {}

(* At rest, a page shows the server's data, but for the changes that the   *)
(* tab was not told of or was told of before an older answer reached it:   *)
(* every mutation invalidates the queries its page shows, and a fetch that *)
(* it overtakes is started over.  The form of a token deleted meanwhile    *)
(* stays.                                                                  *)
SettledPagesAreCurrent ==
    AtRest => \A k \in Queries(page) \ unseen :
        (k[1] = "token" => Exists(k[2])) => Data(client, k) = ServerData(k)

(* A save that was sent without the warning, from a page at rest, and that *)
(* switches the backend nevertheless.                                      *)
SwitchesUnwarned(call) ==
    /\ call.method = "PUT" /\ call \notin client'.sent
    /\ Switched
    /\ faults = 0 /\ call.body[3] /\ ~call.body[2]

(* DashboardPage.tsx:135, as far as it is true: there is none while the    *)
(* stored URLs are spelled as a PUT spells them.                           *)
SettledSaveIsSafe ==
    [][\A call \in client.sent :
        SwitchesUnwarned(call) => Stored(server.config.target) # server.config.target]_vars

(* DashboardPage.tsx:135: the form warns before a switch.                  *)
SwitchIsWarned == [][\A call \in client.sent : ~SwitchesUnwarned(call)]_vars

(* DashboardPage.tsx:123: after a switch made here a refresh reaches the   *)
(* server, also when the visitor has left the page, unless it is reloaded  *)
(* or the network fails.                                                   *)
SwitchIsFollowedByRefresh == []<>(~owed \/ faults > 0)

(* What the UI makes of the endpoints, the demo's unguarded DELETE too, is *)
(* the life TokenLifecycle allows a token.                                 *)
Lifecycle == INSTANCE TokenLifecycle WITH life <- [t \in Tokens |-> server.tokens[t].state]
ImplementsLifecycle == Lifecycle!Spec

(* backend_config.py:46-50: what was granted against the previous backend  *)
(* never applies to a different one, and the administrator re-grants       *)
(* permissions explicitly.                                                 *)
RegrantedExplicitly ==
    \A t \in Tokens : Grants(t) \subseteq regranted[t]
=============================================================================
