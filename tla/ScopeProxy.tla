------------------------------ MODULE ScopeProxy ------------------------------
(***************************************************************************)
(* The running server: the admin's requests on pool threads, schema        *)
(* refreshes and proxied requests on the event loop, over one database,    *)
(* and restarts of the process, which lose every request in flight and     *)
(* keep what is committed.                                                 *)
(***************************************************************************)
EXTENDS TokenApi, BackendConfigApi, SchemaSync, ProxyGate, FiniteSets

CONSTANTS
    OneTab,       \* whether the admin waits for each response before the next request
    Presets,      \* the ENDPOINT_URL and OPENAPI_URL a restart may find
    Mixes,        \* bound on a run: how many requests of each kind it may mix
    MaxRestarts   \* bound on the restarts of a run

ASSUME ScopeProxyAssumption ==
    /\ OneTab \in BOOLEAN
    /\ Presets \subseteq [endpoint : Urls, openapi : Urls]
    /\ MaxRestarts \in Nat
    /\ None \notin Jobs \cup Calls

VARIABLE
    restarts      \* how often the process was restarted

handlerVars == <<tokenCalls, puts, jobs, calls>>
vars == <<storeVars, handlerVars, restarts>>

TypeOK ==
    /\ StoreTypeOK
    /\ loop \in Jobs \cup Calls \cup {None}
    /\ TokenApiTypeOK
    /\ BackendConfigTypeOK
    /\ SchemaSyncTypeOK
    /\ ProxyGateTypeOK
    /\ restarts \in 0 .. MaxRestarts

Init ==
    /\ StoreInit
    /\ TokenApiInit
    /\ BackendConfigInit
    /\ SchemaSyncInit
    /\ ProxyGateInit
    /\ restarts = 0

(* The bound.                                                              *)
Arrived(requests) == Cardinality({r \in DOMAIN requests : requests[r].pc # "new"})
WithinMix ==
    \E mix \in Mixes :
        /\ Arrived(tokenCalls) <= mix.tokenCalls
        /\ Arrived(puts) <= mix.puts
        /\ Arrived(jobs) <= mix.jobs
        /\ Arrived(calls) <= mix.calls

(* The dashboard sends its next request when no other is in flight, or     *)
(* (two tabs, a second browser, an API client) whenever it likes.          *)
AdminMaySend ==
    OneTab => /\ \A c \in TokenCalls : tokenCalls[c].pc \in {"new"} \cup Ended
              /\ \A p \in Puts : puts[p].pc # "write"

TokenCallNext(c) ==
    /\ \/ AdminMaySend /\ TokenCallArrives(c)
       \/ TokenCallStep(c)
    /\ UNCHANGED <<puts, jobs, calls, restarts>>
    /\ WithinMix'

PutNext(p) ==
    /\ \/ AdminMaySend /\ PutArrives(p)
       \/ PutStep(p)
    /\ UNCHANGED <<tokenCalls, jobs, calls, restarts>>
    /\ WithinMix'

JobNext(j) ==
    /\ StartRefresh(j) \/ JobStep(j)
    /\ UNCHANGED <<tokenCalls, puts, calls, restarts>>
    /\ WithinMix'

CallNext(c) ==
    /\ CallArrives(c) \/ CallStep(c)
    /\ UNCHANGED <<tokenCalls, puts, jobs, restarts>>
    /\ WithinMix'

Tick == \E t \in Tokens : Expire(t) /\ UNCHANGED <<handlerVars, restarts>>

(* The process stops, by a signal or a crash, and starts again; its        *)
(* lifespan applies the presets before it serves.                          *)
Restart(e) ==
    /\ restarts < MaxRestarts
    /\ restarts' = restarts + 1
    /\ LoseTokenCalls
    /\ LosePuts
    /\ LoseJobs
    /\ LoseCalls
    /\ loop' = None
    /\ matcher' = NoMatcher
    /\ env' = e
    /\ ApplyEnvConfigOverrides(e)
    /\ UNCHANGED tokens

Next ==
    \/ \E c \in TokenCalls : TokenCallNext(c)
    \/ \E p \in Puts : PutNext(p)
    \/ \E j \in Jobs : JobNext(j)
    \/ \E c \in Calls : CallNext(c)
    \/ Tick
    \/ \E e \in Presets : Restart(e)

Spec == Init /\ [][Next]_vars

(* Pool threads are scheduled, the event loop serves every coroutine that  *)
(* is ready, and an await ends, by httpx's timeout at the latest.  Nobody  *)
(* has to send a request, and the server need not be restarted.            *)
Fairness ==
    /\ \A c \in TokenCalls :
          WF_vars(TokenCallStep(c) /\ UNCHANGED <<puts, jobs, calls, restarts>>)
    /\ \A p \in Puts : WF_vars(PutStep(p) /\ UNCHANGED <<tokenCalls, jobs, calls, restarts>>)
    /\ \A j \in Jobs : WF_vars(JobStep(j) /\ UNCHANGED <<tokenCalls, puts, calls, restarts>>)
    /\ \A c \in Calls : WF_vars(CallStep(c) /\ UNCHANGED <<tokenCalls, puts, jobs, restarts>>)

FairSpec == Spec /\ Fairness

-------------------------------------------------------------------------------
(* Properties.                                                             *)

(* The life of a token is the one TokenLifecycle states, although updates, *)
(* revocations and deletions act on rows they read earlier.                *)
Life == INSTANCE TokenLifecycle WITH life <- [t \in Tokens |-> tokens[t].state]
ImplementsLifecycle == Life!Spec

(* A request that arrives after its token was revoked or deleted is never  *)
(* sent upstream, whatever is in flight when it arrives.                   *)
NoForwardAfterRevocation ==
    \A c \in Calls : calls[c].target # None => calls[c].born \notin {"revoked", "deleted"}

(* The active operations all come from one document: a refresh replaces    *)
(* the catalogue, and neither a wipe in its middle nor a crash leaves a    *)
(* mixture of two documents, in which two operations would share a path    *)
(* and method.                                                             *)
CatalogFromOneSpec ==
    \/ ActiveOps = {}
    \/ \E s \in Servers : \E spec \in SpecsOf[s] : ActiveOps \subseteq spec

(* A backend is switched and its operations and permissions are wiped in   *)
(* one step, also when the PUT acts on a row another PUT has changed since *)
(* it was read, or when the switch is the work of a restart.               *)
SwitchWipes ==
    [][Configured /\ PairOf(config') # PairOf(config)
         => operations' = Wiped /\ permissions' = {}]_vars

(* A refresh that ends well leaves exactly its document's operations       *)
(* active, unless the backend was switched since the document arrived.     *)
SyncIsExact ==
    [][\A j \in Jobs :
          /\ jobs[j].pc \in {"flush", "finish"}
          /\ jobs'[j].pc = "done"
          /\ jobs[j].gen = config.gen
          => ActiveOps' = jobs[j].spec]_vars

(* With one request at a time, an update leaves the token with the         *)
(* operations it names and no others.                                      *)
PatchTakesEffect ==
    [][\A c \in TokenCalls :
          /\ tokenCalls[c].pc \in {"apply", "row"}
          /\ tokenCalls'[c].pc = "done"
          /\ tokenCalls[c].regrant
          => tokenCalls[c].ops =
               {r.op : r \in {q \in permissions' : q.token = tokenCalls[c].token}}]_vars

(* With one request at a time, every permission belongs to a token that    *)
(* exists and to the backend that is configured.                           *)
NoOrphanGrants == \A r \in permissions : Exists(r.token)
GrantsOfCurrentBackend == \A r \in permissions : r.gen = config.gen

(* With one request at a time, the permissions are the matrix of           *)
(* PermissionMatrix: no request touches another token's row.               *)
Matrix == INSTANCE PermissionMatrix WITH matrix <- [t \in Tokens |-> GrantedOps(t)]
ImplementsMatrix == Matrix!Spec

(* A permission granted against one backend never sends a request to       *)
(* another (the comment of _reset_operations_and_permissions).             *)
NoForwardAcrossBackends ==
    \A c \in Calls : calls[c].target # None => calls[c].gen = calls[c].sentGen

(* An operation that a refresh adds has no permissions (README).           *)
NewOperationsUngranted ==
    [][\A o \in Ops : o \notin Rows /\ o \in Rows'
          => ~\E r \in permissions' : r.op = o]_vars

(* A request for an active operation resolves to it: the matcher is built  *)
(* from the active operations (_build_minimal_spec).                       *)
ActiveOperationsMatch == ActiveOps \subseteq FreshMatcher.wins

(* Every request and every refresh comes to an end: none waits for ever    *)
(* for the event loop, for a free primary key or for another handler.      *)
RequestsEnd ==
    /\ \A c \in TokenCalls : tokenCalls[c].pc # "new" ~> tokenCalls[c].pc \in Ended
    /\ \A p \in Puts : puts[p].pc # "new" ~> puts[p].pc \in Ended
    /\ \A j \in Jobs : jobs[j].pc # "new" ~> jobs[j].pc \in Ended
    /\ \A c \in Calls : calls[c].pc # "new" ~> calls[c].pc \in Ended
=============================================================================
