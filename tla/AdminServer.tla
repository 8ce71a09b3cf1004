----------------------------- MODULE AdminServer -----------------------------
(***************************************************************************)
(* The admin API as a tab sees it: what each endpoint does to the store    *)
(* and answers, in the real build or in the demo's imitation of it         *)
(* (demo/mockApi.ts).  A handler is one step here; TokenApi,               *)
(* BackendConfigApi and SchemaSync have the real ones' commits.  Everyone  *)
(* is signed in: SessionGate has the rest.  A target is the pair of URLs,  *)
(* as they are spelled: a switch of the backend is a change of the stored  *)
(* spelling.                                                               *)
(***************************************************************************)
EXTENDS QueryCache, PermissionTable

CONSTANTS
    Tokens,
    Issued,        \* those a used server, or the demo, starts with
    Targets,       \* spellings of pairs of URLs
    Normalized,    \* the spelling str(HttpUrl) gives each
    SeedTarget,    \* the one the demo starts with
    Specs,         \* sets of operations a schema may list
    Modes          \* the builds of a run: "real", "demo"

ASSUME ServerAssumption ==
    /\ Issued \subseteq Tokens
    /\ SeedTarget \in Targets
    /\ Normalized \in [Targets -> Targets]
    /\ \A target \in Targets : Normalized[Normalized[target]] = Normalized[target]
    /\ Specs \subseteq SUBSET Operations
    /\ Operations \in Specs
    /\ Modes \subseteq {"real", "demo"}

(* A body is not the null that stands for its absence.                     *)
ASSUME NoneAssumption ==
    /\ \A list \in UNION {[S -> {"live", "revoked"}] : S \in SUBSET Tokens} : list # None
    /\ \A ops \in SUBSET Operations : ops # None
    /\ \A pairs \in SUBSET (Operations \X {"active", "inactive"}) : pairs # None
    /\ \A config \in [target : Targets, fetched : BOOLEAN] : config # None

VARIABLES
    mode,
    server,        \* [config, ops, tokens, snapshot]
    received       \* mutations it has of the tab's earlier loads, unexecuted

Config(target, fetched) == [target |-> target, fetched |-> fetched]
Token(state, grants) == [state |-> state, grants |-> grants]

Exists(t) == server.tokens[t].state \in {"live", "revoked"}
Listed(status) == {o \in Operations : server.ops[o] = status}

ServerTypeOK ==
    /\ mode \in Modes
    /\ server.config \in {None} \cup [target : Targets, fetched : BOOLEAN]
    /\ server.ops \in [Operations -> {"absent", "active", "inactive"}]
    /\ server.tokens \in
        [Tokens -> [state : {"unused", "live", "revoked", "deleted"},
                    grants : SUBSET Operations]]
    /\ server.snapshot \in {None} \cup Specs
    /\ \A call \in received : mode = "real" /\ call.method # "GET"

NewTokens == [t \in Tokens |-> Token("unused", {})]

(* A fresh database; one that was used, whose URLs a preset that is gone   *)
(* may have spelled; the demo's seed.                                      *)
ServerInit ==
    /\ mode \in Modes
    /\ received = {}
    /\ LET ops == [o \in Operations |-> "active"]
           tokens == [t \in Tokens |->
                IF t \in Issued THEN Token("live", Operations) ELSE Token("unused", {})]
       IN \/ \E target \in Targets :
               /\ mode = "demo" => target = SeedTarget
               /\ server = [config |-> Config(target, TRUE), ops |-> ops,
                            tokens |-> tokens, snapshot |-> Operations]
          \/ /\ mode = "real"
             /\ server = [config |-> None, ops |-> [o \in Operations |-> "absent"],
                          tokens |-> NewTokens, snapshot |-> None]

(***************************************************************************)
(* Reading                                                                 *)
(***************************************************************************)

AllOperations == {<<o, server.ops[o]>> : o \in Operations \ Listed("absent")}

(* The body of a GET, None for a 404.                                      *)
ServerData(k) ==
    CASE k = <<"tokens">> ->
            [t \in {u \in Tokens : Exists(u)} |-> server.tokens[t].state]
      [] k[1] = "token" -> IF Exists(k[2]) THEN server.tokens[k[2]].grants ELSE None
      [] k[1] = "operations" -> {p \in AllOperations : k[2] \in {"all", p[2]}}
      [] k = <<"backendConfig">> -> server.config
      [] k = <<"schemaSnapshots">> -> server.snapshot

(***************************************************************************)
(* Writing: each handler's next server, and whether it succeeds            *)
(***************************************************************************)

CreateToken(t, grants) ==
    /\ server.tokens[t].state = "unused"
    /\ server' = [server EXCEPT !.tokens[t] = Token("live", grants)]

(* No endpoint asks whether the operations exist.                          *)
UpdateToken(t, grants, ok) ==
    /\ ok = Exists(t)
    /\ server' = IF ok THEN [server EXCEPT !.tokens[t].grants = grants] ELSE server

RevokeToken(t, ok) ==
    /\ ok = Exists(t)
    /\ server' = IF ok THEN [server EXCEPT !.tokens[t].state = "revoked"] ELSE server

(* Only revoked tokens can be deleted; the demo deletes any.               *)
DeleteToken(t, ok) ==
    /\ ok = IF mode = "demo" THEN Exists(t) ELSE server.tokens[t].state = "revoked"
    /\ server' = IF ok THEN [server EXCEPT !.tokens[t] = Token("deleted", {})] ELSE server

(* The demo stores the URLs as they are typed.                             *)
Stored(target) == IF mode = "demo" THEN target ELSE Normalized[target]

Switches(target) == server.config # None /\ server.config.target # Stored(target)

Wiped == [server EXCEPT
    !.ops = [o \in Operations |-> "absent"],
    !.tokens = [t \in Tokens |-> Token(server.tokens[t].state, {})]]

UpsertBackendConfig(target) ==
    server' = IF Switches(target)
              THEN [Wiped EXCEPT !.config = Config(Stored(target), FALSE)]
              ELSE [server EXCEPT !.config =
                        IF server.config = None THEN Config(Stored(target), FALSE) ELSE @]

(* sync_operations with a spec that lists these operations.                *)
Synced(spec) == [o \in Operations |->
    IF o \in spec THEN "active" ELSE IF server.ops[o] = "absent" THEN "absent" ELSE "inactive"]

(* The demo's schema is the seed, when there are no operations.            *)
RefreshedTo(spec) ==
    /\ mode = "demo" => spec = Operations
    /\ LET ops == IF mode = "demo" /\ Listed("absent") # Operations
                  THEN server.ops ELSE Synced(spec)
       IN server' = [server EXCEPT !.config.fetched = TRUE, !.ops = ops, !.snapshot = spec]

RefreshBackendConfig(ok, changed) ==
    \/ /\ server.config = None /\ ~ok /\ ~changed
       /\ UNCHANGED server
    \/ /\ server.config # None /\ ok
       /\ \E spec \in Specs : RefreshedTo(spec)
       /\ changed = (server'.ops # server.ops)

(* The sync the schedule asks for, when it can fetch the schema.           *)
RunScheduledSync ==
    /\ mode = "real" /\ server.config # None
    /\ \E spec \in Specs : RefreshedTo(spec)

ExecuteTokens(call, ok, data) ==
    \/ /\ call.method = "POST" /\ call.path = <<"tokens">>
       /\ ok /\ data \in Tokens
       /\ CreateToken(data, call.body[1])
    \/ /\ data = None
       /\ \E t \in Tokens :
            \/ call.method = "PATCH" /\ call.path = <<"token", t>> /\ UpdateToken(t, call.body[1], ok)
            \/ call.method = "POST" /\ call.path = <<"revoke", t>> /\ RevokeToken(t, ok)
            \/ call.method = "DELETE" /\ call.path = <<"token", t>> /\ DeleteToken(t, ok)

ExecuteUpsert(call, ok, data) ==
    /\ call.method = "PUT"
    /\ ok /\ data = None
    /\ UpsertBackendConfig(call.body[1])

ExecuteRefresh(call, ok, data) ==
    /\ call.method = "POST" /\ call.path[1] = "refresh"
    /\ data \in BOOLEAN
    /\ RefreshBackendConfig(ok, data)

(* A mutation is executed: whether it succeeds, and what its answer says.  *)
Execute(call, ok, data) ==
    \/ ExecuteTokens(call, ok, data)
    \/ ExecuteUpsert(call, ok, data)
    \/ ExecuteRefresh(call, ok, data)

(* A call of the tab is answered.                                          *)
Respond(call, ok, data) ==
    /\ client' = Answered(client, Answer(call, ok, data))
    /\ UNCHANGED <<mode, received>>

ServeQuery(call) ==
    /\ call.method = "GET"
    /\ Respond(call, ServerData(call.path) # None, ServerData(call.path))
    /\ UNCHANGED <<server, faults>>

Results == Tokens \cup BOOLEAN \cup {None}

ServeMutation(call) ==
    /\ \E ok \in BOOLEAN, data \in Results :
        Execute(call, ok, data) /\ Respond(call, ok, data)
    /\ UNCHANGED faults

(* One whose tab is gone: nobody hears the answer.                         *)
ServeReceived(call) ==
    /\ \E ok \in BOOLEAN, data \in Results : Execute(call, ok, data)
    /\ received' = received \ {call}
    /\ UNCHANGED <<client, mode, faults>>

(* The schema cannot be fetched: nothing but the status changes, which is  *)
(* not modelled.                                                           *)
RefreshFails(call) ==
    /\ mode = "real" /\ server.config # None
    /\ call.method = "POST" /\ call.path[1] = "refresh"
    /\ faults < MaxFaults
    /\ faults' = faults + 1
    /\ Respond(call, FALSE, None)
    /\ UNCHANGED server
=============================================================================
