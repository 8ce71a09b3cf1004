-------------------------------- MODULE Store --------------------------------
(***************************************************************************)
(* What the handlers of scope-proxy share: the tables of its SQLite        *)
(* database (backend_config, operations, tokens, token_permissions), the   *)
(* environment presets of the running process, the single asyncio event    *)
(* loop and the matcher cached in the process.                             *)
(*                                                                         *)
(* SQLite has one writer.  A handler's first INSERT, UPDATE or DELETE      *)
(* takes the write lock and its COMMIT gives it back, and no handler       *)
(* awaits in between, so a write transaction is one step of the model.     *)
(* A SELECT that comes before the transaction reads what is committed at   *)
(* that moment and is a step of its own.                                   *)
(***************************************************************************)
EXTENDS Naturals

CONSTANTS
    Ops,          \* operation identities: the (method, path, operationId) hashes
    Endpoints,    \* (method, path) pairs
    EndpointOf,   \* the pair an identity was computed from
    SpecsOf,      \* the OpenAPI documents a server may publish: sets of identities
    Tokens,       \* the tokens that may ever be issued
    Servers,      \* upstream servers; an endpoint_url or an openapi_url names one
    None,         \* NULL: no URL, no token, nobody
    MaxRowId      \* bound on the integer primary keys SQLite hands out

ASSUME StoreAssumption ==
    /\ EndpointOf \in [Ops -> Endpoints]
    /\ SpecsOf \in [Servers -> SUBSET (SUBSET Ops)]
    /\ None \notin Ops \cup Endpoints \cup Tokens \cup Servers
    /\ MaxRowId \in Nat \ {0}

(* A document has at most one operation for a method and a path: both are  *)
(* keys of JSON objects.                                                   *)
OnePerEndpoint(S) ==
    \A o, p \in S : EndpointOf[o] = EndpointOf[p] => o = p

ASSUME SpecsAssumption ==
    \A s \in Servers : \A spec \in SpecsOf[s] : OnePerEndpoint(spec)

VARIABLES
    config,       \* the backend_config singleton
    operations,   \* the operations table
    tokens,       \* the tokens table
    permissions,  \* the token_permissions table
    env,          \* ENDPOINT_URL and OPENAPI_URL of the running process
    loop,         \* the coroutine that runs on the event loop, None between two
    matcher       \* the process-wide cached operation matcher

storeVars == <<config, operations, tokens, permissions, env, loop, matcher>>

Urls == Servers \cup {None}
RowIds == 1 .. MaxRowId
Expiries == {"never", "later", "past"}
TokenStates == {"unused", "live", "revoked", "deleted"}

(* config.gen counts the switches to another pair of URLs; a permission    *)
(* carries the count of the moment a request named it.  Both are history.  *)
Config == [endpoint : Urls, openapi : Urls, fetched : BOOLEAN,
           status : {"none", "success", "error"}, gen : Nat]
Permission == [id : RowIds, token : Tokens, op : Ops, gen : Nat]

(* row is the rowid that orders a table scan, 0 when there is no row.      *)
OperationRow ==
    {r \in [row : 0 .. MaxRowId, active : BOOLEAN] : r.active => r.row # 0}
AbsentRow == [row |-> 0, active |-> FALSE]

StoreTypeOK ==
    /\ config \in Config
    /\ operations \in [Ops -> OperationRow]
    /\ tokens \in [Tokens -> [state : TokenStates, expiry : Expiries]]
    /\ permissions \subseteq Permission
    /\ env \in [endpoint : Urls, openapi : Urls]
    /\ matcher \in [key : SUBSET Ops, wins : SUBSET Ops]

(* A request that was answered and one that was not, by a 500 or because   *)
(* the process died under it; its session is closed and what it had loaded *)
(* forgotten.                                                              *)
Ended == {"done", "failed"}

Configured == config.endpoint # None
Rows == {o \in Ops : operations[o].row # 0}
ActiveOps == {o \in Ops : operations[o].active}
RowsOf(t) == {r \in permissions : r.token = t}
GrantedOps(t) == {r.op : r \in RowsOf(t)}
IdsOf(R) == {r.id : r \in R}

(* _get_owned_token also asks whose token it is: with one administrator,   *)
(* whose every token is.                                                   *)
Exists(t) == tokens[t].state \in {"live", "revoked"}

(* SQLite's choice of an integer primary key: one more than the largest in *)
(* the table, so the key of a deleted last row is used again.              *)
IsNextId(n, used) == (\A u \in used : u < n) /\ (n = 1 \/ n - 1 \in used)

(* The keys of a batch of INSERTs: consecutive, in the order of the batch. *)
FreshIds(S, used) ==
    {f \in [S -> RowIds] :
        /\ \A x, y \in S : f[x] = f[y] => x = y
        /\ \A x \in S : /\ \A u \in used : u < f[x]
                        /\ f[x] = 1 \/ f[x] - 1 \in used \cup {f[y] : y \in S}}

(* Mutant: the reset forgets the permissions.                              *)
ResetOperationsOnly ==
    /\ operations' = [o \in Ops |-> AbsentRow]
    /\ UNCHANGED permissions

(* _reset_operations_and_permissions                                       *)
Wiped == [o \in Ops |-> AbsentRow]
ResetOperationsAndPermissions ==
    /\ operations' = Wiped
    /\ permissions' = {}

(* _build_minimal_spec: a path's method maps to the last row written to    *)
(* it, in the order of the table scan, active or not.                      *)
LastRows ==
    {o \in Rows : \A p \in Rows :
        EndpointOf[p] = EndpointOf[o] => operations[p].row <= operations[o].row}

(* get_cached_operation_matcher: rebuilt when the set of rows differs from *)
(* the one the cached matcher was built from.                              *)
NoMatcher == [key |-> {}, wins |-> {}]
FreshMatcher ==
    IF matcher.key = Rows THEN matcher ELSE [key |-> Rows, wins |-> LastRows]

(* The clock passes a token's expires_at.                                  *)
Expire(t) ==
    /\ tokens[t].state = "live"
    /\ tokens[t].expiry = "later"
    /\ tokens' = [tokens EXCEPT ![t].expiry = "past"]
    /\ UNCHANGED <<config, operations, permissions, env, loop, matcher>>

(* A new installation, or one whose admin has saved a server, refreshed    *)
(* its schema and issued tokens, one request after the other.              *)
Unconfigured ==
    [endpoint |-> None, openapi |-> None,
     fetched |-> FALSE, status |-> "none", gen |-> 0]

Saved(s) ==
    [endpoint |-> s, openapi |-> s, fetched |-> TRUE, status |-> "success", gen |-> 0]

NewInstallation ==
    /\ config = Unconfigured
    /\ operations = Wiped
    /\ permissions = {}
    /\ tokens = [t \in Tokens |-> [state |-> "unused", expiry |-> "never"]]

RunningInstallation ==
    \E s \in Servers, issued \in SUBSET Tokens : \E spec \in SpecsOf[s] :
    \E P \in SUBSET (issued \X spec) :
        /\ config = Saved(s)
        /\ operations =
             [o \in Ops |-> IF o \in spec THEN [row |-> 1, active |-> TRUE] ELSE AbsentRow]
        /\ tokens = [t \in Tokens |->
             [state |-> IF t \in issued THEN "live" ELSE "unused", expiry |-> "never"]]
        /\ \E f \in FreshIds(P, {}) :
             permissions = {[id |-> f[p], token |-> p[1], op |-> p[2], gen |-> 0] : p \in P}

StoreInit ==
    /\ NewInstallation \/ RunningInstallation
    /\ env = [endpoint |-> None, openapi |-> None]
    /\ loop = None
    /\ matcher = NoMatcher
=============================================================================
