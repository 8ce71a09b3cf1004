------------------------------ MODULE ProxyGate ------------------------------
(***************************************************************************)
(* The proxied request (routers/proxy.py): a coroutine that authenticates  *)
(* the token, resolves the operation, checks the permission and reads the  *)
(* backend, four SELECTs without giving up the event loop but open to the  *)
(* handlers on pool threads; then it awaits the upstream response, and     *)
(* records the outcome.                                                    *)
(***************************************************************************)
EXTENDS Store

CONSTANT
    Calls         \* the proxied requests of a run

VARIABLE
    calls         \* the progress of each request

(* A call is done when the row of request_logs with its outcome is         *)
(* committed.                                                              *)
CallPcs == {"new", "auth", "resolve", "permission", "config", "sent"} \cup Ended

(* endpoint is the request's method and path, token the row its bearer     *)
(* value hashes to, op and active what it was resolved to, gen that of the *)
(* permission found and target where it was sent.  sentGen (config.gen     *)
(* then) and born (the token's state when the request arrived) are         *)
(* history.                                                                *)
Call == [pc : CallPcs, token : Tokens \cup {None}, endpoint : Endpoints \cup {None},
         op : Ops \cup {None}, active : BOOLEAN, gen : Nat, target : Urls,
         sentGen : Nat, born : TokenStates]

CallAt(pc, t, e, born) ==
    [pc |-> pc, token |-> t, endpoint |-> e, op |-> None, active |-> FALSE,
     gen |-> 0, target |-> None, sentGen |-> 0, born |-> born]

IdleCall(pc) == CallAt(pc, None, None, "unused")

ProxyGateTypeOK == calls \in [Calls -> Call]

ProxyGateInit == calls = [c \in Calls |-> IdleCall("new")]

(* A request arrives; without a bearer header its token is None.           *)
Arrive(c, t, e) ==
    /\ calls[c].pc = "new"
    /\ calls' = [calls EXCEPT ![c] =
            CallAt("auth", t, e, IF t = None THEN "unused" ELSE tokens[t].state)]
    /\ UNCHANGED storeVars

EndCall(c, pc) == calls' = [calls EXCEPT ![c] = IdleCall(pc)]

(* except HTTPException: the denial is logged and the coroutine ends.      *)
Deny(c) ==
    /\ EndCall(c, "done")
    /\ loop' = None

(* _authenticate_token                                                     *)
Valid(t) == t # None /\ tokens[t].state = "live" /\ tokens[t].expiry # "past"

Authenticate(c) ==
    /\ calls[c].pc = "auth"
    /\ loop = None
    /\ \/ /\ Valid(calls[c].token)
          /\ calls' = [calls EXCEPT ![c].pc = "resolve"]
          /\ loop' = c
       \/ /\ ~Valid(calls[c].token)
          /\ Deny(c)
    /\ UNCHANGED <<config, operations, tokens, permissions, env, matcher>>

(* _resolve_operation: one SELECT of all rows, the matcher built from them *)
(* or from the cache, the row its answer names.                            *)
Matches(e) == {o \in FreshMatcher.wins : EndpointOf[o] = e}

ResolveOperation(c) ==
    /\ calls[c].pc = "resolve"
    /\ matcher' = FreshMatcher
    /\ \/ /\ Matches(calls[c].endpoint) = {}
          /\ Deny(c)
       \/ /\ \E o \in Matches(calls[c].endpoint) :
               calls' = [calls EXCEPT ![c].pc = "permission", ![c].op = o,
                                      ![c].active = operations[o].active]
          /\ UNCHANGED loop
    /\ UNCHANGED <<config, operations, tokens, permissions, env>>

(* _ensure_permission: the SELECT of the token's rows for the operation.   *)
Permits(c) == {r \in RowsOf(calls[c].token) : r.op = calls[c].op}

EnsurePermission(c) ==
    /\ calls[c].pc = "permission"
    /\ \/ /\ calls[c].active
          /\ \E r \in Permits(c) :
               calls' = [calls EXCEPT ![c].pc = "config", ![c].gen = r.gen]
          /\ UNCHANGED loop
       \/ /\ ~calls[c].active \/ Permits(c) = {}
          /\ Deny(c)
    /\ UNCHANGED <<config, operations, tokens, permissions, env, matcher>>

(* session.get(BackendConfig, 1), then http_client.send up to its await.   *)
SendUpstream(c) ==
    /\ calls[c].pc = "config"
    /\ \/ /\ Configured
          /\ calls' = [calls EXCEPT ![c].pc = "sent", ![c].target = config.endpoint,
                                    ![c].sentGen = config.gen]
          /\ loop' = None
       \/ /\ ~Configured
          /\ Deny(c)
    /\ UNCHANGED <<config, operations, tokens, permissions, env, matcher>>

(* The response's head arrives: last_used_at and the log row, one          *)
(* transaction.  The UPDATE of a token that was deleted meanwhile matches  *)
(* no row and takes the log row with it.                                   *)
UpstreamAnswers(c) ==
    /\ calls[c].pc = "sent"
    /\ loop = None
    /\ IF Exists(calls[c].token) THEN EndCall(c, "done")
                                 ELSE EndCall(c, "failed")
    /\ UNCHANGED storeVars

(* A timeout or a transport error: 504 or 502, logged.                     *)
UpstreamFails(c) ==
    /\ calls[c].pc = "sent"
    /\ loop = None
    /\ EndCall(c, "done")
    /\ UNCHANGED storeVars

(* The client goes away while its body is streamed upstream: no httpx      *)
(* error and no HTTPException, so nothing is logged.                       *)
ClientDisconnects(c) ==
    /\ calls[c].pc = "sent"
    /\ loop = None
    /\ EndCall(c, "failed")
    /\ UNCHANGED storeVars

CallArrives(c) == \E t \in Tokens \cup {None}, e \in Endpoints : Arrive(c, t, e)

CallStep(c) ==
    \/ Authenticate(c)
    \/ ResolveOperation(c)
    \/ EnsurePermission(c)
    \/ SendUpstream(c)
    \/ UpstreamAnswers(c)
    \/ UpstreamFails(c)
    \/ ClientDisconnects(c)

LoseCalls ==
    calls' = [c \in Calls |->
        IF calls[c].pc \in {"auth", "resolve", "permission", "config", "sent"}
        THEN IdleCall("failed") ELSE calls[c]]
=============================================================================
