------------------------------- MODULE TokenApi -------------------------------
(***************************************************************************)
(* The admin's token endpoints (routers/tokens.py): create, update, revoke *)
(* and delete.  They are plain functions that FastAPI runs on threads of   *)
(* its pool, so two of them interleave at every statement they send to the *)
(* database.  A request is used once; the ORM objects it has loaded are    *)
(* what its record remembers between two steps.  It is done when what it   *)
(* asks is refused or committed: the SELECTs of the response change        *)
(* nothing.                                                                *)
(***************************************************************************)
EXTENDS Store

CONSTANTS
    TokenCalls,   \* the requests to /_admin/api/tokens of a run
    OpLists,      \* the sets of operations a payload may name
    Edits         \* what a payload may change in a token's row

(* What a PATCH changes in the token's row: nothing, its name, or          *)
(* expires_at (an expires_at that is already there is no change).          *)
RowEdits == {"keep", "rename"} \cup Expiries

ASSUME TokenApiAssumption ==
    /\ OpLists \subseteq SUBSET Ops
    /\ Edits \subseteq RowEdits

VARIABLE
    tokenCalls    \* the progress of each request

TokenCallPcs ==
    {"new", "created", "select", "apply", "row", "revoke", "purge_select", "purge"}
    \cup Ended

TokenCall ==
    [pc : TokenCallPcs, token : Tokens \cup {None}, ops : SUBSET Ops,
     regrant : BOOLEAN, edit : RowEdits, seen : SUBSET RowIds, gen : Nat]

(* A request that holds nothing: not made yet, or over.                    *)
IdleTokenCall(pc) ==
    [pc |-> pc, token |-> None, ops |-> {}, regrant |-> FALSE, edit |-> "keep",
     seen |-> {}, gen |-> 0]

TokenApiTypeOK == tokenCalls \in [TokenCalls -> TokenCall]

TokenApiInit == tokenCalls = [c \in TokenCalls |-> IdleTokenCall("new")]

(* The steps of one request: Begin records what it asks, Select what it    *)
(* has read, End how it ended.                                             *)
Begin(c, pc, t, S, regrant, edit) ==
    tokenCalls' = [tokenCalls EXCEPT ![c] =
        [pc |-> pc, token |-> t, ops |-> S, regrant |-> regrant, edit |-> edit,
         seen |-> {}, gen |-> config.gen]]

Select(c, pc) ==
    tokenCalls' = [tokenCalls EXCEPT
        ![c].pc = pc, ![c].seen = IdsOf(RowsOf(tokenCalls[c].token))]

End(c, pc) == tokenCalls' = [tokenCalls EXCEPT ![c] = IdleTokenCall(pc)]

(* Mutants of SetPermissions: it only adds; its DELETE forgets the token.  *)
AddPermissions(c, seen) ==
    \E f \in FreshIds(tokenCalls[c].ops, IdsOf(permissions)) :
        permissions' = permissions \cup
            {[id |-> f[o], token |-> tokenCalls[c].token, op |-> o, gen |-> tokenCalls[c].gen] :
             o \in tokenCalls[c].ops}

SetPermissionsOfAll(c, seen) ==
    \E f \in FreshIds(tokenCalls[c].ops, IdsOf(permissions)) :
        permissions' =
            {[id |-> f[o], token |-> tokenCalls[c].token, op |-> o, gen |-> tokenCalls[c].gen] :
             o \in tokenCalls[c].ops}

(* _set_permissions as the unit of work flushes it: the INSERTs first,     *)
(* then a DELETE by primary key of each row that was selected, which takes *)
(* a row just inserted when its key is that of one deleted meanwhile.      *)
SetPermissions(c, seen) ==
    LET t == tokenCalls[c].token
        S == tokenCalls[c].ops
    IN \E f \in FreshIds(S, IdsOf(permissions)) :
         LET inserted == {[id |-> f[o], token |-> t, op |-> o, gen |-> tokenCalls[c].gen] : o \in S}
         IN permissions' = {r \in permissions \cup inserted : r.id \notin seen}

(* create_token, up to its first commit: the row is there, without any     *)
(* permission.                                                             *)
CreateToken(c, t, S, expiry) ==
    /\ tokenCalls[c].pc = "new"
    /\ tokens[t].state = "unused"
    /\ tokens' = [tokens EXCEPT ![t] = [state |-> "live", expiry |-> expiry]]
    /\ Begin(c, "created", t, S, TRUE, "keep")
    /\ UNCHANGED <<config, operations, permissions, env, loop, matcher>>

(* session.refresh(token): an error when the row is gone.                  *)
RefreshCreated(c) ==
    /\ tokenCalls[c].pc = "created"
    /\ \/ /\ Exists(tokenCalls[c].token)
          /\ tokenCalls' = [tokenCalls EXCEPT ![c].pc = "select"]
       \/ /\ ~Exists(tokenCalls[c].token)
          /\ End(c, "failed")
    /\ UNCHANGED storeVars

(* update_token: _get_owned_token and the fields set on the ORM object.    *)
(* When the row is dirty, the SELECT of the permissions flushes it first   *)
(* and so runs inside the write transaction.                               *)
UpdateToken(c, t, S, regrant, edit) ==
    /\ tokenCalls[c].pc = "new"
    /\ \/ /\ Exists(t) /\ edit # "keep"
          /\ Begin(c, "row", t, S, regrant, edit)
       \/ /\ Exists(t) /\ edit = "keep" /\ regrant
          /\ Begin(c, "select", t, S, regrant, edit)
       \/ /\ ~Exists(t) \/ (edit = "keep" /\ ~regrant)
          /\ End(c, "done")
    /\ UNCHANGED storeVars

(* _set_permissions: the SELECT of the token's rows.                       *)
SelectPermissions(c) ==
    /\ tokenCalls[c].pc = "select"
    /\ Select(c, "apply")
    /\ UNCHANGED storeVars

(* session.commit() of a request that changes permissions only: nothing    *)
(* checks the token, or the foreign keys.                                  *)
CommitPermissions(c) ==
    /\ tokenCalls[c].pc = "apply"
    /\ SetPermissions(c, tokenCalls[c].seen)
    /\ End(c, "done")
    /\ UNCHANGED <<config, operations, tokens, env, loop, matcher>>

(* Mutant of CommitRow: every column is saved, revoked_at as it was read    *)
(* before the revocation.                                                  *)
CommitWholeRow(c) ==
    LET t == tokenCalls[c].token
        edit == tokenCalls[c].edit
    IN /\ tokenCalls[c].pc = "row"
       /\ Exists(t)
       /\ tokens' = [tokens EXCEPT ![t] =
            [state |-> "live", expiry |-> IF edit \in Expiries THEN edit ELSE @.expiry]]
       /\ End(c, "done")
       /\ UNCHANGED <<config, operations, permissions, env, loop, matcher>>

(* session.commit() of an update that changed the row: UPDATE of the       *)
(* changed columns, SELECT, INSERTs, DELETEs.  An UPDATE that matches no   *)
(* row is a StaleDataError and rolls back.                                 *)
CommitRow(c) ==
    LET t == tokenCalls[c].token
        edit == tokenCalls[c].edit
    IN /\ tokenCalls[c].pc = "row"
       /\ \/ /\ Exists(t)
             /\ tokens' = IF edit \in Expiries THEN [tokens EXCEPT ![t].expiry = edit]
                          ELSE tokens
             /\ IF tokenCalls[c].regrant THEN SetPermissions(c, IdsOf(RowsOf(t)))
                                         ELSE UNCHANGED permissions
             /\ End(c, "done")
          \/ /\ ~Exists(t)
             /\ End(c, "failed")
             /\ UNCHANGED <<tokens, permissions>>
       /\ UNCHANGED <<config, operations, env, loop, matcher>>

(* revoke_token: the SELECT; a token that is revoked is left as it is.     *)
RevokeToken(c, t) ==
    /\ tokenCalls[c].pc = "new"
    /\ IF tokens[t].state = "live" THEN Begin(c, "revoke", t, {}, FALSE, "keep")
                                   ELSE End(c, "done")
    /\ UNCHANGED storeVars

(* The UPDATE of revoked_at and its commit.                                *)
CommitRevocation(c) ==
    LET t == tokenCalls[c].token
    IN /\ tokenCalls[c].pc = "revoke"
       /\ \/ /\ Exists(t)
             /\ tokens' = [tokens EXCEPT ![t].state = "revoked"]
             /\ End(c, "done")
          \/ /\ ~Exists(t)
             /\ End(c, "failed")
             /\ UNCHANGED tokens
       /\ UNCHANGED <<config, operations, permissions, env, loop, matcher>>

(* Mutant of DeleteToken: a live token may go.                             *)
DeleteAnyToken(c, t) ==
    /\ tokenCalls[c].pc = "new"
    /\ IF Exists(t) THEN Begin(c, "purge_select", t, {}, FALSE, "keep") ELSE End(c, "done")
    /\ UNCHANGED storeVars

(* delete_token: the SELECT of the token; only a revoked one may go.       *)
DeleteToken(c, t) ==
    /\ tokenCalls[c].pc = "new"
    /\ IF tokens[t].state = "revoked" THEN Begin(c, "purge_select", t, {}, FALSE, "keep")
                                      ELSE End(c, "done")
    /\ UNCHANGED storeVars

(* The SELECT of its permissions.                                          *)
SelectPurged(c) ==
    /\ tokenCalls[c].pc = "purge_select"
    /\ Select(c, "purge")
    /\ UNCHANGED storeVars

(* Mutant of CommitDeletion: the permissions stay.                         *)
CommitRowDeletion(c) ==
    /\ tokenCalls[c].pc = "purge"
    /\ tokens' = [tokens EXCEPT ![tokenCalls[c].token].state = "deleted"]
    /\ End(c, "done")
    /\ UNCHANGED <<config, operations, permissions, env, loop, matcher>>

(* The DELETEs and the commit; a DELETE that matches no row only warns.    *)
CommitDeletion(c) ==
    /\ tokenCalls[c].pc = "purge"
    /\ permissions' = {r \in permissions : r.id \notin tokenCalls[c].seen}
    /\ tokens' = [tokens EXCEPT ![tokenCalls[c].token].state = "deleted"]
    /\ End(c, "done")
    /\ UNCHANGED <<config, operations, env, loop, matcher>>

TokenCallArrives(c) ==
    \E t \in Tokens :
        \/ \E S \in OpLists, x \in Edits \cap Expiries : CreateToken(c, t, S, x)
        \/ \E S \in OpLists, edit \in Edits : UpdateToken(c, t, S, TRUE, edit)
        \/ \E edit \in Edits : UpdateToken(c, t, {}, FALSE, edit)
        \/ RevokeToken(c, t)
        \/ DeleteToken(c, t)

TokenCallStep(c) ==
    \/ RefreshCreated(c)
    \/ SelectPermissions(c)
    \/ CommitPermissions(c)
    \/ CommitRow(c)
    \/ CommitRevocation(c)
    \/ SelectPurged(c)
    \/ CommitDeletion(c)

(* The process dies under its requests.                                    *)
LoseTokenCalls ==
    tokenCalls' = [c \in TokenCalls |->
        IF tokenCalls[c].pc \in {"new"} \cup Ended THEN tokenCalls[c]
        ELSE IdleTokenCall("failed")]
=============================================================================
