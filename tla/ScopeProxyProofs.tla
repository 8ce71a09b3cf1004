--------------------------- MODULE ScopeProxyProofs ---------------------------
(***************************************************************************)
(* Proofs about ScopeProxy for every value of its constants: any sets of   *)
(* operations, tokens, servers and requests, any number of restarts.       *)
(*                                                                         *)
(* The argument is one inductive invariant, Inv.  Beside types it holds    *)
(* what each handler's record still guarantees after other handlers have   *)
(* run between its steps (TokenCallInv, PutInv, JobInv, CallInv), and from *)
(* it follow the properties at the end.                                    *)
(***************************************************************************)
EXTENDS ScopeProxy, TLAPS

USE DEF Ended, RowIds, Urls, TokenStates, Expiries, RowEdits

Dead == {"revoked", "deleted"}

(* A configured server has both URLs.                                      *)
ConfigInv == config.endpoint = None <=> config.openapi = None

(* A token call in progress is about a token, and a deletion that has      *)
(* passed its check is about one that is revoked or already gone.          *)
TokenCallInv ==
    \A c \in TokenCalls :
        /\ tokenCalls[c].pc \notin {"new"} \cup Ended => tokenCalls[c].token \in Tokens
        /\ tokenCalls[c].pc \in {"purge_select", "purge"}
             => tokens[tokenCalls[c].token].state \in Dead

(* A PUT about to write has two URLs to write, and the row it read is      *)
(* still there.                                                            *)
PutInv ==
    \A p \in Puts : puts[p].pc = "write" =>
        /\ puts[p].want \in [endpoint : Servers, openapi : Servers]
        /\ puts[p].seen.endpoint # None => Configured

(* A refresh that has its document reconciles with operations of it.       *)
JobInv ==
    \A j \in Jobs :
        /\ jobs[j].pc = "fetch" => jobs[j].url \in Servers
        /\ jobs[j].pc \in {"read", "scan", "flush", "finish"} =>
              /\ \E s \in Servers : jobs[j].spec \in SpecsOf[s]
              /\ jobs[j].todo \subseteq jobs[j].spec

(* A request that arrived with a dead token has not got past _authenticate *)
(* and its token is still dead.                                            *)
CallInv ==
    \A c \in Calls : calls[c].born \in Dead =>
        /\ calls[c].pc = "auth"
        /\ calls[c].target = None
        /\ calls[c].token \in Tokens
        /\ tokens[calls[c].token].state \in Dead

Inv ==
    /\ TypeOK
    /\ ConfigInv
    /\ TokenCallInv
    /\ PutInv
    /\ JobInv
    /\ CallInv
    /\ CatalogFromOneSpec

-------------------------------------------------------------------------------
(* Lemmas about the operators of the model.                                *)

(* The keys of a batch of INSERTs are row ids.                             *)
LEMMA FreshIdsType ==
    ASSUME NEW S, NEW used, NEW f \in FreshIds(S, used)
    PROVE  f \in [S -> RowIds]
BY DEF FreshIds

-------------------------------------------------------------------------------
(* The initial states.                                                     *)

LEMMA InitInv == Init => Inv
<1> SUFFICES ASSUME Init PROVE Inv
  OBVIOUS
<1> USE DEF Init, StoreInit
<1>1. TypeOK
  <2>1. /\ env \in [endpoint : Urls, openapi : Urls]
        /\ matcher \in [key : SUBSET Ops, wins : SUBSET Ops]
        /\ loop \in Jobs \cup Calls \cup {None}
        /\ restarts \in 0 .. MaxRestarts
    BY ScopeProxyAssumption DEF NoMatcher
  <2>2. TokenApiTypeOK /\ BackendConfigTypeOK /\ SchemaSyncTypeOK /\ ProxyGateTypeOK
    BY DEF TokenApiInit, TokenApiTypeOK, TokenCall, TokenCallPcs, IdleTokenCall,
           BackendConfigInit, BackendConfigTypeOK, Put, IdlePut, Unconfigured, Config,
           SchemaSyncInit, SchemaSyncTypeOK, Job, JobPcs, IdleJob, JobAt,
           ProxyGateInit, ProxyGateTypeOK, Call, CallPcs, IdleCall, CallAt
  <2>3. CASE NewInstallation
    <3>1. config \in Config
      BY <2>3 DEF NewInstallation, Unconfigured, Config
    <3>2. operations \in [Ops -> OperationRow]
      BY <2>3, StoreAssumption DEF NewInstallation, Wiped, AbsentRow, OperationRow
    <3>3. tokens \in [Tokens -> [state : TokenStates, expiry : Expiries]]
      BY <2>3 DEF NewInstallation
    <3> QED
      BY <2>1, <2>2, <2>3, <3>1, <3>2, <3>3 DEF TypeOK, StoreTypeOK, NewInstallation
  <2>4. CASE RunningInstallation
    <3> PICK s \in Servers, issued \in SUBSET Tokens : \E spec \in SpecsOf[s] :
        \E P \in SUBSET (issued \X spec) :
          /\ config = Saved(s)
          /\ operations =
               [o \in Ops |-> IF o \in spec THEN [row |-> 1, active |-> TRUE] ELSE AbsentRow]
          /\ tokens = [t \in Tokens |->
               [state |-> IF t \in issued THEN "live" ELSE "unused", expiry |-> "never"]]
          /\ \E f \in FreshIds(P, {}) :
               permissions = {[id |-> f[p], token |-> p[1], op |-> p[2], gen |-> 0] : p \in P}
      BY <2>4 DEF RunningInstallation
    <3>1. config \in Config
      BY DEF Saved, Config
    <3>2. operations \in [Ops -> OperationRow]
      BY StoreAssumption DEF AbsentRow, OperationRow
    <3>3. tokens \in [Tokens -> [state : TokenStates, expiry : Expiries]]
      OBVIOUS
    <3>4. permissions \subseteq Permission
      <4> PICK spec \in SpecsOf[s] : \E P \in SUBSET (issued \X spec) : \E f \in FreshIds(P, {}) :
            permissions = {[id |-> f[p], token |-> p[1], op |-> p[2], gen |-> 0] : p \in P}
        OBVIOUS
      <4> PICK P \in SUBSET (issued \X spec) : \E f \in FreshIds(P, {}) :
            permissions = {[id |-> f[p], token |-> p[1], op |-> p[2], gen |-> 0] : p \in P}
        OBVIOUS
      <4> PICK f \in FreshIds(P, {}) :
            permissions = {[id |-> f[p], token |-> p[1], op |-> p[2], gen |-> 0] : p \in P}
        OBVIOUS
      <4>1. f \in [P -> RowIds] /\ spec \subseteq Ops
        BY FreshIdsType, StoreAssumption
      <4> QED
        BY <4>1 DEF Permission
    <3> QED
      BY <2>1, <2>2, <3>1, <3>2, <3>3, <3>4 DEF TypeOK, StoreTypeOK
  <2> QED
    BY <2>3, <2>4
<1>2. ConfigInv
  BY StoreAssumption
     DEF ConfigInv, NewInstallation, RunningInstallation, Unconfigured, Saved
<1>3. TokenCallInv /\ PutInv /\ JobInv /\ CallInv
  BY DEF TokenCallInv, TokenApiInit, IdleTokenCall, PutInv, BackendConfigInit, IdlePut,
         JobInv, SchemaSyncInit, IdleJob, JobAt, CallInv, ProxyGateInit, IdleCall, CallAt, Dead
<1>4. CatalogFromOneSpec
  <2>1. CASE NewInstallation
    BY <2>1 DEF CatalogFromOneSpec, NewInstallation, ActiveOps, Wiped, AbsentRow
  <2>2. CASE RunningInstallation
    <3>1. PICK s \in Servers : \E spec \in SpecsOf[s] : operations =
            [o \in Ops |-> IF o \in spec THEN [row |-> 1, active |-> TRUE] ELSE AbsentRow]
      BY <2>2 DEF RunningInstallation
    <3>2. PICK spec \in SpecsOf[s] : operations =
            [o \in Ops |-> IF o \in spec THEN [row |-> 1, active |-> TRUE] ELSE AbsentRow]
      BY <3>1
    <3>3. ActiveOps \subseteq spec
      BY <3>2 DEF ActiveOps, AbsentRow
    <3> QED
      BY <3>3 DEF CatalogFromOneSpec
  <2> QED
    BY <2>1, <2>2
<1> QED
  BY <1>1, <1>2, <1>3, <1>4 DEF Inv

-------------------------------------------------------------------------------
(* Token calls.                                                            *)

(* What every step of a token call leaves alone.                           *)
LEMMA TokenCallFrame ==
    ASSUME NEW c \in TokenCalls, TokenCallNext(c)
    PROVE  UNCHANGED <<config, operations, env, loop, matcher, puts, jobs, calls, restarts>>
BY DEF TokenCallNext, TokenCallArrives, TokenCallStep, CreateToken, UpdateToken, RevokeToken,
       DeleteToken, RefreshCreated, SelectPermissions, CommitPermissions, CommitRow,
       CommitRevocation, SelectPurged, CommitDeletion, storeVars

LEMMA SetPermissionsType ==
    ASSUME TypeOK, NEW c \in TokenCalls, NEW seen, SetPermissions(c, seen),
           tokenCalls[c].token \in Tokens
    PROVE  permissions' \subseteq Permission
<1> DEFINE t == tokenCalls[c].token
           S == tokenCalls[c].ops
<1>1. PICK f \in FreshIds(S, IdsOf(permissions)) :
        permissions' = {r \in permissions \cup
            {[id |-> f[o], token |-> t, op |-> o, gen |-> tokenCalls[c].gen] : o \in S} :
             r.id \notin seen}
  BY DEF SetPermissions
<1>2. f \in [S -> RowIds]
  BY <1>1, FreshIdsType
<1>3. permissions \subseteq Permission /\ S \subseteq Ops /\ tokenCalls[c].gen \in Nat
  BY DEF TypeOK, StoreTypeOK, TokenApiTypeOK, TokenCall
<1>4. \A o \in S : [id |-> f[o], token |-> t, op |-> o, gen |-> tokenCalls[c].gen]
                     \in Permission
  BY <1>2, <1>3 DEF Permission
<1> QED
  BY <1>1, <1>3, <1>4

(* A step of a token call changes the call's own record, permissions and   *)
(* tokens within their types, and the life of at most one token, by one    *)
(* step of TokenLifecycle.                                                 *)
TokenCallEffect ==
    /\ tokenCalls' \in [TokenCalls -> TokenCall]
    /\ tokens' \in [Tokens -> [state : TokenStates, expiry : Expiries]]
    /\ permissions' \subseteq Permission
    /\ TokenCallInv'
    /\ Life!Next \/ UNCHANGED [t \in Tokens |-> tokens[t].state]

(* The record of a call is replaced by another of its type.                *)
LEMMA TokenCallRecord ==
    ASSUME Inv, NEW c \in TokenCalls, NEW rec \in TokenCall,
           tokenCalls' = [tokenCalls EXCEPT ![c] = rec],
           \A t \in Tokens : tokens[t].state \in Dead => tokens'[t].state \in Dead,
           rec.pc \notin {"new"} \cup Ended => rec.token \in Tokens,
           rec.pc \in {"purge_select", "purge"} => tokens'[rec.token].state \in Dead
    PROVE  tokenCalls' \in [TokenCalls -> TokenCall] /\ TokenCallInv'
<1>1. tokenCalls \in [TokenCalls -> TokenCall] /\ TokenCallInv
  BY DEF Inv, TypeOK, TokenApiTypeOK
<1>2. tokenCalls' \in [TokenCalls -> TokenCall]
  BY <1>1
<1>3. ASSUME NEW d \in TokenCalls
      PROVE  /\ tokenCalls'[d].pc \notin {"new"} \cup Ended => tokenCalls'[d].token \in Tokens
             /\ tokenCalls'[d].pc \in {"purge_select", "purge"}
                  => tokens'[tokenCalls'[d].token].state \in Dead
  <2>1. CASE d = c
    BY <1>1, <2>1
  <2>2. CASE d # c
    BY <1>1, <2>2 DEF TokenCallInv
  <2> QED
    BY <2>1, <2>2
<1> QED
  BY <1>2, <1>3 DEF TokenCallInv

LEMMA IdleTokenCallType ==
    ASSUME NEW pc \in {"new"} \cup Ended
    PROVE  IdleTokenCall(pc) \in TokenCall
BY DEF IdleTokenCall, TokenCall, TokenCallPcs

(* A call that ends, while no token comes back to life.                    *)
LEMMA EndRecord ==
    ASSUME Inv, NEW c \in TokenCalls, NEW pc \in Ended, End(c, pc),
           \A t \in Tokens : tokens[t].state \in Dead => tokens'[t].state \in Dead
    PROVE  tokenCalls' \in [TokenCalls -> TokenCall] /\ TokenCallInv'
<1>1. IdleTokenCall(pc).pc = pc
  BY DEF IdleTokenCall
<1> QED
  BY <1>1, IdleTokenCallType, TokenCallRecord DEF End

(* A call that ends without touching a token or a permission.              *)
LEMMA TokenCallEnds ==
    ASSUME Inv, NEW c \in TokenCalls, NEW pc \in Ended, End(c, pc),
           UNCHANGED <<tokens, permissions>>
    PROVE  TokenCallEffect
<1>1. tokenCalls' \in [TokenCalls -> TokenCall] /\ TokenCallInv'
  BY EndRecord
<1> QED
  BY <1>1 DEF TokenCallEffect, Inv, TypeOK, StoreTypeOK

(* A call that begins, or goes on, in the same way.                        *)
LEMMA TokenCallGoesOn ==
    ASSUME Inv, NEW c \in TokenCalls, NEW rec \in TokenCall,
           tokenCalls' = [tokenCalls EXCEPT ![c] = rec],
           rec.token \in Tokens,
           rec.pc \in {"purge_select", "purge"} => tokens[rec.token].state \in Dead,
           UNCHANGED <<tokens, permissions>>
    PROVE  TokenCallEffect
<1>1. tokenCalls' \in [TokenCalls -> TokenCall] /\ TokenCallInv'
  BY TokenCallRecord
<1> QED
  BY <1>1 DEF TokenCallEffect, Inv, TypeOK, StoreTypeOK

LEMMA TokenCallStepEffect ==
    ASSUME Inv, NEW c \in TokenCalls, TokenCallNext(c)
    PROVE  TokenCallEffect
<1> DEFINE rec == tokenCalls[c]
           Begun(pc, t, S, regrant, edit) ==
             [pc |-> pc, token |-> t, ops |-> S, regrant |-> regrant, edit |-> edit,
              seen |-> {}, gen |-> config.gen]
<1>a. /\ rec \in TokenCall
      /\ config.gen \in Nat
      /\ permissions \subseteq Permission
      /\ tokens \in [Tokens -> [state : TokenStates, expiry : Expiries]]
  BY DEF Inv, TypeOK, StoreTypeOK, TokenApiTypeOK, Config
<1>b. /\ rec.pc \notin {"new"} \cup Ended => rec.token \in Tokens
      /\ rec.pc \in {"purge_select", "purge"} => tokens[rec.token].state \in Dead
  BY DEF Inv, TokenCallInv
<1>c. ASSUME NEW pc \in TokenCallPcs, NEW t \in Tokens, NEW S \in SUBSET Ops,
             NEW regrant \in BOOLEAN, NEW edit \in RowEdits
      PROVE  Begun(pc, t, S, regrant, edit) \in TokenCall
  BY <1>a, <1>c DEF TokenCall
<1> HIDE DEF rec
<1>1. ASSUME NEW t \in Tokens, NEW S \in OpLists, NEW x \in Edits \cap Expiries,
             CreateToken(c, t, S, x)
      PROVE  TokenCallEffect
  <2>1. Begun("created", t, S, TRUE, "keep") \in TokenCall
    BY <1>c, TokenApiAssumption DEF TokenCallPcs
  <2>2. tokens' \in [Tokens -> [state : TokenStates, expiry : Expiries]]
    BY <1>1, <1>a DEF CreateToken
  <2>3. \A u \in Tokens : tokens[u].state \in Dead => tokens'[u].state \in Dead
    BY <1>1, <1>a DEF CreateToken, Dead
  <2>4. tokenCalls' \in [TokenCalls -> TokenCall] /\ TokenCallInv'
    BY <1>1, <2>1, <2>3, TokenCallRecord DEF CreateToken, Begin
  <2>5. Life!Next
    BY <1>1, <1>a DEF CreateToken, Life!Next, Life!Issue, Life!Advance
  <2> QED
    BY <1>1, <1>a, <2>2, <2>4, <2>5 DEF CreateToken, TokenCallEffect
<1>2. ASSUME NEW t \in Tokens, NEW S \in SUBSET Ops, NEW regrant \in BOOLEAN,
             NEW edit \in RowEdits, UpdateToken(c, t, S, regrant, edit)
      PROVE  TokenCallEffect
  <2>1. UNCHANGED <<tokens, permissions>>
    BY <1>2 DEF UpdateToken, storeVars
  <2>2. Begun("row", t, S, regrant, edit) \in TokenCall
    BY <1>c DEF TokenCallPcs
  <2>3. Begun("select", t, S, regrant, edit) \in TokenCall
    BY <1>c DEF TokenCallPcs
  <2>4. CASE Begin(c, "row", t, S, regrant, edit)
    BY <2>1, <2>2, <2>4, TokenCallGoesOn DEF Begin
  <2>5. CASE Begin(c, "select", t, S, regrant, edit)
    BY <2>1, <2>3, <2>5, TokenCallGoesOn DEF Begin
  <2>6. CASE End(c, "done")
    BY <2>1, <2>6, TokenCallEnds
  <2> QED
    BY <1>2, <2>4, <2>5, <2>6 DEF UpdateToken
<1>3. ASSUME NEW t \in Tokens, RevokeToken(c, t)
      PROVE  TokenCallEffect
  <2>1. UNCHANGED <<tokens, permissions>>
    BY <1>3 DEF RevokeToken, storeVars
  <2>2. Begun("revoke", t, {}, FALSE, "keep") \in TokenCall
    BY <1>c DEF TokenCallPcs
  <2>3. CASE Begin(c, "revoke", t, {}, FALSE, "keep")
    BY <2>1, <2>2, <2>3, TokenCallGoesOn DEF Begin
  <2>4. CASE End(c, "done")
    BY <2>1, <2>4, TokenCallEnds
  <2> QED
    BY <1>3, <2>3, <2>4 DEF RevokeToken
<1>4. ASSUME NEW t \in Tokens, DeleteToken(c, t)
      PROVE  TokenCallEffect
  <2>1. UNCHANGED <<tokens, permissions>>
    BY <1>4 DEF DeleteToken, storeVars
  <2>2. Begun("purge_select", t, {}, FALSE, "keep") \in TokenCall
    BY <1>c DEF TokenCallPcs
  <2>3. CASE tokens[t].state = "revoked" /\ Begin(c, "purge_select", t, {}, FALSE, "keep")
    BY <2>1, <2>2, <2>3, TokenCallGoesOn DEF Begin, Dead
  <2>4. CASE End(c, "done")
    BY <2>1, <2>4, TokenCallEnds
  <2> QED
    BY <1>4, <2>3, <2>4 DEF DeleteToken
<1>5. ASSUME RefreshCreated(c) PROVE TokenCallEffect
  <2>1. UNCHANGED <<tokens, permissions>>
    BY <1>5 DEF RefreshCreated, storeVars
  <2>2. CASE tokenCalls' = [tokenCalls EXCEPT ![c].pc = "select"]
    <3> DEFINE next == [rec EXCEPT !.pc = "select"]
    <3>1. next \in TokenCall /\ next.pc = "select" /\ next.token = rec.token
      BY <1>a DEF TokenCall, TokenCallPcs
    <3>2. rec.token \in Tokens
      BY <1>5, <1>b DEF RefreshCreated, rec
    <3>3. tokenCalls' = [tokenCalls EXCEPT ![c] = next]
      BY <2>2 DEF rec
    <3> QED
      BY <2>1, <3>1, <3>2, <3>3, TokenCallGoesOn
  <2>3. CASE End(c, "failed")
    BY <2>1, <2>3, TokenCallEnds
  <2> QED
    BY <1>5, <2>2, <2>3 DEF RefreshCreated
<1>6. ASSUME NEW pc \in {"apply", "purge"}, Select(c, pc), UNCHANGED storeVars,
             rec.pc = IF pc = "apply" THEN "select" ELSE "purge_select"
      PROVE  TokenCallEffect
  <2> DEFINE next == [rec EXCEPT !.pc = pc, !.seen = IdsOf(RowsOf(rec.token))]
  <2>1. IdsOf(RowsOf(rec.token)) \subseteq RowIds
    BY <1>a DEF IdsOf, RowsOf, Permission
  <2>2. next \in TokenCall /\ next.pc = pc /\ next.token = rec.token
    BY <1>a, <2>1 DEF TokenCall, TokenCallPcs
  <2>3. rec.token \in Tokens /\ (pc = "purge" => tokens[rec.token].state \in Dead)
    BY <1>6, <1>b
  <2>4. tokenCalls' = [tokenCalls EXCEPT ![c] = next]
    BY <1>6 DEF Select, rec
  <2> QED
    BY <1>6, <2>2, <2>3, <2>4, TokenCallGoesOn DEF storeVars
<1>7. ASSUME SelectPermissions(c) PROVE TokenCallEffect
  BY <1>6, <1>7 DEF SelectPermissions, rec
<1>8. ASSUME SelectPurged(c) PROVE TokenCallEffect
  BY <1>6, <1>8 DEF SelectPurged, rec
<1>9. ASSUME CommitPermissions(c) PROVE TokenCallEffect
  <2>1. SetPermissions(c, rec.seen) /\ End(c, "done") /\ UNCHANGED tokens
    BY <1>9 DEF CommitPermissions, rec
  <2>2. permissions' \subseteq Permission
    <3>1. tokenCalls[c].token \in Tokens
      BY <1>9, <1>b DEF CommitPermissions, rec
    <3> QED
      BY <2>1, <3>1, SetPermissionsType DEF Inv
  <2>3. tokenCalls' \in [TokenCalls -> TokenCall] /\ TokenCallInv'
    BY <2>1, EndRecord
  <2> QED
    BY <1>a, <2>1, <2>2, <2>3 DEF TokenCallEffect
<1>10. ASSUME CommitRow(c) PROVE TokenCallEffect
  <2>1. rec.token \in Tokens /\ rec.edit \in RowEdits
    BY <1>10, <1>a, <1>b DEF CommitRow, rec, TokenCall
  <2>2. CASE End(c, "failed") /\ UNCHANGED <<tokens, permissions>>
    BY <2>2, TokenCallEnds
  <2>3. CASE /\ End(c, "done")
             /\ tokens' = IF rec.edit \in Expiries
                          THEN [tokens EXCEPT ![rec.token].expiry = rec.edit] ELSE tokens
             /\ IF rec.regrant THEN SetPermissions(c, IdsOf(RowsOf(rec.token)))
                               ELSE UNCHANGED permissions
    <3>1. permissions' \subseteq Permission
      BY <1>a, <2>1, <2>3, SetPermissionsType DEF Inv, rec
    <3>2. tokens' \in [Tokens -> [state : TokenStates, expiry : Expiries]]
      BY <1>a, <2>1, <2>3
    <3>3. \A t \in Tokens : tokens'[t].state = tokens[t].state
      BY <1>a, <2>1, <2>3
    <3>4. tokenCalls' \in [TokenCalls -> TokenCall] /\ TokenCallInv'
      BY <2>3, <3>3, EndRecord
    <3> QED
      BY <3>1, <3>2, <3>3, <3>4 DEF TokenCallEffect
  <2> QED
    BY <1>10, <2>2, <2>3 DEF CommitRow, rec
<1>11. ASSUME CommitRevocation(c) PROVE TokenCallEffect
  <2>1. rec.token \in Tokens /\ UNCHANGED permissions
    BY <1>11, <1>b DEF CommitRevocation, rec
  <2>2. CASE End(c, "failed") /\ UNCHANGED tokens
    BY <2>1, <2>2, TokenCallEnds
  <2>3. CASE /\ End(c, "done")
             /\ Exists(rec.token)
             /\ tokens' = [tokens EXCEPT ![rec.token].state = "revoked"]
    <3>1. tokens' \in [Tokens -> [state : TokenStates, expiry : Expiries]]
      BY <1>a, <2>1, <2>3
    <3>2. \A t \in Tokens : tokens'[t].state =
            IF t = rec.token THEN "revoked" ELSE tokens[t].state
      BY <1>a, <2>1, <2>3
    <3>3. tokenCalls' \in [TokenCalls -> TokenCall] /\ TokenCallInv'
      BY <2>3, <3>2, EndRecord DEF Dead
    <3>4. Life!Next \/ UNCHANGED [t \in Tokens |-> tokens[t].state]
      BY <2>1, <2>3, <3>2 DEF Exists, Life!Next, Life!Revoke, Life!Advance
    <3> QED
      BY <1>a, <2>1, <3>1, <3>3, <3>4 DEF TokenCallEffect
  <2> QED
    BY <1>11, <2>2, <2>3 DEF CommitRevocation, rec
<1>12. ASSUME CommitDeletion(c) PROVE TokenCallEffect
  <2>1. /\ rec.token \in Tokens
        /\ tokens[rec.token].state \in Dead
        /\ tokens' = [tokens EXCEPT ![rec.token].state = "deleted"]
        /\ permissions' = {r \in permissions : r.id \notin rec.seen}
        /\ End(c, "done")
    BY <1>12, <1>b DEF CommitDeletion, rec
  <2>2. tokens' \in [Tokens -> [state : TokenStates, expiry : Expiries]]
    BY <1>a, <2>1
  <2>3. \A t \in Tokens : tokens'[t].state =
          IF t = rec.token THEN "deleted" ELSE tokens[t].state
    BY <1>a, <2>1
  <2>4. tokenCalls' \in [TokenCalls -> TokenCall] /\ TokenCallInv'
    BY <2>1, <2>3, EndRecord DEF Dead
  <2>5. Life!Next \/ UNCHANGED [t \in Tokens |-> tokens[t].state]
    BY <2>1, <2>3 DEF Dead, Life!Next, Life!Delete, Life!Advance
  <2> QED
    BY <1>a, <2>1, <2>2, <2>4, <2>5 DEF TokenCallEffect
<1>13. CASE TokenCallArrives(c)
  <2>1. OpLists \subseteq SUBSET Ops /\ Edits \subseteq RowEdits
    BY TokenApiAssumption
  <2>2. PICK t \in Tokens :
          \/ \E S \in OpLists, x \in Edits \cap Expiries : CreateToken(c, t, S, x)
          \/ \E S \in OpLists, edit \in Edits : UpdateToken(c, t, S, TRUE, edit)
          \/ \E edit \in Edits : UpdateToken(c, t, {}, FALSE, edit)
          \/ RevokeToken(c, t)
          \/ DeleteToken(c, t)
    BY <1>13 DEF TokenCallArrives
  <2> QED
    BY <1>1, <1>2, <1>3, <1>4, <2>1, <2>2
<1>14. CASE TokenCallStep(c)
  BY <1>14, <1>5, <1>7, <1>8, <1>9, <1>10, <1>11, <1>12 DEF TokenCallStep
<1> QED
  BY <1>13, <1>14 DEF TokenCallNext

(* A token that is dead stays dead.                                        *)
LEMMA DeadStaysDead ==
    ASSUME Inv, Life!Next \/ UNCHANGED [t \in Tokens |-> tokens[t].state]
    PROVE  \A t \in Tokens : tokens[t].state \in Dead => tokens'[t].state \in Dead
<1> DEFINE L == [t \in Tokens |-> tokens[t].state]
<1>1. \A t \in Tokens : L[t] = tokens[t].state
  OBVIOUS
<1>2. \A t \in Tokens : (L[t])' = tokens'[t].state
  OBVIOUS
<1>3. CASE UNCHANGED L
  BY <1>1, <1>2, <1>3
<1>4. ASSUME Life!Next PROVE \A t \in Tokens : L[t] \in Dead => L'[t] \in Dead
  <2>1. PICK u \in Tokens : Life!Issue(u) \/ Life!Revoke(u) \/ Life!Delete(u)
    BY <1>4 DEF Life!Next
  <2> QED
    BY <2>1 DEF Life!Issue, Life!Revoke, Life!Delete, Life!Advance, Dead
<1> QED
  BY <1>1, <1>2, <1>3, <1>4

LEMMA TokenCallNextInv ==
    ASSUME Inv, NEW c \in TokenCalls, TokenCallNext(c)
    PROVE  Inv'
<1>1. UNCHANGED <<config, operations, env, loop, matcher, puts, jobs, calls, restarts>>
  BY TokenCallFrame
<1>2. TokenCallEffect
  BY TokenCallStepEffect
<1>3. TypeOK'
  BY <1>1, <1>2 DEF TokenCallEffect, Inv, TypeOK, StoreTypeOK, TokenApiTypeOK,
                    BackendConfigTypeOK, SchemaSyncTypeOK, ProxyGateTypeOK
<1>4. ConfigInv' /\ PutInv' /\ JobInv' /\ CatalogFromOneSpec'
  BY <1>1 DEF Inv, ConfigInv, PutInv, JobInv, CatalogFromOneSpec, Configured, ActiveOps
<1>5. CallInv'
  <2>1. \A t \in Tokens : tokens[t].state \in Dead => tokens'[t].state \in Dead
    BY <1>2, DeadStaysDead DEF TokenCallEffect
  <2> QED
    BY <1>1, <2>1 DEF Inv, CallInv
<1> QED
  BY <1>2, <1>3, <1>4, <1>5 DEF TokenCallEffect, Inv

-------------------------------------------------------------------------------
(* PUTs of the backend configuration.                                      *)

(* The URLs of a row after an UPDATE, and its other columns.               *)
LEMMA UpdatedConfigType ==
    ASSUME config \in Config, NEW seen \in Config,
           NEW want \in [endpoint : Urls, openapi : Urls]
    PROVE  /\ UpdatedConfig(seen, want) \in Config
           /\ UpdatedConfig(seen, want).endpoint \in {want.endpoint, config.endpoint}
           /\ UpdatedConfig(seen, want).openapi \in {want.openapi, config.openapi}
BY DEF UpdatedConfig, Config, PairOf

LEMMA InsertedConfigType ==
    ASSUME NEW want \in [endpoint : Urls, openapi : Urls]
    PROVE  /\ InsertedConfig(want) \in Config
           /\ InsertedConfig(want).endpoint = want.endpoint
           /\ InsertedConfig(want).openapi = want.openapi
BY DEF InsertedConfig, Config

(* A write transaction keeps the types, the catalogue and a configured     *)
(* server's two URLs.                                                      *)
LEMMA WriteConfigType ==
    ASSUME Inv, Configured, NEW seen \in Config,
           NEW want \in [endpoint : Servers, openapi : Servers],
           WriteConfig(seen, want)
    PROVE  /\ config' \in Config
           /\ ConfigInv' /\ Configured'
           /\ operations' \in [Ops -> OperationRow]
           /\ permissions' \subseteq Permission
           /\ CatalogFromOneSpec'
<1>1. config \in Config /\ ConfigInv /\ None \notin Servers
  BY StoreAssumption DEF Inv, TypeOK, StoreTypeOK
<1>2. want \in [endpoint : Urls, openapi : Urls]
  OBVIOUS
<1>3. config' = UpdatedConfig(seen, want)
  BY DEF WriteConfig
<1>4. /\ config' \in Config
      /\ config'.endpoint \in {want.endpoint, config.endpoint}
      /\ config'.openapi \in {want.openapi, config.openapi}
  BY <1>1, <1>2, <1>3, UpdatedConfigType
<1>5. ConfigInv' /\ Configured'
  BY <1>1, <1>4 DEF ConfigInv, Configured, Config
<1>6. CASE ResetOperationsAndPermissions
  <2>1. operations' \in [Ops -> OperationRow] /\ ActiveOps' = {} /\ permissions' = {}
    BY <1>6, StoreAssumption
       DEF ResetOperationsAndPermissions, Wiped, AbsentRow, OperationRow, ActiveOps
  <2> QED
    BY <1>4, <1>5, <2>1 DEF CatalogFromOneSpec
<1>7. CASE UNCHANGED <<operations, permissions>>
  BY <1>4, <1>5, <1>7 DEF Inv, TypeOK, StoreTypeOK, CatalogFromOneSpec, ActiveOps
<1> QED
  BY <1>6, <1>7 DEF WriteConfig

LEMMA IdlePutType ==
    ASSUME NEW pc \in {"new"} \cup Ended
    PROVE  IdlePut(pc) \in Put /\ IdlePut(pc).pc = pc
BY DEF IdlePut, Put, Unconfigured, Config

(* The record of a PUT is replaced by another of its type.                 *)
LEMMA PutRecord ==
    ASSUME Inv, NEW p \in Puts, NEW rec \in Put, puts' = [puts EXCEPT ![p] = rec],
           Configured => Configured',
           rec.pc = "write" => /\ rec.want \in [endpoint : Servers, openapi : Servers]
                               /\ rec.seen.endpoint # None => Configured'
    PROVE  puts' \in [Puts -> Put] /\ PutInv'
<1>1. puts \in [Puts -> Put] /\ PutInv
  BY DEF Inv, TypeOK, BackendConfigTypeOK
<1>2. puts' \in [Puts -> Put]
  BY <1>1
<1>3. ASSUME NEW q \in Puts, puts'[q].pc = "write"
      PROVE  /\ puts'[q].want \in [endpoint : Servers, openapi : Servers]
             /\ puts'[q].seen.endpoint # None => Configured'
  <2>1. CASE q = p
    BY <1>1, <1>3, <2>1
  <2>2. CASE q # p
    BY <1>1, <1>3, <2>2 DEF PutInv
  <2> QED
    BY <2>1, <2>2
<1> QED
  BY <1>2, <1>3 DEF PutInv

(* What is left of Inv when a step is confined to config, operations,      *)
(* permissions and puts.                                                   *)
LEMMA PutFrame ==
    ASSUME Inv, UNCHANGED <<tokens, env, loop, matcher, tokenCalls, jobs, calls, restarts>>,
           config' \in Config, ConfigInv', operations' \in [Ops -> OperationRow],
           permissions' \subseteq Permission, CatalogFromOneSpec',
           puts' \in [Puts -> Put], PutInv'
    PROVE  Inv'
<1>1. TypeOK'
  BY DEF Inv, TypeOK, StoreTypeOK, TokenApiTypeOK, BackendConfigTypeOK, SchemaSyncTypeOK,
         ProxyGateTypeOK
<1>2. TokenCallInv' /\ JobInv' /\ CallInv'
  BY DEF Inv, TokenCallInv, JobInv, CallInv
<1> QED
  BY <1>1, <1>2 DEF Inv

LEMMA PutNextInv ==
    ASSUME Inv, NEW p \in Puts, PutNext(p)
    PROVE  Inv'
<1> DEFINE rec == puts[p]
<1>1. /\ rec \in Put
      /\ rec.pc = "write" => /\ rec.want \in [endpoint : Servers, openapi : Servers]
                             /\ rec.seen.endpoint # None => Configured
      /\ config \in Config
      /\ operations \in [Ops -> OperationRow]
      /\ permissions \subseteq Permission
      /\ env \in [endpoint : Urls, openapi : Urls]
      /\ ConfigInv /\ CatalogFromOneSpec
  BY DEF Inv, TypeOK, StoreTypeOK, BackendConfigTypeOK, PutInv
<1>2. UNCHANGED <<tokenCalls, jobs, calls, restarts>>
  BY DEF PutNext
<1>3. ASSUME NEW pair \in PutPairs, ReadForUpsert(p, pair)
      PROVE  Inv'
  <2> DEFINE want == [endpoint |-> Preset(env.endpoint, pair[1]),
                      openapi |-> Preset(env.openapi, pair[2])]
             next == [pc |-> "write", seen |-> config, want |-> want]
  <2>1. pair[1] \in Servers /\ pair[2] \in Servers
    BY BackendConfigAssumption
  <2>2. want \in [endpoint : Servers, openapi : Servers]
    BY <1>1, <2>1 DEF Preset
  <2>3. next \in Put
    BY <1>1, <2>2 DEF Put
  <2>4. puts' = [puts EXCEPT ![p] = next] /\ UNCHANGED storeVars
    BY <1>3 DEF ReadForUpsert
  <2>5. UNCHANGED <<config, operations, permissions, tokens, env, loop, matcher>>
    BY <2>4 DEF storeVars
  <2>6. Configured' = Configured
    BY <2>5 DEF Configured
  <2>7. puts' \in [Puts -> Put] /\ PutInv'
    <3>1. next.pc = "write" /\ next.want = want /\ next.seen = config
      OBVIOUS
    <3>2. config.endpoint # None => Configured'
      BY <2>6 DEF Configured
    <3> HIDE DEF next, want
    <3> QED
      BY <2>2, <2>3, <2>4, <2>6, <3>1, <3>2, PutRecord
  <2>8. ConfigInv' /\ CatalogFromOneSpec'
    BY <1>1, <2>5 DEF ConfigInv, CatalogFromOneSpec, ActiveOps
  <2> QED
    BY <1>1, <1>2, <2>5, <2>7, <2>8, PutFrame
<1>4. ASSUME CommitUpsert(p) PROVE Inv'
  <2>1. /\ rec.pc = "write" /\ Configured
        /\ WriteConfig(rec.seen, rec.want)
        /\ EndPut(p, "done")
        /\ UNCHANGED <<tokens, env, loop, matcher>>
    BY <1>1, <1>4 DEF CommitUpsert
  <2>2. rec.seen \in Config
    BY <1>1 DEF Put
  <2>3. /\ config' \in Config
        /\ ConfigInv' /\ Configured'
        /\ operations' \in [Ops -> OperationRow]
        /\ permissions' \subseteq Permission
        /\ CatalogFromOneSpec'
    BY <1>1, <2>1, <2>2, WriteConfigType
  <2>4. puts' \in [Puts -> Put] /\ PutInv'
    BY <2>1, <2>3, IdlePutType, PutRecord DEF EndPut
  <2> QED
    BY <1>2, <2>1, <2>3, <2>4, PutFrame
<1>5. ASSUME CommitInsert(p) PROVE Inv'
  <2>1. /\ rec.pc = "write"
        /\ UNCHANGED <<operations, tokens, permissions, env, loop, matcher>>
    BY <1>5 DEF CommitInsert
  <2>2. CatalogFromOneSpec'
    BY <1>1, <2>1 DEF CatalogFromOneSpec, ActiveOps
  <2>3. CASE config' = InsertedConfig(rec.want) /\ EndPut(p, "done")
    <3>1. rec.want \in [endpoint : Urls, openapi : Urls] /\ None \notin Servers
      BY <1>1, <2>1, StoreAssumption
    <3>2. /\ config' \in Config
          /\ config'.endpoint = rec.want.endpoint
          /\ config'.openapi = rec.want.openapi
      BY <2>3, <3>1, InsertedConfigType
    <3>3. ConfigInv' /\ Configured'
      BY <1>1, <2>1, <3>1, <3>2 DEF ConfigInv, Configured
    <3>4. puts' \in [Puts -> Put] /\ PutInv'
      BY <2>3, <3>3, IdlePutType, PutRecord DEF EndPut
    <3> QED
      BY <1>1, <1>2, <2>1, <2>2, <3>2, <3>3, <3>4, PutFrame
  <2>4. CASE UNCHANGED config /\ EndPut(p, "failed")
    <3>1. ConfigInv' /\ Configured' = Configured
      BY <1>1, <2>4 DEF ConfigInv, Configured
    <3>2. puts' \in [Puts -> Put] /\ PutInv'
      BY <2>4, <3>1, IdlePutType, PutRecord DEF EndPut
    <3> QED
      BY <1>1, <1>2, <2>1, <2>2, <2>4, <3>1, <3>2, PutFrame
  <2> QED
    BY <1>5, <2>3, <2>4 DEF CommitInsert
<1> QED
  BY <1>3, <1>4, <1>5 DEF PutNext, PutArrives, PutStep

-------------------------------------------------------------------------------
(* Schema refreshes.                                                       *)

(* What JobInv says of one record.                                         *)
GoodJob(rec) ==
    /\ rec.pc = "fetch" => rec.url \in Servers
    /\ rec.pc \in {"read", "scan", "flush", "finish"} =>
          /\ \E s \in Servers : rec.spec \in SpecsOf[s]
          /\ rec.todo \subseteq rec.spec

LEMMA IdleJobType ==
    ASSUME NEW pc \in {"new"} \cup Ended
    PROVE  IdleJob(pc) \in Job /\ GoodJob(IdleJob(pc))
BY DEF IdleJob, JobAt, Job, JobPcs, GoodJob

LEMMA JobRecord ==
    ASSUME Inv, NEW j \in Jobs, NEW rec \in Job, jobs' = [jobs EXCEPT ![j] = rec],
           GoodJob(rec)
    PROVE  jobs' \in [Jobs -> Job] /\ JobInv'
<1>1. jobs \in [Jobs -> Job] /\ \A k \in Jobs : GoodJob(jobs[k])
  BY DEF Inv, TypeOK, SchemaSyncTypeOK, JobInv, GoodJob
<1>2. jobs' \in [Jobs -> Job] /\ \A k \in Jobs : GoodJob(jobs'[k])
  BY <1>1
<1> QED
  BY <1>2 DEF JobInv, GoodJob

LEMMA JobEnds ==
    ASSUME Inv, NEW j \in Jobs, NEW pc \in Ended, EndJob(j, pc)
    PROVE  jobs' \in [Jobs -> Job] /\ JobInv'
BY IdleJobType, JobRecord DEF EndJob

(* Recording an outcome writes two columns and no URL.                     *)
LEMMA RecordedType ==
    ASSUME Inv, NEW j \in Jobs, NEW outcome \in {"success", "error"}, NEW fetched \in BOOLEAN,
           config' = Recorded(j, outcome, fetched)
    PROVE  /\ config' \in Config /\ ConfigInv' /\ Configured' = Configured
           /\ PairOf(config') = PairOf(config)
<1>1. config \in Config /\ ConfigInv
  BY DEF Inv, TypeOK, StoreTypeOK
<1> QED
  BY <1>1 DEF Recorded, Config, ConfigInv, Configured, PairOf

(* What is left of Inv when a step is confined to config, operations, loop *)
(* and jobs.                                                               *)
LEMMA JobFrame ==
    ASSUME Inv, UNCHANGED <<tokens, permissions, env, matcher, tokenCalls, puts, calls, restarts>>,
           config' \in Config, ConfigInv', Configured' = Configured,
           operations' \in [Ops -> OperationRow], CatalogFromOneSpec',
           loop' \in Jobs \cup Calls \cup {None},
           jobs' \in [Jobs -> Job], JobInv'
    PROVE  Inv'
<1>1. TypeOK'
  BY DEF Inv, TypeOK, StoreTypeOK, TokenApiTypeOK, BackendConfigTypeOK, SchemaSyncTypeOK,
         ProxyGateTypeOK
<1>2. TokenCallInv' /\ PutInv' /\ CallInv'
  BY DEF Inv, TokenCallInv, PutInv, CallInv
<1> QED
  BY <1>1, <1>2 DEF Inv

LEMMA JobNextInv ==
    ASSUME Inv, NEW j \in Jobs, JobNext(j)
    PROVE  Inv'
<1> DEFINE rec == jobs[j]
<1>1. /\ rec \in Job /\ GoodJob(rec)
      /\ config \in Config /\ ConfigInv
      /\ operations \in [Ops -> OperationRow] /\ CatalogFromOneSpec
      /\ loop \in Jobs \cup Calls \cup {None}
  BY DEF Inv, TypeOK, StoreTypeOK, SchemaSyncTypeOK, JobInv, GoodJob
<1>2. UNCHANGED <<tokenCalls, puts, calls, restarts>>
  BY DEF JobNext
<1> HIDE DEF rec
(* A step that changes the record of the job alone, and perhaps the loop.  *)
<1>3. ASSUME UNCHANGED <<config, operations, tokens, permissions, env, matcher>>,
             loop' \in {loop, j, None}, jobs' \in [Jobs -> Job], JobInv'
      PROVE  Inv'
  <2>1. /\ ConfigInv' /\ Configured' = Configured
        /\ CatalogFromOneSpec'
    BY <1>1, <1>3 DEF ConfigInv, Configured, CatalogFromOneSpec, ActiveOps
  <2>2. loop' \in Jobs \cup Calls \cup {None}
    BY <1>1, <1>3
  <2> QED
    BY <1>1, <1>2, <1>3, <2>1, <2>2, JobFrame
<1>4. ASSUME StartRefresh(j) PROVE Inv'
  <2> DEFINE next == IF Configured THEN JobAt("fetch", config.openapi, config.status)
                                   ELSE IdleJob("failed")
  <2>1. jobs' = [jobs EXCEPT ![j] = next] /\ UNCHANGED storeVars
    BY <1>4 DEF StartRefresh
  <2>2. ASSUME Configured
        PROVE  /\ JobAt("fetch", config.openapi, config.status) \in Job
               /\ GoodJob(JobAt("fetch", config.openapi, config.status))
    <3>1. config.openapi \in Servers /\ config.status \in {"none", "success", "error"}
      BY <1>1, <2>2 DEF Config, ConfigInv, Configured
    <3> QED
      BY <3>1 DEF GoodJob, JobAt, Job, JobPcs
  <2>3. next \in Job /\ GoodJob(next)
    BY <2>2, IdleJobType
  <2> HIDE DEF next
  <2>4. jobs' \in [Jobs -> Job] /\ JobInv'
    BY <2>1, <2>3, JobRecord
  <2> QED
    BY <1>3, <2>1, <2>4 DEF storeVars
<1>5. ASSUME FetchFails(j) PROVE Inv'
  <2>1. /\ config' = Recorded(j, "error", config.fetched) /\ EndJob(j, "failed")
        /\ UNCHANGED <<operations, tokens, permissions, env, loop, matcher>>
    BY <1>5 DEF FetchFails
  <2>2. /\ config' \in Config /\ ConfigInv' /\ Configured' = Configured
    BY <1>1, <2>1, RecordedType DEF Config
  <2>3. jobs' \in [Jobs -> Job] /\ JobInv'
    BY <2>1, JobEnds
  <2>4. CatalogFromOneSpec'
    BY <1>1, <2>1 DEF CatalogFromOneSpec, ActiveOps
  <2> QED
    BY <1>1, <1>2, <2>1, <2>2, <2>3, <2>4, JobFrame
<1>6. ASSUME rec.pc = "fetch", NEW spec \in SpecsOf[rec.url], NEW bad \in BOOLEAN,
             FetchReturns(j, spec, bad)
      PROVE  Inv'
  <2> DEFINE next == [rec EXCEPT !.pc = IF spec = {} THEN "scan" ELSE "read",
                                 !.spec = spec, !.todo = spec, !.bad = bad,
                                 !.gen = config.gen]
  <2>1. rec.url \in Servers /\ spec \subseteq Ops
    BY <1>1, <1>6, StoreAssumption DEF GoodJob
  <2>2. next \in Job
    BY <1>1, <2>1 DEF Job, JobPcs, Config
  <2>3. next.pc \in {"scan", "read"} /\ next.spec = spec /\ next.todo = spec
    BY <1>1 DEF Job
  <2>4. GoodJob(next)
    BY <1>6, <2>1, <2>3 DEF GoodJob
  <2>5. jobs' = [jobs EXCEPT ![j] = next]
    BY <1>6 DEF FetchReturns, rec
  <2> HIDE DEF next
  <2>6. jobs' \in [Jobs -> Job] /\ JobInv'
    BY <2>2, <2>4, <2>5, JobRecord
  <2> QED
    BY <1>3, <1>6, <2>6 DEF FetchReturns
(* Looking up and scanning only narrow what is to do.                      *)
<1>7. ASSUME NEW next \in Job, jobs' = [jobs EXCEPT ![j] = next], UNCHANGED storeVars,
             rec.pc \in {"read", "scan"}, next.pc # "fetch", next.spec = rec.spec,
             next.todo \subseteq rec.todo
      PROVE  Inv'
  <2>1. GoodJob(next)
    BY <1>1, <1>7 DEF GoodJob
  <2>2. jobs' \in [Jobs -> Job] /\ JobInv'
    BY <1>7, <2>1, JobRecord
  <2> QED
    BY <1>3, <1>7, <2>2 DEF storeVars
<1>8. ASSUME NEW o \in Ops, LookUpClean(j, o) PROVE Inv'
  <2> DEFINE next == [rec EXCEPT !.todo = @ \ {o},
                                 !.pc = IF rec.todo = {o} THEN "scan" ELSE "read"]
  <2>1. next \in Job
    BY <1>1 DEF Job, JobPcs
  <2>2. next.pc \in {"scan", "read"} /\ next.spec = rec.spec /\ next.todo = rec.todo \ {o}
    BY <1>1 DEF Job
  <2>3. jobs' = [jobs EXCEPT ![j] = next] /\ rec.pc = "read" /\ UNCHANGED storeVars
    BY <1>8 DEF LookUpClean, rec
  <2> HIDE DEF next
  <2> QED
    BY <1>7, <2>1, <2>2, <2>3
<1>9. ASSUME NEW o \in Ops, LookUpDirty(j, o) PROVE Inv'
  <2> DEFINE next == [rec EXCEPT !.pc = "flush", !.pending = {o} \cap Rows]
  <2>1. next \in Job
    BY <1>1 DEF Job, JobPcs
  <2>2. next.pc = "flush" /\ next.spec = rec.spec /\ next.todo = rec.todo
    BY <1>1 DEF Job
  <2>3. jobs' = [jobs EXCEPT ![j] = next] /\ rec.pc = "read" /\ UNCHANGED storeVars
    BY <1>9 DEF LookUpDirty, rec
  <2> HIDE DEF next
  <2> QED
    BY <1>7, <2>1, <2>2, <2>3
<1>10. ASSUME SelectRemoved(j) PROVE Inv'
  <2> DEFINE next == [rec EXCEPT !.pc = "finish", !.pending = ActiveOps \ rec.spec]
  <2>1. next \in Job
    BY <1>1 DEF Job, JobPcs, ActiveOps
  <2>2. next.pc = "finish" /\ next.spec = rec.spec /\ next.todo = rec.todo
    BY <1>1 DEF Job
  <2>3. jobs' = [jobs EXCEPT ![j] = next] /\ rec.pc = "scan" /\ UNCHANGED storeVars
    BY <1>10 DEF SelectRemoved, rec
  <2> HIDE DEF next
  <2> QED
    BY <1>7, <2>1, <2>2, <2>3
<1>11. ASSUME CommitSuccess(j), operations' \in [Ops -> OperationRow], CatalogFromOneSpec'
       PROVE  Inv'
  <2>1. /\ config' = Recorded(j, "success", TRUE) /\ EndJob(j, "done") /\ loop' = None
        /\ UNCHANGED <<tokens, permissions, env, matcher>>
    BY <1>11 DEF CommitSuccess
  <2>2. config' \in Config /\ ConfigInv' /\ Configured' = Configured
    BY <2>1, RecordedType
  <2>3. jobs' \in [Jobs -> Job] /\ JobInv'
    BY <2>1, JobEnds
  <2> QED
    BY <1>2, <1>11, <2>1, <2>2, <2>3, JobFrame
<1>12. ASSUME CommitSync(j) PROVE Inv'
  <2>1. PICK n \in RowIds : operations' = Reconciled(rec.spec, rec.todo, n)
    BY <1>12 DEF CommitSync, rec
  <2>2. PICK s \in Servers : rec.spec \in SpecsOf[s]
    BY <1>1, <1>12 DEF CommitSync, GoodJob, rec
  <2>3. rec.todo \subseteq rec.spec
    BY <1>1, <1>12 DEF CommitSync, GoodJob, rec
  <2>4. \A o \in Ops :
          /\ operations[o].row \in 0 .. MaxRowId
          /\ operations[o].active \in BOOLEAN
          /\ operations[o].active => operations[o].row # 0
    BY <1>1 DEF OperationRow
  <2>5. operations' \in [Ops -> OperationRow]
    <3>1. ASSUME NEW o \in rec.todo, o \in Ops PROVE operations'[o] \in OperationRow
      BY <2>1, <2>4, <3>1, StoreAssumption DEF Reconciled, OperationRow, Rows
    <3>2. ASSUME NEW o \in Ops, o \notin rec.todo PROVE operations'[o] \in OperationRow
      <4>1. operations'[o] = [operations[o] EXCEPT !.active = @ /\ o \in rec.spec]
        BY <2>1, <3>2 DEF Reconciled
      <4>2. operations[o] \in [row : 0 .. MaxRowId, active : BOOLEAN]
        BY <1>1 DEF OperationRow
      <4> QED
        BY <2>4, <4>1, <4>2 DEF OperationRow
    <3> QED
      BY <2>1, <3>1, <3>2 DEF Reconciled
  <2>6. ActiveOps' \subseteq rec.spec
    <3>1. ASSUME NEW o \in Ops, operations'[o].active, o \notin rec.todo
          PROVE  o \in rec.spec
      <4>1. operations'[o] = [operations[o] EXCEPT !.active = @ /\ o \in rec.spec]
        BY <2>1, <3>1 DEF Reconciled
      <4>2. operations[o] \in [row : 0 .. MaxRowId, active : BOOLEAN]
        BY <1>1 DEF OperationRow
      <4> QED
        BY <3>1, <4>1, <4>2
    <3> QED
      BY <2>3, <3>1 DEF ActiveOps
  <2>7. CatalogFromOneSpec'
    BY <2>2, <2>6 DEF CatalogFromOneSpec
  <2>8. CommitSuccess(j)
    BY <1>12 DEF CommitSync
  <2> QED
    BY <1>11, <2>5, <2>7, <2>8
<1>13. ASSUME CommitRemoved(j) PROVE Inv'
  <2>1. operations' = [o \in Ops |->
            [operations[o] EXCEPT !.active = @ /\ o \notin rec.pending]]
    BY <1>13 DEF CommitRemoved, rec
  <2>2. \A o \in Ops : /\ operations'[o].row = operations[o].row
                       /\ operations'[o].active = (operations[o].active /\ o \notin rec.pending)
                       /\ operations'[o] \in OperationRow
    <3> TAKE o \in Ops
    <3>1. operations[o] \in [row : 0 .. MaxRowId, active : BOOLEAN]
      BY <1>1 DEF OperationRow
    <3>2. operations[o].active => operations[o].row # 0
      BY <1>1 DEF OperationRow
    <3>3. operations'[o] = [operations[o] EXCEPT !.active = @ /\ o \notin rec.pending]
      BY <2>1
    <3> QED
      BY <3>1, <3>2, <3>3 DEF OperationRow
  <2>3. operations' \in [Ops -> OperationRow]
    BY <2>1, <2>2
  <2>4. ActiveOps' \subseteq ActiveOps
    BY <2>2 DEF ActiveOps
  <2>5. CatalogFromOneSpec'
    BY <1>1, <2>4 DEF CatalogFromOneSpec
  <2>6. CommitSuccess(j)
    BY <1>13 DEF CommitRemoved
  <2> QED
    BY <1>11, <2>3, <2>5, <2>6
<1>14. ASSUME FlushFails(j) PROVE Inv'
  <2>1. jobs' \in [Jobs -> Job] /\ JobInv'
    BY <1>14, JobEnds DEF FlushFails
  <2> QED
    BY <1>3, <1>14, <2>1 DEF FlushFails
<1>15. ASSUME FetchEnds(j) PROVE Inv'
  BY <1>5, <1>6, <1>15 DEF FetchEnds, rec
<1> QED
  BY <1>4, <1>8, <1>9, <1>10, <1>12, <1>13, <1>14, <1>15 DEF JobNext, JobStep

-------------------------------------------------------------------------------
(* Proxied requests.                                                       *)

(* What CallInv says of one record.                                        *)
GoodCall(rec) ==
    rec.born \in Dead =>
        /\ rec.pc = "auth"
        /\ rec.target = None
        /\ rec.token \in Tokens
        /\ tokens[rec.token].state \in Dead

LEMMA IdleCallType ==
    ASSUME NEW pc \in {"new"} \cup Ended
    PROVE  IdleCall(pc) \in Call /\ GoodCall(IdleCall(pc))
BY DEF IdleCall, CallAt, Call, CallPcs, GoodCall, Dead

LEMMA CallRecord ==
    ASSUME Inv, NEW c \in Calls, NEW rec \in Call, calls' = [calls EXCEPT ![c] = rec],
           GoodCall(rec), UNCHANGED tokens
    PROVE  calls' \in [Calls -> Call] /\ CallInv'
<1>1. calls \in [Calls -> Call] /\ \A d \in Calls : GoodCall(calls[d])
  BY DEF Inv, TypeOK, ProxyGateTypeOK, CallInv, GoodCall
<1>2. calls' \in [Calls -> Call] /\ \A d \in Calls : GoodCall(calls'[d])
  BY <1>1
<1> QED
  BY <1>2 DEF CallInv, GoodCall

LEMMA CallEnds ==
    ASSUME Inv, NEW c \in Calls, NEW pc \in Ended, EndCall(c, pc), UNCHANGED tokens
    PROVE  calls' \in [Calls -> Call] /\ CallInv'
BY IdleCallType, CallRecord DEF EndCall

(* The cached matcher is made of rows of the table.                        *)
LEMMA FreshMatcherType ==
    ASSUME matcher \in [key : SUBSET Ops, wins : SUBSET Ops]
    PROVE  FreshMatcher \in [key : SUBSET Ops, wins : SUBSET Ops]
BY DEF FreshMatcher, LastRows, Rows

(* A proxied request writes nothing but its own record, the loop and the   *)
(* matcher.                                                                *)
LEMMA CallFrame ==
    ASSUME Inv, UNCHANGED <<config, operations, tokens, permissions, env,
                            tokenCalls, puts, jobs, restarts>>,
           matcher' \in [key : SUBSET Ops, wins : SUBSET Ops],
           loop' \in Jobs \cup Calls \cup {None},
           calls' \in [Calls -> Call], CallInv'
    PROVE  Inv'
<1>1. TypeOK'
  BY DEF Inv, TypeOK, StoreTypeOK, TokenApiTypeOK, BackendConfigTypeOK, SchemaSyncTypeOK,
         ProxyGateTypeOK
<1>2. ConfigInv' /\ TokenCallInv' /\ PutInv' /\ JobInv' /\ CatalogFromOneSpec'
  BY DEF Inv, ConfigInv, TokenCallInv, PutInv, JobInv, CatalogFromOneSpec, Configured,
         ActiveOps
<1> QED
  BY <1>1, <1>2 DEF Inv

LEMMA CallNextInv ==
    ASSUME Inv, NEW c \in Calls, CallNext(c)
    PROVE  Inv'
<1> DEFINE rec == calls[c]
<1>1. /\ rec \in Call /\ GoodCall(rec)
      /\ config \in Config
      /\ operations \in [Ops -> OperationRow]
      /\ permissions \subseteq Permission
      /\ loop \in Jobs \cup Calls \cup {None}
      /\ matcher \in [key : SUBSET Ops, wins : SUBSET Ops]
  BY DEF Inv, TypeOK, StoreTypeOK, ProxyGateTypeOK, CallInv, GoodCall
<1>2. UNCHANGED <<tokenCalls, puts, jobs, restarts>>
  BY DEF CallNext
<1> HIDE DEF rec
(* Every step replaces the record by one that is typed and good.           *)
<1>3. ASSUME NEW next \in Call, calls' = [calls EXCEPT ![c] = next], GoodCall(next),
             UNCHANGED <<config, operations, tokens, permissions, env>>,
             matcher' \in {matcher, FreshMatcher}, loop' \in {loop, c, None}
      PROVE  Inv'
  <2>1. calls' \in [Calls -> Call] /\ CallInv'
    BY <1>3, CallRecord
  <2>2. matcher' \in [key : SUBSET Ops, wins : SUBSET Ops]
    BY <1>1, <1>3, FreshMatcherType
  <2>3. loop' \in Jobs \cup Calls \cup {None}
    BY <1>1, <1>3
  <2> QED
    BY <1>2, <1>3, <2>1, <2>2, <2>3, CallFrame
<1>4. ASSUME NEW pc \in Ended, EndCall(c, pc),
             UNCHANGED <<config, operations, tokens, permissions, env>>,
             matcher' \in {matcher, FreshMatcher}, loop' \in {loop, c, None}
      PROVE  Inv'
  BY <1>3, <1>4, IdleCallType DEF EndCall
<1>5. ASSUME NEW t \in Tokens \cup {None}, NEW e \in Endpoints, Arrive(c, t, e)
      PROVE  Inv'
  <2> DEFINE next == CallAt("auth", t, e, IF t = None THEN "unused" ELSE tokens[t].state)
  <2>1. tokens \in [Tokens -> [state : TokenStates, expiry : Expiries]]
    BY DEF Inv, TypeOK, StoreTypeOK
  <2>2. next \in Call /\ GoodCall(next)
    BY <2>1 DEF CallAt, Call, CallPcs, GoodCall, Dead
  <2>3. calls' = [calls EXCEPT ![c] = next] /\ UNCHANGED storeVars
    BY <1>5 DEF Arrive
  <2> HIDE DEF next
  <2> QED
    BY <1>3, <2>2, <2>3 DEF storeVars
<1>6. ASSUME Authenticate(c) PROVE Inv'
  <2>1. CASE Deny(c)
    BY <1>4, <1>6, <2>1 DEF Authenticate, Deny
  <2>2. CASE /\ Valid(rec.token) /\ loop' = c
             /\ calls' = [calls EXCEPT ![c].pc = "resolve"]
    <3> DEFINE next == [rec EXCEPT !.pc = "resolve"]
    <3>1. next \in Call
      BY <1>1 DEF Call, CallPcs
    <3>2. rec.born \notin Dead /\ next.born = rec.born
      BY <1>1, <2>2 DEF Valid, GoodCall, Dead, Call
    <3>3. GoodCall(next)
      BY <3>2 DEF GoodCall
    <3>4. calls' = [calls EXCEPT ![c] = next]
      BY <2>2 DEF rec
    <3> HIDE DEF next
    <3> QED
      BY <1>3, <1>6, <2>2, <3>1, <3>3, <3>4 DEF Authenticate
  <2> QED
    BY <1>6, <2>1, <2>2 DEF Authenticate, rec
<1>7. ASSUME ResolveOperation(c) PROVE Inv'
  <2>1. CASE Deny(c)
    BY <1>4, <1>7, <2>1 DEF ResolveOperation, Deny
  <2>2. CASE /\ \E o \in Matches(rec.endpoint) :
                  calls' = [calls EXCEPT ![c].pc = "permission", ![c].op = o,
                                         ![c].active = operations[o].active]
             /\ UNCHANGED loop
    <3> PICK o \in Matches(rec.endpoint) :
            calls' = [calls EXCEPT ![c].pc = "permission", ![c].op = o,
                                   ![c].active = operations[o].active]
      BY <2>2
    <3> DEFINE next == [rec EXCEPT !.pc = "permission", !.op = o,
                                   !.active = operations[o].active]
    <3>1. o \in Ops /\ operations[o].active \in BOOLEAN
      BY <1>1, FreshMatcherType DEF Matches, OperationRow
    <3>2. next \in Call
      BY <1>1, <3>1 DEF Call, CallPcs
    <3>3. rec.born \notin Dead /\ next.born = rec.born
      BY <1>1, <1>7 DEF ResolveOperation, GoodCall, rec, Call
    <3>4. GoodCall(next)
      BY <3>3 DEF GoodCall
    <3>5. calls' = [calls EXCEPT ![c] = next]
      BY DEF rec
    <3> HIDE DEF next
    <3> QED
      BY <1>3, <1>7, <2>2, <3>2, <3>4, <3>5 DEF ResolveOperation
  <2> QED
    BY <1>7, <2>1, <2>2 DEF ResolveOperation, rec
<1>8. ASSUME EnsurePermission(c) PROVE Inv'
  <2>1. CASE Deny(c)
    BY <1>4, <1>8, <2>1 DEF EnsurePermission, Deny
  <2>2. CASE /\ \E r \in Permits(c) :
                  calls' = [calls EXCEPT ![c].pc = "config", ![c].gen = r.gen]
             /\ UNCHANGED loop
    <3> PICK r \in Permits(c) :
            calls' = [calls EXCEPT ![c].pc = "config", ![c].gen = r.gen]
      BY <2>2
    <3> DEFINE next == [rec EXCEPT !.pc = "config", !.gen = r.gen]
    <3>1. r.gen \in Nat
      BY <1>1 DEF Permits, RowsOf, Permission
    <3>2. next \in Call
      BY <1>1, <3>1 DEF Call, CallPcs
    <3>3. rec.born \notin Dead /\ next.born = rec.born
      BY <1>1, <1>8 DEF EnsurePermission, GoodCall, rec, Call
    <3>4. GoodCall(next)
      BY <3>3 DEF GoodCall
    <3>5. calls' = [calls EXCEPT ![c] = next]
      BY DEF rec
    <3> HIDE DEF next
    <3> QED
      BY <1>3, <1>8, <2>2, <3>2, <3>4, <3>5 DEF EnsurePermission
  <2> QED
    BY <1>8, <2>1, <2>2 DEF EnsurePermission
<1>9. ASSUME SendUpstream(c) PROVE Inv'
  <2>1. CASE Deny(c)
    BY <1>4, <1>9, <2>1 DEF SendUpstream, Deny
  <2>2. CASE /\ calls' = [calls EXCEPT ![c].pc = "sent", ![c].target = config.endpoint,
                                       ![c].sentGen = config.gen]
             /\ loop' = None
    <3> DEFINE next == [rec EXCEPT !.pc = "sent", !.target = config.endpoint,
                                   !.sentGen = config.gen]
    <3>1. config.endpoint \in Urls /\ config.gen \in Nat
      BY <1>1 DEF Config
    <3>2. next \in Call
      BY <1>1, <3>1 DEF Call, CallPcs
    <3>3. rec.born \notin Dead /\ next.born = rec.born
      BY <1>1, <1>9 DEF SendUpstream, GoodCall, rec, Call
    <3>4. GoodCall(next)
      BY <3>3 DEF GoodCall
    <3>5. calls' = [calls EXCEPT ![c] = next]
      BY <2>2 DEF rec
    <3> HIDE DEF next
    <3> QED
      BY <1>3, <1>9, <2>2, <3>2, <3>4, <3>5 DEF SendUpstream
  <2> QED
    BY <1>9, <2>1, <2>2 DEF SendUpstream
<1>10. ASSUME UpstreamAnswers(c) \/ UpstreamFails(c) \/ ClientDisconnects(c) PROVE Inv'
  <2>1. UNCHANGED storeVars /\ (EndCall(c, "done") \/ EndCall(c, "failed"))
    BY <1>10 DEF UpstreamAnswers, UpstreamFails, ClientDisconnects
  <2>2. UNCHANGED <<config, operations, tokens, permissions, env, matcher, loop>>
    BY <2>1 DEF storeVars
  <2> QED
    BY <1>4, <2>1, <2>2
<1> QED
  BY <1>5, <1>6, <1>7, <1>8, <1>9, <1>10 DEF CallNext, CallArrives, CallStep

-------------------------------------------------------------------------------
(* The clock and restarts.                                                 *)

LEMMA TickInv ==
    ASSUME Inv, Tick
    PROVE  Inv' /\ UNCHANGED [t \in Tokens |-> tokens[t].state]
<1>1. PICK t \in Tokens : Expire(t)
  BY DEF Tick
<1>2. UNCHANGED <<config, operations, permissions, env, loop, matcher,
                  tokenCalls, puts, jobs, calls, restarts>>
  BY <1>1 DEF Tick, Expire, handlerVars
<1>3. /\ tokens \in [Tokens -> [state : TokenStates, expiry : Expiries]]
      /\ tokens' = [tokens EXCEPT ![t].expiry = "past"]
  BY <1>1 DEF Expire, Inv, TypeOK, StoreTypeOK
<1>4. /\ tokens' \in [Tokens -> [state : TokenStates, expiry : Expiries]]
      /\ \A u \in Tokens : tokens'[u].state = tokens[u].state
  BY <1>3
<1>5. TypeOK'
  BY <1>2, <1>4 DEF Inv, TypeOK, StoreTypeOK, TokenApiTypeOK, BackendConfigTypeOK,
                    SchemaSyncTypeOK, ProxyGateTypeOK
<1>6. ConfigInv' /\ PutInv' /\ JobInv' /\ CatalogFromOneSpec'
  BY <1>2 DEF Inv, ConfigInv, PutInv, JobInv, CatalogFromOneSpec, Configured, ActiveOps
<1>7. TokenCallInv'
  BY <1>2, <1>4 DEF Inv, TokenCallInv, TypeOK, TokenApiTypeOK, TokenCall
<1>8. CallInv'
  BY <1>2, <1>4 DEF Inv, CallInv
<1> QED
  BY <1>4, <1>5, <1>6, <1>7, <1>8 DEF Inv

(* A process that died has left no handler between two steps.              *)
LEMMA LostHandlers ==
    ASSUME Inv, LoseTokenCalls, LosePuts, LoseJobs, LoseCalls, UNCHANGED tokens
    PROVE  /\ (TokenApiTypeOK /\ BackendConfigTypeOK /\ SchemaSyncTypeOK /\ ProxyGateTypeOK)'
           /\ TokenCallInv' /\ PutInv' /\ JobInv' /\ CallInv'
<1>1. TokenApiTypeOK' /\ TokenCallInv'
  <2>1. tokenCalls \in [TokenCalls -> TokenCall]
    BY DEF Inv, TypeOK, TokenApiTypeOK
  <2>2. IdleTokenCall("failed") \in TokenCall /\ IdleTokenCall("failed").pc = "failed"
    BY IdleTokenCallType DEF IdleTokenCall
  <2>3. \A c \in TokenCalls :
          tokenCalls'[c] \in TokenCall /\ tokenCalls'[c].pc \in {"new"} \cup Ended
    BY <2>1, <2>2 DEF LoseTokenCalls
  <2>4. tokenCalls' \in [TokenCalls -> TokenCall]
    BY <2>3 DEF LoseTokenCalls
  <2> QED
    BY <2>3, <2>4 DEF TokenApiTypeOK, TokenCallInv
<1>2. BackendConfigTypeOK' /\ PutInv'
  <2>1. puts \in [Puts -> Put]
    BY DEF Inv, TypeOK, BackendConfigTypeOK
  <2>2. \A p \in Puts : puts'[p] \in Put /\ puts'[p].pc # "write"
    BY <2>1, IdlePutType DEF LosePuts
  <2>3. puts' \in [Puts -> Put]
    BY <2>2 DEF LosePuts
  <2> QED
    BY <2>2, <2>3 DEF BackendConfigTypeOK, PutInv
<1>3. SchemaSyncTypeOK' /\ JobInv'
  <2>1. jobs \in [Jobs -> Job] /\ \A j \in Jobs : GoodJob(jobs[j])
    BY DEF Inv, TypeOK, SchemaSyncTypeOK, JobInv, GoodJob
  <2>2. \A j \in Jobs : jobs'[j] \in Job /\ GoodJob(jobs'[j])
    BY <2>1, IdleJobType DEF LoseJobs
  <2>3. jobs' \in [Jobs -> Job]
    BY <2>2 DEF LoseJobs
  <2> QED
    BY <2>2, <2>3 DEF SchemaSyncTypeOK, JobInv, GoodJob
<1>4. ProxyGateTypeOK' /\ CallInv'
  <2>1. calls \in [Calls -> Call] /\ \A c \in Calls : GoodCall(calls[c])
    BY DEF Inv, TypeOK, ProxyGateTypeOK, CallInv, GoodCall
  <2>2. \A c \in Calls : calls'[c] \in Call /\ GoodCall(calls'[c])
    BY <2>1, IdleCallType DEF LoseCalls
  <2>3. calls' \in [Calls -> Call]
    BY <2>2 DEF LoseCalls
  <2> QED
    BY <2>2, <2>3 DEF ProxyGateTypeOK, CallInv, GoodCall
<1> QED
  BY <1>1, <1>2, <1>3, <1>4

LEMMA PresetsType ==
    ASSUME Inv, NEW e \in [endpoint : Urls, openapi : Urls], ApplyEnvConfigOverrides(e)
    PROVE  /\ config' \in Config
           /\ ConfigInv'
           /\ operations' \in [Ops -> OperationRow]
           /\ permissions' \subseteq Permission
           /\ CatalogFromOneSpec'
<1>1. /\ config \in Config /\ ConfigInv /\ None \notin Servers
      /\ operations \in [Ops -> OperationRow]
      /\ permissions \subseteq Permission
      /\ CatalogFromOneSpec
  BY StoreAssumption DEF Inv, TypeOK, StoreTypeOK
<1> DEFINE want == [endpoint |-> Preset(e.endpoint, config.endpoint),
                    openapi |-> Preset(e.openapi, config.openapi)]
<1>2. CASE Configured
  <2>1. want \in [endpoint : Servers, openapi : Servers]
    BY <1>1, <1>2 DEF Preset, Configured, ConfigInv, Config
  <2>2. WriteConfig(config, want)
    BY <1>2 DEF ApplyEnvConfigOverrides
  <2> HIDE DEF want
  <2> QED
    BY <1>1, <1>2, <2>1, <2>2, WriteConfigType
<1>3. CASE ~Configured
  <2>1. /\ config' = IF e.endpoint # None /\ e.openapi # None
                     THEN InsertedConfig(e) ELSE config
        /\ UNCHANGED <<operations, permissions>>
    BY <1>3 DEF ApplyEnvConfigOverrides
  <2>2. config' \in Config /\ ConfigInv'
    BY <1>1, <2>1, InsertedConfigType DEF ConfigInv
  <2>3. CatalogFromOneSpec'
    BY <1>1, <2>1 DEF CatalogFromOneSpec, ActiveOps
  <2> QED
    BY <1>1, <2>1, <2>2, <2>3
<1> QED
  BY <1>2, <1>3

LEMMA RestartInv ==
    ASSUME Inv, NEW e \in Presets, Restart(e)
    PROVE  Inv'
<1>1. e \in [endpoint : Urls, openapi : Urls]
  BY ScopeProxyAssumption
<1>2. /\ (TokenApiTypeOK /\ BackendConfigTypeOK /\ SchemaSyncTypeOK /\ ProxyGateTypeOK)'
      /\ TokenCallInv' /\ PutInv' /\ JobInv' /\ CallInv'
  BY LostHandlers DEF Restart
<1>3. /\ config' \in Config /\ ConfigInv'
      /\ operations' \in [Ops -> OperationRow]
      /\ permissions' \subseteq Permission
      /\ CatalogFromOneSpec'
  BY <1>1, PresetsType DEF Restart
<1>4. restarts' \in 0 .. MaxRestarts
  BY ScopeProxyAssumption DEF Inv, TypeOK, Restart
<1>5. matcher' \in [key : SUBSET Ops, wins : SUBSET Ops]
  BY DEF Restart, NoMatcher
<1>6. TypeOK'
  BY <1>1, <1>2, <1>3, <1>4, <1>5 DEF Inv, TypeOK, StoreTypeOK, Restart
<1> QED
  BY <1>2, <1>3, <1>6 DEF Inv

-------------------------------------------------------------------------------
(* Inv is inductive.                                                       *)

LEMMA StutterInv ==
    ASSUME Inv, UNCHANGED vars
    PROVE  Inv'
<1>1. UNCHANGED <<config, operations, tokens, permissions, env, loop, matcher,
                  tokenCalls, puts, jobs, calls, restarts>>
  BY DEF vars, storeVars, handlerVars
<1> QED
  BY <1>1 DEF Inv, TypeOK, StoreTypeOK, TokenApiTypeOK, BackendConfigTypeOK,
              SchemaSyncTypeOK, ProxyGateTypeOK, ConfigInv, TokenCallInv, PutInv, JobInv,
              CallInv, CatalogFromOneSpec, Configured, ActiveOps

LEMMA NextInv == Inv /\ [Next]_vars => Inv'
<1> SUFFICES ASSUME Inv, [Next]_vars PROVE Inv'
  OBVIOUS
<1>1. CASE Next
  BY <1>1, TokenCallNextInv, PutNextInv, JobNextInv, CallNextInv, TickInv, RestartInv DEF Next
<1>2. CASE UNCHANGED vars
  BY <1>2, StutterInv
<1> QED
  BY <1>1, <1>2

THEOREM SpecInv == Spec => []Inv
BY InitInv, NextInv, PTL DEF Spec

(* Every variable keeps its type, for any number of operations, tokens,    *)
(* servers, requests and restarts.                                         *)
THEOREM TypeCorrect == Spec => []TypeOK
<1>1. Inv => TypeOK
  BY DEF Inv
<1> QED
  BY <1>1, SpecInv, PTL

(* The active operations always come from one document: sync_operations,   *)
(* the wipes that run between its lookups, and crashes never mix two.      *)
THEOREM CatalogCorrect == Spec => []CatalogFromOneSpec
<1>1. Inv => CatalogFromOneSpec
  BY DEF Inv
<1> QED
  BY <1>1, SpecInv, PTL

(* A request that arrives with a revoked or deleted token is never sent    *)
(* upstream, whatever updates of that token are still in flight.           *)
THEOREM RevokedNeverForwards == Spec => []NoForwardAfterRevocation
<1>1. Inv => NoForwardAfterRevocation
  BY DEF Inv, CallInv, NoForwardAfterRevocation, Dead
<1> QED
  BY <1>1, SpecInv, PTL

(* Every step of the program is a step of TokenLifecycle or leaves every   *)
(* token's life as it is: a token is issued once, revoked at most once,    *)
(* deleted only after that, and no stale update brings it back.            *)
THEOREM LifecycleRefinement == Spec => ImplementsLifecycle
<1> DEFINE L == [t \in Tokens |-> tokens[t].state]
<1>1. Init => Life!Init
  <2> SUFFICES ASSUME Init PROVE L \in [Tokens -> {"unused", "live"}]
    BY DEF Life!Init
  <2>1. \A t \in Tokens : tokens[t].state \in {"unused", "live"}
    <3>1. CASE NewInstallation
      BY <3>1 DEF NewInstallation
    <3>2. CASE RunningInstallation
      <4>1. PICK issued \in SUBSET Tokens : tokens = [t \in Tokens |->
              [state |-> IF t \in issued THEN "live" ELSE "unused", expiry |-> "never"]]
        BY <3>2 DEF RunningInstallation
      <4> QED
        BY <4>1
    <3> QED
      BY <3>1, <3>2 DEF Init, StoreInit
  <2> QED
    BY <2>1
<1>2. Inv /\ [Next]_vars => [Life!Next]_L
  <2> SUFFICES ASSUME Inv, [Next]_vars PROVE Life!Next \/ UNCHANGED L
    OBVIOUS
  <2>1. ASSUME UNCHANGED tokens PROVE UNCHANGED L
    BY <2>1
  <2>2. ASSUME NEW c \in TokenCalls, TokenCallNext(c) PROVE Life!Next \/ UNCHANGED L
    BY <2>2, TokenCallStepEffect DEF TokenCallEffect
  <2>3. ASSUME NEW p \in Puts, PutNext(p) PROVE UNCHANGED tokens
    BY <2>3 DEF PutNext, PutArrives, PutStep, ReadForUpsert, CommitUpsert, CommitInsert, storeVars
  <2>4. ASSUME NEW j \in Jobs, JobNext(j) PROVE UNCHANGED tokens
    BY <2>4 DEF JobNext, StartRefresh, JobStep, FetchEnds, FetchFails, FetchReturns, LookUpClean,
                LookUpDirty, SelectRemoved, CommitSync, CommitRemoved, CommitSuccess,
                FlushFails, storeVars
  <2>5. ASSUME NEW c \in Calls, CallNext(c) PROVE UNCHANGED tokens
    BY <2>5 DEF CallNext, CallArrives, Arrive, CallStep, Authenticate, ResolveOperation,
                EnsurePermission, SendUpstream, UpstreamAnswers, UpstreamFails,
                ClientDisconnects, storeVars
  <2>6. ASSUME Tick PROVE UNCHANGED L
    BY <2>6, TickInv
  <2>7. ASSUME NEW e \in Presets, Restart(e) PROVE UNCHANGED tokens
    BY <2>7 DEF Restart
  <2>8. ASSUME UNCHANGED vars PROVE UNCHANGED tokens
    BY <2>8 DEF vars, storeVars
  <2> HIDE DEF L
  <2> QED
    BY <2>1, <2>2, <2>3, <2>4, <2>5, <2>6, <2>7, <2>8 DEF Next
<1> QED
  BY <1>1, <1>2, SpecInv, PTL DEF Spec, ImplementsLifecycle, Life!Spec

(* An UPDATE that changes the stored pair was meant for another pair than  *)
(* the one it read, so it is part of a transaction that wipes.             *)
LEMMA ChangedPairWipes ==
    ASSUME config \in Config, NEW seen \in Config,
           NEW want \in [endpoint : Urls, openapi : Urls], WriteConfig(seen, want),
           PairOf(config') # PairOf(config)
    PROVE  operations' = Wiped /\ permissions' = {}
<1>1. PairOf(want) # PairOf(seen)
  <2> SUFFICES ASSUME PairOf(want) = PairOf(seen) PROVE FALSE
    OBVIOUS
  <2>1. want.endpoint = seen.endpoint /\ want.openapi = seen.openapi
    BY DEF PairOf
  <2>2. config'.endpoint = config.endpoint /\ config'.openapi = config.openapi
    BY <2>1 DEF WriteConfig, UpdatedConfig
  <2> QED
    BY <2>2 DEF PairOf
<1> QED
  BY <1>1 DEF WriteConfig, ResetOperationsAndPermissions

(* A configured backend is never replaced without the wipe of operations   *)
(* and permissions in the same transaction, by however many PUTs that read *)
(* each other's past, and by a restart with other presets.                 *)
THEOREM SwitchIsAtomic == Spec => SwitchWipes
<1> DEFINE Switched == Configured /\ PairOf(config') # PairOf(config)
           WipedNow == operations' = Wiped /\ permissions' = {}
<1>1. Inv /\ [Next]_vars => (Switched => WipedNow)
  <2> SUFFICES ASSUME Inv, [Next]_vars, Switched PROVE WipedNow
    OBVIOUS
  <2>1. config \in Config /\ ConfigInv /\ None \notin Servers
    BY StoreAssumption DEF Inv, TypeOK, StoreTypeOK
  <2>2. config' # config
    OBVIOUS
  <2>3. ASSUME NEW c \in TokenCalls, TokenCallNext(c) PROVE FALSE
    BY <2>2, <2>3, TokenCallFrame
  <2>4. ASSUME NEW p \in Puts, PutNext(p) PROVE WipedNow
    <3>1. /\ puts[p].seen \in Config
          /\ puts[p].pc = "write" => puts[p].want \in [endpoint : Urls, openapi : Urls]
      BY DEF Inv, TypeOK, BackendConfigTypeOK, Put, PutInv
    <3>2. CASE \E pair \in PutPairs : ReadForUpsert(p, pair)
      BY <2>2, <3>2 DEF ReadForUpsert, storeVars
    <3>3. CASE CommitUpsert(p)
      BY <2>1, <3>1, <3>3, ChangedPairWipes DEF CommitUpsert
    <3>4. CASE CommitInsert(p)
      BY <2>2, <3>4 DEF CommitInsert
    <3> QED
      BY <2>4, <3>2, <3>3, <3>4 DEF PutNext, PutArrives, PutStep
  <2>5. ASSUME NEW j \in Jobs, JobNext(j) PROVE FALSE
    <3>1. CASE config' = Recorded(j, "error", config.fetched)
      BY <2>1, <3>1, RecordedType DEF Config
    <3>2. CASE config' = Recorded(j, "success", TRUE)
      BY <3>2, RecordedType
    <3>3. CASE UNCHANGED config
      BY <2>2, <3>3
    <3> QED
      BY <2>5, <3>1, <3>2, <3>3
         DEF JobNext, StartRefresh, JobStep, FetchEnds, FetchFails, FetchReturns, LookUpClean,
             LookUpDirty, SelectRemoved, CommitSync, CommitRemoved, CommitSuccess,
             FlushFails, storeVars
  <2>6. ASSUME NEW c \in Calls, CallNext(c) PROVE FALSE
    BY <2>2, <2>6 DEF CallNext, CallArrives, Arrive, CallStep, Authenticate, ResolveOperation,
                EnsurePermission, SendUpstream, UpstreamAnswers, UpstreamFails,
                ClientDisconnects, storeVars
  <2>7. ASSUME Tick PROVE FALSE
    BY <2>2, <2>7 DEF Tick, Expire
  <2>8. ASSUME NEW e \in Presets, Restart(e) PROVE WipedNow
    <3> DEFINE want == [endpoint |-> Preset(e.endpoint, config.endpoint),
                        openapi |-> Preset(e.openapi, config.openapi)]
    <3>1. want \in [endpoint : Urls, openapi : Urls]
      BY <2>1, ScopeProxyAssumption DEF Preset, Config
    <3>2. WriteConfig(config, want)
      BY <2>8 DEF Restart, ApplyEnvConfigOverrides
    <3> HIDE DEF want
    <3> QED
      BY <2>1, <3>1, <3>2, ChangedPairWipes
  <2>9. ASSUME UNCHANGED vars PROVE FALSE
    BY <2>2, <2>9 DEF vars, storeVars
  <2> HIDE DEF Switched, WipedNow
  <2> QED
    BY <2>3, <2>4, <2>5, <2>6, <2>7, <2>8, <2>9 DEF Next
<1> QED
  BY <1>1, SpecInv, PTL DEF Spec, SwitchWipes
=============================================================================
