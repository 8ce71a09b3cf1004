----------------------------- MODULE OneTabProofs -----------------------------
(***************************************************************************)
(* Proofs about ScopeProxy for an administrator who waits for each answer  *)
(* before the next request (OneTab), while refreshes, proxied requests,    *)
(* the clock and restarts go on as they like.                              *)
(*                                                                         *)
(* The argument is a second inductive invariant, TabInv, over Inv.  Its    *)
(* parts RowIdsUnique, LoopInv and GenInv need no OneTab; from OneAtATime, *)
(* that no two of the administrator's requests are in flight, follows that *)
(* what a request has read is still so when it writes (EditInv, PutRead),  *)
(* and from that what is in the tables (GrantInv) and what a refresh knows *)
(* of them (SyncInv).                                                      *)
(***************************************************************************)
EXTENDS ScopeProxyProofs

USE DEF Ended, RowIds, Urls, TokenStates, Expiries, RowEdits

Busy(c) == tokenCalls[c].pc \notin {"new"} \cup Ended
Writing(p) == puts[p].pc = "write"

(* The primary key of token_permissions.                                   *)
RowIdsUnique == \A r, q \in permissions : r.id = q.id => r = q

(* The steps between two awaits.                                           *)
Syncing(j) == jobs[j].pc \in {"read", "scan", "flush", "finish"}
Checking(c) == calls[c].pc \in {"resolve", "permission", "config"}

(* One coroutine runs at a time.                                           *)
LoopInv ==
    /\ \A j \in Jobs : Syncing(j) => loop = j
    /\ \A c \in Calls : Checking(c) => loop = c
    /\ \A j \in Jobs, c \in Calls : ~(Syncing(j) /\ Checking(c))

(* The switches are counted from the first row on, and no refresh is ahead *)
(* of the count.                                                           *)
GenInv ==
    /\ ~Configured => config.gen = 0
    /\ \A j \in Jobs : Syncing(j) => jobs[j].gen <= config.gen

OneAtATime ==
    /\ \A c, d \in TokenCalls : Busy(c) /\ Busy(d) => c = d
    /\ \A p, q \in Puts : Writing(p) /\ Writing(q) => p = q
    /\ \A c \in TokenCalls, p \in Puts : ~(Busy(c) /\ Writing(p))

(* What the record of a token call in flight says is still so: its backend *)
(* is the configured one, the token it edits exists, the rows it has seen  *)
(* are the token's rows, and the operations it is to grant are a list that *)
(* a payload may hold.                                                     *)
GoodEdit(rec) ==
    /\ rec.pc \notin {"new"} \cup Ended => rec.gen = config.gen
    /\ rec.pc \in {"created", "select", "apply", "row"} => Exists(rec.token)
    /\ rec.pc \in {"created", "select", "apply"} => rec.regrant
    /\ rec.pc \in {"created", "select", "apply", "row"} /\ rec.regrant => rec.ops \in OpLists
    /\ rec.pc \in {"apply", "purge"} => rec.seen = IdsOf(RowsOf(rec.token))

EditInv == \A c \in TokenCalls : GoodEdit(tokenCalls[c])

(* The URLs a PUT has read are the stored ones.                            *)
PutRead == \A p \in Puts : Writing(p) => PairOf(puts[p].seen) = PairOf(config)

GrantInv == NoOrphanGrants /\ GrantsOfCurrentBackend

(* A refresh that runs on the backend it began with: what it has looked up *)
(* is active, and what it is about to deactivate is exactly what its       *)
(* document lacks.                                                         *)
GoodSync(rec) ==
    rec.gen = config.gen =>
        /\ rec.pc \in {"read", "flush"} => rec.spec \subseteq rec.todo \cup ActiveOps
        /\ rec.pc \in {"scan", "finish"} => rec.spec \subseteq ActiveOps
        /\ rec.pc = "finish" => rec.pending = ActiveOps \ rec.spec

SyncInv == \A j \in Jobs : GoodSync(jobs[j])

TabInv ==
    /\ RowIdsUnique
    /\ LoopInv
    /\ GenInv
    /\ OneAtATime
    /\ EditInv
    /\ PutRead
    /\ GrantInv
    /\ SyncInv

-------------------------------------------------------------------------------
(* Lemmas about the operators of the model.                                *)

(* The keys of a batch of INSERTs are new, and no two are the same.        *)
LEMMA FreshIdsFresh ==
    ASSUME NEW S, NEW used, NEW f \in FreshIds(S, used)
    PROVE  /\ f \in [S -> RowIds]
           /\ \A x, y \in S : f[x] = f[y] => x = y
           /\ used \subseteq Nat => \A x \in S : f[x] \notin used
BY DEF FreshIds

(* _set_permissions after a SELECT of exactly the token's rows replaces    *)
(* that token's grants by the payload's and leaves every other token's     *)
(* rows alone.                                                             *)
LEMMA SetPermissionsEffect ==
    ASSUME Inv, RowIdsUnique, NEW c \in TokenCalls, NEW t \in Tokens,
           tokenCalls[c].token = t, SetPermissions(c, IdsOf(RowsOf(t)))
    PROVE  /\ RowIdsUnique'
           /\ \A r \in permissions' : r \in permissions \/ r.gen = tokenCalls[c].gen
           /\ \A r \in permissions' : r \in permissions \/ r.token = t
           /\ GrantedOps(t)' = tokenCalls[c].ops
           /\ \A u \in Tokens \ {t} : RowsOf(u)' = RowsOf(u)
<1> DEFINE S == tokenCalls[c].ops
           g == tokenCalls[c].gen
           kept == {r \in permissions : r.id \notin IdsOf(RowsOf(t))}
<1>1. PICK f \in FreshIds(S, IdsOf(permissions)) :
        permissions' =
            {r \in permissions \cup {[id |-> f[o], token |-> t, op |-> o, gen |-> g] : o \in S} :
             r.id \notin IdsOf(RowsOf(t))}
  BY DEF SetPermissions
<1>2. permissions \subseteq Permission
  BY DEF Inv, TypeOK, StoreTypeOK
<1>3. IdsOf(permissions) \subseteq Nat
  BY <1>2 DEF IdsOf, Permission
<1>4. /\ \A x, y \in S : f[x] = f[y] => x = y
      /\ \A x \in S : f[x] \notin IdsOf(permissions)
  BY <1>3, FreshIdsFresh
<1>5. kept = {r \in permissions : r.token # t}
  BY DEF RowIdsUnique, IdsOf, RowsOf
<1> DEFINE new(o) == [id |-> f[o], token |-> t, op |-> o, gen |-> g]
<1>6. \A o \in S : new(o).id = f[o] /\ new(o).token = t /\ new(o).op = o /\ new(o).gen = g
  OBVIOUS
<1>7. permissions' = kept \cup {new(o) : o \in S}
  <2>1. IdsOf(RowsOf(t)) \subseteq IdsOf(permissions)
    BY DEF IdsOf, RowsOf
  <2>2. \A o \in S : new(o).id \notin IdsOf(RowsOf(t))
    BY <1>4, <1>6, <2>1
  <2> QED
    BY <1>1, <2>2
<1> HIDE DEF new, kept
<1>8. RowIdsUnique'
  <2> SUFFICES ASSUME NEW r \in permissions', NEW q \in permissions', r.id = q.id
               PROVE  r = q
    BY DEF RowIdsUnique
  <2>1. CASE r \in kept /\ q \in kept
    BY <1>5, <2>1 DEF RowIdsUnique
  <2>2. ASSUME NEW o \in S, NEW x \in kept PROVE new(o).id # x.id
    BY <1>4, <1>5, <1>6 DEF IdsOf
  <2>3. ASSUME NEW o \in S, NEW p \in S, new(o).id = new(p).id PROVE new(o) = new(p)
    BY <1>4, <1>6, <2>3
  <2> QED
    BY <1>7, <2>1, <2>2, <2>3
<1>9. GrantedOps(t)' = S
  BY <1>5, <1>7, <1>6 DEF GrantedOps, RowsOf
<1>10. \A u \in Tokens \ {t} : RowsOf(u)' = RowsOf(u)
  BY <1>5, <1>7, <1>6 DEF RowsOf
<1> QED
  BY <1>5, <1>7, <1>6, <1>8, <1>9, <1>10

-------------------------------------------------------------------------------
(* The initial states.                                                     *)

LEMMA TabInit == Init => TabInv
<1> SUFFICES ASSUME Init PROVE TabInv
  OBVIOUS
<1> USE DEF Init, StoreInit
<1>1. /\ \A c \in TokenCalls : tokenCalls[c].pc = "new"
      /\ \A p \in Puts : puts[p].pc = "new"
      /\ \A j \in Jobs : jobs[j].pc = "new"
      /\ \A c \in Calls : calls[c].pc = "new"
  BY DEF TokenApiInit, IdleTokenCall, BackendConfigInit, IdlePut, SchemaSyncInit, IdleJob,
         JobAt, ProxyGateInit, IdleCall, CallAt
<1>2. LoopInv /\ OneAtATime /\ EditInv /\ PutRead /\ SyncInv
  BY <1>1 DEF LoopInv, Syncing, Checking, OneAtATime, Busy, Writing, EditInv, GoodEdit, PutRead,
              SyncInv, GoodSync
<1>3. config.gen = 0
  BY DEF NewInstallation, RunningInstallation, Unconfigured, Saved
<1>4. GenInv
  BY <1>1, <1>3 DEF GenInv, Syncing
<1>5. RowIdsUnique /\ GrantInv
  <2>1. CASE NewInstallation
    BY <2>1 DEF NewInstallation, RowIdsUnique, GrantInv, NoOrphanGrants, GrantsOfCurrentBackend
  <2>2. CASE RunningInstallation
    <3>1. PICK s \in Servers, issued \in SUBSET Tokens : \E spec \in SpecsOf[s] :
            \E P \in SUBSET (issued \X spec) :
              /\ config = Saved(s)
              /\ operations =
                   [o \in Ops |-> IF o \in spec THEN [row |-> 1, active |-> TRUE] ELSE AbsentRow]
              /\ tokens = [t \in Tokens |->
                   [state |-> IF t \in issued THEN "live" ELSE "unused", expiry |-> "never"]]
              /\ \E f \in FreshIds(P, {}) :
                   permissions = {[id |-> f[p], token |-> p[1], op |-> p[2], gen |-> 0] : p \in P}
      BY <2>2 DEF RunningInstallation
    <3>2. PICK spec \in SpecsOf[s] : \E P \in SUBSET (issued \X spec) : \E f \in FreshIds(P, {}) :
            permissions = {[id |-> f[p], token |-> p[1], op |-> p[2], gen |-> 0] : p \in P}
      BY <3>1
    <3> PICK P \in SUBSET (issued \X spec) : \E f \in FreshIds(P, {}) :
            permissions = {[id |-> f[p], token |-> p[1], op |-> p[2], gen |-> 0] : p \in P}
      BY <3>2
    <3> PICK f \in FreshIds(P, {}) :
            permissions = {[id |-> f[p], token |-> p[1], op |-> p[2], gen |-> 0] : p \in P}
      OBVIOUS
    <3>3. \A x, y \in P : f[x] = f[y] => x = y
      BY FreshIdsFresh
    <3>4. RowIdsUnique
      BY <3>3 DEF RowIdsUnique
    <3>5. \A r \in permissions : r.token \in issued /\ r.gen = 0
      OBVIOUS
    <3>6. NoOrphanGrants
      BY <3>1, <3>5 DEF NoOrphanGrants, Exists
    <3> QED
      BY <1>3, <3>4, <3>5, <3>6 DEF GrantInv, GrantsOfCurrentBackend
  <2> QED
    BY <2>1, <2>2
<1> QED
  BY <1>2, <1>4, <1>5 DEF TabInv

-------------------------------------------------------------------------------
(* Token calls.                                                            *)

(* The two ways in which a step may change what is granted: one token gets *)
(* a list that a payload may hold, or nothing, or everything is cleared.   *)
GrantStep ==
    \/ UNCHANGED permissions
    \/ permissions' = {}
    \/ \E t \in Tokens, S \in OpLists \cup {{}} :
          /\ GrantedOps(t)' = S
          /\ \A u \in Tokens \ {t} : RowsOf(u)' = RowsOf(u)

(* The step of PatchTakesEffect.                                           *)
PatchStep ==
    \A c \in TokenCalls :
        /\ tokenCalls[c].pc \in {"apply", "row"}
        /\ tokenCalls'[c].pc = "done"
        /\ tokenCalls[c].regrant
        => tokenCalls[c].ops =
             {r.op : r \in {q \in permissions' : q.token = tokenCalls[c].token}}

Alone(c) ==
    /\ \A d \in TokenCalls \ {c} : ~Busy(d)
    /\ \A p \in Puts : ~Writing(p)

(* A token call that arrives or goes on is the only request in flight.     *)
LEMMA TokenCallAlone ==
    ASSUME OneTab, Inv, OneAtATime, NEW c \in TokenCalls, TokenCallNext(c)
    PROVE  Alone(c)
<1>1. CASE AdminMaySend
  BY <1>1 DEF Alone, AdminMaySend, Busy, Writing
<1>2. CASE TokenCallStep(c)
  <2>1. Busy(c)
    BY <1>2 DEF Busy, TokenCallStep, RefreshCreated, SelectPermissions, CommitPermissions,
                CommitRow, CommitRevocation, SelectPurged, CommitDeletion
  <2> QED
    BY <2>1 DEF OneAtATime, Alone
<1> QED
  BY <1>1, <1>2 DEF TokenCallNext

(* The record of the only request in flight is replaced by a good one.     *)
LEMMA EditRecord ==
    ASSUME Inv, NEW c \in TokenCalls, Alone(c), NEW rec,
           tokenCalls' = [tokenCalls EXCEPT ![c] = rec], puts' = puts,
           rec.pc \notin {"new"} \cup Ended => rec.gen = config'.gen,
           rec.pc \in {"created", "select", "apply", "row"}
             => tokens'[rec.token].state \in {"live", "revoked"},
           rec.pc \in {"created", "select", "apply"} => rec.regrant,
           rec.pc \in {"created", "select", "apply", "row"} /\ rec.regrant => rec.ops \in OpLists,
           rec.pc \in {"apply", "purge"}
             => rec.seen = {r.id : r \in {q \in permissions' : q.token = rec.token}}
    PROVE  OneAtATime' /\ EditInv'
<1>1. tokenCalls \in [TokenCalls -> TokenCall]
  BY DEF Inv, TypeOK, TokenApiTypeOK
<1>2. tokenCalls'[c] = rec /\ \A d \in TokenCalls \ {c} : tokenCalls'[d] = tokenCalls[d]
  BY <1>1
<1>3. \A d \in TokenCalls \ {c} : tokenCalls'[d].pc \in {"new"} \cup Ended
  BY <1>2 DEF Alone, Busy
<1>4. OneAtATime'
  BY <1>3 DEF OneAtATime, Alone, Busy, Writing
<1>5. EditInv'
  <2> SUFFICES ASSUME NEW d \in TokenCalls PROVE GoodEdit(tokenCalls[d])'
    BY DEF EditInv
  <2>1. CASE d = c
    BY <1>2, <2>1 DEF GoodEdit, Exists, IdsOf, RowsOf
  <2>2. CASE d # c
    BY <1>3, <2>2 DEF GoodEdit
  <2> QED
    BY <2>1, <2>2
<1> QED
  BY <1>4, <1>5

LEMMA EditEnds ==
    ASSUME Inv, NEW c \in TokenCalls, Alone(c), NEW pc \in Ended, End(c, pc), puts' = puts
    PROVE  OneAtATime' /\ EditInv'
<1>1. IdleTokenCall(pc).pc = pc
  BY DEF IdleTokenCall
<1> QED
  BY <1>1, EditRecord DEF End

(* Only the token call that moves can have been committed by the step.     *)
LEMMA PatchOnlyBy ==
    ASSUME Inv, NEW c \in TokenCalls, NEW rec, tokenCalls' = [tokenCalls EXCEPT ![c] = rec],
           /\ tokenCalls[c].pc \in {"apply", "row"}
           /\ rec.pc = "done"
           /\ tokenCalls[c].regrant
           => tokenCalls[c].ops =
                {r.op : r \in {q \in permissions' : q.token = tokenCalls[c].token}}
    PROVE  PatchStep
<1>1. tokenCalls \in [TokenCalls -> TokenCall]
  BY DEF Inv, TypeOK, TokenApiTypeOK
<1>2. tokenCalls'[c] = rec /\ \A d \in TokenCalls \ {c} : tokenCalls'[d] = tokenCalls[d]
  BY <1>1
<1> QED
  BY <1>2 DEF PatchStep

TabEffect ==
    /\ RowIdsUnique' /\ OneAtATime' /\ EditInv' /\ GrantInv'
    /\ GrantStep /\ PatchStep

(* A step that grants nothing and takes no token away.                     *)
LEMMA EditKeepsGrants ==
    ASSUME Inv, TabInv, NEW c \in TokenCalls, NEW rec,
           tokenCalls' = [tokenCalls EXCEPT ![c] = rec],
           tokenCalls[c].pc \in {"apply", "row"} /\ rec.pc = "done" => ~tokenCalls[c].regrant,
           permissions' = permissions, config' = config,
           \A t \in Tokens : tokens[t].state \in {"live", "revoked"}
                               => tokens'[t].state \in {"live", "revoked"},
           OneAtATime', EditInv'
    PROVE  TabEffect
<1>1. PatchStep
  BY PatchOnlyBy
<1>2. RowIdsUnique'
  BY DEF TabInv, RowIdsUnique
<1>3. GrantInv'
  <2>1. \A r \in permissions : r.token \in Tokens
    BY DEF Inv, TypeOK, StoreTypeOK, Permission
  <2> QED
    BY <2>1 DEF TabInv, GrantInv, NoOrphanGrants, GrantsOfCurrentBackend, Exists
<1> QED
  BY <1>1, <1>2, <1>3 DEF TabEffect, GrantStep

(* The same for a call that ends.                                          *)
LEMMA EndKeepsGrants ==
    ASSUME Inv, TabInv, NEW c \in TokenCalls, Alone(c), NEW pc \in Ended, End(c, pc),
           puts' = puts, permissions' = permissions, config' = config,
           \A t \in Tokens : tokens[t].state \in {"live", "revoked"}
                               => tokens'[t].state \in {"live", "revoked"},
           tokenCalls[c].pc \in {"apply", "row"} /\ pc = "done" => ~tokenCalls[c].regrant
    PROVE  TabEffect
<1>1. IdleTokenCall(pc).pc = pc
  BY DEF IdleTokenCall
<1>2. OneAtATime' /\ EditInv'
  BY EditEnds
<1> QED
  BY <1>1, <1>2, EditKeepsGrants DEF End

(* A commit of _set_permissions by the only request in flight.             *)
LEMMA RegrantEffect ==
    ASSUME Inv, TabInv, NEW c \in TokenCalls, Alone(c), NEW t \in Tokens,
           tokenCalls[c].token = t, tokenCalls[c].pc \in {"apply", "row"}, tokenCalls[c].regrant,
           SetPermissions(c, IdsOf(RowsOf(t))), End(c, "done"), puts' = puts, config' = config,
           \A u \in Tokens : tokens'[u].state = tokens[u].state
    PROVE  TabEffect
<1>1. GoodEdit(tokenCalls[c]) /\ RowIdsUnique /\ GrantInv
  BY DEF TabInv, EditInv
<1>2. /\ RowIdsUnique'
      /\ \A r \in permissions' : r \in permissions \/ r.gen = tokenCalls[c].gen
      /\ \A r \in permissions' : r \in permissions \/ r.token = t
      /\ GrantedOps(t)' = tokenCalls[c].ops
      /\ \A u \in Tokens \ {t} : RowsOf(u)' = RowsOf(u)
  BY <1>1, SetPermissionsEffect
<1>3. OneAtATime' /\ EditInv'
  BY EditEnds
<1>4. tokenCalls[c].gen = config.gen /\ tokenCalls[c].ops \in OpLists /\ Exists(t)
  BY <1>1 DEF GoodEdit
<1>5. GrantInv'
  <2>1. \A r \in permissions : r.token \in Tokens
    BY DEF Inv, TypeOK, StoreTypeOK, Permission
  <2> QED
    BY <1>1, <1>2, <1>4, <2>1 DEF GrantInv, NoOrphanGrants, GrantsOfCurrentBackend, Exists
<1>6. GrantStep
  BY <1>2, <1>4 DEF GrantStep
<1>7. PatchStep
  BY <1>2, PatchOnlyBy DEF End, GrantedOps, RowsOf
<1> QED
  BY <1>2, <1>3, <1>5, <1>6, <1>7 DEF TabEffect

LEMMA TokenCallTab ==
    ASSUME OneTab, Inv, TabInv, NEW c \in TokenCalls, TokenCallNext(c)
    PROVE  TabEffect
<1> DEFINE rec == tokenCalls[c]
           Begun(pc, t, S, regrant, edit) ==
             [pc |-> pc, token |-> t, ops |-> S, regrant |-> regrant, edit |-> edit,
              seen |-> {}, gen |-> config.gen]
<1>a. /\ Alone(c)
      /\ config' = config /\ puts' = puts
  BY TokenCallAlone, TokenCallFrame DEF TabInv
<1>b. /\ GoodEdit(rec)
      /\ rec \in TokenCall
      /\ rec.pc \notin {"new"} \cup Ended => rec.token \in Tokens
      /\ rec.pc \in {"purge_select", "purge"} => tokens[rec.token].state \in Dead
      /\ tokens \in [Tokens -> [state : TokenStates, expiry : Expiries]]
  BY DEF Inv, TypeOK, StoreTypeOK, TokenApiTypeOK, TokenCallInv, TabInv, EditInv
<1> HIDE DEF rec
<1>1. ASSUME NEW t \in Tokens, NEW S \in OpLists, NEW x \in Edits \cap Expiries,
             CreateToken(c, t, S, x)
      PROVE  TabEffect
  <2>1. /\ rec.pc = "new" /\ permissions' = permissions
        /\ tokenCalls' = [tokenCalls EXCEPT ![c] = Begun("created", t, S, TRUE, "keep")]
    BY <1>1 DEF CreateToken, Begin, rec
  <2>2. /\ tokens'[t].state = "live"
        /\ \A u \in Tokens \ {t} : tokens'[u] = tokens[u]
    BY <1>1, <1>b DEF CreateToken
  <2>3. OneAtATime' /\ EditInv'
    BY <1>a, <2>1, <2>2, EditRecord
  <2> QED
    BY <1>a, <2>1, <2>2, <2>3, EditKeepsGrants DEF rec
<1>2. ASSUME NEW t \in Tokens, NEW S \in OpLists \cup {{}}, NEW regrant \in BOOLEAN,
             NEW edit \in RowEdits, UpdateToken(c, t, S, regrant, edit),
             regrant => S \in OpLists
      PROVE  TabEffect
  <2>1. rec.pc = "new" /\ UNCHANGED <<tokens, permissions>>
    BY <1>2 DEF UpdateToken, storeVars, rec
  <2>2. CASE Exists(t) /\ Begin(c, "row", t, S, regrant, edit)
    <3>1. tokenCalls' = [tokenCalls EXCEPT ![c] = Begun("row", t, S, regrant, edit)]
      BY <2>2 DEF Begin
    <3>2. OneAtATime' /\ EditInv'
      BY <1>2, <1>a, <2>1, <2>2, <3>1, EditRecord DEF Exists
    <3> QED
      BY <1>a, <2>1, <3>1, <3>2, EditKeepsGrants DEF rec
  <2>3. CASE Exists(t) /\ regrant /\ Begin(c, "select", t, S, regrant, edit)
    <3>1. tokenCalls' = [tokenCalls EXCEPT ![c] = Begun("select", t, S, regrant, edit)]
      BY <2>3 DEF Begin
    <3>2. OneAtATime' /\ EditInv'
      BY <1>2, <1>a, <2>1, <2>3, <3>1, EditRecord DEF Exists
    <3> QED
      BY <1>a, <2>1, <3>1, <3>2, EditKeepsGrants DEF rec
  <2>4. CASE End(c, "done")
    BY <1>a, <2>1, <2>4, EndKeepsGrants DEF rec
  <2> QED
    BY <1>2, <2>2, <2>3, <2>4 DEF UpdateToken
<1>3. ASSUME NEW t \in Tokens, NEW pc \in {"revoke", "purge_select"},
             rec.pc = "new", UNCHANGED storeVars,
             Begin(c, pc, t, {}, FALSE, "keep") \/ End(c, "done")
      PROVE  TabEffect
  <2>1. UNCHANGED <<tokens, permissions>>
    BY <1>3 DEF storeVars
  <2>2. CASE Begin(c, pc, t, {}, FALSE, "keep")
    <3>1. tokenCalls' = [tokenCalls EXCEPT ![c] = Begun(pc, t, {}, FALSE, "keep")]
      BY <2>2 DEF Begin
    <3>2. OneAtATime' /\ EditInv'
      BY <1>3, <1>a, <2>1, <3>1, EditRecord
    <3> QED
      BY <1>3, <1>a, <2>1, <3>1, <3>2, EditKeepsGrants DEF rec
  <2>3. CASE End(c, "done")
    BY <1>3, <1>a, <2>1, <2>3, EndKeepsGrants DEF rec
  <2> QED
    BY <1>3, <2>2, <2>3
<1>4. ASSUME NEW t \in Tokens, RevokeToken(c, t) \/ DeleteToken(c, t)
      PROVE  TabEffect
  BY <1>3, <1>4 DEF RevokeToken, DeleteToken, rec
<1>5. ASSUME RefreshCreated(c) PROVE TabEffect
  <2>1. rec.pc = "created" /\ UNCHANGED <<tokens, permissions>>
    BY <1>5 DEF RefreshCreated, storeVars, rec
  <2>2. CASE tokenCalls' = [tokenCalls EXCEPT ![c].pc = "select"]
    <3> DEFINE next == [rec EXCEPT !.pc = "select"]
    <3>1. /\ next.pc = "select" /\ next.token = rec.token /\ next.gen = rec.gen
          /\ next.regrant = rec.regrant /\ next.ops = rec.ops
      BY <1>b DEF TokenCall
    <3>2. tokenCalls' = [tokenCalls EXCEPT ![c] = next]
      BY <2>2 DEF rec
    <3> HIDE DEF next
    <3>3. OneAtATime' /\ EditInv'
      BY <1>a, <1>b, <2>1, <3>1, <3>2, EditRecord DEF GoodEdit, Exists
    <3> QED
      BY <1>a, <2>1, <3>1, <3>2, <3>3, EditKeepsGrants
  <2>3. CASE End(c, "failed")
    BY <1>a, <2>1, <2>3, EndKeepsGrants
  <2> QED
    BY <1>5, <2>2, <2>3 DEF RefreshCreated
<1>6. ASSUME NEW pc \in {"apply", "purge"}, Select(c, pc), UNCHANGED storeVars,
             rec.pc = IF pc = "apply" THEN "select" ELSE "purge_select"
      PROVE  TabEffect
  <2> DEFINE next == [rec EXCEPT !.pc = pc, !.seen = IdsOf(RowsOf(rec.token))]
  <2>1. /\ next.pc = pc /\ next.token = rec.token /\ next.gen = rec.gen
        /\ next.regrant = rec.regrant /\ next.ops = rec.ops
        /\ next.seen = IdsOf(RowsOf(rec.token))
    BY <1>b DEF TokenCall
  <2>2. tokenCalls' = [tokenCalls EXCEPT ![c] = next]
    BY <1>6 DEF Select, rec
  <2>3. UNCHANGED <<tokens, permissions>>
    BY <1>6 DEF storeVars
  <2> HIDE DEF next
  <2>4. next.seen = {r.id : r \in {q \in permissions' : q.token = next.token}}
    BY <2>1, <2>3 DEF IdsOf, RowsOf
  <2>5. OneAtATime' /\ EditInv'
    BY <1>6, <1>a, <1>b, <2>1, <2>2, <2>3, <2>4, EditRecord DEF GoodEdit, Exists
  <2> QED
    BY <1>6, <1>a, <2>1, <2>2, <2>3, <2>5, EditKeepsGrants DEF rec
<1>7. ASSUME SelectPermissions(c) \/ SelectPurged(c) PROVE TabEffect
  BY <1>6, <1>7 DEF SelectPermissions, SelectPurged, rec
<1>8. ASSUME CommitPermissions(c) PROVE TabEffect
  <2>1. /\ rec.pc = "apply" /\ SetPermissions(c, rec.seen) /\ End(c, "done")
        /\ UNCHANGED tokens
    BY <1>8 DEF CommitPermissions, rec
  <2>2. rec.token \in Tokens /\ rec.regrant /\ rec.seen = IdsOf(RowsOf(rec.token))
    BY <1>b, <2>1 DEF GoodEdit
  <2> QED
    BY <1>a, <2>1, <2>2, RegrantEffect DEF rec
<1>9. ASSUME CommitRow(c) PROVE TabEffect
  <2>1. rec.pc = "row" /\ rec.token \in Tokens /\ rec.edit \in RowEdits
    BY <1>9, <1>b DEF CommitRow, rec, TokenCall
  <2>2. CASE End(c, "failed") /\ UNCHANGED <<tokens, permissions>>
    BY <1>a, <2>1, <2>2, EndKeepsGrants
  <2>3. CASE /\ End(c, "done")
             /\ tokens' = IF rec.edit \in Expiries
                          THEN [tokens EXCEPT ![rec.token].expiry = rec.edit] ELSE tokens
             /\ IF rec.regrant THEN SetPermissions(c, IdsOf(RowsOf(rec.token)))
                               ELSE UNCHANGED permissions
    <3>1. \A t \in Tokens : tokens'[t].state = tokens[t].state
      BY <1>b, <2>1, <2>3
    <3>2. CASE rec.regrant
      BY <1>a, <2>1, <2>3, <3>1, <3>2, RegrantEffect DEF rec
    <3>3. CASE ~rec.regrant
      BY <1>a, <2>1, <2>3, <3>1, <3>3, EndKeepsGrants DEF rec
    <3> QED
      BY <3>2, <3>3
  <2> QED
    BY <1>9, <2>2, <2>3 DEF CommitRow, rec
<1>10. ASSUME CommitRevocation(c) PROVE TabEffect
  <2>1. rec.pc = "revoke" /\ rec.token \in Tokens /\ UNCHANGED permissions
    BY <1>10, <1>b DEF CommitRevocation, rec
  <2>2. CASE End(c, "failed") /\ UNCHANGED tokens
    BY <1>a, <2>1, <2>2, EndKeepsGrants DEF rec
  <2>3. CASE End(c, "done") /\ tokens' = [tokens EXCEPT ![rec.token].state = "revoked"]
    <3>1. \A u \in Tokens : tokens[u].state \in {"live", "revoked"}
                              => tokens'[u].state \in {"live", "revoked"}
      BY <1>b, <2>1, <2>3
    <3> QED
      BY <1>a, <2>1, <2>3, <3>1, EndKeepsGrants DEF rec
  <2> QED
    BY <1>10, <2>2, <2>3 DEF CommitRevocation, rec
<1>11. ASSUME CommitDeletion(c) PROVE TabEffect
  <2> PICK t \in Tokens : t = rec.token
    BY <1>11, <1>b DEF CommitDeletion, rec
  <2>1. /\ rec.pc = "purge" /\ rec.seen = IdsOf(RowsOf(t))
        /\ tokens' = [tokens EXCEPT ![t].state = "deleted"]
        /\ permissions' = {r \in permissions : r.id \notin IdsOf(RowsOf(t))}
        /\ End(c, "done")
    BY <1>11, <1>b DEF CommitDeletion, rec, GoodEdit
  <2>2. permissions' = {r \in permissions : r.token # t}
    BY <2>1 DEF TabInv, RowIdsUnique, IdsOf, RowsOf
  <2>3. \A u \in Tokens \ {t} : tokens'[u].state = tokens[u].state
    BY <1>b, <2>1
  <2>4. OneAtATime' /\ EditInv'
    BY <1>a, <2>1, EditEnds
  <2>5. RowIdsUnique'
    BY <2>2 DEF TabInv, RowIdsUnique
  <2>6. GrantInv'
    <3>1. \A r \in permissions : r.token \in Tokens
      BY DEF Inv, TypeOK, StoreTypeOK, Permission
    <3> QED
      BY <1>a, <2>2, <2>3, <3>1
         DEF TabInv, GrantInv, NoOrphanGrants, GrantsOfCurrentBackend, Exists
  <2>7. GrantStep
    BY <2>2 DEF GrantStep, GrantedOps, RowsOf
  <2>8. PatchStep
    BY <2>1, PatchOnlyBy DEF End, rec
  <2> QED
    BY <2>4, <2>5, <2>6, <2>7, <2>8 DEF TabEffect
<1>12. CASE TokenCallArrives(c)
  <2>1. Edits \subseteq RowEdits
    BY TokenApiAssumption
  <2>2. PICK t \in Tokens :
          \/ \E S \in OpLists, x \in Edits \cap Expiries : CreateToken(c, t, S, x)
          \/ \E S \in OpLists, edit \in Edits : UpdateToken(c, t, S, TRUE, edit)
          \/ \E edit \in Edits : UpdateToken(c, t, {}, FALSE, edit)
          \/ RevokeToken(c, t)
          \/ DeleteToken(c, t)
    BY <1>12 DEF TokenCallArrives
  <2> QED
    BY <1>1, <1>2, <1>4, <2>1, <2>2
<1>13. CASE TokenCallStep(c)
  BY <1>13, <1>5, <1>7, <1>8, <1>9, <1>10, <1>11 DEF TokenCallStep
<1> QED
  BY <1>12, <1>13 DEF TokenCallNext

(* The rest of TabInv is about what a token call leaves alone.             *)
LEMMA TokenCallTabInv ==
    ASSUME OneTab, Inv, TabInv, NEW c \in TokenCalls, TokenCallNext(c)
    PROVE  TabInv'
<1>1. UNCHANGED <<config, operations, env, loop, matcher, puts, jobs, calls, restarts>>
  BY TokenCallFrame
<1>2. LoopInv' /\ GenInv' /\ PutRead' /\ SyncInv'
  BY <1>1 DEF TabInv, LoopInv, Syncing, Checking, GenInv, Configured, PutRead, Writing, PairOf,
              SyncInv, GoodSync, ActiveOps
<1>3. TabEffect
  BY TokenCallTab
<1> QED
  BY <1>2, <1>3 DEF TabEffect, TabInv

-------------------------------------------------------------------------------
(* PUT /_admin/api/backend-config and the presets of a restart.            *)

(* Either nothing but the row of backend_config changes, or the backend    *)
(* is switched and its operations and permissions go.                      *)
Switch ==
    \/ config'.gen = config.gen /\ UNCHANGED <<operations, permissions>>
    \/ config'.gen = config.gen + 1 /\ operations' = Wiped /\ permissions' = {}

(* A write on the URLs that are stored.                                    *)
LEMMA WriteSwitches ==
    ASSUME config \in Config, NEW seen \in Config, NEW want \in [endpoint : Urls, openapi : Urls],
           PairOf(seen) = PairOf(config), WriteConfig(seen, want)
    PROVE  Switch
<1>1. seen.endpoint = config.endpoint /\ seen.openapi = config.openapi
  BY DEF PairOf
<1>2. config'.gen = IF PairOf(want) # PairOf(config) THEN config.gen + 1 ELSE config.gen
  BY <1>1 DEF WriteConfig, UpdatedConfig, PairOf
<1> QED
  BY <1>1, <1>2 DEF WriteConfig, ResetOperationsAndPermissions, Switch, PairOf

(* What a switch does to the tables and to the refreshes that survive it.  *)
LEMMA SwitchTab ==
    ASSUME Inv, TabInv, Switch, tokens' = tokens,
           \A j \in Jobs : jobs'[j] = jobs[j] \/ jobs'[j].pc \in {"new"} \cup Ended
    PROVE  /\ RowIdsUnique' /\ GrantInv' /\ SyncInv' /\ GrantStep
           /\ \A j \in Jobs : Syncing(j)' => jobs'[j].gen <= config'.gen
<1>1. /\ config.gen \in Nat
      /\ \A j \in Jobs : jobs[j].gen \in Nat
  BY DEF Inv, TypeOK, StoreTypeOK, SchemaSyncTypeOK, Job, Config
<1>2. \A j \in Jobs : Syncing(j)' => jobs'[j] = jobs[j] /\ jobs[j].gen <= config.gen
  BY DEF TabInv, GenInv, Syncing
<1>3. CASE config'.gen = config.gen /\ UNCHANGED <<operations, permissions>>
  <2>1. ASSUME NEW j \in Jobs PROVE GoodSync(jobs[j])'
    <3>1. CASE jobs'[j] = jobs[j]
      BY <1>3, <3>1 DEF TabInv, SyncInv, GoodSync, ActiveOps
    <3>2. CASE jobs'[j].pc \in {"new"} \cup Ended
      BY <3>2 DEF GoodSync
    <3> QED
      BY <3>1, <3>2
  <2> QED
    BY <1>2, <1>3, <2>1 DEF TabInv, RowIdsUnique, GrantInv, NoOrphanGrants,
                            GrantsOfCurrentBackend, Exists, SyncInv, GrantStep
<1>4. CASE config'.gen = config.gen + 1 /\ operations' = Wiped /\ permissions' = {}
  <2>1. \A j \in Jobs : Syncing(j)' => jobs'[j].gen < config'.gen
    BY <1>1, <1>2, <1>4
  <2>2. SyncInv'
    <3> SUFFICES ASSUME NEW j \in Jobs PROVE GoodSync(jobs[j])'
      BY DEF SyncInv
    <3>1. CASE Syncing(j)'
      BY <1>1, <1>2, <1>4, <3>1 DEF GoodSync
    <3>2. CASE ~Syncing(j)'
      BY <3>2 DEF GoodSync, Syncing
    <3> QED
      BY <3>1, <3>2
  <2> QED
    BY <1>1, <1>2, <1>4, <2>2 DEF RowIdsUnique, GrantInv, NoOrphanGrants,
                                  GrantsOfCurrentBackend, GrantStep
<1> QED
  BY <1>3, <1>4 DEF Switch

(* A PUT that arrives or goes on is the only request in flight.            *)
LEMMA PutAlone ==
    ASSUME OneTab, OneAtATime, NEW p \in Puts, PutNext(p)
    PROVE  /\ \A c \in TokenCalls : ~Busy(c)
           /\ \A q \in Puts \ {p} : ~Writing(q)
<1>1. CASE AdminMaySend
  BY <1>1 DEF AdminMaySend, Busy, Writing
<1>2. CASE PutStep(p)
  BY <1>2 DEF PutStep, CommitUpsert, CommitInsert, Writing, OneAtATime
<1> QED
  BY <1>1, <1>2 DEF PutNext

LEMMA PutTab ==
    ASSUME OneTab, Inv, TabInv, NEW p \in Puts, PutNext(p)
    PROVE  TabInv' /\ GrantStep
<1>a. /\ \A c \in TokenCalls : ~Busy(c)
      /\ \A q \in Puts \ {p} : ~Writing(q)
  BY PutAlone DEF TabInv
<1>b. UNCHANGED <<tokens, env, loop, matcher, tokenCalls, jobs, calls, restarts>>
  BY DEF PutNext, PutArrives, PutStep, ReadForUpsert, CommitUpsert, CommitInsert, storeVars
<1>c. /\ puts \in [Puts -> Put] /\ config \in Config
      /\ puts[p].pc = "write" => puts[p].want \in [endpoint : Urls, openapi : Urls]
      /\ puts[p].seen.endpoint # None /\ puts[p].pc = "write" => Configured
  BY DEF Inv, TypeOK, StoreTypeOK, BackendConfigTypeOK, PutInv, Put
<1>1. /\ Switch
      /\ ~Configured' => config'.gen = 0
      /\ \A q \in Puts \ {p} : puts'[q] = puts[q]
      /\ Writing(p)' => PairOf(puts'[p].seen) = PairOf(config')
  <2>1. CASE PutArrives(p)
    <3>1. PICK pair \in PutPairs : ReadForUpsert(p, pair)
      BY <2>1 DEF PutArrives
    <3>2. puts'[p].seen = config /\ \A q \in Puts \ {p} : puts'[q] = puts[q]
      BY <3>1, <1>c DEF ReadForUpsert
    <3> QED
      BY <3>1, <3>2 DEF ReadForUpsert, storeVars, Switch, TabInv, GenInv, Configured
  <2>2. CASE CommitUpsert(p)
    <3>1. PairOf(puts[p].seen) = PairOf(config)
      BY <2>2 DEF CommitUpsert, TabInv, PutRead, Writing
    <3>2. /\ puts[p].want \in [endpoint : Urls, openapi : Urls] /\ Configured
          /\ puts[p].want \in [endpoint : Servers, openapi : Servers]
          /\ puts[p].seen \in Config
      BY <2>2, <1>c DEF CommitUpsert, Inv, PutInv, Put
    <3>3. Switch
      BY <2>2, <3>1, <3>2, <1>c, WriteSwitches DEF CommitUpsert
    <3>4. Configured'
      BY <2>2, <3>2, WriteConfigType DEF CommitUpsert
    <3>5. ~Writing(p)' /\ \A q \in Puts \ {p} : puts'[q] = puts[q]
      BY <2>2, <1>c DEF CommitUpsert, EndPut, IdlePut, Writing
    <3> QED
      BY <3>3, <3>4, <3>5
  <2>3. CASE CommitInsert(p)
    <3>1. ~Writing(p)' /\ \A q \in Puts \ {p} : puts'[q] = puts[q]
      BY <2>3, <1>c DEF CommitInsert, EndPut, IdlePut, Writing
    <3>2. UNCHANGED <<operations, permissions>>
      BY <2>3 DEF CommitInsert
    <3>3. CASE ~Configured /\ config' = InsertedConfig(puts[p].want)
      BY <3>1, <3>2, <3>3 DEF InsertedConfig, Switch, TabInv, GenInv
    <3>4. CASE config' = config
      BY <3>1, <3>2, <3>4 DEF Switch, TabInv, GenInv, Configured
    <3> QED
      BY <2>3, <3>3, <3>4 DEF CommitInsert
  <2> QED
    BY <2>1, <2>2, <2>3 DEF PutNext, PutStep
<1>2. /\ RowIdsUnique' /\ GrantInv' /\ SyncInv' /\ GrantStep
      /\ \A j \in Jobs : Syncing(j)' => jobs'[j].gen <= config'.gen
  BY <1>b, <1>1, SwitchTab
<1>3. LoopInv'
  BY <1>b DEF TabInv, LoopInv, Syncing, Checking
<1>4. OneAtATime' /\ PutRead'
  BY <1>a, <1>b, <1>1 DEF OneAtATime, PutRead, Busy, Writing
<1>5. EditInv'
  BY <1>a, <1>b DEF EditInv, GoodEdit, Busy
<1> QED
  BY <1>1, <1>2, <1>3, <1>4, <1>5 DEF TabInv, GenInv

-------------------------------------------------------------------------------
(* Refreshes.                                                              *)

(* The step of SyncIsExact.                                                *)
SyncStep ==
    \A j \in Jobs :
        /\ jobs[j].pc \in {"flush", "finish"}
        /\ jobs'[j].pc = "done"
        /\ jobs[j].gen = config.gen
        => ActiveOps' = jobs[j].spec

(* When a refresh moves, only its own record has to be looked at: no other *)
(* coroutine is between two awaits.                                        *)
LEMMA JobRecordTab ==
    ASSUME Inv, TabInv, NEW j \in Jobs, NEW rec, NEW active,
           jobs' = [jobs EXCEPT ![j] = rec],
           UNCHANGED <<tokens, permissions, tokenCalls, puts, calls>>,
           config'.gen = config.gen, PairOf(config') = PairOf(config),
           loop = None \/ Syncing(j),
           ActiveOps' = active,
           rec.pc \in {"read", "scan", "flush", "finish"} =>
               loop' = j /\ rec.gen <= config.gen,
           rec.gen = config.gen =>
               /\ rec.pc \in {"read", "flush"} => rec.spec \subseteq rec.todo \cup active
               /\ rec.pc \in {"scan", "finish"} => rec.spec \subseteq active
               /\ rec.pc = "finish" => rec.pending = active \ rec.spec,
           jobs[j].pc \in {"flush", "finish"} /\ rec.pc = "done" /\ jobs[j].gen = config.gen
               => active = jobs[j].spec
    PROVE  TabInv' /\ SyncStep
<1>1. /\ jobs'[j] = rec /\ \A k \in Jobs \ {j} : jobs'[k] = jobs[k]
      /\ None \notin Jobs \cup Calls
  BY ScopeProxyAssumption DEF Inv, TypeOK, SchemaSyncTypeOK
<1>2. /\ \A k \in Jobs \ {j} : ~Syncing(k)
      /\ \A c \in Calls : ~Checking(c)
  BY <1>1 DEF TabInv, LoopInv
<1>3. /\ \A k \in Jobs \ {j} : ~Syncing(k)'
      /\ \A c \in Calls : ~Checking(c)'
  BY <1>1, <1>2 DEF Syncing, Checking
<1>4. LoopInv'
  BY <1>1, <1>3 DEF LoopInv, Syncing
<1>5. GenInv'
  <2>1. Configured' = Configured
    BY DEF PairOf, Configured
  <2> QED
    BY <1>1, <1>3, <2>1 DEF TabInv, GenInv, Syncing
<1>6. SyncInv'
  <2> SUFFICES ASSUME NEW k \in Jobs PROVE GoodSync(jobs[k])'
    BY DEF SyncInv
  <2>1. CASE k = j
    BY <1>1, <2>1 DEF GoodSync
  <2>2. CASE k # j
    BY <1>3, <2>2 DEF GoodSync, Syncing
  <2> QED
    BY <2>1, <2>2
<1>7. RowIdsUnique' /\ OneAtATime' /\ EditInv' /\ PutRead' /\ GrantInv'
  BY DEF TabInv, RowIdsUnique, OneAtATime, Busy, Writing, EditInv, GoodEdit, Exists, IdsOf, RowsOf,
         PutRead, GrantInv, NoOrphanGrants, GrantsOfCurrentBackend
<1>8. SyncStep
  BY <1>1, <1>2 DEF SyncStep, Syncing
<1> QED
  BY <1>4, <1>5, <1>6, <1>7, <1>8 DEF TabInv

(* A refresh that ends before its commit.                                  *)
LEMMA JobEndTab ==
    ASSUME Inv, TabInv, NEW j \in Jobs, NEW pc \in Ended, EndJob(j, pc),
           UNCHANGED <<tokens, permissions, tokenCalls, puts, calls>>,
           config'.gen = config.gen, PairOf(config') = PairOf(config),
           loop = None \/ Syncing(j),
           jobs[j].pc \in {"flush", "finish"} /\ pc = "done" /\ jobs[j].gen = config.gen
               => ActiveOps' = jobs[j].spec
    PROVE  TabInv' /\ SyncStep
<1>1. IdleJob(pc).pc = pc
  BY DEF IdleJob, JobAt
<1> QED
  BY <1>1, JobRecordTab DEF EndJob

LEMMA JobTab ==
    ASSUME Inv, TabInv, NEW j \in Jobs, JobNext(j)
    PROVE  TabInv' /\ SyncStep /\ UNCHANGED <<permissions, tokenCalls>>
<1> DEFINE rec == jobs[j]
<1>a. UNCHANGED <<tokens, permissions, tokenCalls, puts, calls>>
  BY DEF JobNext, StartRefresh, JobStep, FetchEnds, FetchFails, FetchReturns, LookUpClean,
         LookUpDirty, SelectRemoved, CommitSync, CommitRemoved, CommitSuccess, FlushFails,
         storeVars
<1>b. /\ rec \in Job /\ GoodSync(rec)
      /\ Syncing(j) => loop = j /\ rec.gen <= config.gen
      /\ rec.pc \in {"read", "scan", "flush", "finish"} => rec.todo \subseteq rec.spec
      /\ config \in Config /\ config.gen \in Nat
      /\ operations \in [Ops -> OperationRow]
  BY DEF Inv, TypeOK, StoreTypeOK, SchemaSyncTypeOK, TabInv, SyncInv, LoopInv, GenInv, JobInv,
         Config
<1>c. ASSUME NEW outcome, NEW fetched, config' = Recorded(j, outcome, fetched)
      PROVE  config'.gen = config.gen /\ PairOf(config') = PairOf(config)
  BY <1>b, <1>c DEF Recorded, Config, PairOf
<1>1. CASE StartRefresh(j)
  <2> DEFINE next == IF Configured THEN JobAt("fetch", config.openapi, config.status)
                                   ELSE IdleJob("failed")
  <2>1. next.pc \in {"fetch", "failed"}
    BY DEF JobAt, IdleJob
  <2>2. /\ loop = None /\ jobs' = [jobs EXCEPT ![j] = next]
        /\ config' = config /\ ActiveOps' = ActiveOps
    BY <1>1 DEF StartRefresh, storeVars, ActiveOps
  <2> HIDE DEF next
  <2> QED
    BY <1>a, <2>1, <2>2, JobRecordTab
<1>2. CASE FetchFails(j)
  <2>1. jobs[j].pc = "fetch" /\ loop = None /\ EndJob(j, "failed")
    BY <1>2 DEF FetchFails
  <2>2. config'.gen = config.gen /\ PairOf(config') = PairOf(config)
    BY <1>2, <1>c DEF FetchFails
  <2> QED
    BY <1>a, <2>1, <2>2, JobEndTab
<1>3. ASSUME NEW spec, NEW bad, FetchReturns(j, spec, bad)
      PROVE  TabInv' /\ SyncStep
  <2> DEFINE next == [rec EXCEPT !.pc = IF spec = {} THEN "scan" ELSE "read",
                                 !.spec = spec, !.todo = spec, !.bad = bad,
                                 !.gen = config.gen]
  <2>1. /\ next.pc = IF spec = {} THEN "scan" ELSE "read"
        /\ next.spec = spec /\ next.todo = spec /\ next.gen = config.gen
    BY <1>b DEF Job
  <2>2. /\ jobs' = [jobs EXCEPT ![j] = next] /\ loop = None /\ loop' = j
        /\ config' = config /\ ActiveOps' = ActiveOps /\ jobs[j].pc = "fetch"
    BY <1>3 DEF FetchReturns, ActiveOps
  <2> HIDE DEF next, rec
  <2>3. next.gen <= config.gen /\ next.pc \in {"read", "scan"}
    BY <1>b, <2>1
  <2>4. /\ next.pc \in {"read", "flush"} => next.spec \subseteq next.todo \cup ActiveOps
        /\ next.pc \in {"scan", "finish"} => next.spec \subseteq ActiveOps
    BY <2>1
  <2> QED
    BY <1>a, <2>2, <2>3, <2>4, JobRecordTab
<1>4. ASSUME NEW o \in Ops, LookUpClean(j, o)
      PROVE  TabInv' /\ SyncStep
  <2> DEFINE next == [rec EXCEPT !.todo = rec.todo \ {o},
                                 !.pc = IF rec.todo = {o} THEN "scan" ELSE "read"]
  <2>1. /\ next.pc = IF rec.todo = {o} THEN "scan" ELSE "read"
        /\ next.spec = rec.spec /\ next.todo = rec.todo \ {o} /\ next.gen = rec.gen
    BY <1>b DEF Job
  <2>2. /\ jobs' = [jobs EXCEPT ![j] = next] /\ loop' = loop
        /\ config' = config /\ ActiveOps' = ActiveOps
        /\ rec.pc = "read" /\ o \in rec.todo \cap ActiveOps
    BY <1>4 DEF LookUpClean, ActiveOps, storeVars
  <2>3. Syncing(j)
    BY <2>2 DEF Syncing
  <2> HIDE DEF next, rec
  <2>4. rec.gen = config.gen => rec.spec \subseteq rec.todo \cup ActiveOps
    BY <1>b, <2>2 DEF GoodSync
  <2>5. next.gen = config.gen =>
          /\ next.pc = "read" => next.spec \subseteq next.todo \cup ActiveOps
          /\ next.pc = "scan" => next.spec \subseteq ActiveOps
    BY <2>1, <2>2, <2>4
  <2> QED
    BY <1>a, <1>b, <2>1, <2>2, <2>3, <2>5, JobRecordTab DEF rec
<1>5. ASSUME NEW o \in Ops, LookUpDirty(j, o)
      PROVE  TabInv' /\ SyncStep
  <2> DEFINE next == [rec EXCEPT !.pc = "flush", !.pending = {o} \cap Rows]
  <2>1. /\ next.pc = "flush" /\ next.spec = rec.spec /\ next.todo = rec.todo
        /\ next.gen = rec.gen
    BY <1>b DEF Job
  <2>2. /\ jobs' = [jobs EXCEPT ![j] = next] /\ loop' = loop
        /\ config' = config /\ ActiveOps' = ActiveOps /\ rec.pc = "read"
    BY <1>5 DEF LookUpDirty, ActiveOps, storeVars
  <2>3. Syncing(j)
    BY <2>2 DEF Syncing
  <2> HIDE DEF next, rec
  <2>4. rec.gen = config.gen => rec.spec \subseteq rec.todo \cup ActiveOps
    BY <1>b, <2>2 DEF GoodSync
  <2> QED
    BY <1>a, <1>b, <2>1, <2>2, <2>3, <2>4, JobRecordTab DEF rec
<1>6. CASE SelectRemoved(j)
  <2> DEFINE next == [rec EXCEPT !.pc = "finish", !.pending = ActiveOps \ rec.spec]
  <2>1. /\ next.pc = "finish" /\ next.spec = rec.spec /\ next.gen = rec.gen
        /\ next.pending = ActiveOps \ rec.spec
    BY <1>b DEF Job
  <2>2. /\ jobs' = [jobs EXCEPT ![j] = next] /\ loop' = loop
        /\ config' = config /\ ActiveOps' = ActiveOps /\ rec.pc = "scan"
    BY <1>6 DEF SelectRemoved, ActiveOps, storeVars
  <2>3. Syncing(j)
    BY <2>2 DEF Syncing
  <2> HIDE DEF next, rec
  <2>4. rec.gen = config.gen => rec.spec \subseteq ActiveOps
    BY <1>b, <2>2 DEF GoodSync
  <2> QED
    BY <1>a, <1>b, <2>1, <2>2, <2>3, <2>4, JobRecordTab DEF rec
<1>7. CASE CommitSync(j)
  <2>1. /\ rec.pc = "flush" /\ CommitSuccess(j)
        /\ \E n \in RowIds : operations' = Reconciled(rec.spec, rec.todo, n)
    BY <1>7 DEF CommitSync
  <2>2. Syncing(j)
    BY <2>1 DEF Syncing
  <2>3. config'.gen = config.gen /\ PairOf(config') = PairOf(config)
    BY <1>c, <2>1 DEF CommitSuccess
  <2>4. ASSUME rec.gen = config.gen PROVE ActiveOps' = rec.spec
    <3>1. PICK n \in RowIds : operations' = Reconciled(rec.spec, rec.todo, n)
      BY <2>1
    <3>2. rec.spec \subseteq rec.todo \cup ActiveOps /\ rec.todo \subseteq rec.spec
      BY <1>b, <2>1, <2>4 DEF GoodSync
    <3>3. rec.spec \subseteq Ops
      BY <1>b DEF Job
    <3> HIDE DEF rec
    <3>4. \A o \in Ops : operations'[o].active <=> o \in rec.todo \/ (o \in ActiveOps /\ o \in rec.spec)
      BY <1>b, <3>1 DEF Reconciled, ActiveOps, OperationRow
    <3> QED
      BY <3>2, <3>3, <3>4 DEF ActiveOps
  <2> QED
    BY <1>a, <2>1, <2>2, <2>3, <2>4, JobEndTab DEF CommitSuccess
<1>8. CASE CommitRemoved(j)
  <2>1. /\ rec.pc = "finish" /\ CommitSuccess(j)
        /\ operations' = [o \in Ops |->
               [operations[o] EXCEPT !.active = @ /\ o \notin rec.pending]]
    BY <1>8 DEF CommitRemoved
  <2>2. Syncing(j)
    BY <2>1 DEF Syncing
  <2>3. config'.gen = config.gen /\ PairOf(config') = PairOf(config)
    BY <1>c, <2>1 DEF CommitSuccess
  <2>4. ASSUME rec.gen = config.gen PROVE ActiveOps' = rec.spec
    <3>1. rec.spec \subseteq ActiveOps /\ rec.pending = ActiveOps \ rec.spec
      BY <1>b, <2>1, <2>4 DEF GoodSync
    <3>2. rec.spec \subseteq Ops
      BY <1>b DEF Job
    <3> HIDE DEF rec
    <3>3. \A o \in Ops : operations'[o].active <=> o \in ActiveOps /\ o \notin rec.pending
      BY <1>b, <2>1 DEF ActiveOps, OperationRow
    <3> QED
      BY <3>1, <3>2, <3>3 DEF ActiveOps
  <2> QED
    BY <1>a, <2>1, <2>2, <2>3, <2>4, JobEndTab DEF CommitSuccess
<1>9. CASE FlushFails(j)
  <2>1. Syncing(j) /\ EndJob(j, "failed") /\ config' = config
    BY <1>9 DEF FlushFails, Syncing
  <2> QED
    BY <1>a, <2>1, JobEndTab
<1> QED
  BY <1>1, <1>2, <1>3, <1>4, <1>5, <1>6, <1>7, <1>8, <1>9, <1>a DEF JobNext, JobStep, FetchEnds

-------------------------------------------------------------------------------
(* Proxied requests, the clock and restarts.                               *)

(* A request that runs is alone on the event loop.                         *)
LEMMA CallStepLoop ==
    ASSUME Inv, TabInv, NEW c \in Calls, CallStep(c)
    PROVE  /\ loop = None \/ Checking(c)
           /\ Checking(c)' => loop' = c
           /\ \A d \in Calls \ {c} : calls'[d] = calls[d]
<1>1. calls \in [Calls -> Call] /\ (Checking(c) => loop = c)
  BY DEF Inv, TypeOK, ProxyGateTypeOK, TabInv, LoopInv
<1>2. IdleCall("done").pc = "done" /\ IdleCall("failed").pc = "failed"
  BY DEF IdleCall, CallAt
<1>3. CASE Authenticate(c)
  BY <1>1, <1>2, <1>3 DEF Authenticate, Deny, EndCall, Checking
<1>4. CASE ResolveOperation(c)
  BY <1>1, <1>2, <1>4 DEF ResolveOperation, Deny, EndCall, Checking
<1>5. CASE EnsurePermission(c)
  BY <1>1, <1>2, <1>5 DEF EnsurePermission, Deny, EndCall, Checking
<1>6. CASE SendUpstream(c)
  <2>1. CASE calls' = [calls EXCEPT ![c].pc = "sent", ![c].target = config.endpoint,
                                    ![c].sentGen = config.gen]
    <3> DEFINE next == [calls[c] EXCEPT !.pc = "sent", !.target = config.endpoint,
                                        !.sentGen = config.gen]
    <3>1. calls' = [calls EXCEPT ![c] = next] /\ next.pc = "sent"
      BY <1>1, <2>1 DEF Call
    <3> HIDE DEF next
    <3> QED
      BY <1>1, <1>6, <3>1 DEF SendUpstream, Checking
  <2>2. CASE EndCall(c, "done")
    BY <1>1, <1>2, <1>6, <2>2 DEF SendUpstream, EndCall, Checking
  <2> QED
    BY <1>6, <2>1, <2>2 DEF SendUpstream, Deny
<1>7. CASE UpstreamAnswers(c) \/ UpstreamFails(c) \/ ClientDisconnects(c)
  <2>1. loop = None /\ (EndCall(c, "done") \/ EndCall(c, "failed"))
    BY <1>7 DEF UpstreamAnswers, UpstreamFails, ClientDisconnects
  <2> QED
    BY <1>1, <1>2, <2>1 DEF EndCall, Checking
<1> QED
  BY <1>3, <1>4, <1>5, <1>6, <1>7 DEF CallStep

(* A step that writes no table and none of the other handlers' records,    *)
(* except that the clock may pass an expiry.                               *)
LEMMA QuietTab ==
    ASSUME Inv, TabInv, LoopInv',
           UNCHANGED <<config, operations, permissions, tokenCalls, puts, jobs>>,
           \A t \in Tokens : tokens'[t].state = tokens[t].state
    PROVE  TabInv'
<1>1. /\ \A r \in permissions : r.token \in Tokens
      /\ \A c \in TokenCalls : tokenCalls[c].pc \notin {"new"} \cup Ended
                                 => tokenCalls[c].token \in Tokens
  BY DEF Inv, TypeOK, StoreTypeOK, Permission, TokenCallInv
<1>2. RowIdsUnique' /\ GenInv' /\ OneAtATime' /\ PutRead' /\ SyncInv'
  BY DEF TabInv, RowIdsUnique, GenInv, Configured, Syncing, OneAtATime, Busy, Writing, PutRead,
         SyncInv, GoodSync, ActiveOps
<1>3. GrantInv'
  BY <1>1 DEF TabInv, GrantInv, NoOrphanGrants, GrantsOfCurrentBackend, Exists
<1>4. EditInv'
  BY <1>1 DEF TabInv, EditInv, GoodEdit, Exists, IdsOf, RowsOf
<1> QED
  BY <1>2, <1>3, <1>4 DEF TabInv

LEMMA CallTab ==
    ASSUME Inv, TabInv, NEW c \in Calls, CallNext(c)
    PROVE  TabInv' /\ UNCHANGED <<permissions, tokenCalls, jobs>>
<1>1. UNCHANGED <<config, operations, tokens, permissions, tokenCalls, puts, jobs>>
  BY DEF CallNext, CallArrives, Arrive, CallStep, Authenticate, ResolveOperation,
         EnsurePermission, SendUpstream, UpstreamAnswers, UpstreamFails, ClientDisconnects,
         storeVars
<1>2. LoopInv'
  <2>1. CASE CallArrives(c)
    <3>1. UNCHANGED loop /\ \A d \in Calls : Checking(d)' => Checking(d)
      BY <2>1 DEF CallArrives, Arrive, storeVars, CallAt, Checking, Inv, TypeOK, ProxyGateTypeOK
    <3> QED
      BY <1>1, <3>1 DEF TabInv, LoopInv, Syncing
  <2>2. CASE CallStep(c)
    <3>1. /\ loop = None \/ Checking(c)
          /\ Checking(c)' => loop' = c
          /\ \A d \in Calls \ {c} : Checking(d)' = Checking(d)
      BY <2>2, CallStepLoop DEF Checking
    <3>2. /\ \A d \in Calls \ {c} : ~Checking(d)
          /\ \A j \in Jobs : ~Syncing(j)
      BY <3>1, ScopeProxyAssumption DEF TabInv, LoopInv
    <3> QED
      BY <1>1, <3>1, <3>2 DEF LoopInv, Syncing
  <2> QED
    BY <2>1, <2>2 DEF CallNext
<1> QED
  BY <1>1, <1>2, QuietTab

LEMMA TickTab ==
    ASSUME Inv, TabInv, Tick
    PROVE  TabInv' /\ UNCHANGED <<permissions, tokenCalls, jobs>>
<1>1. PICK t \in Tokens : Expire(t) /\ UNCHANGED handlerVars
  BY DEF Tick
<1>2. UNCHANGED <<config, operations, permissions, loop, tokenCalls, puts, jobs, calls>>
  BY <1>1 DEF Expire, handlerVars
<1>3. \A u \in Tokens : tokens'[u].state = tokens[u].state
  BY <1>1 DEF Expire, Inv, TypeOK, StoreTypeOK
<1>4. LoopInv'
  BY <1>2 DEF TabInv, LoopInv, Syncing, Checking
<1> QED
  BY <1>2, <1>3, <1>4, QuietTab

LEMMA RestartTab ==
    ASSUME Inv, TabInv, NEW e \in Presets, Restart(e)
    PROVE  TabInv' /\ GrantStep
<1>1. /\ \A c \in TokenCalls : tokenCalls'[c].pc \in {"new"} \cup Ended
      /\ \A p \in Puts : puts'[p].pc # "write"
      /\ \A j \in Jobs : jobs'[j].pc \in {"new"} \cup Ended
      /\ \A c \in Calls : ~Checking(c)'
  <2>1. /\ IdleTokenCall("failed").pc = "failed" /\ IdlePut("failed").pc = "failed"
        /\ IdleJob("failed").pc = "failed" /\ IdleCall("failed").pc = "failed"
    BY DEF IdleTokenCall, IdlePut, IdleJob, JobAt, IdleCall, CallAt
  <2>2. \A j \in Jobs : jobs[j].pc \in JobPcs
    BY DEF Inv, TypeOK, SchemaSyncTypeOK, Job
  <2> QED
    BY <2>1, <2>2
       DEF Restart, LoseTokenCalls, LosePuts, LoseJobs, LoseCalls, Checking, JobPcs
<1>2. tokens' = tokens /\ ApplyEnvConfigOverrides(e)
  BY DEF Restart
<1>3. config \in Config /\ None \notin Servers /\ e \in [endpoint : Urls, openapi : Urls]
  BY StoreAssumption, ScopeProxyAssumption DEF Inv, TypeOK, StoreTypeOK
<1>4. Switch /\ (~Configured' => config'.gen = 0)
  <2>1. CASE Configured
    <3> DEFINE want == [endpoint |-> Preset(e.endpoint, config.endpoint),
                        openapi |-> Preset(e.openapi, config.openapi)]
    <3>1. want \in [endpoint : Servers, openapi : Servers]
      BY <1>3, <2>1 DEF Inv, ConfigInv, Configured, Preset, Config
    <3>2. WriteConfig(config, want)
      BY <1>2, <2>1 DEF ApplyEnvConfigOverrides
    <3> HIDE DEF want
    <3>3. Configured'
      BY <1>3, <2>1, <3>1, <3>2, WriteConfigType
    <3> QED
      BY <1>3, <3>1, <3>2, <3>3, WriteSwitches
  <2>2. CASE ~Configured
    <3>1. config.gen = 0 /\ UNCHANGED <<operations, permissions>>
      BY <1>2, <2>2 DEF ApplyEnvConfigOverrides, TabInv, GenInv
    <3>2. config'.gen = 0
      BY <1>2, <2>2, <3>1 DEF ApplyEnvConfigOverrides, InsertedConfig
    <3> QED
      BY <3>1, <3>2 DEF Switch
  <2> QED
    BY <2>1, <2>2
<1>5. RowIdsUnique' /\ GrantInv' /\ SyncInv' /\ GrantStep
  BY <1>1, <1>2, <1>4, SwitchTab
<1>6. LoopInv' /\ GenInv' /\ OneAtATime' /\ EditInv' /\ PutRead'
  BY <1>1, <1>4 DEF LoopInv, GenInv, OneAtATime, EditInv, GoodEdit, PutRead, Syncing, Busy, Writing
<1> QED
  BY <1>5, <1>6 DEF TabInv

-------------------------------------------------------------------------------
(* Every step.                                                             *)

LEMMA NextTab ==
    ASSUME OneTab, Inv, TabInv, [Next]_vars
    PROVE  TabInv' /\ GrantStep /\ PatchStep /\ SyncStep
<1>1. ASSUME UNCHANGED tokenCalls PROVE PatchStep
  BY <1>1 DEF PatchStep
<1>2. ASSUME UNCHANGED jobs PROVE SyncStep
  BY <1>2 DEF SyncStep
<1>3. ASSUME NEW c \in TokenCalls, TokenCallNext(c)
      PROVE  TabInv' /\ GrantStep /\ PatchStep /\ SyncStep
  BY <1>2, <1>3, TokenCallTab, TokenCallTabInv, TokenCallFrame DEF TabEffect
<1>4. ASSUME NEW p \in Puts, PutNext(p)
      PROVE  TabInv' /\ GrantStep /\ PatchStep /\ SyncStep
  BY <1>1, <1>2, <1>4, PutTab DEF PutNext
<1>5. ASSUME NEW j \in Jobs, JobNext(j)
      PROVE  TabInv' /\ GrantStep /\ PatchStep /\ SyncStep
  BY <1>1, <1>5, JobTab DEF GrantStep
<1>6. ASSUME NEW c \in Calls, CallNext(c)
      PROVE  TabInv' /\ GrantStep /\ PatchStep /\ SyncStep
  BY <1>1, <1>2, <1>6, CallTab DEF GrantStep
<1>7. ASSUME Tick
      PROVE  TabInv' /\ GrantStep /\ PatchStep /\ SyncStep
  BY <1>1, <1>2, <1>7, TickTab DEF GrantStep
<1>8. ASSUME NEW e \in Presets, Restart(e)
      PROVE  TabInv' /\ GrantStep /\ PatchStep /\ SyncStep
  <2>1. IdleTokenCall("failed").pc = "failed" /\ IdleJob("failed").pc = "failed"
    BY DEF IdleTokenCall, IdleJob, JobAt
  <2>2. PatchStep
    BY <1>8, <2>1 DEF PatchStep, Restart, LoseTokenCalls
  <2>3. SyncStep
    BY <1>8, <2>1 DEF SyncStep, Restart, LoseJobs
  <2> QED
    BY <1>8, <2>2, <2>3, RestartTab
<1>9. ASSUME UNCHANGED vars
      PROVE  TabInv' /\ GrantStep /\ PatchStep /\ SyncStep
  <2>1. UNCHANGED <<config, operations, tokens, permissions, loop, tokenCalls, puts, jobs, calls>>
    BY <1>9 DEF vars, storeVars, handlerVars
  <2>2. LoopInv'
    BY <2>1 DEF TabInv, LoopInv, Syncing, Checking
  <2>3. TabInv'
    BY <2>1, <2>2, QuietTab
  <2> QED
    BY <1>1, <1>2, <2>1, <2>3 DEF GrantStep
<1> QED
  BY <1>3, <1>4, <1>5, <1>6, <1>7, <1>8, <1>9 DEF Next

THEOREM TabInvariant == ASSUME OneTab PROVE Spec => [](Inv /\ TabInv)
<1>1. Init => Inv /\ TabInv
  BY InitInv, TabInit
<1>2. (Inv /\ TabInv) /\ [Next]_vars => (Inv /\ TabInv)'
  BY NextInv, NextTab
<1> QED
  BY <1>1, <1>2, PTL DEF Spec

-------------------------------------------------------------------------------
(* Theorems.                                                               *)

(* No grant outlives its token: a creation that is rolled back, a deletion *)
(* that races a refresh or a restart leaves none behind.                   *)
THEOREM GrantsHaveTokens == ASSUME OneTab PROVE Spec => []NoOrphanGrants
<1>1. TabInv => NoOrphanGrants
  BY DEF TabInv, GrantInv
<1> QED
  BY <1>1, TabInvariant, PTL

(* No grant outlives the backend it was given for: every switch, by a PUT  *)
(* or by a restart, takes all of them with it, and no request that read    *)
(* the old backend writes after it.                                        *)
THEOREM GrantsAreForTheBackend == ASSUME OneTab PROVE Spec => []GrantsOfCurrentBackend
<1>1. TabInv => GrantsOfCurrentBackend
  BY DEF TabInv, GrantInv
<1> QED
  BY <1>1, TabInvariant, PTL

(* The answer to a PATCH or a POST that names operations is true when it   *)
(* is sent: the token's rows are the ones the request named.               *)
THEOREM UpdatesTakeEffect == ASSUME OneTab PROVE Spec => PatchTakesEffect
<1>1. Inv /\ TabInv /\ [Next]_vars => PatchStep
  BY NextTab
<1> QED
  BY <1>1, TabInvariant, PTL DEF Spec, PatchTakesEffect, PatchStep

(* A refresh that reports success on the backend it began with leaves      *)
(* exactly its document's operations active, whatever pool threads did     *)
(* between its reads and its writes.                                       *)
THEOREM SyncsAreExact == ASSUME OneTab PROVE Spec => SyncIsExact
<1>1. Inv /\ TabInv /\ [Next]_vars => SyncStep
  BY NextTab
<1> QED
  BY <1>1, TabInvariant, PTL DEF Spec, SyncIsExact, SyncStep

(* The matrix of tokens and operations changes only as PermissionMatrix    *)
(* allows: one row at a time, to a list that a payload named, or all of it *)
(* to nothing.                                                             *)
THEOREM MatrixRefinement == ASSUME OneTab PROVE Spec => ImplementsMatrix
<1> DEFINE M == [t \in Tokens |-> GrantedOps(t)]
<1>1. Inv => M \in [Tokens -> SUBSET Ops]
  BY DEF Inv, TypeOK, StoreTypeOK, Permission, GrantedOps, RowsOf
<1>2. Init => Matrix!Init
  BY <1>1, InitInv DEF Matrix!Init
<1>3. Inv /\ TabInv /\ [Next]_vars => Matrix!Next \/ UNCHANGED M
  <2> SUFFICES ASSUME Inv, TabInv, [Next]_vars PROVE Matrix!Next \/ UNCHANGED M
    OBVIOUS
  <2>1. CASE UNCHANGED permissions
    BY <2>1 DEF GrantedOps, RowsOf
  <2>2. CASE permissions' = {}
    <3>1. \A t \in Tokens : GrantedOps(t)' = {}
      BY <2>2 DEF GrantedOps, RowsOf
    <3> QED
      BY <3>1 DEF Matrix!Next, Matrix!Clear
  <2>3. ASSUME NEW t \in Tokens, NEW S \in OpLists \cup {{}}, GrantedOps(t)' = S,
               \A u \in Tokens \ {t} : RowsOf(u)' = RowsOf(u)
        PROVE  Matrix!Next
    <3>1. \A u \in Tokens \ {t} : GrantedOps(u)' = GrantedOps(u)
      BY <2>3 DEF GrantedOps
    <3>2. M' = [M EXCEPT ![t] = S]
      BY <2>3, <3>1
    <3> QED
      BY <3>2 DEF Matrix!Next, Matrix!Assign
  <2> QED
    BY <2>1, <2>2, <2>3, NextTab DEF GrantStep
<1> QED
  BY <1>2, <1>3, TabInvariant, PTL DEF Spec, ImplementsMatrix, Matrix!Spec
===============================================================================
