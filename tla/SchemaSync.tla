------------------------------ MODULE SchemaSync ------------------------------
(***************************************************************************)
(* Schema refreshes (services/schema_sync.py), from the dashboard or from  *)
(* the background loop.  A refresh is a coroutine: it awaits the fetch of  *)
(* the OpenAPI document and runs the rest of its code without giving up    *)
(* the event loop, so two refreshes, or a refresh and a proxied request,   *)
(* never interleave there.  Handlers on pool threads do, between any two   *)
(* statements up to the refresh's first write.                             *)
(***************************************************************************)
EXTENDS Store

CONSTANT
    Jobs          \* the refreshes of a run

VARIABLE
    jobs          \* the progress of each refresh

JobPcs == {"new", "fetch", "read", "scan", "flush", "finish"} \cup Ended

(* url and seen are what was read from backend_config, spec is the fetched *)
(* document without its /_admin paths, todo the operations not looked up   *)
(* yet, pending the rows whose UPDATE waits for the first flush, bad that  *)
(* the document has a value that SQLite cannot store (a summary that is    *)
(* not a string).  gen, config.gen when the document arrived, is history.  *)
Job == [pc : JobPcs, url : Urls, seen : {"none", "success", "error"},
        spec : SUBSET Ops, todo : SUBSET Ops, pending : SUBSET Ops, bad : BOOLEAN,
        gen : Nat]

JobAt(pc, url, seen) ==
    [pc |-> pc, url |-> url, seen |-> seen, spec |-> {}, todo |-> {},
     pending |-> {}, bad |-> FALSE, gen |-> 0]

IdleJob(pc) == JobAt(pc, None, "none")

SchemaSyncTypeOK == jobs \in [Jobs -> Job]

SchemaSyncInit == jobs = [j \in Jobs |-> IdleJob("new")]

EndJob(j, pc) == jobs' = [jobs EXCEPT ![j] = IdleJob(pc)]

(* An outcome that equals the one the job has read is not written.         *)
Recorded(j, outcome, fetched) ==
    [config EXCEPT !.status = IF outcome = jobs[j].seen THEN @ ELSE outcome,
                   !.fetched = fetched]

(* refresh_backend_config or _maybe_run_scheduled_sync: read the singleton *)
(* and send the request for the document.                                  *)
StartRefresh(j) ==
    /\ jobs[j].pc = "new"
    /\ loop = None
    /\ jobs' = [jobs EXCEPT ![j] =
            IF Configured THEN JobAt("fetch", config.openapi, config.status)
                          ELSE IdleJob("failed")]
    /\ UNCHANGED storeVars

(* The fetch fails, or its result is no OpenAPI object: the except clause  *)
(* records the error.                                                      *)
FetchFails(j) ==
    /\ jobs[j].pc = "fetch"
    /\ loop = None
    /\ config' = Recorded(j, "error", config.fetched)
    /\ EndJob(j, "failed")
    /\ UNCHANGED <<operations, tokens, permissions, env, loop, matcher>>

(* The document arrives and sync_operations begins.                        *)
FetchReturns(j, spec, bad) ==
    /\ jobs[j].pc = "fetch"
    /\ loop = None
    /\ bad => spec # {}
    /\ loop' = j
    /\ jobs' = [jobs EXCEPT ![j].pc = IF spec = {} THEN "scan" ELSE "read",
                            ![j].spec = spec, ![j].todo = spec, ![j].bad = bad,
                            ![j].gen = config.gen]
    /\ UNCHANGED <<config, operations, tokens, permissions, env, matcher>>

(* Mutant of LookUpClean: a row that was deactivated counts as clean.      *)
LookUpPresent(j, o) ==
    /\ jobs[j].pc = "read"
    /\ ~jobs[j].bad
    /\ o \in jobs[j].todo \cap Rows
    /\ jobs' = [jobs EXCEPT ![j].todo = @ \ {o},
                            ![j].pc = IF jobs[j].todo = {o} THEN "scan" ELSE "read"]
    /\ UNCHANGED storeVars

(* session.get(Operation, ...): an active row with the same summary stays  *)
(* clean.                                                                  *)
LookUpClean(j, o) ==
    /\ jobs[j].pc = "read"
    /\ ~jobs[j].bad
    /\ o \in jobs[j].todo \cap ActiveOps
    /\ jobs' = [jobs EXCEPT ![j].todo = @ \ {o},
                            ![j].pc = IF jobs[j].todo = {o} THEN "scan" ELSE "read"]
    /\ UNCHANGED storeVars

(* Any other is dirty: an INSERT or an UPDATE that the next statement      *)
(* flushes.                                                                *)
LookUpDirty(j, o) ==
    /\ jobs[j].pc = "read"
    /\ o \in jobs[j].todo
    /\ jobs' = [jobs EXCEPT ![j].pc = "flush", ![j].pending = {o} \cap Rows]
    /\ UNCHANGED storeVars

(* Every operation was clean: the SELECT of all rows finds those to        *)
(* deactivate.                                                             *)
SelectRemoved(j) ==
    /\ jobs[j].pc = "scan"
    /\ jobs' = [jobs EXCEPT ![j].pc = "finish", ![j].pending = ActiveOps \ jobs[j].spec]
    /\ UNCHANGED storeVars

(* An outcome recorded with the rest of the transaction.                   *)
CommitSuccess(j) ==
    /\ config' = Recorded(j, "success", TRUE)
    /\ EndJob(j, "done")
    /\ loop' = None
    /\ UNCHANGED <<tokens, permissions, env, matcher>>

(* Mutants of Reconciled: a new operation gets no row; nothing is          *)
(* deactivated.                                                            *)
ReconciledInPlace(spec, todo, n) ==
    [o \in Ops |->
        [operations[o] EXCEPT !.active = o \in todo \/ (@ /\ o \in spec)]]

ReconciledByAdding(spec, todo, n) ==
    [o \in Ops |->
        IF o \in todo
        THEN [row |-> IF o \in Rows THEN operations[o].row ELSE n, active |-> TRUE]
        ELSE operations[o]]

(* operations after the INSERTs and UPDATEs of sync_operations.            *)
Reconciled(spec, todo, n) ==
    [o \in Ops |->
        IF o \in todo
        THEN [row |-> IF o \in Rows THEN operations[o].row ELSE n, active |-> TRUE]
        ELSE [operations[o] EXCEPT !.active = @ /\ o \in spec]]

(* The first write takes the lock, so what is left of sync_operations runs *)
(* in the transaction: the operations still to do become active rows, the  *)
(* active rows outside the document are deactivated.                       *)
CommitSync(j) ==
    /\ jobs[j].pc = "flush"
    /\ ~jobs[j].bad
    /\ jobs[j].pending \subseteq Rows
    /\ \E n \in RowIds :
        /\ IsNextId(n, {operations[o].row : o \in Rows})
        /\ operations' = Reconciled(jobs[j].spec, jobs[j].todo, n)
    /\ CommitSuccess(j)

CommitRemoved(j) ==
    /\ jobs[j].pc = "finish"
    /\ jobs[j].pending \subseteq Rows
    /\ operations' = [o \in Ops |->
            [operations[o] EXCEPT !.active = @ /\ o \notin jobs[j].pending]]
    /\ CommitSuccess(j)

(* Mutant of FlushFails: an UPDATE of a wiped row is tried again.          *)
FlushFailsOnBadValue(j) ==
    /\ jobs[j].pc \in {"flush", "finish"}
    /\ jobs[j].bad
    /\ EndJob(j, "failed")
    /\ loop' = None
    /\ UNCHANGED <<config, operations, tokens, permissions, env, matcher>>

(* The flush fails: a value SQLite cannot bind, or an UPDATE whose row has *)
(* been wiped since it was read.  The session is then unusable until a     *)
(* rollback, so the commit of the except clause fails too.                 *)
FlushFails(j) ==
    /\ jobs[j].pc \in {"flush", "finish"}
    /\ jobs[j].bad \/ ~(jobs[j].pending \subseteq Rows)
    /\ EndJob(j, "failed")
    /\ loop' = None
    /\ UNCHANGED <<config, operations, tokens, permissions, env, matcher>>

FetchEnds(j) ==
    \/ FetchFails(j)
    \/ /\ jobs[j].pc = "fetch"
       /\ \E spec \in SpecsOf[jobs[j].url], bad \in BOOLEAN : FetchReturns(j, spec, bad)

JobStep(j) ==
    \/ FetchEnds(j)
    \/ \E o \in Ops : LookUpClean(j, o) \/ LookUpDirty(j, o)
    \/ SelectRemoved(j)
    \/ CommitSync(j)
    \/ CommitRemoved(j)
    \/ FlushFails(j)

LoseJobs ==
    jobs' = [j \in Jobs |->
        IF jobs[j].pc \in {"fetch", "read", "scan", "flush", "finish"}
        THEN IdleJob("failed") ELSE jobs[j]]
=============================================================================
