--------------------------- MODULE BackendConfigApi ---------------------------
(***************************************************************************)
(* PUT /_admin/api/backend-config and the environment presets applied at   *)
(* startup (routers/backend_config.py).  The PUT runs on a pool thread: it *)
(* reads the row, then writes it in one transaction with the wipe of       *)
(* operations and permissions.  The ORM's UPDATE names only the columns    *)
(* whose value differs from the one that was read.                         *)
(***************************************************************************)
EXTENDS Store

CONSTANTS
    Puts,         \* the PUT requests of a run
    PutPairs      \* the <<endpoint, openapi>> pairs a payload may hold

ASSUME BackendConfigAssumption == PutPairs \subseteq Servers \X Servers

VARIABLE
    puts          \* the progress of each request

(* seen is the row as it was read, want the pair of URLs to save.          *)
Put == [pc : {"new", "write"} \cup Ended, seen : Config,
        want : [endpoint : Urls, openapi : Urls]]

IdlePut(pc) ==
    [pc |-> pc, seen |-> Unconfigured,
     want |-> [endpoint |-> None, openapi |-> None]]

BackendConfigTypeOK == puts \in [Puts -> Put]

BackendConfigInit == puts = [p \in Puts |-> IdlePut("new")]

EndPut(p, pc) == puts' = [puts EXCEPT ![p] = IdlePut(pc)]

(* settings.endpoint_url or the other URL.                                 *)
Preset(pinned, url) == IF pinned # None THEN pinned ELSE url

PairOf(row) == <<row.endpoint, row.openapi>>

(* Mutant of UpdatedConfig: the UPDATE names both URL columns.             *)
OverwrittenConfig(seen, want) ==
    [config EXCEPT !.endpoint = want.endpoint, !.openapi = want.openapi,
                   !.fetched = @ /\ (PairOf(want) = PairOf(seen) \/ ~seen.fetched),
                   !.gen = IF PairOf(want) # PairOf(config) THEN @ + 1 ELSE @]

(* config after an UPDATE of the URL columns that differ from what was     *)
(* read, and of last_fetched_at when it was set and the pair changes.      *)
UpdatedConfig(seen, want) ==
    LET endpoint == IF want.endpoint # seen.endpoint THEN want.endpoint ELSE config.endpoint
        openapi == IF want.openapi # seen.openapi THEN want.openapi ELSE config.openapi
    IN [endpoint |-> endpoint,
        openapi |-> openapi,
        fetched |-> config.fetched /\ (PairOf(want) = PairOf(seen) \/ ~seen.fetched),
        status |-> config.status,
        gen |-> IF <<endpoint, openapi>> # PairOf(config) THEN config.gen + 1 ELSE config.gen]

(* The write transaction: the wipe when the pair differs from the one that *)
(* was read, and the row.                                                  *)
WriteConfig(seen, want) ==
    /\ config' = UpdatedConfig(seen, want)
    /\ IF PairOf(want) # PairOf(seen)
       THEN ResetOperationsAndPermissions
       ELSE UNCHANGED <<operations, permissions>>

InsertedConfig(want) ==
    [endpoint |-> want.endpoint, openapi |-> want.openapi,
     fetched |-> FALSE, status |-> "none", gen |-> 0]

(* upsert_backend_config: a pinned URL wins over the payload; the SELECT.  *)
ReadForUpsert(p, pair) ==
    /\ puts[p].pc = "new"
    /\ puts' = [puts EXCEPT ![p] =
            [pc |-> "write", seen |-> config,
             want |-> [endpoint |-> Preset(env.endpoint, pair[1]),
                       openapi |-> Preset(env.openapi, pair[2])]]]
    /\ UNCHANGED storeVars

(* Its commit when a row was read.                                         *)
CommitUpsert(p) ==
    /\ puts[p].pc = "write"
    /\ puts[p].seen.endpoint # None
    /\ WriteConfig(puts[p].seen, puts[p].want)
    /\ EndPut(p, "done")
    /\ UNCHANGED <<tokens, env, loop, matcher>>

(* Its commit when there was no row: the INSERT of id 1, which fails when  *)
(* another request has inserted it since.                                  *)
CommitInsert(p) ==
    /\ puts[p].pc = "write"
    /\ puts[p].seen.endpoint = None
    /\ \/ /\ ~Configured
          /\ config' = InsertedConfig(puts[p].want)
          /\ EndPut(p, "done")
       \/ /\ Configured
          /\ EndPut(p, "failed")
          /\ UNCHANGED config
    /\ UNCHANGED <<operations, tokens, permissions, env, loop, matcher>>

(* apply_env_config_overrides, run before the new process serves requests: *)
(* nothing to do without presets, an INSERT only when both are set.        *)
ApplyEnvConfigOverrides(e) ==
    LET want == [endpoint |-> Preset(e.endpoint, config.endpoint),
                 openapi |-> Preset(e.openapi, config.openapi)]
    IN IF Configured
       THEN WriteConfig(config, want)
       ELSE /\ config' = IF e.endpoint # None /\ e.openapi # None
                         THEN InsertedConfig(e) ELSE config
            /\ UNCHANGED <<operations, permissions>>

PutArrives(p) == \E pair \in PutPairs : ReadForUpsert(p, pair)

PutStep(p) == CommitUpsert(p) \/ CommitInsert(p)

LosePuts ==
    puts' = [p \in Puts |->
        IF puts[p].pc = "write" THEN IdlePut("failed") ELSE puts[p]]
=============================================================================
