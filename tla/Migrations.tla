------------------------------ MODULE Migrations ------------------------------
(***************************************************************************)
(* How the schema reaches its version when the process starts: the files   *)
(* of migrations/ that are not recorded, in order, statement by statement  *)
(* (executescript commits each), then the version in a transaction of its  *)
(* own.  The process may die between any two of these and is started       *)
(* again.  The schema is the tables, each with those of its columns that a *)
(* later statement names; what the tables hold, and the indexes, whose     *)
(* statements cannot fail, are left out.                                   *)
(***************************************************************************)
EXTENDS Naturals, Sequences, SequencesExt, Functions

CONSTANTS MaxCrashes   \* bound: how often the process is killed

VARIABLES
    schema,        \* tables to their columns
    recorded,      \* the versions in schema_migrations
    todo,          \* the statements left of the running script
    phase,         \* "down", "script", "record" or "serving"
    crashes

vars == <<schema, recorded, todo, phase, crashes>>

(***************************************************************************)
(* Statements: when SQLite accepts one, and the tables after it            *)
(***************************************************************************)

CreateTable(t, columns) == [does |-> "create", table |-> t, arg |-> columns]
AddColumn(t, column) == [does |-> "add", table |-> t, arg |-> column]
RenameColumn(t, columns) == [does |-> "rename column", table |-> t, arg |-> columns]
DropTable(t) == [does |-> "drop", table |-> t, arg |-> {}]
RenameTable(t, name) == [does |-> "rename", table |-> t, arg |-> name]
(* UPDATE, DELETE and INSERT ... SELECT FROM t.                            *)
Rows(t, columns) == [does |-> "rows", table |-> t, arg |-> columns]

Succeeds(tables, s) ==
    IF s.table \notin DOMAIN tables THEN s.does = "create"
    ELSE CASE s.does = "create" -> TRUE
           [] s.does = "add" -> s.arg \notin tables[s.table]
           [] s.does = "rename column" -> s.arg[1] \in tables[s.table]
           [] s.does = "drop" -> TRUE
           [] s.does = "rename" -> s.arg \notin DOMAIN tables
           [] s.does = "rows" -> s.arg \subseteq tables[s.table]

After(tables, s) ==
    LET others == Restrict(tables, DOMAIN tables \ {s.table})
        Of(t, columns) == [u \in DOMAIN others \cup {t} |->
                                IF u = t THEN columns ELSE others[u]]
    IN CASE s.does = "create" ->
                IF s.table \in DOMAIN tables THEN tables ELSE Of(s.table, s.arg)
         [] s.does = "add" -> Of(s.table, tables[s.table] \cup {s.arg})
         [] s.does = "rename column" ->
                Of(s.table, (tables[s.table] \ {s.arg[1]}) \cup {s.arg[2]})
         [] s.does = "drop" -> others
         [] s.does = "rename" -> Of(s.arg, tables[s.table])
         [] s.does = "rows" -> tables

(***************************************************************************)
(* The files                                                               *)
(***************************************************************************)

Initial == <<
    CreateTable("backend_config", {}),
    CreateTable("operations", {}),
    CreateTable("schema_snapshots", {}),
    CreateTable("users", {"email"}),
    CreateTable("tokens", {}),
    CreateTable("token_permissions", {})>>

TokensUuidId == <<
    AddColumn("tokens", "new_id"),
    Rows("tokens", {"new_id"}),
    AddColumn("token_permissions", "new_token_id"),
    Rows("token_permissions", {"new_token_id"}),
    CreateTable("tokens_v2", {}),
    Rows("tokens", {"new_id"}),
    CreateTable("token_permissions_v2", {}),
    Rows("token_permissions", {"new_token_id"}),
    DropTable("token_permissions"),
    DropTable("tokens"),
    RenameTable("tokens_v2", "tokens"),
    RenameTable("token_permissions_v2", "token_permissions")>>

HashedOperationIds == <<
    Rows("token_permissions", {}),
    Rows("operations", {}),
    AddColumn("operations", "openapi_operation_id")>>

RequestLogs == <<CreateTable("request_logs", {})>>

SyncStatus == <<
    AddColumn("backend_config", "last_sync_status"),
    AddColumn("backend_config", "last_sync_error")>>

SyncInterval == <<AddColumn("backend_config", "schema_sync_interval_seconds")>>

EmailToUsername == <<RenameColumn("users", <<"email", "username">>)>>

Files == <<Initial, TokensUuidId, HashedOperationIds, RequestLogs, SyncStatus,
           SyncInterval, EmailToUsername>>
Versions == DOMAIN Files

Empty == [t \in {} |-> {}]
Migrated(n) == FoldLeft(After, Empty, FlattenSeq(SubSeq(Files, 1, n)))

(***************************************************************************)
(* The process                                                             *)
(***************************************************************************)

(* The database of some release, or none yet.                              *)
Init ==
    /\ \E n \in Versions \cup {0} : schema = Migrated(n) /\ recorded = 1..n
    /\ todo = <<>>
    /\ phase = "down"
    /\ crashes = 0

Pending == Versions \ recorded

First(versions) == CHOOSE n \in versions : \A m \in versions : n <= m

(* run_migrations goes on with the first of these files, if any.           *)
GoOn(pending) ==
    IF pending = {} THEN phase' = "serving" /\ todo' = <<>>
    ELSE phase' = "script" /\ todo' = Files[First(pending)]

Start ==
    /\ phase = "down"
    /\ GoOn(Pending)
    /\ UNCHANGED <<schema, recorded, crashes>>

RunStatement ==
    /\ phase = "script"
    /\ Succeeds(schema, Head(todo))
    /\ schema' = After(schema, Head(todo))
    /\ todo' = Tail(todo)
    /\ phase' = IF Tail(todo) = <<>> THEN "record" ELSE "script"
    /\ UNCHANGED <<recorded, crashes>>

(* The exception leaves the lifespan: the process ends.                    *)
StatementFails ==
    /\ phase = "script"
    /\ ~Succeeds(schema, Head(todo))
    /\ phase' = "down"
    /\ todo' = <<>>
    /\ UNCHANGED <<schema, recorded, crashes>>

Record ==
    /\ phase = "record"
    /\ recorded' = recorded \cup {First(Pending)}
    /\ GoOn(Pending \ {First(Pending)})
    /\ UNCHANGED <<schema, crashes>>

Crash ==
    /\ phase # "down" /\ crashes < MaxCrashes
    /\ phase' = "down"
    /\ todo' = <<>>
    /\ crashes' = crashes + 1
    /\ UNCHANGED <<schema, recorded>>

Work == Start \/ RunStatement \/ StatementFails \/ Record
Next == Work \/ Crash

Spec == Init /\ [][Next]_vars

(* The process is started again when it is down, and does not hang.        *)
FairSpec == Spec /\ WF_vars(Work)

(***************************************************************************)
(* Properties                                                              *)
(***************************************************************************)

(* README.md:113: the files are idempotent and applied the next time the   *)
(* app starts; so an upgrade that was interrupted is completed by a later  *)
(* start.                                                                  *)
UpgradeCompletes == phase = "down" ~> phase = "serving"
=============================================================================
