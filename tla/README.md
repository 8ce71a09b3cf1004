# Verification of scope-proxy

scope-proxy stands in front of one HTTP API, reads its OpenAPI document, and
forwards a request only when its bearer token was granted the operation the
request resolves to. An admin configures the upstream, refreshes the schema and
issues, edits, revokes and deletes tokens through a dashboard. This directory
holds TLA+ models of the backend (`backend/app`), of the admin UI that talks to it
(`frontend/src`) and of the demo build that imitates it, TLC runs over small
instances and TLAPS proofs for every value of the constants.

- [1. The system](#1-the-system)
- [2. What the code runs on](#2-what-the-code-runs-on)
- [3. Modules](#3-modules)
- [4. Properties and runs](#4-properties-and-runs)
- [5. Disagreements found](#5-disagreements-found)
- [6. Proofs](#6-proofs)
- [7. Not modelled, and the plan](#7-not-modelled-and-the-plan)

Inside this directory: `tlc -workers 2 -config Requests.cfg MCScopeProxy` checks a
run (`PROJECT.json` names the module of each), and `tlapm` on `ScopeProxyProofs`,
`OneTabProofs`, `PermissionTableProofs`, `QueryCacheProofs`, `SessionGateProofs`
and `AdminUiProofs` checks the proofs.

## 1. The system

| Component | State | Operations | What makes it correct |
| --- | --- | --- | --- |
| Token API (`routers/tokens.py`) | `tokens`, `token_permissions` | create, update, revoke, delete (plain functions on pool threads) | a life only advances; an update replaces one token's permissions; a deleted token leaves no permission |
| Backend configuration (`routers/backend_config.py`) | the `backend_config` row, environment presets | PUT (pool thread), presets at startup | a switch wipes operations and permissions with it; a pinned URL wins |
| Schema refresh (`services/schema_sync.py`) | `operations`, `schema_snapshots`, sync outcome columns | manual refresh, background loop (coroutines) | the active operations are one document's; new ones are ungranted; the outcome is recorded |
| Proxy (`routers/proxy.py`) | one cached matcher, `request_logs` | any path (coroutine) | only a live token's granted, active operation on the current backend is forwarded; every request is logged |
| Operation matcher (`services/operation_matcher.py`) | single-slot cache | build, match | an active operation's requests resolve to it |
| Sync scheduler (`schema_sync_loop`) | `last_run_at` in memory | tick | a due sync runs, and failures do not stop the loop |
| Accounts (`routers/auth.py`, `auth/`) | `users`, cookie sessions, failed attempts | setup, login, logout, rename, password | there is one administrator; parallel attempts pass the limit by a bounded number |
| Session gate (`App.tsx`, the two guards, login, setup and account pages) | the cached user and setup status, the location | sign in, set up, rename, sign out, redirects | a signed-out tab shows no protected page; whoever must sign in finds a form |
| Migrations (`migration_runner.py`) | `schema_migrations`, the schema | apply at startup | each file is applied once, in order, also across crashes |
| Request log and usage (`request_log_service.py`, `usage.py`) | `request_logs` | record, prune, summarise | one row per request, retention |
| Dashboard (the pages behind the guards) | cached queries, forms, dialogs | the requests above, and what their answers set off | pages at rest are current; a switch is warned of and followed by a refresh; what is saved was chosen |
| Permission table (`OperationPermissionTable.tsx`) | filters, tabs, the selection it is given | tick, bulk buttons | a bulk button changes what it shows and nothing else |
| Demo (`demo/mockApi.ts`) | all of the server's state, in the tab | the same endpoints | the UI sees the same life of a token |

How they interact: every component shares the database. The proxy reads what
the three admin components write, in four separate SELECTs. A refresh awaits the
upstream's document between reading the configuration and writing operations. A
switch of the backend deletes what the token API and the refresh have written.
The process may stop at any point; what is committed stays, and the next start
may apply other presets. The UI keeps what it has fetched in one cache that all
pages share; an answer, a mutation's callback and the visitor's next click meet
there in any order.

Hard to test, and therefore what the properties aim at: threads that interleave
between two statements; a coroutine that goes on with rows read before its
await; the ORM's UPDATE of only the columns that differ from what *this* request
has read; DELETE by a primary key that SQLite has reused; a wipe in the middle
of a reconciliation; a crash between two commits or two statements of a migration;
a form that starts from what the cache holds; two guards that look at one query.
`PROJECT.json` lists these
hazards with their lines.

## 2. What the code runs on

The models rest on these facts about the libraries, read off how the code uses
them (the definitions that model them directly are marked external in PROJECT.json):

- **Handlers.** FastAPI runs a plain `def` endpoint on a pool thread, so the
  token endpoints and the PUT interleave with everything. An `async def` endpoint
  runs on the event loop and gives it up only at an `await` that waits: the
  fetch of the document and the upstream request. The variable `loop` names the
  coroutine that is between two steps without having given up the loop; another
  coroutine cannot start or resume meanwhile.
- **Transactions.** SQLite has one writer. `sqlite3` begins a transaction at the
  first INSERT, UPDATE or DELETE; SELECTs before it read what is committed at
  that moment. Hence one step per SELECT that matters, and one step from the
  first write to the COMMIT, with every SELECT in between inside it. A pending
  change is flushed by the next statement of the session, so a SELECT after a
  modified object is part of the transaction.
- **ORM.** An UPDATE names the columns whose value differs from the loaded one
  (`UpdatedConfig`, `Recorded`). An UPDATE or DELETE of a mapped object that
  matches no row: the UPDATE raises `StaleDataError` and rolls back, the DELETE
  only warns. One flush sends its INSERTs before its DELETEs. After a failed
  flush the session refuses everything until a rollback, so the `commit` in the
  `except` clause of `refresh_backend_schema` fails as well.
- **Keys.** A new integer key is the largest plus one; the key of a deleted last
  row is used again. Foreign keys are declared but SQLite does not enforce them
  unless asked to, and the code does not ask.
- **Threads.** The pool of FastAPI's `def` endpoints has 40 threads (anyio's
  limiter). How many of its requests come from one address is not limited, so
  one address can have as many logins at work as there are free threads.
- **Sessions.** The session is a signed cookie. Starlette's middleware (1.6.0 in
  `uv.lock`) sends it again only when a handler has changed it: a GET that was sent
  before a logout does not bring the cookie back when it is answered after it.
  `LoggedOutStaysOut` rests on that.
- **URLs.** `HttpUrl` of pydantic parses what is typed; `str()` of it is normalised,
  so `http://host` comes back as `http://host/` (`test_backend_config.py:24-31`).
  An environment preset is a plain string.
- **Scripts.** `executescript` runs each statement in a transaction of its own.
  SQLite refuses a second `ADD COLUMN` of one name, a `RENAME COLUMN` of a column
  that is gone, and any statement on a table that does not exist.
- **TanStack Query (v5).** A query that is mounted is fetched, since everything is
  stale at once; a fetch in flight is joined. `invalidateQueries` takes a prefix of
  the key, starts the fetch of a query on display over, and only marks the others,
  which are fetched when they are mounted next anyway. A failed fetch sets the error and
  keeps the data. `isLoading` is fetching without data. `setQueryData` does not
  touch a fetch in flight, `clear` drops them. `main.tsx` turns retries off.
  `mutate` runs its callback also when the component that called it is gone.
- **React.** State belongs to a mounted component and its key; it starts from the
  arguments of `useState` once, and is lost when the component goes. A disabled
  button, or one under a modal, is not pressed.

## 3. Modules

| Module | Models | State |
| --- | --- | --- |
| `Store` | the tables, presets, event loop, matcher cache, initial states | `config operations tokens permissions env loop matcher` |
| `TokenApi` | `routers/tokens.py` | `tokenCalls` |
| `BackendConfigApi` | the PUT and `apply_env_config_overrides` | `puts` |
| `SchemaSync` | `refresh_backend_schema`, `sync_operations` | `jobs` |
| `ProxyGate` | `routers/proxy.py` and the matcher lookup | `calls` |
| `ScopeProxy` | the composition, restarts, fairness, properties | `restarts` |
| `TokenLifecycle`, `PermissionMatrix` | abstract specifications | `life`, `matrix` |
| `QueryCache` | the tab's requests and cached queries, lost calls | `client faults` |
| `Accounts` | `routers/auth.py`, the rate limiter, the demo's accounts | `mode users cookie received checking failures` |
| `SessionGate` | the guards, the login, setup and account pages, logout | `page pending budget left behind` |
| `PermissionTable` | what the table shows and its bulk buttons do | |
| `AdminServer` | what the admin endpoints and the scheduled sync do and answer, real or demo | `mode server received` |
| `AdminPages` | which page and component is mounted, its state, its queries | `page view visits spent unseen` |
| `TokenPages` | `TokensPage`, `TokenEditPage` and their mutations | |
| `ConfigPages` | `ConfigForm` of `DashboardPage` and its mutations | |
| `AdminUi` | the composition of the pages and the server | `owed regranted` |
| `Migrations` | `migration_runner.py` and the seven files | `schema recorded todo phase crashes` |
| `MCScopeProxy`, `MCSessionGate`, `MCAdminUi` | the small instances | |
| `ScopeProxyProofs` | the backend's inductive invariant and theorems | |
| `OneTabProofs` | what holds for an admin who waits for each response | |
| `PermissionTableProofs` | the theorems on the table | |
| `QueryCacheProofs` | lemmas on the tab's requests and cache | |
| `SessionGateProofs`, `AdminUiProofs` | the UI's inductive invariants and theorems | |

Correspondence. A handler is a function from a finite set of requests
(`TokenCalls`, `Puts`, `Jobs`, `Calls`) to records; `pc` says which statement is
next, the other fields are what the handler's ORM objects hold. A request is made
once, so the sets bound the load of a run. What a step does:

- `CreateToken` is the first commit of `create_token`, then `RefreshCreated`,
  `SelectPermissions` and `CommitPermissions`. `UpdateToken` loads the token; when
  name or expiry changed, everything else is one transaction (`CommitRow`), and
  otherwise the permissions are selected and replaced in two steps. `RevokeToken`
  and `DeleteToken` check what they have loaded and commit in a later step.
- `ReadForUpsert` loads the row, `CommitUpsert` and `CommitInsert` write it.
  `Restart` does all of `ApplyEnvConfigOverrides` at once: the process serves
  nothing before its lifespan has started.
- `StartRefresh` is the refresh endpoint or the scheduler's tick,
  `FetchReturns`/`FetchFails` end the await, `LookUpClean`/`LookUpDirty` are the
  `session.get` of each operation, and from the first dirty row to the end
  `CommitSync` is one transaction. With nothing dirty, `SelectRemoved` reads all
  rows and `CommitRemoved` writes. `FlushFails` is the failed flush.
- `Authenticate`, `ResolveOperation`, `EnsurePermission` and `SendUpstream` are
  the SELECTs of one proxied request; `UpstreamAnswers`, `UpstreamFails` and
  `ClientDisconnects` end its await.
- `client.sent` are the calls the server has not executed yet, `client.answers`
  those it has; an answer may overtake any other. `Serve` executes one and `Deliver`
  runs the callback:
  `Settle` for a query, `SignedIn`, `LoggedOut`, `Renamed`, `Revoked`, `Created`,
  `Updated`, `Saved`, `Refreshed` and so on for the mutations. `Render` is what React
  makes of the result: a page that is entered fetches, a component whose key has
  changed starts over.
- A page load (`Load`) forgets the tab's calls and cache. Of the mutations in flight
  any may have reached the server: those go to `received`, are executed at some later
  moment (`ServeReceived`, `Serve`) and answered to nobody. A received refresh whose
  fetch fails changes nothing that is modelled. In the demo the server's state
  survives in the session storage, and a call in flight is lost with its page.
- `ScheduledSync` is one scheduled refresh, in the real build, at any moment.
- `CheckLogin`/`VerifyLogin` and `CheckSetup`/`InsertUser` are the two halves of a
  login and a setup, with the password hash between them; `checking` are the
  requests in that gap, of this tab or of other addresses (`Elsewhere`), one on each
  thread of the pool (`Threads`). `failures`
  holds the age of each failed attempt of an address or a username.
- `ProtectedRoute`, `RedirectIfAuthenticated`, `LoginPageToSetup` and
  `SetupPageToLogin` are the conditions under which a `<Navigate>` is rendered,
  `Redirects` follows one. `Idle` says that none is pending when the visitor acts.
- `view` is the `useState` of the mounted component: the dialog and the pending
  mutations of `TokensPage`, the selection and the issued token of `TokenForm`, the
  URLs, dialogs and pending mutations of `ConfigForm`.
- `Start`, `RunStatement`, `StatementFails` and `Record` are `run_migrations`;
  `Crash` comes between any two of them.

Abstractions. An operation is the identity `compute_operation_id` gives it, with
the endpoint (method and path) it was made from; path templates are resolved by
openapi-core and are not modelled, so a request's endpoint is one value. In the
backend's models a URL is the server it names; how it is spelled is in `AdminServer`.
The owner of a token (`tokens.py:27`) is left out: there is one administrator. A token's raw value is the token itself. Names, summaries,
latencies and statuses are left out; that a summary changed, or cannot be stored,
is a choice (`LookUpDirty` for an active row, `bad`). A payload names a set of
operations: the dashboard sends a set.

In the UI's models a handler of the server is one step, because `ScopeProxy` has
its commits. A pair of URLs is one value, the target, as it is spelled: the form compares
targets, a PUT stores `Normalized[target]`, the demo and a preset store the target
itself. A server that was used may therefore start with any target. Presets in force
while the UI runs (`settings.endpoint_url` instead of the payload's, the disabled
inputs), the sync interval, names and expiry of tokens are left out. In the demo a handler
and the callbacks of its answer are one task. There is one tab; other
administrators are not in `AdminUi`, other clients sign in and set up in
`SessionGate`. List filters and searches are not state: any filtered view may be
the one whose bulk button is pressed. A migration's schema is its tables, each with
those of its columns that a later statement names.

History. `config.gen` counts switches of the backend and a permission carries the
count of the moment its request began; `born` is the token's state when a proxied
request arrived. `left`, `behind`, `unseen`, `owed` and `regranted` are history too, and so are the second and third
field of the body of a save: whether it was warned of, and whether the page was at
rest. No action of the program reads them.

Initial states. A new installation, or one whose admin has saved a server,
refreshed its schema and issued tokens one request after the other
(`RunningInstallation`). For the UI: a fresh database, a used one, or the demo's
seed, and a browser with or without a session; for `Migrations`, the database of
any release.

Mutants. A definition introduced as a mutant is a plausible bug of the operator
that follows it. No action uses one; it exists to show that a property can fail.

## 4. Properties and runs

| Run | Properties | Instance |
| --- | --- | --- |
| `Requests` | `TypeOK`, `CatalogFromOneSpec`, `NoForwardAfterRevocation`, `SwitchWipes`, `ImplementsLifecycle` | three token requests at once, or one with two PUTs and a refresh; one token, the clock, a proxied request, a restart that pins a URL |
| `OneTab` | `NoOrphanGrants`, `GrantsOfCurrentBackend`, `PatchTakesEffect`, `ImplementsMatrix`, `SyncIsExact` | an admin who waits for each response; two tokens, two token requests, a PUT, two refreshes, a restart |
| `Liveness` | `RequestsEnd` | one request of each kind at once, fair |
| `Session` | `TypeOK`, `LoggedOutStaysOut`, `AccountIsCurrent`, `AttemptsBounded`, `FormOffered` | both builds, two names, two passwords, one lost answer, two threads; three events of one tab, or one next to another client; fair |
| `AdminUi` | `TypeOK`, `SettledPagesAreCurrent`, `SettledSaveIsSafe`, `ImplementsLifecycle`, `SwitchIsFollowedByRefresh` | both builds, two tokens, three spellings of two targets, one loss; two events on the list with a form or on the dashboard, one on the dashboard with the pages it shares queries with; fair |
| `BackendSwitch`, `Rename`, `NewOperations`, `ExpiredSession`, `PresetSpelling`, `StaleForm`, `Upgrade` | one each, violated | section 5 |

What they say:

- `ImplementsLifecycle`: the token endpoints, with their stale loads, refine
  `TokenLifecycle`: issued once, revoked at most once, deleted only after that.
- `NoForwardAfterRevocation`: a request that arrives after the revocation is never
  sent upstream, although updates loaded before the revocation commit after it.
- `CatalogFromOneSpec`: the active operations are part of one document of one
  server. A mixture could hold two operations for one method and path.
- `SwitchWipes`: the stored pair of URLs never changes without the wipe in the
  same step, also when the UPDATE acts on a row that another PUT has changed, and
  the result is a pair nobody asked for.
- `SyncIsExact`: a refresh that succeeds leaves exactly its document active unless
  the backend was switched since the document arrived. It holds for `OneTab = TRUE`:
  of two PUTs that overlap and store the same pair, the second wipes the
  operations without a switch being counted, and a refresh that had looked up its
  rows before ends with fewer active than its document has.
- `PatchTakesEffect`, `NoOrphanGrants`, `GrantsOfCurrentBackend`, `ImplementsMatrix`:
  the permissions are what the admin's requests, in order, asked for. These hold
  for `OneTab = TRUE` only. With `OneTab = FALSE` two updates leave the union of
  their lists, a grant commits after a switch, and a reused key takes another
  token's permission: TLC then breaks `PatchTakesEffect`,
  `GrantsOfCurrentBackend` and `ImplementsMatrix` in this instance. A grant that commits after its token's deletion takes three overlapping
  requests (update, revocation, deletion), which the instance `Requests` has; there
  TLC finds `NoOrphanGrants` broken. The code has no
  protection against concurrent admin requests, and its documents promise none;
  the constant states the assumption instead of hiding it. Refreshes, and
  restarts in the middle of a request, are not restricted by it.
- `RequestsEnd`: every handler ends.
- `LoggedOutStaysOut`: after a logout no answer that was under way, and nothing
  cached, brings a protected page back. A rename that is pending while the
  visitor logs out does: its callback writes the user into the cleared cache.
  The property leaves that case out (`left`), and TLC shows it otherwise.
- `AccountIsCurrent`: at rest, the name on display is the account's, although a rename
  writes the cache while fetches of it are in flight, unless the tab is `behind`.
  It is behind after a rename whose answer arrived before an older answer that names
  the user (`setQueryData` does not stop the fetch), and after a rename of an earlier page
  was executed and answered to nobody, until a fetch of the user catches up. Each of the
  two is needed: without either TLC finds a name at rest that is not the account's.
- `AttemptsBounded`: the check and the record of a failed login are two critical
  sections, so as many logins as there are threads can be between them. An address or a
  name never has more failures on record than the limit and the threads allow.
- `FormOffered`: a visitor nobody takes for signed in reaches a form, or is taken
  for signed in after all. Losses of the setup status, redirects between the login and
  the setup page and reloads do not prevent it.
- `SettledPagesAreCurrent`: when nothing is in flight and nothing was lost, a page
  shows what the server has: the mutations' invalidations start over the fetches
  they overtake. Left out are the queries in `unseen`, which the tab has no way to know of
  or has not fetched again. A query gets there in one of four ways, and with any one of
  them left out TLC finds a page at rest that is outdated: a mutation of an earlier load
  changed it (`Unheard`); the scheduled sync changed it (`ScheduledSync`); a PUT wiped a
  token's permissions, and the callback does not invalidate `['token', id]` (`Untold`,
  section 5, `StaleForm`); or a mutation's answer arrived while an older answer to the
  query was on its way that was not started over, because a first fetch has no data yet
  and is joined (`Overtaken`). It leaves `unseen` when a fetch of it is executed.
- `SettledSaveIsSafe`: a save from a page at rest, that was sent without the warning and
  switches the backend nevertheless, finds URLs that a PUT would not have stored as they are.
  The page may have been out of date before it came to rest. Without the exception it is
  false (section 5, `PresetSpelling`).
- `SwitchIsFollowedByRefresh`: `saveMutation`'s callback sends the refresh also when
  the form is no longer on the screen. A reload ends the obligation.
- `ImplementsLifecycle` of `AdminUi`: with the list's buttons in front of it the
  demo's DELETE, which asks for no revocation, still gives tokens the life
  `TokenLifecycle` describes.

Bounds. The operations are `o1` and `o2`, one endpoint under two operationIds, and
`o3`, another endpoint; server `a` publishes `{o1, o3}` or `{o2}`, server `b`
publishes `{o1}`, the same identity as at `a`. That covers an addition, a removal,
a rename, a rename back, and an identity two servers share. `MaxRowId` is
between 4 and 6, no fewer than the rows the requests of a run can insert together, so no INSERT is ever
refused by the bound (`RequestsEnd` would show it: the handler would not end).
Two requests of a kind are enough for one to act on what the other has changed;
`Requests` has three so that an update, a revocation and a deletion overlap, but not
together with the PUTs (`Mixes`: what may be sent in one behaviour). One
restart separates what is committed from what is lost. The clock is one step per
token, `Expire`. Symmetry is used over requests and tokens, in runs that check
safety only.

The UI's instances are cut by what the visitor does: `events`, of a budget or of a
visit, is the number of forms sent, pages loaded, scheduled syncs and losses, while
navigation, focus, dialogs, typing, redirects and what other clients do are free. Two events are enough for a change
and another that meets its answer. At most one call of a kind is in flight
(`Submit`, `Save`), those of earlier loads included. A visit names the pages a
behaviour may open, each page with one it shares queries or callbacks with, and the URLs it
types or finds stored; all pages and all URLs at once only
multiply states. One operation shows whether a list is current; the algebra of larger
selections is proved in `PermissionTableProofs`. Of the three targets `bare` is `u1` without
the slash. `MaxAttempts = 1` and `Window = 1` are the smallest limiter that blocks and
forgets. Three events are a rename, a reload and another rename or a logout; next to other
clients, whose logins and setups are not events, one form of the tab is enough to meet theirs.
`MaxCrashes = 1` is enough for `Upgrade`.

Deadlock is not checked: when every request of a run is over, nothing is left to
do. That no handler is stuck before is `RequestsEnd`.

Fairness (`FairSpec`) is weak fairness of the steps of each handler that has
begun: pool threads are scheduled, the loop resumes a coroutine that is ready, and
an await ends because httpx bounds it (30 s by default for the upstream, 5 s for
the document). `PROXY_TIMEOUT_SECONDS` can disable the bound; then the upstream
must answer. No fairness is assumed of requests arriving, of the clock or of
restarts.

`SessionGate` assumes of the two queries that the answer of a fetch arrives (a lost
answer being an answer of its own) and that a fetch which the server can answer again
and again is answered: strong fairness, since `Load` starts it over and other requests
may hold the threads. It assumes that a thread which verifies a password gets done, and
that the browser follows redirects. `AdminUi` assumes the same of a refresh, while one is
owed, and of the answer of a save. That an answer arrives is written as a condition on states,
for example `[]<>(\A a \in AnswersOf(client) : a.call.method # "PUT")`: a delivery is always
enabled and there is one such answer at a time, so this is weak fairness of its
`Deliver`, and TLC checks it in a fraction of the time. Nothing is
assumed of the visitor. `Migrations` assumes that a process that is down is started
again, by its operator or a supervisor, and that statements end.

## 5. Disagreements found

- `BackendSwitch` / `NoForwardAcrossBackends`. `_reset_operations_and_permissions`
  says that permissions granted against the previous backend "must never silently
  apply to a different server" (`backend_config.py:46-48`). `proxy` reads the
  permission and the backend in two SELECTs; a PUT that commits between them sends
  the request to the new server on the strength of the old permission.
- `Rename` / `ActiveOperationsMatch`. The matcher's docstring says it is built
  "from active Operations" (`operation_matcher.py:19`). It is built from all rows;
  after an operationId is renamed and renamed back, the deactivated row was
  inserted later and shadows the active one, and its requests get 403.
- `NewOperations` / `NewOperationsUngranted`. "Newly added operations have no
  permissions by default" (`README.md:151`). A PATCH accepts identities that have
  no row, and the permission is in force when a refresh adds the operation.
- `ExpiredSession` / `SentAwayFindsForm`. "Keep the current location so LoginPage can
  send the user back here after signing in" (`ProtectedRoute.tsx:23`). When the
  session ends under an open tab, the query of the user fails and keeps its data:
  `ProtectedRoute` redirects because of the error, `RedirectIfAuthenticated` redirects
  back because of the data, and each mount fetches and fails again. The login form
  is not reached until the page is reloaded.
- `PresetSpelling` / `SwitchIsWarned`. "Warn before switching: this wipes operations and
  all token permissions" (`DashboardPage.tsx:135`). A preset is stored as it is spelled
  (`backend_config.py:82-93`), a PUT stores and compares `str(HttpUrl)` (`backend_config.py:108-117`),
  the form compares strings (`DashboardPage.tsx:129-130`). When a preset without the final
  slash has been removed, a save of the untouched form is no change for the form and a
  switch for the server.
- `StaleForm` / `RegrantedExplicitly`. After a switch "the admin ... re-grants
  permissions explicitly" (`backend_config.py:46-50`). `DashboardPage.tsx:122`
  invalidates `['tokens']`, not `['token', id]`: a token's form that is opened again
  starts from the cached permissions, and a save, for whatever reason, grants what
  was wiped.
- `Upgrade` / `UpgradeCompletes`. The migrations are "idempotent SQL files"
  (`README.md:113`) of which a start applies those not recorded. A process killed
  between a statement that is not idempotent (`ADD COLUMN`, `RENAME COLUMN`, the table
  rebuild of 0002) and the record fails at that statement on every later start.

One more has no run of its own. "scope-proxy has a single admin account" (`README.md:83`), and
setup is "only usable while no account exists yet; once the first admin is created ... it
stays closed for good" (`auth.py:32-33`). Two requests that find no user before either has
inserted one create two administrators, if their usernames differ: TLC finds
`Len(users) <= 1` violated in the instance `Session`. That usernames are unique is all that
survives (`TypeOK`, `SessionTypes`).

## 6. Proofs

### The backend

`ScopeProxyProofs` proves, for any sets of operations, tokens, servers, documents
and requests and any bounds:

| Theorem | States |
| --- | --- |
| `TypeCorrect` | `Spec => []TypeOK` |
| `CatalogCorrect` | `Spec => []CatalogFromOneSpec` |
| `RevokedNeverForwards` | `Spec => []NoForwardAfterRevocation` |
| `LifecycleRefinement` | `Spec => ImplementsLifecycle` |
| `SwitchIsAtomic` | `Spec => SwitchWipes` |

Assumptions are those the modules state: `EndpointOf` is a function on operations,
`SpecsOf` gives sets of them, a document has one operation per method and path,
payloads name operations and servers, `None` is none of the other values.

The argument. None of the properties is inductive: whether a commit is harmless
depends on what its handler has read before others ran. `Inv` adds, per handler,
what is still true of its record between two steps:

- `TokenCallInv`: a deletion past its check is about a token that is revoked or
  already deleted. This carries the lifecycle over the gap between check and
  commit: `CommitDeletion` deletes from `revoked`, or again from `deleted`.
- `PutInv`: a PUT that has read a row finds one when it writes, so the pair it
  leaves has two URLs.
- `JobInv`: a refresh at work has a document of some server, and what it has still
  to look up is part of it, so what `CommitSync` activates is in that document.
- `CallInv`: a proxied request that arrived with a dead token stands before
  `_authenticate_token`, and its token is still dead.
- `ConfigInv`: the row has both URLs or there is none.

TLC found `Inv` to hold in the instance `Requests` before it was proved.
Each action has one lemma that it preserves `Inv`; `TokenCallStepEffect` says of
all token steps what they do to types and to lives, and both the invariant and
the refinement use it. `SwitchIsAtomic` rests on `ChangedPairWipes`: an UPDATE that
changes the stored pair has a column that differs from what was read, so the pair
it was meant to store differs as well, and the wipe is in the transaction.

### An admin who waits for each response

`OneTabProofs` proves the properties of the run `OneTab`, each under the hypothesis
`OneTab` that section 4 explains. Refreshes, proxied requests, the clock and
restarts are as free as before.

| Theorem | States |
| --- | --- |
| `GrantsHaveTokens` | `Spec => []NoOrphanGrants` |
| `GrantsAreForTheBackend` | `Spec => []GrantsOfCurrentBackend` |
| `UpdatesTakeEffect` | `Spec => PatchTakesEffect` |
| `SyncsAreExact` | `Spec => SyncIsExact` |
| `MatrixRefinement` | `Spec => ImplementsMatrix` |

They share one more inductive invariant, `TabInv`, over `Inv`. The grants alone are
not inductive, because a handler writes by what it read some steps before:

- `RowIdsUnique`, `LoopInv` and `GenInv` need no `OneTab`: primary keys are unique, two
  coroutines are never both between awaits, and no refresh is ahead of the count of
  switches.
- `OneAtATime`: at most one admin request is at work. From it follow `EditInv` (what
  a token call has read, the rows of its token included, is still so when it writes,
  so a DELETE by key meets the rows it means and no reused key) and `PutRead` (the
  URLs a PUT compares with are the stored ones).
- `GrantInv` is then what the tables hold, and `SyncInv` what a refresh at work knows:
  the operations it has looked up are active, and what it is about to deactivate is
  what its document lacks. Nobody but a switch takes an operation away meanwhile, and
  a switch is counted.

### The admin UI

`SessionGateProofs` proves, for any names and passwords, any limit and window, any
number of losses, forms, threads and addresses, and answers in any order:

| Theorem | States |
| --- | --- |
| `SessionTypes` | `Spec => []TypeOK` |
| `LogoutIsFinal` | `Spec => []LoggedOutStaysOut` |
| `LimiterIsBounded` | `Spec => []AttemptsBounded` |

The inductive invariant is `SessionInv`:

- `LimiterInv` counts with the recorded failures of an address or a name the threads
  whose login has passed the check and may still fail, whoever sent it. A login passes the
  check only while the record is below the limit, and takes a free thread. The bound of
  `AttemptsBounded` is about the record only and says nothing of those.
- `CheckingInv`: no two requests at work share a thread.
- `ReceivedInv`: what earlier pages sent are changes by accounts that exist.
- `UsersInv`: names are unique, since an INSERT of a taken name fails, however many
  setups are past their check.
- `OutInv` is what a logout leaves in a tab: no user, no session to ask for one with,
  no answer that brings one, and nothing in flight that writes one but a new login.
- `ClientInv`: every answer and every cached value is of the kind its path says and
  about an account that exists.

`AdminUiProofs` proves, for any tokens, operations, targets, schemas and visits, any
losses, and answers in any order:

| Theorem | States |
| --- | --- |
| `AdminTypes` | `Spec => []TypeOK` |
| `LifecycleRefinement` | `Spec => ImplementsLifecycle` |

The inductive invariant is `AdminInv`. The lifecycle rests on the demo's DELETE, which
deletes any token: what protects a live one is that the button is on revoked rows
only, and a row is what some answer said. So `ClientInv` says that no list, cached
or on its way, calls a token revoked that is not `Gone`, and that a DELETE in flight
is for a token that is; a gone token stays gone. `ViewInv` ties the mounted component
to its page: a dialog's revocation to the row it was opened for, a warning to a target.

`QueryCacheProofs` holds what both need of the cache and is about no page: what a
fetch adds, a cancellation removes and an answer changes, and that a query has one
fetch in flight (`OneFetchEach`). `Remaining` is a recursive function, and the prover
has no induction. That it is defined, and keeps only answers that were there, is proved by
the least index at which it would fail.

Assumptions are named where the constants are declared: `AccountsAssumption`,
`SessionAssumption`, `ServerAssumption`, `NoneAssumption` and `PagesAssumption` say what
is a set of what, that limit and window are positive, and that `None` is no page and
no body of an answer. TLC found
each inductive invariant to hold in the run's instance before it was proved.

### The permission table

`PermissionTableProofs` proves, for any operations, methods and paths and any
selection:

| Theorem | States |
| --- | --- |
| `BulkTogglesTheView` | flipping, one by one, the operations that differ ticks or unticks exactly the view |
| `BulkSettlesTheView` | afterwards the view is all selected, or none of it is |
| `HiddenOperationsKeepTheirBox` | what filter, search and tab hide is left alone |

They rest on no assumption but that the operations have a method and a group. The
code flips in a loop, through `setSelectedIds` with an updater function: each flip acts
on the result of the one before, and no operation is in a view twice, so the loop
is the symmetric difference `ToggleEach`.

### Only model-checked

The properties of `Migrations`; the violations of section 5; `AccountIsCurrent`,
`SettledPagesAreCurrent` and `SettledSaveIsSafe`; and `RequestsEnd`, `FormOffered` and
`SwitchIsFollowedByRefresh`, since liveness under fairness is out of this prover's reach.

## 7. Not modelled, and the plan

Left out: CORS, cookie signing and password hashing, static files, rendering and
wording, header filtering and body streaming, path templates (openapi-core), the
health check.

Partly modelled, and what is missing:

- The scheduler's clock: `schema_sync_loop` ticks, the interval and `last_run_at`.
  A scheduled refresh may start at any time in `SchemaSync`. The recorded outcome
  (`last_sync_status`) is in no model.
- The request log: the row of each outcome, statuses, pruning, the usage summary and
  the usage page. `ProxyGate` has whether the row is committed.
- The pools of database and upstream connections.
- The token form's name and expiry, the configuration form's interval, presets in force
  while the UI runs, the token's log section.
- Several administrators, or several tabs, in `AdminUi`; presets that change at a restart
  under an open page; two password changes at once in `Accounts`.
- Whose token it is (`tokens.py:27`).
- SQLite's write lock: a handler that waits for it (`schema_sync.py:142`) always gets it.

Still to come, in this order:

1. `SyncScheduler` and `RequestLog`, in the place of runs that ask less.
2. Theorems on `Migrations`: what a start that is not killed leaves.
