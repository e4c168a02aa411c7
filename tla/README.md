# Verification of Extensible AI Workspace

TLA+ models of the parts of this repository that keep state, TLC
configurations that check them on small instances, and TLAPS proofs for every
instance. Paths below are relative to the repository; `aiw` stands for
`src/extensible_ai_workspace`.

    tlc -config SessionSafety.cfg MCTrustedLocalSessions    # any run, see "Runs"
    tlapm TrustedLocalSessionsProofs.tla    # and the other *Proofs modules

## Inventory

| Component | State | Operations | Talks to |
|---|---|---|---|
| Session service `aiw/identity/application/sessions.py` | none of its own: one object per HTTP request, all state in the database | `establish`, `resolve`, `validate_csrf`, `revoke` | unit of work, clock, id and credential generators |
| Identity persistence `aiw/identity/infrastructure/postgres.py` | a connection, the flag `_committed` | seven statements; `__enter__`, `commit`, `rollback`, `__exit__` | PostgreSQL through psycopg |
| Identity domain `aiw/identity/domain/` | immutable values | constructors' checks, `is_valid_at`, `revoke`, `is_active`, `is_enabled` | |
| Tokens `aiw/identity/security/tokens.py` | immutable values | generate, hash, verify | |
| Schema `migrations/versions/0001_create_initial_schema.py` | `iam.users`, `iam.external_identities`, `iam.sessions`, `workspace.workspaces`, `alembic_version` | `upgrade`, `downgrade` | |
| Web authentication `aiw/web/auth.py` | the browser's cookie; the routes keep none | `/auth/login`, `/auth/session`, `/auth/logout` | session service, a new one for each request |
| Workspace service and persistence `aiw/workspace/` | `workspace.workspaces` | `create`, `get`, `list` | a unit of work of its own; no route calls it yet |
| Runtime roles `aiw/runtime.py`, `aiw/__init__.py` | the process | `run_web`, `run_worker` | settings, schema check, uvicorn |
| Health and readiness `aiw/database/health.py`, `aiw/web/readiness.py`, `aiw/web/app.py` | none | `/health/live`, `/health/ready`, `check_database_schema` | PostgreSQL |
| Settings `aiw/config/settings.py` | none | validation | environment |

The architecture documents also describe workflows, jobs, approvals, an outbox
and OIDC. None of it is implemented at this commit and none is modelled.

### What is hard here

* **Interleaving.** The routes are plain functions, so FastAPI runs them in a
  thread pool. Every call opens its own connection and transaction, at
  PostgreSQL's default READ COMMITTED: each *statement* sees the database as
  committed at that moment. `resolve` reads three tables in three statements,
  `establish` checks and then inserts, `revoke` resolves in one transaction and
  writes a copy back in another.
* **Waiting.** The INSERT of an identity waits for another transaction that has
  inserted the same (issuer, subject); the UPDATE of a session waits for another
  UPDATE of that row.
* **Failure.** Connecting fails, a statement fails, the connection is lost
  before, during or after COMMIT, the process stops anywhere and is started
  again, perhaps with another identity configured. `rollback()` on a lost
  connection itself raises, and PostgreSQL may run a COMMIT whose client has
  its error already.
* **Time.** `establish` and `resolve` read the clock before they connect, and
  `revoke` reads it again. It is the wall clock: it can be set back.

The list of hazards, line by line, with the properties that cover each, is
`hazards` in `PROJECT.json`.

### What makes each component correct

* Session service: identity integrity under racing first logins; a request is
  authenticated only for a session that was live; only its own logout revokes a
  session, for good; answers agree with the database; every call ends.
* Unit of work: nothing is written unless committed; every path closes the
  connection; an error of the service means that nothing was written.
* Domain: what is stored can be loaded again.
* Web: the right status for each outcome; the cookie kept or deleted rightly.
* Workspaces: owner isolation, only active ones visible, stable order.
* Schema and deployment: the schema whole or absent; "ready" and a successful
  upgrade mean that requests find their tables.
* Settings: what is accepted is good enough for all that is built from it; a
  subject keeps its user.

## Plan

In this order, the most important behaviour first. *Done* marks what is here.

1. `TrustedLocalSessions`: service, unit of work and database tables, statement
   by statement. *Done*
2. `SessionLifecycle`: the abstract service, implemented by 1. *Done*
3. `TrustedLocalSessionsInvariant`, `TrustedLocalSessionsProofs`: the inductive
   invariant, and proofs of every safety property of 1. *Done*
4. `WebAuth`: the routes and a browser's cookie jar over the service as
   `SessionLifecycle` promises it; `WebAuthInvariant`, `WebAuthProofs`. *Done*
5. `Workspaces` with `WorkspaceRules`: create, get and list with their unit of
   work, late commits, order of the list; `WorkspaceCatalog`, the abstract
   service that 5 implements; invariant, and proofs of all its safety properties
   and of the refinement. *Done*
6. `Deployment`: migrations, requests, readiness probes and the worker on one
   database; `SchemaSwitch`, the abstract database that 6 implements; invariant,
   and proofs of all its safety properties and of the refinement. *Done*
7. `LocalIdentity`: from the environment to the user of a login, over restarts
   and an operator's edits; invariant and proofs. *Done*
8. `SessionRefinementProofs`: the proof of the refinement of 2 by 1. *Done*

## Modules

| Module | Contents |
|---|---|
| `TrustedLocalSessions` | state, actions, specification and properties of the session service on PostgreSQL |
| `SessionLifecycle` | abstract specification of the service as its callers see it: one moment of observation, one of effect, and which answers and exceptions go with them |
| `TrustedLocalSessionsInvariant` | the inductive invariant `IInv` and its parts |
| `TrustedLocalSessionsProofs` | theorems and proofs |
| `SessionRefinementProofs` | the proof that `TrustedLocalSessions` implements `SessionLifecycle` |
| `WebAuth` | the authentication routes and a browser, on `SessionLifecycle` |
| `WebAuthInvariant`, `WebAuthProofs` | its inductive invariant, theorems and proofs |
| `WorkspaceRules` | the rules of the `Workspace` constructor, and the CHECK constraints of its table |
| `Workspaces` | the workspace service on PostgreSQL |
| `WorkspaceCatalog` | abstract specification of the workspace service |
| `WorkspacesInvariant`, `WorkspacesProofs` | its inductive invariant, theorems and proofs, the refinement among them |
| `Deployment` | migrations, requests, probes and the worker, by the tables they lock |
| `SchemaSwitch` | abstract specification of the database as migrations, requests, probes and the worker meet it |
| `DeploymentInvariant`, `DeploymentProofs` | its inductive invariant, theorems and proofs |
| `DeploymentRefinementProofs` | the proof that `Deployment` implements `SchemaSwitch` |
| `LocalIdentity` | settings, start, user and identity of a login |
| `LocalIdentityInvariant`, `LocalIdentityProofs` | its inductive invariant, theorems and proofs |
| `MCTrustedLocalSessions`, `MCWebAuth`, `MCWorkspaces`, `MCDeployment`, `MCLocalIdentity` | symmetry and inputs for TLC |

`TrustedLocalSessions` implements `SessionLifecycle` (run `SessionRestart`,
theorem `Refinement`), and `WebAuth` takes the service to be any
`SessionLifecycle`: what holds of the routes there holds of them on the real
service; that the routes are callers such as `SessionLifecycle` admits is
`UsesService` (run `WebAuthResponses`, theorem `CallsAreServed`). `Workspaces`
implements `WorkspaceCatalog` (run `WorkspaceFaults`, theorem `Refinement`),
`Deployment` implements `SchemaSwitch` (run `DeploymentRaces`, theorem
`SwitchRefinement`).
`Deployment` and `LocalIdentity` look at the same logins as
`TrustedLocalSessions` from elsewhere: the first keeps only which tables a
transaction touches, the second only who is logged in.

### How `TrustedLocalSessions` corresponds to the code

A *request* is one call of the service: `"login"` is `establish`, `"inspect"` is
`resolve`, `"logout"` is `revoke`. Its `pc` names the repository statement it
runs next, or `commit`, `exit` (it is in `__exit__`), `revoke` (in `revoke`,
between the two units of work) and `done`. Each statement is one action, for
between two statements anything else may run.

| State | Code |
|---|---|
| `users`, `identities`, `sessions` | committed rows of the three `iam` tables |
| `newUsers[r]`, `newIdentities[r]`, `newSessions[r]` | row versions written by `r`'s open transaction; they hold its locks |
| `sent` | requests whose client is gone with its COMMIT on its way |
| `conn[r]` | `_connection`: `closed`, `open`, or `lost` (not yet closed by `__exit__`, or by a process that stopped) |
| `input`, `time`, `identity`, `user`, `session` | arguments and local variables of the call |
| `result[r]` | what the call returns or raises so far; the unit of work's `_committed` is read off it, for `commit()` is the last call of its block |
| `trusted` | the (issuer, subject) in the settings of the running process |
| `now`, `faults` | the application's clock; failures so far |
| `durable`, `seenLive` | history, read by properties only |

| Action | Code |
|---|---|
| `StartLogin`, `StartInspect`, `StartLogout` | the call's first clock reading and `__enter__`, which may fail to connect |
| `GetExternalIdentity`, `AddUser`, `AddExternalIdentity`, `GetUser`, `AddSession` | `establish`; the INSERT of the mapping waits for, or conflicts with, another row of its subject; INSERTs check their foreign keys |
| `GetSession`, `GetSessionUser`, `GetSessionIdentity` | `resolve` |
| `RefuseCsrf`, `RefuseRevokedAt`, `Revoke`, `UpdateSession` | `revoke`: `validate_csrf`, the second clock reading, `ApplicationSession.revoke` and the constructor of the replacement (`Revocable`), `__enter__`, the UPDATE |
| `CommitSucceeds`, `CommitRefused`, `CommitLost` | `commit` and its handler; a lost COMMIT takes effect at any later time (`LateCommit`) or never (`Reap`) |
| `StatementFails` | any statement raising `psycopg.Error` |
| `Exit` | `__exit__`, where `rollback()` raises on a lost connection |
| `LoseConnection`, `LateCommit`, `Reap`, `Restart` | network, server and process failures; a transaction of a lost client keeps its locks until PostgreSQL runs its COMMIT or notices |
| `DisableUser`, `DisableIdentity`, `Tick`, `StepBack` | the operator and the wall clock |

Abstractions, and what they rest on:

* A UUID or token that a request generates is never generated again, and SHA-256
  is injective on tokens: the request's name stands for its user's, identity's
  and session's id, its session token and its CSRF token.
* Statement-level atomicity is READ COMMITTED; the code sets no other level.
* The status `DISABLED` stands for every status other than `ACTIVE`. No code of
  the repository disables anything: an operator does, in the database, and
  nothing enables it again.
* `IdentityPersistenceConflict` from a unique index leaves the transaction
  aborted: its rows and locks are gone before `__exit__` runs.
* Text fields, `last_activity_at`, `authenticated_at`, the revocation reason and
  the version counters are left out: they are constant or only written.
* A `rowcount` other than 1 in `update_session` is kept as a branch; no row is
  ever deleted, so it is never taken.

Marked *Slip* in the modules are mutated forms of single definitions, such as a
forgotten check. No action uses them. Put in the place of its original, each
breaks one property: that is how the properties were tested.

| Slip | in place of | breaks |
|---|---|---|
| `IsUnexpiredAt` | `IsValidAt` | `IInv` |
| `IsValidUntil` | `IsValidAt` | `IdleLifetimeDecides` |
| `IsValidAfter` | `IsValidAt` | `RefusalIsTrue` |
| `SubjectUnlocked`, `AddUserAutocommitted` | `SubjectLocked`, `AddUser` | `IdentityIntegrity` |
| `IsActiveUser` | `IsActive` | `AuthenticatedWasLive`, `OnlyOverlapsRevokeAgain`, `ServesLifecycle` |
| `CsrfOfAnySession` | `CsrfMatches` | `RevocationAuthorised` |
| `CommitForgotten` | `CommitSucceeds` | `OutcomeMatchesCommit` |
| `RevocableUnchecked` | `Revocable` | `StoredSessionsLoad` |
| `UpdatedRowSwapped` | `UpdatedRow` | `SessionRowsOnlyGetRevoked` |
| `StatementRetried` | `StatementFails` | `EveryRequestAnswered` |
| `AnyDatabaseError` | `PersistenceErrors` | `ResponseIsTrue`, `IInv` of `WebAuth` |
| `LogoutResponseIgnoring` | `LogoutResponse` | `LogoutIsFinal` |
| `LogoutAnyHeader`, `LogoutAnyOrigin` | `Logout` | `UsesService`, `OnlyOwnPagesLogOut` |
| `StoredRowSwapped` | `StoredRow` | `OnlyEditedRowsFail`, `IInv` of `Workspaces` |
| `AvailableToAnyone`, `AvailableUnarchived` | `Available` | `OwnersSeeTheirOwn`, `ServesCatalog` |
| `PrecedesInTime`, `PrecedesById` | `Precedes` | `ListsAgree`, `NewestOnTop` |
| `OwnerUnchecked` | `OwnerExists` | `OwnersExist` |
| `StatementFailsSilently` | `StatementFails` | `OutcomeMatchesCommit` of `Workspaces` |
| `CommitForgotten` of `Workspaces` | `CommitSucceeds` | `CreatedIsFound` |
| `FinishUnclosed` | `Finish` | `IInv` of `Deployment` |
| `AlterAutocommitted`, `UseAutocommitted` | `Alter`, `Use` | `SchemaWhole`, `MissingAtOnce` |
| `ApplyUnrecorded` | `Apply` | `SwitchesSchema` |
| `ApplicableAlways` | `Applicable` | `DeadlocksNeedDowngrade` |
| `SchemaReadable` | `SchemaSupported` | `ReadyMeansServed` |
| `CommitForgotten` of `Deployment` | `Commit` | `UpgradeMeansSchema` |
| `UseRetried` | `Use` | `EveryoneEnds` |
| `FoundOfIssuer` | `FoundBy` | `IInv` of `LocalIdentity` |
| `TextAcceptedBlank` | `TextAccepted` | `OnlyEditedIdentitiesFail` |
| `NormalizedAsWritten` | `Normalized` | `OneUserPerSubject` |
| `PublicOriginSerialized` | `PublicOrigin` | `PagesHaveTheOrigin` |

### How `WebAuth` corresponds to the code

A request is one HTTP request of one browser, and the call of the service it
leads to has its name. `http[r]` is `unsent`, `serving` while the route waits for
the service, then the code of the response: `200`, the code in the body of an
error (`IDENTITY_INACTIVE` and `SESSION_INVALID` are 401, `CSRF_INVALID` is 403,
`IDENTITY_PERSISTENCE_UNAVAILABLE` is 503), or `500` for an exception that no
route catches.

| State or action | Code |
|---|---|
| `jar`, `pages` | the browser's `aiw_session` cookie, and the CSRF tokens that its pages got with a login |
| `sent[r]`, `received` | what the browser sent as `r`; whose response has arrived |
| `state`, `input`, `seen`, `written`, `answer` | the service: variables of `SessionLifecycle` |
| `Login`, `Inspect`, `Logout` | the routes up to the call: `Origin`, cookie and header checks in their order |
| `Work` | the service, through all its steps; an operator; a crash |
| `Respond`, with `LoginResponse`, `InspectResponse`, `LogoutResponse` | the `except` clauses and the response |
| `Receive` | the response arrives; `set_cookie`, `delete_cookie` |

Requests overlap without limit: a page sends without waiting for another, and a
response that never arrives is one whose `Receive` never happens. The cookie's
`Max-Age` and the attributes that keep it from scripts and other sites are left
out; so is a page that forgets its token, which only takes logouts away. The
service may raise `ValueError` for any logout here: when it really does, after
the clock stepped back, is `RefuseRevokedAt` of `TrustedLocalSessions`.

### How `Workspaces` corresponds to the code

A request is one call of `WorkspaceService`: a member of `Creates` calls
`create`, one of `Reads` calls `get` or `list`. Its `pc` names the repository
statement it runs next, or `commit`, `exit`, `done`. Each call runs one
statement in a unit of work of its own.

| State or action | Code |
|---|---|
| `workspaces`, `users` | committed rows of `workspace.workspaces`, ids in `iam.users` |
| `inserted[r]`, `sent` | rows of `r`'s open transaction; clients that are gone with their COMMIT on its way |
| `built[r]`, `found[r]`, `result[r]` | the `Workspace` of a create; the rows a read returns, in order; what the call returns or raises |
| `StartCreate` | clock, constructor with its `ValueError`, `__enter__` |
| `StartGet`, `StartList` | `__enter__` |
| `Add` | the INSERT with its foreign key and CHECK constraints |
| `Read` | `get_for_owner`, `list_for_owner`, `_map_workspace` for each row, and `WorkspaceUnavailable` |
| `CommitSucceeds`, `CommitRefused`, `CommitLost`, `StatementFails`, `Exit` | as in `TrustedLocalSessions`: this unit of work has the same text |
| `LateCommit`, `Reap`, `LoseConnection`, `Restart` | a COMMIT under way when its client goes is run by the server at any later time, or never |
| `EditWorkspace`, `DeleteUser`, `Tick`, `StepBack` | the operator and the wall clock |

* A text is the length of what `strip()` leaves and the kind of white space
  around it: that is all the constructor and the CHECK constraints look at.
* Ids are numbers, for the list is ordered by them where times are equal.
  `uuid7` ids of one process mostly grow with time; requests arrive here in any
  order of their ids, so nothing rests on that.
* The operator's edits are those that matter to what is listed: archive,
  reactivate, leaving `archived_at` or not (`ArchivedKept`), rename to one of
  `EditedNames`. The constraint calls `btrim`, which takes blanks away, the
  constructor `strip()`, which takes any white space: a name of tabs passes the
  one (`WorkspaceChecks`) and fails the other (`IsWorkspace`). The columns of a deletion
  request and `PURGED` differ from archiving in nothing a read can tell, for
  only `ACTIVE` rows are read.

### How `Deployment` corresponds to the code

| State or action | Code |
|---|---|
| `tables`, `revision` | committed schema, `alembic_version` |
| `op[c]`, `pc[c]`, `at[c]`, `held[c]` | a run of Alembic or a request: what it does, how far its transaction is (`lost`: open, with its client gone), the table locks it holds |
| `ConnectMigrator`, `Alter`, `Commit` | `run_migrations_online`: one transaction, `context.begin_transaction`; the revision is read first, `alembic_version` created when absent, and nothing else done at head (or base) |
| `ConnectRequest`, `Use`, `Finish` | a unit of work of the session service, statement by statement; `revoke` has two; what the rows tell may end a request early (`Refusable`) |
| `Query`, `Answer` | `/health/ready`: `check_database_schema`, and its response, which arrives later |
| `StartWorker` | `run_worker`: one check, then exit or wait for ever |
| `Waits`, `Deadlocked`, `AbortDeadlocked` | PostgreSQL: DDL excludes everything, statements do not exclude each other, a CREATE waits for another of the same name; the detector ends one of a circle |
| `Outage`, `Recover` | PostgreSQL stops, with a COMMIT perhaps done whose reply is lost, and returns |
| `LoseConnection`, `LateCommit`, `Reap` | one client loses its connection, or its process stops: it has failed, while its transaction keeps its locks until PostgreSQL runs its COMMIT, or finds the client gone |

A client is `Deadlocked` when it is in every set of clients that holds those it
waits for, those they wait for, and so on: that is, when it waits for itself.

Rows are left out. An upgrade that creates `alembic_version` holds that name until
it ends, as it holds the tables; between Alembic's look for the name and its
CREATE nothing else runs here, and an upgrade that fails there fails like one
that has lost its connection. The statement of a lost client is not run any more:
it would take one more lock before the same end. Locks are granted in any order,
not first come first served: more behaviours, not fewer. The schemas `iam` and
`workspace` come and go with the first and last table of a migration.

### How `LocalIdentity` corresponds to the code

| State or action | Code |
|---|---|
| `env`, `settings`, `process` | the environment at the last start, what `Settings` and `run_web` made of it, the process |
| `users`, `identities` | rows of the two tables |
| `Start` | `main`, `Settings`, `run_web` with `_require_setting` and `TrustedLocalIdentity` |
| `FirstLogin`, `Login` | `establish`, whole: that overlapping and failing logins come to the same is `IdentityIntegrity` of `TrustedLocalSessions` |
| `EditUser`, `EditIdentity`, `AddOidcIdentity` | an operator, in the database: what its CHECK and unique constraints accept |

A text is its length and how much white space surrounds it; an origin is the
kind of its host and what follows its port. That pydantic's `AnyHttpUrl` gives
an origin the path `/` and keeps the brackets of an IPv6 host is modelled by
`Serialized` and `LoopbackHosts`: `http://[::1]:8000` is refused, though `"::1"` is
among the hosts to allow (`aiw/config/settings.py:86`).

### Properties

* `IdentityIntegrity`: one identity per subject, no user without identity, no
  dangling or mismatched reference, whatever logins race, fail or crash.
* `AuthenticatedWasLive`: three reads at three moments authenticate only a
  session that was live at the moment its row was read. It holds because rights
  are only ever lost: with re-enabling it would not.
* `RevocationAuthorised`: a revoked session was revoked by a logout with its own
  cookie and its own CSRF token.
* `OutcomeMatchesCommit`: success means durable and visible, an error of the
  service means nothing was written, nor will be. Only psycopg's own error and a
  crash leave the caller without knowledge: its COMMIT may come later.
* `RefusalIsTrue`: nobody is told that the session is invalid, or the identity
  inactive, without a reason that is in the database: expiry, a logout, another
  configured identity, an operator.
* `StoredSessionsLoad`: no stored row is one that `ApplicationSession` would
  refuse to construct, however the clock jumps.
* `SessionRowsOnlyGetRevoked`: though `update_session` writes nine columns of a
  stale copy, a committed row changes in `revoked_at` only and stays revoked.
* `OnlyOverlapsRevokeAgain`: a revocation is written over only by a logout that
  had read the session while it was live; one that is called later never is.
* `IdleLifetimeDecides`: whoever is let pass, or logs out, started less than the
  idle lifetime after the login, by the clock as the call first read it. However
  often a session is used it does not last longer, and the absolute lifetime
  never decides.
* `NobodyWaitsInLine`, which is only proved: who waits for another call's lock
  waits for one that can go on, or whose client is gone and that PostgreSQL ends:
  no deadlock.
* `ServesLifecycle`: the service implements `SessionLifecycle`. After psycopg's
  error or a crash a call may still take effect, once, however late; after any
  other answer nothing of it is to come.
* `ResponseIsTrue`: a 200 of login or logout took effect, a 401, 403 or 503 did
  not, so the request may be sent again; only a 500 leaves it open. Catching
  psycopg's own errors as 503 would break it: a COMMIT may have succeeded.
* `OnlyOwnPagesLogOut`: only a page with the application's origin and the CSRF
  token of the session in the cookie ends that session.
* `LogoutIsFinal`: when the 200 of a logout has arrived, no request that still
  travels with its cookie finds the session live.
* `UsesService`: the routes call the service as `SessionLifecycle` allows, once
  for each request and with tokens that a login has been answered with.
* `EveryRequestAnswered`: every call ends.
* `OwnersSeeTheirOwn`: a read returns only what its own caller created.
* `OutcomeMatchesCommit` of `Workspaces`: the same promise as above, here also
  for a COMMIT that the server runs after its client is gone.
* `CreatedIsFound`: a create that was answered is in every read called later.
* `ListsAgree`, `NewestOnTop`: two lists never show two workspaces in different
  orders; newest first, as far as callers can tell. Of creates that overlap the
  one that commits later may stand below: `created_at` is read before.
* `OnlyEditedRowsFail`: what the service stored it can read; one row that an
  operator edited badly fails the whole list of its owner.
* `OwnersExist`: no workspace loses its owner to a concurrent deletion.
* `ServesCatalog`: the workspace service implements `WorkspaceCatalog`.
* `SchemaWhole`: all tables or none, as `alembic_version` says, whatever races,
  is cut off or commits late.
* `MissingAtOnce`: a downgrade never takes a table from under a transaction.
* `ReadyMeansServed`, `UpgradeMeansSchema`: what "ready" and a good end of
  `alembic upgrade head` are worth, until a downgrade commits.
* `DeadlocksNeedDowngrade`: neither upgrades nor requests deadlock among
  themselves, nor downgrades; it takes a downgrade that waits for a request and a
  request that waits for a downgrade.
* `EveryoneEnds`: migrations and requests end, deadlocks included.
* `SwitchesSchema`: the database implements `SchemaSwitch`: the schema is switched
  as a whole, each migration and each request meets it at one moment and is
  answered accordingly; a migration told "ok" has taken effect, one that failed
  may still take effect, once, until the next outage at the latest.
* `OnlyEditedIdentitiesFail`: accepted settings serve, and a login fails only
  where an operator changed rows.
* `OneUserPerSubject`: the same texts give the same user, others another.
* `PagesHaveTheOrigin`: logout compares with the origin that pages send.
* `RevokedOnce`, `DisabledUsersGetNoSession`, `CsrfErrorIsTrue`,
  `DatabaseFailureIs503`, `LogoutClearsItsCookie`, which the code does not keep:
  see "Findings".

## Runs

| Run | Instance | Shows | Distinct states, about |
|---|---|---|---|
| `SessionSafety` | 3 requests, 1 subject, clock 0..1, 1 failure | `IInv` and every safety property of the service, `OnlyOverlapsRevokeAgain` among them | 639,000 |
| `SessionRestart` | 2 requests, 2 subjects, clock 0..1, 2 failures | `IdentityIntegrity` and `OutcomeMatchesCommit` under two failures and restarts with another configured identity, `EveryRequestAnswered` and `ServesLifecycle` | 235,000 |
| `SessionRevokedOnce` | 3 requests, no failure | `RevokedOnce` is violated | - |
| `SessionDisabledUser` | 2 requests, no failure | `DisabledUsersGetNoSession` is violated | - |
| `WebAuthResponses` | 3 requests of one browser | `IInv`, `ResponseIsTrue`, `OnlyOwnPagesLogOut`, `LogoutIsFinal`, `UsesService` | 50,000 |
| `WebCsrfError` | 3 requests | `CsrfErrorIsTrue` is violated | - |
| `WebDatabaseFailure` | 3 requests | `DatabaseFailureIs503` is violated | - |
| `WebCookieRace` | 3 requests | `LogoutClearsItsCookie` is violated | - |
| `WorkspaceOrder` | 2 creates, 2 reads, 1 owner, clock 0..1 and set back, no failure | `ListsAgree`, `NewestOnTop` | 1,041,000 |
| `WorkspaceFaults` | 2 creates, 1 read, 2 owners, 4 pairs of texts, renames to tabs, clock 0, 1 failure | all other safety properties of `Workspaces`, `IInv` and `ServesCatalog` | 858,000 |
| `DeploymentRaces` | 2 migrations, 1 request, 1 probe, 1 outage or lost connection | `IInv`, `SchemaWhole`, `MissingAtOnce`, `ReadyMeansServed`, `UpgradeMeansSchema`, `DeadlocksNeedDowngrade`, `EveryoneEnds`, `SwitchesSchema` | 136,000 |
| `IdentityRestarts` | 26 environments, 3 users, 1 edit | `IInv`, `OnlyEditedIdentitiesFail`, `OneUserPerSubject`, `PagesHaveTheOrigin` | 44,000 |

Where a module has an `IInv`, its type invariant `TypeOK` is the first conjunct of
it, and checked with it.

**Bounds.** `MaxTime` bounds the clock, `MaxFaults` the failures, restarts and
clock steps together. Three requests allow every pairwise race with a session
to fight over: a login and two logouts of it, a logout and an inspection, two
first logins and a user of the first one's session. The idle lifetime 1 under a
clock of 0..1 lets a session expire between any two statements, and a step back
put the clock before `created_at`. Two subjects are needed only for changes of
configuration, hence the second run. Two requests suffice for liveness: a wait
is always for one other transaction. They suffice for the refinement too: a
login, and a call that observes or ends its session between the operator's
changes; what overlapping logouts of one session come to is among the
properties of `SessionSafety`, and `Refinement` is proved for any number of
requests. Requests and subjects are treated alike by
every action, so they are symmetry sets, except in the runs that check liveness.
`TrustedLocalSessionsProofs` removes these bounds for safety. In `WebAuth`
failures need no bound, for a call fails at most once; three requests are a
login, the logout of its session, and a third one that overtakes either (four
gave 3 million states and nothing new). `WebAuthProofs` holds for any number.
In `Workspaces` a step back of the clock is not counted as a fault, for
`MaxTime` alone bounds the clock there; two creates are enough for an order, two
lists for a disagreement of them, two owners for a leak; `MaxName` and
`MaxDescription` are 1, so that a text of length 2 is too long. `WorkspaceOrder`
needs no failure: a list shows what is committed, however that came about; and no
careless edit: a list that meets one shows nothing;
`WorkspaceFaults` keeps the clock still, for order is the question of
`WorkspaceOrder`, and renames to tabs only, the one text that the constraint
accepts and the constructor does not. One fault in `DeploymentRaces` is an outage,
or one client lost, whose COMMIT then comes before or after the other migration
has met its locks. Two migrations race as two upgrades, two downgrades or one of
each; a deadlock needs one downgrade and one request. `MaxEdits` bounds the operator's changes in `LocalIdentity`,
starts and logins are not bounded. Its environments have every text accepted and
refused (padded, blank, too long by white space alone, not set) and every form
of origin. The proofs remove all of these bounds.

**Fairness.** `FairSpec` asks for weak fairness of `Serve(r)`, a thread that
serves a request keeps running (uvicorn's pool, the operating system), and of
`Reap(r)`, PostgreSQL ends the transaction of a client that is gone, if it has not
run its COMMIT. Nothing is asked of arrivals, failures, the operator or the clock. Weak fairness is enough:
a request waits only while one other transaction is open, and that transaction
waits for nobody (`NobodyWaitsInLine`). In `Deployment` it asks for weak
fairness of each migration and each request, with PostgreSQL's deadlock detector
among their steps: whoever waits either waits for one that goes on, or is in a
circle that the detector breaks. It asks for the `Reap` of a lost client only
while that waits for no lock: a server process that waits does not look at its
connection. Nothing is asked of the operator, of outages, recovery or late
COMMITs. Deadlock is checked in every run; `Finished` lets a behaviour end when all requests are done.

## Proofs

`TrustedLocalSessionsProofs` proves, for every set of requests and subjects,
every lifetimes the constructor admits and all bounds, from
`LifetimesAssumption` (the constructor's checks) and `ConstantsAssumption`:

| Theorem | Establishes |
|---|---|
| `InductiveInvariant` | `Spec => []IInv` |
| `TypeCorrect` | `Spec => []TypeOK` |
| `LoginsKeepIdentities` | `Spec => []IdentityIntegrity` |
| `ResolveIsAtomic` | `Spec => []AuthenticatedWasLive` |
| `LogoutsAreAuthorised` | `Spec => []RevocationAuthorised` |
| `AnswersAreTrue` | `Spec => []OutcomeMatchesCommit` |
| `SessionsStayLoadable` | `Spec => []StoredSessionsLoad` |
| `LoginsLapse` | `Spec => []IdleLifetimeDecides` |
| `RefusalsHaveReasons` | `Spec => []RefusalIsTrue` |
| `RequestsNeverDeadlock` | `Spec => []NobodyWaitsInLine` |
| `SessionsOnlyGetRevoked` | `Spec => SessionRowsOnlyGetRevoked` |
| `SecondRevocationsOverlap` | `Spec => OnlyOverlapsRevokeAgain` |

None of the promises is inductive alone; `IInv` adds why they hold.

* `KeysInv`: the id of a row is that of a request that committed, so what a
  commit adds cannot collide.
* `NewRowsInv`, `NewVersionsInv`: what a transaction may hold, also that of a
  lost client. At most one transaction holds a row of a subject, and none while
  a committed one has it: the unique index. A session version is the request's
  own new session, or the revoked copy of a committed row, equal to it but for
  `revoked_at`: so no lost update.
* `DurableInv`, `ControlInv`: a request that has committed runs no further
  statement; each statement knows its operation and what is decided so far.
* `SentInv`: a COMMIT under way is one of a client that is gone, past its last
  statement and told psycopg's error, or nothing at all.
* `LoginInv`, `ResolveInv`: what a call holds in its local variables is still
  true enough when it is used.
* `NotLiveInv`: if the session was not live when its row was read, what made it
  so is still there when the remaining rows are read. This is the step from
  three reads to one moment.
* `CommitInv`: what a transaction at its COMMIT, or with a COMMIT under way, holds
  is complete: a user with its identity or neither, a session, a revocation.
* `UserReadInv`, `IdentityReadInv`, `CookieInv`: the rows a call has read are
  still there, at most less entitled, and its cookie is of a committed session: so
  whoever is refused is refused for a reason.
* `TimesInv`, `InTimeInv`: the times of a session are those of its login's first
  clock reading, and a call that has got past `is_valid_at` keeps its own first
  reading, whatever the clock does after it.
* `CallInv`, `CsrfInv`: which answers go with which call, that the row an UPDATE
  names is there, and that the CSRF token of a session is its own: what the
  refinement needs beyond the promises.

`StepIInv` combines one lemma per conjunct. They share `TableSteps` (only a
commit or the operator changes a table), `Persist` (rows stay, keep their keys,
and only lose rights), `InputSteps` and `OwnSteps` (a request's variables change
by its own steps, a restart, or not at all). `RequestsNeverDeadlock` needs no
more than which rows a transaction can hold where it stands; the second
revocation of `SecondRevocationsOverlap` is a commit of a version that
`NewVersionsInv` gives to its own logout, which by `AuthenticatedWasLive` had read
the session live.

`SessionRefinementProofs` proves `Refinement`, `Spec => ServesLifecycle`, from
this invariant. `LiveWas` and `LiveStays` say that a commit neither gives nor
takes rights, so that it changes the state of one session only (`OtherStates`);
then a login's commit, in time or late, is `Open`, a logout's is `Close`, an
operator's change is `Disable`, the read of a live session's row is `Observe`, the end of a call is
`Reply`, a restart is `Crash`, and everything else goes unnoticed. A late commit is of a
call that is `Unsettled` there (`SentInv`): without an answer, or with one that
leaves its effect open.

`WebAuthProofs` proves, for any number of requests and from `TokensAssumption`
(the marks for "no token" and "no header" are not tokens):

| Theorem | Establishes |
|---|---|
| `WebInvariant` | `Spec => []IInv` |
| `WebTypeCorrect` | `Spec => []TypeOK` |
| `ResponsesAreTrue` | `Spec => []ResponseIsTrue` |
| `LogoutsComeFromPages` | `Spec => []OnlyOwnPagesLogOut` |
| `LogoutsAreFinal` | `Spec => LogoutIsFinal` |
| `CallsAreServed` | `Spec => UsesService` |

There `IInv` follows a request through its layers: `CallsInv`, what the browser
sent is what the service was called with, and a refused request never reached
it; `AnswersInv`, an answer comes after the effect and tells of it;
`ResponsesInv`, a response comes after the answer; `SessionsInv`, what a logout
has closed had been opened and stays closed; `TokensInv`, every cookie came with
a token that pages hold, and every such token with the answer of a login: that
makes the routes callers that `SessionLifecycle` admits, and with `Refinement`
what is proved of the routes holds of them on the real service.

`WorkspacesProofs` proves, for any number of calls, owners, texts and failures,
from `LimitsAssumption`, `NoneAssumption` and `WorkspacesAssumption`:

| Theorem | Establishes |
|---|---|
| `Invariance` | `Spec => []IInv` |
| `TypeCorrect` | `Spec => []TypeOK` |
| `Isolation` | `Spec => []OwnersSeeTheirOwn` |
| `TruthfulOutcome` | `Spec => []OutcomeMatchesCommit` |
| `ReadYourCreates` | `Spec => []CreatedIsFound` |
| `StableOrder` | `Spec => []ListsAgree` |
| `NewestFirst` | `Spec => []NewestOnTop` |
| `StoredRowsLoad` | `Spec => []OnlyEditedRowsFail` |
| `OwnersStay` | `Spec => []OwnersExist` |
| `Refinement` | `Spec => ServesCatalog` |

`IInv` follows a workspace from object to row to object: `BuiltInv`, what a
create builds is valid, active and its caller's; `InsertedInv`, a transaction
holds that or nothing; `RowsInv`, a committed row is that, or an edited version
of it with the same id, owner and time; `FoundInv`, so is what a list shows, in
order. `DurableInv` and `SentInv` say which answers a committed create, and one
whose COMMIT is under way, may have got; `BeforeInv` relates the order of calls
to the clock. `ListsAgree` follows from `FoundInv` alone: id and time of a
workspace never change, and they decide its place. The refinement maps `Add` and
`Exit` of an answered create to a stutter and an answer, a commit, early or
late, to `Make`, a read to `Look`.

`DeploymentProofs` proves, for any number of migrations, requests, probes and
outages, from `DeploymentAssumption`:

| Theorem | Establishes |
|---|---|
| `Invariance` | `Spec => []IInv` |
| `MigrationsAreAtomic` | `Spec => []SchemaWhole` |
| `SchemaStaysUnderRequests` | `Spec => []MissingAtOnce` |
| `ReadinessIsTrue` | `Spec => []ReadyMeansServed` |
| `UpgradesUpgrade` | `Spec => []UpgradeMeansSchema` |
| `DeadlocksAreOfDowngrades` | `Spec => []DeadlocksNeedDowngrade` |

The heart is `LocksInv`: whoever holds a table has found the whole schema, or for
an upgrade none of it, and as a migration shares its tables with nobody, no other
can commit meanwhile. So of migrations that race only one at a time can get to
its end, and a request that got its first table gets all. `HistoryInv` carries
what a look at the revision found, until a downgrade commits.

`DeadlocksNeedDowngrade` follows from the same invariant. By `LocksInv` a
statement that can be parsed meets the lock of an upgrade only in an upgrade; like
migrations lock the tables in one order, so one of them waits only for one that
is further on (`Waiting`); and requests do not wait for each other. So the
migrations like a client and ahead of it, or all requests with them, or all
migrations, make a set that would have to hold the client (`NoWayOut`), and the way
out of that set is the downgrade, or the request, looked for. Clients that are
lost hold and wait like the others: `ControlInv` adds that they have failed, and
no more, so that every lemma holds of them too.

`DeploymentRefinementProofs` proves `SwitchRefinement`, `Spec => SwitchesSchema`:
the end of a client is its one answer (`EndReplies`, `EndFails`), a commit
switches the schema as it holds all tables (`Complete`), a request at its end has
the schema still (`LocksInv`), an outage fails those under way, a lost migration
fails and is `late` if its COMMIT can be under way, `LateCommit` is `TakeEffect`,
`Reap` `GiveUp`, and statements, locks, recovery and the response of a probe go
unnoticed.

`LocalIdentityProofs` proves, for every set of environments and users and any
number of starts, logins and edits, from `LocalIdentityAssumption`:

| Theorem | Establishes |
|---|---|
| `Invariance` | `Spec => []IInv` |
| `AcceptedSettingsServe` | `Spec => []OnlyEditedIdentitiesFail` |
| `SubjectsKeepTheirUsers` | `Spec => []OneUserPerSubject` |
| `OriginsMatch` | `Spec => []PagesHaveTheOrigin` |

There `StrippedInv` (stored texts have no white space around them) makes the
text of the environment and the key of a row comparable, `KeysInv` makes that key
decide the user, and `UntouchedInv` says what rows are like that no operator has
changed.

Only model-checked: `EveryRequestAnswered` and `EveryoneEnds` (liveness under
fairness is beyond the prover). Their safety part is proved: nobody waits in a
line or a circle but in the deadlocks that PostgreSQL's detector ends
(`NobodyWaitsInLine`, `DeadlocksNeedDowngrade`).

## Findings

`SessionRevokedOnce`: `ApplicationSession.revoke` says "A revoked session cannot
be revoked again." (`aiw/identity/domain/session.py:154`), and refuses to. But
`revoke` of the service applies it to a copy read in an earlier transaction, and
`update_session` writes `WHERE id = ...` only. Two overlapping logouts of one
session both succeed, and the second replaces `revoked_at` and the reason of the
first. The session stays revoked (`SessionRowsOnlyGetRevoked`), and only a logout
that had read it live can do this (`OnlyOverlapsRevokeAgain`): what is lost is the
time of the first revocation.

`SessionDisabledUser`: "Disabling a user prevents new sessions"
(`architecture_docs/extensible-ai-workspace-data-design.md:265`). `establish` reads
the user's status and inserts the session in two statements
(`aiw/identity/application/sessions.py`), and a foreign key does not look at the
status: a user disabled in between gets a new session. `resolve` turns it away,
as it reads the status each time (`AuthenticatedWasLive`); what is stored, and
answered with a cookie, is a session that the document rules out.

`WebCsrfError`: the logout route answers any `ValueError` with 403, "The CSRF
token is invalid." (`aiw/web/auth.py:191`). It means the one of an empty
`CsrfToken`. But the service raises `ValueError` as well, for a right token, when
the clock was set back behind the login (`aiw/identity/domain/session.py:101`).

`WebDatabaseFailure`: the API contract gives 503 for a "required capability or
dependency temporarily unavailable"
(`architecture_docs/extensible-ai-workspace-api-contract.md:327`). When the
database connection is lost during a call, `rollback()` raises psycopg's error in
place of `IdentityPersistenceError`, in `commit` or in `__exit__`
(`aiw/identity/infrastructure/postgres.py:449`, `435`), and the answer is 500.

`WebCookieRace`: logout promises to "Revoke the current session and clear its
cookie." (`aiw/web/auth.py:159`). `delete_cookie` names the cookie only: when
another page logs in while the logout is under way, and its response arrives
first, the logout's response deletes the cookie of the new session. That one
stays live in the database, with no browser holding it.

## Not modelled

* `check_database_connection`, `/health/live`, `/app`, `is_available` and the
  units of work's `rollback()` and second `__enter__`: no code calls them, or
  they answer a constant.
* Alembic's offline mode, which prints SQL; logging; HTML; Docker images.
* Clocks without a time zone, which the services refuse before anything else;
  version counters, which nothing increments.
* The values of `AIW_RUNTIME_ROLE`, `AIW_AUTHENTICATION_MODE` and
  `AIW_DATABASE_URL`: each is one choice at start, with no state behind it.
* Tokens as texts: their length checks hold of what `secrets` generates.
* A wait for a connection or a lock has no bound in the code, so how late an
  answer may be is not a property that could be stated.
* That the worker is started again: `docker compose up` starts it without the
  migration, which belongs to the profile `tools` (`compose.yaml:52`), so on a
  fresh volume it exits with 1 (`aiw/runtime.py:77`). `StartWorker` is that one
  look; `README.md:123` documents the exit, and nothing promises another.
* PostgreSQL, psycopg, pydantic and Alembic themselves: modelled from how the
  code uses them, and marked external in `PROJECT.json`.
