------------------------------ MODULE Deployment ------------------------------
(***************************************************************************)
(* Migrations, requests, readiness probes and the worker of                *)
(* extensible_ai_workspace on one PostgreSQL database: migrations/env.py,  *)
(* migrations/versions/0001_create_initial_schema.py, database/health.py,  *)
(* web/readiness.py, web/app.py and run_web and run_worker of runtime.py.  *)
(*                                                                         *)
(* Nothing coordinates them: compose starts web and worker when PostgreSQL *)
(* accepts connections, and an operator runs Alembic when he likes.  What  *)
(* a request or a migration does to the rows of a table is left out; what  *)
(* is left is which tables its transactions touch, in which order.         *)
(*                                                                         *)
(* PostgreSQL holds the lock of a table until its transaction ends.  The   *)
(* locks of statements do not conflict with each other, those of DDL with  *)
(* everything.  A CREATE waits for another transaction that is creating    *)
(* the same name, and sees no table of a transaction that is not committed.*)
(***************************************************************************)
EXTENDS Naturals, Sequences

CONSTANTS
    Migrators,   \* runs of Alembic, each an upgrade to head or a downgrade to base
    Requests,    \* HTTP requests of the authentication routes
    Probes,      \* requests of /health/ready
    MaxFaults    \* bound on outages of PostgreSQL and lost connections

ASSUME DeploymentAssumption ==
    /\ Migrators \cap Requests = {}
    /\ MaxFaults \in Nat

VARIABLES
    up,        \* PostgreSQL accepts connections
    faults,    \* outages and lost connections so far
    tables,    \* committed tables of the schemas iam and workspace
    revision,  \* alembic_version: the table is absent, or has no row, or "0001"
    op,        \* op[c]: what client c is to do
    pc,        \* pc[c]: where c is; "lost": its transaction has lost its client
    at,        \* at[c]: the number of its transaction's next statement
    first,     \* first[c]: c has not yet ended its first transaction
    held,      \* held[c]: tables locked, or being created, by c's transaction
    outcome,   \* outcome[c]: how c ended
    probe,     \* probe[p]: how far a probe is
    worker,    \* the worker process
    dropped,   \* history: the downgrades that have committed
    since,     \* history: since[c], the value of dropped when migrator c connected
    asked,     \* history: asked[p], the value of dropped when p's query ran
    promises   \* history: promises[r], asked[p] of the probes p answered
               \* "ready" before r was sent

database == <<up, faults, tables, revision, dropped>>
clients  == <<op, pc, at, first, held, outcome, since, promises>>
watchers == <<probe, worker, asked>>
vars     == <<database, clients, watchers>>

-----------------------------------------------------------------------------
Tables  == {"users", "external_identities", "sessions", "workspaces"}
Clients == Migrators \cup Requests

Outcomes == {"none", "ok", "failed", "served", "missing", "unavailable"}

\* The tables that a transaction comes to touch, in that order; one that it
\* holds already is not repeated.  A downgrade drops workspaces, sessions,
\* external_identities and users; a DROP locks the tables referred to as well.
\* A login looks up the identity, reads or inserts the user and inserts the
\* session, resolve reads session, user and identity, and revoke, having
\* resolved, updates the session in a transaction of its own.
Script(c) ==
    CASE op[c] = "upgrade" ->
           <<"users", "external_identities", "sessions", "workspaces">>
      [] op[c] = "downgrade" ->
           <<"workspaces", "users", "sessions", "external_identities">>
      [] op[c] = "login" -> <<"external_identities", "users", "sessions">>
      [] op[c] = "inspect" -> <<"sessions", "users", "external_identities">>
      [] op[c] = "logout" /\ first[c] ->
           <<"sessions", "users", "external_identities">>
      [] op[c] = "logout" /\ ~first[c] -> <<"sessions">>

InTransaction(c) == pc[c] \in {"running", "lost"}

AtTable(c, t) ==
    /\ InTransaction(c)
    /\ at[c] <= Len(Script(c))
    /\ Script(c)[at[c]] = t

AtEnd(c) == InTransaction(c) /\ at[c] > Len(Script(c))

\* Slip: CREATE TABLE IF NOT EXISTS, DROP TABLE IF EXISTS.
ApplicableAlways(c, t) == c \in Migrators \/ t \in tables

\* The statement of c on table t can be parsed: it exists, or for a CREATE
\* does not.
Applicable(c, t) == (t \in tables) # (op[c] = "upgrade")

\* c waits for d, which has the lock or the name that c wants.
Waits(c, d) ==
    /\ c # d
    /\ c \in Migrators \/ d \in Migrators
    /\ \E t \in held[d] : AtTable(c, t) /\ Applicable(c, t)

\* c waits for members of S only.
WaitsWithin(c, S) == \A d \in Clients : Waits(c, d) => d \in S

\* PostgreSQL's detector: c waits for itself, through others, so that it is in
\* every set that holds those it waits for, and those they wait for in turn.
Deadlocked(c) ==
    \A S \in SUBSET Clients :
        (\A d \in S \cup {c} : WaitsWithin(d, S)) => c \in S

\* Slip: any readable alembic_version will do.
SchemaReadable == up /\ revision # "absent"

\* check_database_schema: an error, no row and another revision are all False.
SchemaSupported == up /\ revision = "0001"

-----------------------------------------------------------------------------
TypeOK ==
    /\ up \in BOOLEAN
    /\ faults \in 0 .. MaxFaults
    /\ tables \subseteq Tables
    /\ revision \in {"absent", "none", "0001"}
    /\ op \in [Clients -> {"none", "upgrade", "downgrade", "login", "inspect",
                           "logout"}]
    /\ pc \in [Clients -> {"idle", "connecting", "running", "lost", "done"}]
    /\ at \in [Clients -> 1 .. 5]
    /\ first \in [Clients -> BOOLEAN]
    /\ held \in [Clients -> SUBSET Tables]
    /\ outcome \in [Clients -> Outcomes]
    /\ probe \in [Probes -> {"idle", "True", "False", "ready", "not_ready"}]
    /\ worker \in {"off", "ready", "exited"}
    /\ dropped \subseteq Migrators
    /\ since \in [Clients -> SUBSET Migrators]
    /\ asked \in [Probes -> SUBSET Migrators]
    /\ promises \in [Clients -> SUBSET SUBSET Migrators]

\* A fresh volume.
Init ==
    /\ up = TRUE
    /\ faults = 0
    /\ tables = {}
    /\ revision = "absent"
    /\ op = [c \in Clients |-> "none"]
    /\ pc = [c \in Clients |-> "idle"]
    /\ at = [c \in Clients |-> 1]
    /\ first = [c \in Clients |-> TRUE]
    /\ held = [c \in Clients |-> {}]
    /\ outcome = [c \in Clients |-> "none"]
    /\ probe = [p \in Probes |-> "idle"]
    /\ worker = "off"
    /\ dropped = {}
    /\ since = [c \in Clients |-> {}]
    /\ asked = [p \in Probes |-> {}]
    /\ promises = [c \in Clients |-> {}]

-----------------------------------------------------------------------------
(* A client's transaction *)

Goto(c, label) == pc' = [pc EXCEPT ![c] = label]

\* What becomes of a client whose database fails it.
Failure(c) == IF c \in Migrators THEN "failed" ELSE "unavailable"

\* c ends; PostgreSQL releases what it holds.
End(c, how) ==
    /\ Goto(c, "done")
    /\ outcome' = [outcome EXCEPT ![c] = how]
    /\ held' = [held EXCEPT ![c] = {}]

\* Alembic is started, or a request sent.
Start(c, o) ==
    /\ pc[c] = "idle"
    /\ Goto(c, "connecting")
    /\ op' = [op EXCEPT ![c] = o]
    /\ promises' = [promises EXCEPT ![c] =
                       {asked[p] : p \in {q \in Probes : probe[q] = "ready"}}]
    /\ UNCHANGED <<database, at, first, held, outcome, since, watchers>>

\* The database has what m is to bring about: head, or base.
AtTarget(m) == (revision = "0001") = (op[m] = "upgrade")

\* The upgrades under way, of which those that hold a table have created
\* alembic_version when it was absent.
Upgrading == {m \in Migrators : InTransaction(m) /\ op[m] = "upgrade"}

\* Alembic connects, begins its one transaction and reads the revision: at
\* head, or at base, there is nothing to do, except that alembic_version is
\* created when it is absent.  Then the CREATE of an upgrade may come first:
\* m waits for it, and fails when the upgrade commits.
ConnectMigrator(m) ==
    /\ pc[m] = "connecting"
    /\ since' = [since EXCEPT ![m] = dropped]
    /\ \/ /\ ~up \/ (AtTarget(m) /\ revision = "absent" /\ Upgrading # {})
          /\ End(m, "failed")
          /\ UNCHANGED revision
       \/ /\ up /\ AtTarget(m)
          /\ revision = "absent" => \A n \in Upgrading : held[n] = {}
          /\ revision' = IF revision = "absent" THEN "none" ELSE revision
          /\ End(m, "ok")
       \/ /\ up /\ ~AtTarget(m)
          /\ Goto(m, "running")
          /\ UNCHANGED <<revision, outcome, held>>
    /\ UNCHANGED <<up, faults, tables, dropped, op, at, first, promises, watchers>>

\* The __enter__ of a request's unit of work.
ConnectRequest(r) ==
    /\ pc[r] = "connecting"
    /\ IF up
         THEN Goto(r, "running") /\ UNCHANGED <<outcome, held>>
         ELSE End(r, "unavailable")
    /\ UNCHANGED <<database, op, at, first, since, promises, watchers>>

\* c's statement gets the lock of t and runs.
Take(c, t) ==
    /\ \A d \in Clients : ~Waits(c, d)
    /\ held' = [held EXCEPT ![c] = @ \cup {t}]
    /\ at' = [at EXCEPT ![c] = @ + 1]

\* Slip: the connection is in autocommit mode.
UseAutocommitted(r) ==
    \E t \in Tables :
        /\ pc[r] = "running" /\ AtTable(r, t)
        /\ IF Applicable(r, t)
             THEN /\ \A d \in Clients : ~Waits(r, d)
                  /\ at' = [at EXCEPT ![r] = @ + 1]
                  /\ UNCHANGED <<pc, outcome, held>>
             ELSE End(r, "missing") /\ UNCHANGED at
        /\ UNCHANGED <<database, op, first, since, promises, watchers>>

\* Slip: a missing table is waited for.
UseRetried(r) ==
    \E t \in Tables :
        /\ pc[r] = "running" /\ AtTable(r, t)
        /\ IF Applicable(r, t) THEN Take(r, t) ELSE UNCHANGED <<at, held>>
        /\ UNCHANGED <<database, op, pc, first, outcome, since, promises, watchers>>

\* A statement of the repository: psycopg.Error if its table is missing.
Use(r) ==
    \E t \in Tables :
        /\ pc[r] = "running" /\ AtTable(r, t)
        /\ IF Applicable(r, t)
             THEN Take(r, t) /\ UNCHANGED <<pc, outcome>>
             ELSE End(r, "missing") /\ UNCHANGED at
        /\ UNCHANGED <<database, op, first, since, promises, watchers>>

\* Slip: the connection is not closed.
FinishUnclosed(r) ==
    /\ pc[r] = "running" /\ AtEnd(r)
    /\ Goto(r, "done")
    /\ outcome' = [outcome EXCEPT ![r] = "served"]
    /\ UNCHANGED <<database, op, at, first, held, since, promises, watchers>>

\* What the rows have told refuses r: no session or an expired one, an unknown
\* or inactive identity, another token; a login that loses the unique identity.
Refusable(r) ==
    \/ op[r] = "login" /\ at[r] = 3
    \/ op[r] \in {"inspect", "logout"} /\ first[r] /\ at[r] \in {2, 4}

\* The transaction ends, before its script when r is refused; and revoke goes on
\* with a second one.
Finish(r) ==
    /\ pc[r] = "running"
    /\ \/ Refusable(r) /\ End(r, "served") /\ UNCHANGED <<at, first>>
       \/ /\ AtEnd(r)
          /\ IF op[r] = "logout" /\ first[r]
               THEN /\ Goto(r, "connecting")
                    /\ at' = [at EXCEPT ![r] = 1]
                    /\ first' = [first EXCEPT ![r] = FALSE]
                    /\ held' = [held EXCEPT ![r] = {}]
                    /\ UNCHANGED outcome
               ELSE End(r, "served") /\ UNCHANGED <<at, first>>
    /\ UNCHANGED <<database, op, since, promises, watchers>>

-----------------------------------------------------------------------------
(* A migration *)

\* Slip: each statement commits.
AlterAutocommitted(m) ==
    \E t \in Tables :
        /\ pc[m] = "running" /\ AtTable(m, t)
        /\ IF Applicable(m, t)
             THEN /\ Take(m, t)
                  /\ tables' = IF op[m] = "upgrade" THEN tables \cup {t}
                                                    ELSE tables \ {t}
                  /\ UNCHANGED <<pc, outcome>>
             ELSE End(m, "failed") /\ UNCHANGED <<at, tables>>
        /\ UNCHANGED <<up, faults, revision, dropped, op, first, since, promises,
                       watchers>>

\* CREATE or DROP of a table, with its indexes; in the transaction of m.
Alter(m) ==
    \E t \in Tables :
        /\ pc[m] = "running" /\ AtTable(m, t)
        /\ IF Applicable(m, t)
             THEN Take(m, t) /\ UNCHANGED <<pc, outcome>>
             ELSE End(m, "failed") /\ UNCHANGED at
        /\ UNCHANGED <<database, op, first, since, promises, watchers>>

\* Slip: the revision is not written with the tables.
ApplyUnrecorded(m) ==
    /\ tables' = IF op[m] = "upgrade" THEN tables \cup held[m]
                                      ELSE tables \ held[m]
    /\ dropped' = IF op[m] = "upgrade" THEN dropped ELSE dropped \cup {m}
    /\ UNCHANGED revision

\* What m's transaction makes of the database, the revision with the tables.
Apply(m) ==
    /\ tables' = IF op[m] = "upgrade" THEN tables \cup held[m]
                                      ELSE tables \ held[m]
    /\ revision' = IF op[m] = "upgrade" THEN "0001" ELSE "none"
    /\ dropped' = IF op[m] = "upgrade" THEN dropped ELSE dropped \cup {m}

\* Slip: no transaction is begun, and closing the connection rolls back.
CommitForgotten(m) ==
    /\ pc[m] = "running" /\ AtEnd(m)
    /\ End(m, "ok")
    /\ UNCHANGED <<database, op, at, first, since, promises, watchers>>

Commit(m) ==
    /\ pc[m] = "running" /\ AtEnd(m)
    /\ Apply(m)
    /\ End(m, "ok")
    /\ UNCHANGED <<up, faults, op, at, first, since, promises, watchers>>

-----------------------------------------------------------------------------
(* PostgreSQL *)

Fault == faults < MaxFaults /\ faults' = faults + 1

\* The detector ends one of the transactions that wait for each other.
AbortDeadlocked(c) ==
    /\ InTransaction(c)
    /\ Deadlocked(c)
    /\ End(c, Failure(c))
    /\ UNCHANGED <<database, op, at, first, since, promises, watchers>>

\* c loses its connection, or its process stops.  Its transaction stays open with
\* its locks, and with the statement or the COMMIT that c has perhaps sent.
LoseConnection(c) ==
    /\ Fault
    /\ pc[c] = "running"
    /\ Goto(c, "lost")
    /\ outcome' = [outcome EXCEPT ![c] = Failure(c)]
    /\ UNCHANGED <<up, tables, revision, dropped, op, at, first, held, since,
                   promises, watchers>>

\* The COMMIT of a migration comes after its client has failed.
LateCommit(m) ==
    /\ pc[m] = "lost" /\ AtEnd(m)
    /\ Apply(m)
    /\ End(m, Failure(m))
    /\ UNCHANGED <<up, faults, op, at, first, since, promises, watchers>>

\* PostgreSQL finds the client gone, and rolls back.
Reap(c) ==
    /\ pc[c] = "lost"
    /\ End(c, Failure(c))
    /\ UNCHANGED <<database, op, at, first, since, promises, watchers>>

\* Every open transaction is rolled back, but one whose COMMIT the server had
\* begun: its client does not learn of it.
Outage ==
    /\ up
    /\ Fault
    /\ up' = FALSE
    /\ \/ UNCHANGED <<tables, revision, dropped>>
       \/ \E m \in Migrators : AtEnd(m) /\ Apply(m)
    /\ pc' = [c \in Clients |-> IF InTransaction(c) THEN "done" ELSE pc[c]]
    /\ outcome' = [c \in Clients |->
                      IF InTransaction(c) THEN Failure(c) ELSE outcome[c]]
    /\ held' = [c \in Clients |-> {}]
    /\ UNCHANGED <<op, at, first, since, promises, watchers>>

Recover ==
    /\ ~up
    /\ up' = TRUE
    /\ UNCHANGED <<faults, tables, revision, dropped, clients, watchers>>

-----------------------------------------------------------------------------
(* Readiness and the worker *)

\* /health/ready asks the database ...
Query(p) ==
    /\ probe[p] = "idle"
    /\ probe' = [probe EXCEPT ![p] = IF SchemaSupported THEN "True" ELSE "False"]
    /\ asked' = [asked EXCEPT ![p] = dropped]
    /\ UNCHANGED <<database, clients, worker>>

\* ... and its response arrives later.
Answer(p) ==
    /\ probe[p] \in {"True", "False"}
    /\ probe' = [probe EXCEPT ![p] = IF @ = "True" THEN "ready" ELSE "not_ready"]
    /\ UNCHANGED <<database, clients, worker, asked>>

\* run_worker looks once: it exits, or waits for ever.  Compose does not
\* start it again.
StartWorker ==
    /\ worker = "off"
    /\ worker' = IF SchemaSupported THEN "ready" ELSE "exited"
    /\ UNCHANGED <<database, clients, probe, asked>>

-----------------------------------------------------------------------------
Begin ==
    \/ \E m \in Migrators : Start(m, "upgrade") \/ Start(m, "downgrade")
    \/ \E r \in Requests : \E o \in {"login", "inspect", "logout"} : Start(r, o)

Migrate(m) == ConnectMigrator(m) \/ Alter(m) \/ Commit(m) \/ AbortDeadlocked(m)
Serve(r)   == ConnectRequest(r) \/ Use(r) \/ Finish(r) \/ AbortDeadlocked(r)
Watch(p)   == Query(p) \/ Answer(p)

Finished ==
    /\ \A c \in Clients : pc[c] = "done"
    /\ \A p \in Probes : probe[p] \in {"ready", "not_ready"}
    /\ worker # "off"
    /\ UNCHANGED vars

Next ==
    \/ Begin
    \/ \E m \in Migrators : Migrate(m)
    \/ \E r \in Requests : Serve(r)
    \/ \E p \in Probes : Watch(p)
    \/ \E c \in Clients : LoseConnection(c) \/ Reap(c)
    \/ \E m \in Migrators : LateCommit(m)
    \/ Outage \/ Recover \/ StartWorker
    \/ Finished

Spec == Init /\ [][Next]_vars

\* Processes that have begun go on, the deadlock detector works, and PostgreSQL
\* notices that a client is gone once it waits for no lock on its behalf.
FairSpec ==
    /\ Spec
    /\ \A m \in Migrators : WF_vars(Migrate(m))
    /\ \A r \in Requests : WF_vars(Serve(r))
    /\ \A c \in Clients :
          WF_vars(Reap(c) /\ \A d \in Clients : ~Waits(c, d))

-----------------------------------------------------------------------------
(* Properties *)

\* The committed schema is all of revision 0001 or nothing, and alembic_version
\* tells which, whatever migrations race, deadlock, are cut off or commit after
\* they have failed: env.py runs a migration in one transaction.
SchemaWhole == tables = IF revision = "0001" THEN Tables ELSE {}

\* A transaction of a request finds the schema missing at its first statement
\* or not at all: a downgrade never takes a table from under it, nor does it
\* commit what it wrote to half a schema (the table locks of its statements,
\* in one transaction for each unit of work).
MissingAtOnce ==
    \A r \in Requests : outcome[r] = "missing" => at[r] = 1 /\ held[r] = {}

\* Readiness can be relied on: a request sent after /health/ready has answered
\* "ready" finds its tables, unless a downgrade has committed since the
\* readiness query ran.
ReadyMeansServed ==
    \A r \in Requests :
        outcome[r] = "missing" => dropped \notin promises[r]

\* "alembic upgrade head" that ends well has left the schema of head in the
\* database, unless a downgrade has committed since it looked at the revision;
\* one that was under way when it looked is enough for that, as it then finds
\* nothing to do.
UpgradeMeansSchema ==
    \A m \in Migrators :
        (op[m] = "upgrade" /\ outcome[m] = "ok" /\ since[m] = dropped)
            => revision = "0001"

\* An upgrade is never in a deadlock, nor are requests, or downgrades, among
\* themselves: it takes a downgrade that waits for a request, and one that a
\* request waits for (the order of op.create_table and op.drop_table, and of the
\* statements of each unit of work).
DeadlocksNeedDowngrade ==
    \A c \in Clients : Deadlocked(c) =>
        /\ op[c] # "upgrade"
        /\ \E m \in Migrators, r \in Requests : op[m] = "downgrade" /\ Waits(m, r)
        /\ \E m \in Migrators, r \in Requests : op[m] = "downgrade" /\ Waits(r, m)

\* Whoever has started ends, though requests and a downgrade lock the same
\* tables in different orders, and a lost client's transaction keeps its locks.
EveryoneEnds ==
    \A c \in Clients : (pc[c] = "connecting") ~> (pc[c] = "done")

\* What readiness has found, published or not.
Verdict == [p \in Probes |-> CASE probe[p] = "idle" -> "none"
                              [] probe[p] \in {"True", "ready"} -> "True"
                              [] probe[p] \in {"False", "not_ready"} -> "False"]

\* The migrations that have failed and whose COMMIT may yet come.
Late == {m \in Migrators : pc[m] = "lost" /\ AtEnd(m)}

Switch == INSTANCE SchemaSwitch WITH
    input <- op, answer <- outcome, late <- Late, verdict <- Verdict

\* Statement by statement, lock by lock, with deadlocks, outages and COMMITs that
\* come after their client has failed, the database is one whose schema is
\* switched as a whole, each migration and each request at one moment
\* (SchemaSwitch).
SwitchesSchema == Switch!Spec
===============================================================================
