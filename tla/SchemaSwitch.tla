------------------------------ MODULE SchemaSwitch ------------------------------
(***************************************************************************)
(* What migrations, requests, probes and the worker may take the database  *)
(* for, with no statements, locks or revision: a schema that is there or   *)
(* not, switched as a whole.  Each of them meets it at one moment, and is  *)
(* answered accordingly; a migration that fails may have taken effect, or  *)
(* yet do so.  Deployment implements this specification.                   *)
(***************************************************************************)
CONSTANTS
    Migrators,  \* runs of Alembic
    Requests,   \* HTTP requests that use the database
    Probes,     \* requests of /health/ready
    Tables      \* the tables of the whole schema

VARIABLES
    tables,   \* the schema: Tables or {}
    input,    \* input[c]: what client c is to do
    answer,   \* answer[c]: how c ended
    late,     \* migrations that have failed and may yet take effect
    verdict,  \* verdict[p]: what the query of probe p has found
    worker    \* the worker process

vars == <<tables, input, answer, late, verdict, worker>>

Clients == Migrators \cup Requests

Init ==
    /\ tables = {}
    /\ input = [c \in Clients |-> "none"]
    /\ answer = [c \in Clients |-> "none"]
    /\ late = {}
    /\ verdict = [p \in Probes |-> "none"]
    /\ worker = "off"

Pending(c) == input[c] # "none" /\ answer[c] = "none"

Ask(c, o) ==
    /\ input[c] = "none"
    /\ input' = [input EXCEPT ![c] = o]
    /\ UNCHANGED <<tables, answer, late, verdict, worker>>

\* What a migration makes of the schema.
Goal(m) == IF input[m] = "upgrade" THEN Tables ELSE {}

Reply(c, a) ==
    /\ Pending(c)
    /\ answer' = [answer EXCEPT ![c] = a]
    /\ UNCHANGED <<input, verdict, worker>>

\* A migration takes effect, or finds the schema as it wants it.
Migrate(m) == Reply(m, "ok") /\ tables' = Goal(m) /\ UNCHANGED late

Serve(r) == Reply(r, "served") /\ tables = Tables /\ UNCHANGED <<tables, late>>
Miss(r)  == Reply(r, "missing") /\ tables = {} /\ UNCHANGED <<tables, late>>

\* What a client that fails is told.
Failure(c) == IF c \in Migrators THEN "failed" ELSE "unavailable"

\* A client fails, without effect so far.
Fail(c) ==
    /\ Reply(c, Failure(c))
    /\ late' \in {late, late \cup ({c} \cap Migrators)}
    /\ UNCHANGED tables

\* What becomes of a migration that failed: its effect comes after all, or never.
TakeEffect(m) ==
    /\ m \in late
    /\ tables' = Goal(m)
    /\ late' = late \ {m}
    /\ UNCHANGED <<input, answer, verdict, worker>>

GiveUp(m) ==
    /\ late' = late \ {m}
    /\ UNCHANGED <<tables, input, answer, verdict, worker>>

\* Clients fail together; a migration may have its effect, one of them or one
\* that has failed before.  Nothing comes late any more.
Outage(some) ==
    /\ \A c \in some : Pending(c)
    /\ answer' = [c \in Clients |-> IF c \in some THEN Failure(c) ELSE answer[c]]
    /\ late' = {}
    /\ \/ UNCHANGED tables
       \/ \E m \in (some \cap Migrators) \cup late : tables' = Goal(m)
    /\ UNCHANGED <<input, verdict, worker>>

\* A probe finds the schema there, or does not find it.
Look(p) ==
    /\ verdict[p] = "none"
    /\ \/ verdict' = [verdict EXCEPT ![p] = "True"] /\ tables = Tables
       \/ verdict' = [verdict EXCEPT ![p] = "False"]
    /\ UNCHANGED <<tables, input, answer, late, worker>>

StartWorker ==
    /\ worker = "off"
    /\ \/ worker' = "ready" /\ tables = Tables
       \/ worker' = "exited"
    /\ UNCHANGED <<tables, input, answer, late, verdict>>

Next ==
    \/ \E m \in Migrators :
          \/ \E o \in {"upgrade", "downgrade"} : Ask(m, o)
          \/ Migrate(m) \/ TakeEffect(m) \/ GiveUp(m)
    \/ \E r \in Requests :
          \/ \E o \in {"login", "inspect", "logout"} : Ask(r, o)
          \/ Serve(r) \/ Miss(r)
    \/ \E c \in Clients : Fail(c)
    \/ \E some \in SUBSET Clients : Outage(some)
    \/ \E p \in Probes : Look(p)
    \/ StartWorker

Spec == Init /\ [][Next]_vars
=================================================================================
