------------------------ MODULE DeploymentRefinementProofs ------------------------
(***************************************************************************)
(* Deployment, statement by statement and lock by lock, implements         *)
(* SchemaSwitch: from the inductive invariant, every step is one in which  *)
(* the abstract database may answer a client or be switched, or one that   *)
(* nobody can notice.                                                      *)
(***************************************************************************)
EXTENDS DeploymentProofs

\* A client under way has asked and has no answer.
LEMMA UnderWay ==
    ASSUME IInv, NEW c \in Clients, pc[c] \in {"connecting", "running"}
    PROVE  Switch!Pending(c)
<1>1. op[c] \in Ops /\ outcome[c] = "none"
  BY KnownOp DEF IInv, ControlInv
<1> QED
  BY <1>1 DEF Switch!Pending, Ops

\* Steps that nobody can notice.
LEMMA Unnoticed ==
    ASSUME UNCHANGED <<tables, op, outcome, worker>>, Verdict' = Verdict,
           Late' = Late
    PROVE  UNCHANGED Switch!vars
  BY DEF Switch!vars

\* Steps that leave the probes alone.
LEMMA SameVerdict ==
    ASSUME UNCHANGED probe
    PROVE  Verdict' = Verdict
  BY DEF Verdict

\* Steps of a client that has not failed leave those alone whose COMMIT may yet
\* come.
LEMMA SameLate ==
    ASSUME IInv, NEW c \in Clients, pc[c] # "lost",
           pc' = pc \/ \E l \in {"connecting", "running", "done"} : Goto(c, l),
           op' = op \/ \E o : op' = [op EXCEPT ![c] = o],
           at' = at \/ \E i : at' = [at EXCEPT ![c] = i],
           first' = first \/ \E b : first' = [first EXCEPT ![c] = b]
    PROVE  Late' = Late
<1>1. \A m \in Migrators : pc'[m] = "lost" <=> pc[m] = "lost"
  BY DEF Goto, IInv, TypeOK, Clients
<1>2. ASSUME NEW m \in Migrators, pc[m] = "lost"
      PROVE  AtEnd(m)' <=> AtEnd(m)
  <2>1. op'[m] = op[m] /\ at'[m] = at[m] /\ first'[m] = first[m]
    BY <1>2 DEF IInv, TypeOK, Clients
  <2>2. Script(m)' = Script(m)
    BY <2>1 DEF Script
  <2> QED
    BY <1>1, <1>2, <2>1, <2>2 DEF AtEnd, InTransaction
<1> QED
  BY <1>1, <1>2 DEF Late

\* A client that ends is answered.
LEMMA EndReplies ==
    ASSUME IInv, NEW c \in Clients, pc[c] \in {"connecting", "running"},
           NEW how, End(c, how), UNCHANGED <<op, probe, worker>>
    PROVE  Switch!Reply(c, how)
  BY UnderWay, SameVerdict DEF End, Switch!Reply

\* A client that ends with a failure fails.
LEMMA EndFails ==
    ASSUME IInv, NEW c \in Clients, pc[c] \in {"connecting", "running"},
           End(c, Failure(c)), UNCHANGED <<tables, op, at, first, probe, worker>>
    PROVE  Switch!Next
<1>1. Late' = Late
  BY SameLate DEF End
<1>2. Switch!Fail(c)
  BY <1>1, EndReplies DEF Switch!Fail, Switch!Failure, Failure
<1> QED
  BY <1>2 DEF Switch!Next, Switch!Clients, Clients

-----------------------------------------------------------------------------
(* One step for each action. *)

LEMMA StartAsks ==
    ASSUME IInv, NEW c \in Clients, NEW o, Start(c, o)
    PROVE  Switch!Ask(c, o)
<1>1. op[c] = "none"
  BY DEF Start, IInv, ControlInv
<1>2. UNCHANGED <<tables, outcome, worker, probe>>
  BY DEF Start, database, watchers
<1>3. Late' = Late
  BY SameLate DEF Start
<1> QED
  BY <1>1, <1>2, <1>3, SameVerdict DEF Start, Switch!Ask

\* Alembic connects: it ends at once, or nobody notices.
LEMMA MigratorConnecting ==
    ASSUME IInv, NEW m \in Migrators, ConnectMigrator(m)
    PROVE  [Switch!Next]_(Switch!vars)
<1>1. /\ m \in Clients /\ pc[m] = "connecting"
      /\ UNCHANGED <<tables, op, at, first, worker, probe>>
  BY DEF ConnectMigrator, Clients, watchers
<1>2. CASE End(m, "failed")
  BY <1>1, <1>2, EndFails DEF Failure
<1>3. CASE End(m, "ok") /\ AtTarget(m)
  <2>1. Switch!Reply(m, "ok")
    BY <1>1, <1>3, EndReplies
  <2>2. tables' = Switch!Goal(m)
    BY <1>1, <1>3 DEF AtTarget, Switch!Goal, IInv, TypeOK, SchemaWhole
  <2>3. Late' = Late
    BY <1>1, <1>3, SameLate DEF End
  <2> QED
    BY <2>1, <2>2, <2>3 DEF Switch!Next, Switch!Migrate
<1>4. CASE Goto(m, "running") /\ UNCHANGED outcome
  <2>1. Late' = Late
    BY <1>1, <1>4, SameLate
  <2> QED
    BY <1>1, <1>4, <2>1, SameVerdict, Unnoticed
<1> QED
  BY <1>2, <1>3, <1>4 DEF ConnectMigrator

\* So does a request.
LEMMA RequestConnecting ==
    ASSUME IInv, NEW r \in Requests, ConnectRequest(r)
    PROVE  [Switch!Next]_(Switch!vars)
<1>1. /\ r \in Clients /\ r \notin Migrators /\ pc[r] = "connecting"
      /\ UNCHANGED <<tables, op, at, first, worker, probe>>
  BY DeploymentAssumption DEF ConnectRequest, Clients, database, watchers
<1>2. CASE End(r, "unavailable")
  BY <1>1, <1>2, EndFails DEF Failure
<1>3. CASE Goto(r, "running") /\ UNCHANGED outcome
  <2>1. Late' = Late
    BY <1>1, <1>3, SameLate
  <2> QED
    BY <1>1, <1>3, <2>1, SameVerdict, Unnoticed
<1> QED
  BY <1>2, <1>3 DEF ConnectRequest

\* A statement of a request: the schema is missing, or nobody notices.
LEMMA RequestUsing ==
    ASSUME IInv, NEW r \in Requests, Use(r)
    PROVE  [Switch!Next]_(Switch!vars)
<1>1. PICK t \in Tables :
          /\ pc[r] = "running" /\ AtTable(r, t)
          /\ IF Applicable(r, t)
               THEN Take(r, t) /\ UNCHANGED <<pc, outcome>>
               ELSE End(r, "missing") /\ UNCHANGED at
          /\ UNCHANGED <<database, op, first, since, promises, watchers>>
  BY DEF Use
<1>2. /\ r \in Clients /\ pc[r] = "running" /\ op[r] # "upgrade"
      /\ UNCHANGED <<tables, op, first, worker, probe>>
  BY <1>1, KnownOp DEF Clients, database, watchers
<1>3. CASE Applicable(r, t)
  <2>1. Late' = Late
    BY <1>1, <1>2, <1>3, SameLate DEF Take
  <2> QED
    BY <1>1, <1>2, <1>3, <2>1, SameVerdict, Unnoticed
<1>4. CASE ~Applicable(r, t)
  <2>1. tables = {}
    BY <1>2, <1>4 DEF Applicable, IInv, SchemaWhole
  <2>2. Switch!Reply(r, "missing")
    BY <1>1, <1>2, <1>4, EndReplies
  <2>3. Late' = Late
    BY <1>1, <1>2, <1>4, SameLate DEF End
  <2> QED
    BY <1>2, <2>1, <2>2, <2>3 DEF Switch!Next, Switch!Miss
<1> QED
  BY <1>3, <1>4

\* The end of a request's transaction: it has been served, or goes on.
LEMMA RequestFinishing ==
    ASSUME IInv, NEW r \in Requests, Finish(r)
    PROVE  [Switch!Next]_(Switch!vars)
<1>1. /\ r \in Clients /\ pc[r] = "running"
      /\ op[r] \in {"login", "inspect", "logout"}
      /\ UNCHANGED <<tables, op, worker, probe>>
  BY KnownOp DEF Finish, Clients, database, watchers
<1>2. CASE /\ Goto(r, "connecting") /\ at' = [at EXCEPT ![r] = 1]
           /\ first' = [first EXCEPT ![r] = FALSE]
           /\ UNCHANGED outcome
  <2>1. Late' = Late
    BY <1>1, <1>2, SameLate
  <2> QED
    BY <1>1, <1>2, <2>1, SameVerdict, Unnoticed
<1>3. CASE End(r, "served") /\ UNCHANGED <<at, first>>
  <2>1. Script(r)[1] \in Taken(r)
    <3>1. at[r] \in Nat /\ at[r] > 1
      <4>1. Len(Script(r)) \in Nat \ {0} /\ at[r] \in Nat
        BY <1>1 DEF Script, IInv, TypeOK
      <4>2. AtEnd(r) => at[r] > 1
        BY <4>1 DEF AtEnd
      <4>3. Refusable(r) => at[r] > 1
        BY DEF Refusable
      <4>4. Refusable(r) \/ AtEnd(r)
        BY DEF Finish
      <4> QED
        BY <4>1, <4>2, <4>3, <4>4
    <3>2. 1 \in 1 .. at[r] - 1
      BY <3>1
    <3> QED
      BY <3>2 DEF Taken
  <2>2. tables = Tables
    BY <1>1, <2>1 DEF IInv, HeldInv, HeldRight, InTransaction, LocksInv
  <2>3. Switch!Reply(r, "served")
    BY <1>1, <1>3, EndReplies
  <2>4. Late' = Late
    BY <1>1, <1>3, SameLate DEF End
  <2> QED
    BY <1>1, <2>2, <2>3, <2>4 DEF Switch!Next, Switch!Serve
<1> QED
  BY <1>2, <1>3 DEF Finish

\* A statement of a migration: it fails, or nobody notices.
LEMMA MigratorAltering ==
    ASSUME IInv, NEW m \in Migrators, Alter(m)
    PROVE  [Switch!Next]_(Switch!vars)
<1>1. PICK t \in Tables :
          /\ pc[m] = "running" /\ AtTable(m, t)
          /\ IF Applicable(m, t)
               THEN Take(m, t) /\ UNCHANGED <<pc, outcome>>
               ELSE End(m, "failed") /\ UNCHANGED at
          /\ UNCHANGED <<database, op, first, since, promises, watchers>>
  BY DEF Alter
<1>2. /\ m \in Clients /\ pc[m] = "running"
      /\ UNCHANGED <<tables, op, first, worker, probe>>
  BY <1>1 DEF Clients, database, watchers
<1>3. CASE End(m, "failed") /\ UNCHANGED at
  BY <1>2, <1>3, EndFails DEF Failure
<1>4. CASE Take(m, t) /\ UNCHANGED <<pc, outcome>>
  <2>1. Late' = Late
    BY <1>2, <1>4, SameLate DEF Take
  <2> QED
    BY <1>2, <1>4, <2>1, SameVerdict, Unnoticed
<1> QED
  BY <1>1, <1>3, <1>4

\* What a migration at its end makes of the schema is its goal.
LEMMA ApplyIsGoal ==
    ASSUME IInv, NEW m \in Migrators, AtEnd(m), Apply(m)
    PROVE  tables' = Switch!Goal(m)
<1>1. held[m] = Tables /\ tables \subseteq Tables
  BY Complete DEF IInv, TypeOK
<1> QED
  BY <1>1 DEF Apply, Switch!Goal

LEMMA MigratorCommitting ==
    ASSUME IInv, NEW m \in Migrators, Commit(m)
    PROVE  Switch!Migrate(m)
<1>1. /\ m \in Clients /\ pc[m] = "running"
      /\ UNCHANGED <<op, at, first, worker, probe>>
  BY DEF Commit, Clients, watchers
<1>2. Switch!Reply(m, "ok")
  BY <1>1, EndReplies DEF Commit
<1>3. tables' = Switch!Goal(m)
  BY ApplyIsGoal DEF Commit
<1>4. Late' = Late
  BY <1>1, SameLate DEF Commit, End
<1> QED
  BY <1>2, <1>3, <1>4 DEF Switch!Migrate

\* A client that loses its connection fails, a migration at its end perhaps before
\* its effect.
LEMMA LossFails ==
    ASSUME IInv, NEW c \in Clients, LoseConnection(c)
    PROVE  Switch!Next
<1>1. /\ pc[c] = "running" /\ pc' = [pc EXCEPT ![c] = "lost"]
      /\ outcome' = [outcome EXCEPT ![c] = Failure(c)]
      /\ UNCHANGED <<tables, op, at, first, worker, probe>>
  BY DEF LoseConnection, Goto, watchers
<1>2. Switch!Reply(c, Switch!Failure(c))
  BY <1>1, UnderWay, SameVerdict DEF Switch!Reply, Switch!Failure, Failure
<1>3. \A m \in Migrators :
          /\ Script(m)' = Script(m)
          /\ AtEnd(m)' <=> AtEnd(m)
  BY <1>1 DEF Script, AtEnd, InTransaction, IInv, TypeOK, Clients
<1>4. Late' = IF c \in Migrators /\ AtEnd(c) THEN Late \cup {c} ELSE Late
  BY <1>1, <1>3 DEF Late, IInv, TypeOK, Clients
<1>5. Switch!Fail(c)
  BY <1>1, <1>2, <1>4 DEF Switch!Fail
<1> QED
  BY <1>5 DEF Switch!Next, Switch!Clients, Clients

\* The transaction of a lost client ends: nobody learns anything new, and if it
\* is a migration's its COMMIT does not come any more, or has come.
LEMMA LostEnds ==
    ASSUME IInv, NEW c \in Clients, pc[c] = "lost", End(c, Failure(c)),
           UNCHANGED <<op, at, first, probe, worker>>
    PROVE  UNCHANGED <<outcome, Verdict>> /\ Late' = Late \ {c}
<1>1. pc' = [pc EXCEPT ![c] = "done"] /\ UNCHANGED outcome
  BY DEF End, Goto, IInv, TypeOK, ControlInv
<1>2. \A m \in Migrators \ {c} : AtEnd(m)' <=> AtEnd(m)
  <2> SUFFICES ASSUME NEW m \in Migrators \ {c} PROVE AtEnd(m)' <=> AtEnd(m)
    OBVIOUS
  <2>1. Script(m)' = Script(m) /\ pc'[m] = pc[m]
    BY <1>1 DEF Script, IInv, TypeOK, Clients
  <2> QED
    BY <2>1 DEF AtEnd, InTransaction
<1> QED
  BY <1>1, <1>2, SameVerdict DEF Late, IInv, TypeOK, Clients

\* So does one that is rolled back.
LEMMA LostGivesUp ==
    ASSUME IInv, NEW c \in Clients, pc[c] = "lost", End(c, Failure(c)),
           UNCHANGED <<tables, op, at, first, probe, worker>>
    PROVE  [Switch!Next]_(Switch!vars)
<1>1. UNCHANGED <<outcome, Verdict>> /\ Late' = Late \ {c}
  BY LostEnds
<1>2. CASE c \in Migrators
  BY <1>1, <1>2 DEF Switch!GiveUp, Switch!Next
<1>3. CASE c \notin Migrators
  BY <1>1, <1>3, Unnoticed DEF Late
<1> QED
  BY <1>2, <1>3

\* A COMMIT that comes late is an effect that does.
LEMMA LateTakesEffect ==
    ASSUME IInv, NEW m \in Migrators, LateCommit(m)
    PROVE  Switch!Next
<1>1. m \in Clients /\ m \in Late
  BY DEF LateCommit, Clients, Late
<1>2. UNCHANGED <<outcome, Verdict>> /\ Late' = Late \ {m}
  BY <1>1, LostEnds DEF LateCommit, watchers
<1>3. tables' = Switch!Goal(m)
  BY ApplyIsGoal DEF LateCommit
<1>4. Switch!TakeEffect(m)
  BY <1>1, <1>2, <1>3 DEF LateCommit, watchers, Switch!TakeEffect
<1> QED
  BY <1>4 DEF Switch!Next

\* An outage fails the clients that are in a transaction.
LEMMA OutageIsOutage ==
    ASSUME IInv, Outage
    PROVE  Switch!Next
<1> DEFINE some == {c \in Clients : pc[c] = "running"}
<1>1. UNCHANGED <<op, worker, probe>>
  BY DEF Outage, watchers
<1>2. \A c \in some : Switch!Pending(c)
  BY UnderWay
<1>3. outcome' = [c \in Clients |-> IF c \in some THEN Switch!Failure(c)
                                                  ELSE outcome[c]]
  <2>1. \A c \in Clients : pc[c] = "lost" => outcome[c] = Failure(c)
    BY DEF IInv, ControlInv
  <2>2. outcome' = [c \in Clients |->
                       IF InTransaction(c) THEN Failure(c) ELSE outcome[c]]
    BY DEF Outage
  <2> QED
    BY <2>1, <2>2 DEF InTransaction, Failure, Switch!Failure
<1>4. \/ UNCHANGED tables
      \/ \E m \in (some \cap Migrators) \cup Late : tables' = Switch!Goal(m)
  <2>1. ASSUME NEW m \in Migrators, AtEnd(m), Apply(m)
        PROVE  m \in some \cup Late /\ tables' = Switch!Goal(m)
    BY <2>1, ApplyIsGoal DEF AtEnd, InTransaction, Late, Clients
  <2> QED
    BY <2>1 DEF Outage
<1>5. some \in SUBSET Clients
  OBVIOUS
<1>6. Late' = {}
  BY DEF Outage, Late, InTransaction, Clients
<1> HIDE DEF some
<1>7. Switch!Outage(some)
  BY <1>1, <1>2, <1>3, <1>4, <1>6, SameVerdict
     DEF Switch!Outage, Switch!Clients, Clients
<1> QED
  BY <1>5, <1>7 DEF Switch!Next, Switch!Clients, Clients

\* Steps that leave the clients alone.
LEMMA SameClients ==
    ASSUME UNCHANGED <<op, pc, at, first>>
    PROVE  Late' = Late
<1>1. \A m : Script(m)' = Script(m)
  BY DEF Script
<1> QED
  BY <1>1 DEF Late, AtEnd, InTransaction

\* A probe looks, or its response arrives, which adds nothing to its verdict.
LEMMA ProbeLooks ==
    ASSUME IInv, NEW p \in Probes, Watch(p)
    PROVE  [Switch!Next]_(Switch!vars)
<1>1. UNCHANGED <<tables, op, outcome, worker>> /\ Late' = Late
  BY SameClients DEF Watch, Query, Answer, database, clients
<1>2. CASE Query(p)
  <2>1. Verdict[p] = "none"
    BY <1>2 DEF Query, Verdict
  <2>2. Verdict' = [Verdict EXCEPT ![p] =
                       IF SchemaSupported THEN "True" ELSE "False"]
    BY <1>2 DEF Query, Verdict, IInv, TypeOK
  <2>3. SchemaSupported => tables = Tables
    BY DEF SchemaSupported, IInv, SchemaWhole
  <2>4. Switch!Look(p)
    BY <1>1, <2>1, <2>2, <2>3 DEF Switch!Look
  <2> QED
    BY <2>4 DEF Switch!Next
<1>3. CASE Answer(p)
  <2>1. Verdict' = Verdict
    BY <1>3 DEF Answer, Verdict, IInv, TypeOK
  <2> QED
    BY <1>1, <2>1, Unnoticed
<1> QED
  BY <1>2, <1>3 DEF Watch

LEMMA WorkerStarts ==
    ASSUME IInv, StartWorker
    PROVE  Switch!StartWorker
<1>1. UNCHANGED <<tables, op, outcome, probe>> /\ Late' = Late
  BY SameClients DEF StartWorker, database, clients
<1>2. SchemaSupported => tables = Tables
  BY DEF SchemaSupported, IInv, SchemaWhole
<1> QED
  BY <1>1, <1>2, SameVerdict DEF StartWorker, Switch!StartWorker

-----------------------------------------------------------------------------
(* The refinement *)

\* The initial states are initial states of the abstract database.
LEMMA InitSwitches == Init => Switch!Init
  BY DEF Init, Switch!Init, Switch!Clients, Clients, Verdict, Late

\* Every step is one of it, or a stutter.
LEMMA StepSwitches ==
    ASSUME IInv, [Next]_vars
    PROVE  [Switch!Next]_(Switch!vars)
<1>1. CASE Begin
  <2>1. ASSUME NEW m \in Migrators, NEW o \in {"upgrade", "downgrade"}, Start(m, o)
        PROVE  Switch!Next
    BY <2>1, StartAsks DEF Switch!Next, Clients
  <2>2. ASSUME NEW r \in Requests, NEW o \in {"login", "inspect", "logout"},
               Start(r, o)
        PROVE  Switch!Next
    BY <2>2, StartAsks DEF Switch!Next, Clients
  <2> QED
    BY <1>1, <2>1, <2>2 DEF Begin
<1>2. ASSUME NEW c \in Clients, AbortDeadlocked(c)
      PROVE  [Switch!Next]_(Switch!vars)
  <2>1. UNCHANGED <<tables, op, at, first, probe, worker>>
    BY <1>2 DEF AbortDeadlocked, database, watchers
  <2> QED
    BY <1>2, <2>1, EndFails, LostGivesUp DEF AbortDeadlocked, InTransaction
<1>3. ASSUME NEW m \in Migrators, Migrate(m)
      PROVE  [Switch!Next]_(Switch!vars)
  <2>1. CASE Commit(m)
    BY <2>1, MigratorCommitting DEF Switch!Next
  <2> QED
    BY <1>2, <1>3, <2>1, MigratorConnecting, MigratorAltering DEF Migrate, Clients
<1>4. ASSUME NEW r \in Requests, Serve(r)
      PROVE  [Switch!Next]_(Switch!vars)
  BY <1>2, <1>4, RequestConnecting, RequestUsing, RequestFinishing
     DEF Serve, Clients
<1>5. ASSUME NEW p \in Probes, Watch(p)
      PROVE  [Switch!Next]_(Switch!vars)
  BY <1>5, ProbeLooks
<1>6. CASE Outage
  BY <1>6, OutageIsOutage
<1>7. CASE StartWorker
  BY <1>7, WorkerStarts DEF Switch!Next
<1>8. CASE Recover \/ Finished \/ UNCHANGED vars
  <2>1. UNCHANGED <<tables, op, pc, at, first, outcome, worker, probe>>
    BY <1>8 DEF Recover, Finished, vars, database, clients, watchers
  <2> QED
    BY <2>1, SameVerdict, SameClients, Unnoticed
<1>9. ASSUME NEW c \in Clients, Reap(c)
      PROVE  [Switch!Next]_(Switch!vars)
  BY <1>9, LostGivesUp DEF Reap, database, watchers
<1> QED
  BY <1>1, <1>3, <1>4, <1>5, <1>6, <1>7, <1>8, <1>9, LossFails, LateTakesEffect
     DEF Next

\* For any number of migrations, requests and probes, the database is one whose
\* schema is switched as a whole: no client can tell its statements, its locks,
\* its deadlocks and its revision table from that.
THEOREM SwitchRefinement == Spec => SwitchesSchema
<1>1. Init => Switch!Init
  BY InitSwitches
<1>2. IInv /\ [Next]_vars => [Switch!Next]_(Switch!vars)
  BY StepSwitches
<1> QED
  BY <1>1, <1>2, Invariance, PTL DEF Spec, SwitchesSchema, Switch!Spec
===================================================================================
