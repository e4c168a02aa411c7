---------------------------- MODULE DeploymentProofs ----------------------------
(***************************************************************************)
(* Proofs about Deployment, for any number of migrations, requests and     *)
(* probes: IInv is inductive, and the promises follow from it.  One lemma  *)
(* for each action; those by which a client ends share Ends, and those by  *)
(* which a statement runs share Takes.                                     *)
(***************************************************************************)
EXTENDS DeploymentInvariant, TLAPS

Ops == {"upgrade", "downgrade", "login", "inspect", "logout"}

\* A script names at most four tables.
LEMMA Scripts ==
    ASSUME NEW c, op[c] \in Ops, first[c] \in BOOLEAN
    PROVE  /\ Len(Script(c)) \in 0 .. 4
           /\ \A i \in 1 .. Len(Script(c)) : Script(c)[i] \in Tables
  BY DEF Ops, Script, Tables

\* A migration comes to all tables.
LEMMA WholeScript ==
    ASSUME NEW c, op[c] \in {"upgrade", "downgrade"}, at[c] = 5
    PROVE  Taken(c) = Tables
<1>1. {i \in 1 .. at[c] - 1 : TRUE} = {1, 2, 3, 4}
  OBVIOUS
<1>2. CASE op[c] = "upgrade"
  BY <1>1, <1>2 DEF Taken, Script, Tables
<1>3. CASE op[c] = "downgrade"
  BY <1>1, <1>3 DEF Taken, Script, Tables
<1> QED
  BY <1>2, <1>3

\* The operation of a client under way.
LEMMA KnownOp ==
    ASSUME IInv, NEW c \in Clients, pc[c] # "idle"
    PROVE  /\ op[c] \in Ops
           /\ op[c] \in {"upgrade", "downgrade"} <=> c \in Migrators
           /\ c \in Requests => op[c] \in {"login", "inspect", "logout"}
  BY DeploymentAssumption DEF IInv, ControlInv, Clients, Ops

\* A migration at its end holds every table, and nobody else holds any.
LEMMA Complete ==
    ASSUME IInv, NEW m \in Migrators, AtEnd(m)
    PROVE  /\ op[m] \in {"upgrade", "downgrade"}
           /\ held[m] = Tables
           /\ \A c \in Clients \ {m} : held[c] = {}
           /\ tables = IF op[m] = "upgrade" THEN {} ELSE Tables
<1>1. m \in Clients /\ op[m] \in {"upgrade", "downgrade"}
  BY KnownOp DEF AtEnd, InTransaction, Clients
<1>2. Len(Script(m)) = 4
  BY <1>1 DEF Script
<1>3. at[m] = 5
  BY <1>1, <1>2 DEF IInv, TypeOK, HeldInv, HeldRight, AtEnd
<1>4. held[m] = Tables
  BY <1>1, <1>3, WholeScript DEF IInv, HeldInv, HeldRight, AtEnd
<1>5. \A c \in Clients \ {m} : held[c] \subseteq Tables /\ held[m] \cap held[c] = {}
  BY DEF IInv, TypeOK, LocksInv
<1>6. Tables # {}
  BY DEF Tables
<1> QED
  BY <1>1, <1>4, <1>5, <1>6 DEF IInv, LocksInv

\* A client whose own variables stay keeps what it holds.
LEMMA HeldStays ==
    ASSUME IInv, NEW d \in Clients, op'[d] = op[d], first'[d] = first[d],
           at'[d] = at[d], held'[d] = held[d],
           InTransaction(d)' <=> InTransaction(d)
    PROVE  HeldRight(d)'
<1>1. Script(d)' = Script(d)
  BY DEF Script
<1>2. Taken(d)' = Taken(d)
  BY <1>1 DEF Taken
<1> QED
  BY <1>1, <1>2 DEF IInv, HeldInv, HeldRight

\* Outside of a transaction a client holds nothing.
LEMMA HeldGone ==
    ASSUME NEW d, ~InTransaction(d)', held'[d] = {}
    PROVE  HeldRight(d)'
  BY DEF HeldRight

\* A transaction that begins keeps the invariant.
LEMMA Resumes ==
    ASSUME IInv, NEW c \in Clients, pc[c] = "connecting", Goto(c, "running"),
           since' = since \/ since' = [since EXCEPT ![c] = dropped],
           UNCHANGED <<database, op, at, first, held, outcome, promises, watchers>>
    PROVE  IInv'
<1>a. /\ since' \in [Clients -> SUBSET Migrators]
      /\ \A d \in Clients : since'[d] \in {since[d], dropped}
      /\ \A d \in Clients \ {c} : since'[d] = since[d]
  BY DEF IInv, TypeOK
<1>b. /\ pc' = [pc EXCEPT ![c] = "running"]
      /\ UNCHANGED <<op, at, first, held, outcome, promises, tables, revision,
                     dropped, up, faults, probe, worker, asked>>
  BY DEF Goto, database, watchers
<1>c. at[c] = 1 /\ held[c] = {} /\ outcome[c] = "none"
  BY DEF IInv, TypeOK, ControlInv, HeldInv, HeldRight, InTransaction
<1>1. TypeOK'
  BY <1>a, <1>b, <1>c DEF IInv, TypeOK, Clients, Outcomes, Clients
<1>2. SchemaWhole'
  BY <1>a, <1>b, <1>c DEF IInv, TypeOK, SchemaWhole, Clients
<1>3. ControlInv'
  BY <1>a, <1>b, <1>c DEF IInv, TypeOK, ControlInv, Clients
<1>4. HeldInv'
  <2> SUFFICES ASSUME NEW d \in Clients PROVE HeldRight(d)'
    BY DEF HeldInv
  <2>1. CASE d = c
    <3>1. Len(Script(c)) \in 0 .. 4 /\ Script(c)' = Script(c)
      BY <1>b, KnownOp, Scripts DEF Script, IInv, TypeOK
    <3>2. Taken(c)' = {}
      BY <1>b, <1>c DEF Taken
    <3> QED
      BY <1>b, <1>c, <2>1, <3>1, <3>2 DEF HeldRight
  <2>2. CASE d # c
    BY <1>b, <2>2, HeldStays DEF InTransaction, IInv, TypeOK
  <2> QED
    BY <2>1, <2>2
<1>5. LocksInv'
  BY <1>a, <1>b, <1>c DEF IInv, TypeOK, LocksInv, Clients
<1>6. HistoryInv'
  BY <1>a, <1>b, <1>c DEF IInv, TypeOK, HistoryInv, StillThere, Clients
<1>7. MissingAtOnce'
  BY <1>a, <1>b, <1>c DEF IInv, TypeOK, MissingAtOnce, ControlInv, Clients
<1>8. ReadyMeansServed'
  BY <1>a, <1>b, <1>c
  DEF IInv, TypeOK, ReadyMeansServed, ControlInv, HistoryInv, StillThere,
      Clients
<1>9. UpgradeMeansSchema'
  BY <1>a, <1>b, <1>c
  DEF IInv, TypeOK, UpgradeMeansSchema, ControlInv, HistoryInv, Clients
<1> QED
  BY <1>1, <1>2, <1>3, <1>4, <1>5, <1>6, <1>7, <1>8, <1>9 DEF IInv

\* A client that ends with an answer that is true.  An alembic_version without
\* a row may have been created.
LEMMA Ends ==
    ASSUME IInv, NEW c \in Clients, pc[c] \in {"connecting", "running", "lost"},
           NEW how \in Outcomes \ {"none"}, End(c, how),
           since' = since \/ since' = [since EXCEPT ![c] = dropped],
           how = "missing" =>
               c \in Requests /\ at[c] = 1 /\ dropped \notin promises[c],
           (op[c] = "upgrade" /\ how = "ok" /\ since'[c] = dropped)
               => revision = "0001",
           revision' = revision \/ (revision = "absent" /\ revision' = "none"),
           UNCHANGED <<up, faults, tables, dropped, op, at, first,
                          promises, watchers>>
    PROVE  IInv'
<1>a. /\ since' \in [Clients -> SUBSET Migrators]
      /\ \A d \in Clients : since'[d] \in {since[d], dropped}
      /\ \A d \in Clients \ {c} : since'[d] = since[d]
  BY DEF IInv, TypeOK
<1>b. /\ pc' = [pc EXCEPT ![c] = "done"]
      /\ outcome' = [outcome EXCEPT ![c] = how]
      /\ held' = [held EXCEPT ![c] = {}]
      /\ UNCHANGED <<op, at, first, promises, tables, dropped, up, faults, probe,
                     worker, asked>>
  BY DEF End, Goto, watchers
<1>c. /\ revision' \in {"absent", "none", "0001"}
      /\ revision' = "0001" <=> revision = "0001"
  BY DEF IInv, TypeOK
<1>1. TypeOK'
  BY <1>a, <1>b, <1>c DEF IInv, TypeOK, Clients, Outcomes, Clients
<1>2. SchemaWhole'
  BY <1>a, <1>b, <1>c DEF IInv, TypeOK, SchemaWhole, Clients
<1>3. ControlInv'
  BY <1>a, <1>b, <1>c DEF IInv, TypeOK, ControlInv, Clients
<1>4. HeldInv'
  <2> SUFFICES ASSUME NEW d \in Clients PROVE HeldRight(d)'
    BY DEF HeldInv
  <2>1. CASE d = c
    BY <2>1, <1>b, HeldGone DEF HeldRight, InTransaction, IInv, TypeOK
  <2>2. CASE d # c
    BY <2>2, <1>b, HeldStays DEF HeldRight, InTransaction, IInv, TypeOK
  <2> QED
    BY <2>1, <2>2
<1>5. LocksInv'
  BY <1>a, <1>b, <1>c DEF IInv, TypeOK, LocksInv, Clients
<1>6. HistoryInv'
  BY <1>a, <1>b, <1>c DEF IInv, TypeOK, HistoryInv, StillThere, Clients
<1>7. MissingAtOnce'
  BY <1>a, <1>b, <1>c DEF IInv, TypeOK, MissingAtOnce, ControlInv, Clients
<1>8. ReadyMeansServed'
  BY <1>a, <1>b, <1>c
  DEF IInv, TypeOK, ReadyMeansServed, ControlInv, HistoryInv, StillThere,
      Clients
<1>9. UpgradeMeansSchema'
  BY <1>a, <1>b, <1>c
  DEF IInv, TypeOK, UpgradeMeansSchema, ControlInv, HistoryInv, Clients
<1> QED
  BY <1>1, <1>2, <1>3, <1>4, <1>5, <1>6, <1>7, <1>8, <1>9 DEF IInv

\* Alembic started, or a request sent, keeps the invariant.
LEMMA Starts ==
    ASSUME IInv, NEW c \in Clients, NEW o \in Ops, Start(c, o),
           o \in {"upgrade", "downgrade"} <=> c \in Migrators,
           c \in Requests => o \in {"login", "inspect", "logout"}
    PROVE  IInv'
<1>a. /\ pc[c] = "idle"
      /\ pc' = [pc EXCEPT ![c] = "connecting"]
      /\ op' = [op EXCEPT ![c] = o]
      /\ promises' = [promises EXCEPT ![c] =
                        {asked[p] : p \in {q \in Probes : probe[q] = "ready"}}]
      /\ UNCHANGED <<at, first, held, outcome, since, tables, revision, dropped,
                     up, faults, probe, worker, asked>>
  BY DEF Start, Goto, database, watchers
<1>b. held[c] = {} /\ outcome[c] = "none"
  BY <1>a DEF IInv, TypeOK, ControlInv, HeldInv, HeldRight, InTransaction
<1>1. TypeOK'
  BY <1>a, <1>b DEF IInv, TypeOK, Clients, Outcomes, Clients, Ops
<1>2. SchemaWhole'
  BY <1>a, <1>b DEF IInv, TypeOK, SchemaWhole, Clients, Ops
<1>3. ControlInv'
  BY <1>a, <1>b DEF IInv, TypeOK, ControlInv, Clients, Ops
<1>4. HeldInv'
  <2> SUFFICES ASSUME NEW d \in Clients PROVE HeldRight(d)'
    BY DEF HeldInv
  <2>1. CASE d = c
    BY <2>1, <1>a, <1>b, HeldGone DEF HeldRight, InTransaction, IInv, TypeOK
  <2>2. CASE d # c
    BY <2>2, <1>a, <1>b, HeldStays DEF HeldRight, InTransaction, IInv, TypeOK
  <2> QED
    BY <2>1, <2>2
<1>5. LocksInv'
  BY <1>a, <1>b DEF IInv, TypeOK, LocksInv, Clients, Ops
<1>6. HistoryInv'
  BY <1>a, <1>b DEF IInv, TypeOK, HistoryInv, StillThere, Clients, Ops
<1>7. MissingAtOnce'
  BY <1>a, <1>b DEF IInv, TypeOK, MissingAtOnce, ControlInv, Clients, Ops
<1>8. ReadyMeansServed'
  BY <1>a, <1>b
  DEF IInv, TypeOK, ReadyMeansServed, ControlInv, HistoryInv, StillThere,
      Clients, Ops
<1>9. UpgradeMeansSchema'
  BY <1>a, <1>b
  DEF IInv, TypeOK, UpgradeMeansSchema, ControlInv, HistoryInv, Clients, Ops
<1> QED
  BY <1>1, <1>2, <1>3, <1>4, <1>5, <1>6, <1>7, <1>8, <1>9 DEF IInv

\* So does Alembic connecting.
LEMMA MigratorConnects ==
    ASSUME IInv, NEW m \in Migrators, ConnectMigrator(m)
    PROVE  IInv'
<1>1. /\ m \in Clients
      /\ pc[m] = "connecting"
      /\ since' = [since EXCEPT ![m] = dropped]
      /\ UNCHANGED <<up, faults, tables, dropped, op, at, first, promises, watchers>>
  BY DEF ConnectMigrator, Clients
<1>2. CASE End(m, "failed") /\ UNCHANGED revision
  BY <1>1, <1>2, Ends DEF Outcomes
<1>3. CASE /\ AtTarget(m)
           /\ revision' = IF revision = "absent" THEN "none" ELSE revision
           /\ End(m, "ok")
  <2>1. op[m] = "upgrade" => revision = "0001"
    BY <1>3 DEF AtTarget, IInv, TypeOK
  <2> QED
    BY <1>1, <1>3, <2>1, Ends DEF Outcomes
<1>4. CASE Goto(m, "running") /\ UNCHANGED <<revision, outcome, held>>
  BY <1>1, <1>4, Resumes DEF database
<1> QED
  BY <1>2, <1>3, <1>4 DEF ConnectMigrator

\* So does a request connecting.
LEMMA RequestConnects ==
    ASSUME IInv, NEW r \in Requests, ConnectRequest(r)
    PROVE  IInv'
<1>1. /\ r \in Clients
      /\ pc[r] = "connecting"
      /\ UNCHANGED <<database, op, at, first, since, promises, watchers>>
  BY DEF ConnectRequest, Clients
<1>2. CASE End(r, "unavailable")
  BY <1>1, <1>2, Ends DEF Outcomes, database
<1>3. CASE Goto(r, "running") /\ UNCHANGED <<outcome, held>>
  BY <1>1, <1>3, Resumes
<1> QED
  BY <1>2, <1>3 DEF ConnectRequest

\* A statement that gets its lock keeps the invariant.
LEMMA Takes ==
    ASSUME IInv, NEW c \in Clients, NEW t \in Tables, pc[c] = "running",
           AtTable(c, t), Applicable(c, t), Take(c, t),
           UNCHANGED <<database, op, pc, first, outcome, since, promises, watchers>>
    PROVE  IInv'
<1>a. /\ pc[c] = "running"
      /\ at[c] <= Len(Script(c)) /\ Script(c)[at[c]] = t
      /\ held' = [held EXCEPT ![c] = held[c] \cup {t}]
      /\ at' = [at EXCEPT ![c] = at[c] + 1]
      /\ UNCHANGED <<op, pc, first, outcome, since, promises, tables, revision,
                     dropped, up, faults, probe, worker, asked>>
  BY DEF AtTable, InTransaction, Take, database, watchers
<1>b. /\ op[c] \in Ops
      /\ op[c] = "upgrade" => c \in Migrators
      /\ Len(Script(c)) \in 0 .. 4
      /\ outcome[c] = "none"
  BY <1>a, KnownOp, Scripts DEF IInv, TypeOK, ControlInv, Ops
<1>e. at[c] \in 1 .. 4
  <2>1. at[c] \in 1 .. 5
    BY DEF IInv, TypeOK
  <2> QED
    BY <2>1, <1>a, <1>b
<1>c. tables = IF op[c] = "upgrade" THEN {} ELSE Tables
  BY DEF Applicable, IInv, SchemaWhole
<1>d. \A d \in Clients \ {c} :
          c \in Migrators \/ d \in Migrators => t \notin held[d]
  BY DEF Take, Waits
<1>1. TypeOK'
  BY <1>a, <1>b, <1>c, <1>d, <1>e DEF IInv, TypeOK, Clients, Outcomes, Clients
<1>2. SchemaWhole'
  BY <1>a, <1>b, <1>c, <1>d, <1>e DEF IInv, TypeOK, SchemaWhole, Clients
<1>3. ControlInv'
  BY <1>a, <1>b, <1>c, <1>d, <1>e DEF IInv, TypeOK, ControlInv, Clients
<1>4. HeldInv'
  <2> SUFFICES ASSUME NEW d \in Clients PROVE HeldRight(d)'
    BY DEF HeldInv
  <2>1. CASE d = c
    <3>1. Script(c)' = Script(c) /\ at[c] \in 1 .. 4
      <4>1. Script(c)' = Script(c)
        BY <1>a DEF Script
      <4> QED
        BY <4>1, <1>e
    <3>2. at'[c] = at[c] + 1 /\ at'[c] - 1 = at[c]
      BY <1>a, <3>1 DEF IInv, TypeOK
    <3>3. Taken(c)' = Taken(c) \cup {Script(c)[at[c]]}
      <4>1. 1 .. at[c] = (1 .. at[c] - 1) \cup {at[c]}
        BY <3>1
      <4> QED
        BY <3>1, <3>2, <4>1 DEF Taken
    <3>4. held[c] = Taken(c)
      BY <1>a DEF IInv, HeldInv, HeldRight, InTransaction
    <3> QED
      BY <1>a, <1>b, <2>1, <3>1, <3>2, <3>3, <3>4
         DEF HeldRight, InTransaction, IInv, TypeOK
  <2>2. CASE d # c
    BY <1>a, <2>2, HeldStays DEF InTransaction, IInv, TypeOK
  <2> QED
    BY <2>1, <2>2
<1>5. LocksInv'
  BY <1>a, <1>b, <1>c, <1>d, <1>e DEF IInv, TypeOK, LocksInv, Clients
<1>6. HistoryInv'
  BY <1>a, <1>b, <1>c, <1>d, <1>e
  DEF IInv, TypeOK, HistoryInv, StillThere, Clients
<1>7. MissingAtOnce'
  BY <1>a, <1>b, <1>c, <1>d, <1>e
  DEF IInv, TypeOK, MissingAtOnce, ControlInv, Clients
<1>8. ReadyMeansServed'
  BY <1>a, <1>b, <1>c, <1>d, <1>e
  DEF IInv, TypeOK, ReadyMeansServed, ControlInv, HistoryInv, StillThere,
      Clients
<1>9. UpgradeMeansSchema'
  BY <1>a, <1>b, <1>c, <1>d, <1>e
  DEF IInv, TypeOK, UpgradeMeansSchema, ControlInv, HistoryInv, Clients
<1> QED
  BY <1>1, <1>2, <1>3, <1>4, <1>5, <1>6, <1>7, <1>8, <1>9 DEF IInv

\* A statement of a request keeps the invariant.
LEMMA Uses ==
    ASSUME IInv, NEW r \in Requests, Use(r)
    PROVE  IInv'
<1>1. PICK t \in Tables :
          /\ pc[r] = "running" /\ AtTable(r, t)
          /\ IF Applicable(r, t)
               THEN Take(r, t) /\ UNCHANGED <<pc, outcome>>
               ELSE End(r, "missing") /\ UNCHANGED at
          /\ UNCHANGED <<database, op, first, since, promises, watchers>>
  BY DEF Use
<1>2. r \in Clients /\ op[r] # "upgrade"
  BY <1>1, KnownOp DEF AtTable, InTransaction, Clients
<1>3. CASE Applicable(r, t)
  BY <1>1, <1>2, <1>3, Takes DEF database, watchers
<1>4. CASE ~Applicable(r, t)
  <2>1. tables # Tables
    BY <1>2, <1>4 DEF Applicable
  <2>2. revision # "0001" /\ held[r] = {}
    BY <1>2, <2>1 DEF IInv, SchemaWhole, LocksInv
  <2>3. at[r] = 1
    <3>1. Taken(r) = {}
      BY <1>1, <1>2, <2>2 DEF IInv, HeldInv, HeldRight, AtTable
    <3>2. at[r] > 1 => Script(r)[1] \in Taken(r)
      BY <1>2 DEF IInv, TypeOK, Taken
    <3> QED
      BY <1>2, <3>1, <3>2 DEF IInv, TypeOK
  <2>4. dropped \notin promises[r]
    BY <1>2, <2>2 DEF IInv, HistoryInv, StillThere
  <2> QED
    BY <1>1, <1>2, <1>4, <2>3, <2>4, Ends DEF Outcomes, database
<1> QED
  BY <1>3, <1>4

\* So does a statement of a migration.
LEMMA Alters ==
    ASSUME IInv, NEW m \in Migrators, Alter(m)
    PROVE  IInv'
<1>1. PICK t \in Tables :
          /\ pc[m] = "running" /\ AtTable(m, t)
          /\ IF Applicable(m, t)
               THEN Take(m, t) /\ UNCHANGED <<pc, outcome>>
               ELSE End(m, "failed") /\ UNCHANGED at
          /\ UNCHANGED <<database, op, first, since, promises, watchers>>
  BY DEF Alter
<1>2. m \in Clients
  BY DEF Clients
<1>3. CASE Applicable(m, t)
  BY <1>1, <1>2, <1>3, Takes
<1>4. CASE ~Applicable(m, t)
  BY <1>1, <1>2, <1>4, Ends DEF Outcomes, database
<1> QED
  BY <1>3, <1>4

\* The end of a request's transaction keeps the invariant.
LEMMA Finishes ==
    ASSUME IInv, NEW r \in Requests, Finish(r)
    PROVE  IInv'
<1>a. r \in Clients /\ pc[r] = "running" /\ op[r] # "upgrade"
  BY KnownOp DEF Finish, AtEnd, InTransaction, Clients
<1>b. CASE End(r, "served") /\ UNCHANGED <<at, first>>
  BY <1>a, <1>b, Ends DEF Finish, Outcomes, database
<1>c. CASE /\ Goto(r, "connecting")
           /\ at' = [at EXCEPT ![r] = 1]
           /\ first' = [first EXCEPT ![r] = FALSE]
           /\ held' = [held EXCEPT ![r] = {}]
           /\ UNCHANGED outcome
  <2>d. /\ pc' = [pc EXCEPT ![r] = "connecting"]
        /\ at' = [at EXCEPT ![r] = 1]
        /\ first' = [first EXCEPT ![r] = FALSE]
        /\ held' = [held EXCEPT ![r] = {}]
        /\ UNCHANGED <<op, outcome, since, promises, tables, revision, dropped, up,
                       faults, probe, worker, asked>>
    BY <1>c DEF Finish, Goto, database, watchers
  <2>e. outcome[r] = "none"
    BY <1>a DEF IInv, ControlInv
  <2>1. TypeOK'
    BY <1>a, <2>d, <2>e DEF IInv, TypeOK, Clients, Outcomes, Clients
  <2>2. SchemaWhole'
    BY <1>a, <2>d, <2>e DEF IInv, TypeOK, SchemaWhole, Clients
  <2>3. ControlInv'
    BY <1>a, <2>d, <2>e DEF IInv, TypeOK, ControlInv, Clients
  <2>4. HeldInv'
    <3> SUFFICES ASSUME NEW d \in Clients PROVE HeldRight(d)'
      BY DEF HeldInv
    <3>1. CASE d = r
      BY <3>1, <1>a, <2>d, HeldGone DEF HeldRight, InTransaction, IInv, TypeOK
    <3>2. CASE d # r
      BY <3>2, <1>a, <2>d, HeldStays DEF HeldRight, InTransaction, IInv, TypeOK
    <3> QED
      BY <3>1, <3>2
  <2>5. LocksInv'
    BY <1>a, <2>d, <2>e DEF IInv, TypeOK, LocksInv, Clients
  <2>6. HistoryInv'
    BY <1>a, <2>d, <2>e DEF IInv, TypeOK, HistoryInv, StillThere, Clients
  <2>7. MissingAtOnce'
    BY <1>a, <2>d, <2>e DEF IInv, TypeOK, MissingAtOnce, ControlInv, Clients
  <2>8. ReadyMeansServed'
    BY <1>a, <2>d, <2>e
    DEF IInv, TypeOK, ReadyMeansServed, ControlInv, HistoryInv, StillThere,
        Clients
  <2>9. UpgradeMeansSchema'
    BY <1>a, <2>d, <2>e
    DEF IInv, TypeOK, UpgradeMeansSchema, ControlInv, HistoryInv, Clients
  <2> QED
    BY <2>1, <2>2, <2>3, <2>4, <2>5, <2>6, <2>7, <2>8, <2>9 DEF IInv
<1> QED
  BY <1>b, <1>c DEF Finish

\* A migration that commits keeps the invariant, whether its client lives or not.
LEMMA Commits ==
    ASSUME IInv, NEW m \in Migrators, Commit(m) \/ LateCommit(m)
    PROVE  IInv'
<1> PICK how \in {"ok", "failed"} :
        /\ pc[m] = IF how = "ok" THEN "running" ELSE "lost"
        /\ AtEnd(m) /\ Apply(m) /\ End(m, how)
        /\ UNCHANGED <<up, faults, op, at, first, since, promises, watchers>>
  BY DEF Commit, LateCommit, Failure
<1>a. /\ m \in Clients
      /\ pc[m] \in {"running", "lost"}
      /\ m \notin dropped
  BY DEF Clients, IInv, HistoryInv
<1>b. /\ op[m] \in {"upgrade", "downgrade"}
      /\ held' = [c \in Clients |-> {}]
  BY <1>a, Complete DEF End, IInv, TypeOK
<1>c. \/ /\ op[m] = "upgrade"
         /\ tables' = Tables /\ revision' = "0001" /\ dropped' = dropped
      \/ /\ op[m] = "downgrade"
         /\ tables' = {} /\ revision' = "none" /\ dropped' = dropped \cup {m}
  BY <1>a, Complete DEF Apply
<1>d. /\ pc' = [pc EXCEPT ![m] = "done"]
      /\ outcome' = [outcome EXCEPT ![m] = how]
      /\ UNCHANGED <<up, faults, op, at, first, since, promises, watchers>>
  BY DEF End, Goto
<1>e. \A c \in Clients \ {m} : held[c] = {} /\ held'[c] = {}
  BY <1>a, <1>b, Complete
<1>1. TypeOK'
  BY DeploymentAssumption, <1>a, <1>b, <1>c, <1>d
  DEF IInv, TypeOK, Clients, Outcomes, watchers, Clients
<1>2. SchemaWhole'
  BY DeploymentAssumption, <1>a, <1>b, <1>c, <1>d
  DEF IInv, TypeOK, SchemaWhole, watchers, Clients
<1>3. ControlInv'
  BY DeploymentAssumption, <1>a, <1>b, <1>c, <1>d
  DEF IInv, TypeOK, ControlInv, watchers, Clients
<1>4. HeldInv'
  <2> SUFFICES ASSUME NEW d \in Clients PROVE HeldRight(d)'
    BY DEF HeldInv
  <2>1. CASE d = m
    BY <2>1, <1>a, <1>b, <1>d, <1>e, HeldGone
    DEF HeldInv, HeldRight, watchers, InTransaction, IInv, TypeOK
  <2>2. CASE d # m
    BY <2>2, <1>a, <1>b, <1>d, <1>e, HeldStays
    DEF HeldInv, HeldRight, watchers, InTransaction, IInv, TypeOK
  <2> QED
    BY <2>1, <2>2
<1>5. LocksInv'
  BY DeploymentAssumption, <1>a, <1>b, <1>c, <1>d
  DEF IInv, TypeOK, LocksInv, watchers, Clients
<1>6. HistoryInv'
  BY DeploymentAssumption, <1>a, <1>b, <1>c, <1>d
  DEF IInv, TypeOK, HistoryInv, StillThere, watchers, Clients
<1>7. MissingAtOnce'
  BY DeploymentAssumption, <1>a, <1>b, <1>c, <1>d
  DEF IInv, TypeOK, MissingAtOnce, ControlInv, watchers, Clients
<1>8. ReadyMeansServed'
  BY DeploymentAssumption, <1>a, <1>b, <1>c, <1>d
  DEF IInv, TypeOK, ReadyMeansServed, ControlInv, HistoryInv, StillThere,
      watchers, Clients
<1>9. UpgradeMeansSchema'
  BY DeploymentAssumption, <1>a, <1>b, <1>c, <1>d
  DEF IInv, TypeOK, UpgradeMeansSchema, ControlInv, HistoryInv, watchers,
      Clients
<1> QED
  BY <1>1, <1>2, <1>3, <1>4, <1>5, <1>6, <1>7, <1>8, <1>9 DEF IInv

\* So does an outage.
LEMMA Outages ==
    ASSUME IInv, Outage
    PROVE  IInv'
<1>b. \/ UNCHANGED <<tables, revision, dropped>>
      \/ /\ tables' = Tables /\ revision' = "0001" /\ dropped' = dropped
      \/ \E m \in Migrators :
            /\ InTransaction(m)
            /\ m \notin dropped
            /\ tables' = {} /\ revision' = "none" /\ dropped' = dropped \cup {m}
  <2>1. CASE UNCHANGED <<tables, revision, dropped>>
    BY <2>1
  <2>2. CASE \E m \in Migrators : AtEnd(m) /\ Apply(m)
    <3>1. PICK m \in Migrators : AtEnd(m) /\ Apply(m)
      BY <2>2
    <3>2. InTransaction(m) /\ m \notin dropped
      BY <3>1 DEF AtEnd, InTransaction, IInv, HistoryInv
    <3>3. \/ op[m] = "upgrade" /\ tables = {} /\ held[m] = Tables
          \/ op[m] = "downgrade" /\ tables = Tables /\ held[m] = Tables
      BY <3>1, Complete
    <3> QED
      BY <3>1, <3>2, <3>3 DEF Apply
  <2> QED
    BY <2>1, <2>2 DEF Outage
<1>d. /\ pc' = [c \in Clients |-> IF InTransaction(c) THEN "done" ELSE pc[c]]
      /\ outcome' = [c \in Clients |->
                        IF InTransaction(c) THEN Failure(c) ELSE outcome[c]]
      /\ held' = [c \in Clients |-> {}]
      /\ up' = FALSE
      /\ faults' \in 0 .. MaxFaults
      /\ UNCHANGED <<op, at, first, since, promises, watchers>>
  BY DeploymentAssumption DEF Outage, Fault, IInv, TypeOK
<1>1. TypeOK'
  BY <1>b, <1>d DEF IInv, TypeOK, Outcomes, watchers, InTransaction, Failure, Clients
<1>2. SchemaWhole'
  BY <1>b, <1>d DEF IInv, TypeOK, SchemaWhole, watchers,
         InTransaction, Failure, Clients
<1>3. ControlInv'
  BY <1>b, <1>d DEF IInv, TypeOK, ControlInv, watchers,
         InTransaction, Failure, Clients
<1>4. HeldInv'
  <2> SUFFICES ASSUME NEW d \in Clients PROVE HeldRight(d)'
    BY DEF HeldInv
  <2> QED
    BY <1>d, HeldGone DEF InTransaction
<1>5. LocksInv'
  BY <1>b, <1>d DEF IInv, TypeOK, LocksInv, watchers, InTransaction, Failure, Clients
<1>6. HistoryInv'
  BY <1>b, <1>d
  DEF IInv, TypeOK, HistoryInv, StillThere, watchers, InTransaction, Failure, Clients
<1>7. MissingAtOnce'
  BY <1>b, <1>d
  DEF IInv, TypeOK, MissingAtOnce, ControlInv, watchers,
      InTransaction, Failure, Clients
<1>8. ReadyMeansServed'
  BY <1>b, <1>d
  DEF IInv, TypeOK, ReadyMeansServed, ControlInv, HistoryInv, StillThere,
      watchers, InTransaction, Failure, Clients
<1>9. UpgradeMeansSchema'
  BY <1>b, <1>d
  DEF IInv, TypeOK, UpgradeMeansSchema, ControlInv, HistoryInv, watchers,
      InTransaction, Failure, Clients
<1> QED
  BY <1>1, <1>2, <1>3, <1>4, <1>5, <1>6, <1>7, <1>8, <1>9 DEF IInv

\* So does the loss of a connection, after which the client has its answer and
\* its transaction holds what it held.
LEMMA Losses ==
    ASSUME IInv, NEW c \in Clients, LoseConnection(c)
    PROVE  IInv'
<1>a. /\ pc[c] = "running"
      /\ pc' = [pc EXCEPT ![c] = "lost"]
      /\ outcome' = [outcome EXCEPT ![c] = Failure(c)]
      /\ faults' \in 0 .. MaxFaults
      /\ UNCHANGED <<op, at, first, held, since, promises, tables, revision,
                     dropped, up, probe, worker, asked>>
  BY DeploymentAssumption DEF LoseConnection, Fault, Goto, watchers, IInv, TypeOK
<1>b. Failure(c) \in {"failed", "unavailable"}
  BY DEF Failure
<1>1. TypeOK'
  BY <1>a, <1>b DEF IInv, TypeOK, Outcomes
<1>2. SchemaWhole'
  BY <1>a DEF IInv, SchemaWhole
<1>3. ControlInv'
  BY <1>a, <1>b DEF IInv, TypeOK, ControlInv, Clients, Failure
<1>4. HeldInv'
  <2> SUFFICES ASSUME NEW d \in Clients PROVE HeldRight(d)'
    BY DEF HeldInv
  <2> QED
    BY <1>a, HeldStays DEF InTransaction, IInv, TypeOK
<1>5. LocksInv'
  BY <1>a DEF IInv, LocksInv
<1>6. HistoryInv'
  BY <1>a DEF IInv, TypeOK, HistoryInv, StillThere, Clients
<1>7. MissingAtOnce'
  BY <1>a, <1>b DEF IInv, TypeOK, MissingAtOnce, Clients
<1>8. ReadyMeansServed'
  BY <1>a, <1>b DEF IInv, TypeOK, ReadyMeansServed, Clients
<1>9. UpgradeMeansSchema'
  BY <1>a, <1>b DEF IInv, TypeOK, UpgradeMeansSchema, Clients
<1> QED
  BY <1>1, <1>2, <1>3, <1>4, <1>5, <1>6, <1>7, <1>8, <1>9 DEF IInv

\* So do a recovery and the start of the worker.
LEMMA OthersStep ==
    ASSUME IInv, Recover \/ StartWorker \/ UNCHANGED vars
    PROVE  IInv'
<1>a. /\ UNCHANGED <<faults, tables, revision, dropped, clients, probe, asked>>
      /\ up' \in BOOLEAN
      /\ worker' \in {"off", "ready", "exited"}
  BY DEF Recover, StartWorker, vars, database, clients, watchers, IInv, TypeOK
<1>1. TypeOK'
  BY <1>a DEF IInv, TypeOK, Clients, Outcomes, clients
<1>2. SchemaWhole'
  BY <1>a DEF IInv, TypeOK, SchemaWhole, clients
<1>3. ControlInv'
  BY <1>a DEF IInv, TypeOK, ControlInv, clients
<1>4. HeldInv'
  <2> SUFFICES ASSUME NEW d \in Clients PROVE HeldRight(d)'
    BY DEF HeldInv
  <2> QED
    BY <1>a, HeldStays DEF clients, InTransaction
<1>5. LocksInv'
  BY <1>a DEF IInv, TypeOK, LocksInv, clients
<1>6. HistoryInv'
  BY <1>a DEF IInv, TypeOK, HistoryInv, StillThere, clients
<1>7. MissingAtOnce'
  BY <1>a DEF IInv, TypeOK, MissingAtOnce, ControlInv, clients
<1>8. ReadyMeansServed'
  BY <1>a
  DEF IInv, TypeOK, ReadyMeansServed, ControlInv, HistoryInv, StillThere,
      clients
<1>9. UpgradeMeansSchema'
  BY <1>a DEF IInv, TypeOK, UpgradeMeansSchema, ControlInv, HistoryInv, clients
<1> QED
  BY <1>1, <1>2, <1>3, <1>4, <1>5, <1>6, <1>7, <1>8, <1>9 DEF IInv

\* So does a readiness probe, of which only HistoryInv speaks.
LEMMA Watches ==
    ASSUME IInv, NEW p \in Probes, Watch(p)
    PROVE  IInv'
<1>a. UNCHANGED <<database, clients, worker>>
  BY DEF Watch, Query, Answer
<1>b. \/ /\ probe' = [probe EXCEPT ![p] = IF SchemaSupported THEN "True" ELSE "False"]
         /\ asked' = [asked EXCEPT ![p] = dropped]
      \/ /\ probe[p] \in {"True", "False"}
         /\ probe' = [probe EXCEPT ![p] = IF @ = "True" THEN "ready" ELSE "not_ready"]
         /\ asked' = asked
  BY DEF Watch, Query, Answer
<1>1. TypeOK'
  BY <1>a, <1>b
  DEF IInv, TypeOK, Clients, Outcomes, database, clients, SchemaSupported
<1>2. SchemaWhole'
  BY <1>a, <1>b
  DEF IInv, TypeOK, SchemaWhole, database, clients, SchemaSupported
<1>3. ControlInv'
  BY <1>a, <1>b
  DEF IInv, TypeOK, ControlInv, database, clients, SchemaSupported
<1>4. HeldInv'
  <2> SUFFICES ASSUME NEW d \in Clients PROVE HeldRight(d)'
    BY DEF HeldInv
  <2> QED
    BY <1>a, HeldStays DEF clients, InTransaction
<1>5. LocksInv'
  BY <1>a, <1>b DEF IInv, TypeOK, LocksInv, database, clients, SchemaSupported
<1>6. HistoryInv'
  BY <1>a, <1>b
  DEF IInv, TypeOK, HistoryInv, StillThere, database, clients, SchemaSupported
<1>7. MissingAtOnce'
  BY <1>a, <1>b
  DEF IInv, TypeOK, MissingAtOnce, ControlInv, database, clients,
      SchemaSupported
<1>8. ReadyMeansServed'
  BY <1>a, <1>b
  DEF IInv, TypeOK, ReadyMeansServed, ControlInv, HistoryInv, StillThere,
      database, clients, SchemaSupported
<1>9. UpgradeMeansSchema'
  BY <1>a, <1>b
  DEF IInv, TypeOK, UpgradeMeansSchema, ControlInv, HistoryInv, database,
      clients, SchemaSupported
<1> QED
  BY <1>1, <1>2, <1>3, <1>4, <1>5, <1>6, <1>7, <1>8, <1>9 DEF IInv

-----------------------------------------------------------------------------
(* Deadlocks *)

\* A script names no table twice.
LEMMA ScriptsDistinct ==
    ASSUME NEW c, op[c] \in Ops, first[c] \in BOOLEAN,
           NEW i \in 1 .. Len(Script(c)), NEW j \in 1 .. Len(Script(c)),
           Script(c)[i] = Script(c)[j]
    PROVE  i = j
  BY DEF Ops, Script

\* Who waits and who is waited for: a statement that can be parsed meets an
\* upgrade's lock only in an upgrade, and a migration only waits for one like
\* it that is further on.
LEMMA Waiting ==
    ASSUME IInv, NEW c \in Clients, NEW d \in Clients, Waits(c, d)
    PROVE  /\ c \in Migrators => op[c] \in {"upgrade", "downgrade"}
           /\ d \in Migrators => op[d] \in {"upgrade", "downgrade"}
           /\ c \in Requests => op[c] # "upgrade" /\ d \in Migrators
           /\ d \in Requests => op[d] # "upgrade" /\ c \in Migrators
           /\ op[c] = "upgrade" <=> op[d] = "upgrade"
           /\ op[c] = op[d] => at[c] < at[d]
<1>1. PICK t \in held[d] : AtTable(c, t) /\ Applicable(c, t)
  BY DEF Waits
<1>2. InTransaction(c) /\ InTransaction(d)
  BY <1>1 DEF AtTable, IInv, HeldInv, HeldRight
<1>3. /\ c \in Migrators \/ d \in Migrators
      /\ op[c] \in Ops
      /\ op[c] \in {"upgrade", "downgrade"} <=> c \in Migrators
      /\ op[d] \in Ops
      /\ op[d] \in {"upgrade", "downgrade"} <=> d \in Migrators
  BY <1>2, KnownOp DEF InTransaction, Waits
<1>4. op[c] = "upgrade" <=> op[d] = "upgrade"
  <2>1. t \in Tables /\ tables = IF op[d] = "upgrade" THEN {} ELSE Tables
    BY DEF IInv, TypeOK, LocksInv
  <2> QED
    BY <1>1, <2>1 DEF Applicable
<1>5. ASSUME op[c] = op[d]
      PROVE  at[c] < at[d]
  <2>1. Script(c) = Script(d)
    BY <1>3, <1>5 DEF Script
  <2>2. /\ Len(Script(c)) \in 0 .. 4
        /\ at[c] \in 1 .. Len(Script(c)) /\ Script(c)[at[c]] = t
    <3>1. first[c] \in BOOLEAN /\ at[c] \in 1 .. 5
      BY DEF IInv, TypeOK
    <3>2. Len(Script(c)) \in 0 .. 4
      BY <1>3, <3>1, Scripts
    <3> QED
      BY <1>1, <3>1, <3>2 DEF AtTable
  <2>3. /\ at[d] \in 1 .. Len(Script(d)) + 1
        /\ t \in Taken(d)
    BY <1>2, <2>1, <2>2 DEF IInv, TypeOK, HeldInv, HeldRight
  <2>4. PICK i \in 1 .. at[d] - 1 : Script(d)[i] = t
    BY <2>3 DEF Taken
  <2>5. i \in 1 .. Len(Script(c)) /\ i < at[d]
    BY <2>1, <2>2, <2>3
  <2>6. i = at[c]
    BY <1>3, <2>1, <2>2, <2>4, <2>5, ScriptsDistinct DEF IInv, TypeOK
  <2> QED
    BY <2>5, <2>6
<1> QED
  BY <1>3, <1>4, <1>5, DeploymentAssumption

\* A client in a deadlock is not outside of what it waits for.
LEMMA NoWayOut ==
    ASSUME NEW c \in Clients, Deadlocked(c), NEW S \in SUBSET Clients, c \notin S
    PROVE  \E d \in S \cup {c}, e \in Clients \ S : Waits(d, e)
  BY DEF Deadlocked, WaitsWithin

\* The migrations like c that are further on than c.
Ahead(c) == {m \in Migrators : op[m] = op[c] /\ at[c] < at[m]}

\* Who is in a deadlock waits, directly or not, for a downgrade that waits for
\* a request, as migrations like each other wait in line only, and for a request
\* that waits for a downgrade, as requests do not wait for each other.
LEMMA DeadlockShape ==
    ASSUME IInv
    PROVE  DeadlocksNeedDowngrade
<1> SUFFICES ASSUME NEW c \in Clients, Deadlocked(c)
             PROVE  /\ op[c] # "upgrade"
                    /\ \E m \in Migrators, r \in Requests :
                          op[m] = "downgrade" /\ Waits(m, r)
                    /\ \E m \in Migrators, r \in Requests :
                          op[m] = "downgrade" /\ Waits(r, m)
  BY DEF DeadlocksNeedDowngrade
<1>1. Ahead(c) \in SUBSET Clients /\ \A m \in Clients : at[m] \in Nat
  BY DEF Ahead, Clients, IInv, TypeOK
<1>2. c \notin Ahead(c)
  BY <1>1 DEF Ahead
<1>3. ASSUME c \in Migrators
      PROVE  /\ op[c] = "downgrade"
             /\ \E m \in Migrators, r \in Requests :
                   op[m] = "downgrade" /\ Waits(m, r)
  <2>1. PICK m \in Ahead(c) \cup {c}, e \in Clients \ Ahead(c) : Waits(m, e)
    BY <1>1, <1>2, NoWayOut
  <2>2. m \in Migrators /\ m \in Clients /\ op[m] = op[c] /\ at[c] <= at[m]
    BY <1>1, <1>3, <2>1 DEF Ahead
  <2>3. /\ op[m] \in {"upgrade", "downgrade"}
        /\ e \in Migrators => op[e] \in {"upgrade", "downgrade"}
        /\ e \in Requests => op[e] # "upgrade"
        /\ op[m] = "upgrade" <=> op[e] = "upgrade"
        /\ op[m] = op[e] => at[m] < at[e]
    BY <2>1, <2>2, Waiting
  <2>4. e \notin Migrators
    <3>1. e \in Migrators => op[e] = op[m]
      BY <2>3
    <3>2. op[e] = op[m] => at[c] < at[e]
      BY <1>1, <2>1, <2>2, <2>3
    <3> QED
      BY <2>1, <2>2, <3>1, <3>2 DEF Ahead
  <2> QED
    BY <2>1, <2>2, <2>3, <2>4 DEF Clients
<1>4. ASSUME c \in Requests
      PROVE  /\ op[c] # "upgrade"
             /\ \E m \in Migrators : op[m] = "downgrade" /\ Waits(c, m)
             /\ \E m \in Migrators, r \in Requests :
                   op[m] = "downgrade" /\ Waits(m, r)
  <2>1. PICK e \in Clients : Waits(c, e)
    <3>1. {} \in SUBSET Clients /\ c \notin {}
      OBVIOUS
    <3>2. \E d \in {} \cup {c}, e \in Clients \ {} : Waits(d, e)
      BY <3>1, NoWayOut
    <3> QED
      BY <3>2
  <2>2. op[c] # "upgrade" /\ e \in Migrators /\ op[e] = "downgrade"
    BY <1>4, <2>1, Waiting
  <2>3. Migrators \in SUBSET Clients /\ c \notin Migrators
    BY <1>4, DeploymentAssumption DEF Clients
  <2>4. PICK m \in Migrators \cup {c}, d \in Clients \ Migrators : Waits(m, d)
    BY <2>3, NoWayOut
  <2>5. d \in Requests /\ m \in Clients
    BY <2>3, <2>4 DEF Clients
  <2>6. m \in Migrators /\ op[m] = "downgrade"
    BY <2>3, <2>4, <2>5, Waiting
  <2> QED
    BY <2>1, <2>2, <2>4, <2>5, <2>6
<1>5. ASSUME c \in Migrators
      PROVE  \E m \in Migrators, r \in Requests : op[m] = "downgrade" /\ Waits(r, m)
  <2> DEFINE S == Requests \cup Ahead(c)
  <2>1. S \in SUBSET Clients /\ c \notin S
    BY <1>1, <1>2, <1>5, DeploymentAssumption DEF Clients
  <2> HIDE DEF S
  <2>2. PICK d \in S \cup {c}, e \in Clients \ S : Waits(d, e)
    BY <2>1, NoWayOut
  <2> USE DEF S
  <2>3. e \in Migrators /\ d \in Clients
    BY <2>1, <2>2 DEF Clients
  <2>4. d \notin Migrators
    <3>1. ASSUME d \in Migrators
          PROVE  op[d] = op[c] /\ at[c] <= at[d]
      BY <1>1, <1>5, <2>2, <3>1, DeploymentAssumption DEF Ahead
    <3>2. ASSUME d \in Migrators
          PROVE  op[e] = op[d] /\ at[d] < at[e]
      BY <2>2, <2>3, <3>2, Waiting
    <3>3. d \in Migrators => op[e] = op[c] /\ at[c] < at[e]
      BY <1>1, <2>3, <3>1, <3>2
    <3> QED
      BY <2>2, <2>3, <3>3 DEF Ahead
  <2>5. d \in Requests
    BY <2>3, <2>4 DEF Clients
  <2> QED
    BY <2>2, <2>3, <2>5, Waiting
<1> QED
  BY <1>3, <1>4, <1>5 DEF Clients

-----------------------------------------------------------------------------
(* Theorems *)

\* The initial state satisfies the invariant.
LEMMA InitIInv == Init => IInv
<1> SUFFICES ASSUME Init PROVE IInv
  OBVIOUS
<1>1. \A c \in Clients : ~InTransaction(c)
  BY DEF Init, InTransaction
<1> QED
  BY <1>1, DeploymentAssumption
     DEF Init, IInv, TypeOK, SchemaWhole, ControlInv, HeldInv, HeldRight, LocksInv,
         HistoryInv, MissingAtOnce, ReadyMeansServed, UpgradeMeansSchema, Clients,
         Outcomes,
         Tables

\* Every step keeps it.
LEMMA NextIInv == IInv /\ [Next]_vars => IInv'
<1> SUFFICES ASSUME IInv, [Next]_vars PROVE IInv'
  OBVIOUS
<1>1. CASE Begin
  <2>1. ASSUME NEW m \in Migrators, NEW o \in {"upgrade", "downgrade"}, Start(m, o)
        PROVE  IInv'
    BY <2>1, Starts, DeploymentAssumption DEF Clients, Ops
  <2>2. ASSUME NEW r \in Requests, NEW o \in {"login", "inspect", "logout"},
               Start(r, o)
        PROVE  IInv'
    BY <2>2, Starts, DeploymentAssumption DEF Clients, Ops
  <2> QED
    BY <1>1, <2>1, <2>2 DEF Begin
<1>2. ASSUME NEW c \in Clients, AbortDeadlocked(c)
      PROVE  IInv'
  BY <1>2, Ends DEF AbortDeadlocked, InTransaction, Failure, Outcomes, database
<1>3. ASSUME NEW m \in Migrators, Migrate(m)
      PROVE  IInv'
  BY <1>2, <1>3, MigratorConnects, Alters, Commits DEF Migrate, Clients
<1>4. ASSUME NEW r \in Requests, Serve(r)
      PROVE  IInv'
  BY <1>2, <1>4, RequestConnects, Uses, Finishes DEF Serve, Clients
<1>5. ASSUME NEW p \in Probes, Watch(p)
      PROVE  IInv'
  BY <1>5, Watches
<1>6. CASE Outage
  BY <1>6, Outages
<1>7. CASE Recover \/ StartWorker \/ Finished \/ UNCHANGED vars
  BY <1>7, OthersStep DEF Finished
<1>8. ASSUME NEW c \in Clients, Reap(c)
      PROVE  IInv'
  BY <1>8, Ends DEF Reap, Failure, Outcomes, database
<1>9. ASSUME NEW m \in Migrators, LateCommit(m)
      PROVE  IInv'
  BY <1>9, Commits
<1> QED
  BY <1>1, <1>3, <1>4, <1>5, <1>6, <1>7, <1>8, <1>9, Losses DEF Next

\* The inductive invariant holds, whatever migrations, requests and probes there
\* are.
THEOREM Invariance == Spec => []IInv
  BY InitIInv, NextIInv, PTL DEF Spec

\* The schema is whole or absent, and alembic_version tells which: for any
\* number of migrations that race, deadlock, fail or are cut off.
THEOREM MigrationsAreAtomic == Spec => []SchemaWhole
  BY Invariance, PTL DEF IInv

\* No request has the schema taken from under it in a transaction.
THEOREM SchemaStaysUnderRequests == Spec => []MissingAtOnce
  BY Invariance, PTL DEF IInv

\* A request sent after "ready" finds its tables unless a downgrade committed.
THEOREM ReadinessIsTrue == Spec => []ReadyMeansServed
  BY Invariance, PTL DEF IInv

\* An upgrade that ends well has left the schema, unless a downgrade committed.
THEOREM UpgradesUpgrade == Spec => []UpgradeMeansSchema
  BY Invariance, PTL DEF IInv

\* Every deadlock is one of a downgrade and requests: whatever their number,
\* neither upgrades nor requests deadlock among themselves.
THEOREM DeadlocksAreOfDowngrades == Spec => []DeadlocksNeedDowngrade
  BY Invariance, DeadlockShape, PTL
=================================================================================
