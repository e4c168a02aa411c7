------------------------------ MODULE Workspaces ------------------------------
(***************************************************************************)
(* The workspace service of extensible_ai_workspace (module                *)
(* workspace/application/service.py) running on its PostgreSQL unit of     *)
(* work (workspace/infrastructure/postgres.py).                            *)
(*                                                                         *)
(* A request is one call of the service: a member of Creates calls create, *)
(* a member of Reads calls get or list.  Calls overlap without limit; each *)
(* runs one statement in a transaction of its own, at READ COMMITTED.      *)
(*                                                                         *)
(* The workspace that a create makes has the request's name as its id: a   *)
(* number, for the list is ordered by id where creation times are equal,   *)
(* and requests arrive in any order.  "A value or nothing yet" is a set of *)
(* at most one value.                                                      *)
(*                                                                         *)
(* Beside some definitions stands a mutated form, marked "Slip", that no   *)
(* action uses: the property it breaks is named in the README.             *)
(***************************************************************************)
EXTENDS WorkspaceRules, FiniteSets, Sequences, Functions

CONSTANTS
    Creates,      \* calls of create, each made once
    Reads,        \* calls of get and list, each made once
    Owners,       \* internal users that callers are authenticated as
    Metadata,     \* what callers give a workspace: a name and a description
    EditedNames,  \* the names that an operator may give a workspace
    ArchivedKept, \* whether he leaves archived_at as it is: {FALSE}, or BOOLEAN
    MaxTime,      \* bound on the clock
    MaxFaults     \* bound on the failures and restarts of a behaviour

ASSUME WorkspacesAssumption ==
    /\ Creates \subseteq Nat
    /\ Creates \cap Reads = {}
    /\ Metadata \subseteq [name : Texts, description : Texts \cup {None}]
    /\ EditedNames \subseteq Texts
    /\ ArchivedKept \subseteq BOOLEAN
    /\ MaxTime \in Nat
    /\ MaxFaults \in Nat

VARIABLES
    users,       \* ids in iam.users
    workspaces,  \* committed rows of workspace.workspaces
    inserted,    \* inserted[r]: the rows that r's open transaction has written
    sent,        \* requests whose COMMIT the server has yet to run
    conn,        \* conn[r]: the connection of r's unit of work
    now,         \* the application's clock
    faults,      \* failures so far
    pc,          \* pc[r]: the statement r runs next
    input,       \* input[r]: the arguments of r
    built,       \* built[r]: the Workspace object a create builds
    found,       \* found[r]: the rows, in order, that a get or list has read
    result,      \* result[r]: what the service returns or raises to its caller
    durable,     \* history: the creates whose transaction committed
    edited,      \* history: the workspaces an operator has edited
    before,      \* history: before[r], the creates answered before r was called
    setBack      \* history: the clock has been set back

store   == <<users, workspaces, edited>>
server  == <<store, inserted, sent, durable>>
history == <<before, setBack>>
vars == <<server, conn, now, faults, pc, input, built, found, result, history>>

-----------------------------------------------------------------------------
Requests == Creates \cup Reads
Times    == 0 .. MaxTime

WorkspaceRow ==
    [id : Creates, owner : Owners, name : Texts, description : Texts \cup {None},
     status : WorkspaceStatus, created_at : Times, updated_at : Times,
     archived_at : Times \cup {None},
     deletion_requested_at : Times \cup {None}]

Inputs == [op : {"none", "create", "get", "list"}, owner : Owners \cup {None},
           workspace : Creates \cup {None}]
NoInput == [op |-> "none", owner |-> None, workspace |-> None]

Statements == {"add", "get_for_owner", "list_for_owner"}

Returned == {"Created", "Found", "Listed"}
\* OperationalError is psycopg's own error, raised where nothing catches it.
Raised == {"WorkspaceUnavailable", "ValueError", "WorkspacePersistenceError",
           "WorkspacePersistenceConflict", "OperationalError"}

-----------------------------------------------------------------------------
(* Rows *)

\* create: the arguments of the Workspace constructor.
NewWorkspace(r, owner, text) ==
    [id |-> r, owner |-> owner, name |-> text.name,
     description |-> text.description,
     status |-> "ACTIVE", created_at |-> now, updated_at |-> now,
     archived_at |-> None, deletion_requested_at |-> None]

\* Slip: two positional parameters of the INSERT are swapped.
StoredRowSwapped(w) ==
    [w EXCEPT !.updated_at = w.created_at, !.archived_at = w.updated_at]

\* The row that the INSERT's parameters make of an object: column by column.
StoredRow(w) == w

\* Slips: the owner, or the status, is missing in the WHERE clause.
AvailableToAnyone(w, owner) == w.status = "ACTIVE"
AvailableUnarchived(w, owner) ==
    w.owner = owner /\ w.status \in {"ACTIVE", "ARCHIVED"}

\* WHERE owner_user_id = ... AND status = 'ACTIVE'
Available(w, owner) == w.owner = owner /\ w.status = "ACTIVE"

\* Slips: no tie-breaker; no time.
PrecedesInTime(v, w) == v.created_at > w.created_at
PrecedesById(v, w)   == v.id > w.id

\* ORDER BY created_at DESC, id DESC
Precedes(v, w) ==
    \/ v.created_at > w.created_at
    \/ v.created_at = w.created_at /\ v.id > w.id

\* The results that PostgreSQL may return for the rows S: each row once, none
\* after a row it precedes.
Orderings(S) ==
    {l \in Bijection(1 .. Cardinality(S), S) :
        \A i, j \in DOMAIN l : i < j => ~Precedes(l[j], l[i])}

\* The rows that get and list select.
Selected(r) ==
    {w \in workspaces :
        /\ Available(w, input[r].owner)
        /\ input[r].op = "get" => w.id = input[r].workspace}

\* Slip: the schema has no foreign key to iam.users.
OwnerUnchecked(owner) == TRUE

\* The foreign key of owner_user_id is satisfied.
OwnerExists(owner) == owner \in users

\* A transaction holds the key of a user that its new row refers to.
OwnerLocked(owner) == \E r \in Creates : \E w \in inserted[r] : w.owner = owner

\* The unit of work's _committed flag: commit() is the last call in its block.
Committed(r) == result[r] = "Created"

InFlight(r) == pc[r] \notin {"idle", "done"}

-----------------------------------------------------------------------------
TypeOK ==
    /\ users \subseteq Owners
    /\ workspaces \subseteq WorkspaceRow
    /\ inserted \in [Requests -> SUBSET WorkspaceRow]
    /\ sent \subseteq Creates
    /\ conn \in [Requests -> {"closed", "open", "lost"}]
    /\ now \in Times
    /\ faults \in 0 .. MaxFaults
    /\ pc \in [Requests -> Statements \cup {"idle", "commit", "exit", "done"}]
    /\ input \in [Requests -> Inputs]
    /\ built \in [Requests -> SUBSET WorkspaceRow]
    /\ found \in [Requests -> SUBSET Seq(WorkspaceRow)]
    /\ result \in [Requests -> Returned \cup Raised \cup {"Pending", "Crashed"}]
    /\ durable \subseteq Creates
    /\ edited \subseteq Creates
    /\ before \in [Requests -> SUBSET Creates]
    /\ setBack \in BOOLEAN

Init ==
    /\ users = Owners
    /\ workspaces = {}
    /\ inserted = [r \in Requests |-> {}]
    /\ sent = {}
    /\ conn = [r \in Requests |-> "closed"]
    /\ now = 0
    /\ faults = 0
    /\ pc = [r \in Requests |-> "idle"]
    /\ input = [r \in Requests |-> NoInput]
    /\ built = [r \in Requests |-> {}]
    /\ found = [r \in Requests |-> {}]
    /\ result = [r \in Requests |-> "Pending"]
    /\ durable = {}
    /\ edited = {}
    /\ before = [r \in Requests |-> {}]
    /\ setBack = FALSE

-----------------------------------------------------------------------------
Goto(r, label) == pc' = [pc EXCEPT ![r] = label]

\* The with block ends, by its last call or by an exception; __exit__ is next.
Leave(r, outcome) ==
    /\ Goto(r, "exit")
    /\ result' = [result EXCEPT ![r] = outcome]

\* PostgreSQL forgets what the transaction of r wrote.
Rollback(r) == inserted' = [inserted EXCEPT ![r] = {}]

\* A failure of the environment, at most MaxFaults of them.
Fault ==
    /\ faults < MaxFaults
    /\ faults' = faults + 1

\* r is about to run statement p on a working connection.
At(r, p) == pc[r] = p /\ conn[r] = "open"

\* The call ends before it has a transaction.
Fail(r, error) ==
    /\ Goto(r, "done")
    /\ result' = [result EXCEPT ![r] = error]
    /\ UNCHANGED conn

\* The unit of work's __enter__.
Enter(r, first) ==
    \/ /\ conn' = [conn EXCEPT ![r] = "open"]
       /\ Goto(r, first)
       /\ UNCHANGED <<result, faults>>
    \/ Fault /\ Fail(r, "WorkspacePersistenceError")

\* A call of the service arrives.
Start(r, op, owner, workspace) ==
    /\ pc[r] = "idle"
    /\ input' = [input EXCEPT ![r] =
                    [op |-> op, owner |-> owner, workspace |-> workspace]]
    /\ before' = [before EXCEPT ![r] =
                    {c \in Creates : pc[c] = "done" /\ result[c] = "Created"}]
    /\ UNCHANGED <<server, now, found, setBack>>

\* create: the clock, then the object, whose constructor may raise, and only
\* then the connection.
StartCreate(r, owner, text) ==
    LET w == NewWorkspace(r, owner, text)
    IN  /\ Start(r, "create", owner, None)
        /\ IF IsWorkspace(w)
             THEN /\ built' = [built EXCEPT ![r] = {Normalized(w)}]
                  /\ Enter(r, "add")
             ELSE /\ Fail(r, "ValueError")
                  /\ UNCHANGED <<built, faults>>

StartGet(r, owner, workspace) ==
    /\ Start(r, "get", owner, workspace)
    /\ Enter(r, "get_for_owner")
    /\ UNCHANGED built

StartList(r, owner) ==
    /\ Start(r, "list", owner, None)
    /\ Enter(r, "list_for_owner")
    /\ UNCHANGED built

-----------------------------------------------------------------------------
(* Statements *)

\* The INSERT: its IntegrityError aborts the transaction.
Add(r) ==
    /\ At(r, "add")
    /\ IF \A w \in built[r] : OwnerExists(w.owner) /\ WorkspaceChecks(StoredRow(w))
         THEN /\ inserted' = [inserted EXCEPT ![r] =
                                {StoredRow(w) : w \in built[r]}]
              /\ Goto(r, "commit")
              /\ UNCHANGED result
         ELSE /\ Leave(r, "WorkspacePersistenceConflict")
              /\ UNCHANGED inserted
    /\ UNCHANGED <<store, sent, durable, conn, now, faults, input, built, found,
                   history>>

\* get_for_owner, list_for_owner: the rows are mapped in the with block, and
\* one that the constructor refuses fails the call.  get raises
\* WorkspaceUnavailable after the block.
Read(r) ==
    /\ At(r, "get_for_owner") \/ At(r, "list_for_owner")
    /\ IF \A w \in Selected(r) : IsWorkspace(w)
         THEN /\ \E l \in Orderings({Normalized(w) : w \in Selected(r)}) :
                    found' = [found EXCEPT ![r] = {l}]
              /\ Leave(r, CASE input[r].op = "list" -> "Listed"
                            [] input[r].op = "get" ->
                                 IF Selected(r) = {} THEN "WorkspaceUnavailable"
                                                     ELSE "Found")
         ELSE /\ Leave(r, "ValueError")
              /\ UNCHANGED found
    /\ UNCHANGED <<server, conn, now, faults, input, built, history>>

\* Slip: psycopg.IntegrityError is taken for a row that is there already.
StatementFailsSilently(r) ==
    /\ At(r, "add")
    /\ Fault
    /\ Rollback(r)
    /\ Leave(r, "Created")
    /\ UNCHANGED <<store, sent, durable, conn, now, input, built, found, history>>

\* psycopg.Error from a statement: the connection is gone, or the server
\* refused it and aborted the transaction.
StatementFails(r) ==
    /\ pc[r] \in Statements
    /\ \/ conn[r] = "lost" /\ UNCHANGED faults
       \/ conn[r] = "open" /\ Fault
    /\ Leave(r, "WorkspacePersistenceError")
    /\ UNCHANGED <<server, conn, now, input, built, found, history>>

-----------------------------------------------------------------------------
(* Unit of work: commit and __exit__ *)

\* PostgreSQL makes r's rows visible.
Apply(r) ==
    /\ workspaces' = workspaces \cup inserted[r]
    /\ Rollback(r)
    /\ durable' = durable \cup {r}
    /\ sent' = sent \ {r}
    /\ UNCHANGED <<users, edited>>

\* Slip: commit() is not called; __exit__ will roll back.
CommitForgotten(r) ==
    /\ At(r, "commit")
    /\ Leave(r, "Created")
    /\ UNCHANGED <<server, conn, now, faults, input, built, found, history>>

CommitSucceeds(r) ==
    /\ At(r, "commit")
    /\ Apply(r)
    /\ Leave(r, "Created")
    /\ UNCHANGED <<conn, now, faults, input, built, found, history>>

\* The server answers COMMIT with an error; rollback() works.
CommitRefused(r) ==
    /\ At(r, "commit")
    /\ Fault
    /\ Rollback(r)
    /\ Leave(r, "WorkspacePersistenceError")
    /\ UNCHANGED <<store, sent, durable, conn, now, input, built, found, history>>

\* COMMIT on a connection that is gone, or goes during it, when the server may
\* yet run it.  The rollback() of commit's handler raises psycopg's error.
CommitLost(r) ==
    /\ pc[r] = "commit"
    /\ \/ conn[r] = "lost" /\ UNCHANGED <<sent, faults, conn>>
       \/ /\ conn[r] = "open"
          /\ Fault
          /\ conn' = [conn EXCEPT ![r] = "lost"]
          /\ sent' = sent \cup {r}
    /\ Leave(r, "OperationalError")
    /\ UNCHANGED <<store, inserted, durable, now, input, built, found, history>>

\* __exit__: roll back what is not committed and close.  rollback() raises on
\* a lost connection, and its error replaces the outcome of the block.
Exit(r) ==
    /\ pc[r] = "exit"
    /\ conn' = [conn EXCEPT ![r] = "closed"]
    /\ IF conn[r] = "open" THEN Rollback(r) ELSE UNCHANGED inserted
    /\ result' = [result EXCEPT ![r] =
                    IF conn[r] = "lost" /\ ~Committed(r)
                      THEN "OperationalError" ELSE @]
    /\ Goto(r, "done")
    /\ UNCHANGED <<store, sent, durable, now, faults, input, built, found, history>>

-----------------------------------------------------------------------------
(* The environment *)

\* The network or the server drops r's connection.
LoseConnection(r) ==
    /\ conn[r] = "open"
    /\ Fault
    /\ conn' = [conn EXCEPT ![r] = "lost"]
    /\ UNCHANGED <<server, now, pc, input, built, found, result, history>>

\* PostgreSQL runs the COMMIT of a client that is gone, at any time.
LateCommit(r) ==
    /\ r \in sent
    /\ Apply(r)
    /\ UNCHANGED <<conn, now, faults, pc, input, built, found, result, history>>

\* PostgreSQL rolls back the transaction of a client that is gone.
Reap(r) ==
    /\ conn[r] # "open"
    /\ inserted[r] # {}
    /\ Rollback(r)
    /\ sent' = sent \ {r}
    /\ UNCHANGED <<store, durable, conn, now, faults, pc, input, built, found,
                   result, history>>

\* The process stops at any point, with the COMMIT of a request perhaps on its
\* way, and starts again.
Restart ==
    /\ Fault
    /\ sent' = sent \cup {r \in Creates : At(r, "commit")}
    /\ pc' = [r \in Requests |-> IF InFlight(r) THEN "done" ELSE pc[r]]
    /\ result' = [r \in Requests |->
                    IF InFlight(r) THEN "Crashed" ELSE result[r]]
    /\ conn' = [r \in Requests |-> "closed"]
    /\ UNCHANGED <<store, inserted, durable, now, input, built, found, history>>

\* The forms in which an operator may leave row w: archived, or active again,
\* with or without the time at which it had been archived, or renamed.  No code
\* of the repository changes a workspace; the CHECK constraints accept all of
\* these, and a name of tabs too.
Edits(w) ==
    {[w EXCEPT !.status = "ARCHIVED", !.archived_at = w.created_at]}
    \cup {[w EXCEPT !.status = "ACTIVE",
                   !.archived_at = IF keep THEN w.archived_at ELSE None] :
             keep \in ArchivedKept}
    \cup {[w EXCEPT !.name = n] : n \in EditedNames}

EditWorkspace ==
    /\ \E w \in workspaces : \E e \in Edits(w) \ {w} :
          /\ WorkspaceChecks(e)
          /\ workspaces' = (workspaces \ {w}) \cup {e}
          /\ edited' = edited \cup {w.id}
    /\ UNCHANGED <<users, inserted, sent, durable, conn, now, faults, pc, input,
                   built, found, result, history>>

\* An operator deletes a user: ON DELETE RESTRICT, and the key lock that the
\* INSERT of a workspace takes.
DeleteUser ==
    /\ \E u \in users :
          /\ \A w \in workspaces : w.owner # u
          /\ ~OwnerLocked(u)
          /\ users' = users \ {u}
    /\ UNCHANGED <<workspaces, edited, inserted, sent, durable, conn, now, faults,
                   pc, input, built, found, result, history>>

\* The wall clock advances, or is set back.
Tick ==
    /\ now < MaxTime
    /\ now' = now + 1
    /\ UNCHANGED <<server, conn, faults, pc, input, built, found, result, history>>

StepBack ==
    /\ now > 0
    /\ now' = now - 1
    /\ setBack' = TRUE
    /\ UNCHANGED <<server, conn, faults, pc, input, built, found, result, before>>

-----------------------------------------------------------------------------
\* The steps by which a request that has begun goes on.
Serve(r) ==
    \/ Add(r) \/ Read(r) \/ StatementFails(r)
    \/ CommitSucceeds(r) \/ CommitRefused(r) \/ CommitLost(r)
    \/ Exit(r)

Begin ==
    \/ \E r \in Creates, owner \in Owners, text \in Metadata :
          StartCreate(r, owner, text)
    \/ \E r \in Reads, owner \in Owners :
          StartList(r, owner) \/ \E id \in Creates : StartGet(r, owner, id)

\* Every request of the behaviour is answered.
Finished == (\A r \in Requests : pc[r] = "done") /\ UNCHANGED vars

Next ==
    \/ Begin
    \/ \E r \in Requests : Serve(r) \/ LoseConnection(r) \/ LateCommit(r) \/ Reap(r)
    \/ Restart \/ EditWorkspace \/ DeleteUser \/ Tick \/ StepBack
    \/ Finished

Spec == Init /\ [][Next]_vars

-----------------------------------------------------------------------------
(* What the service promises *)

\* Whoever calls get or list sees only workspaces of his own: the ones created
\* by calls that he made, committed, and for get the one he asked for (the
\* WHERE clauses, the copying of the owner through object, row and object).
OwnersSeeTheirOwn ==
    \A r \in Reads : \A l \in found[r] : \A i \in DOMAIN l :
        /\ l[i].id \in durable
        /\ input[l[i].id].owner = input[r].owner
        /\ input[r].op = "get" => l[i].id = input[r].workspace

\* The caller's answer tells the truth about the database: after success the
\* workspace is stored, after an error of the service it is not and the call
\* may be repeated.  Only psycopg's own error and a crash leave it open, and a
\* repeated call may then make a second workspace (a COMMIT whose reply was
\* lost).
OutcomeMatchesCommit ==
    \A r \in Creates :
        /\ r \in durable =>
              result[r] \in {"Created", "OperationalError", "Crashed"}
        /\ result[r] = "Created" => r \in durable
        /\ r \in durable <=> \E w \in workspaces : w.id = r

\* A create that was answered before a get or a list was called is in what
\* that returns, unless an operator has edited the workspace; a get of it is
\* not told that it is unavailable.
CreatedIsFound ==
    \A r \in Reads, c \in Creates :
        /\ c \in before[r] \ edited
        /\ input[c].owner = input[r].owner
        /\ input[r].op = "get" => input[r].workspace = c
        => /\ \A l \in found[r] : \E i \in DOMAIN l : l[i].id = c
           /\ result[r] # "WorkspaceUnavailable"

\* v stands above w in listing l.
Above(l, v, w) ==
    \E i, j \in DOMAIN l : i < j /\ l[i].id = v /\ l[j].id = w

\* Two lists never show two workspaces in different orders, whatever commits,
\* edits and clock steps lie between them: the stable order of list.
ListsAgree ==
    \A q, r \in Reads : \A k \in found[q], l \in found[r] :
        \A v, w \in Creates : ~(Above(k, v, w) /\ Above(l, w, v))

\* Newest first, as callers can tell: while the clock is not set back, a
\* workspace created at a later time, by a call made after another create was
\* answered, stands above the other's.  Of creates that overlap, the one that
\* commits later may well stand below (created_at is read before the INSERT).
NewestOnTop ==
    \A r \in Reads : \A l \in found[r] : \A v, w \in Creates :
        /\ ~setBack
        /\ v \in before[w]
        /\ \A x \in built[v], y \in built[w] : x.created_at # y.created_at
        => ~Above(l, v, w)

\* What the service has stored it can read back: a get or list fails on a row
\* (and a list then shows nothing at all) only if an operator edited a
\* workspace of that owner.
OnlyEditedRowsFail ==
    \A r \in Reads :
        result[r] = "ValueError" =>
            \E c \in edited : input[c].owner = input[r].owner

\* Every workspace has its owner, though a user may be deleted while a create
\* for him is under way (the foreign key of the schema).
OwnersExist == \A w \in workspaces : w.owner \in users

-----------------------------------------------------------------------------
(* Refinement *)

\* The workspaces on offer.
Offered == {w.id : w \in {v \in workspaces : v.status = "ACTIVE"}}

\* What each request has seen: the workspaces of its listing.
Shown == [r \in Requests |-> {{l[i].id : i \in DOMAIN l} : l \in found[r]}]

\* What its caller has got.
Answer == [r \in Requests |-> IF pc[r] = "done" THEN result[r] ELSE "waiting"]

Catalog == INSTANCE WorkspaceCatalog WITH
    made <- durable, catalog <- Offered, shown <- Shown, answer <- Answer

\* The service is as good as one that keeps a catalog of workspaces and serves
\* each call at one moment: what a call reads is the whole of what its caller
\* may see at that moment, and a create takes effect once, or not at all if its
\* answer says so - though, after psycopg's own error, perhaps much later.
ServesCatalog == Catalog!Spec
=============================================================================
