-------------------------- MODULE WorkspacesInvariant --------------------------
(***************************************************************************)
(* The inductive invariant of Workspaces: what holds between any two steps *)
(* of the requests and makes the service's promises follow.                *)
(***************************************************************************)
EXTENDS Workspaces

\* Two versions of one workspace: what an edit leaves alone.
SameWorkspace(v, w) ==
    v.id = w.id /\ v.owner = w.owner /\ v.created_at = w.created_at

\* The object of a create: one at most, valid, active, its caller's.
BuiltInv ==
    \A r \in Requests : \A w \in built[r] :
        /\ r \in Creates
        /\ w.id = r
        /\ w.owner = input[r].owner
        /\ w.status = "ACTIVE"
        /\ IsWorkspace(w)
        /\ \A v \in built[r] : v = w

\* What a transaction holds, and what the table holds.
InsertedInv ==
    \A r \in Requests : \A w \in inserted[r] :
        /\ w \in built[r]
        /\ w.owner \in users
        /\ r \notin durable
        /\ pc[r] \in {"commit", "exit", "done"}

RowsInv ==
    /\ \A w \in workspaces :
          /\ w.id \in durable
          /\ w.owner \in users
          /\ \E b \in built[w.id] : SameWorkspace(w, b)
          /\ w.id \notin edited => w \in built[w.id]
          /\ \A v \in workspaces : v.id = w.id => v = w
    /\ edited \subseteq durable

\* A create that has committed, and one that the server may still commit.
DurableInv ==
    \A r \in durable :
        /\ \E w \in workspaces : w.id = r
        /\ pc[r] \in {"exit", "done"}
        /\ \/ result[r] \in {"Created", "OperationalError"}
           \/ result[r] = "Crashed" /\ pc[r] = "done"

SentInv ==
    \A r \in sent :
        /\ inserted[r] # {}
        /\ conn[r] # "open"
        /\ \/ result[r] = "OperationalError" /\ pc[r] \in {"exit", "done"}
           \/ result[r] = "Crashed" /\ pc[r] = "done"

\* Where a request is, and what it holds there.
PlaceInv ==
    \A r \in Requests :
        /\ pc[r] = "idle" => input[r] = NoInput /\ built[r] = {}
        /\ pc[r] \notin {"exit", "done"} => result[r] = "Pending" /\ found[r] = {}
        /\ pc[r] \in {"exit", "done"} => result[r] # "Pending"
        /\ pc[r] = "exit" => result[r] # "Crashed"
        /\ pc[r] \in {"add", "commit"} =>
              r \in Creates /\ built[r] # {} /\ input[r].op = "create"
        /\ pc[r] = "commit" /\ conn[r] = "open" => inserted[r] # {}
        /\ pc[r] \in {"get_for_owner", "list_for_owner"} =>
              r \in Reads /\ input[r].op \in {"get", "list"}
        /\ pc[r] # "idle" => input[r].op # "none"
        /\ pc[r] \in {"idle", "done"} => conn[r] = "closed"

\* What a request is about to return, or has.
AnswersInv ==
    \A r \in Requests :
        /\ result[r] = "Created" => r \in durable
        /\ result[r] \in {"Found", "WorkspaceUnavailable"} => input[r].op = "get"
        /\ result[r] = "Listed" => input[r].op = "list" /\ found[r] # {}
        /\ result[r] = "Found" => \E l \in found[r] : l # <<>>
        /\ result[r] = "WorkspaceUnavailable" => found[r] = {<<>>}
        /\ result[r] \in {"ValueError", "WorkspacePersistenceError",
                          "WorkspacePersistenceConflict"} =>
              found[r] = {} /\ r \notin durable

\* What a listing shows.
FoundInv ==
    \A r \in Requests : \A l \in found[r] :
        /\ r \in Reads
        /\ \A i \in DOMAIN l :
              /\ l[i].id \in durable
              /\ l[i].owner = input[r].owner
              /\ input[r].op = "get" => l[i].id = input[r].workspace
              /\ \E b \in built[l[i].id] : SameWorkspace(l[i], b)
        /\ \A i, j \in DOMAIN l :
              i < j => l[i].id # l[j].id /\ ~Precedes(l[j], l[i])

\* Creates that were answered before r was called, and the clock.
BeforeInv ==
    /\ \A r \in Requests : \A c \in before[r] :
          /\ pc[c] = "done"
          /\ result[c] = "Created"
          /\ ~setBack =>
                \A x \in built[c], y \in built[r] : x.created_at <= y.created_at
    /\ ~setBack =>
          \A r \in Requests : \A w \in built[r] : w.created_at <= now

IInv ==
    /\ TypeOK
    /\ IsFiniteSet(workspaces)
    /\ BuiltInv
    /\ InsertedInv
    /\ RowsInv
    /\ DurableInv
    /\ SentInv
    /\ PlaceInv
    /\ AnswersInv
    /\ FoundInv
    /\ BeforeInv
    /\ CreatedIsFound
    /\ OnlyEditedRowsFail
===============================================================================
