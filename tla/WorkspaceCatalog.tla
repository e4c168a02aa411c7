---------------------------- MODULE WorkspaceCatalog ----------------------------
(***************************************************************************)
(* What the workspace service promises to those who call it, with no       *)
(* statements, transactions or rows: a create takes effect at one moment,  *)
(* once; a get or list looks at the whole catalog at one moment; a call is *)
(* answered accordingly, or its answer says nothing.  Workspaces           *)
(* implements this specification.                                          *)
(***************************************************************************)
CONSTANTS
    Creates,  \* calls of create; a workspace has the name of its create
    Reads,    \* calls of get and list
    Owners,   \* users that callers are authenticated as
    None      \* no value

VARIABLES
    input,    \* input[r]: the operation and arguments of r
    made,     \* the creates that have taken effect
    catalog,  \* the workspaces among them that are available
    shown,    \* shown[r]: what r has seen, a set of workspaces, or nothing yet
    answer    \* answer[r]: what the caller of r gets

vars == <<input, made, catalog, shown, answer>>

NoInput == [op |-> "none", owner |-> None, workspace |-> None]

Init ==
    /\ input = [r \in Creates \cup Reads |-> NoInput]
    /\ made = {}
    /\ catalog = {}
    /\ shown = [r \in Creates \cup Reads |-> {}]
    /\ answer = [r \in Creates \cup Reads |-> "waiting"]

\* Answers that leave open whether a create has taken effect, or will.
Unknown == {"OperationalError", "Crashed"}

Refusals == {"ValueError", "WorkspacePersistenceError",
             "WorkspacePersistenceConflict"}

Answers == {"Created", "Listed", "Found", "WorkspaceUnavailable",
            "OperationalError"} \cup Refusals

Called(r) == input[r].op # "none"

\* r is called, and perhaps refused at once.
Ask(r, op, owner, workspace) ==
    /\ ~Called(r)
    /\ input' = [input EXCEPT ![r] =
                    [op |-> op, owner |-> owner, workspace |-> workspace]]
    /\ \/ UNCHANGED answer
       \/ \E a \in Refusals : answer' = [answer EXCEPT ![r] = a]
    /\ UNCHANGED <<made, catalog, shown>>

\* A create takes effect: before it is answered, or after an answer that left
\* it open.
Make(r) ==
    /\ Called(r)
    /\ r \notin made
    /\ answer[r] \in {"waiting"} \cup Unknown
    /\ made' = made \cup {r}
    /\ catalog' = catalog \cup {r}
    /\ UNCHANGED <<input, shown, answer>>

\* What of the catalog r is entitled to see.
Visible(r) ==
    {w \in catalog :
        /\ input[w].owner = input[r].owner
        /\ input[r].op = "get" => w = input[r].workspace}

Look(r) ==
    /\ Called(r)
    /\ answer[r] = "waiting"
    /\ shown[r] = {}
    /\ shown' = [shown EXCEPT ![r] = {Visible(r)}]
    /\ UNCHANGED <<input, made, catalog, answer>>

\* An operator makes workspaces available or unavailable.
Administer ==
    /\ catalog' \in SUBSET made
    /\ UNCHANGED <<input, made, shown, answer>>

May(r, a) ==
    \/ a = "Created" /\ r \in made
    \/ a = "Listed" /\ input[r].op = "list" /\ shown[r] # {}
    \/ a = "Found" /\ input[r].op = "get" /\ \E s \in shown[r] : s # {}
    \/ a = "WorkspaceUnavailable" /\ input[r].op = "get" /\ shown[r] = {{}}
    \/ a \in Refusals /\ r \notin made /\ shown[r] = {}
    \/ a \in Unknown

Reply(r) ==
    /\ Called(r)
    /\ answer[r] = "waiting"
    /\ \E a \in Answers : May(r, a) /\ answer' = [answer EXCEPT ![r] = a]
    /\ UNCHANGED <<input, made, catalog, shown>>

\* The process stops: whoever still waits gets no answer.
Crash ==
    /\ answer' = [r \in Creates \cup Reads |->
                    IF Called(r) /\ answer[r] = "waiting" THEN "Crashed"
                                                          ELSE answer[r]]
    /\ UNCHANGED <<input, made, catalog, shown>>

Next ==
    \/ Administer \/ Crash
    \/ \E r \in Creates, owner \in Owners : Ask(r, "create", owner, None)
    \/ \E r \in Reads, owner \in Owners :
          \/ Ask(r, "list", owner, None)
          \/ \E id \in Creates : Ask(r, "get", owner, id)
    \/ \E r \in Creates : Make(r)
    \/ \E r \in Reads : Look(r)
    \/ \E r \in Creates \cup Reads : Reply(r)

Spec == Init /\ [][Next]_vars
=================================================================================
