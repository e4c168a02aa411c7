---------------------------- MODULE WorkspaceRules ----------------------------
(***************************************************************************)
(* The rules of workspace/domain/workspace.py, which every Workspace       *)
(* object passes when it is built, for a new workspace and again for each  *)
(* row that is read; and the CHECK constraints of workspace.workspaces.    *)
(*                                                                         *)
(* A text is the length of what strip() leaves of it, and the white space  *)
(* around that: spaces only, or tabs and line ends too.  Python's strip()  *)
(* removes both, PostgreSQL's btrim() only spaces.                         *)
(***************************************************************************)
EXTENDS Integers

CONSTANTS
    None,            \* the SQL NULL
    MaxName,         \* MAX_WORKSPACE_NAME_LENGTH
    MaxDescription   \* MAX_WORKSPACE_DESCRIPTION_LENGTH

ASSUME LimitsAssumption ==
    /\ MaxName \in Nat \ {0}
    /\ MaxDescription \in Nat \ {0}

Texts == [core : Nat, around : {"nothing", "spaces", "tabs"}]

ASSUME NoneAssumption == None \notin Int /\ None \notin Texts

WorkspaceStatus == {"ACTIVE", "ARCHIVED", "DELETION_REQUESTED", "PURGED"}

Stripped(t) == [t EXCEPT !.around = "nothing"]

\* not value.strip()
IsBlank(t) == t.core = 0

\* _normalize_description
NormalDescription(d) ==
    IF d = None THEN None
    ELSE IF IsBlank(d) THEN None
    ELSE Stripped(d)

NotBefore(t, created) == t = None \/ t >= created

\* The texts that __post_init__ accepts.
TextsFit(w) ==
    /\ ~IsBlank(w.name)
    /\ w.name.core <= MaxName
    /\ w.description # None => w.description.core <= MaxDescription

\* The timestamps that go with a status (_validate_lifecycle_state).  Nothing
\* is demanded of PURGED.
LifecycleFits(w) ==
    /\ w.status = "ACTIVE" =>
          w.archived_at = None /\ w.deletion_requested_at = None
    /\ w.status = "ARCHIVED" =>
          w.archived_at # None /\ w.deletion_requested_at = None
    /\ w.status = "DELETION_REQUESTED" => w.deletion_requested_at # None

\* __post_init__ does not raise.
IsWorkspace(w) ==
    /\ TextsFit(w)
    /\ NotBefore(w.archived_at, w.created_at)
    /\ NotBefore(w.deletion_requested_at, w.created_at)
    /\ w.updated_at >= w.created_at
    /\ LifecycleFits(w)

\* The object that __post_init__ leaves: its texts are normalized.
Normalized(w) ==
    [w EXCEPT !.name = Stripped(w.name),
              !.description = NormalDescription(w.description)]

\* The CHECK constraints of workspace.workspaces.
WorkspaceChecks(w) ==
    /\ w.status \in WorkspaceStatus
    /\ ~(IsBlank(w.name) /\ w.name.around # "tabs")
===============================================================================
