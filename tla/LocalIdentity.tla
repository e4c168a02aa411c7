---------------------------- MODULE LocalIdentity ----------------------------
(***************************************************************************)
(* From the environment variables of extensible_ai_workspace to the user   *)
(* that a login finds: validation of the settings (config/settings.py),    *)
(* start of the web runtime (__init__.py, runtime.py), the user and the    *)
(* identity that a login makes or loads, and the rules that both obey when *)
(* built and when loaded (identity/domain/identity.py), against what the   *)
(* schema accepts from an operator.                                        *)
(*                                                                         *)
(* A login is one step here: that logins which overlap, fail or crash come *)
(* to the same is what TrustedLocalSessions is about.  What is new is that *)
(* the process is started again and again, each time with the environment  *)
(* its operator has then written, on one database.                         *)
(*                                                                         *)
(* A text is its length without the white space around it, and how much of *)
(* that there is: texts are told apart by their lengths.                   *)
(***************************************************************************)
EXTENDS Integers, FiniteSets

CONSTANTS
    None,           \* a variable that is not set; the SQL NULL
    Environments,   \* what operators write into the environment
    Users,          \* ids of users that logins make
    MaxLength,      \* max_length of the settings
    MaxEdits        \* bound on the operator's changes of the database

Texts == [core : Nat, pad : Nat]

\* The host of an origin, and what follows its port.
Origins == [host : {"127.0.0.1", "localhost", "[::1]", "remote"},
            tail : {"", "/", "/path"}]

ASSUME LocalIdentityAssumption ==
    /\ None \notin Texts
    /\ None \notin {"before", "after"}
    /\ Environments \subseteq
          [issuer : Texts \cup {None}, subject : Texts \cup {None},
           display_name : Texts \cup {None}, public_origin : Origins]
    /\ MaxLength \in Nat
    /\ MaxEdits \in Nat

VARIABLES
    env,         \* the environment of the process that was started last
    process,     \* "off", "refused" (exit 2), "failed" (another error), "serving"
    settings,    \* what a serving process has made of env
    users,       \* rows of iam.users
    identities,  \* rows of iam.external_identities
    edits,       \* changes made by the operator so far
    outcome,     \* how the last login ended
    touched,     \* history: the (issuer, subject) whose rows the operator changed
    logins       \* history: who logged in, under which texts of the environment

rows    == <<users, identities>>
history == <<touched, logins>>
vars == <<env, process, settings, rows, edits, outcome, history>>

-----------------------------------------------------------------------------
(* Settings *)

Stripped(t) == [t EXCEPT !.pad = 0]

\* not value.strip()
IsBlank(t) == t.core = 0

\* Slip: white space is a value.
TextAcceptedBlank(t) == t # None => t.core + t.pad <= MaxLength

\* Field(max_length=255) sees the text as written, normalize_optional_text
\* refuses what strip() empties.
TextAccepted(t) == t # None => t.core + t.pad <= MaxLength /\ ~IsBlank(t)

\* Slip: the text is used as written.
NormalizedAsWritten(t) == t

\* What normalize_optional_text returns.
Normalized(t) == IF t = None THEN None ELSE Stripped(t)

\* The hosts that validate_authentication_configuration accepts.  AnyHttpUrl
\* gives the host of an IPv6 origin in brackets.
LoopbackHosts == {"127.0.0.1", "localhost", "::1"}

\* Settings() does not raise ValidationError.
SettingsAccepted(e) ==
    /\ \A t \in {e.issuer, e.subject, e.display_name} :
          t # None /\ TextAccepted(t)
    /\ e.public_origin.host \in LoopbackHosts

\* AnyHttpUrl gives an origin without a path the path "/".
Serialized(o) == [o EXCEPT !.tail = IF @ = "" THEN "/" ELSE @]

\* Slip: str(settings.public_origin) as it is.
PublicOriginSerialized(o) == Serialized(o)

\* run_web: str(settings.public_origin).rstrip("/")
PublicOrigin(o) == [o EXCEPT !.tail = IF Serialized(o).tail = "/" THEN "" ELSE @]

\* The Origin header of a page that the application has served.
PageOrigin(o) == [o EXCEPT !.tail = ""]

Loaded(e) ==
    [issuer |-> Normalized(e.issuer), subject |-> Normalized(e.subject),
     display_name |-> Normalized(e.display_name),
     public_origin |-> PublicOrigin(e.public_origin)]

-----------------------------------------------------------------------------
(* Domain rules and rows *)

UserStatus == {"ACTIVE", "DISABLED", "DELETION_REQUESTED", "PURGED"}

\* A time, as far as the rules tell: None, before or after created_at.
Times == {"before", "after"} \cup {None}

UserRow == [id : Users, status : UserStatus, display_name : Texts,
            disabled_at : Times, deletion_requested_at : Times]

IdentityRow == [user : Users, provider_type : {"LOCAL_TRUSTED", "OIDC"},
                issuer : Texts, subject : Texts, disabled_at : Times]

\* InternalUser.__post_init__ does not raise.
IsUser(u) ==
    /\ ~IsBlank(u.display_name)
    /\ u.status = "ACTIVE" => u.disabled_at = None
    /\ u.status = "DISABLED" => u.disabled_at # None
    /\ u.status = "DELETION_REQUESTED" => u.deletion_requested_at # None

\* ExternalIdentity.__post_init__ does not raise.
IsIdentity(i) ==
    /\ ~IsBlank(i.issuer)
    /\ ~IsBlank(i.subject)
    /\ i.disabled_at # "before"

\* _create_trusted_identity
NewUser(u) ==
    [id |-> u, status |-> "ACTIVE", display_name |-> settings.display_name,
     disabled_at |-> None, deletion_requested_at |-> None]

NewIdentity(u) ==
    [user |-> u, provider_type |-> "LOCAL_TRUSTED", issuer |-> settings.issuer,
     subject |-> settings.subject, disabled_at |-> None]

\* uq_external_identities_issuer_subject
OfSubject(i) == i.issuer = settings.issuer /\ i.subject = settings.subject

\* Slip: any identity of the issuer will do.
FoundOfIssuer(i) ==
    i.provider_type = "LOCAL_TRUSTED" /\ i.issuer = settings.issuer

\* The WHERE clause of get_external_identity.
FoundBy(i) == i.provider_type = "LOCAL_TRUSTED" /\ OfSubject(i)

\* What an environment says who logs in.
Named(e) == <<e.issuer.core, e.subject.core>>

-----------------------------------------------------------------------------
TypeOK ==
    /\ env \in Environments \cup {None}
    /\ process \in {"off", "refused", "failed", "serving"}
    /\ process = "serving" =>
          settings \in [issuer : Texts, subject : Texts, display_name : Texts,
                        public_origin : Origins]
    /\ users \subseteq UserRow
    /\ identities \subseteq IdentityRow
    /\ edits \in 0 .. MaxEdits
    /\ outcome \in {"none", "Established", "InactiveIdentity", "ValueError",
                    "IdentityPersistenceConflict"}
    /\ touched \subseteq Nat \X Nat
    /\ logins \subseteq (Nat \X Nat) \X Users

Init ==
    /\ env = None
    /\ process = "off"
    /\ settings = None
    /\ users = {}
    /\ identities = {}
    /\ edits = 0
    /\ outcome = "none"
    /\ touched = {}
    /\ logins = {}

\* main: the settings, then run_web, where _require_setting and the constructor
\* of TrustedLocalIdentity could still raise.
Start(e) ==
    /\ process = "off"
    /\ env' = e
    /\ IF SettingsAccepted(e)
         THEN LET s == Loaded(e)
              IN  IF \A t \in {s.issuer, s.subject, s.display_name} :
                        t # None /\ ~IsBlank(t)
                    THEN settings' = s /\ process' = "serving"
                    ELSE settings' = None /\ process' = "failed"
         ELSE settings' = None /\ process' = "refused"
    /\ outcome' = "none"
    /\ UNCHANGED <<rows, edits, history>>

\* The process is stopped, or has ended.
Stop ==
    /\ process # "off"
    /\ process' = "off"
    /\ UNCHANGED <<env, settings, rows, edits, outcome, history>>

Established(u) ==
    /\ outcome' = "Established"
    /\ logins' = logins \cup {<<Named(env), u>>}
    /\ UNCHANGED touched

Refused(error) ==
    /\ outcome' = error
    /\ UNCHANGED <<rows, history>>

\* establish for a subject that has no identity.
FirstLogin(u) ==
    /\ process = "serving"
    /\ ~\E i \in identities : FoundBy(i)
    /\ \A v \in users : v.id # u
    /\ \/ /\ IsUser(NewUser(u)) /\ IsIdentity(NewIdentity(u))
          /\ ~\E i \in identities : OfSubject(i)
          /\ users' = users \cup {NewUser(u)}
          /\ identities' = identities \cup {NewIdentity(u)}
          /\ Established(u)
       \/ /\ ~(IsUser(NewUser(u)) /\ IsIdentity(NewIdentity(u)))
          /\ Refused("ValueError")
       \/ /\ IsUser(NewUser(u)) /\ IsIdentity(NewIdentity(u))
          /\ \E i \in identities : OfSubject(i)
          /\ Refused("IdentityPersistenceConflict")
    /\ UNCHANGED <<env, process, settings, edits>>

\* establish for one that has: both rows are loaded through their constructors.
Login(i, u) ==
    /\ process = "serving"
    /\ FoundBy(i) /\ u.id = i.user
    /\ \/ /\ IsIdentity(i) /\ IsUser(u)
          /\ u.status = "ACTIVE" /\ i.disabled_at = None
          /\ Established(u.id) /\ UNCHANGED rows
       \/ /\ IsIdentity(i) /\ IsUser(u)
          /\ u.status # "ACTIVE" \/ i.disabled_at # None
          /\ Refused("InactiveIdentity")
       \/ ~(IsIdentity(i) /\ IsUser(u)) /\ Refused("ValueError")
    /\ UNCHANGED <<env, process, settings, edits>>

-----------------------------------------------------------------------------
(* The operator, in the database: whatever the schema accepts *)

Edit(subjects) ==
    /\ edits < MaxEdits
    /\ edits' = edits + 1
    /\ touched' = touched \cup subjects
    /\ UNCHANGED <<env, process, settings, outcome, logins>>

KeyOf(i) == <<i.issuer.core, i.subject.core>>

\* The CHECK of iam.users knows the statuses, not the times that go with them,
\* and lets a name be blank.
EditUser(u) ==
    /\ \E status \in UserStatus, t \in {None, "after"},
          name \in {u.display_name, [core |-> 0, pad |-> 1]} :
          users' = (users \ {u}) \cup
                     {[u EXCEPT !.status = status, !.disabled_at = t,
                                !.display_name = name]}
    /\ Edit({KeyOf(i) : i \in {j \in identities : j.user = u.id}})
    /\ UNCHANGED identities

\* No constraint compares disabled_at with created_at.
EditIdentity(i) ==
    /\ \E t \in Times :
          identities' = (identities \ {i}) \cup {[i EXCEPT !.disabled_at = t]}
    /\ Edit({KeyOf(i)})
    /\ UNCHANGED users

\* The unique index has (issuer, subject); a row of another provider takes its
\* place in it.
AddOidcIdentity(u, e) ==
    /\ e.issuer # None /\ e.subject # None
    /\ LET i == [user |-> u.id, provider_type |-> "OIDC",
                 issuer |-> Stripped(e.issuer), subject |-> Stripped(e.subject),
                 disabled_at |-> None]
       IN  /\ \A j \in identities : j.issuer # i.issuer \/ j.subject # i.subject
           /\ identities' = identities \cup {i}
           /\ Edit({KeyOf(i)})
    /\ UNCHANGED users

-----------------------------------------------------------------------------
Next ==
    \/ \E e \in Environments : Start(e)
    \/ Stop
    \/ \E u \in Users : FirstLogin(u)
    \/ \E i \in identities, u \in users : Login(i, u)
    \/ \E u \in users : EditUser(u)
    \/ \E i \in identities : EditIdentity(i)
    \/ \E u \in users, e \in Environments : AddOidcIdentity(u, e)

Spec == Init /\ [][Next]_vars

-----------------------------------------------------------------------------
(* Properties *)

\* Settings that were accepted are good enough for everything that is built of
\* them: the process does not fail after it has accepted them, and a login
\* fails only for a subject whose rows the operator has changed - if he set a
\* status without its time, with a ValueError that no route expects.
OnlyEditedIdentitiesFail ==
    /\ process # "failed"
    /\ outcome \in {"InactiveIdentity", "ValueError", "IdentityPersistenceConflict"}
          => Named(env) \in touched

\* Who logs in is decided by what the environment says, white space aside, and
\* by nothing else, however often it is rewritten and the process started: the
\* same texts give the same user, others another one.
OneUserPerSubject ==
    \A a, b \in logins : a[1] = b[1] <=> a[2] = b[2]

\* The pages of a serving process send the Origin that logout compares with,
\* unless the configured origin has a path; then no page can log out.
PagesHaveTheOrigin ==
    process = "serving" /\ env.public_origin.tail # "/path"
        => settings.public_origin = PageOrigin(env.public_origin)
===============================================================================
