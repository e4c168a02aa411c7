------------------------- MODULE TrustedLocalSessions -------------------------
(***************************************************************************)
(* The trusted-local session service of extensible_ai_workspace (module    *)
(* identity/application/sessions.py) running on its PostgreSQL unit of     *)
(* work (identity/infrastructure/postgres.py).                             *)
(*                                                                         *)
(* A request is one call of the service made by the web adapter: "login"   *)
(* calls establish, "inspect" calls resolve, "logout" calls revoke.  The   *)
(* web adapter serves requests from a thread pool, and several instances   *)
(* may share one database, so requests interleave between any two SQL      *)
(* statements.  A request runs its statements one by one, each reading the *)
(* tables as committed at that moment (READ COMMITTED, PostgreSQL's        *)
(* default, which the code never changes); what it writes stays in its own *)
(* transaction (newUsers[r] and so on) until it commits.                   *)
(*                                                                         *)
(* Tables are sets of row records.  Every UUID and every token that a      *)
(* request generates is fresh, so the request's own name stands for all of *)
(* them: the user, identity and session it creates have its name as id,    *)
(* and its name is also the session's secret token and its CSRF token.     *)
(* "A row or None" is a set of at most one row.                            *)
(*                                                                         *)
(* Beside some definitions stands a mutated form, marked "Slip", that no   *)
(* action uses: the property it breaks is named in the README.             *)
(***************************************************************************)
EXTENDS Integers

CONSTANTS
    Requests,          \* calls of the service, each made once
    Subjects,          \* (issuer, subject) pairs the settings can name
    NoToken,           \* a token that no login ever issued
    None,              \* the SQL NULL of sessions.revoked_at
    IdleLifetime,      \* idle_lifetime of the service
    AbsoluteLifetime,  \* absolute_lifetime of the service
    MaxTime,           \* bound on the clock
    MaxFaults          \* bound on the failures and restarts of a behaviour

\* The service's constructor refuses any other lifetimes.
ASSUME LifetimesAssumption ==
    /\ IdleLifetime \in Nat \ {0}
    /\ AbsoluteLifetime \in Nat \ {0}
    /\ IdleLifetime <= AbsoluteLifetime

ASSUME ConstantsAssumption ==
    /\ NoToken \notin Requests
    /\ None \notin Int
    /\ MaxTime \in Nat
    /\ MaxFaults \in Nat

VARIABLES
    users,       \* committed rows of iam.users
    identities,  \* committed rows of iam.external_identities
    sessions,    \* committed rows of iam.sessions
    newUsers,    \* newUsers[r], newIdentities[r], newSessions[r]: the row
    newIdentities,  \* versions that r's open transaction has written
    newSessions,
    sent,        \* requests whose COMMIT the server has yet to run
    conn,        \* conn[r]: the connection of r's unit of work
    trusted,     \* the (issuer, subject) the process is configured with
    now,         \* the application's clock
    faults,      \* failures so far
    pc,          \* pc[r]: the statement r runs next
    input,       \* input[r]: the operation, cookie and CSRF header of r
    time,        \* time[r]: the clock as r read it first
    identity,    \* identity[r], user[r], session[r]: r's local rows
    user,
    session,
    result,      \* result[r]: what the service returns or raises to its caller
    durable,     \* history: the requests whose transaction committed
    seenLive     \* history: r's cookie named a live session when r read it

tables   == <<users, identities, sessions>>
tx       == <<newUsers, newIdentities, newSessions, sent>>
locals   == <<identity, user, session>>
clock    == <<now, trusted>>
request  == <<input, time>>
vars == <<tables, tx, conn, clock, faults, pc, request, locals, result,
          durable, seenLive>>

-----------------------------------------------------------------------------
Times  == 0 .. MaxTime
Tokens == Requests \cup {NoToken}

UserRow     == [id : Requests, status : {"ACTIVE", "DISABLED"}]
IdentityRow == [id : Requests, user : Requests, subject : Subjects,
                enabled : BOOLEAN]
SessionRow  == [id : Requests, user : Requests, identity : Requests,
                csrf_verifier : Requests, created_at : Times,
                idle_expires_at : Nat, absolute_expires_at : Nat,
                revoked_at : Times \cup {None}]

NoRequest == [op |-> "none", cookie |-> NoToken, csrf |-> NoToken]

Statements == {"get_external_identity", "add_user", "add_external_identity",
               "get_user", "add_session", "get_session", "get_session_user",
               "get_session_identity", "update_session"}

\* "Authenticated" is resolve returning; a logout then goes on.
Returned == {"Established", "Authenticated", "Revoked"}
\* OperationalError is psycopg's own error, raised where nothing catches it.
Raised == {"InvalidSession", "InactiveIdentity", "InvalidCsrfToken",
           "ValueError", "IdentityPersistenceError",
           "IdentityPersistenceConflict", "IdentityRecordNotFound",
           "OperationalError"}

-----------------------------------------------------------------------------
(* Domain operations *)

\* Slip: revoked_at is not looked at.
IsUnexpiredAt(s, t) == t < s.idle_expires_at /\ t < s.absolute_expires_at

\* Slip: a session is still good at the moment it expires.
IsValidUntil(s, t) ==
    /\ s.revoked_at = None
    /\ t <= s.idle_expires_at
    /\ t < s.absolute_expires_at

\* Slip: a session is good only once the clock has moved on.
IsValidAfter(s, t) ==
    /\ s.revoked_at = None
    /\ s.created_at < t
    /\ t < s.idle_expires_at
    /\ t < s.absolute_expires_at

\* ApplicationSession.is_valid_at
IsValidAt(s, t) ==
    /\ s.revoked_at = None
    /\ t < s.idle_expires_at
    /\ t < s.absolute_expires_at

\* Slip: the identity is not checked.
IsActiveUser(us, is) == is # {} /\ \E u \in us : u.status = "ACTIVE"

\* _require_active_identity, over the rows found: both present, active, enabled.
IsActive(us, is) ==
    /\ \E u \in us : u.status = "ACTIVE"
    /\ \E i \in is : i.enabled

\* The rows of _create_trusted_identity; r names every fresh identifier.
NewUser(r)     == [id |-> r, status |-> "ACTIVE"]
NewIdentity(r) == [id |-> r, user |-> r, subject |-> trusted, enabled |-> TRUE]

\* The session establish creates for user u and identity i at time t.
NewSession(r, u, i, t) ==
    [id |-> r, user |-> u.id, identity |-> i.id, csrf_verifier |-> r,
     created_at |-> t, idle_expires_at |-> t + IdleLifetime,
     absolute_expires_at |-> t + AbsoluteLifetime, revoked_at |-> None]

\* ApplicationSession.revoke
RevokedSession(s, t) == [s EXCEPT !.revoked_at = t]

\* What the ApplicationSession constructor demands of the times it is given.
LoadsAsSession(s) ==
    /\ s.created_at < s.idle_expires_at
    /\ s.created_at < s.absolute_expires_at
    /\ s.idle_expires_at <= s.absolute_expires_at
    /\ s.revoked_at # None => s.revoked_at >= s.created_at

\* SELECT ... WHERE provider_type = LOCAL_TRUSTED AND issuer AND subject
TrustedIdentity == {i \in identities : i.subject = trusted}

\* A session that resolve would accept if all its rows were read at once.
Live(s) ==
    /\ s.revoked_at = None
    /\ \E u \in users : u.id = s.user /\ u.status = "ACTIVE"
    /\ \E i \in identities : i.id = s.identity /\ i.enabled

\* Slip: (issuer, subject) is not unique in the schema.
SubjectUnlocked(r, subject) == FALSE

\* A transaction other than r's holds the unique index entry of a subject,
\* or the lock of a session row.
SubjectLocked(r, subject) ==
    \E q \in Requests \ {r} : \E i \in newIdentities[q] : i.subject = subject
SessionLocked(r, id) ==
    \E q \in Requests \ {r} : \E s \in newSessions[q] : s.id = id

\* The foreign keys to iam.users and iam.external_identities are satisfied by a
\* row that r's transaction sees; no code deletes one.
UserExists(r, id) == \E u \in users \cup newUsers[r] : u.id = id
IdentityExists(r, id) ==
    \E i \in identities \cup newIdentities[r] : i.id = id

NoWrites(r) ==
    newUsers[r] = {} /\ newIdentities[r] = {} /\ newSessions[r] = {}

\* The unit of work's _committed flag: commit() is the last call in its block.
Committed(r) == result[r] \in {"Established", "Revoked"}

\* The cookies a browser can hold: tokens of logins that answered, or junk.
Issued ==
    {q \in Requests : pc[q] = "done" /\ result[q] = "Established"}
        \cup {NoToken}

-----------------------------------------------------------------------------
TypeOK ==
    /\ users \subseteq UserRow
    /\ identities \subseteq IdentityRow
    /\ sessions \subseteq SessionRow
    /\ newUsers \in [Requests -> SUBSET UserRow]
    /\ newIdentities \in [Requests -> SUBSET IdentityRow]
    /\ newSessions \in [Requests -> SUBSET SessionRow]
    /\ sent \subseteq Requests
    /\ conn \in [Requests -> {"closed", "open", "lost"}]
    /\ trusted \in Subjects
    /\ now \in Times
    /\ faults \in 0 .. MaxFaults
    /\ pc \in [Requests -> Statements
                    \cup {"idle", "exit", "revoke", "commit", "done"}]
    /\ input \in [Requests -> [op : {"none", "login", "inspect", "logout"},
                               cookie : Tokens, csrf : Tokens]]
    /\ time \in [Requests -> Times]
    /\ identity \in [Requests -> SUBSET IdentityRow]
    /\ user \in [Requests -> SUBSET UserRow]
    /\ session \in [Requests -> SUBSET SessionRow]
    /\ result \in [Requests -> Returned \cup Raised \cup {"Pending", "Crashed"}]
    /\ durable \subseteq Requests
    /\ seenLive \in [Requests -> BOOLEAN]

Init ==
    /\ users = {} /\ identities = {} /\ sessions = {}
    /\ newUsers = [r \in Requests |-> {}]
    /\ newIdentities = [r \in Requests |-> {}]
    /\ newSessions = [r \in Requests |-> {}]
    /\ sent = {}
    /\ conn = [r \in Requests |-> "closed"]
    /\ trusted \in Subjects
    /\ now = 0
    /\ faults = 0
    /\ pc = [r \in Requests |-> "idle"]
    /\ input = [r \in Requests |-> NoRequest]
    /\ time = [r \in Requests |-> 0]
    /\ identity = [r \in Requests |-> {}]
    /\ user = [r \in Requests |-> {}]
    /\ session = [r \in Requests |-> {}]
    /\ result = [r \in Requests |-> "Pending"]
    /\ durable = {}
    /\ seenLive = [r \in Requests |-> FALSE]

-----------------------------------------------------------------------------
Goto(r, label) == pc' = [pc EXCEPT ![r] = label]

\* An exception leaves the with block; __exit__ runs next.
Raise(r, error) ==
    /\ Goto(r, "exit")
    /\ result' = [result EXCEPT ![r] = error]

\* The transaction of r is over: PostgreSQL forgets its own versions of rows,
\* and frees its locks.
Rollback(r) ==
    /\ newUsers' = [newUsers EXCEPT ![r] = {}]
    /\ newIdentities' = [newIdentities EXCEPT ![r] = {}]
    /\ newSessions' = [newSessions EXCEPT ![r] = {}]
    /\ sent' = sent \ {r}

\* A failure of the environment, at most MaxFaults of them.
Fault ==
    /\ faults < MaxFaults
    /\ faults' = faults + 1

\* r is about to run statement p on a working connection.
At(r, p) == pc[r] = p /\ conn[r] = "open"

\* The unit of work's __enter__: a connection, and on to the first statement;
\* or psycopg cannot connect, and no with block is entered.
Enter(r, first) ==
    \/ /\ conn' = [conn EXCEPT ![r] = "open"]
       /\ Goto(r, first)
       /\ UNCHANGED <<result, faults>>
    \/ /\ Fault
       /\ Goto(r, "done")
       /\ result' = [result EXCEPT ![r] = "IdentityPersistenceError"]
       /\ UNCHANGED conn

\* A call of the service arrives: it reads the clock, then connects.
Start(r, op, cookie, csrf, first) ==
    /\ pc[r] = "idle"
    /\ input' = [input EXCEPT ![r] =
                    [op |-> op, cookie |-> cookie, csrf |-> csrf]]
    /\ time' = [time EXCEPT ![r] = now]
    /\ Enter(r, first)
    /\ UNCHANGED <<tables, tx, clock, locals, durable, seenLive>>

StartLogin(r) == Start(r, "login", NoToken, NoToken, "get_external_identity")

StartInspect(r) ==
    \E cookie \in Issued : Start(r, "inspect", cookie, NoToken, "get_session")

StartLogout(r) ==
    \E cookie, csrf \in Issued : Start(r, "logout", cookie, csrf, "get_session")

-----------------------------------------------------------------------------
(* establish *)

GetExternalIdentity(r) ==
    /\ At(r, "get_external_identity")
    /\ identity' = [identity EXCEPT ![r] = TrustedIdentity]
    /\ Goto(r, IF TrustedIdentity = {} THEN "add_user" ELSE "get_user")
    /\ UNCHANGED <<tables, tx, conn, clock, faults, request, user, session,
                   result, durable, seenLive>>

\* Slip: the connection is in autocommit mode.
AddUserAutocommitted(r) ==
    /\ At(r, "add_user")
    /\ user' = [user EXCEPT ![r] = {NewUser(r)}]
    /\ identity' = [identity EXCEPT ![r] = {NewIdentity(r)}]
    /\ users' = users \cup {NewUser(r)}
    /\ Goto(r, "add_external_identity")
    /\ UNCHANGED <<identities, sessions, tx, conn, clock, faults, request,
                   session, result, durable, seenLive>>

\* _create_trusted_identity and add_user: the lookup found no identity.
AddUser(r) ==
    /\ At(r, "add_user")
    /\ user' = [user EXCEPT ![r] = {NewUser(r)}]
    /\ identity' = [identity EXCEPT ![r] = {NewIdentity(r)}]
    /\ newUsers' = [newUsers EXCEPT ![r] = {NewUser(r)}]
    /\ Goto(r, "add_external_identity")
    /\ UNCHANGED <<tables, newIdentities, newSessions, sent, conn, clock, faults,
                   request, session, result, durable, seenLive>>

\* The INSERT waits for a transaction that holds the same (issuer, subject),
\* then conflicts with a committed row, which aborts r's transaction; so does a
\* foreign key.
AddExternalIdentity(r) ==
    /\ At(r, "add_external_identity")
    /\ ~SubjectLocked(r, trusted)
    /\ IF /\ TrustedIdentity = {}
          /\ \A i \in identity[r] : UserExists(r, i.user)
         THEN /\ newIdentities' = [newIdentities EXCEPT ![r] = identity[r]]
              /\ Goto(r, "add_session")
              /\ UNCHANGED <<newUsers, newSessions, sent, result>>
         ELSE /\ Rollback(r)
              /\ Raise(r, "IdentityPersistenceConflict")
    /\ UNCHANGED <<tables, conn, clock, faults, request, locals, durable,
                   seenLive>>

GetUser(r) ==
    /\ At(r, "get_user")
    /\ LET found == {u \in users : \E i \in identity[r] : u.id = i.user}
       IN  /\ user' = [user EXCEPT ![r] = found]
           /\ IF IsActive(found, identity[r])
                THEN Goto(r, "add_session") /\ UNCHANGED result
                ELSE Raise(r, "InactiveIdentity")
    /\ UNCHANGED <<tables, tx, conn, clock, faults, request, identity, session,
                   durable, seenLive>>

\* The INSERT checks the foreign keys to the user and the identity.
AddSession(r) ==
    /\ At(r, "add_session")
    /\ LET created ==
             {NewSession(r, u, i, time[r]) : u \in user[r], i \in identity[r]}
       IN  /\ session' = [session EXCEPT ![r] = created]
           /\ IF \A s \in created :
                    UserExists(r, s.user) /\ IdentityExists(r, s.identity)
                THEN /\ newSessions' = [newSessions EXCEPT ![r] = created]
                     /\ Goto(r, "commit")
                     /\ UNCHANGED <<newUsers, newIdentities, sent, result>>
                ELSE /\ Rollback(r)
                     /\ Raise(r, "IdentityPersistenceConflict")
    /\ UNCHANGED <<tables, conn, clock, faults, request, identity, user,
                   durable, seenLive>>

-----------------------------------------------------------------------------
(* resolve *)

\* Expiry is judged by the clock as read before the connection was opened.
GetSession(r) ==
    /\ At(r, "get_session")
    /\ LET found == {s \in sessions : s.id = input[r].cookie}
       IN  /\ session' = [session EXCEPT ![r] = found]
           /\ seenLive' = [seenLive EXCEPT ![r] = \E s \in found : Live(s)]
           /\ IF \E s \in found : IsValidAt(s, time[r])
                THEN Goto(r, "get_session_user") /\ UNCHANGED result
                ELSE Raise(r, "InvalidSession")
    /\ UNCHANGED <<tables, tx, conn, clock, faults, request, identity, user,
                   durable>>

GetSessionUser(r) ==
    /\ At(r, "get_session_user")
    /\ user' = [user EXCEPT ![r] =
            {u \in users : \E s \in session[r] : u.id = s.user}]
    /\ Goto(r, "get_session_identity")
    /\ UNCHANGED <<tables, tx, conn, clock, faults, request, identity, session,
                   result, durable, seenLive>>

\* The identity read is the configured one, not the session's: they must match.
GetSessionIdentity(r) ==
    /\ At(r, "get_session_identity")
    /\ identity' = [identity EXCEPT ![r] = TrustedIdentity]
    /\ Raise(r, IF \/ user[r] = {}
                   \/ ~\E i \in TrustedIdentity, s \in session[r] :
                           i.id = s.identity /\ i.user = s.user
                THEN "InvalidSession"
                ELSE IF IsActive(user[r], TrustedIdentity)
                THEN "Authenticated"
                ELSE "InactiveIdentity")
    /\ UNCHANGED <<tables, tx, conn, clock, faults, request, user, session,
                   durable, seenLive>>

-----------------------------------------------------------------------------
(* revoke, after resolve has returned and its unit of work is closed *)

\* Slip: the token need not be this session's.
CsrfOfAnySession(r) == \E s \in sessions : s.csrf_verifier = input[r].csrf

\* The CSRF token was bound to session s at login.
CsrfMatches(r) == \E s \in session[r] : s.csrf_verifier = input[r].csrf

Refuse(r, error) ==
    /\ pc[r] = "revoke"
    /\ Goto(r, "done")
    /\ result' = [result EXCEPT ![r] = error]
    /\ UNCHANGED <<tables, tx, conn, clock, faults, request, locals, durable,
                   seenLive>>

\* validate_csrf raises.
RefuseCsrf(r) == ~CsrfMatches(r) /\ Refuse(r, "InvalidCsrfToken")

\* Slip: the replacement is not validated.
RevocableUnchecked(r) == \A s \in session[r] : s.revoked_at = None

\* ApplicationSession.revoke does not raise: r's copy is not revoked yet, and
\* the revoked replacement passes its constructor.
Revocable(r) ==
    \A s \in session[r] :
        s.revoked_at = None /\ LoadsAsSession(RevokedSession(s, now))

\* The clock stepped back behind the session's creation, and the constructor
\* of the revoked session raises.  (The copy is never revoked: resolve has let
\* it pass.)
RefuseRevokedAt(r) ==
    /\ CsrfMatches(r)
    /\ ~Revocable(r)
    /\ Refuse(r, "ValueError")

\* session.revoke(now), then the second unit of work.
Revoke(r) ==
    /\ pc[r] = "revoke"
    /\ CsrfMatches(r)
    /\ Revocable(r)
    /\ session' = [session EXCEPT ![r] =
            {RevokedSession(s, now) : s \in session[r]}]
    /\ Enter(r, "update_session")
    /\ UNCHANGED <<tables, tx, clock, request, identity, user, durable,
                   seenLive>>

\* Slip: two positional parameters of the UPDATE are swapped.
UpdatedRowSwapped(s, n) ==
    [s EXCEPT !.csrf_verifier = n.csrf_verifier,
              !.idle_expires_at = n.absolute_expires_at,
              !.absolute_expires_at = n.idle_expires_at,
              !.revoked_at = n.revoked_at]

\* The UPDATE's SET clause, from r's copy n, on the current row s.
UpdatedRow(s, n) ==
    [s EXCEPT !.csrf_verifier = n.csrf_verifier,
              !.idle_expires_at = n.idle_expires_at,
              !.absolute_expires_at = n.absolute_expires_at,
              !.revoked_at = n.revoked_at]

\* UPDATE ... WHERE id: it waits for the row lock and carries no version.
UpdateSession(r) ==
    /\ At(r, "update_session")
    /\ \A n \in session[r] : ~SessionLocked(r, n.id)
    /\ LET matched == {s \in sessions : \E n \in session[r] : s.id = n.id}
       IN  IF matched # {}
             THEN /\ newSessions' = [newSessions EXCEPT ![r] =
                        {UpdatedRow(s, n) : s \in matched, n \in session[r]}]
                  /\ Goto(r, "commit")
                  /\ UNCHANGED result
             ELSE /\ Raise(r, "IdentityRecordNotFound")
                  /\ UNCHANGED newSessions
    /\ UNCHANGED <<tables, newUsers, newIdentities, sent, conn, clock, faults,
                   request, locals, durable, seenLive>>

-----------------------------------------------------------------------------
(* Unit of work: commit and __exit__ *)

\* PostgreSQL makes r's row versions the current ones.
Apply(r) ==
    /\ users' = users \cup newUsers[r]
    /\ identities' = identities \cup newIdentities[r]
    /\ sessions' = newSessions[r]
            \cup {s \in sessions : \A n \in newSessions[r] : n.id # s.id}
    /\ Rollback(r)
    /\ durable' = durable \cup {r}

\* Slip: commit() is not called; __exit__ will roll back.
CommitForgotten(r) ==
    /\ At(r, "commit")
    /\ Raise(r, IF input[r].op = "login" THEN "Established" ELSE "Revoked")
    /\ UNCHANGED <<tables, tx, conn, clock, faults, request, locals, durable,
                   seenLive>>

CommitSucceeds(r) ==
    /\ At(r, "commit")
    /\ Apply(r)
    /\ Raise(r, IF input[r].op = "login" THEN "Established" ELSE "Revoked")
    /\ UNCHANGED <<conn, clock, faults, request, locals, seenLive>>

\* The server answers COMMIT with an error; rollback() works.
CommitRefused(r) ==
    /\ At(r, "commit")
    /\ Fault
    /\ Rollback(r)
    /\ Raise(r, "IdentityPersistenceError")
    /\ UNCHANGED <<tables, conn, clock, request, locals, durable, seenLive>>

\* COMMIT on a connection that is gone, or goes during it, when the server may
\* yet run it.  The rollback() of commit's handler raises psycopg's error.
CommitLost(r) ==
    /\ pc[r] = "commit"
    /\ \/ conn[r] = "lost" /\ UNCHANGED <<sent, faults, conn>>
       \/ /\ conn[r] = "open"
          /\ Fault
          /\ conn' = [conn EXCEPT ![r] = "lost"]
          /\ sent' = sent \cup {r}
    /\ Raise(r, "OperationalError")
    /\ UNCHANGED <<tables, newUsers, newIdentities, newSessions, clock, request,
                   locals, durable, seenLive>>

\* Slip: psycopg.Error is answered by a retry on the same connection.
StatementRetried(r) ==
    /\ pc[r] \in Statements
    /\ conn[r] = "open"
    /\ Fault
    /\ Rollback(r)
    /\ UNCHANGED <<tables, conn, clock, pc, request, locals, result, durable,
                   seenLive>>

\* psycopg.Error from a statement: the connection is gone, or the server
\* refused it and aborted the transaction.
StatementFails(r) ==
    /\ pc[r] \in Statements
    /\ \/ conn[r] = "lost" /\ UNCHANGED <<tx, faults>>
       \/ /\ conn[r] = "open"
          /\ Fault
          /\ Rollback(r)
    /\ Raise(r, "IdentityPersistenceError")
    /\ UNCHANGED <<tables, conn, clock, request, locals, durable, seenLive>>

\* __exit__: roll back what is not committed and close.  rollback() raises on
\* a lost connection, and its error replaces the result of the block.
Exit(r) ==
    /\ pc[r] = "exit"
    /\ conn' = [conn EXCEPT ![r] = "closed"]
    /\ IF conn[r] = "open"
         THEN Rollback(r)
         ELSE UNCHANGED tx
    /\ IF conn[r] = "lost" /\ ~Committed(r)
         THEN /\ result' = [result EXCEPT ![r] = "OperationalError"]
              /\ Goto(r, "done")
         ELSE /\ UNCHANGED result
              /\ Goto(r, IF result[r] = "Authenticated"
                            /\ input[r].op = "logout"
                         THEN "revoke" ELSE "done")
    /\ UNCHANGED <<tables, clock, faults, request, locals, durable, seenLive>>

-----------------------------------------------------------------------------
(* The environment *)

\* The network or the server drops r's connection.
LoseConnection(r) ==
    /\ conn[r] = "open"
    /\ Fault
    /\ conn' = [conn EXCEPT ![r] = "lost"]
    /\ UNCHANGED <<tables, tx, clock, pc, request, locals, result, durable,
                   seenLive>>

\* PostgreSQL runs the COMMIT of a client that is gone, at any time: when the
\* caller has its error already, or the process has been started again.
LateCommit(r) ==
    /\ r \in sent
    /\ Apply(r)
    /\ UNCHANGED <<conn, clock, faults, pc, request, locals, result, seenLive>>

\* PostgreSQL notices that a client is gone and rolls its transaction back;
\* until then that transaction keeps its locks.
Reap(r) ==
    /\ conn[r] # "open"
    /\ ~NoWrites(r)
    /\ Rollback(r)
    /\ UNCHANGED <<tables, conn, clock, faults, pc, request, locals, result,
                   durable, seenLive>>

\* The process stops at any point, with the COMMIT of a request perhaps on its
\* way, and starts again, perhaps with another trusted identity in its settings.
InFlight(r) == pc[r] \notin {"idle", "done"}
Restart ==
    /\ Fault
    /\ sent' = sent \cup {r \in Requests : At(r, "commit")}
    /\ trusted' \in Subjects
    /\ pc' = [r \in Requests |-> IF InFlight(r) THEN "done" ELSE pc[r]]
    /\ result' = [r \in Requests |->
                    IF InFlight(r) THEN "Crashed" ELSE result[r]]
    /\ conn' = [r \in Requests |-> "closed"]
    /\ UNCHANGED <<tables, newUsers, newIdentities, newSessions, now, request,
                   locals, durable, seenLive>>

\* An operator disables a user, or an identity mapping, in the database.  No
\* code of the repository does, and nothing enables them again.
DisableUser ==
    /\ \E u \in users :
          /\ u.status = "ACTIVE"
          /\ users' = (users \ {u}) \cup {[u EXCEPT !.status = "DISABLED"]}
    /\ UNCHANGED <<identities, sessions, tx, conn, clock, faults, pc, request,
                   locals, result, durable, seenLive>>

DisableIdentity ==
    /\ \E i \in identities :
          /\ i.enabled
          /\ identities' = (identities \ {i})
                                \cup {[i EXCEPT !.enabled = FALSE]}
    /\ UNCHANGED <<users, sessions, tx, conn, clock, faults, pc, request,
                   locals, result, durable, seenLive>>

\* The wall clock advances, or is set back.
Tick ==
    /\ now < MaxTime
    /\ now' = now + 1
    /\ UNCHANGED <<tables, tx, conn, trusted, faults, pc, request, locals,
                   result, durable, seenLive>>

StepBack ==
    /\ now > 0
    /\ Fault
    /\ now' = now - 1
    /\ UNCHANGED <<tables, tx, conn, trusted, pc, request, locals, result,
                   durable, seenLive>>

-----------------------------------------------------------------------------
\* The steps by which a request that has begun goes on.
Serve(r) ==
    \/ GetExternalIdentity(r) \/ AddUser(r) \/ AddExternalIdentity(r)
    \/ GetUser(r) \/ AddSession(r)
    \/ GetSession(r) \/ GetSessionUser(r) \/ GetSessionIdentity(r)
    \/ RefuseCsrf(r) \/ RefuseRevokedAt(r) \/ Revoke(r) \/ UpdateSession(r)
    \/ CommitSucceeds(r) \/ CommitRefused(r) \/ CommitLost(r)
    \/ StatementFails(r) \/ Exit(r)

Begin(r) == StartLogin(r) \/ StartInspect(r) \/ StartLogout(r)

\* Every request of the behaviour is answered.
Finished == (\A r \in Requests : pc[r] = "done") /\ UNCHANGED vars

Next ==
    \/ \E r \in Requests :
          Begin(r) \/ Serve(r) \/ LoseConnection(r) \/ LateCommit(r) \/ Reap(r)
    \/ Restart \/ DisableUser \/ DisableIdentity \/ Tick \/ StepBack
    \/ Finished

Spec == Init /\ [][Next]_vars

\* A thread that serves a request keeps running, and the server cleans up
\* after a lost client.  Nothing is assumed of the other steps.
FairSpec ==
    /\ Spec
    /\ \A r \in Requests : WF_vars(Serve(r)) /\ WF_vars(Reap(r))

-----------------------------------------------------------------------------
(* What the service promises *)

\* First logins that race leave one user and one identity per configured
\* subject, no user without its identity, and no dangling reference: a session
\* always names the identity and the user that belong together (establish's
\* check-then-insert in one transaction, the unique index behind it).
IdentityIntegrity ==
    /\ \A i, j \in identities : i.subject = j.subject => i = j
    /\ \A u \in users : \E i \in identities : i.user = u.id
    /\ \A i \in identities : \E u \in users : u.id = i.user
    /\ \A s \in sessions : \E i \in identities :
            i.id = s.identity /\ i.user = s.user

\* resolve reads session, user and identity in three statements that see three
\* states of the database.  Still it authenticates a request, and revoke
\* revokes for it, only if at one moment, when the session row was read, the
\* session was unrevoked, its user active and its identity enabled.
AuthenticatedWasLive ==
    \A r \in Requests :
        result[r] \in {"Authenticated", "Revoked"} => seenLive[r]

\* A session is revoked only by a logout that presented that session's own
\* cookie and the CSRF token issued with it (validate_csrf before revoke).
RevocationAuthorised ==
    \A s \in sessions : s.revoked_at # None =>
        \E r \in durable : input[r] = [op |-> "logout", cookie |-> s.id,
                                      csrf |-> s.csrf_verifier]

\* The caller's answer tells the truth about the database: success means the
\* transaction is durable and its effect is there; any error of the service
\* means nothing was written, nor ever will be.  Only psycopg's own error and a
\* crash leave it open (a COMMIT that the server may run later, or never).
AnswerIsTrue(r) ==
    /\ r \in durable => result[r] \in {"Established", "Revoked",
                                       "OperationalError", "Crashed"}
    /\ Committed(r) => r \in durable
    /\ result[r] = "Established" => \E s \in sessions : s.id = r
    /\ result[r] = "Revoked" =>
          \E s \in sessions : s.id = input[r].cookie /\ s.revoked_at # None

OutcomeMatchesCommit == \A r \in Requests : AnswerIsTrue(r)

\* A login is good for idle_lifetime and no longer, by the clocks of the two
\* calls: nothing that happens to a session meanwhile - use, overlapping logouts
\* that write back old copies of its expiry, steps of the clock - extends it,
\* and absolute_lifetime, which is no shorter, never decides.
WithinIdleLifetime(r) ==
    /\ input[r].cookie \in durable
    /\ time[r] < time[input[r].cookie] + IdleLifetime

IdleLifetimeDecides ==
    \A r \in Requests :
        result[r] \in {"Authenticated", "Revoked"} => WithinIdleLifetime(r)

\* Nobody is turned away without a reason: whoever is told that the session is
\* invalid came with no session, or late, or after a logout, or the configured
\* identity is not the session's; whoever is told that the identity is inactive
\* was stopped by an operator.  Three reads at three moments, amid commits that
\* come in between and commits that come late, never make up a reason.
InvalidWithReason(r) ==
    \/ input[r].cookie = NoToken
    \/ time[r] >= time[input[r].cookie] + IdleLifetime
    \/ \E s \in sessions :
          /\ s.id = input[r].cookie
          /\ s.revoked_at # None \/ \A i \in TrustedIdentity : i.id # s.identity

InactiveWithReason ==
    \E i \in TrustedIdentity :
        ~i.enabled \/ \E u \in users : u.id = i.user /\ u.status = "DISABLED"

RefusalIsTrue ==
    \A r \in Requests : pc[r] = "exit" =>
        /\ result[r] = "InvalidSession" => InvalidWithReason(r)
        /\ result[r] = "InactiveIdentity" => InactiveWithReason

\* Every stored session can be read back: its row passes the checks of the
\* ApplicationSession constructor, whatever the clock did between the login
\* and the logout (otherwise each later use of the cookie would be a 500).
StoredSessionsLoad == \A s \in sessions : LoadsAsSession(s)

\* A logout writes back nine columns of a copy read in an earlier transaction.
\* All the same a committed session changes in one way only: it gets revoked,
\* and it stays so; no stale copy undoes anything.
SessionRowsOnlyGetRevoked ==
    [][\A s \in sessions : \E n \in sessions' :
            /\ n = [s EXCEPT !.revoked_at = n.revoked_at]
            /\ s.revoked_at # None => n.revoked_at # None]_vars

\* ApplicationSession.revoke: "A revoked session cannot be revoked again."
RevokedOnce ==
    [][\A s \in sessions, n \in sessions' :
            (s.id = n.id /\ s.revoked_at # None)
                => n.revoked_at = s.revoked_at]_vars

\* "Disabling a user prevents new sessions" (data design, identity model): a
\* session is stored only for a user who is active then.
DisabledUsersGetNoSession ==
    [][\A s \in sessions' :
            (\A n \in sessions : n.id # s.id)
                => \E u \in users' : u.id = s.user /\ u.status = "ACTIVE"]_vars

\* What RevokedOnce comes to: a revocation is written over only by a logout
\* that had read the session while it was live, before it was first revoked.  A
\* logout called once a session is revoked changes nothing, however stale the
\* copies are that other logouts still carry.
OnlyOverlapsRevokeAgain ==
    [][\A s \in sessions :
            s.revoked_at # None /\ s \notin sessions' =>
                \E r \in durable' \ durable :
                   /\ input[r].op = "logout" /\ input[r].cookie = s.id
                   /\ seenLive[r]]_vars

\* r cannot run its next statement before the transaction of q ends.
WaitsFor(r, q) ==
    /\ r # q
    /\ \/ /\ At(r, "add_external_identity")
          /\ \E i \in newIdentities[q] : i.subject = trusted
       \/ /\ At(r, "update_session")
          /\ \E n \in session[r], s \in newSessions[q] : s.id = n.id

\* No deadlock: whoever is waited for waits for nobody.  It has a statement
\* left, or its commit or rollback, that needs no lock; or its client is gone
\* and PostgreSQL rolls it back (add_external_identity comes before every other
\* lock of a login, update_session is alone in its transaction).
NobodyWaitsInLine ==
    \A r, q \in Requests : WaitsFor(r, q) =>
        \/ At(q, "add_session") \/ At(q, "commit") \/ At(q, "exit")
        \/ conn[q] # "open" /\ ~NoWrites(q)

\* Every call of the service ends, though its INSERT may wait for another
\* login's index entry and its UPDATE for another logout's row lock, and the
\* holder of either may be a client that is gone.
EveryRequestAnswered ==
    \A r \in Requests : InFlight(r) ~> pc[r] = "done"

\* The life of a session as its users see it (SessionLifecycle).
SessionState(id) ==
    IF \A s \in sessions : s.id # id THEN "none"
    ELSE IF \E s \in sessions : s.id = id /\ Live(s) THEN "live"
    ELSE "ended"

States  == [id \in Requests |-> SessionState(id)]
Written == [r \in Requests |-> r \in durable]
Answer  == [r \in Requests |-> IF pc[r] = "done" THEN result[r] ELSE "waiting"]

Lifecycle == INSTANCE SessionLifecycle WITH
    state <- States, seen <- seenLive, written <- Written, answer <- Answer

\* Statement by statement, with its failures, the service is one where each
\* call observes its session at a single moment and takes effect at a single
\* moment, where a session once ended never comes back, and where every answer
\* but a lost connection's tells what was observed and whether it took effect;
\* after that one the call may still take effect, once, however late.
ServesLifecycle == Lifecycle!Spec
=============================================================================
