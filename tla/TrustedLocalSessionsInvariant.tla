--------------------- MODULE TrustedLocalSessionsInvariant ---------------------
(***************************************************************************)
(* The inductive invariant of TrustedLocalSessions: what holds between any *)
(* two steps of the requests and makes the service's promises follow.      *)
(***************************************************************************)
EXTENDS TrustedLocalSessions

\* Row n names a user and an identity of the set I that belong together.
Paired(n, I) == \E i \in I : i.id = n.identity /\ i.user = n.user

\* Two versions of a session row that differ in revoked_at at most.
SameButRevocation(n, s) == n = [s EXCEPT !.revoked_at = n.revoked_at]

\* The rows of each committed table have keys of their own, and every key is
\* that of a request whose transaction committed.
KeysInv ==
    /\ \A u \in users : u.id \in durable
    /\ \A i \in identities : i.id \in durable
    /\ \A s \in sessions : s.id \in durable
    /\ \A u, v \in users : u.id = v.id => u = v
    /\ \A i, j \in identities : i.id = j.id => i = j
    /\ \A s, n \in sessions : s.id = n.id => s = n

\* What a transaction may hold: its own new rows, or the revoked version of the
\* session it was asked for.  It holds for transactions of lost clients too.
NewRowsInv ==
    \A r \in Requests :
        /\ \A u \in newUsers[r] : u = NewUser(r)
        /\ \A i \in newIdentities[r] : i.id = r /\ i.user = r
        /\ \A i, j \in newIdentities[r] : i = j
        /\ \A i \in newIdentities[r], j \in identities : i.subject # j.subject
        /\ \A q \in Requests \ {r} :
              \A i \in newIdentities[r], j \in newIdentities[q] :
                  i.subject # j.subject

VersionOK(r, n) ==
    /\ LoadsAsSession(n)
    /\ \A m \in newSessions[r] : m = n
    /\ Paired(n, identities \cup newIdentities[r])
    /\ \/ n.revoked_at = None /\ n.id = r
       \/ /\ n.revoked_at # None
          /\ input[r] = [op |-> "logout", cookie |-> n.id,
                         csrf |-> n.csrf_verifier]
          /\ \E s \in sessions : SameButRevocation(n, s)

NewVersionsInv ==
    \A r \in Requests : \A n \in newSessions[r] : VersionOK(r, n)

\* A request that has committed is past its commit.
DurableInv ==
    \A r \in durable :
        /\ pc[r] \in {"exit", "done"}
        /\ NoWrites(r)

\* Where a request is, what it was asked, and what it holds there.
LoginSteps   == {"get_external_identity", "add_user", "add_external_identity",
                 "get_user", "add_session"}
ResolveSteps == {"get_session", "get_session_user", "get_session_identity"}
RevokeSteps  == {"revoke", "update_session"}

ControlOK(r) ==
    /\ pc[r] \in {"idle", "revoke", "done"} => conn[r] = "closed"
    /\ pc[r] = "idle" => result[r] = "Pending" /\ NoWrites(r)
    /\ pc[r] \in LoginSteps => input[r].op = "login" /\ result[r] = "Pending"
    /\ pc[r] \in ResolveSteps => result[r] = "Pending"
    /\ pc[r] \in RevokeSteps =>
          input[r].op = "logout" /\ result[r] = "Authenticated"
    /\ pc[r] = "commit" =>
          \/ input[r].op = "login" /\ result[r] = "Pending"
          \/ input[r].op = "logout" /\ result[r] = "Authenticated"
    /\ result[r] = "Revoked" => input[r].op = "logout"

ControlInv == \A r \in Requests : ControlOK(r)

\* What a login holds while its connection works.
LoginOK(r) ==
    /\ pc[r] \in {"get_external_identity", "add_user", "get_user"} => NoWrites(r)
    /\ pc[r] = "get_user" =>
          /\ \A i, j \in identity[r] : i = j
          /\ \A i \in identity[r] : \E j \in identities :
                j.id = i.id /\ j.user = i.user
    /\ At(r, "add_external_identity") =>
          /\ newUsers[r] = {NewUser(r)}
          /\ newIdentities[r] = {}
          /\ newSessions[r] = {}
          /\ user[r] = {NewUser(r)}
          /\ identity[r] = {NewIdentity(r)}
    /\ At(r, "add_session") =>
          /\ newSessions[r] = {}
          /\ newUsers[r] # {} <=> newIdentities[r] # {}
          /\ \E u \in user[r], i \in identity[r] :
                /\ user[r] = {u} /\ identity[r] = {i}
                /\ u.id = i.user
                /\ \E j \in identities \cup newIdentities[r] :
                      j.id = i.id /\ j.user = i.user

LoginInv == \A r \in Requests : LoginOK(r)

\* r works with the session row it has read: the row in the table has changed
\* in revoked_at at most.
HoldsSession(r) ==
    \/ pc[r] \in {"get_session_user", "get_session_identity"} \cup RevokeSteps
    \/ pc[r] = "exit" /\ result[r] = "Authenticated"

HeldSessionOK(r) ==
    /\ session[r] # {}
    /\ \A n, m \in session[r] : n = m
    /\ \A n \in session[r] :
          /\ n.id = input[r].cookie
          /\ LoadsAsSession(n)
          /\ \E s \in sessions : SameButRevocation(n, s)
          /\ IF pc[r] = "update_session"
               THEN n.revoked_at # None /\ n.csrf_verifier = input[r].csrf
               ELSE n.revoked_at = None

ResolveInv ==
    \A r \in Requests :
        /\ pc[r] = "get_session" \/ HoldsSession(r) => NoWrites(r)
        /\ HoldsSession(r) => HeldSessionOK(r)

\* A session that was not live when r read its row will not be found live by
\* what r reads next.
NotLiveOK(r) ==
    \A n \in session[r] :
        \/ \A i \in identities : i.id = n.identity => ~i.enabled
        \/ IF pc[r] = "get_session_user"
             THEN \A u \in users : u.id = n.user => u.status # "ACTIVE"
             ELSE \A u \in user[r] : u.status # "ACTIVE"

NotLiveInv ==
    \A r \in Requests :
        /\ pc[r] \in {"get_session_user", "get_session_identity"}
        /\ ~seenLive[r]
        => NotLiveOK(r)

\* The user that a resolve has read is the session's, who is still there, and
\* has not been enabled again.
UserReadOK(r) ==
    /\ user[r] # {}
    /\ \A u \in user[r] :
          /\ \A n \in session[r] : u.id = n.user
          /\ u.status = "DISABLED" =>
                \E v \in users : v.id = u.id /\ v.status = "DISABLED"

UserReadInv ==
    \A r \in Requests : pc[r] = "get_session_identity" => UserReadOK(r)

\* The identity that a login has found is the configured one still.
IdentityReadOK(r) ==
    /\ identity[r] # {}
    /\ \A i \in identity[r] : \E j \in TrustedIdentity :
          j.id = i.id /\ j.user = i.user /\ (j.enabled => i.enabled)

IdentityReadInv == \A r \in Requests : pc[r] = "get_user" => IdentityReadOK(r)

\* A cookie names a stored session.
CookieOK(r) ==
    input[r].cookie = NoToken \/ \E s \in sessions : s.id = input[r].cookie

CookieInv == \A r \in Requests : CookieOK(r)

\* A transaction about to commit holds its session row, and a user with its
\* identity or neither.
CommitOK(r) ==
    /\ newSessions[r] # {}
    /\ newUsers[r] # {} <=> newIdentities[r] # {}
    /\ \A n \in newSessions[r] :
          (n.revoked_at = None) <=> (input[r].op = "login")

\* r's COMMIT comes next, or is on its way.
Committing(r) == At(r, "commit") \/ r \in sent

CommitInv == \A r \in Requests : Committing(r) => CommitOK(r)

\* The client of a COMMIT on its way is gone, and does not know its outcome.
SentInv ==
    \A r \in sent :
        /\ pc[r] \in {"exit", "done"} /\ conn[r] # "open"
        /\ result[r] \in {"OperationalError", "Crashed"}
        /\ input[r].op = "login" \/ (input[r].op = "logout" /\ seenLive[r])

\* What a call asks for, has seen and is told, each in its place: only calls of
\* resolve find a session invalid, only logins establish one, and the row that
\* UPDATE names is there.
CallOK(r) ==
    /\ pc[r] = "idle" <=> input[r].op = "none"
    /\ pc[r] \in {"idle", "get_session"} => ~seenLive[r]
    /\ pc[r] \in ResolveSteps => input[r].op \in {"inspect", "logout"}
    /\ pc[r] = "exit" => result[r] \notin {"Pending", "Crashed",
                                           "InvalidCsrfToken", "ValueError"}
    /\ result[r] # "IdentityRecordNotFound"
    /\ result[r] \in {"InvalidSession", "Authenticated"} =>
          input[r].op \in {"inspect", "logout"}
    /\ result[r] = "Established" => input[r].op = "login"

CallInv == \A r \in Requests : CallOK(r)

\* The CSRF token of a session is the one that its login issued with it.
CsrfInv ==
    /\ \A s \in sessions : s.csrf_verifier = s.id
    /\ \A r \in Requests : \A n \in newSessions[r] : n.csrf_verifier = n.id

\* A session's times are those of its login, whose name it has; and a request
\* that resolve has let pass the session row was called in time.
TimesOfLogin(s) ==
    /\ s.created_at = time[s.id]
    /\ s.idle_expires_at = time[s.id] + IdleLifetime
    /\ s.absolute_expires_at = time[s.id] + AbsoluteLifetime

TimesInv ==
    /\ \A s \in sessions : TimesOfLogin(s)
    /\ \A r \in Requests : \A n \in newSessions[r] : TimesOfLogin(n)

LetPass(r) ==
    \/ pc[r] \in {"get_session_user", "get_session_identity"}
    \/ result[r] \in {"Authenticated", "Revoked"}

InTimeInv == \A r \in Requests : LetPass(r) => WithinIdleLifetime(r)

IInv ==
    /\ TypeOK
    /\ KeysInv /\ NewRowsInv /\ NewVersionsInv /\ DurableInv
    /\ ControlInv /\ LoginInv /\ ResolveInv /\ NotLiveInv /\ CommitInv
    /\ CallInv /\ CsrfInv /\ TimesInv /\ InTimeInv
    /\ UserReadInv /\ IdentityReadInv /\ CookieInv /\ SentInv
    /\ IdentityIntegrity
    /\ AuthenticatedWasLive
    /\ RevocationAuthorised
    /\ OutcomeMatchesCommit
    /\ StoredSessionsLoad
    /\ RefusalIsTrue
===============================================================================
