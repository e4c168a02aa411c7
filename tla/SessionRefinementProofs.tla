------------------------ MODULE SessionRefinementProofs ------------------------
(***************************************************************************)
(* The session service, statement by statement, implements                 *)
(* SessionLifecycle: from the inductive invariant, every step is one that  *)
(* the abstract service may make, or one that no caller can notice.        *)
(***************************************************************************)
EXTENDS TrustedLocalSessionsProofs

-----------------------------------------------------------------------------
(* What a step leaves alone. *)

\* The states of the sessions are made of the tables.
LEMMA SameStates ==
    ASSUME UNCHANGED <<users, identities, sessions>>
    PROVE  States' = States
  BY DEF States, SessionState, Live

\* Steps that a caller cannot notice.
LEMMA Unnoticed ==
    ASSUME UNCHANGED <<users, identities, sessions, input, seenLive, durable>>,
           \A q \in Requests :
              /\ pc'[q] = "done" <=> pc[q] = "done"
              /\ pc[q] = "done" => result'[q] = result[q]
    PROVE  UNCHANGED Lifecycle!vars
<1>1. States' = States
  BY SameStates
<1>2. Written' = Written
  BY DEF Written
<1>3. Answer' = Answer
  BY DEF Answer
<1> QED
  BY <1>1, <1>2, <1>3 DEF Lifecycle!vars

\* A request of which only the place and the outcome change.
LEMMA StaysInside ==
    ASSUME TypeOK, NEW r \in Requests, NEW place, place # "done",
           UNCHANGED <<users, identities, sessions, input, seenLive, durable>>,
           pc[r] # "done", pc' = [pc EXCEPT ![r] = place],
           \A q \in Requests \ {r} : result'[q] = result[q]
    PROVE  UNCHANGED Lifecycle!vars
<1>1. \A q \in Requests :
         /\ pc'[q] = "done" <=> pc[q] = "done"
         /\ pc[q] = "done" => result'[q] = result[q]
  BY DEF TypeOK
<1> QED
  BY <1>1, Unnoticed

-----------------------------------------------------------------------------
(* The life of a session. *)

\* An operator's change, and a commit, give back no rights to a session.
LEMMA LiveWas ==
    ASSUME IInv, [Next]_vars, NEW s \in sessions, Live(s)'
    PROVE  Live(s)
<1>1. s.revoked_at = None
  BY DEF Live
<1>2. PICK v \in users' : v.id = s.user /\ v.status = "ACTIVE"
  BY DEF Live
<1>3. PICK j \in identities' : j.id = s.identity /\ j.enabled
  BY DEF Live
<1>4. PICK i \in identities : i.id = s.identity /\ i.user = s.user
  BY DEF IInv, IdentityIntegrity
<1>5. PICK u \in users : u.id = s.user
  BY <1>4 DEF IInv, IdentityIntegrity
<1>6. u.status = "ACTIVE"
  BY <1>2, <1>5, Persist
<1>7. i.enabled
  BY <1>3, <1>4, Persist
<1> QED
  BY <1>1, <1>4, <1>5, <1>6, <1>7 DEF Live

\* A commit leaves the rows that a live session needs where they are.
LEMMA LiveStays ==
    ASSUME NEW r \in Requests, Apply(r), NEW s, Live(s)
    PROVE  Live(s)'
  BY DEF Apply, Live

\* An operator ends the sessions of a user, or of an identity.
LEMMA DisableStep ==
    ASSUME IInv, [Next]_vars, DisableUser \/ DisableIdentity
    PROVE  \E some \in SUBSET Requests : Lifecycle!Disable(some)
<1> DEFINE some == {id \in Requests : States[id] = "live" /\ States'[id] # "live"}
<1>1. UNCHANGED <<sessions, input, seenLive, durable, pc, result>>
  BY DEF DisableUser, DisableIdentity, request
<1>2. Written' = Written /\ Answer' = Answer
  BY <1>1 DEF Written, Answer
<1>3. ASSUME NEW id \in Requests
      PROVE  SessionState(id)' =
                IF id \in some THEN "ended" ELSE SessionState(id)
  <2>1. CASE \A s \in sessions : s.id # id
    BY <1>1, <2>1 DEF States, SessionState
  <2>2. CASE \E s \in sessions : s.id = id
    <3>1. (\E s \in sessions' : s.id = id /\ Live(s)') =>
             \E s \in sessions : s.id = id /\ Live(s)
      BY <1>1, LiveWas
    <3>2. SessionState(id) = "live" <=> \E s \in sessions : s.id = id /\ Live(s)
      BY <2>2 DEF SessionState
    <3>3. SessionState(id)' = "live" <=>
             \E s \in sessions' : s.id = id /\ Live(s)'
      BY <1>1, <2>2 DEF SessionState
    <3>4. /\ SessionState(id) \in {"live", "ended"}
          /\ SessionState(id)' \in {"live", "ended"}
      BY <1>1, <2>2 DEF SessionState
    <3>5. id \in some <=> SessionState(id) = "live" /\ SessionState(id)' # "live"
      BY DEF States
    <3> QED
      BY <3>1, <3>2, <3>3, <3>4, <3>5
  <2> QED
    BY <2>1, <2>2
<1>4. States' = [id \in Requests |-> IF id \in some THEN "ended" ELSE States[id]]
  <2>1. \A id \in Requests : States[id] = SessionState(id)
    BY DEF States
  <2>2. States' = [id \in Requests |-> SessionState(id)']
    BY DEF States
  <2> HIDE DEF some
  <2> QED
    BY <1>3, <2>1, <2>2
<1>5. some \in SUBSET Requests /\ \A id \in some : States[id] = "live"
  OBVIOUS
<1> HIDE DEF some
<1> QED
  BY <1>1, <1>2, <1>4, <1>5 DEF Lifecycle!Disable

\* A commit changes the state of no session but the one it writes.
LEMMA OtherStates ==
    ASSUME IInv, [Next]_vars, NEW r \in Requests, Apply(r),
           NEW n \in newSessions[r], newSessions[r] = {n},
           NEW id \in Requests, id # n.id
    PROVE  States'[id] = States[id]
<1>1. \A s : s.id = id => (s \in sessions' <=> s \in sessions)
  BY DEF Apply
<1>2. \A s \in sessions : Live(s)' <=> Live(s)
  BY LiveWas, LiveStays
<1>3. SessionState(id)' = SessionState(id)
  BY <1>1, <1>2 DEF SessionState
<1> QED
  BY <1>3 DEF States

\* A commit is the effect of its call.
LEMMA CommitIsWritten ==
    ASSUME NEW r \in Requests, Apply(r)
    PROVE  Written' = [Written EXCEPT ![r] = TRUE]
<1>1. durable' = durable \cup {r}
  BY DEF Apply
<1>2. ASSUME NEW q \in Requests
      PROVE  (q \in durable') = IF q = r THEN TRUE ELSE q \in durable
  <2>1. CASE q = r
    <3>1. q \in durable'
      BY <1>1, <2>1
    <3> QED
      BY <2>1, <3>1, Zenon
  <2>2. CASE q # r
    <3>1. q \in durable' <=> q \in durable
      BY <1>1, <2>2
    <3> QED
      BY <2>2, <3>1
  <2> QED
    BY <2>1, <2>2
<1>3. [Written EXCEPT ![r] = TRUE] =
         [q \in Requests |-> IF q = r THEN TRUE ELSE q \in durable]
  BY DEF Written
<1> QED
  BY <1>2, <1>3, Zenon DEF Written

\* When a transaction commits, its caller waits or does not know the outcome,
\* and is told nothing.
LEMMA CommitUnsettled ==
    ASSUME IInv, NEW r \in Requests, Commits(r)
    PROVE  /\ Lifecycle!Unsettled(r) /\ Answer' = Answer
           /\ UNCHANGED <<input, seenLive>>
           /\ input[r].op # "login" => input[r].op = "logout" /\ seenLive[r]
<1>t. TypeOK
  BY DEF IInv
<1>1. Committing(r) /\ r \notin durable /\ pc[r] # "idle"
  BY CommitsOnce
<1>2. input[r].op # "none"
  BY <1>1 DEF IInv, CallInv, CallOK
<1>3. CASE At(r, "commit") /\ CommitSucceeds(r)
  <2>1. /\ pc[r] = "commit" /\ pc' = [pc EXCEPT ![r] = "exit"]
        /\ \A q \in Requests \ {r} : result'[q] = result[q]
        /\ UNCHANGED <<input, seenLive>>
    BY <1>3, <1>t DEF CommitSucceeds, At, Goto, Raise, request, TypeOK
  <2>2. Answer[r] = "waiting" /\ Answer' = Answer
    BY <1>t, <2>1 DEF Answer, TypeOK
  <2>3. input[r].op # "login" => input[r].op = "logout" /\ seenLive[r]
    BY <2>1 DEF IInv, ControlInv, ControlOK, AuthenticatedWasLive
  <2> QED
    BY <1>1, <1>2, <2>1, <2>2, <2>3 DEF Lifecycle!Unsettled, Written
<1>4. CASE LateCommit(r)
  <2>1. r \in sent /\ UNCHANGED <<pc, result, input, seenLive>>
    BY <1>4 DEF LateCommit, request
  <2>2. Answer' = Answer
    BY <2>1 DEF Answer
  <2>3. Answer[r] \in {"waiting", "OperationalError", "Crashed"}
    BY <2>1 DEF Answer, IInv, SentInv
  <2>4. input[r].op # "login" => input[r].op = "logout" /\ seenLive[r]
    BY <2>1 DEF IInv, SentInv
  <2> QED
    BY <1>1, <1>2, <2>1, <2>2, <2>3, <2>4 DEF Lifecycle!Unsettled, Written
<1> QED
  BY <1>3, <1>4 DEF Commits, CommitSucceeds

\* The row of a login's transaction becomes visible.
LEMMA OpenStep ==
    ASSUME IInv, [Next]_vars, NEW r \in Requests, Commits(r),
           input[r].op = "login"
    PROVE  Lifecycle!Open(r)
<1>1. Committing(r) /\ Apply(r)
  BY CommitsOnce
<1>2. PICK n \in newSessions[r] : n.revoked_at = None
  BY <1>1 DEF IInv, CommitInv, CommitOK
<1>3. newSessions[r] = {n} /\ n.id = r
  <2>1. VersionOK(r, n)
    BY DEF IInv, NewVersionsInv
  <2> QED
    BY <1>2, <2>1 DEF VersionOK
<1>4. n \in sessions'
  BY <1>1, <1>3 DEF Apply
<1>5. States'[r] \in {"live", "ended"}
  BY <1>3, <1>4 DEF States, SessionState
<1>6. \A id \in Requests \ {r} : States'[id] = States[id]
  BY <1>1, <1>3, OtherStates
<1>7. States' = [States EXCEPT ![r] = States'[r]]
  BY <1>6 DEF States
<1>8. Written' = [Written EXCEPT ![r] = TRUE]
  BY <1>1, CommitIsWritten
<1> QED
  BY <1>5, <1>7, <1>8, CommitUnsettled DEF Lifecycle!Open

\* The row of a logout's transaction becomes visible.
LEMMA CloseStep ==
    ASSUME IInv, [Next]_vars, NEW r \in Requests, Commits(r),
           input[r].op # "login"
    PROVE  Lifecycle!Close(r)
<1>t. TypeOK
  BY DEF IInv
<1> DEFINE id == input[r].cookie
<1>1. Committing(r) /\ Apply(r)
  BY CommitsOnce
<1>2. PICK n \in newSessions[r] : n.revoked_at # None
  BY <1>1 DEF IInv, CommitInv, CommitOK
<1>3. /\ newSessions[r] = {n} /\ n.id = id
      /\ input[r].op = "logout" /\ input[r].csrf = n.csrf_verifier
  <2>1. VersionOK(r, n)
    BY DEF IInv, NewVersionsInv
  <2>2. \A m \in newSessions[r] : m = n
    BY <2>1 DEF VersionOK
  <2>3. input[r] = [op |-> "logout", cookie |-> n.id, csrf |-> n.csrf_verifier]
    BY <1>2, <2>1 DEF VersionOK
  <2> QED
    BY <2>2, <2>3
<1>4. input[r].csrf = id /\ id \in Requests
  BY <1>3, <1>t DEF IInv, CsrfInv, TypeOK, SessionRow
<1>6. n \in sessions' /\ \A s \in sessions' : s.id = id => s = n
  BY <1>1, <1>3 DEF Apply
<1>7. States'[id] = "ended"
  BY <1>2, <1>3, <1>4, <1>6 DEF States, SessionState, Live
<1>8. \A other \in Requests \ {id} : States'[other] = States[other]
  BY <1>1, <1>3, OtherStates
<1>9. States' = [States EXCEPT ![id] = "ended"]
  BY <1>7, <1>8 DEF States
<1>10. Written' = [Written EXCEPT ![r] = TRUE]
  BY <1>1, CommitIsWritten
<1> QED
  BY <1>3, <1>4, <1>9, <1>10, CommitUnsettled DEF Lifecycle!Close

-----------------------------------------------------------------------------
(* A call, from its beginning to its answer. *)

\* A call begins.
LEMMA AskStep ==
    ASSUME IInv, NEW r \in Requests, NEW op, NEW cookie, NEW csrf, NEW first,
           first # "done", Start(r, op, cookie, csrf, first)
    PROVE  Lifecycle!Ask(r, op, cookie, csrf)
<1>t. TypeOK
  BY DEF IInv
<1>1. /\ pc[r] = "idle" /\ input[r].op = "none"
      /\ input' = [input EXCEPT ![r] =
                     [op |-> op, cookie |-> cookie, csrf |-> csrf]]
      /\ UNCHANGED <<users, identities, sessions, durable, seenLive>>
  BY DEF Start, IInv, CallInv, CallOK, tables
<1>2. States' = States /\ Written' = Written
  BY <1>1, SameStates DEF Written
<1>3. \/ Answer' = Answer
      \/ Answer' = [Answer EXCEPT ![r] = "IdentityPersistenceError"]
  <2>1. CASE pc' = [pc EXCEPT ![r] = first] /\ result' = result
    <3>1. \A q \in Requests : pc'[q] = "done" <=> pc[q] = "done"
      BY <1>1, <1>t, <2>1 DEF TypeOK
    <3> QED
      BY <2>1, <3>1 DEF Answer
  <2>2. CASE /\ pc' = [pc EXCEPT ![r] = "done"]
             /\ result' = [result EXCEPT ![r] = "IdentityPersistenceError"]
    BY <1>t, <2>2 DEF Answer, TypeOK
  <2> QED
    BY <2>1, <2>2 DEF Start, Enter, Goto
<1> QED
  BY <1>1, <1>2, <1>3 DEF Lifecycle!Ask, Lifecycle!New

\* The session of the cookie is read: seen if it is live, unnoticed if not.
LEMMA ObserveStep ==
    ASSUME IInv, NEW r \in Requests, GetSession(r)
    PROVE  Lifecycle!Observe(r) \/ UNCHANGED Lifecycle!vars
<1>t. TypeOK
  BY DEF IInv
<1> DEFINE id == input[r].cookie
           live == \E s \in sessions : s.id = id /\ Live(s)
<1>1. /\ pc[r] = "get_session"
      /\ \E place \in {"get_session_user", "exit"} :
            pc' = [pc EXCEPT ![r] = place]
      /\ \A q \in Requests \ {r} : result'[q] = result[q]
      /\ seenLive' = [seenLive EXCEPT ![r] = live]
      /\ UNCHANGED <<users, identities, sessions, input, durable>>
  BY <1>t DEF GetSession, At, Goto, Raise, tables, request, TypeOK
<1>2. ~seenLive[r] /\ input[r].op \in {"inspect", "logout"} /\ r \notin durable
  BY <1>1 DEF IInv, CallInv, CallOK, ResolveSteps, DurableInv
<1>3. CASE ~live
  <2>1. seenLive' = seenLive
    BY <1>1, <1>2, <1>3, <1>t DEF TypeOK
  <2> QED
    BY <1>1, <1>t, <2>1, StaysInside
<1>4. CASE live
  <2>1. id \in Requests /\ States[id] = "live"
    BY <1>4, <1>t DEF States, SessionState, TypeOK, SessionRow
  <2>2. States' = States /\ Written' = Written
    BY <1>1, SameStates DEF Written
  <2>3. Answer' = Answer /\ Answer[r] = "waiting"
    BY <1>1, <1>t DEF Answer, TypeOK
  <2>4. seenLive' = [seenLive EXCEPT ![r] = TRUE]
    BY <1>1, <1>4
  <2>5. Lifecycle!Pending(r)
    BY <1>2, <2>3 DEF Lifecycle!Pending, Written
  <2> HIDE DEF live
  <2> QED
    BY <1>1, <1>2, <2>1, <2>2, <2>3, <2>4, <2>5 DEF Lifecycle!Observe
<1> QED
  BY <1>3, <1>4

\* A caller gets an answer that the abstract service may give.
LEMMA ReplyStep ==
    ASSUME IInv, NEW r \in Requests, NEW a \in Lifecycle!Answers,
           Lifecycle!May(r, a), pc[r] \notin {"idle", "done"},
           pc' = [pc EXCEPT ![r] = "done"], result'[r] = a,
           \A q \in Requests \ {r} : result'[q] = result[q],
           UNCHANGED <<users, identities, sessions, input, durable, seenLive>>
    PROVE  Lifecycle!Reply(r)
<1>t. TypeOK
  BY DEF IInv
<1>1. input[r].op # "none"
  BY DEF IInv, CallInv, CallOK
<1>2. Answer[r] = "waiting" /\ Answer' = [Answer EXCEPT ![r] = a]
  BY <1>t DEF Answer, TypeOK
<1>3. States' = States /\ Written' = Written
  BY SameStates DEF Written
<1> QED
  BY <1>1, <1>2, <1>3 DEF Lifecycle!Reply

\* The unit of work is closed, and the outcome of its block is the answer, or
\* psycopg's error is, or a logout goes on.
LEMMA ExitStep ==
    ASSUME IInv, NEW r \in Requests, Exit(r)
    PROVE  Lifecycle!Reply(r) \/ UNCHANGED Lifecycle!vars
<1>t. TypeOK
  BY DEF IInv
<1>1. /\ pc[r] = "exit"
      /\ UNCHANGED <<users, identities, sessions, input, durable, seenLive>>
  BY DEF Exit, tables, request
<1>2. CASE conn[r] = "lost" /\ ~Committed(r)
  <2>1. pc' = [pc EXCEPT ![r] = "done"]
        /\ result' = [result EXCEPT ![r] = "OperationalError"]
    BY <1>2 DEF Exit, Goto
  <2>2. result'[r] = "OperationalError"
        /\ \A q \in Requests \ {r} : result'[q] = result[q]
    BY <2>1, <1>t DEF TypeOK
  <2>3. "OperationalError" \in Lifecycle!Answers
        /\ Lifecycle!May(r, "OperationalError")
    BY DEF Lifecycle!Answers, Lifecycle!May
  <2> QED
    BY <1>1, <2>1, <2>2, <2>3, ReplyStep
<1>3. CASE /\ ~(conn[r] = "lost" /\ ~Committed(r))
           /\ result[r] = "Authenticated" /\ input[r].op = "logout"
  <2>1. pc' = [pc EXCEPT ![r] = "revoke"] /\ result' = result
    BY <1>3 DEF Exit, Goto
  <2> QED
    BY <1>1, <1>t, <2>1, StaysInside
<1>4. CASE /\ ~(conn[r] = "lost" /\ ~Committed(r))
           /\ ~(result[r] = "Authenticated" /\ input[r].op = "logout")
  <2> DEFINE a == result[r]
  <2>1. pc' = [pc EXCEPT ![r] = "done"] /\ result' = result
    BY <1>4 DEF Exit, Goto
  <2>2. /\ a \in Returned \cup Raised
        /\ a \notin {"InvalidCsrfToken", "ValueError", "IdentityRecordNotFound"}
    BY <1>1, <1>t DEF IInv, CallInv, CallOK, TypeOK
  <2>3. /\ a \in {"InvalidSession", "Authenticated"} =>
              input[r].op \in {"inspect", "logout"}
        /\ a = "Established" => input[r].op = "login"
        /\ a = "Revoked" => input[r].op = "logout"
        /\ a = "Authenticated" => seenLive[r]
        /\ a \in {"Established", "Revoked"} => r \in durable
        /\ r \in durable => a \in {"Established", "Revoked", "OperationalError"}
    BY <1>1 DEF IInv, CallInv, CallOK, ControlInv, ControlOK,
       AuthenticatedWasLive, OutcomeMatchesCommit, AnswerIsTrue, Committed
  <2>4. Written[r] = (r \in durable)
    BY DEF Written
  <2>5. a \in Lifecycle!Answers
    BY <2>2 DEF Returned, Raised, Lifecycle!Answers
  <2>6. input[r].op = "logout" => a # "Authenticated"
    BY <1>4
  <2> HIDE DEF a
  <2>7. Lifecycle!May(r, a)
    BY <2>2, <2>3, <2>4, <2>6 DEF Returned, Raised, Lifecycle!May
  <2>8. result'[r] = a
    BY <2>1 DEF a
  <2> QED
    BY <1>1, <2>1, <2>5, <2>7, <2>8, ReplyStep
<1> QED
  BY <1>2, <1>3, <1>4

\* A logout is refused, though it has seen its session.
LEMMA RefuseStep ==
    ASSUME IInv, NEW r \in Requests, RefuseCsrf(r) \/ RefuseRevokedAt(r)
    PROVE  Lifecycle!Reply(r)
<1>t. TypeOK
  BY DEF IInv
<1>1. PICK a \in {"InvalidCsrfToken", "ValueError"} :
         Refuse(r, a) /\ (a = "InvalidCsrfToken" <=> ~CsrfMatches(r))
  BY DEF RefuseCsrf, RefuseRevokedAt
<1>2. /\ pc[r] = "revoke" /\ pc' = [pc EXCEPT ![r] = "done"]
      /\ result' = [result EXCEPT ![r] = a]
      /\ UNCHANGED <<users, identities, sessions, input, durable, seenLive>>
  BY <1>1 DEF Refuse, Goto, tables, request
<1>3. input[r].op = "logout" /\ seenLive[r] /\ r \notin durable
  BY <1>2 DEF IInv, ControlInv, ControlOK, RevokeSteps, AuthenticatedWasLive,
     DurableInv
<1>4. CsrfMatches(r) <=> input[r].csrf = input[r].cookie
  <2>1. HeldSessionOK(r)
    BY <1>2 DEF IInv, ResolveInv, HoldsSession, RevokeSteps
  <2>2. PICK n \in session[r] : session[r] = {n}
    BY <2>1 DEF HeldSessionOK
  <2>3. PICK s \in sessions : SameButRevocation(n, s)
    BY <2>1 DEF HeldSessionOK
  <2>4. n.csrf_verifier = input[r].cookie
    BY <1>t, <2>1, <2>3, SameRow DEF HeldSessionOK, IInv, CsrfInv, TypeOK
  <2> QED
    BY <2>2, <2>4 DEF CsrfMatches
<1>5. a \in Lifecycle!Answers /\ Lifecycle!May(r, a)
  BY <1>1, <1>3, <1>4 DEF Lifecycle!Answers, Lifecycle!May, Written
<1>6. result'[r] = a /\ \A q \in Requests \ {r} : result'[q] = result[q]
  BY <1>2, <1>t DEF TypeOK
<1> QED
  BY <1>2, <1>5, <1>6, ReplyStep

\* A logout goes on to its second unit of work, or cannot connect.
LEMMA RevokeStep ==
    ASSUME IInv, NEW r \in Requests, Revoke(r)
    PROVE  Lifecycle!Reply(r) \/ UNCHANGED Lifecycle!vars
<1>t. TypeOK
  BY DEF IInv
<1> DEFINE a == "IdentityPersistenceError"
<1>1. /\ pc[r] = "revoke"
      /\ UNCHANGED <<users, identities, sessions, input, durable, seenLive>>
  BY DEF Revoke, tables, request
<1>2. CASE pc' = [pc EXCEPT ![r] = "update_session"] /\ result' = result
  BY <1>1, <1>2, <1>t, StaysInside
<1>3. CASE pc' = [pc EXCEPT ![r] = "done"] /\ result' = [result EXCEPT ![r] = a]
  <2>1. result'[r] = a /\ \A q \in Requests \ {r} : result'[q] = result[q]
    BY <1>3, <1>t DEF TypeOK
  <2>2. r \notin durable
    BY <1>1 DEF IInv, DurableInv
  <2>3. a \in Lifecycle!Answers /\ Lifecycle!May(r, a)
    BY <2>2 DEF Lifecycle!Answers, Lifecycle!May, Written
  <2> QED
    BY <1>1, <1>3, <2>1, <2>3, ReplyStep
<1> QED
  BY <1>2, <1>3 DEF Revoke, Enter, Goto

\* The process stops.
LEMMA CrashStep ==
    ASSUME IInv, Restart
    PROVE  Lifecycle!Crash
<1>1. UNCHANGED <<users, identities, sessions, input, durable, seenLive>>
  BY DEF Restart, tables, request
<1>2. States' = States /\ Written' = Written
  BY <1>1, SameStates DEF Written
<1>3. ASSUME NEW q \in Requests
      PROVE  Answer'[q] = IF input[q].op # "none" /\ Answer[q] = "waiting"
                            THEN "Crashed" ELSE Answer[q]
  <2>1. pc[q] = "idle" <=> input[q].op = "none"
    BY DEF IInv, CallInv, CallOK
  <2>2. result[q] # "waiting"
    BY DEF IInv, TypeOK, Returned, Raised
  <2> QED
    BY <2>1, <2>2 DEF Answer, Restart, InFlight
<1>4. Answer' = [q \in Requests |->
                   IF input[q].op # "none" /\ Answer[q] = "waiting"
                     THEN "Crashed" ELSE Answer[q]]
  BY <1>3 DEF Answer
<1> QED
  BY <1>1, <1>2, <1>4 DEF Lifecycle!Crash

-----------------------------------------------------------------------------
(* Refinement *)

\* Every step of the service is one that SessionLifecycle allows, or none.
LEMMA StepRefines ==
    IInv /\ [Next]_vars => [Lifecycle!Next]_(Lifecycle!vars)
<1> SUFFICES ASSUME IInv, [Next]_vars
             PROVE  [Lifecycle!Next]_(Lifecycle!vars)
  OBVIOUS
<1>t. TypeOK
  BY DEF IInv
<1> USE DEF Lifecycle!Next, Lifecycle!Serve
<1>1. ASSUME NEW r \in Requests, Begin(r) PROVE Lifecycle!Next
  <2>1. Lifecycle!Issued = Issued
    BY <1>t DEF Lifecycle!Issued, Issued, Answer
  <2>2. NoToken \in Issued
    BY DEF Issued
  <2>a. ASSUME NEW op, NEW cookie, NEW csrf, Lifecycle!Ask(r, op, cookie, csrf)
        PROVE  r \in Lifecycle!New
    BY <2>a DEF Lifecycle!Ask
  <2>3. CASE StartLogin(r)
    <3>1. Lifecycle!Ask(r, "login", NoToken, NoToken)
      BY <2>3, AskStep DEF StartLogin
    <3> QED
      BY <2>1, <2>2, <2>a, <3>1
  <2>4. CASE StartInspect(r)
    <3>1. PICK cookie \in Issued : Lifecycle!Ask(r, "inspect", cookie, NoToken)
      BY <2>4, AskStep DEF StartInspect
    <3> QED
      BY <2>1, <2>2, <2>a, <3>1
  <2>5. CASE StartLogout(r)
    <3>1. PICK cookie, csrf \in Issued : Lifecycle!Ask(r, "logout", cookie, csrf)
      BY <2>5, AskStep DEF StartLogout
    <3> QED
      BY <2>1, <2>a, <3>1
  <2> QED
    BY <1>1, <2>3, <2>4, <2>5 DEF Begin
<1>2. ASSUME NEW r \in Requests, Serve(r)
      PROVE  [Lifecycle!Next]_(Lifecycle!vars)
  <2> USE DEF At, Goto, Raise, tables, request, locals
  <2>1. CASE \/ GetExternalIdentity(r) \/ AddUser(r) \/ AddExternalIdentity(r)
             \/ GetUser(r) \/ AddSession(r)
    <3>1. /\ \E place \in Statements \cup {"exit", "commit"} :
                pc' = [pc EXCEPT ![r] = place]
          /\ pc[r] # "done"
          /\ \A q \in Requests \ {r} : result'[q] = result[q]
          /\ UNCHANGED <<users, identities, sessions, input, seenLive, durable>>
      BY <2>1, <1>t DEF GetExternalIdentity, AddUser, AddExternalIdentity,
         GetUser, AddSession, Statements, TypeOK
    <3> QED
      BY <3>1, <1>t, StaysInside DEF Statements
  <2>2. CASE \/ GetSessionUser(r) \/ GetSessionIdentity(r) \/ UpdateSession(r)
             \/ StatementFails(r) \/ CommitRefused(r)
    <3>1. /\ \E place \in Statements \cup {"exit", "commit"} :
                pc' = [pc EXCEPT ![r] = place]
          /\ pc[r] # "done"
          /\ \A q \in Requests \ {r} : result'[q] = result[q]
          /\ UNCHANGED <<users, identities, sessions, input, seenLive, durable>>
      BY <2>2, <1>t DEF GetSessionUser, GetSessionIdentity, UpdateSession,
         StatementFails, CommitRefused, Statements, TypeOK
    <3> QED
      BY <3>1, <1>t, StaysInside DEF Statements
  <2>3. CASE CommitSucceeds(r)
    BY <2>3, OpenStep, CloseStep DEF CommitSucceeds, Commits
  <2>8. CASE CommitLost(r)
    <3>1. /\ pc[r] = "commit"
          /\ pc' = [pc EXCEPT ![r] = "exit"]
          /\ \A q \in Requests \ {r} : result'[q] = result[q]
          /\ UNCHANGED <<users, identities, sessions, input, seenLive, durable>>
      BY <2>8, <1>t DEF CommitLost, TypeOK
    <3> QED
      BY <3>1, <1>t, StaysInside
  <2>4. CASE GetSession(r)
    BY <2>4, ObserveStep
  <2>5. CASE Exit(r)
    BY <2>5, ExitStep
  <2>6. CASE RefuseCsrf(r) \/ RefuseRevokedAt(r)
    BY <2>6, RefuseStep
  <2>7. CASE Revoke(r)
    BY <2>7, RevokeStep
  <2> QED
    BY <1>2, <2>1, <2>2, <2>3, <2>4, <2>5, <2>6, <2>7, <2>8 DEF Serve
<1>3. CASE \/ \E r \in Requests : LoseConnection(r) \/ Reap(r)
           \/ Tick \/ StepBack \/ Finished \/ UNCHANGED vars
  <2>1. UNCHANGED <<users, identities, sessions, input, seenLive, durable, pc,
                    result>>
    BY <1>3 DEF LoseConnection, Reap, Tick, StepBack, Finished, vars, tables,
       request
  <2> QED
    BY <2>1, Unnoticed
<1>4. CASE Restart
  BY <1>4, CrashStep
<1>5. CASE DisableUser \/ DisableIdentity
  BY <1>5, DisableStep
<1>6. ASSUME NEW r \in Requests, LateCommit(r) PROVE Lifecycle!Next
  BY <1>6, OpenStep, CloseStep DEF LateCommit, Commits
<1> QED
  BY <1>1, <1>2, <1>3, <1>4, <1>5, <1>6 DEF Next

\* The service starts with no session and no call.
LEMMA InitRefines == Init => Lifecycle!Init
<1> SUFFICES ASSUME Init PROVE Lifecycle!Init
  OBVIOUS
<1>1. States = [s \in Requests |-> "none"]
  BY DEF Init, States, SessionState
<1>2. Written = [r \in Requests |-> FALSE]
  <2>1. ASSUME NEW r \in Requests PROVE (r \in durable) = FALSE
    BY DEF Init
  <2> QED
    BY <2>1, Zenon DEF Written
<1>3. Answer = [r \in Requests |-> "waiting"]
  BY DEF Init, Answer
<1> QED
  BY <1>1, <1>2, <1>3 DEF Init, Lifecycle!Init, NoRequest, Lifecycle!NoRequest

\* Statement by statement, with its failures and restarts, the service is the
\* one that its callers see: each call observes and takes effect at one moment.
THEOREM Refinement == Spec => ServesLifecycle
<1>1. Spec => []IInv
  BY InductiveInvariant
<1> QED
  BY <1>1, InitRefines, StepRefines, PTL
  DEF Spec, ServesLifecycle, Lifecycle!Spec
===============================================================================
