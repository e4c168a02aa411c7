---------------------- MODULE TrustedLocalSessionsProofs ----------------------
(***************************************************************************)
(* Proofs about TrustedLocalSessions for every number of requests and      *)
(* subjects, every pair of lifetimes the service accepts, and every bound  *)
(* on the clock and on the failures.                                       *)
(*                                                                         *)
(* IInv is inductive.  Each of its conjuncts has a lemma that every step   *)
(* keeps it; the lemmas rest on a few facts about steps:                   *)
(*   DataSteps, TableSteps  which steps touch a transaction or a table,    *)
(*   Persist                rows stay and only lose rights,                *)
(*   InputSteps, OwnSteps   a request's variables change by its own steps. *)
(* The theorems at the end read the promises off IInv.                     *)
(***************************************************************************)
EXTENDS TrustedLocalSessionsInvariant, TLAPS

-----------------------------------------------------------------------------
(* Types *)

\* The user row that _create_trusted_identity builds has its type.
LEMMA NewUserType == \A r \in Requests : NewUser(r) \in UserRow
  BY DEF NewUser, UserRow

\* So has the identity row,
LEMMA NewIdentityType ==
    trusted \in Subjects => \A r \in Requests : NewIdentity(r) \in IdentityRow
  BY DEF NewIdentity, IdentityRow

\* the session row that establish builds,
LEMMA NewSessionType ==
    \A r \in Requests, u \in UserRow, i \in IdentityRow, t \in Times :
        NewSession(r, u, i, t) \in SessionRow
  BY LifetimesAssumption, ConstantsAssumption
     DEF NewSession, SessionRow, UserRow, IdentityRow, Times

\* the row that ApplicationSession.revoke returns,
LEMMA RevokedSessionType ==
    \A s \in SessionRow, t \in Times : RevokedSession(s, t) \in SessionRow
  BY DEF RevokedSession, SessionRow

\* and the row version that update_session writes.
LEMMA UpdatedRowType ==
    \A s, n \in SessionRow : UpdatedRow(s, n) \in SessionRow
  BY DEF UpdatedRow, SessionRow

\* A failure counts within its bound.
LEMMA FaultType == faults \in 0 .. MaxFaults /\ Fault => faults' \in 0 .. MaxFaults
  BY ConstantsAssumption DEF Fault

\* Opening a connection, or failing to, keeps the types it touches.
LEMMA EnterType ==
    ASSUME TypeOK, NEW r \in Requests, NEW first \in Statements, Enter(r, first)
    PROVE  /\ conn' \in [Requests -> {"closed", "open", "lost"}]
           /\ pc' \in [Requests -> Statements
                            \cup {"idle", "exit", "revoke", "commit", "done"}]
           /\ result' \in [Requests ->
                            Returned \cup Raised \cup {"Pending", "Crashed"}]
           /\ faults' \in 0 .. MaxFaults
<1>1. CASE conn' = [conn EXCEPT ![r] = "open"] /\ Goto(r, first)
                /\ UNCHANGED <<result, faults>>
  BY <1>1 DEF TypeOK, Goto
<1>2. CASE Fault /\ Goto(r, "done") /\ UNCHANGED conn
                /\ result' = [result EXCEPT ![r] = "IdentityPersistenceError"]
  BY <1>2, FaultType DEF TypeOK, Goto, Raised
<1> QED
  BY <1>1, <1>2 DEF Enter

\* The arrival of a call keeps every type.
LEMMA StartType ==
    ASSUME TypeOK, NEW r \in Requests, NEW op \in {"login", "inspect", "logout"},
           NEW cookie \in Tokens, NEW csrf \in Tokens, NEW first \in Statements,
           Start(r, op, cookie, csrf, first)
    PROVE  TypeOK'
<1>1. /\ input' \in [Requests -> [op : {"none", "login", "inspect", "logout"},
                                  cookie : Tokens, csrf : Tokens]]
      /\ time' \in [Requests -> Times]
  BY DEF TypeOK, Start
<1>2. Enter(r, first) /\ UNCHANGED <<tables, tx, clock, locals, durable, seenLive>>
  BY DEF Start
<1> QED
  BY <1>1, <1>2, EnterType DEF TypeOK, tables, tx, clock, locals

\* What add_external_identity and add_session do: the INSERT, or a conflict that
\* aborts the transaction.
Inserts(r) ==
    /\ AddExternalIdentity(r)
    /\ TrustedIdentity = {}
    /\ newIdentities' = [newIdentities EXCEPT ![r] = identity[r]]
    /\ Goto(r, "add_session")
    /\ UNCHANGED <<newUsers, newSessions, sent, result>>

Created(r) == {NewSession(r, u, i, time[r]) : u \in user[r], i \in identity[r]}

Stores(r) ==
    /\ AddSession(r)
    /\ session' = [session EXCEPT ![r] = Created(r)]
    /\ newSessions' = [newSessions EXCEPT ![r] = Created(r)]
    /\ Goto(r, "commit")
    /\ UNCHANGED <<newUsers, newIdentities, sent, result>>

Conflicts(r) ==
    /\ Rollback(r)
    /\ Raise(r, "IdentityPersistenceConflict")
    /\ UNCHANGED <<tables, durable>>

\* They do one or the other.
LEMMA InsertOutcomes ==
    ASSUME NEW r \in Requests
    PROVE  /\ AddExternalIdentity(r) => Inserts(r) \/ Conflicts(r)
           /\ AddSession(r) => Stores(r) \/ Conflicts(r)
  BY DEF AddExternalIdentity, AddSession, Inserts, Stores, Conflicts, Created

\* Every step of the system keeps every variable in its type.
LEMMA TypeStep == TypeOK /\ [Next]_vars => TypeOK'
<1> SUFFICES ASSUME TypeOK, [Next]_vars PROVE TypeOK'
  OBVIOUS
<1> USE ConstantsAssumption
<1> USE DEF TypeOK, Times, Tokens, Statements, Returned, Raised,
        tables, tx, locals, clock, request, Goto, Raise, At
<1>1. ASSUME NEW r \in Requests, StartLogin(r) PROVE TypeOK'
  BY <1>1, StartType DEF StartLogin
<1>2. ASSUME NEW r \in Requests, StartInspect(r) PROVE TypeOK'
  BY <1>2, StartType DEF StartInspect, Issued
<1>3. ASSUME NEW r \in Requests, StartLogout(r) PROVE TypeOK'
  BY <1>3, StartType DEF StartLogout, Issued
<1>4. ASSUME NEW r \in Requests, GetExternalIdentity(r) PROVE TypeOK'
  BY <1>4 DEF GetExternalIdentity, TrustedIdentity
<1>5. ASSUME NEW r \in Requests, AddUser(r) PROVE TypeOK'
  BY <1>5, NewUserType, NewIdentityType DEF AddUser
<1>6. ASSUME NEW r \in Requests, AddExternalIdentity(r) PROVE TypeOK'
  <2>0. UNCHANGED <<tables, conn, clock, faults, request, locals, durable,
                    seenLive>>
    BY <1>6 DEF AddExternalIdentity
  <2>1. CASE Inserts(r)
    <3>1. identity[r] \in SUBSET IdentityRow
      OBVIOUS
    <3> QED
      BY <2>0, <2>1, <3>1 DEF Inserts
  <2>2. CASE Conflicts(r)
    BY <2>0, <2>2 DEF Conflicts, Rollback
  <2> QED
    BY <1>6, <2>1, <2>2, InsertOutcomes
<1>7. ASSUME NEW r \in Requests, GetUser(r) PROVE TypeOK'
  BY <1>7 DEF GetUser
<1>8. ASSUME NEW r \in Requests, AddSession(r) PROVE TypeOK'
  <2>0. /\ UNCHANGED <<tables, conn, clock, faults, request, identity, user,
                       durable, seenLive>>
        /\ session' = [session EXCEPT ![r] = Created(r)]
    BY <1>8 DEF AddSession, Created
  <2>1. Created(r) \subseteq SessionRow
    BY NewSessionType DEF Created
  <2>2. CASE Stores(r)
    BY <2>0, <2>1, <2>2 DEF Stores
  <2>3. CASE Conflicts(r)
    BY <2>0, <2>1, <2>3 DEF Conflicts, Rollback
  <2> QED
    BY <1>8, <2>2, <2>3, InsertOutcomes
<1>9. ASSUME NEW r \in Requests, GetSession(r) PROVE TypeOK'
  BY <1>9 DEF GetSession
<1>10. ASSUME NEW r \in Requests, GetSessionUser(r) PROVE TypeOK'
  BY <1>10 DEF GetSessionUser
<1>11. ASSUME NEW r \in Requests, GetSessionIdentity(r) PROVE TypeOK'
  BY <1>11 DEF GetSessionIdentity, TrustedIdentity
<1>12. ASSUME NEW r \in Requests, RefuseCsrf(r) PROVE TypeOK'
  BY <1>12 DEF RefuseCsrf, Refuse
<1>13. ASSUME NEW r \in Requests, RefuseRevokedAt(r) PROVE TypeOK'
  BY <1>13 DEF RefuseRevokedAt, Refuse
<1>14. ASSUME NEW r \in Requests, Revoke(r) PROVE TypeOK'
  BY <1>14, RevokedSessionType, EnterType DEF Revoke
<1>15. ASSUME NEW r \in Requests, UpdateSession(r) PROVE TypeOK'
  BY <1>15, UpdatedRowType DEF UpdateSession
<1>16. ASSUME NEW r \in Requests, CommitSucceeds(r) PROVE TypeOK'
  BY <1>16 DEF CommitSucceeds, Apply, Rollback
<1>17. ASSUME NEW r \in Requests, CommitRefused(r) PROVE TypeOK'
  BY <1>17, FaultType DEF CommitRefused, Rollback
<1>18. ASSUME NEW r \in Requests, CommitLost(r) PROVE TypeOK'
  BY <1>18, FaultType DEF CommitLost
<1>19. ASSUME NEW r \in Requests, StatementFails(r) PROVE TypeOK'
  BY <1>19, FaultType DEF StatementFails, Rollback
<1>20. ASSUME NEW r \in Requests, Exit(r) PROVE TypeOK'
  BY <1>20 DEF Exit, Rollback
<1>21. ASSUME NEW r \in Requests, LoseConnection(r) PROVE TypeOK'
  BY <1>21 DEF LoseConnection, Fault
<1>22. ASSUME NEW r \in Requests, Reap(r) PROVE TypeOK'
  BY <1>22 DEF Reap, Rollback
<1>23. CASE Restart
  BY <1>23 DEF Restart, Fault
<1>24. CASE DisableUser
  BY <1>24 DEF DisableUser, UserRow
<1>25. CASE DisableIdentity
  BY <1>25 DEF DisableIdentity, IdentityRow
<1>26. CASE Tick
  BY <1>26 DEF Tick
<1>27. CASE StepBack
  BY <1>27 DEF StepBack, Fault
<1>28. CASE UNCHANGED vars
  BY <1>28 DEF vars
<1>29. ASSUME NEW r \in Requests, LateCommit(r) PROVE TypeOK'
  BY <1>29 DEF LateCommit, Apply, Rollback
<1> QED
  BY <1>1, <1>2, <1>3, <1>4, <1>5, <1>6, <1>7, <1>8, <1>9, <1>10, <1>11, <1>12,
     <1>13, <1>14, <1>15, <1>16, <1>17, <1>18, <1>19, <1>20, <1>21, <1>22,
     <1>23, <1>24, <1>25, <1>26, <1>27, <1>28, <1>29
     DEF Next, Begin, Serve, Finished

-----------------------------------------------------------------------------
(* What a step can do to the database. *)

\* The transaction of r commits: its own COMMIT, or one that runs late.
Commits(r) == Apply(r) /\ (CommitSucceeds(r) \/ LateCommit(r))

\* The row versions of the open transactions.
data == <<newUsers, newIdentities, newSessions>>

\* Every step leaves tables and transactions alone, or rolls one back, or is one
\* of the few that write.
LEMMA DataSteps ==
    ASSUME [Next]_vars
    PROVE  \/ UNCHANGED <<tables, durable, data>>
           \/ \E r \in Requests : Rollback(r) /\ UNCHANGED <<tables, durable>>
           \/ \E r \in Requests : AddUser(r)
           \/ \E r \in Requests : Inserts(r)
           \/ \E r \in Requests : Stores(r)
           \/ \E r \in Requests : UpdateSession(r)
           \/ \E r \in Requests : Commits(r)
           \/ DisableUser
           \/ DisableIdentity
<1> USE DEF tables, data
<1>1. ASSUME NEW r \in Requests, Begin(r) PROVE UNCHANGED <<tables, durable, data>>
  BY <1>1 DEF tx, Begin, StartLogin, StartInspect, StartLogout, Start
<1>2. ASSUME NEW r \in Requests,
             \/ GetExternalIdentity(r) \/ GetUser(r) \/ GetSession(r)
             \/ GetSessionUser(r) \/ GetSessionIdentity(r)
             \/ RefuseCsrf(r) \/ RefuseRevokedAt(r) \/ Revoke(r)
             \/ LoseConnection(r)
      PROVE  UNCHANGED <<tables, durable, data>>
  BY <1>2 DEF tx, GetExternalIdentity, GetUser, GetSession, GetSessionUser,
       GetSessionIdentity, RefuseCsrf, RefuseRevokedAt, Refuse, Revoke,
       LoseConnection
<1>3. ASSUME NEW r \in Requests, CommitRefused(r) \/ Reap(r)
      PROVE  Rollback(r) /\ UNCHANGED <<tables, durable>>
  BY <1>3 DEF CommitRefused, Reap
<1>4. ASSUME NEW r \in Requests, StatementFails(r) \/ Exit(r)
      PROVE  \/ UNCHANGED <<tables, durable, data>>
             \/ Rollback(r) /\ UNCHANGED <<tables, durable>>
  BY <1>4 DEF tx, StatementFails, Exit
<1>5. ASSUME NEW r \in Requests, AddExternalIdentity(r) \/ AddSession(r)
      PROVE  \/ Rollback(r) /\ UNCHANGED <<tables, durable>>
             \/ Inserts(r) \/ Stores(r)
  BY <1>5, InsertOutcomes DEF Conflicts
<1>6. ASSUME NEW r \in Requests, CommitSucceeds(r) \/ LateCommit(r)
      PROVE  Commits(r)
  BY <1>6 DEF CommitSucceeds, LateCommit, Commits
<1>7. \/ Restart \/ Tick \/ StepBack \/ Finished \/ UNCHANGED vars
      \/ \E r \in Requests : CommitLost(r)
      => UNCHANGED <<tables, durable, data>>
  BY DEF CommitLost, Restart, Tick, StepBack, Finished, vars, tx
<1> QED
  BY <1>1, <1>2, <1>3, <1>4, <1>5, <1>6, <1>7 DEF Next, Serve

\* A committed table changes by a commit or by an operator only.
LEMMA TableSteps ==
    ASSUME [Next]_vars
    PROVE  \/ UNCHANGED <<users, identities, sessions, durable>>
           \/ \E r \in Requests : Commits(r)
           \/ /\ DisableUser
              /\ UNCHANGED <<identities, sessions, durable>>
           \/ /\ DisableIdentity
              /\ UNCHANGED <<users, sessions, durable>>
<1>1. ASSUME NEW r \in Requests,
             AddUser(r) \/ Inserts(r) \/ Stores(r) \/ UpdateSession(r)
      PROVE  UNCHANGED <<users, identities, sessions, durable>>
  BY <1>1 DEF AddUser, Inserts, AddExternalIdentity, Stores, AddSession,
     UpdateSession, tables
<1>2. UNCHANGED tables => UNCHANGED <<users, identities, sessions>>
  BY DEF tables
<1>3. /\ DisableUser => UNCHANGED <<identities, sessions, durable>>
      /\ DisableIdentity => UNCHANGED <<users, sessions, durable>>
  BY DEF DisableUser, DisableIdentity
<1> QED
  BY <1>1, <1>2, <1>3, DataSteps

\* Two rows of a session that differ in revoked_at at most.
LEMMA SameRow ==
    ASSUME NEW n \in SessionRow, NEW s \in SessionRow, SameButRevocation(n, s)
    PROVE  /\ n.id = s.id /\ n.user = s.user /\ n.identity = s.identity
           /\ n.csrf_verifier = s.csrf_verifier
           /\ n.created_at = s.created_at
           /\ n.idle_expires_at = s.idle_expires_at
           /\ n.absolute_expires_at = s.absolute_expires_at
           /\ SameButRevocation(s, n)
  BY DEF SameButRevocation, SessionRow

\* Differing in revoked_at at most is transitive.
LEMMA SameRowTrans ==
    ASSUME NEW n \in SessionRow, NEW s \in SessionRow, NEW m \in SessionRow,
           SameButRevocation(n, s), SameButRevocation(s, m)
    PROVE  SameButRevocation(n, m)
  BY DEF SameButRevocation, SessionRow

\* Nobody commits twice.
LEMMA CommitsOnce ==
    ASSUME IInv, NEW r \in Requests, Commits(r)
    PROVE  Committing(r) /\ Apply(r) /\ r \notin durable /\ pc[r] # "idle"
<1>1. Committing(r)
  BY DEF Commits, CommitSucceeds, LateCommit, Committing
<1>2. newSessions[r] # {}
  BY <1>1 DEF IInv, CommitInv, CommitOK
<1>3. pc[r] # "idle"
  BY <1>1 DEF Committing, At, IInv, SentInv
<1> QED
  BY <1>1, <1>2, <1>3 DEF Commits, IInv, DurableInv, NoWrites

\* A row r commits over a committed session row is its revoked version.
LEMMA CommittedVersion ==
    ASSUME IInv, NEW r \in Requests, Commits(r),
           NEW n \in newSessions[r], NEW s \in sessions, n.id = s.id
    PROVE  SameButRevocation(n, s) /\ n.revoked_at # None
<1>1. r \notin durable
  BY CommitsOnce
<1>2. s.id \in durable
  BY DEF IInv, KeysInv
<1>3. PICK m \in sessions : SameButRevocation(n, m) /\ n.revoked_at # None
  BY <1>1, <1>2 DEF IInv, NewVersionsInv, VersionOK
<1>4. n \in SessionRow /\ m \in SessionRow
  BY DEF IInv, TypeOK
<1>5. n.id = m.id
  BY <1>3, <1>4, SameRow
<1>6. m = s
  BY <1>5 DEF IInv, KeysInv
<1> QED
  BY <1>3, <1>6

\* What an operator's UPDATE does to a table.
LEMMA DisabledUser ==
    ASSUME TypeOK, DisableUser
    PROVE  \E u \in users, d \in UserRow :
              /\ users' = (users \ {u}) \cup {d}
              /\ d.id = u.id /\ d.status = "DISABLED"
<1>1. PICK u \in users :
         users' = (users \ {u}) \cup {[u EXCEPT !.status = "DISABLED"]}
  BY DEF DisableUser
<1>2. PICK d : d = [u EXCEPT !.status = "DISABLED"]
  OBVIOUS
<1>3. d \in UserRow /\ d.id = u.id /\ d.status = "DISABLED"
  BY <1>2 DEF TypeOK, UserRow
<1>4. users' = (users \ {u}) \cup {d}
  BY <1>1, <1>2
<1> QED
  BY <1>3, <1>4

\* The same for iam.external_identities.
LEMMA DisabledIdentity ==
    ASSUME TypeOK, DisableIdentity
    PROVE  \E i \in identities, d \in IdentityRow :
              /\ identities' = (identities \ {i}) \cup {d}
              /\ d.id = i.id /\ d.user = i.user /\ d.subject = i.subject
              /\ ~d.enabled
<1>1. PICK i \in identities :
         identities' = (identities \ {i}) \cup {[i EXCEPT !.enabled = FALSE]}
  BY DEF DisableIdentity
<1>2. PICK d : d = [i EXCEPT !.enabled = FALSE]
  OBVIOUS
<1>3. /\ d \in IdentityRow
      /\ d.id = i.id /\ d.user = i.user /\ d.subject = i.subject
      /\ ~d.enabled
  BY <1>2 DEF TypeOK, IdentityRow
<1>4. identities' = (identities \ {i}) \cup {d}
  BY <1>1, <1>2
<1> QED
  BY <1>3, <1>4

\* The past of the tables: rows stay, keep their keys, and only lose rights.
LEMMA Persist ==
    ASSUME IInv, [Next]_vars
    PROVE  /\ durable \subseteq durable'
           /\ \A i \in identities : \E j \in identities' :
                j.id = i.id /\ j.user = i.user /\ j.subject = i.subject
           /\ \A i \in identities, j \in identities' :
                j.id = i.id => /\ j.user = i.user /\ j.subject = i.subject
                               /\ j.enabled => i.enabled
           /\ \A u \in users : \E v \in users' : v.id = u.id
           /\ \A u \in users, v \in users' :
                v.id = u.id => (v.status = "ACTIVE" => u.status = "ACTIVE")
           /\ \A s \in sessions : \E n \in sessions' :
                /\ SameButRevocation(n, s)
                /\ s.revoked_at # None => n.revoked_at # None
<1>t. TypeOK
  BY DEF IInv
<1>same. \A s \in SessionRow : SameButRevocation(s, s)
  BY DEF SameButRevocation, SessionRow
<1>1. CASE UNCHANGED <<users, identities, sessions, durable>>
  <2>1. \A i, j \in identities : i.id = j.id => i = j
    BY DEF IInv, KeysInv
  <2>2. \A u, v \in users : u.id = v.id => u = v
    BY DEF IInv, KeysInv
  <2> QED
    BY <1>1, <1>t, <1>same, <2>1, <2>2 DEF TypeOK
<1>2. ASSUME NEW r \in Requests, Commits(r)
      PROVE  /\ durable \subseteq durable'
             /\ \A i \in identities : i \in identities'
             /\ \A u \in users : u \in users'
             /\ \A i \in identities, j \in identities' : j.id = i.id => j = i
             /\ \A u \in users, v \in users' : v.id = u.id => v = u
             /\ \A s \in sessions : \E n \in sessions' :
                  /\ SameButRevocation(n, s)
                  /\ s.revoked_at # None => n.revoked_at # None
  <2>1. r \notin durable /\ Apply(r)
    BY <1>2, CommitsOnce
  <2>2. \A i \in identities, j \in identities' : j.id = i.id => j = i
    BY <2>1 DEF Apply, IInv, KeysInv, NewRowsInv
  <2>3. \A u \in users, v \in users' : v.id = u.id => v = u
    BY <2>1 DEF Apply, IInv, KeysInv, NewRowsInv, NewUser
  <2>4. ASSUME NEW s \in sessions
        PROVE  \E n \in sessions' :
                  /\ SameButRevocation(n, s)
                  /\ s.revoked_at # None => n.revoked_at # None
    <3>1. CASE s \in sessions'
      BY <3>1, <1>same, <1>t DEF TypeOK
    <3>2. CASE s \notin sessions'
      <4>1. PICK n \in newSessions[r] : n.id = s.id
        BY <2>1, <3>2 DEF Apply
      <4>2. n \in sessions'
        BY <2>1, <4>1 DEF Apply
      <4> QED
        BY <1>2, <4>1, <4>2, CommittedVersion
    <3> QED
      BY <3>1, <3>2
  <2> QED
    BY <2>1, <2>2, <2>3, <2>4 DEF Apply
<1>3. CASE DisableUser /\ UNCHANGED <<identities, sessions, durable>>
  <2>1. \A i, j \in identities : i.id = j.id => i = j
    BY DEF IInv, KeysInv
  <2>2. PICK u \in users, d \in UserRow :
           /\ users' = (users \ {u}) \cup {d}
           /\ d.id = u.id /\ d.status = "DISABLED"
    BY <1>3, <1>t, DisabledUser
  <2>3. \A v, w \in users : v.id = w.id => v = w
    BY DEF IInv, KeysInv
  <2> QED
    BY <1>3, <1>t, <1>same, <2>1, <2>2, <2>3 DEF TypeOK
<1>4. CASE DisableIdentity /\ UNCHANGED <<users, sessions, durable>>
  <2>1. \A u, v \in users : u.id = v.id => u = v
    BY DEF IInv, KeysInv
  <2>2. PICK i \in identities, d \in IdentityRow :
           /\ identities' = (identities \ {i}) \cup {d}
           /\ d.id = i.id /\ d.user = i.user /\ d.subject = i.subject
           /\ ~d.enabled
    BY <1>4, <1>t, DisabledIdentity
  <2>3. \A j, k \in identities : j.id = k.id => j = k
    BY DEF IInv, KeysInv
  <2>4. \A j \in identities : \E k \in identities' :
           k.id = j.id /\ k.user = j.user /\ k.subject = j.subject
    BY <2>2
  <2>5. \A j \in identities, k \in identities' : k.id = j.id =>
           k.user = j.user /\ k.subject = j.subject /\ (k.enabled => j.enabled)
    BY <2>2, <2>3
  <2> QED
    BY <1>4, <1>t, <1>same, <2>1, <2>4, <2>5 DEF TypeOK
<1> QED
  BY <1>1, <1>2, <1>3, <1>4, TableSteps

\* A request keeps its input and its clock reading once it has begun.
LEMMA InputSteps ==
    ASSUME [Next]_vars, TypeOK, NEW q \in Requests, pc[q] # "idle"
    PROVE  input'[q] = input[q] /\ time'[q] = time[q] /\ pc'[q] # "idle"
<1> USE DEF request, Goto, Raise, At, TypeOK
<1>1. ASSUME NEW r \in Requests, Begin(r)
      PROVE  input'[q] = input[q] /\ time'[q] = time[q] /\ pc'[q] # "idle"
  <2>1. pc[r] = "idle"
    BY <1>1 DEF Begin, StartLogin, StartInspect, StartLogout, Start
  <2>2. /\ input' = [input EXCEPT ![r] = input'[r]]
        /\ time' = [time EXCEPT ![r] = time'[r]]
        /\ pc' = [pc EXCEPT ![r] = pc'[r]]
    BY <1>1 DEF Begin, StartLogin, StartInspect, StartLogout, Start, Enter
  <2> QED
    BY <2>1, <2>2
<1>2. ASSUME NEW r \in Requests,
             \/ GetExternalIdentity(r) \/ AddUser(r) \/ AddExternalIdentity(r)
             \/ GetUser(r) \/ AddSession(r)
      PROVE  input'[q] = input[q] /\ time'[q] = time[q] /\ pc'[q] # "idle"
  BY <1>2 DEF GetExternalIdentity, AddUser, AddExternalIdentity, GetUser,
       AddSession
<1>3. ASSUME NEW r \in Requests,
             \/ GetSession(r) \/ GetSessionUser(r) \/ GetSessionIdentity(r)
             \/ RefuseCsrf(r) \/ RefuseRevokedAt(r) \/ Revoke(r)
             \/ UpdateSession(r)
      PROVE  input'[q] = input[q] /\ time'[q] = time[q] /\ pc'[q] # "idle"
  BY <1>3 DEF GetSession, GetSessionUser, GetSessionIdentity, RefuseCsrf,
       RefuseRevokedAt, Refuse, Revoke, Enter, UpdateSession
<1>4. ASSUME NEW r \in Requests,
             \/ CommitSucceeds(r) \/ CommitRefused(r) \/ CommitLost(r)
             \/ StatementFails(r) \/ Exit(r) \/ LoseConnection(r)
             \/ LateCommit(r) \/ Reap(r)
      PROVE  input'[q] = input[q] /\ time'[q] = time[q] /\ pc'[q] # "idle"
  BY <1>4 DEF CommitSucceeds, CommitRefused, CommitLost, StatementFails, Exit,
       LoseConnection, LateCommit, Reap
<1>5. CASE \/ Restart \/ DisableUser \/ DisableIdentity \/ Tick \/ StepBack
           \/ Finished \/ UNCHANGED vars
  BY <1>5 DEF Restart, InFlight, DisableUser, DisableIdentity, Tick, StepBack,
       Finished, vars
<1> QED
  BY <1>1, <1>2, <1>3, <1>4, <1>5 DEF Next, Serve

-----------------------------------------------------------------------------
(* The parts of the invariant that speak of the database. *)

\* A commit adds rows under keys of its own, or replaces a row under its key.
LEMMA KeysStep == ASSUME IInv, [Next]_vars PROVE KeysInv'
<1> USE DEF KeysInv
<1>t. TypeOK /\ KeysInv
  BY DEF IInv
<1>1. CASE UNCHANGED <<users, identities, sessions, durable>>
  BY <1>1, <1>t
<1>2. ASSUME NEW r \in Requests, Commits(r) PROVE KeysInv'
  <2>1. r \notin durable /\ Apply(r)
    BY <1>2, CommitsOnce
  <2>2. \A u \in newUsers[r] : u = NewUser(r) /\ u.id = r
    BY DEF IInv, NewRowsInv, NewUser
  <2>3. \A i, j \in newIdentities[r] : i.id = r /\ i = j
    BY DEF IInv, NewRowsInv
  <2>4. \A n, m \in newSessions[r] : n = m
    BY DEF IInv, NewVersionsInv, VersionOK
  <2>5. \A n \in newSessions[r] : n.id = r \/ n.id \in durable
    <3> SUFFICES ASSUME NEW n \in newSessions[r], n.revoked_at # None
                 PROVE  n.id \in durable
      BY DEF IInv, NewVersionsInv, VersionOK
    <3>1. PICK s \in sessions : SameButRevocation(n, s)
      BY DEF IInv, NewVersionsInv, VersionOK
    <3>2. n.id = s.id
      BY <1>t, <3>1, SameRow DEF TypeOK
    <3> QED
      BY <1>t, <3>2
  <2>6. (\A u \in users : u.id \in durable)' /\ (\A u, v \in users : u.id = v.id => u = v)'
    BY <1>t, <2>1, <2>2 DEF Apply
  <2>7. /\ (\A i \in identities : i.id \in durable)'
        /\ (\A i, j \in identities : i.id = j.id => i = j)'
    BY <1>t, <2>1, <2>3 DEF Apply
  <2>8. /\ (\A s \in sessions : s.id \in durable)'
        /\ (\A s, n \in sessions : s.id = n.id => s = n)'
    BY <1>t, <2>1, <2>4, <2>5 DEF Apply
  <2> QED
    BY <2>6, <2>7, <2>8
<1>3. CASE DisableUser /\ UNCHANGED <<identities, sessions, durable>>
  BY <1>3, <1>t, DisabledUser
<1>4. CASE DisableIdentity /\ UNCHANGED <<users, sessions, durable>>
  BY <1>4, <1>t, DisabledIdentity
<1> QED
  BY <1>1, <1>2, <1>3, <1>4, TableSteps

\* A commit adds a user with its identity or neither, of a subject nobody else
\* has, and a session that refers to committed rows.
LEMMA IntegrityStep == ASSUME IInv, [Next]_vars PROVE IdentityIntegrity'
<1> USE DEF IdentityIntegrity
<1>t. TypeOK /\ IdentityIntegrity
  BY DEF IInv
<1>1. CASE UNCHANGED <<users, identities, sessions, durable>>
  BY <1>1, <1>t
<1>2. ASSUME NEW r \in Requests, Commits(r)
      PROVE  IdentityIntegrity'
  <2>0. Committing(r) /\ Apply(r)
    BY <1>2, CommitsOnce
  <2>1. \A u \in newUsers[r] : u.id = r
    BY DEF IInv, NewRowsInv, NewUser
  <2>2. newUsers[r] # {} <=> newIdentities[r] # {}
    BY <2>0 DEF IInv, CommitInv, CommitOK
  <2>3. \A n \in newSessions[r] : Paired(n, identities \cup newIdentities[r])
    BY DEF IInv, NewVersionsInv, VersionOK
  <2>4. \A i \in newIdentities[r] : i.user = r
    BY DEF IInv, NewRowsInv
  <2>5. (\A i, j \in identities : i.subject = j.subject => i = j)'
    BY <2>0, <1>t DEF Apply, IInv, NewRowsInv
  <2>6. (\A u \in users : \E i \in identities : i.user = u.id)'
    BY <2>0, <1>t, <2>1, <2>2, <2>4 DEF Apply
  <2>7. (\A i \in identities : \E u \in users : u.id = i.user)'
    BY <2>0, <1>t, <2>1, <2>2, <2>4 DEF Apply
  <2>8. (\A s \in sessions : \E i \in identities :
            i.id = s.identity /\ i.user = s.user)'
    BY <2>0, <1>t, <2>3 DEF Apply, Paired
  <2> QED
    BY <2>5, <2>6, <2>7, <2>8
<1>3. CASE DisableUser /\ UNCHANGED <<identities, sessions, durable>>
  BY <1>3, <1>t, DisabledUser
<1>4. CASE DisableIdentity /\ UNCHANGED <<users, sessions, durable>>
  BY <1>4, <1>t, DisabledIdentity
<1> QED
  BY <1>1, <1>2, <1>3, <1>4, TableSteps

\* The unique index admits one transaction per subject.
LEMMA NewRowsStep == ASSUME IInv, [Next]_vars PROVE NewRowsInv'
<1> USE DEF NewRowsInv, NewUser
<1>t. TypeOK /\ NewRowsInv
  BY DEF IInv
<1>1. CASE UNCHANGED <<tables, durable, data>>
  BY <1>1, <1>t DEF tables, data
<1>2. ASSUME NEW r \in Requests, Rollback(r), UNCHANGED <<tables, durable>>
      PROVE  NewRowsInv'
  BY <1>2, <1>t DEF tables, Rollback, TypeOK
<1>3. ASSUME NEW r \in Requests, AddUser(r) PROVE NewRowsInv'
  BY <1>3, <1>t DEF tables, AddUser, TypeOK
<1>4. ASSUME NEW r \in Requests, Inserts(r)
      PROVE  NewRowsInv'
  <2>1. At(r, "add_external_identity") /\ ~SubjectLocked(r, trusted)
    BY <1>4 DEF Inserts, AddExternalIdentity
  <2>2. identity[r] = {NewIdentity(r)}
    BY <2>1 DEF IInv, LoginInv, LoginOK
  <2>3. newIdentities' = [newIdentities EXCEPT ![r] = {NewIdentity(r)}]
        /\ UNCHANGED <<newUsers, tables>>
    BY <1>4, <2>2 DEF Inserts, AddExternalIdentity
  <2>4. NewIdentity(r).id = r /\ NewIdentity(r).user = r
        /\ NewIdentity(r).subject = trusted
    BY DEF NewIdentity
  <2>5. \A j \in identities : j.subject # trusted
    BY <1>4 DEF Inserts, TrustedIdentity
  <2>6. \A q \in Requests \ {r} : \A j \in newIdentities[q] : j.subject # trusted
    BY <2>1 DEF SubjectLocked
  <2> HIDE DEF NewUser
  <2> QED
    BY <1>t, <2>3, <2>4, <2>5, <2>6 DEF TypeOK, tables
<1>5. ASSUME NEW r \in Requests, Stores(r) \/ UpdateSession(r)
      PROVE  NewRowsInv'
  <2>1. UNCHANGED <<newUsers, newIdentities, tables>>
    BY <1>5 DEF Stores, AddSession, UpdateSession
  <2> QED
    BY <1>t, <2>1 DEF tables
<1>6. ASSUME NEW r \in Requests, Commits(r) PROVE NewRowsInv'
  <2>1. /\ identities' = identities \cup newIdentities[r]
        /\ newUsers' = [newUsers EXCEPT ![r] = {}]
        /\ newIdentities' = [newIdentities EXCEPT ![r] = {}]
    BY <1>6 DEF Commits, Apply, Rollback
  <2> QED
    BY <1>t, <2>1 DEF TypeOK
<1>7. CASE DisableUser
  BY <1>7, <1>t DEF DisableUser, tx, tables
<1>8. CASE DisableIdentity
  <2>1. UNCHANGED data
    BY <1>8 DEF DisableIdentity, tx, data
  <2>2. \A j \in identities' : \E i \in identities : i.subject = j.subject
    BY <1>8, <1>t, DisabledIdentity
  <2> QED
    BY <1>t, <2>1, <2>2 DEF data
<1> QED
  BY <1>1, <1>2, <1>3, <1>4, <1>5, <1>6, <1>7, <1>8, DataSteps

\* What a logout writes: its revoked copy, in place of the row it is a copy of.
LEMMA UpdatedSession ==
    ASSUME IInv, NEW r \in Requests, UpdateSession(r), NEW n \in newSessions'[r]
    PROVE  n \in session[r] /\ \E s \in sessions : SameButRevocation(n, s)
<1>t. TypeOK
  BY DEF IInv
<1>1. pc[r] = "update_session" /\ newSessions[r] = {}
  BY DEF UpdateSession, At, IInv, ResolveInv, HoldsSession, RevokeSteps,
     NoWrites
<1> DEFINE matched == {s \in sessions : \E m \in session[r] : s.id = m.id}
<1>2. newSessions' = [newSessions EXCEPT ![r] =
          {UpdatedRow(s, m) : s \in matched, m \in session[r]}]
  <2>1. newSessions' # newSessions
    BY <1>1
  <2> QED
    BY <2>1 DEF UpdateSession
<1>3. n \in {UpdatedRow(s, m) : s \in matched, m \in session[r]}
  BY <1>2, <1>t DEF TypeOK
<1>4. PICK s \in matched, m \in session[r] : n = UpdatedRow(s, m)
  BY <1>3
<1>5. \A k \in session[r] : k = m
  BY <1>1 DEF IInv, ResolveInv, HoldsSession, HeldSessionOK, RevokeSteps
<1>6. s \in sessions /\ s.id = m.id
  BY <1>4, <1>5
<1>7. PICK k \in sessions : SameButRevocation(m, k)
  BY <1>1 DEF IInv, ResolveInv, HoldsSession, HeldSessionOK, RevokeSteps
<1>8. s \in SessionRow /\ m \in SessionRow /\ k \in SessionRow
  BY <1>t, <1>6 DEF TypeOK
<1>9. k = s
  BY <1>6, <1>7, <1>8, SameRow DEF IInv, KeysInv
<1>10. n = m
  BY <1>4, <1>7, <1>8, <1>9 DEF UpdatedRow, SameButRevocation, SessionRow
<1> QED
  BY <1>6, <1>7, <1>9, <1>10

\* What add_session and update_session write stays justified until it commits.
LEMMA NewVersionsStep == ASSUME IInv, [Next]_vars PROVE NewVersionsInv'
<1>t. TypeOK /\ TypeOK' /\ NewVersionsInv
  BY TypeStep DEF IInv
<1>old. ASSUME NEW q \in Requests, NEW n \in newSessions[q],
               newSessions'[q] = newSessions[q],
               newIdentities'[q] = newIdentities[q]
        PROVE  VersionOK(q, n)'
  <2>1. pc[q] # "idle"
    BY <1>old DEF IInv, ControlInv, ControlOK, NoWrites
  <2>2. input'[q] = input[q]
    BY <1>t, <2>1, InputSteps
  <2>3. Paired(n, identities' \cup newIdentities'[q])
    <3>1. PICK i \in identities \cup newIdentities[q] :
             i.id = n.identity /\ i.user = n.user
      BY <1>t, <1>old DEF NewVersionsInv, VersionOK, Paired
    <3>2. \E j \in identities' \cup newIdentities'[q] :
             j.id = i.id /\ j.user = i.user
      BY <1>old, <3>1, Persist
    <3> QED
      BY <3>1, <3>2 DEF Paired
  <2>4. ASSUME NEW s \in sessions, SameButRevocation(n, s)
        PROVE  \E k \in sessions' : SameButRevocation(n, k)
    <3>1. PICK k \in sessions' : SameButRevocation(k, s)
      BY Persist
    <3>2. n \in SessionRow /\ s \in SessionRow /\ k \in SessionRow
      BY <1>t DEF TypeOK
    <3> QED
      BY <2>4, <3>1, <3>2, SameRow, SameRowTrans
  <2> QED
    BY <1>t, <1>old, <2>2, <2>3, <2>4 DEF NewVersionsInv, VersionOK
<1>same. ASSUME UNCHANGED <<newIdentities, newSessions>> PROVE NewVersionsInv'
  BY <1>old, <1>same DEF NewVersionsInv
<1>1. CASE UNCHANGED <<tables, durable, data>>
  BY <1>1, <1>same DEF data
<1>2. ASSUME NEW r \in Requests, Rollback(r) PROVE NewVersionsInv'
  <2>1. \A q \in Requests \ {r} : newSessions'[q] = newSessions[q]
                                  /\ newIdentities'[q] = newIdentities[q]
    BY <1>2, <1>t DEF Rollback, TypeOK
  <2>2. newSessions'[r] = {}
    BY <1>2, <1>t DEF Rollback, TypeOK
  <2> QED
    BY <1>old, <2>1, <2>2 DEF NewVersionsInv
<1>3. ASSUME NEW r \in Requests, AddUser(r) PROVE NewVersionsInv'
  BY <1>3, <1>same DEF AddUser
<1>4. ASSUME NEW r \in Requests, Inserts(r)
      PROVE  NewVersionsInv'
  <2>1. newSessions' = newSessions /\ newSessions[r] = {}
    BY <1>4 DEF Inserts, AddExternalIdentity, IInv, LoginInv, LoginOK
  <2>2. \A q \in Requests \ {r} : newIdentities'[q] = newIdentities[q]
    BY <1>4, <1>t DEF Inserts, TypeOK
  <2> QED
    BY <1>old, <2>1, <2>2 DEF NewVersionsInv
<1>5. ASSUME NEW r \in Requests, Stores(r) PROVE NewVersionsInv'
  <2>1. PICK u \in user[r], i \in identity[r] :
           /\ user[r] = {u} /\ identity[r] = {i}
           /\ u.id = i.user
           /\ \E j \in identities \cup newIdentities[r] :
                 j.id = i.id /\ j.user = i.user
    BY <1>5 DEF Stores, AddSession, IInv, LoginInv, LoginOK
  <2>2. newSessions' = [newSessions EXCEPT ![r] =
            {NewSession(r, v, j, time[r]) : v \in user[r], j \in identity[r]}]
    BY <1>5 DEF Stores, Created
  <2>3. newSessions'[r] = {NewSession(r, u, i, time[r])}
    BY <1>t, <2>1, <2>2 DEF TypeOK
  <2>4. LoadsAsSession(NewSession(r, u, i, time[r]))
    BY <1>t, LifetimesAssumption, ConstantsAssumption
       DEF LoadsAsSession, NewSession, TypeOK, Times
  <2>5. Paired(NewSession(r, u, i, time[r]), identities' \cup newIdentities'[r])
    BY <1>5, <2>1 DEF Stores, AddSession, tables, Paired, NewSession
  <2>6. NewSession(r, u, i, time[r]).revoked_at = None
        /\ NewSession(r, u, i, time[r]).id = r
    BY DEF NewSession
  <2>7. \A q \in Requests \ {r} : newSessions'[q] = newSessions[q]
                                  /\ newIdentities'[q] = newIdentities[q]
    BY <1>5, <1>t, <2>2 DEF Stores, AddSession, TypeOK
  <2>8. \A n \in newSessions'[r] : VersionOK(r, n)'
    BY <2>3, <2>4, <2>5, <2>6 DEF VersionOK
  <2> QED
    BY <1>old, <2>7, <2>8 DEF NewVersionsInv
<1>6. ASSUME NEW r \in Requests, UpdateSession(r) PROVE NewVersionsInv'
  <2>1. pc[r] = "update_session"
    BY <1>6 DEF UpdateSession, At
  <2>2. UNCHANGED <<tables, newIdentities, input>>
    BY <1>6 DEF UpdateSession, request
  <2>3. ASSUME NEW n \in newSessions'[r] PROVE VersionOK(r, n)'
    <3>1. n \in session[r] /\ \A m \in newSessions'[r] : m \in session[r]
      BY <1>6, UpdatedSession
    <3>2. PICK s \in sessions : SameButRevocation(n, s)
      BY <1>6, UpdatedSession
    <3>3. /\ \A m \in session[r] : m = n
          /\ LoadsAsSession(n) /\ n.revoked_at # None
          /\ n.id = input[r].cookie /\ n.csrf_verifier = input[r].csrf
      BY <2>1, <3>1 DEF IInv, ResolveInv, HoldsSession, HeldSessionOK, RevokeSteps
    <3>4. input[r].op = "logout"
      BY <2>1 DEF IInv, ControlInv, ControlOK, RevokeSteps
    <3>5. Paired(n, identities)
      BY <1>t, <3>1, <3>2, SameRow DEF TypeOK, IInv, IdentityIntegrity, Paired
    <3>6. input[r] = [op |-> "logout", cookie |-> n.id,
                      csrf |-> n.csrf_verifier]
      BY <1>t, <3>3, <3>4 DEF TypeOK
    <3> QED
      BY <2>2, <3>1, <3>2, <3>3, <3>5, <3>6 DEF tables, VersionOK, Paired
  <2>4. \A q \in Requests \ {r} : newSessions'[q] = newSessions[q]
    BY <1>6, <1>t DEF UpdateSession, TypeOK
  <2> QED
    BY <1>old, <2>2, <2>3, <2>4 DEF NewVersionsInv
<1>7. ASSUME NEW r \in Requests, Commits(r) PROVE NewVersionsInv'
  BY <1>2, <1>7 DEF Commits, Apply
<1>8. CASE DisableUser \/ DisableIdentity
  BY <1>8, <1>same DEF DisableUser, DisableIdentity, tx
<1> QED
  BY <1>1, <1>2, <1>3, <1>4, <1>5, <1>6, <1>7, <1>8, DataSteps

\* What commits is loadable.
LEMMA StoredStep == ASSUME IInv, [Next]_vars PROVE StoredSessionsLoad'
<1>1. ASSUME NEW r \in Requests, Commits(r) PROVE StoredSessionsLoad'
  BY <1>1 DEF Commits, Apply, IInv, StoredSessionsLoad, NewVersionsInv, VersionOK
<1> QED
  BY <1>1, TableSteps DEF IInv, StoredSessionsLoad

\* What commits as revoked belongs to a logout with that cookie and token.
LEMMA AuthorisedStep == ASSUME IInv, [Next]_vars PROVE RevocationAuthorised'
<1>t. TypeOK /\ RevocationAuthorised
  BY DEF IInv
<1>1. \A r \in durable : r \in Requests /\ pc[r] # "idle"
  BY <1>t DEF IInv, DurableInv, TypeOK
<1>2. \A r \in durable : r \in durable' /\ input'[r] = input[r]
  BY <1>t, <1>1, InputSteps, Persist
<1>3. ASSUME sessions' \subseteq sessions PROVE RevocationAuthorised'
  BY <1>t, <1>2, <1>3 DEF RevocationAuthorised
<1>4. ASSUME NEW r \in Requests, Commits(r)
      PROVE  RevocationAuthorised'
  <2>1. r \in durable' /\ input'[r] = input[r]
    BY <1>t, <1>4, CommitsOnce, InputSteps DEF Apply
  <2>2. \A n \in newSessions[r] : n.revoked_at # None =>
           input[r] = [op |-> "logout", cookie |-> n.id,
                       csrf |-> n.csrf_verifier]
    BY DEF IInv, NewVersionsInv, VersionOK
  <2>3. \A s \in sessions' : s \in sessions \/ s \in newSessions[r]
    BY <1>4 DEF Commits, Apply
  <2> QED
    BY <1>t, <1>2, <2>1, <2>2, <2>3 DEF RevocationAuthorised
<1> QED
  BY <1>3, <1>4, TableSteps

-----------------------------------------------------------------------------
(* The parts of the invariant that speak of one request. *)

\* Each statement knows its operation and what has been answered so far.
LEMMA ControlStep == ASSUME IInv, [Next]_vars PROVE ControlInv'
<1>t. TypeOK /\ ControlInv
  BY DEF IInv
<1> SUFFICES ASSUME NEW q \in Requests PROVE ControlOK(q)'
  BY DEF ControlInv
<1>c. ControlOK(q)
  BY <1>t DEF ControlInv
<1> USE <1>t, <1>c DEF ControlOK, NoWrites, LoginSteps, ResolveSteps, RevokeSteps,
        TypeOK, Goto, Raise, At, request, tx, locals
<1>1. ASSUME NEW r \in Requests, Begin(r) PROVE ControlOK(q)'
  <2>1. ASSUME NEW op \in {"login", "inspect", "logout"}, NEW cookie, NEW csrf,
               NEW first \in {"get_external_identity", "get_session"},
               Start(r, op, cookie, csrf, first),
               first = "get_external_identity" => op = "login"
        PROVE  ControlOK(q)'
    BY <2>1 DEF Start, Enter
  <2> QED
    BY <1>1, <2>1 DEF Begin, StartLogin, StartInspect, StartLogout
<1>2. ASSUME NEW r \in Requests, GetExternalIdentity(r) PROVE ControlOK(q)'
  BY <1>2 DEF GetExternalIdentity
<1>3. ASSUME NEW r \in Requests, AddUser(r) PROVE ControlOK(q)'
  BY <1>3 DEF AddUser
<1>4. ASSUME NEW r \in Requests, AddExternalIdentity(r) PROVE ControlOK(q)'
  BY <1>4 DEF AddExternalIdentity, Rollback
<1>5. ASSUME NEW r \in Requests, GetUser(r) PROVE ControlOK(q)'
  BY <1>5 DEF GetUser
<1>6. ASSUME NEW r \in Requests, AddSession(r) PROVE ControlOK(q)'
  BY <1>6 DEF AddSession, Rollback
<1>7. ASSUME NEW r \in Requests, GetSession(r) PROVE ControlOK(q)'
  BY <1>7 DEF GetSession
<1>8. ASSUME NEW r \in Requests, GetSessionUser(r) PROVE ControlOK(q)'
  BY <1>8 DEF GetSessionUser
<1>9. ASSUME NEW r \in Requests, GetSessionIdentity(r) PROVE ControlOK(q)'
  BY <1>9 DEF GetSessionIdentity
<1>10. ASSUME NEW r \in Requests, RefuseCsrf(r) PROVE ControlOK(q)'
  BY <1>10 DEF RefuseCsrf, Refuse
<1>11. ASSUME NEW r \in Requests, RefuseRevokedAt(r) PROVE ControlOK(q)'
  BY <1>11 DEF RefuseRevokedAt, Refuse
<1>12. ASSUME NEW r \in Requests, Revoke(r) PROVE ControlOK(q)'
  BY <1>12 DEF Revoke, Enter
<1>13. ASSUME NEW r \in Requests, UpdateSession(r) PROVE ControlOK(q)'
  BY <1>13 DEF UpdateSession
<1>14. ASSUME NEW r \in Requests, CommitSucceeds(r) PROVE ControlOK(q)'
  BY <1>14 DEF CommitSucceeds, Apply, Rollback
<1>15. ASSUME NEW r \in Requests, CommitRefused(r) PROVE ControlOK(q)'
  BY <1>15 DEF CommitRefused, Rollback
<1>16. ASSUME NEW r \in Requests, CommitLost(r) PROVE ControlOK(q)'
  BY <1>16 DEF CommitLost
<1>17. ASSUME NEW r \in Requests, StatementFails(r) PROVE ControlOK(q)'
  BY <1>17 DEF StatementFails, Rollback
<1>18. ASSUME NEW r \in Requests, Exit(r) PROVE ControlOK(q)'
  BY <1>18 DEF Exit, Rollback
<1>19. ASSUME NEW r \in Requests, LoseConnection(r) PROVE ControlOK(q)'
  BY <1>19 DEF LoseConnection
<1>20. ASSUME NEW r \in Requests, Reap(r) PROVE ControlOK(q)'
  BY <1>20 DEF Reap, Rollback
<1>21. CASE Restart
  BY <1>21 DEF Restart, InFlight
<1>22. CASE DisableUser \/ DisableIdentity \/ Tick \/ StepBack \/ Finished
  BY <1>22 DEF DisableUser, DisableIdentity, Tick, StepBack, Finished, vars
<1>23. CASE UNCHANGED vars
  BY <1>23 DEF vars
<1>24. ASSUME NEW r \in Requests, LateCommit(r) PROVE ControlOK(q)'
  BY <1>24 DEF LateCommit, Apply, Rollback
<1> QED
  BY <1>1, <1>2, <1>3, <1>4, <1>5, <1>6, <1>7, <1>8, <1>9, <1>10, <1>11, <1>12,
     <1>13, <1>14, <1>15, <1>16, <1>17, <1>18, <1>19, <1>20, <1>21, <1>22,
     <1>23, <1>24
     DEF Next, Serve

\* A step leaves q alone, unless it is q's own or it hits q.
SameRequest(q) ==
    /\ pc'[q] = pc[q] /\ conn'[q] = conn[q] /\ trusted' = trusted
    /\ input'[q] = input[q] /\ time'[q] = time[q]
    /\ identity'[q] = identity[q] /\ user'[q] = user[q]
    /\ session'[q] = session[q]
    /\ result'[q] = result[q] /\ seenLive'[q] = seenLive[q]
    /\ newUsers'[q] = newUsers[q] /\ newIdentities'[q] = newIdentities[q]
    /\ newSessions'[q] = newSessions[q]
    /\ q \in sent' <=> q \in sent

\* A request's variables change by its own steps, by Restart, or not at all.
LEMMA OwnSteps ==
    ASSUME TypeOK, [Next]_vars, NEW q \in Requests
    PROVE  \/ SameRequest(q) \/ Begin(q) \/ Serve(q) \/ LoseConnection(q)
           \/ LateCommit(q) \/ Reap(q) \/ Restart
<1> USE DEF SameRequest, TypeOK, Goto, Raise, At, request, tx, locals, clock
<1>1. ASSUME NEW r \in Requests \ {q}, Begin(r) PROVE SameRequest(q)
  <2>1. ASSUME NEW op, NEW cookie, NEW csrf, NEW first,
               Start(r, op, cookie, csrf, first)
        PROVE  SameRequest(q)
    BY <2>1 DEF Start, Enter
  <2> QED
    BY <1>1, <2>1 DEF Begin, StartLogin, StartInspect, StartLogout
<1>2. ASSUME NEW r \in Requests \ {q},
             GetExternalIdentity(r) \/ AddUser(r) \/ AddSession(r)
      PROVE  SameRequest(q)
  BY <1>2 DEF GetExternalIdentity, AddUser, AddSession, Rollback
<1>3. ASSUME NEW r \in Requests \ {q}, AddExternalIdentity(r) \/ GetUser(r)
      PROVE  SameRequest(q)
  BY <1>3 DEF AddExternalIdentity, GetUser, Rollback
<1>4. ASSUME NEW r \in Requests \ {q},
             GetSession(r) \/ GetSessionUser(r) \/ GetSessionIdentity(r)
      PROVE  SameRequest(q)
  BY <1>4 DEF GetSession, GetSessionUser, GetSessionIdentity
<1>5. ASSUME NEW r \in Requests \ {q},
             RefuseCsrf(r) \/ RefuseRevokedAt(r) \/ Revoke(r) \/ UpdateSession(r)
      PROVE  SameRequest(q)
  BY <1>5 DEF RefuseCsrf, RefuseRevokedAt, Refuse, Revoke, Enter, UpdateSession
<1>6. ASSUME NEW r \in Requests \ {q},
             CommitSucceeds(r) \/ CommitRefused(r) \/ CommitLost(r)
      PROVE  SameRequest(q)
  BY <1>6 DEF CommitSucceeds, CommitRefused, CommitLost, Apply, Rollback
<1>7. ASSUME NEW r \in Requests \ {q},
             \/ StatementFails(r) \/ Exit(r) \/ LoseConnection(r)
             \/ LateCommit(r) \/ Reap(r)
      PROVE  SameRequest(q)
  BY <1>7 DEF StatementFails, Exit, LoseConnection, LateCommit, Apply, Reap,
     Rollback
<1>8. CASE DisableUser \/ DisableIdentity \/ Tick \/ StepBack
  BY <1>8 DEF DisableUser, DisableIdentity, Tick, StepBack
<1>9. CASE Finished \/ UNCHANGED vars
  BY <1>9 DEF Finished, vars
<1> QED
  BY <1>1, <1>2, <1>3, <1>4, <1>5, <1>6, <1>7, <1>8, <1>9 DEF Next, Serve

\* A request that has committed runs no further statement.
LEMMA DurableStep == ASSUME IInv, [Next]_vars PROVE DurableInv'
<1>t. TypeOK /\ TypeOK' /\ ControlInv /\ DurableInv /\ OutcomeMatchesCommit
  BY TypeStep DEF IInv
<1> SUFFICES ASSUME NEW q \in Requests, q \in durable'
             PROVE  pc'[q] \in {"exit", "done"} /\ NoWrites(q)'
  BY <1>t DEF DurableInv, TypeOK
<1> USE DEF Goto, Raise, At, TypeOK, NoWrites, request, tx, locals
<1>1. CASE q \in durable
  <2>1. /\ pc[q] \in {"exit", "done"} /\ NoWrites(q)
        /\ result[q] # "Authenticated"
    BY <1>1, <1>t DEF DurableInv, OutcomeMatchesCommit, AnswerIsTrue
  <2>2. CASE SameRequest(q)
    BY <2>1, <2>2 DEF SameRequest
  <2>3. CASE Exit(q)
    BY <1>t, <2>1, <2>3 DEF Exit, Rollback
  <2>4. CASE LoseConnection(q) \/ LateCommit(q) \/ Reap(q) \/ Restart
    BY <1>t, <2>1, <2>4 DEF LoseConnection, LateCommit, Apply, Reap, Restart,
       InFlight, Rollback
  <2>5. CASE Begin(q)
    BY <2>1, <2>5 DEF Begin, StartLogin, StartInspect, StartLogout, Start
  <2>6. CASE Serve(q) /\ ~Exit(q)
    BY <2>1, <2>6 DEF Serve, GetExternalIdentity, AddUser, AddExternalIdentity,
       GetUser, AddSession, GetSession, GetSessionUser, GetSessionIdentity,
       RefuseCsrf, RefuseRevokedAt, Refuse, Revoke, UpdateSession,
       CommitSucceeds, CommitRefused, CommitLost, StatementFails, Statements
  <2> QED
    BY <1>t, <2>2, <2>3, <2>4, <2>5, <2>6, OwnSteps
<1>2. CASE q \notin durable
  <2>1. PICK r \in Requests : Commits(r)
    BY <1>2, TableSteps
  <2>2. q = r
    BY <1>2, <2>1 DEF Commits, Apply
  <2>3. NoWrites(q)'
    BY <1>t, <2>1, <2>2 DEF Commits, Apply, Rollback
  <2>4. pc'[q] \in {"exit", "done"}
    BY <1>t, <2>1, <2>2 DEF Commits, CommitSucceeds, LateCommit, IInv, SentInv
  <2> QED
    BY <2>3, <2>4
<1> QED
  BY <1>1, <1>2

\* Success or failure as the caller sees it, against the tables.
LEMMA OutcomeStep == ASSUME IInv, [Next]_vars PROVE OutcomeMatchesCommit'
<1>t. TypeOK /\ TypeOK' /\ ControlInv /\ DurableInv /\ OutcomeMatchesCommit
  BY TypeStep DEF IInv
<1> SUFFICES ASSUME NEW q \in Requests PROVE AnswerIsTrue(q)'
  BY DEF OutcomeMatchesCommit
<1>q. AnswerIsTrue(q) /\ ControlOK(q)
  BY <1>t DEF OutcomeMatchesCommit, ControlInv
<1>same. ASSUME result'[q] = result[q], q \in durable' => q \in durable
         PROVE  AnswerIsTrue(q)'
  <2>1. Committed(q)' => Committed(q)
    BY <1>same DEF Committed
  <2>2. q \in durable => q \in durable'
    BY Persist
  <2>3. result[q] = "Revoked" => input'[q] = input[q]
    BY <1>t, <1>q, InputSteps DEF ControlOK
  <2>4. \A s \in sessions : \E n \in sessions' :
           n.id = s.id /\ (s.revoked_at # None => n.revoked_at # None)
    BY <1>t, Persist, SameRow DEF TypeOK
  <2> QED
    BY <1>q, <1>same, <2>1, <2>2, <2>3, <2>4 DEF AnswerIsTrue
<1>open. ASSUME result'[q] \in {"OperationalError", "Crashed"}
         PROVE  AnswerIsTrue(q)'
  BY <1>open DEF AnswerIsTrue, Committed
<1>none. ASSUME result'[q] \notin {"Established", "Revoked"}, q \notin durable'
         PROVE  AnswerIsTrue(q)'
  BY <1>none DEF AnswerIsTrue, Committed
<1> USE DEF Goto, Raise, At, TypeOK, request, tx, locals
<1>1. CASE q \in durable' /\ q \notin durable
  <2>1. PICK r \in Requests : Commits(r)
    BY <1>1, TableSteps
  <2>2. q = r /\ Apply(r) /\ Committing(r)
    BY <1>1, <2>1, CommitsOnce DEF Apply
  <2>3. CASE LateCommit(q)
    BY <1>t, <1>open, <2>3 DEF LateCommit, IInv, SentInv
  <2>4. CASE CommitSucceeds(q)
    <3>1. PICK n \in newSessions[q] : n.revoked_at = None <=> input[q].op = "login"
      BY <2>1, <2>2 DEF IInv, CommitInv, CommitOK
    <3>2. n \in sessions' /\ q \in durable'
      BY <2>1, <2>2, <3>1 DEF Apply
    <3>3. IF n.revoked_at = None
            THEN n.id = q
            ELSE n.id = input[q].cookie
      <4>1. VersionOK(q, n)
        BY <3>1 DEF IInv, NewVersionsInv
      <4> QED
        BY <4>1 DEF VersionOK
    <3>4. result'[q] = IF input[q].op = "login" THEN "Established" ELSE "Revoked"
      BY <1>t, <2>4 DEF CommitSucceeds
    <3>5. input' = input
      BY <2>4 DEF CommitSucceeds
    <3>6. CASE input[q].op = "login"
      BY <3>1, <3>2, <3>3, <3>4, <3>6 DEF AnswerIsTrue, Committed
    <3>7. CASE input[q].op # "login"
      BY <3>1, <3>2, <3>3, <3>4, <3>5, <3>7 DEF AnswerIsTrue, Committed
    <3> QED
      BY <3>6, <3>7
  <2> QED
    BY <2>1, <2>2, <2>3, <2>4 DEF Commits
<1>2. CASE q \in durable
  <2>1. pc[q] \in {"exit", "done"}
    BY <1>2, <1>t DEF DurableInv
  <2>2. CASE \/ SameRequest(q) \/ LoseConnection(q) \/ LateCommit(q)
             \/ Reap(q)
    BY <1>2, <1>same, <2>2 DEF SameRequest, LoseConnection, LateCommit, Reap
  <2>3. CASE Exit(q) \/ Restart
    <3>1. result'[q] \in {result[q], "OperationalError", "Crashed"}
      BY <1>t, <2>3 DEF Exit, Restart
    <3> QED
      BY <1>2, <1>same, <1>open, <3>1
  <2>4. CASE Begin(q)
    BY <2>1, <2>4 DEF Begin, StartLogin, StartInspect, StartLogout, Start
  <2>5. CASE Serve(q) /\ ~Exit(q)
    BY <2>1, <2>5 DEF Serve, GetExternalIdentity, AddUser, AddExternalIdentity,
       GetUser, AddSession, GetSession, GetSessionUser, GetSessionIdentity,
       RefuseCsrf, RefuseRevokedAt, Refuse, Revoke, UpdateSession,
       CommitSucceeds, CommitRefused, CommitLost, StatementFails, Statements
  <2> QED
    BY <1>t, <2>2, <2>3, <2>4, <2>5, OwnSteps
<1>3. CASE q \notin durable'
  <2>1. result[q] \notin {"Established", "Revoked"}
    BY <1>3, <1>q, Persist DEF AnswerIsTrue, Committed
  <2>2. CASE \/ SameRequest(q) \/ LoseConnection(q) \/ LateCommit(q)
             \/ Reap(q)
    BY <1>3, <1>same, <2>2 DEF SameRequest, LoseConnection, LateCommit, Reap
  <2>3. CASE Restart
    BY <1>t, <1>open, <1>none, <1>3, <2>1, <2>3 DEF Restart
  <2>4. CASE Begin(q)
    <3>1. ASSUME NEW op, NEW cookie, NEW csrf, NEW first,
                 Start(q, op, cookie, csrf, first)
          PROVE  result'[q] \notin {"Established", "Revoked"}
      BY <1>t, <2>1, <3>1 DEF Start, Enter
    <3> QED
      BY <1>none, <1>3, <2>4, <3>1
         DEF Begin, StartLogin, StartInspect, StartLogout
  <2>5. CASE GetExternalIdentity(q) \/ AddUser(q) \/ GetSessionUser(q)
    BY <1>3, <1>none, <2>1, <2>5
       DEF GetExternalIdentity, AddUser, GetSessionUser
  <2>10. CASE Stores(q) \/ Conflicts(q)
    BY <1>t, <1>3, <1>none, <2>1, <2>10 DEF Stores, Conflicts
  <2>6. CASE \/ AddExternalIdentity(q) \/ GetUser(q) \/ GetSession(q)
             \/ GetSessionIdentity(q) \/ UpdateSession(q)
    BY <1>t, <1>3, <1>none, <2>1, <2>6
       DEF AddExternalIdentity, GetUser, GetSession, GetSessionIdentity,
           UpdateSession
  <2>7. CASE RefuseCsrf(q) \/ RefuseRevokedAt(q) \/ Revoke(q)
    BY <1>t, <1>3, <1>none, <2>1, <2>7
       DEF RefuseCsrf, RefuseRevokedAt, Refuse, Revoke, Enter
  <2>8. CASE CommitSucceeds(q)
    BY <1>3, <2>8 DEF CommitSucceeds, Apply
  <2>9. CASE CommitRefused(q) \/ CommitLost(q) \/ StatementFails(q) \/ Exit(q)
    BY <1>t, <1>3, <1>none, <2>1, <2>9
       DEF CommitRefused, CommitLost, StatementFails, Exit
  <2> QED
    BY <1>t, <2>2, <2>3, <2>4, <2>5, <2>6, <2>7, <2>8, <2>9, <2>10, OwnSteps,
       InsertOutcomes DEF Serve
<1> QED
  BY <1>1, <1>2, <1>3

\* What a login holds stays fit for the session row it will write.
LEMMA LoginStep == ASSUME IInv, [Next]_vars PROVE LoginInv'
<1>t. TypeOK /\ TypeOK'
  BY TypeStep DEF IInv
<1> SUFFICES ASSUME NEW q \in Requests PROVE LoginOK(q)'
  BY DEF LoginInv
<1>q. LoginOK(q) /\ ControlOK(q)
  BY DEF IInv, LoginInv, ControlInv
<1>j. \A i : (\E j \in identities : j.id = i.id /\ j.user = i.user)
          => (\E j \in identities' : j.id = i.id /\ j.user = i.user)
  BY Persist
<1>elsewhere. ASSUME pc'[q] \notin {"get_external_identity", "add_user",
                        "get_user", "add_external_identity", "add_session"}
              PROVE  LoginOK(q)'
  BY <1>elsewhere DEF LoginOK, At
<1> USE <1>t DEF Goto, Raise, At, TypeOK, NoWrites, request, tx, locals
<1>1. CASE SameRequest(q)
  <2>1. NewIdentity(q)' = NewIdentity(q) /\ NewUser(q)' = NewUser(q)
    BY <1>1 DEF SameRequest, NewIdentity, NewUser
  <2>2. At(q, "add_session") => \E u \in user'[q], i \in identity'[q] :
            /\ user'[q] = {u} /\ identity'[q] = {i}
            /\ u.id = i.user
            /\ \E j \in identities' \cup newIdentities'[q] :
                  j.id = i.id /\ j.user = i.user
    <3> SUFFICES ASSUME At(q, "add_session")
                 PROVE  \E u \in user'[q], i \in identity'[q] :
                          /\ user'[q] = {u} /\ identity'[q] = {i}
                          /\ u.id = i.user
                          /\ \E j \in identities' \cup newIdentities'[q] :
                                j.id = i.id /\ j.user = i.user
      OBVIOUS
    <3>s. /\ user'[q] = user[q] /\ identity'[q] = identity[q]
          /\ newIdentities'[q] = newIdentities[q]
      BY <1>1 DEF SameRequest
    <3>1. PICK u \in user[q], i \in identity[q] :
             /\ user[q] = {u} /\ identity[q] = {i}
             /\ u.id = i.user
             /\ \E j \in identities \cup newIdentities[q] :
                   j.id = i.id /\ j.user = i.user
      BY <1>q DEF LoginOK
    <3>2. \E j \in identities' \cup newIdentities[q] :
             j.id = i.id /\ j.user = i.user
      BY <1>j, <3>1
    <3> QED
      BY <3>s, <3>1, <3>2
  <2> QED
    BY <1>1, <1>q, <1>j, <2>1, <2>2 DEF SameRequest, LoginOK
<1>2. CASE Begin(q)
  <2>1. pc[q] = "idle" /\ NoWrites(q)
    BY <1>2, <1>q DEF Begin, StartLogin, StartInspect, StartLogout, Start,
       ControlOK
  <2>2. pc'[q] \in {"get_external_identity", "get_session", "done"}
    BY <1>2, <2>1 DEF Begin, StartLogin, StartInspect, StartLogout, Start, Enter
  <2>3. NoWrites(q)'
    BY <1>2, <2>1 DEF Begin, StartLogin, StartInspect, StartLogout, Start
  <2> QED
    BY <2>2, <2>3 DEF LoginOK
<1>3. CASE GetExternalIdentity(q)
  <2>1. NoWrites(q)'
    BY <1>3, <1>q DEF GetExternalIdentity, LoginOK
  <2>2. pc'[q] \in {"add_user", "get_user"}
        /\ identity'[q] \subseteq identities /\ identities' = identities
    BY <1>3 DEF GetExternalIdentity, TrustedIdentity, tables
  <2>3. \A i, j \in identity'[q] : i = j
    BY <1>3 DEF GetExternalIdentity, TrustedIdentity, IInv, IdentityIntegrity
  <2> QED
    BY <2>1, <2>2, <2>3 DEF LoginOK
<1>4. CASE AddUser(q)
  <2>1. NoWrites(q)
    BY <1>4, <1>q DEF AddUser, LoginOK
  <2>2. pc'[q] = "add_external_identity" /\ trusted' = trusted
    BY <1>4 DEF AddUser, clock
  <2>3. /\ newUsers'[q] = {NewUser(q)} /\ user'[q] = {NewUser(q)}
        /\ identity'[q] = {NewIdentity(q)}
        /\ newIdentities'[q] = {} /\ newSessions'[q] = {}
    BY <1>4, <2>1 DEF AddUser
  <2>4. NewIdentity(q)' = NewIdentity(q) /\ NewUser(q)' = NewUser(q)
    BY <2>2 DEF NewIdentity, NewUser
  <2> QED
    BY <2>2, <2>3, <2>4 DEF LoginOK
<1>5. CASE AddExternalIdentity(q)
  <2>1. CASE Conflicts(q)
    BY <1>5, <1>elsewhere, <2>1 DEF Conflicts
  <2>2. CASE Inserts(q)
    <3>1. /\ newUsers[q] = {NewUser(q)} /\ newSessions[q] = {}
          /\ user[q] = {NewUser(q)} /\ identity[q] = {NewIdentity(q)}
      BY <1>5, <1>q DEF AddExternalIdentity, LoginOK
    <3>2. /\ pc'[q] = "add_session"
          /\ newIdentities'[q] = {NewIdentity(q)}
          /\ newUsers'[q] = {NewUser(q)} /\ newSessions'[q] = {}
          /\ user'[q] = {NewUser(q)} /\ identity'[q] = {NewIdentity(q)}
      BY <1>5, <2>2, <3>1 DEF Inserts, AddExternalIdentity
    <3>3. NewUser(q).id = q /\ NewIdentity(q).user = q
      BY DEF NewUser, NewIdentity
    <3> QED
      BY <3>2, <3>3 DEF LoginOK
  <2> QED
    BY <1>5, <2>1, <2>2, InsertOutcomes
<1>6. CASE GetUser(q)
  <2> DEFINE found == {u \in users : \E i \in identity[q] : u.id = i.user}
  <2>1. user'[q] = found /\ identity'[q] = identity[q] /\ identities' = identities
    BY <1>6 DEF GetUser, tables
  <2>2. CASE ~IsActive(found, identity[q])
    BY <1>6, <1>elsewhere, <2>2 DEF GetUser
  <2>3. CASE IsActive(found, identity[q])
    <3>1. pc'[q] = "add_session" /\ NoWrites(q)'
      BY <1>6, <1>q, <2>3 DEF GetUser, LoginOK
    <3>2. PICK u \in found, i \in identity[q] : TRUE
      BY <2>3 DEF IsActive
    <3>3. identity[q] = {i}
      BY <1>6, <1>q DEF GetUser, LoginOK
    <3>4. \A v \in found : v.id = i.user
      BY <3>3
    <3>5. found = {u} /\ u.id = i.user
      BY <3>2, <3>4 DEF IInv, KeysInv
    <3>6. \E j \in identities : j.id = i.id /\ j.user = i.user
      BY <1>6, <1>q DEF GetUser, LoginOK
    <3> HIDE DEF found
    <3> QED
      BY <2>1, <3>1, <3>3, <3>5, <3>6 DEF LoginOK
  <2> QED
    BY <2>2, <2>3
<1>7. CASE LoseConnection(q) \/ LateCommit(q) \/ Reap(q)
  <2>1. conn'[q] # "open" /\ pc' = pc /\ identity' = identity
    BY <1>7 DEF LoseConnection, LateCommit, Reap, IInv, SentInv
  <2>2. NoWrites(q) => NoWrites(q)'
    BY <1>7 DEF LoseConnection, LateCommit, Apply, Reap, Rollback
  <2> QED
    BY <1>q, <1>j, <2>1, <2>2 DEF LoginOK
<1>8. CASE Restart
  BY <1>8, <1>elsewhere DEF Restart, InFlight
<1>9. CASE Stores(q) \/ Conflicts(q) \/ UpdateSession(q)
  BY <1>9, <1>elsewhere DEF Stores, Conflicts, UpdateSession
<1>10. CASE GetSession(q) \/ GetSessionUser(q) \/ GetSessionIdentity(q)
  BY <1>10, <1>elsewhere DEF GetSession, GetSessionUser, GetSessionIdentity
<1>11. CASE RefuseCsrf(q) \/ RefuseRevokedAt(q) \/ Revoke(q)
  BY <1>11, <1>elsewhere DEF RefuseCsrf, RefuseRevokedAt, Refuse, Revoke, Enter
<1>12. CASE \/ CommitSucceeds(q) \/ CommitRefused(q) \/ CommitLost(q)
            \/ StatementFails(q) \/ Exit(q)
  BY <1>12, <1>elsewhere
     DEF CommitSucceeds, CommitRefused, CommitLost, StatementFails, Exit
<1> QED
  BY <1>t, <1>1, <1>2, <1>3, <1>4, <1>5, <1>6, <1>7, <1>8, <1>9, <1>10, <1>11,
     <1>12, OwnSteps, InsertOutcomes DEF Serve

\* The session row that a request works with stays current but for revoked_at.
LEMMA ResolveStep == ASSUME IInv, [Next]_vars PROVE ResolveInv'
<1>t. TypeOK /\ TypeOK'
  BY TypeStep DEF IInv
<1> DEFINE ResolveOK(q) ==
        /\ pc[q] = "get_session" \/ HoldsSession(q) => NoWrites(q)
        /\ HoldsSession(q) => HeldSessionOK(q)
<1> SUFFICES ASSUME NEW q \in Requests PROVE ResolveOK(q)'
  BY DEF ResolveInv
<1>q. ResolveOK(q) /\ ControlOK(q)
  BY DEF IInv, ResolveInv, ControlInv
<1>carry. ASSUME HeldSessionOK(q), session'[q] = session[q],
                 input'[q] = input[q],
                 pc'[q] = "update_session" <=> pc[q] = "update_session"
          PROVE  HeldSessionOK(q)'
  <2>1. ASSUME NEW n \in session[q]
        PROVE  \E s \in sessions' : SameButRevocation(n, s)
    <3>1. PICK s \in sessions : SameButRevocation(n, s)
      BY <1>carry DEF HeldSessionOK
    <3>2. PICK k \in sessions' : SameButRevocation(k, s)
      BY Persist
    <3>3. n \in SessionRow /\ s \in SessionRow /\ k \in SessionRow
      BY <1>t DEF TypeOK
    <3> QED
      BY <3>1, <3>2, <3>3, SameRow, SameRowTrans
  <2> QED
    BY <1>carry, <2>1 DEF HeldSessionOK
<1>elsewhere. ASSUME pc'[q] \notin ResolveSteps \cup RevokeSteps,
                     pc'[q] = "exit" => result'[q] # "Authenticated"
              PROVE  ResolveOK(q)'
  BY <1>elsewhere DEF HoldsSession, ResolveSteps, RevokeSteps
<1> USE <1>t DEF Goto, Raise, At, TypeOK, request, tx, locals, ResolveSteps,
        RevokeSteps
<1>1. CASE SameRequest(q)
  <2>1. HoldsSession(q)' <=> HoldsSession(q)
    BY <1>1 DEF SameRequest, HoldsSession
  <2> QED
    BY <1>1, <1>q, <1>carry, <2>1 DEF SameRequest, NoWrites
<1>2. CASE Begin(q)
  <2>1. pc[q] = "idle" /\ NoWrites(q)
    BY <1>2, <1>q DEF Begin, StartLogin, StartInspect, StartLogout, Start,
       ControlOK
  <2>2. pc'[q] \in {"get_external_identity", "get_session", "done"}
    BY <1>2, <2>1 DEF Begin, StartLogin, StartInspect, StartLogout, Start, Enter
  <2>3. NoWrites(q)'
    BY <1>2, <2>1 DEF Begin, StartLogin, StartInspect, StartLogout, Start,
       NoWrites
  <2> QED
    BY <2>2, <2>3 DEF HoldsSession
<1>3. CASE GetSession(q)
  <2> DEFINE found == {s \in sessions : s.id = input[q].cookie}
  <2>1. CASE ~\E s \in found : IsValidAt(s, time[q])
    BY <1>3, <1>elsewhere, <2>1 DEF GetSession
  <2>2. CASE \E s \in found : IsValidAt(s, time[q])
    <3>1. /\ session'[q] = found /\ UNCHANGED <<sessions, input, tx>>
          /\ pc[q] = "get_session" /\ pc'[q] = "get_session_user"
      BY <1>3, <2>2 DEF GetSession, tables
    <3>2. \A n, m \in found : n = m
      BY DEF IInv, KeysInv
    <3>3. \A n \in found : n.revoked_at = None
      BY <2>2, <3>2 DEF IsValidAt
    <3>4. \A n \in found : LoadsAsSession(n) /\ SameButRevocation(n, n)
      BY DEF IInv, StoredSessionsLoad, SameButRevocation, SessionRow
    <3>5. HeldSessionOK(q)'
      BY <2>2, <3>1, <3>2, <3>3, <3>4 DEF HeldSessionOK
    <3> QED
      BY <1>q, <3>1, <3>5 DEF NoWrites
  <2> QED
    BY <2>1, <2>2
<1>4. CASE GetSessionUser(q)
  <2>1. /\ pc[q] = "get_session_user" /\ pc'[q] = "get_session_identity"
        /\ UNCHANGED <<session, input, tx>>
    BY <1>4 DEF GetSessionUser
  <2> QED
    BY <1>q, <1>carry, <2>1 DEF HoldsSession, NoWrites
<1>5. CASE GetSessionIdentity(q)
  <2>1. /\ pc[q] = "get_session_identity" /\ pc'[q] = "exit"
        /\ UNCHANGED <<session, input>>
    BY <1>5 DEF GetSessionIdentity
  <2>2. UNCHANGED tx
    BY <1>5 DEF GetSessionIdentity
  <2> QED
    BY <1>q, <1>carry, <2>1, <2>2 DEF HoldsSession, NoWrites
<1>6. CASE Exit(q)
  <2>1. pc[q] = "exit" /\ UNCHANGED <<session, input>>
    BY <1>6 DEF Exit
  <2>2. CASE pc'[q] = "done"
    BY <1>elsewhere, <2>2
  <2>3. CASE pc'[q] # "done"
    <3>1. /\ conn[q] # "lost" /\ pc'[q] = "revoke"
          /\ result[q] = "Authenticated"
      BY <1>6, <2>3 DEF Exit, Committed
    <3>2. NoWrites(q) /\ (UNCHANGED tx \/ Rollback(q))
      BY <1>6, <1>q, <2>1, <3>1 DEF Exit, HoldsSession
    <3>3. HeldSessionOK(q)'
      BY <1>q, <1>carry, <2>1, <3>1 DEF HoldsSession
    <3> QED
      BY <3>1, <3>2, <3>3 DEF Rollback, NoWrites
  <2> QED
    BY <2>2, <2>3
<1>7. CASE Revoke(q)
  <2>1. CASE pc'[q] = "done"
    BY <1>elsewhere, <2>1
  <2>2. CASE pc'[q] # "done"
    <3>1. /\ pc[q] = "revoke" /\ pc'[q] = "update_session" /\ CsrfMatches(q)
          /\ \A s \in session[q] : LoadsAsSession(RevokedSession(s, now))
          /\ session'[q] = {RevokedSession(s, now) : s \in session[q]}
          /\ UNCHANGED <<sessions, input, tx>>
      BY <1>7, <2>2 DEF Revoke, Revocable, Enter, tables
    <3>2. HeldSessionOK(q) /\ NoWrites(q)
      BY <1>q, <3>1 DEF HoldsSession
    <3>3. PICK s \in session[q] : s.csrf_verifier = input[q].csrf
      BY <3>1 DEF CsrfMatches
    <3>4. session[q] = {s} /\ s.id = input[q].cookie /\ s \in SessionRow
      BY <3>2, <3>3 DEF HeldSessionOK
    <3>5. PICK n : n = RevokedSession(s, now)
      OBVIOUS
    <3>6. session'[q] = {n} /\ LoadsAsSession(n)
      BY <3>1, <3>4, <3>5
    <3>7. /\ n.id = s.id /\ n.csrf_verifier = s.csrf_verifier
          /\ n.revoked_at = now /\ SameButRevocation(n, s) /\ n \in SessionRow
      BY <3>4, <3>5, RevokedSessionType
         DEF RevokedSession, SameButRevocation, SessionRow
    <3>8. n.revoked_at # None
      BY <3>7, ConstantsAssumption DEF Times
    <3>9. PICK k \in sessions : SameButRevocation(s, k)
      BY <3>2, <3>3 DEF HeldSessionOK
    <3>10. SameButRevocation(n, k)
      BY <3>4, <3>7, <3>9, SameRowTrans
    <3>11. HeldSessionOK(q)'
      <4>1. /\ n.id = input'[q].cookie /\ n.csrf_verifier = input'[q].csrf
            /\ \E m \in sessions' : SameButRevocation(n, m)
        BY <3>1, <3>3, <3>4, <3>7, <3>9, <3>10
      <4> HIDE <1>t
      <4> QED
        BY <3>1, <3>6, <3>8, <4>1 DEF HeldSessionOK
    <3> QED
      BY <3>1, <3>2, <3>11 DEF NoWrites
  <2> QED
    BY <2>1, <2>2
<1>8. CASE LoseConnection(q) \/ LateCommit(q) \/ Reap(q)
  <2>1. UNCHANGED <<pc, input, session, result>>
    BY <1>8 DEF LoseConnection, LateCommit, Reap
  <2>2. NoWrites(q) => NoWrites(q)'
    BY <1>8 DEF LoseConnection, LateCommit, Apply, Reap, Rollback, NoWrites
  <2>3. HoldsSession(q)' <=> HoldsSession(q)
    BY <2>1 DEF HoldsSession
  <2> QED
    BY <1>q, <1>carry, <2>1, <2>2, <2>3
<1>9. CASE Restart
  BY <1>9, <1>elsewhere DEF Restart, InFlight
<1>10. CASE GetExternalIdentity(q) \/ AddUser(q)
  BY <1>10, <1>elsewhere DEF GetExternalIdentity, AddUser
<1>15. CASE Stores(q) \/ Conflicts(q)
  BY <1>15, <1>elsewhere DEF Stores, Conflicts
<1>11. CASE AddExternalIdentity(q) \/ GetUser(q)
  BY <1>11, <1>elsewhere DEF AddExternalIdentity, GetUser
<1>12. CASE RefuseCsrf(q) \/ RefuseRevokedAt(q)
  BY <1>12, <1>elsewhere DEF RefuseCsrf, RefuseRevokedAt, Refuse
<1>13. CASE UpdateSession(q) \/ StatementFails(q)
  BY <1>13, <1>elsewhere DEF UpdateSession, StatementFails
<1>14. CASE CommitSucceeds(q) \/ CommitRefused(q) \/ CommitLost(q)
  BY <1>14, <1>elsewhere DEF CommitSucceeds, CommitRefused, CommitLost
<1> QED
  BY <1>1, <1>2, <1>3, <1>4, <1>5, <1>6, <1>7, <1>8, <1>9, <1>10, <1>11,
     <1>12, <1>13, <1>14, <1>15, OwnSteps, InsertOutcomes DEF Serve

\* What made a session not live when it was read lasts: rights are only lost.
LEMMA NotLiveStep == ASSUME IInv, [Next]_vars PROVE NotLiveInv'
<1>t. TypeOK /\ TypeOK'
  BY TypeStep DEF IInv
<1> SUFFICES ASSUME NEW q \in Requests,
                    pc'[q] \in {"get_session_user", "get_session_identity"},
                    ~seenLive'[q]
             PROVE  NotLiveOK(q)'
  BY DEF NotLiveInv
<1> USE <1>t DEF Goto, Raise, At, TypeOK, tables, request, tx, locals
<1>1. ASSUME UNCHANGED <<pc, session, user, seenLive>>
                \/ SameRequest(q)
      PROVE  NotLiveOK(q)'
  <2>1. /\ pc'[q] = pc[q] /\ session'[q] = session[q] /\ user'[q] = user[q]
        /\ seenLive'[q] = seenLive[q]
    BY <1>1 DEF SameRequest
  <2>2. NotLiveOK(q) /\ HeldSessionOK(q)
    BY <2>1 DEF IInv, NotLiveInv, ResolveInv, HoldsSession
  <2>3. ASSUME NEW n \in session[q]
        PROVE  \E s \in sessions : n.identity = s.identity /\ n.user = s.user
    <3>1. PICK s \in sessions : SameButRevocation(n, s)
      BY <2>2 DEF HeldSessionOK
    <3>2. n \in SessionRow /\ s \in SessionRow
      OBVIOUS
    <3> QED
      BY <3>1, <3>2, SameRow
  <2>4. ASSUME NEW n \in session[q], \A i \in identities : i.id = n.identity => ~i.enabled
        PROVE  \A i \in identities' : i.id = n.identity => ~i.enabled
    <3>1. PICK i \in identities : i.id = n.identity
      BY <2>3 DEF IInv, IdentityIntegrity
    <3> SUFFICES ASSUME NEW j \in identities', j.id = n.identity
                 PROVE  ~j.enabled
      OBVIOUS
    <3>2. j.enabled => i.enabled
      BY ONLY <3>1, Persist, IInv, [Next]_vars, j.id = n.identity,
              j \in identities'
    <3>3. ~i.enabled
      BY <2>4, <3>1
    <3> QED
      BY <3>2, <3>3
  <2>5. ASSUME NEW n \in session[q],
               \A u \in users : u.id = n.user => u.status # "ACTIVE"
        PROVE  \A u \in users' : u.id = n.user => u.status # "ACTIVE"
    <3>1. PICK u \in users : u.id = n.user
      BY <2>3 DEF IInv, IdentityIntegrity
    <3> SUFFICES ASSUME NEW v \in users', v.id = n.user, v.status = "ACTIVE"
                 PROVE  FALSE
      OBVIOUS
    <3>2. u.status = "ACTIVE"
      BY ONLY <3>1, Persist, IInv, [Next]_vars, v \in users', v.id = n.user,
              v.status = "ACTIVE"
    <3> QED
      BY <2>5, <3>1, <3>2
  <2> QED
    BY <2>1, <2>2, <2>4, <2>5 DEF NotLiveOK
<1>2. CASE GetSession(q)
  <2>1. /\ pc'[q] = "get_session_user" /\ UNCHANGED <<users, identities>>
        /\ session'[q] = {s \in sessions : s.id = input[q].cookie}
        /\ seenLive'[q] = \E s \in session'[q] : Live(s)
        /\ \E s \in session'[q] : s.revoked_at = None
    BY <1>2 DEF GetSession, IsValidAt
  <2>2. ASSUME NEW n \in session'[q]
        PROVE  \/ \A i \in identities : i.id = n.identity => ~i.enabled
               \/ \A u \in users : u.id = n.user => u.status # "ACTIVE"
    <3>1. n.revoked_at = None
      BY <2>1 DEF IInv, KeysInv
    <3>2. ~Live(n)
      BY <2>1
    <3> QED
      BY <3>1, <3>2 DEF Live
  <2> QED
    BY <2>1, <2>2 DEF NotLiveOK
<1>3. CASE GetSessionUser(q)
  <2>1. /\ pc[q] = "get_session_user" /\ pc'[q] = "get_session_identity"
        /\ UNCHANGED <<identities, session, seenLive>>
        /\ user'[q] = {u \in users : \E s \in session[q] : u.id = s.user}
    BY <1>3 DEF GetSessionUser
  <2>2. NotLiveOK(q) /\ HeldSessionOK(q)
    BY <2>1 DEF IInv, NotLiveInv, ResolveInv, HoldsSession
  <2>3. \A n, m \in session[q] : n = m
    BY <2>2 DEF HeldSessionOK
  <2> QED
    BY <2>1, <2>2, <2>3 DEF NotLiveOK
<1>4. CASE Begin(q)
  BY <1>4 DEF Begin, StartLogin, StartInspect, StartLogout, Start, Enter
<1>5. CASE LoseConnection(q) \/ LateCommit(q) \/ Reap(q)
  BY <1>1, <1>5 DEF LoseConnection, LateCommit, Reap
<1>6. CASE Restart
  BY <1>6 DEF Restart, InFlight
<1>7. CASE \/ GetExternalIdentity(q) \/ AddUser(q) \/ AddExternalIdentity(q)
           \/ GetUser(q) \/ AddSession(q) \/ GetSessionIdentity(q)
  BY <1>7 DEF GetExternalIdentity, AddUser, AddExternalIdentity, GetUser,
     AddSession, GetSessionIdentity
<1>8. CASE RefuseCsrf(q) \/ RefuseRevokedAt(q) \/ Revoke(q) \/ UpdateSession(q)
  BY <1>8 DEF RefuseCsrf, RefuseRevokedAt, Refuse, Revoke, Enter, UpdateSession
<1>9. CASE \/ CommitSucceeds(q) \/ CommitRefused(q) \/ CommitLost(q)
           \/ StatementFails(q) \/ Exit(q)
  BY <1>9 DEF CommitSucceeds, CommitRefused, CommitLost, StatementFails, Exit
<1> QED
  BY <1>1, <1>2, <1>3, <1>4, <1>5, <1>6, <1>7, <1>8, <1>9, OwnSteps DEF Serve

\* A transaction that reaches its commit holds what the commit needs.
LEMMA CommitStep == ASSUME IInv, [Next]_vars PROVE CommitInv'
<1>t. TypeOK /\ TypeOK'
  BY TypeStep DEF IInv
<1> SUFFICES ASSUME NEW q \in Requests, Committing(q)' PROVE CommitOK(q)'
  BY DEF CommitInv
<1>carry. ASSUME Committing(q), UNCHANGED <<data, input>> PROVE CommitOK(q)'
  BY <1>carry DEF IInv, CommitInv, CommitOK, data
<1>not. ASSUME pc[q] \in {"idle", "revoke"} \cup Statements
        PROVE  ~Committing(q) /\ q \notin sent
  BY <1>not DEF Committing, At, IInv, SentInv, Statements
<1> USE <1>t DEF Goto, Raise, At, TypeOK, tables, request, tx, locals
<1>1. CASE SameRequest(q)
  BY <1>1 DEF SameRequest, Committing, IInv, CommitInv, CommitOK
<1>2. CASE Stores(q)
  <2>1. PICK u \in user[q], i \in identity[q] :
           user[q] = {u} /\ identity[q] = {i}
    BY <1>2 DEF Stores, AddSession, IInv, LoginInv, LoginOK
  <2>2. newSessions'[q] =
          {NewSession(q, v, j, time[q]) : v \in user[q], j \in identity[q]}
    BY <1>2 DEF Stores, Created
  <2>3. newSessions'[q] = {NewSession(q, u, i, time[q])}
    BY <2>1, <2>2
  <2>4. NewSession(q, u, i, time[q]).revoked_at = None
    BY DEF NewSession
  <2>5. input[q].op = "login" /\ (newUsers[q] # {} <=> newIdentities[q] # {})
    BY <1>2 DEF Stores, AddSession, IInv, ControlInv, ControlOK, LoginSteps, LoginInv,
       LoginOK
  <2>6. UNCHANGED <<input, newUsers, newIdentities>>
    BY <1>2 DEF Stores, AddSession
  <2> QED
    BY <2>3, <2>4, <2>5, <2>6 DEF CommitOK
<1>3. CASE UpdateSession(q)
  <2>1. /\ pc[q] = "update_session" /\ UNCHANGED <<input, newUsers, newIdentities>>
    BY <1>3 DEF UpdateSession
  <2>2. NoWrites(q) /\ HeldSessionOK(q) /\ input[q].op = "logout"
    BY <2>1 DEF IInv, ResolveInv, HoldsSession, RevokeSteps, ControlInv, ControlOK
  <2>3. \A n \in newSessions'[q] : n.revoked_at # None
    BY <1>3, <2>1, <2>2, UpdatedSession DEF HeldSessionOK
  <2>4. newSessions'[q] # {}
    <3> DEFINE matched == {s \in sessions : \E n \in session[q] : s.id = n.id}
    <3>1. matched # {}
      <4>1. PICK n \in session[q], s \in sessions : SameButRevocation(n, s)
        BY <2>2 DEF HeldSessionOK
      <4> QED
        BY <4>1, SameRow
    <3>2. newSessions' = [newSessions EXCEPT ![q] =
              {UpdatedRow(s, n) : s \in matched, n \in session[q]}]
      BY ONLY <1>3, <3>1 DEF UpdateSession
    <3>3. PICK s \in matched, n \in session[q] : TRUE
      BY <3>1
    <3> HIDE DEF matched
    <3>4. UpdatedRow(s, n) \in newSessions'[q]
      BY <3>2, <3>3
    <3> QED
      BY <3>4
  <2> QED
    BY <2>1, <2>2, <2>3, <2>4 DEF CommitOK, NoWrites
<1>4. CASE Begin(q)
  <2>1. pc[q] = "idle" /\ UNCHANGED sent
    BY <1>4 DEF Begin, StartLogin, StartInspect, StartLogout, Start
  <2>2. pc'[q] # "commit"
    BY <1>4 DEF Begin, StartLogin, StartInspect, StartLogout, Start, Enter
  <2> QED
    BY <1>not, <2>1, <2>2 DEF Committing
<1>5. CASE LoseConnection(q) \/ CommitLost(q)
  BY <1>5, <1>carry DEF LoseConnection, CommitLost, Committing, data
<1>6. CASE Restart
  BY <1>6, <1>carry DEF Restart, InFlight, Committing, data
<1>7. CASE \/ GetExternalIdentity(q) \/ AddUser(q) \/ GetUser(q)
           \/ GetSession(q) \/ GetSessionUser(q) \/ GetSessionIdentity(q)
           \/ RefuseCsrf(q) \/ RefuseRevokedAt(q) \/ Revoke(q)
  <2>1. pc[q] \in {"revoke"} \cup Statements /\ UNCHANGED sent
    BY <1>7 DEF GetExternalIdentity, AddUser, GetUser, GetSession,
       GetSessionUser, GetSessionIdentity, RefuseCsrf, RefuseRevokedAt, Refuse,
       Revoke, Statements
  <2>2. pc'[q] # "commit"
    BY <1>7 DEF GetExternalIdentity, AddUser, GetUser, GetSession,
       GetSessionUser, GetSessionIdentity, RefuseCsrf, RefuseRevokedAt, Refuse,
       Revoke, Enter
  <2> QED
    BY <1>not, <2>1, <2>2 DEF Committing
<1>8. CASE Conflicts(q) \/ Inserts(q)
  <2>1. CASE Conflicts(q)
    BY <2>1 DEF Conflicts, Rollback, Committing
  <2>2. CASE Inserts(q)
    BY <1>not, <2>2 DEF Inserts, AddExternalIdentity, Statements, Committing
  <2> QED
    BY <1>8, <2>1, <2>2
<1>9. CASE \/ LateCommit(q) \/ Reap(q) \/ CommitSucceeds(q)
           \/ CommitRefused(q)
  <2>1. q \notin sent' /\ (conn[q] = "open" => pc'[q] # "commit") /\ conn' = conn
    BY <1>9 DEF LateCommit, Reap, CommitSucceeds, CommitRefused, Apply, Rollback,
       IInv, SentInv
  <2> QED
    BY <2>1 DEF Committing
<1>10. CASE StatementFails(q) \/ Exit(q)
  <2>1. pc'[q] # "commit" /\ UNCHANGED input /\ (UNCHANGED tx \/ q \notin sent')
    BY <1>10 DEF StatementFails, Exit, Rollback
  <2> QED
    BY <1>carry, <2>1 DEF Committing, data
<1> QED
  BY <1>1, <1>2, <1>3, <1>4, <1>5, <1>6, <1>7, <1>8, <1>9, <1>10, OwnSteps,
     InsertOutcomes DEF Serve

\* resolve authenticates only a request whose session was live when it was read.
LEMMA AuthenticatedIsLive ==
    ASSUME IInv, NEW q \in Requests, GetSessionIdentity(q),
           result'[q] = "Authenticated"
    PROVE  seenLive[q]
<1>t. TypeOK
  BY DEF IInv
<1>1. pc[q] = "get_session_identity"
  BY DEF GetSessionIdentity, At
<1>2. PICK i \in TrustedIdentity, s \in session[q] :
         i.id = s.identity /\ i.user = s.user
  BY <1>t DEF GetSessionIdentity, Raise, TypeOK
<1>3. IsActive(user[q], TrustedIdentity)
  BY <1>t DEF GetSessionIdentity, Raise, TypeOK
<1>4. \A k \in TrustedIdentity : k = i
  BY DEF TrustedIdentity, IInv, IdentityIntegrity
<1>5. i \in identities /\ i.enabled
  BY <1>3, <1>4 DEF IsActive, TrustedIdentity
<1>6. \E u \in user[q] : u.status = "ACTIVE"
  BY <1>3 DEF IsActive
<1>7. ~NotLiveOK(q)
  BY <1>1, <1>2, <1>5, <1>6 DEF NotLiveOK
<1> QED
  BY <1>1, <1>7 DEF IInv, NotLiveInv

\* AuthenticatedWasLive holds after every step.
LEMMA AuthenticatedStep == ASSUME IInv, [Next]_vars PROVE AuthenticatedWasLive'
<1>t. TypeOK /\ TypeOK' /\ ControlInv /\ AuthenticatedWasLive
  BY TypeStep DEF IInv
<1> SUFFICES ASSUME NEW q \in Requests,
                    result'[q] \in {"Authenticated", "Revoked"}
             PROVE  seenLive'[q]
  BY DEF AuthenticatedWasLive
<1>q. ControlOK(q)
  BY <1>t DEF ControlInv
<1> USE <1>t DEF Goto, Raise, At, TypeOK, tables, request, tx, locals
<1>1. CASE result'[q] = result[q] /\ seenLive'[q] = seenLive[q]
  BY <1>1 DEF AuthenticatedWasLive
<1>2. CASE GetSession(q)
  <2>1. result[q] = "Pending"
    BY <1>2, <1>q DEF GetSession, ControlOK, ResolveSteps
  <2> QED
    BY <1>2, <2>1 DEF GetSession
<1>3. CASE GetSessionIdentity(q)
  <2>1. result'[q] = "Authenticated" /\ seenLive'[q] = seenLive[q]
    BY <1>3 DEF GetSessionIdentity
  <2> QED
    BY <1>3, <2>1, AuthenticatedIsLive
<1>4. CASE CommitSucceeds(q)
  <2>1. /\ pc[q] = "commit" /\ input[q].op # "login"
        /\ seenLive'[q] = seenLive[q]
    BY <1>4 DEF CommitSucceeds
  <2>2. result[q] = "Authenticated"
    BY <1>q, <2>1 DEF ControlOK
  <2> QED
    BY <2>1, <2>2 DEF AuthenticatedWasLive
<1>5. CASE SameRequest(q) \/ LoseConnection(q) \/ LateCommit(q) \/ Reap(q)
  BY <1>1, <1>5 DEF SameRequest, LoseConnection, LateCommit, Reap
<1>6. CASE Begin(q)
  <2>1. ASSUME NEW op, NEW cookie, NEW csrf, NEW first,
               Start(q, op, cookie, csrf, first)
        PROVE  seenLive'[q]
    BY <1>1, <2>1 DEF Start, Enter
  <2> QED
    BY <1>6, <2>1 DEF Begin, StartLogin, StartInspect, StartLogout
<1>7. CASE Restart
  BY <1>1, <1>7 DEF Restart
<1>8. CASE GetExternalIdentity(q) \/ AddUser(q) \/ GetSessionUser(q)
  BY <1>1, <1>8 DEF GetExternalIdentity, AddUser, GetSessionUser
<1>12. CASE AddSession(q)
  <2>1. seenLive' = seenLive
    BY <1>12 DEF AddSession
  <2> QED
    BY <1>1, <1>12, <2>1, InsertOutcomes DEF Stores, Conflicts
<1>9. CASE AddExternalIdentity(q) \/ GetUser(q) \/ UpdateSession(q)
  BY <1>1, <1>9 DEF AddExternalIdentity, GetUser, UpdateSession
<1>10. CASE RefuseCsrf(q) \/ RefuseRevokedAt(q) \/ Revoke(q)
  BY <1>1, <1>10 DEF RefuseCsrf, RefuseRevokedAt, Refuse, Revoke, Enter
<1>11. CASE CommitRefused(q) \/ CommitLost(q) \/ StatementFails(q) \/ Exit(q)
  BY <1>1, <1>11 DEF CommitRefused, CommitLost, StatementFails, Exit
<1> QED
  BY <1>2, <1>3, <1>4, <1>5, <1>6, <1>7, <1>8, <1>9, <1>10, <1>11, <1>12,
     OwnSteps DEF Serve

\* CallInv holds after every step.
LEMMA CallStep == ASSUME IInv, [Next]_vars PROVE CallInv'
<1>t. TypeOK /\ TypeOK' /\ ControlInv /\ CallInv
  BY TypeStep DEF IInv
<1> SUFFICES ASSUME NEW q \in Requests PROVE CallOK(q)'
  BY DEF CallInv
<1>q. CallOK(q) /\ ControlOK(q)
  BY <1>t DEF CallInv, ControlInv
<1> USE DEF Goto, Raise, At, TypeOK, tables, request, tx, locals, CallOK,
        ResolveSteps
<1>1. CASE SameRequest(q) \/ LoseConnection(q) \/ LateCommit(q) \/ Reap(q)
  BY <1>1, <1>q DEF SameRequest, LoseConnection, LateCommit, Reap
<1>2. CASE Begin(q)
  <2>1. ASSUME NEW op \in {"login", "inspect", "logout"}, NEW cookie, NEW csrf,
               NEW first \in {"get_external_identity", "get_session"},
               first = "get_session" => op # "login",
               Start(q, op, cookie, csrf, first)
        PROVE  CallOK(q)'
    <3>1. /\ pc[q] = "idle" /\ result[q] = "Pending" /\ ~seenLive[q]
          /\ input'[q].op = op
          /\ seenLive'[q] = seenLive[q]
      BY <1>t, <1>q, <2>1 DEF Start, ControlOK
    <3>2. \/ pc'[q] = first /\ result'[q] = result[q]
          \/ pc'[q] = "done" /\ result'[q] = "IdentityPersistenceError"
      BY <1>t, <2>1 DEF Start, Enter
    <3>3. first = "get_session" => op \in {"inspect", "logout"}
      BY <2>1
    <3> QED
      BY <3>1, <3>2, <3>3
  <2> QED
    BY <1>2, <2>1 DEF Begin, StartLogin, StartInspect, StartLogout
<1>3. CASE GetExternalIdentity(q) \/ AddUser(q) \/ AddSession(q)
  BY <1>3, <1>q, <1>t
  DEF GetExternalIdentity, AddUser, AddSession, ControlOK, LoginSteps
<1>4. CASE AddExternalIdentity(q) \/ GetUser(q)
  BY <1>4, <1>q, <1>t DEF AddExternalIdentity, GetUser, ControlOK, LoginSteps
<1>5. CASE GetSession(q) \/ GetSessionUser(q)
  BY <1>5, <1>q, <1>t DEF GetSession, GetSessionUser, ControlOK
<1>6. CASE GetSessionIdentity(q)
  BY <1>6, <1>q, <1>t DEF GetSessionIdentity, ControlOK
<1>7. CASE RefuseCsrf(q) \/ RefuseRevokedAt(q) \/ Revoke(q)
  BY <1>7, <1>q, <1>t
  DEF RefuseCsrf, RefuseRevokedAt, Refuse, Revoke, Enter, ControlOK, RevokeSteps
<1>8. CASE UpdateSession(q)
  <2>1. PICK n \in session[q], s \in sessions : SameButRevocation(n, s)
    BY <1>8 DEF UpdateSession, IInv, ResolveInv, HoldsSession, HeldSessionOK,
       RevokeSteps
  <2>2. s.id = n.id
    BY <1>t, <2>1, SameRow
  <2>3. pc'[q] = "commit" /\ result'[q] = result[q]
    BY <1>8, <1>t, <2>2 DEF UpdateSession
  <2> QED
    BY <1>8, <1>q, <2>3 DEF UpdateSession
<1>9. CASE CommitSucceeds(q)
  BY <1>9, <1>q, <1>t DEF CommitSucceeds, ControlOK
<1>10. CASE CommitRefused(q) \/ CommitLost(q) \/ StatementFails(q)
  BY <1>10, <1>q, <1>t DEF CommitRefused, CommitLost, StatementFails, Statements
<1>11. CASE Exit(q)
  BY <1>11, <1>q, <1>t DEF Exit
<1>12. CASE Restart
  BY <1>12, <1>q, <1>t DEF Restart, InFlight
<1> QED
  BY <1>t, <1>1, <1>2, <1>3, <1>4, <1>5, <1>6, <1>7, <1>8, <1>9, <1>10, <1>11,
     <1>12, OwnSteps DEF Serve

\* CsrfInv holds after every step.
LEMMA CsrfStep == ASSUME IInv, [Next]_vars PROVE CsrfInv'
<1>t. TypeOK /\ CsrfInv
  BY DEF IInv
<1> USE <1>t DEF CsrfInv, TypeOK
<1>1. ASSUME NEW r \in Requests, Rollback(r), UNCHANGED sessions
      PROVE  CsrfInv'
  BY <1>1 DEF Rollback
<1>2. CASE UNCHANGED <<sessions, newSessions>>
  BY <1>2
<1>3. ASSUME NEW r \in Requests, Stores(r) PROVE CsrfInv'
  <2>1. newSessions' = [newSessions EXCEPT ![r] =
           {NewSession(r, u, i, time[r]) : u \in user[r], i \in identity[r]}]
    BY <1>3 DEF Stores, Created
  <2>2. \A u, i : /\ NewSession(r, u, i, time[r]).csrf_verifier = r
                  /\ NewSession(r, u, i, time[r]).id = r
    BY DEF NewSession
  <2>3. \A n \in newSessions'[r] : n.csrf_verifier = n.id
    BY <2>1, <2>2
  <2>4. \A q \in Requests \ {r} : newSessions'[q] = newSessions[q]
    BY <2>1
  <2>5. UNCHANGED sessions
    BY <1>3 DEF Stores, AddSession, tables
  <2> QED
    BY <2>3, <2>4, <2>5
<1>4. ASSUME NEW r \in Requests, UpdateSession(r) PROVE CsrfInv'
  <2>1. \A n \in newSessions'[r] : n.csrf_verifier = n.id
    <3> SUFFICES ASSUME NEW n \in newSessions'[r] PROVE n.csrf_verifier = n.id
      OBVIOUS
    <3>1. PICK s \in sessions : n \in session[r] /\ SameButRevocation(n, s)
      BY <1>4, UpdatedSession
    <3> QED
      BY <3>1, SameRow
  <2>2. \A q \in Requests \ {r} : newSessions'[q] = newSessions[q]
    BY <1>4 DEF UpdateSession
  <2>3. UNCHANGED sessions
    BY <1>4 DEF UpdateSession, tables
  <2> QED
    BY <2>1, <2>2, <2>3
<1>5. ASSUME NEW r \in Requests, Commits(r) PROVE CsrfInv'
  BY <1>5 DEF Commits, Apply, Rollback
<1>6. CASE \/ UNCHANGED <<tables, durable, data>> \/ DisableUser \/ DisableIdentity
           \/ \E r \in Requests : AddUser(r)
           \/ \E r \in Requests : Inserts(r)
  <2>1. UNCHANGED <<sessions, newSessions>>
    BY <1>6 DEF tables, tx, data, DisableUser, DisableIdentity, AddUser,
       Inserts, AddExternalIdentity
  <2> QED
    BY <2>1
<1> QED
  BY <1>1, <1>2, <1>3, <1>4, <1>5, <1>6, DataSteps DEF tables

\* A session keeps the name of its login, and thereby the times: a login that
\* has written or committed one has begun, so its clock reading stays.
LEMMA TimesStep == ASSUME IInv, [Next]_vars PROVE TimesInv'
<1>t. TypeOK /\ TimesInv /\ ControlInv
  BY DEF IInv
<1>begun. /\ \A s \in sessions : time'[s.id] = time[s.id]
          /\ \A r \in Requests : \A n \in newSessions[r] : time'[n.id] = time[n.id]
  <2>1. \A s \in sessions : s.id \in Requests /\ pc[s.id] # "idle"
    BY <1>t DEF IInv, KeysInv, DurableInv, TypeOK
  <2>2. ASSUME NEW r \in Requests, NEW n \in newSessions[r]
        PROVE  n.id \in Requests /\ pc[n.id] # "idle"
    <3>1. n.id = r \/ \E s \in sessions : SameButRevocation(n, s)
      BY <2>2 DEF IInv, NewVersionsInv, VersionOK
    <3>2. pc[r] # "idle"
      BY <1>t, <2>2 DEF ControlInv, ControlOK, NoWrites
    <3>3. \A s \in sessions : SameButRevocation(n, s) => n.id = s.id
      BY <1>t, <2>2, SameRow DEF TypeOK
    <3> QED
      BY <2>1, <3>1, <3>2, <3>3
  <2> QED
    BY <1>t, <2>1, <2>2, InputSteps
<1> USE DEF TimesInv, TimesOfLogin
<1>1. ASSUME NEW r \in Requests, Rollback(r), UNCHANGED sessions
      PROVE  TimesInv'
  BY <1>1, <1>t, <1>begun DEF Rollback, TypeOK
<1>2. CASE UNCHANGED <<sessions, newSessions>>
  BY <1>2, <1>t, <1>begun
<1>3. ASSUME NEW r \in Requests, Stores(r) PROVE TimesInv'
  <2>1. newSessions' = [newSessions EXCEPT ![r] =
           {NewSession(r, u, i, time[r]) : u \in user[r], i \in identity[r]}]
    BY <1>3 DEF Stores, Created
  <2>2. \A u, i : LET n == NewSession(r, u, i, time[r])
                 IN  /\ n.id = r /\ n.created_at = time[r]
                     /\ n.idle_expires_at = time[r] + IdleLifetime
                     /\ n.absolute_expires_at = time[r] + AbsoluteLifetime
    BY DEF NewSession
  <2>3. UNCHANGED <<sessions, time>>
    BY <1>3 DEF Stores, AddSession, tables, request
  <2>4. \A n \in newSessions'[r] : TimesOfLogin(n)'
    BY <1>t, <2>1, <2>2, <2>3 DEF TypeOK
  <2>5. \A q \in Requests \ {r} : newSessions'[q] = newSessions[q]
    BY <1>t, <2>1 DEF TypeOK
  <2> QED
    BY <1>t, <1>begun, <2>3, <2>4, <2>5
<1>4. ASSUME NEW r \in Requests, UpdateSession(r) PROVE TimesInv'
  <2>1. UNCHANGED <<sessions, time>>
    BY <1>4 DEF UpdateSession, tables, request
  <2>2. ASSUME NEW n \in newSessions'[r] PROVE TimesOfLogin(n)'
    <3>1. PICK s \in sessions : n \in session[r] /\ SameButRevocation(n, s)
      BY <1>4, <2>2, UpdatedSession
    <3>2. n \in SessionRow /\ s \in SessionRow
      BY <1>t, <3>1 DEF TypeOK
    <3> QED
      BY <1>t, <2>1, <3>1, <3>2, SameRow
  <2>3. \A q \in Requests \ {r} : newSessions'[q] = newSessions[q]
    BY <1>4, <1>t DEF UpdateSession, TypeOK
  <2> QED
    BY <1>t, <1>begun, <2>1, <2>2, <2>3
<1>5. ASSUME NEW r \in Requests, Commits(r) PROVE TimesInv'
  <2>1. \A s \in sessions' : s \in sessions \/ s \in newSessions[r]
    BY <1>5 DEF Commits, Apply
  <2>2. \A q \in Requests : newSessions'[q] \subseteq newSessions[q]
    BY <1>5, <1>t DEF Commits, Apply, Rollback, TypeOK
  <2> QED
    BY <1>t, <1>begun, <2>1, <2>2
<1>6. CASE \/ UNCHANGED <<tables, durable, data>> \/ DisableUser \/ DisableIdentity
           \/ \E r \in Requests : AddUser(r)
           \/ \E r \in Requests : Inserts(r)
  <2>1. UNCHANGED <<sessions, newSessions>>
    BY <1>6 DEF tables, tx, data, DisableUser, DisableIdentity, AddUser,
       Inserts, AddExternalIdentity
  <2> QED
    BY <1>2, <2>1
<1> QED
  BY <1>1, <1>2, <1>3, <1>4, <1>5, <1>6, DataSteps DEF tables

\* resolve lets only those pass that were called within the idle lifetime.
LEMMA InTimeStep == ASSUME IInv, [Next]_vars PROVE InTimeInv'
<1>t. TypeOK /\ TypeOK' /\ ControlInv /\ InTimeInv
  BY TypeStep DEF IInv
<1> SUFFICES ASSUME NEW q \in Requests, LetPass(q)' PROVE WithinIdleLifetime(q)'
  BY DEF InTimeInv
<1>q. ControlOK(q)
  BY <1>t DEF ControlInv
<1>carry. ASSUME pc[q] # "idle", WithinIdleLifetime(q)
          PROVE  WithinIdleLifetime(q)'
  <2>1. input'[q] = input[q] /\ time'[q] = time[q]
    BY <1>t, <1>carry, InputSteps
  <2>2. input[q].cookie \in durable'
    BY <1>carry, Persist DEF WithinIdleLifetime
  <2>3. input[q].cookie \in Requests /\ pc[input[q].cookie] # "idle"
    BY <1>t, <1>carry DEF WithinIdleLifetime, IInv, DurableInv, TypeOK
  <2>4. time'[input[q].cookie] = time[input[q].cookie]
    BY <1>t, <2>3, InputSteps
  <2> QED
    BY <1>carry, <2>1, <2>2, <2>4 DEF WithinIdleLifetime
<1>1. CASE LetPass(q)
  <2>1. pc[q] # "idle"
    BY <1>1, <1>q DEF LetPass, ControlOK
  <2> QED
    BY <1>1, <1>t, <1>carry, <2>1 DEF InTimeInv
<1> USE DEF Goto, Raise, At, TypeOK, tables, request, tx, locals, LetPass
<1>2. CASE GetSession(q)
  <2>1. PICK s \in sessions : s.id = input[q].cookie /\ IsValidAt(s, time[q])
    BY <1>2, <1>t, <1>q DEF GetSession, ControlOK, ResolveSteps
  <2>2. s.id \in durable /\ s.idle_expires_at = time[s.id] + IdleLifetime
    BY DEF IInv, KeysInv, TimesInv, TimesOfLogin
  <2>3. WithinIdleLifetime(q)
    BY <2>1, <2>2 DEF WithinIdleLifetime, IsValidAt
  <2> QED
    BY <1>2, <1>carry, <2>3 DEF GetSession
<1>3. CASE CommitSucceeds(q)
  <2>1. input[q].op # "login"
    BY <1>3, <1>t DEF CommitSucceeds
  <2>2. result[q] = "Authenticated"
    BY <1>3, <1>q, <2>1 DEF CommitSucceeds, ControlOK
  <2> QED
    BY <1>1, <2>2
<1>4. CASE SameRequest(q) \/ LoseConnection(q) \/ LateCommit(q) \/ Reap(q)
  BY <1>1, <1>4 DEF SameRequest, LoseConnection, LateCommit, Reap
<1>5. CASE Begin(q)
  <2>1. ASSUME NEW op, NEW cookie, NEW csrf,
               NEW first \in {"get_external_identity", "get_session"},
               Start(q, op, cookie, csrf, first)
        PROVE  FALSE
    <3>1. pc[q] = "idle" /\ result[q] = "Pending"
      BY <1>q, <2>1 DEF Start, ControlOK
    <3>2. \/ pc'[q] = first /\ result'[q] = result[q]
          \/ pc'[q] = "done" /\ result'[q] = "IdentityPersistenceError"
      BY <1>t, <2>1 DEF Start, Enter
    <3> QED
      BY <3>1, <3>2
  <2> QED
    BY <1>5, <2>1 DEF Begin, StartLogin, StartInspect, StartLogout
<1>6. CASE GetSessionUser(q) \/ GetSessionIdentity(q)
  BY <1>1, <1>6 DEF GetSessionUser, GetSessionIdentity
<1>7. CASE GetExternalIdentity(q) \/ AddUser(q) \/ Stores(q) \/ Conflicts(q)
  BY <1>1, <1>7, <1>t DEF GetExternalIdentity, AddUser, Stores, Conflicts
<1>8. CASE AddExternalIdentity(q) \/ GetUser(q) \/ UpdateSession(q)
  BY <1>1, <1>8, <1>t DEF AddExternalIdentity, GetUser, UpdateSession
<1>9. CASE RefuseCsrf(q) \/ RefuseRevokedAt(q) \/ Revoke(q)
  BY <1>1, <1>9, <1>t DEF RefuseCsrf, RefuseRevokedAt, Refuse, Revoke, Enter
<1>10. CASE CommitRefused(q) \/ CommitLost(q) \/ StatementFails(q) \/ Exit(q)
  BY <1>1, <1>10, <1>t DEF CommitRefused, CommitLost, StatementFails, Exit
<1>11. CASE Restart
  BY <1>1, <1>11, <1>t DEF Restart, InFlight
<1> QED
  BY <1>t, <1>2, <1>3, <1>4, <1>5, <1>6, <1>7, <1>8, <1>9, <1>10, <1>11, OwnSteps,
     InsertOutcomes DEF Serve

\* The client of a late COMMIT is gone.
LEMMA SentStep == ASSUME IInv, [Next]_vars PROVE SentInv'
<1>t. TypeOK /\ TypeOK' /\ ControlInv /\ SentInv /\ AuthenticatedWasLive
  BY TypeStep DEF IInv
<1> DEFINE SentOK(q) ==
        /\ pc[q] \in {"exit", "done"} /\ conn[q] # "open"
        /\ result[q] \in {"OperationalError", "Crashed"}
        /\ input[q].op = "login" \/ (input[q].op = "logout" /\ seenLive[q])
<1> SUFFICES ASSUME NEW q \in Requests, q \in sent' PROVE SentOK(q)'
  BY <1>t DEF SentInv, TypeOK
<1>q. ControlOK(q) /\ (q \in sent => SentOK(q))
  BY <1>t DEF ControlInv, SentInv
<1>commit. ASSUME pc[q] = "commit"
           PROVE  input[q].op = "login" \/ (input[q].op = "logout" /\ seenLive[q])
  BY <1>commit, <1>t, <1>q DEF ControlOK, AuthenticatedWasLive
<1> USE <1>t DEF Goto, Raise, At, TypeOK, request, tx, locals
<1>1. CASE SameRequest(q)
  BY <1>1, <1>q DEF SameRequest
<1>2. CASE CommitLost(q)
  <2>1. pc[q] = "commit" /\ q \notin sent /\ q \in sent'
    BY <1>2, <1>q DEF CommitLost
  <2> QED
    BY <1>2, <1>commit, <2>1 DEF CommitLost
<1>3. CASE Restart
  <2>1. CASE q \in sent
    BY <1>3, <1>q, <2>1 DEF Restart, InFlight
  <2>2. CASE q \notin sent
    BY <1>3, <1>commit, <2>2 DEF Restart, InFlight
  <2> QED
    BY <2>1, <2>2
<1>4. CASE Exit(q)
  BY <1>4, <1>q DEF Exit, Rollback, Committed
<1>5. CASE LateCommit(q) \/ Reap(q)
  BY <1>5 DEF LateCommit, Apply, Reap, Rollback
<1>6. CASE LoseConnection(q)
  BY <1>6, <1>q DEF LoseConnection
<1>7. CASE Begin(q)
  BY <1>7, <1>q DEF Begin, StartLogin, StartInspect, StartLogout, Start
<1>8. CASE Conflicts(q) \/ CommitSucceeds(q) \/ CommitRefused(q)
  BY <1>8 DEF Conflicts, CommitSucceeds, Apply, CommitRefused, Rollback
<1>9. ASSUME pc[q] \in {"revoke"} \cup Statements PROVE q \notin sent
  BY <1>9, <1>q DEF Statements
<1>10. CASE \/ GetExternalIdentity(q) \/ AddUser(q) \/ Inserts(q) \/ GetUser(q)
            \/ Stores(q)
  BY <1>9, <1>10 DEF GetExternalIdentity, AddUser, Inserts, AddExternalIdentity,
     GetUser, Stores, AddSession, Statements
<1>11. CASE \/ GetSession(q) \/ GetSessionUser(q) \/ GetSessionIdentity(q)
            \/ RefuseCsrf(q) \/ RefuseRevokedAt(q) \/ Revoke(q)
            \/ UpdateSession(q)
  BY <1>9, <1>11 DEF GetSession, GetSessionUser, GetSessionIdentity, RefuseCsrf,
     RefuseRevokedAt, Refuse, Revoke, UpdateSession, Statements
<1>12. CASE StatementFails(q)
  BY <1>9, <1>12 DEF StatementFails, Rollback
<1> QED
  BY <1>1, <1>2, <1>3, <1>4, <1>5, <1>6, <1>7, <1>8, <1>10, <1>11, <1>12,
     OwnSteps, InsertOutcomes DEF Serve

\* The user that resolve has read is the session's, and rights are only lost.
LEMMA UserReadStep == ASSUME IInv, [Next]_vars PROVE UserReadInv'
<1>t. TypeOK /\ TypeOK'
  BY TypeStep DEF IInv
<1> SUFFICES ASSUME NEW q \in Requests, pc'[q] = "get_session_identity"
             PROVE  UserReadOK(q)'
  BY DEF UserReadInv
<1> USE <1>t DEF Goto, Raise, At, TypeOK, tables, request, tx, locals
<1>1. CASE UNCHANGED <<pc, session, user>> \/ SameRequest(q)
  <2>1. pc'[q] = pc[q] /\ session'[q] = session[q] /\ user'[q] = user[q]
    BY <1>1 DEF SameRequest
  <2>2. UserReadOK(q)
    BY <2>1 DEF IInv, UserReadInv
  <2>3. ASSUME NEW v \in users, v.status = "DISABLED"
        PROVE  \E w \in users' : w.id = v.id /\ w.status = "DISABLED"
    <3>1. PICK w \in users' : w.id = v.id
      BY ONLY Persist, IInv, [Next]_vars, v \in users
    <3>2. w.status = "ACTIVE" => v.status = "ACTIVE"
      BY ONLY Persist, IInv, [Next]_vars, v \in users, w \in users', <3>1
    <3>3. w \in UserRow
      OBVIOUS
    <3> QED
      BY <2>3, <3>1, <3>2, <3>3 DEF UserRow
  <2> QED
    BY <2>1, <2>2, <2>3 DEF UserReadOK
<1>2. CASE GetSessionUser(q)
  <2>1. /\ pc[q] = "get_session_user" /\ UNCHANGED <<users, session>>
        /\ user'[q] = {u \in users : \E s \in session[q] : u.id = s.user}
    BY <1>2 DEF GetSessionUser
  <2>2. HeldSessionOK(q)
    BY <2>1 DEF IInv, ResolveInv, HoldsSession
  <2>3. PICK n \in session[q] : \A m \in session[q] : m = n
    BY <2>2 DEF HeldSessionOK
  <2>4. PICK s \in sessions : SameButRevocation(n, s)
    BY <2>2 DEF HeldSessionOK
  <2>5. n.user = s.user
    BY <2>4, SameRow
  <2>6. PICK u \in users : u.id = n.user
    BY <2>5 DEF IInv, IdentityIntegrity
  <2>7. u \in user'[q]
    BY <2>1, <2>6
  <2> QED
    BY <2>1, <2>3, <2>7 DEF UserReadOK
<1>3. CASE LoseConnection(q) \/ LateCommit(q) \/ Reap(q)
  BY <1>1, <1>3 DEF LoseConnection, LateCommit, Reap
<1>4. CASE Restart
  BY <1>4 DEF Restart, InFlight
<1>5. CASE Begin(q)
  BY <1>5 DEF Begin, StartLogin, StartInspect, StartLogout, Start, Enter
<1>6. CASE \/ GetExternalIdentity(q) \/ AddUser(q) \/ AddExternalIdentity(q)
           \/ GetUser(q) \/ AddSession(q)
  BY <1>6 DEF GetExternalIdentity, AddUser, AddExternalIdentity, GetUser,
     AddSession
<1>7. CASE \/ GetSession(q) \/ GetSessionIdentity(q) \/ RefuseCsrf(q)
           \/ RefuseRevokedAt(q) \/ Revoke(q) \/ UpdateSession(q)
  BY <1>7 DEF GetSession, GetSessionIdentity, RefuseCsrf, RefuseRevokedAt, Refuse,
     Revoke, Enter, UpdateSession
<1>8. CASE \/ CommitSucceeds(q) \/ CommitRefused(q) \/ CommitLost(q)
           \/ StatementFails(q) \/ Exit(q)
  BY <1>8 DEF CommitSucceeds, CommitRefused, CommitLost, StatementFails, Exit
<1> QED
  BY <1>1, <1>2, <1>3, <1>4, <1>5, <1>6, <1>7, <1>8, OwnSteps DEF Serve

\* The identity that a login has found keeps its key, its user and its subject.
LEMMA IdentityReadStep == ASSUME IInv, [Next]_vars PROVE IdentityReadInv'
<1>t. TypeOK /\ TypeOK'
  BY TypeStep DEF IInv
<1> SUFFICES ASSUME NEW q \in Requests, pc'[q] = "get_user"
             PROVE  IdentityReadOK(q)'
  BY DEF IdentityReadInv
<1> USE <1>t DEF Goto, Raise, At, TypeOK, tables, request, tx, locals, clock
<1>1. CASE UNCHANGED <<pc, identity, trusted>> \/ SameRequest(q)
  <2>1. pc'[q] = pc[q] /\ identity'[q] = identity[q] /\ trusted' = trusted
    BY <1>1 DEF SameRequest
  <2>2. IdentityReadOK(q)
    BY <2>1 DEF IInv, IdentityReadInv
  <2>3. ASSUME NEW i \in identity[q]
        PROVE  \E j \in identities' :
                  /\ j.subject = trusted
                  /\ j.id = i.id /\ j.user = i.user /\ (j.enabled => i.enabled)
    <3>1. PICK j \in identities :
             /\ j.subject = trusted
             /\ j.id = i.id /\ j.user = i.user /\ (j.enabled => i.enabled)
      BY <2>2 DEF IdentityReadOK, TrustedIdentity
    <3>2. PICK k \in identities' :
             k.id = j.id /\ k.user = j.user /\ k.subject = j.subject
      BY ONLY Persist, IInv, [Next]_vars, j \in identities
    <3>3. k.enabled => j.enabled
      BY ONLY Persist, IInv, [Next]_vars, j \in identities, k \in identities',
              <3>2
    <3> QED
      BY <3>1, <3>2, <3>3
  <2> QED
    BY <2>1, <2>2, <2>3 DEF IdentityReadOK, TrustedIdentity
<1>2. CASE GetExternalIdentity(q)
  BY <1>2 DEF GetExternalIdentity, IdentityReadOK, TrustedIdentity
<1>3. CASE LoseConnection(q) \/ LateCommit(q) \/ Reap(q)
  BY <1>1, <1>3 DEF LoseConnection, LateCommit, Reap
<1>4. CASE Restart
  BY <1>4 DEF Restart, InFlight
<1>5. CASE Begin(q)
  BY <1>5 DEF Begin, StartLogin, StartInspect, StartLogout, Start, Enter
<1>6. CASE \/ AddUser(q) \/ AddExternalIdentity(q) \/ GetUser(q)
           \/ AddSession(q) \/ GetSessionUser(q)
  BY <1>6 DEF AddUser, AddExternalIdentity, GetUser, AddSession, GetSessionUser
<1>7. CASE \/ GetSession(q) \/ GetSessionIdentity(q) \/ RefuseCsrf(q)
           \/ RefuseRevokedAt(q) \/ Revoke(q) \/ UpdateSession(q)
  BY <1>7 DEF GetSession, GetSessionIdentity, RefuseCsrf, RefuseRevokedAt, Refuse,
     Revoke, Enter, UpdateSession
<1>8. CASE \/ CommitSucceeds(q) \/ CommitRefused(q) \/ CommitLost(q)
           \/ StatementFails(q) \/ Exit(q)
  BY <1>8 DEF CommitSucceeds, CommitRefused, CommitLost, StatementFails, Exit
<1> QED
  BY <1>1, <1>2, <1>3, <1>4, <1>5, <1>6, <1>7, <1>8, OwnSteps DEF Serve

\* The cookies that browsers hold are those of logins that were answered.
LEMMA CookieStep == ASSUME IInv, [Next]_vars PROVE CookieInv'
<1>t. TypeOK /\ TypeOK' /\ CallInv
  BY TypeStep DEF IInv
<1> SUFFICES ASSUME NEW q \in Requests PROVE CookieOK(q)'
  BY DEF CookieInv
<1>stay. \A s \in sessions : \E n \in sessions' : n.id = s.id
  BY <1>t, Persist, SameRow DEF TypeOK
<1>1. CASE input'[q] = input[q]
  BY <1>1, <1>stay DEF IInv, CookieInv, CookieOK
<1>2. CASE Begin(q)
  <2>1. PICK cookie \in Issued : input'[q].cookie = cookie
    <3>1. ASSUME NEW op, NEW cookie, NEW csrf, NEW first,
                 Start(q, op, cookie, csrf, first)
          PROVE  input'[q].cookie = cookie
      BY <1>t, <3>1 DEF Start, TypeOK
    <3> QED
      BY <1>2, <3>1 DEF Begin, StartLogin, StartInspect, StartLogout, Issued
  <2>2. cookie # NoToken => \E s \in sessions : s.id = cookie
    BY <2>1 DEF Issued, IInv, OutcomeMatchesCommit, AnswerIsTrue
  <2> QED
    BY <1>stay, <2>1, <2>2 DEF CookieOK
<1>3. CASE pc[q] = "idle" /\ ~Begin(q)
  <2>1. \/ SameRequest(q) \/ LoseConnection(q) \/ LateCommit(q) \/ Reap(q)
        \/ Restart
        => input'[q] = input[q]
    BY DEF SameRequest, LoseConnection, LateCommit, Reap, Restart, request
  <2>2. ~Serve(q)
    BY <1>3 DEF Serve, GetExternalIdentity, AddUser, AddExternalIdentity,
       GetUser, AddSession, GetSession, GetSessionUser, GetSessionIdentity,
       RefuseCsrf, RefuseRevokedAt, Refuse, Revoke, UpdateSession,
       CommitSucceeds, CommitRefused, CommitLost, StatementFails, Statements, At,
       Exit
  <2> QED
    BY <1>t, <1>1, <1>3, <2>1, <2>2, OwnSteps
<1> QED
  BY <1>t, <1>1, <1>2, <1>3, InputSteps

\* resolve finds a session invalid for a reason,
LEMMA InvalidHasReason ==
    ASSUME IInv, NEW q \in Requests,
           \/ GetSession(q) /\ pc'[q] = "exit"
           \/ GetSessionIdentity(q) /\ result'[q] = "InvalidSession"
    PROVE  InvalidWithReason(q)
<1>t. TypeOK
  BY DEF IInv
<1> SUFFICES ASSUME input[q].cookie # NoToken PROVE InvalidWithReason(q)
  BY DEF InvalidWithReason
<1>1. PICK s \in sessions : s.id = input[q].cookie
  BY DEF IInv, CookieInv, CookieOK
<1>2. CASE GetSession(q) /\ pc'[q] = "exit"
  <2>1. ~IsValidAt(s, time[q])
    BY <1>t, <1>1, <1>2 DEF GetSession, Goto, TypeOK
  <2>2. /\ s.idle_expires_at = time[s.id] + IdleLifetime
        /\ s.absolute_expires_at = time[s.id] + AbsoluteLifetime
    BY DEF IInv, TimesInv, TimesOfLogin
  <2>3. time[q] \in Int /\ time[s.id] \in Int
    BY <1>t DEF TypeOK, SessionRow, Times
  <2> QED
    BY <1>1, <2>1, <2>2, <2>3, LifetimesAssumption
       DEF IsValidAt, InvalidWithReason
<1>3. CASE GetSessionIdentity(q) /\ result'[q] = "InvalidSession"
  <2>1. pc[q] = "get_session_identity"
    BY <1>3 DEF GetSessionIdentity, At
  <2>2. HeldSessionOK(q) /\ UserReadOK(q)
    BY <2>1 DEF IInv, ResolveInv, HoldsSession, UserReadInv
  <2>3. PICK n \in session[q], m \in sessions : SameButRevocation(n, m)
    BY <2>2 DEF HeldSessionOK
  <2>4. n.id = m.id /\ n.user = m.user /\ n.identity = m.identity
    BY <1>t, <2>3, SameRow DEF TypeOK
  <2>5. m = s
    BY <1>1, <2>2, <2>3, <2>4 DEF HeldSessionOK, IInv, KeysInv
  <2>6. user[q] # {}
    BY <2>2 DEF UserReadOK
  <2>7. \A i \in TrustedIdentity : ~(i.id = n.identity /\ i.user = n.user)
    BY <1>t, <1>3, <2>3, <2>6 DEF GetSessionIdentity, Raise, TypeOK
  <2>8. PICK j \in identities : j.id = s.identity /\ j.user = s.user
    BY DEF IInv, IdentityIntegrity
  <2>9. \A i \in TrustedIdentity : i.id # s.identity
    BY <2>4, <2>5, <2>7, <2>8 DEF TrustedIdentity, IInv, KeysInv
  <2> QED
    BY <1>1, <2>9 DEF InvalidWithReason
<1> QED
  BY <1>2, <1>3

\* and an identity inactive for a reason, as establish does.
LEMMA InactiveHasReason ==
    ASSUME IInv, NEW q \in Requests, GetUser(q) \/ GetSessionIdentity(q),
           result'[q] = "InactiveIdentity"
    PROVE  InactiveWithReason
<1>t. TypeOK
  BY DEF IInv
<1>1. CASE GetUser(q)
  <2> DEFINE found == {u \in users : \E i \in identity[q] : u.id = i.user}
  <2>1. pc[q] = "get_user"
    BY <1>1 DEF GetUser, At
  <2>2. ~IsActive(found, identity[q])
    <3>1. result[q] # "InactiveIdentity"
      BY <2>1 DEF IInv, ControlInv, ControlOK, LoginSteps
    <3> QED
      BY <1>1, <3>1 DEF GetUser
  <2>3. IdentityReadOK(q) /\ LoginOK(q)
    BY <2>1 DEF IInv, IdentityReadInv, LoginInv
  <2>4. PICK i \in identity[q] : \A k \in identity[q] : k = i
    BY <2>1, <2>3 DEF IdentityReadOK, LoginOK
  <2>5. PICK j \in TrustedIdentity :
           j.id = i.id /\ j.user = i.user /\ (j.enabled => i.enabled)
    BY <2>3 DEF IdentityReadOK
  <2>6. PICK u \in users : u.id = j.user
    BY <2>5 DEF TrustedIdentity, IInv, IdentityIntegrity
  <2>7. u \in found
    BY <2>5, <2>6
  <2>8. u.status \in {"ACTIVE", "DISABLED"}
    BY <1>t DEF TypeOK, UserRow
  <2>9. ~i.enabled \/ u.status # "ACTIVE"
    BY <2>2, <2>7 DEF IsActive
  <2> QED
    BY <2>5, <2>6, <2>8, <2>9 DEF InactiveWithReason
<1>2. CASE GetSessionIdentity(q)
  <2>1. pc[q] = "get_session_identity"
    BY <1>2 DEF GetSessionIdentity, At
  <2>2. PICK i \in TrustedIdentity, s \in session[q] :
           i.id = s.identity /\ i.user = s.user
    BY <1>t, <1>2 DEF GetSessionIdentity, Raise, TypeOK
  <2>3. ~IsActive(user[q], TrustedIdentity)
    BY <1>t, <1>2 DEF GetSessionIdentity, Raise, TypeOK
  <2>4. UserReadOK(q)
    BY <2>1 DEF IInv, UserReadInv
  <2>5. PICK u \in user[q] : u.id = s.user
    BY <2>2, <2>4 DEF UserReadOK
  <2>6. ~i.enabled \/ u.status # "ACTIVE"
    BY <2>2, <2>3, <2>5 DEF IsActive
  <2>7. u.status # "ACTIVE" => \E v \in users : v.id = u.id /\ v.status = "DISABLED"
    BY <1>t, <2>4 DEF UserReadOK, TypeOK, UserRow
  <2> QED
    BY <2>2, <2>5, <2>6, <2>7 DEF InactiveWithReason
<1> QED
  BY <1>1, <1>2

\* Reasons last: rights are only lost, and the configured identity of a process
\* stays the same.
LEMMA ReasonsLast ==
    ASSUME IInv, [Next]_vars, trusted' = trusted, NEW q \in Requests,
           pc[q] # "idle"
    PROVE  /\ InvalidWithReason(q) => InvalidWithReason(q)'
           /\ InactiveWithReason => InactiveWithReason'
<1>t. TypeOK /\ TypeOK'
  BY TypeStep DEF IInv
<1>1. ASSUME InvalidWithReason(q) PROVE InvalidWithReason(q)'
  <2>0. input'[q] = input[q] /\ time'[q] = time[q]
    BY <1>t, InputSteps
  <2>1. CASE input[q].cookie = NoToken
    BY <2>0, <2>1 DEF InvalidWithReason
  <2>2. CASE input[q].cookie # NoToken
    <3>1. PICK s \in sessions : s.id = input[q].cookie
      BY <2>2 DEF IInv, CookieInv, CookieOK
    <3>2. s.id \in Requests /\ pc[s.id] # "idle"
      BY <1>t DEF IInv, KeysInv, DurableInv, TypeOK
    <3>3. time'[s.id] = time[s.id]
      BY <1>t, <3>2, InputSteps
    <3>4. PICK n \in sessions' :
             SameButRevocation(n, s) /\ (s.revoked_at # None => n.revoked_at # None)
      BY Persist
    <3>5. n.id = s.id /\ n.identity = s.identity
      BY <1>t, <3>4, SameRow DEF TypeOK
    <3>6. ASSUME \A i \in TrustedIdentity : i.id # s.identity
          PROVE  \A i \in TrustedIdentity' : i.id # s.identity
      <4>1. PICK j \in identities : j.id = s.identity
        BY DEF IInv, IdentityIntegrity
      <4> QED
        BY <3>6, <4>1, Persist DEF TrustedIdentity
    <3>7. \A m \in sessions : m.id = input[q].cookie => m = s
      BY <3>1 DEF IInv, KeysInv
    <3> QED
      BY <1>1, <2>0, <3>1, <3>3, <3>4, <3>5, <3>6, <3>7 DEF InvalidWithReason
  <2> QED
    BY <2>1, <2>2
<1>2. ASSUME InactiveWithReason PROVE InactiveWithReason'
  <2>1. PICK i \in TrustedIdentity :
           ~i.enabled \/ \E u \in users : u.id = i.user /\ u.status = "DISABLED"
    BY <1>2 DEF InactiveWithReason
  <2>2. PICK j \in identities' :
           j.id = i.id /\ j.user = i.user /\ j.subject = i.subject
    BY <2>1, Persist DEF TrustedIdentity
  <2>3. j \in TrustedIdentity' /\ (j.enabled => i.enabled)
    BY <2>1, <2>2, Persist DEF TrustedIdentity
  <2>4. ASSUME NEW u \in users, u.id = i.user, u.status = "DISABLED"
        PROVE  \E v \in users' : v.id = j.user /\ v.status = "DISABLED"
    <3>1. PICK v \in users' : v.id = u.id
      BY Persist
    <3>2. v.status # "ACTIVE"
      BY <2>4, <3>1, Persist
    <3> QED
      BY <1>t, <2>2, <2>4, <3>1, <3>2 DEF TypeOK, UserRow
  <2> QED
    BY <2>1, <2>2, <2>3, <2>4 DEF InactiveWithReason
<1> QED
  BY <1>1, <1>2

\* RefusalIsTrue holds after every step.
LEMMA RefusalStep == ASSUME IInv, [Next]_vars PROVE RefusalIsTrue'
<1>t. TypeOK /\ TypeOK' /\ RefusalIsTrue
  BY TypeStep DEF IInv
<1> DEFINE ReasonOK(q) ==
        /\ result[q] = "InvalidSession" => InvalidWithReason(q)
        /\ result[q] = "InactiveIdentity" => InactiveWithReason
<1> SUFFICES ASSUME NEW q \in Requests, pc'[q] = "exit" PROVE ReasonOK(q)'
  BY DEF RefusalIsTrue
<1>last. ASSUME trusted' = trusted, pc[q] # "idle", result'[q] = "InvalidSession" =>
                    InvalidWithReason(q),
                result'[q] = "InactiveIdentity" => InactiveWithReason
         PROVE  ReasonOK(q)'
  BY <1>last, ReasonsLast
<1>new. ASSUME result'[q] \notin {"InvalidSession", "InactiveIdentity"}
        PROVE  ReasonOK(q)'
  BY <1>new
<1> HIDE DEF ReasonOK
<1> USE <1>t DEF Goto, Raise, At, TypeOK, request, tx, locals, clock
<1>1. CASE UNCHANGED <<pc, result, trusted>> \/ SameRequest(q)
  <2>1. pc'[q] = pc[q] /\ result'[q] = result[q] /\ trusted' = trusted
    BY <1>1 DEF SameRequest
  <2> QED
    BY <1>last, <2>1 DEF RefusalIsTrue
<1>2. CASE GetSession(q)
  <2>1. /\ pc[q] # "idle" /\ trusted' = trusted
        /\ result'[q] # "InactiveIdentity"
    BY <1>2 DEF GetSession
  <2> QED
    BY <1>2, <1>last, <2>1, InvalidHasReason
<1>3. CASE GetUser(q)
  <2>1. /\ pc[q] # "idle" /\ trusted' = trusted
        /\ result'[q] # "InvalidSession"
    BY <1>3 DEF GetUser
  <2> QED
    BY <1>3, <1>last, <2>1, InactiveHasReason
<1>4. CASE GetSessionIdentity(q)
  <2>1. pc[q] # "idle" /\ trusted' = trusted
    BY <1>4 DEF GetSessionIdentity
  <2> QED
    BY <1>4, <1>last, <2>1, InvalidHasReason, InactiveHasReason
<1>5. CASE LoseConnection(q) \/ LateCommit(q) \/ Reap(q)
  BY <1>1, <1>5 DEF LoseConnection, LateCommit, Reap
<1>6. CASE Restart
  BY <1>6 DEF Restart, InFlight
<1>7. CASE Begin(q)
  BY <1>7 DEF Begin, StartLogin, StartInspect, StartLogout, Start, Enter
<1>8. CASE \/ GetExternalIdentity(q) \/ AddUser(q) \/ AddExternalIdentity(q)
           \/ AddSession(q) \/ GetSessionUser(q)
  BY <1>8, <1>new DEF GetExternalIdentity, AddUser, AddExternalIdentity,
     AddSession, GetSessionUser
<1>9. CASE \/ RefuseCsrf(q) \/ RefuseRevokedAt(q) \/ Revoke(q)
           \/ UpdateSession(q)
  BY <1>9, <1>new DEF RefuseCsrf, RefuseRevokedAt, Refuse, Revoke, Enter,
     UpdateSession
<1>10. CASE \/ CommitSucceeds(q) \/ CommitRefused(q) \/ CommitLost(q)
            \/ StatementFails(q) \/ Exit(q)
  BY <1>10, <1>new DEF CommitSucceeds, CommitRefused, CommitLost, StatementFails,
     Exit
<1> QED
  BY <1>1, <1>2, <1>3, <1>4, <1>5, <1>6, <1>7, <1>8, <1>9, <1>10, OwnSteps
     DEF Serve

-----------------------------------------------------------------------------
(* The invariant, and the promises that follow from it. *)

\* The invariant holds of the empty database.
LEMMA InitIInv == Init => IInv
<1> SUFFICES ASSUME Init PROVE IInv
  OBVIOUS
<1> USE DEF Init
<1>1. TypeOK
  BY ConstantsAssumption
     DEF TypeOK, NoRequest, Tokens, Times, Statements, Returned, Raised
<1>2. KeysInv /\ NewRowsInv /\ NewVersionsInv /\ DurableInv
  BY DEF KeysInv, NewRowsInv, NewVersionsInv, DurableInv
<1>3. ControlInv
  BY DEF ControlInv, ControlOK, NoWrites, LoginSteps, ResolveSteps, RevokeSteps
<1>4. /\ LoginInv /\ ResolveInv /\ NotLiveInv /\ CommitInv
      /\ UserReadInv /\ IdentityReadInv /\ CookieInv /\ SentInv
  BY DEF LoginInv, LoginOK, ResolveInv, HoldsSession, RevokeSteps, NotLiveInv,
     CommitInv, Committing, UserReadInv, IdentityReadInv, CookieInv, CookieOK,
     NoRequest, SentInv, At
<1>5. /\ IdentityIntegrity /\ AuthenticatedWasLive /\ RevocationAuthorised
      /\ OutcomeMatchesCommit /\ StoredSessionsLoad /\ RefusalIsTrue
  BY DEF RefusalIsTrue, IdentityIntegrity, AuthenticatedWasLive, RevocationAuthorised,
     OutcomeMatchesCommit, AnswerIsTrue, Committed, StoredSessionsLoad
<1>6. CallInv /\ CsrfInv
  BY DEF CallInv, CallOK, CsrfInv, NoRequest, ResolveSteps
<1>7. TimesInv /\ InTimeInv
  BY DEF TimesInv, InTimeInv, LetPass
<1> QED
  BY <1>1, <1>2, <1>3, <1>4, <1>5, <1>6, <1>7 DEF IInv

\* The invariant is inductive.
LEMMA StepIInv == IInv /\ [Next]_vars => IInv'
  BY TypeStep, KeysStep, NewRowsStep, NewVersionsStep, DurableStep, ControlStep,
     LoginStep, ResolveStep, NotLiveStep, CommitStep, IntegrityStep,
     AuthenticatedStep, AuthorisedStep, OutcomeStep, StoredStep, CallStep,
     CsrfStep, TimesStep, InTimeStep, UserReadStep,
     IdentityReadStep, CookieStep, SentStep, RefusalStep
     DEF IInv

\* The inductive invariant holds of every reachable state.
THEOREM InductiveInvariant == Spec => []IInv
  BY InitIInv, StepIInv, PTL DEF Spec

\* Every variable keeps its type: in particular every stored row is one that
\* the schema of iam.users, iam.external_identities and iam.sessions admits.
THEOREM TypeCorrect == Spec => []TypeOK
<1>1. IInv => TypeOK
  BY DEF IInv
<1> QED
  BY <1>1, InductiveInvariant, PTL

\* Any number of first logins that race, fail and crash leave one user and one
\* identity per subject, and sessions that name a pair that belongs together.
THEOREM LoginsKeepIdentities == Spec => []IdentityIntegrity
<1>1. IInv => IdentityIntegrity
  BY DEF IInv
<1> QED
  BY <1>1, InductiveInvariant, PTL

\* resolve, in three statements, authenticates only sessions that were live at
\* one moment of the call, however users are disabled and sessions revoked.
THEOREM ResolveIsAtomic == Spec => []AuthenticatedWasLive
<1>1. IInv => AuthenticatedWasLive
  BY DEF IInv
<1> QED
  BY <1>1, InductiveInvariant, PTL

\* No session is revoked but by a logout with its cookie and its CSRF token.
THEOREM LogoutsAreAuthorised == Spec => []RevocationAuthorised
<1>1. IInv => RevocationAuthorised
  BY DEF IInv
<1> QED
  BY <1>1, InductiveInvariant, PTL

\* What the caller is told agrees with what the database committed.
THEOREM AnswersAreTrue == Spec => []OutcomeMatchesCommit
<1>1. IInv => OutcomeMatchesCommit
  BY DEF IInv
<1> QED
  BY <1>1, InductiveInvariant, PTL

\* No order of logins, logouts and clock steps stores a session row that the
\* ApplicationSession constructor would refuse to load.
THEOREM SessionsStayLoadable == Spec => []StoredSessionsLoad
<1>1. IInv => StoredSessionsLoad
  BY DEF IInv
<1> QED
  BY <1>1, InductiveInvariant, PTL

\* Nobody is turned away without a reason, in however many reads he is judged.
THEOREM RefusalsHaveReasons == Spec => []RefusalIsTrue
<1>1. IInv => RefusalIsTrue
  BY DEF IInv
<1> QED
  BY <1>1, InductiveInvariant, PTL

\* A cookie is good for the idle lifetime after its login and not a moment
\* longer, whatever is done with it: the absolute lifetime never decides.
THEOREM LoginsLapse == Spec => []IdleLifetimeDecides
<1>1. IInv => IdleLifetimeDecides
  BY DEF IInv, InTimeInv, LetPass, IdleLifetimeDecides
<1> QED
  BY <1>1, InductiveInvariant, PTL

\* The statements at which requests wait come before their transactions have
\* written what another can wait for.
LEMMA WaitedForGoesOn == IInv => NobodyWaitsInLine
<1> SUFFICES ASSUME IInv, NEW r \in Requests, NEW q \in Requests, WaitsFor(r, q),
                    conn[q] = "open"
             PROVE  At(q, "add_session") \/ At(q, "commit") \/ At(q, "exit")
  BY DEF NobodyWaitsInLine, WaitsFor, NoWrites
<1>t. TypeOK /\ ControlOK(q) /\ LoginOK(q)
  BY DEF IInv, ControlInv, LoginInv
<1>1. newIdentities[q] # {} \/ newSessions[q] # {}
  BY DEF WaitsFor
<1>2. pc[q] \notin {"idle", "revoke", "done"}
  BY <1>t DEF ControlOK
<1>3. pc[q] \notin {"get_external_identity", "add_user", "get_user",
                    "add_external_identity"}
  BY <1>t, <1>1 DEF LoginOK, NoWrites, At
<1>4. pc[q] \notin {"get_session", "get_session_user", "get_session_identity",
                    "update_session"}
  BY <1>1 DEF IInv, ResolveInv, HoldsSession, RevokeSteps, NoWrites
<1> QED
  BY <1>t, <1>2, <1>3, <1>4 DEF TypeOK, Statements, At

\* Requests never deadlock, however many logins and logouts overlap.
THEOREM RequestsNeverDeadlock == Spec => []NobodyWaitsInLine
  BY WaitedForGoesOn, InductiveInvariant, PTL

\* Whatever logouts overlap, a committed session row is never deleted, never
\* un-revoked, and never changed in any other column.
THEOREM SessionsOnlyGetRevoked == Spec => SessionRowsOnlyGetRevoked
<1>1. IInv /\ [Next]_vars =>
         [\A s \in sessions : \E n \in sessions' :
            /\ n = [s EXCEPT !.revoked_at = n.revoked_at]
            /\ s.revoked_at # None => n.revoked_at # None]_vars
  BY Persist DEF SameButRevocation
<1> QED
  BY <1>1, InductiveInvariant, PTL DEF Spec, SessionRowsOnlyGetRevoked

\* A second revocation comes of a logout that read the session while it lived.
THEOREM SecondRevocationsOverlap == Spec => OnlyOverlapsRevokeAgain
<1>1. ASSUME IInv, [Next]_vars, NEW s \in sessions, NEW n \in sessions',
             s.id = n.id, n.revoked_at # s.revoked_at
      PROVE  \E r \in durable' \ durable :
                /\ input[r].op = "logout" /\ input[r].cookie = s.id
                /\ seenLive[r]
  <2>1. n \notin sessions
    BY <1>1 DEF IInv, KeysInv
  <2>2. PICK r \in Requests : Commits(r)
    BY <1>1, <2>1, TableSteps
  <2>3. n \in newSessions[r] /\ r \in durable'
    BY <2>1, <2>2 DEF Commits, Apply
  <2>4. r \notin durable
    BY <1>1, <2>2, CommitsOnce
  <2>5. n.revoked_at # None
    BY <1>1, <2>2, <2>3, CommittedVersion
  <2>6. n.id # r
    BY <1>1, <2>4 DEF IInv, KeysInv
  <2>7. input[r].op = "logout" /\ input[r].cookie = n.id
    <3>1. VersionOK(r, n)
      BY <1>1, <2>3 DEF IInv, NewVersionsInv
    <3> QED
      BY <2>6, <3>1 DEF VersionOK
  <2>8. seenLive[r]
    <3>1. CASE r \in sent
      BY <1>1, <2>7, <3>1 DEF IInv, SentInv
    <3>2. CASE At(r, "commit")
      <4>1. result[r] = "Authenticated"
        BY <1>1, <2>7, <3>2 DEF IInv, ControlInv, ControlOK, At
      <4> QED
        BY <1>1, <4>1 DEF IInv, AuthenticatedWasLive
    <3> QED
      BY <2>2, <3>1, <3>2, CommitsOnce DEF Commits, CommitSucceeds, LateCommit
  <2> QED
    BY <2>3, <2>4, <2>7, <2>8, <1>1
<1>2. IInv /\ [Next]_vars =>
         [\A s \in sessions :
            s.revoked_at # None /\ s \notin sessions' =>
                \E r \in durable' \ durable :
                   /\ input[r].op = "logout" /\ input[r].cookie = s.id
                   /\ seenLive[r]]_vars
  <2> SUFFICES ASSUME IInv, [Next]_vars, NEW s \in sessions, s \notin sessions'
               PROVE  \E r \in durable' \ durable :
                         /\ input[r].op = "logout" /\ input[r].cookie = s.id
                         /\ seenLive[r]
    OBVIOUS
  <2>1. PICK n \in sessions' : SameButRevocation(n, s)
    BY Persist
  <2>2. s \in SessionRow
    BY DEF IInv, TypeOK
  <2>3. n.id = s.id
    BY <2>1, <2>2 DEF SameButRevocation, SessionRow
  <2>4. n.revoked_at # s.revoked_at
    <3>1. n # s
      BY <2>1
    <3> QED
      BY <2>1, <2>2, <3>1 DEF SameButRevocation, SessionRow
  <2> QED
    BY <1>1, <2>1, <2>3, <2>4
<1> QED
  BY <1>2, InductiveInvariant, PTL DEF Spec, OnlyOverlapsRevokeAgain
===============================================================================
