--------------------------- MODULE SessionLifecycle ---------------------------
(***************************************************************************)
(* What the trusted-local session service promises to those who call it,   *)
(* with no statements or transactions: a session appears, is live or not,  *)
(* ends for good; a call carries a cookie and a CSRF token, observes the   *)
(* session of the cookie at one moment, takes effect at one moment, and is *)
(* answered, or raises, accordingly.  TrustedLocalSessions implements this *)
(* specification; WebAuth builds on it.                                    *)
(***************************************************************************)
CONSTANTS
    Requests,  \* calls of the service, each made once
    NoToken    \* a token that no login ever issued

VARIABLES
    state,    \* state[s]: the session that login s opens
    input,    \* input[r]: the operation, cookie and CSRF token of r
    seen,     \* seen[r]: r has observed the session of its cookie live
    written,  \* written[r]: r has taken effect
    answer    \* answer[r]: what the caller of r gets

vars == <<state, input, seen, written, answer>>

NoRequest == [op |-> "none", cookie |-> NoToken, csrf |-> NoToken]

Init ==
    /\ state = [s \in Requests |-> "none"]
    /\ input = [r \in Requests |-> NoRequest]
    /\ seen = [r \in Requests |-> FALSE]
    /\ written = [r \in Requests |-> FALSE]
    /\ answer = [r \in Requests |-> "waiting"]

\* r has been called and neither answered nor taken effect.
Pending(r) == input[r].op # "none" /\ answer[r] = "waiting" /\ ~written[r]

\* r may yet take effect: it waits, or its caller was not told the outcome.
Unsettled(r) ==
    /\ input[r].op # "none"
    /\ ~written[r]
    /\ answer[r] \in {"waiting", "OperationalError", "Crashed"}

\* The calls that have not been made.
New == {r \in Requests : input[r].op = "none"}

\* The tokens a caller can know.
Issued == {s \in Requests : answer[s] = "Established"} \cup {NoToken}

\* r is called, or fails at once: no connection.
Ask(r, op, cookie, csrf) ==
    /\ r \in New
    /\ input' = [input EXCEPT ![r] =
                    [op |-> op, cookie |-> cookie, csrf |-> csrf]]
    /\ answer' \in {answer,
                    [answer EXCEPT ![r] = "IdentityPersistenceError"]}
    /\ UNCHANGED <<state, seen, written>>

\* A login takes effect: its session is live, or ended from the start when its
\* user has been disabled meanwhile.
Open(r) ==
    /\ Unsettled(r)
    /\ input[r].op = "login"
    /\ written' = [written EXCEPT ![r] = TRUE]
    /\ \E start \in {"live", "ended"} : state' = [state EXCEPT ![r] = start]
    /\ UNCHANGED <<input, seen, answer>>

\* r reads its session while it is live.
Observe(r) ==
    /\ Pending(r)
    /\ input[r].op \in {"inspect", "logout"}
    /\ input[r].cookie \in Requests
    /\ state[input[r].cookie] = "live"
    /\ seen' = [seen EXCEPT ![r] = TRUE]
    /\ UNCHANGED <<state, input, written, answer>>

\* A logout takes effect on a session it has seen, and that another logout may
\* have ended meanwhile.
Close(r) ==
    /\ Unsettled(r)
    /\ input[r].op = "logout"
    /\ seen[r]
    /\ input[r].csrf = input[r].cookie
    /\ written' = [written EXCEPT ![r] = TRUE]
    /\ state' = [state EXCEPT ![input[r].cookie] = "ended"]
    /\ UNCHANGED <<input, seen, answer>>

\* An operator disables a user or an identity, which ends several sessions.
Disable(ended) ==
    /\ UNCHANGED <<input, seen, written, answer>>
    /\ \A s \in ended : state[s] = "live"
    /\ state' = [s \in Requests |-> IF s \in ended THEN "ended" ELSE state[s]]

\* What a call may return or raise.  Every exception but psycopg's own,
\* OperationalError, says that the call has no effect; that one says nothing:
\* the effect may have come or yet come.
May(r, a) ==
    \/ a = "Established" /\ input[r].op = "login" /\ written[r]
    \/ a = "Authenticated" /\ input[r].op = "inspect" /\ seen[r]
    \/ a = "Revoked" /\ input[r].op = "logout" /\ written[r]
    \/ a = "InvalidSession" /\ input[r].op # "login" /\ ~written[r]
    \/ /\ a \in {"InactiveIdentity", "IdentityPersistenceError",
                "IdentityPersistenceConflict"}
       /\ ~written[r]
    \/ /\ a \in {"InvalidCsrfToken", "ValueError"}
       /\ input[r].op = "logout" /\ seen[r] /\ ~written[r]
       /\ (a = "InvalidCsrfToken") <=> (input[r].csrf # input[r].cookie)
    \/ a = "OperationalError"

Answers == {"Established", "Authenticated", "Revoked", "InvalidSession",
            "InactiveIdentity", "IdentityPersistenceError",
            "IdentityPersistenceConflict", "InvalidCsrfToken", "ValueError",
            "OperationalError"}

Reply(r) ==
    /\ input[r].op # "none"
    /\ answer[r] = "waiting"
    /\ \E a \in Answers : May(r, a) /\ answer' = [answer EXCEPT ![r] = a]
    /\ UNCHANGED <<state, input, seen, written>>

\* The process stops: whoever still waits gets no answer.
Crash ==
    /\ answer' = [r \in Requests |->
            IF input[r].op # "none" /\ answer[r] = "waiting"
              THEN "Crashed" ELSE answer[r]]
    /\ UNCHANGED <<state, input, seen, written>>

\* The steps of calls that have been made.
Serve ==
    \/ \E r \in Requests :
          Open(r) \/ Observe(r) \/ Close(r) \/ Reply(r)
    \/ \E some \in SUBSET Requests : Disable(some)
    \/ Crash

Next ==
    \/ \E r \in New : \E cookie, csrf \in Issued :
          \E op \in {"login", "inspect", "logout"} : Ask(r, op, cookie, csrf)
    \/ Serve

Spec == Init /\ [][Next]_vars
===============================================================================
