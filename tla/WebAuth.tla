-------------------------------- MODULE WebAuth --------------------------------
(***************************************************************************)
(* The authentication routes (web/auth.py) between one browser and the     *)
(* session service: /auth/login, /auth/session and /auth/logout.           *)
(*                                                                         *)
(* The browser has one cookie jar for all its pages; they send requests    *)
(* without waiting for one another, and responses come back in any order   *)
(* or never.  A route that calls the service makes one call of it, with    *)
(* the request's name; what the service then does is SessionLifecycle,     *)
(* which the service on its database implements (TrustedLocalSessions).    *)
(*                                                                         *)
(* Definitions marked "Slip" are mutated forms that no action uses.        *)
(***************************************************************************)
CONSTANTS
    Requests,  \* HTTP requests, each sent once
    NoToken,   \* as a cookie: none; as a CSRF token: one never issued
    NoHeader   \* the X-CSRF-Token header is absent or empty

ASSUME TokensAssumption == NoToken \notin Requests /\ NoHeader \notin Requests
                              /\ NoHeader # NoToken

VARIABLES
    state, input, seen, written, answer,  \* the service, SessionLifecycle
    jar,        \* the session cookie the browser holds
    pages,      \* CSRF tokens that pages of the browser hold
    sent,       \* sent[r]: what the browser sent as r
    http,       \* http[r]: the response code the route has chosen
    received    \* requests whose response the browser has received

service == <<state, input, seen, written, answer>>
browser == <<jar, pages, received>>
vars == <<service, browser, sent, http>>

Service == INSTANCE SessionLifecycle

Unsent == [op |-> "none", cookie |-> NoToken, csrf |-> NoHeader, origin |-> TRUE]

\* The code of the body of an error response; its status goes with it: two
\* 401s, a 403, a 503.  "500" is the server's own answer to an exception.
Refusals == {"IDENTITY_INACTIVE", "SESSION_INVALID", "CSRF_INVALID",
             "IDENTITY_PERSISTENCE_UNAVAILABLE"}
Codes == Refusals \cup {"200", "500"}

-----------------------------------------------------------------------------
(* The except clauses of the routes *)

\* Slip: psycopg's own errors are caught with the unit of work's.
AnyDatabaseError == {"IdentityPersistenceError", "IdentityPersistenceConflict",
                     "OperationalError"}

\* What except IdentityPersistenceError catches.
PersistenceErrors == {"IdentityPersistenceError", "IdentityPersistenceConflict"}

LoginResponse(a) ==
    CASE a = "Established"          -> "200"
      [] a = "InactiveIdentity"     -> "IDENTITY_INACTIVE"
      [] a \in PersistenceErrors    -> "IDENTITY_PERSISTENCE_UNAVAILABLE"
      [] OTHER                      -> "500"

InspectResponse(a) ==
    CASE a = "Authenticated"        -> "200"
      [] a \in {"InvalidSession", "InactiveIdentity"} -> "SESSION_INVALID"
      [] a \in PersistenceErrors    -> "IDENTITY_PERSISTENCE_UNAVAILABLE"
      [] OTHER                      -> "500"

\* Slip: a failure to persist a logout is ignored.
LogoutResponseIgnoring(a) ==
    CASE a = "Revoked" \/ a \in PersistenceErrors -> "200"
      [] a \in {"InvalidCsrfToken", "ValueError"} -> "CSRF_INVALID"
      [] a \in {"InvalidSession", "InactiveIdentity"} -> "SESSION_INVALID"
      [] OTHER                      -> "500"

LogoutResponse(a) ==
    CASE a = "Revoked"              -> "200"
      [] a \in {"InvalidCsrfToken", "ValueError"} -> "CSRF_INVALID"
      [] a \in {"InvalidSession", "InactiveIdentity"} -> "SESSION_INVALID"
      [] a \in PersistenceErrors    -> "IDENTITY_PERSISTENCE_UNAVAILABLE"
      [] OTHER                      -> "500"

-----------------------------------------------------------------------------
TypeOK ==
    /\ jar \in Requests \cup {NoToken}
    /\ pages \subseteq Requests
    /\ received \subseteq Requests
    /\ http \in [Requests -> {"unsent", "serving"} \cup Codes]
    /\ sent \in [Requests -> [op : {"none", "login", "inspect", "logout"},
                              cookie : Requests \cup {NoToken},
                              csrf : Requests \cup {NoToken, NoHeader},
                              origin : BOOLEAN]]
    /\ input \in [Requests -> [op : {"none", "login", "inspect", "logout"},
                               cookie : Requests \cup {NoToken},
                               csrf : Requests \cup {NoToken}]]
    /\ state \in [Requests -> {"none", "live", "ended"}]
    /\ seen \in [Requests -> BOOLEAN]
    /\ written \in [Requests -> BOOLEAN]
    /\ answer \in [Requests ->
                      Service!Answers \cup {"waiting", "Crashed"}]

Init ==
    /\ Service!Init
    /\ jar = NoToken
    /\ pages = {}
    /\ received = {}
    /\ sent = [r \in Requests |-> Unsent]
    /\ http = [r \in Requests |-> "unsent"]

-----------------------------------------------------------------------------
\* The browser sends r, with the cookie it holds.
Send(r, op, csrf, origin) ==
    /\ http[r] = "unsent"
    /\ sent' = [sent EXCEPT ![r] =
                   [op |-> op, cookie |-> jar, csrf |-> csrf,
                    origin |-> origin]]
    /\ UNCHANGED browser

\* The route answers without calling the service.
Refuse(r, code) ==
    /\ http' = [http EXCEPT ![r] = code]
    /\ UNCHANGED service

\* The route calls the service.
Call(r, op, cookie, csrf) ==
    /\ http' = [http EXCEPT ![r] = "serving"]
    /\ Service!Ask(r, op, cookie, csrf)

Login(r) ==
    /\ Send(r, "login", NoHeader, TRUE)
    /\ Call(r, "login", NoToken, NoToken)

Inspect(r) ==
    /\ Send(r, "inspect", NoHeader, TRUE)
    /\ IF jar = NoToken
         THEN Refuse(r, "SESSION_INVALID")
         ELSE Call(r, "inspect", jar, NoToken)

\* Slips: the Origin header is not compared; the CSRF header may be missing.
LogoutAnyHeader(r, csrf, origin) ==
    /\ Send(r, "logout", csrf, origin)
    /\ IF ~origin THEN Refuse(r, "CSRF_INVALID")
       ELSE IF jar = NoToken THEN Refuse(r, "SESSION_INVALID")
       ELSE Call(r, "logout", jar, csrf)
LogoutAnyOrigin(r, csrf, origin) ==
    /\ Send(r, "logout", csrf, origin)
    /\ IF jar = NoToken THEN Refuse(r, "SESSION_INVALID")
       ELSE IF csrf = NoHeader THEN Refuse(r, "CSRF_INVALID")
       ELSE Call(r, "logout", jar, csrf)

\* origin: the Origin header is the application's own.  An empty header is
\* refused by CsrfToken's constructor, an absent one before it.
Logout(r, csrf, origin) ==
    /\ Send(r, "logout", csrf, origin)
    /\ IF ~origin THEN Refuse(r, "CSRF_INVALID")
       ELSE IF jar = NoToken THEN Refuse(r, "SESSION_INVALID")
       ELSE IF csrf = NoHeader THEN Refuse(r, "CSRF_INVALID")
       ELSE Call(r, "logout", jar, csrf)

\* The service has returned or raised; the route turns that into a response.
Respond(r) ==
    /\ http[r] = "serving"
    /\ answer[r] \in Service!Answers
    /\ http' = [http EXCEPT ![r] =
            CASE sent[r].op = "login"   -> LoginResponse(answer[r])
              [] sent[r].op = "inspect" -> InspectResponse(answer[r])
              [] sent[r].op = "logout"  -> LogoutResponse(answer[r])]
    /\ UNCHANGED <<service, browser, sent>>

\* The browser receives a response.  A 200 of login sets the cookie and hands
\* the page its CSRF token; a 200 of logout deletes the cookie, by its name.
Receive(r) ==
    /\ http[r] \in Codes
    /\ r \notin received
    /\ received' = received \cup {r}
    /\ jar' = IF http[r] # "200" THEN jar
              ELSE CASE sent[r].op = "login"   -> r
                     [] sent[r].op = "inspect" -> jar
                     [] sent[r].op = "logout"  -> NoToken
    /\ pages' = IF http[r] = "200" /\ sent[r].op = "login"
                  THEN pages \cup {r} ELSE pages
    /\ UNCHANGED <<service, sent, http>>

\* The service goes on with the calls it has.
Work == Service!Serve /\ UNCHANGED <<browser, sent, http>>

\* Every request has its response, or was cut off by a crash.
Finished ==
    /\ \A r \in Requests : r \in received \/ answer[r] = "Crashed"
    /\ UNCHANGED vars

Next ==
    \/ \E r \in Requests :
          \/ Login(r) \/ Inspect(r) \/ Respond(r) \/ Receive(r)
          \/ \E csrf \in pages \cup {NoToken, NoHeader}, origin \in BOOLEAN :
                Logout(r, csrf, origin)
    \/ Work
    \/ Finished

Spec == Init /\ [][Next]_vars

-----------------------------------------------------------------------------
(* What the routes promise *)

\* A response tells whether the request took effect, whatever failed behind
\* the route: a 200 of login or logout did, a 401, 403 or 503 did not and may
\* be sent again.  Only a 500 leaves it open (the except clauses against the
\* outcomes of a commit whose reply was lost).
ResponseIsTrue ==
    \A r \in Requests :
        /\ http[r] = "200" => written[r] \/ sent[r].op = "inspect"
        /\ http[r] \in Refusals => ~written[r]

\* Only a page of the application that holds the CSRF token of the session in
\* the cookie ends that session: across the Origin check of the route, the
\* token check of the service, and a jar that changes while requests travel.
OnlyOwnPagesLogOut ==
    \A r \in Requests :
        written[r] /\ sent[r].op = "logout" =>
            /\ sent[r].origin
            /\ sent[r].csrf = sent[r].cookie
            /\ sent[r].cookie \in pages

\* Once the browser has received the 200 of a logout, no request that still
\* travels with the same cookie finds that session live, however late it is.
LoggedOut == {sent[r].cookie : r \in
                {q \in received : sent[q].op = "logout" /\ http[q] = "200"}}
LogoutIsFinal ==
    [][\A r \in Requests :
            seen'[r] /\ ~seen[r] => sent[r].cookie \notin LoggedOut]_vars

\* The routes ask the service for what SessionLifecycle serves and no more: one
\* call for each request, with a cookie and a CSRF token that a login has been
\* answered with.  The promises made to such callers hold for the routes.
UsesService == Service!Spec

\* "The CSRF token is invalid." (the detail of the 403 of logout): so it is
\* told only to a request with another origin or without its session's token.
CsrfErrorIsTrue ==
    \A r \in Requests :
        http[r] = "CSRF_INVALID" =>
            ~sent[r].origin \/ sent[r].csrf # sent[r].cookie

\* "503: required capability or dependency temporarily unavailable" (API
\* contract, status codes): so a lost database connection is answered by 503.
DatabaseFailureIs503 ==
    \A r \in Requests :
        http[r] \in Codes /\ answer[r] = "OperationalError" =>
            http[r] = "IDENTITY_PERSISTENCE_UNAVAILABLE"

\* "Revoke the current session and clear its cookie." (logout): a logout
\* clears the cookie of the session it revoked, not another's.
LogoutClearsItsCookie ==
    [][jar # NoToken /\ jar' = NoToken => state[jar] = "ended"]_vars
=============================================================================
