------------------------------ MODULE WebAuthProofs ------------------------------
(***************************************************************************)
(* Proofs about WebAuth, for any number of requests.                       *)
(*                                                                         *)
(* IInv is inductive: one lemma for each step of the service and one for   *)
(* each route or browser step, the three ways to send a request sharing    *)
(* SendRefused and SendCalled.  The theorems at the end read the promises  *)
(* of the routes off it.                                                   *)
(***************************************************************************)
EXTENDS WebAuthInvariant, TLAPS

-----------------------------------------------------------------------------
(* Sending *)

\* A request that its route refuses keeps the invariant.
LEMMA SendRefused ==
    ASSUME IInv, NEW r \in Requests, NEW op \in {"login", "inspect", "logout"},
           NEW csrf \in Requests \cup {NoToken, NoHeader}, NEW origin \in BOOLEAN,
           NEW code \in Refusals,
           Send(r, op, csrf, origin), Refuse(r, code)
    PROVE  IInv'
<1>1. TypeOK'
  BY DEF IInv, TypeOK, Send, Refuse, browser, service, Codes
<1>2. CallsInv'
  BY DEF IInv, TypeOK, CallsInv, Send, Refuse, browser, service
<1>3. AnswersInv'
  BY DEF IInv, AnswersInv, Refuse, service
<1>4. ResponsesInv'
  BY DEF IInv, TypeOK, CallsInv, ResponsesInv, Send, Refuse, service
<1>5. SessionsInv'
  BY DEF IInv, SessionsInv, Refuse, service
<1>6. TokensInv'
  BY DEF IInv, TypeOK, TokensInv, Send, Refuse, browser, service
<1> QED
  BY <1>1, <1>2, <1>3, <1>4, <1>5, <1>6 DEF IInv

\* So does one for which the route calls the service.
LEMMA SendCalled ==
    ASSUME IInv, NEW r \in Requests, NEW op \in {"login", "inspect", "logout"},
           NEW csrf \in Requests \cup {NoToken, NoHeader}, NEW origin \in BOOLEAN,
           NEW cookie \in Requests \cup {NoToken},
           NEW token \in Requests \cup {NoToken},
           op # "login" => cookie = jar,
           op = "logout" => token = csrf /\ origin,
           Send(r, op, csrf, origin), Call(r, op, cookie, token)
    PROVE  IInv'
<1>1. /\ input' = [input EXCEPT ![r] =
                      [op |-> op, cookie |-> cookie, csrf |-> token]]
      /\ answer' \in {answer,
                      [answer EXCEPT ![r] = "IdentityPersistenceError"]}
      /\ UNCHANGED <<state, seen, written>>
      /\ input[r].op = "none"
  BY DEF Call, Service!Ask, Service!New
<1>2. /\ http' = [http EXCEPT ![r] = "serving"]
      /\ sent' = [sent EXCEPT ![r] =
                     [op |-> op, cookie |-> jar, csrf |-> csrf,
                      origin |-> origin]]
      /\ UNCHANGED <<jar, pages, received>>
  BY DEF Call, Send, browser
<1>3. /\ ~written[r] /\ ~seen[r] /\ answer[r] = "waiting"
  BY <1>1 DEF IInv, CallsInv
<1>4. TypeOK'
  BY <1>1, <1>2 DEF IInv, TypeOK, Service!Answers
<1>5. CallsInv'
  BY <1>1, <1>2 DEF IInv, TypeOK, CallsInv, Refusals
<1>6. AnswersInv'
  BY <1>1, <1>3 DEF IInv, TypeOK, AnswersInv
<1>7. ResponsesInv'
  BY <1>1, <1>2 DEF IInv, TypeOK, ResponsesInv, Codes, Refusals
<1>8. SessionsInv'
  BY <1>1, <1>3 DEF IInv, TypeOK, SessionsInv
<1>9. TokensInv'
  BY <1>1, <1>2, <1>3 DEF IInv, TypeOK, TokensInv
<1> QED
  BY <1>4, <1>5, <1>6, <1>7, <1>8, <1>9 DEF IInv

-----------------------------------------------------------------------------
(* The service *)

\* A login that takes effect keeps the invariant.
LEMMA OpenStep ==
    ASSUME IInv, NEW r \in Requests, Service!Open(r),
           UNCHANGED <<browser, sent, http>>
    PROVE  IInv'
<1>1. PICK start \in {"live", "ended"} : state' = [state EXCEPT ![r] = start]
  BY DEF Service!Open
<1>2. /\ written' = [written EXCEPT ![r] = TRUE]
      /\ UNCHANGED <<input, seen, answer>>
      /\ input[r].op = "login" /\ ~written[r]
      /\ answer[r] \in {"waiting", "OperationalError", "Crashed"}
  BY DEF Service!Open, Service!Unsettled
<1>3. state[r] = "none"
  BY <1>2 DEF IInv, SessionsInv
<1>4. UNCHANGED <<jar, pages, received, sent, http>>
  BY DEF browser
<1>5. TypeOK'
  BY <1>1, <1>2, <1>4 DEF IInv, TypeOK
<1>6. CallsInv'
  BY <1>2, <1>4 DEF IInv, TypeOK, CallsInv
<1>7. AnswersInv'
  BY <1>2 DEF IInv, TypeOK, AnswersInv, Service!Answers
<1>8. ResponsesInv'
  BY <1>2, <1>4 DEF IInv, ResponsesInv
<1>9. SessionsInv'
  BY <1>1, <1>2, <1>3 DEF IInv, TypeOK, SessionsInv
<1>10. TokensInv'
  BY <1>2, <1>4 DEF IInv, TokensInv
<1> QED
  BY <1>5, <1>6, <1>7, <1>8, <1>9, <1>10 DEF IInv

\* So does a request that observes its session.
LEMMA ObserveStep ==
    ASSUME IInv, NEW r \in Requests, Service!Observe(r),
           UNCHANGED <<browser, sent, http>>
    PROVE  IInv'
<1>1. /\ seen' = [seen EXCEPT ![r] = TRUE]
      /\ UNCHANGED <<state, input, written, answer>>
      /\ input[r].op \in {"inspect", "logout"}
      /\ input[r].cookie \in Requests
      /\ state[input[r].cookie] = "live"
  BY DEF Service!Observe
<1>2. UNCHANGED <<jar, pages, received, sent, http>>
  BY DEF browser
<1>3. TypeOK'
  BY <1>1, <1>2 DEF IInv, TypeOK
<1>4. CallsInv'
  BY <1>1, <1>2 DEF IInv, TypeOK, CallsInv
<1>5. AnswersInv'
  BY <1>1 DEF IInv, AnswersInv
<1>6. ResponsesInv'
  BY <1>1, <1>2 DEF IInv, ResponsesInv
<1>7. SessionsInv'
  BY <1>1 DEF IInv, TypeOK, SessionsInv
<1>8. TokensInv'
  BY <1>1, <1>2 DEF IInv, TokensInv
<1> QED
  BY <1>3, <1>4, <1>5, <1>6, <1>7, <1>8 DEF IInv

\* So does a logout that takes effect,
LEMMA CloseStep ==
    ASSUME IInv, NEW r \in Requests, Service!Close(r),
           UNCHANGED <<browser, sent, http>>
    PROVE  IInv'
<1> DEFINE c == input[r].cookie
<1>1. /\ state' = [state EXCEPT ![c] = "ended"]
      /\ written' = [written EXCEPT ![r] = TRUE]
      /\ UNCHANGED <<input, seen, answer>>
      /\ input[r].op = "logout" /\ input[r].csrf = c /\ seen[r]
      /\ answer[r] \in {"waiting", "OperationalError", "Crashed"}
  BY DEF Service!Close, Service!Unsettled
<1>2. c \in Requests /\ state[c] # "none"
  BY <1>1 DEF IInv, SessionsInv
<1>3. UNCHANGED <<jar, pages, received, sent, http>>
  BY DEF browser
<1> HIDE DEF c
<1>4. TypeOK'
  BY <1>1, <1>2, <1>3 DEF IInv, TypeOK
<1>5. CallsInv'
  BY <1>1, <1>3 DEF IInv, TypeOK, CallsInv
<1>6. AnswersInv'
  BY <1>1 DEF IInv, TypeOK, AnswersInv, Service!Answers
<1>7. ResponsesInv'
  BY <1>1, <1>3 DEF IInv, ResponsesInv
<1>8. SessionsInv'
  <2>1. \A q \in Requests : state'[q] # "none" => state[q] # "none"
    BY <1>1, <1>2 DEF IInv, TypeOK
  <2>2. \A q \in Requests : state[q] # "none" => state'[q] # "none"
    BY <1>1, <1>2 DEF IInv, TypeOK
  <2>3. \A q \in Requests : state[q] = "ended" => state'[q] = "ended"
    BY <1>1, <1>2 DEF IInv, TypeOK
  <2>4. state'[c] = "ended"
    BY <1>1, <1>2 DEF IInv, TypeOK
  <2> QED
    BY <1>1, <1>2, <2>1, <2>2, <2>3, <2>4 DEF IInv, TypeOK, SessionsInv, c
<1>9. TokensInv'
  BY <1>1, <1>3 DEF IInv, TokensInv
<1> QED
  BY <1>4, <1>5, <1>6, <1>7, <1>8, <1>9 DEF IInv

\* an operator who disables a user or an identity,
LEMMA DisableStep ==
    ASSUME IInv, NEW some \in SUBSET Requests, Service!Disable(some),
           UNCHANGED <<browser, sent, http>>
    PROVE  IInv'
<1>1. /\ state' = [s \in Requests |->
                      IF s \in some THEN "ended" ELSE state[s]]
      /\ \A s \in some : state[s] = "live"
      /\ UNCHANGED <<input, seen, written, answer>>
  BY DEF Service!Disable
<1>2. UNCHANGED <<jar, pages, received, sent, http>>
  BY DEF browser
<1>3. TypeOK'
  BY <1>1, <1>2 DEF IInv, TypeOK
<1>4. CallsInv'
  BY <1>1, <1>2 DEF IInv, CallsInv
<1>5. AnswersInv'
  BY <1>1 DEF IInv, AnswersInv
<1>6. ResponsesInv'
  BY <1>1, <1>2 DEF IInv, ResponsesInv
<1>7. SessionsInv'
  BY <1>1 DEF IInv, TypeOK, SessionsInv
<1>8. TokensInv'
  BY <1>1, <1>2 DEF IInv, TokensInv
<1> QED
  BY <1>3, <1>4, <1>5, <1>6, <1>7, <1>8 DEF IInv

\* a call that returns or raises,
LEMMA ReplyStep ==
    ASSUME IInv, NEW r \in Requests, Service!Reply(r),
           UNCHANGED <<browser, sent, http>>
    PROVE  IInv'
<1>1. PICK a \in Service!Answers :
          Service!May(r, a) /\ answer' = [answer EXCEPT ![r] = a]
  BY DEF Service!Reply
<1>2. /\ UNCHANGED <<state, input, seen, written>>
      /\ input[r].op # "none" /\ answer[r] = "waiting"
  BY DEF Service!Reply
<1>3. UNCHANGED <<jar, pages, received, sent, http>>
  BY DEF browser
<1>4. TypeOK'
  BY <1>1, <1>2, <1>3 DEF IInv, TypeOK
<1>5. CallsInv'
  BY <1>1, <1>2, <1>3 DEF IInv, TypeOK, CallsInv
<1>6. AnswersInv'
  BY <1>1, <1>2 DEF IInv, TypeOK, AnswersInv, Service!May, Service!Answers
<1>7. ResponsesInv'
  BY <1>1, <1>2, <1>3 DEF IInv, TypeOK, ResponsesInv, Service!Answers
<1>8. SessionsInv'
  BY <1>2 DEF IInv, SessionsInv
<1>9. TokensInv'
  BY <1>1, <1>2, <1>3 DEF IInv, TypeOK, TokensInv
<1> QED
  BY <1>4, <1>5, <1>6, <1>7, <1>8, <1>9 DEF IInv

\* and a process that stops.
LEMMA CrashStep ==
    ASSUME IInv, Service!Crash, UNCHANGED <<browser, sent, http>>
    PROVE  IInv'
<1>1. /\ answer' = [r \in Requests |->
              IF input[r].op # "none" /\ answer[r] = "waiting"
                THEN "Crashed" ELSE answer[r]]
      /\ UNCHANGED <<state, input, seen, written>>
  BY DEF Service!Crash
<1>2. UNCHANGED <<jar, pages, received, sent, http>>
  BY DEF browser
<1>3. TypeOK'
  BY <1>1, <1>2 DEF IInv, TypeOK
<1>4. CallsInv'
  BY <1>1, <1>2 DEF IInv, CallsInv
<1>5. AnswersInv'
  BY <1>1 DEF IInv, AnswersInv, Service!Answers
<1>6. ResponsesInv'
  BY <1>1, <1>2 DEF IInv, ResponsesInv, Service!Answers
<1>7. SessionsInv'
  BY <1>1 DEF IInv, SessionsInv
<1>8. TokensInv'
  BY <1>1, <1>2 DEF IInv, TypeOK, TokensInv
<1> QED
  BY <1>3, <1>4, <1>5, <1>6, <1>7, <1>8 DEF IInv

-----------------------------------------------------------------------------
(* Routes and browser *)

\* The except clauses answer 200 to success only, and turn psycopg's own error
\* into no refusal.
LEMMA ResponseFacts ==
    ASSUME NEW a \in Service!Answers,
           NEW code \in {LoginResponse(a), InspectResponse(a), LogoutResponse(a)}
    PROVE  /\ code \in Codes
           /\ code = "200" => a \in {"Established", "Authenticated", "Revoked"}
           /\ code \in Refusals => a \notin {"Established", "Authenticated",
                                             "Revoked", "OperationalError"}
<1>1. CASE code = LoginResponse(a)
  BY <1>1 DEF LoginResponse, PersistenceErrors, Codes, Refusals, Service!Answers
<1>2. CASE code = InspectResponse(a)
  BY <1>2 DEF InspectResponse, PersistenceErrors, Codes, Refusals, Service!Answers
<1>3. CASE code = LogoutResponse(a)
  BY <1>3 DEF LogoutResponse, PersistenceErrors, Codes, Refusals, Service!Answers
<1> QED
  BY <1>1, <1>2, <1>3

\* A route that answers keeps the invariant.
LEMMA RespondStep ==
    ASSUME IInv, NEW r \in Requests, Respond(r)
    PROVE  IInv'
<1>1. /\ UNCHANGED <<state, input, seen, written, answer>>
      /\ UNCHANGED <<jar, pages, received, sent>>
      /\ http[r] = "serving" /\ answer[r] \in Service!Answers
  BY DEF Respond, service, browser
<1>2. input[r].op # "none"
  BY <1>1 DEF IInv, CallsInv, Refusals
<1>3. sent[r].op \in {"login", "inspect", "logout"}
  BY <1>2 DEF IInv, TypeOK, CallsInv
<1>4. PICK code \in {LoginResponse(answer[r]), InspectResponse(answer[r]),
                     LogoutResponse(answer[r])} :
          http' = [http EXCEPT ![r] = code]
  BY <1>3 DEF Respond
<1>5. /\ code \in Codes
      /\ code = "200" =>
            answer[r] \in {"Established", "Authenticated", "Revoked"}
      /\ code \in Refusals =>
            answer[r] \notin {"Established", "Authenticated", "Revoked",
                              "OperationalError"}
  BY <1>1, <1>4, ResponseFacts
<1>6. code # "unsent"
  BY <1>5 DEF Codes, Refusals
<1>7. TypeOK'
  BY <1>1, <1>4, <1>5 DEF IInv, TypeOK
<1>8. CallsInv'
  BY <1>1, <1>2, <1>4, <1>6 DEF IInv, TypeOK, CallsInv
<1>9. AnswersInv'
  BY <1>1 DEF IInv, AnswersInv
<1>10. ResponsesInv'
  BY <1>1, <1>4, <1>5 DEF IInv, TypeOK, ResponsesInv
<1>11. SessionsInv'
  BY <1>1 DEF IInv, SessionsInv
<1>12. TokensInv'
  BY <1>1 DEF IInv, TokensInv
<1> QED
  BY <1>7, <1>8, <1>9, <1>10, <1>11, <1>12 DEF IInv

\* So does a browser that receives a response.
LEMMA ReceiveStep ==
    ASSUME IInv, NEW r \in Requests, Receive(r)
    PROVE  IInv'
<1>1. /\ UNCHANGED <<state, input, seen, written, answer>>
      /\ UNCHANGED <<sent, http>>
      /\ received' = received \cup {r}
  BY DEF Receive, service
<1>2. sent[r].op # "none"
  BY DEF IInv, CallsInv, Receive, Codes, Refusals
<1>3. /\ jar' \in {jar, r, NoToken}
      /\ \/ pages' = pages
         \/ pages' = pages \cup {r} /\ answer[r] = "Established"
      /\ jar' = r => jar' = jar \/ pages' = pages \cup {r}
  <2>1. sent[r].op \in {"login", "inspect", "logout"}
    BY <1>2 DEF IInv, TypeOK
  <2>2. CASE http[r] # "200"
    BY <2>2 DEF Receive
  <2>3. CASE http[r] = "200" /\ sent[r].op = "login"
    <3>1. input[r].op = "login"
      BY <2>3 DEF IInv, TypeOK, CallsInv, Refusals
    <3>2. answer[r] = "Established"
      BY <2>3, <3>1 DEF IInv, ResponsesInv, AnswersInv, Codes
    <3> QED
      BY <2>3, <3>2 DEF Receive
  <2>4. CASE http[r] = "200" /\ sent[r].op = "inspect"
    BY <2>4 DEF Receive
  <2>5. CASE http[r] = "200" /\ sent[r].op = "logout"
    BY <2>5, TokensAssumption DEF Receive
  <2> QED
    BY <2>1, <2>2, <2>3, <2>4, <2>5
<1>4. TypeOK'
  BY <1>1, <1>3 DEF IInv, TypeOK
<1>5. CallsInv'
  BY <1>1 DEF IInv, CallsInv
<1>6. AnswersInv'
  BY <1>1 DEF IInv, AnswersInv
<1>7. ResponsesInv'
  BY <1>1 DEF IInv, ResponsesInv
<1>8. SessionsInv'
  BY <1>1 DEF IInv, SessionsInv
<1>9. TokensInv'
  BY <1>1, <1>3 DEF IInv, TokensInv
<1> QED
  BY <1>4, <1>5, <1>6, <1>7, <1>8, <1>9 DEF IInv

-----------------------------------------------------------------------------
(* The invariant *)

\* Every step keeps the invariant.
LEMMA StepIInv == IInv /\ [Next]_vars => IInv'
<1> SUFFICES ASSUME IInv, [Next]_vars PROVE IInv'
  OBVIOUS
<1>t. TypeOK
  BY DEF IInv
<1>1. ASSUME NEW r \in Requests, Login(r) PROVE IInv'
  BY <1>1, SendCalled DEF Login
<1>2. ASSUME NEW r \in Requests, Inspect(r) PROVE IInv'
  <2>1. CASE jar = NoToken
    BY <1>2, <2>1, SendRefused DEF Inspect, Refusals
  <2>2. CASE jar # NoToken
    BY <1>2, <1>t, <2>2, SendCalled DEF Inspect, TypeOK
  <2> QED
    BY <2>1, <2>2
<1>3. ASSUME NEW r \in Requests, NEW csrf \in pages \cup {NoToken, NoHeader},
             NEW origin \in BOOLEAN, Logout(r, csrf, origin)
      PROVE  IInv'
  <2>1. csrf \in Requests \cup {NoToken, NoHeader}
    BY <1>t DEF TypeOK
  <2>2. CASE ~origin \/ jar = NoToken \/ csrf = NoHeader
    <3>1. Send(r, "logout", csrf, origin)
      BY <1>3 DEF Logout
    <3>2. PICK code \in Refusals : Refuse(r, code)
      BY <1>3, <2>2 DEF Logout, Refusals
    <3> QED
      BY <2>1, <3>1, <3>2, SendRefused
  <2>3. CASE origin /\ jar # NoToken /\ csrf # NoHeader
    <3>1. /\ Send(r, "logout", csrf, origin)
          /\ Call(r, "logout", jar, csrf)
      BY <1>3, <2>3 DEF Logout
    <3>2. csrf \in Requests \cup {NoToken} /\ jar \in Requests \cup {NoToken}
      BY <1>t, <2>1, <2>3 DEF TypeOK
    <3> QED
      BY <2>1, <2>3, <3>1, <3>2, SendCalled
  <2> QED
    BY <2>2, <2>3
<1>4. CASE Work
  BY <1>4, OpenStep, ObserveStep, CloseStep, ReplyStep, DisableStep, CrashStep
     DEF Work, Service!Serve
<1>5. CASE UNCHANGED vars
  BY <1>5 DEF vars, service, browser, IInv, TypeOK, CallsInv, AnswersInv,
              ResponsesInv, SessionsInv, TokensInv
<1> QED
  BY <1>1, <1>2, <1>3, <1>4, <1>5, RespondStep, ReceiveStep DEF Next, Finished

\* The invariant holds initially.
LEMMA InitIInv == Init => IInv
<1> SUFFICES ASSUME Init PROVE IInv
  OBVIOUS
<1>1. TypeOK
  BY DEF Init, TypeOK, Service!Init, Service!NoRequest, Unsent
<1>2. CallsInv
  BY DEF Init, CallsInv, Service!Init, Service!NoRequest
<1>3. AnswersInv
  BY DEF Init, AnswersInv, Service!Init, Service!Answers
<1>4. ResponsesInv
  BY DEF Init, ResponsesInv, Service!Init, Service!NoRequest
<1>5. SessionsInv
  BY DEF Init, SessionsInv, Service!Init
<1>6. TokensInv
  BY DEF Init, TokensInv, Unsent
<1> QED
  BY <1>1, <1>2, <1>3, <1>4, <1>5, <1>6 DEF IInv

\* IInv is inductive, so it always holds.
THEOREM WebInvariant == Spec => []IInv
<1>1. Init => IInv
  BY InitIInv
<1>2. IInv /\ [Next]_vars => IInv'
  BY StepIInv
<1> QED
  BY <1>1, <1>2, PTL DEF Spec

\* Every variable of routes, browser and service keeps its type.
THEOREM WebTypeCorrect == Spec => []TypeOK
<1>1. IInv => TypeOK
  BY DEF IInv
<1> QED
  BY <1>1, WebInvariant, PTL

\* A 200 of login or logout means that it took effect, a 401, 403 or 503 that
\* it did not, whatever failed behind the route.
THEOREM ResponsesAreTrue == Spec => []ResponseIsTrue
<1>1. IInv => ResponseIsTrue
  <2> SUFFICES ASSUME IInv, NEW r \in Requests
               PROVE  /\ http[r] = "200" => written[r] \/ sent[r].op = "inspect"
                      /\ http[r] \in Refusals => ~written[r]
    BY DEF ResponseIsTrue
  <2>1. CASE input[r].op = "none"
    BY <2>1 DEF IInv, CallsInv, Refusals
  <2>2. CASE input[r].op # "none"
    BY <2>2 DEF IInv, CallsInv, ResponsesInv, AnswersInv, Codes
  <2> QED
    BY <2>1, <2>2
<1> QED
  BY <1>1, WebInvariant, PTL

\* Only a page with the application's origin and the CSRF token of the session
\* in the cookie ends that session.
THEOREM LogoutsComeFromPages == Spec => []OnlyOwnPagesLogOut
<1>1. IInv => OnlyOwnPagesLogOut
  <2> SUFFICES ASSUME IInv, NEW r \in Requests, written[r], sent[r].op = "logout"
               PROVE  /\ sent[r].origin
                      /\ sent[r].csrf = sent[r].cookie
                      /\ sent[r].cookie \in pages
    BY DEF OnlyOwnPagesLogOut
  <2>1. input[r].op = "logout"
    BY DEF IInv, CallsInv
  <2>2. /\ input[r].csrf = input[r].cookie
        /\ input[r].cookie \in Requests
    BY <2>1 DEF IInv, SessionsInv
  <2>3. /\ sent[r].origin
        /\ sent[r].csrf = sent[r].cookie
        /\ sent[r].cookie \in Requests
    BY <2>1, <2>2 DEF IInv, CallsInv
  <2> QED
    BY <2>3, TokensAssumption DEF IInv, TokensInv
<1> QED
  BY <1>1, WebInvariant, PTL

\* After the 200 of a logout has arrived, no request with the same cookie finds
\* its session live.
THEOREM LogoutsAreFinal == Spec => LogoutIsFinal
<1>1. IInv /\ [Next]_vars =>
          [\A r \in Requests :
              seen'[r] /\ ~seen[r] => sent[r].cookie \notin LoggedOut]_vars
  <2> SUFFICES ASSUME IInv, [Next]_vars, NEW r \in Requests, seen'[r], ~seen[r]
               PROVE  sent[r].cookie \notin LoggedOut
    OBVIOUS
  <2>1. Service!Observe(r)
    <3>1. CASE Work
      <4>1. PICK q \in Requests : Service!Observe(q)
        BY <3>1 DEF Work, Service!Serve, Service!Open, Service!Close,
                    Service!Reply, Service!Disable, Service!Crash
      <4> QED
        BY <4>1 DEF Service!Observe, IInv, TypeOK
    <3>2. CASE UNCHANGED seen
      BY <3>2
    <3> QED
      BY <3>1, <3>2 DEF Next, Login, Inspect, Logout, Respond, Receive, Finished,
                        Refuse, Call, Service!Ask, vars, service
  <2>2. /\ input[r].op \in {"inspect", "logout"}
        /\ state[input[r].cookie] = "live"
    BY <2>1 DEF Service!Observe
  <2>3. state[sent[r].cookie] = "live"
    BY <2>2 DEF IInv, CallsInv
  <2>4. ASSUME NEW q \in received, sent[q].op = "logout", http[q] = "200"
        PROVE  state[sent[q].cookie] = "ended"
    <3>1. q \in Requests
      BY DEF IInv, TypeOK
    <3>2. input[q].op = "logout"
      BY <2>4, <3>1 DEF IInv, CallsInv, Refusals
    <3>3. written[q]
      BY <2>4, <3>1, <3>2 DEF IInv, ResponsesInv, AnswersInv, Codes
    <3> QED
      BY <3>1, <3>2, <3>3 DEF IInv, SessionsInv, CallsInv
  <2> QED
    BY <2>3, <2>4 DEF LoggedOut
<1> QED
  BY <1>1, WebInvariant, PTL DEF Spec, LogoutIsFinal

\* The routes are callers that SessionLifecycle serves, for any number of
\* requests and whatever the browser does: the service of a WebAuth behaviour is
\* one of its own.
THEOREM CallsAreServed == Spec => UsesService
<1>1. Init => Service!Init
  BY DEF Init
<1>2. IInv /\ [Next]_vars => [Service!Next]_(Service!vars)
  <2> SUFFICES ASSUME IInv, [Next]_vars PROVE [Service!Next]_(Service!vars)
    OBVIOUS
  <2>1. jar \in Service!Issued /\ pages \cup {NoToken} \subseteq Service!Issued
    BY DEF IInv, TypeOK, TokensInv, Service!Issued
  <2>2. ASSUME NEW r \in Requests, NEW op \in {"login", "inspect", "logout"},
               NEW cookie \in Service!Issued, NEW csrf \in Service!Issued,
               Service!Ask(r, op, cookie, csrf)
        PROVE  Service!Next
    BY <2>2 DEF Service!Next, Service!Ask
  <2>3. ASSUME NEW r \in Requests, Login(r) \/ Inspect(r)
        PROVE  [Service!Next]_(Service!vars)
    <3>1. NoToken \in Service!Issued
      BY <2>1
    <3>2. CASE UNCHANGED service
      BY <3>2 DEF service, Service!vars
    <3> QED
      BY <2>1, <2>2, <2>3, <3>1, <3>2 DEF Login, Inspect, Refuse, Call
  <2>4. ASSUME NEW r \in Requests, NEW csrf \in pages \cup {NoToken, NoHeader},
               NEW origin \in BOOLEAN, Logout(r, csrf, origin)
        PROVE  [Service!Next]_(Service!vars)
    <3>1. CASE UNCHANGED service
      BY <3>1 DEF service, Service!vars
    <3>2. CASE Service!Ask(r, "logout", jar, csrf) /\ csrf # NoHeader
      <4>1. csrf \in Service!Issued
        BY <2>1, <3>2
      <4> QED
        BY <2>1, <2>2, <3>2, <4>1
    <3> QED
      BY <2>4, <3>1, <3>2 DEF Logout, Refuse, Call
  <2>5. CASE Work
    BY <2>5 DEF Work, Service!Next
  <2>6. CASE UNCHANGED service
    BY <2>6 DEF service, Service!vars
  <2> QED
    BY <2>3, <2>4, <2>5, <2>6 DEF Next, Respond, Receive, Finished, vars
<1> QED
  BY <1>1, <1>2, WebInvariant, PTL DEF Spec, UsesService, Service!Spec
=================================================================================
