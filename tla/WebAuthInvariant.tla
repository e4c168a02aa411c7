---------------------------- MODULE WebAuthInvariant ----------------------------
(***************************************************************************)
(* The inductive invariant of WebAuth: why its responses can be believed.  *)
(* TLC checks it beside the properties; WebAuthProofs proves it.           *)
(***************************************************************************)
EXTENDS WebAuth

\* A request that has not called the service has left no trace in it; one that
\* has carries there what the browser sent, once the route had let it pass.
CallsInv ==
    \A r \in Requests :
        /\ input[r].op = "none" =>
              /\ http[r] \in {"unsent"} \cup Refusals
              /\ answer[r] = "waiting"
              /\ ~written[r]
              /\ ~seen[r]
        /\ http[r] # "unsent" => sent[r].op # "none"
        /\ input[r].op # "none" =>
              /\ http[r] # "unsent"
              /\ input[r].op = sent[r].op
        /\ input[r].op \in {"inspect", "logout"} =>
              input[r].cookie = sent[r].cookie
        /\ input[r].op = "logout" => input[r].csrf = sent[r].csrf /\ sent[r].origin

\* An answer tells whether its call took effect, and it is the last step of it.
AnswersInv ==
    \A r \in Requests :
        /\ answer[r] = "Established" => written[r] /\ input[r].op = "login"
        /\ answer[r] = "Authenticated" => input[r].op = "inspect"
        /\ answer[r] = "Revoked" => written[r] /\ input[r].op = "logout"
        /\ answer[r] \in Service!Answers \ {"Established", "Authenticated",
                                            "Revoked", "OperationalError"}
              => ~written[r]

\* A route that has called the service responds to its answer only.
ResponsesInv ==
    \A r \in Requests :
        http[r] \in Codes /\ input[r].op # "none" =>
            /\ answer[r] \in Service!Answers
            /\ http[r] = "200" => answer[r] \in
                   {"Established", "Authenticated", "Revoked"}
            /\ http[r] \in Refusals => answer[r] \notin
                   {"Established", "Authenticated", "Revoked",
                    "OperationalError"}

\* Whoever writes or looks on does it to a session that a login has opened, and
\* what a logout has closed stays closed.
SessionsInv ==
    \A r \in Requests :
        /\ state[r] # "none" => written[r] /\ input[r].op = "login"
        /\ seen[r] =>
              /\ input[r].op \in {"inspect", "logout"}
              /\ input[r].cookie \in Requests
              /\ state[input[r].cookie] # "none"
        /\ written[r] => input[r].op \in {"login", "logout"}
        /\ written[r] /\ input[r].op = "logout" =>
              /\ seen[r]
              /\ input[r].csrf = input[r].cookie
              /\ state[input[r].cookie] = "ended"

\* The tokens of the pages are those of logins that the service has answered, and
\* every cookie the browser holds or has sent came with one of them.
TokensInv ==
    /\ \A p \in pages : answer[p] = "Established"
    /\ jar \in pages \cup {NoToken}
    /\ \A r \in Requests : sent[r].cookie \in pages \cup {NoToken}

IInv == /\ TypeOK /\ CallsInv /\ AnswersInv /\ ResponsesInv /\ SessionsInv
        /\ TokensInv
=================================================================================
