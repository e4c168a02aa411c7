---------------------------- MODULE LocalIdentityProofs ----------------------------
(***************************************************************************)
(* Proofs about LocalIdentity, for any environments, users and number of   *)
(* changes by the operator: IInv is inductive, and the promises follow.    *)
(***************************************************************************)
EXTENDS LocalIdentityInvariant, TLAPS

\* What a serving process reads in its settings.
LEMMA GoodSettings ==
    ASSUME IInv, process = "serving"
    PROVE  /\ env \in Environments
           /\ env.issuer \in Texts /\ env.subject \in Texts
           /\ env.display_name \in Texts
           /\ settings.issuer = [core |-> env.issuer.core, pad |-> 0]
           /\ settings.subject = [core |-> env.subject.core, pad |-> 0]
           /\ settings.display_name = [core |-> env.display_name.core, pad |-> 0]
           /\ env.issuer.core \in Nat \ {0} /\ env.subject.core \in Nat \ {0}
           /\ env.display_name.core \in Nat \ {0}
<1>1. /\ env \in Environments
      /\ SettingsAccepted(env)
      /\ settings = Loaded(env)
  BY DEF IInv, SettingsInv
<1>2. /\ env.issuer \in Texts /\ ~IsBlank(env.issuer)
      /\ env.subject \in Texts /\ ~IsBlank(env.subject)
      /\ env.display_name \in Texts /\ ~IsBlank(env.display_name)
  BY <1>1, LocalIdentityAssumption DEF SettingsAccepted, TextAccepted
<1>3. ASSUME NEW t \in Texts, ~IsBlank(t)
      PROVE  /\ Normalized(t) = [core |-> t.core, pad |-> 0]
             /\ t.core \in Nat \ {0}
  BY <1>3, LocalIdentityAssumption DEF Texts, Normalized, Stripped, IsBlank
<1>4. /\ settings.issuer = Normalized(env.issuer)
      /\ settings.subject = Normalized(env.subject)
      /\ settings.display_name = Normalized(env.display_name)
  BY <1>1 DEF Loaded
<1> QED
  BY <1>1, <1>2, <1>3, <1>4

\* A login finds the identity of the subject that its environment names.
LEMMA FoundIsNamed ==
    ASSUME IInv, process = "serving", NEW i \in identities
    PROVE  OfSubject(i) <=> KeyOf(i) = Named(env)
<1>1. /\ i.issuer \in Texts /\ i.subject \in Texts
      /\ i.issuer.pad = 0 /\ i.subject.pad = 0
  BY DEF IInv, TypeOK, IdentityRow, StrippedInv
<1> QED
  BY <1>1, GoodSettings DEF OfSubject, KeyOf, Named, Texts

\* Starting the process keeps the invariant.
LEMMA Starts ==
    ASSUME IInv, NEW e \in Environments, Start(e)
    PROVE  IInv'
<1>a. /\ env' = e /\ outcome' = "none"
      /\ UNCHANGED <<users, identities, edits, touched, logins>>
  BY DEF Start, rows, history
<1>b. ASSUME SettingsAccepted(e)
      PROVE  /\ Loaded(e) \in [issuer : Texts, subject : Texts,
                               display_name : Texts, public_origin : Origins]
             /\ \A t \in {Loaded(e).issuer, Loaded(e).subject,
                           Loaded(e).display_name} : t # None /\ ~IsBlank(t)
  <2>1. /\ e.issuer \in Texts /\ ~IsBlank(e.issuer)
        /\ e.subject \in Texts /\ ~IsBlank(e.subject)
        /\ e.display_name \in Texts /\ ~IsBlank(e.display_name)
        /\ e.public_origin \in Origins
    BY <1>b, LocalIdentityAssumption DEF SettingsAccepted, TextAccepted
  <2>2. ASSUME NEW t \in Texts, ~IsBlank(t)
        PROVE  Normalized(t) \in Texts /\ ~IsBlank(Normalized(t))
    BY <2>2, LocalIdentityAssumption DEF Texts, Normalized, Stripped, IsBlank
  <2>3. PublicOrigin(e.public_origin) \in Origins
    BY <2>1 DEF PublicOrigin, Serialized, Origins
  <2> QED
    BY <2>1, <2>2, <2>3, LocalIdentityAssumption DEF Loaded
<1>c. /\ process' \in {"refused", "serving"}
      /\ process' = "serving" => SettingsAccepted(e) /\ settings' = Loaded(e)
  BY <1>b DEF Start
<1>1. TypeOK'
  BY <1>a, <1>b, <1>c DEF IInv, TypeOK
<1>2. SettingsInv'
  BY <1>a, <1>b, <1>c DEF IInv, TypeOK, SettingsInv
<1>3. KeysInv'
  BY <1>a, <1>b, <1>c DEF IInv, TypeOK, KeysInv
<1>4. StrippedInv'
  BY <1>a, <1>b, <1>c DEF IInv, TypeOK, StrippedInv
<1>5. UntouchedInv'
  BY <1>a, <1>b, <1>c DEF IInv, TypeOK, UntouchedInv
<1>6. LoginsInv'
  BY <1>a, <1>b, <1>c DEF IInv, TypeOK, LoginsInv
<1>7. OnlyEditedIdentitiesFail'
  BY <1>a, <1>b, <1>c DEF IInv, TypeOK, OnlyEditedIdentitiesFail
<1> QED
  BY <1>1, <1>2, <1>3, <1>4, <1>5, <1>6, <1>7 DEF IInv

\* So does stopping it.
LEMMA Stops ==
    ASSUME IInv, Stop \/ UNCHANGED vars
    PROVE  IInv'
<1>a. /\ process' \in {"off", process}
      /\ UNCHANGED <<env, settings, users, identities, edits, outcome, touched, logins>>
  BY DEF Stop, vars, rows, history
<1>1. TypeOK'
  BY <1>a DEF IInv, TypeOK
<1>2. SettingsInv'
  BY <1>a DEF IInv, TypeOK, SettingsInv
<1>3. KeysInv'
  BY <1>a DEF IInv, TypeOK, KeysInv
<1>4. StrippedInv'
  BY <1>a DEF IInv, TypeOK, StrippedInv
<1>5. UntouchedInv'
  BY <1>a DEF IInv, TypeOK, UntouchedInv
<1>6. LoginsInv'
  BY <1>a DEF IInv, TypeOK, LoginsInv
<1>7. OnlyEditedIdentitiesFail'
  BY <1>a DEF IInv, TypeOK, OnlyEditedIdentitiesFail
<1> QED
  BY <1>1, <1>2, <1>3, <1>4, <1>5, <1>6, <1>7 DEF IInv

\* So does a first login: only its own rows are added, and a conflict means that
\* the operator was there.
LEMMA FirstLogins ==
    ASSUME IInv, NEW u \in Users, FirstLogin(u)
    PROVE  IInv'
<1>a. /\ process = "serving"
      /\ \A v \in users : v.id # u
      /\ UNCHANGED <<env, process, settings, edits, touched>>
  BY DEF FirstLogin, Established, Refused, history
<1>b. /\ IsUser(NewUser(u)) /\ NewUser(u).id = u /\ NewUser(u) \in UserRow
      /\ NewUser(u).status = "ACTIVE"
  BY <1>a, GoodSettings
     DEF NewUser, IsUser, IsBlank, UserRow, UserStatus, Times, IInv, TypeOK
<1>c. /\ IsIdentity(NewIdentity(u)) /\ NewIdentity(u) \in IdentityRow
      /\ NewIdentity(u).provider_type = "LOCAL_TRUSTED"
      /\ NewIdentity(u).user = u
      /\ NewIdentity(u).disabled_at = None
      /\ NewIdentity(u).issuer.pad = 0 /\ NewIdentity(u).subject.pad = 0
      /\ KeyOf(NewIdentity(u)) = Named(env)
  <2>1. None # "before"
    BY LocalIdentityAssumption
  <2> QED
    BY <1>a, <2>1, GoodSettings
       DEF NewIdentity, IsIdentity, IsBlank, IdentityRow, Times, KeyOf, Named,
           IInv, TypeOK
<1>d. Named(env) \in Nat \X Nat
  BY <1>a, GoodSettings DEF Named
<1>e. CASE outcome' = "Established"
  <2>a. /\ users' = users \cup {NewUser(u)}
        /\ identities' = identities \cup {NewIdentity(u)}
        /\ logins' = logins \cup {<<Named(env), u>>}
        /\ \A i \in identities : ~OfSubject(i)
    BY <1>e DEF FirstLogin, Established, Refused
  <2>b. \A i \in identities : KeyOf(i) # Named(env) /\ i.user # u
    <3>1. \A i \in identities : KeyOf(i) # Named(env)
      BY <1>a, <2>a, FoundIsNamed
    <3>2. \A i \in identities : \E v \in users : v.id = i.user
      BY DEF IInv, KeysInv
    <3> QED
      BY <1>a, <3>1, <3>2
  <2>1. TypeOK'
    BY <1>e, <1>a, <1>b, <1>c, <1>d, <2>a, <2>b DEF IInv, TypeOK
  <2>2. SettingsInv'
    BY <1>e, <1>a, <1>b, <1>c, <1>d, <2>a, <2>b DEF IInv, TypeOK, SettingsInv
  <2>3. KeysInv'
    BY <1>e, <1>a, <1>b, <1>c, <1>d, <2>a, <2>b DEF IInv, TypeOK, KeysInv
  <2>4. StrippedInv'
    BY <1>e, <1>a, <1>b, <1>c, <1>d, <2>a, <2>b DEF IInv, TypeOK, StrippedInv
  <2>5. UntouchedInv'
    BY <1>e, <1>a, <1>b, <1>c, <1>d, <2>a, <2>b DEF IInv, TypeOK, UntouchedInv
  <2>6. LoginsInv'
    BY <1>e, <1>a, <1>b, <1>c, <1>d, <2>a, <2>b DEF IInv, TypeOK, LoginsInv
  <2>7. OnlyEditedIdentitiesFail'
    BY <1>e, <1>a, <1>b, <1>c, <1>d, <2>a, <2>b
    DEF IInv, TypeOK, OnlyEditedIdentitiesFail
  <2> QED
    BY <2>1, <2>2, <2>3, <2>4, <2>5, <2>6, <2>7 DEF IInv
<1>f. CASE outcome' # "Established"
  <2>a. UNCHANGED <<users, identities, logins>>
    BY <1>f DEF FirstLogin, Established, Refused, rows, history
  <2>b. /\ outcome' = "IdentityPersistenceConflict"
        /\ \E i \in identities : OfSubject(i) /\ ~FoundBy(i)
    BY <1>b, <1>c, <1>f DEF FirstLogin, Established, Refused
  <2>c. Named(env) \in touched
    <3>1. PICK i \in identities : OfSubject(i) /\ ~FoundBy(i)
      BY <2>b
    <3>2. KeyOf(i) = Named(env) /\ i.provider_type # "LOCAL_TRUSTED"
      BY <1>a, <3>1, FoundIsNamed DEF FoundBy
    <3> QED
      BY <3>2 DEF IInv, UntouchedInv
  <2>1. TypeOK'
    BY <1>a, <2>a, <2>b, <2>c DEF IInv, TypeOK
  <2>2. SettingsInv'
    BY <1>a, <2>a, <2>b, <2>c DEF IInv, TypeOK, SettingsInv
  <2>3. KeysInv'
    BY <1>a, <2>a, <2>b, <2>c DEF IInv, TypeOK, KeysInv
  <2>4. StrippedInv'
    BY <1>a, <2>a, <2>b, <2>c DEF IInv, TypeOK, StrippedInv
  <2>5. UntouchedInv'
    BY <1>a, <2>a, <2>b, <2>c DEF IInv, TypeOK, UntouchedInv
  <2>6. LoginsInv'
    BY <1>a, <2>a, <2>b, <2>c DEF IInv, TypeOK, LoginsInv
  <2>7. OnlyEditedIdentitiesFail'
    BY <1>a, <2>a, <2>b, <2>c DEF IInv, TypeOK, OnlyEditedIdentitiesFail
  <2> QED
    BY <2>1, <2>2, <2>3, <2>4, <2>5, <2>6, <2>7 DEF IInv
<1> QED
  BY <1>e, <1>f

\* So does a login of a known subject.
LEMMA Logins ==
    ASSUME IInv, NEW i \in identities, NEW u \in users, Login(i, u)
    PROVE  IInv'
<1>a. /\ process = "serving" /\ FoundBy(i) /\ u.id = i.user
      /\ UNCHANGED <<env, process, settings, edits, users, identities, touched>>
  BY DEF Login, Established, Refused, rows, history
<1>b. /\ KeyOf(i) = Named(env) /\ i.provider_type = "LOCAL_TRUSTED"
      /\ Named(env) \in Nat \X Nat /\ u.id \in Users
  BY <1>a, FoundIsNamed, GoodSettings DEF FoundBy, Named, IInv, TypeOK, UserRow
<1>c. \/ outcome' = "Established" /\ logins' = logins \cup {<<Named(env), u.id>>}
      \/ /\ outcome' \in {"InactiveIdentity", "ValueError"} /\ logins' = logins
         /\ Named(env) \in touched
  <2>1. CASE outcome' = "Established"
    BY <2>1 DEF Login, Established, Refused
  <2>2. CASE outcome' # "Established"
    <3>1. /\ outcome' \in {"InactiveIdentity", "ValueError"} /\ logins' = logins
          /\ ~(/\ IsIdentity(i) /\ IsUser(u)
               /\ u.status = "ACTIVE" /\ i.disabled_at = None)
      BY <2>2 DEF Login, Established, Refused, history
    <3> QED
      BY <1>a, <1>b, <3>1 DEF IInv, UntouchedInv
  <2> QED
    BY <2>1, <2>2
<1>1. TypeOK'
  BY <1>a, <1>b, <1>c DEF IInv, TypeOK
<1>2. SettingsInv'
  BY <1>a, <1>b, <1>c DEF IInv, TypeOK, SettingsInv
<1>3. KeysInv'
  BY <1>a, <1>b, <1>c DEF IInv, TypeOK, KeysInv
<1>4. StrippedInv'
  BY <1>a, <1>b, <1>c DEF IInv, TypeOK, StrippedInv
<1>5. UntouchedInv'
  BY <1>a, <1>b, <1>c DEF IInv, TypeOK, UntouchedInv
<1>6. LoginsInv'
  BY <1>a, <1>b, <1>c DEF IInv, TypeOK, LoginsInv
<1>7. OnlyEditedIdentitiesFail'
  BY <1>a, <1>b, <1>c DEF IInv, TypeOK, OnlyEditedIdentitiesFail
<1> QED
  BY <1>1, <1>2, <1>3, <1>4, <1>5, <1>6, <1>7 DEF IInv

-----------------------------------------------------------------------------
(* The operator *)

\* The key of a stored identity.
LEMMA KeysAreKeys ==
    ASSUME IInv, NEW i \in identities
    PROVE  KeyOf(i) \in Nat \X Nat
  BY DEF IInv, TypeOK, IdentityRow, KeyOf, Texts

\* A changed user keeps the invariant: his identities are marked.
LEMMA UserEdits ==
    ASSUME IInv, NEW u \in users, EditUser(u)
    PROVE  IInv'
<1>a. PICK v :
          /\ users' = (users \ {u}) \cup {v}
          /\ v.id = u.id /\ v \in UserRow
  <2>1. PICK status \in UserStatus, t \in {None, "after"},
             name \in {u.display_name, [core |-> 0, pad |-> 1]} :
          users' = (users \ {u}) \cup
                     {[u EXCEPT !.status = status, !.disabled_at = t,
                                !.display_name = name]}
    BY DEF EditUser
  <2>2. u \in UserRow
    BY DEF IInv, TypeOK
  <2>3. [u EXCEPT !.status = status, !.disabled_at = t, !.display_name = name]
           \in UserRow
    <3>1. name \in Texts
      BY <2>2 DEF UserRow, Texts
    <3>2. t \in Times
      BY DEF Times
    <3> QED
      BY <2>2, <3>1, <3>2 DEF UserRow
  <2> QED
    BY <2>1, <2>2, <2>3 DEF UserRow
<1>b. /\ touched' = touched \cup {KeyOf(i) : i \in {j \in identities : j.user = u.id}}
      /\ edits' \in 0 .. MaxEdits
      /\ UNCHANGED <<env, process, settings, outcome, logins, identities>>
  BY LocalIdentityAssumption DEF EditUser, Edit, IInv, TypeOK
<1>c. /\ touched \subseteq touched'
      /\ \A i \in identities : i.user = u.id => KeyOf(i) \in touched'
      /\ touched' \subseteq Nat \X Nat
  BY <1>b, KeysAreKeys DEF IInv, TypeOK
<1>1. TypeOK'
  BY <1>a, <1>b, <1>c DEF IInv, TypeOK
<1>2. SettingsInv'
  BY <1>a, <1>b, <1>c DEF IInv, TypeOK, SettingsInv
<1>3. KeysInv'
  BY <1>a, <1>b, <1>c DEF IInv, TypeOK, KeysInv
<1>4. StrippedInv'
  BY <1>a, <1>b, <1>c DEF IInv, TypeOK, StrippedInv
<1>5. UntouchedInv'
  BY <1>a, <1>b, <1>c DEF IInv, TypeOK, UntouchedInv
<1>6. LoginsInv'
  BY <1>a, <1>b, <1>c DEF IInv, TypeOK, LoginsInv
<1>7. OnlyEditedIdentitiesFail'
  BY <1>a, <1>b, <1>c DEF IInv, TypeOK, OnlyEditedIdentitiesFail
<1> QED
  BY <1>1, <1>2, <1>3, <1>4, <1>5, <1>6, <1>7 DEF IInv

\* So does a changed identity.
LEMMA IdentityEdits ==
    ASSUME IInv, NEW i \in identities, EditIdentity(i)
    PROVE  IInv'
<1>a. PICK j :
          /\ identities' = (identities \ {i}) \cup {j}
          /\ j \in IdentityRow /\ j.user = i.user /\ j.issuer = i.issuer
          /\ j.subject = i.subject /\ j.provider_type = i.provider_type
  <2>1. PICK t \in Times :
          identities' = (identities \ {i}) \cup {[i EXCEPT !.disabled_at = t]}
    BY DEF EditIdentity
  <2>2. i \in IdentityRow
    BY DEF IInv, TypeOK
  <2>3. [i EXCEPT !.disabled_at = t] \in IdentityRow
    BY <2>2 DEF IdentityRow
  <2> QED
    BY <2>1, <2>2, <2>3 DEF IdentityRow
<1>b. /\ touched' = touched \cup {KeyOf(i)}
      /\ edits' \in 0 .. MaxEdits
      /\ UNCHANGED <<env, process, settings, outcome, logins, users>>
  BY LocalIdentityAssumption DEF EditIdentity, Edit, IInv, TypeOK
<1>c. KeyOf(j) = KeyOf(i) /\ KeyOf(i) \in Nat \X Nat
  BY <1>a, KeysAreKeys DEF KeyOf
<1>1. TypeOK'
  BY <1>a, <1>b, <1>c DEF IInv, TypeOK
<1>2. SettingsInv'
  BY <1>a, <1>b, <1>c DEF IInv, TypeOK, SettingsInv
<1>3. KeysInv'
  BY <1>a, <1>b, <1>c DEF IInv, TypeOK, KeysInv
<1>4. StrippedInv'
  BY <1>a, <1>b, <1>c DEF IInv, TypeOK, StrippedInv
<1>5. UntouchedInv'
  BY <1>a, <1>b, <1>c DEF IInv, TypeOK, UntouchedInv
<1>6. LoginsInv'
  BY <1>a, <1>b, <1>c DEF IInv, TypeOK, LoginsInv
<1>7. OnlyEditedIdentitiesFail'
  BY <1>a, <1>b, <1>c DEF IInv, TypeOK, OnlyEditedIdentitiesFail
<1> QED
  BY <1>1, <1>2, <1>3, <1>4, <1>5, <1>6, <1>7 DEF IInv

\* So does an identity of another provider.
LEMMA OidcIdentities ==
    ASSUME IInv, NEW u \in users, NEW e \in Environments, AddOidcIdentity(u, e)
    PROVE  IInv'
<1>a. PICK i :
          /\ identities' = identities \cup {i}
          /\ i \in IdentityRow /\ i.user = u.id /\ i.provider_type = "OIDC"
          /\ i.issuer.pad = 0 /\ i.subject.pad = 0
          /\ \A j \in identities : j.issuer # i.issuer \/ j.subject # i.subject
          /\ touched' = touched \cup {KeyOf(i)}
  <2> DEFINE i == [user |-> u.id, provider_type |-> "OIDC",
                   issuer |-> Stripped(e.issuer), subject |-> Stripped(e.subject),
                   disabled_at |-> None]
  <2>1. e.issuer \in Texts /\ e.subject \in Texts
    BY LocalIdentityAssumption DEF AddOidcIdentity
  <2>2. i \in IdentityRow /\ i.issuer.pad = 0 /\ i.subject.pad = 0
    BY <2>1 DEF IdentityRow, Stripped, Texts, Times, IInv, TypeOK, UserRow
  <2>3. /\ identities' = identities \cup {i}
        /\ \A j \in identities : j.issuer # i.issuer \/ j.subject # i.subject
        /\ touched' = touched \cup {KeyOf(i)}
    BY DEF AddOidcIdentity, Edit
  <2>4. i.user = u.id /\ i.provider_type = "OIDC"
    OBVIOUS
  <2> HIDE DEF i
  <2> QED
    BY <2>2, <2>3, <2>4
<1>b. /\ edits' \in 0 .. MaxEdits
      /\ UNCHANGED <<env, process, settings, outcome, logins, users>>
  BY LocalIdentityAssumption DEF AddOidcIdentity, Edit, IInv, TypeOK
<1>c. /\ KeyOf(i) \in Nat \X Nat
      /\ \A j \in identities : KeyOf(j) # KeyOf(i)
  BY <1>a DEF KeyOf, IInv, TypeOK, StrippedInv, IdentityRow, Texts
<1>1. TypeOK'
  BY <1>a, <1>b, <1>c DEF IInv, TypeOK
<1>2. SettingsInv'
  BY <1>a, <1>b, <1>c DEF IInv, TypeOK, SettingsInv
<1>3. KeysInv'
  BY <1>a, <1>b, <1>c DEF IInv, TypeOK, KeysInv
<1>4. StrippedInv'
  BY <1>a, <1>b, <1>c DEF IInv, TypeOK, StrippedInv
<1>5. UntouchedInv'
  BY <1>a, <1>b, <1>c DEF IInv, TypeOK, UntouchedInv
<1>6. LoginsInv'
  BY <1>a, <1>b, <1>c DEF IInv, TypeOK, LoginsInv
<1>7. OnlyEditedIdentitiesFail'
  BY <1>a, <1>b, <1>c DEF IInv, TypeOK, OnlyEditedIdentitiesFail
<1> QED
  BY <1>1, <1>2, <1>3, <1>4, <1>5, <1>6, <1>7 DEF IInv

-----------------------------------------------------------------------------
(* Theorems *)

\* The initial state satisfies the invariant.
LEMMA InitIInv == Init => IInv
  BY LocalIdentityAssumption
     DEF Init, IInv, TypeOK, SettingsInv, KeysInv, StrippedInv, UntouchedInv,
         LoginsInv, OnlyEditedIdentitiesFail

\* Every step keeps it.
LEMMA NextIInv == IInv /\ [Next]_vars => IInv'
  BY Starts, Stops, FirstLogins, Logins, UserEdits, IdentityEdits,
     OidcIdentities
     DEF Next

\* The inductive invariant holds, whatever environments operators write.
THEOREM Invariance == Spec => []IInv
  BY InitIInv, NextIInv, PTL DEF Spec

\* Accepted settings serve, and only subjects whose rows were changed are ever
\* refused.
THEOREM AcceptedSettingsServe == Spec => []OnlyEditedIdentitiesFail
  BY Invariance, PTL DEF IInv

\* The same texts name the same user, however often the process is started.
THEOREM SubjectsKeepTheirUsers == Spec => []OneUserPerSubject
<1>1. IInv => OneUserPerSubject
  <2> SUFFICES ASSUME IInv, NEW a \in logins, NEW b \in logins
               PROVE  a[1] = b[1] <=> a[2] = b[2]
    BY DEF OneUserPerSubject
  <2>1. PICK i \in identities :
            i.provider_type = "LOCAL_TRUSTED" /\ KeyOf(i) = a[1] /\ i.user = a[2]
    BY DEF IInv, LoginsInv
  <2>2. PICK j \in identities :
            j.provider_type = "LOCAL_TRUSTED" /\ KeyOf(j) = b[1] /\ j.user = b[2]
    BY DEF IInv, LoginsInv
  <2> QED
    BY <2>1, <2>2 DEF IInv, KeysInv
<1> QED
  BY <1>1, Invariance, PTL

\* Pages have the Origin that logout asks for, unless the configured one has a
\* path.
THEOREM OriginsMatch == Spec => []PagesHaveTheOrigin
<1>1. IInv => PagesHaveTheOrigin
  <2> SUFFICES ASSUME IInv, process = "serving", env.public_origin.tail # "/path"
               PROVE  settings.public_origin = PageOrigin(env.public_origin)
    BY DEF PagesHaveTheOrigin
  <2>1. env.public_origin \in Origins
    BY GoodSettings, LocalIdentityAssumption
  <2>2. settings.public_origin = PublicOrigin(env.public_origin)
    BY DEF IInv, SettingsInv, Loaded
  <2> QED
    BY <2>1, <2>2 DEF PublicOrigin, Serialized, PageOrigin, Origins
<1> QED
  BY <1>1, Invariance, PTL
=================================================================================
