------------------------- MODULE LocalIdentityInvariant -------------------------
(***************************************************************************)
(* The inductive invariant of LocalIdentity.                               *)
(***************************************************************************)
EXTENDS LocalIdentity

\* A process serves with the settings of its environment, and they are good.
SettingsInv ==
    /\ process # "failed"
    /\ process = "serving" =>
          env \in Environments /\ SettingsAccepted(env) /\ settings = Loaded(env)

\* Ids and subjects are unique, identities have users, and only identities of
\* other providers share one.
KeysInv ==
    /\ \A u, v \in users : u.id = v.id => u = v
    /\ \A i, j \in identities : KeyOf(i) = KeyOf(j) => i = j
    /\ \A i \in identities : \E u \in users : u.id = i.user
    /\ \A i, j \in identities :
          /\ i.provider_type = "LOCAL_TRUSTED"
          /\ j.provider_type = "LOCAL_TRUSTED"
          /\ i.user = j.user
          => i = j

\* Stored texts are stripped.
StrippedInv ==
    \A i \in identities : i.issuer.pad = 0 /\ i.subject.pad = 0

\* Rows that no operator has changed are those that a login has made.
UntouchedInv ==
    \A i \in identities : KeyOf(i) \notin touched =>
        /\ i.provider_type = "LOCAL_TRUSTED"
        /\ IsIdentity(i) /\ i.disabled_at = None
        /\ \A u \in users : u.id = i.user => IsUser(u) /\ u.status = "ACTIVE"

\* Whoever has logged in has an identity that says so.
LoginsInv ==
    \A l \in logins : \E i \in identities :
        i.provider_type = "LOCAL_TRUSTED" /\ KeyOf(i) = l[1] /\ i.user = l[2]

\* TLC checks IInv as an invariant of a run, the proofs that it is inductive.
IInv ==
    /\ TypeOK
    /\ SettingsInv
    /\ KeysInv
    /\ StrippedInv
    /\ UntouchedInv
    /\ LoginsInv
    /\ OnlyEditedIdentitiesFail
================================================================================
