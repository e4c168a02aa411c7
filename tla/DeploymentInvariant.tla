-------------------------- MODULE DeploymentInvariant --------------------------
(***************************************************************************)
(* The inductive invariant of Deployment: why its safety properties hold.  *)
(***************************************************************************)
EXTENDS Deployment

\* The tables that c's transaction has come to so far.
Taken(c) == {Script(c)[i] : i \in 1 .. at[c] - 1}

\* Each client does what its kind does, and stands where its pc says.
ControlInv ==
    /\ \A m \in Migrators : pc[m] = "idle" \/ op[m] \in {"upgrade", "downgrade"}
    /\ \A r \in Requests :
          pc[r] = "idle" \/ op[r] \in {"login", "inspect", "logout"}
    /\ \A c \in Clients :
          /\ pc[c] = "idle" => op[c] = "none"
          /\ pc[c] \in {"idle", "connecting"} => at[c] = 1
          /\ (pc[c] \in {"lost", "done"}) <=> (outcome[c] # "none")
          /\ pc[c] = "lost" => outcome[c] = Failure(c)

\* A transaction holds what it has come to, until it ends.
HeldRight(c) ==
    /\ InTransaction(c) => at[c] <= Len(Script(c)) + 1 /\ held[c] = Taken(c)
    /\ ~InTransaction(c) => held[c] = {}

HeldInv == \A c \in Clients : HeldRight(c)

\* Who holds a table has found the whole schema, or for an upgrade none of it,
\* and it cannot go or come while it is held; a migration shares no table.
LocksInv ==
    /\ \A c \in Clients :
          held[c] # {} => tables = IF op[c] = "upgrade" THEN {} ELSE Tables
    /\ \A m \in Migrators, c \in Clients :
          m # c => held[m] \cap held[c] = {}

\* What holds after a look at the revision, until another downgrade commits.
StillThere(d) == d \subseteq dropped /\ (d = dropped => revision = "0001")

HistoryInv ==
    /\ \A m \in dropped : pc[m] = "done"
    /\ \A m \in Migrators : since[m] \subseteq dropped
    /\ \A p \in Probes : probe[p] \in {"True", "ready"} => StillThere(asked[p])
    /\ \A c \in Clients : \A d \in promises[c] : StillThere(d)

\* TLC checks IInv as an invariant of a run, the proofs that it is inductive.
IInv ==
    /\ TypeOK
    /\ SchemaWhole
    /\ ControlInv
    /\ HeldInv
    /\ LocksInv
    /\ HistoryInv
    /\ MissingAtOnce
    /\ ReadyMeansServed
    /\ UpgradeMeansSchema
================================================================================
