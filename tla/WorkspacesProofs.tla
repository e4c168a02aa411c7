----------------------------- MODULE WorkspacesProofs -----------------------------
(***************************************************************************)
(* Proofs about Workspaces, for any requests, owners, names and bounds.    *)
(*                                                                         *)
(* IInv is inductive: one lemma for each action, with one step for each    *)
(* part of the invariant.  The theorems at the end read the promises of    *)
(* the service off it, and that every step is one of WorkspaceCatalog.     *)
(***************************************************************************)
EXTENDS WorkspacesInvariant, FiniteSetTheorems, TLAPS

\* What normalization leaves alone.
LEMMA NormalizedRow ==
    ASSUME NEW w \in WorkspaceRow
    PROVE  /\ Normalized(w) \in WorkspaceRow
           /\ SameWorkspace(Normalized(w), w)
           /\ Normalized(w).status = w.status
<1>1. Stripped(w.name) \in Texts
  BY DEF WorkspaceRow, Texts, Stripped
<1>2. NormalDescription(w.description) \in Texts \cup {None}
  BY DEF WorkspaceRow, Texts, Stripped, NormalDescription
<1> QED
  BY <1>1, <1>2 DEF WorkspaceRow, Normalized, SameWorkspace

\* An object that the constructor accepts is accepted again once normalized.
LEMMA NormalizedFits ==
    ASSUME NEW w \in WorkspaceRow, IsWorkspace(w)
    PROVE  IsWorkspace(Normalized(w))
<1>0. /\ Normalized(w).created_at = w.created_at
      /\ Normalized(w).updated_at = w.updated_at
      /\ Normalized(w).archived_at = w.archived_at
      /\ Normalized(w).deletion_requested_at = w.deletion_requested_at
      /\ Normalized(w).status = w.status
      /\ Normalized(w).name = Stripped(w.name)
      /\ Normalized(w).description = NormalDescription(w.description)
  BY DEF Normalized, WorkspaceRow
<1>1. Stripped(w.name).core = w.name.core
  BY DEF WorkspaceRow, Texts, Stripped
<1>2. NormalDescription(w.description) # None =>
         /\ w.description # None
         /\ NormalDescription(w.description).core = w.description.core
  BY DEF WorkspaceRow, Texts, Stripped, NormalDescription
<1>3. TextsFit(Normalized(w))
  BY <1>0, <1>1, <1>2 DEF IsWorkspace, TextsFit, IsBlank
<1>4. LifecycleFits(Normalized(w))
  BY <1>0 DEF IsWorkspace, LifecycleFits
<1> QED
  BY <1>0, <1>3, <1>4 DEF IsWorkspace, NotBefore

\* The listing of a finite set of rows: all of them, in order.
LEMMA ListingOf ==
    ASSUME NEW S, IsFiniteSet(S), NEW l \in Orderings(S)
    PROVE  /\ l \in Seq(S)
           /\ \A i \in DOMAIN l : l[i] \in S
           /\ \A x \in S : \E i \in DOMAIN l : l[i] = x
           /\ \A i, j \in DOMAIN l :
                  i < j => l[i] # l[j] /\ ~Precedes(l[j], l[i])
           /\ l = <<>> <=> S = {}
<1>1. Cardinality(S) \in Nat
  BY FS_CardinalityType
<1>2. /\ l \in [1 .. Cardinality(S) -> S]
      /\ \A a, b \in DOMAIN l : l[a] = l[b] => a = b
      /\ \A x \in S : \E i \in 1 .. Cardinality(S) : l[i] = x
      /\ \A i, j \in DOMAIN l : i < j => ~Precedes(l[j], l[i])
  BY DEF Orderings, Bijection, Injection, Surjection, IsInjective
<1>3. l \in Seq(S)
  BY <1>1, <1>2
<1>4. \A i, j \in DOMAIN l : i < j => l[i] # l[j]
  BY <1>1, <1>2
<1>5. l = <<>> <=> S = {}
  <2>1. CASE S = {}
    <3>1. Cardinality(S) = 0
      BY <2>1, FS_EmptySet
    <3> QED
      BY <1>2, <1>3, <2>1, <3>1
  <2>2. CASE S # {}
    <3>1. PICK i \in DOMAIN l : l[i] \in S
      BY <1>2, <2>2
    <3> QED
      BY <1>3, <2>2, <3>1
  <2> QED
    BY <2>1, <2>2
<1> QED
  BY <1>2, <1>3, <1>4, <1>5

\* What a request that has written something may make visible.
LEMMA CommittedRow ==
    ASSUME IInv, NEW r \in Requests, inserted[r] # {}
    PROVE  \E b \in WorkspaceRow :
              /\ inserted[r] = {b}
              /\ built[r] = {b}
              /\ b.id = r
              /\ b.owner \in users
              /\ b.status = "ACTIVE"
              /\ r \in Creates
              /\ r \notin durable
              /\ \A w \in workspaces : w.id # r
<1>1. PICK b : b \in inserted[r]
  OBVIOUS
<1>2. b \in built[r] /\ b.owner \in users /\ r \notin durable
  BY <1>1 DEF IInv, InsertedInv
<1>3. /\ b.id = r
      /\ b.status = "ACTIVE"
      /\ r \in Creates
      /\ \A v \in built[r] : v = b
  BY <1>2 DEF IInv, BuiltInv
<1>4. inserted[r] \subseteq built[r]
  BY DEF IInv, InsertedInv
<1>5. b \in WorkspaceRow
  BY <1>2 DEF IInv, TypeOK
<1>6. \A w \in workspaces : w.id # r
  BY <1>2 DEF IInv, RowsInv
<1> QED
  BY <1>1, <1>2, <1>3, <1>4, <1>5, <1>6

\* The request begins with a connection, or fails before it has one.
Begun(r, op, B, first, error) ==
    \/ /\ conn' = [conn EXCEPT ![r] = "open"]
       /\ Goto(r, first)
       /\ op = "create" => B # {}
       /\ UNCHANGED <<result, faults>>
    \/ /\ Fail(r, error)
       /\ error = "ValueError" => op = "create"
       /\ error \in {"ValueError", "WorkspacePersistenceError"}
       /\ faults' \in 0 .. MaxFaults

\* What a create of r for owner may have built.
Fresh(r, owner, B) ==
    \A w \in B : /\ w.id = r
                 /\ w.owner = owner
                 /\ w.status = "ACTIVE"
                 /\ IsWorkspace(w)
                 /\ w.created_at = now
                 /\ \A v \in B : v = w

\* A request begins: it has a connection and its first statement is next, or it
\* has failed.
LEMMA CallStep ==
    ASSUME IInv, NEW r \in Requests, NEW op \in {"create", "get", "list"},
           NEW owner \in Owners, NEW workspace \in Creates \cup {None},
           NEW B \in SUBSET WorkspaceRow,
           NEW first \in Statements, NEW error \in Raised,
           Start(r, op, owner, workspace),
           built' = [built EXCEPT ![r] = B],
           op = "create" => r \in Creates /\ first = "add",
           op # "create" => r \in Reads /\ first # "add" /\ B = {},
           Fresh(r, owner, B), Begun(r, op, B, first, error)
    PROVE  IInv'
<1> USE DEF server, store, history, Fresh
<1>0. /\ pc[r] = "idle"
      /\ input' = [input EXCEPT ![r] =
                     [op |-> op, owner |-> owner, workspace |-> workspace]]
      /\ before' = [before EXCEPT ![r] =
                     {c \in Creates : pc[c] = "done" /\ result[c] = "Created"}]
      /\ UNCHANGED <<server, now, found, setBack>>
  BY DEF Start
<1>a. /\ input[r] = NoInput
      /\ built[r] = {}
      /\ inserted[r] = {}
      /\ found[r] = {}
      /\ r \notin durable
      /\ r \notin sent
      /\ conn[r] = "closed"
  BY <1>0 DEF IInv, PlaceInv, InsertedInv, DurableInv, SentInv
<1>b. \/ /\ pc' = [pc EXCEPT ![r] = first]
         /\ conn' = [conn EXCEPT ![r] = "open"]
         /\ op = "create" => B # {}
         /\ result' = result
         /\ faults' = faults
      \/ /\ pc' = [pc EXCEPT ![r] = "done"]
         /\ conn' = conn
         /\ result' = [result EXCEPT ![r] = error]
         /\ error \in {"ValueError", "WorkspacePersistenceError"}
         /\ error = "ValueError" => op = "create"
         /\ faults' \in 0 .. MaxFaults
  BY DEF Begun, Goto, Fail
<1>1. TypeOK'
  <2>1. input' \in [Requests -> Inputs]
    BY <1>0 DEF IInv, TypeOK, Inputs
  <2>2. pc' \in [Requests -> Statements \cup {"idle", "commit", "exit", "done"}]
    BY <1>b DEF IInv, TypeOK
  <2>3. result' \in [Requests -> Returned \cup Raised \cup {"Pending", "Crashed"}]
    BY <1>b DEF IInv, TypeOK
  <2>4. conn' \in [Requests -> {"closed", "open", "lost"}]
    BY <1>b DEF IInv, TypeOK
  <2>5. faults' \in 0 .. MaxFaults
    BY <1>b DEF IInv, TypeOK
  <2>6. before' \in [Requests -> SUBSET Creates]
    BY <1>0 DEF IInv, TypeOK
  <2>7. built' \in [Requests -> SUBSET WorkspaceRow]
    BY DEF IInv, TypeOK
  <2> QED
    BY <1>0, <2>1, <2>2, <2>3, <2>4, <2>5, <2>6, <2>7 DEF IInv, TypeOK
<1>2. IsFiniteSet(workspaces)'
  BY <1>0, <1>a, <1>b DEF IInv, TypeOK, Requests
<1>3. BuiltInv'
  BY <1>0, <1>a, <1>b DEF IInv, TypeOK, Requests, BuiltInv
<1>4. InsertedInv'
  BY <1>0, <1>a, <1>b
  DEF IInv, TypeOK, Requests, InsertedInv, BuiltInv, PlaceInv, DurableInv
<1>5. RowsInv'
  BY <1>0, <1>a, <1>b
  DEF IInv, TypeOK, Requests, RowsInv, InsertedInv, BuiltInv, PlaceInv
<1>6. DurableInv'
  BY <1>0, <1>a, <1>b
  DEF IInv, TypeOK, Requests, DurableInv, InsertedInv, PlaceInv, RowsInv,
      SentInv
<1>7. SentInv'
  <2> SUFFICES ASSUME NEW q \in sent
               PROVE  /\ inserted'[q] # {}
                      /\ conn'[q] # "open"
                      /\ \/ result'[q] = "OperationalError" /\ pc'[q] \in {"exit", "done"}
                         \/ result'[q] = "Crashed" /\ pc'[q] = "done"
    BY <1>0 DEF SentInv
  <2>1. q \in Requests /\ q # r
    BY <1>a DEF IInv, TypeOK, Requests
  <2> QED
    BY <1>0, <1>b, <2>1 DEF IInv, TypeOK, SentInv
<1>8. PlaceInv'
  BY <1>0, <1>a, <1>b
  DEF IInv, TypeOK, PlaceInv, Statements, NoInput
<1>9. AnswersInv'
  BY <1>0, <1>a, <1>b
  DEF IInv, TypeOK, Requests, AnswersInv, PlaceInv, DurableInv, InsertedInv,
      SentInv
<1>10. FoundInv'
  BY <1>0, <1>a, <1>b DEF IInv, TypeOK, Requests, FoundInv, PlaceInv, RowsInv
<1>11. BeforeInv'
  <2>1. \A q \in Requests : \A c \in before'[q] :
           c \in Requests /\ c # r /\ pc[c] = "done" /\ result[c] = "Created"
    BY <1>0 DEF IInv, TypeOK, BeforeInv, Requests
  <2>2. ~setBack => \A q \in Requests : \A w \in built'[q] : w.created_at <= now
    <3>1. now \in Int
      BY WorkspacesAssumption DEF IInv, TypeOK, Times
    <3> QED
      BY <3>1 DEF IInv, TypeOK, BeforeInv
  <2>3. \A q \in Requests : \A c \in before'[q] : ~setBack =>
           \A x \in built'[c], y \in built'[q] : x.created_at <= y.created_at
    <3>1. \A q \in Requests \ {r} : before'[q] = before[q] /\ built'[q] = built[q]
      BY <1>0 DEF IInv, TypeOK
    <3>2. \A y \in built'[r] : y.created_at = now
      BY DEF IInv, TypeOK
    <3> QED
      BY <2>1, <2>2, <3>1, <3>2 DEF IInv, BeforeInv
  <2> QED
    BY <1>0, <1>b, <2>1, <2>2, <2>3 DEF IInv, TypeOK, BeforeInv
<1>12. CreatedIsFound'
  BY <1>0, <1>a, <1>b
  DEF IInv, TypeOK, Requests, CreatedIsFound, PlaceInv, BeforeInv, AnswersInv
<1>13. OnlyEditedRowsFail'
  <2>1. \A c \in edited : c # r /\ c \in Requests
    BY <1>a DEF IInv, TypeOK, RowsInv, Requests
  <2>2. \A q \in Reads : result'[q] = "ValueError" =>
           q # r /\ result[q] = "ValueError"
    <3>1. result[r] # "ValueError"
      BY <1>0 DEF IInv, PlaceInv
    <3>2. \/ result' = result
          \/ /\ result' = [result EXCEPT ![r] = error]
             /\ r \in Reads => error # "ValueError"
      BY WorkspacesAssumption, <1>b
    <3> QED
      BY <3>1, <3>2 DEF IInv, TypeOK, Requests
  <2> QED
    BY <1>0, <2>1, <2>2 DEF IInv, TypeOK, OnlyEditedRowsFail, Requests
<1> QED
  BY <1>1, <1>2, <1>3, <1>4, <1>5, <1>6, <1>7, <1>8, <1>9, <1>10, <1>11, <1>12,
     <1>13
  DEF IInv

\* The INSERT is done or refused.
LEMMA AddStep ==
    ASSUME IInv, NEW r \in Requests, Add(r)
    PROVE  IInv'
<1> USE DEF server, store, history
<1>b. {StoredRow(w) : w \in built[r]} = built[r]
  BY DEF StoredRow
<1>a. /\ pc[r] = "add" /\ conn[r] = "open"
      /\ UNCHANGED <<store, sent, durable, conn, now, faults, input, built,
                     found, history>>
      /\ \/ /\ \A w \in built[r] : w.owner \in users
            /\ inserted' = [inserted EXCEPT ![r] = built[r]]
            /\ pc' = [pc EXCEPT ![r] = "commit"]
            /\ result' = result
         \/ /\ inserted' = inserted
            /\ pc' = [pc EXCEPT ![r] = "exit"]
            /\ result' = [result EXCEPT ![r] = "WorkspacePersistenceConflict"]
  BY <1>b DEF Add, At, Leave, Goto, OwnerExists
<1>1. TypeOK'
  <2>1. /\ inserted' \in [Requests -> SUBSET WorkspaceRow]
        /\ pc' \in [Requests -> Statements \cup {"idle", "commit", "exit", "done"}]
        /\ result' \in [Requests ->
                           Returned \cup Raised \cup {"Pending", "Crashed"}]
    BY <1>a DEF IInv, TypeOK, Raised
  <2> QED
    BY <1>a, <2>1 DEF IInv, TypeOK
<1>2. IsFiniteSet(workspaces)'
  BY <1>a DEF IInv, TypeOK, Requests
<1>3. BuiltInv'
  BY <1>a DEF IInv, TypeOK, Requests, BuiltInv
<1>4. InsertedInv'
  BY <1>a
  DEF IInv, TypeOK, Requests, InsertedInv, BuiltInv, PlaceInv, DurableInv
<1>5. RowsInv'
  BY <1>a DEF IInv, TypeOK, Requests, RowsInv, InsertedInv, BuiltInv, PlaceInv
<1>6. DurableInv'
  BY <1>a
  DEF IInv, TypeOK, Requests, DurableInv, InsertedInv, PlaceInv, RowsInv,
      SentInv
<1>7. SentInv'
  BY <1>a DEF IInv, TypeOK, Requests, SentInv, PlaceInv, InsertedInv
<1>8. PlaceInv'
  BY <1>a DEF IInv, TypeOK, Requests, PlaceInv, InsertedInv, BuiltInv, SentInv
<1>9. AnswersInv'
  BY <1>a
  DEF IInv, TypeOK, Requests, AnswersInv, PlaceInv, DurableInv, InsertedInv,
      SentInv
<1>10. FoundInv'
  BY <1>a DEF IInv, TypeOK, Requests, FoundInv, PlaceInv, RowsInv
<1>11. BeforeInv'
  BY <1>a
  DEF IInv, TypeOK, Requests, BeforeInv, PlaceInv, DurableInv, BuiltInv,
      SentInv
<1>12. CreatedIsFound'
  BY <1>a
  DEF IInv, TypeOK, Requests, CreatedIsFound, PlaceInv, BeforeInv, AnswersInv
<1>13. OnlyEditedRowsFail'
  BY <1>a DEF IInv, TypeOK, Requests, OnlyEditedRowsFail, PlaceInv, RowsInv
<1> QED
  BY <1>1, <1>2, <1>3, <1>4, <1>5, <1>6, <1>7, <1>8, <1>9, <1>10, <1>11, <1>12,
     <1>13
  DEF IInv

\* A get or list meets a row that the constructor refuses: an edited one.
LEMMA ReadRefusesStep ==
    ASSUME IInv, NEW r \in Requests, Read(r), ~ \A w \in Selected(r) : IsWorkspace(w)
    PROVE  IInv'
<1> USE DEF server, store, history
<1>a. /\ pc[r] \in {"get_for_owner", "list_for_owner"}
      /\ pc' = [pc EXCEPT ![r] = "exit"]
      /\ result' = [result EXCEPT ![r] = "ValueError"]
      /\ UNCHANGED <<server, conn, now, faults, input, built, found, history>>
  BY DEF Read, At, Leave, Goto
<1>b. PICK w \in workspaces : w.owner = input[r].owner /\ ~IsWorkspace(w)
  BY DEF Selected, Available
<1>c. /\ w.id \in edited
      /\ w.id \in Creates
      /\ input[w.id].owner = input[r].owner
  <2>1. w \notin built[w.id] /\ w.id \in Creates
    BY <1>b DEF IInv, BuiltInv, RowsInv, TypeOK, WorkspaceRow, Requests
  <2>2. \E b \in built[w.id] : SameWorkspace(w, b)
    BY <1>b DEF IInv, RowsInv
  <2> QED
    BY <1>b, <2>1, <2>2 DEF IInv, BuiltInv, RowsInv, SameWorkspace, Requests
<1>1. TypeOK'
  BY <1>a, <1>c, WorkspacesAssumption
  DEF IInv, TypeOK, Requests, Statements, Returned, Raised
<1>2. IsFiniteSet(workspaces)'
  BY <1>a, <1>c DEF IInv, TypeOK, Requests
<1>3. BuiltInv'
  BY <1>a, <1>c DEF IInv, TypeOK, Requests, BuiltInv
<1>4. InsertedInv'
  BY <1>a, <1>c
  DEF IInv, TypeOK, Requests, InsertedInv, BuiltInv, PlaceInv, DurableInv
<1>5. RowsInv'
  BY <1>a, <1>c
  DEF IInv, TypeOK, Requests, RowsInv, InsertedInv, BuiltInv, PlaceInv
<1>6. DurableInv'
  BY <1>a, <1>c
  DEF IInv, TypeOK, Requests, DurableInv, InsertedInv, PlaceInv, RowsInv,
      SentInv
<1>7. SentInv'
  BY <1>a, <1>c DEF IInv, TypeOK, Requests, SentInv, PlaceInv, InsertedInv
<1>8. PlaceInv'
  BY <1>a, <1>c
  DEF IInv, TypeOK, Requests, PlaceInv, InsertedInv, BuiltInv, SentInv
<1>9. AnswersInv'
  BY <1>a, <1>c
  DEF IInv, TypeOK, Requests, AnswersInv, PlaceInv, DurableInv, InsertedInv,
      SentInv
<1>10. FoundInv'
  BY <1>a, <1>c DEF IInv, TypeOK, Requests, FoundInv, PlaceInv, RowsInv
<1>11. BeforeInv'
  BY <1>a, <1>c
  DEF IInv, TypeOK, Requests, BeforeInv, PlaceInv, DurableInv, BuiltInv,
      SentInv
<1>12. CreatedIsFound'
  BY <1>a, <1>c
  DEF IInv, TypeOK, Requests, CreatedIsFound, PlaceInv, BeforeInv, AnswersInv
<1>13. OnlyEditedRowsFail'
  BY <1>a, <1>c
  DEF IInv, TypeOK, Requests, OnlyEditedRowsFail, PlaceInv, RowsInv
<1> QED
  BY <1>1, <1>2, <1>3, <1>4, <1>5, <1>6, <1>7, <1>8, <1>9, <1>10, <1>11, <1>12,
     <1>13
  DEF IInv

\* A get or list reads what its caller may see.
LEMMA ReadListsStep ==
    ASSUME IInv, NEW r \in Requests, Read(r), \A w \in Selected(r) : IsWorkspace(w)
    PROVE  IInv'
<1> USE DEF server, store, history
<1> DEFINE S == {Normalized(w) : w \in Selected(r)}
<1>s. /\ Selected(r) \subseteq workspaces
      /\ Selected(r) \subseteq WorkspaceRow
      /\ S \subseteq WorkspaceRow
      /\ IsFiniteSet(S)
      /\ S = {} <=> Selected(r) = {}
  <2>1. Selected(r) \subseteq workspaces /\ workspaces \subseteq WorkspaceRow
    BY DEF IInv, TypeOK, Selected
  <2>2. IsFiniteSet(Selected(r))
    BY <2>1, FS_Subset DEF IInv
  <2>3. IsFiniteSet(S)
    <3> DEFINE f == [w \in Selected(r) |-> Normalized(w)]
    <3>1. f \in Surjection(Selected(r), S)
      BY DEF Surjection
    <3> QED
      BY <2>2, <3>1, FS_Surjection
  <2> QED
    BY <2>1, <2>3, NormalizedRow
<1>p. pc[r] \in {"get_for_owner", "list_for_owner"}
  BY DEF Read, At
<1>o. input[r].op \in {"get", "list"}
  BY <1>p DEF IInv, PlaceInv
<1>l. PICK l \in Orderings(S) : found' = [found EXCEPT ![r] = {l}]
  BY DEF Read
<1>m. /\ l \in Seq(S)
      /\ \A i \in DOMAIN l : l[i] \in S
      /\ \A x \in S : \E i \in DOMAIN l : l[i] = x
      /\ \A i, j \in DOMAIN l :
            i < j => l[i] # l[j] /\ ~Precedes(l[j], l[i])
      /\ l = <<>> <=> Selected(r) = {}
  BY <1>s, ListingOf
<1>q. PICK outcome \in {"Listed", "Found", "WorkspaceUnavailable"} :
         /\ outcome = "Listed" => input[r].op = "list"
         /\ outcome = "Found" => input[r].op = "get" /\ Selected(r) # {}
         /\ outcome = "WorkspaceUnavailable" =>
               input[r].op = "get" /\ Selected(r) = {}
         /\ pc' = [pc EXCEPT ![r] = "exit"]
         /\ result' = [result EXCEPT ![r] = outcome]
  BY <1>o DEF Read, Leave, Goto
<1>f. UNCHANGED <<server, conn, now, faults, input, built, history>>
  BY DEF Read
<1>x. \A i \in DOMAIN l : \E w \in Selected(r) :
         /\ l[i] = Normalized(w)
         /\ SameWorkspace(l[i], w)
  BY <1>m, <1>s, NormalizedRow
<1>y. \A w \in Selected(r) : \E i \in DOMAIN l : SameWorkspace(l[i], w)
  <2>1. \A w \in Selected(r) : \E i \in DOMAIN l : l[i] = Normalized(w)
    BY <1>m
  <2> QED
    BY <2>1, <1>s, NormalizedRow
<1>z. \A w \in Selected(r) :
         /\ w \in workspaces
         /\ w.owner = input[r].owner
         /\ input[r].op = "get" => w.id = input[r].workspace
  BY DEF Selected, Available
<1>1. TypeOK'
  <2>1. l \in Seq(WorkspaceRow)
    BY <1>m, <1>s
  <2>2. found' \in [Requests -> SUBSET Seq(WorkspaceRow)]
    BY <2>1, <1>l DEF IInv, TypeOK
  <2> QED
    BY <2>2, <1>q, <1>f DEF IInv, TypeOK, Returned, Raised
<1>2. IsFiniteSet(workspaces)'
  BY <1>p, <1>q, <1>l, <1>f DEF IInv, TypeOK, Requests
<1>3. BuiltInv'
  BY <1>p, <1>q, <1>l, <1>f DEF IInv, TypeOK, Requests, BuiltInv
<1>4. InsertedInv'
  BY <1>p, <1>q, <1>l, <1>f
  DEF IInv, TypeOK, Requests, InsertedInv, BuiltInv, PlaceInv, DurableInv
<1>5. RowsInv'
  BY <1>p, <1>q, <1>l, <1>f
  DEF IInv, TypeOK, Requests, RowsInv, InsertedInv, BuiltInv, PlaceInv
<1>6. DurableInv'
  BY <1>p, <1>q, <1>l, <1>f
  DEF IInv, TypeOK, Requests, DurableInv, InsertedInv, PlaceInv, RowsInv,
      SentInv
<1>7. SentInv'
  BY <1>p, <1>q, <1>l, <1>f
  DEF IInv, TypeOK, Requests, SentInv, PlaceInv, InsertedInv
<1>8. PlaceInv'
  BY <1>p, <1>q, <1>l, <1>f
  DEF IInv, TypeOK, Requests, PlaceInv, InsertedInv, BuiltInv, SentInv
<1>9. AnswersInv'
  BY <1>p, <1>q, <1>l, <1>f, <1>m
  DEF IInv, TypeOK, Requests, AnswersInv, PlaceInv, DurableInv
<1>10. FoundInv'
  <2>1. \A i \in DOMAIN l :
           /\ l[i].id \in durable
           /\ l[i].owner = input[r].owner
           /\ input[r].op = "get" => l[i].id = input[r].workspace
           /\ \E b \in built[l[i].id] : SameWorkspace(l[i], b)
    BY <1>x, <1>z DEF IInv, RowsInv, SameWorkspace
  <2>2. \A i, j \in DOMAIN l : i < j => l[i].id # l[j].id
    BY <1>m, <1>x, <1>z DEF IInv, RowsInv, SameWorkspace
  <2>3. r \in Reads
    BY <1>p DEF IInv, PlaceInv
  <2>4. \A i, j \in DOMAIN l :
           i < j => l[i].id # l[j].id /\ ~Precedes(l[j], l[i])
    BY <1>m, <2>2
  <2>5. found' = [found EXCEPT ![r] = {l}] /\ found \in [Requests -> SUBSET Seq(WorkspaceRow)]
    BY <1>l DEF IInv, TypeOK
  <2> HIDE DEF S
  <2> QED
    BY <2>1, <2>3, <2>4, <2>5, <1>f DEF IInv, FoundInv
<1>11. BeforeInv'
  BY <1>p, <1>q, <1>l, <1>f
  DEF IInv, TypeOK, Requests, BeforeInv, PlaceInv, DurableInv, BuiltInv,
      SentInv
<1>12. CreatedIsFound'
  <2> SUFFICES ASSUME NEW q \in Reads, NEW c \in Creates,
                      c \in before[q] \ edited,
                      input[c].owner = input[q].owner,
                      input[q].op = "get" => input[q].workspace = c
               PROVE  /\ \A k \in found'[q] : \E i \in DOMAIN k : k[i].id = c
                      /\ result'[q] # "WorkspaceUnavailable"
    BY <1>f DEF CreatedIsFound
  <2>1. CASE q # r
    BY <2>1, <1>l, <1>q DEF IInv, TypeOK, CreatedIsFound, Requests
  <2>2. CASE q = r
    <3>1. c \in durable
      BY <2>2 DEF IInv, BeforeInv, AnswersInv, Requests
    <3>2. PICK w \in workspaces : w.id = c
      BY <3>1 DEF IInv, DurableInv
    <3>3. w \in built[c]
      BY <3>2 DEF IInv, RowsInv
    <3>4. w.owner = input[r].owner /\ w.status = "ACTIVE"
      BY <2>2, <3>3 DEF IInv, BuiltInv, Requests
    <3>5. w \in Selected(r)
      BY <2>2, <3>2, <3>4 DEF Selected, Available
    <3> QED
      BY <2>2, <3>2, <3>5, <1>y, <1>l, <1>q DEF IInv, TypeOK, SameWorkspace
  <2> QED
    BY <2>1, <2>2
<1>13. OnlyEditedRowsFail'
  BY <1>p, <1>q, <1>l, <1>f
  DEF IInv, TypeOK, Requests, OnlyEditedRowsFail, PlaceInv, RowsInv
<1> QED
  BY <1>1, <1>2, <1>3, <1>4, <1>5, <1>6, <1>7, <1>8, <1>9, <1>10, <1>11, <1>12,
     <1>13
  DEF IInv

\* A statement fails.
LEMMA StatementFailsStep ==
    ASSUME IInv, NEW r \in Requests, StatementFails(r)
    PROVE  IInv'
<1> USE DEF server, store, history
<1>1. TypeOK'
  BY WorkspacesAssumption
  DEF IInv, TypeOK, Requests, Statements, Returned, Raised, StatementFails,
      Fault, Leave, Goto, Statements
<1>2. IsFiniteSet(workspaces)'
  BY DEF IInv, TypeOK, Requests, StatementFails, Fault, Leave, Goto, Statements
<1>3. BuiltInv'
  BY DEF IInv, TypeOK, Requests, BuiltInv, StatementFails, Fault, Leave, Goto,
         Statements
<1>4. InsertedInv'
  BY DEF IInv, TypeOK, Requests, InsertedInv, BuiltInv, PlaceInv, DurableInv,
         StatementFails, Fault, Leave, Goto, Statements
<1>5. RowsInv'
  BY DEF IInv, TypeOK, Requests, RowsInv, InsertedInv, BuiltInv, PlaceInv,
         StatementFails, Fault, Leave, Goto, Statements
<1>6. DurableInv'
  BY DEF IInv, TypeOK, Requests, DurableInv, InsertedInv, PlaceInv, RowsInv,
         SentInv, StatementFails, Fault, Leave, Goto, Statements
<1>7. SentInv'
  BY DEF IInv, TypeOK, Requests, SentInv, PlaceInv, InsertedInv,
         StatementFails, Fault, Leave, Goto, Statements
<1>8. PlaceInv'
  BY DEF IInv, TypeOK, Requests, PlaceInv, InsertedInv, BuiltInv, SentInv,
         StatementFails, Fault, Leave, Goto, Statements
<1>9. AnswersInv'
  BY DEF IInv, TypeOK, Requests, AnswersInv, PlaceInv, DurableInv, InsertedInv,
         SentInv, StatementFails, Fault, Leave, Goto, Statements
<1>10. FoundInv'
  BY DEF IInv, TypeOK, Requests, FoundInv, PlaceInv, RowsInv, StatementFails,
         Fault, Leave, Goto, Statements
<1>11. BeforeInv'
  BY DEF IInv, TypeOK, Requests, BeforeInv, PlaceInv, DurableInv, BuiltInv,
         SentInv, StatementFails, Fault, Leave, Goto, Statements
<1>12. CreatedIsFound'
  BY DEF IInv, TypeOK, Requests, CreatedIsFound, PlaceInv, BeforeInv,
         AnswersInv, StatementFails, Fault, Leave, Goto, Statements
<1>13. OnlyEditedRowsFail'
  BY DEF IInv, TypeOK, Requests, OnlyEditedRowsFail, PlaceInv, RowsInv,
         StatementFails, Fault, Leave, Goto, Statements
<1> QED
  BY <1>1, <1>2, <1>3, <1>4, <1>5, <1>6, <1>7, <1>8, <1>9, <1>10, <1>11, <1>12,
     <1>13
  DEF IInv

\* A COMMIT makes the one row of its transaction visible.
LEMMA CommitSucceedsStep ==
    ASSUME IInv, NEW r \in Requests, CommitSucceeds(r)
    PROVE  IInv'
<1> USE DEF server, store, history
<1>a. /\ pc[r] = "commit" /\ conn[r] = "open"
      /\ workspaces' = workspaces \cup inserted[r]
      /\ inserted' = [inserted EXCEPT ![r] = {}]
      /\ durable' = durable \cup {r}
      /\ sent' = sent \ {r}
      /\ pc' = [pc EXCEPT ![r] = "exit"]
      /\ result' = [result EXCEPT ![r] = "Created"]
      /\ UNCHANGED <<users, edited, conn, now, faults, input, built, found, history>>
  BY DEF CommitSucceeds, At, Apply, Rollback, Leave, Goto
<1>c. inserted[r] # {}
  BY <1>a DEF IInv, PlaceInv
<1>b. PICK b \in WorkspaceRow :
              /\ inserted[r] = {b}
              /\ built[r] = {b}
              /\ b.id = r
              /\ b.owner \in users
              /\ b.status = "ACTIVE"
              /\ r \in Creates
              /\ r \notin durable
              /\ \A w \in workspaces : w.id # r
  BY <1>c, CommittedRow
<1>1. TypeOK'
  BY <1>a, <1>b, WorkspacesAssumption
  DEF IInv, TypeOK, Requests, Statements, Returned, Raised
<1>2. IsFiniteSet(workspaces)'
  BY <1>a, <1>b, FS_AddElement DEF IInv
<1>3. BuiltInv'
  BY <1>a, <1>b DEF IInv, TypeOK, Requests, BuiltInv
<1>4. InsertedInv'
  BY <1>a, <1>b
  DEF IInv, TypeOK, Requests, InsertedInv, BuiltInv, PlaceInv, DurableInv
<1>5. RowsInv'
  BY <1>a, <1>b DEF IInv, TypeOK, WorkspaceRow, RowsInv, SameWorkspace
<1>6. DurableInv'
  BY <1>a, <1>b
  DEF IInv, TypeOK, Requests, DurableInv, InsertedInv, PlaceInv, RowsInv,
      SentInv
<1>7. SentInv'
  BY <1>a, <1>b DEF IInv, TypeOK, Requests, SentInv, PlaceInv, InsertedInv
<1>8. PlaceInv'
  BY <1>a, <1>b
  DEF IInv, TypeOK, Requests, PlaceInv, InsertedInv, BuiltInv, SentInv
<1>9. AnswersInv'
  BY <1>a, <1>b
  DEF IInv, TypeOK, Requests, AnswersInv, PlaceInv, DurableInv, InsertedInv,
      SentInv
<1>10. FoundInv'
  BY <1>a, <1>b DEF IInv, TypeOK, Requests, FoundInv, PlaceInv, RowsInv
<1>11. BeforeInv'
  BY <1>a, <1>b
  DEF IInv, TypeOK, Requests, BeforeInv, PlaceInv, DurableInv, BuiltInv,
      SentInv
<1>12. CreatedIsFound'
  BY <1>a, <1>b
  DEF IInv, TypeOK, Requests, CreatedIsFound, PlaceInv, BeforeInv, AnswersInv
<1>13. OnlyEditedRowsFail'
  BY <1>a, <1>b
  DEF IInv, TypeOK, Requests, OnlyEditedRowsFail, PlaceInv, RowsInv
<1> QED
  BY <1>1, <1>2, <1>3, <1>4, <1>5, <1>6, <1>7, <1>8, <1>9, <1>10, <1>11, <1>12,
     <1>13
  DEF IInv

\* A COMMIT is refused.
LEMMA CommitRefusedStep ==
    ASSUME IInv, NEW r \in Requests, CommitRefused(r)
    PROVE  IInv'
<1> USE DEF server, store, history
<1>1. TypeOK'
  BY WorkspacesAssumption
  DEF IInv, TypeOK, Requests, Statements, Returned, Raised, CommitRefused, At,
      Fault, Rollback, Leave, Goto
<1>2. IsFiniteSet(workspaces)'
  BY DEF IInv, TypeOK, Requests, CommitRefused, At, Fault, Rollback, Leave,
         Goto
<1>3. BuiltInv'
  BY DEF IInv, TypeOK, Requests, BuiltInv, CommitRefused, At, Fault, Rollback,
         Leave, Goto
<1>4. InsertedInv'
  BY DEF IInv, TypeOK, Requests, InsertedInv, BuiltInv, PlaceInv, DurableInv,
         CommitRefused, At, Fault, Rollback, Leave, Goto
<1>5. RowsInv'
  BY DEF IInv, TypeOK, Requests, RowsInv, InsertedInv, BuiltInv, PlaceInv,
         CommitRefused, At, Fault, Rollback, Leave, Goto
<1>6. DurableInv'
  BY DEF IInv, TypeOK, Requests, DurableInv, InsertedInv, PlaceInv, RowsInv,
         SentInv, CommitRefused, At, Fault, Rollback, Leave, Goto
<1>7. SentInv'
  BY DEF IInv, TypeOK, Requests, SentInv, PlaceInv, InsertedInv, CommitRefused,
         At, Fault, Rollback, Leave, Goto
<1>8. PlaceInv'
  BY DEF IInv, TypeOK, Requests, PlaceInv, InsertedInv, BuiltInv, SentInv,
         CommitRefused, At, Fault, Rollback, Leave, Goto
<1>9. AnswersInv'
  BY DEF IInv, TypeOK, Requests, AnswersInv, PlaceInv, DurableInv, InsertedInv,
         SentInv, CommitRefused, At, Fault, Rollback, Leave, Goto
<1>10. FoundInv'
  BY DEF IInv, TypeOK, Requests, FoundInv, PlaceInv, RowsInv, CommitRefused,
         At, Fault, Rollback, Leave, Goto
<1>11. BeforeInv'
  BY DEF IInv, TypeOK, Requests, BeforeInv, PlaceInv, DurableInv, BuiltInv,
         SentInv, CommitRefused, At, Fault, Rollback, Leave, Goto
<1>12. CreatedIsFound'
  BY DEF IInv, TypeOK, Requests, CreatedIsFound, PlaceInv, BeforeInv,
         AnswersInv, CommitRefused, At, Fault, Rollback, Leave, Goto
<1>13. OnlyEditedRowsFail'
  BY DEF IInv, TypeOK, Requests, OnlyEditedRowsFail, PlaceInv, RowsInv,
         CommitRefused, At, Fault, Rollback, Leave, Goto
<1> QED
  BY <1>1, <1>2, <1>3, <1>4, <1>5, <1>6, <1>7, <1>8, <1>9, <1>10, <1>11, <1>12,
     <1>13
  DEF IInv

\* The connection goes with the COMMIT.
LEMMA CommitLostStep ==
    ASSUME IInv, NEW r \in Requests, CommitLost(r)
    PROVE  IInv'
<1> USE DEF server, store, history
<1>1. TypeOK'
  <2>1. faults' \in 0 .. MaxFaults
    BY WorkspacesAssumption DEF IInv, TypeOK, CommitLost, Fault
  <2>2. r \in Creates
    BY DEF IInv, PlaceInv, CommitLost
  <2> QED
    BY <2>1, <2>2 DEF IInv, TypeOK, CommitLost, Leave, Goto, Raised
<1>2. IsFiniteSet(workspaces)'
  BY DEF IInv, TypeOK, Requests, CommitLost, Fault, Leave, Goto
<1>3. BuiltInv'
  BY DEF IInv, TypeOK, Requests, BuiltInv, CommitLost, Fault, Leave, Goto
<1>4. InsertedInv'
  BY DEF IInv, TypeOK, Requests, InsertedInv, BuiltInv, PlaceInv, DurableInv,
         CommitLost, Fault, Leave, Goto
<1>5. RowsInv'
  BY DEF IInv, TypeOK, Requests, RowsInv, InsertedInv, BuiltInv, PlaceInv,
         CommitLost, Fault, Leave, Goto
<1>6. DurableInv'
  BY DEF IInv, TypeOK, Requests, DurableInv, InsertedInv, PlaceInv, RowsInv,
         SentInv, CommitLost, Fault, Leave, Goto
<1>7. SentInv'
  BY DEF IInv, TypeOK, Requests, SentInv, PlaceInv, InsertedInv, CommitLost,
         Fault, Leave, Goto
<1>8. PlaceInv'
  BY DEF IInv, TypeOK, Requests, PlaceInv, InsertedInv, BuiltInv, SentInv,
         CommitLost, Fault, Leave, Goto
<1>9. AnswersInv'
  BY DEF IInv, TypeOK, Requests, AnswersInv, PlaceInv, DurableInv, InsertedInv,
         SentInv, CommitLost, Fault, Leave, Goto
<1>10. FoundInv'
  BY DEF IInv, TypeOK, Requests, FoundInv, PlaceInv, RowsInv, CommitLost,
         Fault, Leave, Goto
<1>11. BeforeInv'
  BY DEF IInv, TypeOK, Requests, BeforeInv, PlaceInv, DurableInv, BuiltInv,
         SentInv, CommitLost, Fault, Leave, Goto
<1>12. CreatedIsFound'
  BY DEF IInv, TypeOK, Requests, CreatedIsFound, PlaceInv, BeforeInv,
         AnswersInv, CommitLost, Fault, Leave, Goto
<1>13. OnlyEditedRowsFail'
  BY DEF IInv, TypeOK, Requests, OnlyEditedRowsFail, PlaceInv, RowsInv,
         CommitLost, Fault, Leave, Goto
<1> QED
  BY <1>1, <1>2, <1>3, <1>4, <1>5, <1>6, <1>7, <1>8, <1>9, <1>10, <1>11, <1>12,
     <1>13
  DEF IInv

\* The unit of work is left.
LEMMA ExitStep ==
    ASSUME IInv, NEW r \in Requests, Exit(r)
    PROVE  IInv'
<1> USE DEF server, store, history
<1>1. TypeOK'
  BY WorkspacesAssumption
  DEF IInv, TypeOK, Requests, Statements, Returned, Raised, Exit, Rollback,
      Committed, Goto
<1>2. IsFiniteSet(workspaces)'
  BY DEF IInv, TypeOK, Requests, Exit, Rollback, Committed, Goto
<1>3. BuiltInv'
  BY DEF IInv, TypeOK, Requests, BuiltInv, Exit, Rollback, Committed, Goto
<1>4. InsertedInv'
  BY DEF IInv, TypeOK, Requests, InsertedInv, BuiltInv, PlaceInv, DurableInv,
         Exit, Rollback, Committed, Goto
<1>5. RowsInv'
  BY DEF IInv, TypeOK, Requests, RowsInv, InsertedInv, BuiltInv, PlaceInv,
         Exit, Rollback, Committed, Goto
<1>6. DurableInv'
  BY DEF IInv, TypeOK, Requests, DurableInv, InsertedInv, PlaceInv, RowsInv,
         SentInv, Exit, Rollback, Committed, Goto
<1>7. SentInv'
  BY DEF IInv, TypeOK, Requests, SentInv, PlaceInv, InsertedInv, Exit,
         Rollback, Committed, Goto
<1>8. PlaceInv'
  BY DEF IInv, TypeOK, Requests, PlaceInv, InsertedInv, BuiltInv, SentInv,
         Exit, Rollback, Committed, Goto
<1>9. AnswersInv'
  BY DEF IInv, TypeOK, Requests, AnswersInv, PlaceInv, DurableInv, InsertedInv,
         SentInv, Exit, Rollback, Committed, Goto
<1>10. FoundInv'
  BY DEF IInv, TypeOK, Requests, FoundInv, PlaceInv, RowsInv, Exit, Rollback,
         Committed, Goto
<1>11. BeforeInv'
  BY DEF IInv, TypeOK, Requests, BeforeInv, PlaceInv, DurableInv, BuiltInv,
         SentInv, Exit, Rollback, Committed, Goto
<1>12. CreatedIsFound'
  BY DEF IInv, TypeOK, Requests, CreatedIsFound, PlaceInv, BeforeInv,
         AnswersInv, Exit, Rollback, Committed, Goto
<1>13. OnlyEditedRowsFail'
  BY DEF IInv, TypeOK, Requests, OnlyEditedRowsFail, PlaceInv, RowsInv, Exit,
         Rollback, Committed, Goto
<1> QED
  BY <1>1, <1>2, <1>3, <1>4, <1>5, <1>6, <1>7, <1>8, <1>9, <1>10, <1>11, <1>12,
     <1>13
  DEF IInv

\* A connection is lost.
LEMMA LoseConnectionStep ==
    ASSUME IInv, NEW r \in Requests, LoseConnection(r)
    PROVE  IInv'
<1> USE DEF server, store, history
<1>1. TypeOK'
  BY WorkspacesAssumption
  DEF IInv, TypeOK, Requests, Statements, Returned, Raised, LoseConnection,
      Fault
<1>2. IsFiniteSet(workspaces)'
  BY DEF IInv, TypeOK, Requests, LoseConnection, Fault
<1>3. BuiltInv'
  BY DEF IInv, TypeOK, Requests, BuiltInv, LoseConnection, Fault
<1>4. InsertedInv'
  BY DEF IInv, TypeOK, Requests, InsertedInv, BuiltInv, PlaceInv, DurableInv,
         LoseConnection, Fault
<1>5. RowsInv'
  BY DEF IInv, TypeOK, Requests, RowsInv, InsertedInv, BuiltInv, PlaceInv,
         LoseConnection, Fault
<1>6. DurableInv'
  BY DEF IInv, TypeOK, Requests, DurableInv, InsertedInv, PlaceInv, RowsInv,
         SentInv, LoseConnection, Fault
<1>7. SentInv'
  BY DEF IInv, TypeOK, Requests, SentInv, PlaceInv, InsertedInv,
         LoseConnection, Fault
<1>8. PlaceInv'
  BY DEF IInv, TypeOK, Requests, PlaceInv, InsertedInv, BuiltInv, SentInv,
         LoseConnection, Fault
<1>9. AnswersInv'
  BY DEF IInv, TypeOK, Requests, AnswersInv, PlaceInv, DurableInv, InsertedInv,
         SentInv, LoseConnection, Fault
<1>10. FoundInv'
  BY DEF IInv, TypeOK, Requests, FoundInv, PlaceInv, RowsInv, LoseConnection,
         Fault
<1>11. BeforeInv'
  BY DEF IInv, TypeOK, Requests, BeforeInv, PlaceInv, DurableInv, BuiltInv,
         SentInv, LoseConnection, Fault
<1>12. CreatedIsFound'
  BY DEF IInv, TypeOK, Requests, CreatedIsFound, PlaceInv, BeforeInv,
         AnswersInv, LoseConnection, Fault
<1>13. OnlyEditedRowsFail'
  BY DEF IInv, TypeOK, Requests, OnlyEditedRowsFail, PlaceInv, RowsInv,
         LoseConnection, Fault
<1> QED
  BY <1>1, <1>2, <1>3, <1>4, <1>5, <1>6, <1>7, <1>8, <1>9, <1>10, <1>11, <1>12,
     <1>13
  DEF IInv

\* The server runs a COMMIT whose client is gone.
LEMMA LateCommitStep ==
    ASSUME IInv, NEW r \in Requests, LateCommit(r)
    PROVE  IInv'
<1> USE DEF server, store, history
<1>a. /\ r \in sent
      /\ workspaces' = workspaces \cup inserted[r]
      /\ inserted' = [inserted EXCEPT ![r] = {}]
      /\ durable' = durable \cup {r}
      /\ sent' = sent \ {r}
      /\ UNCHANGED <<users, edited, conn, now, faults, pc, input, built, found,
                     result, history>>
  BY DEF LateCommit, Apply, Rollback
<1>c. inserted[r] # {}
  BY <1>a DEF IInv, SentInv
<1>b. PICK b \in WorkspaceRow :
              /\ inserted[r] = {b}
              /\ built[r] = {b}
              /\ b.id = r
              /\ b.owner \in users
              /\ b.status = "ACTIVE"
              /\ r \in Creates
              /\ r \notin durable
              /\ \A w \in workspaces : w.id # r
  BY <1>c, CommittedRow
<1>1. TypeOK'
  BY <1>a, <1>b, WorkspacesAssumption
  DEF IInv, TypeOK, Requests, Statements, Returned, Raised
<1>2. IsFiniteSet(workspaces)'
  BY <1>a, <1>b, FS_AddElement DEF IInv
<1>3. BuiltInv'
  BY <1>a, <1>b DEF IInv, TypeOK, Requests, BuiltInv
<1>4. InsertedInv'
  BY <1>a, <1>b
  DEF IInv, TypeOK, Requests, InsertedInv, BuiltInv, PlaceInv, DurableInv
<1>5. RowsInv'
  BY <1>a, <1>b DEF IInv, TypeOK, WorkspaceRow, RowsInv, SameWorkspace
<1>6. DurableInv'
  BY <1>a, <1>b
  DEF IInv, TypeOK, Requests, DurableInv, InsertedInv, PlaceInv, RowsInv,
      SentInv
<1>7. SentInv'
  BY <1>a, <1>b DEF IInv, TypeOK, Requests, SentInv, PlaceInv, InsertedInv
<1>8. PlaceInv'
  BY <1>a, <1>b
  DEF IInv, TypeOK, Requests, PlaceInv, InsertedInv, BuiltInv, SentInv
<1>9. AnswersInv'
  BY <1>a, <1>b
  DEF IInv, TypeOK, Requests, AnswersInv, PlaceInv, DurableInv, InsertedInv,
      SentInv
<1>10. FoundInv'
  BY <1>a, <1>b DEF IInv, TypeOK, Requests, FoundInv, PlaceInv, RowsInv
<1>11. BeforeInv'
  BY <1>a, <1>b
  DEF IInv, TypeOK, Requests, BeforeInv, PlaceInv, DurableInv, BuiltInv,
      SentInv
<1>12. CreatedIsFound'
  BY <1>a, <1>b
  DEF IInv, TypeOK, Requests, CreatedIsFound, PlaceInv, BeforeInv, AnswersInv
<1>13. OnlyEditedRowsFail'
  BY <1>a, <1>b
  DEF IInv, TypeOK, Requests, OnlyEditedRowsFail, PlaceInv, RowsInv
<1> QED
  BY <1>1, <1>2, <1>3, <1>4, <1>5, <1>6, <1>7, <1>8, <1>9, <1>10, <1>11, <1>12,
     <1>13
  DEF IInv

\* The server rolls back for a client that is gone.
LEMMA ReapStep ==
    ASSUME IInv, NEW r \in Requests, Reap(r)
    PROVE  IInv'
<1> USE DEF server, store, history
<1>1. TypeOK'
  BY WorkspacesAssumption
  DEF IInv, TypeOK, Requests, Statements, Returned, Raised, Reap, Rollback
<1>2. IsFiniteSet(workspaces)'
  BY DEF IInv, TypeOK, Requests, Reap, Rollback
<1>3. BuiltInv'
  BY DEF IInv, TypeOK, Requests, BuiltInv, Reap, Rollback
<1>4. InsertedInv'
  BY DEF IInv, TypeOK, Requests, InsertedInv, BuiltInv, PlaceInv, DurableInv,
         Reap, Rollback
<1>5. RowsInv'
  BY DEF IInv, TypeOK, Requests, RowsInv, InsertedInv, BuiltInv, PlaceInv,
         Reap, Rollback
<1>6. DurableInv'
  BY DEF IInv, TypeOK, Requests, DurableInv, InsertedInv, PlaceInv, RowsInv,
         SentInv, Reap, Rollback
<1>7. SentInv'
  BY DEF IInv, TypeOK, Requests, SentInv, PlaceInv, InsertedInv, Reap, Rollback
<1>8. PlaceInv'
  BY DEF IInv, TypeOK, Requests, PlaceInv, InsertedInv, BuiltInv, SentInv,
         Reap, Rollback
<1>9. AnswersInv'
  BY DEF IInv, TypeOK, Requests, AnswersInv, PlaceInv, DurableInv, InsertedInv,
         SentInv, Reap, Rollback
<1>10. FoundInv'
  BY DEF IInv, TypeOK, Requests, FoundInv, PlaceInv, RowsInv, Reap, Rollback
<1>11. BeforeInv'
  BY DEF IInv, TypeOK, Requests, BeforeInv, PlaceInv, DurableInv, BuiltInv,
         SentInv, Reap, Rollback
<1>12. CreatedIsFound'
  BY DEF IInv, TypeOK, Requests, CreatedIsFound, PlaceInv, BeforeInv,
         AnswersInv, Reap, Rollback
<1>13. OnlyEditedRowsFail'
  BY DEF IInv, TypeOK, Requests, OnlyEditedRowsFail, PlaceInv, RowsInv, Reap,
         Rollback
<1> QED
  BY <1>1, <1>2, <1>3, <1>4, <1>5, <1>6, <1>7, <1>8, <1>9, <1>10, <1>11, <1>12,
     <1>13
  DEF IInv

\* The process restarts.
LEMMA RestartStep ==
    ASSUME IInv, Restart
    PROVE  IInv'
<1> USE DEF server, store, history
<1>1. TypeOK'
  <2>1. faults' \in 0 .. MaxFaults
    BY WorkspacesAssumption DEF IInv, TypeOK, Restart, Fault
  <2>2. pc' \in [Requests -> Statements \cup {"idle", "commit", "exit", "done"}]
    BY DEF IInv, TypeOK, Restart
  <2>3. result' \in [Requests -> Returned \cup Raised \cup {"Pending", "Crashed"}]
    BY DEF IInv, TypeOK, Restart
  <2>4. sent' \subseteq Creates
    BY DEF IInv, TypeOK, Restart
  <2>5. conn' \in [Requests -> {"closed", "open", "lost"}]
    BY DEF Restart
  <2> QED
    BY <2>1, <2>2, <2>3, <2>4, <2>5 DEF IInv, TypeOK, Restart
<1>2. IsFiniteSet(workspaces)'
  BY DEF IInv, TypeOK, Requests, Restart, At, Fault, InFlight
<1>3. BuiltInv'
  BY DEF IInv, TypeOK, Requests, BuiltInv, Restart, At, Fault, InFlight
<1>4. InsertedInv'
  BY DEF IInv, TypeOK, Requests, InsertedInv, BuiltInv, PlaceInv, DurableInv,
         Restart, At, Fault, InFlight
<1>5. RowsInv'
  BY DEF IInv, TypeOK, Requests, RowsInv, InsertedInv, BuiltInv, PlaceInv,
         Restart, At, Fault, InFlight
<1>6. DurableInv'
  BY DEF IInv, TypeOK, Requests, DurableInv, InsertedInv, PlaceInv, RowsInv,
         SentInv, Restart, At, Fault, InFlight
<1>7. SentInv'
  BY DEF IInv, TypeOK, Requests, SentInv, PlaceInv, InsertedInv, Restart, At,
         Fault, InFlight
<1>8. PlaceInv'
  BY DEF IInv, TypeOK, Requests, PlaceInv, InsertedInv, BuiltInv, SentInv,
         Restart, At, Fault, InFlight
<1>9. AnswersInv'
  BY DEF IInv, TypeOK, Requests, AnswersInv, PlaceInv, DurableInv, InsertedInv,
         SentInv, Restart, At, Fault, InFlight
<1>10. FoundInv'
  BY DEF IInv, TypeOK, Requests, FoundInv, PlaceInv, RowsInv, Restart, At,
         Fault, InFlight
<1>11. BeforeInv'
  BY DEF IInv, TypeOK, Requests, BeforeInv, PlaceInv, DurableInv, BuiltInv,
         SentInv, Restart, At, Fault, InFlight
<1>12. CreatedIsFound'
  BY DEF IInv, TypeOK, Requests, CreatedIsFound, PlaceInv, BeforeInv,
         AnswersInv, Restart, At, Fault, InFlight
<1>13. OnlyEditedRowsFail'
  BY DEF IInv, TypeOK, Requests, OnlyEditedRowsFail, PlaceInv, RowsInv,
         Restart, At, Fault, InFlight
<1> QED
  BY <1>1, <1>2, <1>3, <1>4, <1>5, <1>6, <1>7, <1>8, <1>9, <1>10, <1>11, <1>12,
     <1>13
  DEF IInv

\* An operator edits a workspace.
LEMMA EditWorkspaceStep ==
    ASSUME IInv, EditWorkspace
    PROVE  IInv'
<1> USE DEF server, store, history
<1>v. PICK w \in workspaces : \E e \in Edits(w) :
         /\ workspaces' = (workspaces \ {w}) \cup {e}
         /\ edited' = edited \cup {w.id}
         /\ UNCHANGED <<users, inserted, sent, durable, conn, now, faults, pc,
                        input, built, found, result, history>>
  BY DEF EditWorkspace
<1>a. PICK e \in Edits(w) :
         /\ workspaces' = (workspaces \ {w}) \cup {e}
         /\ edited' = edited \cup {w.id}
         /\ UNCHANGED <<users, inserted, sent, durable, conn, now, faults, pc,
                        input, built, found, result, history>>
  BY <1>v
<1>w. w \in WorkspaceRow
  BY <1>a DEF IInv, TypeOK
<1>b. e \in WorkspaceRow /\ SameWorkspace(e, w)
  <2>1. CASE e = [w EXCEPT !.status = "ARCHIVED", !.archived_at = w.created_at]
    BY <2>1, <1>w DEF WorkspaceRow, WorkspaceStatus, SameWorkspace
  <2>2. CASE \E t \in {w.archived_at, None} :
                e = [w EXCEPT !.status = "ACTIVE", !.archived_at = t]
    BY <2>2, <1>w DEF WorkspaceRow, WorkspaceStatus, SameWorkspace
  <2>3. CASE \E n \in EditedNames : e = [w EXCEPT !.name = n]
    BY <2>3, <1>w, WorkspacesAssumption
    DEF WorkspaceRow, WorkspaceStatus, SameWorkspace
  <2> QED
    BY <2>1, <2>2, <2>3, <1>a DEF Edits
<1>1. TypeOK'
  <2>1. w.id \in Creates
    BY <1>w DEF WorkspaceRow
  <2> QED
    BY <1>a, <1>b, <2>1 DEF IInv, TypeOK
<1>2. IsFiniteSet(workspaces)'
  BY <1>a, FS_AddElement, FS_RemoveElement DEF IInv
<1>3. BuiltInv'
  BY <1>a, <1>b, <1>w DEF IInv, TypeOK, Requests, BuiltInv, SameWorkspace
<1>4. InsertedInv'
  BY <1>a, <1>b, <1>w
  DEF IInv, TypeOK, Requests, InsertedInv, BuiltInv, PlaceInv, DurableInv,
      SameWorkspace
<1>5. RowsInv'
  BY <1>a, <1>b, <1>w
  DEF IInv, TypeOK, Requests, RowsInv, InsertedInv, BuiltInv, PlaceInv,
      SameWorkspace
<1>6. DurableInv'
  BY <1>a, <1>b, <1>w
  DEF IInv, TypeOK, Requests, DurableInv, InsertedInv, PlaceInv, RowsInv,
      SentInv, SameWorkspace
<1>7. SentInv'
  BY <1>a, <1>b, <1>w
  DEF IInv, TypeOK, Requests, SentInv, PlaceInv, InsertedInv, SameWorkspace
<1>8. PlaceInv'
  BY <1>a, <1>b, <1>w
  DEF IInv, TypeOK, Requests, PlaceInv, InsertedInv, BuiltInv, SentInv,
      SameWorkspace
<1>9. AnswersInv'
  BY <1>a, <1>b, <1>w
  DEF IInv, TypeOK, Requests, AnswersInv, PlaceInv, DurableInv, InsertedInv,
      SentInv, SameWorkspace
<1>10. FoundInv'
  BY <1>a, <1>b, <1>w
  DEF IInv, TypeOK, Requests, FoundInv, PlaceInv, RowsInv, SameWorkspace
<1>11. BeforeInv'
  BY <1>a, <1>b, <1>w
  DEF IInv, TypeOK, Requests, BeforeInv, PlaceInv, DurableInv, BuiltInv,
      SentInv, SameWorkspace
<1>12. CreatedIsFound'
  BY <1>a, <1>b, <1>w
  DEF IInv, TypeOK, Requests, CreatedIsFound, PlaceInv, BeforeInv, AnswersInv,
      SameWorkspace
<1>13. OnlyEditedRowsFail'
  BY <1>a, <1>b, <1>w
  DEF IInv, TypeOK, Requests, OnlyEditedRowsFail, PlaceInv, RowsInv,
      SameWorkspace
<1> QED
  BY <1>1, <1>2, <1>3, <1>4, <1>5, <1>6, <1>7, <1>8, <1>9, <1>10, <1>11, <1>12,
     <1>13
  DEF IInv

\* An operator deletes a user who owns nothing.
LEMMA DeleteUserStep ==
    ASSUME IInv, DeleteUser
    PROVE  IInv'
<1> USE DEF server, store, history
<1>1. TypeOK'
  BY WorkspacesAssumption
  DEF IInv, TypeOK, Requests, Statements, Returned, Raised, DeleteUser,
      OwnerLocked
<1>2. IsFiniteSet(workspaces)'
  BY DEF IInv, TypeOK, Requests, DeleteUser, OwnerLocked
<1>3. BuiltInv'
  BY DEF IInv, TypeOK, Requests, BuiltInv, DeleteUser, OwnerLocked
<1>4. InsertedInv'
  BY DEF IInv, TypeOK, Requests, InsertedInv, BuiltInv, PlaceInv, DurableInv,
         DeleteUser, OwnerLocked
<1>5. RowsInv'
  BY DEF IInv, TypeOK, Requests, RowsInv, InsertedInv, BuiltInv, PlaceInv,
         DeleteUser, OwnerLocked
<1>6. DurableInv'
  BY DEF IInv, TypeOK, Requests, DurableInv, InsertedInv, PlaceInv, RowsInv,
         SentInv, DeleteUser, OwnerLocked
<1>7. SentInv'
  BY DEF IInv, TypeOK, Requests, SentInv, PlaceInv, InsertedInv, DeleteUser,
         OwnerLocked
<1>8. PlaceInv'
  BY DEF IInv, TypeOK, Requests, PlaceInv, InsertedInv, BuiltInv, SentInv,
         DeleteUser, OwnerLocked
<1>9. AnswersInv'
  BY DEF IInv, TypeOK, Requests, AnswersInv, PlaceInv, DurableInv, InsertedInv,
         SentInv, DeleteUser, OwnerLocked
<1>10. FoundInv'
  BY DEF IInv, TypeOK, Requests, FoundInv, PlaceInv, RowsInv, DeleteUser,
         OwnerLocked
<1>11. BeforeInv'
  BY DEF IInv, TypeOK, Requests, BeforeInv, PlaceInv, DurableInv, BuiltInv,
         SentInv, DeleteUser, OwnerLocked
<1>12. CreatedIsFound'
  BY DEF IInv, TypeOK, Requests, CreatedIsFound, PlaceInv, BeforeInv,
         AnswersInv, DeleteUser, OwnerLocked
<1>13. OnlyEditedRowsFail'
  BY DEF IInv, TypeOK, Requests, OnlyEditedRowsFail, PlaceInv, RowsInv,
         DeleteUser, OwnerLocked
<1> QED
  BY <1>1, <1>2, <1>3, <1>4, <1>5, <1>6, <1>7, <1>8, <1>9, <1>10, <1>11, <1>12,
     <1>13
  DEF IInv

\* The clock advances.
LEMMA TickStep ==
    ASSUME IInv, Tick
    PROVE  IInv'
<1> USE DEF server, store, history
<1>1. TypeOK'
  <2>1. now' \in Times
    BY WorkspacesAssumption DEF IInv, TypeOK, Tick, Times
  <2> QED
    BY <2>1 DEF IInv, TypeOK, Tick
<1>2. IsFiniteSet(workspaces)'
  BY DEF IInv, TypeOK, Requests, Tick
<1>3. BuiltInv'
  BY DEF IInv, TypeOK, Requests, BuiltInv, Tick
<1>4. InsertedInv'
  BY DEF IInv, TypeOK, Requests, InsertedInv, BuiltInv, PlaceInv, DurableInv,
         Tick
<1>5. RowsInv'
  BY DEF IInv, TypeOK, Requests, RowsInv, InsertedInv, BuiltInv, PlaceInv, Tick
<1>6. DurableInv'
  BY DEF IInv, TypeOK, Requests, DurableInv, InsertedInv, PlaceInv, RowsInv,
         SentInv, Tick
<1>7. SentInv'
  BY DEF IInv, TypeOK, Requests, SentInv, PlaceInv, InsertedInv, Tick
<1>8. PlaceInv'
  BY DEF IInv, TypeOK, Requests, PlaceInv, InsertedInv, BuiltInv, SentInv, Tick
<1>9. AnswersInv'
  BY DEF IInv, TypeOK, Requests, AnswersInv, PlaceInv, DurableInv, InsertedInv,
         SentInv, Tick
<1>10. FoundInv'
  BY DEF IInv, TypeOK, Requests, FoundInv, PlaceInv, RowsInv, Tick
<1>11. BeforeInv'
  <2>1. now \in Int /\ now' = now + 1
    BY WorkspacesAssumption DEF IInv, TypeOK, Tick, Times
  <2>2. \A q \in Requests : \A w \in built[q] : w.created_at \in Int
    BY WorkspacesAssumption DEF IInv, TypeOK, WorkspaceRow, Times
  <2>3. ~setBack => \A q \in Requests : \A w \in built[q] : w.created_at <= now'
    BY <2>1, <2>2 DEF IInv, BeforeInv
  <2> QED
    BY <2>3 DEF IInv, BeforeInv, Tick
<1>12. CreatedIsFound'
  BY DEF IInv, TypeOK, Requests, CreatedIsFound, PlaceInv, BeforeInv,
         AnswersInv, Tick
<1>13. OnlyEditedRowsFail'
  BY DEF IInv, TypeOK, Requests, OnlyEditedRowsFail, PlaceInv, RowsInv, Tick
<1> QED
  BY <1>1, <1>2, <1>3, <1>4, <1>5, <1>6, <1>7, <1>8, <1>9, <1>10, <1>11, <1>12,
     <1>13
  DEF IInv

\* The clock is set back.
LEMMA StepBackStep ==
    ASSUME IInv, StepBack
    PROVE  IInv'
<1> USE DEF server, store, history
<1>1. TypeOK'
  <2>1. now' \in Times /\ faults' \in 0 .. MaxFaults
    BY WorkspacesAssumption DEF IInv, TypeOK, StepBack, Times
  <2> QED
    BY <2>1 DEF IInv, TypeOK, StepBack
<1>2. IsFiniteSet(workspaces)'
  BY DEF IInv, TypeOK, Requests, StepBack
<1>3. BuiltInv'
  BY DEF IInv, TypeOK, Requests, BuiltInv, StepBack
<1>4. InsertedInv'
  BY DEF IInv, TypeOK, Requests, InsertedInv, BuiltInv, PlaceInv, DurableInv,
         StepBack
<1>5. RowsInv'
  BY DEF IInv, TypeOK, Requests, RowsInv, InsertedInv, BuiltInv, PlaceInv,
         StepBack
<1>6. DurableInv'
  BY DEF IInv, TypeOK, Requests, DurableInv, InsertedInv, PlaceInv, RowsInv,
         SentInv, StepBack
<1>7. SentInv'
  BY DEF IInv, TypeOK, Requests, SentInv, PlaceInv, InsertedInv, StepBack
<1>8. PlaceInv'
  BY DEF IInv, TypeOK, Requests, PlaceInv, InsertedInv, BuiltInv, SentInv,
         StepBack
<1>9. AnswersInv'
  BY DEF IInv, TypeOK, Requests, AnswersInv, PlaceInv, DurableInv, InsertedInv,
         SentInv, StepBack
<1>10. FoundInv'
  BY DEF IInv, TypeOK, Requests, FoundInv, PlaceInv, RowsInv, StepBack
<1>11. BeforeInv'
  BY DEF IInv, TypeOK, Requests, BeforeInv, PlaceInv, DurableInv, BuiltInv,
         SentInv, StepBack
<1>12. CreatedIsFound'
  BY DEF IInv, TypeOK, Requests, CreatedIsFound, PlaceInv, BeforeInv,
         AnswersInv, StepBack
<1>13. OnlyEditedRowsFail'
  BY DEF IInv, TypeOK, Requests, OnlyEditedRowsFail, PlaceInv, RowsInv,
         StepBack
<1> QED
  BY <1>1, <1>2, <1>3, <1>4, <1>5, <1>6, <1>7, <1>8, <1>9, <1>10, <1>11, <1>12,
     <1>13
  DEF IInv

-----------------------------------------------------------------------------
(* The calls *)

\* A create begins.
LEMMA StartCreateStep ==
    ASSUME IInv, NEW r \in Creates, NEW owner \in Owners, NEW text \in Metadata,
           StartCreate(r, owner, text)
    PROVE  IInv'
<1> DEFINE w == NewWorkspace(r, owner, text)
<1>0. Start(r, "create", owner, None) /\ r \in Requests
  BY DEF StartCreate, Requests
<1>1. w \in WorkspaceRow
  BY WorkspacesAssumption
  DEF IInv, TypeOK, NewWorkspace, WorkspaceRow, WorkspaceStatus
<1>2. w.id = r /\ w.owner = owner /\ w.status = "ACTIVE" /\ w.created_at = now
  BY DEF NewWorkspace
<1>3. CASE IsWorkspace(w)
  <2> DEFINE n == Normalized(w)
  <2>1. /\ n \in WorkspaceRow
        /\ n.id = r /\ n.owner = owner /\ n.status = "ACTIVE"
        /\ n.created_at = now
        /\ IsWorkspace(n)
    BY <1>1, <1>2, <1>3, NormalizedRow, NormalizedFits DEF SameWorkspace
  <2>2. built' = [built EXCEPT ![r] = {n}]
    BY <1>3 DEF StartCreate
  <2>3. \/ /\ conn' = [conn EXCEPT ![r] = "open"]
           /\ Goto(r, "add")
           /\ UNCHANGED <<result, faults>>
        \/ /\ Fail(r, "WorkspacePersistenceError")
           /\ faults' \in 0 .. MaxFaults
    BY <1>3, WorkspacesAssumption
    DEF StartCreate, Enter, Fault, IInv, TypeOK
  <2> HIDE DEF w, n
  <2>4. Begun(r, "create", {n}, "add", "WorkspacePersistenceError")
    BY <2>3 DEF Begun
  <2>5. Fresh(r, owner, {n})
    BY <2>1 DEF Fresh
  <2>6. /\ "add" \in Statements
        /\ "WorkspacePersistenceError" \in Raised
        /\ {n} \in SUBSET WorkspaceRow
    BY <2>1 DEF Statements, Raised
  <2> QED
    BY <1>0, <2>2, <2>4, <2>5, <2>6, CallStep
<1>4. CASE ~IsWorkspace(w)
  <2>1. Fail(r, "ValueError") /\ faults' = faults /\ built' = built
    BY <1>4 DEF StartCreate
  <2>2. built[r] = {}
    BY <1>0 DEF Start, IInv, PlaceInv
  <2>3. built' = [built EXCEPT ![r] = {}]
    BY <2>1, <2>2 DEF IInv, TypeOK
  <2>4. faults' \in 0 .. MaxFaults
    BY <2>1 DEF IInv, TypeOK
  <2>5. Begun(r, "create", {}, "add", "ValueError")
    BY <2>1, <2>4 DEF Begun
  <2>6. Fresh(r, owner, {})
    BY DEF Fresh
  <2>7. "add" \in Statements /\ "ValueError" \in Raised
    BY DEF Statements, Raised
  <2> QED
    BY <1>0, <2>3, <2>5, <2>6, <2>7, CallStep
<1> QED
  BY <1>3, <1>4

\* A get or list begins.
LEMMA StartReadStep ==
    ASSUME IInv, NEW r \in Reads, NEW owner \in Owners,
           NEW op \in {"get", "list"}, NEW workspace \in Creates \cup {None},
           NEW first \in {"get_for_owner", "list_for_owner"},
           Start(r, op, owner, workspace), Enter(r, first), UNCHANGED built
    PROVE  IInv'
<1>0. r \in Requests
  BY DEF Requests
<1>1. built[r] = {}
  BY <1>0 DEF Start, IInv, PlaceInv
<1>2. built' = [built EXCEPT ![r] = {}]
  BY <1>1 DEF IInv, TypeOK
<1>3. \/ /\ conn' = [conn EXCEPT ![r] = "open"]
         /\ Goto(r, first)
         /\ UNCHANGED <<result, faults>>
      \/ /\ Fail(r, "WorkspacePersistenceError")
         /\ faults' \in 0 .. MaxFaults
  BY WorkspacesAssumption DEF Enter, Fault, IInv, TypeOK
<1>4. Begun(r, op, {}, first, "WorkspacePersistenceError")
  BY <1>3 DEF Begun
<1>5. Fresh(r, owner, {})
  BY DEF Fresh
<1>6. /\ first \in Statements /\ first # "add"
      /\ "WorkspacePersistenceError" \in Raised
  BY DEF Statements, Raised
<1>7. op \in {"create", "get", "list"} /\ op # "create"
  OBVIOUS
<1> QED
  BY <1>0, <1>2, <1>4, <1>5, <1>6, <1>7, CallStep

-----------------------------------------------------------------------------
(* The invariant *)

\* It holds at the start,
LEMMA InitInv == Init => IInv
<1> SUFFICES ASSUME Init PROVE IInv
  OBVIOUS
<1>1. TypeOK
  <2>1. 0 \in Times /\ 0 \in 0 .. MaxFaults
    BY WorkspacesAssumption DEF Times
  <2>2. [r \in Requests |-> NoInput] \in [Requests -> Inputs]
    BY DEF Inputs, NoInput
  <2> QED
    BY <2>1, <2>2 DEF Init, TypeOK
<1>2. IsFiniteSet(workspaces)
  BY FS_EmptySet DEF Init
<1>3. BuiltInv /\ InsertedInv /\ RowsInv /\ DurableInv /\ SentInv
  BY DEF Init, BuiltInv, InsertedInv, RowsInv, DurableInv, SentInv
<1>4. PlaceInv /\ AnswersInv /\ FoundInv
  BY DEF Init, PlaceInv, AnswersInv, FoundInv
<1>5. BeforeInv /\ CreatedIsFound /\ OnlyEditedRowsFail
  BY DEF Init, BeforeInv, CreatedIsFound, OnlyEditedRowsFail, Requests
<1> QED
  BY <1>1, <1>2, <1>3, <1>4, <1>5 DEF IInv

\* and after every step.
LEMMA NextInv == IInv /\ [Next]_vars => IInv'
<1> SUFFICES ASSUME IInv, [Next]_vars PROVE IInv'
  OBVIOUS
<1>1. CASE UNCHANGED vars
  BY <1>1
  DEF vars, server, store, history, IInv, TypeOK, BuiltInv, InsertedInv,
      RowsInv, DurableInv, SentInv, PlaceInv, AnswersInv, FoundInv, BeforeInv,
      CreatedIsFound, OnlyEditedRowsFail
<1>2. CASE Begin
  <2>1. ASSUME NEW r \in Creates, NEW owner \in Owners, NEW text \in Metadata,
               StartCreate(r, owner, text)
        PROVE  IInv'
    BY <2>1, StartCreateStep
  <2>2. ASSUME NEW r \in Reads, NEW owner \in Owners, StartList(r, owner)
        PROVE  IInv'
    BY <2>2, StartReadStep DEF StartList
  <2>3. ASSUME NEW r \in Reads, NEW owner \in Owners, NEW id \in Creates,
               StartGet(r, owner, id)
        PROVE  IInv'
    BY <2>3, StartReadStep DEF StartGet
  <2> QED
    BY <1>2, <2>1, <2>2, <2>3 DEF Begin
<1>3. ASSUME NEW r \in Requests, Serve(r) PROVE IInv'
  <2>1. CASE Read(r)
    BY <2>1, ReadListsStep, ReadRefusesStep
  <2> QED
    BY <1>3, <2>1, AddStep, StatementFailsStep, CommitSucceedsStep,
       CommitRefusedStep, CommitLostStep, ExitStep
    DEF Serve
<1>4. ASSUME NEW r \in Requests,
             LoseConnection(r) \/ LateCommit(r) \/ Reap(r)
      PROVE  IInv'
  BY <1>4, LoseConnectionStep, LateCommitStep, ReapStep
<1>5. CASE Restart \/ EditWorkspace \/ DeleteUser \/ Tick \/ StepBack
  BY <1>5, RestartStep, EditWorkspaceStep, DeleteUserStep, TickStep,
     StepBackStep
<1> QED
  BY <1>1, <1>2, <1>3, <1>4, <1>5 DEF Next, Finished

\* The invariant of the service.
THEOREM Invariance == Spec => []IInv
<1> QED
  BY InitInv, NextInv, PTL DEF Spec

\* All variables keep their types.
THEOREM TypeCorrect == Spec => []TypeOK
<1>1. IInv => TypeOK
  BY DEF IInv
<1> QED
  BY <1>1, Invariance, PTL

\* Callers see their own workspaces only.
THEOREM Isolation == Spec => []OwnersSeeTheirOwn
<1>1. IInv => OwnersSeeTheirOwn
  <2> SUFFICES ASSUME IInv, NEW r \in Reads, NEW l \in found[r],
                      NEW i \in DOMAIN l
               PROVE  /\ l[i].id \in durable
                      /\ input[l[i].id].owner = input[r].owner
                      /\ input[r].op = "get" => l[i].id = input[r].workspace
    BY DEF OwnersSeeTheirOwn
  <2>1. /\ l[i].id \in durable
        /\ l[i].owner = input[r].owner
        /\ input[r].op = "get" => l[i].id = input[r].workspace
        /\ \E b \in built[l[i].id] : SameWorkspace(l[i], b)
    BY DEF IInv, FoundInv, Requests
  <2>2. input[l[i].id].owner = l[i].owner
    BY <2>1 DEF IInv, TypeOK, BuiltInv, SameWorkspace, Requests
  <2> QED
    BY <2>1, <2>2
<1> QED
  BY <1>1, Invariance, PTL

\* A create's answer tells the truth about the database.
THEOREM TruthfulOutcome == Spec => []OutcomeMatchesCommit
<1>1. IInv => OutcomeMatchesCommit
  BY DEF IInv, OutcomeMatchesCommit, DurableInv, AnswersInv, RowsInv, Requests
<1> QED
  BY <1>1, Invariance, PTL

\* What was created before a call is in what the call finds.
THEOREM ReadYourCreates == Spec => []CreatedIsFound
<1>1. IInv => CreatedIsFound
  BY DEF IInv
<1> QED
  BY <1>1, Invariance, PTL

\* Any two lists agree on the order of any two workspaces.
THEOREM StableOrder == Spec => []ListsAgree
<1>1. IInv => ListsAgree
  <2> SUFFICES ASSUME IInv, NEW q \in Reads, NEW r \in Reads,
                      NEW k \in found[q], NEW l \in found[r],
                      NEW v \in Creates, NEW w \in Creates,
                      Above(k, v, w), Above(l, w, v)
               PROVE  FALSE
    BY DEF ListsAgree
  <2>1. PICK i, j \in DOMAIN k : i < j /\ k[i].id = v /\ k[j].id = w
    BY DEF Above
  <2>2. PICK m, n \in DOMAIN l : m < n /\ l[m].id = w /\ l[n].id = v
    BY DEF Above
  <2>3. v # w /\ ~Precedes(k[j], k[i]) /\ ~Precedes(l[n], l[m])
    BY <2>1, <2>2 DEF IInv, FoundInv, Requests
  <2>4. PICK x \in built[v] : SameWorkspace(k[i], x)
    BY <2>1 DEF IInv, FoundInv, Requests
  <2>5. PICK y \in built[w] : SameWorkspace(k[j], y)
    BY <2>1 DEF IInv, FoundInv, Requests
  <2>6. SameWorkspace(l[n], x) /\ SameWorkspace(l[m], y)
    BY <2>2, <2>4, <2>5 DEF IInv, FoundInv, BuiltInv, Requests
  <2>7. x.created_at \in Int /\ y.created_at \in Int
    <3>1. x \in WorkspaceRow /\ y \in WorkspaceRow
      BY <2>4, <2>5 DEF IInv, TypeOK, Requests
    <3>2. Times \subseteq Int
      BY WorkspacesAssumption DEF Times
    <3> QED
      BY <3>1, <3>2 DEF WorkspaceRow
  <2>8. v \in Int /\ w \in Int
    BY WorkspacesAssumption
  <2> QED
    BY <2>1, <2>2, <2>3, <2>4, <2>5, <2>6, <2>7, <2>8
    DEF Precedes, SameWorkspace
<1> QED
  BY <1>1, Invariance, PTL

\* While the clock is not set back, what was created later stands above.
THEOREM NewestFirst == Spec => []NewestOnTop
<1>1. IInv => NewestOnTop
  <2> SUFFICES ASSUME IInv, NEW r \in Reads, NEW l \in found[r],
                      NEW v \in Creates, NEW w \in Creates,
                      ~setBack, v \in before[w],
                      \A x \in built[v], y \in built[w] :
                          x.created_at # y.created_at,
                      Above(l, v, w)
               PROVE  FALSE
    BY DEF NewestOnTop
  <2>1. PICK i, j \in DOMAIN l : i < j /\ l[i].id = v /\ l[j].id = w
    BY DEF Above
  <2>2. ~Precedes(l[j], l[i])
    BY <2>1 DEF IInv, FoundInv, Requests
  <2>3. PICK x \in built[v] : SameWorkspace(l[i], x)
    BY <2>1 DEF IInv, FoundInv, Requests
  <2>4. PICK y \in built[w] : SameWorkspace(l[j], y)
    BY <2>1 DEF IInv, FoundInv, Requests
  <2>5. x.created_at <= y.created_at /\ x.created_at # y.created_at
    BY <2>3, <2>4 DEF IInv, BeforeInv, Requests
  <2>6. x.created_at \in Int /\ y.created_at \in Int
    BY WorkspacesAssumption, <2>3, <2>4
    DEF IInv, TypeOK, WorkspaceRow, Times, Requests
  <2> QED
    BY <2>2, <2>3, <2>4, <2>5, <2>6 DEF Precedes, SameWorkspace
<1> QED
  BY <1>1, Invariance, PTL

\* Only rows that an operator edited make a call fail.
THEOREM StoredRowsLoad == Spec => []OnlyEditedRowsFail
<1>1. IInv => OnlyEditedRowsFail
  BY DEF IInv
<1> QED
  BY <1>1, Invariance, PTL

\* No workspace is without its owner.
THEOREM OwnersStay == Spec => []OwnersExist
<1>1. IInv => OwnersExist
  BY DEF IInv, RowsInv, OwnersExist
<1> QED
  BY <1>1, Invariance, PTL
-----------------------------------------------------------------------------
(* Refinement *)

\* Steps that a caller cannot notice.
LEMMA Unnoticed ==
    ASSUME UNCHANGED <<input, durable, found>>, Offered' = Offered,
           \A q \in Requests :
              /\ pc'[q] = "done" <=> pc[q] = "done"
              /\ pc[q] = "done" => result'[q] = result[q]
    PROVE  UNCHANGED Catalog!vars
<1>1. Shown' = Shown
  BY DEF Shown
<1>2. Answer' = Answer
  BY DEF Answer
<1> QED
  BY <1>1, <1>2 DEF Catalog!vars

\* A request of which only the place and the outcome change.
LEMMA StaysInside ==
    ASSUME IInv, NEW r \in Requests, UNCHANGED <<input, durable, found, workspaces>>,
           pc[r] # "done", NEW place, place # "done",
           pc' = [pc EXCEPT ![r] = place],
           \A q \in Requests \ {r} : result'[q] = result[q]
    PROVE  UNCHANGED Catalog!vars
<1>1. Offered' = Offered
  BY DEF Offered
<1>2. \A q \in Requests :
         /\ pc'[q] = "done" <=> pc[q] = "done"
         /\ pc[q] = "done" => result'[q] = result[q]
  BY DEF IInv, TypeOK
<1> QED
  BY <1>1, <1>2, Unnoticed

\* A call begins.
LEMMA AskStep ==
    ASSUME IInv, NEW r \in Requests, NEW op, NEW owner, NEW workspace,
           Start(r, op, owner, workspace),
           \/ \E first \in Statements : Enter(r, first)
           \/ Fail(r, "ValueError")
    PROVE  Catalog!Ask(r, op, owner, workspace)
<1>1. /\ pc[r] = "idle"
      /\ input[r].op = "none"
      /\ UNCHANGED <<durable, workspaces, found>>
      /\ input' = [input EXCEPT ![r] =
                     [op |-> op, owner |-> owner, workspace |-> workspace]]
  BY DEF Start, IInv, PlaceInv, NoInput, server, store
<1>2. Offered' = Offered /\ Shown' = Shown
  BY <1>1 DEF Offered, Shown
<1>3. \/ \E first \in Statements :
            pc' = [pc EXCEPT ![r] = first] /\ result' = result
      \/ \E a \in {"ValueError", "WorkspacePersistenceError"} :
            /\ pc' = [pc EXCEPT ![r] = "done"]
            /\ result' = [result EXCEPT ![r] = a]
  BY DEF Enter, Fail, Goto
<1>4. CASE \E first \in Statements :
             pc' = [pc EXCEPT ![r] = first] /\ result' = result
  <2>1. Answer' = Answer
    BY <1>1, <1>4 DEF Answer, Statements, IInv, TypeOK
  <2> QED
    BY <1>1, <1>2, <2>1 DEF Catalog!Ask, Catalog!Called
<1>5. ASSUME NEW a \in {"ValueError", "WorkspacePersistenceError"},
             pc' = [pc EXCEPT ![r] = "done"],
             result' = [result EXCEPT ![r] = a]
      PROVE  Catalog!Ask(r, op, owner, workspace)
  <2>1. Answer' = [Answer EXCEPT ![r] = a]
    BY <1>5 DEF Answer, IInv, TypeOK
  <2>2. a \in Catalog!Refusals
    BY DEF Catalog!Refusals
  <2> QED
    BY <1>1, <1>2, <2>1, <2>2 DEF Catalog!Ask, Catalog!Called
<1> QED
  BY <1>3, <1>4, <1>5

\* The one row of a transaction becomes visible.
LEMMA MakeStep ==
    ASSUME IInv, NEW r \in Requests, inserted[r] # {}, Apply(r),
           UNCHANGED <<input, found>>,
           Answer' = Answer, Answer[r] \in {"waiting", "OperationalError", "Crashed"}
    PROVE  r \in Creates /\ Catalog!Make(r)
<1>1. PICK b \in WorkspaceRow :
         /\ inserted[r] = {b}
         /\ built[r] = {b}
         /\ b.id = r
         /\ b.owner \in users
         /\ b.status = "ACTIVE"
         /\ r \in Creates
         /\ r \notin durable
         /\ \A w \in workspaces : w.id # r
  BY CommittedRow
<1>2. Offered' = Offered \cup {r}
  BY <1>1 DEF Apply, Offered
<1>3. Shown' = Shown
  BY DEF Shown
<1>4. input[r].op # "none"
  BY <1>1 DEF IInv, InsertedInv, PlaceInv
<1> QED
  BY <1>1, <1>2, <1>3, <1>4
  DEF Apply, Catalog!Make, Catalog!Called, Catalog!Unknown

\* A get or list sees the whole of what its caller may see.
LEMMA LookStep ==
    ASSUME IInv, NEW r \in Requests, Read(r),
           \A w \in Selected(r) : IsWorkspace(w)
    PROVE  r \in Reads /\ Catalog!Look(r)
<1> DEFINE S == {Normalized(w) : w \in Selected(r)}
<1>1. /\ pc[r] \in {"get_for_owner", "list_for_owner"}
      /\ UNCHANGED <<input, durable, workspaces>>
  BY DEF Read, At, server, store
<1>2. PICK l \in Orderings(S) :
         /\ found' = [found EXCEPT ![r] = {l}]
         /\ \E outcome : Leave(r, outcome)
  BY DEF Read
<1>3. /\ r \in Reads
      /\ input[r].op \in {"get", "list"}
      /\ found[r] = {}
  BY <1>1 DEF IInv, PlaceInv
<1>4. \A w \in Selected(r) : Normalized(w).id = w.id
  BY NormalizedRow DEF IInv, TypeOK, Selected, SameWorkspace
<1>5. IsFiniteSet(S)
  <2>1. IsFiniteSet(Selected(r))
    BY FS_Subset DEF IInv, Selected
  <2> DEFINE f == [w \in Selected(r) |-> Normalized(w)]
  <2>2. f \in Surjection(Selected(r), S)
    BY DEF Surjection
  <2> QED
    BY <2>1, <2>2, FS_Surjection
<1>6. {l[i].id : i \in DOMAIN l} = {w.id : w \in Selected(r)}
  <2>1. /\ \A i \in DOMAIN l : l[i] \in S
        /\ \A x \in S : \E i \in DOMAIN l : l[i] = x
    BY <1>5, ListingOf
  <2>2. \A i \in DOMAIN l : \E w \in Selected(r) : l[i].id = w.id
    BY <2>1, <1>4
  <2>3. \A w \in Selected(r) : \E i \in DOMAIN l : l[i].id = w.id
    BY <2>1, <1>4
  <2> HIDE DEF S
  <2> QED
    BY <2>2, <2>3
<1>7. {w.id : w \in Selected(r)} = Catalog!Visible(r)
  <2>1. \A w \in workspaces : w.owner = input[w.id].owner
    BY DEF IInv, TypeOK, WorkspaceRow, RowsInv, BuiltInv, SameWorkspace, Requests
  <2> QED
    BY <2>1 DEF Selected, Available, Offered, Catalog!Visible
<1>8. Shown[r] = {} /\ Shown' = [Shown EXCEPT ![r] = {Catalog!Visible(r)}]
  <2> DEFINE ids(k) == {k[i].id : i \in DOMAIN k}
  <2>1. ids(l) = Catalog!Visible(r)
    BY <1>6, <1>7
  <2>2. /\ Shown = [q \in Requests |-> {ids(k) : k \in found[q]}]
        /\ Shown' = [q \in Requests |-> {ids(k) : k \in found'[q]}]
    BY DEF Shown
  <2>3. /\ found'[r] = {l}
        /\ \A q \in Requests \ {r} : found'[q] = found[q]
    BY <1>2 DEF IInv, TypeOK
  <2> HIDE DEF S, ids
  <2>4. {ids(k) : k \in found'[r]} = {Catalog!Visible(r)}
    BY <2>1, <2>3
  <2> QED
    BY <1>3, <2>2, <2>3, <2>4
<1>9. Answer[r] = "waiting" /\ Answer' = Answer
  BY <1>1, <1>2 DEF Answer, Leave, Goto, IInv, TypeOK
<1>10. Offered' = Offered
  BY <1>1 DEF Offered
<1> QED
  BY <1>1, <1>3, <1>8, <1>9, <1>10 DEF Catalog!Look, Catalog!Called

\* A caller gets an answer.
LEMMA ReplyStep ==
    ASSUME IInv, NEW r \in Requests, Exit(r)
    PROVE  Catalog!Reply(r)
<1>1. /\ pc[r] = "exit"
      /\ pc' = [pc EXCEPT ![r] = "done"]
      /\ UNCHANGED <<input, durable, workspaces, found>>
      /\ \/ result' = result
         \/ result' = [result EXCEPT ![r] = "OperationalError"]
  BY DEF Exit, Goto, store, IInv, TypeOK
<1> DEFINE a == result'[r]
<1>2. Offered' = Offered /\ Shown' = Shown
  BY <1>1 DEF Offered, Shown
<1>3. Answer[r] = "waiting" /\ Answer' = [Answer EXCEPT ![r] = a]
  BY <1>1 DEF Answer, IInv, TypeOK
<1>4. a \in Catalog!Answers
  <2>1. /\ result[r] \in Returned \cup Raised \cup {"Pending", "Crashed"}
        /\ result[r] \notin {"Pending", "Crashed"}
    BY <1>1 DEF IInv, TypeOK, PlaceInv
  <2>2. a \in {result[r], "OperationalError"}
    BY <1>1 DEF IInv, TypeOK
  <2> QED
    BY <2>1, <2>2 DEF Returned, Raised, Catalog!Answers, Catalog!Refusals
<1>5. ASSUME a # "OperationalError" PROVE Catalog!May(r, a)
  <2>1. result[r] = a
    BY <1>1, <1>5 DEF IInv, TypeOK
  <2>2. /\ a = "Created" => r \in durable
        /\ a \in {"Found", "WorkspaceUnavailable"} => input[r].op = "get"
        /\ a = "Listed" => input[r].op = "list" /\ found[r] # {}
        /\ a = "Found" => \E l \in found[r] : l # <<>>
        /\ a = "WorkspaceUnavailable" => found[r] = {<<>>}
        /\ a \in Catalog!Refusals => found[r] = {} /\ r \notin durable
    BY <2>1 DEF IInv, AnswersInv, Catalog!Refusals
  <2> DEFINE ids(k) == {k[i].id : i \in DOMAIN k}
  <2>s. Shown[r] = {ids(k) : k \in found[r]}
    BY DEF Shown
  <2>3. \A l \in found[r] : l # <<>> => ids(l) # {}
    BY DEF IInv, TypeOK
  <2>4. ids(<<>>) = {}
    OBVIOUS
  <2> HIDE DEF ids
  <2>5. /\ a = "Listed" => Shown[r] # {}
        /\ a = "Found" => \E s \in Shown[r] : s # {}
        /\ a = "WorkspaceUnavailable" => Shown[r] = {{}}
        /\ a \in Catalog!Refusals => Shown[r] = {}
    BY <2>s, <2>2, <2>3, <2>4
  <2> HIDE DEF a
  <2> QED
    BY <1>4, <1>5, <2>2, <2>5
    DEF Catalog!May, Catalog!Answers, Catalog!Unknown
<1>6. Catalog!May(r, a)
  BY <1>5 DEF Catalog!May, Catalog!Unknown
<1>7. input[r].op # "none"
  BY <1>1 DEF IInv, PlaceInv
<1> HIDE DEF a
<1> QED
  BY <1>1, <1>2, <1>3, <1>4, <1>6, <1>7 DEF Catalog!Reply, Catalog!Called

\* The process stops.
LEMMA CrashStep ==
    ASSUME IInv, Restart
    PROVE  Catalog!Crash
<1>1. UNCHANGED <<input, durable, workspaces, found>>
  BY DEF Restart, store
<1>2. Offered' = Offered /\ Shown' = Shown
  BY <1>1 DEF Offered, Shown
<1>3. \A q \in Requests :
         Answer'[q] = IF Catalog!Called(q) /\ Answer[q] = "waiting"
                        THEN "Crashed" ELSE Answer[q]
  <2> SUFFICES ASSUME NEW q \in Requests
               PROVE  Answer'[q] = IF Catalog!Called(q) /\ Answer[q] = "waiting"
                                     THEN "Crashed" ELSE Answer[q]
    OBVIOUS
  <2>1. CASE pc[q] = "idle"
    BY <2>1
    DEF Answer, Restart, InFlight, Catalog!Called, IInv, PlaceInv, NoInput
  <2>2. CASE pc[q] = "done"
    <3>1. result[q] # "waiting"
      BY DEF IInv, TypeOK, Returned, Raised
    <3> QED
      BY <2>2, <3>1 DEF Answer, Restart, InFlight
  <2>3. CASE InFlight(q)
    BY <2>3
    DEF Answer, Restart, InFlight, Catalog!Called, IInv, PlaceInv
  <2> QED
    BY <2>1, <2>2, <2>3 DEF InFlight
<1>4. Answer' = [q \in Requests |->
                   IF Catalog!Called(q) /\ Answer[q] = "waiting"
                     THEN "Crashed" ELSE Answer[q]]
  BY <1>3 DEF Answer
<1> QED
  BY <1>1, <1>2, <1>4 DEF Catalog!Crash, Requests

\* An operator's edit.
LEMMA AdministerStep ==
    ASSUME IInv, IInv', EditWorkspace
    PROVE  Catalog!Administer
<1>1. UNCHANGED <<input, durable, found, pc, result>>
  BY DEF EditWorkspace
<1>2. Shown' = Shown /\ Answer' = Answer
  BY <1>1 DEF Shown, Answer
<1>3. Offered' \in SUBSET durable
  BY <1>1 DEF IInv, RowsInv, Offered
<1> QED
  BY <1>1, <1>2, <1>3 DEF Catalog!Administer

\* Every step of the service is one that WorkspaceCatalog allows, or none.
LEMMA StepRefines ==
    IInv /\ IInv' /\ [Next]_vars => [Catalog!Next]_(Catalog!vars)
<1> SUFFICES ASSUME IInv, IInv', [Next]_vars
             PROVE  [Catalog!Next]_(Catalog!vars)
  OBVIOUS
<1> USE DEF Catalog!Next
<1>1. CASE UNCHANGED vars
  BY <1>1, Unnoticed DEF vars, server, store, history, Offered
<1>2. CASE Begin
  <2>1. ASSUME NEW r \in Creates, NEW owner \in Owners, NEW text \in Metadata,
               StartCreate(r, owner, text)
        PROVE  Catalog!Ask(r, "create", owner, None)
    <3>1. "add" \in Statements /\ r \in Requests
      BY DEF Statements, Requests
    <3> QED
      BY <2>1, <3>1, AskStep DEF StartCreate
  <2>2. ASSUME NEW r \in Reads, NEW owner \in Owners, StartList(r, owner)
        PROVE  Catalog!Ask(r, "list", owner, None)
    <3>1. "list_for_owner" \in Statements /\ r \in Requests
      BY DEF Statements, Requests
    <3> QED
      BY <2>2, <3>1, AskStep DEF StartList
  <2>3. ASSUME NEW r \in Reads, NEW owner \in Owners, NEW id \in Creates,
               StartGet(r, owner, id)
        PROVE  Catalog!Ask(r, "get", owner, id)
    <3>1. "get_for_owner" \in Statements /\ r \in Requests
      BY DEF Statements, Requests
    <3> QED
      BY <2>3, <3>1, AskStep DEF StartGet
  <2> QED
    BY <1>2, <2>1, <2>2, <2>3 DEF Begin
<1>3. ASSUME NEW r \in Requests, Serve(r)
      PROVE  [Catalog!Next]_(Catalog!vars)
  <2>1. CASE Add(r)
    <3>1. \E place \in {"commit", "exit"} :
             /\ pc' = [pc EXCEPT ![r] = place]
             /\ \A q \in Requests \ {r} : result'[q] = result[q]
      BY <2>1 DEF Add, Leave, Goto, IInv, TypeOK
    <3> QED
      BY <2>1, <3>1, StaysInside DEF Add, At, store
  <2>2. CASE Read(r)
    <3>1. CASE \A w \in Selected(r) : IsWorkspace(w)
      BY <2>2, <3>1, LookStep
    <3>2. CASE ~ \A w \in Selected(r) : IsWorkspace(w)
      <4>1. /\ pc' = [pc EXCEPT ![r] = "exit"]
            /\ result' = [result EXCEPT ![r] = "ValueError"]
            /\ pc[r] # "done"
            /\ UNCHANGED <<input, durable, found, workspaces>>
        BY <2>2, <3>2 DEF Read, At, Leave, Goto, server, store
      <4>2. \A q \in Requests \ {r} : result'[q] = result[q]
        BY <4>1 DEF IInv, TypeOK
      <4> QED
        BY <4>1, <4>2, StaysInside
    <3> QED
      BY <3>1, <3>2
  <2>3. CASE StatementFails(r) \/ CommitRefused(r) \/ CommitLost(r)
    <3>1. /\ pc' = [pc EXCEPT ![r] = "exit"]
          /\ \E a : result' = [result EXCEPT ![r] = a]
          /\ pc[r] # "done"
          /\ UNCHANGED <<input, durable, found, workspaces>>
      BY <2>3
      DEF StatementFails, CommitRefused, CommitLost, At, Leave, Goto, server,
          store, Statements
    <3>2. \A q \in Requests \ {r} : result'[q] = result[q]
      BY <3>1 DEF IInv, TypeOK
    <3> QED
      BY <3>1, <3>2, StaysInside
  <2>4. CASE CommitSucceeds(r)
    <3>1. inserted[r] # {} /\ pc[r] = "commit"
      BY <2>4 DEF CommitSucceeds, At, IInv, PlaceInv
    <3>2. Answer[r] = "waiting" /\ Answer' = Answer
      BY <2>4, <3>1 DEF CommitSucceeds, Leave, Goto, Answer, IInv, TypeOK
    <3> QED
      BY <2>4, <3>1, <3>2, MakeStep DEF CommitSucceeds
  <2>5. CASE Exit(r)
    BY <2>5, ReplyStep DEF Requests
  <2> QED
    BY <1>3, <2>1, <2>2, <2>3, <2>4, <2>5 DEF Serve
<1>4. ASSUME NEW r \in Requests, LateCommit(r)
      PROVE  [Catalog!Next]_(Catalog!vars)
  <2>1. /\ inserted[r] # {}
        /\ result[r] \in {"OperationalError", "Crashed"}
    BY <1>4 DEF LateCommit, IInv, SentInv
  <2>2. Answer' = Answer /\ Answer[r] \in {"waiting", "OperationalError", "Crashed"}
    BY <1>4, <2>1 DEF LateCommit, Answer
  <2> QED
    BY <1>4, <2>1, <2>2, MakeStep DEF LateCommit
<1>5. CASE (\E r \in Requests : LoseConnection(r) \/ Reap(r)) \/ DeleteUser
           \/ Tick \/ StepBack
  <2>1. UNCHANGED <<input, durable, found, workspaces, pc, result>>
    BY <1>5
    DEF LoseConnection, Reap, DeleteUser, Tick, StepBack, server, store
  <2> QED
    BY <2>1, Unnoticed DEF Offered
<1>6. CASE Restart
  BY <1>6, CrashStep
<1>7. CASE EditWorkspace
  BY <1>7, AdministerStep
<1> QED
  BY <1>1, <1>2, <1>3, <1>4, <1>5, <1>6, <1>7 DEF Next, Finished

\* The service starts as the empty catalog.
LEMMA InitRefines == Init => Catalog!Init
<1> SUFFICES ASSUME Init PROVE Catalog!Init
  OBVIOUS
<1>1. Offered = {}
  BY DEF Init, Offered
<1>2. Shown = [r \in Creates \cup Reads |-> {}]
  BY DEF Init, Shown, Requests
<1>3. Answer = [r \in Creates \cup Reads |-> "waiting"]
  BY DEF Init, Answer, Requests
<1> QED
  BY <1>1, <1>2, <1>3
  DEF Init, Catalog!Init, NoInput, Catalog!NoInput, Requests

\* The service implements the catalog of workspaces that its callers see.
THEOREM Refinement == Spec => ServesCatalog
<1>1. Spec => []IInv
  BY Invariance
<1> QED
  BY <1>1, InitRefines, StepRefines, PTL DEF Spec, ServesCatalog, Catalog!Spec
==================================================================================
