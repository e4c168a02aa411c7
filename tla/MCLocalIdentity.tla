----------------------------- MODULE MCLocalIdentity -----------------------------
(***************************************************************************)
(* LocalIdentity for TLC: the environments that operators write.           *)
(***************************************************************************)
EXTENDS LocalIdentityInvariant, TLC

\* A text, the same with white space around it, another, one that only its
\* white space makes too long, and white space alone.
Plain   == [core |-> 1, pad |-> 0]
Padded  == [core |-> 1, pad |-> 1]
Longer  == [core |-> 2, pad |-> 0]
TooLong == [core |-> 2, pad |-> 1]
Blank   == [core |-> 0, pad |-> 1]

Loopback == [host |-> "127.0.0.1", tail |-> ""]

\* One variable at a time is unusual, but for the texts that name the identity.
SomeEnvironments ==
    LET E(i, s, d, o) == [issuer |-> i, subject |-> s, display_name |-> d,
                          public_origin |-> o]
    IN  {E(i, s, Plain, Loopback) : i \in {Plain, Longer},
             s \in {Plain, Padded, Longer, TooLong, Blank, None}}
        \cup {E(Plain, Plain, d, Loopback) : d \in {Padded, Blank, None}}
        \cup {E(Plain, Plain, Plain, o) : o \in Origins}

Symmetry == Permutations(Users)
=================================================================================
