------------------------------ MODULE MCWorkspaces ------------------------------
(***************************************************************************)
(* Workspaces for TLC: the texts that stand for the cases of a name and    *)
(* description, and symmetry.  Creates are numbers, their ids: no symmetry.*)
(***************************************************************************)
EXTENDS WorkspacesInvariant, TLC

Plain   == [core |-> 1, around |-> "nothing"]
Padded  == [core |-> 1, around |-> "tabs"]
Blank   == [core |-> 0, around |-> "tabs"]
TooLong == [core |-> 2, around |-> "nothing"]

TabsOnly == {Blank}

PlainMetadata == {[name |-> Plain, description |-> Blank]}
AllMetadata ==
    {[name |-> Plain, description |-> Plain],
     [name |-> Padded, description |-> Padded],
     [name |-> Blank, description |-> None],
     [name |-> Plain, description |-> TooLong]}

Symmetry == Permutations(Reads) \cup Permutations(Owners)
=================================================================================
