SPECIFICATION Spec
CONSTANTS
    None = None
    Environments <- SomeEnvironments
    Users = {u1, u2, u3}
    MaxLength = 2
    MaxEdits = 1
SYMMETRY Symmetry
INVARIANTS
    IInv
    OnlyEditedIdentitiesFail
    OneUserPerSubject
    PagesHaveTheOrigin
