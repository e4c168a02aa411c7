SPECIFICATION Spec
CONSTANTS
    Creates = {1, 2}
    Reads = {a}
    Owners = {o1, o2}
    Metadata <- AllMetadata
    EditedNames <- TabsOnly
    ArchivedKept = {FALSE, TRUE}
    None = None
    MaxName = 1
    MaxDescription = 1
    MaxTime = 0
    MaxFaults = 1
SYMMETRY Symmetry
INVARIANTS
    IInv
    OwnersSeeTheirOwn
    OutcomeMatchesCommit
    CreatedIsFound
    OnlyEditedRowsFail
    OwnersExist
PROPERTIES
    ServesCatalog
