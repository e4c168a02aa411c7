SPECIFICATION Spec
CONSTANTS
    Creates = {1, 2}
    Reads = {a, b}
    Owners = {o1}
    Metadata <- PlainMetadata
    EditedNames = {}
    ArchivedKept = {FALSE}
    None = None
    MaxName = 1
    MaxDescription = 1
    MaxTime = 1
    MaxFaults = 0
SYMMETRY Symmetry
INVARIANTS
    ListsAgree
    NewestOnTop
