SPECIFICATION Spec
CONSTANTS
    Requests = {r1, r2, r3}
    NoToken = NoToken
    NoHeader = NoHeader
SYMMETRY Symmetry
INVARIANTS
    IInv
    ResponseIsTrue
    OnlyOwnPagesLogOut
PROPERTIES
    LogoutIsFinal
    UsesService
