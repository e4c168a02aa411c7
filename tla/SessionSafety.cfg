SPECIFICATION Spec
CONSTANTS
    Requests = {r1, r2, r3}
    Subjects = {local}
    NoToken = NoToken
    None = None
    IdleLifetime = 1
    AbsoluteLifetime = 2
    MaxTime = 1
    MaxFaults = 1
SYMMETRY Symmetry
INVARIANTS
    IInv
    IdentityIntegrity
    AuthenticatedWasLive
    RevocationAuthorised
    OutcomeMatchesCommit
    StoredSessionsLoad
    IdleLifetimeDecides
    RefusalIsTrue
PROPERTIES
    SessionRowsOnlyGetRevoked
    OnlyOverlapsRevokeAgain
