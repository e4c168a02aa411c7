SPECIFICATION FairSpec
CONSTANTS
    Requests = {r1, r2}
    Subjects = {local, renamed}
    NoToken = NoToken
    None = None
    IdleLifetime = 1
    AbsoluteLifetime = 2
    MaxTime = 1
    MaxFaults = 2
INVARIANTS
    IdentityIntegrity
    OutcomeMatchesCommit
PROPERTIES
    EveryRequestAnswered
    ServesLifecycle
