SPECIFICATION Spec
CONSTANTS
    Requests = {r1, r2, r3}
    NoToken = NoToken
    NoHeader = NoHeader
INVARIANTS
    DatabaseFailureIs503
