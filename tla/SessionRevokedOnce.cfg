SPECIFICATION Spec
CONSTANTS
    Requests = {r1, r2, r3}
    Subjects = {local}
    NoToken = NoToken
    None = None
    IdleLifetime = 2
    AbsoluteLifetime = 2
    MaxTime = 1
    MaxFaults = 0
PROPERTIES
    RevokedOnce
