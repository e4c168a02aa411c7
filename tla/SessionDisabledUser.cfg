SPECIFICATION Spec
CONSTANTS
    Requests = {r1, r2}
    Subjects = {local}
    NoToken = NoToken
    None = None
    IdleLifetime = 1
    AbsoluteLifetime = 2
    MaxTime = 0
    MaxFaults = 0
PROPERTIES
    DisabledUsersGetNoSession
