SPECIFICATION Spec
CONSTANTS
    Ip = {i1}
    User = {u1}
    Attempt = {a1, a2}
    RateLimit = 3
    MaxFailed = 2
    MaxCount = 3
    NoIp = NoIp
    NoUser = NoUser
INVARIANTS LockedAfterMax
