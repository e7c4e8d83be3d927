SPECIFICATION MCFairSpec
CONSTANTS
    User = {u1}
    Token = {t1, t2}
    Request = {r1, r2}
    Kinds = {"login", "refresh", "logout", "logout_all", "reset"}
    NoToken = NoToken
    NoUser = NoUser
    NoRow = NoRow
    NoRequest = NoRequest
PROPERTIES EveryRequestEnds
CHECK_DEADLOCK FALSE
