SPECIFICATION MCSpec
CONSTANTS
    User = {u1}
    Token = {t1,t2,t3}
    Request = {r1, r2}
    Kinds = {"login", "refresh", "reuse", "logout_all", "change"}
    NoToken = NoToken
    NoUser = NoUser
    NoRow = NoRow
    NoRequest = NoRequest
SYMMETRY Symmetry
INVARIANTS RotationAtomic RotatedOncePerSlot ToldRevoked SerialFamilies SerialPasswords
PROPERTIES ImplementsBook
CHECK_DEADLOCK FALSE
