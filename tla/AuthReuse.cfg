SPECIFICATION MCSpec
CONSTANTS
  User = {u1}
  Token = {t1, t2}
  Request = {r1}
  Kinds = {"login", "refresh", "reuse"}
  NoToken = NoToken
  NoUser = NoUser
  NoRow = NoRow
  NoRequest = NoRequest
INVARIANT ReuseInvalidatesFamily
CHECK_DEADLOCK FALSE
