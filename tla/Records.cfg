SPECIFICATION RecordsSpec
CONSTANTS
    Email = {e1}
    Slot = {s1, s2}
    MaxToken = 2
    NoEmail = NoEmail
    Tables = {"loan", "transaction"}
    Writer = {w1, w2}
    TicksPerDay = 2
    MaxTick = 2
    RowId = {r1, r2, r3}
    NoRowId = NoRowId
    MaxMessage = 4
    TokensUsed = {0, 2}
    Ip = {i1}
    User = {u1}
    Attempt = {a1, a2}
    RateLimit = 2
    MaxFailed = 1
    MaxCount = 4
    NoIp = NoIp
    NoUser = NoUser
INVARIANTS RegisteredOnce TokenUsedOnce ResetLinkStands SuspensionLiftedOnce
    NumbersDense AloneNeverRefused TotalsMatch
    TtlPending LimitLocks FailuresCounted
PROPERTIES CounterEnds
