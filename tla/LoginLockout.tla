---------------------------- MODULE LoginLockout ----------------------------
(***************************************************************************)
(* Brute-force protection of the login: the failure counter and the lock   *)
(* that authenticate_user keeps in Redis for every client address, and the *)
(* counter and the lock it keeps in the users table for every account.     *)
(*                                                                         *)
(* Redis commands take effect one by one, at once and for good.  The       *)
(* writes to users belong to the transaction of the request (get_db): the  *)
(* row stays locked until it ends, and a handler that raises rolls back.   *)
(* Every attempt is suspended at each Redis command and each statement.    *)
(***************************************************************************)
EXTENDS Naturals, FiniteSets

CONSTANTS
    Ip, User,
    Attempt,       \* request slots: how many logins may overlap
    RateLimit,     \* settings.auth.login_rate_limit
    MaxFailed,     \* settings.auth.max_failed_attempts
    MaxCount,      \* bound on the counts of an address, for TLC
    NoIp, NoUser

VARIABLES
    ip_fail,       \* Redis: the counter of each address, and if it has a TTL
    ip_lock,       \* Redis: the addresses that are locked
    outlives,      \* locks set while the counter of their address was there
    failed,        \* committed users.failed_login_attempts
    locked,        \* users with a committed locked_until to come
    att,           \* what each attempt is doing
    (* Observed by the properties only.                                    *)
    died,          \* addresses of attempts that broke off half way
    lifted,        \* addresses whose lock went while they had a counter
    failures,      \* wrong logins of an address in this window, since the
                   \* last login that was committed
    undone,        \* addresses cleared by a login that was rolled back
    missed         \* wrong passwords of a user since its last login

redis == <<ip_fail, ip_lock, outlives>>
users == <<failed, locked>>
tallies == <<failures, undone, missed>>
vars == <<redis, users, att, died, lifted, tallies>>

ASSUME LockoutAssumption ==
    /\ RateLimit \in Nat \ {0}
    /\ MaxFailed \in Nat \ {0}
    /\ MaxCount \in Nat
    /\ NoIp \notin Ip
    /\ NoUser \notin User

Counter == [count : Nat, ttl : BOOLEAN]
Absent == [count |-> 0, ttl |-> FALSE]

Pc == {"idle", "check", "lookup", "select", "update", "incr", "expire",
       "setlock", "lockaccount", "raise", "store", "clear", "unlock",
       "commit"}
(* What the transaction of an attempt has written to its users row: the    *)
(* count of increment_failed_attempts, the lock of lock_account as well,   *)
(* or the columns of update_last_login.                                    *)
Writes == {"none", "count", "lock", "login"}
AttemptState == [pc : Pc, ip : Ip \cup {NoIp}, user : User \cup {NoUser},
                 seen : Nat,      \* failed_login_attempts it will write
                 count : Nat,     \* what INCR answered
                 writes : Writes]
IdleAttempt == [pc |-> "idle", ip |-> NoIp, user |-> NoUser,
                seen |-> 0, count |-> 0, writes |-> "none"]

Init ==
    /\ ip_fail = [i \in Ip |-> Absent]
    /\ ip_lock = {}
    /\ outlives = {}
    /\ failed = [u \in User |-> 0]
    /\ locked = {}
    /\ att = [a \in Attempt |-> IdleAttempt]
    /\ died = {}
    /\ lifted = {}
    /\ failures = [i \in Ip |-> 0]
    /\ undone = {}
    /\ missed = [u \in User |-> 0]

(* The users row is locked from the UPDATE to the end of the transaction.  *)
HoldsUser(a, u) == att[a].user = u /\ att[a].writes # "none"
UserFree(a) == \A b \in Attempt \ {a} : ~HoldsUser(b, att[a].user)

DropCounter(i) ==
    /\ ip_fail' = [ip_fail EXCEPT ![i] = Absent]
    /\ outlives' = outlives \ {i}
    /\ lifted' = lifted \ {i}

DropLock(i) ==
    /\ ip_lock' = ip_lock \ {i}
    /\ outlives' = outlives \ {i}
    /\ lifted' = IF i \in ip_lock /\ ip_fail[i].count > 0
                 THEN lifted \cup {i} ELSE lifted

Goto(a, pc) == att' = [att EXCEPT ![a].pc = pc]
Wrote(a, writes, pc) ==
    att' = [att EXCEPT ![a].writes = writes, ![a].pc = pc]
End(a) == att' = [att EXCEPT ![a] = IdleAttempt]

(* get_db: what the request wrote is committed when its handler returns,   *)
(* and rolled back when it raises.                                         *)
GetDb(a, raised) ==
    LET u == att[a].user
        writes == IF raised THEN "none" ELSE att[a].writes
    IN  /\ failed' = CASE writes \in {"count", "lock"} ->
                            [failed EXCEPT ![u] = att[a].seen]
                        [] writes = "login" -> [failed EXCEPT ![u] = 0]
                        [] OTHER -> failed
        /\ locked' = CASE writes = "lock" -> locked \cup {u}
                        [] writes = "login" -> locked \ {u}
                        [] OTHER -> locked
        /\ End(a)

AtMost(n, bound) == IF n < bound THEN n ELSE bound

-----------------------------------------------------------------------------
Arrive(a, i) ==
    /\ att[a].pc = "idle"
    /\ att' = [att EXCEPT ![a].pc = "check", ![a].ip = i]
    /\ UNCHANGED <<redis, users, died, lifted, tallies>>

(* _check_ip_lockout: a locked address is refused before anything else.    *)
CheckIpLockout(a) ==
    /\ att[a].pc = "check"
    /\ IF att[a].ip \in ip_lock THEN End(a) ELSE Goto(a, "lookup")
    /\ UNCHANGED <<redis, users, died, lifted, tallies>>

(* No account with this address, or a suspended one.                       *)
UnknownEmail(a) ==
    /\ att[a].pc = "lookup"
    /\ Goto(a, "incr")
    /\ UNCHANGED <<redis, users, died, lifted, tallies>>

(* The account is read, is_locked tested, the password verified.           *)
VerifyPassword(a, u, is_valid) ==
    /\ att[a].pc = "lookup"
    /\ att' = [att EXCEPT
                 ![a].user = u,
                 ![a].pc = IF u \in locked THEN "raise"
                           ELSE IF is_valid THEN "store" ELSE "select"]
    /\ UNCHANGED <<redis, users, died, lifted, tallies>>

(* Mutant: the stored count goes down towards zero remaining attempts.     *)
SelectFailedDown(a) ==
    /\ att[a].pc = "select"
    /\ att' = [att EXCEPT ![a].pc = "update",
                          ![a].seen = failed[att[a].user] - 1]
    /\ UNCHANGED <<redis, users, died, lifted, tallies>>

(* increment_failed_attempts: SELECT, then UPDATE with what it read.       *)
SelectFailed(a) ==
    /\ att[a].pc = "select"
    /\ att' = [att EXCEPT ![a].pc = "update",
                          ![a].seen = failed[att[a].user] + 1]
    /\ UNCHANGED <<redis, users, died, lifted, tallies>>

UpdateFailed(a) ==
    /\ att[a].pc = "update"
    /\ UserFree(a)
    /\ Wrote(a, "count", "incr")
    /\ UNCHANGED <<redis, users, died, lifted, tallies>>

(* The count that the failure was given locks the account, from MaxFailed  *)
(* on; an unknown address or a suspended account has none.                 *)
AfterRedis(a) == IF att[a].seen >= MaxFailed THEN "lockaccount" ELSE "raise"

(* _record_failed_ip_attempt: INCR, EXPIRE after the first, SET NX EX.     *)
(* Mutant: the lock is set one failure late.                               *)
AfterCountLate(a, n) == IF n > RateLimit THEN "setlock" ELSE AfterRedis(a)
AfterCount(a, n) == IF n >= RateLimit THEN "setlock" ELSE AfterRedis(a)

(* Mutant: the TTL is set when INCR answers 0, which it never does.        *)
IncrementNoTtl(a) ==
    /\ att[a].pc = "incr"
    /\ LET n == ip_fail[att[a].ip].count + 1
       IN  /\ n <= MaxCount
           /\ ip_fail' = [ip_fail EXCEPT ![att[a].ip].count = n]
           /\ att' = [att EXCEPT ![a].count = n,
                                 ![a].pc = IF n = 0 THEN "expire"
                                           ELSE AfterCount(a, n)]
    /\ failures' = [failures EXCEPT ![att[a].ip] = AtMost(@ + 1, MaxCount)]
    /\ UNCHANGED <<ip_lock, outlives, users, died, lifted, undone, missed>>

Increment(a) ==
    /\ att[a].pc = "incr"
    /\ LET n == ip_fail[att[a].ip].count + 1
       IN  /\ n <= MaxCount
           /\ ip_fail' = [ip_fail EXCEPT ![att[a].ip].count = n]
           /\ att' = [att EXCEPT ![a].count = n,
                                 ![a].pc = IF n = 1 THEN "expire"
                                           ELSE AfterCount(a, n)]
    /\ failures' = [failures EXCEPT ![att[a].ip] = AtMost(@ + 1, MaxCount)]
    /\ UNCHANGED <<ip_lock, outlives, users, died, lifted, undone, missed>>

(* Mutant: EXPIRE is sent without the prefix of the cache, to another key. *)
ExpireOtherKey(a) ==
    /\ att[a].pc = "expire"
    /\ Goto(a, AfterCount(a, att[a].count))
    /\ UNCHANGED <<redis, users, died, lifted, tallies>>

(* EXPIRE does nothing to a key that was deleted meanwhile.                *)
Expire(a) ==
    /\ att[a].pc = "expire"
    /\ ip_fail' = [ip_fail EXCEPT ![att[a].ip].ttl = @ \/
                                      ip_fail[att[a].ip].count > 0]
    /\ Goto(a, AfterCount(a, att[a].count))
    /\ UNCHANGED <<ip_lock, outlives, users, died, lifted, tallies>>

(* Mutant: the counter starts anew when the address is locked.             *)
SetLockAnew(a) ==
    /\ att[a].pc = "setlock"
    /\ ip_lock' = ip_lock \cup {att[a].ip}
    /\ DropCounter(att[a].ip)
    /\ Goto(a, AfterRedis(a))
    /\ UNCHANGED <<users, died, tallies>>

(* SET NX: a lock that is there keeps its own TTL.                         *)
SetLock(a) ==
    /\ att[a].pc = "setlock"
    /\ ip_lock' = ip_lock \cup {att[a].ip}
    /\ outlives' = IF att[a].ip \notin ip_lock /\ ip_fail[att[a].ip].count > 0
                   THEN outlives \cup {att[a].ip} ELSE outlives
    /\ Goto(a, AfterRedis(a))
    /\ UNCHANGED <<ip_fail, users, died, lifted, tallies>>

(* "Lock after max attempts": the row is held since UpdateFailed.          *)
LockAccount(a) ==
    /\ att[a].pc = "lockaccount"
    /\ Wrote(a, "lock", "raise")
    /\ UNCHANGED <<redis, users, died, lifted, tallies>>

(* A refused login is answered by an exception, whatever it wrote.         *)
Raise(a) ==
    /\ att[a].pc = "raise"
    /\ GetDb(a, TRUE)
    /\ missed' = IF att[a].writes \in {"count", "lock"}
                 THEN [missed EXCEPT ![att[a].user] = AtMost(@ + 1, MaxFailed)]
                 ELSE missed
    /\ UNCHANGED <<redis, died, lifted, failures, undone>>

(* update_last_login, and the two DELETEs of _clear_ip_lockout.            *)
UpdateLastLogin(a) ==
    /\ att[a].pc = "store"
    /\ UserFree(a)
    /\ Wrote(a, "login", "clear")
    /\ UNCHANGED <<redis, users, died, lifted, tallies>>

ClearFail(a) ==
    /\ att[a].pc = "clear"
    /\ DropCounter(att[a].ip)
    /\ Goto(a, "unlock")
    /\ UNCHANGED <<ip_lock, users, died, tallies>>

ClearLock(a) ==
    /\ att[a].pc = "unlock"
    /\ DropLock(att[a].ip)
    /\ Goto(a, "commit")
    /\ UNCHANGED <<ip_fail, users, died, tallies>>

Commit(a) ==
    /\ att[a].pc = "commit"
    /\ GetDb(a, FALSE)
    /\ failures' = [failures EXCEPT ![att[a].ip] = 0]
    /\ undone' = undone \ {att[a].ip}
    /\ missed' = [missed EXCEPT ![att[a].user] = 0]
    /\ UNCHANGED <<redis, died, lifted>>

(* A Redis or database error, or a crash: the transaction is rolled back,  *)
(* and what Redis has, it keeps.                                           *)
Abort(a) ==
    /\ att[a].pc # "idle"
    /\ GetDb(a, TRUE)
    /\ died' = died \cup {att[a].ip}
    /\ undone' = IF att[a].pc \in {"unlock", "commit"}
                 THEN undone \cup {att[a].ip} ELSE undone
    /\ UNCHANGED <<redis, lifted, failures, missed>>

-----------------------------------------------------------------------------
(* The counter has a TTL, or its first attempt is about to set it.         *)
Expiring(i) ==
    \/ ip_fail[i].ttl
    \/ \E a \in Attempt : att[a].ip = i /\ att[a].pc = "expire"

(* Redis drops keys whose TTL has run out.  A lock (900 s) outlives the    *)
(* counter (300 s) that was there when it was set, as long as no attempt   *)
(* takes ten minutes from INCR to EXPIRE.                                  *)
CounterExpires(i) ==
    /\ ip_fail[i].ttl
    /\ DropCounter(i)
    /\ failures' = [failures EXCEPT ![i] = 0]
    /\ undone' = undone \ {i}
    /\ UNCHANGED <<ip_lock, users, att, died, missed>>

LockExpires(i) ==
    /\ i \in ip_lock
    /\ ~(i \in outlives /\ Expiring(i))
    /\ DropLock(i)
    /\ UNCHANGED <<ip_fail, users, att, died, tallies>>

Lookup(a) ==
    \/ UnknownEmail(a)
    \/ \E u \in User, is_valid \in BOOLEAN : VerifyPassword(a, u, is_valid)

Step(a) ==
    \/ CheckIpLockout(a)
    \/ Lookup(a)
    \/ SelectFailed(a)
    \/ UpdateFailed(a)
    \/ Increment(a)
    \/ Expire(a)
    \/ SetLock(a)
    \/ LockAccount(a)
    \/ Raise(a)
    \/ UpdateLastLogin(a)
    \/ ClearFail(a)
    \/ ClearLock(a)
    \/ Commit(a)

Next ==
    \/ \E a \in Attempt : (\E i \in Ip : Arrive(a, i)) \/ Step(a) \/ Abort(a)
    \/ \E i \in Ip : CounterExpires(i) \/ LockExpires(i)

Spec == Init /\ [][Next]_vars

(* The event loop resumes every attempt, and Redis expires its keys.       *)
Fairness ==
    /\ \A a \in Attempt : WF_vars(Step(a))
    /\ \A i \in Ip : WF_vars(CounterExpires(i)) /\ WF_vars(LockExpires(i))

FairSpec == Spec /\ Fairness

-----------------------------------------------------------------------------
(* Redis, the users table and the attempts have the shape of their models. *)
TypeOK ==
    /\ ip_fail \in [Ip -> Counter]
    /\ ip_lock \subseteq Ip
    /\ outlives \subseteq ip_lock
    /\ failed \in [User -> Nat]
    /\ locked \subseteq User
    /\ att \in [Attempt -> AttemptState]
    /\ died \subseteq Ip
    /\ lifted \subseteq Ip
    /\ failures \in [Ip -> Nat]
    /\ undone \subseteq Ip
    /\ missed \in [User -> Nat]

(* A counter without a TTL is one whose first attempt is about to set it,  *)
(* whatever other attempts count or clear in between; only an attempt that *)
(* breaks off leaves one behind (_record_failed_ip_attempt).               *)
TtlPending ==
    \A i \in Ip : ip_fail[i].count > 0 => Expiring(i) \/ i \in died

(* A counter at its limit has locked its address, or an attempt is about   *)
(* to.  The one way round, besides an attempt that breaks off: the lock    *)
(* was deleted by a login that succeeded meanwhile, or is older than the   *)
(* counter and not set anew (SET NX, _clear_ip_lockout).                   *)
LimitLocks ==
    \A i \in Ip : ip_fail[i].count >= RateLimit =>
        \/ i \in ip_lock \cup lifted \cup died
        \/ \E a \in Attempt : /\ att[a].ip = i
                             /\ att[a].count >= RateLimit
                             /\ att[a].pc \in {"expire", "setlock"}

(* A counter does not stay for ever: it counts the attempts of one window  *)
(* (login_rate_window), unless an attempt broke off.                       *)
CounterEnds ==
    \A i \in Ip : ip_fail[i].count > 0 ~> ip_fail[i].count = 0 \/ i \in died

(* Every wrong login counts: the counter of an address is never behind the *)
(* wrong logins of the window, but while a login that succeeded is about   *)
(* to commit, or after one that cleared it and was then rolled back, which *)
(* was no success (_clear_ip_lockout, get_db).                             *)
FailuresCounted ==
    \A i \in Ip : ip_fail[i].count < failures[i] =>
        \/ i \in undone
        \/ \E a \in Attempt : /\ att[a].ip = i
                             /\ att[a].pc \in {"unlock", "commit"}

(* "Lock after max attempts": an account is locked once as many passwords  *)
(* in a row were answered as wrong as the settings allow, for the time of  *)
(* lockout_duration_seconds, which nothing here lets pass                  *)
(* (authenticate_user, lock_account).                                      *)
LockedAfterMax ==
    \A u \in User : missed[u] >= MaxFailed => u \in locked

=============================================================================
