---------------------------- MODULE AuthSessions ----------------------------
(***************************************************************************)
(* The refresh-token table of the banking backend and the HTTP requests    *)
(* that read and write it: login, refresh (rotation and reuse detection),  *)
(* logout, logout everywhere, password change, password reset and e-mail   *)
(* verification.                                                           *)
(*                                                                         *)
(* Every request owns one database session (get_db): its statements run in *)
(* one READ COMMITTED transaction, committed when the handler returns and  *)
(* rolled back when it raises.  A statement sees the rows committed when   *)
(* it starts; an UPDATE locks its rows until the transaction ends, and a   *)
(* bulk UPDATE evaluates its WHERE again on a row it had to wait for.      *)
(* Each action below is the code between two points at which another       *)
(* request can run.                                                        *)
(***************************************************************************)

CONSTANTS
    User, Token,
    Request,          \* request slots: how many requests may overlap
    Kinds,            \* the kinds of request that clients send
    NoToken, NoUser, NoRow, NoRequest

VARIABLES
    refresh_tokens,   \* committed rows of the table refresh_tokens
    active,           \* users whose committed status is ACTIVE
    reset,            \* users whose committed password_reset_token is set
    req,              \* what each request slot is doing, NOT yet committed
    (* What follows is observed by the properties, never read by a guard.  *)
    origin,           \* which token was rotated into this one, by which slot
    told,             \* tokens that a client was told are revoked
    warned,           \* families whose reuse was answered "invalidated"
    current           \* tokens whose login verified the present password

ghosts == <<origin, told, warned, current>>
vars == <<refresh_tokens, active, reset, req, origin, told, warned, current>>

(* A family is named by the token its login issued: both are fresh uuids.  *)
Row == [user : User, family : Token, is_revoked : BOOLEAN]
Op == {"none", "login", "refresh", "reuse", "logout", "logout_all",
       "change", "reset"}
Pc == {"idle", "issue", "revoke", "hash", "scan", "sweep", "commit"}

ASSUME NoValuesAssumption ==
    /\ NoToken \notin Token
    /\ NoUser \notin User
    /\ NoRequest \notin Request
    /\ NoRow \notin Row

ASSUME KindsAssumption == Kinds \subseteq Op \ {"none"}

RequestState ==
    [op : Op, pc : Pc,
     user : User \cup {NoUser},
     token : Token \cup {NoToken},    \* the token the client presented
     new : Token \cup {NoToken},      \* the token the handler will insert
     fresh : BOOLEAN,                 \* verified the present password
     todo : SUBSET Token,             \* rows the bulk UPDATE has yet to visit
     revoked : SUBSET Token,          \* rows updated, and locked, so far
     start : SUBSET Token]            \* the user's rows when it arrived

IdleRequest == [op |-> "none", pc |-> "idle", user |-> NoUser,
                token |-> NoToken, new |-> NoToken, fresh |-> FALSE,
                todo |-> {}, revoked |-> {}, start |-> {}]

Issued == {t \in Token : refresh_tokens[t] # NoRow}
Live == {t \in Issued : ~refresh_tokens[t].is_revoked}
IssuedTo(u) == {t \in Issued : refresh_tokens[t].user = u}
LiveOf(u) == Live \cap IssuedTo(u)
FamilyOf(t) == {s \in Issued :
                    refresh_tokens[s].family = refresh_tokens[t].family}

(* Row locks: a row stays locked by the transaction that updated it.       *)
TokenFree(r, t) == \A q \in Request \ {r} : t \notin req[q].revoked
HoldsUser(q, u) == /\ req[q].user = u
                   /\ req[q].op \in {"change", "reset"}
                   /\ req[q].pc \in {"scan", "sweep", "commit"}
UserFree(r, u) == \A q \in Request \ {r} : ~HoldsUser(q, u)

(* jti is a uuid4: no row and no running request has the same token.       *)
Unused(n) == n \notin Issued /\ \A q \in Request : req[q].new # n

Idle(r) == req[r].pc = "idle"

Init ==
    /\ refresh_tokens = [t \in Token |-> NoRow]
    /\ active \in SUBSET User
    /\ reset = {}
    /\ req = [r \in Request |-> IdleRequest]
    /\ origin = [t \in Token |-> [parent |-> NoToken, by |-> NoRequest]]
    /\ told = {}
    /\ warned = {}
    /\ current = {}

-----------------------------------------------------------------------------
(* First statement of each request.                                        *)

(* authenticate_user reads the user and verifies the password it read.     *)
LoginRead(r, u, n) ==
    /\ Idle(r)
    /\ Unused(n)
    /\ req' = [req EXCEPT ![r] = [IdleRequest EXCEPT
                   !.op = "login", !.pc = "issue", !.user = u, !.new = n,
                   !.fresh = TRUE]]
    /\ UNCHANGED <<refresh_tokens, active, reset, ghosts>>

(* Mutant: the is_revoked test of refresh_tokens is gone.                  *)
RefreshReadUnchecked(r, t, n) ==
    /\ Idle(r)
    /\ t \in Issued
    /\ refresh_tokens[t].user \in active
    /\ Unused(n)
    /\ req' = [req EXCEPT ![r] = [IdleRequest EXCEPT
                   !.op = "refresh", !.pc = "revoke", !.token = t, !.new = n,
                   !.user = refresh_tokens[t].user, !.fresh = t \in current]]
    /\ UNCHANGED <<refresh_tokens, active, reset, ghosts>>

(* refresh_tokens reads a row that is not revoked and an ACTIVE user.      *)
RefreshRead(r, t, n) ==
    /\ Idle(r)
    /\ t \in Live
    /\ refresh_tokens[t].user \in active
    /\ Unused(n)
    /\ req' = [req EXCEPT ![r] = [IdleRequest EXCEPT
                   !.op = "refresh", !.pc = "revoke", !.token = t, !.new = n,
                   !.user = refresh_tokens[t].user, !.fresh = t \in current]]
    /\ UNCHANGED <<refresh_tokens, active, reset, ghosts>>

(* refresh_tokens reads a revoked row: revoke_family starts its UPDATE.    *)
ReuseRead(r, t) ==
    /\ Idle(r)
    /\ t \in Issued \ Live
    /\ req' = [req EXCEPT ![r] = [IdleRequest EXCEPT
                   !.op = "reuse", !.pc = "sweep", !.token = t,
                   !.user = refresh_tokens[t].user, !.todo = FamilyOf(t)]]
    /\ UNCHANGED <<refresh_tokens, active, reset, ghosts>>

(* logout revokes the presented token only if the caller owns it.          *)
LogoutRead(r, u, t) ==
    /\ Idle(r)
    /\ u \in active
    /\ t \in IssuedTo(u)
    /\ req' = [req EXCEPT ![r] = [IdleRequest EXCEPT
                   !.op = "logout", !.pc = "revoke", !.user = u, !.token = t,
                   !.start = {t}]]
    /\ UNCHANGED <<refresh_tokens, active, reset, ghosts>>

(* logout_everywhere: revoke_all_for_user is its first statement.          *)
LogoutAllRead(r, u) ==
    /\ Idle(r)
    /\ u \in active
    /\ req' = [req EXCEPT ![r] = [IdleRequest EXCEPT
                   !.op = "logout_all", !.pc = "sweep", !.user = u,
                   !.todo = LiveOf(u), !.start = IssuedTo(u)]]
    /\ UNCHANGED <<refresh_tokens, active, reset, ghosts>>

(* change_password reads the user and verifies the current password.       *)
ChangeRead(r, u) ==
    /\ Idle(r)
    /\ u \in active
    /\ req' = [req EXCEPT ![r] = [IdleRequest EXCEPT
                   !.op = "change", !.pc = "hash", !.user = u,
                   !.start = IssuedTo(u)]]
    /\ UNCHANGED <<refresh_tokens, active, reset, ghosts>>

(* complete_password_reset finds the user by an unexpired reset token.     *)
ResetRead(r, u) ==
    /\ Idle(r)
    /\ u \in reset
    /\ req' = [req EXCEPT ![r] = [IdleRequest EXCEPT
                   !.op = "reset", !.pc = "hash", !.user = u,
                   !.start = IssuedTo(u)]]
    /\ UNCHANGED <<refresh_tokens, active, reset, ghosts>>

-----------------------------------------------------------------------------
(* Later statements of a request.                                          *)

(* Mutant: the new token is issued without revoking the old one.           *)
RevokeTokenForgotten(r) ==
    /\ req[r].pc = "revoke"
    /\ TokenFree(r, req[r].token)
    /\ req' = [req EXCEPT ![r].pc = "commit"]
    /\ UNCHANGED <<refresh_tokens, active, reset, ghosts>>

(* revoke_token: UPDATE ... WHERE id, which no longer looks at is_revoked. *)
RevokeToken(r) ==
    /\ req[r].pc = "revoke"
    /\ TokenFree(r, req[r].token)
    /\ req' = [req EXCEPT ![r].pc = "commit",
                          ![r].revoked = {req[r].token}]
    /\ UNCHANGED <<refresh_tokens, active, reset, ghosts>>

(* Mutant: change_password does not go on to revoke_all_for_user.          *)
UpdatePasswordOnly(r) ==
    /\ req[r].pc = "hash"
    /\ UserFree(r, req[r].user)
    /\ req' = [req EXCEPT ![r].pc = "sweep"]
    /\ UNCHANGED <<refresh_tokens, active, reset, ghosts>>

(* update_password, after the await on the password hash.                  *)
UpdatePassword(r) ==
    /\ req[r].pc = "hash"
    /\ UserFree(r, req[r].user)
    /\ req' = [req EXCEPT ![r].pc = "scan"]
    /\ UNCHANGED <<refresh_tokens, active, reset, ghosts>>

(* revoke_all_for_user: the rows its UPDATE will visit.                    *)
RevokeAllScan(r) ==
    /\ req[r].pc = "scan"
    /\ req' = [req EXCEPT ![r].pc = "sweep",
                          ![r].todo = LiveOf(req[r].user)]
    /\ UNCHANGED <<refresh_tokens, active, reset, ghosts>>

(* Mutant: the bulk UPDATE skips the rows that are locked.                 *)
SweepRowSkipLocked(r, t) ==
    /\ req[r].pc = "sweep"
    /\ t \in req[r].todo
    /\ req' = [req EXCEPT
                 ![r].todo = @ \ {t},
                 ![r].revoked = IF TokenFree(r, t) THEN @ \cup {t} ELSE @]
    /\ UNCHANGED <<refresh_tokens, active, reset, ghosts>>

(* A bulk UPDATE reaches a row, once no other transaction holds its lock.  *)
(* revoke_all_for_user asks again whether the row is unrevoked,            *)
(* revoke_family does not.                                                 *)
SweepRow(r, t) ==
    /\ req[r].pc = "sweep"
    /\ t \in req[r].todo
    /\ TokenFree(r, t)
    /\ LET hit == req[r].op = "reuse" \/ t \in Live
       IN  req' = [req EXCEPT
                     ![r].todo = @ \ {t},
                     ![r].revoked = IF hit THEN @ \cup {t} ELSE @]
    /\ UNCHANGED <<refresh_tokens, active, reset, ghosts>>

SweepDone(r) == req[r].pc = "sweep" /\ req[r].todo = {}

-----------------------------------------------------------------------------
(* The end of a request: get_db commits or rolls back.                     *)

(* The committed table after r's updates, and with row if it inserts one.  *)
Updated(r) ==
    [t \in Token |-> IF t \in req[r].revoked
                     THEN [refresh_tokens[t] EXCEPT !.is_revoked = TRUE]
                     ELSE refresh_tokens[t]]
(* Mutant: create_token does not receive the family.                       *)
InsertedNoFamily(r, family) ==
    [Updated(r) EXCEPT ![req[r].new] =
        [user |-> req[r].user, family |-> NoToken, is_revoked |-> FALSE]]
(* Mutant: create_token starts a new family for a rotated token.           *)
InsertedOwnFamily(r, family) ==
    [Updated(r) EXCEPT ![req[r].new] =
        [user |-> req[r].user, family |-> req[r].new, is_revoked |-> FALSE]]
Inserted(r, family) ==
    [Updated(r) EXCEPT ![req[r].new] =
        [user |-> req[r].user, family |-> family, is_revoked |-> FALSE]]
Reissued(r, parent) ==
    /\ origin' = [origin EXCEPT ![req[r].new] =
                                    [parent |-> parent, by |-> r]]
    /\ current' = IF req[r].fresh THEN current \cup {req[r].new} ELSE current

(* Mutant: the session is left open, with its row locks.                   *)
EndRequestLeaky(r) ==
    req' = [req EXCEPT ![r] = [IdleRequest EXCEPT !.revoked = req[r].revoked]]

EndRequest(r) == req' = [req EXCEPT ![r] = IdleRequest]

(* create_token with a new family, update_last_login (which waits for the  *)
(* users row), commit.                                                     *)
LoginCommit(r) ==
    /\ req[r].pc = "issue"
    /\ UserFree(r, req[r].user)
    /\ refresh_tokens' = Inserted(r, req[r].new)
    /\ Reissued(r, NoToken)
    /\ EndRequest(r)
    /\ UNCHANGED <<active, reset, told, warned>>

(* create_token in the family of the presented token, commit.              *)
RefreshCommit(r) ==
    /\ req[r].pc = "commit"
    /\ req[r].op = "refresh"
    /\ refresh_tokens' = Inserted(r, refresh_tokens[req[r].token].family)
    /\ Reissued(r, req[r].token)
    /\ EndRequest(r)
    /\ UNCHANGED <<active, reset, told, warned>>

LogoutCommit(r) ==
    /\ \/ req[r].op = "logout" /\ req[r].pc = "commit"
       \/ req[r].op = "logout_all" /\ SweepDone(r)
    /\ refresh_tokens' = Updated(r)
    /\ told' = told \cup req[r].start
    /\ EndRequest(r)
    /\ UNCHANGED <<active, reset, origin, warned, current>>

(* The new hash becomes visible, the reset token is cleared.               *)
PasswordCommit(r) ==
    /\ req[r].op \in {"change", "reset"}
    /\ SweepDone(r)
    /\ refresh_tokens' = Updated(r)
    /\ reset' = reset \ {req[r].user}
    /\ told' = told \cup req[r].start
    /\ current' = current \ IssuedTo(req[r].user)
    /\ req' = [q \in Request |->
                 IF q = r THEN IdleRequest
                 ELSE IF req[q].user = req[r].user
                      THEN [req[q] EXCEPT !.fresh = FALSE]
                      ELSE req[q]]
    /\ UNCHANGED <<active, origin, warned>>

(* After revoke_family and the audit row the handler raises 401, so get_db *)
(* rolls both back.                                                        *)
ReuseRaise(r) ==
    /\ req[r].op = "reuse"
    /\ SweepDone(r)
    /\ warned' = warned \cup {refresh_tokens[req[r].token].family}
    /\ EndRequest(r)
    /\ UNCHANGED <<refresh_tokens, active, reset, origin, told, current>>

(* Any other exception, a lost connection or a crash: nothing is kept.     *)
Abort(r) ==
    /\ ~Idle(r)
    /\ EndRequest(r)
    /\ UNCHANGED <<refresh_tokens, active, reset, ghosts>>

(* Requests whose only write is one UPDATE of the users row.               *)
VerifyEmail(u) ==
    /\ u \notin active
    /\ UserFree(NoRequest, u)
    /\ active' = active \cup {u}
    /\ UNCHANGED <<refresh_tokens, reset, req, ghosts>>

RequestReset(u) ==
    /\ UserFree(NoRequest, u)
    /\ reset' = reset \cup {u}
    /\ UNCHANGED <<refresh_tokens, active, req, ghosts>>

-----------------------------------------------------------------------------
Arrive(r) ==
    \/ "login" \in Kinds /\ \E u \in User, n \in Token : LoginRead(r, u, n)
    \/ "refresh" \in Kinds /\ \E t, n \in Token : RefreshRead(r, t, n)
    \/ "reuse" \in Kinds /\ \E t \in Token : ReuseRead(r, t)
    \/ "logout" \in Kinds /\ \E u \in User, t \in Token : LogoutRead(r, u, t)
    \/ "logout_all" \in Kinds /\ \E u \in User : LogoutAllRead(r, u)
    \/ "change" \in Kinds /\ \E u \in User : ChangeRead(r, u)
    \/ "reset" \in Kinds /\ \E u \in User : ResetRead(r, u)

Proceed(r) ==
    \/ RevokeToken(r)
    \/ UpdatePassword(r)
    \/ RevokeAllScan(r)
    \/ \E t \in Token : SweepRow(r, t)
    \/ LoginCommit(r)
    \/ RefreshCommit(r)
    \/ LogoutCommit(r)
    \/ PasswordCommit(r)
    \/ ReuseRaise(r)

Next ==
    \/ \E r \in Request : Arrive(r) \/ Proceed(r) \/ Abort(r)
    \/ \E u \in User : VerifyEmail(u) \/ RequestReset(u)

Spec == Init /\ [][Next]_vars

(* Requests that wait for each other's row locks.                          *)
Holders(r) ==
    {q \in Request \ {r} :
        \/ req[r].pc = "revoke" /\ req[r].token \in req[q].revoked
        \/ req[r].pc = "sweep" /\ req[r].todo \cap req[q].revoked # {}
        \/ req[r].pc \in {"hash", "issue"} /\ HoldsUser(q, req[r].user)}
Deadlocked(r) ==
    \E S \in SUBSET Request :
        r \in S /\ \A q \in S : Holders(q) \cap S # {}

(* PostgreSQL hands a row lock to its waiters in turn, and aborts one of a *)
(* circle of waiters; the event loop resumes every coroutine.  No request  *)
(* has to arrive.                                                          *)
Fairness ==
    \A r \in Request : /\ SF_vars(Proceed(r))
                       /\ WF_vars(Deadlocked(r) /\ Abort(r))

FairSpec == Spec /\ Fairness

-----------------------------------------------------------------------------
(* Properties.                                                             *)

(* The table, the requests and the observations have the shape of their    *)
(* models (RefreshToken, the local state of each handler).                 *)
TypeOK ==
    /\ refresh_tokens \in [Token -> Row \cup {NoRow}]
    /\ active \subseteq User
    /\ reset \subseteq User
    /\ req \in [Request -> RequestState]
    /\ origin \in [Token -> [parent : Token \cup {NoToken},
                             by : Request \cup {NoRequest}]]
    /\ told \subseteq Token
    /\ warned \subseteq Token
    /\ current \subseteq Token

(* A rotation is all or nothing: a token that was issued for a presented   *)
(* one is in the table only if the presented one is revoked there,         *)
(* whatever ran or died in between (refresh_tokens, get_db).               *)
RotationAtomic ==
    \A n \in Issued : origin[n].parent # NoToken =>
        origin[n].parent \in Issued \ Live

(* Overlap is the only way round reuse detection: one request slot never   *)
(* rotates the same token twice, so the successors of a token are at most  *)
(* as many as the requests that overlapped (is_revoked test of             *)
(* refresh_tokens).                                                        *)
RotatedOncePerSlot ==
    \A m, n \in Issued :
        (m # n /\ origin[m].parent = origin[n].parent
               /\ origin[n].parent # NoToken) => origin[m].by # origin[n].by

(* Every token a client was told is dead stays dead: the presented one     *)
(* after a logout, and every one the user had when a logout everywhere, a  *)
(* password change or a password reset arrived, also those it had to wait  *)
(* for (revoke_token, revoke_all_for_user).                                *)
ToldRevoked == told \subseteq Issued \ Live

(* Seen from outside, each request is one step of SessionBook.             *)
Book == INSTANCE SessionBook WITH book <- refresh_tokens
ImplementsBook == Book!BookSpec

(* A family has at most one token that can be used, when requests do not   *)
(* overlap (refresh_tokens revokes before it issues).                      *)
OneLivePerFamily ==
    \A s, t \in Live :
        refresh_tokens[s].family = refresh_tokens[t].family => s = t

(* A token whose login verified a password that is no longer the user's is *)
(* revoked ("All active sessions have been revoked").                      *)
NoSessionOutlivesPassword == Live \subseteq current

(* Once the reuse of a token was answered "Session invalidated due to      *)
(* suspicious activity", no token of its family is live.                   *)
ReuseInvalidatesFamily ==
    \A t \in Live : refresh_tokens[t].family \notin warned

(* Every request ends: row locks do not keep it for ever (UPDATE order of  *)
(* the handlers, get_db's finally).                                        *)
EveryRequestEnds == \A r \in Request : ~Idle(r) ~> Idle(r)

=============================================================================
