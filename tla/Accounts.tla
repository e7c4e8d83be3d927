------------------------------ MODULE Accounts ------------------------------
(***************************************************************************)
(* The life of an account: registration, e-mail verification, the password *)
(* reset link, the change of a password and the admission of a request.    *)
(*                                                                         *)
(* Each request reads the users row in one statement, acts on what it read *)
(* and writes in a later one (READ COMMITTED).  The INSERT or UPDATE locks *)
(* the row, or the e-mail address in its unique index, until get_db ends   *)
(* the transaction.  Every UPDATE names the row by its id and sets its     *)
(* columns whatever they have become since the SELECT.                     *)
(***************************************************************************)
EXTENDS Naturals, FiniteSets

CONSTANTS
    Email,
    Slot,          \* request slots: how many requests may overlap
    MaxToken,      \* bound on the reset tokens that are made
    NoEmail

VARIABLES
    row,           \* committed users row of each address
    slot,          \* what each request is doing
    issued,        \* reset tokens made so far: 1 .. issued
    (* Observed by the properties only.                                    *)
    registered,    \* registrations of each address that answered 201
    uses,          \* committed resets by each token (two are enough)
    shared,        \* tokens read while another reset by them was under way
    latest,        \* last committed reset link of each address, 0 if spent
    crossed,       \* links committed while a password update was under way
    revived,       \* suspensions that a verification ended (two are enough)
    doubled        \* accounts with two verifications under way at a time

history == <<registered, uses, shared, latest, crossed, revived, doubled>>
acvars == <<row, slot, issued, history>>

ASSUME AccountsAssumption ==
    /\ MaxToken \in Nat
    /\ NoEmail \notin Email

Op == {"register", "verify", "request", "reset", "change"}
PasswordOp == {"reset", "change"}
Status == {"PENDING_VERIFICATION", "ACTIVE", "SUSPENDED"}

(* link: the verification token is there.  live: the reset token is not    *)
(* past its hour.                                                          *)
Row == [there : BOOLEAN, status : Status, verified : BOOLEAN,
        link : BOOLEAN, reset : 0 .. MaxToken, live : BOOLEAN]
NoRow == [there |-> FALSE, status |-> "PENDING_VERIFICATION",
          verified |-> FALSE, link |-> FALSE, reset |-> 0, live |-> FALSE]

SlotState == [pc : {"idle", "read", "write", "commit"},
              op : Op, email : Email \cup {NoEmail},
              token : 0 .. MaxToken,      \* of the link, or the one made
              saw : 0 .. MaxToken]        \* latest link when it read
IdleSlot == [pc |-> "idle", op |-> "register", email |-> NoEmail,
             token |-> 0, saw |-> 0]

AccountsInit ==
    /\ row = [e \in Email |-> NoRow]
    /\ slot = [s \in Slot |-> IdleSlot]
    /\ issued = 0
    /\ registered = [e \in Email |-> 0]
    /\ uses = [t \in 1 .. MaxToken |-> 0]
    /\ shared = {}
    /\ latest = [e \in Email |-> 0]
    /\ crossed = {}
    /\ revived = [e \in Email |-> 0]
    /\ doubled = {}

Free(s) == \A q \in Slot \ {s} :
    ~(slot[q].pc = "commit" /\ slot[q].email = slot[s].email)

(* Requests of some of the operations that have read the row of e.         *)
UnderWay(e, ops) == {q \in Slot : /\ slot[q].pc \in {"write", "commit"}
                                  /\ slot[q].op \in ops
                                  /\ slot[q].email = e}

Quit(s) == slot' = [slot EXCEPT ![s] = IdleSlot]
GoOn(s, pc) == slot' = [slot EXCEPT ![s].pc = pc]
HasRead(s, e) == slot' = [slot EXCEPT ![s].pc = "write", ![s].email = e,
                                      ![s].saw = latest[e]]

-----------------------------------------------------------------------------
(* A reset names its account by a token that was made, the other requests  *)
(* by the address, the session or the verification link.                   *)
Send(s, op, e, t) ==
    /\ slot[s].pc = "idle"
    /\ IF op = "reset" THEN t \in 1 .. issued /\ e = NoEmail
                       ELSE t = 0 /\ e \in Email
    /\ slot' = [slot EXCEPT ![s] = [IdleSlot EXCEPT !.pc = "read", !.op = op,
                                                    !.email = e, !.token = t]]
    /\ UNCHANGED <<row, issued, history>>

(* email_exists, then the hash is computed in a thread.                    *)
EmailExists(s) ==
    /\ slot[s].pc = "read" /\ slot[s].op = "register"
    /\ IF row[slot[s].email].there THEN Quit(s) ELSE GoOn(s, "write")
    /\ UNCHANGED <<row, issued, history>>

(* verify_email goes on, or refuses the link.                              *)
Verification(s, good) ==
    LET e == slot[s].email
    IN  /\ slot[s].pc = "read" /\ slot[s].op = "verify"
        /\ IF good THEN GoOn(s, "write") ELSE Quit(s)
        /\ doubled' = IF good /\ UnderWay(e, {"verify"}) # {}
                      THEN doubled \cup {e} ELSE doubled
        /\ UNCHANGED <<row, issued, registered, uses, shared, latest, crossed,
                       revived>>

(* Mutant: the link is the address, and a spent one is as good.            *)
ReadAnyLink(s) == Verification(s, row[slot[s].email].there)

(* verify_email: the row with the link's token, not yet verified.          *)
ReadLink(s) == Verification(s, /\ row[slot[s].email].link
                               /\ ~row[slot[s].email].verified)

(* request_password_reset: the same answer whether the account is there.   *)
ReadForRequest(s) ==
    /\ slot[s].pc = "read" /\ slot[s].op = "request"
    /\ IF row[slot[s].email].there THEN GoOn(s, "write") ELSE Quit(s)
    /\ UNCHANGED <<row, issued, history>>

(* complete_password_reset: the row with this token, within its hour.      *)
ReadToken(s) ==
    /\ slot[s].pc = "read" /\ slot[s].op = "reset"
    /\ LET found == {e \in Email : /\ row[e].reset = slot[s].token
                                   /\ row[e].live}
       IN  \/ \E e \in found :
                /\ HasRead(s, e)
                /\ shared' = IF \E q \in UnderWay(e, {"reset"}) :
                                    slot[q].token = slot[s].token
                             THEN shared \cup {slot[s].token} ELSE shared
           \/ found = {} /\ Quit(s) /\ UNCHANGED shared
    /\ UNCHANGED <<row, issued, registered, uses, latest, crossed, revived,
                   doubled>>

(* get_current_active_user.  An account is locked by no committed          *)
(* transaction and deleted by none.                                        *)
Admitted(u) == u.there /\ u.status \notin {"SUSPENDED", "PENDING_VERIFICATION"}

ReadCurrentUser(s) ==
    /\ slot[s].pc = "read" /\ slot[s].op = "change"
    /\ LET e == slot[s].email
       IN  IF Admitted(row[e]) THEN HasRead(s, e) ELSE Quit(s)
    /\ UNCHANGED <<row, issued, history>>

(* Mutant: users.email has a plain index.                                  *)
InsertPlain(s) ==
    /\ slot[s].pc = "write" /\ slot[s].op = "register"
    /\ GoOn(s, "commit")
    /\ UNCHANGED <<row, issued, history>>

(* The INSERT waits for another of the address; the index refuses it then. *)
Insert(s) ==
    /\ slot[s].pc = "write" /\ slot[s].op = "register"
    /\ Free(s)
    /\ IF row[slot[s].email].there THEN Quit(s) ELSE GoOn(s, "commit")
    /\ UNCHANGED <<row, issued, history>>

(* The token of a request is made just before its UPDATE.                  *)
Update(s) ==
    /\ slot[s].pc = "write" /\ slot[s].op # "register"
    /\ Free(s)
    /\ IF slot[s].op = "request"
       THEN /\ issued < MaxToken
            /\ issued' = issued + 1
            /\ slot' = [slot EXCEPT ![s].pc = "commit", ![s].token = issued + 1]
       ELSE GoOn(s, "commit") /\ UNCHANGED issued
    /\ UNCHANGED <<row, history>>

Written(u, op, t) ==
    CASE op = "register" -> [NoRow EXCEPT !.there = TRUE, !.link = TRUE]
      [] op = "verify"   -> [u EXCEPT !.verified = TRUE, !.link = FALSE,
                                      !.status = "ACTIVE"]
      [] op = "request"  -> [u EXCEPT !.reset = t, !.live = TRUE]
      [] OTHER           -> [u EXCEPT !.reset = 0, !.live = FALSE]

(* Mutant: verify_email clears the columns of the reset too.               *)
WrittenVerifyClears(u, op, t) ==
    IF op = "verify" THEN [Written(u, op, t) EXCEPT !.reset = 0]
    ELSE Written(u, op, t)

(* Mutant: update_password leaves the columns of the reset alone.          *)
WrittenKeepsToken(u, op, t) ==
    IF op \in PasswordOp THEN u ELSE Written(u, op, t)

(* What the transaction leaves in the row: create, UserRepository's        *)
(* verify_email, the UPDATE of request_password_reset, update_password.    *)
RowAfter(u, op, t) == Written(u, op, t)

Conclude(s) ==
    LET op == slot[s].op
        e == slot[s].email
        t == slot[s].token
    IN  /\ slot[s].pc = "commit"
        /\ row' = [row EXCEPT ![e] = RowAfter(@, op, t)]
        /\ registered' = IF op = "register"
                         THEN [registered EXCEPT ![e] = @ + 1] ELSE registered
        /\ uses' = IF op = "reset" /\ uses[t] < 2
                   THEN [uses EXCEPT ![t] = @ + 1] ELSE uses
        /\ latest' =
              IF op = "request" THEN [latest EXCEPT ![e] = t]
              ELSE IF op \in PasswordOp /\ slot[s].saw = latest[e]
              THEN [latest EXCEPT ![e] = 0] ELSE latest
        /\ crossed' = IF op = "request" /\ UnderWay(e, PasswordOp) # {}
                      THEN crossed \cup {t} ELSE crossed
        /\ revived' = IF op = "verify" /\ row[e].status = "SUSPENDED"
                         /\ revived[e] < 2
                      THEN [revived EXCEPT ![e] = @ + 1] ELSE revived
        /\ Quit(s)
        /\ UNCHANGED <<issued, shared, doubled>>

(* The client goes away, the database or the process fails.                *)
RollBack(s) ==
    /\ slot[s].pc # "idle"
    /\ Quit(s)
    /\ UNCHANGED <<row, issued, history>>

-----------------------------------------------------------------------------
LinkExpires(e) ==
    /\ row[e].live
    /\ row' = [row EXCEPT ![e].live = FALSE]
    /\ UNCHANGED <<slot, issued, history>>

(* Staff suspend an account in the database: no route does.                *)
Suspend(e) ==
    /\ row[e].there /\ row[e].status # "SUSPENDED"
    /\ \A q \in Slot : ~(slot[q].pc = "commit" /\ slot[q].email = e)
    /\ row' = [row EXCEPT ![e].status = "SUSPENDED"]
    /\ UNCHANGED <<slot, issued, history>>

Read(s) ==
    \/ EmailExists(s)
    \/ ReadLink(s)
    \/ ReadForRequest(s)
    \/ ReadToken(s)
    \/ ReadCurrentUser(s)

AccountsNext ==
    \/ \E s \in Slot :
        \/ \E op \in Op, e \in Email \cup {NoEmail}, t \in 0 .. MaxToken :
               Send(s, op, e, t)
        \/ Read(s)
        \/ Insert(s)
        \/ Update(s)
        \/ Conclude(s)
        \/ RollBack(s)
    \/ \E e \in Email : LinkExpires(e) \/ Suspend(e)

AccountsSpec == AccountsInit /\ [][AccountsNext]_acvars

-----------------------------------------------------------------------------
AccountsTypeOK ==
    /\ row \in [Email -> Row]
    /\ slot \in [Slot -> SlotState]
    /\ issued \in 0 .. MaxToken
    /\ registered \in [Email -> Nat]
    /\ uses \in [1 .. MaxToken -> 0 .. 2]
    /\ shared \subseteq 1 .. MaxToken
    /\ latest \in [Email -> 0 .. MaxToken]
    /\ crossed \subseteq 1 .. MaxToken
    /\ revived \in [Email -> 0 .. 2]
    /\ doubled \subseteq Email

(* An address registers once: of two registrations that both found it free *)
(* (email_exists) one is answered 201, and that one has the account.       *)
RegisteredOnce ==
    \A e \in Email : registered[e] = IF row[e].there THEN 1 ELSE 0

(* A reset link changes the password once, unless two resets by it read    *)
(* the row before either committed (complete_password_reset).              *)
TokenUsedOnce ==
    \A t \in 1 .. MaxToken : uses[t] > 1 => t \in shared

(* The last reset link that was made for an account works until it is used *)
(* or the password changed by a request that came after it: nothing else   *)
(* takes it from the row, but a password update that had read the row      *)
(* before the link was committed (update_password, by id).                 *)
ResetLinkStands ==
    \A e \in Email : latest[e] \notin crossed \cup {0} =>
                     row[e].reset = latest[e]

(* verify_email sets ACTIVE whatever the status, so the registration link  *)
(* of an account that was suspended before it was ever verified ends the   *)
(* suspension.  It does so once: the next suspension stands, unless two    *)
(* verifications had both read the row before either committed.            *)
SuspensionLiftedOnce ==
    \A e \in Email : revived[e] > 1 => e \in doubled

=============================================================================
