---------------------------- MODULE SessionBook -----------------------------
(***************************************************************************)
(* What the refresh-token table promises, whatever the requests that use   *)
(* it do in between: a session is opened, or handed over whole from a      *)
(* token to its successor, or some sessions of one user are closed.        *)
(* Nothing is ever reopened, and no row changes user or family.            *)
(***************************************************************************)

CONSTANTS User, Token, NoRow

VARIABLE book

Entered == {t \in Token : book[t] # NoRow}

BookInit == book = [t \in Token |-> NoRow]

(* A login starts a family.                                                *)
Open(u, n) ==
    /\ n \notin Entered
    /\ book' = [book EXCEPT ![n] = [user |-> u, family |-> n,
                                    is_revoked |-> FALSE]]

(* A rotation revokes t and enters n for the same user and family, at once.*)
HandOver(t, n) ==
    /\ t \in Entered
    /\ n \notin Entered
    /\ book' = [book EXCEPT
                  ![t] = [@ EXCEPT !.is_revoked = TRUE],
                  ![n] = [user |-> book[t].user, family |-> book[t].family,
                          is_revoked |-> FALSE]]

(* A logout or a change of password revokes rows of one user.              *)
Close(u, S) ==
    /\ \A t \in S : t \in Entered /\ book[t].user = u
    /\ book' = [t \in Token |-> IF t \in S
                                THEN [book[t] EXCEPT !.is_revoked = TRUE]
                                ELSE book[t]]

BookNext ==
    \/ \E u \in User, n \in Token : Open(u, n)
    \/ \E t, n \in Token : HandOver(t, n)
    \/ \E u \in User, S \in SUBSET Token : Close(u, S)

BookSpec == BookInit /\ [][BookNext]_book

=============================================================================
