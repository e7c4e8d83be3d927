--------------------------- MODULE MCAuthSessions ---------------------------
(* Small instances of AuthSessions for TLC.  The history variable          *)
(* overlapped tells the runs in which no two requests were ever under way  *)
(* together; the specification is otherwise that of AuthSessions.  Tokens  *)
(* are uuids, users and request slots are alike.                           *)
EXTENDS AuthSessions, TLC

VARIABLE overlapped
mcvars == <<vars, overlapped>>

Overlap == \E q, r \in Request : q # r /\ ~Idle(q) /\ ~Idle(r)
MCInit == Init /\ overlapped = FALSE
MCNext == Next /\ overlapped' = (overlapped \/ Overlap')
MCSpec == MCInit /\ [][MCNext]_mcvars
MCFairSpec == MCSpec /\ Fairness

Symmetry == Permutations(Token) \cup Permutations(Request)
                \cup Permutations(User)

(* One request at a time, a family has at most one usable token, also      *)
(* after reuses, aborts and revocations: every exception to                *)
(* OneLivePerFamily is due to overlap (refresh_tokens).                    *)
SerialFamilies == ~overlapped => OneLivePerFamily

(* One request at a time, a password change or reset ends every session    *)
(* that was opened with the old password, those of rotated tokens too:     *)
(* every exception to NoSessionOutlivesPassword is due to overlap          *)
(* (change_password, complete_password_reset).                             *)
SerialPasswords == ~overlapped => NoSessionOutlivesPassword

=============================================================================
