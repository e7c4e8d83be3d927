----------------------------- MODULE MCRecords -----------------------------
(* The records of the database for TLC: the accounts, the numbered tables, *)
(* the totals of a chat session, and what a login counts.  No two of them  *)
(* share a column, so each behaviour looks at one of them and leaves the   *)
(* others as they are.                                                     *)
EXTENDS Accounts, Ledger, LoginLockout

VARIABLE part

RecordsInit ==
    /\ part \in {"accounts", "numbering", "chat", "lockout"}
    /\ AccountsInit
    /\ LedgerInit
    /\ Init
    /\ part # "numbering" => table = "loan"

RecordsNext ==
    /\ UNCHANGED part
    /\ \/ part = "accounts" /\ AccountsNext /\ UNCHANGED <<lgvars, vars>>
       \/ part = "numbering" /\ NumberingNext /\ UNCHANGED <<acvars, vars>>
       \/ part = "chat" /\ ChatNext /\ UNCHANGED <<acvars, vars>>
       \/ part = "lockout" /\ Next /\ UNCHANGED <<acvars, lgvars>>

(* Fairness asks for nothing where no login is under way.                  *)
RecordsSpec ==
    /\ RecordsInit
    /\ [][RecordsNext]_<<part, acvars, lgvars, vars>>
    /\ Fairness

=============================================================================
