------------------------------- MODULE Ledger -------------------------------
(***************************************************************************)
(* What the domain repositories keep consistent by themselves: the running *)
(* numbers of loan applications, fraud reports and transactions, and the   *)
(* totals of a chat session.                                               *)
(*                                                                         *)
(* A number is the count of the day's rows plus one, computed in one       *)
(* statement and inserted in a later one; a unique index holds it.  The    *)
(* rows of other transactions are seen once they are committed.            *)
(***************************************************************************)
EXTENDS Naturals, FiniteSets

CONSTANTS
    Tables,        \* of the numbered tables "loan", "fraud", "transaction"
    Writer,        \* transactions that may overlap
    TicksPerDay,   \* seconds of a day
    MaxTick,       \* bound on the time
    RowId, NoRowId,  \* ids: they bound the rows of the table
    MaxMessage,    \* bound on the messages of the session
    TokensUsed     \* tokens_used of a message, 0 for none

VARIABLES
    table,         \* the numbered table looked at
    now,
    rows,          \* committed rows: their numbers, and if softly deleted
    writer,        \* what each creation is doing
    purged,        \* days a row of which was deleted from the table
    refused,       \* a creation alone in its day was refused
    messages,      \* committed chat_messages: number and sum of tokens
    totals,        \* committed total_messages and total_tokens
    talker         \* what each add_message is doing

numbering == <<table, now, rows, writer, purged, refused>>
chat == <<messages, totals, talker>>
lgvars == <<numbering, chat>>

ASSUME LedgerAssumption ==
    /\ Tables \subseteq {"loan", "fraud", "transaction"}
    /\ NoRowId \notin RowId
    /\ TicksPerDay \in Nat \ {0}
    /\ MaxTick \in Nat /\ MaxMessage \in Nat
    /\ TokensUsed \subseteq Nat

Day(tick) == tick \div TicksPerDay

(* LOAN-<day>-n and FRD-<day>-n; TXN-<second>-n, counted by the day too.   *)
Prefix == IF table = "transaction" THEN now ELSE Day(now) * TicksPerDay
Number == [at : 0 .. MaxTick, seq : Nat]
NoNumber == [at |-> 0, seq |-> 0]

RowOfTable == [id : RowId, number : Number, hidden : BOOLEAN]
RowsOfDay(day) == {x \in rows : Day(x.number.at) = day}

WriterState == [pc : {"idle", "insert", "commit"}, number : Number,
                id : RowId \cup {NoRowId}, alone : BOOLEAN]
IdleWriter == [pc |-> "idle", number |-> NoNumber,
               id |-> NoRowId, alone |-> FALSE]

Totals == [count : Nat, tokens : Nat]
None == [count |-> 0, tokens |-> 0]
Plus(a, b) == [count |-> a.count + b.count, tokens |-> a.tokens + b.tokens]
Message(n) == [count |-> 1, tokens |-> n]

(* added: the messages it has flushed.  value: the totals its UPDATE wrote.*)
TalkerState == [pc : {"idle", "update", "commit"}, next : Totals,
                added : Totals, value : Totals, locks : BOOLEAN]
IdleTalker == [pc |-> "idle", next |-> None, added |-> None, value |-> None,
               locks |-> FALSE]

LedgerInit ==
    /\ table \in Tables
    /\ now = 0
    /\ rows = {}
    /\ writer = [w \in Writer |-> IdleWriter]
    /\ purged = {}
    /\ refused = FALSE
    /\ messages = None
    /\ totals = None
    /\ talker = [w \in Writer |-> IdleTalker]

-----------------------------------------------------------------------------
Tick ==
    /\ now < MaxTick
    /\ now' = now + 1
    /\ UNCHANGED <<table, rows, writer, purged, refused, chat>>

(* Mutant: softly deleted rows are not counted, as elsewhere.              *)
CountVisible(day) == Cardinality({x \in RowsOfDay(day) : ~x.hidden})

(* Mutant: every row is counted, whatever its day.                         *)
CountAll(day) == Cardinality(rows)
CountOfDay(day) == Cardinality(RowsOfDay(day))

(* A uuid that no row and no creation has.                                 *)
FreshIds == RowId \ ({x.id : x \in rows} \cup
                      {writer[w].id : w \in Writer})

(* generate_application_number, generate_report_number, generate_reference *)
GenerateNumber(w, id) ==
    /\ writer[w].pc = "idle"
    /\ id \in FreshIds
    /\ writer' = [writer EXCEPT ![w] =
         [pc |-> "insert", id |-> id, alone |-> TRUE,
          number |-> [at |-> Prefix, seq |-> CountOfDay(Day(now)) + 1]]]
    /\ UNCHANGED <<table, now, rows, purged, refused, chat>>

(* BaseRepository.create: the INSERT waits for an open one of its number,  *)
(* and the unique index refuses it when that one is committed.             *)
InsertNumber(w) ==
    LET n == writer[w].number
        taken == \E x \in rows : x.number = n
    IN  /\ writer[w].pc = "insert"
        /\ \A v \in Writer \ {w} :
              ~(writer[v].pc = "commit" /\ writer[v].number = n)
        /\ writer' = [writer EXCEPT ![w] =
              IF taken THEN IdleWriter ELSE [@ EXCEPT !.pc = "commit"]]
        /\ refused' = (refused \/ (taken /\ writer[w].alone /\
                                   Day(n.at) \notin purged))
        /\ UNCHANGED <<table, now, rows, purged, chat>>

CommitRow(w) ==
    /\ writer[w].pc = "commit"
    /\ rows' = rows \cup {[id |-> writer[w].id, number |-> writer[w].number,
                           hidden |-> FALSE]}
    /\ writer' = [v \in Writer |->
          IF v = w THEN IdleWriter
          ELSE IF Day(writer[v].number.at) = Day(writer[w].number.at)
          THEN [writer[v] EXCEPT !.alone = FALSE] ELSE writer[v]]
    /\ UNCHANGED <<table, now, purged, refused, chat>>

RollBackRow(w) ==
    /\ writer[w].pc # "idle"
    /\ writer' = [writer EXCEPT ![w] = IdleWriter]
    /\ UNCHANGED <<table, now, rows, purged, refused, chat>>

(* SoftDeleteMixin.soft_delete: transactions have no deleted_at.           *)
SoftDelete(x) ==
    /\ table # "transaction"
    /\ ~x.hidden
    /\ rows' = (rows \ {x}) \cup {[x EXCEPT !.hidden = TRUE]}
    /\ UNCHANGED <<table, now, writer, purged, refused, chat>>

(* BaseRepository.delete takes the row out of the table.                   *)
DeleteRow(x) ==
    /\ rows' = rows \ {x}
    /\ purged' = purged \cup {Day(x.number.at)}
    /\ UNCHANGED <<table, now, writer, refused, chat>>

-----------------------------------------------------------------------------
(* add_message flushes the message first; a transaction may add several.   *)
AddMessage(w, n) ==
    /\ \/ talker[w].pc = "idle"
       \/ talker[w].pc = "commit"
    /\ messages.count + talker[w].added.count < MaxMessage
    /\ talker' = [talker EXCEPT ![w].pc = "update", ![w].next = Message(n)]
    /\ UNCHANGED <<numbering, messages, totals>>

(* The value the row has for this transaction.                             *)
SeenTotals(w) == IF talker[w].locks THEN talker[w].value ELSE totals

(* Mutant: the totals are computed from the session loaded before.         *)
StaleTotals(w) ==
    /\ talker[w].pc = "update"
    /\ talker' = [talker EXCEPT
          ![w].pc = "commit", ![w].locks = TRUE,
          ![w].added = Plus(@, talker[w].next),
          ![w].value = Plus(SeenTotals(w), talker[w].next)]
    /\ UNCHANGED <<numbering, messages, totals>>

(* SET total = total + n: the UPDATE waits for the row, then adds to what  *)
(* it finds there.                                                         *)
UpdateTotals(w) ==
    /\ talker[w].pc = "update"
    /\ \A v \in Writer \ {w} : ~talker[v].locks
    /\ talker' = [talker EXCEPT
          ![w].pc = "commit", ![w].locks = TRUE,
          ![w].added = Plus(@, talker[w].next),
          ![w].value = Plus(SeenTotals(w), talker[w].next)]
    /\ UNCHANGED <<numbering, messages, totals>>

CommitMessages(w) ==
    /\ talker[w].pc = "commit"
    /\ messages' = Plus(messages, talker[w].added)
    /\ totals' = talker[w].value
    /\ talker' = [talker EXCEPT ![w] = IdleTalker]
    /\ UNCHANGED numbering

RollBackMessages(w) ==
    /\ talker[w].pc # "idle"
    /\ talker' = [talker EXCEPT ![w] = IdleTalker]
    /\ UNCHANGED <<numbering, messages, totals>>

(* The session is deleted with its messages, and another one begins.  Its  *)
(* row cannot go while a message that refers to it is being added.         *)
DeleteSession ==
    /\ \A w \in Writer : talker[w].pc = "idle"
    /\ messages' = None
    /\ totals' = None
    /\ UNCHANGED <<numbering, talker>>

NumberingNext ==
    \/ Tick
    \/ \E w \in Writer : \/ \E id \in RowId : GenerateNumber(w, id)
                         \/ InsertNumber(w)
                         \/ CommitRow(w)
                         \/ RollBackRow(w)
    \/ \E x \in rows : SoftDelete(x) \/ DeleteRow(x)

ChatNext ==
    \/ \E w \in Writer : \/ \E n \in TokensUsed : AddMessage(w, n)
                         \/ UpdateTotals(w)
                         \/ CommitMessages(w)
                         \/ RollBackMessages(w)
    \/ DeleteSession

LedgerNext == NumberingNext \/ ChatNext
LedgerSpec == LedgerInit /\ [][LedgerNext]_lgvars

-----------------------------------------------------------------------------
LedgerTypeOK ==
    /\ table \in Tables
    /\ now \in 0 .. MaxTick
    /\ rows \subseteq RowOfTable
    /\ writer \in [Writer -> WriterState]
    /\ refused \in BOOLEAN
    /\ messages \in Totals /\ totals \in Totals
    /\ talker \in [Writer -> TalkerState]

(* Without deletions from the table the applications and reports of a day  *)
(* are numbered 1 to n, each number once, whichever creations overlapped,  *)
(* were refused or rolled back (generate_application_number,               *)
(* generate_report_number).                                                *)
NumbersDense ==
    table # "transaction" =>
        \A tick \in 0 .. MaxTick :
            LET day == RowsOfDay(Day(tick))
            IN  Day(tick) \notin purged =>
                    {x.number.seq : x \in day} = 1 .. Cardinality(day)

(* A creation is refused for its number only if another row of its day was *)
(* committed meanwhile, or one was deleted from the table: softly deleted  *)
(* rows count.                                                             *)
AloneNeverRefused == ~refused

(* The totals of a session are those of its messages, of overlapping       *)
(* conversations and rolled back ones too (add_message).                   *)
TotalsMatch == totals = messages

=============================================================================
