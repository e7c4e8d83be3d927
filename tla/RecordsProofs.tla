--------------------------- MODULE RecordsProofs ---------------------------
(***************************************************************************)
(* Proofs about Accounts, Ledger and LoginLockout for any addresses,       *)
(* requests, tokens, transactions, messages, attempts and limits.          *)
(*                                                                         *)
(* Accounts: what a request writes rests on what it read a statement       *)
(* earlier.  The invariant says what is still true of it when it writes.   *)
(* Ledger: the totals of a session follow from who holds its row, the      *)
(* numbers of a day from how far a number can be ahead of the count.       *)
(* LoginLockout: a counter without a TTL belongs to an attempt under way.  *)
(***************************************************************************)
EXTENDS Accounts, Ledger, LoginLockout, FiniteSetTheorems, TLAPS

Going(s) == slot[s].pc \in {"write", "commit"}
Resets(s) == Going(s) /\ slot[s].op = "reset"
Verifies(s) == Going(s) /\ slot[s].op = "verify"
Links(s) == slot[s].pc = "commit" /\ slot[s].op = "request"

(* A request that goes on has an account, and one but a registration found *)
(* its row.                                                                *)
SlotsPlaced ==
    /\ \A s \in Slot : slot[s].pc # "idle" /\ slot[s].op # "reset"
                          => slot[s].email \in Email
    /\ \A s \in Slot : Going(s) => slot[s].email \in Email
    /\ \A s \in Slot : Going(s) /\ slot[s].op # "register"
                          => row[slot[s].email].there
    /\ \A e \in Email :
          row[e].live \/ row[e].link \/ row[e].verified \/ latest[e] # 0
              => row[e].there

(* Who has written a row holds it alone; a new address stays new.          *)
CommitsAlone ==
    /\ \A s, q \in Slot :
          /\ slot[s].pc = "commit" /\ slot[q].pc = "commit"
          /\ slot[s].email = slot[q].email
          => s = q
    /\ \A s \in Slot : slot[s].pc = "commit" /\ slot[s].op = "register"
                          => ~row[slot[s].email].there

(* A password update that did not see the latest link was crossed by it.   *)
LinksSeen ==
    \A s \in Slot : Going(s) /\ slot[s].op \in PasswordOp =>
        LET e == slot[s].email
        IN  slot[s].saw # latest[e] => latest[e] \in crossed \cup {0}

(* A link that is about to be committed is known to nobody.                *)
PendingFresh ==
    \A s \in Slot : Links(s) =>
        /\ slot[s].token \in 1 .. issued
        /\ uses[slot[s].token] = 0
        /\ \A e \in Email : row[e].reset # slot[s].token
        /\ \A q \in Slot : Links(q) /\ slot[q].token = slot[s].token => q = s
        /\ \A q \in Slot : Resets(q) => slot[q].token # slot[s].token

(* A token is in one row at most, and in none once it was used; resets by  *)
(* one token have the row of one account, and are told apart by shared.    *)
TokensFollow ==
    /\ \A s \in Slot : slot[s].token <= issued
    /\ \A e \in Email : row[e].reset <= issued
    /\ \A e, f \in Email : row[e].reset = row[f].reset /\ row[e].reset # 0
                              => e = f
    /\ \A s \in Slot : slot[s].pc # "idle" /\ slot[s].op = "reset"
                          => slot[s].token # 0
    /\ \A s \in Slot : Resets(s) =>
          \A e \in Email : row[e].reset = slot[s].token
                              => e = slot[s].email
    /\ \A t \in 1 .. MaxToken : uses[t] # 0 =>
          t <= issued /\ \A e \in Email : row[e].reset # t
    /\ \A t \in (1 .. MaxToken) \ shared, s \in Slot :
          Resets(s) /\ slot[s].token = t =>
             /\ uses[t] = 0
             /\ \A q \in Slot : Resets(q) /\ slot[q].token = t => q = s

(* Two verifications of an account that are under way, or one of a         *)
(* verified account, are known to have overlapped.                         *)
VerifiesFollow ==
    /\ \A e \in Email \ doubled, s \in Slot :
          Verifies(s) /\ slot[s].email = e =>
              /\ ~row[e].verified
              /\ \A q \in Slot : Verifies(q) /\ slot[q].email = e => q = s
    /\ \A e \in Email : revived[e] # 0 => row[e].verified
    /\ \A e \in Email : revived[e] > 1 => e \in doubled

AInv ==
    /\ AccountsTypeOK
    /\ SlotsPlaced
    /\ CommitsAlone
    /\ RegisteredOnce
    /\ LinksSeen
    /\ ResetLinkStands
    /\ PendingFresh
    /\ TokensFollow
    /\ TokenUsedOnce
    /\ VerifiesFollow

-----------------------------------------------------------------------------
LEMMA IdleSlotTyped == IdleSlot \in SlotState /\ NoRow \in Row
  BY AccountsAssumption DEF IdleSlot, SlotState, Op, NoRow, Row, Status

LEMMA AccountsInitInv == AccountsInit => AInv
<1> SUFFICES ASSUME AccountsInit PROVE AInv
  OBVIOUS
<1>1. AccountsTypeOK
  BY IdleSlotTyped, AccountsAssumption DEF AccountsInit, AccountsTypeOK
<1>2. /\ SlotsPlaced /\ CommitsAlone /\ LinksSeen /\ PendingFresh
      /\ VerifiesFollow
  BY DEF AccountsInit, SlotsPlaced, CommitsAlone, LinksSeen, PendingFresh,
         VerifiesFollow, Verifies, Going, Resets, Links, IdleSlot, NoRow
<1>3. RegisteredOnce /\ ResetLinkStands /\ TokenUsedOnce
  BY DEF AccountsInit, RegisteredOnce, ResetLinkStands, TokenUsedOnce, NoRow
<1>4. TokensFollow
  BY AccountsAssumption
     DEF AccountsInit, TokensFollow, Going, Resets, IdleSlot, NoRow
<1> QED
  BY <1>1, <1>2, <1>3, <1>4 DEF AInv

-----------------------------------------------------------------------------
(* A request leaves, whatever it had read or written.                      *)
LEMMA QuitStep ==
  ASSUME AInv, NEW s \in Slot, Quit(s), UNCHANGED <<row, issued, history>>
  PROVE  AInv'
<1> USE DEF AInv, history
<1>1. /\ slot' = [slot EXCEPT ![s] = IdleSlot]
      /\ slot \in [Slot -> SlotState]
      /\ IdleSlot.pc = "idle" /\ IdleSlot.token = 0 /\ IdleSlot.op = "register"
  BY DEF Quit, AccountsTypeOK, IdleSlot
<1>2. \A q \in Slot : q # s => slot'[q] = slot[q]
  BY <1>1
<1>3. slot'[s] = IdleSlot
  BY <1>1
<1>4. AccountsTypeOK'
  BY <1>1, IdleSlotTyped DEF AccountsTypeOK
<1>5. SlotsPlaced' /\ CommitsAlone' /\ LinksSeen'
  BY <1>1, <1>2, <1>3 DEF SlotsPlaced, CommitsAlone, LinksSeen, Going
<1>6. RegisteredOnce' /\ ResetLinkStands' /\ TokenUsedOnce'
  BY DEF RegisteredOnce, ResetLinkStands, TokenUsedOnce
<1>7. PendingFresh' /\ VerifiesFollow'
  BY <1>1, <1>2, <1>3
     DEF PendingFresh, VerifiesFollow, Verifies, Going, Resets, Links
<1>8. TokensFollow'
  BY <1>1, <1>2, <1>3 DEF TokensFollow, Going, Resets, AccountsTypeOK
<1> QED
  BY <1>4, <1>5, <1>6, <1>7, <1>8

LEMMA SendStep ==
  ASSUME AInv, NEW s \in Slot, NEW op \in Op, NEW e \in Email \cup {NoEmail},
         NEW t \in 0 .. MaxToken, Send(s, op, e, t)
  PROVE  AInv'
<1> USE DEF AInv, history
<1> DEFINE new == [IdleSlot EXCEPT !.pc = "read", !.op = op, !.email = e,
                                   !.token = t]
<1>1. /\ slot' = [slot EXCEPT ![s] = new]
      /\ slot \in [Slot -> SlotState]
      /\ UNCHANGED <<row, issued, registered, uses, shared, latest, crossed,
                      revived, doubled>>
  BY DEF Send, AccountsTypeOK
<1>2. /\ new \in SlotState /\ new.pc = "read" /\ new.op = op
      /\ new.email = e /\ new.token = t
  BY IdleSlotTyped DEF IdleSlot, SlotState
<1>3. /\ op # "reset" => e \in Email
      /\ t <= issued
      /\ op = "reset" => t # 0
  BY AccountsAssumption DEF Send, AccountsTypeOK
<1> HIDE DEF new
<1>4. /\ \A q \in Slot : q # s => slot'[q] = slot[q]
      /\ slot'[s] = new
  BY <1>1
<1>5. AccountsTypeOK'
  BY <1>1, <1>2 DEF AccountsTypeOK
<1>6. SlotsPlaced' /\ CommitsAlone' /\ LinksSeen'
  BY <1>1, <1>2, <1>3, <1>4 DEF SlotsPlaced, CommitsAlone, LinksSeen, Going
<1>7. RegisteredOnce' /\ ResetLinkStands' /\ TokenUsedOnce'
  BY <1>1 DEF RegisteredOnce, ResetLinkStands, TokenUsedOnce
<1>8. PendingFresh' /\ VerifiesFollow'
  BY <1>1, <1>2, <1>4
     DEF PendingFresh, VerifiesFollow, Verifies, Going, Resets, Links
<1>9. TokensFollow'
  BY <1>1, <1>2, <1>3, <1>4 DEF TokensFollow, Going, Resets, AccountsTypeOK
<1> QED
  BY <1>5, <1>6, <1>7, <1>8, <1>9

(* A registration or a request for a link has read.                        *)
LEMMA GoOnStep ==
  ASSUME AInv, NEW s \in Slot, GoOn(s, "write"), slot[s].pc = "read",
         slot[s].op \in {"register", "request"},
         slot[s].op # "register" => row[slot[s].email].there,
         UNCHANGED <<row, issued, history>>
  PROVE  AInv'
<1> USE DEF AInv, history
<1>1. /\ slot' = [slot EXCEPT ![s].pc = "write"]
      /\ slot \in [Slot -> SlotState]
  BY DEF GoOn, AccountsTypeOK
<1>2. /\ \A q \in Slot : q # s => slot'[q] = slot[q]
      /\ slot'[s].pc = "write" /\ slot'[s].op = slot[s].op
      /\ slot'[s].email = slot[s].email /\ slot'[s].token = slot[s].token
  BY <1>1 DEF SlotState
<1>3. slot[s].email \in Email
  BY DEF SlotsPlaced
<1>4. AccountsTypeOK'
  BY <1>1, ZenonT(40) DEF AccountsTypeOK, SlotState
<1>5. SlotsPlaced' /\ CommitsAlone' /\ LinksSeen'
  BY <1>1, <1>2, <1>3
     DEF SlotsPlaced, CommitsAlone, LinksSeen, Going, PasswordOp
<1>6. RegisteredOnce' /\ ResetLinkStands' /\ TokenUsedOnce'
  BY DEF RegisteredOnce, ResetLinkStands, TokenUsedOnce
<1>7. PendingFresh' /\ VerifiesFollow'
  BY <1>1, <1>2
     DEF PendingFresh, VerifiesFollow, Verifies, Going, Resets, Links
<1>8. TokensFollow'
  BY <1>1, <1>2 DEF TokensFollow, Going, Resets, AccountsTypeOK
<1> QED
  BY <1>4, <1>5, <1>6, <1>7, <1>8

LEMMA ReadStep ==
  ASSUME AInv, NEW s \in Slot, EmailExists(s) \/ ReadForRequest(s)
  PROVE  AInv'
<1>1. slot[s].email \in Email
  BY DEF AInv, SlotsPlaced, EmailExists, ReadForRequest
<1>2. /\ UNCHANGED <<row, issued, history>>
      /\ Quit(s) \/ GoOn(s, "write")
      /\ slot[s].pc = "read" /\ slot[s].op \in {"register", "request"}
  BY DEF EmailExists, ReadForRequest
<1>3. CASE Quit(s)
  BY <1>2, <1>3, QuitStep
<1>4. CASE GoOn(s, "write") /\ ~Quit(s)
  <2>1. slot[s].op # "register" => row[slot[s].email].there
    BY <1>4 DEF EmailExists, ReadForRequest
  <2> QED
    BY <1>2, <1>4, <2>1, GoOnStep
<1> QED
  BY <1>2, <1>3, <1>4

(* A verification has read a row that is not verified: if it is not alone, *)
(* its account is one of doubled.                                          *)
LEMMA ReadLinkStep ==
  ASSUME AInv, NEW s \in Slot, ReadLink(s)
  PROVE  AInv'
<1> USE DEF AInv, history
<1> DEFINE e == slot[s].email
<1>1. /\ slot[s].pc = "read" /\ slot[s].op = "verify" /\ e \in Email
      /\ slot \in [Slot -> SlotState]
      /\ UNCHANGED <<row, issued, registered, uses, shared, latest, crossed,
                     revived>>
  BY DEF ReadLink, Verification, SlotsPlaced, AccountsTypeOK
<1>2. CASE ~(row[e].link /\ ~row[e].verified)
  BY <1>1, <1>2, QuitStep DEF ReadLink, Verification
<1>3. CASE row[e].link /\ ~row[e].verified
  <2>1. /\ slot' = [slot EXCEPT ![s].pc = "write"]
        /\ doubled' = IF UnderWay(e, {"verify"}) # {}
                      THEN doubled \cup {e} ELSE doubled
    BY <1>3 DEF ReadLink, Verification, GoOn
  <2>2. /\ slot' \in [Slot -> SlotState]
        /\ \A q \in Slot : q # s => slot'[q] = slot[q]
        /\ slot'[s].pc = "write" /\ slot'[s].op = slot[s].op
        /\ slot'[s].email = e /\ slot'[s].token = slot[s].token
    BY <1>1, <2>1 DEF SlotState
  <2>3. AccountsTypeOK'
    BY <1>1, <2>1, <2>2 DEF AccountsTypeOK
  <2>4. SlotsPlaced' /\ CommitsAlone' /\ LinksSeen'
    BY <1>1, <1>3, <2>2
       DEF SlotsPlaced, CommitsAlone, LinksSeen, Going, PasswordOp
  <2>5. RegisteredOnce' /\ ResetLinkStands' /\ TokenUsedOnce'
    BY <1>1 DEF RegisteredOnce, ResetLinkStands, TokenUsedOnce
  <2>6. PendingFresh' /\ TokensFollow'
    BY <1>1, <2>2 DEF PendingFresh, TokensFollow, Going, Resets, Links
  <2>7. VerifiesFollow'
    <3>1. doubled \subseteq doubled'
      BY <2>1
    <3>2. \A q \in Slot : Verifies(q) /\ slot[q].email = e => e \in doubled'
      BY <2>1 DEF UnderWay, Verifies, Going
    <3> QED
      BY <1>1, <1>3, <2>2, <3>1, <3>2 DEF VerifiesFollow, Verifies, Going
  <2> QED
    BY <2>3, <2>4, <2>5, <2>6, <2>7
<1> QED
  BY <1>2, <1>3

LEMMA HasReadPlain ==
  ASSUME AInv, NEW s \in Slot, NEW e \in Email, HasRead(s, e)
  PROVE  /\ slot' \in [Slot -> SlotState]
         /\ \A q \in Slot : q # s => slot'[q] = slot[q]
         /\ slot'[s].pc = "write" /\ slot'[s].op = slot[s].op
         /\ slot'[s].email = e /\ slot'[s].token = slot[s].token
         /\ slot'[s].saw = latest[e]
<1>1. slot' = [slot EXCEPT ![s].pc = "write", ![s].email = e,
                           ![s].saw = latest[e]]
  BY DEF HasRead
<1>2. slot \in [Slot -> SlotState] /\ latest[e] \in 0 .. MaxToken
  BY DEF AInv, AccountsTypeOK
<1> QED
  BY <1>1, <1>2 DEF SlotState

LEMMA ReadTokenStep ==
  ASSUME AInv, NEW s \in Slot, ReadToken(s)
  PROVE  AInv'
<1> USE DEF AInv, history
<1>1. CASE Quit(s) /\ UNCHANGED shared
  BY <1>1, QuitStep DEF ReadToken
<1>2. CASE ~(Quit(s) /\ UNCHANGED shared)
  <2>1. PICK e \in Email :
          /\ row[e].reset = slot[s].token /\ row[e].live
          /\ HasRead(s, e)
          /\ shared' = IF \E q \in UnderWay(e, {"reset"}) :
                             slot[q].token = slot[s].token
                       THEN shared \cup {slot[s].token} ELSE shared
    BY <1>2 DEF ReadToken
  <2>2. /\ slot[s].pc = "read" /\ slot[s].op = "reset"
        /\ UNCHANGED <<row, issued, registered, uses, latest, crossed, revived,
                       doubled>>
    BY DEF ReadToken
  <2>3. row[e].there /\ slot[s].token \in 1 .. MaxToken
    <3>1. slot[s].token \in 0 .. MaxToken
      BY DEF AccountsTypeOK, SlotState
    <3>2. slot[s].token # 0
      BY <2>2 DEF TokensFollow
    <3> QED
      BY <2>1, <3>1, <3>2, AccountsAssumption DEF SlotsPlaced
  <2>4. AccountsTypeOK'
    BY <2>1, <2>2, <2>3, HasReadPlain DEF AccountsTypeOK
  <2>5. SlotsPlaced' /\ CommitsAlone' /\ LinksSeen'
    BY <2>1, <2>2, <2>3, HasReadPlain
       DEF SlotsPlaced, CommitsAlone, LinksSeen, Going
  <2>6. RegisteredOnce' /\ ResetLinkStands' /\ TokenUsedOnce'
    BY <2>1, <2>2 DEF RegisteredOnce, ResetLinkStands, TokenUsedOnce
  <2>7. PendingFresh' /\ VerifiesFollow'
    BY <2>1, <2>2, HasReadPlain
       DEF PendingFresh, VerifiesFollow, Verifies, Going, Resets, Links
  <2>8. TokensFollow'
    <3>1. /\ \A q \in Slot : slot'[q].token = slot[q].token
          /\ \A q \in Slot : q # s => (Resets(q)' <=> Resets(q))
      BY <2>1, HasReadPlain DEF Resets, Going
    <3>2. \A f \in Email : row[f].reset = slot[s].token => f = e
      BY <2>1, <2>3 DEF TokensFollow
    <3>3. uses[slot[s].token] = 0
      BY <2>1, <2>3 DEF TokensFollow
    <3>4. shared \subseteq shared'
      BY <2>1
    <3>5. \A q \in Slot : Resets(q) /\ slot[q].token = slot[s].token
                              => slot[s].token \in shared'
      <4> SUFFICES ASSUME NEW q \in Slot, Resets(q),
                          slot[q].token = slot[s].token
                   PROVE  q \in UnderWay(e, {"reset"})
        BY <2>1
      <4> QED
        BY <2>1 DEF TokensFollow, UnderWay, Resets, Going
    <3>6. \A t \in (1 .. MaxToken) \ shared', p \in Slot :
             Resets(p)' /\ slot'[p].token = t =>
                /\ uses[t] = 0
                /\ \A q \in Slot : Resets(q)' /\ slot'[q].token = t => q = p
      BY <3>1, <3>3, <3>4, <3>5 DEF TokensFollow
    <3> QED
      BY <2>1, <2>2, <3>1, <3>2, <3>6, HasReadPlain
         DEF TokensFollow
  <2> QED
    BY <2>4, <2>5, <2>6, <2>7, <2>8
<1> QED
  BY <1>1, <1>2

LEMMA ReadCurrentUserStep ==
  ASSUME AInv, NEW s \in Slot, ReadCurrentUser(s)
  PROVE  AInv'
<1> USE DEF AInv, history
<1> DEFINE e == slot[s].email
<1>1. CASE Quit(s)
  BY <1>1, QuitStep DEF ReadCurrentUser
<1>2. CASE ~Quit(s)
  <2>1. /\ slot[s].pc = "read" /\ slot[s].op = "change"
        /\ UNCHANGED <<row, issued, history>>
        /\ HasRead(s, e) /\ row[e].there
    BY <1>2 DEF ReadCurrentUser, Admitted
  <2>2. e \in Email
    BY <2>1 DEF SlotsPlaced
  <2>3. AccountsTypeOK'
    BY <2>1, <2>2, HasReadPlain DEF AccountsTypeOK
  <2>4. SlotsPlaced' /\ CommitsAlone' /\ LinksSeen'
    BY <2>1, <2>2, HasReadPlain DEF SlotsPlaced, CommitsAlone, LinksSeen, Going
  <2>5. RegisteredOnce' /\ ResetLinkStands' /\ TokenUsedOnce'
    BY <2>1 DEF RegisteredOnce, ResetLinkStands, TokenUsedOnce
  <2>6. PendingFresh' /\ VerifiesFollow' /\ TokensFollow'
    BY <2>1, <2>2, HasReadPlain
       DEF PendingFresh, VerifiesFollow, TokensFollow, Going, Resets, Links,
           Verifies
  <2> QED
    BY <2>3, <2>4, <2>5, <2>6
<1> QED
  BY <1>1, <1>2

LEMMA InsertStep ==
  ASSUME AInv, NEW s \in Slot, Insert(s)
  PROVE  AInv'
<1> USE DEF AInv, history
<1>1. CASE Quit(s)
  BY <1>1, QuitStep DEF Insert
<1>2. CASE ~Quit(s)
  <2>1. /\ slot[s].pc = "write" /\ slot[s].op = "register" /\ Free(s)
        /\ slot' = [slot EXCEPT ![s].pc = "commit"]
        /\ ~row[slot[s].email].there
        /\ UNCHANGED <<row, issued, history>>
    BY <1>2 DEF Insert, GoOn
  <2>2. /\ slot' \in [Slot -> SlotState]
        /\ \A q \in Slot : q # s => slot'[q] = slot[q]
        /\ slot'[s].pc = "commit" /\ slot'[s].op = slot[s].op
        /\ slot'[s].email = slot[s].email /\ slot'[s].token = slot[s].token
    BY <2>1 DEF AccountsTypeOK, SlotState
  <2>3. AccountsTypeOK'
    BY <2>1, <2>2 DEF AccountsTypeOK
  <2>4. SlotsPlaced' /\ CommitsAlone' /\ LinksSeen'
    BY <2>1, <2>2
       DEF SlotsPlaced, CommitsAlone, LinksSeen, Going, PasswordOp, Free
  <2>5. RegisteredOnce' /\ ResetLinkStands' /\ TokenUsedOnce'
    BY <2>1 DEF RegisteredOnce, ResetLinkStands, TokenUsedOnce
  <2>6. PendingFresh' /\ VerifiesFollow' /\ TokensFollow'
    BY <2>1, <2>2
       DEF PendingFresh, VerifiesFollow, TokensFollow, Going, Resets, Links,
           Verifies
  <2> QED
    BY <2>3, <2>4, <2>5, <2>6
<1> QED
  BY <1>1, <1>2

LEMMA UpdateStep ==
  ASSUME AInv, NEW s \in Slot, Update(s)
  PROVE  AInv'
<1> USE DEF AInv, history
<1>1. /\ slot[s].pc = "write" /\ slot[s].op # "register" /\ Free(s)
      /\ UNCHANGED <<row, history>>
      /\ slot \in [Slot -> SlotState]
  BY DEF Update, AccountsTypeOK
<1>2. CASE slot[s].op # "request"
  <2>1. slot' = [slot EXCEPT ![s].pc = "commit"] /\ UNCHANGED issued
    BY <1>2 DEF Update, GoOn
  <2>2. /\ slot' \in [Slot -> SlotState]
        /\ \A q \in Slot : q # s => slot'[q] = slot[q]
        /\ slot'[s] = [slot[s] EXCEPT !.pc = "commit"]
        /\ slot'[s].pc = "commit" /\ slot'[s].op = slot[s].op
        /\ slot'[s].email = slot[s].email /\ slot'[s].token = slot[s].token
        /\ slot'[s].saw = slot[s].saw
    BY <1>1, <2>1 DEF SlotState
  <2>3. AccountsTypeOK'
    BY <1>1, <2>1, <2>2 DEF AccountsTypeOK
  <2>4. SlotsPlaced' /\ CommitsAlone' /\ LinksSeen'
    BY <1>1, <2>1, <2>2 DEF SlotsPlaced, CommitsAlone, LinksSeen, Going, Free
  <2>5. RegisteredOnce' /\ ResetLinkStands' /\ TokenUsedOnce'
    BY <1>1 DEF RegisteredOnce, ResetLinkStands, TokenUsedOnce
  <2>6. PendingFresh' /\ VerifiesFollow' /\ TokensFollow'
    BY <1>1, <1>2, <2>1, <2>2
       DEF PendingFresh, VerifiesFollow, TokensFollow, Going, Resets, Links,
           Verifies
  <2> QED
    BY <2>3, <2>4, <2>5, <2>6
<1>3. CASE slot[s].op = "request"
  <2>1. /\ slot' = [slot EXCEPT ![s].pc = "commit", ![s].token = issued + 1]
        /\ issued < MaxToken /\ issued' = issued + 1
    BY <1>3 DEF Update
  <2>2. /\ issued \in 0 .. MaxToken /\ issued' \in 1 .. MaxToken
        /\ issued + 1 \in 0 .. MaxToken
    BY <2>1, AccountsAssumption DEF AccountsTypeOK
  <2>3. /\ slot' \in [Slot -> SlotState]
        /\ \A q \in Slot : q # s => slot'[q] = slot[q]
        /\ slot'[s].pc = "commit" /\ slot'[s].op = slot[s].op
        /\ slot'[s].email = slot[s].email /\ slot'[s].token = issued + 1
    BY <1>1, <2>1, <2>2 DEF SlotState
  <2>4. AccountsTypeOK'
    BY <1>1, <2>1, <2>2, <2>3, AccountsAssumption DEF AccountsTypeOK
  <2>5. SlotsPlaced' /\ CommitsAlone' /\ LinksSeen'
    BY <1>1, <1>3, <2>1, <2>3
       DEF SlotsPlaced, CommitsAlone, LinksSeen, Going, Free, PasswordOp
  <2>6. RegisteredOnce' /\ ResetLinkStands' /\ TokenUsedOnce'
    BY <1>1 DEF RegisteredOnce, ResetLinkStands, TokenUsedOnce
  <2>7. VerifiesFollow'
    BY <1>1, <1>3, <2>3 DEF VerifiesFollow, Verifies, Going
  <2>8. /\ \A q \in Slot : slot[q].token \in 0 .. issued
        /\ \A e \in Email : row[e].reset \in 0 .. issued
    BY <2>2 DEF TokensFollow, AccountsTypeOK, SlotState, Row
  <2>9. TokensFollow'
    BY <1>1, <1>3, <2>1, <2>2, <2>3, <2>8 DEF TokensFollow, Going, Resets
  <2>10. uses[issued + 1] = 0
    BY <2>1, <2>2, AccountsAssumption DEF TokensFollow
  <2>11. PendingFresh'
    BY <1>1, <1>3, <2>1, <2>2, <2>3, <2>8, <2>10
       DEF PendingFresh, Going, Resets, Links
  <2> QED
    BY <2>4, <2>5, <2>6, <2>7, <2>9, <2>11
<1> QED
  BY <1>2, <1>3

(* Written columns, whichever the operation.                               *)
LEMMA WrittenRow ==
  ASSUME NEW u \in Row, NEW op \in Op, NEW t \in 0 .. MaxToken,
         op # "register" => u.there
  PROVE  LET v == RowAfter(u, op, t)
         IN  /\ v \in Row /\ v.there
             /\ v.reset = CASE op = "request" -> t
                            [] op = "verify" -> u.reset
                            [] OTHER -> 0
             /\ op \in {"request", "reset", "change"} =>
                    v.status = u.status /\ v.verified = u.verified
             /\ op = "verify" => v.verified
             /\ op = "register" => ~v.verified
  BY IdleSlotTyped, AccountsAssumption
     DEF RowAfter, Written, Row, NoRow, Status, Op

LEMMA ConcludePlain ==
  ASSUME AInv, NEW s \in Slot, Conclude(s)
  PROVE  LET op == slot[s].op
             e == slot[s].email
             t == slot[s].token
         IN  /\ slot[s].pc = "commit" /\ op \in Op /\ e \in Email
             /\ t \in 0 .. MaxToken
             /\ row[e] \in Row /\ (op # "register" => row[e].there)
             /\ slot' = [slot EXCEPT ![s] = IdleSlot]
             /\ slot'[s] = IdleSlot
             /\ \A q \in Slot : q # s => slot'[q] = slot[q]
             /\ row' \in [Email -> Row]
             /\ row'[e] = RowAfter(row[e], op, t)
             /\ \A f \in Email : f # e => row'[f] = row[f]
             /\ UNCHANGED <<issued, shared, doubled>>
<1>1. /\ slot[s].pc = "commit" /\ slot[s].op \in Op
      /\ slot[s].token \in 0 .. MaxToken
      /\ slot \in [Slot -> SlotState] /\ row \in [Email -> Row]
  BY DEF Conclude, AInv, AccountsTypeOK, SlotState
<1>2. /\ slot[s].email \in Email
      /\ slot[s].op # "register" => row[slot[s].email].there
  BY <1>1 DEF AInv, SlotsPlaced, Going
<1>3. RowAfter(row[slot[s].email], slot[s].op, slot[s].token) \in Row
  BY <1>1, <1>2, WrittenRow
<1> QED
  BY <1>1, <1>2, <1>3 DEF Conclude, Quit

LEMMA ConcludeStep ==
  ASSUME AInv, NEW s \in Slot, Conclude(s)
  PROVE  AInv'
<1> USE DEF AInv, history
<1> DEFINE op == slot[s].op
           e == slot[s].email
           t == slot[s].token
           v == RowAfter(row[e], op, t)
<1>1. /\ slot[s].pc = "commit" /\ op \in Op /\ e \in Email
      /\ t \in 0 .. MaxToken
      /\ row[e] \in Row /\ (op # "register" => row[e].there)
      /\ slot' = [slot EXCEPT ![s] = IdleSlot]
      /\ slot'[s] = IdleSlot /\ slot \in [Slot -> SlotState]
      /\ \A q \in Slot : q # s => slot'[q] = slot[q]
      /\ row' \in [Email -> Row] /\ row'[e] = v
      /\ \A f \in Email : f # e => row'[f] = row[f]
      /\ UNCHANGED <<issued, shared, doubled>>
  BY ConcludePlain DEF AccountsTypeOK
<1>2. /\ v \in Row /\ v.there
      /\ op = "request" => v.reset = t
      /\ op = "verify" => v.reset = row[e].reset
      /\ op \in {"register", "reset", "change"} => v.reset = 0
      /\ op \in {"request", "reset", "change"} =>
            v.status = row[e].status /\ v.verified = row[e].verified
      /\ op = "verify" => v.verified
      /\ op = "register" => ~v.verified
  BY <1>1, WrittenRow
<1>3. /\ registered' = IF op = "register"
                       THEN [registered EXCEPT ![e] = @ + 1] ELSE registered
      /\ uses' = IF op = "reset" /\ uses[t] < 2
                 THEN [uses EXCEPT ![t] = @ + 1] ELSE uses
      /\ latest' = IF op = "request" THEN [latest EXCEPT ![e] = t]
                   ELSE IF op \in PasswordOp /\ slot[s].saw = latest[e]
                   THEN [latest EXCEPT ![e] = 0] ELSE latest
      /\ crossed' = IF op = "request" /\ UnderWay(e, PasswordOp) # {}
                    THEN crossed \cup {t} ELSE crossed
      /\ revived' = IF op = "verify" /\ row[e].status = "SUSPENDED"
                       /\ revived[e] < 2
                    THEN [revived EXCEPT ![e] = @ + 1] ELSE revived
  BY DEF Conclude
<1>4. /\ IdleSlot.pc = "idle" /\ IdleSlot.token = 0
      /\ slot[s].email = e /\ slot[s].op = op /\ slot[s].token = t
      /\ Going(s)
  BY <1>1 DEF IdleSlot, Going
<1>5. op \in {"request", "reset"} => t \in 1 .. MaxToken /\ t <= issued
  <2>1. issued \in 0 .. MaxToken /\ t <= issued
    BY <1>1 DEF AccountsTypeOK, TokensFollow
  <2>2. op = "request" => t \in 1 .. issued
    BY <1>1 DEF PendingFresh, Links
  <2>3. op = "reset" => t # 0
    BY <1>1 DEF TokensFollow
  <2> QED
    BY <1>1, <2>1, <2>2, <2>3, AccountsAssumption
<1> HIDE DEF op, e, t, v
<1>6. AccountsTypeOK'
  <2>1. registered' \in [Email -> Nat] /\ uses' \in [1 .. MaxToken -> 0 .. 2]
    <3>1. registered \in [Email -> Nat] /\ uses \in [1 .. MaxToken -> 0 .. 2]
      BY DEF AccountsTypeOK
    <3>2. registered' \in [Email -> Nat]
      BY <1>1, <1>3, <3>1
    <3>3. CASE op = "reset" /\ uses[t] < 2
      <4>1. uses[t] + 1 \in 0 .. 2
        BY <1>5, <3>1, <3>3
      <4> QED
        BY <1>3, <1>5, <3>1, <3>2, <3>3, <4>1
    <3> QED
      BY <1>3, <3>1, <3>2, <3>3
  <2>2. latest' \in [Email -> 0 .. MaxToken] /\ crossed' \subseteq 1 .. MaxToken
    BY <1>1, <1>3, <1>5, AccountsAssumption DEF AccountsTypeOK
  <2>3. revived' \in [Email -> 0 .. 2]
    BY <1>1, <1>3 DEF AccountsTypeOK
  <2> QED
    BY <1>1, <2>1, <2>2, <2>3, IdleSlotTyped DEF AccountsTypeOK
<1>7. \A f \in Email : row[f].there => row'[f].there
  BY <1>1, <1>2
<1>8. SlotsPlaced'
  <2>1. \A f \in Email :
           row'[f].live \/ row'[f].link \/ row'[f].verified \/ latest'[f] # 0
               => row'[f].there
    BY <1>1, <1>2, <1>3 DEF SlotsPlaced, AccountsTypeOK
  <2> QED
    BY <1>1, <1>4, <1>7, <2>1 DEF SlotsPlaced, Going
<1>9. CommitsAlone'
  <2>1. \A q \in Slot : slot'[q].pc = "commit" =>
           q # s /\ slot'[q] = slot[q] /\ slot[q].email \in Email
                 /\ slot[q].email # e
    BY <1>1, <1>4 DEF CommitsAlone, SlotsPlaced, Going
  <2> QED
    BY <1>1, <2>1 DEF CommitsAlone
<1>10. RegisteredOnce'
  BY <1>1, <1>2, <1>3, <1>4 DEF RegisteredOnce, CommitsAlone, AccountsTypeOK
<1>11. LinksSeen'
  <2>1. CASE op = "request"
    <3>1. /\ latest' = [latest EXCEPT ![e] = t]
          /\ crossed \subseteq crossed'
          /\ UnderWay(e, PasswordOp) # {} => t \in crossed'
      BY <1>3, <2>1
    <3>2. \A q \in Slot : Going(q) /\ slot[q].op \in PasswordOp
                              /\ slot[q].email = e => t \in crossed'
      BY <3>1 DEF UnderWay, Going
    <3>3. \A q \in Slot : Going(q)' =>
             q # s /\ slot'[q] = slot[q] /\ Going(q) /\ slot[q].email \in Email
      BY <1>1, <1>4 DEF SlotsPlaced, Going
    <3>4. latest \in [Email -> 0 .. MaxToken]
      BY DEF AccountsTypeOK
    <3>5. SUFFICES ASSUME NEW q \in Slot, Going(q)', slot'[q].op \in PasswordOp,
                          slot'[q].saw # latest'[slot'[q].email]
                   PROVE  latest'[slot'[q].email] \in crossed' \cup {0}
      BY DEF LinksSeen
    <3>6. CASE slot[q].email = e
      BY <3>1, <3>2, <3>3, <3>4, <3>5, <3>6, <1>1
    <3>7. CASE slot[q].email # e
      BY <3>1, <3>3, <3>4, <3>5, <3>7 DEF LinksSeen
    <3> QED
      BY <3>6, <3>7
  <2>2. CASE op # "request"
    <3>1. crossed' = crossed /\ \A f \in Email : latest'[f] \in {latest[f], 0}
      BY <1>3, <2>2 DEF AccountsTypeOK
    <3> QED
      BY <1>1, <1>4, <3>1 DEF LinksSeen, SlotsPlaced, Going
  <2> QED
    BY <2>1, <2>2
<1>12. ResetLinkStands'
  <2>1. SUFFICES ASSUME NEW f \in Email, latest'[f] \notin crossed' \cup {0}
                 PROVE  row'[f].reset = latest'[f]
    BY DEF ResetLinkStands
  <2>2. crossed \subseteq crossed'
    BY <1>3
  <2>3. CASE f # e
    BY <1>1, <1>3, <2>1, <2>2, <2>3 DEF ResetLinkStands, AccountsTypeOK
  <2>4. CASE f = e /\ op = "request"
    BY <1>1, <1>2, <1>3, <2>4 DEF AccountsTypeOK
  <2>5. CASE f = e /\ op = "verify"
    BY <1>1, <1>2, <1>3, <2>1, <2>2, <2>5
       DEF ResetLinkStands, AccountsTypeOK, PasswordOp
  <2>6. CASE f = e /\ op \in PasswordOp
    <3>1. slot[s].saw # latest[e] => latest[e] \in crossed \cup {0}
      BY <1>4, <2>6 DEF LinksSeen
    <3>2. latest'[e] = 0 \/ (latest'[e] = latest[e] /\ slot[s].saw # latest[e])
      BY <1>1, <1>3, <2>6 DEF PasswordOp, AccountsTypeOK
    <3> QED
      BY <2>1, <2>2, <2>6, <3>1, <3>2
  <2>7. CASE f = e /\ op = "register"
    <3>1. latest'[e] = latest[e] /\ ~row[e].there
      BY <1>1, <1>3, <1>4, <2>7 DEF PasswordOp, CommitsAlone
    <3> QED
      BY <1>1, <2>1, <2>7, <3>1 DEF SlotsPlaced
  <2> QED
    BY <1>1, <2>3, <2>4, <2>5, <2>6, <2>7 DEF Op, PasswordOp
<1>13. /\ \A q \in Slot : Resets(q)' =>
             q # s /\ Resets(q) /\ slot'[q] = slot[q] /\ slot[q].email \in Email
      /\ \A q \in Slot : Links(q)' =>
             q # s /\ Links(q) /\ slot'[q] = slot[q] /\ slot[q].email \in Email
                   /\ slot[q].email # e
  BY <1>1, <1>4 DEF Resets, Links, Going, SlotsPlaced, CommitsAlone
<1>14. \A f \in Email : row'[f].reset # row[f].reset =>
           /\ f = e
           /\ \/ row'[f].reset = 0
              \/ op = "request" /\ row'[f].reset = t
  BY <1>1, <1>2 DEF Op
<1>15. /\ \A k \in 1 .. MaxToken : uses'[k] # uses[k] => op = "reset" /\ k = t
       /\ op = "reset" => uses[t] = 0 \/ t \in shared
  BY <1>1, <1>3, <1>4, <1>5 DEF AccountsTypeOK, TokensFollow, Resets, Going
<1>16. PendingFresh'
  <2>1. SUFFICES ASSUME NEW q \in Slot, Links(q)'
                 PROVE  /\ slot'[q].token \in 1 .. issued'
                        /\ uses'[slot'[q].token] = 0
                        /\ \A f \in Email : row'[f].reset # slot'[q].token
                        /\ \A p \in Slot :
                              Links(p)' /\ slot'[p].token = slot'[q].token
                                  => p = q
                        /\ \A p \in Slot :
                              Resets(p)' => slot'[p].token # slot'[q].token
    BY DEF PendingFresh
  <2>2. slot[q].token \in 1 .. issued
    BY <1>1, <1>4, <1>13, <2>1 DEF PendingFresh, Links, Resets, Going
  <2>3. slot[q].token \in 1 .. MaxToken
    BY <2>2, AccountsAssumption DEF AccountsTypeOK
  <2>4. op \in {"request", "reset"} => slot[q].token # t
    BY <1>1, <1>4, <1>13, <2>1 DEF PendingFresh, Links, Resets, Going
  <2> QED
    BY <1>1, <1>13, <1>14, <1>15, <2>1, <2>2, <2>3, <2>4 DEF PendingFresh
<1>17. TokenUsedOnce'
  BY <1>1, <1>3, <1>5, <1>15 DEF TokenUsedOnce, AccountsTypeOK
<1>18. TokensFollow'
  <2>1. op = "request" => Links(s)
    BY <1>1, <1>4 DEF Links
  <2>2. op = "reset" => Resets(s)
    BY <1>4 DEF Resets
  <2>3. /\ \A q \in Slot : slot'[q].token <= issued'
        /\ \A q \in Slot : slot'[q].pc # "idle" /\ slot'[q].op = "reset"
                              => slot'[q].token # 0
    BY <1>1, <1>4 DEF TokensFollow, AccountsTypeOK
  <2>4. \A f \in Email : row'[f].reset <= issued'
    BY <1>1, <1>5, <1>14, SMTT(20) DEF TokensFollow, AccountsTypeOK
  <2>5. \A f, g \in Email : row'[f].reset = row'[g].reset /\ row'[f].reset # 0
                                => f = g
    BY <1>4, <1>14, <2>1 DEF TokensFollow, PendingFresh
  <2>6. \A q \in Slot : Resets(q)' =>
           \A f \in Email : row'[f].reset = slot'[q].token
                               => f = slot'[q].email
    <3> SUFFICES ASSUME NEW q \in Slot, Resets(q)', NEW f \in Email,
                        row'[f].reset = slot'[q].token
                 PROVE  f = slot'[q].email
      OBVIOUS
    <3>1. Resets(q) /\ slot'[q] = slot[q] /\ slot[q].token # 0
      BY <1>13 DEF TokensFollow, Resets, Going
    <3> QED
      BY <1>4, <1>14, <2>1, <3>1 DEF TokensFollow, PendingFresh
  <2>7. \A k \in 1 .. MaxToken : uses'[k] # 0 =>
           k <= issued' /\ \A f \in Email : row'[f].reset # k
    <3> SUFFICES ASSUME NEW k \in 1 .. MaxToken, uses'[k] # 0
                 PROVE  k <= issued' /\ \A f \in Email : row'[f].reset # k
      OBVIOUS
    <3>1. CASE uses'[k] = uses[k]
      BY <1>1, <1>4, <1>14, <2>1, <3>1 DEF TokensFollow, PendingFresh
    <3>2. CASE uses'[k] # uses[k]
      <4>1. op = "reset" /\ k = t /\ k <= issued'
        BY <1>1, <1>5, <1>15, <3>2
      <4>2. \A f \in Email : row[f].reset = k => f = e
        BY <1>4, <2>2, <4>1 DEF TokensFollow
      <4> QED
        BY <1>1, <1>2, <4>1, <4>2
    <3> QED
      BY <3>1, <3>2
  <2>8. \A k \in (1 .. MaxToken) \ shared', q \in Slot :
           Resets(q)' /\ slot'[q].token = k =>
              /\ uses'[k] = 0
              /\ \A p \in Slot : Resets(p)' /\ slot'[p].token = k => p = q
    <3> SUFFICES ASSUME NEW k \in (1 .. MaxToken) \ shared, NEW q \in Slot,
                        Resets(q)', slot'[q].token = k
                 PROVE  /\ uses'[k] = 0
                        /\ \A p \in Slot :
                              Resets(p)' /\ slot'[p].token = k => p = q
      BY <1>1
    <3>1. Resets(q) /\ slot[q].token = k /\ q # s
      BY <1>13
    <3>2. uses[k] = 0 /\ \A p \in Slot : Resets(p) /\ slot[p].token = k => p = q
      BY <3>1 DEF TokensFollow
    <3>3. uses'[k] = uses[k]
      BY <1>4, <1>15, <2>2, <3>1, <3>2
    <3> QED
      BY <1>13, <3>2, <3>3
  <2> QED
    BY <2>3, <2>4, <2>5, <2>6, <2>7, <2>8 DEF TokensFollow
<1>19. VerifiesFollow'
  <2>1. revived \in [Email -> 0 .. 2]
    BY DEF AccountsTypeOK
  <2>2. /\ \A q \in Slot : Verifies(q)' => Verifies(q) /\ q # s
        /\ \A q \in Slot : q # s => slot'[q] = slot[q]
    BY <1>1, <1>4 DEF Verifies, Going
  <2>3. \A f \in Email : f # e => row'[f] = row[f] /\ revived'[f] = revived[f]
    BY <1>1, <1>3, <2>1
  <2>4. op # "verify" => revived' = revived
    BY <1>3
  <2>5. CASE op = "verify"
    <3>1. Verifies(s) /\ v.verified
      BY <1>1, <1>2, <1>4, <2>5 DEF Verifies
    <3>2. e \notin doubled =>
             /\ revived[e] = 0
             /\ \A q \in Slot : Verifies(q) /\ slot[q].email = e => q = s
      BY <1>1, <1>4, <2>1, <3>1 DEF VerifiesFollow
    <3>3. e \notin doubled => revived'[e] \in 0 .. 1
      BY <1>1, <1>3, <2>1, <3>2
    <3> QED
      BY <1>1, <2>1, <2>2, <2>3, <3>1, <3>2, <3>3 DEF VerifiesFollow
  <2>6. CASE op = "register"
    <3>1. ~row[e].there /\ ~row[e].verified
      BY <1>1, <1>4, <2>6 DEF CommitsAlone, SlotsPlaced
    <3>2. revived[e] = 0 /\ ~v.verified
      BY <1>1, <1>2, <2>6, <3>1 DEF VerifiesFollow
    <3> QED
      BY <1>1, <2>1, <2>2, <2>3, <2>4, <2>6, <3>1, <3>2 DEF VerifiesFollow
  <2>7. CASE op \in {"request", "reset", "change"}
    BY <1>1, <1>2, <2>2, <2>3, <2>4, <2>7 DEF VerifiesFollow
  <2> QED
    BY <1>1, <2>5, <2>6, <2>7 DEF Op
<1> QED
  BY <1>6, <1>8, <1>9, <1>10, <1>11, <1>12, <1>16, <1>17, <1>18, <1>19

(* A request breaks off, a link expires, an account is suspended.          *)
LEMMA LinkExpiresStep ==
  ASSUME AInv, NEW e \in Email, LinkExpires(e)
  PROVE  AInv'
<1> USE DEF AInv, history
<1>1. /\ row' = [row EXCEPT ![e].live = FALSE] /\ row \in [Email -> Row]
      /\ UNCHANGED <<slot, issued, history>>
  BY DEF LinkExpires, AccountsTypeOK
<1>2. /\ row' \in [Email -> Row]
      /\ \A f \in Email : /\ row'[f].there = row[f].there
                           /\ row'[f].reset = row[f].reset
                           /\ row'[f].link = row[f].link
                           /\ row'[f].status = row[f].status
                           /\ row'[f].verified = row[f].verified
                           /\ row'[f].live => row[f].live
  BY <1>1 DEF Row
<1>3. AccountsTypeOK' /\ SlotsPlaced' /\ CommitsAlone'
  BY <1>1, <1>2 DEF AccountsTypeOK, SlotsPlaced, CommitsAlone, Going
<1>4. RegisteredOnce' /\ ResetLinkStands' /\ TokenUsedOnce' /\ LinksSeen'
  BY <1>1, <1>2
     DEF RegisteredOnce, ResetLinkStands, TokenUsedOnce, LinksSeen, Going
<1>5. PendingFresh' /\ VerifiesFollow' /\ TokensFollow'
  BY <1>1, <1>2
     DEF PendingFresh, VerifiesFollow, TokensFollow, Going, Resets, Links,
           Verifies
<1> QED
  BY <1>3, <1>4, <1>5

LEMMA SuspendStep ==
  ASSUME AInv, NEW e \in Email, Suspend(e)
  PROVE  AInv'
<1> USE DEF AInv, history
<1>1. /\ row' = [row EXCEPT ![e].status = "SUSPENDED"]
      /\ row \in [Email -> Row]
      /\ UNCHANGED <<slot, issued, history>>
  BY DEF Suspend, AccountsTypeOK
<1>2. /\ row' \in [Email -> Row]
      /\ \A f \in Email : /\ row'[f].there = row[f].there
                           /\ row'[f].reset = row[f].reset
                           /\ row'[f].link = row[f].link
                           /\ row'[f].verified = row[f].verified
                           /\ row'[f].live = row[f].live
                           /\ (f # e => row'[f].status = row[f].status)
  BY <1>1 DEF Row, Status
<1>3. AccountsTypeOK' /\ SlotsPlaced' /\ CommitsAlone'
  BY <1>1, <1>2 DEF AccountsTypeOK, SlotsPlaced, CommitsAlone, Going
<1>4. RegisteredOnce' /\ ResetLinkStands' /\ TokenUsedOnce' /\ LinksSeen'
  BY <1>1, <1>2
     DEF RegisteredOnce, ResetLinkStands, TokenUsedOnce, LinksSeen, Going
<1>5. PendingFresh' /\ TokensFollow'
  BY <1>1, <1>2 DEF PendingFresh, TokensFollow, Going, Resets, Links
<1>6. VerifiesFollow'
  BY <1>1, <1>2 DEF VerifiesFollow, Verifies, Going
<1> QED
  BY <1>3, <1>4, <1>5, <1>6

LEMMA AccountsStep ==
  ASSUME AInv, [AccountsNext]_acvars
  PROVE  AInv'
<1>1. CASE UNCHANGED acvars
  BY <1>1 DEF AInv, acvars, history, AccountsTypeOK, SlotsPlaced, CommitsAlone,
     RegisteredOnce, ResetLinkStands, TokenUsedOnce, LinksSeen, PendingFresh,
     VerifiesFollow, TokensFollow, Going, Resets, Links,
           Verifies
<1>2. ASSUME NEW s \in Slot,
             \E op \in Op, e \in Email \cup {NoEmail}, t \in 0 .. MaxToken :
                 Send(s, op, e, t)
      PROVE  AInv'
  BY <1>2, SendStep
<1>3. ASSUME NEW s \in Slot, Read(s) PROVE AInv'
  BY <1>3, ReadStep, ReadLinkStep, ReadTokenStep, ReadCurrentUserStep DEF Read
<1>4. ASSUME NEW s \in Slot, Insert(s) \/ Update(s) \/ Conclude(s) PROVE AInv'
  BY <1>4, InsertStep, UpdateStep, ConcludeStep
<1>5. ASSUME NEW s \in Slot, RollBack(s) PROVE AInv'
  BY <1>5, QuitStep DEF RollBack
<1>6. ASSUME NEW e \in Email, LinkExpires(e) \/ Suspend(e) PROVE AInv'
  BY <1>6, LinkExpiresStep, SuspendStep
<1> QED
  BY <1>1, <1>2, <1>3, <1>4, <1>5, <1>6 DEF AccountsNext

LEMMA AccountsInvariant == AccountsSpec => []AInv
  BY AccountsInitInv, AccountsStep, PTL DEF AccountsSpec

(* The rows, the requests and the observations keep their types.           *)
THEOREM AccountsTyped == AccountsSpec => []AccountsTypeOK
<1>1. AInv => AccountsTypeOK
  BY DEF AInv
<1> QED
  BY <1>1, AccountsInvariant, PTL

(* An address registers once, however many registrations overlap.          *)
THEOREM RegistersOnce == AccountsSpec => []RegisteredOnce
<1>1. AInv => RegisteredOnce
  BY DEF AInv
<1> QED
  BY <1>1, AccountsInvariant, PTL

(* A reset link changes the password once, unless two resets by it both    *)
(* read the row before either committed.                                   *)
THEOREM TokensUsedOnce == AccountsSpec => []TokenUsedOnce
<1>1. AInv => TokenUsedOnce
  BY DEF AInv
<1> QED
  BY <1>1, AccountsInvariant, PTL

(* The last link works until it is used or the password changed after it.  *)
THEOREM ResetLinksStand == AccountsSpec => []ResetLinkStands
<1>1. AInv => ResetLinkStands
  BY DEF AInv
<1> QED
  BY <1>1, AccountsInvariant, PTL

(* A verification ends a suspension of an account once at most, unless two *)
(* had both read the row before either committed.                          *)
THEOREM SuspensionsLiftedOnce == AccountsSpec => []SuspensionLiftedOnce
<1>1. AInv => SuspensionLiftedOnce
  BY DEF AInv, VerifiesFollow, SuspensionLiftedOnce
<1> QED
  BY <1>1, AccountsInvariant, PTL

-----------------------------------------------------------------------------
(* The totals of a chat session: who has updated the row holds it, and its *)
(* value is what was committed and its own messages.                       *)
ChatInv ==
    /\ messages \in Totals /\ totals \in Totals
    /\ talker \in [Writer -> TalkerState]
    /\ TotalsMatch
    /\ \A v, w \in Writer : talker[v].locks /\ talker[w].locks => v = w
    /\ \A w \in Writer :
          /\ talker[w].pc = "commit" => talker[w].locks
          /\ talker[w].pc = "idle" => ~talker[w].locks
          /\ talker[w].locks => talker[w].value = Plus(totals, talker[w].added)
          /\ ~talker[w].locks => talker[w].added = None

LEMMA PlusAssociates ==
  ASSUME NEW a \in Totals, NEW b \in Totals, NEW c \in Totals
  PROVE  /\ Plus(a, b) \in Totals
         /\ Plus(Plus(a, b), c) = Plus(a, Plus(b, c))
         /\ Plus(None, b) = b
  BY DEF Plus, Totals, None

LEMMA NoneTyped == None \in Totals /\ IdleTalker \in TalkerState
  BY DEF None, Totals, IdleTalker, TalkerState

LEMMA ChatInit == LedgerInit => ChatInv
  BY NoneTyped DEF LedgerInit, ChatInv, TotalsMatch, IdleTalker, None

LEMMA AddMessageStep ==
  ASSUME ChatInv, NEW w \in Writer, NEW n \in TokensUsed, AddMessage(w, n)
  PROVE  ChatInv'
<1>1. /\ talker' = [talker EXCEPT ![w].pc = "update", ![w].next = Message(n)]
      /\ talker \in [Writer -> TalkerState]
      /\ UNCHANGED <<messages, totals>>
  BY DEF AddMessage, ChatInv
<1>2. Message(n) \in Totals
  BY LedgerAssumption DEF Message, Totals
<1>3. /\ talker' \in [Writer -> TalkerState]
      /\ talker'[w].pc = "update"
      /\ \A v \in Writer : /\ v # w => talker'[v] = talker[v]
                            /\ talker'[v].locks = talker[v].locks
                            /\ talker'[v].value = talker[v].value
                            /\ talker'[v].added = talker[v].added
  BY <1>1, <1>2 DEF TalkerState
<1> QED
  BY <1>1, <1>3 DEF ChatInv, TotalsMatch

LEMMA UpdateTotalsStep ==
  ASSUME ChatInv, NEW w \in Writer, UpdateTotals(w)
  PROVE  ChatInv'
<1> DEFINE me == talker[w]
<1>1. /\ me.pc = "update" /\ \A v \in Writer \ {w} : ~talker[v].locks
      /\ talker' = [talker EXCEPT
            ![w].pc = "commit", ![w].locks = TRUE,
            ![w].added = Plus(@, me.next),
            ![w].value = Plus(SeenTotals(w), me.next)]
      /\ UNCHANGED <<messages, totals>>
      /\ talker \in [Writer -> TalkerState]
  BY DEF UpdateTotals, ChatInv
<1>2. /\ me.added \in Totals /\ me.next \in Totals /\ me.value \in Totals
      /\ totals \in Totals /\ messages \in Totals
  BY <1>1 DEF ChatInv, TalkerState
<1>3. /\ Plus(SeenTotals(w), me.next) = Plus(totals, Plus(me.added, me.next))
      /\ SeenTotals(w) \in Totals
  <2>1. CASE me.locks
    <3>1. SeenTotals(w) = Plus(totals, me.added)
      BY <2>1 DEF SeenTotals, ChatInv
    <3> HIDE DEF me
    <3>2. Plus(totals, me.added) \in Totals
      BY <1>2, PlusAssociates
    <3>3. \A a, b, c \in Totals : Plus(Plus(a, b), c) = Plus(a, Plus(b, c))
      BY PlusAssociates
    <3>4. Plus(Plus(totals, me.added), me.next)
              = Plus(totals, Plus(me.added, me.next))
      BY <1>2, <3>3, Zenon
    <3> QED
      BY <3>1, <3>2, <3>4
  <2>2. CASE ~me.locks
    BY <1>2, <2>2, PlusAssociates DEF SeenTotals, ChatInv
  <2> QED
    BY <2>1, <2>2
<1>4. /\ Plus(me.added, me.next) \in Totals
      /\ Plus(SeenTotals(w), me.next) \in Totals
  BY <1>2, <1>3, PlusAssociates
<1>5. /\ talker' \in [Writer -> TalkerState]
      /\ talker'[w].locks /\ talker'[w].pc = "commit"
      /\ talker'[w].added = Plus(me.added, me.next)
      /\ talker'[w].value = Plus(SeenTotals(w), me.next)
      /\ \A v \in Writer : v # w => talker'[v] = talker[v]
  BY <1>1, <1>2, <1>4, ZenonT(40) DEF TalkerState
<1> HIDE DEF me
<1> QED
  BY <1>1, <1>2, <1>3, <1>5, ZenonT(40) DEF ChatInv, TotalsMatch

LEMMA ChatStep ==
  ASSUME ChatInv, [LedgerNext]_lgvars
  PROVE  ChatInv'
<1>1. CASE UNCHANGED chat
  BY <1>1 DEF ChatInv, TotalsMatch, chat
<1>2. ASSUME NEW w \in Writer, \/ CommitMessages(w)
                               \/ RollBackMessages(w)
      PROVE  ChatInv'
  <2>1. /\ talker' = [talker EXCEPT ![w] = IdleTalker]
        /\ talker \in [Writer -> TalkerState]
        /\ ~IdleTalker.locks /\ IdleTalker.pc = "idle"
        /\ IdleTalker.added = None
    BY <1>2 DEF CommitMessages, RollBackMessages, ChatInv, IdleTalker
  <2>2. /\ talker' \in [Writer -> TalkerState] /\ talker'[w] = IdleTalker
        /\ \A v \in Writer : v # w => talker'[v] = talker[v]
    BY <2>1, NoneTyped
  <2>3. CASE CommitMessages(w)
    <3>1. /\ talker[w].locks
          /\ messages' = Plus(messages, talker[w].added)
          /\ totals' = talker[w].value
          /\ talker[w].value = Plus(totals, talker[w].added)
          /\ talker[w].added \in Totals
      BY <2>1, <2>3 DEF CommitMessages, ChatInv, TalkerState
    <3>2. messages' \in Totals /\ totals' = messages'
      BY <3>1, PlusAssociates DEF ChatInv, TotalsMatch
    <3>3. \A v \in Writer : ~talker'[v].locks
      BY <2>1, <2>2, <3>1 DEF ChatInv
    <3> QED
      BY <2>1, <2>2, <3>2, <3>3 DEF ChatInv, TotalsMatch
  <2>4. CASE RollBackMessages(w)
    BY <2>1, <2>2, <2>4 DEF RollBackMessages, ChatInv, TotalsMatch
  <2> QED
    BY <1>2, <2>3, <2>4
<1>3. CASE DeleteSession
  BY <1>3, NoneTyped DEF DeleteSession, ChatInv, TotalsMatch
<1>4. ASSUME NEW w \in Writer, \/ \E n \in TokensUsed : AddMessage(w, n)
                               \/ UpdateTotals(w)
      PROVE  ChatInv'
  BY <1>4, AddMessageStep, UpdateTotalsStep
<1>5. NumberingNext => UNCHANGED chat
  BY DEF NumberingNext, Tick, GenerateNumber, InsertNumber, CommitRow,
         RollBackRow, SoftDelete, DeleteRow
<1> QED
  BY <1>1, <1>2, <1>3, <1>4, <1>5 DEF LedgerNext, ChatNext, lgvars

(* The totals of a session are those of its messages, for any number of    *)
(* transactions that add messages to it.                                   *)
THEOREM TotalsAreRight == LedgerSpec => []TotalsMatch
<1>1. ChatInv => TotalsMatch
  BY DEF ChatInv
<1> QED
  BY <1>1, ChatInit, ChatStep, PTL DEF LedgerSpec

-----------------------------------------------------------------------------
(* The running numbers.  Those of a day are 1 to n as long as every one is *)
(* at most one ahead of the rows of its day, and no two rows share one.    *)
NumbersTyped ==
    /\ table \in Tables
    /\ now \in 0 .. MaxTick
    /\ rows \subseteq RowOfTable /\ IsFiniteSet(rows)
    /\ writer \in [Writer -> WriterState]

UniqueRows == \A x, y \in rows : x.number = y.number => x = y

RowsCounted ==
    \A x \in rows :
        LET day == Day(x.number.at)
        IN  day \notin purged => x.number.seq \in 1 .. CountOfDay(day)

WritersCounted ==
    \A w \in Writer :
        LET day == Day(writer[w].number.at)
        IN  writer[w].pc # "idle" /\ day \notin purged =>
                /\ writer[w].number.seq \in 1 .. CountOfDay(day) + 1
                /\ writer[w].alone =>
                       writer[w].number.seq = CountOfDay(day) + 1

InsertsUnique ==
    \A w \in Writer : writer[w].pc = "commit" =>
        /\ \A x \in rows : x.number # writer[w].number
        /\ \A v \in Writer :
              writer[v].pc = "commit" /\ writer[v].number = writer[w].number
                  => v = w

(* The number of an application or a report names the day alone.           *)
NamesDay(number) == number.at = Day(number.at) * TicksPerDay
DaysNamed ==
    table # "transaction" =>
        /\ \A x \in rows : NamesDay(x.number)
        /\ \A w \in Writer :
              writer[w].pc # "idle" => NamesDay(writer[w].number)

HasIds == \A w \in Writer : writer[w].pc # "idle" => writer[w].id \in RowId

NInv ==
    /\ NumbersTyped
    /\ HasIds
    /\ UniqueRows
    /\ RowsCounted
    /\ WritersCounted
    /\ InsertsUnique
    /\ DaysNamed
    /\ NumbersDense
    /\ AloneNeverRefused

LEMMA DayFacts ==
  ASSUME NEW tick \in 0 .. MaxTick
  PROVE  /\ Day(tick) \in Nat
         /\ Day(tick) * TicksPerDay \in 0 .. MaxTick
         /\ Day(Day(tick) * TicksPerDay) = Day(tick)
<1>1. TicksPerDay \in Nat \ {0} /\ MaxTick \in Nat /\ tick \in Nat
  BY LedgerAssumption
<1>2. Day(tick) \in Nat /\ Day(tick) * TicksPerDay \in 0 .. tick
  BY <1>1 DEF Day
<1>3. \A d \in Nat : (d * TicksPerDay) \div TicksPerDay = d
  BY <1>1
<1> QED
  BY <1>1, <1>2, <1>3 DEF Day

LEMMA CountTyped ==
  ASSUME NInv, NEW day
  PROVE  /\ IsFiniteSet(RowsOfDay(day))
         /\ CountOfDay(day) \in Nat
  BY FS_Subset, FS_CardinalityType
     DEF NInv, NumbersTyped, RowsOfDay, CountOfDay

LEMMA IdleWriterTyped ==
  IdleWriter \in WriterState /\ IdleWriter.pc = "idle" /\ ~IdleWriter.alone
  BY LedgerAssumption DEF IdleWriter, WriterState, NoNumber, Number

LEMMA NumbersInit == LedgerInit => NInv
<1> SUFFICES ASSUME LedgerInit PROVE NInv
  OBVIOUS
<1>1. NumbersTyped
  BY IdleWriterTyped, FS_EmptySet, LedgerAssumption
     DEF LedgerInit, NumbersTyped
<1>2. rows = {} /\ \A w \in Writer : writer[w].pc = "idle"
  BY IdleWriterTyped DEF LedgerInit
<1>3. \A day : RowsOfDay(day) = {}
  BY <1>2 DEF RowsOfDay
<1>4. NumbersDense
  BY <1>3, FS_EmptySet DEF NumbersDense
<1> QED
  BY <1>1, <1>2, <1>4
     DEF LedgerInit, NInv, UniqueRows, RowsCounted, WritersCounted,
         InsertsUnique, DaysNamed, AloneNeverRefused, HasIds

(* The rows stay, and one writer moves on.                                 *)
LEMMA WriterStep ==
  ASSUME NInv, NEW w \in Writer, NEW next \in WriterState,
         writer' = [writer EXCEPT ![w] = next],
         UNCHANGED <<table, now, rows, purged>>, AloneNeverRefused',
         next.pc # "idle" => next.id \in RowId,
         LET day == Day(next.number.at)
         IN  next.pc # "idle" /\ day \notin purged =>
                /\ next.number.seq \in 1 .. CountOfDay(day) + 1
                /\ next.alone => next.number.seq = CountOfDay(day) + 1,
         next.pc = "commit" =>
            /\ \A x \in rows : x.number # next.number
            /\ \A v \in Writer \ {w} :
                  ~(writer[v].pc = "commit" /\ writer[v].number = next.number),
         table # "transaction" /\ next.pc # "idle" => NamesDay(next.number)
  PROVE  NInv'
<1>1. /\ writer' \in [Writer -> WriterState] /\ writer'[w] = next
      /\ \A v \in Writer : v # w => writer'[v] = writer[v]
  BY DEF NInv, NumbersTyped
<1>2. \A day : RowsOfDay(day)' = RowsOfDay(day)
                /\ CountOfDay(day)' = CountOfDay(day)
  BY DEF RowsOfDay, CountOfDay
<1>3. NumbersTyped' /\ UniqueRows' /\ HasIds'
  BY <1>1 DEF NInv, NumbersTyped, UniqueRows, HasIds
<1>4. RowsCounted'
  BY <1>2 DEF NInv, RowsCounted
<1>5. WritersCounted'
  BY <1>1, <1>2 DEF NInv, WritersCounted
<1>6. InsertsUnique'
  BY <1>1 DEF NInv, InsertsUnique
<1>7. DaysNamed'
  BY <1>1 DEF NInv, DaysNamed
<1>8. NumbersDense'
  BY <1>2 DEF NInv, NumbersDense
<1> QED
  BY <1>3, <1>4, <1>5, <1>6, <1>7, <1>8 DEF NInv

LEMMA GenerateStep ==
  ASSUME NInv, NEW w \in Writer, NEW id \in RowId, GenerateNumber(w, id)
  PROVE  NInv'
<1> DEFINE count == CountOfDay(Day(now))
           number == [at |-> Prefix, seq |-> count + 1]
           next == [pc |-> "insert", id |-> id, alone |-> TRUE,
                    number |-> number]
<1>1. writer' = [writer EXCEPT ![w] = next]
      /\ UNCHANGED <<table, now, rows, purged, refused>>
  BY DEF GenerateNumber
<1>2. now \in 0 .. MaxTick /\ count \in Nat /\ count + 1 \in Nat
  BY CountTyped DEF NInv, NumbersTyped
<1>3. /\ Prefix \in 0 .. MaxTick /\ Day(Prefix) = Day(now)
      /\ table # "transaction" => Prefix = Day(now) * TicksPerDay
  BY <1>2, DayFacts DEF Prefix
<1>4. /\ number \in Number /\ number.at = Prefix /\ number.seq = count + 1
      /\ table # "transaction" => NamesDay(number)
  BY <1>2, <1>3 DEF Number, NamesDay
<1> HIDE DEF number
<1>5. /\ next \in WriterState /\ next.number = number
      /\ next.pc = "insert" /\ next.id \in RowId
  BY <1>4 DEF WriterState
<1> HIDE DEF next
<1>6. AloneNeverRefused'
  BY <1>1 DEF NInv, AloneNeverRefused
<1>7. LET day == Day(next.number.at)
      IN  next.pc # "idle" /\ day \notin purged =>
                /\ next.number.seq \in 1 .. CountOfDay(day) + 1
                /\ next.alone => next.number.seq = CountOfDay(day) + 1
  BY <1>2, <1>3, <1>4, <1>5
<1> QED
  BY <1>1, <1>4, <1>5, <1>6, <1>7, WriterStep

LEMMA InsertNumberStep ==
  ASSUME NInv, NEW w \in Writer, InsertNumber(w)
  PROVE  NInv'
<1> DEFINE n == writer[w].number
           taken == \E x \in rows : x.number = n
           next == IF taken THEN IdleWriter
                   ELSE [writer[w] EXCEPT !.pc = "commit"]
<1>1. /\ writer[w].pc = "insert" /\ writer[w] \in WriterState
      /\ \A v \in Writer \ {w} :
            ~(writer[v].pc = "commit" /\ writer[v].number = n)
      /\ writer' = [writer EXCEPT ![w] = next]
      /\ refused' = (refused \/ (taken /\ writer[w].alone
                                    /\ Day(n.at) \notin purged))
      /\ UNCHANGED <<table, now, rows, purged>>
  BY DEF InsertNumber, NInv, NumbersTyped
<1>2. /\ next \in WriterState
      /\ next.pc # "idle" => ~taken /\ next.number = n
                                /\ next.alone = writer[w].alone
                                /\ next.id = writer[w].id
  BY <1>1, IdleWriterTyped DEF WriterState
<1>8. next.pc # "idle" => next.id \in RowId
  BY <1>1, <1>2 DEF NInv, HasIds
<1>3. ~(taken /\ writer[w].alone /\ Day(n.at) \notin purged)
  <2> SUFFICES ASSUME NEW x \in rows, x.number = n, writer[w].alone,
                      Day(n.at) \notin purged
               PROVE  FALSE
    OBVIOUS
  <2>1. n.seq = CountOfDay(Day(n.at)) + 1
    BY <1>1 DEF NInv, WritersCounted
  <2>2. n.seq \in 1 .. CountOfDay(Day(n.at))
    BY DEF NInv, RowsCounted
  <2> QED
    BY <2>1, <2>2, CountTyped
<1>4. AloneNeverRefused'
  BY <1>1, <1>3 DEF NInv, AloneNeverRefused
<1>5. LET day == Day(next.number.at)
      IN  next.pc # "idle" /\ day \notin purged =>
                /\ next.number.seq \in 1 .. CountOfDay(day) + 1
                /\ next.alone => next.number.seq = CountOfDay(day) + 1
  BY <1>1, <1>2 DEF NInv, WritersCounted
<1>6. table # "transaction" /\ next.pc # "idle" => NamesDay(next.number)
  BY <1>1, <1>2 DEF NInv, DaysNamed
<1>7. next.pc = "commit" =>
          /\ \A x \in rows : x.number # next.number
          /\ \A v \in Writer \ {w} :
                ~(writer[v].pc = "commit" /\ writer[v].number = next.number)
  BY <1>1, <1>2
<1> HIDE DEF next
<1> QED
  BY <1>1, <1>2, <1>4, <1>5, <1>6, <1>7, <1>8, WriterStep

LEMMA RollBackStep ==
  ASSUME NInv, NEW w \in Writer, RollBackRow(w)
  PROVE  NInv'
<1>1. writer' = [writer EXCEPT ![w] = IdleWriter]
      /\ UNCHANGED <<table, now, rows, purged, refused>>
  BY DEF RollBackRow
<1>2. AloneNeverRefused'
  BY <1>1 DEF NInv, AloneNeverRefused
<1> QED
  BY <1>1, <1>2, IdleWriterTyped, WriterStep

(* A committed row takes the next number of its day, or a number that the  *)
(* day skipped: a day that has every number up to n takes n + 1.           *)
LEMMA CommitRowStep ==
  ASSUME NInv, NEW w \in Writer, CommitRow(w)
  PROVE  NInv'
<1> DEFINE n == writer[w].number
           new == [id |-> writer[w].id, number |-> n, hidden |-> FALSE]
<1>0. PICK today : today = Day(n.at)
  OBVIOUS
<1>1. /\ writer[w].pc = "commit" /\ writer[w] \in WriterState
      /\ n \in Number /\ writer[w].id \in RowId \cup {NoRowId}
      /\ rows' = rows \cup {new}
      /\ writer' = [v \in Writer |->
            IF v = w THEN IdleWriter
            ELSE IF Day(writer[v].number.at) = today
            THEN [writer[v] EXCEPT !.alone = FALSE] ELSE writer[v]]
      /\ UNCHANGED <<table, now, purged, refused>>
  BY <1>0 DEF CommitRow, NInv, NumbersTyped, WriterState
<1>2. new.number = n /\ \A x \in rows : x.number # n
  BY <1>1 DEF NInv, InsertsUnique
<1>3. new \in RowOfTable /\ new \notin rows
  BY <1>1, <1>2 DEF NInv, HasIds, RowOfTable
<1> HIDE DEF new
<1>4. /\ writer' \in [Writer -> WriterState]
      /\ writer'[w] = IdleWriter
      /\ \A v \in Writer : v # w =>
            /\ writer'[v].pc = writer[v].pc
            /\ writer'[v].number = writer[v].number
            /\ writer'[v].id = writer[v].id
            /\ writer'[v].alone =>
                  writer[v].alone /\ Day(writer[v].number.at) # today
  <2>1. ASSUME NEW v \in Writer, v # w
        PROVE  /\ writer'[v] \in WriterState
               /\ writer'[v].pc = writer[v].pc
               /\ writer'[v].number = writer[v].number
               /\ writer'[v].id = writer[v].id
               /\ writer'[v].alone =>
                     writer[v].alone /\ Day(writer[v].number.at) # today
    <3>1. writer[v] \in WriterState
      BY DEF NInv, NumbersTyped
    <3>2. writer'[v] = IF Day(writer[v].number.at) = today
                       THEN [writer[v] EXCEPT !.alone = FALSE] ELSE writer[v]
      BY <1>1, <2>1
    <3> QED
      BY <3>1, <3>2, ZenonT(40) DEF WriterState
  <2>2. writer'[w] = IdleWriter
    BY <1>1
  <2> QED
    BY <1>1, <2>1, <2>2, IdleWriterTyped
<1>5. /\ RowsOfDay(today)' = RowsOfDay(today) \cup {new}
      /\ CountOfDay(today)' = CountOfDay(today) + 1
      /\ \A day : day # today => /\ RowsOfDay(day)' = RowsOfDay(day)
                                 /\ CountOfDay(day)' = CountOfDay(day)
  <2>1. RowsOfDay(today)' = RowsOfDay(today) \cup {new}
    BY <1>0, <1>1, <1>2 DEF RowsOfDay
  <2>2. \A day : day # today => RowsOfDay(day)' = RowsOfDay(day)
    BY <1>0, <1>1, <1>2 DEF RowsOfDay
  <2>3. new \notin RowsOfDay(today)
    BY <1>3 DEF RowsOfDay
  <2>4. Cardinality(RowsOfDay(today) \cup {new})
            = Cardinality(RowsOfDay(today)) + 1
    BY <2>3, CountTyped, FS_AddElement
  <2> QED
    BY <2>1, <2>2, <2>4 DEF CountOfDay
<1>6. \A day : CountOfDay(day) \in Nat
  BY CountTyped
<1>7. today \notin purged => n.seq \in 1 .. CountOfDay(today) + 1
  BY <1>0, <1>1 DEF NInv, WritersCounted
<1> HIDE DEF n
<1>8. NumbersTyped' /\ UniqueRows' /\ HasIds'
  BY <1>1, <1>2, <1>3, <1>4, IdleWriterTyped, FS_AddElement
     DEF NInv, NumbersTyped, UniqueRows, HasIds
<1>9. RowsCounted'
  <2> SUFFICES ASSUME NEW x \in rows', NEW day, day = Day(x.number.at),
                      day \notin purged
               PROVE  x.number.seq \in 1 .. CountOfDay(day)'
    BY <1>1 DEF RowsCounted
  <2>1. CASE x = new
    BY <1>0, <1>2, <1>5, <1>6, <1>7, <2>1
  <2>2. CASE x \in rows
    <3>1. x.number.seq \in 1 .. CountOfDay(day)
      BY <2>2 DEF NInv, RowsCounted
    <3> QED
      BY <1>5, <1>6, <3>1
  <2> QED
    BY <1>1, <2>1, <2>2
<1>10. WritersCounted'
  <2> SUFFICES ASSUME NEW v \in Writer, writer'[v].pc # "idle",
                      NEW day, day = Day(writer'[v].number.at),
                      day \notin purged
               PROVE  /\ writer'[v].number.seq \in 1 .. CountOfDay(day)' + 1
                      /\ writer'[v].alone =>
                            writer'[v].number.seq = CountOfDay(day)' + 1
    BY <1>1 DEF WritersCounted
  <2>1. v # w
    BY <1>4, IdleWriterTyped
  <2>2. /\ writer[v].number.seq \in 1 .. CountOfDay(day) + 1
        /\ writer[v].alone => writer[v].number.seq = CountOfDay(day) + 1
    BY <1>4, <2>1 DEF NInv, WritersCounted
  <2>3. writer'[v].alone => writer[v].alone /\ day # today
    BY <1>4, <2>1
  <2>4. CASE day = today
    BY <1>4, <1>5, <1>6, <2>1, <2>2, <2>3, <2>4
  <2>5. CASE day # today
    BY <1>4, <1>5, <2>1, <2>2, <2>3, <2>5
  <2> QED
    BY <2>4, <2>5
<1>11. InsertsUnique'
  BY <1>1, <1>2, <1>4, IdleWriterTyped DEF NInv, InsertsUnique, n
<1>12. DaysNamed'
  BY <1>1, <1>2, <1>4, IdleWriterTyped DEF NInv, DaysNamed, n
<1>13. NumbersDense'
  <2> SUFFICES ASSUME table # "transaction", NEW tick \in 0 .. MaxTick,
                      NEW day, day = Day(tick), day \notin purged
               PROVE  {x.number.seq : x \in RowsOfDay(day)'}
                          = 1 .. CountOfDay(day)'
    BY <1>1 DEF NumbersDense, CountOfDay
  <2>1. {x.number.seq : x \in RowsOfDay(day)}
            = 1 .. CountOfDay(day)
    BY DEF NInv, NumbersDense, CountOfDay
  <2>2. CASE day # today
    BY <1>5, <2>1, <2>2
  <2>3. CASE day = today
    <3>1. n.seq \notin 1 .. CountOfDay(today)
      <4> SUFFICES ASSUME NEW x \in RowsOfDay(today), x.number.seq = n.seq
                   PROVE  FALSE
        BY <2>1, <2>3
      <4>1. x \in rows /\ Day(x.number.at) = Day(n.at) /\ x.number \in Number
        BY <1>0 DEF RowsOfDay, NInv, NumbersTyped, RowOfTable
      <4>2. NamesDay(x.number) /\ NamesDay(n)
        BY <1>1, <4>1 DEF NInv, DaysNamed, n
      <4>3. x.number = n
        BY <1>1, <4>1, <4>2 DEF NamesDay, Number
      <4> QED
        BY <1>2, <4>1, <4>3
    <3>2. n.seq = CountOfDay(today) + 1
      BY <1>6, <1>7, <2>3, <3>1
    <3>3. {x.number.seq : x \in RowsOfDay(today)'}
              = {x.number.seq : x \in RowsOfDay(today)} \cup {n.seq}
      BY <1>2, <1>5
    <3>4. {x.number.seq : x \in RowsOfDay(today)} = 1 .. CountOfDay(today)
      BY <2>1, <2>3
    <3>5. {x.number.seq : x \in RowsOfDay(today)'} = 1 .. CountOfDay(today)'
      BY <1>5, <1>6, <3>2, <3>3, <3>4
    <3> QED
      BY <2>3, <3>5
  <2> QED
    BY <2>2, <2>3
<1> QED
  BY <1>1, <1>8, <1>9, <1>10, <1>11, <1>12, <1>13
     DEF NInv, AloneNeverRefused

(* A softly deleted row keeps its number and its place in the count.       *)
LEMMA SoftDeleteStep ==
  ASSUME NInv, NEW x \in rows, SoftDelete(x)
  PROVE  NInv'
<1> DEFINE y == [x EXCEPT !.hidden = TRUE]
<1>1. /\ ~x.hidden /\ x \in RowOfTable
      /\ rows' = (rows \ {x}) \cup {y}
      /\ UNCHANGED <<table, now, writer, purged, refused>>
  BY DEF SoftDelete, NInv, NumbersTyped
<1>2. y \in RowOfTable /\ y.number = x.number /\ y.hidden
  BY <1>1 DEF RowOfTable
<1>3. y \notin rows
  BY <1>1, <1>2 DEF NInv, UniqueRows
<1> HIDE DEF y
<1>4. \A day : CountOfDay(day)' = CountOfDay(day)
  <2> TAKE day
  <2>1. CASE x \in RowsOfDay(day)
    <3>1. RowsOfDay(day)' = (RowsOfDay(day) \ {x}) \cup {y}
      BY <1>1, <1>2, <2>1 DEF RowsOfDay
    <3>2. y \notin RowsOfDay(day)
      BY <1>3 DEF RowsOfDay
    <3>3. /\ IsFiniteSet(RowsOfDay(day) \ {x})
          /\ Cardinality(RowsOfDay(day) \ {x}) = CountOfDay(day) - 1
      BY <2>1, CountTyped, FS_RemoveElement DEF CountOfDay
    <3>4. Cardinality((RowsOfDay(day) \ {x}) \cup {y}) = CountOfDay(day) - 1 + 1
      BY <3>2, <3>3, FS_AddElement
    <3> QED
      BY <3>1, <3>4, CountTyped DEF CountOfDay
  <2>2. CASE x \notin RowsOfDay(day)
    <3>1. RowsOfDay(day)' = RowsOfDay(day)
      BY <1>1, <1>2, <2>2 DEF RowsOfDay
    <3> QED
      BY <3>1 DEF CountOfDay
  <2> QED
    BY <2>1, <2>2
<1>5. \A day : {z.number.seq : z \in RowsOfDay(day)'}
                  = {z.number.seq : z \in RowsOfDay(day)}
  BY <1>1, <1>2 DEF RowsOfDay
<1>6. NumbersTyped'
  BY <1>1, <1>2, FS_RemoveElement, FS_AddElement DEF NInv, NumbersTyped
<1>7. \A z \in rows' : z = y \/ z \in rows \ {x}
  BY <1>1
<1>8. UniqueRows' /\ RowsCounted' /\ InsertsUnique' /\ DaysNamed'
  BY <1>1, <1>2, <1>4, <1>7
     DEF NInv, UniqueRows, RowsCounted, InsertsUnique, DaysNamed
<1>9. WritersCounted' /\ HasIds'
  BY <1>1, <1>4 DEF NInv, WritersCounted, HasIds
<1>10. NumbersDense'
  BY <1>1, <1>4, <1>5 DEF NInv, NumbersDense, CountOfDay
<1> QED
  BY <1>1, <1>6, <1>8, <1>9, <1>10 DEF NInv, AloneNeverRefused

(* A deleted row leaves a gap in its day, and in no other.                 *)
LEMMA DeleteRowStep ==
  ASSUME NInv, NEW x \in rows, DeleteRow(x)
  PROVE  NInv'
<1>1. /\ rows' = rows \ {x}
      /\ purged' = purged \cup {Day(x.number.at)}
      /\ UNCHANGED <<table, now, writer, refused>>
  BY DEF DeleteRow
<1>2. \A day : day # Day(x.number.at) => /\ RowsOfDay(day)' = RowsOfDay(day)
                                        /\ CountOfDay(day)' = CountOfDay(day)
  BY <1>1 DEF RowsOfDay, CountOfDay
<1>3. \A day : day \notin purged' => day # Day(x.number.at) /\ day \notin purged
  BY <1>1
<1>4. NumbersTyped'
  BY <1>1, FS_RemoveElement DEF NInv, NumbersTyped
<1>5. UniqueRows' /\ InsertsUnique' /\ DaysNamed' /\ HasIds'
  BY <1>1 DEF NInv, UniqueRows, InsertsUnique, DaysNamed, HasIds
<1>6. RowsCounted'
  BY <1>1, <1>2, <1>3 DEF NInv, RowsCounted
<1>7. WritersCounted'
  BY <1>1, <1>2, <1>3 DEF NInv, WritersCounted
<1>8. NumbersDense'
  BY <1>1, <1>2, <1>3 DEF NInv, NumbersDense
<1> QED
  BY <1>1, <1>4, <1>5, <1>6, <1>7, <1>8 DEF NInv, AloneNeverRefused

LEMMA NumberingStep ==
  ASSUME NInv, [LedgerNext]_lgvars
  PROVE  NInv'
<1>1. CASE UNCHANGED <<table, rows, writer, purged, refused>>
           /\ now' \in 0 .. MaxTick
  <2>1. \A day : RowsOfDay(day)' = RowsOfDay(day)
                  /\ CountOfDay(day)' = CountOfDay(day)
    BY <1>1 DEF RowsOfDay, CountOfDay
  <2> QED
    BY <1>1, <2>1
       DEF NInv, NumbersTyped, HasIds, UniqueRows, RowsCounted, WritersCounted,
           InsertsUnique, DaysNamed, NumbersDense, AloneNeverRefused
<1>2. CASE UNCHANGED numbering
  BY <1>1, <1>2 DEF numbering, NInv, NumbersTyped
<1>3. CASE Tick
  BY <1>1, <1>3, LedgerAssumption DEF Tick, NInv, NumbersTyped
<1>4. ASSUME NEW w \in Writer,
             \/ \E id \in RowId : GenerateNumber(w, id)
             \/ InsertNumber(w)
             \/ CommitRow(w)
             \/ RollBackRow(w)
      PROVE  NInv'
  BY <1>4, GenerateStep, InsertNumberStep, CommitRowStep, RollBackStep
<1>5. ASSUME NEW x \in rows, SoftDelete(x) \/ DeleteRow(x)
      PROVE  NInv'
  BY <1>5, SoftDeleteStep, DeleteRowStep
<1>6. ChatNext => UNCHANGED numbering
  BY DEF ChatNext, AddMessage, UpdateTotals, CommitMessages, RollBackMessages,
         DeleteSession
<1> QED
  BY <1>2, <1>3, <1>4, <1>5, <1>6 DEF LedgerNext, NumberingNext, lgvars

LEMMA NumberingInvariant == LedgerSpec => []NInv
  BY NumbersInit, NumberingStep, PTL DEF LedgerSpec

(* Without deletions from the table the applications and reports of a day  *)
(* are numbered 1 to n, whichever creations overlap.                       *)
THEOREM NumbersAreDense == LedgerSpec => []NumbersDense
<1>1. NInv => NumbersDense
  BY DEF NInv
<1> QED
  BY <1>1, NumberingInvariant, PTL

(* A creation that was alone in its day gets its number.                   *)
THEOREM AloneIsNumbered == LedgerSpec => []AloneNeverRefused
<1>1. NInv => AloneNeverRefused
  BY DEF NInv
<1> QED
  BY <1>1, NumberingInvariant, PTL

-----------------------------------------------------------------------------
(* An attempt that is under way has an address.                            *)
AttemptsPlaced ==
    /\ \A a \in Attempt : att[a].pc # "idle" => att[a].ip \in Ip
    /\ \A a \in Attempt : att[a].pc \in {"select", "store", "clear", "unlock",
                                         "commit"} => att[a].user \in User
    /\ \A a \in Attempt : att[a].writes # "none" => att[a].user \in User

(* TypeOK without the tallies of the observer.                             *)
Shape ==
    /\ ip_fail \in [Ip -> Counter]
    /\ ip_lock \subseteq Ip
    /\ outlives \subseteq ip_lock
    /\ failed \in [User -> Nat]
    /\ locked \subseteq User
    /\ att \in [Attempt -> AttemptState]
    /\ died \subseteq Ip
    /\ lifted \subseteq Ip

IInv == Shape /\ AttemptsPlaced /\ TtlPending /\ LimitLocks

-----------------------------------------------------------------------------
LEMMA IdleIsWellTyped == IdleAttempt \in AttemptState
  BY DEF IdleAttempt, AttemptState, Pc, Writes

LEMMA InitIInv == Init => IInv
<1> SUFFICES ASSUME Init PROVE IInv
  OBVIOUS
<1>1. Shape
  BY IdleIsWellTyped DEF Init, Shape, Counter, Absent
<1>2. AttemptsPlaced
  BY DEF Init, AttemptsPlaced, IdleAttempt
<1>3. TtlPending /\ LimitLocks
  BY LockoutAssumption DEF Init, TtlPending, LimitLocks, Absent
<1> QED
  BY <1>1, <1>2, <1>3 DEF IInv

-----------------------------------------------------------------------------
(* Steps of an attempt that leave Redis alone: the attempt must not be one *)
(* that a counter is waiting for.                                          *)
LEMMA LocalStep ==
  ASSUME IInv, NEW a \in Attempt, UNCHANGED <<redis, lifted>>,
         died' \in {died, died \cup {att[a].ip}},
         att[a].pc \in {"expire", "setlock"} => att[a].ip \in died',
         failed' \in [User -> Nat], locked' \subseteq User,
         att' \in [Attempt -> AttemptState],
         \A b \in Attempt \ {a} : att'[b] = att[b],
         att[a].pc # "idle" \/ died' = died,
         att'[a].pc # "idle" => att'[a].ip \in Ip,
         att'[a].pc \in {"select", "store", "clear", "unlock", "commit"}
             => att'[a].user \in User,
         att'[a].writes # "none" => att'[a].user \in User
  PROVE  IInv'
<1>1. Shape'
  BY DEF IInv, Shape, AttemptsPlaced, redis
<1>2. AttemptsPlaced'
  BY DEF IInv, AttemptsPlaced
<1>3. TtlPending'
  BY DEF IInv, TtlPending, Expiring, redis
<1>4. LimitLocks'
  BY DEF IInv, LimitLocks, redis
<1> QED
  BY <1>1, <1>2, <1>3, <1>4 DEF IInv

LEMMA LocalSteps ==
  ASSUME IInv, NEW a \in Attempt,
         \/ \E i \in Ip : Arrive(a, i)
         \/ CheckIpLockout(a)
         \/ Lookup(a)
         \/ SelectFailed(a)
         \/ UpdateFailed(a)
         \/ LockAccount(a)
         \/ Raise(a)
         \/ UpdateLastLogin(a)
         \/ Commit(a)
         \/ Abort(a)
  PROVE  IInv'
<1> USE DEF Goto, Wrote, End, redis, users, AttemptState, Pc, Writes
<1>1. Shape /\ AttemptsPlaced /\ IdleAttempt \in AttemptState
  BY IdleIsWellTyped DEF IInv
<1>2. /\ att[a] \in AttemptState
      /\ att[a].pc # "idle" => att[a].ip \in Ip
      /\ att[a].writes # "none" => att[a].user \in User
  BY <1>1 DEF Shape, AttemptsPlaced
<1>3. CASE \E i \in Ip : Arrive(a, i)
  <2>1. PICK i \in Ip : Arrive(a, i)
    BY <1>3
  <2>2. /\ att'[a].ip = i /\ att'[a].pc = "check"
        /\ att'[a].writes # "none" => att'[a].user \in User
        /\ att' \in [Attempt -> AttemptState]
        /\ \A b \in Attempt \ {a} : att'[b] = att[b]
    BY <1>1, <1>2, <2>1 DEF Arrive, Shape
  <2>3. /\ UNCHANGED <<ip_fail, ip_lock, outlives, lifted>>
        /\ died' = died /\ att[a].pc = "idle"
        /\ failed' = failed /\ locked' = locked
    BY <2>1 DEF Arrive
  <2>4. /\ failed' \in [User -> Nat] /\ locked' \subseteq User
    BY <1>1, <2>3 DEF Shape
  <2> QED
    BY ONLY IInv, <2>2, <2>3, <2>4, LocalStep DEF redis
<1>4. CASE CheckIpLockout(a)
  <2>1. CASE att[a].ip \in ip_lock
    BY <1>1, <1>2, <1>4, <2>1, LocalStep
       DEF CheckIpLockout, Shape, IdleAttempt
  <2>2. CASE att[a].ip \notin ip_lock
    BY <1>1, <1>2, <1>4, <2>2, LocalStep DEF CheckIpLockout, Shape
  <2> QED
    BY <2>1, <2>2
<1>5. CASE Lookup(a)
  <2>1. CASE UnknownEmail(a)
    BY <1>1, <1>2, <2>1, LocalStep DEF UnknownEmail, Shape
  <2>2. ASSUME NEW u \in User, NEW is_valid \in BOOLEAN,
               VerifyPassword(a, u, is_valid)
        PROVE  IInv'
    <3>1. /\ att'[a].ip = att[a].ip /\ att'[a].user = u
          /\ att' \in [Attempt -> AttemptState]
          /\ \A b \in Attempt \ {a} : att'[b] = att[b]
      BY <1>1, <1>2, <2>2 DEF VerifyPassword, Shape
    <3>2. /\ UNCHANGED <<ip_fail, ip_lock, outlives, lifted>>
          /\ died' = died /\ att[a].pc = "lookup" /\ att[a].ip \in Ip
          /\ failed' = failed /\ locked' = locked
      BY <1>2, <2>2 DEF VerifyPassword
    <3>3. /\ failed' \in [User -> Nat] /\ locked' \subseteq User
      BY <1>1, <3>2 DEF Shape
    <3> QED
      BY ONLY IInv, u \in User, <3>1, <3>2, <3>3, LocalStep DEF redis
  <2> QED
    BY <1>5, <2>1, <2>2 DEF Lookup
<1>6. CASE SelectFailed(a)
  <2>1. failed[att[a].user] + 1 \in Nat
    BY <1>1, <1>6 DEF SelectFailed, Shape, AttemptsPlaced
  <2>2. /\ att'[a].ip = att[a].ip /\ att'[a].pc = "update"
        /\ att'[a].writes # "none" => att'[a].user \in User
        /\ att' \in [Attempt -> AttemptState]
        /\ \A b \in Attempt \ {a} : att'[b] = att[b]
    BY <1>1, <1>2, <1>6, <2>1 DEF SelectFailed, Shape
  <2> QED
    BY <1>1, <1>2, <1>6, <2>2, LocalStep DEF SelectFailed, Shape
<1>7. CASE UpdateFailed(a)
  BY <1>1, <1>2, <1>7, LocalStep DEF UpdateFailed, Shape
<1>8. CASE LockAccount(a)
  BY <1>1, <1>2, <1>8, LocalStep DEF LockAccount, Shape
<1>9. CASE UpdateLastLogin(a)
  BY <1>1, <1>2, <1>9, LocalStep DEF UpdateLastLogin, Shape, AttemptsPlaced
<1>10. ASSUME NEW raised \in BOOLEAN, GetDb(a, raised)
       PROVE  /\ failed' \in [User -> Nat] /\ locked' \subseteq User
              /\ att' \in [Attempt -> AttemptState]
              /\ att'[a] = IdleAttempt
              /\ \A b \in Attempt \ {a} : att'[b] = att[b]
  <2>1. att' \in [Attempt -> AttemptState] /\ att'[a] = IdleAttempt
        /\ \A b \in Attempt \ {a} : att'[b] = att[b]
    BY <1>1, <1>10 DEF GetDb, Shape
  <2>2. failed' \in [User -> Nat]
    BY <1>1, <1>2, <1>10 DEF GetDb, Shape
  <2>3. att[a].writes \in {"lock", "login"} => att[a].user \in User
    BY <1>1 DEF AttemptsPlaced
  <2>4. locked' \subseteq User
    BY <1>1, <1>2, <1>10, <2>3 DEF GetDb, Shape
  <2> QED
    BY <2>1, <2>2, <2>4
<1>11. IdleAttempt.pc = "idle" /\ IdleAttempt.writes = "none"
  BY DEF IdleAttempt
<1> HIDE DEF End
<1>12. CASE Raise(a)
  <2>1. /\ GetDb(a, TRUE) /\ UNCHANGED <<redis, lifted>>
        /\ died' = died /\ att[a].pc = "raise"
    BY <1>12 DEF Raise
  <2> QED
    BY ONLY IInv, a \in Attempt, <1>10, <1>11, <2>1, LocalStep
<1>13. CASE Commit(a)
  <2>1. /\ GetDb(a, FALSE) /\ UNCHANGED <<redis, lifted>>
        /\ died' = died /\ att[a].pc = "commit"
    BY <1>13 DEF Commit
  <2> QED
    BY ONLY IInv, a \in Attempt, <1>10, <1>11, <2>1, LocalStep
<1>14. CASE Abort(a)
  <2>1. /\ GetDb(a, TRUE) /\ UNCHANGED <<redis, lifted>>
        /\ died' = died \cup {att[a].ip} /\ att[a].pc # "idle"
    BY <1>14 DEF Abort
  <2> QED
    BY ONLY IInv, a \in Attempt, <1>10, <1>11, <2>1, LocalStep
<1> QED
  BY <1>3, <1>4, <1>5, <1>6, <1>7, <1>8, <1>9, <1>12, <1>13, <1>14

-----------------------------------------------------------------------------
(* The steps that write to Redis.                                          *)

LEMMA IncrementStep ==
  ASSUME IInv, NEW a \in Attempt, Increment(a)
  PROVE  IInv'
<1> DEFINE i == att[a].ip
           n == ip_fail[i].count + 1
<1>1. Shape /\ AttemptsPlaced /\ TtlPending /\ LimitLocks
  BY DEF IInv
<1>2. i \in Ip /\ att[a] \in AttemptState /\ ip_fail[i] \in Counter
  BY <1>1 DEF Increment, Shape, AttemptsPlaced
<1>3. n \in Nat \ {0}
  BY <1>2 DEF Counter
<1>4. /\ ip_fail' = [ip_fail EXCEPT ![i].count = n]
      /\ att'[a].count = n /\ att'[a].ip = i
      /\ att'[a].user = att[a].user /\ att'[a].writes = att[a].writes
      /\ att'[a].pc = IF n = 1 THEN "expire" ELSE AfterCount(a, n)
      /\ \A b \in Attempt \ {a} : att'[b] = att[b]
  BY <1>1, <1>2 DEF Increment, Shape, AttemptState
<1>5. Shape'
  <2>1. ip_fail' \in [Ip -> Counter]
    BY <1>1, <1>2, <1>3, <1>4 DEF Shape, Counter
  <2>2. AfterCount(a, n) \in Pc
    BY DEF AfterCount, AfterRedis, Pc
  <2>3. att' \in [Attempt -> AttemptState]
    BY <1>1, <1>2, <1>3, <2>2 DEF Increment, Shape, AttemptState, Pc
  <2> QED
    BY <1>1, <2>1, <2>3 DEF Increment, Shape, users
<1>6. AttemptsPlaced'
  BY <1>1, <1>2, <1>4 DEF AttemptsPlaced, AfterCount, AfterRedis
<1>7. TtlPending'
  <2>1. ASSUME NEW j \in Ip, ip_fail'[j].count > 0
        PROVE  Expiring(j)' \/ j \in died'
    <3>1. CASE j = i /\ n = 1
      BY <1>4, <3>1 DEF Expiring
    <3>2. CASE j # i \/ n # 1
      <4>1. ip_fail[j].count > 0
        BY <1>1, <1>2, <1>4, <2>1, <3>2 DEF Shape, Counter
      <4>2. Expiring(j) \/ j \in died
        BY <1>1, <4>1 DEF TtlPending
      <4>3. ip_fail'[j].ttl = ip_fail[j].ttl /\ died' = died
        BY <1>1, <1>2, <1>4 DEF Increment, Shape, Counter
      <4>4. att[a].pc # "expire"
        BY DEF Increment
      <4> QED
        BY ONLY <1>4, <4>2, <4>3, <4>4, ZenonT(30) DEF Expiring
    <3> QED
      BY <3>1, <3>2
  <2> QED
    BY <2>1 DEF TtlPending
<1>8. LimitLocks'
  <2>1. ASSUME NEW j \in Ip, ip_fail'[j].count >= RateLimit,
               j \notin ip_lock' \cup lifted' \cup died'
        PROVE  \E b \in Attempt : /\ att'[b].ip = j
                                  /\ att'[b].count >= RateLimit
                                  /\ att'[b].pc \in {"expire", "setlock"}
    <3>1. CASE j = i
      BY <1>1, <1>2, <1>3, <1>4, <2>1, <3>1, LockoutAssumption, SMTT(30)
         DEF Shape, Counter, AfterCount, AfterRedis
    <3>2. CASE j # i
      <4>1. PICK b \in Attempt : /\ att[b].ip = j
                                 /\ att[b].count >= RateLimit
                                 /\ att[b].pc \in {"expire", "setlock"}
        BY <1>1, <1>4, <2>1, <3>2 DEF LimitLocks, Increment
      <4> QED
        BY <1>4, <3>2, <4>1
    <3> QED
      BY <3>1, <3>2
  <2> QED
    BY <2>1 DEF LimitLocks
<1> QED
  BY <1>5, <1>6, <1>7, <1>8 DEF IInv

LEMMA ExpireStep ==
  ASSUME IInv, NEW a \in Attempt, Expire(a)
  PROVE  IInv'
<1> DEFINE i == att[a].ip
<1>1. Shape /\ AttemptsPlaced /\ TtlPending /\ LimitLocks
  BY DEF IInv
<1>2. i \in Ip /\ att[a] \in AttemptState /\ ip_fail[i] \in Counter
  BY <1>1 DEF Expire, Shape, AttemptsPlaced
<1>3. /\ ip_fail' = [ip_fail EXCEPT ![i].ttl = @ \/ ip_fail[i].count > 0]
      /\ att'[a] = [att[a] EXCEPT !.pc = AfterCount(a, att[a].count)]
      /\ att' \in [Attempt -> AttemptState]
      /\ \A b \in Attempt \ {a} : att'[b] = att[b]
      /\ UNCHANGED <<ip_lock, outlives, users, died, lifted>>
  BY <1>1, <1>2 DEF Expire, Goto, Shape, AttemptState, Pc, AfterCount, AfterRedis
<1>4. \A j \in Ip : ip_fail'[j].count = ip_fail[j].count
  BY <1>1, <1>2, <1>3 DEF Shape, Counter
<1>5. ip_fail' \in [Ip -> Counter]
  BY <1>1, <1>2, <1>3 DEF Shape, Counter
<1>6. Shape'
  BY <1>1, <1>3, <1>5 DEF Shape, users
<1>7. AttemptsPlaced'
  BY <1>1, <1>2, <1>3 DEF AttemptsPlaced, AfterCount, AfterRedis, AttemptState
<1>8. TtlPending'
  <2>1. ASSUME NEW j \in Ip, ip_fail'[j].count > 0
        PROVE  Expiring(j)' \/ j \in died'
    <3>1. CASE j = i
      BY <1>1, <1>2, <1>3, <1>4, <2>1, <3>1 DEF Expiring, Shape, Counter
    <3>2. CASE j # i
      <4>1. Expiring(j) \/ j \in died
        BY <1>1, <1>4, <2>1 DEF TtlPending
      <4> QED
        BY <1>1, <1>2, <1>3, <3>2, <4>1 DEF Expiring, Shape
    <3> QED
      BY <3>1, <3>2
  <2> QED
    BY <2>1 DEF TtlPending
<1>9. LimitLocks'
  BY <1>1, <1>2, <1>3, <1>4, LockoutAssumption
     DEF LimitLocks, AfterCount, AfterRedis, AttemptState
<1> QED
  BY <1>6, <1>7, <1>8, <1>9 DEF IInv

LEMMA SetLockStep ==
  ASSUME IInv, NEW a \in Attempt, SetLock(a)
  PROVE  IInv'
<1>1. Shape /\ AttemptsPlaced /\ TtlPending /\ LimitLocks
  BY DEF IInv
<1>2. att[a].ip \in Ip /\ att[a] \in AttemptState
  BY <1>1 DEF SetLock, Shape, AttemptsPlaced
<1>3. /\ att'[a] = [att[a] EXCEPT !.pc = AfterRedis(a)]
      /\ att' \in [Attempt -> AttemptState]
      /\ \A b \in Attempt \ {a} : att'[b] = att[b]
      /\ ip_lock' = ip_lock \cup {att[a].ip}
      /\ UNCHANGED <<ip_fail, users, died, lifted>>
  <2>1. AfterRedis(a) \in Pc
    BY DEF AfterRedis, Pc
  <2> QED
    BY <1>1, <1>2, <2>1 DEF SetLock, Goto, Shape, AttemptState
<1>4. Shape'
  BY <1>1, <1>2, <1>3 DEF SetLock, Shape, users
<1>5. AttemptsPlaced'
  BY <1>1, <1>2, <1>3 DEF AttemptsPlaced, AttemptState, AfterRedis
<1>6. TtlPending'
  BY <1>1, <1>2, <1>3 DEF TtlPending, Expiring, SetLock
<1>7. LimitLocks'
  BY <1>1, <1>2, <1>3 DEF LimitLocks
<1> QED
  BY <1>4, <1>5, <1>6, <1>7 DEF IInv

(* A counter that goes takes its obligations with it.                      *)
LEMMA DropCounterStep ==
  ASSUME IInv, NEW i \in Ip, DropCounter(i),
         UNCHANGED <<ip_lock, users, died>>,
         att' \in [Attempt -> AttemptState], AttemptsPlaced',
         \A a \in Attempt : att'[a] = att[a]
                            \/ att[a].pc \notin {"expire", "setlock"}
  PROVE  IInv'
<1>1. Shape /\ TtlPending /\ LimitLocks
  BY DEF IInv
<1>2. /\ ip_fail' = [ip_fail EXCEPT ![i] = Absent]
      /\ ip_fail'[i].count = 0
  BY <1>1 DEF DropCounter, Shape, Absent
<1>3. Shape'
  BY <1>1, <1>2 DEF Shape, DropCounter, Absent, Counter, users
<1>4. TtlPending'
  BY <1>1, <1>2 DEF TtlPending, Expiring, Shape
<1>5. LimitLocks'
  BY <1>1, <1>2, LockoutAssumption DEF LimitLocks, DropCounter, Shape
<1> QED
  BY <1>3, <1>4, <1>5 DEF IInv

(* A lock that goes is remembered if it leaves a counter behind.           *)
LEMMA DropLockStep ==
  ASSUME IInv, NEW i \in Ip, DropLock(i),
         UNCHANGED <<ip_fail, users, died>>,
         att' \in [Attempt -> AttemptState], AttemptsPlaced',
         \A a \in Attempt : att'[a] = att[a]
                            \/ att[a].pc \notin {"expire", "setlock"}
  PROVE  IInv'
<1>1. Shape /\ TtlPending /\ LimitLocks
  BY DEF IInv
<1>2. Shape'
  BY <1>1 DEF Shape, DropLock, users
<1>3. TtlPending'
  BY <1>1 DEF TtlPending, Expiring
<1>4. LimitLocks'
  <2>1. \A j \in Ip : ip_fail[j].count >= RateLimit => ip_fail[j].count > 0
    BY <1>1, LockoutAssumption DEF Shape, Counter
  <2> QED
    BY <1>1, <2>1 DEF LimitLocks, DropLock
<1> QED
  BY <1>2, <1>3, <1>4 DEF IInv

LEMMA ClearSteps ==
  ASSUME IInv, NEW a \in Attempt, ClearFail(a) \/ ClearLock(a)
  PROVE  IInv'
<1>1. Shape /\ AttemptsPlaced
  BY DEF IInv
<1>2. att[a].ip \in Ip /\ att[a].user \in User /\ att[a] \in AttemptState
  BY <1>1 DEF ClearFail, ClearLock, Shape, AttemptsPlaced
<1>3. /\ att' \in [Attempt -> AttemptState]
      /\ AttemptsPlaced'
      /\ \A b \in Attempt : att'[b] = att[b]
                            \/ att[b].pc \notin {"expire", "setlock"}
  BY <1>1, <1>2 DEF ClearFail, ClearLock, Goto, Shape, AttemptState, Pc,
                    AttemptsPlaced
<1> QED
  BY <1>2, <1>3, DropCounterStep, DropLockStep DEF ClearFail, ClearLock

LEMMA ExpirySteps ==
  ASSUME IInv, NEW i \in Ip, CounterExpires(i) \/ LockExpires(i)
  PROVE  IInv'
<1>1. att' = att /\ att' \in [Attempt -> AttemptState] /\ AttemptsPlaced'
  BY DEF IInv, Shape, AttemptsPlaced, CounterExpires, LockExpires
<1> QED
  BY <1>1, DropCounterStep, DropLockStep DEF CounterExpires, LockExpires

-----------------------------------------------------------------------------
LEMMA IsInvariant == Spec => []IInv
<1>1. Init => IInv
  BY InitIInv
<1>2. IInv /\ [Next]_vars => IInv'
  <2> SUFFICES ASSUME IInv, [Next]_vars PROVE IInv'
    OBVIOUS
  <2>1. ASSUME NEW a \in Attempt,
               (\E i \in Ip : Arrive(a, i)) \/ Step(a) \/ Abort(a)
        PROVE  IInv'
    BY <2>1, LocalSteps, IncrementStep, ExpireStep, SetLockStep, ClearSteps
       DEF Step
  <2>2. ASSUME NEW i \in Ip, CounterExpires(i) \/ LockExpires(i)
        PROVE  IInv'
    BY <2>2, ExpirySteps
  <2>3. CASE UNCHANGED vars
    BY <2>3 DEF IInv, Shape, AttemptsPlaced, TtlPending, Expiring,
                LimitLocks, vars, redis, users
  <2> QED
    BY <2>1, <2>2, <2>3 DEF Next
<1> QED
  BY <1>1, <1>2, PTL DEF Spec

-----------------------------------------------------------------------------
(* The tallies of the observer.                                            *)
Tallied ==
    /\ failures \in [Ip -> Nat]
    /\ undone \subseteq Ip
    /\ missed \in [User -> Nat]
    /\ FailuresCounted

(* Steps that neither count nor clear: a counter of which a login is about *)
(* to commit is left to that login.                                        *)
LEMMA QuietStep ==
  ASSUME Tallied, NEW a \in Attempt,
         UNCHANGED <<ip_fail, failures, undone>>, missed' \in [User -> Nat],
         att[a].pc \notin {"unlock", "commit"},
         \A b \in Attempt \ {a} : att'[b] = att[b]
  PROVE  Tallied'
  BY DEF Tallied, FailuresCounted

LEMMA ElsewhereStep ==
  ASSUME IInv, Tallied, NEW i \in Ip,
         \A j \in Ip \ {i} : /\ ip_fail'[j].count = ip_fail[j].count
                             /\ failures'[j] = failures[j]
                             /\ j \in undone => j \in undone',
         failures' \in [Ip -> Nat], undone' \subseteq Ip,
         missed' \in [User -> Nat],
         \A b \in Attempt : att'[b] = att[b] \/ att[b].ip = i,
         ip_fail'[i].count < failures'[i] =>
             \/ i \in undone'
             \/ \E a \in Attempt : /\ att'[a].ip = i
                                  /\ att'[a].pc \in {"unlock", "commit"}
  PROVE  Tallied'
  BY DEF Tallied, FailuresCounted

LEMMA TallyIncrement ==
  ASSUME IInv, Tallied, NEW a \in Attempt, Increment(a)
  PROVE  Tallied'
<1> DEFINE i == att[a].ip
           n == ip_fail[i].count + 1
<1>1. /\ i \in Ip /\ ip_fail[i] \in Counter /\ ip_fail \in [Ip -> Counter]
      /\ att \in [Attempt -> AttemptState]
      /\ failures \in [Ip -> Nat] /\ MaxCount \in Nat
  BY LockoutAssumption DEF IInv, Shape, AttemptsPlaced, Increment, Tallied
<1>2. /\ n <= MaxCount /\ att[a].pc = "incr"
      /\ ip_fail' = [ip_fail EXCEPT ![i].count = n]
      /\ failures' = [failures EXCEPT ![i] = AtMost(@ + 1, MaxCount)]
      /\ UNCHANGED <<undone, missed>>
  BY DEF Increment
<1>3. \A b \in Attempt \ {a} : att'[b] = att[b]
  BY <1>1 DEF Increment
<1>4. ip_fail[i].count \in Nat /\ ip_fail'[i].count = n
  BY <1>1, <1>2 DEF Counter
<1>5. \A j \in Ip \ {i} : /\ ip_fail'[j].count = ip_fail[j].count
                          /\ failures'[j] = failures[j]
  BY <1>1, <1>2
<1>6. /\ failures'[i] = AtMost(failures[i] + 1, MaxCount)
      /\ failures' \in [Ip -> Nat]
  BY <1>1, <1>2 DEF AtMost
<1>7. ASSUME ip_fail'[i].count < failures'[i]
      PROVE  \/ i \in undone'
             \/ \E b \in Attempt : /\ att'[b].ip = i
                                  /\ att'[b].pc \in {"unlock", "commit"}
  <2>1. failures[i] \in Nat
    BY <1>1
  <2>2. ip_fail[i].count < failures[i]
    BY <1>1, <1>2, <1>4, <1>6, <1>7, <2>1 DEF AtMost
  <2>3. \/ i \in undone
        \/ \E b \in Attempt : /\ att[b].ip = i
                             /\ att[b].pc \in {"unlock", "commit"}
    BY <1>1, <2>2 DEF Tallied, FailuresCounted
  <2> QED
    BY <1>2, <1>3, <2>3
<1>8. undone' \subseteq Ip /\ missed' \in [User -> Nat]
  BY <1>2 DEF Tallied
<1> QED
  BY <1>1, <1>2, <1>3, <1>5, <1>6, <1>7, <1>8, ElsewhereStep

(* A login that clears or ends, and the end of a window.                   *)
LEMMA TallyClear ==
  ASSUME IInv, Tallied, NEW a \in Attempt,
         ClearFail(a) \/ ClearLock(a) \/ Commit(a) \/ Abort(a)
  PROVE  Tallied'
<1> DEFINE i == att[a].ip
<1>1. /\ i \in Ip /\ ip_fail \in [Ip -> Counter] /\ ip_fail[i].count \in Nat
      /\ att \in [Attempt -> AttemptState]
      /\ failures \in [Ip -> Nat] /\ missed \in [User -> Nat]
  BY DEF IInv, Shape, AttemptsPlaced, ClearFail, ClearLock, Commit, Abort,
         Tallied, Counter
<1>2. \A b \in Attempt \ {a} : att'[b] = att[b]
  BY <1>1 DEF ClearFail, ClearLock, Commit, Abort, GetDb, End, Goto
<1>3. CASE ClearFail(a) \/ ClearLock(a)
  <2>1. /\ att'[a].ip = i /\ att'[a].pc \in {"unlock", "commit"}
        /\ UNCHANGED <<failures, undone, missed>>
    BY <1>1, <1>3 DEF ClearFail, ClearLock, Goto, tallies, AttemptState
  <2>2. \A j \in Ip \ {i} : ip_fail'[j].count = ip_fail[j].count
    BY <1>1, <1>3 DEF ClearFail, ClearLock, DropCounter
  <2> QED
    BY <1>1, <1>2, <2>1, <2>2, ElsewhereStep DEF Tallied
<1>4. CASE Commit(a)
  <2>1. /\ ip_fail' = ip_fail /\ failures' = [failures EXCEPT ![i] = 0]
        /\ undone' = undone \ {i} /\ missed' \in [User -> Nat]
    BY <1>1, <1>4 DEF Commit, redis
  <2>2. /\ failures'[i] = 0 /\ failures' \in [Ip -> Nat]
        /\ ip_fail'[i].count \in Nat
        /\ \A j \in Ip \ {i} : failures'[j] = failures[j]
    BY <1>1, <2>1
  <2>3. ~(ip_fail'[i].count < failures'[i])
    BY <2>2
  <2> QED
    BY <1>1, <1>2, <2>1, <2>2, <2>3, ElsewhereStep DEF Tallied
<1>5. CASE Abort(a)
  <2>1. /\ ip_fail' = ip_fail /\ failures' = failures /\ missed' = missed
        /\ undone' = IF att[a].pc \in {"unlock", "commit"}
                     THEN undone \cup {i} ELSE undone
    BY <1>5 DEF Abort, redis
  <2>2. CASE att[a].pc \in {"unlock", "commit"}
    BY <1>1, <1>2, <2>1, <2>2, ElsewhereStep DEF Tallied
  <2>3. CASE att[a].pc \notin {"unlock", "commit"}
    BY <1>1, <1>2, <2>1, <2>3, QuietStep
  <2> QED
    BY <2>2, <2>3
<1> QED
  BY <1>3, <1>4, <1>5

LEMMA TallyExpiry ==
  ASSUME IInv, Tallied, NEW i \in Ip, CounterExpires(i) \/ LockExpires(i)
  PROVE  Tallied'
<1>1. CASE CounterExpires(i)
  <2>1. /\ ip_fail \in [Ip -> Counter] /\ failures \in [Ip -> Nat]
        /\ att' = att /\ missed' = missed
        /\ ip_fail' = [ip_fail EXCEPT ![i] = Absent]
        /\ failures' = [failures EXCEPT ![i] = 0]
        /\ undone' = undone \ {i}
    BY <1>1 DEF IInv, Shape, Tallied, CounterExpires, DropCounter
  <2>2. /\ ip_fail'[i].count = 0 /\ failures'[i] = 0
        /\ failures' \in [Ip -> Nat]
        /\ \A j \in Ip \ {i} : /\ ip_fail'[j].count = ip_fail[j].count
                                /\ failures'[j] = failures[j]
    BY <2>1 DEF Absent
  <2> QED
    BY <2>1, <2>2, ElsewhereStep DEF Tallied
<1>2. CASE LockExpires(i)
  BY <1>2 DEF LockExpires, tallies, Tallied, FailuresCounted
<1> QED
  BY <1>1, <1>2

LEMMA TallyStep ==
  ASSUME IInv, Tallied, NEW a \in Attempt,
         (\E i \in Ip : Arrive(a, i)) \/ Step(a) \/ Abort(a)
  PROVE  Tallied'
<1>1. CASE Increment(a)
  BY <1>1, TallyIncrement
<1>2. CASE ClearFail(a) \/ ClearLock(a) \/ Commit(a) \/ Abort(a)
  BY <1>2, TallyClear
<1>3. /\ att \in [Attempt -> AttemptState] /\ missed \in [User -> Nat]
      /\ MaxFailed \in Nat
      /\ ip_fail \in [Ip -> Counter]
  BY LockoutAssumption DEF IInv, Shape, Tallied
<1>4. CASE Expire(a)
  <2>1. att[a].ip \in Ip /\ att[a].pc = "expire"
    BY <1>4 DEF Expire, IInv, AttemptsPlaced
  <2>2. /\ \A j \in Ip : ip_fail'[j].count = ip_fail[j].count
        /\ UNCHANGED <<failures, undone, missed>>
    BY <1>3, <1>4, <2>1 DEF Expire, Counter, tallies
  <2>3. \A b \in Attempt \ {a} : att'[b] = att[b]
    BY <1>3, <1>4 DEF Expire, Goto
  <2> QED
    BY <2>1, <2>2, <2>3 DEF Tallied, FailuresCounted
<1>5. CASE Raise(a)
  <2>1. /\ UNCHANGED <<ip_fail, failures, undone>> /\ att[a].pc = "raise"
        /\ \A b \in Attempt \ {a} : att'[b] = att[b]
    BY <1>3, <1>5 DEF Raise, GetDb, End, redis
  <2>2. missed' \in [User -> Nat]
    <3>1. CASE att[a].writes \in {"count", "lock"}
      <4> DEFINE u == att[a].user
      <4>1. u \in User /\ missed[u] \in Nat
        BY <1>3, <3>1 DEF IInv, AttemptsPlaced
      <4>2. missed' = [missed EXCEPT ![u] = AtMost(missed[u] + 1, MaxFailed)]
        BY <1>5, <3>1 DEF Raise
      <4>3. AtMost(missed[u] + 1, MaxFailed) \in Nat
        BY <1>3, <4>1 DEF AtMost
      <4> QED
        BY <1>3, <4>1, <4>2, <4>3
    <3>2. CASE att[a].writes \notin {"count", "lock"}
      BY <1>3, <1>5, <3>2 DEF Raise
    <3> QED
      BY <3>1, <3>2
  <2> QED
    BY <2>1, <2>2, QuietStep
<1>6. CASE \/ \E i \in Ip : Arrive(a, i)
           \/ CheckIpLockout(a) \/ Lookup(a) \/ SelectFailed(a)
           \/ UpdateFailed(a) \/ SetLock(a) \/ LockAccount(a)
           \/ UpdateLastLogin(a)
  <2>1. /\ UNCHANGED <<ip_fail, failures, undone, missed>>
        /\ att[a].pc \notin {"unlock", "commit"}
    BY <1>6 DEF Arrive, CheckIpLockout, Lookup, UnknownEmail, VerifyPassword,
                SelectFailed, UpdateFailed, SetLock, LockAccount,
                UpdateLastLogin, redis, tallies
  <2>2. \A b \in Attempt \ {a} : att'[b] = att[b]
    BY <1>3, <1>6
       DEF Arrive, CheckIpLockout, Lookup, UnknownEmail, VerifyPassword,
           SelectFailed, UpdateFailed, SetLock, LockAccount,
           UpdateLastLogin, Goto, Wrote, End
  <2> QED
    BY <1>3, <2>1, <2>2, QuietStep
<1> QED
  BY <1>1, <1>2, <1>4, <1>5, <1>6 DEF Step

LEMMA TalliesHold == Spec => []Tallied
<1>1. Init => Tallied
  BY DEF Init, Tallied, FailuresCounted, Absent
<1>2. IInv /\ Tallied /\ [Next]_vars => Tallied'
  <2> SUFFICES ASSUME IInv, Tallied, [Next]_vars PROVE Tallied'
    OBVIOUS
  <2>1. CASE UNCHANGED vars
    BY <2>1 DEF vars, redis, tallies, Tallied, FailuresCounted
  <2> QED
    BY <2>1, TallyStep, TallyExpiry DEF Next
<1> QED
  BY <1>1, <1>2, IsInvariant, PTL DEF Spec

-----------------------------------------------------------------------------
(* What the users table keeps of a failure, and what failures are told.    *)
Forgotten ==
    /\ locked = {}
    /\ \A u \in User : failed[u] = 0
    /\ \A a \in Attempt :
          /\ att[a].seen <= 1
          /\ att[a].pc = "lockaccount" => MaxFailed = 1

(* Only an attempt that will raise has written a count or a lock.          *)
LoginWrites == \A a \in Attempt :
    att[a].pc \in {"clear", "unlock", "commit"} => att[a].writes = "login"

LEMMA ForgetStep ==
  ASSUME IInv, Forgotten, LoginWrites, NEW a \in Attempt,
         (\E i \in Ip : Arrive(a, i)) \/ Step(a) \/ Abort(a)
  PROVE  Forgotten' /\ LoginWrites'
<1>1. /\ att \in [Attempt -> AttemptState] /\ att[a] \in AttemptState
      /\ failed \in [User -> Nat] /\ MaxFailed \in Nat \ {0}
      /\ att[a].pc = "select" => att[a].user \in User
  BY LockoutAssumption DEF IInv, Shape, AttemptsPlaced
<1>2. ASSUME NEW raised \in BOOLEAN, GetDb(a, raised),
             ~raised => att[a].writes = "login"
      PROVE  Forgotten' /\ LoginWrites'
  <2>1. locked' = {}
    BY <1>2 DEF GetDb, Forgotten
  <2>2. \A u \in User : failed'[u] = 0
    BY <1>1, <1>2 DEF GetDb, Forgotten
  <2>3. att'[a] = IdleAttempt /\ \A b \in Attempt \ {a} : att'[b] = att[b]
    BY <1>1, <1>2 DEF GetDb, End
  <2> QED
    BY <2>1, <2>2, <2>3 DEF Forgotten, LoginWrites, IdleAttempt
<1>3. CASE Raise(a) \/ Abort(a)
  BY <1>2, <1>3 DEF Raise, Abort
<1>4. CASE Commit(a)
  BY <1>2, <1>4 DEF Commit, LoginWrites
<1>5. CASE CheckIpLockout(a)
  <2>1. CASE att[a].ip \in ip_lock
    BY <1>1, <1>5, <2>1 DEF CheckIpLockout, End, Forgotten, LoginWrites,
                            IdleAttempt, users
  <2>2. CASE att[a].ip \notin ip_lock
    BY <1>1, <1>5, <2>2 DEF CheckIpLockout, Goto, AttemptState, Forgotten,
                            LoginWrites, users
  <2> QED
    BY <2>1, <2>2
<1>6. CASE SelectFailed(a)
  <2>1. failed[att[a].user] = 0
    BY <1>1, <1>6 DEF SelectFailed, Forgotten
  <2>2. /\ att' = [att EXCEPT ![a].pc = "update", ![a].seen = 1]
        /\ UNCHANGED <<failed, locked>>
    BY <1>6, <2>1 DEF SelectFailed, users
  <2>3. /\ att'[a].seen = 1 /\ att'[a].pc = "update"
        /\ \A b \in Attempt \ {a} : att'[b] = att[b]
    BY <1>1, <2>2 DEF AttemptState
  <2>4. \A b \in Attempt : /\ att'[b].seen <= 1
                          /\ att'[b].pc = "lockaccount" => MaxFailed = 1
    BY <2>3 DEF Forgotten
  <2>5. UNCHANGED <<failed, locked>>
    BY <2>2
  <2> QED
    BY ONLY Forgotten, LoginWrites, <2>3, <2>4, <2>5 DEF Forgotten, LoginWrites
<1>7. CASE (\E i \in Ip : Arrive(a, i)) \/ Lookup(a)
  <2>1. /\ att'[a].seen = att[a].seen /\ UNCHANGED <<failed, locked>>
        /\ att'[a].pc \in {"check", "incr", "raise", "store", "select"}
        /\ \A b \in Attempt \ {a} : att'[b] = att[b]
    <3>1. ASSUME NEW i \in Ip, Arrive(a, i) PROVE <2>1
      BY <1>1, <3>1 DEF Arrive, AttemptState, users
    <3>2. CASE UnknownEmail(a)
      BY <1>1, <3>2 DEF UnknownEmail, Goto, AttemptState, users
    <3>3. ASSUME NEW u \in User, NEW is_valid \in BOOLEAN,
                 VerifyPassword(a, u, is_valid)
          PROVE  <2>1
      BY <1>1, <3>3 DEF VerifyPassword, AttemptState, users
    <3> QED
      BY <1>7, <3>1, <3>2, <3>3 DEF Lookup
  <2> QED
    BY <2>1 DEF Forgotten, LoginWrites
<1>8. CASE UpdateFailed(a) \/ LockAccount(a) \/ UpdateLastLogin(a)
  BY <1>1, <1>8 DEF UpdateFailed, LockAccount, UpdateLastLogin, Wrote,
                    AttemptState, Forgotten, LoginWrites, users
<1>9. CASE Increment(a) \/ Expire(a) \/ SetLock(a)
  <2>1. /\ \A b \in Attempt \ {a} : att'[b] = att[b]
        /\ att'[a].seen = att[a].seen /\ UNCHANGED <<failed, locked>>
        /\ att'[a].pc \in {"expire", "setlock", AfterRedis(a)}
    BY <1>1, <1>9 DEF Increment, Expire, SetLock, Goto, AttemptState,
                      AfterCount, users
  <2>2. att[a].seen \in Nat
    BY <1>1 DEF AttemptState
  <2>3. \/ AfterRedis(a) = "raise"
        \/ AfterRedis(a) = "lockaccount" /\ MaxFailed = 1
    <3>1. att[a].seen <= 1
      BY DEF Forgotten
    <3>2. att[a].seen >= MaxFailed => MaxFailed = 1
      BY <1>1, <2>2, <3>1
    <3>3. CASE att[a].seen >= MaxFailed
      BY <3>2, <3>3 DEF AfterRedis
    <3>4. CASE ~(att[a].seen >= MaxFailed)
      BY <3>4 DEF AfterRedis
    <3> QED
      BY <3>3, <3>4
  <2> QED
    BY <2>1, <2>3 DEF Forgotten, LoginWrites
<1>10. CASE ClearFail(a) \/ ClearLock(a)
  BY <1>1, <1>10 DEF ClearFail, ClearLock, Goto, AttemptState, Forgotten,
                     LoginWrites, users
<1> QED
  BY <1>3, <1>4, <1>5, <1>6, <1>7, <1>8, <1>9, <1>10 DEF Step

-----------------------------------------------------------------------------
(* Redis, the users table and the attempts keep the shape of their models. *)
THEOREM TypeCorrect == Spec => []TypeOK
<1>1. IInv /\ Tallied => TypeOK
  BY DEF IInv, Shape, Tallied, TypeOK
<1> QED
  BY <1>1, IsInvariant, TalliesHold, PTL

(* A counter without a TTL is one whose first attempt is about to set it,  *)
(* unless an attempt broke off (_record_failed_ip_attempt).                *)
THEOREM TtlFollows == Spec => []TtlPending
BY IsInvariant, PTL DEF IInv

(* A counter at its limit has locked its address, or is about to, unless a *)
(* lock was lifted under it or an attempt broke off.                       *)
THEOREM LimitHolds == Spec => []LimitLocks
BY IsInvariant, PTL DEF IInv

(* The counter of an address is never behind the wrong logins of its       *)
(* window, for any number of addresses, users, overlapping attempts and    *)
(* any limits, but for a login that cleared it and is not committed.       *)
THEOREM EveryFailureCounted == Spec => []FailuresCounted
BY TalliesHold, PTL DEF Tallied

(* Nothing that increment_failed_attempts or lock_account write is ever    *)
(* committed, every failure is told to be the first, and unless one        *)
(* failure is enough, lock_account is never called at all                  *)
(* (authenticate_user, get_db).                                            *)
THEOREM LockingIsLost == Spec => []Forgotten
<1>1. Init => Forgotten /\ LoginWrites
  BY DEF Init, Forgotten, LoginWrites, IdleAttempt
<1>2. IInv /\ Forgotten /\ LoginWrites /\ [Next]_vars => Forgotten' /\ LoginWrites'
  <2> SUFFICES ASSUME IInv, Forgotten, LoginWrites, [Next]_vars
               PROVE  Forgotten' /\ LoginWrites'
    OBVIOUS
  <2>1. CASE UNCHANGED vars
    BY <2>1 DEF vars, users, Forgotten, LoginWrites
  <2>2. ASSUME NEW i \in Ip, CounterExpires(i) \/ LockExpires(i)
        PROVE  Forgotten' /\ LoginWrites'
    BY <2>2 DEF CounterExpires, LockExpires, users, Forgotten, LoginWrites
  <2> QED
    BY <2>1, <2>2, ForgetStep DEF Next
<1> QED
  BY <1>1, <1>2, IsInvariant, PTL DEF Spec

=============================================================================
