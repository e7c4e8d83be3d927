------------------------- MODULE AuthSessionsProofs -------------------------
(***************************************************************************)
(* Proofs about AuthSessions for any sets of users, tokens and request     *)
(* slots, and about MCAuthSessions, whose history variable tells what      *)
(* holds as long as no two requests overlap.                               *)
(***************************************************************************)
EXTENDS MCAuthSessions, TLAPS

-----------------------------------------------------------------------------
(* The inductive invariant.  The properties say nothing of the requests in *)
(* flight, so it adds what each of them may rely on between two of its     *)
(* statements.                                                             *)

(* The token a request will insert is its own.                             *)
NewTokensReserved ==
    /\ \A r \in Request : req[r].new \notin Issued
    /\ \A q, r \in Request :
           q # r /\ req[r].new # NoToken => req[q].new # req[r].new

RotationOK(r) ==
    req[r].op = "refresh" =>
        /\ req[r].token \in IssuedTo(req[r].user)
        /\ req[r].new \in Token
        /\ req[r].user \in User
        /\ req[r].pc = "commit" => req[r].revoked = {req[r].token}
        /\ \A n \in Issued : origin[n].parent = req[r].token =>
                                 origin[n].by # r

RevocationOK(r) ==
    req[r].op \in {"logout", "logout_all", "change", "reset"} =>
        /\ req[r].user \in User
        /\ req[r].start \subseteq Issued
        /\ req[r].op = "logout" => req[r].start = {req[r].token}
        /\ req[r].op = "logout" => req[r].token \in IssuedTo(req[r].user)
        /\ req[r].pc = "commit" => req[r].start \subseteq req[r].revoked
        /\ req[r].pc = "sweep" =>
               req[r].start \subseteq req[r].revoked \cup req[r].todo
                                      \cup (Issued \ Live)
        /\ req[r].op # "logout" => req[r].start \subseteq IssuedTo(req[r].user)

RequestOK(r) ==
    /\ Idle(r) => req[r] = IdleRequest
    /\ req[r].op = "login" => req[r].new \in Token /\ req[r].user \in User
                              /\ req[r].revoked = {}
    /\ req[r].pc = "issue" => req[r].op = "login"
    /\ req[r].pc \in {"revoke", "commit"} => req[r].op \in {"refresh", "logout"}
    /\ req[r].pc \in {"hash", "scan"} => req[r].op \in {"change", "reset"}
    /\ req[r].pc = "sweep" =>
           req[r].op \in {"reuse", "logout_all", "change", "reset"}
    /\ req[r].op = "reuse" => req[r].token \in Issued
    /\ req[r].op # "reuse" =>
           req[r].todo \cup req[r].revoked \subseteq IssuedTo(req[r].user)
    /\ RotationOK(r)
    /\ RevocationOK(r)

IInv ==
    /\ TypeOK
    /\ NewTokensReserved
    /\ \A r \in Request : RequestOK(r)
    /\ RotationAtomic
    /\ RotatedOncePerSlot
    /\ ToldRevoked

-----------------------------------------------------------------------------
(* The initial states satisfy the invariant.                               *)
LEMMA InitIInv == Init => IInv
<1> SUFFICES ASSUME Init PROVE IInv
  OBVIOUS
<1>1. Issued = {} /\ Live = {}
  BY DEF Init, Issued, Live
<1>2. IdleRequest \in RequestState
  BY DEF IdleRequest, RequestState, Op, Pc
<1>3. TypeOK
  BY <1>2 DEF Init, TypeOK
<1>4. NewTokensReserved
  BY <1>1 DEF Init, NewTokensReserved, IdleRequest
<1>5. \A r \in Request : RequestOK(r)
  BY DEF Init, RequestOK, RotationOK, RevocationOK, Idle, IdleRequest
<1>6. RotationAtomic /\ RotatedOncePerSlot /\ ToldRevoked
  BY <1>1 DEF Init, RotationAtomic, RotatedOncePerSlot, ToldRevoked
<1> QED
  BY <1>3, <1>4, <1>5, <1>6 DEF IInv

(* A step that leaves the committed table alone and changes one request.   *)
LEMMA LocalStep ==
  ASSUME IInv, TypeOK', NEW r \in Request,
         UNCHANGED <<refresh_tokens, origin, told>>,
         \A q \in Request \ {r} : req'[q] = req[q],
         RequestOK(r)',
         \/ req'[r].new \in {req[r].new, NoToken}
         \/ req'[r].new \in Token /\ Unused(req'[r].new)
  PROVE  IInv'
<1>1. Issued' = Issued /\ Live' = Live
  BY DEF Issued, Live
<1>2. \A u : IssuedTo(u)' = IssuedTo(u)
  BY <1>1 DEF IssuedTo
<1>3. NewTokensReserved'
  <2>1. NoToken \notin Issued
    BY NoValuesAssumption DEF Issued
  <2>2. req'[r].new \notin Issued
    BY <2>1 DEF IInv, NewTokensReserved, Unused
  <2>3. \A q \in Request \ {r} :
            /\ req'[r].new # NoToken => req'[q].new # req'[r].new
            /\ req'[q].new # NoToken => req'[q].new # req'[r].new
    BY DEF IInv, NewTokensReserved, Unused
  <2> QED
    BY <1>1, <2>2, <2>3 DEF IInv, NewTokensReserved
<1>4. ASSUME NEW q \in Request \ {r} PROVE RequestOK(q)'
  <2>1. RequestOK(q)
    BY DEF IInv
  <2>2. req'[q] = req[q] /\ origin' = origin
    OBVIOUS
  <2> QED
    BY <1>1, <1>2, <2>1, <2>2
       DEF RequestOK, RotationOK, RevocationOK, Idle
<1>5. RotationAtomic' /\ RotatedOncePerSlot' /\ ToldRevoked'
  BY <1>1 DEF IInv, RotationAtomic, RotatedOncePerSlot, ToldRevoked
<1> QED
  BY <1>3, <1>4, <1>5 DEF IInv

-----------------------------------------------------------------------------
(* The actions that leave the table alone.                                 *)

LEMMA IdleIsWellTyped == IdleRequest \in RequestState
  BY DEF IdleRequest, RequestState, Op, Pc

LEMMA ReadSteps ==
  ASSUME IInv, NEW r \in Request, Arrive(r)
  PROVE  IInv'
<1>1. TypeOK /\ Idle(r) /\ req[r] = IdleRequest /\ req[r].new = NoToken
  <2>1. Idle(r)
    BY Zenon DEF Arrive, LoginRead, RefreshRead, ReuseRead, LogoutRead,
                 LogoutAllRead, ChangeRead, ResetRead
  <2>2. TypeOK /\ RequestOK(r)
    BY DEF IInv
  <2>3. req[r] = IdleRequest
    BY <2>1, <2>2 DEF RequestOK
  <2> QED
    BY <2>1, <2>2, <2>3 DEF IdleRequest
<1>2. req[r] \in RequestState /\ DOMAIN req = Request
  BY <1>1 DEF TypeOK
<1>3. CASE \E u \in User, n \in Token : LoginRead(r, u, n)
  <2> PICK u \in User, n \in Token : LoginRead(r, u, n)
    BY <1>3
  <2> DEFINE next == [IdleRequest EXCEPT !.op = "login", !.pc = "issue",
                         !.user = u, !.new = n, !.fresh = TRUE]
  <2>1. next \in RequestState
    BY DEF IdleRequest, RequestState, Op, Pc
  <2>2. req' = [req EXCEPT ![r] = next] /\ UNCHANGED <<refresh_tokens, ghosts>>
    BY DEF LoginRead
  <2>3. TypeOK'
    BY <1>1, <2>1, <2>2 DEF TypeOK, LoginRead, ghosts
  <2>4. req'[r] = next
    BY <1>2, <2>2
  <2>5. RequestOK(r)'
    BY <2>4, <2>2, NoValuesAssumption
       DEF RequestOK, RotationOK, RevocationOK, Idle, IdleRequest
  <2>6. Unused(n)
    BY DEF LoginRead
  <2>7. req'[r].new = n
    BY <2>4 DEF IdleRequest
  <2> QED
    BY <1>2, <2>2, <2>3, <2>5, <2>6, <2>7, LocalStep DEF ghosts
<1>4. CASE \E t, n \in Token : RefreshRead(r, t, n)
  <2> PICK t \in Token, n \in Token : RefreshRead(r, t, n)
    BY <1>4
  <2>1. PICK u \in User : t \in Live /\ t \in Issued
                            /\ refresh_tokens[t].user = u
    BY <1>1, NoValuesAssumption DEF RefreshRead, Live, Issued, TypeOK, Row
  <2>2. PICK f \in BOOLEAN : f = (t \in current)
    <3>1. (t \in current) \in BOOLEAN
      OBVIOUS
    <3> WITNESS (t \in current) \in BOOLEAN
    <3> QED
      OBVIOUS
  <2> DEFINE next == [IdleRequest EXCEPT !.op = "refresh", !.pc = "revoke",
                         !.token = t, !.new = n, !.user = u, !.fresh = f]
  <2>3. next \in RequestState
    BY <2>1 DEF IdleRequest, RequestState, Op, Pc
  <2>4. /\ next.op = "refresh" /\ next.pc = "revoke" /\ next.token = t
        /\ next.new = n /\ next.user = u
        /\ next.todo = {} /\ next.revoked = {}
    BY DEF IdleRequest
  <2>5. req' = [req EXCEPT ![r] = next]
    BY <2>1, <2>2 DEF RefreshRead
  <2> HIDE DEF next
  <2>6. UNCHANGED <<refresh_tokens, active, reset, ghosts>> /\ Unused(n)
    BY DEF RefreshRead
  <2>7. TypeOK'
    BY <1>1, <2>3, <2>5, <2>6 DEF TypeOK, ghosts
  <2>8. req'[r] = next
    BY <1>2, <2>5
  <2>9. RequestOK(r)'
    <3>1. \A m \in Issued : origin[m].parent # t
      BY <2>1, NoValuesAssumption DEF IInv, RotationAtomic
    <3>2. t \in IssuedTo(u)' /\ Issued' = Issued /\ origin' = origin
      BY <2>1, <2>6 DEF IssuedTo, Issued, ghosts
    <3> QED
      BY <2>1, <2>4, <2>8, <3>1, <3>2
         DEF RequestOK, RotationOK, RevocationOK, Idle
  <2> QED
    BY <1>2, <2>4, <2>5, <2>6, <2>7, <2>8, <2>9, LocalStep DEF ghosts
<1>5. CASE \E t \in Token : ReuseRead(r, t)
  <2> PICK t \in Token : ReuseRead(r, t)
    BY <1>5
  <2> DEFINE next == [IdleRequest EXCEPT !.op = "reuse", !.pc = "sweep",
                         !.token = t, !.user = refresh_tokens[t].user,
                         !.todo = FamilyOf(t)]
  <2>1. t \in Issued /\ refresh_tokens[t].user \in User
    BY <1>1, NoValuesAssumption DEF ReuseRead, Live, Issued, TypeOK, Row
  <2>2. next \in RequestState
    BY <2>1 DEF IdleRequest, RequestState, Op, Pc, FamilyOf, Issued
  <2>3. req' = [req EXCEPT ![r] = next] /\ UNCHANGED <<refresh_tokens, ghosts>>
    BY DEF ReuseRead
  <2>4. TypeOK'
    BY <1>1, <2>2, <2>3 DEF TypeOK, ReuseRead, ghosts
  <2>5. req'[r] = next
    BY <1>2, <2>3
  <2>6. RequestOK(r)'
    <3>1. /\ next.op = "reuse" /\ next.pc = "sweep" /\ next.token = t
      BY DEF IdleRequest
    <3>2. t \in Issued'
      BY <2>1, <2>3 DEF Issued
    <3> QED
      BY <2>5, <3>1, <3>2 DEF RequestOK, RotationOK, RevocationOK, Idle
  <2>7. req'[r].new = NoToken
    BY <2>5 DEF IdleRequest
  <2> QED
    BY <1>2, <2>3, <2>4, <2>6, <2>7, LocalStep DEF ghosts
<1>6. CASE \E u \in User, t \in Token : LogoutRead(r, u, t)
  <2> PICK u \in User, t \in Token : LogoutRead(r, u, t)
    BY <1>6
  <2> DEFINE next == [IdleRequest EXCEPT !.op = "logout", !.pc = "revoke",
                         !.user = u, !.token = t, !.start = {t}]
  <2>1. t \in IssuedTo(u) /\ t \in Issued
    BY DEF LogoutRead, IssuedTo
  <2>2. next \in RequestState
    BY DEF IdleRequest, RequestState, Op, Pc
  <2>3. req' = [req EXCEPT ![r] = next] /\ UNCHANGED <<refresh_tokens, ghosts>>
    BY DEF LogoutRead
  <2>4. TypeOK'
    BY <1>1, <2>2, <2>3 DEF TypeOK, LogoutRead, ghosts
  <2>5. req'[r] = next
    BY <1>2, <2>3
  <2>6. RequestOK(r)'
    <3>1. /\ next.op = "logout" /\ next.pc = "revoke" /\ next.token = t
          /\ next.user = u /\ next.start = {t}
          /\ next.todo = {} /\ next.revoked = {}
      BY DEF IdleRequest
    <3>2. t \in IssuedTo(u)' /\ t \in Issued'
      BY <2>1, <2>3 DEF IssuedTo, Issued
    <3> QED
      BY <2>5, <3>1, <3>2 DEF RequestOK, RotationOK, RevocationOK, Idle
  <2>7. req'[r].new = NoToken
    BY <2>5 DEF IdleRequest
  <2> QED
    BY <1>2, <2>3, <2>4, <2>6, <2>7, LocalStep DEF ghosts
<1>7. CASE \E u \in User : LogoutAllRead(r, u)
  <2> PICK u \in User : LogoutAllRead(r, u)
    BY <1>7
  <2> DEFINE next == [IdleRequest EXCEPT !.op = "logout_all", !.pc = "sweep",
                         !.user = u, !.todo = LiveOf(u),
                         !.start = IssuedTo(u)]
  <2>1. next \in RequestState
    BY DEF IdleRequest, RequestState, Op, Pc, LiveOf, IssuedTo, Issued
  <2>2. req' = [req EXCEPT ![r] = next] /\ UNCHANGED <<refresh_tokens, ghosts>>
    BY DEF LogoutAllRead
  <2>3. TypeOK'
    BY <1>1, <2>1, <2>2 DEF TypeOK, LogoutAllRead, ghosts
  <2>4. req'[r] = next
    BY <1>2, <2>2
  <2>5. RequestOK(r)'
    <3>1. /\ next.op = "logout_all" /\ next.pc = "sweep" /\ next.user = u
          /\ next.start = IssuedTo(u) /\ next.todo = LiveOf(u)
          /\ next.revoked = {}
      BY DEF IdleRequest
    <3>2. Issued' = Issued /\ Live' = Live /\ IssuedTo(u)' = IssuedTo(u)
      BY <2>2 DEF IssuedTo, Issued, Live
    <3>3. LiveOf(u) \subseteq IssuedTo(u) /\ IssuedTo(u) \subseteq Issued
      BY DEF LiveOf, IssuedTo
    <3>4. IssuedTo(u) \subseteq LiveOf(u) \cup (Issued \ Live)
      BY DEF LiveOf, IssuedTo
    <3> QED
      BY <2>4, <3>1, <3>2, <3>3, <3>4
         DEF RequestOK, RotationOK, RevocationOK, Idle
  <2>6. req'[r].new = NoToken
    BY <2>4 DEF IdleRequest
  <2> QED
    BY <1>2, <2>2, <2>3, <2>5, <2>6, LocalStep DEF ghosts
<1>8. CASE \E u \in User : ChangeRead(r, u) \/ ResetRead(r, u)
  <2> PICK u \in User : ChangeRead(r, u) \/ ResetRead(r, u)
    BY <1>8
  <2>1. PICK o \in {"change", "reset"} :
          /\ req' = [req EXCEPT ![r] = [IdleRequest EXCEPT
                 !.op = o, !.pc = "hash", !.user = u, !.start = IssuedTo(u)]]
          /\ UNCHANGED <<refresh_tokens, active, reset, ghosts>>
    BY DEF ChangeRead, ResetRead
  <2> DEFINE next == [IdleRequest EXCEPT !.op = o, !.pc = "hash",
                         !.user = u, !.start = IssuedTo(u)]
  <2>2. next \in RequestState
    BY DEF IdleRequest, RequestState, Op, Pc, IssuedTo, Issued
  <2>3. TypeOK'
    BY <1>1, <2>1, <2>2 DEF TypeOK, ghosts
  <2>4. req'[r] = next
    BY <1>2, <2>1
  <2>5. RequestOK(r)'
    <3>1. /\ next.op = o /\ next.pc = "hash" /\ next.user = u
          /\ next.start = IssuedTo(u)
          /\ next.todo = {} /\ next.revoked = {}
      BY DEF IdleRequest
    <3>2. Issued' = Issued /\ IssuedTo(u)' = IssuedTo(u)
      BY <2>1 DEF IssuedTo, Issued
    <3>3. IssuedTo(u) \subseteq Issued
      BY DEF IssuedTo
    <3> QED
      BY <2>4, <3>1, <3>2, <3>3
         DEF RequestOK, RotationOK, RevocationOK, Idle
  <2>6. req'[r].new = NoToken
    BY <2>4 DEF IdleRequest
  <2> QED
    BY <1>2, <2>1, <2>3, <2>5, <2>6, LocalStep DEF ghosts
<1> QED
  BY <1>3, <1>4, <1>5, <1>6, <1>7, <1>8 DEF Arrive

LEMMA StatementSteps ==
  ASSUME IInv, NEW r \in Request,
         \/ RevokeToken(r) \/ UpdatePassword(r) \/ RevokeAllScan(r)
         \/ \E t \in Token : SweepRow(r, t)
  PROVE  IInv'
<1>1. TypeOK /\ RequestOK(r) /\ req[r] \in RequestState /\ DOMAIN req = Request
  BY DEF IInv, TypeOK
<1>2. UNCHANGED <<refresh_tokens, active, reset, ghosts>>
  BY DEF RevokeToken, UpdatePassword, RevokeAllScan, SweepRow
<1>3. Issued' = Issued /\ Live' = Live /\ \A u : IssuedTo(u)' = IssuedTo(u)
  BY <1>2 DEF Issued, Live, IssuedTo
<1>4. CASE RevokeToken(r)
  <2>1. /\ req[r].pc = "revoke" /\ req[r].op \in {"refresh", "logout"}
        /\ req[r].token \in IssuedTo(req[r].user) /\ req[r].todo = req[r].todo
        /\ req[r].token \in Token
    BY <1>1, <1>4 DEF RevokeToken, RequestOK, RotationOK, RevocationOK,
                      IssuedTo, Issued
  <2> DEFINE next == [req[r] EXCEPT !.pc = "commit",
                                    !.revoked = {req[r].token}]
  <2>2. req' = [req EXCEPT ![r] = next]
    BY <1>4 DEF RevokeToken
  <2>3. next \in RequestState
    BY <1>1, <2>1 DEF RequestState, Pc
  <2>4. /\ req'[r].op = req[r].op /\ req'[r].pc = "commit"
        /\ req'[r].user = req[r].user /\ req'[r].token = req[r].token
        /\ req'[r].new = req[r].new /\ req'[r].todo = req[r].todo
        /\ req'[r].start = req[r].start
        /\ req'[r].revoked = {req[r].token}
    BY <1>1, <2>2 DEF RequestState
  <2>5. TypeOK'
    BY <1>1, <1>2, <2>2, <2>3 DEF TypeOK, ghosts
  <2>6. RequestOK(r)'
    BY <1>1, <1>2, <1>3, <2>1, <2>4
       DEF RequestOK, RotationOK, RevocationOK, Idle, ghosts
  <2> QED
    BY <1>1, <1>2, <2>2, <2>4, <2>5, <2>6, LocalStep DEF ghosts
<1>5. CASE UpdatePassword(r)
  <2> DEFINE next == [req[r] EXCEPT !.pc = "scan"]
  <2>1. req' = [req EXCEPT ![r] = next] /\ req[r].pc = "hash"
    BY <1>5 DEF UpdatePassword
  <2>2. next \in RequestState
    BY <1>1 DEF RequestState, Pc
  <2>3. /\ req'[r].op = req[r].op /\ req'[r].pc = "scan"
        /\ req'[r].user = req[r].user /\ req'[r].token = req[r].token
        /\ req'[r].new = req[r].new /\ req'[r].todo = req[r].todo
        /\ req'[r].start = req[r].start /\ req'[r].revoked = req[r].revoked
    BY <1>1, <2>1 DEF RequestState
  <2>4. TypeOK'
    BY <1>1, <1>2, <2>1, <2>2 DEF TypeOK, ghosts
  <2>5. RequestOK(r)'
    BY <1>1, <1>2, <1>3, <2>1, <2>3
       DEF RequestOK, RotationOK, RevocationOK, Idle, ghosts
  <2> QED
    BY <1>1, <1>2, <2>1, <2>3, <2>4, <2>5, LocalStep DEF ghosts
<1>6. CASE RevokeAllScan(r)
  <2> DEFINE next == [req[r] EXCEPT !.pc = "sweep",
                                    !.todo = LiveOf(req[r].user)]
  <2>1. req' = [req EXCEPT ![r] = next] /\ req[r].pc = "scan"
    BY <1>6 DEF RevokeAllScan
  <2>2. next \in RequestState
    BY <1>1 DEF RequestState, Pc, LiveOf, IssuedTo, Issued
  <2>3. /\ req'[r].op = req[r].op /\ req'[r].pc = "sweep"
        /\ req'[r].user = req[r].user /\ req'[r].token = req[r].token
        /\ req'[r].new = req[r].new /\ req'[r].todo = LiveOf(req[r].user)
        /\ req'[r].start = req[r].start /\ req'[r].revoked = req[r].revoked
    BY <1>1, <2>1 DEF RequestState
  <2>4. TypeOK'
    BY <1>1, <1>2, <2>1, <2>2 DEF TypeOK, ghosts
  <2>5. LiveOf(req[r].user) \subseteq IssuedTo(req[r].user)
    BY DEF LiveOf
  <2>6. IssuedTo(req[r].user) \subseteq LiveOf(req[r].user) \cup (Issued \ Live)
    BY DEF LiveOf, IssuedTo
  <2>7. RequestOK(r)'
    BY <1>1, <1>2, <1>3, <2>1, <2>3, <2>5, <2>6
       DEF RequestOK, RotationOK, RevocationOK, Idle, ghosts
  <2> QED
    BY <1>1, <1>2, <2>1, <2>3, <2>4, <2>7, LocalStep DEF ghosts
<1>7. CASE \E t \in Token : SweepRow(r, t)
  <2> PICK t \in Token : SweepRow(r, t)
    BY <1>7
  <2>1. PICK H \in SUBSET {t} :
          /\ req' = [req EXCEPT ![r].todo = @ \ {t},
                                ![r].revoked = @ \cup H]
          /\ t \notin H => req[r].op # "reuse" /\ t \notin Live
    <3>1. CASE req[r].op = "reuse" \/ t \in Live
      <4>1. req' = [req EXCEPT ![r].todo = @ \ {t},
                               ![r].revoked = @ \cup {t}]
        BY <3>1 DEF SweepRow
      <4> WITNESS {t} \in SUBSET {t}
      <4> QED
        BY <4>1
    <3>2. CASE ~(req[r].op = "reuse" \/ t \in Live)
      <4>1. req' = [req EXCEPT ![r].todo = @ \ {t}, ![r].revoked = @]
        BY <3>2 DEF SweepRow
      <4>2. req[r].revoked \cup {} = req[r].revoked
        OBVIOUS
      <4>3. req' = [req EXCEPT ![r].todo = @ \ {t},
                               ![r].revoked = @ \cup {}]
        BY <4>1, <4>2
      <4> WITNESS {} \in SUBSET {t}
      <4> QED
        BY <3>2, <4>3
    <3> QED
      BY <3>1, <3>2
  <2> DEFINE next == [req[r] EXCEPT !.todo = @ \ {t}, !.revoked = @ \cup H]
  <2>2. req' = [req EXCEPT ![r] = next] /\ req[r].pc = "sweep"
        /\ t \in req[r].todo
    <3>1. req[r].pc = "sweep" /\ t \in req[r].todo
      BY DEF SweepRow
    <3> QED
      BY ONLY <2>1, <3>1, ZenonT(60)
  <2>3. next \in RequestState
    BY <1>1 DEF RequestState
  <2>4. /\ req'[r].op = req[r].op /\ req'[r].pc = "sweep"
        /\ req'[r].user = req[r].user /\ req'[r].token = req[r].token
        /\ req'[r].new = req[r].new /\ req'[r].todo = req[r].todo \ {t}
        /\ req'[r].start = req[r].start
        /\ req'[r].revoked = req[r].revoked \cup H
    BY <1>1, <2>2 DEF RequestState
  <2>5. TypeOK'
    BY <1>1, <1>2, <2>2, <2>3 DEF TypeOK, ghosts
  <2>6. req[r].op # "reuse" => t \in Issued
    BY <1>1, <2>2 DEF RequestOK, IssuedTo
  <2> HIDE DEF next
  <2>7. RequestOK(r)'
    <3>1. RotationOK(r)'
      BY <1>1, <1>2, <1>3, <2>2, <2>4 DEF RequestOK, RotationOK, ghosts
    <3>2. RevocationOK(r)'
      <4>1. t \notin H => req[r].op = "reuse" \/ t \in Issued \ Live
        BY <2>1, <2>6
      <4> QED
        BY <1>1, <1>3, <2>1, <2>2, <2>4, <4>1 DEF RequestOK, RevocationOK
    <3>3. req[r].op # "reuse" =>
            (req[r].todo \ {t}) \cup (req[r].revoked \cup H)
                \subseteq IssuedTo(req[r].user)
      BY <1>1, <2>1, <2>2 DEF RequestOK
    <3> QED
      BY <1>1, <1>3, <2>2, <2>4, <3>1, <3>2, <3>3 DEF RequestOK, Idle
  <2> QED
    BY <1>1, <1>2, <2>2, <2>4, <2>5, <2>7, LocalStep DEF ghosts
<1> QED
  BY <1>4, <1>5, <1>6, <1>7

(* A request that ends with a rollback.                                    *)
LEMMA RollbackSteps ==
  ASSUME IInv, NEW r \in Request, Abort(r) \/ ReuseRaise(r)
  PROVE  IInv'
<1>1. TypeOK /\ RequestOK(r) /\ DOMAIN req = Request
  BY DEF IInv, TypeOK
<1>2. /\ UNCHANGED <<refresh_tokens, active, reset, origin, told, current>>
      /\ req' = [req EXCEPT ![r] = IdleRequest]
  BY DEF Abort, ReuseRaise, EndRequest, ghosts
<1>3. warned' \subseteq Token
  <2>1. CASE Abort(r)
    BY <1>1, <2>1 DEF Abort, ghosts, TypeOK
  <2>2. CASE ReuseRaise(r)
    <3>1. req[r].token \in Issued
      BY <1>1, <2>2 DEF ReuseRaise, RequestOK
    <3>2. refresh_tokens[req[r].token].family \in Token
      BY <1>1, <3>1 DEF Issued, TypeOK, Row
    <3> QED
      BY <1>1, <2>2, <3>2 DEF ReuseRaise, TypeOK
  <2> QED
    BY <2>1, <2>2
<1>4. TypeOK'
  BY <1>1, <1>2, <1>3, IdleIsWellTyped DEF TypeOK
<1>5. req'[r] = IdleRequest
  BY <1>1, <1>2
<1>6. RequestOK(r)' /\ req'[r].new = NoToken
  BY <1>5 DEF RequestOK, RotationOK, RevocationOK, Idle, IdleRequest
<1> QED
  BY <1>1, <1>2, <1>4, <1>6, LocalStep

(* The requests that only update the users row.                            *)
LEMMA UserSteps ==
  ASSUME IInv, \E u \in User : VerifyEmail(u) \/ RequestReset(u)
  PROVE  IInv'
<1>1. UNCHANGED <<refresh_tokens, req, origin, told, warned, current>>
  BY DEF VerifyEmail, RequestReset, ghosts
<1>2. active' \subseteq User /\ reset' \subseteq User
  BY DEF VerifyEmail, RequestReset, IInv, TypeOK
<1>3. TypeOK'
  BY <1>1, <1>2 DEF IInv, TypeOK
<1>4. Issued' = Issued /\ Live' = Live /\ \A u : IssuedTo(u)' = IssuedTo(u)
  BY <1>1 DEF Issued, Live, IssuedTo
<1>5. NewTokensReserved' /\ RotationAtomic' /\ RotatedOncePerSlot'
      /\ ToldRevoked'
  BY <1>1, <1>4 DEF IInv, NewTokensReserved, RotationAtomic,
                    RotatedOncePerSlot, ToldRevoked
<1>6. \A r \in Request : RequestOK(r)'
  BY <1>1, <1>4 DEF IInv, RequestOK, RotationOK, RevocationOK, Idle
<1> QED
  BY <1>3, <1>5, <1>6 DEF IInv

-----------------------------------------------------------------------------
(* The actions that commit.                                                *)

(* What r revokes, and the row it may insert, keep every other request in  *)
(* the state it relied on: rows appear and die, but never change hands.    *)
LEMMA CommitStep ==
  ASSUME IInv, TypeOK', NEW r \in Request, NEW N \in SUBSET {req[r].new},
         Issued' = Issued \cup N,
         Live' \cap Issued \subseteq Live,
         \A t \in Issued : /\ refresh_tokens'[t].user = refresh_tokens[t].user
                           /\ origin'[t] = origin[t],
         \A n \in N : origin'[n].by = r,
         req'[r] = IdleRequest,
         \A q \in Request \ {r} :
             /\ Idle(q) => req'[q] = req[q]
             /\ req'[q].op = req[q].op /\ req'[q].pc = req[q].pc
             /\ req'[q].user = req[q].user /\ req'[q].token = req[q].token
             /\ req'[q].new = req[q].new /\ req'[q].todo = req[q].todo
             /\ req'[q].revoked = req[q].revoked
             /\ req'[q].start = req[q].start,
         RotationAtomic', RotatedOncePerSlot', ToldRevoked'
  PROVE  IInv'
<1>1. NoToken \notin Issued' /\ Issued' \subseteq Token
  BY NoValuesAssumption DEF Issued
<1>2. NewTokensReserved'
  <2>1. req'[r].new = NoToken
    BY DEF IdleRequest
  <2>2. ASSUME NEW q \in Request \ {r} PROVE req'[q].new \notin Issued'
    <3>1. req[q].new \notin Issued
      BY DEF IInv, NewTokensReserved
    <3>2. ASSUME NEW n \in N PROVE req[q].new # n
      <4>1. n = req[r].new /\ n # NoToken
        BY <1>1
      <4> QED
        BY <4>1 DEF IInv, NewTokensReserved
    <3> QED
      BY <3>1, <3>2
  <2>3. ASSUME NEW p \in Request, NEW q \in Request,
               p # q, req'[q].new # NoToken
        PROVE  req'[p].new # req'[q].new
    BY <2>1, <2>3 DEF IInv, NewTokensReserved
  <2> QED
    BY <1>1, <2>1, <2>2, <2>3 DEF NewTokensReserved
<1>3. \A u : IssuedTo(u) \subseteq IssuedTo(u)'
  BY DEF IssuedTo
<1>4. Issued \ Live \subseteq (Issued \ Live)'
  OBVIOUS
<1>5. ASSUME NEW q \in Request \ {r} PROVE RequestOK(q)'
  <2>1. RequestOK(q)
    BY DEF IInv
  <2>2. RotationOK(q)'
    <3> SUFFICES ASSUME req[q].op = "refresh" PROVE RotationOK(q)'
      BY DEF RotationOK
    <3>1. ASSUME NEW n \in Issued', origin'[n].parent = req[q].token
          PROVE  origin'[n].by # q
      <4>1. CASE n \in Issued
        BY <2>1, <3>1, <4>1 DEF RequestOK, RotationOK
      <4>2. CASE n \in N
        BY <4>2
      <4> QED
        BY <4>1, <4>2
    <3> QED
      BY <1>3, <2>1, <3>1 DEF RequestOK, RotationOK
  <2>3. RevocationOK(q)'
    BY <1>3, <1>4, <2>1 DEF RequestOK, RevocationOK
  <2>4. Idle(q)' => req'[q] = IdleRequest
    BY <2>1 DEF RequestOK, Idle
  <2> QED
    BY <1>3, <2>1, <2>2, <2>3, <2>4 DEF RequestOK, Idle
<1>6. RequestOK(r)'
  BY DEF RequestOK, RotationOK, RevocationOK, Idle, IdleRequest
<1> QED
  BY <1>2, <1>5, <1>6 DEF IInv

(* The table after the updates of r, and after its insertion.              *)
LEMMA UpdatedTable ==
  ASSUME TypeOK, NEW r \in Request, req[r].revoked \subseteq Issued
  PROVE  /\ \A t \in Token \ Issued : Updated(r)[t] = NoRow
         /\ \A t \in Issued : /\ Updated(r)[t] \in Row
                              /\ Updated(r)[t].user = refresh_tokens[t].user
                              /\ Updated(r)[t].family = refresh_tokens[t].family
                              /\ Updated(r)[t].is_revoked <=>
                                     (t \notin Live \/ t \in req[r].revoked)
<1>1. \A t \in Issued : refresh_tokens[t] \in Row
  BY DEF TypeOK, Issued
<1>2. \A t \in Token \ Issued : refresh_tokens[t] = NoRow
  BY DEF Issued
<1> QED
  BY <1>1, <1>2 DEF Updated, Row, Live, Issued

(* A commit that only revokes.                                             *)
LEMMA RevocationCommits ==
  ASSUME IInv, NEW r \in Request, LogoutCommit(r) \/ PasswordCommit(r)
  PROVE  IInv'
<1>1. /\ TypeOK /\ RequestOK(r) /\ req \in [Request -> RequestState]
      /\ req[r].op \in {"logout", "logout_all", "change", "reset"}
      /\ refresh_tokens' = Updated(r)
      /\ told' = told \cup req[r].start
      /\ UNCHANGED <<active, origin, warned>>
  BY DEF IInv, TypeOK, LogoutCommit, PasswordCommit
<1>2. req[r].revoked \subseteq IssuedTo(req[r].user)
      /\ req[r].revoked \subseteq Issued /\ req[r].user \in User
  BY <1>1 DEF RequestOK, RevocationOK, IssuedTo
<1>3. /\ \A t \in Token \ Issued : refresh_tokens'[t] = NoRow
      /\ \A t \in Issued :
            /\ refresh_tokens'[t] \in Row
            /\ refresh_tokens'[t].user = refresh_tokens[t].user
            /\ refresh_tokens'[t].is_revoked <=>
                   (t \notin Live \/ t \in req[r].revoked)
  BY <1>1, <1>2, UpdatedTable
<1>4. Issued' = Issued /\ Live' = Live \ req[r].revoked
  BY <1>3, NoValuesAssumption DEF Issued, Live
<1>5. req[r].start \subseteq Issued \ Live'
  <2>1. CASE LogoutCommit(r)
    BY <1>1, <1>4, <2>1 DEF LogoutCommit, SweepDone, RequestOK, RevocationOK
  <2>2. CASE PasswordCommit(r)
    BY <1>1, <1>4, <2>2 DEF PasswordCommit, SweepDone, RequestOK, RevocationOK
  <2> QED
    BY <2>1, <2>2
<1>6. req' \in [Request -> RequestState] /\ req'[r] = IdleRequest
      /\ \A q \in Request \ {r} :
             /\ Idle(q) => req'[q] = req[q]
             /\ req'[q].op = req[q].op /\ req'[q].pc = req[q].pc
             /\ req'[q].user = req[q].user /\ req'[q].token = req[q].token
             /\ req'[q].new = req[q].new /\ req'[q].todo = req[q].todo
             /\ req'[q].revoked = req[q].revoked
             /\ req'[q].start = req[q].start
  <2>1. CASE LogoutCommit(r)
    BY <1>1, <2>1, IdleIsWellTyped DEF LogoutCommit, EndRequest
  <2>2. CASE PasswordCommit(r)
    <3>1. \A q \in Request : req[q] \in RequestState
      BY <1>1
    <3>2. \A q \in Request \ {r} : Idle(q) => req[q].user # req[r].user
      <4>1. \A q \in Request : Idle(q) => req[q].user = NoUser
        BY DEF IInv, RequestOK, IdleRequest
      <4> QED
        BY <1>2, <4>1, NoValuesAssumption
    <3>3. \A q \in Request \ {r} :
            \/ req'[q] = req[q]
            \/ /\ req'[q] = [req[q] EXCEPT !.fresh = FALSE]
               /\ req[q].user = req[r].user
      BY <2>2 DEF PasswordCommit
    <3>4. req'[r] = IdleRequest
      BY <2>2 DEF PasswordCommit
    <3>5. ASSUME NEW q \in Request PROVE req'[q] \in RequestState
      <4>1. [req[q] EXCEPT !.fresh = FALSE] \in RequestState
        BY <3>1 DEF RequestState
      <4> QED
        BY <3>1, <3>3, <3>4, <4>1, IdleIsWellTyped
    <3>6. req' \in [Request -> RequestState]
      <4>1. req' = [q \in Request |-> req'[q]]
        BY <2>2 DEF PasswordCommit
      <4> QED
        BY <3>5, <4>1
    <3> QED
      BY <3>1, <3>2, <3>3, <3>4, <3>6 DEF RequestState
  <2> QED
    BY <2>1, <2>2
<1>7. refresh_tokens' \in [Token -> Row \cup {NoRow}]
  <2>1. refresh_tokens' = [t \in Token |-> refresh_tokens'[t]]
    BY <1>1 DEF Updated
  <2> QED
    BY <1>3, <2>1
<1>8. TypeOK'
  <2>1. reset' \subseteq User /\ current' \subseteq Token
    BY <1>1 DEF LogoutCommit, PasswordCommit, TypeOK
  <2>2. told' \subseteq Token
    BY <1>1, <1>5 DEF TypeOK, Issued
  <2> QED
    BY <1>1, <1>6, <1>7, <2>1, <2>2 DEF TypeOK
<1>9. RotationAtomic' /\ RotatedOncePerSlot'
  BY <1>1, <1>4 DEF IInv, RotationAtomic, RotatedOncePerSlot
<1>10. ToldRevoked'
  BY <1>1, <1>4, <1>5 DEF IInv, ToldRevoked
<1>11. /\ {} \in SUBSET {req[r].new} /\ Issued' = Issued \cup {}
       /\ Live' \cap Issued \subseteq Live
       /\ \A t \in Issued : /\ refresh_tokens'[t].user = refresh_tokens[t].user
                            /\ origin'[t] = origin[t]
       /\ \A m \in {} : origin'[m].by = r
  BY <1>1, <1>3, <1>4
<1> QED
  BY <1>6, <1>8, <1>9, <1>10, <1>11, CommitStep

(* A commit that inserts a row: a login, or a rotation.                    *)
LEMMA InsertCommits ==
  ASSUME IInv, NEW r \in Request, LoginCommit(r) \/ RefreshCommit(r)
  PROVE  IInv'
<1> DEFINE n == req[r].new
           parent == IF req[r].op = "login" THEN NoToken ELSE req[r].token
           family == IF req[r].op = "login" THEN n
                     ELSE refresh_tokens[req[r].token].family
<1>1. /\ TypeOK /\ RequestOK(r) /\ req \in [Request -> RequestState]
      /\ UNCHANGED <<active, reset, told, warned>>
      /\ req' = [req EXCEPT ![r] = IdleRequest]
  BY DEF IInv, TypeOK, LoginCommit, RefreshCommit, EndRequest
<1>2. req[r].op \in {"login", "refresh"}
  BY <1>1 DEF LoginCommit, RefreshCommit, RequestOK
<1>3. /\ refresh_tokens' = Inserted(r, family)
      /\ Reissued(r, parent)
  <2>1. CASE LoginCommit(r)
    BY <1>1, <2>1 DEF LoginCommit, RequestOK
  <2>2. CASE RefreshCommit(r)
    BY <2>2 DEF RefreshCommit
  <2> QED
    BY <2>1, <2>2
<1>4. /\ n \in Token /\ n \notin Issued /\ req[r].user \in User
      /\ req[r].revoked \subseteq Issued
  BY <1>1, <1>2 DEF RequestOK, RotationOK, IInv, NewTokensReserved, IssuedTo
<1>5. parent # NoToken =>
          /\ parent \in IssuedTo(req[r].user) /\ parent \in Issued
          /\ parent \in req[r].revoked
          /\ \A m \in Issued : origin[m].parent = parent => origin[m].by # r
  <2> SUFFICES ASSUME req[r].op = "refresh"
               PROVE  /\ req[r].token \in IssuedTo(req[r].user)
                      /\ req[r].token \in Issued
                      /\ req[r].token \in req[r].revoked
                      /\ \A m \in Issued : origin[m].parent = req[r].token =>
                                               origin[m].by # r
    BY <1>2
  <2>1. req[r].pc = "commit"
    BY <1>1 DEF LoginCommit, RefreshCommit, RequestOK
  <2> QED
    BY <1>1, <2>1 DEF RequestOK, RotationOK, IssuedTo
<1>6. family \in Token
  <2>1. CASE req[r].op = "login"
    BY <1>4, <2>1
  <2>2. CASE req[r].op = "refresh"
    <3>1. req[r].token \in Issued
      BY <1>1, <2>2 DEF RequestOK, RotationOK, IssuedTo
    <3> QED
      BY <1>1, <2>2, <3>1 DEF TypeOK, Issued, Row
  <2> QED
    BY <1>2, <2>1, <2>2
<1> HIDE DEF family, parent
<1>7. refresh_tokens'[n] = [user |-> req[r].user, family |-> family,
                            is_revoked |-> FALSE]
      /\ \A t \in Token \ {n} : refresh_tokens'[t] = Updated(r)[t]
  BY <1>3, <1>4 DEF Inserted, Updated
<1>8. refresh_tokens'[n] \in Row
  BY <1>4, <1>6, <1>7 DEF Row
<1>9. /\ \A t \in Token \ (Issued \cup {n}) : refresh_tokens'[t] = NoRow
      /\ \A t \in Issued :
            /\ refresh_tokens'[t] \in Row
            /\ refresh_tokens'[t].user = refresh_tokens[t].user
            /\ refresh_tokens'[t].is_revoked <=>
                   (t \notin Live \/ t \in req[r].revoked)
  <2>1. \A t \in Issued : t \in Token /\ t # n
    BY <1>4 DEF Issued
  <2> QED
    BY <1>1, <1>4, <1>7, <2>1, UpdatedTable
<1>10. /\ Issued' = Issued \cup {n}
       /\ Live' = (Live \ req[r].revoked) \cup {n}
  <2>1. refresh_tokens'[n] # NoRow /\ ~refresh_tokens'[n].is_revoked
    <3>1. refresh_tokens'[n] # NoRow
      BY <1>8, NoValuesAssumption
    <3>2. refresh_tokens'[n].is_revoked = FALSE
      BY <1>7
    <3> QED
      BY <3>1, <3>2
  <2> QED
    BY <1>4, <1>9, <2>1, NoValuesAssumption DEF Issued, Live
<1>11. /\ origin' = [origin EXCEPT ![n] = [parent |-> parent, by |-> r]]
       /\ current' \subseteq current \cup {n}
       /\ origin \in [Token -> [parent : Token \cup {NoToken},
                                by : Request \cup {NoRequest}]]
  BY <1>1, <1>3 DEF Reissued, TypeOK
<1>12. /\ origin'[n].parent = parent /\ origin'[n].by = r
       /\ \A t \in Issued : origin'[t] = origin[t]
  BY <1>4, <1>11 DEF Issued
<1>13. TypeOK'
  <2>1. parent \in Token \cup {NoToken}
    BY <1>5 DEF Issued
  <2>2. origin' \in [Token -> [parent : Token \cup {NoToken},
                               by : Request \cup {NoRequest}]]
    BY <1>11, <2>1
  <2>3. refresh_tokens' \in [Token -> Row \cup {NoRow}]
    <3>1. \A t \in Token : refresh_tokens'[t] \in Row \cup {NoRow}
      BY <1>8, <1>9
    <3>2. refresh_tokens' = [t \in Token |-> refresh_tokens'[t]]
      BY <1>3 DEF Inserted, Updated
    <3> QED
      BY <3>1, <3>2
  <2>4. req' \in [Request -> RequestState]
    BY <1>1, IdleIsWellTyped
  <2>5. current' \subseteq Token
    BY <1>1, <1>4, <1>11 DEF TypeOK
  <2> QED
    BY <1>1, <2>2, <2>3, <2>4, <2>5 DEF TypeOK
<1>14. req'[r] = IdleRequest /\ \A q \in Request \ {r} : req'[q] = req[q]
  BY <1>1
<1>15. RotationAtomic'
  BY <1>4, <1>5, <1>10, <1>12 DEF IInv, RotationAtomic
<1>16. RotatedOncePerSlot'
  <2> SUFFICES ASSUME NEW a \in Issued', NEW b \in Issued', a # b,
                      origin'[a].parent = origin'[b].parent,
                      origin'[b].parent # NoToken
               PROVE  origin'[a].by # origin'[b].by
    BY DEF RotatedOncePerSlot
  <2>1. CASE a \in Issued /\ b \in Issued
    BY <1>12, <2>1 DEF IInv, RotatedOncePerSlot
  <2>2. CASE a = n /\ b \in Issued
    BY <1>5, <1>12, <2>2
  <2>3. CASE b = n /\ a \in Issued
    BY <1>5, <1>12, <2>3
  <2> QED
    BY <1>10, <2>1, <2>2, <2>3
<1>17. ToldRevoked'
  BY <1>1, <1>4, <1>10 DEF IInv, ToldRevoked
<1>18. /\ {n} \in SUBSET {req[r].new}
       /\ Live' \cap Issued \subseteq Live
       /\ \A t \in Issued : /\ refresh_tokens'[t].user = refresh_tokens[t].user
                            /\ origin'[t] = origin[t]
       /\ \A m \in {n} : origin'[m].by = r
  BY <1>4, <1>9, <1>10, <1>12
<1> HIDE DEF n
<1> QED
  BY <1>10, <1>13, <1>14, <1>15, <1>16, <1>17, <1>18, CommitStep

-----------------------------------------------------------------------------
(* IInv holds in every reachable state.                                    *)
THEOREM Invariance == Spec => []IInv
<1>1. IInv /\ [Next]_vars => IInv'
  <2> SUFFICES ASSUME IInv, [Next]_vars PROVE IInv'
    OBVIOUS
  <2>1. CASE UNCHANGED vars
    <3>1. UNCHANGED <<refresh_tokens, active, reset, req, origin, told,
                      warned, current>>
      BY <2>1 DEF vars
    <3>2. Issued' = Issued /\ Live' = Live /\ \A u : IssuedTo(u)' = IssuedTo(u)
      BY <3>1 DEF Issued, Live, IssuedTo
    <3>3. TypeOK' /\ NewTokensReserved' /\ RotationAtomic'
          /\ RotatedOncePerSlot' /\ ToldRevoked'
      BY <3>1, <3>2 DEF IInv, TypeOK, NewTokensReserved, RotationAtomic,
                        RotatedOncePerSlot, ToldRevoked
    <3>4. \A r \in Request : RequestOK(r)'
      BY <3>1, <3>2 DEF IInv, RequestOK, RotationOK, RevocationOK, Idle
    <3> QED
      BY <3>3, <3>4 DEF IInv
  <2>2. CASE \E r \in Request : Arrive(r)
    BY <2>2, ReadSteps
  <2>3. ASSUME NEW r \in Request, Proceed(r) PROVE IInv'
    BY <2>3, StatementSteps, RollbackSteps, RevocationCommits, InsertCommits
       DEF Proceed
  <2>4. CASE \E r \in Request : Abort(r)
    BY <2>4, RollbackSteps
  <2>5. CASE \E u \in User : VerifyEmail(u) \/ RequestReset(u)
    BY <2>5, UserSteps
  <2> QED
    BY <2>1, <2>2, <2>3, <2>4, <2>5 DEF Next
<1> QED
  BY InitIInv, <1>1, PTL DEF Spec

(* The table, the requests and the observations keep their types.          *)
THEOREM TypeCorrect == Spec => []TypeOK
<1>1. IInv => TypeOK
  BY DEF IInv
<1> QED
  BY Invariance, <1>1, PTL

(* No interleaving, crash or rollback splits a rotation: a successor is in *)
(* the table only with its predecessor revoked.                            *)
THEOREM RotationIsAtomic == Spec => []RotationAtomic
<1>1. IInv => RotationAtomic
  BY DEF IInv
<1> QED
  BY Invariance, <1>1, PTL

(* However many requests run, one slot rotates a token at most once.       *)
THEOREM OneRotationPerSlot == Spec => []RotatedOncePerSlot
<1>1. IInv => RotatedOncePerSlot
  BY DEF IInv
<1> QED
  BY Invariance, <1>1, PTL

(* What a logout or a password change told a client is dead never lives    *)
(* again, for any number of requests and tokens.                           *)
THEOREM ToldStaysRevoked == Spec => []ToldRevoked
<1>1. IInv => ToldRevoked
  BY DEF IInv
<1> QED
  BY Invariance, <1>1, PTL

-----------------------------------------------------------------------------
(* Every request is one step of SessionBook, or none.                      *)

LEMMA LoginOpens ==
  ASSUME IInv, NEW r \in Request, LoginCommit(r)
  PROVE  Book!BookNext
<1>1. req[r].op = "login" /\ req[r].new \in Token /\ req[r].user \in User
      /\ req[r].revoked = {} /\ req[r].new \notin Issued
  BY DEF IInv, LoginCommit, RequestOK, NewTokensReserved
<1>2. Updated(r) = refresh_tokens
  BY <1>1 DEF Updated, IInv, TypeOK
<1>3. Book!Open(req[r].user, req[r].new)
  BY <1>1, <1>2 DEF LoginCommit, Inserted, Issued, Book!Open, Book!Entered
<1> QED
  BY <1>1, <1>3 DEF Book!BookNext

LEMMA RefreshHandsOver ==
  ASSUME IInv, NEW r \in Request, RefreshCommit(r)
  PROVE  Book!BookNext
<1> DEFINE t == req[r].token
           n == req[r].new
<1>1. /\ t \in IssuedTo(req[r].user) /\ t \in Issued /\ t \in Token
      /\ n \in Token /\ n \notin Issued /\ req[r].revoked = {t}
  BY DEF IInv, RefreshCommit, RequestOK, RotationOK, NewTokensReserved,
         IssuedTo, Issued
<1>2. refresh_tokens[t].user = req[r].user /\ t # n
  BY <1>1 DEF IssuedTo
<1>3. refresh_tokens' =
        [Updated(r) EXCEPT ![n] = [user |-> req[r].user,
                                   family |-> refresh_tokens[t].family,
                                   is_revoked |-> FALSE]]
  BY DEF RefreshCommit, Inserted
<1>4. Updated(r) = [refresh_tokens EXCEPT
                      ![t] = [@ EXCEPT !.is_revoked = TRUE]]
  BY <1>1 DEF Updated, IInv, TypeOK
<1>5. refresh_tokens' =
        [refresh_tokens EXCEPT
           ![t] = [@ EXCEPT !.is_revoked = TRUE],
           ![n] = [user |-> refresh_tokens[t].user,
                   family |-> refresh_tokens[t].family,
                   is_revoked |-> FALSE]]
  BY <1>2, <1>3, <1>4
<1>6. Book!HandOver(t, n)
  BY <1>1, <1>5 DEF Issued, Book!HandOver, Book!Entered
<1> QED
  BY <1>1, <1>6 DEF Book!BookNext

LEMMA RevocationCloses ==
  ASSUME IInv, NEW r \in Request, LogoutCommit(r) \/ PasswordCommit(r)
  PROVE  Book!BookNext
<1>1. /\ req[r].user \in User /\ req[r].revoked \subseteq IssuedTo(req[r].user)
      /\ refresh_tokens' = Updated(r)
  BY DEF IInv, RequestOK, RevocationOK, LogoutCommit, PasswordCommit
<1>2. Book!Close(req[r].user, req[r].revoked)
  BY <1>1 DEF Book!Close, Book!Entered, IssuedTo, Issued, Updated
<1>3. req[r].revoked \in SUBSET Token
  BY <1>1 DEF IssuedTo, Issued
<1> QED
  BY <1>1, <1>2, <1>3 DEF Book!BookNext

(* Whatever statements the requests interleave, and wherever one of them   *)
(* dies, the table goes through whole operations of SessionBook only.      *)
THEOREM Refinement == Spec => ImplementsBook
<1>1. Init => Book!BookInit
  BY DEF Init, Book!BookInit
<1>2. IInv /\ [Next]_vars => [Book!BookNext]_refresh_tokens
  <2> SUFFICES ASSUME IInv, [Next]_vars, refresh_tokens' # refresh_tokens
               PROVE  Book!BookNext
    OBVIOUS
  <2>1. PICK r \in Request : Arrive(r) \/ Proceed(r) \/ Abort(r)
    BY DEF Next, vars, VerifyEmail, RequestReset
  <2>2. ~Arrive(r) /\ ~Abort(r)
    BY Zenon DEF Arrive, Abort, LoginRead, RefreshRead, ReuseRead, LogoutRead,
                 LogoutAllRead, ChangeRead, ResetRead
  <2>3. LoginCommit(r) \/ RefreshCommit(r) \/ LogoutCommit(r)
        \/ PasswordCommit(r)
    BY <2>1, <2>2, Zenon DEF Proceed, RevokeToken, UpdatePassword,
                             RevokeAllScan, SweepRow, ReuseRaise
  <2> QED
    BY <2>3, LoginOpens, RefreshHandsOver, RevocationCloses
<1> QED
  BY <1>1, <1>2, Invariance, PTL DEF Spec, ImplementsBook, Book!BookSpec

-----------------------------------------------------------------------------
(* What follows for the rows of the table, from SessionBook alone.         *)

(* A row stays in the table with its user and its family, and once revoked *)
(* it stays so.                                                            *)
RowKept(t) ==
    t \in Issued =>
        /\ t \in Issued'
        /\ refresh_tokens'[t].user = refresh_tokens[t].user
        /\ refresh_tokens'[t].family = refresh_tokens[t].family
        /\ refresh_tokens[t].is_revoked => refresh_tokens'[t].is_revoked

(* The family of a row is the row of a login of the same user.             *)
FamilyFounded(t) ==
    LET f == refresh_tokens[t].family
    IN  /\ f \in Issued
        /\ refresh_tokens[f].family = f
        /\ refresh_tokens[f].user = refresh_tokens[t].user
FamiliesFounded == \A t \in Issued : FamilyFounded(t)

(* Rows keep what they have, and a row that is new begins a family or      *)
(* joins that of a row of the same user.                                   *)
Extends(n) ==
    /\ \A t \in Token : RowKept(t)
    /\ Issued' \subseteq Issued \cup {n}
    /\ n \in Issued' \ Issued =>
           \/ refresh_tokens'[n].family = n
           \/ \E p \in Issued :
                  /\ refresh_tokens'[n].family = refresh_tokens[p].family
                  /\ refresh_tokens'[n].user = refresh_tokens[p].user

LEMMA OpenExtends ==
  ASSUME TypeOK, NEW u \in User, NEW n \in Token, Book!Open(u, n)
  PROVE  Extends(n)
<1>1. /\ n \notin Issued
      /\ refresh_tokens' = [refresh_tokens EXCEPT
             ![n] = [user |-> u, family |-> n, is_revoked |-> FALSE]]
  BY DEF Book!Open, Book!Entered, Issued
<1>2. /\ refresh_tokens'[n].family = n
      /\ \A t \in Token \ {n} : refresh_tokens'[t] = refresh_tokens[t]
  BY <1>1 DEF TypeOK
<1>3. \A t \in Issued : t \in Token /\ t # n /\ t \in Issued'
  BY <1>1, <1>2 DEF Issued
<1>4. Issued' \subseteq Issued \cup {n}
  BY <1>2 DEF Issued
<1>5. \A t \in Token : RowKept(t)
  BY <1>2, <1>3 DEF RowKept
<1> QED
  BY <1>2, <1>4, <1>5 DEF Extends

LEMMA HandOverExtends ==
  ASSUME TypeOK, NEW s \in Token, NEW n \in Token, Book!HandOver(s, n)
  PROVE  Extends(n)
<1> DEFINE row == [user |-> refresh_tokens[s].user,
                   family |-> refresh_tokens[s].family,
                   is_revoked |-> FALSE]
           gone == [refresh_tokens[s] EXCEPT !.is_revoked = TRUE]
<1>1. /\ n \notin Issued /\ s \in Issued /\ s # n
      /\ refresh_tokens' = [refresh_tokens EXCEPT ![s] = gone, ![n] = row]
  BY DEF Book!HandOver, Book!Entered, Issued
<1>2. refresh_tokens[s] \in Row
  BY <1>1 DEF TypeOK, Issued
<1>3. /\ gone \in Row /\ gone.is_revoked
      /\ gone.user = refresh_tokens[s].user
      /\ gone.family = refresh_tokens[s].family
      /\ row.user = refresh_tokens[s].user
      /\ row.family = refresh_tokens[s].family
  BY <1>2 DEF Row
<1> HIDE DEF row, gone
<1>4. /\ refresh_tokens'[n] = row /\ refresh_tokens'[s] = gone
      /\ \A t \in Token \ {s, n} : refresh_tokens'[t] = refresh_tokens[t]
  BY <1>1 DEF TypeOK
<1>5. \A t \in Issued : t \in Token /\ t # n
  BY <1>1 DEF Issued
<1>6. \A t \in Issued : t \in Issued'
  BY <1>3, <1>4, <1>5, NoValuesAssumption DEF Issued
<1>7. Issued' \subseteq Issued \cup {n}
  BY <1>1, <1>4 DEF Issued
<1>8. \A t \in Token : RowKept(t)
  BY <1>3, <1>4, <1>5, <1>6 DEF RowKept
<1> QED
  BY <1>1, <1>3, <1>4, <1>7, <1>8 DEF Extends

LEMMA CloseExtends ==
  ASSUME TypeOK, NEW u \in User, NEW S \in SUBSET Token, Book!Close(u, S),
         NEW n \in Token
  PROVE  Extends(n)
<1>1. /\ \A t \in S : t \in Issued
      /\ refresh_tokens' =
             [t \in Token |-> IF t \in S
                              THEN [refresh_tokens[t] EXCEPT
                                      !.is_revoked = TRUE]
                              ELSE refresh_tokens[t]]
  BY DEF Book!Close, Book!Entered, Issued
<1>2. ASSUME NEW t \in S
      PROVE  /\ refresh_tokens'[t] \in Row
             /\ refresh_tokens'[t].user = refresh_tokens[t].user
             /\ refresh_tokens'[t].family = refresh_tokens[t].family
             /\ refresh_tokens'[t].is_revoked
  <2>1. refresh_tokens[t] \in Row
    BY <1>1 DEF TypeOK, Issued
  <2>2. refresh_tokens'[t] = [refresh_tokens[t] EXCEPT !.is_revoked = TRUE]
    BY <1>1
  <2> QED
    BY <2>1, <2>2 DEF Row
<1>3. \A t \in Token \ S : refresh_tokens'[t] = refresh_tokens[t]
  BY <1>1
<1>4. Issued' = Issued
  BY <1>1, <1>2, <1>3, NoValuesAssumption DEF Issued
<1>5. \A t \in Token : RowKept(t)
  BY <1>2, <1>3, <1>4 DEF RowKept
<1> QED
  BY <1>4, <1>5 DEF Extends

LEMMA BookExtends ==
  ASSUME TypeOK, [Book!BookNext]_refresh_tokens
  PROVE  (\E n \in Token : Extends(n)) \/ UNCHANGED refresh_tokens
<1>1. ASSUME NEW u \in User, NEW S \in SUBSET Token, Book!Close(u, S)
      PROVE  (\E n \in Token : Extends(n)) \/ UNCHANGED refresh_tokens
  <2>1. CASE \E n \in Token : TRUE
    BY <1>1, <2>1, CloseExtends
  <2>2. CASE ~\E n \in Token : TRUE
    BY <1>1, <2>2 DEF TypeOK, Book!Close
  <2> QED
    BY <2>1, <2>2
<1> QED
  BY <1>1, OpenExtends, HandOverExtends DEF Book!BookNext

LEMMA FoundedKept ==
  ASSUME FamiliesFounded, NEW n \in Token, Extends(n)
  PROVE  FamiliesFounded'
<1>1. \A t \in Issued : /\ t \in Token /\ t \in Issued'
                        /\ refresh_tokens'[t].user = refresh_tokens[t].user
                        /\ refresh_tokens'[t].family = refresh_tokens[t].family
  BY DEF Extends, RowKept, Issued
<1>2. \A t \in Issued :
          /\ refresh_tokens[t].family \in Issued
          /\ refresh_tokens[refresh_tokens[t].family].family =
                 refresh_tokens[t].family
          /\ refresh_tokens[refresh_tokens[t].family].user =
                 refresh_tokens[t].user
  BY DEF FamiliesFounded, FamilyFounded
<1>3. \A t \in Issued : FamilyFounded(t)'
  BY <1>1, <1>2 DEF FamilyFounded
<1>4. ASSUME n \in Issued' \ Issued PROVE FamilyFounded(n)'
  <2>1. CASE refresh_tokens'[n].family = n
    BY <1>4, <2>1 DEF FamilyFounded
  <2>2. CASE refresh_tokens'[n].family # n
    <3>1. PICK p \in Issued :
              /\ refresh_tokens'[n].family = refresh_tokens[p].family
              /\ refresh_tokens'[n].user = refresh_tokens[p].user
      BY <1>4, <2>2 DEF Extends
    <3> QED
      BY <1>1, <1>2, <3>1 DEF FamilyFounded
  <2> QED
    BY <2>1, <2>2
<1>5. Issued' \subseteq Issued \cup {n}
  BY DEF Extends
<1> QED
  BY <1>3, <1>4, <1>5 DEF FamiliesFounded

(* No interleaving of requests, no lost update and no rollback gives a     *)
(* revoked token back to its client, or a row to another user or family    *)
(* (revoke_token and revoke_all_for_user only ever set is_revoked).        *)
THEOREM NothingReopens == Spec => [][\A t \in Token : RowKept(t)]_vars
<1>1. TypeOK /\ [Book!BookNext]_refresh_tokens => \A t \in Token : RowKept(t)
  <2>1. TypeOK /\ UNCHANGED refresh_tokens => \A t \in Token : RowKept(t)
    BY DEF RowKept, Issued
  <2> QED
    BY <2>1, BookExtends DEF Extends
<1>2. TypeOK /\ [Book!BookNext]_refresh_tokens
          => [\A t \in Token : RowKept(t)]_vars
  BY <1>1
<1> QED
  BY <1>2, TypeCorrect, Refinement, PTL DEF ImplementsBook, Book!BookSpec

(* A family is that of a login, and all its rows are of the user who       *)
(* logged in: revoke_family cannot end the session of anybody else, nor    *)
(* does a rotation leave its family (create_token in refresh_tokens).      *)
THEOREM FamiliesOfOneUser == Spec => []FamiliesFounded
<1>1. Init => FamiliesFounded
  BY DEF Init, FamiliesFounded, Issued
<1>2. TypeOK /\ FamiliesFounded /\ [Book!BookNext]_refresh_tokens
          => FamiliesFounded'
  <2>1. FamiliesFounded /\ UNCHANGED refresh_tokens => FamiliesFounded'
    BY DEF FamiliesFounded, FamilyFounded, Issued
  <2> QED
    BY <2>1, BookExtends, FoundedKept
<1> QED
  BY <1>1, <1>2, TypeCorrect, Refinement, PTL
     DEF Spec, ImplementsBook, Book!BookSpec

-----------------------------------------------------------------------------
(* A token that was issued for a presented one.                            *)
Descends(n) ==
    LET p == origin[n].parent
    IN  p # NoToken =>
            /\ p \in Issued
            /\ refresh_tokens[n].user = refresh_tokens[p].user
            /\ refresh_tokens[n].family = refresh_tokens[p].family
RotationsStay == \A n \in Issued : Descends(n)

(* A step that inserts nothing.                                            *)
LEMMA KeptDescends ==
  ASSUME RotationsStay, UNCHANGED origin, Issued' = Issued,
         \A t \in Token : RowKept(t)
  PROVE  RotationsStay'
<1>1. \A t \in Issued : /\ t \in Issued'
                        /\ refresh_tokens'[t].user = refresh_tokens[t].user
                        /\ refresh_tokens'[t].family = refresh_tokens[t].family
  BY DEF RowKept, Issued
<1> QED
  BY <1>1 DEF RotationsStay, Descends

LEMMA InsertDescends ==
  ASSUME IInv, RotationsStay, NEW r \in Request,
         LoginCommit(r) \/ RefreshCommit(r),
         \A t \in Token : RowKept(t)
  PROVE  RotationsStay'
<1> DEFINE n == req[r].new
           t == req[r].token
           parent == IF req[r].op = "login" THEN NoToken ELSE t
           family == IF req[r].op = "login" THEN n
                     ELSE refresh_tokens[t].family
<1>1. /\ TypeOK /\ RequestOK(r) /\ n \notin Issued
      /\ req[r].op \in {"login", "refresh"}
  BY DEF IInv, NewTokensReserved, LoginCommit, RefreshCommit, RequestOK
<1>2. /\ n \in Token
      /\ req[r].op = "refresh" => /\ t \in Issued
                                  /\ refresh_tokens[t].user = req[r].user
  BY <1>1 DEF RequestOK, RotationOK, IssuedTo
<1>3. refresh_tokens' = Inserted(r, family) /\ Reissued(r, parent)
  <2>1. CASE LoginCommit(r)
    BY <1>1, <2>1 DEF LoginCommit, RequestOK
  <2>2. CASE RefreshCommit(r)
    BY <2>2 DEF RefreshCommit
  <2> QED
    BY <2>1, <2>2
<1>4. /\ refresh_tokens'[n] = [user |-> req[r].user, family |-> family,
                               is_revoked |-> FALSE]
      /\ \A s \in Token \ {n} : refresh_tokens'[s] = Updated(r)[s]
  BY <1>2, <1>3 DEF Inserted, Updated
<1>5. /\ origin'[n].parent = parent
      /\ \A s \in Token \ {n} : origin'[s] = origin[s]
  BY <1>1, <1>2, <1>3 DEF Reissued, TypeOK
<1>6. \A s \in Issued : /\ s \in Issued' /\ s \in Token \ {n}
                        /\ refresh_tokens'[s].user = refresh_tokens[s].user
                        /\ refresh_tokens'[s].family = refresh_tokens[s].family
  BY <1>1 DEF RowKept, Issued
<1>7. \A s \in Issued : Descends(s)'
  BY <1>5, <1>6 DEF RotationsStay, Descends
<1>8. ASSUME origin'[n].parent # NoToken
      PROVE  /\ origin'[n].parent \in Issued'
             /\ refresh_tokens'[n].user =
                    refresh_tokens'[origin'[n].parent].user
             /\ refresh_tokens'[n].family =
                    refresh_tokens'[origin'[n].parent].family
  <2>1. /\ req[r].op = "refresh" /\ origin'[n].parent = t
        /\ family = refresh_tokens[t].family
    BY <1>1, <1>5, <1>8
  <2>2. /\ t \in Issued' /\ refresh_tokens'[t].user = req[r].user
        /\ refresh_tokens'[t].family = refresh_tokens[t].family
    BY <1>2, <1>6, <2>1
  <2> HIDE DEF n, t, parent, family
  <2> QED
    BY <1>4, <2>1, <2>2
<1>9. Issued' \subseteq Issued \cup {n}
  <2>1. req[r].revoked \subseteq Issued
    BY <1>1 DEF RequestOK, RotationOK, IssuedTo, Issued
  <2>2. \A s \in Token \ Issued : Updated(r)[s] = NoRow
    BY <1>1, <2>1, UpdatedTable
  <2> QED
    BY <1>4, <2>2 DEF Issued
<1> HIDE DEF n
<1>10. ASSUME NEW s \in Issued', s = n PROVE Descends(s)'
  BY <1>8, <1>10 DEF Descends
<1> QED
  BY <1>7, <1>9, <1>10 DEF RotationsStay

LEMMA OtherStepsInsertNothing ==
  ASSUME IInv, [Next]_vars,
         ~\E r \in Request : LoginCommit(r) \/ RefreshCommit(r)
  PROVE  UNCHANGED origin /\ Issued' = Issued
<1>1. CASE UNCHANGED vars
  BY <1>1 DEF vars, Issued
<1>2. CASE \E u \in User : VerifyEmail(u) \/ RequestReset(u)
  BY <1>2 DEF VerifyEmail, RequestReset, ghosts, Issued
<1>3. ASSUME NEW r \in Request, Arrive(r) \/ Abort(r)
      PROVE  UNCHANGED <<refresh_tokens, origin>>
  BY <1>3, Zenon DEF Arrive, Abort, LoginRead, RefreshRead, ReuseRead,
              LogoutRead, LogoutAllRead, ChangeRead, ResetRead, ghosts
<1>4. ASSUME NEW r \in Request,
             \/ RevokeToken(r) \/ UpdatePassword(r) \/ RevokeAllScan(r)
             \/ \E t \in Token : SweepRow(r, t)
             \/ ReuseRaise(r)
      PROVE  UNCHANGED <<refresh_tokens, origin>>
  BY <1>4, Zenon DEF RevokeToken, UpdatePassword, RevokeAllScan, SweepRow,
              ReuseRaise, ghosts
<1>5. ASSUME NEW r \in Request, LogoutCommit(r) \/ PasswordCommit(r)
      PROVE  UNCHANGED origin /\ Issued' = Issued
  <2>1. /\ TypeOK /\ req[r].revoked \subseteq Issued
        /\ refresh_tokens' = Updated(r) /\ UNCHANGED origin
    BY <1>5 DEF IInv, RequestOK, LogoutCommit, PasswordCommit, IssuedTo
  <2>2. /\ \A t \in Token \ Issued : refresh_tokens'[t] = NoRow
        /\ \A t \in Issued : refresh_tokens'[t] \in Row
    BY <2>1, UpdatedTable
  <2> QED
    BY <2>1, <2>2, NoValuesAssumption DEF Issued
<1>6. ASSUME UNCHANGED <<refresh_tokens, origin>>
      PROVE  UNCHANGED origin /\ Issued' = Issued
  BY <1>6 DEF Issued
<1>7. ASSUME NEW r \in Request, Proceed(r)
      PROVE  UNCHANGED origin /\ Issued' = Issued
  BY <1>4, <1>5, <1>6, <1>7, Zenon DEF Proceed
<1> QED
  BY <1>1, <1>2, <1>3, <1>6, <1>7, Zenon DEF Next

(* A token issued for a presented one is of the same user and the same     *)
(* family, however the rotation overlapped with others: reuse detection    *)
(* can follow every chain of rotations to its login (the user and the      *)
(* family that refresh_tokens hands to create_token).                      *)
THEOREM RotationsStayInFamily == Spec => []RotationsStay
<1>1. Init => RotationsStay
  BY DEF Init, RotationsStay, Issued
<1>2. IInv /\ RotationsStay /\ [Next]_vars
          /\ [\A t \in Token : RowKept(t)]_vars => RotationsStay'
  <2> SUFFICES ASSUME IInv, RotationsStay, [Next]_vars,
                      [\A t \in Token : RowKept(t)]_vars
               PROVE  RotationsStay'
    OBVIOUS
  <2>1. \A t \in Token : RowKept(t)
    <3>1. UNCHANGED vars => \A t \in Token : RowKept(t)
      BY DEF vars, RowKept, Issued
    <3> QED
      BY <3>1
  <2>2. CASE \E r \in Request : LoginCommit(r) \/ RefreshCommit(r)
    BY <2>1, <2>2, InsertDescends
  <2>3. CASE ~\E r \in Request : LoginCommit(r) \/ RefreshCommit(r)
    BY <2>1, <2>3, KeptDescends, OtherStepsInsertNothing
  <2> QED
    BY <2>2, <2>3
<1> QED
  BY <1>1, <1>2, Invariance, NothingReopens, PTL DEF Spec

-----------------------------------------------------------------------------
(* Without overlap.  While no two requests were ever under way together,   *)
(* the one that is may rely on what it read: its token is still live, the  *)
(* password it verified is still the user's, and what it does not revoke   *)
(* of its user's rows was revoked before.                                  *)

SerialRequestOK(r) ==
    /\ req[r].op = "refresh" => req[r].token \in Live
    /\ req[r].op \in {"login", "refresh"} => req[r].fresh
    /\ req[r].op \in {"change", "reset"} /\ req[r].pc = "sweep" =>
           LiveOf(req[r].user) \subseteq req[r].revoked \cup req[r].todo

FamiliesIssued == \A t \in Issued : refresh_tokens[t].family \in Issued

SerialInv ==
    /\ FamiliesIssued
    /\ overlapped \/ /\ ~Overlap
                     /\ \A r \in Request : SerialRequestOK(r)
                     /\ OneLivePerFamily
                     /\ NoSessionOutlivesPassword

(* What a commit leaves of a row: its family.                              *)
LEMMA FamilyKept ==
  ASSUME IInv, NEW r \in Request,
         \/ LoginCommit(r) \/ RefreshCommit(r)
         \/ LogoutCommit(r) \/ PasswordCommit(r)
  PROVE  /\ \A t \in Issued : /\ t \in Issued'
                              /\ refresh_tokens'[t].family =
                                     refresh_tokens[t].family
         /\ Live' \cap Issued = Live \ req[r].revoked
<1>1. TypeOK /\ RequestOK(r) /\ req[r].new \notin Issued
  BY DEF IInv, NewTokensReserved
<1>2. req[r].revoked \subseteq Issued
  BY <1>1 DEF RequestOK, RotationOK, RevocationOK, LoginCommit, RefreshCommit,
              LogoutCommit, PasswordCommit, IssuedTo
<1>3. \A t \in Issued : refresh_tokens'[t] = Updated(r)[t]
  BY <1>1 DEF LoginCommit, RefreshCommit, LogoutCommit, PasswordCommit,
              Inserted, Updated, Issued
<1>4. \A t \in Issued :
          /\ refresh_tokens'[t] \in Row
          /\ refresh_tokens'[t].family = refresh_tokens[t].family
          /\ refresh_tokens'[t].is_revoked <=>
                 (t \notin Live \/ t \in req[r].revoked)
  BY <1>1, <1>2, <1>3, UpdatedTable
<1>5. \A t \in Issued : t \in Token /\ t \in Issued'
  BY <1>4, NoValuesAssumption DEF Issued
<1>6. ASSUME NEW t \in Issued
      PROVE  t \in Live' <=> t \in Live /\ t \notin req[r].revoked
  <2>1. t \in Live' <=> ~refresh_tokens'[t].is_revoked
    BY <1>5 DEF Live
  <2> QED
    BY <1>4, <2>1
<1>7. Live \subseteq Issued
  BY DEF Live
<1> QED
  BY <1>4, <1>5, <1>6, <1>7

(* What a login or a rotation inserts.                                     *)
LEMMA InsertedRow ==
  ASSUME IInv, IInv', NEW r \in Request, LoginCommit(r) \/ RefreshCommit(r)
  PROVE  /\ req[r].new \in Token /\ req[r].new \notin Issued
         /\ Issued' = Issued \cup {req[r].new}
         /\ Live' = (Live \ req[r].revoked) \cup {req[r].new}
         /\ req[r].op = "login" =>
                /\ req[r].revoked = {}
                /\ refresh_tokens'[req[r].new].family = req[r].new
         /\ req[r].op = "refresh" =>
                /\ req[r].token \in Issued
                /\ req[r].revoked = {req[r].token}
                /\ refresh_tokens'[req[r].new].family =
                       refresh_tokens[req[r].token].family
<1> DEFINE n == req[r].new
<1>1. /\ TypeOK /\ RequestOK(r) /\ n \notin Issued
      /\ req[r].op \in {"login", "refresh"}
  BY DEF IInv, NewTokensReserved, LoginCommit, RefreshCommit, RequestOK
<1>2. /\ n \in Token
      /\ req[r].op = "login" => req[r].revoked = {}
      /\ req[r].op = "refresh" => /\ req[r].revoked = {req[r].token}
                                  /\ req[r].token \in Issued
  BY <1>1 DEF RequestOK, RotationOK, LoginCommit, RefreshCommit, IssuedTo
<1>3. refresh_tokens'[n] =
        [user |-> req[r].user,
         family |-> IF req[r].op = "login" THEN n
                    ELSE refresh_tokens[req[r].token].family,
         is_revoked |-> FALSE]
      /\ \A t \in Token \ {n} : refresh_tokens'[t] = Updated(r)[t]
  BY <1>1, <1>2 DEF LoginCommit, RefreshCommit, Inserted, Updated, RequestOK
<1>4. refresh_tokens'[n] # NoRow /\ ~refresh_tokens'[n].is_revoked
  <2>1. refresh_tokens' \in [Token -> Row \cup {NoRow}]
    BY DEF IInv, TypeOK
  <2>2. req[r].user \in User
    BY <1>1 DEF RequestOK, RotationOK
  <2>3. (IF req[r].op = "login" THEN n
         ELSE refresh_tokens[req[r].token].family) \in Token
    BY <1>1, <1>2 DEF TypeOK, Issued, Row
  <2>4. refresh_tokens'[n] \in Row
    BY <1>3, <2>2, <2>3 DEF Row
  <2>5. refresh_tokens'[n] # NoRow
    BY <2>4, NoValuesAssumption
  <2>6. refresh_tokens'[n].is_revoked = FALSE
    BY <1>3
  <2> QED
    BY <2>5, <2>6
<1>5. \A t \in Token \ Issued : t # n => refresh_tokens'[t] = NoRow
  BY <1>1, <1>3 DEF Updated, Issued, RequestOK, RotationOK, IssuedTo
<1>6. Issued' = Issued \cup {n}
  <2>1. \A t \in Issued : t \in Issued'
    BY FamilyKept
  <2> QED
    BY <1>2, <1>4, <1>5, <2>1 DEF Issued
<1>7. n \in Live'
  BY <1>4, <1>6 DEF Live
<1>8. Live' \cap Issued = Live \ req[r].revoked /\ Live' \subseteq Issued'
  BY FamilyKept DEF Live
<1> QED
  BY <1>1, <1>2, <1>3, <1>6, <1>7, <1>8

(* Only commits change the table.                                          *)
LEMMA TableChanges ==
  ASSUME [Next]_vars, refresh_tokens' # refresh_tokens
  PROVE  \E r \in Request : \/ LoginCommit(r) \/ RefreshCommit(r)
                            \/ LogoutCommit(r) \/ PasswordCommit(r)
<1>1. PICK r \in Request : Arrive(r) \/ Proceed(r) \/ Abort(r)
  BY DEF Next, vars, VerifyEmail, RequestReset
<1>2. ~Arrive(r) /\ ~Abort(r)
  BY Zenon DEF Arrive, Abort, LoginRead, RefreshRead, ReuseRead, LogoutRead,
               LogoutAllRead, ChangeRead, ResetRead
<1> QED
  BY <1>1, <1>2, Zenon DEF Proceed, RevokeToken, UpdatePassword,
                           RevokeAllScan, SweepRow, ReuseRaise

(* The families stay those of issued tokens.                               *)
LEMMA FamiliesStep ==
  ASSUME IInv, IInv', FamiliesIssued, [Next]_vars
  PROVE  FamiliesIssued'
<1>1. CASE refresh_tokens' = refresh_tokens
  BY <1>1 DEF FamiliesIssued, Issued
<1>2. ASSUME NEW r \in Request, LogoutCommit(r) \/ PasswordCommit(r)
      PROVE  FamiliesIssued'
  <2>1. Issued' \subseteq Issued
    BY <1>2 DEF LogoutCommit, PasswordCommit, Updated, IInv, TypeOK, Issued,
                RequestOK, RevocationOK, IssuedTo
  <2> QED
    BY <1>2, <2>1, FamilyKept DEF FamiliesIssued
<1>3. ASSUME NEW r \in Request, LoginCommit(r) \/ RefreshCommit(r)
      PROVE  FamiliesIssued'
  <2> DEFINE n == req[r].new
  <2>1. Issued' = Issued \cup {n} /\ n \in Token /\ n \notin Issued
    BY <1>3, InsertedRow
  <2>2. refresh_tokens'[n].family \in Issued'
    <3>1. req[r].op \in {"login", "refresh"}
      BY <1>3 DEF LoginCommit, RefreshCommit, IInv, RequestOK
    <3> QED
      BY <1>3, <2>1, <3>1, InsertedRow DEF FamiliesIssued
  <2> HIDE DEF n
  <2> QED
    BY <1>3, <2>1, <2>2, FamilyKept DEF FamiliesIssued
<1> QED
  BY <1>1, <1>2, <1>3, TableChanges
(* The statements that leave the table and its observers alone.            *)
LEMMA SerialStatements ==
  ASSUME IInv, NEW r \in Request, SerialRequestOK(r),
         NoSessionOutlivesPassword,
         \/ Arrive(r) \/ Abort(r) \/ ReuseRaise(r) \/ RevokeToken(r)
         \/ UpdatePassword(r) \/ RevokeAllScan(r)
         \/ \E t \in Token : SweepRow(r, t)
  PROVE  /\ UNCHANGED <<refresh_tokens, current>>
         /\ SerialRequestOK(r)'
         /\ \A q \in Request \ {r} : req'[q] = req[q]
<1>1. TypeOK /\ RequestOK(r) /\ req \in [Request -> RequestState]
      /\ req[r] \in RequestState
  BY DEF IInv, TypeOK
<1>2. ASSUME UNCHANGED <<refresh_tokens, current>>
      PROVE  Live' = Live /\ \A u : LiveOf(u)' = LiveOf(u)
  BY <1>2 DEF Live, LiveOf, IssuedTo, Issued
<1>3. CASE \E u \in User, n \in Token : LoginRead(r, u, n)
  BY <1>1, <1>3 DEF LoginRead, IdleRequest, SerialRequestOK, ghosts
<1>4. CASE \E t, n \in Token : RefreshRead(r, t, n)
  <2> PICK t \in Token, n \in Token : RefreshRead(r, t, n)
    BY <1>4
  <2>1. t \in Live /\ UNCHANGED <<refresh_tokens, current>>
    BY DEF RefreshRead, ghosts
  <2>2. (t \in current) = TRUE
    BY <2>1 DEF NoSessionOutlivesPassword
  <2> DEFINE next == [IdleRequest EXCEPT !.op = "refresh", !.pc = "revoke",
                         !.token = t, !.new = n,
                         !.user = refresh_tokens[t].user, !.fresh = TRUE]
  <2>3. req' = [req EXCEPT ![r] = next]
    BY <2>2 DEF RefreshRead
  <2>4. next.op = "refresh" /\ next.token = t /\ next.fresh = TRUE
    BY DEF IdleRequest
  <2> HIDE DEF next
  <2>5. req'[r] = next /\ \A q \in Request \ {r} : req'[q] = req[q]
    BY <1>1, <2>3
  <2> QED
    BY <1>2, <2>1, <2>4, <2>5 DEF SerialRequestOK
<1>5. CASE \/ \E t \in Token : ReuseRead(r, t)
           \/ \E u \in User, t \in Token : LogoutRead(r, u, t)
           \/ \E u \in User : LogoutAllRead(r, u)
  <2>1. CASE \E t \in Token : ReuseRead(r, t)
    BY <1>1, <2>1 DEF ReuseRead, IdleRequest, SerialRequestOK, ghosts
  <2>2. CASE \E u \in User, t \in Token : LogoutRead(r, u, t)
    BY <1>1, <2>2 DEF LogoutRead, IdleRequest, SerialRequestOK, ghosts
  <2>3. CASE \E u \in User : LogoutAllRead(r, u)
    BY <1>1, <2>3 DEF LogoutAllRead, IdleRequest, SerialRequestOK, ghosts
  <2> QED
    BY <1>5, <2>1, <2>2, <2>3
<1>6. CASE \E u \in User : ChangeRead(r, u) \/ ResetRead(r, u)
  <2> PICK u \in User : ChangeRead(r, u) \/ ResetRead(r, u)
    BY <1>6
  <2>1. CASE ChangeRead(r, u)
    BY <1>1, <2>1 DEF ChangeRead, IdleRequest, SerialRequestOK, ghosts
  <2>2. CASE ResetRead(r, u)
    BY <1>1, <2>2 DEF ResetRead, IdleRequest, SerialRequestOK, ghosts
  <2> QED
    BY <2>1, <2>2
<1>7. CASE Abort(r) \/ ReuseRaise(r)
  BY <1>1, <1>7 DEF Abort, ReuseRaise, EndRequest, IdleRequest,
                    SerialRequestOK, ghosts
<1>8. CASE RevokeToken(r)
  BY <1>1, <1>2, <1>8 DEF RevokeToken, SerialRequestOK, RequestOK,
                          RequestState, ghosts
<1>9. CASE UpdatePassword(r)
  BY <1>1, <1>2, <1>9 DEF UpdatePassword, SerialRequestOK, RequestOK,
                          RequestState, ghosts
<1>10. CASE RevokeAllScan(r)
  BY <1>1, <1>2, <1>10 DEF RevokeAllScan, SerialRequestOK, RequestOK,
                           RequestState, ghosts
<1>11. CASE \E t \in Token : SweepRow(r, t)
  <2> PICK t \in Token : SweepRow(r, t)
    BY <1>11
  <2>1. UNCHANGED <<refresh_tokens, current>> /\ req[r].pc = "sweep"
    BY DEF SweepRow, ghosts
  <2>2. /\ req'[r].op = req[r].op /\ req'[r].user = req[r].user
        /\ req'[r].todo = req[r].todo \ {t}
        /\ t \in Live => t \in req'[r].revoked
        /\ req[r].revoked \subseteq req'[r].revoked
        /\ \A q \in Request \ {r} : req'[q] = req[q]
    BY <1>1 DEF SweepRow, RequestState
  <2>3. req[r].op \notin {"login", "refresh"}
    BY <1>1, <2>1 DEF RequestOK
  <2>4. LiveOf(req[r].user) \subseteq Live
    BY DEF LiveOf
  <2> QED
    BY <1>2, <2>1, <2>2, <2>3, <2>4 DEF SerialRequestOK
<1> QED
  BY <1>3, <1>4, <1>5, <1>6, <1>7, <1>8, <1>9, <1>10, <1>11 DEF Arrive

(* The commits of a request that was alone.                                *)
LEMMA SerialCommits ==
  ASSUME IInv, IInv', FamiliesIssued, NEW r \in Request, SerialRequestOK(r),
         OneLivePerFamily, NoSessionOutlivesPassword,
         \/ LoginCommit(r) \/ RefreshCommit(r)
         \/ LogoutCommit(r) \/ PasswordCommit(r)
  PROVE  OneLivePerFamily' /\ NoSessionOutlivesPassword'
<1>1. TypeOK /\ RequestOK(r) /\ Live \subseteq Issued
  BY DEF IInv, Live
<1>2. CASE LogoutCommit(r) \/ PasswordCommit(r)
  <2>1. Issued' \subseteq Issued /\ Live' = Live \ req[r].revoked
    <3>1. Issued' \subseteq Issued
      BY <1>1, <1>2 DEF LogoutCommit, PasswordCommit, Updated, TypeOK, Issued,
                        RequestOK, RevocationOK, IssuedTo
    <3>2. Live' \subseteq Issued'
      BY DEF Live
    <3> QED
      BY <1>2, <3>1, <3>2, FamilyKept
  <2>2. OneLivePerFamily'
    BY <1>1, <1>2, <2>1, FamilyKept DEF OneLivePerFamily
  <2>3. CASE LogoutCommit(r)
    BY <2>1, <2>2, <2>3 DEF LogoutCommit, NoSessionOutlivesPassword
  <2>4. CASE PasswordCommit(r)
    <3>1. LiveOf(req[r].user) \subseteq req[r].revoked
      BY <2>4 DEF PasswordCommit, SweepDone, SerialRequestOK
    <3>2. Live' \cap IssuedTo(req[r].user) = {}
      BY <2>1, <3>1 DEF LiveOf
    <3>3. current' = current \ IssuedTo(req[r].user)
      BY <2>4 DEF PasswordCommit
    <3> QED
      BY <2>1, <2>2, <3>2, <3>3 DEF NoSessionOutlivesPassword
  <2> QED
    BY <1>2, <2>3, <2>4
<1>3. CASE LoginCommit(r) \/ RefreshCommit(r)
  <2> DEFINE n == req[r].new
  <2>1. /\ req[r].op \in {"login", "refresh"}
        /\ n \in Token /\ n \notin Issued
        /\ Live' = (Live \ req[r].revoked) \cup {n}
    BY <1>1, <1>3, InsertedRow DEF LoginCommit, RefreshCommit, RequestOK
  <2>2. current' = current \cup {n}
    BY <1>3, <2>1 DEF LoginCommit, RefreshCommit, Reissued, SerialRequestOK
  <2>3. \A t \in Live \ req[r].revoked :
            refresh_tokens'[t].family # refresh_tokens'[n].family
    <3>1. \A t \in Live : refresh_tokens'[t].family = refresh_tokens[t].family
                          /\ refresh_tokens[t].family \in Issued
      BY <1>1, <1>3, FamilyKept DEF FamiliesIssued
    <3>2. CASE req[r].op = "login"
      BY <1>3, <2>1, <3>1, <3>2, InsertedRow
    <3>3. CASE req[r].op = "refresh"
      <4>1. /\ req[r].token \in Live /\ req[r].revoked = {req[r].token}
            /\ refresh_tokens'[n].family = refresh_tokens[req[r].token].family
        BY <1>3, <3>3, InsertedRow DEF SerialRequestOK
      <4> QED
        BY <3>1, <4>1 DEF OneLivePerFamily
    <3> QED
      BY <2>1, <3>2, <3>3
  <2> HIDE DEF n
  <2>4. \A s, t \in Live : refresh_tokens'[s].family = refresh_tokens'[t].family
                               => s = t
    BY <1>1, <1>3, FamilyKept DEF OneLivePerFamily
  <2>5. OneLivePerFamily'
    BY <2>1, <2>3, <2>4 DEF OneLivePerFamily
  <2>6. NoSessionOutlivesPassword'
    BY <2>1, <2>2 DEF NoSessionOutlivesPassword
  <2> QED
    BY <2>5, <2>6
<1> QED
  BY <1>2, <1>3

(* Which requests are under way, and that others keep their places.        *)
LEMMA PlacesStep ==
  ASSUME IInv, NEW r \in Request, Arrive(r) \/ Proceed(r) \/ Abort(r)
  PROVE  /\ \A q \in Request \ {r} : Idle(q) => Idle(q)'
         /\ Arrive(r) => ~Idle(r)'
         /\ ~Arrive(r) => ~Idle(r)
<1>1. req \in [Request -> RequestState]
  BY DEF IInv, TypeOK
<1>2. CASE Arrive(r)
  <2>1. CASE \E u \in User, n \in Token : LoginRead(r, u, n)
    BY <1>1, <1>2, <2>1 DEF LoginRead, IdleRequest, Idle
  <2>2. CASE \E t, n \in Token : RefreshRead(r, t, n)
    BY <1>1, <1>2, <2>2 DEF RefreshRead, IdleRequest, Idle
  <2>3. CASE \E t \in Token : ReuseRead(r, t)
    BY <1>1, <1>2, <2>3 DEF ReuseRead, IdleRequest, Idle
  <2>4. CASE \E u \in User, t \in Token : LogoutRead(r, u, t)
    BY <1>1, <1>2, <2>4 DEF LogoutRead, IdleRequest, Idle
  <2>5. CASE \E u \in User : LogoutAllRead(r, u)
    BY <1>1, <1>2, <2>5 DEF LogoutAllRead, IdleRequest, Idle
  <2>6. CASE \E u \in User : ChangeRead(r, u) \/ ResetRead(r, u)
    BY <1>1, <1>2, <2>6 DEF ChangeRead, ResetRead, IdleRequest, Idle
  <2> QED
    BY <1>2, <2>1, <2>2, <2>3, <2>4, <2>5, <2>6 DEF Arrive
<1>3. Arrive(r) => Idle(r)
  BY Zenon DEF Arrive, LoginRead, RefreshRead, ReuseRead, LogoutRead,
               LogoutAllRead, ChangeRead, ResetRead
<1>4. CASE RevokeToken(r) \/ UpdatePassword(r) \/ RevokeAllScan(r)
  BY <1>1, <1>3, <1>4 DEF RevokeToken, UpdatePassword, RevokeAllScan, Idle
<1>5. CASE \E t \in Token : SweepRow(r, t)
  BY <1>1, <1>3, <1>5 DEF SweepRow, Idle
<1>6. CASE LoginCommit(r) \/ RefreshCommit(r)
  BY <1>1, <1>3, <1>6 DEF LoginCommit, RefreshCommit, EndRequest, Idle
<1>7. CASE LogoutCommit(r) \/ ReuseRaise(r) \/ Abort(r)
  BY <1>1, <1>3, <1>7 DEF LogoutCommit, ReuseRaise, Abort, SweepDone,
                          EndRequest, Idle
<1>8. CASE PasswordCommit(r)
  <2>1. \A q \in Request \ {r} :
            req'[q] = req[q] \/ req'[q] = [req[q] EXCEPT !.fresh = FALSE]
    BY <1>8 DEF PasswordCommit
  <2>2. \A q \in Request \ {r} : req'[q].pc = req[q].pc
    BY <1>1, <2>1 DEF RequestState
  <2>3. ~Idle(r)
    BY <1>8 DEF PasswordCommit, SweepDone, Idle
  <2> QED
    BY <1>3, <2>2, <2>3 DEF Idle
<1> QED
  BY <1>2, <1>4, <1>5, <1>6, <1>7, <1>8 DEF Proceed

LEMMA SerialStep ==
  ASSUME IInv, IInv', SerialInv, [MCNext]_mcvars
  PROVE  SerialInv'
<1>1. [Next]_vars
  BY DEF MCNext, mcvars
<1>2. FamiliesIssued'
  BY <1>1, FamiliesStep DEF SerialInv
<1> SUFFICES ASSUME ~overlapped'
             PROVE  /\ ~Overlap'
                    /\ \A q \in Request : SerialRequestOK(q)'
                    /\ OneLivePerFamily' /\ NoSessionOutlivesPassword'
  BY <1>2 DEF SerialInv
<1>3. ~overlapped /\ (MCNext => ~Overlap')
  <2>1. MCNext => ~overlapped /\ ~Overlap'
    BY Zenon DEF MCNext
  <2>2. UNCHANGED mcvars => overlapped' = overlapped
    BY DEF mcvars
  <2> QED
    BY <2>1, <2>2
<1>4. /\ ~Overlap /\ FamiliesIssued
      /\ \A q \in Request : SerialRequestOK(q)
      /\ OneLivePerFamily /\ NoSessionOutlivesPassword
  BY <1>3 DEF SerialInv
<1>5. ASSUME UNCHANGED <<refresh_tokens, current>>
      PROVE  /\ OneLivePerFamily' /\ NoSessionOutlivesPassword'
             /\ Live' = Live /\ \A u : LiveOf(u)' = LiveOf(u)
  BY <1>4, <1>5 DEF OneLivePerFamily, NoSessionOutlivesPassword, Live, LiveOf,
                    IssuedTo, Issued
<1>6. CASE UNCHANGED <<refresh_tokens, current, req>>
  BY <1>4, <1>5, <1>6 DEF SerialRequestOK, Overlap, Idle
<1>7. ASSUME NEW r \in Request, Arrive(r) \/ Proceed(r) \/ Abort(r), ~Overlap'
      PROVE  /\ \A q \in Request : SerialRequestOK(q)'
             /\ OneLivePerFamily' /\ NoSessionOutlivesPassword'
  <2>1. ASSUME NEW q \in Request \ {r} PROVE SerialRequestOK(q)'
    <3>1. Idle(q)'
      <4>1. CASE Arrive(r)
        BY <1>7, <4>1, PlacesStep DEF Overlap
      <4>2. CASE ~Arrive(r)
        <5>1. Idle(q)
          BY <1>4, <1>7, <4>2, PlacesStep DEF Overlap
        <5> QED
          BY <1>7, <5>1, PlacesStep
      <4> QED
        BY <4>1, <4>2
    <3>2. req'[q] = IdleRequest
      BY <3>1 DEF IInv, RequestOK
    <3> QED
      BY <3>2 DEF SerialRequestOK, IdleRequest
  <2>2. CASE \/ LoginCommit(r) \/ RefreshCommit(r)
             \/ LogoutCommit(r) \/ PasswordCommit(r)
    <3>1. req'[r] = IdleRequest
      BY <2>2 DEF LoginCommit, RefreshCommit, LogoutCommit, PasswordCommit,
                  EndRequest, IInv, TypeOK
    <3>2. SerialRequestOK(r)'
      BY <3>1 DEF SerialRequestOK, IdleRequest
    <3> QED
      BY <1>4, <2>1, <2>2, <3>2, SerialCommits
  <2>3. CASE \/ Arrive(r) \/ Abort(r) \/ ReuseRaise(r) \/ RevokeToken(r)
             \/ UpdatePassword(r) \/ RevokeAllScan(r)
             \/ \E t \in Token : SweepRow(r, t)
    <3>1. UNCHANGED <<refresh_tokens, current>> /\ SerialRequestOK(r)'
      BY <1>4, <2>3, SerialStatements
    <3> QED
      BY <1>5, <2>1, <3>1
  <2> QED
    BY <1>7, <2>2, <2>3 DEF Proceed
<1>8. CASE MCNext
  <2>1. ~Overlap' /\ Next
    BY <1>3, <1>8 DEF MCNext
  <2>2. CASE \E u \in User : VerifyEmail(u) \/ RequestReset(u)
    BY <1>6, <2>1, <2>2 DEF VerifyEmail, RequestReset, ghosts
  <2> QED
    BY <1>7, <2>1, <2>2 DEF Next
<1> QED
  BY <1>6, <1>8 DEF mcvars, vars

(* SerialInv holds in every reachable state.                               *)
THEOREM SerialInvariance == MCSpec => []SerialInv
<1>1. MCInit => SerialInv
  BY DEF MCInit, Init, SerialInv, FamiliesIssued, Overlap, Idle, IdleRequest,
         SerialRequestOK, OneLivePerFamily, NoSessionOutlivesPassword,
         Issued, Live
<1>2. MCSpec => Spec
  <2>1. MCInit => Init
    BY DEF MCInit
  <2>2. [MCNext]_mcvars => [Next]_vars
    BY DEF MCNext, mcvars
  <2> QED
    BY <2>1, <2>2, PTL DEF MCSpec, Spec
<1>3. IInv /\ IInv' /\ SerialInv /\ [MCNext]_mcvars => SerialInv'
  BY SerialStep
<1> QED
  BY <1>1, <1>2, <1>3, Invariance, PTL DEF MCSpec

(* While requests come one at a time, reuse detection is complete: of each *)
(* family at most one token can be used, for any users and tokens.         *)
THEOREM FamiliesSerial == MCSpec => []SerialFamilies
<1>1. SerialInv => SerialFamilies
  BY DEF SerialInv, SerialFamilies
<1> QED
  BY SerialInvariance, <1>1, PTL

(* While requests come one at a time, no session outlives the password it  *)
(* was opened with, for any users and tokens.                              *)
THEOREM PasswordsSerial == MCSpec => []SerialPasswords
<1>1. SerialInv => SerialPasswords
  BY DEF SerialInv, SerialPasswords
<1> QED
  BY SerialInvariance, <1>1, PTL

=============================================================================
