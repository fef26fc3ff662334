-------------------------- MODULE AuthSessionsProofs --------------------------
(***************************************************************************)
(* Proofs about AuthSessions, for any number of requests in flight, of     *)
(* sessions, of tokens and of resets.                                      *)
(*                                                                         *)
(* No property of the sessions is inductive, because a request holds its   *)
(* answer for later: what a row of sessions will be is decided by a check  *)
(* that is long past when the row is inserted.  RequestInv says what a     *)
(* request in flight still knows: its token has been consumed and is its   *)
(* own, its address is verified or its link was a reset, and it checked    *)
(* after the latest reset, or a revocation has passed it, or one is still  *)
(* to come.                                                                *)
(***************************************************************************)
EXTENDS AuthSessions, TLAPS

\* Another request has written the account and has its revocation before it.
Revoking(r) == \E q \in Requests \ {r} : At(q, "revoke")

\* The token of a request is spent, and is neither another's nor a session's.
OwnToken(r) ==
    request[r].token # 0 =>
        /\ tokens[request[r].token].state = "gone"
        /\ \A q \in Requests \ {r} : request[q].token # request[r].token
        /\ \A s \in SessionIds : sessions[s].token # request[r].token

ByReset(r) ==
    request[r].token # 0 /\ tokens[request[r].token].purpose = "password_reset"

\* What entitles a request to a session.
Entitled(r) ==
    /\ request[r].op = "requestMagicLink" => account.verified
    /\ request[r].op = "resetPassword" => ByReset(r)
    /\ At(r, "hash") => request[r].op = "resetPassword"
    /\ At(r, "rehash") /\ request[r].verified => account.verified
    /\ At(r, "session") => account.verified \/ ByReset(r)

\* The check of a request that may come to a session is not older than the
\* latest revocation.
UpToDate(r) ==
    request[r].step \in {"rehash", "verify", "revoke", "session", "disable"} =>
        torn \/ request[r].late \/ request[r].epoch = resets \/ Revoking(r)

\* The password a sign-in will store is the latest.
Rehashing(r) == At(r, "rehash") => overwritten \/ request[r].password = resets

RequestInv(r) == OwnToken(r) /\ Entitled(r) /\ UpToDate(r) /\ Rehashing(r)

\* Magic links go to verified addresses.
MagicLinkInv ==
    \A t \in TokenIds :
        tokens[t].state # "absent" /\ tokens[t].purpose = "magic_link" =>
            account.verified

\* ResetEndsSessions, one session at a time.
SessionsUpToDate ==
    \A s \in SessionIds :
        sessions[s].state = "live" =>
            \/ torn
            \/ sessions[s].late
            \/ sessions[s].epoch = resets
            \/ \E q \in Requests : At(q, "revoke")

IInv ==
    /\ TypeOK
    /\ \A r \in Requests : RequestInv(r)
    /\ LinkSpentOnce
    /\ MagicLinkInv
    /\ UnverifiedEnterByReset
    /\ SessionsUpToDate
    /\ PasswordIsLatest

-------------------------------------------------------------------------------
(***************************************************************************)
(* Types, and the ways a request moves.                                    *)
(***************************************************************************)

LEMMA NoRequestType ==
    /\ NoRequest \in RequestType
    /\ NoRequest.op = "signUp" /\ NoRequest.step = "idle" /\ NoRequest.token = 0
  BY AuthAssumption DEF NoRequest, RequestType, Operation, Step

LEMMA RequestFields ==
    ASSUME request \in [Requests -> RequestType]
    PROVE  \A r \in Requests :
               /\ request[r] \in RequestType
               /\ request[r].op \in Operation
               /\ request[r].step \in Step
               /\ request[r].password \in 0 .. MaxResets
               /\ request[r].verified \in BOOLEAN
               /\ request[r].token \in 0 .. MaxTokens
               /\ request[r].session \in 0 .. MaxSessions
               /\ request[r].epoch \in 0 .. MaxResets
               /\ request[r].late \in BOOLEAN
  BY DEF RequestType

LEMMA BeginEffect ==
    ASSUME TypeOK, NEW r \in Requests, NEW op \in Operation, NEW step \in Step,
           Begin(r, op, step)
    PROVE  /\ request' \in [Requests -> RequestType]
           /\ request'[r].op = op /\ request'[r].step = step
           /\ request'[r].token = 0 /\ request'[r].epoch = resets
           /\ \A q \in Requests \ {r} : request'[q] = request[q]
  <1> DEFINE f == [NoRequest EXCEPT !.op = op, !.step = step, !.epoch = resets]
  <1>2. f \in RequestType
    BY NoRequestType DEF RequestType, TypeOK
  <1>3. f.op = op /\ f.step = step /\ f.token = 0 /\ f.epoch = resets
    BY NoRequestType DEF RequestType
  <1>4. request' = [request EXCEPT ![r] = f]
    BY DEF Begin
  <1> HIDE DEF f
  <1>5. QED  BY <1>2, <1>3, <1>4 DEF TypeOK

LEMMA GotoEffect ==
    ASSUME TypeOK, NEW r \in Requests, NEW step \in Step, Goto(r, step)
    PROVE  /\ request' \in [Requests -> RequestType]
           /\ request'[r].op = request[r].op /\ request'[r].step = step
           /\ request'[r].token = request[r].token
           /\ request'[r].epoch = request[r].epoch
           /\ request'[r].late = request[r].late
           /\ request'[r].verified = request[r].verified
           /\ \A q \in Requests \ {r} : request'[q] = request[q]
  BY DEF Goto, TypeOK, RequestType

LEMMA FinishEffect ==
    ASSUME TypeOK, NEW r \in Requests, Finish(r)
    PROVE  /\ request' \in [Requests -> RequestType]
           /\ request'[r].op = "signUp" /\ request'[r].step = "idle"
           /\ request'[r].token = 0
           /\ \A q \in Requests \ {r} : request'[q] = request[q]
  BY NoRequestType DEF Finish, TypeOK

LEMMA EndEffect ==
    ASSUME TypeOK, NEW S, End(S)
    PROVE  /\ sessions' \in [SessionIds -> SessionType]
           /\ \A s \in SessionIds :
                 /\ sessions'[s].token = sessions[s].token
                 /\ sessions'[s].state = "absent" <=> sessions[s].state = "absent"
                 /\ s \in S => sessions'[s].state # "live"
                 /\ s \notin S => sessions'[s] = sessions[s]
                 /\ sessions'[s].state = "live" => sessions'[s] = sessions[s]
  <1>0. 0 \in 0 .. MaxResets
    BY AuthAssumption
  <1>1. \A f \in SessionType :
            [f EXCEPT !.state = "gone", !.epoch = 0, !.late = FALSE] \in SessionType
    BY <1>0 DEF SessionType, RowState
  <1>2. \A s \in SessionIds :
            sessions'[s] = IF s \in S /\ sessions[s].state = "live"
                           THEN [sessions[s] EXCEPT !.state = "gone", !.epoch = 0,
                                                    !.late = FALSE]
                           ELSE sessions[s]
    BY DEF End
  <1>3. sessions' \in [SessionIds -> SessionType]
    BY <1>1, Zenon DEF End, TypeOK
  <1>4. QED  BY <1>2, <1>3 DEF TypeOK, SessionType

\* What a sign-in has read.
LEMMA SignInReadEffect ==
    ASSUME TypeOK, NEW r \in Requests, SignInRead(r)
    PROVE  /\ request' \in [Requests -> RequestType]
           /\ request'[r].op = "signIn" /\ request'[r].token = 0
           /\ request'[r].password = account.password
           /\ request'[r].verified = account.verified
           /\ request'[r].epoch = resets
           /\ request'[r].step \in {"rehash", "session", "issue"}
           /\ request'[r].step = "session" => account.verified
           /\ \A q \in Requests \ {r} : request'[q] = request[q]
  <1> DEFINE step == IF account.outdated THEN "rehash"
                     ELSE AfterPassword(account.verified)
             f == [NoRequest EXCEPT
                     !.op = "signIn", !.password = account.password,
                     !.verified = account.verified, !.epoch = resets,
                     !.step = step]
  <1>1. /\ step \in {"rehash", "session", "issue"}
        /\ step = "session" => account.verified
    BY DEF AfterPassword
  <1>2. /\ step \in Step /\ "signIn" \in Operation
        /\ account.password \in 0 .. MaxResets /\ account.verified \in BOOLEAN
    BY <1>1 DEF Step, Operation, TypeOK, AccountType
  <1> HIDE DEF step
  <1>3. f \in RequestType
    BY <1>2, NoRequestType DEF RequestType, TypeOK
  <1>4. request' = [request EXCEPT ![r] = f]
    BY DEF SignInRead, step
  <1>5. request'[r] = f
    BY <1>4 DEF TypeOK
  <1>6. /\ f.op = "signIn" /\ f.token = 0 /\ f.password = account.password
        /\ f.verified = account.verified /\ f.epoch = resets /\ f.step = step
    BY NoRequestType DEF RequestType
  <1> HIDE DEF f
  <1>7. QED  BY <1>1, <1>3, <1>4, <1>5, <1>6 DEF TypeOK

\* What a link hands to the request that consumes it.
LEMMA ConsumeEffect ==
    ASSUME TypeOK, NEW r \in Requests, Consume(r)
    PROVE  \E t \in TokenIds :
              /\ tokens[t].state = "live"
              /\ tokens' \in [TokenIds -> TokenType]
              /\ tokens'[t].state = "gone" /\ tokens'[t].purpose = tokens[t].purpose
              /\ \A u \in TokenIds \ {t} : tokens'[u] = tokens[u]
              /\ request' \in [Requests -> RequestType]
              /\ request'[r].token = t /\ request'[r].epoch = resets
              /\ request'[r].op = LinkOp(tokens[t].purpose)
              /\ request'[r].step = AfterToken(tokens[t].purpose)
              /\ \A q \in Requests \ {r} : request'[q] = request[q]
  <1>1. PICK t \in TokenIds :
            /\ tokens[t].state = "live"
            /\ tokens' = [tokens EXCEPT ![t].state = "gone"]
            /\ request' = [request EXCEPT ![r] =
                  [NoRequest EXCEPT
                     !.op = LinkOp(tokens[t].purpose), !.token = t, !.epoch = resets,
                     !.step = AfterToken(tokens[t].purpose)]]
    BY DEF Consume
  <1> DEFINE op == LinkOp(tokens[t].purpose)
             step == AfterToken(tokens[t].purpose)
             f == [NoRequest EXCEPT
                     !.op = op, !.token = t, !.epoch = resets, !.step = step]
  <1>2. tokens[t].purpose \in TokenPurpose /\ t \in 0 .. MaxTokens
    BY AuthAssumption DEF TypeOK, TokenType, TokenIds
  <1>3. /\ op \in {"verifyEmail", "resetPassword", "consumeMagicLink"}
        /\ step \in {"verify", "hash", "session"}
    BY <1>2 DEF LinkOp, AfterToken, TokenPurpose
  <1>4. op \in Operation /\ step \in Step
    BY <1>3 DEF Operation, Step
  <1> HIDE DEF op, step
  <1>5. f \in RequestType
    BY <1>2, <1>4, NoRequestType DEF RequestType, TypeOK
  <1>6. f.op = op /\ f.step = step /\ f.token = t /\ f.epoch = resets
    BY NoRequestType DEF RequestType
  <1>7. request' = [request EXCEPT ![r] = f]
    BY <1>1 DEF op, step
  <1> HIDE DEF f
  <1>8. /\ request' \in [Requests -> RequestType]
        /\ request'[r] = f
        /\ \A q \in Requests \ {r} : request'[q] = request[q]
    BY <1>5, <1>7 DEF TypeOK
  <1>9. /\ tokens' \in [TokenIds -> TokenType]
        /\ tokens'[t].state = "gone" /\ tokens'[t].purpose = tokens[t].purpose
        /\ \A u \in TokenIds \ {t} : tokens'[u] = tokens[u]
    BY <1>1 DEF TypeOK, TokenType, RowState
  <1>10. QED  BY <1>1, <1>6, <1>8, <1>9 DEF op, step

LEMMA SetPasswordEffect ==
    ASSUME TypeOK, NEW r \in Requests, SetPassword(r)
    PROVE  /\ request' \in [Requests -> RequestType]
           /\ resets' \in 0 .. MaxResets /\ resets' = resets + 1
           /\ account' \in AccountType
           /\ account'.password = resets' /\ account'.verified = account.verified
           /\ request'[r].op = request[r].op /\ request'[r].step = "revoke"
           /\ request'[r].token = request[r].token
           /\ request'[r].epoch = resets'
           /\ \A q \in Requests \ {r} : request'[q] = request[q]
  <1> DEFINE f == [request[r] EXCEPT !.step = "revoke", !.epoch = resets + 1]
  <1>1. resets + 1 \in 0 .. MaxResets
    BY AuthAssumption DEF SetPassword, TypeOK
  <1>2. f \in RequestType
    BY <1>1 DEF TypeOK, RequestType, Step
  <1>3. /\ f.op = request[r].op /\ f.step = "revoke"
        /\ f.token = request[r].token /\ f.epoch = resets + 1
    BY DEF TypeOK, RequestType
  <1>4. request' = [request EXCEPT ![r] = f]
    BY DEF SetPassword, TypeOK
  <1> HIDE DEF f
  <1>5. /\ request' \in [Requests -> RequestType]
        /\ request'[r] = f
        /\ \A q \in Requests \ {r} : request'[q] = request[q]
    BY <1>2, <1>4 DEF TypeOK
  <1>6. /\ account' \in AccountType
        /\ account'.password = resets + 1 /\ account'.verified = account.verified
    BY <1>1 DEF SetPassword, TypeOK, AccountType
  <1>7. QED  BY <1>1, <1>3, <1>5, <1>6 DEF SetPassword

LEMMA RevokeAllEffect ==
    ASSUME TypeOK, NEW r \in Requests, RevokeAll(r)
    PROVE  /\ request' \in [Requests -> RequestType]
           /\ request'[r].token \in {0, request[r].token}
           /\ \/ request'[r] = [request[r] EXCEPT !.step = "session"]
                    /\ request[r].op = "resetPassword"
              \/ request'[r] = NoRequest
           /\ \A q \in Requests \ {r} :
                 /\ request'[q].op = request[q].op
                 /\ request'[q].step = request[q].step
                 /\ request'[q].password = request[q].password
                 /\ request'[q].verified = request[q].verified
                 /\ request'[q].token = request[q].token
                 /\ request'[q].epoch = request[q].epoch
                 /\ Idle(q) => request'[q].late = request[q].late
                 /\ ~Idle(q) => request'[q].late = TRUE
  <1> DEFINE done(f) == [f EXCEPT !.step = "session"]
             late(f) == [f EXCEPT !.late = TRUE]
  <1>1. \A f \in RequestType :
            /\ done(f) \in RequestType /\ done(f).token = f.token
            /\ late(f) \in RequestType
            /\ late(f).op = f.op /\ late(f).step = f.step
            /\ late(f).password = f.password /\ late(f).verified = f.verified
            /\ late(f).token = f.token /\ late(f).epoch = f.epoch
            /\ late(f).late = TRUE
    BY DEF RequestType, Step
  <1>2. request' = [q \in Requests |->
            IF q = r
            THEN IF request[r].op = "resetPassword" THEN done(request[r])
                 ELSE NoRequest
            ELSE IF Idle(q) THEN request[q] ELSE late(request[q])]
    BY DEF RevokeAll
  <1> HIDE DEF done, late
  <1>3. request \in [Requests -> RequestType]
    BY DEF TypeOK
  <1>4. request' \in [Requests -> RequestType]
    BY <1>1, <1>2, <1>3, NoRequestType
  <1>5. /\ request'[r].token \in {0, request[r].token}
        /\ \/ request'[r] = done(request[r]) /\ request[r].op = "resetPassword"
           \/ request'[r] = NoRequest
    BY <1>1, <1>2, <1>3, NoRequestType
  <1>6. ASSUME NEW q \in Requests \ {r}
        PROVE  request'[q] = IF Idle(q) THEN request[q] ELSE late(request[q])
    BY <1>2
  <1>7. ASSUME NEW q \in Requests \ {r}
        PROVE  /\ request'[q].op = request[q].op
               /\ request'[q].step = request[q].step
               /\ request'[q].password = request[q].password
               /\ request'[q].verified = request[q].verified
               /\ request'[q].token = request[q].token
               /\ request'[q].epoch = request[q].epoch
               /\ Idle(q) => request'[q].late = request[q].late
               /\ ~Idle(q) => request'[q].late = TRUE
    <2>1. request[q] \in RequestType
      BY <1>3
    <2>2. CASE Idle(q)
      BY <2>2, <1>6
    <2>3. CASE ~Idle(q)
      BY <2>1, <2>3, <1>1, <1>6
    <2>4. QED  BY <2>2, <2>3
  <1>8. QED  BY <1>4, <1>5, <1>7 DEF done

LEMMA CreateSessionEffect ==
    ASSUME TypeOK, NEW r \in Requests, CreateSession(r)
    PROVE  \E s \in SessionIds :
              /\ sessions[s].state = "absent"
              /\ sessions' \in [SessionIds -> SessionType]
              /\ sessions'[s].state = "live"
              /\ sessions'[s].token = request[r].token
              /\ sessions'[s].epoch = request[r].epoch
              /\ sessions'[s].late = request[r].late
              /\ \A u \in SessionIds \ {s} : sessions'[u] = sessions[u]
  <1> DEFINE row == [state |-> "live", token |-> request[r].token,
                     epoch |-> request[r].epoch, late |-> request[r].late]
  <1>1. PICK s \in SessionIds :
            /\ sessions[s].state = "absent"
            /\ sessions' = [sessions EXCEPT ![s] = row]
    BY DEF CreateSession
  <1>2. row \in SessionType
    BY RequestFields DEF TypeOK, SessionType, RowState
  <1>3. /\ row.state = "live" /\ row.token = request[r].token
        /\ row.epoch = request[r].epoch /\ row.late = request[r].late
    OBVIOUS
  <1> HIDE DEF row
  <1>4. QED  BY <1>1, <1>2, <1>3 DEF TypeOK

\* The forms of the account page.
LEMMA FormEffect ==
    ASSUME TypeOK, NEW r \in Requests, SubmitRevoke(r) \/ SubmitRevokeOthers(r)
    PROVE  /\ request' \in [Requests -> RequestType]
           /\ request'[r].op \in {"revokeSession", "revokeOthers"}
           /\ request'[r].step \in {"revokeOne", "revokeOthers"}
           /\ request'[r].token = 0
           /\ \A q \in Requests \ {r} : request'[q] = request[q]
  <1>1. PICK s \in SessionIds, op \in {"revokeSession", "revokeOthers"},
             step \in {"revokeOne", "revokeOthers"} :
            request' = [request EXCEPT ![r] =
                [NoRequest EXCEPT !.op = op, !.step = step, !.session = s]]
    BY DEF SubmitRevoke, SubmitRevokeOthers
  <1> DEFINE f == [NoRequest EXCEPT !.op = op, !.step = step, !.session = s]
  <1>2. op \in Operation /\ step \in Step /\ s \in 0 .. MaxSessions
    BY AuthAssumption DEF Operation, Step, SessionIds
  <1>3. f \in RequestType /\ f.op = op /\ f.step = step /\ f.token = 0
    BY <1>2, NoRequestType DEF RequestType
  <1> HIDE DEF f
  <1>4. request' = [request EXCEPT ![r] = f]
    BY <1>1 DEF f
  <1>5. QED  BY <1>3, <1>4 DEF TypeOK

LEMMA InitTypes == Init => TypeOK
  <1> SUFFICES ASSUME Init PROVE TypeOK
    OBVIOUS
  <1>1. 0 \in 0 .. MaxResets /\ 0 \in 0 .. MaxTokens
    BY AuthAssumption
  <1>2. account \in AccountType
    BY <1>1 DEF Init, AccountType
  <1>3. sessions \in [SessionIds -> SessionType]
    BY <1>1 DEF Init, SessionType, RowState
  <1>4. tokens \in [TokenIds -> TokenType]
    BY DEF Init, TokenType, RowState, TokenPurpose
  <1>5. request \in [Requests -> RequestType]
    BY NoRequestType DEF Init
  <1>6. QED  BY <1>1, <1>2, <1>3, <1>4, <1>5 DEF Init, TypeOK

LEMMA NextTypes == TypeOK /\ [Next]_vars => TypeOK'
  <1> SUFFICES ASSUME TypeOK, [Next]_vars PROVE TypeOK'
    OBVIOUS
  <1>1. ASSUME NEW r \in Requests, LinkRequest(r) PROVE TypeOK'
    <2>1. CASE SignUpLook(r)
      BY <2>1, BeginEffect DEF SignUpLook, TypeOK, Operation, Step
    <2>2. CASE SignUpInsert(r)
      BY <2>2, GotoEffect DEF SignUpInsert, TypeOK, AccountType, Step
    <2>3. CASE MagicLinkLook(r) \/ ForgotPasswordLook(r)
      BY <2>3, BeginEffect
         DEF MagicLinkLook, ForgotPasswordLook, TypeOK, Operation, Step
    <2>4. CASE Issue(r)
      <3>1. tokens' \in [TokenIds -> TokenType]
        BY <2>4 DEF Issue, Purpose, TypeOK, TokenType, RowState, TokenPurpose
      <3>2. QED  BY <3>1, <2>4, FinishEffect DEF Issue, TypeOK
    <2>5. QED  BY <1>1, <2>1, <2>2, <2>3, <2>4 DEF LinkRequest
  <1>2. ASSUME NEW r \in Requests, SignIn(r) PROVE TypeOK'
    <2>1. CASE SignInRead(r)
      BY <2>1, SignInReadEffect DEF SignInRead, TypeOK
    <2>2. CASE Rehash(r)
      <3>1. account' \in AccountType
        BY <2>2, RequestFields DEF Rehash, TypeOK, AccountType
      <3>2. AfterPassword(request[r].verified) \in Step
        BY DEF AfterPassword, Step
      <3>3. QED  BY <3>1, <3>2, <2>2, GotoEffect DEF Rehash, TypeOK
    <2>3. CASE Consume(r)
      BY <2>3, ConsumeEffect DEF Consume, TypeOK
    <2>4. CASE MarkVerified(r)
      BY <2>4, GotoEffect DEF MarkVerified, TypeOK, AccountType, Step
    <2>5. CASE SetPassword(r)
      BY <2>5, SetPasswordEffect DEF SetPassword, TypeOK
    <2>6. CASE CreateSession(r)
      BY <2>6, CreateSessionEffect, FinishEffect DEF CreateSession, TypeOK
    <2>7. QED  BY <1>2, <2>1, <2>2, <2>3, <2>4, <2>5, <2>6 DEF SignIn
  <1>3. ASSUME NEW r \in Requests, Revocation(r) PROVE TypeOK'
    <2>1. CASE RevokeAll(r)
      BY <2>1, RevokeAllEffect, EndEffect DEF RevokeAll, TypeOK
    <2>2. CASE SubmitRevoke(r) \/ SubmitRevokeOthers(r)
      BY <2>2, FormEffect DEF SubmitRevoke, SubmitRevokeOthers, TypeOK
    <2>3. CASE SubmitDeletion(r)
      BY <2>3, BeginEffect DEF SubmitDeletion, TypeOK, Operation, Step
    <2>4. CASE RevokeSession(r) \/ RevokeOtherSessions(r)
      BY <2>4, FinishEffect, EndEffect DEF RevokeSession, RevokeOtherSessions, TypeOK
    <2>5. CASE Disable(r)
      BY <2>5, GotoEffect DEF Disable, TypeOK, AccountType, Step
    <2>6. QED  BY <1>3, <2>1, <2>2, <2>3, <2>4, <2>5 DEF Revocation
  <1>4. ASSUME NEW r \in Requests, RequestFails(r) PROVE TypeOK'
    BY <1>4, FinishEffect DEF RequestFails, TypeOK, At
  <1>5. ASSUME NEW s \in SessionIds, SignOut(s) PROVE TypeOK'
    BY <1>5, EndEffect DEF SignOut, TypeOK
  <1>6. ASSUME NEW t \in TokenIds, ExpireToken(t) PROVE TypeOK'
    BY <1>6 DEF ExpireToken, TypeOK, TokenType, RowState
  <1>7. CASE UNCHANGED vars
    BY <1>7 DEF vars, TypeOK
  <1>8. QED  BY <1>1, <1>2, <1>3, <1>4, <1>5, <1>6, <1>7 DEF Next

-------------------------------------------------------------------------------
(***************************************************************************)
(* The invariant: the initial states, the steps that change one request    *)
(* and neither a session nor the password, and then the others.            *)
(***************************************************************************)

LEMMA InitIInv == Init => IInv
  <1> SUFFICES ASSUME Init PROVE IInv
    OBVIOUS
  <1>1. TypeOK
    BY InitTypes
  <1>2. \A r \in Requests :
            /\ request[r].op = "signUp" /\ request[r].step = "idle"
            /\ request[r].token = 0
    BY NoRequestType DEF Init
  <1>3. \A r \in Requests : RequestInv(r)
    BY <1>2
       DEF RequestInv, OwnToken, Entitled, UpToDate, Rehashing, At, ByReset
  <1>4. /\ \A s \in SessionIds : sessions[s].state = "absent" /\ sessions[s].token = 0
        /\ \A t \in TokenIds : tokens[t].state = "absent"
        /\ account.password = 0 /\ resets = 0
    BY DEF Init
  <1>5. QED
    BY <1>1, <1>3, <1>4
       DEF IInv, LinkSpentOnce, MagicLinkInv, UnverifiedEnterByReset,
           SessionsUpToDate, PasswordIsLatest

\* Request r moves; no session, no reset and no spent token changes, and the
\* account loses neither its password nor its verified address.
LEMMA RequestMoves ==
    ASSUME IInv, TypeOK', NEW r \in Requests,
           UNCHANGED <<sessions, resets, overwritten>>,
           account.verified => account'.verified,
           overwritten \/ account'.password = resets,
           \A t \in TokenIds : tokens[t].state = "gone" => tokens'[t] = tokens[t],
           MagicLinkInv',
           torn => torn', At(r, "revoke") => torn',
           \A q \in Requests \ {r} : request'[q] = request[q],
           RequestInv(r)'
    PROVE  IInv'
  <1>1. \A q \in Requests :
            request[q].token # 0 => /\ request[q].token \in TokenIds
                                   /\ tokens'[request[q].token] = tokens[request[q].token]
    BY RequestFields, AuthAssumption
       DEF IInv, TypeOK, TokenIds, RequestInv, OwnToken
  <1>2. ASSUME NEW q \in Requests \ {r} PROVE RequestInv(q)'
    <2>1. request'[q] = request[q] /\ RequestInv(q)
      BY DEF IInv
    <2>2. OwnToken(q)'
      <3>1. OwnToken(q) /\ OwnToken(r)'
        BY <2>1 DEF RequestInv
      <3>2. QED  BY <2>1, <3>1, <1>1 DEF OwnToken
    <2>3. Entitled(q)'
      BY <2>1, <1>1 DEF RequestInv, Entitled, ByReset, At
    <2>4. UpToDate(q)'
      <3>1. Revoking(q) => Revoking(q)' \/ torn'
        BY DEF Revoking, At
      <3>2. QED  BY <2>1, <3>1 DEF RequestInv, UpToDate
    <2>5. Rehashing(q)'
      BY <2>1 DEF RequestInv, Rehashing, At
    <2>6. QED  BY <2>2, <2>3, <2>4, <2>5 DEF RequestInv
  <1>3. \A s \in SessionIds :
            sessions[s].token # 0 =>
                /\ sessions[s].token \in TokenIds
                /\ tokens'[sessions[s].token] = tokens[sessions[s].token]
    <2>1. \A s \in SessionIds : sessions[s].token \in 0 .. MaxTokens
      BY DEF IInv, TypeOK, SessionType
    <2>2. QED  BY <2>1, AuthAssumption DEF IInv, TokenIds, LinkSpentOnce
  <1>4. LinkSpentOnce'
    BY <1>3 DEF IInv, LinkSpentOnce
  <1>5. UnverifiedEnterByReset'
    BY <1>3 DEF IInv, UnverifiedEnterByReset
  <1>6. SessionsUpToDate'
    BY DEF IInv, SessionsUpToDate, At
  <1>7. PasswordIsLatest'
    BY DEF PasswordIsLatest
  <1>8. QED  BY <1>2, <1>4, <1>5, <1>6, <1>7 DEF IInv

\* The statements that look something up and note it in their request.
LEMMA LookInv ==
    ASSUME IInv, TypeOK', NEW r \in Requests,
           \/ SignUpLook(r) \/ MagicLinkLook(r) \/ ForgotPasswordLook(r)
           \/ SignInRead(r) \/ SubmitRevoke(r) \/ SubmitRevokeOthers(r)
           \/ SubmitDeletion(r)
    PROVE  IInv'
  <1>1. /\ UNCHANGED <<account, sessions, tokens, resets, torn, overwritten>>
        /\ Idle(r)
    BY DEF SignUpLook, MagicLinkLook, ForgotPasswordLook, SignInRead, SubmitRevoke,
           SubmitRevokeOthers, SubmitDeletion
  <1>2. TypeOK
    BY DEF IInv
  <1>3. /\ request'[r].token = 0
        /\ request'[r].op = "requestMagicLink" => account.verified
        /\ request'[r].op # "resetPassword"
        /\ request'[r].step \in {"rehash", "session", "disable"} =>
              request'[r].epoch = resets
        /\ request'[r].step \notin {"hash", "verify", "revoke"}
        /\ request'[r].step = "rehash" =>
              /\ request'[r].verified = account.verified
              /\ request'[r].password = account.password
        /\ request'[r].step = "session" => account.verified
        /\ \A q \in Requests \ {r} : request'[q] = request[q]
    <2>1. CASE SignUpLook(r)
      BY <1>2, <2>1, BeginEffect DEF SignUpLook, Operation, Step
    <2>2. CASE MagicLinkLook(r)
      BY <1>2, <2>2, BeginEffect DEF MagicLinkLook, Operation, Step
    <2>3. CASE ForgotPasswordLook(r)
      BY <1>2, <2>3, BeginEffect DEF ForgotPasswordLook, Operation, Step
    <2>4. CASE SignInRead(r)
      BY <1>2, <2>4, SignInReadEffect
    <2>5. CASE SubmitRevoke(r) \/ SubmitRevokeOthers(r)
      BY <1>2, <2>5, FormEffect
    <2>6. CASE SubmitDeletion(r)
      BY <1>2, <2>6, BeginEffect DEF SubmitDeletion, Operation, Step
    <2>7. QED  BY <2>1, <2>2, <2>3, <2>4, <2>5, <2>6
  <1>4. RequestInv(r)'
    BY <1>1, <1>3
       DEF IInv, RequestInv, OwnToken, Entitled, UpToDate, Rehashing, At,
           PasswordIsLatest
  <1>5. ~At(r, "revoke") /\ MagicLinkInv'
    BY <1>1 DEF Idle, At, IInv, MagicLinkInv
  <1>6. QED  BY <1>1, <1>3, <1>4, <1>5, RequestMoves DEF IInv, PasswordIsLatest

\* The statements that write the account and go on.
LEMMA AccountInv ==
    ASSUME IInv, TypeOK', NEW r \in Requests,
           SignUpInsert(r) \/ Rehash(r) \/ MarkVerified(r) \/ Disable(r)
    PROVE  IInv'
  <1>1. UNCHANGED <<sessions, tokens, resets, torn, overwritten>>
    BY DEF SignUpInsert, Rehash, MarkVerified, Disable
  <1>2. TypeOK /\ RequestInv(r)
    BY DEF IInv
  <1>3. /\ request[r].step \in {"insert", "rehash", "verify", "disable"}
        /\ account.verified => account'.verified
        /\ overwritten \/ account'.password = resets
        /\ request'[r].op = request[r].op
        /\ request'[r].token = request[r].token
        /\ request'[r].epoch = request[r].epoch
        /\ request'[r].late = request[r].late
        /\ request'[r].step = "session" => account'.verified
        /\ request'[r].step \in {"session", "revoke"} => request[r].step # "insert"
        /\ request'[r].step \in {"session", "revoke", "issue"}
        /\ \A q \in Requests \ {r} : request'[q] = request[q]
    <2>1. CASE SignUpInsert(r)
      BY <1>2, <2>1, GotoEffect
         DEF SignUpInsert, At, Step, TypeOK, AccountType, IInv, PasswordIsLatest
    <2>2. CASE Rehash(r)
      <3>1. /\ AfterPassword(request[r].verified) \in {"session", "issue"}
            /\ AfterPassword(request[r].verified) = "session" => request[r].verified
        BY DEF AfterPassword
      <3>2. request[r].verified => account.verified
        BY <1>2, <2>2 DEF Rehash, RequestInv, Entitled
      <3>3. overwritten \/ request[r].password = resets
        BY <1>2, <2>2 DEF Rehash, RequestInv, Rehashing
      <3>4. /\ account'.password = request[r].password
            /\ account'.verified = account.verified
        BY <1>2, <2>2 DEF Rehash, TypeOK, AccountType
      <3>5. Goto(r, AfterPassword(request[r].verified)) /\ request[r].step = "rehash"
        BY <2>2 DEF Rehash, At
      <3>6. AfterPassword(request[r].verified) \in Step
        BY <3>1 DEF Step
      <3>7. QED  BY <1>2, <3>1, <3>2, <3>3, <3>4, <3>5, <3>6, GotoEffect
    <2>3. CASE MarkVerified(r)
      BY <1>2, <2>3, GotoEffect
         DEF MarkVerified, At, Step, TypeOK, AccountType, IInv, PasswordIsLatest
    <2>4. CASE Disable(r)
      BY <1>2, <2>4, GotoEffect
         DEF Disable, At, Step, TypeOK, AccountType, IInv, PasswordIsLatest
    <2>5. QED  BY <2>1, <2>2, <2>3, <2>4
  <1>4. OwnToken(r)'
    BY <1>1, <1>2, <1>3 DEF RequestInv, OwnToken
  <1>5. Entitled(r)'
    BY <1>1, <1>2, <1>3 DEF RequestInv, Entitled, ByReset, At
  <1>6. UpToDate(r)' /\ Rehashing(r)'
    <2>1. Revoking(r)' <=> Revoking(r)
      BY <1>3 DEF Revoking, At
    <2>2. QED  BY <2>1, <1>1, <1>2, <1>3 DEF RequestInv, UpToDate, Rehashing, At
  <1>7. ~At(r, "revoke") /\ MagicLinkInv'
    BY <1>1, <1>3 DEF At, IInv, MagicLinkInv
  <1>8. QED
    BY <1>1, <1>3, <1>4, <1>5, <1>6, <1>7, RequestMoves DEF RequestInv

\* The statements that issue and consume tokens.
LEMMA IssueInv ==
    ASSUME IInv, TypeOK', NEW r \in Requests, Issue(r)
    PROVE  IInv'
  <1>1. TypeOK /\ RequestInv(r) /\ At(r, "issue")
    BY DEF IInv, Issue
  <1>2. UNCHANGED <<account, sessions, resets, torn, overwritten>> /\ Finish(r)
    BY DEF Issue
  <1>3. /\ request'[r].op = "signUp" /\ request'[r].step = "idle"
        /\ request'[r].token = 0
        /\ \A q \in Requests \ {r} : request'[q] = request[q]
    BY <1>1, <1>2, FinishEffect
  <1>4. RequestInv(r)'
    BY <1>3 DEF RequestInv, OwnToken, Entitled, UpToDate, Rehashing, At, ByReset
  <1>5. PICK t \in TokenIds :
            /\ tokens[t].state = "absent"
            /\ tokens' = [tokens EXCEPT ![t] =
                  [state |-> "live", purpose |-> Purpose(request[r].op)]]
    BY DEF Issue
  <1>6. /\ tokens'[t].purpose = Purpose(request[r].op)
        /\ \A u \in TokenIds \ {t} : tokens'[u] = tokens[u]
    BY <1>1, <1>5 DEF TypeOK
  <1>7. Purpose(request[r].op) = "magic_link" => account.verified
    BY <1>1 DEF Purpose, RequestInv, Entitled
  <1>8. MagicLinkInv'
    BY <1>2, <1>6, <1>7 DEF IInv, MagicLinkInv
  <1>9. \A u \in TokenIds : tokens[u].state = "gone" => tokens'[u] = tokens[u]
    BY <1>5, <1>6
  <1>10. ~At(r, "revoke")
    BY <1>1 DEF At
  <1>11. QED
    BY <1>2, <1>3, <1>4, <1>8, <1>9, <1>10, RequestMoves DEF IInv, PasswordIsLatest

LEMMA ConsumeInv ==
    ASSUME IInv, TypeOK', NEW r \in Requests, Consume(r)
    PROVE  IInv'
  <1>1. TypeOK /\ Idle(r)
    BY DEF IInv, Consume
  <1>2. UNCHANGED <<account, sessions, resets, torn, overwritten>>
    BY DEF Consume
  <1>3. PICK t \in TokenIds :
            /\ tokens[t].state = "live"
            /\ tokens'[t].state = "gone" /\ tokens'[t].purpose = tokens[t].purpose
            /\ \A u \in TokenIds \ {t} : tokens'[u] = tokens[u]
            /\ request'[r].token = t /\ request'[r].epoch = resets
            /\ request'[r].op = LinkOp(tokens[t].purpose)
            /\ request'[r].step = AfterToken(tokens[t].purpose)
            /\ \A q \in Requests \ {r} : request'[q] = request[q]
    BY <1>1, ConsumeEffect
  <1>4. MagicLinkInv'
    BY <1>2, <1>3 DEF IInv, MagicLinkInv
  <1>5. t # 0
    BY DEF TokenIds
  <1>6. OwnToken(r)'
    <2>1. \A q \in Requests : request[q].token # t
      BY <1>3, <1>5 DEF IInv, RequestInv, OwnToken
    <2>2. \A s \in SessionIds : sessions[s].token # t
      BY <1>3, <1>5 DEF IInv, LinkSpentOnce
    <2>3. QED  BY <1>2, <1>3, <2>1, <2>2 DEF OwnToken
  <1>7. /\ request'[r].op # "requestMagicLink"
        /\ request'[r].op = "resetPassword" <=> tokens[t].purpose = "password_reset"
        /\ request'[r].step = "hash" <=> tokens[t].purpose = "password_reset"
        /\ request'[r].step = "session" => tokens[t].purpose = "magic_link"
        /\ request'[r].step # "rehash"
    <2>1. tokens[t].purpose \in TokenPurpose
      BY <1>1 DEF TypeOK, TokenType
    <2>2. QED  BY <1>3, <2>1 DEF LinkOp, AfterToken, TokenPurpose
  <1>8. tokens[t].purpose = "magic_link" => account'.verified
    BY <1>2, <1>3 DEF IInv, MagicLinkInv
  <1>9. Entitled(r)'
    BY <1>3, <1>5, <1>7, <1>8 DEF Entitled, ByReset, At
  <1>10. RequestInv(r)'
    BY <1>2, <1>3, <1>6, <1>7, <1>9 DEF RequestInv, UpToDate, Rehashing, At
  <1>11. ~At(r, "revoke")
    BY <1>1 DEF Idle, At
  <1>12. \A u \in TokenIds : tokens[u].state = "gone" => tokens'[u] = tokens[u]
    BY <1>3
  <1>13. QED
    BY <1>2, <1>3, <1>4, <1>10, <1>11, <1>12, RequestMoves DEF IInv, PasswordIsLatest

LEMMA ExpireTokenInv ==
    ASSUME IInv, TypeOK', NEW t \in TokenIds, ExpireToken(t)
    PROVE  IInv'
  <1>1. /\ UNCHANGED <<account, sessions, request, resets, torn, overwritten>>
        /\ tokens[t].state = "live"
    BY DEF ExpireToken
  <1>2. /\ tokens'[t].state = "gone"
        /\ \A u \in TokenIds : tokens'[u].purpose = tokens[u].purpose
        /\ \A u \in TokenIds \ {t} : tokens'[u] = tokens[u]
    BY DEF ExpireToken, IInv, TypeOK, TokenType
  <1>3. \A u \in TokenIds : tokens[u].state = "gone" => tokens'[u].state = "gone"
    BY <1>2
  <1>4. /\ \A r \in Requests : request[r].token \in 0 .. MaxTokens
        /\ \A s \in SessionIds : sessions[s].token \in 0 .. MaxTokens
    BY DEF IInv, TypeOK, RequestType, SessionType
  <1>5. \A u \in 0 .. MaxTokens : u # 0 => u \in TokenIds
    BY AuthAssumption DEF TokenIds
  <1>6. ASSUME NEW r \in Requests PROVE RequestInv(r)'
    <2>1. RequestInv(r)
      BY DEF IInv
    <2>2. OwnToken(r)'
      BY <1>1, <1>3, <1>4, <1>5, <2>1 DEF RequestInv, OwnToken
    <2>3. Entitled(r)'
      BY <1>1, <1>2, <1>4, <1>5, <2>1 DEF RequestInv, Entitled, ByReset, At
    <2>4. UpToDate(r)' /\ Rehashing(r)'
      BY <1>1, <2>1 DEF RequestInv, UpToDate, Rehashing, Revoking, At
    <2>5. QED  BY <2>2, <2>3, <2>4 DEF RequestInv
  <1>7. LinkSpentOnce'
    BY <1>1, <1>3, <1>4, <1>5 DEF IInv, LinkSpentOnce
  <1>8. MagicLinkInv'
    BY <1>1, <1>2 DEF IInv, MagicLinkInv
  <1>9. UnverifiedEnterByReset'
    BY <1>1, <1>2, <1>4, <1>5 DEF IInv, UnverifiedEnterByReset
  <1>10. SessionsUpToDate' /\ PasswordIsLatest'
    BY <1>1 DEF IInv, SessionsUpToDate, PasswordIsLatest, At
  <1>11. QED  BY <1>6, <1>7, <1>8, <1>9, <1>10 DEF IInv

LEMMA FailureInv ==
    ASSUME IInv, TypeOK', NEW r \in Requests, RequestFails(r)
    PROVE  IInv'
  <1>1. /\ UNCHANGED <<account, sessions, tokens, resets, overwritten>>
        /\ torn' = (torn \/ At(r, "revoke")) /\ Finish(r)
    BY DEF RequestFails
  <1>2. /\ request'[r].op = "signUp" /\ request'[r].step = "idle"
        /\ request'[r].token = 0
        /\ \A q \in Requests \ {r} : request'[q] = request[q]
    BY <1>1, FinishEffect DEF IInv
  <1>3. RequestInv(r)'
    BY <1>2 DEF RequestInv, OwnToken, Entitled, UpToDate, Rehashing, At, ByReset
  <1>4. MagicLinkInv' /\ (torn => torn') /\ (At(r, "revoke") => torn')
    BY <1>1 DEF IInv, MagicLinkInv, At
  <1>5. QED  BY <1>1, <1>2, <1>3, <1>4, RequestMoves DEF IInv, PasswordIsLatest

-------------------------------------------------------------------------------
(***************************************************************************)
(* The steps that insert and delete sessions, and the one that sets a      *)
(* password.                                                               *)
(***************************************************************************)

\* A request becomes a session: what it knew, the session is.
LEMMA CreateSessionInv ==
    ASSUME IInv, TypeOK', NEW r \in Requests, CreateSession(r)
    PROVE  IInv'
  <1>1. /\ UNCHANGED <<account, tokens, resets, torn, overwritten>>
        /\ At(r, "session") /\ Finish(r)
    BY DEF CreateSession
  <1>2. TypeOK /\ RequestInv(r)
    BY DEF IInv
  <1>3. PICK s \in SessionIds :
            /\ sessions[s].state = "absent"
            /\ sessions'[s].state = "live"
            /\ sessions'[s].token = request[r].token
            /\ sessions'[s].epoch = request[r].epoch
            /\ sessions'[s].late = request[r].late
            /\ \A u \in SessionIds \ {s} : sessions'[u] = sessions[u]
    BY <1>2, CreateSessionEffect
  <1>4. /\ request'[r].op = "signUp" /\ request'[r].step = "idle"
        /\ request'[r].token = 0
        /\ \A q \in Requests \ {r} : request'[q] = request[q]
    BY <1>1, <1>2, FinishEffect
  <1>5. RequestInv(r)'
    BY <1>4 DEF RequestInv, OwnToken, Entitled, UpToDate, Rehashing, At, ByReset
  <1>6. ASSUME NEW q \in Requests \ {r} PROVE RequestInv(q)'
    <2>1. request'[q] = request[q] /\ RequestInv(q)
      BY <1>4 DEF IInv
    <2>2. OwnToken(q)'
      <3>1. OwnToken(q) /\ OwnToken(r)
        BY <1>2, <2>1 DEF RequestInv
      <3>2. QED  BY <3>1, <1>1, <1>3, <1>4, <2>1 DEF OwnToken
    <2>3. Entitled(q)'
      BY <1>1, <2>1 DEF RequestInv, Entitled, ByReset, At
    <2>4. UpToDate(q)' /\ Rehashing(q)'
      <3>1. Revoking(q) => Revoking(q)'
        BY <1>1, <1>4 DEF Revoking, At
      <3>2. QED  BY <1>1, <2>1, <3>1 DEF RequestInv, UpToDate, Rehashing, At
    <2>5. QED  BY <2>2, <2>3, <2>4 DEF RequestInv
  <1>7. LinkSpentOnce'
    BY <1>1, <1>2, <1>3 DEF IInv, LinkSpentOnce, RequestInv, OwnToken
  <1>8. UnverifiedEnterByReset'
    BY <1>1, <1>2, <1>3 DEF IInv, UnverifiedEnterByReset, RequestInv, Entitled, ByReset
  <1>9. SessionsUpToDate'
    <2>1. \A q \in Requests : At(q, "revoke") => At(q, "revoke")'
      BY <1>1, <1>4 DEF At
    <2>2. torn \/ request[r].late \/ request[r].epoch = resets \/ Revoking(r)
      BY <1>1, <1>2 DEF RequestInv, UpToDate, At
    <2>3. QED  BY <1>1, <1>3, <2>1, <2>2 DEF IInv, SessionsUpToDate, Revoking
  <1>10. MagicLinkInv' /\ PasswordIsLatest'
    BY <1>1 DEF IInv, MagicLinkInv, PasswordIsLatest
  <1>11. QED  BY <1>5, <1>6, <1>7, <1>8, <1>9, <1>10 DEF IInv

\* Sessions end, and nothing else happens to any session.
LEMMA SessionsEnd ==
    ASSUME IInv, TypeOK',
           UNCHANGED <<account, tokens, resets, torn, overwritten>>,
           \A s \in SessionIds :
              /\ sessions'[s].token = sessions[s].token
              /\ sessions'[s].state = "live" => sessions'[s] = sessions[s]
    PROVE  /\ LinkSpentOnce' /\ UnverifiedEnterByReset'
           /\ MagicLinkInv' /\ PasswordIsLatest'
  BY DEF IInv, LinkSpentOnce, UnverifiedEnterByReset, MagicLinkInv, PasswordIsLatest

LEMMA EndSomeInv ==
    ASSUME IInv, TypeOK',
           \/ \E r \in Requests : RevokeSession(r) \/ RevokeOtherSessions(r)
           \/ \E s \in SessionIds : SignOut(s)
    PROVE  IInv'
  <1>1. /\ UNCHANGED <<account, tokens, resets, torn, overwritten>>
        /\ \E S : End(S)
    BY DEF RevokeSession, RevokeOtherSessions, SignOut
  <1>2. TypeOK
    BY DEF IInv
  <1>3. \A s \in SessionIds :
            /\ sessions'[s].token = sessions[s].token
            /\ sessions'[s].state = "live" => sessions'[s] = sessions[s]
    BY <1>1, <1>2, EndEffect
  <1>4. \A q \in Requests :
            \/ request'[q] = request[q]
            \/ /\ ~At(q, "revoke")
               /\ request'[q].op = "signUp" /\ request'[q].step = "idle"
               /\ request'[q].token = 0
    <2>1. CASE \E r \in Requests : RevokeSession(r) \/ RevokeOtherSessions(r)
      BY <1>2, <2>1, FinishEffect DEF RevokeSession, RevokeOtherSessions, At
    <2>2. CASE \E s \in SessionIds : SignOut(s)
      BY <2>2 DEF SignOut
    <2>3. QED  BY <2>1, <2>2 DEF RevokeSession, RevokeOtherSessions, SignOut
  <1>5. \A q \in Requests : At(q, "revoke") => At(q, "revoke")'
    BY <1>4 DEF At
  <1>6. ASSUME NEW q \in Requests PROVE RequestInv(q)'
    <2>1. CASE request'[q] = request[q]
      <3>1. RequestInv(q)
        BY DEF IInv
      <3>2. OwnToken(q)'
        BY <1>1, <1>3, <1>4, <2>1, <3>1 DEF RequestInv, OwnToken
      <3>3. Entitled(q)'
        BY <1>1, <2>1, <3>1 DEF RequestInv, Entitled, ByReset, At
      <3>4. UpToDate(q)' /\ Rehashing(q)'
        BY <1>1, <1>5, <2>1, <3>1 DEF RequestInv, UpToDate, Rehashing, Revoking, At
      <3>5. QED  BY <3>2, <3>3, <3>4 DEF RequestInv
    <2>2. CASE request'[q].op = "signUp" /\ request'[q].step = "idle"
                  /\ request'[q].token = 0
      BY <2>2 DEF RequestInv, OwnToken, Entitled, UpToDate, Rehashing, At, ByReset
    <2>3. QED  BY <1>4, <2>1, <2>2
  <1>7. SessionsUpToDate'
    BY <1>1, <1>3, <1>5 DEF IInv, SessionsUpToDate
  <1>8. QED  BY <1>1, <1>3, <1>6, <1>7, SessionsEnd DEF IInv

\* From the new password on, it is this request that has to revoke.
LEMMA SetPasswordInv ==
    ASSUME IInv, TypeOK', NEW r \in Requests, SetPassword(r)
    PROVE  IInv'
  <1>1. TypeOK /\ RequestInv(r) /\ At(r, "hash")
    BY DEF IInv, SetPassword
  <1>2. /\ UNCHANGED <<sessions, tokens, torn>>
        /\ overwritten' = \E q \in Requests : At(q, "rehash")
    BY DEF SetPassword
  <1>3. /\ account'.password = resets' /\ account'.verified = account.verified
        /\ request'[r].op = request[r].op /\ request'[r].step = "revoke"
        /\ request'[r].token = request[r].token
        /\ request'[r].epoch = resets'
        /\ \A q \in Requests \ {r} : request'[q] = request[q]
    BY <1>1, SetPasswordEffect DEF SetPassword
  <1>4. OwnToken(r)'
    BY <1>1, <1>2, <1>3 DEF RequestInv, OwnToken
  <1>5. Entitled(r)'
    BY <1>1, <1>2, <1>3 DEF RequestInv, Entitled, ByReset, At
  <1>6. UpToDate(r)' /\ Rehashing(r)'
    BY <1>3 DEF UpToDate, Rehashing, At
  <1>7. ASSUME NEW q \in Requests \ {r} PROVE RequestInv(q)'
    <2>1. request'[q] = request[q] /\ RequestInv(q)
      BY <1>3 DEF IInv
    <2>2. OwnToken(q)'
      BY <1>2, <1>3, <2>1 DEF RequestInv, OwnToken
    <2>3. Entitled(q)'
      BY <1>2, <1>3, <2>1 DEF RequestInv, Entitled, ByReset, At
    <2>4. UpToDate(q)'
      BY <1>3 DEF UpToDate, Revoking, At
    <2>5. Rehashing(q)'
      BY <1>2, <2>1 DEF Rehashing, At
    <2>6. QED  BY <2>2, <2>3, <2>4, <2>5 DEF RequestInv
  <1>8. SessionsUpToDate'
    BY <1>3 DEF SessionsUpToDate, At
  <1>9. LinkSpentOnce' /\ MagicLinkInv' /\ UnverifiedEnterByReset'
    BY <1>2, <1>3 DEF IInv, LinkSpentOnce, MagicLinkInv, UnverifiedEnterByReset
  <1>10. PasswordIsLatest'
    BY <1>3 DEF PasswordIsLatest
  <1>11. QED
    BY <1>4, <1>5, <1>6, <1>7, <1>8, <1>9, <1>10 DEF IInv, RequestInv

\* No session is left, and whoever is still under way is late.
LEMMA RevokeAllInv ==
    ASSUME IInv, TypeOK', NEW r \in Requests, RevokeAll(r)
    PROVE  IInv'
  <1>1. /\ UNCHANGED <<account, tokens, resets, torn, overwritten>>
        /\ End(SessionIds) /\ At(r, "revoke")
    BY DEF RevokeAll
  <1>2. TypeOK /\ RequestInv(r)
    BY DEF IInv
  <1>3. \A s \in SessionIds :
            /\ sessions'[s].token = sessions[s].token
            /\ sessions'[s].state # "live"
    BY <1>1, <1>2, EndEffect
  <1>4. /\ request'[r].token \in {0, request[r].token}
        /\ \A q \in Requests \ {r} :
              /\ request'[q].op = request[q].op
              /\ request'[q].step = request[q].step
              /\ request'[q].password = request[q].password
              /\ request'[q].verified = request[q].verified
              /\ request'[q].token = request[q].token
              /\ ~Idle(q) => request'[q].late = TRUE
    BY <1>2, RevokeAllEffect
  <1>5. ASSUME NEW q \in Requests \ {r} PROVE RequestInv(q)'
    <2>1. RequestInv(q)
      BY DEF IInv
    <2>2. OwnToken(q)'
      BY <1>1, <1>3, <1>4, <2>1 DEF RequestInv, OwnToken
    <2>3. Entitled(q)'
      BY <1>1, <1>4, <2>1 DEF RequestInv, Entitled, ByReset, At
    <2>4. UpToDate(q)' /\ Rehashing(q)'
      BY <1>1, <1>4, <2>1 DEF RequestInv, UpToDate, Rehashing, Idle, At
    <2>5. QED  BY <2>2, <2>3, <2>4 DEF RequestInv
  <1>6. CASE request'[r] = NoRequest
    <2>1. RequestInv(r)'
      BY <1>6, NoRequestType
         DEF RequestInv, OwnToken, Entitled, UpToDate, Rehashing, At, ByReset
    <2>2. QED
      BY <1>1, <1>3, <1>5, <2>1, SessionsEnd DEF IInv, SessionsUpToDate
  <1>7. CASE request'[r] = [request[r] EXCEPT !.step = "session"]
                /\ request[r].op = "resetPassword"
    <2>1. /\ request'[r].op = "resetPassword" /\ request'[r].step = "session"
          /\ request'[r].token = request[r].token
          /\ request'[r].epoch = request[r].epoch
          /\ request'[r].late = request[r].late
      BY <1>2, <1>7 DEF TypeOK, RequestType
    <2>2. OwnToken(r)'
      BY <1>1, <1>2, <1>3, <1>4, <2>1 DEF RequestInv, OwnToken
    <2>3. Entitled(r)'
      BY <1>1, <1>2, <1>7, <2>1 DEF RequestInv, Entitled, ByReset, At
    <2>4. Revoking(r) => Revoking(r)'
      BY <1>4 DEF Revoking, At
    <2>5. UpToDate(r)' /\ Rehashing(r)'
      BY <1>1, <1>2, <2>1, <2>4 DEF RequestInv, UpToDate, Rehashing, At
    <2>6. QED
      BY <1>1, <1>3, <1>5, <2>2, <2>3, <2>5, SessionsEnd
         DEF IInv, SessionsUpToDate, RequestInv
  <1>8. QED  BY <1>2, <1>6, <1>7, RevokeAllEffect

LEMMA NextIInv == IInv /\ [Next]_vars => IInv'
  <1> SUFFICES ASSUME IInv, [Next]_vars PROVE IInv'
    OBVIOUS
  <1>1. TypeOK'
    BY NextTypes DEF IInv
  <1>2. ASSUME NEW r \in Requests, LinkRequest(r) PROVE IInv'
    BY <1>1, <1>2, LookInv, AccountInv, IssueInv DEF LinkRequest
  <1>3. ASSUME NEW r \in Requests, SignIn(r) PROVE IInv'
    BY <1>1, <1>3, LookInv, AccountInv, ConsumeInv, SetPasswordInv, CreateSessionInv
       DEF SignIn
  <1>4. ASSUME NEW r \in Requests, Revocation(r) PROVE IInv'
    BY <1>1, <1>4, LookInv, AccountInv, RevokeAllInv, EndSomeInv DEF Revocation
  <1>5. ASSUME NEW r \in Requests, RequestFails(r) PROVE IInv'
    BY <1>1, <1>5, FailureInv
  <1>6. ASSUME NEW s \in SessionIds, SignOut(s) PROVE IInv'
    BY <1>1, <1>6, EndSomeInv
  <1>7. ASSUME NEW t \in TokenIds, ExpireToken(t) PROVE IInv'
    BY <1>1, <1>7, ExpireTokenInv
  <1>8. CASE UNCHANGED vars
    BY <1>8
       DEF vars, IInv, TypeOK, RequestInv, OwnToken, Entitled, UpToDate, Rehashing,
           ByReset, Revoking, At, LinkSpentOnce, MagicLinkInv,
           UnverifiedEnterByReset, SessionsUpToDate, PasswordIsLatest
  <1>9. QED  BY <1>2, <1>3, <1>4, <1>5, <1>6, <1>7, <1>8 DEF Next

\* IInv is an invariant of every instance of AuthSessions.
THEOREM Invariance == Spec => []IInv
  BY InitIInv, NextIInv, PTL DEF Spec

-------------------------------------------------------------------------------
(***************************************************************************)
(* What it means for the account.                                          *)
(***************************************************************************)

\* The variables keep their types: no reset, session or token is counted
\* past its bound.
THEOREM TypeCorrect == Spec => []TypeOK
  <1>1. IInv => TypeOK
    BY DEF IInv
  <1>2. QED  BY <1>1, Invariance, PTL

\* A link of auth/token.ts pays for one session at most, whatever requests and
\* expiries come between its DELETE and the insert of the session; and an
\* address nobody has verified is entered by a reset link alone.
THEOREM EverySessionIsEarned == Spec => []SessionsAreEarned
  <1>1. IInv => SessionsAreEarned
    BY DEF IInv, SessionsAreEarned
  <1>2. QED  BY <1>1, Invariance, PTL

\* Resetting a password ends the sessions opened before it, except those of
\* requests that were past their check, and unless the reset stopped halfway.
THEOREM ResetsRevoke == Spec => []ResetEndsSessions
  <1>1. IInv => ResetEndsSessions
    BY DEF IInv, ResetEndsSessions, SessionsUpToDate
  <1>2. QED  BY <1>1, Invariance, PTL

\* A password once replaced does not come back, unless a rehash was under way
\* when it was replaced.
THEOREM OldPasswordsAreGone == Spec => []PasswordIsLatest
  <1>1. IInv => PasswordIsLatest
    BY DEF IInv
  <1>2. QED  BY <1>1, Invariance, PTL

-------------------------------------------------------------------------------
(***************************************************************************)
(* The refinement.                                                         *)
(***************************************************************************)

LEMMA InitContract == Init => Access!Init
  BY DEF Init, Access!Init, Authenticates

\* Requests that touch neither the sessions nor disabledAt change no access.
LEMMA SameAccess ==
    ASSUME UNCHANGED sessions, account'.disabled = account.disabled
    PROVE  UNCHANGED Access!vars
  BY DEF Access!vars, Authenticates

\* Ending sessions is to revoke them.
LEMMA EndRevokes ==
    ASSUME TypeOK, NEW S, End(S), UNCHANGED account
    PROVE  Access!Revoke(S \intersect SessionIds)
  <1>1. \A s \in SessionIds :
            /\ sessions'[s].state = "absent" <=> sessions[s].state = "absent"
            /\ s \in S => sessions'[s].state # "live"
            /\ s \notin S => sessions'[s] = sessions[s]
    BY EndEffect
  <1>2. {s \in SessionIds : sessions'[s].state # "absent"}
            = {s \in SessionIds : sessions[s].state # "absent"}
    BY <1>1
  <1>3. {s \in SessionIds : sessions'[s].state = "live" /\ ~account'.disabled}
            = {s \in SessionIds : sessions[s].state = "live" /\ ~account.disabled}
                 \ (S \intersect SessionIds)
    BY <1>1
  <1>4. QED  BY <1>2, <1>3 DEF Access!Revoke, Authenticates

\* Every step of the actions is a step of the contract or leaves it alone.
LEMMA NextContract == IInv /\ [Next]_vars => [Access!Next]_(Access!vars)
  <1> SUFFICES ASSUME IInv, [Next]_vars
               PROVE  Access!Next \/ UNCHANGED Access!vars
    OBVIOUS
  <1>1. TypeOK
    BY DEF IInv
  <1>2. ASSUME NEW S, End(S), UNCHANGED account PROVE Access!Next
    BY <1>1, <1>2, EndRevokes DEF Access!Next
  <1>3. ASSUME NEW r \in Requests, CreateSession(r) PROVE Access!Next
    <2>1. PICK s \in SessionIds :
              /\ sessions[s].state = "absent"
              /\ sessions'[s].state = "live"
              /\ \A u \in SessionIds \ {s} : sessions'[u] = sessions[u]
      BY <1>1, <1>3, CreateSessionEffect
    <2>2. account' = account
      BY <1>3 DEF CreateSession
    <2>3. Access!Grant(s)
      BY <2>1, <2>2 DEF Access!Grant, Authenticates
    <2>4. QED  BY <2>3 DEF Access!Next
  <1>4. ASSUME NEW r \in Requests, Disable(r) PROVE Access!Next
    <2>1. account'.disabled = TRUE /\ sessions' = sessions
      BY <1>1, <1>4 DEF Disable, TypeOK, AccountType
    <2>2. Access!Close
      BY <2>1 DEF Access!Close, Authenticates
    <2>3. QED  BY <2>2 DEF Access!Next
  <1>5. ASSUME NEW r \in Requests, LinkRequest(r) PROVE UNCHANGED Access!vars
    BY <1>1, <1>5, SameAccess
       DEF LinkRequest, SignUpLook, SignUpInsert, MagicLinkLook, ForgotPasswordLook,
           Issue, TypeOK, AccountType
  <1>6. ASSUME NEW r \in Requests, SignIn(r), ~CreateSession(r)
        PROVE  UNCHANGED Access!vars
    BY <1>1, <1>6, SameAccess
       DEF SignIn, SignInRead, Rehash, Consume, MarkVerified, SetPassword, TypeOK,
           AccountType
  <1>7. ASSUME NEW r \in Requests, Revocation(r), ~Disable(r)
        PROVE  Access!Next \/ UNCHANGED Access!vars
    BY <1>2, <1>7, SameAccess
       DEF Revocation, RevokeAll, SubmitRevoke, SubmitRevokeOthers, SubmitDeletion,
           RevokeSession, RevokeOtherSessions
  <1>8. ASSUME NEW r \in Requests, RequestFails(r) PROVE UNCHANGED Access!vars
    BY <1>8, SameAccess DEF RequestFails
  <1>9. ASSUME NEW s \in SessionIds, SignOut(s) PROVE Access!Next
    BY <1>2, <1>9 DEF SignOut
  <1>10. ASSUME NEW t \in TokenIds, ExpireToken(t) PROVE UNCHANGED Access!vars
    BY <1>10, SameAccess DEF ExpireToken
  <1>11. CASE UNCHANGED vars
    BY <1>11, SameAccess DEF vars
  <1>12. QED
    BY <1>3, <1>4, <1>5, <1>6, <1>7, <1>8, <1>9, <1>10, <1>11 DEF Next

\* Sessions implement AccessContract: getSession grants no id twice, lets no
\* revoked id back in, and lets nobody into a disabled account.
THEOREM Implements == Spec => AccessContractHolds
  <1>1. Spec => Init /\ [][Next]_vars
    BY DEF Spec
  <1>2. QED
    BY <1>1, Invariance, InitContract, NextContract, PTL
       DEF AccessContractHolds, Access!Spec
===============================================================================
