----------------------------- MODULE AuthSessions -----------------------------
(***************************************************************************)
(* One account: its password, its e-mail tokens and its sessions.  Server  *)
(* actions check a password or consume a token and write the account and   *)
(* the sessions in later statements, none of them in a transaction.        *)
(* Passwords are numbered: 0 is the one of the sign-up, n the one set by   *)
(* the n-th reset.                                                         *)
(***************************************************************************)
EXTENDS Naturals

CONSTANTS
    Requests,          \* requests in flight at a time
    MaxSessions,       \* bound on the sessions that are created
    MaxTokens,         \* bound on the tokens that are issued
    MaxResets          \* bound on the password resets

ASSUME AuthAssumption == {MaxSessions, MaxTokens, MaxResets} \subseteq Nat

VARIABLES
    account,           \* the row of users
    sessions,          \* rows of sessions, by order of creation
    tokens,            \* rows of tokens, by order of issue
    request,           \* per request: operation, step and what it has read
    resets,            \* number of passwords set by a reset (history)
    torn,              \* a request has ended between its write to the account
                       \*   and its revocation of the sessions (history)
    overwritten        \* a rehash was under way at the latest reset (history)

vars == <<account, sessions, tokens, request, resets, torn, overwritten>>

SessionIds == 1 .. MaxSessions
TokenIds == 1 .. MaxTokens
TokenPurpose == {"email_verification", "magic_link", "password_reset"}
Operation ==
    {"signUp", "signIn", "requestMagicLink", "forgotPassword", "verifyEmail",
     "consumeMagicLink", "resetPassword", "revokeSession", "revokeOthers",
     "deleteAccount"}
Step ==
    {"idle", "insert", "rehash", "issue", "verify", "hash", "revoke", "session",
     "revokeOne", "revokeOthers", "disable"}

\* A row that was deleted or has expired is gone: no query returns it.
RowState == {"absent", "live", "gone"}

\* token: the one that paid for the session, 0 for a password; epoch: the resets
\* there had been when password or token was checked; late: all sessions have
\* been revoked since that check.
SessionType ==
    [state : RowState, token : 0 .. MaxTokens, epoch : 0 .. MaxResets,
     late : BOOLEAN]
TokenType == [state : RowState, purpose : TokenPurpose]
AccountType ==
    [exists : BOOLEAN, password : 0 .. MaxResets, outdated : BOOLEAN,
     verified : BOOLEAN, disabled : BOOLEAN]
RequestType ==
    [op : Operation, step : Step, password : 0 .. MaxResets, verified : BOOLEAN,
     token : 0 .. MaxTokens, session : 0 .. MaxSessions, epoch : 0 .. MaxResets,
     late : BOOLEAN]

NoRequest ==
    [op |-> "signUp", step |-> "idle", password |-> 0, verified |-> FALSE,
     token |-> 0, session |-> 0, epoch |-> 0, late |-> FALSE]

\* Nobody has signed up, or an account dates from older Argon2 parameters.
Init ==
    /\ \E registered \in BOOLEAN :
          account = [exists |-> registered, password |-> 0,
                     outdated |-> registered, verified |-> registered,
                     disabled |-> FALSE]
    /\ sessions = [s \in SessionIds |->
          [state |-> "absent", token |-> 0, epoch |-> 0, late |-> FALSE]]
    /\ tokens = [t \in TokenIds |->
          [state |-> "absent", purpose |-> "magic_link"]]
    /\ request = [r \in Requests |-> NoRequest]
    /\ resets = 0
    /\ torn = FALSE
    /\ overwritten = FALSE

Idle(r) == request[r].step = "idle"
At(r, step) == request[r].step = step
Begin(r, op, step) ==
    request' = [request EXCEPT ![r] =
        [NoRequest EXCEPT !.op = op, !.step = step, !.epoch = resets]]
Goto(r, step) == request' = [request EXCEPT ![r].step = step]
Finish(r) == request' = [request EXCEPT ![r] = NoRequest]

\* Mutant: the join is not asked about disabledAt.
AuthenticatesDisabled(s) == sessions[s].state = "live"

\* getSession: the row is there, has not expired, and its user is not disabled.
Authenticates(s) == sessions[s].state = "live" /\ ~account.disabled

-------------------------------------------------------------------------------
(***************************************************************************)
(* Asking for a link: sign-up, magic link, forgotten password.             *)
(***************************************************************************)

\* For an address that is taken, whatever its account, a new verification link
\* is mailed.
SignUpLook(r) ==
    /\ Idle(r)
    /\ Begin(r, "signUp", IF account.exists THEN "issue" ELSE "insert")
    /\ UNCHANGED <<account, sessions, tokens, resets, torn, overwritten>>

\* The unique index on the address refuses the second of two sign-ups.
SignUpInsert(r) ==
    /\ At(r, "insert")
    /\ ~account.exists
    /\ account' = [account EXCEPT !.exists = TRUE]
    /\ Goto(r, "issue")
    /\ UNCHANGED <<sessions, tokens, resets, torn, overwritten>>

MagicLinkLook(r) ==
    /\ Idle(r)
    /\ account.exists /\ account.verified /\ ~account.disabled
    /\ Begin(r, "requestMagicLink", "issue")
    /\ UNCHANGED <<account, sessions, tokens, resets, torn, overwritten>>

ForgotPasswordLook(r) ==
    /\ Idle(r)
    /\ account.exists /\ ~account.disabled
    /\ Begin(r, "forgotPassword", "issue")
    /\ UNCHANGED <<account, sessions, tokens, resets, torn, overwritten>>

\* Mutant: the purpose is named like the action.
PurposeByAction(op) == op

Purpose(op) ==
    CASE op = "requestMagicLink" -> "magic_link"
      [] op = "forgotPassword" -> "password_reset"
      [] OTHER -> "email_verification"

\* issueToken leaves earlier links of the same purpose alive.
Issue(r) ==
    /\ At(r, "issue")
    /\ \E t \in TokenIds :
          /\ tokens[t].state = "absent"
          /\ \A u \in TokenIds : u < t => tokens[u].state # "absent"
          /\ tokens' = [tokens EXCEPT ![t] =
                [state |-> "live", purpose |-> Purpose(request[r].op)]]
    /\ Finish(r)
    /\ UNCHANGED <<account, sessions, resets, torn, overwritten>>

-------------------------------------------------------------------------------
(***************************************************************************)
(* Sign-in by password.                                                    *)
(***************************************************************************)

\* Where the action goes once rehashing is settled: a verified address gets a
\* session, any other a new verification link.
AfterPassword(verified) == IF verified THEN "session" ELSE "issue"

\* Mutant: the promise of verifyPassword is not awaited, any password passes.
SignInReadAnyPassword(r) ==
    /\ Idle(r)
    /\ account.exists /\ ~account.disabled
    /\ \E p \in 0 .. MaxResets :
          request' = [request EXCEPT ![r] =
             [NoRequest EXCEPT
                 !.op = "signIn", !.password = p,
                 !.verified = account.verified, !.epoch = resets,
                 !.step = IF account.outdated THEN "rehash"
                          ELSE AfterPassword(account.verified)]]
    /\ UNCHANGED <<account, sessions, tokens, resets, torn, overwritten>>

\* The row is read once; the password entered is the one whose hash it holds.
SignInRead(r) ==
    /\ Idle(r)
    /\ account.exists /\ ~account.disabled
    /\ request' = [request EXCEPT ![r] =
          [NoRequest EXCEPT
              !.op = "signIn", !.password = account.password,
              !.verified = account.verified, !.epoch = resets,
              !.step = IF account.outdated THEN "rehash"
                       ELSE AfterPassword(account.verified)]]
    /\ UNCHANGED <<account, sessions, tokens, resets, torn, overwritten>>

\* Hashes the password entered and stores it by user id.
Rehash(r) ==
    /\ At(r, "rehash")
    /\ account' = [account EXCEPT !.password = request[r].password,
                                  !.outdated = FALSE]
    /\ Goto(r, AfterPassword(request[r].verified))
    /\ UNCHANGED <<sessions, tokens, resets, torn, overwritten>>

-------------------------------------------------------------------------------
(***************************************************************************)
(* Following a link.                                                       *)
(***************************************************************************)

\* The statements that follow consumeToken, for each purpose.
AfterToken(purpose) ==
    CASE purpose = "email_verification" -> "verify"
      [] purpose = "password_reset" -> "hash"
      [] purpose = "magic_link" -> "session"

LinkOp(purpose) ==
    CASE purpose = "email_verification" -> "verifyEmail"
      [] purpose = "password_reset" -> "resetPassword"
      [] purpose = "magic_link" -> "consumeMagicLink"

\* Mutant: the token is looked up here and deleted at leisure.
ConsumeByLookup(r) ==
    /\ Idle(r)
    /\ \E t \in TokenIds :
          /\ tokens[t].state = "live"
          /\ request' = [request EXCEPT ![r] =
                [NoRequest EXCEPT
                    !.op = LinkOp(tokens[t].purpose), !.token = t, !.epoch = resets,
                    !.step = AfterToken(tokens[t].purpose)]]
    /\ UNCHANGED <<account, sessions, tokens, resets, torn, overwritten>>

\* One DELETE ... RETURNING: a link works once, and nobody asks whether the
\* account has been disabled since.
Consume(r) ==
    /\ Idle(r)
    /\ \E t \in TokenIds :
          /\ tokens[t].state = "live"
          /\ tokens' = [tokens EXCEPT ![t].state = "gone"]
          /\ request' = [request EXCEPT ![r] =
                [NoRequest EXCEPT
                    !.op = LinkOp(tokens[t].purpose), !.token = t, !.epoch = resets,
                    !.step = AfterToken(tokens[t].purpose)]]
    /\ UNCHANGED <<account, sessions, resets, torn, overwritten>>

MarkVerified(r) ==
    /\ At(r, "verify")
    /\ account' = [account EXCEPT !.verified = TRUE]
    /\ Goto(r, "session")
    /\ UNCHANGED <<sessions, tokens, resets, torn, overwritten>>

\* Mutant: the sessions are left to expire.
SetPasswordOnly(r) ==
    /\ At(r, "hash")
    /\ resets < MaxResets
    /\ resets' = resets + 1
    /\ account' = [account EXCEPT !.password = resets + 1, !.outdated = FALSE]
    /\ request' = [request EXCEPT ![r].step = "session", ![r].epoch = resets + 1]
    /\ overwritten' = \E q \in Requests : At(q, "rehash")
    /\ UNCHANGED <<sessions, tokens, torn>>

SetPassword(r) ==
    /\ At(r, "hash")
    /\ resets < MaxResets
    /\ resets' = resets + 1
    /\ account' = [account EXCEPT !.password = resets + 1, !.outdated = FALSE]
    /\ request' = [request EXCEPT ![r].step = "revoke", ![r].epoch = resets + 1]
    /\ overwritten' = \E q \in Requests : At(q, "rehash")
    /\ UNCHANGED <<sessions, tokens, torn>>

-------------------------------------------------------------------------------
(***************************************************************************)
(* Sessions.                                                               *)
(***************************************************************************)

End(S) ==
    sessions' = [s \in SessionIds |->
        IF s \in S /\ sessions[s].state = "live"
        THEN [sessions[s] EXCEPT !.state = "gone", !.epoch = 0, !.late = FALSE]
        ELSE sessions[s]]

\* revokeAllForUser; the sessions that requests in flight will still create
\* come late for it.
RevokeAll(r) ==
    /\ At(r, "revoke")
    /\ End(SessionIds)
    /\ request' = [q \in Requests |->
          IF q = r
          THEN IF request[r].op = "resetPassword"
               THEN [request[r] EXCEPT !.step = "session"] ELSE NoRequest
          ELSE IF Idle(q) THEN request[q] ELSE [request[q] EXCEPT !.late = TRUE]]
    /\ UNCHANGED <<account, tokens, resets, torn, overwritten>>

\* createSession, under an id nobody has had; the cookie is set to it.
CreateSession(r) ==
    /\ At(r, "session")
    /\ \E s \in SessionIds :
          /\ sessions[s].state = "absent"
          /\ \A u \in SessionIds : u < s => sessions[u].state # "absent"
          /\ sessions' = [sessions EXCEPT ![s] =
                [state |-> "live", token |-> request[r].token,
                 epoch |-> request[r].epoch, late |-> request[r].late]]
    /\ Finish(r)
    /\ UNCHANGED <<account, tokens, resets, torn, overwritten>>

\* The forms of the account page, sent with the cookie of a session.  The
\* current session has no button; a row that is gone would be revoked in vain.
SubmitRevoke(r) ==
    /\ Idle(r)
    /\ \E s, target \in SessionIds :
          /\ s # target
          /\ Authenticates(s)
          /\ sessions[target].state = "live"
          /\ request' = [request EXCEPT ![r] = [NoRequest EXCEPT
                !.op = "revokeSession", !.step = "revokeOne", !.session = target]]
    /\ UNCHANGED <<account, sessions, tokens, resets, torn, overwritten>>

SubmitRevokeOthers(r) ==
    /\ Idle(r)
    /\ \E s \in SessionIds :
          /\ Authenticates(s)
          /\ request' = [request EXCEPT ![r] = [NoRequest EXCEPT
                !.op = "revokeOthers", !.step = "revokeOthers", !.session = s]]
    /\ UNCHANGED <<account, sessions, tokens, resets, torn, overwritten>>

SubmitDeletion(r) ==
    /\ Idle(r)
    /\ \E s \in SessionIds : Authenticates(s)
    /\ Begin(r, "deleteAccount", "disable")
    /\ UNCHANGED <<account, sessions, tokens, resets, torn, overwritten>>

RevokeSession(r) ==
    /\ At(r, "revokeOne")
    /\ End({request[r].session})
    /\ Finish(r)
    /\ UNCHANGED <<account, tokens, resets, torn, overwritten>>

RevokeOtherSessions(r) ==
    /\ At(r, "revokeOthers")
    /\ End(SessionIds \ {request[r].session})
    /\ Finish(r)
    /\ UNCHANGED <<account, tokens, resets, torn, overwritten>>

Disable(r) ==
    /\ At(r, "disable")
    /\ account' = [account EXCEPT !.disabled = TRUE]
    /\ Goto(r, "revoke")
    /\ UNCHANGED <<sessions, tokens, resets, torn, overwritten>>

\* The sign-out page deletes the row its cookie names; a row also expires.
SignOut(s) ==
    /\ sessions[s].state = "live"
    /\ End({s})
    /\ UNCHANGED <<account, tokens, request, resets, torn, overwritten>>

ExpireToken(t) ==
    /\ tokens[t].state = "live"
    /\ tokens' = [tokens EXCEPT ![t].state = "gone"]
    /\ UNCHANGED <<account, sessions, request, resets, torn, overwritten>>

\* A query throws, or the process stops.
RequestFails(r) ==
    /\ ~Idle(r)
    /\ torn' = (torn \/ At(r, "revoke"))
    /\ Finish(r)
    /\ UNCHANGED <<account, sessions, tokens, resets, overwritten>>

-------------------------------------------------------------------------------
LinkRequest(r) ==
    \/ SignUpLook(r)
    \/ SignUpInsert(r)
    \/ MagicLinkLook(r)
    \/ ForgotPasswordLook(r)
    \/ Issue(r)

SignIn(r) ==
    \/ SignInRead(r)
    \/ Rehash(r)
    \/ Consume(r)
    \/ MarkVerified(r)
    \/ SetPassword(r)
    \/ CreateSession(r)

Revocation(r) ==
    \/ RevokeAll(r)
    \/ SubmitRevoke(r)
    \/ SubmitRevokeOthers(r)
    \/ SubmitDeletion(r)
    \/ RevokeSession(r)
    \/ RevokeOtherSessions(r)
    \/ Disable(r)

Next ==
    \/ \E r \in Requests :
          LinkRequest(r) \/ SignIn(r) \/ Revocation(r) \/ RequestFails(r)
    \/ \E s \in SessionIds : SignOut(s)
    \/ \E t \in TokenIds : ExpireToken(t)

Spec == Init /\ [][Next]_vars

-------------------------------------------------------------------------------
(***************************************************************************)
(* Properties.                                                             *)
(***************************************************************************)

\* Types.
TypeOK ==
    /\ account \in AccountType
    /\ sessions \in [SessionIds -> SessionType]
    /\ tokens \in [TokenIds -> TokenType]
    /\ request \in [Requests -> RequestType]
    /\ resets \in 0 .. MaxResets
    /\ torn \in BOOLEAN
    /\ overwritten \in BOOLEAN

\* A link pays for at most one session, and for none while it can still be used.
LinkSpentOnce ==
    \A s \in SessionIds :
        sessions[s].token # 0 =>
            /\ tokens[sessions[s].token].state = "gone"
            /\ \A u \in SessionIds \ {s} : sessions[u].token # sessions[s].token

\* Once a reset has revoked the sessions, those that live were opened on a
\* password or link checked after it, or by a request that had checked before
\* the revocation and was still under way.  The exception, a reset that failed
\* between its two statements, is named by torn.
ResetEndsSessions ==
    (~torn /\ \A r \in Requests : ~At(r, "revoke")) =>
        \A s \in SessionIds :
            sessions[s].state = "live" =>
                sessions[s].late \/ sessions[s].epoch = resets

\* The password is the one of the latest reset, unless a sign-in that had
\* verified the password before was about to store it again under new parameters.
PasswordIsLatest == overwritten \/ account.password = resets

\* Only a reset link opens a session for an address that was never verified.
UnverifiedEnterByReset ==
    \A s \in SessionIds :
        sessions[s].state = "live" /\ ~account.verified =>
            /\ sessions[s].token # 0
            /\ tokens[sessions[s].token].purpose = "password_reset"

\* Every session has been earned: no link pays for two, and an address that was
\* never verified enters by a reset alone.
SessionsAreEarned == LinkSpentOnce /\ UnverifiedEnterByReset

\* The refinement: what getSession answers is all there is to access.
Access == INSTANCE AccessContract WITH
    Ids <- SessionIds,
    used <- {s \in SessionIds : sessions[s].state # "absent"},
    open <- {s \in SessionIds : Authenticates(s)},
    closed <- account.disabled

\* Access follows AccessContract: no id is granted twice or comes back, and a
\* disabled account has no access, although links sent before still create rows.
AccessContractHolds == Access!Spec
===============================================================================
