---------------------------- MODULE GroupMembership ----------------------------
(***************************************************************************)
(* The members of one group and their roles.  Pages offer forms according  *)
(* to the roles they were rendered with; a server action looks the roles   *)
(* up again and then writes by user id, in a statement of its own.  Only   *)
(* transferOwnership writes in a transaction, and it too checks before it  *)
(* begins.  Requests in flight therefore overtake each other.              *)
(***************************************************************************)
EXTENDS Naturals

CONSTANTS
    Users,
    Creator,           \* the user whose createGroup made the group
    Requests,          \* pages open and requests in flight at a time
    MaxInvites         \* bound on the invitations that are issued

ASSUME GroupAssumption ==
    /\ Creator \in Users
    /\ MaxInvites \in Nat

None == "none"

VARIABLES
    role,              \* group_members: role of each user, None without a row
    invites,           \* tokens of purpose group_invite, in order of issue
    admissions,        \* per invitation, the INSERTs made on its strength
                       \*   (history variable)
    request,           \* per request: the form submitted and the step reached
    overtaken          \* a transfer has committed between the check and the
                       \*   write of a request it collides with (history)

vars == <<role, invites, admissions, request, overtaken>>

Role == {"owner", "moderator", "member"}
InviteRole == {"member", "moderator"}
Invites == 1 .. MaxInvites
InviteState == {"unissued", "live", "claimed", "void"}
Operation ==
    {"join", "leave", "setRole", "transfer", "remove", "invite", "claim", "revoke"}
Step == {"idle", "sent", "target", "write", "insert"}

\* A form: who acts, on whom, the role to give, the invitation it is about.
Form(op, actor, target, newRole, invite) ==
    [op |-> op, actor |-> actor, target |-> target, role |-> newRole,
     invite |-> invite]
NoRequest ==
    [step |-> "idle", form |-> Form("join", Creator, Creator, None, 0)]

\* createGroup makes its creator the owner.
Init ==
    /\ role = [u \in Users |-> IF u = Creator THEN "owner" ELSE None]
    /\ invites = [i \in Invites |->
          [user |-> Creator, role |-> "member", state |-> "unissued"]]
    /\ admissions = [i \in Invites |-> 0]
    /\ request = [r \in Requests |-> NoRequest]
    /\ overtaken = FALSE

Goto(r, step) == request' = [request EXCEPT ![r].step = step]
Finish(r) == request' = [request EXCEPT ![r] = NoRequest]
At(r, op, step) == request[r].form.op = op /\ request[r].step = step

-------------------------------------------------------------------------------
(***************************************************************************)
(* Pages.  A form stays on the screen while roles change behind it.        *)
(***************************************************************************)

\* The group page: join, or leave unless owner.
GroupPageForms ==
    {Form("join", u, u, None, 0) : u \in {v \in Users : role[v] = None}}
    \union
    {Form("leave", u, u, None, 0) :
        u \in {v \in Users : role[v] \in {"member", "moderator"}}}

\* The members page lets the owner manage everyone but owners; the owner is
\* the one offered to invite moderators.
MembersPageForms ==
    LET Owners == {v \in Users : role[v] = "owner"}
        Staff == {v \in Users : role[v] \in {"owner", "moderator"}}
        Managed == {v \in Users : role[v] \in {"member", "moderator"}}
    IN  {Form("setRole", o, u, IF role[u] = "member" THEN "moderator" ELSE "member", 0) :
            o \in Owners, u \in Managed}
        \union {Form(op, o, u, None, 0) :
                   op \in {"transfer", "remove"}, o \in Owners, u \in Managed}
        \union {Form("invite", s, u, "member", 0) : s \in Staff, u \in Users}
        \union {Form("invite", o, u, "moderator", 0) : o \in Owners, u \in Users}
        \union {Form("revoke", s, s, None, i) :
                   s \in Staff, i \in {j \in Invites : invites[j].state = "live"}}

\* The page behind an invitation link offers it to the account it was sent to;
\* by the time the form is submitted the browser may be signed in as another.
InvitePageForms ==
    {Form("claim", u, u, None, i) :
        u \in Users, i \in {j \in Invites : invites[j].state = "live"}}

Submit(r) ==
    /\ request[r].step = "idle"
    /\ \E f \in GroupPageForms \union MembersPageForms \union InvitePageForms :
          request' = [request EXCEPT ![r] = [step |-> "sent", form |-> f]]
    /\ UNCHANGED <<role, invites, admissions, overtaken>>

-------------------------------------------------------------------------------
(***************************************************************************)
(* joinGroupAction and leaveGroupAction.                                   *)
(***************************************************************************)

\* INSERT ... ON CONFLICT DO NOTHING.
InsertMember(u, newRole) ==
    role' = [role EXCEPT ![u] = IF @ = None THEN newRole ELSE @]

Join(r) ==
    /\ At(r, "join", "sent")
    /\ InsertMember(request[r].form.actor, "member")
    /\ Finish(r)
    /\ UNCHANGED <<invites, admissions, overtaken>>

CheckLeave(r) ==
    /\ At(r, "leave", "sent")
    /\ role[request[r].form.actor] \in {"member", "moderator"}
    /\ Goto(r, "write")
    /\ UNCHANGED <<role, invites, admissions, overtaken>>

-------------------------------------------------------------------------------
(***************************************************************************)
(* setMemberRole, transferOwnership, removeMemberAction.                   *)
(***************************************************************************)

\* Mutant: moderators pass, as they do in the other handlers of the page.
CheckOwnerOrModerator(r) ==
    /\ request[r].step = "sent"
    /\ request[r].form.op \in {"setRole", "transfer", "remove"}
    /\ role[request[r].form.actor] \in {"owner", "moderator"}
    /\ Goto(r, IF request[r].form.op = "setRole" THEN "target" ELSE "write")
    /\ UNCHANGED <<role, invites, admissions, overtaken>>

CheckOwner(r) ==
    /\ request[r].step = "sent"
    /\ request[r].form.op \in {"setRole", "transfer", "remove"}
    /\ role[request[r].form.actor] = "owner"
    /\ Goto(r, IF request[r].form.op = "setRole" THEN "target" ELSE "write")
    /\ UNCHANGED <<role, invites, admissions, overtaken>>

\* setMemberRole also looks the target up; any row will do.
CheckTarget(r) ==
    /\ At(r, "setRole", "target")
    /\ role[request[r].form.target] # None
    /\ Goto(r, "write")
    /\ UNCHANGED <<role, invites, admissions, overtaken>>

\* UPDATE by group and user: without a row it writes nothing.
WriteRole(r) ==
    /\ At(r, "setRole", "write")
    /\ role' = [role EXCEPT ![request[r].form.target] =
                   IF @ = None THEN None ELSE request[r].form.role]
    /\ Finish(r)
    /\ UNCHANGED <<invites, admissions, overtaken>>

\* Request q, past its check, is about to write what transfer r writes too.
Collides(q, r) ==
    /\ q # r
    /\ request[q].form.op \in {"leave", "setRole", "transfer", "remove"}
    /\ request[q].step \in {"target", "write"}
    /\ \/ request[q].form.op = "transfer"
       \/ request[q].form.target = request[r].form.target

\* The transaction: upsert the new owner, demote the old one if still there.
Transfer(r) ==
    /\ At(r, "transfer", "write")
    /\ role' = [role EXCEPT
          ![request[r].form.target] = "owner",
          ![request[r].form.actor] = IF @ = None THEN None ELSE "member"]
    /\ overtaken' = (overtaken \/ \E q \in Requests : Collides(q, r))
    /\ Finish(r)
    /\ UNCHANGED <<invites, admissions>>

\* The DELETE of leave and of remove.
DeleteMember(r) ==
    /\ At(r, "leave", "write") \/ At(r, "remove", "write")
    /\ role' = [role EXCEPT ![request[r].form.target] = None]
    /\ Finish(r)
    /\ UNCHANGED <<invites, admissions, overtaken>>

-------------------------------------------------------------------------------
(***************************************************************************)
(* inviteToGroup, revokeInvite, claimInvite.                               *)
(***************************************************************************)

CheckStaff(r) ==
    /\ At(r, "invite", "sent") \/ At(r, "revoke", "sent")
    /\ request[r].form.op = "revoke" =>
          invites[request[r].form.invite].state = "live"
    /\ role[request[r].form.actor] \in {"owner", "moderator"}
    /\ Goto(r, "write")
    /\ UNCHANGED <<role, invites, admissions, overtaken>>

\* Mutant: the payload is the group alone.
IssueWithoutRole(r) ==
    /\ At(r, "invite", "write")
    /\ \E i \in Invites :
          /\ invites[i].state = "unissued"
          /\ invites' = [invites EXCEPT ![i] =
                [user |-> request[r].form.target, role |-> None, state |-> "live"]]
    /\ Finish(r)
    /\ UNCHANGED <<role, admissions, overtaken>>

\* issueToken, with the role in the payload.
Issue(r) ==
    /\ At(r, "invite", "write")
    /\ \E i \in Invites :
          /\ invites[i].state = "unissued"
          /\ \A j \in Invites : j < i => invites[j].state # "unissued"
          /\ invites' = [invites EXCEPT ![i] =
                [user |-> request[r].form.target, role |-> request[r].form.role,
                 state |-> "live"]]
    /\ Finish(r)
    /\ UNCHANGED <<role, admissions, overtaken>>

\* The row is deleted by id, if it is still there.  No page has a button for
\* it yet: the action takes the raw token, which only the inviter has seen.
Revoke(r) ==
    /\ At(r, "revoke", "write")
    /\ invites' = [invites EXCEPT ![request[r].form.invite].state =
                      IF @ = "live" THEN "void" ELSE @]
    /\ Finish(r)
    /\ UNCHANGED <<role, admissions, overtaken>>

Expire(i) ==
    /\ invites[i].state = "live"
    /\ invites' = [invites EXCEPT ![i].state = "void"]
    /\ UNCHANGED <<role, admissions, request, overtaken>>

\* Mutant: the claim relies on the page, which has seen the token alive.
ConsumePeeked(r) ==
    /\ At(r, "claim", "sent")
    /\ invites' = [invites EXCEPT ![request[r].form.invite].state =
                      IF @ = "live" THEN "claimed" ELSE @]
    /\ Goto(r, "insert")
    /\ UNCHANGED <<role, admissions, overtaken>>

\* consumeToken: one DELETE ... RETURNING.  Only then is the user compared, so
\* a claim from the wrong account uses the invitation up.
Consume(r) ==
    LET i == request[r].form.invite
    IN  /\ At(r, "claim", "sent")
        /\ invites[i].state = "live"
        /\ invites' = [invites EXCEPT ![i].state = "claimed"]
        /\ \/ invites[i].user = request[r].form.actor /\ Goto(r, "insert")
           \/ invites[i].user # request[r].form.actor /\ Finish(r)
        /\ UNCHANGED <<role, admissions, overtaken>>

\* A member keeps the role they have.
Admit(r) ==
    /\ At(r, "claim", "insert")
    /\ InsertMember(request[r].form.actor, invites[request[r].form.invite].role)
    /\ admissions' = [admissions EXCEPT ![request[r].form.invite] = @ + 1]
    /\ Finish(r)
    /\ UNCHANGED <<invites, overtaken>>

\* A check refuses, a query throws, the page is closed or the app stops.
RequestEnds(r) ==
    /\ request[r].step # "idle"
    /\ Finish(r)
    /\ UNCHANGED <<role, invites, admissions, overtaken>>

-------------------------------------------------------------------------------
RoleStep(r) ==
    \/ Join(r)
    \/ CheckLeave(r)
    \/ CheckOwner(r)
    \/ CheckTarget(r)
    \/ WriteRole(r)
    \/ Transfer(r)
    \/ DeleteMember(r)

InviteStep(r) ==
    \/ CheckStaff(r)
    \/ Issue(r)
    \/ Revoke(r)
    \/ Consume(r)
    \/ Admit(r)

Next ==
    \/ \E r \in Requests : Submit(r) \/ RoleStep(r) \/ InviteStep(r) \/ RequestEnds(r)
    \/ \E i \in Invites : Expire(i)

Spec == Init /\ [][Next]_vars

-------------------------------------------------------------------------------
(***************************************************************************)
(* Properties.                                                             *)
(***************************************************************************)

InviteType == [user : Users, role : InviteRole, state : InviteState]
FormType ==
    [op : Operation, actor : Users, target : Users,
     role : InviteRole \union {None}, invite : 0 .. MaxInvites]
RequestType == [step : Step, form : FormType]

\* Types; the role of an invitation is never that of an owner.
TypeOK ==
    /\ role \in [Users -> Role \union {None}]
    /\ invites \in [Invites -> InviteType]
    /\ admissions \in [Invites -> Nat]
    /\ request \in [Requests -> RequestType]
    /\ overtaken \in BOOLEAN

\* A group has exactly one owner as long as no transfer has committed between
\* the check and the write of a request about the same person, or of another
\* transfer.  Stale pages, and every other race of joining, leaving, promoting,
\* removing and claiming, do no harm.
OneOwner ==
    ~overtaken =>
        \E o \in Users : \A u \in Users : role[u] = "owner" <=> u = o

\* An invitation admits at most one request, and none once it is revoked or
\* expired, whatever pages still offer it.
InviteSpentOnce ==
    \A i \in Invites :
        /\ admissions[i] <= 1
        /\ invites[i].state # "claimed" => admissions[i] = 0

\* g/_actions.ts, leaveGroupAction: "Owners cannot leave; they must transfer
\* ownership first".
OwnersCannotLeave ==
    [][\A r \in Requests :
          LET u == request[r].form.actor
          IN  At(r, "leave", "write") /\ role[u] = "owner"
              /\ request'[r].step = "idle" => role'[u] # None]_vars
===============================================================================
