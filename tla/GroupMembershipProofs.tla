------------------------- MODULE GroupMembershipProofs -------------------------
(***************************************************************************)
(* Proofs about GroupMembership, for any users, any number of requests in  *)
(* flight and any number of invitations.                                   *)
(*                                                                         *)
(* OneOwner is not inductive: it says nothing of a request that has passed *)
(* its check and will write by user id.  PendingInv says what such a       *)
(* request still knows, as long as no transfer has collided with it: its   *)
(* target is not the owner or, if it is a transfer, its actor is.          *)
(***************************************************************************)
EXTENDS GroupMembership, TLAPS

\* What the pages put into a form, and how far each operation goes.
FormInv ==
    \A r \in Requests :
        LET f == request[r].form
            step == request[r].step
        IN  /\ f.op \in {"setRole", "transfer", "remove"} => f.target # f.actor
            /\ f.op = "leave" => f.target = f.actor
            /\ f.op \in {"setRole", "invite"} => f.role \in InviteRole
            /\ f.op \in {"claim", "revoke"} => f.invite \in Invites
            /\ step = "target" => f.op = "setRole"
            /\ step = "insert" => f.op = "claim"

\* What a request past its check knows about the owner.
PendingInv ==
    ~overtaken =>
        \A r \in Requests :
            request[r].step \in {"target", "write"} =>
                /\ request[r].form.op \in {"leave", "setRole", "remove"} =>
                      role[request[r].form.target] # "owner"
                /\ request[r].form.op = "transfer" =>
                      role[request[r].form.actor] = "owner"

\* Request r has consumed invitation i and has yet to insert its row.
Admitting(r, i) == request[r].step = "insert" /\ request[r].form.invite = i

\* A claimed invitation is with one request, or has been used.
InviteInv ==
    \A i \in Invites :
        /\ admissions[i] \in {0, 1}
        /\ \A r \in Requests :
              Admitting(r, i) => invites[i].state = "claimed" /\ admissions[i] = 0
        /\ \A q, r \in Requests : Admitting(q, i) /\ Admitting(r, i) => q = r
        /\ admissions[i] = 1 => invites[i].state = "claimed"

IInv ==
    /\ TypeOK
    /\ FormInv
    /\ OneOwner
    /\ PendingInv
    /\ InviteInv

-------------------------------------------------------------------------------
(***************************************************************************)
(* The two ways a request moves.                                           *)
(***************************************************************************)

LEMMA NoRequestType == NoRequest \in RequestType /\ NoRequest.step = "idle"
                           /\ NoRequest.form.op = "join"
  BY GroupAssumption
     DEF NoRequest, RequestType, Form, FormType, Operation, Step

LEMMA GotoEffect ==
    ASSUME request \in [Requests -> RequestType], NEW r \in Requests,
           NEW s \in Step, Goto(r, s)
    PROVE  /\ request' \in [Requests -> RequestType]
           /\ request'[r].step = s
           /\ request'[r].form = request[r].form
           /\ \A q \in Requests : q # r => request'[q] = request[q]
  BY DEF Goto, RequestType

LEMMA FinishEffect ==
    ASSUME request \in [Requests -> RequestType], NEW r \in Requests, Finish(r)
    PROVE  /\ request' \in [Requests -> RequestType]
           /\ request'[r].step = "idle"
           /\ request'[r].form.op = "join"
           /\ \A q \in Requests : q # r => request'[q] = request[q]
  BY NoRequestType DEF Finish

\* Types of a form's fields.
LEMMA FormFields ==
    ASSUME request \in [Requests -> RequestType]
    PROVE  \A r \in Requests :
               /\ request[r].step \in Step
               /\ request[r].form.op \in Operation
               /\ request[r].form.actor \in Users
               /\ request[r].form.target \in Users
               /\ request[r].form.role \in InviteRole \union {None}
               /\ request[r].form.invite \in 0 .. MaxInvites
  BY DEF RequestType, FormType

\* What the pages offer.
LEMMA PageForms ==
    ASSUME TypeOK,
           NEW f \in GroupPageForms \union MembersPageForms \union InvitePageForms
    PROVE  /\ f \in FormType
           /\ f.op \in {"setRole", "transfer", "remove"} => f.target # f.actor
           /\ f.op = "leave" => f.target = f.actor
           /\ f.op \in {"setRole", "invite"} => f.role \in InviteRole
           /\ f.op \in {"claim", "revoke"} => f.invite \in Invites
  <1>1. \A op, a, t, g, i : /\ Form(op, a, t, g, i).op = op
                            /\ Form(op, a, t, g, i).actor = a
                            /\ Form(op, a, t, g, i).target = t
                            /\ Form(op, a, t, g, i).role = g
                            /\ Form(op, a, t, g, i).invite = i
    BY DEF Form
  <1>2. \A op \in Operation, a \in Users, t \in Users,
           g \in InviteRole \union {None}, i \in 0 .. MaxInvites :
              Form(op, a, t, g, i) \in FormType
    BY DEF Form, FormType
  <1>3. 0 \in 0 .. MaxInvites /\ \A i \in Invites : i \in 0 .. MaxInvites
    BY GroupAssumption DEF Invites
  <1>4. CASE f \in GroupPageForms
    <2>1. PICK u \in Users :
              f = Form("join", u, u, None, 0) \/ f = Form("leave", u, u, None, 0)
      BY <1>4 DEF GroupPageForms
    <2>2. QED  BY <2>1, <1>1, <1>2, <1>3 DEF Operation
  <1>5. CASE f \in InvitePageForms
    <2>1. PICK u \in Users, i \in Invites : f = Form("claim", u, u, None, i)
      BY <1>5 DEF InvitePageForms
    <2>2. QED  BY <2>1, <1>1, <1>2, <1>3 DEF Operation
  <1>6. CASE f \in MembersPageForms
    <2>1. \/ \E o, u \in Users, g \in InviteRole :
                role[o] = "owner" /\ role[u] # "owner"
                    /\ f = Form("setRole", o, u, g, 0)
          \/ \E op \in {"transfer", "remove"}, o, u \in Users :
                role[o] = "owner" /\ role[u] # "owner"
                    /\ f = Form(op, o, u, None, 0)
          \/ \E s, u \in Users, g \in InviteRole : f = Form("invite", s, u, g, 0)
          \/ \E s \in Users, i \in Invites : f = Form("revoke", s, s, None, i)
      BY <1>6 DEF MembersPageForms, InviteRole
    <2>2. CASE \E o, u \in Users, g \in InviteRole :
                  role[o] = "owner" /\ role[u] # "owner"
                      /\ f = Form("setRole", o, u, g, 0)
      BY <2>2, <1>1, <1>2, <1>3 DEF Operation
    <2>3. CASE \E op \in {"transfer", "remove"}, o, u \in Users :
                  role[o] = "owner" /\ role[u] # "owner"
                      /\ f = Form(op, o, u, None, 0)
      BY <2>3, <1>1, <1>2, <1>3 DEF Operation
    <2>4. CASE \E s, u \in Users, g \in InviteRole : f = Form("invite", s, u, g, 0)
      BY <2>4, <1>1, <1>2, <1>3 DEF Operation
    <2>5. CASE \E s \in Users, i \in Invites : f = Form("revoke", s, s, None, i)
      BY <2>5, <1>1, <1>2, <1>3 DEF Operation
    <2>6. QED  BY <2>1, <2>2, <2>3, <2>4, <2>5
  <1>7. QED  BY <1>4, <1>5, <1>6

\* The page of Submit.
LEMMA SubmitEffect ==
    ASSUME TypeOK, NEW r \in Requests, Submit(r)
    PROVE  /\ request' \in [Requests -> RequestType]
           /\ request'[r].step = "sent"
           /\ request'[r].form.op \in {"setRole", "transfer", "remove"} =>
                 request'[r].form.target # request'[r].form.actor
           /\ request'[r].form.op = "leave" =>
                 request'[r].form.target = request'[r].form.actor
           /\ request'[r].form.op \in {"setRole", "invite"} =>
                 request'[r].form.role \in InviteRole
           /\ request'[r].form.op \in {"claim", "revoke"} =>
                 request'[r].form.invite \in Invites
           /\ \A q \in Requests : q # r => request'[q] = request[q]
  <1>1. PICK f \in GroupPageForms \union MembersPageForms \union InvitePageForms :
            request' = [request EXCEPT ![r] = [step |-> "sent", form |-> f]]
    BY DEF Submit
  <1>2. [step |-> "sent", form |-> f] \in RequestType
    BY PageForms DEF RequestType, Step
  <1>3. request \in [Requests -> RequestType]
    BY DEF TypeOK
  <1>4. request'[r] = [step |-> "sent", form |-> f]
    BY <1>1, <1>3
  <1>5. request'[r].step = "sent" /\ request'[r].form = f
    BY <1>4
  <1>6. QED  BY <1>1, <1>2, <1>3, <1>5, PageForms

-------------------------------------------------------------------------------
(***************************************************************************)
(* The initial states, and the steps that leave roles and invitations be.  *)
(***************************************************************************)

LEMMA InitIInv == Init => IInv
  <1> SUFFICES ASSUME Init PROVE IInv
    OBVIOUS
  <1>1. TypeOK
    BY GroupAssumption, NoRequestType
       DEF Init, TypeOK, Role, InviteType, InviteRole, InviteState, Invites
  <1>2. \A r \in Requests :
            request[r].step = "idle" /\ request[r].form.op = "join"
    BY NoRequestType DEF Init
  <1>3. FormInv
    BY <1>2 DEF FormInv
  <1>4. OneOwner
    BY GroupAssumption DEF Init, OneOwner, None
  <1>5. PendingInv
    BY <1>2 DEF PendingInv
  <1>6. InviteInv
    BY <1>2 DEF Init, InviteInv, Admitting
  <1>7. QED  BY <1>1, <1>3, <1>4, <1>5, <1>6 DEF IInv

\* A request that starts, moves on or ends without writing anything.  The
\* one that passes its check must know what PendingInv asks of it.
LEMMA MoveIInv ==
    ASSUME IInv, NEW r \in Requests, UNCHANGED <<role, invites, admissions, overtaken>>,
           request' \in [Requests -> RequestType],
           \A q \in Requests : q # r => request'[q] = request[q],
           request'[r].form.op \in {"setRole", "transfer", "remove"} =>
               request'[r].form.target # request'[r].form.actor,
           request'[r].form.op = "leave" =>
               request'[r].form.target = request'[r].form.actor,
           request'[r].form.op \in {"setRole", "invite"} =>
               request'[r].form.role \in InviteRole,
           request'[r].form.op \in {"claim", "revoke"} =>
               request'[r].form.invite \in Invites,
           request'[r].step = "target" => request'[r].form.op = "setRole",
           request'[r].step # "insert",
           ~overtaken /\ request'[r].step \in {"target", "write"} =>
               /\ request'[r].form.op \in {"leave", "setRole", "remove"} =>
                     role[request'[r].form.target] # "owner"
               /\ request'[r].form.op = "transfer" =>
                     role[request'[r].form.actor] = "owner"
    PROVE  IInv'
  <1>1. TypeOK'
    BY DEF IInv, TypeOK
  <1>2. FormInv'
    BY DEF IInv, FormInv
  <1>3. OneOwner'
    BY DEF IInv, OneOwner
  <1>4. PendingInv'
    BY DEF IInv, PendingInv
  <1>5. \A q \in Requests, i \in Invites : Admitting(q, i)' => Admitting(q, i)
    BY DEF Admitting
  <1>6. InviteInv'
    BY <1>5 DEF IInv, InviteInv
  <1>7. QED  BY <1>1, <1>2, <1>3, <1>4, <1>6 DEF IInv

LEMMA SubmitIInv == \A r \in Requests : IInv /\ Submit(r) => IInv'
  <1> SUFFICES ASSUME NEW r \in Requests, IInv, Submit(r) PROVE IInv'
    OBVIOUS
  <1>1. UNCHANGED <<role, invites, admissions, overtaken>>
    BY DEF Submit
  <1>2. QED  BY <1>1, SubmitEffect, MoveIInv DEF IInv

LEMMA EndsIInv == \A r \in Requests : IInv /\ RequestEnds(r) => IInv'
  <1> SUFFICES ASSUME NEW r \in Requests, IInv, RequestEnds(r) PROVE IInv'
    OBVIOUS
  <1>1. UNCHANGED <<role, invites, admissions, overtaken>> /\ Finish(r)
    BY DEF RequestEnds
  <1>2. request \in [Requests -> RequestType]
    BY DEF IInv, TypeOK
  <1>3. QED  BY <1>1, <1>2, FinishEffect, MoveIInv

\* What a role check establishes: as long as no transfer has collided, the
\* owner is the only one there is, so that nobody else is the owner.
LEMMA CheckIInv ==
    \A r \in Requests :
        IInv /\ (CheckLeave(r) \/ CheckOwner(r) \/ CheckTarget(r) \/ CheckStaff(r)) =>
            IInv'
  <1> SUFFICES ASSUME NEW r \in Requests, IInv,
                      CheckLeave(r) \/ CheckOwner(r) \/ CheckTarget(r) \/ CheckStaff(r)
               PROVE  IInv'
    OBVIOUS
  <1>1. request \in [Requests -> RequestType]
    BY DEF IInv, TypeOK
  <1>2. /\ request[r].form.actor \in Users /\ request[r].form.target \in Users
        /\ request[r].form.op \in {"setRole", "transfer", "remove"} =>
              request[r].form.target # request[r].form.actor
        /\ request[r].form.op = "leave" =>
              request[r].form.target = request[r].form.actor
        /\ request[r].form.op \in {"setRole", "invite"} =>
              request[r].form.role \in InviteRole
        /\ request[r].form.op \in {"claim", "revoke"} =>
              request[r].form.invite \in Invites
    BY <1>1, FormFields DEF IInv, FormInv
  <1>3. UNCHANGED <<role, invites, admissions, overtaken>>
    BY DEF CheckLeave, CheckOwner, CheckTarget, CheckStaff
  <1>4. "write" \in Step /\ "target" \in Step
    BY DEF Step
  <1>5. CASE CheckLeave(r)
    <2>1. Goto(r, "write") /\ request[r].form.op = "leave"
              /\ role[request[r].form.actor] # "owner"
      BY <1>5 DEF CheckLeave, At
    <2>2. request[r].form.target = request[r].form.actor
      BY <2>1 DEF IInv, FormInv
    <2>3. QED
      BY <1>1, <1>2, <1>3, <1>4, <2>1, <2>2, GotoEffect, MoveIInv
  <1>6. CASE CheckOwner(r)
    <2>1. role[request[r].form.actor] = "owner"
              /\ request[r].form.op \in {"setRole", "transfer", "remove"}
      BY <1>6 DEF CheckOwner
    <2>2. ~overtaken => role[request[r].form.target] # "owner"
      BY <1>2, <2>1 DEF IInv, OneOwner
    <2>3. CASE request[r].form.op = "setRole" /\ Goto(r, "target")
      BY <1>1, <1>2, <1>3, <1>4, <2>1, <2>2, <2>3, GotoEffect, MoveIInv
    <2>4. CASE request[r].form.op # "setRole" /\ Goto(r, "write")
      BY <1>1, <1>2, <1>3, <1>4, <2>1, <2>2, <2>4, GotoEffect, MoveIInv
    <2>5. QED  BY <1>6, <2>3, <2>4 DEF CheckOwner
  <1>7. CASE CheckTarget(r)
    <2>1. Goto(r, "write") /\ request[r].form.op = "setRole"
              /\ request[r].step = "target"
      BY <1>7 DEF CheckTarget, At
    <2>2. ~overtaken => role[request[r].form.target] # "owner"
      BY <2>1 DEF IInv, PendingInv
    <2>3. QED
      BY <1>1, <1>2, <1>3, <1>4, <2>1, <2>2, GotoEffect, MoveIInv
  <1>8. CASE CheckStaff(r)
    <2>1. Goto(r, "write") /\ request[r].form.op \in {"invite", "revoke"}
      BY <1>8 DEF CheckStaff, At
    <2>2. QED
      BY <1>1, <1>2, <1>3, <1>4, <2>1, GotoEffect, MoveIInv
  <1>9. QED  BY <1>5, <1>6, <1>7, <1>8

-------------------------------------------------------------------------------
(***************************************************************************)
(* The steps that write a role.                                            *)
(***************************************************************************)

\* A request that ends: what does not depend on roles.
LEMMA FinishForms ==
    ASSUME IInv, NEW r \in Requests, Finish(r)
    PROVE  /\ request' \in [Requests -> RequestType]
           /\ FormInv'
           /\ \A q \in Requests : request'[q].step # "idle" =>
                 q # r /\ request'[q] = request[q]
           /\ \A q \in Requests, i \in Invites :
                 Admitting(q, i)' => q # r /\ Admitting(q, i)
  <1>1. request \in [Requests -> RequestType]
    BY DEF IInv, TypeOK
  <1>2. FormInv'
    BY <1>1, FinishEffect DEF IInv, FormInv
  <1>3. QED  BY <1>1, <1>2, FinishEffect DEF Admitting

\* A role written to one user who is not the owner and does not become it.
LEMMA PlainWriteIInv ==
    ASSUME IInv, NEW r \in Requests, Finish(r), UNCHANGED <<invites, overtaken>>,
           InviteInv', admissions' \in [Invites -> Nat],
           NEW u \in Users, NEW new \in InviteRole \union {None},
           role' = [role EXCEPT ![u] = new],
           ~overtaken => role[u] # "owner"
    PROVE  IInv'
  <1>1. role \in [Users -> Role \union {None}] /\ request \in [Requests -> RequestType]
    BY DEF IInv, TypeOK
  <1>2. new # "owner" /\ new \in Role \union {None}
    BY DEF InviteRole, Role, None
  <1>3. TypeOK'
    BY <1>1, <1>2, FinishForms DEF IInv, TypeOK
  <1>4. ~overtaken => \A v \in Users : role'[v] = "owner" <=> role[v] = "owner"
    BY <1>1, <1>2
  <1>5. OneOwner'
    BY <1>4 DEF IInv, OneOwner
  <1>6. PendingInv'
    <2>1. SUFFICES ASSUME ~overtaken, NEW q \in Requests,
                          request'[q].step \in {"target", "write"}
                   PROVE  /\ request'[q].form.op \in {"leave", "setRole", "remove"} =>
                                role'[request'[q].form.target] # "owner"
                          /\ request'[q].form.op = "transfer" =>
                                role'[request'[q].form.actor] = "owner"
      BY DEF PendingInv
    <2>2. request'[q] = request[q]
      BY <2>1, FinishForms
    <2>3. request[q].form.actor \in Users /\ request[q].form.target \in Users
      BY <1>1, FormFields
    <2>4. QED  BY <1>4, <2>1, <2>2, <2>3 DEF IInv, PendingInv
  <1>7. QED  BY <1>3, <1>5, <1>6, FinishForms DEF IInv

\* Where invitations and admissions stay, so does what is known of them.
LEMMA InvitesStay ==
    ASSUME IInv, NEW r \in Requests, Finish(r), UNCHANGED <<invites, admissions>>
    PROVE  InviteInv' /\ admissions' \in [Invites -> Nat]
  BY FinishForms DEF IInv, TypeOK, InviteInv

LEMMA JoinIInv == \A r \in Requests : IInv /\ Join(r) => IInv'
  <1> SUFFICES ASSUME NEW r \in Requests, IInv, Join(r) PROVE IInv'
    OBVIOUS
  <1> DEFINE u == request[r].form.actor
  <1>1. role \in [Users -> Role \union {None}] /\ request \in [Requests -> RequestType]
    BY DEF IInv, TypeOK
  <1>2. u \in Users
    BY <1>1, FormFields
  <1>3. Finish(r) /\ UNCHANGED <<invites, admissions, overtaken>>
            /\ role' = [role EXCEPT ![u] = IF role[u] = None THEN "member" ELSE role[u]]
    BY <1>1, <1>2 DEF Join, InsertMember
  <1>4. CASE role[u] = None
    <2>1. role' = [role EXCEPT ![u] = "member"]
      BY <1>3, <1>4
    <2>2. "member" \in InviteRole /\ role[u] # "owner"
      BY <1>4 DEF InviteRole, None
    <2>3. QED  BY <1>2, <1>3, <2>1, <2>2, InvitesStay, PlainWriteIInv
  <1>5. CASE role[u] # None
    <2>1. role' = role
      BY <1>1, <1>2, <1>3, <1>5
    <2>2. QED  BY <1>1, <1>3, <2>1, FinishEffect, MoveIInv
  <1>6. QED  BY <1>4, <1>5

LEMMA WriteRoleIInv == \A r \in Requests : IInv /\ WriteRole(r) => IInv'
  <1> SUFFICES ASSUME NEW r \in Requests, IInv, WriteRole(r) PROVE IInv'
    OBVIOUS
  <1> DEFINE u == request[r].form.target
             new == IF role[u] = None THEN None ELSE request[r].form.role
  <1>1. role \in [Users -> Role \union {None}] /\ request \in [Requests -> RequestType]
    BY DEF IInv, TypeOK
  <1>2. request[r].form.op = "setRole" /\ request[r].step = "write"
    BY DEF WriteRole, At
  <1>3. u \in Users /\ new \in InviteRole \union {None}
    BY <1>1, <1>2, FormFields DEF IInv, FormInv
  <1>4. ~overtaken => role[u] # "owner"
    BY <1>2 DEF IInv, PendingInv
  <1>5. Finish(r) /\ UNCHANGED <<invites, admissions, overtaken>>
            /\ role' = [role EXCEPT ![u] = new]
    BY <1>1, <1>3 DEF WriteRole
  <1>6. QED  BY <1>3, <1>4, <1>5, InvitesStay, PlainWriteIInv

LEMMA DeleteIInv == \A r \in Requests : IInv /\ DeleteMember(r) => IInv'
  <1> SUFFICES ASSUME NEW r \in Requests, IInv, DeleteMember(r) PROVE IInv'
    OBVIOUS
  <1> DEFINE u == request[r].form.target
  <1>1. request \in [Requests -> RequestType]
    BY DEF IInv, TypeOK
  <1>2. request[r].form.op \in {"leave", "remove"} /\ request[r].step = "write"
    BY DEF DeleteMember, At
  <1>3. u \in Users /\ None \in InviteRole \union {None}
    BY <1>1, FormFields
  <1>4. ~overtaken => role[u] # "owner"
    BY <1>2 DEF IInv, PendingInv
  <1>5. Finish(r) /\ UNCHANGED <<invites, admissions, overtaken>>
            /\ role' = [role EXCEPT ![u] = None]
    BY DEF DeleteMember
  <1>6. QED  BY <1>3, <1>4, <1>5, InvitesStay, PlainWriteIInv

\* A transfer that collides with nobody hands the ownership over: the actor
\* was the owner, the target is now, and no other request in flight is about
\* the target or is itself a transfer.
LEMMA TransferIInv == \A r \in Requests : IInv /\ Transfer(r) => IInv'
  <1> SUFFICES ASSUME NEW r \in Requests, IInv, Transfer(r) PROVE IInv'
    OBVIOUS
  <1> DEFINE a == request[r].form.actor
             t == request[r].form.target
             left == IF role[a] = None THEN None ELSE "member"
  <1>1. role \in [Users -> Role \union {None}] /\ request \in [Requests -> RequestType]
    BY DEF IInv, TypeOK
  <1>2. request[r].form.op = "transfer" /\ request[r].step = "write"
    BY DEF Transfer, At
  <1>3. a \in Users /\ t \in Users /\ t # a
    BY <1>1, <1>2, FormFields DEF IInv, FormInv
  <1>4. Finish(r) /\ UNCHANGED <<invites, admissions>>
            /\ overtaken' = (overtaken \/ \E q \in Requests : Collides(q, r))
    BY DEF Transfer
  <1>5. /\ role' \in [Users -> Role \union {None}]
        /\ role'[t] = "owner" /\ role'[a] # "owner"
        /\ \A v \in Users : v # t /\ v # a => role'[v] = role[v]
    <2>1. role' = [role EXCEPT ![t] = "owner", ![a] = left]
      BY <1>1, <1>3 DEF Transfer
    <2>2. left # "owner" /\ left \in Role \union {None} /\ "owner" \in Role
      BY DEF Role, None
    <2>3. QED  BY <1>1, <1>3, <2>1, <2>2
  <1>6. TypeOK'
    BY <1>4, <1>5, FinishForms DEF IInv, TypeOK
  <1>7. ~overtaken => role[a] = "owner" /\ \A v \in Users : role[v] = "owner" => v = a
    BY <1>2, <1>3 DEF IInv, PendingInv, OneOwner
  <1>8. ~overtaken' => \A v \in Users : role'[v] = "owner" <=> v = t
    BY <1>3, <1>4, <1>5, <1>7
  <1>9. OneOwner'
    BY <1>3, <1>8 DEF OneOwner
  <1>10. PendingInv'
    <2>1. SUFFICES ASSUME ~overtaken', NEW q \in Requests,
                          request'[q].step \in {"target", "write"}
                   PROVE  /\ request'[q].form.op \in {"leave", "setRole", "remove"} =>
                                role'[request'[q].form.target] # "owner"
                          /\ request'[q].form.op = "transfer" =>
                                role'[request'[q].form.actor] = "owner"
      BY DEF PendingInv
    <2>2. request'[q] = request[q] /\ q # r
      BY <1>4, <2>1, FinishForms
    <2>3. ~Collides(q, r)
      BY <1>4, <2>1
    <2>4. request[q].form.target \in Users
      BY <1>1, FormFields
    <2>5. request[q].form.op \in {"leave", "setRole", "remove"} =>
              request[q].form.target # t
      BY <2>1, <2>2, <2>3 DEF Collides
    <2>6. request[q].form.op # "transfer"
      BY <2>1, <2>2, <2>3 DEF Collides
    <2>7. QED  BY <1>8, <2>1, <2>2, <2>4, <2>5, <2>6
  <1>11. InviteInv'
    BY <1>4, InvitesStay
  <1>12. QED  BY <1>4, <1>6, <1>9, <1>10, <1>11, FinishForms DEF IInv

-------------------------------------------------------------------------------
(***************************************************************************)
(* The steps that write an invitation.                                     *)
(***************************************************************************)

\* Roles stay and no request passes a check: only invitations matter.
LEMMA InviteWriteIInv ==
    ASSUME IInv, UNCHANGED <<role, overtaken>>, TypeOK', FormInv', InviteInv',
           \A q \in Requests : request'[q].step \in {"target", "write"} =>
               request'[q] = request[q]
    PROVE  IInv'
  <1>1. OneOwner' /\ PendingInv'
    BY DEF IInv, OneOwner, PendingInv
  <1>2. QED  BY <1>1 DEF IInv

LEMMA IssueIInv == \A r \in Requests : IInv /\ Issue(r) => IInv'
  <1> SUFFICES ASSUME NEW r \in Requests, IInv, Issue(r) PROVE IInv'
    OBVIOUS
  <1>1. PICK j \in Invites :
            /\ invites[j].state = "unissued"
            /\ invites' = [invites EXCEPT ![j] =
                  [user |-> request[r].form.target, role |-> request[r].form.role,
                   state |-> "live"]]
    BY DEF Issue
  <1>2. invites \in [Invites -> InviteType] /\ request \in [Requests -> RequestType]
    BY DEF IInv, TypeOK
  <1>3. request[r].form.target \in Users /\ request[r].form.role \in InviteRole
    BY <1>2, FormFields DEF IInv, FormInv, Issue, At
  <1>4. [user |-> request[r].form.target, role |-> request[r].form.role,
         state |-> "live"] \in InviteType
    BY <1>3 DEF InviteType, InviteState
  <1>5. Finish(r) /\ UNCHANGED <<role, admissions, overtaken>>
    BY DEF Issue
  <1>6. TypeOK'
    BY <1>1, <1>2, <1>4, <1>5, FinishForms DEF IInv, TypeOK
  <1>7. \A i \in Invites : i # j => invites'[i] = invites[i]
    BY <1>1, <1>2
  <1>8. admissions[j] = 0 /\ \A q \in Requests : ~Admitting(q, j)
    BY <1>1 DEF IInv, InviteInv
  <1>9. InviteInv'
    BY <1>5, <1>7, <1>8, FinishForms DEF IInv, InviteInv
  <1>10. QED  BY <1>5, <1>6, <1>9, FinishForms, InviteWriteIInv

\* Only a live invitation is voided, and nobody is being admitted by it.
LEMMA VoidInvites ==
    ASSUME IInv, NEW j \in Invites, UNCHANGED admissions,
           invites' = [invites EXCEPT ![j].state = IF @ = "live" THEN "void" ELSE @],
           \A q \in Requests, i \in Invites : Admitting(q, i)' => Admitting(q, i)
    PROVE  InviteInv' /\ invites' \in [Invites -> InviteType]
  <1>1. invites \in [Invites -> InviteType]
    BY DEF IInv, TypeOK
  <1>2. invites' \in [Invites -> InviteType]
    BY <1>1 DEF InviteType, InviteState
  <1>3. \A i \in Invites : invites[i].state = "claimed" => invites'[i].state = "claimed"
    BY <1>1 DEF InviteType
  <1>4. InviteInv'
    BY <1>3 DEF IInv, InviteInv
  <1>5. QED  BY <1>2, <1>4

LEMMA RevokeIInv == \A r \in Requests : IInv /\ Revoke(r) => IInv'
  <1> SUFFICES ASSUME NEW r \in Requests, IInv, Revoke(r) PROVE IInv'
    OBVIOUS
  <1>1. Finish(r) /\ UNCHANGED <<role, admissions, overtaken>>
    BY DEF Revoke
  <1>2. request[r].form.invite \in Invites
    BY DEF IInv, FormInv, Revoke, At
  <1>3. InviteInv' /\ invites' \in [Invites -> InviteType]
    BY <1>1, <1>2, FinishForms, VoidInvites DEF Revoke
  <1>4. TypeOK'
    BY <1>1, <1>3, FinishForms DEF IInv, TypeOK
  <1>5. QED  BY <1>1, <1>3, <1>4, FinishForms, InviteWriteIInv

LEMMA ExpireIInv == \A i \in Invites : IInv /\ Expire(i) => IInv'
  <1> SUFFICES ASSUME NEW i \in Invites, IInv, Expire(i) PROVE IInv'
    OBVIOUS
  <1>1. UNCHANGED <<role, admissions, request, overtaken>>
    BY DEF Expire
  <1>2. invites \in [Invites -> InviteType]
    BY DEF IInv, TypeOK
  <1>3. invites' = [invites EXCEPT ![i].state = IF @ = "live" THEN "void" ELSE @]
    BY <1>2 DEF Expire
  <1>4. \A q \in Requests, j \in Invites : Admitting(q, j)' => Admitting(q, j)
    BY <1>1 DEF Admitting
  <1>5. InviteInv' /\ invites' \in [Invites -> InviteType]
    BY <1>1, <1>3, <1>4, VoidInvites
  <1>6. TypeOK' /\ FormInv'
    BY <1>1, <1>5 DEF IInv, TypeOK, FormInv
  <1>7. QED  BY <1>1, <1>5, <1>6, InviteWriteIInv

\* Whoever consumes a live invitation is the only one who has it.
LEMMA ConsumeIInv == \A r \in Requests : IInv /\ Consume(r) => IInv'
  <1> SUFFICES ASSUME NEW r \in Requests, IInv, Consume(r) PROVE IInv'
    OBVIOUS
  <1> DEFINE j == request[r].form.invite
  <1>1. request \in [Requests -> RequestType] /\ invites \in [Invites -> InviteType]
    BY DEF IInv, TypeOK
  <1>2. request[r].form.op = "claim" /\ j \in Invites /\ invites[j].state = "live"
            /\ (Goto(r, "insert") \/ Finish(r))
            /\ UNCHANGED <<role, admissions, overtaken>>
            /\ invites' = [invites EXCEPT ![j].state = "claimed"]
    BY DEF IInv, FormInv, Consume, At
  <1>3. /\ request' \in [Requests -> RequestType]
        /\ request'[r].step \in {"insert", "idle"}
        /\ \A q \in Requests : q # r => request'[q] = request[q]
        /\ FormInv'
        /\ request'[r].step = "insert" => request'[r].form.invite = j
    <2>1. CASE Goto(r, "insert")
      <3>1. /\ request' \in [Requests -> RequestType]
            /\ request'[r].step = "insert" /\ request'[r].form = request[r].form
            /\ \A q \in Requests : q # r => request'[q] = request[q]
        BY <1>1, <2>1, GotoEffect DEF Step
      <3>2. FormInv'
        BY <1>2, <3>1 DEF IInv, FormInv
      <3>3. QED  BY <3>1, <3>2
    <2>2. CASE Finish(r)
      BY <1>1, <2>2, FinishEffect, FinishForms
    <2>3. QED  BY <1>2, <2>1, <2>2
  <1>4. /\ invites' \in [Invites -> InviteType]
        /\ invites'[j].state = "claimed"
        /\ \A i \in Invites : i # j => invites'[i] = invites[i]
    BY <1>1, <1>2 DEF InviteType, InviteState
  <1>5. TypeOK'
    BY <1>2, <1>3, <1>4 DEF IInv, TypeOK
  <1>6. admissions[j] = 0 /\ \A q \in Requests : ~Admitting(q, j)
    BY <1>2 DEF IInv, InviteInv
  <1>7. \A q \in Requests, i \in Invites :
            Admitting(q, i)' => (q = r /\ i = j) \/ (q # r /\ Admitting(q, i))
    BY <1>3 DEF Admitting
  <1>8. InviteInv'
    BY <1>2, <1>4, <1>6, <1>7 DEF IInv, InviteInv
  <1>9. QED  BY <1>2, <1>3, <1>5, <1>8, InviteWriteIInv

LEMMA AdmitIInv == \A r \in Requests : IInv /\ Admit(r) => IInv'
  <1> SUFFICES ASSUME NEW r \in Requests, IInv, Admit(r) PROVE IInv'
    OBVIOUS
  <1> DEFINE j == request[r].form.invite
             u == request[r].form.actor
             given == invites[j].role
  <1>1. /\ role \in [Users -> Role \union {None}]
        /\ request \in [Requests -> RequestType]
        /\ invites \in [Invites -> InviteType]
        /\ admissions \in [Invites -> Nat]
    BY DEF IInv, TypeOK
  <1>2. Admitting(r, j) /\ j \in Invites
    BY DEF IInv, FormInv, Admit, At, Admitting
  <1>3. /\ u \in Users /\ given \in InviteRole
        /\ Finish(r) /\ UNCHANGED <<invites, overtaken>>
        /\ admissions' = [admissions EXCEPT ![j] = @ + 1]
        /\ role' = [role EXCEPT ![u] = IF role[u] = None THEN given ELSE role[u]]
    BY <1>1, <1>2, FormFields DEF Admit, InsertMember, InviteType
  <1>4. admissions[j] = 0 /\ invites[j].state = "claimed"
            /\ \A q \in Requests : q # r => ~Admitting(q, j)
    BY <1>2 DEF IInv, InviteInv
  <1>5. admissions' \in [Invites -> Nat] /\ admissions'[j] = 1
            /\ \A i \in Invites : i # j => admissions'[i] = admissions[i]
    BY <1>1, <1>2, <1>3, <1>4
  <1>6. \A q \in Requests, i \in Invites :
            Admitting(q, i)' => q # r /\ Admitting(q, i) /\ i # j
    BY <1>3, <1>4, FinishForms
  <1>7. InviteInv'
    BY <1>3, <1>4, <1>5, <1>6 DEF IInv, InviteInv
  <1>8. CASE role[u] = None
    <2>1. role' = [role EXCEPT ![u] = given] /\ role[u] # "owner"
      BY <1>3, <1>8 DEF None
    <2>2. QED  BY <1>3, <1>5, <1>7, <2>1, PlainWriteIInv
  <1>9. CASE role[u] # None
    <2>1. role' = role
      BY <1>1, <1>3, <1>9
    <2>2. TypeOK'
      BY <1>3, <1>5, <2>1, FinishForms DEF IInv, TypeOK
    <2>3. QED  BY <1>3, <1>7, <2>1, <2>2, FinishForms, InviteWriteIInv
  <1>10. QED  BY <1>8, <1>9

-------------------------------------------------------------------------------
(***************************************************************************)
(* The theorems.                                                           *)
(***************************************************************************)

\* The invariant, over every step.
THEOREM GroupInvariance == Spec => []IInv
  <1>1. ASSUME IInv, [Next]_vars PROVE IInv'
    <2>1. CASE \E r \in Requests :
                  Submit(r) \/ RoleStep(r) \/ InviteStep(r) \/ RequestEnds(r)
      BY <1>1, <2>1, SubmitIInv, EndsIInv, CheckIInv, JoinIInv, WriteRoleIInv,
         TransferIInv, DeleteIInv, IssueIInv, RevokeIInv, ConsumeIInv, AdmitIInv
         DEF RoleStep, InviteStep
    <2>2. CASE \E i \in Invites : Expire(i)
      BY <1>1, <2>2, ExpireIInv
    <2>3. CASE UNCHANGED vars
      BY <1>1, <2>3
         DEF vars, IInv, TypeOK, FormInv, OneOwner, PendingInv, InviteInv, Admitting
    <2>4. QED  BY <1>1, <2>1, <2>2, <2>3 DEF Next
  <1>2. QED  BY <1>1, InitIInv, PTL DEF Spec

\* Rows, tokens and requests keep their types: an invitation never makes an
\* owner, however many are issued.
THEOREM GroupTypeCorrect == Spec => []TypeOK
  BY GroupInvariance, PTL DEF IInv

\* transferOwnership: for any number of users and of requests in flight, a
\* group has exactly one owner until a transfer commits between the check and
\* the write of a request about the same person, or of another transfer.
THEOREM OwnershipIsUnique == Spec => []OneOwner
  BY GroupInvariance, PTL DEF IInv

\* consumeToken, claimInvite: an invitation admits at most one request, and
\* none once it is revoked or expired.
THEOREM InvitesAreSingleUse == Spec => []InviteSpentOnce
  <1>1. IInv => InviteSpentOnce
    BY DEF IInv, InviteInv, InviteSpentOnce
  <1>2. QED  BY <1>1, GroupInvariance, PTL
===============================================================================
