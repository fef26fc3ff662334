---------------------------- MODULE AccessContract ----------------------------
(***************************************************************************)
(* What sessions promise to one account: an id grants access once, is      *)
(* never granted again after it was revoked, and a closed account has no   *)
(* access and gains none.  AuthSessions is shown to implement it.          *)
(***************************************************************************)
CONSTANT Ids           \* session ids

VARIABLES
    used,              \* ids that have been granted
    open,              \* ids that give access
    closed             \* the account is disabled

vars == <<used, open, closed>>

Init ==
    /\ used = {}
    /\ open = {}
    /\ closed = FALSE

\* A closed account may be given an id, which opens nothing.
Grant(s) ==
    /\ s \notin used
    /\ used' = used \union {s}
    /\ open' = IF closed THEN open ELSE open \union {s}
    /\ UNCHANGED closed

Revoke(S) ==
    /\ open' = open \ S
    /\ UNCHANGED <<used, closed>>

Close ==
    /\ closed' = TRUE
    /\ open' = {}
    /\ UNCHANGED used

Next ==
    \/ \E s \in Ids : Grant(s)
    \/ \E S \in SUBSET Ids : Revoke(S)
    \/ Close

Spec == Init /\ [][Next]_vars
===============================================================================
