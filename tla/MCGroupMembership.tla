--------------------------- MODULE MCGroupMembership ---------------------------
(***************************************************************************)
(* A small instance of GroupMembership: the creator and two more users, so *)
(* that ownership can move on and come back, and two requests in flight.   *)
(***************************************************************************)
EXTENDS GroupMembership, TLC

CONSTANTS ana, ben, cem, r1, r2

MCUsers == {ana, ben, cem}
MCRequests == {r1, r2}

Interchangeable == Permutations({ben, cem}) \union Permutations(MCRequests)
===============================================================================
