---------------------------- MODULE MCAuthSessions ----------------------------
(***************************************************************************)
(* A small instance of AuthSessions: requests overlap in pairs.            *)
(***************************************************************************)
EXTENDS AuthSessions, TLC

CONSTANTS r1, r2

MCRequests == {r1, r2}

Interchangeable == Permutations(MCRequests)
===============================================================================
