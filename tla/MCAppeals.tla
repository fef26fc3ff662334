------------------------------- MODULE MCAppeals -------------------------------
(***************************************************************************)
(* A small instance of Appeals: one post, an author with two tabs, and     *)
(* one or two moderators, so that every race of two requests can happen.   *)
(***************************************************************************)
EXTENDS Appeals, TLC

CONSTANTS x1, t1, t2, m1, m2

MCContent == {x1}
MCKindOf == [c \in MCContent |-> "post"]
MCTabs == {t1, t2}
MCModerators == {m1, m2}

\* Tabs are interchangeable, and so are resolve requests.
Interchangeable == Permutations(MCTabs) \union Permutations(MCModerators)
===============================================================================
