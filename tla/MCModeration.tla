----------------------------- MODULE MCModeration -----------------------------
(***************************************************************************)
(* A small instance of Moderation: the pipeline and the appeals about one  *)
(* content, with two resolve requests in flight and one of each other.     *)
(* The classifier's results are a refusal and scores on either side of the *)
(* thresholds; the author is one accepted post short of being trusted.     *)
(***************************************************************************)
EXTENDS Moderation, TLC

CONSTANTS x1, a1, r1, r2

MCContent == {x1}
MCAuthors == {a1}
MCAuthorOf == [c \in MCContent |-> a1]
MCKindOf == [c \in MCContent |-> "post"]

MCResults ==
    {Refusal,
     [scores |-> {5, 25}, verdict |-> "auto_publish"],
     [scores |-> {24, 85}, verdict |-> "hold_for_review"]}

MCReputations == {499}

MCResolvers == {r1, r2}

\* Resolve requests are interchangeable.
Interchangeable == Permutations(MCResolvers)
===============================================================================
