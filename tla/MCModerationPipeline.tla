------------------------- MODULE MCModerationPipeline -------------------------
(***************************************************************************)
(* Small instances of ModerationPipeline.  The classifier's results stand  *)
(* for its classes: a refusal, scores that sit on either side of the two   *)
(* thresholds, and a record whose highest score alone decides.             *)
(***************************************************************************)
EXTENDS ModerationPipeline

CONSTANTS x1, a1

MCContent == {x1}
MCAuthors == {a1}
MCAuthorOf == [c \in MCContent |-> a1]

MCResults ==
    {Refusal,
     [scores |-> {24}, verdict |-> "auto_publish"],
     [scores |-> {5, 25}, verdict |-> "auto_publish"],
     [scores |-> {24, 85}, verdict |-> "hold_for_review"]}

\* One accepted comment short of being trusted, and trusted.
MCReputations == {499, 500}
===============================================================================
