--------------------------- MODULE ModerationPolicy ---------------------------
(***************************************************************************)
(* The pure part of content moderation: the content status machine, the    *)
(* verdicts a moderation_decisions row can carry, the policy that turns a  *)
(* classifier's scores into a verdict, and the reputation each verdict is  *)
(* worth.  Scores and thresholds are in hundredths (0.25 is 25); of the    *)
(* partial score record only the set of its values matters to the policy.  *)
(***************************************************************************)
EXTENDS Integers

CONSTANTS
    AutoPublishMax,      \* every score below it: publish   (0.25 in DEFAULT_POLICY)
    AutoRejectMin,       \* some score at or above it: reject (0.85)
    TrustedReputation    \* authors at or above it skip review (500)

ASSUME PolicyAssumption ==
    /\ AutoPublishMax \in 1 .. 100
    /\ AutoRejectMin \in AutoPublishMax .. 100
    /\ TrustedReputation \in Int

Kind == {"post", "comment"}

ContentStatus ==
    {"pending_ai", "pending_review", "published", "rejected", "withdrawn"}

\* Mutant: repeating a status is let through as harmless.
PostTransitionsReflexive ==
    [pending_ai     |-> {"published", "pending_review", "rejected"},
     pending_review |-> {"published", "rejected"},
     published      |-> {"published", "withdrawn"},
     rejected       |-> {"published"},
     withdrawn      |-> {}]

\* LEGAL_TRANSITIONS of updatePostStatus.ts.
PostTransitions ==
    [pending_ai     |-> {"published", "pending_review", "rejected"},
     pending_review |-> {"published", "rejected"},
     published      |-> {"withdrawn"},
     rejected       |-> {"published"},
     withdrawn      |-> {}]

\* LEGAL_TRANSITIONS of updateCommentStatus.ts, a table of its own in the code.
CommentTransitions ==
    [pending_ai     |-> {"published", "pending_review", "rejected"},
     pending_review |-> {"published", "rejected"},
     published      |-> {"withdrawn"},
     rejected       |-> {"published"},
     withdrawn      |-> {}]

\* The statuses that content of kind k may be moved to from status `from`.
Allowed(k, from) ==
    IF k = "post" THEN PostTransitions[from] ELSE CommentTransitions[from]

AiVerdict == {"auto_publish", "hold_for_review", "auto_reject"}
HumanVerdict == {"human_publish", "human_reject"}
Verdict == AiVerdict \union HumanVerdict

\* The status a verdict asks for: the worker's verdictToStatus for the three
\* AI verdicts, the newStatus of the two moderator actions for the others.
VerdictToStatus(v) ==
    CASE v \in {"auto_publish", "human_publish"} -> "published"
      [] v \in {"auto_reject", "human_reject"}   -> "rejected"
      [] OTHER                                   -> "pending_review"

\* decide(): the verdict depends on the highest score (0 when there is none)
\* and on the author's reputation, never on the provider's own suggestion.
Decide(scores, reputation) ==
    IF \E s \in scores : s >= AutoRejectMin THEN "auto_reject"
    ELSE IF \/ \A s \in scores : s < AutoPublishMax
            \/ reputation >= TrustedReputation
         THEN "auto_publish"
         ELSE "hold_for_review"

\* What the provider hands back when the model refuses to classify: no score
\* at all, and the suggestion that a human should look.
Refusal == [scores |-> {}, verdict |-> "hold_for_review"]

RewardKind ==
    {"post_accepted", "post_rejected", "comment_accepted", "comment_rejected"}

\* The reputation event a worker records for the status it has just set.
RewardFor(k, newStatus) ==
    IF newStatus = "published"
    THEN IF k = "post" THEN "post_accepted" ELSE "comment_accepted"
    ELSE IF k = "post" THEN "post_rejected" ELSE "comment_rejected"

\* DELTAS of the trust package, for the events the worker records.
Delta ==
    [post_accepted |-> 5, post_rejected |-> -3,
     comment_accepted |-> 1, comment_rejected |-> -1]

NoticeKind == {"post_published", "post_rejected", "comment_reply"}

\* fanOutNotifications(): a post's author hears of both outcomes, and the
\* author of the post a comment answers hears of it once it is published.
NoticesFor(k, newStatus) ==
    IF k = "post"
    THEN IF newStatus = "published" THEN {"post_published"} ELSE {"post_rejected"}
    ELSE IF newStatus = "published" THEN {"comment_reply"} ELSE {}
===============================================================================
