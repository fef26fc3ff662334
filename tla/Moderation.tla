------------------------------ MODULE Moderation ------------------------------
(***************************************************************************)
(* The moderation of content as a whole: ModerationPipeline and Appeals    *)
(* over the same rows of content, audit log and reputation.  Each of them  *)
(* is modelled with the other left out or reduced to what it promises;     *)
(* here every step of the one may happen between any two of the other.     *)
(***************************************************************************)
EXTENDS ModerationPipeline, FiniteSets

CONSTANTS
    KindOf,            \* posts and comments have ids of their own
    Tabs, MaxAppeals, MaxOverturns,
                       \* as in Appeals
    Resolvers          \* its Moderators: the resolve requests in flight

\* What Appeals assumes of its constants.
ASSUME ModerationAssumption ==
    /\ None \notin Content
    /\ KindOf \in [Content -> Kind]
    /\ IsFiniteSet(Tabs)
    /\ IsFiniteSet(Resolvers)
    /\ MaxAppeals \in Nat
    /\ MaxOverturns \in Nat

VARIABLES
    overturns, appeals, offered, filing, resolving, credits, credited,
                       \* as in Appeals
    appealNotices      \* its notices: those of kind appeal_resolved

\* What Appeals keeps of published_at.
Shown == {c \in Content : everPublished[c]}

A == INSTANCE Appeals
        WITH Moderators <- Resolvers, shown <- Shown, notices <- appealNotices

appealVars ==
    <<appeals, offered, filing, resolving, credits, credited, appealNotices>>
moderationVars == <<vars, overturns, appealVars>>

\* DELTAS of the trust package, for the event an upheld appeal records.
AppealDelta == 2

\* The gate is on: what is published unmoderated is never rejected.
ModerationInit ==
    /\ Init
    /\ A!Init

-------------------------------------------------------------------------------
\* Whatever the pipeline does; the appeals' rows and requests stay.
PipelineMoves ==
    /\ Next
    /\ \A c \in Content :
          status[c] = "absent" /\ status'[c] # "absent" => kind'[c] = KindOf[c]
    /\ A!CountOverturns
    /\ UNCHANGED appealVars

\* The statements of an appeal that leave published_at and the reputation alone.
FilingMoves ==
    /\ UNCHANGED <<everPublished, reputation>>
    /\ \/ \E c \in Content : A!OfferForm(c)
       \/ \E tab \in Tabs : A!FilingStepOf(tab)

ResolvingMoves(m) ==
    /\ UNCHANGED <<everPublished, reputation>>
    /\ \/ \E a \in DOMAIN appeals, r \in A!Resolution : A!Fetch(m, a, r)
       \/ A!Audit(m)
       \/ A!PublishCheck(m)
       \/ A!Mark(m)
       \/ A!Notify(m)
       \/ A!ResolveFails(m)

\* The UPDATE of updatePostStatus / updateCommentStatus for an upheld appeal.
AppealPublishes(m) ==
    /\ resolving[m].step = "write"
    /\ everPublished' = [everPublished EXCEPT ![A!TargetOf(m)] = TRUE]
    /\ A!PublishWrite(m)
    /\ UNCHANGED reputation

\* recordEvent() for the author of the appeal, who is that of the content.
AppealCredits(m) ==
    /\ resolving[m].step = "credit"
    /\ reputation' = [reputation EXCEPT
          ![AuthorOf[A!TargetOf(m)]] = @ + AppealDelta]
    /\ UNCHANGED everPublished
    /\ A!Credit(m)

\* Appeals share no row with jobs, requests and pages of the pipeline.
AppealMoves ==
    /\ \/ FilingMoves
       \/ \E m \in Resolvers :
             ResolvingMoves(m) \/ AppealPublishes(m) \/ AppealCredits(m)
    /\ UNCHANGED <<kind, everRejected, rewards, notices, deadLetters, request,
                   workerVars, humanVars>>

ModerationNext == PipelineMoves \/ AppealMoves

ModerationSpec == ModerationInit /\ [][ModerationNext]_moderationVars

-------------------------------------------------------------------------------
(***************************************************************************)
(* What holds of the whole.                                                *)
(***************************************************************************)

\* The contract of the pipeline, with one sentence added: an appeal brings a
\* person to rule on what the classifier has rejected.
RuleOnAppeal(c) ==
    /\ "auto_reject" \in rulings[c]
    /\ \E v \in HumanVerdict :
          rulings' = [rulings EXCEPT ![c] = @ \union {v}]
    /\ UNCHANGED <<gateOff, status>>

ContractWithAppeals ==
    /\ Contract!Init
    /\ [][Contract!Next \/ \E c \in Content : RuleOnAppeal(c)]_(Contract!vars)

\* No person overrules the classifier where it was content: a human verdict is
\* about content that it held, or that it rejected and whose author appealed.
HumansRuleOnFlagged ==
    \A c \in Content :
        rulings[c] \intersect HumanVerdict # {} =>
            \/ "hold_for_review" \in rulings[c]
            \/ /\ "auto_reject" \in rulings[c]
               /\ \E a \in DOMAIN appeals : appeals[a].target = c

\* The author can appeal a decision, and nothing but a decision: there is no
\* appeal, and no form for one, about content that is still at the gate.
AppealsFollowDecision ==
    \A c \in Content :
        \/ c \in offered
        \/ \E tab \in Tabs : filing[tab] = c
        \/ \E a \in DOMAIN appeals : appeals[a].target = c
        => /\ status[c] \notin {"absent", "pending_ai", "pending_review"}
           /\ rulings[c] \intersect {"auto_reject", "human_reject"} # {}

\* Rejected content is published again by a person, in the review queue or on
\* appeal, or by a job delivered again after a crash or a lost answer.
ReversalNeedsCauseOrAppeal ==
    [][\A c \in Content :
          status[c] = "rejected" /\ status'[c] = "published" =>
              \/ job[c].stalls > 0
              \/ c \in unacknowledged
              \/ \E m \in Moderators :
                    review[m].item = c /\ review[m].step = "write"
              \/ \E m \in Resolvers :
                    /\ A!TargetOf(m) = c
                    /\ resolving[m].step = "write"
                    /\ resolving[m].resolution = "upheld"]_moderationVars

\* Every change of a cached reputation is the first reward of a kind, one that
\* a moderator's ruling has overtaken, or the credit of an upheld appeal, of
\* which there are no more than the requests in flight, once for the content's
\* first verdict and once for each time it was taken down after acceptance:
\* retries, redeliveries and further appeals add nothing of their own.
PaidOnce ==
    [][reputation' # reputation =>
          \/ rewards' # rewards
          \/ \E c \in Content : /\ run[c].step = "reward"
                                /\ rulings[c] \intersect HumanVerdict # {}
          \/ \E m \in Resolvers :
                LET c == A!TargetOf(m)
                IN  /\ resolving[m].step = "credit"
                    /\ resolving[m].resolution = "upheld"
                    /\ credits[c] < Cardinality(Resolvers) * (1 + overturns[c])
      ]_moderationVars
===============================================================================
