--------------------------- MODULE ModerationProofs ---------------------------
(***************************************************************************)
(* Proofs about Moderation, for any content, authors, moderators, pages    *)
(* and appeals.  The invariants of the two components are proved in their  *)
(* own modules, each against its own environment.  Here it is shown that   *)
(* each is an environment the other allows: a step of the pipeline is a    *)
(* step of the contract that Appeals expects, and a step of an appeal      *)
(* keeps the pipeline's invariant, because an appeal is about content that *)
(* has left the gate for good (AppealsFollowDecision) and publishes it on  *)
(* the strength of a verdict that it has logged (RequestInv of Appeals).   *)
(***************************************************************************)
EXTENDS Moderation, ModerationPipelineProofs, Sequences

AP == INSTANCE AppealsProofs
        WITH Moderators <- Resolvers, shown <- Shown, notices <- appealNotices

\* published_at is set where the status says so, and a post is a post.
RowInv ==
    \A c \in Content :
        /\ status[c] = "published" => everPublished[c]
        /\ status[c] # "absent" => kind[c] = KindOf[c]

JointInv ==
    /\ RetryInv
    /\ AP!IInv
    /\ RowInv
    /\ AppealsFollowDecision
    /\ HumansRuleOnFlagged

-------------------------------------------------------------------------------
(***************************************************************************)
(* The two instances of Appeals: the one of the model, and that of the     *)
(* proofs.                                                                 *)
(***************************************************************************)

LEMMA Premises == AP!AppealsAssumption /\ AP!PolicyAssumption
  BY ModerationAssumption, PolicyAssumption
  DEF AP!AppealsAssumption, AP!PolicyAssumption, None, AP!None, Kind, AP!Kind,
      IsFiniteSet, AP!IsFiniteSet

LEMMA SameCardinality == Cardinality(Resolvers) = AP!Cardinality(Resolvers)
  BY DEF Cardinality, AP!Cardinality

LEMMA SameTarget == \A m : A!TargetOf(m) = AP!TargetOf(m)
  BY DEF A!TargetOf, AP!TargetOf

LEMMA SameInit == A!Init => AP!Init
  BY DEF A!Init, AP!Init, A!Pipeline!Init, AP!Pipeline!Init, A!None, AP!None,
     A!NoResolving, AP!NoResolving

LEMMA SamePipelineStep == A!PipelineStep => AP!PipelineStep
  BY DEF A!PipelineStep, AP!PipelineStep, A!Pipeline!Submit, AP!Pipeline!Submit,
     A!Pipeline!RuleByAi, AP!Pipeline!RuleByAi,
     A!Pipeline!RuleByHuman, AP!Pipeline!RuleByHuman,
     A!Pipeline!Enact, AP!Pipeline!Enact,
     A!Pipeline!Withdraw, AP!Pipeline!Withdraw,
     A!Pipeline!VerdictToStatus, AP!Pipeline!VerdictToStatus,
     A!Pipeline!AiVerdict, AP!Pipeline!AiVerdict,
     A!Pipeline!HumanVerdict, AP!Pipeline!HumanVerdict,
     A!CountOverturns, AP!CountOverturns, A!Accepted, AP!Accepted,
     A!creditVars, AP!creditVars

LEMMA SameFiling ==
    ASSUME NEW tab \in Tabs, A!FilingStepOf(tab)
    PROVE  AP!FilingStepOf(tab)
  BY DEF A!FilingStepOf, AP!FilingStepOf, A!SubmitCheck, AP!SubmitCheck,
     A!SubmitInsert, AP!SubmitInsert, A!SubmitFails, AP!SubmitFails,
     A!OpenAppeals, AP!OpenAppeals, A!Open, AP!Open, A!None, AP!None,
     A!contentVars, AP!contentVars, A!creditVars, AP!creditVars

LEMMA SameResolving ==
    ASSUME NEW m \in Resolvers, A!ResolveStepOf(m)
    PROVE  AP!ResolveStepOf(m)
  <1> USE DEF A!ResolveStepOf, AP!ResolveStepOf, A!contentVars, AP!contentVars,
          A!creditVars, AP!creditVars, A!TargetOf, AP!TargetOf
  <1>1. CASE \E a \in DOMAIN appeals, r \in A!Resolution : A!Fetch(m, a, r)
    BY <1>1
    DEF A!Fetch, AP!Fetch, A!Open, AP!Open, A!None, AP!None, A!Resolution, AP!Resolution
  <1>2. CASE A!Audit(m)
    BY <1>2 DEF A!Audit, AP!Audit
  <1>3. CASE A!PublishCheck(m)
    BY <1>3
    DEF A!PublishCheck, AP!PublishCheck, A!Allowed, AP!Allowed, A!PostTransitions,
        AP!PostTransitions, A!CommentTransitions, AP!CommentTransitions
  <1>4. CASE A!PublishWrite(m)
    BY <1>4 DEF A!PublishWrite, AP!PublishWrite
  <1>5. CASE A!Credit(m) \/ A!Mark(m)
    BY <1>5 DEF A!Credit, AP!Credit, A!Mark, AP!Mark
  <1>6. CASE A!Notify(m) \/ A!ResolveFails(m)
    BY <1>6
    DEF A!Notify, AP!Notify, A!ResolveFails, AP!ResolveFails, A!NoResolving,
        AP!NoResolving, A!None, AP!None
  <1> QED
    BY <1>1, <1>2, <1>3, <1>4, <1>5, <1>6

LEMMA SameNext == [A!Next]_(A!vars) => [AP!Next]_(AP!vars)
  <1> SUFFICES ASSUME [A!Next]_(A!vars) PROVE [AP!Next]_(AP!vars)
    OBVIOUS
  <1>1. ASSUME NEW c \in Content, A!OfferForm(c) PROVE AP!OfferForm(c)
    BY <1>1 DEF A!OfferForm, AP!OfferForm, A!contentVars, AP!contentVars,
       A!creditVars, AP!creditVars
  <1>2. CASE UNCHANGED A!vars
    BY <1>2 DEF A!vars, AP!vars, A!contentVars, AP!contentVars, A!creditVars,
       AP!creditVars
  <1> QED
    BY <1>1, <1>2, SamePipelineStep, SameFiling, SameResolving DEF A!Next, AP!Next

\* The inductive invariant of Appeals is one here.
LEMMA AppealsInit == A!Init => AP!IInv
  BY SameInit, Premises, AP!InitIInv
  DEF AP!InitIInv, AP!AppealsAssumption, AP!PolicyAssumption

LEMMA AppealsInv == AP!IInv /\ [A!Next]_(A!vars) => AP!IInv'
  BY SameNext, Premises, AP!NextIInv
  DEF AP!NextIInv, AP!AppealsAssumption, AP!PolicyAssumption

-------------------------------------------------------------------------------
(***************************************************************************)
(* The pipeline, as Appeals sees it.                                       *)
(***************************************************************************)

\* How the pipeline writes a row of content: it inserts it, or sets its status.
LEMMA RowWrite ==
    ASSUME IInv, [Next]_vars
    PROVE  \/ UNCHANGED <<status, kind, everPublished>>
           \/ \E c \in Content :
                 /\ status[c] = "absent"
                 /\ status' = [status EXCEPT ![c] = "pending_ai"]
                 /\ \E k \in Kind : kind' = [kind EXCEPT ![c] = k]
                 /\ UNCHANGED everPublished
           \/ \E c \in Content, s \in ContentStatus : SetStatus(c, s)
  <1> USE DEF contentVars, effectVars, workerVars, humanVars
  <1>1. ASSUME NEW c \in Content, CreatePost(c) \/ CreateComment(c)
        PROVE  /\ status[c] = "absent"
               /\ status' = [status EXCEPT ![c] = "pending_ai"]
               /\ \E k \in Kind : kind' = [kind EXCEPT ![c] = k]
               /\ UNCHANGED everPublished
    BY <1>1 DEF CreatePost, CreateComment, Kind
  <1>2. ASSUME NEW c \in Content, AppStep(c), ~CreatePost(c), ~CreateComment(c)
        PROVE  \/ UNCHANGED <<status, kind, everPublished>>
               \/ \E s \in ContentStatus : SetStatus(c, s)
    BY <1>2
    DEF AppStep, FastPublish, ReadContext, Enqueue, CreateLost, WithdrawCheck,
        WithdrawWrite, WithdrawFails, ContentStatus
  <1>3. ASSUME NEW c \in Content, WriteStatus(c) \/ WriteUnacknowledged(c)
        PROVE  \E s \in ContentStatus : SetStatus(c, s)
    <2>1. VerdictToStatus(run[c].verdict) \in ContentStatus
      BY DEF VerdictToStatus, ContentStatus
    <2> QED
      BY <1>3, <2>1 DEF WriteStatus, WriteUnacknowledged
  <1>4. ASSUME NEW c \in Content, WorkerStep(c), ~WriteStatus(c), ~WriteUnacknowledged(c)
        PROVE  UNCHANGED <<status, kind, everPublished>>
    BY <1>4
    DEF WorkerStep, StartAttempt, Classify, WriteDecision, CheckStatus, RefuseTransition,
        AttemptFails, Reward, RewardFails, Notify, Complete, RecoverStalled
  <1>5. ASSUME NEW c \in Content, CrashAttempt(c) \/ HandlerStepOf(c) \/ HandlerLost(c)
        PROVE  UNCHANGED <<status, kind, everPublished>>
    BY <1>5 DEF CrashAttempt, HandlerStepOf, HandlerHold, HandlerDeadLetter, HandlerLost
  <1>6. ASSUME NEW m \in Moderators, ReviewWrite(m)
        PROVE  \E c \in Content, s \in ContentStatus : SetStatus(c, s)
    <2>1. review[m].item \in Content
      BY <1>6 DEF ReviewWrite, IInv, ReviewInv
    <2>2. VerdictToStatus(review[m].verdict) \in ContentStatus
      BY DEF VerdictToStatus, ContentStatus
    <2> QED
      BY <1>6, <2>1, <2>2 DEF ReviewWrite
  <1>7. ASSUME NEW m \in Moderators, ReviewStepOf(m), ~ReviewWrite(m)
        PROVE  UNCHANGED <<status, kind, everPublished>>
    BY <1>7
    DEF ReviewStepOf, OpenItem, RulePublish, RuleReject, ReviewCheck, ReviewEnds
  <1>8. CASE UNCHANGED vars
    BY <1>8 DEF vars
  <1> QED
    BY <1>1, <1>2, <1>3, <1>4, <1>5, <1>6, <1>7, <1>8 DEF Next

\* published_at is set when content becomes published and is never cleared; a
\* row keeps its kind, and content that was decided stays decided.
LEMMA RowEffect ==
    ASSUME IInv, RowInv, [Next]_vars
    PROVE  /\ Shown' = Shown \union {c \in Content : status'[c] = "published"}
           /\ \A c \in Content :
                 /\ status'[c] = "published" => everPublished'[c]
                 /\ status[c] # "absent" => kind'[c] = kind[c] /\ status'[c] # "absent"
  <1>1. /\ status \in [Content -> ContentStatus \union {"absent"}]
        /\ kind \in [Content -> Kind]
        /\ everPublished \in [Content -> BOOLEAN]
    BY DEF IInv, TypeOK
  <1>2. CASE UNCHANGED <<status, kind, everPublished>>
    BY <1>2 DEF RowInv, Shown
  <1>3. ASSUME NEW c \in Content, status[c] = "absent",
               status' = [status EXCEPT ![c] = "pending_ai"],
               \E k \in Kind : kind' = [kind EXCEPT ![c] = k],
               UNCHANGED everPublished
        PROVE  /\ Shown' = Shown \union {d \in Content : status'[d] = "published"}
               /\ \A d \in Content :
                     /\ status'[d] = "published" => everPublished'[d]
                     /\ status[d] # "absent" => kind'[d] = kind[d] /\ status'[d] # "absent"
    BY <1>1, <1>3 DEF RowInv, Shown
  <1>4. ASSUME NEW c \in Content, NEW s \in ContentStatus, SetStatus(c, s)
        PROVE  /\ Shown' = Shown \union {d \in Content : status'[d] = "published"}
               /\ \A d \in Content :
                     /\ status'[d] = "published" => everPublished'[d]
                     /\ status[d] # "absent" => kind'[d] = kind[d] /\ status'[d] # "absent"
    <2>1. /\ status' = [status EXCEPT ![c] = s]
          /\ everPublished' = [everPublished EXCEPT ![c] = @ \/ s = "published"]
          /\ kind' = kind
      BY <1>4 DEF SetStatus
    <2>2. s # "absent"
      BY DEF ContentStatus
    <2>3. \A d \in Content :
              /\ status'[d] = IF d = c THEN s ELSE status[d]
              /\ everPublished'[d] <=> everPublished[d] \/ (d = c /\ s = "published")
      BY <1>1, <2>1
    <2> QED
      BY <2>1, <2>2, <2>3 DEF RowInv, Shown
  <1> QED
    BY <1>2, <1>3, <1>4, RowWrite

\* The contract takes no step through the gate with the gate on, and nothing
\* returns to the gate or to the review queue once it was decided.
LEMMA ContractStep ==
    ASSUME IInv, ~gateOff, [Next]_vars
    PROVE  /\ gateOff' = gateOff
           /\ \/ UNCHANGED <<status, rulings>>
              \/ \E c \in Content :
                    \/ A!Pipeline!Submit(c)
                    \/ A!Pipeline!RuleByAi(c)
                    \/ A!Pipeline!RuleByHuman(c)
                    \/ A!Pipeline!Enact(c)
                    \/ A!Pipeline!Withdraw(c)
  <1>1. CASE UNCHANGED Contract!vars
    BY <1>1 DEF Contract!vars
  <1>2. ASSUME NEW c \in Content, Contract!Submit(c) \/ Contract!RuleByHuman(c)
        PROVE  /\ gateOff' = gateOff
               /\ A!Pipeline!Submit(c) \/ A!Pipeline!RuleByHuman(c)
    BY <1>2
    DEF Contract!Submit, A!Pipeline!Submit, Contract!RuleByHuman, A!Pipeline!RuleByHuman,
        Contract!HumanVerdict, A!Pipeline!HumanVerdict
  <1>3. ASSUME NEW c \in Content, Contract!RuleByAi(c)
        PROVE  gateOff' = gateOff /\ A!Pipeline!RuleByAi(c)
    BY <1>3
    DEF Contract!RuleByAi, A!Pipeline!RuleByAi, Contract!AiVerdict, A!Pipeline!AiVerdict
  <1>4. ASSUME NEW c \in Content, Contract!Enact(c) \/ Contract!Withdraw(c)
        PROVE  /\ gateOff' = gateOff
               /\ A!Pipeline!Enact(c) \/ A!Pipeline!Withdraw(c)
    BY <1>4
    DEF Contract!Enact, A!Pipeline!Enact, Contract!Withdraw, A!Pipeline!Withdraw,
        Contract!VerdictToStatus, A!Pipeline!VerdictToStatus
  <1>5. \A c \in Content : ~Contract!Bypass(c)
    BY DEF Contract!Bypass
  <1> QED
    BY <1>1, <1>2, <1>3, <1>4, <1>5, NextContract DEF Contract!Next

LEMMA StaysDecided ==
    ASSUME IInv, ~gateOff, [Next]_vars, NEW c \in Content,
           status[c] \notin {"absent", "pending_ai", "pending_review"}
    PROVE  status'[c] \notin {"absent", "pending_ai", "pending_review"}
  <1>1. /\ status \in [Content -> ContentStatus \union {"absent"}]
        /\ rulings \in [Content -> SUBSET Verdict]
    BY DEF IInv, TypeOK
  <1>2. \A v \in Verdict : A!Pipeline!VerdictToStatus(v) = VerdictToStatus(v)
    BY DEF A!Pipeline!VerdictToStatus, VerdictToStatus
  <1>3. CASE UNCHANGED <<status, rulings>>
    BY <1>3
  <1>4. ASSUME NEW d \in Content,
               \/ A!Pipeline!Submit(d) \/ A!Pipeline!RuleByAi(d)
               \/ A!Pipeline!RuleByHuman(d) \/ A!Pipeline!Withdraw(d)
        PROVE  status'[c] \in {status[c], "withdrawn"}
    BY <1>1, <1>4
    DEF A!Pipeline!Submit, A!Pipeline!RuleByAi, A!Pipeline!RuleByHuman, A!Pipeline!Withdraw
  <1>5. ASSUME NEW d \in Content, A!Pipeline!Enact(d)
        PROVE  status'[c] \notin {"absent", "pending_ai", "pending_review"}
    <2>1. PICK v \in rulings[d] :
              /\ v = "hold_for_review" => status[d] = "pending_ai"
              /\ status' = [status EXCEPT ![d] = VerdictToStatus(v)]
      BY <1>1, <1>2, <1>5 DEF A!Pipeline!Enact
    <2>2. CASE d # c
      BY <1>1, <2>1, <2>2
    <2>3. CASE d = c
      <3>1. v \in Verdict /\ v # "hold_for_review"
        BY <1>1, <2>1, <2>3
      <3>2. VerdictToStatus(v) \in {"published", "rejected"}
        BY <3>1, VerdictStatus
      <3> QED
        BY <1>1, <2>1, <2>3, <3>2
    <2> QED
      BY <2>2, <2>3
  <1> QED
    BY <1>3, <1>4, <1>5, ContractStep

\* What Appeals' invariant says in the words of this module.
LEMMA AppealsFacts ==
    ASSUME AP!IInv
    PROVE  /\ ~gateOff
           /\ appeals \in Seq([target : Content,
                               resolution : {"upheld", "rejected", None}])
           /\ filing \in [Tabs -> Content \union {None}]
           /\ offered \subseteq Content
           /\ overturns \in [Content -> 0 .. MaxOverturns]
           /\ \A m \in Resolvers :
                 /\ resolving[m].step # "idle" =>
                       /\ resolving[m].appeal \in DOMAIN appeals
                       /\ A!TargetOf(m) = appeals[resolving[m].appeal].target
                       /\ A!TargetOf(m) \in Content
                 /\ resolving[m].step \in {"check", "write", "credit"} =>
                       resolving[m].resolution = "upheld"
                 /\ resolving[m].step \in {"write", "credit"} =>
                       "human_publish" \in rulings[A!TargetOf(m)]
  <1> USE DEF AP!IInv, AP!TypeInv, AP!TypeOK
  <1>1. /\ ~gateOff
        /\ filing \in [Tabs -> Content \union {None}]
        /\ offered \subseteq Content
    BY DEF AP!None, None
  <1>2. appeals \in Seq([target : Content, resolution : {"upheld", "rejected", None}])
    <2>1. [target : Content, resolution : {"upheld", "rejected", None}]
              = [target : Content, resolution : {"upheld", "rejected"} \union {None}]
      OBVIOUS
    <2>2. AP!AppealType
              = [target : Content, resolution : {"upheld", "rejected"} \union {None}]
      BY DEF AP!AppealType, AP!Resolution, AP!None, None
    <2> QED
      BY <2>1, <2>2
  <1>3. overturns \in [Content -> 0 .. MaxOverturns]
    OBVIOUS
  <1>4. ASSUME NEW m \in Resolvers, resolving[m].step # "idle"
        PROVE  /\ resolving[m].appeal \in DOMAIN appeals
               /\ A!TargetOf(m) = appeals[resolving[m].appeal].target
               /\ A!TargetOf(m) \in Content
    <2>1. resolving[m].appeal \in DOMAIN appeals
      BY <1>4 DEF AP!NoResolving
    <2>2. appeals[resolving[m].appeal]
              \in [target : Content, resolution : {"upheld", "rejected", None}]
      <3> HIDE DEF AP!IInv, AP!TypeInv, AP!TypeOK
      <3> DEFINE Row == [target : Content, resolution : {"upheld", "rejected", None}]
      <3> HIDE DEF Row
      <3>1. appeals \in Seq(Row)
        BY <1>2 DEF Row
      <3>2. appeals[resolving[m].appeal] \in Row
        BY <2>1, <3>1
      <3> QED
        BY <3>2 DEF Row
    <2> QED
      BY <2>1, <2>2 DEF A!TargetOf
  <1>5. ASSUME NEW m \in Resolvers, resolving[m].step \in {"write", "credit"}
        PROVE  "human_publish" \in rulings[A!TargetOf(m)]
    BY <1>5, SameTarget DEF AP!RequestInv, AP!Upholding
  <1> QED
    BY <1>1, <1>2, <1>3, <1>4, <1>5

\* A step of the pipeline is one that Appeals expects of its environment.
LEMMA PipelineMovesAllowed ==
    ASSUME IInv, RowInv, AP!IInv, PipelineMoves
    PROVE  [A!Next]_(A!vars)
  <1>1. [Next]_vars /\ UNCHANGED appealVars
    BY DEF PipelineMoves
  <1>2. CASE UNCHANGED <<status, rulings>>
    <2>1. Shown' = Shown
      BY <1>1, <1>2, RowEffect DEF RowInv, Shown
    <2>2. overturns' = overturns
      BY <1>2, AppealsFacts DEF PipelineMoves, A!CountOverturns
    <2> QED
      BY <1>1, <1>2, <2>1, <2>2, AppealsFacts, ContractStep
      DEF A!vars, A!contentVars, A!creditVars, appealVars
  <1>3. CASE ~ UNCHANGED <<status, rulings>>
    <2>1. \E c \in Content :
              \/ A!Pipeline!Submit(c)
              \/ A!Pipeline!RuleByAi(c)
              \/ A!Pipeline!RuleByHuman(c)
              \/ A!Pipeline!Enact(c)
              \/ A!Pipeline!Withdraw(c)
      BY <1>1, <1>3, ContractStep, AppealsFacts
    <2>2. A!PipelineStep
      BY <1>1, <2>1, RowEffect
      DEF PipelineMoves, appealVars, A!PipelineStep, A!creditVars
    <2> QED
      BY <2>2 DEF A!Next
  <1> QED
    BY <1>2, <1>3

\* A step of an appeal is one of Appeals.
LEMMA AppealMovesAllowed == AppealMoves => A!Next
  BY DEF AppealMoves, FilingMoves, ResolvingMoves, AppealPublishes, AppealCredits,
     A!Next, A!ResolveStepOf

LEMMA ModerationAllowed ==
    JointInv /\ [ModerationNext]_moderationVars => [A!Next]_(A!vars)
  <1>1. UNCHANGED moderationVars => UNCHANGED A!vars
    BY DEF moderationVars, vars, appealVars, contentVars, A!vars, A!contentVars,
       A!creditVars, Shown
  <1> QED
    BY <1>1, PipelineMovesAllowed, AppealMovesAllowed
    DEF ModerationNext, JointInv, RetryInv

-------------------------------------------------------------------------------
(***************************************************************************)
(* The appeals, as the pipeline sees them.                                 *)
(***************************************************************************)

\* Nothing in the pipeline minds another verdict in the audit log.
LEMMA MoreRulings ==
    ASSUME RetryInv, rulings' \in [Content -> SUBSET Verdict],
           \A c \in Content : rulings[c] \subseteq rulings'[c],
           UNCHANGED <<gateOff, status, kind, everPublished, everRejected, effectVars,
                       request, workerVars, humanVars>>
    PROVE  RetryInv'
  <1> USE DEF effectVars, workerVars, humanVars, RetryInv, IInv
  <1>1. TypeOK'
    BY DEF TypeOK
  <1>2. JobInv' /\ StageInv' /\ HandlerInv'
    BY DEF JobInv, StageInv, HandlerInv
  <1>3. RunInv'
    BY DEF RunInv
  <1>4. ReviewInv'
    BY DEF ReviewInv
  <1>5. WithdrawInv'
    BY DEF WithdrawInv, Ruled
  <1>6. StatusIsRuled'
    BY DEF StatusIsRuled, Ruled
  <1>7. EffectInv'
    BY DEF EffectInv, EffectsFollowStatus
  <1>8. \A c \in Content : Cause(c)'
    BY DEF Cause
  <1>9. \A c \in Content : Once(c)'
    BY OnceStays
  <1> QED
    BY <1>1, <1>2, <1>3, <1>4, <1>5, <1>6, <1>7, <1>8, <1>9

\* Nor that decided content is published on a human verdict.
LEMMA PublishedByHuman ==
    ASSUME RetryInv, NEW c \in Content,
           status[c] \notin {"absent", "pending_ai"},
           "human_publish" \in rulings[c],
           status' = [status EXCEPT ![c] = "published"],
           everPublished' = [everPublished EXCEPT ![c] = TRUE],
           UNCHANGED <<gateOff, kind, rulings, everRejected, effectVars, request,
                       workerVars, humanVars>>
    PROVE  RetryInv'
  <1> USE DEF effectVars, workerVars, humanVars, RetryInv, IInv
  <1>1. TypeOK'
    BY DEF TypeOK, ContentStatus
  <1>2. /\ \A d \in Content : status'[d] = IF d = c THEN "published" ELSE status[d]
        /\ \A d \in Content : everPublished'[d] <=> everPublished[d] \/ d = c
    BY DEF TypeOK
  <1> HIDE DEF IInv
  <1>3. JobInv' /\ RunInv' /\ HandlerInv'
    BY DEF IInv, JobInv, RunInv, HandlerInv
  <1>4. StageInv'
    BY <1>2 DEF IInv, StageInv
  <1>5. ReviewInv'
    BY <1>2 DEF IInv, ReviewInv
  <1>6. Ruled(c, "published") /\ rulings[c] \intersect HumanVerdict # {}
    BY DEF Ruled, VerdictToStatus, HumanVerdict
  <1>7. WithdrawInv' /\ StatusIsRuled'
    BY <1>2, <1>6 DEF IInv, WithdrawInv, StatusIsRuled, Ruled
  <1>8. EffectInv'
    BY <1>2 DEF IInv, EffectInv, EffectsFollowStatus
  <1>9. \A d \in Content : Cause(d)'
    BY <1>2 DEF Cause
  <1>10. \A d \in Content : Once(d)'
    BY <1>2, <1>6 DEF Once, Accepted, Rejected
  <1> QED
    BY <1>1, <1>3, <1>4, <1>5, <1>7, <1>8, <1>9, <1>10 DEF IInv

\* Nor that an author gains reputation.
LEMMA MoreReputation ==
    ASSUME RetryInv, reputation' \in [Authors -> Int],
           UNCHANGED <<gateOff, contentVars, rewards, notices, deadLetters, request,
                       workerVars, humanVars>>
    PROVE  RetryInv'
  <1> USE DEF contentVars, workerVars, humanVars, RetryInv
  <1>1. TypeOK'
    BY DEF IInv, TypeOK
  <1>2. /\ JobInv' /\ RunInv' /\ StageInv' /\ HandlerInv' /\ ReviewInv'
        /\ WithdrawInv' /\ StatusIsRuled' /\ EffectInv'
    BY DEF IInv, JobInv, RunInv, StageInv, HandlerInv, ReviewInv, WithdrawInv,
       StatusIsRuled, Ruled, EffectInv, EffectsFollowStatus
  <1>3. \A c \in Content : Cause(c)' /\ Once(c)'
    BY DEF Cause, Once, Accepted, Rejected
  <1> QED
    BY <1>1, <1>2, <1>3 DEF IInv

\* What an appeal's audit row is about.
LEMMA AuditEffect ==
    ASSUME AP!IInv, IInv, NEW m \in Resolvers, A!Audit(m)
    PROVE  /\ A!TargetOf(m) \in Content
           /\ UNCHANGED <<gateOff, status, Shown, overturns, appeals, offered, filing>>
           /\ \E v \in HumanVerdict :
                 rulings' = [rulings EXCEPT ![A!TargetOf(m)] = @ \union {v}]
  <1>1. resolving[m].step # "idle"
    BY DEF A!Audit
  <1> QED
    BY <1>1, AppealsFacts DEF A!Audit, HumanVerdict

LEMMA AppealKeepsRetryInv ==
    ASSUME RetryInv, AP!IInv, AppealsFollowDecision, AppealMoves
    PROVE  RetryInv'
  <1> USE DEF workerVars, humanVars, contentVars, effectVars
  <1>1. UNCHANGED <<kind, everRejected, rewards, notices, deadLetters, request,
                    workerVars, humanVars>>
    BY DEF AppealMoves
  <1>2. CASE UNCHANGED <<gateOff, status, rulings, everPublished, reputation>>
    <2>1. UNCHANGED vars
      BY <1>1, <1>2 DEF vars
    <2> QED
      BY <2>1, NextIInv, NextCause, NextOnce DEF RetryInv
  <1>3. CASE FilingMoves
    BY <1>2, <1>3
    DEF FilingMoves, A!OfferForm, A!FilingStepOf, A!SubmitCheck, A!SubmitInsert,
        A!SubmitFails, A!contentVars
  <1>4. ASSUME NEW m \in Resolvers, ResolvingMoves(m), ~A!Audit(m)
        PROVE  RetryInv'
    BY <1>2, <1>4
    DEF ResolvingMoves, A!Fetch, A!PublishCheck, A!Mark, A!Notify, A!ResolveFails,
        A!contentVars
  <1>5. ASSUME NEW m \in Resolvers, ResolvingMoves(m), A!Audit(m)
        PROVE  RetryInv'
    <2>1. /\ A!TargetOf(m) \in Content
          /\ UNCHANGED <<gateOff, status>>
      BY <1>5, AuditEffect DEF RetryInv
    <2>2. PICK v \in HumanVerdict :
              rulings' = [rulings EXCEPT ![A!TargetOf(m)] = @ \union {v}]
      BY <1>5, AuditEffect DEF RetryInv
    <2>3. /\ rulings' \in [Content -> SUBSET Verdict]
          /\ \A c \in Content : rulings[c] \subseteq rulings'[c]
      BY <2>1, <2>2, VerdictStatus DEF RetryInv, IInv, TypeOK
    <2>4. UNCHANGED <<everPublished, reputation>>
      BY <1>5 DEF ResolvingMoves
    <2> QED
      BY <1>1, <2>1, <2>3, <2>4, MoreRulings
  <1>6. ASSUME NEW m \in Resolvers, AppealPublishes(m)
        PROVE  RetryInv'
    <2> DEFINE c == A!TargetOf(m)
    <2>1. /\ resolving[m].step = "write"
          /\ everPublished' = [everPublished EXCEPT ![c] = TRUE]
          /\ status' = [status EXCEPT ![c] = "published"]
          /\ UNCHANGED <<gateOff, rulings, reputation>>
      BY <1>6 DEF AppealPublishes, A!PublishWrite
    <2>2. /\ c \in Content /\ "human_publish" \in rulings[c]
          /\ \E a \in DOMAIN appeals : appeals[a].target = c
      BY <2>1, AppealsFacts
    <2>3. status[c] \notin {"absent", "pending_ai"}
      BY <2>2 DEF AppealsFollowDecision
    <2> HIDE DEF c
    <2> QED
      BY <1>1, <2>1, <2>2, <2>3, PublishedByHuman
  <1>7. ASSUME NEW m \in Resolvers, AppealCredits(m)
        PROVE  RetryInv'
    <2>1. UNCHANGED <<gateOff, status, rulings, everPublished>>
      BY <1>7 DEF AppealCredits, A!Credit, A!contentVars
    <2>2. A!TargetOf(m) \in Content
      BY <1>7, AppealsFacts DEF AppealCredits
    <2>3. reputation' \in [Authors -> Int]
      <3>1. AuthorOf[A!TargetOf(m)] \in Authors
        BY <2>2, PipelineAssumption
      <3>2. reputation \in [Authors -> Int] /\ AppealDelta \in Int
        BY DEF RetryInv, IInv, TypeOK, AppealDelta
      <3> QED
        BY <1>7, <3>1, <3>2 DEF AppealCredits
    <2> QED
      BY <1>1, <2>1, <2>3, MoreReputation
  <1> QED
    BY <1>3, <1>4, <1>5, <1>6, <1>7 DEF AppealMoves

-------------------------------------------------------------------------------
(***************************************************************************)
(* What the two have in common.                                            *)
(***************************************************************************)

\* The author of c has been shown the form, or has gone further.
Appealed(c) ==
    \/ c \in offered
    \/ \E tab \in Tabs : filing[tab] = c
    \/ \E a \in DOMAIN appeals : appeals[a].target = c

\* An appeal never goes away.
LEMMA AppealsStay ==
    ASSUME AP!IInv, [A!Next]_(A!vars), NEW a \in DOMAIN appeals
    PROVE  a \in DOMAIN appeals' /\ appeals'[a].target = appeals[a].target
  <1>1. AP!TypeInv
    BY DEF AP!IInv
  <1>2. AP!Grows
    BY <1>1, SameNext, Premises, AP!NextTypes
    DEF AP!NextTypes, AP!AppealsAssumption, AP!PolicyAssumption
  <1> QED
    BY <1>2 DEF AP!Grows

\* An appeal comes from an earlier stage, and the form from a rejection.
LEMMA AppealedBefore ==
    ASSUME AP!IInv, AppealMoves, NEW c \in Content, Appealed(c)'
    PROVE  Appealed(c) \/ status[c] = "rejected"
  <1>1. AP!TypeInv
    BY DEF AP!IInv
  <1>2. c # None /\ None = A!None /\ None = AP!None
    BY ModerationAssumption DEF None, A!None, AP!None
  <1>3. CASE UNCHANGED <<offered, filing, appeals>>
    BY <1>3 DEF Appealed
  <1>4. ASSUME NEW d \in Content, A!OfferForm(d)
        PROVE  Appealed(c) \/ status[c] = "rejected"
    BY <1>4 DEF A!OfferForm, Appealed
  <1>5. ASSUME NEW tab \in Tabs, NEW d \in Content, A!SubmitCheck(tab, d)
        PROVE  Appealed(c)
    BY <1>5, AppealsFacts DEF A!SubmitCheck, Appealed
  <1>6. ASSUME NEW tab \in Tabs, A!SubmitFails(tab)
        PROVE  Appealed(c)
    BY <1>2, <1>6, AppealsFacts DEF A!SubmitFails, Appealed
  <1>7. ASSUME NEW tab \in Tabs, A!SubmitInsert(tab)
        PROVE  Appealed(c)
    <2>1. AP!SubmitInsert(tab)
      BY <1>7 DEF A!SubmitInsert, AP!SubmitInsert, A!None, AP!None, A!contentVars,
         AP!contentVars, A!creditVars, AP!creditVars
    <2>2. /\ DOMAIN appeals = 1 .. Len(appeals)
          /\ DOMAIN appeals' = 1 .. Len(appeals) + 1
          /\ Len(appeals) \in Nat
          /\ \A a \in DOMAIN appeals : appeals'[a] = appeals[a]
          /\ appeals'[Len(appeals) + 1].target = filing[tab]
      BY <1>1, <2>1, Premises, AP!InsertEffect
      DEF AP!InsertEffect, AP!AppealsAssumption, AP!PolicyAssumption
    <2>3. \A a \in DOMAIN appeals' : a \in DOMAIN appeals \/ a = Len(appeals) + 1
      BY <2>2
    <2>4. /\ offered' = offered
          /\ \A t \in Tabs : filing'[t] = c => filing[t] = c
      BY <1>2, <1>7, AppealsFacts DEF A!SubmitInsert
    <2> QED
      BY <2>2, <2>3, <2>4 DEF Appealed
  <1>8. ASSUME NEW m \in Resolvers, A!Mark(m)
        PROVE  Appealed(c)
    <2>1. AP!Mark(m)
      BY <1>8 DEF A!Mark, AP!Mark, A!contentVars, AP!contentVars, A!creditVars,
         AP!creditVars
    <2>2. /\ DOMAIN appeals' = DOMAIN appeals
          /\ \A a \in DOMAIN appeals : appeals'[a].target = appeals[a].target
      BY <1>1, <2>1, Premises, AP!MarkEffect
      DEF AP!MarkEffect, AP!AppealsAssumption, AP!PolicyAssumption
    <2>3. UNCHANGED <<offered, filing>>
      BY <1>8 DEF A!Mark
    <2>4. (\E a \in DOMAIN appeals' : appeals'[a].target = c)
              => \E a \in DOMAIN appeals : appeals[a].target = c
      BY <2>2, Zenon
    <2> QED
      BY <2>3, <2>4 DEF Appealed
  <1>9. ASSUME NEW m \in Resolvers,
               ResolvingMoves(m) \/ AppealPublishes(m) \/ AppealCredits(m), ~A!Mark(m)
        PROVE  UNCHANGED <<offered, filing, appeals>>
    BY <1>9
    DEF ResolvingMoves, AppealPublishes, AppealCredits, A!Fetch, A!Audit, A!PublishCheck,
        A!PublishWrite, A!Credit, A!Notify, A!ResolveFails
  <1> QED
    BY <1>3, <1>4, <1>5, <1>6, <1>7, <1>8, <1>9
    DEF AppealMoves, FilingMoves, ResolvingMoves, A!FilingStepOf

\* What an appeal does to the rows of content.
LEMMA AppealRows ==
    ASSUME RetryInv, AP!IInv, AppealsFollowDecision, AppealMoves
    PROVE  /\ \A c \in Content :
                 /\ rulings[c] \subseteq rulings'[c]
                 /\ \/ status'[c] = status[c] /\ everPublished'[c] = everPublished[c]
                    \/ /\ status'[c] = "published" /\ everPublished'[c]
                       /\ \E m \in Resolvers :
                             /\ A!TargetOf(m) = c
                             /\ resolving[m].step = "write"
                             /\ resolving[m].resolution = "upheld"
                       /\ status[c] # "absent"
           /\ \/ UNCHANGED rulings
              \/ \E m \in Resolvers, v \in HumanVerdict :
                    /\ resolving[m].step # "idle"
                    /\ rulings' = [rulings EXCEPT ![A!TargetOf(m)] = @ \union {v}]
  <1>1. /\ IInv
        /\ rulings \in [Content -> SUBSET Verdict]
        /\ status \in [Content -> ContentStatus \union {"absent"}]
        /\ everPublished \in [Content -> BOOLEAN]
    BY DEF RetryInv, IInv, TypeOK
  <1>2. CASE UNCHANGED <<status, rulings, everPublished>>
    BY <1>2
  <1>3. CASE FilingMoves
    BY <1>2, <1>3
    DEF FilingMoves, A!OfferForm, A!FilingStepOf, A!SubmitCheck, A!SubmitInsert,
        A!SubmitFails, A!contentVars
  <1>4. ASSUME NEW m \in Resolvers, ResolvingMoves(m) \/ AppealCredits(m), ~A!Audit(m)
        PROVE  UNCHANGED <<status, rulings, everPublished>>
    BY <1>4
    DEF ResolvingMoves, AppealCredits, A!Fetch, A!PublishCheck, A!Credit, A!Mark,
        A!Notify, A!ResolveFails, A!contentVars
  <1>5. ASSUME NEW m \in Resolvers, ResolvingMoves(m), A!Audit(m)
        PROVE  /\ UNCHANGED <<status, everPublished>>
               /\ resolving[m].step # "idle"
               /\ \E v \in HumanVerdict :
                     rulings' = [rulings EXCEPT ![A!TargetOf(m)] = @ \union {v}]
    BY <1>1, <1>5, AuditEffect DEF ResolvingMoves, A!Audit
  <1>6. ASSUME NEW m \in Resolvers, AppealPublishes(m)
        PROVE  /\ UNCHANGED rulings
               /\ resolving[m].step = "write" /\ resolving[m].resolution = "upheld"
               /\ status[A!TargetOf(m)] # "absent"
               /\ \A c \in Content \ {A!TargetOf(m)} :
                     status'[c] = status[c] /\ everPublished'[c] = everPublished[c]
               /\ A!TargetOf(m) \in Content
               /\ status'[A!TargetOf(m)] = "published" /\ everPublished'[A!TargetOf(m)]
    <2> DEFINE c == A!TargetOf(m)
    <2>1. /\ resolving[m].step = "write"
          /\ everPublished' = [everPublished EXCEPT ![c] = TRUE]
          /\ status' = [status EXCEPT ![c] = "published"]
          /\ UNCHANGED rulings
      BY <1>6 DEF AppealPublishes, A!PublishWrite
    <2>2. /\ c \in Content /\ resolving[m].resolution = "upheld"
          /\ \E a \in DOMAIN appeals : appeals[a].target = c
      BY <2>1, AppealsFacts
    <2>3. status[c] # "absent"
      BY <2>2 DEF AppealsFollowDecision
    <2> HIDE DEF c
    <2> QED
      BY <1>1, <2>1, <2>2, <2>3 DEF c
  <1>7. ASSUME NEW m \in Resolvers, ResolvingMoves(m), A!Audit(m)
        PROVE  \A c \in Content : rulings[c] \subseteq rulings'[c]
    BY <1>1, <1>5, <1>7, AuditEffect
  <1>8. CASE \E m \in Resolvers : ResolvingMoves(m) \/ AppealCredits(m)
    BY <1>2, <1>4, <1>5, <1>7, <1>8 DEF AppealCredits, A!Audit, A!Credit
  <1>9. CASE \E m \in Resolvers : AppealPublishes(m)
    BY <1>6, <1>9
  <1> QED
    BY <1>3, <1>8, <1>9 DEF AppealMoves

\* The rows stay what they are, and appeals stay about decided content.
LEMMA NextRowInv ==
    ASSUME JointInv, [ModerationNext]_moderationVars
    PROVE  RowInv'
  <1>1. kind \in [Content -> Kind] /\ status \in [Content -> ContentStatus \union {"absent"}]
    BY DEF JointInv, RetryInv, IInv, TypeOK
  <1>2. CASE PipelineMoves
    <2>1. /\ IInv /\ RowInv /\ [Next]_vars
          /\ \A c \in Content :
                status[c] = "absent" /\ status'[c] # "absent" => kind'[c] = KindOf[c]
      BY <1>2 DEF PipelineMoves, JointInv, RetryInv
    <2> QED
      BY <2>1, RowEffect DEF RowInv
  <1>3. CASE AppealMoves
    <2>1. UNCHANGED kind
      BY <1>3 DEF AppealMoves
    <2> QED
      BY <1>3, <2>1, AppealRows DEF JointInv, RowInv
  <1>4. CASE UNCHANGED moderationVars
    BY <1>4 DEF moderationVars, vars, contentVars, JointInv, RowInv
  <1> QED
    BY <1>2, <1>3, <1>4 DEF ModerationNext

LEMMA NextAppealsFollow ==
    ASSUME JointInv, [ModerationNext]_moderationVars
    PROVE  AppealsFollowDecision'
  <1>1. /\ RetryInv /\ IInv /\ AP!IInv /\ ~gateOff
        /\ rulings \in [Content -> SUBSET Verdict]
        /\ \A c \in Content :
              Appealed(c) =>
                 /\ status[c] \notin {"absent", "pending_ai", "pending_review"}
                 /\ rulings[c] \intersect {"auto_reject", "human_reject"} # {}
    BY AppealsFacts DEF JointInv, RetryInv, IInv, TypeOK, AppealsFollowDecision, Appealed
  <1> SUFFICES ASSUME NEW c \in Content, Appealed(c)'
               PROVE  /\ status'[c] \notin {"absent", "pending_ai", "pending_review"}
                      /\ rulings'[c] \intersect {"auto_reject", "human_reject"} # {}
    BY DEF AppealsFollowDecision, Appealed
  <1>2. CASE PipelineMoves
    <2>1. Appealed(c)
      BY <1>2 DEF PipelineMoves, appealVars, Appealed
    <2>2. [Next]_vars
      BY <1>2 DEF PipelineMoves
    <2> QED
      BY <1>1, <2>1, <2>2, StaysDecided, NextRulings
  <1>3. CASE AppealMoves
    <2>1. /\ status'[c] \in {status[c], "published"}
          /\ rulings[c] \subseteq rulings'[c]
      BY <1>1, <1>3, AppealRows DEF JointInv
    <2>2. CASE Appealed(c)
      BY <1>1, <2>1, <2>2
    <2>3. CASE status[c] = "rejected"
      <3>1. PICK v \in rulings[c] : VerdictToStatus(v) = "rejected"
        BY <1>1, <2>3 DEF IInv, StatusIsRuled, Ruled
      <3>2. v \in {"auto_reject", "human_reject"}
        BY <1>1, <3>1 DEF VerdictToStatus
      <3> QED
        BY <2>1, <2>3, <3>1, <3>2
    <2> QED
      BY <1>1, <1>3, <2>2, <2>3, AppealedBefore
  <1>4. CASE UNCHANGED moderationVars
    <2>1. Appealed(c) /\ UNCHANGED <<status, rulings>>
      BY <1>4 DEF moderationVars, vars, contentVars, appealVars, Appealed
    <2> QED
      BY <1>1, <2>1
  <1> QED
    BY <1>2, <1>3, <1>4 DEF ModerationNext

LEMMA NextFlagged ==
    ASSUME JointInv, [ModerationNext]_moderationVars
    PROVE  HumansRuleOnFlagged'
  <1>1. /\ RetryInv /\ IInv /\ AP!IInv /\ AppealsFollowDecision
        /\ rulings \in [Content -> SUBSET Verdict]
    BY DEF JointInv, RetryInv, IInv, TypeOK
  <1> SUFFICES ASSUME NEW c \in Content, rulings'[c] \intersect HumanVerdict # {}
               PROVE  \/ "hold_for_review" \in rulings'[c]
                      \/ /\ "auto_reject" \in rulings'[c]
                         /\ \E a \in DOMAIN appeals' : appeals'[a].target = c
    BY DEF HumansRuleOnFlagged
  <1>2. \A a \in DOMAIN appeals :
            a \in DOMAIN appeals' /\ appeals'[a].target = appeals[a].target
    BY <1>1, AppealsStay, ModerationAllowed
  <1>3. rulings[c] \subseteq rulings'[c]
    <2>1. CASE PipelineMoves
      BY <1>1, <2>1, NextRulings DEF PipelineMoves
    <2>2. CASE AppealMoves
      BY <1>1, <2>2, AppealRows
    <2>3. CASE UNCHANGED moderationVars
      BY <2>3 DEF moderationVars, vars, contentVars
    <2> QED
      BY <2>1, <2>2, <2>3 DEF ModerationNext
  <1>4. CASE rulings[c] \intersect HumanVerdict # {}
    BY <1>2, <1>3, <1>4 DEF JointInv, HumansRuleOnFlagged
  <1>5. CASE rulings[c] \intersect HumanVerdict = {}
    <2>1. CASE PipelineMoves
      BY <1>1, <1>3, <1>5, <2>1, NextRulings DEF PipelineMoves
    <2>2. CASE AppealMoves
      <3>1. PICK m \in Resolvers, v \in HumanVerdict :
                /\ resolving[m].step # "idle"
                /\ rulings' = [rulings EXCEPT ![A!TargetOf(m)] = @ \union {v}]
        BY <1>1, <1>5, <2>2, AppealRows
      <3>2. c = A!TargetOf(m)
        BY <1>1, <1>5, <3>1
      <3>3. resolving[m].appeal \in DOMAIN appeals /\ appeals[resolving[m].appeal].target = c
        BY <1>1, <3>1, <3>2, AppealsFacts
      <3>4. rulings[c] \intersect {"auto_reject", "human_reject"} # {}
        BY <1>1, <3>3 DEF AppealsFollowDecision
      <3>5. "auto_reject" \in rulings[c]
        BY <1>5, <3>4 DEF HumanVerdict
      <3> QED
        BY <1>2, <1>3, <3>3, <3>5
    <2>3. CASE UNCHANGED moderationVars
      BY <1>5, <2>3 DEF moderationVars, vars, contentVars
    <2> QED
      BY <2>1, <2>2, <2>3 DEF ModerationNext
  <1> QED
    BY <1>4, <1>5

LEMMA InitJoint == ModerationInit => JointInv
  <1> SUFFICES ASSUME ModerationInit PROVE JointInv
    OBVIOUS
  <1>1. Init /\ A!Init
    BY DEF ModerationInit
  <1>2. RetryInv /\ AP!IInv
    BY <1>1, InitRetry, AppealsInit
  <1>3. RowInv
    BY <1>1 DEF Init, RowInv
  <1>4. appeals = <<>> /\ offered = {} /\ filing = [tab \in Tabs |-> None]
    BY <1>1 DEF A!Init, A!None, None
  <1>5. AppealsFollowDecision
    BY <1>4, ModerationAssumption DEF AppealsFollowDecision
  <1>6. HumansRuleOnFlagged
    BY <1>1 DEF Init, HumansRuleOnFlagged
  <1> QED
    BY <1>2, <1>3, <1>5, <1>6 DEF JointInv

LEMMA NextJoint == JointInv /\ [ModerationNext]_moderationVars => JointInv'
  <1> SUFFICES ASSUME JointInv, [ModerationNext]_moderationVars PROVE JointInv'
    OBVIOUS
  <1>1. RetryInv'
    <2>1. CASE AppealMoves
      BY <2>1, AppealKeepsRetryInv DEF JointInv
    <2>2. CASE [Next]_vars
      BY <2>2, NextIInv, NextCause, NextOnce DEF JointInv, RetryInv
    <2> QED
      BY <2>1, <2>2 DEF ModerationNext, PipelineMoves, moderationVars
  <1>2. AP!IInv'
    BY ModerationAllowed, AppealsInv DEF JointInv
  <1> QED
    BY <1>1, <1>2, NextRowInv, NextAppealsFollow, NextFlagged DEF JointInv

\* In every reachable state of the whole.
THEOREM JointInvariance == ModerationSpec => []JointInv
  BY InitJoint, NextJoint, PTL DEF ModerationSpec

-------------------------------------------------------------------------------
(***************************************************************************)
(* What it means for the whole.                                            *)
(***************************************************************************)

\* The worker, the review queue, the authors' pages and the appeals together
\* do nothing that Appeals' environment, made of the contract alone, does not:
\* what is proved of Appeals holds of the appeals of the running system.
THEOREM ImplementsAppeals == ModerationSpec => A!Spec
  <1>1. ModerationInit => A!Init
    BY DEF ModerationInit
  <1> QED
    BY <1>1, ModerationAllowed, JointInvariance, PTL DEF ModerationSpec, A!Spec

\* With the pipeline beside them: an upheld appeal has published its content on
\* a logged verdict, and the author's tabs bound the open appeals.
THEOREM AppealsKeepTheirWord ==
    ModerationSpec => [](A!UpheldIsPublished /\ A!DuplicatesBounded)
  <1>1. AP!IInv => A!UpheldIsPublished
    BY Premises, AP!InvUpheld
    DEF AP!InvUpheld, AP!AppealsAssumption, AP!PolicyAssumption, AP!UpheldIsPublished,
        A!UpheldIsPublished
  <1>2. AP!IInv => A!DuplicatesBounded
    BY DEF AP!IInv, AP!DuplicatesBounded, A!DuplicatesBounded, AP!OpenAppeals,
       A!OpenAppeals, AP!Open, A!Open, AP!None, A!None, Cardinality, AP!Cardinality,
       A!Cardinality
  <1>3. JointInv => A!UpheldIsPublished /\ A!DuplicatesBounded
    BY <1>1, <1>2 DEF JointInv
  <1> QED
    BY <1>3, JointInvariance, PTL

\* With appeals beside it, the pipeline keeps every promise about the rows it
\* writes: types and BullMQ's limits, a logged verdict behind every status, a
\* status behind every reward and notice, completed jobs that have decided,
\* dead letters that are final.
THEOREM PipelineKeepsItsWord ==
    ModerationSpec =>
        [](/\ TypeOK
           /\ StatusIsRuled
           /\ EffectsFollowStatus
           /\ CompletedIsDecided
           /\ DeadLetterIsFinal)
  <1>1. JointInv => /\ TypeOK
                    /\ StatusIsRuled
                    /\ EffectsFollowStatus
                    /\ CompletedIsDecided
                    /\ DeadLetterIsFinal
    BY DEF JointInv, RetryInv, IInv, EffectInv, StageInv, CompletedIsDecided, TypeOK,
       HandlerInv, DeadLetterIsFinal
  <1> QED
    BY <1>1, JointInvariance, PTL

\* A human verdict is about content that the classifier has held, or that it
\* has rejected and whose author has appealed; and an appeal is about content
\* that has been rejected and never waits at the gate again.
THEOREM PeopleRuleOnFlagged ==
    ModerationSpec => [](HumansRuleOnFlagged /\ AppealsFollowDecision)
  <1>1. JointInv => HumansRuleOnFlagged /\ AppealsFollowDecision
    BY DEF JointInv
  <1> QED
    BY <1>1, JointInvariance, PTL

\* Whoever publishes what was rejected, it is a moderator in the queue, the
\* request that upholds an appeal about it, or a job BullMQ delivered again.
THEOREM NoReversalUnasked == ModerationSpec => ReversalNeedsCauseOrAppeal
  <1>1. ASSUME JointInv, [ModerationNext]_moderationVars, NEW c \in Content,
               status[c] = "rejected", status'[c] = "published"
        PROVE  \/ job[c].stalls > 0
               \/ c \in unacknowledged
               \/ \E m \in Moderators :
                     review[m].item = c /\ review[m].step = "write"
               \/ \E m \in Resolvers :
                     /\ A!TargetOf(m) = c
                     /\ resolving[m].step = "write"
                     /\ resolving[m].resolution = "upheld"
    <2>1. CASE PipelineMoves
      BY <1>1, <2>1, NextReversal DEF PipelineMoves, JointInv
    <2>2. CASE AppealMoves
      BY <1>1, <2>2, AppealRows DEF JointInv
    <2>3. CASE UNCHANGED moderationVars
      BY <1>1, <2>3 DEF moderationVars, vars, contentVars
    <2> QED
      BY <1>1, <2>1, <2>2, <2>3 DEF ModerationNext
  <1>2. JointInv /\ [ModerationNext]_moderationVars =>
            [\A c \in Content :
                status[c] = "rejected" /\ status'[c] = "published" =>
                    \/ job[c].stalls > 0
                    \/ c \in unacknowledged
                    \/ \E m \in Moderators :
                          review[m].item = c /\ review[m].step = "write"
                    \/ \E m \in Resolvers :
                          /\ A!TargetOf(m) = c
                          /\ resolving[m].step = "write"
                          /\ resolving[m].resolution = "upheld"]_moderationVars
    BY <1>1
  <1> QED
    BY <1>2, JointInvariance, PTL DEF ModerationSpec, ReversalNeedsCauseOrAppeal

\* Appeals lead nothing back to the review queue: with them, too, moderators
\* see a content there once.
THEOREM NotReviewedAgain == ModerationSpec => ReviewedOnce
  <1>1. ASSUME JointInv, [ModerationNext]_moderationVars, NEW c \in Content,
               status'[c] = "pending_review", status[c] # "pending_review"
        PROVE  status[c] = "pending_ai"
    <2>1. CASE PipelineMoves
      BY <1>1, <2>1, NextReviewedOnce DEF PipelineMoves, JointInv, RetryInv
    <2>2. CASE AppealMoves
      BY <1>1, <2>2, AppealRows DEF JointInv
    <2>3. CASE UNCHANGED moderationVars
      BY <1>1, <2>3 DEF moderationVars, vars, contentVars
    <2> QED
      BY <1>1, <2>1, <2>2, <2>3 DEF ModerationNext
  <1>2. JointInv /\ [ModerationNext]_moderationVars =>
            [\A c \in Content :
                status'[c] = "pending_review" /\ status[c] # "pending_review" =>
                    status[c] = "pending_ai"]_vars
    BY <1>1
  <1> QED
    BY <1>2, JointInvariance, PTL DEF ModerationSpec, ReviewedOnce

\* Retries and redeliveries change no cached reputation on their own: a change
\* is the first reward of its kind, one that a moderator's ruling has overtaken,
\* or a credit that the requests in flight have room for: as many as there are
\* requests for the content's first verdict, and as many again for each time a
\* ruling has taken it down.  Resolutions in flight together may each credit.
THEOREM PaymentsAreBounded == ModerationSpec => PaidOnce
  <1> DEFINE Due ==
          \/ rewards' # rewards
          \/ \E c \in Content : /\ run[c].step = "reward"
                                /\ rulings[c] \intersect HumanVerdict # {}
          \/ \E m \in Resolvers :
                LET c == A!TargetOf(m)
                IN  /\ resolving[m].step = "credit"
                    /\ resolving[m].resolution = "upheld"
                    /\ credits[c] < Cardinality(Resolvers) * (1 + overturns[c])
  <1>1. ASSUME JointInv, [ModerationNext]_moderationVars, reputation' # reputation
        PROVE  Due
    <2>1. CASE PipelineMoves
      BY <1>1, <2>1, NextRewarded DEF PipelineMoves, JointInv
    <2>2. CASE AppealMoves
      <3>1. PICK m \in Resolvers : AppealCredits(m)
        BY <1>1, <2>2 DEF AppealMoves, FilingMoves, ResolvingMoves, AppealPublishes
      <3>2. resolving[m].step = "credit"
        BY <3>1 DEF AppealCredits
      <3>3. credits[AP!TargetOf(m)]
                < AP!Cardinality(Resolvers) * (1 + overturns[AP!TargetOf(m)])
        BY <1>1, <3>2, Premises, AP!CreditHasRoom
        DEF AP!CreditHasRoom, AP!AppealsAssumption, AP!PolicyAssumption, JointInv
      <3>4. resolving[m].resolution = "upheld"
        BY <1>1, <3>2, AppealsFacts DEF JointInv
      <3> QED
        BY <3>2, <3>3, <3>4, SameTarget, SameCardinality
    <2>3. CASE UNCHANGED moderationVars
      BY <1>1, <2>3 DEF moderationVars, vars, effectVars
    <2> QED
      BY <1>1, <2>1, <2>2, <2>3 DEF ModerationNext
  <1>2. JointInv /\ [ModerationNext]_moderationVars =>
            [reputation' # reputation => Due]_moderationVars
    BY <1>1
  <1> QED
    BY <1>2, JointInvariance, PTL DEF ModerationSpec, PaidOnce

\* A step of an appeal is one of the contract, or the ruling it adds.
LEMMA AppealContract ==
    ASSUME JointInv, AppealMoves
    PROVE  \/ Contract!Next
           \/ \E c \in Content : RuleOnAppeal(c)
           \/ UNCHANGED Contract!vars
  <1>1. CASE UNCHANGED <<gateOff, status, rulings>>
    BY <1>1 DEF Contract!vars
  <1>2. CASE FilingMoves
    BY <1>1, <1>2
    DEF FilingMoves, A!OfferForm, A!FilingStepOf, A!SubmitCheck, A!SubmitInsert,
        A!SubmitFails, A!contentVars
  <1>3. ASSUME NEW m \in Resolvers, ResolvingMoves(m) \/ AppealCredits(m), ~A!Audit(m)
        PROVE  UNCHANGED <<gateOff, status, rulings>>
    BY <1>3
    DEF ResolvingMoves, AppealCredits, A!Fetch, A!PublishCheck, A!Credit, A!Mark,
        A!Notify, A!ResolveFails, A!contentVars
  <1>4. ASSUME NEW m \in Resolvers, A!Audit(m)
        PROVE  Contract!Next \/ \E c \in Content : RuleOnAppeal(c)
    <2> DEFINE c == A!TargetOf(m)
    <2>1. /\ c \in Content
          /\ UNCHANGED <<gateOff, status>>
          /\ \E v \in HumanVerdict : rulings' = [rulings EXCEPT ![c] = @ \union {v}]
      BY <1>4, AuditEffect DEF JointInv, RetryInv
    <2>2. \E a \in DOMAIN appeals : appeals[a].target = c
      BY <1>4, AppealsFacts DEF A!Audit, JointInv
    <2>3. "auto_reject" \in rulings[c] \/ rulings[c] \intersect HumanVerdict # {}
      BY <2>1, <2>2 DEF JointInv, AppealsFollowDecision, HumanVerdict
    <2>4. "auto_reject" \in rulings[c] \/ "hold_for_review" \in rulings[c]
      BY <2>1, <2>3 DEF JointInv, HumansRuleOnFlagged
    <2>5. Contract!HumanVerdict = HumanVerdict
      BY SamePolicy
    <2> HIDE DEF c
    <2> QED
      BY <2>1, <2>4, <2>5 DEF RuleOnAppeal, Contract!RuleByHuman, Contract!Next
  <1>5. ASSUME NEW m \in Resolvers, AppealPublishes(m)
        PROVE  Contract!Next
    <2> DEFINE c == A!TargetOf(m)
    <2>1. /\ resolving[m].step = "write"
          /\ status' = [status EXCEPT ![c] = "published"]
          /\ UNCHANGED <<gateOff, rulings>>
      BY <1>5 DEF AppealPublishes, A!PublishWrite
    <2>2. /\ c \in Content /\ "human_publish" \in rulings[c]
          /\ \E a \in DOMAIN appeals : appeals[a].target = c
      BY <2>1, AppealsFacts DEF JointInv
    <2>3. status[c] # "absent"
      BY <2>2 DEF JointInv, AppealsFollowDecision
    <2>4. Contract!VerdictToStatus("human_publish") = "published"
      BY SamePolicy DEF VerdictToStatus
    <2> HIDE DEF c
    <2>5. Contract!Enact(c)
      BY <2>1, <2>2, <2>3, <2>4 DEF Contract!Enact
    <2> QED
      BY <2>2, <2>5 DEF Contract!Next
  <1> QED
    BY <1>1, <1>2, <1>3, <1>4, <1>5 DEF AppealMoves

\* The two together implement the contract of the one, with the one sentence
\* that appeals add to it: a person may rule on what the classifier rejected.
THEOREM ImplementsContract == ModerationSpec => ContractWithAppeals
  <1>1. ModerationInit => Contract!Init
    BY InitContract DEF ModerationInit
  <1>2. JointInv /\ [ModerationNext]_moderationVars =>
            [Contract!Next \/ \E c \in Content : RuleOnAppeal(c)]_(Contract!vars)
    <2> SUFFICES ASSUME JointInv, [ModerationNext]_moderationVars
                 PROVE  \/ Contract!Next
                        \/ \E c \in Content : RuleOnAppeal(c)
                        \/ UNCHANGED Contract!vars
      OBVIOUS
    <2>1. CASE PipelineMoves
      BY <2>1, NextContract DEF PipelineMoves, JointInv, RetryInv
    <2>2. CASE UNCHANGED moderationVars
      BY <2>2 DEF moderationVars, vars, contentVars, Contract!vars
    <2> QED
      BY <2>1, <2>2, AppealContract DEF ModerationNext
  <1> QED
    BY <1>1, <1>2, JointInvariance, PTL DEF ModerationSpec, ContractWithAppeals
===============================================================================
