------------------------ MODULE ModerationPipelineProofs ------------------------
(***************************************************************************)
(* Proofs about ModerationPipeline, for every set of content, authors and  *)
(* moderators, every classifier and every retry budget.  IInv is the       *)
(* inductive invariant; the safety invariants of the model checking runs   *)
(* are conjuncts of it or follow from it, and with its help every step of  *)
(* the pipeline is shown to be a step of EditorialContract or a stutter.   *)
(***************************************************************************)
EXTENDS ModerationPipeline, TLAPS

\* An unfinished job has attempts and stalls left, and only an active job has
\* an attempt in memory.
JobInv ==
    \A c \in Content :
        /\ job[c].state \in {"waiting", "active", "stalled"} =>
              job[c].attempts < MaxAttempts /\ job[c].stalls <= MaxStalls
        /\ run[c].step # "none" => job[c].state = "active"

\* An attempt past the classifier carries a verdict, and has logged it before
\* it looks at the status.
RunInv ==
    \A c \in Content :
        /\ run[c].step \notin {"none", "classify"} => run[c].verdict \in AiVerdict
        /\ run[c].step \notin {"none", "classify", "decision"} =>
              run[c].verdict \in rulings[c]

\* The job follows the create request, and the status follows the attempt:
\* nobody but the attempt itself takes content out of pending_ai.
StageInv ==
    \A c \in Content :
        /\ status[c] = "absent" => request[c].step = "none"
        /\ request[c].step \in {"inserted", "enqueue"} => status[c] = "pending_ai"
        /\ request[c].step # "done" => job[c].state = "none"
        /\ run[c].step = "write" /\ run[c].verdict = "hold_for_review" =>
              status[c] = "pending_ai"
        /\ run[c].step \in {"reward", "notify", "ack"}
              \/ job[c].state = "completed" =>
              status[c] \notin {"absent", "pending_ai"}

\* The failure handler has started only for a job that is over.
HandlerInv ==
    \A c \in Content :
        handler[c] # "none" \/ c \in deadLetters =>
            job[c].state = "failed" /\ job[c].attempts = MaxAttempts

\* Content open in the review queue was held, and is past pending_ai; a
\* moderator past the buttons has logged the ruling.
ReviewInv ==
    \A m \in Moderators :
        /\ review[m].step # "idle" =>
              /\ review[m].item \in Content
              /\ "hold_for_review" \in rulings[review[m].item]
              /\ status[review[m].item] \notin {"absent", "pending_ai"}
        /\ review[m].step \in {"check", "write"} =>
              /\ review[m].verdict \in HumanVerdict
              /\ review[m].verdict \in rulings[review[m].item]

\* A withdrawal past its check is of content that was public on a ruling.
WithdrawInv ==
    \A c \in Content :
        withdrawal[c] =>
            /\ status[c] \notin {"absent", "pending_ai", "pending_review"}
            /\ gateOff \/ Ruled(c, "published")

\* The effects that are still due tell of what the attempt has written, and
\* content that waits for its verdict has had none.
EffectInv ==
    /\ \A c \in Content :
          run[c].step \in {"reward", "notify"} =>
              /\ run[c].verdict # "hold_for_review"
              /\ run[c].verdict = "auto_publish" => everPublished[c]
              /\ run[c].verdict = "auto_reject" => c \in everRejected
    /\ \A c \in Content :
          rewards[c] # {} \/ notices[c] # {} =>
              status[c] \notin {"absent", "pending_ai"}
    /\ EffectsFollowStatus

IInv ==
    /\ TypeOK
    /\ JobInv
    /\ RunInv
    /\ StageInv
    /\ HandlerInv
    /\ ReviewInv
    /\ WithdrawInv
    /\ StatusIsRuled
    /\ EffectInv

-------------------------------------------------------------------------------
(***************************************************************************)
(* The operators the model is built from.                                  *)
(***************************************************************************)

\* The thresholds leave no gap: every answer of a classifier gets a verdict.
LEMMA DecideType == \A scores, rep : Decide(scores, rep) \in AiVerdict
  BY DEF Decide, AiVerdict

\* What each verdict asks for.
LEMMA VerdictStatus ==
    /\ \A v \in Verdict :
          /\ VerdictToStatus(v) \in {"published", "rejected", "pending_review"}
          /\ VerdictToStatus(v) = "pending_review" <=> v = "hold_for_review"
    /\ \A v \in AiVerdict : VerdictToStatus(v) = "published" <=> v = "auto_publish"
    /\ \A v \in AiVerdict : VerdictToStatus(v) = "rejected" <=> v = "auto_reject"
    /\ \A v \in HumanVerdict : VerdictToStatus(v) \in {"published", "rejected"}
    /\ AiVerdict \subseteq Verdict /\ HumanVerdict \subseteq Verdict
    /\ "hold_for_review" \in AiVerdict
    /\ HumanVerdict \intersect AiVerdict = {}
  BY DEF VerdictToStatus, Verdict, AiVerdict, HumanVerdict

\* A reward, or a notification, says which outcome it is for.
LEMMA RewardTells ==
    \A k, s :
        /\ RewardFor(k, s) \in RewardKind
        /\ RewardFor(k, s) \in {"post_accepted", "comment_accepted"} <=>
              s = "published"
        /\ RewardFor(k, s) \in {"post_rejected", "comment_rejected"} <=>
              s # "published"
        /\ Delta[RewardFor(k, s)] \in Int
  BY DEF RewardFor, RewardKind, Delta

LEMMA NoticesTell ==
    \A k, s :
        /\ NoticesFor(k, s) \subseteq NoticeKind
        /\ NoticesFor(k, s) \intersect {"post_published", "comment_reply"} # {} =>
              s = "published"
        /\ "post_rejected" \in NoticesFor(k, s) => s # "published"
  BY DEF NoticesFor, NoticeKind

\* The state machine lets nothing back into pending_ai, and into
\* pending_review only from there.
LEMMA AllowedStatus ==
    \A k \in Kind, from \in ContentStatus : \A to :
        to \in Allowed(k, from) =>
            /\ to \in ContentStatus \ {"pending_ai"}
            /\ to = "pending_review" => from = "pending_ai"
  BY DEF Allowed, PostTransitions, CommentTransitions, ContentStatus, Kind

\* Updates of records that stay within their types.
LEMMA JobUpdate ==
    ASSUME NEW j \in JobType, NEW s \in JobState
    PROVE  /\ [j EXCEPT !.state = s] \in JobType
           /\ \A a \in 0 .. MaxAttempts :
                 [j EXCEPT !.attempts = a, !.state = s] \in JobType
           /\ \A n \in 0 .. MaxStalls + 1 :
                 /\ [j EXCEPT !.state = s, !.stalls = n] \in JobType
                 /\ \A a \in 0 .. MaxAttempts :
                       [j EXCEPT !.state = s, !.stalls = n, !.attempts = a] \in JobType
  BY DEF JobType

LEMMA RunUpdate ==
    ASSUME NEW r \in RunType, NEW s \in RunStep
    PROVE  [r EXCEPT !.step = s] \in RunType
  BY DEF RunType

LEMMA ReviewUpdate ==
    ASSUME NEW r \in ReviewType, NEW s \in ReviewStep, NEW v \in HumanVerdict
    PROVE  /\ [r EXCEPT !.step = s] \in ReviewType
           /\ [r EXCEPT !.step = s, !.verdict = v] \in ReviewType
  BY DEF ReviewType

LEMMA Constants ==
    /\ MaxAttempts \in Nat /\ MaxAttempts > 0 /\ MaxStalls \in Nat
    /\ NoJob \in JobType /\ NoRun \in RunType /\ NoReview \in ReviewType
    /\ NoRun.step = "none" /\ NoReview.step = "idle"
  BY PipelineAssumption
  DEF NoJob, NoRun, NoReview, JobType, RunType, ReviewType,
       JobState, RunStep, ReviewStep, None


-------------------------------------------------------------------------------
(***************************************************************************)
(* The invariant.                                                          *)
(***************************************************************************)

LEMMA InitIInv == Init => IInv
  <1> SUFFICES ASSUME Init PROVE IInv
    OBVIOUS
  <1>1. TypeOK
    <2>1. reputation \in [Authors -> Int]
      BY PipelineAssumption DEF Init
    <2>2. request \in [Content -> RequestType]
      BY DEF Init, RequestType, RequestStep
    <2> QED
      BY <2>1, <2>2, Constants
      DEF Init, TypeOK, ContentStatus, Kind, HandlerStep
  <1>2. /\ JobInv
        /\ RunInv
        /\ StageInv
        /\ HandlerInv
    BY DEF Init, JobInv, RunInv, StageInv, HandlerInv, NoJob, NoRun
  <1>3. /\ ReviewInv
        /\ WithdrawInv
        /\ StatusIsRuled
        /\ EffectInv
    BY DEF Init, ReviewInv, WithdrawInv, StatusIsRuled, EffectInv,
       EffectsFollowStatus, NoReview, NoRun
  <1> QED
    BY <1>1, <1>2, <1>3 DEF IInv

\* A failed attempt is counted, and the handler starts when none is left.
LEMMA FailAttemptInv ==
  ASSUME IInv, NEW c \in Content, run[c].step # "none", FailAttempt(c)
  PROVE  /\ job' \in [Content -> JobType]
         /\ run' \in [Content -> RunType]
         /\ handler' \in [Content -> HandlerStep]
         /\ JobInv'
         /\ deadLetters' = deadLetters => HandlerInv'
  <1> DEFINE used == job[c].attempts + 1
             failed == [job[c] EXCEPT !.attempts = used, !.state = "failed"]
             retried == [job[c] EXCEPT !.attempts = used, !.state = "waiting"]
  <1>1. /\ job[c] \in JobType
        /\ job[c].state = "active"
        /\ job[c].attempts \in 0 .. MaxAttempts
        /\ job[c].attempts < MaxAttempts
        /\ job[c].stalls <= MaxStalls
    BY DEF IInv, TypeOK, JobInv, JobType
  <1>2. used \in 0 .. MaxAttempts
    BY <1>1, Constants
  <1>3. /\ failed \in JobType
        /\ retried \in JobType
    BY <1>1, <1>2, JobUpdate DEF JobState
  <1>4. /\ failed.state = "failed" /\ failed.attempts = used
        /\ retried.state = "waiting" /\ retried.attempts = used
        /\ retried.stalls = job[c].stalls
    BY <1>1 DEF JobType
  <1>5. /\ run' = [run EXCEPT ![c] = NoRun]
        /\ \/ /\ used >= MaxAttempts
              /\ job' = [job EXCEPT ![c] = failed]
              /\ handler' = [handler EXCEPT ![c] = "hold"]
           \/ /\ ~(used >= MaxAttempts)
              /\ job' = [job EXCEPT ![c] = retried]
              /\ handler' = handler
    BY DEF FailAttempt, IInv, TypeOK
  <1> HIDE DEF failed, retried
  <1>6. /\ job' \in [Content -> JobType]
        /\ run' \in [Content -> RunType]
        /\ handler' \in [Content -> HandlerStep]
    BY <1>3, <1>5, Constants DEF IInv, TypeOK, HandlerStep
  <1>7. JobInv'
    <2> SUFFICES ASSUME NEW d \in Content
                 PROVE  /\ job'[d].state \in {"waiting", "active", "stalled"} =>
                             job'[d].attempts < MaxAttempts /\ job'[d].stalls <= MaxStalls
                        /\ run'[d].step # "none" => job'[d].state = "active"
      BY DEF JobInv
    <2>1. CASE d = c
      BY <2>1, <1>1, <1>2, <1>4, <1>5, Constants DEF IInv, TypeOK
    <2>2. CASE d # c
      BY <2>2, <1>5 DEF IInv, TypeOK, JobInv
    <2> QED
      BY <2>1, <2>2
  <1>8. ASSUME deadLetters' = deadLetters PROVE HandlerInv'
    <2>1. handler[c] = "none" /\ c \notin deadLetters
      BY <1>1 DEF IInv, HandlerInv
    <2> SUFFICES ASSUME NEW d \in Content,
                        handler'[d] # "none" \/ d \in deadLetters'
                 PROVE  job'[d].state = "failed" /\ job'[d].attempts = MaxAttempts
      BY DEF HandlerInv
    <2>2. CASE d = c
      <3>1. used >= MaxAttempts /\ job' = [job EXCEPT ![c] = failed]
        BY <2>1, <2>2, <1>5, <1>8 DEF IInv, TypeOK
      <3>2. used = MaxAttempts
        BY <3>1, <1>1, <1>2, Constants
      <3> QED
        BY <2>2, <3>1, <3>2, <1>4 DEF IInv, TypeOK
    <2>3. CASE d # c
      BY <2>3, <1>5, <1>8 DEF IInv, TypeOK, HandlerInv
    <2> QED
      BY <2>2, <2>3
  <1> QED
    BY <1>6, <1>7, <1>8

\* A job that stalls is delivered again or fails.
LEMMA RecoverStalledInv ==
  ASSUME IInv, NEW c \in Content, RecoverStalled(c)
  PROVE  /\ job' \in [Content -> JobType]
         /\ handler' \in [Content -> HandlerStep]
         /\ JobInv'
         /\ StageInv'
         /\ HandlerInv'
  <1> DEFINE stalls == job[c].stalls + 1
             used == job[c].attempts + 1
             again == [job[c] EXCEPT !.state = "waiting", !.stalls = stalls]
             failed == [job[c] EXCEPT !.state = "failed", !.stalls = stalls,
                                      !.attempts = used]
  <1>1. /\ job[c] \in JobType
        /\ job[c].state = "stalled"
        /\ job[c].attempts \in 0 .. MaxAttempts
        /\ job[c].attempts < MaxAttempts
        /\ job[c].stalls \in 0 .. MaxStalls + 1
        /\ job[c].stalls <= MaxStalls
    BY DEF IInv, TypeOK, JobInv, JobType, RecoverStalled
  <1>2. /\ used \in 0 .. MaxAttempts
        /\ stalls \in 0 .. MaxStalls + 1
    BY <1>1, Constants
  <1>3. /\ again \in JobType
        /\ failed \in JobType
    BY <1>1, <1>2, JobUpdate DEF JobState
  <1>4. /\ again.state = "waiting" /\ again.stalls = stalls
        /\ again.attempts = job[c].attempts
        /\ failed.state = "failed" /\ failed.attempts = used
    BY <1>1 DEF JobType
  <1>5. /\ UNCHANGED <<run, request, status, deadLetters>>
        /\ \/ /\ stalls <= MaxStalls
              /\ job' = [job EXCEPT ![c] = again]
              /\ handler' = handler
           \/ /\ job' = [job EXCEPT ![c] = failed]
              /\ handler' = [handler EXCEPT
                    ![c] = IF used >= MaxAttempts THEN "hold" ELSE @]
    BY DEF RecoverStalled, contentVars, effectVars
  <1> HIDE DEF again, failed
  <1>6. /\ job' \in [Content -> JobType]
        /\ handler' \in [Content -> HandlerStep]
    BY <1>3, <1>5 DEF IInv, TypeOK, HandlerStep
  <1>7. run[c].step = "none" /\ handler[c] = "none" /\ c \notin deadLetters
    BY <1>1 DEF IInv, JobInv, HandlerInv
  <1>8. JobInv'
    BY <1>1, <1>4, <1>5, <1>7 DEF IInv, TypeOK, JobInv
  <1>9. StageInv'
    BY <1>1, <1>4, <1>5, <1>7 DEF IInv, TypeOK, StageInv
  <1>10. HandlerInv'
    <2> SUFFICES ASSUME NEW d \in Content, handler'[d] # "none" \/ d \in deadLetters'
                 PROVE  job'[d].state = "failed" /\ job'[d].attempts = MaxAttempts
      BY DEF HandlerInv
    <2>1. CASE d = c
      <3>1. used >= MaxAttempts /\ job' = [job EXCEPT ![c] = failed]
        BY <2>1, <1>5, <1>7 DEF IInv, TypeOK
      <3>2. used = MaxAttempts
        BY <3>1, <1>1, <1>2, Constants
      <3> QED
        BY <2>1, <3>1, <3>2, <1>4 DEF IInv, TypeOK
    <2>2. CASE d # c
      BY <2>2, <1>5 DEF IInv, TypeOK, HandlerInv
    <2> QED
      BY <2>1, <2>2
  <1> QED
    BY <1>6, <1>8, <1>9, <1>10

LEMMA NextIInv == IInv /\ [Next]_vars => IInv'
  <1> SUFFICES ASSUME IInv, [Next]_vars PROVE IInv'
    OBVIOUS
  <1> USE DEF contentVars, effectVars, workerVars, humanVars

  <1>1. ASSUME NEW c \in Content, CreatePost(c) PROVE IInv'
    <2>1. TypeOK'
      <3>1. [request[c] EXCEPT !.step = "inserted"] \in RequestType
        BY DEF IInv, TypeOK, RequestType, RequestStep
      <3> QED
        BY <1>1, <3>1 DEF IInv, CreatePost, TypeOK, ContentStatus, Kind
    <2>2. StageInv'
      BY <1>1 DEF IInv, CreatePost, StageInv, TypeOK
    <2>3. ReviewInv'
      BY <1>1 DEF IInv, CreatePost, ReviewInv, TypeOK
    <2>4. WithdrawInv'
      BY <1>1 DEF IInv, CreatePost, WithdrawInv, Ruled, TypeOK
    <2>5. StatusIsRuled'
      BY <1>1 DEF IInv, CreatePost, StatusIsRuled, Ruled, TypeOK
    <2>6. EffectInv'
      BY <1>1
      DEF IInv, CreatePost, EffectInv, EffectsFollowStatus, TypeOK, StageInv,
          JobInv, ContentStatus
    <2> QED
      BY <1>1, <2>1, <2>2, <2>3, <2>4, <2>5, <2>6
      DEF IInv, CreatePost, JobInv, RunInv, HandlerInv

  <1>2. ASSUME NEW c \in Content, CreateComment(c) PROVE IInv'
    <2>1. TypeOK'
      <3>1. [request[c] EXCEPT !.step = "inserted"] \in RequestType
        BY DEF IInv, TypeOK, RequestType, RequestStep
      <3> QED
        BY <1>2, <3>1 DEF IInv, CreateComment, TypeOK, ContentStatus, Kind
    <2>2. StageInv'
      BY <1>2 DEF IInv, CreateComment, StageInv, TypeOK
    <2>3. ReviewInv'
      BY <1>2 DEF IInv, CreateComment, ReviewInv, TypeOK
    <2>4. WithdrawInv'
      BY <1>2 DEF IInv, CreateComment, WithdrawInv, Ruled, TypeOK
    <2>5. StatusIsRuled'
      BY <1>2 DEF IInv, CreateComment, StatusIsRuled, Ruled, TypeOK
    <2>6. EffectInv'
      BY <1>2
      DEF IInv, CreateComment, EffectInv, EffectsFollowStatus, TypeOK,
          StageInv, JobInv, ContentStatus
    <2> QED
      BY <1>2, <2>1, <2>2, <2>3, <2>4, <2>5, <2>6
      DEF IInv, CreateComment, JobInv, RunInv, HandlerInv

  <1>3. ASSUME NEW c \in Content, FastPublish(c) PROVE IInv'
    <2>1. TypeOK'
      <3>1. [request[c] EXCEPT !.step = "done"] \in RequestType
        BY DEF IInv, TypeOK, RequestType, RequestStep
      <3> QED
        BY <1>3, <3>1 DEF IInv, FastPublish, TypeOK, ContentStatus, SetStatus
    <2>2. StageInv'
      BY <1>3 DEF IInv, FastPublish, SetStatus, StageInv, TypeOK, JobInv
    <2>3. ReviewInv'
      BY <1>3 DEF IInv, FastPublish, SetStatus, ReviewInv, TypeOK
    <2>4. WithdrawInv'
      BY <1>3 DEF IInv, FastPublish, SetStatus, WithdrawInv, Ruled, TypeOK
    <2>5. StatusIsRuled'
      BY <1>3 DEF IInv, FastPublish, SetStatus, StatusIsRuled, Ruled, TypeOK
    <2>6. EffectInv'
      BY <1>3
      DEF IInv, FastPublish, SetStatus, EffectInv, EffectsFollowStatus, TypeOK
    <2> QED
      BY <1>3, <2>1, <2>2, <2>3, <2>4, <2>5, <2>6
      DEF IInv, FastPublish, SetStatus, JobInv, RunInv, HandlerInv

  <1>4. ASSUME NEW c \in Content, ReadContext(c) PROVE IInv'
    <2>1. TypeOK'
      <3>1. [step |-> "enqueue", reputation |-> reputation[AuthorOf[c]]] \in RequestType
        BY PipelineAssumption DEF IInv, TypeOK, RequestType, RequestStep
      <3> QED
        BY <1>4, <3>1 DEF IInv, ReadContext, TypeOK
    <2>2. StageInv'
      BY <1>4 DEF IInv, ReadContext, StageInv, TypeOK
    <2> QED
      BY <1>4, <2>1, <2>2
      DEF IInv, ReadContext, JobInv, RunInv, HandlerInv, ReviewInv,
          WithdrawInv, StatusIsRuled, EffectInv,
          EffectsFollowStatus, Ruled

  <1>5. ASSUME NEW c \in Content, Enqueue(c) PROVE IInv'
    <2>1. TypeOK'
      <3>1. [request[c] EXCEPT !.step = "done"] \in RequestType
        BY DEF IInv, TypeOK, RequestType, RequestStep
      <3>2. request[c].reputation \in Int
        BY DEF IInv, TypeOK, RequestType
      <3>3. [NoJob EXCEPT !.state = "waiting",
                          !.reputation = request[c].reputation] \in JobType
        BY <3>2, Constants DEF JobType, JobState
      <3> QED
        BY <1>5, <3>1, <3>2, <3>3 DEF IInv, Enqueue, TypeOK
    <2>2. JobInv'
      BY <1>5, Constants DEF IInv, Enqueue, NoJob, JobInv, TypeOK, StageInv
    <2>3. StageInv'
      BY <1>5 DEF IInv, Enqueue, NoJob, StageInv, TypeOK
    <2>4. HandlerInv'
      BY <1>5 DEF IInv, Enqueue, NoJob, HandlerInv, TypeOK, StageInv
    <2> QED
      BY <1>5, <2>1, <2>2, <2>3, <2>4
      DEF IInv, Enqueue, NoJob, RunInv, ReviewInv, WithdrawInv, StatusIsRuled,
          EffectInv, EffectsFollowStatus, Ruled

  <1>6. ASSUME NEW c \in Content, CreateLost(c) PROVE IInv'
    <2>1. TypeOK'
      <3>1. [request[c] EXCEPT !.step = "done"] \in RequestType
        BY DEF IInv, TypeOK, RequestType, RequestStep
      <3> QED
        BY <1>6, <3>1 DEF IInv, CreateLost, TypeOK
    <2>2. StageInv'
      BY <1>6 DEF IInv, CreateLost, StageInv, TypeOK
    <2> QED
      BY <1>6, <2>1, <2>2
      DEF IInv, CreateLost, JobInv, RunInv, HandlerInv, ReviewInv, WithdrawInv,
          StatusIsRuled, EffectInv, EffectsFollowStatus,
          Ruled

  <1>7. ASSUME NEW c \in Content, StartAttempt(c) PROVE IInv'
    <2>1. TypeOK'
      <3>1. [job[c] EXCEPT !.state = "active"] \in JobType
        BY JobUpdate DEF IInv, TypeOK, JobState
      <3>2. [run[c] EXCEPT !.step = "classify"] \in RunType
        BY RunUpdate DEF IInv, TypeOK, RunStep
      <3> QED
        BY <1>7, <3>1, <3>2 DEF IInv, StartAttempt, TypeOK
    <2>2. JobInv'
      BY <1>7 DEF IInv, StartAttempt, JobInv, TypeOK
    <2>3. RunInv'
      BY <1>7 DEF IInv, StartAttempt, RunInv, TypeOK
    <2>4. StageInv'
      BY <1>7 DEF IInv, StartAttempt, StageInv, TypeOK
    <2>5. HandlerInv'
      BY <1>7 DEF IInv, StartAttempt, HandlerInv, TypeOK
    <2>6. EffectInv'
      BY <1>7 DEF IInv, StartAttempt, EffectInv, EffectsFollowStatus, TypeOK
    <2> QED
      BY <1>7, <2>1, <2>2, <2>3, <2>4, <2>5, <2>6
      DEF IInv, StartAttempt, ReviewInv, WithdrawInv, StatusIsRuled, Ruled

  <1>8. ASSUME NEW c \in Content, Classify(c) PROVE IInv'
    <2>1. TypeOK'
      <3>1. \A r \in Results :
              [step |-> "decision", result |-> r,
               verdict |-> Decide(r.scores, job[c].reputation)] \in RunType
        BY DecideType DEF RunType, RunStep
      <3> QED
        BY <1>8, <3>1 DEF IInv, Classify, TypeOK
    <2>2. JobInv'
      BY <1>8 DEF IInv, Classify, JobInv, TypeOK
    <2>3. RunInv'
      BY <1>8, DecideType DEF IInv, Classify, RunInv, TypeOK
    <2>4. StageInv'
      BY <1>8 DEF IInv, Classify, StageInv, TypeOK
    <2>5. EffectInv'
      BY <1>8 DEF IInv, Classify, EffectInv, EffectsFollowStatus, TypeOK
    <2> QED
      BY <1>8, <2>1, <2>2, <2>3, <2>4, <2>5
      DEF IInv, Classify, HandlerInv, ReviewInv, WithdrawInv, StatusIsRuled, Ruled

  <1>9. ASSUME NEW c \in Content, WriteDecision(c) PROVE IInv'
    <2>1. TypeOK'
      <3>1. [run[c] EXCEPT !.step = "check"] \in RunType
        BY RunUpdate DEF IInv, TypeOK, RunStep
      <3>2. run[c].verdict \in Verdict
        BY <1>9, VerdictStatus DEF IInv, RunInv, WriteDecision
      <3> QED
        BY <1>9, <3>1, <3>2 DEF IInv, WriteDecision, TypeOK, LogRuling
    <2>2. JobInv'
      BY <1>9 DEF IInv, WriteDecision, LogRuling, JobInv, TypeOK
    <2>3. RunInv'
      BY <1>9 DEF IInv, WriteDecision, LogRuling, RunInv, TypeOK
    <2>4. StageInv'
      BY <1>9 DEF IInv, WriteDecision, LogRuling, StageInv, TypeOK
    <2>5. ReviewInv'
      BY <1>9 DEF IInv, WriteDecision, LogRuling, ReviewInv, TypeOK
    <2>6. WithdrawInv'
      BY <1>9 DEF IInv, WriteDecision, LogRuling, WithdrawInv, Ruled, TypeOK
    <2>7. StatusIsRuled'
      BY <1>9 DEF IInv, WriteDecision, LogRuling, StatusIsRuled, Ruled, TypeOK
    <2>8. EffectInv'
      BY <1>9
      DEF IInv, WriteDecision, LogRuling, EffectInv, EffectsFollowStatus,
          TypeOK
    <2> QED
      BY <1>9, <2>1, <2>2, <2>3, <2>4, <2>5, <2>6, <2>7, <2>8
      DEF IInv, WriteDecision, LogRuling, HandlerInv

  <1>10. ASSUME NEW c \in Content, CheckStatus(c) PROVE IInv'
    <2>1. TypeOK'
      <3>1. [run[c] EXCEPT !.step = "write"] \in RunType
        BY RunUpdate DEF IInv, TypeOK, RunStep
      <3> QED
        BY <1>10, <3>1 DEF IInv, CheckStatus, TypeOK
    <2>2. JobInv'
      BY <1>10 DEF IInv, CheckStatus, Legal, JobInv, TypeOK
    <2>3. RunInv'
      BY <1>10 DEF IInv, CheckStatus, Legal, RunInv, TypeOK
    <2>4. StageInv'
      <3>1. run[c].verdict = "hold_for_review" => status[c] = "pending_ai"
        BY <1>10, AllowedStatus, VerdictStatus
        DEF IInv, CheckStatus, Legal, TypeOK, StageInv, JobInv
      <3> QED
        BY <1>10, <3>1 DEF IInv, CheckStatus, TypeOK, StageInv
    <2>5. EffectInv'
      BY <1>10
      DEF IInv, CheckStatus, Legal, EffectInv, EffectsFollowStatus, TypeOK
    <2> QED
      BY <1>10, <2>1, <2>2, <2>3, <2>4, <2>5
      DEF IInv, CheckStatus, Legal, HandlerInv, ReviewInv, WithdrawInv,
          StatusIsRuled, Ruled

  <1>11. ASSUME NEW c \in Content, RefuseTransition(c) PROVE IInv'
    <2>1. TypeOK'
      <3>1. /\ job' \in [Content -> JobType]
           /\ run' \in [Content -> RunType]
           /\ handler' \in [Content -> HandlerStep]
        BY <1>11, FailAttemptInv DEF RefuseTransition
      <3> QED
        BY <1>11, <3>1 DEF IInv, RefuseTransition, TypeOK
    <2>2. JobInv'
      BY <1>11, FailAttemptInv DEF RefuseTransition
    <2>3. RunInv'
      BY <1>11 DEF IInv, RefuseTransition, FailAttempt, NoRun, RunInv, TypeOK
    <2>4. StageInv'
      BY <1>11
      DEF IInv, RefuseTransition, FailAttempt, NoRun, StageInv, TypeOK, JobInv
    <2>5. HandlerInv'
      BY <1>11, FailAttemptInv DEF RefuseTransition
    <2>6. EffectInv'
      BY <1>11
      DEF IInv, RefuseTransition, FailAttempt, NoRun, EffectInv,
          EffectsFollowStatus, TypeOK
    <2> QED
      BY <1>11, <2>1, <2>2, <2>3, <2>4, <2>5, <2>6
      DEF IInv, RefuseTransition, FailAttempt, NoRun, ReviewInv, WithdrawInv,
          StatusIsRuled, Ruled

  <1>12. ASSUME NEW c \in Content, WriteStatus(c) PROVE IInv'
    <2>1. TypeOK'
      <3>1. VerdictToStatus(run[c].verdict) \in ContentStatus
        BY <1>12, VerdictStatus DEF IInv, RunInv, WriteStatus, ContentStatus
      <3>2. [run[c] EXCEPT !.step = "ack"] \in RunType
        BY RunUpdate DEF IInv, TypeOK, RunStep
      <3>3. [run[c] EXCEPT !.step = "reward"] \in RunType
        BY RunUpdate DEF IInv, TypeOK, RunStep
      <3> QED
        BY <1>12, <3>1, <3>2, <3>3 DEF IInv, WriteStatus, TypeOK, SetStatus
    <2>2. JobInv'
      BY <1>12 DEF IInv, WriteStatus, SetStatus, JobInv, TypeOK
    <2>3. RunInv'
      BY <1>12 DEF IInv, WriteStatus, SetStatus, RunInv, TypeOK
    <2>4. StageInv'
      BY <1>12, VerdictStatus
      DEF IInv, WriteStatus, SetStatus, StageInv, TypeOK, JobInv, RunInv
    <2>5. ReviewInv'
      BY <1>12, VerdictStatus
      DEF IInv, WriteStatus, SetStatus, ReviewInv, TypeOK, RunInv
    <2>6. WithdrawInv'
      BY <1>12, VerdictStatus
      DEF IInv, WriteStatus, SetStatus, WithdrawInv, Ruled, TypeOK, JobInv,
          RunInv, StageInv
    <2>7. StatusIsRuled'
      BY <1>12, VerdictStatus
      DEF IInv, WriteStatus, SetStatus, StatusIsRuled, Ruled, TypeOK, RunInv
    <2>8. EffectInv'
      <3>1. run[c].verdict \in AiVerdict /\ run[c].verdict \in rulings[c]
        BY <1>12 DEF IInv, WriteStatus, RunInv
      <3> DEFINE newStatus == VerdictToStatus(run[c].verdict)
      <3>2. /\ newStatus \notin {"absent", "pending_ai"}
            /\ newStatus = "published" <=> run[c].verdict = "auto_publish"
            /\ newStatus = "rejected" <=> run[c].verdict = "auto_reject"
            /\ newStatus = "pending_review" <=> run[c].verdict = "hold_for_review"
        BY <3>1, VerdictStatus
      <3>3. /\ status' = [status EXCEPT ![c] = newStatus]
            /\ everPublished' = [everPublished EXCEPT ![c] = @ \/ newStatus = "published"]
            /\ everRejected' =
                  everRejected \union {d \in {c} : newStatus = "rejected"}
            /\ run' = [run EXCEPT
                  ![c].step = IF newStatus = "pending_review" THEN "ack" ELSE "reward"]
            /\ UNCHANGED <<rewards, notices, rulings>>
        BY <1>12 DEF WriteStatus, SetStatus
      <3> HIDE DEF newStatus
      <3>4. /\ status' \in [Content -> ContentStatus \union {"absent"}]
            /\ \A d \in Content : everPublished[d] => everPublished'[d]
            /\ newStatus = "published" => everPublished'[c]
            /\ everRejected \subseteq everRejected'
            /\ newStatus = "rejected" => c \in everRejected'
        BY <2>1, <3>3 DEF IInv, TypeOK
      <3>5. \A d \in Content :
              run'[d].step \in {"reward", "notify"} =>
                  /\ run'[d].verdict # "hold_for_review"
                  /\ run'[d].verdict = "auto_publish" => everPublished'[d]
                  /\ run'[d].verdict = "auto_reject" => d \in everRejected'
        <4> SUFFICES ASSUME NEW d \in Content, run'[d].step \in {"reward", "notify"}
                     PROVE  /\ run'[d].verdict # "hold_for_review"
                            /\ run'[d].verdict = "auto_publish" => everPublished'[d]
                            /\ run'[d].verdict = "auto_reject" => d \in everRejected'
          OBVIOUS
        <4>1. CASE d = c
          <5>1. /\ run'[c].verdict = run[c].verdict
                /\ newStatus # "pending_review"
            BY <4>1, <3>3 DEF IInv, TypeOK, RunType
          <5> QED
            BY <4>1, <5>1, <3>2, <3>4
        <4>2. CASE d # c
          BY <4>2, <3>3, <3>4 DEF IInv, TypeOK, EffectInv
        <4> QED
          BY <4>1, <4>2
      <3>6. \A d \in Content :
              status[d] \notin {"absent", "pending_ai"} =>
                  status'[d] \notin {"absent", "pending_ai"}
        BY <3>2, <3>3 DEF IInv, TypeOK
      <3> QED
        BY <3>3, <3>4, <3>5, <3>6 DEF IInv, EffectInv, EffectsFollowStatus
    <2> QED
      BY <1>12, <2>1, <2>2, <2>3, <2>4, <2>5, <2>6, <2>7, <2>8
      DEF IInv, WriteStatus, SetStatus, HandlerInv

  <1>13. ASSUME NEW c \in Content, AttemptFails(c) PROVE IInv'
    <2>1. TypeOK'
      <3>1. /\ job' \in [Content -> JobType]
           /\ run' \in [Content -> RunType]
           /\ handler' \in [Content -> HandlerStep]
        BY <1>13, FailAttemptInv DEF AttemptFails
      <3> QED
        BY <1>13, <3>1 DEF IInv, AttemptFails, TypeOK
    <2>2. JobInv'
      BY <1>13, FailAttemptInv DEF AttemptFails
    <2>3. RunInv'
      BY <1>13 DEF IInv, AttemptFails, FailAttempt, NoRun, RunInv, TypeOK
    <2>4. StageInv'
      BY <1>13
      DEF IInv, AttemptFails, FailAttempt, NoRun, StageInv, TypeOK, JobInv
    <2>5. HandlerInv'
      BY <1>13, FailAttemptInv DEF AttemptFails
    <2>6. EffectInv'
      BY <1>13
      DEF IInv, AttemptFails, FailAttempt, NoRun, EffectInv,
          EffectsFollowStatus, TypeOK
    <2> QED
      BY <1>13, <2>1, <2>2, <2>3, <2>4, <2>5, <2>6
      DEF IInv, AttemptFails, FailAttempt, NoRun, ReviewInv, WithdrawInv,
          StatusIsRuled, Ruled

  <1>14. ASSUME NEW c \in Content, Reward(c) PROVE IInv'
    <2>1. TypeOK'
      <3>1. [run[c] EXCEPT !.step = "notify"] \in RunType
        BY RunUpdate DEF IInv, TypeOK, RunStep
      <3>2. AuthorOf[c] \in Authors
        BY PipelineAssumption
      <3> QED
        BY <1>14, <3>1, <3>2, RewardTells DEF IInv, Reward, TypeOK
    <2>2. JobInv'
      BY <1>14 DEF IInv, Reward, JobInv, TypeOK
    <2>3. RunInv'
      BY <1>14 DEF IInv, Reward, RunInv, TypeOK
    <2>4. StageInv'
      BY <1>14 DEF IInv, Reward, StageInv, TypeOK
    <2>5. EffectInv'
      <3>1. /\ run[c].verdict \in AiVerdict /\ run[c].verdict \in rulings[c]
             /\ status[c] \notin {"absent", "pending_ai"}
        BY <1>14 DEF IInv, Reward, RunInv, StageInv
      <3> QED
        BY <1>14, <3>1, VerdictStatus, RewardTells
        DEF IInv, Reward, TypeOK, EffectInv, EffectsFollowStatus
    <2> QED
      BY <1>14, <2>1, <2>2, <2>3, <2>4, <2>5
      DEF IInv, Reward, HandlerInv, ReviewInv, WithdrawInv, StatusIsRuled, Ruled

  <1>15. ASSUME NEW c \in Content, RewardFails(c) PROVE IInv'
    <2>1. TypeOK'
      <3>1. [run[c] EXCEPT !.step = "notify"] \in RunType
        BY RunUpdate DEF IInv, TypeOK, RunStep
      <3> QED
        BY <1>15, <3>1 DEF IInv, RewardFails, TypeOK
    <2>2. JobInv'
      BY <1>15 DEF IInv, RewardFails, JobInv, TypeOK
    <2>3. RunInv'
      BY <1>15 DEF IInv, RewardFails, RunInv, TypeOK
    <2>4. StageInv'
      BY <1>15 DEF IInv, RewardFails, StageInv, TypeOK
    <2>5. EffectInv'
      BY <1>15 DEF IInv, RewardFails, EffectInv, EffectsFollowStatus, TypeOK
    <2> QED
      BY <1>15, <2>1, <2>2, <2>3, <2>4, <2>5
      DEF IInv, RewardFails, HandlerInv, ReviewInv, WithdrawInv, StatusIsRuled, Ruled

  <1>16. ASSUME NEW c \in Content, Notify(c) PROVE IInv'
    <2>1. TypeOK'
      <3>1. [run[c] EXCEPT !.step = "ack"] \in RunType
        BY RunUpdate DEF IInv, TypeOK, RunStep
      <3> QED
        BY <1>16, <3>1, NoticesTell DEF IInv, Notify, TypeOK
    <2>2. JobInv'
      BY <1>16 DEF IInv, Notify, JobInv, TypeOK
    <2>3. RunInv'
      BY <1>16 DEF IInv, Notify, RunInv, TypeOK
    <2>4. StageInv'
      BY <1>16 DEF IInv, Notify, StageInv, TypeOK
    <2>5. EffectInv'
      <3>1. /\ run[c].verdict \in AiVerdict /\ run[c].verdict \in rulings[c]
             /\ status[c] \notin {"absent", "pending_ai"}
        BY <1>16 DEF IInv, Notify, RunInv, StageInv
      <3> QED
        BY <1>16, <3>1, VerdictStatus, NoticesTell
        DEF IInv, Notify, TypeOK, EffectInv, EffectsFollowStatus
    <2> QED
      BY <1>16, <2>1, <2>2, <2>3, <2>4, <2>5
      DEF IInv, Notify, HandlerInv, ReviewInv, WithdrawInv, StatusIsRuled, Ruled

  <1>17. ASSUME NEW c \in Content, Complete(c) PROVE IInv'
    <2>1. TypeOK'
      <3>1. [job[c] EXCEPT !.state = "completed"] \in JobType
        BY JobUpdate DEF IInv, TypeOK, JobState
      <3> QED
        BY <1>17, <3>1, Constants DEF IInv, Complete, TypeOK
    <2>2. JobInv'
      BY <1>17 DEF IInv, Complete, NoRun, JobInv, TypeOK
    <2>3. RunInv'
      BY <1>17 DEF IInv, Complete, NoRun, RunInv, TypeOK
    <2>4. StageInv'
      BY <1>17 DEF IInv, Complete, NoRun, StageInv, TypeOK, JobInv
    <2>5. HandlerInv'
      BY <1>17 DEF IInv, Complete, NoRun, HandlerInv, TypeOK, JobInv
    <2>6. EffectInv'
      BY <1>17 DEF IInv, Complete, NoRun, EffectInv, EffectsFollowStatus, TypeOK
    <2> QED
      BY <1>17, <2>1, <2>2, <2>3, <2>4, <2>5, <2>6
      DEF IInv, Complete, NoRun, ReviewInv, WithdrawInv, StatusIsRuled, Ruled

  <1>18. ASSUME NEW c \in Content, CrashAttempt(c) PROVE IInv'
    <2>1. TypeOK'
      <3>1. [job[c] EXCEPT !.state = "stalled"] \in JobType
        BY JobUpdate DEF IInv, TypeOK, JobState
      <3> QED
        BY <1>18, <3>1, Constants DEF IInv, CrashAttempt, TypeOK
    <2>2. JobInv'
      BY <1>18 DEF IInv, CrashAttempt, NoRun, JobInv, TypeOK
    <2>3. RunInv'
      BY <1>18 DEF IInv, CrashAttempt, NoRun, RunInv, TypeOK
    <2>4. StageInv'
      BY <1>18 DEF IInv, CrashAttempt, NoRun, StageInv, TypeOK
    <2>5. HandlerInv'
      BY <1>18 DEF IInv, CrashAttempt, NoRun, HandlerInv, TypeOK
    <2>6. EffectInv'
      BY <1>18
      DEF IInv, CrashAttempt, NoRun, EffectInv, EffectsFollowStatus, TypeOK
    <2> QED
      BY <1>18, <2>1, <2>2, <2>3, <2>4, <2>5, <2>6
      DEF IInv, CrashAttempt, NoRun, ReviewInv, WithdrawInv, StatusIsRuled, Ruled

  <1>19. ASSUME NEW c \in Content, RecoverStalled(c) PROVE IInv'
    <2>1. TypeOK'
      BY <1>19, RecoverStalledInv DEF IInv, RecoverStalled, TypeOK
    <2>2. JobInv'
      BY <1>19, RecoverStalledInv
    <2>3. StageInv'
      BY <1>19, RecoverStalledInv
    <2>4. HandlerInv'
      BY <1>19, RecoverStalledInv
    <2> QED
      BY <1>19, <2>1, <2>2, <2>3, <2>4
      DEF IInv, RecoverStalled, RunInv, ReviewInv, WithdrawInv, StatusIsRuled,
          EffectInv, EffectsFollowStatus, Ruled

  <1>20. ASSUME NEW c \in Content, HandlerHold(c) PROVE IInv'
    <2>1. TypeOK'
      BY <1>20
      DEF IInv, HandlerHold, TypeOK, LogRuling, HandlerStep, Verdict, AiVerdict
    <2>2. RunInv'
      BY <1>20 DEF IInv, HandlerHold, LogRuling, RunInv, TypeOK
    <2>3. HandlerInv'
      BY <1>20 DEF IInv, HandlerHold, LogRuling, HandlerInv, TypeOK
    <2>4. ReviewInv'
      BY <1>20 DEF IInv, HandlerHold, LogRuling, ReviewInv, TypeOK
    <2>5. WithdrawInv'
      BY <1>20 DEF IInv, HandlerHold, LogRuling, WithdrawInv, Ruled, TypeOK
    <2>6. StatusIsRuled'
      BY <1>20 DEF IInv, HandlerHold, LogRuling, StatusIsRuled, Ruled, TypeOK
    <2>7. EffectInv'
      BY <1>20
      DEF IInv, HandlerHold, LogRuling, EffectInv, EffectsFollowStatus, TypeOK
    <2> QED
      BY <1>20, <2>1, <2>2, <2>3, <2>4, <2>5, <2>6, <2>7
      DEF IInv, HandlerHold, LogRuling, JobInv, StageInv

  <1>21. ASSUME NEW c \in Content, HandlerDeadLetter(c) PROVE IInv'
    <2>1. TypeOK'
      BY <1>21 DEF IInv, HandlerDeadLetter, TypeOK, HandlerStep
    <2>2. HandlerInv'
      BY <1>21 DEF IInv, HandlerDeadLetter, HandlerInv, TypeOK
    <2> QED
      BY <1>21, <2>1, <2>2
      DEF IInv, HandlerDeadLetter, JobInv, RunInv, StageInv, ReviewInv,
          WithdrawInv, StatusIsRuled, EffectInv,
          EffectsFollowStatus, Ruled

  <1>22. ASSUME NEW c \in Content, HandlerLost(c) PROVE IInv'
    <2>1. TypeOK'
      BY <1>22 DEF IInv, HandlerLost, TypeOK, HandlerStep
    <2>2. HandlerInv'
      BY <1>22 DEF IInv, HandlerLost, HandlerInv, TypeOK
    <2> QED
      BY <1>22, <2>1, <2>2
      DEF IInv, HandlerLost, JobInv, RunInv, StageInv, ReviewInv, WithdrawInv,
          StatusIsRuled, EffectInv, EffectsFollowStatus,
          Ruled

  <1>23. ASSUME NEW c \in Content, WithdrawCheck(c) PROVE IInv'
    <2>1. TypeOK'
      BY <1>23 DEF IInv, WithdrawCheck, TypeOK
    <2>2. WithdrawInv'
      BY <1>23
      DEF IInv, WithdrawCheck, WithdrawInv, StatusIsRuled, Ruled, TypeOK
    <2> QED
      BY <1>23, <2>1, <2>2
      DEF IInv, WithdrawCheck, JobInv, RunInv, StageInv, HandlerInv, ReviewInv,
          StatusIsRuled, EffectInv, EffectsFollowStatus,
          Ruled

  <1>24. ASSUME NEW c \in Content, WithdrawWrite(c) PROVE IInv'
    <2>1. TypeOK'
      BY <1>24 DEF IInv, WithdrawWrite, TypeOK, SetStatus, ContentStatus
    <2>2. StageInv'
      BY <1>24
      DEF IInv, WithdrawWrite, SetStatus, WithdrawInv, StageInv, Ruled, TypeOK
    <2>3. ReviewInv'
      BY <1>24 DEF IInv, WithdrawWrite, SetStatus, ReviewInv, TypeOK
    <2>4. WithdrawInv'
      BY <1>24 DEF IInv, WithdrawWrite, SetStatus, WithdrawInv, Ruled, TypeOK
    <2>5. StatusIsRuled'
      BY <1>24
      DEF IInv, WithdrawWrite, SetStatus, WithdrawInv, StatusIsRuled, Ruled,
          TypeOK
    <2>6. EffectInv'
      BY <1>24
      DEF IInv, WithdrawWrite, SetStatus, EffectInv, EffectsFollowStatus,
          TypeOK
    <2> QED
      BY <1>24, <2>1, <2>2, <2>3, <2>4, <2>5, <2>6
      DEF IInv, WithdrawWrite, SetStatus, JobInv, RunInv, HandlerInv

  <1>25. ASSUME NEW c \in Content, WithdrawFails(c) PROVE IInv'
    <2>1. TypeOK'
      BY <1>25 DEF IInv, WithdrawFails, TypeOK
    <2>2. WithdrawInv'
      BY <1>25 DEF IInv, WithdrawFails, WithdrawInv, Ruled, TypeOK
    <2> QED
      BY <1>25, <2>1, <2>2
      DEF IInv, WithdrawFails, JobInv, RunInv, StageInv, HandlerInv, ReviewInv,
          StatusIsRuled, EffectInv, EffectsFollowStatus,
          Ruled

  <1>26. ASSUME NEW c \in Content, NEW m \in Moderators, OpenItem(m, c) PROVE IInv'
    <2>1. TypeOK'
      <3>1. [step |-> "viewing", item |-> c, verdict |-> None] \in ReviewType
        BY DEF ReviewType, ReviewStep
      <3> QED
        BY <1>26, <3>1 DEF IInv, OpenItem, TypeOK
    <2>2. ReviewInv'
      <3>1. "hold_for_review" \in rulings[c]
        BY <1>26, VerdictStatus DEF IInv, OpenItem, StatusIsRuled, Ruled, TypeOK
      <3> QED
        BY <1>26, <3>1 DEF IInv, OpenItem, ReviewInv, TypeOK
    <2> QED
      BY <1>26, <2>1, <2>2
      DEF IInv, OpenItem, JobInv, RunInv, StageInv, HandlerInv, WithdrawInv,
          StatusIsRuled, EffectInv, EffectsFollowStatus,
          Ruled

  <1>27. ASSUME NEW m \in Moderators, RulePublish(m) PROVE IInv'
    <2>1. TypeOK'
      <3>1. [review[m] EXCEPT !.step = "check", !.verdict = "human_publish"] \in ReviewType
        BY <1>27, ReviewUpdate DEF IInv, TypeOK, ReviewStep, HumanVerdict
      <3>2. review[m].item \in Content
        BY <1>27 DEF IInv, ReviewInv, RulePublish
      <3> QED
        BY <1>27, <3>1, <3>2
        DEF IInv, RulePublish, TypeOK, LogRuling, Verdict, HumanVerdict
    <2>2. RunInv'
      BY <1>27 DEF IInv, RulePublish, LogRuling, RunInv, TypeOK
    <2>3. ReviewInv'
      BY <1>27 DEF IInv, RulePublish, LogRuling, ReviewInv, TypeOK, HumanVerdict
    <2>4. WithdrawInv'
      BY <1>27 DEF IInv, RulePublish, LogRuling, WithdrawInv, Ruled, TypeOK
    <2>5. StatusIsRuled'
      BY <1>27 DEF IInv, RulePublish, LogRuling, StatusIsRuled, Ruled, TypeOK
    <2>6. EffectInv'
      BY <1>27
      DEF IInv, RulePublish, LogRuling, EffectInv, EffectsFollowStatus, TypeOK
    <2> QED
      BY <1>27, <2>1, <2>2, <2>3, <2>4, <2>5, <2>6
      DEF IInv, RulePublish, LogRuling, JobInv, StageInv, HandlerInv

  <1>28. ASSUME NEW m \in Moderators, RuleReject(m) PROVE IInv'
    <2>1. TypeOK'
      <3>1. [review[m] EXCEPT !.step = "check", !.verdict = "human_reject"] \in ReviewType
        BY <1>28, ReviewUpdate DEF IInv, TypeOK, ReviewStep, HumanVerdict
      <3>2. review[m].item \in Content
        BY <1>28 DEF IInv, ReviewInv, RuleReject
      <3> QED
        BY <1>28, <3>1, <3>2
        DEF IInv, RuleReject, TypeOK, LogRuling, Verdict, HumanVerdict
    <2>2. RunInv'
      BY <1>28 DEF IInv, RuleReject, LogRuling, RunInv, TypeOK
    <2>3. ReviewInv'
      BY <1>28 DEF IInv, RuleReject, LogRuling, ReviewInv, TypeOK, HumanVerdict
    <2>4. WithdrawInv'
      BY <1>28 DEF IInv, RuleReject, LogRuling, WithdrawInv, Ruled, TypeOK
    <2>5. StatusIsRuled'
      BY <1>28 DEF IInv, RuleReject, LogRuling, StatusIsRuled, Ruled, TypeOK
    <2>6. EffectInv'
      BY <1>28
      DEF IInv, RuleReject, LogRuling, EffectInv, EffectsFollowStatus, TypeOK
    <2> QED
      BY <1>28, <2>1, <2>2, <2>3, <2>4, <2>5, <2>6
      DEF IInv, RuleReject, LogRuling, JobInv, StageInv, HandlerInv

  <1>29. ASSUME NEW m \in Moderators, ReviewCheck(m) PROVE IInv'
    <2>1. TypeOK'
      <3>1. [review[m] EXCEPT !.step = "write"] \in ReviewType
        BY <1>29, ReviewUpdate DEF IInv, TypeOK, ReviewStep, HumanVerdict
      <3> QED
        BY <1>29, <3>1 DEF IInv, ReviewCheck, TypeOK
    <2>2. ReviewInv'
      BY <1>29 DEF IInv, ReviewCheck, Legal, ReviewInv, TypeOK
    <2> QED
      BY <1>29, <2>1, <2>2
      DEF IInv, ReviewCheck, Legal, JobInv, RunInv, StageInv, HandlerInv,
          WithdrawInv, StatusIsRuled, EffectInv,
          EffectsFollowStatus, Ruled

  <1>30. ASSUME NEW m \in Moderators, ReviewWrite(m) PROVE IInv'
    <2>1. TypeOK'
      <3>1. /\ review[m].item \in Content
           /\ VerdictToStatus(review[m].verdict) \in ContentStatus
        BY <1>30, VerdictStatus DEF IInv, ReviewInv, ReviewWrite, ContentStatus
      <3> QED
        BY <1>30, <3>1, Constants DEF IInv, ReviewWrite, TypeOK, SetStatus
    <2>2. StageInv'
      <3>1. /\ review[m].item \in Content
            /\ review[m].verdict \in rulings[review[m].item]
            /\ status[review[m].item] \notin {"absent", "pending_ai"}
            /\ VerdictToStatus(review[m].verdict) \in {"published", "rejected"}
        BY <1>30, VerdictStatus DEF IInv, ReviewWrite, ReviewInv
      <3> QED
        BY <1>30, <3>1 DEF IInv, ReviewWrite, SetStatus, StageInv, TypeOK
    <2>3. ReviewInv'
      BY <1>30, VerdictStatus
      DEF IInv, ReviewWrite, SetStatus, NoReview, ReviewInv, TypeOK, RunInv
    <2>4. WithdrawInv'
      <3>1. /\ review[m].item \in Content
            /\ review[m].verdict \in rulings[review[m].item]
            /\ status[review[m].item] \notin {"absent", "pending_ai"}
            /\ VerdictToStatus(review[m].verdict) \in {"published", "rejected"}
        BY <1>30, VerdictStatus DEF IInv, ReviewWrite, ReviewInv
      <3> QED
        BY <1>30, <3>1
        DEF IInv, ReviewWrite, SetStatus, WithdrawInv, Ruled, TypeOK
    <2>5. StatusIsRuled'
      <3>1. /\ review[m].item \in Content
            /\ review[m].verdict \in rulings[review[m].item]
            /\ status[review[m].item] \notin {"absent", "pending_ai"}
            /\ VerdictToStatus(review[m].verdict) \in {"published", "rejected"}
        BY <1>30, VerdictStatus DEF IInv, ReviewWrite, ReviewInv
      <3> QED
        BY <1>30, <3>1
        DEF IInv, ReviewWrite, SetStatus, StatusIsRuled, Ruled, TypeOK
    <2>6. EffectInv'
      <3>1. /\ review[m].item \in Content
            /\ review[m].verdict \in rulings[review[m].item]
            /\ status[review[m].item] \notin {"absent", "pending_ai"}
            /\ VerdictToStatus(review[m].verdict) \in {"published", "rejected"}
        BY <1>30, VerdictStatus DEF IInv, ReviewWrite, ReviewInv
      <3> QED
        BY <1>30, <3>1
        DEF IInv, ReviewWrite, SetStatus, EffectInv, EffectsFollowStatus,
            TypeOK
    <2> QED
      BY <1>30, <2>1, <2>2, <2>3, <2>4, <2>5, <2>6
      DEF IInv, ReviewWrite, SetStatus, NoReview, JobInv, RunInv, HandlerInv

  <1>31. ASSUME NEW m \in Moderators, ReviewEnds(m) PROVE IInv'
    <2>1. TypeOK'
      BY <1>31, Constants DEF IInv, ReviewEnds, TypeOK
    <2>2. ReviewInv'
      BY <1>31 DEF IInv, ReviewEnds, NoReview, ReviewInv, TypeOK
    <2> QED
      BY <1>31, <2>1, <2>2
      DEF IInv, ReviewEnds, NoReview, JobInv, RunInv, StageInv, HandlerInv,
          WithdrawInv, StatusIsRuled, EffectInv,
          EffectsFollowStatus, Ruled

  <1>32. ASSUME NEW c \in Content, WriteUnacknowledged(c) PROVE IInv'
    <2> DEFINE newStatus == VerdictToStatus(run[c].verdict)
    <2>1. /\ run[c].step = "write"
          /\ run[c].verdict \in AiVerdict
          /\ run[c].verdict \in rulings[c]
          /\ job[c].state = "active"
      BY <1>32 DEF IInv, WriteUnacknowledged, RunInv, JobInv
    <2>2. /\ newStatus \in ContentStatus \ {"pending_ai"}
          /\ newStatus # "absent"
          /\ newStatus = "pending_review" <=> run[c].verdict = "hold_for_review"
      BY <2>1, VerdictStatus DEF ContentStatus
    <2>3. /\ status' = [status EXCEPT ![c] = newStatus]
          /\ everPublished' =
                [everPublished EXCEPT ![c] = @ \/ newStatus = "published"]
          /\ everRejected' =
                everRejected \union {d \in {c} : newStatus = "rejected"}
          /\ FailAttempt(c)
          /\ unacknowledged' = unacknowledged \union {c}
          /\ UNCHANGED <<gateOff, kind, rulings, reputation, rewards, notices,
                         deadLetters, request, review, withdrawal>>
      BY <1>32 DEF WriteUnacknowledged, SetStatus
    <2>4. /\ job' \in [Content -> JobType]
          /\ run' \in [Content -> RunType]
          /\ handler' \in [Content -> HandlerStep]
          /\ JobInv'
          /\ HandlerInv'
      BY <2>1, <2>3, FailAttemptInv
    <2>5. /\ run' = [run EXCEPT ![c] = NoRun]
          /\ job'[c].state \in {"waiting", "failed"}
          /\ \A d \in Content : d # c => job'[d] = job[d]
      <3>1. job \in [Content -> JobType]
        BY DEF IInv, TypeOK
      <3>2. \A a, s :
              [job[c] EXCEPT !.attempts = a, !.state = s].state = s
        BY <3>1 DEF JobType
      <3> QED
        BY <2>3, <3>1, <3>2 DEF FailAttempt
    <2> HIDE DEF newStatus
    <2>6. TypeOK'
      BY <2>2, <2>3, <2>4 DEF IInv, TypeOK
    <2>7. RunInv'
      BY <2>3, <2>5, Constants DEF IInv, TypeOK, RunInv
    <2>8. StageInv'
      BY <2>1, <2>2, <2>3, <2>5, Constants DEF IInv, TypeOK, StageInv
    <2>9. ReviewInv'
      BY <2>2, <2>3 DEF IInv, TypeOK, ReviewInv
    <2>10. WithdrawInv'
      <3>1. newStatus = "pending_review" => ~withdrawal[c]
        BY <2>1, <2>2 DEF IInv, StageInv, WithdrawInv
      <3> QED
        BY <3>1, <2>2, <2>3 DEF IInv, TypeOK, WithdrawInv, Ruled
    <2>11. StatusIsRuled'
      <3>1. Ruled(c, newStatus) /\ newStatus # "withdrawn"
        BY <2>1, VerdictStatus DEF Ruled, newStatus
      <3> QED
        BY <3>1, <2>3 DEF IInv, TypeOK, StatusIsRuled, Ruled
    <2>12. EffectInv'
      BY <2>2, <2>3, <2>5, Constants
      DEF IInv, TypeOK, EffectInv, EffectsFollowStatus
    <2> QED
      BY <2>3, <2>4, <2>6, <2>7, <2>8, <2>9, <2>10, <2>11, <2>12
      DEF IInv

  <1>33. CASE UNCHANGED vars
    BY <1>33
    DEF IInv, vars, TypeOK, JobInv, RunInv, StageInv, HandlerInv, ReviewInv,
        WithdrawInv, StatusIsRuled, EffectInv, Ruled,
        EffectsFollowStatus
  <1> QED
    BY <1>1, <1>2, <1>3, <1>4, <1>5, <1>6, <1>7, <1>8, <1>9, <1>10, <1>11,
       <1>12, <1>13, <1>14, <1>15, <1>16, <1>17, <1>18, <1>19, <1>20, <1>21,
       <1>22, <1>23, <1>24, <1>25, <1>26, <1>27, <1>28, <1>29, <1>30, <1>31,
       <1>32, <1>33
    DEF Next, AppStep, WorkerStep, HandlerStepOf, ReviewStepOf

-------------------------------------------------------------------------------
(***************************************************************************)
(* Theorems.                                                               *)
(***************************************************************************)

\* IInv holds in every reachable state.
THEOREM Invariance == Spec => []IInv
  <1>1. Spec => Init /\ [][Next]_vars
    BY DEF Spec, Safety
  <1> QED
    BY <1>1, InitIInv, NextIInv, PTL

\* Types, and BullMQ's limits: no job is attempted more than MaxAttempts times.
THEOREM TypeCorrect == Spec => []TypeOK
  <1>1. IInv => TypeOK
    BY DEF IInv
  <1> QED
    BY <1>1, Invariance, PTL

\* No content is public, withdrawn, rejected or queued for review without a
\* logged verdict that says so.
THEOREM AuditLogFirst == Spec => []StatusIsRuled
  <1>1. IInv => StatusIsRuled
    BY DEF IInv
  <1> QED
    BY <1>1, Invariance, PTL

\* Rewards and notifications tell of writes that took place.
THEOREM EffectsAreTrue == Spec => []EffectsFollowStatus
  <1>1. IInv => EffectsFollowStatus
    BY DEF IInv, EffectInv
  <1> QED
    BY <1>1, Invariance, PTL

\* A completed job has moved its content out of pending_ai.
THEOREM CompletionDecides == Spec => []CompletedIsDecided
  <1>1. IInv => CompletedIsDecided
    BY DEF IInv, StageInv, CompletedIsDecided
  <1> QED
    BY <1>1, Invariance, PTL

\* The dead-letter queue holds only jobs that are over.
THEOREM DeadLettersAreFinal == Spec => []DeadLetterIsFinal
  <1>1. IInv => DeadLetterIsFinal
    BY DEF IInv, TypeOK, HandlerInv, DeadLetterIsFinal
  <1> QED
    BY <1>1, Invariance, PTL

LEMMA InitContract == Init => Contract!Init
  BY DEF Init, Contract!Init

\* The contract and the pipeline read one policy.
LEMMA SamePolicy ==
    /\ Contract!AiVerdict = AiVerdict
    /\ Contract!HumanVerdict = HumanVerdict
    /\ \A v : Contract!VerdictToStatus(v) = VerdictToStatus(v)
  BY DEF Contract!AiVerdict, AiVerdict, Contract!HumanVerdict, HumanVerdict,
     Contract!VerdictToStatus, VerdictToStatus

\* Every step of the pipeline is a step of the contract or leaves it alone.
LEMMA NextContract == IInv /\ [Next]_vars => [Contract!Next]_(Contract!vars)
  <1> SUFFICES ASSUME IInv, [Next]_vars
               PROVE  Contract!Next \/ UNCHANGED Contract!vars
    OBVIOUS
  <1> USE DEF contentVars, effectVars, workerVars, humanVars
  <1>1. ASSUME NEW c \in Content, CreatePost(c) \/ CreateComment(c)
        PROVE  Contract!Submit(c)
    BY <1>1 DEF CreatePost, CreateComment, Contract!Submit
  <1>2. ASSUME NEW c \in Content, FastPublish(c) PROVE Contract!Bypass(c)
    BY <1>2 DEF FastPublish, SetStatus, IInv, StageInv, Contract!Bypass
  <1>3. ASSUME NEW c \in Content, WriteDecision(c) PROVE Contract!RuleByAi(c)
    <2>1. status[c] # "absent"
      BY <1>3 DEF WriteDecision, IInv, JobInv, StageInv
    <2>2. run[c].verdict \in AiVerdict
      BY <1>3 DEF WriteDecision, IInv, RunInv
    <2> QED
      BY <1>3, <2>1, <2>2, SamePolicy
      DEF WriteDecision, LogRuling, Contract!RuleByAi
  <1>4. ASSUME NEW c \in Content, HandlerHold(c)
        PROVE  Contract!RuleByAi(c) \/ UNCHANGED Contract!vars
    <2>1. status[c] # "absent"
      BY <1>4 DEF HandlerHold, IInv, HandlerInv, StageInv
    <2> QED
      BY <1>4, <2>1, VerdictStatus, SamePolicy
      DEF HandlerHold, LogRuling, Contract!RuleByAi, Contract!vars
  <1>5. ASSUME NEW c \in Content, WriteStatus(c) \/ WriteUnacknowledged(c)
        PROVE  Contract!Enact(c)
    <2>1. run[c].verdict \in rulings[c]
      BY <1>5 DEF WriteStatus, WriteUnacknowledged, IInv, RunInv
    <2>2. /\ status[c] # "absent"
          /\ run[c].verdict = "hold_for_review" => status[c] = "pending_ai"
      BY <1>5 DEF WriteStatus, WriteUnacknowledged, IInv, JobInv, StageInv
    <2> QED
      BY <1>5, <2>1, <2>2, SamePolicy
      DEF WriteStatus, WriteUnacknowledged, SetStatus, Contract!Enact
  <1>6. ASSUME NEW m \in Moderators, RulePublish(m) \/ RuleReject(m)
        PROVE  review[m].item \in Content /\ Contract!RuleByHuman(review[m].item)
    <2>1. /\ review[m].item \in Content
          /\ "hold_for_review" \in rulings[review[m].item]
      BY <1>6 DEF RulePublish, RuleReject, IInv, ReviewInv
    <2> QED
      BY <1>6, <2>1, SamePolicy
      DEF RulePublish, RuleReject, LogRuling, HumanVerdict, Contract!RuleByHuman
  <1>7. ASSUME NEW m \in Moderators, ReviewWrite(m)
        PROVE  review[m].item \in Content /\ Contract!Enact(review[m].item)
    <2>1. /\ review[m].item \in Content
          /\ status[review[m].item] # "absent"
          /\ review[m].verdict \in HumanVerdict
          /\ review[m].verdict \in rulings[review[m].item]
      BY <1>7 DEF ReviewWrite, IInv, ReviewInv
    <2>2. review[m].verdict # "hold_for_review"
      BY <2>1 DEF HumanVerdict
    <2> QED
      BY <1>7, <2>1, <2>2, SamePolicy DEF ReviewWrite, SetStatus, Contract!Enact
  <1>8. ASSUME NEW c \in Content, WithdrawWrite(c) PROVE Contract!Withdraw(c)
    BY <1>8, SamePolicy
    DEF WithdrawWrite, SetStatus, IInv, WithdrawInv, Ruled, Contract!Withdraw
  <1>9. ASSUME NEW c \in Content,
               \/ ReadContext(c)
               \/ Enqueue(c)
               \/ CreateLost(c)
               \/ WithdrawCheck(c)
               \/ WithdrawFails(c)
        PROVE  UNCHANGED Contract!vars
    BY <1>9
    DEF ReadContext, Enqueue, CreateLost, WithdrawCheck, WithdrawFails, Contract!vars
  <1>10. ASSUME NEW c \in Content,
                \/ StartAttempt(c)
                \/ Classify(c)
                \/ CheckStatus(c)
                \/ RefuseTransition(c)
                \/ AttemptFails(c)
                \/ Reward(c)
                \/ RewardFails(c)
                \/ Notify(c)
                \/ Complete(c)
                \/ CrashAttempt(c)
                \/ RecoverStalled(c)
                \/ HandlerDeadLetter(c)
                \/ HandlerLost(c)
         PROVE  UNCHANGED Contract!vars
    BY <1>10
    DEF StartAttempt, Classify, CheckStatus, RefuseTransition, AttemptFails, Reward,
        RewardFails, Notify, Complete, CrashAttempt, RecoverStalled,
        HandlerDeadLetter, HandlerLost, Contract!vars
  <1>11. ASSUME NEW m \in Moderators,
                \/ \E c \in Content : OpenItem(m, c)
                \/ ReviewCheck(m)
                \/ ReviewEnds(m)
         PROVE  UNCHANGED Contract!vars
    BY <1>11 DEF OpenItem, ReviewCheck, ReviewEnds, Contract!vars
  <1>12. CASE UNCHANGED vars
    BY <1>12 DEF vars, Contract!vars
  <1> QED
    BY <1>1, <1>2, <1>3, <1>4, <1>5, <1>6, <1>7, <1>8, <1>9, <1>10, <1>11, <1>12
    DEF Next, AppStep, WorkerStep, HandlerStepOf, ReviewStepOf, Contract!Next

\* The audit log grows by a verdict of the classifier, or by that of a person
\* on content that was held.
LEMMA NextRulings ==
    ASSUME IInv, [Next]_vars, NEW c \in Content
    PROVE  /\ rulings[c] \subseteq rulings'[c]
           /\ rulings'[c] \intersect HumanVerdict # rulings[c] \intersect HumanVerdict =>
                 "hold_for_review" \in rulings[c]
  <1>1. rulings \in [Content -> SUBSET Verdict]
    BY DEF IInv, TypeOK
  <1>2. CASE UNCHANGED rulings
    BY <1>2
  <1>3. CASE rulings' # rulings
    <2>1. PICK d \in Content : Contract!RuleByAi(d) \/ Contract!RuleByHuman(d)
      BY <1>3, NextContract
      DEF Contract!Next, Contract!vars, Contract!Submit, Contract!Enact, Contract!Bypass,
          Contract!Withdraw
    <2>2. CASE Contract!RuleByAi(d)
      BY <1>1, <2>2, SamePolicy, VerdictStatus DEF Contract!RuleByAi
    <2>3. CASE Contract!RuleByHuman(d)
      BY <1>1, <2>3 DEF Contract!RuleByHuman
    <2> QED
      BY <2>1, <2>2, <2>3
  <1> QED
    BY <1>2, <1>3

\* Moderators rule only on what the classifier, or the failure handler, held.
THEOREM OnlyHeldIsReviewed == Spec => []HumansRuleOnHeld
  <1>1. Spec => Init /\ [][Next]_vars
    BY DEF Spec, Safety
  <1>2. Init => HumansRuleOnHeld
    BY DEF Init, HumansRuleOnHeld
  <1>3. IInv /\ HumansRuleOnHeld /\ [Next]_vars => HumansRuleOnHeld'
    BY NextRulings DEF HumansRuleOnHeld
  <1> QED
    BY <1>1, <1>2, <1>3, Invariance, PTL

\* The pipeline implements EditorialContract.
THEOREM Implements == Spec => ContractHolds
  <1>1. Spec => Init /\ [][Next]_vars
    BY DEF Spec, Safety
  <1> QED
    BY <1>1, Invariance, InitContract, NextContract, PTL
    DEF ContractHolds, Contract!Spec

\* A status can enter pending_review only by way of a verdict that holds
\* content that is still pending_ai, so moderators see a content once.
LEMMA NextReviewedOnce ==
    IInv /\ [Next]_vars =>
        \A c \in Content :
            status'[c] = "pending_review" /\ status[c] # "pending_review" =>
                status[c] = "pending_ai"
  <1> SUFFICES ASSUME IInv, [Next]_vars, NEW c \in Content,
                      status'[c] = "pending_review", status[c] # "pending_review"
               PROVE  status[c] = "pending_ai"
    OBVIOUS
  <1>1. ~ UNCHANGED Contract!vars
    BY DEF Contract!vars
  <1>2. PICK d \in Content :
            \/ Contract!Submit(d) \/ Contract!RuleByAi(d) \/ Contract!RuleByHuman(d)
            \/ Contract!Enact(d) \/ Contract!Bypass(d) \/ Contract!Withdraw(d)
    BY <1>1, NextContract DEF Contract!Next
  <1>3. status \in [Content -> ContentStatus \union {"absent"}]
    BY DEF IInv, TypeOK
  <1>4. Contract!Enact(d) /\ d = c
    BY <1>2, <1>3 DEF Contract!Submit, Contract!RuleByAi, Contract!RuleByHuman,
       Contract!Enact, Contract!Bypass, Contract!Withdraw
  <1>5. PICK v \in rulings[c] :
            /\ v = "hold_for_review" => status[c] = "pending_ai"
            /\ status' = [status EXCEPT ![c] = VerdictToStatus(v)]
    BY <1>4, SamePolicy DEF Contract!Enact
  <1>6. VerdictToStatus(v) = "pending_review"
    BY <1>3, <1>5
  <1>7. v \in Verdict
    BY <1>5 DEF IInv, TypeOK
  <1> QED
    BY <1>5, <1>6, <1>7, VerdictStatus

\* What moderators have decided never comes back to their queue.
THEOREM NeverReviewedTwice == Spec => ReviewedOnce
  <1>1. Spec => Init /\ [][Next]_vars
    BY DEF Spec, Safety
  <1>2. IInv /\ [Next]_vars =>
            [\A c \in Content :
                status'[c] = "pending_review" /\ status[c] # "pending_review" =>
                    status[c] = "pending_ai"]_vars
    BY NextReviewedOnce
  <1> QED
    BY <1>1, <1>2, Invariance, PTL DEF ReviewedOnce

-------------------------------------------------------------------------------
(***************************************************************************)
(* Retries.  An attempt that failed without having written the status      *)
(* leaves the content in pending_ai; and as long as no moderator has ruled,*)
(* each kind of reward goes with a status that is taken up only once.      *)
(***************************************************************************)

\* A first delivery, or a retry after a failure that was noticed, works on
\* content that is still pending_ai.
Cause(c) ==
    job[c].stalls = 0 /\ c \notin unacknowledged
    /\ job[c].state \in {"waiting", "active"}
    /\ run[c].step \notin {"reward", "notify", "ack"}
    => status[c] = "pending_ai"

Accepted(c) == rewards[c] \intersect {"post_accepted", "comment_accepted"} # {}
Rejected(c) == rewards[c] \intersect {"post_rejected", "comment_rejected"} # {}

\* Without a moderator content is rejected at most once and then published at
\* most once, and the attempt that has just done so has yet to reward it.
Once(c) ==
    rulings[c] \intersect HumanVerdict = {} =>
        /\ withdrawal[c] \/ Accepted(c) => status[c] \in {"published", "withdrawn"}
        /\ status[c] = "pending_review" => rewards[c] = {}
        /\ run[c].step = "write" =>
              \/ status[c] \in {"pending_ai", "pending_review"}
              \/ status[c] = "rejected" /\ run[c].verdict = "auto_publish"
        /\ run[c].step = "reward" =>
              IF run[c].verdict = "auto_publish"
              THEN status[c] \in {"published", "withdrawn"} /\ ~Accepted(c)
              ELSE status[c] = "rejected" /\ ~Rejected(c)

RetryInv == IInv /\ \A c \in Content : Cause(c) /\ Once(c)

LEMMA InitRetry == Init => RetryInv
  <1> SUFFICES ASSUME Init, NEW c \in Content PROVE Cause(c) /\ Once(c)
    BY InitIInv DEF RetryInv
  <1>1. Cause(c)
    BY DEF Init, Cause, NoJob
  <1>2. Once(c)
    BY DEF Init, Once, Accepted, NoRun
  <1> QED
    BY <1>1, <1>2

\* What a failed attempt leaves.
LEMMA FailedAttempt ==
    ASSUME IInv, NEW c \in Content, FailAttempt(c)
    PROVE  /\ run' = [run EXCEPT ![c] = NoRun]
           /\ job'[c].state \in {"waiting", "failed"}
           /\ job'[c].stalls = job[c].stalls
           /\ \A d \in Content : d # c => job'[d] = job[d]
  <1>1. job \in [Content -> JobType]
    BY DEF IInv, TypeOK
  <1>2. \A a, s :
          /\ [job[c] EXCEPT !.attempts = a, !.state = s].state = s
          /\ [job[c] EXCEPT !.attempts = a, !.state = s].stalls = job[c].stalls
    BY <1>1 DEF JobType
  <1> QED
    BY <1>1, <1>2 DEF FailAttempt

LEMMA NextCause ==
    ASSUME IInv, [Next]_vars, NEW d \in Content, Cause(d)
    PROVE  Cause(d)'
  <1> USE DEF contentVars, effectVars, workerVars, humanVars
  <1>1. ASSUME UNCHANGED <<status, job, run, unacknowledged>>
        PROVE  Cause(d)'
    BY <1>1 DEF Cause
  <1>2. ASSUME NEW c \in Content, CreatePost(c) \/ CreateComment(c)
        PROVE  Cause(d)'
    BY <1>2 DEF CreatePost, CreateComment, Cause, IInv, TypeOK
  <1>3. ASSUME NEW c \in Content, FastPublish(c)
        PROVE  Cause(d)'
    BY <1>3 DEF FastPublish, SetStatus, Cause, IInv, TypeOK, StageInv
  <1>4. ASSUME NEW c \in Content, Enqueue(c)
        PROVE  Cause(d)'
    BY <1>4 DEF Enqueue, Cause, IInv, TypeOK, StageInv
  <1>5. ASSUME NEW c \in Content,
               StartAttempt(c) \/ Classify(c) \/ WriteDecision(c) \/ CheckStatus(c)
        PROVE  Cause(d)'
    <2>1. /\ UNCHANGED <<status, unacknowledged>>
          /\ run[c].step \notin {"reward", "notify", "ack"}
          /\ job[c].state \in {"waiting", "active"}
          /\ job'[c].stalls = job[c].stalls
          /\ d # c => job'[d] = job[d] /\ run'[d] = run[d]
      BY <1>5 DEF StartAttempt, Classify, WriteDecision, CheckStatus, IInv, TypeOK,
         JobInv, JobType
    <2> QED
      BY <2>1 DEF Cause
  <1>6. ASSUME NEW c \in Content, RefuseTransition(c) \/ AttemptFails(c)
        PROVE  Cause(d)'
    <2>1. /\ FailAttempt(c) /\ UNCHANGED <<status, unacknowledged>>
          /\ run[c].step \in {"classify", "decision", "check", "write"}
      BY <1>6 DEF RefuseTransition, AttemptFails
    <2>2. job[c].state = "active"
      BY <2>1 DEF IInv, JobInv
    <2> QED
      BY <2>1, <2>2, FailedAttempt DEF Cause, IInv, TypeOK
  <1>7. ASSUME NEW c \in Content, WriteStatus(c)
        PROVE  Cause(d)'
    <2>1. /\ UNCHANGED <<job, unacknowledged>>
          /\ run'[c].step \in {"reward", "ack"}
          /\ d # c => status'[d] = status[d] /\ run'[d] = run[d]
      BY <1>7 DEF WriteStatus, SetStatus, IInv, TypeOK, RunType
    <2> QED
      BY <2>1 DEF Cause
  <1>8. ASSUME NEW c \in Content, WriteUnacknowledged(c)
        PROVE  Cause(d)'
    <2>1. FailAttempt(c) /\ unacknowledged' = unacknowledged \union {c}
          /\ (d # c => status'[d] = status[d])
      BY <1>8 DEF WriteUnacknowledged, SetStatus, IInv, TypeOK
    <2> QED
      BY <2>1, FailedAttempt DEF Cause, IInv, TypeOK
  <1>9. ASSUME NEW c \in Content, Reward(c) \/ RewardFails(c) \/ Notify(c)
        PROVE  Cause(d)'
    <2>1. /\ UNCHANGED <<status, job, unacknowledged>>
          /\ run'[c].step \in {"notify", "ack"}
          /\ d # c => run'[d] = run[d]
      BY <1>9 DEF Reward, RewardFails, Notify, IInv, TypeOK, RunType
    <2> QED
      BY <2>1 DEF Cause
  <1>10. ASSUME NEW c \in Content, Complete(c) \/ CrashAttempt(c)
         PROVE  Cause(d)'
    <2>1. /\ UNCHANGED <<status, unacknowledged>>
          /\ job'[c].state \in {"completed", "stalled"}
          /\ d # c => job'[d] = job[d] /\ run'[d] = run[d]
      BY <1>10 DEF Complete, CrashAttempt, IInv, TypeOK, JobType
    <2> QED
      BY <2>1 DEF Cause
  <1>11. ASSUME NEW c \in Content, RecoverStalled(c)
         PROVE  Cause(d)'
    <2>1. job[c] \in JobType /\ job[c].stalls \in Nat
      BY Constants DEF IInv, TypeOK, JobType
    <2> DEFINE stalls == job[c].stalls + 1
               used == job[c].attempts + 1
               again == [job[c] EXCEPT !.state = "waiting", !.stalls = stalls]
               failed == [job[c] EXCEPT !.state = "failed", !.stalls = stalls,
                                        !.attempts = used]
    <2>2. again.stalls = stalls /\ failed.stalls = stalls
      BY <2>1 DEF JobType
    <2>3. /\ UNCHANGED <<status, run, unacknowledged>>
          /\ job' = [job EXCEPT ![c] = again] \/ job' = [job EXCEPT ![c] = failed]
      BY <1>11 DEF RecoverStalled
    <2> HIDE DEF again, failed
    <2>4. /\ job'[c].stalls = job[c].stalls + 1
          /\ d # c => job'[d] = job[d]
      BY <2>2, <2>3 DEF IInv, TypeOK
    <2> QED
      BY <2>1, <2>3, <2>4 DEF Cause
  <1>12. ASSUME NEW c \in Content, WithdrawWrite(c)
         PROVE  Cause(d)'
    BY <1>12 DEF WithdrawWrite, SetStatus, Cause, IInv, TypeOK, WithdrawInv
  <1>13. ASSUME NEW m \in Moderators, ReviewWrite(m)
         PROVE  Cause(d)'
    BY <1>13 DEF ReviewWrite, SetStatus, Cause, IInv, TypeOK, ReviewInv
  <1>14. ASSUME NEW c \in Content,
                \/ ReadContext(c) \/ CreateLost(c) \/ WithdrawCheck(c) \/ WithdrawFails(c)
                \/ HandlerHold(c) \/ HandlerDeadLetter(c) \/ HandlerLost(c)
         PROVE  Cause(d)'
    BY <1>1, <1>14 DEF ReadContext, CreateLost, WithdrawCheck, WithdrawFails, HandlerHold,
       HandlerDeadLetter, HandlerLost
  <1>15. ASSUME NEW m \in Moderators,
                \/ \E c \in Content : OpenItem(m, c)
                \/ RulePublish(m) \/ RuleReject(m) \/ ReviewCheck(m) \/ ReviewEnds(m)
         PROVE  Cause(d)'
    BY <1>1, <1>15 DEF OpenItem, RulePublish, RuleReject, ReviewCheck, ReviewEnds
  <1>16. ASSUME UNCHANGED vars
         PROVE  Cause(d)'
    BY <1>1, <1>16 DEF vars
  <1> QED
    BY <1>2, <1>3, <1>4, <1>5, <1>6, <1>7, <1>8, <1>9, <1>10, <1>11, <1>12, <1>13, <1>14,
       <1>15, <1>16
    DEF Next, AppStep, WorkerStep, HandlerStepOf, ReviewStepOf

\* A step that writes neither status nor reward, and does not take the attempt
\* to a write or a reward.
LEMMA OnceStays ==
    ASSUME NEW d \in Content, Once(d), rulings[d] \subseteq rulings'[d],
           status'[d] = status[d], rewards'[d] = rewards[d],
           withdrawal'[d] => withdrawal[d],
           run'[d].step \in {"write", "reward"} =>
              run'[d].step = run[d].step /\ run'[d].verdict = run[d].verdict
    PROVE  Once(d)'
  BY DEF Once, Accepted, Rejected

LEMMA NextOnce ==
    ASSUME IInv, [Next]_vars, NEW d \in Content, Once(d)
    PROVE  Once(d)'
  <1> USE DEF contentVars, effectVars, workerVars, humanVars
  <1>1. ASSUME UNCHANGED <<status, rulings, rewards, withdrawal, run>>
        PROVE  Once(d)'
    BY <1>1, OnceStays
  <1>2. ASSUME NEW c \in Content,
               \/ ReadContext(c) \/ Enqueue(c) \/ CreateLost(c) \/ RecoverStalled(c)
               \/ HandlerDeadLetter(c) \/ HandlerLost(c)
        PROVE  Once(d)'
    BY <1>1, <1>2 DEF ReadContext, Enqueue, CreateLost, RecoverStalled, HandlerDeadLetter,
       HandlerLost
  <1>3. ASSUME NEW m \in Moderators,
               (\E c \in Content : OpenItem(m, c)) \/ ReviewCheck(m) \/ ReviewEnds(m)
        PROVE  Once(d)'
    BY <1>1, <1>3 DEF OpenItem, ReviewCheck, ReviewEnds
  <1>4. ASSUME UNCHANGED vars
        PROVE  Once(d)'
    BY <1>1, <1>4 DEF vars
  <1>5. ASSUME NEW m \in Moderators, RulePublish(m) \/ RuleReject(m)
        PROVE  Once(d)'
    <2>1. /\ rulings[d] \subseteq rulings'[d]
          /\ UNCHANGED <<status, rewards, withdrawal, run>>
      BY <1>5 DEF RulePublish, RuleReject, LogRuling, IInv, TypeOK
    <2> QED
      BY <2>1, OnceStays
  <1>6. ASSUME NEW c \in Content, WriteDecision(c) \/ HandlerHold(c)
        PROVE  Once(d)'
    <2>1. /\ rulings[d] \subseteq rulings'[d]
          /\ UNCHANGED <<status, rewards, withdrawal>>
          /\ run'[d].step \in {"write", "reward"} => run'[d] = run[d]
      BY <1>6 DEF WriteDecision, HandlerHold, LogRuling, IInv, TypeOK, RunType
    <2> QED
      BY <2>1, OnceStays
  <1>7. ASSUME NEW c \in Content,
               \/ StartAttempt(c) \/ Classify(c) \/ RewardFails(c) \/ Notify(c)
               \/ Complete(c) \/ CrashAttempt(c)
        PROVE  Once(d)'
    <2>1. /\ UNCHANGED <<status, rulings, rewards, withdrawal>>
          /\ run'[d].step \in {"write", "reward"} => run'[d] = run[d]
      BY <1>7, Constants DEF StartAttempt, Classify, RewardFails, Notify, Complete,
         CrashAttempt, IInv, TypeOK, RunType
    <2> QED
      BY <2>1, OnceStays
  <1>8. ASSUME NEW c \in Content, RefuseTransition(c) \/ AttemptFails(c)
        PROVE  Once(d)'
    <2>1. FailAttempt(c) /\ UNCHANGED <<status, rulings, rewards, withdrawal>>
      BY <1>8 DEF RefuseTransition, AttemptFails
    <2>2. run'[d].step \in {"write", "reward"} => run'[d] = run[d]
      BY <2>1, FailedAttempt, Constants DEF IInv, TypeOK
    <2> QED
      BY <2>1, <2>2, OnceStays
  <1>9. ASSUME NEW c \in Content, WithdrawFails(c)
        PROVE  Once(d)'
    BY <1>9, OnceStays DEF WithdrawFails, IInv, TypeOK
  <1>10. ASSUME NEW c \in Content, WithdrawCheck(c)
         PROVE  Once(d)'
    BY <1>10 DEF WithdrawCheck, IInv, TypeOK, Once, Accepted, Rejected
  <1>11. ASSUME NEW c \in Content, CreatePost(c) \/ CreateComment(c)
         PROVE  Once(d)'
    <2>1. /\ UNCHANGED <<rulings, rewards, withdrawal, run>>
          /\ status[c] = "absent" /\ status'[c] = "pending_ai"
          /\ d # c => status'[d] = status[d]
      BY <1>11 DEF CreatePost, CreateComment, IInv, TypeOK
    <2>2. ~withdrawal[c] /\ rewards[c] = {} /\ run[c].step = "none"
      BY <2>1 DEF IInv, WithdrawInv, EffectInv, StageInv, JobInv
    <2> QED
      BY <2>1, <2>2 DEF Once, Accepted, Rejected
  <1>12. ASSUME NEW c \in Content, FastPublish(c)
         PROVE  Once(d)'
    <2>1. /\ UNCHANGED <<rulings, rewards, withdrawal, run>>
          /\ status[c] = "pending_ai" /\ status'[c] = "published"
          /\ job[c].state = "none"
          /\ d # c => status'[d] = status[d]
      BY <1>12 DEF FastPublish, SetStatus, IInv, TypeOK, StageInv
    <2>2. rewards[c] = {} /\ run[c].step = "none"
      BY <2>1 DEF IInv, EffectInv, JobInv
    <2> QED
      BY <2>1, <2>2 DEF Once, Accepted, Rejected
  <1>13. ASSUME NEW c \in Content, CheckStatus(c)
         PROVE  Once(d)'
    <2>1. /\ UNCHANGED <<status, rulings, rewards, withdrawal>>
          /\ run[c].step = "check" /\ Legal(c, VerdictToStatus(run[c].verdict))
          /\ run'[c].step = "write" /\ run'[c].verdict = run[c].verdict
          /\ d # c => run'[d] = run[d]
      BY <1>13 DEF CheckStatus, IInv, TypeOK, RunType
    <2>2. run[c].verdict \in AiVerdict /\ kind[c] \in Kind
          /\ status[c] \in ContentStatus
      BY <2>1 DEF IInv, TypeOK, RunInv, JobInv, StageInv
    <2>3. VerdictToStatus(run[c].verdict) \in {"published", "rejected", "pending_review"}
          /\ (VerdictToStatus(run[c].verdict) = "published" => run[c].verdict = "auto_publish")
      BY <2>2, VerdictStatus
    <2>4. \/ status[c] \in {"pending_ai", "pending_review"}
          \/ status[c] = "rejected" /\ VerdictToStatus(run[c].verdict) = "published"
      BY <2>1, <2>2, <2>3
      DEF Legal, Allowed, PostTransitions, CommentTransitions, ContentStatus, Kind
    <2> QED
      BY <2>1, <2>3, <2>4 DEF Once, Accepted, Rejected
  <1>14. ASSUME NEW c \in Content, WriteStatus(c) \/ WriteUnacknowledged(c)
         PROVE  Once(d)'
    <2> DEFINE newStatus == VerdictToStatus(run[c].verdict)
    <2>1. /\ UNCHANGED <<rulings, rewards, withdrawal>>
          /\ run[c].step = "write" /\ run[c].verdict \in AiVerdict
          /\ status' = [status EXCEPT ![c] = newStatus]
      BY <1>14 DEF WriteStatus, WriteUnacknowledged, SetStatus, IInv, RunInv
    <2>2. d # c => run'[d] = run[d]
      BY <1>14, FailedAttempt DEF WriteStatus, WriteUnacknowledged, IInv, TypeOK
    <2>3. \/ run'[c].step \notin {"write", "reward"}
          \/ /\ run'[c].step = "reward" /\ run'[c].verdict = run[c].verdict
             /\ newStatus # "pending_review"
      <3>1. CASE WriteStatus(c)
        BY <3>1 DEF WriteStatus, IInv, TypeOK, RunType
      <3>2. CASE WriteUnacknowledged(c)
        BY <3>2, FailedAttempt, Constants DEF WriteUnacknowledged, IInv, TypeOK
      <3> QED
        BY <1>14, <3>1, <3>2
    <2>4. /\ newStatus = "published" <=> run[c].verdict = "auto_publish"
          /\ newStatus = "rejected" <=> run[c].verdict = "auto_reject"
          /\ newStatus = "pending_review" <=> run[c].verdict = "hold_for_review"
          /\ newStatus \in {"published", "rejected", "pending_review"}
      BY <2>1, VerdictStatus
    <2>5. newStatus = "pending_review" => status[c] = "pending_ai"
      BY <2>1, <2>4 DEF IInv, StageInv
    <2>6. status[c] = "pending_ai" => rewards[c] = {}
      BY DEF IInv, EffectInv
    <2> HIDE DEF newStatus
    <2>7. CASE d # c
      BY <2>1, <2>2, <2>7, OnceStays DEF IInv, TypeOK
    <2>8. CASE d = c
      <3>1. ASSUME rulings[c] \intersect HumanVerdict = {}
            PROVE  /\ ~withdrawal[c] /\ ~Accepted(c)
                   /\ \/ status[c] \in {"pending_ai", "pending_review"} /\ rewards[c] = {}
                      \/ status[c] = "rejected" /\ newStatus = "published"
        BY <2>1, <2>4, <2>6, <2>8, <3>1 DEF Once
      <3>2. status'[c] = newStatus /\ Accepted(c)' = Accepted(c) /\ Rejected(c)' = Rejected(c)
        BY <2>1 DEF IInv, TypeOK, Accepted, Rejected
      <3>3. rewards[c] = {} => ~Rejected(c)
        BY DEF Rejected
      <3> QED
        BY <2>1, <2>3, <2>4, <2>5, <2>6, <2>8, <3>1, <3>2, <3>3 DEF Once
    <2> QED
      BY <2>7, <2>8
  <1>15. ASSUME NEW c \in Content, Reward(c)
         PROVE  Once(d)'
    <2> DEFINE event == RewardFor(kind[c], VerdictToStatus(run[c].verdict))
    <2>1. /\ UNCHANGED <<status, rulings, withdrawal>>
          /\ run[c].step = "reward" /\ run[c].verdict \in AiVerdict
          /\ rewards'[c] = rewards[c] \union {event}
          /\ run'[c].step = "notify"
          /\ d # c => run'[d] = run[d] /\ rewards'[d] = rewards[d]
      BY <1>15 DEF Reward, IInv, TypeOK, RunInv, RunType
    <2>2. event \in {"post_accepted", "comment_accepted"} => run[c].verdict = "auto_publish"
      BY <2>1, VerdictStatus, RewardTells
    <2> HIDE DEF event
    <2>3. CASE d # c
      BY <2>1, <2>3, OnceStays
    <2>4. CASE d = c
      BY <2>1, <2>2, <2>4 DEF Once, Accepted, Rejected
    <2> QED
      BY <2>3, <2>4
  <1>16. ASSUME NEW c \in Content, WithdrawWrite(c)
         PROVE  Once(d)'
    <2>1. /\ UNCHANGED <<rulings, rewards, run>>
          /\ withdrawal[c] /\ ~withdrawal'[c] /\ status'[c] = "withdrawn"
          /\ d # c => status'[d] = status[d] /\ withdrawal'[d] = withdrawal[d]
      BY <1>16 DEF WithdrawWrite, SetStatus, IInv, TypeOK
    <2>2. CASE d # c
      BY <2>1, <2>2, OnceStays
    <2>3. CASE d = c
      BY <2>1, <2>3 DEF Once, Accepted, Rejected
    <2> QED
      BY <2>2, <2>3
  <1>17. ASSUME NEW m \in Moderators, ReviewWrite(m)
         PROVE  Once(d)'
    <2> DEFINE c == review[m].item
    <2>1. /\ UNCHANGED <<rulings, rewards, withdrawal, run>>
          /\ rulings[c] \intersect HumanVerdict # {}
          /\ d # c => status'[d] = status[d]
      BY <1>17 DEF ReviewWrite, SetStatus, IInv, TypeOK, ReviewInv
    <2> QED
      BY <2>1 DEF Once, Accepted, Rejected
  <1> QED
    BY <1>2, <1>3, <1>4, <1>5, <1>6, <1>7, <1>8, <1>9, <1>10, <1>11, <1>12, <1>13, <1>14,
       <1>15, <1>16, <1>17
    DEF Next, AppStep, WorkerStep, HandlerStepOf, ReviewStepOf

\* Retries find the content as their cause has left it.
THEOREM RetryInvariance == Spec => []RetryInv
  <1>1. Spec => Init /\ [][Next]_vars
    BY DEF Spec, Safety
  <1>2. RetryInv /\ [Next]_vars => RetryInv'
    BY NextIInv, NextCause, NextOnce DEF RetryInv
  <1> QED
    BY <1>1, <1>2, InitRetry, PTL

LEMMA NextReversal ==
    ASSUME RetryInv, [Next]_vars, NEW d \in Content,
           status[d] = "rejected", status'[d] = "published",
           ~(job[d].stalls > 0), d \notin unacknowledged
    PROVE  \E m \in Moderators :
              review[m].item = d /\ review[m].step = "write"
  <1> USE DEF contentVars, effectVars, workerVars, humanVars
  <1>1. IInv /\ Cause(d) /\ job[d].stalls = 0
    BY Constants DEF RetryInv, IInv, TypeOK, JobType
  <1>2. \A c \in Content : ~(WriteStatus(c) \/ WriteUnacknowledged(c))
    <2> SUFFICES ASSUME NEW c \in Content, WriteStatus(c) \/ WriteUnacknowledged(c)
                 PROVE  FALSE
      OBVIOUS
    <2>1. c = d /\ run[c].step = "write"
      BY <1>1 DEF WriteStatus, WriteUnacknowledged, SetStatus, IInv, TypeOK
    <2>2. job[d].state = "active"
      BY <1>1, <2>1 DEF IInv, JobInv
    <2> QED
      BY <1>1, <2>1, <2>2 DEF Cause
  <1>3. status' # status
    OBVIOUS
  <1>4. ASSUME NEW m \in Moderators, ReviewStepOf(m)
        PROVE  review[m].item = d /\ review[m].step = "write"
    BY <1>1, <1>3, <1>4 DEF ReviewStepOf, OpenItem, RulePublish, RuleReject, ReviewCheck,
       ReviewWrite, ReviewEnds, SetStatus, IInv, TypeOK
  <1>5. \A c \in Content : ~AppStep(c)
    <2> SUFFICES ASSUME NEW c \in Content, AppStep(c) PROVE FALSE
      OBVIOUS
    <2>1. CASE FastPublish(c)
      BY <1>1, <2>1 DEF FastPublish, SetStatus, IInv, TypeOK, StageInv
    <2>2. CASE CreatePost(c) \/ CreateComment(c) \/ WithdrawWrite(c)
      BY <1>1, <2>2 DEF CreatePost, CreateComment, WithdrawWrite, SetStatus, IInv, TypeOK
    <2> QED
      BY <1>3, <2>1, <2>2 DEF AppStep, ReadContext, Enqueue, CreateLost, WithdrawCheck,
         WithdrawFails
  <1>6. \A c \in Content : ~WorkerStep(c)
    BY <1>2, <1>3 DEF WorkerStep, StartAttempt, Classify, WriteDecision, CheckStatus,
       RefuseTransition, AttemptFails, Reward, RewardFails, Notify, Complete, RecoverStalled
  <1>7. \A c \in Content : ~(CrashAttempt(c) \/ HandlerStepOf(c) \/ HandlerLost(c))
    BY <1>3 DEF CrashAttempt, HandlerStepOf, HandlerHold, HandlerDeadLetter, HandlerLost
  <1>8. Next
    BY <1>3 DEF vars
  <1> QED
    BY <1>4, <1>5, <1>6, <1>7, <1>8 DEF Next

\* Rejected content is published again by a moderator, or where a job was
\* delivered again after a crash or a lost answer, and in no other way.
THEOREM NoReversalWithoutCause == Spec => ReversalNeedsCause
  <1>1. Spec => Init /\ [][Next]_vars
    BY DEF Spec, Safety
  <1>2. RetryInv /\ [Next]_vars =>
            [\A c \in Content :
                status[c] = "rejected" /\ status'[c] = "published" =>
                    \/ job[c].stalls > 0
                    \/ c \in unacknowledged
                    \/ \E m \in Moderators :
                          review[m].item = c /\ review[m].step = "write"]_vars
    BY NextReversal
  <1> QED
    BY <1>1, <1>2, RetryInvariance, PTL DEF ReversalNeedsCause

LEMMA NextRewarded ==
    ASSUME RetryInv, [Next]_vars, reputation' # reputation, rewards' = rewards
    PROVE  \E c \in Content : /\ run[c].step = "reward"
                              /\ rulings[c] \intersect HumanVerdict # {}
  <1> USE DEF contentVars, effectVars, workerVars, humanVars
  <1>1. PICK c \in Content : Reward(c)
    BY DEF Next, vars, AppStep, CreatePost, CreateComment, FastPublish, ReadContext, Enqueue,
       CreateLost, WithdrawCheck, WithdrawWrite, WithdrawFails, WorkerStep, StartAttempt,
       Classify, WriteDecision, CheckStatus, RefuseTransition, WriteStatus,
       WriteUnacknowledged, AttemptFails, RewardFails, Notify, Complete, RecoverStalled,
       CrashAttempt, HandlerStepOf, HandlerHold, HandlerDeadLetter, HandlerLost,
       ReviewStepOf, OpenItem, RulePublish, RuleReject, ReviewCheck, ReviewWrite, ReviewEnds
  <1> DEFINE event == RewardFor(kind[c], VerdictToStatus(run[c].verdict))
  <1>2. /\ run[c].step = "reward" /\ run[c].verdict \in AiVerdict
        /\ event \in rewards[c] /\ IInv /\ Once(c)
    BY <1>1 DEF Reward, RetryInv, IInv, TypeOK, RunInv
  <1>3. /\ event \in RewardKind
        /\ run[c].verdict = "auto_publish" <=>
              event \in {"post_accepted", "comment_accepted"}
    BY <1>2, VerdictStatus, RewardTells
  <1> HIDE DEF event
  <1>4. IF run[c].verdict = "auto_publish" THEN Accepted(c) ELSE Rejected(c)
    BY <1>2, <1>3 DEF Accepted, Rejected, RewardKind
  <1> QED
    BY <1>2, <1>4 DEF Once

\* A job that is delivered again does not change the author's reputation twice
\* for one outcome, unless a moderator has ruled meanwhile.
THEOREM NeverRewardedTwice == Spec => RewardedOnce
  <1>1. Spec => Init /\ [][Next]_vars
    BY DEF Spec, Safety
  <1>2. RetryInv /\ [Next]_vars =>
            [reputation' # reputation =>
                \/ rewards' # rewards
                \/ \E c \in Content : /\ run[c].step = "reward"
                                      /\ rulings[c] \intersect HumanVerdict # {}]_vars
    BY NextRewarded
  <1> QED
    BY <1>1, <1>2, RetryInvariance, PTL DEF RewardedOnce

-------------------------------------------------------------------------------
\* The verdicts, from the most to the least lenient.
Severity(v) ==
    CASE v = "auto_publish" -> 0
      [] v = "hold_for_review" -> 1
      [] OTHER -> 2

\* The policy is monotone: one more score, a higher one, or a less trusted
\* author never makes the verdict more lenient.
THEOREM PolicyIsMonotone ==
  ASSUME NEW S \in SUBSET (0 .. 100), NEW T \in SUBSET (0 .. 100),
         NEW r \in Int, NEW q \in Int,
         \A s \in S : \E t \in T : s <= t,
         q <= r
  PROVE  Severity(Decide(S, r)) <= Severity(Decide(T, q))
  <1>1. /\ AutoPublishMax \in Int /\ AutoRejectMin \in Int
        /\ TrustedReputation \in Int /\ AutoPublishMax <= AutoRejectMin
    BY PolicyAssumption
  <1>2. Severity("auto_publish") = 0 /\ Severity("hold_for_review") = 1
            /\ Severity("auto_reject") = 2
    BY DEF Severity
  <1>3. Decide(S, r) = "auto_reject" => Decide(T, q) = "auto_reject"
    BY <1>1 DEF Decide
  <1>4. Decide(S, r) = "hold_for_review" => Decide(T, q) # "auto_publish"
    BY <1>1 DEF Decide
  <1> QED
    BY <1>2, <1>3, <1>4, DecideType DEF AiVerdict
===============================================================================
