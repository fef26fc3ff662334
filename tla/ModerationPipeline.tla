-------------------------- MODULE ModerationPipeline --------------------------
(***************************************************************************)
(* From the submission of a post or comment to its final status: the       *)
(* create action of the app, the BullMQ job, the worker that processes it  *)
(* one await at a time, its failure handler, the moderators of the review  *)
(* queue, and the author who may withdraw.  The actors run concurrently    *)
(* and share the database rows; every SELECT, UPDATE or INSERT is a step   *)
(* of its own unless the code puts several in one transaction.             *)
(*                                                                         *)
(* Each content has at most one job, and jobs of different content share   *)
(* nothing but the authors' reputation, so an attempt is indexed by its    *)
(* content: the model covers any number of worker processes, each of which *)
(* may crash and be restarted by its supervisor.                           *)
(***************************************************************************)
EXTENDS ModerationPolicy

CONSTANTS
    Content,           \* post and comment ids
    Authors,           \* user ids of their authors
    AuthorOf,          \* the author of each content, [Content -> Authors]
    Moderators,        \* users with moderation authority over the content
    Results,           \* what the classifier may return, Refusal among it
    InitialReputations,\* reputations the authors may start with
    MaxAttempts,       \* MODERATION_JOB_OPTS.attempts (4)
    MaxStalls          \* BullMQ's maxStalledCount (1)

ASSUME PipelineAssumption ==
    /\ AuthorOf \in [Content -> Authors]
    /\ Results \subseteq [scores : SUBSET (0 .. 100), verdict : AiVerdict]
    /\ Refusal \in Results
    /\ InitialReputations \subseteq Int
    /\ MaxAttempts \in Nat \ {0}
    /\ MaxStalls \in Nat

None == "none"

VARIABLES
    gateOff,           \* MODERATION_DISABLED=1 in the app's environment
    status,            \* posts.status / comments.status, "absent" before INSERT
    kind,              \* whether the content is a post or a comment
    everPublished,     \* published_at is not null
    everRejected,      \* content whose row has been rejected (history variable)
    rulings,           \* verdicts of the content's moderation_decisions rows
    reputation,        \* users.reputation
    rewards,           \* kinds of reputation event recorded for the content
    notices,           \* kinds of notification inserted for the content
    deadLetters,       \* content with an entry in the moderation-dead queue
    request,           \* create request of the content: its step and the
                       \*   author reputation it has read
    job,               \* the content's job in the moderation queue
    run,               \* in-memory state of the attempt that processes it
    unacknowledged,    \* content whose status was written by an attempt that
                       \*   never got the answer (history variable)
    handler,           \* step of the failure handler of the content's job
    review,            \* per moderator, the item open in the review queue
    withdrawal         \* per content, whether a withdrawal is past its check

contentVars == <<status, kind, everPublished, everRejected, rulings>>
effectVars == <<reputation, rewards, notices, deadLetters>>
workerVars == <<job, run, unacknowledged, handler>>
humanVars == <<review, withdrawal>>
vars == <<gateOff, contentVars, effectVars, request, workerVars, humanVars>>

RequestStep == {"none", "inserted", "enqueue", "done"}
JobState == {"none", "waiting", "active", "stalled", "completed", "failed"}
RunStep == {"none", "classify", "decision", "check", "write", "reward",
            "notify", "ack"}
HandlerStep == {"none", "hold", "dlq", "done", "lost"}
ReviewStep == {"idle", "viewing", "check", "write"}

RequestType == [step : RequestStep, reputation : Int]
JobType == [state : JobState, attempts : 0 .. MaxAttempts,
            stalls : 0 .. MaxStalls + 1, reputation : Int]
RunType == [step : RunStep, result : Results, verdict : AiVerdict \union {None}]
ReviewType == [step : ReviewStep, item : Content \union {None},
               verdict : HumanVerdict \union {None}]

NoJob == [state |-> "none", attempts |-> 0, stalls |-> 0, reputation |-> 0]
NoRun == [step |-> "none", result |-> Refusal, verdict |-> None]
NoReview == [step |-> "idle", item |-> None, verdict |-> None]

Init ==
    /\ gateOff \in BOOLEAN
    /\ status = [c \in Content |-> "absent"]
    /\ kind = [c \in Content |-> "post"]
    /\ everPublished = [c \in Content |-> FALSE]
    /\ everRejected = {}
    /\ rulings = [c \in Content |-> {}]
    /\ reputation \in [Authors -> InitialReputations]
    /\ rewards = [c \in Content |-> {}]
    /\ notices = [c \in Content |-> {}]
    /\ deadLetters = {}
    /\ request = [c \in Content |-> [step |-> "none", reputation |-> 0]]
    /\ job = [c \in Content |-> NoJob]
    /\ run = [c \in Content |-> NoRun]
    /\ unacknowledged = {}
    /\ handler = [c \in Content |-> "none"]
    /\ review = [m \in Moderators |-> NoReview]
    /\ withdrawal = [c \in Content |-> FALSE]

-------------------------------------------------------------------------------
(***************************************************************************)
(* Writes to the content row.                                              *)
(***************************************************************************)

\* The SELECT of updatePostStatus / updateCommentStatus allows newStatus.
Legal(c, newStatus) == newStatus \in Allowed(kind[c], status[c])

\* Its UPDATE, which is by id alone and does not look at the status again.
SetStatus(c, newStatus) ==
    /\ status' = [status EXCEPT ![c] = newStatus]
    /\ everPublished' =
          [everPublished EXCEPT ![c] = @ \/ newStatus = "published"]
    /\ everRejected' =
          everRejected \union {d \in {c} : newStatus = "rejected"}
    /\ UNCHANGED kind

LogRuling(c, v) == rulings' = [rulings EXCEPT ![c] = @ \union {v}]

-------------------------------------------------------------------------------
(***************************************************************************)
(* The create actions of the app.                                          *)
(***************************************************************************)

\* The transaction of createPost: the row and its SDG links.
CreatePost(c) ==
    /\ status[c] = "absent"
    /\ status' = [status EXCEPT ![c] = "pending_ai"]
    /\ kind' = [kind EXCEPT ![c] = "post"]
    /\ request' = [request EXCEPT ![c].step = "inserted"]
    /\ UNCHANGED <<gateOff, everPublished, everRejected, rulings, effectVars,
                   workerVars, humanVars>>

\* The INSERT of createComment, after the check of the parent comment (which
\* reads rows no modelled action changes).
CreateComment(c) ==
    /\ status[c] = "absent"
    /\ status' = [status EXCEPT ![c] = "pending_ai"]
    /\ kind' = [kind EXCEPT ![c] = "comment"]
    /\ request' = [request EXCEPT ![c].step = "inserted"]
    /\ UNCHANGED <<gateOff, everPublished, everRejected, rulings, effectVars,
                   workerVars, humanVars>>

\* MODERATION_DISABLED=1: a second UPDATE publishes the row at once.
FastPublish(c) ==
    /\ request[c].step = "inserted"
    /\ gateOff
    /\ SetStatus(c, "published")
    /\ request' = [request EXCEPT ![c].step = "done"]
    /\ UNCHANGED <<gateOff, rulings, effectVars, workerVars, humanVars>>

\* Otherwise the author's reputation is read into the job's payload.
ReadContext(c) ==
    /\ request[c].step = "inserted"
    /\ ~gateOff
    /\ request' = [request EXCEPT
          ![c] = [step |-> "enqueue",
                  reputation |-> reputation[AuthorOf[c]]]]
    /\ UNCHANGED <<gateOff, contentVars, effectVars, workerVars, humanVars>>

Enqueue(c) ==
    /\ request[c].step = "enqueue"
    /\ job' = [job EXCEPT
          ![c] = [NoJob EXCEPT !.state = "waiting",
                               !.reputation = request[c].reputation]]
    /\ request' = [request EXCEPT ![c].step = "done"]
    /\ UNCHANGED <<gateOff, contentVars, effectVars, run, unacknowledged,
                   handler, humanVars>>

\* The app stops, a query throws after the row is committed, or the queue
\* refuses the job and the rejection is swallowed: no job is ever created.
CreateLost(c) ==
    /\ request[c].step \in {"inserted", "enqueue"}
    /\ request' = [request EXCEPT ![c].step = "done"]
    /\ UNCHANGED <<gateOff, contentVars, effectVars, workerVars, humanVars>>

-------------------------------------------------------------------------------
(***************************************************************************)
(* processModerationJob, one action per await.                             *)
(***************************************************************************)

\* Mutant: one attempt more than the budget.
FailAttemptOffByOne(c) ==
    LET used == job[c].attempts + 1
        final == used > MaxAttempts
    IN  /\ job' = [job EXCEPT
              ![c] = [@ EXCEPT !.attempts = used,
                               !.state = IF final THEN "failed" ELSE "waiting"]]
        /\ run' = [run EXCEPT ![c] = NoRun]
        /\ handler' = [handler EXCEPT ![c] = IF final THEN "hold" ELSE @]

\* Mutant: the processor catches the error, so that BullMQ sees a success.
FailAttemptSwallowed(c) ==
    /\ job' = [job EXCEPT ![c].state = "completed"]
    /\ run' = [run EXCEPT ![c] = NoRun]
    /\ UNCHANGED handler

\* Mutant: the 'failed' listener does not look at attemptsMade.
FailAttemptAlwaysHandled(c) ==
    LET used == job[c].attempts + 1
    IN  /\ job' = [job EXCEPT
              ![c] = [@ EXCEPT !.attempts = used,
                               !.state = IF used >= MaxAttempts
                                         THEN "failed" ELSE "waiting"]]
        /\ run' = [run EXCEPT ![c] = NoRun]
        /\ handler' = [handler EXCEPT ![c] = "hold"]

\* Mutant: a failed attempt is put back without being counted.
FailAttemptUncounted(c) ==
    /\ job' = [job EXCEPT ![c].state = "waiting"]
    /\ run' = [run EXCEPT ![c] = NoRun]
    /\ UNCHANGED handler

\* Ends the attempt with an error.  BullMQ counts it and, when the attempts
\* are used up, fails the job and emits 'failed' to the handler.
FailAttempt(c) ==
    LET used == job[c].attempts + 1
        final == used >= MaxAttempts
    IN  /\ job' = [job EXCEPT
              ![c] = [@ EXCEPT !.attempts = used,
                               !.state = IF final THEN "failed" ELSE "waiting"]]
        /\ run' = [run EXCEPT ![c] = NoRun]
        /\ handler' = [handler EXCEPT ![c] = IF final THEN "hold" ELSE @]

StartAttempt(c) ==
    /\ job[c].state = "waiting"
    /\ job' = [job EXCEPT ![c].state = "active"]
    /\ run' = [run EXCEPT ![c].step = "classify"]
    /\ UNCHANGED <<gateOff, contentVars, effectVars, request, unacknowledged,
                   handler, humanVars>>

\* provider.classify() answers and decide() turns the answer into a verdict.
Classify(c) ==
    /\ run[c].step = "classify"
    /\ \E r \in Results :
          run' = [run EXCEPT
              ![c] = [step |-> "decision", result |-> r,
                      verdict |-> Decide(r.scores, job[c].reputation)]]
    /\ UNCHANGED <<gateOff, contentVars, effectVars, request, job,
                   unacknowledged, handler, humanVars>>

\* Mutant: the row is written for held content only.
WriteDecisionOfHolds(c) ==
    /\ run[c].step = "decision"
    /\ IF run[c].verdict = "hold_for_review"
       THEN LogRuling(c, run[c].verdict)
       ELSE UNCHANGED rulings
    /\ run' = [run EXCEPT ![c].step = "check"]
    /\ UNCHANGED <<gateOff, status, kind, everPublished, everRejected,
                   effectVars, request, job, unacknowledged, handler, humanVars>>

WriteDecision(c) ==
    /\ run[c].step = "decision"
    /\ LogRuling(c, run[c].verdict)
    /\ run' = [run EXCEPT ![c].step = "check"]
    /\ UNCHANGED <<gateOff, status, kind, everPublished, everRejected,
                   effectVars, request, job, unacknowledged, handler, humanVars>>

\* Mutant: a row that has left pending_ai is taken as written by an earlier
\* attempt, and the effects follow.
CheckStatusSkipsWrite(c) ==
    /\ run[c].step = "check"
    /\ Legal(c, VerdictToStatus(run[c].verdict))
    /\ run' = [run EXCEPT
          ![c].step = IF status[c] = "pending_ai" THEN "write" ELSE "reward"]
    /\ UNCHANGED <<gateOff, contentVars, effectVars, request, job,
                   unacknowledged, handler, humanVars>>

\* Mutant: the worker writes the status without asking the state machine.
CheckStatusUnguarded(c) ==
    /\ run[c].step = "check"
    /\ run' = [run EXCEPT ![c].step = "write"]
    /\ UNCHANGED <<gateOff, contentVars, effectVars, request, job,
                   unacknowledged, handler, humanVars>>

CheckStatus(c) ==
    /\ run[c].step = "check"
    /\ Legal(c, VerdictToStatus(run[c].verdict))
    /\ run' = [run EXCEPT ![c].step = "write"]
    /\ UNCHANGED <<gateOff, contentVars, effectVars, request, job,
                   unacknowledged, handler, humanVars>>

\* IllegalTransitionError: it leaves the processor like any other error.
RefuseTransition(c) ==
    /\ run[c].step = "check"
    /\ ~Legal(c, VerdictToStatus(run[c].verdict))
    /\ FailAttempt(c)
    /\ UNCHANGED <<gateOff, contentVars, effectVars, request, unacknowledged,
                   humanVars>>

WriteStatus(c) ==
    LET newStatus == VerdictToStatus(run[c].verdict)
    IN  /\ run[c].step = "write"
        /\ SetStatus(c, newStatus)
        /\ run' = [run EXCEPT
              ![c].step = IF newStatus = "pending_review" THEN "ack"
                                                          ELSE "reward"]
        /\ UNCHANGED <<gateOff, rulings, effectVars, request, job,
                       unacknowledged, handler, humanVars>>

\* The UPDATE is committed but its answer is lost, so that the query throws:
\* the attempt fails although it has done its work.
WriteUnacknowledged(c) ==
    /\ run[c].step = "write"
    /\ SetStatus(c, VerdictToStatus(run[c].verdict))
    /\ FailAttempt(c)
    /\ unacknowledged' = unacknowledged \union {c}
    /\ UNCHANGED <<gateOff, rulings, effectVars, request, humanVars>>

\* The provider or a query throws before the status is written.
AttemptFails(c) ==
    /\ run[c].step \in {"classify", "decision", "check", "write"}
    /\ FailAttempt(c)
    /\ UNCHANGED <<gateOff, contentVars, effectVars, request, unacknowledged,
                   humanVars>>

\* recordEvent(): event row and cached sum in one transaction.
Reward(c) ==
    LET event == RewardFor(kind[c], VerdictToStatus(run[c].verdict))
    IN  /\ run[c].step = "reward"
        /\ rewards' = [rewards EXCEPT ![c] = @ \union {event}]
        /\ reputation' =
              [reputation EXCEPT ![AuthorOf[c]] = @ + Delta[event]]
        /\ run' = [run EXCEPT ![c].step = "notify"]
        /\ UNCHANGED <<gateOff, contentVars, notices, deadLetters, request,
                       job, unacknowledged, handler, humanVars>>

\* Mutant: a failure to record the event fails the attempt.
RewardFailsAttempt(c) ==
    /\ run[c].step = "reward"
    /\ FailAttempt(c)
    /\ UNCHANGED <<gateOff, contentVars, effectVars, request, unacknowledged,
                   humanVars>>

\* A failure to record the event is logged and swallowed.
RewardFails(c) ==
    /\ run[c].step = "reward"
    /\ run' = [run EXCEPT ![c].step = "notify"]
    /\ UNCHANGED <<gateOff, contentVars, effectVars, request, job,
                   unacknowledged, handler, humanVars>>

\* So is a failure to insert the notification: the new set may be left out.
Notify(c) ==
    LET due == NoticesFor(kind[c], VerdictToStatus(run[c].verdict))
    IN  /\ run[c].step = "notify"
        /\ \E sent \in {{}, due} :
              notices' = [notices EXCEPT ![c] = @ \union sent]
        /\ run' = [run EXCEPT ![c].step = "ack"]
        /\ UNCHANGED <<gateOff, contentVars, reputation, rewards, deadLetters,
                       request, job, unacknowledged, handler, humanVars>>

Complete(c) ==
    /\ run[c].step = "ack"
    /\ job' = [job EXCEPT ![c].state = "completed"]
    /\ run' = [run EXCEPT ![c] = NoRun]
    /\ UNCHANGED <<gateOff, contentVars, effectVars, request, unacknowledged,
                   handler, humanVars>>

\* The worker process exits in the middle of an attempt, or BullMQ cannot
\* mark the job as finished: its lock expires.
CrashAttempt(c) ==
    /\ job[c].state = "active"
    /\ job' = [job EXCEPT ![c].state = "stalled"]
    /\ run' = [run EXCEPT ![c] = NoRun]
    /\ UNCHANGED <<gateOff, contentVars, effectVars, request, unacknowledged,
                   handler, humanVars>>

\* BullMQ finds a stalled job: it is delivered again, until it has stalled
\* too often and counts as one more, unrecoverable, failed attempt.  The
\* 'failed' listener handles it only if that used up the attempts.
RecoverStalled(c) ==
    LET stalls == job[c].stalls + 1
        used == job[c].attempts + 1
    IN  /\ job[c].state = "stalled"
        /\ IF stalls <= MaxStalls
           THEN /\ job' = [job EXCEPT
                      ![c] = [@ EXCEPT !.state = "waiting", !.stalls = stalls]]
                /\ UNCHANGED handler
           ELSE /\ job' = [job EXCEPT
                      ![c] = [@ EXCEPT !.state = "failed", !.stalls = stalls,
                                       !.attempts = used]]
                /\ handler' = [handler EXCEPT
                      ![c] = IF used >= MaxAttempts THEN "hold" ELSE @]
        /\ UNCHANGED <<gateOff, contentVars, effectVars, request, run,
                       unacknowledged, humanVars>>

-------------------------------------------------------------------------------
(***************************************************************************)
(* handleFailedModerationJob, started without an await by the 'failed'     *)
(* listener.  Either of its writes may fail and be swallowed.              *)
(***************************************************************************)

HandlerHold(c) ==
    /\ handler[c] = "hold"
    /\ LogRuling(c, "hold_for_review") \/ UNCHANGED rulings
    /\ handler' = [handler EXCEPT ![c] = "dlq"]
    /\ UNCHANGED <<gateOff, status, kind, everPublished, everRejected,
                   effectVars, request, job, run, unacknowledged, humanVars>>

HandlerDeadLetter(c) ==
    /\ handler[c] = "dlq"
    /\ deadLetters' = deadLetters \union {c} \/ UNCHANGED deadLetters
    /\ handler' = [handler EXCEPT ![c] = "done"]
    /\ UNCHANGED <<gateOff, contentVars, reputation, rewards, notices, request,
                   job, run, unacknowledged, humanVars>>

\* The process exits first; nothing calls the handler for the job again.
HandlerLost(c) ==
    /\ handler[c] \in {"hold", "dlq"}
    /\ handler' = [handler EXCEPT ![c] = "lost"]
    /\ UNCHANGED <<gateOff, contentVars, effectVars, request, job, run,
                   unacknowledged, humanVars>>

-------------------------------------------------------------------------------
(***************************************************************************)
(* Moderators.  The review page lists the content that is pending_review   *)
(* when it is rendered; the buttons act on whatever the row has become.    *)
(***************************************************************************)

\* Mutant: the page lists everything that is not public yet.
OpenItemUnfiltered(m, c) ==
    /\ review[m].step = "idle"
    /\ status[c] \in {"pending_ai", "pending_review"}
    /\ review' = [review EXCEPT
          ![m] = [step |-> "viewing", item |-> c, verdict |-> None]]
    /\ UNCHANGED <<gateOff, contentVars, effectVars, request, workerVars,
                   withdrawal>>

OpenItem(m, c) ==
    /\ review[m].step = "idle"
    /\ status[c] = "pending_review"
    /\ review' = [review EXCEPT
          ![m] = [step |-> "viewing", item |-> c, verdict |-> None]]
    /\ UNCHANGED <<gateOff, contentVars, effectVars, request, workerVars,
                   withdrawal>>

\* moderatorPublishAction: the audit row first.
RulePublish(m) ==
    /\ review[m].step = "viewing"
    /\ LogRuling(review[m].item, "human_publish")
    /\ review' = [review EXCEPT
          ![m] = [@ EXCEPT !.step = "check", !.verdict = "human_publish"]]
    /\ UNCHANGED <<gateOff, status, kind, everPublished, everRejected,
                   effectVars, request, workerVars, withdrawal>>

\* moderatorRejectAction: the audit row first.
RuleReject(m) ==
    /\ review[m].step = "viewing"
    /\ LogRuling(review[m].item, "human_reject")
    /\ review' = [review EXCEPT
          ![m] = [@ EXCEPT !.step = "check", !.verdict = "human_reject"]]
    /\ UNCHANGED <<gateOff, status, kind, everPublished, everRejected,
                   effectVars, request, workerVars, withdrawal>>

ReviewCheck(m) ==
    /\ review[m].step = "check"
    /\ Legal(review[m].item, VerdictToStatus(review[m].verdict))
    /\ review' = [review EXCEPT ![m].step = "write"]
    /\ UNCHANGED <<gateOff, contentVars, effectVars, request, workerVars,
                   withdrawal>>

ReviewWrite(m) ==
    /\ review[m].step = "write"
    /\ SetStatus(review[m].item, VerdictToStatus(review[m].verdict))
    /\ review' = [review EXCEPT ![m] = NoReview]
    /\ UNCHANGED <<gateOff, rulings, effectVars, request, workerVars,
                   withdrawal>>

\* The page is left, authority is refused, the transition is illegal or a
\* query throws.  An audit row that was already written stays.
ReviewEnds(m) ==
    /\ review[m].step \in {"viewing", "check", "write"}
    /\ review' = [review EXCEPT ![m] = NoReview]
    /\ UNCHANGED <<gateOff, contentVars, effectVars, request, workerVars,
                   withdrawal>>

-------------------------------------------------------------------------------
(***************************************************************************)
(* The author withdraws: withdrawPost / withdrawComment.                   *)
(***************************************************************************)

\* Mutant: authors may withdraw what still waits for a moderator.
WithdrawCheckEarly(c) ==
    /\ status[c] \in {"pending_review", "published"}
    /\ withdrawal' = [withdrawal EXCEPT ![c] = TRUE]
    /\ UNCHANGED <<gateOff, contentVars, effectVars, request, workerVars,
                   review>>

WithdrawCheck(c) ==
    /\ status[c] = "published"
    /\ withdrawal' = [withdrawal EXCEPT ![c] = TRUE]
    /\ UNCHANGED <<gateOff, contentVars, effectVars, request, workerVars,
                   review>>

WithdrawWrite(c) ==
    /\ withdrawal[c]
    /\ SetStatus(c, "withdrawn")
    /\ withdrawal' = [withdrawal EXCEPT ![c] = FALSE]
    /\ UNCHANGED <<gateOff, rulings, effectVars, request, workerVars, review>>

WithdrawFails(c) ==
    /\ withdrawal[c]
    /\ withdrawal' = [withdrawal EXCEPT ![c] = FALSE]
    /\ UNCHANGED <<gateOff, contentVars, effectVars, request, workerVars,
                   review>>

-------------------------------------------------------------------------------
AppStep(c) ==
    \/ CreatePost(c)
    \/ CreateComment(c)
    \/ FastPublish(c)
    \/ ReadContext(c)
    \/ Enqueue(c)
    \/ CreateLost(c)
    \/ WithdrawCheck(c)
    \/ WithdrawWrite(c)
    \/ WithdrawFails(c)

WorkerStep(c) ==
    \/ StartAttempt(c)
    \/ Classify(c)
    \/ WriteDecision(c)
    \/ CheckStatus(c)
    \/ RefuseTransition(c)
    \/ WriteStatus(c)
    \/ WriteUnacknowledged(c)
    \/ AttemptFails(c)
    \/ Reward(c)
    \/ RewardFails(c)
    \/ Notify(c)
    \/ Complete(c)
    \/ RecoverStalled(c)

HandlerStepOf(c) == HandlerHold(c) \/ HandlerDeadLetter(c)

ReviewStepOf(m) ==
    \/ \E c \in Content : OpenItem(m, c)
    \/ RulePublish(m)
    \/ RuleReject(m)
    \/ ReviewCheck(m)
    \/ ReviewWrite(m)
    \/ ReviewEnds(m)

Next ==
    \/ \E c \in Content :
          \/ AppStep(c)
          \/ WorkerStep(c)
          \/ CrashAttempt(c)
          \/ HandlerStepOf(c)
          \/ HandlerLost(c)
    \/ \E m \in Moderators : ReviewStepOf(m)

\* The supervisor restarts the worker and BullMQ keeps delivering: a job that
\* can be worked on is.  Nothing is assumed of crashes, of authors, of
\* moderators, or of the app between the INSERT and the enqueue.
Fairness ==
    \A c \in Content : WF_vars(WorkerStep(c)) /\ WF_vars(HandlerStepOf(c))

Safety == Init /\ [][Next]_vars
Spec == Safety /\ Fairness

-------------------------------------------------------------------------------
(***************************************************************************)
(* Properties.                                                             *)
(***************************************************************************)

\* Types, and the counters within BullMQ's limits: no job is attempted more
\* than MaxAttempts times however failures, crashes and redeliveries mix.
TypeOK ==
    /\ gateOff \in BOOLEAN
    /\ status \in [Content -> ContentStatus \union {"absent"}]
    /\ kind \in [Content -> Kind]
    /\ everPublished \in [Content -> BOOLEAN]
    /\ everRejected \subseteq Content
    /\ rulings \in [Content -> SUBSET Verdict]
    /\ reputation \in [Authors -> Int]
    /\ rewards \in [Content -> SUBSET RewardKind]
    /\ notices \in [Content -> SUBSET NoticeKind]
    /\ deadLetters \subseteq Content
    /\ request \in [Content -> RequestType]
    /\ job \in [Content -> JobType]
    /\ run \in [Content -> RunType]
    /\ unacknowledged \subseteq Content
    /\ handler \in [Content -> HandlerStep]
    /\ review \in [Moderators -> ReviewType]
    /\ withdrawal \in [Content -> BOOLEAN]

\* Some logged verdict of content c asks for status s.
Ruled(c, s) == \E v \in rulings[c] : VerdictToStatus(v) = s

\* The audit log comes first: whatever interleaving of worker, moderators and
\* author, retry or crash, no content is public, withdrawn, rejected or queued
\* for review without a logged verdict that says so (gate off excepted).
StatusIsRuled ==
    \A c \in Content :
        /\ status[c] \in {"published", "withdrawn"} =>
              gateOff \/ Ruled(c, "published")
        /\ status[c] = "rejected" => Ruled(c, "rejected")
        /\ status[c] = "pending_review" => Ruled(c, "pending_review")

\* A person rules only on what the classifier has held for review.
HumansRuleOnHeld ==
    \A c \in Content :
        rulings[c] \intersect HumanVerdict # {} =>
            "hold_for_review" \in rulings[c]

\* Reputation and notifications tell of statuses that have really been written:
\* nobody is rewarded for, or told of, a publication (rejection) that a logged
\* verdict did not ask for or whose UPDATE never took place.
EffectsFollowStatus ==
    \A c \in Content :
        /\ \/ rewards[c] \intersect {"post_accepted", "comment_accepted"} # {}
           \/ notices[c] \intersect {"post_published", "comment_reply"} # {}
           => everPublished[c] /\ "auto_publish" \in rulings[c]
        /\ \/ rewards[c] \intersect {"post_rejected", "comment_rejected"} # {}
           \/ "post_rejected" \in notices[c]
           => c \in everRejected /\ "auto_reject" \in rulings[c]

\* A job reported as completed has taken its content out of pending_ai.
CompletedIsDecided ==
    \A c \in Content :
        job[c].state = "completed" => status[c] \notin {"absent", "pending_ai"}

\* The dead-letter queue holds only jobs that are over: an operator who
\* replays an entry never races an attempt that is still to come.
DeadLetterIsFinal ==
    \A c \in deadLetters :
        job[c].state = "failed" /\ job[c].attempts = MaxAttempts

\* Content enters the review queue only from pending_ai: what moderators have
\* decided never comes back to them, whatever a late worker does.
ReviewedOnce ==
    [][\A c \in Content :
          status'[c] = "pending_review" /\ status[c] # "pending_review" =>
              status[c] = "pending_ai"]_vars

\* Rejected content is published again only by a moderator, or by a job that
\* was delivered again after a crash or after a write whose answer was lost:
\* an attempt that failed otherwise leaves nothing a retry could overturn.
ReversalNeedsCause ==
    [][\A c \in Content :
          status[c] = "rejected" /\ status'[c] = "published" =>
              \/ job[c].stalls > 0
              \/ c \in unacknowledged
              \/ \E m \in Moderators :
                    review[m].item = c /\ review[m].step = "write"]_vars

\* At-least-once delivery, at-most-once reward: every change of an author's
\* cached reputation is an event of a kind the content has not earned before.
\* Only where a moderator has ruled on the content while a late attempt was
\* still at work can a kind come twice: their writes overtake each other.
RewardedOnce ==
    [][reputation' # reputation =>
          \/ rewards' # rewards
          \/ \E c \in Content : /\ run[c].step = "reward"
                                /\ rulings[c] \intersect HumanVerdict # {}]_vars

\* A queued job is not forgotten: its content leaves pending_ai or the job is
\* failed, in spite of crashes and of a provider that keeps failing.
QueuedIsDecided ==
    \A c \in Content :
        job[c].state = "waiting" ~>
            (status[c] # "pending_ai" \/ job[c].state = "failed")

\* The pipeline keeps the promises of EditorialContract.
Contract == INSTANCE EditorialContract
ContractHolds == Contract!Spec

(***************************************************************************)
(* What documents and comments of the repository say, and the code does    *)
(* not do.                                                                 *)
(***************************************************************************)

\* docs/architecture/moderation.md 2.6, 8.5, 8.8: a refusal is a failure, and
\* a failure never ends in auto_publish.
RefusalIsHeld ==
    \A c \in Content :
        run[c].verdict # None /\ run[c].result = Refusal =>
            run[c].verdict # "auto_publish"

\* docs/architecture/moderation.md 8.1, 8.7: content whose job failed for
\* good, once its hold_for_review row and its dead letter are written, waits
\* in pending_review, where the moderator queue picks it up.
FailedIsReviewable ==
    \A c \in deadLetters :
        "hold_for_review" \in rulings[c] => status[c] # "pending_ai"

\* updatePostStatus.ts, B-POST-1.md: the state machine is enforced.
TransitionsAreLegal ==
    [][\A c \in Content :
          status[c] # "absent" /\ status'[c] # status[c] =>
              status'[c] \in Allowed(kind[c], status[c])]_vars
===============================================================================
