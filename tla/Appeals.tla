-------------------------------- MODULE Appeals --------------------------------
(***************************************************************************)
(* Appeals against a rejection: the author files one from the page of the  *)
(* rejected content, a moderator upholds or rejects it.  Both server       *)
(* actions are a sequence of queries outside any transaction, so several   *)
(* tabs of the author and several moderators interleave between them.      *)
(*                                                                         *)
(* The rest of moderation shares the content rows and the audit log.  It   *)
(* is the environment here, in the form of EditorialContract, which        *)
(* ModerationPipeline is proved to implement: every step it promises may   *)
(* happen between any two steps of an appeal.                              *)
(***************************************************************************)
EXTENDS ModerationPolicy, Sequences, FiniteSets

CONSTANTS
    Content,           \* post and comment ids
    KindOf,            \* [Content -> Kind]
    Tabs,              \* pages the authors may have open at a time
    Moderators,        \* resolve requests that may be in flight at a time
    MaxAppeals,        \* bound on the appeals rows that are modelled
    MaxOverturns       \* bound on the times accepted content is taken down

None == "none"

ASSUME AppealsAssumption ==
    /\ None \notin Content
    /\ KindOf \in [Content -> Kind]
    /\ IsFiniteSet(Tabs)
    /\ IsFiniteSet(Moderators)
    /\ MaxAppeals \in Nat
    /\ MaxOverturns \in Nat

VARIABLES
    gateOff, status, rulings,   \* as in EditorialContract
    shown,             \* content whose published_at is not null
    overturns,         \* how often a ruling has taken down content that was
                       \*   accepted (history variable)
    appeals,           \* appeals rows in the order of their INSERT
    offered,           \* content whose author has been shown the appeal form
    filing,            \* per tab, the content whose appeal is past its check
    resolving,         \* per resolve request: appeal, resolution and step
    credits,           \* per content, its appeal_resolved_for_user events
    credited,          \* the appeals these events are about
    notices            \* <<appeal, resolution>> of each appeal_resolved notice

contentVars == <<gateOff, status, rulings, shown, overturns>>
creditVars == <<credits, credited>>
vars == <<contentVars, appeals, offered, filing, resolving, creditVars, notices>>

Pipeline == INSTANCE EditorialContract

Resolution == {"upheld", "rejected"}
ResolveStep ==
    {"idle", "audit", "check", "write", "credit", "mark", "notify"}

NoResolving == [step |-> "idle", appeal |-> 0, resolution |-> None]

Open(a) == appeals[a].resolution = None
OpenAppeals(t) ==
    {a \in DOMAIN appeals : appeals[a].target = t /\ Open(a)}

\* The content that request m is about, once it has fetched its appeal.
TargetOf(m) == appeals[resolving[m].appeal].target

\* With the gate off nothing is ever rejected, so there is nothing to appeal.
Init ==
    /\ Pipeline!Init
    /\ ~gateOff
    /\ shown = {}
    /\ overturns = [t \in Content |-> 0]
    /\ appeals = <<>>
    /\ offered = {}
    /\ filing = [tab \in Tabs |-> None]
    /\ resolving = [m \in Moderators |-> NoResolving]
    /\ credits = [t \in Content |-> 0]
    /\ credited = {}
    /\ notices = {}

-------------------------------------------------------------------------------
(***************************************************************************)
(* submitAppealAction.                                                     *)
(***************************************************************************)

\* The page of the author's own content offers the form while it is rejected;
\* a form on the screen stays there, whatever becomes of the content.
OfferForm(t) ==
    /\ status[t] = "rejected"
    /\ offered' = offered \union {t}
    /\ UNCHANGED <<contentVars, appeals, filing, resolving, creditVars, notices>>

\* Mutant: the action trusts the page and does not look for an open appeal.
SubmitCheckSkipped(tab, t) ==
    /\ filing[tab] = None
    /\ t \in offered
    /\ filing' = [filing EXCEPT ![tab] = t]
    /\ UNCHANGED <<contentVars, appeals, offered, resolving, creditVars, notices>>

\* The SELECT for an unresolved appeal of the same author and target.  The
\* content's status is not looked at.
SubmitCheck(tab, t) ==
    /\ filing[tab] = None
    /\ t \in offered
    /\ OpenAppeals(t) = {}
    /\ filing' = [filing EXCEPT ![tab] = t]
    /\ UNCHANGED <<contentVars, appeals, offered, resolving, creditVars, notices>>

SubmitInsert(tab) ==
    /\ filing[tab] # None
    /\ Len(appeals) < MaxAppeals
    /\ appeals' =
          Append(appeals, [target |-> filing[tab], resolution |-> None])
    /\ filing' = [filing EXCEPT ![tab] = None]
    /\ UNCHANGED <<contentVars, offered, resolving, creditVars, notices>>

\* The INSERT throws, or the app stops.
SubmitFails(tab) ==
    /\ filing[tab] # None
    /\ filing' = [filing EXCEPT ![tab] = None]
    /\ UNCHANGED <<contentVars, appeals, offered, resolving, creditVars, notices>>

-------------------------------------------------------------------------------
(***************************************************************************)
(* resolveAppealAction.                                                    *)
(***************************************************************************)

\* The appeal is fetched and must be unresolved; authority is granted.
Fetch(m, a, r) ==
    /\ resolving[m].step = "idle"
    /\ Open(a)
    /\ resolving' = [resolving EXCEPT
          ![m] = [step |-> "audit", appeal |-> a, resolution |-> r]]
    /\ UNCHANGED <<contentVars, appeals, offered, filing, creditVars, notices>>

\* Mutant: an upheld appeal is logged after the content is published.
AuditLate(m) ==
    LET r == resolving[m].resolution
    IN  /\ resolving[m].step = "audit"
        /\ rulings' = IF r = "upheld" THEN rulings
                      ELSE [rulings EXCEPT
                              ![TargetOf(m)] = @ \union {"human_reject"}]
        /\ resolving' = [resolving EXCEPT
              ![m].step = IF r = "upheld" THEN "check" ELSE "mark"]
        /\ UNCHANGED <<gateOff, status, shown, overturns, appeals,
                       offered, filing, creditVars, notices>>

\* Mutant: the appeal is closed before its content is published.
AuditThenMark(m) ==
    LET v == IF resolving[m].resolution = "upheld"
             THEN "human_publish" ELSE "human_reject"
    IN  /\ resolving[m].step = "audit"
        /\ rulings' = [rulings EXCEPT ![TargetOf(m)] = @ \union {v}]
        /\ resolving' = [resolving EXCEPT ![m].step = "mark"]
        /\ UNCHANGED <<gateOff, status, shown, overturns, appeals,
                       offered, filing, creditVars, notices>>

\* Mutant: both resolutions take the branch of an upheld appeal.
AuditAlwaysPublishes(m) ==
    LET upheld == resolving[m].resolution = "upheld"
        v == IF upheld THEN "human_publish" ELSE "human_reject"
    IN  /\ resolving[m].step = "audit"
        /\ rulings' = [rulings EXCEPT ![TargetOf(m)] = @ \union {v}]
        /\ resolving' = [resolving EXCEPT ![m].step = "check"]
        /\ UNCHANGED <<gateOff, status, shown, overturns, appeals,
                       offered, filing, creditVars, notices>>

\* The audit row comes first; only an upheld appeal touches the content.
Audit(m) ==
    LET upheld == resolving[m].resolution = "upheld"
        v == IF upheld THEN "human_publish" ELSE "human_reject"
    IN  /\ resolving[m].step = "audit"
        /\ rulings' = [rulings EXCEPT ![TargetOf(m)] = @ \union {v}]
        /\ resolving' = [resolving EXCEPT
              ![m].step = IF upheld THEN "check" ELSE "mark"]
        /\ UNCHANGED <<gateOff, status, shown, overturns, appeals,
                       offered, filing, creditVars, notices>>

\* Mutant: the appeal publishes without asking the state machine.
PublishCheckUnguarded(m) ==
    /\ resolving[m].step = "check"
    /\ resolving' = [resolving EXCEPT ![m].step = "write"]
    /\ UNCHANGED <<contentVars, appeals, offered, filing, creditVars, notices>>

\* The SELECT of updatePostStatus / updateCommentStatus.
PublishCheck(m) ==
    /\ resolving[m].step = "check"
    /\ "published" \in Allowed(KindOf[TargetOf(m)], status[TargetOf(m)])
    /\ resolving' = [resolving EXCEPT ![m].step = "write"]
    /\ UNCHANGED <<contentVars, appeals, offered, filing, creditVars, notices>>

\* Its UPDATE, by id alone.
PublishWrite(m) ==
    /\ resolving[m].step = "write"
    /\ status' = [status EXCEPT ![TargetOf(m)] = "published"]
    /\ shown' = shown \union {TargetOf(m)}
    /\ resolving' = [resolving EXCEPT ![m].step = "credit"]
    /\ UNCHANGED <<gateOff, rulings, overturns, appeals, offered, filing,
                   creditVars, notices>>

\* recordEvent(); here a failure does end the action.
Credit(m) ==
    /\ resolving[m].step = "credit"
    /\ credits' = [credits EXCEPT ![TargetOf(m)] = @ + 1]
    /\ credited' = credited \union {resolving[m].appeal}
    /\ resolving' = [resolving EXCEPT ![m].step = "mark"]
    /\ UNCHANGED <<contentVars, appeals, offered, filing, notices>>

\* The UPDATE of the appeals row, by id alone.
Mark(m) ==
    /\ resolving[m].step = "mark"
    /\ appeals' = [appeals EXCEPT
          ![resolving[m].appeal].resolution = resolving[m].resolution]
    /\ resolving' = [resolving EXCEPT ![m].step = "notify"]
    /\ UNCHANGED <<contentVars, offered, filing, creditVars, notices>>

Notify(m) ==
    /\ resolving[m].step = "notify"
    /\ notices' = notices \union
          {<<resolving[m].appeal, resolving[m].resolution>>}
    /\ resolving' = [resolving EXCEPT ![m] = NoResolving]
    /\ UNCHANGED <<contentVars, appeals, offered, filing, creditVars>>

\* IllegalTransitionError, a query that throws, or the app stops: what was
\* written stays and nothing resumes the action.
ResolveFails(m) ==
    /\ resolving[m].step # "idle"
    /\ resolving' = [resolving EXCEPT ![m] = NoResolving]
    /\ UNCHANGED <<contentVars, appeals, offered, filing, creditVars, notices>>

-------------------------------------------------------------------------------
\* Content that was accepted: PublishCheck refuses to publish it.
Accepted == {"published", "withdrawn"}

\* A ruling that was made before the content was accepted takes it down.
CountOverturns ==
    /\ overturns' = [t \in Content |->
          IF status[t] \in Accepted /\ status'[t] \notin Accepted
          THEN overturns[t] + 1 ELSE overturns[t]]
    /\ \A t \in Content : overturns'[t] <= MaxOverturns

\* The worker, the review queue and the authors' withdrawals.
PipelineStep ==
    /\ \E t \in Content :
          \/ Pipeline!Submit(t)
          \/ Pipeline!RuleByAi(t)
          \/ Pipeline!RuleByHuman(t)
          \/ Pipeline!Enact(t)
          \/ Pipeline!Withdraw(t)
    /\ shown' = shown \union {t \in Content : status'[t] = "published"}
    /\ CountOverturns
    /\ UNCHANGED <<appeals, offered, filing, resolving, creditVars, notices>>

FilingStepOf(tab) ==
    \/ \E t \in Content : SubmitCheck(tab, t)
    \/ SubmitInsert(tab)
    \/ SubmitFails(tab)

ResolveStepOf(m) ==
    \/ \E a \in DOMAIN appeals, r \in Resolution : Fetch(m, a, r)
    \/ Audit(m)
    \/ PublishCheck(m)
    \/ PublishWrite(m)
    \/ Credit(m)
    \/ Mark(m)
    \/ Notify(m)
    \/ ResolveFails(m)

Next ==
    \/ PipelineStep
    \/ \E t \in Content : OfferForm(t)
    \/ \E tab \in Tabs : FilingStepOf(tab)
    \/ \E m \in Moderators : ResolveStepOf(m)

Spec == Init /\ [][Next]_vars

-------------------------------------------------------------------------------
(***************************************************************************)
(* Properties.                                                             *)
(***************************************************************************)

AppealType ==
    [target : Content, resolution : Resolution \union {None}]

\* Types; a request in flight has an appeal that exists, and publishes or
\* credits only if it upholds it.
TypeOK ==
    /\ status \in [Content -> ContentStatus \union {"absent"}]
    /\ rulings \in [Content -> SUBSET Verdict]
    /\ shown \subseteq Content
    /\ overturns \in [Content -> 0 .. MaxOverturns]
    /\ appeals \in Seq(AppealType)
    /\ offered \subseteq Content
    /\ filing \in [Tabs -> Content \union {None}]
    /\ \A m \in Moderators :
          \/ resolving[m] = NoResolving
          \/ resolving[m] \in [step : ResolveStep \ {"idle"},
                               appeal : DOMAIN appeals,
                               resolution : Resolution]
    /\ \A m \in Moderators :
          resolving[m].step \in {"check", "write", "credit"} =>
              resolving[m].resolution = "upheld"
    /\ credits \in [Content -> Nat]
    /\ credited \subseteq DOMAIN appeals
    /\ notices \subseteq (DOMAIN appeals) \X Resolution

\* An author who reads that the appeal was upheld, in the appeal or in the
\* notice, can rely on it: the content has been published again after
\* the verdict was logged, whatever another moderator did to the same appeal.
UpheldIsPublished ==
    \A a \in DOMAIN appeals :
        \/ appeals[a].resolution = "upheld"
        \/ <<a, "upheld">> \in notices
        \/ a \in credited
        => /\ appeals[a].target \in shown
           /\ "human_publish" \in rulings[appeals[a].target]

\* With appeals in the mix the audit log still comes first: no content is
\* public or rejected without a logged verdict that says so.
StatusIsRuled ==
    \A t \in Content :
        /\ status[t] = "published" =>
              \E v \in rulings[t] : VerdictToStatus(v) = "published"
        /\ status[t] = "rejected" =>
              \E v \in rulings[t] : VerdictToStatus(v) = "rejected"

\* No index keeps a second open appeal out, so the tabs of an author can race
\* past the check; but each open appeal costs a tab: filing again and again
\* from one page never grows the queue, whatever is resolved meanwhile.
DuplicatesBounded ==
    \A t \in Content :
        Cardinality(OpenAppeals(t))
            + Cardinality({tab \in Tabs : filing[tab] = t}) <= Cardinality(Tabs)

\* An author is credited for being right, not for asking again: retrying an
\* action that died between its writes, appealing anew, filing from many tabs
\* give no credit of their own.  Each time content waits to be published on
\* appeal, the requests past their check credit its author once each: n
\* requests that pass it together give n credits, and no schedule gives more.
CreditsBounded ==
    \A t \in Content :
        credits[t] <= Cardinality(Moderators) * (1 + overturns[t])

\* _appeal-actions.ts, C-APPEAL-1.md: a rejected appeal has no reputation
\* impact.
RejectedHasNoImpact ==
    \A a \in credited : appeals[a].resolution # "rejected"
===============================================================================
