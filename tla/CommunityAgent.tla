---------------------------- MODULE CommunityAgent ----------------------------
(***************************************************************************)
(* The community agent for one group: the crons that start its jobs, the   *)
(* two handlers, which read the database and ask a provider, notify member *)
(* by member and write a run log last, BullMQ's retries, and the handler   *)
(* of jobs that have failed for good.  The worker may crash anywhere.      *)
(***************************************************************************)
EXTENDS Naturals, FiniteSets

CONSTANTS
    Jobs,              \* occurrences of the crons
    Users,
    MaxAttempts,       \* COMMUNITY_AGENT_JOB_OPTS.attempts
    MaxStalls,         \* BullMQ's maxStalledCount
    MaxChanges         \* bound on the changes of members and settings

ASSUME AgentAssumption ==
    /\ MaxAttempts \in Nat \ {0}
    /\ MaxStalls \in Nat

VARIABLES
    cron,              \* kinds that have a repeatable job
    job,               \* per job: kind, step, attempts made, stalls, members to notify
    digestEnabled,     \* of the group
    member,            \* users in the group
    optedIn,           \* users with digest_email_enabled
    alerts,            \* notification rows per job and user
    runLog,            \* statuses written to community_agent_runs, per job
    deadLetters,       \* jobs in the dead letter queue
    opted,             \* per job: members who had opted in at some time of it (history)
    changes

agentVars == <<cron, job, digestEnabled, member, optedIn, alerts, runLog,
               deadLetters, opted, changes>>

Working == {"group", "task", "members", "prefs", "notify", "log", "skip", "complete"}
Handling == {"writeFailure", "bury"}
JobStep == Working \union Handling \union {"unborn", "waiting", "done", "failed"}

NoJob == [kind |-> "none", step |-> "unborn", attempts |-> 0, stalls |-> 0, todo |-> {}]

AgentInit ==
    /\ cron = {}
    /\ job = [j \in Jobs |-> NoJob]
    /\ digestEnabled \in BOOLEAN
    /\ member = Users
    /\ optedIn \in SUBSET Users
    /\ alerts = [j \in Jobs |-> [u \in Users |-> 0]]
    /\ runLog = [j \in Jobs |-> {}]
    /\ deadLetters = {}
    /\ opted = [j \in Jobs |-> {}]
    /\ changes = 0

rest == <<cron, digestEnabled, member, optedIn, changes>>

Go(j, from, to) ==
    /\ job[j].step = from
    /\ job' = [job EXCEPT ![j].step = to]

-------------------------------------------------------------------------------
(***************************************************************************)
(* Members and settings.                                                   *)
(***************************************************************************)

Change ==
    /\ changes < MaxChanges
    /\ changes' = changes + 1
    /\ \/ /\ digestEnabled' = ~digestEnabled
          /\ UNCHANGED <<member, optedIn>>
       \/ \E u \in Users :
             \/ /\ optedIn' = IF u \in optedIn THEN optedIn \ {u} ELSE optedIn \union {u}
                /\ UNCHANGED <<member, digestEnabled>>
             \/ /\ member' = IF u \in member THEN member \ {u} ELSE member \union {u}
                /\ UNCHANGED <<optedIn, digestEnabled>>
    /\ opted' = [j \in Jobs |-> IF job[j].step \in Working \union {"waiting"}
                                THEN opted[j] \union optedIn' ELSE opted[j]]
    /\ UNCHANGED <<cron, job, alerts, runLog, deadLetters>>

-------------------------------------------------------------------------------
(***************************************************************************)
(* Jobs.                                                                   *)
(***************************************************************************)

\* scheduleCommunityAgentCrons, at every start of the worker.  A repeatable job
\* stays in Redis when the group turns its digest off.
ScheduleCrons ==
    /\ cron' = cron \union {"stale"} \union (IF digestEnabled THEN {"digest"} ELSE {})
    /\ UNCHANGED <<job, digestEnabled, member, optedIn, alerts, runLog, deadLetters,
                   opted, changes>>

Fire(j) ==
    /\ job[j].step = "unborn"
    /\ \E kind \in cron :
          job' = [job EXCEPT ![j].kind = kind, ![j].step = "waiting"]
    /\ opted' = [opted EXCEPT ![j] = optedIn]
    /\ UNCHANGED <<rest, alerts, runLog, deadLetters>>

\* processCommunityAgentJob.  The worker takes one job at a time.
Process(j) ==
    /\ \A i \in Jobs : job[i].step \notin Working
    /\ Go(j, "waiting", IF job[j].kind = "digest" THEN "group" ELSE "task")
    /\ UNCHANGED <<rest, alerts, runLog, deadLetters, opted>>

\* handleWeeklyDigest looks whether the group wants a digest.
ReadGroup(j) ==
    /\ Go(j, "group", IF digestEnabled THEN "task" ELSE "skip")
    /\ UNCHANGED <<rest, alerts, runLog, deadLetters, opted>>

\* The posts and the provider's answer: something, or nothing to tell.  Of a
\* digest the answer is never nothing.
RunTask(j) ==
    /\ \/ Go(j, "task", "members")
       \/ job[j].kind = "stale" /\ Go(j, "task", "skip")
    /\ UNCHANGED <<rest, alerts, runLog, deadLetters, opted>>

ReadMembers(j) ==
    /\ job[j].step = "members"
    /\ job' = [job EXCEPT ![j].todo = member,
                          ![j].step = IF job[j].kind = "digest" THEN "prefs" ELSE "notify"]
    /\ UNCHANGED <<rest, alerts, runLog, deadLetters, opted>>

\* Mutant: all members.
OptedAll(users) == users

Opted(users) == users \intersect optedIn

ReadPreferences(j) ==
    /\ job[j].step = "prefs"
    /\ job' = [job EXCEPT ![j].todo = Opted(@), ![j].step = "notify"]
    /\ UNCHANGED <<rest, alerts, runLog, deadLetters, opted>>

\* notify for the next member; what it throws is caught.
Notify(j) ==
    /\ job[j].step = "notify"
    /\ \E u \in job[j].todo :
          /\ job' = [job EXCEPT ![j].todo = @ \ {u}]
          /\ alerts' = [alerts EXCEPT ![j][u] = @ + 1] \/ UNCHANGED alerts
    /\ UNCHANGED <<rest, runLog, deadLetters, opted>>

EndNotify(j) ==
    /\ job[j].todo = {}
    /\ Go(j, "notify", "log")
    /\ UNCHANGED <<rest, alerts, runLog, deadLetters, opted>>

\* writeRunLog, the handler's last statement.
WriteRunLog(j) ==
    /\ \/ /\ Go(j, "log", "complete")
          /\ runLog' = [runLog EXCEPT ![j] = @ \union {"success"}]
       \/ /\ Go(j, "skip", "complete")
          /\ runLog' = [runLog EXCEPT ![j] = @ \union {"skipped"}]
    /\ UNCHANGED <<rest, alerts, deadLetters, opted>>

\* BullMQ takes the job off the queue.
Complete(j) ==
    /\ Go(j, "complete", "done")
    /\ UNCHANGED <<rest, alerts, runLog, deadLetters, opted>>

-------------------------------------------------------------------------------
(***************************************************************************)
(* Failures.                                                               *)
(***************************************************************************)

\* Mutant: one attempt too many.
ExhaustedLate(j) == job'[j].attempts > MaxAttempts

\* The test of the failed handler, which is BullMQ's own.
Exhausted(j) == job'[j].attempts >= MaxAttempts

\* A query, the provider or the run log throws.
Throw(j) ==
    /\ job[j].step \in {"group", "task", "members", "prefs", "log", "skip"}
    /\ \E to \in {"waiting", "writeFailure"} :
          /\ job' = [job EXCEPT ![j].step = to, ![j].attempts = @ + 1, ![j].todo = {}]
          /\ Exhausted(j) <=> to = "writeFailure"
    /\ UNCHANGED <<rest, alerts, runLog, deadLetters, opted>>

\* handleFailedCommunityAgentJob: a failure row, then the dead letter; what
\* either throws is caught.
WriteFailure(j) ==
    /\ Go(j, "writeFailure", "bury")
    /\ runLog' = [runLog EXCEPT ![j] = @ \union {"failure"}] \/ UNCHANGED runLog
    /\ UNCHANGED <<rest, alerts, deadLetters, opted>>

Bury(j) ==
    /\ Go(j, "bury", "failed")
    /\ deadLetters' = deadLetters \union {j} \/ UNCHANGED deadLetters
    /\ UNCHANGED <<rest, alerts, runLog, opted>>

\* The worker dies.  Jobs it was at are delivered again, which counts as no
\* attempt, or failed when they stalled too often; nobody waits for the failed
\* handler, which is not run again and takes no notice of a stalled job.
AfterCrash(j) ==
    IF job[j].step \in Handling THEN [job[j] EXCEPT !.step = "failed"]
    ELSE IF job[j].step \notin Working THEN job[j]
    ELSE [job[j] EXCEPT !.todo = {},
                        !.stalls = IF @ < MaxStalls THEN @ + 1 ELSE @,
                        !.step = IF job[j].stalls < MaxStalls THEN "waiting" ELSE "failed"]

CrashAgent ==
    /\ \E j \in Jobs : job[j].step \in Working \union Handling
    /\ job' = [j \in Jobs |-> AfterCrash(j)]
    /\ UNCHANGED <<rest, alerts, runLog, deadLetters, opted>>

AgentNext ==
    \/ Change
    \/ ScheduleCrons
    \/ CrashAgent
    \/ \E j \in Jobs :
          \/ Fire(j)
          \/ Process(j)
          \/ ReadGroup(j)
          \/ RunTask(j)
          \/ ReadMembers(j)
          \/ ReadPreferences(j)
          \/ Notify(j)
          \/ EndNotify(j)
          \/ WriteRunLog(j)
          \/ Complete(j)
          \/ Throw(j)
          \/ WriteFailure(j)
          \/ Bury(j)

AgentSpec == AgentInit /\ [][AgentNext]_agentVars

-------------------------------------------------------------------------------
(***************************************************************************)
(* Properties.                                                             *)
(***************************************************************************)

\* Types.
AgentTypeOK ==
    /\ cron \subseteq {"stale", "digest"}
    /\ job \in [Jobs -> [kind : {"none", "stale", "digest"}, step : JobStep, attempts : 0..MaxAttempts,
                         stalls : 0..MaxStalls, todo : SUBSET Users]]
    /\ digestEnabled \in BOOLEAN
    /\ member \subseteq Users
    /\ optedIn \subseteq Users
    /\ alerts \in [Jobs -> [Users -> Nat]]
    /\ runLog \in [Jobs -> SUBSET {"success", "skipped", "failure"}]
    /\ deadLetters \subseteq Jobs
    /\ opted \in [Jobs -> SUBSET Users]

\* Nothing records whom a job has notified: each run of it starts the loop anew.
\* Retries and redeliveries bound how often, whichever of them come after it.
AlertsPerRun ==
    \A j \in Jobs : \A u \in Users :
        alerts[j][u] <= MaxAttempts + MaxStalls

\* Only members who wanted it while the job lasted are told of a digest,
\* although members, preferences and the group are read at three times.
DigestOnlyToOptedIn ==
    \A j \in Jobs : \A u \in Users :
        job[j].kind = "digest" /\ alerts[j][u] > 0 => u \in opted[j]

\* A job is written off only when its attempts are used up, and never completes
\* afterwards, although nobody waits for the failed handler.
WrittenOffIsOver ==
    \A j \in Jobs :
        j \in deadLetters \/ "failure" \in runLog[j] =>
            /\ job[j].attempts = MaxAttempts
            /\ job[j].step \in {"bury", "failed"}

\* Retries end: they tell nobody of the same thing without end, and a job that
\* is given up stays given up.
RetriesEnd == AlertsPerRun /\ WrittenOffIsOver
===============================================================================
