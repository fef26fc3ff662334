------------------------- MODULE CommunityAgentProofs -------------------------
(***************************************************************************)
(* Proofs about CommunityAgent, for any jobs and users and any numbers of  *)
(* attempts and stalls.                                                    *)
(*                                                                         *)
(* That a user hears of a job a bounded number of times needs to know      *)
(* whether the run that is under way has come to them yet: every run that  *)
(* ended was paid for by an attempt or a stall, and the present one is not *)
(* paid for before it fails.  AlertInv says so.  OptInv follows the        *)
(* members' preferences: what is read of them in the middle of the job     *)
(* was true at some time of it.                                            *)
(***************************************************************************)
EXTENDS CommunityAgent, TLAPS

JobType == [kind : {"none", "stale", "digest"}, step : JobStep, attempts : 0..MaxAttempts,
            stalls : 0..MaxStalls, todo : SUBSET Users]

\* The run under way has come to u, and may have told them.
Reached(j, u) ==
    \/ job[j].step = "notify" /\ u \notin job[j].todo
    \/ job[j].step \in {"log", "complete", "done"}

Paid(j) == job[j].attempts + job[j].stalls

AlertInv(j) ==
    \A u \in Users :
        /\ job[j].step = "failed" => alerts[j][u] <= MaxAttempts + MaxStalls
        /\ job[j].step # "failed" => alerts[j][u] <= Paid(j) + 1
        /\ job[j].step # "failed" /\ ~Reached(j, u) => alerts[j][u] <= Paid(j)
        /\ job[j].step = "unborn" => alerts[j][u] = 0

\* Attempts are left until the failed handler takes over.
AttemptInv(j) ==
    /\ job[j].step \notin Handling \union {"failed"} => job[j].attempts < MaxAttempts
    /\ job[j].step \in Handling => job[j].attempts = MaxAttempts

OptInv(j) ==
    /\ job[j].step \in Working \union {"waiting"} => optedIn \subseteq opted[j]
    /\ job[j].step = "notify" /\ job[j].kind = "digest" => job[j].todo \subseteq opted[j]
    /\ job[j].kind = "digest" => \A u \in Users : alerts[j][u] > 0 => u \in opted[j]

\* WrittenOffIsOver, one job at a time.
OverInv(j) ==
    j \in deadLetters \/ "failure" \in runLog[j] =>
        /\ job[j].attempts = MaxAttempts
        /\ job[j].step \in {"bury", "failed"}

JobInv(j) == AlertInv(j) /\ AttemptInv(j) /\ OptInv(j) /\ OverInv(j)

AgentInv == AgentTypeOK /\ \A j \in Jobs : JobInv(j)

-------------------------------------------------------------------------------
(***************************************************************************)
(* The properties follow from the invariant, and it holds initially.       *)
(***************************************************************************)

LEMMA BoundedByPay == AgentInv => AlertsPerRun
  <1> SUFFICES ASSUME AgentInv, NEW j \in Jobs, NEW u \in Users
               PROVE  alerts[j][u] <= MaxAttempts + MaxStalls
    BY DEF AlertsPerRun
  <1>1. AlertInv(j) /\ AttemptInv(j)
    BY DEF AgentInv, JobInv
  <1>2. job \in [Jobs -> JobType] /\ alerts[j][u] \in Nat
    BY DEF AgentInv, AgentTypeOK, JobType
  <1>3. job[j].attempts \in 0..MaxAttempts /\ job[j].stalls \in 0..MaxStalls
    BY <1>2 DEF JobType
  <1>4. CASE job[j].step = "failed"
    BY <1>1, <1>4 DEF AlertInv
  <1>5. CASE job[j].step \in Handling
    <2>1. ~Reached(j, u) /\ job[j].step # "failed"
      BY <1>5 DEF Handling, Reached
    <2>2. QED  BY <1>1, <1>2, <1>3, <2>1, AgentAssumption DEF AlertInv, Paid
  <1>6. CASE job[j].step \notin Handling \union {"failed"}
    BY <1>1, <1>2, <1>3, <1>6, AgentAssumption DEF AlertInv, AttemptInv, Paid
  <1>7. QED  BY <1>4, <1>5, <1>6

LEMMA InitAgentInv == AgentInit => AgentInv
  <1> SUFFICES ASSUME AgentInit PROVE AgentInv
    OBVIOUS
  <1>1. /\ NoJob \in JobType /\ NoJob.step = "unborn" /\ NoJob.attempts = 0
        /\ NoJob.stalls = 0 /\ NoJob.kind = "none"
    BY AgentAssumption DEF NoJob, JobType, JobStep
  <1>2. AgentTypeOK
    <2>1. job \in [Jobs -> JobType]
      BY <1>1 DEF AgentInit
    <2>2. QED  BY <2>1 DEF AgentTypeOK, AgentInit, JobType
  <1>3. ASSUME NEW j \in Jobs PROVE JobInv(j)
    <2>1. job[j] = NoJob /\ j \notin deadLetters /\ runLog[j] = {}
      BY DEF AgentInit
    <2>2. \A u \in Users : alerts[j][u] = 0
      BY DEF AgentInit
    <2>3. QED
      BY <1>1, <2>1, <2>2, AgentAssumption
      DEF JobInv, AlertInv, AttemptInv, OptInv, OverInv, Paid, Reached, Working, Handling
  <1>4. QED  BY <1>2, <1>3 DEF AgentInv

-------------------------------------------------------------------------------
(***************************************************************************)
(* The steps of one job.                                                   *)
(***************************************************************************)

JobAction(j) ==
    \/ Fire(j)
    \/ Process(j)
    \/ ReadGroup(j)
    \/ RunTask(j)
    \/ ReadMembers(j)
    \/ ReadPreferences(j)
    \/ Notify(j)
    \/ EndNotify(j)
    \/ WriteRunLog(j)
    \/ Complete(j)
    \/ Throw(j)
    \/ WriteFailure(j)
    \/ Bury(j)

\* A job's fields, by name.
LEMMA JobFields ==
    ASSUME AgentTypeOK, NEW j \in Jobs
    PROVE  /\ job[j] \in JobType
           /\ job[j].kind \in {"none", "stale", "digest"}
           /\ job[j].step \in JobStep
           /\ job[j].attempts \in 0..MaxAttempts
           /\ job[j].stalls \in 0..MaxStalls
           /\ job[j].todo \subseteq Users
  <1>1. job[j] \in JobType
    BY DEF AgentTypeOK, JobType
  <1>2. QED  BY <1>1 DEF JobType

\* A job is replaced by f, and the other jobs stay.
LEMMA OneJob ==
    ASSUME AgentTypeOK, NEW j \in Jobs, NEW f \in JobType, job' = [job EXCEPT ![j] = f]
    PROVE  /\ job' \in [Jobs -> JobType]
           /\ job'[j] = f
           /\ \A i \in Jobs \ {j} : job'[i] = job[i]
  BY DEF AgentTypeOK, JobType

\* A job goes on to its next step.
LEMMA GoEffect ==
    ASSUME AgentTypeOK, NEW j \in Jobs, NEW from, NEW to \in JobStep, Go(j, from, to)
    PROVE  /\ job[j].step = from
           /\ job' \in [Jobs -> JobType]
           /\ job'[j] = [job[j] EXCEPT !.step = to]
           /\ job'[j].step = to
           /\ job'[j].kind = job[j].kind
           /\ job'[j].attempts = job[j].attempts
           /\ job'[j].stalls = job[j].stalls
           /\ job'[j].todo = job[j].todo
           /\ \A i \in Jobs \ {j} : job'[i] = job[i]
  <1> DEFINE f == [job[j] EXCEPT !.step = to]
  <1>1. job[j] \in JobType
    BY JobFields
  <1>2. /\ f \in JobType /\ f.step = to /\ f.kind = job[j].kind
        /\ f.attempts = job[j].attempts /\ f.stalls = job[j].stalls
        /\ f.todo = job[j].todo
    BY <1>1 DEF JobType
  <1>3. job[j].step = from /\ job' = [job EXCEPT ![j] = f]
    BY DEF Go
  <1> HIDE DEF f
  <1>4. QED  BY <1>2, <1>3, OneJob DEF f

\* What a step does to the tables, and to the types.
OthersStay(j) ==
    /\ UNCHANGED <<cron, digestEnabled, member, optedIn, changes>>
    /\ \A i \in Jobs \ {j} :
          /\ job'[i] = job[i]
          /\ alerts'[i] = alerts[i]
          /\ runLog'[i] = runLog[i]
          /\ opted'[i] = opted[i]
          /\ i \in deadLetters' => i \in deadLetters

LEMMA OthersKeepJobInv ==
    ASSUME AgentTypeOK, NEW j \in Jobs, OthersStay(j), NEW i \in Jobs \ {j}, JobInv(i)
    PROVE  JobInv(i)'
  <1>1. /\ job'[i] = job[i] /\ alerts'[i] = alerts[i] /\ runLog'[i] = runLog[i]
        /\ opted'[i] = opted[i] /\ optedIn' = optedIn
        /\ i \in deadLetters' => i \in deadLetters
    BY DEF OthersStay
  <1>2. QED
    BY <1>1 DEF JobInv, AlertInv, AttemptInv, OptInv, OverInv, Paid, Reached

\* Steps that write nothing but the job.
Quiet == UNCHANGED <<cron, digestEnabled, member, optedIn, changes, alerts, runLog,
                     deadLetters, opted>>

LEMMA QuietStays ==
    ASSUME AgentTypeOK, NEW j \in Jobs, Quiet, job' \in [Jobs -> JobType],
           \A i \in Jobs \ {j} : job'[i] = job[i]
    PROVE  AgentTypeOK' /\ OthersStay(j)
  BY DEF AgentTypeOK, JobType, Quiet, OthersStay

\* The step of a job goes from before the members are told to before it again.
LEMMA EarlyStep ==
    ASSUME AgentInv, NEW j \in Jobs, Quiet,
           job[j].step \in {"waiting", "group", "task", "members", "prefs"},
           NEW to \in {"group", "task", "members", "skip", "prefs", "notify"},
           NEW f \in JobType, job' = [job EXCEPT ![j] = f], f.step = to,
           f.kind = job[j].kind, f.attempts = job[j].attempts, f.stalls = job[j].stalls,
           to = "notify" /\ f.kind = "digest" => f.todo \subseteq optedIn
    PROVE  AgentTypeOK' /\ OthersStay(j) /\ JobInv(j)'
  <1>1. AgentTypeOK /\ JobInv(j)
    BY DEF AgentInv
  <1>2. /\ job' \in [Jobs -> JobType] /\ job'[j] = f
        /\ \A i \in Jobs \ {j} : job'[i] = job[i]
    BY <1>1, OneJob
  <1>3. AgentTypeOK' /\ OthersStay(j)
    BY <1>1, <1>2, QuietStays
  <1>4. AlertInv(j)'
    <2>1. \A u \in Users : ~Reached(j, u)
      BY DEF Reached
    <2>2. \A u \in Users : alerts[j][u] <= job[j].attempts + job[j].stalls
      BY <1>1, <2>1 DEF JobInv, AlertInv, Paid
    <2>3. f.attempts \in Nat /\ f.stalls \in Nat /\ \A u \in Users : alerts[j][u] \in Nat
      BY <1>1, AgentAssumption DEF JobType, AgentTypeOK
    <2>4. \A u \in Users : alerts[j][u] <= f.attempts + f.stalls + 1
      BY <2>2, <2>3
    <2>5. QED  BY <1>2, <2>2, <2>4 DEF AlertInv, Paid, Quiet
  <1>5. (AttemptInv(j) /\ OptInv(j) /\ OverInv(j))'
    BY <1>1, <1>2
    DEF JobInv, AttemptInv, OptInv, OverInv, Quiet, Working, Handling
  <1>6. QED  BY <1>3, <1>4, <1>5 DEF JobInv

LEMMA EarlySteps ==
    ASSUME AgentInv, NEW j \in Jobs,
           Process(j) \/ ReadGroup(j) \/ RunTask(j) \/ ReadMembers(j) \/ ReadPreferences(j)
    PROVE  AgentTypeOK' /\ OthersStay(j) /\ JobInv(j)'
  <1>1. AgentTypeOK /\ JobInv(j)
    BY DEF AgentInv
  <1>2. Quiet
    BY DEF Process, ReadGroup, RunTask, ReadMembers, ReadPreferences, Quiet, rest
  <1>3. job[j] \in JobType
    BY <1>1, JobFields
  <1>4. CASE Process(j) \/ ReadGroup(j) \/ RunTask(j)
    <2>1. PICK to \in {"group", "task", "members", "skip"} :
              Go(j, job[j].step, to) /\ job[j].step \in {"waiting", "group", "task"}
      BY <1>4 DEF Process, ReadGroup, RunTask, Go
    <2> DEFINE f == [job[j] EXCEPT !.step = to]
    <2>2. /\ f \in JobType /\ f.step = to /\ f.kind = job[j].kind
          /\ f.attempts = job[j].attempts /\ f.stalls = job[j].stalls
      BY <1>3, <2>1 DEF JobType, JobStep, Working
    <2>3. job' = [job EXCEPT ![j] = f]
      BY <2>1 DEF Go
    <2> HIDE DEF f
    <2>4. QED  BY <1>2, <2>1, <2>2, <2>3, EarlyStep
  <1>5. CASE ReadMembers(j)
    <2> DEFINE to == IF job[j].kind = "digest" THEN "prefs" ELSE "notify"
               f == [[job[j] EXCEPT !.todo = member] EXCEPT !.step = to]
    <2>1. member \subseteq Users
      BY <1>1 DEF AgentTypeOK
    <2>2. /\ f \in JobType /\ f.step = to /\ f.kind = job[j].kind
          /\ f.attempts = job[j].attempts /\ f.stalls = job[j].stalls
      BY <1>3, <2>1 DEF JobType, JobStep, Working
    <2>3. job' = [job EXCEPT ![j] = f] /\ job[j].step = "members"
      BY <1>1, <1>5 DEF ReadMembers, AgentTypeOK
    <2>4. to \in {"prefs", "notify"} /\ (to = "notify" => job[j].kind # "digest")
      OBVIOUS
    <2> HIDE DEF f, to
    <2>5. QED  BY <1>2, <2>2, <2>3, <2>4, EarlyStep
  <1>6. CASE ReadPreferences(j)
    <2> DEFINE f == [[job[j] EXCEPT !.todo = job[j].todo \intersect optedIn]
                        EXCEPT !.step = "notify"]
    <2>1. /\ f \in JobType /\ f.step = "notify" /\ f.kind = job[j].kind
          /\ f.attempts = job[j].attempts /\ f.stalls = job[j].stalls
          /\ f.todo \subseteq optedIn
      BY <1>3 DEF JobType, JobStep, Working
    <2>2. job' = [job EXCEPT ![j] = f] /\ job[j].step = "prefs"
      BY <1>1, <1>6 DEF ReadPreferences, Opted, AgentTypeOK
    <2> HIDE DEF f
    <2>3. QED  BY <1>2, <2>1, <2>2, EarlyStep
  <1>7. QED  BY <1>4, <1>5, <1>6

LEMMA FireStep ==
    ASSUME AgentInv, NEW j \in Jobs, Fire(j)
    PROVE  AgentTypeOK' /\ OthersStay(j) /\ JobInv(j)'
  <1>1. AgentTypeOK /\ JobInv(j)
    BY DEF AgentInv
  <1>2. PICK kind \in cron :
            job' = [job EXCEPT ![j] = [[job[j] EXCEPT !.kind = kind] EXCEPT !.step = "waiting"]]
    BY <1>1 DEF Fire, AgentTypeOK
  <1> DEFINE f == [[job[j] EXCEPT !.kind = kind] EXCEPT !.step = "waiting"]
  <1>3. /\ f \in JobType /\ f.step = "waiting"
        /\ f.attempts = job[j].attempts /\ f.stalls = job[j].stalls
    <2>1. kind \in {"stale", "digest"}
      BY <1>1 DEF AgentTypeOK
    <2>2. QED  BY <1>1, <2>1, JobFields DEF JobType, JobStep
  <1>4. /\ job' = [job EXCEPT ![j] = f] /\ job[j].step = "unborn"
        /\ opted' = [opted EXCEPT ![j] = optedIn]
        /\ UNCHANGED <<cron, digestEnabled, member, optedIn, changes, alerts, runLog, deadLetters>>
    BY <1>2 DEF Fire, rest
  <1> HIDE DEF f
  <1>5. /\ job' \in [Jobs -> JobType] /\ job'[j] = f
        /\ \A i \in Jobs \ {j} : job'[i] = job[i]
    BY <1>1, <1>3, <1>4, OneJob
  <1>6. /\ opted'[j] = optedIn /\ opted' \in [Jobs -> SUBSET Users]
        /\ \A i \in Jobs \ {j} : opted'[i] = opted[i]
    BY <1>1, <1>4 DEF AgentTypeOK
  <1>7. AgentTypeOK' /\ OthersStay(j)
    BY <1>1, <1>4, <1>5, <1>6 DEF AgentTypeOK, OthersStay, JobType
  <1>8. \A u \in Users : alerts[j][u] = 0
    BY <1>1, <1>4 DEF JobInv, AlertInv
  <1>9. AlertInv(j)'
    <2>1. f.attempts \in Nat /\ f.stalls \in Nat
      BY <1>3, AgentAssumption DEF JobType
    <2>2. QED  BY <1>3, <1>4, <1>5, <1>8, <2>1 DEF AlertInv, Paid
  <1>10. (AttemptInv(j) /\ OptInv(j) /\ OverInv(j))'
    BY <1>1, <1>3, <1>4, <1>5, <1>6, <1>8
    DEF JobInv, AttemptInv, OptInv, OverInv, Working, Handling
  <1>11. QED  BY <1>7, <1>9, <1>10 DEF JobInv

LEMMA NotifyStep ==
    ASSUME AgentInv, NEW j \in Jobs, Notify(j)
    PROVE  AgentTypeOK' /\ OthersStay(j) /\ JobInv(j)'
  <1>1. AgentTypeOK /\ JobInv(j)
    BY DEF AgentInv
  <1>2. PICK u \in job[j].todo :
            /\ job' = [job EXCEPT ![j] = [job[j] EXCEPT !.todo = job[j].todo \ {u}]]
            /\ alerts' = [alerts EXCEPT ![j][u] = @ + 1] \/ UNCHANGED alerts
    BY <1>1 DEF Notify, AgentTypeOK
  <1> DEFINE f == [job[j] EXCEPT !.todo = job[j].todo \ {u}]
  <1>3. job[j] \in JobType /\ job[j].step = "notify" /\ u \in Users
    BY <1>1, JobFields DEF Notify
  <1>4. /\ f \in JobType /\ f.step = "notify" /\ f.kind = job[j].kind
        /\ f.attempts = job[j].attempts /\ f.stalls = job[j].stalls
        /\ f.todo = job[j].todo \ {u}
    BY <1>3 DEF JobType
  <1>5. UNCHANGED <<cron, digestEnabled, member, optedIn, changes, runLog, deadLetters, opted>>
    BY DEF Notify, rest
  <1>6. job' = [job EXCEPT ![j] = f]
    BY <1>2
  <1> HIDE DEF f
  <1>7. /\ job' \in [Jobs -> JobType] /\ job'[j] = f
        /\ \A i \in Jobs \ {j} : job'[i] = job[i]
    BY <1>1, <1>4, <1>6, OneJob
  <1>8. /\ alerts' \in [Jobs -> [Users -> Nat]]
        /\ \A i \in Jobs \ {j} : alerts'[i] = alerts[i]
        /\ \A v \in Users \ {u} : alerts'[j][v] = alerts[j][v]
        /\ alerts'[j][u] \in {alerts[j][u], alerts[j][u] + 1}
    <2>1. alerts \in [Jobs -> [Users -> Nat]]
      BY <1>1 DEF AgentTypeOK
    <2>2. CASE alerts' = [alerts EXCEPT ![j][u] = @ + 1]
      <3> DEFINE row == [alerts[j] EXCEPT ![u] = alerts[j][u] + 1]
      <3>1. /\ row \in [Users -> Nat] /\ row[u] = alerts[j][u] + 1
            /\ \A v \in Users \ {u} : row[v] = alerts[j][v]
        BY <1>3, <2>1
      <3>2. alerts' = [alerts EXCEPT ![j] = row]
        BY <2>1, <2>2
      <3> HIDE DEF row
      <3>3. QED  BY <2>1, <3>1, <3>2
    <2>3. CASE UNCHANGED alerts
      BY <2>1, <2>3
    <2>4. QED  BY <1>2, <2>2, <2>3
  <1>9. AgentTypeOK' /\ OthersStay(j)
    BY <1>1, <1>5, <1>7, <1>8 DEF AgentTypeOK, OthersStay, JobType
  <1>10. AlertInv(j)'
    <2>1. ASSUME NEW v \in Users
          PROVE  /\ alerts'[j][v] <= f.attempts + f.stalls + 1
                 /\ v \in f.todo => alerts'[j][v] <= f.attempts + f.stalls
      <3>1. /\ alerts[j][v] <= Paid(j) + 1
            /\ v \in job[j].todo => alerts[j][v] <= Paid(j)
        BY <1>1, <1>3 DEF JobInv, AlertInv, Reached
      <3>2. Paid(j) = f.attempts + f.stalls /\ Paid(j) \in Nat
        BY <1>1, <1>4, JobFields, AgentAssumption DEF Paid
      <3>3. alerts[j][v] \in Nat
        BY <1>1 DEF AgentTypeOK
      <3>4. CASE v = u
        BY <1>2, <1>4, <1>8, <3>1, <3>2, <3>3, <3>4
      <3>5. CASE v # u
        BY <1>4, <1>8, <3>1, <3>2, <3>3, <3>5
      <3>6. QED  BY <3>4, <3>5
    <2>2. QED  BY <1>4, <1>7, <2>1 DEF AlertInv, Paid, Reached
  <1>11. OptInv(j)'
    <2>1. optedIn' \subseteq opted'[j]
      BY <1>1, <1>3, <1>5 DEF JobInv, OptInv, Working
    <2>2. f.kind = "digest" => f.todo \subseteq opted'[j] /\ u \in opted'[j]
      BY <1>1, <1>2, <1>3, <1>4, <1>5 DEF JobInv, OptInv
    <2>3. ASSUME f.kind = "digest", NEW v \in Users, alerts'[j][v] > 0
          PROVE  v \in opted'[j]
      BY <1>1, <1>4, <1>5, <1>8, <2>2, <2>3 DEF JobInv, OptInv
    <2>4. QED  BY <1>4, <1>7, <2>1, <2>2, <2>3 DEF OptInv
  <1>12. (AttemptInv(j) /\ OverInv(j))'
    BY <1>1, <1>3, <1>4, <1>5, <1>7
    DEF JobInv, AttemptInv, OverInv, Working, Handling
  <1>13. QED  BY <1>9, <1>10, <1>11, <1>12 DEF JobInv

\* The loop over the members is through, or there is nothing to tell; what
\* these steps write into the run log is no failure.
LEMMA LateSteps ==
    ASSUME AgentInv, NEW j \in Jobs, EndNotify(j) \/ WriteRunLog(j) \/ Complete(j)
    PROVE  AgentTypeOK' /\ OthersStay(j) /\ JobInv(j)'
  <1>1. AgentTypeOK /\ JobInv(j)
    BY DEF AgentInv
  <1>2. PICK to \in {"log", "complete", "done"} :
            Go(j, job[j].step, to) /\ job[j].step \in {"notify", "log", "skip", "complete"}
    BY DEF EndNotify, WriteRunLog, Complete, Go
  <1>3. /\ job' \in [Jobs -> JobType] /\ job'[j].step = to
        /\ job'[j].kind = job[j].kind /\ job'[j].attempts = job[j].attempts
        /\ job'[j].stalls = job[j].stalls
        /\ \A i \in Jobs \ {j} : job'[i] = job[i]
    <2>1. to \in JobStep
      BY <1>2 DEF JobStep, Working
    <2>2. AgentTypeOK /\ Go(j, job[j].step, to)
      BY <1>1, <1>2
    <2>3. QED  BY <2>1, <2>2, GoEffect
  <1>4. UNCHANGED <<cron, digestEnabled, member, optedIn, changes, alerts, deadLetters, opted>>
    <2>1. CASE EndNotify(j)
      BY <2>1 DEF EndNotify, rest
    <2>2. CASE WriteRunLog(j)
      BY <2>2 DEF WriteRunLog, rest
    <2>3. CASE Complete(j)
      BY <2>3 DEF Complete, rest
    <2>4. QED  BY <2>1, <2>2, <2>3
  <1>5. /\ runLog' \in [Jobs -> SUBSET {"success", "skipped", "failure"}]
        /\ \A i \in Jobs \ {j} : runLog'[i] = runLog[i]
        /\ "failure" \in runLog'[j] => "failure" \in runLog[j]
    <2>1. runLog \in [Jobs -> SUBSET {"success", "skipped", "failure"}]
      BY <1>1 DEF AgentTypeOK
    <2>2. \/ UNCHANGED runLog
          \/ \E w \in {"success", "skipped"} : runLog' = [runLog EXCEPT ![j] = @ \union {w}]
      BY DEF EndNotify, WriteRunLog, Complete
    <2>3. QED  BY <2>1, <2>2
  <1>6. AgentTypeOK' /\ OthersStay(j)
    BY <1>1, <1>3, <1>4, <1>5 DEF AgentTypeOK, OthersStay, JobType
  <1>7. AlertInv(j)'
    BY <1>1, <1>2, <1>3, <1>4 DEF JobInv, AlertInv, Paid, Reached
  <1>8. (AttemptInv(j) /\ OptInv(j) /\ OverInv(j))'
    BY <1>1, <1>2, <1>3, <1>4, <1>5
    DEF JobInv, AttemptInv, OptInv, OverInv, Working, Handling
  <1>9. QED  BY <1>6, <1>7, <1>8 DEF JobInv

LEMMA ThrowStep ==
    ASSUME AgentInv, NEW j \in Jobs, Throw(j)
    PROVE  AgentTypeOK' /\ OthersStay(j) /\ JobInv(j)'
  <1>1. AgentTypeOK /\ JobInv(j)
    BY DEF AgentInv
  <1>2. PICK to \in {"waiting", "writeFailure"} :
            /\ job' = [job EXCEPT ![j] =
                  [[[job[j] EXCEPT !.step = to] EXCEPT !.attempts = job[j].attempts + 1]
                      EXCEPT !.todo = {}]]
            /\ Exhausted(j) <=> to = "writeFailure"
    BY <1>1 DEF Throw, AgentTypeOK
  <1> DEFINE f == [[[job[j] EXCEPT !.step = to] EXCEPT !.attempts = job[j].attempts + 1]
                      EXCEPT !.todo = {}]
  <1>3. job[j].step \in {"group", "task", "members", "prefs", "log", "skip"} /\ Quiet
    BY DEF Throw, Quiet, rest
  <1>4. /\ job[j].attempts \in Nat /\ job[j].attempts < MaxAttempts
        /\ job[j].stalls \in Nat
    BY <1>1, <1>3, JobFields, AgentAssumption DEF JobInv, AttemptInv, Handling
  <1>5. /\ f \in JobType /\ f.step = to /\ f.kind = job[j].kind
        /\ f.attempts = job[j].attempts + 1 /\ f.stalls = job[j].stalls
    <2>1. job[j].attempts + 1 \in 0..MaxAttempts
      BY <1>4, AgentAssumption
    <2>2. job[j] \in JobType /\ to \in JobStep
      BY <1>1, JobFields DEF JobStep, Handling
    <2>3. QED  BY <2>1, <2>2 DEF JobType
  <1>6. job' = [job EXCEPT ![j] = f]
    BY <1>2
  <1> HIDE DEF f
  <1>7. /\ job' \in [Jobs -> JobType] /\ job'[j] = f
        /\ \A i \in Jobs \ {j} : job'[i] = job[i]
    BY <1>1, <1>5, <1>6, OneJob
  <1>8. AgentTypeOK' /\ OthersStay(j)
    BY <1>1, <1>3, <1>7, QuietStays
  <1>9. /\ to = "writeFailure" => f.attempts = MaxAttempts
        /\ to = "waiting" => f.attempts < MaxAttempts
    BY <1>2, <1>4, <1>5, <1>7, AgentAssumption DEF Exhausted
  <1>10. AlertInv(j)'
    <2>1. \A u \in Users : alerts[j][u] <= Paid(j) + 1 /\ alerts[j][u] \in Nat
      BY <1>1, <1>3 DEF JobInv, AlertInv, AgentTypeOK
    <2>2. \A u \in Users : alerts[j][u] <= f.attempts + f.stalls
      BY <1>4, <1>5, <2>1 DEF Paid
    <2>3. \A u \in Users : alerts[j][u] <= f.attempts + f.stalls + 1
      BY <1>4, <1>5, <2>1 DEF Paid
    <2>4. QED  BY <1>3, <1>5, <1>7, <2>2, <2>3 DEF AlertInv, Paid, Quiet
  <1>11. (AttemptInv(j) /\ OptInv(j) /\ OverInv(j))'
    BY <1>1, <1>3, <1>5, <1>7, <1>9
    DEF JobInv, AttemptInv, OptInv, OverInv, Quiet, Working, Handling
  <1>12. QED  BY <1>8, <1>10, <1>11 DEF JobInv

LEMMA HandlerSteps ==
    ASSUME AgentInv, NEW j \in Jobs, WriteFailure(j) \/ Bury(j)
    PROVE  AgentTypeOK' /\ OthersStay(j) /\ JobInv(j)'
  <1>1. AgentTypeOK /\ JobInv(j)
    BY DEF AgentInv
  <1>2. PICK to \in {"bury", "failed"} :
            Go(j, job[j].step, to) /\ job[j].step \in Handling
    BY DEF WriteFailure, Bury, Go, Handling
  <1>3. /\ job' \in [Jobs -> JobType] /\ job'[j].step = to
        /\ job'[j].kind = job[j].kind /\ job'[j].attempts = job[j].attempts
        /\ job'[j].stalls = job[j].stalls
        /\ \A i \in Jobs \ {j} : job'[i] = job[i]
    <2>1. to \in JobStep
      BY <1>2 DEF JobStep, Handling
    <2>2. AgentTypeOK /\ Go(j, job[j].step, to)
      BY <1>1, <1>2
    <2>3. QED  BY <2>1, <2>2, GoEffect
  <1>4. UNCHANGED <<cron, digestEnabled, member, optedIn, changes, alerts, opted>>
    BY DEF WriteFailure, Bury, rest
  <1>5. /\ runLog' \in [Jobs -> SUBSET {"success", "skipped", "failure"}]
        /\ deadLetters' \subseteq Jobs
        /\ \A i \in Jobs \ {j} :
              runLog'[i] = runLog[i] /\ (i \in deadLetters' => i \in deadLetters)
    <2>1. /\ runLog \in [Jobs -> SUBSET {"success", "skipped", "failure"}]
          /\ deadLetters \subseteq Jobs
      BY <1>1 DEF AgentTypeOK
    <2>2. /\ \/ runLog' = [runLog EXCEPT ![j] = @ \union {"failure"}]
             \/ UNCHANGED runLog
          /\ \/ deadLetters' = deadLetters \union {j}
             \/ UNCHANGED deadLetters
      BY DEF WriteFailure, Bury
    <2>3. QED  BY <2>1, <2>2
  <1>6. AgentTypeOK' /\ OthersStay(j)
    BY <1>1, <1>3, <1>4, <1>5 DEF AgentTypeOK, OthersStay, JobType
  <1>7. job[j].attempts = MaxAttempts /\ job[j].stalls \in 0..MaxStalls
    BY <1>1, <1>2, JobFields DEF JobInv, AttemptInv
  <1>8. AlertInv(j)'
    <2>1. \A u \in Users : ~Reached(j, u)
      BY <1>2 DEF Reached, Handling
    <2>2. \A u \in Users : alerts[j][u] <= MaxAttempts + job[j].stalls /\ alerts[j][u] \in Nat
      BY <1>1, <1>2, <1>7, <2>1 DEF JobInv, AlertInv, Paid, Handling, AgentTypeOK
    <2>3. \A u \in Users :
             /\ alerts[j][u] <= MaxAttempts + MaxStalls
             /\ alerts[j][u] <= MaxAttempts + job[j].stalls + 1
      BY <1>7, <2>2, AgentAssumption
    <2>4. QED  BY <1>3, <1>4, <1>7, <2>2, <2>3 DEF AlertInv, Paid
  <1>9. (AttemptInv(j) /\ OptInv(j) /\ OverInv(j))'
    BY <1>1, <1>2, <1>3, <1>4, <1>7
    DEF JobInv, AttemptInv, OptInv, OverInv, Working, Handling
  <1>10. QED  BY <1>6, <1>8, <1>9 DEF JobInv

LEMMA JobActionAgentInv ==
    ASSUME AgentInv, NEW j \in Jobs, JobAction(j)
    PROVE  AgentInv'
  <1>1. AgentTypeOK' /\ OthersStay(j) /\ JobInv(j)'
    BY EarlySteps, FireStep, NotifyStep, LateSteps, ThrowStep, HandlerSteps DEF JobAction
  <1>2. ASSUME NEW i \in Jobs \ {j} PROVE JobInv(i)'
    BY <1>1, OthersKeepJobInv DEF AgentInv
  <1>3. QED  BY <1>1, <1>2 DEF AgentInv

-------------------------------------------------------------------------------
(***************************************************************************)
(* Steps that touch every job.                                             *)
(***************************************************************************)

LEMMA ChangeAgentInv ==
    ASSUME AgentInv, Change
    PROVE  AgentInv'
  <1>1. AgentTypeOK
    BY DEF AgentInv
  <1>2. UNCHANGED <<cron, job, alerts, runLog, deadLetters>>
    BY DEF Change
  <1>3. optedIn' \subseteq Users /\ member' \subseteq Users /\ digestEnabled' \in BOOLEAN
    <2>1. optedIn \subseteq Users /\ member \subseteq Users /\ digestEnabled \in BOOLEAN
      BY <1>1 DEF AgentTypeOK
    <2>2. QED  BY <2>1 DEF Change
  <1>4. /\ opted' \in [Jobs -> SUBSET Users]
        /\ \A j \in Jobs : opted[j] \subseteq opted'[j]
        /\ \A j \in Jobs : job[j].step \in Working \union {"waiting"} =>
               optedIn' \subseteq opted'[j]
    <2>1. opted \in [Jobs -> SUBSET Users]
      BY <1>1 DEF AgentTypeOK
    <2>2. opted' = [j \in Jobs |-> IF job[j].step \in Working \union {"waiting"}
                                   THEN opted[j] \union optedIn' ELSE opted[j]]
      BY DEF Change
    <2>3. QED  BY <1>3, <2>1, <2>2
  <1>5. AgentTypeOK'
    BY <1>1, <1>2, <1>3, <1>4 DEF AgentTypeOK
  <1>6. ASSUME NEW j \in Jobs PROVE JobInv(j)'
    <2>1. JobInv(j)
      BY DEF AgentInv
    <2>2. (AlertInv(j) /\ AttemptInv(j) /\ OverInv(j))'
      BY <1>2, <2>1 DEF JobInv, AlertInv, AttemptInv, OverInv, Paid, Reached
    <2>3. OptInv(j)'
      BY <1>2, <1>4, <2>1 DEF JobInv, OptInv
    <2>4. QED  BY <2>2, <2>3 DEF JobInv
  <1>7. QED  BY <1>5, <1>6 DEF AgentInv

\* A crash pays for the run it ends with a stall, or there was an attempt left
\* to pay with.
LEMMA CrashAgentInv ==
    ASSUME AgentInv, CrashAgent
    PROVE  AgentInv'
  <1>1. AgentTypeOK /\ Quiet
    BY DEF AgentInv, CrashAgent, Quiet, rest
  <1>2. job' = [j \in Jobs |-> AfterCrash(j)]
    BY DEF CrashAgent
  <1>3. ASSUME NEW j \in Jobs
        PROVE  /\ AfterCrash(j) \in JobType
               /\ AfterCrash(j).kind = job[j].kind
               /\ AfterCrash(j).attempts = job[j].attempts
               /\ job[j].step \in Handling =>
                     AfterCrash(j).step = "failed" /\ AfterCrash(j).stalls = job[j].stalls
               /\ job[j].step \notin Handling /\ job[j].step \notin Working =>
                     AfterCrash(j) = job[j]
               /\ job[j].step \in Working /\ job[j].stalls < MaxStalls =>
                     AfterCrash(j).step = "waiting" /\ AfterCrash(j).stalls = job[j].stalls + 1
               /\ job[j].step \in Working /\ ~(job[j].stalls < MaxStalls) =>
                     AfterCrash(j).step = "failed" /\ AfterCrash(j).stalls = job[j].stalls
    <2>1. job[j] \in JobType /\ job[j].stalls \in 0..MaxStalls
      BY <1>1, JobFields
    <2>2. CASE job[j].step \in Handling
      BY <2>1, <2>2 DEF AfterCrash, JobType, JobStep, Handling, Working
    <2>3. CASE job[j].step \notin Handling /\ job[j].step \notin Working
      BY <2>1, <2>3 DEF AfterCrash
    <2>4. CASE job[j].step \in Working /\ job[j].stalls < MaxStalls
      <3>1. job[j].step \notin Handling
        BY <2>4 DEF Working, Handling
      <3>2. job[j].stalls + 1 \in 0..MaxStalls
        BY <2>1, <2>4, AgentAssumption
      <3>3. AfterCrash(j) = [job[j] EXCEPT !.todo = {}, !.stalls = job[j].stalls + 1,
                                           !.step = "waiting"]
        BY <2>1, <2>4, <3>1 DEF AfterCrash, JobType
      <3>4. QED  BY <2>1, <2>4, <3>1, <3>2, <3>3 DEF JobType, JobStep
    <2>5. CASE job[j].step \in Working /\ ~(job[j].stalls < MaxStalls)
      <3>1. job[j].step \notin Handling
        BY <2>5 DEF Working, Handling
      <3>2. AfterCrash(j) = [job[j] EXCEPT !.todo = {}, !.stalls = job[j].stalls,
                                           !.step = "failed"]
        BY <2>1, <2>5, <3>1 DEF AfterCrash, JobType
      <3>3. QED  BY <2>1, <2>5, <3>1, <3>2 DEF JobType, JobStep
    <2>6. QED  BY <2>2, <2>3, <2>4, <2>5
  <1>4. AgentTypeOK'
    <2>1. job' \in [Jobs -> JobType]
      BY <1>2, <1>3
    <2>2. QED  BY <1>1, <2>1 DEF AgentTypeOK, JobType, Quiet
  <1>5. ASSUME NEW j \in Jobs PROVE JobInv(j)'
    <2>1. JobInv(j) /\ job'[j] = AfterCrash(j)
      BY <1>2 DEF AgentInv
    <2>2. /\ job[j].attempts \in 0..MaxAttempts /\ job[j].stalls \in 0..MaxStalls
          /\ job[j].step \in JobStep
          /\ \A u \in Users : alerts[j][u] \in Nat
      BY <1>1, JobFields DEF AgentTypeOK
    <2>3. CASE job[j].step \notin Handling /\ job[j].step \notin Working
      <3>1. job'[j] = job[j]
        BY <1>3, <2>1, <2>3
      <3>2. QED
        BY <1>1, <2>1, <3>1
        DEF JobInv, AlertInv, AttemptInv, OptInv, OverInv, Paid, Reached, Quiet
    <2>4. CASE job[j].step \in Handling
      <3>1. /\ job'[j].step = "failed" /\ job'[j].attempts = MaxAttempts
            /\ job'[j].kind = job[j].kind
        BY <1>3, <2>1, <2>4 DEF JobInv, AttemptInv
      <3>2. \A u \in Users : alerts[j][u] <= MaxAttempts + MaxStalls
        <4>1. \A u \in Users : ~Reached(j, u)
          BY <2>4 DEF Reached, Handling
        <4>2. job[j].attempts = MaxAttempts /\ job[j].step # "failed"
          BY <2>1, <2>4 DEF JobInv, AttemptInv, Handling
        <4>3. QED  BY <2>1, <2>2, <4>1, <4>2, AgentAssumption DEF JobInv, AlertInv, Paid
      <3>3. QED
        BY <1>1, <2>1, <3>1, <3>2
        DEF JobInv, AlertInv, AttemptInv, OptInv, OverInv, Quiet, Working, Handling
    <2>5. CASE job[j].step \in Working
      <3>1. /\ job[j].attempts < MaxAttempts /\ job[j].step \notin {"bury", "failed"}
            /\ \A u \in Users : alerts[j][u] <= Paid(j) + 1
        BY <2>1, <2>5 DEF JobInv, AttemptInv, AlertInv, Working, Handling
      <3>2. j \notin deadLetters /\ "failure" \notin runLog[j]
        BY <2>1, <3>1 DEF JobInv, OverInv
      <3>3. OverInv(j)'
        BY <1>1, <3>2 DEF OverInv, Quiet
      <3>4. CASE job[j].stalls < MaxStalls
        <4>1. /\ job'[j].step = "waiting" /\ job'[j].stalls = job[j].stalls + 1
              /\ job'[j].attempts = job[j].attempts /\ job'[j].kind = job[j].kind
          BY <1>3, <2>1, <2>5, <3>4
        <4>2. AlertInv(j)'
          <5>1. \A u \in Users : alerts'[j][u] <= job'[j].attempts + job'[j].stalls
            BY <1>1, <2>2, <3>1, <4>1 DEF Paid, Quiet
          <5>2. \A u \in Users : alerts'[j][u] <= job'[j].attempts + job'[j].stalls + 1
            BY <1>1, <2>2, <3>1, <4>1 DEF Paid, Quiet
          <5>3. QED  BY <4>1, <5>1, <5>2 DEF AlertInv, Paid
        <4>3. (AttemptInv(j) /\ OptInv(j))'
          BY <1>1, <2>1, <2>5, <3>1, <4>1
          DEF JobInv, AttemptInv, OptInv, Quiet, Working, Handling
        <4>4. QED  BY <3>3, <4>2, <4>3 DEF JobInv
      <3>5. CASE ~(job[j].stalls < MaxStalls)
        <4>1. job'[j].step = "failed" /\ job'[j].kind = job[j].kind
          BY <1>3, <2>1, <2>5, <3>5
        <4>2. AlertInv(j)'
          <5>1. \A u \in Users : alerts'[j][u] <= MaxAttempts + MaxStalls
            BY <1>1, <2>2, <3>1, AgentAssumption DEF Paid, Quiet
          <5>2. QED  BY <4>1, <5>1 DEF AlertInv
        <4>3. (AttemptInv(j) /\ OptInv(j))'
          BY <1>1, <2>1, <4>1
          DEF JobInv, AttemptInv, OptInv, Quiet, Working, Handling
        <4>4. QED  BY <3>3, <4>2, <4>3 DEF JobInv
      <3>6. QED  BY <3>4, <3>5
    <2>6. QED  BY <2>3, <2>4, <2>5
  <1>6. QED  BY <1>4, <1>5 DEF AgentInv

\* Steps that leave the jobs and what they have told alone.
LEMMA StutterAgentInv ==
    ASSUME AgentInv, ScheduleCrons \/ UNCHANGED agentVars
    PROVE  AgentInv'
  <1>1. /\ UNCHANGED <<job, digestEnabled, member, optedIn, alerts, runLog, deadLetters, opted>>
        /\ cron' \subseteq {"stale", "digest"}
    BY DEF ScheduleCrons, agentVars, AgentInv, AgentTypeOK
  <1>2. AgentTypeOK'
    BY <1>1 DEF AgentInv, AgentTypeOK
  <1>3. ASSUME NEW j \in Jobs PROVE JobInv(j)'
    BY <1>1 DEF AgentInv, JobInv, AlertInv, AttemptInv, OptInv, OverInv, Paid, Reached
  <1>4. QED  BY <1>2, <1>3 DEF AgentInv

LEMMA NextAgentInv == AgentInv /\ [AgentNext]_agentVars => AgentInv'
  <1> SUFFICES ASSUME AgentInv, [AgentNext]_agentVars PROVE AgentInv'
    OBVIOUS
  <1>1. CASE Change
    BY <1>1, ChangeAgentInv
  <1>2. CASE CrashAgent
    BY <1>2, CrashAgentInv
  <1>3. CASE ScheduleCrons \/ UNCHANGED agentVars
    BY <1>3, StutterAgentInv
  <1>4. CASE \E j \in Jobs : JobAction(j)
    BY <1>4, JobActionAgentInv
  <1>5. QED  BY <1>1, <1>2, <1>3, <1>4 DEF AgentNext, JobAction

-------------------------------------------------------------------------------
(***************************************************************************)
(* Theorems.                                                               *)
(***************************************************************************)

\* The strengthened invariant: what a run, a crash or a change of preference in
\* the middle of a job leaves for the next one.
THEOREM AgentInvariance == AgentSpec => []AgentInv
  BY InitAgentInv, NextAgentInv, PTL DEF AgentSpec

\* Every variable of the community agent has its type.
THEOREM AgentTypeCorrect == AgentSpec => []AgentTypeOK
  <1>1. AgentInv => AgentTypeOK
    BY DEF AgentInv
  <1>2. QED  BY <1>1, AgentInvariance, PTL

\* Nobody hears of one job oftener than its attempts and redeliveries add up to,
\* and a job that was written off has used up its attempts and is over.
THEOREM WrittenOffStaysOver == AgentSpec => []RetriesEnd
  <1>1. AgentInv => WrittenOffIsOver
    BY DEF AgentInv, JobInv, OverInv, WrittenOffIsOver
  <1>2. AgentInv => RetriesEnd
    BY <1>1, BoundedByPay DEF RetriesEnd
  <1>3. QED  BY <1>2, AgentInvariance, PTL

\* Only members who wanted the digest at some time of the job are told of it,
\* although the group, the members and their preferences are read at three times.
THEOREM DigestsAreWanted == AgentSpec => []DigestOnlyToOptedIn
  <1>1. AgentInv => DigestOnlyToOptedIn
    BY DEF AgentInv, JobInv, OptInv, DigestOnlyToOptedIn
  <1>2. QED  BY <1>1, AgentInvariance, PTL
===============================================================================
