------------------------------- MODULE Outcomes -------------------------------
(***************************************************************************)
(* Reporting outcomes on the page of a group.  The page reads the reports  *)
(* and the progress per indicator in two statements, side by side.  The    *)
(* report form carries its date in a hidden field that is computed when    *)
(* the form is rendered, so that a report is dated before it is sent.      *)
(***************************************************************************)
EXTENDS Naturals, Sequences, FiniteSets, FiniteSetsExt

CONSTANTS
    Reporters,      \* users with the group's page open
    Indicators,     \* sdg_indicators of the group's goals
    MaxReports,     \* reports ever inserted (bounds the table)
    MaxTime         \* bounds the clock

ASSUME OutcomesAssumption == MaxReports \in Nat /\ MaxTime \in Nat \ {0}

VARIABLES
    now,            \* the clock
    inGroup,        \* who is a member
    reports,        \* the outcomes table, in the order of insertion
    groupPage       \* each user's page, and what its form has sent

outcomeVars == <<now, inGroup, reports, groupPage>>

PageState == {"closed", "reading", "shown", "sent", "checked"}

NoProgress == [i \in Indicators |-> [count |-> 0, latest |-> 0]]

Blank ==
    [step |-> "closed", isMember |-> FALSE,
     list |-> {}, gotList |-> FALSE,
     progress |-> NoProgress, gotProgress |-> FALSE,
     reportedAt |-> 0, indicator |-> 0]

\* The reports on indicator i among those with the indices `ids`.
About(i, ids) == {r \in ids : reports[r].indicator = i}

\* Mutant: the latest report is the one inserted last.
LatestInserted(ids) == IF ids = {} THEN 0 ELSE reports[Max(ids)].reportedAt

\* ORDER BY reported_at DESC LIMIT 1: the date of the value that is shown.
LatestOf(ids) == Max({reports[r].reportedAt : r \in ids} \union {0})

-------------------------------------------------------------------------------
OutcomesInit ==
    /\ now = 1
    /\ inGroup = Reporters
    /\ reports = <<>>
    /\ groupPage = [u \in Reporters |-> Blank]

ClockTick ==
    /\ now < MaxTime
    /\ now' = now + 1
    /\ UNCHANGED <<inGroup, reports, groupPage>>

\* Joins and leaves; the page is that of a public group.
ChangeMembership(u) ==
    /\ inGroup' = IF u \in inGroup THEN inGroup \ {u} ELSE inGroup \union {u}
    /\ UNCHANGED <<now, reports, groupPage>>

\* The membership is read first.
OpenGroupPage(u) ==
    /\ groupPage[u].step = "closed"
    /\ groupPage' = [groupPage EXCEPT
          ![u] = [Blank EXCEPT !.step = "reading", !.isMember = u \in inGroup]]
    /\ UNCHANGED <<now, inGroup, reports>>

listOutcomes(u) ==
    /\ groupPage[u].step = "reading"
    /\ ~groupPage[u].gotList
    /\ groupPage' = [groupPage EXCEPT
          ![u] = [@ EXCEPT !.list = DOMAIN reports, !.gotList = TRUE]]
    /\ UNCHANGED <<now, inGroup, reports>>

getGroupProgress(u) ==
    /\ groupPage[u].step = "reading"
    /\ ~groupPage[u].gotProgress
    /\ groupPage' = [groupPage EXCEPT
          ![u] = [@ EXCEPT
             !.progress = [i \in Indicators |->
                 LET ids == About(i, DOMAIN reports)
                 IN  [count |-> Cardinality(ids), latest |-> LatestOf(ids)]],
             !.gotProgress = TRUE]]
    /\ UNCHANGED <<now, inGroup, reports>>

\* The page arrives, and its form is rendered with the time it is rendered at.
ShowGroupPage(u) ==
    /\ groupPage[u].step = "reading"
    /\ groupPage[u].gotList
    /\ groupPage[u].gotProgress
    /\ groupPage' = [groupPage EXCEPT
          ![u] = [@ EXCEPT !.step = "shown", !.reportedAt = now]]
    /\ UNCHANGED <<now, inGroup, reports>>

\* Only a member is given the form.
SubmitReport(u, i) ==
    /\ groupPage[u].step = "shown"
    /\ groupPage[u].isMember
    /\ groupPage' = [groupPage EXCEPT ![u] = [@ EXCEPT !.step = "sent", !.indicator = i]]
    /\ UNCHANGED <<now, inGroup, reports>>

\* A reporter who has left is told so, and the form is rendered again.
CheckReporter(u) ==
    /\ groupPage[u].step = "sent"
    /\ groupPage' = [groupPage EXCEPT
          ![u] = IF u \in inGroup THEN [@ EXCEPT !.step = "checked"]
                 ELSE [@ EXCEPT !.step = "shown", !.reportedAt = now, !.indicator = 0]]
    /\ UNCHANGED <<now, inGroup, reports>>

\* The indicator is looked up, and the form refreshes the page on success.
InsertReport(u) ==
    /\ groupPage[u].step = "checked"
    /\ Len(reports) < MaxReports
    /\ reports' = Append(reports,
          [indicator |-> groupPage[u].indicator, reportedAt |-> groupPage[u].reportedAt])
    /\ groupPage' = [groupPage EXCEPT
          ![u] = [Blank EXCEPT !.step = "reading", !.isMember = u \in inGroup]]
    /\ UNCHANGED <<now, inGroup>>

OutcomesNext ==
    \/ ClockTick
    \/ \E u \in Reporters :
          \/ ChangeMembership(u)
          \/ OpenGroupPage(u)
          \/ listOutcomes(u)
          \/ getGroupProgress(u)
          \/ ShowGroupPage(u)
          \/ \E i \in Indicators : SubmitReport(u, i)
          \/ CheckReporter(u)
          \/ InsertReport(u)

OutcomesSpec == OutcomesInit /\ [][OutcomesNext]_outcomeVars

-------------------------------------------------------------------------------
(***************************************************************************)
(* Properties.                                                             *)
(***************************************************************************)

\* Types.
OutcomesTypeOK ==
    /\ now \in 1 .. MaxTime
    /\ inGroup \subseteq Reporters
    /\ reports \in Seq([indicator : Indicators, reportedAt : 1 .. MaxTime])
    /\ \A u \in Reporters :
          /\ groupPage[u].step \in PageState
          /\ groupPage[u].list \subseteq DOMAIN reports
          /\ groupPage[u].progress \in
                [Indicators -> [count : 0 .. MaxReports, latest : 0 .. MaxTime]]
          /\ groupPage[u].reportedAt \in 0 .. MaxTime

\* The table of progress and the list of reports below it tell one story: where
\* they count the same reports, the value called the latest is that of the latest
\* date in the list, in whatever order the reports were dated and inserted.
\* (They need not count the same: a report may land between the two reads.)
ProgressAgrees ==
    \A u \in Reporters : \A i \in Indicators :
        LET ids == About(i, groupPage[u].list)
            row == groupPage[u].progress[i]
        IN  groupPage[u].step # "reading" /\ row.count = Cardinality(ids) =>
                /\ \A r \in ids : reports[r].reportedAt <= row.latest
                /\ ids # {} => \E r \in ids : reports[r].reportedAt = row.latest
===============================================================================
