-------------------------- MODULE MaintenanceCheck --------------------------
(***************************************************************************)
(* The maintenance-check task (src/archcare/tasks/maintenance_check.py)    *)
(* among the tasks it watches.  It is a task like the others: a daily      *)
(* timer or a person starts it through the executor.  It loads a state of  *)
(* its own when it is created and derives its findings from the records in *)
(* it, which every attempt of the watched tasks, skips included, has       *)
(* overwritten.                                                            *)
(*                                                                         *)
(* A check notifies the user of what it found and may write a report file; *)
(* `archcare task status` lists the same tasks from the same records.      *)
(*                                                                         *)
(* A tick is a day.  The wording is left out: a finding is a task and a    *)
(* severity, a notification a severity, a report file the day it was       *)
(* written on.                                                             *)
(***************************************************************************)
EXTENDS DailyTimers

CONSTANTS
  Checker,          \* the task that checks
  Manual,           \* the tasks of type "manual"
  Warning, Critical, \* the thresholds of MaintenanceCheckSettings, in days
  Notify,           \* show_notifications
  Level,            \* notification_level
  ToFile,           \* output_mode is "file" or "both"
  Retention         \* report_retention_days

ASSUME CheckerAssumption == Checker \in Tasks \ Manual /\ Manual \subseteq Tasks
ASSUME ManualHasNoTimer == Manual \cap Timed = {}
ASSUME TickIsADay == DayLength = 1

Severities == {"info", "warning", "critical"}

\* What MaintenanceCheckSettings validates.
SettingsValid ==
  /\ {Warning, Critical} \subseteq Nat /\ Warning < Critical
  /\ Notify \in BOOLEAN /\ ToFile \in BOOLEAN /\ Level \in Severities
  /\ Retention \in Nat \ {0}

ASSUME SettingsAssumption == SettingsValid

VARIABLES
  view,    \* self.state of a check: the records it loaded, None before
  report,  \* the issues a check found, None before
  told,    \* the notification it made: a severity or "nothing", None before
  reports  \* the days of the report files in report_dir

ownVars == <<view, report, told>>
checkVars == <<dailyVars, ownVars, reports>>

Issues == [task : Tasks \ {Checker}, severity : Severities]

CheckTypeOK ==
  /\ DailyTypeOK
  /\ view \in [Procs -> {None} \cup [Tasks -> TaskStates]]
  /\ report \in [Procs -> {None} \cup (SUBSET Issues)]
  /\ told \in [Procs -> {None, "nothing"} \cup Severities]
  /\ reports \subseteq 0..now

CheckInit ==
  /\ DailyInit
  /\ view = [p \in Procs |-> None]
  /\ report = [p \in Procs |-> None]
  /\ told = [p \in Procs |-> None]
  /\ reports = {}

----------------------------------------------------------------------------
(* The findings.                                                           *)

DaysOverdue(state, delta) ==
  IF NeverRun(state) \/ EffectiveDue(state, delta) > now
    THEN 0
    ELSE now - EffectiveDue(state, delta)

\* _determine_severity.
Severity(days) == IF days >= Critical THEN "critical"
                  ELSE IF days >= Warning THEN "warning"
                  ELSE "info"

\* Mutant of SeverelyOverdue: a recurrence missed is enough.
MissedOnce(days, delta) == days >= delta

\* _check_broken_timer: days_overdue > frequency * 1.5.
SeverelyOverdue(days, delta) == 2 * days > 3 * delta

\* Mutant of IssuesOf: a manual task is graded whether or not it is due.
GradedAlways(t, state) ==
  LET due  == IsDue(state, Freq[t], now)
      days == DaysOverdue(state, Freq[t])
  IN  IF NeverRun(state) THEN {"info"}
      ELSE IF t \in Manual THEN {Severity(days)}
      ELSE {s \in {"warning"} : due /\ state.last_status = "failure"}
             \cup {s \in {"critical"} : SeverelyOverdue(days, Freq[t])}

\* _check_task for a task with the given record.
IssuesOf(t, state) ==
  LET due  == IsDue(state, Freq[t], now)
      days == DaysOverdue(state, Freq[t])
  IN  IF NeverRun(state) THEN {"info"}
      ELSE IF t \in Manual THEN {s \in {Severity(days)} : due}
      ELSE {s \in {"warning"} : due /\ state.last_status = "failure"}
             \cup {s \in {"critical"} : SeverelyOverdue(days, Freq[t])}

Findings(state) ==
  {i \in Issues : i.severity \in IssuesOf(i.task, state[i.task])}

Has(issues, severity) == \E i \in issues : i.severity = severity

\* Mutant of CheckResult: the worst severity is the status.
SeverityAsStatus(issues) ==
  Ended(IF Has(issues, "critical") THEN "critical" ELSE "success")

\* execute: critical issues fail the check, warnings make it partial.
CheckResult(issues) ==
  Ended(IF Has(issues, "critical") THEN "failure"
        ELSE IF Has(issues, "warning") THEN "partial"
        ELSE "success")

\* severity_map.
Rank == [info |-> 0, warning |-> 1, critical |-> 2]

\* _send_notification for what was found: the worst of it, from Level on.
Notification(issues) ==
  LET worth == {s \in Severities : Has(issues, s) /\ Rank[s] >= Rank[Level]} IN
  IF ~Notify \/ worth = {} THEN "nothing"
  ELSE CHOOSE s \in worth : \A other \in worth : Rank[s] >= Rank[other]

\* _cleanup_old_reports once the report of today is written.  Of a report as
\* old as the retention the hour decides, and a file may resist.
ReportsAfterCleanup ==
  {(reports \ old) \cup {now} : old \in SUBSET {d \in reports : now - d >= Retention}}

----------------------------------------------------------------------------
(* archcare task status, for a state it loaded.                            *)

\* get_due_tasks.
DueTasks(state) == {t \in Tasks : IsDue(state[t], Freq[t], now)}

\* The "overdue" of get_maintenance_summary.
OverdueTasks(state) == {t \in Tasks : DaysOverdue(state[t], Freq[t]) > 0}

----------------------------------------------------------------------------
(* The check as a task of the executor.                                    *)

\* __init__ loads the state when the executor creates the task.
TaskCreated(p) ==
  /\ BodyStarts(p)
  /\ view' = IF job[p].task = Checker THEN [view EXCEPT ![p] = LoadedState]
             ELSE view
  /\ UNCHANGED <<report, told, reports>>

CheckExecutes(p) ==
  /\ pc[p] = "running" /\ job[p].task = Checker /\ report[p] = None
  /\ report' = [report EXCEPT ![p] = Findings(view[p])]
  /\ UNCHANGED <<dailyVars, view, told, reports>>

\* post_execute, first part.  A notify-send that is missing, fails or hangs
\* is logged and forgotten.
SendNotification(p) ==
  /\ pc[p] = "running" /\ job[p].task = Checker
  /\ report[p] # None /\ told[p] = None
  /\ told' = [told EXCEPT ![p] = Notification(report[p])]
  /\ UNCHANGED <<dailyVars, view, report, reports>>

CheckReturns(p) ==
  /\ told[p] # None
  /\ Decide(p, "running", CheckResult(report[p]))
  /\ reports' \in IF ToFile THEN ReportsAfterCleanup ELSE {reports}
  /\ UNCHANGED <<fired, worked, ownVars>>

\* Mutant of CheckRaises: the report is written before the notification.
RaisesUntold(p) ==
  /\ report[p] # None /\ ToFile
  /\ Decide(p, "running", Ended("failure"))
  /\ report' = [report EXCEPT ![p] = None]
  /\ UNCHANGED <<fired, worked, view, told, reports>>

\* The report cannot be written, or only in part: post_execute raises and
\* run() returns a failure without the issues.
CheckRaises(p) ==
  /\ told[p] # None /\ ToFile
  /\ Decide(p, "running", Ended("failure"))
  /\ report' = [report EXCEPT ![p] = None]
  /\ reports' \in {reports, reports \cup {now}}
  /\ UNCHANGED <<fired, worked, view, told>>

OtherBodyEnds(p) ==
  /\ job[p].task # Checker
  /\ BodyEnds(p)
  /\ UNCHANGED <<ownVars, reports>>

\* What a check knows goes with its process.
ExecutorStep(p) ==
  /\ Starts(p) \/ OtherStep(p)
  /\ LET kept(f) == IF pc'[p] = "idle" THEN [f EXCEPT ![p] = None] ELSE f IN
     view' = kept(view) /\ report' = kept(report) /\ told' = kept(told)
  /\ UNCHANGED reports

RunMerges == (\E t \in Tasks : TimerMerges(t)) /\ UNCHANGED <<ownVars, reports>>

NextDay == HoursPass /\ UNCHANGED <<ownVars, reports>>

CheckNext ==
  \/ \E p \in Procs :
       \/ ExecutorStep(p) \/ TaskCreated(p) \/ OtherBodyEnds(p)
       \/ CheckExecutes(p) \/ SendNotification(p)
       \/ CheckReturns(p) \/ CheckRaises(p)
  \/ RunMerges \/ NextDay

CheckSpec == CheckInit /\ [][CheckNext]_checkVars

----------------------------------------------------------------------------
(* Properties.                                                             *)

Watched == Tasks \ {Checker}

Executed(p) == pc[p] = "update" /\ view[p] # None

Returned(p) == Executed(p) /\ report[p] # None

Alarm(t) == [task |-> t, severity |-> "critical"]

\* Days since the due date that the last completed cycle earned.
Unserviced(t) == now - (advanced[t] + Freq[t])

TooLong(t) == IF t \in Manual THEN Unserviced(t) >= Critical
              ELSE 2 * Unserviced(t) > 3 * Freq[t]

\* No task that has been serviced once can be forgotten: when its last
\* completed cycle is long enough ago, every check raises the alarm, however
\* many attempts failed or were skipped since and whoever made them.
NeglectReported ==
  \A p \in Procs : Returned(p) =>
    \A t \in Watched :
      view[p][t].next_due # None /\ TooLong(t) => Alarm(t) \in report[p]

\* The user is told of it whenever notifications are on: before the check
\* writes its report, so also by a check that then fails to, and whose issues
\* nobody sees.
NeglectAnnounced ==
  \A p \in Procs : Executed(p) /\ Notify =>
    \A t \in Watched :
      view[p][t].next_due # None /\ TooLong(t) => told[p] = "critical"

\* `archcare task status` beside the check does not contradict it: what the
\* check warns of is due there, what it raises an alarm for is overdue.
StatusAgreesWithCheck ==
  \A p \in Procs : Returned(p) =>
    \A i \in report[p] :
      /\ i.severity # "info" => i.task \in DueTasks(LoadedState)
      /\ i.severity = "critical" => i.task \in OverdueTasks(LoadedState)

\* While invocations do not overlap, an alarm is never false: no cycle of
\* the task has been completed for that long.
AlarmsAreTrue ==
  \A p \in Procs : Returned(p) =>
    \A t \in Watched :
      Alarm(t) \in report[p] /\ advanced[t] # None => TooLong(t)

\* docs/architecture/task-lifecycle.md: "DEPENDENCY_FAILED signals a
\* configuration problem (binary missing, permissions wrong) - surfaced as a
\* maintenance issue."  Stated for tasks that are due, as for failures.
DependencyFailureSurfaced ==
  \A p \in Procs : Returned(p) =>
    \A t \in Watched :
      /\ view[p][t].skip_reason = "dependency_failed"
      /\ IsDue(view[p][t], Freq[t], now)
      => \E i \in report[p] : i.task = t
=============================================================================
