---------------------------- MODULE HealthCheck ----------------------------
(***************************************************************************)
(* The health-check task (src/archcare/tasks/health_check.py): seven       *)
(* checks in a fixed order, each of which may add to the lists of issues   *)
(* and warnings that decide the result.  The readings come from psutil,    *)
(* journalctl and pacman; a reading psutil cannot take is reported as zero *)
(* (src/archcare/utils/hardware.py), a journal that cannot be read as one  *)
(* without errors.                                                         *)
(***************************************************************************)
EXTENDS TaskDisplay, Integers

CONSTANTS
  Percents,          \* the usages psutil may report
  Loads,             \* the one-minute load averages
  Cores,             \* cpu.cores
  DiskWarning, DiskCritical, MemoryWarning, MemoryCritical,
  SwapWarning, CpuWarning,
  Unknown            \* a reading that could not be taken

ASSUME PercentAssumption ==
  Percents \subseteq 0..100 /\ Loads \subseteq Nat /\ Cores \in Nat

\* What HealthCheckSettings validates.
SettingsValid ==
  /\ {DiskWarning, DiskCritical, MemoryWarning, MemoryCritical,
      SwapWarning, CpuWarning} \subseteq 0..100
  /\ DiskWarning < DiskCritical /\ MemoryWarning < MemoryCritical

ASSUME SettingsAssumption == SettingsValid

VARIABLES
  checked,  \* the checks that are done
  issues,   \* the checks that found an issue
  warnings, \* the checks that found a warning
  reading   \* history: what each instrument showed

healthVars == <<checked, issues, warnings, reading>>

Checks == <<"disk", "memory", "cpu", "filesystem", "database", "files", "uptime">>

Gauges == {"disk", "memory", "swap", "cpu", "load"}
Inspections == {"filesystem", "database", "files"}
Instruments == Gauges \cup Inspections

Verdicts == {"good", "bad"}

ASSUME UnknownAssumption == Unknown \notin Nat /\ Unknown \notin Verdicts

HealthTypeOK ==
  /\ checked \in [Runs -> 0..Len(Checks)]
  /\ issues \in [Runs -> SUBSET Instruments]
  /\ warnings \in [Runs -> SUBSET Instruments]
  /\ \A r \in Runs :
       /\ \A i \in Gauges : reading[r][i] \in Percents \cup Loads \cup {Unknown}
       /\ \A i \in Inspections : reading[r][i] \in Verdicts \cup {Unknown}

HealthInit ==
  /\ checked = [r \in Runs |-> 0]
  /\ issues = [r \in Runs |-> {}]
  /\ warnings = [r \in Runs |-> {}]
  /\ reading = [r \in Runs |-> [i \in Instruments |-> Unknown]]

----------------------------------------------------------------------------
(* The readings and what they are worth.                                   *)

\* hardware.py: a failure of psutil reads as zero.
Shown(v) == IF v = Unknown THEN 0 ELSE v

\* psutil failing takes every value of its query with it.
Readings(values) == [values -> Percents] \cup {[i \in values |-> Unknown]}

\* Mutant of Grade: the thresholds are tried in the wrong order.
GradeWarningFirst(v, warning, critical) ==
  IF Shown(v) > warning THEN "warning"
  ELSE IF Shown(v) > critical THEN "issue"
  ELSE "fine"

Grade(v, warning, critical) ==
  IF Shown(v) > critical THEN "issue"
  ELSE IF Shown(v) > warning THEN "warning"
  ELSE "fine"

\* Swap, CPU and load only ever warn.
Above(v, warning) == IF Shown(v) > warning THEN "warning" ELSE "fine"

\* cpu.cores or 1.
Capacity == IF Cores = 0 THEN 1 ELSE Cores

\* load_avg is None when the query failed.
Overloaded(v) == IF v # Unknown /\ v > 2 * Capacity THEN "warning" ELSE "fine"

Fault(v) == IF v = "bad" THEN "issue" ELSE "fine"

----------------------------------------------------------------------------
(* execute().                                                              *)

At(r, check) ==
  /\ stage[r] = "execute" /\ bar[r] /\ checked[r] < Len(Checks)
  /\ Checks[checked[r] + 1] = check

\* The check took the readings shown, which have these grades.
Noted(r, shown, grades) ==
  LET of(grade) == {i \in DOMAIN grades : grades[i] = grade} IN
  /\ checked' = [checked EXCEPT ![r] = @ + 1]
  /\ issues' = [issues EXCEPT ![r] = @ \cup of("issue")]
  /\ warnings' = [warnings EXCEPT ![r] = @ \cup of("warning")]
  /\ reading' = [reading EXCEPT ![r] =
                   [i \in Instruments |-> IF i \in DOMAIN shown THEN shown[i] ELSE @[i]]]

\* progress.start(total=_CHECK_COUNT).
OpenBar(r) ==
  /\ stage[r] = "execute" /\ ~bar[r]
  /\ StartBar(r)
  /\ UNCHANGED <<hookVars, kind, asking, warm, saved, script, healthVars>>

CheckDiskSpace(r) ==
  /\ At(r, "disk")
  /\ \E s \in Readings({"disk"}) :
       Noted(r, s, [disk |-> Grade(s["disk"], DiskWarning, DiskCritical)])

CheckMemoryUsage(r) ==
  /\ At(r, "memory")
  /\ \E s \in Readings({"memory", "swap"}) :
       Noted(r, s, [memory |-> Grade(s["memory"], MemoryWarning, MemoryCritical),
                    swap |-> Above(s["swap"], SwapWarning)])

CheckCpuLoad(r) ==
  /\ At(r, "cpu")
  /\ \/ \E c \in Percents, l \in Loads :
          Noted(r, [cpu |-> c, load |-> l],
                [cpu |-> Above(c, CpuWarning), load |-> Overloaded(l)])
     \/ LET nothing == [cpu |-> Unknown, load |-> Unknown] IN
        Noted(r, nothing, [cpu |-> Above(Unknown, CpuWarning),
                           load |-> Overloaded(Unknown)])

CheckFilesystemErrors(r) ==
  /\ At(r, "filesystem")
  /\ \E v \in Verdicts \cup {Unknown} :
       Noted(r, [filesystem |-> v], [filesystem |-> Fault(v)])

\* A missing pacman, or one that fails, is an issue like a broken database.
CheckPacmanDatabase(r) ==
  /\ At(r, "database")
  /\ \E v \in Verdicts : Noted(r, [database |-> v], [database |-> Fault(v)])

\* pacman -Qk under sudo, inside a pause.
PauseForFiles(r) ==
  /\ At(r, "files") /\ bracket[r] = "none"
  /\ EnterPause(r)
  /\ UNCHANGED <<hookVars, kind, asking, warm, saved, script, healthVars>>

FilesPassword(r) ==
  /\ At(r, "files") /\ bracket[r] = "pause"
  /\ AskPassword(r) \/ GivePassword(r)
  /\ UNCHANGED <<runVars, kind, bar, bracket, saved, script, healthVars>>

\* A declined password is a failed command: an issue.
CheckPackageFiles(r) ==
  /\ At(r, "files") /\ bracket[r] = "pause"
  /\ \/ /\ warm[r] /\ asking[r] = "nothing" /\ UNCHANGED <<asking, warm>>
        /\ \E v \in Verdicts : Noted(r, [files |-> v], [files |-> Fault(v)])
     \/ /\ DeclinePassword(r)
        /\ Noted(r, [files |-> "bad"], [files |-> Fault("bad")])
  /\ LeaveBracket(r)
  /\ UNCHANGED <<hookVars, kind, saved, script>>

CheckUptime(r) == At(r, "uptime") /\ Noted(r, <<>>, <<>>)

\* Issues fail the check, warnings alone make it partial.
HealthResult(r) ==
  Ended(IF issues[r] # {} THEN "failure"
        ELSE IF warnings[r] # {} THEN "partial"
        ELSE "success")

Summarise(r) ==
  /\ checked[r] = Len(Checks)
  /\ ExecuteReturns(r, HealthResult(r))
  /\ UNCHANGED <<display, kind, screenVars, healthVars>>

MetricCheck(r) ==
  /\ \/ CheckDiskSpace(r) \/ CheckMemoryUsage(r) \/ CheckCpuLoad(r)
     \/ CheckFilesystemErrors(r) \/ CheckPacmanDatabase(r) \/ CheckUptime(r)
  /\ UNCHANGED <<runVars, kind, screenVars>>

\* The other hooks are those of BaseTask; a missing command raises anywhere.
HealthHook(r) ==
  /\ \/ PreCheckPasses(r) \/ ShouldRun(r) \/ PostExecuteReturns(r)
     \/ RollbackEnds(r)
     \/ \E h \in Hooks : HookRaises(r, h) \/ HookInterrupted(r, h)
  /\ LeaveHook(r)
  /\ UNCHANGED healthVars

HealthStep(r) ==
  /\ kind[r] = "health-check"
  /\ \/ OpenBar(r) \/ MetricCheck(r) \/ PauseForFiles(r) \/ FilesPassword(r)
     \/ CheckPackageFiles(r) \/ Summarise(r) \/ HealthHook(r)

----------------------------------------------------------------------------
(* Properties.                                                             *)

\* How bad an instrument's reading is, by the settings' thresholds.
Critical(r) ==
  \/ \E i \in Inspections : reading[r][i] = "bad"
  \/ Shown(reading[r]["disk"]) > DiskCritical
  \/ Shown(reading[r]["memory"]) > MemoryCritical

Worrying(r) ==
  \/ Shown(reading[r]["disk"]) > DiskWarning
  \/ Shown(reading[r]["memory"]) > MemoryWarning
  \/ Shown(reading[r]["swap"]) > SwapWarning
  \/ Shown(reading[r]["cpu"]) > CpuWarning
  \/ reading[r]["load"] # Unknown /\ reading[r]["load"] > 2 * Capacity

\* No reading is lost on the way to the verdict: a check that ends well
\* reports the worst of what its instruments showed, in whichever order they
\* were read and whatever the earlier checks had found.
VerdictFitsReadings ==
  \A r \in Runs :
    kind[r] = "health-check" /\ stage[r] = "returned" /\ hooks[r]["rollback"] = "not_called"
      => result[r].status = IF Critical(r) THEN "failure"
                            ELSE IF Worrying(r) THEN "partial"
                            ELSE "success"
=============================================================================
