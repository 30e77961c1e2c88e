# archcare in TLA+

A verification development of [archcare](../src), a maintenance CLI for Arch Linux: TLA+ modules
translated from its source, TLC configurations that check them on small instances, and theorems
about every modelled component that TLAPS proves for all instances. All paths below are in the repository;
`A/` stands for `src/archcare/`.

    tlc -workers 2 -config TaskExecutorSerial.cfg MCTaskExecutor.tla     # a run
    tlapm TaskExecutor_proofs.tla                                        # the proofs

`PROJECT.json` lists every run, the lines each definition was translated from, a mutant of the code
for every property, the findings and the hazards.

## 1. Inventory

archcare is not a daemon. Every command is a process that loads its files, works and exits;
processes meet only through the file system, systemd and pacman. A task is run by systemd timers, as
root with `ARCHCARE_USER` set, or by a person in a shell. Nothing anywhere takes a lock.

| component | state | operations | what makes it correct |
| --- | --- | --- | --- |
| **Task executor** `A/core/executor.py`, `A/config/loader.py`, `A/config/user.py` | the `AppState` it loaded; `state.json` | `execute_task`: disabled gate, due gate, create, run, `_update_state` (compute `next_due`, record, save, chown) | every attempt recorded once, for its own task only; due dates never slide nor look earned; a damaged file costs history only; no unattended prompt; the file stays the user's |
| **Scheduler** `A/core/scheduler.py` | none (reads tasks and state) | `get_schedule_info`, lists of due tasks, summary | a task is due exactly from its effective date on |
| **systemd timers** `A/services/setup_service.py` | the installed units | a start a day per task, one at boot | an overdue task is tried every day |
| **BaseTask** `A/core/base_task.py` | start time, log handler, display, result | `run()`: `pre_check`, `should_run`, `execute`, `post_execute`, `rollback`, finally | rollback, result and clean-up agree whatever raises |
| **mirrorlist-update** `A/tasks/mirrorlist_update.py`, `A/utils/mirrorlist.py` | `/etc/pacman.d/mirrorlist` and its backups | back up, reflector, validate, restore, prune | a failed update leaves the list as found; retention holds |
| **system-update** `A/tasks/system_update.py`, `A/utils/pacman.py`, `A/utils/system_update.py` | sync database and its backup, packages, package cache, recovery record, news prompt time | gates, back up, `pacman -Syu`, snapshot id, `paru -Sua`, manifests, record, `paccache`, rollback | database and packages never come apart; a downgrade path stays; the record's parts belong together |
| **Recovery** `A/services/recovery_service.py` | `downgrade.sh` | `task recover` | the printed commands belong to the record |
| **maintenance-check** `A/tasks/maintenance_check.py` | its reports | reports overdue and failed tasks by severity, notifies, deletes old reports | a task that needs attention is reported and announced; `task status` agrees |
| **health-check** `A/tasks/health_check.py`, `A/utils/hardware.py` | none | seven checks against thresholds | the verdict is the worst reading |
| **failed-services** `A/tasks/failed_services.py` | none | queries systemd twice, filters, inspects unit after unit | a unit that stays failed is reported |
| **Notifications** `A/core/notifications.py` | none | `notify-send`, best effort | never fails a task |
| **Progress, interaction** `A/cli/progress.py`, `A/cli/interaction.py` | live render, the bar's task id | bar, spinner, pause, prompts | no live render over a prompt; nothing takes the bar down |
| **Configuration** `A/config/loader.py`, `A/config/models.py` | `settings.toml`, `tasks.toml`, `ignored-services.toml` | load with fallback per section, create | no file missing after `setup config` |
| **setup** `A/services/setup_service.py` | config files, directories, unit files, enabled timers | write, reload, enable; `--dry-run` | nothing overwritten unasked; no timer under stale units; directories usable |
| **sudo and commands** `A/utils/system.py` | sudo's timestamp | run with time limits, ask for a password | a failure is told from a time-out |
| **Presenters, formatters, logs, debug** | none | rendering | no state |

How they interact: `task run` builds an `AppContext` (`A/cli/context.py`), whose executor loads
`state.json` once, *before* any gate. The executor asks the scheduler whether the task is due, the
user (through `InteractionPort`) whether to run all the same, and `BaseTask.run()` to do the work.
The task hands back a `TaskResult`; the executor turns it into `next_due`, `last_run`, `last_status`
and writes the whole `AppState` back. `system-update` changes the same in-memory `AppState` (time of
the news prompt). `task recover` is a later process that reads the record the task left.

What is hard here:

* **Concurrency between processes.** All timers are `OnCalendar=daily`; each loads and rewrites the
  whole file. Saves truncate and rewrite in place. A prompt holds an old copy for as long as a person
  likes.
* **Failure at every step.** Kills, Ctrl-C (which `except Exception` does not catch), time limits,
  failing `cp`, `pacman`, `reflector`, writes.
* **Long sequences.** What a skip, a failure, a forced run, an edit of `tasks.toml` do to a due date
  only shows several attempts later.
* **Order inside a run.** The snapshot id must be read between pacman and paru, the record be
  written when all of its parts exist, the backup noted before reflector opens the list.

Each is a row of `hazards` in `PROJECT.json`, at its line.

## 2. The modules

    TaskSchedule          the record of a task and the arithmetic on it
     |- TaskHistory       abstract: one record per task, one atomic update per attempt
     `- TaskExecutor      the processes, the file, the gates; implements TaskHistory      (MC, proofs)
         `- DailyTimers              the executor under its timers, day by day            (MC, proofs)
             `- MaintenanceCheck     the checking task among the tasks it watches         (MC, proofs)
    BaseTask              BaseTask.run()                                                  (proofs)
     |- MirrorlistUpdate             the hooks of mirrorlist-update                       (MC, proofs)
     |- SystemUpdate                 the hooks of system-update, task recover             (MC, proofs)
     |- TaskDisplay                  the terminal: bar, pause, spinner, prompts
     |   `- HealthCheck              the hooks of health-check
     |- FailedServices               the hooks of failed-services
     `- TaskRuns                     TaskDisplay, HealthCheck, FailedServices composed    (MC, proofs)
    Setup                 setup config and setup timers                                   (MC, proofs)

Where it says MC, the module `MC...` gives an instance to TLC; where it says proofs, the module
`..._proofs` has the theorems. `BaseTask` uses the outcomes of `TaskSchedule`. The proof modules build on
each other as their modules do.

**TaskSchedule.** `FreshTask`, `Recorded`, `CalculateNextDue` and `IsDue` are
`AppState.get_task_state`, `update_task_state`, `_calculate_next_due` and `get_schedule_info`. Time
is a count of ticks, a frequency a number of ticks.

**TaskExecutor.** A slot `p` of `Procs` is one invocation. `pc[p]` is where `execute_task` is, and
the actions carry the names of the code's functions: `Start` (load the state), `LoadTasks`,
`DisabledGate`/`ConfirmDisabled`, `DueGate`/`ConfirmDue`, `CreateTask`, `TaskReturns` (any result),
`UpdateState`, `Truncate` and `Write` (the two effects of `save_state`: opening with `"w"`, and the
flush at close), `Chown`. `UnknownTask` (no valid `tasks.toml`, or the
task is not in it), `NotRegistered` and `Escape` are the exceptions that leave without a record;
`SaveDenied` is the `PermissionError`. `Crash` is a kill anywhere, `Toggle` an edit of `tasks.toml`
that enables or disables a task; a changed frequency is not modelled. `mem[p]` is the process's `AppState`. The file is `missing`, `empty`, `whole` or
`garbage`; all but `whole` load as a fresh state. `Write` behind another process's write may leave
`garbage`, as a shorter text over a longer one does. `advanced[t]` is a history variable, the time of
the last completed cycle. `pacman`-level detail is absent: the body's result is a choice.

`TaskHistory` is what readers of `state.json` are promised. `HistoryKept` states that the executor
implements it, with `RecordedHistory` as the mapping: the contents of the file, or, between
truncation and flush, the copy that is being written.

**DailyTimers** adds which timers (of the tasks in `Timed`) fired today, starts by boots (the timer
unit `Requires=` its service, so a boot starts it), and by a person. A timer that fires while its unit
runs starts nothing: systemd merges the start into that run (`TimerMerges`; `RunMerges` in
MaintenanceCheck). A day ends when all is quiet and
every timer has fired. A day has `DayLength` ticks and a timer fires at any of them, another one
every day: that is what `RandomizedDelaySec=1h` and `AccuracySec=12h` amount to.

**MaintenanceCheck** makes one of the tasks the checker. `TaskCreated` is its constructor, which loads
`state.json` a second time (`view[p]`); `Findings` is `_check_task` on each record; `CheckResult` turns
the worst severity into the task's own status, which the executor records like any other.
`SendNotification` and then `CheckReturns` (report written, old reports deleted) are `post_execute`;
`CheckRaises` is the same with a report that cannot be written, and drops the issues. `DueTasks` and
`OverdueTasks` are what `task status` lists from the same records. The wording is left out.

**BaseTask** gives one action per way a hook may end (`PreCheckPasses`, `PreCheckFails`,
`ShouldSkip`, `ExecuteReturns`, `HookRaises`, `HookInterrupted`, `RollbackEnds`, `Finally`). The
tasks conjoin their own effects to the same actions; a run of kind `other` in TaskRuns has hooks that do
anything (`AnyHook`).

**TaskDisplay** is `RichProgress` on one terminal: `display` is whether the render is live, `bar`
whether `start()` was called, `bracket` the context manager the hook is inside. `LiveAfter` is the
`finally` of `pause()` (start again, whatever was before) and of a spinner (stop only what it started).
A hook of an update task follows one of its `Scripts`, the order in which the source starts the bar,
pauses, runs sudo commands and asks; it may raise or be interrupted at any step (`HookBreaks`), a
password may be asked for and declined at any sudo command, and sudo's timestamp may expire between
two commands (`Expire`).

**HealthCheck** takes the seven checks in order. A check takes `Readings` (a psutil failure makes all
of its readings `Unknown`, which `Shown` makes zero as the code does), grades them, and adds to
`issues` and `warnings`; the one sudo check is inside a pause and its password may be declined.

**FailedServices** asks systemd in `should_run` and again in `execute` (`Query`), filters by the file as
it is at that moment (`ActualFailures`), and inspects unit after unit (`todo` is the units still to ask about), while `UnitChanges` and
`FileEdited` go on around it. A query that fails returns nothing, one that times out raises.

**TaskRuns** composes them: a run is one task's, on the template and the terminal.

**Setup** has the two commands as step sequences (`config`, `install`) over the configuration files,
the directories and their owners, the unit files and what systemd has loaded of them, and the
enabled timers. `write_text` is two steps. A dry run goes through the same steps and skips the writes
that the code skips. Beside them: `UserEdits`, `UserRuns` (any command of the user, which makes
missing directories or fails on root's), `TimerRuns` (a unit's run, root with `ARCHCARE_USER`, which
hands the log directory over, and the state directory when it records), `SystemReloads`. `ConfigDies` and `InstallDies` are errors, Ctrl-C and
kills.

**MirrorlistUpdate.** A list is who wrote it, whether it has a server line, and its mtime. Backups
are named by the second; `cp -p` keeps the mtime, so names and mtimes disagree, which is what
pruning sorts by. `reflector` opens the list and then fills it or dies. Any step may raise, the second reading of the new list included.

**SystemUpdate.** All repository packages share one version number; `syncDb`, `installed`, `cache`
and `snapshots` hold versions, `self[r]` the attributes of the task object. `pacman` refreshes the
database, then installs all or nothing; the snapshot id, paru, the second manifest and the record may each raise after
it. `Recover` is `task recover`; `Release` is the mirrors moving
on.

Abstractions that hold throughout: messages, paths, sizes, counts and logging are left out; external
programs either do what they promise or fail, at the points where the code can tell; a process reads
or writes one file in one step, except where the code's own order of system calls matters (the two
steps of `save_state`, `write_text` of the record).

## 3. What the runs check

Passing runs. Each property has a mutant of the code that breaks it.

| run | instance | properties |
| --- | --- | --- |
| `TaskExecutorSerial` | one process slot, three tasks (one without an implementation), 3 invocations by timers or a person, 3 instants, 1 edit, 1 kill | `TypeOK`; `TimersWaitTheFrequency`: an unattended, unforced run reaches a body only a recurrence after the last completed cycle; `SaveHeals`: a save makes a damaged file whole; `HistoryKept`: refinement of `TaskHistory`; `UnattendedRunsFinish` |
| `TaskExecutorOverlap` | two slots that overlap, two tasks, 3 invocations by timers or a person, 3 instants, 1 kill | `NextDueWithinFrequency`: no record, on disk or in a process, has a due date more than a recurrence after its last attempt; `ScheduleBackedByWork`: every due date was earned by a completed cycle of that task; `OwnershipReturned`: root never keeps the file, kills apart |
| `DailyTimers` | one daily task, two slots, timers, boots and a person, 5 invocations, 7 instants, two a day | `DailyTypeOK`; `OverdueIsRetriedDaily`: a task past the due date on its record is tried on every following day until a cycle completes, at whichever hour its timer fires |
| `MaintenanceCheck` | the check, a timed task and a manual one, all daily; one slot, 5 invocations, four days, `Warning` 0, `Critical` 1, retention 1 | `CheckTypeOK`; `NeglectReported`: every check raises the alarm for a task whose last completed cycle is too long ago, whatever failed or was skipped since; `NeglectAnnounced`: and notifies of it, also when the report cannot be written; `AlarmsAreTrue`: it raises no other; `StatusAgreesWithCheck`: what it warns of is due in `task status`, what it raises an alarm for is overdue there |
| `TaskRuns` | one run of each kind, two units, two changes of a unit or of the ignore file, readings at and around each threshold | `TypeOK`; `NothingLeftBehind`, `SuccessIsComplete`, `SkipTouchesNothing`; `PromptsOnCleanTerminal`: nothing waits for the user behind a live render; `BarStaysVisible`: from `start()` to the clean-up only a pause takes the bar down; `VerdictFitsReadings`: the verdict is the worst reading; `LastingFailureReported`: a unit failed all along and never ignored is in the report, unless a query of systemd failed |
| `Setup` | three commands, one edit, one default task and one the user adds | `SetupTypeOK`; `ConfigComplete`: a `setup config` that ends leaves no file missing; `EditsSurviveWithoutYes`: what the user wrote, also meanwhile, is overwritten only after a yes; `EnabledUnderLoadedUnits`: no timer is enabled while systemd knows older or torn units; `EnabledUnitsCanStart`: nor before the directories its unit needs exist; `LogsReturned`: root's log directory is handed back |
| `MirrorlistSerial` | three runs in turn, retention 2, 3 seconds | `TypeOK`; `FailureLeavesListAsFound`; `RetentionHolds` |
| `SystemUpdate` | two runs in turn, two releases, one cached version kept, snapshots installed | `TypeOK`; `AbortedTransactionUndone`; `DowngradePathKept`; `RecordHangsTogether` |

Why these bounds are enough to be of use. A due date needs three attempts to go wrong (one that sets
it, one that keeps it, one that reads it), and a recurrence of two ticks has an instant inside it;
two tasks are needed for one record to be overwritten by the save of another; an automated daily task is reported from the
second day past its due date, so four days hold a cycle, two failing days and the alarm; two slots give every
interleaving of a pair, and a third invocation meets what the pair left. For a timer's retry three days and the start of a fourth are enough: one in which a cycle completes, one in which the
timer fires an instant before the due date, one in which it fires again, and the instant at which the property
asks for it. One kill is enough to leave
an empty file before a save, with room to save again. Retention 2 is first exceeded by the third
mirrorlist update. Two system updates let every artifact of one run meet the other, and two releases
let the second find something to do. Runs of `BaseTask.run` share nothing in these modules but the
units and the terminal each has for itself, so one run of each kind is enough for TaskRuns; two
changes let a unit fail and recover between two queries, and two units let one stay failed
meanwhile. Three setup commands give a killed one, one that starts from what it left, and one beside
it. `CHECK_DEADLOCK FALSE` is set because an instance stops when
its invocations are used up. Symmetry is used for slots and runs only, never with a temporal
property.

Fairness. `TaskExecutor`'s `FairSpec` assumes weak fairness of `Step(p)`, what a process does by
itself: the operating system runs it, and a body ends, because each of its commands has a time limit
and the unit has `TimeoutStartSec=30min`. Answers to prompts are in `Answer(p)`, which is not fair:
`UnattendedRunsFinish` therefore says that no path of a timer's run waits for one. The safety
properties assume nothing. `Setup` assumes weak fairness of `TimerRuns` for `LogsReturned`: an enabled
timer has `OnCalendar=daily` and `Persistent=yes`, so its unit is started again and again; `setup_logging`
comes first in it, whatever the task then does.

### Disagreements with the documentation

Four runs end in a counterexample to a sentence of the repository (quoted in `findings`).

* `LostUpdate`. Two timers load the same state; the later save takes the other's attempt off the
  record. The lifecycle page says that `state.json` always reflects the last attempt.
* `OverdueForgotten`. A task that has never completed has no `next_due`; a failure sets `last_run`,
  and from then on `last_run + frequency` counts. The reference says that an overdue task stays
  overdue. Under daily timers every `not_due` skip moves `last_run` again, so no timer retries it.
* `DependencyUnreported`. The maintenance check makes a finding of a due automated task only when its
  last status is a failure. A task skipped with `dependency_failed` is due and unreported until 1.5
  recurrences have passed, and never reported if it has not completed a cycle before, because each
  attempt moves `last_run`. The lifecycle page says that such skips surface as maintenance issues.
* `RollbackAfterUpgrade`. The snapshot id, paru, the second manifest and the recovery record may raise after a
  successful upgrade, and `rollback()` then rewinds the sync database; its docstring says that it runs exactly
  when pacman failed.

Four more configurations are kept beside the runs and are run by hand; each ends in a counterexample
as well.

* `ScriptOutdated.cfg` (MCSystemUpdate). `downgrade.sh` is written once; after another upgrade `task
  recover` prints it next to the new record.
* `DryRunWrites.cfg` (MCSetup). `sudo archcare setup timers --dry-run` makes the configuration, state and
  log directories, as root, before it looks at the option (`executor_for_user`, `setup_logging`); the
  command-line reference says "without touching disk or systemctl".
* `DisabledForgotten.cfg` (MCTaskExecutor). The skip of a disabled task clears `next_due` and `last_run`
  becomes the time of the skip, so the task is a recurrence off when it is enabled again; a comment in
  `_calculate_next_due` expects it to be overdue.
* `SkippedUnasked.cfg` (MCTaskRuns). When the query of `should_run` fails, the task is skipped with "no
  failed services" and the executor counts a completed cycle; the docstring says that it is skipped
  only if no actionable failures remain.

Noted while modelling, with no run kept for them: pruning sorts mirrorlist backups by the mtime that `cp -p` copied, so it can delete a
newer backup than one it keeps, where a comment speaks of the most recent; overlapping saves can leave an unparsable file until
the next save; `rollback()` follows an exception of any hook, not of `execute()` only; two
overlapping mirrorlist updates that both fail can restore a half-written list; an upgrade that raises
before the record is written leaves the previous record; with
`min_repo_updates_threshold = 0` and nothing to upgrade, the recorded snapshot is an older
transaction's; a download that was never installed counts as a version when the cache is pruned;
a measurement that psutil cannot take reads as zero, so a health check without any passes; the
setting `dry_run` ("preview mode for task execution") is read by no task; a task that is disabled
or taken out of `tasks.toml` keeps its enabled timer; a configuration file torn by a kill is an
existing file to every later `setup config`; one invalid section of `tasks.toml` empties the list
of tasks; a daily task whose timer fires a little earlier than the day before is not yet due and
waits a day, so it may run every other day; `days_until <= 7` on a floored difference counts tasks
due in less than eight days; between `exists()` and `write_text` a file that the user creates in those
microseconds is lost (`Setup` joins the two).

## 4. What is proved

Every safety invariant and action property that a passing run checks, and the refinement of
`TaskHistory`, is also a theorem: TLC shows it on the instance of section 3, TLAPS for all values of
the constants, that is for every number of invocations, tasks, runs and units, every recurrence,
setting and bound. The proofs of a component are in the module of its name with `_proofs`. TLC
finds no violation of the inductive invariants below on the instances of section 3 either, except
that it cannot enumerate the paths of a script that `Scripted` in `TaskRuns_proofs` quantifies over, and
needs a bound on the date in `OneDueDate` of `DailyTimers_proofs`.

Only model-checked: `UnattendedRunsFinish` and `LogsReturned`, which are liveness under fairness, out of
the prover's reach. What an overlap breaks is not a theorem but a counterexample (section 3) or a
hypothesis (below).

### Assumptions

The named assumptions of the modules: constants that stand for names are distinct from the values they
are compared with (`NoneAssumption`, `NoneIsNoName`, `NoneIsNoOutcome`, `NoneIsNoRun`, `NoneIsNoList`,
`NoneIsNoScript`, `NamesAssumption`, `NamesAreNoUnits`, `NamesAreNoRecords`, `UnknownAssumption`); bounds,
thresholds and retentions are numbers as the validators of `A/config/models.py` leave them
(`FreqAssumption`, `SettingsAssumption`, `RetentionAssumption`, `PercentAssumption`, ...); sets of tasks
are what they are called (`TimedAssumption`, `CheckerAssumption`, ...). TLC evaluates each on a run.

Some theorems have a hypothesis more, in their `ASSUME`:

| hypothesis | theorems | why it is needed |
| --- | --- | --- |
| `OneAtATime`: at most one slot, so invocations do not overlap | `SerialAlways`, `SavesHeal`, `ImplementsHistory`, `TimersWait`, `StatusAgrees`, `AlarmsTrue` | an overlapping save takes a record back (`LostUpdate`) |
| `"sudo" \notin Modes`: nobody runs a task under sudo by hand | `FileComesBack`, `TimersWait`, `AlarmsTrue` | root without `ARCHCARE_USER` keeps the file it makes, and a later run of the user is then denied its save |
| `Threshold > 0` | `RecordsHangTogether` | with `min_repo_updates_threshold = 0`, which the settings allow, a run that upgrades nothing records one manifest twice |

What the models fix is an assumption of another kind: in `DailyTimers` and `MaintenanceCheck` what overlaps
does so within one tick of the clock, nothing is killed and tasks.toml is not edited; in
`MirrorlistUpdate` and `SystemUpdate` one run follows another.

### The arguments

**TaskExecutor.** `DueWithinFrequency` and `DueDatesEarned` are not inductive. A preserved `next_due` is
compared with a `last_run` and a completion time that move to *now*; it stays within a recurrence of
them only if the old ones were not in the future. And a process may write a copy that it loaded long
ago. `IInv` therefore asks of *every* copy of every record (`SoundFile`, `SoundMemory`) that its attempt
lies in the past, that its due date is within a recurrence of it and of the last completed cycle, and
of the completions (`SoundClock`) that they lie in the past. `SoundnessKept` shows that a sound record
stays sound while clock and completions move forward; `QuietStep` that moving copies between file and
memory, or dropping them, changes nothing; `UpdateKeeps` is the one step that makes a new record, with a
case for each row of `_calculate_next_due`. So lost updates cannot do this damage: they can only bring an
older, sound record back.

`FileComesBack` is inductive as it stands: root can become the owner only where `Truncate` makes the file, and
the process that did so has `write` and `chown` ahead, which no other process can take from it.
`TimersAreNeverAsked` is the invariant part of `UnattendedRunsFinish`: whoever is not interactive is decided
by the gates without a prompt.

Without overlap, `SerialInv` ties a process to the file: up to its update it holds what the file holds, at
`save` one attempt more (`OneAhead`), between truncation and flush the file is empty, after it whole.
`SavesHeal` is its last part. `ImplementsHistory` goes through the disjuncts of `Next`: `Truncate` is where
the attempt of `TaskHistory` happens (`TruncateRecords`), a crash between truncation and flush is its loss of
the file (`CrashLoses`), everything else stutters (`QuietHistory`). `TimersWait` adds `TimerInv`: file and
memory `Knows` of each task's last completed cycle, that is they send its effective due date a recurrence
past it, and a timer's run past the gates has been `Allowed` by such a record. `RecordedKnows` has
the cases of `_calculate_next_due`: a completed cycle, a preserved due date, a cleared one.

**DailyTimers.** `DailyRefines` makes every theorem of the executor one of its timers' days. For
`OverdueRetried`, a timer that fires and finds its task not due must not hide an overdue copy that another
process writes afterwards. `DailyInv` says why it cannot: until a task is worked on in a tick, no two
copies of its record disagree about the due date (`OneDueDate`), since only a body's end sets one and
bodies end in the tick in which they start (`AtWork`). A task is `Handled` today if its timer has fired or an
unattended run of it is in flight (which a firing timer is merged into): then every overdue copy is
answered, or that run is on its way to a body (`TriedToday`), and at midnight, when nothing is in flight,
today becomes yesterday.

**MaintenanceCheck.** A check reads its records when it is created and reports after others have
gone on. `CheckInv` keeps what it knows: a view whose records are sound in the sense of `IInv`, issues that
are the findings of this view, a severity that is the worst of them. Soundness is the point: a sound
record cannot carry a due date later than a recurrence after the last cycle, however old the copy is, so
neglect shows in every view (`NeglectIsCritical`), with any number of processes. In the other direction
old copies do mislead, so `AlarmsTrue` and `StatusAgrees` need `OneAtATime`: then the view is the file until the
result is recorded (`Current`), and `TimerInv` says that the file knows of every completed cycle.

**TaskRuns.** `BaseTask_proofs` proves about `run()` alone, for any hooks, which hooks were called at each
stage, what the result may be, and that the clean-up is total (`TemplatePromises`); the task modules
use it. The health check's readings, issues and warnings are at each of the seven
checks those graded so far (`HealthInv`); the verdict is then a matter of which sets are empty. A lasting
failure is in whatever the run holds at that moment: the units found, then those still to ask about with those
already described, then the report (`ServicesInv`). For the terminal a script needs a meaning: `Path(l, s, m)` says that script `s`
leads from the screen `l` to the screen `m` with every step `Allowed`: brackets do not nest, and what may
ask is on a clear screen unless sudo is sure not to. `ScriptHasPath` is proved for every script of the
source, `Scripted` says that what is left of a hook's script has a path from the screen as it is, and each
step of the terminal moves one label along it.

**Setup.** `ConfigProgress` counts the files seen to, `InstallProgress` the templates written and loaded before
the step under way, `DirectoriesMade` that `Bootstrap` comes before everything else. The two action properties
follow from them step by step: only `EnableTimer` changes the timers, only a forced config truncates an edited file.

**MirrorlistUpdate.** `Progress` follows the list through `execute()`: untouched until the backup, then the list as
found is in the backup that the run remembers, so that `rollback()` restores it from wherever reflector died.
`StaleGone` counts the backups that pruning leaves, with the library's theorems on finite sets.

**SystemUpdate.** `Progress` says at each step what the task object remembers of the system as found; `Aftermath`
what is true while a run ends; `CacheKept` that pruning comes last. `RecordFits` is about a record of an
*earlier* run: its artifacts stay in step because every later run backs up under its own name and snapshots are
only appended (`RecordKeeps`, `SnapshotsStay`).

## 5. Plan

Modules still to write, of less weight than what is there: overlap of two system updates, and of two
mirrorlist updates, which no property of theirs survives (see above); the choice of the desktop session
for notifications.

Theorems still worth proving: which of the serial results survive overlap in a weaker form (a due date may be
taken back, but only to one that a process held when it loaded the file), and the safety half of `LogsReturned`
(no step after a timer's run gives the log directory to root while the user's directories exist).

## 6. Not modelled

* Parsing, formatting, presenters, logs, debug reports: they keep no state.
* The rest of the scheduler's lists: sorting, and the count of upcoming tasks, are lines of output.
* Validation of single fields of the settings, and the fallback of `load_settings` section by section:
  pure functions of one value or one file, which unit tests reach. What the validators guarantee and a
  model relies on is an assumption of its module (`SettingsValid`).
* `save_tasks`, `save_settings` and `save_ignored_services`: no command calls them.
* Which session bus a notification goes to, and its wording: best effort, it changes nothing in archcare.
* The inside of pacman, paru, reflector, snapper, systemd, sudo, psutil and the file system beyond what
  the code relies on; the unit's resource limits.
* Rotation of log files and the owner of single ones.
