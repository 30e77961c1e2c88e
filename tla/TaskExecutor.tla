---------------------------- MODULE TaskExecutor ----------------------------
(***************************************************************************)
(* `archcare task run`: every invocation is a process of its own that      *)
(* loads the whole of state.json when it starts, decides through the       *)
(* disabled and due gates whether the task's body runs, and writes the     *)
(* whole of its copy back when the attempt is over                         *)
(* (src/archcare/core/executor.py, config/loader.py, config/user.py,       *)
(* cli/context.py).  Nothing locks the file: timers, which run as root for *)
(* the user, and shells of the user interleave freely, and an invocation   *)
(* may be killed at any point.                                             *)
(*                                                                         *)
(* The task's body is a nondeterministic outcome here; its inside is the   *)
(* subject of the modules of the single tasks.                             *)
(***************************************************************************)
EXTENDS TaskSchedule, FiniteSets

CONSTANTS
  Procs,        \* slots for invocations; two slots let two overlap
  Tasks,        \* the names in tasks.toml
  Registered,   \* the tasks that have an implementation
  Freq,         \* recurrence of each task, in ticks
  Modes,        \* who invokes: a subset of {"timer", "user", "sudo"}
  BodyOutcomes, \* how a body may end
  MaxTime, MaxRuns, MaxCrashes, MaxEdits   \* bounds of the model

ASSUME RegisteredAssumption == Registered \subseteq Tasks
ASSUME FreqAssumption == Freq \in [Tasks -> Nat \ {0}]
ASSUME ModesAssumption == Modes \subseteq {"timer", "user", "sudo"}
ASSUME BodyAssumption == BodyOutcomes \subseteq Outcomes
ASSUME NoneIsNoName == None \notin Tasks \cup Modes
ASSUME BoundsAssumption == {MaxTime, MaxRuns, MaxCrashes, MaxEdits} \subseteq Nat

VARIABLES
  now,          \* the clock
  enabled,      \* tasks.toml: is the task enabled
  fileKind,     \* state.json: "missing", "empty", "whole" or "garbage"
  fileTasks,    \* its records when it is whole
  owner,        \* who owns the file
  pc,           \* where an invocation is
  job,          \* its arguments and who runs it
  mem,          \* the AppState it loaded
  result,       \* the result its attempt ended with
  advanced,     \* history: when a cycle of the task was last completed
  starts, crashes, edits   \* how much of each bound is used

file == <<fileKind, fileTasks, owner>>
budget == <<starts, crashes, edits>>
vars == <<now, enabled, file, pc, job, mem, result, advanced, budget>>

----------------------------------------------------------------------------
(* Values.                                                                 *)

PCs == {"idle", "loaded", "disabled", "confirm_disabled", "due",
        "confirm_due", "create", "running", "update", "save", "write",
        "chown"}

Jobs == [task : Tasks, mode : Modes, force : BOOLEAN]

NoJob == [task |-> None, mode |-> None, force |-> FALSE]

Fresh == [t \in Tasks |-> FreshTask]

\* ARCHCARE_USER is set by the service unit only.
Interactive(p) == job[p].mode # "timer"

IsRoot(p) == job[p].mode \in {"timer", "sudo"}

\* load_state: a missing, empty or corrupt file yields a fresh AppState.
LoadedState == IF fileKind = "whole" THEN fileTasks ELSE Fresh

TypeOK ==
  /\ now \in Nat
  /\ enabled \in [Tasks -> BOOLEAN]
  /\ fileKind \in {"missing", "empty", "whole", "garbage"}
  /\ fileTasks \in [Tasks -> TaskStates]
  /\ owner \in {"user", "root"}
  /\ pc \in [Procs -> PCs]
  /\ job \in [Procs -> Jobs \cup {NoJob}]
  /\ \A p \in Procs : pc[p] # "idle" => job[p] \in Jobs
  /\ mem \in [Procs -> [Tasks -> TaskStates]]
  /\ result \in [Procs -> Outcomes \cup {None}]
  /\ \A p \in Procs : pc[p] = "update" => result[p] \in Outcomes
  /\ advanced \in [Tasks -> Nat \cup {None}]
  /\ starts \in Nat /\ crashes \in Nat /\ edits \in Nat

\* A first installation, or one whose state file was damaged.
Init ==
  /\ now = 0
  /\ enabled = [t \in Tasks |-> TRUE]
  /\ fileKind \in {"missing", "garbage"}
  /\ fileTasks = Fresh
  /\ owner = "user"
  /\ pc = [p \in Procs |-> "idle"]
  /\ job = [p \in Procs |-> NoJob]
  /\ mem = [p \in Procs |-> Fresh]
  /\ result = [p \in Procs |-> None]
  /\ advanced = [t \in Tasks |-> None]
  /\ starts = 0 /\ crashes = 0 /\ edits = 0

----------------------------------------------------------------------------
(* Steps of an invocation.                                                 *)

Goto(p, from, to) == pc[p] = from /\ pc' = [pc EXCEPT ![p] = to]

\* The process is gone: nothing of its memory is left.
Exit(p) ==
  /\ pc' = [pc EXCEPT ![p] = "idle"]
  /\ job' = [job EXCEPT ![p] = NoJob]
  /\ mem' = [mem EXCEPT ![p] = Fresh]
  /\ result' = [result EXCEPT ![p] = None]

\* The attempt is decided: execute_task hands r to _update_state.
Decide(p, from, r) ==
  /\ Goto(p, from, "update")
  /\ result' = [result EXCEPT ![p] = r]
  /\ UNCHANGED <<now, enabled, file, job, mem, advanced, budget>>

Move(p, from, to) ==
  /\ Goto(p, from, to)
  /\ UNCHANGED <<now, enabled, file, job, mem, result, advanced, budget>>

\* AppContext.executor: the state is read here, before any gate.  The
\* service unit passes no --force, and systemd runs one of each at a time.
Start(p, t, mode, force) ==
  /\ starts < MaxRuns
  /\ mode = "timer" =>
       ~force /\ \A q \in Procs : job[q].mode = "timer" => job[q].task # t
  /\ Goto(p, "idle", "loaded")
  /\ job' = [job EXCEPT ![p] = [task |-> t, mode |-> mode, force |-> force]]
  /\ mem' = [mem EXCEPT ![p] = LoadedState]
  /\ starts' = starts + 1
  /\ UNCHANGED <<now, enabled, file, result, advanced, crashes, edits>>

\* execute_task reads tasks.toml and chooses the first gate.
LoadTasks(p) ==
  Move(p, "loaded", IF job[p].force THEN "create"
                    ELSE IF enabled[job[p].task] THEN "due"
                    ELSE "disabled")

\* UnknownTaskError: there is no tasks.toml, it is not valid, or the task is
\* not in it.  Nothing is recorded.
UnknownTask(p) ==
  /\ pc[p] = "loaded"
  /\ Exit(p)
  /\ UNCHANGED <<now, enabled, file, advanced, budget>>

\* Mutant of DisabledGate: everybody is asked.
AlwaysAsk(p) ==
  /\ job[p].task \in Registered
  /\ Move(p, "disabled", "confirm_disabled")

\* _handle_disabled_task: a timer skips, a person is asked.
DisabledGate(p) ==
  /\ job[p].task \in Registered
  /\ IF Interactive(p) THEN Move(p, "disabled", "confirm_disabled")
     ELSE Decide(p, "disabled", Skipped("disabled"))

ConfirmDisabled(p) ==
  \/ Move(p, "confirm_disabled", "due")
  \/ Decide(p, "confirm_disabled", Skipped("user_cancelled"))

TaskIsDue(p) == LET t == job[p].task IN IsDue(mem[p][t], Freq[t], now)

\* _handle_due_task, against the state loaded at the start.
DueGate(p) ==
  /\ pc[p] = "due"
  /\ \/ TaskIsDue(p) /\ Move(p, "due", "create")
     \/ /\ ~TaskIsDue(p) /\ job[p].task \in Registered
        /\ IF Interactive(p) THEN Move(p, "due", "confirm_due")
           ELSE Decide(p, "due", Skipped("not_due"))

ConfirmDue(p) ==
  \/ Move(p, "confirm_due", "create")
  \/ Decide(p, "confirm_due", Skipped("user_cancelled"))

\* _create_task, then task.run() is on its way.
CreateTask(p) ==
  /\ job[p].task \in Registered
  /\ Move(p, "create", "running")

\* TaskNotRegisteredError leaves execute_task before any _update_state.
NotRegistered(p) ==
  /\ \/ pc[p] \in {"disabled", "create"}
     \/ pc[p] = "due" /\ ~TaskIsDue(p)
  /\ job[p].task \notin Registered
  /\ Exit(p)
  /\ UNCHANGED <<now, enabled, file, advanced, budget>>

\* typer.Abort at a prompt, or an exception run() does not turn into a
\* result: the attempt is not recorded.
Escape(p) ==
  /\ pc[p] \in {"confirm_disabled", "confirm_due", "running"}
  /\ Exit(p)
  /\ UNCHANGED <<now, enabled, file, advanced, budget>>

\* Mutant of TaskReturns: a path of run() without a return.
ReturnsNothing(p) == Decide(p, "running", None)

TaskReturns(p) == \E r \in BodyOutcomes : Decide(p, "running", r)

\* Mutant of UpdateState: the gate has recorded the attempt already.
UpdateTwice(p) ==
  LET t == job[p].task
      once == Recorded(mem[p][t], result[p], Freq[t], now) IN
  /\ Goto(p, "update", "save")
  /\ mem' = [mem EXCEPT ![p][t] = Recorded(once, result[p], Freq[t], now)]
  /\ UNCHANGED <<now, enabled, file, job, result, advanced, budget>>

\* _update_state up to save_state: next_due and the record, in memory.
UpdateState(p) ==
  LET t == job[p].task IN
  /\ Goto(p, "update", "save")
  /\ mem' = [mem EXCEPT ![p][t] = Recorded(@, result[p], Freq[t], now)]
  /\ advanced' = IF Advances(result[p]) THEN [advanced EXCEPT ![t] = now]
                 ELSE advanced
  /\ UNCHANGED <<now, enabled, file, job, result, budget>>

MayWrite(p) == fileKind = "missing" \/ IsRoot(p) \/ owner = "user"

\* Mutant of Truncate: the file is opened to append.
OpenToAppend(p) ==
  /\ MayWrite(p)
  /\ Goto(p, "save", "write")
  /\ fileKind' = IF fileKind = "missing" THEN "empty" ELSE fileKind
  /\ owner' = IF fileKind = "missing" /\ IsRoot(p) THEN "root" ELSE owner
  /\ UNCHANGED <<now, enabled, fileTasks, job, mem, result, advanced, budget>>

\* save_state, open(..., "w"): the old contents are gone; a file that did
\* not exist belongs to its creator.
Truncate(p) ==
  /\ MayWrite(p)
  /\ Goto(p, "save", "write")
  /\ fileKind' = "empty"
  /\ fileTasks' = Fresh
  /\ owner' = IF fileKind # "missing" THEN owner
              ELSE IF IsRoot(p) THEN "root" ELSE "user"
  /\ UNCHANGED <<now, enabled, job, mem, result, advanced, budget>>

\* PermissionError from open(): the attempt is lost.
SaveDenied(p) ==
  /\ pc[p] = "save" /\ ~MayWrite(p)
  /\ Exit(p)
  /\ UNCHANGED <<now, enabled, file, advanced, budget>>

\* save_state, the flush at close, from offset 0 of whatever is there: if
\* another process wrote since our truncation, a longer text leaves its
\* tail behind ours.
Write(p) ==
  /\ Goto(p, "write", "chown")
  /\ \/ fileKind' = "whole" /\ fileTasks' = mem[p]
     \/ /\ fileKind \in {"whole", "garbage"}
        /\ fileKind' = "garbage" /\ fileTasks' = Fresh
  /\ UNCHANGED <<now, enabled, owner, job, mem, result, advanced, budget>>

\* Mutant of Chown: save_state does not hand the file over.
NoChown(p) ==
  /\ pc[p] = "chown"
  /\ Exit(p)
  /\ UNCHANGED <<now, enabled, file, advanced, budget>>

\* chown_if_root acts for a timer only (root and ARCHCARE_USER set); then
\* execute_task returns.  The directory of the file, which is handed over as
\* well, is a variable of Setup.
Chown(p) ==
  /\ pc[p] = "chown"
  /\ owner' = IF IsRoot(p) /\ ~Interactive(p) THEN "user" ELSE owner
  /\ Exit(p)
  /\ UNCHANGED <<now, enabled, fileKind, fileTasks, advanced, budget>>

----------------------------------------------------------------------------
(* The surroundings.                                                       *)

\* SIGKILL, a unit's time limit, Ctrl-C, a power cut.
Crash(p) ==
  /\ crashes < MaxCrashes
  /\ pc[p] # "idle"
  /\ Exit(p)
  /\ crashes' = crashes + 1
  /\ UNCHANGED <<now, enabled, file, advanced, starts, edits>>

\* The user enables or disables a task in tasks.toml; a recurrence does not
\* change.
Toggle(t) ==
  /\ edits < MaxEdits
  /\ enabled' = [enabled EXCEPT ![t] = ~@]
  /\ edits' = edits + 1
  /\ UNCHANGED <<now, file, pc, job, mem, result, advanced, starts, crashes>>

Tick ==
  /\ now < MaxTime
  /\ now' = now + 1
  /\ UNCHANGED <<enabled, file, pc, job, mem, result, advanced, budget>>

Begin(p) == \E t \in Tasks, mode \in Modes, force \in BOOLEAN :
              Start(p, t, mode, force)

\* What an invocation does by itself, without waiting for a person.
Step(p) ==
  \/ LoadTasks(p) \/ UnknownTask(p)
  \/ DisabledGate(p) \/ DueGate(p) \/ CreateTask(p)
  \/ NotRegistered(p) \/ TaskReturns(p) \/ UpdateState(p)
  \/ Truncate(p) \/ SaveDenied(p) \/ Write(p) \/ Chown(p)

Answer(p) == ConfirmDisabled(p) \/ ConfirmDue(p) \/ Escape(p)

Next ==
  \/ \E p \in Procs : Begin(p) \/ Step(p) \/ Answer(p) \/ Crash(p)
  \/ \E t \in Tasks : Toggle(t)
  \/ Tick

Spec == Init /\ [][Next]_vars

\* The operating system runs every process; nobody promises that a person
\* answers a prompt.
FairSpec == Spec /\ \A p \in Procs : WF_vars(Step(p))

----------------------------------------------------------------------------
(* Properties.                                                             *)

Copies(t) == {fileTasks[t]} \cup {mem[p][t] : p \in Procs}

WithinFrequency(t, s) ==
  s.next_due # None => /\ s.last_run # None
                       /\ s.next_due <= s.last_run + Freq[t]

\* However invocations overlap, die and overwrite each other, no record, on
\* disk or in a process, puts a task's due date further away than one
\* recurrence after its last attempt: preserved dates never slide past it.
NextDueWithinFrequency ==
  \A t \in Tasks : \A s \in Copies(t) : WithinFrequency(t, s)

BackedByWork(t, s) ==
  s.next_due # None => /\ advanced[t] # None
                       /\ s.next_due <= advanced[t] + Freq[t]

\* A due date on record is never ahead of what the last completed cycle of
\* that task earned: a skipped, failed, killed or overwritten attempt of
\* anybody cannot make a task look serviced.
ScheduleBackedByWork ==
  \A t \in Tasks : \A s \in Copies(t) : BackedByWork(t, s)

\* While invocations do not overlap and none is killed, an unattended,
\* unforced run reaches a task's body only when a whole recurrence has
\* passed since the task's last completed cycle, whatever skips, failures,
\* forced runs and edits of tasks.toml came between.
TimersWaitTheFrequency ==
  \A p \in Procs :
    LET t == job[p].task IN
    pc[p] = "running" /\ ~Interactive(p) /\ advanced[t] # None /\ crashes = 0
      => now >= advanced[t] + Freq[t]

\* A save that nobody overlaps leaves the file whole and equal to the
\* process's state, in whatever condition an earlier crash left it.
SaveHeals ==
  \A p \in Procs : pc[p] = "chown" => fileKind = "whole" /\ fileTasks = mem[p]

\* A timer's run, which is root, never keeps the user's state file: unless a
\* run was killed, whenever root owns it, a run that is about to hand it over
\* is still in flight.
OwnershipReturned ==
  owner = "root" /\ crashes = 0
    => \E p \in Procs : IsRoot(p) /\ pc[p] \in {"write", "chown"}

\* An unattended run ends: no path of it waits for an answer.
UnattendedRunsFinish ==
  \A p \in Procs : (pc[p] # "idle" /\ ~Interactive(p)) ~> pc[p] = "idle"

\* The history that state.json stands for: between the truncation and the
\* flush the attempt being saved counts as recorded.
RecordedHistory ==
  IF \E p \in Procs : fileKind = "empty" /\ pc[p] = "write"
    THEN mem[CHOOSE p \in Procs : pc[p] = "write"]
    ELSE LoadedState

History == INSTANCE TaskHistory WITH history <- RecordedHistory,
                                     kills <- crashes

\* Invocations that do not overlap implement the abstract history: each
\* recorded attempt changes its own task's record only, as one step, and
\* only the step that kills a save may cost the history.
HistoryKept == History!Spec

----------------------------------------------------------------------------
(* What the documentation says and the code does not do.                   *)

Quiet == \A p \in Procs : pc[p] = "idle"

\* docs/architecture/task-lifecycle.md: "Every exit path ... passes through
\* _update_state ... so state.json always reflects the last attempt
\* regardless of outcome".
LastAttemptOnRecord ==
  Quiet /\ fileKind = "whole" =>
    \A t \in Tasks : advanced[t] # None =>
      fileTasks[t].last_run # None /\ fileTasks[t].last_run >= advanced[t]

\* src/archcare/core/executor.py, _calculate_next_due: "Disabled task last run
\* isn't cleared so it would be considered overdue when enabled again".  Stated
\* for a task whose recurrence is over since its last completed cycle.
ReenabledIsOverdue ==
  Quiet /\ fileKind = "whole" =>
    \A t \in Tasks :
      /\ enabled[t] /\ fileTasks[t].skip_reason = "disabled"
      /\ advanced[t] # None /\ now >= advanced[t] + Freq[t]
      => IsDue(fileTasks[t], Freq[t], now)

\* docs/reference/configuration-files.md: "on a skip or failure it is
\* preserved, so an overdue task stays overdue".
OverdueStaysOverdue ==
  [][\A p \in Procs, t \in Tasks :
       /\ pc[p] = "update" /\ UpdateState(p) /\ t = job[p].task
       /\ ~Advances(result[p])
       /\ IsDue(mem[p][t], Freq[t], now)
       => IsDue(mem'[p][t], Freq[t], now)]_vars
=============================================================================
