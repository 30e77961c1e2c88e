---------------------------- MODULE TaskSchedule ----------------------------
(***************************************************************************)
(* The per-task record kept in state.json and the arithmetic on it: what   *)
(* the scheduler reads from a record (src/archcare/core/scheduler.py),     *)
(* what the executor computes from a result (src/archcare/core/executor.py *)
(* _calculate_next_due) and how a finished attempt is written into the     *)
(* record (src/archcare/config/models.py AppState.update_task_state).      *)
(*                                                                         *)
(* Time is a natural number of ticks.  A frequency is given to the         *)
(* operators below as a number of ticks (Python's                          *)
(* timedelta(days=frequency)).                                             *)
(***************************************************************************)
EXTENDS Integers

CONSTANT None  \* Python's None

ASSUME NoneAssumption == None \notin Nat

----------------------------------------------------------------------------
(* Outcomes.                                                               *)

Statuses == {"success", "partial", "failure", "skipped"}

SkipReasons == {"no_work_needed", "disabled", "dependency_failed",
                "user_cancelled", "not_due", "mirrorlist_stale",
                "reboot_required"}

Skipped(reason) == [status |-> "skipped", skip_reason |-> reason]

Ended(status) == [status |-> status, skip_reason |-> None]

\* Every TaskResult, as far as the schedule can tell one from another.
Outcomes == {Ended(s) : s \in Statuses \ {"skipped"}}
              \cup {Skipped(r) : r \in SkipReasons}

\* The outcomes that count as a completed cycle: the next due date moves on.
Advances(r) == \/ r.status \in {"success", "partial"}
               \/ r.status = "skipped" /\ r.skip_reason = "no_work_needed"

----------------------------------------------------------------------------
(* The record of one task.  A task that has no key in state.json is read   *)
(* as a fresh record (AppState.get_task_state inserts one).                *)

TaskStates == [last_run    : Nat \cup {None},
               last_status : Statuses \cup {None},
               next_due    : Nat \cup {None},
               run_count   : Nat,
               skip_reason : SkipReasons \cup {None}]

FreshTask == [last_run    |-> None,
              last_status |-> None,
              next_due    |-> None,
              run_count   |-> 0,
              skip_reason |-> None]

\* Mutants of CalculateNextDue: every attempt but a disabled one moves the
\* date; a completed cycle moves it from the old date instead of from now.
EveryAttemptMoves(state, r, delta, now) ==
  IF r.skip_reason = "disabled" THEN None ELSE now + delta

MovesFromOldDate(state, r, delta, now) ==
  IF Advances(r)
    THEN (IF state.next_due = None THEN now ELSE state.next_due) + delta
  ELSE IF r.skip_reason = "disabled" THEN None
  ELSE state.next_due

\* _calculate_next_due: a completed cycle moves the due date, a disabled
\* task loses it, everything else keeps the stored value (None included).
CalculateNextDue(state, r, delta, now) ==
  IF Advances(r) THEN now + delta
  ELSE IF r.skip_reason = "disabled" THEN None
  ELSE state.next_due

\* update_task_state: every field is overwritten whatever the outcome,
\* last_run and run_count included.
UpdateTaskState(state, r, due, now) ==
  [last_run    |-> now,
   last_status |-> r.status,
   next_due    |-> due,
   run_count   |-> state.run_count + 1,
   skip_reason |-> r.skip_reason]

\* One attempt that ended with r at time now.
Recorded(state, r, delta, now) ==
  UpdateTaskState(state, r, CalculateNextDue(state, r, delta, now), now)

----------------------------------------------------------------------------
(* What the scheduler reads: get_schedule_info.                            *)

\* Mutant of EffectiveDue: the stored date is ignored.
DueFromLastRun(state, delta) == state.last_run + delta

EffectiveDue(state, delta) ==
  IF state.next_due # None THEN state.next_due ELSE state.last_run + delta

NeverRun(state) == state.last_run = None

\* Mutants of IsDue: a tick early; not yet at the due date itself.
DueEarly(state, delta, now) ==
  ~NeverRun(state) => EffectiveDue(state, delta) <= now + 1

DueLate(state, delta, now) ==
  ~NeverRun(state) => EffectiveDue(state, delta) < now

IsDue(state, delta, now) ==
  ~NeverRun(state) => EffectiveDue(state, delta) <= now

=============================================================================
