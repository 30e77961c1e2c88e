------------------------------ MODULE BaseTask ------------------------------
(***************************************************************************)
(* BaseTask.run, the template every maintenance task runs through          *)
(* (src/archcare/core/base_task.py): pre_check, should_run, execute and    *)
(* post_execute in order, rollback when any of them raises, and a finally  *)
(* clause that removes the task's log handler and stops the progress       *)
(* display.                                                                *)
(*                                                                         *)
(* What the hooks do is left open: each returns, raises, or is interrupted *)
(* by a KeyboardInterrupt, which `except Exception` does not catch.        *)
(* Modules of concrete tasks add their own effects to these actions.       *)
(***************************************************************************)
EXTENDS TaskSchedule

CONSTANT Runs   \* runs in flight or to come, each in a process of its own

ASSUME NoneIsNoOutcome == None \notin Outcomes

VARIABLES
  stage,    \* what run() is doing
  handler,  \* is the task's log handler installed
  display,  \* does the progress display show something
  result,   \* the TaskResult run() is about to return, None before
  hooks     \* history: how each hook of the run ended

runVars == <<stage, handler, display, result, hooks>>

Hooks == {"pre_check", "should_run", "execute", "post_execute", "rollback"}

Stages == Hooks \cup {"start", "finally", "returned", "escaped"}

Endings == {"not_called", "returned", "raised", "interrupted"}

Over(r) == stage[r] \in {"returned", "escaped"}

RunTypeOK ==
  /\ stage \in [Runs -> Stages]
  /\ handler \in [Runs -> BOOLEAN]
  /\ display \in [Runs -> BOOLEAN]
  /\ result \in [Runs -> Outcomes \cup {None}]
  /\ hooks \in [Runs -> [Hooks -> Endings]]

NoHooks == [h \in Hooks |-> "not_called"]

RunInit ==
  /\ stage = [r \in Runs |-> "start"]
  /\ handler = [r \in Runs |-> FALSE]
  /\ display = [r \in Runs |-> FALSE]
  /\ result = [r \in Runs |-> None]
  /\ hooks = [r \in Runs |-> NoHooks]

----------------------------------------------------------------------------
(* set_start_time and setup_task_logging, both before the try.             *)

LoggingReady(r) ==
  /\ stage[r] = "start"
  /\ handler' = [handler EXCEPT ![r] = TRUE]
  /\ stage' = [stage EXCEPT ![r] = "pre_check"]
  /\ UNCHANGED <<display, result, hooks>>

\* An OSError before or, from the chown, after the handler was added.
LoggingFails(r) ==
  /\ stage[r] = "start"
  /\ \E added \in BOOLEAN : handler' = [handler EXCEPT ![r] = added]
  /\ stage' = [stage EXCEPT ![r] = "escaped"]
  /\ UNCHANGED <<display, result, hooks>>

----------------------------------------------------------------------------
(* The hooks.                                                              *)

\* report_progress and spinners put the display up while a hook works.
Showing(r) == \E on \in BOOLEAN : display' = [display EXCEPT ![r] = on]

\* Hook h of run r ends in the given way and run() goes on at next.
Ends(r, h, ending, next) ==
  /\ stage[r] = h
  /\ stage' = [stage EXCEPT ![r] = next]
  /\ hooks' = [hooks EXCEPT ![r][h] = ending]
  /\ UNCHANGED handler

\* A hook that lets the pipeline go on.
HookPasses(r, h, next) == Ends(r, h, "returned", next) /\ UNCHANGED result

\* A hook that makes run() return res.
HookReturns(r, h, next, res) ==
  Ends(r, h, "returned", next) /\ result' = [result EXCEPT ![r] = res]

PreCheckPasses(r) == HookPasses(r, "pre_check", "should_run")

\* Mutant of PreCheckFails: the skip has no reason.
SkipUnexplained(r) ==
  HookReturns(r, "pre_check", "finally", Ended("skipped"))

PreCheckFails(r) ==
  HookReturns(r, "pre_check", "finally", Skipped("dependency_failed"))

ShouldRun(r) == HookPasses(r, "should_run", "execute")

\* Mutant of ShouldSkip: post_execute runs for a skipped task as well.
SkipThenPost(r, reason) ==
  HookReturns(r, "should_run", "post_execute", Skipped(reason))

ShouldSkip(r, reason) ==
  HookReturns(r, "should_run", "finally", Skipped(reason))

ExecuteReturns(r, res) == HookReturns(r, "execute", "post_execute", res)

PostExecuteReturns(r) == HookPasses(r, "post_execute", "finally")

\* except Exception: whichever hook raised, rollback follows.
HookRaises(r, h) ==
  /\ h # "rollback"
  /\ Ends(r, h, "raised", "rollback")
  /\ UNCHANGED result

\* Mutant of RollbackEnds: the result of execute survives the rollback.
RollbackKeepsResult(r) ==
  /\ \E ending \in {"returned", "raised"} : Ends(r, "rollback", ending, "finally")
  /\ UNCHANGED result

\* A rollback that raises is only logged.
RollbackEnds(r) ==
  /\ \E ending \in {"returned", "raised"} : Ends(r, "rollback", ending, "finally")
  /\ result' = [result EXCEPT ![r] = Ended("failure")]

\* Ctrl-C: no except clause matches, the finally clause still runs.
HookInterrupted(r, h) ==
  /\ Ends(r, h, "interrupted", "finally")
  /\ result' = [result EXCEPT ![r] = None]

----------------------------------------------------------------------------
(* finally: remove the handler, stop the display; then return or let the   *)
(* interrupt go on.                                                        *)

\* Mutant of Finally: the clean-up is an ordinary statement, which an
\* interrupt skips.
CleanUpUnlessInterrupted(r) ==
  LET gone == result[r] = None IN
  /\ stage[r] = "finally"
  /\ handler' = [handler EXCEPT ![r] = gone /\ @]
  /\ display' = [display EXCEPT ![r] = gone /\ @]
  /\ stage' = [stage EXCEPT ![r] = IF gone THEN "escaped" ELSE "returned"]
  /\ UNCHANGED <<result, hooks>>

Finally(r) ==
  /\ stage[r] = "finally"
  /\ handler' = [handler EXCEPT ![r] = FALSE]
  /\ display' = [display EXCEPT ![r] = FALSE]
  /\ stage' = [stage EXCEPT ![r] = IF result[r] = None THEN "escaped" ELSE "returned"]
  /\ UNCHANGED <<result, hooks>>

----------------------------------------------------------------------------
(* The template by itself, with hooks that may do anything.                *)

BodyReasons == {"no_work_needed", "mirrorlist_stale", "reboot_required",
                "user_cancelled"}

BodyResults == {Ended(s) : s \in {"success", "partial", "failure"}}

AnyHook(r) ==
  /\ \/ PreCheckPasses(r) \/ PreCheckFails(r) \/ ShouldRun(r)
     \/ \E reason \in BodyReasons : ShouldSkip(r, reason)
     \/ \E res \in BodyResults : ExecuteReturns(r, res)
     \/ PostExecuteReturns(r)
     \/ \E h \in Hooks : HookRaises(r, h) \/ HookInterrupted(r, h)
     \/ RollbackEnds(r)
  /\ Showing(r)

----------------------------------------------------------------------------
(* Properties.                                                             *)

\* Whatever a hook did, a run that entered the try leaves no log handler
\* installed and nothing on the screen.
NothingLeftBehind ==
  \A r \in Runs : Over(r) /\ hooks[r] # NoHooks => ~handler[r] /\ ~display[r]

\* A run reports success or partial only when execute and post_execute both
\* returned: nothing that went wrong after execute is reported as done.
SuccessIsComplete ==
  \A r \in Runs :
    stage[r] = "returned" /\ result[r].status \in {"success", "partial"}
      => hooks[r]["execute"] = "returned" /\ hooks[r]["post_execute"] = "returned"

\* A run whose task was merely not needed or not able to run has neither
\* executed nor rolled back anything.
SkipTouchesNothing ==
  \A r \in Runs :
    stage[r] = "returned" /\ result[r].status = "skipped"
      => \A h \in {"execute", "post_execute", "rollback"} :
           hooks[r][h] = "not_called"
=============================================================================
