---------------------------- MODULE TaskDisplay ----------------------------
(***************************************************************************)
(* The terminal a task runs on: RichProgress (src/archcare/cli/progress.py)*)
(* drives one live render, and sudo, pacman and the program's own          *)
(* questions ask on the same terminal.  `display` of BaseTask is Rich's    *)
(* live.is_started.                                                        *)
(*                                                                         *)
(* The two update tasks appear here by what their hooks do to the terminal *)
(* and nothing else: a hook follows one of its scripts, a sequence of      *)
(* steps, and may raise or be interrupted at any of them.  A run without a *)
(* terminal has NoOpProgress and NonInteractive and is left out: it shows  *)
(* nothing and asks nothing.                                               *)
(***************************************************************************)
EXTENDS BaseTask, Sequences

VARIABLES
  kind,     \* the task of the run
  bar,      \* _task_id is set: start() was called
  bracket,  \* the context manager of the progress port the hook is inside
  asking,   \* what waits on the terminal for the user's answer
  warm,     \* sudo asks no password: its timestamp is fresh, or root runs it
  saved,    \* the backup that rollback restores exists
  script    \* the steps the current hook has still to make, None before it

screenVars == <<bar, bracket, asking, warm, saved, script>>
displayVars == <<runVars, kind, screenVars>>

UpdateTasks == {"mirrorlist-update", "system-update"}
Kinds == UpdateTasks \cup {"health-check", "failed-services", "other"}

\* A cold spinner found no bar showing: it owns the render it starts.
Brackets == {"none", "pause", "spinner", "cold_spinner"}

Steps == {"bar", "spin", "pause", "leave", "prewarm", "sudo", "back_up", "ask"}

ASSUME NoneIsNoScript == None \notin Seq(Steps)

DisplayTypeOK ==
  /\ RunTypeOK
  /\ kind \in [Runs -> Kinds]
  /\ bar \in [Runs -> BOOLEAN] /\ warm \in [Runs -> BOOLEAN]
  /\ saved \in [Runs -> BOOLEAN]
  /\ bracket \in [Runs -> Brackets]
  /\ asking \in [Runs -> {"nothing", "password", "question"}]
  /\ script \in [Runs -> {None} \cup Seq(Steps)]

DisplayInit ==
  /\ RunInit
  /\ kind \in [Runs -> Kinds]
  /\ bar = [r \in Runs |-> FALSE]
  /\ bracket = [r \in Runs |-> "none"]
  /\ asking = [r \in Runs |-> "nothing"]
  /\ warm \in [Runs -> BOOLEAN]
  /\ saved = [r \in Runs |-> FALSE]
  /\ script = [r \in Runs |-> None]

----------------------------------------------------------------------------
(* RichProgress.                                                           *)

StartBar(r) ==
  /\ display' = [display EXCEPT ![r] = TRUE]
  /\ bar' = [bar EXCEPT ![r] = TRUE]
  /\ UNCHANGED bracket

EnterPause(r) ==
  /\ display' = [display EXCEPT ![r] = FALSE]
  /\ bracket' = [bracket EXCEPT ![r] = "pause"]
  /\ UNCHANGED bar

\* Mutant of EnterSpinner: every spinner tears the render down when it ends.
SpinnerOwnsRender(r) ==
  /\ bracket' = [bracket EXCEPT ![r] = "cold_spinner"]
  /\ display' = [display EXCEPT ![r] = TRUE]
  /\ UNCHANGED bar

EnterSpinner(r) ==
  /\ bracket' = [bracket EXCEPT ![r] =
                   IF bar[r] /\ display[r] THEN "spinner" ELSE "cold_spinner"]
  /\ display' = [display EXCEPT ![r] = TRUE]
  /\ UNCHANGED bar

\* What the finally clause of the bracket makes of the render: pause starts
\* it again whether or not it was up before, a spinner stops its own.
LiveAfter(r) ==
  CASE bracket[r] = "pause"        -> TRUE
    [] bracket[r] = "cold_spinner" -> FALSE
    [] OTHER                       -> display[r]

LeaveBracket(r) ==
  /\ display' = [display EXCEPT ![r] = LiveAfter(r)]
  /\ bracket' = [bracket EXCEPT ![r] = "none"]
  /\ UNCHANGED bar

----------------------------------------------------------------------------
(* Questions.                                                              *)

\* A sudo command with a cold timestamp waits for a password first.
AskPassword(r) ==
  /\ ~warm[r] /\ asking[r] = "nothing"
  /\ asking' = [asking EXCEPT ![r] = "password"]
  /\ UNCHANGED warm

GivePassword(r) ==
  /\ asking[r] = "password"
  /\ asking' = [asking EXCEPT ![r] = "nothing"]
  /\ warm' = [warm EXCEPT ![r] = TRUE]

\* The command exits without having run.
DeclinePassword(r) ==
  /\ asking[r] = "password"
  /\ asking' = [asking EXCEPT ![r] = "nothing"]
  /\ UNCHANGED warm

\* typer.confirm, or a prompt of pacman or paru on the inherited terminal.
AskQuestion(r) ==
  /\ asking[r] = "nothing"
  /\ asking' = [asking EXCEPT ![r] = "question"]
  /\ UNCHANGED warm

Answer(r) ==
  /\ asking[r] = "question"
  /\ asking' = [asking EXCEPT ![r] = "nothing"]
  /\ UNCHANGED warm

----------------------------------------------------------------------------
(* The scripts of the update tasks.                                        *)

Paused(steps) == <<"pause">> \o steps \o <<"leave">>

Spinner == <<"spin", "leave">>

Upgrade(snapshot) ==
  <<"bar">> \o Spinner \o Paused(<<"back_up">>) \o Paused(<<"sudo", "ask">>)
    \o snapshot \o Paused(<<"ask">>)

\* Mutant of RollbackScripts: the restore does not pause the bar.
RollbackUnpaused(r) ==
  IF ~saved[r] THEN {<<>>} ELSE {<<"sudo">>}

\* Only an existing backup is restored.
RollbackScripts(r) ==
  IF ~saved[r] THEN {<<>>}
  ELSE IF kind[r] = "system-update" THEN {Paused(<<"sudo">>)}
  ELSE {<<"sudo">>}

MirrorlistScripts(r, h) ==
  CASE h = "execute"      -> {<<"prewarm", "back_up", "spin", "sudo", "leave">>,
                              <<"prewarm", "sudo">>}
    [] h = "post_execute" -> {<<>>, <<"sudo">>}
    [] h = "rollback"     -> RollbackScripts(r)
    [] OTHER              -> {<<>>}

SystemUpdateScripts(r, h) ==
  CASE h = "should_run"   -> {<<>>, Spinner, Spinner \o <<"ask">>}
    [] h = "execute"      -> {Upgrade(<<>>), Upgrade(Paused(<<"sudo">>)),
                              <<"bar">> \o Spinner \o Paused(<<"sudo">>)}
    [] h = "post_execute" -> {<<>>, Paused(<<"sudo", "sudo">>)}
    [] h = "rollback"     -> RollbackScripts(r)
    [] OTHER              -> {<<>>}

Scripts(r, h) ==
  IF kind[r] = "mirrorlist-update" THEN MirrorlistScripts(r, h)
  ELSE SystemUpdateScripts(r, h)

----------------------------------------------------------------------------
(* A hook of an update task.                                               *)

hookVars == <<stage, handler, result, hooks>>

EnterHook(r) ==
  /\ stage[r] \in Hooks /\ script[r] = None
  /\ \E s \in Scripts(r, stage[r]) : script' = [script EXCEPT ![r] = s]
  /\ UNCHANGED <<runVars, kind, bar, bracket, asking, warm, saved>>

NextIs(r, steps) ==
  /\ stage[r] \in Hooks /\ script[r] \notin {None, <<>>}
  /\ Head(script[r]) \in steps

Proceed(r) == script' = [script EXCEPT ![r] = Tail(@)]

RenderStep(r) ==
  /\ \/ NextIs(r, {"bar"}) /\ StartBar(r)
     \/ NextIs(r, {"spin"}) /\ EnterSpinner(r)
     \/ NextIs(r, {"pause"}) /\ EnterPause(r)
     \/ NextIs(r, {"leave"}) /\ LeaveBracket(r)
  /\ Proceed(r)
  /\ UNCHANGED <<hookVars, kind, asking, warm, saved>>

Prompt(r) ==
  /\ \/ NextIs(r, {"prewarm", "sudo", "back_up"}) /\ AskPassword(r)
     \/ NextIs(r, {"ask"}) /\ AskQuestion(r)
  /\ UNCHANGED <<runVars, kind, bar, bracket, saved, script>>

Reply(r) ==
  /\ script[r] # None
  /\ \/ GivePassword(r) /\ UNCHANGED script
     \/ DeclinePassword(r) /\ NextIs(r, {"sudo"}) /\ Proceed(r)
     \/ Answer(r) /\ Proceed(r)
  /\ UNCHANGED <<runVars, kind, bar, bracket, saved>>

\* sudo -v with a fresh timestamp, or a command under sudo that ran.
Launch(r) ==
  /\ NextIs(r, {"prewarm", "sudo", "back_up"}) /\ warm[r]
  /\ saved' = [saved EXCEPT ![r] = @ \/ Head(script[r]) = "back_up"]
  /\ Proceed(r)
  /\ UNCHANGED <<runVars, kind, bar, bracket, asking, warm>>

\* A timestamp outlives the backup that separates `sudo -v` from reflector;
\* no other command of the tasks counts on it.
Expire(r) ==
  /\ warm[r]
  /\ kind[r] = "system-update" \/ stage[r] # "execute"
  /\ warm' = [warm EXCEPT ![r] = FALSE]
  /\ UNCHANGED <<runVars, kind, bar, bracket, asking, saved, script>>

\* A hook is left: its script ends here, and an open bracket with it.
LeaveHook(r) ==
  /\ script' = [script EXCEPT ![r] = None]
  /\ bracket' = [bracket EXCEPT ![r] = "none"]
  /\ asking' = [asking EXCEPT ![r] = "nothing"]
  /\ display' = [display EXCEPT ![r] = LiveAfter(r)]
  /\ UNCHANGED <<kind, bar, warm, saved>>

HookDone(r) ==
  /\ script[r] = <<>>
  /\ \/ PreCheckPasses(r) \/ PreCheckFails(r) \/ ShouldRun(r)
     \/ \E reason \in BodyReasons : ShouldSkip(r, reason)
     \/ \E res \in BodyResults : ExecuteReturns(r, res)
     \/ PostExecuteReturns(r) \/ RollbackEnds(r)
  /\ LeaveHook(r)

HookBreaks(r) ==
  /\ script[r] # None
  /\ \/ HookRaises(r, stage[r])
     \/ HookInterrupted(r, stage[r])
     \/ stage[r] = "rollback" /\ RollbackEnds(r)
  /\ LeaveHook(r)

\* progress.stop() of the finally clause forgets the bar.
CleanUp(r) ==
  /\ Finally(r)
  /\ bar' = [bar EXCEPT ![r] = FALSE]
  /\ UNCHANGED <<kind, bracket, asking, warm, saved, script>>

Begin(r) ==
  /\ LoggingReady(r) \/ LoggingFails(r)
  /\ UNCHANGED <<kind, screenVars>>

UpdateStep(r) ==
  /\ kind[r] \in UpdateTasks
  /\ \/ EnterHook(r) \/ RenderStep(r) \/ Prompt(r) \/ Reply(r) \/ Launch(r)
     \/ Expire(r) \/ HookDone(r) \/ HookBreaks(r)

----------------------------------------------------------------------------
(* Properties.                                                             *)

\* docs/architecture/registry-and-ports.md, "The display contract around
\* sudo": no password prompt and no question ever waits behind a live
\* render, whichever command raised, declined or was interrupted before.
PromptsOnCleanTerminal ==
  \A r \in Runs : asking[r] # "nothing" => ~display[r]

\* From start() to the clean-up the bar is on the screen except while it is
\* paused: no spinner and no rollback takes it down, so the next pause finds
\* a render to stop.
BarStaysVisible ==
  \A r \in Runs : bar[r] /\ bracket[r] # "pause" => display[r]
=============================================================================
