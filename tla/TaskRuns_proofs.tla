--------------------------- MODULE TaskRuns_proofs ---------------------------
(***************************************************************************)
(* The safety of the tasks on the template, for every number of runs of    *)
(* whatever kinds, every set of units and every threshold: what            *)
(* BaseTask.run promises of all of them, the verdict of the health check,  *)
(* and the report of the failed-services task.                             *)
(***************************************************************************)
EXTENDS TaskRuns, BaseTask_proofs, SequenceTheorems

----------------------------------------------------------------------------
(* The inductive invariant.                                                *)

Panel == reading = [r \in Runs |-> [i \in Instruments |-> reading[r][i]]]

\* What instrument i's showing v is worth by the settings.
Worth(i, v) ==
  CASE i = "disk"   -> Grade(v, DiskWarning, DiskCritical)
    [] i = "memory" -> Grade(v, MemoryWarning, MemoryCritical)
    [] i = "swap"   -> Above(v, SwapWarning)
    [] i = "cpu"    -> Above(v, CpuWarning)
    [] i = "load"   -> Overloaded(v)
    [] OTHER        -> Fault(v)

Graded(r, grade) == {i \in Instruments : Worth(i, reading[r][i]) = grade}

\* The two lists are what the readings so far are worth.
Found(r) == issues[r] = Graded(r, "issue") /\ warnings[r] = Graded(r, "warning")

\* How many checks are done when instrument i is read.
ReadAfter(i) ==
  CASE i = "disk"               -> 0
    [] i \in {"memory", "swap"} -> 1
    [] i \in {"cpu", "load"}    -> 2
    [] i = "filesystem"         -> 3
    [] i = "database"           -> 4
    [] OTHER                    -> 5

\* No check has read the instruments of the checks still to come.
Unread(r) ==
  \A i \in Instruments : checked[r] <= ReadAfter(i) => reading[r][i] = Unknown

Unharmed(r) == result[r] # None /\ hooks[r]["rollback"] = "not_called"

Summarised(r) ==
  kind[r] = "health-check" =>
    /\ stage[r] = "post_execute" => result[r] = HealthResult(r)
    /\ stage[r] \in {"finally", "returned"} /\ Unharmed(r) => result[r] = HealthResult(r)

HealthInv(r) == Found(r) /\ Unread(r) /\ Summarised(r)

\* A verdict that says the run looked at the units.
Told(r) ==
  /\ stage[r] \in {"post_execute", "finally", "returned"} /\ result[r] # None
  /\ result[r].status # "failure" /\ result[r].skip_reason # "dependency_failed"

ServicesInv(r) ==
  /\ lasting[r] \subseteq failed \ Ignored(ignored)
  /\ kind[r] # "failed-services" => lasting[r] = {} /\ found[r] = None /\ todo[r] = None
  /\ stage[r] \in {"start", "pre_check"} => found[r] = None
  /\ stage[r] \in {"start", "pre_check", "should_run"} => todo[r] = None
  /\ ~blind[r] =>
       /\ stage[r] \in {"should_run", "execute"} /\ todo[r] = None /\ found[r] # None
            => lasting[r] \subseteq found[r]
       /\ stage[r] = "execute" /\ todo[r] # None
            => lasting[r] \subseteq todo[r] \cup Reported(r)
       /\ Told(r) => lasting[r] \subseteq Reported(r)

----------------------------------------------------------------------------
(* The terminal.                                                           *)

\* Where a script finds the terminal: is the bar up, which bracket is open,
\* is sudo sure not to ask, and whose script it is.
Labels == [bar : BOOLEAN, in : {"none", "pause", "spinner"}, sure : BOOLEAN,
           of : {"upgrade", "mirrors", "other"}]

\* Nothing is on the screen.
Clear(l) == l.in = "pause" \/ (l.in = "none" /\ ~l.bar)

\* A script may go on with step x: brackets do not nest, only a bar is paused,
\* what may ask finds the screen clear, and only the execute of a system update
\* starts the bar and makes a backup behind it.
Allowed(l, x) ==
  CASE x = "bar"     -> l.in = "none" /\ l.of = "upgrade"
    [] x = "spin"    -> l.in = "none"
    [] x = "pause"   -> l.in = "none" /\ l.bar
    [] x = "leave"   -> l.in # "none"
    [] x = "prewarm" -> Clear(l) /\ l.of = "mirrors"
    [] x = "sudo"    -> l.sure \/ Clear(l)
    [] x = "back_up" -> Clear(l) /\ (l.of = "mirrors" \/ (l.of = "upgrade" /\ l.bar))
    [] OTHER         -> Clear(l)

After(l, x) ==
  CASE x = "bar"     -> [l EXCEPT !.bar = TRUE]
    [] x = "spin"    -> [l EXCEPT !.in = "spinner"]
    [] x = "pause"   -> [l EXCEPT !.in = "pause"]
    [] x = "leave"   -> [l EXCEPT !.in = "none"]
    [] x = "prewarm" -> [l EXCEPT !.sure = TRUE]
    [] OTHER         -> l

\* Script s may be followed from l to m.
Path(l, s, m) ==
  \E lab \in [1..(Len(s) + 1) -> Labels] :
    /\ lab[1] = l /\ lab[Len(s) + 1] = m
    /\ \A i \in 1..Len(s) : Allowed(lab[i], s[i]) /\ lab[i + 1] = After(lab[i], s[i])

\* What l says of the terminal of run r.
Shows(r, l) ==
  /\ bar[r] = l.bar
  /\ display[r] = (l.in = "spinner" \/ (l.in = "none" /\ l.bar))
  /\ bracket[r] = IF l.in = "spinner" /\ ~l.bar THEN "cold_spinner" ELSE l.in
  /\ l.in = "pause" => l.bar
  /\ l.sure => warm[r] /\ l.of = "mirrors"
  /\ l.of = IF stage[r] # "execute" THEN "other"
            ELSE IF kind[r] = "system-update" THEN "upgrade" ELSE "mirrors"

Scripted(r) ==
  \E l, m \in Labels :
    Shows(r, l) /\ Path(l, script[r], m) /\ (l.of = "upgrade" => m.bar)

\* Between two hooks of an update task.
AtRest(r) == bracket[r] = "none" /\ display[r] = bar[r] /\ asking[r] = "nothing"

\* What waits for an answer is the step the script has come to.
Asks(r) ==
  /\ script[r] \notin {None, <<>>}
  /\ IF asking[r] = "question" THEN Head(script[r]) = "ask"
     ELSE Head(script[r]) \in {"prewarm", "sudo", "back_up"} /\ ~warm[r]

UpdateScreen(r) ==
  /\ IF script[r] = None THEN AtRest(r) ELSE Scripted(r)
  /\ asking[r] # "nothing" => ~display[r]
  /\ kind[r] = "mirrorlist-update" => ~bar[r]
  /\ stage[r] \in {"start", "pre_check", "should_run"} => ~bar[r] /\ ~saved[r]
  /\ stage[r] = "execute" /\ script[r] = None => ~bar[r]
  /\ kind[r] = "system-update" /\ stage[r] \in Hooks
       /\ (stage[r] = "post_execute" \/ saved[r]) => bar[r]

HealthScreen(r) ==
  /\ script[r] = None
  /\ \/ AtRest(r)
     \/ bracket[r] = "pause" /\ bar[r] /\ ~display[r] /\ stage[r] = "execute" /\ checked[r] = 5

PlainScreen(r) ==
  script[r] = None /\ ~bar[r] /\ bracket[r] = "none" /\ asking[r] = "nothing"

Screen(r) ==
  /\ kind[r] \in UpdateTasks => UpdateScreen(r)
  /\ kind[r] = "health-check" => HealthScreen(r)
  /\ kind[r] \in {"failed-services", "other"} => PlainScreen(r)

\* Only a hook of an update task follows a script, and what waits there for an
\* answer is the step the script has come to.
Hooked ==
  \A r \in Runs :
    /\ script[r] # None => stage[r] \in Hooks /\ kind[r] \in UpdateTasks
    /\ kind[r] \in UpdateTasks /\ asking[r] # "nothing" => Asks(r)

Base == TypeOK /\ TemplateInv /\ Panel /\ Hooked

IInv ==
  /\ Base
  /\ \A r \in Runs : HealthInv(r) /\ ServicesInv(r) /\ Screen(r)

----------------------------------------------------------------------------
(* What a step touches.                                                    *)

\* What a run does, and what happens around it.
Move(r) ==
  \/ RunStep(r)
  \/ HealthStep(r) /\ UNCHANGED <<unitVars, serviceVars>>
  \/ /\ kind[r] = "failed-services"
     /\ ServicesStep(r)
     /\ UNCHANGED <<kind, screenVars, healthVars, unitVars>>

Around == (UnitChanges \/ FileEdited) /\ UNCHANGED <<kind, screenVars, healthVars>>

\* A hook is at work: all the template sees is the display.
Working(r) ==
  stage[r] \in Hooks /\ OwnDisplay(r) /\ UNCHANGED <<stage, handler, result, hooks>>

\* One of the hooks a task may have, or the clauses around them.
LEMMA HookStep ==
  ASSUME NEW r \in Runs,
         \/ LoggingReady(r) /\ UNCHANGED display
         \/ LoggingFails(r) /\ UNCHANGED display
         \/ PreCheckPasses(r) \/ PreCheckFails(r) \/ ShouldRun(r)
         \/ \E reason \in BodyReasons : ShouldSkip(r, reason)
         \/ \E res \in BodyResults : ExecuteReturns(r, res)
         \/ PostExecuteReturns(r)
         \/ \E h \in Hooks : HookRaises(r, h) \/ HookInterrupted(r, h)
         \/ RollbackEnds(r)
         \/ Finally(r)
  PROVE  TemplateStep(r)
<1>1. BodyReasons \subseteq SkipReasons
  BY DEF BodyReasons, SkipReasons
<1>2. BodyResults \subseteq Executed
  BY DEF BodyResults, Executed, Statuses
<1>3. QED
  BY <1>1, <1>2 DEF TemplateStep

\* A step that leaves the display alone, or sets it for its own run.
LEMMA OwnDisplayOnly ==
  ASSUME TypeOK, NEW r \in Runs,
         \/ UNCHANGED display
         \/ \E on \in BOOLEAN : display' = [display EXCEPT ![r] = on]
         \/ display' = [display EXCEPT ![r] = LiveAfter(r)]
  PROVE  OwnDisplay(r)
<1>1. display \in [Runs -> BOOLEAN]
  BY DEF TypeOK, DisplayTypeOK, RunTypeOK
<1>2. LiveAfter(r) \in BOOLEAN
  BY <1>1 DEF LiveAfter
<1>3. QED
  BY <1>1, <1>2 DEF OwnDisplay

\* A step of an update task on its terminal.
LEMMA UpdateStepShape ==
  ASSUME TypeOK, NEW r \in Runs, UpdateStep(r), script[r] # None => stage[r] \in Hooks
  PROVE  \/ TemplateStep(r) /\ OwnDisplay(r)
         \/ Working(r)
         \/ UNCHANGED runVars
<1>1. CASE EnterHook(r) \/ Prompt(r) \/ Reply(r) \/ Launch(r) \/ Expire(r)
  BY <1>1 DEF EnterHook, Prompt, Reply, Launch, Expire
<1>2. CASE RenderStep(r)
  <2>1. stage[r] \in Hooks /\ UNCHANGED <<stage, handler, result, hooks>>
    BY <1>2 DEF RenderStep, NextIs, hookVars
  <2>2. OwnDisplay(r)
    BY <1>2, OwnDisplayOnly DEF RenderStep, StartBar, EnterSpinner, EnterPause, LeaveBracket
  <2>3. QED
    BY <2>1, <2>2 DEF Working
<1>3. CASE HookDone(r) \/ HookBreaks(r)
  <2>1. OwnDisplay(r)
    BY <1>3, OwnDisplayOnly DEF HookDone, HookBreaks, LeaveHook
  <2>2. HookBreaks(r) => stage[r] \in Hooks
    BY DEF HookBreaks
  <2>3. TemplateStep(r)
    BY <1>3, <2>2, HookStep DEF HookDone, HookBreaks
  <2>4. QED
    BY <2>1, <2>3
<1>4. QED
  BY <1>1, <1>2, <1>3 DEF UpdateStep

----------------------------------------------------------------------------
(* Paths of scripts.                                                       *)

\* After an allowed step the terminal is in a state that has a label.
LEMMA AfterLabel == ASSUME NEW l \in Labels, NEW x PROVE After(l, x) \in Labels
BY DEF After, Labels

\* The empty script stays where it is.
LEMMA PathNil == ASSUME NEW l \in Labels PROVE Path(l, <<>>, l)
<1> DEFINE lab == [i \in 1..1 |-> l]
<1>1. /\ lab \in [1..(Len(<<>>) + 1) -> Labels]
      /\ lab[1] = l /\ lab[Len(<<>>) + 1] = l /\ Len(<<>>) = 0
  OBVIOUS
<1> HIDE DEF lab
<1>2. QED
  BY <1>1 DEF Path

\* One allowed step.
LEMMA PathOne ==
  ASSUME NEW l \in Labels, NEW x \in Steps, Allowed(l, x)
  PROVE  Path(l, <<x>>, After(l, x))
<1> DEFINE lab == [i \in 1..2 |-> IF i = 1 THEN l ELSE After(l, x)]
<1>1. lab \in [1..(Len(<<x>>) + 1) -> Labels]
  BY AfterLabel
<1>2. lab[1] = l /\ lab[Len(<<x>>) + 1] = After(l, x)
  OBVIOUS
<1>3. ASSUME NEW i \in 1..Len(<<x>>)
      PROVE  Allowed(lab[i], <<x>>[i]) /\ lab[i + 1] = After(lab[i], <<x>>[i])
  <2>1. i = 1 /\ <<x>>[i] = x /\ lab[i] = l /\ lab[i + 1] = After(l, x)
    BY <1>3
  <2>2. QED
    BY <2>1
<1> HIDE DEF lab
<1>4. QED
  BY <1>1, <1>2, <1>3 DEF Path

\* One script after another.
LEMMA PathThen ==
  ASSUME NEW s \in Seq(Steps), NEW t \in Seq(Steps), NEW l, NEW m, NEW n,
         Path(l, s, m), Path(m, t, n)
  PROVE  Path(l, s \o t, n)
<1>1. PICK f \in [1..(Len(s) + 1) -> Labels] :
        /\ f[1] = l /\ f[Len(s) + 1] = m
        /\ \A i \in 1..Len(s) : Allowed(f[i], s[i]) /\ f[i + 1] = After(f[i], s[i])
  BY DEF Path
<1>2. PICK g \in [1..(Len(t) + 1) -> Labels] :
        /\ g[1] = m /\ g[Len(t) + 1] = n
        /\ \A i \in 1..Len(t) : Allowed(g[i], t[i]) /\ g[i + 1] = After(g[i], t[i])
  BY DEF Path
<1> DEFINE lab == [i \in 1..(Len(s) + Len(t) + 1) |->
                     IF i <= Len(s) THEN f[i] ELSE g[i - Len(s)]]
<1>3. /\ Len(s) \in Nat /\ Len(t) \in Nat /\ Len(s \o t) = Len(s) + Len(t)
      /\ \A i \in 1..(Len(s) + Len(t)) :
           (s \o t)[i] = IF i <= Len(s) THEN s[i] ELSE t[i - Len(s)]
  BY ConcatProperties, LenProperties
<1>4. lab \in [1..(Len(s \o t) + 1) -> Labels]
  BY <1>3
<1>5. lab[1] = l /\ lab[Len(s \o t) + 1] = n
  BY <1>1, <1>2, <1>3
<1>6. ASSUME NEW i \in 1..Len(s \o t)
      PROVE  Allowed(lab[i], (s \o t)[i]) /\ lab[i + 1] = After(lab[i], (s \o t)[i])
  <2>1. CASE i <= Len(s)
    <3>1. lab[i] = f[i] /\ (s \o t)[i] = s[i] /\ i \in 1..Len(s)
      BY <1>3, <2>1
    <3>2. lab[i + 1] = f[i + 1]
      BY <1>1, <1>2, <1>3, <2>1
    <3>3. QED
      BY <1>1, <3>1, <3>2
  <2>2. CASE i > Len(s)
    <3>1. /\ lab[i] = g[i - Len(s)] /\ (s \o t)[i] = t[i - Len(s)]
          /\ i - Len(s) \in 1..Len(t) /\ lab[i + 1] = g[(i - Len(s)) + 1]
      BY <1>3, <2>2
    <3>2. QED
      BY <1>2, <3>1
  <2>3. QED
    BY <1>3, <2>1, <2>2
<1> HIDE DEF lab
<1>7. QED
  BY <1>4, <1>5, <1>6 DEF Path

\* What a script that has a path may do next, and what is left of it.
LEMMA PathNext ==
  ASSUME NEW s \in Seq(Steps), s # <<>>, NEW l, NEW m, Path(l, s, m)
  PROVE  Allowed(l, Head(s)) /\ Path(After(l, Head(s)), Tail(s), m)
<1>1. PICK f \in [1..(Len(s) + 1) -> Labels] :
        /\ f[1] = l /\ f[Len(s) + 1] = m
        /\ \A i \in 1..Len(s) : Allowed(f[i], s[i]) /\ f[i + 1] = After(f[i], s[i])
  BY DEF Path
<1>2. /\ Len(s) \in Nat \ {0} /\ Len(Tail(s)) = Len(s) - 1 /\ Head(s) = s[1]
      /\ \A i \in 1..Len(Tail(s)) : Tail(s)[i] = s[i + 1]
  BY HeadTailProperties, EmptySeq
<1> DEFINE lab == [i \in 1..(Len(Tail(s)) + 1) |-> f[i + 1]]
<1>3. lab \in [1..(Len(Tail(s)) + 1) -> Labels]
  BY <1>2
<1>4. Allowed(l, Head(s)) /\ f[2] = After(l, Head(s))
  BY <1>1, <1>2
<1>5. lab[1] = After(l, Head(s)) /\ lab[Len(Tail(s)) + 1] = m
  BY <1>1, <1>2, <1>4
<1>6. ASSUME NEW i \in 1..Len(Tail(s))
      PROVE  Allowed(lab[i], Tail(s)[i]) /\ lab[i + 1] = After(lab[i], Tail(s)[i])
  <2>1. i + 1 \in 1..Len(s) /\ Tail(s)[i] = s[i + 1]
    BY <1>2
  <2>2. lab[i] = f[i + 1] /\ lab[i + 1] = f[(i + 1) + 1]
    BY <1>2
  <2>3. QED
    BY <1>1, <2>1, <2>2
<1> HIDE DEF lab
<1>7. QED
  BY <1>3, <1>4, <1>5, <1>6 DEF Path

\* The end of a script.
LEMMA PathEnd == ASSUME NEW l, NEW m, Path(l, <<>>, m) PROVE l = m
BY DEF Path

----------------------------------------------------------------------------
(* The scripts of the update tasks have paths.                             *)

\* Between two hooks, without and with the bar, and before and after an upgrade.
Down == [bar |-> FALSE, in |-> "none", sure |-> FALSE, of |-> "other"]
Up == [bar |-> TRUE, in |-> "none", sure |-> FALSE, of |-> "other"]
ToUpgrade == [bar |-> FALSE, in |-> "none", sure |-> FALSE, of |-> "upgrade"]
Upgraded == [bar |-> TRUE, in |-> "none", sure |-> FALSE, of |-> "upgrade"]
ToMirrors == [bar |-> FALSE, in |-> "none", sure |-> FALSE, of |-> "mirrors"]

\* While the bar is paused.
Paused_(l) == [l EXCEPT !.in = "pause"]

\* Two steps are one and one.
LEMMA TwoSteps == ASSUME NEW x \in Steps, NEW y \in Steps PROVE <<x, y>> = <<x>> \o <<y>>
<1> DEFINE two == <<x>> \o <<y>>
<1>1. two \in Seq(Steps) /\ Len(two) = 2 /\ two[1] = x /\ two[2] = y
  BY ConcatProperties
<1>2. <<x, y>> \in Seq(Steps) /\ Len(<<x, y>>) = 2 /\ <<x, y>>[1] = x /\ <<x, y>>[2] = y
  OBVIOUS
<1> HIDE DEF two
<1>3. \A i \in 1..2 : <<x, y>>[i] = two[i]
  BY <1>1, <1>2
<1>4. <<x, y>> = two
  BY <1>1, <1>2, <1>3, SeqEqual
<1>5. QED
  BY <1>4 DEF two

\* Short scripts are scripts.
LEMMA ShortScripts ==
  ASSUME NEW x \in Steps, NEW y \in Steps
  PROVE  <<>> \in Seq(Steps) /\ <<x>> \in Seq(Steps) /\ <<x, y>> \in Seq(Steps)
OBVIOUS

\* In a pause every prompt is allowed and leaves things as they are.
LEMMA PromptsPath ==
  ASSUME NEW l \in Labels, l.in = "pause", l.bar, NEW x \in {"sudo", "back_up", "ask"},
         x = "back_up" => l.of = "upgrade"
  PROVE  Path(l, <<x>>, l)
<1>1. x \in Steps /\ Allowed(l, x) /\ After(l, x) = l
  BY DEF Steps, Allowed, After, Clear
<1>2. QED
  BY <1>1, PathOne

\* A pause leaves things as they were.
LEMMA PausedPath ==
  ASSUME NEW l \in Labels, l.in = "none", l.bar, NEW steps \in Seq(Steps),
         Path(Paused_(l), steps, Paused_(l))
  PROVE  Paused(steps) \in Seq(Steps) /\ Path(l, Paused(steps), l)
<1>1. {"pause", "leave"} \subseteq Steps /\ Paused_(l) \in Labels
  BY DEF Steps, Labels, Paused_
<1>2. Path(l, <<"pause">>, Paused_(l))
  <2>1. Allowed(l, "pause") /\ After(l, "pause") = Paused_(l)
    BY DEF Allowed, After, Paused_
  <2>2. QED
    BY <1>1, <2>1, PathOne
<1>3. Path(Paused_(l), <<"leave">>, l)
  <2>1. Allowed(Paused_(l), "leave")
    BY DEF Allowed, Paused_, Labels
  <2>2. After(Paused_(l), "leave") = l
    BY DEF After, Paused_, Labels
  <2>3. QED
    BY <1>1, <2>1, <2>2, PathOne
<1>4. <<"pause">> \o steps \in Seq(Steps) /\ <<"pause">> \in Seq(Steps) /\ <<"leave">> \in Seq(Steps)
  BY <1>1, ConcatProperties
<1>5. Path(l, <<"pause">> \o steps, Paused_(l))
  BY <1>2, <1>4, PathThen
<1>6. Path(l, (<<"pause">> \o steps) \o <<"leave">>, l)
  BY <1>3, <1>4, <1>5, PathThen
<1>7. (<<"pause">> \o steps) \o <<"leave">> \in Seq(Steps)
  BY <1>4, ConcatProperties
<1>8. QED
  BY <1>6, <1>7 DEF Paused

\* One prompt in a pause.
LEMMA PausedOne ==
  ASSUME NEW l \in Labels, l.in = "none", l.bar, NEW x \in {"sudo", "back_up", "ask"},
         x = "back_up" => l.of = "upgrade"
  PROVE  Paused(<<x>>) \in Seq(Steps) /\ Path(l, Paused(<<x>>), l)
<1>1. /\ Paused_(l) \in Labels /\ Paused_(l).in = "pause" /\ Paused_(l).bar
      /\ Paused_(l).of = l.of
  BY DEF Paused_, Labels
<1>2. <<x>> \in Seq(Steps)
  BY DEF Steps
<1>3. QED
  BY <1>1, <1>2, PromptsPath, PausedPath

\* Two prompts in a pause.
LEMMA PausedTwo ==
  ASSUME NEW l \in Labels, l.in = "none", l.bar,
         NEW x \in {"sudo", "ask"}, NEW y \in {"sudo", "ask"}
  PROVE  Paused(<<x, y>>) \in Seq(Steps) /\ Path(l, Paused(<<x, y>>), l)
<1>1. /\ Paused_(l) \in Labels /\ Paused_(l).in = "pause" /\ Paused_(l).bar
      /\ Paused_(l).of = l.of
  BY DEF Paused_, Labels
<1>2. x \in Steps /\ y \in Steps
  BY DEF Steps
<1>3. Path(Paused_(l), <<x>> \o <<y>>, Paused_(l))
  BY <1>1, <1>2, PromptsPath, PathThen, ShortScripts
<1>4. QED
  BY <1>2, <1>3, TwoSteps, ShortScripts, PausedPath

\* A spinner leaves things as they were.
LEMMA SpinnerPath ==
  ASSUME NEW l \in Labels, l.in = "none"
  PROVE  Spinner \in Seq(Steps) /\ Path(l, Spinner, l)
<1> DEFINE spinning == [l EXCEPT !.in = "spinner"]
<1>1. {"spin", "leave"} \subseteq Steps /\ spinning \in Labels
  BY DEF Steps, Labels
<1>2. Allowed(l, "spin") /\ After(l, "spin") = spinning
  BY DEF Allowed, After
<1>3. Allowed(spinning, "leave") /\ After(spinning, "leave") = l
  BY DEF Allowed, After, Labels
<1>4. Path(l, <<"spin">>, spinning) /\ Path(spinning, <<"leave">>, l)
  <2>1. Path(l, <<"spin">>, After(l, "spin"))
    BY <1>1, <1>2, PathOne
  <2>2. Path(spinning, <<"leave">>, After(spinning, "leave"))
    BY <1>1, <1>3, PathOne
  <2>3. QED
    BY <1>2, <1>3, <2>1, <2>2
<1> HIDE DEF spinning
<1>5. Path(l, <<"spin">> \o <<"leave">>, l)
  BY <1>1, <1>4, PathThen, ShortScripts
<1>6. QED
  BY <1>1, <1>5, TwoSteps, ShortScripts DEF Spinner

\* A script followed by one that comes back to where it starts.
LEMMA ThenBack ==
  ASSUME NEW l, NEW m, NEW s \in Seq(Steps), Path(l, s, m), NEW t \in Seq(Steps), Path(m, t, m)
  PROVE  s \o t \in Seq(Steps) /\ Path(l, s \o t, m)
BY PathThen, ConcatProperties

\* The upgrade, whatever it does about its snapshot, ends with the bar up.
LEMMA UpgradePath ==
  ASSUME NEW snapshot \in {<<>>, Paused(<<"sudo">>)}
  PROVE  Upgrade(snapshot) \in Seq(Steps) /\ Path(ToUpgrade, Upgrade(snapshot), Upgraded)
<1> DEFINE l == Upgraded
<1>1. /\ ToUpgrade \in Labels /\ l \in Labels /\ l.in = "none" /\ l.bar /\ l.of = "upgrade"
      /\ Allowed(ToUpgrade, "bar") /\ After(ToUpgrade, "bar") = l
      /\ "bar" \in Steps
  BY DEF ToUpgrade, Upgraded, Labels, Allowed, After, Steps
<1> HIDE DEF l
<1>2. <<"bar">> \in Seq(Steps) /\ Path(ToUpgrade, <<"bar">>, l)
  BY <1>1, PathOne, ShortScripts
<1>3. /\ Spinner \in Seq(Steps) /\ Path(l, Spinner, l)
      /\ Paused(<<"back_up">>) \in Seq(Steps) /\ Path(l, Paused(<<"back_up">>), l)
      /\ Paused(<<"sudo", "ask">>) \in Seq(Steps) /\ Path(l, Paused(<<"sudo", "ask">>), l)
      /\ Paused(<<"ask">>) \in Seq(Steps) /\ Path(l, Paused(<<"ask">>), l)
      /\ Paused(<<"sudo">>) \in Seq(Steps) /\ Path(l, Paused(<<"sudo">>), l)
  BY <1>1, SpinnerPath, PausedOne, PausedTwo
<1>4. snapshot \in Seq(Steps) /\ Path(l, snapshot, l)
  <2>1. <<>> \in Seq(Steps) /\ Path(l, <<>>, l)
    BY <1>1, PathNil
  <2>2. QED
    BY <1>3, <2>1
<1>5. /\ <<"bar">> \o Spinner \in Seq(Steps)
      /\ Path(ToUpgrade, <<"bar">> \o Spinner, l)
  BY <1>2, <1>3, ThenBack
<1>6. /\ <<"bar">> \o Spinner \o Paused(<<"back_up">>) \in Seq(Steps)
      /\ Path(ToUpgrade, <<"bar">> \o Spinner \o Paused(<<"back_up">>), l)
  BY <1>3, <1>5, ThenBack
<1>7. /\ <<"bar">> \o Spinner \o Paused(<<"back_up">>) \o Paused(<<"sudo", "ask">>)
           \in Seq(Steps)
      /\ Path(ToUpgrade,
              <<"bar">> \o Spinner \o Paused(<<"back_up">>) \o Paused(<<"sudo", "ask">>), l)
  BY <1>3, <1>6, ThenBack
<1>8. /\ <<"bar">> \o Spinner \o Paused(<<"back_up">>) \o Paused(<<"sudo", "ask">>)
           \o snapshot \in Seq(Steps)
      /\ Path(ToUpgrade, <<"bar">> \o Spinner \o Paused(<<"back_up">>)
                             \o Paused(<<"sudo", "ask">>) \o snapshot, l)
  BY <1>4, <1>7, ThenBack
<1>9. /\ Upgrade(snapshot) \in Seq(Steps)
      /\ Path(ToUpgrade, Upgrade(snapshot), l)
  BY <1>3, <1>8, ThenBack DEF Upgrade
<1>10. QED
  BY <1>9 DEF l

\* So does a system update that stops after its backup prompt.
LEMMA ShortUpgradePath ==
  /\ <<"bar">> \o Spinner \o Paused(<<"sudo">>) \in Seq(Steps)
  /\ Path(ToUpgrade, <<"bar">> \o Spinner \o Paused(<<"sudo">>), Upgraded)
<1> DEFINE l == Upgraded
<1>1. /\ ToUpgrade \in Labels /\ l \in Labels /\ l.in = "none" /\ l.bar /\ l.of = "upgrade"
      /\ Allowed(ToUpgrade, "bar") /\ After(ToUpgrade, "bar") = l
      /\ "bar" \in Steps
  BY DEF ToUpgrade, Upgraded, Labels, Allowed, After, Steps
<1> HIDE DEF l
<1>2. <<"bar">> \in Seq(Steps) /\ Path(ToUpgrade, <<"bar">>, l)
  BY <1>1, PathOne, ShortScripts
<1>3. /\ Spinner \in Seq(Steps) /\ Path(l, Spinner, l)
      /\ Paused(<<"sudo">>) \in Seq(Steps) /\ Path(l, Paused(<<"sudo">>), l)
  BY <1>1, SpinnerPath, PausedOne
<1>4. /\ <<"bar">> \o Spinner \in Seq(Steps)
      /\ Path(ToUpgrade, <<"bar">> \o Spinner, l)
  BY <1>2, <1>3, ThenBack
<1>5. /\ <<"bar">> \o Spinner \o Paused(<<"sudo">>) \in Seq(Steps)
      /\ Path(ToUpgrade, <<"bar">> \o Spinner \o Paused(<<"sudo">>), l)
  BY <1>3, <1>4, ThenBack
<1>6. QED
  BY <1>5 DEF l

\* reflector runs behind a spinner: `sudo -v` came before.
LEMMA MirrorlistPath ==
  LET execute == <<"prewarm", "back_up", "spin", "sudo", "leave">>
      sure    == [bar |-> FALSE, in |-> "none", sure |-> TRUE, of |-> "mirrors"] IN
  execute \in Seq(Steps) /\ sure \in Labels /\ Path(ToMirrors, execute, sure)
<1> DEFINE rest    == ToMirrors
           execute == <<"prewarm", "back_up", "spin", "sudo", "leave">>
           sure    == [bar |-> FALSE, in |-> "none", sure |-> TRUE, of |-> "mirrors"]
           busy    == [bar |-> FALSE, in |-> "spinner", sure |-> TRUE, of |-> "mirrors"]
           lab     == [i \in 1..6 |-> IF i = 1 THEN rest
                                      ELSE IF i \in {4, 5} THEN busy ELSE sure]
<1>1. /\ execute \in Seq(Steps) /\ Len(execute) = 5
      /\ execute[1] = "prewarm" /\ execute[2] = "back_up" /\ execute[3] = "spin"
      /\ execute[4] = "sudo" /\ execute[5] = "leave"
  BY DEF Steps
<1>2. rest \in Labels /\ sure \in Labels /\ busy \in Labels
  BY DEF ToMirrors, Labels
<1>3. /\ Allowed(rest, "prewarm") /\ After(rest, "prewarm") = sure
      /\ Allowed(sure, "back_up") /\ After(sure, "back_up") = sure
      /\ Allowed(sure, "spin") /\ After(sure, "spin") = busy
      /\ Allowed(busy, "sudo") /\ After(busy, "sudo") = busy
      /\ Allowed(busy, "leave") /\ After(busy, "leave") = sure
  BY DEF ToMirrors, Allowed, After, Clear
<1> HIDE DEF rest, sure, busy, execute
<1>4. /\ lab \in [1..6 -> Labels] /\ lab[1] = rest /\ lab[2] = sure /\ lab[3] = sure
      /\ lab[4] = busy /\ lab[5] = busy /\ lab[6] = sure
  BY <1>2
<1> HIDE DEF lab
<1>5. ASSUME NEW i \in 1..5
      PROVE  Allowed(lab[i], execute[i]) /\ lab[i + 1] = After(lab[i], execute[i])
  <2>1. CASE i = 1
    BY <1>1, <1>3, <1>4, <2>1
  <2>2. CASE i = 2
    BY <1>1, <1>3, <1>4, <2>2
  <2>3. CASE i = 3
    BY <1>1, <1>3, <1>4, <2>3
  <2>4. CASE i = 4
    BY <1>1, <1>3, <1>4, <2>4
  <2>5. CASE i = 5
    BY <1>1, <1>3, <1>4, <2>5
  <2>6. QED
    BY <2>1, <2>2, <2>3, <2>4, <2>5
<1>6. Path(rest, execute, sure)
  BY <1>1, <1>4, <1>5 DEF Path
<1>7. QED
  BY <1>1, <1>2, <1>6 DEF rest, sure, execute

----------------------------------------------------------------------------
(* Every step keeps the types and what the template promises.              *)

\* What a move of a run is to the template.
LEMMA MoveShape ==
  ASSUME Base, NEW r \in Runs, Move(r)
  PROVE  \/ TemplateStep(r) /\ OwnDisplay(r)
         \/ Working(r)
         \/ UNCHANGED runVars
<1>1. CASE RunStep(r)
  <2>1. CASE Begin(r)
    BY <2>1, HookStep, OwnDisplayOnly DEF Base, Begin, LoggingReady, LoggingFails
  <2>2. CASE CleanUp(r)
    <3>1. OwnDisplay(r)
      BY <2>2 DEF CleanUp, Finally, OwnDisplay
    <3>2. QED
      BY <2>2, <3>1, HookStep DEF CleanUp
  <2>3. CASE UpdateStep(r)
    BY <2>3, UpdateStepShape DEF Base, Hooked
  <2>4. CASE AnyHook(r)
    <3>1. OwnDisplay(r)
      BY <2>4 DEF AnyHook, Showing, OwnDisplay
    <3>2. QED
      BY <2>4, <3>1, HookStep DEF AnyHook
  <2>5. QED
    BY <1>1, <2>1, <2>2, <2>3, <2>4 DEF RunStep
<1>2. CASE HealthStep(r)
  <2>1. CASE OpenBar(r)
    BY <2>1, OwnDisplayOnly DEF Base, OpenBar, StartBar, hookVars, Working, Hooks
  <2>2. CASE MetricCheck(r) \/ FilesPassword(r)
    BY <2>2 DEF MetricCheck, FilesPassword
  <2>3. CASE PauseForFiles(r)
    BY <2>3, OwnDisplayOnly DEF Base, PauseForFiles, EnterPause, At, hookVars, Working, Hooks
  <2>4. CASE CheckPackageFiles(r)
    BY <2>4, OwnDisplayOnly
       DEF Base, CheckPackageFiles, LeaveBracket, At, hookVars, Working, Hooks
  <2>5. CASE Summarise(r)
    <3>1. OwnDisplay(r)
      BY <2>5, OwnDisplayOnly DEF Base, Summarise
    <3>2. HealthResult(r) \in BodyResults
      BY DEF HealthResult, BodyResults
    <3>3. TemplateStep(r)
      BY <2>5, <3>2, HookStep DEF Summarise
    <3>4. QED
      BY <3>1, <3>3
  <2>6. CASE HealthHook(r)
    <3>1. OwnDisplay(r)
      BY <2>6, OwnDisplayOnly DEF Base, HealthHook, LeaveHook
    <3>2. QED
      BY <2>6, <3>1, HookStep DEF HealthHook
  <2>7. QED
    BY <1>2, <2>1, <2>2, <2>3, <2>4, <2>5, <2>6 DEF HealthStep
<1>3. CASE ServicesStep(r)
  <2>1. CASE PreCheckServices(r) \/ Decision(r) \/ ReportFailures(r) \/ ServiceHookEnds(r)
    <3>1. OwnDisplay(r)
      BY <2>1, OwnDisplayOnly
         DEF Base, PreCheckServices, Decision, ReportFailures, ServiceHookEnds
    <3>2. {Ended("partial")} \subseteq BodyResults /\ {"no_work_needed"} \subseteq BodyReasons
      BY DEF BodyResults, BodyReasons
    <3>3. TemplateStep(r)
      BY <2>1, <3>2, HookStep DEF PreCheckServices, Decision, ReportFailures, ServiceHookEnds
    <3>4. QED
      BY <3>1, <3>3
  <2>2. CASE Query(r) \/ Inspect(r)
    BY <2>2 DEF Query, Inspect
  <2>3. CASE Filter(r)
    <3>1. CASE ActualFailures(r) = {}
      <4>1. OwnDisplay(r)
        BY <2>3, OwnDisplayOnly DEF Base, Filter
      <4>2. {Ended("success")} \subseteq BodyResults
        BY DEF BodyResults
      <4>3. QED
        BY <2>3, <3>1, <4>1, <4>2, HookStep DEF Filter
    <3>2. CASE ActualFailures(r) # {}
      BY <2>3, <3>2 DEF Filter, runVars
    <3>3. QED
      BY <3>1, <3>2
  <2>4. QED
    BY <1>3, <2>1, <2>2, <2>3 DEF ServicesStep
<1>4. QED
  BY <1>1, <1>2, <1>3 DEF Move

\* No move breaks what the template promises.
LEMMA MoveKeepsTemplate ==
  ASSUME Base, NEW r \in Runs, Move(r)
  PROVE  RunTypeOK' /\ TemplateInv'
<1>1. RunTypeOK /\ TemplateInv
  BY DEF Base, TypeOK, DisplayTypeOK
<1>2. CASE TemplateStep(r) /\ OwnDisplay(r)
  BY <1>1, <1>2, TemplateKeeps
<1>3. CASE Working(r)
  <2>1. display' \in [Runs -> BOOLEAN]
    BY <1>1, <1>3 DEF Working, OwnDisplay, RunTypeOK
  <2>2. \A q \in Runs : Over(q) => display'[q] = display[q]
    BY <1>1, <1>3 DEF Working, OwnDisplay, RunTypeOK, Over, Hooks
  <2>3. QED
    BY <1>1, <1>3, <2>1, <2>2, DisplayKeeps DEF Working
<1>4. CASE UNCHANGED runVars
  BY <1>1, <1>4, DisplayKeeps DEF runVars, RunTypeOK
<1>5. QED
  BY <1>2, <1>3, <1>4, MoveShape

\* Another run's stage, result and hooks are another process's.
LEMMA MoveOthers ==
  ASSUME Base, NEW r \in Runs, Move(r), NEW q \in Runs, q # r
  PROVE  /\ stage'[q] = stage[q] /\ hooks'[q] = hooks[q] /\ result'[q] = result[q]
         /\ handler'[q] = handler[q] /\ display'[q] = display[q]
<1>1. RunTypeOK
  BY DEF Base, TypeOK, DisplayTypeOK
<1>2. CASE TemplateStep(r) /\ OwnDisplay(r)
  BY <1>1, <1>2, OthersUntouched
<1>3. CASE Working(r)
  BY <1>1, <1>3 DEF Working, OwnDisplay, RunTypeOK
<1>4. CASE UNCHANGED runVars
  BY <1>4 DEF runVars
<1>5. QED
  BY <1>2, <1>3, <1>4, MoveShape

\* Every script of the update tasks is made of steps.
LEMMA ScriptsAreSteps ==
  ASSUME NEW r \in Runs, NEW h
  PROVE  Scripts(r, h) \subseteq Seq(Steps)
<1>1. Up \in Labels /\ Up.in = "none" /\ Up.bar
  BY DEF Up, Labels
<1>2. /\ Spinner \in Seq(Steps) /\ Paused(<<"sudo">>) \in Seq(Steps)
      /\ Paused(<<"sudo", "sudo">>) \in Seq(Steps)
  <2>1. QED
    BY <1>1, SpinnerPath, PausedOne, PausedTwo
<1>3. <<>> \in Seq(Steps) /\ <<"sudo">> \in Seq(Steps) /\ <<"ask">> \in Seq(Steps)
  BY DEF Steps
<1>4. RollbackScripts(r) \subseteq Seq(Steps)
  BY <1>2, <1>3 DEF RollbackScripts
<1>5. MirrorlistScripts(r, h) \subseteq Seq(Steps)
  <2>1. {<<"prewarm", "back_up", "spin", "sudo", "leave">>, <<"prewarm", "sudo">>}
          \subseteq Seq(Steps)
    BY DEF Steps
  <2>2. QED
    BY <1>3, <1>4, <2>1 DEF MirrorlistScripts
<1>6. SystemUpdateScripts(r, h) \subseteq Seq(Steps)
  <2>1. Spinner \o <<"ask">> \in Seq(Steps)
    BY <1>2, <1>3, ConcatProperties
  <2>2. {Upgrade(<<>>), Upgrade(Paused(<<"sudo">>)), <<"bar">> \o Spinner \o Paused(<<"sudo">>)}
          \subseteq Seq(Steps)
    BY UpgradePath, ShortUpgradePath
  <2>3. QED
    BY <1>2, <1>3, <1>4, <2>1, <2>2 DEF SystemUpdateScripts
<1>7. QED
  BY <1>5, <1>6 DEF Scripts

\* g is f, or f with another value from S at r.
Touches(f, g, r, S) == g = f \/ \E v \in S : g = [f EXCEPT ![r] = v]

\* A move changes its own terminal only, and within the types.
LEMMA MoveScreen ==
  ASSUME Base, NEW r \in Runs, Move(r)
  PROVE  /\ UNCHANGED kind
         /\ Touches(bar, bar', r, BOOLEAN) /\ Touches(warm, warm', r, BOOLEAN)
         /\ Touches(saved, saved', r, BOOLEAN) /\ Touches(bracket, bracket', r, Brackets)
         /\ Touches(asking, asking', r, {"nothing", "password", "question"})
         /\ Touches(script, script', r, {None} \cup Seq(Steps))
<1> USE DEF Touches
<1>1. /\ script[r] \in {None} \cup Seq(Steps)
      /\ saved \in [Runs -> BOOLEAN] /\ bar \in [Runs -> BOOLEAN]
  BY DEF Base, TypeOK, DisplayTypeOK
<1>2. script[r] \notin {None, <<>>} => Tail(script[r]) \in Seq(Steps)
  BY <1>1, HeadTailProperties
<1>3. CASE RunStep(r)
  <2>1. CASE Begin(r)
    BY <2>1 DEF Begin, screenVars
  <2>2. CASE CleanUp(r)
    BY <2>2 DEF CleanUp
  <2>3. CASE EnterHook(r)
    BY <2>3, ScriptsAreSteps DEF EnterHook
  <2>4. CASE RenderStep(r)
    BY <1>2, <2>4
       DEF RenderStep, NextIs, StartBar, EnterSpinner, EnterPause, LeaveBracket, Proceed, Brackets
  <2>5. CASE Prompt(r)
    BY <2>5 DEF Prompt, AskPassword, AskQuestion
  <2>6. CASE Reply(r)
    <3>1. kind[r] \in UpdateTasks
      BY <2>6 DEF Base, Hooked, Reply
    <3>2. Answer(r) => script[r] # <<>>
      BY <3>1 DEF Base, Hooked, Answer, Asks
    <3>3. QED
      BY <1>2, <2>6, <3>2 DEF Reply, GivePassword, DeclinePassword, Answer, NextIs, Proceed
  <2>7. CASE Launch(r)
    <3>1. (saved[r] \/ Head(script[r]) = "back_up") \in BOOLEAN
      BY <1>1
    <3>2. Touches(saved, saved', r, BOOLEAN)
      BY <2>7, <3>1 DEF Launch
    <3>3. QED
      BY <1>2, <2>7, <3>2 DEF Launch, NextIs, Proceed
  <2>8. CASE Expire(r)
    BY <2>8 DEF Expire
  <2>9. CASE HookDone(r) \/ HookBreaks(r)
    BY <2>9 DEF HookDone, HookBreaks, LeaveHook, Brackets
  <2>10. CASE AnyHook(r) /\ UNCHANGED <<kind, screenVars>>
    BY <2>10 DEF screenVars
  <2>11. QED
    BY <1>3, <2>1, <2>2, <2>3, <2>4, <2>5, <2>6, <2>7, <2>8, <2>9, <2>10
       DEF RunStep, UpdateStep
<1>4. CASE HealthStep(r)
  BY <1>4 DEF HealthStep, OpenBar, StartBar, MetricCheck, PauseForFiles, EnterPause,
              FilesPassword, AskPassword, GivePassword, CheckPackageFiles, DeclinePassword,
              LeaveBracket, Summarise, HealthHook, LeaveHook, screenVars, Brackets
<1>5. CASE ServicesStep(r) /\ UNCHANGED <<kind, screenVars>>
  BY <1>5 DEF screenVars
<1>6. QED
  BY <1>3, <1>4, <1>5 DEF Move

\* So the other terminals are as they were, and the types are kept.
LEMMA MoveOtherScreens ==
  ASSUME Base, NEW r \in Runs, Move(r)
  PROVE  /\ kind' = kind
         /\ bar' \in [Runs -> BOOLEAN] /\ warm' \in [Runs -> BOOLEAN]
         /\ saved' \in [Runs -> BOOLEAN] /\ bracket' \in [Runs -> Brackets]
         /\ asking' \in [Runs -> {"nothing", "password", "question"}]
         /\ script' \in [Runs -> {None} \cup Seq(Steps)]
         /\ \A q \in Runs \ {r} :
              /\ bar'[q] = bar[q] /\ warm'[q] = warm[q] /\ saved'[q] = saved[q]
              /\ bracket'[q] = bracket[q] /\ asking'[q] = asking[q] /\ script'[q] = script[q]
<1>0. kind' = kind
  BY MoveScreen
<1>1. bar' \in [Runs -> BOOLEAN] /\ \A q \in Runs \ {r} : bar'[q] = bar[q]
  <2>1. Touches(bar, bar', r, BOOLEAN) /\ bar \in [Runs -> BOOLEAN]
    BY MoveScreen DEF Base, TypeOK, DisplayTypeOK
  <2>2. QED
    BY <2>1 DEF Touches
<1>2. warm' \in [Runs -> BOOLEAN] /\ \A q \in Runs \ {r} : warm'[q] = warm[q]
  <2>1. Touches(warm, warm', r, BOOLEAN) /\ warm \in [Runs -> BOOLEAN]
    BY MoveScreen DEF Base, TypeOK, DisplayTypeOK
  <2>2. QED
    BY <2>1 DEF Touches
<1>3. saved' \in [Runs -> BOOLEAN] /\ \A q \in Runs \ {r} : saved'[q] = saved[q]
  <2>1. Touches(saved, saved', r, BOOLEAN) /\ saved \in [Runs -> BOOLEAN]
    BY MoveScreen DEF Base, TypeOK, DisplayTypeOK
  <2>2. QED
    BY <2>1 DEF Touches
<1>4. bracket' \in [Runs -> Brackets] /\ \A q \in Runs \ {r} : bracket'[q] = bracket[q]
  <2>1. Touches(bracket, bracket', r, Brackets) /\ bracket \in [Runs -> Brackets]
    BY MoveScreen DEF Base, TypeOK, DisplayTypeOK
  <2>2. QED
    BY <2>1 DEF Touches
<1>5. asking' \in [Runs -> {"nothing", "password", "question"}] /\ \A q \in Runs \ {r} : asking'[q] = asking[q]
  <2>1. Touches(asking, asking', r, {"nothing", "password", "question"}) /\ asking \in [Runs -> {"nothing", "password", "question"}]
    BY MoveScreen DEF Base, TypeOK, DisplayTypeOK
  <2>2. QED
    BY <2>1 DEF Touches
<1>6. script' \in [Runs -> {None} \cup Seq(Steps)] /\ \A q \in Runs \ {r} : script'[q] = script[q]
  <2>1. Touches(script, script', r, {None} \cup Seq(Steps)) /\ script \in [Runs -> {None} \cup Seq(Steps)]
    BY MoveScreen DEF Base, TypeOK, DisplayTypeOK
  <2>2. QED
    BY <2>1 DEF Touches
<1>7. QED
  BY <1>0, <1>1, <1>2, <1>3, <1>4, <1>5, <1>6

\* A move keeps the scripts to the hooks, and the questions to the scripts.
LEMMA MoveKeepsHooked == ASSUME Base, NEW r \in Runs, Move(r) PROVE Hooked'
<1> DEFINE H(q) == /\ script[q] # None => stage[q] \in Hooks /\ kind[q] \in UpdateTasks
                   /\ kind[q] \in UpdateTasks /\ asking[q] # "nothing" => Asks(q)
<1>1. /\ stage \in [Runs -> Stages] /\ script \in [Runs -> {None} \cup Seq(Steps)]
      /\ asking \in [Runs -> {"nothing", "password", "question"}]
      /\ warm \in [Runs -> BOOLEAN] /\ UNCHANGED kind
  BY MoveScreen DEF Base, TypeOK, DisplayTypeOK, RunTypeOK
<1>2. ASSUME NEW q \in Runs, q # r PROVE H(q)'
  <2>1. /\ stage'[q] = stage[q] /\ script'[q] = script[q] /\ asking'[q] = asking[q]
        /\ warm'[q] = warm[q]
    BY <1>1, <1>2, MoveOthers, MoveOtherScreens
  <2>2. QED
    BY <1>1, <2>1 DEF Base, Hooked, Asks
<1>3. H(r)
  BY DEF Base, Hooked
<1>4. H(r)'
  <2>1. CASE kind[r] \notin UpdateTasks
    <3>1. script[r] = None
      BY <1>3, <2>1
    <3>2. script'[r] = None
      BY <1>1, <2>1, <3>1
         DEF Move, RunStep, Begin, CleanUp, UpdateStep, HealthStep, OpenBar, MetricCheck,
             PauseForFiles, FilesPassword, CheckPackageFiles, Summarise, HealthHook, LeaveHook,
             screenVars
    <3>3. QED
      BY <1>1, <2>1, <3>2
  <2>2. CASE kind[r] \in UpdateTasks
    <3>1. RunStep(r)
      BY <2>2 DEF Move, HealthStep, UpdateTasks
    <3>2. CASE Begin(r) \/ CleanUp(r)
      <4>1. stage[r] \notin Hooks
        BY <3>2 DEF Begin, LoggingReady, LoggingFails, CleanUp, Finally, Hooks
      <4>2. script[r] = None /\ asking[r] = "nothing"
        BY <1>3, <2>2, <4>1 DEF Asks
      <4>3. QED
        BY <3>2, <4>2 DEF Begin, CleanUp, screenVars
    <3>3. CASE EnterHook(r)
      BY <1>1, <1>3, <2>2, <3>3 DEF EnterHook, Asks, runVars
    <3>4. CASE RenderStep(r)
      BY <1>1, <1>3, <2>2, <3>4 DEF RenderStep, NextIs, Proceed, Asks, hookVars
    <3>5. CASE Prompt(r)
      BY <1>1, <1>3, <2>2, <3>5 DEF Prompt, NextIs, AskPassword, AskQuestion, Asks, runVars
    <3>6. CASE Reply(r)
      BY <1>1, <1>3, <2>2, <3>6
         DEF Reply, NextIs, GivePassword, DeclinePassword, Answer, Proceed, runVars
    <3>7. CASE Launch(r)
      BY <1>1, <1>3, <2>2, <3>7 DEF Launch, NextIs, Proceed, Asks, runVars
    <3>8. CASE Expire(r)
      BY <1>1, <1>3, <2>2, <3>8 DEF Expire, Asks, runVars
    <3>9. CASE HookDone(r) \/ HookBreaks(r)
      BY <1>1, <3>9 DEF HookDone, HookBreaks, LeaveHook
    <3>10. QED
      BY <2>2, <3>1, <3>2, <3>3, <3>4, <3>5, <3>6, <3>7, <3>8, <3>9
         DEF RunStep, UpdateStep, UpdateTasks
  <2>3. QED
    BY <2>1, <2>2
<1>5. QED
  BY <1>2, <1>4 DEF Hooked

----------------------------------------------------------------------------
(* The health check.                                                       *)

\* What instrument i may show.
Showable(i) == IF i \in Gauges THEN Percents \cup Loads \cup {Unknown} ELSE Verdicts \cup {Unknown}

\* The check that is due has read its own instruments, and graded them by the
\* settings.
Fits(r, shown, grades) ==
  /\ DOMAIN grades = DOMAIN shown /\ DOMAIN shown \subseteq Instruments
  /\ \A i \in DOMAIN shown :
       /\ shown[i] \in Showable(i) /\ grades[i] = Worth(i, shown[i])
       /\ ReadAfter(i) = checked[r]

\* A reading that could not be taken is worth nothing.
LEMMA UnknownIsFine == ASSUME NEW i PROVE Worth(i, Unknown) = "fine"
<1>1. /\ DiskWarning >= 0 /\ DiskCritical >= 0 /\ MemoryWarning >= 0 /\ MemoryCritical >= 0
      /\ SwapWarning >= 0 /\ CpuWarning >= 0
      /\ {DiskWarning, DiskCritical, MemoryWarning, MemoryCritical, SwapWarning, CpuWarning}
           \subseteq 0..100
  BY SettingsAssumption DEF SettingsValid
<1>2. Unknown # "bad"
  BY UnknownAssumption DEF Verdicts
<1>3. QED
  BY <1>1, <1>2 DEF Worth, Grade, Above, Overloaded, Fault, Shown

\* What a check notes, point by point.
LEMMA NotedEffect ==
  ASSUME Base, NEW r \in Runs, checked[r] < 7, NEW shown, NEW grades,
         Noted(r, shown, grades), Fits(r, shown, grades)
  PROVE  /\ checked'[r] = checked[r] + 1
         /\ issues'[r] = issues[r] \cup {i \in DOMAIN shown : Worth(i, shown[i]) = "issue"}
         /\ warnings'[r] = warnings[r] \cup {i \in DOMAIN shown : Worth(i, shown[i]) = "warning"}
         /\ \A i \in Instruments :
              reading'[r][i] = IF i \in DOMAIN shown THEN shown[i] ELSE reading[r][i]
         /\ \A q \in Runs \ {r} :
              /\ checked'[q] = checked[q] /\ issues'[q] = issues[q]
              /\ warnings'[q] = warnings[q] /\ reading'[q] = reading[q]
         /\ HealthTypeOK' /\ Panel'
<1>1. HealthTypeOK /\ Panel /\ Len(Checks) = 7
  BY DEF Base, TypeOK, Checks
<1>2. checked'[r] = checked[r] + 1 /\ checked' \in [Runs -> 0..Len(Checks)]
  BY <1>1 DEF HealthTypeOK, Noted
<1>3. /\ issues'[r] = issues[r] \cup {i \in DOMAIN shown : Worth(i, shown[i]) = "issue"}
      /\ issues' \in [Runs -> SUBSET Instruments]
  <2>1. {i \in DOMAIN grades : grades[i] = "issue"}
          = {i \in DOMAIN shown : Worth(i, shown[i]) = "issue"}
    BY DEF Fits
  <2>2. {i \in DOMAIN shown : Worth(i, shown[i]) = "issue"} \subseteq Instruments
    BY DEF Fits
  <2>3. QED
    BY <1>1, <2>1, <2>2 DEF HealthTypeOK, Noted
<1>4. /\ warnings'[r] = warnings[r] \cup {i \in DOMAIN shown : Worth(i, shown[i]) = "warning"}
      /\ warnings' \in [Runs -> SUBSET Instruments]
  <2>1. {i \in DOMAIN grades : grades[i] = "warning"}
          = {i \in DOMAIN shown : Worth(i, shown[i]) = "warning"}
    BY DEF Fits
  <2>2. {i \in DOMAIN shown : Worth(i, shown[i]) = "warning"} \subseteq Instruments
    BY DEF Fits
  <2>3. QED
    BY <1>1, <2>1, <2>2 DEF HealthTypeOK, Noted
<1>5. /\ \A i \in Instruments :
           reading'[r][i] = IF i \in DOMAIN shown THEN shown[i] ELSE reading[r][i]
      /\ \A q \in Runs \ {r} :
           /\ checked'[q] = checked[q] /\ issues'[q] = issues[q]
           /\ warnings'[q] = warnings[q] /\ reading'[q] = reading[q]
  BY <1>1 DEF HealthTypeOK, Panel, Noted
<1>6. Panel'
  BY <1>1 DEF Panel, Noted
<1>7. ASSUME NEW q \in Runs, NEW i \in Instruments PROVE reading'[q][i] \in Showable(i)
  <2>1. reading[q][i] \in Showable(i)
    BY <1>1, <1>7 DEF HealthTypeOK, Showable, Instruments
  <2>2. QED
    BY <1>5, <2>1 DEF Fits
<1>8. HealthTypeOK'
  <2>1. \A q \in Runs, i \in Gauges : reading'[q][i] \in Percents \cup Loads \cup {Unknown}
    BY <1>7 DEF Showable, Instruments
  <2>2. \A q \in Runs, i \in Inspections : reading'[q][i] \in Verdicts \cup {Unknown}
    BY <1>7 DEF Showable, Instruments, Gauges, Inspections
  <2>3. QED
    BY <1>2, <1>3, <1>4, <2>1, <2>2 DEF HealthTypeOK
<1>9. QED
  BY <1>2, <1>3, <1>4, <1>5, <1>6, <1>8

\* A check that fits leaves the lists what the readings are worth.
LEMMA NotedKeeps ==
  ASSUME Base, NEW r \in Runs, Found(r), Unread(r), checked[r] < 7, NEW shown, NEW grades,
         Noted(r, shown, grades), Fits(r, shown, grades)
  PROVE  Found(r)' /\ Unread(r)'
<1>1. checked[r] \in Nat
  BY DEF Base, TypeOK, HealthTypeOK, Checks
<1>2. \A i \in Instruments : ReadAfter(i) \in Nat
  BY DEF ReadAfter
<1>3. \A i \in DOMAIN shown : reading[r][i] = Unknown /\ Worth(i, reading[r][i]) = "fine"
  BY <1>1, UnknownIsFine DEF Fits, Unread
<1>4. /\ issues'[r] = issues[r] \cup {i \in DOMAIN shown : Worth(i, shown[i]) = "issue"}
      /\ warnings'[r] = warnings[r] \cup {i \in DOMAIN shown : Worth(i, shown[i]) = "warning"}
      /\ \A i \in Instruments :
           reading'[r][i] = IF i \in DOMAIN shown THEN shown[i] ELSE reading[r][i]
      /\ checked'[r] = checked[r] + 1 /\ DOMAIN shown \subseteq Instruments
      /\ \A i \in DOMAIN shown : ReadAfter(i) = checked[r]
  BY NotedEffect DEF Fits
<1>5. issues'[r] = {i \in Instruments : Worth(i, reading'[r][i]) = "issue"}
  BY <1>3, <1>4 DEF Found, Graded
<1>6. warnings'[r] = {i \in Instruments : Worth(i, reading'[r][i]) = "warning"}
  BY <1>3, <1>4 DEF Found, Graded
<1>7. Found(r)'
  BY <1>5, <1>6 DEF Found, Graded, Worth, Grade, Above, Overloaded, Fault, Shown
<1>8. \A i \in Instruments : checked'[r] <= ReadAfter(i) => reading'[r][i] = Unknown
  BY <1>1, <1>2, <1>4 DEF Unread
<1>9. Unread(r)'
  BY <1>8 DEF Unread, ReadAfter
<1>10. QED
  BY <1>7, <1>9

\* Which check is due says how many are done.
LEMMA AtIndex ==
  ASSUME Base, NEW r \in Runs, NEW check, At(r, check)
  PROVE  /\ checked[r] \in 0..6
         /\ check = "disk" => checked[r] = 0
         /\ check = "memory" => checked[r] = 1
         /\ check = "cpu" => checked[r] = 2
         /\ check = "filesystem" => checked[r] = 3
         /\ check = "database" => checked[r] = 4
         /\ check = "files" => checked[r] = 5
         /\ check = "uptime" => checked[r] = 6
<1>1. checked[r] \in 0..7 /\ checked[r] < 7 /\ Checks[checked[r] + 1] = check
  BY DEF Base, TypeOK, HealthTypeOK, At, Checks
<1>2. /\ Checks[1] = "disk" /\ Checks[2] = "memory" /\ Checks[3] = "cpu"
      /\ Checks[4] = "filesystem" /\ Checks[5] = "database" /\ Checks[6] = "files"
      /\ Checks[7] = "uptime"
  BY DEF Checks
<1>3. \/ checked[r] = 0 \/ checked[r] = 1 \/ checked[r] = 2 \/ checked[r] = 3
      \/ checked[r] = 4 \/ checked[r] = 5 \/ checked[r] = 6
  BY <1>1
<1>4. QED
  BY <1>1, <1>2, <1>3

\* Every check grades its own instruments by the settings.
LEMMA ChecksFit ==
  ASSUME Base, NEW r \in Runs, MetricCheck(r) \/ CheckPackageFiles(r)
  PROVE  /\ checked[r] < 7
         /\ \E shown, grades : Noted(r, shown, grades) /\ Fits(r, shown, grades)
<1> USE DEF Fits, Showable, Instruments, Gauges, Inspections, Worth, ReadAfter
<1>1. CASE CheckDiskSpace(r)
  <2>1. checked[r] = 0
    BY <1>1, AtIndex DEF CheckDiskSpace
  <2>2. PICK s \in Readings({"disk"}) :
          Noted(r, s, [disk |-> Grade(s["disk"], DiskWarning, DiskCritical)])
    BY <1>1 DEF CheckDiskSpace
  <2>3. DOMAIN s = {"disk"} /\ s["disk"] \in Percents \cup {Unknown}
    BY <2>2 DEF Readings
  <2>4. Fits(r, s, [disk |-> Grade(s["disk"], DiskWarning, DiskCritical)])
    BY <2>1, <2>3
  <2>5. QED
    BY <2>1, <2>2, <2>4
<1>2. CASE CheckMemoryUsage(r)
  <2>1. checked[r] = 1
    BY <1>2, AtIndex DEF CheckMemoryUsage
  <2>2. PICK s \in Readings({"memory", "swap"}) :
          Noted(r, s, [memory |-> Grade(s["memory"], MemoryWarning, MemoryCritical),
                       swap |-> Above(s["swap"], SwapWarning)])
    BY <1>2 DEF CheckMemoryUsage
  <2>3. /\ DOMAIN s = {"memory", "swap"}
        /\ s["memory"] \in Percents \cup {Unknown} /\ s["swap"] \in Percents \cup {Unknown}
    BY <2>2 DEF Readings
  <2>4. Fits(r, s, [memory |-> Grade(s["memory"], MemoryWarning, MemoryCritical),
                    swap |-> Above(s["swap"], SwapWarning)])
    BY <2>1, <2>3
  <2>5. QED
    BY <2>1, <2>2, <2>4
<1>3. CASE CheckCpuLoad(r)
  <2>1. checked[r] = 2
    BY <1>3, AtIndex DEF CheckCpuLoad
  <2>2. PICK c \in Percents \cup {Unknown}, l \in Loads \cup {Unknown} :
          Noted(r, [cpu |-> c, load |-> l],
                [cpu |-> Above(c, CpuWarning), load |-> Overloaded(l)])
    BY <1>3 DEF CheckCpuLoad
  <2>3. Fits(r, [cpu |-> c, load |-> l],
             [cpu |-> Above(c, CpuWarning), load |-> Overloaded(l)])
    BY <2>1
  <2>4. QED
    BY <2>1, <2>2, <2>3
<1>4. CASE CheckFilesystemErrors(r)
  <2>1. checked[r] = 3
    BY <1>4, AtIndex DEF CheckFilesystemErrors
  <2>2. PICK v \in Verdicts \cup {Unknown} :
          Noted(r, [filesystem |-> v], [filesystem |-> Fault(v)])
    BY <1>4 DEF CheckFilesystemErrors
  <2>3. Fits(r, [filesystem |-> v], [filesystem |-> Fault(v)])
    BY <2>1
  <2>4. QED
    BY <2>1, <2>2, <2>3
<1>5. CASE CheckPacmanDatabase(r)
  <2>1. checked[r] = 4
    BY <1>5, AtIndex DEF CheckPacmanDatabase
  <2>2. PICK v \in Verdicts : Noted(r, [database |-> v], [database |-> Fault(v)])
    BY <1>5 DEF CheckPacmanDatabase
  <2>3. Fits(r, [database |-> v], [database |-> Fault(v)])
    BY <2>1
  <2>4. QED
    BY <2>1, <2>2, <2>3
<1>6. CASE CheckPackageFiles(r)
  <2>1. checked[r] = 5
    BY <1>6, AtIndex DEF CheckPackageFiles
  <2>2. PICK v \in Verdicts : Noted(r, [files |-> v], [files |-> Fault(v)])
    BY <1>6 DEF CheckPackageFiles, Verdicts
  <2>3. Fits(r, [files |-> v], [files |-> Fault(v)])
    BY <2>1
  <2>4. QED
    BY <2>1, <2>2, <2>3
<1>7. CASE CheckUptime(r)
  <2>1. checked[r] = 6
    BY <1>7, AtIndex DEF CheckUptime
  <2>2. Noted(r, <<>>, <<>>) /\ Fits(r, <<>>, <<>>)
    BY <1>7 DEF CheckUptime
  <2>3. QED
    BY <2>1, <2>2
<1>8. QED
  BY <1>1, <1>2, <1>3, <1>4, <1>5, <1>6, <1>7 DEF MetricCheck

\* The verdict of the run depends on its lists alone.
LEMMA SameVerdict ==
  ASSUME NEW r, issues'[r] = issues[r], warnings'[r] = warnings[r]
  PROVE  HealthResult(r)' = HealthResult(r)
BY DEF HealthResult

\* A step of the health check that takes no reading keeps the verdict to come.
LEMMA SummaryKept ==
  ASSUME Base, NEW r \in Runs, kind[r] = "health-check", Summarised(r),
         Move(r), UNCHANGED healthVars
  PROVE  Summarised(r)'
<1>1. RunTypeOK /\ kind' = kind /\ HealthResult(r)' = HealthResult(r)
  BY MoveOtherScreens, SameVerdict DEF Base, TypeOK, DisplayTypeOK, healthVars
<1>2. CASE Begin(r)
  BY <1>1, <1>2 DEF Begin, LoggingReady, LoggingFails, Summarised, RunTypeOK
<1>3. CASE CleanUp(r)
  <2>1. /\ stage[r] = "finally" /\ result'[r] = result[r] /\ hooks'[r] = hooks[r]
        /\ stage'[r] # "post_execute"
    BY <1>1, <1>3 DEF CleanUp, Finally, RunTypeOK
  <2>2. QED
    BY <1>1, <2>1 DEF Summarised, Unharmed
<1>4. CASE OpenBar(r) \/ PauseForFiles(r) \/ FilesPassword(r)
           \/ MetricCheck(r) \/ CheckPackageFiles(r)
  <2>1. stage'[r] = stage[r] /\ result'[r] = result[r] /\ hooks'[r] = hooks[r]
    BY <1>4 DEF OpenBar, PauseForFiles, FilesPassword, MetricCheck, CheckPackageFiles, hookVars, runVars
  <2>2. QED
    BY <1>1, <2>1 DEF Summarised, Unharmed
<1>5. CASE Summarise(r)
  <2>1. result'[r] = HealthResult(r) /\ stage'[r] = "post_execute"
    BY <1>1, <1>5 DEF Summarise, ExecuteReturns, HookReturns, Ends, RunTypeOK
  <2>2. QED
    BY <1>1, <2>1 DEF Summarised
<1>6. CASE HealthHook(r)
  <2>1. CASE PreCheckPasses(r) \/ ShouldRun(r)
    <3>1. stage'[r] \in {"should_run", "execute"}
      BY <1>1, <2>1 DEF PreCheckPasses, ShouldRun, HookPasses, Ends, RunTypeOK
    <3>2. QED
      BY <3>1 DEF Summarised
  <2>2. CASE PostExecuteReturns(r)
    <3>1. stage[r] = "post_execute" /\ stage'[r] = "finally" /\ result'[r] = result[r]
      BY <1>1, <2>2 DEF PostExecuteReturns, HookPasses, Ends, RunTypeOK
    <3>2. QED
      BY <1>1, <3>1 DEF Summarised
  <2>3. CASE RollbackEnds(r)
    <3>1. stage'[r] = "finally" /\ hooks'[r]["rollback"] \in {"returned", "raised"}
      BY <1>1, <2>3 DEF RollbackEnds, Ends, RunTypeOK, Hooks
    <3>2. QED
      BY <3>1 DEF Summarised, Unharmed
  <2>4. CASE \E h \in Hooks : HookRaises(r, h)
    <3>1. stage'[r] = "rollback"
      BY <1>1, <2>4 DEF HookRaises, Ends, RunTypeOK
    <3>2. QED
      BY <3>1 DEF Summarised
  <2>5. CASE \E h \in Hooks : HookInterrupted(r, h)
    <3>1. stage'[r] = "finally" /\ result'[r] = None
      BY <1>1, <2>5 DEF HookInterrupted, Ends, RunTypeOK
    <3>2. QED
      BY <3>1 DEF Summarised, Unharmed
  <2>6. QED
    BY <1>6, <2>1, <2>2, <2>3, <2>4, <2>5 DEF HealthHook
<1>7. QED
  BY <1>2, <1>3, <1>4, <1>5, <1>6 DEF Move, RunStep, HealthStep, UpdateStep, UpdateTasks

\* A move keeps what the health checks have found.
LEMMA MoveKeepsHealth ==
  ASSUME Base, \A q \in Runs : HealthInv(q), NEW r \in Runs, Move(r)
  PROVE  HealthTypeOK' /\ Panel' /\ \A q \in Runs : HealthInv(q)'
<1>1. kind' = kind
  BY MoveOtherScreens
<1>2. ASSUME NEW q \in Runs, q # r,
             checked'[q] = checked[q], issues'[q] = issues[q],
             warnings'[q] = warnings[q], reading'[q] = reading[q]
      PROVE  HealthInv(q)'
  <2>1. stage'[q] = stage[q] /\ hooks'[q] = hooks[q] /\ result'[q] = result[q]
    BY <1>2, MoveOthers
  <2>2. HealthResult(q)' = HealthResult(q)
    BY <1>2, SameVerdict
  <2>3. HealthInv(q)
    BY <1>2
  <2>4. Found(q)' /\ Unread(q)'
    BY <1>2, <2>3 DEF HealthInv, Found, Graded, Unread
  <2>5. Summarised(q)'
    BY <1>1, <2>1, <2>2, <2>3 DEF HealthInv, Summarised, Unharmed
  <2>6. QED
    BY <2>4, <2>5 DEF HealthInv
<1>3. CASE kind[r] = "health-check" /\ (MetricCheck(r) \/ CheckPackageFiles(r))
  <2>1. PICK shown, grades : Noted(r, shown, grades) /\ Fits(r, shown, grades)
    BY <1>3, ChecksFit
  <2>2. checked[r] < 7
    BY <1>3, ChecksFit
  <2>3. Found(r) /\ Unread(r)
    BY DEF HealthInv
  <2>4. Found(r)' /\ Unread(r)'
    BY <2>1, <2>2, <2>3, NotedKeeps
  <2>5. stage'[r] = "execute"
    BY <1>3 DEF MetricCheck, CheckPackageFiles, CheckDiskSpace, CheckMemoryUsage, CheckCpuLoad,
                CheckFilesystemErrors, CheckPacmanDatabase, CheckUptime, At, hookVars, runVars
  <2>6. HealthInv(r)'
    BY <2>4, <2>5 DEF HealthInv, Summarised
  <2>7. /\ HealthTypeOK' /\ Panel'
        /\ \A q \in Runs \ {r} :
              /\ checked'[q] = checked[q] /\ issues'[q] = issues[q]
              /\ warnings'[q] = warnings[q] /\ reading'[q] = reading[q]
    BY <2>1, <2>2, NotedEffect
  <2>8. QED
    BY <1>2, <2>6, <2>7
<1>4. CASE UNCHANGED healthVars
  <2>1. HealthTypeOK' /\ Panel'
    BY <1>4 DEF Base, TypeOK, HealthTypeOK, Panel, healthVars
  <2>2. Found(r)' /\ Unread(r)'
    BY <1>4 DEF HealthInv, Found, Graded, Unread, healthVars
  <2>3. Summarised(r)'
    <3>1. CASE kind[r] = "health-check"
      BY <1>4, <3>1, SummaryKept DEF HealthInv
    <3>2. CASE kind[r] # "health-check"
      BY <1>1, <3>2 DEF Summarised
    <3>3. QED
      BY <3>1, <3>2
  <2>4. HealthInv(r)'
    BY <2>2, <2>3 DEF HealthInv
  <2>5. QED
    BY <1>2, <1>4, <2>1, <2>4 DEF healthVars
<1>5. UNCHANGED healthVars \/ (kind[r] = "health-check" /\ (MetricCheck(r) \/ CheckPackageFiles(r)))
  BY DEF Move, RunStep, HealthStep, OpenBar, PauseForFiles, FilesPassword, Summarise, HealthHook
<1>6. QED
  BY <1>3, <1>4, <1>5

----------------------------------------------------------------------------
(* The failed services.                                                    *)

\* Whatever a unit does, the state it is reported in has a name.
LEMMA StatesNamed == \A u : StateOf(u) \subseteq ActiveStates
BY DEF StateOf, ActiveStates

\* A move changes what its own run has found, within the types, and no unit.
LEMMA MoveServices ==
  ASSUME Base, NEW r \in Runs, ServicesInv(r), Move(r)
  PROVE  /\ failed' = failed /\ ignored' = ignored
         /\ Touches(found, found', r, {None} \cup SUBSET Units)
         /\ Touches(todo, todo', r, {None} \cup SUBSET Units)
         /\ Touches(details, details', r, SUBSET Reports)
         /\ Touches(lasting, lasting', r, SUBSET Units)
         /\ Touches(blind, blind', r, BOOLEAN)
<1> USE DEF Touches
<1>1. CASE UNCHANGED <<unitVars, serviceVars>>
  BY <1>1 DEF unitVars, serviceVars
<1>2. CASE ServicesStep(r) /\ UNCHANGED unitVars
  <2>1. /\ failed \subseteq Units /\ found[r] \in {None} \cup SUBSET Units
        /\ todo[r] \in {None} \cup SUBSET Units
        /\ details[r] \subseteq Reports /\ blind[r] \in BOOLEAN
        /\ failed' = failed /\ ignored' = ignored
    BY <1>2 DEF Base, TypeOK, ServicesTypeOK, unitVars
  <2>2. CASE PreCheckServices(r)
    BY <2>1, <2>2 DEF PreCheckServices
  <2>3. CASE Query(r)
    <3>1. PICK answered \in BOOLEAN :
            /\ found' = [found EXCEPT ![r] = IF answered THEN failed ELSE {}]
            /\ blind' = [blind EXCEPT ![r] = @ \/ ~answered]
      BY <2>3 DEF Query
    <3>2. (IF answered THEN failed ELSE {}) \in {None} \cup SUBSET Units
      BY <2>1
    <3>3. (blind[r] \/ ~answered) \in BOOLEAN
      BY <2>1
    <3>4. blind' = [blind EXCEPT ![r] = blind[r] \/ ~answered]
      BY <3>1
    <3>5. Touches(found, found', r, {None} \cup SUBSET Units)
      BY <3>1, <3>2
    <3>6. Touches(blind, blind', r, BOOLEAN)
      BY <3>3, <3>4
    <3>7. QED
      BY <2>1, <2>3, <3>5, <3>6 DEF Query
  <2>4. CASE Decision(r)
    BY <2>1, <2>4 DEF Decision
  <2>5. CASE Filter(r)
    <3>1. ActualFailures(r) \in SUBSET Units
      BY <2>1, <2>5 DEF Filter, ActualFailures
    <3>2. QED
      BY <2>1, <2>5, <3>1 DEF Filter
  <2>6. CASE Inspect(r)
    <3>1. PICK u \in todo[r], state \in ActiveStates :
            /\ details' = [details EXCEPT ![r] =
                 details[r] \cup {[unit |-> u, active |-> state]}]
            /\ todo' = [todo EXCEPT ![r] = todo[r] \ {u}]
      BY <2>6, StatesNamed DEF Inspect
    <3>2. todo[r] \in SUBSET Units
      BY <2>1, <2>6 DEF Inspect
    <3>3. details[r] \cup {[unit |-> u, active |-> state]} \in SUBSET Reports
      BY <2>1, <3>2 DEF Reports
    <3>4. QED
      BY <2>1, <2>6, <3>1, <3>2, <3>3 DEF Inspect
  <2>7. CASE ReportFailures(r) \/ ServiceHookEnds(r)
    BY <2>1, <2>7 DEF ReportFailures, ServiceHookEnds, serviceVars
  <2>8. QED
    BY <1>2, <2>2, <2>3, <2>4, <2>5, <2>6, <2>7 DEF ServicesStep
<1>3. QED
  BY <1>1, <1>2 DEF Move, RunStep

\* So the other runs have found what they had, and the types are kept.
LEMMA MoveOtherServices ==
  ASSUME Base, NEW r \in Runs, ServicesInv(r), Move(r)
  PROVE  /\ failed' = failed /\ ignored' = ignored /\ ServicesTypeOK'
         /\ \A q \in Runs \ {r} :
              /\ found'[q] = found[q] /\ todo'[q] = todo[q] /\ details'[q] = details[q]
              /\ lasting'[q] = lasting[q] /\ blind'[q] = blind[q]
<1>1. ServicesTypeOK /\ failed' = failed /\ ignored' = ignored
  BY MoveServices DEF Base, TypeOK
<1>2. /\ found' \in [Runs -> {None} \cup SUBSET Units]
      /\ \A q \in Runs \ {r} : found'[q] = found[q]
  <2>1. Touches(found, found', r, {None} \cup SUBSET Units)
    BY MoveServices
  <2>2. QED
    BY <1>1, <2>1 DEF Touches, ServicesTypeOK
<1>3. details' \in [Runs -> SUBSET Reports] /\ \A q \in Runs \ {r} : details'[q] = details[q]
  <2>1. Touches(details, details', r, SUBSET Reports)
    BY MoveServices
  <2>2. QED
    BY <1>1, <2>1 DEF Touches, ServicesTypeOK
<1>4. lasting' \in [Runs -> SUBSET Units] /\ \A q \in Runs \ {r} : lasting'[q] = lasting[q]
  <2>1. Touches(lasting, lasting', r, SUBSET Units)
    BY MoveServices
  <2>2. QED
    BY <1>1, <2>1 DEF Touches, ServicesTypeOK
<1>5. blind' \in [Runs -> BOOLEAN] /\ \A q \in Runs \ {r} : blind'[q] = blind[q]
  <2>1. Touches(blind, blind', r, BOOLEAN)
    BY MoveServices
  <2>2. QED
    BY <1>1, <2>1 DEF Touches, ServicesTypeOK
<1>6. /\ todo' \in [Runs -> {None} \cup SUBSET Units]
      /\ \A q \in Runs \ {r} : todo'[q] = todo[q]
  <2>1. Touches(todo, todo', r, {None} \cup SUBSET Units)
    BY MoveServices
  <2>2. QED
    BY <1>1, <2>1 DEF Touches, ServicesTypeOK
<1>7. QED
  BY <1>1, <1>2, <1>3, <1>4, <1>5, <1>6 DEF ServicesTypeOK

\* Neither query of a run loses a unit that has been failed since it began.
LEMMA ServicesStepKeeps ==
  ASSUME Base, NEW r \in Runs, ServicesInv(r), Move(r), kind[r] = "failed-services",
         ServicesStep(r)
  PROVE  ServicesInv(r)'
<1>1. /\ RunTypeOK /\ ServicesTypeOK /\ kind' = kind /\ failed' = failed /\ ignored' = ignored
      /\ stage[r] \in Stages
  BY MoveOtherScreens, MoveOtherServices DEF Base, TypeOK, DisplayTypeOK, RunTypeOK
<1>2. \A us \in SUBSET Units : us # None
  BY NamesAreNoUnits
<1>3. /\ lasting[r] \subseteq failed \ Ignored(ignored) /\ kind'[r] = "failed-services"
      /\ Ignored(ignored)' = Ignored(ignored)
  BY <1>1 DEF ServicesInv, Ignored
<1>4. lasting[r] \subseteq found[r] => lasting[r] \subseteq ActualFailures(r)
  BY <1>3 DEF ActualFailures
<1>5. CASE PreCheckServices(r)
  <2>1. details'[r] = details[r] /\ found'[r] = found[r] /\ todo'[r] = todo[r]
    BY <1>5 DEF PreCheckServices
  <2>2. CASE PreCheckPasses(r) /\ lasting' = [lasting EXCEPT ![r] = failed \ Ignored(ignored)]
    <3>1. stage[r] = "pre_check" /\ stage'[r] = "should_run"
      BY <1>1, <2>2 DEF PreCheckPasses, HookPasses, Ends, RunTypeOK
    <3>2. lasting'[r] = failed \ Ignored(ignored)
      BY <1>1, <2>2 DEF ServicesTypeOK
    <3>3. QED
      BY <1>1, <1>3, <2>1, <3>1, <3>2 DEF ServicesInv, Told
  <2>3. CASE PreCheckFails(r) /\ UNCHANGED lasting
    <3>1. stage[r] = "pre_check" /\ stage'[r] = "finally" /\ result'[r] = Skipped("dependency_failed")
      BY <1>1, <2>3 DEF PreCheckFails, HookReturns, Ends, RunTypeOK
    <3>2. ~Told(r)'
      BY <3>1 DEF Told, Skipped
    <3>3. QED
      BY <1>1, <1>3, <2>1, <2>3, <3>1, <3>2 DEF ServicesInv
  <2>4. QED
    BY <1>5, <2>2, <2>3 DEF PreCheckServices
<1>6. CASE Query(r)
  <2>1. /\ stage' = stage /\ details' = details /\ todo' = todo /\ lasting' = lasting
        /\ stage[r] \in {"should_run", "execute"}
    BY <1>6 DEF Query, runVars
  <2>2. PICK answered \in BOOLEAN :
          /\ found' = [found EXCEPT ![r] = IF answered THEN failed ELSE {}]
          /\ blind' = [blind EXCEPT ![r] = blind[r] \/ ~answered]
    BY <1>6 DEF Query
  <2>3. found'[r] = (IF answered THEN failed ELSE {}) /\ (blind'[r] <=> blind[r] \/ ~answered)
    BY <1>1, <2>2 DEF ServicesTypeOK
  <2>4. found'[r] # None
    BY <1>1, <1>2, <2>3 DEF ServicesTypeOK
  <2>5. ~blind'[r] => lasting'[r] \subseteq found'[r] /\ ~blind[r]
    BY <1>3, <2>1, <2>3
  <2>6. Reported(r)' = Reported(r)
    BY <2>1 DEF Reported
  <2>7. QED
    BY <1>1, <1>3, <2>1, <2>4, <2>5, <2>6 DEF ServicesInv, Told
<1>7. CASE Decision(r)
  <2>1. /\ stage[r] = "should_run" /\ found[r] # None /\ found'[r] = None
        /\ details' = details /\ todo' = todo /\ lasting' = lasting /\ blind' = blind
    BY <1>1, <1>7 DEF Decision, ServicesTypeOK
  <2>2. todo[r] = None
    BY <2>1 DEF ServicesInv
  <2>3. stage'[r] = IF ActualFailures(r) = {} THEN "finally" ELSE "execute"
    BY <1>1, <1>7
       DEF Decision, ShouldSkip, ShouldRun, HookReturns, HookPasses, Ends, RunTypeOK
  <2>4. CASE ActualFailures(r) = {}
    <3>1. ~blind[r] => lasting[r] = {}
      BY <1>4, <2>1, <2>2, <2>4 DEF ServicesInv
    <3>2. QED
      BY <1>1, <1>3, <2>1, <2>2, <2>3, <2>4, <3>1 DEF ServicesInv
  <2>5. CASE ActualFailures(r) # {}
    BY <1>1, <1>3, <2>1, <2>2, <2>3, <2>5 DEF ServicesInv, Told
  <2>6. QED
    BY <2>4, <2>5
<1>8. CASE Filter(r)
  <2>1. /\ stage[r] = "execute" /\ found[r] # None /\ todo[r] = None
        /\ found' = found /\ details' = details /\ lasting' = lasting /\ blind' = blind
    BY <1>8 DEF Filter
  <2>2. ~blind[r] => lasting[r] \subseteq ActualFailures(r)
    BY <1>4, <2>1 DEF ServicesInv
  <2>3. CASE ActualFailures(r) = {}
    <3>1. stage'[r] = "post_execute"
      BY <1>1, <1>8, <2>3 DEF Filter, ExecuteReturns, HookReturns, Ends, RunTypeOK
    <3>2. QED
      BY <1>1, <1>3, <2>1, <2>2, <2>3, <3>1 DEF ServicesInv
  <2>4. CASE ActualFailures(r) # {}
    <3>1. stage' = stage /\ todo'[r] = ActualFailures(r)
      BY <1>1, <1>8, <2>4 DEF Filter, ServicesTypeOK
    <3>2. todo'[r] # None
      <4>1. ActualFailures(r) \in SUBSET Units
        BY <1>1, <2>1 DEF ActualFailures, ServicesTypeOK
      <4>2. QED
        BY <1>2, <3>1, <4>1
    <3>3. QED
      BY <1>1, <1>3, <2>1, <2>2, <3>1, <3>2 DEF ServicesInv, Told
  <2>5. QED
    BY <2>3, <2>4
<1>9. CASE Inspect(r)
  <2>1. PICK u \in todo[r], state \in ActiveStates :
          /\ details' = [details EXCEPT ![r] =
               details[r] \cup {[unit |-> u, active |-> state]}]
          /\ todo' = [todo EXCEPT ![r] = todo[r] \ {u}]
    BY <1>9, StatesNamed DEF Inspect
  <2>2. /\ stage[r] = "execute" /\ todo[r] # None /\ stage' = stage
        /\ found' = found /\ lasting' = lasting /\ blind' = blind
    BY <1>9 DEF Inspect, runVars
  <2>3. /\ details'[r] = details[r] \cup {[unit |-> u, active |-> state]}
        /\ todo'[r] = todo[r] \ {u}
    BY <1>1, <2>1 DEF ServicesTypeOK
  <2>4. Reported(r) \cup {u} \subseteq Reported(r)'
    <3>1. ASSUME NEW d \in details[r] \cup {[unit |-> u, active |-> state]}
          PROVE  d.unit \in Reported(r)'
      BY <2>3, <3>1 DEF Reported
    <3>2. u \in Reported(r)'
      <4>1. [unit |-> u, active |-> state].unit \in Reported(r)'
        BY <3>1
      <4>2. QED
        BY <4>1
    <3>3. QED
      BY <3>1, <3>2 DEF Reported
  <2>5. todo'[r] # None
    <3>1. todo'[r] \in SUBSET Units
      BY <1>1, <2>2, <2>3 DEF ServicesTypeOK
    <3>2. QED
      BY <1>2, <3>1
  <2>6. ~blind[r] => lasting[r] \subseteq todo'[r] \cup Reported(r)'
    BY <2>2, <2>3, <2>4 DEF ServicesInv
  <2>7. QED
    BY <1>1, <1>3, <2>2, <2>5, <2>6 DEF ServicesInv, Told
<1>10. CASE ReportFailures(r)
  <2>1. /\ stage[r] = "execute" /\ stage'[r] = "post_execute"
        /\ todo[r] = {} /\ todo[r] # None
        /\ details' = details /\ lasting' = lasting /\ blind' = blind
    BY <1>1, <1>2, <1>10 DEF ReportFailures, ExecuteReturns, HookReturns, Ends, RunTypeOK, serviceVars
  <2>2. Reported(r)' = Reported(r)
    BY <2>1 DEF Reported
  <2>3. QED
    BY <1>1, <1>3, <2>1, <2>2 DEF ServicesInv
<1>11. CASE ServiceHookEnds(r)
  <2>1. /\ found' = found /\ todo' = todo /\ details' = details
        /\ lasting' = lasting /\ blind' = blind
    BY <1>11 DEF ServiceHookEnds, serviceVars
  <2>2. stage'[r] \in {"finally", "rollback"} /\ (Told(r)' => Told(r))
    <3>1. CASE PostExecuteReturns(r)
      <4>1. stage[r] = "post_execute" /\ stage'[r] = "finally" /\ result'[r] = result[r]
        BY <1>1, <3>1 DEF PostExecuteReturns, HookPasses, Ends, RunTypeOK
      <4>2. QED
        BY <4>1 DEF Told
    <3>2. CASE RollbackEnds(r)
      <4>1. stage'[r] = "finally" /\ result'[r] = Ended("failure")
        BY <1>1, <3>2 DEF RollbackEnds, Ends, RunTypeOK
      <4>2. QED
        BY <4>1 DEF Told, Ended
    <3>3. CASE \E h \in Hooks : HookRaises(r, h)
      BY <1>1, <3>3 DEF HookRaises, Ends, RunTypeOK, Told
    <3>4. CASE \E h \in Hooks : HookInterrupted(r, h)
      BY <1>1, <3>4 DEF HookInterrupted, Ends, RunTypeOK, Told
    <3>5. QED
      BY <1>11, <3>1, <3>2, <3>3, <3>4 DEF ServiceHookEnds
  <2>3. Reported(r)' = Reported(r)
    BY <2>1 DEF Reported
  <2>4. QED
    BY <1>1, <1>3, <2>1, <2>2, <2>3 DEF ServicesInv
<1>12. QED
  BY <1>5, <1>6, <1>7, <1>8, <1>9, <1>10, <1>11 DEF ServicesStep

\* Neither does any other step.
LEMMA MoveKeepsServices ==
  ASSUME Base, \A q \in Runs : ServicesInv(q), NEW r \in Runs, Move(r)
  PROVE  ServicesTypeOK' /\ \A q \in Runs : ServicesInv(q)'
<1>1. /\ RunTypeOK /\ kind' = kind /\ failed' = failed /\ ignored' = ignored
      /\ ServicesTypeOK'
  BY MoveOtherScreens, MoveOtherServices DEF Base, TypeOK, DisplayTypeOK
<1>2. ASSUME NEW q \in Runs, q # r PROVE ServicesInv(q)'
  <2>1. /\ stage'[q] = stage[q] /\ result'[q] = result[q] /\ found'[q] = found[q]
        /\ todo'[q] = todo[q] /\ details'[q] = details[q]
        /\ lasting'[q] = lasting[q] /\ blind'[q] = blind[q]
    BY <1>2, MoveOthers, MoveOtherServices
  <2>2. QED
    BY <1>1, <2>1 DEF ServicesInv, Ignored, Reported, Told
<1>3. CASE kind[r] # "failed-services"
  <2>1. UNCHANGED serviceVars
    BY <1>3 DEF Move, RunStep
  <2>2. ServicesInv(r)
    OBVIOUS
  <2>3. ServicesInv(r)'
    BY <1>1, <1>3, <2>1, <2>2 DEF ServicesInv, Ignored, serviceVars
  <2>4. QED
    BY <1>1, <1>2, <2>3
<1>4. CASE kind[r] = "failed-services" /\ ServicesStep(r)
  <2>1. ServicesInv(r)'
    BY <1>4, ServicesStepKeeps
  <2>2. QED
    BY <1>1, <1>2, <2>1
<1>5. CASE kind[r] = "failed-services" /\ (Begin(r) \/ CleanUp(r)) /\ UNCHANGED serviceVars
  <2>1. /\ found' = found /\ todo' = todo /\ details' = details
        /\ lasting' = lasting /\ blind' = blind /\ ServicesInv(r)
    BY <1>5 DEF serviceVars
  <2>2. /\ stage'[r] \in {"pre_check", "escaped", "returned"} /\ (Told(r)' => Told(r))
        /\ stage'[r] = "pre_check" => stage[r] = "start"
    <3>1. CASE Begin(r)
      BY <1>1, <3>1 DEF Begin, LoggingReady, LoggingFails, RunTypeOK, Told
    <3>2. CASE CleanUp(r)
      <4>1. stage[r] = "finally" /\ stage'[r] \in {"escaped", "returned"} /\ result' = result
        BY <1>1, <3>2 DEF CleanUp, Finally, RunTypeOK
      <4>2. QED
        BY <4>1 DEF Told
    <3>3. QED
      BY <1>5, <3>1, <3>2
  <2>3. ServicesInv(r)'
    BY <1>1, <2>1, <2>2 DEF ServicesInv, Ignored, Reported
  <2>4. QED
    BY <1>1, <1>2, <2>3
<1>6. QED
  BY <1>3, <1>4, <1>5 DEF Move, RunStep, UpdateStep, UpdateTasks, HealthStep

\* What happens around the runs keeps everything.
LEMMA AroundKeepsServices ==
  ASSUME Base, \A q \in Runs : ServicesInv(q), Around
  PROVE  ServicesTypeOK' /\ \A q \in Runs : ServicesInv(q)'
<1>1. /\ ServicesTypeOK /\ UNCHANGED <<runVars, found, todo, details, blind, kind>>
      /\ lasting' = [r \in Runs |-> lasting[r] \cap (failed' \ Ignored(ignored'))]
  BY DEF Base, TypeOK, Around, UnitChanges, FileEdited, Lasting
<1>2. failed' \subseteq Units /\ (ignored' = Unreadable \/ ignored' \subseteq Units)
  <2>1. failed \subseteq Units /\ (ignored = Unreadable \/ ignored \subseteq Units)
    BY <1>1 DEF ServicesTypeOK
  <2>2. CASE UnitChanges
    <3>1. ignored' = ignored /\ failed' \subseteq Units
      BY <2>1, <2>2 DEF UnitChanges
    <3>2. QED
      BY <2>1, <3>1
  <2>3. CASE FileEdited
    <3>1. failed' = failed /\ ignored' \in (SUBSET Units) \cup {Unreadable}
      BY <2>3 DEF FileEdited
    <3>2. QED
      BY <2>1, <3>1
  <2>4. QED
    BY <2>2, <2>3 DEF Around
<1>3. ServicesTypeOK'
  BY <1>1, <1>2 DEF ServicesTypeOK
<1>4. ASSUME NEW q \in Runs PROVE ServicesInv(q)'
  <2>1. ServicesInv(q)
    OBVIOUS
  <2>2. /\ lasting'[q] \subseteq lasting[q]
        /\ lasting'[q] \subseteq failed' \ Ignored(ignored')
    BY <1>1
  <2>3. stage' = stage /\ result' = result /\ Reported(q)' = Reported(q) /\ (Told(q)' <=> Told(q))
    BY <1>1 DEF runVars, Reported, Told
  <2>4. Ignored(ignored)' = Ignored(ignored')
    BY DEF Ignored
  <2>5. QED
    BY <1>1, <2>1, <2>2, <2>3, <2>4 DEF ServicesInv
<1>5. QED
  BY <1>3, <1>4

----------------------------------------------------------------------------
(* The terminal.                                                           *)

\* Without the bar, sudo and a question find a clear screen.
LEMMA DownPaths ==
  /\ Down \in Labels /\ Path(Down, <<>>, Down) /\ Path(Down, <<"sudo">>, Down)
  /\ Path(Down, Spinner, Down) /\ Path(Down, Spinner \o <<"ask">>, Down)
<1>1. /\ Down \in Labels /\ Down.in = "none" /\ "sudo" \in Steps /\ "ask" \in Steps
      /\ Allowed(Down, "sudo") /\ After(Down, "sudo") = Down
      /\ Allowed(Down, "ask") /\ After(Down, "ask") = Down
  BY DEF Down, Labels, Steps, Allowed, After, Clear
<1>2. Path(Down, <<>>, Down)
  BY <1>1, PathNil
<1>3. Path(Down, <<"sudo">>, Down)
  <2>1. Path(Down, <<"sudo">>, After(Down, "sudo"))
    BY <1>1, PathOne
  <2>2. QED
    BY <1>1, <2>1
<1>4. Path(Down, <<"ask">>, Down)
  <2>1. Path(Down, <<"ask">>, After(Down, "ask"))
    BY <1>1, PathOne
  <2>2. QED
    BY <1>1, <2>1
<1>5. Spinner \in Seq(Steps) /\ Path(Down, Spinner, Down) /\ <<"ask">> \in Seq(Steps)
  BY <1>1, SpinnerPath
<1>6. Path(Down, Spinner \o <<"ask">>, Down)
  BY <1>4, <1>5, ThenBack
<1>7. QED
  BY <1>1, <1>2, <1>3, <1>5, <1>6

\* With the bar, sudo asks in a pause.
LEMMA UpPaths ==
  /\ Up \in Labels /\ Path(Up, <<>>, Up)
  /\ Path(Up, Paused(<<"sudo">>), Up) /\ Path(Up, Paused(<<"sudo", "sudo">>), Up)
<1>1. Up \in Labels /\ Up.in = "none" /\ Up.bar
  BY DEF Up, Labels
<1>2. QED
  BY <1>1, PathNil, PausedOne, PausedTwo

\* mirrorlist-update may end with its first sudo command.
LEMMA ShortMirrorsPath ==
  \E m \in Labels : Path(ToMirrors, <<"prewarm", "sudo">>, m)
<1> DEFINE sure == After(ToMirrors, "prewarm")
<1>1. /\ ToMirrors \in Labels /\ sure \in Labels /\ "prewarm" \in Steps /\ "sudo" \in Steps
      /\ Allowed(ToMirrors, "prewarm") /\ Allowed(sure, "sudo")
  BY DEF ToMirrors, Labels, Steps, Allowed, After, Clear
<1> HIDE DEF sure
<1>2. Path(ToMirrors, <<"prewarm">>, sure)
  BY <1>1, PathOne DEF sure
<1>3. Path(sure, <<"sudo">>, After(sure, "sudo")) /\ After(sure, "sudo") \in Labels
  BY <1>1, PathOne, AfterLabel
<1>4. Path(ToMirrors, <<"prewarm">> \o <<"sudo">>, After(sure, "sudo"))
  BY <1>1, <1>2, <1>3, PathThen, ShortScripts
<1>5. Path(ToMirrors, <<"prewarm", "sudo">>, After(sure, "sudo"))
  BY <1>1, <1>4, TwoSteps
<1>6. QED
  BY <1>3, <1>5

\* Every script a hook may take can be followed from the terminal it finds.
LEMMA ScriptHasPath ==
  ASSUME Base, NEW r \in Runs, kind[r] \in UpdateTasks, UpdateScreen(r),
         stage[r] \in Hooks, script[r] = None, NEW s \in Scripts(r, stage[r])
  PROVE  \E l, m \in Labels : Shows(r, l) /\ Path(l, s, m) /\ (l.of = "upgrade" => m.bar)
<1>1. /\ bar[r] \in BOOLEAN /\ saved[r] \in BOOLEAN /\ AtRest(r)
      /\ kind[r] = "mirrorlist-update" => ~bar[r]
      /\ stage[r] \in {"start", "pre_check", "should_run"} => ~bar[r] /\ ~saved[r]
      /\ stage[r] = "execute" => ~bar[r]
      /\ kind[r] = "system-update" /\ (stage[r] = "post_execute" \/ saved[r]) => bar[r]
  BY DEF Base, TypeOK, DisplayTypeOK, UpdateScreen
<1>2. kind[r] = "mirrorlist-update" \/ kind[r] = "system-update"
  BY DEF UpdateTasks
<1>3. CASE stage[r] # "execute" /\ bar[r]
  <2>1. /\ kind[r] = "system-update" /\ stage[r] \in {"post_execute", "rollback"}
        /\ s \in SystemUpdateScripts(r, stage[r])
    BY <1>1, <1>2, <1>3 DEF Hooks, Scripts
  <2>2. s \in {<<>>, Paused(<<"sudo">>), Paused(<<"sudo", "sudo">>)}
    BY <2>1 DEF SystemUpdateScripts, RollbackScripts
  <2>3. Shows(r, Up)
    BY <1>1, <1>3 DEF Shows, Up, AtRest
  <2>4. Up \in Labels /\ Path(Up, s, Up) /\ Up.of # "upgrade"
    BY <2>2, UpPaths DEF Up
  <2>5. QED
    BY <2>3, <2>4
<1>4. CASE stage[r] # "execute" /\ ~bar[r]
  <2>1. s \in {<<>>, <<"sudo">>, Spinner, Spinner \o <<"ask">>}
    <3>1. CASE kind[r] = "mirrorlist-update"
      <4>1. s \in MirrorlistScripts(r, stage[r])
        BY <3>1 DEF Scripts
      <4>2. QED
        BY <1>4, <3>1, <4>1 DEF MirrorlistScripts, RollbackScripts
    <3>2. CASE kind[r] = "system-update"
      <4>1. s \in SystemUpdateScripts(r, stage[r])
        BY <3>2 DEF Scripts
      <4>2. stage[r] # "post_execute" /\ ~saved[r]
        BY <1>1, <1>4, <3>2
      <4>3. QED
        BY <1>4, <4>1, <4>2 DEF SystemUpdateScripts, RollbackScripts
    <3>3. QED
      BY <1>2, <3>1, <3>2
  <2>2. Shows(r, Down)
    BY <1>1, <1>4 DEF Shows, Down, AtRest
  <2>3. Down \in Labels /\ Path(Down, s, Down) /\ Down.of # "upgrade"
    BY <2>1, DownPaths DEF Down
  <2>4. QED
    BY <2>2, <2>3
<1>5. CASE stage[r] = "execute" /\ kind[r] = "system-update"
  <2>1. s \in {Upgrade(<<>>), Upgrade(Paused(<<"sudo">>)),
               <<"bar">> \o Spinner \o Paused(<<"sudo">>)}
    BY <1>5 DEF Scripts, SystemUpdateScripts
  <2>2. Shows(r, ToUpgrade)
    BY <1>1, <1>5 DEF Shows, ToUpgrade, AtRest
  <2>3. Path(ToUpgrade, s, Upgraded)
    BY <2>1, UpgradePath, ShortUpgradePath
  <2>4. ToUpgrade \in Labels /\ Upgraded \in Labels /\ Upgraded.bar
    BY DEF ToUpgrade, Upgraded, Labels
  <2>5. QED
    BY <2>2, <2>3, <2>4
<1>6. CASE stage[r] = "execute" /\ kind[r] = "mirrorlist-update"
  <2>1. s \in {<<"prewarm", "back_up", "spin", "sudo", "leave">>, <<"prewarm", "sudo">>}
    BY <1>6 DEF Scripts, MirrorlistScripts
  <2>2. Shows(r, ToMirrors)
    BY <1>1, <1>6 DEF Shows, ToMirrors, AtRest
  <2>3. \E m \in Labels : Path(ToMirrors, s, m)
    BY <2>1, MirrorlistPath, ShortMirrorsPath
  <2>4. ToMirrors \in Labels /\ ToMirrors.of # "upgrade"
    BY DEF ToMirrors, Labels
  <2>5. QED
    BY <2>2, <2>3, <2>4
<1>7. QED
  BY <1>1, <1>2, <1>3, <1>4, <1>5, <1>6

\* What the finally clause of a bracket leaves: the bar, if it is up.
LEMMA BracketLeaves ==
  ASSUME NEW r \in Runs, NEW l \in Labels, Shows(r, l)
  PROVE  LiveAfter(r) = bar[r]
BY DEF Shows, LiveAfter, Labels

\* A step of a script takes the terminal to its next label.
LEMMA RenderShows ==
  ASSUME Base, NEW r \in Runs, RenderStep(r), NEW l \in Labels, Shows(r, l),
         NEW x, x = Head(script[r]), Allowed(l, x)
  PROVE  Shows(r, After(l, x))'
<1>1. /\ display \in [Runs -> BOOLEAN] /\ bar \in [Runs -> BOOLEAN]
      /\ bracket \in [Runs -> Brackets]
      /\ stage' = stage /\ kind' = kind /\ warm' = warm
  BY DEF Base, TypeOK, DisplayTypeOK, RunTypeOK, RenderStep, hookVars
<1>2. CASE x = "bar" /\ StartBar(r)
  <2>1. bar'[r] = TRUE /\ display'[r] = TRUE /\ bracket'[r] = bracket[r]
    BY <1>1, <1>2 DEF StartBar
  <2>2. After(l, x) = [l EXCEPT !.bar = TRUE] /\ l.in = "none"
    BY <1>2 DEF After, Allowed
  <2>3. QED
    BY <1>1, <2>1, <2>2 DEF Shows, Labels
<1>3. CASE x = "spin" /\ EnterSpinner(r)
  <2>1. After(l, x) = [l EXCEPT !.in = "spinner"] /\ l.in = "none"
    BY <1>3 DEF After, Allowed
  <2>2. bar[r] = l.bar /\ display[r] = l.bar /\ l.bar \in BOOLEAN
    BY <2>1 DEF Shows, Labels
  <2>3. /\ bar'[r] = l.bar /\ display'[r] = TRUE
        /\ bracket'[r] = IF l.bar THEN "spinner" ELSE "cold_spinner"
    BY <1>1, <1>3, <2>2 DEF EnterSpinner
  <2>4. QED
    BY <1>1, <2>1, <2>3 DEF Shows, Labels
<1>4. CASE x = "pause" /\ EnterPause(r)
  <2>1. bar'[r] = bar[r] /\ display'[r] = FALSE /\ bracket'[r] = "pause"
    BY <1>1, <1>4 DEF EnterPause
  <2>2. After(l, x) = [l EXCEPT !.in = "pause"] /\ l.in = "none" /\ l.bar
    BY <1>4 DEF After, Allowed
  <2>3. QED
    BY <1>1, <2>1, <2>2 DEF Shows, Labels
<1>5. CASE x = "leave" /\ LeaveBracket(r)
  <2>1. bar'[r] = bar[r] /\ display'[r] = bar[r] /\ bracket'[r] = "none"
    BY <1>1, <1>5, BracketLeaves DEF LeaveBracket
  <2>2. After(l, x) = [l EXCEPT !.in = "none"]
    BY <1>5 DEF After
  <2>3. QED
    BY <1>1, <2>1, <2>2 DEF Shows, Labels
<1>6. QED
  BY <1>2, <1>3, <1>4, <1>5 DEF RenderStep, NextIs

\* What the stages of an update task say of its bar and its backup.
Staged(r) ==
  /\ kind[r] = "mirrorlist-update" => ~bar[r]
  /\ stage[r] \in {"start", "pre_check", "should_run"} => ~bar[r] /\ ~saved[r]
  /\ stage[r] = "execute" /\ script[r] = None => ~bar[r]
  /\ kind[r] = "system-update" /\ stage[r] \in Hooks
       /\ (stage[r] = "post_execute" \/ saved[r]) => bar[r]

\* The parts of what is said of the terminal of an update task.
LEMMA ScreenParts ==
  ASSUME NEW r \in Runs
  PROVE  UpdateScreen(r) <=> /\ IF script[r] = None THEN AtRest(r) ELSE Scripted(r)
                             /\ asking[r] # "nothing" => ~display[r]
                             /\ Staged(r)
BY DEF UpdateScreen, Staged

\* The rest of a script is a script.
LEMMA RestIsScript ==
  ASSUME Base, NEW r \in Runs, script[r] \notin {None, <<>>}
  PROVE  /\ script[r] \in Seq(Steps) /\ Head(script[r]) \in Steps
         /\ Tail(script[r]) \in Seq(Steps) /\ Tail(script[r]) # None
<1>1. script[r] \in Seq(Steps)
  BY DEF Base, TypeOK, DisplayTypeOK
<1>2. QED
  BY <1>1, HeadTailProperties, NoneIsNoScript

\* A script that has come to x finds the terminal where x is allowed, and goes
\* on from where x takes it.
LEMMA ScriptedNext ==
  ASSUME Base, NEW r \in Runs, UpdateScreen(r), script[r] \notin {None, <<>>},
         NEW x, x = Head(script[r]), NEW s, s = Tail(script[r])
  PROVE  \E l, m \in Labels :
           /\ Shows(r, l) /\ Allowed(l, x) /\ After(l, x) \in Labels
           /\ Path(After(l, x), s, m) /\ (l.of = "upgrade" => m.bar)
<1>1. script[r] \in Seq(Steps)
  BY RestIsScript
<1>2. PICK l \in Labels, m \in Labels :
        Shows(r, l) /\ Path(l, script[r], m) /\ (l.of = "upgrade" => m.bar)
  BY DEF UpdateScreen, Scripted
<1>3. Allowed(l, x) /\ Path(After(l, x), s, m)
  BY <1>1, <1>2, PathNext
<1>4. After(l, x) \in Labels
  BY AfterLabel
<1>5. QED
  BY <1>2, <1>3, <1>4

\* A step of the script on its terminal.
LEMMA RenderKeepsScreen ==
  ASSUME Base, NEW r \in Runs, kind[r] \in UpdateTasks, UpdateScreen(r), RenderStep(r)
  PROVE  UpdateScreen(r)'
<1>1. PICK x, s : x = Head(script[r]) /\ s = Tail(script[r])
  OBVIOUS
<1>2. /\ stage[r] \in Hooks /\ script[r] \notin {None, <<>>}
      /\ x \in {"bar", "spin", "pause", "leave"}
      /\ stage' = stage /\ kind' = kind /\ saved' = saved /\ asking' = asking
  BY <1>1 DEF RenderStep, NextIs, hookVars
<1>3. script'[r] = s /\ s # None
  BY <1>1, <1>2, RestIsScript DEF Base, TypeOK, DisplayTypeOK, RenderStep, Proceed
<1>4. asking[r] = "nothing"
  BY <1>1, <1>2 DEF Base, Hooked, Asks
<1>5. PICK l \in Labels, m \in Labels :
        /\ Shows(r, l) /\ Allowed(l, x) /\ After(l, x) \in Labels
        /\ Path(After(l, x), s, m) /\ (l.of = "upgrade" => m.bar)
  BY <1>1, <1>2, ScriptedNext
<1>6. Shows(r, After(l, x))'
  BY <1>1, <1>5, RenderShows
<1>7. After(l, x).of = l.of
  BY <1>5 DEF After, Labels
<1>8. Scripted(r)'
  <2>1. Path(After(l, x), script'[r], m)
    BY <1>3, <1>5
  <2>2. Path(After(l, x), script[r], m)'
    BY <2>1 DEF Path
  <2>3. QED
    BY <1>5, <1>6, <1>7, <2>2 DEF Scripted
<1>9. bar'[r] = bar[r] \/ (kind[r] = "system-update" /\ stage[r] = "execute" /\ bar'[r])
  <2>1. CASE x = "bar"
    <3>1. l.of = "upgrade"
      BY <1>5, <2>1 DEF Allowed
    <3>2. kind[r] = "system-update" /\ stage[r] = "execute"
      BY <1>5, <3>1 DEF Shows
    <3>3. bar'[r]
      BY <1>1, <2>1 DEF RenderStep, NextIs, StartBar, Base, TypeOK, DisplayTypeOK
    <3>4. QED
      BY <3>2, <3>3
  <2>2. CASE x # "bar"
    BY <1>1, <2>2 DEF RenderStep, NextIs, EnterSpinner, EnterPause, LeaveBracket
  <2>3. QED
    BY <2>1, <2>2
<1>10. Staged(r)'
  <2>1. Staged(r)
    BY ScreenParts
  <2>2. QED
    BY <1>2, <1>3, <1>9, <2>1 DEF Staged
<1>11. QED
  BY <1>2, <1>3, <1>4, <1>8, <1>10 DEF UpdateScreen, Staged

\* Whatever may ask finds the screen clear.
LEMMA ClearShows ==
  ASSUME NEW r \in Runs, NEW l \in Labels, Shows(r, l), Clear(l)
  PROVE  ~display[r]
BY DEF Shows, Clear, Labels

\* A prompt appears.
LEMMA PromptKeepsScreen ==
  ASSUME Base, NEW r \in Runs, kind[r] \in UpdateTasks, UpdateScreen(r), Prompt(r)
  PROVE  UpdateScreen(r)'
<1>1. PICK x, s : x = Head(script[r]) /\ s = Tail(script[r])
  OBVIOUS
<1>2. /\ script[r] \notin {None, <<>>} /\ x \in {"prewarm", "sudo", "back_up", "ask"}
      /\ x # "ask" => ~warm[r]
      /\ UNCHANGED <<runVars, kind, bar, bracket, warm, saved, script>>
  BY <1>1 DEF Prompt, NextIs, AskPassword, AskQuestion
<1>3. PICK l \in Labels, m \in Labels :
        /\ Shows(r, l) /\ Allowed(l, x) /\ After(l, x) \in Labels
        /\ Path(After(l, x), s, m) /\ (l.of = "upgrade" => m.bar)
  BY <1>1, <1>2, ScriptedNext
<1>4. Clear(l)
  BY <1>2, <1>3 DEF Allowed, Shows
<1>5. ~display[r]
  BY <1>3, <1>4, ClearShows
<1>6. Scripted(r)' /\ Staged(r)'
  <2>1. Scripted(r) /\ Staged(r)
    BY <1>2, ScreenParts
  <2>2. PICK k \in Labels, n \in Labels :
          Shows(r, k) /\ Path(k, script[r], n) /\ (k.of = "upgrade" => n.bar)
    BY <2>1 DEF Scripted
  <2>3. Shows(r, k)' /\ Path(k, script[r], n)'
    BY <1>2, <2>2 DEF Shows, Path, runVars
  <2>4. Scripted(r)'
    BY <2>2, <2>3 DEF Scripted
  <2>5. QED
    BY <1>2, <2>1, <2>4 DEF Staged, runVars
<1>7. QED
  BY <1>2, <1>5, <1>6 DEF UpdateScreen, Staged, runVars

\* A script goes on at the same terminal after a prompt, or a command under
\* sudo, that changes nothing on it.
LEMMA SilentStep ==
  ASSUME Base, NEW r \in Runs, kind[r] \in UpdateTasks, UpdateScreen(r),
         script[r] \notin {None, <<>>},
         NEW x, x = Head(script[r]), x \in {"prewarm", "sudo", "back_up", "ask"},
         script' = [script EXCEPT ![r] = Tail(@)],
         UNCHANGED <<runVars, kind, bar, bracket, warm>>, x = "prewarm" => warm[r]
  PROVE  script'[r] # None /\ Scripted(r)'
<1>1. PICK s : s = Tail(script[r])
  OBVIOUS
<1>2. script'[r] = s /\ s # None
  BY <1>1, RestIsScript DEF Base, TypeOK, DisplayTypeOK
<1>3. PICK l \in Labels, m \in Labels :
        /\ Shows(r, l) /\ Allowed(l, x) /\ After(l, x) \in Labels
        /\ Path(After(l, x), s, m) /\ (l.of = "upgrade" => m.bar)
  BY <1>1, ScriptedNext
<1>4. Shows(r, After(l, x)) /\ After(l, x).of = l.of
  <2>1. CASE x = "prewarm"
    <3>1. After(l, x) = [l EXCEPT !.sure = TRUE] /\ l.of = "mirrors"
      BY <1>3, <2>1 DEF After, Allowed
    <3>2. QED
      BY <1>3, <2>1, <3>1 DEF Shows, Labels
  <2>2. CASE x # "prewarm"
    <3>1. After(l, x) = l
      BY <2>2 DEF After
    <3>2. QED
      BY <1>3, <3>1
  <2>3. QED
    BY <2>1, <2>2
<1>5. Shows(r, After(l, x))'
  BY <1>4 DEF Shows, runVars
<1>6. Path(After(l, x), script[r], m)'
  BY <1>2, <1>3 DEF Path
<1>7. QED
  BY <1>2, <1>3, <1>4, <1>5, <1>6 DEF Scripted

\* The user answers.
LEMMA ReplyKeepsScreen ==
  ASSUME Base, NEW r \in Runs, kind[r] \in UpdateTasks, UpdateScreen(r), Reply(r)
  PROVE  UpdateScreen(r)'
<1>1. /\ UNCHANGED <<runVars, kind, bar, bracket, saved>>
      /\ script[r] # None /\ asking[r] # "nothing" /\ asking'[r] = "nothing"
  BY DEF Reply, GivePassword, DeclinePassword, Answer, Base, TypeOK, DisplayTypeOK
<1>2. Asks(r)
  BY <1>1 DEF Base, Hooked
<1>3. Staged(r)
  BY ScreenParts
<1>4. script'[r] # None /\ Scripted(r)'
  <2>1. CASE GivePassword(r) /\ UNCHANGED script
    <3>1. warm'[r] /\ script' = script
      BY <2>1 DEF GivePassword, Base, TypeOK, DisplayTypeOK
    <3>2. PICK l \in Labels, m \in Labels :
            Shows(r, l) /\ Path(l, script[r], m) /\ (l.of = "upgrade" => m.bar)
      BY <1>1 DEF UpdateScreen, Scripted
    <3>3. Shows(r, l)' /\ Path(l, script[r], m)'
      BY <1>1, <3>1, <3>2 DEF Shows, Path, runVars
    <3>4. QED
      BY <1>1, <3>1, <3>2, <3>3 DEF Scripted
  <2>2. CASE DeclinePassword(r) /\ NextIs(r, {"sudo"}) /\ Proceed(r)
    <3>1. PICK x : x = Head(script[r])
      OBVIOUS
    <3>2. x = "sudo" /\ UNCHANGED warm /\ script[r] \notin {None, <<>>}
      BY <2>2, <3>1 DEF NextIs, DeclinePassword
    <3>3. QED
      BY <1>1, <2>2, <3>1, <3>2, SilentStep DEF Proceed
  <2>3. CASE Answer(r) /\ Proceed(r)
    <3>1. PICK x : x = Head(script[r])
      OBVIOUS
    <3>2. x = "ask" /\ UNCHANGED warm /\ script[r] \notin {None, <<>>}
      BY <1>2, <2>3, <3>1 DEF Asks, Answer
    <3>3. QED
      BY <1>1, <2>3, <3>1, <3>2, SilentStep DEF Proceed
  <2>4. QED
    BY <2>1, <2>2, <2>3 DEF Reply
<1>5. Staged(r)'
  BY <1>1, <1>3, <1>4 DEF Staged, runVars
<1>6. QED
  BY <1>1, <1>4, <1>5 DEF UpdateScreen, Staged

\* A command under sudo runs; only behind the bar does it make a backup that
\* rollback finds.
LEMMA LaunchKeepsScreen ==
  ASSUME Base, NEW r \in Runs, kind[r] \in UpdateTasks, UpdateScreen(r), Launch(r)
  PROVE  UpdateScreen(r)'
<1>1. PICK x, s : x = Head(script[r]) /\ s = Tail(script[r])
  OBVIOUS
<1>2. /\ script[r] \notin {None, <<>>} /\ x \in {"prewarm", "sudo", "back_up"} /\ warm[r]
      /\ UNCHANGED <<runVars, kind, bar, bracket, asking, warm>>
  BY <1>1 DEF Launch, NextIs
<1>3. script'[r] # None /\ Scripted(r)'
  BY <1>1, <1>2, SilentStep DEF Launch, Proceed
<1>4. asking[r] = "nothing"
  BY <1>1, <1>2 DEF Base, Hooked, Asks
<1>5. saved'[r] = saved[r] \/ x = "back_up"
  BY <1>1, <1>2 DEF Launch, Base, TypeOK, DisplayTypeOK
<1>6. PICK l \in Labels, m \in Labels :
        /\ Shows(r, l) /\ Allowed(l, x) /\ After(l, x) \in Labels
        /\ Path(After(l, x), s, m) /\ (l.of = "upgrade" => m.bar)
  BY <1>1, <1>2, ScriptedNext
<1>7. x = "back_up" => stage[r] = "execute" /\ (kind[r] = "system-update" => bar[r])
  BY <1>6 DEF Allowed, Shows
<1>8. Staged(r)
  BY ScreenParts
<1>9. Staged(r)'
  BY <1>2, <1>3, <1>5, <1>7, <1>8 DEF Staged, runVars
<1>10. QED
  BY <1>2, <1>3, <1>4, <1>9 DEF UpdateScreen, Staged

\* A timestamp expires.
LEMMA ExpireKeepsScreen ==
  ASSUME Base, NEW r \in Runs, kind[r] \in UpdateTasks, UpdateScreen(r), Expire(r)
  PROVE  UpdateScreen(r)'
<1>1. /\ UNCHANGED <<runVars, kind, bar, bracket, asking, saved, script>>
      /\ kind[r] = "system-update" \/ stage[r] # "execute"
  BY DEF Expire
<1>2. AtRest(r)' <=> AtRest(r)
  BY <1>1 DEF AtRest, runVars
<1>3. Scripted(r) => Scripted(r)'
  <2>1. ASSUME NEW l \in Labels, Shows(r, l) PROVE Shows(r, l)'
    <3>1. l.of # "mirrors"
      BY <1>1, <2>1 DEF Shows
    <3>2. ~l.sure
      BY <2>1, <3>1 DEF Shows
    <3>3. QED
      BY <1>1, <2>1, <3>2 DEF Shows, runVars
  <2>2. ASSUME NEW l, NEW m, Path(l, script[r], m) PROVE Path(l, script[r], m)'
    BY <1>1, <2>2 DEF Path
  <2>3. QED
    BY <2>1, <2>2 DEF Scripted
<1>4. Staged(r) => Staged(r)'
  BY <1>1 DEF Staged, runVars
<1>5. QED
  BY <1>1, <1>2, <1>3, <1>4 DEF UpdateScreen, Staged, runVars

\* A hook begins with the script it follows.
LEMMA EnterKeepsScreen ==
  ASSUME Base, NEW r \in Runs, kind[r] \in UpdateTasks, UpdateScreen(r), EnterHook(r)
  PROVE  UpdateScreen(r)'
<1>1. PICK s \in Scripts(r, stage[r]) : script' = [script EXCEPT ![r] = s]
  BY DEF EnterHook
<1>2. /\ stage[r] \in Hooks /\ script[r] = None
      /\ UNCHANGED <<runVars, kind, bar, bracket, asking, warm, saved>>
  BY DEF EnterHook
<1>3. script'[r] = s /\ s \in Seq(Steps) /\ s # None
  BY <1>1, ScriptsAreSteps, NoneIsNoScript DEF Base, TypeOK, DisplayTypeOK
<1>4. PICK l \in Labels, m \in Labels :
        Shows(r, l) /\ Path(l, s, m) /\ (l.of = "upgrade" => m.bar)
  BY <1>2, ScriptHasPath
<1>5. Shows(r, l)' /\ Path(l, script[r], m)'
  BY <1>2, <1>3, <1>4 DEF Shows, Path, runVars
<1>6. Scripted(r)'
  BY <1>4, <1>5 DEF Scripted
<1>7. AtRest(r) /\ Staged(r)
  BY <1>2, ScreenParts
<1>8. QED
  BY <1>2, <1>3, <1>6, <1>7 DEF UpdateScreen, AtRest, Staged, runVars

\* Where run() goes on when a hook of an update task has ended.
LEMMA HookGoesOn ==
  ASSUME Base, NEW r \in Runs, HookDone(r) \/ HookBreaks(r)
  PROVE  /\ stage[r] \in Hooks
         /\ \/ stage'[r] = "finally"
            \/ stage[r] = "pre_check" /\ stage'[r] = "should_run"
            \/ stage[r] = "should_run" /\ stage'[r] = "execute"
            \/ stage[r] = "execute" /\ stage'[r] = "post_execute" /\ script[r] = <<>>
            \/ stage'[r] = "rollback"
<1>1. stage \in [Runs -> Stages]
  BY DEF Base, TypeOK, DisplayTypeOK, RunTypeOK
<1>2. CASE HookDone(r)
  BY <1>1, <1>2
     DEF HookDone, PreCheckPasses, PreCheckFails, ShouldRun, ShouldSkip, ExecuteReturns,
         PostExecuteReturns, RollbackEnds, HookPasses, HookReturns, Ends, Hooks
<1>3. CASE HookBreaks(r)
  <2>1. stage[r] \in Hooks
    BY <1>3 DEF Base, Hooked, HookBreaks
  <2>2. QED
    BY <1>1, <1>3, <2>1 DEF HookBreaks, HookRaises, HookInterrupted, RollbackEnds, Ends
<1>4. QED
  BY <1>2, <1>3

\* A hook that has ended, however it did, leaves the bar as it was, and an
\* upgrade that succeeded leaves it up.
LEMMA LeaveKeepsScreen ==
  ASSUME Base, NEW r \in Runs, kind[r] \in UpdateTasks, UpdateScreen(r),
         HookDone(r) \/ HookBreaks(r)
  PROVE  UpdateScreen(r)'
<1>1. script[r] # None
  <2>1. <<>> \in Seq(Steps)
    OBVIOUS
  <2>2. QED
    BY <2>1, NoneIsNoScript DEF HookDone, HookBreaks
<1>2. LeaveHook(r)
  BY DEF HookDone, HookBreaks
<1>3. PICK l \in Labels, m \in Labels :
        Shows(r, l) /\ Path(l, script[r], m) /\ (l.of = "upgrade" => m.bar)
  BY <1>1 DEF UpdateScreen, Scripted
<1>4. LiveAfter(r) = bar[r]
  BY <1>3, BracketLeaves
<1>5. /\ script'[r] = None /\ bracket'[r] = "none" /\ asking'[r] = "nothing"
      /\ display'[r] = bar[r] /\ UNCHANGED <<kind, bar, saved>>
  BY <1>2, <1>4 DEF LeaveHook, Base, TypeOK, DisplayTypeOK, RunTypeOK
<1>6. script[r] = <<>> /\ stage[r] = "execute" /\ kind[r] = "system-update" => bar[r]
  <2>1. ASSUME script[r] = <<>>, stage[r] = "execute", kind[r] = "system-update"
        PROVE  bar[r]
    <3>1. l = m /\ l.of = "upgrade"
      BY <1>3, <2>1, PathEnd DEF Shows
    <3>2. QED
      BY <1>3, <3>1 DEF Shows
  <2>2. QED
    BY <2>1
<1>7. Staged(r)
  BY ScreenParts
<1>8. Staged(r)'
  <2>1. kind'[r] = kind[r] /\ bar'[r] = bar[r] /\ saved'[r] = saved[r]
    BY <1>5
  <2>2. stage[r] \in Hooks
    BY HookGoesOn
  <2>3. CASE stage'[r] = "finally"
    BY <1>7, <2>1, <2>3 DEF Staged, Hooks
  <2>4. CASE stage[r] = "pre_check" /\ stage'[r] = "should_run"
    BY <1>7, <2>1, <2>4 DEF Staged
  <2>5. CASE stage[r] = "should_run" /\ stage'[r] = "execute"
    BY <1>7, <2>1, <2>5 DEF Staged
  <2>6. CASE stage[r] = "execute" /\ stage'[r] = "post_execute" /\ script[r] = <<>>
    BY <1>6, <1>7, <2>1, <2>6 DEF Staged
  <2>7. CASE stage'[r] = "rollback"
    BY <1>7, <2>1, <2>2, <2>7 DEF Staged
  <2>8. QED
    BY <2>3, <2>4, <2>5, <2>6, <2>7, HookGoesOn
<1>9. AtRest(r)'
  BY <1>5 DEF AtRest
<1>10. QED
  BY <1>5, <1>8, <1>9 DEF UpdateScreen, Staged

\* The beginning and the end of run() keep the terminal in order.
LEMMA FrameKeepsScreen ==
  ASSUME Base, NEW r \in Runs, Screen(r), Begin(r) \/ CleanUp(r)
  PROVE  Screen(r)'
<1>1. /\ display \in [Runs -> BOOLEAN] /\ bar \in [Runs -> BOOLEAN]
      /\ stage \in [Runs -> Stages]
  BY DEF Base, TypeOK, DisplayTypeOK, RunTypeOK
<1>2. script[r] = None
  BY DEF Base, Hooked, Begin, LoggingReady, LoggingFails, CleanUp, Finally, Hooks
<1>3. CASE Begin(r)
  <2>1. /\ UNCHANGED <<display, kind, screenVars>>
        /\ stage[r] = "start" /\ stage'[r] \in {"pre_check", "escaped"}
    BY <1>1, <1>3 DEF Begin, LoggingReady, LoggingFails
  <2>2. UNCHANGED <<display, kind, bar, bracket, asking, warm, saved, script>>
    BY <2>1 DEF screenVars
  <2>3. AtRest(r)' <=> AtRest(r)
    BY <2>2 DEF AtRest
  <2>4. kind[r] \in UpdateTasks => UpdateScreen(r)'
    BY <1>2, <2>1, <2>2, <2>3 DEF Screen, UpdateScreen, Hooks
  <2>5. kind[r] = "health-check" => HealthScreen(r)'
    BY <1>2, <2>1, <2>2, <2>3 DEF Screen, HealthScreen
  <2>6. kind[r] \in {"failed-services", "other"} => PlainScreen(r)'
    BY <1>2, <2>1, <2>2 DEF Screen, PlainScreen
  <2>7. QED
    BY <2>2, <2>4, <2>5, <2>6 DEF Screen
<1>4. CASE CleanUp(r)
  <2>1. /\ stage[r] = "finally" /\ stage'[r] \in {"returned", "escaped"}
        /\ ~display'[r] /\ ~bar'[r] /\ display'[r] = bar'[r]
        /\ UNCHANGED <<kind, bracket, asking, warm, saved, script>>
    BY <1>1, <1>4 DEF CleanUp, Finally
  <2>2. kind[r] \in UpdateTasks => UpdateScreen(r)'
    BY <1>2, <2>1 DEF Screen, UpdateScreen, AtRest, Hooks
  <2>3. kind[r] = "health-check" => HealthScreen(r)'
    BY <1>2, <2>1 DEF Screen, HealthScreen, AtRest
  <2>4. kind[r] \in {"failed-services", "other"} => PlainScreen(r)'
    BY <1>2, <2>1 DEF Screen, PlainScreen
  <2>5. QED
    BY <2>1, <2>2, <2>3, <2>4 DEF Screen
<1>5. QED
  BY <1>3, <1>4

\* A step of the health check keeps its terminal in order.
LEMMA HealthKeepsScreen ==
  ASSUME Base, NEW r \in Runs, HealthScreen(r), HealthStep(r)
  PROVE  HealthScreen(r)'
<1>1. /\ display \in [Runs -> BOOLEAN] /\ bar \in [Runs -> BOOLEAN]
      /\ bracket \in [Runs -> Brackets] /\ stage \in [Runs -> Stages]
      /\ asking \in [Runs -> {"nothing", "password", "question"}]
      /\ script \in [Runs -> {None} \cup Seq(Steps)] /\ script[r] = None
  BY DEF Base, TypeOK, DisplayTypeOK, RunTypeOK, HealthScreen
<1>2. bracket[r] # "pause" => AtRest(r)
  BY DEF HealthScreen
<1>3. checked[r] # 5 => AtRest(r)
  BY DEF HealthScreen
<1>4. CASE OpenBar(r)
  <2>1. ~bar[r] /\ AtRest(r)
    BY <1>4 DEF OpenBar, HealthScreen
  <2>2. /\ display'[r] = TRUE /\ bar'[r] = TRUE /\ bracket' = bracket
        /\ asking' = asking /\ script' = script
    BY <1>1, <1>4 DEF OpenBar, StartBar
  <2>3. QED
    BY <1>1, <2>1, <2>2 DEF HealthScreen, AtRest
<1>5. CASE MetricCheck(r)
  <2>1. checked[r] # 5
    <3>1. PICK check \in {"disk", "memory", "cpu", "filesystem", "database", "uptime"} :
            At(r, check)
      BY <1>5 DEF MetricCheck, CheckDiskSpace, CheckMemoryUsage, CheckCpuLoad,
                  CheckFilesystemErrors, CheckPacmanDatabase, CheckUptime
    <3>2. QED
      BY <3>1, AtIndex
  <2>2. UNCHANGED <<display, bar, bracket, asking, script>>
    BY <1>5 DEF MetricCheck, runVars, screenVars
  <2>3. QED
    BY <1>1, <1>3, <2>1, <2>2 DEF HealthScreen, AtRest
<1>6. CASE PauseForFiles(r)
  <2>1. checked[r] = 5 /\ stage[r] = "execute" /\ bar[r]
    BY <1>6, AtIndex DEF PauseForFiles, At
  <2>2. /\ ~display'[r] /\ bracket'[r] = "pause" /\ bar' = bar /\ script' = script
        /\ stage' = stage /\ checked' = checked
    BY <1>1, <1>6 DEF PauseForFiles, EnterPause, hookVars, healthVars
  <2>3. QED
    BY <1>1, <2>1, <2>2 DEF HealthScreen
<1>7. CASE FilesPassword(r)
  <2>1. bracket[r] = "pause"
    BY <1>7 DEF FilesPassword
  <2>2. UNCHANGED <<display, bar, bracket, stage, script, checked>>
    BY <1>7 DEF FilesPassword, runVars, healthVars
  <2>3. QED
    BY <2>1, <2>2 DEF HealthScreen, AtRest
<1>8. CASE CheckPackageFiles(r)
  <2>1. bracket[r] = "pause" /\ bar[r]
    BY <1>8 DEF CheckPackageFiles, At
  <2>2. display'[r] /\ bracket'[r] = "none" /\ bar' = bar /\ script' = script
    BY <1>1, <1>8, <2>1 DEF CheckPackageFiles, LeaveBracket, LiveAfter
  <2>3. asking'[r] = "nothing"
    BY <1>1, <1>8 DEF CheckPackageFiles, DeclinePassword
  <2>4. display'[r] \in BOOLEAN
    BY <1>1, <1>8, <2>1 DEF CheckPackageFiles, LeaveBracket, LiveAfter
  <2>5. QED
    BY <1>1, <2>1, <2>2, <2>3, <2>4 DEF HealthScreen, AtRest
<1>9. CASE Summarise(r)
  <2>1. checked[r] # 5
    BY <1>9 DEF Summarise, Checks
  <2>2. UNCHANGED <<display, bar, bracket, asking, script>>
    BY <1>9 DEF Summarise, screenVars
  <2>3. QED
    BY <1>1, <1>3, <2>1, <2>2 DEF HealthScreen, AtRest
<1>10. CASE HealthHook(r)
  <2>1. LiveAfter(r) = bar[r]
    BY <1>1 DEF HealthScreen, AtRest, LiveAfter
  <2>2. /\ script'[r] = None /\ bracket'[r] = "none" /\ asking'[r] = "nothing"
        /\ display'[r] = bar[r] /\ bar' = bar
    BY <1>1, <1>10, <2>1 DEF HealthHook, LeaveHook
  <2>3. QED
    BY <2>2 DEF HealthScreen, AtRest
<1>11. QED
  BY <1>4, <1>5, <1>6, <1>7, <1>8, <1>9, <1>10 DEF HealthStep

\* A step of an update task does.
LEMMA UpdateKeepsScreen ==
  ASSUME Base, NEW r \in Runs, UpdateScreen(r), UpdateStep(r)
  PROVE  UpdateScreen(r)'
BY EnterKeepsScreen, RenderKeepsScreen, PromptKeepsScreen, ReplyKeepsScreen, LaunchKeepsScreen,
   ExpireKeepsScreen, LeaveKeepsScreen
   DEF UpdateStep

\* The checks of another run are its own.
LEMMA MoveOtherChecks ==
  ASSUME Base, NEW r \in Runs, Move(r), NEW q \in Runs, q # r
  PROVE  checked'[q] = checked[q]
<1>1. CASE MetricCheck(r) \/ CheckPackageFiles(r)
  BY <1>1, ChecksFit, NotedEffect
<1>2. CASE UNCHANGED healthVars
  BY <1>2 DEF healthVars
<1>3. QED
  BY <1>1, <1>2
     DEF Move, RunStep, HealthStep, OpenBar, PauseForFiles, FilesPassword, Summarise, HealthHook

\* So no move leaves a terminal in disorder.
LEMMA MoveKeepsScreen ==
  ASSUME Base, \A q \in Runs : Screen(q), NEW r \in Runs, Move(r)
  PROVE  \A q \in Runs : Screen(q)'
<1>1. kind' = kind /\ Screen(r) /\ kind[r] \in Kinds
  BY MoveOtherScreens DEF Base, TypeOK, DisplayTypeOK
<1>2. Screen(r)'
  <2>1. CASE Begin(r) \/ CleanUp(r)
    BY <1>1, <2>1, FrameKeepsScreen
  <2>2. CASE UpdateStep(r)
    <3>1. kind[r] \in UpdateTasks /\ UpdateScreen(r)
      BY <1>1, <2>2 DEF UpdateStep, Screen
    <3>2. UpdateScreen(r)'
      BY <2>2, <3>1, UpdateKeepsScreen
    <3>3. QED
      BY <1>1, <3>1, <3>2 DEF Screen, UpdateTasks
  <2>3. CASE HealthStep(r)
    <3>1. kind[r] = "health-check" /\ HealthScreen(r)
      BY <1>1, <2>3 DEF HealthStep, Screen
    <3>2. HealthScreen(r)'
      BY <2>3, <3>1, HealthKeepsScreen
    <3>3. QED
      BY <1>1, <3>1, <3>2 DEF Screen, UpdateTasks
  <2>4. CASE kind[r] \in {"failed-services", "other"} /\ UNCHANGED <<kind, screenVars>>
    <3>1. PlainScreen(r)'
      BY <1>1, <2>4 DEF Screen, PlainScreen, screenVars
    <3>2. QED
      BY <1>1, <2>4, <3>1 DEF Screen, UpdateTasks
  <2>5. QED
    BY <2>1, <2>2, <2>3, <2>4 DEF Move, RunStep
<1>3. ASSUME NEW q \in Runs, q # r PROVE Screen(q)'
  <2>1. Screen(q)
    OBVIOUS
  <2>2. /\ stage'[q] = stage[q] /\ display'[q] = display[q]
        /\ bar'[q] = bar[q] /\ warm'[q] = warm[q] /\ saved'[q] = saved[q]
        /\ bracket'[q] = bracket[q] /\ asking'[q] = asking[q] /\ script'[q] = script[q]
    BY <1>3, MoveOthers, MoveOtherScreens
  <2>3. checked'[q] = checked[q]
    BY <1>3, MoveOtherChecks
  <2>4. AtRest(q)' <=> AtRest(q)
    BY <2>2 DEF AtRest
  <2>5. Scripted(q) => Scripted(q)'
    <3>1. ASSUME NEW l \in Labels, Shows(q, l) PROVE Shows(q, l)'
      BY <1>1, <2>2, <3>1 DEF Shows
    <3>2. ASSUME NEW l, NEW m, Path(l, script[q], m) PROVE Path(l, script[q], m)'
      BY <2>2, <3>2 DEF Path
    <3>3. QED
      BY <3>1, <3>2 DEF Scripted
  <2>6. QED
    BY <1>1, <2>1, <2>2, <2>3, <2>4, <2>5 DEF Screen, UpdateScreen, HealthScreen, PlainScreen
<1>4. QED
  BY <1>2, <1>3

----------------------------------------------------------------------------
(* The theorems.                                                           *)

\* Before anything has run the invariant holds.
LEMMA IInvInit == Init => IInv
<1> SUFFICES ASSUME Init PROVE IInv
  OBVIOUS
<1>1. RunTypeOK /\ TemplateInv
  BY TemplateInitially DEF Init, DisplayInit
<1>2. DisplayTypeOK
  BY <1>1 DEF Init, DisplayInit, DisplayTypeOK, Brackets
<1>3. HealthTypeOK /\ Panel
  <2>1. /\ \A r \in Runs : \A i \in Instruments : reading[r][i] = Unknown
        /\ Gauges \subseteq Instruments /\ Inspections \subseteq Instruments
    BY DEF Init, HealthInit, Instruments
  <2>2. QED
    BY <2>1 DEF Init, HealthInit, HealthTypeOK, Panel, Checks
<1>4. ServicesTypeOK
  BY DEF Init, ServicesInit, ServicesTypeOK
<1>5. Hooked
  BY DEF Init, DisplayInit, Hooked
<1>6. ASSUME NEW r \in Runs PROVE HealthInv(r)
  <2>1. /\ issues[r] = {} /\ warnings[r] = {} /\ stage[r] = "start"
        /\ \A i \in Instruments : reading[r][i] = Unknown
    BY <1>6 DEF Init, HealthInit, DisplayInit, RunInit
  <2>2. Graded(r, "issue") = {} /\ Graded(r, "warning") = {}
    BY <2>1, UnknownIsFine DEF Graded
  <2>3. QED
    BY <2>1, <2>2 DEF HealthInv, Found, Unread, Summarised
<1>7. ASSUME NEW r \in Runs PROVE ServicesInv(r)
  BY <1>7 DEF Init, ServicesInit, DisplayInit, RunInit, ServicesInv, Told
<1>8. ASSUME NEW r \in Runs PROVE Screen(r)
  <2>1. /\ script[r] = None /\ ~bar[r] /\ bracket[r] = "none" /\ asking[r] = "nothing"
        /\ display[r] = bar[r] /\ ~saved[r] /\ stage[r] = "start"
    BY <1>8 DEF Init, DisplayInit, RunInit
  <2>2. QED
    BY <2>1 DEF Screen, UpdateScreen, HealthScreen, PlainScreen, AtRest, Hooks
<1>9. QED
  BY <1>1, <1>2, <1>3, <1>4, <1>5, <1>6, <1>7, <1>8 DEF IInv, Base, TypeOK

\* A move of a run keeps the invariant.
LEMMA MoveKeeps == ASSUME IInv, NEW r \in Runs, Move(r) PROVE IInv'
<1>1. /\ Base /\ \A q \in Runs : HealthInv(q) /\ ServicesInv(q) /\ Screen(q)
  BY DEF IInv
<1>2. RunTypeOK' /\ TemplateInv' /\ Hooked'
  BY <1>1, MoveKeepsTemplate, MoveKeepsHooked
<1>3. HealthTypeOK' /\ Panel' /\ \A q \in Runs : HealthInv(q)'
  BY <1>1, MoveKeepsHealth
<1>4. ServicesTypeOK' /\ \A q \in Runs : ServicesInv(q)'
  BY <1>1, MoveKeepsServices
<1>5. \A q \in Runs : Screen(q)'
  BY <1>1, MoveKeepsScreen
<1>6. DisplayTypeOK'
  <2>1. kind' = kind /\ kind \in [Runs -> Kinds]
    BY <1>1, MoveOtherScreens DEF Base, TypeOK, DisplayTypeOK
  <2>2. QED
    BY <1>1, <1>2, <2>1, MoveOtherScreens DEF DisplayTypeOK
<1>7. Base'
  BY <1>2, <1>3, <1>4, <1>6 DEF Base, TypeOK
<1>8. QED
  BY <1>3, <1>4, <1>5, <1>7 DEF IInv

\* So does what happens around the runs, and so does doing nothing.
LEMMA AroundKeeps ==
  ASSUME IInv, UNCHANGED <<runVars, kind, screenVars, healthVars>>,
         Around \/ UNCHANGED <<unitVars, serviceVars>>
  PROVE  IInv'
<1>1. Base /\ \A q \in Runs : HealthInv(q) /\ ServicesInv(q) /\ Screen(q)
  BY DEF IInv
<1>2. UNCHANGED <<stage, handler, display, result, hooks, kind, bar, bracket, asking, warm,
                  saved, script, checked, issues, warnings, reading>>
  BY DEF runVars, screenVars, healthVars
<1>3. ServicesTypeOK' /\ \A q \in Runs : ServicesInv(q)'
  <2>1. CASE Around
    BY <1>1, <2>1, AroundKeepsServices
  <2>2. CASE UNCHANGED <<unitVars, serviceVars>>
    BY <1>1, <1>2, <2>2
       DEF Base, TypeOK, ServicesTypeOK, ServicesInv, Told, Reported, Ignored,
           unitVars, serviceVars
  <2>3. QED
    BY <2>1, <2>2
<1>4. RunTypeOK' /\ TemplateInv'
  <2>1. RunTypeOK /\ TemplateInv
    BY <1>1 DEF Base, TypeOK, DisplayTypeOK
  <2>2. QED
    BY <1>2, <2>1, DisplayKeeps DEF RunTypeOK
<1>5. DisplayTypeOK'
  BY <1>1, <1>2, <1>4 DEF Base, TypeOK, DisplayTypeOK
<1>6. HealthTypeOK' /\ Panel' /\ Hooked'
  BY <1>1, <1>2 DEF Base, TypeOK, HealthTypeOK, Panel, Hooked, Asks
<1>7. ASSUME NEW q \in Runs PROVE HealthInv(q)'
  <2>1. HealthInv(q)
    BY <1>1
  <2>2. Found(q)' /\ Unread(q)'
    BY <1>2, <2>1 DEF HealthInv, Found, Graded, Unread
  <2>3. HealthResult(q)' = HealthResult(q)
    BY <1>2, SameVerdict
  <2>4. Summarised(q)'
    BY <1>2, <2>1, <2>3 DEF HealthInv, Summarised, Unharmed
  <2>5. QED
    BY <2>2, <2>4 DEF HealthInv
<1>8. ASSUME NEW q \in Runs PROVE Screen(q)'
  <2>1. Screen(q)
    BY <1>1
  <2>2. Scripted(q) => Scripted(q)'
    <3>1. ASSUME NEW l \in Labels, Shows(q, l) PROVE Shows(q, l)'
      BY <1>2, <3>1 DEF Shows
    <3>2. ASSUME NEW l, NEW m, Path(l, script[q], m) PROVE Path(l, script[q], m)'
      BY <1>2, <3>2 DEF Path
    <3>3. QED
      BY <3>1, <3>2 DEF Scripted
  <2>3. QED
    BY <1>2, <2>1, <2>2 DEF Screen, UpdateScreen, HealthScreen, PlainScreen, AtRest
<1>9. QED
  BY <1>3, <1>4, <1>5, <1>6, <1>7, <1>8 DEF IInv, Base, TypeOK

\* Every step keeps the invariant.
LEMMA IInvStep == IInv /\ [Next]_vars => IInv'
<1> SUFFICES ASSUME IInv, [Next]_vars PROVE IInv'
  OBVIOUS
<1>1. CASE \E r \in Runs : Move(r)
  BY <1>1, MoveKeeps
<1>2. CASE Around
  <2>1. UNCHANGED runVars
    BY <1>2 DEF Around, UnitChanges, FileEdited
  <2>2. QED
    BY <1>2, <2>1, AroundKeeps DEF Around
<1>3. CASE UNCHANGED vars
  BY <1>3, AroundKeeps DEF vars, displayVars
<1>4. QED
  BY <1>1, <1>2, <1>3 DEF Next, Move, Around

\* The invariant holds in every reachable state.
LEMMA IInvAlways == Spec => []IInv
<1>1. QED
  BY IInvInit, IInvStep, PTL DEF Spec

\* The health check's verdict is that of its readings.
LEMMA VerdictFits == IInv => VerdictFitsReadings
<1> SUFFICES ASSUME IInv, NEW r \in Runs, kind[r] = "health-check", stage[r] = "returned",
                    hooks[r]["rollback"] = "not_called"
             PROVE  result[r].status = IF Critical(r) THEN "failure"
                                       ELSE IF Worrying(r) THEN "partial" ELSE "success"
  BY DEF VerdictFitsReadings
<1>1. HealthInv(r) /\ result[r] # None
  BY DEF IInv, Base, TemplateInv, HooksFit
<1>2. result[r] = HealthResult(r)
  BY <1>1 DEF HealthInv, Summarised, Unharmed
<1>3. result[r].status = IF issues[r] # {} THEN "failure"
                         ELSE IF warnings[r] # {} THEN "partial" ELSE "success"
  BY <1>2 DEF HealthResult, Ended
<1> DEFINE worth(i) == Worth(i, reading[r][i])
<1>4. /\ worth("disk") = Grade(reading[r]["disk"], DiskWarning, DiskCritical)
      /\ worth("memory") = Grade(reading[r]["memory"], MemoryWarning, MemoryCritical)
      /\ worth("swap") = Above(reading[r]["swap"], SwapWarning)
      /\ worth("cpu") = Above(reading[r]["cpu"], CpuWarning)
      /\ worth("load") = Overloaded(reading[r]["load"])
      /\ \A i \in Inspections : worth(i) = Fault(reading[r][i])
  BY DEF Worth, Inspections
<1>5. /\ issues[r] # {} <=> \E i \in Instruments : worth(i) = "issue"
      /\ warnings[r] # {} <=> \E i \in Instruments : worth(i) = "warning"
  BY <1>1 DEF HealthInv, Found, Graded
<1> HIDE DEF worth
<1>6. /\ DiskWarning \in 0..100 /\ DiskCritical \in 0..100 /\ DiskWarning < DiskCritical
      /\ MemoryWarning \in 0..100 /\ MemoryCritical \in 0..100 /\ MemoryWarning < MemoryCritical
  BY SettingsAssumption DEF SettingsValid
<1>7. issues[r] # {} <=> Critical(r)
  BY <1>4, <1>5 DEF Critical, Instruments, Gauges, Inspections, Grade, Above, Overloaded, Fault
<1>8. issues[r] = {} => (warnings[r] # {} <=> Worrying(r))
  BY <1>4, <1>5, <1>6, <1>7
     DEF Critical, Worrying, Instruments, Gauges, Inspections, Grade, Above, Overloaded, Fault
<1>9. QED
  BY <1>3, <1>7, <1>8

\* Every reachable state of every run is well typed: hooks, screen, readings
\* and unit lists take the values the code can hold.
THEOREM RunsTypeCorrect == Spec => []TypeOK
<1>1. IInv => TypeOK
  BY DEF IInv, Base
<1>2. QED
  BY <1>1, IInvAlways, PTL

\* run()'s finally clause: a run that is over has no log handler and no live
\* screen, whichever hook raised or was interrupted.
THEOREM NothingIsLeftBehind == Spec => []NothingLeftBehind
<1>1. IInv => NothingLeftBehind
  BY TemplatePromises DEF IInv, Base
<1>2. QED
  BY <1>1, IInvAlways, PTL

\* run() returns success or partial only when execute and post_execute both
\* returned.
THEOREM SuccessIsEarned == Spec => []SuccessIsComplete
<1>1. IInv => SuccessIsComplete
  BY TemplatePromises DEF IInv, Base
<1>2. QED
  BY <1>1, IInvAlways, PTL

\* A run that returns a skip has neither executed nor rolled back anything.
THEOREM SkipsAreHarmless == Spec => []SkipTouchesNothing
<1>1. IInv => SkipTouchesNothing
  BY TemplatePromises DEF IInv, Base
<1>2. QED
  BY <1>1, IInvAlways, PTL

\* HealthCheckTask.execute: the verdict is the worst of what was read.
THEOREM VerdictIsWorstReading == Spec => []VerdictFitsReadings
<1>1. QED
  BY VerdictFits, IInvAlways, PTL

\* FailedServicesTask: neither of its two queries loses a unit that has been
\* failed since the run began.
THEOREM NoLastingFailureIsLost == Spec => []LastingFailureReported
<1>1. IInv => LastingFailureReported
  <2> SUFFICES ASSUME IInv, NEW r \in Runs, Concluded(r),
                      result[r].skip_reason # "dependency_failed", ~blind[r]
               PROVE  lasting[r] \subseteq Reported(r)
    BY DEF LastingFailureReported
  <2>1. ServicesInv(r) /\ result[r] # None
    BY DEF IInv, Base, TemplateInv, HooksFit, Concluded
  <2>2. Told(r)
    BY <2>1 DEF Told, Concluded
  <2>3. QED
    BY <2>1, <2>2 DEF ServicesInv
<1>2. QED
  BY <1>1, IInvAlways, PTL

\* RichProgress: nothing waits for an answer behind a live render.
THEOREM PromptsAreSeen == Spec => []PromptsOnCleanTerminal
<1>1. IInv => PromptsOnCleanTerminal
  <2> SUFFICES ASSUME IInv, NEW r \in Runs, asking[r] # "nothing" PROVE ~display[r]
    BY DEF PromptsOnCleanTerminal
  <2>1. Screen(r) /\ kind[r] \in Kinds
    BY DEF IInv, Base, TypeOK, DisplayTypeOK
  <2>2. QED
    BY <2>1 DEF Screen, UpdateScreen, HealthScreen, PlainScreen, AtRest, Kinds
<1>2. QED
  BY <1>1, IInvAlways, PTL

\* RichProgress: the bar stays up until it is paused or stopped.
THEOREM BarIsSeen == Spec => []BarStaysVisible
<1>1. IInv => BarStaysVisible
  <2> SUFFICES ASSUME IInv, NEW r \in Runs, bar[r], bracket[r] # "pause" PROVE display[r]
    BY DEF BarStaysVisible
  <2>1. Screen(r) /\ kind[r] \in Kinds
    BY DEF IInv, Base, TypeOK, DisplayTypeOK
  <2>2. AtRest(r) => display[r]
    BY DEF AtRest
  <2>3. Scripted(r) => display[r]
    BY DEF Scripted, Shows, Labels
  <2>4. QED
    BY <2>1, <2>2, <2>3 DEF Screen, UpdateScreen, HealthScreen, PlainScreen, Kinds, UpdateTasks
<1>2. QED
  BY <1>1, IInvAlways, PTL
=============================================================================
