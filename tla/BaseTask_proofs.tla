--------------------------- MODULE BaseTask_proofs ---------------------------
(***************************************************************************)
(* What the template BaseTask.run guarantees whatever its hooks do, as     *)
(* lemmas for the modules whose tasks run on it: every step of the         *)
(* template keeps the types and an invariant from which the properties of  *)
(* BaseTask follow.                                                        *)
(***************************************************************************)
EXTENDS BaseTask, TLAPS

\* The results a body that executed may have: anything but a skip.
Executed == {Ended(s) : s \in Statuses \ {"skipped"}}

\* One step of run() of r, without what it does to the display.
TemplateStep(r) ==
  \/ LoggingReady(r) /\ UNCHANGED display
  \/ LoggingFails(r) /\ UNCHANGED display
  \/ PreCheckPasses(r) \/ PreCheckFails(r) \/ ShouldRun(r)
  \/ \E reason \in SkipReasons : ShouldSkip(r, reason)
  \/ \E res \in Executed : ExecuteReturns(r, res)
  \/ PostExecuteReturns(r)
  \/ \E h \in Hooks : HookRaises(r, h) \/ HookInterrupted(r, h)
  \/ RollbackEnds(r)
  \/ Finally(r)

\* The display of another run is another process's.
OwnDisplay(r) == \E on \in BOOLEAN : display' = [display EXCEPT ![r] = on]

----------------------------------------------------------------------------
(* The invariant of the template.                                          *)

NotYet(r, hs) == \A h \in hs : hooks[r][h] = "not_called"

\* How far the hooks have come, and what a result says of them.
HooksFit(r) ==
  /\ stage[r] = "start" => result[r] = None /\ hooks[r] = NoHooks
  /\ stage[r] \in {"pre_check", "should_run", "execute"} =>
       result[r] = None /\ NotYet(r, {"execute", "post_execute", "rollback"})
  /\ stage[r] = "post_execute" =>
       /\ result[r] \in Executed /\ hooks[r]["execute"] = "returned"
       /\ NotYet(r, {"post_execute", "rollback"})
  /\ stage[r] = "rollback" => NotYet(r, {"rollback"})
  /\ stage[r] = "returned" => result[r] # None

ResultFits(r) ==
  stage[r] \in {"finally", "returned"} /\ result[r] # None =>
    /\ result[r].status \in {"success", "partial"} =>
         hooks[r]["execute"] = "returned" /\ hooks[r]["post_execute"] = "returned"
    /\ result[r].status = "skipped" =>
         NotYet(r, {"execute", "post_execute", "rollback"})

CleanAfter(r) == Over(r) /\ hooks[r] # NoHooks => ~handler[r] /\ ~display[r]

\* For the tasks whose runs follow one another.
Active(r) == stage[r] # "start" /\ ~Over(r)

OneRun == \A q, r \in Runs : Active(q) /\ Active(r) => q = r

TemplateInv == \A r \in Runs : HooksFit(r) /\ ResultFits(r) /\ CleanAfter(r)

----------------------------------------------------------------------------

\* A step of the template leaves everything of the other runs alone.
LEMMA OthersUntouched ==
  ASSUME RunTypeOK, NEW r \in Runs, TemplateStep(r), OwnDisplay(r),
         NEW q \in Runs, q # r
  PROVE  /\ stage'[q] = stage[q] /\ hooks'[q] = hooks[q] /\ result'[q] = result[q]
         /\ handler'[q] = handler[q] /\ display'[q] = display[q]
BY DEF RunTypeOK, TemplateStep, OwnDisplay, LoggingReady, LoggingFails, PreCheckPasses,
       PreCheckFails, ShouldRun, ShouldSkip, ExecuteReturns, PostExecuteReturns, HookRaises,
       HookInterrupted, RollbackEnds, Finally, HookPasses, HookReturns, Ends

\* Whatever ends a hook keeps the types.
LEMMA EndsType ==
  ASSUME RunTypeOK, NEW r \in Runs, NEW h \in Hooks, NEW ending \in Endings,
         NEW next \in Stages, Ends(r, h, ending, next)
  PROVE  /\ stage' \in [Runs -> Stages] /\ handler' \in [Runs -> BOOLEAN]
         /\ hooks' \in [Runs -> [Hooks -> Endings]]
         /\ stage[r] = h /\ stage'[r] = next
         /\ hooks'[r] = [hooks[r] EXCEPT ![h] = ending]
BY DEF RunTypeOK, Ends

\* Hook h of r has ended, and nothing is said of the others.
LEMMA EndsEffect ==
  ASSUME RunTypeOK, NEW r \in Runs, NEW h \in Hooks, NEW ending, NEW next,
         Ends(r, h, ending, next)
  PROVE  /\ stage[r] = h /\ stage'[r] = next
         /\ hooks'[r][h] = ending
         /\ \A k \in Hooks \ {h} : hooks'[r][k] = hooks[r][k]
BY DEF RunTypeOK, Ends

\* A step of the template keeps the types.
LEMMA TemplateType ==
  ASSUME RunTypeOK, NEW r \in Runs, TemplateStep(r), OwnDisplay(r)
  PROVE  RunTypeOK'
<1> USE DEF RunTypeOK
<1>1. display' \in [Runs -> BOOLEAN]
  BY DEF OwnDisplay
<1>2. CASE LoggingReady(r) \/ LoggingFails(r) \/ Finally(r)
  BY <1>1, <1>2 DEF LoggingReady, LoggingFails, Finally, Stages, Hooks
<1>3. ASSUME NEW h \in Hooks, NEW ending \in Endings, NEW next \in Stages,
             Ends(r, h, ending, next), NEW res \in Outcomes \cup {None},
             result' \in {result, [result EXCEPT ![r] = res]}
      PROVE  RunTypeOK'
  <2>1. /\ stage' \in [Runs -> Stages] /\ handler' \in [Runs -> BOOLEAN]
        /\ hooks' \in [Runs -> [Hooks -> Endings]]
    BY <1>3, EndsType
  <2>2. result' \in [Runs -> Outcomes \cup {None}]
    BY <1>3
  <2>3. QED
    BY <1>1, <2>1, <2>2
<1>4. CASE PreCheckPasses(r) \/ ShouldRun(r) \/ PostExecuteReturns(r)
  <2>1. PICK h \in Hooks, next \in Stages : HookPasses(r, h, next)
    BY <1>4 DEF PreCheckPasses, ShouldRun, PostExecuteReturns, Hooks, Stages
  <2>2. QED
    BY <1>3, <2>1 DEF HookPasses, Endings
<1>5. CASE PreCheckFails(r) \/ \E reason \in SkipReasons : ShouldSkip(r, reason)
  <2>1. PICK reason \in SkipReasons, h \in Hooks :
          HookReturns(r, h, "finally", Skipped(reason))
    BY <1>5 DEF PreCheckFails, ShouldSkip, SkipReasons, Hooks
  <2>2. Skipped(reason) \in Outcomes
    BY DEF Outcomes
  <2>3. QED
    BY <1>3, <2>1, <2>2 DEF HookReturns, Stages, Endings
<1>6. CASE \E res \in Executed : ExecuteReturns(r, res)
  <2>1. Executed \subseteq Outcomes
    BY DEF Executed, Outcomes
  <2>2. QED
    BY <1>3, <1>6, <2>1 DEF ExecuteReturns, HookReturns, Hooks, Stages, Endings
<1>7. CASE RollbackEnds(r)
  <2>1. Ended("failure") \in Outcomes
    BY DEF Outcomes, Statuses
  <2>2. QED
    BY <1>3, <1>7, <2>1 DEF RollbackEnds, Hooks, Stages, Endings
<1>8. CASE \E h \in Hooks : HookRaises(r, h) \/ HookInterrupted(r, h)
  BY <1>3, <1>8 DEF HookRaises, HookInterrupted, Hooks, Stages, Endings
<1>9. QED
  BY <1>2, <1>4, <1>5, <1>6, <1>7, <1>8 DEF TemplateStep

\* The finally clause of run r, and the hooks before it, keep what the
\* invariant says of r.
LEMMA StepFits ==
  ASSUME RunTypeOK, NEW r \in Runs, HooksFit(r), ResultFits(r), CleanAfter(r),
         TemplateStep(r), OwnDisplay(r)
  PROVE  HooksFit(r)' /\ ResultFits(r)' /\ CleanAfter(r)'
<1> USE DEF HooksFit, ResultFits, CleanAfter, NotYet, Over
<1>1. CASE LoggingReady(r)
  BY <1>1 DEF LoggingReady, RunTypeOK, NoHooks, Hooks
<1>2. CASE LoggingFails(r)
  BY <1>2 DEF LoggingFails, RunTypeOK
<1>3. CASE PreCheckPasses(r) \/ ShouldRun(r)
  <2>1. /\ stage[r] \in {"pre_check", "should_run"} /\ stage'[r] \in {"should_run", "execute"}
        /\ UNCHANGED result
        /\ \A h \in {"execute", "post_execute", "rollback"} : hooks'[r][h] = hooks[r][h]
    <3>1. PICK h \in {"pre_check", "should_run"}, next \in {"should_run", "execute"} :
            Ends(r, h, "returned", next) /\ UNCHANGED result
      BY <1>3 DEF PreCheckPasses, ShouldRun, HookPasses
    <3>2. h \in Hooks /\ {"execute", "post_execute", "rollback"} \subseteq Hooks \ {h}
      BY DEF Hooks
    <3>3. QED
      BY <3>1, <3>2, EndsEffect
  <2>2. QED
    BY <2>1
<1>4. CASE PreCheckFails(r) \/ \E reason \in SkipReasons : ShouldSkip(r, reason)
  <2>1. PICK reason \in SkipReasons, h \in {"pre_check", "should_run"} :
          HookReturns(r, h, "finally", Skipped(reason))
    BY <1>4 DEF PreCheckFails, ShouldSkip, SkipReasons
  <2>2. /\ stage[r] = h /\ stage'[r] = "finally"
        /\ \A k \in {"execute", "post_execute", "rollback"} : hooks'[r][k] = hooks[r][k]
    <3>1. h \in Hooks /\ {"execute", "post_execute", "rollback"} \subseteq Hooks \ {h}
      BY DEF Hooks
    <3>2. Ends(r, h, "returned", "finally")
      BY <2>1 DEF HookReturns
    <3>3. QED
      BY <3>1, <3>2, EndsEffect
  <2>3. result'[r] = Skipped(reason)
    BY <2>1 DEF HookReturns, RunTypeOK
  <2>4. result'[r].status = "skipped"
    BY <2>3 DEF Skipped
  <2>5. QED
    BY <2>2, <2>4
<1>5. CASE \E res \in Executed : ExecuteReturns(r, res)
  <2>1. PICK res \in Executed : ExecuteReturns(r, res)
    BY <1>5
  <2>2. Ends(r, "execute", "returned", "post_execute")
    BY <2>1 DEF ExecuteReturns, HookReturns
  <2>3. result'[r] = res
    BY <2>1 DEF ExecuteReturns, HookReturns, RunTypeOK
  <2>4. {"execute"} \subseteq Hooks /\ {"post_execute", "rollback"} \subseteq Hooks \ {"execute"}
    BY DEF Hooks
  <2>5. /\ stage[r] = "execute" /\ stage'[r] = "post_execute"
        /\ hooks'[r]["execute"] = "returned"
        /\ \A k \in {"post_execute", "rollback"} : hooks'[r][k] = hooks[r][k]
    BY <2>2, <2>4, EndsEffect
  <2>6. QED
    BY <2>3, <2>5
<1>6. CASE PostExecuteReturns(r)
  <2>1. Ends(r, "post_execute", "returned", "finally") /\ UNCHANGED result
    BY <1>6 DEF PostExecuteReturns, HookPasses
  <2>2. /\ stage[r] = "post_execute" /\ stage'[r] = "finally"
        /\ hooks'[r]["post_execute"] = "returned" /\ hooks'[r]["execute"] = "returned"
    <3>1. "post_execute" \in Hooks /\ "execute" \in Hooks \ {"post_execute"}
      BY DEF Hooks
    <3>2. QED
      BY <2>1, <3>1, EndsEffect
  <2>3. result'[r].status # "skipped"
    BY <2>1, <2>2 DEF Executed, Ended
  <2>4. QED
    BY <2>1, <2>2, <2>3
<1>7. CASE \E h \in Hooks : HookRaises(r, h)
  <2>1. PICK h \in Hooks : HookRaises(r, h)
    BY <1>7
  <2>2. Ends(r, h, "raised", "rollback") /\ "rollback" \in Hooks \ {h}
    BY <2>1 DEF HookRaises, Hooks
  <2>3. /\ stage[r] = h /\ stage'[r] = "rollback"
        /\ hooks'[r]["rollback"] = hooks[r]["rollback"]
    BY <2>2, EndsEffect
  <2>4. hooks[r]["rollback"] = "not_called"
    BY <2>2, <2>3 DEF Hooks
  <2>5. QED
    BY <2>3, <2>4
<1>8. CASE \E h \in Hooks : HookInterrupted(r, h)
  <2>1. stage'[r] = "finally" /\ result'[r] = None
    BY <1>8 DEF HookInterrupted, Ends, RunTypeOK
  <2>2. QED
    BY <2>1
<1>9. CASE RollbackEnds(r)
  <2>1. stage'[r] = "finally" /\ result'[r] = Ended("failure")
    BY <1>9 DEF RollbackEnds, Ends, RunTypeOK
  <2>2. QED
    BY <2>1 DEF Ended
<1>10. CASE Finally(r)
  <2>1. /\ stage[r] = "finally" /\ stage'[r] = IF result[r] = None THEN "escaped" ELSE "returned"
        /\ ~handler'[r] /\ ~display'[r] /\ UNCHANGED <<result, hooks>>
    BY <1>10 DEF Finally, RunTypeOK
  <2>2. QED
    BY <2>1
<1>11. QED
  BY <1>1, <1>2, <1>3, <1>4, <1>5, <1>6, <1>7, <1>8, <1>9, <1>10 DEF TemplateStep

\* No step of the template, by whichever task, breaks the types or the
\* invariant.
LEMMA TemplateKeeps ==
  ASSUME RunTypeOK, TemplateInv, NEW r \in Runs, TemplateStep(r), OwnDisplay(r)
  PROVE  RunTypeOK' /\ TemplateInv'
<1>1. HooksFit(r)' /\ ResultFits(r)' /\ CleanAfter(r)'
  BY StepFits DEF TemplateInv
<1>2. ASSUME NEW q \in Runs, q # r
      PROVE  HooksFit(q)' /\ ResultFits(q)' /\ CleanAfter(q)'
  BY <1>2, OthersUntouched DEF TemplateInv, HooksFit, ResultFits, CleanAfter, NotYet, Over
<1>3. QED
  BY <1>1, <1>2, TemplateType DEF TemplateInv

\* Between its steps a run may touch the display until it is over.
LEMMA DisplayKeeps ==
  ASSUME RunTypeOK, TemplateInv, UNCHANGED <<stage, handler, result, hooks>>,
         display' \in [Runs -> BOOLEAN], \A r \in Runs : Over(r) => display'[r] = display[r]
  PROVE  RunTypeOK' /\ TemplateInv'
<1>1. RunTypeOK'
  BY DEF RunTypeOK
<1>2. ASSUME NEW r \in Runs PROVE HooksFit(r)' /\ ResultFits(r)' /\ CleanAfter(r)'
  BY <1>2 DEF TemplateInv, HooksFit, ResultFits, CleanAfter, NotYet, Over
<1>3. QED
  BY <1>1, <1>2 DEF TemplateInv

\* Before anything has run the invariant holds.
LEMMA TemplateInitially == RunInit => RunTypeOK /\ TemplateInv
<1> SUFFICES ASSUME RunInit PROVE RunTypeOK /\ TemplateInv
  OBVIOUS
<1>1. RunTypeOK
  BY DEF RunInit, RunTypeOK, NoHooks, Stages, Endings
<1>2. TemplateInv
  BY DEF RunInit, TemplateInv, HooksFit, ResultFits, CleanAfter, Over
<1>3. QED
  BY <1>1, <1>2

\* The properties of BaseTask follow from the invariant.
LEMMA TemplatePromises ==
  ASSUME TemplateInv
  PROVE  NothingLeftBehind /\ SuccessIsComplete /\ SkipTouchesNothing
<1>1. NothingLeftBehind
  BY DEF TemplateInv, CleanAfter, NothingLeftBehind
<1>2. ASSUME NEW r \in Runs, stage[r] = "returned"
      PROVE  result[r] # None
  BY <1>2 DEF TemplateInv, HooksFit
<1>3. SuccessIsComplete
  BY <1>2 DEF TemplateInv, ResultFits, SuccessIsComplete
<1>4. SkipTouchesNothing
  BY <1>2 DEF TemplateInv, ResultFits, NotYet, SkipTouchesNothing
<1>5. QED
  BY <1>1, <1>3, <1>4
=============================================================================
