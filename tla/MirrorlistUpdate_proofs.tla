----------------------- MODULE MirrorlistUpdate_proofs -----------------------
(***************************************************************************)
(* The safety of the mirrorlist-update task for every number of runs, every*)
(* retention and every clock: no failure costs the list, and a success     *)
(* leaves no more backups than the settings allow.                         *)
(***************************************************************************)
EXTENDS MirrorlistUpdate, BaseTask_proofs, FiniteSetTheorems

----------------------------------------------------------------------------
(***************************************************************************)
(* The inductive invariant.  One run at a time is under way, so nobody     *)
(* else touches the list or the backups; from reflector's first write on,  *)
(* the list the run found is in the backup the run remembers.              *)
(***************************************************************************)

\* The list is the one run r found.
Intact(r) == mirrorlist = before[r]

\* The list run r found is in its backup.
Safe(r) == backupPath[r] # None /\ backups[backupPath[r]] = before[r]

Untouched(r) == backupPath[r] = None /\ Intact(r)

Progress(r) ==
  /\ stage[r] = "start" => backupPath[r] = None
  /\ stage[r] \in {"start", "pre_check", "should_run"} => step[r] = "sudo"
  /\ stage[r] \in {"pre_check", "should_run"} => Untouched(r)
  /\ At(r, "sudo") \/ At(r, "backup") => Untouched(r)
  /\ At(r, "reflector") => Safe(r) /\ Intact(r)
  /\ At(r, "saving") \/ At(r, "validate") => Safe(r)
  /\ stage[r] = "post_execute" /\ result[r] = Ended("failure") => Intact(r)
  /\ stage[r] = "rollback" => Safe(r) \/ Untouched(r)
  /\ stage[r] = "finally" /\ result[r] = Ended("failure") /\ ~botched[r] => Intact(r)

Kept(r) ==
  stage[r] = "finally" /\ result[r] = Ended("success") /\ ~botched[r]
    => Cardinality(Backups) <= Retention

IInv ==
  /\ TypeOK /\ TemplateInv /\ OneRun
  /\ \A r \in Runs : Progress(r) /\ Kept(r)

----------------------------------------------------------------------------
(* Lemmas about the operators.                                             *)

\* What a dead writer leaves is a list.
LEMMA HalfIsList == ASSUME TypeOK, NEW r \in Runs PROVE Half(r) \in Lists
BY DEF TypeOK, Half, Lists

\* A list is never mistaken for a missing backup.
LEMMA SafeHasBackup ==
  ASSUME TypeOK, NEW r \in Runs, Safe(r)
  PROVE  HasBackup(r)
BY NoneIsNoList DEF TypeOK, Safe, HasBackup

\* Without leaves a directory of backups.
LEMMA WithoutType ==
  ASSUME TypeOK, NEW gone
  PROVE  Without(gone) \in [0..MaxClock -> Lists \cup {None}]
BY DEF TypeOK, Without

\* There are finitely many backups.
LEMMA BackupsFinite == IsFiniteSet(Backups)
<1>1. IsFiniteSet(0..MaxClock)
  BY FS_Interval, ClockAssumption
<1>2. QED
  BY <1>1, FS_Subset DEF Backups

\* Deleting stale backups leaves exactly as many as the retention says.
LEMMA StaleGone ==
  ASSUME NEW s \in Stale, backups' = Without(s)
  PROVE  Cardinality(Backups') = Retention
<1>1. Backups' = Backups \ s
  BY DEF Backups, Without
<1>2. IsFiniteSet(Backups)
  BY BackupsFinite
<1>3. Cardinality(Backups) \in Nat
  BY <1>2, FS_CardinalityType
<1>4. s \in SUBSET Backups /\ Cardinality(s) = Cardinality(Backups) - Retention
  BY DEF Stale
<1>5. Cardinality(Backups \ s) = Cardinality(Backups) - Cardinality(Backups \cap s)
  BY <1>2, FS_Difference
<1>6. Backups \cap s = s
  BY <1>4
<1>7. QED
  BY <1>1, <1>3, <1>4, <1>5, <1>6, RetentionAssumption

----------------------------------------------------------------------------
(* Types.                                                                  *)

\* Every step is one of the template or leaves the template alone.
LEMMA StepOfTemplate ==
  ASSUME NEW r \in Runs, TypeOK, Begin(r) \/ Work(r) \/ Interrupt(r)
  PROVE  \/ TemplateStep(r) /\ OwnDisplay(r)
         \/ UNCHANGED runVars
<1> USE DEF TemplateStep
<1>1. UNCHANGED display => OwnDisplay(r)
  BY DEF OwnDisplay, TypeOK, RunTypeOK
<1>2. CASE Begin(r)
  BY <1>1, <1>2 DEF Begin, LoggingReady
<1>3. CASE Gates(r)
  BY <1>1, <1>3 DEF Gates
<1>4. CASE Interrupt(r)
  BY <1>1, <1>4 DEF Interrupt
<1>5. CASE End(r)
  <2>1. OwnDisplay(r)
    BY <1>5 DEF End, Finally, OwnDisplay
  <2>2. QED
    BY <1>5, <2>1 DEF End
<1>6. CASE SudoGranted(r) \/ BackUp(r) \/ ReflectorOpens(r) \/ ReflectorSaves(r)
  BY <1>6 DEF SudoGranted, BackUp, ReflectorOpens, ReflectorSaves, Goto
<1>7. CASE SudoDeclined(r) \/ ReflectorFails(r) \/ Invalid(r)
  <2>1. HookRaises(r, "execute") /\ UNCHANGED display /\ "execute" \in Hooks
    BY <1>7 DEF SudoDeclined, ReflectorFails, Invalid, Raise, Hooks
  <2>2. QED
    BY <1>1, <2>1
<1>8. CASE BackupFails(r) \/ Validated(r)
  <2>1. {Ended("failure"), Ended("success")} \subseteq Executed
    BY DEF Executed, Statuses
  <2>2. QED
    BY <1>1, <1>8, <2>1 DEF BackupFails, Validated
<1>9. CASE PostExecute(r)
  BY <1>1, <1>9 DEF PostExecute
<1>10. CASE Rollback(r)
  BY <1>1, <1>10 DEF Rollback
<1>11. QED
  BY <1>2, <1>3, <1>4, <1>5, <1>6, <1>7, <1>8, <1>9, <1>10 DEF Work, Execute

\* No step of a run breaks the types or the template's invariant.
LEMMA StepType ==
  ASSUME NEW r \in Runs, TypeOK, TemplateInv, Begin(r) \/ Work(r) \/ Interrupt(r)
  PROVE  TypeOK' /\ TemplateInv'
<1>1. RunTypeOK' /\ TemplateInv'
  <2>1. CASE TemplateStep(r) /\ OwnDisplay(r)
    BY <2>1, TemplateKeeps DEF TypeOK
  <2>2. CASE UNCHANGED runVars
    BY <2>2, DisplayKeeps DEF TypeOK, RunTypeOK, runVars
  <2>3. QED
    BY <2>1, <2>2, StepOfTemplate
<1> USE HalfIsList DEF TypeOK, files, local
<1>2. CASE Begin(r)
  BY <1>1, <1>2 DEF Begin
<1>3. CASE Gates(r) \/ Interrupt(r) \/ End(r)
  BY <1>1, <1>3 DEF Gates, Interrupt, End
<1>4. CASE SudoGranted(r)
  BY <1>1, <1>4 DEF SudoGranted, Goto, Steps
<1>5. CASE BackUp(r)
  BY <1>1, <1>5 DEF BackUp, Goto, Steps
<1>6. CASE ReflectorOpens(r)
  BY <1>1, <1>6 DEF ReflectorOpens, Goto, Steps
<1>7. CASE ReflectorSaves(r)
  BY <1>1, <1>7 DEF ReflectorSaves, Goto, Steps, Lists
<1>8. CASE SudoDeclined(r) \/ ReflectorFails(r) \/ Invalid(r) \/ Validated(r)
  BY <1>1, <1>8 DEF SudoDeclined, ReflectorFails, Invalid, Validated, Raise
<1>9. CASE BackupFails(r)
  BY <1>1, <1>9 DEF BackupFails
<1>10. CASE PostExecute(r)
  <2>1. backups' \in [0..MaxClock -> Lists \cup {None}] /\ botched' \in [Runs -> BOOLEAN]
    BY <1>10, WithoutType DEF PostExecute, Prune
  <2>2. QED
    BY <1>1, <1>10, <2>1 DEF PostExecute
<1>11. CASE Rollback(r)
  <2>1. mirrorlist' \in Lists /\ botched' \in [Runs -> BOOLEAN]
    BY <1>11 DEF Rollback, HasBackup
  <2>2. QED
    BY <1>1, <1>11, <2>1 DEF Rollback
<1>12. QED
  BY <1>2, <1>3, <1>4, <1>5, <1>6, <1>7, <1>8, <1>9, <1>10, <1>11 DEF Work, Execute

----------------------------------------------------------------------------
(* Preservation.                                                           *)

\* Whoever takes a step is the only one under way.
LEMMA OthersRest ==
  ASSUME NEW r \in Runs, TypeOK, OneRun, Begin(r) \/ Work(r) \/ Interrupt(r),
         NEW q \in Runs, q # r
  PROVE  ~Active(q)
<1>1. CASE Begin(r)
  BY <1>1 DEF Begin, Alone, Active
<1>2. CASE Work(r) \/ Interrupt(r)
  <2>1. stage[r] \in Hooks \cup {"finally"}
    BY <1>2 DEF Work, Interrupt, Gates, Execute, End, PostExecute, Rollback, PreCheckPasses,
       PreCheckFails, ShouldRun, HookPasses, HookReturns, HookInterrupted, Ends, SudoGranted,
       SudoDeclined, BackUp, BackupFails, ReflectorOpens, ReflectorSaves, ReflectorFails,
       Validated, Invalid, Raise, Goto, At, PostExecuteReturns, RollbackEnds, Finally, Hooks
  <2>2. Active(r)
    BY <2>1 DEF Active, Over, Hooks
  <2>3. QED
    BY <2>2 DEF OneRun
<1>3. QED
  BY <1>1, <1>2

\* What a run remembers is its own.
LEMMA OthersLocal ==
  ASSUME NEW r \in Runs, TypeOK, Begin(r) \/ Work(r) \/ Interrupt(r),
         NEW q \in Runs, q # r
  PROVE  /\ step'[q] = step[q] /\ backupPath'[q] = backupPath[q]
         /\ before'[q] = before[q] /\ botched'[q] = botched[q]
<1> USE DEF TypeOK, files, local
<1>1. CASE Begin(r) \/ Gates(r) \/ End(r) \/ Interrupt(r)
  BY <1>1 DEF Begin, Gates, End, Interrupt
<1>2. CASE SudoGranted(r) \/ BackUp(r) \/ ReflectorOpens(r) \/ ReflectorSaves(r)
  BY <1>2 DEF SudoGranted, BackUp, ReflectorOpens, ReflectorSaves, Goto
<1>3. CASE \/ SudoDeclined(r) \/ ReflectorFails(r) \/ Invalid(r)
           \/ BackupFails(r) \/ Validated(r)
  BY <1>3 DEF SudoDeclined, ReflectorFails, Invalid, Raise, BackupFails, Validated
<1>4. CASE PostExecute(r) \/ Rollback(r)
  BY <1>4 DEF PostExecute, Prune, Rollback
<1>5. QED
  BY <1>1, <1>2, <1>3, <1>4 DEF Work, Execute

\* A step of one run leaves what the invariant says of the others.
LEMMA OthersKeep ==
  ASSUME NEW r \in Runs, IInv, Begin(r) \/ Work(r) \/ Interrupt(r),
         NEW q \in Runs, q # r
  PROVE  Progress(q)' /\ Kept(q)' /\ ~Active(q)'
<1>1. ~Active(q)
  BY OthersRest DEF IInv
<1>2. stage'[q] = stage[q]
  <2>1. CASE TemplateStep(r) /\ OwnDisplay(r)
    BY <2>1, OthersUntouched DEF IInv, TypeOK
  <2>2. CASE UNCHANGED runVars
    BY <2>2 DEF runVars
  <2>3. QED
    BY <2>1, <2>2, StepOfTemplate DEF IInv
<1>3. step'[q] = step[q] /\ backupPath'[q] = backupPath[q]
  BY OthersLocal DEF IInv
<1>4. QED
  BY <1>1, <1>2, <1>3 DEF IInv, Progress, Kept, Active, Over, At

\* So one run at a time stays under way.
LEMMA OneRunKept ==
  ASSUME NEW r \in Runs, IInv, Begin(r) \/ Work(r) \/ Interrupt(r)
  PROVE  OneRun'
BY OthersKeep DEF OneRun

\* A run keeps what the invariant says of itself.
LEMMA OwnStepKeeps ==
  ASSUME NEW r \in Runs, IInv, Begin(r) \/ Work(r) \/ Interrupt(r)
  PROVE  Progress(r)' /\ Kept(r)'
<1>1. TypeOK /\ RunTypeOK /\ Progress(r) /\ Kept(r) /\ HooksFit(r)
  BY DEF IInv, TypeOK, TemplateInv
<1> USE <1>1 DEF files, local
<1>2. CASE Begin(r)
  BY <1>2 DEF Begin, LoggingReady, TypeOK, RunTypeOK, Progress, Kept, Untouched, Intact, At
<1>3. CASE PreCheckPasses(r) /\ Gates(r)
  <2>1. stage[r] = "pre_check" /\ stage'[r] = "should_run"
    BY <1>3 DEF PreCheckPasses, HookPasses, Ends, RunTypeOK
  <2>2. QED
    BY <1>3, <2>1 DEF Gates, Progress, Kept, Untouched, Intact, At
<1>4. CASE PreCheckFails(r) /\ Gates(r)
  <2>1. stage'[r] = "finally" /\ result'[r].status = "skipped"
    BY <1>4 DEF PreCheckFails, HookReturns, Ends, RunTypeOK, Skipped
  <2>2. QED
    BY <2>1 DEF Progress, Kept, Ended, At
<1>5. CASE ShouldRun(r) /\ Gates(r)
  <2>1. stage[r] = "should_run" /\ stage'[r] = "execute"
    BY <1>5 DEF ShouldRun, HookPasses, Ends, RunTypeOK
  <2>2. QED
    BY <1>5, <2>1 DEF Gates, Progress, Kept, Untouched, Intact, At
<1>6. CASE Interrupt(r)
  <2>1. stage'[r] = "finally" /\ result'[r] = None
    BY <1>6 DEF Interrupt, HookInterrupted, Ends, RunTypeOK
  <2>2. None # Ended("failure") /\ None # Ended("success")
    BY NoneIsNoOutcome DEF Outcomes, Statuses
  <2>3. QED
    BY <2>1, <2>2 DEF Progress, Kept, At
<1>7. CASE End(r)
  <2>1. stage'[r] \in {"returned", "escaped"}
    BY <1>7 DEF End, Finally, RunTypeOK
  <2>2. QED
    BY <2>1 DEF Progress, Kept, At
<1>8. CASE \/ SudoGranted(r) \/ BackUp(r) \/ ReflectorOpens(r) \/ ReflectorSaves(r)
  <2>1. stage[r] = "execute" /\ stage'[r] = "execute" /\ result'[r] = result[r]
    BY <1>8 DEF SudoGranted, BackUp, ReflectorOpens, ReflectorSaves, Goto, At, runVars
  <2>2. Kept(r)'
    BY <2>1 DEF Kept
  <2>3. CASE SudoGranted(r)
    BY <2>1, <2>2, <2>3 DEF SudoGranted, Goto, TypeOK, Progress, Untouched, Intact, At
  <2>4. CASE BackUp(r)
    <3>1. clock # None
      BY NoneAssumption, ClockAssumption DEF TypeOK
    <3>2. At(r, "backup") /\ step'[r] = "reflector" /\ backupPath'[r] = clock
          /\ backups'[clock] = mirrorlist /\ UNCHANGED <<mirrorlist, before>>
      BY <2>4 DEF BackUp, Goto, TypeOK
    <3>3. QED
      BY <2>1, <2>2, <3>1, <3>2 DEF Progress, Untouched, Intact, Safe, At
  <2>5. CASE ReflectorOpens(r)
    BY <2>1, <2>2, <2>5 DEF ReflectorOpens, Goto, TypeOK, Progress, Safe, At
  <2>6. CASE ReflectorSaves(r)
    BY <2>1, <2>2, <2>6 DEF ReflectorSaves, Goto, TypeOK, Progress, Safe, At
  <2>7. QED
    BY <1>8, <2>3, <2>4, <2>5, <2>6
<1>9. CASE SudoDeclined(r) \/ ReflectorFails(r) \/ Invalid(r)
  <2>1. PICK s \in {"sudo", "reflector", "saving", "validate"} : Raise(r, s)
    BY <1>9 DEF SudoDeclined, ReflectorFails, Invalid
  <2>2. stage[r] = "execute" /\ step[r] = s /\ stage'[r] = "rollback"
    BY <2>1 DEF Raise, At, HookRaises, Ends, RunTypeOK
  <2>3. Safe(r) \/ Untouched(r)
    BY <2>2 DEF Progress, At
  <2>4. UNCHANGED <<mirrorlist, backups, backupPath, before>>
    BY <2>1 DEF Raise
  <2>5. QED
    BY <2>2, <2>3, <2>4 DEF Progress, Kept, Safe, Untouched, Intact, At
<1>10. CASE BackupFails(r)
  <2>1. stage[r] = "execute" /\ step[r] = "backup" /\ stage'[r] = "post_execute"
    BY <1>10 DEF BackupFails, At, ExecuteReturns, HookReturns, Ends, RunTypeOK
  <2>2. UNCHANGED <<mirrorlist, before>>
    BY <1>10 DEF BackupFails
  <2>3. QED
    BY <2>1, <2>2 DEF Progress, Kept, Untouched, Intact, At
<1>11. CASE Validated(r)
  <2>1. stage'[r] = "post_execute" /\ result'[r] = Ended("success")
    BY <1>11 DEF Validated, ExecuteReturns, HookReturns, Ends, RunTypeOK
  <2>2. QED
    BY <2>1 DEF Progress, Kept, Ended, At
<1>12. CASE PostExecute(r)
  <2>1. /\ stage[r] = "post_execute" /\ stage'[r] = "finally" /\ result'[r] = result[r]
        /\ UNCHANGED <<mirrorlist, before>>
    BY <1>12 DEF PostExecute, PostExecuteReturns, HookPasses, Ends, RunTypeOK
  <2>2. Progress(r)'
    BY <2>1 DEF Progress, Intact, At
  <2>3. CASE result[r] = Ended("success")
    <3>1. Prune(r)
      BY <1>12, <2>3 DEF PostExecute, Ended
    <3>2. CASE \E s \in Stale : backups' = Without(s)
      BY <2>2, <3>2, StaleGone, RetentionAssumption DEF Kept
    <3>3. CASE Cardinality(Backups) < Retention /\ UNCHANGED backups
      <4>1. Backups' = Backups
        BY <3>3 DEF Backups
      <4>2. Cardinality(Backups) \in Nat
        BY BackupsFinite, FS_CardinalityType
      <4>3. QED
        BY <2>2, <3>3, <4>1, <4>2, RetentionAssumption DEF Kept
    <3>4. CASE botched'[r]
      BY <2>2, <3>4 DEF Kept
    <3>5. QED
      BY <3>1, <3>2, <3>3, <3>4 DEF Prune, TypeOK
  <2>4. CASE result[r] # Ended("success")
    BY <2>1, <2>2, <2>4 DEF Kept
  <2>5. QED
    BY <2>2, <2>3, <2>4
<1>13. CASE Rollback(r)
  <2>1. stage[r] = "rollback" /\ stage'[r] = "finally" /\ result'[r] = Ended("failure")
        /\ UNCHANGED <<before, backups, backupPath>>
    BY <1>13 DEF Rollback, RollbackEnds, Ends, RunTypeOK
  <2>2. Kept(r)'
    BY <2>1 DEF Kept, Ended
  <2>3. CASE HasBackup(r) /\ mirrorlist' = backups[backupPath[r]]
    <3>1. Safe(r)
      BY <2>1, <2>3 DEF Progress, Untouched, HasBackup
    <3>2. Intact(r)'
      BY <2>1, <2>3, <3>1 DEF Safe, Intact
    <3>3. QED
      BY <2>1, <2>2, <3>2 DEF Progress, At
  <2>4. CASE botched'[r]
    BY <2>1, <2>2, <2>4 DEF Progress, At
  <2>5. CASE ~HasBackup(r) /\ UNCHANGED mirrorlist
    <3>1. Untouched(r)
      BY <2>1, <2>5, SafeHasBackup DEF Progress
    <3>2. QED
      BY <2>1, <2>2, <2>5, <3>1 DEF Progress, Untouched, Intact, At
  <2>6. QED
    BY <1>13, <2>3, <2>4, <2>5 DEF Rollback, TypeOK
<1>14. QED
  BY <1>2, <1>3, <1>4, <1>5, <1>6, <1>7, <1>8, <1>9, <1>10, <1>11, <1>12, <1>13
     DEF Work, Execute, Gates

\* Nothing the invariant says depends on the time.
LEMMA TickKeeps == ASSUME IInv, Tick PROVE IInv'
<1>1. UNCHANGED <<runVars, files, local>> /\ clock' \in 0..MaxClock
  BY ClockAssumption DEF Tick, IInv, TypeOK
<1>2. TypeOK' /\ TemplateInv'
  <2>1. RunTypeOK' /\ TemplateInv'
    BY <1>1, DisplayKeeps DEF IInv, TypeOK, RunTypeOK, runVars
  <2>2. QED
    BY <1>1, <2>1 DEF IInv, TypeOK, files, local
<1>3. OneRun'
  BY <1>1 DEF IInv, OneRun, Active, Over, runVars
<1>4. ASSUME NEW r \in Runs PROVE Progress(r)' /\ Kept(r)'
  BY <1>1 DEF IInv, Progress, Kept, Safe, Untouched, Intact, At, Backups, runVars, files, local
<1>5. QED
  BY <1>2, <1>3, <1>4 DEF IInv

\* Initially no run has begun and there is no backup.
LEMMA IInvInitially == Init => IInv
<1> SUFFICES ASSUME Init PROVE IInv
  OBVIOUS
<1>1. TypeOK /\ TemplateInv
  BY TemplateInitially, ClockAssumption DEF Init, TypeOK, Steps, Lists, Original
<1>2. OneRun
  BY DEF Init, RunInit, OneRun, Active
<1>3. ASSUME NEW r \in Runs PROVE Progress(r) /\ Kept(r)
  BY DEF Init, RunInit, Progress, Kept, At
<1>4. QED
  BY <1>1, <1>2, <1>3 DEF IInv

\* The invariant is inductive.
LEMMA IInvStep == IInv /\ [Next]_vars => IInv'
<1> SUFFICES ASSUME IInv, [Next]_vars PROVE IInv'
  OBVIOUS
<1>1. ASSUME NEW r \in Runs, Begin(r) \/ Work(r) \/ Interrupt(r) PROVE IInv'
  <2>1. TypeOK' /\ TemplateInv'
    BY <1>1, StepType DEF IInv
  <2>2. OneRun'
    BY <1>1, OneRunKept
  <2>3. ASSUME NEW q \in Runs PROVE Progress(q)' /\ Kept(q)'
    BY <1>1, OwnStepKeeps, OthersKeep
  <2>4. QED
    BY <2>1, <2>2, <2>3 DEF IInv
<1>2. CASE UNCHANGED vars
  <2>1. UNCHANGED <<runVars, files, local, clock>>
    BY <1>2 DEF vars
  <2>2. TypeOK' /\ TemplateInv'
    <3>1. RunTypeOK' /\ TemplateInv'
      BY <2>1, DisplayKeeps DEF IInv, TypeOK, RunTypeOK, runVars
    <3>2. QED
      BY <2>1, <3>1 DEF IInv, TypeOK, files, local
  <2>3. OneRun'
    BY <2>1 DEF IInv, OneRun, Active, Over, runVars
  <2>4. ASSUME NEW r \in Runs PROVE Progress(r)' /\ Kept(r)'
    BY <2>1 DEF IInv, Progress, Kept, Safe, Untouched, Intact, At, Backups, runVars, files, local
  <2>5. QED
    BY <2>2, <2>3, <2>4 DEF IInv
<1>3. QED
  BY <1>1, <1>2, TickKeeps DEF Next

\* The invariant holds in every run of the task.
LEMMA IInvAlways == Spec => []IInv
BY IInvInitially, IInvStep, PTL DEF Spec

----------------------------------------------------------------------------
(* The theorems.                                                           *)

\* The state of the task and of its files always has its type.
THEOREM MirrorTypeCorrect == Spec => []TypeOK
<1>1. IInv => TypeOK
  BY DEF IInv
<1>2. QED
  BY <1>1, IInvAlways, PTL

\* However many runs follow one another and wherever execute() fails, a run
\* that reports a failure leaves the list as it found it: backup_file, the
\* path in self.backup_path and rollback()'s restore fit together.
THEOREM ListSurvivesFailure == Spec => []FailureLeavesListAsFound
<1>1. IInv => FailureLeavesListAsFound
  BY DEF IInv, Progress, Intact, FailureLeavesListAsFound
<1>2. QED
  BY <1>1, IInvAlways, PTL

\* For every retention, a success leaves at most that many backups: the slice
\* backups[:-retention] of post_execute is the right one.
THEOREM BackupsStayFew == Spec => []RetentionHolds
<1>1. IInv => RetentionHolds
  BY DEF IInv, Kept, RetentionHolds
<1>2. QED
  BY <1>1, IInvAlways, PTL
=============================================================================
