------------------------- MODULE SystemUpdate_proofs -------------------------
(***************************************************************************)
(* The safety of the system-update task for every number of runs, every    *)
(* setting and every version: an aborted transaction is undone, a run that *)
(* did not succeed prunes nothing, and the recovery record is about one    *)
(* completed transaction.                                                  *)
(***************************************************************************)
EXTENDS SystemUpdate, BaseTask_proofs, SequenceTheorems

----------------------------------------------------------------------------
(***************************************************************************)
(* The inductive invariant.  One run at a time is under way.  Until pacman *)
(* has installed anything, the run's backup holds the database it found;   *)
(* from then on what the task object remembers is about that transaction.  *)
(***************************************************************************)

Same(r) == syncDb = seen[r].syncDb /\ installed = seen[r].installed

\* Nothing has been noted by run r, nor done by its pacman.
Fresh(r) == self[r].backup = None /\ seen[r].pacman = "not_run"

\* self.sync_db_backup names the backup of the database r found.
BackedUp(r) == self[r].backup = r /\ backups[r] = seen[r].syncDb

Noted(r) == BackedUp(r) /\ self[r].before = seen[r].installed

\* Run r's transaction moved the system on.
Upgraded(r) ==
  /\ seen[r].pacman = "done" /\ Noted(r)
  /\ Threshold > 0 => seen[r].installed < installed

\* Snapshot id is one of the system as run r found it.
HoldsBefore(id, before) ==
  id # None => id \in 1..Len(snapshots) /\ snapshots[id] = before

Progress(r) ==
  /\ stage[r] \in {"start", "pre_check", "should_run"} =>
       step[r] = "manifest" /\ Fresh(r)
  /\ stage[r] \in {"pre_check", "should_run"} => Same(r)
  /\ At(r, "manifest") => Fresh(r) /\ Same(r) /\ EnoughPending
  /\ At(r, "backup") => /\ Fresh(r) /\ Same(r) /\ EnoughPending
                        /\ self[r].before = seen[r].installed
  /\ At(r, "pacman") => /\ Noted(r) /\ Same(r) /\ EnoughPending
                        /\ seen[r].pacman = "not_run"
  /\ At(r, "install") => /\ Noted(r) /\ installed = seen[r].installed
                         /\ syncDb - installed >= Threshold
                         /\ seen[r].pacman = "not_run"
  /\ stage[r] = "execute" /\ step[r] \notin {"manifest", "backup", "pacman", "install"}
       => Upgraded(r)
  /\ At(r, "snapshot") /\ Threshold > 0 /\ Tooling =>
       snapshots # <<>> /\ snapshots[Len(snapshots)] = seen[r].installed
  /\ (At(r, "aur") \/ At(r, "manifest_after") \/ At(r, "record")) /\ Threshold > 0 =>
       HoldsBefore(self[r].snapshot, seen[r].installed)
  /\ At(r, "record") => self[r].after = installed

\* What is left of the system while a run ends.
Aftermath(r) ==
  /\ stage[r] = "post_execute" /\ result[r] = Ended("failure") => Same(r)
  /\ stage[r] = "rollback" => \/ seen[r].pacman = "done" /\ BackedUp(r)
                              \/ self[r].backup = None /\ Same(r)
                              \/ BackedUp(r) /\ installed = seen[r].installed
  /\ Finished(r, "failure") /\ seen[r].pacman # "done"
       /\ hooks[r]["rollback"] # "raised" => Same(r)

\* Only a run that succeeded has pruned the cache.
CacheKept(r) ==
  Active(r) /\ ~(stage[r] = "finally" /\ result[r] # None /\ result[r].status = "success")
    => seen[r].cache \subseteq cache

RecordFits ==
  record \notin {None, Garbage} =>
    /\ record \in Records
    /\ record.backup = record.run
    /\ seen[record.run].pacman = "done"
    /\ backups[record.run] = seen[record.run].syncDb
    /\ record.before = seen[record.run].installed
    /\ Threshold > 0 => /\ record.before < record.after
                        /\ HoldsBefore(record.snapshot, record.before)

IInv ==
  /\ TypeOK /\ TemplateInv /\ OneRun /\ RecordFits
  /\ \A r \in Runs : Progress(r) /\ Aftermath(r) /\ CacheKept(r)

----------------------------------------------------------------------------
(* What a step touches.                                                    *)

\* What a run does.
Step(r) ==
  \/ Begin(r) \/ PreCheck(r) \/ SkipGates(r) \/ NewsGate(r) \/ Execute(r)
  \/ PostExecute(r) \/ Rollback(r) \/ Interrupt(r) \/ End(r)

\* Every step is one of the template or leaves the template alone.
LEMMA StepOfTemplate ==
  ASSUME NEW r \in Runs, TypeOK, Step(r)
  PROVE  \/ TemplateStep(r) /\ OwnDisplay(r)
         \/ UNCHANGED runVars /\ stage[r] = "execute"
<1> USE DEF TemplateStep
<1>1. UNCHANGED display => OwnDisplay(r)
  BY DEF OwnDisplay, TypeOK, RunTypeOK
<1>2. CASE Begin(r)
  BY <1>1, <1>2 DEF Begin, LoggingReady
<1>3. CASE PreCheck(r)
  BY <1>1, <1>3 DEF PreCheck, Elsewhere
<1>4. CASE SkipGates(r)
  <2>1. {"mirrorlist_stale", "no_work_needed", "reboot_required"} \subseteq SkipReasons
    BY DEF SkipReasons
  <2>2. "should_run" \in Hooks
    BY DEF Hooks
  <2>3. QED
    BY <1>1, <1>4, <2>1, <2>2 DEF SkipGates, Elsewhere
<1>5. CASE NewsGate(r)
  <2>1. "user_cancelled" \in SkipReasons
    BY DEF SkipReasons
  <2>2. QED
    BY <1>1, <1>5, <2>1 DEF NewsGate, Elsewhere
<1>6. ASSUME NEW s \in Steps, Raise(r, s)
      PROVE  TemplateStep(r) /\ OwnDisplay(r)
  <2>1. "execute" \in Hooks
    BY DEF Hooks
  <2>2. QED
    BY <1>1, <1>6, <2>1 DEF Raise
<1>7. ASSUME NEW res \in Executed, ExecuteReturns(r, res), UNCHANGED display
      PROVE  TemplateStep(r) /\ OwnDisplay(r)
  BY <1>1, <1>7
<1>8. CASE Execute(r)
  <2>1. CASE \/ \E from, to \in Steps : Goto(r, from, to)
             \/ \E s \in Steps : Raise(r, s)
    BY <1>6, <2>1 DEF Goto, At
  <2>2. CASE Manifest(r) \/ Refresh(r) \/ Install(r) \/ SnapshotId(r) \/ Aur(r)
             \/ ManifestAfter(r) \/ WriteRecord(r) \/ PacmanFails(r)
    BY <2>1, <2>2 DEF Manifest, Refresh, Install, SnapshotId, Aur, ManifestAfter,
       WriteRecord, PacmanFails, RaiseUnchanged, Steps
  <2>3. CASE BackUpDb(r)
    <3>1. Ended("failure") \in Executed
      BY DEF Executed, Statuses
    <3>2. CASE Goto(r, "backup", "pacman")
      BY <2>1, <3>2 DEF Steps
    <3>3. CASE ExecuteReturns(r, Ended("failure")) /\ UNCHANGED display
      BY <1>7, <3>1, <3>3
    <3>4. QED
      BY <2>3, <3>2, <3>3 DEF BackUpDb, Elsewhere
  <2>4. CASE Return(r)
    <3>1. {Ended("partial"), Ended("success")} \subseteq Executed
      BY DEF Executed, Statuses
    <3>2. PICK res \in Executed : ExecuteReturns(r, res)
      BY <2>4, <3>1 DEF Return
    <3>3. QED
      BY <1>7, <2>4, <3>2 DEF Return, Elsewhere
  <2>5. QED
    BY <1>8, <2>2, <2>3, <2>4 DEF Execute
<1>9. CASE PostExecute(r)
  BY <1>1, <1>9 DEF PostExecute
<1>10. CASE Rollback(r)
  BY <1>1, <1>10 DEF Rollback
<1>11. CASE Interrupt(r)
  BY <1>1, <1>11 DEF Interrupt
<1>12. CASE End(r)
  <2>1. OwnDisplay(r)
    BY <1>12 DEF End, Finally, OwnDisplay
  <2>2. QED
    BY <1>12, <2>1 DEF End
<1>13. QED
  BY <1>2, <1>3, <1>4, <1>5, <1>8, <1>9, <1>10, <1>11, <1>12 DEF Step

\* What a run remembers, its backup and what it found are its own.
LEMMA OthersLocal ==
  ASSUME NEW r \in Runs, TypeOK, Step(r), NEW q \in Runs, q # r
  PROVE  /\ step'[q] = step[q] /\ self'[q] = self[q]
         /\ seen'[q] = seen[q] /\ backups'[q] = backups[q]
<1> USE DEF TypeOK, artifacts
<1>1. CASE Begin(r) \/ PreCheck(r) \/ SkipGates(r) \/ NewsGate(r) \/ Interrupt(r) \/ End(r)
  BY <1>1 DEF Begin, PreCheck, SkipGates, NewsGate, Interrupt, End, Elsewhere
<1>2. CASE Manifest(r) \/ BackUpDb(r) \/ Refresh(r) \/ Install(r) \/ PacmanFails(r)
  BY <1>2 DEF Manifest, BackUpDb, Refresh, Install, PacmanFails, RaiseUnchanged, Raise, Goto,
     Set, Pacman, Elsewhere
<1>3. CASE SnapshotId(r) \/ Aur(r) \/ ManifestAfter(r) \/ WriteRecord(r) \/ Return(r)
  BY <1>3 DEF SnapshotId, Aur, ManifestAfter, WriteRecord, Return, RaiseUnchanged, Raise, Goto,
     Set, Elsewhere
<1>4. CASE PostExecute(r) \/ Rollback(r)
  BY <1>4 DEF PostExecute, Rollback
<1>5. QED
  BY <1>1, <1>2, <1>3, <1>4 DEF Step, Execute

\* Whoever takes a step is the only one under way.
LEMMA OthersRest ==
  ASSUME NEW r \in Runs, TypeOK, OneRun, Step(r), NEW q \in Runs, q # r
  PROVE  ~Active(q)
<1>1. CASE Begin(r)
  BY <1>1 DEF Begin, Active
<1>2. CASE ~Begin(r)
  <2>1. stage[r] \in Hooks \cup {"finally"}
    <3>1. CASE Execute(r)
      BY <3>1 DEF Execute, Manifest, BackUpDb, Refresh, Install, PacmanFails, SnapshotId, Aur,
         ManifestAfter, WriteRecord, Return, RaiseUnchanged, Raise, Goto, At, Hooks
    <3>2. CASE ~Execute(r)
      BY <1>2, <3>2 DEF Step, PreCheck, SkipGates, NewsGate, PostExecute, Rollback, Interrupt,
         End, PreCheckPasses, PreCheckFails, ShouldRun, ShouldSkip, HookPasses, HookReturns,
         HookRaises, HookInterrupted, PostExecuteReturns, RollbackEnds, Ends, Finally, Hooks
    <3>3. QED
      BY <3>1, <3>2
  <2>2. QED
    BY <2>1 DEF OneRun, Active, Over, Hooks
<1>3. QED
  BY <1>1, <1>2

\* A step of one run leaves what the invariant says of the others.
LEMMA OthersKeep ==
  ASSUME NEW r \in Runs, IInv, Step(r), NEW q \in Runs, q # r
  PROVE  Progress(q)' /\ Aftermath(q)' /\ CacheKept(q)' /\ ~Active(q)'
<1>1. ~Active(q)
  BY OthersRest DEF IInv
<1>2. stage'[q] = stage[q]
  BY StepOfTemplate, OthersUntouched DEF IInv, TypeOK, runVars
<1>3. step'[q] = step[q] /\ self'[q] = self[q] /\ seen'[q] = seen[q]
  BY OthersLocal DEF IInv
<1>4. stage[q] \in {"start", "returned", "escaped"}
  BY <1>1 DEF Active, Over
<1>5. Progress(q)'
  BY <1>2, <1>3, <1>4 DEF IInv, Progress, Fresh, At
<1>6. QED
  BY <1>1, <1>2, <1>4, <1>5 DEF Aftermath, CacheKept, Finished, Active, Over

----------------------------------------------------------------------------
(* Snapshots and the record.                                               *)

\* The snapshots a step of pacman or paru may leave.
SnapshotsGrow == snapshots' \in {snapshots, Append(snapshots, installed)}

\* snap-pac only adds snapshots.
LEMMA SnapshotsStay ==
  ASSUME TypeOK, SnapshotsGrow, NEW i \in 1..Len(snapshots)
  PROVE  i \in 1..Len(snapshots') /\ snapshots'[i] = snapshots[i]
BY DEF TypeOK, SnapshotsGrow

\* A record stays true as long as no run whose transaction was completed is
\* touched: a new one is written at the end of execute() only.
LEMMA RecordKeeps ==
  ASSUME TypeOK, RecordFits, SnapshotsGrow, record' \in {record, Garbage},
         \A q \in Runs : seen[q].pacman = "done" => seen'[q] = seen[q] /\ backups'[q] = backups[q]
  PROVE  RecordFits'
<1> SUFFICES ASSUME record' \notin {None, Garbage} PROVE RecordFits'
  BY DEF RecordFits
<1>1. record' = record /\ record \in Records /\ record.run \in Runs
  BY DEF RecordFits, Records
<1>2. seen'[record.run] = seen[record.run] /\ backups'[record.run] = backups[record.run]
  BY <1>1 DEF RecordFits
<1>3. HoldsBefore(record.snapshot, record.before) /\ record.snapshot # None =>
          record.snapshot \in 1..Len(snapshots') /\ snapshots'[record.snapshot] = record.before
  BY SnapshotsStay DEF HoldsBefore
<1>4. QED
  BY <1>1, <1>2, <1>3 DEF RecordFits, HoldsBefore

----------------------------------------------------------------------------
(* Preservation, action by action.                                         *)

\* What the invariant says of one run.
Good(r) == Progress(r) /\ Aftermath(r) /\ CacheKept(r)

\* The part of the types that is not the template's.
SystemTypeOK ==
  /\ {repo, syncDb, installed} \subseteq Versions
  /\ cache \subseteq Versions
  /\ snapshots \in Seq(Versions)
  /\ backups \in [Runs -> Versions \cup {None}]
  /\ record \in Records \cup {None, Garbage}
  /\ script \in Runs \cup {None}
  /\ cooling \in BOOLEAN
  /\ step \in [Runs -> Steps]
  /\ self \in [Runs -> Selves]
  /\ seen \in [Runs -> Sights]

Safe(r) == SystemTypeOK /\ RecordFits /\ Good(r)

\* A run begins: it sees the system.
LEMMA BeginKeeps ==
  ASSUME NEW r \in Runs, IInv, Begin(r)
  PROVE  Safe(r)'
<1>1. TypeOK /\ RunTypeOK /\ RecordFits /\ Progress(r) /\ HooksFit(r)
  BY DEF IInv, TypeOK, TemplateInv
<1>2. /\ stage[r] = "start" /\ stage'[r] = "pre_check" /\ UNCHANGED result
      /\ seen' = [seen EXCEPT ![r] = Sight]
      /\ UNCHANGED <<system, artifacts, cooling, step, self>>
  BY <1>1 DEF Begin, LoggingReady, RunTypeOK
<1>3. Sight \in Sights
  BY <1>1 DEF TypeOK, Sight, Sights
<1>4. SystemTypeOK'
  BY <1>1, <1>2, <1>3 DEF TypeOK, SystemTypeOK, system, artifacts
<1>5. seen'[r] = Sight /\ seen[r].pacman = "not_run"
  BY <1>1, <1>2 DEF TypeOK, Progress, Fresh
<1>6. RecordFits'
  <2>1. \A q \in Runs : seen[q].pacman = "done" => seen'[q] = seen[q] /\ backups'[q] = backups[q]
    BY <1>1, <1>2, <1>5 DEF TypeOK, artifacts
  <2>2. SnapshotsGrow /\ record' = record
    BY <1>2 DEF SnapshotsGrow, system, artifacts
  <2>3. QED
    BY <1>1, <2>1, <2>2, RecordKeeps
<1>7. Progress(r)'
  BY <1>1, <1>2, <1>5 DEF Progress, Fresh, Same, Sight, At, system
<1>8. Aftermath(r)' /\ CacheKept(r)'
  BY <1>2, <1>5 DEF Aftermath, CacheKept, Finished, Sight, system
<1>9. QED
  BY <1>4, <1>6, <1>7, <1>8 DEF Safe, Good

\* A step that changes nothing but where the run is and what it remembers.
Quiet(r) == UNCHANGED <<system, backups, script, seen>> /\ record' \in {record, Garbage}

\* Such a step leaves a record that fits.
LEMMA QuietRecord ==
  ASSUME NEW r \in Runs, TypeOK, RecordFits, Quiet(r)
  PROVE  RecordFits'
BY RecordKeeps DEF Quiet, SnapshotsGrow, system

\* The gates change nothing; the last lets execute() begin.
LEMMA GatesKeep ==
  ASSUME NEW r \in Runs, IInv, PreCheck(r) \/ SkipGates(r) \/ NewsGate(r)
  PROVE  Safe(r)'
<1>1. TypeOK /\ RunTypeOK /\ RecordFits /\ Good(r) /\ HooksFit(r)
  BY DEF IInv, TypeOK, TemplateInv, Good
<1>2. Elsewhere /\ Quiet(r)
  BY DEF PreCheck, SkipGates, NewsGate, Elsewhere, Quiet, artifacts
<1>3. RecordFits'
  BY <1>1, <1>2, QuietRecord
<1>4. self'[r].backup = self[r].backup /\ self' \in [Runs -> Selves]
  <2>1. UNCHANGED self \/ self' = [self EXCEPT ![r].asked = TRUE]
    BY DEF PreCheck, SkipGates, NewsGate
  <2>2. [self[r] EXCEPT !.asked = TRUE] \in Selves
    BY <1>1 DEF TypeOK, Selves
  <2>3. CASE self' = [self EXCEPT ![r].asked = TRUE]
    <3>1. self'[r] = [self[r] EXCEPT !.asked = TRUE]
      BY <1>1, <2>3 DEF TypeOK
    <3>2. self' \in [Runs -> Selves]
      BY <1>1, <2>2, <2>3 DEF TypeOK
    <3>3. self[r] \in Selves
      BY <1>1 DEF TypeOK
    <3>4. QED
      BY <3>1, <3>2, <3>3 DEF Selves
  <2>4. QED
    BY <1>1, <2>1, <2>3 DEF TypeOK
<1>5. SystemTypeOK'
  BY <1>1, <1>2, <1>4 DEF TypeOK, SystemTypeOK, Elsewhere, system, artifacts
<1>6. stage[r] \in {"pre_check", "should_run"} /\ step[r] = "manifest" /\ Fresh(r) /\ Same(r)
      /\ seen[r].cache \subseteq cache
  <2>1. stage[r] \in {"pre_check", "should_run"}
    BY DEF PreCheck, SkipGates, NewsGate, PreCheckPasses, PreCheckFails, ShouldRun, ShouldSkip,
       HookPasses, HookReturns, HookRaises, Ends
  <2>2. QED
    BY <1>1, <2>1 DEF Good, Progress, CacheKept, Active, Over
<1>7. step'[r] = "manifest" /\ Fresh(r)' /\ Same(r)' /\ (seen[r].cache \subseteq cache)'
      /\ UNCHANGED <<repo, installed>>
  BY <1>2, <1>4, <1>6 DEF Fresh, Same, Elsewhere, system
<1>8. \/ stage'[r] = "should_run"
      \/ stage'[r] = "execute" /\ EnoughPending
      \/ stage'[r] = "finally" /\ result'[r].status = "skipped"
      \/ stage'[r] = "rollback"
  <2>1. CASE PreCheck(r)
    BY <1>1, <2>1 DEF PreCheck, PreCheckPasses, PreCheckFails, HookPasses, HookReturns, Ends,
       RunTypeOK, Skipped
  <2>2. CASE SkipGates(r)
    BY <1>1, <2>2 DEF SkipGates, ShouldSkip, HookRaises, HookReturns, Ends, RunTypeOK, Skipped
  <2>3. CASE NewsGate(r)
    BY <1>1, <2>3 DEF NewsGate, ShouldSkip, ShouldRun, HookPasses, HookReturns, Ends, RunTypeOK,
       Skipped
  <2>4. QED
    BY <2>1, <2>2, <2>3
<1>9. Progress(r)'
  BY <1>7, <1>8 DEF Progress, EnoughPending, At
<1>10. Aftermath(r)' /\ CacheKept(r)'
  BY <1>7, <1>8 DEF Aftermath, CacheKept, Finished, Ended, Fresh
<1>11. QED
  BY <1>3, <1>5, <1>9, <1>10 DEF Safe, Good

\* From one step of execute() to the next.
LEMMA GotoFacts ==
  ASSUME TypeOK, NEW r \in Runs, NEW from, NEW to \in Steps, Goto(r, from, to)
  PROVE  /\ stage[r] = "execute" /\ step[r] = from
         /\ stage'[r] = "execute" /\ step'[r] = to
         /\ step' \in [Runs -> Steps] /\ cooling' = cooling
         /\ Aftermath(r)'
BY DEF TypeOK, Goto, At, runVars, Aftermath, Finished

\* From execute() to the rollback.
LEMMA RaiseFacts ==
  ASSUME TypeOK, NEW r \in Runs, NEW s, Raise(r, s)
  PROVE  /\ stage[r] = "execute" /\ step[r] = s /\ stage'[r] = "rollback"
         /\ UNCHANGED <<cooling, step, self>>
         /\ Progress(r)'
BY DEF TypeOK, RunTypeOK, Raise, At, HookRaises, Ends, Progress

\* An attribute of one task object is set.
LEMMA SetFacts ==
  ASSUME TypeOK, NEW r \in Runs, NEW field, NEW value, Set(r, field, value),
         [self[r] EXCEPT ![field] = value] \in Selves
  PROVE  self' \in [Runs -> Selves] /\ self'[r] = [self[r] EXCEPT ![field] = value]
BY DEF TypeOK, Set

\* The first manifest.
LEMMA ManifestKeeps ==
  ASSUME NEW r \in Runs, IInv, Manifest(r)
  PROVE  Safe(r)'
<1>1. TypeOK /\ RecordFits /\ Good(r) /\ self[r] \in Selves /\ installed \in Versions
  BY DEF IInv, TypeOK, Good
<1>2. Quiet(r)
  BY DEF Manifest, RaiseUnchanged, Quiet, artifacts
<1>3. RecordFits'
  BY <1>1, <1>2, QuietRecord
<1>4. CASE Goto(r, "manifest", "backup") /\ Set(r, "before", installed)
  <2>1. [self[r] EXCEPT !["before"] = installed] \in Selves
    BY <1>1 DEF Selves
  <2>2. /\ self' \in [Runs -> Selves] /\ self'[r].before = installed
        /\ self'[r].backup = self[r].backup
    BY <1>1, <1>4, <2>1, SetFacts DEF Selves
  <2>3. /\ stage[r] = "execute" /\ step[r] = "manifest"
        /\ stage'[r] = "execute" /\ step'[r] = "backup"
        /\ step' \in [Runs -> Steps] /\ cooling' = cooling /\ Aftermath(r)'
    BY <1>1, <1>4, GotoFacts DEF Steps
  <2>4. SystemTypeOK'
    BY <1>1, <1>2, <2>2, <2>3 DEF TypeOK, SystemTypeOK, Quiet, system
  <2>5. Fresh(r) /\ Same(r) /\ EnoughPending /\ seen[r].cache \subseteq cache
    BY <1>1, <2>3 DEF Good, Progress, CacheKept, Active, Over, At
  <2>6. Fresh(r)' /\ Same(r)' /\ EnoughPending' /\ CacheKept(r)'
        /\ self'[r].before = (seen[r].installed)'
    BY <1>2, <2>2, <2>5 DEF Fresh, Same, EnoughPending, CacheKept, Quiet, system
  <2>7. Progress(r)'
    BY <2>3, <2>6 DEF Progress, At
  <2>8. QED
    BY <1>3, <2>3, <2>4, <2>6, <2>7 DEF Safe, Good
<1>5. CASE RaiseUnchanged(r, "manifest")
  <2>1. /\ stage[r] = "execute" /\ step[r] = "manifest" /\ stage'[r] = "rollback"
        /\ UNCHANGED <<cooling, step, self>> /\ Progress(r)'
    BY <1>1, <1>5, RaiseFacts DEF RaiseUnchanged
  <2>2. SystemTypeOK'
    BY <1>1, <1>5, <2>1 DEF TypeOK, SystemTypeOK, RaiseUnchanged, system, artifacts
  <2>3. Fresh(r) /\ Same(r) /\ seen[r].cache \subseteq cache
    BY <1>1, <2>1 DEF Good, Progress, CacheKept, Active, Over, At
  <2>4. Aftermath(r)' /\ CacheKept(r)'
    BY <1>2, <2>1, <2>3 DEF Aftermath, CacheKept, Finished, Fresh, Same, Quiet, system
  <2>5. QED
    BY <1>3, <2>1, <2>2, <2>4 DEF Safe, Good
<1>6. QED
  BY <1>4, <1>5 DEF Manifest

\* The backup of the sync database, or the failure execute() returns.
LEMMA BackUpDbKeeps ==
  ASSUME NEW r \in Runs, IInv, BackUpDb(r)
  PROVE  Safe(r)'
<1>1. TypeOK /\ RunTypeOK /\ RecordFits /\ Good(r) /\ self[r] \in Selves
  BY DEF IInv, TypeOK, Good
<1>2. stage[r] = "execute" /\ step[r] = "backup"
  BY DEF BackUpDb, Goto, At
<1>3. /\ Fresh(r) /\ Same(r) /\ EnoughPending /\ self[r].before = seen[r].installed
      /\ seen[r].cache \subseteq cache
  BY <1>1, <1>2 DEF Good, Progress, CacheKept, Active, Over, At
<1>4. CASE /\ Goto(r, "backup", "pacman")
           /\ backups' = [backups EXCEPT ![r] = syncDb]
           /\ Set(r, "backup", r)
           /\ UNCHANGED <<system, record, script, seen>>
  <2>1. [self[r] EXCEPT !["backup"] = r] \in Selves
    BY <1>1 DEF Selves
  <2>2. /\ self' \in [Runs -> Selves] /\ self'[r].before = self[r].before
        /\ self'[r].backup = r
    BY <1>1, <1>4, <2>1, SetFacts DEF Selves
  <2>3. /\ stage'[r] = "execute" /\ step'[r] = "pacman"
        /\ step' \in [Runs -> Steps] /\ cooling' = cooling /\ Aftermath(r)'
    BY <1>1, <1>4, GotoFacts DEF Steps
  <2>4. SystemTypeOK'
    BY <1>1, <1>4, <2>2, <2>3 DEF TypeOK, SystemTypeOK, system
  <2>5. backups'[r] = syncDb
    BY <1>1, <1>4 DEF TypeOK
  <2>6. RecordFits'
    <3>1. \A q \in Runs : seen[q].pacman = "done" =>
            seen'[q] = seen[q] /\ backups'[q] = backups[q]
      BY <1>1, <1>3, <1>4 DEF TypeOK, Fresh
    <3>2. QED
      BY <1>1, <1>4, <3>1, RecordKeeps DEF SnapshotsGrow, system
  <2>7. /\ Noted(r)' /\ Same(r)' /\ EnoughPending' /\ CacheKept(r)'
        /\ (seen[r].pacman = "not_run")'
    BY <1>3, <1>4, <2>2, <2>5 DEF Noted, BackedUp, Same, Fresh, EnoughPending, CacheKept, system
  <2>8. Progress(r)'
    BY <2>3, <2>7 DEF Progress, At
  <2>9. QED
    BY <2>3, <2>4, <2>6, <2>7, <2>8 DEF Safe, Good
<1>5. CASE At(r, "backup") /\ ExecuteReturns(r, Ended("failure")) /\ Elsewhere /\ UNCHANGED self
  <2>1. stage'[r] = "post_execute"
    BY <1>1, <1>5 DEF ExecuteReturns, HookReturns, Ends, RunTypeOK
  <2>2. Quiet(r)
    BY <1>5 DEF Elsewhere, Quiet, artifacts
  <2>3. SystemTypeOK'
    BY <1>1, <1>5 DEF TypeOK, SystemTypeOK, Elsewhere, system, artifacts
  <2>4. Same(r)' /\ CacheKept(r)'
    BY <1>3, <2>2 DEF Same, CacheKept, Quiet, system
  <2>5. Progress(r)' /\ Aftermath(r)'
    BY <2>1, <2>4 DEF Progress, Aftermath, Finished, At
  <2>6. QED
    BY <1>1, <2>2, <2>3, <2>4, <2>5, QuietRecord DEF Safe, Good
<1>6. QED
  BY <1>4, <1>5 DEF BackUpDb

\* pacman refreshes the databases to what EnoughPending saw, or later.
LEMMA RefreshKeeps ==
  ASSUME NEW r \in Runs, IInv, Refresh(r)
  PROVE  Safe(r)'
<1>1. TypeOK /\ RecordFits /\ Good(r)
  BY DEF IInv, TypeOK, Good
<1>2. /\ stage[r] = "execute" /\ step[r] = "pacman"
      /\ stage'[r] = "execute" /\ step'[r] = "install"
      /\ step' \in [Runs -> Steps] /\ cooling' = cooling /\ Aftermath(r)'
  BY <1>1, GotoFacts DEF Refresh, Steps
<1>3. /\ Noted(r) /\ Same(r) /\ EnoughPending /\ seen[r].pacman = "not_run"
      /\ seen[r].cache \subseteq cache
  BY <1>1, <1>2 DEF Good, Progress, CacheKept, Active, Over, At
<1>4. syncDb' = repo /\ UNCHANGED <<repo, installed, cache, snapshots, artifacts, self, seen>>
  BY DEF Refresh
<1>5. SystemTypeOK'
  BY <1>1, <1>2, <1>4 DEF TypeOK, SystemTypeOK, artifacts
<1>6. RecordFits'
  BY <1>1, <1>4, RecordKeeps DEF SnapshotsGrow, artifacts
<1>7. /\ Noted(r)' /\ (installed = seen[r].installed)' /\ (syncDb - installed >= Threshold)'
      /\ (seen[r].pacman = "not_run")' /\ CacheKept(r)'
  BY <1>3, <1>4 DEF Noted, BackedUp, Same, EnoughPending, CacheKept, artifacts
<1>8. Progress(r)'
  BY <1>2, <1>7 DEF Progress, At
<1>9. QED
  BY <1>2, <1>5, <1>6, <1>7, <1>8 DEF Safe, Good

\* How pacman ended is noted for one run.
LEMMA PacmanFacts ==
  ASSUME TypeOK, NEW r \in Runs, NEW end \in {"failed", "done"}, Pacman(r, end)
  PROVE  /\ seen' \in [Runs -> Sights]
         /\ seen'[r].pacman = end /\ seen'[r].syncDb = seen[r].syncDb
         /\ seen'[r].installed = seen[r].installed /\ seen'[r].cache = seen[r].cache
         /\ \A q \in Runs \ {r} : seen'[q] = seen[q]
<1>1. seen \in [Runs -> Sights] /\ seen[r] \in Sights
  BY DEF TypeOK
<1>2. [seen[r] EXCEPT !.pacman = end] \in Sights
  BY <1>1 DEF Sights
<1>3. /\ seen' \in [Runs -> Sights] /\ seen'[r] = [seen[r] EXCEPT !.pacman = end]
      /\ \A q \in Runs \ {r} : seen'[q] = seen[q]
  BY <1>1, <1>2 DEF Pacman
<1>4. QED
  BY <1>1, <1>3 DEF Sights

\* The snapshot before a transaction is one more version.
LEMMA SnapshotType ==
  ASSUME TypeOK
  PROVE  Snapshot \in Seq(Versions) /\ Append(snapshots, installed) \in Seq(Versions)
BY DEF TypeOK, Snapshot

\* pacman installs what the databases describe, a snapshot first.
LEMMA InstallKeeps ==
  ASSUME NEW r \in Runs, IInv, Install(r)
  PROVE  Safe(r)'
<1>1. TypeOK /\ RecordFits /\ Good(r) /\ {syncDb, installed} \subseteq Versions
  BY DEF IInv, TypeOK, Good
<1>2. /\ stage[r] = "execute" /\ step[r] = "install"
      /\ stage'[r] = "execute" /\ step'[r] = "snapshot"
      /\ step' \in [Runs -> Steps] /\ cooling' = cooling /\ Aftermath(r)'
  BY <1>1, GotoFacts DEF Install, Steps
<1>3. /\ Noted(r) /\ installed = seen[r].installed /\ syncDb - installed >= Threshold
      /\ seen[r].pacman = "not_run" /\ seen[r].cache \subseteq cache
  BY <1>1, <1>2 DEF Good, Progress, CacheKept, Active, Over, At
<1>4. /\ installed' = syncDb /\ cache' = cache \cup {syncDb} /\ snapshots' = Snapshot
      /\ UNCHANGED <<repo, syncDb, artifacts, self>>
  BY DEF Install
<1>5. /\ seen' \in [Runs -> Sights]
      /\ seen'[r].pacman = "done" /\ seen'[r].syncDb = seen[r].syncDb
      /\ seen'[r].installed = seen[r].installed /\ seen'[r].cache = seen[r].cache
      /\ \A q \in Runs \ {r} : seen'[q] = seen[q]
  BY <1>1, PacmanFacts DEF Install
<1>6. SystemTypeOK'
  BY <1>1, <1>2, <1>4, <1>5, SnapshotType DEF TypeOK, SystemTypeOK, artifacts
<1>7. RecordFits'
  <2>1. SnapshotsGrow
    BY <1>4 DEF SnapshotsGrow, Snapshot
  <2>2. \A q \in Runs : seen[q].pacman = "done" =>
          seen'[q] = seen[q] /\ backups'[q] = backups[q]
    BY <1>3, <1>4, <1>5 DEF artifacts
  <2>3. QED
    BY <1>1, <1>4, <2>1, <2>2, RecordKeeps DEF artifacts
<1>8. Upgraded(r)'
  <2>1. Threshold > 0 => installed < syncDb
    BY <1>1, <1>3, SettingsAssumption, VersionAssumption DEF Versions
  <2>2. QED
    BY <1>3, <1>4, <1>5, <2>1 DEF Upgraded, Noted, BackedUp, artifacts
<1>9. Threshold > 0 /\ Tooling =>
        snapshots' # <<>> /\ snapshots'[Len(snapshots')] = seen'[r].installed
  <2>1. SUFFICES ASSUME Threshold > 0, Tooling
                 PROVE  snapshots' # <<>> /\ snapshots'[Len(snapshots')] = seen'[r].installed
    OBVIOUS
  <2>2. syncDb # installed
    BY <1>1, <1>3, <2>1, SettingsAssumption, VersionAssumption DEF Versions
  <2>3. snapshots' = Append(snapshots, installed)
    BY <1>4, <2>1, <2>2 DEF Snapshot
  <2>4. QED
    BY <1>1, <1>3, <1>5, <2>3 DEF TypeOK
<1>10. Progress(r)'
  BY <1>2, <1>8, <1>9 DEF Progress, At
<1>11. CacheKept(r)'
  BY <1>3, <1>4, <1>5 DEF CacheKept
<1>12. QED
  BY <1>2, <1>6, <1>7, <1>10, <1>11 DEF Safe, Good

\* pacman fails, before or after the refresh, and installs nothing.
LEMMA PacmanFailsKeeps ==
  ASSUME NEW r \in Runs, IInv, PacmanFails(r)
  PROVE  Safe(r)'
<1>1. TypeOK /\ RecordFits /\ Good(r)
  BY DEF IInv, TypeOK, Good
<1>2. PICK s \in {"pacman", "install"} : Raise(r, s)
  BY DEF PacmanFails
<1>3. /\ stage[r] = "execute" /\ step[r] = s /\ stage'[r] = "rollback"
      /\ UNCHANGED <<cooling, step, self>> /\ Progress(r)'
  BY <1>1, <1>2, RaiseFacts
<1>4. /\ BackedUp(r) /\ installed = seen[r].installed /\ seen[r].pacman = "not_run"
      /\ seen[r].cache \subseteq cache
  BY <1>1, <1>3 DEF Good, Progress, Noted, Same, CacheKept, Active, Over, At
<1>5. /\ cache' \in {cache, cache \cup {syncDb}} /\ snapshots' \in {snapshots, Snapshot}
      /\ UNCHANGED <<repo, syncDb, installed, artifacts>>
  BY DEF PacmanFails
<1>6. /\ seen' \in [Runs -> Sights]
      /\ seen'[r].pacman = "failed" /\ seen'[r].syncDb = seen[r].syncDb
      /\ seen'[r].installed = seen[r].installed /\ seen'[r].cache = seen[r].cache
      /\ \A q \in Runs \ {r} : seen'[q] = seen[q]
  BY <1>1, PacmanFacts DEF PacmanFails
<1>7. SystemTypeOK'
  BY <1>1, <1>3, <1>5, <1>6, SnapshotType DEF TypeOK, SystemTypeOK, artifacts
<1>8. RecordFits'
  <2>1. SnapshotsGrow
    BY <1>5 DEF SnapshotsGrow, Snapshot
  <2>2. \A q \in Runs : seen[q].pacman = "done" =>
          seen'[q] = seen[q] /\ backups'[q] = backups[q]
    BY <1>4, <1>5, <1>6 DEF artifacts
  <2>3. QED
    BY <1>1, <1>5, <2>1, <2>2, RecordKeeps DEF artifacts
<1>9. BackedUp(r)' /\ (installed = seen[r].installed)' /\ CacheKept(r)'
  BY <1>3, <1>4, <1>5, <1>6 DEF BackedUp, CacheKept, artifacts
<1>10. Aftermath(r)'
  BY <1>3, <1>9 DEF Aftermath, Finished
<1>11. QED
  BY <1>3, <1>7, <1>8, <1>9, <1>10 DEF Safe, Good

\* An error after the upgrade comes to the rollback with the database saved and
\* the packages it had still cached.
LEMMA UpgradedRaiseKeeps ==
  ASSUME NEW r \in Runs, IInv, NEW s, RaiseUnchanged(r, s),
         Upgraded(r), seen[r].cache \subseteq cache
  PROVE  Safe(r)'
<1>1. TypeOK /\ RecordFits
  BY DEF IInv, TypeOK
<1>2. UNCHANGED <<system, artifacts, seen>>
  BY DEF RaiseUnchanged
<1>3. RecordFits'
  BY <1>1, <1>2, QuietRecord DEF Quiet, artifacts
<1>4. stage'[r] = "rollback" /\ UNCHANGED <<cooling, step, self>> /\ Progress(r)'
  BY <1>1, RaiseFacts DEF RaiseUnchanged
<1>5. SystemTypeOK'
  BY <1>1, <1>2, <1>4 DEF TypeOK, SystemTypeOK, system, artifacts
<1>6. (seen[r].pacman = "done" /\ BackedUp(r))' /\ CacheKept(r)'
  BY <1>2, <1>4 DEF Upgraded, Noted, BackedUp, CacheKept, system, artifacts
<1>7. Aftermath(r)'
  BY <1>4, <1>6 DEF Aftermath, Finished
<1>8. QED
  BY <1>3, <1>4, <1>5, <1>6, <1>7 DEF Safe, Good

\* The snapshot pacman has just taken, or none.
LEMMA SnapshotIdKeeps ==
  ASSUME NEW r \in Runs, IInv, SnapshotId(r)
  PROVE  Safe(r)'
<1>1. CASE RaiseUnchanged(r, "snapshot")
  <2>1. TypeOK /\ Good(r)
    BY DEF IInv, TypeOK, Good
  <2>2. stage[r] = "execute" /\ step[r] = "snapshot"
    BY <1>1, <2>1, RaiseFacts DEF RaiseUnchanged
  <2>3. Upgraded(r) /\ seen[r].cache \subseteq cache
    BY <2>1, <2>2 DEF Good, Progress, CacheKept, Active, Over, At
  <2>4. QED
    BY <1>1, <2>3, UpgradedRaiseKeeps
<1> SUFFICES ASSUME ~RaiseUnchanged(r, "snapshot") PROVE Safe(r)'
  BY <1>1
<1>2. TypeOK /\ RecordFits /\ Good(r) /\ self[r] \in Selves /\ snapshots \in Seq(Versions)
  BY DEF IInv, TypeOK, Good
<1>3. /\ stage[r] = "execute" /\ step[r] = "snapshot"
      /\ stage'[r] = "execute" /\ step'[r] = "aur"
      /\ step' \in [Runs -> Steps] /\ cooling' = cooling /\ Aftermath(r)'
  BY <1>2, GotoFacts DEF SnapshotId, Steps
<1>4. /\ Upgraded(r) /\ seen[r].cache \subseteq cache
      /\ (Threshold > 0 /\ Tooling =>
            snapshots # <<>> /\ snapshots[Len(snapshots)] = seen[r].installed)
  BY <1>2, <1>3 DEF Good, Progress, CacheKept, Active, Over, At
<1>5. PICK id : /\ Set(r, "snapshot", id)
                /\ id = None \/ (Tooling /\ snapshots # <<>> /\ id = Len(snapshots))
  <2>1. PICK id \in {None} \cup (IF Tooling /\ snapshots # <<>> THEN {Len(snapshots)} ELSE {}) :
          Set(r, "snapshot", id)
    BY DEF SnapshotId
  <2>2. id = None \/ (Tooling /\ snapshots # <<>> /\ id = Len(snapshots))
    BY <2>1
  <2>3. QED
    BY <2>1, <2>2
<1>6. UNCHANGED <<system, artifacts, seen>>
  BY DEF SnapshotId
<1>7. [self[r] EXCEPT !["snapshot"] = id] \in Selves
  BY <1>2, <1>5 DEF Selves
<1>8. /\ self' \in [Runs -> Selves] /\ self'[r].snapshot = id
      /\ self'[r].before = self[r].before /\ self'[r].backup = self[r].backup
  BY <1>2, <1>5, <1>7, SetFacts DEF Selves
<1>9. SystemTypeOK'
  BY <1>2, <1>3, <1>6, <1>8 DEF TypeOK, SystemTypeOK, system, artifacts
<1>10. RecordFits'
  BY <1>2, <1>6, QuietRecord DEF Quiet, artifacts
<1>11. Upgraded(r)' /\ CacheKept(r)'
  BY <1>4, <1>6, <1>8 DEF Upgraded, Noted, BackedUp, CacheKept, system, artifacts
<1>12. Threshold > 0 => HoldsBefore(id, seen[r].installed)
  BY <1>2, <1>4, <1>5 DEF HoldsBefore
<1>13. Progress(r)'
  <2>1. (Threshold > 0 => HoldsBefore(self[r].snapshot, seen[r].installed))'
    BY <1>6, <1>8, <1>12 DEF HoldsBefore, system
  <2>2. QED
    BY <1>3, <1>11, <2>1 DEF Progress, At
<1>14. QED
  BY <1>3, <1>9, <1>10, <1>11, <1>13 DEF Safe, Good

\* paru's own snapshots do not disturb the one that was noted.
LEMMA AurKeeps ==
  ASSUME NEW r \in Runs, IInv, Aur(r)
  PROVE  Safe(r)'
<1>1. CASE RaiseUnchanged(r, "aur")
  <2>1. TypeOK /\ Good(r)
    BY DEF IInv, TypeOK, Good
  <2>2. stage[r] = "execute" /\ step[r] = "aur"
    BY <1>1, <2>1, RaiseFacts DEF RaiseUnchanged
  <2>3. Upgraded(r) /\ seen[r].cache \subseteq cache
    BY <2>1, <2>2 DEF Good, Progress, CacheKept, Active, Over, At
  <2>4. QED
    BY <1>1, <2>3, UpgradedRaiseKeeps
<1> SUFFICES ASSUME ~RaiseUnchanged(r, "aur") PROVE Safe(r)'
  BY <1>1
<1>2. TypeOK /\ RecordFits /\ Good(r) /\ self[r] \in Selves
  BY DEF IInv, TypeOK, Good
<1>3. /\ stage[r] = "execute" /\ step[r] = "aur"
      /\ stage'[r] = "execute" /\ step'[r] = "manifest_after"
      /\ step' \in [Runs -> Steps] /\ cooling' = cooling /\ Aftermath(r)'
  BY <1>2, GotoFacts DEF Aur, Steps
<1>4. /\ Upgraded(r) /\ seen[r].cache \subseteq cache
      /\ (Threshold > 0 => HoldsBefore(self[r].snapshot, seen[r].installed))
  BY <1>2, <1>3 DEF Good, Progress, CacheKept, Active, Over, At
<1>5. PICK failed \in BOOLEAN : Set(r, "aurFailed", failed)
  BY DEF Aur
<1>6. UNCHANGED <<repo, syncDb, installed, cache, artifacts, seen>> /\ SnapshotsGrow
  BY DEF Aur, SnapshotsGrow
<1>7. [self[r] EXCEPT !["aurFailed"] = failed] \in Selves
  BY <1>2 DEF Selves
<1>8. /\ self' \in [Runs -> Selves] /\ self'[r].snapshot = self[r].snapshot
      /\ self'[r].before = self[r].before /\ self'[r].backup = self[r].backup
  BY <1>2, <1>5, <1>7, SetFacts DEF Selves
<1>9. SystemTypeOK'
  BY <1>2, <1>3, <1>6, <1>8, SnapshotType DEF TypeOK, SystemTypeOK, SnapshotsGrow, artifacts
<1>10. RecordFits'
  BY <1>2, <1>6, RecordKeeps DEF artifacts
<1>11. Upgraded(r)' /\ CacheKept(r)'
  BY <1>4, <1>6, <1>8 DEF Upgraded, Noted, BackedUp, CacheKept, artifacts
<1>12. (Threshold > 0 => HoldsBefore(self[r].snapshot, seen[r].installed))'
  BY <1>2, <1>4, <1>6, <1>8, SnapshotsStay DEF HoldsBefore
<1>13. Progress(r)'
  BY <1>3, <1>11, <1>12 DEF Progress, At
<1>14. QED
  BY <1>3, <1>9, <1>10, <1>11, <1>13 DEF Safe, Good

\* The second manifest is of what is installed.
LEMMA ManifestAfterKeeps ==
  ASSUME NEW r \in Runs, IInv, ManifestAfter(r)
  PROVE  Safe(r)'
<1>1. TypeOK /\ RecordFits /\ Good(r) /\ self[r] \in Selves /\ installed \in Versions
  BY DEF IInv, TypeOK, Good
<1>2. stage[r] = "execute" /\ step[r] = "manifest_after"
  BY DEF ManifestAfter, RaiseUnchanged, Raise, Goto, At
<1>3. /\ Upgraded(r) /\ seen[r].cache \subseteq cache
      /\ (Threshold > 0 => HoldsBefore(self[r].snapshot, seen[r].installed))
  BY <1>1, <1>2 DEF Good, Progress, CacheKept, Active, Over, At
<1>4. UNCHANGED <<system, artifacts, seen>>
  BY DEF ManifestAfter, RaiseUnchanged
<1>5. RecordFits'
  BY <1>1, <1>4, QuietRecord DEF Quiet, artifacts
<1>6. CASE Goto(r, "manifest_after", "record") /\ Set(r, "after", installed)
  <2>1. [self[r] EXCEPT !["after"] = installed] \in Selves
    BY <1>1 DEF Selves
  <2>2. /\ self' \in [Runs -> Selves] /\ self'[r].after = installed
        /\ self'[r].snapshot = self[r].snapshot
        /\ self'[r].before = self[r].before /\ self'[r].backup = self[r].backup
    BY <1>1, <1>6, <2>1, SetFacts DEF Selves
  <2>3. /\ stage'[r] = "execute" /\ step'[r] = "record"
        /\ step' \in [Runs -> Steps] /\ cooling' = cooling /\ Aftermath(r)'
    BY <1>1, <1>6, GotoFacts DEF Steps
  <2>4. SystemTypeOK'
    BY <1>1, <1>4, <2>2, <2>3 DEF TypeOK, SystemTypeOK, system, artifacts
  <2>5. Upgraded(r)' /\ CacheKept(r)' /\ (self[r].after = installed)'
    BY <1>3, <1>4, <2>2 DEF Upgraded, Noted, BackedUp, CacheKept, system, artifacts
  <2>6. (Threshold > 0 => HoldsBefore(self[r].snapshot, seen[r].installed))'
    BY <1>3, <1>4, <2>2 DEF HoldsBefore, system
  <2>7. Progress(r)'
    BY <2>3, <2>5, <2>6 DEF Progress, At
  <2>8. QED
    BY <1>5, <2>3, <2>4, <2>5, <2>7 DEF Safe, Good
<1>7. CASE RaiseUnchanged(r, "manifest_after")
  BY <1>3, <1>7, UpgradedRaiseKeeps
<1>8. QED
  BY <1>6, <1>7 DEF ManifestAfter

\* The record is written of what the task object remembers, or torn.
LEMMA WriteRecordKeeps ==
  ASSUME NEW r \in Runs, IInv, WriteRecord(r)
  PROVE  Safe(r)'
<1>1. TypeOK /\ RecordFits /\ Good(r) /\ self[r] \in Selves
      /\ installed \in Versions /\ seen[r] \in Sights
  BY DEF IInv, TypeOK, Good
<1>2. stage[r] = "execute" /\ step[r] = "record"
  BY DEF WriteRecord, Raise, Goto, At
<1>3. /\ Upgraded(r) /\ seen[r].cache \subseteq cache /\ self[r].after = installed
      /\ (Threshold > 0 => HoldsBefore(self[r].snapshot, seen[r].installed))
  BY <1>1, <1>2 DEF Good, Progress, CacheKept, Active, Over, At
<1>4. UNCHANGED <<system, backups, script, seen>>
  BY DEF WriteRecord
<1>5. CASE /\ Goto(r, "record", "result") /\ UNCHANGED self
           /\ record' = [run |-> r, backup |-> self[r].backup, before |-> self[r].before,
                         after |-> self[r].after, snapshot |-> self[r].snapshot]
  <2>1. /\ stage'[r] = "execute" /\ step'[r] = "result"
        /\ step' \in [Runs -> Steps] /\ cooling' = cooling /\ Aftermath(r)'
    BY <1>1, <1>5, GotoFacts DEF Steps
  <2>2. /\ self[r].backup = r /\ self[r].before \in Versions /\ self[r].after \in Versions
        /\ self[r].before = seen[r].installed /\ self[r].snapshot \in Nat \cup {None}
    BY <1>1, <1>3 DEF Upgraded, Noted, BackedUp, Selves, Sights
  <2>3. record' \in Records
    BY <1>5, <2>2 DEF Records
  <2>4. RecordFits'
    <3>1. /\ record'.run = r /\ record'.backup = r /\ record'.before = seen[r].installed
          /\ record'.after = installed /\ record'.snapshot = self[r].snapshot
      BY <1>3, <1>5, <2>2
    <3>2. QED
      BY <1>3, <1>4, <2>3, <3>1
         DEF RecordFits, Upgraded, Noted, BackedUp, HoldsBefore, system
  <2>5. SystemTypeOK'
    BY <1>1, <1>4, <1>5, <2>1, <2>3 DEF TypeOK, SystemTypeOK, system
  <2>6. Upgraded(r)' /\ CacheKept(r)'
    BY <1>3, <1>4, <1>5 DEF Upgraded, Noted, BackedUp, CacheKept, system
  <2>7. Progress(r)'
    BY <2>1, <2>6 DEF Progress, At
  <2>8. QED
    BY <2>1, <2>4, <2>5, <2>6, <2>7 DEF Safe, Good
<1>6. CASE Raise(r, "record") /\ record' \in {record, Garbage}
  <2>1. stage'[r] = "rollback" /\ UNCHANGED <<cooling, step, self>> /\ Progress(r)'
    BY <1>1, <1>6, RaiseFacts
  <2>2. SystemTypeOK'
    BY <1>1, <1>4, <1>6, <2>1 DEF TypeOK, SystemTypeOK, system
  <2>3. (seen[r].pacman = "done" /\ BackedUp(r))' /\ CacheKept(r)'
    BY <1>3, <1>4, <2>1 DEF Upgraded, Noted, BackedUp, CacheKept, system
  <2>4. Aftermath(r)'
    BY <2>1, <2>3 DEF Aftermath, Finished
  <2>5. RecordFits'
    BY <1>1, <1>4, <1>6, QuietRecord DEF Quiet
  <2>6. QED
    BY <2>1, <2>2, <2>3, <2>4, <2>5 DEF Safe, Good
<1>7. QED
  BY <1>5, <1>6 DEF WriteRecord

\* What execute() returns at its end is no failure.
LEMMA ReturnKeeps ==
  ASSUME NEW r \in Runs, IInv, Return(r)
  PROVE  Safe(r)'
<1>1. TypeOK /\ RunTypeOK /\ RecordFits /\ Good(r)
  BY DEF IInv, TypeOK, Good
<1>2. PICK status \in {"partial", "success"} : ExecuteReturns(r, Ended(status))
  BY DEF Return
<1>3. stage[r] = "execute" /\ stage'[r] = "post_execute" /\ result'[r] = Ended(status)
  BY <1>1, <1>2 DEF ExecuteReturns, HookReturns, Ends, RunTypeOK
<1>4. Elsewhere /\ UNCHANGED self /\ Quiet(r)
  BY DEF Return, Elsewhere, Quiet, artifacts
<1>5. SystemTypeOK'
  BY <1>1, <1>4 DEF TypeOK, SystemTypeOK, Elsewhere, system, artifacts
<1>6. CacheKept(r)'
  BY <1>1, <1>3, <1>4 DEF Good, CacheKept, Active, Over, Elsewhere, system
<1>7. Progress(r)' /\ Aftermath(r)'
  BY <1>3 DEF Progress, Aftermath, Finished, Ended, At
<1>8. QED
  BY <1>1, <1>4, <1>5, <1>6, <1>7, QuietRecord DEF Safe, Good

\* Only a success is followed by paccache.
LEMMA PostExecuteKeeps ==
  ASSUME NEW r \in Runs, IInv, PostExecute(r)
  PROVE  Safe(r)'
<1>1. TypeOK /\ RunTypeOK /\ RecordFits /\ Good(r) /\ HooksFit(r)
  BY DEF IInv, TypeOK, Good, TemplateInv
<1>2. stage[r] = "post_execute" /\ stage'[r] = "finally" /\ UNCHANGED result
  BY <1>1 DEF PostExecute, PostExecuteReturns, HookPasses, Ends, RunTypeOK
<1>3. UNCHANGED <<repo, syncDb, installed, snapshots, artifacts, cooling, step, self, seen>>
  BY DEF PostExecute
<1>4. cache' \in {Newest, cache} /\ (result[r].status # "success" => cache' = cache)
  BY DEF PostExecute
<1>5. SystemTypeOK'
  BY <1>1, <1>3, <1>4 DEF TypeOK, SystemTypeOK, Newest, artifacts
<1>6. RecordFits'
  BY <1>1, <1>3, RecordKeeps DEF SnapshotsGrow, artifacts
<1>7. CacheKept(r)'
  <2>1. result[r] # None
    BY <1>1, <1>2, NoneIsNoOutcome DEF HooksFit, Executed, Outcomes
  <2>2. QED
    BY <1>1, <1>2, <1>3, <1>4, <2>1 DEF Good, CacheKept, Active, Over
<1>8. Progress(r)'
  BY <1>2 DEF Progress, At
<1>9. Aftermath(r)'
  BY <1>1, <1>2, <1>3 DEF Good, Aftermath, Finished, Same
<1>10. QED
  BY <1>5, <1>6, <1>7, <1>8, <1>9 DEF Safe, Good

\* The backup of a run that noted one is restored.
LEMMA RollbackKeeps ==
  ASSUME NEW r \in Runs, IInv, Rollback(r)
  PROVE  Safe(r)'
<1>1. TypeOK /\ RunTypeOK /\ RecordFits /\ Good(r) /\ seen[r] \in Sights
  BY DEF IInv, TypeOK, Good
<1>2. /\ stage[r] = "rollback" /\ stage'[r] = "finally" /\ result'[r] = Ended("failure")
      /\ hooks'[r]["rollback"] \in {"returned", "raised"}
  <2>1. "rollback" \in Hooks
    BY DEF Hooks
  <2>2. QED
    BY <1>1, <2>1 DEF Rollback, RollbackEnds, Ends, RunTypeOK
<1>3. UNCHANGED <<repo, installed, cache, snapshots, artifacts, cooling, step, self, seen>>
  BY DEF Rollback
<1>4. syncDb' = IF self[r].backup # None /\ hooks'[r]["rollback"] = "returned"
                  THEN backups[self[r].backup] ELSE syncDb
  BY DEF Rollback
<1>5. \/ seen[r].pacman = "done" /\ BackedUp(r)
      \/ self[r].backup = None /\ Same(r)
      \/ BackedUp(r) /\ installed = seen[r].installed
  BY <1>1, <1>2 DEF Good, Aftermath
<1>6. syncDb' \in Versions
  BY <1>1, <1>4, <1>5 DEF TypeOK, BackedUp, Sights
<1>7. SystemTypeOK'
  BY <1>1, <1>3, <1>6 DEF TypeOK, SystemTypeOK, artifacts
<1>8. RecordFits'
  BY <1>1, <1>3, RecordKeeps DEF SnapshotsGrow, artifacts
<1>9. seen[r].pacman # "done" /\ hooks'[r]["rollback"] # "raised" => Same(r)'
  BY <1>2, <1>3, <1>4, <1>5, NamesAssumption DEF BackedUp, Same
<1>10. Progress(r)'
  BY <1>2 DEF Progress, At
<1>11. Aftermath(r)'
  BY <1>2, <1>3, <1>9 DEF Aftermath, Finished
<1>12. CacheKept(r)'
  BY <1>1, <1>2, <1>3 DEF Good, CacheKept, Active, Over
<1>13. QED
  BY <1>7, <1>8, <1>10, <1>11, <1>12 DEF Safe, Good

\* Ctrl-C loses the result and, at worst, the record.
LEMMA InterruptKeeps ==
  ASSUME NEW r \in Runs, IInv, Interrupt(r)
  PROVE  Safe(r)'
<1>1. TypeOK /\ RunTypeOK /\ RecordFits /\ Good(r)
  BY DEF IInv, TypeOK, Good
<1>2. stage[r] \in Hooks /\ stage'[r] = "finally" /\ result'[r] = None
  BY <1>1 DEF Interrupt, HookInterrupted, Ends, RunTypeOK
<1>3. Quiet(r) /\ UNCHANGED <<cooling, step, self>>
  BY DEF Interrupt, Quiet
<1>4. SystemTypeOK'
  BY <1>1, <1>3 DEF TypeOK, SystemTypeOK, Quiet, system
<1>5. None # Ended("failure")
  BY NoneIsNoOutcome DEF Outcomes, Statuses
<1>6. Progress(r)' /\ Aftermath(r)'
  BY <1>2, <1>5 DEF Progress, Aftermath, Finished, At
<1>7. CacheKept(r)'
  BY <1>1, <1>2, <1>3 DEF Good, CacheKept, Active, Over, Hooks, Quiet, system
<1>8. QED
  BY <1>1, <1>3, <1>4, <1>6, <1>7, QuietRecord DEF Safe, Good

\* After its finally clause a run is of no concern any more.
LEMMA EndKeeps ==
  ASSUME NEW r \in Runs, IInv, End(r)
  PROVE  Safe(r)'
<1>1. TypeOK /\ RunTypeOK /\ RecordFits
  BY DEF IInv, TypeOK
<1>2. stage'[r] \in {"returned", "escaped"}
  BY <1>1 DEF End, Finally, RunTypeOK
<1>3. UNCHANGED <<system, artifacts, step, self, seen>> /\ Quiet(r)
  BY DEF End, Quiet, artifacts
<1>4. cooling' \in BOOLEAN
  BY DEF End
<1>5. SystemTypeOK'
  BY <1>1, <1>3, <1>4 DEF TypeOK, SystemTypeOK, system, artifacts
<1>6. Good(r)'
  BY <1>2 DEF Good, Progress, Aftermath, CacheKept, Finished, Active, Over, At
<1>7. QED
  BY <1>1, <1>3, <1>5, <1>6, QuietRecord DEF Safe

----------------------------------------------------------------------------
(* The invariant.                                                          *)

\* A step of a run, by what the lemmas above say of each.
LEMMA StepKeeps ==
  ASSUME NEW r \in Runs, IInv, Step(r)
  PROVE  IInv'
<1>1. Safe(r)'
  BY BeginKeeps, GatesKeep, ManifestKeeps, BackUpDbKeeps, RefreshKeeps, InstallKeeps,
     PacmanFailsKeeps, SnapshotIdKeeps, AurKeeps, ManifestAfterKeeps, WriteRecordKeeps,
     ReturnKeeps, PostExecuteKeeps, RollbackKeeps, InterruptKeeps, EndKeeps
     DEF Step, Execute
<1>2. RunTypeOK' /\ TemplateInv'
  <2>1. CASE TemplateStep(r) /\ OwnDisplay(r)
    BY <2>1, TemplateKeeps DEF IInv, TypeOK
  <2>2. CASE UNCHANGED runVars
    BY <2>2, DisplayKeeps DEF IInv, TypeOK, RunTypeOK, runVars
  <2>3. QED
    BY <2>1, <2>2, StepOfTemplate DEF IInv
<1>3. TypeOK'
  BY <1>1, <1>2 DEF Safe, SystemTypeOK, TypeOK
<1>4. OneRun'
  BY OthersKeep DEF OneRun
<1>5. ASSUME NEW q \in Runs PROVE Progress(q)' /\ Aftermath(q)' /\ CacheKept(q)'
  BY <1>1, OthersKeep DEF Safe, Good
<1>6. QED
  BY <1>1, <1>2, <1>3, <1>4, <1>5 DEF Safe, IInv

\* A step of the surroundings: the mirrors only move on.
LEMMA OutsideKeeps ==
  ASSUME IInv, UNCHANGED <<runVars, syncDb, installed, cache, snapshots, backups, record,
                           step, self, seen>>,
         repo' \in Versions, repo' >= repo, script' \in Runs \cup {None}, cooling' \in BOOLEAN
  PROVE  IInv'
<1>1. RunTypeOK' /\ TemplateInv'
  BY DisplayKeeps DEF IInv, TypeOK, RunTypeOK, runVars
<1>2. TypeOK'
  BY <1>1 DEF IInv, TypeOK
<1>3. OneRun' /\ RecordFits'
  BY DEF IInv, OneRun, RecordFits, HoldsBefore, Active, Over, runVars
<1>4. ASSUME NEW r \in Runs PROVE Progress(r)'
  <2>1. Progress(r)
    BY DEF IInv
  <2>2. EnoughPending => EnoughPending'
    BY SettingsAssumption, VersionAssumption DEF IInv, TypeOK, EnoughPending, Versions
  <2>3. /\ Fresh(r)' = Fresh(r) /\ Same(r)' = Same(r) /\ Noted(r)' = Noted(r)
        /\ Upgraded(r)' = Upgraded(r)
        /\ \A s \in Steps : At(r, s)' = At(r, s)
    BY DEF Fresh, Same, Noted, BackedUp, Upgraded, At, runVars
  <2>4. HoldsBefore(self[r].snapshot, seen[r].installed)'
          = HoldsBefore(self[r].snapshot, seen[r].installed)
    BY DEF HoldsBefore
  <2>5. QED
    BY <2>1, <2>2, <2>3, <2>4 DEF Progress, At, runVars
<1>5. ASSUME NEW r \in Runs PROVE Aftermath(r)' /\ CacheKept(r)'
  BY DEF IInv, Aftermath, CacheKept, Finished, Same, BackedUp, Active, Over, runVars
<1>6. QED
  BY <1>1, <1>2, <1>3, <1>4, <1>5 DEF IInv

\* Initially no run has begun and there is no record.
LEMMA IInvInitially == Init => IInv
<1> SUFFICES ASSUME Init PROVE IInv
  OBVIOUS
<1>1. RunTypeOK /\ TemplateInv
  BY TemplateInitially DEF Init
<1>2. NewTask \in Selves /\ Sight \in Sights /\ Sight.pacman = "not_run" /\ NewTask.backup = None
  BY VersionAssumption DEF Init, NewTask, Selves, Sight, Sights, Versions
<1>3. TypeOK
  <2>1. 0 \in Versions /\ <<>> \in Seq(Versions) /\ "manifest" \in Steps
    BY VersionAssumption DEF Versions, Steps
  <2>2. self \in [Runs -> Selves] /\ seen \in [Runs -> Sights] /\ step \in [Runs -> Steps]
    BY <1>2, <2>1 DEF Init
  <2>3. QED
    BY <1>1, <2>1, <2>2 DEF Init, TypeOK
<1>4. OneRun /\ RecordFits
  BY DEF Init, RunInit, OneRun, Active, RecordFits
<1>5. ASSUME NEW r \in Runs PROVE Progress(r) /\ Aftermath(r) /\ CacheKept(r)
  BY <1>2 DEF Init, RunInit, Progress, Aftermath, CacheKept, Finished, Fresh, Active, At
<1>6. QED
  BY <1>1, <1>3, <1>4, <1>5 DEF IInv

\* The invariant is inductive.
LEMMA IInvStep == IInv /\ [Next]_vars => IInv'
<1> SUFFICES ASSUME IInv, [Next]_vars PROVE IInv'
  OBVIOUS
<1>1. TypeOK /\ RecordFits
  BY DEF IInv
<1>2. CASE Recover
  <2>1. record.backup \in Runs
    BY <1>1, <1>2 DEF Recover, TypeOK, Records
  <2>2. QED
    BY <1>1, <1>2, <2>1, OutsideKeeps DEF Recover, TypeOK, Versions, system
<1>3. CASE Release
  BY <1>1, <1>3, OutsideKeeps, VersionAssumption DEF Release, TypeOK, Versions, artifacts
<1>4. CASE CooldownOver \/ UNCHANGED vars
  <2>1. /\ UNCHANGED <<runVars, repo, syncDb, installed, cache, snapshots, backups, record,
                       script, step, self, seen>>
        /\ cooling' \in {cooling, FALSE}
    BY <1>4 DEF CooldownOver, vars, system, artifacts
  <2>2. repo' \in Versions /\ repo' >= repo
    BY <1>1, <2>1 DEF TypeOK, Versions
  <2>3. QED
    BY <1>1, <2>1, <2>2, OutsideKeeps DEF TypeOK
<1>5. QED
  BY <1>2, <1>3, <1>4, StepKeeps DEF Next, Step

\* The invariant holds in every run of the task.
LEMMA IInvAlways == Spec => []IInv
BY IInvInitially, IInvStep, PTL DEF Spec

----------------------------------------------------------------------------
(* The theorems.                                                           *)

\* The state of the task, of pacman's files and of the record always has its
\* type; so the restored backup is never a missing one.
THEOREM UpdateTypeCorrect == Spec => []TypeOK
<1>1. IInv => TypeOK
  BY DEF IInv
<1>2. QED
  BY <1>1, IInvAlways, PTL

\* Wherever a run failed before pacman was done, the rollback leaves database
\* and packages as the run found them: whatever the settings, however many
\* runs came before and whatever was released meanwhile.
THEOREM AbortsAreUndone == Spec => []AbortedTransactionUndone
<1>1. IInv => AbortedTransactionUndone
  BY DEF IInv, Aftermath, Same, AbortedTransactionUndone
<1>2. QED
  BY <1>1, IInvAlways, PTL

\* For every cache_keep_versions, 0 included, a run that did not succeed has
\* removed no cached version.
THEOREM CacheSurvives == Spec => []DowngradePathKept
<1>1. IInv => DowngradePathKept
  BY DEF IInv, CacheKept, Active, Over, DowngradePathKept
<1>2. QED
  BY <1>1, IInvAlways, PTL

\* Every readable recovery record belongs together.  With a threshold of 0,
\* which the settings allow, a run upgrades nothing and its record holds twice
\* the same manifest: the hypothesis is needed.
THEOREM RecordsHangTogether ==
  ASSUME Threshold > 0
  PROVE  Spec => []RecordHangsTogether
<1>1. IInv => RecordHangsTogether
  BY DEF IInv, RecordFits, HoldsBefore, RecordHangsTogether
<1>2. QED
  BY <1>1, IInvAlways, PTL
=============================================================================
