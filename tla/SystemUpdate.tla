---------------------------- MODULE SystemUpdate ----------------------------
(***************************************************************************)
(* The system-update task (src/archcare/tasks/system_update.py) and the    *)
(* recovery guidance built from what it leaves behind                      *)
(* (src/archcare/services/recovery_service.py).  The run gates itself,     *)
(* backs up pacman's sync database, upgrades, writes a recovery record,    *)
(* prunes the package cache; when anything raises, the database is put     *)
(* back.  The task is manual; its runs follow one another.                 *)
(*                                                                         *)
(* All packages of the repositories share one version number here.         *)
(* pacman, paru, snapper and paccache are external: pacman refreshes the   *)
(* database, then installs everything or nothing.                          *)
(***************************************************************************)
EXTENDS BaseTask, Sequences, FiniteSets

CONSTANTS
  Threshold,  \* settings.system_update.min_repo_updates_threshold
  Keep,       \* settings.system_update.cache_keep_versions
  Tooling,    \* are snap-pac and grub-btrfs installed
  Garbage,    \* a recovery record that does not parse
  MaxVersion  \* bound of the model

ASSUME SettingsAssumption == Threshold \in Nat /\ Keep \in Nat /\ Tooling \in BOOLEAN
ASSUME VersionAssumption == MaxVersion \in Nat
ASSUME NamesAssumption == Garbage # None /\ None \notin Runs

VARIABLES
  repo,       \* the version on the mirrors
  syncDb,     \* the version /var/lib/pacman/sync describes
  installed,  \* the version that is installed
  cache,      \* the versions in the package cache
  snapshots,  \* the version each snapper `pre` snapshot holds
  backups,    \* sync-db_<timestamp> of each run, None if absent
  record,     \* recovery/system-update.json
  script,     \* the backup named in downgrade.sh, None if absent
  cooling,    \* last_news_prompt on record is within the cooldown
  step,       \* where execute() is
  self,       \* the attributes of the task object
  seen        \* history: the system the run found, and how pacman ended

system == <<repo, syncDb, installed, cache, snapshots>>
artifacts == <<backups, record, script>>
vars == <<runVars, system, artifacts, cooling, step, self, seen>>

Versions == 0..MaxVersion

Selves == [backup    : Runs \cup {None},    \* sync_db_backup
           before    : Versions \cup {None}, \* manifest_before
           after     : Versions \cup {None}, \* manifest_after
           snapshot  : Nat \cup {None},     \* pre_update_snapshot_id
           aurFailed : BOOLEAN,
           asked     : BOOLEAN]             \* last_news_prompt was set

NewTask == [backup |-> None, before |-> None, after |-> None,
            snapshot |-> None, aurFailed |-> FALSE, asked |-> FALSE]

Records == [run : Runs, backup : Runs, before : Versions, after : Versions,
            snapshot : Nat \cup {None}]

ASSUME NamesAreNoRecords == None \notin Records /\ Garbage \notin Records

Steps == {"manifest", "backup", "pacman", "install", "snapshot", "aur",
          "manifest_after", "record", "result"}

Sights == [syncDb : Versions, installed : Versions, cache : SUBSET Versions,
           pacman : {"not_run", "failed", "done"}]

Sight == [syncDb |-> syncDb, installed |-> installed, cache |-> cache,
          pacman |-> "not_run"]

TypeOK ==
  /\ RunTypeOK
  /\ {repo, syncDb, installed} \subseteq Versions
  /\ cache \subseteq Versions
  /\ snapshots \in Seq(Versions)
  /\ backups \in [Runs -> Versions \cup {None}]
  /\ record \in Records \cup {None, Garbage}
  /\ script \in Runs \cup {None}
  /\ cooling \in BOOLEAN
  /\ step \in [Runs -> Steps]
  /\ self \in [Runs -> Selves]
  /\ seen \in [Runs -> Sights]

Init ==
  /\ RunInit
  /\ repo = 0 /\ syncDb = 0 /\ installed = 0 /\ cache = {0}
  /\ snapshots = <<>>
  /\ backups = [r \in Runs |-> None]
  /\ record = None /\ script = None
  /\ cooling = FALSE
  /\ step = [r \in Runs |-> "manifest"]
  /\ self = [r \in Runs |-> NewTask]
  /\ seen = [r \in Runs |-> Sight]

----------------------------------------------------------------------------
(* Around execute().                                                       *)

Begin(r) ==
  /\ \A q \in Runs \ {r} : stage[q] = "start" \/ Over(q)
  /\ LoggingReady(r)
  /\ seen' = [seen EXCEPT ![r] = Sight]
  /\ UNCHANGED <<system, artifacts, cooling, step, self>>

Elsewhere == UNCHANGED <<display, system, artifacts, cooling, step, seen>>

\* pacman, paru, checkupdates and a terminal.
PreCheck(r) ==
  /\ PreCheckPasses(r) \/ PreCheckFails(r)
  /\ Elsewhere /\ UNCHANGED self

EnoughPending == repo - installed >= Threshold

\* The gates of should_run that ask nobody, in their order; OSError from
\* checkupdates and typer.Abort at the news prompt raise.
SkipGates(r) ==
  /\ \/ ShouldSkip(r, "mirrorlist_stale")
     \/ ~EnoughPending /\ ShouldSkip(r, "no_work_needed")
     \/ EnoughPending /\ ShouldSkip(r, "reboot_required")
     \/ HookRaises(r, "should_run")
  /\ Elsewhere /\ UNCHANGED self

\* _handle_unread_news_prompt: nothing unread or asked within the cooldown,
\* or a person answers; either answer is noted in the loaded AppState.
NewsGate(r) ==
  /\ EnoughPending
  /\ \/ ShouldRun(r) /\ UNCHANGED self
     \/ /\ ~cooling
        /\ ShouldRun(r) \/ ShouldSkip(r, "user_cancelled")
        /\ self' = [self EXCEPT ![r].asked = TRUE]
  /\ Elsewhere

\* Ctrl-C: what was being written may be torn; nothing is rolled back.
Interrupt(r) ==
  /\ \E h \in Hooks : HookInterrupted(r, h)
  /\ record' \in IF stage[r] = "execute" /\ step[r] = "record"
                   THEN {record, Garbage} ELSE {record}
  /\ UNCHANGED <<display, system, backups, script, cooling, step, self, seen>>

\* The executor saves the AppState after a run that returned.
End(r) ==
  /\ Finally(r)
  /\ cooling' = (cooling \/ (self[r].asked /\ result[r] # None))
  /\ UNCHANGED <<system, artifacts, step, self, seen>>

----------------------------------------------------------------------------
(* execute().                                                              *)

At(r, s) == stage[r] = "execute" /\ step[r] = s

Goto(r, from, to) ==
  /\ At(r, from)
  /\ step' = [step EXCEPT ![r] = to]
  /\ UNCHANGED <<runVars, cooling>>

Set(r, field, value) == self' = [self EXCEPT ![r][field] = value]

Raise(r, s) ==
  /\ At(r, s)
  /\ HookRaises(r, "execute")
  /\ UNCHANGED <<display, cooling, step, self>>

RaiseUnchanged(r, s) == Raise(r, s) /\ UNCHANGED <<system, artifacts, seen>>

\* snapshot_package_manifest.
Manifest(r) ==
  \/ /\ Goto(r, "manifest", "backup")
     /\ Set(r, "before", installed)
     /\ UNCHANGED <<system, artifacts, seen>>
  \/ RaiseUnchanged(r, "manifest")

\* Mutant of BackUpDb: self.sync_db_backup is not assigned.
BackUpUnnoted(r) ==
  /\ Goto(r, "backup", "pacman")
  /\ backups' = [backups EXCEPT ![r] = syncDb]
  /\ UNCHANGED <<system, record, script, self, seen>>

\* backup_sync_db; its failure is the one execute() returns.
BackUpDb(r) ==
  \/ /\ Goto(r, "backup", "pacman")
     /\ backups' = [backups EXCEPT ![r] = syncDb]
     /\ Set(r, "backup", r)
     /\ UNCHANGED <<system, record, script, seen>>
  \/ /\ At(r, "backup")
     /\ ExecuteReturns(r, Ended("failure"))
     /\ Elsewhere /\ UNCHANGED self

Pacman(r, end) == seen' = [seen EXCEPT ![r].pacman = end]

\* pacman -Syu: the databases first.
Refresh(r) ==
  /\ Goto(r, "pacman", "install")
  /\ syncDb' = repo
  /\ UNCHANGED <<repo, installed, cache, snapshots, artifacts, self, seen>>

\* A transaction that has something to do is preceded by a snapshot.
Snapshot == IF Tooling /\ syncDb # installed THEN Append(snapshots, installed)
            ELSE snapshots

\* Then the packages.
Install(r) ==
  /\ Goto(r, "install", "snapshot")
  /\ installed' = syncDb
  /\ cache' = cache \cup {syncDb}
  /\ snapshots' = Snapshot
  /\ Pacman(r, "done")
  /\ UNCHANGED <<repo, syncDb, artifacts, self>>

\* A bad exit status: locked, refused, a conflict after the download.
PacmanFails(r) ==
  /\ \/ Raise(r, "pacman") /\ UNCHANGED <<cache, snapshots>>
     \/ /\ Raise(r, "install")
        /\ cache' \in {cache, cache \cup {syncDb}}
        /\ snapshots' \in {snapshots, Snapshot}
  /\ Pacman(r, "failed")
  /\ UNCHANGED <<repo, syncDb, installed, artifacts>>

\* Mutant of SnapshotId: -1 when the query fails.
SnapshotOrMinusOne(r) ==
  /\ Goto(r, "snapshot", "aur")
  /\ \E id \in {-1, Len(snapshots)} : Set(r, "snapshot", id)
  /\ UNCHANGED <<system, artifacts, seen>>

\* get_latest_snapshot_id: the highest `pre` number, None when the query
\* fails; a command that cannot be run raises.
SnapshotId(r) ==
  \/ /\ Goto(r, "snapshot", "aur")
     /\ \E id \in {None} \cup (IF Tooling /\ snapshots # <<>> THEN {Len(snapshots)}
                               ELSE {}) : Set(r, "snapshot", id)
     /\ UNCHANGED <<system, artifacts, seen>>
  \/ RaiseUnchanged(r, "snapshot")

\* Mutant of Aur: the snapshot id is read after paru instead of before.
AurThenSnapshotId(r) ==
  /\ Goto(r, "aur", "manifest_after")
  /\ snapshots' = Append(snapshots, installed)
  /\ Set(r, "snapshot", Len(snapshots'))
  /\ UNCHANGED <<repo, syncDb, installed, cache, artifacts, seen>>

\* paru -Sua; what it installs is preceded by a snapshot as well.  A paru that
\* cannot be run raises.
Aur(r) ==
  \/ /\ Goto(r, "aur", "manifest_after")
     /\ \E failed \in BOOLEAN : Set(r, "aurFailed", failed)
     /\ snapshots' \in {snapshots} \cup (IF Tooling THEN {Append(snapshots, installed)}
                                         ELSE {})
     /\ UNCHANGED <<repo, syncDb, installed, cache, artifacts, seen>>
  \/ RaiseUnchanged(r, "aur")

\* The second manifest and its diff.
ManifestAfter(r) ==
  \/ /\ Goto(r, "manifest_after", "record")
     /\ Set(r, "after", installed)
     /\ UNCHANGED <<system, artifacts, seen>>
  \/ RaiseUnchanged(r, "manifest_after")

\* _write_recovery_record: opened for writing, then filled.
WriteRecord(r) ==
  \/ /\ Goto(r, "record", "result")
     /\ record' = [run |-> r, backup |-> self[r].backup, before |-> self[r].before,
                   after |-> self[r].after, snapshot |-> self[r].snapshot]
     /\ UNCHANGED <<system, backups, script, self, seen>>
  \/ /\ Raise(r, "record")
     /\ record' \in {record, Garbage}
     /\ UNCHANGED <<system, backups, script, seen>>

Return(r) ==
  /\ At(r, "result")
  /\ ExecuteReturns(r, Ended(IF self[r].aurFailed THEN "partial" ELSE "success"))
  /\ Elsewhere /\ UNCHANGED self

Execute(r) ==
  \/ Manifest(r) \/ BackUpDb(r) \/ Refresh(r) \/ Install(r) \/ PacmanFails(r)
  \/ SnapshotId(r) \/ Aur(r) \/ ManifestAfter(r) \/ WriteRecord(r) \/ Return(r)

----------------------------------------------------------------------------
(* post_execute(), rollback(), and `archcare task recover`.                *)

\* paccache -rk<Keep>: the newest versions stay, whichever was installed.
Newest == {v \in cache : Cardinality({w \in cache : w > v}) < Keep}

\* Mutant of PostExecute: the cache is pruned whatever the result.
PruneAlways(r) ==
  /\ PostExecuteReturns(r)
  /\ cache' = Newest
  /\ UNCHANGED <<display, repo, syncDb, installed, snapshots, artifacts,
                 cooling, step, self, seen>>

\* Best effort: a failed paccache or notification is only logged.
PostExecute(r) ==
  /\ PostExecuteReturns(r)
  /\ cache' \in IF result[r].status = "success" THEN {Newest, cache} ELSE {cache}
  /\ UNCHANGED <<display, repo, syncDb, installed, snapshots, artifacts,
                 cooling, step, self, seen>>

\* restore_sync_db swallows its failure; hooks tells the two apart.
Rollback(r) ==
  /\ RollbackEnds(r)
  /\ syncDb' = IF self[r].backup # None /\ hooks'[r]["rollback"] = "returned"
                 THEN backups[self[r].backup] ELSE syncDb
  /\ UNCHANGED <<display, repo, installed, cache, snapshots, artifacts,
                 cooling, step, self, seen>>

\* get_recovery_info, _write_restore_script: the script is written once.
Recover ==
  /\ record \notin {None, Garbage}
  /\ script' = IF script = None THEN record.backup ELSE script
  /\ UNCHANGED <<runVars, system, backups, record, cooling, step, self, seen>>

----------------------------------------------------------------------------
(* The surroundings.                                                       *)

Release ==
  /\ repo < MaxVersion
  /\ repo' = repo + 1
  /\ UNCHANGED <<runVars, syncDb, installed, cache, snapshots, artifacts,
                 cooling, step, self, seen>>

CooldownOver ==
  /\ cooling
  /\ cooling' = FALSE
  /\ UNCHANGED <<runVars, system, artifacts, step, self, seen>>

Next ==
  \/ \E r \in Runs :
       \/ Begin(r) \/ PreCheck(r) \/ SkipGates(r) \/ NewsGate(r) \/ Execute(r)
       \/ PostExecute(r) \/ Rollback(r) \/ Interrupt(r) \/ End(r)
  \/ Recover \/ Release \/ CooldownOver

Spec == Init /\ [][Next]_vars

----------------------------------------------------------------------------
(* Properties.                                                             *)

Finished(r, status) == stage[r] = "finally" /\ result[r] = Ended(status)

\* A run whose transaction failed, at whatever point, hands back the system
\* it found: database and packages still describe each other as they did,
\* unless the restoring cp failed.
AbortedTransactionUndone ==
  \A r \in Runs :
    Finished(r, "failure") /\ seen[r].pacman # "done"
      /\ hooks[r]["rollback"] # "raised"
      => syncDb = seen[r].syncDb /\ installed = seen[r].installed

\* A run that ends as anything but a success leaves every cached version
\* there that it found: the downgrade path of a half-finished upgrade.
DowngradePathKept ==
  \A r \in Runs :
    stage[r] = "finally" /\ result[r] # None /\ result[r].status # "success"
      => seen[r].cache \subseteq cache

\* Every readable recovery record is about one completed transaction, and
\* its artifacts belong together: the backup, the first manifest and the
\* snapshot all hold the system from before it, the second manifest what it
\* installed, whatever runs failed, were interrupted or skipped since.
RecordHangsTogether ==
  record \notin {None, Garbage} =>
    /\ seen[record.run].pacman = "done"
    /\ backups[record.backup] = seen[record.run].syncDb
    /\ record.before = seen[record.run].installed
    /\ record.before < record.after
    /\ record.snapshot # None => snapshots[record.snapshot] = record.before

----------------------------------------------------------------------------
(* What the documentation says and the code does not do.                   *)

\* system_update.py, rollback: it is invoked when execute() raises, "which
\* happens exactly when pacman -Syu exits non-zero".
RollbackMeansPacmanFailed ==
  \A r \in Runs : stage[r] = "rollback" /\ self[r].backup # None
                    => seen[r].pacman = "failed"

\* recovery_service.py, _build_commands: the printed script "restores the
\* pre-upgrade state" of the record it is printed with.
ScriptFitsRecord ==
  script # None /\ record \notin {None, Garbage} => script = record.backup
=============================================================================
