-------------------------- MODULE MirrorlistUpdate --------------------------
(***************************************************************************)
(* The mirrorlist-update task (src/archcare/tasks/mirrorlist_update.py,    *)
(* utils/mirrorlist.py): back the list up, let reflector overwrite it,     *)
(* validate what it wrote, restore the backup when anything raised, prune  *)
(* old backups when all went well.  Runs follow one another here; nothing  *)
(* in the code keeps a timer's and a person's from overlapping.            *)
(*                                                                         *)
(* cp and reflector are external: cp -p copies contents and mtime or       *)
(* fails, possibly leaving half a file; reflector opens the list for       *)
(* writing and then fills it or dies.                                      *)
(***************************************************************************)
EXTENDS BaseTask, FiniteSets

CONSTANTS
  Retention,  \* settings.mirrorlist.backup_retention_count
  MaxClock    \* bound of the model

ASSUME RetentionAssumption == Retention \in Nat \ {0}
ASSUME ClockAssumption == MaxClock \in Nat
ASSUME NoneIsNoRun == None \notin Runs

VARIABLES
  clock,       \* seconds
  mirrorlist,  \* the list pacman reads
  backups,     \* mirrorlist_<second>.backup for each second, None if absent
  step,        \* where execute() is
  backupPath,  \* self.backup_path, the second in the backup's name
  before,      \* history: the list when the run began
  botched      \* history: the run's restore or its pruning failed

files == <<mirrorlist, backups>>
local == <<step, backupPath, before, botched>>
vars == <<runVars, clock, files, local>>

\* A list is told by the reflector run that wrote it; ok says that it has a
\* "Server = " line.
Lists == [by : Runs \cup {None}, ok : BOOLEAN, mtime : 0..MaxClock]

ASSUME NoneIsNoList == None \notin Lists

Original == [by |-> None, ok |-> TRUE, mtime |-> 0]

\* What is left of a file whose writer died.
Half(r) == [by |-> r, ok |-> FALSE, mtime |-> clock]

Backups == {b \in 0..MaxClock : backups[b] # None}

Steps == {"sudo", "backup", "reflector", "saving", "validate"}

TypeOK ==
  /\ RunTypeOK
  /\ clock \in 0..MaxClock
  /\ mirrorlist \in Lists
  /\ backups \in [0..MaxClock -> Lists \cup {None}]
  /\ step \in [Runs -> Steps]
  /\ backupPath \in [Runs -> 0..MaxClock \cup {None}]
  /\ before \in [Runs -> Lists]
  /\ botched \in [Runs -> BOOLEAN]

Init ==
  /\ RunInit
  /\ clock = 0
  /\ mirrorlist = Original
  /\ backups = [b \in 0..MaxClock |-> None]
  /\ step = [r \in Runs |-> "sudo"]
  /\ backupPath = [r \in Runs |-> None]
  /\ before = [r \in Runs |-> Original]
  /\ botched = [r \in Runs |-> FALSE]

----------------------------------------------------------------------------
(* Around execute().                                                       *)

Alone(r) == \A q \in Runs \ {r} : stage[q] = "start" \/ Over(q)

Begin(r) ==
  /\ Alone(r)
  /\ LoggingReady(r)
  /\ before' = [before EXCEPT ![r] = mirrorlist]
  /\ UNCHANGED <<clock, files, step, backupPath, botched>>

\* reflector is installed and the list exists, or not; there is no
\* should_run of the task's own.
Gates(r) ==
  /\ PreCheckPasses(r) \/ PreCheckFails(r) \/ ShouldRun(r)
  /\ UNCHANGED <<display, clock, files, local>>

Interrupt(r) ==
  /\ \E h \in Hooks : HookInterrupted(r, h)
  /\ UNCHANGED <<display, clock, files, local>>

End(r) == Finally(r) /\ UNCHANGED <<clock, files, local>>

----------------------------------------------------------------------------
(* execute().                                                              *)

At(r, s) == stage[r] = "execute" /\ step[r] = s

Goto(r, from, to) ==
  /\ At(r, from)
  /\ step' = [step EXCEPT ![r] = to]
  /\ UNCHANGED <<runVars, clock, before, botched>>

Raise(r, s) ==
  /\ At(r, s)
  /\ HookRaises(r, "execute")
  /\ UNCHANGED <<display, clock, files, local>>

\* ensure_sudo_credentials and get_mirrorlist_info, before any file is
\* touched.
SudoGranted(r) == Goto(r, "sudo", "backup") /\ UNCHANGED <<files, backupPath>>

SudoDeclined(r) == Raise(r, "sudo")

\* Mutants of BackUp: self.backup_path is not set; it names another file.
BackUpForgotten(r) ==
  /\ Goto(r, "backup", "reflector")
  /\ backups' = [backups EXCEPT ![clock] = mirrorlist]
  /\ UNCHANGED <<mirrorlist, backupPath>>

BackUpMisnamed(r) ==
  /\ Goto(r, "backup", "reflector")
  /\ backups' = [backups EXCEPT ![clock] = mirrorlist]
  /\ backupPath' = [backupPath EXCEPT ![r] = clock + 1]
  /\ UNCHANGED mirrorlist

\* backup_file: the name has the second in it, cp -p overwrites a backup of
\* the same second and keeps the list's mtime.
BackUp(r) ==
  /\ Goto(r, "backup", "reflector")
  /\ backups' = [backups EXCEPT ![clock] = mirrorlist]
  /\ backupPath' = [backupPath EXCEPT ![r] = clock]
  /\ UNCHANGED mirrorlist

\* The one failure execute() classifies itself: no rollback.
BackupFails(r) ==
  /\ At(r, "backup")
  /\ ExecuteReturns(r, Ended("failure"))
  /\ backups' \in {backups, [backups EXCEPT ![clock] = Half(r)]}
  /\ UNCHANGED <<display, clock, mirrorlist, local>>

\* update_mirrorlist: reflector opens the file, then fills it with a list
\* that may have no server in it.
ReflectorOpens(r) ==
  /\ Goto(r, "reflector", "saving")
  /\ mirrorlist' = Half(r)
  /\ UNCHANGED <<backups, backupPath>>

ReflectorSaves(r) ==
  /\ Goto(r, "saving", "validate")
  /\ \E ok \in BOOLEAN :
       mirrorlist' = [by |-> r, ok |-> ok, mtime |-> clock]
  /\ UNCHANGED <<backups, backupPath>>

\* A bad exit status or the time limit, before or while it saves.
ReflectorFails(r) == Raise(r, "reflector") \/ Raise(r, "saving")

Validated(r) ==
  /\ At(r, "validate") /\ mirrorlist.ok
  /\ ExecuteReturns(r, Ended("success"))
  /\ UNCHANGED <<display, clock, files, local>>

\* The new list is not valid, or cannot be read a second time.
Invalid(r) == Raise(r, "validate")

----------------------------------------------------------------------------
(* post_execute() and rollback().                                          *)

\* Mutant of Stale: one backup too many stays.
StaleButOne == {s \in SUBSET Backups :
                  /\ Cardinality(Backups) >= Retention + 1
                  /\ Cardinality(s) = Cardinality(Backups) - Retention - 1
                  /\ \A a \in s, b \in Backups \ s :
                       backups[a].mtime <= backups[b].mtime}

\* backups[:-retention] of the backups sorted by mtime; which of two equal
\* mtimes comes first is the directory's choice.
Stale == {s \in SUBSET Backups :
            /\ Cardinality(Backups) >= Retention
            /\ Cardinality(s) = Cardinality(Backups) - Retention
            /\ \A a \in s, b \in Backups \ s :
                 backups[a].mtime <= backups[b].mtime}

Without(gone) == [b \in 0..MaxClock |-> IF b \in gone THEN None ELSE backups[b]]

\* delete_backups: one rm for all; post_execute swallows its failure.
Prune(r) ==
  \/ \E s \in Stale : backups' = Without(s) /\ UNCHANGED botched
  \/ Cardinality(Backups) < Retention /\ UNCHANGED <<backups, botched>>
  \/ /\ \E s \in Stale : \E gone \in SUBSET s : backups' = Without(gone)
     /\ botched' = [botched EXCEPT ![r] = TRUE]

PostExecute(r) ==
  /\ PostExecuteReturns(r)
  /\ IF result[r].status = "success" THEN Prune(r)
     ELSE UNCHANGED <<backups, botched>>
  /\ UNCHANGED <<display, clock, mirrorlist, step, backupPath, before>>

HasBackup(r) == backupPath[r] # None /\ backups[backupPath[r]] # None

\* restore_backup: cp -p back; rollback swallows its failure as well.
Rollback(r) ==
  /\ RollbackEnds(r)
  /\ hooks'[r]["rollback"] = "returned"
  /\ \/ HasBackup(r) /\ mirrorlist' = backups[backupPath[r]] /\ UNCHANGED botched
     \/ /\ HasBackup(r) /\ mirrorlist' \in {mirrorlist, Half(r)}
        /\ botched' = [botched EXCEPT ![r] = TRUE]
     \/ ~HasBackup(r) /\ UNCHANGED <<mirrorlist, botched>>
  /\ UNCHANGED <<display, clock, backups, step, backupPath, before>>

----------------------------------------------------------------------------
Tick ==
  /\ clock < MaxClock
  /\ clock' = clock + 1
  /\ UNCHANGED <<runVars, files, local>>

Execute(r) ==
  \/ SudoGranted(r) \/ SudoDeclined(r) \/ BackUp(r) \/ BackupFails(r)
  \/ ReflectorOpens(r) \/ ReflectorSaves(r) \/ ReflectorFails(r)
  \/ Validated(r) \/ Invalid(r)

\* What a run does once it has begun.
Work(r) == Gates(r) \/ Execute(r) \/ PostExecute(r) \/ Rollback(r) \/ End(r)

Next ==
  \/ \E r \in Runs : Begin(r) \/ Work(r) \/ Interrupt(r)
  \/ Tick

Spec == Init /\ [][Next]_vars

----------------------------------------------------------------------------
(* Properties.                                                             *)

\* A run that reports a failure leaves the list exactly as it found it, mtime
\* included, wherever execute() failed: unless the restoring cp itself failed.
FailureLeavesListAsFound ==
  \A r \in Runs :
    stage[r] = "finally" /\ result[r] = Ended("failure") /\ ~botched[r]
      => mirrorlist = before[r]

\* After a run that succeeded there are no more backups than the settings
\* allow, leftovers of failed backups counted, unless rm failed.
RetentionHolds ==
  \A r \in Runs :
    stage[r] = "finally" /\ result[r] = Ended("success") /\ ~botched[r]
      => Cardinality(Backups) <= Retention
=============================================================================
