------------------------------- MODULE Setup -------------------------------
(***************************************************************************)
(* Installation: `archcare setup config` writes the default configuration  *)
(* files, `sudo archcare setup timers` installs the systemd templates and  *)
(* enables a timer for every automated task                                *)
(* (src/archcare/services/setup_service.py, cli/commands/setup.py).  Both  *)
(* run beside the user's editor, the user's own commands, the timers that  *)
(* are already enabled, and a daemon-reload by somebody else; both may be  *)
(* killed between any two steps, also between the truncation and the       *)
(* writing of a file.                                                      *)
(***************************************************************************)
EXTENDS Naturals, Sequences, FiniteSets

CONSTANTS
  Tasks,      \* the names a tasks.toml may hold
  Defaults,   \* the automated tasks of the default tasks.toml
  MaxSetups,  \* bound: invocations of the two commands
  MaxEdits    \* bound: edits of configuration files

ASSUME DefaultsAssumption == Defaults \subseteq Tasks
ASSUME BoundsAssumption == MaxSetups \in Nat /\ MaxEdits \in Nat

VARIABLES
  file,      \* the configuration files
  listed,    \* the enabled automated tasks an edited tasks.toml lists
  owner,     \* the directories and who owns them
  units,     \* the templates in /etc/systemd/system
  loaded,    \* the templates as systemd has loaded them
  timers,    \* the tasks whose timer is enabled
  config,    \* the running `setup config`
  install,   \* the running `setup timers`
  setups, edits

vars == <<file, listed, owner, units, loaded, timers, config, install, setups, edits>>

\* In the order in which create_default_config_files goes through them.
ConfigFiles == <<"settings", "tasks", "ignored">>

\* "empty" is a file that was truncated and not written.
Contents == {"missing", "empty", "default", "edited", "broken"}

Dirs == {"config", "state", "logs", "reports"}
Templates == {"service", "timer"}

ConfigIdle == [pc |-> "idle", existing |-> {}, force |-> FALSE, next |-> 1]
InstallIdle == [pc |-> "idle", dry |-> FALSE, enable |-> FALSE, left |-> {}, failed |-> {}]

SetupTypeOK ==
  /\ file \in [{"settings", "tasks", "ignored"} -> Contents]
  /\ listed \subseteq Tasks
  /\ owner \in [Dirs -> {"absent", "user", "root"}]
  /\ {units, loaded} \subseteq [Templates -> {"absent", "partial", "written"}]
  /\ timers \subseteq Tasks
  /\ config \in [pc : {"idle", "ask", "write", "truncated", "ended"},
                 existing : SUBSET {"settings", "tasks", "ignored"},
                 force : BOOLEAN, next : 1..4]
  /\ install \in [pc : {"idle", "bootstrap", "service", "service_torn", "timer",
                        "timer_torn", "reload", "tasks", "enable", "ended"},
                  dry : BOOLEAN, enable : BOOLEAN,
                  left : SUBSET Tasks, failed : SUBSET Tasks]
  /\ setups \in 0..MaxSetups /\ edits \in 0..MaxEdits

\* A machine archcare was just installed on.
SetupInit ==
  /\ file = [f \in {"settings", "tasks", "ignored"} |-> "missing"]
  /\ listed = Defaults
  /\ owner = [d \in Dirs |-> "absent"]
  /\ units = [t \in Templates |-> "absent"] /\ loaded = units
  /\ timers = {}
  /\ config = ConfigIdle /\ install = InstallIdle
  /\ setups = 0 /\ edits = 0

----------------------------------------------------------------------------
(* Directories and configuration files.                                    *)

\* mkdir(parents=True, exist_ok=True) for these directories; logs and reports
\* lie in the state directory.
Made(dirs, who) ==
  [d \in Dirs |-> IF owner[d] = "absent" /\ d \in dirs THEN who ELSE owner[d]]

\* mkdir by the user fails in a directory of root's.
MayMake(dirs) ==
  \A d \in dirs \cap {"logs", "reports"} :
    owner[d] = "absent" => owner["state"] # "root"

\* load_tasks: no file, an empty one, or one with a single invalid section,
\* has no tasks.  Manual and disabled tasks, which get_tasks_by_type filters
\* out, are left out of Defaults and listed.
AutomatedTasks ==
  CASE file["tasks"] = "default" -> Defaults
    [] file["tasks"] = "edited"  -> listed
    [] OTHER                     -> {}

----------------------------------------------------------------------------
(* setup config.                                                           *)

\* check_existing, and the question when there are files.
ConfigStarts ==
  LET existing == {f \in DOMAIN file : file[f] # "missing"} IN
  /\ config.pc \in {"idle", "ended"} /\ setups < MaxSetups
  /\ setups' = setups + 1
  /\ config' = [ConfigIdle EXCEPT !.existing = existing,
                                  !.pc = IF existing = {} THEN "write" ELSE "ask"]
  /\ UNCHANGED <<file, listed, owner, units, loaded, timers, install, edits>>

ConfigAnswer ==
  /\ config.pc = "ask"
  /\ \E yes \in BOOLEAN :
       config' = [config EXCEPT !.force = yes, !.pc = "write"]
  /\ UNCHANGED <<file, listed, owner, units, loaded, timers, install, setups, edits>>

NextFile == ConfigFiles[config.next]

\* Mutant of Skips: the answer to check_existing decides, not the file.
SkipsListed == NextFile \in config.existing /\ ~config.force

\* target_path.exists() and not force.
Skips == file[NextFile] # "missing" /\ ~config.force

\* write_text opens and truncates; a directory of root's forbids a new file.
Truncates ==
  /\ file[NextFile] # "missing" \/ owner["config"] # "root"
  /\ file' = [file EXCEPT ![NextFile] = "empty"]
  /\ config' = [config EXCEPT !.pc = "truncated"]

\* Mutant of CreateNext: the loop ends at a file that exists.
CreateUntilExisting ==
  /\ config.pc = "write" /\ config.next <= 3
  /\ owner' = Made({"config"}, "user")
  /\ \/ Skips /\ config' = [config EXCEPT !.next = 4] /\ UNCHANGED file
     \/ ~Skips /\ Truncates
  /\ UNCHANGED <<listed, units, loaded, timers, install, setups, edits>>

CreateNext ==
  /\ config.pc = "write" /\ config.next <= 3
  /\ owner' = Made({"config"}, "user")
  /\ \/ Skips /\ config' = [config EXCEPT !.next = @ + 1] /\ UNCHANGED file
     \/ ~Skips /\ Truncates
  /\ UNCHANGED <<listed, units, loaded, timers, install, setups, edits>>

CreateWrites ==
  /\ config.pc = "truncated"
  /\ file' = [file EXCEPT ![NextFile] = "default"]
  /\ config' = [config EXCEPT !.pc = "write", !.next = @ + 1]
  /\ UNCHANGED <<listed, owner, units, loaded, timers, install, setups, edits>>

ConfigEnds ==
  /\ config.pc = "write" /\ config.next = 4
  /\ config' = [config EXCEPT !.pc = "ended"]
  /\ UNCHANGED <<file, listed, owner, units, loaded, timers, install, setups, edits>>

\* Ctrl-C, an OSError, or a kill.
ConfigDies ==
  /\ config.pc \notin {"idle", "ended"}
  /\ config' = ConfigIdle
  /\ UNCHANGED <<file, listed, owner, units, loaded, timers, install, setups, edits>>

----------------------------------------------------------------------------
(* setup timers, under sudo.                                               *)

\* resolve_systemd_target_user: anything but sudo by a known user stops here.
InstallStarts ==
  /\ install.pc \in {"idle", "ended"} /\ setups < MaxSetups
  /\ setups' = setups + 1
  /\ \E dry, enable \in BOOLEAN :
       install' = [InstallIdle EXCEPT !.pc = "bootstrap", !.dry = dry, !.enable = enable]
  /\ UNCHANGED <<file, listed, owner, units, loaded, timers, config, edits>>

\* Mutant of Bootstrap: the directories are left to the first run.
NoDirectories ==
  /\ install.pc = "bootstrap" /\ file["tasks"] # "missing"
  /\ install' = [install EXCEPT !.pc = "service"]
  /\ UNCHANGED <<file, listed, owner, units, loaded, timers, config, setups, edits>>

\* Mutant of Bootstrap: the directories are handed to ARCHCARE_USER, unset.
BootstrapHandsOver ==
  /\ install.pc = "bootstrap" /\ file["tasks"] # "missing"
  /\ owner' = Made(Dirs, "nobody")
  /\ install' = [install EXCEPT !.pc = "service"]
  /\ UNCHANGED <<file, listed, units, loaded, timers, config, setups, edits>>

\* executor_for_user, setup_logging: with a tasks.toml the directories are
\* made, by root, and ARCHCARE_USER is not set to hand them over.
Bootstrap ==
  /\ install.pc = "bootstrap" /\ file["tasks"] # "missing"
  /\ owner' = Made(Dirs, "root")
  /\ install' = [install EXCEPT !.pc = "service"]
  /\ UNCHANGED <<file, listed, units, loaded, timers, config, setups, edits>>

\* write_text of one template, in two steps; a dry run skips both.
WriteTemplate(t, torn, next) ==
  /\ install.pc \in {t, torn}
  /\ IF install.dry
       THEN /\ install' = [install EXCEPT !.pc = next]
            /\ UNCHANGED units
       ELSE LET opens == install.pc = t IN
            /\ install' = [install EXCEPT !.pc = IF opens THEN torn ELSE next]
            /\ units' = [units EXCEPT ![t] = IF opens THEN "partial" ELSE "written"]
  /\ UNCHANGED <<file, listed, owner, loaded, timers, config, setups, edits>>

InstallTemplates ==
  \/ WriteTemplate("service", "service_torn", "timer")
  \/ WriteTemplate("timer", "timer_torn", "reload")

\* Mutant of Reload: a failing daemon-reload does not stop the setup.
ReloadOrNot ==
  /\ install.pc = "reload"
  /\ install' = [install EXCEPT !.pc = "tasks"]
  /\ loaded' \in {loaded, units}
  /\ UNCHANGED <<file, listed, owner, units, timers, config, setups, edits>>

\* systemctl daemon-reload; SystemdReloadError is InstallDies.
Reload ==
  /\ install.pc = "reload"
  /\ install' = [install EXCEPT !.pc = "tasks"]
  /\ loaded' = IF install.dry THEN loaded ELSE units
  /\ UNCHANGED <<file, listed, owner, units, timers, config, setups, edits>>

GetAutomatedTasks ==
  /\ install.pc = "tasks"
  /\ install' = [install EXCEPT
       !.pc = "enable",
       !.left = IF install.enable /\ ~install.dry THEN AutomatedTasks ELSE {}]
  /\ UNCHANGED <<file, listed, owner, units, loaded, timers, config, setups, edits>>

\* systemctl enable --now: a failure, which may come before or after the timer
\* is enabled, is noted and the next task follows.
EnableTimer ==
  /\ install.pc = "enable"
  /\ \E t \in install.left :
       \/ /\ timers' = timers \cup {t}
          /\ install' = [install EXCEPT !.left = @ \ {t}]
       \/ /\ timers' \in {timers, timers \cup {t}}
          /\ install' = [install EXCEPT !.left = @ \ {t}, !.failed = @ \cup {t}]
  /\ UNCHANGED <<file, listed, owner, units, loaded, config, setups, edits>>

InstallEnds ==
  /\ install.pc = "enable" /\ install.left = {}
  /\ install' = [install EXCEPT !.pc = "ended"]
  /\ UNCHANGED <<file, listed, owner, units, loaded, timers, config, setups, edits>>

\* No tasks.toml, a reload that fails, an OSError, Ctrl-C, or a kill.
InstallDies ==
  /\ install.pc \notin {"idle", "ended"}
  /\ install' = InstallIdle
  /\ UNCHANGED <<file, listed, owner, units, loaded, timers, config, setups, edits>>

----------------------------------------------------------------------------
(* Around them.                                                            *)

\* The user writes a file, or writes one that does not parse or validate, but
\* not within the microseconds between write_text's truncation and its write.
UserEdits ==
  /\ edits < MaxEdits /\ owner["config"] = "user"
  /\ edits' = edits + 1
  /\ \E f \in DOMAIN file, c \in {"edited", "broken"} :
       /\ config.pc = "truncated" => f # NextFile
       /\ file' = [file EXCEPT ![f] = c]
  /\ listed' \in SUBSET Tasks
  /\ UNCHANGED <<owner, units, loaded, timers, config, install, setups>>

\* A command of the user's own: setup_logging before anything else.  Behind
\* directories of root's it ends in a PermissionError.
UserRuns ==
  /\ file["tasks"] # "missing" /\ MayMake(Dirs)
  /\ owner' = Made(Dirs, "user")
  /\ UNCHANGED <<file, listed, units, loaded, timers, config, install, setups, edits>>

\* Mutant of TimerRuns: the log directory stays with root.
TimerKeepsLogs ==
  /\ timers # {} /\ file["tasks"] # "missing"
  /\ owner' = Made(Dirs, "root")
  /\ UNCHANGED <<file, listed, units, loaded, timers, config, install, setups, edits>>

\* A timer's run is root with ARCHCARE_USER set: setup_logging makes what is
\* missing and hands the log directory over; a run that is recorded also hands
\* over the directory of state.json.  The others stay as they are.
TimerRuns ==
  /\ timers # {} /\ file["tasks"] # "missing"
  /\ \E handed \in {{"logs"}, {"logs", "state"}} :
       owner' = [d \in Dirs |-> IF d \in handed THEN "user" ELSE Made(Dirs, "root")[d]]
  /\ UNCHANGED <<file, listed, units, loaded, timers, config, install, setups, edits>>

\* A package upgrade or another administrator reloads systemd.
SystemReloads ==
  /\ loaded' = units
  /\ UNCHANGED <<file, listed, owner, units, timers, config, install, setups, edits>>

ConfigStep ==
  \/ ConfigStarts \/ ConfigAnswer \/ CreateNext \/ CreateWrites \/ ConfigEnds
  \/ ConfigDies

InstallStep ==
  \/ InstallStarts \/ Bootstrap \/ InstallTemplates \/ Reload
  \/ GetAutomatedTasks \/ EnableTimer \/ InstallEnds \/ InstallDies

SetupNext ==
  \/ ConfigStep \/ InstallStep
  \/ UserEdits \/ UserRuns \/ TimerRuns \/ SystemReloads

\* OnCalendar=daily and Persistent=yes: an enabled timer starts its task
\* again and again.
SetupSpec == SetupInit /\ [][SetupNext]_vars /\ WF_vars(TimerRuns)

----------------------------------------------------------------------------
(* Properties.                                                             *)

\* docs/guides/getting-started.md: setup config "never overwrites existing
\* configuration files unless specifically told to do so by answering y".
\* Also of a file the user wrote while the command was already running.
EditsSurviveWithoutYes ==
  [][\A f \in DOMAIN file :
       file[f] = "edited" /\ file'[f] \notin {"edited", "broken"} => config.force]_vars

\* A setup config that ran to its end leaves no file missing, also when it
\* finds what a killed one had left.
ConfigComplete ==
  config.pc = "ended" => \A f \in DOMAIN file : file[f] # "missing"

\* setup timers enables no timer while systemd still knows older or torn
\* templates: what a failed reload or a killed setup left behind is never
\* started by a later one.
EnabledUnderLoadedUnits ==
  [][timers' # timers =>
       \A t \in Templates : loaded[t] = "written" /\ units[t] = "written"]_vars

\* The service is confined to ReadWritePaths, which must exist or systemd
\* refuses to start it: no timer is enabled before the directories exist.
EnabledUnitsCanStart ==
  timers # {} => \A d \in {"config", "state"} : owner[d] # "absent"

\* Directories that setup timers left to root do not lock the user's
\* commands out of the log for good: the first timer run returns it.
LogsReturned ==
  timers # {} /\ owner["logs"] = "root"
    ~> owner["logs"] = "user"

\* docs/reference/cli.md on setup timers --dry-run: "Show what would be done
\* without touching disk or systemctl".
DryRunTouchesNothing ==
  [][install.dry /\ install'.dry /\ install' # install
       => UNCHANGED <<file, owner, units, loaded, timers>>]_vars
=============================================================================
