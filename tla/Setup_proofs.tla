---------------------------- MODULE Setup_proofs ----------------------------
(***************************************************************************)
(* The safety of installation, for every set of tasks and every number of  *)
(* commands and edits: type correctness, the invariants and the action     *)
(* properties of Setup, with the proofs that TLAPS checks.                 *)
(***************************************************************************)
EXTENDS Setup, TLAPS

Files == {"settings", "tasks", "ignored"}

Configs == [pc : {"idle", "ask", "write", "truncated", "ended"},
            existing : SUBSET Files, force : BOOLEAN, next : 1..4]

Installs == [pc : {"idle", "bootstrap", "service", "service_torn", "timer", "timer_torn",
                   "reload", "tasks", "enable", "ended"},
             dry : BOOLEAN, enable : BOOLEAN, left : SUBSET Tasks, failed : SUBSET Tasks]

----------------------------------------------------------------------------
(* The inductive invariant.                                                *)

\* What a `setup config` under way has seen to, and what it has torn.
ConfigProgress ==
  /\ config.pc = "ask" => config.next = 1
  /\ config.pc = "truncated" => config.next <= 3 /\ file[NextFile] = "empty"
  /\ config.pc = "ended" => config.next = 4
  /\ config.pc \in {"write", "truncated", "ended"} =>
       \A i \in 1..3 : i < config.next => file[ConfigFiles[i]] # "missing"

AllWritten(known) == \A t \in Templates : known[t] = "written"

\* What a `setup timers` that is no dry run has written and reloaded.
InstallProgress ==
  /\ ~install.dry /\ install.pc \in {"timer", "timer_torn"} =>
       units["service"] = "written"
  /\ ~install.dry /\ install.pc = "reload" => AllWritten(units)
  /\ ~install.dry /\ install.pc \in {"tasks", "enable"} =>
       AllWritten(units) /\ AllWritten(loaded)
  /\ install.pc = "enable" /\ install.left # {} => ~install.dry

\* The directories a unit writes to are there once Bootstrap is over.
DirectoriesMade ==
  timers # {} \/ install.pc \notin {"idle", "bootstrap"} =>
    \A d \in {"config", "state"} : owner[d] # "absent"

IInv == SetupTypeOK /\ ConfigProgress /\ InstallProgress /\ DirectoriesMade

----------------------------------------------------------------------------
(* Lemmas about the operators.                                             *)

\* The loop of create_default_config_files visits every configuration file.
LEMMA FilesInOrder ==
  /\ \A i \in 1..3 : ConfigFiles[i] \in Files
  /\ \A f \in Files : \E i \in 1..3 : ConfigFiles[i] = f
<1>1. /\ ConfigFiles[1] = "settings" /\ ConfigFiles[2] = "tasks"
      /\ ConfigFiles[3] = "ignored"
  BY DEF ConfigFiles
<1>2. 1..3 = {1, 2, 3}
  OBVIOUS
<1>3. QED
  BY <1>1, <1>2 DEF Files

\* Making directories for somebody who exists leaves every directory with an
\* owner or absent as it was, and never takes one away.
LEMMA MadeType ==
  ASSUME SetupTypeOK, NEW dirs \in SUBSET Dirs, NEW who \in {"user", "root"}
  PROVE  /\ Made(dirs, who) \in [Dirs -> {"absent", "user", "root"}]
         /\ \A d \in Dirs : owner[d] # "absent" => Made(dirs, who)[d] # "absent"
         /\ \A d \in dirs : Made(dirs, who)[d] # "absent"
BY DEF SetupTypeOK, Made

\* The tasks setup enables are names of tasks.toml.
LEMMA AutomatedType == SetupTypeOK => AutomatedTasks \subseteq Tasks
BY DefaultsAssumption DEF SetupTypeOK, AutomatedTasks

----------------------------------------------------------------------------
(* setup config.                                                           *)

\* The state in which `setup config` begins is one of its states.
LEMMA NewConfig ==
  ASSUME NEW pc \in {"write", "ask"}, NEW existing, existing \subseteq Files
  PROVE  [pc |-> pc, existing |-> existing, force |-> FALSE, next |-> 1] \in Configs
BY DEF Configs

\* Each step of `setup config` keeps the types and its progress.
LEMMA ConfigStepKeeps ==
  ASSUME IInv, ConfigStep
  PROVE  SetupTypeOK' /\ ConfigProgress'
<1> USE DEF IInv, SetupTypeOK, ConfigProgress, NextFile
<1>1. CASE ConfigStarts
  <2>1. setups' \in 0..MaxSetups
    BY <1>1, BoundsAssumption DEF ConfigStarts
  <2> DEFINE existing == {f \in DOMAIN file : file[f] # "missing"}
             pc == IF existing = {} THEN "write" ELSE "ask"
  <2>2. existing \subseteq Files /\ pc \in {"write", "ask"}
    BY DEF Files
  <2>3. config' = [pc |-> pc, existing |-> existing, force |-> FALSE, next |-> 1]
    BY <1>1 DEF ConfigStarts, ConfigIdle
  <2> HIDE DEF existing, pc
  <2>4. config' \in Configs
    BY <2>2, <2>3, NewConfig
  <2>5. config'.pc \in {"write", "ask"} /\ config'.next = 1
    BY <2>2, <2>3
  <2>6. UNCHANGED <<file, listed, owner, units, loaded, timers, install, edits>>
    BY <1>1 DEF ConfigStarts
  <2>7. QED
    BY <2>1, <2>4, <2>5, <2>6 DEF Configs, Files
<1>2. CASE ConfigAnswer
  <2>1. PICK yes \in BOOLEAN : config' = [config EXCEPT !.force = yes, !.pc = "write"]
    BY <1>2 DEF ConfigAnswer
  <2>2. /\ config' \in Configs
        /\ config'.pc = "write" /\ config'.next = 1
    BY <1>2, <2>1 DEF ConfigAnswer, Configs, Files
  <2>3. QED
    BY <1>2, <2>2 DEF ConfigAnswer, Configs, Files
<1>3. CASE CreateNext
  <2>1. Made({"config"}, "user") \in [Dirs -> {"absent", "user", "root"}]
    BY MadeType DEF Dirs
  <2>2. PICK n \in 1..3 : n = config.next
    BY <1>3 DEF CreateNext
  <2>3. ConfigFiles[n] \in Files
    BY FilesInOrder
  <2>4. CASE Skips /\ config' = [config EXCEPT !.next = @ + 1] /\ UNCHANGED file
    BY <1>3, <2>1, <2>2, <2>3, <2>4 DEF CreateNext, Skips
  <2>5. CASE Truncates
    BY <1>3, <2>1, <2>2, <2>3, <2>5 DEF CreateNext, Truncates, Contents, Files
  <2>6. QED
    BY <1>3, <2>4, <2>5 DEF CreateNext
<1>4. CASE CreateWrites
  <2>1. PICK n \in 1..3 : n = config.next
    BY <1>4 DEF CreateWrites
  <2>2. ConfigFiles[n] \in Files
    BY FilesInOrder
  <2>3. file' = [file EXCEPT ![ConfigFiles[n]] = "default"]
    BY <1>4, <2>1 DEF CreateWrites
  <2>4. /\ config' \in Configs
        /\ config'.pc = "write" /\ config'.next = n + 1
    <3>1. config' = [config EXCEPT !.pc = "write", !.next = n + 1] /\ n + 1 \in 1..4
      BY <1>4, <2>1 DEF CreateWrites
    <3>2. QED
      BY <3>1 DEF Configs, Files
  <2>5. \A i \in 1..3 : i < n + 1 => file'[ConfigFiles[i]] # "missing"
    <3> TAKE i \in 1..3
    <3> HAVE i < n + 1
    <3>1. i < n \/ i = n
      OBVIOUS
    <3>2. QED
      BY <1>4, <2>1, <2>2, <2>3, <3>1, FilesInOrder DEF CreateWrites, Files
  <2>6. SetupTypeOK'
    BY <1>4, <2>2, <2>3, <2>4 DEF CreateWrites, Contents, Configs, Files
  <2>7. QED
    BY <2>4, <2>5, <2>6
<1>5. CASE ConfigEnds
  BY <1>5 DEF ConfigEnds
<1>6. CASE ConfigDies
  BY <1>6 DEF ConfigDies, ConfigIdle
<1>7. QED
  BY <1>1, <1>2, <1>3, <1>4, <1>5, <1>6 DEF ConfigStep

\* setup config makes directories and files, and takes none away.
LEMMA ConfigStepLeavesInstall ==
  ASSUME IInv, ConfigStep
  PROVE  InstallProgress' /\ DirectoriesMade'
<1>1. UNCHANGED <<units, loaded, timers, install>>
  BY DEF ConfigStep, ConfigStarts, ConfigAnswer, CreateNext, CreateWrites,
         ConfigEnds, ConfigDies
<1>2. \A d \in Dirs : owner[d] # "absent" => owner'[d] # "absent"
  <2>1. CASE CreateNext
    BY <2>1, MadeType DEF CreateNext, IInv, Dirs
  <2>2. CASE UNCHANGED owner
    BY <2>2
  <2>3. QED
    BY <2>1, <2>2 DEF ConfigStep, ConfigStarts, ConfigAnswer, CreateWrites,
                      ConfigEnds, ConfigDies
<1>3. InstallProgress'
  BY <1>1 DEF IInv, InstallProgress, AllWritten
<1>4. DirectoriesMade'
  BY <1>1, <1>2 DEF IInv, DirectoriesMade, Dirs
<1>5. QED
  BY <1>3, <1>4

----------------------------------------------------------------------------
(* setup timers.                                                           *)

\* Each step of `setup timers` keeps the types.
LEMMA InstallStepType ==
  ASSUME SetupTypeOK, InstallStep
  PROVE  SetupTypeOK'
<1> USE DEF SetupTypeOK, InstallIdle
<1>1. CASE InstallStarts
  <2>1. setups' \in 0..MaxSetups
    BY <1>1, BoundsAssumption DEF InstallStarts
  <2>2. QED
    BY <1>1, <2>1 DEF InstallStarts
<1>2. CASE Bootstrap
  <2>1. Made(Dirs, "root") \in [Dirs -> {"absent", "user", "root"}]
    BY MadeType
  <2>2. QED
    BY <1>2, <2>1 DEF Bootstrap
<1>3. CASE InstallTemplates
  <2>1. CASE WriteTemplate("service", "service_torn", "timer")
    BY <2>1 DEF WriteTemplate, Templates
  <2>2. CASE WriteTemplate("timer", "timer_torn", "reload")
    BY <2>2 DEF WriteTemplate, Templates
  <2>3. QED
    BY <1>3, <2>1, <2>2 DEF InstallTemplates
<1>4. CASE Reload
  BY <1>4 DEF Reload
<1>5. CASE GetAutomatedTasks
  <2>1. PICK left \in SUBSET Tasks :
          install' = [install EXCEPT !.pc = "enable", !.left = left]
    BY <1>5, AutomatedType DEF GetAutomatedTasks
  <2>2. QED
    BY <1>5, <2>1 DEF GetAutomatedTasks
<1>6. CASE EnableTimer
  <2>1. PICK t \in install.left :
          /\ timers' \in {timers, timers \cup {t}}
          /\ \/ install' = [install EXCEPT !.left = @ \ {t}]
             \/ install' = [install EXCEPT !.left = @ \ {t}, !.failed = @ \cup {t}]
    BY <1>6 DEF EnableTimer
  <2>2. install' \in Installs
    <3>1. install.left \ {t} \in SUBSET Tasks /\ install.failed \cup {t} \in SUBSET Tasks
      OBVIOUS
    <3>2. QED
      BY <2>1, <3>1 DEF Installs
  <2>3. timers' \subseteq Tasks
    BY <2>1
  <2>4. QED
    BY <1>6, <2>2, <2>3 DEF EnableTimer, Installs
<1>7. CASE InstallEnds
  BY <1>7 DEF InstallEnds
<1>8. CASE InstallDies
  BY <1>8 DEF InstallDies
<1>9. QED
  BY <1>1, <1>2, <1>3, <1>4, <1>5, <1>6, <1>7, <1>8 DEF InstallStep

\* Each step of `setup timers` keeps its progress: units written, then loaded.
LEMMA InstallStepProgress ==
  ASSUME IInv, InstallStep
  PROVE  InstallProgress'
<1> USE DEF IInv, SetupTypeOK, InstallProgress, AllWritten, InstallIdle
<1>1. CASE InstallStarts
  BY <1>1 DEF InstallStarts
<1>2. CASE Bootstrap
  BY <1>2 DEF Bootstrap
<1>3. CASE InstallTemplates
  <2>1. CASE WriteTemplate("service", "service_torn", "timer")
    BY <2>1 DEF WriteTemplate, Templates
  <2>2. CASE WriteTemplate("timer", "timer_torn", "reload")
    BY <2>2 DEF WriteTemplate, Templates
  <2>3. QED
    BY <1>3, <2>1, <2>2 DEF InstallTemplates
<1>4. CASE Reload
  BY <1>4 DEF Reload
<1>5. CASE GetAutomatedTasks
  <2>1. install'.pc = "enable" /\ install'.dry = install.dry
        /\ (install'.left # {} => ~install.dry)
    BY <1>5 DEF GetAutomatedTasks
  <2>2. QED
    BY <1>5, <2>1 DEF GetAutomatedTasks
<1>6. CASE EnableTimer
  BY <1>6 DEF EnableTimer
<1>7. CASE InstallEnds
  BY <1>7 DEF InstallEnds
<1>8. CASE InstallDies
  BY <1>8 DEF InstallDies
<1>9. QED
  BY <1>1, <1>2, <1>3, <1>4, <1>5, <1>6, <1>7, <1>8 DEF InstallStep

\* The directories are made before the first unit is enabled, and stay.
LEMMA InstallStepDirectories ==
  ASSUME IInv, InstallStep
  PROVE  DirectoriesMade'
<1> USE DEF IInv, SetupTypeOK, DirectoriesMade, InstallIdle
<1>1. CASE InstallStarts
  BY <1>1 DEF InstallStarts
<1>2. CASE Bootstrap
  <2>1. \A d \in Dirs : Made(Dirs, "root")[d] # "absent"
    BY MadeType
  <2>2. QED
    BY <1>2, <2>1 DEF Bootstrap, Dirs
<1>3. CASE InstallTemplates
  BY <1>3 DEF InstallTemplates, WriteTemplate
<1>4. CASE Reload
  BY <1>4 DEF Reload
<1>5. CASE GetAutomatedTasks
  BY <1>5 DEF GetAutomatedTasks
<1>6. CASE EnableTimer
  BY <1>6 DEF EnableTimer
<1>7. CASE InstallEnds
  BY <1>7 DEF InstallEnds
<1>8. CASE InstallDies
  BY <1>8 DEF InstallDies
<1>9. QED
  BY <1>1, <1>2, <1>3, <1>4, <1>5, <1>6, <1>7, <1>8 DEF InstallStep

\* Each step of `setup timers` keeps the invariant.
LEMMA InstallStepKeeps ==
  ASSUME IInv, InstallStep
  PROVE  IInv'
<1>1. SetupTypeOK'
  BY InstallStepType DEF IInv
<1>2. UNCHANGED <<file, config>>
  BY DEF InstallStep, InstallStarts, Bootstrap, InstallTemplates, WriteTemplate,
         Reload, GetAutomatedTasks, EnableTimer, InstallEnds, InstallDies
<1>3. ConfigProgress'
  BY <1>2 DEF IInv, ConfigProgress, NextFile
<1>4. QED
  BY <1>1, <1>3, InstallStepProgress, InstallStepDirectories DEF IInv

----------------------------------------------------------------------------
(* Around them.                                                            *)

\* The editor writes over any file but the one a setup config has just torn.
LEMMA UserEditsKeeps ==
  ASSUME IInv, UserEdits
  PROVE  IInv'
<1>1. PICK f \in Files, c \in {"edited", "broken"} :
        /\ config.pc = "truncated" => f # NextFile
        /\ file' = [file EXCEPT ![f] = c]
  <2>1. DOMAIN file = Files
    BY DEF IInv, SetupTypeOK, Files
  <2>2. QED
    BY <2>1 DEF UserEdits
<1>2. SetupTypeOK'
  <2>1. edits' \in 0..MaxEdits
    BY BoundsAssumption DEF UserEdits, IInv, SetupTypeOK
  <2>2. file' \in [Files -> Contents]
    BY <1>1 DEF IInv, SetupTypeOK, Files, Contents
  <2>3. QED
    BY <2>1, <2>2 DEF UserEdits, IInv, SetupTypeOK, Files
<1>3. ConfigProgress'
  BY <1>1, FilesInOrder DEF UserEdits, IInv, SetupTypeOK, ConfigProgress, NextFile, Files
<1>4. InstallProgress' /\ DirectoriesMade'
  BY DEF UserEdits, IInv, InstallProgress, AllWritten, DirectoriesMade
<1>5. QED
  BY <1>2, <1>3, <1>4 DEF IInv

\* Commands of the user and runs of units add directories or hand them over.
LEMMA RunsKeep ==
  ASSUME IInv, UserRuns \/ TimerRuns
  PROVE  IInv'
<1>1. /\ owner' \in [Dirs -> {"absent", "user", "root"}]
      /\ \A d \in Dirs : owner[d] # "absent" => owner'[d] # "absent"
  BY MadeType DEF IInv, UserRuns, TimerRuns
<1>2. UNCHANGED <<file, listed, units, loaded, timers, config, install, setups, edits>>
  BY DEF UserRuns, TimerRuns
<1>3. SetupTypeOK'
  BY <1>1, <1>2 DEF IInv, SetupTypeOK
<1>4. ConfigProgress' /\ InstallProgress'
  BY <1>2 DEF IInv, ConfigProgress, NextFile, InstallProgress, AllWritten
<1>5. DirectoriesMade'
  BY <1>1, <1>2 DEF IInv, DirectoriesMade, Dirs
<1>6. QED
  BY <1>3, <1>4, <1>5 DEF IInv

\* A reload by somebody else loads whatever units there are.
LEMMA SystemReloadsKeeps ==
  ASSUME IInv, SystemReloads
  PROVE  IInv'
BY DEF SystemReloads, IInv, SetupTypeOK, ConfigProgress, NextFile, InstallProgress,
       AllWritten, DirectoriesMade

----------------------------------------------------------------------------
(* The theorems.                                                           *)

\* A machine without archcare satisfies the invariant.
LEMMA IInvInit == SetupInit => IInv
<1> SUFFICES ASSUME SetupInit PROVE IInv
  OBVIOUS
<1> USE DEF SetupInit, ConfigIdle, InstallIdle
<1>1. SetupTypeOK
  BY DefaultsAssumption, BoundsAssumption DEF SetupTypeOK, Contents
<1>2. QED
  BY <1>1 DEF IInv, ConfigProgress, InstallProgress, DirectoriesMade

\* The invariant is inductive.
LEMMA IInvStep == IInv /\ [SetupNext]_vars => IInv'
<1> SUFFICES ASSUME IInv, [SetupNext]_vars PROVE IInv'
  OBVIOUS
<1>1. CASE ConfigStep
  BY <1>1, ConfigStepKeeps, ConfigStepLeavesInstall DEF IInv
<1>2. CASE InstallStep
  BY <1>2, InstallStepKeeps
<1>3. CASE UserEdits
  BY <1>3, UserEditsKeeps
<1>4. CASE UserRuns \/ TimerRuns
  BY <1>4, RunsKeep
<1>5. CASE SystemReloads
  BY <1>5, SystemReloadsKeeps
<1>6. CASE UNCHANGED vars
  BY <1>6 DEF vars, IInv, SetupTypeOK, ConfigProgress, NextFile, InstallProgress,
              AllWritten, DirectoriesMade
<1>7. QED
  BY <1>1, <1>2, <1>3, <1>4, <1>5, <1>6 DEF SetupNext

\* The invariant holds in every reachable state.
LEMMA IInvAlways == SetupSpec => []IInv
BY IInvInit, IInvStep, PTL DEF SetupSpec

\* Every state of an installation has the types the model gives its variables.
THEOREM SetupTypeCorrect == SetupSpec => []SetupTypeOK
<1>1. IInv => SetupTypeOK
  BY DEF IInv
<1>2. QED
  BY <1>1, IInvAlways, PTL

\* A setup config that ran to its end leaves no configuration file missing,
\* whatever was killed before it and whatever is edited beside it.
THEOREM ConfigIsComplete == SetupSpec => []ConfigComplete
<1>1. IInv => ConfigComplete
  <2> SUFFICES ASSUME IInv, config.pc = "ended", NEW f \in DOMAIN file
               PROVE  file[f] # "missing"
    BY DEF ConfigComplete
  <2>1. PICK i \in 1..3 : ConfigFiles[i] = f
    BY FilesInOrder DEF IInv, SetupTypeOK, Files
  <2>2. QED
    BY <2>1 DEF IInv, ConfigProgress
<1>2. QED
  BY <1>1, IInvAlways, PTL

\* No timer is enabled before the directories its confined service needs.
THEOREM UnitsCanStart == SetupSpec => []EnabledUnitsCanStart
<1>1. IInv => EnabledUnitsCanStart
  BY DEF IInv, DirectoriesMade, EnabledUnitsCanStart
<1>2. QED
  BY <1>1, IInvAlways, PTL

\* Only an answered y lets setup config replace what the user wrote, also what
\* was written after the question was asked.
THEOREM EditsSurvive == SetupSpec => EditsSurviveWithoutYes
<1> DEFINE Kept == \A f \in DOMAIN file :
             file[f] = "edited" /\ file'[f] \notin {"edited", "broken"} => config.force
<1>1. IInv /\ [SetupNext]_vars => [Kept]_vars
  <2> SUFFICES ASSUME IInv, SetupNext, NEW f \in DOMAIN file, file[f] = "edited",
                      file'[f] \notin {"edited", "broken"}
               PROVE  config.force
    OBVIOUS
  <2>1. CASE CreateNext
    <3>1. ~Skips /\ Truncates
      BY <2>1 DEF CreateNext
    <3>2. f = NextFile
      BY <3>1 DEF Truncates, IInv, SetupTypeOK
    <3>3. QED
      BY <3>1, <3>2 DEF Skips
  <2>2. CASE CreateWrites
    <3>1. file[NextFile] = "empty"
      BY <2>2 DEF CreateWrites, IInv, ConfigProgress
    <3>2. QED
      BY <2>2, <3>1 DEF CreateWrites, IInv, SetupTypeOK
  <2>3. CASE UserEdits
    BY <2>3 DEF UserEdits, IInv, SetupTypeOK
  <2>4. CASE UNCHANGED file
    BY <2>4
  <2>5. QED
    BY <2>1, <2>2, <2>3, <2>4
    DEF SetupNext, ConfigStep, ConfigStarts, ConfigAnswer, ConfigEnds, ConfigDies,
        InstallStep, InstallStarts, Bootstrap, InstallTemplates, WriteTemplate, Reload,
        GetAutomatedTasks, EnableTimer, InstallEnds, InstallDies, UserRuns, TimerRuns,
        SystemReloads
<1>2. QED
  BY <1>1, IInvAlways, PTL DEF SetupSpec, EditsSurviveWithoutYes

\* setup timers enables a timer only under templates that are whole, on disk
\* and as systemd has loaded them.
THEOREM EnabledAfterReload == SetupSpec => EnabledUnderLoadedUnits
<1> DEFINE Loaded == timers' # timers =>
             \A t \in Templates : loaded[t] = "written" /\ units[t] = "written"
<1>1. IInv /\ [SetupNext]_vars => [Loaded]_vars
  <2> SUFFICES ASSUME IInv, SetupNext, timers' # timers
               PROVE  \A t \in Templates : loaded[t] = "written" /\ units[t] = "written"
    OBVIOUS
  <2>1. EnableTimer
    BY DEF SetupNext, ConfigStep, ConfigStarts, ConfigAnswer, CreateNext, CreateWrites,
           ConfigEnds, ConfigDies, InstallStep, InstallStarts, Bootstrap,
           InstallTemplates, WriteTemplate, Reload, GetAutomatedTasks, InstallEnds,
           InstallDies, UserEdits, UserRuns, TimerRuns, SystemReloads
  <2>2. install.pc = "enable" /\ install.left # {}
    BY <2>1 DEF EnableTimer
  <2>3. QED
    BY <2>2 DEF IInv, InstallProgress, AllWritten
<1>2. QED
  BY <1>1, IInvAlways, PTL DEF SetupSpec, EnabledUnderLoadedUnits
=============================================================================
