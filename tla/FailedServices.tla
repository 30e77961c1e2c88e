--------------------------- MODULE FailedServices ---------------------------
(***************************************************************************)
(* The failed-services task (src/archcare/tasks/failed_services.py) on a   *)
(* system that does not stand still: should_run and execute each ask       *)
(* systemd for the failed units and read ignored-services.toml, and        *)
(* execute then asks about every unit it reports, one after another.       *)
(* Units fail and recover in between, and the user edits the file.         *)
(***************************************************************************)
EXTENDS BaseTask, FiniteSets

CONSTANTS
  Units,       \* the services of the system
  Unreadable,  \* an ignored-services.toml that does not parse or validate
  MaxChanges   \* bound: units that fail or recover, and edits of the file

VARIABLES
  failed,   \* the units systemd has in the failed state
  ignored,  \* what ignored-services.toml lists, or Unreadable
  changes,  \* how many times these two have changed
  found,    \* the units the last query returned, None before
  todo,     \* the units execute has still to ask about, None before
  details,  \* what execute has collected: a set of reported units and states
  lasting,  \* history: the units failed and not ignored since the run began
  blind     \* history: a query of the run failed

unitVars == <<failed, ignored, changes>>
serviceVars == <<found, todo, details, lasting, blind>>

ASSUME NamesAreNoUnits == \A us \in SUBSET Units : us # None /\ us # Unreadable

ActiveStates == {"active", "inactive", "failed", "unknown"}

Reports == [unit : Units, active : ActiveStates]

ServicesTypeOK ==
  /\ failed \subseteq Units
  /\ ignored = Unreadable \/ ignored \subseteq Units
  /\ found \in [Runs -> {None} \cup SUBSET Units]
  /\ todo \in [Runs -> {None} \cup SUBSET Units]
  /\ details \in [Runs -> SUBSET Reports]
  /\ lasting \in [Runs -> SUBSET Units]
  /\ blind \in [Runs -> BOOLEAN]

ServicesInit ==
  /\ failed \in SUBSET Units
  /\ ignored \in (SUBSET Units) \cup {Unreadable}
  /\ changes = 0
  /\ found = [r \in Runs |-> None]
  /\ todo = [r \in Runs |-> None]
  /\ details = [r \in Runs |-> {}]
  /\ lasting = [r \in Runs |-> {}]
  /\ blind = [r \in Runs |-> FALSE]

----------------------------------------------------------------------------
(* The system around the run.                                              *)

\* load_ignored_services: a missing or damaged file ignores nothing.
Ignored(file) == IF file = Unreadable THEN {} ELSE file

Lasting == lasting' = [r \in Runs |->
             lasting[r] \cap (failed' \ Ignored(ignored'))]

UnitChanges ==
  /\ changes < MaxChanges
  /\ changes' = changes + 1
  /\ \/ \E u \in Units \ failed : failed' = failed \cup {u}
     \/ \E u \in failed : failed' = failed \ {u}
  /\ UNCHANGED ignored
  /\ Lasting
  /\ UNCHANGED <<runVars, found, todo, details, blind>>

FileEdited ==
  /\ changes < MaxChanges
  /\ changes' = changes + 1
  /\ ignored' \in (SUBSET Units) \cup {Unreadable}
  /\ UNCHANGED failed
  /\ Lasting
  /\ UNCHANGED <<runVars, found, todo, details, blind>>

----------------------------------------------------------------------------
(* The hooks.                                                              *)

\* systemctl in PATH.
PreCheckServices(r) ==
  /\ \/ /\ PreCheckPasses(r)
        /\ lasting' = [lasting EXCEPT ![r] = failed \ Ignored(ignored)]
     \/ PreCheckFails(r) /\ UNCHANGED lasting
  /\ UNCHANGED <<display, found, todo, details, blind>>

\* get_systemd_failed_services: a query systemctl fails returns no unit, one
\* that times out raises (HookRaises).
Query(r) ==
  /\ stage[r] \in {"should_run", "execute"} /\ found[r] = None
  /\ \E answered \in BOOLEAN :
       /\ found' = [found EXCEPT ![r] = IF answered THEN failed ELSE {}]
       /\ blind' = [blind EXCEPT ![r] = @ \/ ~answered]
  /\ UNCHANGED <<runVars, todo, details, lasting>>

ActualFailures(r) == found[r] \ Ignored(ignored)

\* should_run, after its query.
Decision(r) ==
  /\ stage[r] = "should_run" /\ found[r] # None
  /\ IF ActualFailures(r) = {}
       THEN ShouldSkip(r, "no_work_needed")
       ELSE ShouldRun(r)
  /\ found' = [found EXCEPT ![r] = None]
  /\ UNCHANGED <<display, todo, details, lasting, blind>>

\* execute filters its own query and works on what is left.
Filter(r) ==
  /\ stage[r] = "execute" /\ found[r] # None /\ todo[r] = None
  /\ IF ActualFailures(r) = {}
       THEN ExecuteReturns(r, Ended("success")) /\ UNCHANGED todo
       ELSE /\ todo' = [todo EXCEPT ![r] = ActualFailures(r)]
            /\ UNCHANGED <<stage, handler, result, hooks>>
  /\ UNCHANGED <<display, found, details, lasting, blind>>

\* The unit as systemctl describes it now: it may have recovered, or its
\* status cannot be read.
StateOf(u) ==
  {"unknown"} \cup IF u \in failed THEN {"failed"} ELSE {"active", "inactive"}

\* Mutant of Inspect: each unit's details replace those before.
InspectKeepsLast(r) ==
  /\ stage[r] = "execute" /\ todo[r] # None
  /\ \E u \in todo[r] :
       /\ details' = [details EXCEPT ![r] = {[unit |-> u, active |-> "unknown"]}]
       /\ todo' = [todo EXCEPT ![r] = @ \ {u}]
  /\ UNCHANGED <<runVars, found, lasting, blind>>

\* get_service_status and get_service_logs, unit after unit.
Inspect(r) ==
  /\ stage[r] = "execute" /\ todo[r] # None
  /\ \E u \in todo[r] : \E state \in StateOf(u) :
       /\ details' = [details EXCEPT ![r] = @ \cup {[unit |-> u, active |-> state]}]
       /\ todo' = [todo EXCEPT ![r] = @ \ {u}]
  /\ UNCHANGED <<runVars, found, lasting, blind>>

ReportFailures(r) ==
  /\ todo[r] = {}
  /\ ExecuteReturns(r, Ended("partial"))
  /\ UNCHANGED <<display, serviceVars>>

\* post_execute and rollback are BaseTask's.  A command that times out or is
\* missing raises in any hook.
ServiceHookEnds(r) ==
  /\ \/ PostExecuteReturns(r) \/ RollbackEnds(r)
     \/ \E h \in Hooks : HookRaises(r, h) \/ HookInterrupted(r, h)
  /\ UNCHANGED <<display, serviceVars>>

ServicesStep(r) ==
  \/ PreCheckServices(r) \/ Query(r) \/ Decision(r) \/ Filter(r)
  \/ Inspect(r) \/ ReportFailures(r) \/ ServiceHookEnds(r)

----------------------------------------------------------------------------
(* Properties.                                                             *)

Concluded(r) == stage[r] = "returned" /\ result[r].status # "failure"

Reported(r) == {d.unit : d \in details[r]}

\* A unit that has been failed for the whole run, and that the user's file
\* never forgave, is in the report whatever else failed, recovered or was
\* edited meanwhile: neither query can lose it, and the run is not skipped.
\* Runs with a query that failed are SkipMeansNoFailures' subject.
LastingFailureReported ==
  \A r \in Runs :
    Concluded(r) /\ result[r].skip_reason # "dependency_failed" /\ ~blind[r]
      => lasting[r] \subseteq Reported(r)

\* src/archcare/tasks/failed_services.py, should_run: "The task is skipped
\* only if no actionable failures remain."
SkipMeansNoFailures ==
  \A r \in Runs :
    Concluded(r) /\ result[r].skip_reason = "no_work_needed" => lasting[r] = {}
=============================================================================
