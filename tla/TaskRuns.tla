------------------------------ MODULE TaskRuns ------------------------------
(***************************************************************************)
(* The tasks on the template and on the terminal together: a run of        *)
(* BaseTask.run whose hooks are those of one of the tasks.  A run of kind  *)
(* "other" has hooks that may do anything the template allows, for the     *)
(* tasks yet to be written.                                                *)
(***************************************************************************)
EXTENDS HealthCheck, FailedServices

vars == <<displayVars, healthVars, unitVars, serviceVars>>

TypeOK == DisplayTypeOK /\ HealthTypeOK /\ ServicesTypeOK

\* Units only matter to the runs that look at them.
Init ==
  /\ DisplayInit /\ HealthInit /\ ServicesInit
  /\ (\A r \in Runs : kind[r] # "failed-services") =>
       failed = {} /\ ignored = {}

SomeTaskLooks == \E r \in Runs : kind[r] = "failed-services" /\ ~Over(r)

RunStep(r) ==
  /\ \/ Begin(r)
     \/ CleanUp(r)
     \/ UpdateStep(r)
     \/ /\ kind[r] = "other"
        /\ AnyHook(r)
        /\ UNCHANGED <<kind, screenVars>>
  /\ UNCHANGED <<healthVars, unitVars, serviceVars>>

Next ==
  \/ \E r \in Runs :
       \/ RunStep(r)
       \/ HealthStep(r) /\ UNCHANGED <<unitVars, serviceVars>>
       \/ /\ kind[r] = "failed-services"
          /\ ServicesStep(r)
          /\ UNCHANGED <<kind, screenVars, healthVars, unitVars>>
  \/ /\ SomeTaskLooks
     /\ UnitChanges \/ FileEdited
     /\ UNCHANGED <<kind, screenVars, healthVars>>

Spec == Init /\ [][Next]_vars
=============================================================================
