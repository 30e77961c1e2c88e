------------------------- MODULE MCMaintenanceCheck -------------------------
(* Small instances of MaintenanceCheck for TLC.                            *)
EXTENDS MaintenanceCheck, TLC

CONSTANTS check, auto, manual, p1

\* Every task recurs daily.
MCFreq == [t \in Tasks |-> 1]

TwoOutcomes == {Ended("success"), Ended("failure")}

WithDependency == TwoOutcomes \cup {Skipped("dependency_failed")}
=============================================================================
