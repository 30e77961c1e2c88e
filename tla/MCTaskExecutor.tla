--------------------------- MODULE MCTaskExecutor ---------------------------
(* Small instances of TaskExecutor for TLC.                                *)
EXTENDS TaskExecutor, TLC

CONSTANTS t1, t2, t3, p1, p2

\* t1 recurs every second tick, the others at every tick.
MCFreq == [t \in Tasks |-> IF t = t1 THEN 2 ELSE 1]

\* A skip that counts as a completed cycle and one that does not.
SkipOutcomes == {Skipped("no_work_needed"), Skipped("dependency_failed")}

TwoOutcomes == {Ended("success"), Ended("failure")}

ProcSymmetry == Permutations(Procs)
=============================================================================
