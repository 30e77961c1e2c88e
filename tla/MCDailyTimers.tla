---------------------------- MODULE MCDailyTimers ----------------------------
(* Small instances of DailyTimers for TLC.                                 *)
EXTENDS DailyTimers, TLC

CONSTANTS t1, t2, p1, p2

MCFreqDaily == [t \in Tasks |-> DayLength]

TwoOutcomes == {Ended("success"), Ended("failure")}

ProcSymmetry == Permutations(Procs)
=============================================================================
