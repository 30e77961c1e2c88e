---------------------------- MODULE MCTaskRuns -----------------------------
(* A small instance of TaskRuns for TLC: one run of each kind, two units.  *)
EXTENDS TaskRuns

\* A usage at each threshold and one above each.
AroundThresholds == {80, 90, 91}
=============================================================================
