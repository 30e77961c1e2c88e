----------------------------- MODULE TaskHistory -----------------------------
(***************************************************************************)
(* What state.json promises its readers, without processes, files or       *)
(* copies: one record per task, and each attempt updates the record of its *)
(* own task, and of no other, in one step.  The executor                   *)
(* (TaskExecutor) is checked to implement this when invocations do not     *)
(* overlap.                                                                *)
(***************************************************************************)
EXTENDS TaskSchedule

CONSTANTS Tasks,    \* task names
          Freq      \* recurrence of each task, in ticks

VARIABLES now,      \* the clock
          history,  \* the record of each task
          kills     \* how often an invocation was killed

vars == <<now, history, kills>>

TypeOK == /\ now \in Nat
          /\ history \in [Tasks -> TaskStates]
          /\ kills \in Nat

Nothing == [t \in Tasks |-> FreshTask]

Init == now = 0 /\ history = Nothing /\ kills = 0

Tick == /\ now' = now + 1
        /\ UNCHANGED <<history, kills>>

\* An attempt of t that ended with r at time at is on record.
Attempt(t, r, at) ==
  /\ NeverRun(history[t]) \/ history[t].last_run <= at
  /\ history' = [history EXCEPT ![t] = Recorded(@, r, Freq[t], at)]
  /\ UNCHANGED <<now, kills>>

\* A kill costs nothing, or what the documentation says a damaged file
\* costs: "losing only history".
Kill == /\ kills' = kills + 1
        /\ history' \in {history, Nothing}
        /\ UNCHANGED now

Next == \/ Tick
        \/ Kill
        \/ \E t \in Tasks, r \in Outcomes, at \in 0..now : Attempt(t, r, at)

Spec == Init /\ [][Next]_vars

=============================================================================
