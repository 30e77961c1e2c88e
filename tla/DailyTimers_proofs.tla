------------------------- MODULE DailyTimers_proofs -------------------------
(***************************************************************************)
(* Theorems about DailyTimers: for every set of tasks, timers and          *)
(* overlapping invocations, every recurrence and length of the day, an     *)
(* overdue task with a timer is tried again daily.                         *)
(***************************************************************************)
EXTENDS DailyTimers, TaskExecutor_proofs

----------------------------------------------------------------------------
(* What the timers start is the executor.                                  *)

\* Every step of a process is one the executor takes.
LEMMA ExecutorActs ==
  ASSUME NEW p \in Procs, Starts(p) \/ BodyStarts(p) \/ OtherStep(p) \/ BodyEnds(p)
  PROVE  Begin(p) \/ Step(p) \/ Answer(p)
<1>1. CASE Starts(p)
  <2>1. PICK t \in Tasks : TimerFires(p, t) \/ BootStarts(p, t) \/ PersonStarts(p, t)
    BY <1>1 DEF Starts
  <2>2. PICK mode \in Modes, force \in BOOLEAN : Start(p, t, mode, force)
    BY <2>1, TimersInvoke DEF TimerFires, BootStarts, PersonStarts
  <2>3. QED
    BY <2>2 DEF Begin
<1>2. CASE BodyStarts(p) \/ OtherStep(p) \/ BodyEnds(p)
  BY <1>2 DEF BodyStarts, OtherStep, BodyEnds, Step, Answer
<1>3. QED
  BY <1>1, <1>2

\* The executor under its timers is the executor.
LEMMA DailyRefines == DailySpec => Spec
<1>1. DailyInit => Init
  BY DEF DailyInit
<1>2. [DailyNext]_dailyVars => [Next]_vars
  BY ExecutorActs DEF DailyNext, TimerMerges, HoursPass, Next, dailyVars
<1>3. QED
  BY <1>1, <1>2, PTL DEF DailySpec, Spec

\* Each step fires enabled timers only and dates work by the clock.
LEMMA DailyStepType ==
  ASSUME TypeOK, fired \subseteq Timed, worked \in [Tasks -> Nat], [DailyNext]_dailyVars
  PROVE  fired' \subseteq Timed /\ worked' \in [Tasks -> Nat]
<1>1. CASE \E p \in Procs : Starts(p) \/ OtherStep(p) \/ BodyEnds(p)
  BY <1>1 DEF Starts, TimerFires, BootStarts, PersonStarts, OtherStep, BodyEnds
<1>2. CASE \E p \in Procs : BodyStarts(p)
  BY <1>2 DEF BodyStarts, TypeOK
<1>3. CASE (\E t \in Tasks : TimerMerges(t)) \/ HoursPass \/ UNCHANGED dailyVars
  BY <1>3 DEF TimerMerges, HoursPass, dailyVars
<1>4. QED
  BY <1>1, <1>2, <1>3 DEF DailyNext

\* Every reachable state of the executor under its timers is well typed: only
\* enabled timers fire, and work is dated by the clock.
THEOREM DailyTypeCorrect == DailySpec => []DailyTypeOK
<1>1. DailyInit => DailyTypeOK
  <2>1. DailyInit => TypeOK
    BY FreshIsState DEF DailyInit, Init, TypeOK, PCs
  <2>2. QED
    BY <2>1 DEF DailyInit, DailyTypeOK
<1>2. TypeOK /\ TypeOK' /\ DailyTypeOK /\ [DailyNext]_dailyVars => DailyTypeOK'
  BY DailyStepType DEF DailyTypeOK
<1>3. QED
  BY <1>1, <1>2, TypeCorrect, DailyRefines, PTL DEF DailySpec

----------------------------------------------------------------------------
(***************************************************************************)
(* The inductive invariant.  All that overlaps happens within one tick, so *)
(* until a task's body starts in that tick the copies of its record carry  *)
(* no two different due dates: when a timer's run finds its task not due,  *)
(* no other copy is overdue.                                               *)
(***************************************************************************)

\* Every copy of t's record that is overdue on the given tick is answered by
\* work since.
TriedSince(t, tick) ==
  \A s \in Copies(t) : s.next_due # None /\ s.next_due <= tick => worked[t] >= tick

\* t's timer has fired and its run is not yet past the gates.
Coming(p, t) ==
  /\ job[p].task = t /\ job[p].mode = "timer"
  /\ pc[p] \in {"loaded", "due", "create"}

DayStart == DayLength * Today

TriedYesterday == \A t \in Timed : TriedSince(t, DayStart - DayLength)

\* The tasks that are answered today: a boot's run may be the one that the
\* timer finds there.
Handled == fired \cup {t \in Timed : InFlight(t)}

TriedToday ==
  \A t \in Handled : (\E p \in Procs : Coming(p, t)) \/ TriedSince(t, DayStart)

OneDueDate(t) ==
  worked[t] = now \/ \E d : \A s \in Copies(t) : NeverRun(s) \/ s.next_due = d

\* What a process has done or seen.
AtWork(p) ==
  LET t == job[p].task IN
  /\ pc[p] = "idle" => mem[p] = Fresh
  /\ pc[p] = "confirm_due" => ~NeverRun(mem[p][t])
  /\ pc[p] = "running" => worked[t] = now
  /\ pc[p] = "update" =>
       \/ worked[t] = now
       \/ ~NeverRun(mem[p][t]) /\ ~Advances(result[p])
            /\ result[p].skip_reason # "disabled"

DailyInv ==
  /\ \A t \in Tasks : enabled[t]
  /\ \A p \in Procs : AtWork(p)
  /\ \A t \in Tasks : OneDueDate(t)
  /\ TriedYesterday
  /\ TriedToday

----------------------------------------------------------------------------
(* Days.                                                                   *)

\* The day began by now, and a tick begins the next day or none.
LEMMA Days ==
  ASSUME now \in Nat
  PROVE  /\ Today \in Nat /\ DayStart \in Nat /\ DayStart <= now
         /\ now' = now + 1 => Today' \in {Today, Today + 1}
<1> DEFINE n == now
           d == DayLength
<1>1. n \in Nat /\ d \in Nat /\ d > 0
  BY DayAssumption
<1>2. (n \div d) \in Nat /\ d * (n \div d) <= n /\ d * (n \div d) \in Nat
  BY <1>1
<1>3. now' = now + 1 => Today' \in {Today, Today + 1}
  BY <1>1 DEF Today
<1>4. QED
  BY <1>2, <1>3 DEF Today, DayStart

----------------------------------------------------------------------------
(* What one step does to the copies of a record.                           *)

Acts(p) == Starts(p) \/ BodyStarts(p) \/ OtherStep(p) \/ BodyEnds(p)

\* Work never moves to an earlier tick.
LEMMA WorkKept ==
  ASSUME TypeOK, worked \in [Tasks -> Nat], NEW p \in Procs, Acts(p)
  PROVE  /\ UNCHANGED <<now, enabled>>
         /\ \A t \in Tasks : \/ worked'[t] = worked[t]
                             \/ worked'[t] = now
BY DEF TypeOK, Acts, Starts, TimerFires, BootStarts, PersonStarts, BodyStarts, OtherStep,
       BodyEnds, Start, LoadTasks, DueGate, CreateTask, TaskReturns, UpdateState,
       Truncate, SaveDenied, Write, Chown, ConfirmDue, Escape, Move, Decide

\* Except for the update, a step copies records or forgets them.
LEMMA CopiesKept ==
  ASSUME TypeOK, NEW p \in Procs, Acts(p), ~UpdateState(p)
  PROVE  \A t \in Tasks : Copies(t)' \subseteq Copies(t) \cup {FreshTask}
<1> SUFFICES
      /\ fileTasks' = fileTasks \/ fileTasks' = Fresh \/ fileTasks' = mem[p]
      /\ \A q \in Procs : mem'[q] = mem[q] \/ mem'[q] = Fresh \/ mem'[q] = fileTasks
  BY DEF Copies, Fresh
<1>1. CASE Starts(p)
  <2>1. fileTasks' = fileTasks /\ mem' = [mem EXCEPT ![p] = LoadedState]
    BY <1>1 DEF Starts, TimerFires, BootStarts, PersonStarts, Start, file
  <2>2. QED
    BY <2>1 DEF TypeOK, LoadedState
<1>2. CASE \/ BodyStarts(p) \/ BodyEnds(p) \/ LoadTasks(p) \/ DueGate(p) \/ ConfirmDue(p)
  BY <1>2 DEF BodyStarts, BodyEnds, LoadTasks, DueGate, ConfirmDue, CreateTask,
              TaskReturns, Move, Decide, file
<1>3. CASE Escape(p) \/ SaveDenied(p) \/ Chown(p)
  <2>1. Exit(p) /\ fileTasks' = fileTasks
    BY <1>3 DEF Escape, SaveDenied, Chown, file
  <2>2. QED
    BY <2>1, ExitMemory
<1>4. CASE Truncate(p) \/ Write(p)
  BY <1>4 DEF Truncate, Write
<1>5. QED
  BY <1>1, <1>2, <1>3, <1>4 DEF Acts, OtherStep

\* The update dates the one record it writes, and keeps its due date or moves
\* it beyond the present.
LEMMA CopiesUpdated ==
  ASSUME TypeOK, NEW p \in Procs, UpdateState(p), NEW t \in Tasks, NEW s \in Copies(t)'
  PROVE  \/ s \in Copies(t)
         \/ /\ t = job[p].task /\ pc[p] = "update"
            /\ s.last_run = now
            /\ s.next_due = CalculateNextDue(mem[p][t], result[p], Freq[t], now)
<1>1. PICK u \in Tasks : u = job[p].task /\ pc[p] = "update"
  BY DEF UpdateState, Goto, TypeOK, Jobs
<1>2. PICK n : n = Recorded(mem[p][u], result[p], Freq[u], now)
  OBVIOUS
<1>3. mem' = [mem EXCEPT ![p] = [mem[p] EXCEPT ![u] = n]] /\ fileTasks' = fileTasks
  BY <1>1, <1>2 DEF UpdateState, file, TypeOK
<1>4. n.last_run = now /\ n.next_due = CalculateNextDue(mem[p][u], result[p], Freq[u], now)
  BY <1>2 DEF Recorded, UpdateTaskState
<1>5. \A q \in Procs : mem'[q][t] = IF q = p /\ t = u THEN n ELSE mem[q][t]
  BY <1>3 DEF TypeOK
<1>6. QED
  BY <1>1, <1>3, <1>4, <1>5 DEF Copies

\* An answered task stays answered: an update renews no overdue date.
LEMMA TriedKept ==
  ASSUME IInv, worked \in [Tasks -> Nat], NEW p \in Procs, Acts(p),
         NEW t \in Tasks, NEW tick \in Int, tick <= now, TriedSince(t, tick)
  PROVE  TriedSince(t, tick)'
<1>1. TypeOK /\ now \in Nat /\ worked[t] \in Nat /\ Freq[t] \in Nat /\ Freq[t] > 0
  BY FreqAssumption DEF IInv, TypeOK
<1>2. worked'[t] = worked[t] \/ worked'[t] = now
  BY <1>1, WorkKept
<1> SUFFICES ASSUME NEW s \in Copies(t)', s.next_due # None, s.next_due <= tick
             PROVE  worked'[t] >= tick
  BY DEF TriedSince
<1>3. CASE s \in Copies(t)
  BY <1>1, <1>2, <1>3 DEF TriedSince
<1>4. CASE s \notin Copies(t)
  <2>1. UpdateState(p)
    BY <1>1, <1>4, CopiesKept DEF FreshTask
  <2>2. s.next_due = CalculateNextDue(mem[p][t], result[p], Freq[t], now)
    BY <1>1, <1>4, <2>1, CopiesUpdated
  <2>3. s.next_due = mem[p][t].next_due
    BY <1>1, <2>2 DEF CalculateNextDue
  <2>4. mem[p][t] \in Copies(t)
    BY DEF Copies
  <2>5. worked[t] >= tick
    BY <2>3, <2>4 DEF TriedSince
  <2>6. QED
    BY <1>1, <1>2, <2>5
<1>5. QED
  BY <1>3, <1>4

\* Until a body starts, what a run writes back has the due date it read.
LEMMA OneDueDateKept ==
  ASSUME IInv, worked \in [Tasks -> Nat], NEW p \in Procs, Acts(p), AtWork(p),
         NEW t \in Tasks, OneDueDate(t)
  PROVE  OneDueDate(t)'
<1>1. TypeOK
  BY DEF IInv
<1>2. UNCHANGED now /\ (worked'[t] = worked[t] \/ worked'[t] = now)
  BY <1>1, WorkKept
<1>3. CASE worked[t] = now
  BY <1>2, <1>3 DEF OneDueDate
<1>4. CASE worked[t] # now
  <2>1. PICK d : \A s \in Copies(t) : NeverRun(s) \/ s.next_due = d
    BY <1>4 DEF OneDueDate
  <2>2. ASSUME NEW s \in Copies(t)' PROVE NeverRun(s) \/ s.next_due = d
    <3>1. CASE s \in Copies(t)
      BY <2>1, <3>1
    <3>2. CASE ~UpdateState(p)
      BY <1>1, <2>1, <3>2, CopiesKept DEF NeverRun, FreshTask
    <3>3. CASE s \notin Copies(t) /\ UpdateState(p)
      <4>1. /\ t = job[p].task /\ pc[p] = "update"
            /\ s.next_due = CalculateNextDue(mem[p][t], result[p], Freq[t], now)
        BY <1>1, <3>3, CopiesUpdated
      <4>2. ~NeverRun(mem[p][t]) /\ s.next_due = mem[p][t].next_due
        BY <1>4, <4>1 DEF AtWork, CalculateNextDue
      <4>3. mem[p][t] \in Copies(t)
        BY DEF Copies
      <4>4. QED
        BY <2>1, <4>2, <4>3
    <3>4. QED
      BY <3>1, <3>2, <3>3
  <2>3. QED
    BY <2>2 DEF OneDueDate
<1>5. QED
  BY <1>3, <1>4

\* Only the gate skips, and it skips records that have a last run.
LEMMA AtWorkKept ==
  ASSUME IInv, worked \in [Tasks -> Nat], NEW p \in Procs, Acts(p),
         NEW q \in Procs, AtWork(p), AtWork(q)
  PROVE  AtWork(q)'
<1>1. TypeOK
  BY DEF IInv
<1>2. CASE q # p
  <2>1. pc'[q] = pc[q] /\ job'[q] = job[q] /\ mem'[q] = mem[q] /\ result'[q] = result[q]
    BY <1>1, <1>2
       DEF TypeOK, Acts, Starts, TimerFires, BootStarts, PersonStarts, BodyStarts,
           OtherStep, BodyEnds, Start, LoadTasks, DueGate, CreateTask, TaskReturns,
           UpdateState, Truncate, SaveDenied, Write, Chown, ConfirmDue, Escape, Move,
           Decide, Goto, Exit
  <2>2. /\ UNCHANGED now
        /\ job[q].task \in Tasks =>
             \/ worked'[job[q].task] = worked[job[q].task]
             \/ worked'[job[q].task] = now
    BY <1>1, WorkKept
  <2>3. pc[q] # "idle" => job[q].task \in Tasks
    BY <1>1 DEF TypeOK, Jobs
  <2>4. QED
    BY <2>1, <2>2, <2>3 DEF AtWork
<1>3. CASE q = p
  <2>1. CASE Starts(p) \/ LoadTasks(p) \/ UpdateState(p) \/ Truncate(p) \/ Write(p)
    <3>1. pc'[p] \notin {"idle", "confirm_due", "running", "update"}
      BY <1>1, <2>1 DEF Starts, TimerFires, BootStarts, PersonStarts, Start, LoadTasks,
                        UpdateState, Truncate, Write, Move, Goto, TypeOK
    <3>2. QED
      BY <1>3, <3>1 DEF AtWork
  <2>2. CASE BodyStarts(p)
    <3>1. pc'[p] = "running" /\ job[p].task \in Tasks
          /\ worked'[job[p].task] = now /\ UNCHANGED <<now, job>>
      BY <1>1, <2>2 DEF BodyStarts, CreateTask, Move, Goto, TypeOK, Jobs
    <3>2. QED
      BY <1>3, <3>1 DEF AtWork
  <2>3. CASE DueGate(p)
    <3>1. CASE TaskIsDue(p)
      <4>1. pc'[p] = "create"
        BY <1>1, <2>3, <3>1 DEF DueGate, Move, Goto, TypeOK
      <4>2. QED
        BY <1>3, <4>1 DEF AtWork
    <3>2. CASE ~TaskIsDue(p)
      <4>1. ~NeverRun(mem[p][job[p].task]) /\ UNCHANGED <<mem, job>>
        BY <2>3, <3>2 DEF TaskIsDue, IsDue, DueGate, Move, Decide
      <4>2. \/ pc'[p] = "confirm_due"
            \/ pc'[p] = "update" /\ result'[p] = Skipped("not_due")
        BY <1>1, <2>3, <3>2 DEF DueGate, Move, Decide, Goto, TypeOK
      <4>3. ~Advances(Skipped("not_due")) /\ Skipped("not_due").skip_reason # "disabled"
        BY DEF Advances, Skipped
      <4>4. QED
        BY <1>3, <4>1, <4>2, <4>3 DEF AtWork
    <3>3. QED
      BY <3>1, <3>2
  <2>4. CASE ConfirmDue(p)
    <3>1. ~NeverRun(mem[p][job[p].task]) /\ UNCHANGED <<mem, job>>
      BY <2>4 DEF ConfirmDue, Move, Decide, Goto, AtWork
    <3>2. \/ pc'[p] = "create"
          \/ pc'[p] = "update" /\ result'[p] = Skipped("user_cancelled")
      BY <1>1, <2>4 DEF ConfirmDue, Move, Decide, Goto, TypeOK
    <3>3. /\ ~Advances(Skipped("user_cancelled"))
          /\ Skipped("user_cancelled").skip_reason # "disabled"
      BY DEF Advances, Skipped
    <3>4. QED
      BY <1>3, <3>1, <3>2, <3>3 DEF AtWork
  <2>5. CASE BodyEnds(p)
    <3>1. /\ pc[p] = "running" /\ pc'[p] = "update"
          /\ UNCHANGED <<now, job, worked>>
      BY <1>1, <2>5 DEF BodyEnds, TaskReturns, Decide, Goto, TypeOK
    <3>2. QED
      BY <1>3, <3>1 DEF AtWork
  <2>6. CASE Escape(p) \/ SaveDenied(p) \/ Chown(p)
    <3>1. pc'[p] = "idle" /\ mem'[p] = Fresh /\ Fresh' = Fresh
      BY <1>1, <2>6 DEF Escape, SaveDenied, Chown, Exit, TypeOK, Fresh
    <3>2. QED
      BY <1>3, <3>1 DEF AtWork
  <2>7. QED
    BY <2>1, <2>2, <2>3, <2>4, <2>5, <2>6 DEF Acts, OtherStep
<1>4. QED
  BY <1>2, <1>3

\* A timer's run that skips its task has seen the one due date there is, and
\* it is ahead; one that does not skip it comes to the body.
LEMMA GateAnswers ==
  ASSUME IInv, worked \in [Tasks -> Nat], NEW p \in Procs, Acts(p),
         NEW t \in Tasks, enabled[t], OneDueDate(t), Coming(p, t),
         NEW tick \in Int, tick <= now
  PROVE  Coming(p, t)' \/ TriedSince(t, tick)'
<1>1. TypeOK /\ now \in Nat /\ UNCHANGED now
  BY WorkKept DEF IInv, TypeOK
<1>2. LoadTasks(p) \/ DueGate(p) \/ BodyStarts(p)
  BY DEF Coming, Acts, Starts, TimerFires, BootStarts, PersonStarts, OtherStep,
         BodyEnds, Start, TaskReturns, UpdateState, Truncate, SaveDenied, Write,
         Chown, ConfirmDue, Escape, Move, Decide, Goto
<1>3. CASE LoadTasks(p) \/ (DueGate(p) /\ TaskIsDue(p))
  <2>1. pc'[p] \in {"due", "create"} /\ UNCHANGED job
    BY <1>1, <1>3 DEF LoadTasks, DueGate, Move, Goto, TypeOK, Coming
  <2>2. QED
    BY <2>1 DEF Coming
<1>4. CASE DueGate(p) /\ ~TaskIsDue(p)
  <2> DEFINE m == mem[p][t]
  <2>1. m.last_run # None /\ EffectiveDue(m, Freq[t]) > now /\ m \in TaskStates
    <3>1. ~NeverRun(m) /\ ~(EffectiveDue(m, Freq[t]) <= now)
      BY <1>4 DEF TaskIsDue, IsDue, Coming
    <3>2. m \in TaskStates /\ Freq[t] \in Nat
      BY <1>1, FreqAssumption DEF TypeOK
    <3>3. EffectiveDue(m, Freq[t]) \in Nat
      BY <3>1, <3>2 DEF NeverRun, EffectiveDue, TaskStates
    <3>4. QED
      BY <1>1, <3>1, <3>2, <3>3 DEF NeverRun
  <2>2. m \in Copies(t)
    BY DEF Copies
  <2>3. UNCHANGED <<fileTasks, mem, worked>>
    BY <1>4 DEF DueGate, Move, Decide, Goto, Acts, Starts, TimerFires, BootStarts,
       PersonStarts, BodyStarts, OtherStep, BodyEnds, Start, CreateTask, TaskReturns, file, Coming
  <2>4. TriedSince(t, tick)
    <3> SUFFICES ASSUME NEW s \in Copies(t), s.next_due # None, s.next_due <= tick,
                        worked[t] # now
                 PROVE  FALSE
      BY <1>1 DEF TriedSince
    <3>1. s.next_due = m.next_due
      <4>1. ~NeverRun(s)
        BY DEF IInv, SoundFile, SoundMemory, SoundRecord, WithinFrequency, Copies, NeverRun
      <4>2. QED
        BY <2>1, <2>2, <4>1 DEF OneDueDate, NeverRun
    <3>2. m.next_due > now
      BY <2>1, <3>1 DEF EffectiveDue
    <3>3. QED
      BY <1>1, <2>1, <3>1, <3>2 DEF TaskStates
  <2>5. QED
    BY <2>3, <2>4 DEF TriedSince, Copies
<1>5. CASE BodyStarts(p)
  <2>1. worked'[t] = now
    BY <1>5 DEF BodyStarts, Coming
  <2>2. QED
    BY <1>1, <2>1 DEF TriedSince
<1>6. QED
  BY <1>2, <1>3, <1>4, <1>5

\* An unattended run is the timer's or a boot's, or was there before.
LEMMA AnInvocationGoesOn ==
  ASSUME TypeOK, NEW p \in Procs, Acts(p), NEW t, NEW q \in Procs,
         ~TimerFires(p, t), ~BootStarts(p, t),
         pc'[q] # "idle", job'[q].task = t, job'[q].mode = "timer"
  PROVE  pc[q] # "idle" /\ job[q].task = t /\ job[q].mode = "timer"
<1>1. CASE Starts(p)
  <2>1. PICK u \in Tasks : TimerFires(p, u) \/ BootStarts(p, u) \/ PersonStarts(p, u)
    BY <1>1 DEF Starts
  <2>2. PICK mode \in Modes, force \in BOOLEAN :
          Start(p, u, mode, force) /\ (u = t => mode # "timer")
    BY <2>1, TimersInvoke DEF TimerFires, BootStarts, PersonStarts
  <2>3. /\ pc' = [pc EXCEPT ![p] = "loaded"]
        /\ job' = [job EXCEPT ![p] = [task |-> u, mode |-> mode, force |-> force]]
    BY <2>2 DEF Start, Goto
  <2>4. CASE q = p
    <3>1. job'[q].task = u /\ job'[q].mode = mode
      BY <2>3, <2>4 DEF TypeOK
    <3>2. QED
      BY <2>2, <3>1
  <2>5. CASE q # p
    BY <2>3, <2>5 DEF TypeOK
  <2>6. QED
    BY <2>4, <2>5
<1>2. CASE Escape(p) \/ SaveDenied(p) \/ Chown(p)
  BY <1>2 DEF Escape, SaveDenied, Chown, Exit, TypeOK
<1>3. CASE ~Starts(p) /\ ~(Escape(p) \/ SaveDenied(p) \/ Chown(p))
  <2>1. job' = job /\ pc[p] # "idle" /\ \A o \in Procs \ {p} : pc'[o] = pc[o]
    BY <1>3
       DEF TypeOK, Acts, BodyStarts, OtherStep, BodyEnds, LoadTasks, DueGate, CreateTask,
           TaskReturns, UpdateState, Truncate, Write, ConfirmDue, Move, Decide, Goto
  <2>2. QED
    BY <2>1
<1>4. QED
  BY <1>1, <1>2, <1>3

\* A step of a process keeps the answers of today.
LEMMA TodayKept ==
  ASSUME IInv, worked \in [Tasks -> Nat], fired \subseteq Timed, NEW p \in Procs, Acts(p), DailyInv
  PROVE  TriedToday'
<1>1. TypeOK /\ now \in Nat /\ UNCHANGED <<now, enabled>>
  BY WorkKept DEF IInv, TypeOK
<1>2. PICK tick \in Int : tick = DayStart /\ tick <= now /\ tick = DayStart'
  BY <1>1, Days DEF DayStart, Today
<1> SUFFICES ASSUME NEW t \in Handled'
             PROVE  (\E q \in Procs : Coming(q, t)') \/ TriedSince(t, tick)'
  BY <1>2 DEF TriedToday
<1>3. CASE TimerFires(p, t) \/ BootStarts(p, t)
  <2>1. Coming(p, t)'
    BY <1>1, <1>3 DEF TimerFires, BootStarts, Start, Goto, TypeOK, Coming
  <2>2. QED
    BY <2>1
<1>4. CASE ~TimerFires(p, t) /\ ~BootStarts(p, t)
  <2>1. t \in Handled /\ t \in Tasks
    <3>1. CASE t \in fired'
      <4>1. t \in fired
        BY <1>4, <3>1 DEF Acts, Starts, TimerFires, BootStarts, PersonStarts, BodyStarts,
                          OtherStep, BodyEnds
      <4>2. QED
        BY <4>1, TimedAssumption DEF Handled
    <3>2. CASE t \in Timed /\ InFlight(t)'
      <4>1. PICK q \in Procs :
              pc'[q] # "idle" /\ job'[q].task = t /\ job'[q].mode = "timer"
        BY <3>2 DEF InFlight
      <4>2. pc[q] # "idle" /\ job[q].task = t /\ job[q].mode = "timer"
        BY <1>1, <1>4, <4>1, AnInvocationGoesOn
      <4>3. QED
        BY <3>2, <4>2, TimedAssumption DEF Handled, InFlight
    <3>3. QED
      BY <3>1, <3>2 DEF Handled
  <2>2. CASE TriedSince(t, tick)
    BY <1>2, <2>1, <2>2, TriedKept
  <2>3. CASE \E q \in Procs : Coming(q, t)
    <3>1. PICK q \in Procs : Coming(q, t)
      BY <2>3
    <3>2. CASE q = p
      BY <1>2, <2>1, <3>1, <3>2, GateAnswers DEF DailyInv
    <3>3. CASE q # p
      <4>1. pc'[q] = pc[q] /\ job'[q] = job[q]
        BY <1>1, <3>3
           DEF TypeOK, Acts, Starts, TimerFires, BootStarts, PersonStarts, BodyStarts,
               OtherStep, BodyEnds, Start, LoadTasks, DueGate, CreateTask, TaskReturns,
               UpdateState, Truncate, SaveDenied, Write, Chown, ConfirmDue, Escape,
               Move, Decide, Goto, Exit
      <4>2. Coming(q, t)'
        BY <3>1, <4>1 DEF Coming
      <4>3. QED
        BY <4>2
    <3>4. QED
      BY <3>2, <3>3
  <2>4. QED
    BY <1>2, <2>1, <2>2, <2>3 DEF DailyInv, TriedToday
<1>5. QED
  BY <1>3, <1>4

\* No step of a process, in whatever order they overlap, breaks the invariant.
LEMMA ActKeepsDaily ==
  ASSUME IInv, DailyTypeOK, NEW p \in Procs, Acts(p), DailyInv
  PROVE  DailyInv'
<1>1. /\ now \in Nat /\ UNCHANGED <<now, enabled>>
      /\ fired \subseteq Timed /\ worked \in [Tasks -> Nat] /\ TypeOK
  BY WorkKept DEF DailyTypeOK, TypeOK
<1>2. \A q \in Procs : AtWork(q)'
  BY <1>1, AtWorkKept DEF DailyInv
<1>3. \A t \in Tasks : OneDueDate(t)'
  BY <1>1, OneDueDateKept DEF DailyInv
<1>4. TriedYesterday'
  <2>1. DayStart' = DayStart
    BY <1>1 DEF DayStart, Today
  <2>2. DayStart - DayLength \in Int /\ DayStart - DayLength <= now
    BY <1>1, Days, DayAssumption
  <2>3. PICK tick \in Int : tick = DayStart - DayLength /\ tick <= now
    BY <2>2
  <2>4. \A t \in Timed : TriedSince(t, tick)'
    BY <1>1, <2>3, TriedKept, TimedAssumption DEF DailyInv, TriedYesterday
  <2>5. tick = DayStart' - DayLength
    BY <2>1, <2>3
  <2>6. QED
    BY <2>4, <2>5 DEF TriedYesterday
<1>5. TriedToday'
  BY <1>1, TodayKept
<1>6. QED
  BY <1>1, <1>2, <1>3, <1>4, <1>5 DEF DailyInv

\* When the day turns every timer has fired and every run is over, so what
\* was answered today is answered for yesterday.
LEMMA HoursKeepDaily ==
  ASSUME IInv, DailyTypeOK, HoursPass, DailyInv
  PROVE  DailyInv'
<1>1. /\ now \in Nat /\ now' = now + 1
      /\ UNCHANGED <<enabled, fileTasks, pc, job, mem, worked>>
      /\ \A p \in Procs : pc[p] = "idle"
  BY DEF HoursPass, Tick, Quiet, DailyTypeOK, TypeOK, file
<1>2. \A p \in Procs : AtWork(p)'
  BY <1>1 DEF DailyInv, AtWork, Fresh
<1>3. \A t \in Tasks : OneDueDate(t)'
  <2> SUFFICES ASSUME NEW t \in Tasks
               PROVE  \E d : \A s \in Copies(t)' : NeverRun(s) \/ s.next_due = d
    BY DEF OneDueDate
  <2>1. \A p \in Procs : mem[p][t] = FreshTask
    BY <1>1 DEF DailyInv, AtWork, Fresh
  <2>2. \A s \in Copies(t)' : NeverRun(s) \/ s.next_due = fileTasks[t].next_due
    BY <1>1, <2>1 DEF Copies, NeverRun, FreshTask
  <2>3. QED
    BY <2>2
<1>4. \A t, tick : TriedSince(t, tick) => TriedSince(t, tick)'
  BY <1>1 DEF TriedSince, Copies
<1>5. Today \in Nat /\ Today' \in {Today, Today + 1} /\ DayLength \in Nat
  BY <1>1, Days, DayAssumption
<1>6. CASE Today' = Today
  <2>1. DayStart' = DayStart
    BY <1>6 DEF DayStart
  <2>2. fired' = fired
    BY <1>6 DEF HoursPass, Today
  <2>3. TriedYesterday'
    BY <1>4, <2>1 DEF DailyInv, TriedYesterday
  <2>4. \A p, t : Coming(p, t) => Coming(p, t)'
    BY <1>1 DEF Coming
  <2>5. TriedToday'
    BY <1>1, <1>4, <2>1, <2>2, <2>4 DEF DailyInv, TriedToday, Handled, InFlight
  <2>6. QED
    BY <1>1, <1>2, <1>3, <2>3, <2>5 DEF DailyInv
<1>7. CASE Today' # Today
  <2>1. DayStart' - DayLength = DayStart
    <3>1. \A d, n \in Nat : d * (n + 1) - d = d * n
      OBVIOUS
    <3>2. Today' = Today + 1
      BY <1>5, <1>7
    <3>3. QED
      BY <1>5, <3>1, <3>2 DEF DayStart
  <2>2. fired = Timed /\ fired' = {}
    BY <1>7 DEF HoursPass, Today
  <2>3. \A t \in Timed : TriedSince(t, DayStart)
    BY <1>1, <2>2 DEF DailyInv, TriedToday, Handled, Coming
  <2>4. TriedYesterday'
    BY <1>4, <2>1, <2>3 DEF TriedYesterday
  <2>5. TriedToday'
    BY <1>1, <2>2 DEF TriedToday, Handled, InFlight
  <2>6. QED
    BY <1>1, <1>2, <1>3, <2>4, <2>5 DEF DailyInv
<1>8. QED
  BY <1>6, <1>7

\* A timer that finds a run of its task leaves the answer to that run.
LEMMA MergeKeepsDaily ==
  ASSUME DailyInv, NEW t \in Tasks, TimerMerges(t)
  PROVE  DailyInv'
<1>1. UNCHANGED <<now, enabled, fileTasks, pc, job, mem, result, worked>>
  BY DEF TimerMerges, vars, file
<1>2. Handled' = Handled
  <2>1. fired' = fired \cup {t} /\ t \in Timed /\ InFlight(t)
    BY DEF TimerMerges
  <2>2. \A u : InFlight(u)' <=> InFlight(u)
    BY <1>1 DEF InFlight
  <2>3. QED
    BY <2>1, <2>2 DEF Handled
<1>3. \A p \in Procs : AtWork(p)'
  BY <1>1 DEF DailyInv, AtWork, Fresh
<1>4. \A u \in Tasks : OneDueDate(u)'
  BY <1>1 DEF DailyInv, OneDueDate, Copies
<1>5. TriedYesterday' /\ TriedToday'
  BY <1>1, <1>2 DEF DailyInv, TriedYesterday, TriedToday, TriedSince, Coming, DayStart,
                    Today, Copies
<1>6. QED
  BY <1>1, <1>3, <1>4, <1>5 DEF DailyInv

\* The invariant is inductive.
LEMMA DailyInductive == IInv /\ DailyTypeOK /\ DailyInv /\ [DailyNext]_dailyVars => DailyInv'
<1> SUFFICES ASSUME IInv, DailyTypeOK, DailyInv, [DailyNext]_dailyVars PROVE DailyInv'
  OBVIOUS
<1>1. CASE \E p \in Procs : Starts(p) \/ BodyStarts(p) \/ OtherStep(p) \/ BodyEnds(p)
  BY <1>1, ActKeepsDaily DEF Acts
<1>2. CASE HoursPass \/ \E t \in Tasks : TimerMerges(t)
  BY <1>2, HoursKeepDaily, MergeKeepsDaily
<1>3. CASE UNCHANGED dailyVars
  <2>1. UNCHANGED <<now, enabled, fileTasks, pc, job, mem, result, fired, worked>>
    BY <1>3 DEF dailyVars, vars, file
  <2>2. \A p \in Procs : AtWork(p)'
    BY <2>1 DEF DailyInv, AtWork, Fresh
  <2>3. \A t \in Tasks : OneDueDate(t)'
    BY <2>1 DEF DailyInv, OneDueDate, Copies
  <2>4. TriedYesterday' /\ TriedToday'
    BY <2>1 DEF DailyInv, TriedYesterday, TriedToday, TriedSince, Handled, InFlight, Coming,
                DayStart, Today, Copies
  <2>5. QED
    BY <2>1, <2>2, <2>3, <2>4 DEF DailyInv
<1>4. QED
  BY <1>1, <1>2, <1>3 DEF DailyNext

\* At first no record has a due date.
LEMMA DailyInitially == DailyInit => DailyInv
<1> SUFFICES ASSUME DailyInit PROVE DailyInv
  OBVIOUS
<1>1. \A t \in Tasks : \A s \in Copies(t) : s.next_due = None
  <2> SUFFICES ASSUME NEW t \in Tasks, NEW s \in Copies(t) PROVE s.next_due = None
    OBVIOUS
  <2>1. s = FreshTask
    BY DEF DailyInit, Init, Copies, Fresh
  <2>2. QED
    BY <2>1 DEF FreshTask
<1>2. \A p \in Procs : AtWork(p)
  BY DEF DailyInit, Init, AtWork
<1>3. QED
  BY <1>1, <1>2, TimedAssumption
     DEF DailyInit, Init, DailyInv, OneDueDate, TriedYesterday, TriedToday, TriedSince,
         Handled, InFlight

\* Whatever overlaps, fails, is forced or declined: the daily timer tries an
\* overdue task on every day that begins after its due date, since a run that
\* skips it has read a due date that was ahead and writes that date back.
THEOREM OverdueRetried == DailySpec => []OverdueIsRetriedDaily
<1>1. DailyTypeOK /\ DailyInv => OverdueIsRetriedDaily
  <2> SUFFICES ASSUME DailyTypeOK, DailyInv, NEW t \in Timed,
                      LoadedState[t].next_due # None,
                      LoadedState[t].next_due <= DayLength * (Today - 1)
               PROVE  worked[t] >= DayLength * (Today - 1)
    BY DEF OverdueIsRetriedDaily
  <2>1. DayLength * (Today - 1) = DayStart - DayLength
    BY Days, DayAssumption DEF DailyTypeOK, TypeOK, DayStart
  <2>2. LoadedState[t] \in Copies(t)
    BY TimedAssumption DEF LoadedState, Fresh, FreshTask, Copies
  <2>3. QED
    BY <2>1, <2>2 DEF DailyInv, TriedYesterday, TriedSince
<1>2. QED
  BY <1>1, DailyInitially, DailyInductive, DailyTypeCorrect, SchedulesSound, DailyRefines,
     PTL DEF DailySpec

=============================================================================
