------------------------ MODULE TaskExecutor_proofs ------------------------
(***************************************************************************)
(* Theorems about TaskExecutor for every set of processes and tasks, every *)
(* recurrence and every bound, with the proofs that TLAPS checks.          *)
(***************************************************************************)
EXTENDS TaskExecutor, TLAPS

----------------------------------------------------------------------------
(* Lemmas about the record of one task.                                    *)

\* A fresh record is a record.
LEMMA FreshIsState == FreshTask \in TaskStates /\ Fresh \in [Tasks -> TaskStates]
BY DEF FreshTask, TaskStates, Fresh

\* Writing an attempt into a record yields a record.
LEMMA RecordedIsState ==
  ASSUME NEW s \in TaskStates, NEW r \in Outcomes, NEW d \in Nat, NEW n \in Nat
  PROVE  Recorded(s, r, d, n) \in TaskStates
<1>1. r.status \in Statuses /\ r.skip_reason \in SkipReasons \cup {None}
  BY DEF Outcomes, Ended, Skipped, Statuses, SkipReasons
<1>2. CalculateNextDue(s, r, d, n) \in Nat \cup {None}
  BY DEF CalculateNextDue, TaskStates
<1>3. s.run_count + 1 \in Nat
  BY DEF TaskStates
<1>4. QED
  BY <1>1, <1>2, <1>3 DEF Recorded, UpdateTaskState, TaskStates

\* What a process loads is a map of records.
LEMMA LoadedIsState == TypeOK => LoadedState \in [Tasks -> TaskStates]
BY FreshIsState DEF TypeOK, LoadedState

----------------------------------------------------------------------------
(* Type correctness.                                                       *)

\* A process that is gone leaves a well-typed slot.
LEMMA ExitType ==
  ASSUME TypeOK, NEW p \in Procs, Exit(p)
  PROVE  /\ pc' \in [Procs -> PCs]
         /\ job' \in [Procs -> Jobs \cup {NoJob}]
         /\ \A q \in Procs : pc'[q] # "idle" => job'[q] \in Jobs
         /\ mem' \in [Procs -> [Tasks -> TaskStates]]
         /\ result' \in [Procs -> Outcomes \cup {None}]
         /\ \A q \in Procs : pc'[q] = "update" => result'[q] \in Outcomes
BY FreshIsState DEF TypeOK, Exit, PCs

\* A move between two gates keeps the types.
LEMMA MoveType ==
  ASSUME TypeOK, NEW p \in Procs, NEW from \in PCs \ {"idle"},
         NEW to \in PCs \ {"idle", "update"}, Move(p, from, to)
  PROVE  TypeOK'
BY DEF TypeOK, Move, Goto, PCs, file, budget

\* A decision with an outcome keeps the types.
LEMMA DecideType ==
  ASSUME TypeOK, NEW p \in Procs, NEW from \in PCs \ {"idle"},
         NEW r \in Outcomes, Decide(p, from, r)
  PROVE  TypeOK'
BY DEF TypeOK, Decide, Goto, PCs, file, budget

\* Every skip is an outcome.
LEMMA SkipIsOutcome == \A r \in SkipReasons : Skipped(r) \in Outcomes
BY DEF Outcomes

\* Each step of a process keeps the types.
LEMMA StepType ==
  ASSUME TypeOK, NEW p \in Procs, Begin(p) \/ Step(p) \/ Answer(p) \/ Crash(p)
  PROVE  TypeOK'
<1>1. CASE Begin(p)
  <2>1. PICK t \in Tasks, mode \in Modes, force \in BOOLEAN :
          Start(p, t, mode, force)
    BY <1>1 DEF Begin
  <2>2. LoadedState \in [Tasks -> TaskStates]
    BY LoadedIsState
  <2>3. [task |-> t, mode |-> mode, force |-> force] \in Jobs
    BY DEF Jobs
  <2>4. starts' \in Nat
    BY <2>1 DEF Start, TypeOK
  <2>5. QED
    BY <2>1, <2>2, <2>3, <2>4 DEF Start, TypeOK, Goto, PCs, file
<1>2. CASE LoadTasks(p)
  BY <1>2, MoveType DEF LoadTasks, PCs
<1>3. CASE DisabledGate(p)
  BY <1>3, MoveType, DecideType, SkipIsOutcome DEF DisabledGate, PCs, SkipReasons
<1>4. CASE ConfirmDisabled(p)
  BY <1>4, MoveType, DecideType, SkipIsOutcome DEF ConfirmDisabled, PCs, SkipReasons
<1>5. CASE DueGate(p)
  BY <1>5, MoveType, DecideType, SkipIsOutcome DEF DueGate, PCs, SkipReasons
<1>6. CASE ConfirmDue(p)
  BY <1>6, MoveType, DecideType, SkipIsOutcome DEF ConfirmDue, PCs, SkipReasons
<1>7. CASE CreateTask(p)
  BY <1>7, MoveType DEF CreateTask, PCs
<1>8. CASE UnknownTask(p) \/ NotRegistered(p) \/ Escape(p) \/ SaveDenied(p)
  <2>1. Exit(p) /\ UNCHANGED <<now, enabled, file, advanced, budget>>
    BY <1>8 DEF UnknownTask, NotRegistered, Escape, SaveDenied
  <2>2. QED
    BY <2>1, ExitType DEF TypeOK, file, budget
<1>9. CASE TaskReturns(p)
  BY <1>9, DecideType, BodyAssumption DEF TaskReturns, PCs
<1>10. CASE UpdateState(p)
  <2> DEFINE t == job[p].task
  <2>1. pc[p] = "update" /\ t \in Tasks /\ result[p] \in Outcomes
    BY <1>10 DEF UpdateState, Goto, TypeOK, Jobs
  <2>2. Recorded(mem[p][t], result[p], Freq[t], now) \in TaskStates
    BY <2>1, RecordedIsState, FreqAssumption DEF TypeOK
  <2>3. mem' = [mem EXCEPT ![p][t] = Recorded(mem[p][t], result[p], Freq[t], now)]
    BY <1>10 DEF UpdateState
  <2>4. mem' \in [Procs -> [Tasks -> TaskStates]]
    BY <2>1, <2>2, <2>3 DEF TypeOK
  <2>5. advanced' \in [Tasks -> Nat \cup {None}]
    BY <1>10 DEF UpdateState, TypeOK
  <2>6. QED
    BY <1>10, <2>1, <2>4, <2>5 DEF UpdateState, TypeOK, Goto, PCs, file, budget
<1>11. CASE Truncate(p)
  BY <1>11, FreshIsState DEF Truncate, TypeOK, Goto, PCs, budget
<1>12. CASE Write(p)
  BY <1>12, FreshIsState DEF Write, TypeOK, Goto, PCs, budget
<1>13. CASE Chown(p)
  <2>1. Exit(p) /\ UNCHANGED <<now, enabled, fileKind, fileTasks, advanced, budget>>
        /\ owner' \in {"user", "root"}
    BY <1>13 DEF Chown, TypeOK
  <2>2. QED
    BY <2>1, ExitType DEF TypeOK, budget
<1>14. CASE Crash(p)
  <2>1. Exit(p) /\ UNCHANGED <<now, enabled, file, advanced, starts, edits>>
        /\ crashes' \in Nat
    BY <1>14 DEF Crash, TypeOK
  <2>2. QED
    BY <2>1, ExitType DEF TypeOK, file
<1>15. QED
  BY <1>1, <1>2, <1>3, <1>4, <1>5, <1>6, <1>7, <1>8, <1>9, <1>10, <1>11,
     <1>12, <1>13, <1>14 DEF Step, Answer

\* Each step keeps the types.
LEMMA NextType == TypeOK /\ [Next]_vars => TypeOK'
<1> SUFFICES ASSUME TypeOK, [Next]_vars PROVE TypeOK'
  OBVIOUS
<1>1. CASE \E p \in Procs : Begin(p) \/ Step(p) \/ Answer(p) \/ Crash(p)
  BY <1>1, StepType
<1>2. CASE \E t \in Tasks : Toggle(t)
  BY <1>2 DEF Toggle, TypeOK, file
<1>3. CASE Tick
  BY <1>3 DEF Tick, TypeOK, file, budget
<1>4. CASE UNCHANGED vars
  BY <1>4 DEF vars, TypeOK, file, budget
<1>5. QED
  BY <1>1, <1>2, <1>3, <1>4 DEF Next

\* Every reachable state is well typed: in particular no step leaves a
\* process with a result that is not one of the outcomes, or a record that
\* state.json could not hold.
THEOREM TypeCorrect == Spec => []TypeOK
<1>1. Init => TypeOK
  BY FreshIsState DEF Init, TypeOK, PCs
<1>2. QED
  BY <1>1, NextType, PTL DEF Spec

----------------------------------------------------------------------------
(***************************************************************************)
(* The schedule.  Neither NextDueWithinFrequency nor ScheduleBackedByWork  *)
(* is inductive: a kept due date is compared with a last_run and a         *)
(* completion that move to the present, so both need every record, on disk *)
(* and in the memory of every process, to lie in the past.                 *)
(***************************************************************************)
SoundRecord(t, s) ==
  /\ s.last_run # None => s.last_run <= now
  /\ WithinFrequency(t, s)
  /\ BackedByWork(t, s)

SoundFile == \A t \in Tasks : SoundRecord(t, fileTasks[t])

SoundMemory == \A p \in Procs, t \in Tasks : SoundRecord(t, mem[p][t])

SoundClock == \A t \in Tasks : advanced[t] # None => advanced[t] <= now

IInv == TypeOK /\ SoundClock /\ SoundFile /\ SoundMemory

\* A task that never ran has a sound record, whatever the clock says.
LEMMA FreshIsSound ==
  \A t \in Tasks : SoundRecord(t, Fresh[t]) /\ SoundRecord(t, Fresh[t])'
BY DEF SoundRecord, WithinFrequency, BackedByWork, Fresh, FreshTask

\* A record stays sound while the clock does not run backwards and the last
\* completion of its task moves forward only.
LEMMA SoundnessKept ==
  ASSUME TypeOK, TypeOK', SoundClock, NEW t \in Tasks, NEW s \in TaskStates,
         SoundRecord(t, s),
         now <= now',
         advanced'[t] = advanced[t] \/ (advanced'[t] # None /\ advanced'[t] >= now)
  PROVE  SoundRecord(t, s)'
<1>1. s.last_run \in Nat \cup {None} /\ s.next_due \in Nat \cup {None}
  BY DEF TaskStates
<1>2. Freq[t] \in Nat /\ now \in Nat /\ now' \in Nat
  BY FreqAssumption DEF TypeOK
<1>3. advanced[t] \in Nat \cup {None} /\ advanced'[t] \in Nat \cup {None}
  BY DEF TypeOK
<1>4. CASE s.next_due = None
  BY <1>1, <1>2, <1>4 DEF SoundRecord, WithinFrequency, BackedByWork
<1>5. CASE s.next_due # None
  BY <1>1, <1>2, <1>3, <1>5, NoneAssumption
     DEF SoundRecord, WithinFrequency, BackedByWork, SoundClock
<1>6. QED
  BY <1>4, <1>5

\* Steps that leave the clock and the completions alone, and put into the
\* file and into memory only what was there or a fresh state, keep IInv.
LEMMA QuietStep ==
  ASSUME IInv, TypeOK', UNCHANGED <<now, advanced>>,
         fileTasks' = fileTasks \/ fileTasks' = Fresh
           \/ (\E p \in Procs : fileTasks' = mem[p]),
         \A p \in Procs : \/ mem'[p] = mem[p]
                          \/ mem'[p] = Fresh
                          \/ mem'[p] = fileTasks
  PROVE  IInv'
<1>1. SoundClock'
  BY DEF IInv, SoundClock
<1>2. \A t, s : SoundRecord(t, s) => SoundRecord(t, s)'
  BY DEF SoundRecord, WithinFrequency, BackedByWork
<1>3. SoundFile'
  BY <1>2, FreshIsSound DEF IInv, SoundFile, SoundMemory
<1>4. SoundMemory'
  BY <1>2, FreshIsSound DEF IInv, SoundFile, SoundMemory
<1>5. QED
  BY <1>1, <1>3, <1>4 DEF IInv

\* An exit clears the process's own copy only.
LEMMA ExitMemory ==
  ASSUME TypeOK, NEW p \in Procs, Exit(p)
  PROVE  \A q \in Procs : mem'[q] = mem[q] \/ mem'[q] = Fresh
BY DEF TypeOK, Exit

\* Writing an attempt into a sound record gives a sound record.
LEMMA UpdateKeeps ==
  ASSUME IInv, TypeOK', NEW p \in Procs, UpdateState(p)
  PROVE  IInv'
<1>1. PICK t \in Tasks : t = job[p].task /\ pc[p] = "update" /\ result[p] \in Outcomes
  BY DEF UpdateState, Goto, IInv, TypeOK, Jobs
<1>2. PICK s \in TaskStates : s = mem[p][t]
  BY DEF IInv, TypeOK
<1>3. PICK n \in TaskStates : n = Recorded(s, result[p], Freq[t], now)
  BY <1>1, RecordedIsState, FreqAssumption DEF IInv, TypeOK
<1>4. now \in Nat /\ now' = now /\ Freq[t] \in Nat /\ Freq[t] > 0
  BY <1>1, FreqAssumption DEF UpdateState, IInv, TypeOK
<1>5. advanced' = IF Advances(result[p]) THEN [advanced EXCEPT ![t] = now]
                  ELSE advanced
  BY <1>1 DEF UpdateState
<1>6. \A u \in Tasks : \/ advanced'[u] = advanced[u]
                       \/ advanced'[u] = now /\ now # None
  BY <1>4, <1>5, NoneAssumption DEF IInv, TypeOK
<1>7. SoundClock'
  BY <1>4, <1>6 DEF IInv, SoundClock
<1>8. \A u \in Tasks, x \in TaskStates : SoundRecord(u, x) => SoundRecord(u, x)'
  <2> SUFFICES ASSUME NEW u \in Tasks, NEW x \in TaskStates, SoundRecord(u, x)
               PROVE  SoundRecord(u, x)'
    OBVIOUS
  <2>1. now <= now'
    BY <1>4
  <2>2. advanced'[u] = advanced[u] \/ (advanced'[u] # None /\ advanced'[u] >= now)
    BY <1>4, <1>6
  <2>3. QED
    BY <2>1, <2>2, SoundnessKept DEF IInv
<1>9. SoundRecord(t, n)'
  <2>1. n.last_run = now /\ n.next_due = CalculateNextDue(s, result[p], Freq[t], now)
    BY <1>3 DEF Recorded, UpdateTaskState
  <2>2. SoundRecord(t, s)'
    <3>1. SoundRecord(t, s)
      BY <1>2 DEF IInv, SoundMemory
    <3>2. QED
      BY <1>8, <3>1
  <2>3. CASE Advances(result[p])
    <3>1. n.next_due = now + Freq[t] /\ advanced'[t] = now
      BY <1>1, <1>5, <2>1, <2>3 DEF CalculateNextDue, IInv, TypeOK
    <3>2. QED
      BY <1>4, <2>1, <3>1, NoneAssumption DEF SoundRecord, WithinFrequency, BackedByWork
  <2>4. CASE n.next_due = None
    BY <1>4, <2>1, <2>4 DEF SoundRecord, WithinFrequency, BackedByWork
  <2>5. CASE n.next_due = s.next_due /\ s.next_due # None
    <3>1. s.next_due \in Nat /\ s.last_run \in Nat \cup {None}
      BY <1>1, <2>5 DEF TaskStates
    <3>2. n.next_due <= now + Freq[t]
      BY <1>4, <2>2, <2>5, <3>1 DEF SoundRecord, WithinFrequency
    <3>3. QED
      BY <1>4, <2>1, <2>2, <2>5, <3>2, NoneAssumption
         DEF SoundRecord, WithinFrequency, BackedByWork
  <2>6. QED
    BY <2>1, <2>3, <2>4, <2>5 DEF CalculateNextDue
<1>10. \A q \in Procs, u \in Tasks :
        mem'[q][u] = IF q = p /\ u = t THEN n ELSE mem[q][u]
  <2>1. mem' = [mem EXCEPT ![p] = [mem[p] EXCEPT ![t] = n]]
    BY <1>1, <1>2, <1>3 DEF UpdateState, IInv, TypeOK
  <2>2. QED
    BY <2>1 DEF IInv, TypeOK
<1>11. SoundMemory'
  <2> SUFFICES ASSUME NEW q \in Procs, NEW u \in Tasks
               PROVE  SoundRecord(u, mem[q][u])'
    BY DEF SoundMemory
  <2>1. PICK x \in TaskStates : x = mem'[q][u]
    BY DEF TypeOK
  <2>2. SoundRecord(u, x)'
    <3>1. CASE q = p /\ u = t
      BY <1>9, <1>10, <2>1, <3>1
    <3>2. CASE ~(q = p /\ u = t)
      <4>1. SoundRecord(u, x)
        BY <1>10, <2>1, <3>2 DEF IInv, SoundMemory
      <4>2. QED
        BY <1>8, <4>1
    <3>3. QED
      BY <3>1, <3>2
  <2>3. QED
    BY <2>1, <2>2
<1>12. SoundFile'
  <2>1. fileTasks' = fileTasks
    BY DEF UpdateState, file
  <2>2. QED
    BY <1>8, <2>1 DEF IInv, SoundFile, TypeOK
<1>13. QED
  BY <1>7, <1>11, <1>12 DEF IInv

\* Each step of a process keeps every record sound.
LEMMA StepKeeps ==
  ASSUME IInv, TypeOK', NEW p \in Procs, Begin(p) \/ Step(p) \/ Answer(p) \/ Crash(p)
  PROVE  IInv'
<1>1. TypeOK
  BY DEF IInv
<1>2. CASE Begin(p)
  <2>1. UNCHANGED <<now, advanced, fileTasks>>
    BY <1>2 DEF Begin, Start, file
  <2>2. \A q \in Procs : mem'[q] = mem[q] \/ mem'[q] = fileTasks \/ mem'[q] = Fresh
    BY <1>1, <1>2 DEF Begin, Start, LoadedState, TypeOK
  <2>3. QED
    BY <2>1, <2>2, QuietStep
<1>3. CASE LoadTasks(p) \/ DisabledGate(p) \/ DueGate(p) \/ CreateTask(p)
             \/ TaskReturns(p) \/ ConfirmDisabled(p) \/ ConfirmDue(p)
  <2>1. UNCHANGED <<now, advanced, fileTasks, mem>>
    BY <1>3 DEF LoadTasks, DisabledGate, DueGate, CreateTask, TaskReturns,
                ConfirmDisabled, ConfirmDue, Move, Decide, file
  <2>2. QED
    BY <2>1, QuietStep
<1>4. CASE UnknownTask(p) \/ NotRegistered(p) \/ Escape(p) \/ SaveDenied(p) \/ Chown(p) \/ Crash(p)
  <2>1. Exit(p) /\ UNCHANGED <<now, advanced, fileTasks>>
    BY <1>4 DEF UnknownTask, NotRegistered, Escape, SaveDenied, Chown, Crash, file
  <2>2. QED
    BY <1>1, <2>1, ExitMemory, QuietStep
<1>5. CASE UpdateState(p)
  BY <1>5, UpdateKeeps
<1>6. CASE Truncate(p)
  <2>1. UNCHANGED <<now, advanced, mem>> /\ fileTasks' = Fresh
    BY <1>6 DEF Truncate
  <2>2. QED
    BY <2>1, QuietStep
<1>7. CASE Write(p)
  <2>1. UNCHANGED <<now, advanced, mem>> /\ fileTasks' \in {mem[p], Fresh}
    BY <1>7 DEF Write
  <2>2. QED
    BY <2>1, QuietStep
<1>8. QED
  BY <1>2, <1>3, <1>4, <1>5, <1>6, <1>7 DEF Step, Answer

\* Time passes: records of the past stay in the past.
LEMMA TickKeeps ==
  ASSUME IInv, TypeOK', Tick
  PROVE  IInv'
<1>1. now \in Nat /\ now' = now + 1 /\ UNCHANGED <<fileTasks, mem, advanced>>
  BY DEF Tick, IInv, TypeOK, file
<1>2. \A t \in Tasks, s \in TaskStates : SoundRecord(t, s) => SoundRecord(t, s)'
  BY <1>1, SoundnessKept DEF IInv
<1>3. SoundClock'
  BY <1>1, NoneAssumption DEF IInv, TypeOK, SoundClock
<1>4. SoundFile'
  BY <1>1, <1>2 DEF IInv, SoundFile, TypeOK
<1>5. SoundMemory'
  BY <1>1, <1>2 DEF IInv, SoundMemory, TypeOK
<1>6. QED
  BY <1>3, <1>4, <1>5 DEF IInv

\* The invariant is inductive.
LEMMA InvariantInductive == IInv /\ [Next]_vars => IInv'
<1> SUFFICES ASSUME IInv, [Next]_vars PROVE IInv'
  OBVIOUS
<1>1. TypeOK'
  BY NextType DEF IInv
<1>2. CASE \E p \in Procs : Begin(p) \/ Step(p) \/ Answer(p) \/ Crash(p)
  BY <1>1, <1>2, StepKeeps
<1>3. CASE \E t \in Tasks : Toggle(t)
  <2>1. UNCHANGED <<now, advanced, fileTasks, mem>>
    BY <1>3 DEF Toggle, file
  <2>2. QED
    BY <1>1, <2>1, QuietStep
<1>4. CASE Tick
  BY <1>1, <1>4, TickKeeps
<1>5. CASE UNCHANGED vars
  <2>1. UNCHANGED <<now, advanced, fileTasks, mem>>
    BY <1>5 DEF vars, file
  <2>2. QED
    BY <1>1, <2>1, QuietStep
<1>6. QED
  BY <1>2, <1>3, <1>4, <1>5 DEF Next

\* The inductive invariant holds in every reachable state.
THEOREM SchedulesSound == Spec => []IInv
<1>1. Init => IInv
  <2> SUFFICES ASSUME Init PROVE IInv
    OBVIOUS
  <2>1. TypeOK
    BY FreshIsState DEF Init, TypeOK, PCs
  <2>2. SoundClock
    BY DEF Init, SoundClock
  <2>3. SoundFile /\ SoundMemory
    BY FreshIsSound DEF Init, SoundFile, SoundMemory
  <2>4. QED
    BY <2>1, <2>2, <2>3 DEF IInv
<1>2. QED
  BY <1>1, InvariantInductive, PTL DEF Spec

\* However many invocations overlap, crash or overwrite the state file, no
\* due date on record is further away than one recurrence after the last
\* attempt (_calculate_next_due keeps or renews it, and never slides it).
THEOREM DueWithinFrequency == Spec => []NextDueWithinFrequency
<1>1. IInv => NextDueWithinFrequency
  BY DEF IInv, SoundFile, SoundMemory, SoundRecord, NextDueWithinFrequency, Copies
<1>2. QED
  BY <1>1, SchedulesSound, PTL

\* No interleaving of saves makes a task look serviced: a due date on record
\* was earned by a completed cycle of that very task.
THEOREM DueDatesEarned == Spec => []ScheduleBackedByWork
<1>1. IInv => ScheduleBackedByWork
  BY DEF IInv, SoundFile, SoundMemory, SoundRecord, ScheduleBackedByWork, Copies
<1>2. QED
  BY <1>1, SchedulesSound, PTL

----------------------------------------------------------------------------
(* Whose file it is.  Inductive as it stands, for well-typed states.       *)

\* A root process without ARCHCARE_USER is a person's sudo.
LEMMA RootIsTimer ==
  ASSUME "sudo" \notin Modes, TypeOK, NEW p \in Procs, pc[p] # "idle", IsRoot(p)
  PROVE  ~Interactive(p)
BY DEF TypeOK, Jobs, IsRoot, Interactive

\* What another process does leaves a hand-over in flight.
LEMMA HandOverContinues ==
  ASSUME TypeOK, NEW p \in Procs, Begin(p) \/ Step(p) \/ Answer(p) \/ Crash(p),
         NEW q \in Procs, q # p, IsRoot(q) /\ pc[q] \in {"write", "chown"}
  PROVE  (IsRoot(q) /\ pc[q] \in {"write", "chown"})'
BY DEF TypeOK, IsRoot, Begin, Start, Step, LoadTasks, DisabledGate, DueGate, CreateTask,
       UnknownTask, NotRegistered, TaskReturns, UpdateState, Truncate, SaveDenied, Write, Chown,
       Answer, ConfirmDisabled, ConfirmDue, Escape, Crash, Move, Decide, Goto, Exit

\* Each step of a process keeps OwnershipReturned.
LEMMA OwnershipStep ==
  ASSUME "sudo" \notin Modes, TypeOK, OwnershipReturned,
         NEW p \in Procs, Begin(p) \/ Step(p) \/ Answer(p) \/ Crash(p)
  PROVE  OwnershipReturned'
<1> DEFINE Holds(q) == IsRoot(q) /\ pc[q] \in {"write", "chown"}
<1> SUFFICES ASSUME owner' = "root", crashes' = 0
             PROVE  \E q \in Procs : Holds(q)'
  BY DEF OwnershipReturned
<1>1. CASE Truncate(p) /\ owner # "root"
  <2>1. pc'[p] = "write" /\ UNCHANGED job /\ IsRoot(p)
    BY <1>1 DEF Truncate, Goto, TypeOK
  <2>2. Holds(p)'
    BY <2>1 DEF IsRoot
  <2>3. QED
    BY <2>2
<1>2. CASE owner = "root"
  <2>1. crashes = 0
    BY DEF TypeOK, Begin, Start, Step, LoadTasks, DisabledGate, DueGate, CreateTask,
           UnknownTask, NotRegistered, TaskReturns, UpdateState, Truncate, SaveDenied, Write, Chown,
           Answer, ConfirmDisabled, ConfirmDue, Escape, Crash, Move, Decide, budget
  <2>2. PICK q \in Procs : Holds(q)
    BY <1>2, <2>1 DEF OwnershipReturned
  <2>3. CASE q # p
    <3>1. Holds(q)'
      BY <2>2, <2>3, HandOverContinues
    <3>2. QED
      BY <3>1
  <2>4. CASE q = p /\ pc[p] = "write"
    <3>1. Write(p)
      <4>1. ~Crash(p)
        BY <2>1 DEF Crash, TypeOK
      <4>2. QED
        BY <2>4, <4>1
           DEF Begin, Start, Step, LoadTasks, DisabledGate, DueGate, CreateTask,
               UnknownTask, NotRegistered, TaskReturns, UpdateState, Truncate, SaveDenied, Chown,
               Answer, ConfirmDisabled, ConfirmDue, Escape, Move, Decide, Goto
    <3>2. Holds(p)'
      BY <2>2, <2>4, <3>1 DEF Write, Goto, TypeOK, IsRoot
    <3>3. QED
      BY <3>2
  <2>5. CASE q = p /\ pc[p] = "chown"
    <3>1. Chown(p)
      <4>1. ~Crash(p)
        BY <2>1 DEF Crash, TypeOK
      <4>2. QED
        BY <2>5, <4>1
           DEF Begin, Start, Step, LoadTasks, DisabledGate, DueGate, CreateTask,
               UnknownTask, NotRegistered, TaskReturns, UpdateState, Truncate, SaveDenied, Write,
               Answer, ConfirmDisabled, ConfirmDue, Escape, Move, Decide, Goto
    <3>2. ~Interactive(p)
      BY <2>2, <2>5, RootIsTimer
    <3>3. QED
      BY <2>2, <2>5, <3>1, <3>2 DEF Chown
  <2>6. QED
    BY <2>2, <2>3, <2>4, <2>5
<1>3. QED
  <2>1. Truncate(p) \/ Chown(p) \/ UNCHANGED owner
    BY DEF Begin, Start, Step, LoadTasks, DisabledGate, DueGate, CreateTask,
           UnknownTask, NotRegistered, TaskReturns, UpdateState, SaveDenied, Write, Answer,
           ConfirmDisabled, ConfirmDue, Escape, Crash, Move, Decide, file
  <2>2. QED
    BY <1>1, <1>2, <2>1 DEF Chown

\* OwnershipReturned is inductive for well-typed states.
LEMMA OwnershipKept ==
  ASSUME "sudo" \notin Modes, TypeOK, OwnershipReturned, [Next]_vars
  PROVE  OwnershipReturned'
<1>1. CASE \E p \in Procs : Begin(p) \/ Step(p) \/ Answer(p) \/ Crash(p)
  BY <1>1, OwnershipStep
<1>2. CASE (\E t \in Tasks : Toggle(t)) \/ Tick \/ UNCHANGED vars
  <2>1. UNCHANGED <<owner, pc, job, crashes>>
    BY <1>2 DEF Toggle, Tick, vars, file, budget
  <2>2. QED
    BY <2>1 DEF OwnershipReturned, IsRoot
<1>3. QED
  BY <1>1, <1>2 DEF Next

\* At first there is no file that root could own.
LEMMA OwnedInitially == Init => OwnershipReturned
BY DEF Init, OwnershipReturned

\* Where nobody runs a task under sudo by hand, root owns the user's state
\* file only while the timer's run that made it has its chown still ahead:
\* however many runs overlap, chown_if_root comes after every creation.
THEOREM FileComesBack ==
  ASSUME "sudo" \notin Modes
  PROVE  Spec => []OwnershipReturned
<1>1. TypeOK /\ OwnershipReturned /\ [Next]_vars => OwnershipReturned'
  BY OwnershipKept
<1>2. QED
  BY <1>1, OwnedInitially, TypeCorrect, PTL DEF Spec

----------------------------------------------------------------------------
(* Prompts: the safety half of UnattendedRunsFinish.                       *)

Unasked == \A p \in Procs : ~Interactive(p) => pc[p] \notin {"confirm_disabled", "confirm_due"}

\* A step of one process brings no timer's run to a prompt.
LEMMA UnaskedStep ==
  ASSUME TypeOK, Unasked, NEW p \in Procs, Begin(p) \/ Step(p) \/ Answer(p) \/ Crash(p)
  PROVE  Unasked'
<1>1. \A q \in Procs \ {p} : pc'[q] = pc[q] /\ job'[q] = job[q]
  BY DEF TypeOK, Begin, Start, Step, LoadTasks, DisabledGate, DueGate, CreateTask,
         UnknownTask, NotRegistered, TaskReturns, UpdateState, Truncate, SaveDenied, Write, Chown,
         Answer, ConfirmDisabled, ConfirmDue, Escape, Crash, Move, Decide, Goto, Exit
<1>2. pc'[p] \in {"confirm_disabled", "confirm_due"} => Interactive(p) /\ job' = job
  BY DEF TypeOK, Begin, Start, Step, LoadTasks, DisabledGate, DueGate, CreateTask,
         UnknownTask, NotRegistered, TaskReturns, UpdateState, Truncate, SaveDenied, Write, Chown,
         Answer, ConfirmDisabled, ConfirmDue, Escape, Crash, Move, Decide, Goto, Exit
<1>3. QED
  BY <1>1, <1>2 DEF Unasked, Interactive

\* No run of a timer ever waits for an answer, however its task is disabled,
\* edited or not due: _handle_disabled_task and _handle_due_task ask people
\* only.
THEOREM TimersAreNeverAsked == Spec => []Unasked
<1>1. Init => Unasked
  BY DEF Init, Unasked
<1>2. TypeOK /\ Unasked /\ [Next]_vars => Unasked'
  <2> SUFFICES ASSUME TypeOK, Unasked, [Next]_vars PROVE Unasked'
    OBVIOUS
  <2>1. CASE \E p \in Procs : Begin(p) \/ Step(p) \/ Answer(p) \/ Crash(p)
    BY <2>1, UnaskedStep
  <2>2. CASE (\E t \in Tasks : Toggle(t)) \/ Tick \/ UNCHANGED vars
    BY <2>2 DEF Toggle, Tick, vars, Unasked, Interactive
  <2>3. QED
    BY <2>1, <2>2 DEF Next
<1>3. QED
  BY <1>1, <1>2, TypeCorrect, PTL DEF Spec

----------------------------------------------------------------------------
(***************************************************************************)
(* A machine on which invocations do not overlap: there is no more than    *)
(* one slot for them.  A save then leaves the file whole, state.json       *)
(* implements the abstract history, and timers wait.                       *)
(***************************************************************************)
OneAtATime == \A p, q \in Procs : p = q

----------------------------------------------------------------------------
(***************************************************************************)
(* The inductive invariant.  Up to its update an invocation holds what the *)
(* file says, from then on it is ahead by one attempt, and from the        *)
(* truncation on nobody but it has touched the file.                       *)
(***************************************************************************)

\* mem[p] is the file with one more attempt of p's task in it.
OneAhead(p) ==
  LET t == job[p].task
      s == LoadedState[t] IN
  \E r \in Outcomes, at \in 0..now :
    /\ NeverRun(s) \/ s.last_run <= at
    /\ mem[p] = [LoadedState EXCEPT ![t] = Recorded(s, r, Freq[t], at)]

Before == PCs \ {"idle", "save", "write", "chown"}

InStep(p) ==
  /\ pc[p] \in Before => mem[p] = LoadedState
  /\ pc[p] = "save"   => OneAhead(p)
  /\ pc[p] = "write"  => fileKind = "empty"
  /\ pc[p] = "chown"  => fileKind = "whole" /\ fileTasks = mem[p]

SerialInv == \A p \in Procs : InStep(p)

----------------------------------------------------------------------------

\* While nobody saves, loading yields the same state before and after.
LEMMA LoadingRepeats == UNCHANGED file => UNCHANGED LoadedState
BY DEF file, LoadedState

\* A move to any step before the save takes the loaded state along.
LEMMA MoveInStep ==
  ASSUME TypeOK, NEW p \in Procs, InStep(p), pc[p] \in Before, pc'[p] \in Before,
         UNCHANGED <<file, mem>>
  PROVE  InStep(p)'
BY LoadingRepeats DEF InStep, Before

\* A process that is gone owes nothing.
LEMMA ExitInStep ==
  ASSUME TypeOK, NEW p \in Procs, Exit(p)
  PROVE  InStep(p)'
<1>1. pc'[p] = "idle"
  BY DEF TypeOK, Exit
<1>2. QED
  BY <1>1 DEF InStep, Before

\* The update puts the process ahead of the file by one attempt.
LEMMA UpdateInStep ==
  ASSUME IInv, NEW p \in Procs, InStep(p), UpdateState(p)
  PROVE  InStep(p)'
<1> DEFINE t == job[p].task
           s == LoadedState[t]
<1>1. /\ pc[p] = "update" /\ pc'[p] = "save"
      /\ t \in Tasks /\ result[p] \in Outcomes
      /\ UNCHANGED <<now, file, job>>
  BY DEF UpdateState, Goto, IInv, TypeOK, Jobs
<1>2. mem[p] = LoadedState
  BY <1>1 DEF InStep, Before, PCs
<1>3. mem'[p] = [LoadedState EXCEPT ![t] = Recorded(s, result[p], Freq[t], now)]
  BY <1>2 DEF UpdateState, IInv, TypeOK
<1>4. now \in 0..now
  BY DEF IInv, TypeOK
<1>5. NeverRun(s) \/ s.last_run <= now
  BY <1>1, <1>2 DEF IInv, SoundMemory, SoundRecord, NeverRun
<1>6. UNCHANGED LoadedState
  BY <1>1, LoadingRepeats
<1>7. OneAhead(p)'
  BY <1>1, <1>3, <1>4, <1>5, <1>6 DEF OneAhead
<1>8. QED
  BY <1>1, <1>7 DEF InStep, Before

\* Each step of the only process keeps it in step with the file.
LEMMA StepInStep ==
  ASSUME IInv, NEW p \in Procs, InStep(p), Begin(p) \/ Step(p) \/ Answer(p) \/ Crash(p)
  PROVE  InStep(p)'
<1>1. TypeOK
  BY DEF IInv
<1>2. CASE Begin(p)
  <2>1. pc'[p] = "loaded" /\ mem'[p] = LoadedState /\ UNCHANGED file
    BY <1>1, <1>2 DEF Begin, Start, Goto, TypeOK
  <2>2. QED
    BY <2>1, LoadingRepeats DEF InStep, Before
<1>3. CASE LoadTasks(p) \/ DisabledGate(p) \/ DueGate(p) \/ CreateTask(p)
             \/ TaskReturns(p) \/ ConfirmDisabled(p) \/ ConfirmDue(p)
  <2>1. pc[p] \in Before /\ pc'[p] \in Before /\ UNCHANGED <<file, mem>>
    BY <1>1, <1>3 DEF LoadTasks, DisabledGate, DueGate, CreateTask, TaskReturns,
       ConfirmDisabled, ConfirmDue, Move, Decide, Goto, TypeOK, Before, PCs
  <2>2. QED
    BY <1>1, <2>1, MoveInStep
<1>4. CASE UnknownTask(p) \/ NotRegistered(p) \/ Escape(p) \/ SaveDenied(p) \/ Chown(p) \/ Crash(p)
  <2>1. Exit(p)
    BY <1>4 DEF UnknownTask, NotRegistered, Escape, SaveDenied, Chown, Crash
  <2>2. QED
    BY <1>1, <2>1, ExitInStep
<1>5. CASE UpdateState(p)
  BY <1>5, UpdateInStep
<1>6. CASE Truncate(p)
  <2>1. pc'[p] = "write" /\ fileKind' = "empty"
    BY <1>1, <1>6 DEF Truncate, Goto, TypeOK
  <2>2. QED
    BY <2>1 DEF InStep, Before
<1>7. CASE Write(p)
  <2>1. pc[p] = "write" /\ pc'[p] = "chown" /\ UNCHANGED mem
    BY <1>1, <1>7 DEF Write, Goto, TypeOK
  <2>2. fileKind' = "whole" /\ fileTasks' = mem[p]
    BY <1>7, <2>1 DEF Write, InStep
  <2>3. QED
    BY <2>1, <2>2 DEF InStep, Before
<1>8. QED
  BY <1>2, <1>3, <1>4, <1>5, <1>6, <1>7 DEF Step, Answer

\* Time and edits of tasks.toml leave every process in step.
LEMMA AroundInStep ==
  ASSUME TypeOK, NEW p \in Procs, InStep(p), UNCHANGED <<file, pc, job, mem>>,
         now' \in Nat, now <= now'
  PROVE  InStep(p)'
<1>1. UNCHANGED LoadedState
  BY LoadingRepeats
<1>2. 0..now \subseteq 0..now'
  BY DEF TypeOK
<1>3. OneAhead(p) => OneAhead(p)'
  BY <1>1, <1>2 DEF OneAhead
<1>4. QED
  BY <1>1, <1>3 DEF InStep, file

\* No step takes the only process out of step with the file.
LEMMA SerialInductive ==
  ASSUME OneAtATime, IInv, SerialInv, [Next]_vars
  PROVE  SerialInv'
<1>1. CASE \E p \in Procs : Begin(p) \/ Step(p) \/ Answer(p) \/ Crash(p)
  BY <1>1, StepInStep DEF SerialInv, OneAtATime
<1>2. CASE (\E t \in Tasks : Toggle(t)) \/ Tick \/ UNCHANGED vars
  <2>1. UNCHANGED <<file, pc, job, mem>> /\ now' \in Nat /\ now <= now'
    BY <1>2 DEF Toggle, Tick, vars, IInv, TypeOK
  <2>2. QED
    BY <2>1, AroundInStep DEF SerialInv, IInv
<1>3. QED
  BY <1>1, <1>2 DEF Next

\* At first there is no invocation, so none is out of step.
LEMMA SerialInitially == Init => SerialInv
BY DEF Init, SerialInv, InStep, Before

\* While invocations do not overlap, every reachable state satisfies the two
\* inductive invariants: sound records, and a process in step with the file.
THEOREM SerialAlways == ASSUME OneAtATime PROVE Spec => [](IInv /\ SerialInv)
<1>1. IInv /\ SerialInv /\ [Next]_vars => SerialInv'
  BY SerialInductive
<1>2. QED
  BY <1>1, SerialInitially, SchedulesSound, PTL DEF Spec

\* A save that nobody overlaps leaves state.json whole and equal to the
\* process's state, whatever an earlier kill had left of the file.
THEOREM SavesHeal == ASSUME OneAtATime PROVE Spec => []SaveHeals
<1>1. SerialInv => SaveHeals
  BY DEF SerialInv, InStep, SaveHeals
<1>2. QED
  BY <1>1, SerialAlways, PTL

----------------------------------------------------------------------------
(***************************************************************************)
(* state.json implements TaskHistory: an attempt is recorded by the        *)
(* truncation, and every other step but a kill and the clock's leaves the  *)
(* history alone.                                                          *)
(***************************************************************************)

\* The history as its one process sees it, before and after a step.
LEMMA HistoryAt ==
  ASSUME OneAtATime, SerialInv, SerialInv', NEW p \in Procs
  PROVE  /\ RecordedHistory = IF pc[p] = "write" THEN mem[p] ELSE LoadedState
         /\ RecordedHistory' = IF pc'[p] = "write" THEN mem'[p] ELSE LoadedState'
<1>1. (\E q \in Procs : fileKind = "empty" /\ pc[q] = "write") <=> pc[p] = "write"
  BY DEF OneAtATime, SerialInv, InStep
<1>2. (\E q \in Procs : fileKind' = "empty" /\ pc'[q] = "write") <=> pc'[p] = "write"
  BY DEF OneAtATime, SerialInv, InStep
<1>3. pc[p] = "write" => (CHOOSE q \in Procs : pc[q] = "write") = p
  BY DEF OneAtATime
<1>4. pc'[p] = "write" => (CHOOSE q \in Procs : pc'[q] = "write") = p
  BY DEF OneAtATime
<1>5. RecordedHistory = IF pc[p] = "write" THEN mem[p] ELSE LoadedState
  BY <1>1, <1>3 DEF RecordedHistory
<1>6. RecordedHistory' = IF pc'[p] = "write" THEN mem'[p] ELSE LoadedState'
  <2>1. CASE pc'[p] = "write"
    BY <1>2, <1>4, <2>1 DEF RecordedHistory
  <2>2. CASE pc'[p] # "write"
    BY <1>2, <2>2 DEF RecordedHistory
  <2>3. QED
    BY <2>1, <2>2
<1>7. QED
  BY <1>5, <1>6

\* A step that leaves the clock and the file alone leaves the history alone,
\* unless it kills a save.
LEMMA QuietHistory ==
  ASSUME OneAtATime, SerialInv, SerialInv', NEW p \in Procs,
         UNCHANGED <<now, file, crashes>>, pc[p] # "write", pc'[p] # "write"
  PROVE  UNCHANGED History!vars
<1>1. UNCHANGED RecordedHistory
  BY HistoryAt, LoadingRepeats
<1>2. QED
  BY <1>1 DEF History!vars

\* The abstract history and the executor mean the same by an attempt: both
\* take it from TaskSchedule.
LEMMA SameRecords ==
  /\ History!Outcomes = Outcomes
  /\ \A s, r, d, at : History!Recorded(s, r, d, at) = Recorded(s, r, d, at)
<1>1. History!Outcomes = Outcomes
  BY DEF History!Outcomes, Outcomes, History!Ended, Ended, History!Skipped, Skipped,
         History!Statuses, Statuses, History!SkipReasons, SkipReasons
<1>2. \A r : History!Advances(r) = Advances(r)
  BY DEF History!Advances, Advances
<1>3. \A s, r, d, at : History!CalculateNextDue(s, r, d, at) = CalculateNextDue(s, r, d, at)
  BY <1>2 DEF History!CalculateNextDue, CalculateNextDue
<1>4. \A s, r, d, at : History!Recorded(s, r, d, at) = Recorded(s, r, d, at)
  BY <1>3 DEF History!Recorded, Recorded, History!UpdateTaskState, UpdateTaskState
<1>5. QED
  BY <1>1, <1>4

\* The truncation of a save records the attempt the process is ahead by.
LEMMA TruncateRecords ==
  ASSUME OneAtATime, IInv, SerialInv, SerialInv', NEW p \in Procs, Truncate(p)
  PROVE  \E t \in Tasks, r \in Outcomes, at \in 0..now : History!Attempt(t, r, at)
<1>1. pc[p] = "save" /\ pc'[p] = "write" /\ UNCHANGED <<now, mem, crashes>>
  BY DEF Truncate, Goto, IInv, TypeOK, budget
<1>2. RecordedHistory = LoadedState /\ RecordedHistory' = mem[p]
  BY <1>1, HistoryAt
<1>3. job[p].task \in Tasks
  BY <1>1 DEF IInv, TypeOK, Jobs
<1>4. OneAhead(p)
  BY <1>1 DEF SerialInv, InStep
<1>5. QED
  <2> DEFINE t == job[p].task
             s == LoadedState[t]
  <2>1. PICK r \in Outcomes, at \in 0..now :
          /\ NeverRun(s) \/ s.last_run <= at
          /\ mem[p] = [LoadedState EXCEPT ![t] = Recorded(s, r, Freq[t], at)]
    BY <1>4 DEF OneAhead
  <2>2. History!Attempt(t, r, at)
    BY <1>1, <1>2, <2>1, SameRecords DEF History!Attempt, History!NeverRun, NeverRun
  <2>3. QED
    BY <1>3, <2>2

\* A kill loses the history if it hits a save, and nothing otherwise.
LEMMA CrashLoses ==
  ASSUME OneAtATime, IInv, SerialInv, SerialInv', NEW p \in Procs, Crash(p)
  PROVE  History!Kill
<1>1. /\ pc'[p] = "idle" /\ crashes' = crashes + 1
      /\ UNCHANGED <<now, file>>
  BY DEF Crash, Exit, IInv, TypeOK
<1>2. RecordedHistory' = LoadedState
  BY <1>1, HistoryAt, LoadingRepeats
<1>3. CASE pc[p] = "write"
  <2>1. LoadedState = Fresh
    BY <1>3 DEF SerialInv, InStep, LoadedState
  <2>2. QED
    BY <1>1, <1>2, <2>1 DEF History!Kill, History!Nothing, Fresh, History!FreshTask, FreshTask
<1>4. CASE pc[p] # "write"
  <2>1. RecordedHistory' = RecordedHistory
    BY <1>2, <1>4, HistoryAt
  <2>2. QED
    BY <1>1, <2>1 DEF History!Kill
<1>5. QED
  BY <1>3, <1>4

\* Each step of the only process is an abstract step or none.
LEMMA StepImplements ==
  ASSUME OneAtATime, IInv, SerialInv, SerialInv', NEW p \in Procs,
         Begin(p) \/ Step(p) \/ Answer(p) \/ Crash(p)
  PROVE  History!Next \/ UNCHANGED History!vars
<1>1. TypeOK
  BY DEF IInv
<1>2. CASE \/ Begin(p) \/ LoadTasks(p) \/ DisabledGate(p) \/ DueGate(p) \/ CreateTask(p)
           \/ TaskReturns(p) \/ ConfirmDisabled(p) \/ ConfirmDue(p) \/ UpdateState(p)
  <2>1. /\ pc[p] # "write" /\ pc'[p] # "write"
        /\ UNCHANGED <<now, file, crashes>>
    BY <1>1, <1>2 DEF Begin, Start, LoadTasks, DisabledGate, DueGate, CreateTask,
       TaskReturns, ConfirmDisabled, ConfirmDue, UpdateState, Move, Decide, Goto,
       TypeOK, budget
  <2>2. QED
    BY <2>1, QuietHistory
<1>3. CASE UnknownTask(p) \/ NotRegistered(p) \/ Escape(p) \/ SaveDenied(p)
  <2>1. /\ pc[p] # "write" /\ pc'[p] # "write"
        /\ UNCHANGED <<now, file, crashes>>
    BY <1>1, <1>3 DEF UnknownTask, NotRegistered, Escape, SaveDenied, Exit, TypeOK, budget
  <2>2. QED
    BY <2>1, QuietHistory
<1>4. CASE Truncate(p)
  BY <1>4, TruncateRecords, SameRecords DEF History!Next
<1>5. CASE Write(p)
  <2>1. /\ pc[p] = "write" /\ pc'[p] = "chown"
        /\ UNCHANGED <<now, mem, crashes>>
    BY <1>1, <1>5 DEF Write, Goto, TypeOK, budget
  <2>2. LoadedState' = mem[p]
    BY <2>1 DEF SerialInv, InStep, LoadedState
  <2>3. QED
    BY <2>1, <2>2, HistoryAt DEF History!vars
<1>6. CASE Chown(p)
  <2>1. /\ pc[p] = "chown" /\ pc'[p] = "idle"
        /\ UNCHANGED <<now, fileKind, fileTasks, crashes>>
    BY <1>1, <1>6 DEF Chown, Exit, TypeOK, budget
  <2>2. LoadedState' = LoadedState
    BY <2>1 DEF LoadedState
  <2>3. QED
    BY <2>1, <2>2, HistoryAt DEF History!vars
<1>7. CASE Crash(p)
  BY <1>7, CrashLoses DEF History!Next
<1>8. QED
  BY <1>2, <1>3, <1>4, <1>5, <1>6, <1>7 DEF Step, Answer

\* Where nobody moves, nobody's copy becomes the history.
LEMMA AroundImplements ==
  ASSUME IInv, (\E t \in Tasks : Toggle(t)) \/ Tick \/ UNCHANGED vars
  PROVE  History!Next \/ UNCHANGED History!vars
<1>1. UNCHANGED <<file, pc, mem, crashes>> /\ (Tick \/ now' = now)
  BY DEF Toggle, Tick, vars, budget
<1>2. UNCHANGED RecordedHistory
  BY <1>1, LoadingRepeats DEF RecordedHistory, file
<1>3. CASE Tick
  BY <1>1, <1>2, <1>3 DEF Tick, History!Tick, History!Next
<1>4. CASE now' = now
  BY <1>1, <1>2, <1>4 DEF History!vars
<1>5. QED
  BY <1>1, <1>3, <1>4

\* Invocations that do not overlap implement the abstract history, from
\* LoadedState to the last chown: what execute_task and save_state do to the
\* whole file changes one record per attempt, and nothing else does but a kill
\* between truncation and flush.
THEOREM ImplementsHistory == ASSUME OneAtATime PROVE Spec => HistoryKept
<1>1. Init => History!Init
  <2> SUFFICES ASSUME Init PROVE History!Init
    OBVIOUS
  <2>1. RecordedHistory = Fresh
    BY DEF Init, RecordedHistory, LoadedState
  <2>2. QED
    BY <2>1 DEF Init, History!Init, History!Nothing, Fresh, History!FreshTask, FreshTask
<1>2. IInv /\ SerialInv /\ SerialInv' /\ [Next]_vars => [History!Next]_(History!vars)
  BY StepImplements, AroundImplements DEF Next
<1>3. QED
  BY <1>1, <1>2, SerialAlways, PTL DEF Spec, HistoryKept, History!Spec

----------------------------------------------------------------------------
(***************************************************************************)
(* Timers.  TimersWaitTheFrequency speaks of the last completed cycle, the *)
(* gate of the record it loaded: until a kill the record must know of that *)
(* cycle, in memory and, whenever nobody is on the way to save, on disk.   *)
(***************************************************************************)

\* The record s of t sends the next due date a recurrence past the last cycle.
Knows(t, s) ==
  advanced[t] # None =>
    /\ s.last_run # None
    /\ EffectiveDue(s, Freq[t]) >= advanced[t] + Freq[t]

FileKnows ==
  (\A p \in Procs : pc[p] \notin {"save", "write"}) =>
    \A t \in Tasks : Knows(t, LoadedState[t])

Allowed(p) ==
  LET t == job[p].task IN
  ~Interactive(p) /\ pc[p] # "idle" =>
    /\ ~job[p].force /\ pc[p] # "confirm_due"
    /\ pc[p] \in {"create", "running"} /\ advanced[t] # None =>
         now >= advanced[t] + Freq[t]

MemoryKnows(p) == pc[p] # "idle" => \A t \in Tasks : Knows(t, mem[p][t])

TimerInv ==
  crashes = 0 => FileKnows /\ \A p \in Procs : MemoryKnows(p) /\ Allowed(p)

\* An attempt of t that completes a cycle, or not, leaves a record that knows
\* of the last cycle.
LEMMA RecordedKnows ==
  ASSUME IInv, NEW t \in Tasks, NEW s \in TaskStates, Knows(t, s),
         NEW r \in Outcomes, NEW n, n = Recorded(s, r, Freq[t], now)
  PROVE  /\ n.last_run # None
         /\ Advances(r) => EffectiveDue(n, Freq[t]) = now + Freq[t]
         /\ ~Advances(r) => Knows(t, n)
<1>1. /\ now \in Nat /\ Freq[t] \in Nat
      /\ advanced[t] \in Nat \cup {None} /\ (advanced[t] # None => advanced[t] <= now)
  BY FreqAssumption DEF IInv, TypeOK, SoundClock
<1>2. n.last_run = now /\ n.next_due = CalculateNextDue(s, r, Freq[t], now)
  BY DEF Recorded, UpdateTaskState
<1>3. now # None /\ now + Freq[t] # None
  BY <1>1, NoneAssumption
<1>4. ASSUME Advances(r) PROVE EffectiveDue(n, Freq[t]) = now + Freq[t]
  BY <1>2, <1>3, <1>4 DEF CalculateNextDue, EffectiveDue
<1>5. ASSUME ~Advances(r) PROVE Knows(t, n)
  <2> SUFFICES ASSUME advanced[t] # None
               PROVE  EffectiveDue(n, Freq[t]) >= advanced[t] + Freq[t]
    BY <1>2, <1>3 DEF Knows
  <2>1. CASE n.next_due = None
    BY <1>1, <1>2, <2>1 DEF EffectiveDue
  <2>2. CASE n.next_due # None
    <3>1. n.next_due = s.next_due
      BY <1>2, <1>5, <2>2 DEF CalculateNextDue
    <3>2. QED
      BY <2>2, <3>1 DEF Knows, EffectiveDue
  <2>3. QED
    BY <2>1, <2>2
<1>6. QED
  BY <1>2, <1>3, <1>4, <1>5

\* The update tells the copy in memory of the cycle it completes.
LEMMA UpdateKnows ==
  ASSUME IInv, NEW p \in Procs, MemoryKnows(p), UpdateState(p)
  PROVE  MemoryKnows(p)'
<1>1. PICK t \in Tasks : t = job[p].task /\ pc[p] = "update" /\ result[p] \in Outcomes
  BY DEF UpdateState, Goto, IInv, TypeOK, Jobs
<1>2. PICK s \in TaskStates : s = mem[p][t]
  BY DEF IInv, TypeOK
<1>3. PICK n : n = Recorded(s, result[p], Freq[t], now)
  OBVIOUS
<1>4. Knows(t, s)
  BY <1>1, <1>2 DEF MemoryKnows
<1>5. mem'[p] = [mem[p] EXCEPT ![t] = n]
  BY <1>1, <1>2, <1>3 DEF UpdateState, IInv, TypeOK
<1>6. advanced' = IF Advances(result[p]) THEN [advanced EXCEPT ![t] = now] ELSE advanced
  BY <1>1 DEF UpdateState
<1>7. Knows(t, n)'
  <2>1. CASE Advances(result[p])
    <3>1. advanced'[t] = now /\ now \in Nat /\ Freq[t] \in Nat
      BY <1>6, <2>1, FreqAssumption DEF IInv, TypeOK
    <3>2. n.last_run # None /\ EffectiveDue(n, Freq[t]) = now + Freq[t]
      BY <1>1, <1>3, <1>4, <2>1, RecordedKnows
    <3>3. QED
      BY <3>1, <3>2 DEF Knows
  <2>2. CASE ~Advances(result[p])
    <3>1. Knows(t, n)
      BY <1>1, <1>3, <1>4, <2>2, RecordedKnows
    <3>2. QED
      BY <1>6, <2>2, <3>1 DEF Knows
  <2>3. QED
    BY <2>1, <2>2
<1>8. \A u \in Tasks : u # t => Knows(u, mem[p][u])'
  <2> SUFFICES ASSUME NEW u \in Tasks, u # t PROVE Knows(u, mem[p][u])'
    OBVIOUS
  <2>1. mem'[p][u] = mem[p][u] /\ advanced'[u] = advanced[u]
    BY <1>5, <1>6 DEF IInv, TypeOK
  <2>2. Knows(u, mem[p][u])
    BY <1>1 DEF MemoryKnows
  <2>3. QED
    BY <2>1, <2>2 DEF Knows
<1>9. mem'[p][t] = n
  BY <1>5 DEF IInv, TypeOK
<1>10. QED
  BY <1>7, <1>8, <1>9 DEF MemoryKnows

\* The gates: an unattended run comes to its body only through DueGate.
LEMMA GateAllows ==
  ASSUME IInv, NEW p \in Procs, MemoryKnows(p), Allowed(p), DueGate(p)
  PROVE  Allowed(p)'
<1> DEFINE t == job[p].task
           s == mem[p][t]
<1>1. /\ pc[p] = "due" /\ t \in Tasks /\ s \in TaskStates
      /\ UNCHANGED <<job, now, advanced>>
  BY DEF DueGate, Move, Decide, IInv, TypeOK, Jobs
<1>2. CASE TaskIsDue(p)
  <2>1. advanced[t] # None => now >= advanced[t] + Freq[t]
    <3>1. ~NeverRun(s) => EffectiveDue(s, Freq[t]) <= now
      BY <1>2 DEF TaskIsDue, IsDue
    <3>2. Knows(t, s)
      BY <1>1 DEF MemoryKnows
    <3>3. now \in Nat /\ Freq[t] \in Nat /\ advanced[t] \in Nat \cup {None}
      BY <1>1, FreqAssumption DEF IInv, TypeOK
    <3>4. NeverRun(s) \/ EffectiveDue(s, Freq[t]) \in Nat
      BY <1>1, <3>3 DEF NeverRun, EffectiveDue, TaskStates
    <3>5. QED
      BY <3>1, <3>2, <3>3, <3>4 DEF Knows, NeverRun
  <2>2. pc'[p] = "create"
    BY <1>2 DEF DueGate, Move, Goto, IInv, TypeOK
  <2>3. QED
    BY <1>1, <2>1, <2>2 DEF Allowed, Interactive
<1>3. CASE ~TaskIsDue(p)
  <2>1. \/ Interactive(p) /\ Move(p, "due", "confirm_due")
        \/ ~Interactive(p) /\ Decide(p, "due", Skipped("not_due"))
    BY <1>3 DEF DueGate
  <2>2. pc'[p] = IF Interactive(p) THEN "confirm_due" ELSE "update"
    BY <2>1 DEF Move, Decide, Goto, IInv, TypeOK
  <2>3. QED
    BY <1>1, <2>2 DEF Allowed, Interactive
<1>4. QED
  BY <1>2, <1>3

\* No step brings a timer's run to the body early, or to a prompt.
LEMMA StepAllows ==
  ASSUME IInv, NEW p \in Procs, MemoryKnows(p), Allowed(p),
         Begin(p) \/ Step(p) \/ Answer(p) \/ Crash(p)
  PROVE  Allowed(p)'
<1>1. TypeOK
  BY DEF IInv
<1>2. CASE Begin(p)
  <2>1. PICK t \in Tasks, mode \in Modes, force \in BOOLEAN : Start(p, t, mode, force)
    BY <1>2 DEF Begin
  <2>2. pc'[p] = "loaded" /\ job'[p] = [task |-> t, mode |-> mode, force |-> force]
    BY <1>1, <2>1 DEF Start, Goto, TypeOK
  <2>3. QED
    BY <2>1, <2>2 DEF Start, Allowed, Interactive
<1>3. CASE LoadTasks(p) \/ DisabledGate(p) \/ ConfirmDisabled(p)
  BY <1>1, <1>3 DEF LoadTasks, DisabledGate, ConfirmDisabled, Move, Decide, Goto, TypeOK,
                    Allowed, Interactive
<1>4. CASE DueGate(p)
  BY <1>4, GateAllows
<1>5. CASE ConfirmDue(p)
  <2>1. pc[p] = "confirm_due" /\ UNCHANGED job
    BY <1>5 DEF ConfirmDue, Move, Decide, Goto
  <2>2. QED
    BY <2>1 DEF Allowed, Interactive
<1>6. CASE CreateTask(p)
  BY <1>1, <1>6 DEF CreateTask, Move, Goto, TypeOK, Allowed, Interactive
<1>7. CASE TaskReturns(p) \/ UpdateState(p) \/ Truncate(p) \/ Write(p)
  <2>1. pc[p] # "idle" /\ pc'[p] \notin {"create", "running", "confirm_due"}
        /\ UNCHANGED job
    BY <1>1, <1>7 DEF TaskReturns, UpdateState, Truncate, Write, Decide, Goto, TypeOK
  <2>2. QED
    BY <2>1 DEF Allowed, Interactive
<1>8. CASE UnknownTask(p) \/ NotRegistered(p) \/ Escape(p) \/ SaveDenied(p) \/ Chown(p) \/ Crash(p)
  <2>1. pc'[p] = "idle"
    BY <1>1, <1>8 DEF UnknownTask, NotRegistered, Escape, SaveDenied, Chown, Crash, Exit, TypeOK
  <2>2. QED
    BY <2>1 DEF Allowed
<1>9. QED
  BY <1>2, <1>3, <1>4, <1>5, <1>6, <1>7, <1>8 DEF Step, Answer

\* No step but a kill loses what the records know of completed cycles.
LEMMA StepKnows ==
  ASSUME IInv, OwnershipReturned, "sudo" \notin Modes, OneAtATime, SerialInv, SerialInv',
         FileKnows, NEW p \in Procs, MemoryKnows(p), crashes = 0, crashes' = 0,
         Begin(p) \/ Step(p) \/ Answer(p) \/ Crash(p)
  PROVE  FileKnows' /\ MemoryKnows(p)'
<1>1. TypeOK
  BY DEF IInv
<1>2. CASE Begin(p)
  <2>1. pc[p] = "idle" /\ pc'[p] = "loaded" /\ mem'[p] = LoadedState
        /\ UNCHANGED <<file, advanced>>
    BY <1>1, <1>2 DEF Begin, Start, Goto, TypeOK
  <2>2. \A t \in Tasks : Knows(t, LoadedState[t])
    BY <2>1 DEF OneAtATime, FileKnows
  <2>3. \A t, s : Knows(t, s) => Knows(t, s)'
    BY <2>1 DEF Knows
  <2>4. QED
    BY <2>1, <2>2, <2>3, LoadingRepeats DEF FileKnows, MemoryKnows
<1>3. CASE LoadTasks(p) \/ DisabledGate(p) \/ DueGate(p) \/ CreateTask(p)
             \/ TaskReturns(p) \/ ConfirmDisabled(p) \/ ConfirmDue(p)
  <2>1. pc[p] \notin {"idle", "save", "write"} /\ UNCHANGED <<file, mem, advanced>>
    BY <1>1, <1>3 DEF LoadTasks, DisabledGate, DueGate, CreateTask, TaskReturns,
       ConfirmDisabled, ConfirmDue, Move, Decide, Goto
  <2>2. \A t, s : Knows(t, s) => Knows(t, s)'
    BY <2>1 DEF Knows
  <2>3. \A t \in Tasks : Knows(t, LoadedState[t])
    BY <2>1 DEF OneAtATime, FileKnows
  <2>4. QED
    BY <2>1, <2>2, <2>3, LoadingRepeats DEF FileKnows, MemoryKnows
<1>4. CASE UnknownTask(p) \/ NotRegistered(p) \/ Escape(p)
  <2>1. pc[p] \notin {"save", "write"} /\ pc'[p] = "idle" /\ UNCHANGED <<file, advanced>>
    BY <1>1, <1>4 DEF UnknownTask, NotRegistered, Escape, Exit, TypeOK
  <2>2. \A t, s : Knows(t, s) => Knows(t, s)'
    BY <2>1 DEF Knows
  <2>3. \A t \in Tasks : Knows(t, LoadedState[t])
    BY <2>1 DEF OneAtATime, FileKnows
  <2>4. QED
    BY <2>1, <2>2, <2>3, LoadingRepeats DEF FileKnows, MemoryKnows
<1>5. CASE UpdateState(p)
  <2>1. pc'[p] = "save"
    BY <1>1, <1>5 DEF UpdateState, Goto, TypeOK
  <2>2. QED
    BY <1>5, <2>1, UpdateKnows DEF FileKnows
<1>6. CASE Truncate(p)
  <2>1. pc[p] = "save" /\ pc'[p] = "write" /\ UNCHANGED <<mem, advanced>>
    BY <1>1, <1>6 DEF Truncate, Goto, TypeOK
  <2>2. QED
    BY <2>1 DEF FileKnows, MemoryKnows, Knows
<1>7. CASE SaveDenied(p)
  <2>1. owner = "root" /\ pc[p] = "save"
    BY <1>7 DEF SaveDenied, MayWrite, IInv, TypeOK
  <2>2. PICK q \in Procs : pc[q] \in {"write", "chown"}
    BY <2>1 DEF OwnershipReturned
  <2>3. QED
    BY <2>1, <2>2 DEF OneAtATime
<1>8. CASE Write(p)
  <2>1. pc[p] = "write" /\ pc'[p] = "chown" /\ UNCHANGED <<mem, advanced>>
    BY <1>1, <1>8 DEF Write, Goto, TypeOK
  <2>2. LoadedState' = mem[p]
    BY <1>8, <2>1 DEF Write, SerialInv, InStep, LoadedState
  <2>3. \A t \in Tasks : Knows(t, mem[p][t]) /\ Knows(t, mem[p][t])'
    BY <2>1 DEF MemoryKnows, Knows
  <2>4. QED
    BY <2>1, <2>2, <2>3 DEF FileKnows, MemoryKnows, Knows
<1>9. CASE Chown(p)
  <2>1. pc[p] = "chown" /\ pc'[p] = "idle" /\ UNCHANGED <<fileKind, fileTasks, advanced>>
    BY <1>1, <1>9 DEF Chown, Exit, TypeOK
  <2>2. \A t \in Tasks : Knows(t, LoadedState[t])
    BY <2>1 DEF OneAtATime, FileKnows
  <2>3. QED
    BY <2>1, <2>2 DEF FileKnows, MemoryKnows, Knows, LoadedState
<1>10. CASE Crash(p)
  BY <1>10 DEF Crash, IInv, TypeOK
<1>11. QED
  BY <1>2, <1>3, <1>4, <1>5, <1>6, <1>7, <1>8, <1>9, <1>10 DEF Step, Answer

\* Time only makes a task more due, and edits of tasks.toml do not count.
LEMMA AroundKnows ==
  ASSUME IInv, TimerInv, UNCHANGED <<file, pc, job, mem, advanced, crashes>>,
         now' \in Nat, now <= now'
  PROVE  TimerInv'
<1> SUFFICES ASSUME crashes = 0
             PROVE  FileKnows' /\ \A p \in Procs : MemoryKnows(p)' /\ Allowed(p)'
  BY DEF TimerInv
<1>1. FileKnows'
  BY LoadingRepeats DEF TimerInv, FileKnows, Knows
<1>2. ASSUME NEW p \in Procs PROVE MemoryKnows(p)'
  BY <1>2 DEF TimerInv, MemoryKnows, Knows
<1>3. ASSUME NEW p \in Procs PROVE Allowed(p)'
  <2>1. Allowed(p)
    BY <1>3 DEF TimerInv
  <2>2. pc[p] # "idle" => job[p].task \in Tasks
    BY <1>3 DEF IInv, TypeOK, Jobs
  <2>3. pc[p] # "idle" /\ advanced[job[p].task] # None =>
          advanced[job[p].task] \in Nat /\ Freq[job[p].task] \in Nat
    BY <2>2, FreqAssumption DEF IInv, TypeOK
  <2>4. QED
    BY <2>1, <2>3 DEF Allowed, Interactive, IInv, TypeOK
<1>4. QED
  BY <1>1, <1>2, <1>3

\* The invariant of the timers is inductive.
LEMMA TimerInductive ==
  ASSUME "sudo" \notin Modes, OneAtATime, IInv, OwnershipReturned, SerialInv, SerialInv',
         TimerInv, [Next]_vars
  PROVE  TimerInv'
<1>1. CASE \E p \in Procs : Begin(p) \/ Step(p) \/ Answer(p) \/ Crash(p)
  <2> SUFFICES ASSUME crashes' = 0,
                      NEW p \in Procs, Begin(p) \/ Step(p) \/ Answer(p) \/ Crash(p)
               PROVE  FileKnows' /\ \A q \in Procs : MemoryKnows(q)' /\ Allowed(q)'
    BY <1>1 DEF TimerInv
  <2>1. crashes = 0
    BY DEF IInv, TypeOK, Begin, Start, Step, LoadTasks, DisabledGate, DueGate, CreateTask,
           UnknownTask, NotRegistered, TaskReturns, UpdateState, Truncate, SaveDenied, Write, Chown,
           Answer, ConfirmDisabled, ConfirmDue, Escape, Crash, Move, Decide, budget
  <2>2. FileKnows /\ MemoryKnows(p) /\ Allowed(p)
    BY <2>1 DEF TimerInv
  <2>3. FileKnows' /\ MemoryKnows(p)'
    BY <2>1, <2>2, StepKnows
  <2>4. Allowed(p)'
    BY <2>2, StepAllows
  <2>5. QED
    BY <2>3, <2>4 DEF OneAtATime
<1>2. CASE (\E t \in Tasks : Toggle(t)) \/ Tick \/ UNCHANGED vars
  <2>1. UNCHANGED <<file, pc, job, mem, advanced, crashes>> /\ now' \in Nat /\ now <= now'
    BY <1>2 DEF Toggle, Tick, vars, budget, IInv, TypeOK
  <2>2. QED
    BY <2>1, AroundKnows
<1>3. QED
  BY <1>1, <1>2 DEF Next

\* At first no cycle has been completed.
LEMMA TimerInitially == Init => TimerInv
BY NoneAssumption DEF Init, TimerInv, FileKnows, MemoryKnows, Allowed, Knows

\* While invocations do not overlap, none is killed and nobody runs a task
\* under sudo by hand, no timer comes to a task's body before a whole
\* recurrence has passed since the last completed cycle: the records that
\* _calculate_next_due and save_state leave carry it across every skip, failure,
\* forced run and edit.
THEOREM TimersWait ==
  ASSUME "sudo" \notin Modes, OneAtATime
  PROVE  Spec => []TimersWaitTheFrequency
<1>1. IInv /\ SerialInv /\ SerialInv' /\ OwnershipReturned /\ TimerInv /\ [Next]_vars
        => TimerInv'
  BY TimerInductive
<1>2. TimerInv => TimersWaitTheFrequency
  BY DEF TimerInv, Allowed, TimersWaitTheFrequency
<1>3. QED
  BY <1>1, <1>2, TimerInitially, SerialAlways, FileComesBack, PTL DEF Spec
=============================================================================
