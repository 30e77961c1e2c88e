----------------------- MODULE MaintenanceCheck_proofs -----------------------
(***************************************************************************)
(* Theorems about MaintenanceCheck, for every set of tasks, timers and     *)
(* overlapping invocations, and for every valid setting: neglect does not  *)
(* stay hidden.  That alarms are true and that `archcare task status`      *)
(* agrees holds while invocations do not overlap.                          *)
(***************************************************************************)
EXTENDS MaintenanceCheck, DailyTimers_proofs

----------------------------------------------------------------------------
(***************************************************************************)
(* What a running check knows: a view of sound records, findings that are  *)
(* those of the view, and a notification that is the one for them.  The    *)
(* clock stands still while a check runs, and what others complete in the  *)
(* meantime can make a due date of the view too early, never too late.     *)
(***************************************************************************)
AtBody == {"running", "update"}

Gone == {"save", "write", "chown"}

Informed(p) ==
  /\ pc[p] \notin AtBody \cup Gone \/ job[p].task # Checker =>
       view[p] = None /\ report[p] = None /\ told[p] = None
  /\ pc[p] \in AtBody =>
       /\ view[p] # None => \A t \in Tasks : SoundRecord(t, view[p][t])
       /\ report[p] # None => report[p] = Findings(view[p])
       /\ told[p] # None => told[p] = Notification(Findings(view[p]))
  /\ pc[p] = "running" /\ told[p] # None => report[p] # None
  /\ pc[p] = "update" /\ view[p] # None => told[p] # None

CheckInv == IInv /\ CheckTypeOK /\ \A p \in Procs : Informed(p)

----------------------------------------------------------------------------
(* The findings as functions of a record.                                  *)

\* What a check finds and tells depends on the records and the clock only.
LEMMA FindingsRepeat ==
  ASSUME UNCHANGED now
  PROVE  \A state : Findings(state)' = Findings(state)
<1>1. \A t, s : IssuesOf(t, s)' = IssuesOf(t, s)
  <2>1. \A s, delta : DaysOverdue(s, delta)' = DaysOverdue(s, delta)
    BY DEF DaysOverdue
  <2>2. \A s, delta : IsDue(s, delta, now)' = IsDue(s, delta, now)
    BY DEF IsDue
  <2>3. QED
    BY <2>1, <2>2 DEF IssuesOf
<1>2. ASSUME NEW state PROVE Findings(state)' = Findings(state)
  <2> DEFINE before(i) == i.severity \in IssuesOf(i.task, state[i.task])
             after(i)  == i.severity \in IssuesOf(i.task, state[i.task])'
  <2>1. \A i : before(i) <=> after(i)
    BY <1>1
  <2>2. /\ Findings(state) = {i \in Issues : before(i)}
        /\ Findings(state)' = {i \in Issues : after(i)}
    BY DEF Findings, Issues, Severities
  <2> HIDE DEF before, after
  <2>3. QED
    BY <2>1, <2>2
<1>3. QED
  BY <1>2

\* A notification names a severity, or there is none.
LEMMA NotificationType ==
  ASSUME NEW issues
  PROVE  Notification(issues) \in {"nothing"} \cup Severities
<1> DEFINE worth == {s \in Severities : Has(issues, s) /\ Rank[s] >= Rank[Level]}
<1>1. worth # {} => \E s \in worth : \A other \in worth : Rank[s] >= Rank[other]
  <2>1. worth \subseteq {"info", "warning", "critical"}
    BY DEF Severities
  <2>2. Rank["info"] = 0 /\ Rank["warning"] = 1 /\ Rank["critical"] = 2
    BY DEF Rank
  <2> HIDE DEF worth
  <2>3. CASE "critical" \in worth
    <3>1. \A other \in worth : Rank["critical"] >= Rank[other]
      BY <2>1, <2>2
    <3>2. QED
      BY <2>3, <3>1
  <2>4. CASE "critical" \notin worth /\ "warning" \in worth
    <3>1. \A other \in worth : Rank["warning"] >= Rank[other]
      BY <2>1, <2>2, <2>4
    <3>2. QED
      BY <2>4, <3>1
  <2>5. CASE worth \subseteq {"info"}
    <3>1. \A s, other \in worth : Rank[s] >= Rank[other]
      BY <2>2, <2>5
    <3>2. QED
      BY <3>1
  <2>6. QED
    BY <2>1, <2>3, <2>4, <2>5
<1> DEFINE worst == CHOOSE s \in worth : \A other \in worth : Rank[s] >= Rank[other]
<1>2. worth # {} => worst \in worth
  BY <1>1
<1>3. worth \subseteq Severities
  OBVIOUS
<1>4. Notification(issues) = IF ~Notify \/ worth = {} THEN "nothing" ELSE worst
  BY DEF Notification
<1> HIDE DEF worst, worth
<1>5. QED
  BY <1>2, <1>3, <1>4

\* If notifications are on, something critical is told of as critical.
LEMMA CriticalIsTold ==
  ASSUME Notify, NEW issues, Has(issues, "critical")
  PROVE  Notification(issues) = "critical"
<1> DEFINE worth == {s \in Severities : Has(issues, s) /\ Rank[s] >= Rank[Level]}
<1>1. Rank["info"] = 0 /\ Rank["warning"] = 1 /\ Rank["critical"] = 2
  BY DEF Rank
<1>2. Level \in {"info", "warning", "critical"}
  BY SettingsAssumption DEF SettingsValid, Severities
<1>3. "critical" \in worth
  BY <1>1, <1>2 DEF Severities
<1>4. worth \subseteq {"info", "warning", "critical"}
  BY DEF Severities
<1>5. Notification(issues) =
        CHOOSE s \in worth : \A other \in worth : Rank[s] >= Rank[other]
  BY <1>3 DEF Notification
<1> HIDE DEF worth
<1>6. \A s \in worth : (\A other \in worth : Rank[s] >= Rank[other]) <=> s = "critical"
  BY <1>1, <1>3, <1>4
<1>7. QED
  BY <1>3, <1>5, <1>6

\* A record whose due date was earned by a cycle that is too long ago is
\* graded critical: the date is no later than a recurrence after the cycle.
LEMMA NeglectIsCritical ==
  ASSUME IInv, NEW t \in Watched, NEW s \in TaskStates, SoundRecord(t, s),
         s.next_due # None, TooLong(t)
  PROVE  "critical" \in IssuesOf(t, s)
<1>1. t \in Tasks /\ Freq[t] \in Nat /\ Freq[t] > 0 /\ now \in Nat
  BY FreqAssumption DEF IInv, TypeOK, Watched
<1>2. Warning \in Nat /\ Critical \in Nat /\ Critical > 0
  BY SettingsAssumption DEF SettingsValid
<1>3. /\ s.last_run # None
      /\ advanced[t] # None /\ advanced[t] \in Nat
      /\ s.next_due \in Nat /\ s.next_due <= advanced[t] + Freq[t]
  BY <1>1 DEF SoundRecord, WithinFrequency, BackedByWork, IInv, TypeOK, TaskStates
<1> DEFINE days == DaysOverdue(s, Freq[t])
<1>4. EffectiveDue(s, Freq[t]) = s.next_due
  BY DEF EffectiveDue
<1>5. Unserviced(t) > 0 /\ Unserviced(t) \in Int
  BY <1>1, <1>2, <1>3 DEF TooLong, Unserviced
<1>6. s.next_due <= now
  BY <1>1, <1>3, <1>5 DEF Unserviced
<1>7. days \in Int /\ days >= Unserviced(t)
  BY <1>1, <1>3, <1>4, <1>6 DEF DaysOverdue, NeverRun, Unserviced
<1>8. ~NeverRun(s) /\ IsDue(s, Freq[t], now)
  BY <1>3, <1>4, <1>6 DEF IsDue, NeverRun
<1>9. CASE t \in Manual
  <2>1. Severity(days) = "critical"
    BY <1>2, <1>5, <1>7, <1>9 DEF TooLong, Severity
  <2>2. QED
    BY <1>8, <1>9, <2>1 DEF IssuesOf
<1>10. CASE t \notin Manual
  <2>1. SeverelyOverdue(days, Freq[t])
    BY <1>1, <1>5, <1>7, <1>10 DEF TooLong, SeverelyOverdue
  <2>2. QED
    BY <1>8, <1>10, <2>1 DEF IssuesOf
<1>11. QED
  BY <1>9, <1>10

\* The neglected task's alarm is among the findings.
LEMMA NeglectIsFound ==
  ASSUME IInv, NEW t \in Watched, NEW state, state[t] \in TaskStates,
         SoundRecord(t, state[t]), state[t].next_due # None, TooLong(t)
  PROVE  Alarm(t) \in Findings(state)
<1>1. "critical" \in IssuesOf(t, state[t])
  BY NeglectIsCritical
<1>2. Alarm(t) \in Issues /\ Alarm(t).task = t /\ Alarm(t).severity = "critical"
  BY DEF Alarm, Issues, Watched, Severities
<1>3. QED
  BY <1>1, <1>2 DEF Findings

----------------------------------------------------------------------------
(* The executor's and the timers' invariants hold with a check among the   *)
(* tasks: a check ends its body with a result of its own.                  *)

ByExecutor(p) == ExecutorStep(p) \/ TaskCreated(p) \/ OtherBodyEnds(p)

CheckEnds(p) == CheckReturns(p) \/ CheckRaises(p)

\* What the executor does among the checks is what it does without them.
LEMMA ExecutorAmongChecks ==
  ASSUME NEW p \in Procs, ByExecutor(p)
  PROVE  Acts(p)
BY DEF ByExecutor, ExecutorStep, TaskCreated, OtherBodyEnds, Acts

\* A check ends with one of the outcomes.
LEMMA CheckEndsBody ==
  ASSUME NEW p \in Procs, CheckEnds(p)
  PROVE  \E r \in Outcomes : Decide(p, "running", r)
<1>1. Ended("failure") \in Outcomes /\ \A issues : CheckResult(issues) \in Outcomes
  BY DEF Outcomes, CheckResult, Statuses
<1>2. QED
  BY <1>1 DEF CheckEnds, CheckReturns, CheckRaises

\* Every step keeps the executor's invariant and the types of the timers.
LEMMA CheckKeepsExecutor ==
  ASSUME IInv, DailyTypeOK, [CheckNext]_checkVars
  PROVE  IInv' /\ DailyTypeOK'
<1>1. TypeOK /\ fired \subseteq Timed /\ worked \in [Tasks -> Nat]
  BY DEF DailyTypeOK
<1>2. CASE (\E p \in Procs : ByExecutor(p)) \/ RunMerges \/ NextDay
  <2>1. [Next]_vars /\ [DailyNext]_dailyVars
    BY <1>2, ExecutorAmongChecks, ExecutorActs
       DEF Next, Acts, DailyNext, RunMerges, TimerMerges, NextDay, HoursPass
  <2>2. IInv'
    BY <2>1, InvariantInductive
  <2>3. QED
    BY <1>1, <2>1, <2>2, DailyStepType DEF DailyTypeOK, IInv
<1>3. CASE \/ \E p \in Procs : CheckExecutes(p) \/ SendNotification(p)
           \/ UNCHANGED checkVars
  <2>1. UNCHANGED dailyVars
    BY <1>3 DEF CheckExecutes, SendNotification, checkVars
  <2>2. UNCHANGED vars /\ UNCHANGED <<fired, worked>>
    BY <2>1 DEF dailyVars
  <2>3. IInv'
    BY <2>2, InvariantInductive
  <2>4. QED
    BY <1>1, <2>2, <2>3 DEF DailyTypeOK, IInv
<1>4. CASE \E p \in Procs : CheckEnds(p)
  <2>1. PICK p \in Procs : CheckEnds(p)
    BY <1>4
  <2>2. PICK r \in Outcomes : Decide(p, "running", r)
    BY <2>1, CheckEndsBody
  <2>3. TypeOK'
    BY <1>1, <2>2, DecideType DEF PCs
  <2>4. UNCHANGED <<now, advanced, fileTasks, mem>>
    BY <2>2 DEF Decide, file
  <2>5. IInv'
    BY <2>3, <2>4, QuietStep
  <2>6. UNCHANGED <<fired, worked>>
    BY <2>1 DEF CheckEnds, CheckReturns, CheckRaises
  <2>7. QED
    BY <1>1, <2>3, <2>5, <2>6 DEF DailyTypeOK
<1>5. QED
  BY <1>2, <1>3, <1>4 DEF CheckNext, ByExecutor, CheckEnds

----------------------------------------------------------------------------
(* Type correctness.                                                       *)

\* What a step of a process puts into a check's memory is well typed.
LEMMA OwnStateType ==
  ASSUME IInv, CheckTypeOK, NEW p \in Procs,
         \/ ByExecutor(p) \/ CheckExecutes(p) \/ SendNotification(p) \/ CheckEnds(p)
  PROVE  /\ view' \in [Procs -> {None} \cup [Tasks -> TaskStates]]
         /\ report' \in [Procs -> {None} \cup (SUBSET Issues)]
         /\ told' \in [Procs -> {None, "nothing"} \cup Severities]
<1>1. CASE ExecutorStep(p)
  BY <1>1 DEF ExecutorStep, CheckTypeOK
<1>2. CASE TaskCreated(p)
  <2>1. LoadedState \in [Tasks -> TaskStates]
    BY LoadedIsState DEF IInv
  <2>2. QED
    BY <1>2, <2>1 DEF TaskCreated, CheckTypeOK
<1>3. CASE OtherBodyEnds(p) \/ CheckReturns(p)
  BY <1>3 DEF OtherBodyEnds, CheckReturns, ownVars, CheckTypeOK
<1>4. CASE CheckExecutes(p)
  <2>1. \A state : Findings(state) \subseteq Issues
    BY DEF Findings
  <2>2. QED
    BY <1>4, <2>1 DEF CheckExecutes, CheckTypeOK
<1>5. CASE SendNotification(p)
  <2>1. \A issues : Notification(issues) \in {None, "nothing"} \cup Severities
    BY NotificationType
  <2>2. QED
    BY <1>5, <2>1 DEF SendNotification, CheckTypeOK
<1>6. CASE CheckRaises(p)
  BY <1>6 DEF CheckRaises, CheckTypeOK
<1>7. QED
  BY <1>1, <1>2, <1>3, <1>4, <1>5, <1>6 DEF ByExecutor, CheckEnds

\* Report files are never dated ahead of the clock.
LEMMA ReportsType ==
  ASSUME IInv, CheckTypeOK, [CheckNext]_checkVars
  PROVE  reports' \subseteq 0..now'
<1>1. now \in Nat /\ reports \subseteq 0..now
  BY DEF IInv, TypeOK, CheckTypeOK
<1>2. CASE \E p \in Procs : ByExecutor(p) \/ CheckExecutes(p) \/ SendNotification(p)
  <2>1. reports' = reports
    BY <1>2 DEF ByExecutor, ExecutorStep, TaskCreated, OtherBodyEnds, CheckExecutes,
                SendNotification
  <2>2. now' = now
    BY <1>2, ExecutorAmongChecks, WorkKept DEF CheckExecutes, SendNotification, dailyVars,
       vars, CheckTypeOK, DailyTypeOK
  <2>3. QED
    BY <1>1, <2>1, <2>2
<1>3. CASE \E p \in Procs : CheckEnds(p)
  <2>1. now' = now
    BY <1>3, CheckEndsBody DEF Decide
  <2>2. reports' \subseteq reports \cup {now}
    BY <1>3 DEF CheckEnds, CheckReturns, CheckRaises, ReportsAfterCleanup
  <2>3. QED
    BY <1>1, <2>1, <2>2
<1>4. CASE NextDay
  <2>1. now' = now + 1 /\ reports' = reports
    BY <1>4 DEF NextDay, HoursPass, Tick
  <2>2. QED
    BY <1>1, <2>1
<1>5. CASE RunMerges \/ UNCHANGED checkVars
  BY <1>1, <1>5 DEF RunMerges, TimerMerges, checkVars, dailyVars, vars
<1>6. QED
  BY <1>2, <1>3, <1>4, <1>5 DEF CheckNext, ByExecutor, CheckEnds

\* Every step keeps the types.
LEMMA CheckTypeKept ==
  IInv /\ CheckTypeOK /\ [CheckNext]_checkVars => IInv' /\ CheckTypeOK'
<1> SUFFICES ASSUME IInv, CheckTypeOK, [CheckNext]_checkVars
             PROVE  IInv' /\ CheckTypeOK'
  OBVIOUS
<1>1. IInv' /\ DailyTypeOK'
  BY CheckKeepsExecutor DEF CheckTypeOK
<1>2. reports' \subseteq 0..now'
  BY ReportsType
<1>3. /\ view' \in [Procs -> {None} \cup [Tasks -> TaskStates]]
      /\ report' \in [Procs -> {None} \cup (SUBSET Issues)]
      /\ told' \in [Procs -> {None, "nothing"} \cup Severities]
  <2>1. CASE RunMerges \/ NextDay \/ UNCHANGED checkVars
    BY <2>1 DEF RunMerges, NextDay, checkVars, ownVars, CheckTypeOK
  <2>2. CASE ~(RunMerges \/ NextDay \/ UNCHANGED checkVars)
    BY <2>2, OwnStateType DEF CheckNext, ByExecutor, CheckEnds
  <2>3. QED
    BY <2>1, <2>2
<1>4. QED
  BY <1>1, <1>2, <1>3 DEF CheckTypeOK

\* At first nothing is on record and no check has begun.
LEMMA CheckInitially == CheckInit => IInv /\ CheckTypeOK
<1> SUFFICES ASSUME CheckInit PROVE IInv /\ CheckTypeOK
  OBVIOUS
<1>1. Init /\ DailyInit
  BY DEF CheckInit, DailyInit
<1>2. IInv
  <2>1. TypeOK
    BY <1>1, FreshIsState DEF Init, TypeOK, PCs
  <2>2. SoundClock
    BY <1>1 DEF Init, SoundClock
  <2>3. SoundFile /\ SoundMemory
    BY <1>1, FreshIsSound DEF Init, SoundFile, SoundMemory
  <2>4. QED
    BY <2>1, <2>2, <2>3 DEF IInv
<1>3. QED
  BY <1>1, <1>2 DEF CheckInit, DailyInit, CheckTypeOK, DailyTypeOK, IInv

\* Every reachable state is well typed: a check holds records, issues and a
\* severity, and no report file is dated ahead of the clock.
THEOREM CheckTypeCorrect == CheckSpec => []CheckTypeOK
BY CheckInitially, CheckTypeKept, PTL DEF CheckSpec

----------------------------------------------------------------------------
(* The checks' own invariant.                                              *)

CheckActs(p) == ByExecutor(p) \/ CheckExecutes(p) \/ SendNotification(p) \/ CheckEnds(p)

\* A step of p leaves the clock and the other checks alone.
LEMMA CheckFrame ==
  ASSUME IInv, CheckTypeOK, NEW p \in Procs, CheckActs(p)
  PROVE  /\ UNCHANGED now
         /\ \A t \in Tasks : advanced'[t] = advanced[t] \/ advanced'[t] = now
         /\ \A q \in Procs \ {p} :
              /\ pc'[q] = pc[q] /\ job'[q] = job[q]
              /\ view'[q] = view[q] /\ report'[q] = report[q] /\ told'[q] = told[q]
<1>1. TypeOK
  BY DEF IInv
<1>2. CASE ByExecutor(p)
  <2>1. Acts(p)
    BY <1>2, ExecutorAmongChecks
  <2>2. /\ UNCHANGED now
        /\ \A t \in Tasks : advanced'[t] = advanced[t] \/ advanced'[t] = now
        /\ \A q \in Procs \ {p} : pc'[q] = pc[q] /\ job'[q] = job[q]
    BY <1>1, <2>1
       DEF TypeOK, Acts, Starts, TimerFires, BootStarts, PersonStarts, BodyStarts,
           OtherStep, BodyEnds, Start, LoadTasks, DueGate, CreateTask, TaskReturns,
           UpdateState, Truncate, SaveDenied, Write, Chown, ConfirmDue, Escape, Move,
           Decide, Goto, Exit
  <2>3. \A q \in Procs \ {p} :
          view'[q] = view[q] /\ report'[q] = report[q] /\ told'[q] = told[q]
    BY <1>2 DEF ByExecutor, ExecutorStep, TaskCreated, OtherBodyEnds, ownVars, CheckTypeOK
  <2>4. QED
    BY <2>2, <2>3
<1>3. CASE CheckExecutes(p) \/ SendNotification(p)
  BY <1>3 DEF CheckExecutes, SendNotification, dailyVars, vars, CheckTypeOK
<1>4. CASE CheckEnds(p)
  <2>1. PICK r \in Outcomes : Decide(p, "running", r)
    BY <1>4, CheckEndsBody
  <2>2. QED
    BY <1>1, <1>4, <2>1
       DEF TypeOK, Decide, Goto, CheckEnds, CheckReturns, CheckRaises, ownVars, CheckTypeOK
<1>5. QED
  BY <1>2, <1>3, <1>4 DEF CheckActs

\* A sound view stays sound while its check runs.
LEMMA ViewStaysSound ==
  ASSUME IInv, IInv', CheckTypeOK, NEW p \in Procs, CheckActs(p), NEW state \in [Tasks -> TaskStates],
         \A t \in Tasks : SoundRecord(t, state[t])
  PROVE  \A t \in Tasks : SoundRecord(t, state[t])'
<1> SUFFICES ASSUME NEW t \in Tasks PROVE SoundRecord(t, state[t])'
  OBVIOUS
<1>1. TypeOK /\ TypeOK' /\ SoundClock /\ now \in Nat /\ now # None
  BY NoneAssumption DEF IInv, TypeOK
<1>2. PICK s \in TaskStates : s = state[t]
  OBVIOUS
<1>3. now <= now' /\ (advanced'[t] = advanced[t] \/ (advanced'[t] # None /\ advanced'[t] >= now))
  BY <1>1, CheckFrame
<1>4. SoundRecord(t, s)'
  BY <1>1, <1>2, <1>3, SoundnessKept
<1>5. QED
  BY <1>2, <1>4

\* What others do leaves a check as informed as it was.
LEMMA OthersInformed ==
  ASSUME IInv, IInv', CheckTypeOK, NEW p \in Procs, CheckActs(p),
         NEW q \in Procs \ {p}, Informed(q)
  PROVE  Informed(q)'
<1>1. /\ UNCHANGED now /\ pc'[q] = pc[q] /\ job'[q] = job[q]
      /\ view'[q] = view[q] /\ report'[q] = report[q] /\ told'[q] = told[q]
  BY CheckFrame
<1>2. PICK v : v = view[q]
  OBVIOUS
<1>3. PICK found : found = Findings(v)
  OBVIOUS
<1>4. Findings(v)' = found
  BY <1>1, <1>3, FindingsRepeat
<1>5. PICK said : said = Notification(found)
  OBVIOUS
<1>6. Notification(Findings(v))' = said
  BY <1>4, <1>5 DEF Notification, Has
<1>7. ASSUME pc[q] \in AtBody, v # None
      PROVE  \A t \in Tasks : SoundRecord(t, v[t])'
  <2>1. v \in [Tasks -> TaskStates] /\ \A t \in Tasks : SoundRecord(t, v[t])
    BY <1>2, <1>7 DEF CheckTypeOK, Informed
  <2>2. QED
    BY <2>1, ViewStaysSound
<1>8. QED
  BY <1>1, <1>2, <1>3, <1>4, <1>5, <1>6, <1>7 DEF Informed

\* The gates know of no view, and a save does not change it.
LEMMA ExecutorInforms ==
  ASSUME IInv, CheckTypeOK, NEW p \in Procs, ExecutorStep(p), Informed(p)
  PROVE  Informed(p)'
<1>1. TypeOK
  BY DEF IInv
<1>2. CASE pc'[p] = "idle"
  <2>1. view'[p] = None /\ report'[p] = None /\ told'[p] = None
    BY <1>2 DEF ExecutorStep, CheckTypeOK
  <2>2. QED
    BY <1>2, <2>1 DEF Informed, AtBody, Gone
<1>3. CASE pc'[p] # "idle"
  <2>1. view'[p] = view[p] /\ report'[p] = report[p] /\ told'[p] = told[p]
    BY <1>3 DEF ExecutorStep, CheckTypeOK
  <2>2. CASE Starts(p) \/ LoadTasks(p) \/ DueGate(p) \/ ConfirmDue(p)
    <3>1. pc[p] \notin AtBody \cup Gone /\ pc'[p] # "running"
      BY <1>1, <2>2 DEF Starts, TimerFires, BootStarts, PersonStarts, Start, LoadTasks,
                        DueGate, ConfirmDue, Move, Decide, Goto, TypeOK, AtBody, Gone
    <3>2. view[p] = None /\ report[p] = None /\ told[p] = None
      BY <3>1 DEF Informed
    <3>3. QED
      BY <2>1, <3>1, <3>2 DEF Informed
  <2>3. CASE UpdateState(p) \/ Truncate(p) \/ Write(p)
    <3>1. pc[p] \in AtBody \cup Gone /\ pc'[p] \in Gone /\ UNCHANGED job
      BY <1>1, <2>3 DEF UpdateState, Truncate, Write, Goto, TypeOK, AtBody, Gone
    <3>2. pc'[p] \notin {"running", "update"}
      BY <3>1 DEF Gone
    <3>3. QED
      BY <2>1, <3>1, <3>2 DEF Informed, AtBody
  <2>4. CASE Escape(p) \/ SaveDenied(p) \/ Chown(p)
    BY <1>1, <1>3, <2>4 DEF Escape, SaveDenied, Chown, Exit, TypeOK
  <2>5. QED
    BY <2>2, <2>3, <2>4 DEF ExecutorStep, OtherStep
<1>4. QED
  BY <1>2, <1>3

\* A check is created with what the file says, and that is sound.
LEMMA CreationInforms ==
  ASSUME IInv, CheckTypeOK, NEW p \in Procs, TaskCreated(p), Informed(p)
  PROVE  Informed(p)'
<1>1. /\ pc[p] = "create" /\ pc'[p] = "running"
      /\ UNCHANGED <<now, advanced, file, job, report, told>>
  BY DEF TaskCreated, BodyStarts, CreateTask, Move, Goto, IInv, TypeOK
<1>2. view[p] = None /\ report[p] = None /\ told[p] = None
  BY <1>1 DEF Informed, AtBody, Gone
<1>3. view'[p] = IF job[p].task = Checker THEN LoadedState ELSE None
  BY <1>2 DEF TaskCreated, CheckTypeOK
<1>4. \A t \in Tasks : SoundRecord(t, LoadedState[t])
  BY FreshIsSound DEF IInv, SoundFile, LoadedState
<1>5. \A t, s : SoundRecord(t, s) => SoundRecord(t, s)'
  BY <1>1 DEF SoundRecord, WithinFrequency, BackedByWork
<1>6. PICK loaded : loaded = LoadedState
  OBVIOUS
<1>7. \A t \in Tasks : SoundRecord(t, loaded[t])'
  BY <1>4, <1>5, <1>6
<1>8. QED
  BY <1>1, <1>2, <1>3, <1>6, <1>7 DEF Informed, AtBody, Gone

\* Execution derives the findings from the view, the notification from them.
LEMMA BodyInforms ==
  ASSUME IInv, IInv', CheckTypeOK, NEW p \in Procs, Informed(p),
         CheckExecutes(p) \/ SendNotification(p) \/ CheckEnds(p)
  PROVE  Informed(p)'
<1>1. UNCHANGED now /\ CheckActs(p) /\ TypeOK
  BY CheckFrame DEF CheckActs, IInv
<1>2. pc[p] = "running" /\ pc'[p] \in AtBody /\ UNCHANGED job /\ UNCHANGED view
      /\ (pc'[p] # "running" => CheckEnds(p))
  <2>1. CASE CheckExecutes(p) \/ SendNotification(p)
    BY <2>1 DEF CheckExecutes, SendNotification, dailyVars, vars, AtBody
  <2>2. CASE CheckEnds(p)
    <3>1. PICK r \in Outcomes : Decide(p, "running", r)
      BY <2>2, CheckEndsBody
    <3>2. QED
      BY <1>1, <2>2, <3>1 DEF Decide, Goto, TypeOK, CheckEnds, CheckReturns, CheckRaises,
                              ownVars, AtBody
  <2>3. QED
    BY <2>1, <2>2
<1>3. job[p].task = Checker
  BY <1>2 DEF CheckExecutes, SendNotification, CheckEnds, CheckReturns, CheckRaises, Informed
<1>4. PICK v : v = view[p]
  OBVIOUS
<1>5. PICK found : found = Findings(v)
  OBVIOUS
<1>6. PICK said : said = Notification(found)
  OBVIOUS
<1>7. Findings(v)' = found
  BY <1>1, <1>5, FindingsRepeat
<1>8. Notification(Findings(v))' = said
  BY <1>6, <1>7 DEF Notification, Has
<1>9. v # None => \A t \in Tasks : SoundRecord(t, v[t])'
  <2> SUFFICES ASSUME v # None PROVE \A t \in Tasks : SoundRecord(t, v[t])'
    OBVIOUS
  <2>1. v \in [Tasks -> TaskStates] /\ \A t \in Tasks : SoundRecord(t, v[t])
    BY <1>2, <1>4 DEF CheckTypeOK, Informed, AtBody
  <2>2. QED
    BY <1>1, <2>1, ViewStaysSound
<1>10. report'[p] \in {None, found} /\ told'[p] \in {None, said}
  <2>1. report[p] \in {None, found} /\ told[p] \in {None, said}
    BY <1>2, <1>4, <1>5, <1>6 DEF Informed, AtBody
  <2>2. QED
    BY <2>1, <1>4, <1>5, <1>6
       DEF CheckExecutes, SendNotification, CheckEnds, CheckReturns, CheckRaises, ownVars,
           CheckTypeOK
<1>11. /\ pc'[p] = "running" /\ told'[p] # None => report'[p] # None
       /\ pc'[p] = "update" => told'[p] # None
  <2>1. told[p] # None => report[p] # None
    BY <1>2 DEF Informed
  <2>2. CASE CheckExecutes(p)
    BY <1>2, <2>1, <2>2 DEF CheckExecutes, dailyVars, vars
  <2>3. CASE SendNotification(p)
    BY <1>2, <2>3 DEF SendNotification, dailyVars, vars
  <2>4. CASE CheckEnds(p)
    <3>1. pc'[p] = "update"
      BY <1>1, <2>4, CheckEndsBody DEF Decide, Goto, TypeOK
    <3>2. told[p] # None /\ told' = told
      BY <2>4 DEF CheckEnds, CheckReturns, CheckRaises, ownVars
    <3>3. QED
      BY <3>1, <3>2
  <2>5. QED
    BY <2>2, <2>3, <2>4
<1>12. QED
  BY <1>2, <1>3, <1>4, <1>5, <1>6, <1>7, <1>8, <1>9, <1>10, <1>11 DEF Informed

\* The invariant of the checks is inductive.
LEMMA CheckInductive == CheckInv /\ [CheckNext]_checkVars => CheckInv'
<1> SUFFICES ASSUME CheckInv, [CheckNext]_checkVars PROVE CheckInv'
  OBVIOUS
<1>1. IInv /\ CheckTypeOK /\ IInv' /\ CheckTypeOK'
  BY CheckTypeKept DEF CheckInv
<1>2. CASE \E p \in Procs : CheckActs(p)
  <2>1. PICK p \in Procs : CheckActs(p)
    BY <1>2
  <2>2. CASE OtherBodyEnds(p)
    <3>1. job[p].task # Checker /\ UNCHANGED ownVars
          /\ pc[p] = "running" /\ pc'[p] = "update" /\ UNCHANGED job
      BY <1>1, <2>2 DEF OtherBodyEnds, BodyEnds, TaskReturns, Decide, Goto, IInv, TypeOK
    <3>2. Informed(p)'
      BY <3>1 DEF CheckInv, Informed, ownVars
    <3>3. QED
      BY <1>1, <2>1, <3>2, OthersInformed DEF CheckInv
  <2>3. CASE ~OtherBodyEnds(p)
    <3>1. Informed(p)'
      BY <1>1, <2>1, <2>3, ExecutorInforms, CreationInforms, BodyInforms
         DEF CheckInv, CheckActs, ByExecutor
    <3>2. QED
      BY <1>1, <2>1, <3>1, OthersInformed DEF CheckInv
  <2>4. QED
    BY <2>2, <2>3
<1>3. CASE NextDay
  <2>1. \A p \in Procs : pc[p] = "idle" /\ pc'[p] = "idle"
    BY <1>3 DEF NextDay, HoursPass, Quiet, Tick
  <2>2. \A p \in Procs : view'[p] = None /\ report'[p] = None /\ told'[p] = None
    BY <1>3, <2>1 DEF NextDay, ownVars, CheckInv, Informed, AtBody, Gone
  <2>3. QED
    BY <1>1, <2>1, <2>2 DEF CheckInv, Informed, AtBody
<1>4. CASE RunMerges \/ UNCHANGED checkVars
  <2>1. UNCHANGED <<now, advanced, pc, job, view, report, told>>
    BY <1>4 DEF RunMerges, TimerMerges, checkVars, dailyVars, vars, ownVars
  <2>2. ASSUME NEW p \in Procs PROVE Informed(p)'
    <3>1. Findings(view[p])' = Findings(view[p])
      <4>1. PICK v : v = view[p]
        OBVIOUS
      <4>2. Findings(v)' = Findings(v)
        BY <2>1, FindingsRepeat
      <4>3. QED
        BY <2>1, <4>1, <4>2
    <3>2. \A t, s : SoundRecord(t, s) => SoundRecord(t, s)'
      BY <2>1 DEF SoundRecord, WithinFrequency, BackedByWork
    <3>3. PICK found : found = Findings(view[p])
      OBVIOUS
    <3>4. Notification(found)' = Notification(found)
      BY DEF Notification, Has
    <3>5. Notification(Findings(view[p]))' = Notification(Findings(view[p]))
      BY <3>1, <3>3, <3>4
    <3>6. QED
      BY <2>1, <3>1, <3>2, <3>5 DEF CheckInv, Informed
  <2>3. QED
    BY <1>1, <2>2 DEF CheckInv
<1>5. QED
  BY <1>2, <1>3, <1>4 DEF CheckNext, CheckActs, ByExecutor, CheckEnds

\* Every reachable state satisfies the checks' invariant.
THEOREM ChecksInformed == CheckSpec => []CheckInv
<1>1. CheckInit => CheckInv
  BY CheckInitially DEF CheckInit, CheckInv, Informed
<1>2. QED
  BY <1>1, CheckInductive, PTL DEF CheckSpec

\* A task that has been serviced once is not forgotten: when its last completed
\* cycle is too long ago, _check_task raises the alarm in every check that
\* returns its issues, whoever has written which attempts into the file.
THEOREM NeglectIsReported == CheckSpec => []NeglectReported
<1>1. CheckInv => NeglectReported
  <2> SUFFICES ASSUME CheckInv, NEW p \in Procs, Returned(p), NEW t \in Watched,
                      view[p][t].next_due # None, TooLong(t)
               PROVE  Alarm(t) \in report[p]
    BY DEF NeglectReported
  <2>1. IInv /\ t \in Tasks /\ view[p] \in [Tasks -> TaskStates]
    BY DEF CheckInv, CheckTypeOK, Returned, Executed, Watched
  <2>2. SoundRecord(t, view[p][t]) /\ report[p] = Findings(view[p])
    BY <2>1 DEF CheckInv, Informed, AtBody, Returned, Executed
  <2>3. QED
    BY <2>1, <2>2, NeglectIsFound
<1>2. QED
  BY <1>1, ChecksInformed, PTL

\* The user hears of it as critical whenever notifications are on, also from a
\* check whose report then cannot be written: _send_notification comes first.
THEOREM NeglectIsAnnounced == CheckSpec => []NeglectAnnounced
<1>1. CheckInv => NeglectAnnounced
  <2> SUFFICES ASSUME CheckInv, NEW p \in Procs, Executed(p), Notify, NEW t \in Watched,
                      view[p][t].next_due # None, TooLong(t)
               PROVE  told[p] = "critical"
    BY DEF NeglectAnnounced
  <2>1. IInv /\ t \in Tasks /\ view[p] \in [Tasks -> TaskStates]
    BY DEF CheckInv, CheckTypeOK, Executed, Watched
  <2>2. SoundRecord(t, view[p][t]) /\ told[p] = Notification(Findings(view[p]))
    BY <2>1 DEF CheckInv, Informed, AtBody, Executed
  <2>3. Alarm(t) \in Findings(view[p])
    BY <2>1, <2>2, NeglectIsFound
  <2>4. Has(Findings(view[p]), "critical")
    BY <2>3 DEF Has, Alarm
  <2>5. QED
    BY <2>2, <2>4, CriticalIsTold
<1>2. QED
  BY <1>1, ChecksInformed, PTL

----------------------------------------------------------------------------
(***************************************************************************)
(* While invocations do not overlap, a check's view is what the file says  *)
(* until its result is recorded, and the file knows of every completed     *)
(* cycle: what the check finds is then true, and what `archcare task       *)
(* status` shows is the same.                                              *)
(***************************************************************************)
Current(p) == pc[p] \in AtBody /\ view[p] # None => view[p] = LoadedState

\* The end of a check leaves the executor as a process that has decided.
LEMMA DecidedInStep ==
  ASSUME OneAtATime, IInv, SerialInv, NEW p \in Procs, NEW r \in Outcomes,
         Decide(p, "running", r)
  PROVE  SerialInv'
<1>1. InStep(p) /\ pc[p] \in Before /\ pc'[p] \in Before /\ UNCHANGED <<file, mem>>
  BY DEF SerialInv, IInv, TypeOK, Decide, Goto, Before, PCs
<1>2. InStep(p)'
  BY <1>1, MoveInStep DEF IInv
<1>3. QED
  BY <1>2 DEF SerialInv, OneAtATime

\* The end of a check hands no file over and takes none.
LEMMA DecidedOwned ==
  ASSUME TypeOK, OwnershipReturned, NEW p \in Procs, NEW r, Decide(p, "running", r)
  PROVE  OwnershipReturned'
<1>1. /\ UNCHANGED <<owner, crashes, job>> /\ pc[p] = "running"
      /\ \A q \in Procs \ {p} : pc'[q] = pc[q]
  BY DEF Decide, Goto, TypeOK, file, budget
<1>2. QED
  BY <1>1 DEF OwnershipReturned, IsRoot

\* The end of a check leaves what the records know of completed cycles.
LEMMA DecidedTimers ==
  ASSUME OneAtATime, IInv, TimerInv, NEW p \in Procs, NEW r, Decide(p, "running", r)
  PROVE  TimerInv'
<1>1. /\ pc[p] = "running" /\ pc'[p] = "update"
      /\ UNCHANGED <<now, file, job, mem, advanced, crashes>>
  BY DEF Decide, Goto, IInv, TypeOK, budget
<1> SUFFICES ASSUME crashes = 0
             PROVE  FileKnows' /\ MemoryKnows(p)' /\ Allowed(p)'
  BY <1>1 DEF TimerInv, OneAtATime
<1>2. FileKnows /\ MemoryKnows(p) /\ Allowed(p)
  BY DEF TimerInv
<1>3. \A t, s : Knows(t, s) => Knows(t, s)'
  BY <1>1 DEF Knows
<1>4. \A t \in Tasks : Knows(t, LoadedState[t])
  BY <1>1, <1>2 DEF OneAtATime, FileKnows
<1>5. FileKnows'
  BY <1>1, <1>3, <1>4, LoadingRepeats DEF FileKnows
<1>6. MemoryKnows(p)'
  BY <1>1, <1>2, <1>3 DEF MemoryKnows
<1>7. Allowed(p)'
  BY <1>1, <1>2 DEF Allowed, Interactive
<1>8. QED
  BY <1>5, <1>6, <1>7

\* Every other step is one of the executor.
LEMMA CheckNextCases ==
  ASSUME [CheckNext]_checkVars
  PROVE  \/ [Next]_vars
         \/ \E p \in Procs : CheckEnds(p)
<1>1. CASE \E p \in Procs : ByExecutor(p)
  BY <1>1, ExecutorAmongChecks, ExecutorActs DEF Next, Acts
<1>2. CASE \/ \E p \in Procs : CheckExecutes(p) \/ SendNotification(p)
           \/ RunMerges \/ UNCHANGED checkVars
  BY <1>2 DEF CheckExecutes, SendNotification, RunMerges, TimerMerges, checkVars, dailyVars
<1>3. CASE NextDay
  BY <1>3 DEF NextDay, HoursPass, Next
<1>4. QED
  BY <1>1, <1>2, <1>3 DEF CheckNext, ByExecutor, CheckEnds

\* A check among the tasks leaves processes in step with the file.
LEMMA SerialAmongChecks ==
  ASSUME OneAtATime, IInv, SerialInv, [CheckNext]_checkVars
  PROVE  SerialInv'
BY CheckNextCases, CheckEndsBody, SerialInductive, DecidedInStep

\* The view of a check stays what the file says.
LEMMA CurrentKept ==
  ASSUME OneAtATime, CheckInv, [CheckNext]_checkVars,
         \A p \in Procs : Current(p), NEW p \in Procs
  PROVE  Current(p)'
<1>1. IInv /\ TypeOK /\ CheckTypeOK /\ Informed(p) /\ Current(p)
  BY DEF CheckInv, IInv
<1> SUFFICES ASSUME pc'[p] \in AtBody, view'[p] # None
             PROVE  view'[p] = LoadedState'
  BY DEF Current
<1>2. CASE ExecutorStep(p)
  <2>1. pc'[p] # "idle"
    BY DEF AtBody
  <2>2. view'[p] = view[p]
    BY <1>1, <1>2, <2>1 DEF ExecutorStep, CheckTypeOK
  <2>3. pc[p] \notin AtBody \cup Gone
    BY <1>1, <1>2
       DEF ExecutorStep, OtherStep, Starts, TimerFires, BootStarts, PersonStarts, Start,
           LoadTasks, DueGate, ConfirmDue, Escape, UpdateState, Truncate, SaveDenied, Write,
           Chown, Exit, Move, Decide, Goto, TypeOK, AtBody, Gone
  <2>4. QED
    BY <1>1, <2>2, <2>3 DEF Informed
<1>3. CASE TaskCreated(p)
  <2>1. pc[p] = "create" /\ UNCHANGED file
    BY <1>3 DEF TaskCreated, BodyStarts, CreateTask, Move, Goto
  <2>2. view[p] = None
    BY <1>1, <2>1 DEF Informed, AtBody, Gone
  <2>3. view'[p] = LoadedState
    BY <1>1, <1>3, <2>2 DEF TaskCreated, CheckTypeOK
  <2>4. QED
    BY <2>1, <2>3, LoadingRepeats
<1>4. CASE OtherBodyEnds(p)
  <2>1. job[p].task # Checker /\ view' = view
    BY <1>4 DEF OtherBodyEnds, ownVars
  <2>2. QED
    BY <1>1, <2>1 DEF Informed
<1>5. CASE CheckExecutes(p) \/ SendNotification(p) \/ CheckEnds(p)
  <2>1. pc[p] = "running" /\ UNCHANGED file /\ view' = view
    <3>1. CASE CheckExecutes(p) \/ SendNotification(p)
      BY <3>1 DEF CheckExecutes, SendNotification, dailyVars, vars
    <3>2. CASE CheckEnds(p)
      BY <3>2, CheckEndsBody DEF Decide, Goto, CheckEnds, CheckReturns, CheckRaises, ownVars
    <3>3. QED
      BY <1>5, <3>1, <3>2
  <2>2. QED
    BY <1>1, <2>1, LoadingRepeats DEF Current, AtBody
<1>6. CASE NextDay
  BY <1>6 DEF NextDay, HoursPass, Quiet, Tick, AtBody
<1>7. CASE RunMerges \/ UNCHANGED checkVars
  <2>1. UNCHANGED <<file, pc, view>>
    BY <1>7 DEF RunMerges, TimerMerges, checkVars, dailyVars, vars, ownVars
  <2>2. QED
    BY <1>1, <2>1, LoadingRepeats DEF Current
<1>8. QED
  BY <1>2, <1>3, <1>4, <1>5, <1>6, <1>7 DEF CheckNext, CheckEnds, OneAtATime

AllCurrent == \A p \in Procs : Current(p)

\* While invocations do not overlap, a check's view is always current.
LEMMA SerialCheckAlways ==
  ASSUME OneAtATime
  PROVE  CheckSpec => [](CheckInv /\ SerialInv /\ AllCurrent)
<1>1. CheckInit => SerialInv /\ AllCurrent
  BY SerialInitially DEF CheckInit, DailyInit, AllCurrent, Current, Init, AtBody
<1>2. CheckInv /\ SerialInv /\ AllCurrent /\ [CheckNext]_checkVars => SerialInv' /\ AllCurrent'
  BY SerialAmongChecks, CurrentKept DEF CheckInv, AllCurrent
<1>3. QED
  BY <1>1, <1>2, ChecksInformed, PTL DEF CheckSpec

\* What is found beyond "info" is due, and what is critical is overdue.
LEMMA FindingIsDue ==
  ASSUME IInv, NEW t \in Tasks, NEW s \in TaskStates, NEW severity \in IssuesOf(t, s)
  PROVE  /\ severity # "info" => IsDue(s, Freq[t], now)
         /\ severity = "critical" => ~NeverRun(s) /\ DaysOverdue(s, Freq[t]) > 0
<1> DEFINE days == DaysOverdue(s, Freq[t])
<1>1. Freq[t] \in Nat /\ now \in Nat /\ Critical \in Nat /\ Critical > 0
  BY FreqAssumption, SettingsAssumption DEF IInv, TypeOK, SettingsValid
<1>2. CASE NeverRun(s)
  BY <1>2 DEF IssuesOf
<1>3. CASE ~NeverRun(s)
  <2>1. EffectiveDue(s, Freq[t]) \in Nat
    BY <1>1, <1>3 DEF EffectiveDue, NeverRun, TaskStates
  <2>2. days \in Int /\ (days > 0 => IsDue(s, Freq[t], now))
    BY <1>1, <1>3, <2>1 DEF DaysOverdue, IsDue
  <2>3. CASE t \in Manual
    <3>1. IsDue(s, Freq[t], now) /\ severity = Severity(days)
      BY <1>3, <2>3 DEF IssuesOf
    <3>2. severity = "critical" => days > 0
      BY <1>1, <2>2, <3>1 DEF Severity
    <3>3. QED
      BY <1>3, <3>1, <3>2
  <2>4. CASE t \notin Manual
    <3>1. \/ severity = "warning" /\ IsDue(s, Freq[t], now)
          \/ severity = "critical" /\ SeverelyOverdue(days, Freq[t])
      BY <1>3, <2>4 DEF IssuesOf
    <3>2. SeverelyOverdue(days, Freq[t]) => days > 0
      BY <1>1, <2>2 DEF SeverelyOverdue
    <3>3. QED
      BY <1>3, <2>2, <3>1, <3>2
  <2>5. QED
    BY <2>3, <2>4
<1>4. QED
  BY <1>2, <1>3

\* A record that knows of the last completed cycle raises no false alarm.
LEMMA CriticalIsTrue ==
  ASSUME IInv, NEW t \in Watched, NEW s \in TaskStates, Knows(t, s), advanced[t] # None,
         "critical" \in IssuesOf(t, s)
  PROVE  TooLong(t)
<1> DEFINE days == DaysOverdue(s, Freq[t])
<1>1. t \in Tasks /\ Freq[t] \in Nat /\ now \in Nat /\ Critical \in Nat /\ advanced[t] \in Nat
  BY FreqAssumption, SettingsAssumption DEF IInv, TypeOK, SettingsValid, Watched
<1>2. ~NeverRun(s) /\ days > 0
  BY <1>1, FindingIsDue
<1>3. EffectiveDue(s, Freq[t]) \in Nat /\ EffectiveDue(s, Freq[t]) >= advanced[t] + Freq[t]
  BY <1>1, <1>2 DEF Knows, EffectiveDue, NeverRun, TaskStates
<1>4. days \in Int /\ days <= Unserviced(t) /\ Unserviced(t) \in Int
  BY <1>1, <1>2, <1>3 DEF DaysOverdue, Unserviced
<1>5. CASE t \in Manual
  <2>1. Severity(days) = "critical"
    BY <1>2, <1>5 DEF IssuesOf
  <2>2. days >= Critical
    BY <2>1 DEF Severity
  <2>3. QED
    BY <1>1, <1>4, <1>5, <2>2 DEF TooLong
<1>6. CASE t \notin Manual
  <2>1. SeverelyOverdue(days, Freq[t])
    BY <1>2, <1>6 DEF IssuesOf
  <2>2. QED
    BY <1>1, <1>4, <1>6, <2>1 DEF TooLong, SeverelyOverdue
<1>7. QED
  BY <1>5, <1>6

\* `archcare task status`, which reads the file anew, does not contradict the
\* check: what get_due_tasks and get_maintenance_summary list contains what
\* _check_task warned of.
THEOREM StatusAgrees == ASSUME OneAtATime PROVE CheckSpec => []StatusAgreesWithCheck
<1>1. CheckInv /\ AllCurrent => StatusAgreesWithCheck
  <2> SUFFICES ASSUME CheckInv, AllCurrent, NEW p \in Procs, Returned(p), NEW i \in report[p]
               PROVE  /\ i.severity # "info" => i.task \in DueTasks(LoadedState)
                      /\ i.severity = "critical" => i.task \in OverdueTasks(LoadedState)
    BY DEF StatusAgreesWithCheck
  <2>1. IInv /\ view[p] = LoadedState /\ report[p] = Findings(LoadedState)
    BY DEF CheckInv, AllCurrent, Current, Informed, AtBody, Returned, Executed
  <2>2. LoadedState \in [Tasks -> TaskStates]
    BY <2>1, LoadedIsState DEF IInv
  <2>3. i \in Issues /\ i.severity \in IssuesOf(i.task, LoadedState[i.task])
    BY <2>1 DEF Findings
  <2>4. i.task \in Tasks
    BY <2>3 DEF Issues
  <2>5. QED
    BY <2>1, <2>2, <2>3, <2>4, FindingIsDue DEF DueTasks, OverdueTasks
<1>2. QED
  BY <1>1, SerialCheckAlways, PTL

\* Where also nobody runs a task under sudo by hand, an alarm is never false:
\* no completed cycle is missing from the file the check has read.
THEOREM AlarmsTrue ==
  ASSUME "sudo" \notin Modes, OneAtATime
  PROVE  CheckSpec => []AlarmsAreTrue
<1> DEFINE Kept == OwnershipReturned /\ TimerInv /\ crashes = 0
<1>1. CheckInit => Kept
  BY OwnedInitially, TimerInitially DEF CheckInit, DailyInit, Init
<1>2. CheckInv /\ SerialInv /\ SerialInv' /\ Kept /\ [CheckNext]_checkVars => Kept'
  <2> SUFFICES ASSUME CheckInv, SerialInv, SerialInv', Kept, [CheckNext]_checkVars
               PROVE  Kept'
    OBVIOUS
  <2>1. IInv /\ TypeOK
    BY DEF CheckInv, IInv
  <2>2. OwnershipReturned' /\ TimerInv'
    <3>1. CASE [Next]_vars
      BY <2>1, <3>1, OwnershipKept, TimerInductive
    <3>2. CASE \E p \in Procs : CheckEnds(p)
      BY <2>1, <3>2, CheckEndsBody, DecidedOwned, DecidedTimers
    <3>3. QED
      BY <3>1, <3>2, CheckNextCases
  <2>3. crashes' = crashes
    <3>1. CASE \E p \in Procs : ByExecutor(p)
      <4>1. PICK p \in Procs : Acts(p)
        BY <3>1, ExecutorAmongChecks
      <4>2. QED
        BY <4>1
           DEF Acts, Starts, TimerFires, BootStarts, PersonStarts, BodyStarts, OtherStep,
               BodyEnds, Start, LoadTasks, DueGate, CreateTask, TaskReturns, UpdateState,
               Truncate, SaveDenied, Write, Chown, ConfirmDue, Escape, Move, Decide, budget
    <3>2. CASE \E p \in Procs : CheckEnds(p)
      BY <3>2, CheckEndsBody DEF Decide, budget
    <3>3. CASE ~(\E p \in Procs : ByExecutor(p) \/ CheckEnds(p))
      BY <3>3 DEF CheckNext, ByExecutor, CheckEnds, CheckExecutes, SendNotification, NextDay,
                  RunMerges, TimerMerges, HoursPass, Tick, checkVars, dailyVars, vars, budget
    <3>4. QED
      BY <3>1, <3>2, <3>3
  <2>4. QED
    BY <2>2, <2>3
<1>3. CheckInv /\ AllCurrent /\ Kept => AlarmsAreTrue
  <2> SUFFICES ASSUME CheckInv, AllCurrent, Kept, NEW p \in Procs, Returned(p),
                      NEW t \in Watched, Alarm(t) \in report[p], advanced[t] # None
               PROVE  TooLong(t)
    BY DEF AlarmsAreTrue
  <2>1. IInv /\ t \in Tasks /\ view[p] = LoadedState /\ report[p] = Findings(LoadedState)
    BY DEF CheckInv, AllCurrent, Current, Informed, AtBody, Returned, Executed, Watched
  <2>2. LoadedState[t] \in TaskStates
    BY <2>1, LoadedIsState DEF IInv
  <2>3. "critical" \in IssuesOf(t, LoadedState[t])
    BY <2>1 DEF Findings, Alarm
  <2>4. Knows(t, LoadedState[t])
    BY <2>1 DEF TimerInv, FileKnows, OneAtATime, Returned, Executed
  <2>5. QED
    BY <2>1, <2>2, <2>3, <2>4, CriticalIsTrue
<1> HIDE DEF Kept
<1>4. QED
  BY <1>1, <1>2, <1>3, SerialCheckAlways, PTL DEF CheckSpec

=============================================================================
