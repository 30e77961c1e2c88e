----------------------------- MODULE DailyTimers -----------------------------
(***************************************************************************)
(* The executor under its systemd timers: archcare@<task>.timer has        *)
(* OnCalendar=daily and Persistent=yes                                     *)
(* (src/archcare/services/setup_service.py), so each task is started once  *)
(* a day, in any order and with overlaps, whether or not it is due, and    *)
(* once more by every boot.  RandomizedDelaySec and AccuracySec let a timer*)
(* fire at another hour every day: a tick of the clock is a part of a day  *)
(* here.  A task without a timer, or with a broken one, is started by      *)
(* people only.                                                            *)
(*                                                                         *)
(* A person may start tasks as well.  The day ends when every timer has    *)
(* fired and every invocation is over.  tasks.toml is valid and is not     *)
(* edited, every task in it has an implementation and no process is killed *)
(* here: TaskExecutor has those.                                           *)
(***************************************************************************)
EXTENDS TaskExecutor

CONSTANTS
  Timed,     \* the tasks whose timer is enabled
  DayLength  \* ticks of the clock in a day; Freq is in ticks as well

ASSUME AllRegistered == Registered = Tasks
ASSUME TimedAssumption == Timed \subseteq Tasks
ASSUME TimersInvoke == Timed # {} => "timer" \in Modes
ASSUME DayAssumption == DayLength \in Nat \ {0}

VARIABLES
  fired,   \* the timers that fired today
  worked   \* history: when each task's body was last started

dailyVars == <<vars, fired, worked>>

DailyTypeOK == TypeOK /\ fired \subseteq Timed /\ worked \in [Tasks -> Nat]

DailyInit == Init /\ fired = {} /\ worked = [t \in Tasks |-> 0]

TimerFires(p, t) ==
  /\ t \in Timed \ fired
  /\ Start(p, t, "timer", FALSE)
  /\ fired' = fired \cup {t}
  /\ UNCHANGED worked

\* The timer unit requires its service, so a boot starts the service too.
BootStarts(p, t) ==
  /\ t \in Timed
  /\ Start(p, t, "timer", FALSE)
  /\ UNCHANGED <<fired, worked>>

InFlight(t) ==
  \E p \in Procs : pc[p] # "idle" /\ job[p].task = t /\ job[p].mode = "timer"

\* systemd merges the start of a unit that is running into the run there is,
\* such as the one a boot began.
TimerMerges(t) ==
  /\ t \in Timed \ fired
  /\ InFlight(t)
  /\ fired' = fired \cup {t}
  /\ UNCHANGED <<vars, worked>>

PersonStarts(p, t) ==
  /\ \E mode \in Modes \ {"timer"}, force \in BOOLEAN : Start(p, t, mode, force)
  /\ UNCHANGED <<fired, worked>>

BodyStarts(p) ==
  /\ CreateTask(p)
  /\ worked' = [worked EXCEPT ![job[p].task] = now]
  /\ UNCHANGED fired

OtherStep(p) ==
  /\ \/ LoadTasks(p) \/ DueGate(p) \/ ConfirmDue(p) \/ Escape(p)
     \/ UpdateState(p) \/ Truncate(p) \/ SaveDenied(p) \/ Write(p) \/ Chown(p)
  /\ UNCHANGED <<fired, worked>>

BodyEnds(p) == TaskReturns(p) /\ UNCHANGED <<fired, worked>>

Today == now \div DayLength

\* At the end of a day every timer has fired.
HoursPass ==
  /\ Quiet
  /\ Tick
  /\ IF now' \div DayLength = Today THEN UNCHANGED fired
     ELSE fired = Timed /\ fired' = {}
  /\ UNCHANGED worked

Starts(p) == \E t \in Tasks : TimerFires(p, t) \/ BootStarts(p, t)
                                \/ PersonStarts(p, t)

DailyNext ==
  \/ \E p \in Procs : Starts(p) \/ BodyStarts(p) \/ OtherStep(p) \/ BodyEnds(p)
  \/ \E t \in Tasks : TimerMerges(t)
  \/ HoursPass

DailySpec == DailyInit /\ [][DailyNext]_dailyVars

----------------------------------------------------------------------------
(* Properties.                                                             *)

\* A timed task whose record carries a due date is tried again on every day
\* that begins after that date until a cycle completes, at whichever hour its
\* timer fires and however its runs overlap with others and overwrite each
\* other's records: a timer that fires too early costs a day and no more.
OverdueIsRetriedDaily ==
  Quiet => \A t \in Timed :
    LET due == LoadedState[t].next_due
        yesterday == DayLength * (Today - 1)
    IN  due # None /\ due <= yesterday => worked[t] >= yesterday
=============================================================================
