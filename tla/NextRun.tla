------------------------------- MODULE NextRun -------------------------------
(***************************************************************************)
(* compute_next_run, the arithmetic of the scheduler's cadences, and the   *)
(* chain of runs one schedule makes with it.                               *)
(*                                                                         *)
(* A moment is a day and a time of that day, both counted from zero in     *)
(* UTC; day 0 is a Monday.  The calendar is a parameter: which month a day *)
(* lies in and on which day a month begins.  Months are numbered through,  *)
(* twelve to a year, so that the month after December is the next number.  *)
(* The clamps of compute_next_run are left out but for the one to the      *)
(* length of the month: every caller clamps its input first.               *)
(***************************************************************************)
EXTENDS Integers

CONSTANTS
  Day,          \* the days of the calendar
  Month,        \* its months
  MonthOf(_),   \* the month a day lies in
  FirstDay(_),  \* the first day of a month
  TimeOfDay,    \* the times a day has, in the clock's resolution
  Cadence       \* the cadences in use

Frequencies == {"daily", "weekly", "monthly"}

ASSUME DayAssumption  == Day \subseteq Nat
ASSUME TimeAssumption == TimeOfDay \subseteq Nat

\* The days of a month are those from its first to the day before the next
\* month's first, 28 to 31 of them.
ASSUME CalendarAssumption ==
  \A m \in Month :
    /\ m \in Nat /\ FirstDay(m) \in Nat
    /\ FirstDay(m + 1) \in (FirstDay(m) + 28)..(FirstDay(m) + 31)
    /\ FirstDay(m)..(FirstDay(m + 1) - 1) \subseteq Day
    /\ \A d \in Day : MonthOf(d) = m <=> FirstDay(m) <= d /\ d < FirstDay(m + 1)

ASSUME CadenceAssumption ==
  \A c \in Cadence :
    /\ c.frequency \in Frequencies /\ c.at \in TimeOfDay
    /\ c.weekday \in 0..6 /\ c.monthday \in 1..31

Moment == [day : Day, at : TimeOfDay]

Before(x, y) == x.day < y.day \/ (x.day = y.day /\ x.at < y.at)

\* Mutant: the two fields swapped.
OnSwapped(day, c) == [day |-> c.at, at |-> day]

\* The cadence's time on a day, with the seconds cleared.
On(day, c) == [day |-> day, at |-> c.at]

Weekday(day) == day % 7

DaysInMonth(m) == FirstDay(m + 1) - FirstDay(m)

-----------------------------------------------------------------------------
\* Mutant: the hard clamp to 28, which skips the ends of the months.
MonthDayTo28(c, m) == FirstDay(m) + (IF c.monthday <= 28 THEN c.monthday ELSE 28) - 1

\* The requested day of a month, or its last when it is shorter than that.
MonthDay(c, m) ==
  FirstDay(m) + (IF c.monthday <= DaysInMonth(m) THEN c.monthday ELSE DaysInMonth(m)) - 1

\* The first candidate unless it has passed, or is passing, and else the next.
FirstAfter(after, candidate, following) ==
  IF Before(after, candidate) THEN candidate ELSE following

NextDaily(c, after) == FirstAfter(after, On(after.day, c), On(after.day + 1, c))

NextWeekly(c, after) ==
  LET day == after.day + ((c.weekday - Weekday(after.day)) % 7)
  IN  FirstAfter(after, On(day, c), On(day + 7, c))

NextMonthly(c, after) ==
  LET month == MonthOf(after.day)
  IN  FirstAfter(after, On(MonthDay(c, month), c), On(MonthDay(c, month + 1), c))

ComputeNextRun(c, after) ==
  CASE c.frequency = "daily"   -> NextDaily(c, after)
    [] c.frequency = "weekly"  -> NextWeekly(c, after)
    [] c.frequency = "monthly" -> NextMonthly(c, after)

-----------------------------------------------------------------------------
\* One schedule, from its creation on: `after` is when next_run_at was last
\* computed.

CONSTANTS
  Start,    \* the days a schedule may be created on
  MaxLate   \* bound: by how many days a run may be late

\* The calendar is finite: a next run must still lie in it.
ASSUME StartAssumption == Start \subseteq {d \in Day : {MonthOf(d), MonthOf(d) + 1} \subseteq Month}
ASSUME LateAssumption  == MaxLate \in Nat

VARIABLES cadence, after, next

chainVars == <<cadence, after, next>>

StartChain ==
  /\ cadence \in Cadence
  /\ after \in [day : Start, at : TimeOfDay]
  /\ next = ComputeNextRun(cadence, after)

\* A tick finds the schedule due, at the earliest in the very second it is.
Advance ==
  \E late \in 0..MaxLate, at \in TimeOfDay :
    LET now == [day |-> next.day + late, at |-> at] IN
    /\ now.day \in Day /\ {MonthOf(now.day), MonthOf(now.day) + 1} \subseteq Month
    /\ ~Before(now, next)
    /\ after' = now
    /\ next' = ComputeNextRun(cadence, now)
    /\ UNCHANGED cadence

Chain == StartChain /\ [][Advance]_chainVars

-----------------------------------------------------------------------------
\* What a cadence means, day by day: a monthly schedule runs on the requested
\* day of every month that has it and on the last day of every other.
Matches(c, x) ==
  /\ x.at = c.at
  /\ c.frequency = "weekly"  => Weekday(x.day) = c.weekday
  /\ c.frequency = "monthly" =>
       LET n == x.day - FirstDay(MonthOf(x.day)) + 1
       IN  \/ n = c.monthday
           \/ n < c.monthday /\ n = DaysInMonth(MonthOf(x.day))

ChainTypeOK ==
  /\ cadence \in Cadence
  /\ after \in Moment
  /\ next \in [day : Nat, at : TimeOfDay]

\* "Return the first UTC datetime strictly after `after` matching the cadence"
\* (scheduler.py compute_next_run): it matches, it lies after, and nothing in
\* between matches, also in short months, across a year's end and when the
\* time of day is just passing.
NextIsFirst ==
  /\ Before(after, next)
  /\ Matches(cadence, next)
  /\ \A x \in [day : after.day..next.day, at : TimeOfDay] :
       Before(after, x) /\ Before(x, next) => ~Matches(cadence, x)
=============================================================================
