--------------------------- MODULE SchedulerProofs ---------------------------
(***************************************************************************)
(* The scheduler, in two parts.                                              *)
(*                                                                         *)
(* NextRun: for every calendar of months of 28 to 31 days and every           *)
(* resolution of the clock, compute_next_run returns the first match after    *)
(* its argument, and so no earlier one for a later argument.                  *)
(*                                                                         *)
(* Scheduler: for any number of schedules and requests and any cadence that   *)
(* has those two properties, no occurrence is skipped, none is run twice and   *)
(* none is made up for after a pause that a tick has seen the end of.        *)
(***************************************************************************)
EXTENDS NextRun, Scheduler, TLAPS

\* A day whose month and next month the calendar has.
Covered(d) == d \in Day /\ MonthOf(d) \in Month /\ MonthOf(d) + 1 \in Month

\* n is the first moment after t that the cadence matches.
IsNext(c, t, n) ==
  /\ Before(t, n)
  /\ Matches(c, n)
  /\ \A x \in [day : t.day..n.day, at : TimeOfDay] :
       Before(t, x) /\ Before(x, n) => ~Matches(c, x)

\* The weekday offset: from day d, the weekday w comes k days later and then
\* not before a week after that.
LEMMA WeekOffset ==
  ASSUME NEW d \in Nat, NEW w \in 0..6
  PROVE  LET k == (w - (d % 7)) % 7 IN
         /\ k \in 0..6
         /\ (d + k) % 7 = w /\ (d + k + 7) % 7 = w
         /\ \A j \in 0..13 : (d + j) % 7 = w => j = k \/ j = k + 7
<1> DEFINE k == (w - (d % 7)) % 7
<1>1. k \in 0..6
  BY SMT
<1>2. (d + k) % 7 = w /\ (d + k + 7) % 7 = w
  BY SMT
<1>3. ASSUME NEW j \in 0..13, (d + j) % 7 = w
      PROVE  j = k \/ j = k + 7
  BY <1>1, <1>2, <1>3, SMT
<1> QED
  BY <1>1, <1>2, <1>3

LEMMA Types ==
  ASSUME NEW c \in Cadence, NEW t \in Moment
  PROVE  /\ c.at \in TimeOfDay /\ c.at \in Nat
         /\ c.weekday \in 0..6 /\ c.monthday \in 1..31
         /\ t.day \in Day /\ t.day \in Nat /\ t.at \in TimeOfDay /\ t.at \in Nat
  BY DayAssumption, TimeAssumption, CadenceAssumption DEF Moment

LEMMA DailyIsNext ==
  ASSUME NEW c \in Cadence, c.frequency = "daily",
         NEW t \in Moment
  PROVE  IsNext(c, t, NextDaily(c, t)) /\ NextDaily(c, t) \in [day : Nat, at : TimeOfDay]
<1> DEFINE n == NextDaily(c, t)
<1>1. /\ n.at = c.at
      /\ \/ n.day = t.day /\ t.at < c.at
         \/ n.day = t.day + 1 /\ ~(t.at < c.at)
  BY Types DEF NextDaily, FirstAfter, On, Before
<1>2. n \in [day : Nat, at : TimeOfDay]
  BY Types DEF NextDaily, FirstAfter, On
<1> HIDE DEF n
<1>3. Before(t, n) /\ Matches(c, n)
  BY <1>1, Types DEF Before, Matches
<1>4. ASSUME NEW x \in [day : t.day..n.day, at : TimeOfDay],
             Before(t, x), Before(x, n)
      PROVE  ~Matches(c, x)
  <2>1. x.day \in t.day..n.day /\ x.at \in Nat /\ n.day \in Nat
    BY <1>2, <1>4, TimeAssumption
  <2>2. x.at # c.at
    BY <2>1, <1>1, <1>4, Types DEF Before
  <2> QED
    BY <2>2 DEF Matches
<1> QED
  BY <1>2, <1>3, <1>4 DEF IsNext, n

LEMMA WeeklyIsNext ==
  ASSUME NEW c \in Cadence, c.frequency = "weekly",
         NEW t \in Moment
  PROVE  IsNext(c, t, NextWeekly(c, t)) /\ NextWeekly(c, t) \in [day : Nat, at : TimeOfDay]
<1> DEFINE n == NextWeekly(c, t)
           k == (c.weekday - (t.day % 7)) % 7
<1>1. /\ k \in 0..6
      /\ (t.day + k) % 7 = c.weekday /\ (t.day + k + 7) % 7 = c.weekday
      /\ \A j \in 0..13 : (t.day + j) % 7 = c.weekday => j = k \/ j = k + 7
  BY WeekOffset, Types
<1>2. /\ n.at = c.at
      /\ \/ n.day = t.day + k /\ (k > 0 \/ t.at < c.at)
         \/ n.day = t.day + k + 7 /\ k = 0 /\ ~(t.at < c.at)
  BY Types, <1>1 DEF NextWeekly, FirstAfter, On, Before, Weekday
<1> HIDE DEF k
<1>3. n \in [day : Nat, at : TimeOfDay]
  BY Types, <1>1 DEF NextWeekly, FirstAfter, On, Weekday, k
<1> HIDE DEF n
<1>4. Before(t, n) /\ Matches(c, n)
  BY <1>1, <1>2, Types DEF Before, Matches, Weekday
<1>5. ASSUME NEW x \in [day : t.day..n.day, at : TimeOfDay],
             Before(t, x), Before(x, n)
      PROVE  ~Matches(c, x)
  <2>1. n.day \in Nat /\ n.day - t.day \in 0..13
    BY <1>1, <1>2, <1>3, Types
  <2>2. x.day \in t.day..n.day /\ x.at \in Nat
    BY <1>5, TimeAssumption
  <2>3. x.day \in Nat /\ x.day - t.day \in 0..13 /\ t.day + (x.day - t.day) = x.day
    BY <2>1, <2>2, Types
  <2>4. CASE x.day % 7 # c.weekday
    BY <2>4 DEF Matches, Weekday
  <2>5. CASE x.day % 7 = c.weekday
    <3>1. x.day = t.day + k \/ x.day = t.day + k + 7
      BY <1>1, <2>3, <2>5, Types
    <3>2. x.at # c.at
      BY <3>1, <2>1, <2>2, <1>1, <1>2, <1>5, Types DEF Before
    <3> QED
      BY <3>2 DEF Matches
  <2> QED
    BY <2>4, <2>5
<1> QED
  BY <1>3, <1>4, <1>5 DEF IsNext, n

\* The day of a month a monthly cadence falls on lies in that month, and it is
\* the only one there that matches.
LEMMA OneDayAMonth ==
  ASSUME NEW c \in Cadence, c.frequency = "monthly",
         NEW m \in Month
  PROVE  /\ m \in Nat /\ MonthDay(c, m) \in Nat /\ MonthDay(c, m) \in Day
         /\ FirstDay(m) \in Nat
         /\ FirstDay(m) <= MonthDay(c, m) /\ MonthDay(c, m) < FirstDay(m + 1)
         /\ \A x \in Moment : MonthOf(x.day) = m =>
              (Matches(c, x) <=> x.at = c.at /\ x.day = MonthDay(c, m))
<1>1. /\ c.monthday \in 1..31 /\ m \in Nat /\ FirstDay(m) \in Nat
      /\ DaysInMonth(m) \in 28..31 /\ FirstDay(m + 1) = FirstDay(m) + DaysInMonth(m)
      /\ FirstDay(m)..(FirstDay(m + 1) - 1) \subseteq Day
  BY CalendarAssumption, CadenceAssumption DEF DaysInMonth
<1>2. /\ MonthDay(c, m) \in Nat
      /\ FirstDay(m) <= MonthDay(c, m) /\ MonthDay(c, m) < FirstDay(m + 1)
  BY <1>1 DEF MonthDay
<1>3. MonthDay(c, m) \in Day
  BY <1>1, <1>2
<1>4. ASSUME NEW x \in Moment, MonthOf(x.day) = m
      PROVE  Matches(c, x) <=> x.at = c.at /\ x.day = MonthDay(c, m)
  <2>1. x.day \in Day /\ x.day \in Nat
    BY <1>4, DayAssumption DEF Moment
  <2>2. FirstDay(m) <= x.day /\ x.day < FirstDay(m + 1)
    BY <2>1, <1>4, CalendarAssumption
  <2> DEFINE n == x.day - FirstDay(m) + 1
  <2>3. (n = c.monthday \/ (n < c.monthday /\ n = DaysInMonth(m))) <=> x.day = MonthDay(c, m)
    BY <1>1, <2>1, <2>2 DEF MonthDay
  <2> QED
    BY <1>4, <2>3 DEF Matches
<1> QED
  BY <1>1, <1>2, <1>3, <1>4

LEMMA MonthlyIsNext ==
  ASSUME NEW c \in Cadence, c.frequency = "monthly",
         NEW t \in Moment, Covered(t.day)
  PROVE  IsNext(c, t, NextMonthly(c, t)) /\ NextMonthly(c, t) \in [day : Nat, at : TimeOfDay]
<1> DEFINE n  == NextMonthly(c, t)
           m  == MonthOf(t.day)
           d1 == MonthDay(c, m)
           d2 == MonthDay(c, m + 1)
<1>1. m \in Month /\ m + 1 \in Month /\ m \in Nat
  BY CalendarAssumption DEF Covered
<1>2. /\ d1 \in Nat /\ d1 \in Day /\ FirstDay(m) <= d1 /\ d1 < FirstDay(m + 1)
      /\ d2 \in Nat /\ d2 \in Day /\ FirstDay(m + 1) <= d2 /\ d2 < FirstDay(m + 2)
      /\ FirstDay(m) \in Nat /\ FirstDay(m + 1) \in Nat
  BY <1>1, OneDayAMonth, m + 1 + 1 = m + 2
<1>3. MonthOf(d1) = m /\ MonthOf(d2) = m + 1
  BY <1>1, <1>2, CalendarAssumption, m + 1 + 1 = m + 2
<1>4. FirstDay(m) <= t.day /\ t.day < FirstDay(m + 1)
  BY <1>1, Types, CalendarAssumption
<1>5. /\ n.at = c.at
      /\ \/ n.day = d1 /\ (t.day < d1 \/ (t.day = d1 /\ t.at < c.at))
         \/ n.day = d2 /\ ~(t.day < d1 \/ (t.day = d1 /\ t.at < c.at))
  BY DEF NextMonthly, FirstAfter, On, Before
<1>6. n \in [day : Nat, at : TimeOfDay] /\ n.day \in Day
  BY <1>2, Types DEF NextMonthly, FirstAfter, On
<1> HIDE DEF n, m, d1, d2
<1>7. Before(t, n)
  BY <1>1, <1>2, <1>4, <1>5, Types DEF Before
<1>8. Matches(c, n)
  <2>1. n \in Moment
    BY <1>6 DEF Moment
  <2> QED
    BY <2>1, <1>1, <1>3, <1>5, OneDayAMonth DEF d1, d2
<1>9. ASSUME NEW x \in [day : t.day..n.day, at : TimeOfDay],
             Before(t, x), Before(x, n)
      PROVE  ~Matches(c, x)
  <2>1. /\ x.day \in t.day..n.day /\ x.at \in TimeOfDay /\ x.at \in Nat
        /\ x = [day |-> x.day, at |-> x.at]
    BY <1>9, TimeAssumption
  <2>2. x.day \in FirstDay(m)..(FirstDay(m + 1) - 1) \/ x.day \in FirstDay(m + 1)..(FirstDay(m + 2) - 1)
    BY <2>1, <1>1, <1>2, <1>4, <1>5, <1>6, Types, CalendarAssumption, m + 1 + 1 = m + 2
  <2>3. x.day \in Day /\ x \in Moment
    BY <2>1, <2>2, <1>1, CalendarAssumption, m + 1 + 1 = m + 2 DEF Moment
  <2>4. CASE x.day \in FirstDay(m)..(FirstDay(m + 1) - 1)
    <3>1. MonthOf(x.day) = m
      BY <2>3, <2>4, <1>1, <1>2, CalendarAssumption
    <3>2. ~(x.at = c.at /\ x.day = d1)
      BY <2>1, <2>4, <1>1, <1>2, <1>4, <1>5, <1>9, Types DEF Before
    <3> QED
      BY <3>1, <3>2, <2>3, <1>1, OneDayAMonth DEF d1
  <2>5. CASE x.day \in FirstDay(m + 1)..(FirstDay(m + 2) - 1)
    <3>1. MonthOf(x.day) = m + 1
      BY <2>3, <2>5, <1>1, <1>2, CalendarAssumption, m + 1 + 1 = m + 2
    <3>2. ~(x.at = c.at /\ x.day = d2)
      BY <2>1, <2>5, <1>1, <1>2, <1>4, <1>5, <1>9, Types DEF Before
    <3> QED
      BY <3>1, <3>2, <2>3, <1>1, OneDayAMonth DEF d2
  <2> QED
    BY <2>2, <2>4, <2>5
<1> QED
  BY <1>6, <1>7, <1>8, <1>9 DEF IsNext, n

-----------------------------------------------------------------------------
\* compute_next_run returns the first match strictly after its argument, for
\* every cadence and every moment whose month and next month the calendar has
\* (scheduler.py compute_next_run).
THEOREM ComputeNextRunIsNext ==
  ASSUME NEW c \in Cadence, NEW t \in Moment, Covered(t.day)
  PROVE  IsNext(c, t, ComputeNextRun(c, t)) /\ ComputeNextRun(c, t) \in [day : Nat, at : TimeOfDay]
<1>1. c.frequency \in {"daily", "weekly", "monthly"}
  BY CadenceAssumption DEF Frequencies
<1>2. CASE c.frequency = "daily"
  BY <1>2, DailyIsNext DEF ComputeNextRun
<1>3. CASE c.frequency = "weekly"
  BY <1>3, WeeklyIsNext DEF ComputeNextRun
<1>4. CASE c.frequency = "monthly"
  BY <1>4, MonthlyIsNext DEF ComputeNextRun
<1> QED
  BY <1>1, <1>2, <1>3, <1>4

\* A later argument never gets an earlier occurrence: with the one before, all
\* that Scheduler assumes of NextRun.
THEOREM ComputeNextRunMonotone ==
  ASSUME NEW c \in Cadence, NEW s \in Moment, NEW t \in Moment,
         Covered(s.day), Covered(t.day), ~Before(t, s)
  PROVE  ~Before(ComputeNextRun(c, t), ComputeNextRun(c, s))
<1>1. PICK n : n = ComputeNextRun(c, s)
  OBVIOUS
<1>2. PICK m : m = ComputeNextRun(c, t)
  OBVIOUS
<1>3. /\ IsNext(c, s, n) /\ n \in [day : Nat, at : TimeOfDay]
      /\ IsNext(c, t, m) /\ m \in [day : Nat, at : TimeOfDay]
  BY <1>1, <1>2, ComputeNextRunIsNext
<1>4. SUFFICES ASSUME Before(m, n)
               PROVE  FALSE
  BY <1>1, <1>2
<1>5. /\ s.day \in Nat /\ s.at \in Nat /\ t.day \in Nat /\ t.at \in Nat
      /\ n.day \in Nat /\ n.at \in Nat /\ m.day \in Nat /\ m.at \in Nat /\ m.at \in TimeOfDay
  BY <1>3, Types, DayAssumption, TimeAssumption DEF Moment
<1>6. Before(t, m)
  BY <1>3 DEF IsNext
<1>7. Before(s, m)
  BY <1>5, <1>6 DEF Before
<1>8. m \in [day : s.day..n.day, at : TimeOfDay]
  <2>1. m.day \in s.day..n.day
    BY <1>4, <1>5, <1>7 DEF Before
  <2> QED  BY <1>3, <2>1
<1>9. ~Matches(c, m)
  BY <1>3, <1>4, <1>7, <1>8 DEF IsNext
<1> QED  BY <1>3, <1>9 DEF IsNext

\* The stored next run is always the one computed from the last tick.
ChainInv ==
  /\ cadence \in Cadence
  /\ after \in Moment /\ Covered(after.day)
  /\ next = ComputeNextRun(cadence, after)

LEMMA ChainInvariance == Chain => []ChainInv
<1>1. StartChain => ChainInv
  BY StartAssumption DEF StartChain, ChainInv, Moment, Covered
<1>2. ChainInv /\ [Advance]_chainVars => ChainInv'
  <2> SUFFICES ASSUME ChainInv, [Advance]_chainVars
               PROVE  ChainInv'
    OBVIOUS
  <2>1. CASE Advance
    <3>1. PICK late \in 0..MaxLate, at \in TimeOfDay :
            LET now == [day |-> next.day + late, at |-> at] IN
            /\ now.day \in Day /\ {MonthOf(now.day), MonthOf(now.day) + 1} \subseteq Month
            /\ after' = now /\ next' = ComputeNextRun(cadence, now) /\ cadence' = cadence
      BY <2>1 DEF Advance
    <3> QED
      BY <3>1 DEF ChainInv, Moment, Covered
  <2>2. CASE UNCHANGED chainVars
    BY <2>2 DEF chainVars, ChainInv
  <2> QED
    BY <2>1, <2>2
<1> QED
  BY <1>1, <1>2, PTL DEF Chain

\* Every stored next run is a moment (models.py ScheduledRun.next_run_at).
THEOREM ChainTypeCorrect == Chain => []ChainTypeOK
<1>1. ChainInv => ChainTypeOK
  BY ComputeNextRunIsNext DEF ChainInv, ChainTypeOK
<1> QED
  BY <1>1, ChainInvariance, PTL

\* However late the ticks are, a schedule's next run is the first occurrence
\* after the tick that set it: none is skipped but those the tick was too late
\* for, and none is made up (scheduler.py compute_next_run).
THEOREM AlwaysFirst == Chain => []NextIsFirst
<1>1. ChainInv => NextIsFirst
  BY ComputeNextRunIsNext DEF ChainInv, NextIsFirst, IsNext
<1> QED
  BY <1>1, ChainInvariance, PTL

-----------------------------------------------------------------------------
\* The ticker and the requests that run beside it.

\* No run began later than now, or later than the tick that is under way.
Clocked ==
  /\ ticker.now <= clock
  /\ \A i \in Id : tried[i] <= clock
  /\ ticker.pc # "asleep" => \A i \in Id : tried[i] <= ticker.now

\* A new schedule gets a number that no row and no loaded object has.
Numbered == \A i \in Id : row[i].gen <= created /\ ticker.loaded[i].gen <= created

\* What a request has loaded.
Sound(q) ==
  /\ q.op = "toggle" => q.id \in Id /\ q.gen \in 1..MaxCreated
  /\ q.op \in {"delete", "run_now"} => q.id \in Id

Requests == \A r \in Request : Sound(req[r])

\* The run under way: of a schedule that was due, and noted unless the row has
\* gone to another schedule.
Running ==
  ticker.pc = "running" =>
    LET i == ticker.id IN
    /\ i \in Id /\ ticker.loaded[i].gen # 0 /\ ticker.loaded[i].next <= ticker.now
    /\ row[i].gen = ticker.loaded[i].gen => tried[i] = ticker.now

\* A row, or an object that shows one, whose next run is an occurrence after the
\* schedule was created or last resumed.
Waits(k) ==
  k.gen # 0 /\ k.raced \cap {"reused", "resumed"} = {} => k.next >= NextRun(k.gen, k.since)

Waiting == \A i \in Id : Waits(row[i]) /\ Waits(ticker.loaded[i])

SchedInv ==
  /\ TypeOK /\ Clocked /\ Numbered /\ Requests /\ Running /\ Waiting
  /\ NothingSkipped /\ NeverTwice

USE BoundsAssumption

LEMMA NextRunIs ==
  ASSUME NEW g \in 1..MaxCreated, NEW t \in Time
  PROVE  /\ NextRun(g, t) \in Nat /\ NextRun(g, t) > t /\ t \in Nat
         /\ \A s \in Time : s <= t => NextRun(g, s) <= NextRun(g, t)
<1>1. t \in 0..MaxClock /\ t \in Nat
  BY DEF Time
<1>2. /\ NextRun(g, t) \in Nat /\ NextRun(g, t) > t
      /\ \A s \in 0..t : NextRun(g, s) <= NextRun(g, t)
  BY <1>1, NextRunAssumption
<1>3. ASSUME NEW s \in Time, s <= t
      PROVE  NextRun(g, s) <= NextRun(g, t)
  <2>1. s \in 0..t
    BY <1>1, <1>3 DEF Time
  <2> QED  BY <1>2, <2>1
<1> QED  BY <1>1, <1>2, <1>3

LEMMA IdleTyped ==
  /\ Idle \in RequestState /\ Sound(Idle) /\ Idle.op = "none"
  /\ NoRow \in Row /\ NoRow.gen = 0 /\ Waits(NoRow)
<1>1. 0 \in Time /\ 0 \in 0..MaxId /\ 0 \in 0..MaxCreated
  BY DEF Time
<1>2. NoRow \in Row /\ NoRow.gen = 0
  BY <1>1 DEF NoRow, Row
<1>3. Idle \in RequestState /\ Idle.op = "none"
  BY <1>1 DEF Idle, RequestState
<1>4. Sound(Idle) /\ Waits(NoRow)
  BY <1>2, <1>3 DEF Sound, Waits
<1> QED  BY <1>2, <1>3, <1>4

LEMMA AsleepTyped ==
  /\ Asleep \in Ticker /\ Asleep.pc = "asleep" /\ Asleep.now = 0
  /\ \A i \in Id : Asleep.loaded[i] = NoRow
<1>1. 0 \in Time /\ 0 \in 0..MaxId /\ {} \in SUBSET Id
  BY DEF Time
<1>2. [i \in Id |-> NoRow] \in [Id -> Row]
  BY IdleTyped
<1>3. Asleep \in Ticker
  BY <1>1, <1>2 DEF Asleep, Ticker
<1> QED  BY <1>3, IdleTyped DEF Asleep

LEMMA Typed ==
  ASSUME SchedInv
  PROVE  /\ row \in [Id -> Row] /\ tried \in [Id -> Time] /\ ticker \in Ticker
         /\ clock \in Time /\ created \in 0..MaxCreated /\ ticker.now \in Time
         /\ ticker.loaded \in [Id -> Row] /\ ticker.todo \in SUBSET Id
         /\ \A i \in Id : row[i] \in Row /\ tried[i] \in Time /\ ticker.loaded[i] \in Row
         /\ \A r \in Request : req[r] \in RequestState
BY DEF SchedInv, TypeOK, Ticker

\* The bookkeeping of a step of request r that leaves the rows alone.
LEMMA RequestStep ==
  ASSUME SchedInv, NEW r \in Request, NEW q \in RequestState, Sound(q),
         req' = [req EXCEPT ![r] = q],
         UNCHANGED <<row, clock, ticker, created, tried, restarts>>
  PROVE  SchedInv'
<1>1. /\ req'[r] = q /\ \A s \in Request : s # r => req'[s] = req[s]
      /\ req' \in [Request -> RequestState]
  BY DEF SchedInv, TypeOK
<1>2. TypeOK'
  BY <1>1 DEF SchedInv, TypeOK
<1>3. Requests'
  BY <1>1, Zenon DEF SchedInv, Requests
<1>4. Clocked' /\ Numbered' /\ Running' /\ Waiting'
  BY DEF SchedInv, Clocked, Numbered, Running, Waiting
<1>5. NothingSkipped' /\ NeverTwice'
  BY DEF SchedInv, NothingSkipped, NeverTwice, Exists
<1> QED  BY <1>2, <1>3, <1>4, <1>5 DEF SchedInv

\* The bookkeeping of a request that finishes.
LEMMA Finished ==
  ASSUME SchedInv, NEW r \in Request, Finish(r)
  PROVE  req' \in [Request -> RequestState] /\ Requests'
<1>1. /\ req'[r] = Idle /\ \A s \in Request : s # r => req'[s] = req[s]
      /\ req' \in [Request -> RequestState]
  BY IdleTyped DEF SchedInv, TypeOK, Finish
<1>2. Requests'
  BY <1>1, IdleTyped, Zenon DEF SchedInv, Requests
<1> QED  BY <1>1, <1>2

-----------------------------------------------------------------------------
\* The ticker moves on between two runs.
LEMMA TickerStep ==
  ASSUME SchedInv, ticker.pc # "running", ticker' \in Ticker, ticker'.pc # "running",
         ticker'.now <= clock,
         \A i \in Id : ticker'.loaded[i].gen <= created /\ Waits(ticker'.loaded[i]),
         ticker'.pc # "asleep" => \A i \in Id : tried[i] <= ticker'.now,
         UNCHANGED <<row, clock, req, created, tried, restarts>>
  PROVE  SchedInv'
<1>1. TypeOK' /\ Clocked' /\ Numbered' /\ Requests'
  BY DEF SchedInv, TypeOK, Clocked, Numbered, Requests
<1>2. NothingSkipped'
  BY DEF SchedInv, Exists, NothingSkipped
<1>3. Running' /\ Waiting'
  <2>1. ASSUME NEW i \in Id
        PROVE  Waits(row[i]) /\ Waits(ticker'.loaded[i])
    BY DEF SchedInv, Waiting
  <2> QED  BY <2>1 DEF Running, Waiting, Waits
<1>4. NeverTwice'
  BY DEF SchedInv, NeverTwice, Exists
<1> QED  BY <1>1, <1>2, <1>3, <1>4 DEF SchedInv

LEMMA WakeKeeps ==
  ASSUME SchedInv, Wake
  PROVE  SchedInv'
<1>1. PICK k : k = [pc |-> "scanning", now |-> clock, loaded |-> row, committed |-> FALSE,
                    todo |-> {i \in Id : Exists(i) /\ row[i].enabled}, id |-> 0]
  OBVIOUS
<1>2. ticker' = k /\ ticker.pc = "asleep" /\ UNCHANGED <<row, clock, req, created, tried, restarts>>
  BY <1>1 DEF Wake
<1>3. k \in Ticker
  <2>1. {i \in Id : Exists(i) /\ row[i].enabled} \in SUBSET Id /\ 0 \in 0..MaxId
    OBVIOUS
  <2> QED  BY <1>1, <2>1 DEF SchedInv, TypeOK, Ticker
<1>4. k.pc = "scanning" /\ k.now = clock /\ k.loaded = row
  BY <1>1
<1>5. clock <= clock /\ \A i \in Id : row[i].gen <= created /\ Waits(row[i]) /\ tried[i] <= clock
  BY DEF SchedInv, TypeOK, Time, Numbered, Clocked, Waiting
<1> QED  BY <1>2, <1>3, <1>4, <1>5, TickerStep

LEMMA AbortKeeps ==
  ASSUME SchedInv, AbortTick, ticker.pc # "running",
         UNCHANGED <<row, clock, req, created, tried, restarts>>
  PROVE  SchedInv'
<1>1. ticker' = Asleep
  BY DEF AbortTick
<1>2. 0 <= clock /\ 0 <= created
  BY DEF SchedInv, TypeOK, Time
<1> QED  BY <1>1, <1>2, AsleepTyped, IdleTyped, TickerStep

LEMMA EndTickKeeps ==
  ASSUME SchedInv, EndTick
  PROVE  SchedInv'
BY AbortKeeps DEF EndTick, AbortTick

LEMMA SkipKeeps ==
  ASSUME SchedInv, NEW i \in Id, Skip(i)
  PROVE  SchedInv'
<1>1. ticker.pc = "scanning" /\ UNCHANGED <<row, clock, req, created, tried, restarts>>
  BY DEF Skip
<1>2. CASE AbortTick
  BY <1>1, <1>2, AbortKeeps
<1>3. CASE ticker' = [ticker EXCEPT !.todo = @ \ {i}, !.loaded[i] = NoRow]
  <2>1. ticker \in Ticker /\ NoRow \in Row
    BY IdleTyped, Typed
  <2>2. PICK l : l = [ticker.loaded EXCEPT ![i] = NoRow]
    OBVIOUS
  <2>3. l \in [Id -> Row] /\ \A j \in Id : l[j] = NoRow \/ l[j] = ticker.loaded[j]
    BY <2>1, <2>2 DEF Ticker
  <2>4. ticker' = [ticker EXCEPT !.todo = @ \ {i}, !.loaded = l]
    BY <1>3, <2>1, <2>2 DEF Ticker
  <2>5. /\ ticker' \in Ticker /\ ticker'.pc = "scanning" /\ ticker'.now = ticker.now
        /\ ticker'.loaded = l
    BY <1>1, <2>1, <2>3, <2>4 DEF Ticker
  <2>6. /\ ticker.now <= clock /\ 0 <= created
        /\ \A j \in Id : /\ ticker.loaded[j].gen <= created /\ Waits(ticker.loaded[j])
                         /\ tried[j] <= ticker.now
    BY <1>1 DEF SchedInv, Clocked, Numbered, TypeOK, Waiting
  <2>7. \A j \in Id : l[j].gen <= created /\ Waits(l[j])
    BY <2>3, <2>6, IdleTyped
  <2> QED  BY <1>1, <2>5, <2>6, <2>7, TickerStep
<1> QED  BY <1>2, <1>3 DEF Skip

\* An object shows a row that its schedule waits in.
LEMMA ShownWaits ==
  ASSUME SchedInv, NEW i \in Id
  PROVE  Shown(i) \in Row /\ Shown(i).gen <= created /\ Waits(Shown(i))
BY Typed DEF Shown, SchedInv, Numbered, Waiting

LEMMA FireKeeps ==
  ASSUME SchedInv, NEW i \in Id, Fire(i)
  PROVE  SchedInv'
<1>1. /\ ticker.pc = "scanning" /\ Shown(i).gen # 0 /\ Shown(i).next <= ticker.now
      /\ ticker' = [ticker EXCEPT !.pc = "running", !.id = i, !.todo = @ \ {i},
                                  !.loaded[i] = Shown(i)]
      /\ tried' = IF row[i].gen = Shown(i).gen THEN [tried EXCEPT ![i] = ticker.now] ELSE tried
      /\ UNCHANGED <<row, clock, req, created, restarts>>
  BY DEF Fire
<1>2. PICK k : k = Shown(i)
  OBVIOUS
<1>3. k \in Row /\ k.gen <= created /\ Waits(k)
  BY <1>2, ShownWaits
<1>4. PICK l : l = [ticker.loaded EXCEPT ![i] = k]
  OBVIOUS
<1>5. l \in [Id -> Row] /\ l[i] = k /\ \A j \in Id : l[j] = k \/ l[j] = ticker.loaded[j]
  BY <1>3, <1>4, Typed
<1>6. ticker' = [ticker EXCEPT !.pc = "running", !.id = i, !.todo = @ \ {i}, !.loaded = l]
  BY <1>1, <1>2, <1>4, Typed DEF Ticker
<1>7. /\ ticker' \in Ticker /\ ticker'.pc = "running" /\ ticker'.now = ticker.now
      /\ ticker'.loaded = l /\ ticker'.id = i
  <2>1. i \in 0..MaxId
    BY DEF Id
  <2>2. ticker \in Ticker /\ ticker.todo \ {i} \in SUBSET Id
    BY Typed
  <2> QED  BY <1>5, <1>6, <2>1, <2>2 DEF Ticker
<1>8. /\ tried' \in [Id -> Time]
      /\ \A j \in Id : tried'[j] = tried[j] \/ (tried'[j] = ticker.now /\ j = i)
      /\ row[i].gen = k.gen => tried'[i] = ticker.now
  <2>1. tried \in [Id -> Time] /\ ticker.now \in Time
    BY Typed
  <2>2. CASE row[i].gen = k.gen
    BY <1>1, <1>2, <2>1, <2>2
  <2>3. CASE row[i].gen # k.gen
    BY <1>1, <1>2, <2>1, <2>3
  <2> QED  BY <2>2, <2>3
<1>9. /\ ticker.now \in Time /\ ticker.now <= clock
      /\ \A j \in Id : tried[j] <= ticker.now /\ tried[j] \in Time
  BY <1>1, Typed DEF SchedInv, Clocked
<1>10. TypeOK'
  BY <1>1, <1>7, <1>8 DEF SchedInv, TypeOK
<1>11. Clocked'
  <2>1. \A j \in Id : tried'[j] <= ticker.now
    BY <1>8, <1>9 DEF Time
  <2>2. \A j \in Id : tried'[j] <= clock
    BY <1>8, <1>9 DEF SchedInv, Clocked
  <2> QED  BY <1>1, <1>7, <1>8, <2>1, <2>2 DEF SchedInv, Clocked
<1>12. Numbered' /\ Waiting'
  <2>1. ASSUME NEW j \in Id
        PROVE  row[j].gen <= created /\ l[j].gen <= created /\ Waits(row[j]) /\ Waits(l[j])
    BY <1>3, <1>5 DEF SchedInv, Numbered, Waiting
  <2> QED  BY <1>1, <1>7, <2>1 DEF Numbered, Waiting, Waits
<1>13. Requests'
  BY <1>1 DEF SchedInv, Requests
<1>14. Running'
  BY <1>1, <1>2, <1>5, <1>7, <1>8 DEF Running
<1>15. NothingSkipped'
  <2>1. SUFFICES ASSUME NEW j \in Id, row[j].gen # 0, "reused" \notin row[j].raced
                 PROVE  \/ row[j].next <= NextRun(row[j].gen, tried'[j])
                        \/ row[j].next <= NextRun(row[j].gen, row[j].since)
    BY <1>1 DEF NothingSkipped, Exists
  <2>2. \/ row[j].next <= NextRun(row[j].gen, tried[j])
        \/ row[j].next <= NextRun(row[j].gen, row[j].since)
    BY <2>1 DEF SchedInv, NothingSkipped, Exists
  <2>3. row[j].gen \in 1..MaxCreated /\ row[j].next \in Nat
    BY <2>1, Typed DEF Row
  <2>4. NextRun(row[j].gen, tried[j]) <= NextRun(row[j].gen, ticker.now)
    BY <1>9, <2>3, NextRunIs
  <2>5. NextRun(row[j].gen, tried[j]) \in Nat /\ NextRun(row[j].gen, ticker.now) \in Nat
    BY <1>9, <2>3, NextRunIs
  <2>6. CASE tried'[j] = tried[j]
    BY <2>2, <2>6
  <2>7. CASE tried'[j] = ticker.now
    BY <2>2, <2>3, <2>4, <2>5, <2>7
  <2> QED  BY <1>8, <2>6, <2>7
<1>16. NeverTwice'
  <2>1. SUFFICES ASSUME restarts = 0, NEW j \in Id, row[j].gen # 0,
                        row[j].raced \cap {"reused", "overtaken"} = {}, j # i
                 PROVE  tried'[j] = 0 \/ row[j].next > tried'[j]
    BY <1>1, <1>7, <1>8 DEF NeverTwice, Exists
  <2>2. tried'[j] = tried[j]
    BY <1>8, <2>1
  <2>3. tried[j] = 0 \/ row[j].next > tried[j]
    BY <1>1, <2>1 DEF SchedInv, NeverTwice, Exists
  <2> QED  BY <2>2, <2>3
<1> QED  BY <1>10, <1>11, <1>12, <1>13, <1>14, <1>15, <1>16 DEF SchedInv

-----------------------------------------------------------------------------
\* A step that may write the row of schedule i, and no other.
Writes(i, k, p) ==
  /\ row' = [row EXCEPT ![i] = k] /\ tried' = [tried EXCEPT ![i] = p]
  /\ k \in Row /\ p \in Time

\* What makes a written row keep the properties, when `busy` says that the run of
\* its schedule is under way.
Fits(k, p, busy) ==
  k.gen # 0 =>
    /\ Waits(k)
    /\ "reused" \notin k.raced =>
         k.next <= NextRun(k.gen, p) \/ k.next <= NextRun(k.gen, k.since)
    /\ restarts = 0 /\ k.raced \cap {"reused", "overtaken"} = {} /\ ~busy =>
         p = 0 \/ k.next > p

LEMMA WriteStep ==
  ASSUME SchedInv, NEW i \in Id, NEW k, NEW p, Writes(i, k, p), restarts' = restarts,
         NEW busy \in BOOLEAN, Fits(k, p, busy),
         busy => ticker'.pc = "running" /\ ticker'.id = i,
         \A j \in Id : j # i =>
            (ticker.pc = "running" /\ ticker.id = j => ticker'.pc = "running" /\ ticker'.id = j)
  PROVE  /\ row' \in [Id -> Row] /\ tried' \in [Id -> Time]
         /\ row'[i] = k /\ tried'[i] = p
         /\ \A j \in Id : j # i => row'[j] = row[j] /\ tried'[j] = tried[j]
         /\ \A j \in Id : Waits(row'[j])
         /\ NothingSkipped' /\ NeverTwice'
<1>1. /\ row' \in [Id -> Row] /\ tried' \in [Id -> Time]
      /\ row'[i] = k /\ tried'[i] = p
      /\ \A j \in Id : j # i => row'[j] = row[j] /\ tried'[j] = tried[j]
  BY Typed DEF Writes
<1>2. \A j \in Id : Waits(row'[j])
  <2>1. Waits(k)
    BY DEF Fits, Waits
  <2> QED  BY <1>1, <2>1 DEF SchedInv, Waiting
<1>3. NothingSkipped'
  <2>1. SUFFICES ASSUME NEW j \in Id, row'[j].gen # 0, "reused" \notin row'[j].raced
                 PROVE  \/ row'[j].next <= NextRun(row'[j].gen, tried'[j])
                        \/ row'[j].next <= NextRun(row'[j].gen, row'[j].since)
    BY DEF NothingSkipped, Exists
  <2>2. CASE j = i
    BY <1>1, <2>1, <2>2 DEF Fits
  <2>3. CASE j # i
    BY <1>1, <2>1, <2>3 DEF SchedInv, NothingSkipped, Exists
  <2> QED  BY <2>2, <2>3
<1>4. NeverTwice'
  <2>1. SUFFICES ASSUME restarts = 0, NEW j \in Id, row'[j].gen # 0,
                        row'[j].raced \cap {"reused", "overtaken"} = {},
                        ~(ticker'.pc = "running" /\ ticker'.id = j)
                 PROVE  tried'[j] = 0 \/ row'[j].next > tried'[j]
    BY DEF NeverTwice, Exists
  <2>2. CASE j = i
    BY <1>1, <2>1, <2>2 DEF Fits
  <2>3. CASE j # i
    BY <1>1, <2>1, <2>3 DEF SchedInv, NeverTwice, Exists
  <2> QED  BY <2>2, <2>3
<1> QED  BY <1>1, <1>2, <1>3, <1>4

-----------------------------------------------------------------------------
LEMMA RecordKeeps ==
  ASSUME SchedInv, Record
  PROVE  SchedInv'
<1>1. PICK i : i = ticker.id
  OBVIOUS
<1>2. /\ ticker.pc = "running" /\ UNCHANGED <<clock, req, created, tried, restarts>>
      /\ i \in Id /\ ticker.loaded[i].gen # 0 /\ ticker.loaded[i].next <= ticker.now
      /\ row[i].gen = ticker.loaded[i].gen => tried[i] = ticker.now
  BY <1>1 DEF Record, SchedInv, Running
<1>3. /\ ticker.now \in Time /\ ticker.now <= clock /\ clock \in Time /\ row[i] \in Row
      /\ tried[i] \in Time /\ ticker.loaded[i] \in Row
  BY <1>2, Typed DEF SchedInv, Clocked
<1>4. CASE Exists(i)
  <2>1. PICK g : g = ticker.loaded[i].gen
    OBVIOUS
  <2>2. PICK marks : marks = Stale(i, g) \cup Overtaken(row[i].since, ticker.now, "resumed")
    OBVIOUS
  <2>3. /\ row' = [row EXCEPT ![i].next = NextRun(g, ticker.now), ![i].raced = marks]
        /\ ticker' = [ticker EXCEPT !.pc = "scanning", !.id = 0, !.committed = TRUE,
                                    !.loaded = [j \in Id |-> NoRow]]
    BY <1>1, <1>4, <2>1, <2>2 DEF Record, ExpireAll
  <2>4. g \in 1..MaxCreated
    BY <1>2, <1>3, <2>1 DEF Row
  <2>5. /\ NextRun(g, ticker.now) \in Nat /\ NextRun(g, ticker.now) > ticker.now
        /\ \A s \in Time : s <= ticker.now => NextRun(g, s) <= NextRun(g, ticker.now)
    BY <1>3, <2>4, NextRunIs
  <2>6. PICK k : k = [row[i] EXCEPT !.next = NextRun(g, ticker.now), !.raced = marks]
    OBVIOUS
  <2>7. marks \in SUBSET {"reused", "resumed", "overtaken"}
    BY <2>2 DEF Stale, Overtaken
  <2>8. /\ k \in Row /\ k.next = NextRun(g, ticker.now) /\ k.gen = row[i].gen
        /\ k.since = row[i].since /\ k.raced = marks
    BY <1>3, <2>5, <2>6, <2>7 DEF Row
  <2>9. Writes(i, k, tried[i])
    BY <1>2, <1>3, <2>3, <2>6, <2>8, Typed DEF Writes
  <2>10. "reused" \notin k.raced => g = k.gen /\ tried[i] = ticker.now
    BY <1>2, <2>1, <2>2, <2>8 DEF Stale
  <2>11. "resumed" \notin k.raced => k.since <= ticker.now /\ k.since \in Time
    <3>1. ticker.now \in Nat /\ row[i].since \in Time /\ row[i].since \in Nat
      BY <1>3 DEF Row, Time
    <3>2. "resumed" \notin marks => ~(row[i].since > ticker.now)
      BY <2>2 DEF Overtaken
    <3> QED  BY <2>8, <3>1, <3>2
  <2>12. Fits(k, tried[i], FALSE)
    <3>1. ticker.now \in Nat
      BY <1>3 DEF Time
    <3>2. Waits(k)
      <4>1. SUFFICES ASSUME k.raced \cap {"reused", "resumed"} = {}
                     PROVE  k.next >= NextRun(k.gen, k.since)
        BY DEF Waits
      <4>2. g = k.gen /\ k.since <= ticker.now /\ k.since \in Time
        BY <2>10, <2>11, <4>1
      <4>3. NextRun(g, k.since) <= NextRun(g, ticker.now) /\ NextRun(g, k.since) \in Nat
        BY <2>4, <2>5, <4>2, NextRunIs
      <4> QED  BY <2>5, <2>8, <4>2, <4>3
    <3>3. "reused" \notin k.raced => k.next <= NextRun(k.gen, tried[i]) /\ k.next > tried[i]
      BY <2>5, <2>8, <2>10, <3>1
    <3>4. k.raced \cap {"reused", "overtaken"} = {} => "reused" \notin k.raced
      OBVIOUS
    <3> QED  BY <3>2, <3>3, <3>4 DEF Fits
  <2>13. /\ ticker' \in Ticker /\ ticker'.pc = "scanning" /\ ticker'.now = ticker.now
         /\ ticker'.loaded = [j \in Id |-> NoRow]
    <3>1. [j \in Id |-> NoRow] \in [Id -> Row] /\ 0 \in 0..MaxId
      BY IdleTyped
    <3> QED  BY <2>3, <3>1, Typed DEF Ticker
  <2>14. /\ row' \in [Id -> Row] /\ row'[i] = k
         /\ \A j \in Id : j # i => row'[j] = row[j]
         /\ \A j \in Id : Waits(row'[j])
         /\ NothingSkipped' /\ NeverTwice'
    BY <1>1, <1>2, <2>9, <2>12, WriteStep
  <2>15. TypeOK'
    BY <1>2, <2>13, <2>14 DEF SchedInv, TypeOK
  <2>16. Clocked'
    BY <1>2, <2>13 DEF SchedInv, Clocked
  <2>17. \A j \in Id : row'[j].gen = row[j].gen
    BY <2>8, <2>14
  <2>18. Numbered'
    BY <1>2, <2>13, <2>17, IdleTyped DEF SchedInv, Numbered, TypeOK
  <2>19. Waiting'
    BY <2>13, <2>14, IdleTyped DEF Waiting, Waits
  <2>20. Requests' /\ Running'
    BY <1>2, <2>13 DEF SchedInv, Requests, Running
  <2> QED  BY <2>14, <2>15, <2>16, <2>18, <2>19, <2>20 DEF SchedInv
<1>5. CASE ~Exists(i)
  <2>1. ticker' = Asleep /\ row' = row
    BY <1>1, <1>5 DEF Record, AbortTick
  <2>2. TypeOK' /\ Requests'
    BY <1>2, <2>1, AsleepTyped DEF SchedInv, TypeOK, Requests
  <2>3. Clocked'
    BY <1>2, <1>3, <2>1, AsleepTyped DEF SchedInv, Clocked, Time
  <2>4. Numbered'
    BY <1>2, <2>1, AsleepTyped, IdleTyped DEF SchedInv, Numbered, TypeOK
  <2>5. NothingSkipped'
    BY <1>2, <2>1 DEF SchedInv, NothingSkipped, Exists
  <2>6. NeverTwice'
    BY <1>1, <1>2, <1>5, <2>1 DEF SchedInv, NeverTwice, Exists
  <2>7. Running' /\ Waiting'
    BY <2>1, AsleepTyped, IdleTyped DEF SchedInv, Running, Waiting, Waits
  <2> QED  BY <2>2, <2>3, <2>4, <2>5, <2>6, <2>7 DEF SchedInv
<1> QED  BY <1>4, <1>5

-----------------------------------------------------------------------------
\* A request ends with a write to the row of schedule i: of the schedule that is
\* there, or of one with a new number.
LEMMA RequestWrites ==
  ASSUME SchedInv, NEW r \in Request, Finish(r), NEW i \in Id, NEW k, NEW p, Writes(i, k, p),
         UNCHANGED <<clock, ticker, restarts>>,
         created' \in 0..MaxCreated, created <= created', k.gen <= created',
         \/ k.gen = row[i].gen /\ p = tried[i]
         \/ k.gen > created /\ p = 0,
         Fits(k, p, ticker.pc = "running" /\ ticker.id = i)
  PROVE  SchedInv'
<1>1. /\ row' \in [Id -> Row] /\ tried' \in [Id -> Time]
      /\ row'[i] = k /\ tried'[i] = p
      /\ \A j \in Id : j # i => row'[j] = row[j] /\ tried'[j] = tried[j]
      /\ \A j \in Id : Waits(row'[j])
      /\ NothingSkipped' /\ NeverTwice'
  <2>1. PICK busy \in BOOLEAN : busy = (ticker.pc = "running" /\ ticker.id = i)
    OBVIOUS
  <2>2. Fits(k, p, busy)
    BY <2>1
  <2> QED  BY <2>1, <2>2, WriteStep
<1>2. req' \in [Request -> RequestState] /\ Requests'
  BY Finished
<1>3. TypeOK'
  BY <1>1, <1>2 DEF SchedInv, TypeOK
<1>4. clock \in Nat /\ ticker.now \in Nat /\ created \in Nat /\ created' \in Nat
  BY Typed DEF Time
<1>5. \A j \in Id : row[j].gen \in Nat /\ ticker.loaded[j].gen \in Nat
  BY Typed DEF Row
<1>6. Clocked'
  <2>1. p <= clock /\ (ticker.pc # "asleep" => p <= ticker.now)
    BY <1>4 DEF SchedInv, Clocked
  <2>2. ASSUME NEW j \in Id
        PROVE  tried'[j] <= clock /\ (ticker.pc # "asleep" => tried'[j] <= ticker.now)
    <3>1. CASE j = i
      BY <1>1, <2>1, <3>1
    <3>2. CASE j # i
      BY <1>1, <3>2 DEF SchedInv, Clocked
    <3> QED  BY <3>1, <3>2
  <2> QED  BY <2>2 DEF SchedInv, Clocked
<1>7. Numbered'
  <2>1. ASSUME NEW j \in Id
        PROVE  row'[j].gen <= created' /\ ticker.loaded[j].gen <= created'
    <3>1. row[j].gen <= created /\ ticker.loaded[j].gen <= created
      BY DEF SchedInv, Numbered
    <3>2. row[j].gen <= created' /\ ticker.loaded[j].gen <= created'
      BY <1>4, <1>5, <3>1
    <3> QED  BY <1>1, <3>2
  <2> QED  BY <2>1 DEF Numbered
<1>8. Waiting'
  <2>1. ASSUME NEW j \in Id
        PROVE  Waits(row'[j]) /\ Waits(ticker.loaded[j])
    BY <1>1 DEF SchedInv, Waiting
  <2> QED  BY <2>1 DEF Waiting, Waits
<1>9. Running'
  <2>1. SUFFICES ASSUME ticker.pc = "running", NEW j, j = ticker.id
                 PROVE  /\ j \in Id /\ ticker.loaded[j].gen # 0 /\ ticker.loaded[j].next <= ticker.now
                        /\ row'[j].gen = ticker.loaded[j].gen => tried'[j] = ticker.now
    BY DEF Running
  <2>2. /\ j \in Id /\ ticker.loaded[j].gen # 0 /\ ticker.loaded[j].next <= ticker.now
        /\ row[j].gen = ticker.loaded[j].gen => tried[j] = ticker.now
    BY <2>1 DEF SchedInv, Running
  <2>3. CASE j # i
    BY <1>1, <2>2, <2>3
  <2>4. CASE j = i /\ k.gen = row[i].gen /\ p = tried[i]
    BY <1>1, <2>2, <2>4
  <2>5. CASE j = i /\ k.gen > created
    <3>1. ticker.loaded[j].gen <= created
      BY <2>2 DEF SchedInv, Numbered
    <3>2. k.gen # ticker.loaded[j].gen
      BY <1>4, <1>5, <2>2, <2>5, <3>1
    <3> QED  BY <1>1, <2>2, <2>5, <3>2
  <2> QED  BY <2>3, <2>4, <2>5
<1> QED  BY <1>1, <1>2, <1>3, <1>6, <1>7, <1>8, <1>9 DEF SchedInv

LEMMA CommitCreateKeeps ==
  ASSUME SchedInv, NEW r \in Request, CommitCreate(r)
  PROVE  SchedInv'
<1>1. PICK i : i = CHOOSE n \in 1..(MaxId + 1) :
                     (n = 1 \/ Exists(n - 1)) /\ \A j \in n..MaxId : ~Exists(j)
  OBVIOUS
<1>2. PICK g : g = created + 1
  OBVIOUS
<1>3. PICK at : at = req[r].at
  OBVIOUS
<1>4. /\ created < MaxCreated /\ created' = g
      /\ row' = [row EXCEPT ![i] = [gen |-> g, enabled |-> TRUE, raced |-> {},
                                    next |-> NextRun(g, at), since |-> at]]
      /\ tried' = [tried EXCEPT ![i] = 0]
      /\ Finish(r) /\ UNCHANGED <<clock, ticker, restarts>>
  BY <1>1, <1>2, <1>3 DEF CommitCreate
<1>5. g \in 1..MaxCreated /\ created \in Nat /\ created < g /\ created <= g
  <2>1. created \in 0..MaxCreated
    BY Typed
  <2> QED  BY <1>2, <1>4, <2>1
<1>6. CASE i \in Id
  <2>1. at \in Time /\ 0 \in Time
    BY <1>3, Typed DEF RequestState, Time
  <2>2. NextRun(g, at) \in Nat /\ NextRun(g, at) > at
    BY <1>5, <2>1, NextRunIs
  <2>3. PICK k : k = [gen |-> g, enabled |-> TRUE, raced |-> {},
                      next |-> NextRun(g, at), since |-> at]
    OBVIOUS
  <2>4. /\ k \in Row /\ k.gen = g /\ k.next = NextRun(g, at) /\ k.since = at
    BY <1>5, <2>1, <2>2, <2>3 DEF Row
  <2>5. Writes(i, k, 0)
    BY <1>4, <2>1, <2>3, <2>4 DEF Writes
  <2>6. Fits(k, 0, ticker.pc = "running" /\ ticker.id = i)
    BY <2>2, <2>4 DEF Fits, Waits
  <2>7. created' \in 0..MaxCreated /\ created <= created' /\ k.gen <= created' /\ k.gen > created
    BY <1>4, <1>5, <2>4
  <2> QED  BY <1>4, <1>6, <2>5, <2>6, <2>7, RequestWrites
\* The id is one of the table's; were it not, nothing would be written.
<1>7. CASE i \notin Id
  <2>1. row' = row /\ tried' = tried
    BY <1>4, <1>7, Typed
  <2>2. created' \in 0..MaxCreated
    BY <1>4, <1>5
  <2>3. req' \in [Request -> RequestState] /\ Requests'
    BY <1>4, Finished
  <2>4. TypeOK'
    BY <1>4, <2>1, <2>2, <2>3 DEF SchedInv, TypeOK
  <2>5. Clocked' /\ Running' /\ Waiting'
    BY <1>4, <2>1 DEF SchedInv, Clocked, Running, Waiting
  <2>6. Numbered'
    <3>1. \A j \in Id : row[j].gen \in Nat /\ ticker.loaded[j].gen \in Nat
      BY Typed DEF Row
    <3>2. g \in Nat
      BY <1>5
    <3>3. ASSUME NEW j \in Id
          PROVE  row[j].gen <= g /\ ticker.loaded[j].gen <= g
      BY <1>5, <3>1, <3>2 DEF SchedInv, Numbered
    <3> QED  BY <1>4, <2>1, <3>3 DEF Numbered
  <2>7. NothingSkipped' /\ NeverTwice'
    BY <1>4, <2>1 DEF SchedInv, NothingSkipped, NeverTwice, Exists
  <2> QED  BY <2>3, <2>4, <2>5, <2>6, <2>7 DEF SchedInv
<1> QED  BY <1>6, <1>7

LEMMA CommitToggleKeeps ==
  ASSUME SchedInv, NEW r \in Request, CommitToggle(r)
  PROVE  SchedInv'
<1>1. PICK q : q = req[r]
  OBVIOUS
<1>2. /\ q.op = "toggle" /\ Finish(r) /\ UNCHANGED <<clock, ticker, created, tried, restarts>>
      /\ q \in RequestState /\ q.id \in Id /\ q.gen \in 1..MaxCreated /\ q.at \in Time
      /\ q.want \in BOOLEAN
  BY <1>1, Typed DEF CommitToggle, SchedInv, Requests, Sound, RequestState
<1>3. PICK i \in Id : i = q.id
  BY <1>2
<1>4. CASE ~Exists(i)
  <2>1. row' = row
    BY <1>1, <1>3, <1>4 DEF CommitToggle
  <2> QED  BY <1>2, <2>1, IdleTyped, RequestStep DEF Finish
<1>5. CASE Exists(i)
  <2>1. PICK k : k = IF q.want THEN Resumed(q, Toggled(q)) ELSE Toggled(q)
    OBVIOUS
  <2>2. row' = [row EXCEPT ![i] = k]
    BY <1>1, <1>3, <1>5, <2>1 DEF CommitToggle
  <2>3. /\ row[i] \in Row /\ row[i].gen \in 1..MaxCreated /\ tried[i] \in Time
        /\ NextRun(q.gen, q.at) \in Nat /\ NextRun(q.gen, q.at) > q.at
    BY <1>2, <1>5, Typed, NextRunIs DEF Exists, Row
  <2>4. PICK on \in BOOLEAN : on = IF q.want # q.was THEN q.want ELSE row[i].enabled
    BY <1>2, <2>3 DEF RequestState, Row
  <2>5. Toggled(q) = [row[i] EXCEPT !.enabled = on,
                                    !.next = IF q.want THEN NextRun(q.gen, q.at) ELSE @]
    BY <1>3, <2>3, <2>4 DEF Toggled, Row
  <2>6. tried' = [tried EXCEPT ![i] = tried[i]]
    BY <1>2, Typed
  <2>7. k.gen = row[i].gen /\ Writes(i, k, tried[i])
                           /\ Fits(k, tried[i], ticker.pc = "running" /\ ticker.id = i)
    <3>1. CASE q.want
      <4>1. PICK marks : marks = Stale(i, q.gen) \cup Overtaken(tried[i], q.at, "overtaken")
        OBVIOUS
      <4>2. marks \in SUBSET {"reused", "resumed", "overtaken"}
        BY <4>1 DEF Stale, Overtaken
      <4>3. k = [[row[i] EXCEPT !.enabled = on, !.next = NextRun(q.gen, q.at)]
                   EXCEPT !.since = q.at, !.raced = marks]
        BY <1>3, <2>1, <2>5, <3>1, <4>1 DEF Resumed
      <4>4. /\ k \in Row /\ k.gen = row[i].gen /\ k.next = NextRun(q.gen, q.at)
            /\ k.since = q.at /\ k.raced = marks
        BY <1>2, <2>3, <4>2, <4>3 DEF Row
      <4>5. "reused" \notin marks => q.gen = k.gen
        BY <4>1, <4>4 DEF Stale
      <4>6. "overtaken" \notin marks => tried[i] <= q.at
        <5>1. "overtaken" \notin marks => ~(tried[i] > q.at)
          BY <4>1 DEF Overtaken
        <5> QED  BY <1>2, <2>3, <5>1 DEF Time
      <4>7. marks \cap {"reused", "overtaken"} = {} => k.next > tried[i]
        <5>1. marks \cap {"reused", "overtaken"} = {} => tried[i] <= q.at
          BY <4>6
        <5> QED  BY <1>2, <2>3, <4>4, <5>1 DEF Time
      <4>8. "reused" \notin marks => k.next = NextRun(k.gen, k.since)
        BY <4>4, <4>5
      <4>9. k.next \in Nat
        BY <4>4 DEF Row
      <4>10. marks \cap {"reused", "resumed"} = {} => "reused" \notin marks
        OBVIOUS
      <4>11. Waits(k)
        BY <4>4, <4>8, <4>9, <4>10 DEF Waits
      <4>12. Fits(k, tried[i], ticker.pc = "running" /\ ticker.id = i)
        BY <4>4, <4>7, <4>8, <4>9, <4>11 DEF Fits
      <4> QED  BY <2>2, <2>3, <2>6, <4>4, <4>12 DEF Writes
    <3>2. CASE ~q.want
      <4>1. k = [row[i] EXCEPT !.enabled = on]
        BY <2>1, <2>3, <2>5, <3>2 DEF Row
      <4>2. /\ k \in Row /\ k.gen = row[i].gen /\ k.next = row[i].next
            /\ k.since = row[i].since /\ k.raced = row[i].raced
        BY <2>3, <4>1 DEF Row
      <4>3. Waits(row[i])
        BY DEF SchedInv, Waiting
      <4>4. Fits(k, tried[i], ticker.pc = "running" /\ ticker.id = i)
        BY <1>5, <4>2, <4>3 DEF Fits, Waits, SchedInv, NothingSkipped, NeverTwice
      <4> QED  BY <2>2, <2>3, <2>6, <4>2, <4>4 DEF Writes
    <3> QED  BY <3>1, <3>2
  <2>8. created' \in 0..MaxCreated /\ created <= created' /\ k.gen <= created'
    <3>1. created \in 0..MaxCreated /\ row[i].gen <= created
      BY Typed DEF SchedInv, Numbered
    <3> QED  BY <1>2, <2>7, <3>1
  <2> QED  BY <1>2, <2>7, <2>8, RequestWrites
<1> QED  BY <1>4, <1>5

\* Rows go: what is said of the others stays, and nothing is said of these.
LEMMA RemoveKeeps ==
  ASSUME SchedInv, NEW S, Remove(S), req' \in [Request -> RequestState], Requests',
         UNCHANGED <<clock, ticker, created, restarts>>
  PROVE  SchedInv'
<1>1. /\ row' \in [Id -> Row] /\ tried' \in [Id -> Time]
      /\ \A i \in Id : \/ row'[i] = row[i] /\ tried'[i] = tried[i]
                       \/ row'[i] = NoRow /\ tried'[i] = 0
  <2>1. /\ row' = [i \in Id |-> IF i \in S THEN NoRow ELSE row[i]]
        /\ tried' = [i \in Id |-> IF i \in S THEN 0 ELSE tried[i]]
    BY DEF Remove
  <2>2. 0 \in Time
    BY DEF Time
  <2> QED  BY <2>1, <2>2, IdleTyped, Typed
<1>2. TypeOK'
  BY <1>1 DEF SchedInv, TypeOK
<1>3. Clocked'
  <2>1. 0 <= clock /\ 0 <= ticker.now
    BY Typed DEF Time
  <2>2. ASSUME NEW i \in Id
        PROVE  tried'[i] <= clock /\ (ticker.pc # "asleep" => tried'[i] <= ticker.now)
    BY <1>1, <2>1 DEF SchedInv, Clocked
  <2> QED  BY <2>2 DEF SchedInv, Clocked
<1>4. Numbered' /\ Waiting'
  <2>1. 0 <= created
    BY Typed
  <2>2. ASSUME NEW i \in Id
        PROVE  /\ row'[i].gen <= created /\ ticker.loaded[i].gen <= created
               /\ Waits(row'[i]) /\ Waits(ticker.loaded[i])
    BY <1>1, <2>1, IdleTyped DEF SchedInv, Numbered, Waiting
  <2> QED  BY <2>2 DEF Numbered, Waiting, Waits
<1>5. NothingSkipped' /\ NeverTwice'
  <2>1. ASSUME NEW i \in Id, row'[i].gen # 0
        PROVE  row'[i] = row[i] /\ tried'[i] = tried[i]
    BY <1>1, <2>1, IdleTyped
  <2>2. NothingSkipped'
    BY <2>1 DEF SchedInv, NothingSkipped, Exists
  <2>3. NeverTwice'
    BY <2>1 DEF SchedInv, NeverTwice, Exists
  <2> QED  BY <2>2, <2>3
<1>6. Running'
  <2>1. SUFFICES ASSUME ticker.pc = "running", NEW j, j = ticker.id
                 PROVE  /\ j \in Id /\ ticker.loaded[j].gen # 0 /\ ticker.loaded[j].next <= ticker.now
                        /\ row'[j].gen = ticker.loaded[j].gen => tried'[j] = ticker.now
    BY DEF Running
  <2>2. /\ j \in Id /\ ticker.loaded[j].gen # 0 /\ ticker.loaded[j].next <= ticker.now
        /\ row[j].gen = ticker.loaded[j].gen => tried[j] = ticker.now
    BY <2>1 DEF SchedInv, Running
  <2> QED  BY <1>1, <2>2, IdleTyped
<1> QED  BY <1>2, <1>3, <1>4, <1>5, <1>6 DEF SchedInv

LEMMA CommitDeleteKeeps ==
  ASSUME SchedInv, NEW r \in Request, CommitDelete(r)
  PROVE  SchedInv'
<1>1. Remove({req[r].id}) /\ Finish(r) /\ UNCHANGED <<clock, ticker, created, restarts>>
  BY DEF CommitDelete
<1> QED  BY <1>1, Finished, RemoveKeeps

LEMMA CascadeDeleteKeeps ==
  ASSUME SchedInv, CascadeDelete
  PROVE  SchedInv'
<1>1. PICK S \in SUBSET Id : Remove(S) /\ UNCHANGED <<clock, ticker, req, created, restarts>>
  BY DEF CascadeDelete
<1>2. req' \in [Request -> RequestState] /\ Requests'
  BY <1>1 DEF SchedInv, TypeOK, Requests
<1> QED  BY <1>1, <1>2, RemoveKeeps

-----------------------------------------------------------------------------
LEMMA BeginCreateKeeps ==
  ASSUME SchedInv, NEW r \in Request, BeginCreate(r)
  PROVE  SchedInv'
<1>1. PICK q : q = [Idle EXCEPT !.op = "create", !.at = clock]
  OBVIOUS
<1>2. q \in RequestState /\ q.op = "create"
  BY <1>1, IdleTyped, Typed DEF RequestState
<1>3. Sound(q)
  BY <1>2 DEF Sound
<1>4. req' = [req EXCEPT ![r] = q] /\ UNCHANGED <<row, clock, ticker, created, tried, restarts>>
  BY <1>1 DEF BeginCreate, Accept
<1> QED  BY <1>2, <1>3, <1>4, RequestStep

LEMMA LoadKeeps ==
  ASSUME SchedInv, NEW r \in Request, NEW i \in Id, NEW want \in BOOLEAN,
         Exists(i), LoadToggle(r, i, want),
         UNCHANGED <<row, clock, ticker, created, tried, restarts>>
  PROVE  SchedInv'
<1>1. PICK q : q = [op |-> "toggle", id |-> i, gen |-> row[i].gen, was |-> row[i].enabled,
                    want |-> want, at |-> clock]
  OBVIOUS
<1>2. clock \in Time /\ i \in 0..MaxId /\ row[i] \in Row /\ row[i].gen \in 1..MaxCreated
  BY Typed DEF Exists, Row, Id
<1>3. q \in RequestState /\ q.op = "toggle" /\ q.id = i /\ q.gen = row[i].gen
  BY <1>1, <1>2 DEF RequestState, Row
<1>4. Sound(q)
  BY <1>2, <1>3 DEF Sound
<1>5. req' = [req EXCEPT ![r] = q]
  BY <1>1 DEF LoadToggle, Accept
<1> QED  BY <1>3, <1>4, <1>5, RequestStep

LEMMA BeginToggleKeeps ==
  ASSUME SchedInv, NEW r \in Request, BeginToggle(r)
  PROVE  SchedInv'
<1>1. PICK i \in Id : Exists(i) /\ LoadToggle(r, i, ~row[i].enabled)
  BY DEF BeginToggle
<1>2. UNCHANGED <<row, clock, ticker, created, tried, restarts>>
  BY DEF BeginToggle
<1>3. PICK want \in BOOLEAN : want = ~row[i].enabled
  OBVIOUS
<1>4. LoadToggle(r, i, want)
  BY <1>1, <1>3
<1> QED  BY <1>1, <1>2, <1>4, LoadKeeps

LEMMA BeginSetEnabledKeeps ==
  ASSUME SchedInv, NEW r \in Request, BeginSetEnabled(r)
  PROVE  SchedInv'
BY LoadKeeps DEF BeginSetEnabled

\* A request that names a schedule and has nothing else to remember.
LEMMA NameKeeps ==
  ASSUME SchedInv, NEW r \in Request, NEW op \in {"delete", "run_now"}, NEW i \in Id,
         Accept(r, [Idle EXCEPT !.op = op, !.id = i]),
         UNCHANGED <<row, clock, ticker, created, tried, restarts>>
  PROVE  SchedInv'
<1>1. PICK q : q = [Idle EXCEPT !.op = op, !.id = i]
  OBVIOUS
<1>2. i \in 0..MaxId
  BY DEF Id
<1>3. q \in RequestState /\ q.op = op /\ q.id = i
  BY <1>1, <1>2, IdleTyped DEF RequestState
<1>4. Sound(q)
  BY <1>3 DEF Sound
<1>5. req' = [req EXCEPT ![r] = q]
  BY <1>1 DEF Accept
<1> QED  BY <1>3, <1>4, <1>5, RequestStep

LEMMA BeginDeleteKeeps ==
  ASSUME SchedInv, NEW r \in Request, BeginDelete(r)
  PROVE  SchedInv'
BY NameKeeps DEF BeginDelete

LEMMA BeginRunNowKeeps ==
  ASSUME SchedInv, NEW r \in Request, BeginRunNow(r)
  PROVE  SchedInv'
BY NameKeeps DEF BeginRunNow

LEMMA RecordRunNowKeeps ==
  ASSUME SchedInv, NEW r \in Request, RecordRunNow(r)
  PROVE  SchedInv'
BY IdleTyped, RequestStep DEF RecordRunNow, Finish

-----------------------------------------------------------------------------
LEMMA TickKeeps ==
  ASSUME SchedInv, Tick
  PROVE  SchedInv'
<1>1. /\ clock < MaxClock /\ clock' = clock + 1
      /\ UNCHANGED <<row, ticker, req, created, tried, restarts>>
  BY DEF Tick
<1>2. clock' \in Time /\ clock \in Nat
  BY <1>1, Typed DEF Time
<1>3. TypeOK'
  BY <1>1, <1>2 DEF SchedInv, TypeOK
<1>4. Clocked'
  <2>1. ticker.now \in Nat /\ ticker.now <= clock
    BY Typed DEF SchedInv, Clocked, Time
  <2>2. ASSUME NEW i \in Id
        PROVE  tried[i] <= clock'
    <3>1. tried[i] \in Nat /\ tried[i] <= clock
      BY Typed DEF SchedInv, Clocked, Time
    <3> QED  BY <1>1, <1>2, <3>1
  <2>3. ticker.now <= clock'
    BY <1>1, <1>2, <2>1
  <2> QED  BY <1>1, <2>2, <2>3 DEF SchedInv, Clocked
<1>5. Numbered' /\ Requests' /\ Running' /\ Waiting'
  BY <1>1 DEF SchedInv, Numbered, Requests, Running, Waiting
<1>6. NothingSkipped' /\ NeverTwice'
  BY <1>1 DEF SchedInv, NothingSkipped, NeverTwice, Exists
<1> QED  BY <1>3, <1>4, <1>5, <1>6 DEF SchedInv

\* The process dies and comes back: the table stays.
LEMMA RestartKeeps ==
  ASSUME SchedInv, Restart
  PROVE  SchedInv'
<1>1. /\ restarts' = restarts + 1 /\ restarts' \in 0..MaxRestarts /\ restarts' # 0
      /\ ticker' = Asleep /\ req' = [r \in Request |-> Idle]
      /\ UNCHANGED <<row, clock, created, tried>>
  <2>1. restarts \in 0..MaxRestarts /\ restarts < MaxRestarts /\ restarts' = restarts + 1
    BY DEF Restart, SchedInv, TypeOK
  <2>2. restarts' \in 0..MaxRestarts /\ restarts' # 0
    BY <2>1
  <2> QED  BY <2>1, <2>2 DEF Restart
<1>2. 0 <= clock /\ 0 <= created
  BY Typed DEF Time
<1>3. TypeOK'
  BY <1>1, IdleTyped, AsleepTyped DEF SchedInv, TypeOK
<1>4. Clocked' /\ Numbered' /\ Waiting'
  BY <1>1, <1>2, IdleTyped, AsleepTyped DEF SchedInv, Clocked, Numbered, Waiting, Waits
<1>5. NothingSkipped'
  BY <1>1 DEF SchedInv, NothingSkipped, Exists
<1>6. Requests'
  BY <1>1, IdleTyped DEF Requests
<1>7. Running' /\ NeverTwice'
  BY <1>1, AsleepTyped DEF Running, NeverTwice
<1> QED  BY <1>3, <1>4, <1>5, <1>6, <1>7 DEF SchedInv

LEMMA InitSchedInv == Init => SchedInv
<1> SUFFICES ASSUME Init PROVE SchedInv
  OBVIOUS
<1>1. 0 \in Time /\ 0 \in 0..MaxCreated /\ 0 \in 0..MaxRestarts
  BY DEF Time
<1>2. TypeOK
  BY <1>1, IdleTyped, AsleepTyped DEF Init, TypeOK
<1>3. Clocked /\ Numbered /\ Waiting
  BY IdleTyped, AsleepTyped DEF Init, Clocked, Numbered, Waiting
<1>4. NothingSkipped /\ NeverTwice
  BY IdleTyped DEF Init, NothingSkipped, NeverTwice, Exists
<1>5. Requests
  BY IdleTyped DEF Init, Requests
<1>6. Running
  BY AsleepTyped DEF Init, Running
<1> QED  BY <1>2, <1>3, <1>4, <1>5, <1>6 DEF SchedInv

LEMMA NextSchedInv == SchedInv /\ [Next]_vars => SchedInv'
<1> SUFFICES ASSUME SchedInv, [Next]_vars PROVE SchedInv'
  OBVIOUS
<1>1. CASE UNCHANGED vars
  <2>1. UNCHANGED <<row, clock, ticker, req, created, tried, restarts>>
    BY <1>1 DEF vars
  <2>2. TypeOK' /\ Clocked' /\ Numbered' /\ Requests' /\ Running' /\ Waiting'
    BY <2>1 DEF SchedInv, TypeOK, Clocked, Numbered, Requests, Running, Waiting
  <2>3. NothingSkipped' /\ NeverTwice'
    BY <2>1 DEF SchedInv, NothingSkipped, NeverTwice, Exists
  <2> QED  BY <2>2, <2>3 DEF SchedInv
<1>2. CASE Ticking
  BY <1>2, WakeKeeps, EndTickKeeps, SkipKeeps, FireKeeps, RecordKeeps DEF Ticking
<1>3. ASSUME NEW r \in Request, Handle(r)
      PROVE  SchedInv'
  BY <1>3, BeginCreateKeeps, CommitCreateKeeps, BeginToggleKeeps, BeginSetEnabledKeeps,
     CommitToggleKeeps, BeginDeleteKeeps, CommitDeleteKeeps, BeginRunNowKeeps,
     RecordRunNowKeeps DEF Handle
<1>4. CASE CascadeDelete \/ Tick \/ Restart
  BY <1>4, CascadeDeleteKeeps, TickKeeps, RestartKeeps
<1> QED  BY <1>1, <1>2, <1>3, <1>4 DEF Next

-----------------------------------------------------------------------------
\* The inductive invariant holds in every reachable state, fair or not.
THEOREM Invariance == Spec => []SchedInv
BY InitSchedInv, NextSchedInv, PTL DEF Spec

\* Rows, the ticker's session and requests hold what they can hold.
THEOREM TypeCorrect == Spec => []TypeOK
<1>1. SchedInv => TypeOK
  BY DEF SchedInv
<1> QED  BY <1>1, Invariance, PTL

\* No occurrence is passed over (scheduler.py _run_one).
THEOREM Skipped == Spec => []NothingSkipped
<1>1. SchedInv => NothingSkipped
  BY DEF SchedInv
<1> QED  BY <1>1, Invariance, PTL

\* The ticker runs no occurrence twice while the process lives (scheduler.py
\* run_due_schedules).
THEOREM Once == Spec => []NeverTwice
<1>1. SchedInv => NeverTwice
  BY DEF SchedInv
<1> QED  BY <1>1, Invariance, PTL

\* The row that a tick sees of a schedule it runs says an occurrence after the
\* schedule was created or resumed, unless its next run was last computed from a
\* time before that resume or for another schedule (admin.py schedules_toggle,
\* scheduler.py run_due_schedules).
THEOREM NoneMadeUp == Spec => NoBackfill
<1>1. ASSUME SchedInv, [Next]_vars, NEW i \in Id, Fire(i),
             Shown(i).raced \cap {"reused", "resumed"} = {}
      PROVE  Shown(i).next >= NextRun(Shown(i).gen, Shown(i).since)
  BY <1>1, ShownWaits DEF Fire, Waits
<1>2. SchedInv /\ [Next]_vars =>
        [\A i \in Id : Fire(i) /\ Shown(i).raced \cap {"reused", "resumed"} = {} =>
           Shown(i).next >= NextRun(Shown(i).gen, Shown(i).since)]_vars
  BY <1>1
<1> QED  BY <1>2, Invariance, PTL DEF Spec, NoBackfill
=============================================================================
