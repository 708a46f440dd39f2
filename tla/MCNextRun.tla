------------------------------ MODULE MCNextRun ------------------------------
\* The Gregorian calendar from Monday, 1 January 2024 to 2028, and every cadence
\* at one time of day, with a moment before and a moment after it.
EXTENDS NextRun, Sequences

Lengths(y) == <<31, IF y = 0 \/ y = 4 THEN 29 ELSE 28, 31, 30, 31, 30, 31, 31, 30, 31, 30, 31>>

\* Month m is month (m % 12) + 1 of the year 2024 + m \div 12.
GregorianFirst ==
  LET first[m \in 0..37] ==
        IF m = 0 THEN 0 ELSE first[m - 1] + Lengths((m - 1) \div 12)[((m - 1) % 12) + 1]
  IN  first

Months == 0..28
Days   == 0..(GregorianFirst[29] - 1)

MonthOfDay ==
  [d \in 0..(GregorianFirst[37] - 1) |->
     CHOOSE m \in 0..36 : GregorianFirst[m] <= d /\ d < GregorianFirst[m + 1]]

MCMonthOf(d)  == MonthOfDay[d]
MCFirstDay(m) == GregorianFirst[m]

Times == 0..2

Cadences ==
  {[frequency |-> "daily", at |-> 1, weekday |-> 0, monthday |-> 1]}
    \cup [frequency : {"weekly"}, at : {1}, weekday : 0..6, monthday : {1}]
    \cup [frequency : {"monthly"}, at : {1}, weekday : {0}, monthday : 1..31]

\* Two years, the first of them a leap year.
Starts == 0..730
=============================================================================
