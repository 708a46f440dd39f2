----------------------------- MODULE MCScheduler -----------------------------
\* Instances of Scheduler for TLC.
EXTENDS Scheduler

CONSTANT r1

OneRequest == {r1}

\* The first schedule has an occurrence at every time, the second at odd times.
Cadence(g, t) == IF g = 1 THEN t + 1 ELSE t + 1 + (t % 2)
=============================================================================
