----------------------------- MODULE MCAppAccess -----------------------------
\* Instances of AppAccess for TLC.
EXTENDS AppAccess, TLC

CONSTANTS u1, u2, s1, s2, j1, j2, r1

TwoUsers   == {u1, u2}
TwoSlugs   == {s1, s2}
TwoJobs    == {j1, j2}
OneRequest == {r1}

Symmetry == Permutations(Job)

\* A user's request meets up to two changes; a third meets only other changes.
ThirdChangeAlone == changes > 2 => req[r1] = NoRequest
=============================================================================
